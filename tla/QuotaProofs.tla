---------------------------- MODULE QuotaProofs ----------------------------
(***************************************************************************)
(* The quotas hold for any users, uploads, sizes and limits: a user whose  *)
(* uploads never overlap stays within the quota, and however many overlap, *)
(* they overrun it by the last file at most.                               *)
(***************************************************************************)
EXTENDS Quota, FiniteSetTheorems, TLAPS

StoredIsFinite == IsFiniteSet(stored)

\* An upload under way has stored nothing yet.
ActiveIsNew == \A u \in Uploads : Active(u) => u \notin stored

\* At most one upload holds an owner's row: that is what the lock, or the single
\* writer, is for.
OneHolder ==
  /\ SingleWriter => \A u, w \in Writing : u = w
  /\ \A u, w \in Locking : OwnerOf[u] = OwnerOf[w] => u = w

\* What the sum under the lock has shown stays true until the lock is let go.
LockedFits ==
  UserQuota > 0 => \A u \in Locking : Usage(OwnerOf[u]) <= UserQuota

\* A user whose uploads never overlap has one under way, and what the first check
\* has found still fits.
SerialUser ==
  \A o \in Users \ raced :
    /\ \A u, w \in OfUser(o) : Active(u) /\ Active(w) => u = w
    /\ UserQuota > 0 => /\ Usage(o) <= UserQuota
                        /\ \A u \in OfUser(o) : Active(u) => Usage(o) + Size[u] <= UserQuota

\* The same for the total, which is counted between "user" and "checked".
SerialTotal ==
  ~crowded /\ ~misled =>
    /\ \A u, w \in Uploads : Active(u) /\ Active(w) => u = w
    /\ TotalQuota > 0 => /\ Total <= TotalQuota
                         /\ \A u \in Uploads : Active(u) /\ pc[u] # "user" => Total + Size[u] <= TotalQuota

IInv ==
  /\ TypeOK /\ StoredIsFinite
  /\ ActiveIsNew /\ OneHolder /\ LockedFits
  /\ SerialUser /\ SerialTotal /\ OverrunByOneFileAtMost

-----------------------------------------------------------------------------
(* Sums of sizes. *)

\* The units of finitely many files are finitely many.
LEMMA UnitsFinite ==
  ASSUME NEW S \in SUBSET Uploads, IsFiniteSet(S)
  PROVE  IsFiniteSet(Units(S)) /\ Sizes(S) \in Nat
<1>1. ASSUME NEW u \in S
      PROVE  IsFiniteSet({u} \X (1 .. Size[u]))
  <2>1. Size[u] \in Nat
    BY ConstantsAssumption
  <2>2. IsFiniteSet(1 .. Size[u])
    BY <2>1, FS_Interval
  <2>3. IsFiniteSet({u})
    BY FS_Singleton
  <2> QED BY <2>2, <2>3, FS_Product
<1>2. IsFiniteSet({{u} \X (1 .. Size[u]) : u \in S})
  <2> DEFINE F == [u \in S |-> {u} \X (1 .. Size[u])]
             T == {{u} \X (1 .. Size[u]) : u \in S}
  <2>1. F \in Surjection(S, T)
    BY DEF Surjection
  <2> HIDE DEF F, T
  <2>2. IsFiniteSet(T)
    BY <2>1, FS_Surjection
  <2> QED BY <2>2 DEF T
<1>3. IsFiniteSet(Units(S))
  <2> DEFINE T == {{u} \X (1 .. Size[u]) : u \in S}
  <2>1. \A X \in T : IsFiniteSet(X)
    BY <1>1
  <2>2. IsFiniteSet(T)
    BY <1>2
  <2> HIDE DEF T
  <2>3. IsFiniteSet(UNION T)
    BY <2>1, <2>2, FS_UNION
  <2> QED BY <2>3 DEF T, Units
<1> QED BY <1>3, FS_CardinalityType DEF Sizes

LEMMA SizesOfNone == Sizes({}) = 0
<1>1. Units({}) = {}
  BY DEF Units
<1> QED BY <1>1, FS_EmptySet DEF Sizes

\* One more file adds its size.
LEMMA SizesAdd ==
  ASSUME NEW S \in SUBSET Uploads, IsFiniteSet(S), NEW u \in Uploads, u \notin S
  PROVE  Sizes(S \union {u}) = Sizes(S) + Size[u]
<1> DEFINE A == Units(S)
           B == {u} \X (1 .. Size[u])
<1>1. Size[u] \in Nat
  BY ConstantsAssumption
<1>2. IsFiniteSet(A) /\ Cardinality(A) \in Nat
  BY UnitsFinite DEF Sizes
<1>3. IsFiniteSet(B) /\ Cardinality(B) = Size[u]
  <2>1. IsFiniteSet(1 .. Size[u]) /\ Cardinality(1 .. Size[u]) = Size[u]
    BY <1>1, FS_Interval
  <2>2. IsFiniteSet({u}) /\ Cardinality({u}) = 1
    BY FS_Singleton
  <2>3. IsFiniteSet(B) /\ Cardinality(B) = 1 * Size[u]
    BY <2>1, <2>2, FS_Product
  <2> QED BY <1>1, <2>3
<1>4. A \cap B = {}
  BY DEF Units
<1>5. Units(S \union {u}) = A \union B
  BY DEF Units
<1> HIDE DEF A, B
<1>6. Cardinality(A \union B) = Cardinality(A) + Cardinality(B) - Cardinality(A \cap B)
  BY <1>2, <1>3, FS_Union
<1>7. Cardinality(A \cap B) = 0
  BY <1>4, FS_EmptySet
<1>8. Cardinality(A \union B) = Cardinality(A) + Size[u]
  BY <1>1, <1>2, <1>3, <1>6, <1>7
<1>9. Sizes(S \union {u}) = Cardinality(A \union B) /\ Sizes(S) = Cardinality(A)
  BY Zenon, <1>5 DEF Sizes, A
<1> QED BY <1>8, <1>9

\* One file less takes its size away.
LEMMA SizesRemove ==
  ASSUME NEW S \in SUBSET Uploads, IsFiniteSet(S), NEW u \in S
  PROVE  Sizes(S) = Sizes(S \ {u}) + Size[u]
<1>1. IsFiniteSet(S \ {u})
  BY FS_RemoveElement
<1>2. (S \ {u}) \union {u} = S /\ S \ {u} \in SUBSET Uploads
  OBVIOUS
<1>3. Sizes((S \ {u}) \union {u}) = Sizes(S \ {u}) + Size[u]
  BY <1>1, <1>2, SizesAdd
<1> QED BY <1>2, <1>3

\* Usages and the total are numbers.
LEMMA UsageType ==
  ASSUME TypeOK, StoredIsFinite
  PROVE  Total \in Nat /\ \A o : Usage(o) \in Nat
<1>1. Total \in Nat
  BY UnitsFinite DEF TypeOK, StoredIsFinite, Total
<1>2. ASSUME NEW o
      PROVE  Usage(o) \in Nat
  <2>1. IsFiniteSet(stored \cap OfUser(o)) /\ stored \cap OfUser(o) \in SUBSET Uploads
    BY FS_Intersection DEF TypeOK, StoredIsFinite
  <2> QED BY <2>1, UnitsFinite DEF Usage
<1> QED BY <1>1, <1>2

\* Sums are unchanged while what is stored is.
LEMMA SameUsage ==
  ASSUME UNCHANGED stored
  PROVE  Total' = Total /\ \A o : Usage(o)' = Usage(o)
BY DEF Total, Usage

\* A committed file adds its size to its owner's usage and to the total.
LEMMA UsageOfMore ==
  ASSUME TypeOK, StoredIsFinite, NEW u \in Uploads, u \notin stored, stored' = stored \union {u}
  PROVE  /\ Total' = Total + Size[u]
         /\ Usage(OwnerOf[u])' = Usage(OwnerOf[u]) + Size[u]
         /\ \A o : o # OwnerOf[u] => Usage(o)' = Usage(o)
<1>1. Total' = Total + Size[u]
  BY SizesAdd DEF TypeOK, StoredIsFinite, Total
<1>2. Usage(OwnerOf[u])' = Usage(OwnerOf[u]) + Size[u]
  <2> DEFINE T == stored \cap OfUser(OwnerOf[u])
  <2>1. IsFiniteSet(T) /\ T \in SUBSET Uploads /\ u \notin T
    BY FS_Intersection DEF TypeOK, StoredIsFinite
  <2>2. stored' \cap OfUser(OwnerOf[u]) = T \union {u}
    BY DEF OfUser
  <2> HIDE DEF T
  <2>3. Sizes(T \union {u}) = Sizes(T) + Size[u]
    BY <2>1, SizesAdd
  <2> QED BY <2>2, <2>3 DEF Usage, T, OfUser
<1>3. ASSUME NEW o, o # OwnerOf[u]
      PROVE  Usage(o)' = Usage(o)
  <2>1. stored' \cap OfUser(o) = stored \cap OfUser(o)
    BY <1>3 DEF OfUser
  <2> QED BY <2>1 DEF Usage, OfUser
<1> QED BY <1>1, <1>2, <1>3

\* A deleted file takes its size away.
LEMMA UsageOfLess ==
  ASSUME TypeOK, StoredIsFinite, NEW u \in stored, stored' = stored \ {u}
  PROVE  /\ Total = Total' + Size[u]
         /\ Usage(OwnerOf[u]) = Usage(OwnerOf[u])' + Size[u]
         /\ \A o : o # OwnerOf[u] => Usage(o)' = Usage(o)
<1>1. Total = Total' + Size[u]
  BY SizesRemove DEF TypeOK, StoredIsFinite, Total
<1>2. Usage(OwnerOf[u]) = Usage(OwnerOf[u])' + Size[u]
  <2> DEFINE T == stored \cap OfUser(OwnerOf[u])
  <2>1. IsFiniteSet(T) /\ T \in SUBSET Uploads /\ u \in T
    BY FS_Intersection DEF TypeOK, StoredIsFinite, OfUser
  <2>2. stored' \cap OfUser(OwnerOf[u]) = T \ {u}
    BY DEF OfUser
  <2> HIDE DEF T
  <2>3. Sizes(T) = Sizes(T \ {u}) + Size[u]
    BY <2>1, SizesRemove
  <2> QED BY <2>2, <2>3 DEF Usage, T, OfUser
<1>3. ASSUME NEW o, o # OwnerOf[u]
      PROVE  Usage(o)' = Usage(o)
  <2>1. stored' \cap OfUser(o) = stored \cap OfUser(o)
    BY <1>3 DEF OfUser
  <2> QED BY <2>1 DEF Usage, OfUser
<1> QED BY <1>1, <1>2, <1>3

-----------------------------------------------------------------------------
(* Steps. *)

Steps == {"idle", "user", "checked", "written", "locked", "passed"}

LEMMA InitInv == Init => IInv
<1> SUFFICES ASSUME Init PROVE IInv
  OBVIOUS
<1>1. TypeOK
  BY ConstantsAssumption DEF Init, TypeOK
<1>2. StoredIsFinite
  BY FS_EmptySet DEF Init, StoredIsFinite
<1>3. \A u \in Uploads : ~Active(u)
  BY DEF Init, Active
<1>4. Writing = {} /\ Locking = {}
  BY DEF Init, Writing, Locking
<1>5. Total = 0 /\ \A o : Usage(o) = 0
  <2>1. \A o : stored \cap OfUser(o) = {}
    BY DEF Init
  <2> QED BY <2>1, SizesOfNone DEF Init, Total, Usage
<1>6. ActiveIsNew /\ OneHolder /\ LockedFits
  BY <1>3, <1>4 DEF ActiveIsNew, OneHolder, LockedFits
<1>7. SerialUser /\ SerialTotal
  <2>1. \A o : \A u \in OfUser(o) : u \in Uploads
    BY DEF OfUser
  <2> QED BY <1>3, <1>5, <2>1, ConstantsAssumption DEF SerialUser, SerialTotal
<1>8. OverrunByOneFileAtMost
  BY <1>5, ConstantsAssumption DEF OverrunByOneFileAtMost, Over
<1> QED BY <1>1, <1>2, <1>6, <1>7, <1>8 DEF IInv

\* What only what is stored can disturb.
LEMMA SameStored ==
  ASSUME IInv, UNCHANGED stored
  PROVE  StoredIsFinite' /\ OverrunByOneFileAtMost'
<1>1. \A o : Usage(o)' = Usage(o)
  BY SameUsage
<1>2. \A o : (stored \cap OfUser(o))' = stored \cap OfUser(o)
  BY DEF OfUser
<1> QED BY <1>1, <1>2 DEF IInv, StoredIsFinite, OverrunByOneFileAtMost, Over

\* An upload that ends without a file leaves less to account for.
LEMMA StopInv ==
  ASSUME IInv, NEW u \in Uploads, Goto(u, "idle"), UNCHANGED <<stored, raced, crowded>>,
         cached' \in Nat \union {Stale}, misled' \in BOOLEAN, misled => misled'
  PROVE  IInv'
<1>1. TypeOK'
  BY DEF IInv, TypeOK, Goto
<1>2. Total' = Total /\ \A o : Usage(o)' = Usage(o)
  BY SameUsage
<1>3. StoredIsFinite' /\ OverrunByOneFileAtMost'
  BY SameStored
<1>4. \A w \in Uploads : w # u => pc'[w] = pc[w]
  BY DEF IInv, TypeOK, Goto
<1>5. ~Active(u)' /\ u \notin Writing' /\ u \notin Locking'
  BY DEF IInv, TypeOK, Goto, Active, Writing, Locking
<1>6. Writing' \subseteq Writing /\ Locking' \subseteq Locking
  BY <1>4, <1>5 DEF Writing, Locking
<1>7. \A w \in Uploads : Active(w)' => Active(w) /\ w # u
  BY <1>4, <1>5 DEF Active
<1>8. ActiveIsNew' /\ OneHolder' /\ LockedFits'
  BY <1>2, <1>6, <1>7 DEF IInv, ActiveIsNew, OneHolder, LockedFits
<1>9. SerialUser'
  <2>1. \A o : \A w \in OfUser(o) : w \in Uploads
    BY DEF OfUser
  <2> QED BY <1>2, <1>7, <2>1 DEF IInv, SerialUser, OfUser
<1>10. SerialTotal'
  BY <1>2, <1>4, <1>7 DEF IInv, SerialTotal
<1> QED BY <1>1, <1>3, <1>8, <1>9, <1>10 DEF IInv

\* An upload that begins finds room for its file among what is committed.
LEMMA CheckUserInv ==
  ASSUME IInv, NEW u \in Uploads, CheckUser(u)
  PROVE  IInv'
<1> USE DEF CheckUser
<1>0. cached' \in Nat \union {Stale}
  BY UsageType DEF IInv, TypeOK, KnownTotal
<1>1. TypeOK'
  BY <1>0, ConstantsAssumption DEF IInv, TypeOK, Goto, OfUser
<1>2. Total' = Total /\ \A o : Usage(o)' = Usage(o)
  BY SameUsage
<1>3. StoredIsFinite' /\ OverrunByOneFileAtMost'
  BY SameStored
<1>4. CASE UNCHANGED <<pc, raced, crowded>>
  <2>1. ActiveIsNew' /\ OneHolder' /\ LockedFits'
    BY <1>2, <1>4 DEF IInv, ActiveIsNew, OneHolder, LockedFits, Active, Writing, Locking
  <2>2. SerialUser' /\ SerialTotal'
    BY <1>2, <1>4 DEF IInv, SerialUser, SerialTotal, Active, OfUser
  <2> QED BY <1>1, <1>3, <2>1, <2>2 DEF IInv
<1>5. CASE /\ UserQuota > 0 => Fits(u, UserQuota - Usage(OwnerOf[u]))
           /\ Goto(u, "user")
           /\ raced' = IF \E w \in OfUser(OwnerOf[u]) : Active(w)
                       THEN raced \union {OwnerOf[u]} ELSE raced
           /\ crowded' = (crowded \/ \E w \in Uploads : Active(w))
  <2>1. \A w \in Uploads : w # u => pc'[w] = pc[w]
    BY <1>5 DEF IInv, TypeOK, Goto
  <2>2. pc'[u] = "user" /\ ~Active(u) /\ Active(u)'
    BY <1>5 DEF IInv, TypeOK, Goto, Active
  <2>3. Writing' = Writing /\ Locking' = Locking
    BY <2>1, <2>2 DEF Writing, Locking, Active
  <2>4. \A w \in Uploads : w # u => (Active(w)' <=> Active(w))
    BY <2>1 DEF Active
  <2>5. ActiveIsNew' /\ OneHolder' /\ LockedFits'
    BY <1>2, <2>3, <2>4 DEF IInv, ActiveIsNew, OneHolder, LockedFits
  <2>6. SerialUser'
    <3> SUFFICES ASSUME NEW o \in Users \ raced'
                 PROVE  /\ \A v, w \in OfUser(o) : Active(v)' /\ Active(w)' => v = w
                        /\ UserQuota > 0 =>
                             /\ Usage(o) <= UserQuota
                             /\ \A w \in OfUser(o) : Active(w)' => Usage(o) + Size[w] <= UserQuota
      BY <1>2 DEF SerialUser, OfUser
    <3>1. o \in Users \ raced /\ \A w \in OfUser(o) : w \in Uploads /\ OwnerOf[w] = o
      BY <1>5 DEF OfUser
    <3>2. CASE o # OwnerOf[u]
      <4>1. \A w \in OfUser(o) : w # u
        BY <3>1, <3>2
      <4> QED BY <2>4, <3>1, <4>1 DEF IInv, SerialUser
    <3>3. CASE o = OwnerOf[u]
      <4>1. \A w \in OfUser(o) : ~Active(w)
        BY <1>5, <3>3
      <4>2. \A w \in OfUser(o) : Active(w)' => w = u
        BY <2>4, <3>1, <4>1
      <4>3. UserQuota > 0 => Usage(o) + Size[u] <= UserQuota
        <5>1. Usage(o) \in Nat
          BY UsageType DEF IInv
        <5> QED BY <1>5, <3>3, <5>1, ConstantsAssumption DEF Fits
      <4> QED BY <3>1, <4>2, <4>3 DEF IInv, SerialUser
    <3> QED BY <3>2, <3>3
  <2>7. SerialTotal'
    BY <1>2, <1>5, <2>2, <2>4 DEF IInv, SerialTotal
  <2> QED BY <1>1, <1>3, <2>5, <2>6, <2>7 DEF IInv
<1> QED BY <1>4, <1>5

\* An upload that goes on keeps what holds of its owner and of the total, once the
\* locks it has then are accounted for and the total has been counted.
LEMMA GoOnInv ==
  ASSUME IInv, NEW u \in Uploads, Active(u), NEW step \in Steps \ {"idle"}, Goto(u, step),
         UNCHANGED <<stored, raced, crowded>>,
         cached' \in Nat \union {Stale}, misled' \in BOOLEAN, misled => misled',
         OneHolder', LockedFits',
         pc[u] = "user" /\ ~crowded /\ ~misled' /\ TotalQuota > 0 => Total + Size[u] <= TotalQuota
  PROVE  IInv'
<1>1. TypeOK'
  BY DEF IInv, TypeOK, Goto, Steps
<1>2. Total' = Total /\ \A o : Usage(o)' = Usage(o)
  BY SameUsage
<1>3. StoredIsFinite' /\ OverrunByOneFileAtMost'
  BY SameStored
<1>4. \A w \in Uploads : Active(w)' <=> Active(w)
  BY DEF IInv, TypeOK, Goto, Active
<1>5. ActiveIsNew'
  BY <1>4 DEF IInv, ActiveIsNew
<1>6. SerialUser'
  <2>1. \A o : \A w \in OfUser(o) : w \in Uploads
    BY DEF OfUser
  <2> QED BY <1>2, <1>4, <2>1 DEF IInv, SerialUser, OfUser
<1>7. SerialTotal'
  <2>1. \A w \in Uploads : w # u => pc'[w] = pc[w]
    BY DEF IInv, TypeOK, Goto
  <2> QED BY <1>2, <1>4, <2>1 DEF IInv, SerialTotal
<1> QED BY <1>1, <1>3, <1>5, <1>6, <1>7 DEF IInv

\* A step between no locks leaves the locks as they are.
LEMMA SameHolders ==
  ASSUME IInv, UNCHANGED <<stored, Writing, Locking>>
  PROVE  OneHolder' /\ LockedFits'
<1>1. \A o : Usage(o)' = Usage(o)
  BY SameUsage
<1> QED BY <1>1 DEF IInv, OneHolder, LockedFits

\* A total that is remembered is a number, and none below the committed one has
\* been used while misled is FALSE.
LEMMA RememberedTotal ==
  ASSUME IInv, RememberTotal
  PROVE  /\ KnownTotal \in Nat /\ cached' \in Nat \union {Stale}
         /\ misled' \in BOOLEAN /\ (misled => misled')
         /\ ~misled' => Total <= KnownTotal
<1>1. Total \in Nat
  BY UsageType DEF IInv
<1>2. KnownTotal \in Nat
  BY <1>1 DEF IInv, TypeOK, KnownTotal
<1>3. (misled => misled') /\ misled' \in BOOLEAN
  BY Zenon DEF IInv, TypeOK, RememberTotal
<1>4. ~misled' => Total <= KnownTotal
  <2>1. ~misled' => ~(KnownTotal < Total)
    BY Zenon DEF RememberTotal
  <2> QED BY <1>1, <1>2, <2>1
<1>5. cached' \in Nat \union {Stale}
  BY <1>2 DEF RememberTotal
<1> QED BY <1>2, <1>3, <1>4, <1>5

LEMMA CheckTotalInv ==
  ASSUME IInv, NEW u \in Uploads, CheckTotal(u)
  PROVE  IInv'
<1>1. /\ cached' \in Nat \union {Stale} /\ misled' \in BOOLEAN /\ (misled => misled')
      /\ ~misled' /\ TotalQuota > 0 => Total <= KnownTotal
  <2>1. CASE TotalQuota > 0
    BY <2>1, RememberedTotal DEF CheckTotal
  <2>2. CASE ~(TotalQuota > 0)
    BY <2>2 DEF CheckTotal, IInv, TypeOK
  <2> QED BY <2>1, <2>2
<1>2. CASE Goto(u, "idle")
  BY <1>1, <1>2, StopInv DEF CheckTotal
<1>3. CASE Goto(u, "checked") /\ (TotalQuota > 0 => Fits(u, TotalQuota - KnownTotal))
  <2>1. Active(u)
    BY DEF CheckTotal, Active
  <2>2. OneHolder' /\ LockedFits'
    <3>1. UNCHANGED Writing /\ UNCHANGED Locking
      BY <1>3 DEF CheckTotal, Goto, IInv, TypeOK, Writing, Locking
    <3> QED BY <3>1, SameHolders DEF CheckTotal
  <2>3. ~misled' /\ TotalQuota > 0 => Total + Size[u] <= TotalQuota
    <3>1. Total \in Nat
      BY UsageType DEF IInv
    <3>2. KnownTotal \in Int /\ Size[u] \in Nat /\ TotalQuota \in Nat
      BY <3>1, ConstantsAssumption DEF IInv, TypeOK, KnownTotal
    <3> QED BY <1>1, <1>3, <3>1, <3>2 DEF Fits
  <2>4. "checked" \in Steps \ {"idle"}
    BY DEF Steps
  <2> QED BY <1>1, <1>3, <2>1, <2>2, <2>3, <2>4, GoOnInv DEF CheckTotal
<1> QED BY <1>2, <1>3 DEF CheckTotal

LEMMA StoreFileInv ==
  ASSUME IInv, NEW u \in Uploads, StoreFile(u)
  PROVE  IInv'
<1>1. Active(u) /\ pc[u] # "user" /\ "written" \in Steps \ {"idle"}
  BY DEF StoreFile, Active, Steps
<1>2. cached' \in Nat \union {Stale} /\ misled' \in BOOLEAN /\ (misled => misled')
  BY DEF StoreFile, IInv, TypeOK
<1>3. Writing' = Writing \union {u} /\ Locking' = Locking
  BY DEF StoreFile, Goto, IInv, TypeOK, Writing, Locking
<1>4. OneHolder'
  BY <1>3 DEF StoreFile, IInv, OneHolder
<1>5. LockedFits'
  BY <1>3, SameUsage DEF StoreFile, IInv, LockedFits
<1> QED BY <1>1, <1>2, <1>4, <1>5, GoOnInv DEF StoreFile

\* The sum is taken under the lock.
LEMMA RecheckUserInv ==
  ASSUME IInv, NEW u \in Uploads, RecheckUser(u)
  PROVE  IInv'
<1>1. Active(u) /\ pc[u] # "user" /\ "locked" \in Steps \ {"idle"}
  BY DEF RecheckUser, Active, Steps
<1>2. cached' \in Nat \union {Stale} /\ misled' \in BOOLEAN /\ (misled => misled')
  BY DEF RecheckUser, IInv, TypeOK
<1>3. CASE Goto(u, "idle")
  BY <1>2, <1>3, StopInv DEF RecheckUser
<1>4. CASE Goto(u, "locked") /\ ~(UserQuota > 0 /\ Usage(OwnerOf[u]) + OwnFlushedSize > UserQuota)
  <2>1. Writing' = Writing /\ Locking' = Locking \union {u} /\ u \in Writing /\ Locking \subseteq Writing
    BY <1>4 DEF RecheckUser, Goto, IInv, TypeOK, Writing, Locking
  <2>2. OneHolder'
    BY <2>1 DEF RecheckUser, IInv, OneHolder
  <2>3. LockedFits'
    <3>1. Usage(OwnerOf[u]) \in Nat
      BY UsageType DEF IInv
    <3>2. UserQuota > 0 => Usage(OwnerOf[u]) <= UserQuota
      BY <1>4, <3>1, ConstantsAssumption DEF OwnFlushedSize
    <3>3. \A o : Usage(o)' = Usage(o)
      BY SameUsage DEF RecheckUser
    <3> QED BY <2>1, <3>2, <3>3 DEF IInv, LockedFits
  <2> QED BY <1>1, <1>2, <1>4, <2>2, <2>3, GoOnInv DEF RecheckUser
<1> QED BY <1>3, <1>4 DEF RecheckUser

LEMMA RecheckTotalInv ==
  ASSUME IInv, NEW u \in Uploads, RecheckTotal(u)
  PROVE  IInv'
<1>1. cached' \in Nat \union {Stale} /\ misled' \in BOOLEAN /\ (misled => misled')
  <2>1. CASE TotalQuota > 0
    BY <2>1, RememberedTotal DEF RecheckTotal
  <2>2. CASE ~(TotalQuota > 0)
    BY <2>2 DEF RecheckTotal, IInv, TypeOK
  <2> QED BY <2>1, <2>2
<1>2. CASE Goto(u, "idle")
  BY <1>1, <1>2, StopInv DEF RecheckTotal
<1>3. CASE Goto(u, "passed")
  <2>1. Active(u) /\ pc[u] # "user" /\ "passed" \in Steps \ {"idle"}
    BY DEF RecheckTotal, Active, Steps
  <2>2. UNCHANGED Writing /\ UNCHANGED Locking
    BY <1>3 DEF RecheckTotal, Goto, IInv, TypeOK, Writing, Locking
  <2>3. OneHolder' /\ LockedFits'
    BY <2>2, SameHolders DEF RecheckTotal
  <2> QED BY <1>1, <1>3, <2>1, <2>3, GoOnInv DEF RecheckTotal
<1> QED BY <1>2, <1>3 DEF RecheckTotal

LEMMA FailInv ==
  ASSUME IInv, NEW u \in Uploads, Fail(u)
  PROVE  IInv'
BY StopInv DEF Fail, IInv, TypeOK

\* The commit adds one file to a usage that is within the quota; of a user whose
\* uploads do not overlap, a file that fits.
LEMMA CommitInv ==
  ASSUME IInv, NEW u \in Uploads, Commit(u)
  PROVE  IInv'
<1>1. Active(u) /\ u \in Locking /\ pc[u] # "user" /\ u \notin stored
  BY DEF Commit, IInv, ActiveIsNew, Active, Locking
<1>2. TypeOK'
  BY DEF Commit, Goto, IInv, TypeOK
<1>3. StoredIsFinite'
  BY FS_AddElement DEF Commit, IInv, StoredIsFinite
<1>4. /\ Total' = Total + Size[u]
      /\ Usage(OwnerOf[u])' = Usage(OwnerOf[u]) + Size[u]
      /\ \A o : o # OwnerOf[u] => Usage(o)' = Usage(o)
  BY <1>1, UsageOfMore DEF Commit, IInv
<1>5. Size[u] \in Nat /\ OwnerOf[u] \in Users /\ Total \in Nat /\ Usage(OwnerOf[u]) \in Nat
  BY UsageType, ConstantsAssumption DEF IInv
<1>6. \A w \in Uploads : /\ w # u => pc'[w] = pc[w]
                         /\ Active(w)' <=> Active(w) /\ w # u
  BY DEF Commit, Goto, IInv, TypeOK, Active
<1>7. Writing' = Writing \ {u} /\ Locking' = Locking \ {u}
  BY DEF Commit, Goto, IInv, TypeOK, Writing, Locking
<1>8. ActiveIsNew'
  BY <1>6 DEF Commit, IInv, ActiveIsNew
<1>9. OneHolder'
  BY <1>7 DEF IInv, OneHolder
<1>10. LockedFits'
  <2>1. \A w \in Locking' : OwnerOf[w] # OwnerOf[u]
    BY <1>1, <1>7 DEF IInv, OneHolder
  <2> QED BY <1>4, <1>7, <2>1 DEF IInv, LockedFits
<1>11. SerialUser'
  <2> SUFFICES ASSUME NEW o \in Users \ raced
               PROVE  /\ \A v, w \in OfUser(o) : Active(v)' /\ Active(w)' => v = w
                      /\ UserQuota > 0 =>
                           /\ Usage(o)' <= UserQuota
                           /\ \A w \in OfUser(o) : Active(w)' => Usage(o)' + Size[w] <= UserQuota
    BY DEF SerialUser, Commit, OfUser
  <2>1. \A w \in OfUser(o) : w \in Uploads /\ OwnerOf[w] = o
    BY DEF OfUser
  <2>2. CASE o = OwnerOf[u]
    <3>1. u \in OfUser(o)
      BY <2>2 DEF OfUser
    <3>2. \A w \in OfUser(o) : ~Active(w)'
      BY <1>1, <1>6, <2>1, <3>1 DEF IInv, SerialUser
    <3> QED BY <1>1, <1>4, <2>2, <3>1, <3>2 DEF IInv, SerialUser
  <2>3. CASE o # OwnerOf[u]
    BY <1>4, <1>6, <2>1, <2>3 DEF IInv, SerialUser
  <2> QED BY <2>2, <2>3
<1>12. SerialTotal'
  <2> SUFFICES ASSUME ~crowded, ~misled
               PROVE  /\ \A v, w \in Uploads : Active(v)' /\ Active(w)' => v = w
                      /\ TotalQuota > 0 =>
                           /\ Total' <= TotalQuota
                           /\ \A w \in Uploads : Active(w)' /\ pc'[w] # "user" => Total' + Size[w] <= TotalQuota
    BY DEF SerialTotal, Commit
  <2>1. \A w \in Uploads : ~Active(w)'
    BY <1>1, <1>6 DEF IInv, SerialTotal
  <2> QED BY <1>1, <1>4, <2>1 DEF IInv, SerialTotal
<1>13. OverrunByOneFileAtMost'
  <2> SUFFICES ASSUME NEW o \in Users, Over(o)'
               PROVE  \E w \in stored' \cap OfUser(o) : Usage(o)' - Size[w] <= UserQuota
    BY DEF OverrunByOneFileAtMost, OfUser
  <2>1. CASE o = OwnerOf[u]
    <3>1. u \in stored' \cap OfUser(o)
      BY <2>1 DEF Commit, OfUser
    <3>2. UserQuota > 0
      BY DEF Over
    <3>3. Usage(OwnerOf[u]) <= UserQuota
      BY <1>1, <3>2 DEF IInv, LockedFits
    <3>4. Usage(o)' - Size[u] <= UserQuota
      BY <1>4, <1>5, <2>1, <3>3
    <3> QED BY <3>1, <3>4
  <2>2. CASE o # OwnerOf[u]
    <3>1. Usage(o)' = Usage(o) /\ Over(o)
      BY <1>4, <2>2 DEF Over
    <3>2. PICK w \in stored \cap OfUser(o) : Usage(o) - Size[w] <= UserQuota
      BY <3>1 DEF IInv, OverrunByOneFileAtMost
    <3> QED BY <3>1, <3>2 DEF Commit
  <2> QED BY <2>1, <2>2
<1> QED BY <1>2, <1>3, <1>8, <1>9, <1>10, <1>11, <1>12, <1>13 DEF IInv

\* A delete takes no lock, and what it takes away only makes room.
LEMMA DeleteInv ==
  ASSUME IInv, NEW u \in Uploads, Delete(u)
  PROVE  IInv'
<1>1. TypeOK'
  BY DEF Delete, IInv, TypeOK
<1>2. StoredIsFinite'
  BY FS_RemoveElement DEF Delete, IInv, StoredIsFinite
<1>3. /\ Total = Total' + Size[u]
      /\ Usage(OwnerOf[u]) = Usage(OwnerOf[u])' + Size[u]
      /\ \A o : o # OwnerOf[u] => Usage(o)' = Usage(o)
  BY UsageOfLess DEF Delete, IInv
<1>4. Size \in [Uploads -> Nat] /\ UserQuota \in Nat /\ TotalQuota \in Nat
  BY ConstantsAssumption
<1>5. Total \in Nat /\ Total' \in Nat /\ \A o : Usage(o) \in Nat /\ Usage(o)' \in Nat
  <2>1. Total \in Nat /\ \A o : Usage(o) \in Nat
    BY UsageType DEF IInv
  <2>2. Total' \in Nat
    BY <1>1, <1>2, UnitsFinite DEF TypeOK, StoredIsFinite, Total
  <2>3. ASSUME NEW o
        PROVE  Usage(o)' \in Nat
    <3>1. IsFiniteSet(stored' \cap OfUser(o)) /\ stored' \cap OfUser(o) \in SUBSET Uploads
      BY <1>1, <1>2, FS_Intersection DEF TypeOK, StoredIsFinite
    <3> QED BY <3>1, UnitsFinite DEF Usage, OfUser
  <2> QED BY <2>1, <2>2, <2>3
<1>6. Total' <= Total /\ \A o : Usage(o)' <= Usage(o)
  <2>1. ASSUME NEW o
        PROVE  Usage(o)' <= Usage(o)
    BY <1>3, <1>4, <1>5
  <2> QED BY <1>3, <1>4, <1>5, <2>1
<1>7. /\ \A w \in Uploads : Active(w)' <=> Active(w)
      /\ Writing' = Writing /\ Locking' = Locking
  BY DEF Delete, Active, Writing, Locking
<1>8. ActiveIsNew' /\ OneHolder'
  BY <1>7 DEF Delete, IInv, ActiveIsNew, OneHolder
<1>9. LockedFits'
  BY <1>4, <1>5, <1>6, <1>7 DEF IInv, LockedFits
<1>10. SerialUser'
  <2> SUFFICES ASSUME NEW o \in Users \ raced
               PROVE  /\ \A v, w \in OfUser(o) : Active(v)' /\ Active(w)' => v = w
                      /\ UserQuota > 0 =>
                           /\ Usage(o)' <= UserQuota
                           /\ \A w \in OfUser(o) : Active(w)' => Usage(o)' + Size[w] <= UserQuota
    BY DEF SerialUser, Delete, OfUser
  <2>1. \A w \in OfUser(o) : w \in Uploads
    BY DEF OfUser
  <2> QED BY <1>4, <1>5, <1>6, <1>7, <2>1 DEF IInv, SerialUser
<1>11. SerialTotal'
  BY <1>4, <1>5, <1>6, <1>7 DEF Delete, IInv, SerialTotal
<1>12. OverrunByOneFileAtMost'
  <2> SUFFICES ASSUME NEW o \in Users, Over(o)'
               PROVE  \E w \in stored' \cap OfUser(o) : Usage(o)' - Size[w] <= UserQuota
    BY DEF OverrunByOneFileAtMost, OfUser
  <2>1. Over(o)
    BY <1>4, <1>5, <1>6 DEF Over
  <2>2. PICK w \in stored \cap OfUser(o) : Usage(o) - Size[w] <= UserQuota
    BY <2>1 DEF IInv, OverrunByOneFileAtMost
  <2>3. w \in Uploads /\ OwnerOf[w] = o
    BY <2>2 DEF OfUser
  <2>4. w # u
    BY <1>3, <1>4, <1>5, <2>2, <2>3 DEF Over
  <2>5. Usage(o)' - Size[w] <= UserQuota
    BY <1>4, <1>5, <1>6, <2>2, <2>3
  <2> QED BY <2>2, <2>4, <2>5 DEF Delete
<1> QED BY <1>1, <1>2, <1>8, <1>9, <1>10, <1>11, <1>12 DEF IInv

\* What neither stores nor moves an upload.
LEMMA IdleInv ==
  ASSUME IInv, UNCHANGED <<stored, pc, raced, crowded, misled>>, cached' \in Nat \union {Stale}
  PROVE  IInv'
<1>1. TypeOK'
  BY DEF IInv, TypeOK
<1>2. Total' = Total /\ \A o : Usage(o)' = Usage(o)
  BY SameUsage
<1>3. StoredIsFinite' /\ OverrunByOneFileAtMost'
  BY SameStored
<1>4. \A w : Active(w)' <=> Active(w)
  BY DEF Active
<1>5. ActiveIsNew'
  BY <1>4 DEF IInv, ActiveIsNew
<1>6. OneHolder' /\ LockedFits'
  BY SameHolders DEF Writing, Locking
<1>7. SerialUser' /\ SerialTotal'
  BY <1>2, <1>4 DEF IInv, SerialUser, SerialTotal, OfUser
<1> QED BY <1>1, <1>3, <1>5, <1>6, <1>7 DEF IInv

LEMMA NextInv == IInv /\ [Next]_vars => IInv'
<1> SUFFICES ASSUME IInv, [Next]_vars PROVE IInv'
  OBVIOUS
<1>1. CASE UNCHANGED vars
  BY <1>1, IdleInv DEF vars, IInv, TypeOK
<1>2. CASE CacheExpires
  BY <1>2, IdleInv DEF CacheExpires
<1>3. ASSUME NEW u \in Uploads, CheckUser(u) \/ Proceed(u) \/ Delete(u)
      PROVE  IInv'
  BY <1>3, CheckUserInv, CheckTotalInv, StoreFileInv, RecheckUserInv, RecheckTotalInv,
     CommitInv, FailInv, DeleteInv DEF Proceed
<1> QED BY <1>1, <1>2, <1>3 DEF Next

-----------------------------------------------------------------------------

THEOREM QuotaInvariant == Spec => []IInv
  BY InitInv, NextInv, PTL DEF Spec

\* The type invariant.
THEOREM QuotaTyped == Spec => []TypeOK
<1>1. IInv => TypeOK
  BY DEF IInv
<1> QED BY <1>1, QuotaInvariant, PTL

\* A user whose uploads never overlap stays within the quota, whatever is deleted
\* or fails in between; the instance within its cap, while no uploads overlap and
\* no check relies on a total that has grown since it was cached.
THEOREM SerialUploadsStayWithin == Spec => []SerialUploadsStayWithinQuota
<1>1. IInv => SerialUploadsStayWithinQuota
  <2> SUFFICES ASSUME IInv PROVE SerialUploadsStayWithinQuota
    OBVIOUS
  <2>1. \A o : Usage(o) \in Nat
    BY UsageType DEF IInv
  <2>2. \A o \in Users \ raced : ~Over(o)
    BY <2>1, ConstantsAssumption DEF IInv, SerialUser, Over
  <2> QED BY <2>2 DEF IInv, SerialTotal, SerialUploadsStayWithinQuota
<1> QED BY <1>1, QuotaInvariant, PTL

\* However many uploads overlap, the second check lets them overrun a user's quota
\* by one file at most.
THEOREM OverrunIsOneFile == Spec => []OverrunByOneFileAtMost
<1>1. IInv => OverrunByOneFileAtMost
  BY DEF IInv
<1> QED BY <1>1, QuotaInvariant, PTL
=============================================================================
