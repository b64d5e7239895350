----------------------- MODULE ArchiveDownloadsProofs -----------------------
(***************************************************************************)
(* Slots are never lost or invented while a stream runs, and members have  *)
(* distinct names: for any number of downloads, slots and files.           *)
(***************************************************************************)
EXTENDS ArchiveDownloads, FiniteSetTheorems, TLAPS

\* A listing of files is a finite sequence of them.
LEMMA ListingsAreSequences ==
  ASSUME NEW S \in SUBSET Files, NEW listing \in Listings(S)
  PROVE  listing \in Seq(Files)
<1>1. IsFiniteSet(Files)
  BY FS_Interval, ConstantsAssumption DEF Files
<1>2. Cardinality(S) \in Nat
  BY <1>1, FS_Subset, FS_CardinalityType
<1>3. listing \in [1 .. Cardinality(S) -> S]
  BY DEF Listings, Bijection, Injection, Surjection
<1> QED
  BY <1>2, <1>3

\* Entering or leaving Holding changes its size by one.
LEMMA HoldingSize ==
  ASSUME TypeOK
  PROVE  IsFiniteSet(Holding) /\ Cardinality(Holding) \in Nat
<1>1. Holding \in SUBSET Downloads
  BY DEF Holding
<1> QED
  BY <1>1, FS_Subset, FS_CardinalityType, ConstantsAssumption

\* A download that takes a slot joins the holders.
LEMMA Joins ==
  ASSUME TypeOK, NEW d \in Downloads, pc[d] \in {"new"}, pc' = [pc EXCEPT ![d] = "built"]
  PROVE  Cardinality(Holding') = Cardinality(Holding) + 1
<1>1. Holding' = Holding \union {d} /\ d \notin Holding
  BY DEF TypeOK, Holding
<1> QED
  BY <1>1, HoldingSize, FS_AddElement

\* One that gives its slot back leaves them.
LEMMA Leaves ==
  ASSUME TypeOK, NEW d \in Downloads, pc[d] \in {"streaming", "reading"},
         NEW step \in {"cut", "ended"}, pc' = [pc EXCEPT ![d] = step]
  PROVE  Cardinality(Holding') = Cardinality(Holding) - 1 /\ Cardinality(Holding) > 0
<1>1. Holding' = Holding \ {d} /\ d \in Holding
  BY DEF TypeOK, Holding
<1>2. Cardinality(Holding') = Cardinality(Holding) - 1 /\ Cardinality(Holding') \in Nat
  BY <1>1, HoldingSize, FS_RemoveElement, FS_CardinalityType
<1> QED
  BY <1>2, HoldingSize

\* Any other step leaves the holders as they are.
LEMMA Stays ==
  ASSUME TypeOK, NEW d \in Downloads, NEW step \in Steps,
         pc[d] \in {"built", "streaming", "reading", "dropped"}
           <=> step \in {"built", "streaming", "reading", "dropped"},
         pc' = [pc EXCEPT ![d] = step]
  PROVE  Holding' = Holding
BY DEF TypeOK, Holding, Steps

-----------------------------------------------------------------------------

IInv == TypeOK /\ SlotsBalance

LEMMA InitIInv == Init => IInv
<1> SUFFICES ASSUME Init PROVE IInv
  OBVIOUS
<1>1. TypeOK
  BY ConstantsAssumption DEF Init, TypeOK, Steps
<1>2. Holding = {}
  BY DEF Init, Holding
<1> QED
  BY <1>1, <1>2, FS_EmptySet, ConstantsAssumption DEF Init, IInv, SlotsBalance

\* A request that is accepted.
LEMMA RequestStep ==
  ASSUME IInv, NEW d \in Downloads, Request(d)
  PROVE  IInv'
<1>1. PICK S \in SUBSET Files, share \in BOOLEAN :
        /\ \E listing \in Listings(S) : entries' = [entries EXCEPT ![d] = listing]
        /\ shared' = [shared EXCEPT ![d] = share]
  BY DEF Request
<1>2. PICK listing \in Listings(S) : entries' = [entries EXCEPT ![d] = listing]
  BY <1>1
<1>3. listing \in Seq(Files)
  BY ListingsAreSequences
<1>4. TypeOK'
  <2>1. free' \in 0 .. Slots
    BY ConstantsAssumption DEF Request, Acquire, IInv, TypeOK
  <2>2. entries' \in [Downloads -> Seq(Files)] /\ shared' \in [Downloads -> BOOLEAN]
    BY <1>1, <1>2, <1>3 DEF IInv, TypeOK
  <2> QED
    BY <2>1, <2>2 DEF Request, IInv, TypeOK, Steps
<1>5. SlotsBalance'
  <2>1. Cardinality(Holding') = Cardinality(Holding) + 1
    BY Joins DEF Request, IInv
  <2>2. free' = free - 1
    BY DEF Request, Acquire
  <2> QED
    BY <2>1, <2>2, HoldingSize, ConstantsAssumption DEF IInv, SlotsBalance, TypeOK
<1> QED
  BY <1>4, <1>5 DEF IInv

\* A step of one download that touches no slot: a refusal, a response dropped
\* before it began, and the stream's own progress.
LEMMA QuietStep ==
  ASSUME IInv, NEW d \in Downloads,
         Refuse(d) \/ NeverStarts(d) \/ Start(d) \/ OpenMember(d) \/ CloseMember(d) \/ Count(d)
  PROVE  IInv'
<1>1. TypeOK'
  <2>1. CASE Refuse(d)
    BY <2>1 DEF Refuse, IInv, TypeOK, Steps
  <2>2. CASE NeverStarts(d)
    BY <2>2 DEF NeverStarts, Discard, IInv, TypeOK, Steps
  <2>3. CASE Start(d)
    BY <2>3 DEF Start, IInv, TypeOK, Steps
  <2>4. CASE OpenMember(d)
    BY <2>4 DEF OpenMember, IInv, TypeOK, Steps
  <2>5. CASE CloseMember(d)
    BY <2>5 DEF CloseMember, IInv, TypeOK, Steps
  <2>6. CASE Count(d)
    BY <2>6 DEF Count, IInv, TypeOK, Steps
  <2> QED
    BY <2>1, <2>2, <2>3, <2>4, <2>5, <2>6
<1>2. Holding' = Holding /\ free' = free
  BY DEF IInv, TypeOK, Holding, Refuse, NeverStarts, Start, OpenMember, CloseMember, Count
<1> QED
  BY <1>1, <1>2 DEF IInv, SlotsBalance

\* The stream ends: every way it can gives the slot back.
LEMMA EndStep ==
  ASSUME IInv, NEW d \in Downloads, Fail(d) \/ Disconnect(d) \/ Complete(d)
  PROVE  IInv'
<1>1. PICK step \in {"cut", "ended"} :
        pc' = [pc EXCEPT ![d] = step] /\ free' = free + 1 /\ pc[d] \in {"streaming", "reading"}
  BY DEF Fail, Disconnect, Complete, Release
<1>2. Cardinality(Holding') = Cardinality(Holding) - 1 /\ Cardinality(Holding) > 0
  BY <1>1, Leaves DEF IInv
<1>3. SlotsBalance' /\ free' \in 0 .. Slots
  BY <1>1, <1>2, HoldingSize, ConstantsAssumption DEF IInv, SlotsBalance, TypeOK
<1>4. TypeOK'
  <2>1. CASE Fail(d)
    BY <1>3, <2>1 DEF Fail, Discard, IInv, TypeOK, Steps
  <2>2. CASE Disconnect(d)
    BY <1>3, <2>2 DEF Disconnect, Discard, IInv, TypeOK, Steps
  <2>3. CASE Complete(d)
    BY <1>3, <2>3 DEF Complete, IInv, TypeOK, Steps
  <2> QED
    BY <2>1, <2>2, <2>3
<1> QED
  BY <1>3, <1>4 DEF IInv

\* What happens to files concerns no slot.
LEMMA DeleteStep ==
  ASSUME IInv, NEW f \in Files, DeleteObject(f)
  PROVE  IInv'
BY DEF DeleteObject, IInv, TypeOK, SlotsBalance, Holding

LEMMA StepIInv == IInv /\ [Next]_vars => IInv'
<1> SUFFICES ASSUME IInv, [Next]_vars PROVE IInv'
  OBVIOUS
<1>1. ASSUME NEW d \in Downloads, Request(d) PROVE IInv'
  BY <1>1, RequestStep
<1>2. ASSUME NEW d \in Downloads,
             Refuse(d) \/ NeverStarts(d) \/ Start(d) \/ OpenMember(d) \/ CloseMember(d) \/ Count(d)
      PROVE  IInv'
  BY <1>2, QuietStep
<1>3. ASSUME NEW d \in Downloads, Fail(d) \/ Disconnect(d) \/ Complete(d) PROVE IInv'
  BY <1>3, EndStep
<1>4. ASSUME NEW f \in Files, DeleteObject(f) PROVE IInv'
  BY <1>4, DeleteStep
<1>5. CASE UNCHANGED vars
  BY <1>5 DEF vars, IInv, TypeOK, SlotsBalance, Holding
<1> QED
  BY <1>1, <1>2, <1>3, <1>4, <1>5 DEF Next, Stream

\* The strengthened invariant, under any schedule.
THEOREM Invariance == Spec => []IInv
BY InitIInv, StepIInv, PTL DEF Spec

\* However streams end (whole, by an error, by a client that left), each slot of
\* archive.py's semaphore is free or held by one archive, and it is never
\* released more often than it was acquired.
THEOREM SlotsAreBalanced == Spec => [](TypeOK /\ SlotsBalance)
<1>1. IInv => TypeOK /\ SlotsBalance
  BY DEF IInv
<1> QED
  BY <1>1, Invariance, PTL

\* Every variable keeps its type.
THEOREM TypesHold == Spec => []TypeOK
<1>1. IInv => TypeOK
  BY DEF IInv
<1> QED
  BY <1>1, Invariance, PTL

-----------------------------------------------------------------------------
(* Counts *)

\* The whole archives of shares that held f.
Wholes(f) == {d \in Downloads : /\ pc[d] = "done" /\ shared[d]
                                /\ written[d] = Len(entries[d])
                                /\ \E i \in 1 .. written[d] : entries[d][i] = f}

\* A stream that has ended, and not been cut, has written every member.
EndedIsWhole == \A d \in Downloads : pc[d] = "ended" => written[d] = Len(entries[d])

CountInv == TypeOK /\ EndedIsWhole /\ OnlyWholeArchivesCount

\* A step of one download that neither was counted nor is now.
LEMMA WholesStay ==
  ASSUME CountInv, TypeOK', NEW d \in Downloads, UNCHANGED counted,
         pc[d] # "done", pc'[d] # "done", pc'[d] = "ended" => written'[d] = Len(entries'[d]),
         \A other \in Downloads \ {d} :
           /\ pc'[other] = pc[other] /\ shared'[other] = shared[other]
           /\ written'[other] = written[other] /\ entries'[other] = entries[other]
  PROVE  CountInv'
<1>1. EndedIsWhole'
  BY DEF CountInv, EndedIsWhole
<1>2. ASSUME NEW f \in Files PROVE counted'[f] = Cardinality(Wholes(f)')
  <2>1. Wholes(f)' = Wholes(f)
    BY DEF Wholes
  <2>2. counted[f] = Cardinality(Wholes(f))
    BY DEF CountInv, OnlyWholeArchivesCount, Wholes
  <2> QED
    BY <2>1, <2>2
<1> QED
  BY <1>1, <1>2 DEF CountInv, OnlyWholeArchivesCount, Wholes

\* The callback counts each file of the archive once.
LEMMA CountStep ==
  ASSUME CountInv, TypeOK', NEW d \in Downloads, Count(d)
  PROVE  CountInv'
<1>1. /\ pc[d] = "ended" /\ pc' = [pc EXCEPT ![d] = "done"]
      /\ UNCHANGED <<entries, shared, written>>
      /\ counted' = [f \in Files |->
                       IF shared[d] /\ \E i \in DOMAIN entries[d] : entries[d][i] = f
                       THEN counted[f] + 1 ELSE counted[f]]
  BY DEF Count
<1>2. /\ written[d] = Len(entries[d]) /\ DOMAIN entries[d] = 1 .. Len(entries[d])
      /\ pc'[d] = "done" /\ \A other \in Downloads \ {d} : pc'[other] = pc[other]
  BY <1>1 DEF CountInv, EndedIsWhole, TypeOK
<1>3. EndedIsWhole'
  BY <1>1, <1>2 DEF CountInv, EndedIsWhole
<1>4. ASSUME NEW f \in Files PROVE counted'[f] = Cardinality(Wholes(f)')
  <2>1. counted[f] = Cardinality(Wholes(f))
    BY DEF CountInv, OnlyWholeArchivesCount, Wholes
  <2>2. IsFiniteSet(Wholes(f)) /\ d \notin Wholes(f)
    <3>1. Wholes(f) \in SUBSET Downloads
      BY DEF Wholes
    <3> QED
      BY <1>1, <3>1, FS_Subset, ConstantsAssumption DEF Wholes
  <2>3. CASE shared[d] /\ \E i \in DOMAIN entries[d] : entries[d][i] = f
    <3>1. Wholes(f)' = Wholes(f) \union {d}
      BY <1>1, <1>2, <2>3 DEF Wholes
    <3>2. Cardinality(Wholes(f) \union {d}) = Cardinality(Wholes(f)) + 1
      BY <2>2, FS_AddElement
    <3>3. counted'[f] = counted[f] + 1
      BY <1>1, <2>3
    <3> QED
      BY <2>1, <3>1, <3>2, <3>3
  <2>4. CASE ~(shared[d] /\ \E i \in DOMAIN entries[d] : entries[d][i] = f)
    <3>1. Wholes(f)' = Wholes(f)
      BY <1>1, <1>2, <2>2, <2>4 DEF Wholes
    <3>2. counted'[f] = counted[f]
      BY <1>1, <2>4
    <3> QED
      BY <2>1, <3>1, <3>2
  <2> QED
    BY <2>3, <2>4
<1> QED
  BY <1>3, <1>4 DEF CountInv, OnlyWholeArchivesCount, Wholes

LEMMA StepCountInv == CountInv /\ TypeOK' /\ [Next]_vars => CountInv'
<1> SUFFICES ASSUME CountInv, TypeOK', [Next]_vars PROVE CountInv'
  OBVIOUS
<1>t. TypeOK
  BY DEF CountInv
<1>1. ASSUME NEW d \in Downloads, Request(d) PROVE CountInv'
  BY <1>t, <1>1, WholesStay DEF Request, TypeOK
<1>2. ASSUME NEW d \in Downloads, Refuse(d) \/ Start(d) \/ OpenMember(d) \/ CloseMember(d)
      PROVE  CountInv'
  BY <1>t, <1>2, WholesStay DEF Refuse, Start, OpenMember, CloseMember, TypeOK
<1>3. ASSUME NEW d \in Downloads, NeverStarts(d) \/ Fail(d) \/ Disconnect(d) PROVE CountInv'
  BY <1>t, <1>3, WholesStay DEF NeverStarts, Fail, Disconnect, Discard, TypeOK
<1>4. ASSUME NEW d \in Downloads, Complete(d) PROVE CountInv'
  BY <1>t, <1>4, WholesStay DEF Complete, TypeOK
<1>5. ASSUME NEW d \in Downloads, Count(d) PROVE CountInv'
  BY <1>5, CountStep
<1>6. CASE UNCHANGED <<pc, entries, shared, written, counted>>
  BY <1>6 DEF CountInv, EndedIsWhole, OnlyWholeArchivesCount
<1> QED
  BY <1>1, <1>2, <1>3, <1>4, <1>5, <1>6 DEF Next, Stream, DeleteObject, vars

\* The archive stream's on_complete (archive.py, public.py) is reached for whole archives
\* alone: a file's count is the number of those that held it.
THEOREM CountsAreOfWholes == Spec => []OnlyWholeArchivesCount
<1>1. Init => CountInv
  <2> SUFFICES ASSUME Init PROVE CountInv
    OBVIOUS
  <2>1. TypeOK /\ EndedIsWhole
    BY InitIInv DEF IInv, Init, EndedIsWhole
  <2>2. ASSUME NEW f \in Files PROVE counted[f] = Cardinality(Wholes(f))
    <3>1. Wholes(f) = {}
      BY DEF Init, Wholes
    <3> QED
      BY <3>1, FS_EmptySet DEF Init
  <2> QED
    BY <2>1, <2>2 DEF CountInv, OnlyWholeArchivesCount, Wholes
<1>2. CountInv => OnlyWholeArchivesCount
  BY DEF CountInv
<1> QED
  BY <1>1, <1>2, StepCountInv, TypesHold, PTL DEF Spec

-----------------------------------------------------------------------------
(* Member names *)

\* A later file of the same name has seen more of them.
LEMMA CountsGrow ==
  ASSUME NEW es \in Seq(Files), NEW i \in DOMAIN es, NEW j \in DOMAIN es, i < j,
         NameOf[es[i]] = NameOf[es[j]]
  PROVE  SeenCount(es, i) \in Nat /\ SeenCount(es, j) \in Nat /\ SeenCount(es, i) < SeenCount(es, j)
<1> DEFINE Before(k) == {m \in 1 .. k - 1 : NameOf[es[m]] = NameOf[es[k]]}
<1>1. i \in Nat /\ j \in Nat
  OBVIOUS
<1>2. IsFiniteSet(1 .. j - 1) /\ IsFiniteSet(1 .. i - 1)
  <2>1. 1 \in Int /\ j - 1 \in Int /\ i - 1 \in Int
    BY <1>1
  <2> QED
    BY <2>1, FS_Interval
<1>3. IsFiniteSet(Before(j)) /\ IsFiniteSet(Before(i))
  BY <1>2, FS_Subset
<1>4. Before(i) \union {i} \in SUBSET Before(j) /\ i \notin Before(i)
  BY <1>1
<1>5. Cardinality(Before(i) \union {i}) = Cardinality(Before(i)) + 1
  BY <1>3, <1>4, FS_AddElement
<1>6. Cardinality(Before(i) \union {i}) <= Cardinality(Before(j))
  BY <1>3, <1>4, FS_Subset
<1>7. Cardinality(Before(i)) \in Nat /\ Cardinality(Before(j)) \in Nat
  BY <1>3, FS_CardinalityType
<1> HIDE DEF Before
<1>8. Cardinality(Before(i)) < Cardinality(Before(j))
  BY <1>5, <1>6, <1>7
<1> QED
  BY <1>7, <1>8 DEF SeenCount, Before

\* Files that were not uploaded under a name ending in "(n)" are members under
\* names of their own, in whatever order the database listed them.
LEMMA NamesAreDistinct ==
  ASSUME NEW es \in Seq(Files), \A i \in DOMAIN es : NameOf[es[i]].numbers = <<>>,
         NEW i \in DOMAIN es, NEW j \in DOMAIN es, i < j
  PROVE  ArcName(es, i) # ArcName(es, j)
<1> DEFINE a == NameOf[es[i]]
           b == NameOf[es[j]]
           m == SeenCount(es, i)
           n == SeenCount(es, j)
<1>1. a \in [stem : Stems, numbers : Seq(Nat)] /\ b \in [stem : Stems, numbers : Seq(Nat)]
  BY ConstantsAssumption
<1>2. a.numbers = <<>> /\ b.numbers = <<>>
  OBVIOUS
<1>3. a = b => m < n /\ m \in Nat /\ n \in Nat
  BY CountsGrow
<1>4. ArcName(es, i) = IF m = 0 THEN a ELSE [a EXCEPT !.numbers = Append(<<>>, m)]
  BY <1>2 DEF ArcName
<1>5. ArcName(es, j) = IF n = 0 THEN b ELSE [b EXCEPT !.numbers = Append(<<>>, n)]
  BY <1>2 DEF ArcName
<1> HIDE DEF a, b, m, n
<1>6. CASE a = b
  <2>1. m # n
    BY <1>3, <1>6
  <2>2. CASE m = 0
    <3>1. n # 0 /\ n \in Nat
      BY <1>3, <1>6, <2>1, <2>2
    <3>2. ArcName(es, j).numbers = Append(<<>>, n)
      BY <1>1, <1>5, <3>1
    <3>3. Append(<<>>, n) # <<>>
      BY <3>1
    <3>4. ArcName(es, i).numbers = <<>>
      BY <1>2, <1>4, <2>2
    <3> QED
      BY <3>2, <3>3, <3>4
  <2>3. CASE m # 0
    BY <1>1, <1>2, <1>3, <1>4, <1>5, <1>6, <2>1, <2>3
  <2> QED
    BY <2>2, <2>3
<1>7. CASE a # b
  <2>1. a.stem # b.stem
    BY <1>1, <1>2, <1>7
  <2>2. ArcName(es, i).stem = a.stem /\ ArcName(es, j).stem = b.stem
    BY <1>1, <1>4, <1>5
  <2> QED
    BY <2>1, <2>2
<1> QED
  BY <1>6, <1>7

\* _unique_arcname keeps the members of every archive apart, as long as no file
\* was uploaded under a name that looks like one it makes.
THEOREM ArchivesAreUnambiguous == Spec => []MembersAreDistinct
<1>1. TypeOK => MembersAreDistinct
  <2> SUFFICES ASSUME TypeOK, NEW d \in Downloads, Named(d),
                      NEW i \in DOMAIN entries[d], NEW j \in DOMAIN entries[d], i # j
               PROVE  ArcName(entries[d], i) # ArcName(entries[d], j)
    BY DEF MembersAreDistinct
  <2>1. entries[d] \in Seq(Files)
    BY DEF TypeOK
  <2>2. i < j \/ j < i
    BY <2>1
  <2> QED
    BY <2>1, <2>2, NamesAreDistinct DEF Named
<1> QED
  BY <1>1, SlotsAreBalanced, PTL
=============================================================================
