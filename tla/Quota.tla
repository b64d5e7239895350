------------------------------- MODULE Quota -------------------------------
(***************************************************************************)
(* Storage quotas under concurrent uploads: the check before the bytes are *)
(* written (remaining_upload_cap), the row that is flushed with size 0     *)
(* while they are (store_package_file), the check afterwards under a lock  *)
(* on the owner's row (enforce_quota_after_write), and the commit that     *)
(* makes the size visible. The session does not flush by itself            *)
(* (autoflush=False): the queries of the second check see the new row's    *)
(* flushed size, which is still 0.                                         *)
(*                                                                         *)
(* An upload is one request that stores one file, upload_file's or         *)
(* _finalize's: both run the same sequence. Sizes are in units.            *)
(***************************************************************************)
EXTENDS Integers, FiniteSets

CONSTANTS
  Users,         \* owners of packages
  Uploads,       \* uploads, each by one user, each of one file
  OwnerOf, Size, \* an upload's user, and the size of its file
  MaxFileSize,   \* max_file_size
  UserQuota,     \* storage_quota of every user, 0: none
  TotalQuota,    \* storage_quota_total, 0: none
  SingleWriter   \* SQLite: one open write transaction at a time, no row locks

ASSUME ConstantsAssumption ==
  /\ OwnerOf \in [Uploads -> Users]
  /\ Size \in [Uploads -> Nat]
  /\ MaxFileSize \in Nat \ {0}
  /\ UserQuota \in Nat /\ TotalQuota \in Nat
  /\ SingleWriter \in BOOLEAN

Stale == -1   \* the instance total has not been scanned within the last 10 s

VARIABLES
  stored,  \* uploads whose file row is committed, with its size
  pc,      \* per upload: its request's step
  cached,  \* _total_usage_cache: a total scanned lately, or Stale
  raced,   \* history: users of whom two uploads have overlapped
  crowded, \* history: two uploads have overlapped
  misled   \* history: a total below the committed one has been used

vars == <<stored, pc, cached, raced, crowded, misled>>

-----------------------------------------------------------------------------

\* SUM(size): the units of the files of S, each told from every other.
Units(S) == UNION {{u} \X (1 .. Size[u]) : u \in S}
Sizes(S) == Cardinality(Units(S))

OfUser(o) == {u \in Uploads : OwnerOf[u] = o}
Usage(o) == Sizes(stored \cap OfUser(o))
Total == Sizes(stored)

\* total_storage_used(use_cache=True): the cached total while there is one.
KnownTotal == IF cached = Stale THEN Total ELSE cached
\* Slip: what is left of the quota is remembered in place of the total.
RememberRemainder ==
  /\ cached' = TotalQuota - KnownTotal
  /\ misled' = (misled \/ KnownTotal < Total)
RememberTotal ==
  /\ cached' = KnownTotal
  /\ misled' = (misled \/ KnownTotal < Total)

\* Slip: an upload is let in while anything at all is left.
AnyRoom(u, cap) == cap > 0
Fits(u, cap) == cap > 0 /\ Size[u] <= cap

Active(u) == pc[u] # "idle"
Goto(u, step) == pc' = [pc EXCEPT ![u] = step]

\* Uploads with an open write transaction, and those that hold their owner's row.
Writing == {u \in Uploads : pc[u] \in {"written", "locked", "passed"}}
Locking == {u \in Uploads : pc[u] \in {"locked", "passed"}}

-----------------------------------------------------------------------------
(* remaining_upload_cap: the per-file limit, the user's quota, the total. *)

\* A request arrives; the user's usage is the sum of the committed sizes. A request that
\* is turned away by its own limits has the total looked up, and remembered, all the same.
CheckUser(u) ==
  /\ ~Active(u) /\ u \notin stored
  /\ \/ /\ Fits(u, MaxFileSize)
        /\ UserQuota > 0 => Fits(u, UserQuota - Usage(OwnerOf[u]))
        /\ Goto(u, "user")
        /\ raced' = IF \E w \in OfUser(OwnerOf[u]) : Active(w)
                    THEN raced \union {OwnerOf[u]} ELSE raced
        /\ crowded' = (crowded \/ \E w \in Uploads : Active(w))
        /\ UNCHANGED cached
     \/ /\ \/ ~Fits(u, MaxFileSize)
           \/ UserQuota > 0 /\ ~Fits(u, UserQuota - Usage(OwnerOf[u]))
        /\ cached' = IF TotalQuota > 0 THEN KnownTotal ELSE cached
        /\ UNCHANGED <<pc, raced, crowded>>
  /\ UNCHANGED <<stored, misled>>

CheckTotal(u) ==
  /\ pc[u] = "user"
  /\ IF TotalQuota > 0
     THEN /\ RememberTotal
          /\ Goto(u, IF Fits(u, TotalQuota - KnownTotal) THEN "checked" ELSE "idle")
     ELSE Goto(u, "checked") /\ UNCHANGED <<cached, misled>>
  /\ UNCHANGED <<stored, raced, crowded>>

\* store_package_file: the row is inserted with size 0 and flushed, the bytes
\* are written, the size is set on the object only.
StoreFile(u) ==
  /\ pc[u] = "checked"
  /\ SingleWriter => Writing = {}
  /\ Goto(u, "written")
  /\ UNCHANGED <<stored, cached, raced, crowded, misled>>

-----------------------------------------------------------------------------
(* enforce_quota_after_write and the commit. *)

\* What a usage query inside the upload's own transaction adds for its new row.
OwnFlushedSize == 0

\* Slip: the sum is taken without the lock.
RecheckUserUnlocked(u) ==
  /\ pc[u] = "written"
  /\ LET exceeded == UserQuota > 0 /\ Usage(OwnerOf[u]) + OwnFlushedSize > UserQuota
     IN  Goto(u, IF exceeded THEN "idle" ELSE "locked")
  /\ UNCHANGED <<stored, cached, raced, crowded, misled>>

\* The owner's row is locked until the transaction ends, then the sum is taken.
RecheckUser(u) ==
  /\ pc[u] = "written"
  /\ ~SingleWriter => \A w \in Locking : OwnerOf[w] # OwnerOf[u]
  /\ LET exceeded == UserQuota > 0 /\ Usage(OwnerOf[u]) + OwnFlushedSize > UserQuota
     IN  Goto(u, IF exceeded THEN "idle" ELSE "locked")
  /\ UNCHANGED <<stored, cached, raced, crowded, misled>>

\* A total scanned here is remembered for other uploads, too.
RecheckTotal(u) ==
  /\ pc[u] = "locked"
  /\ IF TotalQuota > 0
     THEN /\ RememberTotal
          /\ Goto(u, IF KnownTotal > TotalQuota THEN "idle" ELSE "passed")
     ELSE Goto(u, "passed") /\ UNCHANGED <<cached, misled>>
  /\ UNCHANGED <<stored, raced, crowded>>

Commit(u) ==
  /\ pc[u] = "passed"
  /\ stored' = stored \union {u}
  /\ Goto(u, "idle")
  /\ UNCHANGED <<cached, raced, crowded, misled>>

\* The write or a statement fails, or the writer's lock is not had in time.
Fail(u) ==
  /\ Active(u)
  /\ Goto(u, "idle")
  /\ UNCHANGED <<stored, cached, raced, crowded, misled>>

-----------------------------------------------------------------------------

\* A file is deleted (no upload notices: deletes take no lock on the owner).
Delete(u) ==
  /\ u \in stored
  /\ SingleWriter => Writing = {}
  /\ stored' = stored \ {u}
  /\ UNCHANGED <<pc, cached, raced, crowded, misled>>

\* _TOTAL_USAGE_CACHE_TTL has passed since the last scan.
CacheExpires ==
  /\ cached # Stale
  /\ cached' = Stale
  /\ UNCHANGED <<stored, pc, raced, crowded, misled>>

-----------------------------------------------------------------------------

Init ==
  /\ stored = {}
  /\ pc = [u \in Uploads |-> "idle"]
  /\ cached = Stale
  /\ raced = {}
  /\ crowded = FALSE
  /\ misled = FALSE

Proceed(u) ==
  \/ CheckTotal(u) \/ StoreFile(u) \/ RecheckUser(u) \/ RecheckTotal(u) \/ Commit(u) \/ Fail(u)

Next ==
  \/ \E u \in Uploads : CheckUser(u) \/ Proceed(u) \/ Delete(u)
  \/ CacheExpires

Spec == Init /\ [][Next]_vars

-----------------------------------------------------------------------------
(* Properties *)

TypeOK ==
  /\ stored \subseteq Uploads
  /\ pc \in [Uploads -> {"idle", "user", "checked", "written", "locked", "passed"}]
  /\ cached \in Nat \union {Stale}
  /\ raced \subseteq Users
  /\ crowded \in BOOLEAN
  /\ misled \in BOOLEAN

Over(o) == UserQuota > 0 /\ Usage(o) > UserQuota

\* enforce_quota_after_write says that concurrent uploads of one user cannot
\* overrun the quota together: "the later one observes the earlier's committed
\* size and is rejected".
UserQuotaHolds == \A o \in Users : ~Over(o)

\* A user whose uploads never overlap stays within the quota, whatever is deleted
\* or fails in between; and the instance within its cap, as long as no uploads
\* overlap and no check relies on a cached total that has grown since.
SerialUploadsStayWithinQuota ==
  /\ \A o \in Users \ raced : ~Over(o)
  /\ ~crowded /\ ~misled /\ TotalQuota > 0 => Total <= TotalQuota

\* However many uploads overlap, they overrun the user's quota by at most the
\* last file: without one of the user's files, the rest fits.
OverrunByOneFileAtMost ==
  \A o \in Users : Over(o) =>
    \E u \in stored \cap OfUser(o) : Usage(o) - Size[u] <= UserQuota
=============================================================================
