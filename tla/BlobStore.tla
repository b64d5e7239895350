----------------------------- MODULE BlobStore -----------------------------
(***************************************************************************)
(* The two stores behind a package's files: committed package_files rows   *)
(* and stored objects ("blobs"). No transaction spans them. Requests write *)
(* them in separate steps, background tasks delete blobs after the         *)
(* response, and a periodic sweep deletes old blobs that no row references.*)
(*                                                                         *)
(* A file is identified with its storage key, and a row with its key.      *)
(* Time is kept as the age of each blob (hours since its mtime), saturated *)
(* at Retention + 1: the only thing the code asks of a time is whether the *)
(* blob is older than the retention.                                       *)
(***************************************************************************)
EXTENDS Naturals, FiniteSets, FiniteSetsExt

CONSTANTS
  Keys,           \* storage keys, numbered in order of issue
  Packages,       \* packages of one owner
  PackageOf,      \* the package a key's file belongs to
  Workers,        \* request threads
  Retention,      \* storage_orphan_retention_hours
  CommitWithin,   \* assumed: hours between an upload's last byte and its commit
  ReadableNames,  \* ~obfuscate_storage_names, on SQLite (row ids are reused)
  WholeObjects,   \* the S3 backend: an object appears whole, in one call
  MaxCrashes      \* bound on process crashes, for TLC

ASSUME ConstantsAssumption ==
  /\ Keys \subseteq Nat \ {0}
  /\ PackageOf \in [Keys -> Packages]
  /\ Retention \in Nat \ {0}
  /\ CommitWithin \in Nat
  /\ ReadableNames \in BOOLEAN
  /\ WholeObjects \in BOOLEAN
  /\ MaxCrashes \in Nat

\* The sweep's documentation rests on this: an upload's row commits "moments
\* later" than its bytes, in any case before the retention has passed.
ASSUME CommitsBeforeRetention == CommitWithin <= Retention

NoKey == 0

VARIABLES
  rows,        \* keys of committed package_files rows
  blobs,       \* keys that exist on the storage backend
  age,         \* age of each blob
  issued,      \* keys ever given to an upload
  pc, key,     \* per worker: what it is doing, and with which file
  batch,       \* per worker: storage keys collected by a bulk delete
  scope,       \* per worker: packages a bulk delete drops as a whole
  sweepPc,     \* the orphan sweep's step
  stale,       \* blobs whose mtime is before the running sweep's cutoff
  referenced,  \* the running sweep's snapshot of row keys
  doomed,      \* keys the running sweep has decided to delete
  condemned,   \* history: keys whose blob a single-file delete has reached
  crashes

uploadVars == <<issued, key>>
bulkVars   == <<batch, scope>>
sweepVars  == <<sweepPc, stale, referenced, doomed>>
vars == <<rows, blobs, age, uploadVars, pc, bulkVars, sweepVars, condemned, crashes>>

-----------------------------------------------------------------------------

\* Workers whose upload transaction is open: the row is flushed, not committed.
InFlight == {u \in Workers : pc[u] \in {"flushed", "writing"}}
InFlightKeys == {key[u] : u \in InFlight}

\* Slip: objects of exactly the retention's age count as old.
OldInclusive(k) == age[k] >= Retention
Old(k) == age[k] > Retention

\* A random key (generate_key), or, with readable names on SQLite, the key of
\* the next row id: one more than the largest id in the table (the files of the
\* model all have one name). SQLite has a single writer, so no other upload
\* transaction is open then.
MayIssue(k) ==
  IF ReadableNames
  THEN k = Max(rows \union {0}) + 1 /\ InFlight = {}
  ELSE k \notin issued

Put(k) ==
  /\ blobs' = blobs \union {k}
  /\ age' = [age EXCEPT ![k] = 0]
  /\ stale' = stale \ {k}

Remove(k) ==
  /\ blobs' = blobs \ {k}
  /\ age' = [age EXCEPT ![k] = 0]
  /\ stale' = stale \ {k}

\* Slip: a request's end leaves its worker in a state no other step expects.
FinishAsDone(u) ==
  /\ pc' = [pc EXCEPT ![u] = "done"]
  /\ key' = [key EXCEPT ![u] = NoKey]

Finish(u) ==
  /\ pc' = [pc EXCEPT ![u] = "idle"]
  /\ key' = [key EXCEPT ![u] = NoKey]

-----------------------------------------------------------------------------
(* Uploads: upload_file and _finalize store a file through the same helper. *)

\* store_package_file: the row is added and flushed, its key is final.
BeginUpload(u) ==
  /\ pc[u] = "idle"
  /\ \E k \in Keys :
       /\ MayIssue(k)
       /\ key' = [key EXCEPT ![u] = k]
       /\ issued' = issued \union {k}
  /\ pc' = [pc EXCEPT ![u] = "flushed"]
  /\ UNCHANGED <<rows, blobs, age, bulkVars, sweepVars, condemned, crashes>>

\* S3 measures the stream first (too large: a FailUpload, nothing is written) and
\* sends it in one call; the local backend writes and measures piece by piece.
MayWrite(u) == WholeObjects => pc[u] = "flushed"

\* storage.save writes a piece of the content.
WriteBytes(u) ==
  /\ pc[u] \in {"flushed", "writing"} /\ MayWrite(u)
  /\ Put(key[u])
  /\ pc' = [pc EXCEPT ![u] = "writing"]
  /\ UNCHANGED <<rows, uploadVars, bulkVars, sweepPc, referenced, doomed, condemned, crashes>>

CommitUpload(u) ==
  /\ pc[u] = "writing"
  /\ rows' = rows \union {key[u]}
  /\ Finish(u)
  /\ UNCHANGED <<blobs, age, issued, bulkVars, sweepVars, condemned, crashes>>

\* The write or the commit fails: rolled back, whatever was written stays.
FailUpload(u) ==
  /\ pc[u] \in {"flushed", "writing"}
  /\ Finish(u)
  /\ UNCHANGED <<rows, blobs, age, issued, bulkVars, sweepVars, condemned, crashes>>

\* FileTooLargeError: the local save unlinks its partial file, then the caller rolls back.
RejectTooLarge(u) ==
  /\ pc[u] = "writing" /\ ~WholeObjects
  /\ Remove(key[u])
  /\ Finish(u)
  /\ UNCHANGED <<rows, issued, bulkVars, sweepPc, referenced, doomed, condemned, crashes>>

\* QuotaExceededError: roll back first, then delete the stored bytes. The new row still
\* counts for nothing (its size is not flushed yet), so other files spend the quota.
RejectOverQuota(u) ==
  /\ pc[u] = "writing"
  /\ rows # {}
  /\ pc' = [pc EXCEPT ![u] = "undo"]
  /\ UNCHANGED <<rows, blobs, age, uploadVars, bulkVars, sweepVars, condemned, crashes>>

UndoWrite(u) ==
  /\ pc[u] = "undo"
  /\ Remove(key[u])
  /\ Finish(u)
  /\ UNCHANGED <<rows, issued, bulkVars, sweepPc, referenced, doomed, condemned, crashes>>

-----------------------------------------------------------------------------
(* Deletes. *)

\* delete_file: the OwnedFile dependency loads the row ...
FindFile(u) ==
  /\ pc[u] = "idle"
  /\ \E k \in rows : key' = [key EXCEPT ![u] = k]
  /\ pc' = [pc EXCEPT ![u] = "found"]
  /\ UNCHANGED <<rows, blobs, age, issued, bulkVars, sweepVars, condemned, crashes>>

\* ... the blob goes first ...
DeleteBlob(u) ==
  /\ pc[u] = "found"
  /\ Remove(key[u])
  /\ condemned' = condemned \union {key[u]}
  /\ pc' = [pc EXCEPT ![u] = "unrow"]
  /\ UNCHANGED <<rows, uploadVars, bulkVars, sweepPc, referenced, doomed, crashes>>

\* ... and the row is committed as deleted afterwards (no row is only warned of).
DeleteRow(u) ==
  /\ pc[u] = "unrow"
  /\ rows' = rows \ {key[u]}
  /\ Finish(u)
  /\ UNCHANGED <<blobs, age, issued, bulkVars, sweepVars, condemned, crashes>>

\* The backend refuses the delete: a 500, nothing changed.
DeleteFails(u) ==
  /\ pc[u] = "found"
  /\ Finish(u)
  /\ UNCHANGED <<rows, blobs, age, issued, bulkVars, sweepVars, condemned, crashes>>

InPackages(P) == {k \in rows : PackageOf[k] \in P}

\* delete_all_files (any subset of one package), delete_package (one package)
\* and delete_user (every package) read the storage keys ...
ReadKeys(u) ==
  /\ pc[u] = "idle"
  /\ \/ \E p \in Packages : \E S \in SUBSET InPackages({p}) \ {{}} :
          /\ batch' = [batch EXCEPT ![u] = S]
          /\ UNCHANGED scope
     \/ \E P \in {{p} : p \in Packages} \union {Packages} :
          /\ batch' = [batch EXCEPT ![u] = InPackages(P)]
          /\ scope' = [scope EXCEPT ![u] = P]
  /\ pc' = [pc EXCEPT ![u] = "dropping"]
  /\ UNCHANGED <<rows, blobs, age, uploadVars, sweepVars, condemned, crashes>>

\* Slip: the stored objects are handed over although the rows were kept.
DropNothing(u) ==
  /\ pc[u] = "dropping"
  /\ pc' = [pc EXCEPT ![u] = "cleaning"]
  /\ scope' = [scope EXCEPT ![u] = {}]
  /\ UNCHANGED <<rows, blobs, age, uploadVars, batch, sweepVars, condemned, crashes>>

\* ... commit the deletes, which for a dropped package cascade to every row it
\* has by then (an open upload into it holds the package row, and blocks this),
\* and hand the keys that were read to a background task.
DropRows(u) ==
  /\ pc[u] = "dropping"
  /\ \A w \in InFlight : PackageOf[key[w]] \notin scope[u]
  /\ rows' = rows \ (batch[u] \union InPackages(scope[u]))
  /\ pc' = [pc EXCEPT ![u] = "cleaning"]
  /\ scope' = [scope EXCEPT ![u] = {}]
  /\ UNCHANGED <<blobs, age, uploadVars, batch, sweepVars, condemned, crashes>>

\* delete_stored_files, after the response: a failed delete is logged, skipped.
BackgroundDelete(u) ==
  /\ pc[u] = "cleaning"
  /\ \E k \in batch[u] :
       /\ batch' = [batch EXCEPT ![u] = @ \ {k}]
       /\ Remove(k) \/ UNCHANGED <<blobs, age, stale>>
  /\ UNCHANGED <<rows, uploadVars, pc, scope, sweepPc, referenced, doomed, condemned, crashes>>

BackgroundDone(u) ==
  /\ pc[u] = "cleaning"
  /\ batch[u] = {}
  /\ Finish(u)
  /\ UNCHANGED <<rows, blobs, age, issued, bulkVars, sweepVars, condemned, crashes>>

-----------------------------------------------------------------------------
(* prune_orphaned_blobs: cutoff, snapshot of the rows, listing, deletes. *)

\* Slip: ages are taken from the rows' timestamps, orphans have none.
SweepCutoffFromRows ==
  /\ sweepPc = "idle"
  /\ sweepPc' = "cutoff"
  /\ stale' = {k \in blobs \cap rows : Old(k)}
  /\ UNCHANGED <<rows, blobs, age, uploadVars, pc, bulkVars, referenced, doomed, condemned, crashes>>

SweepCutoff ==
  /\ sweepPc = "idle"
  /\ sweepPc' = "cutoff"
  /\ stale' = {k \in blobs : Old(k)}
  /\ UNCHANGED <<rows, blobs, age, uploadVars, pc, bulkVars, referenced, doomed, condemned, crashes>>

SweepReadRows ==
  /\ sweepPc = "cutoff"
  /\ sweepPc' = "referenced"
  /\ referenced' = rows
  /\ UNCHANGED <<rows, blobs, age, uploadVars, pc, bulkVars, stale, doomed, condemned, crashes>>

\* Slip: every object without a row is doomed, however young.
SweepListAnyAge ==
  /\ sweepPc = "referenced"
  /\ sweepPc' = "deleting"
  /\ doomed' = blobs \ referenced
  /\ referenced' = {}
  /\ UNCHANGED <<rows, blobs, age, uploadVars, pc, bulkVars, stale, condemned, crashes>>

SweepList ==
  /\ sweepPc = "referenced"
  /\ sweepPc' = "deleting"
  /\ doomed' = {k \in blobs : k \in stale /\ k \notin referenced}
  /\ referenced' = {}
  /\ UNCHANGED <<rows, blobs, age, uploadVars, pc, bulkVars, stale, condemned, crashes>>

SweepDelete(k) ==
  /\ sweepPc = "deleting"
  /\ k \in doomed
  /\ Remove(k)
  /\ doomed' = doomed \ {k}
  /\ UNCHANGED <<rows, uploadVars, pc, bulkVars, sweepPc, referenced, condemned, crashes>>

SweepDeleteFails(k) ==
  /\ sweepPc = "deleting"
  /\ k \in doomed
  /\ doomed' = doomed \ {k}
  /\ UNCHANGED <<rows, blobs, age, uploadVars, pc, bulkVars, sweepPc, stale, referenced, condemned, crashes>>

SweepDone ==
  /\ sweepPc = "deleting"
  /\ doomed = {}
  /\ sweepPc' = "idle"
  /\ stale' = {}
  /\ UNCHANGED <<rows, blobs, age, uploadVars, pc, bulkVars, referenced, doomed, condemned, crashes>>

-----------------------------------------------------------------------------
(* Time and crashes. *)

\* An hour passes; by assumption it does not pass an upload about to commit.
Tick ==
  /\ \A u \in InFlight : pc[u] = "writing" => age[key[u]] < CommitWithin
  /\ age' = [k \in Keys |-> IF k \in blobs /\ age[k] <= Retention THEN age[k] + 1 ELSE age[k]]
  /\ UNCHANGED <<rows, blobs, uploadVars, pc, bulkVars, sweepVars, condemned, crashes>>

\* The process dies: every request, background task and sweep is forgotten.
Crash ==
  /\ crashes < MaxCrashes
  /\ crashes' = crashes + 1
  /\ pc' = [u \in Workers |-> "idle"]
  /\ key' = [u \in Workers |-> NoKey]
  /\ batch' = [u \in Workers |-> {}]
  /\ scope' = [u \in Workers |-> {}]
  /\ sweepPc' = "idle"
  /\ stale' = {}
  /\ referenced' = {}
  /\ doomed' = {}
  /\ UNCHANGED <<rows, blobs, age, issued, condemned>>

-----------------------------------------------------------------------------

Init ==
  /\ rows = {} /\ blobs = {} /\ issued = {}
  /\ age = [k \in Keys |-> 0]
  /\ pc = [u \in Workers |-> "idle"]
  /\ key = [u \in Workers |-> NoKey]
  /\ batch = [u \in Workers |-> {}]
  /\ scope = [u \in Workers |-> {}]
  /\ sweepPc = "idle" /\ stale = {} /\ referenced = {} /\ doomed = {}
  /\ condemned = {}
  /\ crashes = 0

\* Once entered, a request runs on: uploading, deleting or cleaning up.
Proceed(u) ==
  \/ CommitUpload(u) \/ FailUpload(u) \/ RejectTooLarge(u) \/ RejectOverQuota(u) \/ UndoWrite(u)
  \/ DeleteBlob(u) \/ DeleteRow(u) \/ DeleteFails(u)
  \/ DropRows(u) \/ BackgroundDelete(u) \/ BackgroundDone(u)

Request(u) == BeginUpload(u) \/ WriteBytes(u) \/ FindFile(u) \/ ReadKeys(u) \/ Proceed(u)

SweepStep ==
  \/ SweepCutoff \/ SweepReadRows \/ SweepList \/ SweepDone
  \/ \E k \in Keys : SweepDelete(k) \/ SweepDeleteFails(k)

Next == (\E u \in Workers : Request(u)) \/ SweepStep \/ Tick \/ Crash

Spec == Init /\ [][Next]_vars

\* The sweep loop repeats for ever, requests end, time passes, and a delete
\* that is tried again and again does not fail every time.
Fairness ==
  /\ \A u \in Workers : WF_vars(Proceed(u))
  /\ WF_vars(SweepStep)
  /\ \A k \in Keys : SF_vars(SweepDelete(k))
  /\ SF_vars(Tick)

FairSpec == Spec /\ Fairness

-----------------------------------------------------------------------------
(* Properties *)

Step == {"idle", "flushed", "writing", "undo", "found", "unrow", "dropping", "cleaning"}

TypeOK ==
  /\ rows \subseteq Keys
  /\ blobs \subseteq Keys
  /\ issued \subseteq Keys
  /\ age \in [Keys -> 0 .. Retention + 1]
  /\ pc \in [Workers -> Step]
  /\ key \in [Workers -> Keys \union {NoKey}]
  /\ batch \in [Workers -> SUBSET Keys]
  /\ scope \in [Workers -> SUBSET Packages]
  /\ sweepPc \in {"idle", "cutoff", "referenced", "deleting"}
  /\ stale \subseteq Keys /\ referenced \subseteq Keys /\ doomed \subseteq Keys
  /\ condemned \subseteq Keys
  /\ crashes \in 0 .. MaxCrashes

\* A committed file has its stored object, unless a single-file delete has
\* reached that object (delete_file deletes it before its row is committed as
\* deleted, so a crash between the two leaves a row without an object).
LiveRowHasBlob == rows \ condemned \subseteq blobs

\* What the sweep has decided to delete is garbage and stays garbage until it is
\* deleted: never the object of a committed row nor of an upload about to commit.
SweepSparesLiveAndInFlight == doomed \cap (rows \union InFlightKeys) = {}

\* Deletes that run after the rows are gone (background tasks, the undo of a
\* rejected upload) never aim at an object that a row or an upload has come to use.
LateDeletesHitOnlyGarbage ==
  \A u \in Workers :
    /\ pc[u] = "cleaning" => batch[u] \cap (rows \union InFlightKeys) = {}
    /\ pc[u] = "undo" => key[u] \notin rows \union InFlightKeys

\* An object that nothing references any more is deleted in the end, whatever
\* crash or failed delete left it behind.
Garbage(k) == k \in blobs \ (rows \union InFlightKeys)
OrphansAreReclaimed == \A k \in Keys : Garbage(k) ~> k \notin blobs
=============================================================================
