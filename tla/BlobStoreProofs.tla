-------------------------- MODULE BlobStoreProofs --------------------------
(***************************************************************************)
(* With storage keys that are never reissued, no delete and no sweep ever   *)
(* takes the object of a committed file, for every number of keys, workers, *)
(* packages and crashes, and every retention that exceeds the time from an  *)
(* upload's last byte to its commit.                                        *)
(***************************************************************************)
EXTENDS BlobStore, TLAPS

\* Why a committed row keeps its object when storage keys are never reissued.
\* Fresh: keys in use come from the issue register, and no two uploads, nor an
\* upload and a row, share one.
Fresh ==
  /\ rows \union blobs \union InFlightKeys \subseteq issued
  /\ InFlightKeys \cap rows = {}
  /\ \A u, w \in InFlight : key[u] = key[w] => u = w

\* An upload with bytes has its object, younger than the retention, and the
\* running sweep's cutoff does not take it for old.
YoungInFlight ==
  \A u \in Workers :
    /\ pc[u] = "flushed" => key[u] \notin blobs
    /\ pc[u] = "writing" => key[u] \in blobs /\ age[key[u]] <= CommitWithin

\* Single-file deletes and bulk deletes hold keys of files that were committed.
HeldKeys ==
  \A u \in Workers :
    /\ pc[u] \in {"found", "unrow", "undo"} => key[u] \in issued \ InFlightKeys
    /\ batch[u] \subseteq issued \ InFlightKeys

\* The sweep handles issued keys only, none of them of an upload in flight.
SweepKeysIssued == stale \union doomed \subseteq issued
SweepAvoidsInFlight == (stale \union doomed) \cap InFlightKeys = {}

\* A row whose object the sweep takes for old is in the sweep's snapshot.
SnapshotCovers == sweepPc = "referenced" => rows \cap stale \subseteq referenced

IInv ==
  /\ TypeOK
  /\ Fresh
  /\ YoungInFlight
  /\ HeldKeys
  /\ SweepKeysIssued
  /\ SweepAvoidsInFlight
  /\ SnapshotCovers
  /\ LiveRowHasBlob
  /\ SweepSparesLiveAndInFlight
  /\ LateDeletesHitOnlyGarbage

-----------------------------------------------------------------------------

\* A storage write or delete keeps the types of what it changes.
LEMMA PutRemoveType ==
  ASSUME TypeOK, NEW k \in Keys, Put(k) \/ Remove(k)
  PROVE  blobs' \subseteq Keys /\ stale' \subseteq Keys /\ age' \in [Keys -> 0 .. Retention + 1]
<1>1. age' = [age EXCEPT ![k] = 0]
  BY DEF Put, Remove
<1>2. 0 \in 0 .. Retention + 1
  BY ConstantsAssumption
<1>3. age' \in [Keys -> 0 .. Retention + 1]
  BY <1>1, <1>2 DEF TypeOK
<1>4. QED
  BY <1>3 DEF TypeOK, Put, Remove

LEMMA AgeIsNat ==
  ASSUME TypeOK, NEW k \in Keys
  PROVE  age[k] \in Nat
<1>1. age[k] \in 0 .. Retention + 1
  BY DEF TypeOK
<1>2. Retention + 1 \in Nat
  BY ConstantsAssumption
<1>3. QED
  BY <1>1, <1>2

\* The key of an upload in flight is its own: no row, no other upload and no
\* sweep has it.
LEMMA InFlightKey ==
  ASSUME IInv, NEW u \in Workers, pc[u] \in {"flushed", "writing"}
  PROVE  /\ key[u] \in InFlightKeys /\ key[u] \in Keys /\ key[u] \in issued
         /\ key[u] \notin rows /\ key[u] \notin stale /\ key[u] \notin doomed
         /\ \A w \in Workers \ {u} : pc[w] \in {"flushed", "writing"} => key[w] # key[u]
<1>1. u \in InFlight
  BY DEF InFlight
<1>2. key[u] \in InFlightKeys
  BY <1>1 DEF InFlightKeys
<1>3. \A w \in Workers \ {u} : pc[w] \in {"flushed", "writing"} => key[w] # key[u]
  BY <1>1 DEF IInv, Fresh, InFlight
<1>4. QED
  BY <1>2, <1>3 DEF IInv, TypeOK, Fresh, SweepAvoidsInFlight

\* The key of a single-file delete or of a rejected upload was issued, and is no
\* longer that of an upload in flight.
LEMMA HeldKey ==
  ASSUME IInv, NEW u \in Workers, pc[u] \in {"found", "unrow", "undo"}
  PROVE  key[u] \in Keys /\ key[u] \in issued /\ key[u] \notin InFlightKeys
BY DEF IInv, TypeOK, HeldKeys

-----------------------------------------------------------------------------
(* One lemma per action of a worker. *)

LEMMA BeginUploadStep ==
  ASSUME ~ReadableNames, IInv, NEW u \in Workers, BeginUpload(u)
  PROVE  IInv'
<1> USE DEF IInv, TypeOK, BeginUpload, MayIssue, Step, InFlight, InFlightKeys,
      uploadVars, bulkVars, sweepVars
<1>1. TypeOK'
  OBVIOUS
<1>2. Fresh'
  BY DEF Fresh, HeldKeys
<1>3. YoungInFlight'
  BY DEF YoungInFlight, Fresh, HeldKeys
<1>4. HeldKeys'
  BY DEF HeldKeys, Fresh
<1>5. SweepKeysIssued'
  BY DEF SweepKeysIssued
<1>6. SweepAvoidsInFlight'
  BY DEF SweepAvoidsInFlight, SweepKeysIssued
<1>7. SnapshotCovers'
  BY DEF SnapshotCovers
<1>8. LiveRowHasBlob'
  BY DEF LiveRowHasBlob
<1>9. SweepSparesLiveAndInFlight'
  BY DEF SweepSparesLiveAndInFlight, SweepKeysIssued
<1>10. LateDeletesHitOnlyGarbage'
  BY DEF LateDeletesHitOnlyGarbage, HeldKeys
<1> QED
  BY <1>1, <1>2, <1>3, <1>4, <1>5, <1>6, <1>7, <1>8, <1>9, <1>10

LEMMA WriteBytesStep ==
  ASSUME ~ReadableNames, IInv, NEW u \in Workers, WriteBytes(u)
  PROVE  IInv'
<1>0. /\ key[u] \in InFlightKeys /\ key[u] \in Keys /\ key[u] \in issued
      /\ key[u] \notin rows /\ key[u] \notin stale /\ key[u] \notin doomed
      /\ \A w \in Workers \ {u} : pc[w] \in {"flushed", "writing"} => key[w] # key[u]
  BY InFlightKey DEF WriteBytes
<1> USE DEF IInv, TypeOK, WriteBytes, Put, Step, InFlight, InFlightKeys,
      uploadVars, bulkVars, sweepVars
<1>1. TypeOK'
  BY <1>0, PutRemoveType
<1>2. Fresh'
  BY <1>0 DEF Fresh
<1>3. YoungInFlight'
  BY <1>0, ConstantsAssumption DEF YoungInFlight, Fresh
<1>4. HeldKeys'
  BY <1>0 DEF HeldKeys, Fresh
<1>5. SweepKeysIssued'
  BY <1>0 DEF SweepKeysIssued
<1>6. SweepAvoidsInFlight'
  BY <1>0 DEF SweepAvoidsInFlight
<1>7. SnapshotCovers'
  BY <1>0 DEF SnapshotCovers
<1>8. LiveRowHasBlob'
  BY <1>0 DEF LiveRowHasBlob
<1>9. SweepSparesLiveAndInFlight'
  BY <1>0 DEF SweepSparesLiveAndInFlight
<1>10. LateDeletesHitOnlyGarbage'
  BY <1>0 DEF LateDeletesHitOnlyGarbage, HeldKeys
<1> QED
  BY <1>1, <1>2, <1>3, <1>4, <1>5, <1>6, <1>7, <1>8, <1>9, <1>10

LEMMA CommitUploadStep ==
  ASSUME ~ReadableNames, IInv, NEW u \in Workers, CommitUpload(u)
  PROVE  IInv'
<1>0. /\ key[u] \in InFlightKeys /\ key[u] \in Keys /\ key[u] \in issued
      /\ key[u] \notin rows /\ key[u] \notin stale /\ key[u] \notin doomed
      /\ \A w \in Workers \ {u} : pc[w] \in {"flushed", "writing"} => key[w] # key[u]
  BY InFlightKey DEF CommitUpload
<1> USE DEF IInv, TypeOK, CommitUpload, Finish, NoKey, Step, InFlight, InFlightKeys,
      uploadVars, bulkVars, sweepVars
<1>1. TypeOK'
  BY <1>0
<1>2. Fresh'
  BY <1>0 DEF Fresh
<1>3. YoungInFlight'
  BY <1>0 DEF YoungInFlight, Fresh
<1>4. HeldKeys'
  BY <1>0 DEF HeldKeys, Fresh
<1>5. SweepKeysIssued'
  BY <1>0 DEF SweepKeysIssued
<1>6. SweepAvoidsInFlight'
  BY <1>0 DEF SweepAvoidsInFlight
<1>7. SnapshotCovers'
  BY <1>0 DEF SnapshotCovers
<1>8. LiveRowHasBlob'
  BY <1>0 DEF LiveRowHasBlob, YoungInFlight
<1>9. SweepSparesLiveAndInFlight'
  BY <1>0 DEF SweepSparesLiveAndInFlight
<1>10. LateDeletesHitOnlyGarbage'
  BY <1>0 DEF LateDeletesHitOnlyGarbage, HeldKeys
<1> QED
  BY <1>1, <1>2, <1>3, <1>4, <1>5, <1>6, <1>7, <1>8, <1>9, <1>10

LEMMA FailUploadStep ==
  ASSUME ~ReadableNames, IInv, NEW u \in Workers, FailUpload(u)
  PROVE  IInv'
<1>0. /\ key[u] \in InFlightKeys /\ key[u] \in Keys /\ key[u] \in issued
      /\ key[u] \notin rows /\ key[u] \notin stale /\ key[u] \notin doomed
      /\ \A w \in Workers \ {u} : pc[w] \in {"flushed", "writing"} => key[w] # key[u]
  BY InFlightKey DEF FailUpload
<1> USE DEF IInv, TypeOK, FailUpload, Finish, NoKey, Step, InFlight, InFlightKeys,
      uploadVars, bulkVars, sweepVars
<1>1. TypeOK'
  BY <1>0
<1>2. Fresh'
  BY <1>0 DEF Fresh
<1>3. YoungInFlight'
  BY <1>0 DEF YoungInFlight, Fresh
<1>4. HeldKeys'
  BY <1>0 DEF HeldKeys, Fresh
<1>5. SweepKeysIssued'
  BY <1>0 DEF SweepKeysIssued
<1>6. SweepAvoidsInFlight'
  BY <1>0 DEF SweepAvoidsInFlight
<1>7. SnapshotCovers'
  BY <1>0 DEF SnapshotCovers
<1>8. LiveRowHasBlob'
  BY <1>0 DEF LiveRowHasBlob
<1>9. SweepSparesLiveAndInFlight'
  BY <1>0 DEF SweepSparesLiveAndInFlight
<1>10. LateDeletesHitOnlyGarbage'
  BY <1>0 DEF LateDeletesHitOnlyGarbage, HeldKeys
<1> QED
  BY <1>1, <1>2, <1>3, <1>4, <1>5, <1>6, <1>7, <1>8, <1>9, <1>10

LEMMA RejectTooLargeStep ==
  ASSUME ~ReadableNames, IInv, NEW u \in Workers, RejectTooLarge(u)
  PROVE  IInv'
<1>0. /\ key[u] \in InFlightKeys /\ key[u] \in Keys /\ key[u] \in issued
      /\ key[u] \notin rows /\ key[u] \notin stale /\ key[u] \notin doomed
      /\ \A w \in Workers \ {u} : pc[w] \in {"flushed", "writing"} => key[w] # key[u]
  BY InFlightKey DEF RejectTooLarge
<1> USE DEF IInv, TypeOK, RejectTooLarge, Finish, NoKey, Remove, Step, InFlight, InFlightKeys,
      uploadVars, bulkVars, sweepVars
<1>1. TypeOK'
  BY <1>0, PutRemoveType
<1>2. Fresh'
  BY <1>0 DEF Fresh
<1>3. YoungInFlight'
  BY <1>0 DEF YoungInFlight, Fresh
<1>4. HeldKeys'
  BY <1>0 DEF HeldKeys, Fresh
<1>5. SweepKeysIssued'
  BY <1>0 DEF SweepKeysIssued
<1>6. SweepAvoidsInFlight'
  BY <1>0 DEF SweepAvoidsInFlight
<1>7. SnapshotCovers'
  BY <1>0 DEF SnapshotCovers
<1>8. LiveRowHasBlob'
  BY <1>0 DEF LiveRowHasBlob
<1>9. SweepSparesLiveAndInFlight'
  BY <1>0 DEF SweepSparesLiveAndInFlight
<1>10. LateDeletesHitOnlyGarbage'
  BY <1>0 DEF LateDeletesHitOnlyGarbage, HeldKeys
<1> QED
  BY <1>1, <1>2, <1>3, <1>4, <1>5, <1>6, <1>7, <1>8, <1>9, <1>10

LEMMA RejectOverQuotaStep ==
  ASSUME ~ReadableNames, IInv, NEW u \in Workers, RejectOverQuota(u)
  PROVE  IInv'
<1>0. /\ key[u] \in InFlightKeys /\ key[u] \in Keys /\ key[u] \in issued
      /\ key[u] \notin rows /\ key[u] \notin stale /\ key[u] \notin doomed
      /\ \A w \in Workers \ {u} : pc[w] \in {"flushed", "writing"} => key[w] # key[u]
  BY InFlightKey DEF RejectOverQuota
<1> USE DEF IInv, TypeOK, RejectOverQuota, Step, InFlight, InFlightKeys,
      uploadVars, bulkVars, sweepVars
<1>1. TypeOK'
  BY <1>0
<1>2. Fresh'
  BY <1>0 DEF Fresh
<1>3. YoungInFlight'
  BY <1>0 DEF YoungInFlight, Fresh
<1>4. HeldKeys'
  BY <1>0 DEF HeldKeys, Fresh
<1>5. SweepKeysIssued'
  BY <1>0 DEF SweepKeysIssued
<1>6. SweepAvoidsInFlight'
  BY <1>0 DEF SweepAvoidsInFlight
<1>7. SnapshotCovers'
  BY <1>0 DEF SnapshotCovers
<1>8. LiveRowHasBlob'
  BY <1>0 DEF LiveRowHasBlob
<1>9. SweepSparesLiveAndInFlight'
  BY <1>0 DEF SweepSparesLiveAndInFlight
<1>10. LateDeletesHitOnlyGarbage'
  BY <1>0 DEF LateDeletesHitOnlyGarbage, HeldKeys
<1> QED
  BY <1>1, <1>2, <1>3, <1>4, <1>5, <1>6, <1>7, <1>8, <1>9, <1>10

LEMMA UndoWriteStep ==
  ASSUME ~ReadableNames, IInv, NEW u \in Workers, UndoWrite(u)
  PROVE  IInv'
<1>0. key[u] \in Keys /\ key[u] \in issued /\ key[u] \notin InFlightKeys
  BY HeldKey DEF UndoWrite
<1> USE DEF IInv, TypeOK, UndoWrite, Finish, NoKey, Remove, Step, InFlight, InFlightKeys,
      uploadVars, bulkVars, sweepVars
<1>1. TypeOK'
  BY <1>0, PutRemoveType
<1>2. Fresh'
  BY <1>0 DEF Fresh, HeldKeys
<1>3. YoungInFlight'
  BY <1>0 DEF YoungInFlight, Fresh, HeldKeys
<1>4. HeldKeys'
  BY <1>0 DEF HeldKeys, Fresh
<1>5. SweepKeysIssued'
  BY <1>0 DEF SweepKeysIssued
<1>6. SweepAvoidsInFlight'
  BY <1>0 DEF SweepAvoidsInFlight
<1>7. SnapshotCovers'
  BY <1>0 DEF SnapshotCovers
<1>8. LiveRowHasBlob'
  BY <1>0 DEF LiveRowHasBlob, LateDeletesHitOnlyGarbage
<1>9. SweepSparesLiveAndInFlight'
  BY <1>0 DEF SweepSparesLiveAndInFlight
<1>10. LateDeletesHitOnlyGarbage'
  BY <1>0 DEF LateDeletesHitOnlyGarbage, HeldKeys
<1> QED
  BY <1>1, <1>2, <1>3, <1>4, <1>5, <1>6, <1>7, <1>8, <1>9, <1>10

LEMMA FindFileStep ==
  ASSUME ~ReadableNames, IInv, NEW u \in Workers, FindFile(u)
  PROVE  IInv'
<1> USE DEF IInv, TypeOK, FindFile, Step, InFlight, InFlightKeys,
      uploadVars, bulkVars, sweepVars
<1>1. TypeOK'
  OBVIOUS
<1>2. Fresh'
  BY DEF Fresh, HeldKeys
<1>3. YoungInFlight'
  BY DEF YoungInFlight, Fresh, HeldKeys
<1>4. HeldKeys'
  BY DEF HeldKeys, Fresh
<1>5. SweepKeysIssued'
  BY DEF SweepKeysIssued
<1>6. SweepAvoidsInFlight'
  BY DEF SweepAvoidsInFlight
<1>7. SnapshotCovers'
  BY DEF SnapshotCovers
<1>8. LiveRowHasBlob'
  BY DEF LiveRowHasBlob
<1>9. SweepSparesLiveAndInFlight'
  BY DEF SweepSparesLiveAndInFlight
<1>10. LateDeletesHitOnlyGarbage'
  BY DEF LateDeletesHitOnlyGarbage, HeldKeys
<1> QED
  BY <1>1, <1>2, <1>3, <1>4, <1>5, <1>6, <1>7, <1>8, <1>9, <1>10

LEMMA DeleteBlobStep ==
  ASSUME ~ReadableNames, IInv, NEW u \in Workers, DeleteBlob(u)
  PROVE  IInv'
<1>0. key[u] \in Keys /\ key[u] \in issued /\ key[u] \notin InFlightKeys
  BY HeldKey DEF DeleteBlob
<1> USE DEF IInv, TypeOK, DeleteBlob, Remove, Step, InFlight, InFlightKeys,
      uploadVars, bulkVars, sweepVars
<1>1. TypeOK'
  BY <1>0, PutRemoveType
<1>2. Fresh'
  BY <1>0 DEF Fresh, HeldKeys
<1>3. YoungInFlight'
  BY <1>0 DEF YoungInFlight, Fresh, HeldKeys
<1>4. HeldKeys'
  BY <1>0 DEF HeldKeys, Fresh
<1>5. SweepKeysIssued'
  BY <1>0 DEF SweepKeysIssued
<1>6. SweepAvoidsInFlight'
  BY <1>0 DEF SweepAvoidsInFlight
<1>7. SnapshotCovers'
  BY <1>0 DEF SnapshotCovers
<1>8. LiveRowHasBlob'
  BY <1>0 DEF LiveRowHasBlob
<1>9. SweepSparesLiveAndInFlight'
  BY <1>0 DEF SweepSparesLiveAndInFlight
<1>10. LateDeletesHitOnlyGarbage'
  BY <1>0 DEF LateDeletesHitOnlyGarbage, HeldKeys
<1> QED
  BY <1>1, <1>2, <1>3, <1>4, <1>5, <1>6, <1>7, <1>8, <1>9, <1>10

LEMMA DeleteRowStep ==
  ASSUME ~ReadableNames, IInv, NEW u \in Workers, DeleteRow(u)
  PROVE  IInv'
<1>0. key[u] \in Keys /\ key[u] \in issued /\ key[u] \notin InFlightKeys
  BY HeldKey DEF DeleteRow
<1> USE DEF IInv, TypeOK, DeleteRow, Finish, NoKey, Step, InFlight, InFlightKeys,
      uploadVars, bulkVars, sweepVars
<1>1. TypeOK'
  BY <1>0
<1>2. Fresh'
  BY <1>0 DEF Fresh, HeldKeys
<1>3. YoungInFlight'
  BY <1>0 DEF YoungInFlight, Fresh
<1>4. HeldKeys'
  BY <1>0 DEF HeldKeys, Fresh
<1>5. SweepKeysIssued'
  BY <1>0 DEF SweepKeysIssued
<1>6. SweepAvoidsInFlight'
  BY <1>0 DEF SweepAvoidsInFlight
<1>7. SnapshotCovers'
  BY <1>0 DEF SnapshotCovers
<1>8. LiveRowHasBlob'
  BY <1>0 DEF LiveRowHasBlob
<1>9. SweepSparesLiveAndInFlight'
  BY <1>0 DEF SweepSparesLiveAndInFlight
<1>10. LateDeletesHitOnlyGarbage'
  BY <1>0 DEF LateDeletesHitOnlyGarbage, HeldKeys
<1> QED
  BY <1>1, <1>2, <1>3, <1>4, <1>5, <1>6, <1>7, <1>8, <1>9, <1>10

LEMMA DeleteFailsStep ==
  ASSUME ~ReadableNames, IInv, NEW u \in Workers, DeleteFails(u)
  PROVE  IInv'
<1>0. key[u] \in Keys /\ key[u] \in issued /\ key[u] \notin InFlightKeys
  BY HeldKey DEF DeleteFails
<1> USE DEF IInv, TypeOK, DeleteFails, Finish, NoKey, Step, InFlight, InFlightKeys,
      uploadVars, bulkVars, sweepVars
<1>1. TypeOK'
  BY <1>0
<1>2. Fresh'
  BY <1>0 DEF Fresh, HeldKeys
<1>3. YoungInFlight'
  BY <1>0 DEF YoungInFlight, Fresh
<1>4. HeldKeys'
  BY <1>0 DEF HeldKeys, Fresh
<1>5. SweepKeysIssued'
  BY <1>0 DEF SweepKeysIssued
<1>6. SweepAvoidsInFlight'
  BY <1>0 DEF SweepAvoidsInFlight
<1>7. SnapshotCovers'
  BY <1>0 DEF SnapshotCovers
<1>8. LiveRowHasBlob'
  BY <1>0 DEF LiveRowHasBlob
<1>9. SweepSparesLiveAndInFlight'
  BY <1>0 DEF SweepSparesLiveAndInFlight
<1>10. LateDeletesHitOnlyGarbage'
  BY <1>0 DEF LateDeletesHitOnlyGarbage, HeldKeys
<1> QED
  BY <1>1, <1>2, <1>3, <1>4, <1>5, <1>6, <1>7, <1>8, <1>9, <1>10

LEMMA ReadKeysStep ==
  ASSUME ~ReadableNames, IInv, NEW u \in Workers, ReadKeys(u)
  PROVE  IInv'
<1> USE DEF IInv, TypeOK, ReadKeys, InPackages, Step, InFlight, InFlightKeys,
      uploadVars, bulkVars, sweepVars
<1>1. TypeOK'
  OBVIOUS
<1>2. Fresh'
  BY DEF Fresh, HeldKeys
<1>3. YoungInFlight'
  BY DEF YoungInFlight, Fresh
<1>4. HeldKeys'
  BY DEF HeldKeys, Fresh
<1>5. SweepKeysIssued'
  BY DEF SweepKeysIssued
<1>6. SweepAvoidsInFlight'
  BY DEF SweepAvoidsInFlight
<1>7. SnapshotCovers'
  BY DEF SnapshotCovers
<1>8. LiveRowHasBlob'
  BY DEF LiveRowHasBlob
<1>9. SweepSparesLiveAndInFlight'
  BY DEF SweepSparesLiveAndInFlight
<1>10. LateDeletesHitOnlyGarbage'
  BY DEF LateDeletesHitOnlyGarbage, HeldKeys
<1> QED
  BY <1>1, <1>2, <1>3, <1>4, <1>5, <1>6, <1>7, <1>8, <1>9, <1>10

LEMMA DropRowsStep ==
  ASSUME ~ReadableNames, IInv, NEW u \in Workers, DropRows(u)
  PROVE  IInv'
<1> USE DEF IInv, TypeOK, DropRows, InPackages, Step, InFlight, InFlightKeys,
      uploadVars, bulkVars, sweepVars
<1>1. TypeOK'
  OBVIOUS
<1>2. Fresh'
  BY DEF Fresh, HeldKeys
<1>3. YoungInFlight'
  BY DEF YoungInFlight, Fresh
<1>4. HeldKeys'
  BY DEF HeldKeys, Fresh
<1>5. SweepKeysIssued'
  BY DEF SweepKeysIssued
<1>6. SweepAvoidsInFlight'
  BY DEF SweepAvoidsInFlight
<1>7. SnapshotCovers'
  BY DEF SnapshotCovers
<1>8. LiveRowHasBlob'
  BY DEF LiveRowHasBlob
<1>9. SweepSparesLiveAndInFlight'
  BY DEF SweepSparesLiveAndInFlight
<1>10. LateDeletesHitOnlyGarbage'
  BY DEF LateDeletesHitOnlyGarbage, HeldKeys
<1> QED
  BY <1>1, <1>2, <1>3, <1>4, <1>5, <1>6, <1>7, <1>8, <1>9, <1>10

LEMMA BackgroundDeleteStep ==
  ASSUME ~ReadableNames, IInv, NEW u \in Workers, BackgroundDelete(u)
  PROVE  IInv'
<1> USE DEF IInv, TypeOK, BackgroundDelete, Remove, Step, InFlight, InFlightKeys,
      uploadVars, bulkVars, sweepVars
<1>a. PICK k \in batch[u] : Remove(k) \/ UNCHANGED <<blobs, age, stale>>
  OBVIOUS
<1>b. k \in Keys /\ k \notin rows /\ k \notin InFlightKeys
  BY DEF HeldKeys, LateDeletesHitOnlyGarbage
<1>c. blobs' \subseteq Keys /\ stale' \subseteq Keys /\ age' \in [Keys -> 0 .. Retention + 1]
  BY <1>a, <1>b, PutRemoveType
<1>1. TypeOK'
  BY <1>c
<1>2. Fresh'
  BY <1>a, <1>b DEF Fresh, HeldKeys
<1>3. YoungInFlight'
  BY <1>a, <1>b DEF YoungInFlight, Fresh, HeldKeys
<1>4. HeldKeys'
  BY <1>a, <1>b DEF HeldKeys, Fresh
<1>5. SweepKeysIssued'
  BY <1>a, <1>b DEF SweepKeysIssued
<1>6. SweepAvoidsInFlight'
  BY <1>a, <1>b DEF SweepAvoidsInFlight
<1>7. SnapshotCovers'
  BY <1>a, <1>b DEF SnapshotCovers
<1>8. LiveRowHasBlob'
  BY <1>a, <1>b DEF LiveRowHasBlob
<1>9. SweepSparesLiveAndInFlight'
  BY <1>a, <1>b DEF SweepSparesLiveAndInFlight
<1>10. LateDeletesHitOnlyGarbage'
  BY <1>a, <1>b DEF LateDeletesHitOnlyGarbage, HeldKeys
<1> QED
  BY <1>1, <1>2, <1>3, <1>4, <1>5, <1>6, <1>7, <1>8, <1>9, <1>10

LEMMA BackgroundDoneStep ==
  ASSUME ~ReadableNames, IInv, NEW u \in Workers, BackgroundDone(u)
  PROVE  IInv'
<1> USE DEF IInv, TypeOK, BackgroundDone, Finish, NoKey, Step, InFlight, InFlightKeys,
      uploadVars, bulkVars, sweepVars
<1>1. TypeOK'
  OBVIOUS
<1>2. Fresh'
  BY DEF Fresh, HeldKeys
<1>3. YoungInFlight'
  BY DEF YoungInFlight, Fresh
<1>4. HeldKeys'
  BY DEF HeldKeys, Fresh
<1>5. SweepKeysIssued'
  BY DEF SweepKeysIssued
<1>6. SweepAvoidsInFlight'
  BY DEF SweepAvoidsInFlight
<1>7. SnapshotCovers'
  BY DEF SnapshotCovers
<1>8. LiveRowHasBlob'
  BY DEF LiveRowHasBlob
<1>9. SweepSparesLiveAndInFlight'
  BY DEF SweepSparesLiveAndInFlight
<1>10. LateDeletesHitOnlyGarbage'
  BY DEF LateDeletesHitOnlyGarbage, HeldKeys
<1> QED
  BY <1>1, <1>2, <1>3, <1>4, <1>5, <1>6, <1>7, <1>8, <1>9, <1>10

-----------------------------------------------------------------------------
(* The sweep, time and crashes. *)

LEMMA SweepCutoffStep ==
  ASSUME IInv, SweepCutoff
  PROVE  IInv'
<1> USE DEF IInv, TypeOK, SweepCutoff, Step, InFlight, InFlightKeys, uploadVars, bulkVars
<1>1. \A k \in stale' : k \in blobs /\ age[k] > Retention
  BY DEF Old
\* An upload in flight has no object yet, or one that is not old.
<1>2. stale' \cap InFlightKeys = {}
  <2> SUFFICES ASSUME NEW u \in Workers, pc[u] \in {"flushed", "writing"}, key[u] \in stale'
               PROVE  FALSE
    OBVIOUS
  <2>1. key[u] \in Keys /\ key[u] \in blobs /\ age[key[u]] > Retention
    BY <1>1
  <2>2. age[key[u]] <= CommitWithin
    BY <2>1 DEF YoungInFlight
  <2>3. age[key[u]] \in Nat /\ Retention \in Nat /\ CommitWithin \in Nat
    BY <2>1, AgeIsNat, ConstantsAssumption
  <2>4. QED
    BY <2>1, <2>2, <2>3, CommitsBeforeRetention
<1>3. TypeOK'
  BY <1>1
<1>4. Fresh' /\ YoungInFlight' /\ HeldKeys'
  BY DEF Fresh, YoungInFlight, HeldKeys
<1>5. SweepKeysIssued'
  BY <1>1 DEF SweepKeysIssued, Fresh
<1>6. SweepAvoidsInFlight'
  BY <1>2 DEF SweepAvoidsInFlight
<1>7. SnapshotCovers'
  BY DEF SnapshotCovers
<1>8. LiveRowHasBlob' /\ SweepSparesLiveAndInFlight' /\ LateDeletesHitOnlyGarbage'
  BY DEF LiveRowHasBlob, SweepSparesLiveAndInFlight, LateDeletesHitOnlyGarbage
<1>9. QED
  BY <1>3, <1>4, <1>5, <1>6, <1>7, <1>8

LEMMA SweepReadRowsStep ==
  ASSUME IInv, SweepReadRows
  PROVE  IInv'
<1> USE DEF IInv, TypeOK, SweepReadRows, Step, InFlight, InFlightKeys, uploadVars, bulkVars
<1>1. TypeOK'
  OBVIOUS
<1>2. Fresh' /\ YoungInFlight' /\ HeldKeys'
  BY DEF Fresh, YoungInFlight, HeldKeys
<1>3. SweepKeysIssued' /\ SweepAvoidsInFlight' /\ SnapshotCovers'
  BY DEF SweepKeysIssued, SweepAvoidsInFlight, SnapshotCovers
<1>4. LiveRowHasBlob' /\ SweepSparesLiveAndInFlight' /\ LateDeletesHitOnlyGarbage'
  BY DEF LiveRowHasBlob, SweepSparesLiveAndInFlight, LateDeletesHitOnlyGarbage
<1>5. QED
  BY <1>1, <1>2, <1>3, <1>4

LEMMA SweepListStep ==
  ASSUME IInv, SweepList
  PROVE  IInv'
<1> USE DEF IInv, TypeOK, SweepList, Step, InFlight, InFlightKeys, uploadVars, bulkVars
<1>1. TypeOK'
  OBVIOUS
<1>2. Fresh' /\ YoungInFlight' /\ HeldKeys'
  BY DEF Fresh, YoungInFlight, HeldKeys
<1>3. SweepKeysIssued' /\ SweepAvoidsInFlight' /\ SnapshotCovers'
  BY DEF SweepKeysIssued, SweepAvoidsInFlight, SnapshotCovers
\* What is listed as old and is in the table was in the table at the snapshot.
<1>4. SweepSparesLiveAndInFlight'
  BY DEF SweepSparesLiveAndInFlight, SnapshotCovers, SweepAvoidsInFlight
<1>5. LiveRowHasBlob' /\ LateDeletesHitOnlyGarbage'
  BY DEF LiveRowHasBlob, LateDeletesHitOnlyGarbage
<1>6. QED
  BY <1>1, <1>2, <1>3, <1>4, <1>5

LEMMA SweepDeleteStep ==
  ASSUME IInv, NEW k \in Keys, SweepDelete(k)
  PROVE  IInv'
<1> USE DEF IInv, TypeOK, SweepDelete, Remove, Step, InFlight, InFlightKeys, uploadVars, bulkVars
<1>1. k \notin rows /\ k \notin InFlightKeys
  BY DEF SweepSparesLiveAndInFlight
<1>2. TypeOK'
  BY PutRemoveType
<1>3. Fresh' /\ YoungInFlight' /\ HeldKeys'
  <2>1. Fresh'
    BY DEF Fresh
  <2>2. YoungInFlight'
    BY <1>1 DEF YoungInFlight, Fresh
  <2>3. QED
    BY <2>1, <2>2 DEF HeldKeys
<1>4. SweepKeysIssued' /\ SweepAvoidsInFlight' /\ SnapshotCovers'
  BY DEF SweepKeysIssued, SweepAvoidsInFlight, SnapshotCovers
<1>5. LiveRowHasBlob' /\ SweepSparesLiveAndInFlight' /\ LateDeletesHitOnlyGarbage'
  BY <1>1 DEF LiveRowHasBlob, SweepSparesLiveAndInFlight, LateDeletesHitOnlyGarbage
<1>6. QED
  BY <1>2, <1>3, <1>4, <1>5

LEMMA SweepDeleteFailsStep ==
  ASSUME IInv, NEW k \in Keys, SweepDeleteFails(k)
  PROVE  IInv'
BY DEF IInv, TypeOK, SweepDeleteFails, Step, InFlight, InFlightKeys, uploadVars, bulkVars,
  Fresh, YoungInFlight, HeldKeys, SweepKeysIssued, SweepAvoidsInFlight, SnapshotCovers,
  LiveRowHasBlob, SweepSparesLiveAndInFlight, LateDeletesHitOnlyGarbage

LEMMA SweepDoneStep ==
  ASSUME IInv, SweepDone
  PROVE  IInv'
BY DEF IInv, TypeOK, SweepDone, Step, InFlight, InFlightKeys, uploadVars, bulkVars,
  Fresh, YoungInFlight, HeldKeys, SweepKeysIssued, SweepAvoidsInFlight, SnapshotCovers,
  LiveRowHasBlob, SweepSparesLiveAndInFlight, LateDeletesHitOnlyGarbage

\* Time passes only while every upload with bytes still has time to commit.
LEMMA TickStep ==
  ASSUME IInv, Tick
  PROVE  IInv'
<1>0. CommitWithin \in Nat /\ \A k \in Keys : age[k] \in Nat
  BY AgeIsNat, ConstantsAssumption DEF IInv
<1> USE DEF IInv, TypeOK, Tick, Step, InFlight, InFlightKeys, uploadVars, bulkVars, sweepVars
<1>1. \A k \in Keys : age'[k] \in 0 .. Retention + 1 /\ age'[k] <= age[k] + 1
  BY ConstantsAssumption
<1>2. TypeOK'
  BY <1>1
<1>3. YoungInFlight'
  <2> SUFFICES ASSUME NEW u \in Workers, pc[u] = "writing"
               PROVE  age'[key[u]] <= CommitWithin
    BY DEF YoungInFlight
  <2>1. key[u] \in Keys
    BY InFlightKey
  <2>2. age[key[u]] < CommitWithin
    OBVIOUS
  <2>3. age[key[u]] \in Nat /\ CommitWithin \in Nat
    BY <1>0, <2>1
  <2>4. QED
    BY <1>1, <2>1, <2>2, <2>3
<1>4. Fresh' /\ HeldKeys'
  BY DEF Fresh, HeldKeys
<1>5. SweepKeysIssued' /\ SweepAvoidsInFlight' /\ SnapshotCovers'
  BY DEF SweepKeysIssued, SweepAvoidsInFlight, SnapshotCovers
<1>6. LiveRowHasBlob' /\ SweepSparesLiveAndInFlight' /\ LateDeletesHitOnlyGarbage'
  BY DEF LiveRowHasBlob, SweepSparesLiveAndInFlight, LateDeletesHitOnlyGarbage
<1>7. QED
  BY <1>2, <1>3, <1>4, <1>5, <1>6

\* A crash leaves rows and objects, and nothing that could delete or commit.
LEMMA CrashStep ==
  ASSUME IInv, Crash
  PROVE  IInv'
<1> USE DEF IInv, TypeOK, Crash, Step, InFlight, InFlightKeys
<1>1. InFlight' = {} /\ InFlightKeys' = {}
  OBVIOUS
<1>2. TypeOK'
  BY ConstantsAssumption
<1>3. Fresh' /\ YoungInFlight' /\ HeldKeys'
  BY <1>1 DEF Fresh, YoungInFlight, HeldKeys
<1>4. SweepKeysIssued' /\ SweepAvoidsInFlight' /\ SnapshotCovers'
  BY DEF SweepKeysIssued, SweepAvoidsInFlight, SnapshotCovers
<1>5. LiveRowHasBlob' /\ SweepSparesLiveAndInFlight' /\ LateDeletesHitOnlyGarbage'
  BY DEF LiveRowHasBlob, SweepSparesLiveAndInFlight, LateDeletesHitOnlyGarbage
<1>6. QED
  BY <1>2, <1>3, <1>4, <1>5

-----------------------------------------------------------------------------

LEMMA InitIInv == Init => IInv
BY ConstantsAssumption
  DEF Init, IInv, TypeOK, Fresh, YoungInFlight, HeldKeys, SweepKeysIssued, SweepAvoidsInFlight,
    SnapshotCovers, LiveRowHasBlob, SweepSparesLiveAndInFlight, LateDeletesHitOnlyGarbage,
    InFlight, InFlightKeys, Step

LEMMA NextIInv ==
  ASSUME ~ReadableNames, IInv, [Next]_vars
  PROVE  IInv'
<1>1. CASE UNCHANGED vars
  BY <1>1 DEF vars, uploadVars, bulkVars, sweepVars, IInv, TypeOK, Fresh, YoungInFlight, HeldKeys,
    SweepKeysIssued, SweepAvoidsInFlight, SnapshotCovers, LiveRowHasBlob,
    SweepSparesLiveAndInFlight, LateDeletesHitOnlyGarbage, InFlight, InFlightKeys
<1>2. ASSUME NEW u \in Workers, Request(u) PROVE IInv'
  BY <1>2, BeginUploadStep, WriteBytesStep, CommitUploadStep, FailUploadStep, RejectTooLargeStep,
    RejectOverQuotaStep, UndoWriteStep, FindFileStep, DeleteBlobStep, DeleteRowStep,
    DeleteFailsStep, ReadKeysStep, DropRowsStep, BackgroundDeleteStep, BackgroundDoneStep
  DEF Request, Proceed
<1>3. CASE SweepStep
  BY <1>3, SweepCutoffStep, SweepReadRowsStep, SweepListStep, SweepDeleteStep,
    SweepDeleteFailsStep, SweepDoneStep
  DEF SweepStep
<1>4. CASE Tick
  BY <1>4, TickStep
<1>5. CASE Crash
  BY <1>5, CrashStep
<1>6. QED
  BY <1>1, <1>2, <1>3, <1>4, <1>5 DEF Next

\* The inductive invariant holds in every reachable state when keys are random.
THEOREM Invariance ==
  ASSUME ~ReadableNames
  PROVE  Spec => []IInv
<1>1. Init => IInv
  BY InitIInv
<1>2. IInv /\ [Next]_vars => IInv'
  BY NextIInv
<1>3. QED
  BY <1>1, <1>2, PTL DEF Spec

\* The sweep's promise (prune_orphaned_blobs, "race-free"): what it has decided
\* to delete belongs to no committed file and to no upload about to commit.
THEOREM SweepIsRaceFree ==
  ASSUME ~ReadableNames
  PROVE  Spec => []SweepSparesLiveAndInFlight
<1>1. IInv => SweepSparesLiveAndInFlight
  BY DEF IInv
<1>2. QED
  BY <1>1, Invariance, PTL

\* Every variable of the store, the requests and the sweep keeps its type.
THEOREM TypesHold ==
  ASSUME ~ReadableNames
  PROVE  Spec => []TypeOK
<1>1. IInv => TypeOK
  BY DEF IInv
<1>2. QED
  BY <1>1, Invariance, PTL

\* A delete that runs late, after its request answered or its row was dropped, names
\* only keys that no committed file has and no upload is about to commit.
THEOREM LateDeletesAreOfGarbage ==
  ASSUME ~ReadableNames
  PROVE  Spec => []LateDeletesHitOnlyGarbage
<1>1. IInv => LateDeletesHitOnlyGarbage
  BY DEF IInv
<1>2. QED
  BY <1>1, Invariance, PTL

\* No background delete, undone upload or sweep takes a committed file's object.
THEOREM CommittedFilesKeepTheirObjects ==
  ASSUME ~ReadableNames
  PROVE  Spec => [](TypeOK /\ LiveRowHasBlob /\ LateDeletesHitOnlyGarbage)
<1>1. IInv => TypeOK /\ LiveRowHasBlob /\ LateDeletesHitOnlyGarbage
  BY DEF IInv
<1>2. QED
  BY <1>1, Invariance, PTL
=============================================================================
