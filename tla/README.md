# easyshare in TLA+

easyshare is a self-hosted file-sharing service: a FastAPI backend over SQLite
or PostgreSQL with local or S3 storage, and a Vue single-page client. Owners
put files into packages, in one request or through resumable uploads, and share
a package by a link that is public or restricted to a list of addresses;
recipients view and download it, file by file or as an archive.

These modules model the parts of it where several requests, background tasks,
two stores, a browser and its network, or a crash meet. TLC checks each on a small
instance; TLAPS proves every invariant and action property of the passing runs for
every value of the constants, and that the client and the upload server implement
their abstract specifications. Only liveness is left to TLC.

## Inventory

Paths are relative to `src/backend/app` and `src/frontend/src`.

| Component | State | Operations | What is hard, and what makes it correct |
|---|---|---|---|
| Stored files (`services/files.py`, `services/storage.py`, file routes of `api/routes/packages.py`, `admin.py`) | `package_files` rows; stored objects with their modification times | upload, delete one, delete all, delete package or account, background deletes, orphan sweep | No transaction spans the two stores; objects are deleted after the response, or by a periodic sweep. A committed file must keep its object, and an object without a row must go. |
| Resumable uploads, server (`routes/uploads.py`, `services/chunked.py`) | session rows with an offset; scratch files | open, status, chunk, finalise, abort, prune | Row and scratch file are written in turn; requests are retried; the prune runs beside them. The file must be the client's bytes, once; nothing may be left over. |
| Quotas (`services/quota.py`) | file sizes; a cached total | check before and after the bytes are written | Concurrent uploads each see what is committed; a cache is stale for 10 s. |
| Hot-path buffers (`services/counters.py`, `core/audit.py`, `core/tasks.py`, `main.py`) | in-memory deltas; their rows | hit, drain, commit or re-buffer, final flush, statistics | Threads overlap at shutdown, commits fail, rows are deleted. Hits must be conserved. |
| Shares and recipients (`routes/shares.py`, `routes/public.py`) | the share's row, its allow-list, one-time codes, tokens | enable, update, disable; ask for a code, submit it | Each request reads, decides, then commits a few columns. Codes must be single-use, capped and for one link and address; a restricted link must name somebody. |
| Archive downloads (`services/archive.py`) | a semaphore's slots; one generator per stream | request, stream, end | Streams outlive their request and its database session; slots must come back and only whole archives count; member names must be distinct. |
| Accounts and administration (`routes/auth.py`, `routes/admin.py`, `api/deps.py`) | the users' rows: flags, failed logins, lock | register, log in, update or delete an account | Check-then-act on the first user and on the last administrator; the failed-login counter is read, incremented and written around a slow password check. |
| Resumable uploads, client (`lib/chunkedUpload.ts`, `composables/useResumableUploads.ts`, the upload calls of `api/client.ts`) | the attempt's state; upload ids in local storage; the list of interrupted uploads | open or resume, send a chunk, adopt the server's offset, list, discard | Lost, late and reordered requests, aborts and reloads. "Done" must mean stored; an interrupted file must go on where it was. |
| Upload batches, client (`composables/useUploads.ts`) | rows, files, controllers and cancelled indices, in parallel; a pool of workers | start, cancel, retry, dismiss, clear, reload | Callbacks after awaits, parallel lists rebuilt in four places, a cursor shared by workers. |
| Signed-in state, dialogs, toasts, archive download (client stores and composables) | reactive state | | Requests answered out of order. |
| Package metadata, listing, tokens and passwords, email, S3, HTTP shell, configuration | | single statements, pure functions or I/O | |

They interact through the database (an upload session becomes a file row; a
package's deletion cascades to files, sessions, share, codes), through storage
keys (written by uploads, deleted by file routes and the sweep), through the
in-memory buffers (archives and public views add to them, the statistics read
them) and through callbacks (`on_complete` of an archive, background tasks after
a response). `PROJECT.json` lists every hazard with its line.

## Modules

| Module | Models | Extended by |
|---|---|---|
| `BlobStore` | stored files and the orphan sweep | `MCBlobStore`, `BlobStoreProofs` |
| `UploadSessions` | what the server keeps of its upload sessions: the abstract specification | instantiated by `ChunkedUpload` |
| `ChunkedUpload` | resumable uploads on the server | `ChunkedUploadProofs` |
| `Quota` | the two quota checks and the cache | `MCQuota`, `QuotaProofs` |
| `HotBuffers` | counters and audit events in memory | `HotBuffersProofs` |
| `Shares` | a package's link, its codes and tokens, downloads with them | `MCShares`, `SharesProofs` |
| `ArchiveDownloads` | archive slots, streams, names, counts | `MCArchiveDownloads`, `ArchiveDownloadsProofs` |
| `Accounts` | registration, login and lockout, administration | `MCAccounts`, `AccountsProofs` |
| `UploadPromise` | what an upload promises its user: the abstract specification | instantiated by `UploadClient` |
| `UploadClient` | one browser's uploads, its network, the server's sessions | `UploadBatch` |
| `UploadBatch` | the batch of rows and workers, composed with `UploadClient` | `MCUploadBatch`, `UploadBatchProofs` (of both) |

Conventions: a request that commits, or touches a second store, more than once is
one action per such step, with a per-thread `pc` (or `edit`, `job`) for what it
has read; whatever else a handler changes in the same step is in the same
action. A definition whose comment begins with "Slip:" is a deviation from the
code that is used nowhere: put in place of the definition that follows it, it breaks
a property named in `PROJECT.json`, which shows that the property depends on
that piece of code. Variables marked "history" record what happened for the
properties and guard nothing.

**BlobStore.** `rows` and `blobs` are the two stores. `BeginUpload`,
`WriteBytes` and `CommitUpload` are `store_package_file` and its caller (the row
is flushed for its id, the bytes are written, the row is committed), with
`FailUpload`, `RejectTooLarge`, `RejectOverQuota` and `UndoWrite` for the error
paths. `FindFile`, `DeleteBlob`, `DeleteRow` are `delete_file`, which deletes the
object *before* the row; `ReadKeys`, `DropRows`, `BackgroundDelete` are the bulk
deletes, which do it after. `SweepCutoff`, `SweepReadRows`, `SweepList`,
`SweepDelete` are `prune_orphaned_blobs` in its order. Time is the age of each
object, saturated just beyond the retention. A crash ends every request and
sweep; what is committed or on disk stays. `WholeObjects` is the S3 backend, whose
objects appear with their last byte and are refused, if they are too large, before any
is written; every step it can take is one of the local backend's, so the runs set
it to FALSE, and the theorems are about both.

**ChunkedUpload.** Per session a row, an offset and a scratch file's content,
kept as the positions of its bytes so that a lost or repeated piece shows.
`StatScratch` and `AppendChunk` are `append_chunk`'s size check and write;
`AppendFails` leaves a piece of the chunk. `CreateScratch` and `CreateRow`
(or `CreateRowFails`) are `create_upload`. `CopyScratch`, `UnlinkScratch`,
`CommitFile` are `_finalize`. `PruneSelect`, `PruneDiscard`, `PruneCommit` are
one pass of the prune. The code neither locks nor versions a session, so requests on
one session overlap in any way, with each other and with the prune. `overlapped`
(history) holds the sessions two of them changed at once: a session enters it when a
request that will change it, or the prune, begins work on it while another is at it
(`AtWork`; a status query that only reads does not count until it reconciles).

**Quota.** An upload passes `CheckUser`, `CheckTotal` (`remaining_upload_cap`),
`StoreFile`, `RecheckUser`, `RecheckTotal` (`enforce_quota_after_write`) and
`Commit`. The first check takes the cached total, and renews it if there is none,
whichever limit refuses. Sessions are made with `autoflush=False`, so the second check counts the
new row at its flushed size 0: `OwnFlushedSize`. A sum of sizes is the number of
the files' units (`Units`, `Sizes`). `SingleWriter` chooses between
SQLite's single open write transaction and PostgreSQL's lock on the owner's row.

**HotBuffers.** One model for both buffers: `Items` are counters and kinds of
event. `Drain` swaps the buffer out, `Commit`, `CommitFails` and `AckLost` end
the transaction, `Rebuffer` puts the batch back. The loop's flush runs on in its
thread when the loop is cancelled, so it may overlap the final flush. `AckLost` is a
commit that was made and is reported as failed, so that its batch is buffered again.
`ReadStored`
and `ReadPending` are the two reads of the owner's statistics.

**Shares.** The owner's requests read (`ReadForEnable`, `ReadForUpdate`,
`ReadForDisable`) and commit later; `CommitUpdate` writes only the columns that
the request changed and fails where a constraint or a missing row would make it.
`live` stands for "enabled and not past its expiry". A recipient's
`ReadForCode`/`IssueCode` is `access_share`; `SubmitCode` reads the code's row and
decides, and `DiscardCode`, `ConsumeCode` or `CountMiss` commits. The model is of
PostgreSQL: foreign keys are enforced and ids are not reused. A recipient's download
(`fetch`) reads the share's row (`AskForFile`), then the allow-list's
(`MayFetch`: `ServeFile` or `RefuseFile`), and streams with no further check until
`EndOfFile`: the link may be narrowed, disabled or replaced between any two of these.

**ArchiveDownloads.** `Request` takes a slot and a snapshot; `Start`,
`OpenMember`, `CloseMember` are the generator; `Fail`, `Disconnect`, `Complete`
its three ends, each of which releases the slot; `Count` is `on_complete`.
`NeverStarts` drops the response before its first chunk. A name is a stem and the
numbers "(n)" it ends in. The zip format is the library's.

**Accounts.** A request occupies one of the `Slots` from what it reads to its
commit. `RegisterRead` counts the users and `RegisterCommit` inserts the row, an
administrator if there were none. `LoginLoad` reads counter and lock before the
password is verified; `LoginFails` and `LoginSucceeds` write the columns that
differ from what was read; `misses` (history) counts a user's wrong guesses since the
last login or the end of the last lock. `Authorise`, `UpdateLoad` and `UpdateCommit`,
`DeleteLoad` and `DeleteCommit` are the administrators' requests with the checks
`update_user` and `delete_user` make. `crossed` (history) holds the users, and the
kinds of request, of which two were under way at once.

**UploadSessions** knows of a session whether it is open, how many bytes there are of
it and how many files were made of it: it opens once (`Open`), grows (`Grow`), loses
all of its bytes (`Lose`), and ends with a file made of all of them (`Make`), without
one (`End`), or with its package (`Drop`).

**UploadPromise** has no sessions, chunks or requests: an attempt is begun
(`Try`), may store one copy at any later time (`Deliver`), is reported as done only
after that (`Tell`), or is given up (`GiveUp`), after which its copy may still come.

**UploadClient.** `Begin` is the start of `uploadFileChunked` or of the single
request; each `Take...` runs from the answer an attempt awaits to the next request
it sends, with everything it writes to local storage between. `wire` is the set of
requests not yet handled: it has no order, and a request stays in it when the
attempt that sent it is aborted, reloaded away or told of a broken connection
(`Break`). `HandleOpen`, `HandlePatch` and the others are the server's handlers in one step
each, since how their parts interleave is `ChunkedUpload`'s subject; `Refuse`,
`Vanish` and `FailPatch` are requests that fail before, on the way to, or inside
the handler. `Visit`, `Discard` and `Unlist` are the list of interrupted uploads.

**UploadBatch.** `rows`, `files`, `controllers` and `canceled` are the parallel
lists of `useUploads`. `Pull`, `Settle` and `Finish` are what a settled promise sets
off (a worker's next file, the end of `uploadOne`, the end of the batch); a browser
runs them before any other event, which `MicrotaskDue` expresses. The user's
operations and the network's events are the other steps.

## Runs

| Run | Asks | Bounds |
|---|---|---|
| `blob_store` | Does any interleaving of uploads, deletes, background deletes, sweep and crash part a committed file from its object, and is every orphan reclaimed? No; yes. | 2 keys of different packages, 2 threads, 1 crash, retention 1: enough for an upload beside a delete and a sweep in any of its steps |
| `blob_store_readable` | The same with readable names on SQLite. **Violated**: the id, and so the key, of a deleted newest file is issued again while the background delete of its object is pending. | no crash |
| `chunked_upload` | Are files exact and made once, is every scratch file within the prune's reach, and is `UploadSessions` implemented, unless two requests, or a request and the prune, changed the session at once? Is every abandoned session removed, overlaps or not? Yes, with crashes and failed writes. | 1 session, 2 threads, 2 units of data (so: in order, repeated, skipped, empty), 1 crash, 1 failure; foreign keys not enforced (SQLite's default). Sessions share only the package and the prune, which a theorem covers for any number of them |
| `chunked_upload_overlap` | Is every file exact, as `append_chunk` says? **Violated**: a retry that overtakes its first attempt appends the chunk twice. | 1 session, 2 threads |
| `hot_buffers` | Are hits conserved and counted once, and statistics never too high, unless an acknowledgement was lost? Is an orderly exit lossless, and every hit settled? Yes. | 1 counter, 1 event, 2 hits each, 1 failure, 1 lost acknowledgement, 1 restart |
| `quota` | What do the checks guarantee with row locks? Uploads that do not overlap keep both quotas unless a cached total misled them; overlapping ones overrun the user's by one file. | 3 uploads of one user that do not fit together, 1 of another |
| `quota_overrun` | Is a user's quota never exceeded? **Violated**: two uploads pass the first check together, and the second sees the own file with size 0. | single writer |
| `shares` | Are tokens only for the link and address of their code, are files of a restricted link sent only to addresses that traded one of its codes, are codes single-use, capped and superseded, and does a restricted link keep an address? Yes, while requests for one address, and updates of the link, do not overlap. | 1 address, 2 recipients, 2 tabs, any 2 of their requests at once, 2 links, 2 codes, 1 try |
| `accounts` | Does an administrator remain, is there one founder, are wrong guesses counted until they lock the account, and locks held? Yes, while the administrators' requests, the registrations, or the logins of one user do not overlap. | 3 users, 2 requests at once, 8 in all, lockout at 2, updates that take or give one flag |
| `upload_batch` | Do rows, files and controllers agree, is every attempt shown, does a file start over only when the whole of it was stored, is `UploadPromise` implemented, and does every batch end? Yes. | 4 files (of two chunks, of one twice, beyond the maximal size), 2 selections, 2 attempts a file and 4 in all, 2 workers, 1 fault or page visit |
| `archive` | Are slots accounted for, names distinct, only whole archives counted, and do slots come back? Yes, but for responses dropped before they began. | 3 downloads, 2 slots, 3 files (two of one name and one uploaded as "name (1)"), 1 deletion |
| `archive_slots` | Does every slot come back, as `_stream_with_release` says? **Violated**: a generator that never ran has no `finally` clause to run. | 2 downloads, 1 slot |

Where a property is false of the code in a corner that nothing in the code
excludes, the passing run states the corner as a condition (`raced`, `crowded`,
`misled`, `mixed`, `skewed`, `crossed`, `overlapped`, `lostAcks`, `Dropped`, `faults`,
`visits`), so that what is guaranteed around it is still checked, and a violated run
or a hazard's note says what happens in it: two overlapping updates can leave a
restricted link with nobody on its list; two overlapping submissions of one code
can both be granted a token for its address; overlapping wrong guesses, of a code
or of a password, are counted once; two administrators who demote each other at
once can leave none, and two first registrations at once make two; two files
"a.txt" and one uploaded as "a (1).txt" make an archive with two members of one
name; an attempt that is aborted, reloaded away or loses its connection with the last
chunk under way does not stop the server, and the next attempt, told that the session is
gone, sends the whole file again and stores a second copy, which `UploadPromise`
and `InterruptedUploadsResume` allow; two requests that finalise one session at once
may both make a file of it; a commit of buffered hits that was made and is
reported as failed (the connection breaks before the acknowledgement) has its hits put
back and counted a second time, although the comments of `CounterBuffer.flush`
(`services/counters.py:95`) and `AuditBuffer.flush` (`core/audit.py:176`) say that a failure
never partially applies, "so re-buffering cannot double-count". Where foreign keys are enforced
(`ForeignKeys`), deleting a package removes the rows of its open sessions and
nothing finds their scratch files any more, which is why `ScratchStaysReachable`
and the run `chunked_upload` are about databases that do not enforce them; and a
`create_upload` cut short between the scratch file and its row leaves a file that
nothing finds either (`strays`).

The bounds are the smallest at which each of a module's actions happens and any two
of its actors can be between two steps of theirs at once. `MCShares` and
`MCAccounts` treat threads of a kind (and users, whom nothing tells apart) as
interchangeable: no action or property names one, and these runs have no liveness
property.

`CHECK_DEADLOCK FALSE` is set where a system may rest: all downloads made once, no
code and no link left to make, no request or attempt left within the bounds.

## Fairness

Only what the code's own scheduling provides is assumed: a request that has
started ends, the periodic loops (`orphan_blob_prune_loop`,
`upload_session_prune_loop`, `hot_buffer_flush_loop`) come round again, time
passes, a crashed process is started again, and an operation that may fail does
not fail for ever (the models bound failures). No client is assumed to send or
retry anything. `archive` assumes that a stream that was started is driven on or
its client leaves: a client that does neither keeps its slot, for the code has no
timeout on a stream. `upload_batch` assumes that the browser runs its microtasks
and takes an answer that has arrived, and that a request under way is handled or
fails; the user is assumed to do nothing.

## Refinement

`UploadClient` defines `Promise`, an instance of `UploadPromise` whose `open[f]` is
"an attempt's phase is not idle" and whose other variables are the client's own.
`UploadBatch` states `PromiseKept == Promise!PromiseSafety`. TLC checks it in
`upload_batch`, and `ClientKeepsPromise` and `BatchKeepsPromise` prove it for any files,
chunk counts, workers and bounds. The progress half of the abstract specification
(no attempt stays under way for ever) follows from what `EveryBatchSettles` asks and
is left to TLC.

`ChunkedUpload` defines `Contract`, an instance of `UploadSessions` whose `state` is the
session's row, whose `made` counts its package files, and whose `length` is what the
server has of it while the row is open: the scratch file's size or, from the unlink
to the commit, the size of the copy (`Held`). `ContractKept` is checked in
`chunked_upload` and proved as `ServerKeepsContract`. The scratch file and the row's
offset may disagree, a chunk may be cut short, and the scratch file goes before
the row and before the file is recorded; in the contract none of this shows: a
partial chunk is a smaller `Grow`, a scratch file dropped too early is a `Lose`
that a later `End` completes, and the unlink after the copy is no step at all.

## Proofs

All theorems are about `Spec`, without fairness, and each proof follows the same
argument: a strengthened invariant `IInv` holds initially and is preserved by
each action (one lemma per action or group of like actions), and implies the
property.

- `BlobStoreProofs`: with random storage names (`~ReadableNames`),
  `Invariance`, `SweepIsRaceFree` and `CommittedFilesKeepTheirObjects`.
  The properties are not inductive: that a committed row's object is not in the
  sweep's hands needs `Fresh` (a key is used by one row or one upload at a time,
  and only issued keys are used), `HeldKeys` (pending deletes hold keys of the
  past), `YoungInFlight` (an upload's object is younger than the retention) and
  `SnapshotCovers` (a row whose object is old is in the sweep's snapshot). The
  assumption `CommitsBeforeRetention` is the one the code's documentation makes.
- `HotBuffersProofs`: `HitsAreConserved`, `StatsAreSound` and, for the action
  property, `ShutdownIsLossless`. The first two speak of exact counts as long as no
  acknowledgement was lost; the invariant keeps the ledger with what was counted twice in it
  (`Ledger`) and shows that only a lost acknowledgement counts anything twice
  (`OnlyAcksMakeDoubles`). `HeldWhileWriting` ties a flush's batch to its
  step, `ReaderBound` says that what the statistics have read is still in the
  database or was deleted with its row, so that it cannot be counted again as
  pending, and `FinalFlushDrains` that a buffer the final flush has drained
  stays empty unless a flush fails.
- `ChunkedUploadProofs`: `FilesAreTheClients`,
  `SessionsMakeOneFile` and, assuming `~ForeignKeys`, `ScratchStaysReachable`.
  The invariant says that a scratch file is a prefix of the upload
  (`ScratchIsAPrefix`; an append at the checked offset makes it a longer one,
  `PrefixGrows`), what each request relies on at each step (`Stage`), that one
  request at most is at a session (`OneRequest`), and that what the prune holds is
  held by no request (`PruneHolds`). `WorkerStep` does once what the lemmas
  about requests share: a step at one session leaves the others as they were.
  `ServerKeepsContract` needs besides (`Aligned`) that nothing is on disk for a
  session whose row is still to come, that what is unlinked is the whole file, and
  that requests are at open sessions while the package lives. A session in `overlapped`
  is void in the contract from then on (`Void`). `LengthIs` gives the
  contract's length in terms of the row, the scratch file and who holds a copy; each
  step is then one lemma `KeptBy...`, which names the contract's step.
- `QuotaProofs`: `SerialUploadsStayWithin` and `OverrunIsOneFile`. The second rests on
  the lock: at most one upload holds an owner's row (`OneHolder`), so what the sum
  under the lock has shown to fit (`LockedFits`) fits until the commit, which adds one
  file. The first needs that a user whose uploads never overlapped has one under
  way and that what its first check found still fits (`SerialUser`), and the
  same for the total as long as no cached value misled anybody (`SerialTotal`). Sums
  are sizes of sets of units, so `SizesAdd` and `SizesRemove` follow from the
  library's facts about cardinality and no induction is needed.
- `ArchiveDownloadsProofs`: `SlotsAreBalanced` (types and the slot count
  together are inductive; the lemmas are about the size of the set of holders),
  `CountsAreOfWholes` (a whole archive stays whole, and `Count` adds it to each
  of its files once), and `ArchivesAreUnambiguous`, which needs no history: a later
  file of the same name has seen more of them, and a suffix is never empty.
- `SharesProofs`: `RestrictedLinksKeepAnEmail`, `NoAccessUnearned`,
  `CodesKeepTheirBudget`, `OnlyLastCodesGrant`. The invariant has a part for the owner
  (what each tab has read still holds while no two updates overlap), one for the
  recipients (what each request has read of a code, against what was issued,
  granted and missed since) and one for downloads (`Downloading`: a request that
  asks for a file or streams it holds a token, and tokens are never taken back).
- `AccountsProofs`: `AdministratorRemains`, `FounderIsUnique`, `GuessesAreCounted` and
  the action property `LocksAreHeld`. `OneManager`, `OneRegistration` and `OneLogin` say
  what a request has read is still so when no other of its kind was under way;
  `NoStaleLocks` that a user without an account holds no lock.
- `UploadBatchProofs`, about the client: `ClientTypes` and `ClientKeepsPromise`.
  `RequestsAreSpare` says that a request which may store a file is the only such
  one of its attempt, which has stored none; `AttemptsKnow` what an attempt that
  awaits an answer, or was told of completion, knows of itself; `SessionsAreNamed`
  and `DeliveredAttempts` that sessions and copies are those of attempts that were
  made. `UploadsResume` proves `InterruptedUploadsResume`: while nothing fails and the
  list is not consulted, only the session that the file's key in local storage names
  has bytes (`BytesInOneSession`), because the key is cleared only when its session is
  gone (`KeyIsCurrent`), a session is unknown to every request until its answer is
  taken (`SessionsStartUnheard`), and chunks go to the session the key names; and
  only the append of a chunk touches those bytes (`BytesStay`): it adds to them, or makes a
  package file of them.
- `UploadBatchProofs`, about the batch: `RowsAlwaysMatch`, `AttemptsAreShown`,
  `BatchTypes`, and, as each step of the batch is a step of the client or leaves it
  alone, `BatchKeepsPromise`.

The hypotheses of the theorems on the constants are those of the runs: `~ReadableNames`
and `CommitsBeforeRetention` for `BlobStoreProofs`, and `~ForeignKeys` for
`ScratchStaysReachable`; `blob_store_readable` shows what happens without the first.
The conditions on the history named under "Runs" are in the properties themselves: what
`overlapped` excludes from `FilesAreTheClients`, `SessionsMakeOneFile` and
`ServerKeepsContract`, `lostAcks` from `HitsAreConserved` and `StatsAreSound`, and `crossed`
from `GuessesAreCounted` does happen in the code: `chunked_upload_overlap` shows the first,
and without their conditions the others are false of the code too.

Model-checked only, because fairness and `ENABLED` are out of the prover's reach:
`OrphansAreReclaimed`, `AbandonedSessionsEnd`, `EveryHitIsSettled`,
`EveryBatchSettles` and `OthersComeBack`.

## Not modelled

Of S3, presigned URLs and the client library. Readable names' directories, the zip
format, SMTP, rate limits, logging, headers and
password hashing are I/O or library functions without state of their own. Package
metadata and listing are single statements. A quota that an administrator
changes during an upload, and the reuse of row ids beyond `blob_store_readable`,
are left out; so are the client's progress figures, its signed-in state, dialogs
and toasts. Of accounts, renaming, password values and the read-only endpoints
are left out. One hazard has no property: sessions opened side by side may end in more
files than `max_files_per_package`, which finalising does not check again.

## Plan

What is left, in order of what matters most:

1. An abstract specification of stored files, with atomic add and remove, that
   `BlobStore` implements, and one of counters that `HotBuffers` implements.
2. What `ChunkedUpload` still guarantees of a session whose requests overlapped: that it
   ends, and what its files can be.
3. The composition of `ChunkedUpload` with `Quota`, and a quota changed while
   uploads run.
4. The client's handling of an expired session against its initialisation
   (`stores/auth.ts`, `api/client.ts`).
