--------------------------- MODULE ChunkedUpload ---------------------------
(***************************************************************************)
(* Resumable uploads of one package: session rows in the database, scratch *)
(* files on the server's disk, and the package files they become. Requests *)
(* run on threads; each database commit, stat, append and unlink is a step *)
(* of its own, and a background prune removes idle sessions.               *)
(*                                                                         *)
(* A file's content is the sequence of its byte positions, in units of the *)
(* smallest chunk, so that a lost, repeated or misplaced piece shows.      *)
(***************************************************************************)
EXTENDS Naturals, Sequences, FiniteSets, FiniteSetsExt

CONSTANTS
  Sessions,    \* upload sessions (tokens are random: never opened twice)
  Workers,     \* request threads
  Total,       \* declared size of every upload, in units
  MaxFiles,    \* max_files_per_package
  ForeignKeys, \* the database enforces ON DELETE CASCADE (not SQLite's default)
  MaxCrashes,  \* bounds for TLC: crashes, and failed writes
  MaxFailures

ASSUME ConstantsAssumption ==
  /\ "none" \notin Sessions
  /\ Total \in Nat /\ MaxFiles \in Nat
  /\ ForeignKeys \in BOOLEAN
  /\ MaxCrashes \in Nat /\ MaxFailures \in Nat

VARIABLES
  package,    \* whether the package still exists
  row,        \* per session: its row is "none", "open" or "gone"
  received,   \* per session: the row's offset
  old,        \* open sessions not updated for longer than the TTL
  onDisk,     \* sessions whose scratch file exists
  scratch,    \* per session: the scratch file's content
  files,      \* per session: contents of the package files made of it
  pc, req,    \* per worker: its step, and its request
  pruning,    \* whether a prune runs,
  toDiscard,  \* ... the sessions it selected and whose scratch it has yet to drop
  toDelete,   \* ... and those whose rows its commit will delete
  strays,     \* sessions whose create_upload ended before their row was committed, and
  overlapped, \* ... sessions two requests, or one and the prune, changed at once (history)
  crashes, failures

rowVars   == <<row, received, old>>
diskVars  == <<onDisk, scratch>>
pruneVars == <<pruning, toDiscard, toDelete>>
boundVars == <<strays, overlapped, crashes, failures>>
vars == <<package, rowVars, diskVars, files, pc, req, pruneVars, boundVars>>

-----------------------------------------------------------------------------

File == [i \in 1 .. Total |-> i]
Piece(offset, n) == SubSeq(File, offset + 1, offset + n)

\* s: session; offset, n: the chunk; current: a size read; content: bytes copied
NoRequest == [s |-> "none", offset |-> 0, n |-> 0, current |-> 0, content |-> <<>>]

FileCount == MapThenSumSet(LAMBDA s : Len(files[s]), Sessions)

\* A missing scratch file has size 0; its content is kept as the empty sequence.
ScratchSize(s) == Len(scratch[s])

Extend(s, data) ==
  /\ onDisk' = onDisk \union {s}
  /\ scratch' = [scratch EXCEPT ![s] = @ \o data]

Discard(s) ==
  /\ onDisk' = onDisk \ {s}
  /\ scratch' = [scratch EXCEPT ![s] = <<>>]

\* Any ORM update of the row refreshes updated_at.
Update(s, offset) ==
  /\ received' = [received EXCEPT ![s] = offset]
  /\ old' = old \ {s}

\* Slip: a removed session keeps a row in a status of its own.
ArchiveRows(S) ==
  /\ row' = [s \in Sessions |-> IF s \in S THEN "archived" ELSE row[s]]
  /\ received' = [s \in Sessions |-> IF s \in S THEN 0 ELSE received[s]]
  /\ old' = old \ S

CloseRows(S) ==
  /\ row' = [s \in Sessions |-> IF s \in S THEN "gone" ELSE row[s]]
  /\ received' = [s \in Sessions |-> IF s \in S THEN 0 ELSE received[s]]
  /\ old' = old \ S

Goto(w, step) == pc' = [pc EXCEPT ![w] = step]
Respond(w) == Goto(w, "idle") /\ req' = [req EXCEPT ![w] = NoRequest]

\* A request that may change the session, or its prune, is under way.
AtWork(s) ==
  \/ \E w \in Workers : req[w].s = s /\ pc[w] \notin {"measure", "reconcile"}
  \/ s \in toDelete

\* History only: work begins on sessions, some of which are worked on already.
Begin(S) ==
  /\ overlapped' = overlapped \union {s \in S : AtWork(s)}
  /\ UNCHANGED <<strays, crashes, failures>>

\* The worker takes up a request on an open session of the live package.
Accept(w, s) ==
  /\ pc[w] = "idle"
  /\ package
  /\ row[s] = "open"

-----------------------------------------------------------------------------
(* create_upload *)

\* The file-count and quota checks pass; the scratch file is created ...
CreateScratch(w) ==
  /\ pc[w] = "idle"
  /\ package
  /\ FileCount < MaxFiles
  /\ \E s \in Sessions :
       /\ row[s] = "none"
       /\ s \notin onDisk
       /\ Extend(s, <<>>)
       /\ req' = [req EXCEPT ![w].s = s]
  /\ Goto(w, "create")
  /\ UNCHANGED <<package, rowVars, files, pruneVars, boundVars>>

\* ... before the row that names it is committed (a foreign key needs the package).
CreateRow(w) ==
  /\ pc[w] = "create"
  /\ package \/ ~ForeignKeys
  /\ row' = [row EXCEPT ![req[w].s] = "open"]
  /\ Respond(w)
  /\ UNCHANGED <<package, received, old, diskVars, files, pruneVars, boundVars>>

\* The commit fails, as it does when the package has gone: a 500 and a rollback.
CreateRowFails(w) ==
  /\ pc[w] = "create"
  /\ \/ ForeignKeys /\ ~package /\ UNCHANGED failures
     \/ failures < MaxFailures /\ failures' = failures + 1
  /\ strays' = strays \union {req[w].s}
  /\ Respond(w)
  /\ UNCHANGED <<package, rowVars, diskVars, files, pruneVars, overlapped, crashes>>

-----------------------------------------------------------------------------
(* get_upload, and the reconciliation it shares with upload_chunk *)

ReadSession(w) ==
  /\ \E s \in Sessions :
       /\ Accept(w, s)
       /\ req' = [req EXCEPT ![w].s = s, ![w].offset = received[s]]
  /\ Goto(w, "measure")
  /\ UNCHANGED <<package, rowVars, diskVars, files, pruneVars, boundVars>>

\* The scratch file's size is taken, and differs from the offset read: report it.
MeasureScratch(w) ==
  /\ pc[w] = "measure"
  /\ IF ScratchSize(req[w].s) = req[w].offset
     THEN Respond(w)
     ELSE /\ req' = [req EXCEPT ![w].current = ScratchSize(req[w].s)]
          /\ Goto(w, "reconcile")
  /\ UNCHANGED <<package, rowVars, diskVars, files, pruneVars, boundVars>>

\* Slip: the scratch file is cut back to the row's offset.
ReconcileByTruncating(w) ==
  /\ pc[w] = "reconcile"
  /\ scratch' = [scratch EXCEPT ![req[w].s] = SubSeq(@, 1, Min({Len(@), req[w].offset}))]
  /\ Respond(w)
  /\ UNCHANGED <<package, rowVars, onDisk, files, pruneVars, boundVars>>

\* Updating a row that is gone is an error (StaleDataError, a 500).
Reconcile(w) ==
  /\ pc[w] = "reconcile"
  /\ IF row[req[w].s] = "open"
     THEN Update(req[w].s, req[w].current)
     ELSE UNCHANGED <<received, old>>
  /\ Respond(w)
  /\ UNCHANGED <<package, row, diskVars, files, pruneVars, boundVars>>

-----------------------------------------------------------------------------
(* upload_chunk *)

\* A chunk at any other offset, or past the declared size, is turned away here
\* with nothing changed. n = 0 is the empty chunk a client sends at the end.
StartChunk(w) ==
  /\ \E s \in Sessions, n \in 0 .. Total :
       /\ Accept(w, s)
       /\ received[s] + n <= Total
       /\ req' = [req EXCEPT ![w].s = s, ![w].offset = received[s], ![w].n = n]
       /\ Begin({s})
  /\ Goto(w, "stat")
  /\ UNCHANGED <<package, rowVars, diskVars, files, pruneVars>>

\* Slip: the chunk is appended wherever the scratch file ends.
StatScratchUnchecked(w) ==
  /\ pc[w] = "stat"
  /\ req' = [req EXCEPT ![w].current = ScratchSize(req[w].s)]
  /\ Goto(w, "append")
  /\ UNCHANGED <<package, rowVars, diskVars, files, pruneVars, boundVars>>

\* append_chunk compares the offset with the scratch file's size ...
StatScratch(w) ==
  /\ pc[w] = "stat"
  /\ req' = [req EXCEPT ![w].current = ScratchSize(req[w].s)]
  /\ Goto(w, IF ScratchSize(req[w].s) = req[w].offset THEN "append" ELSE "measure")
  /\ UNCHANGED <<package, rowVars, diskVars, files, pruneVars, boundVars>>

\* ... then opens the file for appending, which creates it if need be, and writes.
AppendChunk(w) ==
  /\ pc[w] = "append"
  /\ Extend(req[w].s, Piece(req[w].offset, req[w].n))
  /\ Goto(w, "commit")
  /\ UNCHANGED <<package, rowVars, files, req, pruneVars, boundVars>>

\* The write fails part-way (a full disk): a 500, a piece of the chunk stays.
AppendFails(w) ==
  /\ pc[w] = "append"
  /\ failures < MaxFailures
  /\ failures' = failures + 1
  /\ \E m \in 0 .. req[w].n - 1 : Extend(req[w].s, Piece(req[w].offset, m))
  /\ Respond(w)
  /\ UNCHANGED <<package, rowVars, files, pruneVars, strays, overlapped, crashes>>

\* The new offset is committed (an unchanged one needs no update), the row is read
\* back, and a complete upload goes on to be finalised.
CommitOffset(w) ==
  LET s == req[w].s
      size == req[w].current + req[w].n
  IN /\ pc[w] = "commit"
     /\ IF row[s] = "open" /\ req[w].n > 0 THEN Update(s, size) ELSE UNCHANGED <<received, old>>
     /\ IF row[s] = "open" /\ size >= Total
        THEN Goto(w, "finalize") /\ UNCHANGED req
        ELSE Respond(w)
     /\ UNCHANGED <<package, row, diskVars, files, pruneVars, boundVars>>

-----------------------------------------------------------------------------
(* _finalize *)

\* No quota is left for it, or the client aborts (abort_upload): the scratch file
\* goes first, the row is deleted next.
FinalizeOverCap(w) ==
  /\ pc[w] = "finalize"
  /\ package
  /\ Discard(req[w].s)
  /\ Goto(w, "drop")
  /\ UNCHANGED <<package, rowVars, files, req, pruneVars, boundVars>>

Abort(w) ==
  /\ \E s \in Sessions :
       /\ Accept(w, s)
       /\ Discard(s)
       /\ req' = [req EXCEPT ![w].s = s]
       /\ Begin({s})
  /\ Goto(w, "drop")
  /\ UNCHANGED <<package, rowVars, files, pruneVars>>

DropRow(w) ==
  /\ pc[w] = "drop"
  /\ CloseRows({req[w].s})
  /\ Respond(w)
  /\ UNCHANGED <<package, diskVars, files, pruneVars, boundVars>>

\* The file row is flushed and the scratch file is streamed into storage.
CopyScratch(w) ==
  /\ pc[w] = "finalize"
  /\ package
  /\ req[w].s \in onDisk
  /\ req' = [req EXCEPT ![w].content = scratch[req[w].s]]
  /\ Goto(w, "unlink")
  /\ UNCHANGED <<package, rowVars, diskVars, files, pruneVars, boundVars>>

\* The scratch file or the package is gone: a 500 and a rollback.
CopyMissing(w) ==
  /\ pc[w] = "finalize"
  /\ ~package \/ req[w].s \notin onDisk
  /\ Respond(w)
  /\ UNCHANGED <<package, rowVars, diskVars, files, pruneVars, boundVars>>

\* The scratch file is removed whether the copy succeeded ...
UnlinkScratch(w) ==
  /\ pc[w] = "unlink"
  /\ Discard(req[w].s)
  /\ Goto(w, "record")
  /\ UNCHANGED <<package, rowVars, files, req, pruneVars, boundVars>>

\* ... or failed, with the row and its offset left as they were.
StoreFails(w) ==
  /\ pc[w] = "unlink"
  /\ failures < MaxFailures
  /\ failures' = failures + 1
  /\ Discard(req[w].s)
  /\ Respond(w)
  /\ UNCHANGED <<package, rowVars, files, pruneVars, strays, overlapped, crashes>>

\* FileTooLargeError, or the quota re-check fails: rolled back, the session goes.
RejectStored(w) ==
  /\ pc[w] = "record"
  /\ Goto(w, "drop")
  /\ UNCHANGED <<package, rowVars, diskVars, files, req, pruneVars, boundVars>>

\* Slip: the session's row survives its file.
CommitFileOnly(w) ==
  /\ pc[w] = "record"
  /\ files' = [files EXCEPT ![req[w].s] = Append(@, req[w].content)]
  /\ Respond(w)
  /\ UNCHANGED <<package, rowVars, diskVars, pruneVars, boundVars>>

\* The file row and the session's delete commit together (no row: a warning).
CommitFile(w) ==
  /\ pc[w] = "record"
  /\ files' = [files EXCEPT ![req[w].s] = Append(@, req[w].content)]
  /\ CloseRows({req[w].s})
  /\ Respond(w)
  /\ UNCHANGED <<package, diskVars, pruneVars, boundVars>>

-----------------------------------------------------------------------------
(* prune_upload_sessions, the TTL, package deletion, crashes *)

PruneSelect ==
  /\ ~pruning
  /\ pruning' = TRUE
  /\ toDiscard' = {s \in old : row[s] = "open"}
  /\ toDelete' = toDiscard'
  /\ Begin(toDiscard')
  /\ UNCHANGED <<package, rowVars, diskVars, files, pc, req>>

\* Slip: the prune forgets the scratch file.
PruneSkipScratch(s) ==
  /\ s \in toDiscard
  /\ toDiscard' = toDiscard \ {s}
  /\ UNCHANGED <<package, rowVars, diskVars, files, pc, req, pruning, toDelete, boundVars>>

PruneDiscard(s) ==
  /\ s \in toDiscard
  /\ Discard(s)
  /\ toDiscard' = toDiscard \ {s}
  /\ UNCHANGED <<package, rowVars, files, pc, req, pruning, toDelete, boundVars>>

\* Slip: the prune ends without a commit.
PruneNoCommit ==
  /\ pruning
  /\ toDiscard = {}
  /\ pruning' = FALSE
  /\ toDelete' = {}
  /\ UNCHANGED <<package, rowVars, diskVars, files, pc, req, toDiscard, boundVars>>

PruneCommit ==
  /\ pruning
  /\ toDiscard = {}
  /\ CloseRows(toDelete)
  /\ pruning' = FALSE
  /\ toDelete' = {}
  /\ UNCHANGED <<package, diskVars, files, pc, req, toDiscard, boundVars>>

\* The TTL passes without an update of an open session.
Expire(s) ==
  /\ row[s] = "open"
  /\ s \notin old
  /\ old' = old \union {s}
  /\ UNCHANGED <<package, row, received, diskVars, files, pc, req, pruneVars, boundVars>>

\* delete_package: the database cascades to session rows (the ORM knows no such
\* relationship) and to file rows; it waits for a file being stored.
DeletePackage ==
  /\ package
  /\ \A w \in Workers : pc[w] \notin {"unlink", "record"}
  /\ package' = FALSE
  /\ files' = [s \in Sessions |-> <<>>]
  /\ IF ForeignKeys THEN CloseRows({s \in Sessions : row[s] = "open"}) ELSE UNCHANGED rowVars
  /\ UNCHANGED <<diskVars, pc, req, pruneVars, boundVars>>

Crash ==
  /\ crashes < MaxCrashes
  /\ crashes' = crashes + 1
  /\ strays' = strays \union {req[w].s : w \in {v \in Workers : pc[v] = "create"}}
  /\ pc' = [w \in Workers |-> "idle"]
  /\ req' = [w \in Workers |-> NoRequest]
  /\ pruning' = FALSE /\ toDiscard' = {} /\ toDelete' = {}
  /\ UNCHANGED <<package, rowVars, diskVars, files, overlapped, failures>>

-----------------------------------------------------------------------------

Init ==
  /\ package = TRUE
  /\ row = [s \in Sessions |-> "none"]
  /\ received = [s \in Sessions |-> 0]
  /\ old = {}
  /\ onDisk = {}
  /\ scratch = [s \in Sessions |-> <<>>]
  /\ files = [s \in Sessions |-> <<>>]
  /\ pc = [w \in Workers |-> "idle"]
  /\ req = [w \in Workers |-> NoRequest]
  /\ pruning = FALSE /\ toDiscard = {} /\ toDelete = {}
  /\ strays = {} /\ overlapped = {} /\ crashes = 0 /\ failures = 0

Start(w) == CreateScratch(w) \/ ReadSession(w) \/ StartChunk(w) \/ Abort(w)

Proceed(w) ==
  \/ CreateRow(w) \/ CreateRowFails(w) \/ MeasureScratch(w) \/ Reconcile(w)
  \/ StatScratch(w) \/ AppendChunk(w) \/ AppendFails(w) \/ CommitOffset(w)
  \/ FinalizeOverCap(w) \/ CopyScratch(w) \/ CopyMissing(w) \/ UnlinkScratch(w)
  \/ StoreFails(w) \/ RejectStored(w) \/ CommitFile(w) \/ DropRow(w)

Prune == PruneSelect \/ PruneCommit \/ \E s \in Sessions : PruneDiscard(s)

Next ==
  \/ \E w \in Workers : Start(w) \/ Proceed(w)
  \/ Prune
  \/ \E s \in Sessions : Expire(s)
  \/ DeletePackage
  \/ Crash

Spec == Init /\ [][Next]_vars

\* Requests end, the prune loop repeats for ever and the TTL of an open session
\* passes. No client is assumed to send anything.
Fairness ==
  /\ \A w \in Workers : WF_vars(Proceed(w))
  /\ WF_vars(Prune)
  /\ \A s \in Sessions : WF_vars(Expire(s))

FairSpec == Spec /\ Fairness

-----------------------------------------------------------------------------
(* Properties *)

Step == {"idle", "create", "measure", "reconcile", "stat", "append", "commit",
         "finalize", "drop", "unlink", "record"}

Requests ==
  [s : Sessions \union {"none"}, offset : Nat, n : Nat, current : Nat, content : Seq(1 .. Total)]

TypeOK ==
  /\ package \in BOOLEAN
  /\ row \in [Sessions -> {"none", "open", "gone"}]
  /\ received \in [Sessions -> Nat]
  /\ old \subseteq Sessions /\ onDisk \subseteq Sessions
  /\ scratch \in [Sessions -> Seq(1 .. Total)]
  /\ files \in [Sessions -> Seq(Seq(1 .. Total))]
  /\ pc \in [Workers -> Step]
  /\ req \in [Workers -> Requests]
  /\ pruning \in BOOLEAN
  /\ toDiscard \subseteq Sessions /\ toDelete \subseteq Sessions /\ strays \subseteq Sessions
  /\ overlapped \subseteq Sessions

\* Where the requests that change a session do not overlap each other or its prune, every
\* package file has exactly the client's bytes, whatever was lost, repeated or cut short
\* on the way, and whoever asks for the session's state meanwhile.
FilesAreExact ==
  \A s \in Sessions \ overlapped : \A i \in DOMAIN files[s] : files[s][i] = File

\* The same of every session: "a retried or out-of-order chunk cannot corrupt the file".
EveryFileIsExact == \A s \in Sessions : \A i \in DOMAIN files[s] : files[s][i] = File

\* What the server has of a session: its scratch file, or the copy that is about to
\* be recorded as a package file.
Copied(s) == {Len(req[w].content) : w \in {v \in Workers : pc[v] = "record" /\ req[v].s = s}}
Held(s) == IF Copied(s) = {} THEN ScratchSize(s) ELSE CHOOSE n \in Copied(s) : TRUE
State(s) == IF s \in overlapped THEN "void" ELSE row[s]
Length(s) == IF State(s) = "open" THEN Held(s) ELSE 0
Made(s) == IF s \in overlapped THEN 0 ELSE Len(files[s])

Contract == INSTANCE UploadSessions WITH
  Size <- Total,
  state <- [s \in Sessions |-> State(s)],
  length <- [s \in Sessions |-> Length(s)],
  made <- [s \in Sessions |-> Made(s)]

\* Through every interleaving of its steps the server does what UploadSessions says: a
\* session is opened once, grows by what clients send and never beyond the file's size,
\* loses all of its bytes or none, and ends by making its one file when all are there. The
\* promise ends for a session that two requests, or one and the prune, change at once.
ContractKept == Contract!SessionsSpec

\* Where the requests that change a session do not overlap each other or its prune, it
\* makes at most one package file, though its state is asked for, failures repeat its
\* last step and crashes cut it short; once it is made, neither the session nor its
\* scratch file is left.
OneFilePerSession ==
  \A s \in Sessions \ overlapped :
    /\ Len(files[s]) <= 1
    /\ files[s] # <<>> => row[s] = "gone" /\ s \notin onDisk

\* A session that its client has left is removed in the end, with its row.
AbandonedSessionsEnd ==
  \A s \in Sessions :
    <>[](\A w \in Workers : req[w].s # s) => <>[](row[s] # "open")

\* A scratch file that no request is working on belongs to an open session, and so to
\* the prune's reach: "Each removed session's scratch file is discarded too, so an
\* abandoned upload cannot leak disk indefinitely". Only a create_upload that is cut
\* short before its commit leaves one behind, or requests that change the session at once.
ScratchFilesAreReachable ==
  \A s \in onDisk \ overlapped : ~AtWork(s) => row[s] = "open" \/ s \in strays
=============================================================================
