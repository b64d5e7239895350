---------------------------- MODULE UploadClient ----------------------------
(***************************************************************************)
(* One browser uploading files into one package: uploadFileChunked and     *)
(* patchChunk (lib/chunkedUpload.ts), the single-request upload            *)
(* (api/client.ts) for files of one chunk, the list of interrupted uploads *)
(* (useResumableUploads.ts), the network between, and the server's         *)
(* sessions.                                                               *)
(*                                                                         *)
(* The server takes each request in one step: how its handlers interleave  *)
(* is ChunkedUpload's subject.  A request outlives the attempt that sent   *)
(* it: after an abort, a reload or a broken connection it may still be     *)
(* handled, later than requests sent after it, or be lost.                 *)
(*                                                                         *)
(* An attempt is one call of uploadOne; it opens at most one session, and  *)
(* the session is named by the attempt that asked for it (0: none).        *)
(***************************************************************************)
EXTENDS Naturals, FiniteSets

CONSTANTS
  Files,        \* files, each with its own name, size and modification time
  Chunks,       \* Chunks[f]: f's size in chunks; one chunk goes in one request
  MaxAttempts,  \* bound: attempts per file
  MaxUpsets     \* bound: faults, and openings of the package's page

ASSUME ClientAssumption ==
  /\ Chunks \in [Files -> Nat \ {0}]
  /\ MaxAttempts \in Nat /\ MaxUpsets \in Nat

VARIABLES
  attempt,   \* attempt[f]: attempts begun so far
  phase,     \* phase[f]: the request the attempt awaits, or how it ended
  sid,       \* sid[f]: the session the attempt uses (uploadId)
  aborted,   \* aborted[f]: the attempt's controller.signal.aborted
  reply,     \* reply[f]: the answer on its way to the attempt
  stored,    \* stored[f]: the session localStorage holds under f's key
  listed,    \* the interrupted uploads the page offers (pending)
  told,      \* told[f]: the attempts whose row was marked done (history)
  visits,    \* openings of the page so far
  received,  \* received[f][a]: the offset in the session's row
  disk,      \* disk[f][a]: the length of its scratch file
  isOpen,    \* isOpen[f][a]: the session exists
  delivered, \* delivered[f]: the attempts whose request stored a file (history)
  copies,    \* copies[f]: package files made of f
  wire,      \* requests sent and not yet handled
  faults     \* faults so far

pageVars == <<attempt, phase, sid, aborted, told>>
localVars == <<stored, listed, visits>>
sessionVars == <<received, disk, isOpen>>
fileVars == <<delivered, copies>>
clientVars == <<pageVars, localVars, reply, sessionVars, fileVars, wire, faults>>

Attempts == 1 .. MaxAttempts
Kinds == {"post", "ask", "open", "patch", "look", "drop"}
Awaited == {"post", "ask", "open", "patch"}
Ended == {"succeeded", "failed"}

Answer(what, n) == [is |-> what, at |-> n]
NoReply == Answer("none", 0)
Failure == Answer("failure", 0)
Complete == Answer("complete", 0)

Request(f, a, kind, s, n) == [of |-> f, by |-> a, kind |-> kind, sid |-> s, at |-> n]
Least(m, n) == IF m <= n THEN m ELSE n

\* Whether the attempt that sent r is still waiting for its answer.
Waiting(r) ==
  /\ phase[r.of] = r.kind /\ attempt[r.of] = r.by /\ reply[r.of] = NoReply

Reach(r, ans) == reply' = IF Waiting(r) THEN [reply EXCEPT ![r.of] = ans] ELSE reply

ClientInit ==
  /\ attempt = [f \in Files |-> 0]
  /\ phase = [f \in Files |-> "idle"]
  /\ sid = [f \in Files |-> 0]
  /\ aborted = [f \in Files |-> FALSE]
  /\ reply = [f \in Files |-> NoReply]
  /\ stored = [f \in Files |-> 0]
  /\ listed = {}
  /\ told = [f \in Files |-> {}]
  /\ visits = 0
  /\ received = [f \in Files |-> [a \in Attempts |-> 0]]
  /\ disk = [f \in Files |-> [a \in Attempts |-> 0]]
  /\ isOpen = [f \in Files |-> [a \in Attempts |-> FALSE]]
  /\ delivered = [f \in Files |-> {}]
  /\ copies = [f \in Files |-> 0]
  /\ wire = {}
  /\ faults = 0

-----------------------------------------------------------------------------
(* The browser. *)

\* uploadFileChunked up to its first request, or the single-request upload.
Begin(f) ==
  /\ phase[f] = "idle" /\ attempt[f] < MaxAttempts
  /\ LET kind == IF Chunks[f] = 1 THEN "post" ELSE IF stored[f] # 0 THEN "ask" ELSE "open"
     IN  /\ phase' = [phase EXCEPT ![f] = kind]
         /\ wire' = wire \union {Request(f, attempt[f] + 1, kind, stored[f], 0)}
  /\ attempt' = [attempt EXCEPT ![f] = @ + 1]
  /\ sid' = [sid EXCEPT ![f] = stored[f]]
  /\ UNCHANGED <<aborted, told, localVars, reply, sessionVars, fileVars, faults>>

\* The head of the loop: stop if aborted, else send the chunk at offset n.
SendChunk(f, s, n) ==
  /\ sid' = [sid EXCEPT ![f] = s]
  /\ phase' = [phase EXCEPT ![f] = IF aborted[f] THEN "failed" ELSE "patch"]
  /\ wire' = IF aborted[f] THEN wire
                           ELSE wire \union {Request(f, attempt[f], "patch", s, n)}

\* Slip: a status query that fails is repeated, the session kept.
TakeAskRepeats(f) ==
  /\ phase[f] = "ask" /\ reply[f] # NoReply
  /\ reply' = [reply EXCEPT ![f] = NoReply]
  /\ \/ /\ reply[f] # Failure
        /\ SendChunk(f, sid[f], Least(reply[f].at, Chunks[f]))
     \/ /\ reply[f] = Failure
        /\ wire' = wire \union {Request(f, attempt[f], "ask", sid[f], 0)}
        /\ UNCHANGED <<phase, sid>>
  /\ UNCHANGED <<attempt, aborted, told, localVars, sessionVars, fileVars, faults>>

\* The stored session's status: resume at its offset, or forget the session
\* and open a new one, whatever the failure was.
TakeAsk(f) ==
  /\ phase[f] = "ask" /\ reply[f] # NoReply
  /\ reply' = [reply EXCEPT ![f] = NoReply]
  /\ \/ /\ reply[f] # Failure
        /\ SendChunk(f, sid[f], Least(reply[f].at, Chunks[f]))
        /\ UNCHANGED stored
     \/ /\ reply[f] = Failure
        /\ stored' = [stored EXCEPT ![f] = 0]
        /\ phase' = [phase EXCEPT ![f] = "open"]
        /\ wire' = wire \union {Request(f, attempt[f], "open", 0, 0)}
        /\ UNCHANGED sid
  /\ UNCHANGED <<attempt, aborted, told, listed, visits, sessionVars, fileVars, faults>>

\* Slip: the new session is not remembered.
TakeOpenForgets(f) ==
  /\ phase[f] = "open" /\ reply[f] # NoReply
  /\ reply' = [reply EXCEPT ![f] = NoReply]
  /\ \/ /\ reply[f] # Failure
        /\ SendChunk(f, attempt[f], 0)
     \/ /\ reply[f] = Failure
        /\ phase' = [phase EXCEPT ![f] = "failed"]
        /\ UNCHANGED <<sid, wire>>
  /\ UNCHANGED <<attempt, aborted, told, localVars, sessionVars, fileVars, faults>>

\* The session that was opened is remembered before its first chunk is sent.
TakeOpen(f) ==
  /\ phase[f] = "open" /\ reply[f] # NoReply
  /\ reply' = [reply EXCEPT ![f] = NoReply]
  /\ \/ /\ reply[f] # Failure
        /\ stored' = [stored EXCEPT ![f] = attempt[f]]
        /\ SendChunk(f, attempt[f], 0)
     \/ /\ reply[f] = Failure
        /\ phase' = [phase EXCEPT ![f] = "failed"]
        /\ UNCHANGED <<stored, sid, wire>>
  /\ UNCHANGED <<attempt, aborted, told, listed, visits, sessionVars, fileVars, faults>>

\* The body of the loop: go on at the offset the server names, in a conflict
\* as in a success, until it reports the file complete.
TakePatch(f) ==
  /\ phase[f] = "patch" /\ reply[f] # NoReply
  /\ reply' = [reply EXCEPT ![f] = NoReply]
  /\ \/ /\ reply[f].is = "at"
        /\ SendChunk(f, sid[f], Least(reply[f].at, Chunks[f]))
        /\ UNCHANGED stored
     \/ /\ reply[f] = Complete
        /\ stored' = [stored EXCEPT ![f] = 0]
        /\ phase' = [phase EXCEPT ![f] = "succeeded"]
        /\ UNCHANGED <<sid, wire>>
     \/ /\ reply[f] = Failure
        /\ phase' = [phase EXCEPT ![f] = "failed"]
        /\ UNCHANGED <<stored, sid, wire>>
  /\ UNCHANGED <<attempt, aborted, told, listed, visits, sessionVars, fileVars, faults>>

\* Slip: an answer is taken for a success without looking at its status.
TakePostUnchecked(f) ==
  /\ phase[f] = "post" /\ reply[f] # NoReply
  /\ reply' = [reply EXCEPT ![f] = NoReply]
  /\ phase' = [phase EXCEPT ![f] = "succeeded"]
  /\ UNCHANGED <<attempt, sid, aborted, told, localVars, sessionVars, fileVars, wire, faults>>

TakePost(f) ==
  /\ phase[f] = "post" /\ reply[f] # NoReply
  /\ reply' = [reply EXCEPT ![f] = NoReply]
  /\ phase' = [phase EXCEPT ![f] = IF reply[f] = Complete THEN "succeeded" ELSE "failed"]
  /\ UNCHANGED <<attempt, sid, aborted, told, localVars, sessionVars, fileVars, wire, faults>>

TakeReply(f) == TakeAsk(f) \/ TakeOpen(f) \/ TakePatch(f) \/ TakePost(f)

\* controller.abort(): an XHR under way fails at once; the status query and
\* the opening take no signal, and the loop sees it when they have answered.
Abort(f) ==
  /\ phase[f] \in Awaited /\ ~aborted[f]
  /\ aborted' = [aborted EXCEPT ![f] = TRUE]
  /\ \/ /\ phase[f] \in {"patch", "post"}
        /\ phase' = [phase EXCEPT ![f] = "failed"]
        /\ reply' = [reply EXCEPT ![f] = NoReply]
     \/ /\ phase[f] \in {"ask", "open"}
        /\ UNCHANGED <<phase, reply>>
  /\ UNCHANGED <<attempt, sid, told, localVars, sessionVars, fileVars, wire, faults>>

\* uploadOne's promise settles, and its caller sees how.
Close(f) ==
  /\ phase[f] \in Ended
  /\ phase' = [phase EXCEPT ![f] = "idle"]
  /\ aborted' = [aborted EXCEPT ![f] = FALSE]
  /\ sid' = [sid EXCEPT ![f] = 0]
  /\ told' = IF phase[f] = "succeeded" THEN [told EXCEPT ![f] = @ \union {attempt[f]}]
                                        ELSE told
  /\ UNCHANGED <<attempt, localVars, reply, sessionVars, fileVars, wire, faults>>

\* refresh, on every mount of the page: ask after each session localStorage
\* holds, those of uploads under way included.
Visit ==
  /\ faults + visits < MaxUpsets
  /\ \A r \in wire : r.kind # "look"
  /\ visits' = visits + 1
  /\ listed' = {}
  /\ wire' = wire \union {Request(f, 0, "look", stored[f], 0) : f \in {g \in Files : stored[g] # 0}}
  /\ UNCHANGED <<pageVars, stored, reply, sessionVars, fileVars, faults>>

\* discardResumableUpload: forget f's key, then ask the server to abort the
\* session the entry names.
Discard(e) ==
  /\ e \in listed
  /\ listed' = {x \in listed : x.of # e.of}
  /\ stored' = [stored EXCEPT ![e.of] = 0]
  /\ wire' = wire \union {Request(e.of, 0, "drop", e.sid, 0)}
  /\ UNCHANGED <<pageVars, visits, reply, sessionVars, fileVars, faults>>

\* onResumeFile takes f's entries off the list before the upload begins.
Unlist(e) ==
  /\ e \in listed
  /\ listed' = {x \in listed : x.of # e.of}
  /\ UNCHANGED <<pageVars, stored, visits, reply, sessionVars, fileVars, wire, faults>>

\* The page is loaded anew: only localStorage survives.
Reload ==
  /\ phase' = [f \in Files |-> "idle"]
  /\ aborted' = [f \in Files |-> FALSE]
  /\ reply' = [f \in Files |-> NoReply]
  /\ sid' = [f \in Files |-> 0]
  /\ listed' = {}
  /\ wire' = {r \in wire : r.kind # "look"}
  /\ UNCHANGED <<attempt, told, stored, visits, sessionVars, fileVars, faults>>

-----------------------------------------------------------------------------
(* The server. *)

\* A session goes, row and scratch file.
RemoveSession(f, s) ==
  /\ isOpen' = [isOpen EXCEPT ![f][s] = FALSE]
  /\ received' = [received EXCEPT ![f][s] = 0]
  /\ disk' = [disk EXCEPT ![f][s] = 0]

Taken(r, kind) ==
  /\ r \in wire /\ r.kind = kind
  /\ wire' = wire \ {r}
  /\ UNCHANGED <<pageVars, visits, faults>>

\* get_upload: reconcile the row with the scratch file; 404 if there is none.
HandleAsk(r) ==
  /\ Taken(r, "ask")
  /\ IF isOpen[r.of][r.sid]
     THEN /\ received' = [received EXCEPT ![r.of][r.sid] = disk[r.of][r.sid]]
          /\ Reach(r, Answer("at", disk[r.of][r.sid]))
     ELSE /\ Reach(r, Failure)
          /\ UNCHANGED received
  /\ UNCHANGED <<disk, isOpen, fileVars, stored, listed>>

\* The same for refresh, whose answer lists the upload or forgets its key,
\* whichever session the key holds by then.
HandleLook(r) ==
  /\ Taken(r, "look")
  /\ IF isOpen[r.of][r.sid]
     THEN /\ received' = [received EXCEPT ![r.of][r.sid] = disk[r.of][r.sid]]
          /\ listed' = listed \union {[of |-> r.of, sid |-> r.sid]}
          /\ UNCHANGED stored
     ELSE /\ stored' = [stored EXCEPT ![r.of] = 0]
          /\ UNCHANGED <<received, listed>>
  /\ UNCHANGED <<disk, isOpen, fileVars, reply>>

\* create_upload.
HandleOpen(r) ==
  /\ Taken(r, "open")
  /\ isOpen' = [isOpen EXCEPT ![r.of][r.by] = TRUE]
  /\ Reach(r, Answer("at", 0))
  /\ UNCHANGED <<received, disk, fileVars, stored, listed>>

\* abort_upload.
HandleDrop(r) ==
  /\ Taken(r, "drop")
  /\ RemoveSession(r.of, r.sid)
  /\ UNCHANGED <<fileVars, stored, listed, reply>>

\* A file of f is committed by the request r.
StoreFile(r) ==
  /\ delivered' = [delivered EXCEPT ![r.of] = @ \union {r.by}]
  /\ copies' = [copies EXCEPT ![r.of] = @ + 1]

\* upload_file, for a file sent in one request.
HandlePost(r) ==
  /\ Taken(r, "post")
  /\ StoreFile(r)
  /\ Reach(r, Complete)
  /\ UNCHANGED <<sessionVars, stored, listed>>

\* upload_chunk appends the chunk at r.at if row and scratch file both end
\* there; the chunk that completes the file becomes a package file.
PatchOffset(r) == received[r.of][r.sid]
NextOffset(r) == Least(r.at + 1, Chunks[r.of])
Appends(r) == isOpen[r.of][r.sid] /\ PatchOffset(r) = r.at /\ disk[r.of][r.sid] = r.at

PatchUnknown(r) ==
  /\ Taken(r, "patch") /\ ~isOpen[r.of][r.sid]
  /\ Reach(r, Failure)
  /\ UNCHANGED <<sessionVars, fileVars, stored, listed>>

PatchConflict(r) ==
  /\ Taken(r, "patch") /\ isOpen[r.of][r.sid] /\ ~Appends(r)
  /\ received' = IF PatchOffset(r) # r.at
                 THEN received
                 ELSE [received EXCEPT ![r.of][r.sid] = disk[r.of][r.sid]]
  /\ Reach(r, Answer("at", received'[r.of][r.sid]))
  /\ UNCHANGED <<disk, isOpen, fileVars, stored, listed>>

PatchAppend(r) ==
  /\ Taken(r, "patch") /\ Appends(r)
  /\ IF NextOffset(r) < Chunks[r.of]
     THEN /\ received' = [received EXCEPT ![r.of][r.sid] = NextOffset(r)]
          /\ disk' = [disk EXCEPT ![r.of][r.sid] = NextOffset(r)]
          /\ Reach(r, Answer("at", NextOffset(r)))
          /\ UNCHANGED <<isOpen, fileVars>>
     ELSE /\ RemoveSession(r.of, r.sid)
          /\ StoreFile(r)
          /\ Reach(r, Complete)
  /\ UNCHANGED <<stored, listed>>

HandlePatch(r) == PatchUnknown(r) \/ PatchConflict(r) \/ PatchAppend(r)

Handle(r) ==
  \/ HandleAsk(r) \/ HandleLook(r) \/ HandleOpen(r) \/ HandleDrop(r)
  \/ HandlePost(r) \/ HandlePatch(r)

-----------------------------------------------------------------------------
(* What goes wrong. *)

Fault == faults + visits < MaxUpsets /\ faults' = faults + 1

\* The connection breaks while the request is under way, before or after the
\* server handles it: the attempt sees an error, the request may go on.
Break(f) ==
  /\ Fault
  /\ phase[f] \in Awaited /\ reply[f] # Failure
  /\ reply' = [reply EXCEPT ![f] = Failure]
  /\ UNCHANGED <<pageVars, localVars, sessionVars, fileVars, wire>>

\* The server answers with an error and has changed nothing (401, 429, 5xx,
\* a cap, a failed write), or the request does not arrive.
Refuse(r) ==
  /\ Fault
  /\ r \in wire /\ wire' = wire \ {r}
  /\ Reach(r, Failure)
  /\ stored' = IF r.kind = "look" THEN [stored EXCEPT ![r.of] = 0] ELSE stored
  /\ UNCHANGED <<pageVars, listed, visits, sessionVars, fileVars>>

\* A request nobody waits for need not arrive either.
Vanish(r) ==
  /\ r \in wire /\ r.kind # "look" /\ ~Waiting(r)
  /\ wire' = wire \ {r}
  /\ UNCHANGED <<pageVars, localVars, reply, sessionVars, fileVars, faults>>

\* upload_chunk fails after the append: before the offset is committed (the
\* row lags), in _finalize before the store write (row and scratch are
\* whole), in the store write (finalize has unlinked the scratch file), or on
\* a cap (the session is removed).
FailPatch(r) ==
  /\ Fault
  /\ r \in wire /\ r.kind = "patch" /\ wire' = wire \ {r}
  /\ Appends(r)
  /\ Reach(r, Failure)
  /\ \/ /\ disk' = [disk EXCEPT ![r.of][r.sid] = NextOffset(r)]
        /\ UNCHANGED <<received, isOpen>>
     \/ /\ NextOffset(r) = Chunks[r.of]
        /\ received' = [received EXCEPT ![r.of][r.sid] = NextOffset(r)]
        /\ \E n \in {0, NextOffset(r)} : disk' = [disk EXCEPT ![r.of][r.sid] = n]
        /\ UNCHANGED isOpen
     \/ /\ NextOffset(r) = Chunks[r.of]
        /\ RemoveSession(r.of, r.sid)
  /\ UNCHANGED <<pageVars, localVars, fileVars>>

\* prune_upload_sessions removes a session it finds idle for too long.
Expire(f, a) ==
  /\ Fault
  /\ isOpen[f][a]
  /\ RemoveSession(f, a)
  /\ UNCHANGED <<pageVars, localVars, reply, fileVars, wire>>

-----------------------------------------------------------------------------

\* Events the user does not cause.
Event ==
  \/ \E f \in Files : TakeReply(f) \/ Break(f) \/ \E a \in Attempts : Expire(f, a)
  \/ \E r \in wire : Handle(r) \/ Refuse(r) \/ Vanish(r) \/ FailPatch(r)

ClientNext ==
  \/ \E f \in Files : Begin(f) \/ Abort(f) \/ Close(f)
  \/ Visit \/ Reload \/ \E e \in listed : Discard(e) \/ Unlist(e)
  \/ Event

ClientSpec == ClientInit /\ [][ClientNext]_clientVars

Replies == [is : {"none", "failure", "complete", "at"}, at : Nat]
Requests == [of : Files, by : 0 .. MaxAttempts, kind : Kinds, sid : 0 .. MaxAttempts, at : Nat]

PageTypeOK ==
  /\ attempt \in [Files -> 0 .. MaxAttempts]
  /\ phase \in [Files -> Awaited \union Ended \union {"idle"}]
  /\ sid \in [Files -> 0 .. MaxAttempts]
  /\ aborted \in [Files -> BOOLEAN]
  /\ told \in [Files -> SUBSET Attempts]

LocalTypeOK ==
  /\ stored \in [Files -> 0 .. MaxAttempts]
  /\ listed \subseteq [of : Files, sid : Attempts]
  /\ visits \in Nat

SessionTypeOK ==
  /\ received \in [Files -> [Attempts -> Nat]]
  /\ disk \in [Files -> [Attempts -> Nat]]
  /\ isOpen \in [Files -> [Attempts -> BOOLEAN]]

FileTypeOK ==
  /\ delivered \in [Files -> SUBSET Attempts]
  /\ copies \in [Files -> Nat]

NetTypeOK ==
  /\ reply \in [Files -> Replies]
  /\ wire \subseteq Requests
  /\ faults \in Nat

ClientTypeOK == PageTypeOK /\ LocalTypeOK /\ SessionTypeOK /\ FileTypeOK /\ NetTypeOK

(***************************************************************************)
(* The abstract promise of UploadPromise, of this browser's attempts.      *)
(***************************************************************************)
Promise == INSTANCE UploadPromise WITH
  tries <- attempt,
  open <- [f \in Files |-> phase[f] # "idle"]
=============================================================================
