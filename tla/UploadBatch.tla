----------------------------- MODULE UploadBatch -----------------------------
(***************************************************************************)
(* The upload batch of one package (composables/useUploads.ts) on top of   *)
(* UploadClient: the rows the user sees, the parallel arrays that control  *)
(* them, the pool of workers, and cancel, retry, dismiss, clear.           *)
(*                                                                         *)
(* A browser runs to completion: what a settled promise sets off (the end  *)
(* of uploadOne, the worker's next file, the end of the batch) happens     *)
(* before the next event.  These are the steps of Microtask, and every     *)
(* other step waits until none is due.                                     *)
(***************************************************************************)
EXTENDS UploadClient, Sequences, SequencesExt

CONSTANTS
  Picks,     \* selections the user may make, sequences of distinct files
  Width,     \* UPLOAD_CONCURRENCY
  MaxSize,   \* maxSize, in chunks
  MaxTotal   \* bound: attempts of all files together

ASSUME BatchAssumption ==
  /\ Width \in Nat \ {0} /\ MaxSize \in Nat /\ MaxTotal \in Nat
  /\ \A pick \in Picks : pick \in Seq(Files) /\ \A i, j \in DOMAIN pick : pick[i] = pick[j] => i = j

VARIABLES
  rows,         \* entry.items: the file each row shows, and its status
  files,        \* control.files
  controllers,  \* control.controllers: whether one is set
  canceled,     \* control.canceled
  active,       \* entry.active
  queue         \* the indices the workers have yet to pull

batchVars == <<rows, files, controllers, canceled, active, queue>>
arrays == <<rows, files, controllers, canceled>>
vars == <<clientVars, batchVars>>

Init ==
  /\ ClientInit
  /\ rows = <<>> /\ files = <<>> /\ controllers = <<>> /\ canceled = {}
  /\ active = FALSE
  /\ queue = <<>>

Row(f, status) == [of |-> f, status |-> status]
Index == DOMAIN rows
Busy == {i \in Index : controllers[i]}
Mark(i, status) == rows' = [rows EXCEPT ![i].status = status]

\* The members of S in ascending order (the one such sequence), and the parts
\* of s at those indices.
Ascending(S) == {q \in [1 .. Cardinality(S) -> S] : \A j, k \in DOMAIN q : j < k => q[j] < q[k]}
Through(s, q) == [k \in DOMAIN q |-> s[q[k]]]

-----------------------------------------------------------------------------
(* What a settled promise sets off. *)

\* A worker takes the next index; uploadOne skips it if it was cancelled while
\* it waited, and else starts the attempt.
Pull ==
  /\ active /\ queue # <<>> /\ Cardinality(Busy) < Width
  /\ queue' = Tail(queue)
  /\ LET i == Head(queue)
     IN  \/ /\ i \in canceled
            /\ Mark(i, "canceled")
            /\ UNCHANGED <<controllers, clientVars>>
         \/ /\ i \notin canceled
            /\ Begin(files[i])
            /\ Mark(i, "uploading")
            /\ controllers' = [controllers EXCEPT ![i] = TRUE]
  /\ UNCHANGED <<files, canceled, active>>

\* The end of uploadOne.
Settle(i) ==
  /\ i \in Busy
  /\ Close(files[i])
  /\ Mark(i, CASE phase[files[i]] = "succeeded" -> "done"
               [] aborted[files[i]] -> "canceled"
               [] OTHER -> "error")
  /\ controllers' = [controllers EXCEPT ![i] = FALSE]
  /\ UNCHANGED <<files, canceled, active, queue>>

\* cleanup, with what is left of the arrays.
Drop == rows' = <<>> /\ files' = <<>> /\ controllers' = <<>> /\ canceled' = {}
Cleanup == IF \A i \in Index : rows[i].status = "done" THEN Drop ELSE UNCHANGED arrays

\* Slip: the batch ends with the first worker that leaves.
FinishEarly ==
  /\ active /\ queue = <<>>
  /\ active' = FALSE
  /\ Cleanup
  /\ UNCHANGED <<queue, clientVars>>

\* The last worker has left: the batch is idle.
Finish ==
  /\ active /\ queue = <<>> /\ Busy = {}
  /\ active' = FALSE
  /\ Cleanup
  /\ UNCHANGED <<queue, clientVars>>

Microtask == Pull \/ Finish \/ \E i \in Index : Settle(i)

MicrotaskDue ==
  /\ active
  /\ \/ \E i \in Busy : phase[files[i]] \in Ended
     \/ queue # <<>> /\ Cardinality(Busy) < Width
     \/ queue = <<>> /\ Busy = {}

-----------------------------------------------------------------------------
(* What the user does. *)

\* The bounds on attempts, asked for before a worker needs one.
MayTry(S) ==
  /\ \A f \in S : attempt[f] < MaxAttempts
  /\ SumFunction(attempt) + Cardinality(S) <= MaxTotal

\* startUploads: an idle batch is replaced, failed rows and all.
Valid(pick) == {i \in DOMAIN pick : Chunks[pick[i]] <= MaxSize}

startUploads(pick) ==
  /\ ~active /\ Valid(pick) # {}
  /\ MayTry({pick[i] : i \in Valid(pick)})
  /\ \E valid \in Ascending(Valid(pick)) :
       /\ files' = Through(pick, valid)
       /\ rows' = [i \in DOMAIN valid |-> Row(pick[valid[i]], "uploading")]
       /\ controllers' = [i \in DOMAIN valid |-> FALSE]
       /\ queue' = [i \in DOMAIN valid |-> i]
  /\ canceled' = {}
  /\ active' = TRUE

pickFiles(pick) ==
  /\ startUploads(pick)
  /\ UNCHANGED clientVars

\* onResumeFile: the entry leaves the list, also when a batch is running and
\* startUploads does nothing.
resumeFile(e) ==
  /\ Unlist(e)
  /\ startUploads(<<e.of>>) \/ (active /\ UNCHANGED batchVars)

\* Abort an upload under way, or have a queued one skipped.
cancelUpload(i) ==
  /\ rows[i].status = "uploading"
  /\ \/ /\ controllers[i]
        /\ Abort(files[i])
        /\ UNCHANGED <<rows, canceled>>
     \/ /\ ~controllers[i]
        /\ canceled' = canceled \union {i}
        /\ Mark(i, "canceled")
        /\ UNCHANGED clientVars
  /\ UNCHANGED <<files, controllers, active, queue>>

\* retryUpload and retryAllFailed put the chosen rows in the queue; a row
\* keeps its status until a worker takes it.
Failed == {i \in Index : rows[i].status \in {"error", "canceled"}}

Requeue(S) ==
  /\ ~active /\ S # {} /\ MayTry({files[i] : i \in S})
  /\ canceled' = canceled \ S
  /\ active' = TRUE
  /\ queue' \in Ascending(S)
  /\ UNCHANGED <<rows, files, controllers, clientVars>>

retryUpload(i) == i \in Failed /\ Requeue({i})
retryAllFailed == Requeue(Failed)

\* Slip: canceled keeps the indices of before.
dismissUploadStale(i) ==
  /\ ~active /\ rows[i].status # "uploading"
  /\ rows' = RemoveAt(rows, i)
  /\ files' = RemoveAt(files, i)
  /\ controllers' = RemoveAt(controllers, i)
  /\ UNCHANGED <<canceled, active, queue, clientVars>>

\* dismissUpload: drop one row from each of the arrays.
dismissUpload(i) ==
  /\ ~active /\ rows[i].status # "uploading"
  /\ LET left == RemoveAt(rows, i)
     IN  IF \A j \in DOMAIN left : left[j].status = "done"
         THEN Drop
         ELSE /\ rows' = left
              /\ files' = RemoveAt(files, i)
              /\ controllers' = RemoveAt(controllers, i)
              /\ canceled' = {}
  /\ UNCHANGED <<active, queue, clientVars>>

\* Slip: the files of the rows that go are kept.
clearCompletedRowsOnly ==
  /\ ~active /\ \E i \in Index : rows[i].status = "done"
  /\ \E keep \in Ascending({i \in Index : rows[i].status # "done"}) :
       /\ rows' = Through(rows, keep)
       /\ controllers' = Through(controllers, keep)
  /\ canceled' = {}
  /\ UNCHANGED <<files, active, queue, clientVars>>

\* clearCompleted: rebuild the arrays from the rows that are not done.
clearCompleted ==
  /\ ~active /\ \E i \in Index : rows[i].status = "done"
  /\ \E keep \in Ascending({i \in Index : rows[i].status # "done"}) :
       /\ rows' = Through(rows, keep)
       /\ files' = Through(files, keep)
       /\ controllers' = Through(controllers, keep)
  /\ canceled' = {}
  /\ UNCHANGED <<active, queue, clientVars>>

reloadPage ==
  /\ Reload
  /\ Drop
  /\ active' = FALSE /\ queue' = <<>>

User ==
  \/ \E pick \in Picks : pickFiles(pick)
  \/ \E e \in listed : resumeFile(e)
  \/ \E i \in Index : cancelUpload(i) \/ retryUpload(i) \/ dismissUpload(i)
  \/ retryAllFailed \/ clearCompleted \/ reloadPage
  \/ /\ Visit \/ \E e \in listed : Discard(e)
     /\ UNCHANGED batchVars

Next ==
  \/ Microtask
  \/ ~MicrotaskDue /\ User
  \/ ~MicrotaskDue /\ Event /\ UNCHANGED batchVars

\* The browser runs its microtasks; a request under way is handled or fails,
\* and an answer that arrived is taken.  Nothing is asked of the user.
BrowserStep(A) == ~MicrotaskDue /\ A /\ UNCHANGED batchVars

Fairness ==
  /\ WF_vars(Microtask)
  /\ \A f \in Files :
       /\ WF_vars(BrowserStep(TakeReply(f)))
       /\ WF_vars(BrowserStep(\E r \in wire : r.of = f /\ Handle(r)))

Spec == Init /\ [][Next]_vars /\ Fairness

-----------------------------------------------------------------------------
(* Properties. *)

TypeOK ==
  /\ ClientTypeOK
  /\ \A i \in Index : rows[i] \in [of : Files, status : {"uploading", "done", "error", "canceled"}]
  /\ files \in Seq(Files) /\ controllers \in Seq(BOOLEAN)
  /\ canceled \subseteq Index /\ active \in BOOLEAN /\ queue \in Seq(Index)

\* After any sequence of batches, cancels, retries, dismissals and clearings
\* the parallel arrays still speak of the same files at the same indices, and
\* an index marked as cancelled is that of a row the user cancelled.
RowsMatchFiles ==
  /\ Len(files) = Len(rows) /\ Len(controllers) = Len(rows)
  /\ \A i \in Index : rows[i].of = files[i]
  /\ \A i \in canceled : rows[i].status = "canceled" /\ ~controllers[i]

\* Every attempt under way has its row and its controller, so the user can see
\* and cancel it; and an idle batch shows no row as uploading, which could
\* neither be retried nor dismissed.
EveryAttemptHasItsRow ==
  /\ \A f \in Files : phase[f] # "idle" <=>
                        \E i \in Busy : files[i] = f /\ rows[i].status = "uploading"
  /\ ~active => \A i \in Index : rows[i].status # "uploading"

\* While a session of f holds bytes, an attempt for f uses it and asks for no
\* other.
GoesOnIn(f, a) ==
  disk[f][a] > 0 =>
    /\ phase[f] # "open"
    /\ phase[f] \in {"ask", "patch"} => sid[f] = a

\* As long as nothing fails and the list of interrupted uploads is not
\* consulted, aborts, reloads and late requests make a file start over only when
\* the whole of it was stored: until then every chunk goes after those that
\* came before it, in the one session that holds them, and the attempt under way
\* uses that session.  An abort or a reload with the last chunk under way does
\* not stop the server: the file is stored, and a retry, told that the session
\* is gone, opens another and sends all of it again.
InterruptedUploadsResume ==
  [][faults' = 0 /\ visits' = 0 =>
       \A f \in Files, a \in Attempts :
         /\ GoesOnIn(f, a)'
         /\ disk'[f][a] # disk[f][a] =>
              /\ \A b \in Attempts \ {a} : disk[f][b] = 0
              /\ disk'[f][a] > disk[f][a] \/ copies'[f] = copies[f] + 1]_vars

\* The rows keep the promise of UploadPromise: an attempt stores at most one
\* copy, however late, and "done" is said only of an attempt that stored one.
PromiseKept == Promise!PromiseSafety

\* A batch becomes idle again, whatever is cancelled, refused or lost.
EveryBatchSettles == active ~> ~active
=============================================================================
