-------------------------- MODULE UploadBatchProofs --------------------------
(***************************************************************************)
(* UploadClient implements UploadPromise, for any files and bounds. The    *)
(* upload batch keeps its rows and its parallel arrays together, takes     *)
(* only steps of UploadClient, and so keeps UploadPromise; for any files,  *)
(* selections and pool width.                                              *)
(***************************************************************************)
EXTENDS UploadBatch, FiniteSetTheorems, SequenceTheorems, TLAPS

\* A request that may store a file.
Stores(r) == r.kind \in {"post", "patch"}

\* Attempt a of f has stored nothing and has no request under way that could.
Unspent(f, a) ==
  /\ a \notin delivered[f]
  /\ \A r \in wire : Stores(r) /\ r.of = f => r.by # a

\* A storing request belongs to an attempt that has begun and stored nothing,
\* and is that attempt's only one.
RequestsAreSpare ==
  \A r \in wire : Stores(r) =>
    /\ r.by \in 1 .. attempt[r.of] /\ r.by \notin delivered[r.of]
    /\ \A q \in wire : Stores(q) /\ q.of = r.of /\ q.by = r.by => q = r

\* What the attempt under way knows of itself.
AttemptsKnow ==
  \A f \in Files :
    /\ phase[f] \in {"ask", "open"} => Unspent(f, attempt[f])
    /\ phase[f] = "patch" /\ reply[f].is = "at" => Unspent(f, attempt[f])
    /\ phase[f] \in {"patch", "post"} /\ reply[f] = Complete => attempt[f] \in delivered[f]
    /\ phase[f] = "succeeded" => attempt[f] \in delivered[f]
    /\ phase[f] # "idle" => attempt[f] > 0
    /\ phase[f] \notin Awaited => reply[f] = NoReply

DeliveredAttempts == \A f \in Files : delivered[f] \subseteq 1 .. attempt[f]

\* Whatever speaks of a session names one.
SessionsAreNamed ==
  /\ \A r \in wire :
       /\ r.kind \in {"ask", "patch", "look", "drop"} => r.sid \in Attempts
       /\ r.kind \in {"post", "patch", "open"} => r.by \in Attempts
  /\ \A f \in Files : phase[f] \in {"ask", "patch"} => sid[f] \in Attempts

IInv ==
  /\ ClientTypeOK /\ SessionsAreNamed
  /\ RequestsAreSpare /\ AttemptsKnow /\ DeliveredAttempts

-----------------------------------------------------------------------------
(* Facts about requests and answers. *)

LEMMA RequestType ==
  ASSUME NEW f \in Files, NEW a \in 0 .. MaxAttempts, NEW k \in Kinds,
         NEW s \in 0 .. MaxAttempts, NEW n \in Nat
  PROVE  /\ Request(f, a, k, s, n) \in Requests
         /\ Request(f, a, k, s, n).of = f /\ Request(f, a, k, s, n).by = a
         /\ Request(f, a, k, s, n).kind = k /\ Request(f, a, k, s, n).sid = s
  BY DEF Request, Requests

LEMMA RequestFields ==
  ASSUME NEW r \in Requests
  PROVE  r.of \in Files /\ r.by \in 0 .. MaxAttempts /\ r.kind \in Kinds
         /\ r.sid \in 0 .. MaxAttempts /\ r.at \in Nat
  BY DEF Requests

LEMMA LeastType ==
  ASSUME NEW m \in Nat, NEW n \in Nat
  PROVE  Least(m, n) \in Nat
  BY DEF Least

LEMMA AnswerType ==
  /\ NoReply \in Replies /\ Failure \in Replies /\ Complete \in Replies
  /\ \A n \in Nat : Answer("at", n) \in Replies
  BY DEF NoReply, Failure, Complete, Answer, Replies

LEMMA AnswerKinds ==
  /\ NoReply.is = "none" /\ Failure.is = "failure" /\ Complete.is = "complete"
  /\ \A n \in Nat : Answer("at", n).is = "at"
  BY DEF NoReply, Failure, Complete, Answer

LEMMA ReachType ==
  ASSUME NetTypeOK, NEW r, NEW ans \in Replies, Reach(r, ans)
  PROVE  reply' \in [Files -> Replies]
  BY DEF NetTypeOK, Reach

LEMMA CurrentAttempt ==
  ASSUME IInv, NEW f \in Files, phase[f] # "idle"
  PROVE  attempt[f] \in Attempts
<1>1. attempt[f] \in 0 .. MaxAttempts /\ attempt[f] > 0
  BY DEF IInv, ClientTypeOK, PageTypeOK, AttemptsKnow
<1> QED BY <1>1, ClientAssumption DEF Attempts

LEMMA InitIInv == ClientInit => IInv
<1> SUFFICES ASSUME ClientInit PROVE IInv
  OBVIOUS
<1> USE ClientAssumption DEF ClientInit
<1>1. PageTypeOK
  BY DEF PageTypeOK
<1>2. LocalTypeOK
  BY DEF LocalTypeOK
<1>3. SessionTypeOK
  BY DEF SessionTypeOK
<1>4. FileTypeOK
  BY DEF FileTypeOK
<1>5. NetTypeOK
  BY AnswerType DEF NetTypeOK
<1>6. SessionsAreNamed /\ RequestsAreSpare /\ AttemptsKnow /\ DeliveredAttempts
  BY DEF SessionsAreNamed, RequestsAreSpare, AttemptsKnow, DeliveredAttempts
<1> QED BY <1>1, <1>2, <1>3, <1>4, <1>5, <1>6 DEF IInv, ClientTypeOK

-----------------------------------------------------------------------------
(* Types, and the names of sessions: the steps of the browser. *)

LEMMA TypeBegin ==
  ASSUME IInv, NEW f \in Files, Begin(f)
  PROVE  (ClientTypeOK /\ SessionsAreNamed)'
<1> DEFINE kind == IF Chunks[f] = 1 THEN "post" ELSE IF stored[f] # 0 THEN "ask" ELSE "open"
<1> DEFINE r == Request(f, attempt[f] + 1, kind, stored[f], 0)
<1>1. attempt[f] + 1 \in Attempts /\ attempt[f] + 1 \in 0 .. MaxAttempts /\ stored[f] \in 0 .. MaxAttempts
  BY ClientAssumption DEF Begin, IInv, ClientTypeOK, PageTypeOK, LocalTypeOK, Attempts
<1>2. kind \in {"post", "ask", "open"} /\ (kind = "ask" => stored[f] \in Attempts)
  BY <1>1, ClientAssumption DEF Attempts
<1>3. r \in Requests /\ r.kind = kind /\ r.by = attempt[f] + 1 /\ r.sid = stored[f]
  BY <1>1, <1>2, RequestType DEF Kinds
<1> HIDE DEF kind, r
<1>4. /\ wire' = wire \union {r} /\ phase' = [phase EXCEPT ![f] = kind]
      /\ sid' = [sid EXCEPT ![f] = stored[f]]
      /\ attempt' = [attempt EXCEPT ![f] = @ + 1]
      /\ UNCHANGED <<aborted, told, localVars, reply, sessionVars, fileVars, faults>>
  BY DEF Begin, r, kind
<1>5. PageTypeOK'
  BY <1>1, <1>2, <1>4 DEF IInv, ClientTypeOK, PageTypeOK, Awaited
<1>6. (LocalTypeOK /\ SessionTypeOK /\ FileTypeOK)'
  BY <1>4 DEF IInv, ClientTypeOK, LocalTypeOK, SessionTypeOK, FileTypeOK, localVars, sessionVars, fileVars
<1>7. NetTypeOK'
  BY <1>3, <1>4 DEF IInv, ClientTypeOK, NetTypeOK
<1>8. SessionsAreNamed'
  BY <1>1, <1>2, <1>3, <1>4 DEF IInv, ClientTypeOK, PageTypeOK, SessionsAreNamed
<1> QED BY <1>5, <1>6, <1>7, <1>8 DEF ClientTypeOK

\* What SendChunk does, wherever it is called from.
LEMMA TypeSendChunk ==
  ASSUME IInv, NEW f \in Files, NEW s \in Attempts, NEW n \in Nat, SendChunk(f, s, n),
         phase[f] # "idle", reply' = [reply EXCEPT ![f] = NoReply],
         UNCHANGED <<attempt, aborted, told, faults>>
  PROVE  (PageTypeOK /\ NetTypeOK /\ SessionsAreNamed)'
<1> DEFINE r == Request(f, attempt[f], "patch", s, n)
<1>1. attempt[f] \in Attempts
  BY CurrentAttempt
<1>2. s \in 0 .. MaxAttempts /\ attempt[f] \in 0 .. MaxAttempts
  BY <1>1, ClientAssumption DEF Attempts
<1>3. r \in Requests /\ r.kind = "patch" /\ r.by = attempt[f] /\ r.sid = s
  BY <1>2, RequestType DEF Kinds
<1> HIDE DEF r
<1>4. /\ sid' = [sid EXCEPT ![f] = s]
      /\ \E p \in {"failed", "patch"} : phase' = [phase EXCEPT ![f] = p]
      /\ wire' = wire \/ wire' = wire \union {r}
  BY DEF SendChunk, r
<1>5. PageTypeOK'
  BY <1>2, <1>4 DEF IInv, ClientTypeOK, PageTypeOK, Awaited, Ended
<1>6. NetTypeOK'
  BY <1>3, <1>4, AnswerType DEF IInv, ClientTypeOK, NetTypeOK
<1>7. SessionsAreNamed'
  BY <1>1, <1>3, <1>4 DEF IInv, ClientTypeOK, PageTypeOK, SessionsAreNamed
<1> QED BY <1>5, <1>6, <1>7

LEMMA TypeTakeAsk ==
  ASSUME IInv, NEW f \in Files, TakeAsk(f)
  PROVE  (ClientTypeOK /\ SessionsAreNamed)'
<1>1. phase[f] = "ask" /\ reply' = [reply EXCEPT ![f] = NoReply] /\ UNCHANGED <<attempt, aborted, told, faults>>
  BY DEF TakeAsk
<1>2. UNCHANGED <<listed, visits, sessionVars, fileVars>>
  BY DEF TakeAsk
<1>3. (SessionTypeOK /\ FileTypeOK)'
  BY <1>2 DEF IInv, ClientTypeOK, SessionTypeOK, FileTypeOK, sessionVars, fileVars
<1>4. CASE reply[f] # Failure
  <2>1. SendChunk(f, sid[f], Least(reply[f].at, Chunks[f])) /\ UNCHANGED stored
    BY <1>4 DEF TakeAsk
  <2>2. reply[f] \in Replies /\ Chunks[f] \in Nat
    BY ClientAssumption DEF IInv, ClientTypeOK, NetTypeOK
  <2>3. Least(reply[f].at, Chunks[f]) \in Nat
    BY <2>2, LeastType DEF Replies
  <2>4. sid[f] \in Attempts
    BY <1>1 DEF IInv, SessionsAreNamed
  <2>5. (PageTypeOK /\ NetTypeOK /\ SessionsAreNamed)'
    BY <1>1, <2>1, <2>3, <2>4, TypeSendChunk
  <2>6. LocalTypeOK'
    BY <1>2, <2>1 DEF IInv, ClientTypeOK, LocalTypeOK
  <2> QED BY <1>3, <2>5, <2>6 DEF ClientTypeOK
<1>5. CASE reply[f] = Failure
  <2> DEFINE r == Request(f, attempt[f], "open", 0, 0)
  <2>1. attempt[f] \in Attempts /\ attempt[f] \in 0 .. MaxAttempts /\ 0 \in 0 .. MaxAttempts
    BY <1>1, CurrentAttempt, ClientAssumption DEF Attempts
  <2>2. r \in Requests /\ r.kind = "open" /\ r.by = attempt[f]
    BY <2>1, RequestType DEF Kinds
  <2> HIDE DEF r
  <2>3. /\ stored' = [stored EXCEPT ![f] = 0] /\ phase' = [phase EXCEPT ![f] = "open"]
        /\ wire' = wire \union {r} /\ sid' = sid
    BY <1>5 DEF TakeAsk, r
  <2>4. PageTypeOK'
    BY <1>1, <2>3 DEF IInv, ClientTypeOK, PageTypeOK, Awaited
  <2>5. LocalTypeOK'
    BY <1>2, <2>1, <2>3 DEF IInv, ClientTypeOK, LocalTypeOK
  <2>6. NetTypeOK'
    BY <1>1, <2>2, <2>3, AnswerType DEF IInv, ClientTypeOK, NetTypeOK
  <2>7. SessionsAreNamed'
    BY <2>1, <2>2, <2>3 DEF IInv, ClientTypeOK, PageTypeOK, SessionsAreNamed
  <2> QED BY <1>3, <2>4, <2>5, <2>6, <2>7 DEF ClientTypeOK
<1> QED BY <1>4, <1>5

LEMMA TypeTakeOpen ==
  ASSUME IInv, NEW f \in Files, TakeOpen(f)
  PROVE  (ClientTypeOK /\ SessionsAreNamed)'
<1>1. phase[f] = "open" /\ reply' = [reply EXCEPT ![f] = NoReply] /\ UNCHANGED <<attempt, aborted, told, faults>>
  BY DEF TakeOpen
<1>2. UNCHANGED <<listed, visits, sessionVars, fileVars>>
  BY DEF TakeOpen
<1>3. (SessionTypeOK /\ FileTypeOK)'
  BY <1>2 DEF IInv, ClientTypeOK, SessionTypeOK, FileTypeOK, sessionVars, fileVars
<1>4. CASE reply[f] # Failure
  <2>1. SendChunk(f, attempt[f], 0) /\ stored' = [stored EXCEPT ![f] = attempt[f]]
    BY <1>4 DEF TakeOpen
  <2>2. attempt[f] \in Attempts /\ attempt[f] \in 0 .. MaxAttempts
    BY <1>1, CurrentAttempt, ClientAssumption DEF Attempts
  <2>3. (PageTypeOK /\ NetTypeOK /\ SessionsAreNamed)'
    BY <1>1, <2>1, <2>2, TypeSendChunk
  <2>4. LocalTypeOK'
    BY <1>2, <2>1, <2>2 DEF IInv, ClientTypeOK, LocalTypeOK
  <2> QED BY <1>3, <2>3, <2>4 DEF ClientTypeOK
<1>5. CASE reply[f] = Failure
  <2>1. phase' = [phase EXCEPT ![f] = "failed"] /\ UNCHANGED <<stored, sid, wire>>
    BY <1>5 DEF TakeOpen
  <2>2. PageTypeOK'
    BY <1>1, <2>1 DEF IInv, ClientTypeOK, PageTypeOK, Ended
  <2>3. LocalTypeOK'
    BY <1>2, <2>1 DEF IInv, ClientTypeOK, LocalTypeOK
  <2>4. NetTypeOK'
    BY <1>1, <2>1, AnswerType DEF IInv, ClientTypeOK, NetTypeOK
  <2>5. SessionsAreNamed'
    BY <1>1, <2>1 DEF IInv, ClientTypeOK, PageTypeOK, SessionsAreNamed
  <2> QED BY <1>3, <2>2, <2>3, <2>4, <2>5 DEF ClientTypeOK
<1> QED BY <1>4, <1>5

\* The ways out of the loop, of the single request, and of an abort.
LEMMA TypeSettled ==
  ASSUME IInv, NEW f \in Files, phase[f] # "idle",
         NEW p \in Awaited \union Ended, phase' = [phase EXCEPT ![f] = p],
         p \in {"ask", "patch"} => p = phase[f],
         aborted' \in [Files -> BOOLEAN],
         \E x \in Replies : reply' = [reply EXCEPT ![f] = x],
         UNCHANGED <<attempt, sid, told, wire, faults>>
  PROVE  (PageTypeOK /\ NetTypeOK /\ SessionsAreNamed)'
<1>1. PageTypeOK'
  BY DEF IInv, ClientTypeOK, PageTypeOK
<1>2. NetTypeOK'
  BY DEF IInv, ClientTypeOK, NetTypeOK
<1>3. SessionsAreNamed'
  BY DEF IInv, ClientTypeOK, PageTypeOK, SessionsAreNamed
<1> QED BY <1>1, <1>2, <1>3

LEMMA TypeTakePatch ==
  ASSUME IInv, NEW f \in Files, TakePatch(f)
  PROVE  (ClientTypeOK /\ SessionsAreNamed)'
<1>1. phase[f] = "patch" /\ reply' = [reply EXCEPT ![f] = NoReply] /\ UNCHANGED <<attempt, aborted, told, faults>>
  BY DEF TakePatch
<1>2. UNCHANGED <<listed, visits, sessionVars, fileVars>>
  BY DEF TakePatch
<1>3. (SessionTypeOK /\ FileTypeOK)'
  BY <1>2 DEF IInv, ClientTypeOK, SessionTypeOK, FileTypeOK, sessionVars, fileVars
<1>4. CASE reply[f].is = "at"
  <2>1. SendChunk(f, sid[f], Least(reply[f].at, Chunks[f])) /\ UNCHANGED stored
    BY <1>4, AnswerKinds DEF TakePatch
  <2>2. reply[f] \in Replies /\ Chunks[f] \in Nat
    BY ClientAssumption DEF IInv, ClientTypeOK, NetTypeOK
  <2>3. Least(reply[f].at, Chunks[f]) \in Nat
    BY <2>2, LeastType DEF Replies
  <2>4. sid[f] \in Attempts
    BY <1>1 DEF IInv, SessionsAreNamed
  <2>5. (PageTypeOK /\ NetTypeOK /\ SessionsAreNamed)'
    BY <1>1, <2>1, <2>3, <2>4, TypeSendChunk
  <2>6. LocalTypeOK'
    BY <1>2, <2>1 DEF IInv, ClientTypeOK, LocalTypeOK
  <2> QED BY <1>3, <2>5, <2>6 DEF ClientTypeOK
<1>5. CASE reply[f].is # "at"
  <2>1. /\ stored' = stored \/ stored' = [stored EXCEPT ![f] = 0]
        /\ \E p \in Ended : phase' = [phase EXCEPT ![f] = p]
        /\ UNCHANGED <<sid, wire>>
    BY <1>5 DEF TakePatch, Ended
  <2>2. (PageTypeOK /\ NetTypeOK /\ SessionsAreNamed)'
    BY <1>1, <2>1, TypeSettled, AnswerType DEF IInv, ClientTypeOK, PageTypeOK, Ended
  <2>3. LocalTypeOK'
    BY <1>2, <2>1, ClientAssumption DEF IInv, ClientTypeOK, LocalTypeOK
  <2> QED BY <1>3, <2>2, <2>3 DEF ClientTypeOK
<1> QED BY <1>4, <1>5

LEMMA TypeTakePost ==
  ASSUME IInv, NEW f \in Files, TakePost(f)
  PROVE  (ClientTypeOK /\ SessionsAreNamed)'
<1>1. /\ phase[f] # "idle"
      /\ \E p \in Ended : phase' = [phase EXCEPT ![f] = p]
      /\ \E x \in Replies : reply' = [reply EXCEPT ![f] = x]
      /\ UNCHANGED <<attempt, sid, aborted, told, wire, faults>>
  BY AnswerType DEF TakePost, Ended
<1>2. (PageTypeOK /\ NetTypeOK /\ SessionsAreNamed)'
  BY <1>1, TypeSettled DEF IInv, ClientTypeOK, PageTypeOK, Ended
<1>3. (LocalTypeOK /\ SessionTypeOK /\ FileTypeOK)'
  BY DEF TakePost, IInv, ClientTypeOK, LocalTypeOK, SessionTypeOK, FileTypeOK, localVars, sessionVars, fileVars
<1> QED BY <1>2, <1>3 DEF ClientTypeOK

LEMMA TypeAbort ==
  ASSUME IInv, NEW f \in Files, Abort(f)
  PROVE  (ClientTypeOK /\ SessionsAreNamed)'
<1>1. aborted' \in [Files -> BOOLEAN]
  <2>1. aborted \in [Files -> BOOLEAN] /\ aborted' = [aborted EXCEPT ![f] = TRUE]
    BY DEF Abort, IInv, ClientTypeOK, PageTypeOK
  <2> QED BY <2>1
<1>2. (LocalTypeOK /\ SessionTypeOK /\ FileTypeOK)'
  BY DEF Abort, IInv, ClientTypeOK, LocalTypeOK, SessionTypeOK, FileTypeOK, localVars, sessionVars, fileVars
<1>3. CASE phase[f] \in {"patch", "post"}
  <2>1. phase' = [phase EXCEPT ![f] = "failed"] /\ reply' = [reply EXCEPT ![f] = NoReply]
        /\ UNCHANGED <<attempt, sid, told, wire, faults>>
    BY <1>3 DEF Abort
  <2>2. (PageTypeOK /\ NetTypeOK /\ SessionsAreNamed)'
    BY <1>1, <1>3, <2>1, TypeSettled, AnswerType DEF Ended
  <2> QED BY <1>2, <2>2 DEF ClientTypeOK
<1>4. CASE phase[f] \notin {"patch", "post"}
  <2>1. UNCHANGED <<phase, reply, attempt, sid, told, wire, faults>>
    BY <1>4 DEF Abort
  <2>2. PageTypeOK'
    BY <1>1, <2>1 DEF IInv, ClientTypeOK, PageTypeOK
  <2>3. (NetTypeOK /\ SessionsAreNamed)'
    BY <2>1 DEF IInv, ClientTypeOK, NetTypeOK, SessionsAreNamed
  <2> QED BY <1>2, <2>2, <2>3 DEF ClientTypeOK
<1> QED BY <1>3, <1>4

LEMMA TypeClose ==
  ASSUME IInv, NEW f \in Files, Close(f)
  PROVE  (ClientTypeOK /\ SessionsAreNamed)'
<1>1. (LocalTypeOK /\ SessionTypeOK /\ FileTypeOK /\ NetTypeOK)'
  BY DEF Close, IInv, ClientTypeOK, LocalTypeOK, SessionTypeOK, FileTypeOK, NetTypeOK,
         localVars, sessionVars, fileVars
<1>2. attempt[f] \in Attempts
  BY CurrentAttempt DEF Close, Ended
<1>3. aborted' \in [Files -> BOOLEAN]
  <2>1. aborted \in [Files -> BOOLEAN] /\ aborted' = [aborted EXCEPT ![f] = FALSE]
    BY DEF Close, IInv, ClientTypeOK, PageTypeOK
  <2> QED BY <2>1
<1>4. /\ phase' = [phase EXCEPT ![f] = "idle"] /\ sid' = [sid EXCEPT ![f] = 0] /\ attempt' = attempt
      /\ told' = told \/ told' = [told EXCEPT ![f] = @ \union {attempt[f]}]
      /\ wire' = wire
  BY DEF Close
<1>5. told' \in [Files -> SUBSET Attempts]
  BY <1>2, <1>4 DEF IInv, ClientTypeOK, PageTypeOK
<1>6. PageTypeOK'
  <2>1. phase' \in [Files -> Awaited \union Ended \union {"idle"}]
    BY <1>4 DEF IInv, ClientTypeOK, PageTypeOK
  <2>2. sid' \in [Files -> 0 .. MaxAttempts] /\ attempt' \in [Files -> 0 .. MaxAttempts]
    BY <1>4, ClientAssumption DEF IInv, ClientTypeOK, PageTypeOK
  <2> QED BY <1>3, <1>5, <2>1, <2>2 DEF PageTypeOK
<1>7. SessionsAreNamed'
  BY <1>4 DEF IInv, ClientTypeOK, PageTypeOK, SessionsAreNamed
<1> QED BY <1>1, <1>6, <1>7 DEF ClientTypeOK

LEMMA TypeVisit ==
  ASSUME IInv, Visit
  PROVE  (ClientTypeOK /\ SessionsAreNamed)'
<1> DEFINE new == {Request(f, 0, "look", stored[f], 0) : f \in {g \in Files : stored[g] # 0}}
<1>1. (PageTypeOK /\ SessionTypeOK /\ FileTypeOK)'
  BY DEF Visit, IInv, ClientTypeOK, PageTypeOK, SessionTypeOK, FileTypeOK, pageVars, sessionVars, fileVars
<1>2. LocalTypeOK'
  BY DEF Visit, IInv, ClientTypeOK, LocalTypeOK
<1>3. \A r \in new : r \in Requests /\ r.kind = "look" /\ r.sid \in Attempts
  <2>1. ASSUME NEW f \in Files, stored[f] # 0
        PROVE  /\ Request(f, 0, "look", stored[f], 0) \in Requests
               /\ Request(f, 0, "look", stored[f], 0).kind = "look"
               /\ Request(f, 0, "look", stored[f], 0).sid \in Attempts
    <3>1. stored[f] \in 0 .. MaxAttempts /\ stored[f] \in Attempts /\ 0 \in 0 .. MaxAttempts
      BY <2>1, ClientAssumption DEF IInv, ClientTypeOK, LocalTypeOK, Attempts
    <3> QED BY <3>1, RequestType DEF Kinds
  <2> QED BY <2>1
<1> HIDE DEF new
<1>4. wire' = wire \union new /\ UNCHANGED <<reply, faults, phase, sid>>
  BY DEF Visit, new, pageVars
<1>5. NetTypeOK'
  BY <1>3, <1>4 DEF IInv, ClientTypeOK, NetTypeOK
<1>6. SessionsAreNamed'
  BY <1>3, <1>4 DEF IInv, SessionsAreNamed
<1> QED BY <1>1, <1>2, <1>5, <1>6 DEF ClientTypeOK

LEMMA TypeDiscard ==
  ASSUME IInv, NEW e \in listed, Discard(e)
  PROVE  (ClientTypeOK /\ SessionsAreNamed)'
<1> DEFINE r == Request(e.of, 0, "drop", e.sid, 0)
<1>1. e.of \in Files /\ e.sid \in Attempts /\ e.sid \in 0 .. MaxAttempts /\ 0 \in 0 .. MaxAttempts
  BY ClientAssumption DEF IInv, ClientTypeOK, LocalTypeOK, Attempts
<1>2. r \in Requests /\ r.kind = "drop" /\ r.sid = e.sid
  BY <1>1, RequestType DEF Kinds
<1> HIDE DEF r
<1>3. wire' = wire \union {r} /\ UNCHANGED <<reply, faults, phase, sid>>
  BY DEF Discard, r, pageVars
<1>4. (PageTypeOK /\ SessionTypeOK /\ FileTypeOK)'
  BY DEF Discard, IInv, ClientTypeOK, PageTypeOK, SessionTypeOK, FileTypeOK, pageVars, sessionVars, fileVars
<1>5. LocalTypeOK'
  BY <1>1 DEF Discard, IInv, ClientTypeOK, LocalTypeOK
<1>6. NetTypeOK'
  BY <1>2, <1>3 DEF IInv, ClientTypeOK, NetTypeOK
<1>7. SessionsAreNamed'
  BY <1>1, <1>2, <1>3 DEF IInv, SessionsAreNamed
<1> QED BY <1>4, <1>5, <1>6, <1>7 DEF ClientTypeOK

LEMMA TypeUnlist ==
  ASSUME IInv, NEW e \in listed, Unlist(e)
  PROVE  (ClientTypeOK /\ SessionsAreNamed)'
<1>1. listed' \subseteq listed /\ UNCHANGED <<pageVars, stored, visits, reply, sessionVars, fileVars, wire, faults>>
  BY DEF Unlist
<1>2. (PageTypeOK /\ LocalTypeOK)'
  BY <1>1 DEF IInv, ClientTypeOK, PageTypeOK, LocalTypeOK, pageVars
<1>3. (SessionTypeOK /\ FileTypeOK /\ NetTypeOK)'
  BY <1>1 DEF IInv, ClientTypeOK, SessionTypeOK, FileTypeOK, NetTypeOK, sessionVars, fileVars
<1>4. SessionsAreNamed'
  BY <1>1 DEF IInv, SessionsAreNamed, pageVars
<1> QED BY <1>2, <1>3, <1>4 DEF ClientTypeOK

LEMMA TypeReload ==
  ASSUME IInv, Reload
  PROVE  (ClientTypeOK /\ SessionsAreNamed)'
<1>1. (LocalTypeOK /\ SessionTypeOK /\ FileTypeOK)'
  BY DEF Reload, IInv, ClientTypeOK, LocalTypeOK, SessionTypeOK, FileTypeOK, sessionVars, fileVars
<1>2. PageTypeOK'
  BY ClientAssumption DEF Reload, IInv, ClientTypeOK, PageTypeOK
<1>3. NetTypeOK'
  BY AnswerType DEF Reload, IInv, ClientTypeOK, NetTypeOK
<1>4. SessionsAreNamed'
  BY DEF Reload, IInv, SessionsAreNamed
<1> QED BY <1>1, <1>2, <1>3, <1>4 DEF ClientTypeOK

-----------------------------------------------------------------------------
(* Types, and the names of sessions: the server, the network. *)

LEMMA TypeServed ==
  ASSUME IInv, NEW r \in wire, wire' = wire \ {r}, UNCHANGED pageVars,
         \E x \in Replies : Reach(r, x) \/ UNCHANGED reply,
         faults' \in Nat, LocalTypeOK', SessionTypeOK', FileTypeOK'
  PROVE  (ClientTypeOK /\ SessionsAreNamed)'
<1>1. PageTypeOK'
  BY DEF IInv, ClientTypeOK, PageTypeOK, pageVars
<1>2. reply' \in [Files -> Replies]
  BY ReachType DEF IInv, ClientTypeOK, NetTypeOK
<1>3. NetTypeOK'
  BY <1>2 DEF IInv, ClientTypeOK, NetTypeOK
<1>4. SessionsAreNamed'
  BY DEF IInv, SessionsAreNamed, pageVars
<1> QED BY <1>1, <1>3, <1>4 DEF ClientTypeOK

LEMMA TypeRemove ==
  ASSUME SessionTypeOK, NEW f \in Files, NEW s \in Attempts, RemoveSession(f, s)
  PROVE  SessionTypeOK'
<1>1. received' \in [Files -> [Attempts -> Nat]]
  BY DEF SessionTypeOK, RemoveSession
<1>2. disk' \in [Files -> [Attempts -> Nat]]
  BY DEF SessionTypeOK, RemoveSession
<1>3. isOpen' \in [Files -> [Attempts -> BOOLEAN]]
  <2>1. isOpen \in [Files -> [Attempts -> BOOLEAN]] /\ isOpen' = [isOpen EXCEPT ![f][s] = FALSE]
    BY DEF SessionTypeOK, RemoveSession
  <2> QED BY <2>1
<1> QED BY <1>1, <1>2, <1>3 DEF SessionTypeOK

LEMMA TypeStore ==
  ASSUME IInv, NEW r \in wire, Stores(r), StoreFile(r)
  PROVE  FileTypeOK'
<1>1. r.of \in Files /\ r.by \in Attempts
  BY RequestFields DEF IInv, ClientTypeOK, NetTypeOK, SessionsAreNamed, Stores
<1> QED BY <1>1 DEF IInv, ClientTypeOK, FileTypeOK, StoreFile

LEMMA TypeHandle ==
  ASSUME IInv, NEW r \in wire, Handle(r)
  PROVE  (ClientTypeOK /\ SessionsAreNamed)'
<1>1. r.of \in Files /\ r.at \in Nat /\ r.by \in 0 .. MaxAttempts /\ r.sid \in 0 .. MaxAttempts
  BY RequestFields DEF IInv, ClientTypeOK, NetTypeOK
<1>2. /\ r.kind \in {"ask", "patch", "look", "drop"} => r.sid \in Attempts
      /\ r.kind \in {"post", "patch", "open"} => r.by \in Attempts
  BY DEF IInv, SessionsAreNamed
<1>3. LocalTypeOK /\ SessionTypeOK /\ FileTypeOK /\ NetTypeOK
  BY DEF IInv, ClientTypeOK
<1>4. \A s \in Attempts : received[r.of][s] \in Nat /\ disk[r.of][s] \in Nat
  BY <1>1, <1>3 DEF SessionTypeOK
<1>5. ASSUME NEW kind, Taken(r, kind)
      PROVE  wire' = wire \ {r} /\ UNCHANGED pageVars /\ visits' = visits /\ faults' \in Nat /\ r.kind = kind
  BY <1>3, <1>5 DEF Taken, NetTypeOK
<1>6. ASSUME UNCHANGED <<stored, listed>>, visits' = visits
      PROVE  LocalTypeOK'
  BY <1>3, <1>6 DEF LocalTypeOK
<1>7. ASSUME UNCHANGED fileVars
      PROVE  FileTypeOK'
  BY <1>3, <1>7 DEF FileTypeOK, fileVars
<1>8. ASSUME UNCHANGED isOpen, r.sid \in Attempts, NEW n \in Nat,
             received' = [received EXCEPT ![r.of][r.sid] = n] \/ received' = received, NEW m \in Nat,
             disk' = [disk EXCEPT ![r.of][r.sid] = m] \/ disk' = disk
      PROVE  SessionTypeOK'
  <2>1. received' \in [Files -> [Attempts -> Nat]]
    <3>1. received \in [Files -> [Attempts -> Nat]] /\ r.of \in Files /\ r.sid \in Attempts /\ n \in Nat
      BY <1>1, <1>3, <1>8 DEF SessionTypeOK
    <3>2. CASE received' = received
      BY <3>1, <3>2
    <3>3. CASE received' = [received EXCEPT ![r.of][r.sid] = n]
      BY <3>1, <3>3
    <3> QED BY <1>8, <3>2, <3>3
  <2>2. disk' \in [Files -> [Attempts -> Nat]]
    <3>1. disk \in [Files -> [Attempts -> Nat]] /\ r.of \in Files /\ r.sid \in Attempts /\ m \in Nat
      BY <1>1, <1>3, <1>8 DEF SessionTypeOK
    <3>2. CASE disk' = disk
      BY <3>1, <3>2
    <3>3. CASE disk' = [disk EXCEPT ![r.of][r.sid] = m]
      BY <3>1, <3>3
    <3> QED BY <1>8, <3>2, <3>3
  <2> QED BY <1>3, <1>8, <2>1, <2>2 DEF SessionTypeOK
<1>9. CASE HandleAsk(r)
  <2>1. Taken(r, "ask") /\ UNCHANGED <<disk, isOpen, fileVars, stored, listed>>
    BY <1>9 DEF HandleAsk
  <2>2. r.sid \in Attempts /\ disk[r.of][r.sid] \in Nat
    BY <1>2, <1>4, <1>5, <2>1
  <2>3. /\ Reach(r, Answer("at", disk[r.of][r.sid])) \/ Reach(r, Failure)
        /\ received' = [received EXCEPT ![r.of][r.sid] = disk[r.of][r.sid]] \/ received' = received
    BY <1>9 DEF HandleAsk
  <2>4. \E x \in Replies : Reach(r, x) \/ UNCHANGED reply
    BY <2>2, <2>3, AnswerType
  <2>5. SessionTypeOK'
    BY <1>8, <2>1, <2>2, <2>3
  <2> QED BY <1>5, <1>6, <1>7, <2>1, <2>4, <2>5, TypeServed
<1>10. CASE HandleLook(r)
  <2>1. Taken(r, "look") /\ UNCHANGED <<disk, isOpen, fileVars, reply>>
    BY <1>10 DEF HandleLook
  <2>2. r.sid \in Attempts /\ disk[r.of][r.sid] \in Nat
    BY <1>2, <1>4, <1>5, <2>1
  <2>3. /\ received' = [received EXCEPT ![r.of][r.sid] = disk[r.of][r.sid]] \/ received' = received
        /\ stored' = stored \/ stored' = [stored EXCEPT ![r.of] = 0]
        /\ listed' = listed \/ listed' = listed \union {[of |-> r.of, sid |-> r.sid]}
    BY <1>10 DEF HandleLook
  <2>4. \E x \in Replies : Reach(r, x) \/ UNCHANGED reply
    BY <2>1, AnswerType
  <2>5. SessionTypeOK'
    BY <1>8, <2>1, <2>2, <2>3
  <2>6. LocalTypeOK'
    BY <1>1, <1>3, <1>5, <2>1, <2>2, <2>3, ClientAssumption DEF LocalTypeOK
  <2> QED BY <1>5, <1>7, <2>1, <2>4, <2>5, <2>6, TypeServed
<1>11. CASE HandleOpen(r)
  <2>1. /\ Taken(r, "open") /\ UNCHANGED <<received, disk, fileVars, stored, listed>>
        /\ Reach(r, Answer("at", 0)) /\ isOpen' = [isOpen EXCEPT ![r.of][r.by] = TRUE]
    BY <1>11 DEF HandleOpen
  <2>2. isOpen' \in [Files -> [Attempts -> BOOLEAN]]
    <3>1. isOpen \in [Files -> [Attempts -> BOOLEAN]] /\ r.by \in Attempts
      BY <1>2, <1>3, <1>5, <2>1 DEF SessionTypeOK
    <3> QED BY <1>1, <2>1, <3>1
  <2>3. SessionTypeOK'
    BY <1>3, <2>1, <2>2 DEF SessionTypeOK
  <2>4. \E x \in Replies : Reach(r, x) \/ UNCHANGED reply
    BY <2>1, AnswerType
  <2> QED BY <1>5, <1>6, <1>7, <2>1, <2>3, <2>4, TypeServed
<1>12. CASE HandleDrop(r)
  <2>1. Taken(r, "drop") /\ RemoveSession(r.of, r.sid) /\ UNCHANGED <<fileVars, stored, listed, reply>>
    BY <1>12 DEF HandleDrop
  <2>2. SessionTypeOK'
    BY <1>1, <1>2, <1>3, <1>5, <2>1, TypeRemove
  <2>3. \E x \in Replies : Reach(r, x) \/ UNCHANGED reply
    BY <2>1, AnswerType
  <2> QED BY <1>5, <1>6, <1>7, <2>1, <2>2, <2>3, TypeServed
<1>13. CASE HandlePost(r)
  <2>1. Taken(r, "post") /\ StoreFile(r) /\ Reach(r, Complete) /\ UNCHANGED <<sessionVars, stored, listed>>
    BY <1>13 DEF HandlePost
  <2>2. FileTypeOK'
    BY <1>5, <2>1, TypeStore DEF Stores
  <2>3. SessionTypeOK'
    BY <1>3, <2>1 DEF SessionTypeOK, sessionVars
  <2> QED BY <1>5, <1>6, <2>1, <2>2, <2>3, TypeServed, AnswerType
<1>14. ASSUME Taken(r, "patch")
       PROVE  r.sid \in Attempts /\ NextOffset(r) \in Nat /\ PatchOffset(r) \in Nat /\ disk[r.of][r.sid] \in Nat
  <2>1. r.at + 1 \in Nat /\ Chunks[r.of] \in Nat
    BY <1>1, ClientAssumption
  <2>2. NextOffset(r) \in Nat
    BY <2>1, LeastType DEF NextOffset
  <2> QED BY <1>2, <1>4, <1>5, <1>14, <2>2 DEF PatchOffset
<1>15. CASE PatchUnknown(r)
  <2>1. Taken(r, "patch") /\ Reach(r, Failure) /\ UNCHANGED <<sessionVars, fileVars, stored, listed>>
    BY <1>15 DEF PatchUnknown
  <2>2. SessionTypeOK'
    BY <1>3, <2>1 DEF SessionTypeOK, sessionVars
  <2> QED BY <1>5, <1>6, <1>7, <2>1, <2>2, TypeServed, AnswerType
<1>16. CASE PatchConflict(r)
  <2>1. /\ Taken(r, "patch") /\ UNCHANGED <<disk, isOpen, fileVars, stored, listed>>
        /\ received' = received \/ received' = [received EXCEPT ![r.of][r.sid] = disk[r.of][r.sid]]
        /\ Reach(r, Answer("at", received'[r.of][r.sid]))
    BY <1>16 DEF PatchConflict
  <2>2. SessionTypeOK'
    BY <1>8, <1>14, <2>1
  <2>3. received'[r.of][r.sid] \in Nat
    BY <1>1, <1>14, <2>1, <2>2 DEF SessionTypeOK
  <2>4. \E x \in Replies : Reach(r, x) \/ UNCHANGED reply
    BY <2>1, <2>3, AnswerType
  <2> QED BY <1>5, <1>6, <1>7, <2>1, <2>2, <2>4, TypeServed
<1>17. CASE PatchAppend(r)
  <2>1. Taken(r, "patch") /\ UNCHANGED <<stored, listed>>
    BY <1>17 DEF PatchAppend
  <2>2. CASE NextOffset(r) < Chunks[r.of]
    <3>1. /\ received' = [received EXCEPT ![r.of][r.sid] = NextOffset(r)]
          /\ disk' = [disk EXCEPT ![r.of][r.sid] = NextOffset(r)]
          /\ Reach(r, Answer("at", NextOffset(r)))
          /\ UNCHANGED <<isOpen, fileVars>>
      BY <1>17, <2>2 DEF PatchAppend
    <3>2. SessionTypeOK'
      BY <1>8, <1>14, <2>1, <3>1
    <3>3. \E x \in Replies : Reach(r, x) \/ UNCHANGED reply
      BY <1>14, <2>1, <3>1, AnswerType
    <3> QED BY <1>5, <1>6, <1>7, <2>1, <3>1, <3>2, <3>3, TypeServed
  <2>3. CASE ~(NextOffset(r) < Chunks[r.of])
    <3>1. RemoveSession(r.of, r.sid) /\ StoreFile(r) /\ Reach(r, Complete)
      BY <1>17, <2>3 DEF PatchAppend
    <3>2. SessionTypeOK'
      BY <1>1, <1>3, <1>14, <2>1, <3>1, TypeRemove
    <3>3. FileTypeOK'
      BY <1>5, <2>1, <3>1, TypeStore DEF Stores
    <3> QED BY <1>5, <1>6, <2>1, <3>1, <3>2, <3>3, TypeServed, AnswerType
  <2> QED BY <2>2, <2>3
<1> QED BY <1>9, <1>10, <1>11, <1>12, <1>13, <1>15, <1>16, <1>17 DEF Handle, HandlePatch

LEMMA TypeUpset ==
  ASSUME IInv,
         \/ \E f \in Files : Break(f) \/ \E a \in Attempts : Expire(f, a)
         \/ \E r \in wire : Refuse(r) \/ Vanish(r) \/ FailPatch(r)
  PROVE  (ClientTypeOK /\ SessionsAreNamed)'
<1>1. LocalTypeOK /\ SessionTypeOK /\ FileTypeOK /\ NetTypeOK /\ PageTypeOK
  BY DEF IInv, ClientTypeOK
<1>2. ASSUME Fault PROVE faults' \in Nat
  BY <1>1, <1>2 DEF Fault, NetTypeOK
<1>3. ASSUME NEW f \in Files, Break(f)
      PROVE  (ClientTypeOK /\ SessionsAreNamed)'
  <2>1. /\ Fault /\ reply' = [reply EXCEPT ![f] = Failure]
        /\ UNCHANGED <<pageVars, localVars, sessionVars, fileVars, wire>>
    BY <1>3 DEF Break
  <2>2. NetTypeOK'
    BY <1>1, <1>2, <2>1, AnswerType DEF NetTypeOK
  <2>3. (PageTypeOK /\ LocalTypeOK /\ SessionTypeOK /\ FileTypeOK)'
    BY <1>1, <2>1 DEF PageTypeOK, LocalTypeOK, SessionTypeOK, FileTypeOK, pageVars, localVars, sessionVars, fileVars
  <2>4. SessionsAreNamed'
    BY <2>1 DEF IInv, SessionsAreNamed, pageVars
  <2> QED BY <2>2, <2>3, <2>4 DEF ClientTypeOK
<1>4. ASSUME NEW f \in Files, NEW a \in Attempts, Expire(f, a)
      PROVE  (ClientTypeOK /\ SessionsAreNamed)'
  <2>1. /\ Fault /\ RemoveSession(f, a)
        /\ UNCHANGED <<pageVars, localVars, reply, fileVars, wire>>
    BY <1>4 DEF Expire
  <2>2. SessionTypeOK'
    BY <1>1, <2>1, TypeRemove
  <2>3. NetTypeOK'
    BY <1>1, <1>2, <2>1 DEF NetTypeOK
  <2>4. (PageTypeOK /\ LocalTypeOK /\ FileTypeOK)'
    BY <1>1, <2>1 DEF PageTypeOK, LocalTypeOK, FileTypeOK, pageVars, localVars, fileVars
  <2>5. SessionsAreNamed'
    BY <2>1 DEF IInv, SessionsAreNamed, pageVars
  <2> QED BY <2>2, <2>3, <2>4, <2>5 DEF ClientTypeOK
<1>5. ASSUME NEW r \in wire, Refuse(r)
      PROVE  (ClientTypeOK /\ SessionsAreNamed)'
  <2>1. /\ Fault /\ wire' = wire \ {r} /\ Reach(r, Failure)
        /\ stored' = stored \/ stored' = [stored EXCEPT ![r.of] = 0]
        /\ UNCHANGED <<pageVars, listed, visits, sessionVars, fileVars>>
    BY <1>5 DEF Refuse
  <2>2. LocalTypeOK'
    BY <1>1, <2>1, ClientAssumption DEF LocalTypeOK
  <2>3. (SessionTypeOK /\ FileTypeOK)'
    BY <1>1, <2>1 DEF SessionTypeOK, FileTypeOK, sessionVars, fileVars
  <2> QED BY <1>2, <2>1, <2>2, <2>3, TypeServed, AnswerType
<1>6. ASSUME NEW r \in wire, Vanish(r)
      PROVE  (ClientTypeOK /\ SessionsAreNamed)'
  <2>1. wire' = wire \ {r} /\ UNCHANGED <<pageVars, localVars, reply, sessionVars, fileVars, faults>>
    BY <1>6 DEF Vanish
  <2>2. (LocalTypeOK /\ SessionTypeOK /\ FileTypeOK)' /\ faults' \in Nat
    BY <1>1, <2>1 DEF LocalTypeOK, SessionTypeOK, FileTypeOK, NetTypeOK, localVars, sessionVars, fileVars
  <2>3. UNCHANGED pageVars /\ UNCHANGED reply
    BY <2>1
  <2> QED BY <2>1, <2>2, <2>3, TypeServed, AnswerType
<1>7. ASSUME NEW r \in wire, FailPatch(r)
      PROVE  (ClientTypeOK /\ SessionsAreNamed)'
  <2>1. /\ Fault /\ wire' = wire \ {r} /\ Reach(r, Failure) /\ r.kind = "patch"
        /\ UNCHANGED <<pageVars, localVars, fileVars>>
    BY <1>7 DEF FailPatch
  <2>2. r.of \in Files /\ r.sid \in Attempts /\ r.at \in Nat
    BY <1>1, <2>1, RequestFields DEF IInv, NetTypeOK, SessionsAreNamed
  <2>3. NextOffset(r) \in Nat
    <3>1. r.at + 1 \in Nat /\ Chunks[r.of] \in Nat
      BY <2>2, ClientAssumption
    <3> QED BY <3>1, LeastType DEF NextOffset
  <2>4. \/ \E m \in Nat : disk' = [disk EXCEPT ![r.of][r.sid] = m] /\ UNCHANGED <<received, isOpen>>
        \/ \E m, n \in Nat : /\ received' = [received EXCEPT ![r.of][r.sid] = n]
                             /\ disk' = [disk EXCEPT ![r.of][r.sid] = m]
                             /\ UNCHANGED isOpen
        \/ RemoveSession(r.of, r.sid)
    BY <1>7, <2>3 DEF FailPatch
  <2>5. SessionTypeOK'
    <3>1. CASE RemoveSession(r.of, r.sid)
      BY <1>1, <2>2, <3>1, TypeRemove
    <3>2. CASE \E m \in Nat : disk' = [disk EXCEPT ![r.of][r.sid] = m] /\ UNCHANGED <<received, isOpen>>
      BY <1>1, <2>2, <3>2 DEF SessionTypeOK
    <3>3. CASE \E m, n \in Nat : /\ received' = [received EXCEPT ![r.of][r.sid] = n]
                                 /\ disk' = [disk EXCEPT ![r.of][r.sid] = m]
                                 /\ UNCHANGED isOpen
      BY <1>1, <2>2, <3>3 DEF SessionTypeOK
    <3> QED BY <2>4, <3>1, <3>2, <3>3
  <2>6. (LocalTypeOK /\ FileTypeOK)'
    BY <1>1, <2>1 DEF LocalTypeOK, FileTypeOK, localVars, fileVars
  <2>7. UNCHANGED pageVars
    BY <2>1
  <2> QED BY <1>2, <2>1, <2>5, <2>6, <2>7, TypeServed, AnswerType
<1> QED BY <1>3, <1>4, <1>5, <1>6, <1>7

LEMMA TypeStep ==
  IInv /\ [ClientNext]_clientVars => (ClientTypeOK /\ SessionsAreNamed)'
<1> SUFFICES ASSUME IInv, [ClientNext]_clientVars
             PROVE  (ClientTypeOK /\ SessionsAreNamed)'
  OBVIOUS
<1>1. CASE \E f \in Files : Begin(f) \/ Abort(f) \/ Close(f)
  BY <1>1, TypeBegin, TypeAbort, TypeClose
<1>2. CASE Visit \/ Reload \/ \E e \in listed : Discard(e) \/ Unlist(e)
  BY <1>2, TypeVisit, TypeReload, TypeDiscard, TypeUnlist
<1>3. CASE \E f \in Files : TakeReply(f)
  BY <1>3, TypeTakeAsk, TypeTakeOpen, TypeTakePatch, TypeTakePost DEF TakeReply
<1>4. CASE \E r \in wire : Handle(r)
  BY <1>4, TypeHandle
<1>5. CASE \/ \E f \in Files : Break(f) \/ \E a \in Attempts : Expire(f, a)
           \/ \E r \in wire : Refuse(r) \/ Vanish(r) \/ FailPatch(r)
  BY <1>5, TypeUpset
<1>6. CASE UNCHANGED clientVars
  <2>1. UNCHANGED <<pageVars, localVars, reply, sessionVars, fileVars, wire, faults>>
    BY <1>6 DEF clientVars
  <2>2. (PageTypeOK /\ LocalTypeOK)'
    BY <2>1 DEF IInv, ClientTypeOK, PageTypeOK, LocalTypeOK, pageVars, localVars
  <2>3. (SessionTypeOK /\ FileTypeOK /\ NetTypeOK)'
    BY <2>1 DEF IInv, ClientTypeOK, SessionTypeOK, FileTypeOK, NetTypeOK, sessionVars, fileVars
  <2>4. SessionsAreNamed'
    BY <2>1 DEF IInv, SessionsAreNamed, pageVars
  <2> QED BY <2>2, <2>3, <2>4 DEF ClientTypeOK
<1> QED BY <1>1, <1>2, <1>3, <1>4, <1>5, <1>6 DEF ClientNext, Event

-----------------------------------------------------------------------------
(* What attempts know, and that storing requests stay spare. *)

\* Steps that send no storing request, and leave an attempt as it was, end it,
\* or let it go on with nothing stored.
LEMMA KnowQuiet ==
  ASSUME IInv, UNCHANGED <<attempt, delivered>>, \A r \in wire' : Stores(r) => r \in wire,
         \A f \in Files :
           \/ phase'[f] = phase[f] /\ reply'[f] \in {reply[f], NoReply}
           \/ phase'[f] = phase[f] /\ phase[f] \in Awaited /\ reply'[f] = Failure
           \/ phase'[f] = "open" /\ phase[f] = "ask"
           \/ phase'[f] = "idle" /\ reply'[f] = NoReply
           \/ phase'[f] = "failed" /\ phase[f] # "idle" /\ reply'[f] = NoReply
           \/ /\ phase'[f] = "succeeded" /\ phase[f] # "idle" /\ reply'[f] = NoReply
              /\ attempt[f] \in delivered[f]
  PROVE  (RequestsAreSpare /\ AttemptsKnow /\ DeliveredAttempts)'
<1>1. RequestsAreSpare'
  BY DEF IInv, RequestsAreSpare
<1>2. \A f \in Files, a \in Nat : Unspent(f, a) => Unspent(f, a)'
  BY DEF Unspent
<1>3. \A f \in Files : attempt[f] \in Nat
  BY DEF IInv, ClientTypeOK, PageTypeOK
<1>4. AttemptsKnow'
  <2> SUFFICES ASSUME NEW f \in Files
               PROVE  /\ phase'[f] \in {"ask", "open"} => Unspent(f, attempt[f])'
                      /\ phase'[f] = "patch" /\ reply'[f].is = "at" => Unspent(f, attempt[f])'
                      /\ phase'[f] \in {"patch", "post"} /\ reply'[f] = Complete => attempt'[f] \in delivered'[f]
                      /\ phase'[f] = "succeeded" => attempt'[f] \in delivered'[f]
                      /\ phase'[f] # "idle" => attempt'[f] > 0
                      /\ phase'[f] \notin Awaited => reply'[f] = NoReply
    BY DEF AttemptsKnow
  <2>1. /\ phase[f] \in {"ask", "open"} => Unspent(f, attempt[f])
        /\ phase[f] = "patch" /\ reply[f].is = "at" => Unspent(f, attempt[f])
        /\ phase[f] \in {"patch", "post"} /\ reply[f] = Complete => attempt[f] \in delivered[f]
        /\ phase[f] = "succeeded" => attempt[f] \in delivered[f]
        /\ phase[f] # "idle" => attempt[f] > 0
        /\ phase[f] \notin Awaited => reply[f] = NoReply
    BY DEF IInv, AttemptsKnow
  <2>2. Unspent(f, attempt[f]) => Unspent(f, attempt[f])'
    BY <1>2, <1>3 DEF Unspent
  <2> QED BY <2>1, <2>2, AnswerKinds DEF Awaited
<1>5. DeliveredAttempts'
  BY DEF IInv, DeliveredAttempts
<1> QED BY <1>1, <1>4, <1>5

\* A request is answered and nothing is stored.
LEMMA KnowServed ==
  ASSUME IInv, NEW r \in wire, wire' = wire \ {r}, UNCHANGED <<attempt, phase, delivered>>,
         NEW x \in Replies, x # Complete, Reach(r, x)
  PROVE  (RequestsAreSpare /\ AttemptsKnow /\ DeliveredAttempts)'
<1>1. CASE Waiting(r) /\ r.kind = "patch" /\ x.is = "at"
  <2>1. r.of \in Files /\ r.by = attempt[r.of] /\ phase[r.of] = "patch"
    BY <1>1, RequestFields DEF Waiting, IInv, ClientTypeOK, NetTypeOK
  <2>2. Unspent(r.of, attempt[r.of])'
    BY <1>1, <2>1 DEF IInv, RequestsAreSpare, Stores, Unspent
  <2>3. \A f \in Files : Unspent(f, attempt[f]) => Unspent(f, attempt[f])'
    BY DEF Unspent
  <2>4. reply' = [reply EXCEPT ![r.of] = x] /\ reply \in [Files -> Replies]
    BY <1>1 DEF Reach, IInv, ClientTypeOK, NetTypeOK
  <2>5. AttemptsKnow'
    BY <1>1, <2>1, <2>2, <2>3, <2>4, AnswerKinds DEF IInv, AttemptsKnow, Awaited
  <2>6. RequestsAreSpare' /\ DeliveredAttempts'
    BY DEF IInv, RequestsAreSpare, DeliveredAttempts
  <2> QED BY <2>5, <2>6
<1>2. CASE Waiting(r) /\ ~(r.kind = "patch" /\ x.is = "at")
  <2>1. r.of \in Files /\ phase[r.of] = r.kind /\ r.kind \in Kinds
    BY <1>2, RequestFields DEF Waiting, IInv, ClientTypeOK, NetTypeOK
  <2>2. phase[r.of] \in Awaited
    BY <2>1 DEF IInv, ClientTypeOK, PageTypeOK, Kinds, Awaited, Ended
  <2>3. \A f \in Files : Unspent(f, attempt[f]) => Unspent(f, attempt[f])'
    BY DEF Unspent
  <2>4. reply' = [reply EXCEPT ![r.of] = x] /\ reply \in [Files -> Replies]
    BY <1>2 DEF Reach, IInv, ClientTypeOK, NetTypeOK
  <2>5. AttemptsKnow'
    BY <1>2, <2>1, <2>2, <2>3, <2>4 DEF IInv, AttemptsKnow
  <2>6. RequestsAreSpare' /\ DeliveredAttempts'
    BY DEF IInv, RequestsAreSpare, DeliveredAttempts
  <2> QED BY <2>5, <2>6
<1>3. CASE ~Waiting(r)
  <2>1. reply' = reply
    BY <1>3 DEF Reach
  <2> QED BY <2>1, KnowQuiet
<1> QED BY <1>1, <1>2, <1>3

\* A storing request stores its file.
LEMMA KnowStored ==
  ASSUME IInv, NEW r \in wire, Stores(r), wire' = wire \ {r}, UNCHANGED <<attempt, phase>>,
         StoreFile(r), Reach(r, Complete)
  PROVE  (RequestsAreSpare /\ AttemptsKnow /\ DeliveredAttempts)'
<1>1. /\ r.of \in Files /\ r.by \in 1 .. attempt[r.of] /\ r.by \notin delivered[r.of]
      /\ \A q \in wire : Stores(q) /\ q.of = r.of /\ q.by = r.by => q = r
  BY RequestFields DEF IInv, ClientTypeOK, NetTypeOK, RequestsAreSpare
<1>2. delivered' = [delivered EXCEPT ![r.of] = @ \union {r.by}] /\ delivered \in [Files -> SUBSET Attempts]
  BY DEF StoreFile, IInv, ClientTypeOK, FileTypeOK
<1>3. \A q \in wire' : q.of \in Files /\ q \in wire
  BY RequestFields DEF IInv, ClientTypeOK, NetTypeOK
<1>4. RequestsAreSpare'
  BY <1>1, <1>2, <1>3 DEF IInv, RequestsAreSpare
<1>5. DeliveredAttempts'
  BY <1>1, <1>2 DEF IInv, DeliveredAttempts
<1>6. \A f \in Files : Unspent(f, attempt[f]) => Unspent(f, attempt[f])'
  BY <1>1, <1>2 DEF Unspent
<1>7. \A f \in Files : delivered[f] \subseteq delivered'[f]
  BY <1>1, <1>2
<1>8. AttemptsKnow'
  <2>1. CASE Waiting(r)
    <3>1. reply' = [reply EXCEPT ![r.of] = Complete] /\ reply \in [Files -> Replies]
      BY <2>1 DEF Reach, IInv, ClientTypeOK, NetTypeOK
    <3>2. phase[r.of] \in {"post", "patch"} /\ attempt[r.of] \in delivered'[r.of]
      BY <1>1, <1>2, <2>1 DEF Waiting, Stores
    <3> QED BY <1>1, <1>6, <1>7, <3>1, <3>2, AnswerKinds DEF IInv, AttemptsKnow, Awaited
  <2>2. CASE ~Waiting(r)
    <3>1. reply' = reply
      BY <2>2 DEF Reach
    <3> QED BY <1>6, <1>7, <3>1 DEF IInv, AttemptsKnow
  <2> QED BY <2>1, <2>2
<1> QED BY <1>4, <1>5, <1>8

\* An attempt that has stored nothing sends its next chunk.
LEMMA KnowSendChunk ==
  ASSUME IInv, NEW f \in Files, NEW s \in Attempts, NEW n \in Nat, SendChunk(f, s, n),
         phase[f] # "idle", Unspent(f, attempt[f]), reply' = [reply EXCEPT ![f] = NoReply],
         UNCHANGED <<attempt, delivered>>
  PROVE  (RequestsAreSpare /\ AttemptsKnow /\ DeliveredAttempts)'
<1> DEFINE r == Request(f, attempt[f], "patch", s, n)
<1>1. attempt[f] \in Attempts /\ attempt[f] \in 0 .. MaxAttempts /\ s \in 0 .. MaxAttempts
      /\ attempt[f] \in 1 .. attempt[f]
  BY CurrentAttempt, ClientAssumption DEF Attempts
<1>2. r \in Requests /\ r.of = f /\ r.by = attempt[f]
  BY <1>1, RequestType DEF Kinds
<1> HIDE DEF r
<1>3. /\ phase \in [Files -> Awaited \union Ended \union {"idle"}] /\ reply \in [Files -> Replies]
      /\ reply'[f] = NoReply /\ \A g \in Files \ {f} : reply'[g] = reply[g]
  BY DEF IInv, ClientTypeOK, PageTypeOK, NetTypeOK
<1>4. CASE aborted[f]
  <2>1. phase' = [phase EXCEPT ![f] = "failed"] /\ wire' = wire
    BY <1>4 DEF SendChunk
  <2> QED BY <1>3, <2>1, KnowQuiet
<1>5. CASE ~aborted[f]
  <2>1. phase' = [phase EXCEPT ![f] = "patch"] /\ wire' = wire \union {r}
    BY <1>5 DEF SendChunk, r
  <2>2. RequestsAreSpare'
    BY <1>1, <1>2, <2>1 DEF IInv, RequestsAreSpare, Unspent
  <2>3. \A g \in Files \ {f} : Unspent(g, attempt[g]) => Unspent(g, attempt[g])'
    BY <1>2, <2>1 DEF Unspent
  <2>4. AttemptsKnow'
    BY <1>1, <1>3, <2>1, <2>3, AnswerKinds DEF IInv, AttemptsKnow, Awaited
  <2>5. DeliveredAttempts'
    BY DEF IInv, DeliveredAttempts
  <2> QED BY <2>2, <2>4, <2>5
<1> QED BY <1>4, <1>5

LEMMA KnowBegin ==
  ASSUME IInv, NEW f \in Files, Begin(f)
  PROVE  (RequestsAreSpare /\ AttemptsKnow /\ DeliveredAttempts)'
<1> DEFINE kind == IF Chunks[f] = 1 THEN "post" ELSE IF stored[f] # 0 THEN "ask" ELSE "open"
<1> DEFINE r == Request(f, attempt[f] + 1, kind, stored[f], 0)
<1> DEFINE a == attempt[f] + 1
<1>1. a \in 0 .. MaxAttempts /\ a \in 1 .. a /\ a > 0 /\ attempt[f] \in Nat /\ stored[f] \in 0 .. MaxAttempts
  BY ClientAssumption DEF Begin, IInv, ClientTypeOK, PageTypeOK, LocalTypeOK
<1>2. kind \in {"post", "ask", "open"} /\ kind \in Kinds
  BY DEF Kinds
<1>3. r.of = f /\ r.by = a /\ r.kind = kind
  BY <1>1, <1>2, RequestType
<1>4. phase[f] = "idle" /\ reply[f] = NoReply
  BY DEF Begin, IInv, AttemptsKnow, Awaited
<1>5. /\ wire' = wire \union {r} /\ phase' = [phase EXCEPT ![f] = kind]
      /\ attempt' = [attempt EXCEPT ![f] = a] /\ UNCHANGED <<reply, delivered>>
  BY DEF Begin, fileVars
<1> HIDE DEF kind, r
<1>6. /\ phase \in [Files -> Awaited \union Ended \union {"idle"}] /\ attempt \in [Files -> 0 .. MaxAttempts]
      /\ \A q \in wire : q.of \in Files
  BY RequestFields DEF IInv, ClientTypeOK, PageTypeOK, NetTypeOK
<1>7. a \notin delivered[f] /\ \A q \in wire : Stores(q) /\ q.of = f => q.by # a
  BY <1>1 DEF IInv, DeliveredAttempts, RequestsAreSpare
<1>8. \A q \in wire : Stores(q) => q.by \in 1 .. attempt'[q.of]
  BY <1>5, <1>6 DEF IInv, RequestsAreSpare
<1> HIDE DEF a
<1>9. RequestsAreSpare'
  <2> SUFFICES ASSUME NEW q \in wire', Stores(q)
               PROVE  /\ q.by \in 1 .. attempt'[q.of] /\ q.by \notin delivered'[q.of]
                      /\ \A p \in wire' : Stores(p) /\ p.of = q.of /\ p.by = q.by => p = q
    BY DEF RequestsAreSpare
  <2>1. CASE q \in wire
    BY <1>3, <1>5, <1>7, <1>8, <2>1 DEF IInv, RequestsAreSpare
  <2>2. CASE q = r
    <3>1. q.of = f /\ q.by = a /\ attempt'[f] = a
      BY <1>3, <1>5, <1>6, <2>2
    <3> QED BY <1>1, <1>3, <1>5, <1>7, <2>2, <3>1
  <2> QED BY <1>5, <2>1, <2>2
<1>10. AttemptsKnow'
  <2> SUFFICES ASSUME NEW g \in Files
               PROVE  /\ phase'[g] \in {"ask", "open"} => Unspent(g, attempt[g])'
                      /\ phase'[g] = "patch" /\ reply'[g].is = "at" => Unspent(g, attempt[g])'
                      /\ phase'[g] \in {"patch", "post"} /\ reply'[g] = Complete => attempt'[g] \in delivered'[g]
                      /\ phase'[g] = "succeeded" => attempt'[g] \in delivered'[g]
                      /\ phase'[g] # "idle" => attempt'[g] > 0
                      /\ phase'[g] \notin Awaited => reply'[g] = NoReply
    BY DEF AttemptsKnow
  <2>1. CASE g = f
    <3>1. phase'[g] = kind /\ reply'[g] = NoReply /\ attempt'[g] > 0
      BY <1>1, <1>4, <1>5, <1>6, <2>1
    <3>2. kind \in {"ask", "open"} => Unspent(g, attempt[g])'
      BY <1>3, <1>5, <1>6, <1>7, <2>1 DEF Unspent, Stores
    <3> QED BY <1>2, <3>1, <3>2, AnswerKinds DEF Awaited
  <2>2. CASE g # f
    <3>1. phase'[g] = phase[g] /\ reply'[g] = reply[g] /\ attempt'[g] = attempt[g] /\ delivered'[g] = delivered[g]
      BY <1>5, <1>6, <2>2
    <3>2. Unspent(g, attempt[g]) => Unspent(g, attempt[g])'
      BY <1>3, <1>5, <2>2, <3>1 DEF Unspent
    <3> QED BY <3>1, <3>2 DEF IInv, AttemptsKnow
  <2> QED BY <2>1, <2>2
<1>11. DeliveredAttempts'
  BY <1>1, <1>5, <1>6 DEF IInv, DeliveredAttempts, a
<1> QED BY <1>9, <1>10, <1>11

LEMMA KnowTakeReply ==
  ASSUME IInv, NEW f \in Files, TakeReply(f)
  PROVE  (RequestsAreSpare /\ AttemptsKnow /\ DeliveredAttempts)'
<1>1. /\ phase \in [Files -> Awaited \union Ended \union {"idle"}] /\ reply \in [Files -> Replies]
      /\ attempt[f] \in 0 .. MaxAttempts /\ Chunks[f] \in Nat
  BY ClientAssumption DEF IInv, ClientTypeOK, PageTypeOK, NetTypeOK
<1>2. reply' = [reply EXCEPT ![f] = NoReply] /\ UNCHANGED <<attempt, delivered>>
  BY DEF TakeReply, TakeAsk, TakeOpen, TakePatch, TakePost, fileVars
<1>3. reply'[f] = NoReply /\ \A g \in Files \ {f} : reply'[g] = reply[g]
  BY <1>1, <1>2
<1>4. CASE TakeAsk(f)
  <2>1. phase[f] = "ask" /\ sid[f] \in Attempts /\ Unspent(f, attempt[f])
    BY <1>4 DEF TakeAsk, IInv, SessionsAreNamed, AttemptsKnow
  <2>2. CASE reply[f] # Failure
    <3>1. SendChunk(f, sid[f], Least(reply[f].at, Chunks[f]))
      BY <1>4, <2>2 DEF TakeAsk
    <3>2. reply[f].at \in Nat
      BY <1>1 DEF Replies
    <3>3. Least(reply[f].at, Chunks[f]) \in Nat
      BY <1>1, <3>2, LeastType
    <3> QED BY <1>2, <2>1, <3>1, <3>3, KnowSendChunk
  <2>3. CASE reply[f] = Failure
    <3> DEFINE r == Request(f, attempt[f], "open", 0, 0)
    <3>1. ~Stores(r)
      BY DEF Stores, Request
    <3> HIDE DEF r
    <3>2. phase' = [phase EXCEPT ![f] = "open"] /\ wire' = wire \union {r}
      BY <1>4, <2>3 DEF TakeAsk, r
    <3> QED BY <1>1, <1>2, <1>3, <2>1, <3>1, <3>2, KnowQuiet
  <2> QED BY <2>2, <2>3
<1>5. CASE TakeOpen(f)
  <2>1. phase[f] = "open" /\ attempt[f] \in Attempts /\ Unspent(f, attempt[f])
    BY <1>5, CurrentAttempt DEF TakeOpen, IInv, AttemptsKnow
  <2>2. CASE reply[f] # Failure
    BY <1>2, <1>5, <2>1, <2>2, KnowSendChunk DEF TakeOpen
  <2>3. CASE reply[f] = Failure
    <3>1. phase' = [phase EXCEPT ![f] = "failed"] /\ wire' = wire
      BY <1>5, <2>3 DEF TakeOpen
    <3> QED BY <1>1, <1>2, <1>3, <2>1, <3>1, KnowQuiet
  <2> QED BY <2>2, <2>3
<1>6. CASE TakePatch(f)
  <2>1. phase[f] = "patch" /\ sid[f] \in Attempts
    BY <1>6 DEF TakePatch, IInv, SessionsAreNamed
  <2>2. CASE reply[f].is = "at"
    <3>1. SendChunk(f, sid[f], Least(reply[f].at, Chunks[f]))
      BY <1>6, <2>2, AnswerKinds DEF TakePatch
    <3>2. Unspent(f, attempt[f])
      BY <2>1, <2>2 DEF IInv, AttemptsKnow
    <3>3. reply[f].at \in Nat
      BY <1>1 DEF Replies
    <3>4. Least(reply[f].at, Chunks[f]) \in Nat
      BY <1>1, <3>3, LeastType
    <3> QED BY <1>2, <2>1, <3>1, <3>2, <3>4, KnowSendChunk
  <2>3. CASE reply[f] = Complete /\ reply[f].is # "at"
    <3>1. phase' = [phase EXCEPT ![f] = "succeeded"] /\ wire' = wire
      BY <1>6, <2>3, AnswerKinds DEF TakePatch
    <3>2. attempt[f] \in delivered[f]
      BY <2>1, <2>3 DEF IInv, AttemptsKnow
    <3> QED BY <1>1, <1>2, <1>3, <2>1, <3>1, <3>2, KnowQuiet
  <2>4. CASE reply[f] # Complete /\ reply[f].is # "at"
    <3>1. phase' = [phase EXCEPT ![f] = "failed"] /\ wire' = wire
      BY <1>6, <2>4 DEF TakePatch
    <3> QED BY <1>1, <1>2, <1>3, <2>1, <3>1, KnowQuiet
  <2> QED BY <2>2, <2>3, <2>4
<1>7. CASE TakePost(f)
  <2>1. phase[f] = "post" /\ wire' = wire
        /\ phase' = [phase EXCEPT ![f] = IF reply[f] = Complete THEN "succeeded" ELSE "failed"]
    BY <1>7 DEF TakePost
  <2>2. reply[f] = Complete => attempt[f] \in delivered[f]
    BY <2>1 DEF IInv, AttemptsKnow
  <2> QED BY <1>1, <1>2, <1>3, <2>1, <2>2, KnowQuiet
<1> QED BY <1>4, <1>5, <1>6, <1>7 DEF TakeReply

LEMMA KnowPage ==
  ASSUME IInv,
         \/ \E f \in Files : Abort(f) \/ Close(f) \/ Break(f)
         \/ Visit \/ Reload \/ \E e \in listed : Discard(e) \/ Unlist(e)
  PROVE  (RequestsAreSpare /\ AttemptsKnow /\ DeliveredAttempts)'
<1>1. phase \in [Files -> Awaited \union Ended \union {"idle"}] /\ reply \in [Files -> Replies]
  BY DEF IInv, ClientTypeOK, PageTypeOK, NetTypeOK
<1>2. \A f \in Files : phase[f] \notin Awaited => reply[f] = NoReply
  BY DEF IInv, AttemptsKnow
<1>3. ASSUME NEW f \in Files, Abort(f)
      PROVE  (RequestsAreSpare /\ AttemptsKnow /\ DeliveredAttempts)'
  <2>1. UNCHANGED <<attempt, delivered, wire>>
    BY <1>3 DEF Abort, fileVars
  <2>2. \/ /\ phase[f] # "idle" /\ phase' = [phase EXCEPT ![f] = "failed"]
           /\ reply' = [reply EXCEPT ![f] = NoReply]
        \/ UNCHANGED <<phase, reply>>
    BY <1>3 DEF Abort, Awaited
  <2> QED BY <1>1, <2>1, <2>2, KnowQuiet
<1>4. ASSUME NEW f \in Files, Close(f)
      PROVE  (RequestsAreSpare /\ AttemptsKnow /\ DeliveredAttempts)'
  <2>1. UNCHANGED <<attempt, delivered, wire, reply>> /\ phase' = [phase EXCEPT ![f] = "idle"]
    BY <1>4 DEF Close, fileVars
  <2>2. reply[f] = NoReply
    BY <1>2, <1>4 DEF Close, Ended, Awaited
  <2> QED BY <1>1, <2>1, <2>2, KnowQuiet
<1>5. ASSUME NEW f \in Files, Break(f)
      PROVE  (RequestsAreSpare /\ AttemptsKnow /\ DeliveredAttempts)'
  <2>1. /\ UNCHANGED <<attempt, phase, delivered, wire>> /\ phase[f] \in Awaited
        /\ reply' = [reply EXCEPT ![f] = Failure]
    BY <1>5 DEF Break, pageVars, fileVars
  <2> QED BY <1>1, <2>1, KnowQuiet
<1>6. CASE Visit
  <2> DEFINE new == {Request(f, 0, "look", stored[f], 0) : f \in {g \in Files : stored[g] # 0}}
  <2>1. \A r \in new : ~Stores(r)
    BY DEF Stores, Request
  <2> HIDE DEF new
  <2>2. UNCHANGED <<attempt, phase, delivered, reply>> /\ wire' = wire \union new
    BY <1>6 DEF Visit, pageVars, fileVars, new
  <2> QED BY <2>1, <2>2, KnowQuiet
<1>7. CASE Reload
  <2>1. /\ UNCHANGED <<attempt, delivered>> /\ wire' \subseteq wire
        /\ \A f \in Files : phase'[f] = "idle" /\ reply'[f] = NoReply
    BY <1>7 DEF Reload, fileVars
  <2> QED BY <2>1, KnowQuiet
<1>8. ASSUME NEW e \in listed, Discard(e)
      PROVE  (RequestsAreSpare /\ AttemptsKnow /\ DeliveredAttempts)'
  <2> DEFINE r == Request(e.of, 0, "drop", e.sid, 0)
  <2>1. ~Stores(r)
    BY DEF Stores, Request
  <2> HIDE DEF r
  <2>2. UNCHANGED <<attempt, phase, delivered, reply>> /\ wire' = wire \union {r}
    BY <1>8 DEF Discard, pageVars, fileVars, r
  <2> QED BY <2>1, <2>2, KnowQuiet
<1>9. ASSUME NEW e \in listed, Unlist(e)
      PROVE  (RequestsAreSpare /\ AttemptsKnow /\ DeliveredAttempts)'
  <2>1. UNCHANGED <<attempt, phase, delivered, reply, wire>>
    BY <1>9 DEF Unlist, pageVars, fileVars
  <2> QED BY <2>1, KnowQuiet
<1> QED BY <1>3, <1>4, <1>5, <1>6, <1>7, <1>8, <1>9

LEMMA KnowServer ==
  ASSUME IInv,
         \/ \E r \in wire : Handle(r) \/ Refuse(r) \/ Vanish(r) \/ FailPatch(r)
         \/ \E f \in Files, a \in Attempts : Expire(f, a)
  PROVE  (RequestsAreSpare /\ AttemptsKnow /\ DeliveredAttempts)'
<1>1. CASE \E f \in Files, a \in Attempts : Expire(f, a)
  <2>1. UNCHANGED <<attempt, phase, delivered, reply, wire>>
    BY <1>1 DEF Expire, pageVars, fileVars
  <2> QED BY <2>1, KnowQuiet
<1>2. ASSUME NEW r \in wire, Handle(r) \/ Refuse(r) \/ Vanish(r) \/ FailPatch(r)
      PROVE  (RequestsAreSpare /\ AttemptsKnow /\ DeliveredAttempts)'
  <2>1. wire' = wire \ {r} /\ UNCHANGED <<attempt, phase>>
    BY <1>2 DEF Handle, HandleAsk, HandleLook, HandleOpen, HandleDrop, HandlePost, HandlePatch,
                PatchUnknown, PatchConflict, PatchAppend, Taken, Refuse, Vanish, FailPatch, pageVars
  <2>2. CASE StoreFile(r) /\ Stores(r) /\ Reach(r, Complete)
    BY <2>1, <2>2, KnowStored
  <2>3. CASE UNCHANGED <<delivered, reply>>
    BY <2>1, <2>3, KnowQuiet
  <2>4. CASE /\ UNCHANGED delivered
             /\ \E x \in Replies : x # Complete /\ Reach(r, x)
    BY <2>1, <2>4, KnowServed
  <2>5. Failure \in Replies /\ Failure # Complete /\ \A n \in Nat : Answer("at", n) \in Replies /\ Answer("at", n) # Complete
    BY AnswerType, AnswerKinds
  <2>6. (SessionTypeOK /\ NetTypeOK /\ SessionsAreNamed) /\ SessionTypeOK'
    <3>1. IInv => SessionTypeOK /\ NetTypeOK /\ SessionsAreNamed
      BY DEF IInv, ClientTypeOK
    <3>2. SessionTypeOK'
      BY <1>2, TypeHandle, TypeUpset DEF ClientTypeOK
    <3> QED BY <3>1, <3>2
  <2>7. r.of \in Files /\ r.at \in Nat /\ Chunks[r.of] \in Nat
    BY <2>6, RequestFields, ClientAssumption DEF NetTypeOK
  <2>8. CASE HandleAsk(r)
    <3>1. r.sid \in Attempts
      BY <2>6, <2>8 DEF HandleAsk, Taken, SessionsAreNamed
    <3>2. disk[r.of][r.sid] \in Nat
      BY <2>6, <2>7, <3>1 DEF SessionTypeOK
    <3> QED BY <2>4, <2>5, <2>8, <3>2 DEF HandleAsk, fileVars
  <2>9. CASE HandleLook(r) \/ HandleDrop(r) \/ Vanish(r)
    BY <2>3, <2>9 DEF HandleLook, HandleDrop, Vanish, fileVars
  <2>10. CASE HandleOpen(r)
    BY <2>4, <2>5, <2>10 DEF HandleOpen, fileVars
  <2>11. CASE HandlePost(r)
    BY <2>2, <2>11 DEF HandlePost, Taken, Stores
  <2>12. CASE PatchUnknown(r) \/ Refuse(r) \/ FailPatch(r)
    BY <2>4, <2>5, <2>12 DEF PatchUnknown, Refuse, FailPatch, fileVars
  <2>13. CASE PatchConflict(r)
    <3>1. r.sid \in Attempts
      BY <2>6, <2>13 DEF PatchConflict, Taken, SessionsAreNamed
    <3>2. received'[r.of][r.sid] \in Nat
      BY <2>6, <2>7, <3>1 DEF SessionTypeOK
    <3> QED BY <2>4, <2>5, <2>13, <3>2 DEF PatchConflict, fileVars
  <2>14. CASE PatchAppend(r)
    <3>1. NextOffset(r) \in Nat
      <4>1. r.at + 1 \in Nat
        BY <2>7
      <4> QED BY <2>7, <4>1, LeastType DEF NextOffset
    <3>2. CASE NextOffset(r) < Chunks[r.of]
      BY <2>4, <2>5, <2>14, <3>1, <3>2 DEF PatchAppend, fileVars
    <3>3. CASE ~(NextOffset(r) < Chunks[r.of])
      BY <2>2, <2>14, <3>3 DEF PatchAppend, Taken, Stores
    <3> QED BY <3>2, <3>3
  <2> QED BY <1>2, <2>8, <2>9, <2>10, <2>11, <2>12, <2>13, <2>14 DEF Handle, HandlePatch
<1> QED BY <1>1, <1>2

LEMMA StepIInv == IInv /\ [ClientNext]_clientVars => IInv'
<1> SUFFICES ASSUME IInv, [ClientNext]_clientVars PROVE IInv'
  OBVIOUS
<1>1. (ClientTypeOK /\ SessionsAreNamed)'
  BY TypeStep
<1>2. CASE UNCHANGED clientVars
  <2>1. UNCHANGED <<attempt, phase, delivered, reply, wire>>
    BY <1>2 DEF clientVars, pageVars, fileVars
  <2>2. (RequestsAreSpare /\ AttemptsKnow /\ DeliveredAttempts)'
    BY <2>1, KnowQuiet
  <2> QED BY <1>1, <2>2 DEF IInv
<1>3. CASE ClientNext
  <2>1. (RequestsAreSpare /\ AttemptsKnow /\ DeliveredAttempts)'
    BY <1>3, KnowBegin, KnowTakeReply, KnowPage, KnowServer DEF ClientNext, Event
  <2> QED BY <1>1, <2>1 DEF IInv
<1> QED BY <1>2, <1>3

-----------------------------------------------------------------------------
(* Each step is one of the promise's, or none of its business. *)

Abstract == <<attempt, delivered, copies, told>>

\* No attempt begins or ends.
SameCalls == \A f \in Files : phase'[f] = "idle" <=> phase[f] = "idle"

LEMMA StutterStep ==
  ASSUME UNCHANGED Abstract, SameCalls
  PROVE  UNCHANGED Promise!promiseVars
  BY DEF Abstract, SameCalls, Promise!promiseVars

LEMMA DeliverStep ==
  ASSUME IInv, NEW r \in wire, Stores(r), StoreFile(r), UNCHANGED <<attempt, phase, told>>
  PROVE  Promise!PromiseNext
<1>1. r.of \in Files /\ r.by \in 1 .. attempt[r.of] /\ r.by \notin delivered[r.of]
  BY RequestFields DEF IInv, ClientTypeOK, NetTypeOK, RequestsAreSpare
<1>2. Promise!Deliver(r.of, r.by)
  BY <1>1 DEF StoreFile, Promise!Deliver
<1> QED BY <1>1, <1>2 DEF Promise!PromiseNext

LEMMA CloseStep ==
  ASSUME IInv, NEW f \in Files, Close(f)
  PROVE  Promise!PromiseNext
<1>1. /\ phase[f] \in Ended /\ phase' = [phase EXCEPT ![f] = "idle"]
      /\ UNCHANGED <<attempt, delivered, copies>>
      /\ told' = IF phase[f] = "succeeded" THEN [told EXCEPT ![f] = @ \union {attempt[f]}] ELSE told
  BY DEF Close, fileVars
<1>2. phase \in [Files -> Awaited \union Ended \union {"idle"}]
  BY DEF IInv, ClientTypeOK, PageTypeOK
<1> DEFINE open == [g \in Files |-> phase[g] # "idle"]
<1> DEFINE opened == [g \in Files |-> phase'[g] # "idle"]
<1>3. open[f]
  BY <1>1 DEF Ended
<1>4. opened = [g \in Files |-> open[g] /\ g \notin {f}]
  BY <1>1, <1>2
<1>5. opened = [open EXCEPT ![f] = FALSE]
  BY <1>1, <1>2
<1>6. CASE phase[f] = "succeeded"
  <2>1. attempt[f] \in delivered[f]
    BY <1>6 DEF IInv, AttemptsKnow
  <2>2. Promise!Tell(f)
    BY <1>1, <1>3, <1>5, <1>6, <2>1 DEF Promise!Tell
  <2> QED BY <2>2 DEF Promise!PromiseNext
<1>7. CASE phase[f] # "succeeded"
  <2>1. Promise!GiveUp({f})
    BY <1>1, <1>3, <1>4, <1>7 DEF Promise!GiveUp
  <2> QED BY <2>1 DEF Promise!PromiseNext
<1> QED BY <1>6, <1>7

LEMMA BeginStep ==
  ASSUME IInv, NEW f \in Files, Begin(f)
  PROVE  Promise!PromiseNext
<1>1. \E kind \in Awaited : phase' = [phase EXCEPT ![f] = kind]
  BY DEF Begin, Awaited
<1>2. phase \in [Files -> Awaited \union Ended \union {"idle"}]
  BY DEF IInv, ClientTypeOK, PageTypeOK
<1>3. [g \in Files |-> phase'[g] # "idle"] = [[g \in Files |-> phase[g] # "idle"] EXCEPT ![f] = TRUE]
  BY <1>1, <1>2 DEF Awaited
<1>4. Promise!Try(f)
  BY <1>3 DEF Begin, fileVars, Promise!Try
<1> QED BY <1>4 DEF Promise!PromiseNext

LEMMA ReloadStep ==
  ASSUME IInv, Reload
  PROVE  [Promise!PromiseNext]_(Promise!promiseVars)
<1> DEFINE S == {f \in Files : phase[f] # "idle"}
<1>1. UNCHANGED Abstract /\ \A f \in Files : phase'[f] = "idle"
  BY DEF Reload, fileVars, Abstract
<1>2. CASE S = {}
  BY <1>1, <1>2, StutterStep DEF SameCalls
<1>3. CASE S # {}
  <2>1. /\ S \in SUBSET Files /\ UNCHANGED Abstract
        /\ \A f \in S : [g \in Files |-> phase[g] # "idle"][f]
        /\ [f \in Files |-> phase'[f] # "idle"]
             = [f \in Files |-> [g \in Files |-> phase[g] # "idle"][f] /\ f \notin S]
    BY <1>1
  <2> HIDE DEF S
  <2> QED BY <1>3, <2>1 DEF Abstract, Promise!PromiseNext, Promise!GiveUp
<1> QED BY <1>2, <1>3

\* The steps the promise does not see.
LEMMA HiddenStep ==
  ASSUME IInv,
         \/ \E f \in Files : Abort(f) \/ TakeReply(f) \/ Break(f) \/ \E a \in Attempts : Expire(f, a)
         \/ Visit \/ \E e \in listed : Discard(e) \/ Unlist(e)
         \/ \E r \in wire : Refuse(r) \/ Vanish(r) \/ FailPatch(r)
         \/ UNCHANGED clientVars
  PROVE  UNCHANGED Abstract /\ SameCalls
<1>1. phase \in [Files -> Awaited \union Ended \union {"idle"}]
  BY DEF IInv, ClientTypeOK, PageTypeOK
<1>2. ASSUME NEW f \in Files, Abort(f) \/ TakeReply(f)
      PROVE  UNCHANGED Abstract /\ SameCalls
  <2>1. UNCHANGED Abstract /\ phase[f] \in Awaited
    BY <1>2 DEF Abort, TakeReply, TakeAsk, TakeOpen, TakePatch, TakePost, fileVars, Abstract, Awaited
  <2>2. phase' = phase \/ \E p \in Awaited \union Ended : phase' = [phase EXCEPT ![f] = p]
    BY <1>2 DEF Abort, TakeReply, TakeAsk, TakeOpen, TakePatch, TakePost, SendChunk, Awaited, Ended
  <2> QED BY <1>1, <2>1, <2>2 DEF SameCalls, Awaited, Ended
<1>3. ASSUME UNCHANGED <<pageVars, fileVars>>
      PROVE  UNCHANGED Abstract /\ SameCalls
  BY <1>3 DEF pageVars, fileVars, Abstract, SameCalls
<1>4. CASE \E f \in Files : Break(f) \/ \E a \in Attempts : Expire(f, a)
  BY <1>3, <1>4 DEF Break, Expire
<1>5. CASE Visit \/ \E e \in listed : Discard(e) \/ Unlist(e)
  BY <1>3, <1>5 DEF Visit, Discard, Unlist
<1>6. CASE \E r \in wire : Refuse(r) \/ Vanish(r) \/ FailPatch(r)
  BY <1>3, <1>6 DEF Refuse, Vanish, FailPatch
<1>7. CASE UNCHANGED clientVars
  BY <1>3, <1>7 DEF clientVars
<1> QED BY <1>2, <1>4, <1>5, <1>6, <1>7

LEMMA PromiseStep ==
  IInv /\ [ClientNext]_clientVars => [Promise!PromiseNext]_(Promise!promiseVars)
<1> SUFFICES ASSUME IInv, [ClientNext]_clientVars
             PROVE  [Promise!PromiseNext]_(Promise!promiseVars)
  OBVIOUS
<1>1. CASE \E f \in Files : Begin(f) \/ Close(f)
  BY <1>1, BeginStep, CloseStep
<1>2. CASE Reload
  BY <1>2, ReloadStep
<1>3. ASSUME NEW r \in wire, Handle(r)
      PROVE  [Promise!PromiseNext]_(Promise!promiseVars)
  <2>1. UNCHANGED pageVars
    BY <1>3 DEF Handle, HandleAsk, HandleLook, HandleOpen, HandleDrop, HandlePost, HandlePatch,
                PatchUnknown, PatchConflict, PatchAppend, Taken
  <2>2. CASE UNCHANGED fileVars
    BY <2>1, <2>2, StutterStep DEF pageVars, fileVars, Abstract, SameCalls
  <2>3. CASE Stores(r) /\ StoreFile(r)
    BY <2>1, <2>3, DeliverStep DEF pageVars
  <2>4. UNCHANGED fileVars \/ (Stores(r) /\ StoreFile(r))
    BY <1>3 DEF Handle, HandleAsk, HandleLook, HandleOpen, HandleDrop, HandlePost, HandlePatch,
                PatchUnknown, PatchConflict, PatchAppend, Taken, Stores
  <2> QED BY <2>2, <2>3, <2>4
<1>4. CASE \/ \E f \in Files : Abort(f) \/ TakeReply(f) \/ Break(f) \/ \E a \in Attempts : Expire(f, a)
           \/ Visit \/ \E e \in listed : Discard(e) \/ Unlist(e)
           \/ \E r \in wire : Refuse(r) \/ Vanish(r) \/ FailPatch(r)
           \/ UNCHANGED clientVars
  BY <1>4, HiddenStep, StutterStep
<1> QED BY <1>1, <1>2, <1>3, <1>4 DEF ClientNext, Event

LEMMA PromiseStart == ClientInit => Promise!PromiseInit
  BY DEF ClientInit, Promise!PromiseInit

-----------------------------------------------------------------------------
(* Interrupted uploads resume. *)

\* While nothing fails and the list of interrupted uploads is not consulted.
Calm == faults = 0 /\ visits = 0

NothingListed == listed = {} /\ \A r \in wire : r.kind \notin {"look", "drop"}

\* Requests and keys speak of attempts that have begun.
Begun ==
  /\ \A f \in Files : stored[f] <= attempt[f]
  /\ \A r \in wire : r.by <= attempt[r.of] /\ (r.kind = "patch" => r.sid <= attempt[r.of])

\* No one has yet learned of the session attempt a of f opens.
Unheard(f, a) ==
  /\ a # stored[f] /\ disk[f][a] = 0
  /\ \A r \in wire : r.kind = "patch" /\ r.of = f => r.sid # a

SessionsStartUnheard ==
  /\ \A f \in Files : phase[f] \in {"ask", "open"} => Unheard(f, attempt[f])
  /\ \A r \in wire : r.kind = "open" => Unheard(r.of, r.by) /\ r.sid = 0 /\ r.at = 0
  /\ \A f \in Files : phase[f] = "open" /\ reply[f] # NoReply =>
       \A r \in wire : r.kind = "open" /\ r.of = f => r.by # attempt[f]

\* The attempt under way uses the session that f's key names; the key is cleared
\* only when that session is gone.
KeyIsCurrent ==
  /\ \A f \in Files : phase[f] \in {"ask", "patch"} => sid[f] = stored[f]
  /\ \A f \in Files : phase[f] = "open" => stored[f] = 0
  /\ \A r \in wire : r.kind = "ask" /\ r.by = attempt[r.of] /\ phase[r.of] = "ask" =>
       r.sid = stored[r.of]
  /\ \A f \in Files : phase[f] = "ask" /\ reply[f] = Failure => ~isOpen[f][stored[f]]
  /\ \A f \in Files : phase[f] = "patch" /\ reply[f] = Complete => ~isOpen[f][stored[f]]

\* Only the session f's key names has bytes or is given any.
BytesInOneSession ==
  /\ \A f \in Files, a \in Attempts : disk[f][a] > 0 => isOpen[f][a] /\ a = stored[f]
  /\ \A r \in wire : r.kind = "patch" /\ isOpen[r.of][r.sid] => r.sid = stored[r.of]


OneSessionEach ==
  NothingListed /\ Begun /\ SessionsStartUnheard /\ KeyIsCurrent /\ BytesInOneSession

Resumes == Calm => OneSessionEach

LEMMA InitResumes == ClientInit => Resumes
<1> SUFFICES ASSUME ClientInit PROVE OneSessionEach
  BY DEF Resumes
<1> USE ClientAssumption DEF ClientInit
<1>1. NothingListed /\ Begun
  BY DEF NothingListed, Begun
<1>2. SessionsStartUnheard /\ KeyIsCurrent /\ BytesInOneSession
  BY DEF SessionsStartUnheard, KeyIsCurrent, BytesInOneSession
<1> QED BY <1>1, <1>2 DEF OneSessionEach

\* The facts about requests that these proofs need.
LEMMA WireFields ==
  ASSUME IInv, NEW r \in wire
  PROVE  /\ r.of \in Files /\ r.by \in 0 .. MaxAttempts /\ r.sid \in 0 .. MaxAttempts
         /\ r.kind \in Kinds
         /\ r.kind \in {"ask", "patch"} => r.sid \in Attempts
         /\ r.kind = "open" => r.by \in Attempts
<1>1. r \in Requests
  BY DEF IInv, ClientTypeOK, NetTypeOK
<1> QED BY <1>1, RequestFields DEF IInv, SessionsAreNamed

LEMMA SessionTypes ==
  ASSUME IInv
  PROVE  /\ isOpen \in [Files -> [Attempts -> BOOLEAN]] /\ disk \in [Files -> [Attempts -> Nat]]
         /\ stored \in [Files -> 0 .. MaxAttempts] /\ attempt \in [Files -> 0 .. MaxAttempts]
         /\ sid \in [Files -> 0 .. MaxAttempts] /\ reply \in [Files -> Replies]
         /\ MaxAttempts \in Nat /\ 0 \notin Attempts
         /\ \A a \in Attempts : a \in Nat /\ a > 0 /\ a \in 0 .. MaxAttempts
BY ClientAssumption DEF IInv, ClientTypeOK, PageTypeOK, LocalTypeOK, SessionTypeOK, NetTypeOK, Attempts

\* Steps that send nothing, and after which no attempt goes on but as it was.
LEMMA ResumesQuietly ==
  ASSUME IInv, OneSessionEach, UNCHANGED <<attempt, stored, disk, isOpen>>,
         listed' \subseteq listed, wire' \subseteq wire,
         \A f \in Files : \/ phase'[f] \notin {"ask", "open", "patch"}
                          \/ /\ phase'[f] = phase[f] /\ sid'[f] = sid[f]
                             /\ reply'[f] = reply[f]
  PROVE  OneSessionEach'
<1> USE DEF OneSessionEach
<1>1. (NothingListed /\ Begun)'
  BY DEF NothingListed, Begun
<1>2. \A f \in Files, a \in Attempts : Unheard(f, a) => Unheard(f, a)'
  BY DEF Unheard
<1>3. SessionsStartUnheard'
  <2>1. ASSUME NEW f \in Files, phase'[f] \in {"ask", "open"}
        PROVE  Unheard(f, attempt[f])'
    <3>1. phase'[f] = phase[f]
      BY <2>1
    <3>2. attempt[f] \in Attempts /\ Unheard(f, attempt[f])
      BY <2>1, <3>1, CurrentAttempt DEF SessionsStartUnheard
    <3> QED BY <1>2, <3>2
  <2>2. ASSUME NEW r \in wire', r.kind = "open"
        PROVE  Unheard(r.of, r.by)' /\ r.sid = 0 /\ r.at = 0
    BY <1>2, <2>2, WireFields DEF SessionsStartUnheard
  <2>3. ASSUME NEW f \in Files, phase'[f] = "open" /\ reply'[f] # NoReply, NEW r \in wire', r.kind = "open" /\ r.of = f
        PROVE  r.by # attempt'[f]
    BY <2>3 DEF SessionsStartUnheard
  <2>4. UNCHANGED attempt
    OBVIOUS
  <2> QED BY <2>1, <2>2, <2>3, <2>4 DEF SessionsStartUnheard
<1>4. KeyIsCurrent'
  BY WireFields DEF KeyIsCurrent
<1>5. BytesInOneSession'
  BY DEF BytesInOneSession
<1> QED BY <1>1, <1>3, <1>4, <1>5

\* The attempt that begins resumes the session its file's key names, or opens one
\* that no one has heard of.
LEMMA ResumesBegin ==
  ASSUME IInv, OneSessionEach, NEW f \in Files, Begin(f)
  PROVE  OneSessionEach'
<1> DEFINE kind == IF Chunks[f] = 1 THEN "post" ELSE IF stored[f] # 0 THEN "ask" ELSE "open"
           r == Request(f, attempt[f] + 1, kind, stored[f], 0)
<1> USE DEF OneSessionEach
<1>1. /\ phase' = [phase EXCEPT ![f] = kind] /\ wire' = wire \union {r}
      /\ attempt' = [attempt EXCEPT ![f] = @ + 1] /\ sid' = [sid EXCEPT ![f] = stored[f]]
      /\ UNCHANGED <<stored, listed, disk, isOpen, reply>>
      /\ phase[f] = "idle"
  BY DEF Begin, localVars, sessionVars
<1>2. /\ r.of = f /\ r.by = attempt[f] + 1 /\ r.kind = kind /\ r.sid = stored[f] /\ r.at = 0
  BY DEF Request
<1>3. /\ kind \in {"post", "ask", "open"} /\ (kind = "open" => stored[f] = 0)
  OBVIOUS
<1> HIDE DEF kind, r
<1>4. /\ phase \in [Files -> Awaited \union Ended \union {"idle"}]
      /\ attempt[f] \in Nat /\ attempt[f] + 1 \in Attempts /\ stored[f] \in Nat
      /\ reply[f] = NoReply
  <2>1. phase \in [Files -> Awaited \union Ended \union {"idle"}] /\ reply[f] = NoReply
    BY <1>1 DEF IInv, ClientTypeOK, PageTypeOK, AttemptsKnow, Awaited
  <2>2. attempt[f] \in 0 .. MaxAttempts /\ attempt[f] < MaxAttempts /\ stored[f] \in 0 .. MaxAttempts
    BY SessionTypes DEF Begin
  <2> QED BY <2>1, <2>2, ClientAssumption DEF Attempts
<1>5. /\ attempt'[f] = attempt[f] + 1 /\ phase'[f] = kind /\ sid'[f] = stored[f]
      /\ \A g \in Files : g # f => attempt'[g] = attempt[g] /\ phase'[g] = phase[g] /\ sid'[g] = sid[g]
  BY <1>1, <1>4, SessionTypes
<1>6. \A q \in wire : q.by \in Nat /\ q.sid \in Nat /\ q.of \in Files
  BY WireFields, ClientAssumption
<1>7. NothingListed'
  BY <1>1, <1>2, <1>3 DEF NothingListed
<1>8. Begun'
  <2>1. \A g \in Files : stored[g] <= attempt[g] /\ stored[g] \in Nat /\ attempt[g] \in Nat
    BY SessionTypes DEF Begun
  <2>2. \A g \in Files : attempt[g] <= attempt'[g] /\ attempt'[g] \in Nat
    BY <1>4, <1>5, <2>1
  <2>3. \A g \in Files : stored'[g] <= attempt'[g]
    BY <1>1, <2>1, <2>2
  <2>4. \A q \in wire' : q.by <= attempt'[q.of] /\ (q.kind = "patch" => q.sid <= attempt'[q.of])
    <3>1. ASSUME NEW q \in wire
          PROVE  q.by <= attempt'[q.of] /\ (q.kind = "patch" => q.sid <= attempt'[q.of])
      <4>1. q.by <= attempt[q.of] /\ (q.kind = "patch" => q.sid <= attempt[q.of])
        BY DEF Begun
      <4> QED BY <1>6, <2>1, <2>2, <4>1
    <3>2. r.by <= attempt'[r.of] /\ r.kind # "patch"
      BY <1>2, <1>3, <1>4, <1>5
    <3> QED BY <1>1, <3>1, <3>2
  <2> QED BY <2>3, <2>4 DEF Begun
<1>9. \A g \in Files, a \in Attempts : Unheard(g, a) => Unheard(g, a)'
  BY <1>1, <1>2, <1>3 DEF Unheard
<1>10. Unheard(f, attempt[f] + 1)
  <2>1. attempt[f] + 1 # stored[f]
    BY <1>4 DEF Begun
  <2>2. disk[f][attempt[f] + 1] = 0
    BY <1>4, <2>1, SessionTypes DEF BytesInOneSession
  <2>3. \A q \in wire : q.kind = "patch" /\ q.of = f => q.sid # attempt[f] + 1
    BY <1>4, <1>6 DEF Begun
  <2> QED BY <2>1, <2>2, <2>3 DEF Unheard
<1>11. SessionsStartUnheard'
  <2>1. ASSUME NEW g \in Files, NEW a, a = attempt'[g], phase'[g] \in {"ask", "open"}
        PROVE  Unheard(g, a)'
    <3>1. a \in Attempts /\ Unheard(g, a)
      <4>1. CASE g = f
        BY <1>4, <1>5, <1>10, <2>1, <4>1
      <4>2. CASE g # f
        BY <1>5, <2>1, <4>2, CurrentAttempt DEF SessionsStartUnheard
      <4> QED BY <4>1, <4>2
    <3> QED BY <1>9, <3>1
  <2>2. ASSUME NEW q \in wire', q.kind = "open"
        PROVE  Unheard(q.of, q.by)' /\ q.sid = 0 /\ q.at = 0
    <3>1. CASE q \in wire
      BY <1>9, <2>2, <3>1, WireFields DEF SessionsStartUnheard
    <3>2. CASE q = r
      <4>1. q.of = f /\ q.by = attempt[f] + 1 /\ q.sid = 0 /\ q.at = 0
        BY <1>2, <1>3, <2>2, <3>2
      <4>2. Unheard(q.of, q.by) /\ q.by \in Attempts /\ q.of \in Files
        BY <1>4, <1>10, <4>1
      <4> QED BY <1>9, <4>1, <4>2
    <3> QED BY <1>1, <3>1, <3>2
  <2>3. ASSUME NEW g \in Files, phase'[g] = "open" /\ reply'[g] # NoReply, NEW q \in wire', q.kind = "open" /\ q.of = g
        PROVE  q.by # attempt'[g]
    <3>1. g # f
      BY <1>1, <1>4, <2>3
    <3>2. q \in wire
      BY <1>1, <1>2, <2>3, <3>1
    <3> QED BY <1>1, <1>5, <2>3, <3>1, <3>2 DEF SessionsStartUnheard
  <2>4. \A g \in Files : phase'[g] \in {"ask", "open"} => Unheard(g, attempt[g])'
    BY <2>1, Zenon DEF Unheard
  <2> QED BY <2>2, <2>3, <2>4 DEF SessionsStartUnheard
<1>12. KeyIsCurrent'
  <2>1. ASSUME NEW q \in wire', q.kind = "ask" /\ q.by = attempt'[q.of] /\ phase'[q.of] = "ask"
        PROVE  q.sid = stored[q.of]
    <3>1. CASE q = r
      BY <1>2, <3>1
    <3>2. CASE q \in wire
      <4>1. q.of # f
        <5>1. q.by <= attempt[q.of]
          BY <3>2 DEF Begun
        <5> QED BY <1>4, <1>5, <1>6, <2>1, <3>2, <5>1
      <4> QED BY <1>5, <1>6, <2>1, <3>2, <4>1 DEF KeyIsCurrent
    <3> QED BY <1>1, <3>1, <3>2
  <2>2. NoReply # Failure /\ NoReply # Complete
    BY AnswerKinds
  <2> QED BY <1>1, <1>3, <1>4, <1>5, <2>1, <2>2 DEF KeyIsCurrent
<1>13. BytesInOneSession'
  BY <1>1, <1>2, <1>3 DEF BytesInOneSession
<1> QED BY <1>7, <1>8, <1>11, <1>12, <1>13

\* The chunk that is sent belongs to the session the key names, or to the one that
\* has just been opened and is remembered before the chunk is sent.
LEMMA ResumesSendChunk ==
  ASSUME IInv, OneSessionEach, NEW f \in Files, NEW s \in Attempts, NEW n, SendChunk(f, s, n),
         UNCHANGED <<attempt, listed, disk, isOpen>>, reply' = [reply EXCEPT ![f] = NoReply],
         stored' = [stored EXCEPT ![f] = s],
         \/ phase[f] \in {"ask", "patch"} /\ s = stored[f]
         \/ phase[f] = "open" /\ s = attempt[f] /\ reply[f] # NoReply
  PROVE  OneSessionEach'
<1> DEFINE r == Request(f, attempt[f], "patch", s, n)
<1> USE DEF OneSessionEach
<1>1. r.of = f /\ r.by = attempt[f] /\ r.kind = "patch" /\ r.sid = s
  BY DEF Request
<1>2. wire' = wire \/ wire' = wire \union {r}
  BY DEF SendChunk
<1> HIDE DEF r
<1>3. \A q \in wire' : q \in wire \/ q = r
  BY <1>2
<1>4. /\ phase'[f] \in {"failed", "patch"} /\ sid'[f] = s /\ reply'[f] = NoReply /\ stored'[f] = s
      /\ \A g \in Files : g # f => phase'[g] = phase[g] /\ sid'[g] = sid[g]
                                   /\ reply'[g] = reply[g] /\ stored'[g] = stored[g]
  BY SessionTypes DEF SendChunk, IInv, ClientTypeOK, PageTypeOK
<1>5. s <= attempt[f] /\ attempt[f] \in Nat
  BY SessionTypes DEF Begun
<1>6. \A a \in Attempts : disk[f][a] > 0 => isOpen[f][a] /\ a = s
  BY SessionTypes DEF BytesInOneSession, KeyIsCurrent
<1>7. \A q \in wire : q.kind = "patch" /\ q.of = f /\ isOpen[f][q.sid] => q.sid = s
  BY WireFields, SessionTypes DEF BytesInOneSession, KeyIsCurrent
<1>8. \A q \in wire : q.kind = "open" /\ q.of = f => q.by # s
  BY DEF SessionsStartUnheard, Unheard
<1>9. NothingListed'
  BY <1>1, <1>3 DEF NothingListed
<1>10. Begun'
  BY <1>1, <1>3, <1>4, <1>5, WireFields DEF Begun
<1>11. ASSUME NEW g \in Files, NEW a \in Attempts, Unheard(g, a), g = f => a # s
       PROVE  Unheard(g, a)'
  BY <1>1, <1>3, <1>4, <1>11 DEF Unheard
<1>12. SessionsStartUnheard'
  <2>1. ASSUME NEW g \in Files, NEW a, a = attempt[g], phase'[g] \in {"ask", "open"}
        PROVE  Unheard(g, a)'
    <3>1. g # f
      BY <1>4, <2>1
    <3>2. a \in Attempts /\ Unheard(g, a)
      BY <1>4, <2>1, <3>1, CurrentAttempt DEF SessionsStartUnheard
    <3> QED BY <1>11, <3>1, <3>2
  <2>2. ASSUME NEW q \in wire', q.kind = "open"
        PROVE  Unheard(q.of, q.by)' /\ q.sid = 0 /\ q.at = 0
    <3>1. q \in wire
      BY <1>1, <1>3, <2>2
    <3>2. Unheard(q.of, q.by) /\ q.sid = 0 /\ q.at = 0 /\ q.of \in Files /\ q.by \in Attempts
      BY <2>2, <3>1, WireFields DEF SessionsStartUnheard
    <3>3. q.of = f => q.by # s
      BY <1>8, <2>2, <3>1
    <3> QED BY <1>11, <3>2, <3>3
  <2>3. ASSUME NEW g \in Files, phase'[g] = "open" /\ reply'[g] # NoReply,
               NEW q \in wire', q.kind = "open" /\ q.of = g
        PROVE  q.by # attempt[g]
    BY <1>1, <1>3, <1>4, <2>3 DEF SessionsStartUnheard
  <2>4. \A g \in Files : phase'[g] \in {"ask", "open"} => Unheard(g, attempt[g])'
    BY <2>1, Zenon DEF Unheard
  <2> QED BY <2>2, <2>3, <2>4 DEF SessionsStartUnheard
<1>13. KeyIsCurrent'
  <2>1. ASSUME NEW q \in wire', q.kind = "ask" /\ q.by = attempt[q.of] /\ phase'[q.of] = "ask"
        PROVE  q.sid = stored'[q.of]
    <3>1. q \in wire /\ q.of \in Files /\ q.of # f
      BY <1>1, <1>3, <1>4, <2>1, WireFields
    <3> QED BY <1>4, <2>1, <3>1 DEF KeyIsCurrent
  <2>2. NoReply # Failure /\ NoReply # Complete
    BY AnswerKinds
  <2> QED BY <1>4, <2>1, <2>2 DEF KeyIsCurrent
<1>14. BytesInOneSession'
  <2>1. \A g \in Files, a \in Attempts : disk'[g][a] > 0 => isOpen'[g][a] /\ a = stored'[g]
    BY <1>4, <1>6 DEF BytesInOneSession
  <2>2. ASSUME NEW q \in wire', q.kind = "patch", isOpen'[q.of][q.sid]
        PROVE  q.sid = stored'[q.of]
    BY <1>1, <1>3, <1>4, <1>7, <2>2, WireFields DEF BytesInOneSession
  <2> QED BY <2>1, <2>2 DEF BytesInOneSession
<1> QED BY <1>9, <1>10, <1>12, <1>13, <1>14

\* The key is cleared when its session is gone: then f's bytes are in none.
LEMMA ResumesReset ==
  ASSUME IInv, OneSessionEach, NEW f \in Files,
         phase[f] \in {"ask", "patch"}, ~isOpen[f][stored[f]],
         UNCHANGED <<attempt, listed, disk, isOpen, sid>>, reply' = [reply EXCEPT ![f] = NoReply],
         stored' = [stored EXCEPT ![f] = 0],
         \/ /\ phase[f] = "ask" /\ phase' = [phase EXCEPT ![f] = "open"]
            /\ wire' = wire \union {Request(f, attempt[f], "open", 0, 0)}
         \/ phase' = [phase EXCEPT ![f] = "succeeded"] /\ wire' = wire
  PROVE  OneSessionEach'
<1> DEFINE r == Request(f, attempt[f], "open", 0, 0)
<1> USE DEF OneSessionEach
<1>1. r.of = f /\ r.by = attempt[f] /\ r.kind = "open" /\ r.sid = 0 /\ r.at = 0
  BY DEF Request
<1>0. wire' = wire \/ (wire' = wire \union {r} /\ phase[f] = "ask")
  OBVIOUS
<1>3. phase'[f] \in {"open", "succeeded"} /\ (phase'[f] = "open" => phase[f] = "ask")
  BY DEF IInv, ClientTypeOK, PageTypeOK
<1> HIDE DEF r
<1>2. \A q \in wire' : q \in wire \/ (q = r /\ phase[f] = "ask")
  BY <1>0
<1>4. /\ reply'[f] = NoReply /\ stored'[f] = 0
      /\ \A g \in Files : g # f => phase'[g] = phase[g] /\ reply'[g] = reply[g] /\ stored'[g] = stored[g]
  BY SessionTypes DEF IInv, ClientTypeOK, PageTypeOK
<1>5. attempt[f] \in Attempts
  BY CurrentAttempt
<1>6. \A a \in Attempts : disk[f][a] = 0
  BY SessionTypes DEF BytesInOneSession
<1>7. \A q \in wire : q.kind = "patch" /\ q.of = f => ~isOpen[f][q.sid]
  BY DEF BytesInOneSession
<1>8. NothingListed'
  BY <1>1, <1>2 DEF NothingListed
<1>9. Begun'
  <2>1. \A g \in Files : stored'[g] <= attempt[g]
    BY <1>4, SessionTypes DEF Begun
  <2>2. \A q \in wire' : q.by <= attempt[q.of] /\ (q.kind = "patch" => q.sid <= attempt[q.of])
    BY <1>1, <1>2, <1>5, SessionTypes DEF Begun
  <2> QED BY <2>1, <2>2 DEF Begun
<1>10. ASSUME NEW g \in Files, NEW a \in Attempts, Unheard(g, a)
       PROVE  Unheard(g, a)'
  BY <1>1, <1>2, <1>4, <1>10, SessionTypes DEF Unheard
<1>11. phase[f] = "ask" => Unheard(f, attempt[f])
  BY DEF SessionsStartUnheard
<1>12. SessionsStartUnheard'
  <2>1. ASSUME NEW g \in Files, NEW a, a = attempt[g], phase'[g] \in {"ask", "open"}
        PROVE  Unheard(g, a)'
    <3>1. phase[g] \in {"ask", "open"}
      BY <1>3, <1>4, <2>1
    <3>2. a \in Attempts /\ Unheard(g, a)
      BY <2>1, <3>1, CurrentAttempt DEF SessionsStartUnheard
    <3> QED BY <1>10, <3>2
  <2>2. ASSUME NEW q \in wire', q.kind = "open"
        PROVE  Unheard(q.of, q.by)' /\ q.sid = 0 /\ q.at = 0
    <3>1. Unheard(q.of, q.by) /\ q.sid = 0 /\ q.at = 0 /\ q.of \in Files /\ q.by \in Attempts
      BY <1>1, <1>2, <1>5, <1>11, <2>2, WireFields DEF SessionsStartUnheard
    <3> QED BY <1>10, <3>1
  <2>3. ASSUME NEW g \in Files, phase'[g] = "open" /\ reply'[g] # NoReply,
               NEW q \in wire', q.kind = "open" /\ q.of = g
        PROVE  q.by # attempt[g]
    BY <1>1, <1>2, <1>4, <2>3 DEF SessionsStartUnheard
  <2>4. \A g \in Files : phase'[g] \in {"ask", "open"} => Unheard(g, attempt[g])'
    BY <2>1, Zenon DEF Unheard
  <2> QED BY <2>2, <2>3, <2>4 DEF SessionsStartUnheard
<1>13. KeyIsCurrent'
  <2>1. ASSUME NEW q \in wire', q.kind = "ask" /\ q.by = attempt[q.of] /\ phase'[q.of] = "ask"
        PROVE  q.sid = stored'[q.of]
    <3>1. q \in wire /\ q.of \in Files /\ q.of # f
      BY <1>1, <1>2, <1>3, <2>1, WireFields
    <3> QED BY <1>4, <2>1, <3>1 DEF KeyIsCurrent
  <2> QED BY <1>3, <1>4, <2>1 DEF KeyIsCurrent
<1>14. BytesInOneSession'
  <2>1. \A g \in Files, a \in Attempts : disk'[g][a] > 0 => isOpen'[g][a] /\ a = stored'[g]
    BY <1>4, <1>6, SessionTypes DEF BytesInOneSession
  <2>2. ASSUME NEW q \in wire', q.kind = "patch", isOpen'[q.of][q.sid]
        PROVE  q.sid = stored'[q.of]
    BY <1>1, <1>2, <1>4, <1>7, <2>2, WireFields DEF BytesInOneSession
  <2> QED BY <2>1, <2>2 DEF BytesInOneSession
<1> QED BY <1>8, <1>9, <1>12, <1>13, <1>14

LEMMA ResumesTakeReply ==
  ASSUME IInv, OneSessionEach, NEW f \in Files, TakeReply(f)
  PROVE  OneSessionEach'
<1> USE DEF localVars, sessionVars
<1>1. attempt[f] \in Attempts \/ phase[f] = "idle"
  BY CurrentAttempt
<1>2. phase \in [Files -> Awaited \union Ended \union {"idle"}]
  BY DEF IInv, ClientTypeOK, PageTypeOK
<1>3. ASSUME \E p \in Ended : phase' = [phase EXCEPT ![f] = p], reply' = [reply EXCEPT ![f] = NoReply],
             UNCHANGED <<attempt, stored, disk, isOpen, listed, wire, sid>>
      PROVE  OneSessionEach'
  <2>1. phase'[f] \notin {"ask", "open", "patch"}
    BY <1>2, <1>3 DEF Ended
  <2>2. \A g \in Files : g # f => phase'[g] = phase[g] /\ reply'[g] = reply[g]
    BY <1>2, <1>3, SessionTypes
  <2> QED BY <1>3, <2>1, <2>2, ResumesQuietly
<1>4. CASE TakeAsk(f)
  <2>1. phase[f] = "ask" /\ sid[f] \in Attempts /\ sid[f] = stored[f]
    BY <1>4 DEF TakeAsk, IInv, SessionsAreNamed, OneSessionEach, KeyIsCurrent
  <2>2. CASE reply[f] # Failure
    <3>1. stored' = [stored EXCEPT ![f] = sid[f]]
      BY <1>4, <2>1, <2>2, SessionTypes DEF TakeAsk
    <3>2. PICK n : SendChunk(f, sid[f], n)
      BY <1>4, <2>2 DEF TakeAsk
    <3> QED BY <1>4, <2>1, <3>1, <3>2, ResumesSendChunk DEF TakeAsk
  <2>3. CASE reply[f] = Failure
    <3>1. ~isOpen[f][stored[f]]
      BY <2>1, <2>3 DEF OneSessionEach, KeyIsCurrent
    <3> QED BY <1>4, <2>1, <2>3, <3>1, ResumesReset DEF TakeAsk
  <2> QED BY <2>2, <2>3
<1>5. CASE TakeOpen(f)
  <2>1. CASE reply[f] # Failure
    BY <1>1, <1>5, <2>1, ResumesSendChunk DEF TakeOpen
  <2>2. CASE reply[f] = Failure
    BY <1>3, <1>5, <2>2 DEF TakeOpen, Ended
  <2> QED BY <2>1, <2>2
<1>6. CASE TakePatch(f)
  <2>1. phase[f] = "patch" /\ sid[f] \in Attempts /\ sid[f] = stored[f]
    BY <1>6 DEF TakePatch, IInv, SessionsAreNamed, OneSessionEach, KeyIsCurrent
  <2>2. CASE reply[f].is = "at"
    <3>1. UNCHANGED stored /\ \E n : SendChunk(f, sid[f], n)
      BY <1>6, <2>2, AnswerKinds DEF TakePatch
    <3>2. stored' = [stored EXCEPT ![f] = sid[f]]
      BY <2>1, <3>1, SessionTypes
    <3>3. PICK n : SendChunk(f, sid[f], n)
      BY <3>1
    <3> QED BY <1>6, <2>1, <3>2, <3>3, ResumesSendChunk DEF TakePatch
  <2>3. CASE reply[f] = Complete
    <3>1. ~isOpen[f][stored[f]]
      BY <2>1, <2>3 DEF OneSessionEach, KeyIsCurrent
    <3>2. stored' = [stored EXCEPT ![f] = 0] /\ phase' = [phase EXCEPT ![f] = "succeeded"]
          /\ UNCHANGED <<sid, wire>>
      BY <1>6, <2>3, AnswerKinds DEF TakePatch
    <3> QED BY <1>6, <2>1, <3>1, <3>2, ResumesReset DEF TakePatch
  <2>4. CASE reply[f].is # "at" /\ reply[f] # Complete
    BY <1>3, <1>6, <2>4 DEF TakePatch, Ended
  <2> QED BY <2>2, <2>3, <2>4
<1>7. CASE TakePost(f)
  BY <1>3, <1>7 DEF TakePost, Ended
<1> QED BY <1>4, <1>5, <1>6, <1>7 DEF TakeReply

\* A request is taken off the wire and may be answered.
LEMMA ResumesServed ==
  ASSUME IInv, OneSessionEach, NEW r \in wire, wire' = wire \ {r},
         UNCHANGED <<attempt, phase, sid, stored, listed>>,
         NEW ans, Reach(r, ans),
         Waiting(r) /\ r.kind = "ask" /\ ans = Failure => ~isOpen'[r.of][stored[r.of]],
         Waiting(r) /\ r.kind = "patch" /\ ans = Complete => ~isOpen'[r.of][stored[r.of]],
         \A f \in Files : isOpen'[f][stored[f]] => isOpen[f][stored[f]],
         \A f \in Files, a \in Attempts : Unheard(f, a) => disk'[f][a] = 0,
         BytesInOneSession'
  PROVE  OneSessionEach'
<1> USE DEF OneSessionEach
<1>1. \A f \in Files : reply'[f] = reply[f] \/ (f = r.of /\ Waiting(r) /\ reply'[f] = ans)
  <2>1. reply \in [Files -> Replies]
    BY SessionTypes
  <2>2. CASE Waiting(r)
    <3>1. reply' = [reply EXCEPT ![r.of] = ans]
      BY <2>2 DEF Reach
    <3> QED BY <2>1, <2>2, <3>1
  <2>3. CASE ~Waiting(r)
    <3>1. reply' = reply
      BY <2>3 DEF Reach
    <3> QED BY <3>1
  <2> QED BY <2>2, <2>3
<1>2. (NothingListed /\ Begun)'
  BY DEF NothingListed, Begun
<1>3. \A f \in Files, a \in Attempts : Unheard(f, a) => Unheard(f, a)'
  BY DEF Unheard
<1>4. SessionsStartUnheard'
  <2>1. ASSUME NEW f \in Files, phase'[f] \in {"ask", "open"}
        PROVE  Unheard(f, attempt[f])'
    <3>1. attempt[f] \in Attempts /\ Unheard(f, attempt[f])
      BY <2>1, CurrentAttempt DEF SessionsStartUnheard
    <3> QED BY <1>3, <3>1
  <2>2. ASSUME NEW q \in wire', q.kind = "open"
        PROVE  Unheard(q.of, q.by)' /\ q.sid = 0 /\ q.at = 0
    BY <1>3, <2>2, WireFields DEF SessionsStartUnheard
  <2>3. ASSUME NEW f \in Files, phase[f] = "open", reply'[f] # NoReply,
               NEW q \in wire', q.kind = "open", q.of = f
        PROVE  q.by # attempt[f]
    <3>1. CASE reply'[f] = reply[f]
      BY <2>3, <3>1 DEF SessionsStartUnheard
    <3>2. CASE f = r.of /\ Waiting(r)
      <4>1. r.kind = "open" /\ r.by = attempt[f] /\ r.of = f
        BY <2>3, <3>2 DEF Waiting
      <4>2. r.sid = 0 /\ r.at = 0 /\ q.sid = 0 /\ q.at = 0
        BY <2>3, <4>1 DEF SessionsStartUnheard
      <4>3. r \in Requests /\ q \in Requests /\ q # r
        BY DEF IInv, ClientTypeOK, NetTypeOK
      <4> QED BY <2>3, <4>1, <4>2, <4>3 DEF Requests
    <3> QED BY <1>1, <3>1, <3>2
  <2> QED BY <2>1, <2>2, <2>3 DEF SessionsStartUnheard
<1>5. KeyIsCurrent'
  <2>1. ASSUME NEW f \in Files, phase[f] = "ask", reply'[f] = Failure
        PROVE  ~isOpen'[f][stored[f]]
    BY <1>1, <2>1 DEF KeyIsCurrent, Waiting
  <2>2. ASSUME NEW f \in Files, phase[f] = "patch", reply'[f] = Complete
        PROVE  ~isOpen'[f][stored[f]]
    BY <1>1, <2>2 DEF KeyIsCurrent, Waiting
  <2> QED BY <2>1, <2>2 DEF KeyIsCurrent
<1> QED BY <1>2, <1>4, <1>5

\* Taken, as ResumesServed needs it.
LEMMA TakenOff ==
  ASSUME NEW r, NEW kind, Taken(r, kind), UNCHANGED <<stored, listed>>
  PROVE  /\ r \in wire /\ r.kind = kind /\ wire' = wire \ {r}
         /\ UNCHANGED <<attempt, phase, sid, stored, listed, visits, faults>>
  BY DEF Taken, pageVars

LEMMA ResumesHandle ==
  ASSUME IInv, OneSessionEach, NEW r \in wire, Handle(r)
  PROVE  OneSessionEach'
<1> USE DEF OneSessionEach, sessionVars, fileVars
<1>1. /\ r.of \in Files /\ r.by \in 0 .. MaxAttempts /\ r.sid \in 0 .. MaxAttempts
      /\ r.kind \in {"ask", "patch"} => r.sid \in Attempts
      /\ r.kind = "open" => r.by \in Attempts
      /\ r.kind \notin {"look", "drop"}
  BY WireFields DEF NothingListed
<1>2. /\ isOpen \in [Files -> [Attempts -> BOOLEAN]] /\ disk \in [Files -> [Attempts -> Nat]]
      /\ stored \in [Files -> 0 .. MaxAttempts]
  BY SessionTypes
<1>3. \A f \in Files, a \in Attempts : Unheard(f, a) => disk[f][a] = 0
  BY DEF Unheard
<1>4. Failure # Complete /\ Complete # Failure /\ \A n : Answer("at", n) # Failure /\ Answer("at", n) # Complete
  BY DEF Failure, Complete, Answer
<1>5. ASSUME wire' = wire \ {r}, UNCHANGED <<disk, isOpen, stored>>
      PROVE  BytesInOneSession'
  BY <1>5 DEF BytesInOneSession
<1>6. CASE HandleAsk(r)
  <2>1. /\ r.kind = "ask" /\ wire' = wire \ {r}
        /\ UNCHANGED <<attempt, phase, sid, stored, listed, disk, isOpen>>
    BY <1>6, TakenOff DEF HandleAsk
  <2>2. Waiting(r) => r.sid = stored[r.of]
    BY <1>1, <2>1 DEF Waiting, KeyIsCurrent
  <2>3. PICK ans : Reach(r, ans) /\ ans # Complete /\ (ans = Failure => ~isOpen[r.of][r.sid])
    BY <1>4, <1>6 DEF HandleAsk
  <2> QED BY <1>3, <1>5, <2>1, <2>2, <2>3, ResumesServed
<1>7. CASE HandleOpen(r)
  <2>1. /\ r.kind = "open" /\ wire' = wire \ {r}
        /\ UNCHANGED <<attempt, phase, sid, stored, listed, disk>>
        /\ isOpen' = [isOpen EXCEPT ![r.of][r.by] = TRUE] /\ Reach(r, Answer("at", 0))
    BY <1>7, TakenOff DEF HandleOpen
  <2>2. Unheard(r.of, r.by)
    BY <2>1 DEF SessionsStartUnheard
  <2>3. \A f \in Files, a \in Attempts : (f # r.of \/ a # r.by) => isOpen'[f][a] = isOpen[f][a]
    BY <1>1, <1>2, <2>1
  <2>4. \A f \in Files : isOpen'[f][stored[f]] => isOpen[f][stored[f]]
    BY <1>1, <1>2, <2>1, <2>2 DEF Unheard
  <2>5. BytesInOneSession'
    <3>1. \A f \in Files, a \in Attempts : disk'[f][a] > 0 => isOpen'[f][a] /\ a = stored'[f]
      BY <1>2, <2>1, <2>2, <2>3 DEF BytesInOneSession, Unheard
    <3>2. ASSUME NEW q \in wire', q.kind = "patch", isOpen'[q.of][q.sid]
          PROVE  q.sid = stored'[q.of]
      <4>1. q \in wire /\ q.of \in Files /\ q.sid \in Attempts
        BY <2>1, <3>2, WireFields
      <4>2. q.of # r.of \/ q.sid # r.by
        BY <2>2, <3>2, <4>1 DEF Unheard
      <4> QED BY <2>1, <2>3, <3>2, <4>1, <4>2 DEF BytesInOneSession
    <3> QED BY <3>1, <3>2 DEF BytesInOneSession
  <2> QED BY <1>3, <1>4, <2>1, <2>4, <2>5, ResumesServed
<1>8. CASE HandlePost(r)
  <2>1. /\ r.kind = "post" /\ wire' = wire \ {r} /\ Reach(r, Complete)
        /\ UNCHANGED <<attempt, phase, sid, stored, listed, disk, isOpen>>
    BY <1>8, TakenOff DEF HandlePost
  <2> QED BY <1>3, <1>4, <1>5, <2>1, ResumesServed
<1>9. CASE PatchUnknown(r)
  <2>1. /\ r.kind = "patch" /\ wire' = wire \ {r} /\ Reach(r, Failure)
        /\ UNCHANGED <<attempt, phase, sid, stored, listed, disk, isOpen>>
    BY <1>9, TakenOff DEF PatchUnknown
  <2> QED BY <1>3, <1>4, <1>5, <2>1, ResumesServed
<1>10. CASE PatchConflict(r)
  <2>1. /\ r.kind = "patch" /\ wire' = wire \ {r}
        /\ UNCHANGED <<attempt, phase, sid, stored, listed, disk, isOpen>>
    BY <1>10, TakenOff DEF PatchConflict
  <2>2. PICK n : Reach(r, Answer("at", n))
    BY <1>10 DEF PatchConflict
  <2> QED BY <1>3, <1>4, <1>5, <2>1, <2>2, ResumesServed
<1>11. CASE PatchAppend(r)
  <2>1. /\ r.kind = "patch" /\ wire' = wire \ {r}
        /\ UNCHANGED <<attempt, phase, sid, stored, listed>>
    BY <1>11, TakenOff DEF PatchAppend
  <2>2. r.sid \in Attempts /\ isOpen[r.of][r.sid] /\ r.sid = stored[r.of]
    BY <1>1, <1>11, <2>1 DEF PatchAppend, Appends, BytesInOneSession
  <2>3. CASE NextOffset(r) < Chunks[r.of]
    <3>1. disk' = [disk EXCEPT ![r.of][r.sid] = NextOffset(r)] /\ Reach(r, Answer("at", NextOffset(r)))
          /\ UNCHANGED isOpen
      BY <1>11, <2>3 DEF PatchAppend
    <3>2. \A f \in Files, a \in Attempts : (f # r.of \/ a # stored[f]) => disk'[f][a] = disk[f][a]
      BY <1>1, <1>2, <2>2, <3>1
    <3>3. \A f \in Files, a \in Attempts : Unheard(f, a) => disk'[f][a] = 0
      BY <3>2 DEF Unheard
    <3>4. BytesInOneSession'
      <4>1. \A f \in Files, a \in Attempts : disk'[f][a] > 0 => isOpen[f][a] /\ a = stored[f]
        BY <2>2, <3>2 DEF BytesInOneSession
      <4> QED BY <2>1, <3>1, <4>1 DEF BytesInOneSession
    <3> QED BY <1>4, <2>1, <3>1, <3>3, <3>4, ResumesServed
  <2>4. CASE ~(NextOffset(r) < Chunks[r.of])
    <3>1. RemoveSession(r.of, r.sid) /\ Reach(r, Complete)
      BY <1>11, <2>4 DEF PatchAppend
    <3>2. /\ ~isOpen'[r.of][r.sid] /\ disk'[r.of][r.sid] = 0
          /\ \A f \in Files, a \in Attempts : (f # r.of \/ a # r.sid) =>
                isOpen'[f][a] = isOpen[f][a] /\ disk'[f][a] = disk[f][a]
      BY <1>1, <1>2, <2>2, <3>1 DEF RemoveSession
    <3>3. \A f \in Files, a \in Attempts : Unheard(f, a) => disk'[f][a] = 0
      BY <3>2 DEF Unheard
    <3>4. \A f \in Files : isOpen'[f][stored[f]] => isOpen[f][stored[f]]
      BY <1>1, <1>2, <2>2, <3>1 DEF RemoveSession
    <3>5. BytesInOneSession'
      <4>1. \A f \in Files, a \in Attempts : disk'[f][a] > 0 => isOpen'[f][a] /\ a = stored'[f]
        BY <2>1, <3>2 DEF BytesInOneSession
      <4>2. ASSUME NEW q \in wire', q.kind = "patch", isOpen'[q.of][q.sid]
            PROVE  q.sid = stored'[q.of]
        <5>1. q \in wire /\ q.of \in Files /\ q.sid \in Attempts
          BY <2>1, <4>2, WireFields
        <5> QED BY <2>1, <3>2, <4>2, <5>1 DEF BytesInOneSession
      <4> QED BY <4>1, <4>2 DEF BytesInOneSession
    <3> QED BY <1>4, <2>1, <2>2, <3>1, <3>2, <3>3, <3>4, <3>5, ResumesServed
  <2> QED BY <2>3, <2>4
<1>12. ~HandleLook(r) /\ ~HandleDrop(r)
  BY <1>1 DEF HandleLook, HandleDrop, Taken
<1> QED BY <1>6, <1>7, <1>8, <1>9, <1>10, <1>11, <1>12 DEF Handle, HandlePatch

\* A calm state follows a calm one: what fails or is visited stays counted.
LEMMA CalmBefore ==
  ASSUME IInv, [ClientNext]_clientVars, faults' = 0, visits' = 0
  PROVE  Calm /\ ~Fault /\ ~Visit
<1> USE DEF pageVars, localVars, sessionVars, fileVars
<1>1. faults \in Nat /\ visits \in Nat
  BY DEF IInv, ClientTypeOK, LocalTypeOK, NetTypeOK
<1>2. ~Fault /\ ~Visit
  BY <1>1 DEF Fault, Visit
<1>3. faults' = faults /\ visits' = visits
  BY <1>2 DEF ClientNext, clientVars, Event, Begin, TakeReply, TakeAsk, TakeOpen, TakePatch, TakePost,
     Abort, Close, Reload, Discard, Unlist, Break, Expire, Handle, HandleAsk, HandleLook, HandleOpen,
     HandleDrop, HandlePost, HandlePatch, PatchUnknown, PatchConflict, PatchAppend, Taken, Refuse,
     Vanish, FailPatch
<1> QED BY <1>2, <1>3 DEF Calm

LEMMA StepResumes == IInv /\ Resumes /\ [ClientNext]_clientVars => Resumes'
<1> SUFFICES ASSUME IInv, Resumes, [ClientNext]_clientVars, Calm' PROVE OneSessionEach'
  BY DEF Resumes
<1> USE DEF pageVars, localVars, sessionVars, fileVars
<1>1. faults' = 0 /\ visits' = 0
  BY DEF Calm
<1>2. ~Fault /\ ~Visit /\ Calm
  BY <1>1, CalmBefore
<1>4. OneSessionEach
  BY <1>2 DEF Resumes
<1>5. listed = {}
  BY <1>4 DEF OneSessionEach, NothingListed
<1>6. CASE UNCHANGED clientVars
  BY <1>4, <1>6, ResumesQuietly DEF clientVars
<1>7. ASSUME NEW f \in Files, Begin(f) \/ Abort(f) \/ Close(f) \/ TakeReply(f)
      PROVE  OneSessionEach'
  <2>0. phase \in [Files -> Awaited \union Ended \union {"idle"}]
    BY DEF IInv, ClientTypeOK, PageTypeOK
  <2>1. CASE Abort(f)
    <3>1. CASE phase[f] \in {"patch", "post"}
      <4>1. /\ phase' = [phase EXCEPT ![f] = "failed"] /\ reply' = [reply EXCEPT ![f] = NoReply]
            /\ UNCHANGED <<attempt, stored, listed, sid, disk, isOpen, wire>>
        BY <2>1, <3>1 DEF Abort
      <4> QED BY <1>4, <2>0, <4>1, SessionTypes, ResumesQuietly
    <3>2. CASE phase[f] \notin {"patch", "post"}
      BY <1>4, <2>1, <3>2, ResumesQuietly DEF Abort
    <3> QED BY <3>1, <3>2
  <2>2. CASE Close(f)
    <3>1. /\ phase' = [phase EXCEPT ![f] = "idle"] /\ sid' = [sid EXCEPT ![f] = 0]
          /\ UNCHANGED <<attempt, stored, listed, reply, disk, isOpen, wire>>
      BY <2>2 DEF Close
    <3> QED BY <1>4, <2>0, <3>1, SessionTypes, ResumesQuietly
  <2> QED BY <1>4, <1>7, <2>1, <2>2, ResumesBegin, ResumesTakeReply
<1>8. CASE Reload
  <2>1. \A f \in Files : phase'[f] = "idle"
    BY <1>8 DEF Reload
  <2> QED BY <1>4, <1>5, <1>8, <2>1, ResumesQuietly DEF Reload
<1>9. ASSUME NEW r \in wire, Handle(r) \/ Vanish(r)
      PROVE  OneSessionEach'
  <2>1. CASE Vanish(r)
    BY <1>4, <2>1, ResumesQuietly DEF Vanish
  <2> QED BY <1>4, <1>9, <2>1, ResumesHandle
<1> QED BY <1>2, <1>5, <1>6, <1>7, <1>8, <1>9
        DEF ClientNext, Event, Break, Refuse, FailPatch, Expire

-----------------------------------------------------------------------------
(* The theorems. *)

\* Every variable of the browser, the network and the sessions keeps its type,
\* and what speaks of a session names one that exists (uploadFileChunked,
\* api/routes/uploads.py).
THEOREM ClientTypes == ClientSpec => []ClientTypeOK
<1>1. ClientInit => IInv
  BY InitIInv
<1>2. IInv /\ [ClientNext]_clientVars => IInv'
  BY StepIInv
<1>3. IInv => ClientTypeOK
  BY DEF IInv
<1> QED BY <1>1, <1>2, <1>3, PTL DEF ClientSpec

\* The client and the server, over a network that loses, delays and reorders
\* requests, keep the promise of UploadPromise: an attempt stores at most one
\* copy, and a row is marked done only for an attempt that stored its copy.
THEOREM ClientKeepsPromise == ClientSpec => Promise!PromiseSafety
<1>1. ClientInit => IInv
  BY InitIInv
<1>2. IInv /\ [ClientNext]_clientVars => IInv'
  BY StepIInv
<1>3. ClientInit => Promise!PromiseInit
  BY PromiseStart
<1>4. IInv /\ [ClientNext]_clientVars => [Promise!PromiseNext]_(Promise!promiseVars)
  BY PromiseStep
<1> QED BY <1>1, <1>2, <1>3, <1>4, PTL DEF ClientSpec, Promise!PromiseSafety

-----------------------------------------------------------------------------
(* The batch. *)

Statuses == {"uploading", "done", "error", "canceled"}
Rows == [of : Files, status : Statuses]

\* The arrays agree, and no file is in two rows.
Arrays ==
  /\ rows \in Seq(Rows) /\ files \in Seq(Files) /\ controllers \in Seq(BOOLEAN)
  /\ Len(files) = Len(rows) /\ Len(controllers) = Len(rows)
  /\ \A i \in 1 .. Len(rows) : rows[i].of = files[i]
  /\ \A i, j \in 1 .. Len(rows) : files[i] = files[j] => i = j

\* The workers have yet to start what is in the queue.
Queued ==
  /\ queue \in Seq(1 .. Len(rows))
  /\ \A j, k \in 1 .. Len(queue) : queue[j] = queue[k] => j = k
  /\ \A k \in 1 .. Len(queue) : ~controllers[queue[k]]
  /\ active \in BOOLEAN
  /\ ~active => queue = <<>> /\ \A i \in 1 .. Len(rows) : ~controllers[i]

Skipped ==
  canceled \in SUBSET {i \in 1 .. Len(rows) : rows[i].status = "canceled" /\ ~controllers[i]}

\* A row has a controller while its attempt is under way, and shows it; a row
\* shown as uploading without one is still in the queue.
Shown ==
  /\ \A i \in 1 .. Len(rows) :
       controllers[i] => rows[i].status = "uploading" /\ phase[files[i]] # "idle"
  /\ \A i \in 1 .. Len(rows) :
       rows[i].status = "uploading" /\ ~controllers[i] => \E k \in 1 .. Len(queue) : queue[k] = i
  /\ \A f \in Files : phase[f] # "idle" => \E i \in 1 .. Len(rows) : controllers[i] /\ files[i] = f

BInv == Arrays /\ Queued /\ Skipped /\ Shown

-----------------------------------------------------------------------------
(* Sequences. *)

LEMMA AscendingType ==
  ASSUME NEW n \in Nat, NEW S \in SUBSET (1 .. n), NEW q \in Ascending(S)
  PROVE  /\ q \in Seq(S) /\ Len(q) \in Nat /\ DOMAIN q = 1 .. Len(q)
         /\ \A j, k \in 1 .. Len(q) : q[j] = q[k] => j = k
         /\ \A k \in 1 .. Len(q) : q[k] \in S
<1>1. IsFiniteSet(S)
  <2>1. IsFiniteSet(1 .. n)
    BY FS_Interval
  <2> QED BY <2>1, FS_Subset
<1>2. Cardinality(S) \in Nat
  BY <1>1, FS_CardinalityType
<1>3. /\ q \in [1 .. Cardinality(S) -> S]
      /\ \A j, k \in 1 .. Cardinality(S) : j < k => q[j] < q[k]
  BY DEF Ascending
<1>4. q \in Seq(S)
  BY <1>2, <1>3, SeqDef
<1>5. Len(q) = Cardinality(S) /\ DOMAIN q = 1 .. Len(q)
  BY <1>2, <1>3, <1>4
<1>6. \A j, k \in 1 .. Len(q) : q[j] = q[k] => j = k
  <2> SUFFICES ASSUME NEW j \in 1 .. Len(q), NEW k \in 1 .. Len(q), q[j] = q[k], j # k
               PROVE  FALSE
    OBVIOUS
  <2>1. j < k \/ k < j
    BY <1>2, <1>5
  <2>2. q[j] \in S /\ q[k] \in S
    BY <1>3, <1>5
  <2>3. q[j] \in 1 .. n /\ q[k] \in 1 .. n
    BY Zenon, <2>2
  <2> QED BY <1>3, <1>5, <2>1, <2>3
<1> QED BY <1>2, <1>3, <1>4, <1>5, <1>6

LEMMA ThroughType ==
  ASSUME NEW T, NEW s \in Seq(T), NEW q \in Seq(1 .. Len(s))
  PROVE  /\ Through(s, q) \in Seq(T) /\ Len(Through(s, q)) = Len(q)
         /\ \A k \in 1 .. Len(q) : Through(s, q)[k] = s[q[k]]
<1>1. DOMAIN q = 1 .. Len(q) /\ Len(q) \in Nat /\ \A k \in 1 .. Len(q) : q[k] \in 1 .. Len(s)
  OBVIOUS
<1>2. \A k \in 1 .. Len(q) : s[q[k]] \in T
  BY <1>1
<1>3. Through(s, q) \in [1 .. Len(q) -> T]
  BY <1>1, <1>2 DEF Through
<1>4. Through(s, q) \in Seq(T)
  <2> DEFINE t == Through(s, q)
  <2>1. t \in [1 .. Len(q) -> T] /\ Len(q) \in Nat
    BY <1>1, <1>3
  <2> HIDE DEF t
  <2>2. t \in UNION {[1 .. n -> T] : n \in Nat}
    BY <2>1
  <2>3. t \in Seq(T)
    BY <2>2, SeqDef
  <2> QED BY <2>3 DEF t
<1> QED BY <1>1, <1>3, <1>4 DEF Through

LEMMA RemoveAtType ==
  ASSUME NEW T, NEW s \in Seq(T), NEW i \in 1 .. Len(s)
  PROVE  /\ RemoveAt(s, i) \in Seq(T) /\ Len(RemoveAt(s, i)) = Len(s) - 1
         /\ \A k \in 1 .. Len(s) - 1 : RemoveAt(s, i)[k] = s[IF k < i THEN k ELSE k + 1]
<1> DEFINE u == SubSeq(s, 1, i - 1)
<1> DEFINE v == SubSeq(s, i + 1, Len(s))
<1>1. i \in Int /\ Len(s) \in Nat /\ i - 1 \in Int /\ i + 1 \in Int
  OBVIOUS
<1>2. \A k \in 1 .. Len(s) : s[k] \in T
  BY ElementOfSeq
<1>3. u \in Seq(T) /\ Len(u) = i - 1 /\ \A k \in 1 .. i - 1 : u[k] = s[k]
  <2>1. \A k \in 1 .. i - 1 : s[k] \in T
    BY <1>1, <1>2
  <2> QED BY <1>1, <2>1, SubSeqProperties
<1>4. v \in Seq(T) /\ Len(v) = Len(s) - i /\ \A k \in 1 .. Len(s) - i : v[k] = s[i + k]
  <2>1. \A k \in i + 1 .. Len(s) : s[k] \in T
    BY <1>1, <1>2
  <2> QED BY <1>1, <2>1, SubSeqProperties
<1> HIDE DEF u, v
<1>5. /\ u \o v \in Seq(T) /\ Len(u \o v) = Len(u) + Len(v)
      /\ \A k \in 1 .. Len(u) + Len(v) : (u \o v)[k] = IF k <= Len(u) THEN u[k] ELSE v[k - Len(u)]
  BY <1>3, <1>4, ConcatProperties
<1>6. RemoveAt(s, i) = u \o v
  BY DEF RemoveAt, u, v
<1>7. ASSUME NEW k \in 1 .. Len(s) - 1
      PROVE  (u \o v)[k] = s[IF k < i THEN k ELSE k + 1]
  <2>1. CASE k < i
    BY <1>1, <1>3, <1>4, <1>5, <2>1
  <2>2. CASE ~(k < i)
    <3>1. k - Len(u) \in 1 .. Len(s) - i /\ ~(k <= Len(u)) /\ i + (k - Len(u)) = k + 1
      BY <1>1, <1>3, <2>2
    <3>2. k \in 1 .. Len(u) + Len(v)
      BY <1>1, <1>3, <1>4
    <3>3. (u \o v)[k] = v[k - Len(u)]
      BY <1>5, <3>1, <3>2
    <3>4. v[k - Len(u)] = s[k + 1]
      BY <1>4, <3>1
    <3> QED BY <2>2, <3>3, <3>4
  <2> QED BY <2>1, <2>2
<1>8. Len(u) + Len(v) = Len(s) - 1
  BY <1>1, <1>3, <1>4
<1> QED BY <1>5, <1>6, <1>7, <1>8

-----------------------------------------------------------------------------
(* The steps keep BInv. *)

LEMMA QuietKeeps ==
  ASSUME BInv, SameCalls, UNCHANGED batchVars
  PROVE  BInv'
<1>1. (Arrays /\ Queued /\ Skipped)'
  BY DEF BInv, Arrays, Queued, Skipped, batchVars
<1>2. files \in Seq(Files) /\ Len(files) = Len(rows)
  BY DEF BInv, Arrays
<1>3. \A i \in 1 .. Len(rows) : files[i] \in Files
  BY <1>2, ElementOfSeq
<1>4. Shown'
  BY <1>3 DEF BInv, Shown, SameCalls, batchVars
<1> QED BY <1>1, <1>4 DEF BInv

\* A worker takes the next index.
LEMMA PullKeeps ==
  ASSUME BInv, IInv, Pull
  PROVE  BInv' /\ (UNCHANGED clientVars \/ \E f \in Files : Begin(f))
<1> DEFINE i == Head(queue)
<1>1. /\ queue # <<>> /\ queue' = Tail(queue) /\ UNCHANGED <<files, canceled, active>> /\ active
  BY DEF Pull
<1>2. /\ Len(queue) \in Nat \ {0} /\ i = queue[1] /\ i \in 1 .. Len(rows)
      /\ Len(queue') = Len(queue) - 1 /\ queue' \in Seq(1 .. Len(rows))
      /\ \A k \in 1 .. Len(queue') : queue'[k] = queue[k + 1] /\ k + 1 \in 1 .. Len(queue)
  <2>1. queue \in Seq(1 .. Len(rows))
    BY DEF BInv, Queued
  <2> QED BY <1>1, <2>1, HeadTailProperties, EmptySeq
<1>3. rows \in Seq(Rows) /\ files \in Seq(Files) /\ controllers \in Seq(BOOLEAN)
      /\ Len(files) = Len(rows) /\ Len(controllers) = Len(rows)
  BY DEF BInv, Arrays
<1>4. /\ ~controllers[i]
      /\ \A k \in 1 .. Len(queue') : queue'[k] # i /\ ~controllers[queue'[k]]
      /\ \A j, k \in 1 .. Len(queue') : queue'[j] = queue'[k] => j = k
      /\ \A m \in 1 .. Len(rows) : m # i /\ (\E k \in 1 .. Len(queue) : queue[k] = m)
           => \E k \in 1 .. Len(queue') : queue'[k] = m
  <2>1. /\ \A j, k \in 1 .. Len(queue) : queue[j] = queue[k] => j = k
        /\ \A k \in 1 .. Len(queue) : ~controllers[queue[k]]
    BY DEF BInv, Queued
  <2>2. 1 \in 1 .. Len(queue) /\ \A k \in 1 .. Len(queue') : k + 1 # 1
    BY <1>2
  <2>3. ASSUME NEW m \in 1 .. Len(rows), m # i, NEW k \in 1 .. Len(queue), queue[k] = m
        PROVE  \E l \in 1 .. Len(queue') : queue'[l] = m
    <3>1. k # 1 /\ k - 1 \in 1 .. Len(queue') /\ (k - 1) + 1 = k
      BY <1>2, <2>3
    <3> QED BY <1>2, <2>3, <3>1
  <2>4. ~controllers[i] /\ \A k \in 1 .. Len(queue') : queue'[k] # i /\ ~controllers[queue'[k]]
    BY <1>2, <2>1, <2>2
  <2>5. ASSUME NEW j \in 1 .. Len(queue'), NEW k \in 1 .. Len(queue'), queue'[j] = queue'[k]
        PROVE  j = k
    <3>1. j + 1 \in 1 .. Len(queue) /\ k + 1 \in 1 .. Len(queue) /\ queue[j + 1] = queue[k + 1]
      BY <1>2, <2>5
    <3>2. j + 1 = k + 1
      BY <2>1, <3>1
    <3> QED BY <1>2, <3>2
  <2> QED BY <2>3, <2>4, <2>5
<1>5. files[i] \in Files /\ rows[i] \in Rows
  BY <1>2, <1>3, ElementOfSeq
<1> HIDE DEF i
<1>6. CASE i \in canceled
  <2>1. rows' = [rows EXCEPT ![i].status = "canceled"] /\ UNCHANGED <<controllers, clientVars>>
    BY <1>6 DEF Pull, Mark, i
  <2>2. UNCHANGED phase
    BY <2>1 DEF clientVars, pageVars
  <2>3. [rows[i] EXCEPT !.status = "canceled"] \in Rows
    BY <1>5 DEF Rows, Statuses
  <2>4. /\ rows' \in Seq(Rows) /\ Len(rows') = Len(rows)
        /\ \A m \in 1 .. Len(rows) : m # i => rows'[m] = rows[m]
        /\ rows'[i].of = rows[i].of /\ rows'[i].status = "canceled"
    BY <1>2, <1>3, <1>5, <2>1, <2>3, ExceptSeq DEF Rows
  <2>5. Arrays'
    BY <1>1, <1>3, <2>1, <2>4 DEF BInv, Arrays
  <2>6. Queued'
    BY <1>1, <1>2, <1>4, <2>1, <2>4 DEF BInv, Queued
  <2>7. Skipped'
    BY <1>1, <2>1, <2>4 DEF BInv, Skipped
  <2>8. Shown'
    BY <1>1, <1>4, <2>1, <2>2, <2>4 DEF BInv, Shown
  <2> QED BY <2>1, <2>5, <2>6, <2>7, <2>8 DEF BInv
<1>7. CASE i \notin canceled
  <2>1. /\ Begin(files[i]) /\ rows' = [rows EXCEPT ![i].status = "uploading"]
        /\ controllers' = [controllers EXCEPT ![i] = TRUE]
    BY <1>7 DEF Pull, Mark, i
  <2>2. [rows[i] EXCEPT !.status = "uploading"] \in Rows
    BY <1>5 DEF Rows, Statuses
  <2>3. /\ rows' \in Seq(Rows) /\ Len(rows') = Len(rows)
        /\ \A m \in 1 .. Len(rows) : m # i => rows'[m] = rows[m]
        /\ rows'[i].of = rows[i].of /\ rows'[i].status = "uploading"
    BY <1>2, <1>3, <1>5, <2>1, <2>2, ExceptSeq DEF Rows
  <2>4. /\ controllers' \in Seq(BOOLEAN) /\ Len(controllers') = Len(rows)
        /\ \A m \in 1 .. Len(rows) : m # i => controllers'[m] = controllers[m]
        /\ controllers'[i]
    BY <1>2, <1>3, <2>1, ExceptSeq
  <2>5. phase'[files[i]] # "idle" /\ \A f \in Files : f # files[i] => phase'[f] = phase[f]
    <3>1. phase \in [Files -> Awaited \union Ended \union {"idle"}]
      BY DEF IInv, ClientTypeOK, PageTypeOK
    <3>2. \E kind \in Awaited : phase' = [phase EXCEPT ![files[i]] = kind]
      BY <2>1 DEF Begin, Awaited
    <3> QED BY <1>5, <3>1, <3>2 DEF Awaited
  <2>6. Arrays'
    BY <1>1, <1>3, <2>3, <2>4 DEF BInv, Arrays
  <2>7. Queued'
    <3>1. \A k \in 1 .. Len(queue') : queue'[k] \in 1 .. Len(rows)
      BY <1>2, ElementOfSeq
    <3>2. \A k \in 1 .. Len(queue') : ~controllers'[queue'[k]]
      BY <1>4, <2>4, <3>1
    <3>3. queue' \in Seq(1 .. Len(rows')) /\ \A j, k \in 1 .. Len(queue') : queue'[j] = queue'[k] => j = k
      BY <1>2, <1>4, <2>3
    <3> QED BY <1>1, <3>2, <3>3 DEF BInv, Queued
  <2>8. Skipped'
    BY <1>1, <1>7, <2>3, <2>4 DEF BInv, Skipped
  <2>9. Shown'
    <3>1. \A m \in 1 .. Len(rows) : m # i => files[m] # files[i] /\ files[m] \in Files
      BY <1>2, <1>3, ElementOfSeq DEF BInv, Arrays
    <3>2. \A m \in 1 .. Len(rows) :
            controllers'[m] => rows'[m].status = "uploading" /\ phase'[files'[m]] # "idle"
      BY <1>1, <2>3, <2>4, <2>5, <3>1 DEF BInv, Shown
    <3>3. \A m \in 1 .. Len(rows) :
            rows'[m].status = "uploading" /\ ~controllers'[m] => \E k \in 1 .. Len(queue') : queue'[k] = m
      BY <1>4, <2>3, <2>4 DEF BInv, Shown
    <3>4. \A f \in Files : phase'[f] # "idle" => \E m \in 1 .. Len(rows) : controllers'[m] /\ files'[m] = f
      <4> SUFFICES ASSUME NEW f \in Files, phase'[f] # "idle"
                   PROVE  \E m \in 1 .. Len(rows) : controllers'[m] /\ files[m] = f
        BY <1>1
      <4>1. CASE f = files[i]
        BY <1>2, <2>4, <4>1
      <4>2. CASE f # files[i]
        <5>1. PICK m \in 1 .. Len(rows) : controllers[m] /\ files[m] = f
          BY <2>5, <4>2 DEF BInv, Shown
        <5>2. controllers'[m]
          BY <1>4, <2>4, <5>1
        <5> QED BY <5>1, <5>2
      <4> QED BY <4>1, <4>2
    <3> QED BY <2>3, <3>2, <3>3, <3>4 DEF Shown
  <2> QED BY <1>5, <2>1, <2>6, <2>7, <2>8, <2>9 DEF BInv
<1> QED BY <1>6, <1>7

LEMMA SettleKeeps ==
  ASSUME BInv, IInv, NEW i \in Index, Settle(i)
  PROVE  BInv' /\ \E f \in Files : Close(f)
<1>1. rows \in Seq(Rows) /\ files \in Seq(Files) /\ controllers \in Seq(BOOLEAN)
      /\ Len(files) = Len(rows) /\ Len(controllers) = Len(rows)
  BY DEF BInv, Arrays
<1>2. i \in 1 .. Len(rows) /\ files[i] \in Files /\ rows[i] \in Rows
  BY <1>1, ElementOfSeq DEF Index
<1>3. /\ controllers[i] /\ Close(files[i]) /\ UNCHANGED <<files, canceled, active, queue>>
      /\ controllers' = [controllers EXCEPT ![i] = FALSE]
  BY DEF Settle, Busy
<1> DEFINE status == CASE phase[files[i]] = "succeeded" -> "done"
                       [] aborted[files[i]] -> "canceled"
                       [] OTHER -> "error"
<1>4. status \in {"done", "canceled", "error"} /\ rows' = [rows EXCEPT ![i].status = status]
  <2>1. rows' = [rows EXCEPT ![i].status = status]
    BY DEF Settle, Mark
  <2>2. CASE phase[files[i]] = "succeeded"
    <3>1. phase[files[i]] # "failed"
      BY <2>2
    <3>2. status = "done" \/ status = "canceled"
      BY <2>2
    <3> QED BY <2>1, <3>2
  <2>3. CASE phase[files[i]] # "succeeded" /\ aborted[files[i]]
    BY <2>1, <2>3
  <2>4. CASE phase[files[i]] # "succeeded" /\ ~aborted[files[i]]
    BY <2>1, <2>4
  <2> QED BY <2>2, <2>3, <2>4
<1> HIDE DEF status
<1>5. [rows[i] EXCEPT !.status = status] \in Rows
  BY <1>2, <1>4 DEF Rows, Statuses
<1>6. /\ rows' \in Seq(Rows) /\ Len(rows') = Len(rows)
      /\ \A m \in 1 .. Len(rows) : m # i => rows'[m] = rows[m]
      /\ rows'[i].of = rows[i].of /\ rows'[i].status = status
  BY <1>1, <1>2, <1>4, <1>5, ExceptSeq DEF Rows
<1>7. /\ controllers' \in Seq(BOOLEAN) /\ Len(controllers') = Len(rows)
      /\ \A m \in 1 .. Len(rows) : m # i => controllers'[m] = controllers[m]
      /\ ~controllers'[i]
  BY <1>1, <1>2, <1>3, ExceptSeq
<1>8. phase'[files[i]] = "idle" /\ \A f \in Files : f # files[i] => phase'[f] = phase[f]
  <2>1. phase \in [Files -> Awaited \union Ended \union {"idle"}]
    BY DEF IInv, ClientTypeOK, PageTypeOK
  <2> QED BY <1>2, <1>3, <2>1 DEF Close
<1>9. Arrays'
  BY <1>1, <1>3, <1>6, <1>7 DEF BInv, Arrays
<1>10. Queued'
  <2>1. queue \in Seq(1 .. Len(rows))
    BY DEF BInv, Queued
  <2>2. \A k \in 1 .. Len(queue) : queue[k] \in 1 .. Len(rows) /\ ~controllers[queue[k]]
    BY <2>1, ElementOfSeq DEF BInv, Queued
  <2>3. \A k \in 1 .. Len(queue) : ~controllers'[queue[k]]
    BY <1>7, <2>2
  <2>4. active
    BY <1>2, <1>3 DEF BInv, Queued
  <2> QED BY <1>3, <1>6, <2>1, <2>3, <2>4 DEF BInv, Queued
<1>11. Skipped'
  BY <1>3, <1>6, <1>7 DEF BInv, Skipped
<1>12. Shown'
  <2>1. \A m \in 1 .. Len(rows) : m # i => files[m] # files[i] /\ files[m] \in Files
    BY <1>1, <1>2, ElementOfSeq DEF BInv, Arrays
  <2>2. \A m \in 1 .. Len(rows) :
          controllers'[m] => rows'[m].status = "uploading" /\ phase'[files'[m]] # "idle"
    BY <1>3, <1>6, <1>7, <1>8, <2>1 DEF BInv, Shown
  <2>3. \A m \in 1 .. Len(rows) :
          rows'[m].status = "uploading" /\ ~controllers'[m] => \E k \in 1 .. Len(queue') : queue'[k] = m
    <3>1. rows'[i].status # "uploading"
      BY <1>4, <1>6
    <3> QED BY <1>3, <1>6, <1>7, <3>1 DEF BInv, Shown
  <2>4. \A f \in Files : phase'[f] # "idle" => \E m \in 1 .. Len(rows) : controllers'[m] /\ files'[m] = f
    BY <1>3, <1>7, <1>8 DEF BInv, Shown
  <2> QED BY <1>6, <2>2, <2>3, <2>4 DEF Shown
<1> QED BY <1>2, <1>3, <1>9, <1>10, <1>11, <1>12 DEF BInv

\* The arrays are dropped while no attempt is under way.
LEMMA DropKeeps ==
  ASSUME BInv, Drop, \A f \in Files : phase'[f] = "idle", active' = FALSE, queue' = <<>>
  PROVE  BInv'
<1>1. rows' = <<>> /\ files' = <<>> /\ controllers' = <<>> /\ canceled' = {}
  BY DEF Drop
<1>2. Len(rows') = 0 /\ Len(files') = 0 /\ Len(controllers') = 0 /\ Len(queue') = 0
  BY <1>1
<1>3. Arrays'
  BY <1>1, <1>2, EmptySeq DEF Arrays
<1>4. Queued'
  <2>1. queue' \in Seq(1 .. Len(rows'))
    BY EmptySeq
  <2>2. active' \in BOOLEAN
    OBVIOUS
  <2>3. \A j, k \in 1 .. Len(queue') : queue'[j] = queue'[k] => j = k
    BY <1>2
  <2>4. \A k \in 1 .. Len(queue') : ~controllers'[queue'[k]]
    BY <1>2
  <2>5. \A i \in 1 .. Len(rows') : ~controllers'[i]
    BY <1>2
  <2> QED BY <2>1, <2>2, <2>3, <2>4, <2>5 DEF Queued
<1>5. Skipped' /\ Shown'
  BY <1>1, <1>2 DEF Skipped, Shown
<1> QED BY <1>3, <1>4, <1>5 DEF BInv

\* An idle batch has no attempt under way.
LEMMA IdleBatch ==
  ASSUME BInv, ~active \/ (queue = <<>> /\ Busy = {})
  PROVE  /\ queue = <<>> /\ \A i \in 1 .. Len(rows) : ~controllers[i] /\ rows[i].status # "uploading"
         /\ \A f \in Files : phase[f] = "idle"
<1>1. queue = <<>> /\ \A i \in 1 .. Len(rows) : ~controllers[i]
  <2>1. DOMAIN rows = 1 .. Len(rows)
    BY DEF BInv, Arrays
  <2> QED BY <2>1 DEF BInv, Queued, Busy, Index
<1>2. Len(queue) = 0
  BY <1>1
<1> QED BY <1>1, <1>2 DEF BInv, Shown

LEMMA FinishKeeps ==
  ASSUME BInv, Finish
  PROVE  BInv' /\ UNCHANGED clientVars
<1>1. /\ queue = <<>> /\ Busy = {} /\ active' = FALSE /\ queue' = queue
      /\ UNCHANGED clientVars /\ UNCHANGED phase
  BY DEF Finish, clientVars, pageVars
<1>2. /\ \A i \in 1 .. Len(rows) : ~controllers[i] /\ rows[i].status # "uploading"
      /\ \A f \in Files : phase[f] = "idle"
  BY <1>1, IdleBatch
<1>3. CASE Drop
  BY <1>1, <1>2, <1>3, DropKeeps
<1>4. CASE UNCHANGED arrays
  <2>1. UNCHANGED <<rows, files, controllers, canceled, queue, phase>>
    BY <1>1, <1>4 DEF arrays
  <2>2. (Arrays /\ Skipped)'
    BY <2>1 DEF BInv, Arrays, Skipped
  <2>3. Queued'
    <3>1. active' \in BOOLEAN
      BY <1>1
    <3>2. queue' = <<>> /\ \A i \in 1 .. Len(rows') : ~controllers'[i]
      BY <1>1, <1>2, <2>1
    <3> QED BY <2>1, <3>1, <3>2 DEF BInv, Queued
  <2>4. Shown'
    BY <1>2, <2>1 DEF Shown
  <2> QED BY <1>1, <2>2, <2>3, <2>4 DEF BInv
<1> QED BY <1>1, <1>3, <1>4 DEF Finish, Cleanup

LEMMA StartKeeps ==
  ASSUME BInv, SameCalls, NEW pick \in Picks \union {<<f>> : f \in Files}, startUploads(pick)
  PROVE  BInv'
<1>1. ~active /\ canceled' = {} /\ active' = TRUE
  BY DEF startUploads
<1>2. \A f \in Files : phase'[f] = "idle"
  BY <1>1, IdleBatch DEF SameCalls
<1>3. pick \in Seq(Files) /\ \A i, j \in DOMAIN pick : pick[i] = pick[j] => i = j
  <2>1. CASE pick \in Picks
    BY <2>1, BatchAssumption
  <2>2. ASSUME NEW f \in Files, pick = <<f>>
        PROVE  pick \in Seq(Files) /\ \A i, j \in DOMAIN pick : pick[i] = pick[j] => i = j
    BY <2>2
  <2> QED BY <2>1, <2>2
<1>4. PICK valid \in Ascending(Valid(pick)) :
        /\ files' = Through(pick, valid)
        /\ rows' = [i \in DOMAIN valid |-> Row(pick[valid[i]], "uploading")]
        /\ controllers' = [i \in DOMAIN valid |-> FALSE]
        /\ queue' = [i \in DOMAIN valid |-> i]
  BY DEF startUploads
<1>5. Valid(pick) \in SUBSET (1 .. Len(pick)) /\ Len(pick) \in Nat
  BY <1>3 DEF Valid
<1> DEFINE n == Len(valid)
<1>6. /\ valid \in Seq(Valid(pick)) /\ n \in Nat /\ DOMAIN valid = 1 .. n
      /\ \A j, k \in 1 .. n : valid[j] = valid[k] => j = k
      /\ \A k \in 1 .. n : valid[k] \in Valid(pick)
  BY <1>5, AscendingType
<1>7. valid \in Seq(1 .. Len(pick)) /\ \A k \in 1 .. n : valid[k] \in 1 .. Len(pick)
  <2>1. \A k \in 1 .. n : valid[k] \in 1 .. Len(pick)
    BY <1>5, <1>6
  <2>2. valid \in Seq(1 .. Len(pick))
    BY <1>5, <1>6, SeqMonotonic
  <2> QED BY <2>1, <2>2
<1>8. files' \in Seq(Files) /\ Len(files') = n /\ \A k \in 1 .. n : files'[k] = pick[valid[k]]
  BY <1>3, <1>4, <1>7, ThroughType
<1>9. \A k \in 1 .. n : pick[valid[k]] \in Files
  BY <1>3, <1>7, ElementOfSeq
<1> HIDE DEF n
<1>10. /\ rows' \in Seq(Rows) /\ Len(rows') = n
       /\ \A k \in 1 .. n : rows'[k].of = pick[valid[k]] /\ rows'[k].status = "uploading"
  <2>1. \A k \in 1 .. n : Row(pick[valid[k]], "uploading") \in Rows
    BY <1>9 DEF Row, Rows, Statuses
  <2>2. rows' \in [1 .. n -> Rows]
    BY <1>4, <1>6, <2>1
  <2>3. rows' \in Seq(Rows)
    BY <1>6, <2>2, SeqDef
  <2> QED BY <1>4, <1>6, <2>2, <2>3 DEF Row
<1>11. controllers' \in Seq(BOOLEAN) /\ Len(controllers') = n /\ \A k \in 1 .. n : ~controllers'[k]
  <2>1. controllers' \in [1 .. n -> BOOLEAN]
    BY <1>4, <1>6
  <2>2. controllers' \in Seq(BOOLEAN)
    BY <1>6, <2>1, SeqDef
  <2> QED BY <1>4, <1>6, <2>1, <2>2
<1>12. queue' \in Seq(1 .. n) /\ Len(queue') = n /\ \A k \in 1 .. n : queue'[k] = k
  <2>1. queue' \in [1 .. n -> 1 .. n]
    BY <1>4, <1>6
  <2>2. queue' \in Seq(1 .. n)
    BY <1>6, <2>1, SeqDef
  <2> QED BY <1>4, <1>6, <2>1, <2>2
<1>13. Arrays'
  <2>1. \A j, k \in 1 .. n : files'[j] = files'[k] => j = k
    BY <1>3, <1>6, <1>7, <1>8
  <2> QED BY <1>8, <1>10, <1>11, <2>1 DEF Arrays
<1>14. Queued'
  BY <1>1, <1>10, <1>11, <1>12 DEF Queued
<1>15. Skipped'
  BY <1>1 DEF Skipped
<1>16. Shown'
  BY <1>2, <1>10, <1>11, <1>12 DEF Shown
<1> QED BY <1>13, <1>14, <1>15, <1>16 DEF BInv

LEMMA CancelKeeps ==
  ASSUME BInv, IInv, NEW i \in Index, cancelUpload(i)
  PROVE  BInv' /\ (UNCHANGED clientVars \/ \E f \in Files : Abort(f))
<1>1. rows \in Seq(Rows) /\ files \in Seq(Files) /\ Len(files) = Len(rows) /\ Len(controllers) = Len(rows)
  BY DEF BInv, Arrays
<1>2. i \in 1 .. Len(rows) /\ files[i] \in Files /\ rows[i] \in Rows
  BY <1>1, ElementOfSeq DEF Index
<1>3. UNCHANGED <<files, controllers, active, queue>> /\ rows[i].status = "uploading"
  BY DEF cancelUpload
<1>4. CASE controllers[i]
  <2>1. Abort(files[i]) /\ UNCHANGED batchVars
    BY <1>3, <1>4 DEF cancelUpload, batchVars
  <2>2. SameCalls
    BY <1>2, <2>1, HiddenStep
  <2> QED BY <1>2, <2>1, <2>2, QuietKeeps
<1>5. CASE ~controllers[i]
  <2>1. /\ canceled' = canceled \union {i} /\ rows' = [rows EXCEPT ![i].status = "canceled"]
        /\ UNCHANGED clientVars /\ UNCHANGED phase
    BY <1>5 DEF cancelUpload, Mark, clientVars, pageVars
  <2>2. [rows[i] EXCEPT !.status = "canceled"] \in Rows
    BY <1>2 DEF Rows, Statuses
  <2>3. /\ rows' \in Seq(Rows) /\ Len(rows') = Len(rows)
        /\ \A m \in 1 .. Len(rows) : m # i => rows'[m] = rows[m]
        /\ rows'[i].of = rows[i].of /\ rows'[i].status = "canceled"
    BY <1>1, <1>2, <2>1, <2>2, ExceptSeq DEF Rows
  <2>4. Arrays'
    BY <1>3, <2>3 DEF BInv, Arrays
  <2>5. Queued'
    BY <1>3, <2>3 DEF BInv, Queued
  <2>6. Skipped'
    BY <1>2, <1>3, <1>5, <2>1, <2>3 DEF BInv, Skipped
  <2>7. Shown'
    BY <1>3, <1>5, <2>1, <2>3 DEF BInv, Shown
  <2> QED BY <2>1, <2>4, <2>5, <2>6, <2>7 DEF BInv
<1> QED BY <1>4, <1>5

LEMMA RequeueKeeps ==
  ASSUME BInv, NEW S \in SUBSET Index, Requeue(S)
  PROVE  BInv' /\ UNCHANGED clientVars
<1>1. /\ ~active /\ canceled' = canceled \ S /\ active' = TRUE /\ queue' \in Ascending(S)
      /\ UNCHANGED <<rows, files, controllers, phase>> /\ UNCHANGED clientVars
  BY DEF Requeue, clientVars, pageVars
<1>2. /\ \A i \in 1 .. Len(rows) : ~controllers[i] /\ rows[i].status # "uploading"
      /\ \A f \in Files : phase[f] = "idle"
  BY <1>1, IdleBatch
<1>3. Len(rows) \in Nat /\ Index = 1 .. Len(rows)
  BY DEF BInv, Arrays, Index
<1>4. /\ queue' \in Seq(S) /\ Len(queue') \in Nat
      /\ \A j, k \in 1 .. Len(queue') : queue'[j] = queue'[k] => j = k
      /\ \A k \in 1 .. Len(queue') : queue'[k] \in S
  BY <1>1, <1>3, AscendingType
<1>5. queue' \in Seq(1 .. Len(rows)) /\ \A k \in 1 .. Len(queue') : queue'[k] \in 1 .. Len(rows)
  BY <1>3, <1>4, SeqMonotonic
<1>6. Arrays'
  BY <1>1 DEF BInv, Arrays
<1>7. Queued'
  BY <1>1, <1>2, <1>4, <1>5 DEF Queued
<1>8. (Skipped /\ Shown)'
  BY <1>1, <1>2 DEF BInv, Skipped, Shown
<1> QED BY <1>1, <1>6, <1>7, <1>8 DEF BInv

\* Rows are taken from an idle batch, the same ones from each of the arrays.
LEMMA ThinnedKeeps ==
  ASSUME BInv, ~active, UNCHANGED <<active, queue, clientVars>>, canceled' = {},
         NEW q \in Seq(1 .. Len(rows)), \A j, k \in 1 .. Len(q) : q[j] = q[k] => j = k,
         rows' \in Seq(Rows), files' \in Seq(Files), controllers' \in Seq(BOOLEAN),
         Len(rows') = Len(q), Len(files') = Len(q), Len(controllers') = Len(q),
         \A k \in 1 .. Len(q) :
           rows'[k] = rows[q[k]] /\ files'[k] = files[q[k]] /\ controllers'[k] = controllers[q[k]]
  PROVE  BInv'
<1>1. /\ queue = <<>> /\ \A i \in 1 .. Len(rows) : ~controllers[i] /\ rows[i].status # "uploading"
      /\ \A f \in Files : phase[f] = "idle"
  BY IdleBatch
<1>2. \A k \in 1 .. Len(q) : q[k] \in 1 .. Len(rows)
  BY ElementOfSeq
<1>3. \A k \in 1 .. Len(q) : ~controllers'[k] /\ rows'[k].status # "uploading"
  BY <1>1, <1>2
<1>4. UNCHANGED phase
  BY DEF clientVars, pageVars
<1>5. Arrays'
  <2>1. \A k \in 1 .. Len(q) : rows'[k].of = files'[k]
    BY <1>2 DEF BInv, Arrays
  <2>2. \A j, k \in 1 .. Len(q) : files'[j] = files'[k] => j = k
    BY <1>2 DEF BInv, Arrays
  <2> QED BY <2>1, <2>2 DEF Arrays
<1>6. Queued'
  <2>1. queue' \in Seq(1 .. Len(rows')) /\ Len(queue') = 0
    BY <1>1, EmptySeq
  <2> QED BY <1>1, <1>3, <2>1 DEF BInv, Queued
<1>7. Skipped'
  BY DEF Skipped
<1>8. Shown'
  BY <1>1, <1>3, <1>4 DEF Shown
<1> QED BY <1>5, <1>6, <1>7, <1>8 DEF BInv

LEMMA DismissKeeps ==
  ASSUME BInv, NEW i \in Index, dismissUpload(i)
  PROVE  BInv' /\ UNCHANGED clientVars
<1>1. ~active /\ UNCHANGED <<active, queue, clientVars>> /\ UNCHANGED phase
  BY DEF dismissUpload, clientVars, pageVars
<1>2. queue = <<>> /\ \A f \in Files : phase[f] = "idle"
  BY <1>1, IdleBatch
<1>3. rows \in Seq(Rows) /\ files \in Seq(Files) /\ controllers \in Seq(BOOLEAN)
      /\ Len(files) = Len(rows) /\ Len(controllers) = Len(rows) /\ Len(rows) \in Nat
  BY DEF BInv, Arrays
<1>4. i \in 1 .. Len(rows)
  BY <1>3 DEF Index
<1>5. CASE Drop
  <2>1. active' = FALSE
    BY <1>1 DEF BInv, Queued
  <2> QED BY <1>1, <1>2, <1>5, <2>1, DropKeeps
<1>6. CASE /\ rows' = RemoveAt(rows, i) /\ files' = RemoveAt(files, i)
           /\ controllers' = RemoveAt(controllers, i) /\ canceled' = {}
  <2> DEFINE n == Len(rows) - 1
  <2> DEFINE q == [k \in 1 .. n |-> IF k < i THEN k ELSE k + 1]
  <2>1. n \in Nat /\ q \in [1 .. n -> 1 .. Len(rows)]
    BY <1>3, <1>4
  <2>2. \A k \in 1 .. n : q[k] = IF k < i THEN k ELSE k + 1
    OBVIOUS
  <2>3. \A j, k \in 1 .. n : q[j] = q[k] => j = k
    BY <1>4, <2>2
  <2> HIDE DEF q
  <2>4. q \in Seq(1 .. Len(rows)) /\ Len(q) = n
    <3>1. q \in Seq(1 .. Len(rows))
      BY <2>1, SeqDef
    <3> QED BY <2>1, <3>1
  <2>5. rows' \in Seq(Rows) /\ Len(rows') = n /\ \A k \in 1 .. n : rows'[k] = rows[q[k]]
    BY <1>3, <1>4, <1>6, <2>2, RemoveAtType
  <2>6. files' \in Seq(Files) /\ Len(files') = n /\ \A k \in 1 .. n : files'[k] = files[q[k]]
    <3>1. i \in 1 .. Len(files) /\ n = Len(files) - 1
      BY <1>3, <1>4
    <3>2. /\ files' \in Seq(Files) /\ Len(files') = Len(files) - 1
          /\ \A k \in 1 .. Len(files) - 1 : files'[k] = files[IF k < i THEN k ELSE k + 1]
      BY <1>3, <1>6, <3>1, RemoveAtType
    <3> QED BY <2>2, <3>1, <3>2
  <2>7. /\ controllers' \in Seq(BOOLEAN) /\ Len(controllers') = n
        /\ \A k \in 1 .. n : controllers'[k] = controllers[q[k]]
    <3>1. i \in 1 .. Len(controllers) /\ n = Len(controllers) - 1
      BY <1>3, <1>4
    <3>2. /\ controllers' \in Seq(BOOLEAN) /\ Len(controllers') = Len(controllers) - 1
          /\ \A k \in 1 .. Len(controllers) - 1 : controllers'[k] = controllers[IF k < i THEN k ELSE k + 1]
      BY <1>3, <1>6, <3>1, RemoveAtType
    <3> QED BY <2>2, <3>1, <3>2
  <2> HIDE DEF n
  <2> QED BY <1>1, <1>6, <2>3, <2>4, <2>5, <2>6, <2>7, ThinnedKeeps
<1> QED BY <1>1, <1>5, <1>6 DEF dismissUpload

LEMMA ClearKeeps ==
  ASSUME BInv, clearCompleted
  PROVE  BInv' /\ UNCHANGED clientVars
<1>1. ~active /\ UNCHANGED <<active, queue, clientVars>> /\ UNCHANGED clientVars /\ canceled' = {}
  BY DEF clearCompleted
<1> DEFINE S == {i \in Index : rows[i].status # "done"}
<1>2. PICK keep \in Ascending(S) :
        /\ rows' = Through(rows, keep)
        /\ files' = Through(files, keep)
        /\ controllers' = Through(controllers, keep)
  BY DEF clearCompleted
<1>3. rows \in Seq(Rows) /\ files \in Seq(Files) /\ controllers \in Seq(BOOLEAN)
      /\ Len(files) = Len(rows) /\ Len(controllers) = Len(rows) /\ Len(rows) \in Nat
  BY DEF BInv, Arrays
<1>4. S \in SUBSET (1 .. Len(rows))
  BY <1>3 DEF Index
<1> HIDE DEF S
<1>5. keep \in Seq(S) /\ \A j, k \in 1 .. Len(keep) : keep[j] = keep[k] => j = k
  BY <1>3, <1>4, AscendingType
<1>6. keep \in Seq(1 .. Len(rows))
  BY <1>4, <1>5, SeqMonotonic
<1>7. rows' \in Seq(Rows) /\ Len(rows') = Len(keep) /\ \A k \in 1 .. Len(keep) : rows'[k] = rows[keep[k]]
  BY <1>2, <1>3, <1>6, ThroughType
<1>8. files' \in Seq(Files) /\ Len(files') = Len(keep) /\ \A k \in 1 .. Len(keep) : files'[k] = files[keep[k]]
  BY <1>2, <1>3, <1>6, ThroughType
<1>9. /\ controllers' \in Seq(BOOLEAN) /\ Len(controllers') = Len(keep)
      /\ \A k \in 1 .. Len(keep) : controllers'[k] = controllers[keep[k]]
  BY <1>2, <1>3, <1>6, ThroughType
<1>10. BInv'
  BY <1>1, <1>5, <1>6, <1>7, <1>8, <1>9, ThinnedKeeps
<1> QED BY <1>1, <1>10

\* Each step keeps BInv and is a step of the client, or none of its business.
LEMMA BatchStep ==
  ASSUME BInv, IInv, [Next]_vars
  PROVE  BInv' /\ [ClientNext]_clientVars
<1>1. CASE Pull
  BY <1>1, PullKeeps DEF ClientNext
<1>2. CASE Finish
  BY <1>2, FinishKeeps
<1>3. CASE \E i \in Index : Settle(i)
  BY <1>3, SettleKeeps DEF ClientNext
<1>4. ASSUME NEW pick \in Picks, pickFiles(pick)
      PROVE  BInv' /\ [ClientNext]_clientVars
  <2>1. startUploads(pick) /\ UNCHANGED clientVars /\ UNCHANGED phase
    BY <1>4 DEF pickFiles, clientVars, pageVars
  <2>2. SameCalls
    BY <2>1 DEF SameCalls
  <2>3. BInv'
    BY <2>1, <2>2, StartKeeps
  <2> QED BY <2>1, <2>3
<1>5. ASSUME NEW e \in listed, resumeFile(e)
      PROVE  BInv' /\ [ClientNext]_clientVars
  <2>1. Unlist(e) /\ (startUploads(<<e.of>>) \/ UNCHANGED batchVars)
    BY <1>5 DEF resumeFile
  <2>2. SameCalls
    BY <2>1, HiddenStep
  <2>3. e.of \in Files
    BY DEF IInv, ClientTypeOK, LocalTypeOK
  <2>4. BInv'
    BY <2>1, <2>2, <2>3, StartKeeps, QuietKeeps
  <2> QED BY <2>1, <2>4 DEF ClientNext
<1>6. CASE \E i \in Index : cancelUpload(i)
  BY <1>6, CancelKeeps DEF ClientNext
<1>7. CASE \E i \in Index : retryUpload(i)
  <2>1. PICK i \in Index : Requeue({i})
    BY <1>7 DEF retryUpload
  <2>2. {i} \in SUBSET Index
    OBVIOUS
  <2> QED BY <2>1, <2>2, RequeueKeeps
<1>8. CASE retryAllFailed
  <2>1. Failed \in SUBSET Index
    BY DEF Failed
  <2> QED BY <1>8, <2>1, RequeueKeeps DEF retryAllFailed
<1>9. CASE \E i \in Index : dismissUpload(i)
  BY <1>9, DismissKeeps
<1>10. CASE clearCompleted
  BY <1>10, ClearKeeps
<1>11. CASE reloadPage
  <2>1. Reload /\ Drop /\ active' = FALSE /\ queue' = <<>> /\ \A f \in Files : phase'[f] = "idle"
    BY <1>11 DEF reloadPage, Reload
  <2>2. BInv'
    BY <2>1, DropKeeps
  <2> QED BY <2>1, <2>2 DEF ClientNext
<1>12. CASE (Visit \/ \E e \in listed : Discard(e)) /\ UNCHANGED batchVars
  <2>1. SameCalls
    BY <1>12, HiddenStep
  <2> QED BY <1>12, <2>1, QuietKeeps DEF ClientNext
<1>13. CASE Event /\ UNCHANGED batchVars
  <2>1. ASSUME NEW r \in wire, Handle(r)
        PROVE  SameCalls
    BY <2>1 DEF Handle, HandleAsk, HandleLook, HandleOpen, HandleDrop, HandlePost, HandlePatch,
                PatchUnknown, PatchConflict, PatchAppend, Taken, pageVars, SameCalls
  <2>2. SameCalls
    BY <1>13, <2>1, HiddenStep DEF Event
  <2> QED BY <1>13, <2>2, QuietKeeps DEF ClientNext
<1>14. CASE UNCHANGED vars
  <2>1. UNCHANGED clientVars /\ UNCHANGED batchVars
    BY <1>14 DEF vars
  <2>2. SameCalls
    BY <2>1, HiddenStep
  <2> QED BY <2>1, <2>2, QuietKeeps
<1> QED BY <1>1, <1>2, <1>3, <1>4, <1>5, <1>6, <1>7, <1>8, <1>9, <1>10, <1>11, <1>12, <1>13, <1>14
        DEF Next, Microtask, User

LEMMA BatchStart == Init => BInv /\ IInv
<1> SUFFICES ASSUME Init PROVE BInv /\ IInv
  OBVIOUS
<1>1. IInv /\ \A f \in Files : phase[f] = "idle"
  BY InitIInv DEF Init, ClientInit
<1>2. /\ rows = <<>> /\ files = <<>> /\ controllers = <<>> /\ canceled = {} /\ queue = <<>>
      /\ active = FALSE
  BY DEF Init
<1>3. Len(rows) = 0 /\ Len(files) = 0 /\ Len(controllers) = 0 /\ Len(queue) = 0
  BY <1>2
<1>4. Arrays
  BY <1>2, <1>3, EmptySeq DEF Arrays
<1>5. Queued
  <2>1. queue \in Seq(1 .. Len(rows)) /\ active \in BOOLEAN
    BY <1>2, EmptySeq
  <2>2. \A k \in 1 .. Len(queue) : ~controllers[queue[k]]
    BY <1>3
  <2>3. \A i \in 1 .. Len(rows) : ~controllers[i]
    BY <1>3
  <2>4. \A j, k \in 1 .. Len(queue) : queue[j] = queue[k] => j = k
    BY <1>3
  <2> QED BY <1>2, <2>1, <2>2, <2>3, <2>4 DEF Queued
<1>6. Skipped /\ Shown
  BY <1>1, <1>2, <1>3 DEF Skipped, Shown
<1> QED BY <1>1, <1>4, <1>5, <1>6 DEF BInv

-----------------------------------------------------------------------------
(* The theorems. *)

LEMMA BatchInvariant == Spec => [](BInv /\ IInv)
<1>1. Init => BInv /\ IInv
  BY BatchStart
<1>2. (BInv /\ IInv) /\ [Next]_vars => (BInv /\ IInv)'
  BY BatchStep, StepIInv
<1> QED BY <1>1, <1>2, PTL DEF Spec

\* Every variable of the batch and of the client keeps its type.
THEOREM BatchTypes == Spec => []TypeOK
<1>1. BInv /\ IInv => TypeOK
  <2> SUFFICES ASSUME BInv, IInv PROVE TypeOK
    OBVIOUS
  <2>1. Index = 1 .. Len(rows) /\ rows \in Seq(Rows)
    BY DEF BInv, Arrays, Index
  <2>2. \A i \in Index : rows[i] \in [of : Files, status : {"uploading", "done", "error", "canceled"}]
    BY <2>1, ElementOfSeq DEF Rows, Statuses
  <2>3. canceled \subseteq Index
    BY <2>1 DEF BInv, Skipped
  <2> QED BY <2>1, <2>2, <2>3 DEF IInv, BInv, Arrays, Queued, TypeOK
<1> QED BY <1>1, BatchInvariant, PTL

\* The parallel arrays of useUploads speak of the same files at the same
\* indices, after any batches, cancels, retries, dismissals and clearings.
THEOREM RowsAlwaysMatch == Spec => []RowsMatchFiles
<1>1. BInv => RowsMatchFiles
  BY DEF BInv, Arrays, Skipped, RowsMatchFiles, Index
<1> QED BY <1>1, BatchInvariant, PTL

\* An attempt under way has a row that shows it and a controller that can
\* abort it, and an idle batch shows none (uploadOne, startUploads).
THEOREM AttemptsAreShown == Spec => []EveryAttemptHasItsRow
<1>1. BInv => EveryAttemptHasItsRow
  <2> SUFFICES ASSUME BInv PROVE EveryAttemptHasItsRow
    OBVIOUS
  <2>1. Index = 1 .. Len(rows)
    BY DEF BInv, Arrays, Index
  <2>2. \A f \in Files : phase[f] # "idle" <=>
                           \E i \in Busy : files[i] = f /\ rows[i].status = "uploading"
    BY <2>1 DEF BInv, Shown, Busy
  <2>3. ~active => \A i \in Index : rows[i].status # "uploading"
    BY <2>1, IdleBatch
  <2> QED BY <2>2, <2>3 DEF EveryAttemptHasItsRow
<1> QED BY <1>1, BatchInvariant, PTL

\* The batch is a user of the client protocol and nothing else.
LEMMA BatchIsClient == Spec => ClientSpec
<1>1. Init => ClientInit
  BY DEF Init
<1>2. BInv /\ IInv /\ [Next]_vars => [ClientNext]_clientVars
  BY BatchStep
<1> QED BY <1>1, <1>2, BatchInvariant, PTL DEF Spec, ClientSpec

\* With the batch above it, the client implements UploadPromise: whatever is
\* cancelled, retried, lost or delayed, an attempt stores at most one copy and
\* "done" is said only of an attempt that stored one.
THEOREM BatchKeepsPromise == Spec => PromiseKept
  BY BatchIsClient, ClientKeepsPromise, PTL DEF PromiseKept

\* Bytes are given to a session, or leave one, only as the property allows.
LEMMA BytesStay ==
  ASSUME IInv, OneSessionEach, faults' = 0, visits' = 0, [ClientNext]_clientVars,
         NEW f \in Files, NEW a \in Attempts, disk'[f][a] # disk[f][a]
  PROVE  /\ \A b \in Attempts \ {a} : disk[f][b] = 0
         /\ disk'[f][a] > disk[f][a] \/ copies'[f] = copies[f] + 1
<1>1. faults \in Nat /\ visits \in Nat /\ copies \in [Files -> Nat]
      /\ disk \in [Files -> [Attempts -> Nat]]
  BY DEF IInv, ClientTypeOK, LocalTypeOK, NetTypeOK, FileTypeOK, SessionTypeOK
<1>2. ~Fault /\ ~Visit
  BY <1>1 DEF Fault, Visit
<1>3. PICK r \in wire : PatchAppend(r)
  <2>1. UNCHANGED disk => FALSE
    OBVIOUS
  <2>2. ASSUME NEW r \in wire, Handle(r), ~PatchAppend(r)
        PROVE  UNCHANGED disk
    <3>1. r.kind # "drop"
      BY DEF OneSessionEach, NothingListed
    <3> QED BY <2>2, <3>1
            DEF Handle, HandleAsk, HandleLook, HandleOpen, HandleDrop, HandlePost, HandlePatch,
                PatchUnknown, PatchConflict, Taken, sessionVars
  <2>3. ASSUME NEW g \in Files, Begin(g) \/ Abort(g) \/ Close(g) \/ TakeReply(g)
        PROVE  UNCHANGED disk
    BY <2>3 DEF Begin, Abort, Close, TakeReply, TakeAsk, TakeOpen, TakePatch, TakePost, sessionVars
  <2>4. (Reload \/ \E e \in listed : Discard(e) \/ Unlist(e)) => UNCHANGED disk
    BY DEF Reload, Discard, Unlist, sessionVars
  <2>5. (\E r \in wire : Vanish(r)) => UNCHANGED disk
    BY DEF Vanish, sessionVars
  <2>6. UNCHANGED clientVars => UNCHANGED disk
    BY DEF clientVars, sessionVars
  <2> QED BY <1>2, <2>1, <2>2, <2>3, <2>4, <2>5, <2>6
          DEF ClientNext, Event, Break, Refuse, FailPatch, Expire
<1>4. /\ r.kind = "patch" /\ r.of \in Files /\ r.sid \in Attempts /\ r.at \in Nat
      /\ Chunks[r.of] \in Nat
  <2>1. r.kind = "patch"
    BY <1>3 DEF PatchAppend, Taken
  <2>2. r \in Requests
    BY DEF IInv, ClientTypeOK, NetTypeOK
  <2> QED BY <2>1, <2>2, WireFields, RequestFields, ClientAssumption
<1>5. isOpen[r.of][r.sid] /\ disk[r.of][r.sid] = r.at
  BY <1>3 DEF PatchAppend, Appends
<1>6. f = r.of /\ a = r.sid
  <2>1. CASE NextOffset(r) < Chunks[r.of]
    BY <1>1, <1>3, <1>4, <2>1 DEF PatchAppend
  <2>2. CASE ~(NextOffset(r) < Chunks[r.of])
    BY <1>1, <1>3, <1>4, <2>2 DEF PatchAppend, RemoveSession
  <2> QED BY <2>1, <2>2
<1>7. \A b \in Attempts \ {a} : disk[f][b] = 0
  <2>1. a = stored[f]
    BY <1>4, <1>5, <1>6 DEF OneSessionEach, BytesInOneSession
  <2>2. \A b \in Attempts : disk[f][b] > 0 => b = stored[f]
    BY DEF OneSessionEach, BytesInOneSession
  <2>3. \A b \in Attempts : disk[f][b] \in Nat
    BY <1>1
  <2> QED BY <2>1, <2>2, <2>3
<1>8. CASE NextOffset(r) < Chunks[r.of]
  <2>1. disk' = [disk EXCEPT ![r.of][r.sid] = NextOffset(r)]
    BY <1>3, <1>8 DEF PatchAppend
  <2>2. NextOffset(r) > r.at
    BY <1>4, <1>8 DEF NextOffset, Least
  <2>3. disk'[f][a] = NextOffset(r)
    BY <1>1, <1>4, <1>6, <2>1
  <2> QED BY <1>5, <1>6, <1>7, <2>2, <2>3
<1>9. CASE ~(NextOffset(r) < Chunks[r.of])
  <2>1. copies' = [copies EXCEPT ![r.of] = @ + 1]
    BY <1>3, <1>9 DEF PatchAppend, StoreFile
  <2> QED BY <1>1, <1>4, <1>6, <1>7, <2>1
<1> QED BY <1>8, <1>9

\* As long as nothing fails and the list of interrupted uploads is not consulted,
\* a file starts over only when the whole of it was stored: whatever is aborted,
\* reloaded or arrives late, an attempt uses the session that holds the file's
\* bytes, chunks are added there and nowhere else, and the bytes leave it only by
\* becoming a package file (uploadFileChunked, upload_chunk).
THEOREM UploadsResume == Spec => InterruptedUploadsResume
<1>1. ClientInit => IInv /\ Resumes
  BY InitIInv, InitResumes
<1>2. IInv /\ Resumes /\ [ClientNext]_clientVars => (IInv /\ Resumes)'
  BY StepIInv, StepResumes
<1>3. ASSUME IInv, Resumes, [ClientNext]_clientVars, faults' = 0, visits' = 0,
             NEW f \in Files, NEW a \in Attempts
      PROVE  /\ GoesOnIn(f, a)'
             /\ disk'[f][a] # disk[f][a] =>
                  /\ \A b \in Attempts \ {a} : disk[f][b] = 0
                  /\ disk'[f][a] > disk[f][a] \/ copies'[f] = copies[f] + 1
  <2>1. OneSessionEach'
    BY <1>2, <1>3 DEF Resumes, Calm
  <2>2. GoesOnIn(f, a)'
    <3>1. 0 \notin Attempts
      BY <1>3, SessionTypes
    <3> QED BY <2>1, <3>1 DEF GoesOnIn, OneSessionEach, BytesInOneSession, KeyIsCurrent
  <2>3. OneSessionEach
    BY <1>3, CalmBefore DEF Resumes
  <2> QED BY <1>3, <2>2, <2>3, BytesStay
<1>4. IInv /\ Resumes /\ [ClientNext]_clientVars =>
        [faults' = 0 /\ visits' = 0 =>
           \A f \in Files, a \in Attempts :
             /\ GoesOnIn(f, a)'
             /\ disk'[f][a] # disk[f][a] =>
                  /\ \A b \in Attempts \ {a} : disk[f][b] = 0
                  /\ disk'[f][a] > disk[f][a] \/ copies'[f] = copies[f] + 1]_vars
  BY <1>3
<1> QED BY <1>1, <1>2, <1>4, BatchIsClient, PTL DEF ClientSpec, InterruptedUploadsResume
=============================================================================
