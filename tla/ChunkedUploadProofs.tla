------------------------ MODULE ChunkedUploadProofs ------------------------
(***************************************************************************)
(* The server keeps its sessions' contract: files are the client's bytes,  *)
(* one for a session at most, and removed sessions leave nothing behind.   *)
(* Requests on one session and its prune may overlap in any way; nothing   *)
(* is claimed of a session that two of them changed at once.  For any      *)
(* sessions, threads, size, number of files, crashes and failed writes.    *)
(***************************************************************************)
EXTENDS ChunkedUpload, SequenceTheorems, TLAPS

Prefix(k) == [i \in 1 .. k |-> i]

\* The steps of a request that only looks at the session and sets its offset.
Looking == {"measure", "reconcile"}

\* The worker is at a step of a request that may change the session.
Holds(w, s) == req[w].s = s /\ pc[w] \notin Looking

Unheld(s) == \A w \in Workers : ~Holds(w, s)

\* What holds of every request at each of its steps ...
Stage(w) ==
  /\ pc[w] = "idle" <=> req[w].s = "none"
  /\ pc[w] = "create" => row[req[w].s] = "none" /\ req[w].s \in onDisk
  /\ pc[w] \notin {"idle", "create"} => row[req[w].s] # "none"
  /\ pc[w] \in {"stat", "append"} => req[w].offset + req[w].n <= Total
  /\ pc[w] \in {"unlink", "record"} => package

\* ... and what it relies on besides, if nothing else changes its session.
Reliance(w) ==
  /\ pc[w] = "append" => req[w].current = req[w].offset /\ Len(scratch[req[w].s]) = req[w].offset
  /\ pc[w] = "commit" => Len(scratch[req[w].s]) = req[w].current + req[w].n
  /\ pc[w] \in {"finalize", "unlink"} => Len(scratch[req[w].s]) = Total
  /\ pc[w] \in {"unlink", "record"} => req[w].content = File
  /\ pc[w] \in {"record", "drop"} => req[w].s \notin onDisk
  /\ package /\ pc[w] \notin {"idle", "create"} \union Looking => row[req[w].s] = "open"

\* What holds of every session ...
Placed(s) ==
  /\ row[s] = "none" => s \notin overlapped /\ s \notin toDelete /\ scratch[s] = <<>>
  /\ row[s] = "none" /\ s \in onDisk \ strays => \E w \in Workers : req[w].s = s
  /\ s \in toDiscard => s \in toDelete

\* ... and of one that nothing has changed at the same time as something else.
OneHolder(s) == \A v, w \in Workers : Holds(v, s) /\ Holds(w, s) => v = w

\* The scratch file holds the first bytes of the upload, each once.
ScratchIsAPrefix(s) ==
  /\ Len(scratch[s]) <= Total /\ scratch[s] = Prefix(Len(scratch[s]))
  /\ s \notin onDisk => scratch[s] = <<>>

FilesAreFinal(s) ==
  /\ Len(files[s]) <= 1 /\ \A i \in DOMAIN files[s] : files[s][i] = File
  /\ files[s] # <<>> => row[s] = "gone" /\ s \notin onDisk /\ Unheld(s)

RowIsClear(s) ==
  /\ row[s] = "none" => files[s] = <<>>
  /\ ~ForeignKeys /\ row[s] = "gone" => s \notin onDisk /\ Unheld(s)

PruneHolds(s) ==
  /\ s \in toDelete => Unheld(s)
  /\ s \in toDelete \ toDiscard => s \notin onDisk

Session(s) ==
  OneHolder(s) /\ ScratchIsAPrefix(s) /\ FilesAreFinal(s) /\ RowIsClear(s) /\ PruneHolds(s)

IInv ==
  /\ TypeOK
  /\ \A w \in Workers : Stage(w) /\ (req[w].s \notin overlapped => Reliance(w))
  /\ \A s \in Sessions : Placed(s) /\ (s \notin overlapped => Session(s))

-----------------------------------------------------------------------------
(* Pieces of the file *)

LEMMA PrefixIsASeq ==
  ASSUME NEW k \in 0 .. Total
  PROVE  /\ Prefix(k) \in Seq(1 .. Total) /\ Len(Prefix(k)) = k
         /\ \A i \in 1 .. k : Prefix(k)[i] = i
<1>1. Prefix(k) \in [1 .. k -> 1 .. Total]
  BY ConstantsAssumption DEF Prefix
<1>2. k \in Nat
  BY ConstantsAssumption
<1>3. Prefix(k) \in Seq(1 .. Total)
  BY <1>1, <1>2, SeqDef
<1>4. DOMAIN Prefix(k) = 1 .. k
  BY DEF Prefix
<1>5. Len(Prefix(k)) = k
  BY <1>2, <1>3, <1>4, LenProperties
<1> QED
  BY <1>3, <1>5 DEF Prefix

LEMMA PieceIsASeq ==
  ASSUME NEW k \in Nat, NEW n \in Nat, k + n <= Total
  PROVE  /\ Piece(k, n) \in Seq(1 .. Total) /\ Len(Piece(k, n)) = n
         /\ \A i \in 1 .. n : Piece(k, n)[i] = k + i
<1>1. \A i \in k + 1 .. k + n : File[i] \in 1 .. Total
  BY ConstantsAssumption DEF File
<1>2. /\ SubSeq(File, k + 1, k + n) \in Seq(1 .. Total)
      /\ Len(SubSeq(File, k + 1, k + n)) = (IF k + 1 <= k + n THEN (k + n) - (k + 1) + 1 ELSE 0)
      /\ \A i \in 1 .. (k + n) - (k + 1) + 1 : SubSeq(File, k + 1, k + n)[i] = File[(k + 1) + i - 1]
  BY <1>1, SubSeqProperties, k + 1 \in Int, k + n \in Int
<1>3. \A i \in 1 .. n : File[(k + 1) + i - 1] = k + i
  BY ConstantsAssumption DEF File
<1> QED
  BY <1>2, <1>3 DEF Piece

\* A chunk at the end of what there is gives more of the file.
LEMMA PrefixGrows ==
  ASSUME NEW k \in Nat, NEW n \in Nat, k + n <= Total
  PROVE  Prefix(k) \o Piece(k, n) = Prefix(k + n)
<1>1. k \in 0 .. Total /\ k + n \in 0 .. Total
  BY ConstantsAssumption
<1>2. /\ Prefix(k) \in Seq(1 .. Total) /\ Len(Prefix(k)) = k
      /\ \A i \in 1 .. k : Prefix(k)[i] = i
  BY <1>1, PrefixIsASeq
<1>3. /\ Prefix(k + n) \in Seq(1 .. Total) /\ Len(Prefix(k + n)) = k + n
      /\ \A i \in 1 .. k + n : Prefix(k + n)[i] = i
  BY <1>1, PrefixIsASeq
<1>4. /\ Piece(k, n) \in Seq(1 .. Total) /\ Len(Piece(k, n)) = n
      /\ \A i \in 1 .. n : Piece(k, n)[i] = k + i
  BY PieceIsASeq
<1>5. /\ Prefix(k) \o Piece(k, n) \in Seq(1 .. Total)
      /\ Len(Prefix(k) \o Piece(k, n)) = k + n
      /\ \A i \in 1 .. k + n : (Prefix(k) \o Piece(k, n))[i] =
                                 IF i <= k THEN Prefix(k)[i] ELSE Piece(k, n)[i - k]
  <2> DEFINE p == Prefix(k)
             q == Piece(k, n)
  <2>1. /\ p \o q \in Seq(1 .. Total) /\ Len(p \o q) = Len(p) + Len(q)
        /\ \A i \in 1 .. Len(p) + Len(q) : (p \o q)[i] = IF i <= Len(p) THEN p[i] ELSE q[i - Len(p)]
    BY <1>2, <1>4, ConcatProperties
  <2>2. Len(p) = k /\ Len(q) = n
    BY <1>2, <1>4
  <2> HIDE DEF p, q
  <2>3. /\ p \o q \in Seq(1 .. Total) /\ Len(p \o q) = k + n
        /\ \A i \in 1 .. k + n : (p \o q)[i] = IF i <= k THEN p[i] ELSE q[i - k]
    BY <2>1, <2>2
  <2> QED
    BY <2>3 DEF p, q
<1>6. \A i \in 1 .. k + n : (Prefix(k) \o Piece(k, n))[i] = Prefix(k + n)[i]
  <2> SUFFICES ASSUME NEW i \in 1 .. k + n PROVE (Prefix(k) \o Piece(k, n))[i] = i
    BY <1>3
  <2>1. CASE i <= k
    BY <2>1, <1>2, <1>5
  <2>2. CASE i > k
    <3>1. i - k \in 1 .. n /\ ~(i <= k) /\ i \in Nat
      BY <2>2
    <3>2. (Prefix(k) \o Piece(k, n))[i] = Piece(k, n)[i - k]
      BY <1>5, <3>1
    <3>3. Piece(k, n)[i - k] = k + (i - k)
      BY <1>4, <3>1
    <3> QED
      BY <3>1, <3>2, <3>3
  <2>3. i <= k \/ i > k
    OBVIOUS
  <2> QED
    BY <2>1, <2>2, <2>3
<1> QED
  BY <1>3, <1>5, <1>6, SeqEqual

LEMMA WholeFile ==
  /\ File = Prefix(Total) /\ Prefix(0) = <<>> /\ <<>> \in Seq(1 .. Total) /\ Len(<<>>) = 0
<1>1. Prefix(0) \in Seq(1 .. Total) /\ Len(Prefix(0)) = 0
  BY PrefixIsASeq, ConstantsAssumption
<1> QED
  BY <1>1, EmptySeq DEF File, Prefix

-----------------------------------------------------------------------------
(* Who is at a session *)

LEMMA NoRequestTypes ==
  /\ NoRequest \in Requests /\ NoRequest.s = "none" /\ NoRequest.s \notin Sessions
BY ConstantsAssumption, WholeFile DEF NoRequest, Requests

LEMMA AtASession ==
  ASSUME IInv, NEW w \in Workers, pc[w] # "idle"
  PROVE  /\ req[w] \in Requests /\ req[w].s \in Sessions /\ req[w].s # "none"
         /\ pc[w] # "create" => row[req[w].s] # "none"
BY ConstantsAssumption DEF IInv, Stage, TypeOK, Requests

\* A request that may change its session has it to itself.
LEMMA HasItAlone ==
  ASSUME IInv, NEW w \in Workers, pc[w] # "idle", pc[w] \notin Looking,
         NEW s \in Sessions, s = req[w].s, s \notin overlapped
  PROVE  /\ Holds(w, s) /\ s \notin toDelete /\ s \notin toDiscard
         /\ \A v \in Workers \ {w} : ~Holds(v, s)
         /\ files[s] = <<>> /\ Reliance(w) /\ ScratchIsAPrefix(s)
         /\ ~ForeignKeys => row[s] # "gone"
<1>1. Holds(w, s)
  BY DEF Holds
<1> QED
  BY <1>1 DEF IInv, Session, Placed, OneHolder, PruneHolds, FilesAreFinal, RowIsClear, Unheld

\* Nobody is at a session whose row is still to come but the request that creates it.
LEMMA AtANewSession ==
  ASSUME IInv, NEW w \in Workers, NEW s \in Sessions, row[s] = "none", req[w].s \in {s, "none"}
  PROVE  \A v \in Workers \ {w} : pc[w] = "create" \/ s \notin onDisk => req[v].s # s
<1> SUFFICES ASSUME NEW v \in Workers \ {w}, req[v].s = s, pc[w] = "create" \/ s \notin onDisk
             PROVE  FALSE
  OBVIOUS
<1>1. pc[v] = "create" /\ s \in onDisk /\ s # "none"
  BY ConstantsAssumption DEF IInv, Stage
<1>2. pc[w] = "create" /\ req[w].s = s
  BY <1>1 DEF IInv, Stage
<1>3. Holds(v, s) /\ Holds(w, s) /\ s \notin overlapped
  BY <1>1, <1>2 DEF Holds, Looking, IInv, Placed
<1> QED
  BY <1>3 DEF IInv, Session, OneHolder

\* A worker's step at a session leaves the others' sessions and requests as they were.
\* What is left to show is the invariant of that session and the worker's next stage.
LEMMA WorkerStep ==
  ASSUME IInv, NEW w \in Workers, NEW s \in Sessions, TypeOK',
         \A v \in Workers \ {w} : pc'[v] = pc[v] /\ req'[v] = req[v],
         req[w].s \in {s, "none"}, req'[w].s \in {s, "none"},
         package' = package, toDiscard' = toDiscard, toDelete' = toDelete,
         \A t \in Sessions \ {s} :
           /\ row'[t] = row[t] /\ scratch'[t] = scratch[t] /\ files'[t] = files[t]
           /\ (t \in onDisk' <=> t \in onDisk) /\ (t \in strays' <=> t \in strays)
           /\ (t \in overlapped' <=> t \in overlapped),
         row'[s] = "none" => row[s] = "none" /\ scratch'[s] = <<>> /\ s \notin overlapped',
         row[s] = "none" => \A v \in Workers \ {w} : req[v].s # s,
         row'[s] = "none" /\ s \in onDisk' \ strays' => req'[w].s = s,
         Stage(w)',
         s \notin overlapped' =>
           /\ s \notin overlapped /\ s \notin toDelete /\ \A v \in Workers \ {w} : ~Holds(v, s)
           /\ Reliance(w)' /\ ScratchIsAPrefix(s)' /\ FilesAreFinal(s)' /\ RowIsClear(s)'
  PROVE  IInv'
<1> s # "none"
  BY ConstantsAssumption
<1>1. ASSUME NEW t \in Sessions \ {s} PROVE Placed(t)' /\ (t \notin overlapped' => Session(t)')
  <2>0. /\ row'[t] = row[t] /\ scratch'[t] = scratch[t] /\ files'[t] = files[t]
        /\ (t \in onDisk' <=> t \in onDisk) /\ (t \in strays' <=> t \in strays)
        /\ (t \in overlapped' <=> t \in overlapped)
    OBVIOUS
  <2>1. \A v \in Workers : /\ req'[v].s = t <=> req[v].s = t
                           /\ req[v].s = t => pc'[v] = pc[v]
    BY ConstantsAssumption
  <2>2. \A v \in Workers : Holds(v, t)' <=> Holds(v, t)
    BY <2>1 DEF Holds
  <2>3. Placed(t)'
    BY <2>0, <2>1 DEF IInv, Placed
  <2>4. ASSUME t \notin overlapped' PROVE Session(t)'
    <3>0. Session(t)
      BY <2>0, <2>4 DEF IInv
    <3>1. ScratchIsAPrefix(t)'
      BY <2>0, <3>0 DEF Session, ScratchIsAPrefix, Prefix
    <3>2. (Unheld(t)' <=> Unheld(t)) /\ (OneHolder(t)' <=> OneHolder(t))
      BY <2>2 DEF Unheld, OneHolder
    <3>3. FilesAreFinal(t)' /\ RowIsClear(t)' /\ PruneHolds(t)'
      BY <2>0, <3>0, <3>2 DEF Session, FilesAreFinal, File, RowIsClear, PruneHolds
    <3> QED
      BY <3>0, <3>1, <3>2, <3>3 DEF Session
  <2> QED
    BY <2>3, <2>4
<1>2. Placed(s)' /\ (s \notin overlapped' => Session(s)')
  <2>1. Placed(s)'
    BY DEF IInv, Placed
  <2>2. ASSUME s \notin overlapped' PROVE Session(s)'
    <3>1. \A v \in Workers \ {w} : ~Holds(v, s)'
      BY <2>2 DEF Holds
    <3>2. OneHolder(s)' /\ PruneHolds(s)'
      BY <2>2, <3>1 DEF OneHolder, PruneHolds, IInv, Placed
    <3> QED
      BY <2>2, <3>2 DEF Session
  <2> QED
    BY <2>1, <2>2
<1>3. ASSUME NEW v \in Workers \ {w}
      PROVE  Stage(v)' /\ (req'[v].s \notin overlapped' => Reliance(v)')
  <2>1. CASE pc[v] = "idle"
    BY <2>1 DEF IInv, Stage, Reliance
  <2>2. CASE pc[v] # "idle" /\ req[v].s # s
    <3>1. req[v].s \in Sessions \ {s}
      BY <2>2, AtASession
    <3> QED
      BY <3>1 DEF IInv, Stage, Reliance, File
  <2>3. CASE pc[v] # "idle" /\ req[v].s = s
    <3>1. row[s] # "none" /\ row'[s] # "none" /\ pc[v] # "create"
      BY <2>3 DEF IInv, Stage
    <3>2. Stage(v)'
      BY <2>3, <3>1 DEF IInv, Stage
    <3>3. s \notin overlapped' => pc'[v] \in Looking
      BY <2>3 DEF Holds
    <3>4. pc'[v] \in Looking => Reliance(v)'
      BY DEF Looking, Reliance
    <3> QED
      BY <2>3, <3>2, <3>3, <3>4
  <2> QED
    BY <2>1, <2>2, <2>3
<1>4. Stage(w)' /\ (req'[w].s \notin overlapped' => Reliance(w)')
  <2>1. req'[w].s = "none" => Reliance(w)'
    BY DEF Stage, Reliance
  <2> QED
    BY <2>1
<1> QED
  BY <1>1, <1>2, <1>3, <1>4 DEF IInv

\* A request that only looks changes nothing that any other relies on.
LEMMA LookingStep ==
  ASSUME IInv, NEW w \in Workers, TypeOK',
         pc[w] \in {"idle"} \union Looking, pc'[w] \in {"idle"} \union Looking,
         \A v \in Workers \ {w} : pc'[v] = pc[v] /\ req'[v] = req[v],
         UNCHANGED <<package, row, diskVars, files, pruneVars, strays, overlapped>>,
         Stage(w)'
  PROVE  IInv'
<1>1. ASSUME NEW s \in Sessions, NEW v \in Workers PROVE Holds(v, s)' <=> Holds(v, s)
  <2>1. CASE v # w
    BY <2>1 DEF Holds
  <2>2. CASE v = w
    <3>1. ~Holds(w, s)
      BY ConstantsAssumption DEF IInv, Stage, Holds
    <3>2. ~Holds(w, s)'
      BY ConstantsAssumption DEF Stage, Holds
    <3> QED
      BY <2>2, <3>1, <3>2
  <2> QED
    BY <2>1, <2>2
<1>2. ASSUME NEW s \in Sessions PROVE Placed(s)' /\ (s \notin overlapped' => Session(s)')
  <2>1. (Unheld(s)' <=> Unheld(s)) /\ (OneHolder(s)' <=> OneHolder(s))
    BY <1>1 DEF Unheld, OneHolder
  <2>2. Placed(s)'
    <3>1. row[s] = "none" => req[w].s # s
      BY ConstantsAssumption DEF IInv, Stage, Looking
    <3>2. \A v \in Workers : req[v].s = s /\ row[s] = "none" => req'[v].s = s
      BY <3>1
    <3> QED
      BY <3>2 DEF diskVars, pruneVars, IInv, Placed
  <2>3. s \notin overlapped => (ScratchIsAPrefix(s)' <=> ScratchIsAPrefix(s))
    BY DEF diskVars, ScratchIsAPrefix, Prefix
  <2> QED
    BY <2>1, <2>2, <2>3
    DEF diskVars, pruneVars, IInv, Session, FilesAreFinal, File, RowIsClear, PruneHolds
<1>3. ASSUME NEW v \in Workers PROVE Stage(v)' /\ (req'[v].s \notin overlapped' => Reliance(v)')
  <2>1. CASE v # w
    BY <2>1 DEF diskVars, IInv, Stage, Reliance, File
  <2>2. CASE v = w
    BY <2>2 DEF Reliance, Looking
  <2> QED
    BY <2>1, <2>2
<1> QED
  BY <1>2, <1>3 DEF IInv

-----------------------------------------------------------------------------
(* Requests begin *)

LEMMA CreateScratchStep ==
  ASSUME IInv, NEW w \in Workers, CreateScratch(w)
  PROVE  IInv'
<1>1. PICK s \in Sessions :
        row[s] = "none" /\ s \notin onDisk /\ Extend(s, <<>>) /\ req' = [req EXCEPT ![w].s = s]
  BY DEF CreateScratch
<1>2. pc[w] = "idle" /\ req[w].s = "none" /\ req[w] \in Requests
  BY DEF CreateScratch, IInv, Stage, TypeOK
<1>3. /\ s \notin toDelete /\ s \notin overlapped /\ scratch[s] = <<>> /\ s # "none"
      /\ files[s] = <<>> /\ \A v \in Workers \ {w} : req[v].s # s
  BY <1>1, <1>2, AtANewSession, ConstantsAssumption DEF IInv, Placed, Session, RowIsClear
<1>4. \A v \in Workers \ {w} : pc'[v] = pc[v] /\ req'[v] = req[v]
  BY <1>1 DEF CreateScratch, Goto, IInv, TypeOK
<1>5. req'[w].s = s /\ pc'[w] = "create"
  BY <1>1, <1>2 DEF CreateScratch, Goto, IInv, TypeOK, Requests
<1>6. scratch'[s] = <<>> /\ s \in onDisk'
  BY <1>1, <1>3, WholeFile, ConcatEmptySeq DEF Extend, IInv, TypeOK
<1>7. TypeOK'
  BY <1>1, <1>2, <1>6, WholeFile
  DEF CreateScratch, rowVars, pruneVars, boundVars, Extend, Goto, IInv, TypeOK, Step, Requests
<1>8. \A t \in Sessions \ {s} :
        /\ row'[t] = row[t] /\ scratch'[t] = scratch[t] /\ files'[t] = files[t]
        /\ t \in onDisk' <=> t \in onDisk
  BY <1>1 DEF CreateScratch, rowVars, Extend, IInv, TypeOK
<1>9. ScratchIsAPrefix(s)' /\ FilesAreFinal(s)' /\ RowIsClear(s)' /\ Stage(w)' /\ Reliance(w)'
  BY <1>1, <1>3, <1>5, <1>6, WholeFile, ConstantsAssumption
  DEF CreateScratch, rowVars, ScratchIsAPrefix, FilesAreFinal, RowIsClear, Stage, Reliance
<1>10. \A v \in Workers \ {w} : ~Holds(v, s)
  BY <1>3 DEF Holds
<1> QED
  BY <1>1, <1>2, <1>3, <1>4, <1>5, <1>6, <1>7, <1>8, <1>9, <1>10, WorkerStep
  DEF CreateScratch, rowVars, pruneVars, boundVars

LEMMA ReadSessionStep ==
  ASSUME IInv, NEW w \in Workers, ReadSession(w)
  PROVE  IInv'
<1>1. PICK s \in Sessions :
        Accept(w, s) /\ req' = [req EXCEPT ![w].s = s, ![w].offset = received[s]]
  BY DEF ReadSession
<1>2. pc[w] = "idle" /\ row[s] = "open" /\ req[w] \in Requests /\ s # "none"
  BY <1>1, ConstantsAssumption DEF Accept, IInv, TypeOK
<1>3. \A v \in Workers \ {w} : pc'[v] = pc[v] /\ req'[v] = req[v]
  BY <1>1 DEF ReadSession, Goto, IInv, TypeOK
<1>4. req'[w].s = s /\ pc'[w] = "measure"
  BY <1>1, <1>2 DEF ReadSession, Goto, IInv, TypeOK, Requests
<1>5. TypeOK'
  BY <1>1, <1>2
  DEF ReadSession, rowVars, diskVars, pruneVars, boundVars, Goto, IInv, TypeOK, Step, Requests
<1>6. Stage(w)'
  BY <1>2, <1>4 DEF ReadSession, rowVars, Stage
<1> QED
  BY <1>2, <1>3, <1>4, <1>5, <1>6, LookingStep DEF ReadSession, rowVars, boundVars, Looking

\* A request that may change its session begins on it. From here on the session counts
\* as overlapped if somebody else was at work on it.
LEMMA BeginStep ==
  ASSUME IInv, NEW w \in Workers, NEW s \in Sessions, Accept(w, s), Begin({s}), TypeOK',
         \A v \in Workers \ {w} : pc'[v] = pc[v] /\ req'[v] = req[v],
         req'[w].s = s, UNCHANGED <<package, row, files, pruneVars>>,
         \A t \in Sessions \ {s} : scratch'[t] = scratch[t] /\ (t \in onDisk' <=> t \in onDisk),
         Stage(w)', ScratchIsAPrefix(s) => ScratchIsAPrefix(s)', Reliance(w)',
         ~ForeignKeys /\ row[s] = "gone" => s \notin onDisk'
  PROVE  IInv'
<1>1. pc[w] = "idle" /\ row[s] = "open" /\ req[w].s = "none" /\ s # "none"
  BY ConstantsAssumption DEF Accept, IInv, Stage
<1>2. \A t \in Sessions \ {s} : t \in overlapped' <=> t \in overlapped
  BY DEF Begin
<1>3. ASSUME s \notin overlapped'
      PROVE  /\ s \notin overlapped /\ s \notin toDelete /\ \A v \in Workers \ {w} : ~Holds(v, s)
             /\ ScratchIsAPrefix(s)' /\ FilesAreFinal(s)' /\ RowIsClear(s)'
  <2>1. s \notin overlapped /\ ~AtWork(s)
    BY <1>3 DEF Begin
  <2>2. s \notin toDelete /\ \A v \in Workers : ~Holds(v, s)
    BY <2>1 DEF AtWork, Holds, Looking
  <2>3. ScratchIsAPrefix(s) /\ FilesAreFinal(s)
    BY <2>1 DEF IInv, Session
  <2>4. files[s] = <<>>
    BY <1>1, <2>3 DEF FilesAreFinal
  <2>5. FilesAreFinal(s)' /\ RowIsClear(s)'
    BY <1>1, <2>4, WholeFile DEF FilesAreFinal, RowIsClear
  <2> QED
    BY <2>1, <2>2, <2>3, <2>5
<1> QED
  BY <1>1, <1>2, <1>3, WorkerStep DEF Begin, pruneVars

LEMMA StartChunkStep ==
  ASSUME IInv, NEW w \in Workers, StartChunk(w)
  PROVE  IInv'
<1>1. PICK s \in Sessions, n \in 0 .. Total :
        /\ Accept(w, s) /\ received[s] + n <= Total /\ Begin({s})
        /\ req' = [req EXCEPT ![w].s = s, ![w].offset = received[s], ![w].n = n]
  BY DEF StartChunk
<1>2. pc[w] = "idle" /\ row[s] = "open" /\ req[w] \in Requests /\ s # "none"
  BY <1>1, ConstantsAssumption DEF Accept, IInv, TypeOK
<1>n. n \in Nat /\ received[s] \in Nat
  BY ConstantsAssumption DEF IInv, TypeOK
<1>3. \A v \in Workers \ {w} : pc'[v] = pc[v] /\ req'[v] = req[v]
  BY <1>1 DEF StartChunk, Goto, IInv, TypeOK
<1>4. req'[w].s = s /\ req'[w].offset + req'[w].n <= Total /\ pc'[w] = "stat"
  BY <1>1, <1>2 DEF StartChunk, Goto, IInv, TypeOK, Requests
<1>5. TypeOK'
  <2>1. req' \in [Workers -> Requests]
    BY <1>1, <1>2, <1>n DEF IInv, TypeOK, Requests
  <2>2. overlapped' \subseteq Sessions /\ UNCHANGED <<strays, crashes, failures>>
    BY <1>1 DEF Begin, IInv, TypeOK
  <2> QED
    BY <2>1, <2>2 DEF StartChunk, rowVars, diskVars, pruneVars, Goto, IInv, TypeOK, Step
<1>6. Stage(w)' /\ Reliance(w)'
  BY <1>2, <1>4 DEF StartChunk, rowVars, Stage, Reliance
<1>7. ScratchIsAPrefix(s) => ScratchIsAPrefix(s)'
  BY DEF StartChunk, diskVars, ScratchIsAPrefix, Prefix
<1> QED
  BY <1>1, <1>2, <1>3, <1>4, <1>5, <1>6, <1>7, BeginStep DEF StartChunk, rowVars, diskVars

\* The scratch file is dropped, and with it the need to look at its content.
LEMMA DiscardLeavesNothing ==
  ASSUME IInv, NEW s \in Sessions, Discard(s)
  PROVE  /\ scratch' \in [Sessions -> Seq(1 .. Total)] /\ onDisk' \subseteq Sessions
         /\ s \notin onDisk' /\ scratch'[s] = <<>> /\ ScratchIsAPrefix(s)'
         /\ \A t \in Sessions \ {s} : scratch'[t] = scratch[t] /\ (t \in onDisk' <=> t \in onDisk)
<1>1. scratch' \in [Sessions -> Seq(1 .. Total)] /\ scratch'[s] = <<>> /\ s \notin onDisk'
  BY WholeFile DEF Discard, IInv, TypeOK
<1>2. ScratchIsAPrefix(s)'
  BY <1>1, WholeFile, ConstantsAssumption DEF ScratchIsAPrefix, Prefix
<1> QED
  BY <1>1, <1>2 DEF Discard, IInv, TypeOK

LEMMA AbortStep ==
  ASSUME IInv, NEW w \in Workers, Abort(w)
  PROVE  IInv'
<1>1. PICK s \in Sessions :
        Accept(w, s) /\ Discard(s) /\ Begin({s}) /\ req' = [req EXCEPT ![w].s = s]
  BY DEF Abort
<1>2. pc[w] = "idle" /\ row[s] = "open" /\ req[w] \in Requests /\ s # "none"
  BY <1>1, ConstantsAssumption DEF Accept, IInv, TypeOK
<1>3. \A v \in Workers \ {w} : pc'[v] = pc[v] /\ req'[v] = req[v]
  BY <1>1 DEF Abort, Goto, IInv, TypeOK
<1>4. req'[w].s = s /\ pc'[w] = "drop"
  BY <1>1, <1>2 DEF Abort, Goto, IInv, TypeOK, Requests
<1>5. TypeOK'
  <2>1. overlapped' \subseteq Sessions /\ UNCHANGED <<strays, crashes, failures>>
    BY <1>1 DEF Begin, IInv, TypeOK
  <2>2. scratch' \in [Sessions -> Seq(1 .. Total)] /\ onDisk' \subseteq Sessions
    BY <1>1, DiscardLeavesNothing
  <2>3. req' \in [Workers -> Requests] /\ pc' \in [Workers -> Step]
    BY <1>1, <1>2 DEF Abort, Goto, IInv, TypeOK, Step, Requests
  <2> QED
    BY <2>1, <2>2, <2>3 DEF Abort, rowVars, pruneVars, IInv, TypeOK
<1>6. Stage(w)' /\ Reliance(w)'
  BY <1>1, <1>2, <1>4, DiscardLeavesNothing DEF Abort, rowVars, Stage, Reliance
<1> QED
  BY <1>1, <1>2, <1>3, <1>4, <1>5, <1>6, DiscardLeavesNothing, BeginStep DEF Abort, rowVars

-----------------------------------------------------------------------------
(* Requests go on *)

LEMMA Responded ==
  ASSUME IInv, NEW w \in Workers, Respond(w)
  PROVE  /\ pc'[w] = "idle" /\ req'[w].s = "none" /\ Stage(w)' /\ Reliance(w)'
         /\ \A v \in Workers \ {w} : pc'[v] = pc[v] /\ req'[v] = req[v]
         /\ pc' \in [Workers -> Step] /\ req' \in [Workers -> Requests]
BY NoRequestTypes DEF Respond, Goto, IInv, TypeOK, Step, Stage, Reliance

LEMMA Moved ==
  ASSUME IInv, NEW w \in Workers, NEW step \in Step, Goto(w, step)
  PROVE  /\ pc'[w] = step /\ pc' \in [Workers -> Step]
         /\ \A v \in Workers \ {w} : pc'[v] = pc[v]
BY DEF Goto, IInv, TypeOK

\* WorkerStep of a request that may change its session and goes on, or ends, there.
LEMMA HolderStep ==
  ASSUME IInv, NEW w \in Workers, NEW s \in Sessions, s = req[w].s,
         pc[w] \notin {"idle", "create"} \union Looking, TypeOK',
         \A v \in Workers \ {w} : pc'[v] = pc[v] /\ req'[v] = req[v],
         req'[w].s \in {s, "none"}, row'[s] # "none", Stage(w)',
         UNCHANGED <<package, pruneVars, strays, overlapped>>,
         \A t \in Sessions \ {s} :
           /\ row'[t] = row[t] /\ scratch'[t] = scratch[t] /\ files'[t] = files[t]
           /\ t \in onDisk' <=> t \in onDisk,
         s \notin overlapped =>
           Reliance(w)' /\ ScratchIsAPrefix(s)' /\ FilesAreFinal(s)' /\ RowIsClear(s)'
  PROVE  IInv'
<1>1. row[s] # "none"
  BY AtASession
<1>2. s \notin overlapped => s \notin toDelete /\ \A v \in Workers \ {w} : ~Holds(v, s)
  BY HasItAlone
<1> QED
  BY <1>1, <1>2, WorkerStep DEF pruneVars

\* A session without a file, whose row stays, stays clear.
LEMMA StaysClear ==
  ASSUME IInv, NEW w \in Workers, pc[w] \notin {"idle", "create"} \union Looking,
         NEW s \in Sessions, s = req[w].s, s \notin overlapped, UNCHANGED <<row, files>>
  PROVE  FilesAreFinal(s)' /\ RowIsClear(s)'
<1>1. files[s] = <<>> /\ (~ForeignKeys => row[s] # "gone") /\ row[s] # "none"
  BY HasItAlone, AtASession
<1> QED
  BY <1>1, WholeFile DEF FilesAreFinal, RowIsClear

\* ... and so does its scratch file, if the step leaves the disk alone.
LEMMA MoveStep ==
  ASSUME IInv, NEW w \in Workers, pc[w] \notin {"idle", "create"} \union Looking,
         UNCHANGED <<package, row, diskVars, files, pruneVars, strays, overlapped>>, TypeOK',
         \A v \in Workers \ {w} : pc'[v] = pc[v] /\ req'[v] = req[v],
         req'[w].s \in {req[w].s, "none"}, Stage(w)', req[w].s \notin overlapped => Reliance(w)'
  PROVE  IInv'
<1>1. PICK s \in Sessions : s = req[w].s
  BY AtASession
<1>2. row[s] # "none"
  BY <1>1, AtASession
<1>3. s \notin overlapped => ScratchIsAPrefix(s)'
  BY DEF diskVars, IInv, Session, ScratchIsAPrefix, Prefix
<1>4. s \notin overlapped => FilesAreFinal(s)' /\ RowIsClear(s)'
  BY <1>1, StaysClear
<1> QED
  BY <1>1, <1>2, <1>3, <1>4, HolderStep DEF diskVars

LEMMA MeasureScratchStep ==
  ASSUME IInv, NEW w \in Workers, MeasureScratch(w)
  PROVE  IInv'
<1>0. /\ req[w] \in Requests /\ req[w].s \in Sessions /\ row[req[w].s] # "none" /\ req[w].s # "none"
      /\ ScratchSize(req[w].s) \in Nat
  BY AtASession, LenProperties DEF MeasureScratch, ScratchSize, IInv, TypeOK
<1>1. /\ pc' \in [Workers -> Step] /\ req' \in [Workers -> Requests]
      /\ \A v \in Workers \ {w} : pc'[v] = pc[v] /\ req'[v] = req[v]
      /\ Stage(w)' /\ pc'[w] \in {"idle", "reconcile"}
  <2>1. CASE ScratchSize(req[w].s) = req[w].offset
    BY <2>1, Responded DEF MeasureScratch
  <2>2. CASE ScratchSize(req[w].s) # req[w].offset
    <3>1. req' = [req EXCEPT ![w].current = ScratchSize(req[w].s)] /\ Goto(w, "reconcile")
      BY <2>2 DEF MeasureScratch
    <3>2. /\ req' \in [Workers -> Requests] /\ req'[w].s = req[w].s
          /\ \A v \in Workers \ {w} : req'[v] = req[v]
      BY <1>0, <3>1 DEF IInv, TypeOK, Requests
    <3>3. "reconcile" \in Step
      BY DEF Step
    <3>4. /\ pc'[w] = "reconcile" /\ pc' \in [Workers -> Step]
          /\ \A v \in Workers \ {w} : pc'[v] = pc[v]
      BY <3>1, <3>3, Moved
    <3>5. Stage(w)'
      BY <1>0, <3>2, <3>4 DEF MeasureScratch, rowVars, Stage
    <3> QED
      BY <3>2, <3>4, <3>5
  <2> QED
    BY <2>1, <2>2
<1>2. TypeOK'
  BY <1>1 DEF MeasureScratch, rowVars, diskVars, pruneVars, boundVars, IInv, TypeOK
<1> QED
  BY <1>1, <1>2, LookingStep DEF MeasureScratch, rowVars, boundVars, Looking

LEMMA ReconcileStep ==
  ASSUME IInv, NEW w \in Workers, Reconcile(w)
  PROVE  IInv'
<1>1. req[w].s \in Sessions /\ req[w] \in Requests /\ Respond(w)
  BY AtASession DEF Reconcile
<1>2. received' \in [Sessions -> Nat] /\ old' \subseteq Sessions
  BY <1>1 DEF Reconcile, Update, IInv, TypeOK, Requests
<1>3. TypeOK'
  BY <1>1, <1>2, Responded DEF Reconcile, diskVars, pruneVars, boundVars, IInv, TypeOK
<1> QED
  BY <1>1, <1>3, Responded, LookingStep DEF Reconcile, boundVars, Looking

LEMMA StatScratchStep ==
  ASSUME IInv, NEW w \in Workers, StatScratch(w)
  PROVE  IInv'
<1>1. /\ req[w] \in Requests /\ req[w].s \in Sessions /\ ScratchSize(req[w].s) \in Nat
      /\ req[w].s # "none" /\ row[req[w].s] # "none" /\ req[w].offset + req[w].n <= Total
  BY AtASession, LenProperties DEF StatScratch, ScratchSize, IInv, TypeOK, Stage
<1>2. /\ req' \in [Workers -> Requests] /\ req'[w].s = req[w].s /\ req'[w].offset = req[w].offset
      /\ req'[w].n = req[w].n /\ req'[w].current = ScratchSize(req[w].s)
      /\ \A v \in Workers \ {w} : req'[v] = req[v]
  BY <1>1 DEF StatScratch, IInv, TypeOK, Requests
<1>3. PICK step \in {"append", "measure"} :
        Goto(w, step) /\ (step = "append" => ScratchSize(req[w].s) = req[w].offset)
  BY DEF StatScratch
<1>4. pc'[w] = step /\ pc' \in [Workers -> Step] /\ \A v \in Workers \ {w} : pc'[v] = pc[v]
  BY <1>3, Moved DEF Step
<1>5. Stage(w)'
  BY <1>1, <1>2, <1>4 DEF StatScratch, rowVars, Stage
<1>6. req[w].s \notin overlapped => Reliance(w)'
  <2>1. req[w].s \notin overlapped /\ package => row[req[w].s] = "open"
    BY DEF StatScratch, IInv, Reliance, Looking
  <2> QED
    BY <1>2, <1>3, <1>4, <2>1 DEF StatScratch, rowVars, diskVars, Reliance, ScratchSize
<1>7. TypeOK'
  BY <1>2, <1>4 DEF StatScratch, rowVars, diskVars, pruneVars, boundVars, IInv, TypeOK
<1> QED
  BY <1>2, <1>4, <1>5, <1>6, <1>7, MoveStep DEF StatScratch, rowVars, boundVars, Looking

LEMMA CopyScratchStep ==
  ASSUME IInv, NEW w \in Workers, CopyScratch(w)
  PROVE  IInv'
<1>1. /\ req[w] \in Requests /\ req[w].s \in Sessions /\ row[req[w].s] # "none" /\ package
      /\ req[w].s # "none" /\ scratch[req[w].s] \in Seq(1 .. Total)
  BY AtASession DEF CopyScratch, IInv, TypeOK
<1>2. /\ req' \in [Workers -> Requests] /\ req'[w].s = req[w].s
      /\ req'[w].content = scratch[req[w].s] /\ \A v \in Workers \ {w} : req'[v] = req[v]
  BY <1>1 DEF CopyScratch, IInv, TypeOK, Requests
<1>3. /\ pc'[w] = "unlink" /\ pc' \in [Workers -> Step]
      /\ \A v \in Workers \ {w} : pc'[v] = pc[v]
  BY Moved DEF CopyScratch, Step
<1>4. Stage(w)'
  BY <1>1, <1>2, <1>3 DEF CopyScratch, rowVars, Stage
<1>5. req[w].s \notin overlapped => Reliance(w)'
  <2>1. ASSUME req[w].s \notin overlapped
        PROVE  /\ Len(scratch[req[w].s]) = Total /\ row[req[w].s] = "open"
               /\ scratch[req[w].s] = Prefix(Len(scratch[req[w].s]))
    BY <1>1, <2>1 DEF CopyScratch, IInv, Reliance, Looking, Session, ScratchIsAPrefix
  <2> QED
    BY <1>1, <1>2, <1>3, <2>1, WholeFile DEF CopyScratch, rowVars, diskVars, Reliance, File
<1>6. TypeOK'
  BY <1>2, <1>3 DEF CopyScratch, rowVars, diskVars, pruneVars, boundVars, IInv, TypeOK
<1> QED
  BY <1>2, <1>3, <1>4, <1>5, <1>6, MoveStep DEF CopyScratch, rowVars, boundVars, Looking

LEMMA CopyMissingStep ==
  ASSUME IInv, NEW w \in Workers, CopyMissing(w)
  PROVE  IInv'
<1>1. TypeOK'
  BY Responded DEF CopyMissing, rowVars, diskVars, pruneVars, boundVars, IInv, TypeOK
<1> QED
  BY <1>1, Responded, MoveStep DEF CopyMissing, rowVars, boundVars, Looking

LEMMA RejectStoredStep ==
  ASSUME IInv, NEW w \in Workers, RejectStored(w)
  PROVE  IInv'
<1>1. req[w].s \in Sessions /\ req[w].s # "none" /\ row[req[w].s] # "none"
  BY AtASession DEF RejectStored
<1>2. /\ pc'[w] = "drop" /\ pc' \in [Workers -> Step] /\ req' = req
      /\ \A v \in Workers \ {w} : pc'[v] = pc[v]
  BY Moved DEF RejectStored, Step
<1>3. Stage(w)'
  BY <1>1, <1>2 DEF RejectStored, rowVars, Stage
<1>4. req[w].s \notin overlapped => Reliance(w)'
  BY <1>2 DEF RejectStored, rowVars, diskVars, IInv, Reliance, Looking
<1>5. TypeOK'
  BY <1>2 DEF RejectStored, rowVars, diskVars, pruneVars, boundVars, IInv, TypeOK
<1> QED
  BY <1>2, <1>3, <1>4, <1>5, MoveStep DEF RejectStored, rowVars, boundVars, Looking

LEMMA CreateRowStep ==
  ASSUME IInv, NEW w \in Workers, CreateRow(w)
  PROVE  IInv'
<1>1. PICK s \in Sessions : s = req[w].s
  BY AtASession DEF CreateRow
<1>2. /\ row[s] = "none" /\ s \in onDisk /\ s \notin overlapped /\ s \notin toDelete
      /\ files[s] = <<>> /\ ScratchIsAPrefix(s) /\ \A v \in Workers \ {w} : req[v].s # s
  BY <1>1, AtANewSession
  DEF CreateRow, IInv, Stage, Placed, Session, RowIsClear
<1>3. /\ row' \in [Sessions -> {"none", "open", "gone"}]
      /\ row'[s] = "open" /\ \A t \in Sessions \ {s} : row'[t] = row[t]
  BY <1>1 DEF CreateRow, IInv, TypeOK
<1>4. TypeOK'
  BY <1>3, Responded DEF CreateRow, diskVars, pruneVars, boundVars, IInv, TypeOK
<1>5. ScratchIsAPrefix(s)' /\ FilesAreFinal(s)' /\ RowIsClear(s)'
  BY <1>2, <1>3, WholeFile DEF CreateRow, diskVars, ScratchIsAPrefix, Prefix, FilesAreFinal,
    RowIsClear
<1>6. \A v \in Workers \ {w} : ~Holds(v, s)
  BY <1>2 DEF Holds
<1> QED
  BY <1>1, <1>2, <1>3, <1>4, <1>5, <1>6, Responded, WorkerStep
  DEF CreateRow, diskVars, pruneVars, boundVars

LEMMA CreateRowFailsStep ==
  ASSUME IInv, NEW w \in Workers, CreateRowFails(w)
  PROVE  IInv'
<1>1. PICK s \in Sessions : s = req[w].s
  BY AtASession DEF CreateRowFails
<1>2. /\ row[s] = "none" /\ s \in onDisk /\ s \notin overlapped /\ s \notin toDelete
      /\ files[s] = <<>> /\ scratch[s] = <<>> /\ \A v \in Workers \ {w} : req[v].s # s
  BY <1>1, AtANewSession
  DEF CreateRowFails, IInv, Stage, Placed, Session, RowIsClear
<1>3. strays' = strays \union {s} /\ Respond(w)
  BY <1>1 DEF CreateRowFails
<1>4. TypeOK'
  BY <1>3, Responded DEF CreateRowFails, rowVars, diskVars, pruneVars, IInv, TypeOK
<1>5. ScratchIsAPrefix(s)' /\ FilesAreFinal(s)' /\ RowIsClear(s)'
  BY <1>2, WholeFile DEF CreateRowFails, rowVars, diskVars, IInv, Session, ScratchIsAPrefix,
    Prefix, FilesAreFinal, RowIsClear
<1>6. \A v \in Workers \ {w} : ~Holds(v, s)
  BY <1>2 DEF Holds
<1> QED
  BY <1>1, <1>2, <1>3, <1>4, <1>5, <1>6, Responded, WorkerStep
  DEF CreateRowFails, rowVars, diskVars, pruneVars

LEMMA CommitOffsetStep ==
  ASSUME IInv, NEW w \in Workers, CommitOffset(w)
  PROVE  IInv'
<1>1. PICK s \in Sessions : s = req[w].s
  BY AtASession DEF CommitOffset
<1>2. s # "none" /\ row[s] # "none" /\ req[w] \in Requests
  BY <1>1, AtASession DEF CommitOffset
<1>3. received' \in [Sessions -> Nat] /\ old' \subseteq Sessions
  <2>1. Update(s, req[w].current + req[w].n) \/ UNCHANGED <<received, old>>
    BY <1>1 DEF CommitOffset
  <2>2. req[w].current + req[w].n \in Nat
    BY <1>2 DEF Requests
  <2> QED
    BY <2>1, <2>2 DEF Update, IInv, TypeOK
<1>4. \/ Respond(w)
      \/ /\ Goto(w, "finalize") /\ UNCHANGED req
         /\ row[s] = "open" /\ req[w].current + req[w].n >= Total
  BY <1>1 DEF CommitOffset
<1>5. /\ pc' \in [Workers -> Step] /\ req' \in [Workers -> Requests]
      /\ req'[w].s \in {s, "none"} /\ Stage(w)' /\ (s \notin overlapped => Reliance(w)')
      /\ \A v \in Workers \ {w} : pc'[v] = pc[v] /\ req'[v] = req[v]
  <2>1. CASE Respond(w)
    BY <2>1, Responded
  <2>2. CASE /\ Goto(w, "finalize") /\ UNCHANGED req
             /\ row[s] = "open" /\ req[w].current + req[w].n >= Total
    <3>1. ASSUME s \notin overlapped PROVE Len(scratch[s]) = Total
      <4>1. Len(scratch[s]) = req[w].current + req[w].n /\ Len(scratch[s]) <= Total
        BY <1>1, <3>1 DEF CommitOffset, IInv, Reliance, Session, ScratchIsAPrefix
      <4>2. Len(scratch[s]) \in Nat
        BY LenProperties DEF IInv, TypeOK
      <4> QED
        BY <2>2, <4>1, <4>2, ConstantsAssumption
    <3>2. /\ pc'[w] = "finalize" /\ pc' \in [Workers -> Step]
          /\ \A v \in Workers \ {w} : pc'[v] = pc[v]
      BY <2>2, Moved DEF Step
    <3>3. Stage(w)'
      BY <1>1, <1>2, <2>2, <3>2 DEF CommitOffset, Stage
    <3>4. s \notin overlapped => Reliance(w)'
      BY <1>1, <2>2, <3>1, <3>2 DEF CommitOffset, diskVars, Reliance
    <3> QED
      BY <1>1, <2>2, <3>2, <3>3, <3>4 DEF IInv, TypeOK
  <2> QED
    BY <1>4, <2>1, <2>2
<1>6. TypeOK'
  BY <1>3, <1>5 DEF CommitOffset, diskVars, pruneVars, boundVars, IInv, TypeOK
<1> QED
  BY <1>1, <1>5, <1>6, MoveStep DEF CommitOffset, boundVars, Looking

\* What a write adds, all of the chunk or a part of it, continues the prefix.
LEMMA ExtendTypes ==
  ASSUME IInv, NEW s \in Sessions, NEW k \in Nat, NEW n \in Nat, k + n <= Total,
         Extend(s, Piece(k, n))
  PROVE  /\ scratch' \in [Sessions -> Seq(1 .. Total)] /\ onDisk' \subseteq Sessions
         /\ s \in onDisk'
         /\ \A t \in Sessions \ {s} : scratch'[t] = scratch[t] /\ (t \in onDisk' <=> t \in onDisk)
<1>1. Piece(k, n) \in Seq(1 .. Total)
  BY PieceIsASeq
<1>2. scratch[s] \o Piece(k, n) \in Seq(1 .. Total)
  BY <1>1, ConcatProperties DEF IInv, TypeOK
<1> QED
  BY <1>2 DEF Extend, IInv, TypeOK

LEMMA ExtendKeepsPrefix ==
  ASSUME IInv, NEW s \in Sessions, NEW k \in Nat, NEW n \in Nat, k + n <= Total,
         s \notin overlapped, Len(scratch[s]) = k, Extend(s, Piece(k, n))
  PROVE  Len(scratch'[s]) = k + n /\ ScratchIsAPrefix(s)'
<1>1. scratch[s] = Prefix(k)
  BY DEF IInv, Session, ScratchIsAPrefix
<1>2. scratch'[s] = Prefix(k + n)
  BY <1>1, PrefixGrows DEF Extend, IInv, TypeOK
<1>3. Prefix(k + n) \in Seq(1 .. Total) /\ Len(Prefix(k + n)) = k + n
  BY PrefixIsASeq, ConstantsAssumption
<1> QED
  BY <1>2, <1>3, ExtendTypes DEF ScratchIsAPrefix, Prefix

LEMMA AppendChunkStep ==
  ASSUME IInv, NEW w \in Workers, AppendChunk(w)
  PROVE  IInv'
<1>1. PICK s \in Sessions : s = req[w].s
  BY AtASession DEF AppendChunk
<1>2. PICK k \in Nat, n \in Nat : k = req[w].offset /\ n = req[w].n
  BY DEF IInv, TypeOK, Requests
<1>3. s # "none" /\ row[s] # "none" /\ k + n <= Total
  BY <1>1, <1>2, AtASession DEF AppendChunk, IInv, Stage
<1>4. Extend(s, Piece(k, n))
  BY <1>1, <1>2 DEF AppendChunk
<1>5. /\ pc'[w] = "commit" /\ pc' \in [Workers -> Step] /\ req' = req
      /\ \A v \in Workers \ {w} : pc'[v] = pc[v]
  BY Moved DEF AppendChunk, Step
<1>6. TypeOK'
  BY <1>3, <1>4, <1>5, ExtendTypes DEF AppendChunk, rowVars, pruneVars, boundVars, IInv, TypeOK
<1>7. Stage(w)'
  BY <1>1, <1>3, <1>5 DEF AppendChunk, rowVars, Stage
<1>8. ASSUME s \notin overlapped
      PROVE  Reliance(w)' /\ ScratchIsAPrefix(s)' /\ FilesAreFinal(s)' /\ RowIsClear(s)'
  <2>1. Len(scratch[s]) = k /\ req[w].current = k /\ (package => row[s] = "open")
    BY <1>1, <1>2, <1>8 DEF AppendChunk, IInv, Reliance, Looking
  <2>2. Len(scratch'[s]) = k + n /\ ScratchIsAPrefix(s)'
    BY <1>3, <1>4, <1>8, <2>1, ExtendKeepsPrefix
  <2>3. Reliance(w)'
    BY <1>1, <1>2, <1>5, <2>1, <2>2 DEF AppendChunk, rowVars, Reliance
  <2> QED
    BY <1>1, <1>8, <2>2, <2>3, StaysClear DEF AppendChunk, rowVars, Looking
<1> QED
  BY <1>1, <1>3, <1>4, <1>5, <1>6, <1>7, <1>8, ExtendTypes, HolderStep
  DEF AppendChunk, rowVars, boundVars, Looking

LEMMA AppendFailsStep ==
  ASSUME IInv, NEW w \in Workers, AppendFails(w)
  PROVE  IInv'
<1>1. PICK s \in Sessions : s = req[w].s
  BY AtASession DEF AppendFails
<1>2. PICK k \in Nat, n \in Nat : k = req[w].offset /\ n = req[w].n
  BY DEF IInv, TypeOK, Requests
<1>3. row[s] # "none" /\ k + n <= Total
  BY <1>1, <1>2, AtASession DEF AppendFails, IInv, Stage
<1>4. PICK m \in 0 .. n - 1 : Extend(s, Piece(k, m))
  BY <1>1, <1>2 DEF AppendFails
<1>5. m \in Nat /\ k + m <= Total
  BY <1>3, ConstantsAssumption
<1>6. Respond(w)
  BY DEF AppendFails
<1>7. TypeOK'
  BY <1>4, <1>5, <1>6, ExtendTypes, Responded
  DEF AppendFails, rowVars, pruneVars, IInv, TypeOK
<1>8. ASSUME s \notin overlapped
      PROVE  Reliance(w)' /\ ScratchIsAPrefix(s)' /\ FilesAreFinal(s)' /\ RowIsClear(s)'
  <2>1. Len(scratch[s]) = k
    BY <1>1, <1>2, <1>8 DEF AppendFails, IInv, Reliance
  <2>2. ScratchIsAPrefix(s)'
    BY <1>4, <1>5, <1>8, <2>1, ExtendKeepsPrefix
  <2> QED
    BY <1>1, <1>6, <1>8, <2>2, Responded, StaysClear DEF AppendFails, rowVars, Looking
<1>9. \A t \in Sessions \ {s} : scratch'[t] = scratch[t] /\ (t \in onDisk' <=> t \in onDisk)
  BY <1>4, <1>5, ExtendTypes
<1>10. /\ row'[s] # "none" /\ UNCHANGED <<package, pruneVars, strays, overlapped>>
       /\ row' = row /\ files' = files /\ pc[w] \notin {"idle", "create"} \union Looking
  BY <1>3 DEF AppendFails, rowVars, Looking
<1> QED
  BY <1>1, <1>6, <1>7, <1>8, <1>9, <1>10, Responded, HolderStep

\* HolderStep of a request that drops its scratch file.
LEMMA DiscardStep ==
  ASSUME IInv, NEW w \in Workers, pc[w] \notin {"idle", "create"} \union Looking, Discard(req[w].s),
         UNCHANGED <<package, rowVars, files, pruneVars, strays, overlapped>>,
         \A v \in Workers \ {w} : pc'[v] = pc[v] /\ req'[v] = req[v],
         pc' \in [Workers -> Step], req' \in [Workers -> Requests],
         req'[w].s \in {req[w].s, "none"}, Stage(w)', req[w].s \notin overlapped => Reliance(w)'
  PROVE  IInv'
<1>1. PICK s \in Sessions : s = req[w].s
  BY AtASession
<1>2. row[s] # "none"
  BY <1>1, AtASession
<1>3. /\ scratch' \in [Sessions -> Seq(1 .. Total)] /\ onDisk' \subseteq Sessions
      /\ ScratchIsAPrefix(s)'
      /\ \A t \in Sessions \ {s} : scratch'[t] = scratch[t] /\ (t \in onDisk' <=> t \in onDisk)
  BY <1>1, DiscardLeavesNothing
<1>4. TypeOK'
  BY <1>3 DEF rowVars, pruneVars, IInv, TypeOK
<1>5. s \notin overlapped => FilesAreFinal(s)' /\ RowIsClear(s)'
  BY <1>1, StaysClear DEF rowVars
<1> QED
  BY <1>1, <1>2, <1>3, <1>4, <1>5, HolderStep DEF rowVars

LEMMA FinalizeOverCapStep ==
  ASSUME IInv, NEW w \in Workers, FinalizeOverCap(w)
  PROVE  IInv'
<1>1. req[w].s \in Sessions /\ req[w].s # "none" /\ row[req[w].s] # "none"
  BY AtASession DEF FinalizeOverCap
<1>2. /\ pc'[w] = "drop" /\ pc' \in [Workers -> Step] /\ req' = req
      /\ \A v \in Workers \ {w} : pc'[v] = pc[v]
  BY Moved DEF FinalizeOverCap, Step
<1>3. Stage(w)'
  BY <1>1, <1>2 DEF FinalizeOverCap, rowVars, Stage
<1>4. req[w].s \notin overlapped => Reliance(w)'
  BY <1>1, <1>2, DiscardLeavesNothing DEF FinalizeOverCap, rowVars, IInv, Reliance, Looking
<1> QED
  BY <1>2, <1>3, <1>4, DiscardStep DEF FinalizeOverCap, boundVars, Looking, IInv, TypeOK

LEMMA UnlinkScratchStep ==
  ASSUME IInv, NEW w \in Workers, UnlinkScratch(w)
  PROVE  IInv'
<1>1. /\ req[w].s \in Sessions /\ req[w].s # "none" /\ row[req[w].s] # "none" /\ package
  BY AtASession DEF UnlinkScratch, IInv, Stage
<1>2. /\ pc'[w] = "record" /\ pc' \in [Workers -> Step] /\ req' = req
      /\ \A v \in Workers \ {w} : pc'[v] = pc[v]
  BY Moved DEF UnlinkScratch, Step
<1>3. Stage(w)'
  BY <1>1, <1>2 DEF UnlinkScratch, rowVars, Stage
<1>4. req[w].s \notin overlapped => Reliance(w)'
  BY <1>1, <1>2, DiscardLeavesNothing
  DEF UnlinkScratch, rowVars, IInv, Reliance, Looking, File
<1> QED
  BY <1>2, <1>3, <1>4, DiscardStep DEF UnlinkScratch, boundVars, IInv, TypeOK, Looking

LEMMA StoreFailsStep ==
  ASSUME IInv, NEW w \in Workers, StoreFails(w)
  PROVE  IInv'
BY Responded, DiscardStep DEF StoreFails, Looking

LEMMA RowClosed ==
  ASSUME IInv, NEW s \in Sessions, CloseRows({s})
  PROVE  /\ row' \in [Sessions -> {"none", "open", "gone"}] /\ received' \in [Sessions -> Nat]
         /\ old' \subseteq Sessions /\ row'[s] = "gone"
         /\ \A t \in Sessions \ {s} : row'[t] = row[t]
BY DEF CloseRows, IInv, TypeOK

\* The request ends with the session: nobody but those who only look is left at it.
LEMMA NobodyHolds ==
  ASSUME IInv, NEW w \in Workers, pc[w] \notin {"idle"} \union Looking,
         NEW s \in Sessions, s = req[w].s, s \notin overlapped, Respond(w)
  PROVE  Unheld(s)'
<1>1. \A v \in Workers \ {w} : ~Holds(v, s)
  BY HasItAlone
<1>2. s # "none"
  BY ConstantsAssumption
<1> QED
  BY <1>1, <1>2, Responded DEF Unheld, Holds

LEMMA DropRowStep ==
  ASSUME IInv, NEW w \in Workers, DropRow(w)
  PROVE  IInv'
<1>1. PICK s \in Sessions : s = req[w].s
  BY AtASession DEF DropRow
<1>2. Respond(w) /\ CloseRows({s})
  BY <1>1 DEF DropRow
<1>3. TypeOK'
  BY <1>2, Responded, RowClosed DEF DropRow, diskVars, pruneVars, boundVars, IInv, TypeOK
<1>4. ASSUME s \notin overlapped
      PROVE  Reliance(w)' /\ ScratchIsAPrefix(s)' /\ FilesAreFinal(s)' /\ RowIsClear(s)'
  <2>1. files[s] = <<>> /\ s \notin onDisk /\ ScratchIsAPrefix(s)
    BY <1>1, <1>4, HasItAlone DEF DropRow, Reliance, Looking
  <2>2. ScratchIsAPrefix(s)'
    BY <2>1 DEF DropRow, diskVars, ScratchIsAPrefix, Prefix
  <2>3. Unheld(s)'
    BY <1>1, <1>2, <1>4, NobodyHolds DEF DropRow, Looking
  <2>4. FilesAreFinal(s)' /\ RowIsClear(s)'
    BY <1>2, <2>1, <2>3, RowClosed, WholeFile DEF DropRow, diskVars, FilesAreFinal, RowIsClear
  <2> QED
    BY <1>2, <2>2, <2>4, Responded
<1> QED
  BY <1>1, <1>2, <1>3, <1>4, Responded, RowClosed, HolderStep
  DEF DropRow, diskVars, pruneVars, boundVars, Looking

LEMMA CommitFileStep ==
  ASSUME IInv, NEW w \in Workers, CommitFile(w)
  PROVE  IInv'
<1>1. PICK s \in Sessions : s = req[w].s
  BY AtASession DEF CommitFile
<1>2. Respond(w) /\ CloseRows({s})
  BY <1>1 DEF CommitFile
<1>3. \A t \in Sessions \ {s} : files'[t] = files[t]
  BY <1>1 DEF CommitFile, IInv, TypeOK
<1>4. files' \in [Sessions -> Seq(Seq(1 .. Total))]
  <2>1. Append(files[s], req[w].content) \in Seq(Seq(1 .. Total))
    BY AtASession, AppendProperties DEF CommitFile, IInv, TypeOK, Requests
  <2> QED
    BY <1>1, <2>1 DEF CommitFile, IInv, TypeOK
<1>5. TypeOK'
  BY <1>2, <1>4, Responded, RowClosed DEF CommitFile, diskVars, pruneVars, boundVars, IInv, TypeOK
<1>6. ASSUME s \notin overlapped
      PROVE  Reliance(w)' /\ ScratchIsAPrefix(s)' /\ FilesAreFinal(s)' /\ RowIsClear(s)'
  <2>1. /\ files[s] = <<>> /\ s \notin onDisk /\ ScratchIsAPrefix(s) /\ req[w].content = File
    BY <1>1, <1>6, HasItAlone DEF CommitFile, Reliance, Looking
  <2>2. ScratchIsAPrefix(s)'
    BY <2>1 DEF CommitFile, diskVars, ScratchIsAPrefix, Prefix
  <2>3. Unheld(s)'
    BY <1>1, <1>2, <1>6, NobodyHolds DEF CommitFile, Looking
  <2>4. files'[s] = <<File>> /\ s \notin onDisk' /\ row'[s] = "gone"
    <3>1. files'[s] = Append(<<>>, File)
      BY <1>1, <2>1 DEF CommitFile, IInv, TypeOK
    <3> QED
      BY <1>2, <2>1, <3>1, RowClosed DEF CommitFile, diskVars
  <2>5. Len(<<File>>) = 1 /\ \A i \in DOMAIN <<File>> : <<File>>[i] = File
    OBVIOUS
  <2>6. File' = File
    BY DEF File
  <2>7. FilesAreFinal(s)' /\ RowIsClear(s)'
    BY <2>3, <2>4, <2>5, <2>6 DEF FilesAreFinal, RowIsClear
  <2> QED
    BY <1>2, <2>2, <2>7, Responded
<1> QED
  BY <1>1, <1>2, <1>3, <1>5, <1>6, Responded, RowClosed, HolderStep
  DEF CommitFile, diskVars, pruneVars, boundVars, Looking

-----------------------------------------------------------------------------
(* The prune, the TTL, the package's deletion, crashes *)

\* What a step that leaves every request where it is preserves of them.
LEMMA HoldersStay ==
  ASSUME pc' = pc, req' = req, NEW s \in Sessions
  PROVE  (Unheld(s)' <=> Unheld(s)) /\ (OneHolder(s)' <=> OneHolder(s))
BY DEF Unheld, OneHolder, Holds

LEMMA PruneSelectStep ==
  ASSUME IInv, PruneSelect
  PROVE  IInv'
<1>1. /\ toDelete' = toDiscard' /\ toDelete' \subseteq Sessions /\ pc' = pc /\ req' = req
      /\ \A s \in toDelete' : row[s] = "open"
      /\ \A s \in Sessions : s \notin overlapped' =>
           s \notin overlapped /\ (s \in toDelete' => ~AtWork(s))
      /\ \A s \in Sessions : s \in overlapped' => s \in overlapped \/ row[s] = "open"
      /\ overlapped \subseteq overlapped' /\ overlapped' \subseteq Sessions
      /\ UNCHANGED <<package, row, received, old, onDisk, scratch, files, strays>>
  BY DEF PruneSelect, Begin, rowVars, diskVars, IInv, TypeOK
<1>2. TypeOK'
  BY <1>1 DEF PruneSelect, IInv, TypeOK
<1>3. ASSUME NEW w \in Workers PROVE Stage(w)' /\ (req'[w].s \notin overlapped' => Reliance(w)')
  BY <1>1 DEF IInv, Stage, Reliance, File
<1>4. ASSUME NEW s \in Sessions PROVE Placed(s)' /\ (s \notin overlapped' => Session(s)')
  <2>1. Placed(s)'
    BY <1>1 DEF IInv, Placed
  <2>2. ASSUME s \notin overlapped' PROVE Session(s)'
    <3>1. Session(s) /\ (s \in toDelete' => Unheld(s))
      BY <1>1, <2>2 DEF IInv, AtWork, Unheld, Holds, Looking
    <3>2. ScratchIsAPrefix(s)'
      BY <1>1, <3>1 DEF Session, ScratchIsAPrefix, Prefix
    <3> QED
      BY <1>1, <3>1, <3>2, HoldersStay DEF Session, FilesAreFinal, File, RowIsClear, PruneHolds
  <2> QED
    BY <2>1, <2>2
<1> QED
  BY <1>2, <1>3, <1>4 DEF IInv

LEMMA PruneDiscardStep ==
  ASSUME IInv, NEW s \in Sessions, PruneDiscard(s)
  PROVE  IInv'
<1>1. /\ scratch' \in [Sessions -> Seq(1 .. Total)] /\ onDisk' \subseteq Sessions
      /\ s \notin onDisk' /\ scratch'[s] = <<>> /\ ScratchIsAPrefix(s)'
      /\ \A t \in Sessions \ {s} : scratch'[t] = scratch[t] /\ (t \in onDisk' <=> t \in onDisk)
  BY DiscardLeavesNothing DEF PruneDiscard
<1>2. /\ s \in toDelete /\ row[s] # "none" /\ toDiscard' = toDiscard \ {s} /\ pc' = pc /\ req' = req
      /\ UNCHANGED <<package, row, received, old, files, pruning, toDelete, strays, overlapped>>
  BY DEF PruneDiscard, rowVars, boundVars, IInv, Placed
<1>3. s \notin overlapped => Unheld(s)
  BY <1>2 DEF IInv, Session, PruneHolds
<1>4. TypeOK'
  BY <1>1, <1>2 DEF IInv, TypeOK
<1>5. ASSUME NEW w \in Workers PROVE Stage(w)' /\ (req'[w].s \notin overlapped' => Reliance(w)')
  <2>1. CASE req[w].s # s /\ pc[w] # "idle"
    <3>1. req[w].s \in Sessions \ {s}
      BY <2>1, AtASession
    <3> QED
      BY <1>1, <1>2, <3>1 DEF IInv, Stage, Reliance, File
  <2>2. CASE pc[w] = "idle"
    BY <1>2, <2>2 DEF IInv, Stage, Reliance
  <2>3. CASE req[w].s = s
    <3>1. Stage(w)'
      BY <1>2, <2>3 DEF IInv, Stage
    <3>2. s \notin overlapped => pc[w] \in Looking
      BY <1>3, <2>3 DEF Unheld, Holds
    <3> QED
      BY <1>2, <2>3, <3>1, <3>2 DEF Reliance, Looking
  <2> QED
    BY <2>1, <2>2, <2>3
<1>6. ASSUME NEW t \in Sessions PROVE Placed(t)' /\ (t \notin overlapped' => Session(t)')
  <2>1. Placed(t)'
    BY <1>1, <1>2 DEF IInv, Placed
  <2>2. ASSUME t \notin overlapped' PROVE Session(t)'
    <3>1. Session(t)
      BY <1>2, <2>2 DEF IInv
    <3>2. ScratchIsAPrefix(t)'
      BY <1>1, <3>1 DEF Session, ScratchIsAPrefix, Prefix
    <3>3. t \in onDisk' => t \in onDisk
      BY <1>1
    <3>4. PruneHolds(t)'
      BY <1>1, <1>2, <3>1, HoldersStay DEF Session, PruneHolds
    <3> QED
      BY <1>2, <3>1, <3>2, <3>3, <3>4, HoldersStay DEF Session, FilesAreFinal, File, RowIsClear
  <2> QED
    BY <2>1, <2>2
<1> QED
  BY <1>4, <1>5, <1>6 DEF IInv

LEMMA PruneCommitStep ==
  ASSUME IInv, PruneCommit
  PROVE  IInv'
<1>1. /\ row' \in [Sessions -> {"none", "open", "gone"}] /\ received' \in [Sessions -> Nat]
      /\ old' \subseteq Sessions /\ toDiscard = {} /\ toDiscard' = {} /\ toDelete' = {}
      /\ \A s \in Sessions : row'[s] = IF s \in toDelete THEN "gone" ELSE row[s]
      /\ UNCHANGED <<package, onDisk, scratch, files, pc, req, strays, overlapped>>
  BY DEF PruneCommit, CloseRows, diskVars, boundVars, IInv, TypeOK
<1>2. TypeOK'
  BY <1>1 DEF PruneCommit, IInv, TypeOK
<1>3. ASSUME NEW w \in Workers PROVE Stage(w)' /\ (req'[w].s \notin overlapped' => Reliance(w)')
  <2>1. CASE pc[w] = "idle"
    BY <1>1, <2>1 DEF IInv, Stage, Reliance
  <2>2. CASE pc[w] # "idle"
    <3>1. req[w].s \in Sessions /\ (row'[req[w].s] = "none" <=> row[req[w].s] = "none")
      BY <1>1, <2>2, AtASession DEF IInv, Placed
    <3>2. Stage(w)'
      BY <1>1, <3>1 DEF IInv, Stage
    <3>3. CASE req[w].s \notin overlapped /\ pc[w] \notin Looking
      <4>1. Reliance(w) /\ row'[req[w].s] = row[req[w].s]
        BY <1>1, <2>2, <3>1, <3>3, HasItAlone
      <4> QED
        BY <1>1, <3>2, <4>1 DEF Reliance, File
    <3>4. CASE pc[w] \in Looking
      BY <1>1, <3>2, <3>4 DEF Reliance, Looking
    <3> QED
      BY <1>1, <3>2, <3>3, <3>4
  <2> QED
    BY <2>1, <2>2
<1>4. ASSUME NEW s \in Sessions PROVE Placed(s)' /\ (s \notin overlapped' => Session(s)')
  <2>1. Placed(s)'
    BY <1>1 DEF IInv, Placed
  <2>2. ASSUME s \notin overlapped' PROVE Session(s)'
    <3>1. Session(s) /\ (s \in toDelete => Unheld(s) /\ s \notin onDisk)
      BY <1>1, <2>2 DEF IInv, Session, PruneHolds
    <3>2. ScratchIsAPrefix(s)'
      BY <1>1, <3>1 DEF Session, ScratchIsAPrefix, Prefix
    <3> QED
      BY <1>1, <3>1, <3>2, HoldersStay DEF Session, FilesAreFinal, File, RowIsClear, PruneHolds
  <2> QED
    BY <2>1, <2>2
<1> QED
  BY <1>2, <1>3, <1>4 DEF IInv

\* A step that changes neither what requests rely on nor what sessions hold.
LEMMA QuietStep ==
  ASSUME IInv, TypeOK',
         UNCHANGED <<package, row, diskVars, files, pc, req, toDiscard, toDelete, strays, overlapped>>
  PROVE  IInv'
<1>1. \A w \in Workers : Stage(w)' /\ (req'[w].s \notin overlapped' => Reliance(w)')
  BY DEF diskVars, IInv, Stage, Reliance, File
<1>2. ASSUME NEW s \in Sessions PROVE Placed(s)' /\ (s \notin overlapped' => Session(s)')
  <2>1. Placed(s)'
    BY DEF diskVars, IInv, Placed
  <2>2. ScratchIsAPrefix(s) => ScratchIsAPrefix(s)'
    BY DEF diskVars, ScratchIsAPrefix, Prefix
  <2> QED
    BY <2>1, <2>2, HoldersStay
    DEF diskVars, IInv, Session, FilesAreFinal, File, RowIsClear, PruneHolds
<1> QED
  BY <1>1, <1>2 DEF IInv

LEMMA ExpireStep ==
  ASSUME IInv, NEW s \in Sessions, Expire(s)
  PROVE  IInv'
<1>1. TypeOK'
  BY DEF Expire, diskVars, pruneVars, boundVars, IInv, TypeOK
<1> QED
  BY <1>1, QuietStep DEF Expire, pruneVars, boundVars

LEMMA DeletePackageStep ==
  ASSUME IInv, DeletePackage
  PROVE  IInv'
<1>1. /\ row' \in [Sessions -> {"none", "open", "gone"}] /\ received' \in [Sessions -> Nat]
      /\ old' \subseteq Sessions
      /\ \A s \in Sessions : /\ row[s] = "none" <=> row'[s] = "none"
                             /\ ~ForeignKeys => row'[s] = row[s]
  <2>1. CASE ForeignKeys
    <3>1. CloseRows({s \in Sessions : row[s] = "open"})
      BY <2>1 DEF DeletePackage
    <3> QED
      BY <2>1, <3>1 DEF CloseRows, IInv, TypeOK
  <2>2. CASE ~ForeignKeys
    BY <2>2 DEF DeletePackage, rowVars, IInv, TypeOK
  <2> QED
    BY <2>1, <2>2
<1>2. /\ UNCHANGED <<onDisk, scratch, pc, req, toDiscard, toDelete, strays, overlapped>>
      /\ ~package' /\ \A w \in Workers : pc[w] \notin {"unlink", "record"}
  BY DEF DeletePackage, diskVars, pruneVars, boundVars
<1>3. \A s \in Sessions : files'[s] = <<>>
  BY DEF DeletePackage
<1>4. files' \in [Sessions -> Seq(Seq(1 .. Total))]
  BY EmptySeq DEF DeletePackage
<1>5. TypeOK'
  BY <1>1, <1>4 DEF DeletePackage, diskVars, pruneVars, boundVars, IInv, TypeOK
<1>6. ASSUME NEW w \in Workers PROVE Stage(w)' /\ (req'[w].s \notin overlapped' => Reliance(w)')
  <2>1. CASE pc[w] = "idle"
    BY <1>2, <2>1 DEF IInv, Stage, Reliance
  <2>2. CASE pc[w] # "idle"
    <3>1. req[w].s \in Sessions /\ (row[req[w].s] = "none" <=> row'[req[w].s] = "none")
      BY <1>1, <2>2, AtASession
    <3> QED
      BY <1>2, <3>1 DEF IInv, Stage, Reliance
  <2> QED
    BY <2>1, <2>2
<1>7. ASSUME NEW s \in Sessions PROVE Placed(s)' /\ (s \notin overlapped' => Session(s)')
  <2>1. Placed(s)'
    BY <1>1, <1>2 DEF IInv, Placed
  <2>2. ASSUME s \notin overlapped' PROVE Session(s)'
    <3>1. Session(s)
      BY <1>2, <2>2 DEF IInv
    <3>2. ScratchIsAPrefix(s)' /\ FilesAreFinal(s)'
      BY <1>2, <1>3, <3>1, WholeFile DEF Session, ScratchIsAPrefix, Prefix, FilesAreFinal
    <3>3. RowIsClear(s)' /\ PruneHolds(s)' /\ OneHolder(s)'
      BY <1>1, <1>2, <1>3, <3>1, HoldersStay DEF Session, RowIsClear, PruneHolds
    <3> QED
      BY <3>2, <3>3 DEF Session
  <2> QED
    BY <2>1, <2>2
<1> QED
  BY <1>5, <1>6, <1>7 DEF IInv

LEMMA CrashStep ==
  ASSUME IInv, Crash
  PROVE  IInv'
<1>1. \A w \in Workers : pc'[w] = "idle" /\ req'[w] = NoRequest
  BY DEF Crash
<1>2. /\ UNCHANGED <<row, onDisk, scratch, files, overlapped>>
      /\ toDiscard' = {} /\ toDelete' = {} /\ strays \subseteq strays'
  BY DEF Crash, rowVars, diskVars
<1>3. TypeOK'
  <2>1. strays' \subseteq Sessions
    BY AtASession DEF Crash, IInv, TypeOK
  <2> QED
    BY <2>1, NoRequestTypes DEF Crash, rowVars, diskVars, IInv, TypeOK, Step
<1>4. \A w \in Workers : Stage(w)' /\ Reliance(w)'
  BY <1>1, NoRequestTypes DEF Stage, Reliance
<1>5. ASSUME NEW s \in Sessions PROVE Placed(s)' /\ (s \notin overlapped' => Session(s)')
  <2>1. \A w \in Workers : ~Holds(w, s)'
    BY <1>1, NoRequestTypes DEF Holds
  <2>2. row[s] = "none" => s \notin onDisk' \ strays'
    <3>1. ASSUME row[s] = "none", s \in onDisk \ strays PROVE s \in strays'
      <4>1. PICK w \in Workers : req[w].s = s
        BY <3>1 DEF IInv, Placed
      <4>2. pc[w] = "create"
        BY <3>1, <4>1, ConstantsAssumption DEF IInv, Stage
      <4> QED
        BY <4>1, <4>2 DEF Crash
    <3> QED
      BY <1>2, <3>1
  <2>3. Placed(s)'
    BY <1>2, <2>2 DEF IInv, Placed
  <2>4. ASSUME s \notin overlapped' PROVE Session(s)'
    <3>1. Session(s)
      BY <1>2, <2>4 DEF IInv
    <3>2. OneHolder(s)' /\ Unheld(s)'
      BY <2>1 DEF OneHolder, Unheld
    <3>3. ScratchIsAPrefix(s)'
      BY <1>2, <3>1 DEF Session, ScratchIsAPrefix, Prefix
    <3> QED
      BY <1>2, <3>1, <3>2, <3>3 DEF Session, FilesAreFinal, File, RowIsClear, PruneHolds
  <2> QED
    BY <2>3, <2>4
<1> QED
  BY <1>3, <1>4, <1>5 DEF IInv

-----------------------------------------------------------------------------
(* Theorems *)

LEMMA InitIInv == Init => IInv
<1> SUFFICES ASSUME Init PROVE IInv
  OBVIOUS
<1>1. TypeOK
  BY NoRequestTypes, WholeFile, EmptySeq DEF Init, TypeOK, Step
<1>2. \A w \in Workers : Stage(w) /\ Reliance(w)
  BY NoRequestTypes DEF Init, Stage, Reliance
<1>3. ASSUME NEW s \in Sessions PROVE Placed(s) /\ Session(s)
  <2>1. \A w \in Workers : ~Holds(w, s)
    BY NoRequestTypes DEF Init, Holds
  <2> QED
    BY <2>1, WholeFile, ConstantsAssumption
    DEF Init, Placed, Session, OneHolder, Unheld, ScratchIsAPrefix, Prefix, FilesAreFinal,
      RowIsClear, PruneHolds
<1> QED
  BY <1>1, <1>2, <1>3 DEF IInv

LEMMA StepIInv ==
  ASSUME IInv, [Next]_vars
  PROVE  IInv'
<1>1. CASE UNCHANGED vars
  <2>1. TypeOK'
    BY <1>1 DEF vars, rowVars, diskVars, pruneVars, boundVars, IInv, TypeOK
  <2> QED
    BY <1>1, <2>1, QuietStep DEF vars, rowVars, pruneVars, boundVars
<1>2. ASSUME NEW w \in Workers, Start(w) PROVE IInv'
  BY <1>2, CreateScratchStep, ReadSessionStep, StartChunkStep, AbortStep DEF Start
<1>3. ASSUME NEW w \in Workers, Proceed(w) PROVE IInv'
  BY <1>3, CreateRowStep, CreateRowFailsStep, MeasureScratchStep, ReconcileStep, StatScratchStep,
    AppendChunkStep, AppendFailsStep, CommitOffsetStep, FinalizeOverCapStep, CopyScratchStep,
    CopyMissingStep, UnlinkScratchStep, StoreFailsStep, RejectStoredStep, CommitFileStep,
    DropRowStep
  DEF Proceed
<1>4. CASE Prune
  BY <1>4, PruneSelectStep, PruneCommitStep, PruneDiscardStep DEF Prune
<1>5. CASE \E s \in Sessions : Expire(s)
  BY <1>5, ExpireStep
<1>6. CASE DeletePackage
  BY <1>6, DeletePackageStep
<1>7. CASE Crash
  BY <1>7, CrashStep
<1> QED
  BY <1>1, <1>2, <1>3, <1>4, <1>5, <1>6, <1>7 DEF Next

\* However requests and the prune overlap, the scratch files, the rows and the steps of
\* the requests agree in every state, except at sessions changed by two of them at once.
THEOREM Invariance == Spec => []IInv
<1>1. Init => IInv
  BY InitIInv
<1>2. IInv /\ [Next]_vars => IInv'
  BY StepIInv
<1> QED
  BY <1>1, <1>2, PTL DEF Spec

\* Every variable of the sessions, the disk, the requests and the prune keeps its type,
\* whatever overlaps.
THEOREM TypesHold == Spec => []TypeOK
<1>1. IInv => TypeOK
  BY DEF IInv
<1> QED
  BY <1>1, Invariance, PTL

\* append_chunk writes at the offset it has checked and _finalize copies a scratch file
\* of the declared size: unless two requests, or one and the prune, changed its session
\* at once, a package file is the client's bytes, whatever failed, was cut short, was
\* sent again or was asked for meanwhile.
THEOREM FilesAreTheClients == Spec => []FilesAreExact
<1>1. IInv => FilesAreExact
  BY DEF IInv, Session, FilesAreFinal, FilesAreExact
<1> QED
  BY <1>1, Invariance, PTL

\* The file row and the session's delete commit together, with the scratch file gone
\* before them: unless two requests, or one and the prune, changed it at once, a session
\* makes one file at most, and then nothing of it is left.
THEOREM SessionsMakeOneFile == Spec => []OneFilePerSession
<1>1. IInv => OneFilePerSession
  BY DEF IInv, Session, FilesAreFinal, OneFilePerSession
<1> QED
  BY <1>1, Invariance, PTL

\* abort_upload, _finalize and prune_upload_sessions discard the scratch file before the
\* row: where no cascade deletes rows behind their back, every scratch file stays within
\* the prune's reach, but for those of a create_upload that was cut short and those of
\* sessions that two requests, or one and the prune, changed at once.
THEOREM ScratchStaysReachable ==
  ASSUME ~ForeignKeys
  PROVE  Spec => []ScratchFilesAreReachable
<1>1. ASSUME IInv, NEW s \in onDisk \ overlapped, ~AtWork(s) PROVE row[s] = "open" \/ s \in strays
  <2>1. s \in Sessions /\ row[s] \in {"none", "open", "gone"}
    BY <1>1 DEF IInv, TypeOK
  <2>2. row[s] # "gone"
    BY <1>1, <2>1 DEF IInv, Session, RowIsClear
  <2>3. row[s] = "none" => s \in strays
    <3>1. ASSUME row[s] = "none", NEW w \in Workers, req[w].s = s PROVE FALSE
      <4>1. pc[w] = "create"
        BY <1>1, <2>1, <3>1, ConstantsAssumption DEF IInv, Stage
      <4> QED
        BY <1>1, <3>1, <4>1 DEF AtWork
    <3> QED
      BY <1>1, <2>1, <3>1 DEF IInv, Placed
  <2> QED
    BY <2>1, <2>2, <2>3
<1>2. IInv => ScratchFilesAreReachable
  BY <1>1 DEF ScratchFilesAreReachable
<1> QED
  BY <1>2, Invariance, PTL

-----------------------------------------------------------------------------
(* What the server has of a session *)

Storing(s) == \E w \in Workers : pc[w] = "record" /\ req[w].s = s

LengthIsKnown(s) ==
  /\ State(s) # "open" => Length(s) = 0
  /\ State(s) = "open" /\ Storing(s) => Length(s) = Total
  /\ State(s) = "open" /\ ~Storing(s) => Length(s) = Len(scratch[s])
  /\ Length(s) \in 0 .. Total

LEMMA LengthIs == IInv => \A s \in Sessions : LengthIsKnown(s)
<1> SUFFICES ASSUME IInv, NEW s \in Sessions PROVE LengthIsKnown(s)
  OBVIOUS
<1>1. CASE State(s) = "open"
  <2>0. s \notin overlapped
    BY <1>1 DEF State
  <2>1. \A n \in Copied(s) : n = Total
    <3>1. ASSUME NEW w \in Workers, pc[w] = "record", req[w].s = s PROVE Len(req[w].content) = Total
      BY <2>0, <3>1, WholeFile, PrefixIsASeq, ConstantsAssumption DEF IInv, Reliance
    <3> QED
      BY <3>1 DEF Copied
  <2>2. Copied(s) = {} <=> ~Storing(s)
    BY DEF Copied, Storing
  <2>3. Storing(s) => Held(s) = Total
    BY <2>1, <2>2 DEF Held
  <2>4. ~Storing(s) => Held(s) = Len(scratch[s])
    BY <2>2 DEF Held, ScratchSize
  <2>5. Len(scratch[s]) \in 0 .. Total
    BY <2>0, LenProperties, ConstantsAssumption DEF IInv, TypeOK, Session, ScratchIsAPrefix
  <2>6. Length(s) = Held(s)
    BY <1>1 DEF Length
  <2> QED
    BY <1>1, <2>3, <2>4, <2>5, <2>6, ConstantsAssumption DEF LengthIsKnown
<1>2. CASE State(s) # "open"
  BY <1>2, ConstantsAssumption DEF Length, LengthIsKnown
<1> QED
  BY <1>1, <1>2

LEMMA LengthWillBe == IInv' => \A s \in Sessions : LengthIsKnown(s)'
<1>1. IInv => \A s \in Sessions : LengthIsKnown(s)
  BY LengthIs
<1>2. (IInv => \A s \in Sessions : LengthIsKnown(s))'
  BY <1>1, PTL
<1> QED
  BY <1>2

\* What the contract says of a session stays as it was.
Same(s) == State(s)' = State(s) /\ Length(s)' = Length(s) /\ Made(s)' = Made(s)

\* Where neither the row, the scratch file, the copy nor the files change, or the session
\* was void already, nothing changes.
LEMMA NothingNew ==
  ASSUME IInv, IInv', NEW s \in Sessions, s \in overlapped' <=> s \in overlapped,
         s \notin overlapped =>
           /\ row'[s] = row[s] /\ files'[s] = files[s]
           /\ row[s] = "open" => scratch'[s] = scratch[s] /\ (Storing(s)' <=> Storing(s))
  PROVE  Same(s)
<1>1. CASE s \in overlapped
  BY <1>1 DEF Same, State, Length, Made
<1>2. CASE s \notin overlapped
  <2>1. State(s)' = State(s) /\ Made(s)' = Made(s) /\ State(s) = row[s]
    BY <1>2 DEF State, Made
  <2> QED
    BY <1>2, <2>1, LengthIs, LengthWillBe DEF Same, LengthIsKnown
<1> QED
  BY <1>1, <1>2

-----------------------------------------------------------------------------
(* Each step is a step of the contract, or none *)

Kept == [Contract!SessionsNext]_(Contract!sessionVars)

LEMMA KeptByNothing ==
  ASSUME \A s \in Sessions : Same(s)
  PROVE  Kept
BY DEF Kept, Same, Contract!sessionVars

LEMMA KeptByGrowth ==
  ASSUME NEW s \in Sessions, State(s) = "open", State(s)' = State(s), Made(s)' = Made(s),
         \A t \in Sessions \ {s} : Same(t),
         Length(s) \in 0 .. Total, Length(s)' \in 0 .. Total, Length(s) <= Length(s)'
  PROVE  Kept
<1>1. CASE Length(s)' = Length(s)
  BY <1>1, KeptByNothing DEF Same
<1>2. CASE Length(s)' # Length(s)
  <2>1. Length(s)' \in Length(s) + 1 .. Total
    BY <1>2
  <2>2. [t \in Sessions |-> Length(t)]' = [[t \in Sessions |-> Length(t)] EXCEPT ![s] = Length(s)']
    BY DEF Same
  <2>3. /\ [t \in Sessions |-> State(t)]' = [t \in Sessions |-> State(t)]
        /\ [t \in Sessions |-> Made(t)]' = [t \in Sessions |-> Made(t)]
    BY DEF Same
  <2>4. Contract!Grow(s)
    BY <2>1, <2>2, <2>3 DEF Contract!Grow
  <2> QED
    BY <2>4 DEF Kept, Contract!SessionsNext
<1> QED
  BY <1>1, <1>2

LEMMA KeptByLoss ==
  ASSUME NEW S \in SUBSET Sessions,
         \A s \in Sessions : /\ State(s)' = State(s) /\ Made(s)' = Made(s)
                             /\ Length(s)' = IF s \in S THEN 0 ELSE Length(s)
  PROVE  Kept
<1>1. Contract!Lose(S)
  BY DEF Contract!Lose, Contract!Empty
<1> QED
  BY <1>1 DEF Kept, Contract!SessionsNext

LEMMA KeptByEnd ==
  ASSUME NEW S \in SUBSET Sessions,
         \A s \in Sessions : /\ State(s)' = IF s \in S THEN "gone" ELSE State(s)
                             /\ Made(s)' = Made(s)
                             /\ Length(s)' = IF s \in S THEN 0 ELSE Length(s)
  PROVE  Kept
<1>1. Contract!End(S)
  BY DEF Contract!End, Contract!Close, Contract!Empty
<1> QED
  BY <1>1 DEF Kept, Contract!SessionsNext

LEMMA KeptByVoid ==
  ASSUME NEW S \in SUBSET Sessions,
         \A s \in Sessions : /\ State(s)' = IF s \in S THEN "void" ELSE State(s)
                             /\ Made(s)' = IF s \in S THEN 0 ELSE Made(s)
                             /\ Length(s)' = IF s \in S THEN 0 ELSE Length(s)
  PROVE  Kept
<1>1. Contract!Void(S)
  BY DEF Contract!Void, Contract!Empty
<1> QED
  BY <1>1 DEF Kept, Contract!SessionsNext

LEMMA KeptByDrop ==
  ASSUME NEW S \in SUBSET Sessions,
         \A s \in Sessions : /\ State(s)' = IF s \in S THEN "gone" ELSE State(s)
                             /\ Made(s)' = 0
                             /\ Length(s)' = IF s \in S THEN 0 ELSE Length(s)
  PROVE  Kept
<1>1. Contract!Drop(S)
  BY DEF Contract!Drop, Contract!Close, Contract!Empty
<1> QED
  BY <1>1 DEF Kept, Contract!SessionsNext

\* What a request's steps have in common.
LEMMA Proceeds ==
  ASSUME IInv, NEW w \in Workers, Proceed(w)
  PROVE  /\ pc[w] # "idle" /\ req[w].s \in Sessions /\ overlapped' = overlapped
         /\ \A v \in Workers \ {w} : pc'[v] = pc[v] /\ req'[v] = req[v]
         /\ \A t \in Sessions \ {req[w].s} :
              row'[t] = row[t] /\ scratch'[t] = scratch[t] /\ files'[t] = files[t]
         /\ pc'[w] = "idle" \/ req'[w].s = req[w].s
<1>0. pc[w] # "idle"
  BY DEF Proceed, CreateRow, CreateRowFails, MeasureScratch, Reconcile, StatScratch, AppendChunk,
    AppendFails, CommitOffset, FinalizeOverCap, CopyScratch, CopyMissing, UnlinkScratch,
    StoreFails, RejectStored, CommitFile, DropRow
<1>1. PICK s \in Sessions : s = req[w].s
  BY <1>0, AtASession
<1>2. CASE CreateRow(w) \/ CreateRowFails(w) \/ DropRow(w) \/ CommitFile(w)
  <2>1. Respond(w) /\ overlapped' = overlapped /\ scratch' = scratch /\ (CommitFile(w) \/ files' = files)
    BY <1>2 DEF CreateRow, CreateRowFails, DropRow, CommitFile, diskVars, boundVars
  <2>2. \A t \in Sessions \ {s} : files'[t] = files[t]
    BY <1>1, <2>1 DEF CommitFile, IInv, TypeOK
  <2>3. \A t \in Sessions \ {s} : row'[t] = row[t]
    BY <1>1, <1>2 DEF CreateRow, CreateRowFails, DropRow, CommitFile, CloseRows, rowVars, IInv, TypeOK
  <2> QED
    BY <1>0, <1>1, <2>1, <2>2, <2>3, Responded
<1>3. CASE Reconcile(w) \/ CopyMissing(w)
  BY <1>0, <1>1, <1>3, Responded DEF Reconcile, CopyMissing, rowVars, diskVars, boundVars
<1>4. CASE MeasureScratch(w) \/ StatScratch(w) \/ CopyScratch(w) \/ CommitOffset(w)
  <2>1. overlapped' = overlapped /\ row' = row /\ scratch' = scratch /\ files' = files
    BY <1>4 DEF MeasureScratch, StatScratch, CopyScratch, CommitOffset, rowVars, diskVars, boundVars
  <2>2. CASE Respond(w)
    BY <1>0, <1>1, <2>1, <2>2, Responded
  <2>3. CASE ~Respond(w)
    <3>1. /\ req'[w].s = s /\ \A v \in Workers \ {w} : req'[v] = req[v]
          /\ \E step \in Step : Goto(w, step)
      BY <1>1, <1>4, <2>3
      DEF MeasureScratch, StatScratch, CopyScratch, CommitOffset, IInv, TypeOK, Requests, Step
    <3> QED
      BY <1>0, <1>1, <2>1, <3>1, Moved
  <2> QED
    BY <2>2, <2>3
<1>5. CASE AppendChunk(w) \/ AppendFails(w)
  <2>1. overlapped' = overlapped /\ row' = row /\ files' = files
    BY <1>5 DEF AppendChunk, AppendFails, rowVars, boundVars
  <2>2. \A t \in Sessions \ {s} : scratch'[t] = scratch[t]
    BY <1>1, <1>5 DEF AppendChunk, AppendFails, Extend, IInv, TypeOK
  <2>3. Respond(w) \/ (req' = req /\ Goto(w, "commit") /\ "commit" \in Step)
    BY <1>5 DEF AppendChunk, AppendFails, Step
  <2> QED
    BY <1>0, <1>1, <2>1, <2>2, <2>3, Responded, Moved
<1>6. CASE StoreFails(w) \/ FinalizeOverCap(w) \/ UnlinkScratch(w) \/ RejectStored(w)
  <2>1. overlapped' = overlapped /\ row' = row /\ files' = files
    BY <1>6 DEF StoreFails, FinalizeOverCap, UnlinkScratch, RejectStored, rowVars, boundVars
  <2>2. \A t \in Sessions \ {s} : scratch'[t] = scratch[t]
    BY <1>1, <1>6 DEF StoreFails, FinalizeOverCap, UnlinkScratch, RejectStored, Discard, diskVars, IInv, TypeOK
  <2>3. Respond(w) \/ (req' = req /\ \E step \in Step : Goto(w, step))
    BY <1>6 DEF StoreFails, FinalizeOverCap, UnlinkScratch, RejectStored, Step
  <2> QED
    BY <1>0, <1>1, <2>1, <2>2, <2>3, Responded, Moved
<1> QED
  BY <1>2, <1>3, <1>4, <1>5, <1>6 DEF Proceed

\* Beyond its own session, and at a void one, a request changes nothing that counts.
LEMMA OthersSame ==
  ASSUME IInv, IInv', NEW w \in Workers, Proceed(w), NEW t \in Sessions,
         t # req[w].s \/ t \in overlapped
  PROVE  Same(t)
<1>1. CASE t # req[w].s
  <2>1. Storing(t)' <=> Storing(t)
    BY <1>1, Proceeds DEF Storing
  <2> QED
    BY <1>1, <2>1, Proceeds, NothingNew
<1>2. CASE t \in overlapped
  BY <1>2, Proceeds, NothingNew
<1> QED
  BY <1>1, <1>2

\* Nobody but the request that may change a session has a copy of its file.
LEMMA OwnStoring ==
  ASSUME IInv, NEW w \in Workers, Proceed(w), pc[w] \notin Looking,
         NEW s \in Sessions, s = req[w].s, s \notin overlapped
  PROVE  /\ Storing(s) <=> pc[w] = "record"
         /\ Storing(s)' <=> pc'[w] = "record"
<1>1. \A v \in Workers \ {w} : ~Holds(v, s) /\ pc'[v] = pc[v] /\ req'[v] = req[v]
  BY Proceeds, HasItAlone
<1>2. \A v \in Workers \ {w} : ~(pc[v] = "record" /\ req[v].s = s)
  BY <1>1 DEF Holds, Looking
<1>3. pc'[w] = "record" => req'[w].s = s
  BY Proceeds
<1> QED
  BY <1>1, <1>2, <1>3 DEF Storing

LEMMA KeptByCreateRow ==
  ASSUME IInv, IInv', NEW w \in Workers, CreateRow(w)
  PROVE  Kept
<1>1. PICK s \in Sessions : s = req[w].s
  BY AtASession DEF CreateRow
<1>2. /\ Proceed(w) /\ row[s] = "none" /\ scratch[s] = <<>> /\ s \notin overlapped
      /\ pc[w] = "create" /\ pc[w] \notin Looking
  BY <1>1 DEF CreateRow, Proceed, IInv, Stage, Placed, Looking
<1>3. /\ row'[s] = "open" /\ files' = files /\ scratch' = scratch /\ overlapped' = overlapped
      /\ pc'[w] = "idle"
  BY <1>1, Responded DEF CreateRow, diskVars, boundVars, IInv, TypeOK
<1>4. State(s) = "none" /\ State(s)' = "open" /\ Made(s)' = Made(s)
  BY <1>2, <1>3 DEF State, Made
<1>5. Length(s) = 0 /\ Length(s)' = 0
  BY <1>1, <1>2, <1>3, <1>4, OwnStoring, LengthIs, LengthWillBe, WholeFile DEF LengthIsKnown
<1>6. \A t \in Sessions \ {s} : Same(t)
  BY <1>1, <1>2, OthersSame
<1>7. /\ [t \in Sessions |-> State(t)]' = [[t \in Sessions |-> State(t)] EXCEPT ![s] = "open"]
      /\ [t \in Sessions |-> Length(t)]' = [t \in Sessions |-> Length(t)]
      /\ [t \in Sessions |-> Made(t)]' = [t \in Sessions |-> Made(t)]
  BY <1>4, <1>5, <1>6 DEF Same
<1>8. Contract!Open(s)
  BY <1>4, <1>7 DEF Contract!Open
<1> QED
  BY <1>8 DEF Kept, Contract!SessionsNext

\* The steps that touch neither the session's row nor its bytes.
LEMMA KeptByMoves ==
  ASSUME IInv, IInv', NEW w \in Workers,
         \/ CreateRowFails(w) \/ MeasureScratch(w) \/ Reconcile(w) \/ StatScratch(w)
         \/ CommitOffset(w) \/ CopyScratch(w) \/ CopyMissing(w)
  PROVE  Kept
<1>1. Proceed(w) /\ row' = row /\ scratch' = scratch /\ files' = files /\ pc[w] # "record"
  BY DEF Proceed, CreateRowFails, MeasureScratch, Reconcile, StatScratch, CommitOffset,
    CopyScratch, CopyMissing, rowVars, diskVars
<1>2. pc'[w] # "record"
  BY DEF CreateRowFails, MeasureScratch, Reconcile, StatScratch, CommitOffset, CopyScratch,
    CopyMissing, Respond, Goto, IInv, TypeOK
<1>3. \A s \in Sessions : Storing(s)' <=> Storing(s)
  BY <1>1, <1>2, Proceeds DEF Storing
<1>4. \A s \in Sessions : Same(s)
  BY <1>1, <1>3, Proceeds, NothingNew
<1> QED
  BY <1>4, KeptByNothing

\* Steps at a session that is void already are none of the contract's.
LEMMA KeptAtVoid ==
  ASSUME IInv, IInv', NEW w \in Workers, Proceed(w), req[w].s \in overlapped
  PROVE  Kept
BY OthersSame, KeptByNothing

LEMMA KeptByAppend ==
  ASSUME IInv, IInv', NEW w \in Workers, AppendChunk(w) \/ AppendFails(w), req[w].s \notin overlapped
  PROVE  Kept
<1>1. PICK s \in Sessions : s = req[w].s
  BY AtASession DEF AppendChunk, AppendFails
<1>2. /\ Proceed(w) /\ row' = row /\ files' = files /\ overlapped' = overlapped
      /\ pc[w] \notin Looking /\ pc[w] # "record" /\ pc'[w] # "record"
  BY DEF Proceed, AppendChunk, AppendFails, rowVars, boundVars, Respond, Goto, Looking, IInv, TypeOK
<1>3. \A t \in Sessions \ {s} : Same(t)
  BY <1>1, <1>2, OthersSame
<1>4. PICK m \in 0 .. req[w].n : Extend(s, Piece(req[w].offset, m))
  <2>1. req[w].n \in Nat
    BY DEF IInv, TypeOK, Requests
  <2> QED
    BY <1>1, <2>1 DEF AppendChunk, AppendFails
<1>5. Len(scratch[s]) <= Len(scratch'[s])
  <2>1. req[w] \in Requests /\ req[w].offset + req[w].n <= Total
    BY DEF AppendChunk, AppendFails, IInv, TypeOK, Stage
  <2>2. Piece(req[w].offset, m) \in Seq(1 .. Total)
    BY <1>4, <2>1, PieceIsASeq, ConstantsAssumption DEF Requests
  <2>3. scratch'[s] = scratch[s] \o Piece(req[w].offset, m) /\ scratch[s] \in Seq(1 .. Total)
    BY <1>4 DEF Extend, IInv, TypeOK
  <2>4. Len(scratch'[s]) = Len(scratch[s]) + Len(Piece(req[w].offset, m))
    BY <2>2, <2>3, ConcatProperties
  <2>5. Len(scratch[s]) \in Nat /\ Len(Piece(req[w].offset, m)) \in Nat
    BY <2>2, <2>3, LenProperties
  <2>6. \A a, b \in Nat : a <= a + b
    OBVIOUS
  <2> QED
    BY <2>4, <2>5, <2>6
<1>6. State(s)' = State(s) /\ Made(s)' = Made(s) /\ State(s) = row[s]
  BY <1>1, <1>2 DEF State, Made
<1>7. CASE State(s) = "open"
  <2>1. Length(s) <= Length(s)' /\ Length(s) \in 0 .. Total /\ Length(s)' \in 0 .. Total
    BY <1>1, <1>2, <1>5, <1>6, <1>7, OwnStoring, LengthIs, LengthWillBe DEF LengthIsKnown
  <2> QED
    BY <1>3, <1>6, <1>7, <2>1, KeptByGrowth
<1>8. CASE State(s) # "open"
  <2>1. Same(s)
    BY <1>1, <1>2, <1>6, <1>8, NothingNew
  <2> QED
    BY <1>3, <2>1, KeptByNothing
<1> QED
  BY <1>7, <1>8

LEMMA KeptByRemoval ==
  ASSUME IInv, IInv', NEW w \in Workers, FinalizeOverCap(w) \/ StoreFails(w) \/ RejectStored(w),
         req[w].s \notin overlapped
  PROVE  Kept
<1>1. PICK s \in Sessions : s = req[w].s
  BY AtASession DEF FinalizeOverCap, StoreFails, RejectStored
<1>2. /\ Proceed(w) /\ row' = row /\ files' = files /\ overlapped' = overlapped
      /\ pc'[w] # "record" /\ pc[w] \notin Looking
  BY DEF Proceed, FinalizeOverCap, StoreFails, RejectStored, rowVars, boundVars, Respond, Goto,
    Looking, IInv, TypeOK
<1>3. s \notin onDisk'
  BY <1>1 DEF FinalizeOverCap, StoreFails, RejectStored, Discard, diskVars, IInv, Reliance
<1>4. scratch'[s] = <<>>
  BY <1>1, <1>2, <1>3 DEF IInv, Session, ScratchIsAPrefix
<1>5. Length(s)' = 0
  BY <1>1, <1>2, <1>4, OwnStoring, LengthWillBe, WholeFile DEF LengthIsKnown
<1>6. \A t \in Sessions : /\ State(t)' = State(t) /\ Made(t)' = Made(t)
                          /\ Length(t)' = IF t \in {s} THEN 0 ELSE Length(t)
  BY <1>1, <1>2, <1>5, OthersSame DEF Same, State, Made
<1> QED
  BY <1>6, KeptByLoss

\* The whole file leaves the scratch file when its copy is there to be recorded.
LEMMA KeptByUnlink ==
  ASSUME IInv, IInv', NEW w \in Workers, UnlinkScratch(w), req[w].s \notin overlapped
  PROVE  Kept
<1>1. PICK s \in Sessions : s = req[w].s
  BY AtASession DEF UnlinkScratch
<1>2. /\ Proceed(w) /\ row' = row /\ files' = files /\ overlapped' = overlapped
      /\ pc[w] = "unlink" /\ pc'[w] = "record" /\ pc[w] \notin Looking
  BY DEF Proceed, UnlinkScratch, rowVars, boundVars, Goto, Looking, IInv, TypeOK
<1>3. Len(scratch[s]) = Total /\ row[s] = "open"
  BY <1>1, <1>2 DEF IInv, Stage, Reliance, Looking
<1>4. State(s) = "open" /\ State(s)' = "open" /\ Made(s)' = Made(s)
  BY <1>1, <1>2, <1>3 DEF State, Made
<1>5. Length(s) = Total /\ Length(s)' = Total
  BY <1>1, <1>2, <1>3, <1>4, OwnStoring, LengthIs, LengthWillBe DEF LengthIsKnown
<1>6. Same(s)
  BY <1>4, <1>5 DEF Same
<1> QED
  BY <1>1, <1>2, <1>6, OthersSame, KeptByNothing

LEMMA KeptByDropRow ==
  ASSUME IInv, IInv', NEW w \in Workers, DropRow(w), req[w].s \notin overlapped
  PROVE  Kept
<1>1. PICK s \in Sessions : s = req[w].s
  BY AtASession DEF DropRow
<1>2. /\ Proceed(w) /\ files' = files /\ overlapped' = overlapped /\ row'[s] = "gone"
  BY <1>1 DEF Proceed, DropRow, CloseRows, boundVars
<1>3. State(s)' = "gone" /\ Made(s)' = Made(s)
  BY <1>1, <1>2 DEF State, Made
<1>4. Length(s)' = 0
  BY <1>3, LengthWillBe DEF LengthIsKnown
<1>5. \A t \in Sessions : /\ State(t)' = IF t \in {s} THEN "gone" ELSE State(t)
                          /\ Made(t)' = Made(t)
                          /\ Length(t)' = IF t \in {s} THEN 0 ELSE Length(t)
  BY <1>1, <1>2, <1>3, <1>4, OthersSame DEF Same
<1> QED
  BY <1>5, KeptByEnd

LEMMA KeptByCommitFile ==
  ASSUME IInv, IInv', NEW w \in Workers, CommitFile(w), req[w].s \notin overlapped
  PROVE  Kept
<1>1. PICK s \in Sessions : s = req[w].s
  BY AtASession DEF CommitFile
<1>2. /\ Proceed(w) /\ pc[w] = "record" /\ row'[s] = "gone" /\ overlapped' = overlapped
      /\ files'[s] = Append(files[s], req[w].content) /\ pc[w] \notin Looking
  BY <1>1 DEF Proceed, CommitFile, CloseRows, boundVars, Looking, IInv, TypeOK
<1>3. row[s] = "open"
  BY <1>1, <1>2 DEF IInv, Stage, Reliance, Looking
<1>4. State(s) = "open" /\ State(s)' = "gone"
  BY <1>1, <1>2, <1>3 DEF State
<1>5. Length(s) = Total /\ Length(s)' = 0
  BY <1>1, <1>2, <1>4, OwnStoring, LengthIs, LengthWillBe DEF LengthIsKnown
<1>6. Made(s)' = Made(s) + 1
  <2>1. Len(Append(files[s], req[w].content)) = Len(files[s]) + 1
    BY AtASession, <1>1, <1>2, AppendProperties DEF IInv, TypeOK, Requests
  <2> QED
    BY <1>1, <1>2, <2>1 DEF Made
<1>7. \A t \in Sessions \ {s} : Same(t)
  BY <1>1, <1>2, OthersSame
<1>8. /\ [t \in Sessions |-> State(t)]'
           = [t \in Sessions |-> IF t \in {s} THEN "gone" ELSE [r \in Sessions |-> State(r)][t]]
      /\ [t \in Sessions |-> Length(t)]'
           = [t \in Sessions |-> IF t \in {s} THEN 0 ELSE [r \in Sessions |-> Length(r)][t]]
      /\ [t \in Sessions |-> Made(t)]' = [[t \in Sessions |-> Made(t)] EXCEPT ![s] = @ + 1]
  BY <1>4, <1>5, <1>6, <1>7 DEF Same
<1>9. Contract!Make(s)
  BY <1>4, <1>5, <1>8 DEF Contract!Make, Contract!Close, Contract!Empty
<1> QED
  BY <1>9 DEF Kept, Contract!SessionsNext

LEMMA KeptByProceed ==
  ASSUME IInv, IInv', NEW w \in Workers, Proceed(w)
  PROVE  Kept
<1>1. CASE req[w].s \in overlapped
  BY <1>1, KeptAtVoid
<1>2. CASE req[w].s \notin overlapped
  BY <1>2, KeptByCreateRow, KeptByMoves, KeptByAppend, KeptByRemoval, KeptByUnlink,
    KeptByDropRow, KeptByCommitFile DEF Proceed
<1> QED
  BY <1>1, <1>2

-----------------------------------------------------------------------------
(* Requests begin *)

\* A request that changes the session makes it void where there is work on it already;
\* otherwise it may only empty it, and then nobody has its copy.
LEMMA KeptByBegin ==
  ASSUME IInv, IInv', NEW s \in Sessions, Begin({s}), row' = row, files' = files,
         \A t \in Sessions \ {s} : scratch'[t] = scratch[t],
         \A t \in Sessions : Storing(t)' <=> Storing(t),
         scratch' = scratch \/ scratch'[s] = <<>>
  PROVE  Kept
<1>1. \A t \in Sessions \ {s} : t \in overlapped' <=> t \in overlapped
  BY DEF Begin
<1>2. \A t \in Sessions \ {s} : Same(t)
  BY <1>1, NothingNew
<1>3. CASE s \in overlapped
  <2>1. Same(s)
    BY <1>3, NothingNew DEF Begin
  <2> QED
    BY <1>2, <2>1, KeptByNothing
<1>4. CASE s \notin overlapped /\ AtWork(s)
  <2>1. s \in overlapped'
    BY <1>4 DEF Begin
  <2>2. State(s)' = "void" /\ Made(s)' = 0
    BY <2>1 DEF State, Made
  <2>3. Length(s)' = 0
    BY <2>2 DEF Length
  <2>4. \A t \in Sessions : /\ State(t)' = IF t \in {s} THEN "void" ELSE State(t)
                            /\ Made(t)' = IF t \in {s} THEN 0 ELSE Made(t)
                            /\ Length(t)' = IF t \in {s} THEN 0 ELSE Length(t)
    BY <1>2, <2>2, <2>3 DEF Same
  <2> QED
    BY <2>4, KeptByVoid
<1>5. CASE s \notin overlapped /\ ~AtWork(s)
  <2>1. s \notin overlapped' /\ ~Storing(s)
    BY <1>5 DEF Begin, AtWork, Storing
  <2>2. CASE scratch' = scratch
    <3>1. Same(s)
      BY <1>5, <2>1, <2>2, NothingNew
    <3> QED
      BY <1>2, <3>1, KeptByNothing
  <2>3. CASE scratch'[s] = <<>>
    <3>1. State(s)' = State(s) /\ Made(s)' = Made(s)
      BY <1>5, <2>1 DEF State, Made
    <3>2. Length(s)' = 0
      BY <2>1, <2>3, LengthWillBe, WholeFile DEF LengthIsKnown
    <3>3. \A t \in Sessions : /\ State(t)' = State(t) /\ Made(t)' = Made(t)
                              /\ Length(t)' = IF t \in {s} THEN 0 ELSE Length(t)
      BY <1>2, <3>1, <3>2 DEF Same
    <3> QED
      BY <3>3, KeptByLoss
  <2> QED
    BY <2>2, <2>3
<1> QED
  BY <1>3, <1>4, <1>5

LEMMA KeptByStart ==
  ASSUME IInv, IInv', NEW w \in Workers, Start(w)
  PROVE  Kept
<1>1. /\ pc[w] = "idle" /\ row' = row /\ files' = files
      /\ \E step \in {"create", "measure", "stat", "drop"} : Goto(w, step)
      /\ \A v \in Workers \ {w} : req'[v] = req[v]
  BY DEF Start, CreateScratch, ReadSession, StartChunk, Abort, Accept, rowVars, IInv, TypeOK
<1>2. pc'[w] # "record" /\ \A v \in Workers \ {w} : pc'[v] = pc[v]
  BY <1>1 DEF Goto, IInv, TypeOK
<1>3. \A s \in Sessions : Storing(s)' <=> Storing(s)
  BY <1>1, <1>2 DEF Storing
<1>4. CASE CreateScratch(w) \/ ReadSession(w)
  <2>1. \A s \in Sessions : row[s] = "open" => scratch'[s] = scratch[s]
    BY <1>4 DEF CreateScratch, ReadSession, Extend, diskVars, IInv, TypeOK
  <2>2. overlapped' = overlapped
    BY <1>4 DEF CreateScratch, ReadSession, boundVars
  <2>3. \A s \in Sessions : Same(s)
    BY <1>1, <1>3, <2>1, <2>2, NothingNew
  <2> QED
    BY <2>3, KeptByNothing
<1>5. CASE StartChunk(w) \/ Abort(w)
  <2>1. PICK s \in Sessions : /\ Begin({s})
                              /\ scratch' = scratch \/ Discard(s)
    BY <1>5 DEF StartChunk, Abort, diskVars
  <2>2. /\ \A t \in Sessions \ {s} : scratch'[t] = scratch[t]
        /\ scratch' = scratch \/ scratch'[s] = <<>>
    BY <2>1 DEF Discard, IInv, TypeOK
  <2> QED
    BY <1>1, <1>3, <2>1, <2>2, KeptByBegin
<1> QED
  BY <1>4, <1>5 DEF Start

-----------------------------------------------------------------------------
(* The prune, the TTL, package deletion and crashes *)

LEMMA KeptByPruneSelect ==
  ASSUME IInv, IInv', PruneSelect
  PROVE  Kept
<1>1. /\ pc' = pc /\ req' = req /\ row' = row /\ files' = files /\ scratch' = scratch
      /\ overlapped \subseteq overlapped' /\ overlapped' \subseteq Sessions
  BY DEF PruneSelect, Begin, rowVars, diskVars, IInv, TypeOK
<1>2. PICK S \in SUBSET Sessions : S = overlapped' \ overlapped
  BY <1>1
<1>3. \A s \in Sessions \ S : Same(s)
  BY <1>1, <1>2, NothingNew DEF Storing
<1>4. \A s \in S : State(s)' = "void" /\ Made(s)' = 0 /\ Length(s)' = 0
  BY <1>2 DEF State, Made, Length
<1>5. \A s \in Sessions : /\ State(s)' = IF s \in S THEN "void" ELSE State(s)
                          /\ Made(s)' = IF s \in S THEN 0 ELSE Made(s)
                          /\ Length(s)' = IF s \in S THEN 0 ELSE Length(s)
  BY <1>3, <1>4 DEF Same
<1> QED
  BY <1>5, KeptByVoid

LEMMA KeptByPruneDiscard ==
  ASSUME IInv, IInv', NEW s \in Sessions, PruneDiscard(s)
  PROVE  Kept
<1>1. /\ pc' = pc /\ req' = req /\ row' = row /\ files' = files /\ overlapped' = overlapped
      /\ scratch'[s] = <<>> /\ \A t \in Sessions \ {s} : scratch'[t] = scratch[t]
  BY DEF PruneDiscard, Discard, rowVars, boundVars, IInv, TypeOK
<1>2. \A t \in Sessions \ {s} : Same(t)
  BY <1>1, NothingNew DEF Storing
<1>3. CASE s \in overlapped
  <2>1. Same(s)
    BY <1>1, <1>3, NothingNew
  <2> QED
    BY <1>2, <2>1, KeptByNothing
<1>4. CASE s \notin overlapped
  <2>1. Unheld(s)
    BY <1>4 DEF PruneDiscard, IInv, Placed, Session, PruneHolds
  <2>2. ~Storing(s)'
    BY <1>1, <2>1 DEF Storing, Unheld, Holds, Looking
  <2>3. Length(s)' = 0
    BY <1>1, <2>2, LengthWillBe, WholeFile DEF LengthIsKnown
  <2>4. \A t \in Sessions : /\ State(t)' = State(t) /\ Made(t)' = Made(t)
                            /\ Length(t)' = IF t \in {s} THEN 0 ELSE Length(t)
    BY <1>1, <1>2, <2>3 DEF Same, State, Made
  <2> QED
    BY <2>4, KeptByLoss
<1> QED
  BY <1>3, <1>4

LEMMA KeptByPruneCommit ==
  ASSUME IInv, IInv', PruneCommit
  PROVE  Kept
<1>1. /\ pc' = pc /\ req' = req /\ files' = files /\ overlapped' = overlapped /\ scratch' = scratch
      /\ toDelete \subseteq Sessions
      /\ \A s \in Sessions : row'[s] = IF s \in toDelete THEN "gone" ELSE row[s]
  BY DEF PruneCommit, CloseRows, diskVars, boundVars, IInv, TypeOK
<1>2. PICK S \in SUBSET Sessions : S = toDelete \ overlapped
  BY <1>1
<1>3. \A s \in Sessions \ S : Same(s)
  BY <1>1, <1>2, NothingNew DEF Storing
<1>4. \A s \in S : State(s)' = "gone" /\ Made(s)' = Made(s)
  BY <1>1, <1>2 DEF State, Made
<1>5. \A s \in S : Length(s)' = 0
  BY <1>4, LengthWillBe DEF LengthIsKnown
<1>6. \A s \in Sessions : /\ State(s)' = IF s \in S THEN "gone" ELSE State(s)
                          /\ Made(s)' = Made(s)
                          /\ Length(s)' = IF s \in S THEN 0 ELSE Length(s)
  BY <1>3, <1>4, <1>5 DEF Same
<1> QED
  BY <1>6, KeptByEnd

LEMMA KeptByExpire ==
  ASSUME IInv, IInv', NEW e \in Sessions, Expire(e)
  PROVE  Kept
<1>1. \A s \in Sessions : Same(s)
  BY NothingNew DEF Expire, diskVars, boundVars, Storing
<1> QED
  BY <1>1, KeptByNothing

LEMMA KeptByDeletePackage ==
  ASSUME IInv, IInv', DeletePackage
  PROVE  Kept
<1>1. /\ pc' = pc /\ req' = req /\ overlapped' = overlapped /\ scratch' = scratch
      /\ files' = [s \in Sessions |-> <<>>]
  BY DEF DeletePackage, diskVars, boundVars
<1>2. PICK S \in SUBSET Sessions : S = {s \in Sessions \ overlapped : ForeignKeys /\ row[s] = "open"}
  OBVIOUS
<1>3. \A s \in Sessions : row'[s] = IF ForeignKeys /\ row[s] = "open" THEN "gone" ELSE row[s]
  BY DEF DeletePackage, CloseRows, rowVars
<1>4. \A s \in Sessions : Made(s)' = 0
  BY <1>1, WholeFile DEF Made
<1>5. \A s \in Sessions : State(s)' = IF s \in S THEN "gone" ELSE State(s)
  BY <1>1, <1>2, <1>3 DEF State
<1>6. \A s \in S : Length(s)' = 0
  BY <1>5, LengthWillBe DEF LengthIsKnown
<1>7. \A s \in Sessions \ S : Length(s)' = Length(s)
  <2>1. \A s \in Sessions : Storing(s)' <=> Storing(s)
    BY <1>1 DEF Storing
  <2> QED
    BY <1>1, <1>5, <2>1, LengthIs, LengthWillBe DEF LengthIsKnown
<1>8. \A s \in Sessions : /\ State(s)' = IF s \in S THEN "gone" ELSE State(s)
                          /\ Made(s)' = 0
                          /\ Length(s)' = IF s \in S THEN 0 ELSE Length(s)
  BY <1>4, <1>5, <1>6, <1>7
<1> QED
  BY <1>8, KeptByDrop

\* A crash takes the copies that were about to be recorded.
LEMMA KeptByCrash ==
  ASSUME IInv, IInv', Crash
  PROVE  Kept
<1>1. /\ row' = row /\ files' = files /\ overlapped' = overlapped /\ scratch' = scratch
      /\ \A w \in Workers : pc'[w] = "idle"
  BY DEF Crash, rowVars, diskVars
<1>2. \A s \in Sessions : ~Storing(s)'
  BY <1>1 DEF Storing
<1>3. PICK S \in SUBSET Sessions : S = {s \in Sessions \ overlapped : Storing(s)}
  OBVIOUS
<1>4. \A s \in Sessions \ S : Same(s)
  BY <1>1, <1>2, <1>3, NothingNew
<1>5. \A s \in S : Length(s)' = 0
  <2>1. \A s \in S : s \notin onDisk
    BY <1>3 DEF Storing, IInv, Reliance
  <2>2. \A s \in S : scratch[s] = <<>>
    BY <1>3, <2>1 DEF IInv, Session, ScratchIsAPrefix
  <2> QED
    BY <1>1, <1>2, <2>2, LengthWillBe, WholeFile DEF LengthIsKnown
<1>6. \A s \in Sessions : /\ State(s)' = State(s) /\ Made(s)' = Made(s)
                          /\ Length(s)' = IF s \in S THEN 0 ELSE Length(s)
  BY <1>1, <1>4, <1>5 DEF Same, State, Made
<1> QED
  BY <1>6, KeptByLoss

LEMMA StepKept ==
  ASSUME IInv, IInv', [Next]_vars
  PROVE  Kept
<1>1. CASE UNCHANGED vars
  <2>1. \A s \in Sessions : Same(s)
    BY <1>1, NothingNew DEF vars, rowVars, diskVars, boundVars, Storing
  <2> QED
    BY <2>1, KeptByNothing
<1>2. CASE \E w \in Workers : Start(w) \/ Proceed(w)
  BY <1>2, KeptByStart, KeptByProceed
<1>3. CASE Prune
  BY <1>3, KeptByPruneSelect, KeptByPruneDiscard, KeptByPruneCommit DEF Prune
<1>4. CASE (\E s \in Sessions : Expire(s)) \/ DeletePackage \/ Crash
  BY <1>4, KeptByExpire, KeptByDeletePackage, KeptByCrash
<1> QED
  BY <1>1, <1>2, <1>3, <1>4 DEF Next

LEMMA KeptAtFirst == Init => Contract!SessionsInit
<1> SUFFICES ASSUME Init PROVE Contract!SessionsInit
  OBVIOUS
<1>1. \A s \in Sessions : State(s) = "none" /\ Made(s) = 0
  BY WholeFile DEF Init, State, Made
<1>2. \A s \in Sessions : Length(s) = 0
  BY <1>1 DEF Length
<1> QED
  BY <1>1, <1>2 DEF Contract!SessionsInit

\* Every step of the server's requests, prune and crashes, however they overlap, is a step
\* of the contract that UploadSessions states, or none (chunked.py, uploads.py).
THEOREM ServerKeepsContract == Spec => ContractKept
<1>1. Init => Contract!SessionsInit
  BY KeptAtFirst
<1>2. IInv /\ IInv' /\ [Next]_vars => [Contract!SessionsNext]_(Contract!sessionVars)
  BY StepKept DEF Kept
<1> QED
  BY <1>1, <1>2, Invariance, PTL DEF Spec, ContractKept, Contract!SessionsSpec
=============================================================================
