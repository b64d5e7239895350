-------------------------- MODULE HotBuffersProofs --------------------------
(***************************************************************************)
(* No hit is lost or invented by the buffers, the statistics never claim   *)
(* too many and an orderly exit loses nothing: for any shares, files and   *)
(* packages, any number of hits, failed flushes and restarts.              *)
(***************************************************************************)
EXTENDS HotBuffers, TLAPS

\* A flush thread holds a batch only while it is writing it.
HeldWhileWriting == \A t \in Threads : pc[t] # "write" => held[t] = Zero

\* No request is being served unless the process is running, the final flush
\* runs while it stops, and a shutdown is counted as a restart when it ends.
Lifecycle ==
  /\ life # "running" => serving = {}
  /\ life # "stopping" => pc["final"] = "idle"
  /\ life = "stopping" => restarts < MaxRestarts

\* What a statistics request has read is in the database still, or was deleted
\* with its row: it is not among the hits that are in memory now.
ReaderBound ==
  reader.pc = "stored" => reader.seen <= db[reader.item] + gone[reader.item]

\* While the process stops and no flush fails, a buffer the final flush has
\* drained stays empty.
Drained(i) ==
  \/ i \in Counters /\ (pc["final"] # "drain" \/ buffer["final"] = "audit")
  \/ i \in Events /\ pc["final"] = "idle"
  \/ i \in Events /\ pc["final"] = "write" /\ buffer["final"] = "audit"
FinalFlushDrains ==
  life = "stopping" /\ ~troubled => \A i \in Items : Drained(i) => buf[i] = 0

\* Each hit is in one place, but for those that were put back although they were stored.
Ledger ==
  \A i \in Items : hits[i] + doubled[i] = db[i] + InMemory(i) + gone[i] + lost[i]

StatsBound == reader.pc = "done" => reader.seen <= hits[reader.item] + doubled[reader.item]

IInv ==
  /\ TypeOK
  /\ HeldWhileWriting
  /\ Lifecycle
  /\ Ledger
  /\ ReaderBound
  /\ StatsBound
  /\ FinalFlushDrains

-----------------------------------------------------------------------------

\* The counts are closed under the operators the actions use.
LEMMA Sums ==
  ASSUME NEW f \in Counts, NEW g \in Counts, NEW S
  PROVE  /\ Zero \in Counts /\ f (+) g \in Counts /\ On(S, f) \in Counts
         /\ \A i \in Items : /\ Zero[i] = 0 /\ (f (+) g)[i] = f[i] + g[i]
                             /\ On(S, f)[i] = IF i \in S THEN f[i] ELSE 0
BY DEF Counts, Zero, (+), On

\* What the type invariant says of one item.
LEMMA ItemTypes ==
  ASSUME TypeOK, NEW i \in Items
  PROVE  /\ hits[i] \in Nat /\ db[i] \in Nat /\ buf[i] \in Nat
         /\ gone[i] \in Nat /\ lost[i] \in Nat /\ doubled[i] \in Nat
         /\ \A t \in Threads : held[t] \in Counts /\ held[t][i] \in Nat
         /\ held["loop"][i] \in Nat /\ held["final"][i] \in Nat
BY DEF TypeOK, Counts, Threads

LEMMA SomeItem == NoReader.item \in Items
BY ConstantsAssumption DEF NoReader, Items

-----------------------------------------------------------------------------
(* One lemma per action. *)

LEMMA LoadRowStep ==
  ASSUME IInv, NEW i \in Items, LoadRow(i)
  PROVE  IInv'
<1> USE DEF IInv, LoadRow, flushVars, history, bounds
<1>1. TypeOK'
  BY DEF TypeOK, Counts, Threads
<1>2. HeldWhileWriting'
  BY DEF HeldWhileWriting
<1>3. Lifecycle'
  BY DEF Lifecycle
<1>4. Ledger'
  BY DEF Ledger, InMemory
<1>5. ReaderBound'
  BY DEF ReaderBound
<1>6. StatsBound'
  BY DEF StatsBound
<1>7. FinalFlushDrains'
  BY DEF FinalFlushDrains, Drained
<1> QED
  BY <1>1, <1>2, <1>3, <1>4, <1>5, <1>6, <1>7

LEMMA HitStep ==
  ASSUME IInv, NEW i \in Items, Hit(i)
  PROVE  IInv'
<1> USE DEF IInv, Hit, flushVars, history, bounds
<1>1. TypeOK'
  BY DEF TypeOK, Counts, Threads
<1>2. HeldWhileWriting'
  BY DEF HeldWhileWriting
<1>3. Lifecycle'
  BY DEF Lifecycle
<1>4. Ledger'
  <2> SUFFICES ASSUME NEW j \in Items
               PROVE  hits'[j] + doubled[j] = db[j] + InMemory(j)' + gone[j] + lost[j]
    BY DEF Ledger
  <2>1. CASE j = i
    <3>1. hits'[i] = hits[i] + 1 /\ buf'[i] = buf[i] + 1
      BY DEF TypeOK, Counts
    <3>2. hits[i] + doubled[i] = db[i] + InMemory(i) + gone[i] + lost[i]
      BY DEF Ledger
    <3> QED
      BY <2>1, <3>1, <3>2, ItemTypes DEF InMemory
  <2>2. CASE j # i
    BY <2>2, ItemTypes DEF Ledger, InMemory, TypeOK, Counts
  <2> QED
    BY <2>1, <2>2
<1>5. ReaderBound'
  BY DEF ReaderBound
<1>6. StatsBound'
  BY DEF StatsBound, TypeOK, Counts
<1>7. FinalFlushDrains'
  BY DEF FinalFlushDrains, Drained, Lifecycle
<1> QED
  BY <1>1, <1>2, <1>3, <1>4, <1>5, <1>6, <1>7

LEMMA AbandonStep ==
  ASSUME IInv, NEW i \in Items, Abandon(i)
  PROVE  IInv'
<1> USE DEF IInv, Abandon, flushVars, history, bounds
<1>1. TypeOK'
  BY DEF TypeOK, Counts, Threads
<1>2. HeldWhileWriting'
  BY DEF HeldWhileWriting
<1>3. Lifecycle'
  BY DEF Lifecycle
<1>4. Ledger'
  BY DEF Ledger, InMemory
<1>5. ReaderBound'
  BY DEF ReaderBound
<1>6. StatsBound'
  BY DEF StatsBound
<1>7. FinalFlushDrains'
  BY DEF FinalFlushDrains, Drained
<1> QED
  BY <1>1, <1>2, <1>3, <1>4, <1>5, <1>6, <1>7

LEMMA LoopTurnStep ==
  ASSUME IInv, LoopTurn
  PROVE  IInv'
<1> USE DEF IInv, LoopTurn, flushVars, history, bounds
<1>1. TypeOK'
  BY DEF TypeOK, Counts, Threads
<1>2. HeldWhileWriting'
  BY DEF HeldWhileWriting, TypeOK
<1>3. Lifecycle'
  BY DEF Lifecycle, TypeOK, Threads
<1>4. Ledger'
  BY DEF Ledger, InMemory
<1>5. ReaderBound'
  BY DEF ReaderBound
<1>6. StatsBound'
  BY DEF StatsBound
<1>7. FinalFlushDrains'
  BY DEF FinalFlushDrains, Drained
<1> QED
  BY <1>1, <1>2, <1>3, <1>4, <1>5, <1>6, <1>7

LEMMA DeleteRowStep ==
  ASSUME IInv, NEW i \in Items, DeleteRow(i)
  PROVE  IInv'
<1> USE DEF IInv, DeleteRow, flushVars, history, bounds
<1>1. TypeOK'
  BY DEF TypeOK, Counts, Threads
<1>2. HeldWhileWriting'
  BY DEF HeldWhileWriting
<1>3. Lifecycle'
  BY DEF Lifecycle
<1>4. Ledger'
  BY DEF Ledger, InMemory, TypeOK, Counts, Threads
<1>5. ReaderBound'
  BY DEF ReaderBound, TypeOK, Counts
<1>6. StatsBound'
  BY DEF StatsBound
<1>7. FinalFlushDrains'
  BY DEF FinalFlushDrains, Drained
<1> QED
  BY <1>1, <1>2, <1>3, <1>4, <1>5, <1>6, <1>7

LEMMA PruneEventsStep ==
  ASSUME IInv, NEW i \in Items, PruneEvents(i)
  PROVE  IInv'
<1> USE DEF IInv, PruneEvents, flushVars, history, bounds
<1>1. TypeOK'
  BY DEF TypeOK, Counts, Threads
<1>2. HeldWhileWriting'
  BY DEF HeldWhileWriting
<1>3. Lifecycle'
  BY DEF Lifecycle
<1>4. Ledger'
  BY DEF Ledger, InMemory, TypeOK, Counts, Threads
<1>5. ReaderBound'
  BY DEF ReaderBound, TypeOK, Counts
<1>6. StatsBound'
  BY DEF StatsBound
<1>7. FinalFlushDrains'
  BY DEF FinalFlushDrains, Drained
<1> QED
  BY <1>1, <1>2, <1>3, <1>4, <1>5, <1>6, <1>7

LEMMA ReadStoredStep ==
  ASSUME IInv, NEW i \in Items, ReadStored(i)
  PROVE  IInv'
<1> USE DEF IInv, ReadStored, flushVars, history, bounds
<1>1. TypeOK'
  BY DEF TypeOK, Counts, Threads
<1>2. HeldWhileWriting'
  BY DEF HeldWhileWriting
<1>3. Lifecycle'
  BY DEF Lifecycle
<1>4. Ledger'
  BY DEF Ledger, InMemory
<1>5. ReaderBound'
  BY DEF ReaderBound, TypeOK, Counts
<1>6. StatsBound'
  BY DEF StatsBound
<1>7. FinalFlushDrains'
  BY DEF FinalFlushDrains, Drained
<1> QED
  BY <1>1, <1>2, <1>3, <1>4, <1>5, <1>6, <1>7

LEMMA ReadPendingStep ==
  ASSUME IInv, ReadPending
  PROVE  IInv'
<1> USE DEF IInv, ReadPending, flushVars, history, bounds
<1>1. TypeOK'
  <2>1. reader.item \in Items /\ buf[reader.item] \in Nat /\ reader.seen \in Nat
    BY ItemTypes DEF TypeOK
  <2>2. reader' = [pc |-> "done", item |-> reader.item, seen |-> reader.seen + buf[reader.item]]
    BY DEF TypeOK
  <2> QED
    BY <2>1, <2>2 DEF TypeOK, Counts, Threads
<1>2. HeldWhileWriting'
  BY DEF HeldWhileWriting
<1>3. Lifecycle'
  BY DEF Lifecycle
<1>4. Ledger'
  BY DEF Ledger, InMemory
<1>5. ReaderBound'
  BY DEF ReaderBound
<1>6. StatsBound'
  BY DEF StatsBound, ReaderBound, Ledger, InMemory, TypeOK, Counts, Threads
<1>7. FinalFlushDrains'
  BY DEF FinalFlushDrains, Drained
<1> QED
  BY <1>1, <1>2, <1>3, <1>4, <1>5, <1>6, <1>7

LEMMA AnswerStep ==
  ASSUME IInv, Answer
  PROVE  IInv'
<1> USE DEF IInv, Answer, flushVars, history, bounds
<1>1. TypeOK'
  BY SomeItem DEF TypeOK, NoReader
<1>2. HeldWhileWriting'
  BY DEF HeldWhileWriting
<1>3. Lifecycle'
  BY DEF Lifecycle
<1>4. Ledger'
  BY DEF Ledger, InMemory
<1>5. ReaderBound'
  BY DEF ReaderBound, NoReader
<1>6. StatsBound'
  BY DEF StatsBound, NoReader
<1>7. FinalFlushDrains'
  BY DEF FinalFlushDrains, Drained
<1> QED
  BY <1>1, <1>2, <1>3, <1>4, <1>5, <1>6, <1>7

LEMMA ShutdownStep ==
  ASSUME IInv, Shutdown
  PROVE  IInv'
<1> USE DEF IInv, Shutdown, flushVars, history, bounds
<1>1. TypeOK'
  <2>1. pc' \in [Threads -> {"idle", "drain", "write"}] /\ buffer' \in [Threads -> {"counter", "audit"}]
    BY DEF TypeOK, Threads
  <2> QED
    BY <2>1 DEF TypeOK
<1>2. HeldWhileWriting'
  BY DEF HeldWhileWriting, Lifecycle, TypeOK, Threads
<1>3. Lifecycle'
  BY DEF Lifecycle, TypeOK, Threads
<1>4. Ledger'
  BY DEF Ledger, InMemory
<1>5. ReaderBound'
  BY DEF ReaderBound
<1>6. StatsBound'
  BY DEF StatsBound
<1>7. FinalFlushDrains'
  BY DEF FinalFlushDrains, Drained, TypeOK, Threads, Items
<1> QED
  BY <1>1, <1>2, <1>3, <1>4, <1>5, <1>6, <1>7

LEMMA BootStep ==
  ASSUME IInv, Boot
  PROVE  IInv'
<1> USE DEF IInv, Boot, flushVars, history, bounds
<1>1. TypeOK'
  BY DEF TypeOK, Counts, Threads
<1>2. HeldWhileWriting'
  BY DEF HeldWhileWriting
<1>3. Lifecycle'
  BY DEF Lifecycle
<1>4. Ledger'
  BY DEF Ledger, InMemory
<1>5. ReaderBound'
  BY DEF ReaderBound
<1>6. StatsBound'
  BY DEF StatsBound
<1>7. FinalFlushDrains'
  BY DEF FinalFlushDrains, Drained
<1> QED
  BY <1>1, <1>2, <1>3, <1>4, <1>5, <1>6, <1>7

\* Continue keeps the types, leaves the other thread alone, and takes the final
\* flush from the counters to the audit buffer and from there to its end.
LEMMA ContinueStep ==
  ASSUME TypeOK, NEW t \in Threads, Continue(t)
  PROVE  /\ pc' \in [Threads -> {"idle", "drain", "write"}]
         /\ buffer' \in [Threads -> {"counter", "audit"}]
         /\ pc'[t] # "write"
         /\ \A w \in Threads \ {t} : pc'[w] = pc[w] /\ buffer'[w] = buffer[w]
         /\ t = "final" /\ buffer[t] = "counter" => pc'[t] = "drain" /\ buffer'[t] = "audit"
         /\ t = "final" /\ buffer[t] = "audit" => pc'[t] = "idle"
BY DEF TypeOK, Continue

\* What a transaction does to one item's stored and deleted hits.
LEMMA ApplyStep ==
  ASSUME TypeOK, NEW t \in Threads, Apply(held[t])
  PROVE  /\ db' \in Counts /\ gone' \in Counts
         /\ \A i \in Items : /\ db'[i] \in Nat /\ gone'[i] \in Nat
                             /\ db'[i] + gone'[i] = db[i] + gone[i] + held[t][i]
                             /\ db[i] + gone[i] <= db'[i] + gone'[i]
<1>1. held[t] \in Counts /\ db \in Counts /\ gone \in Counts
  BY DEF TypeOK
<1>2. On(Landing, held[t]) \in Counts /\ On(Items \ Landing, held[t]) \in Counts
  BY <1>1, Sums
<1>3. db' \in Counts /\ gone' \in Counts
  BY <1>1, <1>2, Sums DEF Apply
<1>4. \A i \in Items : db'[i] = db[i] + On(Landing, held[t])[i]
                       /\ gone'[i] = gone[i] + On(Items \ Landing, held[t])[i]
  BY DEF Apply, (+)
<1>5. \A i \in Items : On(Landing, held[t])[i] + On(Items \ Landing, held[t])[i] = held[t][i]
  BY <1>1, ItemTypes DEF On
<1>6. \A i \in Items : On(Landing, held[t])[i] \in Nat /\ On(Items \ Landing, held[t])[i] \in Nat
  BY <1>2 DEF Counts
<1>7. ASSUME NEW i \in Items
      PROVE  /\ db'[i] \in Nat /\ gone'[i] \in Nat
             /\ db'[i] + gone'[i] = db[i] + gone[i] + held[t][i]
             /\ db[i] + gone[i] <= db'[i] + gone'[i]
  <2> DEFINE landed == On(Landing, held[t])[i]
             missed == On(Items \ Landing, held[t])[i]
  <2>1. db[i] \in Nat /\ gone[i] \in Nat /\ held[t][i] \in Nat
    BY ItemTypes
  <2>2. db'[i] = db[i] + landed /\ gone'[i] = gone[i] + missed
    BY <1>4
  <2>3. landed + missed = held[t][i] /\ landed \in Nat /\ missed \in Nat
    BY <1>5, <1>6
  <2> HIDE DEF landed, missed
  <2> QED
    BY <2>1, <2>2, <2>3
<1> QED
  BY <1>3, <1>7

\* Giving up the batch, and what putting it back does to one item's hits.
LEMMA ReleaseStep ==
  ASSUME TypeOK, NEW t \in Threads, held' = [held EXCEPT ![t] = Zero]
  PROVE  /\ held' \in [Threads -> Counts] /\ held'[t] = Zero
         /\ \A w \in Threads \ {t} : held'[w] = held[w]
         /\ \A i \in Items : held'["loop"][i] + held'["final"][i] + held[t][i]
                               = held["loop"][i] + held["final"][i]
<1>1. Zero \in Counts /\ \A i \in Items : Zero[i] = 0
  BY DEF Zero, Counts
<1>2. /\ held' \in [Threads -> Counts] /\ held'[t] = Zero
      /\ \A w \in Threads \ {t} : held'[w] = held[w]
  BY <1>1 DEF TypeOK
<1> QED
  BY <1>1, <1>2, ItemTypes DEF Threads

LEMMA RebufferStep ==
  ASSUME TypeOK, NEW t \in Threads, Rebuffer(t)
  PROVE  /\ buf' \in Counts /\ \A i \in Items : InMemory(i)' = InMemory(i)
<1>1. held[t] \in Counts /\ buf \in Counts
  BY DEF TypeOK
<1>2. buf' \in Counts /\ \A i \in Items : buf'[i] = buf[i] + held[t][i]
  BY <1>1, Sums DEF Rebuffer
<1>3. held' \in [Threads -> Counts]
      /\ \A i \in Items : held'["loop"][i] + held'["final"][i] + held[t][i]
                            = held["loop"][i] + held["final"][i]
  BY ReleaseStep DEF Rebuffer
<1>4. \A i \in Items : held'["loop"][i] \in Nat /\ held'["final"][i] \in Nat
  BY <1>3 DEF Counts, Threads
<1> QED
  BY <1>1, <1>2, <1>3, <1>4, ItemTypes DEF InMemory

LEMMA CommitStep ==
  ASSUME IInv, NEW t \in Threads, Commit(t)
  PROVE  IInv'
<1>a. TypeOK /\ pc[t] = "write" /\ Continue(t)
  BY DEF Commit, IInv
<1>b. /\ db' \in Counts /\ gone' \in Counts
      /\ \A i \in Items : /\ db'[i] \in Nat /\ gone'[i] \in Nat
                          /\ db'[i] + gone'[i] = db[i] + gone[i] + held[t][i]
                          /\ db[i] + gone[i] <= db'[i] + gone'[i]
  BY <1>a, ApplyStep DEF Commit
<1>c. /\ held' \in [Threads -> Counts] /\ held'[t] = Zero
      /\ \A w \in Threads \ {t} : held'[w] = held[w]
      /\ \A i \in Items : held'["loop"][i] + held'["final"][i] + held[t][i]
                            = held["loop"][i] + held["final"][i]
  BY <1>a, ReleaseStep DEF Commit
<1> USE DEF IInv, Commit, flushVars, history, bounds
<1>1. TypeOK'
  BY <1>a, <1>b, <1>c, ContinueStep DEF TypeOK
<1>2. HeldWhileWriting'
  BY <1>a, <1>c, ContinueStep DEF HeldWhileWriting
<1>3. Lifecycle'
  BY <1>a, ContinueStep DEF Lifecycle, Threads
<1>4. Ledger'
  <2> SUFFICES ASSUME NEW i \in Items
               PROVE  hits[i] + doubled[i] = db'[i] + InMemory(i)' + gone'[i] + lost[i]
    BY DEF Ledger
  <2>1. hits[i] + doubled[i] = db[i] + InMemory(i) + gone[i] + lost[i]
    BY DEF Ledger
  <2>2. held'["loop"][i] \in Nat /\ held'["final"][i] \in Nat
    BY <1>c DEF Counts, Threads
  <2>3. held[t][i] \in Nat
    BY ItemTypes
  <2> QED
    BY <1>b, <1>c, <2>1, <2>2, <2>3, ItemTypes DEF InMemory
<1>5. ReaderBound'
  BY <1>b, ItemTypes DEF ReaderBound, TypeOK
<1>6. StatsBound'
  BY DEF StatsBound
<1>7. FinalFlushDrains'
  BY <1>a, ContinueStep DEF FinalFlushDrains, Drained, Lifecycle, Threads, TypeOK, Items
<1> QED
  BY <1>1, <1>2, <1>3, <1>4, <1>5, <1>6, <1>7

LEMMA CommitFailsStep ==
  ASSUME IInv, NEW t \in Threads, CommitFails(t)
  PROVE  IInv'
<1>a. TypeOK /\ pc[t] = "write" /\ Continue(t) /\ Rebuffer(t)
  BY DEF CommitFails, Rebuffer, IInv
<1>b. /\ held' \in [Threads -> Counts] /\ held'[t] = Zero
      /\ \A w \in Threads \ {t} : held'[w] = held[w]
  BY <1>a, ReleaseStep DEF Rebuffer
<1>c. buf' \in Counts /\ \A i \in Items : InMemory(i)' = InMemory(i)
  BY <1>a, RebufferStep
<1> USE DEF IInv, CommitFails, flushVars, history, bounds
<1>1. TypeOK'
  BY <1>a, <1>b, <1>c, ContinueStep, ConstantsAssumption DEF TypeOK, Rebuffer
<1>2. HeldWhileWriting'
  BY <1>a, <1>b, ContinueStep DEF HeldWhileWriting
<1>3. Lifecycle'
  BY <1>a, ContinueStep DEF Lifecycle, Threads
<1>4. Ledger'
  BY <1>c DEF Ledger
<1>5. ReaderBound'
  BY DEF ReaderBound
<1>6. StatsBound'
  BY DEF StatsBound
<1>7. FinalFlushDrains'
  BY <1>a DEF FinalFlushDrains, Rebuffer
<1> QED
  BY <1>1, <1>2, <1>3, <1>4, <1>5, <1>6, <1>7

LEMMA AckLostStep ==
  ASSUME IInv, NEW t \in Threads, AckLost(t)
  PROVE  IInv'
<1>a. TypeOK /\ pc[t] = "write" /\ Continue(t) /\ Rebuffer(t)
  BY DEF AckLost, Rebuffer, IInv
<1>b. /\ held' \in [Threads -> Counts] /\ held'[t] = Zero
      /\ \A w \in Threads \ {t} : held'[w] = held[w]
  BY <1>a, ReleaseStep DEF Rebuffer
<1>c. buf' \in Counts /\ \A i \in Items : InMemory(i)' = InMemory(i)
  BY <1>a, RebufferStep
<1>d. /\ db' \in Counts /\ gone' \in Counts
      /\ \A i \in Items : /\ db'[i] \in Nat /\ gone'[i] \in Nat
                          /\ db'[i] + gone'[i] = db[i] + gone[i] + held[t][i]
                          /\ db[i] + gone[i] <= db'[i] + gone'[i]
  BY <1>a, ApplyStep DEF AckLost
<1>e. held[t] \in Counts /\ doubled \in Counts /\ doubled' = doubled (+) held[t]
  BY <1>a DEF TypeOK, AckLost
<1>f. doubled' \in Counts /\ \A i \in Items : doubled'[i] = doubled[i] + held[t][i]
  BY <1>e, Sums
<1>g. Ledger'
  <2> SUFFICES ASSUME NEW i \in Items
               PROVE  hits[i] + doubled'[i] = db'[i] + InMemory(i)' + gone'[i] + lost[i]
    BY DEF Ledger, AckLost
  <2> DEFINE h == hits[i]
             m == InMemory(i)
             b == held[t][i]
             x == doubled[i]
             y == db[i] + gone[i]
             l == lost[i]
  <2>1. h + x = y + m + l
    BY <1>a, ItemTypes DEF Ledger, IInv, InMemory
  <2>2. db'[i] + gone'[i] = y + b /\ db'[i] \in Nat /\ gone'[i] \in Nat
    BY <1>d
  <2>3. InMemory(i)' = m /\ doubled'[i] = x + b
    BY <1>c, <1>f
  <2>4. h \in Nat /\ m \in Nat /\ b \in Nat /\ x \in Nat /\ y \in Nat /\ l \in Nat
    BY <1>a, ItemTypes DEF InMemory
  <2> HIDE DEF h, m, b, x, y, l
  <2>5. h + doubled'[i] = db'[i] + InMemory(i)' + gone'[i] + l
    BY <2>1, <2>2, <2>3, <2>4
  <2> QED
    BY <2>5 DEF h, l
<1> USE DEF IInv, AckLost, flushVars, history, bounds
<1>1. TypeOK'
  BY <1>a, <1>b, <1>c, <1>d, <1>f, ContinueStep, ConstantsAssumption DEF TypeOK, Rebuffer
<1>2. HeldWhileWriting'
  BY <1>a, <1>b, ContinueStep DEF HeldWhileWriting
<1>3. Lifecycle'
  BY <1>a, ContinueStep DEF Lifecycle, Threads
<1>4. Ledger'
  BY <1>g
<1>5. ReaderBound'
  BY <1>d, ItemTypes DEF ReaderBound, TypeOK
<1>6. StatsBound'
  BY <1>e, <1>f, ItemTypes DEF StatsBound, TypeOK
<1>7. FinalFlushDrains'
  BY <1>a DEF FinalFlushDrains, Rebuffer
<1> QED
  BY <1>1, <1>2, <1>3, <1>4, <1>5, <1>6, <1>7

LEMMA DrainStep ==
  ASSUME IInv, NEW t \in Threads, Drain(t)
  PROVE  IInv'
<1> DEFINE batch == On(ItemsOf(buffer[t]), buf)
<1>a. TypeOK /\ pc[t] = "drain" /\ held[t] = Zero
  BY DEF Drain, IInv, HeldWhileWriting
<1>b. /\ batch \in Counts
      /\ \A i \in Items : batch[i] = IF i \in ItemsOf(buffer[t]) THEN buf[i] ELSE 0
  <2>1. buf \in Counts
    BY <1>a DEF TypeOK
  <2> HIDE DEF batch
  <2>2. batch = On(ItemsOf(buffer[t]), buf)
    BY DEF batch
  <2> QED
    BY <2>1, <2>2 DEF On, Counts
<1>c. /\ held' \in [Threads -> Counts] /\ held'[t] = batch
      /\ \A w \in Threads \ {t} : held'[w] = held[w]
  BY <1>a, <1>b DEF Drain, TypeOK
<1>d. \A i \in Items : buf'[i] = IF i \in ItemsOf(buffer[t]) THEN 0 ELSE buf[i]
  BY <1>b, ItemTypes, <1>a DEF Drain
<1>e. buf' \in Counts
  <2>1. \A i \in Items : buf[i] - batch[i] \in Nat
    BY <1>a, <1>b, ItemTypes
  <2> QED
    BY <2>1 DEF Drain, Counts
<1>f. \/ batch = Zero /\ Continue(t)
      \/ pc' = [pc EXCEPT ![t] = "write"] /\ buffer' = buffer
  BY DEF Drain
<1>g. \A i \in Items : InMemory(i)' = InMemory(i)
  <2> SUFFICES ASSUME NEW i \in Items PROVE InMemory(i)' = InMemory(i)
    OBVIOUS
  <2>1. buf'[i] + held'[t][i] = buf[i] + held[t][i]
    BY <1>a, <1>b, <1>c, <1>d, ItemTypes DEF Zero
  <2>2. buf'[i] \in Nat /\ held'["loop"][i] \in Nat /\ held'["final"][i] \in Nat
    BY <1>c, <1>e DEF Counts, Threads
  <2>3. CASE t = "loop"
    BY <1>a, <1>c, <2>1, <2>2, <2>3, ItemTypes DEF InMemory, Threads
  <2>4. CASE t = "final"
    BY <1>a, <1>c, <2>1, <2>2, <2>4, ItemTypes DEF InMemory, Threads
  <2> QED
    BY <2>3, <2>4 DEF Threads
<1> USE DEF IInv, Drain, flushVars, history, bounds
<1>1. TypeOK'
  <2>1. pc' \in [Threads -> {"idle", "drain", "write"}] /\ buffer' \in [Threads -> {"counter", "audit"}]
    BY <1>a, <1>f, ContinueStep DEF TypeOK
  <2> QED
    BY <2>1, <1>c, <1>e DEF TypeOK
<1>2. HeldWhileWriting'
  <2>1. CASE batch = Zero /\ Continue(t)
    BY <1>a, <1>c, <2>1, ContinueStep DEF HeldWhileWriting
  <2>2. CASE pc' = [pc EXCEPT ![t] = "write"] /\ buffer' = buffer
    BY <1>a, <1>c, <2>2 DEF HeldWhileWriting, TypeOK
  <2> QED
    BY <1>f, <2>1, <2>2
<1>3. Lifecycle'
  BY <1>a, <1>f, ContinueStep DEF Lifecycle, Threads, TypeOK
<1>4. Ledger'
  BY <1>g DEF Ledger
<1>5. ReaderBound'
  BY DEF ReaderBound
<1>6. StatsBound'
  BY DEF StatsBound
<1>7. FinalFlushDrains'
  <2> SUFFICES ASSUME life = "stopping", ~troubled, NEW i \in Items, Drained(i)'
               PROVE  buf'[i] = 0
    BY DEF FinalFlushDrains
  <2>1. Drained(i) => buf'[i] = 0
    BY <1>d DEF FinalFlushDrains
  <2>2. t = "final" /\ i \in ItemsOf(buffer[t]) => buf'[i] = 0
    BY <1>d
  <2>3. CASE t = "loop"
    <3>1. pc'["final"] = pc["final"] /\ buffer'["final"] = buffer["final"]
      BY <1>a, <1>f, <2>3, ContinueStep DEF TypeOK, Threads
    <3> QED
      BY <2>1, <3>1 DEF Drained
  <2>4. CASE t = "final"
    <3>1. CASE batch = Zero /\ Continue(t)
      BY <1>a, <2>1, <2>2, <2>4, <3>1, ContinueStep DEF Drained, ItemsOf, TypeOK, Threads
    <3>2. CASE pc' = [pc EXCEPT ![t] = "write"] /\ buffer' = buffer
      BY <1>a, <2>1, <2>2, <2>4, <3>2 DEF Drained, ItemsOf, TypeOK, Threads
    <3> QED
      BY <1>f, <3>1, <3>2
  <2> QED
    BY <2>3, <2>4 DEF Threads
<1> QED
  BY <1>1, <1>2, <1>3, <1>4, <1>5, <1>6, <1>7

\* The end of the process: what was in memory is lost, no more and no less.
LEMMA ForgetStep ==
  ASSUME TypeOK, Forget
  PROVE  /\ lost' \in Counts /\ buf' \in Counts /\ held' \in [Threads -> Counts]
         /\ \A t \in Threads : held'[t] = Zero
         /\ \A i \in Items : buf'[i] = 0 /\ InMemory(i)' = 0 /\ lost'[i] = lost[i] + InMemory(i)
<1>1. \A i \in Items : lost[i] + InMemory(i) \in Nat
  BY ItemTypes DEF InMemory
<1>2. \A i \in Items : buf'[i] = 0 /\ held'["loop"][i] = 0 /\ held'["final"][i] = 0
  BY DEF Forget, Zero, Threads
<1> QED
  BY <1>1, <1>2 DEF Forget, Zero, Counts, InMemory

LEMMA ExitStep ==
  ASSUME IInv, Exit
  PROVE  IInv'
<1>a. /\ lost' \in Counts /\ buf' \in Counts /\ held' \in [Threads -> Counts]
      /\ \A t \in Threads : held'[t] = Zero
      /\ \A i \in Items : buf'[i] = 0 /\ InMemory(i)' = 0 /\ lost'[i] = lost[i] + InMemory(i)
  BY ForgetStep DEF IInv, Exit
<1> USE DEF IInv, Exit, flushVars, history, bounds
<1>1. TypeOK'
  BY <1>a, ConstantsAssumption DEF TypeOK, Lifecycle
<1>2. HeldWhileWriting'
  BY <1>a DEF HeldWhileWriting
<1>3. Lifecycle'
  BY DEF Lifecycle, Threads
<1>4. Ledger'
  <2> SUFFICES ASSUME NEW i \in Items
               PROVE  hits[i] + doubled[i] = db[i] + InMemory(i)' + gone[i] + lost'[i]
    BY DEF Ledger
  <2>1. hits[i] + doubled[i] = db[i] + InMemory(i) + gone[i] + lost[i]
    BY DEF Ledger
  <2>2. InMemory(i) \in Nat
    BY ItemTypes DEF InMemory
  <2> QED
    BY <1>a, <2>1, <2>2, ItemTypes
<1>5. ReaderBound'
  BY DEF ReaderBound
<1>6. StatsBound'
  BY DEF StatsBound
<1>7. FinalFlushDrains'
  BY DEF FinalFlushDrains
<1> QED
  BY <1>1, <1>2, <1>3, <1>4, <1>5, <1>6, <1>7

LEMMA CrashStep ==
  ASSUME IInv, Crash
  PROVE  IInv'
<1>a. /\ lost' \in Counts /\ buf' \in Counts /\ held' \in [Threads -> Counts]
      /\ \A t \in Threads : held'[t] = Zero
      /\ \A i \in Items : buf'[i] = 0 /\ InMemory(i)' = 0 /\ lost'[i] = lost[i] + InMemory(i)
  BY ForgetStep DEF IInv, Crash
<1> USE DEF IInv, Crash, flushVars, history, bounds
<1>1. TypeOK'
  BY <1>a, SomeItem, ConstantsAssumption DEF TypeOK, NoReader
<1>2. HeldWhileWriting'
  BY <1>a DEF HeldWhileWriting
<1>3. Lifecycle'
  BY DEF Lifecycle, Threads
<1>4. Ledger'
  <2> SUFFICES ASSUME NEW i \in Items
               PROVE  hits[i] + doubled[i] = db[i] + InMemory(i)' + gone[i] + lost'[i]
    BY DEF Ledger
  <2>1. hits[i] + doubled[i] = db[i] + InMemory(i) + gone[i] + lost[i]
    BY DEF Ledger
  <2>2. InMemory(i) \in Nat
    BY ItemTypes DEF InMemory
  <2> QED
    BY <1>a, <2>1, <2>2, ItemTypes
<1>5. ReaderBound'
  BY DEF ReaderBound, NoReader
<1>6. StatsBound'
  BY DEF StatsBound, NoReader
<1>7. FinalFlushDrains'
  BY DEF FinalFlushDrains
<1> QED
  BY <1>1, <1>2, <1>3, <1>4, <1>5, <1>6, <1>7

-----------------------------------------------------------------------------

LEMMA InitIInv == Init => IInv
<1> SUFFICES ASSUME Init PROVE IInv
  OBVIOUS
<1> USE DEF Init
<1>1. \A i \in Items : Zero[i] = 0
  BY DEF Zero
<1>2. TypeOK
  <2>1. Zero \in Counts
    BY DEF Zero, Counts
  <2>2. NoReader \in [pc : {"idle", "stored", "done"}, item : Items, seen : Nat]
    BY SomeItem DEF NoReader
  <2>3. held \in [Threads -> Counts] /\ serving \subseteq Items /\ alive \subseteq Counters
    BY <2>1
  <2>4. /\ pc \in [Threads -> {"idle", "drain", "write"}]
        /\ buffer \in [Threads -> {"counter", "audit"}]
        /\ life \in {"running", "stopping", "stopped", "crashed"} /\ troubled \in BOOLEAN
    OBVIOUS
  <2>5. failures \in 0 .. MaxFailures /\ lostAcks \in 0 .. MaxLostAcks /\ restarts \in 0 .. MaxRestarts
    BY ConstantsAssumption
  <2>6. hits \in Counts /\ db \in Counts /\ buf \in Counts
        /\ gone \in Counts /\ lost \in Counts /\ doubled \in Counts
    BY <2>1
  <2> QED
    BY <2>2, <2>3, <2>4, <2>5, <2>6 DEF TypeOK
<1>3. Ledger
  BY <1>1 DEF Ledger, InMemory, Threads
<1> QED
  BY <1>2, <1>3 DEF IInv, HeldWhileWriting, Lifecycle, ReaderBound, NoReader,
                    StatsBound, FinalFlushDrains, Threads

LEMMA StepIInv == IInv /\ [Next]_vars => IInv'
<1> SUFFICES ASSUME IInv, [Next]_vars PROVE IInv'
  OBVIOUS
<1>1. ASSUME NEW i \in Items, LoadRow(i) PROVE IInv'
  BY <1>1, LoadRowStep
<1>2. ASSUME NEW i \in Items, Hit(i) PROVE IInv'
  BY <1>2, HitStep
<1>3. ASSUME NEW i \in Items, Abandon(i) PROVE IInv'
  BY <1>3, AbandonStep
<1>4. ASSUME NEW i \in Items, DeleteRow(i) PROVE IInv'
  BY <1>4, DeleteRowStep
<1>5. ASSUME NEW i \in Items, PruneEvents(i) PROVE IInv'
  BY <1>5, PruneEventsStep
<1>6. ASSUME NEW i \in Items, ReadStored(i) PROVE IInv'
  BY <1>6, ReadStoredStep
<1>7. CASE ReadPending
  BY <1>7, ReadPendingStep
<1>8. CASE Answer
  BY <1>8, AnswerStep
<1>9. CASE LoopTurn
  BY <1>9, LoopTurnStep
<1>10. ASSUME NEW t \in Threads, Drain(t) PROVE IInv'
  BY <1>10, DrainStep
<1>11. ASSUME NEW t \in Threads, Commit(t) PROVE IInv'
  BY <1>11, CommitStep
<1>12. ASSUME NEW t \in Threads, CommitFails(t) PROVE IInv'
  BY <1>12, CommitFailsStep
<1>13. ASSUME NEW t \in Threads, AckLost(t) PROVE IInv'
  BY <1>13, AckLostStep
<1>14. CASE Shutdown
  BY <1>14, ShutdownStep
<1>15. CASE Exit
  BY <1>15, ExitStep
<1>16. CASE Crash
  BY <1>16, CrashStep
<1>17. CASE Boot
  BY <1>17, BootStep
<1>18. CASE UNCHANGED vars
  BY <1>18 DEF vars, flushVars, history, bounds, IInv, TypeOK, HeldWhileWriting, Lifecycle,
      Ledger, InMemory, ReaderBound, StatsBound, FinalFlushDrains, Drained
<1> QED
  BY <1>1, <1>2, <1>3, <1>4, <1>5, <1>6, <1>7, <1>8, <1>9, <1>10, <1>11, <1>12, <1>13, <1>14, <1>15, <1>16, <1>17, <1>18 DEF Next, Visit, FlushStep

\* The strengthened invariant, under any schedule.
THEOREM Invariance == Spec => []IInv
BY InitIInv, StepIInv, PTL DEF Spec

-----------------------------------------------------------------------------

\* Hits are put back although they were stored only by a commit wrongly reported as failed.
AcksMakeDoubles == lostAcks = 0 => \A i \in Items : doubled[i] = 0

LEMMA AcksMakeDoublesStep ==
  ASSUME IInv, AcksMakeDoubles, [Next]_vars
  PROVE  AcksMakeDoubles'
<1>1. CASE UNCHANGED vars
  BY <1>1 DEF vars, history, bounds, AcksMakeDoubles
<1>2. ASSUME NEW t \in Threads, AckLost(t) PROVE AcksMakeDoubles'
  <2>1. lostAcks \in Nat
    BY ConstantsAssumption DEF IInv, TypeOK
  <2>2. lostAcks' # 0
    BY <1>2, <2>1 DEF AckLost
  <2> QED
    BY <2>2 DEF AcksMakeDoubles
<1>3. ASSUME Next, \A t \in Threads : ~AckLost(t) PROVE AcksMakeDoubles'
  <2>1. doubled' = doubled /\ lostAcks' = lostAcks
    BY <1>3 DEF Next, Visit, FlushStep, LoadRow, Hit, Abandon, DeleteRow, PruneEvents, ReadStored,
      ReadPending, Answer, LoopTurn, Drain, Commit, CommitFails, Shutdown, Exit, Crash, Boot,
      history, bounds
  <2> QED
    BY <2>1 DEF AcksMakeDoubles
<1> QED
  BY <1>1, <1>2, <1>3

LEMMA OnlyAcksMakeDoubles == Spec => []AcksMakeDoubles
<1>1. Init => AcksMakeDoubles
  BY DEF Init, AcksMakeDoubles, Zero
<1>2. IInv /\ AcksMakeDoubles /\ [Next]_vars => AcksMakeDoubles'
  BY AcksMakeDoublesStep
<1> QED
  BY <1>1, <1>2, Invariance, PTL DEF Spec

\* Wherever flushes fail, threads overlap, rows disappear and processes end, each
\* hit is accounted for; and counted once, unless a commit that was made has been
\* reported as failed (counters.py, audit.py: drain, commit or re-buffer).
THEOREM HitsAreConserved == Spec => [](TypeOK /\ Conservation)
<1>1. IInv /\ AcksMakeDoubles => TypeOK /\ Conservation
  <2> SUFFICES ASSUME IInv, AcksMakeDoubles, NEW i \in Items
               PROVE  /\ hits[i] <= Accounted(i)
                      /\ lostAcks = 0 => hits[i] = Accounted(i)
    BY DEF IInv, Conservation
  <2>1. hits[i] + doubled[i] = db[i] + InMemory(i) + gone[i] + lost[i]
    BY DEF IInv, Ledger
  <2>2. /\ hits[i] \in Nat /\ doubled[i] \in Nat /\ db[i] \in Nat
        /\ gone[i] \in Nat /\ lost[i] \in Nat /\ InMemory(i) \in Nat
    BY ItemTypes DEF IInv, InMemory
  <2>3. lostAcks = 0 => doubled[i] = 0
    BY DEF AcksMakeDoubles
  <2> QED
    BY <2>1, <2>2, <2>3 DEF Accounted, Settled
<1> QED
  BY <1>1, Invariance, OnlyAcksMakeDoubles, PTL

\* Every variable of the counter buffer, its flushes and its readers keeps its type.
THEOREM TypesHold == Spec => []TypeOK
<1>1. IInv => TypeOK
  BY DEF IInv
<1> QED
  BY <1>1, Invariance, PTL

\* get_package_stats reads the stored count before the buffered one, and so never
\* counts a hit twice that is flushed between the two; what it adds up is at most the
\* hits there were, unless a commit that was made has been reported as failed.
THEOREM StatsAreSound == Spec => []StatsNeverOverReport
<1>1. IInv /\ AcksMakeDoubles => StatsNeverOverReport
  <2> SUFFICES ASSUME IInv, AcksMakeDoubles, lostAcks = 0, reader.pc = "done"
               PROVE  reader.seen <= hits[reader.item]
    BY DEF StatsNeverOverReport
  <2>1. reader.item \in Items /\ reader.seen \in Nat
    BY DEF IInv, TypeOK
  <2>2. doubled[reader.item] = 0 /\ hits[reader.item] \in Nat
    BY <2>1, ItemTypes DEF AcksMakeDoubles, IInv
  <2> QED
    BY <2>1, <2>2 DEF IInv, StatsBound
<1> QED
  BY <1>1, Invariance, OnlyAcksMakeDoubles, PTL

\* The lifespan's shutdown persists all that was buffered if no flush fails during
\* it, also when the cancelled loop's flush is still under way.
THEOREM ShutdownIsLossless == Spec => OrderlyExitLosesNothing
<1> DEFINE A == life = "stopping" /\ life' = "stopped" /\ ~troubled => lost' = lost
<1>1. IInv /\ [Next]_vars => [A]_vars
  <2> SUFFICES ASSUME IInv, Next, life = "stopping", life' = "stopped", ~troubled
               PROVE  lost' = lost
    OBVIOUS
  <2>1. Exit
    BY DEF Next, Visit, FlushStep, LoadRow, Hit, Abandon, DeleteRow, PruneEvents, ReadStored,
           ReadPending, Answer, LoopTurn, Drain, Commit, CommitFails, AckLost, Shutdown, Crash, Boot
  <2>2. \A i \in Items : InMemory(i) = 0
    <3>1. \A t \in Threads : pc[t] = "idle" /\ held[t] = Zero
      BY <2>1 DEF Exit, IInv, HeldWhileWriting
    <3>2. \A i \in Items : buf[i] = 0
      BY <3>1 DEF IInv, FinalFlushDrains, Drained, Items, Threads
    <3> QED
      BY <3>1, <3>2 DEF InMemory, Zero, Threads
  <2>3. lost' = [i \in Items |-> lost[i]]
    BY <2>1, <2>2, ItemTypes DEF Exit, Forget, IInv
  <2> QED
    BY <2>3 DEF IInv, TypeOK, Counts
<1> QED
  BY <1>1, Invariance, PTL DEF Spec, OrderlyExitLosesNothing
=============================================================================
