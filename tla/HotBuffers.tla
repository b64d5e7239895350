----------------------------- MODULE HotBuffers -----------------------------
(***************************************************************************)
(* The two in-memory buffers of the public share endpoints: CounterBuffer  *)
(* (view and download counters) and AuditBuffer (download audit events).   *)
(* Requests add to them; a loop drains each into one transaction and puts  *)
(* the batch back when that fails; shutdown flushes once more, in another  *)
(* thread; the owner's statistics add the buffered part to the stored one. *)
(*                                                                         *)
(* An item is one counter (a share's views, a file's downloads) or the     *)
(* share.download events of one package. What is kept of an item is how    *)
(* many of its hits are where.                                             *)
(***************************************************************************)
EXTENDS Naturals

CONSTANTS
  Counters,     \* rows with a denormalised counter (shares, files)
  Events,       \* packages with share.download audit events
  MaxHits,      \* bound on the hits of an item, for TLC
  MaxFailures,  \* bound on transactions that are reported as failed, of which
  MaxLostAcks,  \* so many may have been applied all the same
  MaxRestarts   \* bound on process ends

ASSUME ConstantsAssumption ==
  /\ Counters \cap Events = {} /\ Counters \union Events # {}
  /\ MaxHits \in Nat /\ MaxFailures \in Nat /\ MaxLostAcks \in Nat /\ MaxRestarts \in Nat

Items == Counters \union Events

\* The thread the flush loop runs a flush in, and the lifespan's final one.
Threads == {"loop", "final"}

VARIABLES
  hits,       \* history: hits recorded, per item
  db,         \* hits in the database, per item
  buf,        \* hits in the process's buffers, per item
  held,       \* per flush thread: the batch it has drained, per item
  gone,       \* history: hits whose row was deleted, before or after the flush
  lost,       \* history: hits that were in memory when the process ended
  doubled,    \* history: hits that were put back although they were stored
  alive,      \* counters whose row exists
  serving,    \* items whose row a request has loaded, the hit not yet added
  pc, buffer, \* per flush thread: its step, and the buffer it is flushing
  reader,     \* a statistics request: its step, item and what it has summed up
  life,       \* of the process
  troubled,   \* history: a flush has failed since the shutdown began
  failures, lostAcks, restarts

flushVars == <<pc, buffer>>
history   == <<gone, lost, doubled>>
bounds    == <<failures, lostAcks, restarts>>
vars == <<hits, db, buf, held, history, alive, serving, flushVars, reader, life, troubled, bounds>>

-----------------------------------------------------------------------------

Zero == [i \in Items |-> 0]
f (+) g == [i \in Items |-> f[i] + g[i]]
On(S, f) == [i \in Items |-> IF i \in S THEN f[i] ELSE 0]

ItemsOf(b) == IF b = "counter" THEN Counters ELSE Events

\* Items a flushed delta can land on: an UPDATE of a deleted row matches
\* nothing, an event is inserted whatever has become of its package.
Landing == alive \union Events

NoReader == [pc |-> "idle", item |-> CHOOSE i \in Items : TRUE, seen |-> 0]

-----------------------------------------------------------------------------
(* Requests to a public share. *)

\* view_share, download_shared_file, download_shared_archive load the row ...
LoadRow(i) ==
  /\ life = "running"
  /\ i \in Landing \ serving
  /\ hits[i] < MaxHits
  /\ serving' = serving \union {i}
  /\ UNCHANGED <<hits, db, buf, held, history, alive, flushVars, reader, life, troubled, bounds>>

\* ... and record the hit later (an archive: when its stream has finished).
Hit(i) ==
  /\ i \in serving
  /\ serving' = serving \ {i}
  /\ hits' = [hits EXCEPT ![i] = @ + 1]
  /\ buf' = [buf EXCEPT ![i] = @ + 1]
  /\ UNCHANGED <<db, held, history, alive, flushVars, reader, life, troubled, bounds>>

\* The client leaves before its archive has been streamed: no hit.
Abandon(i) ==
  /\ i \in serving
  /\ serving' = serving \ {i}
  /\ UNCHANGED <<hits, db, buf, held, history, alive, flushVars, reader, life, troubled, bounds>>

-----------------------------------------------------------------------------
(* A flush: drain under the buffer's lock, then one transaction. *)

\* Slip: an exception ends the loop.
LoopTurnUntilFailure ==
  /\ life = "running"
  /\ failures = 0
  /\ pc["loop"] = "idle"
  /\ pc' = [pc EXCEPT !["loop"] = "drain"]
  /\ buffer' = [buffer EXCEPT !["loop"] = "counter"]
  /\ UNCHANGED <<hits, db, buf, held, history, alive, serving, reader, life, troubled, bounds>>

\* hot_buffer_flush_loop wakes up and hands the first flush to a thread.
LoopTurn ==
  /\ life = "running"
  /\ pc["loop"] = "idle"
  /\ pc' = [pc EXCEPT !["loop"] = "drain"]
  /\ buffer' = [buffer EXCEPT !["loop"] = "counter"]
  /\ UNCHANGED <<hits, db, buf, held, history, alive, serving, reader, life, troubled, bounds>>

\* Slip: no audit flush once the process stops, not even the final one.
ContinueWhileRunning(t) ==
  IF buffer[t] = "counter" /\ life = "running"
  THEN /\ pc' = [pc EXCEPT ![t] = "drain"]
       /\ buffer' = [buffer EXCEPT ![t] = "audit"]
  ELSE /\ pc' = [pc EXCEPT ![t] = "idle"]
       /\ UNCHANGED buffer

\* What follows the flush of a buffer: the audit buffer follows the counters,
\* unless the loop has been cancelled meanwhile.
Continue(t) ==
  IF buffer[t] = "counter" /\ (t = "final" \/ life = "running")
  THEN /\ pc' = [pc EXCEPT ![t] = "drain"]
       /\ buffer' = [buffer EXCEPT ![t] = "audit"]
  ELSE /\ pc' = [pc EXCEPT ![t] = "idle"]
       /\ UNCHANGED buffer

\* Slip: the batch is copied, the buffer keeps it.
DrainByCopy(t) ==
  /\ pc[t] = "drain"
  /\ LET batch == On(ItemsOf(buffer[t]), buf) IN
       /\ held' = [held EXCEPT ![t] = batch]
       /\ IF batch = Zero
          THEN Continue(t)
          ELSE pc' = [pc EXCEPT ![t] = "write"] /\ UNCHANGED buffer
  /\ UNCHANGED <<hits, db, buf, history, alive, serving, reader, life, troubled, bounds>>

Drain(t) ==
  /\ pc[t] = "drain"
  /\ LET batch == On(ItemsOf(buffer[t]), buf) IN
       /\ held' = [held EXCEPT ![t] = batch]
       /\ buf' = [i \in Items |-> buf[i] - batch[i]]
       /\ IF batch = Zero
          THEN Continue(t)
          ELSE pc' = [pc EXCEPT ![t] = "write"] /\ UNCHANGED buffer
  /\ UNCHANGED <<hits, db, history, alive, serving, reader, life, troubled, bounds>>

\* The transaction's effect on the database.
Apply(batch) ==
  /\ db' = db (+) On(Landing, batch)
  /\ gone' = gone (+) On(Items \ Landing, batch)

\* Slip: the batch replaces what was added since.
RebufferOverwrites(t) ==
  /\ buf' = [i \in Items |-> IF held[t][i] > 0 THEN held[t][i] ELSE buf[i]]
  /\ held' = [held EXCEPT ![t] = Zero]
  /\ troubled' = TRUE
  /\ Continue(t)

\* _rebuffer: the batch goes back, on top of what was added since.
Rebuffer(t) ==
  /\ buf' = buf (+) held[t]
  /\ held' = [held EXCEPT ![t] = Zero]
  /\ troubled' = TRUE
  /\ Continue(t)

Commit(t) ==
  /\ pc[t] = "write"
  /\ Apply(held[t])
  /\ held' = [held EXCEPT ![t] = Zero]
  /\ Continue(t)
  /\ UNCHANGED <<hits, buf, lost, doubled, alive, serving, reader, life, troubled, bounds>>

CommitFails(t) ==
  /\ pc[t] = "write"
  /\ failures < MaxFailures
  /\ failures' = failures + 1
  /\ Rebuffer(t)
  /\ UNCHANGED <<hits, db, history, alive, serving, reader, life, lostAcks, restarts>>

\* The connection breaks after the server has committed: commit() raises.
AckLost(t) ==
  /\ pc[t] = "write"
  /\ failures < MaxFailures /\ lostAcks < MaxLostAcks
  /\ failures' = failures + 1
  /\ lostAcks' = lostAcks + 1
  /\ Apply(held[t])
  /\ doubled' = doubled (+) held[t]
  /\ Rebuffer(t)
  /\ UNCHANGED <<hits, lost, alive, serving, reader, life, restarts>>

-----------------------------------------------------------------------------
(* Rows go away. *)

\* A share or a file is deleted, and its stored count with it.
DeleteRow(i) ==
  /\ i \in alive
  /\ alive' = alive \ {i}
  /\ db' = [db EXCEPT ![i] = 0]
  /\ gone' = [gone EXCEPT ![i] = @ + db[i]]
  /\ UNCHANGED <<hits, buf, held, lost, doubled, serving, flushVars, reader, life, troubled, bounds>>

\* prune_audit_events deletes the older of an item's events.
PruneEvents(i) ==
  /\ i \in Events
  /\ \E n \in 1 .. db[i] :
       /\ db' = [db EXCEPT ![i] = @ - n]
       /\ gone' = [gone EXCEPT ![i] = @ + n]
  /\ UNCHANGED <<hits, buf, held, lost, doubled, alive, serving, flushVars, reader, life, troubled, bounds>>

-----------------------------------------------------------------------------
(* get_package_stats: the stored count first, then the buffered one. *)

ReadStored(i) ==
  /\ life = "running"
  /\ reader.pc = "idle"
  /\ reader' = [pc |-> "stored", item |-> i, seen |-> db[i]]
  /\ UNCHANGED <<hits, db, buf, held, history, alive, serving, flushVars, life, troubled, bounds>>

\* Slip: the buffered part is taken off the stored one.
ReadPendingNegated ==
  /\ reader.pc = "stored"
  /\ reader' = [reader EXCEPT !.pc = "done", !.seen = @ - buf[reader.item]]
  /\ UNCHANGED <<hits, db, buf, held, history, alive, serving, flushVars, life, troubled, bounds>>

ReadPending ==
  /\ reader.pc = "stored"
  /\ reader' = [reader EXCEPT !.pc = "done", !.seen = @ + buf[reader.item]]
  /\ UNCHANGED <<hits, db, buf, held, history, alive, serving, flushVars, life, troubled, bounds>>

Answer ==
  /\ reader.pc = "done"
  /\ reader' = NoReader
  /\ UNCHANGED <<hits, db, buf, held, history, alive, serving, flushVars, life, troubled, bounds>>

-----------------------------------------------------------------------------
(* The process's life. *)

\* The lifespan ends when the requests have: it cancels the loop, whose flush
\* runs on in its thread if it has started, and starts the final flush.
Shutdown ==
  /\ life = "running"
  /\ restarts < MaxRestarts
  /\ serving = {} /\ reader.pc = "idle"
  /\ life' = "stopping"
  /\ troubled' = FALSE
  /\ buffer' = [buffer EXCEPT !["final"] = "counter"]
  /\ \/ pc' = [pc EXCEPT !["final"] = "drain"]
     \/ pc["loop"] = "drain" /\ pc' = [pc EXCEPT !["final"] = "drain", !["loop"] = "idle"]
  /\ UNCHANGED <<hits, db, buf, held, history, alive, serving, reader, bounds>>

InMemory(i) == buf[i] + held["loop"][i] + held["final"][i]

Forget ==
  /\ lost' = [i \in Items |-> lost[i] + InMemory(i)]
  /\ buf' = Zero
  /\ held' = [t \in Threads |-> Zero]

\* The interpreter waits for its worker threads, then ends.
Exit ==
  /\ life = "stopping"
  /\ \A t \in Threads : pc[t] = "idle"
  /\ life' = "stopped"
  /\ restarts' = restarts + 1
  /\ Forget
  /\ UNCHANGED <<hits, db, gone, doubled, alive, serving, flushVars, reader, troubled, failures, lostAcks>>

Crash ==
  /\ life \in {"running", "stopping"}
  /\ restarts < MaxRestarts
  /\ life' = "crashed"
  /\ restarts' = restarts + 1
  /\ Forget
  /\ pc' = [t \in Threads |-> "idle"]
  /\ serving' = {}
  /\ reader' = NoReader
  /\ UNCHANGED <<hits, db, gone, doubled, alive, buffer, troubled, failures, lostAcks>>

Boot ==
  /\ life \in {"stopped", "crashed"}
  /\ life' = "running"
  /\ UNCHANGED <<hits, db, buf, held, history, alive, serving, flushVars, reader, troubled, bounds>>

-----------------------------------------------------------------------------

Init ==
  /\ hits = Zero /\ db = Zero /\ buf = Zero
  /\ gone = Zero /\ lost = Zero /\ doubled = Zero
  /\ held = [t \in Threads |-> Zero]
  /\ alive = Counters
  /\ serving = {}
  /\ pc = [t \in Threads |-> "idle"]
  /\ buffer = [t \in Threads |-> "counter"]
  /\ reader = NoReader
  /\ life = "running"
  /\ troubled = FALSE
  /\ failures = 0 /\ lostAcks = 0 /\ restarts = 0

Visit(i) == LoadRow(i) \/ Hit(i) \/ Abandon(i)

FlushStep(t) == Drain(t) \/ Commit(t) \/ CommitFails(t) \/ AckLost(t)

Next ==
  \/ \E i \in Items : Visit(i) \/ DeleteRow(i) \/ PruneEvents(i) \/ ReadStored(i)
  \/ ReadPending \/ Answer
  \/ LoopTurn
  \/ \E t \in Threads : FlushStep(t)
  \/ Shutdown \/ Exit \/ Crash \/ Boot

Spec == Init /\ [][Next]_vars

\* The loop wakes up for ever, and a flush that has started ends.
Fairness ==
  /\ WF_vars(LoopTurn)
  /\ \A t \in Threads : WF_vars(FlushStep(t))
  /\ WF_vars(Exit) /\ WF_vars(Boot)

FairSpec == Spec /\ Fairness

-----------------------------------------------------------------------------
(* Properties *)

Counts == [Items -> Nat]

TypeOK ==
  /\ hits \in Counts /\ db \in Counts /\ buf \in Counts
  /\ gone \in Counts /\ lost \in Counts /\ doubled \in Counts
  /\ held \in [Threads -> Counts]
  /\ alive \subseteq Counters
  /\ serving \subseteq Items
  /\ pc \in [Threads -> {"idle", "drain", "write"}]
  /\ buffer \in [Threads -> {"counter", "audit"}]
  /\ reader \in [pc : {"idle", "stored", "done"}, item : Items, seen : Nat]
  /\ life \in {"running", "stopping", "stopped", "crashed"}
  /\ troubled \in BOOLEAN
  /\ failures \in 0 .. MaxFailures
  /\ lostAcks \in 0 .. MaxLostAcks
  /\ restarts \in 0 .. MaxRestarts

\* The places where a recorded hit can be.
Settled(i) == db[i] + gone[i] + lost[i]
Accounted(i) == Settled(i) + InMemory(i)

\* No hit disappears on the way: each is in the database, in the buffer, in the hands
\* of one flush, was deleted with its row, or was in memory when the process ended. And
\* none is counted twice, unless a commit has been made and reported as failed: then its
\* hits are put back and counted again, although flush's comment says that "re-buffering
\* cannot double-count".
Conservation ==
  \A i \in Items :
    /\ hits[i] <= Accounted(i)
    /\ lostAcks = 0 => hits[i] = Accounted(i)

\* Unless a commit has been made and reported as failed, the statistics an owner sees
\* never claim more hits than there were, whatever is flushed, put back or deleted
\* between their two reads (they may claim fewer).
StatsNeverOverReport ==
  lostAcks = 0 /\ reader.pc = "done" => reader.seen <= hits[reader.item]

\* An orderly shutdown loses nothing that was recorded, although the final flush
\* may overlap one of the loop's, provided that no flush fails meanwhile.
OrderlyExitLosesNothing ==
  [][life = "stopping" /\ life' = "stopped" /\ ~troubled => lost' = lost]_vars

\* Every hit ends in the database unless its row or the process's memory is gone
\* first: no failed flush, cancelled loop or restart leaves one behind for ever.
EveryHitIsSettled ==
  \A i \in Items, n \in 1 .. MaxHits :
    hits[i] >= n ~> Settled(i) >= n + doubled[i]
=============================================================================
