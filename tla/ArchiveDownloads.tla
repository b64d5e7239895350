-------------------------- MODULE ArchiveDownloads --------------------------
(***************************************************************************)
(* Archives of a package's files, streamed to the client as they are made  *)
(* (archive.py). A request takes one of a bounded number of slots, keeps a *)
(* snapshot of names and storage keys, and hands a generator to the web    *)
(* server; the generator gives the slot back when it ends, however it      *)
(* ends. Files may be deleted under it, reads may fail, clients may leave. *)
(* Whole archives of a share are counted, file by file.                    *)
(***************************************************************************)
EXTENDS Naturals, Sequences, FiniteSets, FiniteSetsExt, Functions

CONSTANTS
  Downloads,    \* requests, each made at most once
  MaxFile,      \* files are 1 .. MaxFile, their ids
  Stems,
  NameOf,       \* their names: a stem and the numbers "(n)" it already ends in
  SizeOf,
  Slots,        \* max_concurrent_archive_builds
  MaxArchive,   \* max_archive_size
  MaxDeletions  \* bound for TLC: files deleted

Files == 1 .. MaxFile

ASSUME ConstantsAssumption ==
  /\ IsFiniteSet(Downloads)
  /\ MaxFile \in Nat
  /\ NameOf \in [Files -> [stem : Stems, numbers : Seq(Nat)]]
  /\ SizeOf \in [Files -> Nat]
  /\ Slots \in Nat \ {0}
  /\ MaxArchive \in Nat /\ MaxDeletions \in Nat

VARIABLES
  objects,    \* files whose stored object is there
  free,       \* _build_semaphore
  pc,
  entries,    \* per download: the snapshot its generator works from
  shared,     \* per download: it came through a share, and is to be counted
  written,    \* per download: members whose bytes are complete
  counted     \* per file: downloads counted

vars == <<objects, free, pc, entries, shared, written, counted>>

-----------------------------------------------------------------------------
(* _unique_arcname *)

\* seen_counts, when the i-th entry's turn comes.
SeenCount(es, i) == Cardinality({j \in 1 .. i - 1 : NameOf[es[j]] = NameOf[es[i]]})

\* Slip: the first duplicate keeps the name, too.
ArcNameFromThird(es, i) ==
  IF SeenCount(es, i) <= 1 THEN NameOf[es[i]]
  ELSE [NameOf[es[i]] EXCEPT !.numbers = Append(@, SeenCount(es, i))]

\* "name.ext" becomes "name (count).ext", its first occurrence excepted.
ArcName(es, i) ==
  IF SeenCount(es, i) = 0 THEN NameOf[es[i]]
  ELSE [NameOf[es[i]] EXCEPT !.numbers = Append(@, SeenCount(es, i))]

-----------------------------------------------------------------------------
(* The request *)

\* The package's files that were asked for, as the database orders them: the
\* relationship names no order.
Listings(S) == Bijection(1 .. Cardinality(S), S)

\* validate_archive_request
TotalSize(S) == MapThenSumSet(LAMBDA f : SizeOf[f], S)
Valid(S) == S # {} /\ TotalSize(S) <= MaxArchive

\* Slip: the limit is not enforced.
AcquireBlindly == free' = free - 1

Acquire == free > 0 /\ free' = free - 1
Release == free' = free + 1

Request(d) ==
  /\ pc[d] = "new"
  /\ \E S \in SUBSET Files, share \in BOOLEAN :
       /\ Valid(S)
       /\ Acquire
       /\ \E listing \in Listings(S) : entries' = [entries EXCEPT ![d] = listing]
       /\ shared' = [shared EXCEPT ![d] = share]
  /\ pc' = [pc EXCEPT ![d] = "built"]
  /\ UNCHANGED <<objects, written, counted>>

\* 404, 413 or 503
Refuse(d) ==
  /\ pc[d] = "new"
  /\ \/ \E S \in SUBSET Files : ~Valid(S)
     \/ free = 0
  /\ pc' = [pc EXCEPT ![d] = "refused"]
  /\ UNCHANGED <<objects, free, entries, shared, written, counted>>

\* The generator goes, and what it worked on with it.
Discard(d) ==
  /\ entries' = [entries EXCEPT ![d] = <<>>]
  /\ shared' = [shared EXCEPT ![d] = FALSE]
  /\ written' = [written EXCEPT ![d] = 0]

\* The client is gone before the first chunk is asked for: the generator is
\* dropped without having run, and so without its finally clause.
NeverStarts(d) ==
  /\ pc[d] = "built"
  /\ pc' = [pc EXCEPT ![d] = "dropped"]
  /\ Discard(d)
  /\ UNCHANGED <<objects, free, counted>>

-----------------------------------------------------------------------------
(* The stream *)

Start(d) ==
  /\ pc[d] = "built"
  /\ pc' = [pc EXCEPT ![d] = "streaming"]
  /\ UNCHANGED <<objects, free, entries, shared, written, counted>>

NextFile(d) == entries[d][written[d] + 1]

\* An open object stays readable when it is deleted.
OpenMember(d) ==
  /\ pc[d] = "streaming"
  /\ written[d] < Len(entries[d])
  /\ NextFile(d) \in objects
  /\ pc' = [pc EXCEPT ![d] = "reading"]
  /\ UNCHANGED <<objects, free, entries, shared, written, counted>>

CloseMember(d) ==
  /\ pc[d] = "reading"
  /\ written' = [written EXCEPT ![d] = @ + 1]
  /\ pc' = [pc EXCEPT ![d] = "streaming"]
  /\ UNCHANGED <<objects, free, entries, shared, counted>>

\* Slip: the slot is given back by the code after the loop only.
FailHoldingSlot(d) ==
  /\ \/ pc[d] = "reading"
     \/ pc[d] = "streaming" /\ written[d] < Len(entries[d]) /\ NextFile(d) \notin objects
  /\ Discard(d)
  /\ pc' = [pc EXCEPT ![d] = "cut"]
  /\ UNCHANGED <<objects, free, counted>>

\* Slip: a missing object is waited for.
FailReading(d) ==
  /\ pc[d] = "reading"
  /\ Release
  /\ Discard(d)
  /\ pc' = [pc EXCEPT ![d] = "cut"]
  /\ UNCHANGED <<objects, counted>>

\* The object has gone, or reading it fails.
Fail(d) ==
  /\ \/ pc[d] = "reading"
     \/ pc[d] = "streaming" /\ written[d] < Len(entries[d]) /\ NextFile(d) \notin objects
  /\ Release
  /\ Discard(d)
  /\ pc' = [pc EXCEPT ![d] = "cut"]
  /\ UNCHANGED <<objects, counted>>

\* Slip: the callback runs on every exit path.
DisconnectCounted(d) ==
  /\ pc[d] \in {"streaming", "reading"}
  /\ Release
  /\ pc' = [pc EXCEPT ![d] = "ended"]
  /\ UNCHANGED <<objects, entries, shared, written, counted>>

\* GeneratorExit at the yield the stream is paused at, which may be the last.
Disconnect(d) ==
  /\ pc[d] \in {"streaming", "reading"}
  /\ Release
  /\ Discard(d)
  /\ pc' = [pc EXCEPT ![d] = "cut"]
  /\ UNCHANGED <<objects, counted>>

\* The finally clause gives the slot back first, ...
Complete(d) ==
  /\ pc[d] = "streaming"
  /\ written[d] = Len(entries[d])
  /\ Release
  /\ pc' = [pc EXCEPT ![d] = "ended"]
  /\ UNCHANGED <<objects, entries, shared, written, counted>>

\* ... then calls on_complete, which a share's route gave it.
Count(d) ==
  /\ pc[d] = "ended"
  /\ counted' = [f \in Files |->
                   IF shared[d] /\ \E i \in DOMAIN entries[d] : entries[d][i] = f
                   THEN counted[f] + 1 ELSE counted[f]]
  /\ pc' = [pc EXCEPT ![d] = "done"]
  /\ UNCHANGED <<objects, free, entries, shared, written>>

-----------------------------------------------------------------------------
\* A file is deleted, its row before or after its object. That a request cannot
\* find a file whose row has gone is one of its choices in any case.
DeleteObject(f) ==
  /\ f \in objects
  /\ Cardinality(Files \ objects) < MaxDeletions
  /\ objects' = objects \ {f}
  /\ UNCHANGED <<free, pc, entries, shared, written, counted>>

-----------------------------------------------------------------------------

Init ==
  /\ objects = Files
  /\ free = Slots
  /\ pc = [d \in Downloads |-> "new"]
  /\ entries = [d \in Downloads |-> <<>>]
  /\ shared = [d \in Downloads |-> FALSE]
  /\ written = [d \in Downloads |-> 0]
  /\ counted = [f \in Files |-> 0]

\* What the generator does as long as the client takes what it yields.
Stream(d) ==
  \/ Start(d) \/ OpenMember(d) \/ CloseMember(d) \/ Fail(d) \/ Complete(d) \/ Count(d)

Next ==
  \/ \E d \in Downloads :
       Request(d) \/ Refuse(d) \/ NeverStarts(d) \/ Stream(d) \/ Disconnect(d)
  \/ \E f \in Files : DeleteObject(f)

Spec == Init /\ [][Next]_vars

\* The web server drives a stream it has started until it ends or its client
\* leaves; a client that neither reads nor leaves keeps its slot.
FairSpec == Spec /\ \A d \in Downloads : WF_vars(Stream(d))

-----------------------------------------------------------------------------
(* Properties *)

Steps == {"new", "refused", "built", "dropped", "streaming", "reading", "cut", "ended", "done"}

TypeOK ==
  /\ objects \subseteq Files
  /\ free \in 0 .. Slots
  /\ pc \in [Downloads -> Steps]
  /\ entries \in [Downloads -> Seq(Files)]
  /\ shared \in [Downloads -> BOOLEAN]
  /\ written \in [Downloads -> Nat]
  /\ counted \in [Files -> Nat]

Holding == {d \in Downloads : pc[d] \in {"built", "streaming", "reading", "dropped"}}
Dropped == {d \in Downloads : pc[d] = "dropped"}

\* Every slot is free or held by exactly one archive that has not ended, or by
\* one that was dropped before it began.
SlotsBalance == free + Cardinality(Holding) = Slots

Named(d) == \A i \in DOMAIN entries[d] : NameOf[entries[d][i]].numbers = <<>>

\* No two members of an archive have the same name ("a per-archive-unique name",
\* _unique_arcname), provided that no file was uploaded under a name that already
\* ends in "(n)".
MembersAreDistinct ==
  \A d \in Downloads : Named(d) =>
    \A i, j \in DOMAIN entries[d] : i # j => ArcName(entries[d], i) # ArcName(entries[d], j)

\* A file's count is the number of whole archives of shares that held it: nothing
\* cut short by an error, a deletion or a client that left is counted.
OnlyWholeArchivesCount ==
  \A f \in Files :
    counted[f] = Cardinality({d \in Downloads :
                                /\ pc[d] = "done" /\ shared[d]
                                /\ written[d] = Len(entries[d])
                                /\ \E i \in 1 .. written[d] : entries[d][i] = f})

\* Once requests cease, the slots come back, whatever was deleted under the
\* streams and whichever of them failed; but one that was dropped before it began
\* keeps its slot for ever.
OthersComeBack == []<>(free + Cardinality(Dropped) = Slots)

\* _stream_with_release: "The slot is acquired before this generator starts and
\* released here on every exit path".
EverySlotComesBack == []<>(free = Slots)
=============================================================================
