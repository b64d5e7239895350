--------------------------- MODULE UploadSessions ---------------------------
(***************************************************************************)
(* What the server keeps of its resumable-upload sessions, with nothing of *)
(* offsets, scratch files and threads.  A session is opened once; its      *)
(* bytes grow, never beyond the file's size, or are lost all together; a   *)
(* file is made only of a session that has all its bytes, and ends it.     *)
(* Nothing is promised of a session once it is void: its requests, or one  *)
(* of them and its prune, changed it at once.  ChunkedUpload implements    *)
(* this.                                                                   *)
(***************************************************************************)
EXTENDS Naturals

CONSTANTS
  Sessions,
  Size       \* the bytes of the file that a session is for

VARIABLES
  state,     \* state[s]: "none", "open", "gone" or "void"
  length,    \* length[s]: the bytes the server has of s
  made       \* made[s]: the package's files made of s

sessionVars == <<state, length, made>>

SessionsInit ==
  /\ state = [s \in Sessions |-> "none"]
  /\ length = [s \in Sessions |-> 0]
  /\ made = [s \in Sessions |-> 0]

Open(s) ==
  /\ state[s] = "none"
  /\ state' = [state EXCEPT ![s] = "open"]
  /\ UNCHANGED <<length, made>>

Grow(s) ==
  /\ state[s] = "open"
  /\ \E n \in length[s] + 1 .. Size : length' = [length EXCEPT ![s] = n]
  /\ UNCHANGED <<state, made>>

Empty(S) == length' = [s \in Sessions |-> IF s \in S THEN 0 ELSE length[s]]

Close(S) ==
  /\ state' = [s \in Sessions |-> IF s \in S THEN "gone" ELSE state[s]]
  /\ Empty(S)

\* A failure, or the first step of an end.
Lose(S) == Empty(S) /\ UNCHANGED <<state, made>>

Make(s) ==
  /\ state[s] = "open"
  /\ length[s] = Size
  /\ Close({s})
  /\ made' = [made EXCEPT ![s] = @ + 1]

\* Sessions become void.
Void(S) ==
  /\ state' = [s \in Sessions |-> IF s \in S THEN "void" ELSE state[s]]
  /\ made' = [s \in Sessions |-> IF s \in S THEN 0 ELSE made[s]]
  /\ Empty(S)

\* Sessions end without a file.
End(S) == Close(S) /\ UNCHANGED made

\* The package is deleted, and its files with it.
Drop(S) == Close(S) /\ made' = [s \in Sessions |-> 0]

SessionsNext ==
  \/ \E s \in Sessions : Open(s) \/ Grow(s) \/ Make(s)
  \/ \E S \in SUBSET Sessions : Lose(S) \/ Void(S) \/ End(S) \/ Drop(S)

SessionsSpec == SessionsInit /\ [][SessionsNext]_sessionVars
=============================================================================
