---------------------------- MODULE UploadPromise ----------------------------
(***************************************************************************)
(* What a browser that uploads files promises its user, with nothing of    *)
(* how: attempts, the copies they leave in the package, and what the rows  *)
(* say.  An attempt stores at most one copy, at any time after it began -- *)
(* also after the browser has given it up -- and a row says "done" only of *)
(* an attempt that has stored its copy.  UploadClient implements it.       *)
(***************************************************************************)
EXTENDS Naturals

CONSTANT Files

VARIABLES
  tries,      \* tries[f]: attempts begun so far
  open,       \* open[f]: the last attempt is still under way for the user
  delivered,  \* delivered[f]: the attempts that stored a copy
  copies,     \* copies[f]: package files made of f
  told        \* told[f]: the attempts reported as done

promiseVars == <<tries, open, delivered, copies, told>>

PromiseInit ==
  /\ tries = [f \in Files |-> 0]
  /\ open = [f \in Files |-> FALSE]
  /\ delivered = [f \in Files |-> {}]
  /\ copies = [f \in Files |-> 0]
  /\ told = [f \in Files |-> {}]

Try(f) ==
  /\ ~open[f]
  /\ tries' = [tries EXCEPT ![f] = @ + 1]
  /\ open' = [open EXCEPT ![f] = TRUE]
  /\ UNCHANGED <<delivered, copies, told>>

Deliver(f, a) ==
  /\ a \in 1 .. tries[f] /\ a \notin delivered[f]
  /\ delivered' = [delivered EXCEPT ![f] = @ \union {a}]
  /\ copies' = [copies EXCEPT ![f] = @ + 1]
  /\ UNCHANGED <<tries, open, told>>

Tell(f) ==
  /\ open[f] /\ tries[f] \in delivered[f]
  /\ told' = [told EXCEPT ![f] = @ \union {tries[f]}]
  /\ open' = [open EXCEPT ![f] = FALSE]
  /\ UNCHANGED <<tries, delivered, copies>>

\* Any number of attempts at once: a page reload gives all of them up.
GiveUp(S) ==
  /\ S # {} /\ \A f \in S : open[f]
  /\ open' = [f \in Files |-> open[f] /\ f \notin S]
  /\ UNCHANGED <<tries, delivered, copies, told>>

PromiseNext ==
  \/ \E f \in Files : Try(f) \/ Tell(f) \/ \E a \in 1 .. tries[f] : Deliver(f, a)
  \/ \E S \in SUBSET Files : GiveUp(S)

PromiseSafety == PromiseInit /\ [][PromiseNext]_promiseVars

\* No attempt stays under way for ever.
PromiseSpec == PromiseSafety /\ \A f \in Files : open[f] ~> ~open[f]
=============================================================================
