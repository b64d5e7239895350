------------------------------ MODULE MCShares ------------------------------
(***************************************************************************)
(* Shares for TLC: threads of a kind are interchangeable.                  *)
(***************************************************************************)
EXTENDS Shares, TLC

Threads == Permutations(Tabs) \union Permutations(Guests)
=============================================================================
