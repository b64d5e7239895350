----------------------------- MODULE MCAccounts -----------------------------
(***************************************************************************)
(* Accounts for TLC.                                                       *)
(***************************************************************************)
EXTENDS Accounts, TLC

CONSTANTS ann, bob, eve, s1, s2

MCUpdates == {[on |-> {"admin", "active"}, off |-> {}],
              [on |-> {}, off |-> {"admin"}], [on |-> {}, off |-> {"active"}]}

MCSymmetry == Permutations(Slots) \union Permutations(Users)
=============================================================================
