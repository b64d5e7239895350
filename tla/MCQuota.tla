------------------------------ MODULE MCQuota ------------------------------
(* Three uploads of ann's that do not fit together, and one of bob's. *)
EXTENDS Quota

CONSTANTS ann, bob, a1, a2, a3, b1

MCOwnerOf == [u \in Uploads |-> IF u = b1 THEN bob ELSE ann]
MCSize == [u \in Uploads |-> IF u = a1 THEN 1 ELSE 2]
=============================================================================
