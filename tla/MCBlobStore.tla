--------------------------- MODULE MCBlobStore ---------------------------
(* BlobStore on a small instance: two packages, the first with every key *)
(* but the last.                                                        *)
EXTENDS BlobStore

CONSTANTS MaxKey, p1, p2

MCKeys == 1 .. MaxKey
MCPackages == {p1, p2}
MCPackageOf == [k \in MCKeys |-> IF k = MaxKey THEN p2 ELSE p1]
=============================================================================
