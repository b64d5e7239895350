---------------------------- MODULE MCUploadBatch ----------------------------
(***************************************************************************)
(* UploadBatch for TLC: one file of two chunks, two sent in one request,   *)
(* and one beyond the maximal size.                                        *)
(***************************************************************************)
EXTENDS UploadBatch

CONSTANTS big, small, tiny, huge

MCChunks == [f \in Files |-> CASE f = big -> 2 [] f = huge -> 3 [] OTHER -> 1]
MCPicks == {<<small, big>>, <<small, huge, big, tiny>>}
=============================================================================
