------------------------- MODULE MCArchiveDownloads -------------------------
(***************************************************************************)
(* ArchiveDownloads for TLC: files of one name, but the last was uploaded  *)
(* as "name (1)".                                                          *)
(***************************************************************************)
EXTENDS ArchiveDownloads, TLC

Names ==
  [f \in Files |-> [stem |-> CHOOSE s \in Stems : TRUE,
                    numbers |-> IF f = MaxFile THEN <<1>> ELSE <<>>]]
Sizes == [f \in Files |-> IF f = MaxFile THEN 2 ELSE 1]
=============================================================================
