--------------------------- MODULE MCTempPublish ---------------------------
(***************************************************************************)
(* A small instance of TempPublish.                                        *)
(***************************************************************************)
EXTENDS TempPublish

\* The last version is as large as files get.
Growing == [v \in Versions |-> MaxChunks - (MaxVersion - v)]
=============================================================================
