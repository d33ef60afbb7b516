--------------------------- MODULE MCItemPipeline ---------------------------
(***************************************************************************)
(* Instances of ItemPipeline for TLC.  The environments differ in when the *)
(* producer writes and in which row states a downtime damages objects.     *)
(***************************************************************************)
EXTENDS ItemPipeline

\* A producer that overwrites a file only once its row is finished with.
OrderlyRewrites == {"none"} \cup Terminal

\* A producer that creates the name anew as soon as it is free, except between
\* the source side effect and its record.
OrderlyCreates == RowStates \ {"cleanup_pending", "cleanup_failed"}
=============================================================================
