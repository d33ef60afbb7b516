--------------------------- MODULE MCCloudUpload ---------------------------
(***************************************************************************)
(* A small instance of CloudUpload.                                        *)
(***************************************************************************)
EXTENDS CloudUpload

\* An empty version, then two of the same size.
EmptyThenFull == [v \in Versions |-> IF v = 1 /\ MaxVersion > 2 THEN 0 ELSE MaxUnits]
=============================================================================
