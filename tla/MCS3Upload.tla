----------------------------- MODULE MCS3Upload -----------------------------
(***************************************************************************)
(* Instances of S3Upload for TLC.                                          *)
(***************************************************************************)
EXTENDS S3Upload

\* The third version is small enough for a single PutObject.
DistinctSizes == [v \in Versions |-> IF v = 3 THEN 1 ELSE v + 1]
EqualSizes == [v \in Versions |-> 2]
=============================================================================
