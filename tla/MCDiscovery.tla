---------------------------- MODULE MCDiscovery ----------------------------
(***************************************************************************)
(* Instances of Discovery for TLC.                                         *)
(***************************************************************************)
EXTENDS Discovery, TLC

\* Files are interchangeable; no property of the run is a liveness property.
Symmetry == Permutations(Files)
=============================================================================
