--------------------------- MODULE MCInstanceTick ---------------------------
(***************************************************************************)
(* A small instance of InstanceTick: two windows and two fires within the  *)
(* horizon.  The instance starts inside the first window; the second one,  *)
(* [3, 4), is opened by an edge.                                           *)
(***************************************************************************)
EXTENDS InstanceTick

FiresAt == {2, 3}
OpensAt == {1, 3}
ClosesAt == {2, 4}

\* For a shorter horizon: the first window alone, and fires before the end.
EarlyFires == {1, 2}
FirstOpen == {1}
FirstClose == {2}
=============================================================================
