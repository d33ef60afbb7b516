---------------------------- MODULE MCComponent ----------------------------
(***************************************************************************)
(* Instances of Component for TLC: two instances with a transfer each, of  *)
(* which one is limited by its own bucket too; every policy, and an id that *)
(* is configured twice.                                                    *)
(***************************************************************************)
EXTENDS Component

Configured(i, p) == [id |-> i, policy |-> p]
Lists ==
    {<<>>, <<Configured("a", "none"), Configured("b", "fatal")>>,
     <<Configured("a", "retain"), Configured("b", "disableInstance"), Configured("a", "none")>>}
OwnerOf == [x \in {"x1", "x2"} |-> IF x = "x1" THEN "a" ELSE "b"]
RateOf == [b \in {"global", "a", "b"} |->
              CASE b = "global" -> 3 [] b = "a" -> 1 [] b = "b" -> 0]
Unset == [base |-> None, max |-> None, giveUp |-> None, attempts |-> None]
InstanceOptions == [Unset EXCEPT !.base = 1, !.attempts = 2]
GlobalOptions == [Unset EXCEPT !.giveUp = 2]
Defaults == [Unset EXCEPT !.base = 2, !.max = 2, !.giveUp = 4]
=============================================================================
