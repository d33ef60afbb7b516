---------------------------- MODULE AdmissionPool ----------------------------
(***************************************************************************)
(* What the global admission gate promises: at most Permits callers are    *)
(* inside, nobody queues while there is room, and whoever leaves makes     *)
(* room for the first of the queue -- lowest priority number first, oldest *)
(* arrival among equals.  There is no permit counter to get wrong.         *)
(***************************************************************************)
EXTENDS Naturals, Integers, FiniteSets

CONSTANTS Callers, Prio, Permits

VARIABLES inside,  \* callers that own a slot
          queue,   \* callers in line
          ahead    \* ahead[c]: who was in line when c joined it

vars == <<inside, queue, ahead>>

Init == inside = {} /\ queue = {} /\ ahead = [c \in Callers |-> {}]

Precedes(a, b) == Prio[a] < Prio[b] \/ (Prio[a] = Prio[b] /\ a \in ahead[b])

Enter(c) ==
    /\ c \notin inside \cup queue /\ Cardinality(inside) < Permits
    /\ inside' = inside \cup {c} /\ UNCHANGED <<queue, ahead>>

Join(c) ==
    /\ c \notin inside \cup queue /\ Cardinality(inside) >= Permits
    /\ queue' = queue \cup {c}
    /\ ahead' = [e \in Callers |-> IF e = c THEN queue ELSE ahead[e] \ {c}]
    /\ UNCHANGED inside

GiveUp(c) == c \in queue /\ queue' = queue \ {c} /\ UNCHANGED <<inside, ahead>>

\* The slot goes to the first of the queue in the same step.
Leave(c) ==
    /\ c \in inside /\ UNCHANGED ahead
    /\ IF queue = {}
       THEN inside' = inside \ {c} /\ UNCHANGED queue
       ELSE \E w \in queue :
              /\ \A e \in queue \ {w} : Precedes(w, e)
              /\ inside' = (inside \ {c}) \cup {w} /\ queue' = queue \ {w}

Next == \E c \in Callers : Enter(c) \/ Join(c) \/ GiveUp(c) \/ Leave(c)

Spec == Init /\ [][Next]_vars
=============================================================================
