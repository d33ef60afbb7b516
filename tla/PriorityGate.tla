---------------------------- MODULE PriorityGate ----------------------------
(***************************************************************************)
(* The process-wide admission gate (admission.rs): a permit counter and a  *)
(* queue of waiters under one mutex, a one-shot channel per waiter that    *)
(* carries a permit straight to it, and the guards whose destructors give  *)
(* permits back.  A caller is one call of acquire, reused after it ends.   *)
(*                                                                         *)
(* Queue keys are (priority, seq) with seq an ever-growing counter.  Only  *)
(* the order of seq matters, so it is kept as ahead[c]: who was in the     *)
(* queue when c joined it.                                                 *)
(*                                                                         *)
(* Cancelling a waiting call drops its future: first the receiver of its   *)
(* channel, without the mutex, then its ticket, which takes the mutex.  On *)
(* a multi-threaded runtime (Parallel) other calls run in between.         *)
(***************************************************************************)
EXTENDS Naturals, Integers, FiniteSets

CONSTANTS Callers,   \* concurrent callers of acquire
          Prio,      \* the priority of each caller's instance, lower first
          Permits,   \* maxConcurrentFiles
          Parallel   \* the runtime drops futures on several threads

ASSUME GateAssumption ==
    /\ IsFiniteSet(Callers) /\ Prio \in [Callers -> Int]
    /\ Permits \in Nat /\ Parallel \in BOOLEAN

VARIABLES permits,  \* free permits
          waiters,  \* callers with an entry in the queue
          ahead,    \* the order of their sequence numbers
          mail,     \* callers whose channel holds a permit
          at        \* where each call stands

vars == <<permits, waiters, ahead, mail, at>>

\* The counter, the queue and the calls keep their types.
TypeOK ==
    /\ permits \in Nat
    /\ waiters \in SUBSET Callers /\ mail \in SUBSET Callers
    /\ ahead \in [Callers -> SUBSET Callers]
    /\ at \in [Callers -> {"out", "waiting", "closing", "held"}]

Init == /\ permits = Permits /\ waiters = {} /\ mail = {}
        /\ ahead = [c \in Callers |-> {}] /\ at = [c \in Callers |-> "out"]

Move(c, p) == at' = [at EXCEPT ![c] = p]

\* The order of the queue's keys.
Before_Lifo(a, b) == Prio[a] < Prio[b] \/ (Prio[a] = Prio[b] /\ b \in ahead[a])
Before(a, b) == Prio[a] < Prio[b] \/ (Prio[a] = Prio[b] /\ a \in ahead[b])

\* acquire: a free permit is taken at once only when nobody is queued ...
FastPath == permits > 0 /\ waiters = {}

AcquireFast(c) ==
    /\ at[c] = "out" /\ FastPath
    /\ permits' = permits - 1 /\ Move(c, "held")
    /\ UNCHANGED <<waiters, ahead, mail>>

\* ... otherwise the call joins the queue and waits for its channel.
AcquireQueue(c) ==
    /\ at[c] = "out" /\ ~FastPath
    /\ waiters' = waiters \cup {c}
    /\ ahead' = [e \in Callers |-> IF e = c THEN waiters ELSE ahead[e] \ {c}]
    /\ Move(c, "waiting")
    /\ UNCHANGED <<permits, mail>>

\* release_one_locked on a queue q: the permit goes to the first waiter whose
\* receiver still exists, and the entries before it are gone; with no such
\* waiter it returns to the pool.  kept is what the channels hold otherwise.
Listening(q) == {c \in q : at[c] = "waiting"}

ReleaseOne_ToPool(q, kept) ==
    permits' = permits + 1 /\ waiters' = q /\ mail' = kept
ReleaseOne(q, kept) ==
    IF Listening(q) = {}
    THEN permits' = permits + 1 /\ waiters' = {} /\ mail' = kept
    ELSE \E w \in Listening(q) :
           /\ \A e \in Listening(q) \ {w} : Before(w, e)
           /\ waiters' = {e \in q \ {w} : Before(w, e)}
           /\ mail' = kept \cup {w} /\ UNCHANGED permits

\* The waiting call is polled with its permit in the channel.
Observe(c) ==
    /\ at[c] = "waiting" /\ c \in mail
    /\ mail' = mail \ {c} /\ Move(c, "held")
    /\ UNCHANGED <<permits, waiters, ahead>>

\* GateGuard::drop.
Release(c) ==
    /\ at[c] = "held" /\ Move(c, "out")
    /\ ReleaseOne(waiters, mail)
    /\ UNCHANGED ahead

\* WaiterTicket::drop: a queued entry is removed; a call that is no longer in
\* the queue was sent a permit, which is passed on.
DropWaiter_KeepsPermit(c) ==
    waiters' = waiters \ {c} /\ mail' = mail \ {c} /\ UNCHANGED permits
DropWaiter(c) ==
    IF c \in waiters
    THEN waiters' = waiters \ {c} /\ UNCHANGED <<mail, permits>>
    ELSE ReleaseOne(waiters, mail \ {c})

\* The future is dropped with nothing in between ...
Cancel(c) ==
    /\ at[c] = "waiting" /\ Move(c, "out") /\ DropWaiter(c)
    /\ UNCHANGED ahead

\* ... or on another thread than the ones that use the gate meanwhile.
DropReceiver(c) ==
    /\ Parallel /\ at[c] = "waiting" /\ Move(c, "closing")
    /\ UNCHANGED <<permits, waiters, ahead, mail>>

DropTicket(c) ==
    /\ at[c] = "closing" /\ Move(c, "out") /\ DropWaiter(c)
    /\ UNCHANGED ahead

Next == \E c \in Callers :
            \/ AcquireFast(c) \/ AcquireQueue(c) \/ Observe(c) \/ Release(c)
            \/ Cancel(c) \/ DropReceiver(c) \/ DropTicket(c)

Spec == Init /\ [][Next]_vars

(***************************************************************************)
(* Fairness: a file in process finishes and drops its guard, the runtime   *)
(* polls a woken call and finishes a drop it began.  Callers may never     *)
(* come back and are never obliged to cancel.                              *)
(***************************************************************************)
FairSpec == Spec /\ \A c \in Callers : /\ WF_vars(Observe(c))
                                       /\ WF_vars(Release(c))
                                       /\ WF_vars(DropTicket(c))
-----------------------------------------------------------------------------
Holders == {c \in Callers : at[c] = "held"}

\* Callers that own a permit, whether they know it yet or not.
Owners == Holders \cup mail

\* Permits are conserved: the free ones and the owned ones add up to the
\* configured cap after any sequence of grants, hand-offs and cancellations
\* (the grant-then-cancel window of WaiterTicket::drop included).
PermitsConserved == permits + Cardinality(Owners) = Permits

\* No permit is ever lost, even when futures are dropped in parallel with
\* releases: a leak would shrink the cap until every instance stops.
NoPermitLost == permits + Cardinality(Owners) >= Permits

\* The cap on files in flight across all instances.
CapRespected == Cardinality(Holders) <= Permits

\* A call never waits in the queue while a permit is free (release_one hands
\* over before it returns to the pool, and acquire never barges past the
\* queue), and a waiting call that has left the queue has its permit.
NoLostWakeup ==
    /\ waiters # {} => permits = 0
    /\ \A c \in Callers :
          at[c] = "waiting" => (c \in waiters <=> c \notin mail)

\* A caller of the most urgent priority is never starved: it stops waiting,
\* because it was admitted or gave up, whatever the others do.
UrgentIsServed ==
    \A c \in Callers :
        (\A e \in Callers : Prio[c] <= Prio[e])
            => (at[c] = "waiting" ~> at[c] # "waiting")

\* The gate implements the admission pool: a slot belongs to a caller from the
\* moment its permit is sent.
Pool == INSTANCE AdmissionPool WITH inside <- Owners, queue <- waiters

ImplementsPool == Pool!Spec
=============================================================================
