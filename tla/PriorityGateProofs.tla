------------------------- MODULE PriorityGateProofs -------------------------
(***************************************************************************)
(* What holds of PriorityGate for any finite set of callers, any           *)
(* priorities and any cap.                                                 *)
(***************************************************************************)
EXTENDS PriorityGate, FiniteSetTheorems, TLAPS

\* A permit is in the channel of a call that has left the queue and has not
\* taken it; only calls that wait, or whose drop has begun, are queued.
Channels ==
    \A c \in Callers :
        /\ c \in mail => at[c] \in {"waiting", "closing"} /\ c \notin waiters
        /\ c \in waiters => at[c] \in {"waiting", "closing"}
        /\ at[c] = "closing" => Parallel

GateControl == TypeOK /\ Channels /\ NoLostWakeup

\* Every step keeps types, channels and wake-ups.
LEMMA GateControlStep ==
    ASSUME GateControl, [Next]_vars PROVE GateControl'
<1> USE GateControl, GateAssumption
    DEF GateControl, TypeOK, Channels, NoLostWakeup, Move
<1>0. CASE UNCHANGED vars
  BY <1>0 DEF vars
<1>1. ASSUME NEW c \in Callers, AcquireFast(c) PROVE GateControl'
  BY <1>1 DEF AcquireFast, FastPath
<1>2. ASSUME NEW c \in Callers, AcquireQueue(c) PROVE GateControl'
  BY <1>2 DEF AcquireQueue, FastPath
<1>3. ASSUME NEW c \in Callers, Observe(c) PROVE GateControl'
  BY <1>3 DEF Observe
<1>4. ASSUME NEW c \in Callers, Release(c) PROVE GateControl'
  BY <1>4 DEF Release, ReleaseOne, Listening
<1>5. ASSUME NEW c \in Callers, Cancel(c) PROVE GateControl'
  BY <1>5 DEF Cancel, DropWaiter, ReleaseOne, Listening
<1>6. ASSUME NEW c \in Callers, DropReceiver(c) PROVE GateControl'
  BY <1>6 DEF DropReceiver
<1>7. ASSUME NEW c \in Callers, DropTicket(c) PROVE GateControl'
  BY <1>7 DEF DropTicket, DropWaiter, ReleaseOne, Listening
<1> QED
  BY [Next]_vars, <1>0, <1>1, <1>2, <1>3, <1>4, <1>5, <1>6, <1>7 DEF Next

\* The control invariant of the gate.
LEMMA GateControlInvariant == Spec => []GateControl
<1>1. Init => GateControl
  BY GateAssumption DEF Init, GateControl, TypeOK, Channels, NoLostWakeup
<1>2. GateControl /\ [Next]_vars => GateControl'
  BY GateControlStep
<1> QED
  BY <1>1, <1>2, PTL DEF Spec

\* The gate's state keeps its types (PriorityGate!TypeOK); in particular the
\* number of permits does not fall below zero.
THEOREM TypeCorrect == Spec => []TypeOK
<1>1. GateControl => TypeOK
  BY DEF GateControl
<1> QED
  BY GateControlInvariant, <1>1, PTL

\* No call waits in the queue beside a free permit, and none is out of the
\* queue without its permit, on one thread or on many (release_one_locked).
THEOREM WakeupNeverLost == Spec => []NoLostWakeup
<1>1. GateControl => NoLostWakeup
  BY DEF GateControl
<1> QED
  BY GateControlInvariant, <1>1, PTL
-----------------------------------------------------------------------------
\* The permits accounted for: free or owned.
Accounted == permits + Cardinality(Owners)

\* Owners are finitely many.
LEMMA OwnersFinite ==
    ASSUME TypeOK PROVE IsFiniteSet(Owners) /\ Cardinality(Owners) \in Nat
<1>1. Owners \in SUBSET Callers
  BY TypeOK DEF TypeOK, Owners, Holders
<1> QED
  BY <1>1, GateAssumption, FS_Subset, FS_CardinalityType

\* release_one_locked, called for a caller c that has given up whatever it
\* owned, puts exactly one permit back: to the pool or to a new owner.
LEMMA ReleaseAccounts ==
    ASSUME GateControl, NEW c \in Callers, c \notin waiters, Move(c, "out"),
           ReleaseOne(waiters, mail \ {c})
    PROVE  permits' + Cardinality(Owners')
              = permits + Cardinality(Owners \ {c}) + 1
<1> USE GateControl DEF GateControl, TypeOK, Channels, Move
<1>1. IsFiniteSet(Owners \ {c}) /\ Cardinality(Owners \ {c}) \in Nat
  BY OwnersFinite, FS_RemoveElement, FS_CardinalityType
<1>2. CASE Listening(waiters) = {}
  <2>1. Owners' = Owners \ {c} /\ permits' = permits + 1
    BY <1>2, ReleaseOne(waiters, mail \ {c}), Move(c, "out")
    DEF ReleaseOne, Owners, Holders
  <2> QED
    BY <1>1, <2>1
<1>3. CASE Listening(waiters) # {}
  <2>1. PICK w \in Listening(waiters) :
            mail' = (mail \ {c}) \cup {w} /\ permits' = permits
    BY <1>3, ReleaseOne(waiters, mail \ {c}) DEF ReleaseOne
  <2>2. w \in waiters /\ w # c /\ w \notin Owners \ {c}
    BY <2>1, c \notin waiters DEF Listening, Owners, Holders
  <2>3. Owners' = (Owners \ {c}) \cup {w}
    BY <2>1, <2>2, Move(c, "out") DEF Owners, Holders
  <2>4. Cardinality(Owners') = Cardinality(Owners \ {c}) + 1
    BY <1>1, <2>2, <2>3, FS_AddElement
  <2> QED
    BY <1>1, <2>1, <2>4
<1> QED
  BY <1>2, <1>3

\* What one step does to the permits accounted for: nothing, except that the
\* drop of a ticket whose receiver had gone before adds one.
LEMMA AccountsStep ==
    ASSUME GateControl, GateControl', [Next]_vars
    PROVE  \/ Accounted' = Accounted
           \/ Parallel /\ Accounted' = Accounted + 1
<1> DEFINE Kept == Accounted' = Accounted
<1> USE GateControl DEF GateControl
<1>a. /\ IsFiniteSet(Owners) /\ Cardinality(Owners) \in Nat /\ permits \in Nat
      /\ permits' \in Nat
  BY OwnersFinite, GateControl' DEF TypeOK
<1>0. CASE UNCHANGED vars
  <2>1. Owners' = Owners /\ permits' = permits
    BY <1>0 DEF vars, Owners, Holders
  <2> QED
    BY <2>1 DEF Accounted
<1>1. ASSUME NEW c \in Callers, AcquireFast(c) PROVE Kept
  <2>1. c \notin Owners /\ Owners' = Owners \cup {c}
    BY <1>1 DEF AcquireFast, Move, TypeOK, Channels, Owners, Holders
  <2>2. Cardinality(Owners') = Cardinality(Owners) + 1
    BY <1>a, <2>1, FS_AddElement
  <2> QED
    BY <1>1, <1>a, <2>2 DEF AcquireFast, FastPath, Accounted
<1>2. ASSUME NEW c \in Callers, AcquireQueue(c) PROVE Kept
  <2>1. Owners' = Owners /\ permits' = permits
    BY <1>2 DEF AcquireQueue, Move, TypeOK, Owners, Holders
  <2> QED
    BY <2>1 DEF Accounted
<1>3. ASSUME NEW c \in Callers, Observe(c) PROVE Kept
  <2>1. Owners' = Owners /\ permits' = permits
    BY <1>3 DEF Observe, Move, TypeOK, Owners, Holders
  <2> QED
    BY <2>1 DEF Accounted
<1>4. ASSUME NEW c \in Callers, Release(c) PROVE Kept
  <2>1. c \in Owners /\ c \notin waiters /\ mail \ {c} = mail
    BY <1>4 DEF Release, TypeOK, Channels, Owners, Holders
  <2>2. /\ permits' + Cardinality(Owners')
              = permits + Cardinality(Owners \ {c}) + 1
    BY <1>4, <2>1, ReleaseAccounts DEF Release
  <2>3. Cardinality(Owners \ {c}) = Cardinality(Owners) - 1
    BY <1>a, <2>1, FS_RemoveElement
  <2> QED
    BY <1>a, <2>2, <2>3 DEF Accounted
<1>5. ASSUME NEW c \in Callers, at[c] = "waiting" \/ at[c] = "closing",
             Move(c, "out"), DropWaiter(c), c \in waiters
      PROVE  Kept
  <2>1. Owners' = Owners /\ permits' = permits
    BY <1>5 DEF DropWaiter, Move, TypeOK, Owners, Holders
  <2> QED
    BY <2>1 DEF Accounted
<1>6. ASSUME NEW c \in Callers, Move(c, "out"), DropWaiter(c),
             c \notin waiters, c \in mail
      PROVE  Kept
  <2>1. permits' + Cardinality(Owners')
              = permits + Cardinality(Owners \ {c}) + 1
    BY <1>6, ReleaseAccounts DEF DropWaiter
  <2>2. Cardinality(Owners \ {c}) = Cardinality(Owners) - 1
    BY <1>6, <1>a, FS_RemoveElement DEF Owners
  <2> QED
    BY <1>a, <2>1, <2>2 DEF Accounted
<1>7. ASSUME NEW c \in Callers, at[c] = "closing", Move(c, "out"),
             DropWaiter(c), c \notin waiters, c \notin mail
      PROVE  Parallel /\ Accounted' = Accounted + 1
  <2>1. permits' + Cardinality(Owners')
              = permits + Cardinality(Owners \ {c}) + 1
    BY <1>7, ReleaseAccounts DEF DropWaiter
  <2>2. Owners \ {c} = Owners
    BY <1>7 DEF Owners, Holders
  <2> QED
    BY <1>a, <1>7, <2>1, <2>2 DEF Accounted, Channels
<1>8. ASSUME NEW c \in Callers, Cancel(c) PROVE Kept
  <2>1. c \in waiters \/ c \in mail
    BY <1>8 DEF Cancel, NoLostWakeup
  <2> QED
    BY <1>5, <1>6, <1>8, <2>1 DEF Cancel
<1>9. ASSUME NEW c \in Callers, DropReceiver(c) PROVE Kept
  <2>1. Owners' = Owners /\ permits' = permits
    BY <1>9 DEF DropReceiver, Move, TypeOK, Owners, Holders
  <2> QED
    BY <2>1 DEF Accounted
<1>10. ASSUME NEW c \in Callers, DropTicket(c)
       PROVE  Kept \/ (Parallel /\ Accounted' = Accounted + 1)
  BY <1>5, <1>6, <1>7, <1>10 DEF DropTicket
<1> QED
  BY [Next]_vars, <1>0, <1>1, <1>2, <1>3, <1>4, <1>8, <1>9, <1>10 DEF Next

\* At the start every permit is free.
LEMMA InitAccounts == Init => Accounted = Permits
<1> SUFFICES ASSUME Init PROVE Accounted = Permits
  OBVIOUS
<1>1. Owners = {}
  BY DEF Init, Owners, Holders
<1> QED
  BY <1>1, FS_EmptySet, GateAssumption DEF Init, Accounted

\* No permit is ever lost, however grants, releases and parallel cancellations
\* interleave (WaiterTicket::drop, release_one_locked).
THEOREM PermitNeverLost == Spec => []NoPermitLost
<1>1. Init => NoPermitLost
  BY InitAccounts, GateAssumption DEF Accounted, NoPermitLost
<1>2. GateControl /\ GateControl' /\ NoPermitLost /\ [Next]_vars
      => NoPermitLost'
  <2> SUFFICES ASSUME GateControl, GateControl', NoPermitLost, [Next]_vars
               PROVE  NoPermitLost'
    OBVIOUS
  <2>1. permits \in Nat /\ Cardinality(Owners) \in Nat
    BY OwnersFinite DEF GateControl, TypeOK
  <2> QED
    BY <2>1, AccountsStep, GateAssumption DEF Accounted, NoPermitLost
<1> QED
  BY GateControlInvariant, <1>1, <1>2, PTL DEF Spec

\* Without parallel drops permits are conserved exactly.
THEOREM PermitConservation ==
    ASSUME ~Parallel PROVE Spec => []PermitsConserved
<1>1. Init => PermitsConserved
  BY InitAccounts DEF Accounted, PermitsConserved
<1>2. GateControl /\ GateControl' /\ PermitsConserved /\ [Next]_vars
      => PermitsConserved'
  BY AccountsStep, ~Parallel DEF Accounted, PermitsConserved
<1> QED
  BY GateControlInvariant, <1>1, <1>2, PTL DEF Spec

\* Without parallel drops the cross-instance cap on files in flight holds.
THEOREM CapHolds ==
    ASSUME ~Parallel PROVE Spec => []CapRespected
<1>1. GateControl /\ PermitsConserved => CapRespected
  <2> SUFFICES ASSUME GateControl, PermitsConserved PROVE CapRespected
    OBVIOUS
  <2>1. /\ permits \in Nat /\ IsFiniteSet(Owners)
        /\ Cardinality(Owners) \in Nat
    BY OwnersFinite DEF GateControl, TypeOK
  <2>2. Cardinality(Holders) <= Cardinality(Owners)
    <3>1. Holders \in SUBSET Owners
      BY DEF Owners
    <3> QED
      BY <2>1, <3>1, FS_Subset
  <2>3. Cardinality(Holders) \in Nat
    BY <2>1, FS_Subset, FS_CardinalityType DEF Owners
  <2> QED
    BY <2>1, <2>2, <2>3, GateAssumption DEF PermitsConserved, CapRespected
<1> QED
  BY ~Parallel, GateControlInvariant, PermitConservation, <1>1, PTL
-----------------------------------------------------------------------------
\* The instance's cardinality is the cardinality.
LEMMA SameCardinality ==
    ASSUME NEW S PROVE Pool!Cardinality(S) = Cardinality(S)
  BY DEF Pool!Cardinality, Cardinality

\* A step of the gate is a step of the admission pool, or leaves it alone.
LEMMA PoolStep ==
    ASSUME ~Parallel, GateControl, GateControl', PermitsConserved, [Next]_vars
    PROVE  [Pool!Next]_(Pool!vars)
<1> USE ~Parallel, GateControl DEF GateControl, TypeOK, Channels, Move
<1>a. /\ permits \in Nat /\ Cardinality(Owners) \in Nat
      /\ permits > 0 <=> Cardinality(Owners) < Permits
      /\ permits = 0 <=> Cardinality(Owners) >= Permits
  BY OwnersFinite, PermitsConserved, GateAssumption DEF PermitsConserved
<1>b. Listening(waiters) = waiters
  BY DEF Listening
<1>c. ASSUME NEW c \in Callers, c \in Owners, c \notin waiters, Move(c, "out"),
             ReleaseOne(waiters, mail \ {c}), UNCHANGED ahead
      PROVE  Pool!Leave(c)
  <2>1. CASE waiters = {}
    <3>1. Owners' = Owners \ {c} /\ waiters' = waiters
      BY <1>b, <1>c, <2>1 DEF ReleaseOne, Owners, Holders
    <3> QED
      BY <1>c, <2>1, <3>1 DEF Pool!Leave
  <2>2. CASE waiters # {}
    <3>1. PICK w \in waiters :
            /\ \A e \in waiters \ {w} : Before(w, e)
            /\ waiters' = {e \in waiters \ {w} : Before(w, e)}
            /\ mail' = (mail \ {c}) \cup {w}
      BY <1>b, <1>c, <2>2 DEF ReleaseOne
    <3>2. waiters' = waiters \ {w}
      BY <3>1
    <3>3. Owners' = (Owners \ {c}) \cup {w}
      BY <1>c, <3>1 DEF Owners, Holders
    <3> QED
      BY <1>c, <2>2, <3>1, <3>2, <3>3 DEF Pool!Leave, Pool!Precedes, Before
  <2> QED
    BY <2>1, <2>2
<1>0. CASE UNCHANGED vars
  BY <1>0 DEF vars, Pool!vars, Owners, Holders
<1>1. ASSUME NEW c \in Callers, AcquireFast(c) PROVE Pool!Enter(c)
  <2>1. Owners' = Owners \cup {c} /\ c \notin Owners \cup waiters
    BY <1>1 DEF AcquireFast, Owners, Holders
  <2> QED
    BY <1>1, <1>a, <2>1, SameCardinality DEF AcquireFast, FastPath, Pool!Enter
<1>2. ASSUME NEW c \in Callers, AcquireQueue(c) PROVE Pool!Join(c)
  <2>1. Owners' = Owners /\ c \notin Owners \cup waiters
    BY <1>2 DEF AcquireQueue, Owners, Holders
  <2>2. Cardinality(Owners) >= Permits
    BY <1>2, <1>a DEF AcquireQueue, FastPath, NoLostWakeup
  <2> QED
    BY <1>2, <2>1, <2>2, SameCardinality DEF AcquireQueue, Pool!Join
<1>3. ASSUME NEW c \in Callers, Observe(c) PROVE UNCHANGED Pool!vars
  BY <1>3 DEF Observe, Pool!vars, Owners, Holders
<1>4. ASSUME NEW c \in Callers, Release(c) PROVE Pool!Leave(c)
  <2>1. c \in Owners /\ c \notin waiters /\ mail \ {c} = mail
    BY <1>4 DEF Release, Owners, Holders
  <2> QED
    BY <1>4, <1>c, <2>1 DEF Release
<1>5. ASSUME NEW c \in Callers, Cancel(c)
      PROVE  Pool!GiveUp(c) \/ Pool!Leave(c)
  <2>1. CASE c \in waiters
    <3>1. Owners' = Owners
      BY <1>5, <2>1 DEF Cancel, DropWaiter, Owners, Holders
    <3> QED
      BY <1>5, <2>1, <3>1 DEF Cancel, DropWaiter, Pool!GiveUp
  <2>2. CASE c \notin waiters
    <3>1. c \in Owners
      BY <1>5, <2>2 DEF Cancel, NoLostWakeup, Owners
    <3> QED
      BY <1>5, <1>c, <2>2, <3>1 DEF Cancel, DropWaiter
  <2> QED
    BY <2>1, <2>2
<1>6. ASSUME NEW c \in Callers PROVE ~DropReceiver(c) /\ ~DropTicket(c)
  BY DEF DropReceiver, DropTicket
<1> QED
  BY [Next]_vars, <1>0, <1>1, <1>2, <1>3, <1>4, <1>5, <1>6
  DEF Next, Pool!Next

\* The gate implements the admission pool when futures are not dropped in
\* parallel: strict priority, first come first served among equals, no barging,
\* and never more owners than permits (acquire, release_one_locked, drops).
THEOREM GateImplementsPool ==
    ASSUME ~Parallel PROVE Spec => ImplementsPool
<1>1. Init => Pool!Init
  BY DEF Init, Pool!Init, Owners, Holders
<1>2. GateControl /\ GateControl' /\ PermitsConserved /\ [Next]_vars
      => [Pool!Next]_(Pool!vars)
  BY PoolStep, ~Parallel
<1> QED
  BY ~Parallel, GateControlInvariant, PermitConservation, <1>1, <1>2, PTL
  DEF Spec, ImplementsPool, Pool!Spec
=============================================================================
