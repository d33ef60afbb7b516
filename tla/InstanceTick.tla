---------------------------- MODULE InstanceTick ----------------------------
(***************************************************************************)
(* One instance as its run loop, the control plane and the clock see it:   *)
(* ticks of the loop and of a trigger, serialised by tick_lock; the        *)
(* schedule gate; batches that are claimed, given slots, joined or cut off *)
(* by the window's close; set-activation and get-status; crash and         *)
(* restart.  What happens to an item inside process_item, cleanup and      *)
(* recovery is ItemPipeline's: here an item is finished, or failed and     *)
(* promoted by a later tick.  The other instances of the process are known *)
(* by the global permits they hold; the gate's order is PriorityGate's.    *)
(***************************************************************************)
EXTENDS Schedule, Integers, FiniteSets

CONSTANTS Files,        \* names in the watched directory
          PerLimit,     \* limits.maxConcurrentFiles of the instance
          GlobalLimit,  \* that of the component
          Rescan,       \* ingress.rescanSecs
          Modes,        \* subset of {"immediate", "cron", "window"}
          Enabled,      \* config `enabled`
          MaxTaken,     \* bound: permits the other instances hold at a time
          MaxOrders,    \* bound: commands
          MaxMishaps    \* bound: failing items, store faults and crashes

ASSUME InstanceAssumption ==
    /\ IsFiniteSet(Files) /\ Files # {}
    /\ PerLimit \in Nat \ {0} /\ GlobalLimit \in Nat \ {0}
    /\ Rescan \in Nat \ {0}
    /\ Modes \subseteq {"immediate", "cron", "window"} /\ Modes # {}
    /\ Enabled \in BOOLEAN
    /\ MaxTaken \in Nat /\ MaxOrders \in Nat /\ MaxMishaps \in Nat

VARIABLES
    clock,       \* wall and monotonic clock, which run alike
    setting,     \* the instance's configuration
    up, active,  \* the process runs; the activation flag
    stored,      \* the activation row: "none", "on" or "off"
    track,       \* ScheduleTrack
    task,        \* the run loop's tick and a trigger's
    running,     \* items whose transfer holds a slot
    free, taken, \* global permits: free, and held by other instances
    state,       \* each item's row
    cmd,         \* a set-activation command between its two writes
    report,      \* a get-status command between its reads
    alarm,       \* when the run loop's earliest timer is due
    ghost,       \* what the properties compare with
    orders, mishaps

Tasks == {"loop", "trigger"}
Kinds == {"none", "batch", "all", "window"}
Inside == {"gate", "claim", "slot", "permit", "join", "closing"}
States == {"absent", "spooled", "ready", "inprogress", "failed", "done"}
Overrides == {"none", "on", "off"}

NoTick == [pc |-> "idle", now |-> None, forced |-> FALSE, kind |-> "none",
           deadline |-> None, batch |-> {}]
NoTrack == [fire |-> None, open |-> FALSE]
NoReport == [pc |-> "none", asked |-> {}, seen |-> {}, moved |-> {}]

vars == <<clock, setting, up, active, stored, track, task, running, free,
          taken, state, cmd, report, alarm, ghost, orders, mishaps>>
places == <<running, free, taken>>
control == <<active, stored, cmd>>
bounds == <<orders, mishaps>>

\* Every variable keeps its type and every bound is kept.
TypeOK ==
    /\ clock \in Instants /\ up \in BOOLEAN /\ active \in BOOLEAN
    /\ setting \in [mode : Modes, cancel : BOOLEAN]
    /\ stored \in Overrides
    /\ track \in [fire : Nat, open : BOOLEAN]
    /\ task \in [Tasks -> [pc : {"idle", "check", "lock"} \cup Inside,
                           now : Nat, forced : BOOLEAN, kind : Kinds,
                           deadline : Int, batch : SUBSET Files]]
    /\ running \in SUBSET Files /\ free \in Nat /\ taken \in Nat
    /\ state \in [Files -> States]
    /\ cmd \in Overrides \cup {"idle"}
    /\ report \in [pc : {"none", "ready", "inprogress", "failed"},
                   asked : SUBSET Files, seen : SUBSET Files,
                   moved : SUBSET Files]
    /\ alarm \in Nat
    /\ ghost \in [balance : Int, flipped : BOOLEAN, owed : BOOLEAN,
                  stranded : SUBSET Files]
    /\ orders \in Nat /\ mishaps \in Nat
-----------------------------------------------------------------------------
In(s) == {f \in Files : state[f] = s}
To(F, s) == [f \in Files |-> IF f \in F THEN s ELSE state[f]]

\* Items that go back, or are through, while a status is read.
Moved(F) == report' = IF report.pc = "none" THEN report
                      ELSE [report EXCEPT !.moved = @ \cup F]

Order == orders < MaxOrders /\ orders' = orders + 1
Mishap == mishaps < MaxMishaps /\ mishaps' = mishaps + 1

Effective == IF stored = "none" THEN Enabled ELSE stored = "on"

\* When the loop goes back to its select: the ticker, or the schedule's edge.
Sleep(t) == LET edge == next_wake(setting.mode, t)
            IN  IF edge # None /\ edge < t + Rescan THEN edge ELSE t + Rescan

\* The tick ends and releases tick_lock; the loop selects anew.
EndTick(k) ==
    /\ task' = [task EXCEPT ![k] = NoTick]
    /\ alarm' = IF k = "loop" THEN Sleep(clock) ELSE alarm

Goto(k, point) == task' = [task EXCEPT ![k].pc = point] /\ UNCHANGED alarm

Init ==
    /\ clock = 1 /\ up = TRUE
    /\ setting \in [mode : Modes, cancel : BOOLEAN]
    /\ setting.cancel => setting.mode = "window"
    /\ stored = "none" /\ active = Enabled
    /\ track = NoTrack /\ task = [k \in Tasks |-> NoTick]
    /\ running = {} /\ free = GlobalLimit /\ taken = 0
    /\ state = [f \in Files |-> "absent"]
    /\ cmd = "idle" /\ report = NoReport /\ alarm = 1
    /\ ghost = [balance |-> 0, flipped |-> FALSE, owed |-> FALSE,
                stranded |-> {}]
    /\ orders = 0 /\ mishaps = 0
-----------------------------------------------------------------------------
(***************************************************************************)
(* The surroundings.                                                       *)
(***************************************************************************)
\* Time does not pass a due timer of the sleeping loop.  A fire of a cron
\* instance that has a baseline is owed from then on.
Elapse ==
    /\ clock < Horizon
    /\ up /\ task["loop"].pc = "idle" => clock < alarm
    /\ clock' = clock + 1
    /\ ghost' = [ghost EXCEPT !.owed = @ \/ (up /\ setting.mode = "cron"
                                            /\ track.fire # None
                                            /\ clock' \in Fires)]
    /\ UNCHANGED <<setting, up, control, track, task, places, state, report,
                   alarm, bounds>>

Arrive(f) ==
    /\ state[f] = "absent" /\ state' = [state EXCEPT ![f] = "spooled"]
    /\ UNCHANGED <<clock, setting, up, control, track, task, places, report,
                   alarm, ghost, bounds>>

OtherTakes ==
    /\ up /\ free > 0 /\ taken < MaxTaken
    /\ free' = free - 1 /\ taken' = taken + 1
    /\ UNCHANGED <<clock, setting, up, control, track, task, running, state,
                   report, alarm, ghost, bounds>>

OtherReturns ==
    /\ taken > 0 /\ free' = free + 1 /\ taken' = taken - 1
    /\ UNCHANGED <<clock, setting, up, control, track, task, running, state,
                   report, alarm, ghost, bounds>>

Crash ==
    /\ up /\ Mishap
    /\ up' = FALSE /\ active' = FALSE /\ track' = NoTrack
    /\ task' = [k \in Tasks |-> NoTick]
    /\ running' = {} /\ free' = GlobalLimit /\ taken' = 0
    /\ cmd' = "idle" /\ report' = NoReport
    /\ ghost' = [ghost EXCEPT !.balance = 0, !.owed = FALSE,
                              !.flipped = FALSE, !.stranded = {}]
    /\ UNCHANGED <<clock, setting, stored, state, alarm, orders>>

\* build and run: load_activation, recover, then the initial sweep is due.
Boot ==
    /\ ~up /\ up' = TRUE /\ active' = Effective
    /\ state' = To(In("inprogress"), "ready") /\ alarm' = clock
    /\ UNCHANGED <<clock, setting, stored, track, task, places, cmd, report,
                   ghost, bounds>>
-----------------------------------------------------------------------------
(***************************************************************************)
(* A tick up to its gate.                                                  *)
(***************************************************************************)
Call(k, forced) ==
    task' = [task EXCEPT ![k] = [NoTick EXCEPT !.pc = "check", !.now = clock,
                                               !.forced = forced]]

\* A timer is due, or the OS watch or a recheck nudges; past the horizon
\* there are no more edges and the ticker goes on.
LoopCall ==
    /\ up /\ task["loop"].pc = "idle"
    /\ clock >= alarm \/ In("spooled") # {} \/ clock = Horizon
    /\ Call("loop", FALSE)
    /\ UNCHANGED <<clock, setting, up, control, track, places, state, report,
                   alarm, ghost, bounds>>

\* on_trigger: an inactive instance is skipped, else a task is spawned.
OnTrigger ==
    /\ up /\ active /\ task["trigger"].pc = "idle"
    /\ Order
    /\ \E ignoreWindow \in BOOLEAN : Call("trigger", ignoreWindow)
    /\ UNCHANGED <<clock, setting, up, control, track, places, state, report,
                   alarm, ghost, mishaps>>

Check(k) ==
    /\ task[k].pc = "check"
    /\ IF active THEN Goto(k, "lock") ELSE EndTick(k)
    /\ UNCHANGED <<clock, setting, up, control, track, places, state, report,
                   ghost, bounds>>

\* Mutant: ticks are not serialised.
Unlocked_Always == TRUE

\* tick_lock.
Unlocked == \A k \in Tasks : task[k].pc \notin Inside

\* Under the lock: discovery, enqueue, and promote_due of the items whose
\* backoff elapsed.
Discover(k) ==
    /\ task[k].pc = "lock" /\ Unlocked /\ Goto(k, "gate")
    /\ \E due \in SUBSET In("failed") :
         state' = To(In("spooled") \cup due, "ready") /\ Moved(due)
    /\ UNCHANGED <<clock, setting, up, control, track, places, ghost, bounds>>
-----------------------------------------------------------------------------
(***************************************************************************)
(* The gate.  The tick's own reading of the clock decides, however long it *)
(* waited for the lock since; the deadline counts from the real clock.     *)
(***************************************************************************)
Deadline(now) == clock + (window_until(now) - now)

Admit(k, kind) ==
    /\ task' = [task EXCEPT ![k].pc = "claim", ![k].kind = kind,
         ![k].deadline = IF kind = "window" THEN Deadline(task[k].now) ELSE None]
    /\ UNCHANGED alarm

\* ignoreWindow: everything ready is drained, the track is left alone.
GateForced(k) ==
    /\ task[k].pc = "gate" /\ task[k].forced /\ Admit(k, "all")
    /\ UNCHANGED <<clock, setting, up, control, track, places, state, report,
                   ghost, bounds>>

\* Mutant: the watermark is the instant of the evaluation.
Evaluated_Clock(now, kind) ==
    [fire |-> IF setting.mode = "cron" THEN clock ELSE track.fire,
     open |-> IF kind = "all" THEN track.open ELSE kind = "window"]

\* What evaluate_schedule leaves in the track.
Evaluated(now, kind) ==
    [fire |-> IF setting.mode = "cron" THEN now ELSE track.fire,
     open |-> IF kind = "all" THEN track.open ELSE kind = "window"]

\* Announced: WindowOpened and WindowClosed, and the cron fire's release.
Announce(now, kind) ==
    ghost' = [ghost EXCEPT
      !.balance = IF kind = "window" /\ ~track.open THEN @ + 1
                  ELSE IF kind \in {"batch", "none"} /\ track.open THEN @ - 1
                  ELSE @,
      !.owed = @ /\ kind # "all"]

Gate(k) ==
    LET now == task[k].now
        kind == admission(setting.mode, now, track.fire)
    IN  /\ task[k].pc = "gate" /\ ~task[k].forced
        /\ IF kind = "none" THEN EndTick(k) ELSE Admit(k, kind)
        /\ track' = Evaluated(now, kind) /\ Announce(now, kind)
        /\ UNCHANGED <<clock, setting, up, control, places, state, report,
                       bounds>>
-----------------------------------------------------------------------------
(***************************************************************************)
(* Batches: run_admitted and run_windowed.                                 *)
(***************************************************************************)
\* Mutant: the deadline is not looked at between batches.
Over_Never(k) == FALSE

\* Between batches of a window the deadline ends the drain.
Over(k) == task[k].kind = "window" /\ clock >= task[k].deadline

BatchSize == IF Cardinality(In("ready")) < PerLimit
             THEN Cardinality(In("ready")) ELSE PerLimit

\* claim_ready; which items are the oldest is not modelled here.
Claim(k) ==
    /\ task[k].pc = "claim" /\ ~Over(k) /\ In("ready") # {}
    /\ \E b \in SUBSET In("ready") :
         /\ Cardinality(b) = BatchSize /\ state' = To(b, "inprogress")
         /\ task' = [task EXCEPT ![k].pc = "slot", ![k].batch = b]
    /\ UNCHANGED <<clock, setting, up, control, track, places, report, alarm,
                   ghost, bounds>>

\* Mutant: an empty claim does not end the drain.
Drained_Never(k) == Over(k)

\* Nothing left, or the deadline.
Drained(k) == Over(k) \/ In("ready") = {}

\* The drain is through, or the claim fails.
StopClaiming(k) ==
    /\ task[k].pc = "claim" /\ EndTick(k)
    /\ \/ Drained(k) /\ UNCHANGED bounds
       \/ ~Over(k) /\ In("ready") # {} /\ Mishap /\ UNCHANGED orders
    /\ UNCHANGED <<clock, setting, up, control, track, places, state, report,
                   ghost>>

\* The admission gate has a permit.
Admits == free > 0

\* acquire_slot: the global permit, then the instance's own.
TakeGlobal(k) ==
    /\ task[k].pc = "slot" /\ Admits /\ free' = free - 1
    /\ Goto(k, "permit")
    /\ UNCHANGED <<clock, setting, up, control, track, running, taken, state,
                   report, ghost, bounds>>

TakePermit(k, f) ==
    /\ task[k].pc = "permit" /\ f \in task[k].batch
    /\ Cardinality(running) < PerLimit
    /\ running' = running \cup {f}
    /\ LET rest == task[k].batch \ {f}
       IN  task' = [task EXCEPT ![k].batch = rest,
                                ![k].pc = IF rest = {} THEN "join" ELSE "slot"]
    /\ UNCHANGED <<clock, setting, up, control, track, free, taken, state,
                   report, alarm, ghost, bounds>>

\* process_item returns and drops its SlotGuard.  The row is verified or
\* further, or failed, or a store fault leaves it InProgress until a restart.
Finish(f) ==
    /\ f \in running /\ running' = running \ {f} /\ free' = free + 1
    /\ \/ state' = To({f}, "done") /\ Moved({f}) /\ UNCHANGED <<ghost, mishaps>>
       \/ state' = To({f}, "failed") /\ Mishap /\ UNCHANGED <<report, ghost>>
       \/ /\ ghost' = [ghost EXCEPT !.stranded = @ \cup {f}] /\ Mishap
          /\ UNCHANGED <<state, report>>
    /\ UNCHANGED <<clock, setting, up, control, track, task, taken, alarm,
                   orders>>

\* The batch is through: an immediate tick ends, the others claim again.
Join(k) ==
    /\ task[k].pc = "join" /\ running = {}
    /\ IF task[k].kind = "batch" THEN EndTick(k) ELSE Goto(k, "claim")
    /\ UNCHANGED <<clock, setting, up, control, track, places, state, report,
                   ghost, bounds>>

\* The deadline wins the race against join_next.
Due(k) == /\ task[k].pc = "join" /\ task[k].kind = "window"
          /\ clock >= task[k].deadline

\* Mutant: the mid-batch close leaves window_open set.
ShutTrack_Open == track' = track

\* window_open is cleared in place and WindowClosed announced.
ShutTrack == track' = [track EXCEPT !.open = FALSE]

\* finishCurrent, or no resume support: what runs may finish.
CloseFinishing(k) ==
    /\ Due(k) /\ ~setting.cancel /\ Goto(k, "closing")
    /\ ShutTrack /\ ghost' = [ghost EXCEPT !.balance = @ - 1]
    /\ UNCHANGED <<clock, setting, up, control, places, state, report, bounds>>

Closed(k) ==
    /\ task[k].pc = "closing" /\ running = {} /\ EndTick(k)
    /\ UNCHANGED <<clock, setting, up, control, track, places, state, report,
                   ghost, bounds>>

\* Mutant: an aborted task keeps its permit.
Dropped_None == 0

\* Permits that come back with the aborted tasks' SlotGuards.
Dropped == Cardinality(running)

\* Mutant: items that were not past verification are left as they are.
Reverted_None(through, stuck) == To(through \ stuck, "done")

\* pause_revert: back to Ready, or through if it was past verification.
Reverted(through, stuck) ==
    [f \in Files |-> IF f \notin running \/ f \in stuck THEN state[f]
                     ELSE IF f \in through THEN "done" ELSE "ready"]

\* pauseResume: the tasks are aborted and joined, pause_revert returns what is
\* InProgress to Ready and completes what was past verification; a store
\* fault leaves an item InProgress.
ClosePausing(k) ==
    /\ Due(k) /\ setting.cancel /\ EndTick(k)
    /\ ShutTrack
    /\ running' = {} /\ free' = free + Dropped
    /\ \E through \in SUBSET running, stuck \in SUBSET running :
         /\ state' = Reverted(through, stuck)
         /\ IF stuck = {} THEN UNCHANGED mishaps
            ELSE Mishap /\ Cardinality(stuck) = 1
         /\ ghost' = [ghost EXCEPT !.balance = @ - 1, !.stranded = @ \cup stuck]
         /\ Moved(running)
    /\ UNCHANGED <<clock, setting, up, control, taken, orders>>
-----------------------------------------------------------------------------
(***************************************************************************)
(* The control plane.                                                      *)
(***************************************************************************)
\* Mutant: the flag is set before the row is written.
Persist_FlagFirst(to) ==
    /\ \/ cmd' = to /\ stored' = to /\ UNCHANGED mishaps
       \/ cmd' = "idle" /\ Mishap /\ UNCHANGED stored
    /\ active' = IF to = "none" THEN Enabled ELSE to = "on"

\* set_activation and clear_activation write the row first; a fault answers
\* ACTIVATION_FAILED.
Persist(to) ==
    /\ \/ cmd' = to /\ stored' = to /\ UNCHANGED mishaps
       \/ cmd' = "idle" /\ Mishap /\ UNCHANGED stored
    /\ UNCHANGED active

\* on_set_activation with persist (the default) or reset.
OnSetActivation ==
    /\ up /\ cmd = "idle" /\ Order
    /\ \E to \in Overrides : Persist(to)
    /\ UNCHANGED <<clock, setting, up, track, task, places, state, report,
                   alarm, ghost>>

SetFlag ==
    /\ cmd # "idle" /\ cmd' = "idle"
    /\ active' = IF cmd = "none" THEN Enabled ELSE cmd = "on"
    /\ ghost' = [ghost EXCEPT !.flipped = FALSE]
    /\ UNCHANGED <<clock, setting, up, stored, track, task, places, state,
                   report, alarm, bounds>>

\* persist = false: the flag alone.
OnFlip ==
    /\ up /\ cmd = "idle" /\ Order
    /\ \E a \in BOOLEAN : active' = a
    /\ ghost' = [ghost EXCEPT !.flipped = TRUE]
    /\ UNCHANGED <<clock, setting, up, stored, track, task, places, state, cmd,
                   report, alarm, mishaps>>

\* Mutant: the InProgress rows are read before the Ready rows.
Reads_Reversed ==
    {<<"none", "inprogress">>, <<"inprogress", "ready">>, <<"ready", "failed">>}

\* instance_state_snapshot: one store call after the other.
Reads == {<<"none", "ready">>, <<"ready", "inprogress">>, <<"inprogress", "failed">>}

Listed == In("ready") \cup In("inprogress") \cup In("failed")

OnGetStatus ==
    /\ up
    /\ \E r \in Reads :
         /\ report.pc = r[1]
         /\ report' = [report EXCEPT !.pc = r[2], !.seen = @ \cup In(r[2]),
              !.asked = IF r[1] = "none" THEN Listed ELSE @]
         /\ IF r[1] = "none" THEN Order ELSE UNCHANGED orders
    /\ UNCHANGED <<clock, setting, up, control, track, task, places, state,
                   alarm, ghost, mishaps>>

Reply ==
    /\ up /\ report.pc = "failed" /\ report' = NoReport
    /\ UNCHANGED <<clock, setting, up, control, track, task, places, state,
                   alarm, ghost, bounds>>
-----------------------------------------------------------------------------
\* A tick's own next step; it waits elsewhere for the lock and for a slot.
TickStep(k) ==
    \/ Check(k) \/ GateForced(k) \/ Gate(k)
    \/ Claim(k) \/ StopClaiming(k) \/ (\E f \in Files : TakePermit(k, f))
    \/ Join(k) \/ CloseFinishing(k) \/ Closed(k) \/ ClosePausing(k)

Next ==
    \/ \E k \in Tasks : TickStep(k) \/ Discover(k) \/ TakeGlobal(k)
    \/ \E f \in Files : Finish(f) \/ Arrive(f)
    \/ LoopCall \/ OnTrigger \/ OnSetActivation \/ SetFlag \/ OnFlip
    \/ OnGetStatus \/ Reply
    \/ Elapse \/ OtherTakes \/ OtherReturns \/ Crash \/ Boot

Spec == Init /\ [][Next]_vars

\* The gate is strict priority without aging: while more urgent instances
\* keep taking permits, this one may wait for ever.  They stop in the end.
LoadSubsides == <>[][~OtherTakes]_vars

\* Tasks are scheduled, timers fire, transfers and a crash come to an end.
\* tick_lock is a queue, so who waits for it has its turn; a permit that stays
\* free is taken.
FairSpec ==
    /\ Spec
    /\ \A k \in Tasks : /\ WF_vars(TickStep(k))
                        /\ SF_vars(Discover(k)) /\ WF_vars(TakeGlobal(k))
    /\ WF_vars(\E f \in Files : Finish(f)) /\ WF_vars(SetFlag \/ Boot)
    /\ WF_vars(LoopCall) /\ WF_vars(Elapse) /\ WF_vars(OtherReturns)
    /\ LoadSubsides
-----------------------------------------------------------------------------
\* acquire_slot holds a global permit while it waits for the instance's own:
\* that one is free, so no instance keeps the component's permits waiting.
PermitFree ==
    \A k \in Tasks : task[k].pc = "permit" => Cardinality(running) < PerLimit

\* No permit is lost or made: not by a window's close, an abort or a batch
\* that is claimed while another tick waits.
PermitsConserved ==
    free + taken + Cardinality(running)
         + Cardinality({k \in Tasks : task[k].pc = "permit"}) = GlobalLimit

\* WindowOpened and WindowClosed alternate, whether a close is met in a batch,
\* between batches, or by a later tick (the in-place clearing of window_open).
EdgesAlternate == ghost.balance = IF track.open THEN 1 ELSE 0

\* A row is InProgress only under a tick that claimed it, until a store fault
\* strands it; no deactivation, trigger or close loses one.
NoStranded ==
    up => In("inprogress") = running \cup ghost.stranded
                             \cup UNION {task[k].batch : k \in Tasks}

\* The activation flag is what a restart would load, unless it was set for
\* this run only: also when a write fails or a crash separates row and flag.
ActivationAgrees == up /\ cmd = "idle" /\ ~ghost.flipped => active = Effective

\* get-status reads list after list while ticks move items; an item that only
\* went forward is in one of them.
NothingMissed ==
    report.pc = "failed" => report.asked \ report.moved \subseteq report.seen

\* A window's claims fall into the window if its tick did not have to wait
\* between reading the clock and the gate.
ClaimedInside ==
    [][\A k \in Tasks :
         /\ task[k].pc = "claim" /\ task'[k].pc = "slot"
         /\ task[k].kind = "window"
         /\ task[k].deadline = window_until(task[k].now)
         => window_until(clock) # None]_vars

\* A tick that waited for tick_lock evaluates the schedule with the clock it
\* read before, also after a tick that read it later.  A fire may be repeated
\* that way but is never swallowed: while one is owed, the watermark lies
\* before it.
FireKept ==
    ghost.owed => \E t \in Fires : track.fire < t /\ t <= clock

\* A fire that passes while a tick is busy is made up for, as long as the
\* instance stays up and active.
FireNoticed == ghost.owed ~> ~ghost.owed \/ ~active \/ ~up

\* A deactivated instance comes to rest: what was past the check finishes.
ComesToRest ==
    up /\ ~active
    ~> \/ active \/ ~up
       \/ running = {} /\ \A k \in Tasks : task[k].pc \notin Inside

\* In immediate mode a stable file is claimed in the end.
Claimed ==
    \A f \in Files :
      setting.mode = "immediate" /\ state[f] \in {"spooled", "ready"}
      ~> state[f] \notin {"spooled", "ready"} \/ ~active
=============================================================================
