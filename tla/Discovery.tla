------------------------------ MODULE Discovery ------------------------------
(***************************************************************************)
(* How a file of the watched directory becomes a queued item: the run      *)
(* loop's wake-ups (rescan timer, OS-watch nudges, stability re-check), the *)
(* scan and the readiness probe of each candidate, the stability tracker,  *)
(* the durable enqueue, and the log that announces an unreadable path once *)
(* per outage.  A trigger's tick runs beside the loop's and is kept apart   *)
(* from it by tick_lock.                                                    *)
(*                                                                         *)
(* Time is relative: timers count down and ages count up to where nothing  *)
(* compares them any more, so time has no horizon.  The unit is the 100 ms *)
(* that clamp a re-check from below.                                       *)
(***************************************************************************)
EXTENDS Integers, FiniteSets, FiniteSetsExt

CONSTANTS Files,        \* names in the watched directory
          Strategies,   \* subset of {"stability", "marker", "rename", "glob"}
          Quiet,        \* readiness.quietSecs
          Rescan,       \* ingress.rescanSecs
          Relog,        \* RELOG_INTERVAL_MS
          NudgeCap,     \* capacity of the nudge channel
          MaxSlow,      \* bound: units the rest of a tick takes
          MaxWrites,    \* bound: writes of all files together
          MaxUpsets     \* bound: losses of access, failing
                        \* enqueues and operator triggers

ASSUME DiscoveryAssumption ==
    /\ IsFiniteSet(Files) /\ Files # {}
    /\ Strategies \subseteq {"stability", "marker", "rename", "glob"}
    /\ Strategies # {}
    /\ Quiet \in Nat /\ Rescan \in Nat \ {0} /\ Relog \in Nat \ {0}
    /\ NudgeCap \in Nat \ {0} /\ MaxSlow \in Nat /\ MaxWrites \in Nat
    /\ MaxUpsets \in Nat

Root == "root"
Denied == "PermissionDenied"
Paths == {Root} \cup Files
Kinds == {Denied, "NotFound"}
Tasks == {"loop", "trigger"}

\* "No value" of an optional number; a version 0 is the signature (0, 0) a
\* scan falls back to when it cannot stat an entry.
None == -1

VARIABLES
    setting,   \* the strategy, whether the OS watch attached, how slow ticks are
    disk,      \* each file's version in the directory, None when absent
    made,      \* each file's latest version so far
    marked,    \* files whose companion marker exists
    access,    \* each path: "ok" or the error kind of reading it
    seen,      \* the stability tracker's entries
    tick,      \* each task's tick
    timer,     \* the run loop's rescan ticker and re-check, in units to go
    nudges,    \* messages in the nudge channel
    log,       \* PermissionLog: age of each entry's last log line
    row,       \* signature of each file's durable row
    age,       \* since the last write of each file
    late,      \* how long each file is wanted since its latest event
    heard,     \* files whose latest such event nudged the loop
    told,      \* age of the last PermissionDenied event of each (path, kind)
    upsets

vars == <<setting, disk, made, marked, access, seen, tick, timer, nudges, log,
          row, age, late, heard, told, upsets>>
spool == <<disk, made, marked, age>>
ghosts == <<late, heard, told>>

Idle == [pc |-> "idle", cand |-> [f \in Files |-> None], todo |-> {},
         ready |-> {}, issues |-> {}, slow |-> 0]
NoEntry == [ver |-> None, age |-> 0]

\* Entries the scan's directory listing yields, whatever their metadata.
Listed == IF access[Root] = "ok" THEN {f \in Files : disk[f] # None} ELSE {}

-----------------------------------------------------------------------------
(* Readiness. *)

\* (mutant: a changed observation keeps the old timer)
Observed_KeepTimer(f, v) ==
    IF seen[f].ver = None THEN [ver |-> v, age |-> 0]
    ELSE [ver |-> v, age |-> seen[f].age]

\* StabilityTracker::observe: the entry after an observation of version v ...
Observed(f, v) ==
    IF seen[f].ver = v THEN seen[f] ELSE [ver |-> v, age |-> 0]

\* ... and whether it makes the file ready.
Settled(f, v) ==
    IF seen[f].ver = None THEN Quiet = 0
    ELSE seen[f].ver = v /\ seen[f].age >= Quiet

\* StabilityTracker::retain: entries of files the scan did not list are dropped.
Retained(present) == [f \in Files |-> IF f \in present THEN seen[f] ELSE NoEntry]

\* (mutant: the loop does not re-arm itself)
Recheck_Never == None

\* StabilityTracker::pending_recheck, clamped as the run loop does.
Pending == {f \in Files : seen[f].ver # None /\ seen[f].age < Quiet}
Recheck ==
    IF setting.strategy # "stability" \/ Pending = {} THEN None
    ELSE LET wait == Min({Quiet - seen[f].age : f \in Pending})
         IN  Min({Rescan, Max({1, wait})})

-----------------------------------------------------------------------------
(* PermissionLog. *)

\* should_log: first sighting of the pair, or its last line is long ago.
ShouldLog(p, k) == log[p][k] = None \/ log[p][k] >= Relog

\* The log after report_scan_issues: pairs logged now are stamped, and pairs
\* of paths that no longer fail are evicted (recovered).
Logged(issues) ==
    LET failing == {i[1] : i \in issues}
    IN  [p \in Paths |-> [k \in Kinds |->
            IF p \notin failing THEN None
            ELSE IF <<p, k>> \in issues /\ ShouldLog(p, k) THEN 0
            ELSE log[p][k]]]

\* Paths for which this report emits a PermissionDenied event.
Emitted(issues) ==
    {p \in Paths : <<p, Denied>> \in issues /\ ShouldLog(p, Denied)}

\* (mutant: nothing is seeded)
Seeded_Nothing(kind) == [p \in Paths |-> [k \in Kinds |-> None]]

\* Start-up validation announces whatever is wrong with the ingress directory
\* as a PermissionDenied event, a missing directory too ...
Announced(kind) ==
    [p \in Paths |-> [k \in Kinds |-> IF p = Root /\ k = kind THEN 0 ELSE None]]

\* ... and seed_permission_log marks it in the log the instance starts with.
Seeded(kind) ==
    [p \in Paths |-> [k \in Kinds |-> IF p = Root /\ k = kind THEN 0 ELSE None]]

-----------------------------------------------------------------------------

\* An instance that has just been spawned, in the `retain` case after a
\* failed probe of its ingress directory; the run loop's initial sweep is due
\* and the ticker's first tick is immediate.
Init ==
    /\ setting \in [strategy : Strategies, watch : BOOLEAN, slow : 0..MaxSlow]
    /\ disk \in [Files -> {None, 1}]
    /\ made = [f \in Files |-> IF disk[f] = None THEN 0 ELSE 1]
    /\ marked = {}
    /\ \E kind \in {"ok"} \cup Kinds :
        /\ upsets = IF kind = "ok" THEN 0 ELSE 1
        /\ access = [p \in Paths |-> IF p = Root THEN kind ELSE "ok"]
        /\ log = Seeded(kind)
        /\ told = Announced(kind)
    /\ seen = [f \in Files |-> NoEntry]
    /\ tick = [t \in Tasks |-> IF t = "loop" THEN [Idle EXCEPT !.pc = "wait"]
                                             ELSE Idle]
    /\ timer = [rescan |-> 0, recheck |-> None]
    /\ nudges = 0
    /\ row = [f \in Files |-> None]
    /\ age = [f \in Files |-> 0] /\ late = age /\ heard = {}

(* The world: producers, permissions, the OS watch. *)

\* (mutant: an unbounded channel)
Nudge_Unbounded(f) ==
    /\ late' = [late EXCEPT ![f] = 0]
    /\ \/ setting.watch /\ nudges' = nudges + 1 /\ heard' = heard \cup {f}
       \/ nudges' = nudges /\ heard' = heard \ {f}

\* The watcher callback: try_send into a bounded channel, where a full one
\* already holds a nudge; an event error, or no watch, sends nothing.
Nudge(f) ==
    /\ late' = [late EXCEPT ![f] = 0]
    /\ \/ /\ setting.watch
          /\ nudges' = Min({nudges + 1, NudgeCap}) /\ heard' = heard \cup {f}
       \/ nudges' = nudges /\ heard' = heard \ {f}

\* The producer creates the file or writes it once more.
Write(f) ==
    /\ MapThenSumSet(LAMBDA g : made[g], Files) < MaxWrites
    /\ made' = [made EXCEPT ![f] = @ + 1]
    /\ disk' = [disk EXCEPT ![f] = made'[f]]
    /\ age' = [age EXCEPT ![f] = 0]
    /\ Nudge(f)
    /\ UNCHANGED <<setting, marked, access, seen, tick, timer, log, row, told,
                   upsets>>

\* The producer writes the companion marker.
Mark(f) ==
    /\ setting.strategy = "marker" /\ disk[f] # None /\ f \notin marked
    /\ marked' = marked \cup {f}
    /\ Nudge(f)
    /\ UNCHANGED <<setting, disk, made, age, access, seen, tick, timer, log,
                   row, told, upsets>>

\* The file goes: its producer, or the pipeline's completion, removes it.
Remove(f) ==
    /\ disk[f] # None
    /\ disk' = [disk EXCEPT ![f] = None] /\ marked' = marked \ {f}
    /\ Nudge(f)
    /\ UNCHANGED <<setting, made, age, access, seen, tick, timer, log, row,
                   told, upsets>>

\* A path becomes unreadable, in one way or another (only the directory itself
\* can be missing) ...
Deny(p) ==
    /\ upsets < MaxUpsets /\ upsets' = upsets + 1
    /\ \E kind \in IF p = Root THEN Kinds ELSE {Denied} :
        access[p] # kind /\ access' = [access EXCEPT ![p] = kind]
    /\ UNCHANGED <<setting, spool, seen, tick, timer, nudges, log, row, ghosts>>

\* ... and readable again, of which the OS watch may say nothing.
Restore(p) ==
    /\ access[p] # "ok"
    /\ access' = [access EXCEPT ![p] = "ok"]
    /\ late' = [f \in Files |-> IF p \in {Root, f} THEN 0 ELSE late[f]]
    /\ heard' = heard \ (IF p = Root THEN Files ELSE {p})
    /\ UNCHANGED <<setting, spool, seen, tick, timer, nudges, log, row, told,
                   upsets>>

-----------------------------------------------------------------------------
(* The run loop and the operator. *)

\* tokio::select!: the ticker, a nudge or the re-check ends the wait; the
\* other branches are dropped, the ticker keeps its deadline.
Wake ==
    /\ tick["loop"].pc = "idle"
    /\ \/ /\ timer.rescan = 0
          /\ timer' = [rescan |-> Rescan, recheck |-> None] /\ nudges' = nudges
       \/ /\ nudges > 0 /\ nudges' = nudges - 1
          /\ timer' = [timer EXCEPT !.recheck = None]
       \/ /\ timer.recheck = 0
          /\ timer' = [timer EXCEPT !.recheck = None] /\ nudges' = nudges
    /\ tick' = [tick EXCEPT !["loop"].pc = "wait"]
    /\ UNCHANGED <<setting, spool, access, seen, log, row, ghosts, upsets>>

\* A control-plane trigger ticks the same instance.
Trigger ==
    /\ upsets < MaxUpsets /\ upsets' = upsets + 1
    /\ tick["trigger"].pc = "idle"
    /\ tick' = [tick EXCEPT !["trigger"].pc = "wait"]
    /\ UNCHANGED <<setting, spool, access, seen, timer, nudges, log, row,
                   ghosts>>

\* tick_lock is free.
Unlocked(t) == \A u \in Tasks \ {t} : tick[u].pc \in {"idle", "wait"}

\* scan: what the directory lists, each entry with the signature its metadata
\* has, and the directory itself among the issues if it cannot be read.
Scan(t) ==
    /\ tick[t].pc = "wait" /\ Unlocked(t)
    /\ tick' = [tick EXCEPT ![t] =
          [Idle EXCEPT
             !.pc = "probe", !.todo = Listed,
             !.cand = [f \in Files |-> IF f \notin Listed THEN None
                                       ELSE IF access[f] = "ok" THEN disk[f]
                                       ELSE 0],
             !.issues = {<<Root, k>> : k \in {access[Root]} \ {"ok"}}]]
    /\ UNCHANGED <<setting, spool, access, seen, timer, nudges, log, row,
                   ghosts, upsets>>

\* is_ready for one candidate, some time after the scan listed it.
Probe(t, f) ==
    LET stability == setting.strategy = "stability"
        observed == stability /\ access[f] = "ok" /\ disk[f] # None
        ready == CASE stability -> observed /\ Settled(f, disk[f])
                   [] setting.strategy = "marker" -> f \in marked
                   [] OTHER -> TRUE
        denied == stability /\ disk[f] # None /\ access[f] = Denied
    IN  /\ tick[t].pc = "probe" /\ f \in tick[t].todo
        /\ seen' = IF observed THEN [seen EXCEPT ![f] = Observed(f, disk[f])]
                               ELSE seen
        /\ tick' = [tick EXCEPT
              ![t].todo = @ \ {f},
              ![t].ready = IF ready THEN @ \cup {f} ELSE @,
              ![t].issues = IF denied THEN @ \cup {<<f, Denied>>} ELSE @]
        /\ UNCHANGED <<setting, spool, access, timer, nudges, log, row, ghosts,
                       upsets>>

\* The scan is over: the tracker is swept and the issues are reported.
Report(t) ==
    /\ tick[t].pc = "probe" /\ tick[t].todo = {}
    /\ seen' = Retained({f \in Files : tick[t].cand[f] # None})
    /\ log' = Logged(tick[t].issues)
    /\ told' = [p \in Paths |-> [k \in Kinds |->
          IF k = Denied /\ p \in Emitted(tick[t].issues) THEN 0
          ELSE IF \E j \in Kinds : <<p, j>> \in tick[t].issues THEN told[p][k]
          ELSE None]]
    /\ tick' = [tick EXCEPT ![t].pc = "enqueue"]
    /\ UNCHANGED <<setting, spool, access, timer, nudges, row, late, heard,
                   upsets>>

\* queue.enqueue for every ready candidate; the ones the store refuses are
\* logged and skipped, and wait anew for a scan nothing nudges.
Enqueue(t) ==
    /\ tick[t].pc = "enqueue"
    /\ \E refused \in SUBSET tick[t].ready :
        /\ refused # {} => upsets < MaxUpsets
        /\ upsets' = IF refused = {} THEN upsets ELSE upsets + 1
        /\ row' = [f \in Files |->
              IF f \in tick[t].ready \ refused THEN tick[t].cand[f] ELSE row[f]]
        /\ late' = [f \in Files |-> IF f \in refused THEN 0 ELSE late[f]]
        /\ heard' = heard \ refused
    /\ tick' = [tick EXCEPT ![t] = [Idle EXCEPT !.pc = "work"]]
    /\ UNCHANGED <<setting, spool, access, seen, timer, nudges, log, told>>

\* The rest of the tick (retries, cleanup, transfers) is over; the run loop
\* arms its re-check and waits again.
EndTick(t) ==
    /\ tick[t].pc = "work"
    /\ tick' = [tick EXCEPT ![t] = Idle]
    /\ timer' = IF t = "loop" THEN [timer EXCEPT !.recheck = Recheck] ELSE timer
    /\ UNCHANGED <<setting, spool, access, seen, nudges, log, row, ghosts,
                   upsets>>

\* Nothing of the loop is due.
Resting ==
    /\ \A t \in Tasks : tick[t].pc = "idle"
    /\ timer.rescan # 0 /\ timer.recheck # 0 /\ nudges = 0

-----------------------------------------------------------------------------

\* f can be found, is fit to be queued, and its row does not have its version.
Wanted(f) ==
    /\ disk[f] # None /\ row[f] # disk[f]
    /\ access[Root] = "ok" /\ access[f] = "ok"
    /\ setting.strategy = "marker" => f \in marked

\* Past every deadline of QueuedInTime.
Longest == 2 * (Rescan + MaxSlow) + Quiet + 2

Older(n, cap) == IF n = None THEN None ELSE Min({n + 1, cap})
Sooner(n) == IF n = None THEN None ELSE Max({n - 1, 0})

\* A unit of time passes, while the loop waits or during the rest of a tick.
Elapse ==
    /\ \/ Resting /\ tick' = tick
       \/ \E t \in Tasks :
            /\ tick[t].pc = "work" /\ tick[t].slow < setting.slow
            /\ tick' = [tick EXCEPT ![t].slow = @ + 1]
    /\ seen' = [f \in Files |->
          IF seen[f].ver = None THEN NoEntry
          ELSE [seen[f] EXCEPT !.age = Older(@, Quiet)]]
    /\ timer' = [rescan |-> Sooner(timer.rescan),
                 recheck |-> Sooner(timer.recheck)]
    /\ log' = [p \in Paths |-> [k \in Kinds |-> Older(log[p][k], Relog)]]
    /\ age' = [f \in Files |-> Older(age[f], Quiet)]
    /\ late' = [f \in Files |-> IF Wanted(f) THEN Older(late[f], Longest) ELSE 0]
    /\ heard' = {f \in heard : Wanted(f)}
    /\ told' = [p \in Paths |-> [k \in Kinds |-> Older(told[p][k], Relog)]]
    /\ UNCHANGED <<setting, disk, made, marked, access, nudges, row, upsets>>

World == \/ \E f \in Files : Write(f) \/ Mark(f) \/ Remove(f)
         \/ \E p \in Paths : Deny(p) \/ Restore(p)
Ticking(t) == \/ Scan(t) \/ \E f \in Files : Probe(t, f)
              \/ Report(t) \/ Enqueue(t) \/ EndTick(t)
Next == World \/ Wake \/ Trigger \/ (\E t \in Tasks : Ticking(t)) \/ Elapse

Spec == Init /\ [][Next]_vars

-----------------------------------------------------------------------------
(* Properties. *)

\* Types of the state; no nudge is queued beyond the channel's capacity.
Version == Nat \ {0}
TickTypes ==
    [pc : {"idle", "wait", "probe", "enqueue", "work"},
     cand : [Files -> {None} \cup Nat], todo : SUBSET Files,
     ready : SUBSET Files, issues : SUBSET (Paths \X Kinds), slow : 0..MaxSlow]

TypeOK ==
    /\ setting \in [strategy : Strategies, watch : BOOLEAN, slow : 0..MaxSlow]
    /\ disk \in [Files -> {None} \cup Version]
    /\ made \in [Files -> Nat] /\ marked \subseteq Files
    /\ access \in [Paths -> {"ok"} \cup Kinds]
    /\ seen \in [Files -> [ver : {None} \cup Version, age : 0..Quiet]]
    /\ tick \in [Tasks -> TickTypes]
    /\ timer \in [rescan : 0..Rescan, recheck : {None} \cup 0..Rescan]
    /\ nudges \in 0..NudgeCap
    /\ log \in [Paths -> [Kinds -> {None} \cup 0..Relog]]
    /\ row \in [Files -> {None} \cup Nat]
    /\ age \in [Files -> 0..Quiet] /\ late \in [Files -> 0..Longest]
    /\ heard \subseteq Files
    /\ told \in [Paths -> [Kinds -> {None} \cup 0..Relog]]
    /\ upsets \in Nat

\* The stability strategy accepts a file only if nobody has written it for the
\* quiet time, and it is that settled version which is queued, however writes,
\* removals and re-creations fall between the scan's stat, the probe's and the
\* earlier observations.
OnlySettled ==
    [][\A t \in Tasks, f \in Files :
          setting.strategy = "stability" /\ f \in tick'[t].ready \ tick[t].ready
          => age[f] >= Quiet /\ tick[t].cand[f] \in {0, disk[f]}]_vars

\* How long it takes at most until a tick scans: the one in progress ends, and
\* the fallback rescan is due unless the watch nudged the loop.
Found(f) == IF f \in heard THEN setting.slow ELSE Max({Rescan, setting.slow})

\* And until the file is queued.  With the stability strategy the quiet time
\* comes on top, of which a short tick's re-check keeps track.  A tick during
\* which it runs out leaves no re-check armed, and neither does one without a
\* quiet time that finds a new version: the file then waits for the next scan.
Deadline(f) ==
    IF setting.strategy # "stability" THEN Found(f)
    ELSE IF setting.slow = 0 /\ Quiet > 0 THEN Found(f) + Quiet
    ELSE Found(f) + Quiet + Max({Rescan, setting.slow})

\* Every wanted file is queued in time, with a watch that works, loses events
\* or never attached, through bursts of nudges in a full channel, long ticks,
\* triggers and enqueues the store refused: the self-scheduled re-check and the rescan are enough.
QueuedInTime == \A f \in Files : Wanted(f) => late[f] <= Deadline(f)

\* An outage is announced exactly once per re-log interval: a scan that was
\* refused a path leaves the PermissionDenied event of that error behind, its
\* own or a recent one, and none follows while every scan since found the path
\* unreadable, start-up's own event included.  (Start-up's event about a missing
\* directory is another (path, kind): a directory that comes back unreadable is
\* announced again.)
AnnouncedOnce ==
    [][\A t \in Tasks : tick[t].pc = "probe" /\ tick'[t].pc = "enqueue"
          => /\ \A p \in Emitted(tick[t].issues) : told[p][Denied] \notin 0..(Relog - 1)
             /\ \A p \in Paths : <<p, Denied>> \in tick[t].issues
                    => told'[p][Denied] \in 0..(Relog - 1)]_vars
=============================================================================
