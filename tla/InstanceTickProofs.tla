------------------------- MODULE InstanceTickProofs -------------------------
(***************************************************************************)
(* An instance's slots, window events, rows and claims, for any schedule,  *)
(* any limits, any number of files and any number of commands and mishaps. *)
(***************************************************************************)
EXTENDS InstanceTick, FiniteSetTheorems, NaturalsInduction,
        WellFoundedInduction, TLAPS

-----------------------------------------------------------------------------
(* The schedule. *)

\* The ends of a set of instants are members of it, or None.
LEMMA EndsOf ==
    ASSUME NEW S, S \subseteq Instants
    PROVE  /\ Latest(S) \in S \cup {None} /\ Earliest(S) \in S \cup {None}
           /\ Latest(S) \in Nat /\ Earliest(S) \in Nat
<1>1. Latest(S) \in S \cup {None}
  <2>1. CASE \E t \in S : \A u \in S : u <= t
    <3> DEFINE t == CHOOSE t \in S : \A u \in S : u <= t
    <3>1. t \in S BY <2>1
    <3>2. Latest(S) = t BY <2>1 DEF Latest
    <3> QED BY <3>1, <3>2
  <2>2. CASE ~ \E t \in S : \A u \in S : u <= t BY <2>2 DEF Latest
  <2> QED BY <2>1, <2>2
<1>2. Earliest(S) \in S \cup {None}
  <2>1. CASE \E t \in S : \A u \in S : t <= u
    <3> DEFINE t == CHOOSE t \in S : \A u \in S : t <= u
    <3>1. t \in S BY <2>1
    <3>2. Earliest(S) = t BY <2>1 DEF Earliest
    <3> QED BY <3>1, <3>2
  <2>2. CASE ~ \E t \in S : \A u \in S : t <= u BY <2>2 DEF Earliest
  <2> QED BY <2>1, <2>2
<1>3. S \subseteq Nat /\ None \in Nat BY ScheduleAssumption DEF Instants, None
<1> QED BY <1>1, <1>2, <1>3

\* The close of a window is a number.
LEMMA UntilType == \A t \in Nat : window_until(t) \in Nat
<1> SUFFICES ASSUME NEW t \in Nat PROVE window_until(t) \in Nat OBVIOUS
<1>1. prev_fire(Opens, t) \in Nat
  BY EndsOf, ScheduleAssumption DEF prev_fire
<1>2. close_after(prev_fire(Opens, t)) \in Nat
  BY <1>1, EndsOf, ScheduleAssumption DEF close_after, next_fire_inclusive
<1> QED BY <1>2 DEF window_until, None

\* So is the edge the run loop sleeps for.
LEMMA WakeType ==
    ASSUME NEW t \in Nat, setting.mode \in Modes
    PROVE  next_wake(setting.mode, t) \in Nat
<1>1. next_fire(Fires, t) \in Nat
  BY EndsOf, ScheduleAssumption DEF next_fire
<1>2. next_fire_inclusive(Opens, t) \in Nat
  BY EndsOf, ScheduleAssumption DEF next_fire_inclusive
<1> QED BY <1>1, <1>2, UntilType, InstanceAssumption DEF next_wake, None

\* What is admitted is one of the four kinds.
LEMMA AdmissionType ==
    ASSUME NEW now, NEW last, setting.mode \in Modes
    PROVE  /\ admission(setting.mode, now, last) \in Kinds
           /\ admission(setting.mode, now, last) = "window"
                => setting.mode = "window" /\ window_until(now) # None
BY InstanceAssumption DEF admission, Kinds

-----------------------------------------------------------------------------
(* Types. *)

Points == {"idle", "check", "lock"} \cup Inside
TickType == [pc : Points, now : Nat, forced : BOOLEAN, kind : Kinds,
             deadline : Int, batch : SUBSET Files]
TrackType == [fire : Nat, open : BOOLEAN]
GhostType == [balance : Int, flipped : BOOLEAN, owed : BOOLEAN,
              stranded : SUBSET Files]
ReadPoints == {"none", "ready", "inprogress", "failed"}
ReportType == [pc : ReadPoints, asked : SUBSET Files, seen : SUBSET Files,
               moved : SUBSET Files]

\* Records that are changed in some fields keep their types.
LEMMA TickAt ==
    ASSUME NEW r \in TickType, NEW p \in Points
    PROVE  [r EXCEPT !.pc = p] \in TickType
BY DEF TickType

LEMMA TickAdmitted ==
    ASSUME NEW r \in TickType, NEW p \in Points, NEW kind \in Kinds,
           NEW d \in Int
    PROVE  [r EXCEPT !.pc = p, !.kind = kind, !.deadline = d] \in TickType
BY DEF TickType

LEMMA TickBatch ==
    ASSUME NEW r \in TickType, NEW p \in Points, NEW b \in SUBSET Files
    PROVE  [r EXCEPT !.pc = p, !.batch = b] \in TickType
BY DEF TickType

LEMMA TickCalled ==
    ASSUME NEW n \in Nat, NEW f \in BOOLEAN
    PROVE  /\ [NoTick EXCEPT !.pc = "check", !.now = n, !.forced = f] \in TickType
           /\ NoTick \in TickType
<1>1. NoTick \in TickType BY DEF TickType, NoTick, None, Kinds, Points
<1>2. ASSUME NEW p \in Points
      PROVE  [NoTick EXCEPT !.pc = p, !.now = n, !.forced = f] \in TickType
  BY <1>1 DEF TickType
<1>3. "check" \in Points BY DEF Points
<1> QED BY <1>1, <1>2, <1>3

LEMMA GhostAnnounced ==
    ASSUME NEW g \in GhostType, NEW b \in Int, NEW o \in BOOLEAN
    PROVE  [g EXCEPT !.balance = b, !.owed = o] \in GhostType
BY DEF GhostType

LEMMA GhostClosed ==
    ASSUME NEW g \in GhostType, NEW b \in Int, NEW F \in SUBSET Files
    PROVE  /\ [g EXCEPT !.balance = b, !.stranded = F] \in GhostType
           /\ [g EXCEPT !.balance = b] \in GhostType
BY DEF GhostType

\* An item is stranded: the rest of the ghost is as before.
LEMMA GhostStranded ==
    ASSUME NEW g \in GhostType, NEW F \in SUBSET Files
    PROVE  /\ [g EXCEPT !.stranded = F] \in GhostType
           /\ [g EXCEPT !.stranded = F].stranded = F
           /\ [g EXCEPT !.stranded = F].balance = g.balance
           /\ [g EXCEPT !.stranded = F].owed = g.owed
           /\ [g EXCEPT !.stranded = F].flipped = g.flipped
BY DEF GhostType

LEMMA GhostFlag ==
    ASSUME NEW g \in GhostType, NEW b \in BOOLEAN
    PROVE  /\ [g EXCEPT !.owed = b] \in GhostType
           /\ [g EXCEPT !.flipped = b] \in GhostType
BY DEF GhostType

LEMMA GhostReset ==
    ASSUME NEW g \in GhostType
    PROVE  [g EXCEPT !.balance = 0, !.owed = FALSE, !.flipped = FALSE,
                     !.stranded = {}] \in GhostType
<1>1. ASSUME NEW b \in Int, NEW o \in BOOLEAN, NEW f \in BOOLEAN,
             NEW F \in SUBSET Files
      PROVE  [g EXCEPT !.balance = b, !.owed = o, !.flipped = f,
                       !.stranded = F] \in GhostType
  BY DEF GhostType
<1>2. 0 \in Int /\ FALSE \in BOOLEAN /\ {} \in SUBSET Files OBVIOUS
<1> QED BY <1>1, <1>2

LEMMA ReportRead ==
    ASSUME NEW r \in ReportType, NEW p \in ReadPoints, NEW s \in SUBSET Files,
           NEW a \in SUBSET Files
    PROVE  /\ [r EXCEPT !.pc = p, !.seen = s, !.asked = a] \in ReportType
           /\ [r EXCEPT !.moved = s] \in ReportType
BY DEF ReportType

\* The type invariant, in terms of these.
Typed == /\ clock \in Instants /\ up \in BOOLEAN /\ active \in BOOLEAN
         /\ setting \in [mode : Modes, cancel : BOOLEAN]
         /\ stored \in Overrides /\ track \in TrackType
         /\ task \in [Tasks -> TickType]
         /\ running \in SUBSET Files /\ free \in Nat /\ taken \in Nat
         /\ state \in [Files -> States]
         /\ cmd \in Overrides \cup {"idle"} /\ report \in ReportType
         /\ alarm \in Nat /\ ghost \in GhostType
         /\ orders \in Nat /\ mishaps \in Nat

LEMMA Types == TypeOK <=> Typed
BY DEF Typed, TypeOK, TrackType, TickType, Points, GhostType, ReportType,
       ReadPoints

\* Sets of files are finite.
LEMMA FileSets ==
    \A S : S \subseteq Files => IsFiniteSet(S) /\ Cardinality(S) \in Nat
BY FS_Subset, FS_CardinalityType, InstanceAssumption

LEMMA TypeInit == Init => Typed
<1> SUFFICES ASSUME Init PROVE Typed OBVIOUS
<1>1. NoTick \in TickType BY TickCalled
<1>2. ghost \in GhostType BY DEF Init, GhostType
<1>3. report \in ReportType BY DEF Init, NoReport, ReportType, ReadPoints
<1>4. track \in TrackType BY DEF Init, NoTrack, TrackType, None
<1> QED BY <1>1, <1>2, <1>3, <1>4, InstanceAssumption, ScheduleAssumption
        DEF Init, Typed, Instants, Overrides, States

LEMMA EndTickType ==
    ASSUME Typed, NEW k \in Tasks, EndTick(k)
    PROVE  task' \in [Tasks -> TickType] /\ alarm' \in Nat
<1>1. clock \in Nat /\ setting.mode \in Modes
  BY ScheduleAssumption DEF Typed, Instants
<1>2. Sleep(clock) \in Nat
  BY <1>1, WakeType, InstanceAssumption DEF Sleep, None
<1>3. NoTick \in TickType BY TickCalled
<1> QED BY <1>2, <1>3 DEF EndTick, Typed

LEMMA GotoType ==
    ASSUME Typed, NEW k \in Tasks, NEW p \in Points, Goto(k, p)
    PROVE  task' \in [Tasks -> TickType] /\ alarm' \in Nat
<1>1. [task[k] EXCEPT !.pc = p] \in TickType BY TickAt DEF Typed
<1>2. task' = [task EXCEPT ![k] = [task[k] EXCEPT !.pc = p]]
  BY DEF Goto
<1> QED BY <1>1, <1>2 DEF Typed, Goto

LEMMA AdmitType ==
    ASSUME Typed, NEW k \in Tasks, NEW kind \in Kinds, Admit(k, kind)
    PROVE  task' \in [Tasks -> TickType] /\ alarm' \in Nat
<1> DEFINE d == IF kind = "window" THEN Deadline(task[k].now) ELSE None
<1>1. task[k] \in TickType /\ task[k].now \in Nat /\ clock \in Nat
  BY ScheduleAssumption DEF Typed, TickType, Instants
<1>2. d \in Int
  <2>1. window_until(task[k].now) \in Nat BY <1>1, UntilType
  <2> QED BY <1>1, <2>1 DEF Deadline, None
<1> HIDE DEF d
<1>3. "claim" \in Points BY DEF Points, Inside
<1>4. [task[k] EXCEPT !.pc = "claim", !.kind = kind, !.deadline = d] \in TickType
  BY <1>1, <1>2, <1>3, TickAdmitted
<1>5. task' = [task EXCEPT ![k] =
                 [task[k] EXCEPT !.pc = "claim", !.kind = kind, !.deadline = d]]
  BY DEF Admit, d
<1> QED BY <1>4, <1>5 DEF Typed, Admit

LEMMA MovedType ==
    ASSUME Typed, NEW F \in SUBSET Files, Moved(F)
    PROVE  report' \in ReportType
<1>1. report.moved \cup F \in SUBSET Files BY DEF Typed, ReportType
<1>2. [report EXCEPT !.moved = report.moved \cup F] \in ReportType
  BY <1>1, ReportRead DEF Typed, ReadPoints
<1> QED BY <1>2 DEF Typed, Moved

LEMMA ToType ==
    ASSUME Typed, NEW F, NEW s \in States
    PROVE  To(F, s) \in [Files -> States]
BY DEF To, Typed

LEMMA TypeStep == Typed /\ [Next]_vars => Typed'
<1> SUFFICES ASSUME Typed, [Next]_vars PROVE Typed' OBVIOUS
<1> USE DEF places, control, bounds
<1>0. /\ clock \in Nat /\ Inside \subseteq Points /\ ghost.balance \in Int
      /\ ghost.stranded \in SUBSET Files
      /\ \A s : In(s) \in SUBSET Files
      /\ \A k \in Tasks : task[k] \in TickType /\ task[k].now \in Nat
                         /\ task[k].batch \in SUBSET Files
      /\ track.fire \in Nat /\ track.open \in BOOLEAN
      /\ ghost.owed \in BOOLEAN
  BY ScheduleAssumption
  DEF Typed, Instants, Points, GhostType, TickType, TrackType, In
<1>1. CASE UNCHANGED vars BY <1>1 DEF vars, Typed
<1>2. ASSUME NEW k \in Tasks, Check(k) PROVE Typed'
  <2>1. task' \in [Tasks -> TickType] /\ alarm' \in Nat
    BY <1>2, EndTickType, GotoType DEF Check, Points
  <2> QED BY <1>2, <2>1 DEF Typed, Check
<1>3. ASSUME NEW k \in Tasks, GateForced(k) PROVE Typed'
  <2>1. task' \in [Tasks -> TickType] /\ alarm' \in Nat
    BY <1>3, AdmitType DEF GateForced, Kinds
  <2> QED BY <1>3, <2>1 DEF Typed, GateForced
<1>4. ASSUME NEW k \in Tasks, Gate(k) PROVE Typed'
  <2> DEFINE kind == admission(setting.mode, task[k].now, track.fire)
  <2>1. kind \in Kinds BY AdmissionType DEF Typed
  <2>2. task' \in [Tasks -> TickType] /\ alarm' \in Nat
    BY <1>4, <2>1, EndTickType, AdmitType DEF Gate
  <2> HIDE DEF kind
  <2>3. track' \in TrackType
    <3>1. track' = Evaluated(task[k].now, kind) BY <1>4 DEF Gate, kind
    <3> QED BY <1>0, <3>1 DEF Evaluated, TrackType
  <2>4. ghost' \in GhostType
    <3> DEFINE b == IF kind = "window" /\ ~track.open THEN ghost.balance + 1
                    ELSE IF kind \in {"batch", "none"} /\ track.open
                         THEN ghost.balance - 1 ELSE ghost.balance
               o == ghost.owed /\ kind # "all"
    <3>1. Announce(task[k].now, kind) BY <1>4 DEF Gate, kind
    <3>2. ghost' = [ghost EXCEPT !.balance = b, !.owed = o]
      BY <3>1 DEF Announce
    <3>3. b \in Int BY <1>0
    <3>4. o \in BOOLEAN OBVIOUS
    <3> HIDE DEF b, o
    <3> QED BY <3>2, <3>3, <3>4, GhostAnnounced DEF Typed
  <2> QED BY <1>4, <2>2, <2>3, <2>4 DEF Typed, Gate
<1>5. ASSUME NEW k \in Tasks, Claim(k) PROVE Typed'
  <2>1. PICK b \in SUBSET In("ready") :
           /\ state' = To(b, "inprogress")
           /\ task' = [task EXCEPT ![k].pc = "slot", ![k].batch = b]
    BY <1>5 DEF Claim
  <2>2. b \in SUBSET Files /\ "slot" \in Points BY <1>0 DEF Inside
  <2>3. [task[k] EXCEPT !.pc = "slot", !.batch = b] \in TickType
    BY <1>0, <2>2, TickBatch
  <2>4. task' = [task EXCEPT ![k] = [task[k] EXCEPT !.pc = "slot", !.batch = b]]
    BY <2>1
  <2>5. task' \in [Tasks -> TickType] BY <2>3, <2>4 DEF Typed
  <2>6. state' \in [Files -> States] BY <2>1, ToType DEF States
  <2> QED BY <1>5, <2>5, <2>6 DEF Typed, Claim
<1>6. ASSUME NEW k \in Tasks, StopClaiming(k) PROVE Typed'
  <2>1. task' \in [Tasks -> TickType] /\ alarm' \in Nat
    BY <1>6, EndTickType DEF StopClaiming
  <2> QED BY <1>6, <2>1 DEF Typed, StopClaiming, Mishap
<1>7. ASSUME NEW k \in Tasks, NEW f \in Files, TakePermit(k, f) PROVE Typed'
  <2> DEFINE rest == task[k].batch \ {f}
             p == IF rest = {} THEN "join" ELSE "slot"
  <2>1. rest \in SUBSET Files /\ p \in Points BY <1>0 DEF Inside
  <2>2. task' = [task EXCEPT ![k] = [task[k] EXCEPT !.pc = p, !.batch = rest]]
    BY <1>7 DEF TakePermit
  <2> HIDE DEF rest, p
  <2>3. [task[k] EXCEPT !.pc = p, !.batch = rest] \in TickType
    BY <1>0, <2>1, TickBatch
  <2>4. task' \in [Tasks -> TickType] BY <2>2, <2>3 DEF Typed
  <2> QED BY <1>7, <2>4 DEF Typed, TakePermit
<1>8. ASSUME NEW k \in Tasks, Join(k) PROVE Typed'
  <2>1. task' \in [Tasks -> TickType] /\ alarm' \in Nat
    BY <1>0, <1>8, EndTickType, GotoType DEF Join, Inside
  <2> QED BY <1>8, <2>1 DEF Typed, Join
<1>9. ASSUME NEW k \in Tasks, CloseFinishing(k) PROVE Typed'
  <2>1. task' \in [Tasks -> TickType] /\ alarm' \in Nat
    BY <1>0, <1>9, GotoType DEF CloseFinishing, Inside
  <2>2. track' \in TrackType
    BY <1>9 DEF CloseFinishing, ShutTrack, Typed, TrackType
  <2>3. ghost' \in GhostType
    <3>1. ghost.balance - 1 \in Int BY <1>0
    <3>2. ghost' = [ghost EXCEPT !.balance = ghost.balance - 1]
      BY <1>9 DEF CloseFinishing
    <3> QED BY <3>1, <3>2, GhostClosed DEF Typed
  <2> QED BY <1>9, <2>1, <2>2, <2>3 DEF Typed, CloseFinishing
<1>10. ASSUME NEW k \in Tasks, Closed(k) PROVE Typed'
  <2>1. task' \in [Tasks -> TickType] /\ alarm' \in Nat
    BY <1>10, EndTickType DEF Closed
  <2> QED BY <1>10, <2>1 DEF Typed, Closed
<1>11. ASSUME NEW k \in Tasks, ClosePausing(k) PROVE Typed'
  <2>1. Cardinality(running) \in Nat BY FileSets DEF Typed
  <2>2. task' \in [Tasks -> TickType] /\ alarm' \in Nat
    BY <1>11, EndTickType DEF ClosePausing
  <2>3. PICK through \in SUBSET running, stuck \in SUBSET running :
           /\ state' = Reverted(through, stuck)
           /\ IF stuck = {} THEN UNCHANGED mishaps
              ELSE Mishap /\ Cardinality(stuck) = 1
           /\ ghost' = [ghost EXCEPT !.balance = @ - 1, !.stranded = @ \cup stuck]
           /\ Moved(running)
    BY <1>11 DEF ClosePausing
  <2>4. state' \in [Files -> States] BY <2>3 DEF Reverted, States, Typed
  <2>5. mishaps' \in Nat BY <2>3 DEF Mishap, Typed
  <2>6. free' \in Nat BY <1>11, <2>1 DEF ClosePausing, Dropped, Typed
  <2>7. ghost' \in GhostType
    <3>1. ghost.balance - 1 \in Int /\ ghost.stranded \cup stuck \in SUBSET Files
      BY <1>0 DEF Typed
    <3> QED BY <2>3, <3>1, GhostClosed DEF Typed
  <2>8. report' \in ReportType BY <2>3, MovedType DEF Typed
  <2>9. track' \in TrackType
    BY <1>11 DEF ClosePausing, ShutTrack, Typed, TrackType
  <2>10. UNCHANGED <<clock, setting, up, active, stored, cmd, taken, orders>>
         /\ running' = {}
    BY <1>11 DEF ClosePausing
  <2> QED BY <2>2, <2>4, <2>5, <2>6, <2>7, <2>8, <2>9, <2>10 DEF Typed
<1>12. ASSUME NEW k \in Tasks, Discover(k) PROVE Typed'
  <2>1. task' \in [Tasks -> TickType] /\ alarm' \in Nat
    BY <1>0, <1>12, GotoType DEF Discover, Inside
  <2>2. PICK due \in SUBSET In("failed") :
           state' = To(In("spooled") \cup due, "ready") /\ Moved(due)
    BY <1>12 DEF Discover
  <2>3. state' \in [Files -> States] BY <2>2, ToType DEF States
  <2>4. report' \in ReportType BY <1>0, <2>2, MovedType
  <2> QED BY <1>12, <2>1, <2>3, <2>4 DEF Typed, Discover
<1>13. ASSUME NEW k \in Tasks, TakeGlobal(k) PROVE Typed'
  <2>1. task' \in [Tasks -> TickType] /\ alarm' \in Nat
    BY <1>0, <1>13, GotoType DEF TakeGlobal, Inside
  <2> QED BY <1>13, <2>1 DEF Typed, TakeGlobal, Admits
<1>14. ASSUME NEW f \in Files, Finish(f) PROVE Typed'
  <2>1. state' \in [Files -> States]
    BY <1>14, ToType DEF Finish, States, Typed
  <2>2. report' \in ReportType BY <1>14, MovedType DEF Finish, Typed
  <2>3. ghost' \in GhostType
    <3>1. ghost \in GhostType /\ ghost.stranded \cup {f} \in SUBSET Files
      BY DEF Typed, GhostType
    <3>2. [ghost EXCEPT !.stranded = ghost.stranded \cup {f}] \in GhostType
      BY <3>1, GhostStranded
    <3> QED BY <1>14, <3>1, <3>2 DEF Finish
  <2>4. mishaps' \in Nat BY <1>14 DEF Typed, Finish, Mishap
  <2> QED BY <1>14, <2>1, <2>2, <2>3, <2>4 DEF Typed, Finish
<1>15. ASSUME NEW f \in Files, Arrive(f) PROVE Typed'
  BY <1>15 DEF Arrive, States, Typed
<1>16. CASE LoopCall
  <2>1. task' \in [Tasks -> TickType]
    BY <1>0, <1>16, TickCalled DEF LoopCall, Call, Typed
  <2> QED BY <1>16, <2>1 DEF LoopCall, Typed
<1>17. CASE OnTrigger
  <2>1. task' \in [Tasks -> TickType]
    <3>1. PICK f \in BOOLEAN : Call("trigger", f) BY <1>17 DEF OnTrigger
    <3>2. [NoTick EXCEPT !.pc = "check", !.now = clock, !.forced = f] \in TickType
      BY <1>0, TickCalled
    <3> QED BY <3>1, <3>2 DEF Call, Typed
  <2> QED BY <1>17, <2>1 DEF OnTrigger, Order, Typed
<1>18. CASE OnSetActivation
  BY <1>18 DEF OnSetActivation, Persist, Order, Mishap, Typed
<1>19. CASE SetFlag
  <2>1. ghost' \in GhostType BY <1>19, GhostFlag DEF SetFlag, Typed
  <2> QED BY <1>19, <2>1, InstanceAssumption DEF SetFlag, Typed
<1>20. CASE OnFlip
  <2>1. ghost' \in GhostType BY <1>20, GhostFlag DEF OnFlip, Typed
  <2> QED BY <1>20, <2>1 DEF OnFlip, Order, Typed
<1>21. CASE OnGetStatus
  <2>1. PICK r \in Reads :
           /\ report' = [report EXCEPT !.pc = r[2], !.seen = @ \cup In(r[2]),
                !.asked = IF r[1] = "none" THEN Listed ELSE @]
           /\ IF r[1] = "none" THEN Order ELSE UNCHANGED orders
    BY <1>21 DEF OnGetStatus
  <2> DEFINE s == report.seen \cup In(r[2])
             a == IF r[1] = "none" THEN Listed ELSE report.asked
  <2>2. r[2] \in ReadPoints BY DEF Reads, ReadPoints
  <2>3. s \in SUBSET Files /\ a \in SUBSET Files
    BY <1>0 DEF Typed, ReportType, Listed
  <2>4. report' = [report EXCEPT !.pc = r[2], !.seen = s, !.asked = a]
    BY <2>1
  <2> HIDE DEF s, a
  <2>5. report' \in ReportType BY <2>2, <2>3, <2>4, ReportRead DEF Typed
  <2>6. orders' \in Nat BY <2>1 DEF Order, Typed
  <2> QED BY <1>21, <2>5, <2>6 DEF OnGetStatus, Typed
<1>22. CASE Reply
  <2>1. report' \in ReportType BY <1>22 DEF Reply, NoReport, ReportType, ReadPoints
  <2> QED BY <1>22, <2>1 DEF Reply, Typed
<1>23. CASE Elapse
  <2>1. ghost' \in GhostType
    <3>1. PICK b \in BOOLEAN : ghost' = [ghost EXCEPT !.owed = b]
      BY <1>0, <1>23 DEF Elapse
    <3> QED BY <3>1, GhostFlag DEF Typed
  <2> QED BY <1>23, <2>1, ScheduleAssumption DEF Elapse, Instants, Typed
<1>24. CASE OtherTakes BY <1>24 DEF OtherTakes, Typed
<1>25. CASE OtherReturns BY <1>25 DEF OtherReturns, Typed
<1>26. CASE Crash
  <2>1. NoTick \in TickType BY TickCalled
  <2>2. report' \in ReportType BY <1>26 DEF Crash, NoReport, ReportType, ReadPoints
  <2>3. track' \in TrackType BY <1>26 DEF Crash, NoTrack, TrackType, None
  <2>4. ghost' \in GhostType
    <3>1. ghost' = [ghost EXCEPT !.balance = 0, !.owed = FALSE,
                                 !.flipped = FALSE, !.stranded = {}]
      BY <1>26 DEF Crash
    <3> QED BY <3>1, GhostReset DEF Typed
  <2>5. task' \in [Tasks -> TickType] BY <1>26, <2>1 DEF Crash
  <2>6. /\ UNCHANGED <<clock, setting, stored, state, alarm, orders>>
        /\ up' = FALSE /\ active' = FALSE /\ running' = {}
        /\ free' = GlobalLimit /\ taken' = 0 /\ cmd' = "idle"
    BY <1>26 DEF Crash
  <2>7. mishaps' \in Nat BY <1>26 DEF Crash, Mishap, Typed
  <2> QED BY <2>2, <2>3, <2>4, <2>5, <2>6, <2>7, InstanceAssumption DEF Typed
<1>27. CASE Boot
  <2>1. state' \in [Files -> States] BY <1>27, ToType DEF Boot, States
  <2>2. Effective \in BOOLEAN BY InstanceAssumption DEF Effective
  <2> QED BY <1>0, <1>27, <2>1, <2>2 DEF Boot, Typed
<1> QED
  BY <1>1, <1>2, <1>3, <1>4, <1>5, <1>6, <1>7, <1>8, <1>9, <1>10, <1>11, <1>12,
     <1>13, <1>14, <1>15, <1>16, <1>17, <1>18, <1>19, <1>20, <1>21, <1>22,
     <1>23, <1>24, <1>25, <1>26, <1>27
  DEF Next, TickStep

LEMMA TypedAlways == Spec => []Typed
BY TypeInit, TypeStep, PTL DEF Spec

\* Every variable of an instance keeps its type (run, run_tick and the control
\* plane's handlers).
THEOREM TypeCorrect == Spec => []TypeOK
BY TypedAlways, Types, PTL
-----------------------------------------------------------------------------
(* What the steps of a tick do to the ticks. *)

\* A finished item touches the ghost's set of stranded items at most.
LEMMA FinishGhost ==
    ASSUME Typed, NEW f \in Files, Finish(f)
    PROVE  /\ ghost'.balance = ghost.balance /\ ghost'.owed = ghost.owed
           /\ ghost'.flipped = ghost.flipped
           /\ \/ ghost'.stranded = ghost.stranded
              \/ /\ ghost'.stranded = ghost.stranded \cup {f}
                 /\ UNCHANGED <<state, report>>
<1>1. ghost \in GhostType /\ ghost.stranded \cup {f} \in SUBSET Files
  BY DEF Typed, GhostType
<1>2. \/ UNCHANGED ghost
      \/ /\ ghost' = [ghost EXCEPT !.stranded = ghost.stranded \cup {f}]
         /\ UNCHANGED <<state, report>>
  BY DEF Finish
<1>3. CASE UNCHANGED ghost BY <1>3
<1>4. CASE /\ ghost' = [ghost EXCEPT !.stranded = ghost.stranded \cup {f}]
           /\ UNCHANGED <<state, report>>
  BY <1>1, <1>4, GhostStranded
<1> QED BY <1>2, <1>3, <1>4

LEMMA EndTickDoes ==
    ASSUME Typed, NEW k \in Tasks, EndTick(k), NEW j \in Tasks
    PROVE  task'[j] = IF j = k THEN NoTick ELSE task[j]
BY DEF Typed, EndTick

LEMMA GotoDoes ==
    ASSUME Typed, NEW k \in Tasks, NEW p, Goto(k, p), NEW j \in Tasks
    PROVE  /\ task'[j].pc = IF j = k THEN p ELSE task[j].pc
           /\ task'[j].batch = task[j].batch /\ task'[j].now = task[j].now
           /\ task'[j].kind = task[j].kind
           /\ task'[j].deadline = task[j].deadline
BY DEF Typed, Goto, TickType

LEMMA AdmitDoes ==
    ASSUME Typed, NEW k \in Tasks, NEW kind, Admit(k, kind), NEW j \in Tasks
    PROVE  /\ task'[j].pc = IF j = k THEN "claim" ELSE task[j].pc
           /\ task'[j].batch = task[j].batch /\ task'[j].now = task[j].now
           /\ task'[j].kind = IF j = k THEN kind ELSE task[j].kind
BY DEF Typed, Admit, TickType

LEMMA CallDoes ==
    ASSUME Typed, NEW k \in Tasks, NEW f, Call(k, f), NEW j \in Tasks
    PROVE  IF j = k
           THEN /\ task'[j].pc = "check" /\ task'[j].batch = {}
                /\ task'[j].now = clock /\ task'[j].kind = "none"
           ELSE task'[j] = task[j]
BY DEF Typed, Call, NoTick

-----------------------------------------------------------------------------
(***************************************************************************)
(* Slots.  PermitFree is not inductive: that the instance's own permit is  *)
(* free needs that a tick takes slots only for what it has claimed, that   *)
(* its claim was made when nothing ran, and that no other tick is inside.  *)
(***************************************************************************)
Waiting == {"slot", "permit"}
Holding == {"slot", "permit", "join", "closing"}

\* tick_lock admits one tick.
LockHeld == \A j, k \in Tasks :
              task[j].pc \in Inside /\ task[k].pc \in Inside => j = k

\* What runs, runs under a tick that will join it.
RunningHeld == running # {} => \E k \in Tasks : task[k].pc \in Holding

\* A batch that still waits for slots fits beside what runs.
Fits(b) == /\ b # {} /\ b \cap running = {}
           /\ Cardinality(running) + Cardinality(b) <= PerLimit
BatchFits == \A k \in Tasks : IF task[k].pc \in Waiting THEN Fits(task[k].batch)
                              ELSE task[k].batch = {}

\* A process that is down has no ticks.
AtRest == ~up => \A k \in Tasks : task[k].pc = "idle"

SlotInv == LockHeld /\ RunningHeld /\ BatchFits /\ AtRest

\* With a tick inside at claim, nothing runs.
LEMMA ClaimQuiet ==
    ASSUME Typed, SlotInv, NEW k \in Tasks,
           task[k].pc \in Inside \ Holding
    PROVE  running = {}
BY DEF SlotInv, LockHeld, RunningHeld, Inside, Holding

\* Fewer running items leave as much room.
LEMMA FitsLess ==
    ASSUME Typed, running' \in SUBSET running, NEW b \in SUBSET Files, Fits(b)
    PROVE  Fits(b)'
<1>1. Cardinality(running') <= Cardinality(running)
  BY FileSets, FS_Subset DEF Typed
<1>2. Cardinality(running') \in Nat /\ Cardinality(running) \in Nat
      /\ Cardinality(b) \in Nat
  BY FileSets DEF Typed
<1> QED BY <1>1, <1>2, InstanceAssumption DEF Fits

\* A tick that leaves, or moves on without a batch, keeps the invariant.
LEMMA SlotMoves ==
    ASSUME Typed, SlotInv, NEW k \in Tasks, NEW p \in Points \ Waiting,
           task[k].pc \notin Waiting,
           \A j \in Tasks : IF j = k THEN task'[j].pc = p /\ task'[j].batch = {}
                            ELSE /\ task'[j].pc = task[j].pc
                                 /\ task'[j].batch = task[j].batch,
           p \in Inside => task[k].pc \in Inside \/ Unlocked,
           running' \in SUBSET running,
           task[k].pc \in Holding => p \in Holding \/ running' = {},
           up' = up, p # "idle" => up
    PROVE  SlotInv'
<1>0. \A j \in Tasks : task[j].batch \in SUBSET Files BY DEF Typed, TickType
<1>1. LockHeld' BY DEF SlotInv, LockHeld, Unlocked
<1>2. RunningHeld' BY DEF SlotInv, RunningHeld
<1>3. BatchFits'
  BY <1>0, FitsLess DEF SlotInv, BatchFits
<1>4. AtRest' BY DEF SlotInv, AtRest
<1> QED BY <1>1, <1>2, <1>3, <1>4 DEF SlotInv

\* So does a step that leaves the ticks alone.
LEMMA SlotRests ==
    ASSUME Typed, SlotInv, UNCHANGED task, running' \in SUBSET running, ~up' => ~up
    PROVE  SlotInv'
<1>0. \A j \in Tasks : task[j].batch \in SUBSET Files BY DEF Typed, TickType
<1>1. LockHeld' BY DEF SlotInv, LockHeld
<1>2. RunningHeld' BY DEF SlotInv, RunningHeld
<1>3. BatchFits' BY <1>0, FitsLess DEF SlotInv, BatchFits
<1>4. AtRest' BY DEF SlotInv, AtRest
<1> QED BY <1>1, <1>2, <1>3, <1>4 DEF SlotInv

LEMMA SlotInit == Init => SlotInv
BY InstanceAssumption
DEF Init, SlotInv, LockHeld, RunningHeld, BatchFits, AtRest, NoTick, Inside,
    Waiting, Tasks

LEMMA SlotClaim ==
    ASSUME Typed, SlotInv, NEW k \in Tasks, Claim(k)
    PROVE  SlotInv'
<1>1. PICK b \in SUBSET In("ready") :
         /\ Cardinality(b) = BatchSize
         /\ task' = [task EXCEPT ![k].pc = "slot", ![k].batch = b]
  BY DEF Claim
<1>2. task[k].pc = "claim" /\ In("ready") # {} /\ UNCHANGED <<up, running>>
  BY DEF Claim, places
<1>3. running = {} BY <1>2, ClaimQuiet DEF Inside, Holding
<1>4. ASSUME NEW j \in Tasks
      PROVE  /\ task'[j].pc = IF j = k THEN "slot" ELSE task[j].pc
             /\ task'[j].batch = IF j = k THEN b ELSE task[j].batch
  BY <1>1 DEF Typed, TickType
<1>5. Fits(b)'
  <2>1. In("ready") \subseteq Files BY DEF In
  <2>2. /\ IsFiniteSet(In("ready")) /\ Cardinality(In("ready")) \in Nat
        /\ IsFiniteSet(b) /\ Cardinality(b) \in Nat
    BY <2>1, FileSets
  <2>3. Cardinality(In("ready")) # 0 BY <1>2, <2>2, FS_EmptySet
  <2>4. Cardinality(b) <= PerLimit /\ Cardinality(b) # 0
    BY <1>1, <2>2, <2>3, InstanceAssumption DEF BatchSize
  <2>5. b # {} BY <2>4, FS_EmptySet
  <2>6. Cardinality({}) = 0 BY FS_EmptySet
  <2> QED BY <1>2, <1>3, <2>2, <2>4, <2>5, <2>6 DEF Fits
<1>6. LockHeld'
  <2>1. task[k].pc \in Inside BY <1>2 DEF Inside
  <2> QED BY <1>4, <2>1 DEF SlotInv, LockHeld
<1>7. RunningHeld' BY <1>2, <1>3 DEF RunningHeld
<1>8. BatchFits'
  BY <1>2, <1>4, <1>5 DEF SlotInv, BatchFits, Fits, Waiting
<1>9. AtRest' BY <1>2, <1>4 DEF SlotInv, AtRest
<1> QED BY <1>6, <1>7, <1>8, <1>9 DEF SlotInv

LEMMA SlotTakeGlobal ==
    ASSUME Typed, SlotInv, NEW k \in Tasks, TakeGlobal(k)
    PROVE  SlotInv'
<1>0. /\ task[k].pc = "slot" /\ Goto(k, "permit") /\ UNCHANGED <<up, running>>
      /\ {"slot", "permit"} \subseteq Inside
  BY DEF TakeGlobal, Inside
<1>1. ASSUME NEW j \in Tasks
      PROVE  /\ task'[j].pc = IF j = k THEN "permit" ELSE task[j].pc
             /\ task'[j].batch = task[j].batch
  BY <1>0, GotoDoes
<1>2. LockHeld' BY <1>0, <1>1 DEF SlotInv, LockHeld
<1>3. RunningHeld' BY <1>0, <1>1 DEF SlotInv, RunningHeld, Holding
<1>4. BatchFits'
  <2> SUFFICES ASSUME NEW j \in Tasks
               PROVE  (IF task[j].pc \in Waiting THEN Fits(task[j].batch)
                       ELSE task[j].batch = {})'
    BY DEF BatchFits
  <2>1. IF task[j].pc \in Waiting THEN Fits(task[j].batch) ELSE task[j].batch = {}
    BY DEF SlotInv, BatchFits
  <2>2. task'[j].pc \in Waiting <=> task[j].pc \in Waiting
    BY <1>0, <1>1 DEF Waiting
  <2> QED BY <1>0, <1>1, <2>1, <2>2 DEF Fits
<1>5. AtRest' BY <1>0, <1>1 DEF SlotInv, AtRest
<1> QED BY <1>2, <1>3, <1>4, <1>5 DEF SlotInv

\* The item whose transfer starts leaves the batch and joins what runs.
LEMMA SlotTakePermit ==
    ASSUME Typed, SlotInv, NEW k \in Tasks, NEW f \in Files, TakePermit(k, f)
    PROVE  /\ SlotInv' /\ f \notin running
           /\ Cardinality(running') = Cardinality(running) + 1
<1> DEFINE rest == task[k].batch \ {f}
           p == IF rest = {} THEN "join" ELSE "slot"
<1>1. /\ task[k].pc = "permit" /\ f \in task[k].batch /\ UNCHANGED up
      /\ running' = running \cup {f}
      /\ task' = [task EXCEPT ![k].pc = p, ![k].batch = rest]
  BY DEF TakePermit
<1>2. ASSUME NEW j \in Tasks
      PROVE  /\ task'[j].pc = IF j = k THEN p ELSE task[j].pc
             /\ task'[j].batch = IF j = k THEN rest ELSE task[j].batch
  <2> HIDE DEF rest, p
  <2> QED BY <1>1 DEF Typed, TickType
<1>3. Fits(task[k].batch) BY <1>1 DEF SlotInv, BatchFits, Waiting
<1>4. task[k].batch \in SUBSET Files BY DEF Typed, TickType
<1>5. /\ IsFiniteSet(running) /\ Cardinality(running) \in Nat
      /\ IsFiniteSet(task[k].batch) /\ Cardinality(task[k].batch) \in Nat
  BY <1>4, FileSets DEF Typed
<1>6. f \notin running BY <1>1, <1>3 DEF Fits
<1>7. Cardinality(running') = Cardinality(running) + 1
  BY <1>1, <1>5, <1>6, FS_AddElement
<1>8. Cardinality(rest) = Cardinality(task[k].batch) - 1
  BY <1>1, <1>5, FS_RemoveElement
<1>9. /\ rest \cap running' = {}
      /\ Cardinality(running') + Cardinality(rest) <= PerLimit
  BY <1>1, <1>3, <1>5, <1>7, <1>8, InstanceAssumption DEF Fits
<1>10. LockHeld'
  <2>1. task[k].pc \in Inside BY <1>1 DEF Inside
  <2> QED BY <1>2, <2>1 DEF SlotInv, LockHeld
<1>11. RunningHeld' BY <1>2 DEF RunningHeld, Holding
<1>12. BatchFits'
  <2> SUFFICES ASSUME NEW j \in Tasks
               PROVE  (IF task[j].pc \in Waiting THEN Fits(task[j].batch)
                       ELSE task[j].batch = {})'
    BY DEF BatchFits
  <2>1. CASE j = k
    <3>1. CASE rest = {} BY <1>2, <2>1, <3>1 DEF Waiting
    <3>2. CASE rest # {}
      <4>1. task'[j].batch = rest BY <1>2, <2>1
      <4>2. Fits(task[j].batch)' BY <1>9, <3>2, <4>1 DEF Fits
      <4>3. task'[j].pc \in Waiting BY <1>2, <2>1, <3>2 DEF Waiting
      <4> QED BY <4>2, <4>3
    <3> QED BY <3>1, <3>2
  <2>2. CASE j # k
    <3>1. task[j].pc \notin Waiting
      BY <1>1, <2>2 DEF SlotInv, LockHeld, Inside, Waiting
    <3> QED BY <1>2, <2>2, <3>1 DEF SlotInv, BatchFits
  <2> QED BY <2>1, <2>2
<1>13. AtRest' BY <1>1, <1>2 DEF SlotInv, AtRest
<1> QED BY <1>6, <1>7, <1>10, <1>11, <1>12, <1>13 DEF SlotInv

LEMMA SlotStep == Typed /\ SlotInv /\ [Next]_vars => SlotInv'
<1> SUFFICES ASSUME Typed, SlotInv, [Next]_vars PROVE SlotInv' OBVIOUS
<1> USE DEF places
<1>0. /\ NoTick.pc = "idle" /\ NoTick.batch = {}
      /\ \A k \in Tasks : /\ task[k].pc \notin Waiting => task[k].batch = {}
                          /\ task[k].pc # "idle" => up
  BY DEF NoTick, SlotInv, BatchFits, AtRest
<1>1. CASE UNCHANGED vars BY <1>1, SlotRests DEF vars
<1>2. ASSUME NEW k \in Tasks, Check(k) PROVE SlotInv'
  <2>1. CASE active
    BY <1>0, <1>2, <2>1, GotoDoes, SlotMoves, "lock" \in Points \ Waiting
    DEF Check, Points, Waiting, Inside, Holding
  <2>2. CASE ~active
    BY <1>0, <1>2, <2>2, EndTickDoes, SlotMoves
    DEF Check, Points, Waiting, Inside, Holding
  <2> QED BY <2>1, <2>2
<1>3. ASSUME NEW k \in Tasks, GateForced(k) PROVE SlotInv'
  BY <1>0, <1>3, AdmitDoes, SlotMoves
  DEF GateForced, Points, Waiting, Inside, Holding
<1>4. ASSUME NEW k \in Tasks, Gate(k) PROVE SlotInv'
  <2>1. /\ task[k].pc = "gate" /\ UNCHANGED <<up, running>>
        /\ EndTick(k) \/ \E kind : Admit(k, kind)
    BY <1>4 DEF Gate
  <2>2. CASE EndTick(k)
    BY <1>0, <2>1, <2>2, EndTickDoes, SlotMoves
    DEF Points, Waiting, Inside, Holding
  <2>3. ASSUME NEW kind, Admit(k, kind) PROVE SlotInv'
    BY <1>0, <2>1, <2>3, AdmitDoes, SlotMoves
    DEF Points, Waiting, Inside, Holding
  <2> QED BY <2>1, <2>2, <2>3
<1>5. ASSUME NEW k \in Tasks, Claim(k) PROVE SlotInv' BY <1>5, SlotClaim
<1>6. ASSUME NEW k \in Tasks, StopClaiming(k) PROVE SlotInv'
  BY <1>0, <1>6, EndTickDoes, SlotMoves
  DEF StopClaiming, Points, Waiting, Inside, Holding
<1>7. ASSUME NEW k \in Tasks, NEW f \in Files, TakePermit(k, f) PROVE SlotInv'
  BY <1>7, SlotTakePermit
<1>8. ASSUME NEW k \in Tasks, Join(k) PROVE SlotInv'
  <2>1. CASE task[k].kind = "batch"
    BY <1>0, <1>8, <2>1, EndTickDoes, SlotMoves
    DEF Join, Points, Waiting, Inside, Holding
  <2>2. CASE task[k].kind # "batch"
    BY <1>0, <1>8, <2>2, GotoDoes, SlotMoves
    DEF Join, Points, Waiting, Inside, Holding
  <2> QED BY <2>1, <2>2
<1>9. ASSUME NEW k \in Tasks, CloseFinishing(k) PROVE SlotInv'
  BY <1>0, <1>9, GotoDoes, SlotMoves
  DEF CloseFinishing, Due, Points, Waiting, Inside, Holding
<1>10. ASSUME NEW k \in Tasks, Closed(k) PROVE SlotInv'
  BY <1>0, <1>10, EndTickDoes, SlotMoves
  DEF Closed, Points, Waiting, Inside, Holding
<1>11. ASSUME NEW k \in Tasks, ClosePausing(k) PROVE SlotInv'
  BY <1>0, <1>11, EndTickDoes, SlotMoves
  DEF ClosePausing, Due, Points, Waiting, Inside, Holding
<1>12. ASSUME NEW k \in Tasks, Discover(k) PROVE SlotInv'
  BY <1>0, <1>12, GotoDoes, SlotMoves
  DEF Discover, Points, Waiting, Inside, Holding
<1>13. ASSUME NEW k \in Tasks, TakeGlobal(k) PROVE SlotInv'
  BY <1>13, SlotTakeGlobal
<1>14. ASSUME NEW f \in Files, Finish(f) PROVE SlotInv'
  BY <1>14, SlotRests DEF Finish
<1>15. ASSUME NEW f \in Files, Arrive(f) PROVE SlotInv'
  BY <1>15, SlotRests DEF Arrive
<1>16. CASE LoopCall
  <2>1. "loop" \in Tasks /\ "check" \in Points \ Waiting
    BY DEF Tasks, Points, Waiting
  <2>2. /\ task["loop"].pc = "idle" /\ Call("loop", FALSE)
        /\ UNCHANGED <<up, running>> /\ up
    BY <1>16 DEF LoopCall
  <2>3. ASSUME NEW j \in Tasks
        PROVE  IF j = "loop" THEN task'[j].pc = "check" /\ task'[j].batch = {}
               ELSE task'[j] = task[j]
    BY <2>1, <2>2, CallDoes
  <2>4. /\ task["loop"].pc \notin Waiting /\ task["loop"].pc \notin Holding
        /\ "check" \notin Inside
    BY <2>2 DEF Waiting, Holding, Inside
  <2> QED BY <2>1, <2>2, <2>3, <2>4, SlotMoves
<1>17. CASE OnTrigger
  BY <1>0, <1>17, CallDoes, SlotMoves
  DEF OnTrigger, Tasks, Points, Waiting, Inside, Holding
<1>18. CASE OnSetActivation BY <1>18, SlotRests DEF OnSetActivation
<1>19. CASE SetFlag BY <1>19, SlotRests DEF SetFlag
<1>20. CASE OnFlip BY <1>20, SlotRests DEF OnFlip
<1>21. CASE OnGetStatus BY <1>21, SlotRests DEF OnGetStatus
<1>22. CASE Reply BY <1>22, SlotRests DEF Reply
<1>23. CASE Elapse BY <1>23, SlotRests DEF Elapse
<1>24. CASE OtherTakes BY <1>24, SlotRests DEF OtherTakes
<1>25. CASE OtherReturns BY <1>25, SlotRests DEF OtherReturns
<1>26. CASE Crash
  BY <1>0, <1>26
  DEF Crash, SlotInv, LockHeld, RunningHeld, BatchFits, AtRest, Inside, Waiting
<1>27. CASE Boot BY <1>27, SlotRests DEF Boot
<1> QED
  BY <1>1, <1>2, <1>3, <1>4, <1>5, <1>6, <1>7, <1>8, <1>9, <1>10, <1>11, <1>12,
     <1>13, <1>14, <1>15, <1>16, <1>17, <1>18, <1>19, <1>20, <1>21, <1>22,
     <1>23, <1>24, <1>25, <1>26, <1>27
  DEF Next, TickStep

LEMMA SlotAlways == Spec => [](Typed /\ SlotInv)
BY TypeInit, TypeStep, SlotInit, SlotStep, PTL DEF Spec

LEMMA SlotFree == Typed /\ SlotInv => PermitFree
<1> SUFFICES ASSUME Typed, SlotInv, NEW k \in Tasks, task[k].pc = "permit"
             PROVE  Cardinality(running) < PerLimit
  BY DEF PermitFree
<1>1. Fits(task[k].batch) BY DEF SlotInv, BatchFits, Waiting
<1>2. task[k].batch \in SUBSET Files BY DEF Typed, TickType
<1>3. Cardinality(task[k].batch) # 0 BY <1>1, <1>2, FileSets, FS_EmptySet DEF Fits
<1> QED BY <1>1, <1>2, <1>3, FileSets, InstanceAssumption DEF Fits, Typed

\* The instance's own permit is free when the global one is held
\* (acquire_slot, run_batch and run_batch_windowed).
THEOREM PermitFreeHolds == Spec => []PermitFree
BY SlotAlways, SlotFree, PTL
-----------------------------------------------------------------------------
(* Permits. *)

AtPermit == {k \in Tasks : task[k].pc = "permit"}

LEMMA AtPermitFinite == IsFiniteSet(AtPermit) /\ Cardinality(AtPermit) \in Nat
<1>1. IsFiniteSet(Tasks)
  <2>1. IsFiniteSet({"loop"}) BY FS_Singleton
  <2>2. IsFiniteSet({"loop"} \cup {"trigger"}) BY <2>1, FS_AddElement
  <2>3. Tasks = {"loop"} \cup {"trigger"} BY DEF Tasks
  <2> QED BY <2>2, <2>3
<1>2. AtPermit \subseteq Tasks BY DEF AtPermit
<1> QED BY <1>1, <1>2, FS_Subset, FS_CardinalityType

\* Steps that move no permit.
LEMMA PermitsRest ==
    ASSUME PermitsConserved, UNCHANGED <<free, taken, running>>,
           NEW k \in Tasks, task[k].pc # "permit", task'[k].pc # "permit",
           \A j \in Tasks \ {k} : task'[j].pc = task[j].pc
    PROVE  PermitsConserved'
<1>1. AtPermit' = AtPermit BY DEF AtPermit
<1> QED BY <1>1 DEF PermitsConserved, AtPermit

\* Steps of others, that exchange permits between pools.
LEMMA PermitsExchange ==
    ASSUME PermitsConserved, UNCHANGED task,
           free' + taken' + Cardinality(running')
             = free + taken + Cardinality(running)
    PROVE  PermitsConserved'
<1>1. AtPermit' = AtPermit BY DEF AtPermit
<1> QED BY <1>1 DEF PermitsConserved, AtPermit

LEMMA PermitsInit == Init => PermitsConserved
<1> SUFFICES ASSUME Init PROVE PermitsConserved OBVIOUS
<1>1. AtPermit = {} BY DEF Init, AtPermit, NoTick
<1>2. free + taken + Cardinality(running) + Cardinality(AtPermit) = GlobalLimit
  BY <1>1, FS_EmptySet, InstanceAssumption DEF Init
<1> QED BY <1>2 DEF PermitsConserved, AtPermit

LEMMA PermitsStep ==
    Typed /\ SlotInv /\ PermitsConserved /\ [Next]_vars => PermitsConserved'
<1> SUFFICES ASSUME Typed, SlotInv, PermitsConserved, [Next]_vars
             PROVE  PermitsConserved'
  OBVIOUS
<1> USE DEF places
<1>0. /\ NoTick.pc = "idle" /\ free \in Nat /\ taken \in Nat
      /\ Cardinality(running) \in Nat /\ IsFiniteSet(running)
  BY FileSets DEF NoTick, Typed
<1>1. CASE UNCHANGED vars BY <1>1, PermitsExchange DEF vars
<1>2. ASSUME NEW k \in Tasks, Check(k) PROVE PermitsConserved'
  BY <1>0, <1>2, GotoDoes, EndTickDoes, PermitsRest DEF Check
<1>3. ASSUME NEW k \in Tasks, GateForced(k) PROVE PermitsConserved'
  BY <1>3, AdmitDoes, PermitsRest DEF GateForced
<1>4. ASSUME NEW k \in Tasks, Gate(k) PROVE PermitsConserved'
  <2>1. /\ task[k].pc = "gate" /\ UNCHANGED <<free, taken, running>>
        /\ EndTick(k) \/ \E kind : Admit(k, kind)
    BY <1>4 DEF Gate
  <2>2. CASE EndTick(k) BY <1>0, <2>1, <2>2, EndTickDoes, PermitsRest
  <2>3. ASSUME NEW kind, Admit(k, kind) PROVE PermitsConserved'
    BY <2>1, <2>3, AdmitDoes, PermitsRest
  <2> QED BY <2>1, <2>2, <2>3
<1>5. ASSUME NEW k \in Tasks, Claim(k) PROVE PermitsConserved'
  <2>1. ASSUME NEW j \in Tasks
        PROVE  task'[j].pc = IF j = k THEN "slot" ELSE task[j].pc
    BY <1>5 DEF Claim, Typed, TickType
  <2> QED BY <1>5, <2>1, PermitsRest DEF Claim
<1>6. ASSUME NEW k \in Tasks, StopClaiming(k) PROVE PermitsConserved'
  BY <1>0, <1>6, EndTickDoes, PermitsRest DEF StopClaiming
<1>7. ASSUME NEW k \in Tasks, NEW f \in Files, TakePermit(k, f)
      PROVE  PermitsConserved'
  <2>1. ASSUME NEW j \in Tasks \ {k} PROVE task'[j].pc = task[j].pc
    BY <1>7 DEF TakePermit, Typed, TickType
  <2>2. task[k].pc = "permit" /\ task'[k].pc # "permit"
    BY <1>7 DEF TakePermit, Typed, TickType
  <2>3. AtPermit' = AtPermit \ {k} BY <2>1, <2>2 DEF AtPermit
  <2>4. Cardinality(AtPermit') = Cardinality(AtPermit) - 1
    <3>1. k \in AtPermit BY <2>2 DEF AtPermit
    <3> QED BY <2>3, <3>1, AtPermitFinite, FS_RemoveElement
  <2>5. Cardinality(running') = Cardinality(running) + 1
    BY <1>7, SlotTakePermit
  <2>6. UNCHANGED <<free, taken>> BY <1>7 DEF TakePermit
  <2> QED BY <1>0, <2>4, <2>5, <2>6, AtPermitFinite DEF PermitsConserved, AtPermit
<1>8. ASSUME NEW k \in Tasks, Join(k) PROVE PermitsConserved'
  BY <1>0, <1>8, EndTickDoes, GotoDoes, PermitsRest DEF Join
<1>9. ASSUME NEW k \in Tasks, CloseFinishing(k) PROVE PermitsConserved'
  BY <1>9, GotoDoes, PermitsRest DEF CloseFinishing, Due
<1>10. ASSUME NEW k \in Tasks, Closed(k) PROVE PermitsConserved'
  BY <1>0, <1>10, EndTickDoes, PermitsRest DEF Closed
<1>11. ASSUME NEW k \in Tasks, ClosePausing(k) PROVE PermitsConserved'
  <2>1. /\ task[k].pc = "join" /\ EndTick(k) /\ running' = {}
        /\ free' = free + Cardinality(running) /\ taken' = taken
    BY <1>11 DEF ClosePausing, Due, Dropped
  <2>2. AtPermit' = AtPermit BY <1>0, <2>1, EndTickDoes DEF AtPermit
  <2>3. Cardinality(running') = 0 BY <2>1, FS_EmptySet
  <2>4. free + taken + Cardinality(running) + Cardinality(AtPermit) = GlobalLimit
    BY DEF PermitsConserved, AtPermit
  <2>5. free' + taken' + Cardinality(running') + Cardinality(AtPermit')
          = GlobalLimit
    BY <1>0, <2>1, <2>2, <2>3, <2>4, AtPermitFinite
  <2> QED BY <2>5 DEF PermitsConserved, AtPermit
<1>12. ASSUME NEW k \in Tasks, Discover(k) PROVE PermitsConserved'
  BY <1>12, GotoDoes, PermitsRest DEF Discover
<1>13. ASSUME NEW k \in Tasks, TakeGlobal(k) PROVE PermitsConserved'
  <2>1. /\ task[k].pc = "slot" /\ Goto(k, "permit") /\ free > 0
        /\ free' = free - 1 /\ UNCHANGED <<taken, running>>
    BY <1>13 DEF TakeGlobal, Admits
  <2>2. ASSUME NEW j \in Tasks
        PROVE  task'[j].pc = IF j = k THEN "permit" ELSE task[j].pc
    BY <2>1, GotoDoes
  <2>3. AtPermit' = AtPermit \cup {k} /\ k \notin AtPermit
    BY <2>1, <2>2 DEF AtPermit
  <2>4. Cardinality(AtPermit') = Cardinality(AtPermit) + 1
    BY <2>3, AtPermitFinite, FS_AddElement
  <2> QED BY <1>0, <2>1, <2>4, AtPermitFinite DEF PermitsConserved, AtPermit
<1>14. ASSUME NEW f \in Files, Finish(f) PROVE PermitsConserved'
  <2>1. /\ f \in running /\ running' = running \ {f} /\ free' = free + 1
        /\ UNCHANGED <<task, taken>>
    BY <1>14 DEF Finish
  <2>2. Cardinality(running') = Cardinality(running) - 1
    BY <1>0, <2>1, FS_RemoveElement
  <2> QED BY <1>0, <2>1, <2>2, PermitsExchange
<1>15. ASSUME NEW f \in Files, Arrive(f) PROVE PermitsConserved'
  BY <1>15, PermitsExchange DEF Arrive
<1>16. CASE LoopCall
  <2>1. "loop" \in Tasks BY DEF Tasks
  <2>2. ASSUME NEW j \in Tasks
        PROVE  IF j = "loop" THEN task'[j].pc = "check" ELSE task'[j] = task[j]
    BY <1>16, <2>1, CallDoes DEF LoopCall
  <2> QED BY <1>16, <2>1, <2>2, PermitsRest DEF LoopCall
<1>17. CASE OnTrigger
  <2>1. "trigger" \in Tasks BY DEF Tasks
  <2>2. ASSUME NEW j \in Tasks
        PROVE  IF j = "trigger" THEN task'[j].pc = "check" ELSE task'[j] = task[j]
    BY <1>17, <2>1, CallDoes DEF OnTrigger
  <2> QED BY <1>17, <2>1, <2>2, PermitsRest DEF OnTrigger
<1>18. CASE OnSetActivation BY <1>18, PermitsExchange DEF OnSetActivation
<1>19. CASE SetFlag BY <1>19, PermitsExchange DEF SetFlag
<1>20. CASE OnFlip BY <1>20, PermitsExchange DEF OnFlip
<1>21. CASE OnGetStatus BY <1>21, PermitsExchange DEF OnGetStatus
<1>22. CASE Reply BY <1>22, PermitsExchange DEF Reply
<1>23. CASE Elapse BY <1>23, PermitsExchange DEF Elapse
<1>24. CASE OtherTakes BY <1>0, <1>24, PermitsExchange DEF OtherTakes
<1>25. CASE OtherReturns BY <1>0, <1>25, PermitsExchange DEF OtherReturns
<1>26. CASE Crash
  <2>1. AtPermit' = {} BY <1>0, <1>26 DEF Crash, AtPermit
  <2>2. free' + taken' + Cardinality(running') + Cardinality(AtPermit')
          = GlobalLimit
    BY <1>26, <2>1, FS_EmptySet, InstanceAssumption DEF Crash
  <2> QED BY <2>2 DEF PermitsConserved, AtPermit
<1>27. CASE Boot BY <1>27, PermitsExchange DEF Boot
<1> QED
  BY <1>1, <1>2, <1>3, <1>4, <1>5, <1>6, <1>7, <1>8, <1>9, <1>10, <1>11, <1>12,
     <1>13, <1>14, <1>15, <1>16, <1>17, <1>18, <1>19, <1>20, <1>21, <1>22,
     <1>23, <1>24, <1>25, <1>26, <1>27
  DEF Next, TickStep

\* The component's permits are neither lost nor made (SlotGuard, and the abort
\* of a window's tasks).
THEOREM PermitsConservedHolds == Spec => []PermitsConserved
BY SlotAlways, PermitsInit, PermitsStep, PTL DEF Spec
-----------------------------------------------------------------------------
(***************************************************************************)
(* Window edges.  A tick that drains a window keeps its window open: only  *)
(* the tick inside touches the track, so the close it announces has an     *)
(* open before it.                                                         *)
(***************************************************************************)
Draining == {"claim", "slot", "permit", "join"}

WindowHeld == \A k \in Tasks :
    task[k].pc \in Draining /\ task[k].kind = "window" => track.open

EdgeInv == WindowHeld /\ EdgesAlternate

LEMMA EdgeInit == Init => EdgeInv
BY DEF Init, EdgeInv, WindowHeld, EdgesAlternate, NoTick, NoTrack, Draining

LEMMA EdgeRests ==
    ASSUME EdgeInv, UNCHANGED track, ghost'.balance = ghost.balance,
           \A j \in Tasks : task'[j].pc \in Draining /\ task'[j].kind = "window"
                            => task[j].pc \in Draining /\ task[j].kind = "window"
    PROVE  EdgeInv'
BY DEF EdgeInv, WindowHeld, EdgesAlternate

\* The tick that is inside opens or shuts the window.
LEMMA EdgeMoves ==
    ASSUME SlotInv, EdgeInv, NEW k \in Tasks, task[k].pc \in Inside,
           task'[k].pc \in Draining /\ task'[k].kind = "window" => track'.open,
           \A j \in Tasks \ {k} : task'[j].pc = task[j].pc,
           ghost'.balance = IF track'.open THEN 1 ELSE 0
    PROVE  EdgeInv'
<1>1. \A j \in Tasks \ {k} : task'[j].pc \notin Draining
  BY DEF SlotInv, LockHeld, Inside, Draining
<1> QED BY <1>1 DEF EdgeInv, WindowHeld, EdgesAlternate

LEMMA EdgeGate ==
    ASSUME Typed, SlotInv, EdgeInv, NEW k \in Tasks, Gate(k)
    PROVE  EdgeInv'
<1> DEFINE now == task[k].now
           kind == admission(setting.mode, now, track.fire)
<1>1. /\ task[k].pc = "gate"
      /\ IF kind = "none" THEN EndTick(k) ELSE Admit(k, kind)
      /\ track' = Evaluated(now, kind) /\ Announce(now, kind)
  BY DEF Gate
<1>2. kind \in Kinds BY AdmissionType DEF Typed
<1> HIDE DEF kind
<1>3. track'.open = IF kind = "all" THEN track.open ELSE kind = "window"
  BY <1>1 DEF Evaluated
<1>4. /\ track.open \in BOOLEAN /\ ghost \in GhostType
      /\ ghost.balance = IF track.open THEN 1 ELSE 0
  BY DEF Typed, TrackType, EdgeInv, EdgesAlternate
<1>5. ghost'.balance =
        IF kind = "window" /\ ~track.open THEN ghost.balance + 1
        ELSE IF kind \in {"batch", "none"} /\ track.open THEN ghost.balance - 1
        ELSE ghost.balance
  BY <1>1, <1>4 DEF Announce, GhostType
<1>6. ghost'.balance = IF track'.open THEN 1 ELSE 0
  <2>1. CASE kind = "window"
    <3>1. track'.open = TRUE BY <1>3, <2>1
    <3>2. ghost'.balance = 1 BY <1>4, <1>5, <2>1
    <3> QED BY <3>1, <3>2
  <2>2. CASE kind = "all" BY <1>3, <1>4, <1>5, <2>2
  <2>3. CASE kind \in {"batch", "none"}
    <3>1. track'.open = FALSE BY <1>3, <2>3
    <3>2. ghost'.balance = 0 BY <1>4, <1>5, <2>3
    <3> QED BY <3>1, <3>2
  <2> QED BY <1>2, <2>1, <2>2, <2>3 DEF Kinds
<1>7. ASSUME NEW j \in Tasks \ {k} PROVE task'[j].pc = task[j].pc
  BY <1>1, EndTickDoes, AdmitDoes
<1>8. task'[k].pc \in Draining /\ task'[k].kind = "window" => track'.open
  <2>1. CASE kind = "none"
    BY <1>1, <2>1, EndTickDoes DEF NoTick, Draining
  <2>2. CASE kind # "none"
    <3>1. task'[k].kind = kind BY <1>1, <2>2, AdmitDoes
    <3> QED BY <1>3, <3>1
  <2> QED BY <2>1, <2>2
<1>9. task[k].pc \in Inside BY <1>1 DEF Inside
<1> QED BY <1>6, <1>7, <1>8, <1>9, EdgeMoves

\* A close in a batch.
LEMMA EdgeClose ==
    ASSUME Typed, SlotInv, EdgeInv, NEW k \in Tasks, Due(k), ShutTrack,
           ghost'.balance = ghost.balance - 1, task'[k].pc \notin Draining,
           \A j \in Tasks \ {k} : task'[j].pc = task[j].pc
    PROVE  EdgeInv'
<1>1. task[k].pc \in Inside BY DEF Due, Inside
<1>2. track.open BY DEF EdgeInv, WindowHeld, Due, Draining
<1>3. ghost.balance = 1 BY <1>2 DEF EdgeInv, EdgesAlternate
<1>4. track'.open = FALSE BY DEF ShutTrack, Typed, TrackType
<1> QED BY <1>1, <1>3, <1>4, EdgeMoves

LEMMA EdgeStep == Typed /\ SlotInv /\ EdgeInv /\ [Next]_vars => EdgeInv'
<1> SUFFICES ASSUME Typed, SlotInv, EdgeInv, [Next]_vars PROVE EdgeInv' OBVIOUS
<1>0. /\ NoTick.pc = "idle" /\ ghost \in GhostType
      /\ \A p \in {"idle", "check", "lock", "gate", "closing"} : p \notin Draining
      /\ \A p \in {"claim", "slot", "permit", "join"} : p \in Draining
  BY DEF NoTick, Draining, Typed
<1>1. CASE UNCHANGED vars BY <1>1, EdgeRests DEF vars
<1>2. ASSUME NEW k \in Tasks, Check(k) PROVE EdgeInv'
  BY <1>0, <1>2, GotoDoes, EndTickDoes, EdgeRests DEF Check
<1>3. ASSUME NEW k \in Tasks, GateForced(k) PROVE EdgeInv'
  BY <1>3, AdmitDoes, EdgeRests DEF GateForced
<1>4. ASSUME NEW k \in Tasks, Gate(k) PROVE EdgeInv' BY <1>4, EdgeGate
<1>5. ASSUME NEW k \in Tasks, Claim(k) PROVE EdgeInv'
  <2>1. ASSUME NEW j \in Tasks
        PROVE  /\ task'[j].pc = IF j = k THEN "slot" ELSE task[j].pc
               /\ task'[j].kind = task[j].kind
    BY <1>5 DEF Claim, Typed, TickType
  <2> QED BY <1>0, <1>5, <2>1, EdgeRests DEF Claim
<1>6. ASSUME NEW k \in Tasks, StopClaiming(k) PROVE EdgeInv'
  BY <1>0, <1>6, EndTickDoes, EdgeRests DEF StopClaiming
<1>7. ASSUME NEW k \in Tasks, NEW f \in Files, TakePermit(k, f) PROVE EdgeInv'
  <2>1. ASSUME NEW j \in Tasks
        PROVE  /\ j # k => task'[j].pc = task[j].pc
               /\ task'[j].kind = task[j].kind
    BY <1>7 DEF TakePermit, Typed, TickType
  <2> QED BY <1>0, <1>7, <2>1, EdgeRests DEF TakePermit
<1>8. ASSUME NEW k \in Tasks, Join(k) PROVE EdgeInv'
  BY <1>0, <1>8, EndTickDoes, GotoDoes, EdgeRests DEF Join
<1>9. ASSUME NEW k \in Tasks, CloseFinishing(k) PROVE EdgeInv'
  <2>1. ghost'.balance = ghost.balance - 1
    BY <1>0, <1>9 DEF CloseFinishing, GhostType
  <2> QED BY <1>0, <1>9, <2>1, GotoDoes, EdgeClose DEF CloseFinishing
<1>10. ASSUME NEW k \in Tasks, Closed(k) PROVE EdgeInv'
  BY <1>0, <1>10, EndTickDoes, EdgeRests DEF Closed
<1>11. ASSUME NEW k \in Tasks, ClosePausing(k) PROVE EdgeInv'
  <2>1. ghost'.balance = ghost.balance - 1
    BY <1>0, <1>11 DEF ClosePausing, GhostType
  <2> QED BY <1>0, <1>11, <2>1, EndTickDoes, EdgeClose DEF ClosePausing
<1>12. ASSUME NEW k \in Tasks, Discover(k) PROVE EdgeInv'
  BY <1>0, <1>12, GotoDoes, EdgeRests DEF Discover
<1>13. ASSUME NEW k \in Tasks, TakeGlobal(k) PROVE EdgeInv'
  BY <1>0, <1>13, GotoDoes, EdgeRests DEF TakeGlobal
<1>14. ASSUME NEW f \in Files, Finish(f) PROVE EdgeInv'
  BY <1>14, FinishGhost, EdgeRests DEF Finish
<1>15. ASSUME NEW f \in Files, Arrive(f) PROVE EdgeInv'
  BY <1>15, EdgeRests DEF Arrive
<1>16. CASE LoopCall
  <2>1. "loop" \in Tasks BY DEF Tasks
  <2>2. ASSUME NEW j \in Tasks
        PROVE  IF j = "loop" THEN task'[j].pc = "check" ELSE task'[j] = task[j]
    BY <1>16, <2>1, CallDoes DEF LoopCall
  <2> QED BY <1>0, <1>16, <2>1, <2>2, EdgeRests DEF LoopCall
<1>17. CASE OnTrigger
  <2>1. "trigger" \in Tasks BY DEF Tasks
  <2>2. ASSUME NEW j \in Tasks
        PROVE  IF j = "trigger" THEN task'[j].pc = "check" ELSE task'[j] = task[j]
    BY <1>17, <2>1, CallDoes DEF OnTrigger
  <2> QED BY <1>0, <1>17, <2>1, <2>2, EdgeRests DEF OnTrigger
<1>18. CASE OnSetActivation BY <1>18, EdgeRests DEF OnSetActivation
<1>19. CASE SetFlag
  <2>1. ghost'.balance = ghost.balance BY <1>0, <1>19 DEF SetFlag, GhostType
  <2> QED BY <1>19, <2>1, EdgeRests DEF SetFlag
<1>20. CASE OnFlip
  <2>1. ghost'.balance = ghost.balance BY <1>0, <1>20 DEF OnFlip, GhostType
  <2> QED BY <1>20, <2>1, EdgeRests DEF OnFlip
<1>21. CASE OnGetStatus BY <1>21, EdgeRests DEF OnGetStatus
<1>22. CASE Reply BY <1>22, EdgeRests DEF Reply
<1>23. CASE Elapse
  <2>1. ghost'.balance = ghost.balance BY <1>0, <1>23 DEF Elapse, GhostType
  <2> QED BY <1>23, <2>1, EdgeRests DEF Elapse
<1>24. CASE OtherTakes BY <1>24, EdgeRests DEF OtherTakes
<1>25. CASE OtherReturns BY <1>25, EdgeRests DEF OtherReturns
<1>26. CASE Crash
  <2>1. ghost'.balance = 0 BY <1>0, <1>26 DEF Crash, GhostType
  <2> QED BY <1>0, <1>26, <2>1
          DEF Crash, NoTrack, EdgeInv, WindowHeld, EdgesAlternate
<1>27. CASE Boot BY <1>27, EdgeRests DEF Boot
<1> QED
  BY <1>1, <1>2, <1>3, <1>4, <1>5, <1>6, <1>7, <1>8, <1>9, <1>10, <1>11, <1>12,
     <1>13, <1>14, <1>15, <1>16, <1>17, <1>18, <1>19, <1>20, <1>21, <1>22,
     <1>23, <1>24, <1>25, <1>26, <1>27
  DEF Next, TickStep

LEMMA EdgeWeakens == EdgeInv => EdgesAlternate
BY DEF EdgeInv

\* WindowOpened and WindowClosed alternate (evaluate_schedule and
\* run_batch_windowed).
THEOREM EdgesAlternateHolds == Spec => []EdgesAlternate
BY SlotAlways, EdgeInit, EdgeStep, EdgeWeakens, PTL DEF Spec
-----------------------------------------------------------------------------
(***************************************************************************)
(* The activation flag.  Between its two writes a command has stored what  *)
(* it is about to set.                                                     *)
(***************************************************************************)
FlagInv == (cmd # "idle" => stored = cmd) /\ ActivationAgrees

LEMMA FlagRests ==
    ASSUME FlagInv, UNCHANGED <<control, up>>, ghost'.flipped = ghost.flipped
    PROVE  FlagInv'
BY DEF FlagInv, ActivationAgrees, Effective, control

LEMMA FlagStep == Typed /\ FlagInv /\ [Next]_vars => FlagInv'
<1> SUFFICES ASSUME Typed, FlagInv, [Next]_vars PROVE FlagInv' OBVIOUS
<1>0. ghost \in GhostType BY DEF Typed
<1>1. CASE UNCHANGED vars BY <1>1, FlagRests DEF vars, control
<1>2. ASSUME NEW k \in Tasks, TickStep(k) PROVE FlagInv'
  <2>1. UNCHANGED <<control, up>>
    BY <1>2 DEF TickStep, Check, GateForced, Gate, Claim, StopClaiming,
       TakePermit, Join, CloseFinishing, Closed, ClosePausing
  <2>2. ghost'.flipped = ghost.flipped
    BY <1>0, <1>2
    DEF TickStep, Check, GateForced, Gate, Claim, StopClaiming, TakePermit,
        Join, CloseFinishing, Closed, ClosePausing, Announce, GhostType
  <2> QED BY <2>1, <2>2, FlagRests
<1>3. ASSUME NEW k \in Tasks, Discover(k) \/ TakeGlobal(k) PROVE FlagInv'
  BY <1>3, FlagRests DEF Discover, TakeGlobal
<1>4. ASSUME NEW f \in Files, Finish(f) \/ Arrive(f) PROVE FlagInv'
  BY <1>4, FinishGhost, FlagRests DEF Finish, Arrive
<1>5. CASE LoopCall \/ OnTrigger \/ OnGetStatus \/ Reply \/ OtherTakes
           \/ OtherReturns
  BY <1>5, FlagRests
  DEF LoopCall, OnTrigger, OnGetStatus, Reply, OtherTakes, OtherReturns
<1>6. CASE OnSetActivation
  BY <1>6
  DEF OnSetActivation, Persist, FlagInv, ActivationAgrees, Effective, Overrides
<1>7. CASE SetFlag
  <2>1. stored = cmd BY <1>7 DEF SetFlag, FlagInv
  <2> QED BY <1>7, <2>1 DEF SetFlag, FlagInv, ActivationAgrees, Effective
<1>8. CASE OnFlip
  <2>1. ghost'.flipped BY <1>0, <1>8 DEF OnFlip, GhostType
  <2> QED BY <1>8, <2>1 DEF OnFlip, FlagInv, ActivationAgrees
<1>9. CASE Elapse
  <2>1. ghost'.flipped = ghost.flipped BY <1>0, <1>9 DEF Elapse, GhostType
  <2> QED BY <1>9, <2>1, FlagRests DEF Elapse
<1>10. CASE Crash BY <1>10 DEF Crash, FlagInv, ActivationAgrees
<1>11. CASE Boot BY <1>11 DEF Boot, FlagInv, ActivationAgrees, Effective
<1> QED BY <1>1, <1>2, <1>3, <1>4, <1>5, <1>6, <1>7, <1>8, <1>9, <1>10, <1>11
        DEF Next

LEMMA FlagInit == Init => FlagInv
BY DEF Init, FlagInv, ActivationAgrees, Effective

LEMMA FlagWeakens == FlagInv => ActivationAgrees
BY DEF FlagInv

\* The flag agrees with the row a restart loads (set_activation,
\* clear_activation and load_activation).
THEOREM ActivationAgreesHolds == Spec => []ActivationAgrees
BY TypedAlways, FlagInit, FlagStep, FlagWeakens, PTL DEF Spec
-----------------------------------------------------------------------------
(***************************************************************************)
(* Rows.  NoStranded needs that what runs, what waits for a slot and what  *)
(* a store fault stranded are three different sets of items.               *)
(***************************************************************************)
Owned(f) == \/ f \in running \/ f \in ghost.stranded
            \/ \E k \in Tasks : f \in task[k].batch

RowsOwned == up => \A f \in Files : state[f] = "inprogress" <=> Owned(f)
Apart == \A f \in ghost.stranded :
           f \notin running /\ \A k \in Tasks : f \notin task[k].batch
NoneWhenDown == ~up => running = {} /\ ghost.stranded = {}

RowInv == RowsOwned /\ Apart /\ NoneWhenDown

LEMMA RowWeakens == Typed /\ RowInv => NoStranded
<1> SUFFICES ASSUME Typed, RowInv, up
             PROVE  In("inprogress") = running \cup ghost.stranded
                                       \cup UNION {task[k].batch : k \in Tasks}
  BY DEF NoStranded
<1>1. \A f \in Files : f \in In("inprogress") <=> Owned(f)
  BY DEF RowInv, RowsOwned, In
<1>2. /\ running \in SUBSET Files /\ ghost.stranded \in SUBSET Files
      /\ \A k \in Tasks : task[k].batch \in SUBSET Files
      /\ In("inprogress") \in SUBSET Files
  BY DEF Typed, GhostType, TickType, In
<1> QED BY <1>1, <1>2 DEF Owned

LEMMA RowInit == Init => RowInv
BY DEF Init, RowInv, RowsOwned, Apart, NoneWhenDown, Owned, NoTick

\* Steps that take or return no item.
LEMMA RowRests ==
    ASSUME RowInv, UNCHANGED <<up, running>>, ghost'.stranded = ghost.stranded,
           \A f \in Files : state'[f] = "inprogress" <=> state[f] = "inprogress",
           \A k \in Tasks : task'[k].batch = task[k].batch
    PROVE  RowInv'
<1>1. RowsOwned' BY DEF RowInv, RowsOwned, Owned
<1>2. Apart' BY DEF RowInv, Apart
<1>3. NoneWhenDown' BY DEF RowInv, NoneWhenDown
<1> QED BY <1>1, <1>2, <1>3 DEF RowInv

\* A tick that is not waiting for slots, and ends.
LEMMA BatchEmpty ==
    ASSUME Typed, SlotInv, NEW k \in Tasks, task[k].pc \notin Waiting, EndTick(k)
    PROVE  \A j \in Tasks : task'[j].batch = task[j].batch
<1> SUFFICES ASSUME NEW j \in Tasks PROVE task'[j].batch = task[j].batch OBVIOUS
<1>1. task[k].batch = {} BY DEF SlotInv, BatchFits
<1>2. task'[j] = IF j = k THEN NoTick ELSE task[j] BY EndTickDoes
<1> QED BY <1>1, <1>2 DEF NoTick

\* Only the tick inside has a batch.
LEMMA BatchAlone ==
    ASSUME SlotInv, NEW k \in Tasks, task[k].pc \in Inside,
           NEW j \in Tasks \ {k}
    PROVE  task[j].batch = {}
BY DEF SlotInv, LockHeld, BatchFits, Inside, Waiting

LEMMA RowClaim ==
    ASSUME Typed, SlotInv, RowInv, NEW k \in Tasks, Claim(k)
    PROVE  RowInv'
<1>1. PICK b \in SUBSET In("ready") :
         /\ state' = To(b, "inprogress")
         /\ task' = [task EXCEPT ![k].pc = "slot", ![k].batch = b]
  BY DEF Claim
<1>2. task[k].pc = "claim" /\ UNCHANGED <<up, running, ghost>>
  BY DEF Claim, places
<1>3. ASSUME NEW j \in Tasks
      PROVE  task'[j].batch = IF j = k THEN b ELSE task[j].batch
  BY <1>1 DEF Typed, TickType
<1>4. task[k].batch = {} /\ up
  BY <1>2 DEF SlotInv, BatchFits, AtRest, Waiting
<1>5. \A f \in b : f \in Files /\ state[f] = "ready" BY DEF In
<1>6. \A f \in Files : state'[f] = IF f \in b THEN "inprogress" ELSE state[f]
  BY <1>1 DEF To
<1>7. ASSUME NEW f \in Files PROVE (state[f] = "inprogress" <=> Owned(f))'
  <2>1. state[f] = "inprogress" <=> Owned(f) BY <1>4 DEF RowInv, RowsOwned
  <2>2. Owned(f)' <=> f \in b \/ Owned(f)
    BY <1>2, <1>3, <1>4 DEF Owned
  <2> QED BY <1>6, <2>1, <2>2
<1>8. \A f \in ghost.stranded : f \in Files /\ state[f] = "inprogress"
  BY <1>4 DEF RowInv, RowsOwned, Owned, Typed, GhostType
<1>9. Apart' BY <1>2, <1>3, <1>5, <1>8 DEF RowInv, Apart
<1>10. RowsOwned' BY <1>7 DEF RowsOwned
<1>11. NoneWhenDown' BY <1>2, <1>4 DEF NoneWhenDown
<1> QED BY <1>9, <1>10, <1>11 DEF RowInv

LEMMA RowTakePermit ==
    ASSUME Typed, SlotInv, RowInv, NEW k \in Tasks, NEW f \in Files,
           TakePermit(k, f)
    PROVE  RowInv'
<1>1. /\ task[k].pc = "permit" /\ f \in task[k].batch
      /\ running' = running \cup {f} /\ UNCHANGED <<up, state, ghost>>
  BY DEF TakePermit
<1>2. ASSUME NEW j \in Tasks
      PROVE  task'[j].batch = IF j = k THEN task[j].batch \ {f} ELSE task[j].batch
  BY DEF TakePermit, Typed, TickType
<1>3. up BY <1>1 DEF SlotInv, AtRest
<1>4. ASSUME NEW g \in Files PROVE Owned(g)' <=> Owned(g)
  BY <1>1, <1>2 DEF Owned
<1>5. RowsOwned' BY <1>1, <1>4 DEF RowInv, RowsOwned
<1>6. Apart' BY <1>1, <1>2 DEF RowInv, Apart
<1>7. NoneWhenDown' BY <1>1, <1>3 DEF NoneWhenDown
<1> QED BY <1>5, <1>6, <1>7 DEF RowInv

LEMMA RowFinish ==
    ASSUME Typed, SlotInv, RowInv, NEW f \in Files, Finish(f)
    PROVE  RowInv'
<1>1. /\ f \in running /\ running' = running \ {f}
      /\ UNCHANGED <<up, task>>
  BY DEF Finish
<1>2. \A k \in Tasks : f \notin task[k].batch
  BY <1>1 DEF SlotInv, BatchFits, Fits
<1>3. f \notin ghost.stranded BY <1>1 DEF RowInv, Apart
<1>4. up BY <1>1 DEF RowInv, NoneWhenDown
<1>5. NoneWhenDown' BY <1>1, <1>4 DEF NoneWhenDown
<1>6. CASE UNCHANGED ghost /\ \E s \in {"done", "failed"} : state' = To({f}, s)
  <2>1. /\ \A g \in Files \ {f} : state'[g] = state[g]
        /\ state'[f] # "inprogress"
    BY <1>6 DEF To
  <2>2. ASSUME NEW g \in Files PROVE Owned(g)' <=> Owned(g) /\ g # f
    BY <1>1, <1>2, <1>3, <1>6 DEF Owned
  <2>3. RowsOwned' BY <1>1, <2>1, <2>2 DEF RowInv, RowsOwned
  <2>4. Apart' BY <1>1, <1>6 DEF RowInv, Apart
  <2> QED BY <1>5, <2>3, <2>4 DEF RowInv
<1>7. CASE /\ ghost'.stranded = ghost.stranded \cup {f} /\ UNCHANGED state
  <2>1. ASSUME NEW g \in Files PROVE Owned(g)' <=> Owned(g)
    BY <1>1, <1>7 DEF Owned
  <2>2. RowsOwned' BY <1>1, <1>7, <2>1 DEF RowInv, RowsOwned
  <2>3. Apart' BY <1>1, <1>2, <1>7 DEF RowInv, Apart
  <2> QED BY <1>5, <2>2, <2>3 DEF RowInv
<1>8. \/ UNCHANGED ghost /\ \E s \in {"done", "failed"} : state' = To({f}, s)
      \/ /\ ghost' = [ghost EXCEPT !.stranded = ghost.stranded \cup {f}]
         /\ UNCHANGED state
  BY DEF Finish
<1>9. ghost \in GhostType /\ ghost.stranded \cup {f} \in SUBSET Files
  BY DEF Typed, GhostType
<1> QED BY <1>6, <1>7, <1>8, <1>9, GhostStranded

LEMMA RowPausing ==
    ASSUME Typed, SlotInv, RowInv, NEW k \in Tasks, ClosePausing(k)
    PROVE  RowInv'
<1>1. PICK through \in SUBSET running, stuck \in SUBSET running :
         /\ state' = Reverted(through, stuck)
         /\ ghost' = [ghost EXCEPT !.balance = @ - 1, !.stranded = @ \cup stuck]
  BY DEF ClosePausing
<1>2. /\ task[k].pc = "join" /\ EndTick(k) /\ running' = {} /\ UNCHANGED up
  BY DEF ClosePausing, Due
<1>3. ghost'.stranded = ghost.stranded \cup stuck
  BY <1>1 DEF Typed, GhostType
<1>4. \A j \in Tasks : task'[j].batch = task[j].batch
  BY <1>2, BatchEmpty DEF Waiting
<1>5. \A j \in Tasks : task[j].batch = {}
  <2>1. task[k].batch = {} BY <1>2 DEF SlotInv, BatchFits, Waiting
  <2>2. task[k].pc \in Inside BY <1>2 DEF Inside
  <2> QED BY <2>1, <2>2, BatchAlone
<1>6. up BY <1>2 DEF SlotInv, AtRest
<1>7. ASSUME NEW f \in Files
      PROVE  state'[f] = "inprogress"
             <=> state[f] = "inprogress" /\ (f \notin running \/ f \in stuck)
  BY <1>1 DEF Reverted
<1>8. ASSUME NEW f \in Files PROVE (state[f] = "inprogress" <=> Owned(f))'
  <2>1. state[f] = "inprogress" <=> Owned(f) BY <1>6 DEF RowInv, RowsOwned
  <2>2. Owned(f) <=> f \in running \/ f \in ghost.stranded BY <1>5 DEF Owned
  <2>3. Owned(f)' <=> f \in ghost.stranded \/ f \in stuck
    BY <1>2, <1>3, <1>4, <1>5 DEF Owned
  <2>4. f \in ghost.stranded => f \notin running BY DEF RowInv, Apart
  <2> QED BY <1>7, <2>1, <2>2, <2>3, <2>4
<1>9. RowsOwned' BY <1>8 DEF RowsOwned
<1>10. Apart' BY <1>2, <1>4, <1>5 DEF Apart
<1>11. NoneWhenDown' BY <1>2, <1>6 DEF NoneWhenDown
<1> QED BY <1>9, <1>10, <1>11 DEF RowInv

LEMMA RowStep == Typed /\ SlotInv /\ RowInv /\ [Next]_vars => RowInv'
<1> SUFFICES ASSUME Typed, SlotInv, RowInv, [Next]_vars PROVE RowInv' OBVIOUS
<1> USE DEF places
<1>0. ghost \in GhostType BY DEF Typed
<1>1. CASE UNCHANGED vars BY <1>1, RowRests DEF vars
<1>2. ASSUME NEW k \in Tasks, Check(k) PROVE RowInv'
  BY <1>2, GotoDoes, BatchEmpty, RowRests DEF Check, Waiting
<1>3. ASSUME NEW k \in Tasks, GateForced(k) PROVE RowInv'
  BY <1>3, AdmitDoes, RowRests DEF GateForced
<1>4. ASSUME NEW k \in Tasks, Gate(k) PROVE RowInv'
  <2>1. /\ task[k].pc = "gate" /\ UNCHANGED <<up, running, state>>
        /\ EndTick(k) \/ \E kind : Admit(k, kind)
    BY <1>4 DEF Gate
  <2>2. ghost'.stranded = ghost.stranded
    BY <1>0, <1>4 DEF Gate, Announce, GhostType
  <2>3. CASE EndTick(k) BY <2>1, <2>2, <2>3, BatchEmpty, RowRests DEF Waiting
  <2>4. ASSUME NEW kind, Admit(k, kind) PROVE RowInv'
    BY <2>1, <2>2, <2>4, AdmitDoes, RowRests
  <2> QED BY <2>1, <2>3, <2>4
<1>5. ASSUME NEW k \in Tasks, Claim(k) PROVE RowInv' BY <1>5, RowClaim
<1>6. ASSUME NEW k \in Tasks, StopClaiming(k) PROVE RowInv'
  BY <1>6, BatchEmpty, RowRests DEF StopClaiming, Waiting
<1>7. ASSUME NEW k \in Tasks, NEW f \in Files, TakePermit(k, f) PROVE RowInv'
  BY <1>7, RowTakePermit
<1>8. ASSUME NEW k \in Tasks, Join(k) PROVE RowInv'
  BY <1>8, GotoDoes, BatchEmpty, RowRests DEF Join, Waiting
<1>9. ASSUME NEW k \in Tasks, CloseFinishing(k) PROVE RowInv'
  <2>1. ghost'.stranded = ghost.stranded
    BY <1>0, <1>9 DEF CloseFinishing, GhostType
  <2> QED BY <1>9, <2>1, GotoDoes, RowRests DEF CloseFinishing
<1>10. ASSUME NEW k \in Tasks, Closed(k) PROVE RowInv'
  BY <1>10, BatchEmpty, RowRests DEF Closed, Waiting
<1>11. ASSUME NEW k \in Tasks, ClosePausing(k) PROVE RowInv'
  BY <1>11, RowPausing
<1>12. ASSUME NEW k \in Tasks, Discover(k) PROVE RowInv'
  <2>1. \A f \in Files : state'[f] = "inprogress" <=> state[f] = "inprogress"
    BY <1>12 DEF Discover, To, In
  <2> QED BY <1>12, <2>1, GotoDoes, RowRests DEF Discover
<1>13. ASSUME NEW k \in Tasks, TakeGlobal(k) PROVE RowInv'
  BY <1>13, GotoDoes, RowRests DEF TakeGlobal
<1>14. ASSUME NEW f \in Files, Finish(f) PROVE RowInv' BY <1>14, RowFinish
<1>15. ASSUME NEW f \in Files, Arrive(f) PROVE RowInv'
  <2>1. \A g \in Files : state'[g] = "inprogress" <=> state[g] = "inprogress"
    BY <1>15 DEF Arrive, Typed
  <2> QED BY <1>15, <2>1, RowRests DEF Arrive
<1>16. ASSUME NEW k \in Tasks, NEW f, Call(k, f), task[k].pc = "idle",
              UNCHANGED <<up, running, ghost, state>>
       PROVE  RowInv'
  <2>1. task[k].batch = {} BY <1>16 DEF SlotInv, BatchFits, Waiting
  <2>2. ASSUME NEW j \in Tasks PROVE task'[j].batch = task[j].batch
    BY <1>16, <2>1, CallDoes
  <2> QED BY <1>16, <2>2, RowRests
<1>17. CASE LoopCall BY <1>16, <1>17 DEF LoopCall, Tasks
<1>18. CASE OnTrigger BY <1>16, <1>18 DEF OnTrigger, Tasks
<1>19. CASE SetFlag
  <2>1. ghost'.stranded = ghost.stranded BY <1>0, <1>19 DEF SetFlag, GhostType
  <2> QED BY <1>19, <2>1, RowRests DEF SetFlag
<1>20. CASE OnFlip
  <2>1. ghost'.stranded = ghost.stranded BY <1>0, <1>20 DEF OnFlip, GhostType
  <2> QED BY <1>20, <2>1, RowRests DEF OnFlip
<1>21. CASE OnSetActivation BY <1>21, RowRests DEF OnSetActivation
<1>22. CASE OnGetStatus \/ Reply BY <1>22, RowRests DEF OnGetStatus, Reply
<1>23. CASE Elapse
  <2>1. ghost'.stranded = ghost.stranded BY <1>0, <1>23 DEF Elapse, GhostType
  <2> QED BY <1>23, <2>1, RowRests DEF Elapse
<1>24. CASE OtherTakes \/ OtherReturns
  BY <1>24, RowRests DEF OtherTakes, OtherReturns
<1>25. CASE Crash
  <2>1. ghost'.stranded = {} BY <1>0, <1>25 DEF Crash, GhostType
  <2> QED BY <1>25, <2>1 DEF Crash, RowInv, RowsOwned, Apart, NoneWhenDown
<1>26. CASE Boot
  <2>1. /\ ~up /\ up' = TRUE /\ state' = To(In("inprogress"), "ready")
        /\ UNCHANGED <<task, running, ghost>>
    BY <1>26 DEF Boot
  <2>2. running = {} /\ ghost.stranded = {} BY <2>1 DEF RowInv, NoneWhenDown
  <2>3. \A k \in Tasks : task[k].batch = {}
    BY <2>1 DEF SlotInv, AtRest, BatchFits, Waiting
  <2>4. \A f \in Files : state'[f] # "inprogress" BY <2>1 DEF To, In
  <2>5. RowsOwned' BY <2>1, <2>2, <2>3, <2>4 DEF RowsOwned, Owned
  <2> QED BY <2>1, <2>2, <2>5 DEF RowInv, Apart, NoneWhenDown
<1> QED
  BY <1>1, <1>2, <1>3, <1>4, <1>5, <1>6, <1>7, <1>8, <1>9, <1>10, <1>11, <1>12,
     <1>13, <1>14, <1>15, <1>17, <1>18, <1>19, <1>20, <1>21, <1>22, <1>23,
     <1>24, <1>25, <1>26
  DEF Next, TickStep

LEMMA RowAlways == Spec => [](Typed /\ SlotInv /\ RowInv)
BY SlotAlways, RowInit, RowStep, PTL DEF Spec

\* A row is InProgress only under a tick that claimed it, or because a store
\* fault left it so (claim_ready, pause_revert and recover).
THEOREM NoStrandedHolds == Spec => []NoStranded
BY RowAlways, RowWeakens, PTL
-----------------------------------------------------------------------------
(***************************************************************************)
(* Reports.  What was listed when the command came and neither went back   *)
(* nor through since is in a list that was read, or in one still to come.  *)
(***************************************************************************)
Missing == report.asked \ (report.moved \cup report.seen)

ReportInv ==
    /\ report.pc = "ready" => Missing \subseteq In("inprogress") \cup In("failed")
    /\ report.pc = "inprogress" => Missing \subseteq In("failed")
    /\ report.pc = "failed" => Missing = {}
    /\ ~up => report.pc = "none"

LEMMA ReportWeakens == ReportInv => NothingMissed
BY DEF ReportInv, NothingMissed, Missing

LEMMA ReportInit == Init => ReportInv
BY DEF Init, ReportInv, NoReport

\* Items only go forward, or are counted as moved.
LEMMA ReportRests ==
    ASSUME Typed, ReportInv, up' = up,
           NEW F \in SUBSET Files, Moved(F) \/ (F = {} /\ UNCHANGED report),
           \A f \in Files \ F :
             /\ state[f] = "inprogress" => state'[f] \in {"inprogress", "failed"}
             /\ state[f] = "failed" => state'[f] = "failed"
    PROVE  ReportInv'
<1>1. CASE report.pc = "none" BY <1>1 DEF ReportInv, Moved
<1>2. CASE report.pc # "none"
  <2>1. /\ report'.pc = report.pc /\ report'.asked = report.asked
        /\ report'.seen = report.seen /\ report'.moved = report.moved \cup F
    BY <1>2 DEF Moved, Typed, ReportType
  <2>2. Missing' = Missing \ F BY <2>1 DEF Missing
  <2>3. \A f \in In("inprogress") \cup In("failed") :
          f \notin F => f \in (In("inprogress") \cup In("failed"))'
    BY DEF In
  <2>4. \A f \in In("failed") : f \notin F => f \in In("failed")' BY DEF In
  <2> QED BY <2>1, <2>2, <2>3, <2>4 DEF ReportInv
<1> QED BY <1>1, <1>2

LEMMA ReportReads == ASSUME Typed, ReportInv, OnGetStatus PROVE ReportInv'
<1>1. PICK r \in Reads :
         /\ report.pc = r[1]
         /\ report' = [report EXCEPT !.pc = r[2], !.seen = @ \cup In(r[2]),
              !.asked = IF r[1] = "none" THEN Listed ELSE @]
  BY DEF OnGetStatus
<1>2. /\ report'.pc = r[2] /\ report'.seen = report.seen \cup In(r[2])
      /\ report'.asked = IF r[1] = "none" THEN Listed ELSE report.asked
      /\ report'.moved = report.moved
  BY <1>1 DEF Typed, ReportType
<1>3. UNCHANGED state /\ up /\ up' BY DEF OnGetStatus
<1>4. CASE r = <<"none", "ready">>
  BY <1>2, <1>3, <1>4 DEF ReportInv, Missing, Listed, In
<1>5. CASE r = <<"ready", "inprogress">>
  BY <1>1, <1>2, <1>3, <1>5 DEF ReportInv, Missing, In
<1>6. CASE r = <<"inprogress", "failed">>
  BY <1>1, <1>2, <1>3, <1>6 DEF ReportInv, Missing, In
<1> QED BY <1>4, <1>5, <1>6 DEF Reads

LEMMA ReportStep ==
    Typed /\ SlotInv /\ RowInv /\ ReportInv /\ [Next]_vars => ReportInv'
<1> SUFFICES ASSUME Typed, SlotInv, RowInv, ReportInv, [Next]_vars
             PROVE  ReportInv'
  OBVIOUS
<1>0. {} \in SUBSET Files OBVIOUS
<1>1. ASSUME UNCHANGED <<up, state, report>> PROVE ReportInv'
  BY <1>0, <1>1, ReportRests
<1>2. CASE UNCHANGED vars BY <1>1, <1>2 DEF vars
<1>3. ASSUME NEW k \in Tasks, TickStep(k) PROVE ReportInv'
  <2>1. CASE Claim(k)
    <3>1. \A f \in Files : state[f] # "ready" => state'[f] = state[f]
      BY <2>1 DEF Claim, To, In
    <3> QED BY <1>0, <2>1, <3>1, ReportRests DEF Claim
  <2>2. CASE ClosePausing(k)
    <3>1. /\ \A f \in Files \ running : state'[f] = state[f]
          /\ Moved(running) /\ UNCHANGED up /\ running \in SUBSET Files
      BY <2>2 DEF ClosePausing, Reverted, Typed
    <3> QED BY <3>1, ReportRests
  <2>3. CASE Check(k) \/ GateForced(k) \/ Gate(k) \/ StopClaiming(k)
             \/ (\E f \in Files : TakePermit(k, f)) \/ Join(k)
             \/ CloseFinishing(k) \/ Closed(k)
    BY <1>1, <2>3 DEF Check, GateForced, Gate, StopClaiming, TakePermit, Join,
       CloseFinishing, Closed
  <2> QED BY <1>3, <2>1, <2>2, <2>3 DEF TickStep
<1>4. ASSUME NEW k \in Tasks, Discover(k) PROVE ReportInv'
  <2>1. PICK due \in SUBSET In("failed") :
           state' = To(In("spooled") \cup due, "ready") /\ Moved(due)
    BY <1>4 DEF Discover
  <2>2. due \in SUBSET Files /\ UNCHANGED up BY <1>4 DEF In, Discover
  <2>3. \A f \in Files \ due : state[f] # "spooled" => state'[f] = state[f]
    BY <2>1 DEF To, In
  <2> QED BY <2>1, <2>2, <2>3, ReportRests
<1>5. ASSUME NEW k \in Tasks, TakeGlobal(k) PROVE ReportInv'
  BY <1>1, <1>5 DEF TakeGlobal
<1>6. ASSUME NEW f \in Files, Finish(f) PROVE ReportInv'
  <2>1. f \in running /\ UNCHANGED up BY <1>6 DEF Finish
  <2>2. \A g \in Files \ {f} : state'[g] = state[g] BY <1>6 DEF Finish, To
  <2>3. CASE state' = To({f}, "done") /\ Moved({f})
    BY <2>1, <2>2, <2>3, ReportRests
  <2>4. CASE state' = To({f}, "failed") /\ UNCHANGED report
    <3>1. state'[f] = "failed" BY <2>4 DEF To
    <3> QED BY <1>0, <2>1, <2>2, <2>4, <3>1, ReportRests
  <2>5. CASE UNCHANGED <<state, report>> BY <1>1, <2>1, <2>5
  <2> QED BY <1>6, <2>3, <2>4, <2>5 DEF Finish
<1>7. ASSUME NEW f \in Files, Arrive(f) PROVE ReportInv'
  <2>1. \A g \in Files : state[g] # "absent" => state'[g] = state[g]
    BY <1>7 DEF Arrive, Typed
  <2> QED BY <1>0, <1>7, <2>1, ReportRests DEF Arrive
<1>8. CASE LoopCall \/ OnTrigger \/ OnSetActivation \/ SetFlag \/ OnFlip
           \/ Elapse \/ OtherTakes \/ OtherReturns
  BY <1>1, <1>8 DEF LoopCall, OnTrigger, OnSetActivation, SetFlag, OnFlip,
     Elapse, OtherTakes, OtherReturns
<1>9. CASE OnGetStatus BY <1>9, ReportReads
<1>10. CASE Reply \/ Crash
  BY <1>10 DEF Reply, Crash, ReportInv, NoReport
<1>11. CASE Boot
  BY <1>11 DEF Boot, ReportInv
<1> QED BY <1>2, <1>3, <1>4, <1>5, <1>6, <1>7, <1>8, <1>9, <1>10, <1>11 DEF Next

\* get-status misses nothing that only went forward while it read
\* (instance_state_snapshot).
THEOREM NothingMissedHolds == Spec => []NothingMissed
BY RowAlways, ReportInit, ReportStep, ReportWeakens, PTL DEF Spec
-----------------------------------------------------------------------------
(***************************************************************************)
(* Claims in a window.  A tick's reading of the clock is not ahead of it,  *)
(* and a window that is open at the reading and not yet at its close is    *)
(* open now: later opens only prolong it.                                  *)
(***************************************************************************)
\* A set of instants has a last member.
LEMMA LastOf ==
    ASSUME NEW S, S \subseteq Instants, S # {}
    PROVE  Latest(S) \in S /\ \A u \in S : u <= Latest(S)
<1> DEFINE Rel == OpToRel(<, Nat)
           D == {Horizon - u : u \in S}
<1>0. Horizon \in Nat /\ \A u \in S : u \in Nat /\ u <= Horizon
  BY ScheduleAssumption DEF Instants
<1>1. IsWellFoundedOn(Rel, Nat) BY NatLessThanWellFounded
<1>2. D \subseteq Nat /\ D # {} BY <1>0
<1> HIDE DEF Rel, D
<1>3. PICK d \in D : \A e \in D : ~(<<e, d>> \in Rel)
  BY <1>1, <1>2, WFMin
<1>4. \A e \in D : d <= e
  <2>1. \A x, y \in Nat : x < y => <<x, y>> \in Rel BY DEF Rel, OpToRel
  <2>2. ASSUME NEW e \in D PROVE d <= e
    <3>1. e \in Nat /\ d \in Nat BY <1>2
    <3>2. ~(e < d) BY <1>3, <2>1, <3>1
    <3> QED BY <3>1, <3>2
  <2> QED BY <2>2
<1>5. PICK t \in S : d = Horizon - t BY DEF D
<1>6. \A u \in S : u <= t
  <2> SUFFICES ASSUME NEW u \in S PROVE u <= t OBVIOUS
  <2>1. Horizon - u \in D BY DEF D
  <2>2. Horizon - t <= Horizon - u BY <1>4, <1>5, <2>1
  <2> QED BY <1>0, <2>2
<1>7. Latest(S) = CHOOSE x \in S : \A u \in S : u <= x
  BY <1>5, <1>6 DEF Latest
<1> QED BY <1>6, <1>7

\* A window that is open at n is open until its close.
LEMMA StaysOpen ==
    ASSUME NEW n \in Nat, NEW t \in Nat, n <= t, t < window_until(n)
    PROVE  window_until(t) # None
<1> DEFINE o == prev_fire(Opens, n)
           p == prev_fire(Opens, t)
           c == close_after(o)
<1>0. /\ Opens \subseteq Instants /\ Closes \subseteq Instants /\ Duration \in Nat
      /\ \A u \in Instants : u \in Nat /\ u # None
      /\ None = 0
  BY ScheduleAssumption DEF Instants, None
<1>1. /\ o # None /\ window_until(n) = c /\ t < c
  BY <1>0 DEF window_until
<1>2. o \in Opens /\ o <= n
  BY <1>0, <1>1, EndsOf DEF prev_fire
<1>3. p \in Opens /\ p <= t /\ o <= p
  <2>1. o \in {u \in Opens : u <= t} BY <1>0, <1>2
  <2>2. {u \in Opens : u <= t} \subseteq Instants BY <1>0
  <2> QED BY <2>1, <2>2, LastOf DEF prev_fire
<1>4. t < close_after(p)
  <2>1. CASE Duration > 0 BY <1>0, <1>1, <1>2, <1>3, <2>1 DEF close_after
  <2>2. CASE ~(Duration > 0)
    <3> DEFINE A == {u \in Closes : u >= o}
               B == {u \in Closes : u >= p}
    <3>1. c = Earliest(A) /\ close_after(p) = Earliest(B)
      BY <2>2 DEF close_after, next_fire_inclusive
    <3>2. c # None BY <1>0, <1>1
    <3>3. c \in A /\ \A u \in A : c <= u
      <4>1. \E x \in A : \A u \in A : x <= u BY <3>1, <3>2 DEF Earliest
      <4>2. c = CHOOSE x \in A : \A u \in A : x <= u
        BY <3>1, <4>1 DEF Earliest
      <4> HIDE DEF c
      <4> QED BY <4>1, <4>2
    <3> HIDE DEF c
    <3>4. c \in B /\ \A u \in B : c <= u
      BY <1>0, <1>1, <1>2, <1>3, <3>3
    <3>5. \A x \in B : (\A u \in B : x <= u) => x = c
      BY <1>0, <3>4
    <3>6. Earliest(B) = c BY <3>4, <3>5 DEF Earliest
    <3> QED BY <1>1, <3>1, <3>6
  <2> QED BY <2>1, <2>2
<1>5. p # None BY <1>0, <1>3
<1>6. close_after(p) # None
  BY <1>0, <1>4
<1> QED BY <1>4, <1>5, <1>6 DEF window_until

\* A tick that was called has read the clock, and is not ahead of it.
NowInv == \A k \in Tasks : /\ task[k].now <= clock
                           /\ task[k].pc # "idle" => task[k].now # None

LEMMA NowInit == Init => NowInv
BY ScheduleAssumption DEF Init, NowInv, NoTick, None

LEMMA NowStep == Typed /\ NowInv /\ [Next]_vars => NowInv'
<1> SUFFICES ASSUME Typed, NowInv, [Next]_vars PROVE NowInv' OBVIOUS
<1>0. /\ clock \in Nat /\ \A k \in Tasks : task[k].now \in Nat
      /\ clock # None /\ NoTick.now = 0 /\ NoTick.pc = "idle"
  BY ScheduleAssumption DEF Typed, TickType, Instants, NoTick, None
<1>1. ASSUME UNCHANGED clock,
             \A k \in Tasks :
               \/ /\ task'[k].now = task[k].now
                  /\ task[k].pc = "idle" => task'[k].pc = "idle"
               \/ task'[k].now = clock \/ task'[k] = NoTick
      PROVE  NowInv'
  <2>1. ASSUME NEW k \in Tasks
        PROVE  /\ task'[k].now <= clock'
               /\ task'[k].pc # "idle" => task'[k].now # None
    <3>1. CASE task'[k].now = task[k].now
               /\ (task[k].pc = "idle" => task'[k].pc = "idle")
      BY <1>1, <3>1 DEF NowInv
    <3>2. CASE task'[k].now = clock BY <1>0, <1>1, <3>2
    <3>3. CASE task'[k] = NoTick BY <1>0, <1>1, <3>3
    <3> QED BY <1>1, <3>1, <3>2, <3>3
  <2> QED BY <2>1 DEF NowInv
<1>2. ASSUME UNCHANGED <<clock, task>> PROVE NowInv' BY <1>1, <1>2
<1>3. CASE UNCHANGED vars BY <1>2, <1>3 DEF vars
<1>4. ASSUME NEW k \in Tasks, EndTick(k), UNCHANGED clock PROVE NowInv'
  <2>1. ASSUME NEW j \in Tasks PROVE task'[j] = task[j] \/ task'[j] = NoTick
    BY <1>4, EndTickDoes
  <2> QED BY <1>1, <1>4, <2>1
<1>5. ASSUME NEW k \in Tasks, NEW p, Goto(k, p) \/ Admit(k, p),
             task[k].pc # "idle", UNCHANGED clock
      PROVE  NowInv'
  <2>1. ASSUME NEW j \in Tasks
        PROVE  /\ task'[j].now = task[j].now
               /\ task[j].pc = "idle" => task'[j].pc = "idle"
    BY <1>5, GotoDoes, AdmitDoes
  <2> QED BY <1>1, <1>5, <2>1
<1>6. ASSUME NEW k \in Tasks, TickStep(k) PROVE NowInv'
  <2>1. CASE Claim(k) \/ \E f \in Files : TakePermit(k, f)
    <3>1. UNCHANGED clock /\ task[k].pc # "idle"
      BY <2>1 DEF Claim, TakePermit
    <3>2. PICK p, b : task' = [task EXCEPT ![k].pc = p, ![k].batch = b]
      <4>1. CASE Claim(k) BY <4>1 DEF Claim
      <4>2. ASSUME NEW f \in Files, TakePermit(k, f)
            PROVE  \E p, b : task' = [task EXCEPT ![k].pc = p, ![k].batch = b]
        <5>1. task' = [task EXCEPT ![k].batch = task[k].batch \ {f},
                         ![k].pc = IF task[k].batch \ {f} = {} THEN "join"
                                   ELSE "slot"]
          BY <4>2 DEF TakePermit
        <5>2. task' = [task EXCEPT
                         ![k].pc = IF task[k].batch \ {f} = {} THEN "join"
                                   ELSE "slot",
                         ![k].batch = task[k].batch \ {f}]
          BY <5>1 DEF Typed, TickType
        <5> QED BY <5>2
      <4> QED BY <2>1, <4>1, <4>2
    <3>3. ASSUME NEW j \in Tasks
          PROVE  /\ task'[j].now = task[j].now
                 /\ task[j].pc = "idle" => task'[j].pc = "idle"
      BY <3>1, <3>2 DEF Typed, TickType
    <3> QED BY <1>1, <3>1, <3>3
  <2>2. CASE Gate(k) BY <1>4, <1>5, <2>2 DEF Gate
  <2>3. CASE Check(k) \/ StopClaiming(k) \/ Join(k) \/ Closed(k)
             \/ ClosePausing(k) \/ CloseFinishing(k) \/ GateForced(k)
    BY <1>4, <1>5, <2>3
    DEF Check, StopClaiming, Join, Closed, ClosePausing, CloseFinishing,
        GateForced, Due
  <2> QED BY <1>6, <2>1, <2>2, <2>3 DEF TickStep
<1>7. ASSUME NEW k \in Tasks, Discover(k) \/ TakeGlobal(k) PROVE NowInv'
  BY <1>5, <1>7 DEF Discover, TakeGlobal
<1>8. ASSUME NEW k \in Tasks, NEW f, Call(k, f), UNCHANGED clock PROVE NowInv'
  <2>1. ASSUME NEW j \in Tasks
        PROVE  task'[j] = task[j] \/ task'[j].now = clock
    BY <1>8, CallDoes
  <2> QED BY <1>1, <1>8, <2>1
<1>9. CASE LoopCall \/ OnTrigger BY <1>8, <1>9 DEF LoopCall, OnTrigger, Tasks
<1>10. CASE Elapse BY <1>0, <1>10 DEF Elapse, NowInv
<1>11. CASE Crash
  <2>1. \A j \in Tasks : task'[j] = NoTick BY <1>11 DEF Crash
  <2> QED BY <1>0, <1>1, <1>11, <2>1 DEF Crash
<1>12. ASSUME NEW f \in Files, Finish(f) \/ Arrive(f) PROVE NowInv'
  BY <1>2, <1>12 DEF Finish, Arrive
<1>13. CASE OnSetActivation \/ SetFlag \/ OnFlip \/ OnGetStatus \/ Reply
            \/ OtherTakes \/ OtherReturns \/ Boot
  BY <1>2, <1>13 DEF OnSetActivation, SetFlag, OnFlip, OnGetStatus, Reply,
     OtherTakes, OtherReturns, Boot
<1> QED BY <1>3, <1>6, <1>7, <1>9, <1>10, <1>11, <1>12, <1>13 DEF Next

\* Only a claim takes a tick from claim to slot.
LEMMA OnlyClaim ==
    ASSUME Typed, [Next]_vars, NEW k \in Tasks,
           task[k].pc = "claim", task'[k].pc = "slot"
    PROVE  Claim(k)
<1>0. NoTick.pc = "idle" BY DEF NoTick
<1>1. ASSUME NEW j \in Tasks, EndTick(j) PROVE FALSE
  BY <1>0, <1>1, EndTickDoes
<1>2. ASSUME NEW j \in Tasks, NEW p, Goto(j, p), p # "slot" PROVE FALSE
  BY <1>2, GotoDoes
<1>3. ASSUME NEW j \in Tasks, NEW p, Admit(j, p) PROVE FALSE
  BY <1>3, AdmitDoes
<1>4. ASSUME UNCHANGED task PROVE FALSE BY <1>4
<1>5. ASSUME NEW j \in Tasks, TickStep(j), ~Claim(k) PROVE FALSE
  <2>1. CASE Claim(j)
    <3>1. j # k BY <1>5, <2>1
    <3>2. task'[k] = task[k] BY <2>1, <3>1 DEF Claim, Typed
    <3> QED BY <3>2
  <2>2. ASSUME NEW f \in Files, TakePermit(j, f) PROVE FALSE
    <3>1. j # k BY <2>2 DEF TakePermit
    <3>2. task'[k] = task[k] BY <2>2, <3>1 DEF TakePermit, Typed
    <3> QED BY <3>2
  <2>3. CASE Gate(j) BY <1>1, <1>3, <2>3 DEF Gate
  <2>4. CASE Check(j) \/ StopClaiming(j) \/ Join(j) \/ Closed(j)
             \/ ClosePausing(j) \/ CloseFinishing(j) \/ GateForced(j)
    BY <1>1, <1>2, <1>3, <2>4
    DEF Check, StopClaiming, Join, Closed, ClosePausing, CloseFinishing,
        GateForced
  <2> QED BY <1>5, <2>1, <2>2, <2>3, <2>4 DEF TickStep
<1>6. ASSUME NEW j \in Tasks, Discover(j) \/ TakeGlobal(j) PROVE FALSE
  BY <1>2, <1>6 DEF Discover, TakeGlobal
<1>7. ASSUME NEW j \in Tasks, NEW f, Call(j, f) PROVE FALSE
  BY <1>7, CallDoes
<1>8. CASE LoopCall \/ OnTrigger
  BY <1>7, <1>8 DEF LoopCall, OnTrigger, Tasks
<1>9. CASE Crash BY <1>0, <1>9 DEF Crash
<1>10. ASSUME NEW f \in Files, Finish(f) \/ Arrive(f) PROVE FALSE
  BY <1>4, <1>10 DEF Finish, Arrive
<1>11. CASE OnSetActivation \/ SetFlag \/ OnFlip \/ OnGetStatus \/ Reply
            \/ OtherTakes \/ OtherReturns \/ Boot \/ Elapse \/ UNCHANGED vars
  BY <1>4, <1>11 DEF OnSetActivation, SetFlag, OnFlip, OnGetStatus, Reply,
     OtherTakes, OtherReturns, Boot, Elapse, vars
<1> QED BY <1>5, <1>6, <1>8, <1>9, <1>10, <1>11 DEF Next

\* A window's claims fall into the window when its tick did not wait between
\* its reading of the clock and the gate (run_tick, run_windowed).
THEOREM ClaimedInsideHolds == Spec => ClaimedInside
<1>1. Typed /\ NowInv /\ [Next]_vars
      => [\A k \in Tasks :
            /\ task[k].pc = "claim" /\ task'[k].pc = "slot"
            /\ task[k].kind = "window"
            /\ task[k].deadline = window_until(task[k].now)
            => window_until(clock) # None]_vars
  <2> SUFFICES ASSUME Typed, NowInv, [Next]_vars, NEW k \in Tasks,
                      task[k].pc = "claim", task'[k].pc = "slot",
                      task[k].kind = "window",
                      task[k].deadline = window_until(task[k].now)
               PROVE  window_until(clock) # None
    OBVIOUS
  <2>1. Claim(k) BY OnlyClaim
  <2>2. clock \in Nat /\ task[k].now \in Nat
    BY ScheduleAssumption DEF Typed, TickType, Instants
  <2>3. window_until(task[k].now) \in Nat BY <2>2, UntilType
  <2>4. clock < window_until(task[k].now)
    BY <2>1, <2>2, <2>3 DEF Claim, Over
  <2>5. task[k].now <= clock BY DEF NowInv
  <2> QED BY <2>2, <2>4, <2>5, StaysOpen
<1> QED BY <1>1, TypedAlways, NowInit, NowStep, PTL DEF Spec, ClaimedInside
-----------------------------------------------------------------------------
(***************************************************************************)
(* Cron fires.  The watermark is some tick's reading of the clock, so it   *)
(* is not ahead of the clock; a gate that admits nothing has no fire       *)
(* between the old watermark and its own reading, so the fire that is owed *)
(* comes after the new one, whichever of the two is later.                 *)
(***************************************************************************)
FireInv == /\ track.fire <= clock /\ FireKept
           /\ ghost.owed => track.fire # None /\ setting.mode = "cron"

LEMMA FireInit == Init => FireInv
BY ScheduleAssumption DEF Init, FireInv, FireKept, NoTrack, None

LEMMA FireRests ==
    ASSUME FireInv, UNCHANGED <<clock, setting>>, track'.fire = track.fire,
           ghost'.owed => ghost.owed
    PROVE  FireInv'
BY DEF FireInv, FireKept

\* A cron gate that admits nothing.
LEMMA FireSkipped ==
    ASSUME NEW n \in Nat, NEW w \in Nat, NEW t \in Fires, w < t, w # None,
           ~fired(n, w)
    PROVE  n < t
<1>1. /\ Fires \subseteq Instants /\ t \in Nat /\ t # 0
      /\ \A u \in Instants : u \in Nat /\ u # 0
  BY ScheduleAssumption DEF Instants
<1> SUFFICES ASSUME t <= n PROVE FALSE BY <1>1
<1> DEFINE S == {u \in Fires : u <= n}
<1>2. S \subseteq Instants /\ t \in S BY <1>1
<1>3. t <= Latest(S) /\ Latest(S) \in Nat /\ Latest(S) <= n
  BY <1>1, <1>2, LastOf
<1>4. prev_fire(Fires, n) = Latest(S) BY DEF prev_fire
<1>5. ~(Latest(S) > w) BY <1>4 DEF fired
<1> HIDE DEF S
<1> QED BY <1>1, <1>3, <1>5

LEMMA FireGate ==
    ASSUME Typed, NowInv, FireInv, NEW k \in Tasks, Gate(k)
    PROVE  FireInv'
<1> DEFINE now == task[k].now
           kind == admission(setting.mode, now, track.fire)
<1>1. /\ track' = Evaluated(now, kind) /\ Announce(now, kind)
      /\ UNCHANGED <<clock, setting>>
  BY DEF Gate
<1>2. /\ now \in Nat /\ now <= clock /\ clock \in Nat /\ track.fire \in Nat
      /\ ghost \in GhostType
  BY ScheduleAssumption DEF Typed, TickType, TrackType, Instants, NowInv
<1>3. track'.fire = IF setting.mode = "cron" THEN now ELSE track.fire
  BY <1>1 DEF Evaluated
<1>4. ghost'.owed = (ghost.owed /\ kind # "all")
  BY <1>1, <1>2 DEF Announce, GhostType
<1>5. CASE setting.mode # "cron"
  BY <1>1, <1>3, <1>4, <1>5, FireRests
<1>6. CASE setting.mode = "cron"
  <2>1. track'.fire = now BY <1>3, <1>6
  <2>2. track'.fire <= clock' BY <1>1, <1>2, <2>1
  <2>3. ASSUME ghost'.owed
        PROVE  /\ now # None
               /\ \E t \in Fires : now < t /\ t <= clock
    <3>1. ghost.owed /\ kind # "all" BY <1>4, <2>3
    <3>2. ~fired(now, track.fire) BY <1>6, <3>1 DEF admission
    <3>3. PICK t \in Fires : track.fire < t /\ t <= clock
      BY <3>1 DEF FireInv, FireKept
    <3>4. track.fire # None BY <3>1 DEF FireInv
    <3>5. now < t BY <1>2, <3>2, <3>3, <3>4, FireSkipped
    <3>6. now # None BY DEF NowInv, Gate
    <3> QED BY <3>3, <3>5, <3>6
  <2> QED BY <1>1, <1>6, <2>1, <2>2, <2>3 DEF FireInv, FireKept
<1> QED BY <1>5, <1>6

LEMMA FireStep == Typed /\ NowInv /\ FireInv /\ [Next]_vars => FireInv'
<1> SUFFICES ASSUME Typed, NowInv, FireInv, [Next]_vars PROVE FireInv' OBVIOUS
<1>0. /\ ghost \in GhostType /\ track \in TrackType /\ clock \in Nat
      /\ track.fire \in Nat
  BY ScheduleAssumption DEF Typed, TrackType, Instants
<1>1. ASSUME UNCHANGED <<clock, setting, track, ghost>> PROVE FireInv'
  BY <1>1, FireRests
<1>2. CASE UNCHANGED vars BY <1>1, <1>2 DEF vars
<1>3. ASSUME NEW k \in Tasks, TickStep(k) PROVE FireInv'
  <2>1. CASE Gate(k) BY <2>1, FireGate
  <2>2. CASE CloseFinishing(k) \/ ClosePausing(k)
    <3>1. track'.fire = track.fire /\ UNCHANGED <<clock, setting>>
      BY <1>0, <2>2 DEF CloseFinishing, ClosePausing, ShutTrack, TrackType
    <3>2. ghost'.owed = ghost.owed
      BY <1>0, <2>2 DEF CloseFinishing, ClosePausing, GhostType
    <3> QED BY <3>1, <3>2, FireRests
  <2>3. CASE Check(k) \/ GateForced(k) \/ Claim(k) \/ StopClaiming(k)
             \/ (\E f \in Files : TakePermit(k, f)) \/ Join(k) \/ Closed(k)
    BY <1>1, <2>3 DEF Check, GateForced, Claim, StopClaiming, TakePermit, Join,
       Closed
  <2> QED BY <1>3, <2>1, <2>2, <2>3 DEF TickStep
<1>4. ASSUME NEW k \in Tasks, Discover(k) \/ TakeGlobal(k) PROVE FireInv'
  BY <1>1, <1>4 DEF Discover, TakeGlobal
<1>5. ASSUME NEW f \in Files, Finish(f) PROVE FireInv'
  BY <1>5, FinishGhost, FireRests DEF Finish
<1>6. CASE Elapse
  <2>1. /\ clock' = clock + 1 /\ UNCHANGED <<setting, track>>
        /\ ghost'.owed = (ghost.owed \/ (/\ up /\ setting.mode = "cron"
                                        /\ track.fire # None /\ clock' \in Fires))
    BY <1>0, <1>6 DEF Elapse, GhostType
  <2>2. CASE ghost.owed
    <3>1. PICK t \in Fires : track.fire < t /\ t <= clock
      BY <2>2 DEF FireInv, FireKept
    <3>2. t \in Nat BY ScheduleAssumption DEF Instants
    <3>3. t <= clock' BY <1>0, <2>1, <3>1, <3>2
    <3> QED BY <1>0, <2>1, <2>2, <3>1, <3>3 DEF FireInv, FireKept
  <2>3. CASE ~ghost.owed
    <3>1. track.fire <= clock BY DEF FireInv
    <3>2. track'.fire < clock' /\ track'.fire <= clock' /\ clock' <= clock'
      BY <1>0, <2>1, <3>1
    <3>3. ghost'.owed => /\ clock' \in Fires
                         /\ track'.fire # None /\ setting'.mode = "cron"
      BY <2>1, <2>3
    <3> HIDE <2>1
    <3> QED BY <3>2, <3>3 DEF FireInv, FireKept
  <2> QED BY <2>2, <2>3
<1>7. CASE Crash
  <2>1. /\ ghost'.owed = FALSE /\ track' = NoTrack /\ UNCHANGED clock
    BY <1>0, <1>7 DEF Crash, GhostType
  <2> QED BY <1>0, <2>1 DEF FireInv, FireKept, NoTrack, None
<1>8. CASE SetFlag \/ OnFlip
  <2>1. ghost'.owed = ghost.owed /\ UNCHANGED <<clock, setting, track>>
    BY <1>0, <1>8 DEF SetFlag, OnFlip, GhostType
  <2> QED BY <2>1, FireRests
<1>9. CASE LoopCall \/ OnTrigger \/ OnSetActivation \/ OnGetStatus \/ Reply
           \/ OtherTakes \/ OtherReturns \/ Boot
           \/ \E f \in Files : Arrive(f)
  BY <1>1, <1>9 DEF LoopCall, OnTrigger, OnSetActivation, OnGetStatus, Reply,
     OtherTakes, OtherReturns, Boot, Arrive
<1> QED BY <1>2, <1>3, <1>4, <1>5, <1>6, <1>7, <1>8, <1>9 DEF Next

\* No fire is swallowed by a tick that evaluates the schedule late: while one
\* is owed, the watermark of Schedule::admission lies before it.
THEOREM FireKeptHolds == Spec => []FireKept
<1>1. FireInv => FireKept BY DEF FireInv
<1> QED BY <1>1, TypedAlways, NowInit, NowStep, FireInit, FireStep, PTL DEF Spec
=============================================================================
