------------------------- MODULE ItemPipelineProofs -------------------------
(***************************************************************************)
(* What holds of ItemPipeline for any number of destinations, any attempt  *)
(* budget and any number of versions, crashes and store faults.            *)
(***************************************************************************)
EXTENDS ItemPipeline, TLAPS

(***************************************************************************)
(* The first layer of the inductive invariant: where the row is while a    *)
(* task handles it.  It needs recovery to run before any tick.             *)
(***************************************************************************)
\* The two tasks never overlap.
Exclusion ==
    /\ pc["tick"] = "down" <=> pc["recover"] = "down"
    /\ pc["tick"] \notin {"down", "idle"} => pc["recover"] = "done"

\* The row's state at each point of a handler.
RowAtPoint ==
    /\ pc["tick"] \in {"fanout", "giveUp"} => state = "in_progress"
    /\ pc["tick"] = "countFailed" => state = "exhausted"
    /\ pc["tick"] = "recheck" => state = "verified"
    /\ \A t \in Tasks :
        /\ pc[t] \in {"finish", "moved"} => state = "exhausted"
        /\ pc[t] = "cleanup"
              => state \in {"verified", "cleanup_pending", "cleanup_failed"}
        /\ pc[t] \in {"act", "acted", "actFailed", "actRefused"}
              => state = "cleanup_pending"
        /\ pc[t] \in {"clear", "countReplicated"} => state = "completed"
    /\ pc["recover"] \in {"dispatch", "reverify"} => snapshot = state
    /\ pc["recover"] = "reverify" => state \in {"verified", "in_progress"}

\* Whatever leads to the completion action has every destination verified.
Authority ==
    /\ AuthorisedByAll
    /\ \A t \in Tasks : pc[t] = "cleanup"
          => \A d \in Dests : phase[d] = "verified"
    /\ pc["tick"] \in {"fanout", "recheck"}
          => \A d \in Dests : job[d] = "verified" => phase[d] = "verified"
    /\ pc["recover"] = "reverify" /\ snapshot = "verified" /\ allOk
          => \A d \in Dests \ toVerify : phase[d] = "verified"

\* The gate column is the transfer's own until a cleanup failure arms it.
GateFree ==
    state \in {"none", "ready", "in_progress", "verified", "exhausted"}
        => gate = "open"

\* During an attempt round an unfinished destination is backing off.
RoundBackoff ==
    pc["tick"] = "fanout" =>
        \A d \in Dests :
            /\ job[d] = "retry" => backoff[d] /\ phase[d] = "pending"
            /\ job[d] = "idle" /\ phase[d] # "verified" => backoff[d]

Control == Exclusion /\ RowAtPoint /\ Authority /\ GateFree /\ RoundBackoff
           /\ FailedWillReopen

(***************************************************************************)
(* The second layer, under OrderlyEnvironment: what the destinations hold. *)
(***************************************************************************)
\* Nothing is detached, and a row short of its completion has its source.
Undisturbed ==
    /\ pc["tick"] \notin {"revert", "recheck"} /\ orphan = "none"
    /\ state \in {"ready", "in_progress", "failed", "verified"} => src # 0
    /\ state = "none" => \A d \in Dests : phase[d] = "pending"

\* Objects are the source's version where verification is about to say so.
Held ==
    /\ state = "verified" => \A d \in Dests : object[d] \in {src, 0}
    /\ pc["tick"] = "fanout" => \A d \in Dests :
          job[d] \in {"published", "checkpointed"} => object[d] = src
    /\ pc["recover"] = "reverify" /\ snapshot = "in_progress"
          => \A d \in toVerify : phase[d] = "verified"

Content == Undisturbed /\ Held /\ VerifiedIsHeld

(***************************************************************************)
(* The counters, also in the first layer: every version that was written   *)
(* pays for at most one count.                                             *)
(***************************************************************************)
\* The row, or a handler that has just finished it, will still be counted.
Owed == IF \/ state \in Live \/ pc["tick"] = "countFailed"
           \/ \E t \in Tasks : pc[t] \in {"clear", "countReplicated"}
        THEN 1 ELSE 0

\* The file on disk is not the one the row is about.
Fresh == IF src # 0 /\ (state = "none" \/ sig # src) THEN 1 ELSE 0

Budget == replicated + failed + Owed + Fresh <= written

-----------------------------------------------------------------------------
USE DEF row, destRows, fan, stats, world, fanJob, recLoc, local, bounds
USE DEF RowStates, ItemStates, Terminal, Phases, Points, Jobs, Tasks, Lost,
        Corrupt, Idle

\* A checksum recalled for the archived copy is a version or 0.
LEMMA ChecksumType == TypeOK => DeliveredChecksum \in Nat
  BY DEF TypeOK, DeliveredChecksum

\* Dropping checkpoints, or failing to, leaves checkpoints.
LEMMA DropType ==
    ASSUME TypeOK, NEW D, DropCheckpoints(D)
    PROVE  checkpoint' \in [Dests -> Nat] /\ faults' \in Nat
<1>1. CASE checkpoint' = [d \in Dests |-> IF d \in D THEN 0 ELSE checkpoint[d]]
  BY <1>1, TypeOK, DropCheckpoints(D) DEF TypeOK, DropCheckpoints
<1>2. CASE UNCHANGED checkpoint
  BY <1>2, TypeOK, DropCheckpoints(D) DEF TypeOK, DropCheckpoints
<1> QED
  BY <1>1, <1>2, DropCheckpoints(D) DEF DropCheckpoints

\* Every step keeps the types.
LEMMA TypeStep ==
    ASSUME TypeOK, [Next]_vars
    PROVE  TypeOK'
<1> USE TypeOK, ConstantsAssumption DEF TypeOK, Goto
<1>0. CASE UNCHANGED vars
  BY <1>0 DEF vars
<1>1. CASE Write
  BY <1>1 DEF Write
<1>2. CASE ElapseCleanup
  BY <1>2 DEF ElapseCleanup
<1>3. CASE Crash
  <2>1. allOk' \in BOOLEAN /\ batch' \in BOOLEAN
    BY <1>3 DEF Crash
  <2> QED
    BY <1>3, <2>1 DEF Crash
<1>4. CASE Restart
  BY <1>4 DEF Restart
<1>5. CASE StartTick
  BY <1>5 DEF StartTick
<1>6. CASE Discover
  BY <1>6 DEF Discover
<1>7. CASE Rediscover
  BY <1>7 DEF Rediscover, ClearDestStates, None, ResetGate
<1>8. CASE Refresh
  BY <1>8 DEF Refresh
<1>9. CASE ScanMiss
  BY <1>9 DEF ScanMiss
<1>10. CASE Promote
  BY <1>10 DEF Promote, Promotable
<1>11. CASE DriveCleanup
  BY <1>11 DEF DriveCleanup, CleanupDue
<1>12. CASE DriveForced
  BY <1>12 DEF DriveForced
<1>13. CASE DriveNothing
  BY <1>13 DEF DriveNothing
<1>14. CASE Claim
  BY <1>14 DEF Claim
<1>15. CASE EndTick
  <2>1. batch' \in BOOLEAN
    BY <1>15 DEF EndTick
  <2> QED
    BY <1>15, <2>1 DEF EndTick
<1>16. ASSUME NEW d \in Dests, LoseObject(d) PROVE TypeOK'
  BY <1>16 DEF LoseObject
<1>17. ASSUME NEW d \in Dests, Elapse(d) PROVE TypeOK'
  BY <1>17 DEF Elapse
<1>18. ASSUME NEW d \in Dests, Deliver(d) PROVE TypeOK'
  BY <1>18 DEF Deliver
<1>19. ASSUME NEW d \in Dests, SaveCheckpoint(d) PROVE TypeOK'
  <2>1. checkpoint' \in [Dests -> Nat] /\ faults' \in Nat
    BY <1>19 DEF SaveCheckpoint
  <2>2. /\ job' \in [Dests -> Jobs]
        /\ UNCHANGED <<row, phase, attempts, backoff, stats, world, pc,
                       wasExhausted, expected, recLoc, orphan, batch, crashes,
                       pauses>>
    BY <1>19 DEF SaveCheckpoint
  <2> QED
    BY <2>1, <2>2
<1>20. ASSUME NEW d \in Dests, MarkVerified(d) PROVE TypeOK'
  BY <1>20 DEF MarkVerified
<1>21. ASSUME NEW d \in Dests, FailRetry(d) PROVE TypeOK'
  BY <1>21 DEF FailRetry
<1>22. ASSUME NEW d \in Dests, FailGiveUp(d) PROVE TypeOK'
  BY <1>22 DEF FailGiveUp
<1>23. ASSUME NEW d \in Dests, ReleaseSpent(d) PROVE TypeOK'
  <2>1. checkpoint' \in [Dests -> Nat] /\ faults' \in Nat
    BY <1>23, DropType DEF ReleaseSpent
  <2>2. /\ job' \in [Dests -> Jobs]
        /\ UNCHANGED <<row, destRows, stats, world, pc, wasExhausted, expected,
                       recLoc, orphan, batch, crashes, pauses>>
    BY <1>23 DEF ReleaseSpent
  <2> QED
    BY <2>1, <2>2
<1>24. ASSUME NEW d \in Dests, ReverifyOk(d) PROVE TypeOK'
  BY <1>24 DEF ReverifyOk, Matches
<1>25. ASSUME NEW d \in Dests, ReverifyFail(d) PROVE TypeOK'
  <2>1. allOk' \in BOOLEAN
    BY <1>25 DEF ReverifyFail
  <2>2. checkpoint' \in [Dests -> Nat] /\ faults' \in Nat
    BY <1>25, DropType DEF ReverifyFail
  <2>3. /\ phase' \in [Dests -> Phases] /\ toVerify' \in SUBSET Dests
        /\ UNCHANGED <<row, attempts, backoff, stats, world, pc, fanJob,
                       expected, snapshot, orphan, batch, crashes, pauses>>
    BY <1>25 DEF ReverifyFail
  <2> QED
    BY <2>1, <2>2, <2>3
<1>26. CASE PipelineGiveUp
  <2>1. checkpoint' \in [Dests -> Nat] /\ faults' \in Nat
    BY <1>26, DropType DEF PipelineGiveUp
  <2>2. /\ Goto("tick", "giveUp")
        /\ UNCHANGED <<row, destRows, stats, world, local, crashes, pauses>>
    BY <1>26 DEF PipelineGiveUp
  <2> QED
    BY <2>1, <2>2
<1>27. CASE RollUpExhausted
  BY <1>27 DEF RollUpExhausted
<1>28. CASE CountFailed
  BY <1>28 DEF CountFailed, NewlyFailed
<1>29. CASE PipelineVerified
  BY <1>29 DEF PipelineVerified, AllDelivered, Delivered, Joined, GivenUp
<1>30. CASE PipelineRetry
  BY <1>30 DEF PipelineRetry, AllDelivered, Delivered, Joined, GivenUp
<1>31. CASE RecoverSnapshot
  BY <1>31 DEF RecoverSnapshot
<1>32. CASE RecoverReverify
  BY <1>32 DEF RecoverReverify, Recheck
<1>33. CASE RecoverCleanup
  BY <1>33 DEF RecoverCleanup
<1>34. CASE RecoverNothing
  BY <1>34 DEF RecoverNothing
<1>35. CASE RecoverComplete
  BY <1>35 DEF RecoverComplete
<1>36. CASE RecoverRequeue
  BY <1>36 DEF RecoverRequeue
<1>37. CASE RecoverExhausted
  BY <1>37 DEF RecoverExhausted
<1>38. CASE Pause
  <2>1. batch' \in BOOLEAN
    BY <1>38 DEF Pause
  <2> QED
    BY <1>38, <2>1 DEF Pause
<1>39. CASE PauseRevert
  BY <1>39 DEF PauseRevert
<1>40. CASE OrphanRun
  <2>1. /\ src' \in Nat /\ written' \in Nat /\ object' \in [Dests -> Nat]
        /\ archive' \in Seq(Nat) /\ quarantine' \in SUBSET Nat
    <3>1. CASE ReleaseSource /\ UNCHANGED <<written, object, quarantine>>
      BY <3>1 DEF ReleaseSource
    <3>2. CASE MoveToFailedDir
      BY <3>2 DEF MoveToFailedDir
    <3>3. CASE UNCHANGED world
      BY <3>3
    <3> QED
      BY <1>40, <3>1, <3>2, <3>3 DEF OrphanRun
  <2> QED
    BY <1>40, <2>1 DEF OrphanRun
<1>41. ASSUME NEW t \in Tasks, BeginCleanup(t) PROVE TypeOK'
  BY <1>41, ChecksumType DEF BeginCleanup
<1>42. ASSUME NEW t \in Tasks, ActRun(t) PROVE TypeOK'
  BY <1>42 DEF ActRun, ReleaseSource
<1>43. ASSUME NEW t \in Tasks, ActFail(t) PROVE TypeOK'
  BY <1>43 DEF ActFail
<1>44. ASSUME NEW t \in Tasks, ActUnproven(t) PROVE TypeOK'
  BY <1>44 DEF ActUnproven, ReleaseSource
<1>45. ASSUME NEW t \in Tasks, FinishCompleted(t) PROVE TypeOK'
  BY <1>45 DEF FinishCompleted
<1>46. ASSUME NEW t \in Tasks, ClearBookkeeping(t) PROVE TypeOK'
  <2>1. ClearDestStates \/ UNCHANGED destRows
    BY <1>46 DEF ClearBookkeeping
  <2>2. phase' \in [Dests -> Phases] /\ attempts' \in [Dests -> Nat]
    BY <2>1 DEF ClearDestStates, None
  <2>3. backoff' \in [Dests -> BOOLEAN]
    <3>1. CASE ClearDestStates
      BY <3>1 DEF ClearDestStates
    <3>2. CASE UNCHANGED destRows
      BY <3>2
    <3> QED
      BY <2>1, <3>1, <3>2
  <2>4. checkpoint' \in [Dests -> Nat] /\ faults' \in Nat
    BY <1>46 DEF ClearBookkeeping, None
  <2>5. /\ Goto(t, "countReplicated")
        /\ UNCHANGED <<row, stats, world, local, crashes, pauses>>
    BY <1>46 DEF ClearBookkeeping
  <2> QED
    BY <2>2, <2>3, <2>4, <2>5
<1>47. ASSUME NEW t \in Tasks, CountReplicated(t) PROVE TypeOK'
  BY <1>47 DEF CountReplicated, AfterCleanup
<1>48. ASSUME NEW t \in Tasks, CleanupFailure(t) PROVE TypeOK'
  BY <1>48 DEF CleanupFailure, AfterCleanup
<1>49. ASSUME NEW t \in Tasks, Retain(t) PROVE TypeOK'
  BY <1>49 DEF Retain, AfterFinish
<1>50. ASSUME NEW t \in Tasks, QuarantineMove(t) PROVE TypeOK'
  <2>1. CASE MoveToFailedDir
    BY <1>50, <2>1 DEF QuarantineMove, MoveToFailedDir
  <2>2. CASE UNCHANGED world
    BY <1>50, <2>2 DEF QuarantineMove
  <2> QED
    BY <1>50, <2>1, <2>2 DEF QuarantineMove
<1>51. ASSUME NEW t \in Tasks, SetQuarantined(t) PROVE TypeOK'
  BY <1>51 DEF SetQuarantined, AfterFinish
<1>52. ASSUME NEW t \in Tasks, StoreFault(t) PROVE TypeOK'
  <2>1. allOk' \in BOOLEAN
    BY <1>52 DEF StoreFault
  <2>2. /\ job' \in [Dests -> Jobs] /\ wasExhausted' \in SUBSET Dests
        /\ snapshot' \in RowStates /\ toVerify' \in SUBSET Dests
    <3>1. CASE t = "tick"
      BY <1>52, <3>1 DEF StoreFault
    <3>2. CASE t = "recover"
      BY <1>52, <3>2 DEF StoreFault
    <3> QED
      BY <3>1, <3>2
  <2> QED
    BY <1>52, <2>1, <2>2 DEF StoreFault
<1>53. CASE RecheckEnd
  BY <1>53 DEF RecheckEnd
<1>54. ASSUME NEW d \in Dests, RecheckOk(d) PROVE TypeOK'
  BY <1>54 DEF RecheckOk, Matches
<1>55. ASSUME NEW d \in Dests, RecheckFail(d) PROVE TypeOK'
  <2>1. checkpoint' \in [Dests -> Nat] /\ faults' \in Nat
    BY <1>55, DropType DEF RecheckFail
  <2>2. /\ phase' \in [Dests -> Phases] /\ job' \in [Dests -> Jobs]
        /\ UNCHANGED <<row, attempts, backoff, stats, world, pc, wasExhausted,
                       expected, recLoc, orphan, batch, crashes, pauses>>
    BY <1>55 DEF RecheckFail
  <2> QED
    BY <2>1, <2>2
<1> HIDE DEF TypeOK, Goto
<1> QED
  BY [Next]_vars, <1>0, <1>1, <1>2, <1>3, <1>4, <1>5, <1>6, <1>7, <1>8, <1>9,
    <1>10, <1>11, <1>12, <1>13, <1>14, <1>15, <1>16, <1>17, <1>18, <1>19,
    <1>20, <1>21, <1>22, <1>23, <1>24, <1>25, <1>26, <1>27, <1>28, <1>29,
    <1>30, <1>31, <1>32, <1>33, <1>34, <1>35, <1>36, <1>37, <1>38, <1>39,
    <1>40, <1>41, <1>42, <1>43, <1>44, <1>45, <1>46, <1>47, <1>48, <1>49,
    <1>50, <1>51, <1>52, <1>53, <1>54, <1>55 DEF Next, Environment, Tick,
    Pipeline, Attempt, Cleanup, Finish, Recovery, Revert

\* The initial state is well typed.
LEMMA InitType == Init => TypeOK
<1> SUFFICES ASSUME Init PROVE TypeOK
  OBVIOUS
<1>1. allOk \in BOOLEAN /\ batch \in BOOLEAN
  BY DEF Init
<1>2. backoff \in [Dests -> BOOLEAN]
  BY DEF Init
<1> QED
  BY <1>1, <1>2, ConstantsAssumption DEF Init, TypeOK, None

\* Type correctness: no handler of ItemPipeline, in any interleaving with
\* crashes and store faults, leaves a variable outside its type; in particular
\* no counter goes negative (NewlyFailed) and every phase, job and gate stays
\* one of the values the code distinguishes.
THEOREM TypeCorrect == Spec => []TypeOK
<1>1. Init => TypeOK
  BY InitType
<1>2. TypeOK /\ [Next]_vars => TypeOK'
  BY TypeStep
<1> QED
  BY <1>1, <1>2, PTL DEF Spec
-----------------------------------------------------------------------------
\* Every step keeps the control invariant.
LEMMA ControlStep ==
    ASSUME TypeOK, TypeOK', Control, ~EarlyTrigger, [Next]_vars
    PROVE  Control'
<1> USE TypeOK, TypeOK', Control, ~EarlyTrigger DEF TypeOK, Control,
  Exclusion, RowAtPoint, Authority, AuthorisedByAll, GateFree, RoundBackoff,
  FailedWillReopen, Goto
<1>0. CASE UNCHANGED vars
  BY <1>0 DEF vars
<1>1. CASE Write
  BY <1>1 DEF Write
<1>2. CASE ElapseCleanup
  BY <1>2 DEF ElapseCleanup
<1>3. CASE Crash
  BY <1>3 DEF Crash
<1>4. CASE Restart
  BY <1>4 DEF Restart
<1>5. CASE StartTick
  BY <1>5 DEF StartTick
<1>6. CASE Discover
  BY <1>6 DEF Discover
<1>7. CASE Rediscover
  BY <1>7 DEF Rediscover, ClearDestStates, None, ResetGate
<1>8. CASE Refresh
  BY <1>8 DEF Refresh
<1>9. CASE ScanMiss
  BY <1>9 DEF ScanMiss
<1>10. CASE Promote
  BY <1>10 DEF Promote, Promotable
<1>11. CASE DriveCleanup
  BY <1>11 DEF DriveCleanup, CleanupDue
<1>12. CASE DriveForced
  BY <1>12 DEF DriveForced
<1>13. CASE DriveNothing
  BY <1>13 DEF DriveNothing
<1>14. CASE Claim
  BY <1>14 DEF Claim
<1>15. CASE EndTick
  BY <1>15 DEF EndTick
<1>16. ASSUME NEW d \in Dests, LoseObject(d) PROVE Control'
  BY <1>16 DEF LoseObject
<1>17. ASSUME NEW d \in Dests, Elapse(d) PROVE Control'
  BY <1>17 DEF Elapse
<1>18. ASSUME NEW d \in Dests, Deliver(d) PROVE Control'
  BY <1>18 DEF Deliver
<1>19. ASSUME NEW d \in Dests, SaveCheckpoint(d) PROVE Control'
  BY <1>19 DEF SaveCheckpoint
<1>20. ASSUME NEW d \in Dests, MarkVerified(d) PROVE Control'
  BY <1>20 DEF MarkVerified
<1>21. ASSUME NEW d \in Dests, FailRetry(d) PROVE Control'
  BY <1>21 DEF FailRetry
<1>22. ASSUME NEW d \in Dests, FailGiveUp(d) PROVE Control'
  BY <1>22 DEF FailGiveUp
<1>23. ASSUME NEW d \in Dests, ReleaseSpent(d) PROVE Control'
  BY <1>23 DEF ReleaseSpent
<1>24. ASSUME NEW d \in Dests, ReverifyOk(d) PROVE Control'
  BY <1>24 DEF ReverifyOk, Matches
<1>25. ASSUME NEW d \in Dests, ReverifyFail(d) PROVE Control'
  BY <1>25 DEF ReverifyFail
<1>26. CASE PipelineGiveUp
  BY <1>26 DEF PipelineGiveUp
<1>27. CASE RollUpExhausted
  BY <1>27 DEF RollUpExhausted
<1>28. CASE CountFailed
  BY <1>28 DEF CountFailed, NewlyFailed
<1>29. CASE PipelineVerified
  BY <1>29 DEF PipelineVerified, AllDelivered, Delivered, Joined, GivenUp
<1>30. CASE PipelineRetry
  BY <1>30 DEF PipelineRetry, AllDelivered, Delivered, Joined, GivenUp
<1>31. CASE RecoverSnapshot
  BY <1>31 DEF RecoverSnapshot
<1>32. CASE RecoverReverify
  BY <1>32 DEF RecoverReverify, Recheck
<1>33. CASE RecoverCleanup
  BY <1>33 DEF RecoverCleanup
<1>34. CASE RecoverNothing
  BY <1>34 DEF RecoverNothing
<1>35. CASE RecoverComplete
  BY <1>35 DEF RecoverComplete
<1>36. CASE RecoverRequeue
  BY <1>36 DEF RecoverRequeue
<1>37. CASE RecoverExhausted
  BY <1>37 DEF RecoverExhausted
<1>38. CASE Pause
  BY <1>38 DEF Pause
<1>39. CASE PauseRevert
  BY <1>39 DEF PauseRevert
<1>40. CASE OrphanRun
  BY <1>40 DEF OrphanRun, MoveToFailedDir, ReleaseSource
<1>41. ASSUME NEW t \in Tasks, BeginCleanup(t) PROVE Control'
  BY <1>41 DEF BeginCleanup
<1>42. ASSUME NEW t \in Tasks, ActRun(t) PROVE Control'
  BY <1>42 DEF ActRun, ReleaseSource
<1>43. ASSUME NEW t \in Tasks, ActFail(t) PROVE Control'
  BY <1>43 DEF ActFail
<1>44. ASSUME NEW t \in Tasks, ActUnproven(t) PROVE Control'
  BY <1>44 DEF ActUnproven, ReleaseSource
<1>45. ASSUME NEW t \in Tasks, FinishCompleted(t) PROVE Control'
  BY <1>45 DEF FinishCompleted
<1>46. ASSUME NEW t \in Tasks, ClearBookkeeping(t) PROVE Control'
  BY <1>46 DEF ClearBookkeeping, ClearDestStates, None
<1>47. ASSUME NEW t \in Tasks, CountReplicated(t) PROVE Control'
  BY <1>47 DEF CountReplicated, AfterCleanup
<1>48. ASSUME NEW t \in Tasks, CleanupFailure(t) PROVE Control'
  BY <1>48 DEF CleanupFailure, AfterCleanup
<1>49. ASSUME NEW t \in Tasks, Retain(t) PROVE Control'
  BY <1>49 DEF Retain, AfterFinish
<1>50. ASSUME NEW t \in Tasks, QuarantineMove(t) PROVE Control'
  BY <1>50 DEF QuarantineMove, MoveToFailedDir
<1>51. ASSUME NEW t \in Tasks, SetQuarantined(t) PROVE Control'
  BY <1>51 DEF SetQuarantined, AfterFinish
<1>52. ASSUME NEW t \in Tasks, StoreFault(t) PROVE Control'
  BY <1>52 DEF StoreFault
<1>53. CASE RecheckEnd
  BY <1>53 DEF RecheckEnd
<1>54. ASSUME NEW d \in Dests, RecheckOk(d) PROVE Control'
  BY <1>54 DEF RecheckOk, Matches
<1>55. ASSUME NEW d \in Dests, RecheckFail(d) PROVE Control'
  BY <1>55 DEF RecheckFail
<1> HIDE DEF TypeOK, Control, Exclusion, RowAtPoint, Authority,
  AuthorisedByAll, GateFree, RoundBackoff, FailedWillReopen, Goto
<1> QED
  BY [Next]_vars, <1>0, <1>1, <1>2, <1>3, <1>4, <1>5, <1>6, <1>7, <1>8, <1>9,
    <1>10, <1>11, <1>12, <1>13, <1>14, <1>15, <1>16, <1>17, <1>18, <1>19,
    <1>20, <1>21, <1>22, <1>23, <1>24, <1>25, <1>26, <1>27, <1>28, <1>29,
    <1>30, <1>31, <1>32, <1>33, <1>34, <1>35, <1>36, <1>37, <1>38, <1>39,
    <1>40, <1>41, <1>42, <1>43, <1>44, <1>45, <1>46, <1>47, <1>48, <1>49,
    <1>50, <1>51, <1>52, <1>53, <1>54, <1>55 DEF Next, Environment, Tick,
    Pipeline, Attempt, Cleanup, Finish, Recovery, Revert

\* The control invariant holds when recovery runs before any tick.
LEMMA ControlInvariant ==
    ASSUME ~EarlyTrigger PROVE Spec => [](TypeOK /\ Control)
<1>1. Init => TypeOK /\ Control
  BY InitType DEF Init, None, Control, Exclusion, RowAtPoint, Authority,
      AuthorisedByAll, GateFree, RoundBackoff, FailedWillReopen
<1>2. TypeOK /\ Control /\ [Next]_vars => (TypeOK /\ Control)'
  BY TypeStep, ControlStep, ~EarlyTrigger
<1> QED
  BY <1>1, <1>2, PTL DEF Spec

\* The completion action of a file is authorised by all of its destinations
\* together: run_cleanup's write-ahead state and its failed state imply that
\* every destination row is verified, through retries, crashes, store faults
\* and window closes (run_pipeline, recover_verified, pause_revert).
THEOREM CompletionAuthorised ==
    ASSUME ~EarlyTrigger PROVE Spec => []AuthorisedByAll
<1>1. TypeOK /\ Control => AuthorisedByAll
  BY DEF Control, Authority
<1> QED
  BY ~EarlyTrigger, ControlInvariant, <1>1, PTL

\* A ready row can be claimed: no cleanup gate, in particular not the parked
\* one of CLEANUP_NO_RETRY, outlives the cleanup (upsert_ready, recover).
THEOREM ReadyClaimable ==
    ASSUME ~EarlyTrigger PROVE Spec => []ReadyIsClaimable
<1>1. TypeOK /\ Control => ReadyIsClaimable
  BY DEF Control, GateFree, ReadyIsClaimable
<1> QED
  BY ~EarlyTrigger, ControlInvariant, <1>1, PTL

\* A failed row that waits has a destination whose own gate re-opens it: the
\* partial fan-out of run_pipeline strands no row.
THEOREM FailedReopens ==
    ASSUME ~EarlyTrigger PROVE Spec => []FailedWillReopen
<1>1. TypeOK /\ Control => FailedWillReopen
  BY DEF Control
<1> QED
  BY ~EarlyTrigger, ControlInvariant, <1>1, PTL
-----------------------------------------------------------------------------
\* Every step keeps the budget: what is counted was owed before.
LEMMA BudgetStep ==
    ASSUME TypeOK, TypeOK', Control, Budget, [Next]_vars
    PROVE  Budget'
<1> USE TypeOK, TypeOK', Control, Budget, ConstantsAssumption DEF TypeOK,
  Control, Exclusion, RowAtPoint, Budget, Owed, Fresh, Live, Goto
<1>0. CASE UNCHANGED vars
  BY <1>0 DEF vars
<1>1. CASE Write
  BY <1>1 DEF Write
<1>2. CASE ElapseCleanup
  BY <1>2 DEF ElapseCleanup
<1>3. CASE Crash
  BY <1>3 DEF Crash
<1>4. CASE Restart
  BY <1>4 DEF Restart
<1>5. CASE StartTick
  BY <1>5 DEF StartTick
<1>6. CASE Discover
  BY <1>6 DEF Discover
<1>7. CASE Rediscover
  BY <1>7 DEF Rediscover, Changed
<1>8. CASE Refresh
  BY <1>8 DEF Refresh
<1>9. CASE ScanMiss
  BY <1>9 DEF ScanMiss
<1>10. CASE Promote
  BY <1>10 DEF Promote, Promotable
<1>11. CASE DriveCleanup
  BY <1>11 DEF DriveCleanup, CleanupDue
<1>12. CASE DriveForced
  BY <1>12 DEF DriveForced
<1>13. CASE DriveNothing
  BY <1>13 DEF DriveNothing
<1>14. CASE Claim
  BY <1>14 DEF Claim
<1>15. CASE EndTick
  BY <1>15 DEF EndTick
<1>16. ASSUME NEW d \in Dests, LoseObject(d) PROVE Budget'
  BY <1>16 DEF LoseObject
<1>17. ASSUME NEW d \in Dests, Elapse(d) PROVE Budget'
  BY <1>17 DEF Elapse
<1>18. ASSUME NEW d \in Dests, Deliver(d) PROVE Budget'
  BY <1>18 DEF Deliver
<1>19. ASSUME NEW d \in Dests, SaveCheckpoint(d) PROVE Budget'
  BY <1>19 DEF SaveCheckpoint
<1>20. ASSUME NEW d \in Dests, MarkVerified(d) PROVE Budget'
  BY <1>20 DEF MarkVerified
<1>21. ASSUME NEW d \in Dests, FailRetry(d) PROVE Budget'
  BY <1>21 DEF FailRetry
<1>22. ASSUME NEW d \in Dests, FailGiveUp(d) PROVE Budget'
  BY <1>22 DEF FailGiveUp
<1>23. ASSUME NEW d \in Dests, ReleaseSpent(d) PROVE Budget'
  BY <1>23 DEF ReleaseSpent
<1>24. ASSUME NEW d \in Dests, ReverifyOk(d) PROVE Budget'
  BY <1>24 DEF ReverifyOk, Matches
<1>25. ASSUME NEW d \in Dests, ReverifyFail(d) PROVE Budget'
  BY <1>25 DEF ReverifyFail
<1>26. CASE PipelineGiveUp
  BY <1>26 DEF PipelineGiveUp
<1>27. CASE RollUpExhausted
  BY <1>27 DEF RollUpExhausted
<1>28. CASE CountFailed
  BY <1>28 DEF CountFailed, NewlyFailed
<1>29. CASE PipelineVerified
  BY <1>29 DEF PipelineVerified, AllDelivered, Delivered, Joined, GivenUp
<1>30. CASE PipelineRetry
  BY <1>30 DEF PipelineRetry, AllDelivered, Delivered, Joined, GivenUp
<1>31. CASE RecoverSnapshot
  BY <1>31 DEF RecoverSnapshot
<1>32. CASE RecoverReverify
  BY <1>32 DEF RecoverReverify, Recheck
<1>33. CASE RecoverCleanup
  BY <1>33 DEF RecoverCleanup
<1>34. CASE RecoverNothing
  BY <1>34 DEF RecoverNothing
<1>35. CASE RecoverComplete
  BY <1>35 DEF RecoverComplete
<1>36. CASE RecoverRequeue
  BY <1>36 DEF RecoverRequeue
<1>37. CASE RecoverExhausted
  BY <1>37 DEF RecoverExhausted
<1>38. CASE Pause
  BY <1>38 DEF Pause
<1>39. CASE PauseRevert
  BY <1>39 DEF PauseRevert
<1>40. CASE OrphanRun
  BY <1>40 DEF OrphanRun, MoveToFailedDir, ReleaseSource
<1>41. ASSUME NEW t \in Tasks, BeginCleanup(t) PROVE Budget'
  BY <1>41 DEF BeginCleanup
<1>42. ASSUME NEW t \in Tasks, ActRun(t) PROVE Budget'
  BY <1>42 DEF ActRun, ReleaseSource
<1>43. ASSUME NEW t \in Tasks, ActFail(t) PROVE Budget'
  BY <1>43 DEF ActFail
<1>44. ASSUME NEW t \in Tasks, ActUnproven(t) PROVE Budget'
  BY <1>44 DEF ActUnproven, ReleaseSource
<1>45. ASSUME NEW t \in Tasks, FinishCompleted(t) PROVE Budget'
  BY <1>45 DEF FinishCompleted
<1>46. ASSUME NEW t \in Tasks, ClearBookkeeping(t) PROVE Budget'
  BY <1>46 DEF ClearBookkeeping, ClearDestStates, None
<1>47. ASSUME NEW t \in Tasks, CountReplicated(t) PROVE Budget'
  BY <1>47 DEF CountReplicated, AfterCleanup
<1>48. ASSUME NEW t \in Tasks, CleanupFailure(t) PROVE Budget'
  BY <1>48 DEF CleanupFailure, AfterCleanup
<1>49. ASSUME NEW t \in Tasks, Retain(t) PROVE Budget'
  BY <1>49 DEF Retain, AfterFinish
<1>50. ASSUME NEW t \in Tasks, QuarantineMove(t) PROVE Budget'
  BY <1>50 DEF QuarantineMove, MoveToFailedDir
<1>51. ASSUME NEW t \in Tasks, SetQuarantined(t) PROVE Budget'
  BY <1>51 DEF SetQuarantined, AfterFinish
<1>52. ASSUME NEW t \in Tasks, StoreFault(t) PROVE Budget'
  BY <1>52 DEF StoreFault
<1>53. CASE RecheckEnd
  BY <1>53 DEF RecheckEnd
<1>54. ASSUME NEW d \in Dests, RecheckOk(d) PROVE Budget'
  BY <1>54 DEF RecheckOk, Matches
<1>55. ASSUME NEW d \in Dests, RecheckFail(d) PROVE Budget'
  BY <1>55 DEF RecheckFail
<1> HIDE DEF TypeOK, Control, Exclusion, RowAtPoint, Budget, Owed, Fresh,
  Live, Goto
<1> QED
  BY [Next]_vars, <1>0, <1>1, <1>2, <1>3, <1>4, <1>5, <1>6, <1>7, <1>8, <1>9,
    <1>10, <1>11, <1>12, <1>13, <1>14, <1>15, <1>16, <1>17, <1>18, <1>19,
    <1>20, <1>21, <1>22, <1>23, <1>24, <1>25, <1>26, <1>27, <1>28, <1>29,
    <1>30, <1>31, <1>32, <1>33, <1>34, <1>35, <1>36, <1>37, <1>38, <1>39,
    <1>40, <1>41, <1>42, <1>43, <1>44, <1>45, <1>46, <1>47, <1>48, <1>49,
    <1>50, <1>51, <1>52, <1>53, <1>54, <1>55 DEF Next, Environment, Tick,
    Pipeline, Attempt, Cleanup, Finish, Recovery, Revert

\* A version is counted at most once, as replicated or as failed: the
\* transition that precedes the counter is durable, so recovery and the tick
\* never count what the other counted (finish_completed, run_pipeline).
THEOREM CountedOnce ==
    ASSUME ~EarlyTrigger PROVE Spec => []CountedAtMostOnce
<1>1. Init => Budget
  BY DEF Init, Budget, Owed, Fresh, Live
<1>2. /\ TypeOK /\ Control /\ (TypeOK /\ Control)' /\ Budget /\ [Next]_vars
      => Budget'
  BY BudgetStep
<1>3. TypeOK /\ Budget => CountedAtMostOnce
  BY DEF TypeOK, Budget, Owed, Fresh, CountedAtMostOnce
<1> QED
  BY ~EarlyTrigger, ControlInvariant, <1>1, <1>2, <1>3, PTL DEF Spec
-----------------------------------------------------------------------------
\* Every step keeps the content invariant.
LEMMA ContentStep ==
    ASSUME TypeOK, TypeOK', Control, Content, OrderlyEnvironment, [Next]_vars
    PROVE  Content'
<1> USE TypeOK, TypeOK', Control, Content, OrderlyEnvironment,
  ConstantsAssumption DEF TypeOK, Control, Exclusion, RowAtPoint, Authority,
  AuthorisedByAll, Content, Undisturbed, Held, VerifiedIsHeld, Live,
  OrderlyEnvironment, Goto
<1>0. CASE UNCHANGED vars
  BY <1>0 DEF vars
<1>1. CASE Write
  BY <1>1 DEF Write
<1>2. CASE ElapseCleanup
  BY <1>2 DEF ElapseCleanup
<1>3. CASE Crash
  BY <1>3 DEF Crash
<1>4. CASE Restart
  BY <1>4 DEF Restart
<1>5. CASE StartTick
  BY <1>5 DEF StartTick
<1>6. CASE Discover
  BY <1>6 DEF Discover
<1>7. CASE Rediscover
  BY <1>7 DEF Rediscover, ClearDestStates, None, ResetGate
<1>8. CASE Refresh
  BY <1>8 DEF Refresh
<1>9. CASE ScanMiss
  BY <1>9 DEF ScanMiss
<1>10. CASE Promote
  BY <1>10 DEF Promote, Promotable
<1>11. CASE DriveCleanup
  BY <1>11 DEF DriveCleanup, CleanupDue
<1>12. CASE DriveForced
  BY <1>12 DEF DriveForced
<1>13. CASE DriveNothing
  BY <1>13 DEF DriveNothing
<1>14. CASE Claim
  BY <1>14 DEF Claim
<1>15. CASE EndTick
  BY <1>15 DEF EndTick
<1>16. ASSUME NEW d \in Dests, LoseObject(d) PROVE Content'
  BY <1>16 DEF LoseObject
<1>17. ASSUME NEW d \in Dests, Elapse(d) PROVE Content'
  BY <1>17 DEF Elapse
<1>18. ASSUME NEW d \in Dests, Deliver(d) PROVE Content'
  BY <1>18 DEF Deliver
<1>19. ASSUME NEW d \in Dests, SaveCheckpoint(d) PROVE Content'
  BY <1>19 DEF SaveCheckpoint
<1>20. ASSUME NEW d \in Dests, MarkVerified(d) PROVE Content'
  BY <1>20 DEF MarkVerified
<1>21. ASSUME NEW d \in Dests, FailRetry(d) PROVE Content'
  BY <1>21 DEF FailRetry
<1>22. ASSUME NEW d \in Dests, FailGiveUp(d) PROVE Content'
  BY <1>22 DEF FailGiveUp
<1>23. ASSUME NEW d \in Dests, ReleaseSpent(d) PROVE Content'
  BY <1>23 DEF ReleaseSpent
<1>24. ASSUME NEW d \in Dests, ReverifyOk(d) PROVE Content'
  BY <1>24 DEF ReverifyOk, Matches
<1>25. ASSUME NEW d \in Dests, ReverifyFail(d) PROVE Content'
  BY <1>25 DEF ReverifyFail
<1>26. CASE PipelineGiveUp
  BY <1>26 DEF PipelineGiveUp
<1>27. CASE RollUpExhausted
  BY <1>27 DEF RollUpExhausted
<1>28. CASE CountFailed
  BY <1>28 DEF CountFailed, NewlyFailed
<1>29. CASE PipelineVerified
  BY <1>29 DEF PipelineVerified, AllDelivered, Delivered, Joined, GivenUp
<1>30. CASE PipelineRetry
  BY <1>30 DEF PipelineRetry, AllDelivered, Delivered, Joined, GivenUp
<1>31. CASE RecoverSnapshot
  BY <1>31 DEF RecoverSnapshot
<1>32. CASE RecoverReverify
  BY <1>32 DEF RecoverReverify, Recheck
<1>33. CASE RecoverCleanup
  BY <1>33 DEF RecoverCleanup
<1>34. CASE RecoverNothing
  BY <1>34 DEF RecoverNothing
<1>35. CASE RecoverComplete
  BY <1>35 DEF RecoverComplete
<1>36. CASE RecoverRequeue
  BY <1>36 DEF RecoverRequeue
<1>37. CASE RecoverExhausted
  BY <1>37 DEF RecoverExhausted
<1>38. CASE Pause
  BY <1>38 DEF Pause
<1>39. CASE PauseRevert
  BY <1>39 DEF PauseRevert
<1>40. CASE OrphanRun
  BY <1>40 DEF OrphanRun, MoveToFailedDir, ReleaseSource
<1>41. ASSUME NEW t \in Tasks, BeginCleanup(t) PROVE Content'
  BY <1>41 DEF BeginCleanup
<1>42. ASSUME NEW t \in Tasks, ActRun(t) PROVE Content'
  BY <1>42 DEF ActRun, ReleaseSource
<1>43. ASSUME NEW t \in Tasks, ActFail(t) PROVE Content'
  BY <1>43 DEF ActFail
<1>44. ASSUME NEW t \in Tasks, ActUnproven(t) PROVE Content'
  BY <1>44 DEF ActUnproven, ReleaseSource
<1>45. ASSUME NEW t \in Tasks, FinishCompleted(t) PROVE Content'
  BY <1>45 DEF FinishCompleted
<1>46. ASSUME NEW t \in Tasks, ClearBookkeeping(t) PROVE Content'
  BY <1>46 DEF ClearBookkeeping, ClearDestStates, None
<1>47. ASSUME NEW t \in Tasks, CountReplicated(t) PROVE Content'
  BY <1>47 DEF CountReplicated, AfterCleanup
<1>48. ASSUME NEW t \in Tasks, CleanupFailure(t) PROVE Content'
  BY <1>48 DEF CleanupFailure, AfterCleanup
<1>49. ASSUME NEW t \in Tasks, Retain(t) PROVE Content'
  BY <1>49 DEF Retain, AfterFinish
<1>50. ASSUME NEW t \in Tasks, QuarantineMove(t) PROVE Content'
  BY <1>50 DEF QuarantineMove, MoveToFailedDir
<1>51. ASSUME NEW t \in Tasks, SetQuarantined(t) PROVE Content'
  BY <1>51 DEF SetQuarantined, AfterFinish
<1>52. ASSUME NEW t \in Tasks, StoreFault(t) PROVE Content'
  BY <1>52 DEF StoreFault
<1>53. CASE RecheckEnd
  BY <1>53 DEF RecheckEnd
<1>54. ASSUME NEW d \in Dests, RecheckOk(d) PROVE Content'
  BY <1>54 DEF RecheckOk, Matches
<1>55. ASSUME NEW d \in Dests, RecheckFail(d) PROVE Content'
  BY <1>55 DEF RecheckFail
<1> HIDE DEF TypeOK, Control, Exclusion, RowAtPoint, Authority,
  AuthorisedByAll, Content, Undisturbed, Held, VerifiedIsHeld, Live,
  OrderlyEnvironment, Goto
<1> QED
  BY [Next]_vars, <1>0, <1>1, <1>2, <1>3, <1>4, <1>5, <1>6, <1>7, <1>8, <1>9,
    <1>10, <1>11, <1>12, <1>13, <1>14, <1>15, <1>16, <1>17, <1>18, <1>19,
    <1>20, <1>21, <1>22, <1>23, <1>24, <1>25, <1>26, <1>27, <1>28, <1>29,
    <1>30, <1>31, <1>32, <1>33, <1>34, <1>35, <1>36, <1>37, <1>38, <1>39,
    <1>40, <1>41, <1>42, <1>43, <1>44, <1>45, <1>46, <1>47, <1>48, <1>49,
    <1>50, <1>51, <1>52, <1>53, <1>54, <1>55 DEF Next, Environment, Tick,
    Pipeline, Attempt, Cleanup, Finish, Recovery, Revert

HeldByAll == \A d \in Dests : object[d] = src

\* A step that takes the source away from a row that has not given up finds
\* its version at every destination.
LEMMA ReleaseStep ==
    ASSUME TypeOK, Control, Content, OrderlyEnvironment, src # 0, src' = 0,
           state # "exhausted", [Next]_vars
    PROVE  HeldByAll
<1> USE TypeOK, Control, Content, OrderlyEnvironment, src # 0, src' = 0,
  state # "exhausted" DEF TypeOK, Control, RowAtPoint, Authority,
  AuthorisedByAll, Content, Undisturbed, VerifiedIsHeld, Live, Goto,
  HeldByAll
<1>0. CASE UNCHANGED vars
  BY <1>0 DEF vars
<1>1. CASE Write
  BY <1>1 DEF Write
<1>2. CASE ElapseCleanup
  BY <1>2 DEF ElapseCleanup
<1>3. CASE Crash
  BY <1>3 DEF Crash
<1>4. CASE Restart
  BY <1>4 DEF Restart
<1>5. CASE StartTick
  BY <1>5 DEF StartTick
<1>6. CASE Discover
  BY <1>6 DEF Discover
<1>7. CASE Rediscover
  BY <1>7 DEF Rediscover, ClearDestStates, None, ResetGate
<1>8. CASE Refresh
  BY <1>8 DEF Refresh
<1>9. CASE ScanMiss
  BY <1>9 DEF ScanMiss
<1>10. CASE Promote
  BY <1>10 DEF Promote, Promotable
<1>11. CASE DriveCleanup
  BY <1>11 DEF DriveCleanup, CleanupDue
<1>12. CASE DriveForced
  BY <1>12 DEF DriveForced
<1>13. CASE DriveNothing
  BY <1>13 DEF DriveNothing
<1>14. CASE Claim
  BY <1>14 DEF Claim
<1>15. CASE EndTick
  BY <1>15 DEF EndTick
<1>16. ASSUME NEW d \in Dests, LoseObject(d) PROVE HeldByAll
  BY <1>16 DEF LoseObject
<1>17. ASSUME NEW d \in Dests, Elapse(d) PROVE HeldByAll
  BY <1>17 DEF Elapse
<1>18. ASSUME NEW d \in Dests, Deliver(d) PROVE HeldByAll
  BY <1>18 DEF Deliver
<1>19. ASSUME NEW d \in Dests, SaveCheckpoint(d) PROVE HeldByAll
  BY <1>19 DEF SaveCheckpoint
<1>20. ASSUME NEW d \in Dests, MarkVerified(d) PROVE HeldByAll
  BY <1>20 DEF MarkVerified
<1>21. ASSUME NEW d \in Dests, FailRetry(d) PROVE HeldByAll
  BY <1>21 DEF FailRetry
<1>22. ASSUME NEW d \in Dests, FailGiveUp(d) PROVE HeldByAll
  BY <1>22 DEF FailGiveUp
<1>23. ASSUME NEW d \in Dests, ReleaseSpent(d) PROVE HeldByAll
  BY <1>23 DEF ReleaseSpent
<1>24. ASSUME NEW d \in Dests, ReverifyOk(d) PROVE HeldByAll
  BY <1>24 DEF ReverifyOk, Matches
<1>25. ASSUME NEW d \in Dests, ReverifyFail(d) PROVE HeldByAll
  BY <1>25 DEF ReverifyFail
<1>26. CASE PipelineGiveUp
  BY <1>26 DEF PipelineGiveUp
<1>27. CASE RollUpExhausted
  BY <1>27 DEF RollUpExhausted
<1>28. CASE CountFailed
  BY <1>28 DEF CountFailed, NewlyFailed
<1>29. CASE PipelineVerified
  BY <1>29 DEF PipelineVerified, AllDelivered, Delivered, Joined, GivenUp
<1>30. CASE PipelineRetry
  BY <1>30 DEF PipelineRetry, AllDelivered, Delivered, Joined, GivenUp
<1>31. CASE RecoverSnapshot
  BY <1>31 DEF RecoverSnapshot
<1>32. CASE RecoverReverify
  BY <1>32 DEF RecoverReverify, Recheck
<1>33. CASE RecoverCleanup
  BY <1>33 DEF RecoverCleanup
<1>34. CASE RecoverNothing
  BY <1>34 DEF RecoverNothing
<1>35. CASE RecoverComplete
  BY <1>35 DEF RecoverComplete
<1>36. CASE RecoverRequeue
  BY <1>36 DEF RecoverRequeue
<1>37. CASE RecoverExhausted
  BY <1>37 DEF RecoverExhausted
<1>38. CASE Pause
  BY <1>38 DEF Pause
<1>39. CASE PauseRevert
  BY <1>39 DEF PauseRevert
<1>40. CASE OrphanRun
  BY <1>40 DEF OrphanRun, MoveToFailedDir, ReleaseSource
<1>41. ASSUME NEW t \in Tasks, BeginCleanup(t) PROVE HeldByAll
  BY <1>41 DEF BeginCleanup
<1>42. ASSUME NEW t \in Tasks, ActRun(t) PROVE HeldByAll
  BY <1>42 DEF ActRun, ReleaseSource
<1>43. ASSUME NEW t \in Tasks, ActFail(t) PROVE HeldByAll
  BY <1>43 DEF ActFail
<1>44. ASSUME NEW t \in Tasks, ActUnproven(t) PROVE HeldByAll
  BY <1>44 DEF ActUnproven, ReleaseSource
<1>45. ASSUME NEW t \in Tasks, FinishCompleted(t) PROVE HeldByAll
  BY <1>45 DEF FinishCompleted
<1>46. ASSUME NEW t \in Tasks, ClearBookkeeping(t) PROVE HeldByAll
  BY <1>46 DEF ClearBookkeeping, ClearDestStates, None
<1>47. ASSUME NEW t \in Tasks, CountReplicated(t) PROVE HeldByAll
  BY <1>47 DEF CountReplicated, AfterCleanup
<1>48. ASSUME NEW t \in Tasks, CleanupFailure(t) PROVE HeldByAll
  BY <1>48 DEF CleanupFailure, AfterCleanup
<1>49. ASSUME NEW t \in Tasks, Retain(t) PROVE HeldByAll
  BY <1>49 DEF Retain, AfterFinish
<1>50. ASSUME NEW t \in Tasks, QuarantineMove(t) PROVE HeldByAll
  BY <1>50 DEF QuarantineMove, MoveToFailedDir
<1>51. ASSUME NEW t \in Tasks, SetQuarantined(t) PROVE HeldByAll
  BY <1>51 DEF SetQuarantined, AfterFinish
<1>52. ASSUME NEW t \in Tasks, StoreFault(t) PROVE HeldByAll
  BY <1>52 DEF StoreFault
<1>53. CASE RecheckEnd
  BY <1>53 DEF RecheckEnd
<1>54. ASSUME NEW d \in Dests, RecheckOk(d) PROVE HeldByAll
  BY <1>54 DEF RecheckOk, Matches
<1>55. ASSUME NEW d \in Dests, RecheckFail(d) PROVE HeldByAll
  BY <1>55 DEF RecheckFail
<1> HIDE DEF TypeOK, Control, RowAtPoint, Authority, AuthorisedByAll,
  Content, Undisturbed, VerifiedIsHeld, Live, Goto, HeldByAll
<1> QED
  BY [Next]_vars, <1>0, <1>1, <1>2, <1>3, <1>4, <1>5, <1>6, <1>7, <1>8, <1>9,
    <1>10, <1>11, <1>12, <1>13, <1>14, <1>15, <1>16, <1>17, <1>18, <1>19,
    <1>20, <1>21, <1>22, <1>23, <1>24, <1>25, <1>26, <1>27, <1>28, <1>29,
    <1>30, <1>31, <1>32, <1>33, <1>34, <1>35, <1>36, <1>37, <1>38, <1>39,
    <1>40, <1>41, <1>42, <1>43, <1>44, <1>45, <1>46, <1>47, <1>48, <1>49,
    <1>50, <1>51, <1>52, <1>53, <1>54, <1>55 DEF Next, Environment, Tick,
    Pipeline, Attempt, Cleanup, Finish, Recovery, Revert

\* The content invariant holds in an orderly environment.
LEMMA ContentInvariant ==
    ASSUME OrderlyEnvironment PROVE Spec => [](TypeOK /\ Control /\ Content)
<1>1. ~EarlyTrigger
  BY OrderlyEnvironment DEF OrderlyEnvironment
<1>2. Init => Content
  BY DEF Init, Content, Undisturbed, Held, VerifiedIsHeld, Live
<1>3. /\ TypeOK /\ Control /\ (TypeOK /\ Control)' /\ Content /\ [Next]_vars
      => Content'
  BY ContentStep, OrderlyEnvironment
<1> QED
  BY <1>1, ControlInvariant, <1>2, <1>3, PTL DEF Spec

\* In an orderly environment a destination recorded as verified holds the
\* source's version, or recovery's re-check of it is still ahead.
THEOREM VerifiedHeld ==
    ASSUME OrderlyEnvironment PROVE Spec => []VerifiedIsHeld
<1>1. TypeOK /\ Control /\ Content => VerifiedIsHeld
  BY DEF Content
<1> QED
  BY OrderlyEnvironment, ContentInvariant, <1>1, PTL

\* The main result: in an orderly environment the source is never deleted or
\* archived while some destination lacks its version, for any number of
\* destinations, retries, crashes and store faults, and with objects lost in
\* downtimes of in_progress and verified rows (run_cleanup, recover).
THEOREM SourceReleasedOnlyWhenDelivered ==
    ASSUME OrderlyEnvironment PROVE Spec => NoUndeliveredRelease
<1>1. /\ TypeOK /\ Control /\ Content /\ [Next]_vars
      => [src # 0 /\ src' = 0 /\ state # "exhausted"
             => \A d \in Dests : object[d] = src]_vars
  BY ReleaseStep, OrderlyEnvironment DEF HeldByAll
<1> QED
  BY OrderlyEnvironment, ContentInvariant, <1>1, PTL
  DEF Spec, NoUndeliveredRelease
=============================================================================
