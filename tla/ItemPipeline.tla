---------------------------- MODULE ItemPipeline ----------------------------
(***************************************************************************)
(* The life of ONE tracked file of one replication instance: its durable   *)
(* row, its per-destination rows, the source file, the objects at the      *)
(* destinations, and the two tasks that move it -- the reconciliation tick *)
(* (discover, promote, re-drive cleanup, claim, fan out, complete) and the *)
(* crash-recovery pass.  Rows of different files never touch each other,   *)
(* so one row is the unit of correctness.                                  *)
(*                                                                         *)
(* A version of the file is a number; 0 is "no file" or "no checkpoint".   *)
(* Two versions differ in mtime and in checksum (completion.verify is      *)
(* checksum).  The clock is abstracted: a backoff gate is closed when it   *)
(* is armed and opens at any later moment.  One store call is one step, so *)
(* the process can die between any two of them.                            *)
(***************************************************************************)
EXTENDS Naturals, Sequences, FiniteSets

CONSTANTS N,            \* number of configured destinations, in config order
          MaxAttempts,  \* retry.maxAttempts, for transfers and for cleanup
          OnSuccess,    \* "delete" | "archive" (onCollision = suffix)
          OnExhausted,  \* "quarantine" | "retainInPlace"
          CreateStates, \* row states in which the producer creates the file
          RewriteStates,\* row states in which it overwrites an existing one
          LossStates,   \* row states whose objects suffer in a downtime
          Damage,       \* what a damaged object becomes: Lost, Corrupt
          EarlyTrigger, \* an operator trigger may arrive while recovery runs
          MaxVersion,   \* bound: versions the producer writes
          MaxForced,    \* bound: cleanup attempts up to which triggers come
          MaxCrashes,   \* bound: process crashes
          MaxFaults,    \* bound: durable-store faults
          MaxPauses     \* bound: window closes with onWindowClose=pauseResume

ItemStates == {"ready", "in_progress", "verified", "cleanup_pending",
               "cleanup_failed", "completed", "failed", "exhausted",
               "quarantined", "retained"}
RowStates == ItemStates \cup {"none"}    \* "none": the file has no row yet
Terminal == {"completed", "quarantined", "retained"}
Phases == {"pending", "verified", "exhausted"}
Dests == 1 .. N
Lost == 0                  \* the object is gone
Corrupt == MaxVersion + 1  \* its size is right and its checksum is not
Tasks == {"tick", "recover"}

ASSUME ConstantsAssumption ==
    /\ N \in Nat \ {0} /\ MaxAttempts \in Nat \ {0}
    /\ OnSuccess \in {"delete", "archive"}
    /\ OnExhausted \in {"quarantine", "retainInPlace"}
    /\ CreateStates \subseteq RowStates /\ RewriteStates \subseteq RowStates
    /\ LossStates \subseteq RowStates
    /\ Damage \subseteq {Lost, Corrupt}
    /\ EarlyTrigger \in BOOLEAN /\ MaxPauses \in Nat
    /\ MaxVersion \in Nat /\ MaxForced \in Nat
    /\ MaxCrashes \in Nat /\ MaxFaults \in Nat

(***************************************************************************)
(* Where a task stands.  The first line is the tick's own stages, the      *)
(* second its re-check of a row a window close found verified and the      *)
(* recovery pass, the rest the handlers both run: run_pipeline, *)
(* finish_exhausted and run_cleanup.                                       *)
(***************************************************************************)
Points == {"down", "idle", "scan", "promote", "drive", "claim", "revert",
           "recheck", "snapshot", "dispatch", "reverify", "exhaustedRows", "done",
           "fanout", "giveUp", "countFailed", "finish", "moved",
           "cleanup", "act", "acted", "actFailed", "actRefused",
           "clear", "countReplicated"}
Jobs == {"idle", "run", "published", "checkpointed", "verified", "retry",
         "spent", "giveUp"}

VARIABLES
    \* the work_items row
    state, sig, gate, cleanupAttempts,
    \* its dest_state and resume rows
    phase, attempts, backoff, checkpoint,
    \* the stats row
    replicated, failed,
    \* the file system and the destinations
    src, written, object, archive, quarantine,
    \* task-local state: lost when the process dies
    pc, job, wasExhausted, expected, snapshot, toVerify, allOk, orphan, batch,
    \* bounds
    crashes, faults, pauses

row    == <<state, sig, gate, cleanupAttempts>>
destRows == <<phase, attempts, backoff>>
fan    == <<destRows, checkpoint>>
stats  == <<replicated, failed>>
world  == <<src, written, object, archive, quarantine>>
fanJob == <<job, wasExhausted>>
recLoc == <<snapshot, toVerify, allOk>>
local  == <<fanJob, expected, recLoc, orphan, batch>>
bounds == <<crashes, faults, pauses>>
vars   == <<row, fan, stats, world, pc, local, bounds>>

\* Every row, gate, task and counter keeps its type.
TypeOK ==
    /\ state \in RowStates /\ sig \in Nat /\ cleanupAttempts \in Nat
    /\ gate \in {"open", "wait", "never"}
    /\ phase \in [Dests -> Phases] /\ attempts \in [Dests -> Nat]
    /\ backoff \in [Dests -> BOOLEAN] /\ checkpoint \in [Dests -> Nat]
    /\ replicated \in Nat /\ failed \in Nat
    /\ src \in Nat /\ written \in Nat /\ object \in [Dests -> Nat]
    /\ archive \in Seq(Nat) /\ quarantine \in SUBSET Nat
    /\ pc \in [Tasks -> Points] /\ job \in [Dests -> Jobs]
    /\ wasExhausted \in SUBSET Dests /\ expected \in [Tasks -> Nat]
    /\ snapshot \in RowStates /\ toVerify \in SUBSET Dests
    /\ allOk \in BOOLEAN /\ batch \in BOOLEAN
    /\ orphan \in {"none", "cleanup", "quarantine"}
    /\ crashes \in Nat /\ faults \in Nat /\ pauses \in Nat

Goto(t, p) == pc' = [pc EXCEPT ![t] = p]
None == [d \in Dests |-> 0]
Idle == [d \in Dests |-> "idle"]

\* A destination without a row reads as pending, never attempted, due.
ClearDestStates ==
    /\ phase' = [d \in Dests |-> "pending"] /\ attempts' = None
    /\ backoff' = [d \in Dests |-> FALSE]

Init ==
    /\ state = "none" /\ sig = 0 /\ gate = "open" /\ cleanupAttempts = 0
    /\ phase = [d \in Dests |-> "pending"] /\ attempts = None
    /\ backoff = [d \in Dests |-> FALSE] /\ checkpoint = None
    /\ replicated = 0 /\ failed = 0
    /\ src = 0 /\ written = 0 /\ object = None
    /\ archive = <<>> /\ quarantine = {}
    /\ pc = [t \in Tasks |-> "down"] /\ job = Idle /\ wasExhausted = {}
    /\ expected = [t \in Tasks |-> 0]
    /\ snapshot = "none" /\ toVerify = {} /\ allOk = TRUE
    /\ orphan = "none" /\ batch = FALSE
    /\ crashes = 0 /\ faults = 0 /\ pauses = 0

(***************************************************************************)
(* The environment: the producer, the destinations' media, the clock, the  *)
(* process.                                                                *)
(***************************************************************************)
\* A producer that reuses the name writes a new version over the path.
Write ==
    /\ state \in IF src = 0 THEN CreateStates ELSE RewriteStates
    /\ written < MaxVersion
    /\ written' = written + 1 /\ src' = written + 1
    /\ UNCHANGED <<row, fan, stats, object, archive, quarantine, pc, local,
                   bounds>>

\* A delivered object is lost or corrupted while the process is down.
LoseObject(d) ==
    /\ pc["tick"] = "down" /\ state \in LossStates /\ object[d] # 0
    /\ \E v \in Damage : object' = [object EXCEPT ![d] = v]
    /\ UNCHANGED <<row, fan, stats, src, written, archive, quarantine, pc,
                   local, bounds>>

\* The clock passes destination d's gate; a failed row carries the earliest
\* gate of its pending destinations, so its own gate has passed as well.
Elapse(d) ==
    /\ state \in {"failed", "ready"} /\ backoff[d]
    /\ backoff' = [backoff EXCEPT ![d] = FALSE]
    /\ gate' = IF state = "failed" THEN "open" ELSE gate
    /\ UNCHANGED <<state, sig, cleanupAttempts, phase, attempts, checkpoint,
                   stats, world, pc, local, bounds>>

\* The clock passes the cleanup gate of a cleanup_failed row.
ElapseCleanup ==
    /\ state = "cleanup_failed" /\ gate = "wait"
    /\ gate' = "open"
    /\ UNCHANGED <<state, sig, cleanupAttempts, fan, stats, world, pc, local,
                   bounds>>

\* The process dies (a clean stop is the same thing): only durable state and
\* the file systems survive.
Crash ==
    /\ pc["tick"] # "down" /\ crashes < MaxCrashes
    /\ crashes' = crashes + 1
    /\ pc' = [t \in Tasks |-> "down"]
    /\ job' = Idle /\ wasExhausted' = {} /\ expected' = [t \in Tasks |-> 0]
    /\ snapshot' = "none" /\ toVerify' = {} /\ allOk' = TRUE
    /\ orphan' = "none" /\ batch' = FALSE
    /\ UNCHANGED <<row, fan, stats, world, faults, pauses>>

\* Instance::run starts: the recovery pass first, ticks after it.
Restart ==
    /\ pc["tick"] = "down"
    /\ pc' = [t \in Tasks |-> IF t = "tick" THEN "idle" ELSE "snapshot"]
    /\ UNCHANGED <<row, fan, stats, world, local, bounds>>
-----------------------------------------------------------------------------
(***************************************************************************)
(* The tick: discover and enqueue, promote, re-drive cleanup, claim.       *)
(***************************************************************************)
\* A rescan, a watch nudge or an operator trigger starts a tick.  The run loop
\* ticks only after recovery; a trigger is not held back by it.
StartTick ==
    /\ pc["tick"] = "idle"
    /\ pc["recover"] = "done" \/ EarlyTrigger
    /\ Goto("tick", "scan")
    /\ UNCHANGED <<row, fan, stats, world, local, bounds>>

\* The stored size or mtime differs from the file's.
Changed_SizeOnly == FALSE
Changed_Always == TRUE
Changed == sig # src

\* The reset of the row's next_attempt_at.
ResetGate == gate' = "open"

\* The file has no row: insert it as ready.
Discover ==
    /\ pc["tick"] = "scan" /\ src # 0 /\ state = "none"
    /\ state' = "ready" /\ sig' = src
    /\ Goto("tick", "promote")
    /\ UNCHANGED <<gate, cleanupAttempts, fan, stats, world, local, bounds>>

\* A terminal row whose size or mtime differs is a new file: start over, and
\* drop the bookkeeping of the file it replaces.
Rediscover ==
    /\ pc["tick"] = "scan" /\ src # 0 /\ state \in Terminal /\ Changed
    /\ state' = "ready" /\ sig' = src /\ ResetGate
    /\ cleanupAttempts' = 0
    /\ ClearDestStates /\ checkpoint' = None
    /\ Goto("tick", "promote")
    /\ UNCHANGED <<stats, world, local, bounds>>

\* Any other known row keeps its state; only its signature is refreshed.
Refresh ==
    /\ pc["tick"] = "scan" /\ src # 0 /\ state # "none"
    /\ state \in Terminal => ~Changed
    /\ sig' = src
    /\ Goto("tick", "promote")
    /\ UNCHANGED <<state, gate, cleanupAttempts, fan, stats, world, local,
                   bounds>>

\* The file is absent, or the watcher does not judge it ready yet.
ScanMiss ==
    /\ pc["tick"] = "scan" /\ Goto("tick", "promote")
    /\ UNCHANGED <<row, fan, stats, world, local, bounds>>

\* promote_due: a failed row whose gate has passed becomes ready.
Promotable == state = "failed" /\ gate = "open"

Promote ==
    /\ pc["tick"] = "promote" /\ Goto("tick", "drive")
    /\ state' = IF Promotable THEN "ready" ELSE state
    /\ UNCHANGED <<sig, gate, cleanupAttempts, fan, stats, world, local,
                   bounds>>

CleanupDue_PendingOnly == state = "cleanup_pending"
CleanupDue == \/ state = "cleanup_pending"
              \/ state = "cleanup_failed" /\ gate = "open"

\* drive_cleanup picks up an owed completion action ...
DriveCleanup ==
    /\ pc["tick"] = "drive" /\ CleanupDue /\ Goto("tick", "cleanup")
    /\ UNCHANGED <<row, fan, stats, world, local, bounds>>

\* ... whatever its gate when the tick is an operator trigger ...
DriveForced ==
    /\ pc["tick"] = "drive" /\ state = "cleanup_failed" /\ gate # "open"
    /\ cleanupAttempts < MaxForced
    /\ Goto("tick", "cleanup")
    /\ UNCHANGED <<row, fan, stats, world, local, bounds>>

\* ... and passes over every other row.
DriveNothing ==
    /\ pc["tick"] = "drive" /\ ~CleanupDue /\ Goto("tick", "claim")
    /\ UNCHANGED <<row, fan, stats, world, local, bounds>>

\* claim_ready, then run_pipeline reads the destination rows: every
\* destination that is neither verified nor backing off is attempted.
Claim ==
    /\ pc["tick"] = "claim" /\ state = "ready" /\ gate = "open"
    /\ state' = "in_progress" /\ batch' = TRUE
    /\ job' = [d \in Dests |-> IF phase[d] # "verified" /\ ~backoff[d]
                               THEN "run" ELSE "idle"]
    /\ wasExhausted' = {d \in Dests : phase[d] = "exhausted"}
    /\ Goto("tick", "fanout")
    /\ UNCHANGED <<sig, gate, cleanupAttempts, fan, stats, world, expected,
                   recLoc, orphan, bounds>>

\* Nothing (more) of this file to claim, or the schedule admits nothing.
EndTick ==
    /\ pc["tick"] = "claim" /\ Goto("tick", "idle") /\ batch' = FALSE
    /\ UNCHANGED <<row, fan, stats, world, fanJob, expected, recLoc, orphan,
                   bounds>>
-----------------------------------------------------------------------------
(***************************************************************************)
(* run_one_dest: the independent attempt at one destination.               *)
(***************************************************************************)
\* Dropping the checkpoints of D is best effort: a store fault keeps them.
DropCheckpoints(D) ==
    \/ /\ checkpoint' = [d \in Dests |-> IF d \in D THEN 0 ELSE checkpoint[d]]
       /\ UNCHANGED faults
    \/ faults < MaxFaults /\ faults' = faults + 1 /\ UNCHANGED checkpoint

\* The source streams to a temporary name and is published atomically, then
\* verified by re-hash.
Deliver(d) ==
    /\ pc["tick"] = "fanout" /\ job[d] = "run" /\ src # 0
    /\ object' = [object EXCEPT ![d] = src]
    /\ job' = [job EXCEPT ![d] = "published"]
    /\ UNCHANGED <<row, fan, stats, src, written, archive, quarantine, pc,
                   wasExhausted, expected, recLoc, orphan, batch, bounds>>

\* save_verified_checkpoint, best effort: a store fault only costs recovery
\* the checksum.
SaveCheckpoint(d) ==
    /\ pc["tick"] = "fanout" /\ job[d] = "published"
    /\ job' = [job EXCEPT ![d] = "checkpointed"]
    /\ \/ /\ checkpoint' = [checkpoint EXCEPT ![d] = object[d]]
          /\ UNCHANGED faults
       \/ /\ faults < MaxFaults /\ faults' = faults + 1
          /\ UNCHANGED checkpoint
    /\ UNCHANGED <<row, phase, attempts, backoff, stats, world, pc,
                   wasExhausted, expected, recLoc, orphan, batch, crashes,
                   pauses>>

MarkVerified(d) ==
    /\ pc["tick"] = "fanout" /\ job[d] = "checkpointed"
    /\ phase' = [phase EXCEPT ![d] = "verified"]
    /\ job' = [job EXCEPT ![d] = "verified"]
    /\ UNCHANGED <<row, attempts, backoff, checkpoint, stats, world, pc,
                   wasExhausted, expected, recLoc, orphan, batch, bounds>>

\* deliver or verify failed and RetryPolicy::decide schedules a retry.
FailRetry(d) ==
    /\ pc["tick"] = "fanout" /\ job[d] \in {"run", "published"}
    /\ attempts[d] + 1 < MaxAttempts
    /\ attempts' = [attempts EXCEPT ![d] = @ + 1]
    /\ phase' = [phase EXCEPT ![d] = "pending"]
    /\ backoff' = [backoff EXCEPT ![d] = TRUE]
    /\ job' = [job EXCEPT ![d] = "retry"]
    /\ UNCHANGED <<row, checkpoint, stats, world, pc, wasExhausted, expected,
                   recLoc, orphan, batch, bounds>>

\* It failed for good: the budget is spent, or the error is permanent (a
\* missing source is).
FailGiveUp(d) ==
    /\ pc["tick"] = "fanout" /\ job[d] \in {"run", "published"}
    /\ attempts' = [attempts EXCEPT ![d] = @ + 1]
    /\ phase' = [phase EXCEPT ![d] = "exhausted"]
    /\ backoff' = [backoff EXCEPT ![d] = FALSE]
    /\ job' = [job EXCEPT ![d] = "spent"]
    /\ UNCHANGED <<row, checkpoint, stats, world, pc, wasExhausted, expected,
                   recLoc, orphan, batch, bounds>>

\* The partial transfer is aborted and the destination's checkpoint dropped.
ReleaseSpent(d) ==
    /\ pc["tick"] = "fanout" /\ job[d] = "spent"
    /\ DropCheckpoints({d})
    /\ job' = [job EXCEPT ![d] = "giveUp"]
    /\ UNCHANGED <<row, destRows, stats, world, pc, wasExhausted, expected,
                   recLoc, orphan, batch, crashes, pauses>>
-----------------------------------------------------------------------------
(***************************************************************************)
(* run_pipeline: every attempt has joined; roll the item up.               *)
(***************************************************************************)
Joined == \A d \in Dests : job[d] \in {"idle", "verified", "retry", "giveUp"}
GivenUp == {d \in Dests : job[d] = "giveUp"}
Delivered == {d \in Dests : \/ job[d] = "verified"
                            \/ job[d] = "idle" /\ phase[d] = "verified"}

\* Every configured destination is verified (verified.len() == dests.len()).
AllDelivered == Delivered = Dests

\* What filesFailed moves by: only a destination that was not exhausted before
\* this round counts.
NewlyFailed == IF GivenUp \ wasExhausted # {} THEN 1 ELSE 0

\* A destination gave up: the item cannot complete, so the still pending
\* destinations are aborted and lose their checkpoints.
PipelineGiveUp ==
    /\ pc["tick"] = "fanout" /\ Joined /\ GivenUp # {}
    /\ DropCheckpoints(Dests \ (Delivered \cup GivenUp))
    /\ Goto("tick", "giveUp")
    /\ UNCHANGED <<row, destRows, stats, world, local, crashes, pauses>>

RollUpExhausted ==
    /\ pc["tick"] = "giveUp" /\ state' = "exhausted" /\ gate' = "open"
    /\ Goto("tick", "countFailed")
    /\ UNCHANGED <<sig, cleanupAttempts, fan, stats, world, local, bounds>>

CountFailed ==
    /\ pc["tick"] = "countFailed" /\ Goto("tick", "finish")
    /\ failed' = failed + NewlyFailed
    /\ job' = Idle /\ wasExhausted' = {}
    /\ UNCHANGED <<row, fan, replicated, world, expected, recLoc, orphan,
                   batch, bounds>>

\* Every destination is verified: the write-ahead point of the completion.
PipelineVerified ==
    /\ pc["tick"] = "fanout" /\ Joined /\ GivenUp = {} /\ AllDelivered
    /\ state' = "verified" /\ Goto("tick", "cleanup")
    /\ job' = Idle /\ wasExhausted' = {}
    /\ UNCHANGED <<sig, gate, cleanupAttempts, fan, stats, world, expected,
                   recLoc, orphan, batch, bounds>>

\* Some destination is still pending: failed, gated at the earliest gate.
PipelineRetry ==
    /\ pc["tick"] = "fanout" /\ Joined /\ GivenUp = {} /\ ~AllDelivered
    /\ state' = "failed" /\ gate' = "wait" /\ Goto("tick", "claim")
    /\ job' = Idle /\ wasExhausted' = {}
    /\ UNCHANGED <<sig, cleanupAttempts, fan, stats, world, expected, recLoc,
                   orphan, batch, bounds>>
-----------------------------------------------------------------------------
(***************************************************************************)
(* run_cleanup, run by the tick or by recovery.                            *)
(***************************************************************************)
AfterCleanup(t) == IF t = "tick" THEN "claim" ELSE "exhaustedRows"

\* The checksum in the first destination's verified checkpoint, 0 if none has.
DeliveredChecksum ==
    LET held == {d \in Dests : checkpoint[d] # 0}
        first == {d \in held : \A e \in held : d <= e}
    IN IF first = {} THEN 0 ELSE checkpoint[CHOOSE d \in first : TRUE]

\* cleanup_pending is persisted before the file system is touched.
BeginCleanup(t) ==
    /\ pc[t] = "cleanup" /\ state' = "cleanup_pending"
    /\ expected' = [expected EXCEPT ![t] = DeliveredChecksum]
    /\ Goto(t, "act")
    /\ UNCHANGED <<sig, gate, cleanupAttempts, fan, stats, world, fanJob,
                   recLoc, orphan, batch, bounds>>

Matches(v, sum) == sum = 0 \/ v = sum

\* What apply_success_action does to the file system when nothing fails.
ReleaseSource ==
    /\ src' = 0
    /\ archive' = IF OnSuccess = "archive" /\ src # 0
                  THEN Append(archive, src) ELSE archive

\* The copy verify_archived looks at: the target of the move just made, or the
\* un-suffixed name when the source was already gone; 0 if there is none.
ArchivedCopy == IF src # 0 THEN src
                ELSE IF archive = <<>> THEN 0 ELSE Head(archive)

\* The action ran; an archived copy that does not match is refused for good.
ActRun(t) ==
    /\ pc[t] = "act" /\ ReleaseSource
    /\ Goto(t, IF OnSuccess = "archive" /\ ArchivedCopy # 0
                    /\ ~Matches(ArchivedCopy, expected[t])
               THEN "actRefused" ELSE "acted")
    /\ expected' = [expected EXCEPT ![t] = 0]
    /\ UNCHANGED <<row, fan, stats, written, object, quarantine, fanJob,
                   recLoc, orphan, batch, bounds>>

\* The action failed before the source was released: a transient error is
\* retried, a permanent one is not.
ActFail(t) ==
    /\ pc[t] = "act" /\ src # 0
    /\ \E p \in {"actFailed", "actRefused"} : Goto(t, p)
    /\ expected' = [expected EXCEPT ![t] = 0]
    /\ UNCHANGED <<row, fan, stats, world, fanJob, recLoc, orphan, batch,
                   bounds>>

\* The source was archived but the copy could not be read back.
ActUnproven(t) ==
    /\ pc[t] = "act" /\ OnSuccess = "archive" /\ ArchivedCopy # 0
    /\ ReleaseSource /\ Goto(t, "actFailed")
    /\ expected' = [expected EXCEPT ![t] = 0]
    /\ UNCHANGED <<row, fan, stats, written, object, quarantine, fanJob,
                   recLoc, orphan, batch, bounds>>

FinishCompleted(t) ==
    /\ pc[t] = "acted" /\ state' = "completed" /\ Goto(t, "clear")
    /\ UNCHANGED <<sig, gate, cleanupAttempts, fan, stats, world, local,
                   bounds>>

\* clear_resume_all and clear_dest_states, each best effort.
ClearBookkeeping(t) ==
    /\ pc[t] = "clear" /\ Goto(t, "countReplicated")
    /\ \/ checkpoint' = None /\ ClearDestStates /\ UNCHANGED faults
       \/ /\ faults < MaxFaults /\ faults' = faults + 1
          /\ \/ checkpoint' = None /\ UNCHANGED destRows
             \/ ClearDestStates /\ UNCHANGED checkpoint
             \/ UNCHANGED fan
    /\ UNCHANGED <<row, stats, world, local, crashes, pauses>>

CountReplicated(t) ==
    /\ pc[t] = "countReplicated" /\ replicated' = replicated + 1
    /\ Goto(t, AfterCleanup(t))
    /\ UNCHANGED <<row, fan, failed, world, local, bounds>>

\* record_cleanup_failure: back off, or park the row for an operator.
CleanupFailure(t) ==
    /\ pc[t] \in {"actFailed", "actRefused"} /\ state' = "cleanup_failed"
    /\ cleanupAttempts' = cleanupAttempts + 1
    /\ gate' = IF pc[t] = "actRefused" \/ cleanupAttempts + 1 >= MaxAttempts
               THEN "never" ELSE "wait"
    /\ Goto(t, AfterCleanup(t))
    /\ UNCHANGED <<sig, fan, stats, world, local, bounds>>
-----------------------------------------------------------------------------
(***************************************************************************)
(* finish_exhausted, run by the tick or by recovery.                       *)
(***************************************************************************)
AfterFinish(t) == IF t = "tick" THEN "claim" ELSE "done"

Retain(t) ==
    /\ pc[t] = "finish" /\ OnExhausted = "retainInPlace"
    /\ state' = "retained" /\ Goto(t, AfterFinish(t))
    /\ UNCHANGED <<sig, gate, cleanupAttempts, fan, stats, world, local,
                   bounds>>

MoveToFailedDir == /\ src # 0 /\ src' = 0
                   /\ quarantine' = quarantine \cup {src}
                   /\ UNCHANGED <<written, object, archive>>

\* The move to failedDir; its failure is only logged.
QuarantineMove(t) ==
    /\ pc[t] = "finish" /\ OnExhausted = "quarantine" /\ Goto(t, "moved")
    /\ MoveToFailedDir \/ UNCHANGED world
    /\ UNCHANGED <<row, fan, stats, local, bounds>>

SetQuarantined(t) ==
    /\ pc[t] = "moved" /\ state' = "quarantined" /\ Goto(t, AfterFinish(t))
    /\ UNCHANGED <<sig, gate, cleanupAttempts, fan, stats, world, local,
                   bounds>>
-----------------------------------------------------------------------------
(***************************************************************************)
(* Worker::recover.                                                        *)
(***************************************************************************)
\* recover_incomplete lists the rows once; each is dealt with later.
RecoverSnapshot ==
    /\ pc["recover"] = "snapshot" /\ snapshot' = state
    /\ Goto("recover", "dispatch")
    /\ UNCHANGED <<row, fan, stats, world, fanJob, expected, toVerify, allOk,
                   orphan, batch, bounds>>

\* verified: re-verify every destination; in_progress: the verified ones.
Recheck_VerifiedRowsOnly == IF snapshot = "verified" THEN Dests ELSE {}
Recheck == {d \in Dests : snapshot = "verified" \/ phase[d] = "verified"}

RecoverReverify ==
    /\ pc["recover"] = "dispatch" /\ snapshot \in {"verified", "in_progress"}
    /\ toVerify' = Recheck
    /\ allOk' = TRUE /\ Goto("recover", "reverify")
    /\ UNCHANGED <<row, fan, stats, world, fanJob, expected, snapshot, orphan,
                   batch, bounds>>

\* cleanup_pending: the completion action is run again as it stands.
RecoverCleanup ==
    /\ pc["recover"] = "dispatch" /\ snapshot = "cleanup_pending"
    /\ Goto("recover", "cleanup")
    /\ UNCHANGED <<row, fan, stats, world, local, bounds>>

RecoverNothing ==
    /\ pc["recover"] = "dispatch"
    /\ snapshot \notin {"verified", "in_progress", "cleanup_pending"}
    /\ Goto("recover", "exhaustedRows")
    /\ UNCHANGED <<row, fan, stats, world, local, bounds>>

\* The object is there with the checkpointed checksum (without a checkpoint
\* only its size is compared).
ReverifyOk(d) ==
    /\ pc["recover"] = "reverify" /\ d \in toVerify
    /\ object[d] # 0 /\ Matches(object[d], checkpoint[d])
    /\ phase' = [phase EXCEPT ![d] = "verified"]
    /\ toVerify' = toVerify \ {d}
    /\ UNCHANGED <<row, attempts, backoff, checkpoint, stats, world, pc,
                   fanJob, expected, snapshot, allOk, orphan, batch, bounds>>

\* The object is gone or wrong, or the destination cannot be reached.  (A
\* crash before the checkpoint is dropped leaves what a failed drop leaves.)
ReverifyFail(d) ==
    /\ pc["recover"] = "reverify" /\ d \in toVerify
    /\ phase' = [phase EXCEPT ![d] = "pending"]
    /\ DropCheckpoints({d})
    /\ toVerify' = toVerify \ {d} /\ allOk' = FALSE
    /\ UNCHANGED <<row, attempts, backoff, stats, world, pc, fanJob, expected,
                   snapshot, orphan, batch, crashes, pauses>>

\* A verified row whose every destination re-verified completes ...
RecoverComplete ==
    /\ pc["recover"] = "reverify" /\ toVerify = {}
    /\ snapshot = "verified" /\ allOk
    /\ Goto("recover", "cleanup")
    /\ UNCHANGED <<row, fan, stats, world, local, bounds>>

\* ... any other goes back to ready for re-delivery.
RecoverRequeue ==
    /\ pc["recover"] = "reverify" /\ toVerify = {}
    /\ ~(snapshot = "verified" /\ allOk)
    /\ state' = "ready" /\ Goto("recover", "exhaustedRows")
    /\ UNCHANGED <<sig, gate, cleanupAttempts, fan, stats, world, local,
                   bounds>>

\* Exhausted rows, listed after the others, re-run onExhausted.
RecoverExhausted ==
    /\ pc["recover"] = "exhaustedRows"
    /\ Goto("recover", IF state = "exhausted" THEN "finish" ELSE "done")
    /\ UNCHANGED <<row, fan, stats, world, local, bounds>>
-----------------------------------------------------------------------------
(***************************************************************************)
(* A pauseResume window close, and durable-store faults.                   *)
(***************************************************************************)
\* The window closes mid-batch: the item's task is dropped at an await, or has
\* ended while other items of its batch run on.  A blocking file-system action
\* it was waiting for runs on, detached.
Pause ==
    /\ pauses < MaxPauses /\ pauses' = pauses + 1
    /\ batch /\ orphan = "none"
    /\ \/ pc["tick"] = "fanout" /\ \A d \in Dests : job[d] # "checkpointed"
       \/ pc["tick"] \in {"giveUp", "act", "acted", "actFailed", "actRefused",
                          "moved", "claim"}
       \/ pc["tick"] = "finish" /\ OnExhausted = "quarantine"
    /\ orphan' = IF pc["tick"] = "act" THEN "cleanup"
                 ELSE IF pc["tick"] = "finish" THEN "quarantine" ELSE "none"
    /\ Goto("tick", "revert") /\ job' = Idle /\ wasExhausted' = {}
    /\ expected' = [expected EXCEPT !["tick"] = 0] /\ batch' = FALSE
    /\ UNCHANGED <<row, fan, stats, world, recLoc, crashes, faults>>

\* pause_revert re-reads the row, that of an item whose task had ended too:
\* in_progress goes back to ready, a verified row (its own task met a store
\* fault) is re-checked, an owed completion action is driven now, any other row
\* is left as it is.
PauseRevert ==
    /\ pc["tick"] = "revert"
    /\ state' = IF state = "in_progress" THEN "ready" ELSE state
    /\ Goto("tick", IF state = "verified" THEN "recheck"
                    ELSE IF state = "cleanup_pending" THEN "cleanup"
                    ELSE "idle")
    /\ job' = IF state = "verified" THEN [d \in Dests |-> "run"] ELSE Idle
    /\ UNCHANGED <<sig, gate, cleanupAttempts, fan, stats, world,
                   wasExhausted, expected, recLoc, orphan, batch, bounds>>

\* recover_verified inside the tick: every destination is re-verified ...
RecheckOk(d) ==
    /\ pc["tick"] = "recheck" /\ job[d] = "run"
    /\ object[d] # 0 /\ Matches(object[d], checkpoint[d])
    /\ phase' = [phase EXCEPT ![d] = "verified"]
    /\ job' = [job EXCEPT ![d] = "verified"]
    /\ UNCHANGED <<row, attempts, backoff, checkpoint, stats, world, pc,
                   wasExhausted, expected, recLoc, orphan, batch, bounds>>

RecheckFail(d) ==
    /\ pc["tick"] = "recheck" /\ job[d] = "run"
    /\ phase' = [phase EXCEPT ![d] = "pending"]
    /\ DropCheckpoints({d})
    /\ job' = [job EXCEPT ![d] = "retry"]
    /\ UNCHANGED <<row, attempts, backoff, stats, world, pc, wasExhausted,
                   expected, recLoc, orphan, batch, crashes, pauses>>

\* ... and the row completes, or goes back to ready for the ones that failed.
RecheckEnd ==
    /\ pc["tick"] = "recheck" /\ \A d \in Dests : job[d] # "run"
    /\ \/ /\ \A d \in Dests : job[d] = "verified"
          /\ Goto("tick", "cleanup") /\ UNCHANGED state
       \/ /\ \E d \in Dests : job[d] # "verified"
          /\ Goto("tick", "idle") /\ state' = "ready"
    /\ job' = Idle
    /\ UNCHANGED <<sig, gate, cleanupAttempts, fan, stats, world,
                   wasExhausted, expected, recLoc, orphan, batch, bounds>>

\* The detached action lands, or fails with nobody to hear of it.
OrphanRun ==
    /\ orphan # "none" /\ orphan' = "none"
    /\ \/ orphan = "cleanup" /\ ReleaseSource
          /\ UNCHANGED <<written, object, quarantine>>
       \/ orphan = "quarantine" /\ MoveToFailedDir
       \/ UNCHANGED world
    /\ UNCHANGED <<row, fan, stats, pc, fanJob, expected, recLoc, batch,
                   bounds>>

\* A store call fails: process_item and pause_revert log it and leave the row
\* as it is; one during recovery abandons the whole pass.
StoreFault(t) ==
    /\ faults < MaxFaults /\ faults' = faults + 1
    /\ pc[t] \in {"fanout", "giveUp", "countFailed", "finish", "moved",
                  "cleanup", "acted", "actFailed", "actRefused",
                  "countReplicated", "revert", "recheck", "snapshot",
                  "dispatch", "reverify", "exhaustedRows"}
    /\ pc[t] = "finish" => OnExhausted = "retainInPlace"
    /\ Goto(t, IF t = "tick" THEN "claim" ELSE "done")
    /\ expected' = [expected EXCEPT ![t] = 0]
    /\ IF t = "tick"
       THEN job' = Idle /\ wasExhausted' = {} /\ UNCHANGED recLoc
       ELSE snapshot' = "none" /\ toVerify' = {} /\ allOk' = TRUE
            /\ UNCHANGED fanJob
    /\ UNCHANGED <<row, fan, stats, world, orphan, batch, crashes, pauses>>
-----------------------------------------------------------------------------
Environment == \/ Write \/ ElapseCleanup \/ Crash \/ Restart
               \/ \E d \in Dests : LoseObject(d) \/ Elapse(d)

Tick == \/ StartTick \/ Discover \/ Rediscover \/ Refresh \/ ScanMiss
        \/ Promote \/ DriveCleanup \/ DriveForced \/ DriveNothing \/ Claim
        \/ EndTick

Attempt(d) == \/ Deliver(d) \/ SaveCheckpoint(d) \/ MarkVerified(d)
              \/ FailRetry(d) \/ FailGiveUp(d) \/ ReleaseSpent(d)

Pipeline == \/ \E d \in Dests : Attempt(d)
            \/ PipelineGiveUp \/ RollUpExhausted \/ CountFailed
            \/ PipelineVerified \/ PipelineRetry

Cleanup(t) == \/ BeginCleanup(t) \/ ActRun(t) \/ ActFail(t) \/ ActUnproven(t)
              \/ FinishCompleted(t) \/ ClearBookkeeping(t)
              \/ CountReplicated(t) \/ CleanupFailure(t)

Finish(t) == Retain(t) \/ QuarantineMove(t) \/ SetQuarantined(t)

Recovery == \/ RecoverSnapshot \/ RecoverReverify \/ RecoverCleanup
            \/ RecoverNothing \/ RecoverComplete \/ RecoverRequeue
            \/ RecoverExhausted
            \/ \E d \in Dests : ReverifyOk(d) \/ ReverifyFail(d)

Revert == \/ PauseRevert \/ RecheckEnd
          \/ \E d \in Dests : RecheckOk(d) \/ RecheckFail(d)

Next == \/ Environment \/ Tick \/ Pipeline \/ Recovery
        \/ Pause \/ Revert \/ OrphanRun
        \/ \E t \in Tasks : Cleanup(t) \/ Finish(t) \/ StoreFault(t)

Spec == Init /\ [][Next]_vars

(***************************************************************************)
(* Fairness.  A task that can move does.  A file that stays on disk is     *)
(* judged ready at some scan and a claimable row is claimed at some tick   *)
(* (each may be passed over, hence strong fairness): the stability window  *)
(* ends, claims are oldest first and the schedule keeps admitting.  Armed  *)
(* gates pass, and a dead process is restarted by its supervisor.          *)
(***************************************************************************)
Fairness ==
    /\ WF_vars(Restart) /\ WF_vars(ElapseCleanup)
    /\ \A d \in Dests : WF_vars(Elapse(d)) /\ WF_vars(Attempt(d))
    /\ WF_vars(Tick) /\ WF_vars(Pipeline) /\ WF_vars(Recovery)
    /\ SF_vars(Discover) /\ SF_vars(Rediscover) /\ SF_vars(Claim)
    /\ WF_vars(Revert) /\ WF_vars(OrphanRun)
    /\ \A t \in Tasks : WF_vars(Cleanup(t)) /\ WF_vars(Finish(t))

FairSpec == Spec /\ Fairness
-----------------------------------------------------------------------------
(***************************************************************************)
(* Properties.                                                             *)
(***************************************************************************)
\* The environment under which a released source is at every destination: the
\* producer leaves the name alone from discovery until the row is terminal, an
\* object is lost only while its row is in_progress or verified, recovery runs
\* before any trigger, and no window close detaches a running action.
OrderlyEnvironment ==
    /\ RewriteStates \subseteq {"none"} \cup Terminal
    /\ CreateStates \cap {"cleanup_pending", "cleanup_failed"} = {}
    /\ LossStates \subseteq {"in_progress", "verified"}
    /\ Damage \subseteq {Lost}
    /\ ~EarlyTrigger /\ MaxPauses = 0

\* The completion action is authorised only by all destinations together: a
\* row at the write-ahead point of the source side effect, or whose side
\* effect failed, has every destination's phase verified (run_pipeline,
\* recover_verified, run_cleanup).
AuthorisedByAll ==
    state \in {"cleanup_pending", "cleanup_failed"}
        => \A d \in Dests : phase[d] = "verified"

\* The source is never released while some destination lacks that version:
\* when a step removes the file from the source directory, other than the move
\* of an exhausted row's file to failedDir, every destination holds exactly
\* that version (run_cleanup, recover: never delete the only copy).
NoUndeliveredRelease ==
    [][src # 0 /\ src' = 0 /\ state # "exhausted"
          => \A d \in Dests : object[d] = src]_vars

\* While a row is being worked on, a destination recorded as verified holds the
\* source's own version -- or lost it in a downtime, and then the re-check of
\* recovery is still ahead: no attempt is running, no completion action is
\* under way, and the row cannot be claimed (recover, reverify_one_dest).
Live == {"ready", "in_progress", "failed", "verified", "cleanup_pending",
         "cleanup_failed"}
VerifiedIsHeld ==
    state \in Live /\ src # 0 =>
        \A d \in Dests : phase[d] = "verified" =>
            \/ object[d] = src
            \/ /\ object[d] = 0 /\ state \in {"in_progress", "verified"}
               /\ pc["tick"] \notin {"fanout", "giveUp", "cleanup"}
               /\ pc["recover"] # "cleanup"
               /\ pc["recover"] = "reverify" => d \in toVerify

\* A version is counted at most once, as replicated or as failed, whatever
\* crashes and store faults fall between the row's transition and the counter
\* (finish_completed, run_pipeline's newly_exhausted test, recovery's re-runs).
CountedAtMostOnce == replicated + failed <= written

\* A ready row can be claimed: the gate column it shares with the cleanup clock
\* never carries the parked value into the transfer's life (CLEANUP_NO_RETRY,
\* upsert_ready's reset).
ReadyIsClaimable == state = "ready" => gate = "open"

\* A failed row has a destination whose gate will re-open it: it is never left
\* waiting with every destination verified or none backing off (the min over
\* retries and not_due in run_pipeline).
FailedWillReopen ==
    state = "failed" /\ gate = "wait"
        => \E d \in Dests : backoff[d] /\ phase[d] # "verified"

Parked == state = "cleanup_failed" /\ gate = "never"

\* Every discovered version settles: its row reaches a terminal state, or is
\* parked for an operator after its cleanup budget, in spite of retries,
\* partial fan-out, backoff and crashes between any two store calls.
EveryRowSettles == state # "none" ~> (state \in Terminal \/ Parked)

\* No version sits in the source directory ignored: it leaves (by the safety
\* property, only once delivered everywhere, or to failedDir), or its own row
\* is retained, quarantined or parked.  A reused name is taken up again after
\* the previous file's row went terminal (upsert_ready's reset).
EveryVersionIsServed ==
    \A v \in 1 .. MaxVersion :
        src = v ~> \/ src # v
                   \/ state \in {"retained", "quarantined"} /\ sig = v
                   \/ Parked
=============================================================================
