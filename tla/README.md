# Formal model of the file replicator

TLA+ modules, TLC runs and TLAPS proofs for the replication engine in `src/src/`.
Paths below are relative to that directory; `worker.rs` is
`instance/worker.rs`.

## 1. The system

A *component* hosts several *instances*. An instance watches one source
directory, replicates every file that becomes ready to all its configured
destinations, verifies each copy, and only then runs its *completion action* on the
source (delete it or archive it). State is durable in SQLite and is written ahead
of every side effect.

| Part | State it keeps | Operations | Hard behaviour |
|---|---|---|---|
| `instance/worker.rs` Worker | task-local only | process_item, run_pipeline, run_one_dest, run_cleanup, finish_exhausted, drive_cleanup, recover | concurrent destinations, crash between any two store calls, partial failure, retry budgets |
| `state.rs` store | work_items, dest_state, resume, stats, activation rows | upsert_ready, claim_ready, set_state, roll_up_item, record_*, clear_*, bump_stats | one transaction per call, several calls per transition |
| `instance/mod.rs` Instance | tick lock, schedule track, activation | run, run_tick, run_windowed, pause_revert, trigger_scan | ticks, triggers and recovery side by side; window close aborts tasks |
| `instance/queue.rs` Queue | per-instance semaphore | enqueue, promote_due, claim, acquire_slot | two resources taken in order |
| `admission.rs` PriorityGate | permit counter, waiter queue | acquire, release, drop of guards and tickets | cancellation racing a grant |
| `instance/watcher.rs`, `readiness.rs` | stability tracker | scan, discover_report, is_ready | a file still being written |
| `schedule/` | cron watermark, window state | admission, next_wake | edges, late ticks, time zones |
| `ratelimit.rs` | two token buckets | throttle | debt, boundaries |
| `dest/*` | remote multipart or temp objects | deliver, verify, abort | resume after a crash, stale tokens |
| `control.rs`, `app.rs` | registered instances | trigger, set-activation, status; start-up, shutdown | commands that arrive during recovery |
| `permission.rs` | two dedup logs | should_log, recovered, validate_instance | re-arming |
| `config.rs`, `events.rs`, `metrics.rs`, `error.rs`, `integrity.rs` | none that others depend on | parsing, output, classification, hashing | -- |

How the parts meet: `Instance::run` calls `Worker::recover` once, then ticks. A tick
(one at a time, `tick_lock`) scans, upserts rows, promotes due retries, re-drives
owed completion actions, and claims batches; each claimed file takes a slot (global
gate, then per-instance semaphore) and runs `process_item` in a task of its own,
which spawns one task per destination. A control command runs a tick from another
task. A window close aborts the batch's tasks.

Correctness, part by part:

* **pipeline and recovery**: the source is removed only when every destination holds
  that very content; every file is eventually delivered or visibly given up; each is
  counted at most once; the row's gate never strands it.
* **gate**: the cap holds, no permit is lost, nobody waits beside a free permit,
  priority and arrival order decide, urgent work is not starved.
* **uploads**: what is marked verified is one version of the file, whole, however
  often the upload was resumed; the checkpoint is never ahead of the remote side; retries
  get through.
* **tick, schedule, slots, control plane**: nothing is claimed outside a window, a fire or a close is
  noticed, deactivation takes effect, flag and row agree, slots are conserved and cannot deadlock.
* **discovery**: only a settled file is queued, and in time; an outage is announced once.
* **start-up, limiter, retries**: no instance is orphaned, the byte rates
  hold in every window of time, backoffs grow and end.

## 2. Modules

| Module | Role |
|---|---|
| `ItemPipeline` | one file: its rows, its source, its objects, the tick and the recovery pass |
| `ItemPipelineProofs` | TLAPS proofs about it |
| `MCItemPipeline` + `Item*.cfg` | instances for TLC |
| `AdmissionPool` | abstract specification of the admission gate |
| `PriorityGate` | `admission.rs` at the grain of its mutex; refines `AdmissionPool` |
| `PriorityGateProofs` | TLAPS proofs about it, the refinement included |
| `MCPriorityGate` + `Gate*.cfg` | instances for TLC |
| `S3Upload` | delivery of one name to one S3 destination: multipart upload, resume token, recovery |
| `S3UploadProofs` | TLAPS proofs about it |
| `MCS3Upload` + `S3*.cfg` | instances for TLC |
| `TempPublish` | delivery of one name to one SFTP, FTPS or local destination: temp file, offset, rename |
| `TempPublishProofs` | TLAPS proofs about it |
| `MCTempPublish` + `TempPublish.cfg` | instance for TLC |
| `UploadAttempt` | what HTTP, GCS and Azure deliveries share: pieces, checkpoint, verify, the worker's reaction |
| `HttpUpload`, `GcsUpload`, `AzureUpload` | one backend each, extending `UploadAttempt` |
| `CloudUpload` | their composition; `MCCloudUpload` + `CloudUpload.cfg` its instance |
| `CloudUploadProofs` | TLAPS proofs about it |
| `Schedule` | cron and window schedules as functions of sets of instants |
| `InstanceTick` | the run loop, ticks, slots, window closes, commands; extends `Schedule` |
| `InstanceTickProofs` | TLAPS proofs about it |
| `MCInstanceTick` + `InstanceTick.cfg`, `InstanceLive.cfg` | instances for TLC |
| `Discovery` | scan, readiness, wake-ups, durable enqueue, permission log |
| `DiscoveryProofs` | TLAPS proofs about it |
| `MCDiscovery` + `Discovery.cfg` | instance for TLC |
| `TokenBucket`, `RetryPolicy` | the limiter's and the retry clock's arithmetic |
| `Component` | start-up, shutdown, and transfers under both; `MCComponent` + `Component.cfg` its instance |
| `ComponentProofs` | TLAPS proofs about it |

The modules look at the same program from different distances. `ItemPipeline` abstracts a delivery
to one step that publishes an object or fails; `S3Upload`, `TempPublish` and `CloudUpload` open that
step for one destination and keep of the worker only what it does with the outcome (retry, give up,
mark verified). That a verified destination holds a whole version is what `ItemPipeline.Deliver`
takes for granted. `InstanceTick` sees an item only as a row in a state and a slot, and takes from
`PriorityGate` that permits are conserved; `Discovery` stops at the durable row; `Component` sees a
tick as an interval in which transfers run.

### ItemPipeline

Rows of different files share only the statistics row, so the module follows a single
file name. A version of the file is a number; 0 stands for "no file", "no object", "no
checkpoint".

* `state, sig, gate, cleanupAttempts` are the `work_items` row (`sig` is size and mtime,
  `gate` is `next_attempt_at`: passed, in the future, or `CLEANUP_NO_RETRY`);
  `phase, attempts, backoff` the `dest_state` rows; `checkpoint` the verified checksum in
  the `resume` rows; `replicated, failed` the `stats` row.
* `src, object, archive, quarantine` are the file system and the destinations.
* `pc[t]` is where the tick and the recovery pass stand, `job[d]` where the task of a
  destination stands; `expected, snapshot, toVerify, allOk, wasExhausted` are locals of
  the handlers. `orphan` is a blocking file-system action whose task was aborted.

One store call is one action, so a crash (`Crash`) or a store fault (`StoreFault`) can fall
between any two. The attempts of one fan-out interleave freely. Handlers that are called
from two places (`run_cleanup`, `finish_exhausted`) are actions with the calling task as
parameter.

| Code | Actions |
|---|---|
| `upsert_ready` | `Discover`, `Rediscover`, `Refresh`; `ScanMiss` when the watcher reports nothing |
| `promote_due` / `drive_cleanup` / `claim_ready` | `Promote` / `DriveCleanup`, `DriveForced`, `DriveNothing` / `Claim`, `EndTick` |
| `run_one_dest` | `Deliver`, `SaveCheckpoint`, `MarkVerified`, `FailRetry`, `FailGiveUp`, `ReleaseSpent` |
| `run_pipeline` after the join | `PipelineGiveUp`, `RollUpExhausted`, `CountFailed`; `PipelineVerified`; `PipelineRetry` |
| `run_cleanup`, `apply_success_action`, `finish_completed`, `record_cleanup_failure` | `BeginCleanup`, `ActRun`, `ActFail`, `ActUnproven`, `FinishCompleted`, `ClearBookkeeping`, `CountReplicated`, `CleanupFailure` |
| `finish_exhausted` | `Retain`, `QuarantineMove`, `SetQuarantined` |
| `recover` and what it calls | `RecoverSnapshot` ... `RecoverExhausted`, `ReverifyOk`, `ReverifyFail` |
| `run_batch_windowed`, `pause_revert`, `recover_verified` | `Pause`, `PauseRevert`, `RecheckOk`, `RecheckFail`, `RecheckEnd`, `OrphanRun` |

Abstractions. Time: a backoff gate is armed and may pass at any later moment, so every
order of gates is covered, but the backoff arithmetic is not. Errors: an attempt may fail,
transiently or for good, at any time. Verification: `completion.verify` is checksum, two
versions differ in it, and where the code falls back to a size comparison every object of
this name passes. A delivery publishes its object in one step; partial transfers are not
visible at the final name and are left out, with the resume offsets. Events and metrics
change no state. `Pause` may fall only where the task awaits: the steps between two awaits
are not separated by it. It may also find that the item's task has ended while others of its batch
ran on; if a store fault ended it at `verified`, `pause_revert` re-verifies every destination
before it completes the row.

### PriorityGate and AdmissionPool

A caller is one call of `acquire`. The counter, the queue, the per-waiter channels and the
place of each call are the state; every critical section of the mutex is one action. The
sequence number is kept as `ahead[c]`, the waiters present when `c` joined, which is all the
order of the map's keys depends on. Dropping the future of a waiting call first drops the
receiver and then the ticket; with `Parallel` those are two steps.

`AdmissionPool` is the promise: a set of callers inside, a queue, and a leaver who lets the
first of the queue in. There is no counter. The refinement maps `inside` to the callers
that hold a permit or have one in their channel.

### S3Upload

* `src` is the source's version, which is its mtime; `SizeOf` its size in parts. `phase`, `tries` and
  `row` are the destination's `dest_state` and `resume` rows; `row` has one entry per key a token may
  be saved or loaded under.
* `mpu, held, object` are the bucket: which uploads are open, the version each of their parts was
  read from, and the object at the key.
* `pc, ver, mem, fresh, sent, handle` are the running attempt: the version it captured, the token in
  its memory (which the part tasks share under a lock), whether the upload is its own, the parts whose
  reply is not yet on record, and the checksum the reply reported. `straggler` is a part task that outlives its attempt and still has a token to save.

A request and its reply are one step, or the reply is lost and only the effect happens. `Begin`
plans the upload and reuses a token that matches; `Create` and its write-ahead open an upload;
`UploadPart`, `Record` send a part and save the list; `Complete`, `HeadFound`, `HeadMissed` are
`CompleteMultipartUpload` and what `put_multipart` makes of a `NoSuchUpload`; `Recheck` is
`source_changed`, `Verify`, `Checkpoint`, `MarkVerified` the rest of `run_one_dest`; `Retry`,
`GiveUp`, `Abort`, `DropToken` its failure paths. The environment overwrites the file (`Rewrite`,
`NewFile`), sweeps an open upload (`Sweep`), loses replies, refuses requests, crashes the process
and closes windows. Checksums tell versions apart; part arithmetic, ETags, keys and encodings are
left out. A completion whose reply was lost takes effect at once: one that lands minutes later,
after the retry has looked, is not modelled.

### TempPublish

* `src, phase, tries, row` as above; a token is a version and an offset in chunks.
* `file, temp, final` are the server: contents by file, and the file the hidden temp name and the
  final name stand for. A handle (`fd`) keeps its file through a rename.
* `session` is the SFTP session that `conn` caches (`none`, `up`, `dead`). FTPS connects per call.
* `th[t]` is an attempt. `cur` is the one the worker waits for; after a window close has detached an
  FTPS call it is thread 2, and thread 1 runs on with its flag set.

`After` gives the order of the steps before the first chunk, which is not the same in the two
backends. `Stat` trims the checkpoint's offset to the temp file, `Open` truncates when the offset
is 0, `Stream` sends one chunk and `Persist` saves the offset every `Every` chunks, `Finish` is the
size test; `Rename`, `RenameRefused`, `RenameUnsure`, `Remove` and `RenameAgain` are `publish`;
`ClearToken` to `DropToken` are the rest of `deliver`, `verify` by checksum, and `run_one_dest`.
`Invalidate` drops the cached session after a transient error. A store call that fails is ignored,
as in the code. Directory creation, host keys, certificates and credentials appear only as a login
that may be refused (`Denied`).

The local destination is the third backend (`After("local")`): it copies to a hidden temp file in the
destination directory, fsyncs, renames with a fallback, and verifies, with no token, no session and no
second look at the source's size. `RenameFails`, `Classified` and `LocalError` are its error paths.

### CloudUpload: HTTP, GCS, Azure

`UploadAttempt` holds what the three deliveries have in common: the source and its rewriting, the
`dest_state` and `resume` rows (`durable`), the object at its final name (`obj`) and the attempt
(`at`: version captured, position, running hash, session). Contents are functions from units of the
file to the version each was read from, so a torn object is visible as one. `Hash` re-reads the prefix
that a checkpoint skips, `SaveRow` persists a token, `Truncated` is a source that became shorter,
`VerifyObject` to `DropToken` are `verify` and `run_one_dest`.

* `GcsUpload`: resumable sessions with the range each has accepted. `GcsSend` is a chunk in order,
  `GcsSendAgain` one the session already has, `GcsSendShort` a 308 that accepted less, `GcsSendGap`
  an offset the session is not at, `GcsGone` and `GcsForget` a session that expired.
* `HttpUpload`: `site` is what the server supports (ranges, HEAD, sizes). `HttpPut` sends the whole
  body, `HttpHead` reconciles the offset, `HttpSend` a range; `HttpDiscard` is a server that drops a
  partial body.
* `AzureUpload`: `staged` are uncommitted blocks, `AzureCommit` the Put Block List, `AzureProbe` the
  look at the live blob after an unsure commit, `AzureCollect` the service's garbage collection.

`CloudUpload` puts them together: the backend is chosen initially, a lost answer (`*LostAnswer`), a
crash or window close in the middle of a request (`*Cut`) and a refusal are possible at each request.
Credentials, names, encodings and the serialisation of tokens are left out.

### Schedule and InstanceTick

A schedule is three sets of instants (cron fires, window opens, window closes) and `Schedule` has what
the code computes from them: `admission`, `fired` (the watermark test), `window_until`, `close_after`
with the pairing of opens and closes, `next_wake`. The calendar itself is a library's.

`InstanceTick` follows one instance. `task` has the run loop's tick and a trigger's, each with the
`now` it was called with; `track` is `ScheduleTrack`; `running`, `free`, `taken` are the two slot
resources and what other instances hold; `state` is each item's row; `active` and `stored` the
activation flag and row; `cmd` and `report` are commands between two of their store calls. `Check`,
`Discover`, `Gate` / `GateForced`, `Claim`, `TakeGlobal`, `TakePermit`, `Join`, `CloseFinishing`,
`ClosePausing` and `StopClaiming` are the steps of `run_tick`, `run_admitted`, `run_windowed`,
`run_batch_windowed` and `pause_revert`; `OnTrigger`, `OnSetActivation`, `SetFlag`, `OnFlip`,
`OnGetStatus` and `Reply` are the control plane. Commands of one kind come one at a time. A process
that crashed is restarted by `Boot` with what is durable. `Finish` is the end of `process_item`; a store
fault in it leaves the row InProgress until a restart (`worker.rs:434`), which `ghost.stranded` remembers.

### Discovery

`disk`, `marked` and `access` are the directory as producers and operators change it; `seen` is the
stability tracker, `timer` and `nudges` wake the run loop, `log` is the `PermissionLog`, `row` the
durable signature. A tick is `Scan` (what the directory lists), `Probe` once per candidate
(`is_ready`; with the marker strategy only the marker is looked at), `Report` (sweep of the tracker,
`report_scan_issues`), `Enqueue` (what the store refuses is logged and skipped), `EndTick` (which arms
the re-check); the world moves between any two of these. Time does not pass during a scan, only while
the loop waits or works, so the bounds of `QueuedInTime` are those of the timers: `Found` until a scan
begins, and `Deadline`, with the quiet time, until the file is queued. `age`, `late`,
`heard` and `told` are history for the properties; a refused file counts as newly written without
a nudge, and `told` is kept per path and kind of error, since start-up announces a missing directory
as well (`Announced`). Glob matching is a library's.

### Component, TokenBucket, RetryPolicy

`Component` is `App::run`: the configured entries that `Dedup` keeps, one by one (`Turn`, `NextEntry`), with
their permission outcome
(`StartFatal`, `StartSkip`, `StartBuilt`, `StartFails`), `Started`, `Shutdown`, `Drained`; start-up
takes no time. While instances run, each transfer charges its own and the global bucket
(`Throttle`), sleeps, writes, and is delivered or fails and is retried when its gate has passed.
`TokenBucket` is `acquire` with integer time and debt; `RetryPolicy` is `resolve`, `backoff_ms` and
`decide` with a saturating product. `watch` is an observer who starts to count at a moment of
her choice: `Paced` and `AggregateCap` are about every such window.

## 3. Runs

| Run (cfg) | Distinct states | What it shows |
|---|---|---|
| `item_safety` (`ItemSafety.cfg`) | 1.3 M | archive and retain-in-place, two destinations, two versions, a crash, a store fault, a window close that detaches an action or finds a verified row, objects lost in downtime: `NoUndeliveredRelease` (the source goes only when all hold it), `CountedAtMostOnce` |
| `item_live` (`ItemLive.cfg`) | 146 k | delete and quarantine, a reused name: `EveryRowSettles`, `EveryVersionIsServed` |
| `gate_cancel` (`GateCancel.cfg`) | 4 158 | hand-offs and cancellations: the gate implements `AdmissionPool` |
| `gate_parallel` (`GateParallel.cfg`) | 118 k | with parallel drops: no permit lost, no lost wake-up, urgent callers served |
| `s3_safety` (`S3Safety.cfg`) | 2.7 M | verified means whole, and the part list names only parts S3 holds, with stragglers, sweeps, lost replies, crashes, pauses and refusals |
| `s3_live` (`S3Live.cfg`) | 489 k | every delivery is verified in the end |
| `temp_publish` (`TempPublish.cfg`) | 623 k | SFTP, FTPS, local: only whole versions at the final name, verified means whole at that moment and, while no FTPS upload was detached, ever after; every delivery gets through or is refused |
| `cloud_upload` (`CloudUpload.cfg`) | 394 k | HTTP, GCS, Azure: verified means whole, the checkpoint is never ahead of the server, every delivery gets through or is refused |
| `instance` (`InstanceTick.cfg`) | 2.2 M | slots cannot deadlock and are conserved, window events alternate, no row is stranded, activation flag and row agree, get-status misses nothing, a stale tick swallows no fire, a window's claims fall into it |
| `instance_live` (`InstanceLive.cfg`) | 299 k | once the load of others subsides: a fire during a busy tick is made up for, an instance deactivated in a drain comes to rest, an immediate one claims every file |
| `discovery` (`Discovery.cfg`) | 4.5 M | only settled files are queued, each in time, also after a refused enqueue; an outage is announced exactly once |
| `component` (`Component.cfg`) | 2.6 M | the caps hold in every window, retries are bounded, backoffs grow, no instance is orphaned |

`TypeOK` is a property of the runs of `TempPublish`, `CloudUpload` and `Discovery`; for the other
modules it is proved, and so are the invariants `AuthorisedByAll`, `VerifiedIsHeld`,
`ReadyIsClaimable`, `FailedWillReopen` of `ItemPipeline` and `PermitsConserved`, `CapRespected`
of `PriorityGate`; TLC confirmed them before they were proved.

Bounds. Two destinations are the least for partial fan-out, and the destinations are
symmetric but for `delivered_checksum`, which takes the first. `MaxAttempts = 2` gives a
retry and an exhaustion. Two versions give a reused name; one crash and one store fault are enough
for any single call to fail, and the proofs cover more. `MaxForced`
bounds only how often an operator re-drives a parked row. In the gate, three callers of one
priority and one of another, with one or two permits, give queues of length three, ties and
priority inversions. For S3, two parts in flight, three versions (one of them small enough for a
single PutObject) and one of each misfortune: two failures of one delivery already exhaust
`MaxTries = 2` in `s3_safety`, while `s3_live` leaves enough attempts for all of them. For SFTP and
FTPS, versions of two and three chunks with a checkpoint every second chunk leave the temp file
ahead of the token (a chunk not yet on record) or behind it (a chunk that never arrived). Versions
differ in size in these two models, see below. For the cloud backends an empty version and two of
three units in pieces of two: a short last piece, and versions of equal size. In `InstanceTick` two
files against one own slot make two batches; the clock runs to 4 with fires at 2 and 3 and the windows
[1, 2) and [3, 4), so a tick can begin in, between and after windows and can sleep over a fire; one
command and one mishap. `InstanceLive` stops at 3, with fires at 1 and 2, the first window, one slot in all
and no mishap, and keeps the two files: a deactivation that falls between the two batches does not stop the second. In `Discovery` a quiet time of 2 and a rescan of 3 units put
a re-check before and after a rescan; two files that are symmetric, two writes, a loss of access or a
trigger, a channel of one nudge. In `Component` the global rate is 3, one instance has a rate of 1 and
the other none, chunks of 2 overdraw both buckets; the word of 15 makes the backoff saturate within
`MaxShift`.

The deadlock check is on in the item, gate, instance and discovery runs: a restarted process can
always tick, and a caller can always come back. It is off in the runs of the destinations, because
one that has delivered the last version the producer writes rests, and in `component`, where
`App::run` returns.

Fairness. `ItemLive`: weak fairness of every task's next step: the tokio runtime polls what
is ready and every await in these paths ends. Strong fairness of `Discover`, `Rediscover` and
`Claim`: the stability window ends for a file that is left alone, claims are oldest first and
the schedule opens again and again. Gates that are armed pass, and the supervisor restarts
a dead process. Nothing is assumed of the producer, of deliveries or of file-system actions,
which may fail each time, nor of crashes; liveness is checked without store faults, since a
fault leaves the row for the next restart by design. In `GateParallel` a holder finishes and
a woken call is polled. In `S3Live`, `TempPublish` and `CloudUpload` only the worker's own next step
is weakly fair: the runtime polls a running attempt, requests end (in failure, if the connection is
lost), and a failed row is claimed again after its backoff. A detached thread need never move. In
`InstanceLive` a tick's steps, the run loop's timers, transfers and the clock are weakly fair, other
instances return their permits, and `Discover` is strongly fair, because `tick_lock` serves its waiters
in turn. The gate does not: it is strict priority without aging (`admission.rs:15-17`), so a less urgent
instance may wait for a slot for ever while more urgent ones keep it busy. Only the most urgent callers
are always served (`UrgentIsServed`). `InstanceLive` therefore assumes that the load of the others
subsides (`LoadSubsides`: from some moment on they take no more permits) and only weak fairness of
`TakeGlobal`: a permit that stays free is taken. While the load lasts, the three properties are not
claimed for an instance that is not the most urgent.

### Where the code and its documentation part

`NoUndeliveredRelease` holds in an *orderly environment* (`OrderlyEnvironment`): the producer
does not touch a name between discovery and the terminal state, objects are lost in a downtime
only while their row is in_progress or verified and are lost rather than corrupted, no trigger
arrives while recovery runs, and no window close detaches a running action. None of these
clauses can be dropped: `ItemLive.cfg` with `SPECIFICATION Spec`, `PROPERTY NoUndeliveredRelease` and
one constant changed shows the behaviour.

* `RewriteStates <- RowStates`: a file overwritten while its row waits for a retry completes although
  a destination holds only the old version (`state.rs:368`).
* `LossStates = {"cleanup_pending"}`: an object lost while the action is owed is not re-verified on
  restart (`worker.rs:1052`; DESIGN.md:817-818 says it is).
* `LossStates = {"failed"}`: such rows keep their verified destinations over a restart
  without a re-check (`state.rs:571`, against the reasoning in `worker.rs:1058-1060`).
* `CreateStates <- RowStates`: a file created under the name after the delete and before its record
  is deleted by the re-run after a crash (`worker.rs:1047`).
* `Damage = {3}`, `LossStates = {"verified"}`, `MaxCrashes = 2`: a failed re-verification drops the
  checkpoint (`worker.rs:1205`), so the next one compares only the size (`worker.rs:1140-1141`).
* `EarlyTrigger = TRUE`: the control plane is up before recovery ends and recovery does not hold
  `tick_lock`, so both complete the same row and the second deletes a new file
  (`instance/mod.rs:1094`; `worker.rs:1031` says recovery runs "before any new work").
* `MaxPauses = 1` with the delete action: a delete detached by a window close lands after the
  re-driven one (`worker.rs:741`; noted in `instance/mod.rs:1045`).

Others, in the pipeline and the instance:

* A window close between the exhausted roll-up and `onExhausted` leaves the row exhausted until a
  restart (`instance/mod.rs:1078`).
* Archive with a collision suffix: if the crash falls after the move, the re-run compares the
  un-suffixed older archive and parks the file in cleanup_failed (`worker.rs:2033`).
* A crash between the exhausted roll-up and `bump_stats` loses the failure from the count
  (`worker.rs:604`, `613`), and a row is recorded quarantined although the move failed
  (`worker.rs:1001`, `domain.rs:38`).
* `Parallel = TRUE` in the gate: a receiver dropped while another thread releases to it makes the
  permit come back twice, and `CapRespected` fails (`admission.rs:77`).
* A trigger that waited for `tick_lock` sets the cron watermark to the `now` it was called with, which
  may lie before a fire that the loop has already served; the fire is then served again
  (`schedule/cron.rs:20-21` says the schedule never double-fires). `FireKept`, no fire
  that is owed is swallowed that way, and `FireNoticed` are the half that holds. For the same reason a window's claims may fall after its close if the tick had to wait:
  `ClaimedInside` speaks of ticks that did not. The retry gate is computed with the same stale `now`
  (`worker.rs:1493`), and `RetriesBounded` takes that into account.
* A file whose quiet time runs out during a long tick is in no pending list when the tick ends
  (`readiness.rs:148` keeps only future instants), so no re-check is armed and it waits for the
  rescan (`instance/mod.rs:1119`): the last case of `Deadline` in `Discovery`.
  So does a rewritten file under `quietSecs = 0`, whose new version is not accepted on sight and is
  never pending (`readiness.rs:96-104`).
* An instance that could not be built is in no list of the status roster (`control.rs:391-393` says
  every configured instance is accounted for): `skipped` in `Component`.
* A window whose `close` expression never fires is accepted, and counts as closed for ever
  (`schedule/window.rs:76-80`).
* Deactivation is looked at only when a tick begins (`instance/mod.rs:484`), so the batches that remain
  of a drain are still claimed and transferred; FR-STATE-4 (DESIGN.md:215) says it admits no new
  transfers. `ComesToRest` is the part that holds.

And in the destinations:

* Two S3 egresses: the token is saved under `s3` and looked up under `s3#1`, so a retry never
  resumes (`dest/s3/client.rs:553`; docs/explanation.md:121-124 says transfers do).
* A part task that `abort_all` stops only after its reply saves its list when the next attempt may
  already have saved a longer one under a lock of its own, so an older list can be written last and
  parts are sent again; `dest/s3/client.rs:536-537` says it "can never overwrite a newer one". What
  stands in the row is genuine all the same (`PartListGenuine`).
* A GCS session that kept less than it was sent is only logged (`dest/gcs/client.rs:196`): the
  checkpoint is ahead of it and every later attempt leaves a gap, until the attempts are spent.
  `EventuallyVerified` in `CloudUpload` excepts behaviours in which that happens (`CutShort`).
* `SizeOf <- EqualSizes` in `S3Upload`: when the upload of a new version was swept and the old object
  has its size, `recover_completed_object` takes the old one for the new one and `DeliveredWhole` fails
  (`dest/s3/client.rs:659`). Azure does the same after an unsure commit
  (`dest/azure/client.rs:198-201`), where the checksum of `verify` still catches it.
* Equal sizes in `TempPublish`: there is no second look at the mtime, so a file overwritten with the
  same size during the transfer is published torn, and its hash agrees. The local copy does not look
  at the size again either.
* SFTP, FTPS: a rename that timed out but happened is followed by the removal of the object it
  published; the second rename then finds no temp file, which is a permanent error, so the file is
  given up (`dest/sftp/client.rs:399`). `EventuallyVerified` admits this as a refusal.
* FTPS reads its cancel flag only in the chunk loop: an upload detached after its last chunk still
  publishes and clears the checkpoint (`dest/ftps/client.rs:244`), and if the re-run published the
  temp file first, the late thread's fallback removes the verified object
  (`dest/ftps/client.rs:289`). `DeliveredUndisturbed` is the part that holds.

## 4. Proofs

All theorems hold for every value of the constants that satisfies the named assumptions
(`ConstantsAssumption`, `GateAssumption`, that of `S3Upload`, `ScheduleAssumption`,
`InstanceAssumption`, `TempAssumption`, `UploadAssumption`, `ThresholdAssumption`,
`DiscoveryAssumption`, `ComponentAssumption`, `FiniteTransfers`, `SecondAssumption`,
`WordAssumption`, `RetryAssumption`): any number of destinations, attempts, versions, parts, uploads,
crashes, faults, callers, files, slots, instants and transfers. What a theorem needs beyond them is
in its statement.

**ItemPipelineProofs.** `TypeCorrect` comes first. None of the safety properties is inductive.
The strengthening is a conjunction of named parts:

* `Control` = `Exclusion` (while recovery is not done the tick is idle, unless triggers may
  come early), `RowAtPoint` (which row states go with which point of a handler), `Authority`
  (`AuthorisedByAll`, extended to the points on the way to the completion action), `GateFree` and
  `RoundBackoff` (what the gate and the backoffs can be). It gives `CompletionAuthorised`,
  `ReadyClaimable` and `FailedReopens`.
* `Budget` = `Owed`, `Fresh`: how many counts the current point still owes, so that the sum of
  what was counted and what is owed never exceeds the versions written. It gives `CountedOnce`.
* `Content` = `Undisturbed`, `Held` in an orderly environment: the source's version does not
  change under a live row, and a verified destination holds it unless the re-check of recovery
  is still ahead. It gives `VerifiedHeld`, and with `HeldByAll` (at the point of the action
  every destination holds the source's version) `SourceReleasedOnlyWhenDelivered`.

Each step lemma has one case per action. The invariants were checked with TLC before they
were proved.

**PriorityGateProofs.** `WakeupNeverLost` and `PermitNeverLost` hold also when futures are
dropped in parallel. `PermitConservation`, `CapHolds` and `GateImplementsPool` hold when a
future's drop is not interleaved with a release; without that restriction they fail (above). The cardinality arguments rest on the library's theorems on finite sets; the
refinement maps every action to an action of the pool or to a stutter.

**S3UploadProofs.** The inductive invariant is `TypeOK` with the following parts: every token in a
row, in memory or with a straggler names an upload that was created (`Known`), records parts read no
earlier than its version (`Recent`), lists what the bucket holds if it is for the source as it is now
(`Genuine`), and two tokens of one upload are for one version (`Agree`); and how the attempt's token
and its unrecorded replies relate to the bucket (`AtWork`). It gives `PartListCorrect`. `VerifiedIsWhole` adds `ObjectAt`, how much of the captured version the object at the key is known to hold at each point; it needs `OrderlyNames`, no two versions with the same size, since the
recovery of a lost completion has nothing but the size to go by. Both hold with stragglers and for any
`Label`.

**InstanceTickProofs.** All safety properties of `InstanceTick`, each from an invariant of its own
over `Typed` (`TypeOK`, one conjunct per variable):

* `SlotInv` = `LockHeld` (`tick_lock` admits one tick), `RunningHeld` (what runs, runs under a tick
  that will join it), `BatchFits` (a batch that still waits for slots fits beside what runs), `AtRest`
  (a process that is down has no ticks).
  It gives `PermitFreeHolds`: whoever holds a global permit and asks for the own one finds it free.
  With the library's theorems on cardinalities it gives `PermitsConservedHolds`.
* `EdgeInv` (a tick of kind window stands under an open track) gives `EdgesAlternateHolds`; `FlagInv`
  (between the two writes of set-activation the row is the one the command wrote) gives
  `ActivationAgreesHolds`.
* `RowInv` = `RowsOwned`, `Apart`, `NoneWhenDown` (rows in progress are those of a batch, running or
  stranded, and these do not overlap) gives `NoStrandedHolds`; `ReportInv` (what a status has not seen
  is in a list it has still to read) gives `NothingMissedHolds`.
* `FireInv` (`FireKept`; the watermark is not ahead of the clock, and is set while a fire is owed), with
  `NowInv` below, gives `FireKeptHolds`: a stale clock lets no fire be swallowed.
* `NowInv` (a running tick has read the clock, and does not run ahead of it) gives `ClaimedInsideHolds`, with two lemmas about
  `Schedule`: a set of instants has a last member (`LastOf`, from the well-foundedness of the natural
  numbers), and a window stays open until its close (`StaysOpen`).

**ComponentProofs.** `PacedTheorem`: a bucket's level, what was charged to it plus its tokens, is left
alone by a charge and lifted by time by at most the rate, so it stays under base + capacity + rate *
time from the start of any window; a sleeping transfer's last byte is on that line when its wait ends
(`PaceInv` = `TypeOK`, `Level`, `Sleeper`). `NoOrphansTheorem` needs that a run loop which was started
belongs to the spawned ids, and that start-up fails before the loop only with nothing spawned
(`OrphanInv`). The other three:

* `AggregateCapTheorem` from `FlowInv`: what was written in the window and what sleeping transfers still
  owe add up to what was charged; and there is a mark `m`, no higher than the bucket's line at this
  moment, such that every byte charged beyond `m` belongs to a sleeper (`Sleeps`). A transfer that wakes
  moves the mark to its own last byte. So what was written lies below the line.
* `BackoffGrowsTheorem`: the recursive function `Shifted` at least doubles where it is defined
  (`ShiftedDoubles`), and a saturating product with a larger factor is not smaller.
* `RetriesBoundedTheorem`: a transfer that waits was let pass by `GivesUp`, and its gate is at most one
  backoff after the attempt that failed. `RosterInv` (an entry still to be started is of an id that no
  instance has yet) keeps start-up from making transfers fresh again.

**DiscoveryProofs.** `OnlySettledHolds` from `AcceptInv` = `Written` (a version on disk has been made),
`LockHeld` (one tick is between scan and end), `Tracked` (the tracker has not timed the version on disk
for longer than it exists) and `Listing` (a file that changed since the scan listed it has only just been
written). It supposes a quiet time, `Quiet > 0`: with
`quietSecs = 0` the first observation accepts, and the version scanned may not be the one accepted.
`AnnouncedOnceHolds` from `Ledger`: for every path the observer's clock is the log's stamp of
(path, denied). `QueuedInTimeHolds` needs no hypothesis on the timers. Its invariant puts every wanted
file in one stage (`Awaited`) and bounds `late` in each: a scan is due (`Due`: the remaining work of the tick
that holds the lock, and the rescan timer unless a nudge or a waiting loop makes it superfluous), its
quiet time runs (`Watched`: `late` exceeds the time the tracker has counted by at most `Found`, and, where
ticks are short, the re-check is armed for the rest, `Armed`), the quiet time is over and the next scan is
due (`Ripe`), a tick has listed the file (`InHand`), or has accepted it (`Accepted`). `Missed` says that what a
tick's scan saw differently has changed since, with its nudge not yet consumed, so that a tick which
drops a tracker entry or queues an outdated version leaves the file in the first stage. The proof has one
lemma per action. TLC has checked the invariant for the proportions of `Discovery.cfg` and, with one file,
for (`Quiet`, `Rescan`, `MaxSlow`) = (0, 2, 1), (4, 2, 2), (1, 1, 3) and (3, 2, 1).

**TempPublishProofs.** `TypeCorrect` first, with the steps of a thread grouped by what they do (`Walk`,
`Stop`). The theorems on contents have the hypothesis `Appending`, every version is longer than the one
before, which the sizes of the run satisfy. It cannot be dropped, and different sizes would not be
enough: the code looks at the version on disk before the first chunk and at the size after the last, so
an attempt that began with one version may read bytes of a later one and still end with the announced
number of bytes. Under it:

* `BaseInv` = `TypeInv`, `RolesInv` (a detached upload is thread 1, cancelled, beside thread 2), `ReadInv`
  (an attempt reads the announced version or a later one, and its offset is within it).
* `HashInv`: the hasher has seen no version before the announced one and no holes (`Shape`); and if it
  has seen a later one, which happens when the source is replaced under the re-read of a resumed prefix,
  then no byte of that version is on the server or on its way (`Checked`), so verify does not pass. It
  gives `VerifiedWhenWholeTheorem`; `MarkInv`, the whole version stands from verify on, gives
  `DeliveredTheorem`.
* `FileInv`: the temp file has no holes (`Dense`), holds what a row of the newest version says
  (`Covered`) and what an attempt between open and rename has sent (`Unread`, `Writing`), rows are no
  newer than the attempt (`Lagging`), and what is about to be renamed is whole (`Ready`). It gives
  `PublishedTheorem`.

**CloudUploadProofs.** One inductive invariant, `Inv`, for the three backends, with no hypothesis on
sizes:

* `CoreInv`, which the backends share: the hasher of an attempt whose version is still the newest has
  seen that version up to the offset and nothing else (`AtOK`), and a row is of a version that some
  attempt began with, and within it (`RowOK`).
* `ServerOK` and `Marked`: from a passed verify on the whole version stands at the key. This gives
  `VerifiedWholeTheorem`; that the digest is of the whole version is `AtOK` at the end of the upload.
* `HeldInv`: not only the row but also the attempt between its start and its commit is covered by what
  the server holds (`HeldBy`). For Azure the property itself is not inductive: after a commit whose
  answer was lost the row's blocks are gone and the blob is there, and a resumed attempt then stages
  blocks beside it. `AzureKept` says that these are of the same version, so that a second commit makes the
  same blob. It needs that attempts and rows stop at ends of blocks (`Aligned`), with lemmas on integer
  division (`SameBlock`, `BlockCount`). This gives `CheckpointHeldTheorem`.

A request's effect on the server is one lemma (`GcsEffectOK`, `HttpEffectOK`, `AzureEffectOK`), used
for the request that is answered, the one whose answer is lost and the one that is cut short.

Only model-checked: the liveness properties (`EveryRowSettles`, `EveryVersionIsServed`,
`UrgentIsServed`, the three `EventuallyVerified`, `FireNoticed`, `ComesToRest`, `Claimed`), since
fairness is out of the prover's reach. Every safety property a run checks
is also a theorem, some under the hypotheses named above.

## 5. Not modelled

* The inner steps of `move_file` (copy across devices, its temp name, the removal that comes last),
  the collision policies of archive and quarantine, and the sidecar file: `ItemPipeline` moves a file
  in one step. This is the next thing to open.
* `plan_upload` and `part_len` of the S3 destination, and everything that parses or formats: byte
  rates, the phrases of `schedule/sugar.rs`, time zones and calendar arithmetic (a library's), URL
  templates, object keys, command bodies and replies.
* `config.rs` beyond the policies it resolves: its values are the constants of the models.
* `events.rs` and `metrics.rs`: best-effort output that no state depends on. The events whose order
  matters (window edges, permission outages) are history variables of `InstanceTick` and `Discovery`.
* Credentials, host keys, certificates and client set-up of the destinations: they appear only as
  requests that may be refused.
* Hashing and error texts (`integrity.rs`, `error.rs`): a digest tells versions apart, an error is
  transient or permanent.
