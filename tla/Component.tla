----------------------------- MODULE Component -----------------------------
(***************************************************************************)
(* The process: App::run starts one instance per configured entry, a       *)
(* signal stops them, and while they run their transfers share the global  *)
(* bandwidth bucket, besides each instance's own, and the retry clock that *)
(* spaces a transfer's attempts.  What a tick does otherwise is            *)
(* InstanceTick's, an item's rows are ItemPipeline's.                      *)
(***************************************************************************)
EXTENDS TokenBucket, RetryPolicy, FiniteSets, Sequences

CONSTANTS Ids,            \* instance ids in the configuration
          EntryLists,     \* the component.instances[] considered
          GlobalPolicy,   \* component.global.onPermissionError
          Transfers,      \* one per file and destination
          Owner,          \* the instance of each transfer
          Rate,           \* the byte rate of each bucket
          Chunk,          \* bytes a transfer throttles at a time
          Chunks,         \* chunks of each file
          InstanceRetry, GlobalRetry, DefaultRetry,  \* retry options
          Bases,          \* bound: base delays BackoffGrows ranges over
          Windows,        \* bound: instants at which the observer may begin
          Horizon         \* bound: the clock

Policies == {"disableInstance", "fatal", "retain"}
Roles == {"ingress", "egress", "archive", "failed"}
Buckets == {"global"} \cup Ids

ASSUME ComponentAssumption ==
    /\ "global" \notin Ids /\ GlobalPolicy \in Policies
    /\ EntryLists \subseteq Seq([id : Ids, policy : Policies \cup {"none"}])
    /\ Owner \in [Transfers -> Ids]
    /\ Rate \in [Buckets -> Nat]
    /\ Chunk \in Nat /\ Chunks \in Nat /\ Horizon \in Nat
    /\ Bases \subseteq Nat /\ Windows \subseteq Nat

ASSUME FiniteTransfers == IsFiniteSet(Transfers)

\* What a retry section may say; the built-in defaults set both delays.
Options == [base : Nat \cup {None}, max : Nat \cup {None},
            giveUp : Nat \cup {None}, attempts : Nat \cup {None}]
ASSUME RetryAssumption ==
    /\ InstanceRetry \in Options /\ GlobalRetry \in Options
    /\ DefaultRetry \in Options
    /\ DefaultRetry.base # None /\ DefaultRetry.max # None

VARIABLES
    stage,     \* where App::run is
    entries,   \* the configuration, and which of its entries are still to be
               \* started
    spawned,   \* ids of the spawned instances, the control plane's roster
    disabled,  \* ids disabled by start-up validation
    skipped,   \* ids whose instance could not be built
    ready,     \* gg.set_ready(true) was called
    cancelled, \* the shared cancellation token
    task,      \* each instance's run loop: where it is, and its tick's now
    transfer,  \* each transfer: where it is, what is left, its retry state
    bucket,    \* the buckets
    charged,   \* bytes each bucket was charged so far
    watch,     \* an observer's window: its start, what was charged by then, the
               \* charged bytes not yet written then, those written since
    clock

boot == <<stage, entries, spawned, disabled, skipped, ready, cancelled>>
pace == <<bucket, charged, watch>>
vars == <<boot, task, transfer, pace, clock>>

policy == Resolve(InstanceRetry, GlobalRetry, DefaultRetry)

Fresh == [pc |-> "pending", left |-> Chunks, attempts |-> 0,
          found |-> 0, gate |-> 0, at |-> 0,
          owed |-> [b \in Buckets |-> 0], upto |-> [b \in Buckets |-> 0]]

Init ==
    /\ stage = "open"
    /\ \E list \in EntryLists : entries = [all |-> list, todo |-> {}]
    /\ spawned = {} /\ disabled = {} /\ skipped = {}
    /\ ready = FALSE /\ cancelled = FALSE
    /\ task = [i \in Ids |-> [pc |-> "none", now |-> 0]]
    /\ transfer = [x \in Transfers |-> Fresh]
    /\ bucket = [b \in Buckets |-> NewBucket(Rate[b], 0)]
    /\ charged = [b \in Buckets |-> 0]
    /\ watch = [start |-> 0, base |-> [b \in Buckets |-> 0], unsent |-> 0, sent |-> 0]
    /\ clock = 0

-----------------------------------------------------------------------------
(* App::run. *)

\* dedup_instance_ids: the first entry of each id is kept.
Dedup(list) == {k \in DOMAIN list : \A j \in 1..(k - 1) : list[j].id # list[k].id}

\* The state database and the global byte rate: an error of either ends it.
Open ==
    /\ stage = "open"
    /\ \/ stage' = "loop" /\ entries' = [entries EXCEPT !.todo = Dedup(entries.all)]
       \/ stage' = "failed" /\ entries' = entries
    /\ UNCHANGED <<spawned, disabled, skipped, ready, cancelled, task, transfer,
                   pace, clock>>

\* resolve_permission_policy.
EffectivePolicy(entry) ==
    IF entry.policy = "none" THEN GlobalPolicy ELSE entry.policy

\* apply_policy.
Outcome(entry, violations) ==
    IF violations = {} THEN "Start"
    ELSE CASE EffectivePolicy(entry) = "disableInstance" -> "Skip"
           [] EffectivePolicy(entry) = "fatal" -> "Fatal"
           [] EffectivePolicy(entry) = "retain" -> "Start"

\* The next entry, in the order of the configuration ...
Turn == CHOOSE k \in entries.todo : \A j \in entries.todo : k <= j
Entry == entries.all[Turn]
NextEntry == entries' = [entries EXCEPT !.todo = @ \ {Turn}]

\* ... whose directories validate_instance has probed.
Starting(outcome) ==
    /\ stage = "loop" /\ entries.todo # {}
    /\ \E violations \in SUBSET Roles : Outcome(Entry, violations) = outcome

\* fatal: every instance started so far is cancelled, to be drained.
StartFatal ==
    /\ Starting("Fatal")
    /\ stage' = "aborting" /\ cancelled' = TRUE
    /\ UNCHANGED <<entries, spawned, disabled, skipped, ready, task, transfer,
                   pace, clock>>

\* disableInstance: the control plane will report it as disabled.
StartSkip ==
    /\ Starting("Skip")
    /\ disabled' = disabled \cup {Entry.id} /\ NextEntry
    /\ UNCHANGED <<stage, spawned, skipped, ready, cancelled, task, transfer,
                   pace, clock>>

\* Instance::build and the spawn of its run loop; its files are discovered.
StartBuilt ==
    /\ Starting("Start")
    /\ LET id == Entry.id
       IN  /\ spawned' = spawned \cup {id}
           /\ task' = [task EXCEPT ![id] = [pc |-> "wait", now |-> 0]]
           /\ transfer' = [x \in Transfers |->
                  IF Owner[x] = id THEN [Fresh EXCEPT !.found = clock]
                                   ELSE transfer[x]]
    /\ NextEntry
    /\ UNCHANGED <<stage, disabled, skipped, ready, cancelled, pace, clock>>

\* An instance that cannot be built is only logged.
StartFails ==
    /\ Starting("Start")
    /\ skipped' = skipped \cup {Entry.id} /\ NextEntry
    /\ UNCHANGED <<stage, spawned, disabled, ready, cancelled, task, transfer,
                   pace, clock>>

\* Something started.
Viable == spawned # {}

\* All entries are handled: bail if nothing started, else the control plane
\* gets its roster and the component is ready.
Started ==
    /\ stage = "loop" /\ entries.todo = {}
    /\ stage' = IF Viable THEN "running" ELSE "failed"
    /\ ready' = Viable
    /\ UNCHANGED <<entries, spawned, disabled, skipped, cancelled, task,
                   transfer, pace, clock>>

\* The shutdown signal.
Shutdown ==
    /\ stage = "running"
    /\ stage' = "stopping" /\ cancelled' = TRUE
    /\ UNCHANGED <<entries, spawned, disabled, skipped, ready, task, transfer,
                   pace, clock>>

\* (mutant: the handles are not awaited)
Joined_None == TRUE

\* Every spawned task has been joined.
Joined == \A i \in spawned : task[i].pc = "exited"

\* The handles are awaited before App::run returns.
Drained ==
    /\ stage \in {"stopping", "aborting"} /\ Joined
    /\ stage' = IF stage = "stopping" THEN "stopped" ELSE "failed"
    /\ UNCHANGED <<entries, spawned, disabled, skipped, ready, cancelled, task,
                   transfer, pace, clock>>

-----------------------------------------------------------------------------
(* An instance's run loop. *)

Mine(i) == {x \in Transfers : Owner[x] = i}
Busy(x) == transfer[x].pc \in {"send", "throttled"}

\* What a tick of instance i claims at this instant.
Due(i) == {x \in Mine(i) : transfer[x].pc = "pending" /\ transfer[x].gate <= clock}

\* A branch of select! other than the cancellation: a tick that claims
\* something (one that does not changes nothing here).
TickBegin(i) ==
    /\ task[i].pc = "wait" /\ Due(i) # {}
    /\ task' = [task EXCEPT ![i] = [pc |-> "tick", now |-> clock]]
    /\ transfer' = [x \in Transfers |->
          IF x \in Due(i) THEN [transfer[x] EXCEPT !.pc = "send"] ELSE transfer[x]]
    /\ UNCHANGED <<boot, pace, clock>>

\* Its transfers are over.
TickEnd(i) ==
    /\ task[i].pc = "tick" /\ \A x \in Mine(i) : ~Busy(x)
    /\ task' = [task EXCEPT ![i] = [pc |-> "wait", now |-> 0]]
    /\ UNCHANGED <<boot, transfer, pace, clock>>

\* The cancellation branch.
Exit(i) ==
    /\ task[i].pc = "wait" /\ cancelled
    /\ task' = [task EXCEPT ![i].pc = "exited"]
    /\ UNCHANGED <<boot, transfer, pace, clock>>

-----------------------------------------------------------------------------
(* A transfer. *)

\* (mutant: only the instance's own bucket is charged)
Passes_Own(i) == {i}

\* The buckets a transfer of instance i passes.
Passes(i) == {i, "global"}

\* Bandwidth::throttle: both buckets are charged at once, and the transfer
\* sleeps for the longer of the two waits.
Throttle(x) ==
    LET at == Passes(Owner[x])
        owed == [b \in Buckets |->
            IF b \in at THEN Deficit(bucket[b], Rate[b], Chunk, clock) ELSE 0]
        bytes == [b \in Buckets |-> charged[b] + IF b \in at THEN Chunk ELSE 0]
    IN  /\ transfer[x].pc = "send" /\ transfer[x].left > 0
        /\ bucket' = [b \in Buckets |->
              IF b \in at THEN Acquired(bucket[b], Rate[b], Chunk, clock)
                          ELSE bucket[b]]
        /\ charged' = bytes
        /\ transfer' = [transfer EXCEPT
              ![x].pc = "throttled", ![x].at = clock, ![x].owed = owed,
              ![x].upto = [b \in Buckets |-> IF b \in at THEN bytes[b] ELSE 0]]
        /\ UNCHANGED <<boot, task, watch, clock>>

\* The wait is over in every bucket and the chunk is written.
Write(x) ==
    /\ transfer[x].pc = "throttled"
    /\ \A b \in Buckets :
        Waited(Rate[b], transfer[x].owed[b], transfer[x].at, clock)
    /\ transfer' = [transfer EXCEPT
          ![x].pc = "send", ![x].left = @ - 1, ![x].at = 0,
          ![x].owed = Fresh.owed, ![x].upto = Fresh.upto]
    /\ watch' = [watch EXCEPT !.sent = @ + Chunk]
    /\ UNCHANGED <<boot, task, bucket, charged, clock>>

\* The last chunk is written and the file delivered.
Deliver(x) ==
    /\ transfer[x].pc = "send" /\ transfer[x].left = 0
    /\ transfer' = [transfer EXCEPT ![x].pc = "done"]
    /\ UNCHANGED <<boot, task, pace, clock>>

\* The attempt fails.  The decision and the retry's gate are taken at the now
\* the tick began with, however long ago that is.
Fail(x) ==
    LET now == task[Owner[x]].now
    IN  /\ transfer[x].pc = "send"
        /\ \/ /\ ~GivesUp(policy, transfer[x].attempts, now - transfer[x].found)
              /\ \E delay \in Backoff(policy, transfer[x].attempts + 1) :
                    transfer' = [transfer EXCEPT
                       ![x].pc = "pending", ![x].left = Chunks,
                       ![x].attempts = @ + 1, ![x].gate = now + delay]
           \/ /\ GivesUp(policy, transfer[x].attempts, now - transfer[x].found)
              /\ transfer' = [transfer EXCEPT ![x].pc = "exhausted"]
        /\ UNCHANGED <<boot, task, pace, clock>>

\* An error classified as permanent is given up at once.
FailPermanently(x) ==
    /\ transfer[x].pc = "send"
    /\ transfer' = [transfer EXCEPT ![x].pc = "exhausted"]
    /\ UNCHANGED <<boot, task, pace, clock>>

-----------------------------------------------------------------------------

\* Time passes, of which start-up takes none.
Elapse ==
    /\ stage \notin {"open", "loop"}
    /\ clock < Horizon /\ clock' = clock + 1
    /\ UNCHANGED <<boot, task, transfer, pace>>

\* The observer begins a new window.
Observe ==
    /\ clock \in Windows \ {watch.start}
    /\ watch' = [start |-> clock, base |-> charged, sent |-> 0,
                 unsent |-> Chunk * Cardinality({x \in Transfers :
                                transfer[x].pc = "throttled"})]
    /\ UNCHANGED <<boot, task, transfer, bucket, charged, clock>>

AppStep == \/ Open \/ StartFatal \/ StartSkip \/ StartBuilt \/ StartFails
           \/ Started \/ Drained
Step(x) == Throttle(x) \/ Write(x) \/ Deliver(x) \/ Fail(x) \/ FailPermanently(x)
Next ==
    \/ AppStep \/ Shutdown \/ Elapse \/ Observe
    \/ \E i \in Ids : TickBegin(i) \/ TickEnd(i) \/ Exit(i)
    \/ \E x \in Transfers : Step(x)

Spec == Init /\ [][Next]_vars

-----------------------------------------------------------------------------
(* Properties. *)

\* Types of the state.
TransferTypes ==
    [pc : {"pending", "send", "throttled", "done", "exhausted"},
     left : Int, attempts : Nat, found : Int, gate : Int,
     at : Nat, owed : [Buckets -> Nat], upto : [Buckets -> Nat]]

TypeOK ==
    /\ task \in [Ids -> [pc : {"none", "wait", "tick", "exited"}, now : Int]]
    /\ transfer \in [Transfers -> TransferTypes]
    /\ bucket \in [Buckets -> [tokens : Int, last : Nat]]
    /\ charged \in [Buckets -> Nat]
    /\ watch \in [start : Nat, base : [Buckets -> Nat], unsent : Int, sent : Int]
    /\ clock \in Nat

\* No bucket lets through more than one second's burst and its rate: whatever
\* window an observer chooses, of the bytes charged since it began those that
\* are written by time t are at most capacity + rate * (t - start), for
\* any number of transfers, with debts, waits overslept and idle times.
Paced ==
    [][\A x \in Transfers : transfer[x].pc = "throttled" /\ transfer'[x].pc = "send"
         => \A b \in Buckets : Rate[b] > 0 =>
              transfer[x].upto[b]
                <= watch.base[b] + Capacity(Rate[b]) + Rate[b] * (clock - watch.start)]_vars

\* The instances together keep to the global cap: what is written in a window
\* is at most what was already charged and unwritten when it began, the burst
\* and the rate, because every write is charged to the shared bucket too.
AggregateCap ==
    Rate["global"] > 0 =>
        watch.sent <= watch.unsent + Capacity(Rate["global"])
                      + Rate["global"] * (clock - watch.start)

\* A transfer is attempted no more often than maxAttempts says, and no retry
\* is scheduled for later than the budget and one full backoff after discovery,
\* although every decision is taken with the now of its tick.
RetriesBounded ==
    \A x \in Transfers :
        /\ policy.attempts # None => transfer[x].attempts + 1 <= Most(1, policy.attempts)
        /\ policy.giveUp # None /\ transfer[x].attempts > 0 =>
             transfer[x].gate < transfer[x].found + policy.giveUp + policy.max

\* The backoff never shrinks from one attempt to the next, for whatever base
\* delay and however many attempts a transfer still makes: the exponent stops
\* and the product saturates instead of wrapping round.
BackoffGrows ==
    \A x \in {y \in Transfers : transfer[y].pc = "pending"} :
        \A base \in Bases, n \in 0..MaxShift :
            LET p == [policy EXCEPT !.base = base, !.max = Most(base, policy.max)]
            IN  BackoffCap(p, transfer[x].attempts + n)
                  <= BackoffCap(p, transfer[x].attempts + n + 1)

\* App::run leaves no instance behind, neither at shutdown nor when a later
\* entry aborts the start-up of the component.
NoOrphans ==
    stage \in {"stopped", "failed"} =>
        \A i \in Ids : task[i].pc \in {"none", "exited"}
=============================================================================
