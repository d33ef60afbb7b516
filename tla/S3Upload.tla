------------------------------ MODULE S3Upload ------------------------------
(***************************************************************************)
(* Delivery of one file name to one S3 destination (dest/s3), attempt      *)
(* after attempt: size-adaptive upload, the resumable multipart protocol   *)
(* with its durable token, and what the worker does with the outcome.      *)
(*                                                                         *)
(* A version of the source is a number and stands for its mtime; SizeOf    *)
(* gives its size, which two versions may share.  A body (of a part list,  *)
(* of an object) records for each part which version its bytes are from; 0 *)
(* is "no part".  A body that mixes versions is a torn copy.  Every        *)
(* version is cut into the same number of parts.                           *)
(*                                                                         *)
(* One round-trip or one store call is one step.  A reply may be lost      *)
(* after the request took effect.  Writes of the token are best-effort: a  *)
(* store fault skips the write and the transfer goes on.                   *)
(***************************************************************************)
EXTENDS Naturals, FiniteSets

CONSTANTS NumParts,      \* parts of a multipart upload
          MaxConcurrent, \* multipart.maxConcurrentParts
          SizeOf,        \* the size of each version
          Threshold,     \* multipart.thresholdBytes
          Label,         \* the key the worker keeps this destination under
          Siblings,      \* other destinations can exhaust the item
          Refusals,      \* S3 may answer with an error classed permanent
          Stragglers,    \* an aborted part task may finish on its own thread
          MaxTries,      \* retry.maxAttempts
          MaxVersion,    \* bound: versions the producer writes
          MaxUploads,    \* bound: multipart uploads created
          MaxFails,      \* bound: failed requests and lost replies
          MaxFaults,     \* bound: durable-store faults
          MaxSweeps,     \* bound: uploads the bucket's lifecycle rule aborts
          MaxCuts        \* bound: crashes and window closes

Parts == 1 .. NumParts
Versions == 1 .. MaxVersion
Uploads == 1 .. MaxUploads
TokenKey == "s3"               \* the key the backend saves its token under
Labels == {TokenKey, Label}

ASSUME UploadAssumption ==
    /\ NumParts \in Nat \ {0} /\ MaxConcurrent \in Nat \ {0}
    /\ MaxTries \in Nat \ {0} /\ MaxVersion \in Nat \ {0}
    /\ SizeOf \in [Versions -> Nat] /\ Threshold \in Nat
    /\ Siblings \in BOOLEAN /\ Refusals \in BOOLEAN /\ Stragglers \in BOOLEAN
    /\ MaxUploads \in Nat /\ MaxFails \in Nat /\ MaxFaults \in Nat
    /\ MaxSweeps \in Nat /\ MaxCuts \in Nat

NoBody == [p \in Parts |-> 0]
Whole(v) == [p \in Parts |-> v]
Bodies == [Parts -> 0 .. MaxVersion]
NoObject == [plan |-> 0, body |-> NoBody]

\* S3ResumeToken.  upload = 0: the row is absent or holds a verified
\* checkpoint, which carries no token (from_resume gives None for both).
Token(u, v, d) == [upload |-> u, ver |-> v, done |-> d]
NoToken == Token(0, 0, NoBody)
Tokens == [upload : 0 .. MaxUploads, ver : 0 .. MaxVersion, done : Bodies]

VARIABLES
    src,       \* version of the source file on disk
    phase,     \* the destination's dest_state phase
    row,       \* its resume rows, by key
    tries,     \* failed attempts of this delivery
    mpu, held, \* the bucket's multipart uploads and the parts it holds
    object,    \* what lives at the key: plan gives its size, and the bytes
    \* one attempt, lost when the process dies
    pc,        \* where it stands
    ver,       \* version whose size and mtime deliver captured
    mem,       \* the token and completed list it works with
    fresh,     \* it works on an upload of its own
    sent,      \* parts whose reply arrived and is not recorded yet
    handle,    \* object checksum taken from the reply
    straggler, \* token an aborted part task is about to save
    fails, faults, sweeps, cuts

durable == <<phase, row, tries>>
bucket  == <<mpu, held, object>>
attempt == <<ver, mem, fresh, sent, handle>>
bounds  == <<fails, faults, sweeps, cuts>>
vars    == <<src, durable, bucket, pc, attempt, straggler, bounds>>

Points == {"idle", "put", "create", "parts", "head", "recheck", "verify",
           "checkpoint", "mark", "failed", "refused", "abort", "drop"}

\* The rows, the bucket and the attempt keep their types.
TypeOK ==
    /\ src \in Versions /\ phase \in {"pending", "verified", "exhausted"}
    /\ row \in [Labels -> Tokens] /\ tries \in Nat
    /\ mpu \in [Uploads -> {"unused", "open", "gone"}]
    /\ held \in [Uploads -> Bodies]
    /\ object \in [plan : 0 .. MaxVersion, body : Bodies]
    /\ pc \in Points /\ ver \in Versions /\ mem \in Tokens
    /\ fresh \in BOOLEAN /\ sent \in Bodies /\ handle \in Bodies
    /\ straggler \in Tokens
    /\ fails \in Nat /\ faults \in Nat /\ sweeps \in Nat /\ cuts \in Nat

Init ==
    /\ src = 1 /\ phase = "pending" /\ tries = 0
    /\ row = [l \in Labels |-> NoToken]
    /\ mpu = [u \in Uploads |-> "unused"] /\ held = [u \in Uploads |-> NoBody]
    /\ object = NoObject
    /\ pc = "idle" /\ ver = 1 /\ mem = NoToken /\ fresh = FALSE
    /\ sent = NoBody /\ handle = NoBody /\ straggler = NoToken
    /\ fails = 0 /\ faults = 0 /\ sweeps = 0 /\ cuts = 0
-----------------------------------------------------------------------------
(***************************************************************************)
(* The producer, the bucket's lifecycle rule, the end of the process.      *)
(***************************************************************************)
\* The file is overwritten while its row is live: the resume rows stay.
Rewrite ==
    /\ phase = "pending" /\ src < MaxVersion
    /\ src' = src + 1
    /\ UNCHANGED <<durable, bucket, pc, attempt, straggler, bounds>>

\* The row went terminal and the name is used again: upsert_ready deletes
\* every resume row with the old state.
NewFile ==
    /\ phase # "pending" /\ pc = "idle" /\ src < MaxVersion
    /\ src' = src + 1 /\ phase' = "pending" /\ tries' = 0
    /\ row' = [l \in Labels |-> NoToken]
    /\ UNCHANGED <<bucket, pc, attempt, straggler, bounds>>

Close(u) == /\ mpu' = [mpu EXCEPT ![u] = "gone"]
            /\ held' = [held EXCEPT ![u] = NoBody]

Sweep(u) ==
    /\ mpu[u] = "open" /\ sweeps < MaxSweeps
    /\ sweeps' = sweeps + 1 /\ Close(u)
    /\ UNCHANGED <<src, durable, object, pc, attempt, straggler, fails,
                   faults, cuts>>

\* The token with part p on record: what its task pushes and saves.
Recorded(p) == Token(mem.upload, ver, [mem.done EXCEPT ![p] = sent[p]])

\* Part tasks are aborted at their next await.  One that already has its
\* reply records the part and saves the token without awaiting, so on
\* another thread it may still do that.
Late == IF Stragglers
        THEN {Recorded(p) : p \in {q \in Parts : sent[q] # 0}}
        ELSE {}
AbortParts == sent' = NoBody /\ straggler' \in {straggler} \cup Late

\* A delivery that is cut short leaves the row as it is.  If the item had
\* not been rolled up, its exhausted destination is tried again.
Reset == /\ pc' = "idle" /\ mem' = NoToken /\ fresh' = FALSE
         /\ handle' = NoBody
         /\ phase' = "pending"

Crash ==
    /\ pc # "idle" /\ cuts < MaxCuts /\ cuts' = cuts + 1
    /\ Reset /\ sent' = NoBody /\ straggler' = NoToken
    /\ UNCHANGED <<src, row, tries, bucket, ver, fails, faults, sweeps>>

\* A window close aborts the item's task (run_batch_windowed).
Pause ==
    /\ pc # "idle" /\ cuts < MaxCuts /\ cuts' = cuts + 1
    /\ Reset /\ AbortParts
    /\ UNCHANGED <<src, row, tries, bucket, ver, fails, faults, sweeps>>

StragglerSave ==
    /\ straggler # NoToken
    /\ row' = [row EXCEPT ![TokenKey] = straggler] /\ straggler' = NoToken
    /\ UNCHANGED <<src, phase, tries, bucket, pc, attempt, bounds>>
-----------------------------------------------------------------------------
(***************************************************************************)
(* deliver                                                                 *)
(***************************************************************************)
\* plan_upload: one PutObject or a multipart upload.
Single(v) == SizeOf[v] <= Threshold

\* S3ResumeToken::matches: key and part size are fixed here; size and mtime
\* are those of the version.
Matches_AnyMtime(t, v) == t.upload # 0
Matches(t, v) == t.upload # 0 /\ t.ver = v

\* load_resume, metadata, plan_upload, and put_multipart's choice.
Begin ==
    /\ pc = "idle" /\ phase = "pending"
    /\ ver' = src
    /\ \/ Single(src) /\ pc' = "put" /\ UNCHANGED mem
       \/ /\ ~Single(src) /\ Matches(row[Label], src)
          /\ pc' = "parts" /\ mem' = row[Label]
       \/ /\ ~Single(src) /\ ~Matches(row[Label], src)
          /\ pc' = "create" /\ UNCHANGED mem
    /\ UNCHANGED <<src, durable, bucket, fresh, sent, handle, straggler,
                   bounds>>

\* What a read of the source can have returned during this attempt.
Read == ver .. src

\* A request takes effect (the action) and its reply is lost, or it fails.
Fails == /\ fails < MaxFails /\ fails' = fails + 1
         /\ UNCHANGED <<faults, sweeps, cuts>>
Fail(point) == pc = point /\ pc' = "failed" /\ Fails

\* classify_s3: an error is worth a retry, or final.
Refuse(point) ==
    \/ Fail(point)
    \/ Refusals /\ pc = point /\ pc' = "refused" /\ Fails

\* Best-effort write of the token row.
Save(t) ==
    \/ row' = [row EXCEPT ![TokenKey] = t] /\ UNCHANGED bounds
    \/ /\ faults < MaxFaults /\ faults' = faults + 1
       /\ UNCHANGED <<row, fails, sweeps, cuts>>

\* put_single: the object checksum comes back with the reply.
PutObject(b) == object' = [plan |-> ver, body |-> b]

PutSingle ==
    /\ pc = "put" /\ \E b \in [Parts -> Read] : PutObject(b) /\ handle' = b
    /\ pc' = "recheck"
    /\ UNCHANGED <<src, durable, mpu, held, ver, mem, fresh, sent, straggler,
                   bounds>>

PutReplyLost ==
    /\ Fail("put") /\ \E b \in [Parts -> Read] : PutObject(b)
    /\ UNCHANGED <<src, durable, mpu, held, attempt, straggler>>

\* create_mpu: open an upload and write its token ahead of the first part.
Open(u) == /\ mpu[u] = "unused" /\ \A w \in 1 .. u - 1 : mpu[w] # "unused"
           /\ mpu' = [mpu EXCEPT ![u] = "open"]

Create(u) ==
    /\ pc = "create" /\ Open(u)
    /\ mem' = Token(u, ver, NoBody) /\ Save(Token(u, ver, NoBody))
    /\ fresh' = TRUE
    /\ pc' = "parts"
    /\ UNCHANGED <<src, phase, tries, held, object, ver, sent, handle,
                   straggler>>

CreateReplyLost(u) ==
    /\ Fail("create") /\ Open(u)
    /\ UNCHANGED <<src, durable, held, object, attempt, straggler>>

\* The requests of the other points may fail without an effect.
RequestFails ==
    /\ \E p \in {"put", "create", "head", "recheck", "verify"} : Refuse(p)
    /\ UNCHANGED <<src, durable, bucket, attempt, straggler>>
-----------------------------------------------------------------------------
(***************************************************************************)
(* run_multipart_attempt.  The task set is refilled in part order whenever *)
(* a task ends, so the tasks in flight are those of the lowest missing     *)
(* parts.                                                                  *)
(***************************************************************************)
Missing == {p \in Parts : mem.done[p] = 0}
InFlight_Resend == Parts
InFlight == {p \in Missing :
               Cardinality({q \in Missing : q < p}) < MaxConcurrent}
Alive == mpu[mem.upload] = "open"

PutPart(p, b) == held' = [held EXCEPT ![mem.upload][p] = b]

UploadPart(p) ==
    /\ pc = "parts" /\ Alive /\ p \in InFlight /\ sent[p] = 0
    /\ \E b \in Read : PutPart(p, b) /\ sent' = [sent EXCEPT ![p] = b]
    /\ UNCHANGED <<src, durable, mpu, object, pc, ver, mem, fresh, handle,
                   straggler, bounds>>

\* Record the part and save the token, both under the attempt's mutex.  A
\* straggler of an earlier attempt has a mutex of its own.
Record(p) ==
    /\ pc = "parts" /\ sent[p] # 0
    /\ sent' = [sent EXCEPT ![p] = 0]
    /\ mem' = Recorded(p) /\ Save(Recorded(p))
    /\ UNCHANGED <<src, phase, tries, bucket, pc, ver, fresh, handle,
                   straggler>>

\* The first task that fails aborts the others and ends the attempt.
PartReplyLost(p) ==
    /\ Fail("parts") /\ Alive /\ p \in InFlight /\ sent[p] = 0
    /\ \E b \in Read : PutPart(p, b)
    /\ AbortParts
    /\ UNCHANGED <<src, durable, mpu, object, ver, mem, fresh, handle>>

PartFails ==
    /\ Refuse("parts") /\ Missing # {} /\ AbortParts
    /\ UNCHANGED <<src, durable, bucket, ver, mem, fresh, handle>>

\* NoSuchUpload, from a part or from the completion: a token that was
\* reused may be for an upload that is complete; a new one is an error.
Gone_Fails ==
    /\ pc = "parts" /\ ~Alive
    /\ (Missing = {} \/ \E p \in InFlight : sent[p] = 0)
    /\ pc' = "failed" /\ AbortParts
    /\ UNCHANGED <<src, durable, bucket, ver, mem, fresh, handle, bounds>>

Gone ==
    /\ pc = "parts" /\ ~Alive
    /\ (Missing = {} \/ \E p \in InFlight : sent[p] = 0)
    /\ pc' = IF fresh THEN "failed" ELSE "head"
    /\ AbortParts
    /\ UNCHANGED <<src, durable, bucket, ver, mem, fresh, handle, bounds>>

\* CompleteMultipartUpload takes the listed parts by their tags; it refuses
\* a tag that is not the one it holds (see PartListGenuine).
Publish ==
    /\ Alive /\ Missing = {} /\ held[mem.upload] = mem.done
    /\ PutObject(mem.done) /\ Close(mem.upload)

Complete ==
    /\ pc = "parts" /\ Publish
    /\ handle' = mem.done /\ pc' = "recheck"
    /\ UNCHANGED <<src, durable, ver, mem, fresh, sent, straggler, bounds>>

CompleteReplyLost ==
    /\ Fail("parts") /\ Publish
    /\ UNCHANGED <<src, durable, attempt, straggler>>

CompleteFails ==
    /\ Refuse("parts") /\ Missing = {}
    /\ UNCHANGED <<src, durable, bucket, attempt, straggler>>

\* recover_completed_object: an object of the right size is taken for the
\* upload's own, whose completion was acknowledged to nobody.
LooksComplete == /\ object.plan # 0
                 /\ SizeOf[object.plan] = SizeOf[ver]

HeadFound ==
    /\ pc = "head" /\ LooksComplete
    /\ handle' = object.body /\ pc' = "verify"
    /\ UNCHANGED <<src, durable, bucket, ver, mem, fresh, sent, straggler,
                   bounds>>

\* clear_token, then on to a fresh upload.
HeadMissed ==
    /\ pc = "head" /\ ~LooksComplete
    /\ Save(NoToken) /\ pc' = "create"
    /\ UNCHANGED <<src, phase, tries, bucket, attempt, straggler>>
-----------------------------------------------------------------------------
(***************************************************************************)
(* The end of deliver, verify, and what run_one_dest makes of the outcome. *)
(***************************************************************************)
\* source_changed, after the object is stored.
SourceChanged == src # ver

Recheck ==
    /\ pc = "recheck" /\ pc' = IF SourceChanged THEN "failed" ELSE "verify"
    /\ UNCHANGED <<src, durable, bucket, attempt, straggler, bounds>>

\* verify: HeadObject, size, and the checksum taken on delivery.
Verify ==
    /\ pc = "verify" /\ LooksComplete /\ object.body = handle
    /\ pc' = "checkpoint"
    /\ UNCHANGED <<src, durable, bucket, attempt, straggler, bounds>>

\* save_verified_checkpoint replaces the token, best-effort.
Checkpoint ==
    /\ pc = "checkpoint" /\ pc' = "mark"
    /\ \/ row' = [row EXCEPT ![Label] = NoToken] /\ UNCHANGED bounds
       \/ /\ faults < MaxFaults /\ faults' = faults + 1
          /\ UNCHANGED <<row, fails, sweeps, cuts>>
    /\ UNCHANGED <<src, phase, tries, bucket, attempt, straggler>>

EndAttempt == /\ pc' = "idle" /\ mem' = NoToken /\ fresh' = FALSE
              /\ handle' = NoBody
              /\ UNCHANGED <<src, ver, sent, straggler, bounds>>

MarkVerified ==
    /\ pc = "mark" /\ phase' = "verified" /\ EndAttempt
    /\ UNCHANGED <<row, tries, bucket>>

\* RetryDecision::Retry keeps the token for the next attempt.
Retry ==
    /\ pc = "failed" /\ tries + 1 < MaxTries
    /\ tries' = tries + 1 /\ EndAttempt
    /\ UNCHANGED <<phase, row, bucket>>

\* RetryDecision::GiveUp, or the give-up of another destination while this
\* one waits for its next attempt: release the partial upload.
GiveUp ==
    /\ \/ pc = "refused" \/ (pc = "failed" /\ tries + 1 >= MaxTries)
       \/ Siblings /\ pc = "idle" /\ phase = "pending" /\ tries > 0
    /\ phase' = "exhausted" /\ pc' = "abort"
    /\ UNCHANGED <<src, row, tries, bucket, attempt, straggler, bounds>>

\* abort the upload the row names, if it names one; idempotent.
Abort ==
    /\ pc = "abort" /\ pc' = "drop"
    /\ \/ row[Label].upload # 0 /\ Close(row[Label].upload) /\ UNCHANGED bounds
       \/ row[Label].upload # 0 /\ Fails /\ UNCHANGED <<mpu, held>>
       \/ row[Label].upload = 0 /\ UNCHANGED <<mpu, held, bounds>>
    /\ UNCHANGED <<src, durable, object, attempt, straggler>>

\* clear_resume, best-effort.
DropToken ==
    /\ pc = "drop" /\ pc' = "idle"
    /\ \/ row' = [row EXCEPT ![Label] = NoToken] /\ UNCHANGED bounds
       \/ /\ faults < MaxFaults /\ faults' = faults + 1
          /\ UNCHANGED <<row, fails, sweeps, cuts>>
    /\ mem' = NoToken /\ fresh' = FALSE /\ handle' = NoBody
    /\ UNCHANGED <<src, phase, tries, bucket, ver, sent, straggler>>
-----------------------------------------------------------------------------
Attempt == \/ Begin \/ PutSingle \/ \E u \in Uploads : Create(u)
           \/ \E p \in Parts : UploadPart(p) \/ Record(p)
           \/ Gone \/ Complete \/ HeadFound \/ HeadMissed
           \/ Recheck \/ Verify \/ Checkpoint \/ MarkVerified
           \/ Retry \/ GiveUp \/ Abort \/ DropToken

Misfortune == \/ PutReplyLost \/ \E u \in Uploads : CreateReplyLost(u)
              \/ \E p \in Parts : PartReplyLost(p)
              \/ RequestFails \/ PartFails
              \/ CompleteReplyLost \/ CompleteFails
              \/ Crash \/ Pause \/ StragglerSave
              \/ \E u \in Uploads : Sweep(u)

Next == Attempt \/ Misfortune \/ Rewrite \/ NewFile

Spec == Init /\ [][Next]_vars

\* The runtime polls an attempt until it ends, and failed rows are claimed
\* again when their backoff has passed.
FairSpec == Spec /\ WF_vars(Attempt)
-----------------------------------------------------------------------------
(***************************************************************************)
(* Properties.                                                             *)
(***************************************************************************)
\* No two versions that use this name have the same size.
OrderlyNames == \A v, w \in Versions : SizeOf[v] = SizeOf[w] => v = w

\* A destination marked verified holds one version, whole: the one whose
\* size and mtime the attempt captured.  Torn uploads, parts of an older
\* version under a reused token, an object left by an earlier delivery and
\* lost acknowledgements must all be told apart (deliver, matches,
\* source_changed, recover_completed_object).
DeliveredWhole ==
    phase = "verified" => object = [plan |-> ver, body |-> Whole(ver)]

\* The list an attempt completes with names exactly the parts S3 holds, so
\* that CompleteMultipartUpload is never refused (InvalidPart counts as
\* permanent and would give the file up).
PartListGenuine ==
    pc = "parts" /\ Alive
        => \A p \in Parts : mem.done[p] # 0 => held[mem.upload][p] = mem.done[p]

\* Whatever is lost, swept or cut, a file whose retries are not spent gets
\* there: no token left behind makes every later attempt fail.
EventuallyVerified == phase = "pending" ~> phase = "verified"
=============================================================================
