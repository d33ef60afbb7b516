---------------------------- MODULE CloudUpload ----------------------------
(***************************************************************************)
(* One delivery to an HTTP, a GCS or an Azure destination: the attempts'   *)
(* common steps composed with those of the backend.                        *)
(***************************************************************************)
EXTENDS GcsUpload, HttpUpload, AzureUpload

vars == <<shared, gcs, http, azure>>

\* Checkpoint, attempt and server state keep their types; no offset passes
\* the largest file.
TypeOK == AttemptTypeOK /\ GcsTypeOK /\ HttpTypeOK /\ AzureTypeOK

Init == AttemptInit /\ GcsInit /\ HttpInit /\ AzureInit

Work == \/ Worker /\ UNCHANGED <<gcs, http, azure>>
        \/ backend = "gcs" /\ GcsWork /\ UNCHANGED <<http, azure>>
        \/ backend = "http" /\ HttpWork /\ UNCHANGED <<gcs, azure>>
        \/ backend = "azure" /\ AzureWork /\ UNCHANGED <<gcs, http>>

Fault == \/ backend = "gcs" /\ GcsFault /\ UNCHANGED <<http, azure>>
         \/ backend = "http" /\ HttpFault /\ UNCHANGED <<gcs, azure>>
         \/ backend = "azure" /\ AzureFault /\ UNCHANGED <<gcs, http>>

Producer == (Rewrite \/ NewFile) /\ UNCHANGED <<gcs, http, azure>>

Next == Work \/ Fault \/ Producer

Spec == Init /\ [][Next]_vars
FairSpec == Spec /\ WF_vars(Work)
-----------------------------------------------------------------------------
\* With verify = checksum, a destination that is marked verified holds the
\* whole version its last attempt announced, unless the source was rewritten
\* under that attempt: whatever answers were lost, sessions expired, blocks
\* collected, objects cut short and checkpoints lost (deliver, verify,
\* recovery of an Azure commit).
VerifiedWhole ==
    phase = "verified" /\ policy = "checksum" /\ at.ver = src
    => obj = Object(Whole(src))

\* The resume row never runs ahead of the server: as long as the server keeps
\* what it accepted and the source is the one the row is about, the server
\* holds the prefix that a resumed attempt will not send again
\* (persist_checkpoint after each accepted piece).
CheckpointHeld ==
    row.ver = src /\ losses = 0 =>
      CASE backend = "gcs" -> GcsHeld(row)
        [] backend = "http" -> HttpHeld(row)
        [] backend = "azure" -> AzureHeld(row)

\* A GCS session that kept less than it was sent: send_chunk logs such a 308
\* and goes on, and the chunks that follow leave a gap.
CutShort == \E s \in Sessions : /\ sessions[s].st = "open"
                                /\ sessions[s].is.len % Chunk # 0

\* A delivery gets through once faults stop, or is refused for good: no loop
\* of restarts, expired sessions or checkpoints that cannot be met uses up the
\* attempts, unless a GCS session kept less than it was sent.
EventuallyVerified ==
    [](~CutShort) =>
        (phase = "pending" ~> \/ phase = "verified"
                              \/ phase = "exhausted" /\ tries + 1 < MaxTries)
=============================================================================
