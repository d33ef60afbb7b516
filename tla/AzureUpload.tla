---------------------------- MODULE AzureUpload ----------------------------
(***************************************************************************)
(* The Azure destination (dest/azure): a small file in one Put Blob, else  *)
(* blocks that are staged in order and made the blob by one Put Block      *)
(* List.  A checkpoint is trusted without asking the server.               *)
(***************************************************************************)
EXTENDS UploadAttempt

CONSTANT Threshold  \* AzureBlockParams.threshold, in units

ASSUME ThresholdAssumption == Threshold \in Nat

\* staged[n]: the version whose bytes block n holds, 0 if it is not staged.
VARIABLE staged

azure == <<staged>>
Blocks == 1 .. MaxUnits
NoBlocks == [n \in Blocks |-> 0]
AzureTypeOK == staged \in [Blocks -> 0 .. MaxVersion]
AzureInit == staged = NoBlocks

\* plan_upload, and the number (start / block_size + 1) of a unit's block.
Single(v) == SizeOf[v] <= Threshold
BlockOf(u) == (u - 1) \div Chunk + 1
NumBlocks(v) == (SizeOf[v] + Chunk - 1) \div Chunk

\* AzureResumeToken::matches: blob and block size are fixed here.
AzureMatches(tok, v) == tok.ver = v

AzureOffset == IF ~AzureMatches(row, src) THEN 0
               ELSE IF row.done < SizeOf[src] THEN row.done ELSE SizeOf[src]
AzureBegin ==
    /\ IF Single(src) THEN Start("put", 0, 0, FALSE)
       ELSE Start("hash", AzureOffset, 0, FALSE)
    /\ UNCHANGED azure

\* Put Blob also drops what is staged for the name.
AzurePut ==
    /\ At("put") /\ Readable(Size) /\ BodySent
    /\ obj' = Body /\ staged' = NoBlocks
    /\ UNCHANGED <<setting, src, durable, bounds>>

AzureSave == SaveRow(Token(at.ver, at.pos, 0)) /\ UNCHANGED azure

\* put_block.
AzureSending == At("send") /\ at.pos < Size /\ Readable(PieceEnd)
Staged == staged' = [staged EXCEPT ![BlockOf(at.pos + 1)] = src]
AzureSend ==
    /\ AzureSending /\ Staged /\ PieceSent
    /\ UNCHANGED <<setting, src, durable, obj, bounds>>

AzureSent == AllSent("commit") /\ UNCHANGED azure

\* put_block_list names the plan's blocks as uncommitted ones: the server
\* (external) makes them the blob, or has none of that name to commit.
Committable == \A n \in 1 .. NumBlocks(at.ver) : staged[n] # 0
Committed ==
    /\ obj' = Object([len |-> Size,
                      bytes |-> [u \in Units |->
                          IF u <= Size THEN staged[BlockOf(u)] ELSE 0]])
    /\ staged' = NoBlocks

AzureCommit ==
    /\ At("commit") /\ Committable /\ Committed /\ Go("clear")
    /\ UNCHANGED <<setting, src, durable, bounds>>

\* InvalidBlockList, a 4xx.
AzureInvalidList ==
    /\ At("commit") /\ ~Committable /\ Go("probe")
    /\ UNCHANGED <<setting, src, durable, obj, bounds, azure>>

\* The commit fails otherwise, or its answer is lost.
AzureCommitFails ==
    /\ At("commit") /\ Fail
    /\ \/ Go("probe") /\ UNCHANGED <<obj, azure>>
       \/ Go("unsure") /\ UNCHANGED <<obj, azure>>
       \/ Go("unsure") /\ Committable /\ Committed
    /\ UNCHANGED <<setting, src, durable>>

\* blob_committed_at_size: a live blob of that size is taken for the result of
\* an earlier commit; else the commit's own error counts.
Recovered == obj.live /\ obj.is.len = Size
AzureProbe ==
    /\ At("probe") \/ At("unsure")
    /\ Go(IF Recovered THEN "clear" ELSE IF At("probe") THEN "refused" ELSE "failed")
    /\ UNCHANGED <<setting, src, durable, obj, bounds, azure>>

\* Staged blocks are collected after a week.
AzureCollect ==
    /\ staged # NoBlocks /\ Lose /\ staged' = NoBlocks
    /\ UNCHANGED <<setting, src, durable, obj, at>>

AzureRefused == Refused({"put", "send", "probe", "unsure", "verify"})
                /\ UNCHANGED azure

AzureEffect ==
    \/ UNCHANGED <<obj, azure>>
    \/ At("put") /\ Readable(Size) /\ obj' = Body /\ staged' = NoBlocks
    \/ AzureSending /\ Staged /\ UNCHANGED obj
    \/ At("commit") /\ Committable /\ Committed

AzureLostAnswer == (At("put") \/ AzureSending) /\ Lost /\ AzureEffect
AzureCut == Cut /\ AzureEffect

AzureVerify == VerifyObject /\ UNCHANGED azure

\* abort does nothing: staged blocks cannot be dropped.
AzureAbort ==
    /\ At("abort") /\ Go("drop")
    /\ UNCHANGED <<setting, src, durable, obj, bounds, azure>>

AzureWork == \/ AzureBegin \/ AzurePut \/ AzureSave \/ AzureSend \/ AzureSent
             \/ AzureCommit \/ AzureInvalidList \/ AzureProbe \/ AzureVerify
             \/ AzureAbort
AzureFault == \/ AzureCommitFails \/ AzureCollect \/ AzureRefused
              \/ AzureLostAnswer \/ AzureCut

\* The blocks of the checkpoint are staged, or the blob is there already.
AzureHeld(tok) ==
    \/ \A u \in Units : u <= tok.done => staged[BlockOf(u)] = tok.ver
    \/ obj = Object(Whole(tok.ver))
=============================================================================
