--------------------------- MODULE S3UploadProofs ---------------------------
(***************************************************************************)
(* Proofs about S3Upload, for any number of parts, versions, uploads,      *)
(* faults and cuts.                                                        *)
(***************************************************************************)
EXTENDS S3Upload, TLAPS

\* Every token that is kept somewhere.
Kept == {row[l] : l \in Labels} \cup {mem, straggler}

\* What a token records was read no earlier than the version it is for.
Recent(t) == /\ t.ver <= src
             /\ \A p \in Parts : t.done[p] = 0 \/ t.done[p] \in t.ver .. src

\* The upload it names has been created.
Known(t) == t.upload # 0 => mpu[t.upload] # "unused"

\* A token for the source as it is now lists what the bucket holds.
Genuine(t) ==
    t.upload # 0 /\ t.ver = src /\ mpu[t.upload] = "open"
        => \A p \in Parts : t.done[p] # 0 => held[t.upload][p] = t.done[p]

\* Tokens of one upload are for one version.
Agree(t, w) == t.upload = w.upload /\ t.upload # 0 => t.ver = w.ver

GoodTokens ==
    /\ \A t \in Kept : Recent(t) /\ Known(t) /\ Genuine(t)
    /\ \A t, w \in Kept : Agree(t, w)

\* The attempt's token, and the replies it has not recorded.
AtWork ==
    /\ ver <= src
    /\ pc # "parts" => sent = NoBody
    /\ pc \in {"parts", "head"} => mem.upload # 0 /\ mem.ver = ver
    /\ \A p \in Parts : sent[p] # 0 =>
         /\ sent[p] \in ver .. src /\ mem.done[p] = 0
         /\ Alive => held[mem.upload][p] = sent[p]

\* How much of the captured version the object is known to hold.
ObjectAt ==
    /\ object.plan # 0
         => \A p \in Parts : object.body[p] \in object.plan .. src
    /\ pc \in {"parts", "head"} /\ ~fresh /\ object.plan = ver
         => object.body = Whole(ver)
    /\ pc = "head" => ~fresh
    /\ pc = "recheck" => object.plan = ver
    /\ pc \in {"verify", "checkpoint", "mark"} \/ phase = "verified"
         => object.plan = ver /\ object.body = Whole(ver)
    /\ phase = "verified" => pc = "idle"

Work == TypeOK /\ GoodTokens /\ AtWork /\ PartListGenuine
-----------------------------------------------------------------------------
(***************************************************************************)
(* Types, in four groups.                                                  *)
(***************************************************************************)
DurableTyped ==
    /\ src \in Versions /\ phase \in {"pending", "verified", "exhausted"}
    /\ row \in [Labels -> Tokens] /\ tries \in Nat
BucketTyped ==
    /\ mpu \in [Uploads -> {"unused", "open", "gone"}]
    /\ held \in [Uploads -> Bodies]
    /\ object \in [plan : 0 .. MaxVersion, body : Bodies]
AttemptTyped ==
    /\ pc \in Points /\ ver \in Versions /\ mem \in Tokens
    /\ fresh \in BOOLEAN /\ sent \in Bodies /\ handle \in Bodies
    /\ straggler \in Tokens
BoundsTyped ==
    fails \in Nat /\ faults \in Nat /\ sweeps \in Nat /\ cuts \in Nat

LEMMA Bounds == /\ MaxVersion \in Nat /\ MaxUploads \in Nat /\ NumParts \in Nat
                /\ NoBody \in Bodies /\ NoToken \in Tokens
                /\ TokenKey \in Labels /\ Label \in Labels
  BY UploadAssumption DEF NoBody, Bodies, NoToken, Token, Tokens, Labels,
                          TokenKey, Versions

LEMMA SaveType ==
    ASSUME TypeOK, NEW t \in Tokens, Save(t)
    PROVE  /\ row' \in [Labels -> Tokens]
           /\ fails' \in Nat /\ faults' \in Nat
           /\ sweeps' \in Nat /\ cuts' \in Nat
  BY Bounds DEF TypeOK, Save, bounds

LEMMA RecordedType ==
    ASSUME TypeOK, NEW p \in Parts
    PROVE  /\ Recorded(p) \in Tokens
           /\ Recorded(p).upload = mem.upload /\ Recorded(p).ver = ver
           /\ Recorded(p).done = [mem.done EXCEPT ![p] = sent[p]]
  BY Bounds DEF TypeOK, Recorded, Token, Tokens, Bodies, Versions

LEMMA AbortPartsType ==
    ASSUME TypeOK, AbortParts
    PROVE  sent' \in Bodies /\ straggler' \in Tokens
  BY Bounds, RecordedType DEF TypeOK, AbortParts, Late

\* Type correctness of the initial state.
LEMMA TypeInit == Init => TypeOK
<1> SUFFICES ASSUME Init PROVE TypeOK
  OBVIOUS
<1> USE Bounds, UploadAssumption DEF Init
<1>1. DurableTyped
  BY DEF DurableTyped, Versions
<1>2. BucketTyped
  BY DEF BucketTyped, NoObject
<1>3. AttemptTyped
  <2>1. fresh \in BOOLEAN /\ pc \in Points
    BY DEF Points
  <2>. QED
    BY <2>1 DEF AttemptTyped, Versions
<1>4. BoundsTyped
  BY DEF BoundsTyped
<1>. QED
  BY <1>1, <1>2, <1>3, <1>4 DEF TypeOK, DurableTyped, BucketTyped,
     AttemptTyped, BoundsTyped

\* ... and of every step.
LEMMA TypeStep == TypeOK /\ [Next]_vars => TypeOK'
<1> SUFFICES ASSUME TypeOK, [Next]_vars PROVE TypeOK'
  OBVIOUS
<1> USE Bounds
<1>1. CASE Attempt
  <2>1. CASE Begin
    BY <2>1 DEF Begin, TypeOK, durable, bucket, bounds, Points
  <2>2. CASE PutSingle
    <3>1. PICK b \in [Parts -> Read] : PutObject(b) /\ handle' = b
      BY <2>2 DEF PutSingle
    <3>2. b \in Bodies
      BY DEF Read, Bodies, TypeOK, Versions
    <3>. QED
      BY <2>2, <3>1, <3>2 DEF PutSingle, PutObject, TypeOK, durable, bounds,
                              Points, Versions
  <2>3. ASSUME NEW u \in Uploads, Create(u) PROVE TypeOK'
    <3>1. Token(u, ver, NoBody) \in Tokens
      BY DEF Token, Tokens, TypeOK, Uploads, Versions
    <3>. QED
      BY <2>3, <3>1, SaveType DEF Create, Open, TypeOK, Points
  <2>4. ASSUME NEW p \in Parts, UploadPart(p) PROVE TypeOK'
    <3>1. PICK b \in Read : /\ PutPart(p, b)
                            /\ sent' = [sent EXCEPT ![p] = b]
      BY <2>4 DEF UploadPart
    <3>2. b \in 0 .. MaxVersion
      BY DEF Read, TypeOK, Versions
    <3>. QED
      BY <2>4, <3>1, <3>2 DEF UploadPart, PutPart, TypeOK, durable, bounds,
                              Bodies, Points
  <2>5. ASSUME NEW p \in Parts, Record(p) PROVE TypeOK'
    <3>5. DurableTyped'
      BY <2>5, RecordedType, SaveType DEF DurableTyped, TypeOK, Record
    <3>6. BucketTyped'
      BY <2>5, RecordedType, SaveType DEF BucketTyped, TypeOK, Record, bucket
    <3>7. AttemptTyped'
      <4>1. sent' \in Bodies
        BY <2>5 DEF Record, TypeOK, Bodies
      <4>. QED
        BY <2>5, <4>1, RecordedType DEF AttemptTyped, TypeOK, Record
    <3>8. BoundsTyped'
      BY <2>5, RecordedType, SaveType DEF BoundsTyped, TypeOK, Record
    <3>. QED
      BY <3>5, <3>6, <3>7, <3>8 DEF TypeOK, DurableTyped, BucketTyped,
         AttemptTyped, BoundsTyped
  <2>6. CASE Gone
    BY <2>6, AbortPartsType DEF Gone, TypeOK, durable, bucket, bounds, Points
  <2>7. CASE Complete
    <3>5. DurableTyped'
      BY <2>7 DEF DurableTyped, TypeOK, Complete, durable
    <3>6. BucketTyped'
      <4>1. ver \in 0 .. MaxVersion /\ mem.done \in Bodies
        BY DEF TypeOK, Tokens, Versions
      <4>2. object' \in [plan : 0 .. MaxVersion, body : Bodies]
        BY <2>7, <4>1 DEF Complete, Publish, PutObject
      <4>. QED
        BY <2>7, <4>2 DEF BucketTyped, TypeOK, Complete, Publish, Close
    <3>7. AttemptTyped'
      BY <2>7 DEF AttemptTyped, TypeOK, Complete, Points, Tokens
    <3>8. BoundsTyped'
      BY <2>7 DEF BoundsTyped, TypeOK, Complete, bounds
    <3>. QED
      BY <3>5, <3>6, <3>7, <3>8 DEF TypeOK, DurableTyped, BucketTyped,
         AttemptTyped, BoundsTyped
  <2>8. CASE HeadFound
    BY <2>8 DEF HeadFound, TypeOK, durable, bucket, bounds, Points
  <2>9. CASE HeadMissed
    BY <2>9, SaveType DEF HeadMissed, TypeOK, bucket, attempt, Points
  <2>10. CASE Recheck
    BY <2>10 DEF Recheck, TypeOK, durable, bucket, attempt, bounds, Points
  <2>11. CASE Verify
    BY <2>11 DEF Verify, TypeOK, durable, bucket, attempt, bounds, Points
  <2>12. CASE Checkpoint
    BY <2>12 DEF Checkpoint, TypeOK, bucket, attempt, bounds, Points
  <2>13. CASE MarkVerified
    BY <2>13 DEF MarkVerified, EndAttempt, TypeOK, bucket, bounds, Points
  <2>14. CASE Retry
    <3>5. DurableTyped'
      BY <2>14 DEF DurableTyped, TypeOK, Retry, EndAttempt
    <3>6. BucketTyped'
      BY <2>14 DEF BucketTyped, TypeOK, Retry, bucket
    <3>7. AttemptTyped'
      BY <2>14 DEF AttemptTyped, TypeOK, Retry, EndAttempt, Points
    <3>8. BoundsTyped'
      BY <2>14 DEF BoundsTyped, TypeOK, Retry, EndAttempt, bounds
    <3>. QED
      BY <3>5, <3>6, <3>7, <3>8 DEF TypeOK, DurableTyped, BucketTyped,
         AttemptTyped, BoundsTyped
  <2>15. CASE GiveUp
    BY <2>15 DEF GiveUp, TypeOK, bucket, attempt, bounds, Points
  <2>16. CASE Abort
    BY <2>16 DEF Abort, Fails, Close, TypeOK, durable, attempt, bounds, Points
  <2>17. CASE DropToken
    <3>5. DurableTyped'
      BY <2>17 DEF DurableTyped, TypeOK, DropToken
    <3>6. BucketTyped'
      BY <2>17 DEF BucketTyped, TypeOK, DropToken, bucket
    <3>7. AttemptTyped'
      BY <2>17 DEF AttemptTyped, TypeOK, DropToken, Points
    <3>8. BoundsTyped'
      BY <2>17 DEF BoundsTyped, TypeOK, DropToken, bounds
    <3>. QED
      BY <3>5, <3>6, <3>7, <3>8 DEF TypeOK, DurableTyped, BucketTyped,
         AttemptTyped, BoundsTyped
  <2>. QED
    BY <1>1, <2>1, <2>2, <2>3, <2>4, <2>5, <2>6, <2>7, <2>8, <2>9, <2>10,
       <2>11, <2>12, <2>13, <2>14, <2>15, <2>16, <2>17 DEF Attempt
<1>2. CASE Misfortune
  <2>1. CASE PutReplyLost
    <3>1. PICK b \in [Parts -> Read] : PutObject(b)
      BY <2>1 DEF PutReplyLost
    <3>2. b \in Bodies
      BY DEF Read, Bodies, TypeOK, Versions
    <3>. QED
      BY <2>1, <3>1, <3>2 DEF PutReplyLost, Fail, Fails, PutObject, TypeOK,
                              durable, attempt, Points, Versions
  <2>2. ASSUME NEW u \in Uploads, CreateReplyLost(u) PROVE TypeOK'
    BY <2>2 DEF CreateReplyLost, Fail, Fails, Open, TypeOK, durable, attempt,
                Points
  <2>3. ASSUME NEW p \in Parts, PartReplyLost(p) PROVE TypeOK'
    <3>1. PICK b \in Read : PutPart(p, b)
      BY <2>3 DEF PartReplyLost
    <3>2. b \in 0 .. MaxVersion
      BY DEF Read, TypeOK, Versions
    <3>5. DurableTyped'
      BY <2>3, <3>1, <3>2, AbortPartsType
         DEF DurableTyped, TypeOK, PartReplyLost, durable
    <3>6. BucketTyped'
      BY <2>3, <3>1, <3>2, AbortPartsType
         DEF BucketTyped, TypeOK, PartReplyLost,
         PutPart, Bodies
    <3>7. AttemptTyped'
      BY <2>3, <3>1, <3>2, AbortPartsType
         DEF AttemptTyped, TypeOK, PartReplyLost,
         Fail, Points
    <3>8. BoundsTyped'
      BY <2>3, <3>1, <3>2, AbortPartsType
         DEF BoundsTyped, TypeOK, PartReplyLost,
         Fail, Fails
    <3>. QED
      BY <3>5, <3>6, <3>7, <3>8 DEF TypeOK, DurableTyped, BucketTyped,
         AttemptTyped, BoundsTyped
  <2>4. CASE RequestFails
    BY <2>4 DEF RequestFails, Fail, Refuse, Fails, TypeOK, durable, bucket,
       attempt,
                Points
  <2>5. CASE PartFails
    BY <2>5, AbortPartsType DEF PartFails, Fail, Refuse, Fails, TypeOK, durable,
       bucket, Points
  <2>6. CASE CompleteReplyLost
    <3>5. DurableTyped'
      BY <2>6 DEF DurableTyped, TypeOK, CompleteReplyLost, durable
    <3>6. BucketTyped'
      <4>1. ver \in 0 .. MaxVersion /\ mem.done \in Bodies
        BY DEF TypeOK, Tokens, Versions
      <4>2. object' \in [plan : 0 .. MaxVersion, body : Bodies]
        BY <2>6, <4>1 DEF CompleteReplyLost, Publish, PutObject
      <4>. QED
        BY <2>6, <4>2 DEF BucketTyped, TypeOK, CompleteReplyLost, Publish, Close
    <3>7. AttemptTyped'
      BY <2>6 DEF AttemptTyped, TypeOK, CompleteReplyLost, Fail, attempt,
         Points
    <3>8. BoundsTyped'
      BY <2>6 DEF BoundsTyped, TypeOK, CompleteReplyLost, Fail, Fails
    <3>. QED
      BY <3>5, <3>6, <3>7, <3>8 DEF TypeOK, DurableTyped, BucketTyped,
         AttemptTyped, BoundsTyped
  <2>7. CASE CompleteFails
    BY <2>7 DEF CompleteFails, Fail, Refuse, Fails, TypeOK, durable, bucket,
       attempt,
                Points
  <2>8. CASE Crash
    <3>5. DurableTyped'
      BY <2>8 DEF DurableTyped, TypeOK, Crash, Reset
    <3>6. BucketTyped'
      BY <2>8 DEF BucketTyped, TypeOK, Crash, bucket
    <3>7. AttemptTyped'
      BY <2>8 DEF AttemptTyped, TypeOK, Crash, Reset, Points
    <3>8. BoundsTyped'
      BY <2>8 DEF BoundsTyped, TypeOK, Crash
    <3>. QED
      BY <3>5, <3>6, <3>7, <3>8 DEF TypeOK, DurableTyped, BucketTyped,
         AttemptTyped, BoundsTyped
  <2>9. CASE Pause
    <3>5. DurableTyped'
      BY <2>9, AbortPartsType DEF DurableTyped, TypeOK, Pause, Reset
    <3>6. BucketTyped'
      BY <2>9, AbortPartsType DEF BucketTyped, TypeOK, Pause, bucket
    <3>7. AttemptTyped'
      BY <2>9, AbortPartsType DEF AttemptTyped, TypeOK, Pause, Reset,
         Points
    <3>8. BoundsTyped'
      BY <2>9, AbortPartsType DEF BoundsTyped, TypeOK, Pause
    <3>. QED
      BY <3>5, <3>6, <3>7, <3>8 DEF TypeOK, DurableTyped, BucketTyped,
         AttemptTyped, BoundsTyped
  <2>10. CASE StragglerSave
    BY <2>10 DEF StragglerSave, TypeOK, bucket, attempt, bounds
  <2>11. ASSUME NEW u \in Uploads, Sweep(u) PROVE TypeOK'
    BY <2>11 DEF Sweep, Close, TypeOK, durable, attempt
  <2>. QED
    BY <1>2, <2>1, <2>2, <2>3, <2>4, <2>5, <2>6, <2>7, <2>8, <2>9, <2>10,
       <2>11 DEF Misfortune
<1>3. CASE Rewrite
  BY <1>3 DEF Rewrite, TypeOK, durable, bucket, attempt, bounds, Versions
<1>4. CASE NewFile
  BY <1>4 DEF NewFile, TypeOK, bucket, attempt, bounds, Versions
<1>5. CASE UNCHANGED vars
  BY <1>5 DEF vars, TypeOK, durable, bucket, attempt, bounds
<1>. QED
  BY <1>1, <1>2, <1>3, <1>4, <1>5 DEF Next

\* Every variable of an upload keeps its type, whatever fails.
THEOREM TypeCorrect == Spec => []TypeOK
<1>. QED
  BY TypeInit, TypeStep, PTL DEF Spec
-----------------------------------------------------------------------------
(***************************************************************************)
(* What a step does to the tokens, to the source and to the bucket.        *)
(***************************************************************************)
Created(t) ==
    \E u \in Uploads : /\ mpu[u] = "unused" /\ mpu'[u] = "open"
                       /\ t = Token(u, ver, NoBody)
Noted(t) ==
    pc = "parts" /\ \E p \in Parts : sent[p] # 0 /\ t = Recorded(p)
Carried(t) == t \in Kept \/ t = NoToken \/ Created(t) \/ Noted(t)

LEMMA KeptMembers ==
    /\ \A l \in Labels : row[l] \in Kept
    /\ mem \in Kept /\ straggler \in Kept
  BY DEF Kept

LEMMA SaveKept ==
    ASSUME TypeOK, NEW t, Save(t)
    PROVE  \A l \in Labels : row'[l] = row[l] \/ row'[l] = t
  BY DEF TypeOK, Save

LEMMA AbortKept ==
    ASSUME TypeOK, AtWork, AbortParts
    PROVE  Carried(straggler')
<1>1. CASE straggler' = straggler
  BY <1>1 DEF Carried, Kept
<1>2. CASE straggler' \in Late
  <2>1. PICK p \in Parts : sent[p] # 0 /\ straggler' = Recorded(p)
    BY <1>2 DEF Late
  <2>2. pc = "parts"
    BY <2>1 DEF AtWork, NoBody
  <2>. QED
    BY <2>1, <2>2 DEF Carried, Noted
<1>. QED
  BY <1>1, <1>2 DEF AbortParts

\* A kept token was kept before, is empty, or is that of a new upload or of
\* the attempt with one more part.
LEMMA KeptStep ==
    ASSUME TypeOK, AtWork, Next
    PROVE  \A t \in Kept' : Carried(t)
<1> SUFFICES /\ \A l \in Labels : Carried(row'[l])
             /\ Carried(mem') /\ Carried(straggler')
  BY DEF Kept
<1> USE KeptMembers, Bounds DEF Carried
<1>1. CASE \/ PutSingle \/ Recheck \/ Verify \/ GiveUp \/ Abort \/ HeadFound
           \/ Complete \/ PutReplyLost \/ RequestFails \/ CompleteReplyLost
           \/ CompleteFails \/ Rewrite \/ MarkVerified \/ Retry
           \/ \E p \in Parts : UploadPart(p)
           \/ \E u \in Uploads : CreateReplyLost(u) \/ Sweep(u)
  <2>1. UNCHANGED <<row, straggler>>
    BY <1>1 DEF PutSingle, Recheck, Verify, GiveUp, Abort, HeadFound,
       Complete, PutReplyLost, RequestFails, CompleteReplyLost,
       CompleteFails, Rewrite, MarkVerified, Retry, EndAttempt, UploadPart,
       CreateReplyLost, Sweep, durable, attempt
  <2>2. mem' = mem \/ mem' = NoToken
    BY <1>1 DEF PutSingle, Recheck, Verify, GiveUp, Abort, HeadFound,
       Complete, PutReplyLost, RequestFails, CompleteReplyLost,
       CompleteFails, Rewrite, MarkVerified, Retry, EndAttempt, UploadPart,
       CreateReplyLost, Sweep, durable, attempt
  <2>. QED
    BY <2>1, <2>2
<1>2. CASE Begin
  BY <1>2 DEF Begin, durable
<1>3. CASE \E u \in Uploads : Create(u)
  <2>1. PICK u \in Uploads : Create(u)
    BY <1>3
  <2>2. Created(Token(u, ver, NoBody))
    BY <2>1 DEF Create, Open, Created, TypeOK
  <2>3. /\ mem' = Token(u, ver, NoBody) /\ straggler' = straggler
        /\ Save(Token(u, ver, NoBody))
    BY <2>1 DEF Create
  <2>. QED
    BY <2>2, <2>3, SaveKept
<1>4. CASE \E p \in Parts : Record(p)
  <2>1. PICK p \in Parts : Record(p)
    BY <1>4
  <2>2. Noted(Recorded(p))
    BY <2>1 DEF Record, Noted
  <2>3. mem' = Recorded(p) /\ straggler' = straggler /\ Save(Recorded(p))
    BY <2>1 DEF Record
  <2>. QED
    BY <2>2, <2>3, SaveKept
<1>5. CASE Gone \/ PartFails \/ Pause \/ \E p \in Parts : PartReplyLost(p)
  <2>1. row' = row /\ (mem' = mem \/ mem' = NoToken) /\ AbortParts
    BY <1>5 DEF Gone, PartFails, Pause, Reset, PartReplyLost, durable
  <2>. QED
    BY <2>1, AbortKept
<1>6. CASE HeadMissed
  <2>1. mem' = mem /\ straggler' = straggler /\ Save(NoToken)
    BY <1>6 DEF HeadMissed, attempt
  <2>. QED
    BY <2>1, SaveKept
<1>7. CASE Checkpoint \/ DropToken \/ NewFile \/ Crash \/ StragglerSave
  <2>1. \A l \in Labels : \/ row'[l] = row[l] \/ row'[l] = NoToken
                          \/ row'[l] = straggler
    BY <1>7 DEF Checkpoint, DropToken, NewFile, Crash, StragglerSave, TypeOK
  <2>2. /\ mem' = mem \/ mem' = NoToken
        /\ straggler' = straggler \/ straggler' = NoToken
    BY <1>7 DEF Checkpoint, DropToken, NewFile, Crash, Reset, StragglerSave,
                attempt
  <2>. QED
    BY <2>1, <2>2
<1>. QED
  BY <1>1, <1>2, <1>3, <1>4, <1>5, <1>6, <1>7 DEF Next, Attempt, Misfortune

\* The source only moves forward.
LEMMA SourceStep ==
    ASSUME TypeOK, Next
    PROVE  src' \in Nat /\ src' >= src
<1>1. src \in Nat
  BY UploadAssumption DEF TypeOK, Versions
<1>2. src' = src \/ src' = src + 1
  BY DEF Next, Attempt, Misfortune, Rewrite, NewFile, Begin, PutSingle,
     Create, UploadPart, Record, Gone, Complete, HeadFound, HeadMissed,
     Recheck, Verify, Checkpoint, MarkVerified, Retry, EndAttempt, GiveUp,
     Abort, DropToken, PutReplyLost, CreateReplyLost, PartReplyLost,
     RequestFails, PartFails, CompleteReplyLost, CompleteFails, Crash, Pause,
     StragglerSave, Sweep
<1>. QED
  BY <1>1, <1>2

\* The part an attempt puts into its upload during a step.
Puts(u, p) == /\ pc = "parts" /\ u = mem.upload
              /\ mem.done[p] = 0 /\ sent[p] = 0
              /\ held'[u][p] \in ver .. src /\ src' = src

\* An upload is created once, never reopened, and changes in its attempt's
\* missing parts only.
LEMMA BucketStep ==
    ASSUME TypeOK, Next, NEW u \in Uploads
    PROVE  /\ mpu'[u] = "unused" => mpu[u] = "unused"
           /\ mpu'[u] = "open" => mpu[u] # "gone"
           /\ mpu'[u] = "open" =>
                \A p \in Parts : held'[u][p] = held[u][p] \/ Puts(u, p)
<1> USE DEF TypeOK
<1>1. CASE mpu' = mpu /\ held' = held
  BY <1>1
<1>2. CASE \E w \in Uploads : Open(w) /\ held' = held
  BY <1>2 DEF Open
<1>3. CASE \E n : Close(n)
  BY <1>3 DEF Close
<1>4. CASE /\ mpu' = mpu /\ src' = src /\ pc = "parts" /\ Alive
           /\ \E p \in InFlight : /\ sent[p] = 0
                                  /\ \E b \in Read : PutPart(p, b)
  <2>1. PICK p \in InFlight, b \in Read : sent[p] = 0 /\ PutPart(p, b)
    BY <1>4
  <2>2. p \in Parts /\ mem.done[p] = 0
    BY DEF InFlight, Missing
  <2>3. CASE u = mem.upload
    <3>1. held'[u] = [held[u] EXCEPT ![p] = b]
      BY <2>1, <2>3 DEF PutPart
    <3>2. held[u] \in Bodies
      OBVIOUS
    <3>. QED
      BY <1>4, <2>1, <2>2, <2>3, <3>1, <3>2 DEF Puts, Read, Bodies
  <2>4. CASE u # mem.upload
    BY <1>4, <2>1, <2>4 DEF PutPart
  <2>. QED
    BY <2>3, <2>4
<1>5. \/ mpu' = mpu /\ held' = held
      \/ \E w \in Uploads : Open(w) /\ held' = held
      \/ \E n : Close(n)
      \/ /\ mpu' = mpu /\ src' = src /\ pc = "parts" /\ Alive
         /\ \E p \in InFlight : /\ sent[p] = 0
                                /\ \E b \in Read : PutPart(p, b)
  <2>1. CASE Attempt
    BY <2>1 DEF Attempt, Begin, PutSingle, Create, UploadPart, Record, Gone,
       Complete, Publish, HeadFound, HeadMissed, Recheck, Verify, Checkpoint,
       MarkVerified, Retry, GiveUp, Abort, DropToken, bucket
  <2>2. CASE Misfortune
    BY <2>2 DEF Misfortune, PutReplyLost, CreateReplyLost, PartReplyLost,
       Fail, Refuse, RequestFails, PartFails, CompleteReplyLost, Publish,
       CompleteFails, Crash, Pause, StragglerSave, Sweep, bucket
  <2>3. CASE Rewrite \/ NewFile
    BY <2>3 DEF Rewrite, NewFile, bucket
  <2>. QED
    BY <2>1, <2>2, <2>3 DEF Next
<1>. QED
  BY <1>1, <1>2, <1>3, <1>4, <1>5
-----------------------------------------------------------------------------
(***************************************************************************)
(* The tokens stay good.                                                   *)
(***************************************************************************)
LEMMA CarriedType ==
    ASSUME TypeOK, NEW t, Carried(t)
    PROVE  t \in Tokens
<1>1. CASE t \in Kept
  BY <1>1 DEF Kept, TypeOK
<1>2. CASE Created(t)
  BY <1>2, Bounds DEF Created, Token, Tokens, TypeOK, Uploads, Versions
<1>3. CASE Noted(t)
  BY <1>3, RecordedType DEF Noted
<1>. QED
  BY <1>1, <1>2, <1>3, Bounds DEF Carried

LEMMA CarriedGood ==
    ASSUME Work, Next, NEW t, Carried(t)
    PROVE  Recent(t)' /\ Known(t)' /\ Genuine(t)'
<1> USE DEF Work
<1>1. /\ t \in Tokens /\ t.upload \in 0 .. MaxUploads /\ t.ver \in Nat
      /\ t.done \in [Parts -> Nat]
      /\ src \in Nat /\ ver \in Nat /\ src' \in Nat /\ src' >= src
  <2>1. t \in Tokens
    BY CarriedType
  <2>2. src \in Nat /\ ver \in Nat
    BY UploadAssumption DEF TypeOK, Versions
  <2>3. /\ t.upload \in 0 .. MaxUploads /\ t.ver \in Nat
        /\ t.done \in [Parts -> Nat]
    BY <2>1, UploadAssumption DEF Tokens, Bodies
  <2>. QED
    BY <2>1, <2>2, <2>3, SourceStep
<1>2. t.upload # 0 =>
        /\ mpu'[t.upload] = "unused" => mpu[t.upload] = "unused"
        /\ mpu'[t.upload] = "open" => mpu[t.upload] # "gone"
        /\ mpu'[t.upload] = "open" =>
             \A p \in Parts : \/ held'[t.upload][p] = held[t.upload][p]
                              \/ Puts(t.upload, p)
  BY <1>1, BucketStep, UploadAssumption DEF Uploads
<1>3. CASE t \in Kept
  <2>1. Recent(t) /\ Known(t) /\ Genuine(t) /\ Agree(t, mem)
    BY <1>3, KeptMembers DEF GoodTokens
  <2>2. Recent(t)'
    BY <1>1, <2>1 DEF Recent
  <2>3. Known(t)'
    BY <1>2, <2>1 DEF Known
  <2>4. Genuine(t)'
    <3> SUFFICES ASSUME t.upload # 0, t.ver = src', mpu'[t.upload] = "open",
                        NEW p \in Parts, t.done[p] # 0
                 PROVE  held'[t.upload][p] = t.done[p]
      BY DEF Genuine
    <3>1. t.ver = src /\ src' = src
      BY <1>1, <2>1 DEF Recent
    <3>2. mpu[t.upload] = "open"
      <4>1. t.upload \in Uploads
        BY <1>1, UploadAssumption DEF Uploads
      <4>. QED
        BY <1>2, <2>1, <4>1 DEF Known, TypeOK
    <3>3. held[t.upload][p] = t.done[p] /\ t.done[p] = src
      BY <1>1, <2>1, <3>1, <3>2 DEF Genuine, Recent
    <3>4. CASE Puts(t.upload, p)
      <4>1. ver = src
        BY <2>1, <3>1, <3>4 DEF Puts, Agree, AtWork
      <4>. QED
        BY <1>1, <3>3, <3>4, <4>1 DEF Puts
    <3>. QED
      BY <1>2, <3>3, <3>4
  <2>. QED
    BY <2>2, <2>3, <2>4
<1>4. CASE t = NoToken
  BY <1>1, <1>4 DEF NoToken, Token, NoBody, Recent, Known, Genuine
<1>5. CASE Created(t)
  <2>1. PICK u \in Uploads : mpu'[u] = "open" /\ t = Token(u, ver, NoBody)
    BY <1>5 DEF Created
  <2>2. t.upload = u /\ t.ver = ver /\ \A p \in Parts : t.done[p] = 0
    BY <2>1 DEF Token, NoBody
  <2>. QED
    BY <1>1, <2>1, <2>2 DEF Recent, Known, Genuine, AtWork
<1>6. CASE Noted(t)
  <2>1. PICK p \in Parts : sent[p] # 0 /\ t = Recorded(p)
    BY <1>6 DEF Noted
  <2>2. pc = "parts" /\ mem.upload # 0 /\ mem.ver = ver
    BY <1>6 DEF Noted, AtWork
  <2>3. /\ t.upload = mem.upload /\ t.ver = ver
        /\ t.done = [mem.done EXCEPT ![p] = sent[p]]
    BY <2>1, RecordedType
  <2>4. mem.done \in [Parts -> Nat] /\ sent \in [Parts -> Nat]
    BY DEF TypeOK, Tokens, Bodies
  <2>5. Recent(mem) /\ Known(mem) /\ Genuine(mem)
    BY KeptMembers DEF GoodTokens
  <2>6. Recent(t)'
    BY <1>1, <2>1, <2>2, <2>3, <2>4, <2>5 DEF Recent, AtWork
  <2>7. Known(t)'
    BY <1>2, <2>3, <2>5 DEF Known
  <2>8. Genuine(t)'
    <3> SUFFICES ASSUME t.upload # 0, t.ver = src', mpu'[t.upload] = "open",
                        NEW q \in Parts, t.done[q] # 0
                 PROVE  held'[t.upload][q] = t.done[q]
      BY DEF Genuine
    <3>1. mem.ver = src
      BY <1>1, <2>2, <2>3 DEF AtWork
    <3>2. mpu[mem.upload] = "open"
      <4>1. t.upload \in Uploads
        BY <1>1, UploadAssumption DEF Uploads
      <4>. QED
        BY <1>2, <2>3, <2>5, <4>1 DEF Known, TypeOK
    <3>3. ~Puts(t.upload, q)
      BY <2>1, <2>3, <2>4 DEF Puts
    <3>4. held[t.upload][q] = t.done[q]
      <4>1. CASE q = p
        BY <2>1, <2>3, <2>4, <3>2, <4>1 DEF AtWork, Alive
      <4>2. CASE q # p
        BY <2>2, <2>3, <2>4, <2>5, <3>1, <3>2, <4>2 DEF Genuine
      <4>. QED
        BY <4>1, <4>2
    <3>. QED
      BY <1>2, <3>3, <3>4
  <2>. QED
    BY <2>6, <2>7, <2>8
<1>. QED
  BY <1>3, <1>4, <1>5, <1>6 DEF Carried

LEMMA CarriedAgree ==
    ASSUME Work, NEW t, NEW w, Carried(t), Carried(w)
    PROVE  Agree(t, w)
<1> USE DEF Work
<1>1. ASSUME NEW x, Carried(x), x.upload # 0
      PROVE  \/ \E k \in Kept : k.upload = x.upload /\ k.ver = x.ver
             \/ mpu[x.upload] = "unused" /\ x.ver = ver
  <2>1. CASE Created(x)
    BY <2>1 DEF Created, Token
  <2>2. CASE Noted(x)
    BY <2>2, RecordedType, KeptMembers DEF Noted, AtWork
  <2>3. x # NoToken
    BY <1>1 DEF NoToken, Token
  <2>. QED
    BY <1>1, <2>1, <2>2, <2>3 DEF Carried
<1>2. \A k, n \in Kept : Agree(k, n) /\ Known(k)
  BY DEF GoodTokens
<1>. QED
  BY <1>1, <1>2 DEF Agree, Known

LEMMA TokensStep == Work /\ Next => GoodTokens'
<1> SUFFICES ASSUME Work, Next PROVE GoodTokens'
  OBVIOUS
<1>1. \A t \in Kept' : Carried(t)
  BY KeptStep DEF Work
<1>2. \A t \in Kept' : Recent(t)' /\ Known(t)' /\ Genuine(t)'
  BY <1>1, CarriedGood
<1>3. \A t, w \in Kept' : Agree(t, w)
  BY <1>1, CarriedAgree
<1>. QED
  BY <1>2, <1>3 DEF GoodTokens, Agree
-----------------------------------------------------------------------------
(***************************************************************************)
(* The attempt's list and its pending replies.                             *)
(***************************************************************************)
LEMMA AtWorkStep == Work /\ Next => AtWork'
<1> SUFFICES ASSUME Work, Next PROVE AtWork'
  OBVIOUS
<1> USE DEF Work
<1>1. src \in Nat /\ ver \in Nat /\ src' \in Nat /\ src' >= src
  BY SourceStep, UploadAssumption DEF TypeOK, Versions
<1>2. /\ sent \in [Parts -> Nat] /\ mem.done \in [Parts -> Nat]
      /\ mem.upload \in 0 .. MaxUploads /\ MaxUploads \in Nat
  BY UploadAssumption DEF TypeOK, Tokens, Bodies
<1>3. NoBody \in [Parts -> Nat] /\ \A p \in Parts : NoBody[p] = 0
  BY DEF NoBody
<1>4. ASSUME sent' = NoBody,
             pc' \in {"parts", "head"}
               => mem'.upload # 0 /\ mem'.ver = ver',
             ver' <= src'
      PROVE  AtWork'
  BY <1>3, <1>4 DEF AtWork
<1>5. CASE Begin
  <2>1. sent' = NoBody /\ ver' = src /\ src' = src
    BY <1>5 DEF Begin, AtWork
  <2>2. pc' \in {"parts", "head"}
          => mem' = row[Label] /\ Matches(row[Label], src)
    BY <1>5 DEF Begin
  <2>. QED
    BY <1>1, <1>4, <2>1, <2>2 DEF Matches
<1>6. ASSUME NEW u \in Uploads, Create(u) PROVE AtWork'
  <2>1. /\ sent' = NoBody /\ ver' = ver /\ src' = src /\ u # 0
        /\ mem'.upload = u /\ mem'.ver = ver
    BY <1>6 DEF Create, AtWork, Token, Uploads
  <2>. QED
    BY <1>1, <1>4, <2>1 DEF AtWork
<1>7. ASSUME NEW p \in Parts, UploadPart(p) PROVE AtWork'
  <2>1. PICK b \in Read : PutPart(p, b) /\ sent' = [sent EXCEPT ![p] = b]
    BY <1>7 DEF UploadPart
  <2>2. /\ pc = "parts" /\ pc' = "parts" /\ Alive /\ mem.done[p] = 0
        /\ UNCHANGED <<src, ver, mem, mpu>>
    BY <1>7 DEF UploadPart, InFlight, Missing
  <2>3. mem.upload \in Uploads
    BY <1>2, <2>2 DEF AtWork, Uploads
  <2>4. \A q \in Parts : held'[mem.upload][q] =
                           IF q = p THEN b ELSE held[mem.upload][q]
    BY <2>1, <2>3 DEF PutPart, TypeOK, Bodies
  <2>5. \A q \in Parts : sent'[q] = IF q = p THEN b ELSE sent[q]
    BY <1>2, <2>1
  <2>. QED
    BY <1>1, <2>2, <2>4, <2>5 DEF AtWork, Read, Alive
<1>8. ASSUME NEW p \in Parts, Record(p) PROVE AtWork'
  <2>1. /\ pc = "parts" /\ pc' = "parts" /\ mem' = Recorded(p)
        /\ sent' = [sent EXCEPT ![p] = 0]
        /\ UNCHANGED <<src, ver, mpu, held>>
    BY <1>8 DEF Record, bucket
  <2>2. /\ mem'.upload = mem.upload /\ mem'.ver = ver
        /\ mem'.done = [mem.done EXCEPT ![p] = sent[p]]
    BY <2>1, RecordedType
  <2>3. \A q \in Parts : sent'[q] # 0 => q # p /\ sent'[q] = sent[q]
                                        /\ mem'.done[q] = mem.done[q]
    BY <1>2, <2>1, <2>2
  <2>. QED
    BY <2>1, <2>2, <2>3 DEF AtWork, Alive
<1>9. CASE \/ Gone \/ Crash \/ Pause \/ PartFails
           \/ \E p \in Parts : PartReplyLost(p)
  <2>1. /\ sent' = NoBody /\ src' = src /\ ver' = ver
        /\ pc' \in {"parts", "head"} => pc = "parts" /\ mem' = mem
    BY <1>9 DEF Gone, Crash, Pause, PartFails, PartReplyLost, AbortParts,
                Reset, Fail, Refuse
  <2>. QED
    BY <1>1, <1>4, <2>1 DEF AtWork
<1>10. CASE Complete \/ CompleteReplyLost \/ CompleteFails
  <2>1. sent = NoBody
    <3>1. \A p \in Parts : mem.done[p] # 0
      BY <1>10 DEF Complete, CompleteReplyLost, CompleteFails, Publish, Missing
    <3>2. \A p \in Parts : sent[p] = 0
      BY <3>1 DEF AtWork
    <3>. QED
      BY <1>2, <3>2 DEF NoBody
  <2>2. sent' = sent /\ src' = src /\ ver' = ver /\ pc' \notin {"parts", "head"}
    BY <1>10 DEF Complete, CompleteReplyLost, CompleteFails, attempt, Fail,
       Refuse
  <2>. QED
    BY <1>1, <1>4, <2>1, <2>2 DEF AtWork
<1>11. CASE \/ PutSingle \/ HeadFound \/ HeadMissed \/ Recheck \/ Verify
            \/ Checkpoint \/ MarkVerified \/ Retry \/ GiveUp \/ Abort
            \/ DropToken \/ PutReplyLost \/ RequestFails \/ NewFile
            \/ \E u \in Uploads : CreateReplyLost(u)
  <2>1. /\ pc # "parts" /\ pc' \notin {"parts", "head"}
        /\ sent' = sent /\ ver' = ver
    BY <1>11 DEF PutSingle, HeadFound, HeadMissed, Recheck, Verify,
       Checkpoint, MarkVerified, Retry, EndAttempt, GiveUp, Abort, DropToken,
       PutReplyLost, RequestFails, NewFile, CreateReplyLost, Fail, Refuse,
       attempt
  <2>. QED
    BY <1>1, <1>4, <2>1 DEF AtWork
<1>12. CASE Rewrite \/ StragglerSave \/ \E u \in Uploads : Sweep(u)
  <2>1. UNCHANGED <<pc, ver, mem, sent>>
    BY <1>12 DEF Rewrite, StragglerSave, Sweep, attempt
  <2>2. Alive' => Alive /\ held'[mem.upload] = held[mem.upload]
    <3>1. CASE Rewrite \/ StragglerSave
      BY <2>1, <3>1 DEF Rewrite, StragglerSave, bucket, Alive
    <3>2. CASE \E u \in Uploads : Sweep(u)
      BY <2>1, <3>2 DEF Sweep, Close, Alive, TypeOK
    <3>. QED
      BY <1>12, <3>1, <3>2
  <2>. QED
    BY <1>1, <1>2, <2>1, <2>2 DEF AtWork
<1>. QED
  BY <1>5, <1>6, <1>7, <1>8, <1>9, <1>10, <1>11, <1>12
     DEF Next, Attempt, Misfortune

LEMMA PartListStep == Work /\ Next => PartListGenuine'
<1> SUFFICES ASSUME Work, Next, pc' = "parts", Alive', NEW q \in Parts,
                    mem'.done[q] # 0
             PROVE  held'[mem'.upload][q] = mem'.done[q]
  BY DEF PartListGenuine
<1> USE DEF Work
<1>1. /\ sent \in [Parts -> Nat] /\ mem.done \in [Parts -> Nat]
      /\ mem.upload \in 0 .. MaxUploads /\ MaxUploads \in Nat
  BY UploadAssumption DEF TypeOK, Tokens, Bodies
<1>2. CASE Begin
  <2>1. /\ mem' = row[Label] /\ Matches(row[Label], src)
        /\ UNCHANGED <<mpu, held, src>>
    BY <1>2 DEF Begin, bucket
  <2>2. Genuine(row[Label])
    BY KeptMembers, Bounds DEF GoodTokens
  <2>. QED
    BY <2>1, <2>2 DEF Genuine, Matches, Alive
<1>3. CASE \E u \in Uploads : Create(u)
  BY <1>3 DEF Create, Token, NoBody
<1>4. ASSUME NEW p \in Parts, UploadPart(p)
      PROVE  held'[mem'.upload][q] = mem'.done[q]
  <2>1. PICK b \in Read : PutPart(p, b)
    BY <1>4 DEF UploadPart
  <2>2. /\ pc = "parts" /\ Alive /\ mem.done[p] = 0 /\ mem' = mem
    BY <1>4 DEF UploadPart, InFlight, Missing
  <2>3. q # p /\ mem.upload \in Uploads
    BY <1>1, <2>2 DEF AtWork, Uploads
  <2>4. held'[mem.upload][q] = held[mem.upload][q]
    BY <2>1, <2>3 DEF PutPart, TypeOK, Bodies
  <2>. QED
    BY <2>2, <2>4 DEF PartListGenuine
<1>5. ASSUME NEW p \in Parts, Record(p)
      PROVE  held'[mem'.upload][q] = mem'.done[q]
  <2>1. /\ pc = "parts" /\ mem' = Recorded(p) /\ sent[p] # 0
        /\ UNCHANGED <<mpu, held>>
    BY <1>5 DEF Record, bucket
  <2>2. /\ mem'.upload = mem.upload
        /\ mem'.done = [mem.done EXCEPT ![p] = sent[p]]
    BY <2>1, RecordedType
  <2>3. Alive
    BY <2>1, <2>2 DEF Alive
  <2>4. CASE q = p
    BY <1>1, <2>1, <2>2, <2>3, <2>4 DEF AtWork
  <2>5. CASE q # p
    BY <1>1, <2>1, <2>2, <2>3, <2>5 DEF PartListGenuine
  <2>. QED
    BY <2>4, <2>5
<1>6. CASE Rewrite \/ StragglerSave \/ \E u \in Uploads : Sweep(u)
  <2>1. UNCHANGED <<pc, mem>>
    BY <1>6 DEF Rewrite, StragglerSave, Sweep, attempt
  <2>2. Alive /\ held'[mem.upload] = held[mem.upload]
    <3>1. CASE Rewrite \/ StragglerSave
      BY <2>1, <3>1 DEF Rewrite, StragglerSave, bucket, Alive
    <3>2. CASE \E u \in Uploads : Sweep(u)
      BY <2>1, <3>2 DEF Sweep, Close, Alive, TypeOK
    <3>. QED
      BY <1>6, <3>1, <3>2
  <2>. QED
    BY <2>1, <2>2 DEF PartListGenuine
<1>7. \/ Begin \/ \E u \in Uploads : Create(u)
      \/ \E p \in Parts : UploadPart(p) \/ Record(p)
      \/ Rewrite \/ StragglerSave \/ \E u \in Uploads : Sweep(u)
  BY DEF Next, Attempt, Misfortune, PutSingle, Gone, Complete, HeadFound,
     HeadMissed, Recheck, Verify, Checkpoint, MarkVerified, Retry, EndAttempt,
     GiveUp, Abort, DropToken, PutReplyLost, CreateReplyLost, PartReplyLost,
     RequestFails, PartFails, CompleteReplyLost, CompleteFails, Fail, Refuse,
     Crash,
     Pause, Reset, NewFile
<1>. QED
  BY <1>2, <1>3, <1>4, <1>5, <1>6, <1>7

LEMMA WorkStep == Work /\ [Next]_vars => Work'
<1>1. CASE Next
  BY <1>1, TypeStep, TokensStep, AtWorkStep, PartListStep DEF Work
<1>2. CASE UNCHANGED vars
  BY <1>2 DEF vars, durable, bucket, attempt, bounds, Work, TypeOK,
     GoodTokens, Kept, Recent, Known, Genuine, AtWork, PartListGenuine, Alive
<1>. QED
  BY <1>1, <1>2

LEMMA WorkInit == Init => Work
<1> SUFFICES ASSUME Init PROVE Work
  OBVIOUS
<1>1. \A t \in Kept : t = NoToken
  BY DEF Init, Kept
<1>2. /\ NoToken.upload = 0 /\ NoToken.ver = 0
      /\ \A p \in Parts : NoToken.done[p] = 0
  BY DEF NoToken, Token, NoBody
<1>3. GoodTokens
  BY <1>1, <1>2 DEF Init, GoodTokens, Recent, Known, Genuine, Agree
<1>4. AtWork
  BY DEF Init, AtWork, NoBody
<1>. QED
  BY <1>3, <1>4, TypeInit DEF Work, PartListGenuine, Init

\* CompleteMultipartUpload is never asked for a part other than the one S3
\* holds, so it never refuses a list: whatever was lost, swept, cut or saved
\* late (run_multipart_attempt).
THEOREM PartListCorrect == Spec => []PartListGenuine
<1>1. Work => PartListGenuine
  BY DEF Work
<1>. QED
  BY <1>1, WorkInit, WorkStep, PTL DEF Spec
-----------------------------------------------------------------------------
(***************************************************************************)
(* The object.                                                             *)
(***************************************************************************)
LEMMA WholeBody ==
    ASSUME TypeOK, NEW v \in Nat, NEW b \in Bodies,
           \A p \in Parts : b[p] \in v .. v
    PROVE  b = Whole(v)
<1>1. \A p \in Parts : b[p] = v
  OBVIOUS
<1>. QED
  BY <1>1 DEF Bodies, Whole

LEMMA ObjectStep == OrderlyNames /\ Work /\ ObjectAt /\ Next => ObjectAt'
<1> SUFFICES ASSUME OrderlyNames, Work, ObjectAt, Next PROVE ObjectAt'
  OBVIOUS
<1>1. /\ src \in Nat /\ ver \in Nat /\ src' \in Nat /\ src' >= src /\ src # 0
      /\ object.plan \in Nat /\ object.body \in Bodies /\ ver <= src /\ TypeOK
      /\ ver # 0
  BY SourceStep, UploadAssumption DEF Work, AtWork, TypeOK, Versions
<1>2. ASSUME object' = object, pc' \notin {"parts", "head", "recheck", "verify",
             "checkpoint", "mark"}, phase' # "verified"
      PROVE  ObjectAt'
  BY <1>1, <1>2 DEF ObjectAt
<1>3. ASSUME NEW b, PutObject(b), \A p \in Parts : b[p] \in ver .. src,
             src' = src, ver' = ver, pc' \in {"recheck", "failed"},
             phase' = phase, pc # "idle"
      PROVE  ObjectAt'
  <2>1. object'.plan = ver /\ object'.body = b /\ phase' # "verified"
    BY <1>3 DEF PutObject, ObjectAt
  <2>. QED
    BY <1>1, <1>3, <2>1 DEF ObjectAt
<1>4. CASE Begin
  <2>1. /\ object' = object /\ ver' = src /\ src' = src /\ fresh' = fresh
        /\ phase' = "pending" /\ pc' \in {"put", "parts", "create"}
    BY <1>4 DEF Begin, bucket, durable
  <2>2. object.plan = src => object.body = Whole(src)
    BY <1>1, WholeBody DEF ObjectAt
  <2>. QED
    BY <1>1, <2>1, <2>2 DEF ObjectAt
<1>5. CASE PutSingle \/ PutReplyLost
  <2>1. PICK b \in [Parts -> Read] : PutObject(b)
    BY <1>5 DEF PutSingle, PutReplyLost
  <2>2. /\ src' = src /\ ver' = ver /\ pc' \in {"recheck", "failed"}
        /\ phase' = phase /\ pc = "put"
    BY <1>5 DEF PutSingle, PutReplyLost, Fail, durable, attempt
  <2>. QED
    BY <1>3, <2>1, <2>2 DEF Read
<1>6. CASE Complete \/ CompleteReplyLost
  <2>1. /\ PutObject(mem.done) /\ Missing = {} /\ pc = "parts"
        /\ src' = src /\ ver' = ver /\ pc' \in {"recheck", "failed"}
        /\ phase' = phase
    BY <1>6 DEF Complete, CompleteReplyLost, Publish, Fail, durable, attempt
  <2>2. Recent(mem) /\ mem.ver = ver
    BY <2>1, KeptMembers DEF Work, GoodTokens, AtWork
  <2>3. \A p \in Parts : mem.done[p] \in ver .. src
    BY <2>1, <2>2 DEF Missing, Recent
  <2>. QED
    BY <1>3, <2>1, <2>3
<1>7. CASE \E u \in Uploads : Create(u)
  <2>1. /\ object' = object /\ ver' = ver /\ src' = src /\ fresh' = TRUE
        /\ phase' = phase /\ pc = "create" /\ pc' = "parts"
    BY <1>7 DEF Create
  <2>. QED
    BY <1>1, <2>1 DEF ObjectAt
<1>8. CASE \E p \in Parts : UploadPart(p) \/ Record(p)
  <2>1. /\ object' = object /\ ver' = ver /\ src' = src /\ fresh' = fresh
        /\ phase' = phase /\ pc = "parts" /\ pc' = "parts"
    BY <1>8 DEF UploadPart, Record, durable, bucket
  <2>. QED
    BY <1>1, <2>1 DEF ObjectAt
<1>9. CASE Gone
  <2>1. /\ object' = object /\ ver' = ver /\ src' = src /\ fresh' = fresh
        /\ phase' = phase /\ pc = "parts"
        /\ pc' \in {"failed", "head"} /\ (pc' = "head" => ~fresh)
    BY <1>9 DEF Gone, durable, bucket
  <2>. QED
    BY <1>1, <2>1 DEF ObjectAt
<1>10. CASE HeadFound
  <2>1. /\ object' = object /\ ver' = ver /\ src' = src /\ phase' = phase
        /\ pc = "head" /\ pc' = "verify" /\ LooksComplete
    BY <1>10 DEF HeadFound, durable, bucket
  <2>2. object.plan = ver
    BY <1>1, <2>1, UploadAssumption
       DEF LooksComplete, OrderlyNames, TypeOK, Versions
  <2>. QED
    BY <1>1, <2>1, <2>2 DEF ObjectAt
<1>11. CASE Recheck
  <2>1. /\ object' = object /\ ver' = ver /\ src' = src /\ phase' = phase
        /\ pc = "recheck"
        /\ pc' \in {"failed", "verify"} /\ (pc' = "verify" => src = ver)
    BY <1>11 DEF Recheck, SourceChanged, durable, bucket, attempt
  <2>2. object.plan = ver /\ (src = ver => object.body = Whole(ver))
    BY <1>1, <2>1, WholeBody DEF ObjectAt
  <2>. QED
    BY <1>1, <2>1, <2>2 DEF ObjectAt
<1>12. CASE Verify \/ Checkpoint \/ MarkVerified
  <2>1. /\ object' = object /\ ver' = ver /\ src' = src
        /\ pc \in {"verify", "checkpoint", "mark"}
        /\ \/ pc' \in {"checkpoint", "mark"} /\ phase' = phase
           \/ pc' = "idle"
    BY <1>12 DEF Verify, Checkpoint, MarkVerified, EndAttempt, durable,
                 bucket, attempt
  <2>. QED
    BY <1>1, <2>1 DEF ObjectAt
<1>13. CASE \/ HeadMissed \/ Retry \/ GiveUp \/ Abort \/ DropToken \/ PartFails
            \/ RequestFails \/ CompleteFails \/ Crash \/ Pause \/ NewFile
            \/ \E u \in Uploads : CreateReplyLost(u)
            \/ \E p \in Parts : PartReplyLost(p)
  <2>1. /\ object' = object
        /\ pc' \notin {"parts", "head", "recheck", "verify", "checkpoint",
                       "mark"}
        /\ \/ phase' \in {"pending", "exhausted"}
           \/ phase' = phase /\ pc # "idle"
    BY <1>13 DEF HeadMissed, Retry, EndAttempt, GiveUp, Abort, DropToken,
       PartFails, RequestFails, CompleteFails, Crash, Pause, Reset, NewFile,
       CreateReplyLost, PartReplyLost, Fail, Refuse, durable, bucket
  <2>. QED
    BY <1>2, <2>1 DEF ObjectAt
<1>14. CASE Rewrite \/ StragglerSave \/ \E u \in Uploads : Sweep(u)
  <2>1. UNCHANGED <<object, pc, phase, ver, fresh>>
    BY <1>14 DEF Rewrite, StragglerSave, Sweep, durable, bucket, attempt
  <2>. QED
    BY <1>1, <2>1 DEF ObjectAt
<1>. QED
  BY <1>4, <1>5, <1>6, <1>7, <1>8, <1>9, <1>10, <1>11, <1>12, <1>13, <1>14
     DEF Next, Attempt, Misfortune

\* When no two versions of a name have the same size, a destination marked
\* verified holds the captured version, whole: whatever was rewritten while it
\* was sent, resumed, swept, lost or cut (deliver, matches, source_changed,
\* recover_completed_object).
THEOREM VerifiedIsWhole ==
    ASSUME OrderlyNames
    PROVE  Spec => []DeliveredWhole
<1>1. Init => ObjectAt
  BY DEF Init, ObjectAt, NoObject
<1>2. Work /\ ObjectAt /\ [Next]_vars => ObjectAt'
  <2>1. CASE UNCHANGED vars
    BY <2>1 DEF vars, durable, bucket, attempt, ObjectAt
  <2>. QED
    BY <2>1, ObjectStep
<1>3. Work /\ ObjectAt => DeliveredWhole
  <2> SUFFICES ASSUME TypeOK, ObjectAt, phase = "verified"
               PROVE  object = [plan |-> ver, body |-> Whole(ver)]
    BY DEF Work, DeliveredWhole
  <2>. QED
    BY DEF TypeOK, ObjectAt
<1>. QED
  BY <1>1, <1>2, <1>3, WorkInit, WorkStep, PTL DEF Spec
=============================================================================
