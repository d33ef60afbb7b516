---------------------------- MODULE TempPublish ----------------------------
(***************************************************************************)
(* Delivery of one file name to one SFTP, FTPS or local destination        *)
(* (dest/sftp, dest/ftps, dest/local.rs), attempt after attempt: stream    *)
(* into a hidden temp file, resuming at the offset of a durable checkpoint *)
(* except in a local directory, then publish it with a rename; and what    *)
(* the worker does with the outcome.                                       *)
(*                                                                         *)
(* A version of the source is a number and stands for its mtime; SizeOf    *)
(* gives its size in chunks.  Bytes are known by the version they were     *)
(* read from; 0 is a hole.  The server has two names, the temp and the     *)
(* final one, for its files.  One request or one store call is one step.   *)
(*                                                                         *)
(* SFTP requests are awaited by the task that is aborted with them.  FTPS  *)
(* runs in a blocking thread, which an abort only detaches.  One detached  *)
(* upload is modelled: it is thread 1, and thread 2 the worker after it.   *)
(* A local attempt has one temp name too: its number is part of the name,  *)
(* but an attempt that fails removes its file, and one that is cut off is  *)
(* made again under the same number.                                       *)
(***************************************************************************)
EXTENDS Naturals

CONSTANTS MaxChunks,  \* bound: chunks of a version
          SizeOf,     \* the size of each version
          Every,      \* CHECKPOINT_EVERY, in chunks
          Backends,   \* subset of {"sftp", "ftps", "local"}
          MaxTries,   \* retry.maxAttempts
          MaxVersion, \* bound: versions the producer writes
          MaxFiles,   \* bound: files created at the server
          MaxFails,   \* bound: failed requests and lost replies
          MaxFaults,  \* bound: durable-store faults
          MaxCuts     \* bound: crashes and window closes

Chunks == 1 .. MaxChunks
Versions == 1 .. MaxVersion
Files == 1 .. MaxFiles
Threads == {1, 2}

ASSUME TempAssumption ==
    /\ MaxChunks \in Nat /\ Every \in Nat \ {0} /\ MaxTries \in Nat \ {0}
    /\ MaxVersion \in Nat \ {0} /\ SizeOf \in [Versions -> 0 .. MaxChunks]
    /\ Backends \subseteq {"sftp", "ftps", "local"} /\ Backends # {}
    /\ MaxFiles \in Nat /\ MaxFails \in Nat /\ MaxFaults \in Nat
    /\ MaxCuts \in Nat

NoBytes == [c \in Chunks |-> 0]
Contents == [len : 0 .. MaxChunks, bytes : [Chunks -> 0 .. MaxVersion]]
Empty == [len |-> 0, bytes |-> NoBytes]
Whole(v) == [len |-> SizeOf[v],
             bytes |-> [c \in Chunks |-> IF c <= SizeOf[v] THEN v ELSE 0]]

\* SftpResumeToken, FtpsResumeToken.  ver = 0: no token in the row.
Token(v, n) == [ver |-> v, done |-> n]
NoToken == Token(0, 0)

VARIABLES
    backend,          \* which of the three this destination is
    src, phase,       \* source version, the destination's dest_state phase
    row, tries,       \* its resume row, failed attempts of this delivery
    file, temp, final,\* the server: contents, and the file each name has
    session,          \* the cached connection
    cur,              \* the thread the worker waits for
    th,               \* the attempts: the current one, and a detached one
    fails, faults, cuts

durable == <<phase, row, tries>>
server  == <<file, temp, final>>
bounds  == <<fails, faults, cuts>>
vars    == <<backend, src, durable, server, session, cur, th, bounds>>

\* Where FTPS is in a blocking thread.
Blocking == {"dial", "stat", "open", "save", "hash", "load", "check", "stream",
             "persist", "rename", "remove", "again", "clear", "verify", "abort"}
Points == Blocking \cup {"idle", "checkpoint", "mark", "transient", "failed",
                         "refused", "drop"}

Attempts == [pc : Points, ver : Versions, view : Versions, pos : 0 .. MaxChunks,
             since : 0 .. Every, hash : [Chunks -> 0 .. MaxVersion],
             fd : 0 .. MaxFiles, cancelled : BOOLEAN]
Fresh == [pc |-> "idle", ver |-> 1, view |-> 1, pos |-> 0, since |-> 0,
          hash |-> NoBytes, fd |-> 0, cancelled |-> FALSE]

\* The row, the server and the attempts keep their types; no offset passes
\* the largest file.
TypeOK ==
    /\ backend \in Backends /\ src \in Versions
    /\ phase \in {"pending", "verified", "exhausted"}
    /\ row \in [ver : 0 .. MaxVersion, done : 0 .. MaxChunks] /\ tries \in Nat
    /\ file \in [Files -> Contents]
    /\ temp \in 0 .. MaxFiles /\ final \in 0 .. MaxFiles
    /\ session \in {"none", "up", "dead"} /\ cur \in Threads
    /\ th \in [Threads -> Attempts]
    /\ fails \in Nat /\ faults \in Nat /\ cuts \in Nat

Init ==
    /\ backend \in Backends /\ src = 1 /\ phase = "pending"
    /\ row = NoToken /\ tries = 0
    /\ file = [f \in Files |-> Empty] /\ temp = 0 /\ final = 0
    /\ session = "none" /\ cur = 1 /\ th = [t \in Threads |-> Fresh]
    /\ fails = 0 /\ faults = 0 /\ cuts = 0
-----------------------------------------------------------------------------
At(t, point) == th[t].pc = point
Go(t, point) == th' = [th EXCEPT ![t].pc = point]
Done(t) == th' = [th EXCEPT ![t] = [Fresh EXCEPT !.ver = th[t].ver]]

\* The order of the steps before the first chunk differs; a local destination
\* creates the directory and the temp file, and keeps no token.
After(point) ==
    CASE backend = "sftp" ->
           [dial |-> "stat", stat |-> "open", open |-> "save", save |-> "hash",
            hash |-> "load", load |-> "stream", publish |-> "clear"][point]
      [] backend = "ftps" ->
           [dial |-> "stat", stat |-> "load", load |-> "hash", hash |-> "save",
            save |-> "open", open |-> "check", publish |-> "clear"][point]
      [] backend = "local" ->
           [dial |-> "load", load |-> "open", open |-> "stream",
            publish |-> "verify"][point]

Fails == fails < MaxFails /\ fails' = fails + 1 /\ UNCHANGED <<faults, cuts>>

\* A write of the row is best-effort.
Save(tok) ==
    \/ row' = tok /\ UNCHANGED bounds
    \/ /\ faults < MaxFaults /\ faults' = faults + 1
       /\ UNCHANGED <<row, fails, cuts>>
-----------------------------------------------------------------------------
(***************************************************************************)
(* The producer and the end of a process or a window.                      *)
(***************************************************************************)
\* It overwrites the file, which open handles show, or replaces it.
Written(v) == \/ UNCHANGED th
              \/ th' = [t \in Threads |-> [th[t] EXCEPT !.view = v]]

Rewrite ==
    /\ phase = "pending" /\ src < MaxVersion
    /\ src' = src + 1 /\ Written(src + 1)
    /\ UNCHANGED <<backend, durable, server, session, cur, bounds>>

\* upsert_ready takes the name up again with fresh rows.
NewFile ==
    /\ phase # "pending" /\ At(cur, "idle") /\ src < MaxVersion
    /\ src' = src + 1 /\ Written(src + 1)
    /\ phase' = "pending" /\ tries' = 0 /\ row' = NoToken
    /\ UNCHANGED <<backend, server, session, cur, bounds>>

\* What the server keeps of a transfer that ends: the last chunk may not have
\* left the FTPS data connection.
Cut(t) ==
    \/ UNCHANGED file
    \/ /\ backend = "ftps" /\ th[t].pc \in {"check", "stream", "persist"}
       /\ LET n == th[t].pos
          IN /\ n > 0 /\ file[th[t].fd].len = n
             /\ file' = [file EXCEPT ![th[t].fd] =
                            [len |-> n - 1, bytes |-> [@.bytes EXCEPT ![n] = 0]]]

Crash ==
    /\ ~At(cur, "idle") /\ cuts < MaxCuts /\ cuts' = cuts + 1
    /\ th' = [t \in Threads |-> [Fresh EXCEPT !.ver = th[cur].ver]]
    /\ Cut(cur) /\ session' = "none" /\ phase' = "pending"
    /\ UNCHANGED <<backend, src, row, tries, temp, final, cur, fails, faults>>

\* A window close drops the attempt's future (run_batch_windowed); a local
\* rename that is under way takes place.
Renamed == temp # 0 /\ final' = temp /\ temp' = 0 /\ UNCHANGED file

Pause ==
    /\ ~At(cur, "idle") /\ ~(backend = "ftps" /\ th[cur].pc \in Blocking)
    /\ cuts < MaxCuts /\ cuts' = cuts + 1
    /\ Done(cur) /\ phase' = "pending"
    /\ \/ UNCHANGED server
       \/ backend = "local" /\ th[cur].pc \in {"rename", "again"} /\ Renamed
    /\ UNCHANGED <<backend, src, row, tries, session, cur, fails, faults>>

\* CancelOnDrop sets the flag of the blocking call, which runs on.
Detach ==
    /\ cur = 1 /\ backend = "ftps" /\ th[cur].pc \in Blocking
    /\ cuts < MaxCuts /\ cuts' = cuts + 1
    /\ th' = [th EXCEPT ![1].cancelled = TRUE] /\ cur' = 2 /\ phase' = "pending"
    /\ UNCHANGED <<backend, src, row, tries, server, session, fails, faults>>
-----------------------------------------------------------------------------
(***************************************************************************)
(* deliver                                                                 *)
(***************************************************************************)
\* Mutant: a checkpoint of an older version is taken up.
Matches_AnyMtime(tok, v) == tok.ver # 0

\* matches: the temp path is fixed here; size and mtime are the version's.
Matches(tok, v) == tok.ver = v

\* load_resume, metadata, and the token's offset if it can be used.
Begin ==
    /\ At(cur, "idle") /\ phase = "pending"
    /\ th' = [th EXCEPT ![cur] =
                [Fresh EXCEPT !.pc = "dial", !.ver = src, !.view = src,
                   !.pos = IF Matches(row, src) THEN row.done ELSE 0]]
    /\ UNCHANGED <<backend, src, durable, server, session, cur, bounds>>

\* SFTP keeps its session; FTPS connects for each call.
Dial(t) ==
    /\ At(t, "dial")
    /\ Go(t, IF session = "dead" THEN "transient" ELSE After("dial"))
    /\ session' = IF backend = "sftp" /\ session = "none" THEN "up" ELSE session
    /\ UNCHANGED <<backend, src, durable, server, cur, bounds>>

\* The offset is trusted only as far as the temp file goes.
Committed(n) == IF temp = 0 THEN 0
                ELSE IF file[temp].len < n THEN file[temp].len ELSE n

Stat(t) ==
    /\ At(t, "stat")
    /\ \/ th' = [th EXCEPT ![t].pos = Committed(@), ![t].pc = After("stat")]
          /\ UNCHANGED bounds
       \/ Fails
          /\ th' = [th EXCEPT ![t].pos = 0, ![t].pc = After("stat")]
    /\ UNCHANGED <<backend, src, durable, server, session, cur>>

\* Open the temp file, created if absent and truncated when starting over.
Unused(f) == f \notin {temp, final} /\ \A t \in Threads : th[t].fd # f
Open(t) ==
    /\ At(t, "open")
    /\ \E f \in Files :
         /\ IF temp # 0 THEN f = temp
            ELSE Unused(f) /\ \A g \in Files : Unused(g) => f <= g
         /\ temp' = f
         /\ file' = IF temp = 0 \/ th[t].pos = 0
                    THEN [file EXCEPT ![f] = Empty] ELSE file
         /\ th' = [th EXCEPT ![t].fd = f, ![t].pc = After("open")]
    /\ UNCHANGED <<backend, src, durable, final, session, cur, bounds>>

\* persist_checkpoint, ahead of the first chunk.
SaveStart(t) ==
    /\ At(t, "save") /\ Go(t, After("save"))
    /\ Save(Token(th[t].ver, th[t].pos))
    /\ UNCHANGED <<backend, src, phase, tries, server, session, cur>>

\* hash_prefix reads the committed part again, by path.
HashPrefix(t) ==
    /\ At(t, "hash")
    /\ th' = [th EXCEPT ![t].pc = After("hash"),
                        ![t].hash = [c \in Chunks |->
                            IF c <= th[t].pos /\ c <= SizeOf[src] THEN src ELSE 0]]
    /\ UNCHANGED <<backend, src, durable, server, session, cur, bounds>>

\* Open the source.
Load(t) ==
    /\ At(t, "load")
    /\ th' = [th EXCEPT ![t].pc = After("load"), ![t].view = src]
    /\ UNCHANGED <<backend, src, durable, server, session, cur, bounds>>

\* Top of the FTPS loop: a cancelled upload ends here.
Loop == IF backend = "ftps" THEN "check" ELSE "stream"
Check(t) ==
    /\ At(t, "check") /\ ~th[t].cancelled /\ Go(t, "stream")
    /\ UNCHANGED <<backend, src, durable, server, session, cur, bounds>>

\* Mutant: one read too many.
More_Inclusive(t) == th[t].pos <= SizeOf[th[t].view]

More(t) == th[t].pos < SizeOf[th[t].view]

\* One chunk is read, written and hashed; every so often, a checkpoint is due,
\* but not in a local directory.
Stream(t) ==
    /\ At(t, "stream") /\ More(t)
    /\ LET n == th[t].pos + 1
           f == th[t].fd
           local == backend = "local"
           due == ~local /\ th[t].since + 1 >= Every
       IN /\ file' = [file EXCEPT ![f] =
                        [len |-> IF @.len < n THEN n ELSE @.len,
                         bytes |-> [@.bytes EXCEPT ![n] = th[t].view]]]
          /\ th' = [th EXCEPT ![t].pos = n, ![t].hash[n] = th[t].view,
                              ![t].since = IF local \/ due THEN 0 ELSE @ + 1,
                              ![t].pc = IF due THEN "persist" ELSE Loop]
    /\ UNCHANGED <<backend, src, durable, temp, final, session, cur, bounds>>

Persist(t) ==
    /\ At(t, "persist") /\ Go(t, Loop)
    /\ Save(Token(th[t].ver, th[t].pos))
    /\ UNCHANGED <<backend, src, phase, tries, server, session, cur>>

\* Mutant: the size is not looked at again.
SizeHeld_Any(t) == TRUE

\* End of file: the size must be the one the attempt began with, at which a
\* local copy does not look.
SizeHeld(t) == backend = "local" \/ th[t].pos = SizeOf[th[t].ver]
Finish(t) ==
    /\ At(t, "stream") /\ ~More(t)
    /\ Go(t, IF SizeHeld(t) THEN "rename" ELSE "transient")
    /\ UNCHANGED <<backend, src, durable, server, session, cur, bounds>>
-----------------------------------------------------------------------------
(***************************************************************************)
(* publish: rename; if that fails, remove the target and rename again.     *)
(***************************************************************************)
\* A server may or may not replace an existing target.
Rename(t) ==
    /\ At(t, "rename") /\ Renamed /\ Go(t, After("publish"))
    /\ UNCHANGED <<backend, src, durable, session, cur, bounds>>

RenameRefused(t) ==
    /\ At(t, "rename") /\ (temp = 0 \/ final # 0) /\ Go(t, "remove")
    /\ UNCHANGED <<backend, src, durable, server, session, cur, bounds>>

\* A timeout: the rename may have happened.
RenameUnsure(t) ==
    /\ At(t, "rename") /\ backend # "local" /\ Fails /\ Go(t, "remove")
    /\ Renamed \/ UNCHANGED server
    /\ UNCHANGED <<backend, src, durable, session, cur>>

\* classify_io: an error is retried, unless access is denied or a path is gone.
Classified(t) == \E outcome \in {"transient", "refused"} : Go(t, outcome)

\* A local rename fails for another reason: the temp file is removed.
RenameFails(t) ==
    /\ At(t, "rename") /\ backend = "local" /\ final = 0 /\ Fails
    /\ Classified(t) /\ temp' = 0
    /\ UNCHANGED <<backend, src, durable, file, final, session, cur>>

\* Its result is ignored, but for a local directory.
Remove(t) ==
    /\ At(t, "remove")
    /\ \/ final' = 0 /\ Go(t, "again") /\ UNCHANGED bounds
       \/ /\ Fails /\ UNCHANGED final
          /\ IF backend = "local" THEN Classified(t) ELSE Go(t, "again")
    /\ UNCHANGED <<backend, src, durable, file, temp, session, cur>>

RenameAgain(t) ==
    /\ At(t, "again")
    /\ \/ Renamed /\ Go(t, After("publish"))
       \/ temp = 0 /\ Go(t, "refused") /\ UNCHANGED server
       \/ /\ temp # 0 /\ final # 0 /\ UNCHANGED server
          /\ Go(t, IF backend = "ftps" THEN "refused" ELSE "transient")
    /\ UNCHANGED <<backend, src, durable, session, cur, bounds>>

\* clear_checkpoint, or clear_resume in the FTPS thread.
ClearToken(t) ==
    /\ At(t, "clear") /\ Go(t, "verify") /\ Save(NoToken)
    /\ UNCHANGED <<backend, src, phase, tries, server, session, cur>>

\* The thread of a dropped future ends, at the flag or with a result that
\* nobody reads.
Vanish(t) ==
    /\ th[t].cancelled /\ th[t].pc \in {"check", "transient", "refused", "verify", "drop"}
    /\ Done(t)
    /\ UNCHANGED <<backend, src, durable, server, session, cur, bounds>>

\* A local copy fails: its temp file is removed, but for a second rename.
LocalError(t) ==
    /\ backend = "local" /\ Fails /\ Classified(t)
    /\ \/ th[t].pc \in {"dial", "load", "open", "again", "verify"} /\ UNCHANGED temp
       \/ At(t, "stream") /\ temp' = 0
    /\ UNCHANGED <<backend, src, durable, file, final, session, cur>>

\* The connection is lost in a request, which may have had its effect.
Lost(t) ==
    /\ backend # "local" /\ Fails /\ Go(t, "transient")
    /\ session' = IF backend = "sftp" /\ ~At(t, "dial") THEN "dead" ELSE session
    /\ \/ th[t].pc \in {"dial", "stat", "open", "verify"} /\ UNCHANGED server
       \/ At(t, "stream") /\ Cut(t) /\ UNCHANGED <<temp, final>>
       \/ th[t].pc \in {"rename", "again"} /\ (Renamed \/ UNCHANGED server)
    /\ UNCHANGED <<backend, src, durable, cur>>

\* A permanent error: a login or a path is refused.
Denied(t) ==
    /\ th[t].pc \in {"dial", "open"} /\ backend # "local" /\ Fails /\ Go(t, "refused")
    /\ UNCHANGED <<backend, src, durable, server, session, cur>>
-----------------------------------------------------------------------------
(***************************************************************************)
(* verify, and what run_one_dest makes of the outcome.                     *)
(***************************************************************************)
\* The published file is downloaded and hashed.  Delivered.bytes is the size
\* at the start with SFTP, the bytes sent otherwise.
Bytes == IF backend = "sftp" THEN SizeOf[th[cur].ver] ELSE th[cur].pos
Sound == final # 0 /\ file[final] = [len |-> Bytes, bytes |-> th[cur].hash]
Verify ==
    /\ At(cur, "verify")
    /\ Go(cur, IF Sound THEN "checkpoint"
               ELSE IF final = 0 THEN "refused" ELSE "transient")
    /\ UNCHANGED <<backend, src, durable, server, session, cur, bounds>>

\* save_verified_checkpoint replaces a token that is still there.
Checkpoint ==
    /\ At(cur, "checkpoint") /\ Go(cur, "mark") /\ Save(NoToken)
    /\ UNCHANGED <<backend, src, phase, tries, server, session, cur>>

MarkVerified ==
    /\ At(cur, "mark") /\ Done(cur) /\ phase' = "verified"
    /\ UNCHANGED <<backend, src, row, tries, server, session, cur, bounds>>

\* Mutant: the session is cached for good.
Invalidate_Keep ==
    /\ At(cur, "transient") /\ Go(cur, "failed") /\ session' = session
    /\ UNCHANGED <<backend, src, durable, server, cur, bounds>>

\* invalidate_on_transient: the next attempt dials again.
Invalidate ==
    /\ At(cur, "transient") /\ Go(cur, "failed") /\ session' = "none"
    /\ UNCHANGED <<backend, src, durable, server, cur, bounds>>

Retry ==
    /\ At(cur, "failed") /\ tries + 1 < MaxTries
    /\ tries' = tries + 1 /\ Done(cur)
    /\ UNCHANGED <<backend, src, phase, row, server, session, cur, bounds>>

GiveUp ==
    /\ At(cur, "refused") \/ (At(cur, "failed") /\ tries + 1 >= MaxTries)
    /\ phase' = "exhausted"
    /\ Go(cur, IF row.ver # 0 THEN "abort" ELSE "drop")
    /\ UNCHANGED <<backend, src, row, tries, server, session, cur, bounds>>

\* abort removes the temp file the row names; then clear_resume.
Abort(t) ==
    /\ At(t, "abort") /\ Go(t, "drop")
    /\ \/ temp' = 0 /\ UNCHANGED bounds
       \/ Fails /\ UNCHANGED temp
    /\ UNCHANGED <<backend, src, durable, file, final, session, cur>>

DropToken ==
    /\ At(cur, "drop") /\ Done(cur) /\ Save(NoToken)
    /\ UNCHANGED <<backend, src, phase, tries, server, session, cur>>
-----------------------------------------------------------------------------
Call(t) == \/ Dial(t) \/ Stat(t) \/ Open(t) \/ SaveStart(t) \/ HashPrefix(t)
           \/ Load(t) \/ Check(t) \/ Stream(t) \/ Persist(t) \/ Finish(t)
           \/ Rename(t) \/ RenameRefused(t) \/ Remove(t) \/ RenameAgain(t)
           \/ ClearToken(t) \/ Abort(t)

Broken(t) == \/ Lost(t) \/ Denied(t) \/ RenameUnsure(t)
             \/ LocalError(t) \/ RenameFails(t)

Work == \/ Begin \/ Call(cur) \/ Verify \/ Checkpoint \/ MarkVerified
        \/ Invalidate \/ Retry \/ GiveUp \/ DropToken

\* The detached thread.
Ghost(t) == th[t].cancelled /\ (Call(t) \/ Broken(t) \/ Vanish(t))

Next == \/ Work \/ Broken(cur) \/ Crash \/ Pause \/ Detach
        \/ \E t \in Threads : Ghost(t)
        \/ Rewrite \/ NewFile

Spec == Init /\ [][Next]_vars
FairSpec == Spec /\ WF_vars(Work)
-----------------------------------------------------------------------------
\* The source a local copy was made of is as it was when the attempt began: a
\* local copy would not notice.
Steady == backend = "local" => th[cur].ver = src

\* A destination that is marked verified holds the whole version its last
\* attempt announced, and keeps it (dest_state, publish).
DeliveredWhole ==
    phase = "verified" /\ Steady => final # 0 /\ file[final] = Whole(th[cur].ver)

\* No FTPS upload has outlived its window.
Undisturbed == cur = 1

\* The same, as long as no blocking upload was left behind by a pause.
DeliveredUndisturbed == Undisturbed => DeliveredWhole

\* What stands at the final name is a whole version at every moment, also
\* while an older one is replaced and after a publish that failed half-way
\* (deliver streams into the temp name only); in a local directory it has a
\* version's size and no holes.
Complete(c, v) ==
    \/ c = Whole(v)
    \/ /\ backend = "local" /\ c.len = SizeOf[v]
       /\ \A k \in Chunks : (c.bytes[k] = 0) <=> (k > c.len)
PublishedWhole ==
    Undisturbed /\ final # 0 => \E v \in Versions : Complete(file[final], v)

\* verify lets an attempt pass only if the whole announced version stands at
\* the final name at that moment, whatever a detached upload does.
VerifiedWhenWhole ==
    [][At(cur, "verify") /\ cur' = cur /\ th'[cur].pc = "checkpoint" /\ Steady
         => final # 0 /\ file[final] = Whole(th[cur].ver)]_vars

\* A delivery gets through once faults stop, or is refused for good before
\* its attempts run out: no attempt is wasted on a dead session
\* (invalidate_on_transient).
EventuallyVerified ==
    phase = "pending" ~> \/ phase = "verified"
                         \/ phase = "exhausted" /\ tries + 1 < MaxTries
=============================================================================
