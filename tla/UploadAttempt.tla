--------------------------- MODULE UploadAttempt ---------------------------
(***************************************************************************)
(* What the HTTP, GCS and Azure destinations have in common: attempts to   *)
(* deliver one file name, which send the source piece by piece, keep a     *)
(* checkpoint in the resume row and verify the object that stands under    *)
(* the final name; and what the worker makes of an attempt's outcome.      *)
(*                                                                         *)
(* Sizes are counted in units; a piece (chunk or block) has Chunk units.   *)
(* A version of the source is a number and stands for its mtime.  A byte   *)
(* is known by the version it was read from; 0 is a hole.  One request or  *)
(* one store call is one step.  A pause and a crash look alike from here:  *)
(* the attempt ends, the row stays, and the last request may have landed.  *)
(***************************************************************************)
EXTENDS Naturals

CONSTANTS MaxUnits,   \* bound: units of a version
          SizeOf,     \* the size of each version
          Chunk,      \* chunk_bytes, block_size
          Backends,   \* subset of {"http", "gcs", "azure"}
          Policies,   \* subset of {"checksum", "size"}: verification
          MaxTries,   \* retry.maxAttempts
          MaxVersion, \* bound: versions the producer writes
          MaxFails,   \* bound: failed requests and lost answers
          MaxFaults,  \* bound: durable-store faults
          MaxCuts,    \* bound: crashes and window closes
          MaxLosses   \* bound: times a server drops what it had accepted

Units == 1 .. MaxUnits
Versions == 1 .. MaxVersion

ASSUME UploadAssumption ==
    /\ MaxUnits \in Nat /\ Chunk \in Nat \ {0} /\ MaxTries \in Nat \ {0}
    /\ MaxVersion \in Nat \ {0} /\ SizeOf \in [Versions -> 0 .. MaxUnits]
    /\ Backends \subseteq {"http", "gcs", "azure"} /\ Backends # {}
    /\ Policies \subseteq {"checksum", "size"} /\ Policies # {}
    /\ MaxFails \in Nat /\ MaxFaults \in Nat /\ MaxCuts \in Nat
    /\ MaxLosses \in Nat

NoBytes == [u \in Units |-> 0]
Contents == [len : 0 .. MaxUnits, bytes : [Units -> 0 .. MaxVersion]]
Empty == [len |-> 0, bytes |-> NoBytes]
Prefix(v, n) == [u \in Units |-> IF u <= n THEN v ELSE 0]
Whole(v) == [len |-> SizeOf[v], bytes |-> Prefix(v, SizeOf[v])]

\* bytes with those of version v from unit n + 1 to unit m.
Spliced(bytes, n, m, v) ==
    [u \in Units |-> IF n < u /\ u <= m THEN v ELSE bytes[u]]

\* The object a final name stands for.
Objects == [live : BOOLEAN, is : Contents]
NoObject == [live |-> FALSE, is |-> Empty]
Object(c) == [live |-> TRUE, is |-> c]

\* The resume row.  ver = 0: none.  sess is GCS's session, else 0.
Token(v, n, s) == [ver |-> v, done |-> n, sess |-> s]
NoToken == Token(0, 0, 0)
Rows == [ver : 0 .. MaxVersion, done : 0 .. MaxUnits, sess : 0 .. 3]

VARIABLES
    backend, policy,   \* the destination's kind and verification
    src, phase,        \* source version, the destination's dest_state phase
    row, tries,        \* its resume row, failed attempts of this delivery
    obj,               \* the server's object under the final name
    at,                \* the attempt
    fails, faults, cuts, losses

setting == <<backend, policy>>
durable == <<phase, row, tries>>
bounds  == <<fails, faults, cuts, losses>>
shared  == <<setting, src, durable, obj, at, bounds>>

Sessions == 1 .. 3

Points == {"idle", "put", "init", "head", "hash", "save", "send", "persist",
           "commit", "probe", "unsure", "clear", "forget", "verify",
           "checkpoint", "mark", "failed", "refused", "abort", "drop"}

Attempts == [pc : Points, ver : Versions, pos : 0 .. MaxUnits,
             hash : [Units -> 0 .. MaxVersion], sess : 0 .. 3, resuming : BOOLEAN]
Fresh == [pc |-> "idle", ver |-> 1, pos |-> 0, hash |-> NoBytes, sess |-> 0,
          resuming |-> FALSE]

AttemptTypeOK ==
    /\ backend \in Backends /\ policy \in Policies /\ src \in Versions
    /\ phase \in {"pending", "verified", "exhausted"}
    /\ row \in Rows /\ tries \in Nat /\ obj \in Objects /\ at \in Attempts
    /\ fails \in Nat /\ faults \in Nat /\ cuts \in Nat /\ losses \in Nat

AttemptInit ==
    /\ backend \in Backends /\ policy \in Policies
    /\ src = 1 /\ phase = "pending" /\ row = NoToken /\ tries = 0
    /\ obj = NoObject /\ at = Fresh
    /\ fails = 0 /\ faults = 0 /\ cuts = 0 /\ losses = 0
-----------------------------------------------------------------------------
At(point) == at.pc = point
Go(point) == at' = [at EXCEPT !.pc = point]
Done == at' = [Fresh EXCEPT !.ver = at.ver]
Size == SizeOf[at.ver]

Fail == /\ fails < MaxFails /\ fails' = fails + 1
        /\ UNCHANGED <<faults, cuts, losses>>

Lose == /\ losses < MaxLosses /\ losses' = losses + 1
        /\ UNCHANGED <<fails, faults, cuts>>

\* The same at abort's request, which is not bounded.
Drop == losses' = losses + 1 /\ UNCHANGED <<fails, faults, cuts>>

\* A write of the row is best-effort.
Save(tok) ==
    \/ row' = tok /\ UNCHANGED bounds
    \/ /\ faults < MaxFaults /\ faults' = faults + 1
       /\ UNCHANGED <<row, fails, cuts, losses>>

\* A transport failure, a 5xx, a 408 or a 429 is retried; another 4xx is not.
Outcomes == {"failed", "refused"}

\* Where the next piece ends (chunk_bounds, block_bounds).
PieceEnd == IF at.pos + Chunk < Size THEN at.pos + Chunk ELSE Size

\* read_source_range finds the source at least that long.
Readable(n) == n <= SizeOf[src]

\* hash_local_prefix: the prefix is read again, as far as the source goes.
HashedPrefix(n) == [u \in Units |-> IF u <= n /\ u <= SizeOf[src] THEN src ELSE 0]

\* The hasher after a piece was read.
Hashed == Spliced(at.hash, at.pos, PieceEnd, src)
-----------------------------------------------------------------------------
(***************************************************************************)
(* The producer.                                                           *)
(***************************************************************************)
Rewrite ==
    /\ phase = "pending" /\ src < MaxVersion /\ src' = src + 1
    /\ UNCHANGED <<setting, durable, obj, at, bounds>>

\* upsert_ready takes the name up again with fresh rows.
NewFile ==
    /\ phase # "pending" /\ At("idle") /\ src < MaxVersion
    /\ src' = src + 1 /\ phase' = "pending" /\ tries' = 0 /\ row' = NoToken
    /\ UNCHANGED <<setting, obj, at, bounds>>
-----------------------------------------------------------------------------
(***************************************************************************)
(* Steps of deliver that the three share.                                  *)
(***************************************************************************)
\* metadata, and the plan: where the attempt starts, and from which offset.
Start(point, n, s, resumed) ==
    /\ At("idle") /\ phase = "pending"
    /\ at' = [Fresh EXCEPT !.pc = point, !.ver = src, !.pos = n, !.sess = s,
                           !.resuming = resumed]
    /\ UNCHANGED <<setting, src, durable, obj, bounds>>

Hash ==
    /\ At("hash")
    /\ at' = [at EXCEPT !.pc = "save", !.hash = HashedPrefix(at.pos)]
    /\ UNCHANGED <<setting, src, durable, obj, bounds>>

\* persist_checkpoint, ahead of the first piece and after each.
SaveRow(tok) ==
    /\ at.pc \in {"save", "persist"} /\ Go("send") /\ Save(tok)
    /\ UNCHANGED <<setting, src, phase, tries, obj>>

\* The source ended early: it is planned anew.
Truncated ==
    /\ \/ At("put") /\ ~Readable(Size)
       \/ At("send") /\ at.pos < Size /\ ~Readable(PieceEnd)
    /\ Go("failed")
    /\ UNCHANGED <<setting, src, durable, obj, bounds>>

AllSent(point) ==
    /\ At("send") /\ at.pos = Size /\ Go(point)
    /\ UNCHANGED <<setting, src, durable, obj, bounds>>

\* Mutant: the position advances by a whole piece at the end of the file too.
PieceSent_Whole == at' = [at EXCEPT !.pc = "persist", !.pos = @ + Chunk,
                                    !.hash = Hashed]

\* A piece, or the whole body, was accepted.
PieceSent == at' = [at EXCEPT !.pc = "persist", !.pos = PieceEnd,
                              !.hash = Hashed]
BodySent == at' = [at EXCEPT !.pc = "clear", !.pos = Size,
                             !.hash = Prefix(src, Size)]
Body == Object([len |-> Size, bytes |-> Prefix(src, Size)])

\* clear_checkpoint.
ClearRow ==
    /\ At("clear") /\ Go("verify") /\ Save(NoToken)
    /\ UNCHANGED <<setting, src, phase, tries, obj>>

\* A request fails, without effect, by an outcome of its classification.
Refused(points) ==
    /\ at.pc \in points /\ Fail
    /\ \E o \in Outcomes : Go(o)
    /\ UNCHANGED <<setting, src, durable, obj>>

\* No answer: the attempt fails, the server is told apart by its own effect.
Lost == Fail /\ Go("failed") /\ UNCHANGED <<setting, src, durable>>

\* The process ends, or the window closes and drops the attempt's future.
Cut == /\ ~At("idle") /\ cuts < MaxCuts /\ cuts' = cuts + 1
       /\ Done /\ phase' = "pending"
       /\ UNCHANGED <<setting, src, row, tries, fails, faults, losses>>
-----------------------------------------------------------------------------
(***************************************************************************)
(* verify, and what run_one_dest makes of the outcome.                     *)
(***************************************************************************)
\* Mutant: a mismatch of the digest is not looked at.
Sound_SizeOnly == obj.is.len = Size

\* verify_size, and verify_checksum against the digest of what was sent.
Sound == /\ obj.is.len = Size
         /\ policy = "checksum" => obj.is.bytes = at.hash

\* An absent object is a 404, hence permanent; a mismatch is retried.
VerifyObject ==
    /\ At("verify")
    /\ Go(IF ~obj.live THEN "refused" ELSE IF Sound THEN "checkpoint" ELSE "failed")
    /\ UNCHANGED <<setting, src, durable, obj, bounds>>

\* save_verified_checkpoint replaces a token that is still there.
Checkpoint ==
    /\ At("checkpoint") /\ Go("mark") /\ Save(NoToken)
    /\ UNCHANGED <<setting, src, phase, tries, obj>>

MarkVerified ==
    /\ At("mark") /\ Done /\ phase' = "verified"
    /\ UNCHANGED <<setting, src, row, tries, obj, bounds>>

Retry ==
    /\ At("failed") /\ tries + 1 < MaxTries /\ tries' = tries + 1 /\ Done
    /\ UNCHANGED <<setting, src, phase, row, obj, bounds>>

GiveUp ==
    /\ At("refused") \/ (At("failed") /\ tries + 1 >= MaxTries)
    /\ phase' = "exhausted"
    /\ Go(IF row.ver # 0 THEN "abort" ELSE "drop")
    /\ UNCHANGED <<setting, src, row, tries, obj, bounds>>

\* clear_resume, after abort.
DropToken ==
    /\ At("drop") /\ Done /\ Save(NoToken)
    /\ UNCHANGED <<setting, src, phase, tries, obj>>

\* Steps that touch no server state of a backend's own.
Worker == \/ Hash \/ Truncated \/ ClearRow
          \/ Checkpoint \/ MarkVerified \/ Retry \/ GiveUp \/ DropToken
=============================================================================
