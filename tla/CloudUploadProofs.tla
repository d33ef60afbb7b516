------------------------- MODULE CloudUploadProofs -------------------------
(***************************************************************************)
(* What an HTTP, GCS or Azure destination holds when it is marked          *)
(* verified, and what its resume row may say, for any sizes of versions    *)
(* and pieces, any threshold, backends, policies, bounds and retries.      *)
(***************************************************************************)
EXTENDS CloudUpload, TLAPS

Piecewise == {"hash", "save", "send", "persist"}
Sent == {"save", "send", "persist"}
Complete == {"commit", "probe", "unsure", "clear", "verify"}

(***************************************************************************)
(* What an attempt knows.  A byte is of the source's newest version, so as *)
(* long as that is the one the attempt began with, the hasher has seen     *)
(* that version's bytes up to the offset, and nothing else.                *)
(***************************************************************************)
AtOK(a) ==
    /\ a \in Attempts /\ a.ver <= src /\ a.pos <= SizeOf[a.ver]
    /\ backend = "gcs" /\ a.pc \in Piecewise => a.sess # 0
    /\ a.ver = src /\ a.pc \in Sent => a.hash = Prefix(src, a.pos)
    /\ a.ver = src /\ a.pc \in Complete => a.hash = Prefix(src, a.pos) /\ a.pos = SizeOf[src]

\* A row is of a version that some attempt began with, and within it.
RowOK(r, a) ==
    /\ r \in Rows /\ r.ver <= a.ver
    /\ r.ver # 0 => r.done <= SizeOf[r.ver] /\ (backend = "gcs" => r.sess # 0)

CoreInv ==
    /\ backend \in Backends /\ policy \in Policies /\ src \in Versions
    /\ phase \in {"pending", "verified", "exhausted"} /\ tries \in Nat
    /\ fails \in Nat /\ faults \in Nat /\ cuts \in Nat /\ losses \in Nat
    /\ AtOK(at) /\ RowOK(row, at)
    /\ phase = "verified" => at.pc = "idle"

\* Numbers.
LEMMA Sizes ==
    /\ MaxUnits \in Nat /\ MaxVersion \in Nat /\ Chunk \in Nat /\ Chunk > 0
    /\ \A v \in Versions : /\ v \in Nat /\ v > 0 /\ v \in 0 .. MaxVersion
                           /\ SizeOf[v] \in 0 .. MaxUnits /\ SizeOf[v] \in Nat
    /\ \A u \in Units : u \in Nat /\ u > 0 /\ u \in 0 .. MaxUnits
    /\ 0 \in 0 .. MaxUnits /\ 0 \in 0 .. MaxVersion
    /\ \A n \in 0 .. MaxUnits : n \in Nat
BY UploadAssumption DEF Versions, Units

LEMMA PrefixType ==
    ASSUME NEW v \in Versions, NEW n \in Nat
    PROVE  Prefix(v, n) \in [Units -> 0 .. MaxVersion]
BY Sizes DEF Prefix

LEMMA FreshIs ==
    /\ Fresh \in Attempts /\ Fresh.pc = "idle" /\ Fresh.ver = 1 /\ Fresh.pos = 0
    /\ Fresh.hash = NoBytes /\ Fresh.sess = 0 /\ Fresh.resuming = FALSE
<1>1. 1 \in Versions BY UploadAssumption DEF Versions
<1>2. NoBytes \in [Units -> 0 .. MaxVersion] BY Sizes DEF NoBytes
<1>3. "idle" \in Points BY DEF Points
<1>4. 0 \in 0 .. 3 OBVIOUS
<1> HIDE DEF NoBytes
<1> QED BY <1>1, <1>2, <1>3, <1>4, Sizes DEF Fresh, Attempts

\* A step that only moves the attempt.
Moves(p) ==
    /\ at' \in Attempts /\ at'.pc = p /\ at'.ver = at.ver /\ at'.pos = at.pos
    /\ at'.hash = at.hash /\ at'.sess = at.sess /\ at'.resuming = at.resuming

LEMMA Goes ==
    ASSUME at \in Attempts, NEW p \in Points, Go(p)
    PROVE  Moves(p)
BY DEF Go, Attempts, Moves

\* An attempt ends.
LEMMA Ends ==
    ASSUME AtOK(at), UNCHANGED <<backend, src>>, Done
    PROVE  /\ at' \in Attempts /\ at'.pc = "idle" /\ at'.ver = at.ver /\ at'.pos = 0
           /\ AtOK(at)'
<1> DEFINE b == [Fresh EXCEPT !.ver = at.ver]
<1>1. at.ver \in Versions /\ at \in Attempts BY DEF AtOK, Attempts
<1>2. b \in Attempts /\ b.pc = "idle" /\ b.ver = at.ver /\ b.pos = 0
  BY <1>1, FreshIs DEF Attempts
<1>3. at' = b BY DEF Done
<1> HIDE DEF b
<1>4. SizeOf[at.ver] \in Nat BY <1>1, Sizes
<1>5. AtOK(at)' BY <1>2, <1>3, <1>4 DEF AtOK, Piecewise, Sent, Complete
<1> QED BY <1>2, <1>3, <1>5

\* Where a move may lead.
Flow(p) ==
    /\ backend = "gcs" /\ p \in Piecewise => at.pc \in Piecewise
    /\ p \in Sent => at.pc \in Sent
    /\ p \in Complete => at.pc \in Complete \/ (at.pc = "send" /\ at.pos = SizeOf[at.ver])

LEMMA MovesOK ==
    ASSUME AtOK(at), UNCHANGED <<backend, src>>, NEW p \in Points, Go(p), Flow(p)
    PROVE  Moves(p) /\ AtOK(at)'
<1>1. Moves(p) BY Goes DEF AtOK
<1>2. AtOK(at)'
  <2>1. at'.pc = p /\ at' \in Attempts /\ at'.ver = at.ver /\ at'.pos = at.pos
        /\ at'.hash = at.hash /\ at'.sess = at.sess
    BY <1>1 DEF Moves
  <2> QED BY <2>1 DEF AtOK, Flow, Sent
<1> QED BY <1>1, <1>2

\* The end of a piece.
LEMMA PieceIs ==
    ASSUME AtOK(at), at.pos < Size
    PROVE  /\ PieceEnd \in 0 .. MaxUnits /\ at.pos < PieceEnd /\ PieceEnd <= Size
           /\ PieceEnd <= at.pos + Chunk /\ PieceEnd \in Units
           /\ PieceEnd = at.pos + Chunk \/ PieceEnd = Size
<1>1. at.pos \in Nat /\ at.ver \in Versions BY Sizes DEF AtOK, Attempts
<1>2. Size \in 0 .. MaxUnits BY <1>1, Sizes DEF Size
<1> QED BY <1>1, <1>2, Sizes DEF PieceEnd, Units

\* A piece is read and accepted.
LEMMA PieceOK ==
    ASSUME AtOK(at), src \in Versions, UNCHANGED <<backend, src>>, At("send"), at.pos < Size,
           PieceSent
    PROVE  /\ at' \in Attempts /\ at'.pc = "persist" /\ at'.ver = at.ver
           /\ at'.pos = PieceEnd /\ at'.sess = at.sess /\ AtOK(at)'
<1> DEFINE n == PieceEnd
           h == Hashed
           b == [at EXCEPT !.pc = "persist", !.pos = n, !.hash = h]
<1>1. /\ at \in Attempts /\ at.ver \in Versions /\ at.pos \in Nat
      /\ at.hash \in [Units -> 0 .. MaxVersion]
  BY Sizes DEF AtOK, Attempts
<1>2. n \in 0 .. MaxUnits /\ n \in Nat /\ at.pos < n /\ n <= SizeOf[at.ver]
  BY PieceIs, Sizes DEF Size
<1>3. h \in [Units -> 0 .. MaxVersion] BY <1>1, Sizes DEF Hashed, Spliced
<1>4. "persist" \in Points BY DEF Points
<1>5. at' = b BY DEF PieceSent
<1>6. at.hash = Prefix(src, at.pos) => h = Prefix(src, n)
  BY <1>1, <1>2, Sizes DEF Hashed, Spliced, Prefix
<1> HIDE DEF n, h
<1>7. /\ b \in Attempts /\ b.pc = "persist" /\ b.ver = at.ver /\ b.pos = n /\ b.hash = h
      /\ b.sess = at.sess
  BY <1>1, <1>2, <1>3, <1>4 DEF Attempts
<1> HIDE DEF b
<1>8. AtOK(at)'
  BY <1>2, <1>5, <1>6, <1>7 DEF AtOK, At, Piecewise, Sent, Complete
<1> QED BY <1>5, <1>7, <1>8 DEF n

\* The whole body is accepted.
LEMMA BodyOK ==
    ASSUME AtOK(at), src \in Versions, UNCHANGED <<backend, src>>, BodySent
    PROVE  /\ at' \in Attempts /\ at'.pc = "clear" /\ at'.ver = at.ver /\ AtOK(at)'
<1> DEFINE h == Prefix(src, Size)
           b == [at EXCEPT !.pc = "clear", !.pos = Size, !.hash = h]
<1>1. at \in Attempts /\ at.ver \in Versions BY DEF AtOK, Attempts
<1>2. Size \in 0 .. MaxUnits /\ Size \in Nat BY <1>1, Sizes DEF Size
<1>3. h \in [Units -> 0 .. MaxVersion] BY <1>2, PrefixType
<1>4. "clear" \in Points BY DEF Points
<1>5. at' = b BY DEF BodySent
<1>6. Size = SizeOf[at.ver] /\ h = Prefix(src, Size) BY DEF Size
<1> HIDE DEF h, Size
<1>7. /\ b \in Attempts /\ b.pc = "clear" /\ b.ver = at.ver /\ b.pos = Size /\ b.hash = h
  BY <1>1, <1>2, <1>3, <1>4 DEF Attempts
<1> HIDE DEF b
<1>8. AtOK(at)'
  BY <1>2, <1>5, <1>6, <1>7 DEF AtOK, Piecewise, Sent, Complete
<1> QED BY <1>5, <1>7, <1>8

\* The committed prefix is read again.
LEMMA HashOK ==
    ASSUME AtOK(at), src \in Versions, UNCHANGED <<backend, src>>, Hash
    PROVE  /\ at' \in Attempts /\ at'.pc = "save" /\ at'.ver = at.ver /\ at'.pos = at.pos
           /\ at'.sess = at.sess /\ AtOK(at)'
<1> DEFINE h == HashedPrefix(at.pos)
           b == [at EXCEPT !.pc = "save", !.hash = h]
<1>1. at \in Attempts /\ at.ver \in Versions /\ at.pos \in Nat BY Sizes DEF AtOK, Attempts
<1>2. h \in [Units -> 0 .. MaxVersion] BY <1>1, Sizes DEF HashedPrefix
<1>3. "save" \in Points BY DEF Points
<1>4. at' = b /\ at.pc = "hash" BY DEF Hash, At
<1>5. at.ver = src => h = Prefix(src, at.pos)
  BY <1>1, Sizes DEF HashedPrefix, Prefix, AtOK
<1> HIDE DEF h
<1>6. /\ b \in Attempts /\ b.pc = "save" /\ b.ver = at.ver /\ b.pos = at.pos /\ b.hash = h
      /\ b.sess = at.sess
  BY <1>1, <1>2, <1>3 DEF Attempts
<1> HIDE DEF b
<1>7. AtOK(at)' BY <1>4, <1>5, <1>6 DEF AtOK, Piecewise, Sent, Complete
<1> QED BY <1>4, <1>6, <1>7

\* An attempt begins.
LEMMA StartOK ==
    ASSUME src \in Versions, UNCHANGED <<backend, src>>,
           NEW p \in {"put", "init", "head", "hash"}, NEW n \in 0 .. MaxUnits, NEW s \in 0 .. 3,
           NEW r \in BOOLEAN,
           n <= SizeOf[src], backend = "gcs" /\ p = "hash" => s # 0, Start(p, n, s, r)
    PROVE  /\ at' \in Attempts /\ at'.pc = p /\ at'.ver = src /\ at'.pos = n /\ at'.sess = s
           /\ AtOK(at)'
<1> DEFINE b == [Fresh EXCEPT !.pc = p, !.ver = src, !.pos = n, !.sess = s, !.resuming = r]
<1>1. p \in Points BY DEF Points
<1>2. at' = b BY DEF Start
<1>3. Fresh \in Attempts BY FreshIs
<1> HIDE DEF Fresh
<1>4. b \in Attempts /\ b.pc = p /\ b.ver = src /\ b.pos = n /\ b.sess = s
  BY <1>1, <1>3 DEF Attempts
<1> HIDE DEF b
<1>5. AtOK(at)' BY <1>2, <1>4, Sizes DEF AtOK, Piecewise, Sent, Complete
<1> QED BY <1>2, <1>4, <1>5

-----------------------------------------------------------------------------
(* The attempt and the row, whatever the server is. *)

BoundsOK == fails' \in Nat /\ faults' \in Nat /\ cuts' \in Nat /\ losses' \in Nat

LEMMA BoundsAre ==
    ASSUME CoreInv
    PROVE  /\ Fail => BoundsOK /\ losses' = losses
           /\ Lose => BoundsOK /\ losses' # 0
           /\ Drop => BoundsOK /\ losses' # 0
           /\ UNCHANGED bounds => BoundsOK /\ losses' = losses
           /\ \A tok : Save(tok) => BoundsOK /\ row' \in {row, tok} /\ losses' = losses
<1>1. Lose => BoundsOK /\ losses' # 0 BY DEF CoreInv, BoundsOK, Lose
<1>2. Drop => BoundsOK /\ losses' # 0 BY DEF CoreInv, BoundsOK, Drop
<1>3. \A tok : Save(tok) => BoundsOK /\ row' \in {row, tok} /\ losses' = losses
  BY DEF CoreInv, BoundsOK, Save, bounds
<1> QED BY <1>1, <1>2, <1>3 DEF CoreInv, BoundsOK, Fail, bounds

LEMMA CoreFrom ==
    ASSUME CoreInv, UNCHANGED <<setting, src>>, AtOK(at)', RowOK(row, at)',
           phase' \in {"pending", "verified", "exhausted"}, tries' \in Nat, BoundsOK,
           phase' = "verified" => at'.pc = "idle"
    PROVE  CoreInv'
BY DEF CoreInv, BoundsOK, setting

LEMMA RowKept ==
    ASSUME CoreInv, UNCHANGED <<setting, src>>, at'.ver = at.ver, row' \in {row, NoToken}
    PROVE  RowOK(row, at)'
<1>1. NoToken \in Rows /\ NoToken.ver = 0 BY Sizes DEF NoToken, Token, Rows
<1>2. at.ver \in Nat BY Sizes DEF CoreInv, AtOK, Attempts
<1> HIDE DEF NoToken
<1> QED BY <1>1, <1>2 DEF CoreInv, RowOK, setting

LEMMA RowSaved ==
    ASSUME CoreInv, UNCHANGED <<setting, src>>, at'.ver = at.ver, NEW s \in 0 .. 3,
           backend = "gcs" => s # 0, row' \in {row, Token(at.ver, at.pos, s)}
    PROVE  RowOK(row, at)'
<1> DEFINE r == Token(at.ver, at.pos, s)
<1>1. at.ver \in Versions /\ at.pos \in 0 .. MaxUnits /\ at.pos <= SizeOf[at.ver]
  BY DEF CoreInv, AtOK, Attempts
<1>2. at.ver \in 0 .. MaxVersion /\ at.ver \in Nat BY <1>1, Sizes
<1>3. r \in Rows /\ r.ver = at.ver /\ r.done = at.pos /\ r.sess = s
  BY <1>1, <1>2 DEF Token, Rows
<1> HIDE DEF r
<1>4. CASE row' = row BY <1>4, RowKept
<1>5. CASE row' = r BY <1>1, <1>2, <1>3, <1>5 DEF RowOK, setting
<1> QED BY <1>4, <1>5 DEF r

\* A step that moves a running attempt on.
LEMMA GoCore ==
    ASSUME CoreInv, UNCHANGED <<setting, src, tries>>, at.pc # "idle",
           NEW p \in Points \ {"idle"}, Go(p), Flow(p), row' \in {row, NoToken},
           phase' \in {phase, "exhausted"}, BoundsOK
    PROVE  Moves(p) /\ CoreInv'
<1>1. Moves(p) /\ AtOK(at)' BY MovesOK DEF CoreInv, setting
<1>2. RowOK(row, at)' BY <1>1, RowKept DEF Moves
<1> QED BY <1>1, <1>2, CoreFrom DEF CoreInv

\* A step that ends it.
LEMMA DoneCore ==
    ASSUME CoreInv, UNCHANGED <<setting, src>>, Done, row' \in {row, NoToken}, tries' \in Nat,
           phase' \in {"pending", "verified", "exhausted"}, BoundsOK
    PROVE  at'.pc = "idle" /\ at'.ver = at.ver /\ CoreInv'
<1>1. at'.pc = "idle" /\ at'.ver = at.ver /\ AtOK(at)' BY Ends DEF CoreInv, setting
<1>2. RowOK(row, at)' BY <1>1, RowKept
<1> QED BY <1>1, <1>2, CoreFrom

\* Points of no piece: a move there is free.
LEMMA FreeFlow ==
    \A p \in {"failed", "refused", "abort", "drop", "checkpoint", "mark", "forget"} :
       Flow(p) /\ p \in Points \ {"idle"}
BY DEF Flow, Piecewise, Sent, Complete, Points

LEMMA WorkerCore ==
    ASSUME CoreInv, Worker
    PROVE  CoreInv'
<1>0. UNCHANGED bounds => BoundsOK BY BoundsAre
<1>1. CASE Hash
  <2>1. UNCHANGED <<setting, src, durable, obj, bounds>> /\ at.pc = "hash"
    BY <1>1 DEF Hash, At
  <2>2. AtOK(at)' /\ at'.ver = at.ver /\ at'.pc = "save"
    BY <1>1, <2>1, HashOK DEF CoreInv, setting
  <2>3. RowOK(row, at)' BY <2>1, <2>2, RowKept DEF durable
  <2> QED BY <1>0, <2>1, <2>2, <2>3, CoreFrom DEF CoreInv, durable
<1>2. CASE Truncated
  BY <1>0, <1>2, GoCore, FreeFlow DEF Truncated, At, durable
<1>3. CASE ClearRow
  <2>1. /\ at.pc = "clear" /\ Go("verify") /\ Save(NoToken)
        /\ UNCHANGED <<setting, src, phase, tries>>
    BY <1>3 DEF ClearRow, At
  <2>2. Flow("verify") /\ "verify" \in Points \ {"idle"}
    BY <2>1 DEF Flow, Complete, Piecewise, Sent, Points
  <2> QED BY <2>1, <2>2, BoundsAre, GoCore
<1>4. CASE Checkpoint
  BY <1>4, BoundsAre, GoCore, FreeFlow DEF Checkpoint, At
<1>5. CASE MarkVerified \/ Retry \/ DropToken
  <2>1. Done /\ UNCHANGED <<setting, src>> /\ row' \in {row, NoToken} /\ tries' \in Nat
        /\ phase' \in {"pending", "verified", "exhausted"} /\ BoundsOK
    BY <1>0, <1>5, BoundsAre DEF MarkVerified, Retry, DropToken, CoreInv
  <2> QED BY <2>1, DoneCore
<1>6. CASE GiveUp
  <2>1. /\ UNCHANGED <<setting, src, row, tries, bounds>> /\ phase' = "exhausted"
        /\ at.pc # "idle" /\ \E p \in {"abort", "drop"} : Go(p)
    BY <1>6 DEF GiveUp, At
  <2> QED BY <1>0, <2>1, GoCore, FreeFlow
<1> QED BY <1>1, <1>2, <1>3, <1>4, <1>5, <1>6 DEF Worker

\* Steps the backends have in common.
LEMMA SaveRowCore ==
    ASSUME CoreInv, NEW s \in 0 .. 3, backend = "gcs" => s = at.sess,
           SaveRow(Token(at.ver, at.pos, s))
    PROVE  Moves("send") /\ CoreInv' /\ losses' = losses
           /\ row' \in {row, Token(at.ver, at.pos, s)}
<1>1. /\ at.pc \in {"save", "persist"} /\ Go("send") /\ Save(Token(at.ver, at.pos, s))
      /\ UNCHANGED <<setting, src, phase, tries, obj>>
  BY DEF SaveRow
<1>2. Flow("send") /\ "send" \in Points \ {"idle"}
  BY <1>1 DEF Flow, Complete, Piecewise, Sent, Points
<1>3. Moves("send") /\ AtOK(at)' BY <1>1, <1>2, MovesOK DEF CoreInv, setting
<1>4. backend = "gcs" => s # 0 BY <1>1 DEF CoreInv, AtOK, Piecewise
<1>5. BoundsOK /\ losses' = losses /\ row' \in {row, Token(at.ver, at.pos, s)}
  BY <1>1, BoundsAre
<1>6. RowOK(row, at)' BY <1>1, <1>3, <1>4, <1>5, RowSaved DEF Moves
<1>7. CoreInv' BY <1>1, <1>3, <1>5, <1>6, CoreFrom DEF CoreInv, Moves
<1> QED BY <1>3, <1>5, <1>7

LEMMA SentCore ==
    ASSUME CoreInv, NEW p \in {"clear", "commit"}, AllSent(p)
    PROVE  Moves(p) /\ CoreInv'
<1>1. /\ at.pc = "send" /\ at.pos = SizeOf[at.ver] /\ Go(p)
      /\ UNCHANGED <<setting, src, durable, bounds>>
  BY DEF AllSent, At, Size
<1>2. Flow(p) /\ p \in Points \ {"idle"}
  BY <1>1 DEF Flow, Complete, Piecewise, Sent, Points
<1> QED BY <1>1, <1>2, BoundsAre, GoCore DEF durable

LEMMA RefusedCore ==
    ASSUME CoreInv, NEW points, "idle" \notin points, Refused(points)
    PROVE  CoreInv' /\ losses' = losses /\ \E p \in Outcomes : Moves(p)
<1>1. /\ at.pc # "idle" /\ Fail /\ UNCHANGED <<setting, src, durable, obj>>
  BY DEF Refused
<1>2. PICK p \in Outcomes : Go(p) BY DEF Refused
<1> QED BY <1>1, <1>2, BoundsAre, GoCore, FreeFlow DEF Outcomes, durable

LEMMA LostCore ==
    ASSUME CoreInv, at.pc # "idle", Lost
    PROVE  CoreInv' /\ Moves("failed") /\ losses' = losses
BY BoundsAre, GoCore, FreeFlow DEF Lost, durable

LEMMA CutCore ==
    ASSUME CoreInv, Cut
    PROVE  CoreInv' /\ at'.pc = "idle" /\ at'.ver = at.ver /\ phase' = "pending"
           /\ losses' = losses
<1>1. BoundsOK BY DEF Cut, CoreInv, BoundsOK
<1> QED BY <1>1, DoneCore DEF Cut, CoreInv

LEMMA VerifyCore ==
    ASSUME CoreInv, VerifyObject
    PROVE  CoreInv' /\ \E p \in {"refused", "checkpoint", "failed"} : Moves(p)
<1>1. /\ at.pc # "idle" /\ UNCHANGED <<setting, src, durable, bounds>>
      /\ \E p \in {"refused", "checkpoint", "failed"} : Go(p)
  BY DEF VerifyObject, At
<1> QED BY <1>1, BoundsAre, GoCore, FreeFlow DEF durable

LEMMA PieceCore ==
    ASSUME CoreInv, At("send"), at.pos < Size, PieceSent, UNCHANGED <<setting, src, durable>>,
           BoundsOK
    PROVE  /\ CoreInv' /\ at'.pc = "persist" /\ at'.ver = at.ver /\ at'.pos = PieceEnd
           /\ at'.sess = at.sess
<1>1. /\ at'.pc = "persist" /\ at'.ver = at.ver /\ at'.pos = PieceEnd
      /\ at'.sess = at.sess /\ AtOK(at)'
  BY PieceOK DEF CoreInv, setting
<1>2. RowOK(row, at)' BY <1>1, RowKept DEF durable
<1>3. phase # "verified" BY DEF CoreInv, At
<1> QED BY <1>1, <1>2, <1>3, CoreFrom DEF CoreInv, durable

LEMMA BodyCore ==
    ASSUME CoreInv, At("put"), BodySent, UNCHANGED <<setting, src, durable, bounds>>
    PROVE  CoreInv' /\ at'.pc = "clear" /\ at'.ver = at.ver
<1>1. at'.pc = "clear" /\ at'.ver = at.ver /\ AtOK(at)' BY BodyOK DEF CoreInv, setting
<1>2. RowOK(row, at)' BY <1>1, RowKept DEF durable
<1>3. phase # "verified" BY DEF CoreInv, At
<1> QED BY <1>1, <1>2, <1>3, BoundsAre, CoreFrom DEF CoreInv, durable

LEMMA StartCore ==
    ASSUME CoreInv, NEW p \in {"put", "init", "head", "hash"}, NEW n \in 0 .. MaxUnits,
           NEW s \in 0 .. 3, NEW r \in BOOLEAN,
           n <= SizeOf[src], backend = "gcs" /\ p = "hash" => s # 0, Start(p, n, s, r)
    PROVE  /\ CoreInv' /\ at'.pc = p /\ at'.ver = src /\ at'.pos = n /\ at'.sess = s
           /\ UNCHANGED <<setting, src, durable, obj, bounds>> /\ phase = "pending"
<1>1. UNCHANGED <<setting, src, durable, obj, bounds>> /\ phase = "pending" BY DEF Start
<1>2. /\ at'.pc = p /\ at'.ver = src /\ at'.pos = n /\ at'.sess = s /\ AtOK(at)'
  BY <1>1, StartOK DEF CoreInv, setting
<1>3. RowOK(row, at)'
  <2>1. row.ver <= at.ver /\ at.ver <= src /\ row.ver \in Nat /\ at.ver \in Nat /\ src \in Nat
    BY Sizes DEF CoreInv, RowOK, AtOK, Attempts, Rows
  <2> QED BY <1>1, <1>2, <2>1 DEF CoreInv, RowOK, durable, setting
<1> QED BY <1>1, <1>2, <1>3, BoundsAre, CoreFrom DEF CoreInv, durable

-----------------------------------------------------------------------------
(* The object and what the server keeps of a piece. *)

ServerOK == obj \in Objects /\ GcsTypeOK /\ HttpTypeOK /\ AzureTypeOK

\* The whole version stands from verify on.
Marked ==
    /\ at.pc \in {"checkpoint", "mark"} \/ phase = "verified"
    /\ policy = "checksum" /\ at.ver = src
    => obj = Object(Whole(src))

\* Staged blocks are of the token's version, or the blob is: then a commit of
\* what was staged since would make it again.
AzureKept(tok) ==
    \/ \A u \in Units : u <= tok.done => staged[BlockOf(u)] = tok.ver
    \/ obj = Object(Whole(tok.ver)) /\ \A n \in Blocks : staged[n] \in {0, tok.ver}

HeldBy(tok) ==
    /\ backend = "gcs" => GcsHeld(tok)
    /\ backend = "http" => HttpHeld(tok)
    /\ backend = "azure" => AzureKept(tok)

\* An offset at which a block ends.
Aligned(v, n) == n = SizeOf[v] \/ \E k \in Nat : n = k * Chunk

\* Where an attempt relies on the server to have all before its offset.
Holding == {"head", "hash", "save", "send", "persist", "commit"}

\* The row and the attempt rely on what is there.
HeldInv ==
    /\ losses = 0 /\ row.ver = src => HeldBy(row)
    /\ losses = 0 /\ at.ver = src /\ at.pc \in Holding => HeldBy(Token(at.ver, at.pos, at.sess))
    /\ backend = "azure" /\ row.ver # 0 => Aligned(row.ver, row.done)
    /\ backend = "azure" /\ at.pc \in Holding => Aligned(at.ver, at.pos)
    /\ at.pc = "commit" => at.pos = SizeOf[at.ver]

Inv == CoreInv /\ ServerOK /\ Marked /\ HeldInv

LEMMA TokenIs ==
    ASSUME NEW v, NEW n, NEW s
    PROVE  Token(v, n, s).ver = v /\ Token(v, n, s).done = n /\ Token(v, n, s).sess = s
BY DEF Token

LEMMA WholeIs ==
    ASSUME obj \in Objects, obj.live, NEW v \in Versions, obj.is.len = SizeOf[v],
           obj.is.bytes = Prefix(v, SizeOf[v])
    PROVE  obj = Object(Whole(v))
<1>1. obj.is \in Contents BY DEF Objects
<1>2. obj.is = [len |-> obj.is.len, bytes |-> obj.is.bytes] BY <1>1 DEF Contents
<1>3. obj.is = Whole(v) BY <1>2 DEF Whole
<1>4. obj = [live |-> obj.live, is |-> obj.is] BY DEF Objects
<1> QED BY <1>3, <1>4 DEF Object, Objects

\* An object, from its contents.
LEMMA ObjectIs ==
    ASSUME NEW c \in Contents
    PROVE  Object(c) \in Objects /\ Object(c).live /\ Object(c).is = c
BY DEF Object, Objects

LEMMA ContentsIs ==
    ASSUME NEW n \in 0 .. MaxUnits, NEW b \in [Units -> 0 .. MaxVersion]
    PROVE  LET c == [len |-> n, bytes |-> b]
           IN  c \in Contents /\ c.len = n /\ c.bytes = b
BY DEF Contents

LEMMA EmptyIs ==
    /\ Empty \in Contents /\ Empty.len = 0 /\ \A v : Empty.bytes = Prefix(v, 0)
    /\ NoObject \in Objects /\ ~NoObject.live
<1>1. NoBytes \in [Units -> 0 .. MaxVersion] BY Sizes DEF NoBytes
<1>2. Empty \in Contents /\ Empty.len = 0 /\ Empty.bytes = NoBytes
  BY <1>1, Sizes DEF Empty, Contents
<1>3. \A v : NoBytes = Prefix(v, 0) BY Sizes DEF NoBytes, Prefix
<1>4. NoObject \in Objects /\ ~NoObject.live BY <1>2 DEF NoObject, Objects
<1> QED BY <1>2, <1>3, <1>4

\* The body of a request is the whole version, if that is still the source.
LEMMA BodyIs ==
    ASSUME CoreInv
    PROVE  Body \in Objects /\ (at.ver = src => Body = Object(Whole(src)))
<1>1. at.ver \in Versions /\ src \in Versions BY DEF CoreInv, AtOK, Attempts
<1>2. Size \in 0 .. MaxUnits /\ Size \in Nat BY <1>1, Sizes DEF Size
<1>3. Prefix(src, Size) \in [Units -> 0 .. MaxVersion] BY <1>1, <1>2, PrefixType
<1>4. Body \in Objects BY <1>2, <1>3, ContentsIs, ObjectIs DEF Body
<1>5. at.ver = src => Body = Object(Whole(src)) BY DEF Body, Whole, Size
<1> QED BY <1>4, <1>5

\* verify with a checksum.
LEMMA MarkedVerify ==
    ASSUME CoreInv, ServerOK, VerifyObject, at'.pc = "checkpoint", at'.ver = at.ver
    PROVE  Marked'
<1>1. UNCHANGED <<setting, src, phase, obj>> /\ at.pc = "verify"
  BY DEF VerifyObject, At, durable
<1>2. obj.live /\ Sound
  <2>1. Go("checkpoint") \/ Go("refused") \/ Go("failed") BY DEF VerifyObject
  <2>2. at \in Attempts BY DEF CoreInv, AtOK
  <2>3. ~Go("refused") /\ ~Go("failed") BY <2>2, Goes DEF Moves, Points
  <2> QED BY <2>3 DEF VerifyObject
<1>3. at.ver = src => at.hash = Prefix(src, SizeOf[src])
  BY <1>1 DEF CoreInv, AtOK, Complete
<1>4. at.ver = src /\ policy = "checksum" => obj = Object(Whole(src))
  <2> SUFFICES ASSUME at.ver = src, policy = "checksum" PROVE obj = Object(Whole(src))
    OBVIOUS
  <2>1. obj.is.len = SizeOf[src] /\ obj.is.bytes = Prefix(src, SizeOf[src])
    BY <1>2, <1>3 DEF Sound, Size
  <2> QED BY <1>2, <2>1, WholeIs DEF CoreInv, ServerOK
<1> QED BY <1>1, <1>4 DEF Marked, setting

\* Other steps either leave the object alone or are not of a verified attempt.
LEMMA MarkedKept ==
    ASSUME Marked, CoreInv, UNCHANGED <<setting, src>>, at'.ver = at.ver,
           \/ at'.pc \notin {"checkpoint", "mark"} /\ phase' # "verified"
           \/ obj' = obj /\ (at.pc \in {"checkpoint", "mark"} \/ phase = "verified")
    PROVE  Marked'
BY DEF Marked, setting

\* A step of the attempt that the server does not see.
LEMMA HeldQuiet ==
    ASSUME CoreInv, HeldInv, UNCHANGED <<setting, src, obj, gcs, http, azure>>,
           losses' = losses, at'.ver = at.ver, NEW s, backend = "gcs" => s = at.sess,
           \/ row' \in {row, NoToken}
           \/ row' = Token(at.ver, at.pos, s) /\ at.pc \in Holding,
           at'.pc \in Holding => at.pc \in Holding /\ at'.pos = at.pos /\ at'.sess = at.sess,
           at'.pc = "commit" => at'.pos = SizeOf[at'.ver]
    PROVE  HeldInv'
<1>0. /\ UNCHANGED <<backend, obj, sessions, site, staged>> BY DEF setting, gcs, http, azure
<1>1. \A tok : HeldBy(tok) => HeldBy(tok)'
  BY <1>0 DEF HeldBy, GcsHeld, HttpHeld, AzureKept
<1>2. NoToken.ver = 0 /\ src \in Nat /\ src > 0 /\ at.ver # 0
  BY Sizes, TokenIs DEF NoToken, CoreInv, AtOK, Attempts
<1>3. ASSUME losses = 0, row'.ver = src PROVE HeldBy(row)'
  <2>1. CASE row' = row
    <3>1. PICK r : r = row OBVIOUS
    <3>2. HeldBy(r)' BY <1>1, <1>3, <2>1, <3>1 DEF HeldInv
    <3> QED BY <2>1, <3>1, <3>2
  <2>2. CASE row' = Token(at.ver, at.pos, s) /\ at.pc \in Holding
    <3>1. PICK r : r = Token(at.ver, at.pos, s) OBVIOUS
    <3>2. PICK q : q = Token(at.ver, at.pos, at.sess) OBVIOUS
    <3>3. at.ver = src BY <1>3, <2>2, TokenIs
    <3>4. HeldBy(q) BY <1>3, <2>2, <3>2, <3>3 DEF HeldInv
    <3>5. r.ver = q.ver /\ r.done = q.done /\ (backend = "gcs" => r.sess = q.sess)
      BY <3>1, <3>2, TokenIs
    <3>6. HeldBy(r) BY <3>4, <3>5 DEF HeldBy, GcsHeld, HttpHeld, AzureKept
    <3>7. HeldBy(r)' BY <1>1, <3>6
    <3> QED BY <2>2, <3>1, <3>7
  <2>3. row' # NoToken BY <1>2, <1>3
  <2> QED BY <2>1, <2>2, <2>3
<1>4. ASSUME losses = 0, at.ver = src, at'.pc \in Holding
      PROVE  HeldBy(Token(at.ver, at.pos, at.sess))'
  <2>1. PICK q : q = Token(at.ver, at.pos, at.sess) OBVIOUS
  <2>2. HeldBy(q)' BY <1>1, <1>4, <2>1 DEF HeldInv
  <2>3. Token(at'.ver, at'.pos, at'.sess) = q BY <1>4, <2>1
  <2> QED BY <2>2, <2>3
<1>5. backend = "azure" /\ row'.ver # 0 => Aligned(row'.ver, row'.done)
  BY <1>2, TokenIs DEF HeldInv
<1>6. backend = "azure" /\ at'.pc \in Holding => Aligned(at'.ver, at'.pos)
  BY DEF HeldInv
<1> QED BY <1>0, <1>3, <1>4, <1>5, <1>6 DEF HeldInv, Aligned

-----------------------------------------------------------------------------
(* What a request does at the server. *)

\* What the row says of the newest version stays true.
Keeps == \A tok \in Rows : tok = row /\ tok.ver = src /\ HeldBy(tok) => HeldBy(tok)'

\* The token that the attempt's next state stands for is true there.
Gains == \E tok \in Rows : tok = Token(at'.ver, at'.pos, at'.sess) /\ HeldBy(tok)'

LEMMA Known ==
    ASSUME CoreInv
    PROVE  /\ at \in Attempts /\ at.ver \in Versions /\ at.ver \in Nat /\ src \in Versions
           /\ src \in Nat /\ src > 0 /\ at.ver <= src /\ row.ver <= at.ver /\ row.ver \in Nat
           /\ at.pos \in 0 .. MaxUnits /\ at.pos \in Nat /\ at.sess \in 0 .. 3
           /\ at.pos <= SizeOf[at.ver] /\ Size = SizeOf[at.ver]
           /\ Size \in 0 .. MaxUnits /\ Size \in Nat /\ row \in Rows
           /\ row.ver = src => at.ver = src
<1>1. /\ at \in Attempts /\ at.ver \in Versions /\ src \in Versions /\ row \in Rows
      /\ at.ver <= src /\ row.ver <= at.ver
      /\ at.pos \in 0 .. MaxUnits /\ at.sess \in 0 .. 3 /\ at.pos <= SizeOf[at.ver]
  BY DEF CoreInv, AtOK, RowOK, Attempts
<1>2. row.ver \in Nat BY <1>1, Sizes DEF Rows
<1>3. at.ver \in Nat /\ src \in Nat /\ src > 0 /\ SizeOf[at.ver] \in 0 .. MaxUnits
      /\ SizeOf[at.ver] \in Nat /\ at.pos \in Nat
  BY <1>1, Sizes
<1> QED BY <1>1, <1>2, <1>3 DEF Size

LEMMA TokenRow ==
    ASSUME NEW v \in Versions, NEW n \in 0 .. MaxUnits, NEW s \in 0 .. 3
    PROVE  Token(v, n, s) \in Rows
BY Sizes DEF Token, Rows

\* What remains to be shown of a step with an effect.
LEMMA HeldKept ==
    ASSUME CoreInv, HeldInv, UNCHANGED <<setting, src, row>>, at'.ver = at.ver,
           losses' = losses \/ losses' # 0,
           losses = 0 /\ losses' = 0 /\ at.ver = src => Keeps,
           at'.pc \in Holding /\ losses = 0 /\ losses' = 0 /\ at.ver = src => Gains,
           at'.pc \in Holding /\ backend = "azure" => Aligned(at'.ver, at'.pos),
           at'.pc = "commit" => at'.pos = SizeOf[at'.ver]
    PROVE  HeldInv'
<1>1. ASSUME losses' = 0, row.ver = src PROVE HeldBy(row)'
  <2>1. PICK r \in Rows : r = row BY Known
  <2>2. HeldBy(r) /\ losses = 0 BY <1>1, <2>1 DEF HeldInv
  <2>3. at.ver = src BY <1>1, Known
  <2>4. HeldBy(r)' BY <1>1, <2>1, <2>2, <2>3 DEF Keeps
  <2> QED BY <2>1, <2>4
<1>2. ASSUME losses' = 0, at.ver = src, at'.pc \in Holding
      PROVE  HeldBy(Token(at.ver, at.pos, at.sess))'
  BY <1>2 DEF Gains
<1>3. UNCHANGED backend BY DEF setting
<1> QED BY <1>1, <1>2, <1>3 DEF HeldInv, Aligned

\* The last moment of an attempt, and its failure.
LEMMA HeldEnds ==
    ASSUME CoreInv, HeldInv, UNCHANGED <<setting, src, row>>, at'.ver = at.ver,
           losses' = losses \/ losses' # 0, at'.pc \notin Holding,
           losses = 0 /\ losses' = 0 /\ at.ver = src => Keeps
    PROVE  HeldInv'
<1>1. at'.pc # "commit" BY DEF Holding
<1> QED BY <1>1, HeldKept

LEMMA KeepsQuiet ==
    ASSUME UNCHANGED <<setting, obj, gcs, http, azure>>
    PROVE  Keeps
<1>1. UNCHANGED <<backend, obj, sessions, site, staged>> BY DEF setting, gcs, http, azure
<1> QED BY <1>1 DEF Keeps, HeldBy, GcsHeld, HttpHeld, AzureKept

\* A whole body, of the version that a token is about.
LEMMA WholeHolds ==
    ASSUME CoreInv
    PROVE  LET w == Object(Whole(src))
           IN  /\ w \in Objects /\ w.live /\ w.is.len = SizeOf[src]
               /\ w.is.bytes = Prefix(src, SizeOf[src])
<1>1. SizeOf[src] \in 0 .. MaxUnits /\ SizeOf[src] \in Nat BY Known, Sizes
<1>2. Prefix(src, SizeOf[src]) \in [Units -> 0 .. MaxVersion] BY <1>1, Known, PrefixType
<1>3. Whole(src) \in Contents /\ Whole(src).len = SizeOf[src]
      /\ Whole(src).bytes = Prefix(src, SizeOf[src])
  BY <1>1, <1>2, ContentsIs DEF Whole
<1> QED BY <1>3, ObjectIs

-----------------------------------------------------------------------------
(* GCS. *)

\* A session's number, and the contents the session has.
LEMMA SessionIs ==
    ASSUME CoreInv, ServerOK, NEW s \in Sessions
    PROVE  /\ sessions[s].st \in {"none", "open", "done", "gone"}
           /\ sessions[s].is \in Contents /\ sessions[s].is.len \in 0 .. MaxUnits
           /\ sessions[s].is.len \in Nat
           /\ sessions[s].is.bytes \in [Units -> 0 .. MaxVersion]
<1>1. sessions[s] \in [st : {"none", "open", "done", "gone"}, is : Contents]
  BY DEF ServerOK, GcsTypeOK
<1>2. sessions[s].st \in {"none", "open", "done", "gone"} /\ sessions[s].is \in Contents
  BY <1>1
<1>3. sessions[s].is.len \in 0 .. MaxUnits /\ sessions[s].is.bytes \in [Units -> 0 .. MaxVersion]
  BY <1>2 DEF Contents
<1> QED BY <1>2, <1>3, Sizes

\* One session changes.
LEMMA SessionSet ==
    ASSUME CoreInv, ServerOK, NEW s \in Sessions, NEW t \in {"none", "open", "done", "gone"},
           NEW c \in Contents, sessions' = [sessions EXCEPT ![s] = [st |-> t, is |-> c]]
    PROVE  /\ GcsTypeOK' /\ sessions'[s].st = t /\ sessions'[s].is = c
           /\ \A r \in Sessions : r # s => sessions'[r] = sessions[r]
<1> DEFINE S == [st : {"none", "open", "done", "gone"}, is : Contents]
           e == [st |-> t, is |-> c]
<1>1. e \in S /\ e.st = t /\ e.is = c OBVIOUS
<1>2. sessions \in [Sessions -> S] BY DEF ServerOK, GcsTypeOK
<1> HIDE DEF S, e
<1>3. sessions' = [sessions EXCEPT ![s] = e] BY DEF e
<1>4. sessions' \in [Sessions -> S] /\ sessions'[s] = e
      /\ \A r \in Sessions : r # s => sessions'[r] = sessions[r]
  BY <1>2, <1>3, <1>1
<1>5. GcsTypeOK' BY <1>4 DEF GcsTypeOK, S
<1> QED BY <1>1, <1>4, <1>5

\* A chunk is taken.
LEMMA TakenIs ==
    ASSUME CoreInv, ServerOK, at.sess \in Sessions, NEW m \in 0 .. MaxUnits, Fits,
           Taken(at.sess, m)
    PROVE  LET s == at.sess
               c == sessions[s].is
               n == IF m > c.len THEN m ELSE c.len
               d == [len |-> n, bytes |-> Spliced(c.bytes, c.len, n, src)]
           IN  /\ GcsTypeOK' /\ obj' \in Objects /\ d.len = n /\ d \in Contents
               /\ d.bytes = Spliced(c.bytes, c.len, n, src)
               /\ sessions'[s].is = d
               /\ \A r \in Sessions : r # s => sessions'[r] = sessions[r]
               /\ n = Size => sessions'[s].st = "done" /\ obj' = Object(d)
               /\ n # Size => sessions'[s].st = "open" /\ obj' = obj
<1> DEFINE s == at.sess
           c == sessions[s].is
           n == IF m > c.len THEN m ELSE c.len
           b == Spliced(c.bytes, c.len, n, src)
           d == [len |-> n, bytes |-> b]
<1>1. c.len \in 0 .. MaxUnits /\ c.bytes \in [Units -> 0 .. MaxVersion]
  BY SessionIs
<1>2. n \in 0 .. MaxUnits BY <1>1
<1>3. b \in [Units -> 0 .. MaxVersion] BY <1>1, Known, Sizes DEF Spliced
<1>4. sessions[s].st = "open" BY DEF Fits
<1>5. sessions[s] \in [st : {"none", "open", "done", "gone"}, is : Contents]
  BY DEF ServerOK, GcsTypeOK
<1>6. /\ n = Size => /\ sessions' = [sessions EXCEPT ![s] = [st |-> "done", is |-> d]]
                     /\ obj' = Object(d)
      /\ n # Size => sessions' = [sessions EXCEPT ![s].is = d] /\ obj' = obj
  BY DEF Taken
<1> HIDE DEF b, n
<1>7. d \in Contents /\ d.len = n /\ d.bytes = b BY <1>2, <1>3, ContentsIs
<1> HIDE DEF d
<1>8. [sessions EXCEPT ![s].is = d] = [sessions EXCEPT ![s] = [st |-> "open", is |-> d]]
  <2>1. [sessions[s] EXCEPT !.is = d] = [st |-> "open", is |-> d] BY <1>4, <1>5
  <2> QED BY <2>1
<1>9. n = Size => /\ GcsTypeOK' /\ sessions'[s].st = "done" /\ sessions'[s].is = d
                  /\ \A r \in Sessions : r # s => sessions'[r] = sessions[r]
  BY <1>6, <1>7, SessionSet
<1>10. n # Size => /\ GcsTypeOK' /\ sessions'[s].st = "open" /\ sessions'[s].is = d
                   /\ \A r \in Sessions : r # s => sessions'[r] = sessions[r]
  BY <1>6, <1>7, <1>8, SessionSet
<1>11. obj' \in Objects BY <1>6, <1>7, ObjectIs DEF ServerOK
<1> QED BY <1>6, <1>7, <1>9, <1>10, <1>11 DEF n, d, b

\* Of the newest version the session then has a longer prefix, or all of it.
LEMMA TakenKeeps ==
    ASSUME CoreInv, ServerOK, HeldInv, at.sess \in Sessions, NEW m \in 0 .. MaxUnits, Fits,
           Taken(at.sess, m), backend = "gcs", UNCHANGED <<setting, src>>,
           losses = 0, at.ver = src, at.pc \in Holding
    PROVE  /\ Keeps
           /\ \A tok \in Rows : /\ tok.ver = src /\ tok.sess = at.sess /\ tok.done <= m
                                => HeldBy(tok)'
<1> DEFINE s == at.sess
           c == sessions[s].is
           n == IF m > c.len THEN m ELSE c.len
           d == [len |-> n, bytes |-> Spliced(c.bytes, c.len, n, src)]
<1>1. /\ d.len = n /\ d.bytes = Spliced(c.bytes, c.len, n, src) /\ sessions'[s].is = d
      /\ \A r \in Sessions : r # s => sessions'[r] = sessions[r]
      /\ n = Size => sessions'[s].st = "done" /\ obj' = Object(d)
      /\ n # Size => sessions'[s].st = "open" /\ obj' = obj
      /\ obj' \in Objects
  BY TakenIs
<1>2. c.len \in Nat /\ m \in Nat /\ c.bytes \in [Units -> 0 .. MaxVersion]
  BY SessionIs, Sizes
<1>3. c.bytes = Prefix(src, c.len)
  <2>1. HeldBy(Token(at.ver, at.pos, at.sess)) BY DEF HeldInv
  <2>2. GcsHeld(Token(at.ver, at.pos, at.sess)) BY <2>1 DEF HeldBy
  <2> QED BY <2>2, TokenIs DEF GcsHeld, Fits
<1>4. d.bytes = Prefix(src, n) BY <1>1, <1>2, <1>3, Sizes DEF Spliced, Prefix
<1>5. n = Size => obj' = Object(Whole(src))
  BY <1>1, <1>4, Known DEF Whole
<1>6. n \in Nat /\ m <= n /\ c.len <= n BY <1>2
<1> HIDE DEF n, c, d
<1>7. \A tok \in Rows : tok.ver = src /\ tok.sess = s /\ tok.done <= n => GcsHeld(tok)'
  <2> SUFFICES ASSUME NEW tok \in Rows, tok.ver = src, tok.sess = s, tok.done <= n
               PROVE  GcsHeld(tok)'
    OBVIOUS
  <2>1. s # 0 BY DEF Sessions
  <2> QED BY <1>1, <1>4, <1>5, <2>1 DEF GcsHeld
<1>8. UNCHANGED backend BY DEF setting
<1>9. Keeps
  <2> SUFFICES ASSUME NEW tok \in Rows, tok.ver = src, HeldBy(tok) PROVE HeldBy(tok)'
    BY DEF Keeps
  <2>1. GcsHeld(tok) BY DEF HeldBy
  <2>2. tok.done \in Nat /\ tok.sess \in Sessions BY <2>1, Sizes DEF GcsHeld, Rows, Sessions
  <2>3. CASE tok.sess = s
    <3>1. tok.done <= c.len BY <2>1, <2>3 DEF GcsHeld, Fits, c
    <3>2. tok.done <= n BY <1>2, <1>6, <2>2, <3>1
    <3>3. GcsHeld(tok)' BY <1>7, <2>3, <3>2
    <3> QED BY <1>8, <3>3 DEF HeldBy
  <2>4. CASE tok.sess # s
    <3>1. sessions'[tok.sess] = sessions[tok.sess] BY <1>1, <2>2, <2>4
    <3>2. obj' = obj \/ obj' = Object(Whole(src)) BY <1>1, <1>5
    <3>3. GcsHeld(tok)' BY <2>1, <3>1, <3>2 DEF GcsHeld
    <3> QED BY <1>8, <3>3 DEF HeldBy
  <2> QED BY <2>3, <2>4
<1>10. \A tok \in Rows : tok.ver = src /\ tok.sess = at.sess /\ tok.done <= m => HeldBy(tok)'
  <2> SUFFICES ASSUME NEW tok \in Rows, tok.ver = src, tok.sess = at.sess, tok.done <= m
               PROVE  HeldBy(tok)'
    OBVIOUS
  <2>1. tok.done \in Nat BY Sizes DEF Rows
  <2>2. tok.done <= n BY <1>2, <1>6, <2>1
  <2>3. GcsHeld(tok)' BY <1>7, <2>2
  <2> QED BY <1>8, <2>3 DEF HeldBy
<1> QED BY <1>9, <1>10

\* A session is opened that no token names.
LEMMA OpenedKeeps ==
    ASSUME CoreInv, ServerOK, NEW s \in Sessions, Opened(s), UNCHANGED <<setting, src, obj>>,
           backend = "gcs"
    PROVE  /\ GcsTypeOK'
           /\ \A tok \in Rows : tok.sess # s /\ HeldBy(tok) => HeldBy(tok)'
           /\ \A tok \in Rows : tok.sess = s /\ tok.done = 0 => HeldBy(tok)'
<1>1. Empty \in Contents /\ Empty.len = 0 /\ \A v : Empty.bytes = Prefix(v, 0) BY EmptyIs
<1> HIDE DEF Empty
<1>2. sessions' = [sessions EXCEPT ![s] = [st |-> "open", is |-> Empty]] BY DEF Opened
<1>3. /\ GcsTypeOK' /\ sessions'[s].st = "open" /\ sessions'[s].is = Empty
      /\ \A r \in Sessions : r # s => sessions'[r] = sessions[r]
  BY <1>1, <1>2, SessionSet
<1>4. UNCHANGED backend BY DEF setting
<1>5. ASSUME NEW tok \in Rows, tok.sess # s, HeldBy(tok) PROVE HeldBy(tok)'
  <2>1. GcsHeld(tok) BY <1>5 DEF HeldBy
  <2>2. tok.sess \in Sessions BY <2>1 DEF GcsHeld, Rows, Sessions
  <2>3. GcsHeld(tok)' BY <1>3, <1>5, <2>1, <2>2 DEF GcsHeld
  <2> QED BY <1>4, <2>3 DEF HeldBy
<1>6. ASSUME NEW tok \in Rows, tok.sess = s, tok.done = 0 PROVE HeldBy(tok)'
  <2>1. s # 0 BY DEF Sessions
  <2>2. GcsHeld(tok)' BY <1>1, <1>3, <1>6, <2>1 DEF GcsHeld
  <2> QED BY <1>4, <2>2 DEF HeldBy
<1> QED BY <1>3, <1>5, <1>6

-----------------------------------------------------------------------------
(* Steps that the server does not see, whatever it is. *)

LEMMA ServerKept ==
    ASSUME ServerOK, UNCHANGED <<obj, gcs, http, azure>>
    PROVE  ServerOK'
BY DEF ServerOK, gcs, http, azure, GcsTypeOK, HttpTypeOK, AzureTypeOK

LEMMA QuietInv ==
    ASSUME Inv, CoreInv', UNCHANGED <<setting, src, obj, gcs, http, azure>>, losses' = losses,
           at'.ver = at.ver, row' \in {row, NoToken},
           at'.pc \in Holding => at.pc \in Holding /\ at'.pos = at.pos /\ at'.sess = at.sess,
           at'.pc = "commit" => at'.pos = SizeOf[at'.ver],
           at'.pc \in {"checkpoint", "mark"} \/ phase' = "verified"
             => at.pc \in {"checkpoint", "mark"} \/ phase = "verified"
    PROVE  Inv'
<1>1. HeldInv' BY HeldQuiet DEF Inv
<1>2. Marked' BY MarkedKept DEF Inv
<1>3. ServerOK' BY ServerKept DEF Inv
<1> QED BY <1>1, <1>2, <1>3 DEF Inv

\* The same for a move to a point that neither relies on the server nor was
\* reached by verify.
LEMMA MoveInv ==
    ASSUME Inv, CoreInv', UNCHANGED <<setting, src, obj, gcs, http, azure>>, losses' = losses,
           row' \in {row, NoToken}, NEW p, p \notin Holding \cup {"checkpoint", "mark"}, Moves(p),
           phase' # "verified"
    PROVE  Inv'
<1>1. at'.pc = p /\ at'.ver = at.ver BY DEF Moves
<1>2. p # "commit" /\ p # "checkpoint" /\ p # "mark" /\ p \notin Holding BY DEF Holding
<1> QED BY <1>1, <1>2, QuietInv

LEMMA Unverified ==
    ASSUME CoreInv, at.pc # "idle" PROVE phase # "verified"
BY DEF CoreInv

LEMMA SaveRowInv ==
    ASSUME Inv, NEW s \in 0 .. 3, backend = "gcs" => s = at.sess,
           SaveRow(Token(at.ver, at.pos, s)), UNCHANGED <<gcs, http, azure>>
    PROVE  Inv'
<1>1. Moves("send") /\ CoreInv' /\ losses' = losses /\ row' \in {row, Token(at.ver, at.pos, s)}
  BY SaveRowCore DEF Inv
<1>2. UNCHANGED <<setting, src, obj, phase>> /\ at.pc \in {"save", "persist"} BY DEF SaveRow
<1>3. at'.pc = "send" /\ at'.ver = at.ver /\ at'.pos = at.pos /\ at'.sess = at.sess
  BY <1>1 DEF Moves
<1>4. at.pc \in Holding BY <1>2 DEF Holding
<1>5. HeldInv' BY <1>1, <1>2, <1>3, <1>4, HeldQuiet DEF Inv
<1>6. Marked' BY <1>2, <1>3, MarkedKept, Unverified DEF Inv
<1>7. ServerOK' BY <1>2, ServerKept DEF Inv
<1> QED BY <1>1, <1>5, <1>6, <1>7 DEF Inv

LEMMA SentInv ==
    ASSUME Inv, NEW p \in {"clear", "commit"}, AllSent(p), UNCHANGED <<gcs, http, azure>>
    PROVE  Inv'
<1>1. Moves(p) /\ CoreInv' BY SentCore DEF Inv
<1>2. /\ UNCHANGED <<setting, src, obj, row, phase, bounds>> /\ at.pc = "send" /\ at.pos = Size
  BY DEF AllSent, At, durable
<1>3. losses' = losses BY <1>2 DEF bounds
<1>4. at'.pc = p /\ at'.ver = at.ver /\ at'.pos = at.pos /\ at'.sess = at.sess
  BY <1>1 DEF Moves
<1>5. at.pc \in Holding BY <1>2 DEF Holding
<1>6. at'.pos = SizeOf[at'.ver] BY <1>2, <1>4 DEF Size
<1> QED BY <1>1, <1>2, <1>3, <1>4, <1>5, <1>6, QuietInv, Unverified DEF Inv

LEMMA RefusedInv ==
    ASSUME Inv, NEW points, "idle" \notin points, Refused(points), UNCHANGED <<gcs, http, azure>>
    PROVE  Inv'
<1>1. CoreInv' /\ losses' = losses /\ \E p \in Outcomes : Moves(p) BY RefusedCore DEF Inv
<1>2. UNCHANGED <<setting, src, obj, row, phase>> /\ at.pc # "idle" BY DEF Refused, durable
<1>3. \A p \in Outcomes : p \notin Holding \cup {"checkpoint", "mark"} BY DEF Outcomes, Holding
<1> QED BY <1>1, <1>2, <1>3, MoveInv, Unverified DEF Inv

LEMMA VerifyInv ==
    ASSUME Inv, VerifyObject, UNCHANGED <<gcs, http, azure>>
    PROVE  Inv'
<1>1. CoreInv' /\ \E p \in {"refused", "checkpoint", "failed"} : Moves(p) BY VerifyCore DEF Inv
<1>2. UNCHANGED <<setting, src, obj, row, phase, losses>> /\ at.pc # "idle"
  BY DEF VerifyObject, At, durable, bounds
<1>3. CASE Moves("refused") \/ Moves("failed")
  BY <1>1, <1>2, <1>3, MoveInv, Unverified DEF Inv, Holding
<1>4. CASE Moves("checkpoint")
  <2>1. at'.pc = "checkpoint" /\ at'.ver = at.ver BY <1>4 DEF Moves
  <2>2. Marked' BY <2>1, MarkedVerify DEF Inv
  <2>3. HeldInv' BY <1>2, <2>1, HeldQuiet DEF Inv, Holding
  <2>4. ServerOK' BY <1>2, ServerKept DEF Inv
  <2> QED BY <1>1, <2>2, <2>3, <2>4 DEF Inv
<1> QED BY <1>1, <1>3, <1>4

\* An attempt that starts at a checkpoint, or at nothing, has what it needs.
LEMMA StartInv ==
    ASSUME Inv, NEW p \in {"put", "init", "head", "hash"}, NEW n \in 0 .. MaxUnits,
           NEW s \in 0 .. 3, NEW r \in BOOLEAN,
           n <= SizeOf[src], backend = "gcs" /\ p = "hash" => s # 0, Start(p, n, s, r),
           UNCHANGED <<gcs, http, azure>>,
           p \in {"head", "hash"} =>
             \/ n = 0 /\ backend # "gcs"
             \/ row.ver = src /\ n = row.done /\ (backend = "gcs" => s = row.sess)
    PROVE  Inv'
<1>1. /\ CoreInv' /\ at'.pc = p /\ at'.ver = src /\ at'.pos = n /\ at'.sess = s
      /\ UNCHANGED <<setting, src, durable, obj, bounds>> /\ phase = "pending"
  BY StartCore DEF Inv
<1>2. /\ UNCHANGED <<backend, obj, sessions, site, staged, row, losses, phase>>
  BY <1>1 DEF setting, gcs, http, azure, durable, bounds
<1>3. \A tok : HeldBy(tok) => HeldBy(tok)'
  BY <1>2 DEF HeldBy, GcsHeld, HttpHeld, AzureKept
<1>4. ASSUME losses = 0, p \in {"head", "hash"} PROVE HeldBy(Token(at.ver, at.pos, at.sess))'
  <2>1. PICK q : q = Token(src, n, s) OBVIOUS
  <2>2. q.ver = src /\ q.done = n /\ q.sess = s BY <2>1, TokenIs
  <2>3. HeldBy(q)
    <3>1. CASE n = 0 /\ backend # "gcs"
      <4>1. \A u \in Units : ~(u <= n) BY <3>1, Sizes
      <4> QED BY <2>2, <3>1, <4>1 DEF HeldBy, HttpHeld, AzureKept
    <3>2. CASE row.ver = src /\ n = row.done /\ (backend = "gcs" => s = row.sess)
      <4>1. HeldBy(row) BY <1>4, <3>2 DEF Inv, HeldInv
      <4> QED BY <2>2, <3>2, <4>1 DEF HeldBy, GcsHeld, HttpHeld, AzureKept
    <3> QED BY <1>4, <3>1, <3>2
  <2>4. HeldBy(q)' BY <1>3, <2>3
  <2> QED BY <1>1, <2>1, <2>4
<1>5. ASSUME losses = 0, row.ver = src PROVE HeldBy(row)'
  <2>1. PICK q : q = row OBVIOUS
  <2>2. HeldBy(q)' BY <1>3, <1>5, <2>1 DEF Inv, HeldInv
  <2> QED BY <1>2, <2>1, <2>2
<1>6. backend = "azure" /\ p \in {"head", "hash"} => Aligned(src, n)
  <2>1. n = 0 => Aligned(src, n)
    <3>1. 0 = 0 * Chunk /\ 0 \in Nat BY Sizes
    <3> QED BY <3>1 DEF Aligned
  <2> QED BY <2>1, Known DEF Inv, HeldInv
<1>7. HeldInv'
  <2>1. p \in Holding => p \in {"head", "hash"} BY DEF Holding
  <2>2. p # "commit" OBVIOUS
  <2>3. backend = "azure" /\ row.ver # 0 => Aligned(row.ver, row.done) BY DEF Inv, HeldInv
  <2> QED BY <1>1, <1>2, <1>4, <1>5, <1>6, <2>1, <2>2, <2>3 DEF HeldInv, Aligned
<1>8. Marked' BY <1>1, <1>2 DEF Marked
<1>9. ServerOK' BY <1>1, ServerKept DEF Inv
<1> QED BY <1>1, <1>7, <1>8, <1>9 DEF Inv

-----------------------------------------------------------------------------
(* GCS, step by step. *)

LEMMA GcsServer ==
    ASSUME ServerOK, obj' \in Objects, GcsTypeOK', UNCHANGED <<http, azure>>
    PROVE  ServerOK'
BY DEF ServerOK, http, azure, HttpTypeOK, AzureTypeOK

\* Where a chunk is sent from.
LEMMA SendingIs ==
    ASSUME CoreInv, backend = "gcs", Sending
    PROVE  /\ at.pc = "send" /\ at.pc \in Holding /\ at.pos < Size /\ at.sess \in Sessions
           /\ PieceEnd \in 0 .. MaxUnits
<1>1. at.pc = "send" /\ at.pos < Size BY DEF Sending, At
<1>2. at.sess # 0 BY <1>1 DEF CoreInv, AtOK, Piecewise
<1>3. at.sess \in Sessions BY <1>2, Known DEF Sessions
<1>4. PieceEnd \in 0 .. MaxUnits BY <1>1, PieceIs DEF CoreInv
<1> QED BY <1>1, <1>3, <1>4 DEF Holding

LEMMA GcsEffectOK ==
    ASSUME Inv, backend = "gcs", GcsEffect, UNCHANGED <<setting, src, row, http, azure>>
    PROVE  ServerOK' /\ (losses = 0 /\ at.ver = src => Keeps)
<1>0. CoreInv /\ ServerOK /\ HeldInv /\ UNCHANGED backend BY DEF Inv, setting
<1>1. CASE UNCHANGED <<obj, gcs>>
  BY <1>0, <1>1, ServerKept, KeepsQuiet
<1>2. CASE obj' = Body /\ UNCHANGED gcs
  <2>1. GcsTypeOK' BY <1>0, <1>2 DEF ServerOK, GcsTypeOK, gcs
  <2>2. ServerOK' BY <1>0, <1>2, <2>1, BodyIs, GcsServer
  <2>3. ASSUME at.ver = src PROVE Keeps
    <3>1. obj' = Object(Whole(src)) BY <1>0, <1>2, <2>3, BodyIs
    <3>2. sessions' = sessions BY <1>2 DEF gcs
    <3> QED BY <1>0, <3>1, <3>2 DEF Keeps, HeldBy, GcsHeld
  <2> QED BY <2>2, <2>3
<1>3. CASE (\E s \in Sessions : Opened(s)) /\ UNCHANGED obj
  <2>1. PICK s \in Sessions : Opened(s) BY <1>3
  <2>2. s # row.sess BY <2>1 DEF Opened
  <2>3. GcsTypeOK' /\ \A tok \in Rows : tok.sess # s /\ HeldBy(tok) => HeldBy(tok)'
    BY <1>0, <1>3, <2>1, OpenedKeeps
  <2>4. Keeps BY <2>2, <2>3 DEF Keeps
  <2>5. ServerOK' BY <1>0, <1>3, <2>3, GcsServer DEF ServerOK
  <2> QED BY <2>4, <2>5
<1>4. CASE Sending /\ Fits /\ Taken(at.sess, PieceEnd)
  <2>1. at.pc \in Holding /\ at.sess \in Sessions /\ PieceEnd \in 0 .. MaxUnits
    BY <1>0, <1>4, SendingIs
  <2>2. obj' \in Objects /\ GcsTypeOK' BY <1>0, <1>4, <2>1, TakenIs
  <2>3. losses = 0 /\ at.ver = src => Keeps BY <1>0, <1>4, <2>1, TakenKeeps
  <2> QED BY <1>0, <2>2, <2>3, GcsServer
<1> QED BY <1>1, <1>2, <1>3, <1>4 DEF GcsEffect

\* A request whose answer does not come, or whose attempt is cut short.
LEMMA UnansweredInv ==
    ASSUME Inv, ServerOK', losses = 0 /\ at.ver = src => Keeps,
           (Lost /\ at.pc # "idle") \/ Cut
    PROVE  Inv'
<1>0. CoreInv /\ HeldInv /\ Marked BY DEF Inv
<1>1. /\ CoreInv' /\ losses' = losses /\ at'.ver = at.ver /\ at'.pc \in {"failed", "idle"}
      /\ phase' # "verified" /\ UNCHANGED <<setting, src, row>>
  <2>1. CASE Lost /\ at.pc # "idle"
    <3>1. CoreInv' /\ Moves("failed") /\ losses' = losses BY <1>0, <2>1, LostCore
    <3>2. UNCHANGED <<setting, src, row, phase>> BY <2>1 DEF Lost, durable
    <3> QED BY <1>0, <2>1, <3>1, <3>2, Unverified DEF Moves
  <2>2. CASE Cut BY <1>0, <2>2, CutCore DEF Cut
  <2> QED BY <2>1, <2>2
<1>2. at'.pc \notin Holding /\ at'.pc \notin {"checkpoint", "mark"} BY <1>1 DEF Holding
<1>3. HeldInv' BY <1>0, <1>1, <1>2, HeldEnds
<1>4. Marked' BY <1>0, <1>1, <1>2, MarkedKept
<1> QED BY <1>1, <1>3, <1>4 DEF Inv

\* A piece is accepted.
LEMMA PieceInv ==
    ASSUME Inv, ServerOK', At("send"), at.pos < Size, PieceSent,
           UNCHANGED <<setting, src, durable>>, BoundsOK, losses' = losses \/ losses' # 0,
           losses = 0 /\ losses' = 0 /\ at.ver = src =>
             /\ Keeps
             /\ \A tok \in Rows : /\ tok.ver = src /\ tok.sess = at.sess /\ tok.done = PieceEnd
                                  => HeldBy(tok)',
           backend = "azure" => Aligned(at.ver, PieceEnd)
    PROVE  Inv'
<1>0. CoreInv /\ HeldInv /\ Marked BY DEF Inv
<1>1. /\ CoreInv' /\ at'.pc = "persist" /\ at'.ver = at.ver /\ at'.pos = PieceEnd
      /\ at'.sess = at.sess
  BY <1>0, PieceCore
<1>2. ASSUME losses = 0, losses' = 0, at.ver = src PROVE Gains
  <2>1. PICK tok : tok = Token(at'.ver, at'.pos, at'.sess) OBVIOUS
  <2>2. tok.ver = at.ver /\ tok.done = PieceEnd /\ tok.sess = at.sess BY <1>1, <2>1, TokenIs
  <2>3. PieceEnd \in 0 .. MaxUnits BY <1>0, PieceIs DEF CoreInv
  <2>4. tok \in Rows BY <1>0, <1>1, <2>1, <2>3, Known, TokenRow
  <2>5. HeldBy(tok)' BY <1>2, <2>2, <2>4
  <2> QED BY <2>1, <2>4, <2>5 DEF Gains
<1>3. HeldInv' BY <1>0, <1>1, <1>2, HeldKept DEF durable
<1>4. Marked'
  <2>1. phase' # "verified" BY <1>0, Unverified DEF At, durable
  <2> QED BY <1>0, <1>1, <2>1, MarkedKept
<1> QED BY <1>1, <1>3, <1>4 DEF Inv

\* A whole body is accepted.
LEMMA PutInv ==
    ASSUME Inv, ServerOK', At("put"), BodySent, UNCHANGED <<setting, src, durable, bounds>>,
           losses = 0 /\ at.ver = src => Keeps
    PROVE  Inv'
<1>0. CoreInv /\ HeldInv /\ Marked BY DEF Inv
<1>1. CoreInv' /\ at'.pc = "clear" /\ at'.ver = at.ver BY <1>0, BodyCore
<1>2. losses' = losses /\ row' = row /\ phase' # "verified"
  BY <1>0, Unverified DEF bounds, durable, At
<1>3. at'.pc \notin Holding /\ at'.pc \notin {"checkpoint", "mark"} BY <1>1 DEF Holding
<1>4. HeldInv' BY <1>0, <1>1, <1>2, <1>3, HeldEnds
<1>5. Marked' BY <1>0, <1>1, <1>2, <1>3, MarkedKept
<1> QED BY <1>1, <1>4, <1>5 DEF Inv

\* init_session: the attempt goes on with an empty session.
LEMMA InitSessionInv ==
    ASSUME Inv, backend = "gcs", InitSession, UNCHANGED <<http, azure>>
    PROVE  Inv'
<1>0. CoreInv /\ ServerOK /\ HeldInv /\ Marked BY DEF Inv
<1>1. /\ at.pc = "init" /\ UNCHANGED <<setting, src, durable, obj, bounds>>
  BY DEF InitSession, At
<1>2. UNCHANGED <<backend, row, phase, tries, losses>> BY <1>1 DEF setting, durable, bounds
<1>3. PICK s \in Sessions : Opened(s) /\ at' = [at EXCEPT !.pc = "hash", !.pos = 0, !.sess = s]
  BY DEF InitSession
<1>4. /\ at' \in Attempts /\ at'.pc = "hash" /\ at'.ver = at.ver /\ at'.pos = 0 /\ at'.sess = s
  <2>1. "hash" \in Points /\ s \in 0 .. 3 BY DEF Points, Sessions
  <2> QED BY <1>0, <1>3, <2>1, Known, Sizes DEF Attempts
<1>5. AtOK(at)'
  <2>1. s # 0 BY DEF Sessions
  <2> QED BY <1>0, <1>1, <1>4, <2>1, Known, Sizes DEF AtOK, Sent, Complete, Size
<1>6. CoreInv'
  <2>1. RowOK(row, at)' BY <1>0, <1>1, <1>2, <1>4, RowKept
  <2>2. phase # "verified" BY <1>0, <1>1, Unverified
  <2> QED BY <1>0, <1>1, <1>2, <1>5, <2>1, <2>2, BoundsAre, CoreFrom DEF CoreInv
<1>7. /\ GcsTypeOK'
      /\ \A tok \in Rows : tok.sess # s /\ HeldBy(tok) => HeldBy(tok)'
      /\ \A tok \in Rows : tok.sess = s /\ tok.done = 0 => HeldBy(tok)'
  BY <1>0, <1>1, <1>3, OpenedKeeps
<1>8. Keeps BY <1>3, <1>7 DEF Keeps, Opened
<1>9. Gains
  <2>1. PICK tok : tok = Token(at'.ver, at'.pos, at'.sess) OBVIOUS
  <2>2. tok.done = 0 /\ tok.sess = s BY <1>4, <2>1, TokenIs
  <2>3. tok \in Rows
    <3>1. s \in 0 .. 3 BY DEF Sessions
    <3> QED BY <1>0, <1>4, <2>1, <3>1, Known, Sizes, TokenRow
  <2> QED BY <1>7, <2>1, <2>2, <2>3 DEF Gains
<1>10. HeldInv' BY <1>0, <1>1, <1>2, <1>4, <1>8, <1>9, HeldKept
<1>11. Marked' BY <1>0, <1>1, <1>2, <1>4, MarkedKept, Unverified
<1>12. ServerOK' BY <1>0, <1>1, <1>7, GcsServer DEF ServerOK
<1> QED BY <1>6, <1>10, <1>11, <1>12 DEF Inv

\* A dead session is forgotten.
LEMMA GcsForgetInv ==
    ASSUME Inv, backend = "gcs", GcsForget, UNCHANGED <<http, azure>>
    PROVE  Inv'
<1>0. CoreInv BY DEF Inv
<1>1. /\ at.pc = "forget" /\ Save(NoToken)
      /\ UNCHANGED <<setting, src, phase, tries, obj, gcs>>
      /\ at' = [at EXCEPT !.pc = "init", !.resuming = FALSE, !.hash = NoBytes]
  BY DEF GcsForget, At
<1>2. BoundsOK /\ row' \in {row, NoToken} /\ losses' = losses BY <1>0, <1>1, BoundsAre
<1>3. /\ at' \in Attempts /\ at'.pc = "init" /\ at'.ver = at.ver /\ at'.pos = at.pos
  <2>1. "init" \in Points BY DEF Points
  <2>2. NoBytes \in [Units -> 0 .. MaxVersion] BY Sizes DEF NoBytes
  <2> HIDE DEF NoBytes
  <2> QED BY <1>0, <1>1, <2>1, <2>2, Known DEF Attempts
<1>4. AtOK(at)' BY <1>0, <1>1, <1>3, Known DEF AtOK, Piecewise, Sent, Complete
<1>5. CoreInv'
  <2>1. RowOK(row, at)' BY <1>0, <1>1, <1>2, <1>3, RowKept
  <2>2. phase # "verified" BY <1>0, <1>1, Unverified
  <2> QED BY <1>0, <1>1, <1>2, <1>4, <2>1, <2>2, CoreFrom DEF CoreInv
<1> QED BY <1>0, <1>1, <1>2, <1>3, <1>5, QuietInv, Unverified DEF Holding

\* A chunk that a finished session is sent again.
LEMMA GcsSendAgainInv ==
    ASSUME Inv, backend = "gcs", GcsSendAgain, UNCHANGED <<http, azure>>
    PROVE  Inv'
<1>0. CoreInv /\ ServerOK /\ HeldInv BY DEF Inv
<1>1. /\ Sending /\ sessions[at.sess].st = "done" /\ PieceSent
      /\ UNCHANGED <<setting, src, durable, obj, bounds, gcs>>
  BY DEF GcsSendAgain
<1>2. at.pc \in Holding /\ at.sess \in Sessions BY <1>0, <1>1, SendingIs
<1>3. BoundsOK /\ losses' = losses BY <1>0, <1>1, BoundsAre
<1>4. ServerOK' BY <1>0, <1>1, ServerKept
<1>5. Keeps BY <1>1, KeepsQuiet
<1>6. ASSUME losses = 0, at.ver = src, NEW tok \in Rows, tok.ver = src, tok.sess = at.sess
      PROVE  HeldBy(tok)'
  <2>1. GcsHeld(Token(at.ver, at.pos, at.sess)) BY <1>0, <1>2, <1>6 DEF HeldInv, HeldBy
  <2>2. obj = Object(Whole(src)) BY <1>1, <1>6, <2>1, TokenIs DEF GcsHeld
  <2>3. UNCHANGED <<backend, sessions, obj>> BY <1>1 DEF setting, gcs
  <2>4. tok.sess # 0 BY <1>2, <1>6 DEF Sessions
  <2>5. GcsHeld(tok)' BY <1>1, <1>6, <2>2, <2>3, <2>4 DEF GcsHeld
  <2> QED BY <2>3, <2>5 DEF HeldBy
<1>7. At("send") /\ at.pos < Size BY <1>1 DEF Sending
<1> QED BY <1>1, <1>3, <1>4, <1>5, <1>6, <1>7, PieceInv

\* A chunk, or the part of it that the session keeps, is taken.
LEMMA GcsSendInv ==
    ASSUME Inv, backend = "gcs", GcsSend \/ GcsSendShort, UNCHANGED <<http, azure>>
    PROVE  Inv'
<1>0. CoreInv /\ ServerOK /\ HeldInv BY DEF Inv
<1>1. Sending /\ Fits /\ PieceSent /\ UNCHANGED <<setting, src, durable>>
  BY DEF GcsSend, GcsSendShort
<1>2. at.pc \in Holding /\ at.sess \in Sessions /\ PieceEnd \in 0 .. MaxUnits
  BY <1>0, <1>1, SendingIs
<1>3. PICK m \in 0 .. MaxUnits :
        Taken(at.sess, m) /\ ((m = PieceEnd /\ UNCHANGED bounds) \/ Lose)
  <2>1. CASE GcsSend BY <1>2, <2>1 DEF GcsSend
  <2>2. CASE GcsSendShort BY <2>2, Sizes DEF GcsSendShort
  <2> QED BY <2>1, <2>2
<1>4. obj' \in Objects /\ GcsTypeOK' BY <1>0, <1>1, <1>2, <1>3, TakenIs
<1>5. ServerOK' BY <1>0, <1>4, GcsServer
<1>6. BoundsOK /\ (losses' = losses \/ losses' # 0) BY <1>0, <1>3, BoundsAre
<1>7. ASSUME losses = 0, losses' = 0, at.ver = src
      PROVE  /\ Keeps
             /\ \A tok \in Rows : /\ tok.ver = src /\ tok.sess = at.sess /\ tok.done = PieceEnd
                                  => HeldBy(tok)'
  <2>1. m = PieceEnd BY <1>0, <1>3, <1>7, BoundsAre
  <2>2. m <= m BY Sizes
  <2> QED BY <1>0, <1>1, <1>2, <1>3, <1>7, <2>1, <2>2, TakenKeeps
<1>8. At("send") /\ at.pos < Size BY <1>1 DEF Sending
<1> QED BY <1>1, <1>5, <1>6, <1>7, <1>8, PieceInv

\* What the server drops by itself, or at abort's request.
LEMMA DroppedInv ==
    ASSUME Inv, CoreInv', ServerOK', UNCHANGED <<setting, src, row, phase>>, losses' # 0,
           at'.ver = at.ver, at'.pos = at.pos, at'.pc = at.pc \/ at'.pc = "drop",
           obj' = obj \/ (at'.pc \notin {"checkpoint", "mark"} /\ phase # "verified")
    PROVE  Inv'
<1>0. HeldInv /\ Marked /\ CoreInv BY DEF Inv
<1>1. HeldInv'
  <2>1. /\ at'.pc \in Holding => at.pc \in Holding
        /\ at'.pc = "commit" => at.pc = "commit"
    BY DEF Holding
  <2> QED BY <1>0, <2>1, HeldKept DEF HeldInv
<1>2. Marked' BY <1>0, MarkedKept DEF Marked, setting
<1> QED BY <1>1, <1>2 DEF Inv

LEMMA GcsDropInv ==
    ASSUME Inv, backend = "gcs", GcsExpire \/ GcsAbort, UNCHANGED <<http, azure>>
    PROVE  Inv'
<1>0. CoreInv /\ ServerOK BY DEF Inv
<1>1. Empty \in Contents BY EmptyIs
<1> HIDE DEF Empty
<1>2. CASE GcsExpire
  <2>1. Lose /\ UNCHANGED <<setting, src, durable, obj, at>> BY <1>2 DEF GcsExpire
  <2>2. BoundsOK /\ losses' # 0 BY <1>0, <2>1, BoundsAre
  <2>3. PICK s \in Sessions : sessions' = [sessions EXCEPT ![s] = [st |-> "gone", is |-> Empty]]
    BY <1>2 DEF GcsExpire
  <2>4. GcsTypeOK' BY <1>0, <1>1, <2>3, SessionSet
  <2>5. ServerOK' BY <1>0, <2>1, <2>4, GcsServer DEF ServerOK
  <2>6. CoreInv'
    <3>1. AtOK(at)' /\ RowOK(row, at)' BY <1>0, <2>1 DEF CoreInv, AtOK, RowOK, setting, durable
    <3> QED BY <1>0, <2>1, <2>2, <3>1, CoreFrom DEF CoreInv, durable
  <2> QED BY <2>1, <2>2, <2>5, <2>6, DroppedInv DEF durable
<1>3. CASE GcsAbort
  <2>1. /\ at.pc = "abort" /\ Go("drop") /\ UNCHANGED <<setting, src, durable, obj>>
        /\ Drop \/ Fail
    BY <1>3 DEF GcsAbort, At
  <2>2. BoundsOK /\ (Fail => losses' = losses) /\ (Drop => losses' # 0) BY <1>0, <2>1, BoundsAre
  <2>3. Moves("drop") /\ CoreInv' BY <1>0, <2>1, <2>2, GoCore, FreeFlow DEF durable
  <2>4. phase # "verified" BY <1>0, <2>1, Unverified
  <2>5. at'.pc = "drop" /\ at'.ver = at.ver /\ at'.pos = at.pos BY <2>3 DEF Moves
  <2>6. CASE Fail /\ UNCHANGED gcs
    BY <2>1, <2>2, <2>3, <2>4, <2>6, MoveInv DEF Holding, durable
  <2>7. CASE Drop /\ sessions' = [s \in Sessions |->
                IF s = row.sess /\ sessions[s].st = "open"
                THEN [st |-> "gone", is |-> Empty] ELSE sessions[s]]
    <3>1. GcsTypeOK' BY <1>0, <1>1, <2>7 DEF ServerOK, GcsTypeOK
    <3>2. ServerOK' BY <1>0, <2>1, <3>1, GcsServer DEF ServerOK
    <3> QED BY <2>1, <2>2, <2>3, <2>4, <2>5, <2>7, <3>2, DroppedInv DEF durable
  <2> QED BY <1>3, <2>6, <2>7 DEF GcsAbort
<1> QED BY <1>2, <1>3

LEMMA GcsBeginInv ==
    ASSUME Inv, backend = "gcs", GcsBegin, UNCHANGED <<http, azure>>
    PROVE  Inv'
<1>0. CoreInv /\ UNCHANGED gcs BY DEF Inv, GcsBegin
<1>1. /\ src \in Versions /\ SizeOf[src] \in 0 .. MaxUnits /\ SizeOf[src] \in Nat
      /\ 0 \in 0 .. MaxUnits /\ 0 <= SizeOf[src]
  BY <1>0, Known, Sizes
<1>2. CASE Start("put", 0, 0, FALSE) \/ Start("init", 0, 0, FALSE)
  <2>1. 0 \in 0 .. 3 /\ FALSE \in BOOLEAN OBVIOUS
  <2>2. CASE Start("put", 0, 0, FALSE) BY <1>0, <1>1, <2>1, <2>2, StartInv
  <2>3. CASE Start("init", 0, 0, FALSE) BY <1>0, <1>1, <2>1, <2>3, StartInv
  <2> QED BY <1>2, <2>2, <2>3
<1>3. CASE /\ GcsMatches(row, src)
           /\ Start("hash", IF row.done < SizeOf[src] THEN row.done ELSE SizeOf[src],
                    row.sess, TRUE)
  <2>1. row.ver = src BY <1>3 DEF GcsMatches
  <2>2. row.ver # 0 BY <1>0, <2>1, Known
  <2>3. /\ row.done \in 0 .. MaxUnits /\ row.sess \in 0 .. 3 /\ row.done <= SizeOf[src]
        /\ row.sess # 0
    BY <1>0, <2>1, <2>2 DEF CoreInv, RowOK, Rows
  <2>4. (IF row.done < SizeOf[src] THEN row.done ELSE SizeOf[src]) = row.done
    BY <1>1, <2>3, Sizes
  <2>5. Start("hash", row.done, row.sess, TRUE) BY <1>3, <2>4
  <2> QED BY <1>0, <2>1, <2>3, <2>5, StartInv
<1> QED BY <1>2, <1>3 DEF GcsBegin

\* A move after an answer that changes nothing.
LEMMA AnswerInv ==
    ASSUME Inv, at.pc # "idle", NEW p \in {"failed", "refused", "drop", "forget"}, Go(p),
           UNCHANGED <<setting, src, durable, obj, bounds, gcs, http, azure>>
    PROVE  Inv'
<1>1. CoreInv BY DEF Inv
<1>2. BoundsOK /\ losses' = losses BY <1>1, BoundsAre
<1>3. Moves(p) /\ CoreInv' BY <1>1, <1>2, GoCore, FreeFlow DEF durable
<1>4. p \notin Holding \cup {"checkpoint", "mark"} BY DEF Holding
<1>5. phase' # "verified" BY <1>1, Unverified DEF durable
<1> QED BY <1>2, <1>3, <1>4, <1>5, MoveInv DEF durable

LEMMA GcsStep ==
    ASSUME Inv, backend = "gcs", GcsWork \/ GcsFault, UNCHANGED <<http, azure>>
    PROVE  Inv'
<1>0. CoreInv /\ ServerOK BY DEF Inv
<1>1. CASE GcsBegin BY <1>1, GcsBeginInv
<1>2. CASE GcsPutEmpty
  <2>1. /\ At("put") /\ BodySent /\ obj' = Body
        /\ UNCHANGED <<setting, src, durable, bounds, gcs>> /\ GcsEffect
    BY <1>2 DEF GcsPutEmpty, GcsEffect
  <2>2. ServerOK' /\ (losses = 0 /\ at.ver = src => Keeps) BY <2>1, GcsEffectOK DEF durable
  <2> QED BY <2>1, <2>2, PutInv
<1>3. CASE InitSession BY <1>3, InitSessionInv
<1>4. CASE GcsSave
  <2>1. at.sess \in 0 .. 3 BY <1>0, Known
  <2> QED BY <1>4, <2>1, SaveRowInv DEF GcsSave
<1>5. CASE GcsSend \/ GcsSendShort BY <1>5, GcsSendInv
<1>6. CASE GcsSendAgain BY <1>6, GcsSendAgainInv
<1>7. CASE GcsSendGap BY <1>7, AnswerInv DEF GcsSendGap, Sending, At, Outcomes
<1>8. CASE GcsGone BY <1>8, AnswerInv DEF GcsGone, Sending, At
<1>9. CASE GcsForget BY <1>9, GcsForgetInv
<1>10. CASE GcsSent BY <1>10, SentInv DEF GcsSent
<1>11. CASE GcsVerify BY <1>11, VerifyInv DEF GcsVerify
<1>12. CASE GcsAbort \/ GcsExpire BY <1>12, GcsDropInv
<1>13. CASE GcsRefused BY <1>13, RefusedInv DEF GcsRefused
<1>14. CASE GcsLostAnswer \/ GcsCut
  <2>1. GcsEffect /\ ((Lost /\ at.pc # "idle") \/ Cut)
    BY <1>14 DEF GcsLostAnswer, GcsCut, Sending, At
  <2>2. UNCHANGED <<setting, src, row>> BY <2>1 DEF Lost, Cut, durable
  <2>3. ServerOK' /\ (losses = 0 /\ at.ver = src => Keeps) BY <2>1, <2>2, GcsEffectOK
  <2> QED BY <2>1, <2>3, UnansweredInv
<1> QED BY <1>1, <1>2, <1>3, <1>4, <1>5, <1>6, <1>7, <1>8, <1>9, <1>10, <1>11, <1>12, <1>13,
          <1>14 DEF GcsWork, GcsFault

-----------------------------------------------------------------------------
(* HTTP. *)

LEMMA HttpServer ==
    ASSUME ServerOK, obj' \in Objects, UNCHANGED <<gcs, http, azure>>
    PROVE  ServerOK'
BY DEF ServerOK, gcs, http, azure, GcsTypeOK, HttpTypeOK, AzureTypeOK

LEMMA ObjIs ==
    ASSUME ServerOK
    PROVE  /\ obj.live \in BOOLEAN /\ obj.is \in Contents /\ obj.is.len \in 0 .. MaxUnits
           /\ obj.is.len \in Nat /\ obj.is.bytes \in [Units -> 0 .. MaxVersion]
<1>1. obj.live \in BOOLEAN /\ obj.is \in Contents BY DEF ServerOK, Objects
<1> QED BY <1>1, Sizes DEF Contents

\* The whole body, or one empty range.
LEMMA WrittenKeeps ==
    ASSUME CoreInv, ServerOK, backend = "http", Written,
           UNCHANGED <<setting, src, gcs, http, azure>>
    PROVE  ServerOK' /\ (at.ver = src => Keeps)
<1>0. UNCHANGED backend BY DEF setting
<1>1. CASE obj' = Object(obj.is)
  <2>1. obj' \in Objects /\ obj'.live /\ obj'.is = obj.is BY <1>1, ObjIs, ObjectIs
  <2>2. Keeps BY <1>0, <2>1 DEF Keeps, HeldBy, HttpHeld
  <2> QED BY <2>1, <2>2, HttpServer
<1>2. CASE obj' = Body
  <2>1. obj' \in Objects BY <1>2, BodyIs
  <2>2. ASSUME at.ver = src PROVE Keeps
    <3>1. PICK w : w = Object(Whole(src)) OBVIOUS
    <3>2. w.live /\ w.is.len = SizeOf[src] /\ w.is.bytes = Prefix(src, SizeOf[src])
      BY <3>1, WholeHolds
    <3>3. obj' = w BY <1>2, <2>2, <3>1, BodyIs
    <3>4. SizeOf[src] \in Nat BY Known, Sizes
    <3> SUFFICES ASSUME NEW tok \in Rows, tok = row, tok.ver = src PROVE HttpHeld(tok)'
      BY <1>0 DEF Keeps, HeldBy
    <3>5. tok.done \in Nat /\ tok.done <= SizeOf[src]
      BY Known, Sizes DEF CoreInv, RowOK, Rows
    <3>6. \A u \in Units : u <= tok.done => w.is.bytes[u] = src
      BY <3>2, <3>4, <3>5, Sizes DEF Prefix
    <3> QED BY <3>2, <3>3, <3>5, <3>6 DEF HttpHeld
  <2> QED BY <2>1, <2>2, HttpServer
<1> QED BY <1>1, <1>2 DEF Written

\* A range is written over what is there.
LEMMA OverwrittenKeeps ==
    ASSUME CoreInv, ServerOK, HeldInv, backend = "http", HttpSending, Overwritten,
           UNCHANGED <<setting, src, gcs, http, azure>>
    PROVE  /\ ServerOK'
           /\ losses = 0 /\ at.ver = src =>
                /\ Keeps
                /\ \A tok \in Rows : tok.ver = src /\ tok.done = PieceEnd => HeldBy(tok)'
<1> DEFINE end == IF site.presize THEN Size ELSE PieceEnd
           len == IF end > obj.is.len THEN end ELSE obj.is.len
           b == Spliced(obj.is.bytes, at.pos, PieceEnd, src)
           c == [len |-> len, bytes |-> b]
<1>0. at.pc = "send" /\ at.pc \in Holding /\ at.pos < Size BY DEF HttpSending, At, Holding
<1>1. /\ PieceEnd \in 0 .. MaxUnits /\ PieceEnd \in Nat /\ at.pos < PieceEnd
      /\ PieceEnd <= Size
  BY <1>0, PieceIs, Sizes DEF CoreInv
<1>2. end \in 0 .. MaxUnits /\ end \in Nat /\ PieceEnd <= end BY <1>1, Known
<1>3. len \in 0 .. MaxUnits /\ len \in Nat /\ PieceEnd <= len /\ obj.is.len <= len
  BY <1>1, <1>2, ObjIs
<1>4. b \in [Units -> 0 .. MaxVersion] BY ObjIs, Known, Sizes DEF Spliced
<1>5. obj' = Object(c) BY DEF Overwritten
<1>6. \A u \in Units : b[u] = IF at.pos < u /\ u <= PieceEnd THEN src ELSE obj.is.bytes[u]
  BY DEF Spliced
<1> HIDE DEF len, b, end
<1>7. c \in Contents /\ c.len = len /\ c.bytes = b BY <1>3, <1>4, ContentsIs
<1> HIDE DEF c
<1>8. obj' \in Objects /\ obj'.live /\ obj'.is.len = len /\ obj'.is.bytes = b
  BY <1>5, <1>7, ObjectIs
<1>9. UNCHANGED backend BY DEF setting
<1>10. Keeps
  <2> SUFFICES ASSUME NEW tok \in Rows, tok.ver = src, HttpHeld(tok) PROVE HttpHeld(tok)'
    BY <1>9 DEF Keeps, HeldBy
  <2>1. tok.done \in Nat BY Sizes DEF Rows
  <2>2. tok.done > 0 => tok.done <= len BY <1>3, <2>1, ObjIs DEF HttpHeld
  <2>3. tok.done > 0 => \A u \in Units : u <= tok.done => b[u] = src
    BY <1>6 DEF HttpHeld
  <2> QED BY <1>8, <2>2, <2>3 DEF HttpHeld
<1>11. ASSUME losses = 0, at.ver = src, NEW tok \in Rows, tok.ver = src, tok.done = PieceEnd
       PROVE  HeldBy(tok)'
  <2>1. HttpHeld(Token(at.ver, at.pos, at.sess)) BY <1>0, <1>11 DEF HeldInv, HeldBy
  <2>2. at.pos > 0 => \A u \in Units : u <= at.pos => obj.is.bytes[u] = src
    BY <1>11, <2>1, TokenIs DEF HttpHeld
  <2>3. \A u \in Units : u <= PieceEnd => b[u] = src
    BY <1>1, <1>6, <2>2, Known, Sizes
  <2>4. HttpHeld(tok)' BY <1>3, <1>8, <1>11, <2>3 DEF HttpHeld
  <2> QED BY <1>9, <2>4 DEF HeldBy
<1> QED BY <1>8, <1>10, <1>11, HttpServer

\* The checkpoint that an attempt starts from, where it names an offset only.
LEMMA OffsetIs ==
    ASSUME CoreInv
    PROVE  LET n == IF row.ver # src THEN 0
                    ELSE IF row.done < SizeOf[src] THEN row.done ELSE SizeOf[src]
           IN  /\ n \in 0 .. MaxUnits /\ n <= SizeOf[src]
               /\ n = 0 \/ (row.ver = src /\ n = row.done)
<1>1. SizeOf[src] \in 0 .. MaxUnits /\ SizeOf[src] \in Nat BY Known, Sizes
<1>2. ASSUME row.ver = src PROVE row.done \in 0 .. MaxUnits /\ row.done <= SizeOf[src]
  BY <1>2, Known DEF CoreInv, RowOK, Rows
<1> QED BY <1>1, <1>2, Sizes

LEMMA HttpBeginInv ==
    ASSUME Inv, backend = "http", HttpBegin, UNCHANGED <<gcs, azure>>
    PROVE  Inv'
<1>0. CoreInv /\ UNCHANGED http BY DEF Inv, HttpBegin
<1>1. /\ HttpOffset \in 0 .. MaxUnits /\ HttpOffset <= SizeOf[src]
      /\ HttpOffset = 0 \/ (row.ver = src /\ HttpOffset = row.done)
  BY <1>0, OffsetIs DEF HttpOffset, HttpMatches
<1>2. 0 \in 0 .. MaxUnits /\ 0 <= SizeOf[src] BY <1>0, Known, Sizes
<1>3. 0 \in 0 .. 3 /\ FALSE \in BOOLEAN OBVIOUS
<1>4. CASE Start("put", 0, 0, FALSE) BY <1>0, <1>2, <1>3, <1>4, StartInv
<1>5. CASE Start("head", HttpOffset, 0, FALSE) \/ Start("hash", HttpOffset, 0, FALSE)
  <2>1. CASE Start("head", HttpOffset, 0, FALSE) BY <1>0, <1>1, <1>3, <2>1, StartInv
  <2>2. CASE Start("hash", HttpOffset, 0, FALSE) BY <1>0, <1>1, <1>3, <2>2, StartInv
  <2> QED BY <1>5, <2>1, <2>2
<1> QED BY <1>4, <1>5 DEF HttpBegin

\* reconcile_remote_len only takes the offset back.
LEMMA HttpHeadInv ==
    ASSUME Inv, backend = "http", HttpHead, UNCHANGED <<gcs, azure>>
    PROVE  Inv'
<1> DEFINE n == RemoteOffset(at.pos)
<1>0. CoreInv /\ ServerOK /\ HeldInv /\ Marked BY DEF Inv
<1>1. /\ at.pc = "head" /\ UNCHANGED <<setting, src, durable, obj, bounds, http>>
      /\ at' = [at EXCEPT !.pc = "hash", !.pos = n]
  BY DEF HttpHead, At
<1>2. UNCHANGED <<backend, row, phase, tries, losses>> BY <1>1 DEF setting, durable, bounds
<1>3. n \in 0 .. MaxUnits /\ n \in Nat /\ n <= at.pos
  <2>1. site.heads \in BOOLEAN BY <1>0 DEF ServerOK, HttpTypeOK, Sites
  <2>2. CASE ~site.heads BY <1>0, <2>2, Known DEF RemoteOffset
  <2>3. CASE site.heads
    <3>1. n = IF ~obj.live THEN 0 ELSE IF obj.is.len < at.pos THEN obj.is.len ELSE at.pos
      BY <1>0, <2>3, ObjIs DEF RemoteOffset
    <3> HIDE DEF n
    <3> QED BY <1>0, <3>1, ObjIs, Known, Sizes
  <2> QED BY <2>1, <2>2, <2>3
<1> HIDE DEF n
<1>4. /\ at' \in Attempts /\ at'.pc = "hash" /\ at'.ver = at.ver /\ at'.pos = n
      /\ at'.sess = at.sess
  <2>1. "hash" \in Points BY DEF Points
  <2> QED BY <1>0, <1>1, <1>3, <2>1, Known DEF Attempts
<1>5. AtOK(at)'
  <2>1. n <= SizeOf[at.ver] BY <1>0, <1>3, Known
  <2> QED BY <1>0, <1>1, <1>2, <1>4, <2>1, Known DEF AtOK, Sent, Complete
<1>6. CoreInv'
  <2>1. RowOK(row, at)' BY <1>0, <1>1, <1>2, <1>4, RowKept
  <2>2. phase # "verified" BY <1>0, <1>1, Unverified
  <2> QED BY <1>0, <1>1, <1>2, <1>5, <2>1, <2>2, BoundsAre, CoreFrom DEF CoreInv
<1>7. Keeps BY <1>1, KeepsQuiet
<1>8. ASSUME losses = 0, at.ver = src PROVE Gains
  <2>1. PICK tok : tok = Token(at'.ver, at'.pos, at'.sess) OBVIOUS
  <2>2. tok.ver = src /\ tok.done = n BY <1>4, <1>8, <2>1, TokenIs
  <2>3. tok \in Rows BY <1>0, <1>3, <1>4, <2>1, Known, TokenRow
  <2>4. HttpHeld(Token(at.ver, at.pos, at.sess))
    BY <1>0, <1>1, <1>8 DEF HeldInv, HeldBy, Holding
  <2>5. at.pos > 0 => /\ obj.live /\ at.pos <= obj.is.len
                      /\ \A u \in Units : u <= at.pos => obj.is.bytes[u] = src
    BY <1>8, <2>4, TokenIs DEF HttpHeld
  <2>6. HttpHeld(tok)
    <3> SUFFICES ASSUME n > 0
                 PROVE  /\ obj.live /\ n <= obj.is.len
                        /\ \A u \in Units : u <= n => obj.is.bytes[u] = src
      BY <2>2 DEF HttpHeld
    <3>1. at.pos > 0 BY <1>0, <1>3, Known
    <3>2. \A u \in Units : u <= n => u <= at.pos BY <1>0, <1>3, Known, Sizes
    <3>3. n <= obj.is.len BY <1>0, <1>3, <2>5, <3>1, Known, ObjIs
    <3> QED BY <2>5, <3>1, <3>2, <3>3
  <2>7. HeldBy(tok)' BY <1>1, <1>2, <2>6 DEF HeldBy, HttpHeld
  <2> QED BY <2>1, <2>3, <2>7 DEF Gains
<1>9. HeldInv' BY <1>0, <1>1, <1>2, <1>4, <1>7, <1>8, HeldKept
<1>10. Marked' BY <1>0, <1>1, <1>2, <1>4, MarkedKept, Unverified
<1>11. ServerOK' BY <1>0, <1>1, ServerKept
<1> QED BY <1>6, <1>9, <1>10, <1>11 DEF Inv

LEMMA HttpEffectOK ==
    ASSUME Inv, backend = "http", HttpEffect, UNCHANGED <<setting, src, gcs, http, azure>>
    PROVE  ServerOK' /\ (losses = 0 /\ at.ver = src => Keeps)
<1>0. CoreInv /\ ServerOK /\ HeldInv BY DEF Inv
<1>1. CASE UNCHANGED obj BY <1>0, <1>1, ServerKept, KeepsQuiet
<1>2. CASE Written BY <1>0, <1>2, WrittenKeeps
<1>3. CASE HttpSending /\ Overwritten BY <1>0, <1>3, OverwrittenKeeps
<1> QED BY <1>1, <1>2, <1>3 DEF HttpEffect

\* The server drops the object or its end, by itself or at abort's request.
LEMMA HttpDropInv ==
    ASSUME Inv, backend = "http", HttpDiscard \/ HttpAbort, UNCHANGED <<gcs, azure>>
    PROVE  Inv'
<1>0. CoreInv /\ ServerOK BY DEF Inv
<1>1. CASE HttpDiscard
  <2>1. /\ at.pc \notin {"checkpoint", "mark"} /\ phase = "pending" /\ Lose
        /\ UNCHANGED <<setting, src, durable, at, http>>
    BY <1>1 DEF HttpDiscard
  <2>2. BoundsOK /\ losses' # 0 BY <1>0, <2>1, BoundsAre
  <2>3. obj' \in Objects
    <3>1. CASE obj' = NoObject BY <3>1, EmptyIs
    <3>2. CASE \E n \in 0 .. MaxUnits :
                 obj' = Object([len |-> n, bytes |-> Spliced(obj.is.bytes, n, MaxUnits, 0)])
      <4>1. PICK n \in 0 .. MaxUnits :
                 obj' = Object([len |-> n, bytes |-> Spliced(obj.is.bytes, n, MaxUnits, 0)])
        BY <3>2
      <4>2. Spliced(obj.is.bytes, n, MaxUnits, 0) \in [Units -> 0 .. MaxVersion]
        BY <1>0, ObjIs, Sizes DEF Spliced
      <4> QED BY <4>1, <4>2, ContentsIs, ObjectIs
    <3> QED BY <1>1, <3>1, <3>2 DEF HttpDiscard
  <2>4. ServerOK' BY <1>0, <2>1, <2>3, HttpServer
  <2>5. CoreInv'
    <3>1. AtOK(at)' /\ RowOK(row, at)' BY <1>0, <2>1 DEF CoreInv, AtOK, RowOK, setting, durable
    <3> QED BY <1>0, <2>1, <2>2, <3>1, CoreFrom DEF CoreInv, durable
  <2> QED BY <2>1, <2>2, <2>4, <2>5, DroppedInv DEF durable
<1>2. CASE HttpAbort
  <2>1. /\ at.pc = "abort" /\ Go("drop") /\ UNCHANGED <<setting, src, durable, http>>
    BY <1>2 DEF HttpAbort, At
  <2>2. /\ Fail \/ UNCHANGED bounds => BoundsOK /\ losses' = losses
        /\ Drop => BoundsOK /\ losses' # 0
    BY <1>0, BoundsAre
  <2>3. Drop \/ Fail \/ UNCHANGED bounds BY <1>2 DEF HttpAbort
  <2>4. Moves("drop") /\ CoreInv' BY <1>0, <2>1, <2>2, <2>3, GoCore, FreeFlow DEF durable
  <2>5. phase # "verified" BY <1>0, <2>1, Unverified
  <2>6. at'.pc = "drop" /\ at'.ver = at.ver /\ at'.pos = at.pos BY <2>4 DEF Moves
  <2>7. CASE UNCHANGED obj /\ (Fail \/ UNCHANGED bounds)
    BY <2>1, <2>2, <2>4, <2>5, <2>7, MoveInv DEF Holding, durable
  <2>8. CASE obj' = NoObject /\ Drop
    <3>1. ServerOK' BY <1>0, <2>1, <2>8, EmptyIs, HttpServer
    <3> QED BY <2>1, <2>2, <2>4, <2>5, <2>6, <2>8, <3>1, DroppedInv DEF durable
  <2> QED BY <1>2, <2>7, <2>8 DEF HttpAbort
<1> QED BY <1>1, <1>2

LEMMA HttpStep ==
    ASSUME Inv, backend = "http", HttpWork \/ HttpFault, UNCHANGED <<gcs, azure>>
    PROVE  Inv'
<1>0. CoreInv /\ ServerOK /\ HeldInv BY DEF Inv
<1>1. CASE HttpBegin BY <1>1, HttpBeginInv
<1>2. CASE HttpPut
  <2>1. /\ At("put") /\ BodySent /\ Written
        /\ UNCHANGED <<setting, src, durable, bounds, http>>
    BY <1>2 DEF HttpPut
  <2>2. ServerOK' /\ (at.ver = src => Keeps) BY <1>0, <2>1, WrittenKeeps
  <2> QED BY <2>1, <2>2, PutInv
<1>3. CASE HttpHead BY <1>3, HttpHeadInv
<1>4. CASE HttpSave
  <2>1. 0 \in 0 .. 3 OBVIOUS
  <2> QED BY <1>4, <2>1, SaveRowInv DEF HttpSave
<1>5. CASE HttpSend
  <2>1. /\ HttpSending /\ Overwritten /\ PieceSent
        /\ UNCHANGED <<setting, src, durable, bounds, http>>
    BY <1>5 DEF HttpSend
  <2>2. BoundsOK /\ losses' = losses BY <1>0, <2>1, BoundsAre
  <2>3. At("send") /\ at.pos < Size BY <2>1 DEF HttpSending
  <2> QED BY <1>0, <2>1, <2>2, <2>3, OverwrittenKeeps, PieceInv
<1>6. CASE HttpSent BY <1>6, SentInv DEF HttpSent
<1>7. CASE HttpVerify
  <2>1. UNCHANGED http BY <1>7 DEF HttpVerify
  <2>2. CASE VerifyObject BY <2>1, <2>2, VerifyInv
  <2>3. CASE /\ At("verify") /\ Go("refused")
             /\ UNCHANGED <<setting, src, durable, obj, bounds>>
    BY <2>1, <2>3, AnswerInv DEF At
  <2> QED BY <1>7, <2>2, <2>3 DEF HttpVerify
<1>8. CASE HttpAbort \/ HttpDiscard BY <1>8, HttpDropInv
<1>9. CASE HttpRefused BY <1>9, RefusedInv DEF HttpRefused
<1>10. CASE HttpLostAnswer \/ HttpCut
  <2>1. HttpEffect /\ UNCHANGED http /\ ((Lost /\ at.pc # "idle") \/ Cut)
    BY <1>10 DEF HttpLostAnswer, HttpCut, HttpSending, At
  <2>2. UNCHANGED <<setting, src, row>> BY <2>1 DEF Lost, Cut, durable
  <2>3. ServerOK' /\ (losses = 0 /\ at.ver = src => Keeps) BY <2>1, <2>2, HttpEffectOK
  <2> QED BY <2>1, <2>3, UnansweredInv
<1> QED BY <1>1, <1>2, <1>3, <1>4, <1>5, <1>6, <1>7, <1>8, <1>9, <1>10 DEF HttpWork, HttpFault

-----------------------------------------------------------------------------
(* Azure.  First, blocks. *)

LEMMA DivIs ==
    ASSUME NEW n \in Nat, NEW c \in Nat, c > 0
    PROVE  n \div c \in Nat /\ (n \div c) * c <= n /\ n < (n \div c) * c + c
BY Z3

LEMMA DivBelow ==
    ASSUME NEW n \in Nat, NEW c \in Nat, c > 0
    PROVE  n \div c <= n
<1> DEFINE q == n \div c
<1>1. q \in Nat /\ q * c <= n BY DivIs
<1> HIDE DEF q
<1>2. q <= q * c BY <1>1
<1>3. q <= n BY <1>1, <1>2
<1> QED BY <1>3 DEF q

LEMMA ProductOrder ==
    ASSUME NEW c \in Nat, c > 0, NEW p \in Nat, NEW q \in Nat, p * c < q * c + c
    PROVE  p <= q
<1> SUFFICES ASSUME q < p PROVE FALSE OBVIOUS
<1>1. q + 1 <= p OBVIOUS
<1>2. (q + 1) * c <= p * c BY <1>1
<1> QED BY <1>2

\* A unit's block.
LEMMA BlockIs ==
    ASSUME NEW u \in Units
    PROVE  BlockOf(u) \in Blocks
<1>1. u - 1 \in Nat /\ u \in Nat /\ u <= MaxUnits BY Sizes DEF Units
<1> DEFINE q == (u - 1) \div Chunk
<1>2. q \in Nat /\ q <= u - 1 BY <1>1, Sizes, DivIs, DivBelow
<1>3. BlockOf(u) = q + 1 BY DEF BlockOf
<1> HIDE DEF q
<1> QED BY <1>1, <1>2, <1>3, Sizes DEF Blocks

\* The units of a piece that starts where a block does are of one block.
LEMMA SameBlock ==
    ASSUME NEW k \in Nat, NEW u \in Units, k * Chunk < u, u <= k * Chunk + Chunk
    PROVE  BlockOf(u) = k + 1
<1>1. u - 1 \in Nat /\ u \in Nat /\ Chunk \in Nat /\ Chunk > 0 /\ k * Chunk \in Nat
  BY Sizes DEF Units
<1> DEFINE q == (u - 1) \div Chunk
<1>2. q \in Nat /\ q * Chunk <= u - 1 /\ u - 1 < q * Chunk + Chunk BY <1>1, DivIs
<1>3. BlockOf(u) = q + 1 BY DEF BlockOf
<1> HIDE DEF q
<1>4. q * Chunk \in Nat BY <1>1, <1>2
<1>5. q * Chunk < k * Chunk + Chunk /\ k * Chunk < q * Chunk + Chunk BY <1>1, <1>2, <1>4
<1>6. q <= k /\ k <= q BY <1>1, <1>2, <1>5, ProductOrder
<1>7. q = k BY <1>2, <1>6
<1> QED BY <1>3, <1>7

\* The blocks of a version are those that its units are in.
LEMMA BlockCount ==
    ASSUME NEW v \in Versions, NEW u \in Units, u <= SizeOf[v]
    PROVE  BlockOf(u) \in 1 .. NumBlocks(v)
<1>1. /\ u - 1 \in Nat /\ u \in Nat /\ Chunk \in Nat /\ Chunk > 0 /\ SizeOf[v] \in Nat
      /\ SizeOf[v] + Chunk - 1 \in Nat
  BY Sizes DEF Units
<1> DEFINE q == (u - 1) \div Chunk
           p == (SizeOf[v] + Chunk - 1) \div Chunk
<1>2. q \in Nat /\ q * Chunk <= u - 1 BY <1>1, DivIs
<1>3. p \in Nat /\ SizeOf[v] + Chunk - 1 < p * Chunk + Chunk BY <1>1, DivIs
<1>4. BlockOf(u) = q + 1 /\ NumBlocks(v) = p BY DEF BlockOf, NumBlocks
<1> HIDE DEF p, q
<1>5. p * Chunk \in Nat /\ q * Chunk \in Nat BY <1>1, <1>2, <1>3
<1>6. q * Chunk < p * Chunk BY <1>1, <1>2, <1>3, <1>5
<1>7. q + 1 <= p
  <2>1. (q + 1) * Chunk = q * Chunk + Chunk BY <1>1, <1>2
  <2>2. (q + 1) * Chunk < p * Chunk + Chunk BY <1>1, <1>5, <1>6, <2>1
  <2> QED BY <1>1, <1>2, <1>3, <2>2, ProductOrder
<1> QED BY <1>2, <1>3, <1>4, <1>7

\* Where pieces end, blocks do.
LEMMA PieceAligned ==
    ASSUME CoreInv, at.pos < Size, Aligned(at.ver, at.pos)
    PROVE  /\ Aligned(at.ver, PieceEnd)
           /\ \A u \in Units : at.pos < u /\ u <= PieceEnd => BlockOf(u) = BlockOf(at.pos + 1)
           /\ BlockOf(at.pos + 1) \in Blocks
<1>1. at.pos \in Nat /\ Size \in Nat /\ Size <= MaxUnits /\ Size = SizeOf[at.ver]
      /\ Chunk \in Nat /\ Chunk > 0 /\ MaxUnits \in Nat
  BY Known, Sizes
<1>2. PICK k \in Nat : at.pos = k * Chunk BY <1>1 DEF Aligned
<1>3. /\ PieceEnd \in Nat /\ PieceEnd <= at.pos + Chunk
      /\ PieceEnd = at.pos + Chunk \/ PieceEnd = Size
  BY PieceIs, Sizes DEF CoreInv
<1>4. at.pos + 1 \in Units BY <1>1 DEF Units
<1>5. Aligned(at.ver, PieceEnd)
  <2>1. k + 1 \in Nat /\ (k + 1) * Chunk = k * Chunk + Chunk BY <1>1
  <2> QED BY <1>1, <1>2, <1>3, <2>1 DEF Aligned
<1>6. \A u \in Units : at.pos < u /\ u <= PieceEnd => BlockOf(u) = k + 1
  <2> SUFFICES ASSUME NEW u \in Units, at.pos < u, u <= PieceEnd PROVE BlockOf(u) = k + 1
    OBVIOUS
  <2>1. u \in Nat BY Sizes
  <2>2. u <= k * Chunk + Chunk BY <1>1, <1>2, <1>3, <2>1
  <2> QED BY <1>2, <2>2, SameBlock
<1>7. BlockOf(at.pos + 1) = k + 1
  <2>1. k * Chunk < at.pos + 1 /\ at.pos + 1 <= k * Chunk + Chunk BY <1>1, <1>2
  <2> QED BY <1>4, <2>1, SameBlock
<1> QED BY <1>4, <1>5, <1>6, <1>7, BlockIs

-----------------------------------------------------------------------------
(* Azure, step by step. *)

LEMMA AzureServer ==
    ASSUME ServerOK, obj' \in Objects, AzureTypeOK', UNCHANGED <<gcs, http>>
    PROVE  ServerOK'
BY DEF ServerOK, gcs, http, GcsTypeOK, HttpTypeOK

\* A block is staged.
LEMMA StagedKeeps ==
    ASSUME CoreInv, ServerOK, HeldInv, backend = "azure", AzureSending, Staged,
           UNCHANGED <<setting, src, obj, gcs, http>>
    PROVE  /\ ServerOK' /\ Aligned(at.ver, PieceEnd)
           /\ losses = 0 /\ at.ver = src =>
                /\ Keeps
                /\ \A tok \in Rows : tok.ver = src /\ tok.done = PieceEnd => HeldBy(tok)'
<1>0. at.pc = "send" /\ at.pc \in Holding /\ at.pos < Size BY DEF AzureSending, At, Holding
<1>1. Aligned(at.ver, at.pos) BY <1>0 DEF HeldInv
<1> DEFINE k == BlockOf(at.pos + 1)
<1>2. /\ Aligned(at.ver, PieceEnd) /\ k \in Blocks
      /\ \A u \in Units : at.pos < u /\ u <= PieceEnd => BlockOf(u) = k
  BY <1>0, <1>1, PieceAligned
<1>3. staged' = [staged EXCEPT ![k] = src] BY DEF Staged
<1>4. staged \in [Blocks -> 0 .. MaxVersion] BY DEF ServerOK, AzureTypeOK
<1> HIDE DEF k
<1>5. /\ staged' \in [Blocks -> 0 .. MaxVersion]
      /\ \A n \in Blocks : staged'[n] = IF n = k THEN src ELSE staged[n]
  BY <1>2, <1>3, <1>4, Known, Sizes
<1>6. ServerOK' BY <1>5, AzureServer DEF ServerOK, AzureTypeOK
<1>7. UNCHANGED backend BY DEF setting
<1>8. \A u \in Units : BlockOf(u) \in Blocks BY BlockIs
<1>9. ASSUME at.ver = src PROVE Keeps
  <2> SUFFICES ASSUME NEW tok \in Rows, tok.ver = src, AzureKept(tok) PROVE AzureKept(tok)'
    BY <1>7 DEF Keeps, HeldBy
  <2> QED BY <1>5, <1>8 DEF AzureKept
<1>10. ASSUME losses = 0, at.ver = src, NEW tok \in Rows, tok.ver = src, tok.done = PieceEnd
       PROVE  HeldBy(tok)'
  <2>1. AzureKept(Token(at.ver, at.pos, at.sess)) BY <1>0, <1>10 DEF HeldInv, HeldBy
  <2>2. \/ \A u \in Units : u <= at.pos => staged[BlockOf(u)] = src
        \/ obj = Object(Whole(src)) /\ \A n \in Blocks : staged[n] \in {0, src}
    BY <1>10, <2>1, TokenIs DEF AzureKept
  <2>3. CASE \A u \in Units : u <= at.pos => staged[BlockOf(u)] = src
    <3>1. ASSUME NEW u \in Units, u <= PieceEnd PROVE staged'[BlockOf(u)] = src
      <4>1. CASE u <= at.pos BY <1>5, <1>8, <2>3, <4>1
      <4>2. CASE at.pos < u BY <1>2, <1>5, <1>8, <3>1, <4>2
      <4> QED BY <4>1, <4>2, Known, Sizes
    <3>2. AzureKept(tok)' BY <1>10, <3>1 DEF AzureKept
    <3> QED BY <1>7, <3>2 DEF HeldBy
  <2>4. CASE obj = Object(Whole(src)) /\ \A n \in Blocks : staged[n] \in {0, src}
    <3>1. AzureKept(tok)' BY <1>5, <1>10, <2>4 DEF AzureKept
    <3> QED BY <1>7, <3>1 DEF HeldBy
  <2> QED BY <2>2, <2>3, <2>4
<1> QED BY <1>2, <1>6, <1>9, <1>10

\* The blob is the whole newest version, and nothing is staged.
LEMMA WholeKeeps ==
    ASSUME obj' = Object(Whole(src)), staged' = NoBlocks, backend = "azure",
           UNCHANGED <<setting, src>>
    PROVE  Keeps
<1>1. \A n \in Blocks : NoBlocks[n] = 0 BY DEF NoBlocks
<1>2. UNCHANGED backend BY DEF setting
<1> HIDE DEF NoBlocks
<1> QED BY <1>1, <1>2 DEF Keeps, HeldBy, AzureKept

LEMMA NoBlocksIs == NoBlocks \in [Blocks -> 0 .. MaxVersion]
BY Sizes DEF NoBlocks

\* put_block_list takes effect.
LEMMA CommittedKeeps ==
    ASSUME CoreInv, ServerOK, HeldInv, backend = "azure", At("commit"), Committable, Committed,
           UNCHANGED <<setting, src, gcs, http>>
    PROVE  ServerOK' /\ (losses = 0 /\ at.ver = src => Keeps)
<1> DEFINE b == [u \in Units |-> IF u <= Size THEN staged[BlockOf(u)] ELSE 0]
           c == [len |-> Size, bytes |-> b]
<1>1. obj' = Object(c) /\ staged' = NoBlocks BY DEF Committed
<1>2. staged \in [Blocks -> 0 .. MaxVersion] BY DEF ServerOK, AzureTypeOK
<1>3. \A u \in Units : BlockOf(u) \in Blocks BY BlockIs
<1>4. b \in [Units -> 0 .. MaxVersion] BY <1>2, <1>3, Sizes
<1>5. c \in Contents BY <1>4, Known, ContentsIs
<1>6. obj' \in Objects BY <1>1, <1>5, ObjectIs
<1>7. ServerOK' BY <1>1, <1>6, NoBlocksIs, AzureServer DEF AzureTypeOK
<1>8. ASSUME losses = 0, at.ver = src PROVE Keeps
  <2>1. at.pc = "commit" /\ at.pc \in Holding /\ at.pos = Size BY DEF At, Holding, HeldInv, Size
  <2>2. AzureKept(Token(at.ver, at.pos, at.sess)) BY <1>8, <2>1 DEF HeldInv, HeldBy
  <2>3. \/ \A u \in Units : u <= Size => staged[BlockOf(u)] = src
        \/ \A n \in Blocks : staged[n] \in {0, src}
    BY <1>8, <2>1, <2>2, TokenIs DEF AzureKept
  <2>4. \A u \in Units : u <= Size => staged[BlockOf(u)] = src
    <3> SUFFICES ASSUME \A n \in Blocks : staged[n] \in {0, src}, NEW u \in Units, u <= Size
                 PROVE  staged[BlockOf(u)] = src
      BY <2>3
    <3>1. BlockOf(u) \in 1 .. NumBlocks(at.ver) BY Known, BlockCount
    <3> QED BY <1>3, <3>1 DEF Committable
  <2>5. b = Prefix(src, SizeOf[src]) BY <1>8, <2>4 DEF Prefix, Size
  <2>6. obj' = Object(Whole(src)) BY <1>1, <1>8, <2>5 DEF Whole, Size
  <2> QED BY <1>1, <2>6, WholeKeeps
<1> QED BY <1>7, <1>8

LEMMA AzureEffectOK ==
    ASSUME Inv, backend = "azure", AzureEffect, UNCHANGED <<setting, src, gcs, http>>
    PROVE  ServerOK' /\ (losses = 0 /\ at.ver = src => Keeps)
<1>0. CoreInv /\ ServerOK /\ HeldInv BY DEF Inv
<1>1. CASE UNCHANGED <<obj, azure>> BY <1>0, <1>1, ServerKept, KeepsQuiet
<1>2. CASE obj' = Body /\ staged' = NoBlocks
  <2>1. obj' \in Objects /\ (at.ver = src => obj' = Object(Whole(src)))
    BY <1>0, <1>2, BodyIs
  <2>2. ServerOK' BY <1>0, <1>2, <2>1, NoBlocksIs, AzureServer DEF AzureTypeOK
  <2>3. at.ver = src => Keeps BY <1>2, <2>1, WholeKeeps
  <2> QED BY <2>2, <2>3
<1>3. CASE AzureSending /\ Staged /\ UNCHANGED obj BY <1>0, <1>3, StagedKeeps
<1>4. CASE At("commit") /\ Committable /\ Committed BY <1>0, <1>4, CommittedKeeps
<1> QED BY <1>1, <1>2, <1>3, <1>4 DEF AzureEffect

LEMMA AzureBeginInv ==
    ASSUME Inv, backend = "azure", AzureBegin, UNCHANGED <<gcs, http>>
    PROVE  Inv'
<1>0. CoreInv /\ UNCHANGED azure BY DEF Inv, AzureBegin
<1>1. /\ AzureOffset \in 0 .. MaxUnits /\ AzureOffset <= SizeOf[src]
      /\ AzureOffset = 0 \/ (row.ver = src /\ AzureOffset = row.done)
  BY <1>0, OffsetIs DEF AzureOffset, AzureMatches
<1>2. 0 \in 0 .. MaxUnits /\ 0 <= SizeOf[src] BY <1>0, Known, Sizes
<1>3. 0 \in 0 .. 3 /\ FALSE \in BOOLEAN OBVIOUS
<1>4. CASE Start("put", 0, 0, FALSE) BY <1>0, <1>2, <1>3, <1>4, StartInv
<1>5. CASE Start("hash", AzureOffset, 0, FALSE) BY <1>0, <1>1, <1>3, <1>5, StartInv
<1> QED BY <1>4, <1>5 DEF AzureBegin

\* A commit that has an effect, or none.
LEMMA CommitInv ==
    ASSUME Inv, backend = "azure", At("commit"), NEW p \in {"clear", "probe", "unsure"}, Go(p),
           UNCHANGED <<setting, src, durable, gcs, http>>, BoundsOK, losses' = losses,
           UNCHANGED <<obj, azure>> \/ (Committable /\ Committed)
    PROVE  Inv'
<1>0. CoreInv /\ HeldInv /\ Marked BY DEF Inv
<1>1. at.pc = "commit" BY DEF At
<1>2. Flow(p) /\ p \in Points \ {"idle"}
  BY <1>1 DEF Flow, Piecewise, Sent, Complete, Points
<1>3. Moves(p) /\ CoreInv' BY <1>0, <1>1, <1>2, GoCore DEF durable
<1>4. at'.pc = p /\ at'.ver = at.ver BY <1>3 DEF Moves
<1>5. AzureEffect BY DEF AzureEffect
<1>6. ServerOK' /\ (losses = 0 /\ at.ver = src => Keeps) BY <1>5, AzureEffectOK
<1>7. at'.pc \notin Holding /\ at'.pc \notin {"checkpoint", "mark"} BY <1>4 DEF Holding
<1>8. phase' # "verified" /\ row' = row BY <1>0, <1>1, Unverified DEF durable
<1>9. HeldInv' BY <1>0, <1>4, <1>6, <1>7, <1>8, HeldEnds
<1>10. Marked' BY <1>0, <1>4, <1>7, <1>8, MarkedKept
<1> QED BY <1>3, <1>6, <1>9, <1>10 DEF Inv

\* blob_committed_at_size.
LEMMA AzureProbeInv ==
    ASSUME Inv, backend = "azure", AzureProbe, UNCHANGED <<gcs, http>>
    PROVE  Inv'
<1>0. CoreInv BY DEF Inv
<1>1. /\ at.pc \in {"probe", "unsure"}
      /\ Go("clear") \/ Go("refused") \/ Go("failed")
      /\ UNCHANGED <<setting, src, durable, obj, bounds, azure>>
  BY DEF AzureProbe, At
<1>2. CASE Go("refused") \/ Go("failed")
  <2>1. CASE Go("refused") BY <1>1, <2>1, AnswerInv
  <2>2. CASE Go("failed") BY <1>1, <2>2, AnswerInv
  <2> QED BY <1>2, <2>1, <2>2
<1>3. CASE Go("clear")
  <2>1. Flow("clear") /\ "clear" \in Points \ {"idle"}
    BY <1>1 DEF Flow, Piecewise, Sent, Complete, Points
  <2>2. BoundsOK /\ losses' = losses BY <1>0, <1>1, BoundsAre
  <2>3. Moves("clear") /\ CoreInv' BY <1>0, <1>1, <1>3, <2>1, <2>2, GoCore DEF durable
  <2>4. phase' # "verified" BY <1>0, <1>1, Unverified DEF durable
  <2> QED BY <1>1, <2>2, <2>3, <2>4, MoveInv DEF Holding, durable
<1> QED BY <1>1, <1>2, <1>3

LEMMA AzureStep ==
    ASSUME Inv, backend = "azure", AzureWork \/ AzureFault, UNCHANGED <<gcs, http>>
    PROVE  Inv'
<1>0. CoreInv /\ ServerOK /\ HeldInv BY DEF Inv
<1>1. CASE AzureBegin BY <1>1, AzureBeginInv
<1>2. CASE AzurePut
  <2>1. /\ At("put") /\ BodySent /\ AzureEffect
        /\ UNCHANGED <<setting, src, durable, bounds>>
    BY <1>2 DEF AzurePut, AzureEffect
  <2>2. ServerOK' /\ (losses = 0 /\ at.ver = src => Keeps) BY <2>1, AzureEffectOK
  <2> QED BY <2>1, <2>2, PutInv
<1>3. CASE AzureSave
  <2>1. 0 \in 0 .. 3 OBVIOUS
  <2> QED BY <1>3, <2>1, SaveRowInv DEF AzureSave
<1>4. CASE AzureSend
  <2>1. /\ AzureSending /\ Staged /\ PieceSent
        /\ UNCHANGED <<setting, src, durable, obj, bounds>>
    BY <1>4 DEF AzureSend
  <2>2. BoundsOK /\ losses' = losses BY <1>0, <2>1, BoundsAre
  <2>3. At("send") /\ at.pos < Size BY <2>1 DEF AzureSending
  <2> QED BY <1>0, <2>1, <2>2, <2>3, StagedKeeps, PieceInv
<1>5. CASE AzureSent BY <1>5, SentInv DEF AzureSent
<1>6. CASE AzureCommit \/ AzureInvalidList
  <2>1. UNCHANGED <<setting, src, durable, bounds>> /\ At("commit")
    BY <1>6 DEF AzureCommit, AzureInvalidList
  <2>2. BoundsOK /\ losses' = losses BY <1>0, <2>1, BoundsAre
  <2> QED BY <1>6, <2>1, <2>2, CommitInv DEF AzureCommit, AzureInvalidList
<1>7. CASE AzureCommitFails
  <2>1. Fail /\ UNCHANGED <<setting, src, durable>> /\ At("commit") BY <1>7 DEF AzureCommitFails
  <2>2. BoundsOK /\ losses' = losses BY <1>0, <2>1, BoundsAre
  <2> QED BY <1>7, <2>1, <2>2, CommitInv DEF AzureCommitFails
<1>8. CASE AzureProbe BY <1>8, AzureProbeInv
<1>9. CASE AzureVerify BY <1>9, VerifyInv DEF AzureVerify
<1>10. CASE AzureAbort BY <1>10, AnswerInv DEF AzureAbort, At
<1>11. CASE AzureCollect
  <2>1. Lose /\ UNCHANGED <<setting, src, durable, obj, at>> /\ staged' = NoBlocks
    BY <1>11 DEF AzureCollect
  <2>2. BoundsOK /\ losses' # 0 BY <1>0, <2>1, BoundsAre
  <2>3. ServerOK' BY <1>0, <2>1, NoBlocksIs, AzureServer DEF AzureTypeOK, ServerOK
  <2>4. CoreInv'
    <3>1. AtOK(at)' /\ RowOK(row, at)' BY <1>0, <2>1 DEF CoreInv, AtOK, RowOK, setting, durable
    <3> QED BY <1>0, <2>1, <2>2, <3>1, CoreFrom DEF CoreInv, durable
  <2> QED BY <2>1, <2>2, <2>3, <2>4, DroppedInv DEF durable
<1>12. CASE AzureRefused BY <1>12, RefusedInv DEF AzureRefused
<1>13. CASE AzureLostAnswer \/ AzureCut
  <2>1. AzureEffect /\ ((Lost /\ at.pc # "idle") \/ Cut)
    BY <1>13 DEF AzureLostAnswer, AzureCut, AzureSending, At
  <2>2. UNCHANGED <<setting, src, row>> BY <2>1 DEF Lost, Cut, durable
  <2>3. ServerOK' /\ (losses = 0 /\ at.ver = src => Keeps) BY <2>1, <2>2, AzureEffectOK
  <2> QED BY <2>1, <2>3, UnansweredInv
<1> QED BY <1>1, <1>2, <1>3, <1>4, <1>5, <1>6, <1>7, <1>8, <1>9, <1>10, <1>11, <1>12, <1>13
        DEF AzureWork, AzureFault

-----------------------------------------------------------------------------
(* Every step, and the theorems. *)

LEMMA WorkerStep ==
    ASSUME Inv, Worker, UNCHANGED <<gcs, http, azure>>
    PROVE  Inv'
<1>0. CoreInv /\ CoreInv' BY WorkerCore DEF Inv
<1>1. UNCHANGED <<setting, src, obj>>
  BY DEF Worker, Hash, Truncated, ClearRow, Checkpoint, MarkVerified, Retry, GiveUp, DropToken
<1>2. losses' = losses /\ row' \in {row, NoToken}
  BY <1>0, BoundsAre DEF Worker, Hash, Truncated, ClearRow, Checkpoint, MarkVerified, Retry,
       GiveUp, DropToken, durable
<1>3. CASE Hash
  <2>1. /\ at'.pc = "save" /\ at'.ver = at.ver /\ at'.pos = at.pos /\ at'.sess = at.sess
        /\ at.pc = "hash" /\ phase' = phase
    BY <1>0, <1>1, <1>3, HashOK DEF CoreInv, setting, Hash, At, durable
  <2>2. at.pc \in Holding BY <2>1 DEF Holding
  <2> QED BY <1>0, <1>1, <1>2, <2>1, <2>2, QuietInv
<1>4. CASE Truncated BY <1>4, AnswerInv DEF Truncated, At
<1>5. CASE ClearRow
  <2>1. at.pc = "clear" /\ Go("verify") /\ phase' = phase BY <1>5 DEF ClearRow, At
  <2>2. Moves("verify") BY <1>0, <2>1, Known, Goes DEF Points
  <2>3. phase' # "verified" BY <1>0, <2>1, Unverified
  <2> QED BY <1>0, <1>1, <1>2, <2>2, <2>3, MoveInv DEF Holding
<1>6. CASE Checkpoint
  <2>1. at.pc = "checkpoint" /\ Go("mark") BY <1>6 DEF Checkpoint, At
  <2>2. Moves("mark") BY <1>0, <2>1, Known, Goes DEF Points
  <2> QED BY <1>0, <1>1, <1>2, <2>1, <2>2, QuietInv DEF Moves, Holding
<1>7. CASE MarkVerified \/ Retry \/ DropToken
  <2>1. at'.pc = "idle" /\ at'.ver = at.ver
    BY <1>0, <1>1, <1>7, Ends DEF MarkVerified, Retry, DropToken, CoreInv, setting
  <2>2. phase' = "verified" => at.pc = "mark" \/ phase = "verified"
    BY <1>7 DEF MarkVerified, Retry, DropToken, At
  <2> QED BY <1>0, <1>1, <1>2, <2>1, <2>2, QuietInv DEF Holding
<1>8. CASE GiveUp
  <2>1. phase' = "exhausted" /\ \E p \in {"abort", "drop"} : Go(p) BY <1>8 DEF GiveUp
  <2>2. \E p \in {"abort", "drop"} : Moves(p) BY <1>0, <2>1, Known, Goes DEF Points
  <2> QED BY <1>0, <1>1, <1>2, <2>1, <2>2, MoveInv DEF Holding
<1> QED BY <1>3, <1>4, <1>5, <1>6, <1>7, <1>8 DEF Worker

\* The producer leaves everything behind that is about an older version.
LEMMA ProducerStep ==
    ASSUME Inv, Producer
    PROVE  Inv'
<1>0. CoreInv /\ ServerOK /\ HeldInv BY DEF Inv
<1>1. /\ src < MaxVersion /\ src' = src + 1 /\ phase' = "pending"
      /\ UNCHANGED <<setting, obj, at, bounds, gcs, http, azure>>
      /\ row' \in {row, NoToken} /\ tries' \in {tries, 0}
  <2>1. UNCHANGED <<gcs, http, azure>> BY DEF Producer
  <2>2. CASE Rewrite BY <2>1, <2>2 DEF Rewrite, durable
  <2>3. CASE NewFile BY <2>1, <2>3 DEF NewFile
  <2> QED BY <2>2, <2>3 DEF Producer
<1>2. src' \in Versions /\ at.ver < src' /\ row.ver < src'
  <2>1. src \in Nat /\ src > 0 /\ at.ver <= src /\ row.ver <= at.ver /\ row.ver \in Nat
        /\ at.ver \in Nat
    BY <1>0, Known
  <2> QED BY <1>1, <2>1, Sizes DEF Versions
<1>3. NoToken \in Rows /\ NoToken.ver = 0 BY Sizes, TokenIs DEF NoToken, Token, Rows
<1> HIDE DEF NoToken
<1>4. UNCHANGED <<backend, policy, fails, faults, cuts, losses>> BY <1>1 DEF setting, bounds
<1>5. row'.ver < src' /\ RowOK(row, at)'
  BY <1>0, <1>1, <1>2, <1>3, <1>4, Known DEF CoreInv, RowOK
<1>6. AtOK(at)' BY <1>0, <1>1, <1>2, <1>4, Known DEF CoreInv, AtOK
<1>7. CoreInv' BY <1>0, <1>1, <1>2, <1>4, <1>5, <1>6 DEF CoreInv
<1>8. ServerOK' BY <1>0, <1>1, ServerKept
<1>9. at'.ver # src' /\ row'.ver # src'
  <2>1. at.ver \in Nat /\ src' \in Nat /\ row'.ver \in Nat
    BY <1>0, <1>1, <1>3, Known
  <2> QED BY <1>1, <1>2, <1>5, <2>1
<1>10. Marked' BY <1>9 DEF Marked
<1>11. HeldInv' BY <1>0, <1>1, <1>3, <1>4, <1>9 DEF HeldInv, Aligned
<1> QED BY <1>7, <1>8, <1>10, <1>11 DEF Inv

LEMMA InvInit == Init => Inv
<1> SUFFICES ASSUME Init PROVE Inv OBVIOUS
<1>1. /\ backend \in Backends /\ policy \in Policies /\ src = 1 /\ phase = "pending"
      /\ row = NoToken /\ tries = 0 /\ obj = NoObject /\ at = Fresh
      /\ fails = 0 /\ faults = 0 /\ cuts = 0 /\ losses = 0
  BY DEF Init, AttemptInit
<1>2. NoToken \in Rows /\ NoToken.ver = 0 BY Sizes, TokenIs DEF NoToken, Token, Rows
<1>3. at \in Attempts /\ at.pc = "idle" /\ at.ver = 1 /\ at.pos = 0 BY <1>1, FreshIs
<1>4. 1 \in Versions /\ 1 \in Nat /\ SizeOf[1] \in Nat
  <2>1. 1 \in Versions BY UploadAssumption DEF Versions
  <2> QED BY <2>1, Sizes
<1> HIDE DEF NoToken, Fresh
<1>5. AtOK(at) BY <1>1, <1>3, <1>4 DEF AtOK, Piecewise, Sent, Complete
<1>6. RowOK(row, at) BY <1>1, <1>2, <1>3 DEF RowOK
<1>7. CoreInv BY <1>1, <1>4, <1>5, <1>6 DEF CoreInv
<1>8. ServerOK
  <2>1. GcsTypeOK
    <3>1. Empty \in Contents BY EmptyIs
    <3> HIDE DEF Empty
    <3> QED BY <3>1 DEF Init, GcsInit, GcsTypeOK, NoSession
  <2>2. HttpTypeOK
    <3>1. \A method \in {"put", "post"}, c \in BOOLEAN : Resumable(method, c) \in BOOLEAN
      BY DEF Resumable
    <3>2. \A a \in BOOLEAN, b \in BOOLEAN, c \in BOOLEAN :
            [ranged |-> a, heads |-> b, presize |-> c] \in Sites
      BY DEF Sites
    <3>3. FALSE \in BOOLEAN OBVIOUS
    <3>4. CASE backend = "http"
      <4>1. PICK method \in {"put", "post"}, c \in BOOLEAN, h \in BOOLEAN, p \in BOOLEAN :
               site = [ranged |-> Resumable(method, c), heads |-> h, presize |-> p]
        BY <3>4 DEF Init, HttpInit
      <4>2. Resumable(method, c) \in BOOLEAN BY <3>1
      <4> QED BY <3>2, <4>1, <4>2, Zenon DEF HttpTypeOK
    <3>5. CASE backend # "http"
      <4>1. site = [ranged |-> FALSE, heads |-> FALSE, presize |-> FALSE]
        BY <3>5 DEF Init, HttpInit
      <4> QED BY <3>2, <3>3, <4>1, Zenon DEF HttpTypeOK
    <3> QED BY <3>4, <3>5
  <2>3. AzureTypeOK BY NoBlocksIs DEF Init, AzureInit, AzureTypeOK
  <2> QED BY <1>1, <2>1, <2>2, <2>3, EmptyIs DEF ServerOK
<1>9. Marked BY <1>1, <1>3 DEF Marked
<1>10. HeldInv BY <1>1, <1>2, <1>3 DEF HeldInv, Holding
<1> QED BY <1>7, <1>8, <1>9, <1>10 DEF Inv

LEMMA InvStutter ==
    ASSUME Inv, UNCHANGED vars
    PROVE  Inv'
<1>1. UNCHANGED <<setting, src, durable, obj, at, bounds, gcs, http, azure>> BY DEF vars, shared
<1>2. CoreInv'
  BY <1>1 DEF Inv, CoreInv, AtOK, RowOK, setting, durable, bounds
<1>3. row' = row /\ phase' = phase /\ losses' = losses BY <1>1 DEF durable, bounds
<1>4. at'.pc = "commit" => at'.pos = SizeOf[at'.ver] BY <1>1 DEF Inv, HeldInv
<1> QED BY <1>1, <1>2, <1>3, <1>4, QuietInv

\* Inv is inductive.
THEOREM Invariance == Spec => []Inv
<1>1. Inv /\ [Next]_vars => Inv'
  <2> SUFFICES ASSUME Inv, [Next]_vars PROVE Inv' OBVIOUS
  <2>1. CASE Worker /\ UNCHANGED <<gcs, http, azure>> BY <2>1, WorkerStep
  <2>2. CASE backend = "gcs" /\ (GcsWork \/ GcsFault) /\ UNCHANGED <<http, azure>>
    BY <2>2, GcsStep
  <2>3. CASE backend = "http" /\ (HttpWork \/ HttpFault) /\ UNCHANGED <<gcs, azure>>
    BY <2>3, HttpStep
  <2>4. CASE backend = "azure" /\ (AzureWork \/ AzureFault) /\ UNCHANGED <<gcs, http>>
    BY <2>4, AzureStep
  <2>5. CASE Producer BY <2>5, ProducerStep
  <2>6. CASE UNCHANGED vars BY <2>6, InvStutter
  <2> QED BY <2>1, <2>2, <2>3, <2>4, <2>5, <2>6 DEF Next, Work, Fault
<1> QED BY <1>1, InvInit, PTL DEF Spec

\* Checkpoint, attempt and server state keep their types.
THEOREM TypeCorrect == Spec => []TypeOK
<1>1. Inv => TypeOK
  BY DEF Inv, CoreInv, AtOK, RowOK, ServerOK, TypeOK, AttemptTypeOK
<1> QED BY <1>1, Invariance, PTL

\* A destination that is marked verified with verify = checksum holds the
\* whole version that its last attempt announced, unless the source was
\* rewritten under it: for HTTP, GCS and Azure, whatever answers were lost,
\* attempts cut short, sessions expired, blocks collected and rows not saved.
THEOREM VerifiedWholeTheorem == Spec => []VerifiedWhole
<1>1. Inv => VerifiedWhole BY DEF Inv, Marked, VerifiedWhole
<1> QED BY <1>1, Invariance, PTL

\* The resume row never runs ahead of the server: what a resumed attempt will
\* not send again is there, as long as the server keeps what it accepted and
\* the source is the one the row is about.
THEOREM CheckpointHeldTheorem == Spec => []CheckpointHeld
<1>1. Inv => CheckpointHeld
  <2> SUFFICES ASSUME Inv, row.ver = src, losses = 0
               PROVE  CASE backend = "gcs" -> GcsHeld(row)
                        [] backend = "http" -> HttpHeld(row)
                        [] backend = "azure" -> AzureHeld(row)
    BY DEF CheckpointHeld
  <2>1. HeldBy(row) BY DEF Inv, HeldInv
  <2>2. backend \in {"http", "gcs", "azure"} BY UploadAssumption DEF Inv, CoreInv
  <2>3. CASE backend = "gcs" BY <2>1, <2>3 DEF HeldBy
  <2>4. CASE backend = "http" BY <2>1, <2>4 DEF HeldBy
  <2>5. CASE backend = "azure" BY <2>1, <2>5 DEF HeldBy, AzureKept, AzureHeld
  <2> QED BY <2>2, <2>3, <2>4, <2>5
<1> QED BY <1>1, Invariance, PTL
=============================================================================
