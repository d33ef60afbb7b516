------------------------- MODULE TempPublishProofs -------------------------
(***************************************************************************)
(* What stands at the final name of an SFTP, FTPS or local destination,    *)
(* for any number and sizes of versions, any backends, bounds and retries. *)
(*                                                                         *)
(* The code tells versions apart by their size when an upload ends, so the *)
(* theorems on contents are about a producer that appends.  An attempt     *)
(* then reaches the size it announced only if all it read was that         *)
(* version; and a checkpoint is of the version whose bytes the temp file   *)
(* holds, as long as that version is still the newest.                     *)
(***************************************************************************)
EXTENDS TempPublish, TLAPS

\* A producer that appends: every version is longer than the one before.
Appending == \A v, w \in Versions : v < w => SizeOf[v] < SizeOf[w]

Active(t) == th[t].pc # "idle"

\* Steps of a thread that only move it on, and may rename, remove, cut the
\* temp file short or write the row.
Walk(t) ==
    \/ Dial(t) \/ SaveStart(t) \/ Check(t) \/ Persist(t) \/ Finish(t) \/ Rename(t)
    \/ RenameRefused(t) \/ Remove(t) \/ RenameAgain(t) \/ ClearToken(t) \/ Abort(t)
    \/ Broken(t)
    \/ t = cur /\ (Verify \/ Checkpoint \/ Invalidate \/ GiveUp)

\* Steps that end an attempt.
Stop(t) ==
    \/ Vanish(t)
    \/ t = cur /\ (MarkVerified \/ Retry \/ DropToken \/ Pause)

Runs(t) == t = cur \/ th[t].cancelled

\* The steps, by what they do.
LEMMA Steps ==
    ASSUME cur \in Threads, [Next]_vars
    PROVE  \/ \E t \in Threads :
                /\ Runs(t)
                /\ \/ Walk(t) \/ Stop(t) \/ Stat(t) \/ Open(t)
                   \/ HashPrefix(t) \/ Load(t) \/ Stream(t)
           \/ Begin \/ Crash \/ Detach \/ Rewrite \/ NewFile \/ UNCHANGED vars
<1>1. ASSUME NEW t \in Threads, Call(t), Runs(t)
      PROVE  Walk(t) \/ Stat(t) \/ Open(t) \/ HashPrefix(t) \/ Load(t) \/ Stream(t)
  BY <1>1 DEF Call, Walk
<1>2. ASSUME NEW t \in Threads, Broken(t) PROVE Walk(t) BY <1>2 DEF Walk
<1>3. CASE Work
  <2>1. Runs(cur) BY DEF Runs
  <2> QED BY <1>1, <1>3, <2>1 DEF Work, Walk, Stop
<1>4. CASE Broken(cur) \/ Pause BY <1>2, <1>4 DEF Runs, Stop
<1>5. CASE \E t \in Threads : Ghost(t) BY <1>1, <1>2, <1>5 DEF Ghost, Runs, Stop
<1> QED BY <1>3, <1>4, <1>5 DEF Next

\* The order of the steps before the first chunk.
LEMMA AfterSftp ==
    ASSUME backend = "sftp"
    PROVE  /\ After("dial") = "stat" /\ After("stat") = "open" /\ After("open") = "save"
           /\ After("save") = "hash" /\ After("hash") = "load" /\ After("load") = "stream"
           /\ After("publish") = "clear"
BY DEF After

LEMMA AfterFtps ==
    ASSUME backend = "ftps"
    PROVE  /\ After("dial") = "stat" /\ After("stat") = "load" /\ After("load") = "hash"
           /\ After("hash") = "save" /\ After("save") = "open" /\ After("open") = "check"
           /\ After("publish") = "clear"
BY DEF After

LEMMA AfterLocal ==
    ASSUME backend = "local"
    PROVE  /\ After("dial") = "load" /\ After("load") = "open" /\ After("open") = "stream"
           /\ After("publish") = "verify"
BY DEF After

-----------------------------------------------------------------------------
(* Types.  A local attempt never comes to the steps of a token. *)

PathInv == \A t \in Threads : backend = "local" => th[t].pc \notin {"stat", "save", "hash", "persist"}

TypeInv == TypeOK /\ PathInv

\* Where a step may lead.
Ahead(p) == p \in Points \ {"idle"} /\ (backend = "local" => p \notin {"stat", "save", "hash", "persist"})

LEMMA AfterAhead ==
    ASSUME TypeInv
    PROVE  /\ Ahead(After("dial")) /\ Ahead(After("load")) /\ Ahead(After("open"))
           /\ Ahead(After("publish"))
           /\ backend # "local" => /\ Ahead(After("stat")) /\ Ahead(After("save"))
                                   /\ Ahead(After("hash"))
<1>0. backend \in {"sftp", "ftps", "local"} BY TempAssumption DEF TypeInv, TypeOK
<1>1. CASE backend = "sftp" BY <1>1, AfterSftp DEF Ahead, Points, Blocking
<1>2. CASE backend = "ftps" BY <1>2, AfterFtps DEF Ahead, Points, Blocking
<1>3. CASE backend = "local" BY <1>3, AfterLocal DEF Ahead, Points, Blocking
<1> QED BY <1>0, <1>1, <1>2, <1>3

\* A record of an attempt with another program counter.
LEMMA Moved ==
    ASSUME NEW a \in Attempts, NEW p \in Points
    PROVE  LET b == [a EXCEPT !.pc = p]
           IN  /\ b \in Attempts /\ b.pc = p /\ b.ver = a.ver /\ b.view = a.view
               /\ b.pos = a.pos /\ b.since = a.since /\ b.hash = a.hash /\ b.fd = a.fd
               /\ b.cancelled = a.cancelled
BY DEF Attempts

\* A step of thread t that only moves it.
Moves(t, p) ==
    /\ th' \in [Threads -> Attempts]
    /\ th'[t].pc = p /\ th'[t].ver = th[t].ver /\ th'[t].view = th[t].view
    /\ th'[t].pos = th[t].pos /\ th'[t].since = th[t].since
    /\ th'[t].hash = th[t].hash /\ th'[t].fd = th[t].fd
    /\ th'[t].cancelled = th[t].cancelled
    /\ \A u \in Threads \ {t} : th'[u] = th[u]

LEMMA Goes ==
    ASSUME TypeOK, NEW t \in Threads, NEW p \in Points, Go(t, p)
    PROVE  Moves(t, p)
<1>1. th[t] \in Attempts /\ th \in [Threads -> Attempts] BY DEF TypeOK
<1>2. th' = [th EXCEPT ![t] = [th[t] EXCEPT !.pc = p]] BY DEF Go
<1> DEFINE b == [th[t] EXCEPT !.pc = p]
<1>3. /\ b \in Attempts /\ b.pc = p /\ b.ver = th[t].ver /\ b.view = th[t].view
      /\ b.pos = th[t].pos /\ b.since = th[t].since /\ b.hash = th[t].hash
      /\ b.fd = th[t].fd /\ b.cancelled = th[t].cancelled
  BY <1>1, Moved
<1> HIDE DEF b
<1>4. th' = [th EXCEPT ![t] = b] BY <1>2 DEF b
<1> QED BY <1>1, <1>3, <1>4 DEF Moves

\* An attempt that is over.
LEMMA FreshIs ==
    /\ Fresh \in Attempts /\ Fresh.pc = "idle" /\ ~Fresh.cancelled /\ Fresh.fd = 0
    /\ Fresh.hash = NoBytes
<1>1. 1 \in Versions BY TempAssumption DEF Versions
<1>2. 0 \in 0 .. MaxChunks /\ 0 \in 0 .. Every /\ 0 \in 0 .. MaxVersion
      /\ 0 \in 0 .. MaxFiles
  BY TempAssumption
<1>3. NoBytes \in [Chunks -> 0 .. MaxVersion] BY <1>2 DEF NoBytes
<1>4. "idle" \in Points BY DEF Points
<1> HIDE DEF NoBytes
<1> QED BY <1>1, <1>2, <1>3, <1>4 DEF Fresh, Attempts

LEMMA FreshType ==
    ASSUME NEW v \in Versions
    PROVE  LET a == [Fresh EXCEPT !.ver = v]
           IN  /\ a \in Attempts /\ a.pc = "idle" /\ a.ver = v /\ ~a.cancelled
               /\ a.fd = 0
BY FreshIs DEF Attempts

LEMMA Ends ==
    ASSUME TypeOK, NEW t \in Threads, Done(t)
    PROVE  /\ th' \in [Threads -> Attempts]
           /\ th'[t].pc = "idle" /\ th'[t].ver = th[t].ver /\ ~th'[t].cancelled
           /\ \A u \in Threads \ {t} : th'[u] = th[u]
<1> DEFINE a == [Fresh EXCEPT !.ver = th[t].ver]
<1>1. th \in [Threads -> Attempts] /\ th[t].ver \in Versions BY DEF TypeOK, Attempts
<1>2. a \in Attempts /\ a.pc = "idle" /\ a.ver = th[t].ver /\ ~a.cancelled
  BY <1>1, FreshType
<1>3. th' = [th EXCEPT ![t] = a] BY DEF Done
<1> HIDE DEF a
<1> QED BY <1>1, <1>2, <1>3

LEMMA SaveIs ==
    ASSUME TypeOK, NEW tok, Save(tok)
    PROVE  (row' = row \/ row' = tok) /\ fails' \in Nat /\ faults' \in Nat /\ cuts' \in Nat
BY DEF Save, bounds, TypeOK

LEMMA CutType ==
    ASSUME TypeOK, NEW t \in Threads, Cut(t)
    PROVE  /\ file' \in [Files -> Contents]
           /\ file' = file \/
                LET n == th[t].pos
                IN  /\ backend = "ftps" /\ th[t].pc \in {"check", "stream", "persist"}
                    /\ n \in Chunks
                    /\ file[th[t].fd].len = n
                    /\ \A f \in Files :
                         /\ f # th[t].fd => file'[f] = file[f]
                         /\ f = th[t].fd => /\ file'[f].len = n - 1
                                            /\ file'[f].bytes = [file[f].bytes EXCEPT ![n] = 0]
<1>1. CASE file' = file BY <1>1 DEF TypeOK
<1>2. CASE file' # file
  <2> DEFINE n == th[t].pos
             g == th[t].fd
             c == [len |-> n - 1, bytes |-> [file[g].bytes EXCEPT ![n] = 0]]
  <2>1. /\ backend = "ftps" /\ th[t].pc \in {"check", "stream", "persist"}
        /\ n > 0 /\ file[g].len = n
        /\ file' = [file EXCEPT ![g] = c]
    BY <1>2 DEF Cut
  <2>2. n \in Chunks /\ n - 1 \in 0 .. MaxChunks
    <3>1. n \in 0 .. MaxChunks BY DEF TypeOK, Attempts
    <3> HIDE DEF n
    <3> QED BY <2>1, <3>1, TempAssumption DEF Chunks
  <2>3. file \in [Files -> Contents] BY DEF TypeOK
  <2> HIDE DEF n, g
  <2>4. CASE g \in Files
    <3>1. file[g] \in Contents BY <2>3, <2>4
    <3>2. [file[g].bytes EXCEPT ![n] = 0] \in [Chunks -> 0 .. MaxVersion]
      BY <2>2, <3>1, TempAssumption DEF Contents
    <3>3. c \in Contents BY <2>2, <3>2 DEF Contents
    <3>5. c.len = n - 1 /\ c.bytes = [file[g].bytes EXCEPT ![n] = 0] OBVIOUS
    <3> HIDE DEF c
    <3> QED BY <2>1, <2>2, <2>3, <2>4, <3>3, <3>5 DEF n, g
  <2>5. CASE g \notin Files
    <3>1. file' = file BY <2>1, <2>3, <2>5
    <3> QED BY <1>2, <3>1
  <2> QED BY <2>4, <2>5
<1> QED BY <1>1, <1>2

\* Where a walking thread goes.
LEMMA WalkGoes ==
    ASSUME TypeInv, NEW t \in Threads, Walk(t)
    PROVE  /\ \E p : Ahead(p) /\ Moves(t, p)
           /\ Active(t) /\ UNCHANGED <<backend, src, cur>>
<1>1. /\ Ahead(After("dial")) /\ Ahead(After("publish"))
      /\ backend # "local" => Ahead(After("save"))
  BY AfterAhead
<1>2. \A p \in {"transient", "refused", "failed", "rename", "remove", "again", "clear",
                "verify", "drop", "abort", "mark", "checkpoint", "stream", "check"} : Ahead(p)
  BY DEF Ahead, Points, Blocking
<1>3. \E p : Ahead(p) /\ Go(t, p)
  <2>1. CASE Dial(t) BY <1>1, <1>2, <2>1 DEF Dial
  <2>2. CASE SaveStart(t)
    <3>1. backend # "local" BY <2>2 DEF SaveStart, At, TypeInv, PathInv
    <3> QED BY <1>1, <2>2, <3>1 DEF SaveStart
  <2>3. CASE Persist(t) BY <1>2, <2>3 DEF Persist, Loop
  <2>4. CASE Check(t) \/ Finish(t) \/ RenameRefused(t) \/ ClearToken(t) \/ Abort(t)
    BY <1>2, <2>4 DEF Check, Finish, RenameRefused, ClearToken, Abort
  <2>5. CASE Rename(t) \/ RenameAgain(t) BY <1>1, <1>2, <2>5 DEF Rename, RenameAgain
  <2>6. CASE Remove(t) BY <1>2, <2>6 DEF Remove, Classified
  <2>7. CASE Broken(t)
    BY <1>2, <2>7 DEF Broken, Lost, Denied, RenameUnsure, LocalError, RenameFails, Classified
  <2>8. CASE t = cur /\ (Verify \/ Checkpoint \/ Invalidate \/ GiveUp)
    BY <1>2, <2>8 DEF Verify, Checkpoint, Invalidate, GiveUp
  <2> QED BY <2>1, <2>2, <2>3, <2>4, <2>5, <2>6, <2>7, <2>8 DEF Walk
<1>4. \E p : Ahead(p) /\ Moves(t, p)
  BY <1>3, Goes DEF Ahead, TypeInv
<1>5. Active(t)
  <2>1. CASE Broken(t)
    BY <2>1 DEF Broken, Lost, Denied, RenameUnsure, LocalError, RenameFails, At, Active
  <2>2. CASE ~Broken(t)
    BY <2>2 DEF Walk, Dial, SaveStart, Check, Persist, Finish, Rename, RenameRefused, Remove,
         RenameAgain, ClearToken, Abort, Verify, Checkpoint, Invalidate, GiveUp, At, Active
  <2> QED BY <2>1, <2>2
<1>6. UNCHANGED <<backend, src, cur>>
  <2>1. CASE Broken(t)
    BY <2>1 DEF Broken, Lost, Denied, RenameUnsure, LocalError, RenameFails
  <2>2. CASE ~Broken(t)
    BY <2>2 DEF Walk, Dial, SaveStart, Check, Persist, Finish, Rename, RenameRefused, Remove,
         RenameAgain, ClearToken, Abort, Verify, Checkpoint, Invalidate, GiveUp
  <2> QED BY <2>1, <2>2
<1> QED BY <1>4, <1>5, <1>6

\* What a walking thread does to the server and the rows.
LEMMA WalkDoes ==
    ASSUME TypeInv, NEW t \in Threads, Walk(t)
    PROVE  /\ file' = file \/ Cut(t)
           /\ row' \in {row, NoToken, Token(th[t].ver, th[t].pos)}
           /\ temp' \in {temp, 0} /\ final' \in {final, temp, 0}
           /\ phase' \in {phase, "exhausted"} /\ session' \in {"none", "up", "dead"}
           /\ tries' = tries /\ fails' \in Nat /\ faults' \in Nat /\ cuts' \in Nat
<1>0. /\ fails \in Nat /\ faults \in Nat /\ cuts \in Nat
      /\ session \in {"none", "up", "dead"} /\ TypeOK
  BY DEF TypeInv, TypeOK
<1>1. CASE Dial(t) BY <1>0, <1>1 DEF Dial, durable, server, bounds
<1>2. CASE SaveStart(t) \/ Persist(t)
  <2>1. Save(Token(th[t].ver, th[t].pos)) /\ UNCHANGED <<phase, tries, server, session>>
    BY <1>2 DEF SaveStart, Persist
  <2>2. (row' = row \/ row' = Token(th[t].ver, th[t].pos))
        /\ fails' \in Nat /\ faults' \in Nat /\ cuts' \in Nat
    BY <1>0, <2>1, SaveIs
  <2> QED BY <1>0, <2>1, <2>2 DEF server
<1>3. CASE ClearToken(t) \/ (t = cur /\ Checkpoint)
  <2>1. Save(NoToken) /\ UNCHANGED <<phase, tries, server, session>>
    BY <1>3 DEF ClearToken, Checkpoint
  <2>2. (row' = row \/ row' = NoToken)
        /\ fails' \in Nat /\ faults' \in Nat /\ cuts' \in Nat
    BY <1>0, <2>1, SaveIs
  <2> QED BY <1>0, <2>1, <2>2 DEF server
<1>4. CASE Check(t) \/ Finish(t) \/ RenameRefused(t)
           \/ (t = cur /\ (Verify \/ Invalidate \/ GiveUp))
  BY <1>0, <1>4 DEF Check, Finish, RenameRefused, Verify, Invalidate, GiveUp,
       durable, server, bounds
<1>5. CASE Rename(t) \/ RenameAgain(t)
  BY <1>0, <1>5 DEF Rename, RenameAgain, Renamed, durable, server, bounds
<1>6. CASE Remove(t) \/ Abort(t)
  BY <1>0, <1>6 DEF Remove, Abort, Fails, durable, bounds
<1>7. CASE Broken(t)
  <2>1. Fails => fails' \in Nat /\ faults' \in Nat /\ cuts' \in Nat BY <1>0 DEF Fails
  <2>2. CASE Lost(t) BY <1>0, <2>1, <2>2 DEF Lost, Renamed, durable, server
  <2>3. CASE Denied(t) BY <1>0, <2>1, <2>3 DEF Denied, durable, server
  <2>4. CASE RenameUnsure(t)
    BY <1>0, <2>1, <2>4 DEF RenameUnsure, Renamed, durable, server
  <2>5. CASE LocalError(t) BY <1>0, <2>1, <2>5 DEF LocalError, durable
  <2>6. CASE RenameFails(t) BY <1>0, <2>1, <2>6 DEF RenameFails, durable
  <2> QED BY <1>7, <2>2, <2>3, <2>4, <2>5, <2>6 DEF Broken
<1> QED BY <1>1, <1>2, <1>3, <1>4, <1>5, <1>6, <1>7 DEF Walk

\* An attempt ends, and leaves its version behind.
LEMMA StopDoes ==
    ASSUME TypeInv, NEW t \in Threads, Stop(t)
    PROVE  /\ Done(t) /\ UNCHANGED <<backend, src, cur, session, file>>
           /\ row' \in {row, NoToken}
           /\ UNCHANGED <<temp, final>> \/ (Renamed /\ Pause /\ t = cur
                  /\ backend = "local" /\ th[cur].pc \in {"rename", "again"})
           /\ phase' \in {phase, "verified", "pending"}
           /\ tries' \in Nat /\ fails' \in Nat /\ faults' \in Nat /\ cuts' \in Nat
<1>0. TypeOK /\ fails \in Nat /\ faults \in Nat /\ cuts \in Nat /\ tries \in Nat
  BY DEF TypeInv, TypeOK
<1>1. CASE Vanish(t) BY <1>0, <1>1 DEF Vanish, durable, server, bounds
<1>2. CASE t = cur /\ (MarkVerified \/ Retry)
  BY <1>0, <1>2 DEF MarkVerified, Retry, server, bounds
<1>3. CASE t = cur /\ DropToken
  <2>1. Save(NoToken) /\ Done(t) /\ UNCHANGED <<backend, src, phase, tries, server, session, cur>>
    BY <1>3 DEF DropToken
  <2> QED BY <1>0, <2>1, SaveIs DEF server
<1>4. CASE t = cur /\ Pause
  BY <1>0, <1>4 DEF Pause, server, Renamed
<1> QED BY <1>1, <1>2, <1>3, <1>4 DEF Stop

\* A step of thread t that makes it b.
LEMMA Put ==
    ASSUME TypeOK, NEW t \in Threads, NEW b \in Attempts, th' = [th EXCEPT ![t] = b]
    PROVE  /\ th' \in [Threads -> Attempts] /\ th'[t] = b
           /\ \A u \in Threads \ {t} : th'[u] = th[u]
BY DEF TypeOK

LEMMA BeginDoes ==
    ASSUME TypeInv, Begin
    PROVE  LET b == th'[cur]
           IN  /\ th' \in [Threads -> Attempts] /\ ~Active(cur) /\ phase = "pending"
               /\ b.pc = "dial" /\ b.ver = src /\ b.view = src
               /\ b.pos = IF row.ver = src THEN row.done ELSE 0
               /\ b.hash = NoBytes /\ ~b.cancelled
               /\ \A u \in Threads \ {cur} : th'[u] = th[u]
               /\ UNCHANGED <<backend, src, durable, server, session, cur, bounds>>
<1> DEFINE o == IF Matches(row, src) THEN row.done ELSE 0
           b == [Fresh EXCEPT !.pc = "dial", !.ver = src, !.view = src, !.pos = o]
<1>1. TypeOK /\ src \in Versions /\ cur \in Threads /\ "dial" \in Points
  BY DEF TypeInv, TypeOK, Points, Blocking
<1>2. o \in 0 .. MaxChunks /\ o = IF row.ver = src THEN row.done ELSE 0
  BY TempAssumption DEF TypeInv, TypeOK, Matches
<1>3. Fresh \in Attempts /\ Fresh.hash = NoBytes /\ ~Fresh.cancelled BY FreshIs
<1> HIDE DEF o, Fresh
<1>4. /\ b \in Attempts /\ b.pc = "dial" /\ b.ver = src /\ b.view = src /\ b.pos = o
      /\ b.hash = NoBytes /\ ~b.cancelled
  BY <1>1, <1>2, <1>3 DEF Attempts
<1>5. th' = [th EXCEPT ![cur] = b] BY DEF Begin, o
<1> HIDE DEF b
<1>6. th' \in [Threads -> Attempts] /\ th'[cur] = b /\ \A u \in Threads \ {cur} : th'[u] = th[u]
  BY <1>1, <1>4, <1>5, Put
<1> QED BY <1>2, <1>4, <1>6 DEF Begin, At, Active

LEMMA StatDoes ==
    ASSUME TypeInv, NEW t \in Threads, Stat(t)
    PROVE  LET a == th[t]
               b == th'[t]
           IN  /\ th' \in [Threads -> Attempts] /\ a.pc = "stat" /\ backend # "local"
               /\ b.pc = After("stat") /\ b.ver = a.ver /\ b.view = a.view
               /\ b.pos = Committed(a.pos) \/ b.pos = 0
               /\ b.pos \in 0 .. MaxChunks /\ b.pos <= a.pos
               /\ b.hash = a.hash /\ b.cancelled = a.cancelled
               /\ \A u \in Threads \ {t} : th'[u] = th[u]
               /\ UNCHANGED <<backend, src, durable, server, session, cur>>
               /\ fails' \in Nat /\ faults' \in Nat /\ cuts' \in Nat
<1>1. TypeOK /\ th[t] \in Attempts /\ th[t].pos \in 0 .. MaxChunks
  BY DEF TypeInv, TypeOK, Attempts
<1>2. backend # "local" /\ th[t].pc = "stat" BY DEF Stat, At, TypeInv, PathInv
<1>3. After("stat") \in Points BY <1>2, AfterAhead DEF Ahead
<1>4. Committed(th[t].pos) \in 0 .. MaxChunks /\ Committed(th[t].pos) <= th[t].pos
  <2>1. temp # 0 => file[temp].len \in 0 .. MaxChunks
    BY <1>1 DEF TypeOK, Contents, Files
  <2> QED BY <1>1, <2>1, TempAssumption DEF Committed
<1>5. PICK o \in 0 .. MaxChunks :
          /\ o = Committed(th[t].pos) \/ o = 0
          /\ th' = [th EXCEPT ![t] = [th[t] EXCEPT !.pos = o, !.pc = After("stat")]]
  <2>1. 0 \in 0 .. MaxChunks BY TempAssumption
  <2> QED BY <1>4, <2>1 DEF Stat
<1>6. o <= th[t].pos BY <1>1, <1>4, <1>5, TempAssumption
<1> DEFINE b == [th[t] EXCEPT !.pos = o, !.pc = After("stat")]
<1>7. /\ b \in Attempts /\ b.pc = After("stat") /\ b.ver = th[t].ver
      /\ b.view = th[t].view /\ b.pos = o /\ b.hash = th[t].hash
      /\ b.cancelled = th[t].cancelled
  BY <1>1, <1>3, <1>5 DEF Attempts
<1>8. th' = [th EXCEPT ![t] = b] BY <1>5
<1> HIDE DEF b
<1>9. th' \in [Threads -> Attempts] /\ th'[t] = b /\ \A u \in Threads \ {t} : th'[u] = th[u]
  BY <1>1, <1>7, <1>8, Put
<1>10. /\ UNCHANGED <<backend, src, durable, server, session, cur>>
       /\ fails' \in Nat /\ faults' \in Nat /\ cuts' \in Nat
  BY <1>1 DEF Stat, Fails, bounds, TypeOK
<1> QED BY <1>2, <1>5, <1>6, <1>7, <1>9, <1>10

LEMMA OpenDoes ==
    ASSUME TypeInv, NEW t \in Threads, Open(t)
    PROVE  LET a == th[t]
               b == th'[t]
           IN  /\ th' \in [Threads -> Attempts] /\ a.pc = "open"
               /\ b.pc = After("open") /\ b.ver = a.ver /\ b.view = a.view
               /\ b.pos = a.pos /\ b.hash = a.hash /\ b.cancelled = a.cancelled
               /\ b.fd = temp' /\ temp' \in Files
               /\ temp # 0 => temp' = temp
               /\ temp = 0 => temp' # final
               /\ file' = IF temp = 0 \/ a.pos = 0 THEN [file EXCEPT ![temp'] = Empty] ELSE file
               /\ \A u \in Threads \ {t} : th'[u] = th[u]
               /\ UNCHANGED <<backend, src, durable, final, session, cur, bounds>>
<1>1. TypeOK /\ th[t] \in Attempts BY DEF TypeInv, TypeOK
<1>2. After("open") \in Points BY AfterAhead DEF Ahead
<1>3. PICK f \in Files :
         /\ IF temp # 0 THEN f = temp
            ELSE Unused(f) /\ \A g \in Files : Unused(g) => f <= g
         /\ temp' = f
         /\ file' = IF temp = 0 \/ th[t].pos = 0
                    THEN [file EXCEPT ![f] = Empty] ELSE file
         /\ th' = [th EXCEPT ![t].fd = f, ![t].pc = After("open")]
  BY DEF Open
<1> DEFINE b == [th[t] EXCEPT !.fd = f, !.pc = After("open")]
<1>4. f \in 0 .. MaxFiles BY TempAssumption DEF Files
<1>5. /\ b \in Attempts /\ b.pc = After("open") /\ b.ver = th[t].ver
      /\ b.view = th[t].view /\ b.pos = th[t].pos /\ b.hash = th[t].hash
      /\ b.cancelled = th[t].cancelled /\ b.fd = f
  BY <1>1, <1>2, <1>4 DEF Attempts
<1>6. th' = [th EXCEPT ![t] = b] BY <1>3
<1> HIDE DEF b
<1>7. th' \in [Threads -> Attempts] /\ th'[t] = b /\ \A u \in Threads \ {t} : th'[u] = th[u]
  BY <1>1, <1>5, <1>6, Put
<1>8. temp = 0 => f # final BY <1>3 DEF Unused
<1> QED BY <1>3, <1>5, <1>7, <1>8 DEF Open, At

LEMMA HashDoes ==
    ASSUME TypeInv, NEW t \in Threads, HashPrefix(t)
    PROVE  LET a == th[t]
               b == th'[t]
           IN  /\ th' \in [Threads -> Attempts] /\ a.pc = "hash" /\ backend # "local"
               /\ b.pc = After("hash") /\ b.ver = a.ver /\ b.view = a.view
               /\ b.pos = a.pos /\ b.fd = a.fd /\ b.cancelled = a.cancelled
               /\ b.hash = [c \in Chunks |->
                              IF c <= a.pos /\ c <= SizeOf[src] THEN src ELSE 0]
               /\ \A u \in Threads \ {t} : th'[u] = th[u]
               /\ UNCHANGED <<backend, src, durable, server, session, cur, bounds>>
<1>1. TypeOK /\ th[t] \in Attempts BY DEF TypeInv, TypeOK
<1>2. backend # "local" /\ th[t].pc = "hash" BY DEF HashPrefix, At, TypeInv, PathInv
<1>3. After("hash") \in Points BY <1>2, AfterAhead DEF Ahead
<1> DEFINE h == [c \in Chunks |->
                    IF c <= th[t].pos /\ c <= SizeOf[src] THEN src ELSE 0]
           b == [th[t] EXCEPT !.pc = After("hash"), !.hash = h]
<1>4. h \in [Chunks -> 0 .. MaxVersion]
  <2>1. src \in 0 .. MaxVersion /\ 0 \in 0 .. MaxVersion
    BY <1>1, TempAssumption DEF TypeOK, Versions
  <2> QED BY <2>1
<1>5. th' = [th EXCEPT ![t] = b] BY DEF HashPrefix
<1> HIDE DEF h
<1>6. /\ b \in Attempts /\ b.pc = After("hash") /\ b.ver = th[t].ver
      /\ b.view = th[t].view /\ b.pos = th[t].pos /\ b.hash = h
      /\ b.cancelled = th[t].cancelled /\ b.fd = th[t].fd
  BY <1>1, <1>3, <1>4 DEF Attempts
<1> HIDE DEF b
<1>7. th' \in [Threads -> Attempts] /\ th'[t] = b /\ \A u \in Threads \ {t} : th'[u] = th[u]
  BY <1>1, <1>5, <1>6, Put
<1> QED BY <1>2, <1>6, <1>7 DEF HashPrefix, h

LEMMA LoadDoes ==
    ASSUME TypeInv, NEW t \in Threads, Load(t)
    PROVE  LET a == th[t]
               b == th'[t]
           IN  /\ th' \in [Threads -> Attempts] /\ a.pc = "load"
               /\ b.pc = After("load") /\ b.ver = a.ver /\ b.view = src
               /\ b.pos = a.pos /\ b.fd = a.fd /\ b.cancelled = a.cancelled
               /\ b.hash = a.hash
               /\ \A u \in Threads \ {t} : th'[u] = th[u]
               /\ UNCHANGED <<backend, src, durable, server, session, cur, bounds>>
<1>1. TypeOK /\ th[t] \in Attempts /\ src \in Versions BY DEF TypeInv, TypeOK
<1>2. After("load") \in Points BY AfterAhead DEF Ahead
<1> DEFINE b == [th[t] EXCEPT !.pc = After("load"), !.view = src]
<1>3. th' = [th EXCEPT ![t] = b] BY DEF Load
<1>4. /\ b \in Attempts /\ b.pc = After("load") /\ b.ver = th[t].ver
      /\ b.view = src /\ b.pos = th[t].pos /\ b.hash = th[t].hash
      /\ b.cancelled = th[t].cancelled /\ b.fd = th[t].fd
  BY <1>1, <1>2 DEF Attempts
<1> HIDE DEF b
<1>5. th' \in [Threads -> Attempts] /\ th'[t] = b /\ \A u \in Threads \ {t} : th'[u] = th[u]
  BY <1>1, <1>3, <1>4, Put
<1> QED BY <1>4, <1>5 DEF Load, At

LEMMA StreamDoes ==
    ASSUME TypeInv, NEW t \in Threads, Stream(t)
    PROVE  LET a == th[t]
               b == th'[t]
               n == th[t].pos + 1
               f == th[t].fd
           IN  /\ th' \in [Threads -> Attempts] /\ a.pc = "stream"
               /\ b.pc = Loop \/ (b.pc = "persist" /\ backend # "local")
               /\ b.ver = a.ver /\ b.view = a.view /\ b.pos = n /\ b.fd = a.fd
               /\ b.cancelled = a.cancelled /\ b.hash = [a.hash EXCEPT ![n] = a.view]
               /\ n \in Chunks /\ n <= SizeOf[a.view]
               /\ file' \in [Files -> Contents]
               /\ \A g \in Files : g # f => file'[g] = file[g]
               /\ f \in Files => /\ file'[f].bytes = [file[f].bytes EXCEPT ![n] = a.view]
                                 /\ file'[f].len = IF file[f].len < n THEN n ELSE file[f].len
               /\ \A u \in Threads \ {t} : th'[u] = th[u]
               /\ UNCHANGED <<backend, src, durable, temp, final, session, cur, bounds>>
<1> DEFINE a == th[t]
           n == a.pos + 1
           local == backend = "local"
           due == ~local /\ a.since + 1 >= Every
           s == IF local \/ due THEN 0 ELSE a.since + 1
           p == IF due THEN "persist" ELSE Loop
           h == [a.hash EXCEPT ![n] = a.view]
           b == [a EXCEPT !.pos = n, !.hash = h, !.since = s, !.pc = p]
<1>1. TypeOK /\ a \in Attempts BY DEF TypeInv, TypeOK
<1>2. /\ a.pos \in 0 .. MaxChunks /\ a.view \in Versions /\ a.since \in 0 .. Every
      /\ a.hash \in [Chunks -> 0 .. MaxVersion]
  BY <1>1 DEF Attempts
<1>3. /\ At(t, "stream") /\ a.pos < SizeOf[a.view]
  BY DEF Stream, More
<1>4. SizeOf[a.view] \in 0 .. MaxChunks BY <1>2, TempAssumption
<1>5. n \in Chunks /\ n \in 0 .. MaxChunks /\ n <= SizeOf[a.view]
  <2> HIDE DEF a
  <2> QED BY <1>2, <1>3, <1>4, TempAssumption DEF Chunks
<1>6. s \in 0 .. Every
  <2> HIDE DEF a
  <2> QED BY <1>2, TempAssumption
<1>7. p \in Points /\ (p = Loop \/ (p = "persist" /\ backend # "local"))
  BY DEF Loop, Points, Blocking
<1>8. a.view \in 0 .. MaxVersion BY <1>2, TempAssumption DEF Versions
<1>9. h \in [Chunks -> 0 .. MaxVersion] BY <1>2, <1>5, <1>8
<1>10. th' = [th EXCEPT ![t] = b] BY DEF Stream
<1>11. /\ b \in Attempts /\ b.pc = p /\ b.ver = a.ver /\ b.view = a.view /\ b.pos = n
       /\ b.hash = h /\ b.cancelled = a.cancelled /\ b.fd = a.fd
  <2> HIDE DEF n, s, p, h, a
  <2> QED BY <1>1, <1>5, <1>6, <1>7, <1>9 DEF Attempts
<1>12. th' \in [Threads -> Attempts] /\ th'[t] = b /\ \A u \in Threads \ {t} : th'[u] = th[u]
  <2> HIDE DEF b
  <2> QED BY <1>1, <1>10, <1>11, Put
<1>13. /\ file' \in [Files -> Contents]
       /\ \A g \in Files : g # a.fd => file'[g] = file[g]
       /\ a.fd \in Files =>
            /\ file'[a.fd].bytes = [file[a.fd].bytes EXCEPT ![n] = a.view]
            /\ file'[a.fd].len = IF file[a.fd].len < n THEN n ELSE file[a.fd].len
  <2> DEFINE f == a.fd
             l == IF file[f].len < n THEN n ELSE file[f].len
             c == [len |-> l, bytes |-> [file[f].bytes EXCEPT ![n] = a.view]]
  <2>1. file' = [file EXCEPT ![f] = c] BY DEF Stream
  <2>2. file \in [Files -> Contents] BY <1>1 DEF TypeOK
  <2> HIDE DEF f, n, a
  <2>3. CASE f \in Files
    <3>1. file[f] \in Contents BY <2>2, <2>3
    <3>2. l \in 0 .. MaxChunks BY <1>5, <3>1 DEF Contents
    <3>3. [file[f].bytes EXCEPT ![n] = a.view] \in [Chunks -> 0 .. MaxVersion]
      BY <1>5, <1>8, <3>1 DEF Contents
    <3>4. c \in Contents /\ c.len = l /\ c.bytes = [file[f].bytes EXCEPT ![n] = a.view]
      <4> HIDE DEF l
      <4> QED BY <3>2, <3>3 DEF Contents
    <3> HIDE DEF c
    <3> QED BY <2>1, <2>2, <2>3, <3>4 DEF f
  <2>4. CASE f \notin Files
    <3>1. file' = file BY <2>1, <2>2, <2>4
    <3> QED BY <2>2, <2>4, <3>1 DEF f
  <2> QED BY <2>3, <2>4
<1>14. UNCHANGED <<backend, src, durable, temp, final, session, cur, bounds>> BY DEF Stream
<1> HIDE DEF b, p, h
<1> QED BY <1>3, <1>5, <1>7, <1>11, <1>12, <1>13, <1>14 DEF At, h

\* The producer: either every open handle shows the new version or none does.
LEMMA WrittenDoes ==
    ASSUME TypeInv, NEW v \in Versions, Written(v)
    PROVE  /\ th' \in [Threads -> Attempts]
           /\ \A t \in Threads :
                /\ th'[t].pc = th[t].pc /\ th'[t].ver = th[t].ver
                /\ th'[t].pos = th[t].pos /\ th'[t].hash = th[t].hash
                /\ th'[t].fd = th[t].fd /\ th'[t].cancelled = th[t].cancelled
           /\ (th' = th) \/ (\A t \in Threads : th'[t].view = v)
<1>1. th \in [Threads -> Attempts] BY DEF TypeInv, TypeOK
<1>2. CASE th' = th BY <1>1, <1>2
<1>3. CASE th' = [t \in Threads |-> [th[t] EXCEPT !.view = v]]
  <2>1. ASSUME NEW t \in Threads
        PROVE  LET b == [th[t] EXCEPT !.view = v]
               IN  /\ b \in Attempts /\ b.pc = th[t].pc /\ b.ver = th[t].ver
                   /\ b.pos = th[t].pos /\ b.hash = th[t].hash /\ b.fd = th[t].fd
                   /\ b.cancelled = th[t].cancelled /\ b.view = v
    <3>1. th[t] \in Attempts BY <1>1
    <3> QED BY <3>1 DEF Attempts
  <2> QED BY <1>3, <2>1
<1> QED BY <1>2, <1>3 DEF Written

LEMMA CrashDoes ==
    ASSUME TypeInv, Crash
    PROVE  /\ th' \in [Threads -> Attempts] /\ Cut(cur) /\ Active(cur)
           /\ \A t \in Threads : /\ th'[t].pc = "idle" /\ ~th'[t].cancelled
                                 /\ th'[t].ver = th[cur].ver
           /\ UNCHANGED <<backend, src, row, tries, temp, final, cur, fails, faults>>
           /\ session' = "none" /\ phase' = "pending" /\ cuts' \in Nat
<1> DEFINE a == [Fresh EXCEPT !.ver = th[cur].ver]
<1>1. th[cur].ver \in Versions /\ cuts \in Nat BY DEF TypeInv, TypeOK, Attempts
<1>2. a \in Attempts /\ a.pc = "idle" /\ a.ver = th[cur].ver /\ ~a.cancelled
  BY <1>1, FreshType
<1>3. th' = [t \in Threads |-> a] BY DEF Crash
<1> HIDE DEF a
<1> QED BY <1>1, <1>2, <1>3 DEF Crash, At, Active

LEMMA DetachDoes ==
    ASSUME TypeInv, Detach
    PROVE  LET b == th'[1]
           IN  /\ th' \in [Threads -> Attempts] /\ th'[2] = th[2]
               /\ b.pc = th[1].pc /\ b.ver = th[1].ver /\ b.view = th[1].view
               /\ b.pos = th[1].pos /\ b.hash = th[1].hash /\ b.fd = th[1].fd
               /\ b.cancelled /\ backend = "ftps" /\ th[1].pc \in Blocking
               /\ cur = 1 /\ cur' = 2 /\ phase' = "pending" /\ cuts' \in Nat
               /\ UNCHANGED <<backend, src, row, tries, server, session, fails, faults>>
<1> DEFINE b == [th[1] EXCEPT !.cancelled = TRUE]
<1>1. th[1] \in Attempts /\ TypeOK /\ cuts \in Nat /\ 1 \in Threads /\ 2 \in Threads \ {1}
  BY DEF TypeInv, TypeOK, Threads
<1>2. /\ b \in Attempts /\ b.pc = th[1].pc /\ b.ver = th[1].ver /\ b.view = th[1].view
      /\ b.pos = th[1].pos /\ b.hash = th[1].hash /\ b.fd = th[1].fd /\ b.cancelled
  BY <1>1 DEF Attempts
<1>3. th' = [th EXCEPT ![1] = b] BY DEF Detach
<1> HIDE DEF b
<1>4. th' \in [Threads -> Attempts] /\ th'[1] = b /\ th'[2] = th[2]
  BY <1>1, <1>2, <1>3, Put
<1> QED BY <1>1, <1>2, <1>4 DEF Detach

LEMMA TypeInit == Init => TypeInv
<1> SUFFICES ASSUME Init PROVE TypeInv OBVIOUS
<1>1. th \in [Threads -> Attempts] /\ PathInv
  BY FreshIs DEF Init, PathInv
<1>2. 0 \in 0 .. MaxChunks /\ 0 \in 0 .. MaxVersion /\ 0 \in 0 .. MaxFiles
      /\ 1 \in Versions
  BY TempAssumption DEF Versions
<1>3. Empty \in Contents BY <1>2 DEF Empty, Contents, NoBytes
<1>4. NoToken \in [ver : 0 .. MaxVersion, done : 0 .. MaxChunks]
  BY <1>2 DEF NoToken, Token
<1> HIDE DEF NoToken, Empty, Fresh
<1> QED BY <1>1, <1>2, <1>3, <1>4 DEF Init, TypeInv, TypeOK, Threads

LEMMA TypeStep == TypeInv /\ [Next]_vars => TypeInv'
<1> SUFFICES ASSUME TypeInv, [Next]_vars PROVE TypeInv' OBVIOUS
<1>0. /\ TypeOK /\ cur \in Threads /\ src \in Versions /\ src \in Nat
      /\ \A t \in Threads : th[t] \in Attempts
  BY DEF TypeInv, TypeOK, Versions
<1>1. NoToken \in [ver : 0 .. MaxVersion, done : 0 .. MaxChunks]
  <2>1. 0 \in 0 .. MaxChunks /\ 0 \in 0 .. MaxVersion BY TempAssumption
  <2> QED BY <2>1 DEF NoToken, Token
<1>2. \A t \in Threads : Token(th[t].ver, th[t].pos)
                           \in [ver : 0 .. MaxVersion, done : 0 .. MaxChunks]
  BY <1>0, TempAssumption DEF Token, Attempts, Versions
<1>3. ASSUME NEW t \in Threads, Walk(t) PROVE TypeInv'
  <2>1. PICK p : Ahead(p) /\ Moves(t, p) BY <1>3, WalkGoes
  <2>2. UNCHANGED <<backend, src, cur>> BY <1>3, WalkGoes
  <2>3. PathInv' BY <2>1, <2>2 DEF Ahead, Moves, PathInv, TypeInv
  <2>4. file' \in [Files -> Contents] BY <1>0, <1>3, WalkDoes, CutType DEF TypeOK
  <2>5. row' \in [ver : 0 .. MaxVersion, done : 0 .. MaxChunks]
    BY <1>0, <1>1, <1>2, <1>3, WalkDoes DEF TypeOK
  <2>6. temp' \in 0 .. MaxFiles /\ final' \in 0 .. MaxFiles
    BY <1>0, <1>3, WalkDoes, TempAssumption DEF TypeOK
  <2>7. /\ phase' \in {"pending", "verified", "exhausted"} /\ tries' \in Nat
        /\ session' \in {"none", "up", "dead"}
        /\ fails' \in Nat /\ faults' \in Nat /\ cuts' \in Nat
    BY <1>0, <1>3, WalkDoes DEF TypeOK
  <2> QED BY <1>0, <2>1, <2>2, <2>3, <2>4, <2>5, <2>6, <2>7 DEF TypeInv, TypeOK, Moves
<1>4. ASSUME NEW t \in Threads, Stop(t) PROVE TypeInv'
  <2>1. /\ Done(t) /\ UNCHANGED <<backend, src, cur, session, file>>
        /\ row' \in {row, NoToken} /\ (UNCHANGED <<temp, final>> \/ Renamed)
        /\ phase' \in {phase, "verified", "pending"}
        /\ tries' \in Nat /\ fails' \in Nat /\ faults' \in Nat /\ cuts' \in Nat
    BY <1>4, StopDoes
  <2>2. /\ th' \in [Threads -> Attempts] /\ th'[t].pc = "idle"
        /\ \A u \in Threads \ {t} : th'[u] = th[u]
    BY <1>0, <2>1, Ends
  <2>3. PathInv' BY <2>1, <2>2 DEF PathInv, TypeInv
  <2>4. temp' \in 0 .. MaxFiles /\ final' \in 0 .. MaxFiles
    BY <1>0, <2>1, TempAssumption DEF TypeOK, Renamed
  <2> QED BY <1>0, <1>1, <2>1, <2>2, <2>3, <2>4 DEF TypeInv, TypeOK
\* Steps that change the attempt of t and perhaps the files.
<1>5. ASSUME NEW t \in Threads, th' \in [Threads -> Attempts],
             \A u \in Threads \ {t} : th'[u] = th[u],
             backend = "local" => th'[t].pc \notin {"stat", "save", "hash", "persist"},
             UNCHANGED <<backend, src, durable, session, cur>>,
             file' \in [Files -> Contents], temp' \in 0 .. MaxFiles, final' = final,
             fails' \in Nat, faults' \in Nat, cuts' \in Nat
      PROVE  TypeInv'
  BY <1>0, <1>5 DEF TypeInv, TypeOK, PathInv, durable
<1>6. \A p : Ahead(p) /\ backend = "local" => p \notin {"stat", "save", "hash", "persist"}
  BY DEF Ahead
<1>7. ASSUME NEW t \in Threads, Stat(t) PROVE TypeInv'
  BY <1>0, <1>5, <1>7, StatDoes DEF TypeOK, server
<1>8. ASSUME NEW t \in Threads, Open(t) PROVE TypeInv'
  <2>1. Empty \in Contents
    <3>1. 0 \in 0 .. MaxChunks /\ 0 \in 0 .. MaxVersion BY TempAssumption
    <3> QED BY <3>1 DEF Empty, Contents, NoBytes
  <2>2. temp' \in Files /\ file' \in [Files -> Contents]
    <3> HIDE DEF Empty
    <3> QED BY <1>0, <1>8, <2>1, OpenDoes DEF TypeOK
  <2>3. temp' \in 0 .. MaxFiles BY <2>2, TempAssumption DEF Files
  <2>4. backend = "local" => After("open") \notin {"stat", "save", "hash", "persist"}
    BY <1>6, AfterAhead
  <2>5. fails' \in Nat /\ faults' \in Nat /\ cuts' \in Nat
    BY <1>0, <1>8 DEF Open, TypeOK, bounds
  <2> QED BY <1>5, <1>8, <2>2, <2>3, <2>4, <2>5, OpenDoes
<1>9. ASSUME NEW t \in Threads, HashPrefix(t) PROVE TypeInv'
  BY <1>0, <1>5, <1>9, HashDoes DEF TypeOK, server, bounds
<1>10. ASSUME NEW t \in Threads, Load(t) PROVE TypeInv'
  <2>1. backend = "local" => After("load") \notin {"stat", "save", "hash", "persist"}
    BY <1>6, AfterAhead
  <2> QED BY <1>0, <1>5, <1>10, <2>1, LoadDoes DEF TypeOK, server, bounds
<1>11. ASSUME NEW t \in Threads, Stream(t) PROVE TypeInv'
  <2>1. Loop \notin {"stat", "save", "hash", "persist"} BY DEF Loop
  <2>2. backend = "local" => th'[t].pc \notin {"stat", "save", "hash", "persist"}
    BY <1>11, <2>1, StreamDoes
  <2>3. /\ UNCHANGED <<temp, final>> /\ temp' \in 0 .. MaxFiles
        /\ fails' \in Nat /\ faults' \in Nat /\ cuts' \in Nat
    BY <1>0, <1>11 DEF Stream, TypeOK, bounds
  <2> QED BY <1>5, <1>11, <2>2, <2>3, StreamDoes
<1>12. CASE Begin
  <2>1. th'[cur].pc = "dial" BY <1>12, BeginDoes
  <2>2. /\ th' \in [Threads -> Attempts] /\ \A u \in Threads \ {cur} : th'[u] = th[u]
        /\ UNCHANGED <<backend, src, durable, server, session, cur, bounds>>
    BY <1>12, BeginDoes
  <2> QED BY <1>0, <1>5, <2>1, <2>2 DEF TypeOK, server, bounds
<1>13. CASE Crash
  <2>1. file' \in [Files -> Contents] BY <1>0, <1>13, CrashDoes, CutType
  <2> QED BY <1>0, <1>13, <2>1, CrashDoes DEF TypeInv, TypeOK, PathInv
<1>14. CASE Detach
  BY <1>0, <1>14, DetachDoes DEF TypeInv, TypeOK, PathInv, Threads, server
<1>15. CASE Rewrite \/ NewFile
  <2>1. src < MaxVersion /\ src' = src + 1 /\ Written(src + 1)
    BY <1>15 DEF Rewrite, NewFile
  <2>2. src + 1 \in Versions BY <1>0, <2>1, TempAssumption DEF Versions
  <2>3. th' \in [Threads -> Attempts] /\ \A t \in Threads : th'[t].pc = th[t].pc
    BY <2>1, <2>2, WrittenDoes
  <2>4. PathInv'
    <3>1. backend' = backend BY <1>15 DEF Rewrite, NewFile
    <3> QED BY <2>3, <3>1 DEF PathInv, TypeInv
  <2>5. /\ UNCHANGED <<backend, server, session, cur, bounds>>
        /\ row' \in {row, NoToken} /\ tries' \in Nat /\ phase' \in {phase, "pending"}
    BY <1>0, <1>15 DEF Rewrite, NewFile, durable, TypeOK
  <2> QED BY <1>0, <1>1, <2>1, <2>2, <2>3, <2>4, <2>5 DEF TypeInv, TypeOK, server, bounds
<1>16. CASE UNCHANGED vars
  BY <1>0, <1>16 DEF TypeInv, TypeOK, PathInv, vars, durable, server, bounds
<1> QED BY <1>0, <1>3, <1>4, <1>7, <1>8, <1>9, <1>10, <1>11, <1>12, <1>13, <1>14, <1>15,
         <1>16, Steps

\* The row, the server and the attempts keep their types (TempPublish!TypeOK):
\* no offset passes the largest file, whatever is resumed, cut or rewritten.
THEOREM TypeCorrect == Spec => []TypeOK
<1>1. TypeInv => TypeOK BY DEF TypeInv
<1> QED BY <1>1, TypeInit, TypeStep, PTL DEF Spec

-----------------------------------------------------------------------------
(* Who runs, and what the attempts have read. *)

\* A detached upload is thread 1, cancelled, beside thread 2; nothing runs
\* for a delivery that is over; and a local destination has no token.
RolesInv ==
    /\ cur = 1 => th[2].pc = "idle" /\ ~th[1].cancelled
    /\ cur = 2 => th[1].cancelled \/ th[1].pc = "idle"
    /\ ~th[2].cancelled
    /\ th[1].cancelled => backend = "ftps"
    /\ phase = "verified" => ~Active(cur)
    /\ backend = "local" => row = NoToken

\* An attempt reads the announced version or a later one, and its offset is
\* within it; a token of the newest version is within that.
ReadInv ==
    /\ \A t \in Threads : Active(t) =>
         /\ th[t].ver <= th[t].view /\ th[t].view <= src
         /\ th[t].pos <= SizeOf[th[t].view]
    /\ row.ver <= src
    /\ row.ver = src => row.done <= SizeOf[src]
    /\ \A f \in Files, c \in Chunks : file[f].bytes[c] <= src

BaseInv == TypeInv /\ RolesInv /\ ReadInv

\* A local attempt writes no token.
LEMMA WalkLocal ==
    ASSUME TypeInv, NEW t \in Threads, Walk(t), backend = "local"
    PROVE  row' \in {row, NoToken}
<1>1. ~SaveStart(t) /\ ~Persist(t) BY DEF SaveStart, Persist, At, TypeInv, PathInv
<1>2. CASE ClearToken(t) \/ (t = cur /\ Checkpoint)
  BY <1>2 DEF ClearToken, Checkpoint, Save
<1>3. CASE Broken(t)
  BY <1>3 DEF Broken, Lost, Denied, RenameUnsure, LocalError, RenameFails, durable
<1> QED BY <1>1, <1>2, <1>3 DEF Walk, Dial, Check, Finish, Rename, RenameRefused, Remove,
      RenameAgain, Abort, Verify, Invalidate, GiveUp, durable

LEMMA RolesStep ==
    ASSUME TypeInv, RolesInv, [Next]_vars
    PROVE  RolesInv'
<1>0. cur \in {1, 2} /\ 1 \in Threads /\ 2 \in Threads /\ Threads = {1, 2} /\ cur \in Threads
  BY DEF TypeInv, TypeOK, Threads
\* A running thread goes on.
<1>1. ASSUME NEW t \in Threads, Runs(t), Active(t), th'[t].cancelled = th[t].cancelled,
             \A u \in Threads \ {t} : th'[u] = th[u],
             phase' \in {phase, "exhausted"}, UNCHANGED <<backend, cur>>,
             backend = "local" => row' \in {row, NoToken}
      PROVE  RolesInv'
  <2>1. CASE t = 1 BY <1>0, <1>1, <2>1 DEF RolesInv, Runs, Active
  <2>2. CASE t = 2 BY <1>0, <1>1, <2>2 DEF RolesInv, Runs, Active
  <2> QED BY <1>0, <2>1, <2>2
<1>2. ASSUME NEW t \in Threads, Runs(t), Walk(t) PROVE RolesInv'
  <2>1. PICK p : Moves(t, p) BY <1>2, WalkGoes
  <2>2. Active(t) /\ UNCHANGED <<backend, cur>> BY <1>2, WalkGoes
  <2>3. phase' \in {phase, "exhausted"} BY <1>2, WalkDoes
  <2> QED BY <1>1, <1>2, <2>1, <2>2, <2>3, WalkLocal DEF Moves
<1>3. ASSUME NEW t \in Threads, Runs(t), Stop(t) PROVE RolesInv'
  <2>1. /\ Done(t) /\ UNCHANGED <<backend, cur>> /\ row' \in {row, NoToken}
        /\ TypeOK
    BY <1>3, StopDoes DEF TypeInv
  <2>2. /\ th'[t].pc = "idle" /\ ~th'[t].cancelled
        /\ \A u \in Threads \ {t} : th'[u] = th[u]
    BY <2>1, Ends
  <2>3. phase' = "verified" => t = cur \/ phase = "verified"
    BY <1>3 DEF Stop, Vanish, Retry, DropToken, Pause, durable
  <2>4. CASE t = 1 BY <1>0, <2>1, <2>2, <2>3, <2>4 DEF RolesInv, Active
  <2>5. CASE t = 2 BY <1>0, <2>1, <2>2, <2>3, <2>5 DEF RolesInv, Active
  <2> QED BY <1>0, <2>4, <2>5
<1>4. ASSUME NEW t \in Threads, Runs(t),
             Stat(t) \/ Open(t) \/ HashPrefix(t) \/ Load(t) \/ Stream(t)
      PROVE  RolesInv'
  <2>1. Active(t) /\ UNCHANGED <<backend, durable, cur>>
    BY <1>4 DEF Stat, Open, HashPrefix, Load, Stream, At, Active
  <2>2. th'[t].cancelled = th[t].cancelled /\ \A u \in Threads \ {t} : th'[u] = th[u]
    BY <1>4, StatDoes, OpenDoes, HashDoes, LoadDoes, StreamDoes
  <2> QED BY <1>1, <1>4, <2>1, <2>2 DEF durable
<1>5. CASE Begin
  <2>1. /\ ~th'[cur].cancelled /\ phase = "pending"
        /\ \A u \in Threads \ {cur} : th'[u] = th[u]
        /\ UNCHANGED <<backend, durable, cur>>
    BY <1>5, BeginDoes
  <2>2. CASE cur = 1 BY <1>0, <2>1, <2>2 DEF RolesInv, durable
  <2>3. CASE cur = 2 BY <1>0, <2>1, <2>3 DEF RolesInv, durable
  <2> QED BY <1>0, <2>2, <2>3
<1>6. CASE Crash BY <1>0, <1>6, CrashDoes DEF RolesInv
<1>7. CASE Detach BY <1>0, <1>7, DetachDoes DEF RolesInv
<1>8. CASE Rewrite \/ NewFile
  <2>1. src < MaxVersion /\ Written(src + 1) /\ src \in Versions
    BY <1>8 DEF Rewrite, NewFile, TypeInv, TypeOK
  <2>2. src + 1 \in Versions BY <2>1, TempAssumption DEF Versions
  <2>3. \A t \in Threads : th'[t].pc = th[t].pc /\ th'[t].cancelled = th[t].cancelled
    BY <2>1, <2>2, WrittenDoes
  <2>4. UNCHANGED <<backend, cur>> /\ phase' = "pending" /\ row' \in {row, NoToken}
    BY <1>8 DEF Rewrite, NewFile, durable
  <2> QED BY <1>0, <2>3, <2>4 DEF RolesInv
<1>9. CASE UNCHANGED vars BY <1>9 DEF RolesInv, vars, durable, Active
<1> QED BY <1>0, <1>2, <1>3, <1>4, <1>5, <1>6, <1>7, <1>8, <1>9, Steps

\* Sizes of versions.
LEMMA Sizes ==
    ASSUME Appending
    PROVE  /\ \A v \in Versions : SizeOf[v] \in Nat /\ v \in Nat /\ v > 0
           /\ \A v, w \in Versions : v <= w => SizeOf[v] <= SizeOf[w]
           /\ \A v, w \in Versions : v <= w /\ SizeOf[w] <= SizeOf[v] => v = w
<1>1. \A v \in Versions : SizeOf[v] \in Nat /\ v \in Nat /\ v > 0
  BY TempAssumption DEF Versions
<1> QED BY <1>1 DEF Appending

\* A file that is cut short has fewer bytes, and no others.
LEMMA CutBytes ==
    ASSUME TypeOK, NEW t \in Threads, Cut(t), NEW f \in Files, NEW c \in Chunks
    PROVE  file'[f].bytes[c] = file[f].bytes[c] \/ file'[f].bytes[c] = 0
<1>1. file[f].bytes \in [Chunks -> 0 .. MaxVersion] BY DEF TypeOK, Contents
<1>2. CASE file' = file BY <1>2
<1>3. CASE file' # file
  <2>1. CASE f # th[t].fd BY <1>3, <2>1, CutType
  <2>2. CASE f = th[t].fd
    <3>1. file'[f].bytes = [file[f].bytes EXCEPT ![th[t].pos] = 0]
      BY <1>3, <2>2, CutType
    <3> QED BY <1>1, <3>1
  <2> QED BY <2>1, <2>2
<1> QED BY <1>2, <1>3

LEMMA ReadStep ==
    ASSUME Appending, TypeInv, TypeInv', ReadInv, [Next]_vars
    PROVE  ReadInv'
<1>0. /\ TypeOK /\ src \in Versions /\ src \in Nat /\ src > 0 /\ cur \in Threads
      /\ \A t \in Threads : th[t] \in Attempts
      /\ \A t \in Threads : th[t].ver \in Versions /\ th[t].view \in Versions
                             /\ th[t].pos \in 0 .. MaxChunks
      /\ row.ver \in Nat /\ row.done \in Nat
      /\ \A f \in Files, c \in Chunks : file[f].bytes[c] \in Nat
  BY Sizes DEF TypeInv, TypeOK, Attempts, Contents
\* Reading and rows.
<1> DEFINE R(a, s) == /\ a.ver <= a.view /\ a.view <= s
                      /\ a.pos <= SizeOf[a.view]
           B(s) == \A f \in Files, c \in Chunks : file[f].bytes[c] <= s
<1>1. ASSUME src' = src, NEW t \in Threads, Active(t), \A u \in Threads \ {t} : th'[u] = th[u],
             Active(t)' => R(th'[t], src),
             row' \in {row, NoToken, Token(th[t].ver, th[t].pos)},
             B(src)'
      PROVE  ReadInv'
  <2>1. row'.ver <= src' /\ (row'.ver = src' => row'.done <= SizeOf[src'])
    <3>1. CASE row' = row BY <1>1, <3>1 DEF ReadInv
    <3>2. CASE row' = NoToken BY <1>0, <1>1, <3>2 DEF NoToken, Token
    <3>3. CASE row' = Token(th[t].ver, th[t].pos)
      <4>1. row'.ver = th[t].ver /\ row'.done = th[t].pos BY <3>3 DEF Token
      <4>2. /\ th[t].ver <= th[t].view /\ th[t].view <= src
            /\ th[t].pos <= SizeOf[th[t].view]
        BY <1>1 DEF ReadInv
      <4>3. /\ th[t].ver \in Nat /\ th[t].view \in Nat BY <1>0, Sizes
      <4> QED BY <1>0, <1>1, <4>1, <4>2, <4>3
    <3> QED BY <1>1, <3>1, <3>2, <3>3
  <2>2. \A u \in Threads : Active(u)' => R(th'[u], src') BY <1>1 DEF ReadInv, Active
  <2> QED BY <1>1, <2>1, <2>2 DEF ReadInv
<1>2. ASSUME NEW t \in Threads, file' = file \/ Cut(t) PROVE B(src)'
         \/ src' # src
  <2> SUFFICES ASSUME src' = src, NEW f \in Files, NEW c \in Chunks
               PROVE  file'[f].bytes[c] <= src
    OBVIOUS
  <2>1. file[f].bytes[c] <= src /\ 0 <= src BY <1>0 DEF ReadInv
  <2> QED BY <1>0, <1>2, <2>1, CutBytes
<1>3. ASSUME NEW t \in Threads, Walk(t) PROVE ReadInv'
  <2>1. PICK p : Moves(t, p) BY <1>3, WalkGoes
  <2>2. Active(t) /\ src' = src BY <1>3, WalkGoes
  <2>3. R(th'[t], src) BY <2>1, <2>2 DEF Moves, ReadInv
  <2>4. B(src)' BY <1>2, <1>3, <2>2, WalkDoes
  <2>5. row' \in {row, NoToken, Token(th[t].ver, th[t].pos)} BY <1>3, WalkDoes
  <2>6. \A u \in Threads \ {t} : th'[u] = th[u] BY <2>1 DEF Moves
  <2> QED BY <1>1, <2>2, <2>3, <2>4, <2>5, <2>6
<1>4. ASSUME NEW t \in Threads, Stop(t) PROVE ReadInv'
  <2>1. Done(t) /\ UNCHANGED <<src, file>> /\ row' \in {row, NoToken} BY <1>4, StopDoes
  <2>2. th'[t].pc = "idle" /\ \A u \in Threads \ {t} : th'[u] = th[u] BY <1>0, <2>1, Ends
  <2>3. Active(t)
    BY <1>4 DEF Stop, Vanish, MarkVerified, Retry, DropToken, Pause, At, Active
  <2>4. ~Active(t)' BY <2>2 DEF Active
  <2>5. B(src)' BY <2>1 DEF ReadInv
  <2> QED BY <1>1, <2>1, <2>2, <2>3, <2>4, <2>5
<1>5. ASSUME NEW t \in Threads, Stat(t) \/ Open(t) \/ HashPrefix(t) \/ Load(t) \/ Stream(t)
      PROVE  ReadInv'
  <2>1. /\ Active(t) /\ src' = src /\ row' = row
    BY <1>5 DEF Stat, Open, HashPrefix, Load, Stream, At, Active, durable
  <2>2. \A u \in Threads \ {t} : th'[u] = th[u]
    BY <1>5, StatDoes, OpenDoes, HashDoes, LoadDoes, StreamDoes
  <2>3. R(th[t], src) BY <2>1 DEF ReadInv
  <2>4. /\ th[t].ver \in Nat /\ th[t].view \in Nat /\ SizeOf[th[t].view] \in Nat
        /\ SizeOf[th[t].view] <= SizeOf[src] /\ SizeOf[src] \in Nat
    BY <1>0, <2>3, Sizes
  <2>5. CASE Stat(t)
    <3>1. /\ th'[t].ver = th[t].ver /\ th'[t].view = th[t].view
          /\ th'[t].pos <= th[t].pos /\ th'[t].pos \in 0 .. MaxChunks /\ file' = file
      BY <2>5, StatDoes DEF server
    <3>2. R(th'[t], src) BY <1>0, <2>3, <2>4, <3>1
    <3>3. B(src)' BY <2>1, <3>1 DEF ReadInv
    <3> QED BY <1>1, <2>1, <2>2, <3>2, <3>3
  <2>6. CASE Open(t)
    <3>1. /\ th'[t].ver = th[t].ver /\ th'[t].view = th[t].view /\ th'[t].pos = th[t].pos
          /\ file' = file \/ file' = [file EXCEPT ![temp'] = Empty]
      BY <2>6, OpenDoes
    <3>2. \A c \in Chunks : Empty.bytes[c] = 0 BY DEF Empty, NoBytes
    <3>3. \A f \in Files : file'[f] = file[f] \/ file'[f] = Empty
      BY <1>0, <3>1 DEF TypeOK
    <3>4. B(src)' BY <1>0, <2>1, <3>2, <3>3 DEF ReadInv
    <3> QED BY <1>1, <2>1, <2>2, <2>3, <3>1, <3>4
  <2>7. CASE HashPrefix(t)
    <3>1. /\ th'[t].ver = th[t].ver /\ th'[t].view = th[t].view /\ th'[t].pos = th[t].pos
          /\ file' = file
      BY <2>7, HashDoes DEF server
    <3>2. B(src)' BY <2>1, <3>1 DEF ReadInv
    <3> QED BY <1>1, <2>1, <2>2, <2>3, <3>1, <3>2
  <2>8. CASE Load(t)
    <3>1. /\ th'[t].ver = th[t].ver /\ th'[t].view = src /\ th'[t].pos = th[t].pos
          /\ file' = file
      BY <2>8, LoadDoes DEF server
    <3>2. R(th'[t], src) BY <1>0, <2>3, <2>4, <3>1
    <3>3. B(src)' BY <2>1, <3>1 DEF ReadInv
    <3> QED BY <1>1, <2>1, <2>2, <3>2, <3>3
  <2>9. CASE Stream(t)
    <3> DEFINE n == th[t].pos + 1
    <3>1. /\ th'[t].ver = th[t].ver /\ th'[t].view = th[t].view /\ th'[t].pos = n
          /\ n <= SizeOf[th[t].view] /\ n \in Chunks
      BY <2>9, StreamDoes
    <3>2. R(th'[t], src) BY <2>3, <3>1
    <3>3. ASSUME NEW f \in Files, NEW c \in Chunks PROVE file'[f].bytes[c] <= src
      <4>1. CASE f # th[t].fd
        <5>1. file'[f] = file[f] BY <2>9, <4>1, StreamDoes
        <5> QED BY <5>1 DEF ReadInv
      <4>2. CASE f = th[t].fd
        <5>1. file'[f].bytes = [file[f].bytes EXCEPT ![n] = th[t].view]
          BY <2>9, <4>2, StreamDoes
        <5>2. file[f].bytes \in [Chunks -> 0 .. MaxVersion] /\ file[f].bytes[c] <= src
          BY <1>0 DEF TypeOK, Contents, ReadInv
        <5> QED BY <2>3, <5>1, <5>2
      <4> QED BY <4>1, <4>2
    <3> QED BY <1>1, <2>1, <2>2, <3>2, <3>3
  <2> QED BY <1>5, <2>5, <2>6, <2>7, <2>8, <2>9
<1>6. CASE Begin
  <2>1. /\ th'[cur].ver = src /\ th'[cur].view = src
        /\ th'[cur].pos = IF row.ver = src THEN row.done ELSE 0
        /\ \A u \in Threads \ {cur} : th'[u] = th[u]
        /\ UNCHANGED <<src, row, file>>
    BY <1>6, BeginDoes DEF durable, server
  <2>2. R(th'[cur], src) BY <1>0, <2>1, Sizes DEF ReadInv
  <2>3. \A u \in Threads : Active(u)' => R(th'[u], src) BY <2>1, <2>2 DEF ReadInv, Active
  <2> QED BY <2>1, <2>3 DEF ReadInv
<1>7. CASE Crash
  <2>1. /\ \A t \in Threads : ~Active(t)'
        /\ UNCHANGED <<src, row>> /\ Cut(cur)
    BY <1>7, CrashDoes DEF Active
  <2>2. B(src)' BY <1>0, <1>2, <2>1
  <2> QED BY <2>1, <2>2 DEF ReadInv
<1>8. CASE Detach
  <2>1. /\ \A t \in Threads : /\ th'[t].pc = th[t].pc /\ th'[t].ver = th[t].ver
                              /\ th'[t].view = th[t].view /\ th'[t].pos = th[t].pos
        /\ UNCHANGED <<src, row, file>>
    BY <1>8, DetachDoes DEF server, Threads
  <2> QED BY <2>1 DEF ReadInv, Active
<1>9. CASE Rewrite \/ NewFile
  <2>1. /\ src < MaxVersion /\ src' = src + 1 /\ Written(src + 1) /\ file' = file
        /\ row' \in {row, NoToken}
    BY <1>9 DEF Rewrite, NewFile, server, durable
  <2>2. src + 1 \in Versions BY <1>0, <2>1, TempAssumption DEF Versions
  <2>3. \A t \in Threads : /\ th'[t].pc = th[t].pc /\ th'[t].ver = th[t].ver
                           /\ th'[t].pos = th[t].pos
    BY <2>1, <2>2, WrittenDoes
  <2>4. (th' = th) \/ (\A t \in Threads : th'[t].view = src + 1)
    BY <2>1, <2>2, WrittenDoes
  <2>5. ASSUME NEW t \in Threads, Active(t)' PROVE R(th'[t], src')
    <3>1. Active(t) BY <2>3, <2>5 DEF Active
    <3>2. R(th[t], src) BY <3>1 DEF ReadInv
    <3>3. /\ th[t].ver \in Nat /\ th[t].view \in Nat /\ SizeOf[th[t].view] \in Nat
          /\ SizeOf[src + 1] \in Nat /\ SizeOf[th[t].view] <= SizeOf[src + 1]
      <4>1. th[t].ver \in Nat /\ th[t].view \in Nat /\ SizeOf[th[t].view] \in Nat
            /\ SizeOf[src + 1] \in Nat
        BY <1>0, <2>2, Sizes
      <4>2. th[t].view <= src + 1 BY <1>0, <3>2, <4>1
      <4> QED BY <1>0, <2>2, <4>1, <4>2, Sizes
    <3>4. CASE th' = th BY <1>0, <2>1, <3>2, <3>3, <3>4
    <3>5. CASE th'[t].view = src + 1 BY <1>0, <2>1, <2>3, <3>2, <3>3, <3>5
    <3> QED BY <2>4, <3>4, <3>5
  <2>6. row'.ver < src'
    <3>1. NoToken.ver = 0 BY DEF NoToken, Token
    <3> QED BY <1>0, <2>1, <3>1 DEF ReadInv
  <2>7. row'.ver \in Nat /\ src' \in Nat BY <1>0, <2>1 DEF TypeInv, TypeOK, NoToken, Token
  <2>8. \A f \in Files, c \in Chunks : file'[f].bytes[c] <= src'
    BY <1>0, <2>1 DEF ReadInv
  <2> QED BY <2>5, <2>6, <2>7, <2>8 DEF ReadInv
<1>10. CASE UNCHANGED vars BY <1>10 DEF ReadInv, vars, durable, server, Active
<1> QED BY <1>0, <1>3, <1>4, <1>5, <1>6, <1>7, <1>8, <1>9, <1>10, Steps

LEMMA BaseInit == Init => BaseInv
<1> SUFFICES ASSUME Init PROVE BaseInv OBVIOUS
<1>1. TypeInv BY TypeInit
<1>2. \A t \in Threads : th[t].pc = "idle" /\ ~th[t].cancelled BY FreshIs DEF Init
<1>3. \A f \in Files, c \in Chunks : file[f].bytes[c] = 0
  BY DEF Init, Empty, NoBytes
<1>4. row.ver = 0 /\ src = 1 BY DEF Init, NoToken, Token
<1>5. ReadInv BY <1>2, <1>3, <1>4 DEF ReadInv, Active
<1>6. RolesInv BY <1>2 DEF Init, RolesInv, Threads
<1> QED BY <1>1, <1>5, <1>6 DEF BaseInv

LEMMA BaseStep ==
    ASSUME Appending, BaseInv, [Next]_vars
    PROVE  BaseInv'
<1>1. TypeInv' BY TypeStep DEF BaseInv
<1>2. RolesInv' BY RolesStep DEF BaseInv
<1>3. ReadInv' BY <1>1, ReadStep DEF BaseInv
<1> QED BY <1>1, <1>2, <1>3 DEF BaseInv

-----------------------------------------------------------------------------
(* What an attempt has hashed. *)

Streaming == {"check", "stream", "persist"}
Publishing == {"rename", "remove", "again", "clear", "verify"}
Sending == {"dial", "stat", "open", "save", "hash", "load"} \cup Streaming

\* Where the hash covers all that lies before the offset.
Hashed == Publishing \cup Streaming
           \cup (IF backend = "sftp" THEN {"load"}
                 ELSE IF backend = "ftps" THEN {"save", "open"} ELSE {})

\* A detached upload that still has a chunk to write.
Writes(t) == th[t].cancelled /\ th[t].pc = "stream"

\* No byte later than version v is on the server, or on its way.
Low(v) ==
    /\ \A f \in Files, c \in Chunks : file[f].bytes[c] <= v
    /\ \A t \in Threads : Writes(t) => th[t].view <= v

\* No byte of version h is on the server, or on its way.
Absent(h) ==
    /\ \A f \in Files, c \in Chunks : file[f].bytes[c] # h
    /\ \A t \in Threads : Writes(t) => th[t].view # h

\* The hash has no version before the announced one, and no holes ...
Shape(a) ==
    /\ a.pc \in Hashed => \A c \in Chunks :
         IF c <= a.pos THEN a.ver <= a.hash[c] /\ a.hash[c] <= src
                       ELSE a.hash[c] = 0
    /\ backend = "local" /\ a.pc \in {"dial", "load", "open"} =>
         a.pos = 0 /\ a.hash = NoBytes

\* ... and once the whole file is read, what is later in it is nowhere else:
\* the source was replaced under hash_prefix, and nobody has opened it since.
Checked(a) ==
    /\ a.pc \in Sending /\ a.view = a.ver => Low(a.ver)
    /\ a.pc \in Publishing /\ (backend # "local" \/ a.view = a.ver) =>
         /\ a.pos = SizeOf[a.ver]
         /\ \A c \in Chunks : a.hash[c] > a.ver => Absent(a.hash[c])

HashInv == Shape(th[cur]) /\ Checked(th[cur])

\* Where a walking thread may come from.
LEMMA WalkFlow ==
    ASSUME TypeInv, NEW t \in Threads, Walk(t)
    PROVE  LET p == th[t].pc
               q == th'[t].pc
           IN  /\ q \in Hashed => p \in Hashed
               /\ backend = "local" /\ q \in {"dial", "load", "open"} =>
                    p \in {"dial", "load", "open"}
               /\ q \in Sending => p \in Sending
               /\ q \in Publishing => \/ p \in Publishing
                                      \/ Finish(t) /\ SizeHeld(t) /\ p = "stream"
               /\ backend = "ftps" /\ th[t].cancelled => q # "stream"
<1>0. backend \in {"sftp", "ftps", "local"} /\ TypeOK
  BY TempAssumption DEF TypeInv, TypeOK
<1>1. \A p \in Points : Go(t, p) => th'[t].pc = p BY <1>0, Goes DEF Moves
<1>2. /\ After("dial") = IF backend = "local" THEN "load" ELSE "stat"
      /\ After("publish") \in {"clear", "verify"}
      /\ backend = "sftp" => After("save") = "hash"
      /\ backend = "ftps" => After("save") = "open"
  BY <1>0, AfterSftp, AfterFtps, AfterLocal
<1>3. \A p \in Blocking \cup {"mark", "checkpoint", "transient", "failed", "refused", "drop"} :
          p \in Points
  BY DEF Points
\* Steps that leave the attempt's way.
<1>4. ASSUME NEW q \in {"transient", "failed", "refused", "drop", "abort", "mark",
                        "checkpoint"},
             Go(t, q)
      PROVE  /\ th'[t].pc = q /\ q \notin Hashed \cup Sending \cup Publishing
  <2>1. q \in Points BY DEF Points, Blocking
  <2> QED BY <1>1, <1>4, <2>1 DEF Hashed, Sending, Publishing, Streaming
<1>5. CASE Dial(t)
  <2>1. CASE Go(t, "transient") BY <1>4, <2>1 DEF Sending, Streaming
  <2>2. CASE Go(t, After("dial"))
    <3>1. After("dial") \in Points BY <1>2, <1>3 DEF Blocking
    <3>2. th'[t].pc = After("dial") /\ th[t].pc = "dial"
      BY <1>1, <1>5, <2>2, <3>1 DEF Dial, At
    <3> QED BY <1>2, <3>2 DEF Hashed, Sending, Publishing, Streaming
  <2> QED BY <1>5, <2>1, <2>2 DEF Dial
<1>6. CASE SaveStart(t)
  <2>1. backend # "local" /\ th[t].pc = "save" /\ Go(t, After("save"))
    BY <1>6 DEF SaveStart, At, TypeInv, PathInv
  <2>2. After("save") \in Points BY <1>0, <1>2, <1>3, <2>1 DEF Blocking
  <2>3. th'[t].pc = After("save") BY <1>1, <2>1, <2>2
  <2> QED BY <1>0, <1>2, <2>1, <2>3 DEF Hashed, Sending, Publishing, Streaming
<1>7. CASE Check(t) \/ Persist(t)
  <2>1. /\ th[t].pc \in {"check", "persist"}
        /\ \/ Go(t, "stream") /\ ~th[t].cancelled
           \/ Go(t, Loop)
    BY <1>7 DEF Check, Persist, At
  <2>2. th'[t].pc \in {"stream", "check"} /\ (th'[t].pc = "stream" => ~th[t].cancelled \/ backend # "ftps")
    <3>1. "stream" \in Points /\ "check" \in Points BY DEF Points, Blocking
    <3> QED BY <1>1, <2>1, <3>1 DEF Loop
  <2> QED BY <2>1, <2>2 DEF Hashed, Sending, Publishing, Streaming
<1>8. CASE Finish(t)
  <2>1. CASE SizeHeld(t)
    <3>1. th[t].pc = "stream" /\ Go(t, "rename") BY <1>8, <2>1 DEF Finish, At
    <3>2. th'[t].pc = "rename" BY <1>1, <1>3, <3>1 DEF Blocking
    <3> QED BY <1>8, <2>1, <3>1, <3>2 DEF Hashed, Sending, Publishing, Streaming
  <2>2. CASE ~SizeHeld(t)
    <3>1. Go(t, "transient") BY <1>8, <2>2 DEF Finish
    <3> QED BY <1>4, <3>1 DEF Sending
  <2> QED BY <2>1, <2>2
<1>9. CASE Rename(t) \/ RenameRefused(t) \/ Remove(t) \/ RenameAgain(t) \/ ClearToken(t)
           \/ RenameUnsure(t)
  <2>1. th[t].pc \in Publishing
    BY <1>9 DEF Rename, RenameRefused, Remove, RenameAgain, ClearToken, RenameUnsure,
         At, Publishing
  <2>2. \/ \E q \in Publishing : Go(t, q)
        \/ \E q \in {"transient", "refused"} : Go(t, q)
    BY <1>2, <1>9 DEF Rename, RenameRefused, Remove, RenameAgain, ClearToken, RenameUnsure,
         Classified, Publishing
  <2>3. CASE \E q \in Publishing : Go(t, q)
    <3>1. th'[t].pc \in Publishing BY <1>1, <1>3, <2>3 DEF Publishing, Blocking
    <3> QED BY <2>1, <3>1 DEF Hashed, Sending, Publishing, Streaming
  <2>4. CASE \E q \in {"transient", "refused"} : Go(t, q)
    BY <1>4, <2>4 DEF Sending, Streaming
  <2> QED BY <2>2, <2>3, <2>4
<1>10. CASE \/ Abort(t) \/ Lost(t) \/ Denied(t) \/ LocalError(t) \/ RenameFails(t)
            \/ (t = cur /\ (Verify \/ Checkpoint \/ Invalidate \/ GiveUp))
  <2>1. \E q \in {"transient", "failed", "refused", "drop", "abort", "mark",
                  "checkpoint"} : Go(t, q)
    BY <1>10 DEF Abort, Lost, Denied, LocalError, RenameFails, Classified, Verify,
         Checkpoint, Invalidate, GiveUp
  <2> QED BY <1>4, <2>1 DEF Sending, Streaming
<1> QED BY <1>5, <1>6, <1>7, <1>8, <1>9, <1>10 DEF Walk, Broken

\* What is written is of a detached upload, or a hole.
Quiet ==
    /\ \A f \in Files, c \in Chunks :
         \/ file'[f].bytes[c] = file[f].bytes[c] \/ file'[f].bytes[c] = 0
         \/ \E t \in Threads : Writes(t) /\ file'[f].bytes[c] = th[t].view
    /\ \A t \in Threads : Writes(t)' => Writes(t) /\ th'[t].view = th[t].view

\* Such steps keep bounds and absences.
LEMMA EnvKept ==
    ASSUME Quiet
    PROVE  /\ \A v \in Nat : Low(v) => Low(v)'
           /\ \A h \in Nat \ {0} : Absent(h) => Absent(h)'
<1>1. ASSUME NEW v \in Nat, Low(v) PROVE Low(v)' BY <1>1 DEF Low, Quiet
<1>2. ASSUME NEW h \in Nat \ {0}, Absent(h) PROVE Absent(h)' BY <1>2 DEF Absent, Quiet
<1> QED BY <1>1, <1>2

\* What is not idle is known; the current thread is not cancelled.
LEMMA BaseFacts ==
    ASSUME Appending, BaseInv
    PROVE  /\ TypeInv /\ TypeOK /\ cur \in Threads /\ src \in Versions /\ src \in Nat /\ src > 0
           /\ backend \in {"sftp", "ftps", "local"}
           /\ ~th[cur].cancelled
           /\ \A t \in Threads : th[t].cancelled => backend = "ftps" /\ t # cur
           /\ \A t \in Threads : /\ th[t].ver \in Versions /\ th[t].view \in Versions
                                 /\ th[t].ver \in Nat /\ th[t].view \in Nat
                                 /\ th[t].ver > 0 /\ th[t].pos \in Nat
                                 /\ SizeOf[th[t].ver] \in Nat /\ SizeOf[th[t].view] \in Nat
                                 /\ th[t].hash \in [Chunks -> 0 .. MaxVersion]
           /\ \A t \in Threads : Active(t) =>
                /\ th[t].ver <= th[t].view /\ th[t].view <= src
                /\ th[t].pos <= SizeOf[th[t].view] /\ SizeOf[th[t].view] <= SizeOf[src]
           /\ \A f \in Files, c \in Chunks : file[f].bytes[c] <= src
                                              /\ file[f].bytes[c] \in Nat
<1>1. /\ TypeInv /\ TypeOK /\ cur \in Threads /\ cur \in {1, 2} /\ src \in Versions
      /\ \A t \in Threads : th[t] \in Attempts
      /\ backend \in {"sftp", "ftps", "local"}
  BY TempAssumption DEF BaseInv, TypeInv, TypeOK, Threads
<1>2. src \in Nat /\ src > 0 BY <1>1, Sizes
<1>3. \A t \in Threads : /\ th[t].ver \in Versions /\ th[t].view \in Versions
                         /\ th[t].pos \in Nat
                         /\ th[t].hash \in [Chunks -> 0 .. MaxVersion]
  BY <1>1 DEF Attempts
<1>4. \A t \in Threads : /\ th[t].ver \in Nat /\ th[t].view \in Nat /\ th[t].ver > 0
                         /\ SizeOf[th[t].ver] \in Nat /\ SizeOf[th[t].view] \in Nat
  BY <1>3, Sizes
<1>5. ~th[cur].cancelled BY <1>1 DEF BaseInv, RolesInv
<1>6. \A t \in Threads : th[t].cancelled => backend = "ftps" /\ t # cur
  BY <1>5 DEF BaseInv, RolesInv, Threads
<1>7. \A t \in Threads : Active(t) =>
                /\ th[t].ver <= th[t].view /\ th[t].view <= src
                /\ th[t].pos <= SizeOf[th[t].view]
  BY DEF BaseInv, ReadInv
<1>8. \A t \in Threads : Active(t) => SizeOf[th[t].view] <= SizeOf[src]
  BY <1>1, <1>3, <1>7, Sizes
<1>9. \A f \in Files, c \in Chunks : file[f].bytes[c] <= src /\ file[f].bytes[c] \in Nat
  BY <1>1 DEF BaseInv, ReadInv, TypeOK, Contents
<1> QED BY <1>1, <1>2, <1>3, <1>4, <1>5, <1>6, <1>7, <1>8, <1>9

\* The current attempt is where its invariant already held.
LEMMA HashKept ==
    ASSUME Appending, BaseInv, HashInv, UNCHANGED <<backend, cur>>, Quiet, Shape(th[cur])',
           th'[cur].ver = th[cur].ver, th'[cur].view = th[cur].view,
           th'[cur].pc \in Sending => th[cur].pc \in Sending,
           th'[cur].pc \in Publishing => /\ th[cur].pc \in Publishing
                                         /\ th'[cur].pos = th[cur].pos
                                         /\ th'[cur].hash = th[cur].hash
    PROVE  HashInv'
<1> DEFINE a == th[cur]
           b == th'[cur]
<1>1. (\A v \in Nat : Low(v) => Low(v)') /\ (\A h \in Nat \ {0} : Absent(h) => Absent(h)')
  BY EnvKept
<1>2. ASSUME b.pc \in Sending, b.view = b.ver
      PROVE  /\ \A f \in Files, c \in Chunks : file'[f].bytes[c] <= b.ver
             /\ \A t \in Threads : Writes(t)' => th'[t].view <= b.ver
  <2>1. PICK v \in Nat : v = a.ver BY BaseFacts
  <2>2. Low(v) BY <1>2, <2>1 DEF HashInv, Checked
  <2>3. Low(v)' BY <1>1, <2>2
  <2> QED BY <2>1, <2>3 DEF Low
<1>3. ASSUME b.pc \in Publishing, backend # "local" \/ b.view = b.ver
      PROVE  /\ b.pos = SizeOf[b.ver]
             /\ \A c \in Chunks : b.hash[c] > b.ver =>
                  /\ \A f \in Files, d \in Chunks : file'[f].bytes[d] # b.hash[c]
                  /\ \A t \in Threads : Writes(t)' => th'[t].view # b.hash[c]
  <2>1. /\ a.pos = SizeOf[a.ver] /\ b.pos = a.pos /\ b.hash = a.hash
        /\ \A c \in Chunks : a.hash[c] > a.ver => Absent(a.hash[c])
    BY <1>3 DEF HashInv, Checked
  <2>2. ASSUME NEW c \in Chunks, b.hash[c] > b.ver
        PROVE  /\ \A f \in Files, d \in Chunks : file'[f].bytes[d] # b.hash[c]
               /\ \A t \in Threads : Writes(t)' => th'[t].view # b.hash[c]
    <3>1. a.hash[c] \in Nat /\ a.ver \in Nat BY BaseFacts
    <3>2. PICK h \in Nat \ {0} : h = a.hash[c] BY <2>1, <2>2, <3>1
    <3>3. Absent(h)' BY <1>1, <2>1, <2>2, <3>2
    <3> QED BY <2>1, <3>2, <3>3 DEF Absent
  <2> QED BY <2>1, <2>2
<1>4. Checked(th[cur])' BY <1>2, <1>3 DEF Checked, Low, Absent
<1> QED BY <1>4 DEF HashInv

\* Steps of the current thread, and steps of a detached one.
LEMMA HashStep ==
    ASSUME Appending, BaseInv, HashInv, [Next]_vars
    PROVE  HashInv'
<1> DEFINE a == th[cur]
           b == th'[cur]
           Same == /\ b.ver = a.ver /\ b.view = a.view /\ b.pos = a.pos /\ b.hash = a.hash
<1>0. /\ TypeInv /\ TypeOK /\ cur \in Threads /\ src \in Nat /\ src > 0
      /\ backend \in {"sftp", "ftps", "local"} /\ ~a.cancelled
  BY BaseFacts
<1>a. \A t \in Threads : th[t].cancelled => backend = "ftps" /\ t # cur BY BaseFacts
\* The shape of a hash depends on little.
<1>b. ASSUME UNCHANGED <<backend, src, cur>>, b.ver = a.ver, b.pos = a.pos, b.hash = a.hash,
             b.pc \in Hashed => a.pc \in Hashed,
             backend = "local" /\ b.pc \in {"dial", "load", "open"}
               => a.pc \in {"dial", "load", "open"}
      PROVE  Shape(th[cur])'
  <2>1. Hashed' = Hashed BY <1>b DEF Hashed
  <2> QED BY <1>b, <2>1 DEF HashInv, Shape
\* A step of one thread that writes no byte.
<1>c. ASSUME NEW t \in Threads, \A u \in Threads \ {t} : th'[u] = th[u],
             th'[t].cancelled = th[t].cancelled \/ ~th'[t].cancelled,
             th'[t].cancelled => th'[t].pc # "stream",
             \A f \in Files, c \in Chunks :
               file'[f].bytes[c] = file[f].bytes[c] \/ file'[f].bytes[c] = 0
      PROVE  Quiet
  BY <1>c DEF Quiet, Writes
\* A detached thread's step leaves the current attempt alone.
<1>d. ASSUME UNCHANGED <<backend, src, cur>>, Quiet, th'[cur] = th[cur]
      PROVE  HashInv'
  <2>1. Shape(th[cur])' BY <1>b, <1>d
  <2> QED BY <1>d, <2>1, HashKept
<1>1. ASSUME NEW t \in Threads, Runs(t), Walk(t) PROVE HashInv'
  <2>1. PICK p : Moves(t, p) BY <1>0, <1>1, WalkGoes
  <2>2. UNCHANGED <<backend, src, cur>> BY <1>0, <1>1, WalkGoes
  <2>3. file' = file \/ Cut(t) BY <1>0, <1>1, WalkDoes
  <2>4. \A f \in Files, c \in Chunks :
          file'[f].bytes[c] = file[f].bytes[c] \/ file'[f].bytes[c] = 0
    BY <1>0, <2>3, CutBytes
  <2>5. /\ th'[t].cancelled = th[t].cancelled /\ \A u \in Threads \ {t} : th'[u] = th[u]
    BY <2>1 DEF Moves
  <2>6. th[t].cancelled => th'[t].pc # "stream" BY <1>0, <1>1, <1>a, WalkFlow
  <2>7. Quiet BY <1>c, <2>4, <2>5, <2>6
  <2>8. CASE t # cur BY <1>0, <1>d, <2>2, <2>5, <2>7, <2>8
  <2>9. CASE t = cur
    <3>1. Same BY <2>1, <2>9 DEF Moves
    <3>2. /\ b.pc \in Hashed => a.pc \in Hashed
          /\ backend = "local" /\ b.pc \in {"dial", "load", "open"} =>
               a.pc \in {"dial", "load", "open"}
          /\ b.pc \in Sending => a.pc \in Sending
          /\ b.pc \in Publishing => \/ a.pc \in Publishing
                                    \/ Finish(cur) /\ SizeHeld(cur) /\ a.pc = "stream"
      BY <1>0, <1>1, <2>9, WalkFlow
    <3>3. Shape(th[cur])' BY <1>b, <2>2, <3>1, <3>2
    <3>4. CASE b.pc \in Publishing => a.pc \in Publishing
      BY <2>2, <2>7, <3>1, <3>2, <3>3, <3>4, HashKept
    <3>5. CASE ~(b.pc \in Publishing => a.pc \in Publishing)
      <4>1. /\ b.pc \in Publishing /\ Finish(cur) /\ SizeHeld(cur) /\ a.pc = "stream"
            /\ b.pc \notin Sending
        BY <3>2, <3>5 DEF Publishing, Sending, Streaming
      <4>2. /\ a.ver \in Versions /\ a.view \in Versions /\ a.ver <= a.view
            /\ a.pos <= SizeOf[a.view] /\ SizeOf[a.view] \in Nat /\ a.pos \in Nat
            /\ a.ver \in Nat /\ a.ver > 0 /\ a.hash \in [Chunks -> 0 .. MaxVersion]
        BY <1>0, <4>1, BaseFacts DEF Active
      <4>3. SizeOf[a.view] <= a.pos BY <4>1, <4>2 DEF Finish, More
      <4>4. ASSUME backend # "local" \/ a.view = a.ver
            PROVE  a.view = a.ver /\ a.pos = SizeOf[a.ver]
        <5>1. CASE backend # "local"
          <6>1. a.pos = SizeOf[a.ver] BY <4>1, <5>1 DEF SizeHeld
          <6> QED BY <4>2, <4>3, <6>1, Sizes
        <5>2. CASE a.view = a.ver BY <4>2, <4>3, <5>2
        <5> QED BY <4>4, <5>1, <5>2
      <4>5. ASSUME backend # "local" \/ a.view = a.ver, NEW c \in Chunks, a.hash[c] > a.ver
            PROVE  /\ \A f \in Files, d \in Chunks : file'[f].bytes[d] # a.hash[c]
                   /\ \A u \in Threads : Writes(u)' => th'[u].view # a.hash[c]
        <5>1. Low(a.ver) BY <4>1, <4>4, <4>5 DEF HashInv, Checked, Sending, Streaming
        <5>2. a.hash[c] \in Nat \ {0} BY <4>2, <4>5
        <5>3. PICK h \in Nat \ {0} : h = a.hash[c] BY <5>2
        <5>4. Absent(h)
          <6>1. \A f \in Files, d \in Chunks : file[f].bytes[d] # h
            BY <4>2, <4>5, <5>1, <5>3, BaseFacts DEF Low
          <6>2. \A u \in Threads : Writes(u) => th[u].view # h
            BY <4>2, <4>5, <5>1, <5>3, BaseFacts DEF Low
          <6> QED BY <6>1, <6>2 DEF Absent
        <5>5. Absent(h)' BY <2>7, <5>4, EnvKept
        <5> QED BY <5>3, <5>5 DEF Absent
      <4>6. Checked(th[cur])' BY <2>2, <3>1, <4>1, <4>4, <4>5 DEF Checked, Low, Absent
      <4> QED BY <3>3, <4>6 DEF HashInv
    <3> QED BY <3>4, <3>5
  <2> QED BY <2>8, <2>9
<1>2. ASSUME NEW t \in Threads, Stop(t) PROVE HashInv'
  <2>1. Done(t) /\ UNCHANGED <<backend, src, cur, file>> BY <1>0, <1>2, StopDoes
  <2>2. /\ th'[t].pc = "idle" /\ ~th'[t].cancelled
        /\ \A u \in Threads \ {t} : th'[u] = th[u]
    BY <1>0, <2>1, Ends
  <2>3. CASE t # cur
    <3>1. Quiet BY <1>c, <2>1, <2>2
    <3> QED BY <1>0, <1>d, <2>1, <2>2, <2>3, <3>1
  <2>4. CASE t = cur
    BY <2>1, <2>2, <2>4 DEF HashInv, Shape, Checked, Hashed, Sending, Publishing, Streaming
  <2> QED BY <2>3, <2>4
<1>3. ASSUME NEW t \in Threads, Runs(t), Stat(t) \/ Open(t) \/ HashPrefix(t) \/ Load(t)
      PROVE  HashInv'
  <2>1. UNCHANGED <<backend, src, cur>> BY <1>3 DEF Stat, Open, HashPrefix, Load
  <2>2. /\ th'[t].cancelled = th[t].cancelled /\ \A u \in Threads \ {t} : th'[u] = th[u]
    BY <1>0, <1>3, StatDoes, OpenDoes, HashDoes, LoadDoes
  <2>3. \A f \in Files, c \in Chunks :
          file'[f].bytes[c] = file[f].bytes[c] \/ file'[f].bytes[c] = 0
    <3>1. CASE Open(t)
      <4>1. file' = file \/ file' = [file EXCEPT ![temp'] = Empty]
        BY <1>0, <3>1, OpenDoes
      <4>2. \A c \in Chunks : Empty.bytes[c] = 0 BY DEF Empty, NoBytes
      <4>3. \A f \in Files : file'[f] = file[f] \/ file'[f] = Empty
        BY <1>0, <4>1 DEF TypeOK
      <4> QED BY <4>2, <4>3
    <3>2. CASE ~Open(t) BY <1>3, <3>2 DEF Stat, HashPrefix, Load, server
    <3> QED BY <3>1, <3>2
  <2>4. th[t].cancelled => th'[t].pc # "stream"
    BY <1>0, <1>3, <1>a, StatDoes, OpenDoes, HashDoes, LoadDoes, AfterFtps
  <2>5. Quiet BY <1>c, <2>2, <2>3, <2>4
  <2>6. CASE t # cur BY <1>0, <1>d, <2>1, <2>2, <2>5, <2>6
  <2>7. CASE t = cur
    <3>0. b.ver = a.ver BY <1>0, <1>3, <2>7, StatDoes, OpenDoes, HashDoes, LoadDoes
    <3>1. CASE Stat(cur)
      <4>1. /\ a.pc = "stat" /\ backend # "local" /\ b.pc = After("stat") /\ b.view = a.view
        BY <1>0, <3>1, StatDoes
      <4>2. b.pc \in {"open", "load"} /\ b.pc \notin Hashed
        BY <1>0, <4>1, AfterSftp, AfterFtps DEF Hashed, Publishing, Streaming
      <4>3. Shape(th[cur])' BY <2>1, <4>1, <4>2 DEF Shape, Hashed
      <4>4. b.pc \notin Publishing /\ a.pc \in Sending
        BY <4>1, <4>2 DEF Publishing, Sending
      <4> QED BY <2>1, <2>5, <3>0, <4>1, <4>3, <4>4, HashKept
    <3>2. CASE Open(cur)
      <4>1. /\ a.pc = "open" /\ b.pc = After("open") /\ b.view = a.view
            /\ b.pos = a.pos /\ b.hash = a.hash
        BY <1>0, <3>2, OpenDoes
      <4>2. /\ backend = "sftp" => b.pc = "save"
            /\ backend = "ftps" => b.pc = "check"
            /\ backend = "local" => b.pc = "stream"
        BY <4>1, AfterSftp, AfterFtps, AfterLocal
      <4>3. Shape(th[cur])'
        <5>1. CASE backend = "local"
          <6>1. a.pos = 0 /\ a.hash = NoBytes BY <4>1, <5>1 DEF HashInv, Shape
          <6>2. \A c \in Chunks : ~(c <= 0) /\ NoBytes[c] = 0 BY DEF Chunks, NoBytes
          <6> QED BY <2>1, <4>1, <4>2, <5>1, <6>1, <6>2 DEF Shape
        <5>2. CASE backend = "sftp"
          <6>1. b.pc \notin Hashed BY <4>2, <5>2 DEF Hashed, Publishing, Streaming
          <6> QED BY <2>1, <5>2, <6>1 DEF Shape, Hashed
        <5>3. CASE backend = "ftps"
          <6>1. a.pc \in Hashed BY <4>1, <5>3 DEF Hashed
          <6> QED BY <1>b, <2>1, <3>0, <4>1, <5>3, <6>1
        <5> QED BY <1>0, <5>1, <5>2, <5>3
      <4>4. b.pc \notin Publishing /\ a.pc \in Sending
        BY <1>0, <4>1, <4>2 DEF Publishing, Sending
      <4> QED BY <2>1, <2>5, <3>0, <4>1, <4>3, <4>4, HashKept
    <3>3. CASE HashPrefix(cur)
      <4>1. /\ a.pc = "hash" /\ backend # "local" /\ b.pc = After("hash") /\ b.view = a.view
            /\ b.pos = a.pos
            /\ b.hash = [c \in Chunks |-> IF c <= a.pos /\ c <= SizeOf[src] THEN src ELSE 0]
        BY <1>0, <3>3, HashDoes
      <4>2. /\ a.ver <= src /\ a.pos <= SizeOf[src]
        <5>1. /\ a.ver <= a.view /\ a.view <= src /\ a.pos <= SizeOf[a.view]
              /\ SizeOf[a.view] <= SizeOf[src] /\ a.ver \in Nat /\ a.view \in Nat
              /\ a.pos \in Nat /\ SizeOf[a.view] \in Nat
          BY <1>0, <4>1, BaseFacts DEF Active
        <5>2. SizeOf[src] \in Nat BY <1>0, Sizes DEF TypeOK
        <5> QED BY <1>0, <5>1, <5>2
      <4>3. \A c \in Chunks : b.hash[c] = IF c <= a.pos THEN src ELSE 0
        <5>1. \A c \in Chunks : c \in Nat BY DEF Chunks
        <5>2. SizeOf[src] \in Nat /\ a.pos \in Nat BY <1>0, Sizes, BaseFacts DEF TypeOK
        <5> QED BY <4>1, <4>2, <5>1, <5>2
      <4>4. Shape(th[cur])' BY <1>0, <2>1, <3>0, <4>1, <4>2, <4>3 DEF Shape
      <4>5. b.pc \in {"load", "save"} BY <1>0, <4>1, AfterSftp, AfterFtps
      <4>6. b.pc \notin Publishing /\ a.pc \in Sending
        BY <4>1, <4>5 DEF Publishing, Sending
      <4> QED BY <2>1, <2>5, <3>0, <4>1, <4>4, <4>6, HashKept
    <3>4. CASE Load(cur)
      <4>1. /\ a.pc = "load" /\ b.pc = After("load") /\ b.view = src
            /\ b.pos = a.pos /\ b.hash = a.hash /\ file' = file
        BY <1>0, <3>4, LoadDoes DEF server
      <4>2. /\ backend = "sftp" => b.pc = "stream"
            /\ backend = "ftps" => b.pc = "hash"
            /\ backend = "local" => b.pc = "open"
        BY <4>1, AfterSftp, AfterFtps, AfterLocal
      <4>3. Shape(th[cur])'
        <5>1. b.pc \in Hashed => a.pc \in Hashed
          BY <1>0, <4>1, <4>2 DEF Hashed, Publishing, Streaming
        <5> QED BY <1>b, <2>1, <3>0, <4>1, <5>1
      <4>4. b.pc \notin Publishing BY <1>0, <4>2 DEF Publishing
      <4>5. /\ \A f \in Files, c \in Chunks : file'[f].bytes[c] <= src
            /\ \A u \in Threads : Writes(u)' => th'[u].view <= src
        <5>1. \A u \in Threads : Writes(u) => th[u].view <= src
          BY BaseFacts DEF Writes, Active
        <5>2. \A u \in Threads : Writes(u)' => Writes(u) /\ th'[u].view = th[u].view
          BY <2>5 DEF Quiet
        <5> QED BY <4>1, <5>1, <5>2, BaseFacts
      <4>6. Checked(th[cur])' BY <2>1, <4>1, <4>4, <4>5 DEF Checked, Low
      <4> QED BY <4>3, <4>6 DEF HashInv
    <3> QED BY <1>3, <2>7, <3>1, <3>2, <3>3, <3>4
  <2> QED BY <2>6, <2>7
<1>4. ASSUME NEW t \in Threads, Runs(t), Stream(t) PROVE HashInv'
  <2> DEFINE n == th[t].pos + 1
  <2>0. /\ UNCHANGED <<backend, src, cur>> /\ th[t].pc = "stream" /\ n \in Chunks
        /\ th'[t].cancelled = th[t].cancelled /\ \A u \in Threads \ {t} : th'[u] = th[u]
        /\ th'[t].pc = Loop \/ (th'[t].pc = "persist" /\ backend # "local")
    BY <1>0, <1>4, StreamDoes
  <2>1. \A f \in Files, c \in Chunks :
          file'[f].bytes[c] = file[f].bytes[c] \/ file'[f].bytes[c] = th[t].view
    <3> SUFFICES ASSUME NEW f \in Files, NEW c \in Chunks
                 PROVE  file'[f].bytes[c] = file[f].bytes[c] \/ file'[f].bytes[c] = th[t].view
      OBVIOUS
    <3>1. CASE f # th[t].fd BY <1>0, <1>4, <3>1, StreamDoes
    <3>2. CASE f = th[t].fd
      <4>1. file'[f].bytes = [file[f].bytes EXCEPT ![n] = th[t].view]
        BY <1>0, <1>4, <3>2, StreamDoes
      <4>2. file[f].bytes \in [Chunks -> 0 .. MaxVersion] BY <1>0 DEF TypeOK, Contents
      <4> QED BY <4>1, <4>2
    <3> QED BY <3>1, <3>2
  <2>2. CASE t # cur
    <3>1. Writes(t) /\ backend = "ftps" BY <1>4, <1>a, <2>0, <2>2 DEF Runs, Writes
    <3>2. th'[t].pc # "stream" BY <2>0, <3>1 DEF Loop
    <3>3. Quiet BY <2>0, <2>1, <3>1, <3>2 DEF Quiet, Writes
    <3> QED BY <1>0, <1>d, <2>0, <2>2, <3>3
  <2>3. CASE t = cur
    <3>1. /\ b.ver = a.ver /\ b.view = a.view /\ b.pos = n
          /\ b.hash = [a.hash EXCEPT ![n] = a.view]
      BY <1>0, <1>4, <2>3, StreamDoes
    <3>2. /\ a.ver <= a.view /\ a.view <= src /\ a.pos \in Nat
          /\ a.hash \in [Chunks -> 0 .. MaxVersion]
      BY <1>0, <2>0, <2>3, BaseFacts DEF Active
    <3>3. /\ b.pc \in Streaming /\ a.pc \in Hashed /\ a.pc \in Sending
          /\ b.pc \notin Publishing /\ b.pc \notin {"dial", "load", "open"}
      BY <2>0, <2>3 DEF Loop, Streaming, Hashed, Publishing, Sending
    <3>4. ASSUME NEW c \in Chunks
          PROVE  IF c <= b.pos THEN a.ver <= b.hash[c] /\ b.hash[c] <= src
                               ELSE b.hash[c] = 0
      <4>1. IF c <= a.pos THEN a.ver <= a.hash[c] /\ a.hash[c] <= src
                          ELSE a.hash[c] = 0
        BY <3>3 DEF HashInv, Shape
      <4>2. c \in Nat BY DEF Chunks
      <4>3. CASE c = n BY <2>3, <3>1, <3>2, <4>2, <4>3
      <4>4. CASE c # n
        <5>1. b.hash[c] = a.hash[c] BY <3>1, <3>2, <4>4
        <5>2. (c <= n) <=> (c <= a.pos) BY <2>3, <3>2, <4>2, <4>4
        <5> QED BY <3>1, <4>1, <5>1, <5>2
      <4> QED BY <4>3, <4>4
    <3>5. Shape(th[cur])' BY <2>0, <3>1, <3>3, <3>4 DEF Shape
    <3>6. ASSUME a.view = a.ver
          PROVE  /\ \A f \in Files, c \in Chunks : file'[f].bytes[c] <= a.ver
                 /\ \A u \in Threads : Writes(u)' => th'[u].view <= a.ver
      <4>1. Low(a.ver) BY <3>3, <3>6 DEF HashInv, Checked
      <4>2. \A u \in Threads : Writes(u)' => Writes(u) /\ th'[u].view = th[u].view
        BY <1>0, <2>0, <2>3 DEF Writes
      <4> QED BY <2>1, <2>3, <3>2, <3>6, <4>1, <4>2, BaseFacts DEF Low
    <3>7. Checked(th[cur])' BY <2>0, <3>1, <3>3, <3>6 DEF Checked, Low
    <3> QED BY <3>5, <3>7 DEF HashInv
  <2> QED BY <2>2, <2>3
<1>5. CASE Begin
  <2>1. /\ b.pc = "dial" /\ b.ver = src /\ b.view = src
        /\ b.pos = (IF row.ver = src THEN row.done ELSE 0) /\ b.hash = NoBytes
        /\ ~b.cancelled /\ \A u \in Threads \ {cur} : th'[u] = th[u]
        /\ UNCHANGED <<backend, src, cur, file>>
    BY <1>0, <1>5, BeginDoes DEF server
  <2>2. backend = "local" => b.pos = 0
    <3>1. backend = "local" => row = NoToken BY DEF BaseInv, RolesInv
    <3> QED BY <1>0, <2>1, <3>1 DEF NoToken, Token
  <2>3. b.pc \notin Hashed \cup Publishing BY <2>1 DEF Hashed, Publishing, Streaming
  <2>4. Shape(th[cur])' BY <2>1, <2>2, <2>3 DEF Shape, Hashed
  <2>5. /\ \A f \in Files, c \in Chunks : file'[f].bytes[c] <= src
        /\ \A u \in Threads : Writes(u)' => th'[u].view <= src
    BY <2>1, BaseFacts DEF Writes, Active
  <2>6. Checked(th[cur])' BY <2>1, <2>3, <2>5 DEF Checked, Low
  <2> QED BY <2>4, <2>6 DEF HashInv
<1>6. CASE Crash
  <2>1. b.pc = "idle" /\ cur' = cur BY <1>0, <1>6, CrashDoes
  <2> QED BY <2>1 DEF HashInv, Shape, Checked, Hashed, Sending, Publishing, Streaming
<1>7. CASE Detach
  <2>1. cur' = 2 /\ th'[2] = th[2] /\ cur = 1 BY <1>0, <1>7, DetachDoes
  <2>2. th'[cur'].pc = "idle" BY <2>1 DEF BaseInv, RolesInv
  <2> QED BY <2>2 DEF HashInv, Shape, Checked, Hashed, Sending, Publishing, Streaming
<1>8. CASE Rewrite
  <2>1. src < MaxVersion /\ src' = src + 1 /\ Written(src + 1)
        /\ UNCHANGED <<backend, cur, file>>
    BY <1>8 DEF Rewrite, server
  <2>2. src + 1 \in Versions BY <1>0, <2>1, TempAssumption DEF Versions
  <2>3. /\ \A t \in Threads : /\ th'[t].pc = th[t].pc /\ th'[t].ver = th[t].ver
                              /\ th'[t].pos = th[t].pos /\ th'[t].hash = th[t].hash
                              /\ th'[t].cancelled = th[t].cancelled
        /\ (th' = th) \/ (\A t \in Threads : th'[t].view = src + 1)
    BY <1>0, <2>1, <2>2, WrittenDoes
  <2>4. Hashed' = Hashed BY <2>1 DEF Hashed
  <2>5. a.ver \in Nat /\ a.hash \in [Chunks -> 0 .. MaxVersion] BY <1>0, BaseFacts
  <2>6. Shape(th[cur])'
    BY <1>0, <2>1, <2>3, <2>4, <2>5, TempAssumption DEF HashInv, Shape
  <2>7. CASE th' = th
    <3>1. Checked(th[cur])' BY <2>1, <2>7 DEF HashInv, Checked, Low, Absent, Writes
    <3> QED BY <2>6, <3>1 DEF HashInv
  <2>8. CASE \A t \in Threads : th'[t].view = src + 1
    <3>1. Active(cur) => a.ver <= src BY <1>0, <2>5, BaseFacts
    <3>2. Active(cur) => b.view # b.ver BY <1>0, <2>3, <2>5, <2>8, <3>1
    <3>3. ASSUME b.pc \in Publishing, backend # "local"
          PROVE  /\ b.pos = SizeOf[b.ver]
                 /\ \A c \in Chunks : b.hash[c] > b.ver =>
                      /\ \A f \in Files, d \in Chunks : file'[f].bytes[d] # b.hash[c]
                      /\ \A t \in Threads : Writes(t)' => th'[t].view # b.hash[c]
      <4>1. a.pc \in Publishing /\ a.pc \in Hashed BY <1>0, <2>3, <3>3 DEF Hashed
      <4>2. /\ a.pos = SizeOf[a.ver]
            /\ \A c \in Chunks : a.hash[c] > a.ver =>
                 \A f \in Files, d \in Chunks : file[f].bytes[d] # a.hash[c]
        BY <3>3, <4>1 DEF HashInv, Checked, Absent
      <4>3. \A c \in Chunks : a.hash[c] <= src BY <1>0, <4>1 DEF HashInv, Shape
      <4>4. \A c \in Chunks : a.hash[c] # src + 1
        BY <1>0, <2>5, <4>3, TempAssumption
      <4> QED BY <1>0, <2>1, <2>3, <2>8, <4>2, <4>4
    <3>4. Active(cur)' => Active(cur) BY <1>0, <2>1, <2>3 DEF Active
    <3>5. \A p \in Sending \cup Publishing : p # "idle" BY DEF Sending, Publishing, Streaming
    <3>6. Checked(th[cur])'
      BY <2>1, <3>2, <3>3, <3>4, <3>5 DEF Checked, Low, Absent, Active
    <3> QED BY <2>6, <3>6 DEF HashInv
  <2> QED BY <2>3, <2>7, <2>8
<1>9. CASE NewFile
  <2>1. src < MaxVersion /\ src' = src + 1 /\ Written(src + 1) /\ cur' = cur /\ a.pc = "idle"
    BY <1>9 DEF NewFile, At
  <2>2. src + 1 \in Versions BY <1>0, <2>1, TempAssumption DEF Versions
  <2>3. b.pc = "idle" BY <1>0, <2>1, <2>2, WrittenDoes
  <2> QED BY <2>1, <2>3 DEF HashInv, Shape, Checked, Hashed, Sending, Publishing, Streaming
<1>10. CASE UNCHANGED vars
  BY <1>10 DEF HashInv, Shape, Checked, Hashed, Low, Absent, Writes, vars, server
<1> QED BY <1>0, <1>1, <1>2, <1>3, <1>4, <1>5, <1>6, <1>7, <1>8, <1>9, <1>10, Steps

LEMMA HashInit == Init => HashInv
<1> SUFFICES ASSUME Init PROVE HashInv OBVIOUS
<1>1. th[cur].pc = "idle" BY FreshIs DEF Init, Threads
<1> QED BY <1>1 DEF HashInv, Shape, Checked, Hashed, Sending, Publishing, Streaming

-----------------------------------------------------------------------------
(* What a verified attempt has published. *)

\* Only verify and the write after it lead to mark_verified.
LEMMA ToMark ==
    ASSUME TypeInv, NEW t \in Threads, Walk(t), th'[t].pc \in {"checkpoint", "mark"}
    PROVE  /\ t = cur /\ UNCHANGED server
           /\ th'[t].pc = "checkpoint" => Verify /\ Sound /\ th[t].pc = "verify"
           /\ th'[t].pc = "mark" => th[t].pc = "checkpoint"
<1>0. backend \in {"sftp", "ftps", "local"} /\ TypeOK
  BY TempAssumption DEF TypeInv, TypeOK
<1>1. \A p \in Points : Go(t, p) => th'[t].pc = p BY <1>0, Goes DEF Moves
<1>2. \A p \in Points : Go(t, p) => p \in {"checkpoint", "mark"} BY <1>1
<1>3. \A p \in (Blocking \cup {"transient", "failed", "refused", "drop"}) : ~Go(t, p)
  BY <1>2 DEF Points, Blocking
<1>4. /\ After("dial") \in Blocking /\ After("publish") \in Blocking
      /\ backend # "local" => After("save") \in Blocking
  BY <1>0, AfterSftp, AfterFtps, AfterLocal DEF Blocking
<1>5. Loop \in Blocking BY DEF Loop, Blocking
<1>6. ~Dial(t) /\ ~Check(t) /\ ~Persist(t)
  BY <1>3, <1>4, <1>5 DEF Dial, Check, Persist, Blocking
<1>7. ~SaveStart(t) BY <1>3, <1>4 DEF SaveStart, At, TypeInv, PathInv
<1>8. ~Finish(t) /\ ~Rename(t) /\ ~RenameRefused(t) BY <1>3, <1>4 DEF Finish, Rename, RenameRefused, Blocking
<1>9. ~Remove(t) /\ ~ClearToken(t) /\ ~Abort(t)
  BY <1>3 DEF Remove, ClearToken, Abort, Classified, Blocking
<1>10. ~RenameAgain(t) BY <1>3, <1>4 DEF RenameAgain
<1>11. ~Broken(t)
  BY <1>3 DEF Broken, Lost, Denied, RenameUnsure, LocalError, RenameFails, Classified, Blocking
<1>12. ~(t = cur /\ (Invalidate \/ GiveUp)) BY <1>3 DEF Invalidate, GiveUp, Blocking
<1>13. CASE t = cur /\ Verify
  <2>1. Sound BY <1>3, <1>13 DEF Verify
  <2>2. Go(t, "checkpoint") BY <1>13, <2>1 DEF Verify
  <2>3. th'[t].pc = "checkpoint" BY <1>1, <2>2 DEF Points
  <2> QED BY <1>13, <2>1, <2>3 DEF Verify, At
<1>14. CASE t = cur /\ Checkpoint
  <2>1. Go(t, "mark") BY <1>14 DEF Checkpoint
  <2>2. th'[t].pc = "mark" BY <1>1, <2>1 DEF Points
  <2> QED BY <1>14, <2>2 DEF Checkpoint, At
<1> QED BY <1>6, <1>7, <1>8, <1>9, <1>10, <1>11, <1>12, <1>13, <1>14 DEF Walk

\* A sound file is the announced version: a later byte in the hash would have
\* to be in a file, and an earlier one is in no hash.
LEMMA SoundWhole ==
    ASSUME Appending, BaseInv, HashInv, At(cur, "verify"), Sound, Steady
    PROVE  final # 0 /\ file[final] = Whole(th[cur].ver)
<1> DEFINE a == th[cur]
<1>1. /\ a.ver \in Versions /\ a.ver \in Nat /\ a.ver > 0 /\ a.view \in Nat /\ TypeOK
      /\ a.hash \in [Chunks -> 0 .. MaxVersion] /\ src \in Nat
      /\ a.ver <= a.view /\ a.view <= src
  BY BaseFacts DEF At, Active
<1>2. a.pc \in Publishing /\ a.pc \in Hashed BY DEF At, Publishing, Hashed
<1>3. backend # "local" \/ a.view = a.ver BY <1>1 DEF Steady
<1>4. /\ a.pos = SizeOf[a.ver]
      /\ \A c \in Chunks : a.hash[c] > a.ver => Absent(a.hash[c])
  BY <1>2, <1>3 DEF HashInv, Checked
<1>5. final \in Files BY <1>1 DEF Sound, TypeOK, Files
<1>6. \A c \in Chunks : file[final].bytes[c] = a.hash[c] BY DEF Sound
<1>7. \A c \in Chunks : ~(a.hash[c] > a.ver) BY <1>4, <1>5, <1>6 DEF Absent
<1>8. \A c \in Chunks : a.hash[c] = IF c <= SizeOf[a.ver] THEN a.ver ELSE 0
  <2> SUFFICES ASSUME NEW c \in Chunks
               PROVE  a.hash[c] = IF c <= SizeOf[a.ver] THEN a.ver ELSE 0
    OBVIOUS
  <2>1. IF c <= a.pos THEN a.ver <= a.hash[c] /\ a.hash[c] <= src ELSE a.hash[c] = 0
    BY <1>2 DEF HashInv, Shape
  <2>2. a.hash[c] \in Nat /\ ~(a.hash[c] > a.ver) BY <1>1, <1>7, TempAssumption
  <2> QED BY <1>1, <1>4, <2>1, <2>2
<1>9. a.hash = [c \in Chunks |-> IF c <= SizeOf[a.ver] THEN a.ver ELSE 0]
  BY <1>1, <1>8
<1>10. Bytes = SizeOf[a.ver] BY <1>4 DEF Bytes
<1> QED BY <1>9, <1>10 DEF Sound, Whole

\* verify lets an attempt pass only if the whole announced version stands at
\* the final name at that moment, whatever a detached upload has written
\* (TempPublish!VerifiedWhenWhole), for a producer that appends.
THEOREM VerifiedWhenWholeTheorem ==
    ASSUME Appending PROVE Spec => VerifiedWhenWhole
<1> DEFINE Inv == BaseInv /\ HashInv
<1>1. Init => Inv BY BaseInit, HashInit
<1>2. Inv /\ [Next]_vars => Inv' BY BaseStep, HashStep
<1>3. Inv /\ [Next]_vars =>
        [At(cur, "verify") /\ cur' = cur /\ th'[cur].pc = "checkpoint" /\ Steady
           => final # 0 /\ file[final] = Whole(th[cur].ver)]_vars
  <2> SUFFICES ASSUME Inv, [Next]_vars, At(cur, "verify"), cur' = cur,
                      th'[cur].pc = "checkpoint", Steady
               PROVE  final # 0 /\ file[final] = Whole(th[cur].ver)
    OBVIOUS
  <2>1. TypeInv /\ TypeOK /\ cur \in Threads /\ th[cur].pc = "verify" BY BaseFacts DEF At
  <2>2. Sound
    <3>1. ASSUME NEW t \in Threads, Walk(t) PROVE Sound
      <4>1. t = cur
        <5>1. \A u \in Threads \ {t} : th'[u] = th[u] BY <2>1, <3>1, WalkGoes DEF Moves
        <5> QED BY <2>1, <5>1
      <4> QED BY <2>1, <3>1, <4>1, ToMark
    <3>2. ASSUME NEW t \in Threads, Stop(t) PROVE FALSE
      BY <2>1, <3>2, StopDoes, Ends
    <3>3. ASSUME NEW t \in Threads, Stat(t) \/ Open(t) \/ HashPrefix(t) \/ Load(t) \/ Stream(t)
          PROVE  FALSE
      <4>1. t # cur BY <2>1, <3>3 DEF Stat, Open, HashPrefix, Load, Stream, At
      <4>2. \A u \in Threads \ {t} : th'[u] = th[u]
        BY <2>1, <3>3, StatDoes, OpenDoes, HashDoes, LoadDoes, StreamDoes
      <4> QED BY <2>1, <4>1, <4>2
    <3>4. ~Begin /\ ~Crash /\ ~Detach BY <2>1, BeginDoes, CrashDoes, DetachDoes DEF Active
    <3>5. ~Rewrite /\ ~NewFile
      <4> SUFFICES ASSUME Rewrite \/ NewFile PROVE FALSE OBVIOUS
      <4>1. src < MaxVersion /\ Written(src + 1) BY DEF Rewrite, NewFile
      <4>2. src + 1 \in Versions BY <2>1, <4>1, TempAssumption DEF Versions, TypeOK
      <4> QED BY <2>1, <4>1, <4>2, WrittenDoes
    <3>6. ~UNCHANGED vars BY <2>1 DEF vars
    <3> QED BY <2>1, <3>1, <3>2, <3>3, <3>4, <3>5, <3>6, Steps
  <2> QED BY <2>2, SoundWhole
<1> QED BY <1>1, <1>2, <1>3, PTL DEF Spec, VerifiedWhenWhole

\* The whole version stands from verify on.
MarkInv ==
    Undisturbed /\ Steady /\ (th[cur].pc \in {"checkpoint", "mark"} \/ phase = "verified")
      => final # 0 /\ file[final] = Whole(th[cur].ver)

LEMMA MarkStep ==
    ASSUME Appending, BaseInv, HashInv, MarkInv, [Next]_vars
    PROVE  MarkInv'
<1> DEFINE a == th[cur]
           b == th'[cur]
<1> SUFFICES ASSUME Undisturbed', Steady',
                    th'[cur'].pc \in {"checkpoint", "mark"} \/ phase' = "verified"
             PROVE  final' # 0 /\ file'[final'] = Whole(th'[cur'].ver)
  BY DEF MarkInv
<1>0. /\ TypeInv /\ TypeOK /\ cur \in Threads /\ src \in Nat
      /\ phase = "verified" => ~Active(cur)
  BY BaseFacts DEF BaseInv, RolesInv
<1>1. ~Detach BY <1>0, DetachDoes DEF Undisturbed
<1>2. cur' = cur
  <2>1. \A t \in Threads : Walk(t) \/ Stop(t) => cur' = cur BY <1>0, WalkGoes, StopDoes
  <2>2. \A t \in Threads : Stat(t) \/ Open(t) \/ HashPrefix(t) \/ Load(t) \/ Stream(t)
          => cur' = cur
    BY DEF Stat, Open, HashPrefix, Load, Stream
  <2> QED BY <1>0, <1>1, <2>1, <2>2, Steps DEF Begin, Crash, Rewrite, NewFile, vars
<1>3. cur = 1 BY <1>2 DEF Undisturbed
<1>4. \A t \in Threads : Runs(t) => t = cur
  BY <1>3 DEF Runs, BaseInv, RolesInv, Threads
<1>5. CASE Walk(cur)
  <2>1. /\ Active(cur) /\ src' = src /\ backend' = backend /\ b.ver = a.ver
    BY <1>0, <1>5, WalkGoes DEF Moves
  <2>2. phase' # "verified" BY <1>0, <1>5, <2>1, WalkDoes
  <2>3. Steady BY <1>2, <2>1 DEF Steady
  <2>4. /\ UNCHANGED server
        /\ b.pc = "checkpoint" => Sound /\ a.pc = "verify"
        /\ b.pc = "mark" => a.pc = "checkpoint"
    BY <1>0, <1>2, <1>5, <2>2, ToMark
  <2>5. final # 0 /\ file[final] = Whole(a.ver)
    BY <1>2, <1>3, <2>2, <2>3, <2>4, SoundWhole DEF MarkInv, Undisturbed, At
  <2> QED BY <1>2, <2>1, <2>4, <2>5 DEF server
<1>6. CASE Stop(cur)
  <2>1. b.pc = "idle" /\ b.ver = a.ver /\ UNCHANGED <<backend, src>>
    BY <1>0, <1>6, StopDoes, Ends
  <2>2. Active(cur)
    BY <1>6 DEF Stop, Vanish, MarkVerified, Retry, DropToken, Pause, At, Active
  <2>3. phase' = "verified" /\ phase # "verified" BY <1>0, <1>2, <2>1, <2>2
  <2>4. MarkVerified BY <1>6, <2>3 DEF Stop, Vanish, Retry, DropToken, Pause, durable
  <2>5. a.pc = "mark" /\ UNCHANGED server BY <2>4 DEF MarkVerified, At
  <2>6. Steady BY <1>2, <2>1 DEF Steady
  <2> QED BY <1>2, <1>3, <2>1, <2>5, <2>6 DEF MarkInv, Undisturbed, server
<1>7. CASE Stat(cur) \/ Open(cur) \/ HashPrefix(cur) \/ Load(cur) \/ Stream(cur)
  <2>1. Active(cur) /\ phase' = phase
    BY <1>7 DEF Stat, Open, HashPrefix, Load, Stream, At, Active, durable
  <2>2. backend \in {"sftp", "ftps", "local"} BY BaseFacts
  <2>3. b.pc \notin {"checkpoint", "mark"}
    BY <1>0, <1>7, <2>2, StatDoes, OpenDoes, HashDoes, LoadDoes, StreamDoes,
       AfterSftp, AfterFtps, AfterLocal DEF Loop
  <2> QED BY <1>0, <1>2, <2>1, <2>3
<1>8. ~Begin /\ ~Crash BY <1>0, <1>2, BeginDoes, CrashDoes DEF durable
<1>9. CASE Rewrite \/ NewFile
  <2>1. src < MaxVersion /\ src' = src + 1 /\ Written(src + 1) /\ phase' = "pending"
        /\ UNCHANGED <<backend, server>>
    BY <1>9 DEF Rewrite, NewFile, durable
  <2>2. src + 1 \in Versions BY <1>0, <2>1, TempAssumption DEF Versions
  <2>3. b.pc = a.pc /\ b.ver = a.ver BY <1>0, <2>1, <2>2, WrittenDoes
  <2>4. a.pc \in {"checkpoint", "mark"} BY <1>2, <2>1, <2>3
  <2>5. a.ver <= src /\ a.ver \in Nat
    <3>1. a.ver <= a.view /\ a.view <= src /\ a.ver \in Nat /\ a.view \in Nat
      BY <1>0, <2>4, BaseFacts DEF Active
    <3> QED BY <1>0, <3>1
  <2>6. backend # "local" BY <1>0, <1>2, <2>1, <2>3, <2>5 DEF Steady
  <2> QED BY <1>2, <1>3, <2>1, <2>3, <2>4, <2>6 DEF MarkInv, Undisturbed, Steady, server
<1>10. CASE UNCHANGED vars
  BY <1>10 DEF MarkInv, Undisturbed, Steady, vars, server, durable
<1> QED BY <1>0, <1>1, <1>4, <1>5, <1>6, <1>7, <1>8, <1>9, <1>10, Steps

\* A destination that is marked verified holds the whole version its last
\* attempt announced and keeps it, as long as no blocking FTPS upload was left
\* behind by a pause (TempPublish!DeliveredUndisturbed).
THEOREM DeliveredTheorem ==
    ASSUME Appending PROVE Spec => []DeliveredUndisturbed
<1> DEFINE Inv == BaseInv /\ HashInv /\ MarkInv
<1>1. Init => Inv
  <2>1. Init => MarkInv BY FreshIs DEF Init, MarkInv, Threads
  <2> QED BY <2>1, BaseInit, HashInit
<1>2. Inv /\ [Next]_vars => Inv' BY BaseStep, HashStep, MarkStep
<1>3. Inv => DeliveredUndisturbed BY DEF MarkInv, DeliveredUndisturbed, DeliveredWhole
<1> QED BY <1>1, <1>2, <1>3, PTL DEF Spec

-----------------------------------------------------------------------------
(* What stands at the final name while nothing is left behind. *)

\* The first n chunks of file f are of version v, and f is no longer than it.
Prefix(f, v, n) ==
    /\ file[f].len <= SizeOf[v]
    /\ \A c \in Chunks : c <= n /\ c <= file[f].len => file[f].bytes[c] = v
Held(v, n) == temp # 0 /\ n > 0 => Prefix(temp, v, n)

Opened == Streaming \cup (IF backend = "sftp" THEN {"save", "hash", "load"} ELSE {})
Unopened == IF backend = "sftp" THEN {"open"} ELSE {"load", "hash", "save", "open"}
Renaming == {"rename", "remove", "again"}

\* What the attempt knows of the temp file before it opens it ...
Unread(a) ==
    /\ a.pc \in {"dial", "stat"} \cup Unopened => Held(a.ver, a.pos)
    /\ a.pc \in Unopened /\ a.pos > 0 => temp # 0 /\ a.pos <= file[temp].len

\* ... while it writes it ...
Writing(a) ==
    a.pc \in Opened =>
        /\ temp # 0 /\ a.fd = temp /\ a.pos <= file[temp].len
        /\ a.pc \notin Streaming \/ a.view = a.ver => Prefix(temp, a.ver, a.pos)
        /\ backend = "local" => a.pos = file[temp].len

\* ... and when it is complete.
Ready(a) == a.pc \in Renaming /\ temp # 0 => \E v \in Versions : Complete(file[temp], v)

\* Only holes are beyond a file's end, and the two names are never one file.
Dense ==
    /\ \A f \in Files, c \in Chunks : (file[f].bytes[c] = 0) <=> (c > file[f].len)
    /\ temp # 0 => temp # final

\* A token of the newest version is of bytes of that version.
Covered == row.ver = src => Held(row.ver, row.done)
Lagging == Active(cur) => row.ver <= th[cur].ver

FileInv ==
    Undisturbed =>
        /\ Dense /\ Covered /\ Lagging
        /\ Unread(th[cur]) /\ Writing(th[cur]) /\ Ready(th[cur])
        /\ PublishedWhole

\* What a step must keep whatever the attempt is at.
Kept ==
    /\ Dense' /\ PublishedWhole'
    /\ \A v \in Versions, n \in Nat : Held(v, n) => Held(v, n)'

\* A name goes ...
LEMMA KeptNames ==
    ASSUME FileInv, Undisturbed, UNCHANGED <<backend, cur, file>>,
           temp' \in {temp, 0}, final' \in {final, 0}
    PROVE  Kept
<1>1. Dense' BY DEF Dense, FileInv
<1>2. PublishedWhole' BY DEF FileInv, PublishedWhole, Undisturbed, Complete
<1>3. \A v \in Versions, n \in Nat : Held(v, n) => Held(v, n)' BY DEF Held, Prefix
<1> QED BY <1>1, <1>2, <1>3 DEF Kept

\* ... or the temp file gets the final one ...
LEMMA KeptRenamed ==
    ASSUME FileInv, Undisturbed, UNCHANGED <<backend, cur>>, Renamed,
           th[cur].pc \in Renaming
    PROVE  Kept
<1>1. Dense' BY DEF Dense, FileInv, Renamed
<1>2. PublishedWhole' BY DEF FileInv, Ready, PublishedWhole, Complete, Renamed
<1>3. \A v \in Versions, n \in Nat : Held(v, n) => Held(v, n)' BY DEF Held, Renamed
<1> QED BY <1>1, <1>2, <1>3 DEF Kept

\* ... or the last chunk is lost with the data connection.
LEMMA KeptCut ==
    ASSUME BaseInv, FileInv, Undisturbed, UNCHANGED <<backend, cur, temp, final>>, Cut(cur)
    PROVE  Kept
<1>0. TypeOK /\ cur \in Threads BY DEF BaseInv, TypeInv, TypeOK
<1>1. CASE file' = file BY <1>1, KeptNames
<1>2. CASE file' # file
  <2> DEFINE n == th[cur].pos
             f == th[cur].fd
  <2>1. /\ th[cur].pc \in Streaming /\ n \in Chunks /\ file[f].len = n
        /\ \A g \in Files : /\ g # f => file'[g] = file[g]
                            /\ g = f => /\ file'[g].len = n - 1
                                        /\ file'[g].bytes = [file[g].bytes EXCEPT ![n] = 0]
    BY <1>0, <1>2, CutType DEF Streaming
  <2>2. temp # 0 /\ f = temp /\ temp # final
    BY <2>1 DEF FileInv, Writing, Opened, Dense
  <2>3. temp \in Files BY <1>0, <2>2 DEF TypeOK, Files
  <2>4. n \in Nat /\ n > 0 BY <2>1 DEF Chunks
  <2> HIDE DEF n, f
  <2>5. ASSUME NEW g \in Files, NEW c \in Chunks
        PROVE  (file'[g].bytes[c] = 0) <=> (c > file'[g].len)
    <3>1. (file[g].bytes[c] = 0) <=> (c > file[g].len) BY DEF FileInv, Dense
    <3>2. file[g].bytes \in [Chunks -> 0 .. MaxVersion] /\ c \in Nat
      BY <1>0 DEF TypeOK, Contents, Chunks
    <3>3. CASE g # f BY <2>1, <3>1, <3>3
    <3>4. CASE g = f
      <4>1. file'[g].len = n - 1 /\ file'[g].bytes = [file[g].bytes EXCEPT ![n] = 0]
            /\ file[g].len = n
        BY <2>1, <3>4
      <4>2. CASE c = n BY <2>4, <3>2, <4>1, <4>2
      <4>3. CASE c # n
        <5>1. file'[g].bytes[c] = file[g].bytes[c] BY <3>2, <4>1, <4>3
        <5> QED BY <2>4, <3>1, <3>2, <4>1, <4>3, <5>1
      <4> QED BY <4>2, <4>3
    <3> QED BY <3>3, <3>4
  <2>6. Dense' BY <2>2, <2>5 DEF Dense
  <2>7. PublishedWhole'
    <3>0. final # 0 => final \in Files BY <1>0 DEF TypeOK, Files
    <3>1. final # 0 => file'[final] = file[final] BY <2>1, <2>2, <3>0
    <3> QED BY <3>1 DEF FileInv, PublishedWhole, Undisturbed, Complete
  <2>8. ASSUME NEW v \in Versions, NEW m \in Nat, Held(v, m) PROVE Held(v, m)'
    <3>1. file'[temp].len = n - 1 /\ file[temp].len = n
          /\ file'[temp].bytes = [file[temp].bytes EXCEPT ![n] = 0]
      BY <2>1, <2>2, <2>3
    <3>2. file[temp].bytes \in [Chunks -> 0 .. MaxVersion] /\ SizeOf[v] \in Nat
      BY <1>0, <2>3, TempAssumption DEF TypeOK, Contents
    <3> SUFFICES ASSUME m > 0 PROVE Prefix(temp, v, m)' BY DEF Held
    <3>3. Prefix(temp, v, m) BY <2>2, <2>8 DEF Held
    <3>4. file'[temp].len <= SizeOf[v] BY <2>4, <3>1, <3>2, <3>3 DEF Prefix
    <3>5. ASSUME NEW c \in Chunks, c <= m, c <= n - 1 PROVE file'[temp].bytes[c] = v
      <4>1. c # n /\ c <= n BY <2>4, <3>5 DEF Chunks
      <4>2. file[temp].bytes[c] = v BY <3>1, <3>3, <3>5, <4>1 DEF Prefix
      <4> QED BY <3>1, <3>2, <4>1, <4>2
    <3> QED BY <3>1, <3>4, <3>5 DEF Prefix
  <2> QED BY <2>6, <2>7, <2>8 DEF Kept
<1> QED BY <1>1, <1>2

\* Points at which nothing is known of the temp file.
Loose(p) == p \notin {"dial", "stat"} \cup Unopened \cup Opened \cup Renaming

LEMMA LooseIs ==
    \A p \in {"idle", "clear", "verify", "abort", "drop", "checkpoint", "mark", "transient",
              "failed", "refused"} : Loose(p)
BY DEF Loose, Unopened, Opened, Streaming, Renaming

\* The pieces of the invariant that a step leaves where they are.
LEMMA FileFrom ==
    ASSUME BaseInv, FileInv, Undisturbed, UNCHANGED <<backend, src, cur>>, Kept,
           Unread(th[cur])', Writing(th[cur])', Ready(th[cur])',
           row' \in {row, NoToken}, Lagging'
    PROVE  FileInv'
<1>0. TypeOK /\ src \in Nat /\ src > 0 BY DEF BaseInv, TypeInv, TypeOK, Versions
<1>1. Covered'
  <2>1. CASE row' = NoToken BY <1>0, <2>1 DEF Covered, NoToken, Token
  <2>2. CASE row' = row
    <3>1. row.done \in Nat /\ src \in Versions BY <1>0 DEF TypeOK
    <3>2. ASSUME row.ver = src PROVE Held(row.ver, row.done)'
      <4>1. PICK v \in Versions, n \in Nat : v = row.ver /\ n = row.done BY <3>1, <3>2
      <4>2. Held(v, n)' BY <3>2, <4>1 DEF FileInv, Covered, Kept
      <4> QED BY <2>2, <4>1, <4>2 DEF Held, Prefix
    <3> QED BY <2>2, <3>2 DEF Covered
  <2> QED BY <2>1, <2>2
<1> QED BY <1>1 DEF FileInv, Kept

\* An attempt that comes to a loose point.
LEMMA FileLoose ==
    ASSUME BaseInv, FileInv, Undisturbed, UNCHANGED <<backend, src, cur>>, Kept,
           Loose(th'[cur].pc), row' \in {row, NoToken}, Lagging'
    PROVE  FileInv'
<1>1. Unread(th[cur])' /\ Writing(th[cur])' /\ Ready(th[cur])'
  BY DEF Loose, Unread, Writing, Ready, Unopened, Opened, Renaming
<1> QED BY <1>1, FileFrom

\* A checkpoint is written.
LEMMA FileSaved ==
    ASSUME FileInv, Undisturbed, UNCHANGED <<backend, src, cur, server>>,
           Unread(th[cur])', Writing(th[cur])', Ready(th[cur])',
           row' \in {row, Token(th[cur].ver, th[cur].pos)}, Lagging',
           th[cur].ver = src => Held(th[cur].ver, th[cur].pos)
    PROVE  FileInv'
<1>1. Covered'
  <2>1. CASE row' = row BY <2>1 DEF FileInv, Covered, Held, Prefix, server
  <2>2. CASE row' = Token(th[cur].ver, th[cur].pos)
    <3>1. row'.ver = th[cur].ver /\ row'.done = th[cur].pos BY <2>2 DEF Token
    <3> QED BY <3>1 DEF Covered, Held, Prefix, server
  <2> QED BY <2>1, <2>2
<1>2. Dense' /\ PublishedWhole'
  BY DEF FileInv, Dense, PublishedWhole, Complete, Undisturbed, server
<1> QED BY <1>1, <1>2 DEF FileInv

\* The two sides of the last size check.
LEMMA FinishWhole ==
    ASSUME Appending, BaseInv, FileInv, Undisturbed, Finish(cur), SizeHeld(cur)
    PROVE  \E v \in Versions : Complete(file[temp], v)
<1> DEFINE a == th[cur]
<1>0. /\ TypeOK /\ cur \in Threads /\ a.pc = "stream" /\ ~More(cur)
      /\ backend \in {"sftp", "ftps", "local"}
  BY BaseFacts DEF Finish, At
<1>1. /\ a.ver \in Versions /\ a.view \in Versions /\ a.ver <= a.view
      /\ a.pos <= SizeOf[a.view] /\ SizeOf[a.view] \in Nat /\ a.pos \in Nat
  BY <1>0, BaseFacts DEF Active
<1>2. a.pos = SizeOf[a.view] BY <1>0, <1>1 DEF More
<1>3. /\ temp # 0 /\ a.pos <= file[temp].len
      /\ a.view = a.ver => Prefix(temp, a.ver, a.pos)
      /\ backend = "local" => a.pos = file[temp].len
  BY <1>0 DEF FileInv, Writing, Opened, Streaming
<1>4. temp \in Files BY <1>0, <1>3 DEF TypeOK, Files
<1>5. file[temp] \in Contents BY <1>0, <1>4 DEF TypeOK
<1>6. \A c \in Chunks : (file[temp].bytes[c] = 0) <=> (c > file[temp].len)
  BY <1>4 DEF FileInv, Dense
<1>7. CASE backend = "local" BY <1>1, <1>2, <1>3, <1>6, <1>7 DEF Complete
<1>8. CASE backend # "local"
  <2>1. a.pos = SizeOf[a.ver] BY <1>8 DEF SizeHeld
  <2>2. a.view = a.ver BY <1>1, <1>2, <2>1, Sizes
  <2>3. file[temp].len = SizeOf[a.ver]
    BY <1>1, <1>3, <1>5, <2>1, <2>2 DEF Prefix, Contents
  <2>4. \A c \in Chunks : file[temp].bytes[c] = IF c <= SizeOf[a.ver] THEN a.ver ELSE 0
    <3>1. SizeOf[a.ver] \in Nat /\ \A c \in Chunks : c \in Nat
      BY <1>1, Sizes DEF Chunks
    <3> QED BY <1>3, <1>6, <2>1, <2>2, <2>3, <3>1 DEF Prefix
  <2>5. file[temp].bytes = [c \in Chunks |-> IF c <= SizeOf[a.ver] THEN a.ver ELSE 0]
    BY <1>5, <2>4 DEF Contents
  <2>6. file[temp] = [len |-> file[temp].len, bytes |-> file[temp].bytes]
    BY <1>5 DEF Contents
  <2>7. file[temp] = Whole(a.ver) BY <2>3, <2>5, <2>6 DEF Whole
  <2> QED BY <1>1, <2>7 DEF Complete
<1> QED BY <1>7, <1>8

LEMMA FileWalk ==
    ASSUME Appending, BaseInv, HashInv, FileInv, Undisturbed, Walk(cur)
    PROVE  FileInv'
<1> DEFINE a == th[cur]
           b == th'[cur]
<1>0. /\ TypeInv /\ TypeOK /\ cur \in Threads /\ backend \in {"sftp", "ftps", "local"}
      /\ src \in Nat
  BY BaseFacts
<1>1. /\ UNCHANGED <<backend, src, cur>> /\ Active(cur)
      /\ b.ver = a.ver /\ b.view = a.view /\ b.pos = a.pos /\ b.fd = a.fd
  BY <1>0, WalkGoes DEF Moves
<1>2. \A p \in Points : Go(cur, p) => b.pc = p BY <1>0, Goes DEF Moves
<1>3. Lagging'
  <2>1. row.ver <= a.ver /\ a.ver \in Nat BY <1>0, <1>1, BaseFacts DEF FileInv, Lagging
  <2>2. row'.ver \in {row.ver, 0, a.ver} BY <1>0, WalkDoes DEF NoToken, Token
  <2> QED BY <1>1, <2>1, <2>2 DEF Lagging
<1>4. /\ After("dial") = IF backend = "local" THEN "load" ELSE "stat"
      /\ After("publish") \in {"clear", "verify"}
      /\ backend = "sftp" => After("save") = "hash"
      /\ backend = "ftps" => After("save") = "open"
  BY <1>0, AfterSftp, AfterFtps, AfterLocal
<1>5. UNCHANGED server => Kept BY <1>1, KeptNames DEF server
\* To a loose point.
<1>6. ASSUME NEW p \in {"clear", "verify", "abort", "drop", "checkpoint", "mark", "transient",
                        "failed", "refused"},
             Go(cur, p), Kept, row' \in {row, NoToken}
      PROVE  FileInv'
  <2>1. p \in Points BY DEF Points, Blocking
  <2>2. Loose(b.pc) BY <1>2, <1>6, <2>1, LooseIs
  <2> QED BY <1>1, <1>3, <1>6, <2>2, FileLoose
\* On to the rename.
<1>7. ASSUME NEW p \in Renaming, Go(cur, p), Kept, row' = row, Ready(th[cur])'
      PROVE  FileInv'
  <2>1. p \in Points BY DEF Points, Blocking, Renaming
  <2>2. b.pc \in Renaming BY <1>2, <1>7, <2>1
  <2>3. Unread(th[cur])' /\ Writing(th[cur])'
    BY <1>1, <2>2 DEF Unread, Writing, Unopened, Opened, Streaming, Renaming
  <2> QED BY <1>1, <1>3, <1>7, <2>3, FileFrom
<1>8. ASSUME a.pc \in Renaming, file' = file, temp' \in {temp, 0} PROVE Ready(th[cur])'
  BY <1>1, <1>8 DEF FileInv, Ready, Complete
<1>9. CASE Dial(cur)
  <2>1. a.pc = "dial" /\ UNCHANGED <<row, server>> BY <1>9 DEF Dial, At, durable
  <2>2. CASE Go(cur, "transient") BY <1>5, <1>6, <2>1, <2>2
  <2>3. CASE Go(cur, After("dial"))
    <3>1. After("dial") \in Points BY <1>4 DEF Points, Blocking
    <3>2. b.pc = After("dial") BY <1>2, <2>3, <3>1
    <3>3. Held(a.ver, a.pos) /\ (backend = "local" => a.pos = 0)
      BY <2>1 DEF FileInv, Unread, HashInv, Shape
    <3>4. Unread(th[cur])'
      BY <1>0, <1>1, <1>4, <2>1, <3>2, <3>3 DEF Unread, Held, Prefix, Unopened, server
    <3>5. Writing(th[cur])' /\ Ready(th[cur])'
      BY <1>0, <1>1, <1>4, <3>2 DEF Writing, Ready, Opened, Streaming, Renaming
    <3> QED BY <1>1, <1>3, <1>5, <2>1, <3>4, <3>5, FileFrom
  <2> QED BY <1>9, <2>2, <2>3 DEF Dial
<1>10. CASE SaveStart(cur)
  <2>1. backend # "local" /\ a.pc = "save" /\ Go(cur, After("save")) /\ UNCHANGED server
    BY <1>0, <1>10 DEF SaveStart, At, TypeInv, PathInv
  <2>2. row' \in {row, Token(a.ver, a.pos)} BY <1>0, <1>10, SaveIs DEF SaveStart
  <2>3. After("save") \in Points BY <1>0, <1>4, <2>1 DEF Points, Blocking
  <2>4. b.pc = After("save") BY <1>2, <2>1, <2>3
  <2>5. CASE backend = "sftp"
    <3>1. /\ temp # 0 /\ a.fd = temp /\ a.pos <= file[temp].len
          /\ Prefix(temp, a.ver, a.pos)
      BY <2>1, <2>5 DEF FileInv, Writing, Opened, Streaming
    <3>2. b.pc = "hash" BY <1>4, <2>4, <2>5
    <3>3. Writing(th[cur])'
      BY <1>1, <2>1, <2>5, <3>1, <3>2 DEF Writing, Prefix, server
    <3>4. Unread(th[cur])' /\ Ready(th[cur])'
      BY <1>1, <2>5, <3>2 DEF Unread, Ready, Unopened, Renaming
    <3> QED BY <1>1, <1>3, <2>1, <2>2, <3>1, <3>3, <3>4, FileSaved DEF Held
  <2>6. CASE backend = "ftps"
    <3>1. Held(a.ver, a.pos) /\ (a.pos > 0 => temp # 0 /\ a.pos <= file[temp].len)
      BY <2>1, <2>6 DEF FileInv, Unread, Unopened
    <3>2. b.pc = "open" BY <1>4, <2>4, <2>6
    <3>3. Unread(th[cur])' BY <1>1, <2>1, <3>1 DEF Unread, Held, Prefix, server
    <3>4. Writing(th[cur])' /\ Ready(th[cur])'
      BY <1>1, <2>6, <3>2 DEF Writing, Ready, Opened, Streaming, Renaming
    <3> QED BY <1>1, <1>3, <2>1, <2>2, <3>1, <3>3, <3>4, FileSaved
  <2> QED BY <1>0, <2>1, <2>5, <2>6
<1>11. CASE Check(cur) \/ Persist(cur)
  <2>1. a.pc \in Streaming /\ UNCHANGED server
    BY <1>11 DEF Check, Persist, At, Streaming
  <2>2. row' \in {row, Token(a.ver, a.pos)}
    BY <1>0, <1>11, SaveIs DEF Check, Persist, durable
  <2>3. b.pc \in Streaming
    <3>1. \E p \in {"stream", "check"} : Go(cur, p) BY <1>11 DEF Check, Persist, Loop
    <3>2. {"stream", "check"} \subseteq Points BY DEF Points, Blocking
    <3> QED BY <1>2, <3>1, <3>2 DEF Streaming
  <2>4. /\ temp # 0 /\ a.fd = temp /\ a.pos <= file[temp].len
        /\ a.view = a.ver => Prefix(temp, a.ver, a.pos)
        /\ backend = "local" => a.pos = file[temp].len
    BY <2>1 DEF FileInv, Writing, Opened
  <2>5. Writing(th[cur])' BY <1>1, <2>1, <2>3, <2>4 DEF Writing, Prefix, server
  <2>6. b.pc \notin {"dial", "stat"} \cup Unopened \cup Renaming
    BY <2>3 DEF Streaming, Unopened, Renaming
  <2>7. Unread(th[cur])' /\ Ready(th[cur])' BY <1>1, <2>6 DEF Unread, Ready, Unopened
  <2>8. a.ver = src => Held(a.ver, a.pos)
    <3>1. a.ver <= a.view /\ a.view <= src /\ a.ver \in Nat /\ a.view \in Nat
      BY <1>0, <1>1, BaseFacts
    <3> QED BY <1>0, <2>4, <3>1 DEF Held
  <2> QED BY <1>1, <1>3, <2>1, <2>2, <2>5, <2>7, <2>8, FileSaved
<1>12. CASE Finish(cur)
  <2>1. UNCHANGED <<server, row>> BY <1>12 DEF Finish, durable
  <2>2. CASE SizeHeld(cur)
    <3>1. Go(cur, "rename") BY <1>12, <2>2 DEF Finish
    <3>2. \E v \in Versions : Complete(file[temp], v) BY <1>12, <2>2, FinishWhole
    <3>3. Ready(th[cur])' BY <1>1, <2>1, <3>2 DEF Ready, Complete, server
    <3> QED BY <1>5, <1>7, <2>1, <3>1, <3>3 DEF Renaming
  <2>3. CASE ~SizeHeld(cur)
    <3>1. Go(cur, "transient") BY <1>12, <2>3 DEF Finish
    <3> QED BY <1>5, <1>6, <2>1, <3>1
  <2> QED BY <2>2, <2>3
<1>13. CASE Rename(cur)
  <2>1. a.pc \in Renaming /\ Renamed /\ row' = row /\ Go(cur, After("publish"))
    BY <1>13 DEF Rename, At, Renaming, durable
  <2>2. Kept BY <1>1, <2>1, KeptRenamed
  <2> QED BY <1>4, <1>6, <2>1, <2>2
<1>14. CASE RenameRefused(cur)
  <2>1. a.pc \in Renaming /\ UNCHANGED <<server, row>> /\ Go(cur, "remove")
    BY <1>14 DEF RenameRefused, At, Renaming, durable
  <2>2. Ready(th[cur])' BY <1>8, <2>1 DEF server
  <2> QED BY <1>5, <1>7, <2>1, <2>2 DEF Renaming
<1>15. CASE RenameUnsure(cur)
  <2>1. a.pc \in Renaming /\ (Renamed \/ UNCHANGED server) /\ row' = row /\ Go(cur, "remove")
    BY <1>15 DEF RenameUnsure, At, Renaming, durable
  <2>2. Kept BY <1>1, <1>5, <2>1, KeptRenamed
  <2>3. Ready(th[cur])' BY <1>8, <2>1 DEF server, Renamed
  <2> QED BY <1>7, <2>1, <2>2, <2>3 DEF Renaming
<1>16. CASE Remove(cur)
  <2>1. a.pc \in Renaming /\ UNCHANGED <<file, temp, row>> /\ final' \in {final, 0}
    BY <1>16 DEF Remove, At, Renaming, durable
  <2>2. Kept BY <1>1, <2>1, KeptNames
  <2>3. Ready(th[cur])' BY <1>8, <2>1
  <2>4. Go(cur, "again") \/ \E p \in {"transient", "refused"} : Go(cur, p)
    BY <1>16 DEF Remove, Classified
  <2> QED BY <1>6, <1>7, <2>1, <2>2, <2>3, <2>4 DEF Renaming
<1>17. CASE RenameAgain(cur)
  <2>1. a.pc \in Renaming /\ (Renamed \/ UNCHANGED server) /\ row' = row
    BY <1>17 DEF RenameAgain, At, Renaming, durable
  <2>2. Kept BY <1>1, <1>5, <2>1, KeptRenamed
  <2>3. \E p \in {"clear", "verify", "transient", "refused"} : Go(cur, p)
    BY <1>4, <1>17 DEF RenameAgain
  <2> QED BY <1>6, <2>1, <2>2, <2>3
<1>18. CASE ClearToken(cur) \/ Checkpoint
  <2>1. row' \in {row, NoToken} /\ UNCHANGED server
    BY <1>0, <1>18, SaveIs DEF ClearToken, Checkpoint
  <2>2. \E p \in {"verify", "mark"} : Go(cur, p) BY <1>18 DEF ClearToken, Checkpoint
  <2> QED BY <1>5, <1>6, <2>1, <2>2
<1>19. CASE Verify \/ Invalidate \/ GiveUp
  <2>1. UNCHANGED <<row, server>> BY <1>19 DEF Verify, Invalidate, GiveUp, durable
  <2>2. \E p \in {"checkpoint", "refused", "transient", "failed", "abort", "drop"} : Go(cur, p)
    BY <1>19 DEF Verify, Invalidate, GiveUp
  <2> QED BY <1>5, <1>6, <2>1, <2>2
<1>20. CASE Abort(cur)
  <2>1. UNCHANGED <<row, file, final>> /\ temp' \in {temp, 0} /\ Go(cur, "drop")
    BY <1>20 DEF Abort, durable
  <2>2. Kept BY <1>1, <2>1, KeptNames
  <2> QED BY <1>6, <2>1, <2>2
<1>21. CASE Lost(cur)
  <2>1. row' = row /\ Go(cur, "transient") BY <1>21 DEF Lost, durable
  <2>2. \/ UNCHANGED server
        \/ Cut(cur) /\ UNCHANGED <<temp, final>>
        \/ Renamed /\ a.pc \in Renaming
    BY <1>21 DEF Lost, Renaming
  <2>3. Kept BY <1>1, <1>5, <2>2, KeptRenamed, KeptCut
  <2> QED BY <1>6, <2>1, <2>3
<1>22. CASE Denied(cur) \/ LocalError(cur) \/ RenameFails(cur)
  <2>1. UNCHANGED <<row, file, final>> /\ temp' \in {temp, 0}
    BY <1>22 DEF Denied, LocalError, RenameFails, durable, server
  <2>2. \E p \in {"transient", "refused"} : Go(cur, p)
    BY <1>22 DEF Denied, LocalError, RenameFails, Classified
  <2>3. Kept BY <1>1, <2>1, KeptNames
  <2> QED BY <1>6, <2>1, <2>2, <2>3
<1> QED BY <1>9, <1>10, <1>11, <1>12, <1>13, <1>14, <1>15, <1>16, <1>17, <1>18, <1>19,
         <1>20, <1>21, <1>22 DEF Walk, Broken

\* An attempt ends: a local rename that is under way takes place.
LEMMA FileStop ==
    ASSUME Appending, BaseInv, FileInv, Undisturbed, Stop(cur)
    PROVE  FileInv'
<1>0. TypeInv /\ TypeOK /\ cur \in Threads BY BaseFacts
<1>1. /\ Done(cur) /\ UNCHANGED <<backend, src, cur, file>> /\ row' \in {row, NoToken}
      /\ UNCHANGED <<temp, final>> \/ (Renamed /\ th[cur].pc \in {"rename", "again"})
  BY <1>0, StopDoes
<1>2. th'[cur].pc = "idle" BY <1>0, <1>1, Ends
<1>3. Kept BY <1>1, KeptNames, KeptRenamed DEF Renaming
<1>4. Loose(th'[cur].pc) BY <1>2, LooseIs
<1>5. Lagging' BY <1>1, <1>2 DEF Lagging, Active
<1> QED BY <1>1, <1>3, <1>4, <1>5, FileLoose

\* A crash: the files keep what the server has.
LEMMA FileCrash ==
    ASSUME Appending, BaseInv, FileInv, Undisturbed, Crash
    PROVE  FileInv'
<1>0. TypeInv /\ TypeOK /\ cur \in Threads BY BaseFacts
<1>1. Cut(cur) /\ UNCHANGED <<backend, src, cur, row, temp, final>> /\ th'[cur].pc = "idle"
  BY <1>0, CrashDoes
<1>2. Kept BY <1>1, KeptCut
<1>3. Loose(th'[cur].pc) BY <1>1, LooseIs
<1>4. Lagging' BY <1>1 DEF Lagging, Active
<1> QED BY <1>1, <1>2, <1>3, <1>4, FileLoose

\* A shorter part of a prefix.
LEMMA HeldLess ==
    ASSUME NEW v, NEW m \in Nat, NEW n \in Nat, m <= n, Held(v, n)
    PROVE  Held(v, m)
BY DEF Held, Prefix, Chunks

\* The steps before the first chunk.
LEMMA FileStart ==
    ASSUME Appending, BaseInv, HashInv, FileInv, Undisturbed,
           Begin \/ Stat(cur) \/ HashPrefix(cur) \/ Load(cur)
    PROVE  FileInv'
<1> DEFINE a == th[cur]
           b == th'[cur]
<1>0. /\ TypeInv /\ TypeOK /\ cur \in Threads /\ backend \in {"sftp", "ftps", "local"}
      /\ src \in Nat /\ src \in Versions
  BY BaseFacts
<1>1. UNCHANGED <<backend, src, cur, server, row>>
  BY DEF Begin, Stat, HashPrefix, Load, durable
<1>2. Kept BY <1>1, KeptNames DEF server
<1>3. CASE Begin
  <2>1. /\ b.pc = "dial" /\ b.ver = src
        /\ b.pos = IF row.ver = src THEN row.done ELSE 0
    BY <1>0, <1>3, BeginDoes
  <2>2. Lagging' BY <1>1, <2>1 DEF Lagging, BaseInv, ReadInv
  <2>3. Held(b.ver, b.pos) BY <2>1 DEF FileInv, Covered, Held
  <2>4. Unread(th[cur])' BY <1>1, <2>1, <2>3 DEF Unread, Held, Prefix, Unopened, server
  <2>5. Writing(th[cur])' /\ Ready(th[cur])'
    BY <1>1, <2>1 DEF Writing, Ready, Opened, Streaming, Renaming
  <2> QED BY <1>1, <1>2, <2>2, <2>4, <2>5, FileFrom
<1>4. CASE Stat(cur)
  <2>1. /\ a.pc = "stat" /\ backend # "local" /\ b.pc = After("stat") /\ b.ver = a.ver
        /\ b.pos = Committed(a.pos) \/ b.pos = 0
        /\ b.pos \in 0 .. MaxChunks /\ b.pos <= a.pos
    BY <1>0, <1>4, StatDoes
  <2>2. b.pc \in Unopened /\ b.pc \notin Opened \cup Renaming
    BY <1>0, <2>1, AfterSftp, AfterFtps DEF Unopened, Opened, Streaming, Renaming
  <2>3. Lagging' BY <1>1, <2>1 DEF FileInv, Lagging, Active
  <2>4. a.pos \in Nat /\ b.pos \in Nat BY <1>0, <2>1, BaseFacts
  <2>5. Held(a.ver, b.pos)
    <3>1. Held(a.ver, a.pos) BY <2>1 DEF FileInv, Unread
    <3> QED BY <2>1, <2>4, <3>1, HeldLess
  <2>6. b.pos > 0 => temp # 0 /\ b.pos <= file[temp].len
    <3>1. temp # 0 => file[temp].len \in Nat BY <1>0 DEF TypeOK, Contents, Files
    <3> QED BY <2>1, <2>4, <3>1 DEF Committed
  <2>7. Unread(th[cur])' BY <1>1, <2>1, <2>5, <2>6 DEF Unread, Held, Prefix, server
  <2>8. Writing(th[cur])' /\ Ready(th[cur])' BY <1>1, <2>2 DEF Writing, Ready, Opened
  <2> QED BY <1>1, <1>2, <2>3, <2>7, <2>8, FileFrom
<1>5. CASE HashPrefix(cur) \/ Load(cur)
  <2>1. /\ a.pc \in {"hash", "load"} /\ b.ver = a.ver /\ b.pos = a.pos /\ b.fd = a.fd
        /\ a.pc = "hash" => b.pc = After("hash") /\ backend # "local"
        /\ a.pc = "load" => b.pc = After("load")
    BY <1>0, <1>5, HashDoes, LoadDoes
  <2>2. Lagging' BY <1>1, <2>1 DEF FileInv, Lagging, Active
  <2>3. CASE backend = "sftp"
    <3>1. b.pc \in {"load", "stream"} BY <2>1, <2>3, AfterSftp
    <3>2. /\ temp # 0 /\ a.fd = temp /\ a.pos <= file[temp].len
          /\ Prefix(temp, a.ver, a.pos)
      BY <2>1, <2>3 DEF FileInv, Writing, Opened, Streaming
    <3>3. Writing(th[cur])' BY <1>1, <2>1, <2>3, <3>2 DEF Writing, Prefix, server
    <3>4. Unread(th[cur])' /\ Ready(th[cur])'
      BY <1>1, <2>3, <3>1 DEF Unread, Ready, Unopened, Renaming
    <3> QED BY <1>1, <1>2, <2>2, <3>3, <3>4, FileFrom
  <2>4. CASE backend # "sftp"
    <3>1. b.pc \in {"hash", "save", "open"} BY <1>0, <2>1, <2>4, AfterFtps, AfterLocal
    <3>2. Held(a.ver, a.pos) /\ (a.pos > 0 => temp # 0 /\ a.pos <= file[temp].len)
      BY <2>1, <2>4 DEF FileInv, Unread, Unopened
    <3>3. Unread(th[cur])' BY <1>1, <2>1, <3>2 DEF Unread, Held, Prefix, server
    <3>4. Writing(th[cur])' /\ Ready(th[cur])'
      BY <1>1, <2>4, <3>1 DEF Writing, Ready, Opened, Streaming, Renaming
    <3> QED BY <1>1, <1>2, <2>2, <3>3, <3>4, FileFrom
  <2> QED BY <2>3, <2>4
<1> QED BY <1>3, <1>4, <1>5

\* The temp file is opened, and emptied unless the attempt resumes.
LEMMA FileOpen ==
    ASSUME Appending, BaseInv, HashInv, FileInv, Undisturbed, Open(cur)
    PROVE  FileInv'
<1> DEFINE a == th[cur]
           b == th'[cur]
<1>0. /\ TypeInv /\ TypeOK /\ cur \in Threads /\ backend \in {"sftp", "ftps", "local"}
      /\ a.pos \in Nat /\ SizeOf[a.ver] \in Nat
  BY BaseFacts
<1>1. /\ a.pc = "open" /\ b.pc = After("open") /\ b.ver = a.ver /\ b.view = a.view
      /\ b.pos = a.pos /\ b.fd = temp' /\ temp' \in Files
      /\ temp # 0 => temp' = temp
      /\ temp = 0 => temp' # final
      /\ file' = IF temp = 0 \/ a.pos = 0 THEN [file EXCEPT ![temp'] = Empty] ELSE file
      /\ UNCHANGED <<backend, src, cur, row, final>>
  BY <1>0, OpenDoes DEF durable
<1>2. /\ Held(a.ver, a.pos) /\ (a.pos > 0 => temp # 0 /\ a.pos <= file[temp].len)
      /\ (backend = "local" => a.pos = 0)
  BY <1>1 DEF FileInv, Unread, Unopened, HashInv, Shape
<1>3. temp' # 0 /\ temp' # final /\ temp' \in Files
  BY <1>1 DEF FileInv, Dense, Files
<1>4. /\ a.pos = 0 => file'[temp'] = Empty
      /\ a.pos # 0 => file' = file /\ temp' = temp
      /\ \A f \in Files : f # temp' => file'[f] = file[f]
      /\ temp = 0 => file'[temp'] = Empty
      /\ file'[temp'] = Empty \/ (file' = file /\ temp' = temp)
  BY <1>0, <1>1, <1>2 DEF TypeOK
<1>5. Empty.len = 0 /\ \A c \in Chunks : Empty.bytes[c] = 0 /\ c > 0 /\ c \in Nat
  BY DEF Empty, NoBytes, Chunks
<1>6. Dense'
  <2>1. \A f \in Files, c \in Chunks : (file'[f].bytes[c] = 0) <=> (c > file'[f].len)
    <3>1. \A f \in Files : file'[f] = file[f] \/ file'[f] = Empty BY <1>4
    <3> QED BY <1>5, <3>1 DEF FileInv, Dense
  <2> QED BY <1>1, <1>3, <2>1 DEF Dense
<1>7. PublishedWhole'
  <2>1. final # 0 => final \in Files BY <1>0 DEF TypeOK, Files
  <2>2. final # 0 => file'[final] = file[final] BY <1>3, <1>4, <2>1
  <2> QED BY <1>1, <2>2 DEF FileInv, PublishedWhole, Undisturbed, Complete
<1>8. ASSUME NEW v \in Versions, NEW n \in Nat, Held(v, n) PROVE Held(v, n)'
  <2>1. SizeOf[v] \in Nat BY Sizes
  <2>2. CASE file'[temp'] = Empty BY <1>5, <2>1, <2>2 DEF Held, Prefix
  <2>3. CASE file' = file /\ temp' = temp BY <1>8, <2>3 DEF Held, Prefix
  <2> QED BY <1>4, <2>2, <2>3
<1>9. Kept BY <1>6, <1>7, <1>8 DEF Kept
<1>10. /\ b.pc \notin {"dial", "stat"} \cup Unopened \cup Renaming
  BY <1>0, <1>1, AfterSftp, AfterFtps, AfterLocal DEF Unopened, Renaming
<1>11. Unread(th[cur])' /\ Ready(th[cur])' BY <1>1, <1>10 DEF Unread, Ready, Unopened
<1>12. /\ b.pos <= file'[temp'].len /\ (backend = "local" => b.pos = file'[temp'].len)
       /\ file'[temp'].len <= SizeOf[b.ver]
       /\ \A c \in Chunks : c <= b.pos /\ c <= file'[temp'].len => file'[temp'].bytes[c] = b.ver
  <2>1. CASE a.pos = 0 BY <1>0, <1>1, <1>4, <1>5, <2>1
  <2>2. CASE a.pos # 0
    <3>1. Prefix(temp, a.ver, a.pos) BY <1>0, <1>2, <2>2 DEF Held
    <3> QED BY <1>0, <1>1, <1>2, <1>4, <2>2, <3>1 DEF Prefix
  <2> QED BY <2>1, <2>2
<1>13. Writing(th[cur])' BY <1>1, <1>3, <1>12 DEF Writing, Prefix
<1>14. Lagging' BY <1>1 DEF FileInv, Lagging, Active
<1> QED BY <1>1, <1>9, <1>11, <1>13, <1>14, FileFrom

\* A chunk is written behind the offset.
LEMMA FileStream ==
    ASSUME Appending, BaseInv, FileInv, Undisturbed, Stream(cur)
    PROVE  FileInv'
<1> DEFINE a == th[cur]
           b == th'[cur]
           n == a.pos + 1
           old == file[temp]
           new == file'[temp]
<1>0. /\ TypeInv /\ TypeOK /\ cur \in Threads /\ src \in Nat /\ src \in Versions
      /\ backend \in {"sftp", "ftps", "local"}
  BY BaseFacts
<1>1. /\ a.pc = "stream" /\ b.ver = a.ver /\ b.view = a.view /\ b.pos = n /\ b.fd = a.fd
      /\ n \in Chunks /\ n <= SizeOf[a.view]
      /\ b.pc = Loop \/ b.pc = "persist"
      /\ UNCHANGED <<backend, src, cur, row, temp, final>>
  BY <1>0, StreamDoes DEF durable
<1>2. /\ temp # 0 /\ a.fd = temp /\ a.pos <= old.len
      /\ a.view = a.ver => Prefix(temp, a.ver, a.pos)
      /\ backend = "local" => a.pos = old.len
      /\ temp # final
  BY <1>1 DEF FileInv, Writing, Opened, Streaming, Dense
<1>3. temp \in Files BY <1>0, <1>2 DEF TypeOK, Files
<1>4. /\ \A g \in Files : g # temp => file'[g] = file[g]
      /\ new.bytes = [old.bytes EXCEPT ![n] = a.view]
      /\ new.len = IF old.len < n THEN n ELSE old.len
  BY <1>0, <1>2, <1>3, StreamDoes
<1>5. /\ a.ver \in Versions /\ a.view \in Versions /\ a.ver <= a.view /\ a.view <= src
      /\ a.ver \in Nat /\ a.view \in Nat /\ a.view > 0 /\ a.pos \in Nat
      /\ SizeOf[a.view] \in Nat /\ SizeOf[a.ver] \in Nat
  <2>1. Active(cur) BY <1>1 DEF Active
  <2>2. a.view \in Versions BY <1>0, BaseFacts
  <2> QED BY <1>0, <2>1, <2>2, BaseFacts, Sizes
<1>6. old.len \in Nat /\ old.bytes \in [Chunks -> 0 .. MaxVersion]
  BY <1>0, <1>3 DEF TypeOK, Contents
<1>7. \A c \in Chunks : c \in Nat /\ (c # n => new.bytes[c] = old.bytes[c])
  BY <1>4, <1>6 DEF Chunks
<1>8. new.bytes[n] = a.view BY <1>1, <1>4, <1>6
<1>9. n \in Nat /\ n = a.pos + 1 BY <1>5
<1> HIDE DEF n, old, new
<1>10. Dense'
  <2>1. ASSUME NEW c \in Chunks PROVE (new.bytes[c] = 0) <=> (c > new.len)
    <3>1. (old.bytes[c] = 0) <=> (c > old.len) BY <1>3 DEF FileInv, Dense, old
    <3>2. CASE c = n BY <1>4, <1>5, <1>6, <1>8, <1>9, <3>2
    <3>3. CASE c # n BY <1>2, <1>4, <1>5, <1>6, <1>7, <1>9, <3>1, <3>3
    <3> QED BY <3>2, <3>3
  <2>2. ASSUME NEW f \in Files, NEW c \in Chunks
        PROVE  (file'[f].bytes[c] = 0) <=> (c > file'[f].len)
    <3>1. CASE f = temp BY <2>1, <3>1 DEF new
    <3>2. CASE f # temp BY <1>4, <3>2 DEF FileInv, Dense
    <3> QED BY <3>1, <3>2
  <2> QED BY <1>1, <1>2, <2>2 DEF Dense
<1>11. PublishedWhole'
  <2>1. final # 0 => final \in Files BY <1>0 DEF TypeOK, Files
  <2>2. final # 0 => file'[final] = file[final] BY <1>2, <1>4, <2>1
  <2> QED BY <1>1, <2>2 DEF FileInv, PublishedWhole, Undisturbed, Complete
\* The chunk is of the version the prefix is of.
<1>12. ASSUME NEW m \in Nat, Prefix(temp, a.view, m)
       PROVE  /\ new.len <= SizeOf[a.view]
              /\ \A c \in Chunks : c <= m /\ c <= new.len => new.bytes[c] = a.view
  <2>1. /\ old.len <= SizeOf[a.view]
        /\ \A c \in Chunks : c <= m /\ c <= old.len => old.bytes[c] = a.view
    BY <1>12 DEF Prefix, old
  <2>2. new.len <= SizeOf[a.view] BY <1>1, <1>4, <2>1
  <2>3. ASSUME NEW c \in Chunks, c <= m, c <= new.len PROVE new.bytes[c] = a.view
    <3>1. CASE c = n BY <1>8, <3>1
    <3>2. CASE c # n
      <4>1. c <= old.len BY <1>2, <1>4, <1>5, <1>6, <1>7, <1>9, <2>3, <3>2
      <4> QED BY <1>7, <2>1, <2>3, <3>2, <4>1
    <3> QED BY <3>1, <3>2
  <2> QED BY <2>2, <2>3
<1>13. Covered'
  <2> SUFFICES ASSUME row.ver = src, row.done > 0
               PROVE  /\ new.len <= SizeOf[src]
                      /\ \A c \in Chunks : c <= row.done /\ c <= new.len => new.bytes[c] = src
    BY <1>1 DEF Covered, Held, Prefix, new
  <2>1. row.ver <= a.ver BY <1>1 DEF FileInv, Lagging, Active
  <2>2. a.view = src BY <1>0, <1>5, <2>1
  <2>3. Prefix(temp, a.view, row.done) /\ row.done \in Nat
    BY <1>0, <1>2, <2>2 DEF FileInv, Covered, Held, TypeOK
  <2> QED BY <1>12, <2>2, <2>3
<1>14. b.pc \in Streaming BY <1>1 DEF Loop, Streaming
<1>15. b.pc \notin {"dial", "stat"} \cup Unopened \cup Renaming
  BY <1>14 DEF Streaming, Unopened, Renaming
<1>16. Unread(th[cur])' /\ Ready(th[cur])' BY <1>1, <1>15 DEF Unread, Ready, Unopened
<1>17. Writing(th[cur])'
  <2>1. n <= new.len /\ (backend = "local" => n = new.len)
    BY <1>2, <1>4, <1>5, <1>6, <1>9
  <2>2. ASSUME a.view = a.ver
        PROVE  /\ new.len <= SizeOf[a.ver]
               /\ \A c \in Chunks : c <= n /\ c <= new.len => new.bytes[c] = a.ver
    <3>1. Prefix(temp, a.view, a.pos) BY <1>2, <2>2
    <3>2. /\ new.len <= SizeOf[a.view]
          /\ \A c \in Chunks : c <= a.pos /\ c <= new.len => new.bytes[c] = a.view
      BY <1>5, <1>12, <3>1
    <3> QED BY <1>5, <1>7, <1>8, <1>9, <2>2, <3>2
  <2> QED BY <1>1, <1>2, <1>14, <2>1, <2>2 DEF Writing, Prefix, new
<1>18. Lagging' BY <1>1 DEF FileInv, Lagging, Active
<1> QED BY <1>10, <1>11, <1>13, <1>16, <1>17, <1>18 DEF FileInv

\* The producer makes a token old, and the view of an open handle new.
LEMMA FileWritten ==
    ASSUME Appending, BaseInv, FileInv, Undisturbed, Rewrite \/ NewFile
    PROVE  FileInv'
<1> DEFINE a == th[cur]
           b == th'[cur]
<1>0. TypeInv /\ TypeOK /\ cur \in Threads /\ src \in Nat /\ src > 0 BY BaseFacts
<1>1. /\ src < MaxVersion /\ src' = src + 1 /\ Written(src + 1)
      /\ UNCHANGED <<backend, cur, server>>
      /\ row' = row \/ (row' = NoToken /\ a.pc = "idle")
  BY DEF Rewrite, NewFile, At, durable
<1>2. src + 1 \in Versions BY <1>0, <1>1, TempAssumption DEF Versions
<1>3. /\ b.pc = a.pc /\ b.ver = a.ver /\ b.pos = a.pos /\ b.fd = a.fd
      /\ b.view = a.view \/ b.view = src + 1
  BY <1>0, <1>1, <1>2, WrittenDoes
<1>4. Dense' /\ PublishedWhole'
  BY <1>1 DEF FileInv, Dense, PublishedWhole, Complete, Undisturbed, server
<1>5. Covered'
  <2>1. row'.ver \in Nat /\ row'.ver <= src
    BY <1>0, <1>1 DEF BaseInv, ReadInv, NoToken, Token, TypeOK
  <2> QED BY <1>0, <1>1, <2>1 DEF Covered
<1>6. Lagging' BY <1>1, <1>3 DEF FileInv, Lagging, Active
<1>7. Unread(th[cur])' BY <1>1, <1>3 DEF FileInv, Unread, Held, Prefix, Unopened, server
<1>8. Ready(th[cur])' BY <1>1, <1>3 DEF FileInv, Ready, Complete, server
<1>9. Writing(th[cur])'
  <2>1. b.pc \in Opened => Active(cur) BY <1>3 DEF Opened, Streaming, Active
  <2>2. b.pc \in Opened /\ b.view = b.ver => a.view = a.ver
    BY <1>0, <1>3, <2>1, BaseFacts
  <2> QED BY <1>1, <1>3, <2>2 DEF FileInv, Writing, Prefix, Opened, server
<1> QED BY <1>4, <1>5, <1>6, <1>7, <1>8, <1>9 DEF FileInv

LEMMA FileStep ==
    ASSUME Appending, BaseInv, HashInv, FileInv, [Next]_vars
    PROVE  FileInv'
<1> SUFFICES ASSUME Undisturbed' PROVE FileInv' BY DEF FileInv
<1>0. TypeInv /\ TypeOK /\ cur \in Threads BY BaseFacts
<1>1. ~Detach BY <1>0, DetachDoes DEF Undisturbed
<1>2. cur' = cur
  <2>1. \A t \in Threads : Walk(t) \/ Stop(t) => cur' = cur BY <1>0, WalkGoes, StopDoes
  <2>2. \A t \in Threads : Stat(t) \/ Open(t) \/ HashPrefix(t) \/ Load(t) \/ Stream(t)
          => cur' = cur
    BY DEF Stat, Open, HashPrefix, Load, Stream
  <2> QED BY <1>0, <1>1, <2>1, <2>2, Steps DEF Begin, Crash, Rewrite, NewFile, vars
<1>3. Undisturbed BY <1>2 DEF Undisturbed
<1>4. \A t \in Threads : Runs(t) => t = cur
  BY <1>3 DEF Runs, BaseInv, RolesInv, Threads, Undisturbed
<1>5. CASE UNCHANGED vars
  <2>1. UNCHANGED <<backend, src, cur, th, row, server>> BY <1>5 DEF vars, durable
  <2>2. Dense' /\ PublishedWhole' /\ Covered' /\ Lagging'
    BY <1>3, <2>1 DEF FileInv, Dense, PublishedWhole, Complete, Undisturbed, Covered, Held,
         Prefix, Lagging, Active, server
  <2>3. Unread(th[cur])' /\ Writing(th[cur])' /\ Ready(th[cur])'
    BY <1>3, <2>1 DEF FileInv, Unread, Writing, Ready, Held, Prefix, Opened, Unopened,
         Complete, server
  <2> QED BY <2>2, <2>3 DEF FileInv
<1> QED BY <1>0, <1>1, <1>3, <1>4, <1>5, Steps, FileWalk, FileStop, FileCrash, FileStart,
         FileOpen, FileStream, FileWritten

LEMMA FileInit == Init => FileInv
<1> SUFFICES ASSUME Init PROVE FileInv OBVIOUS
<1>1. th[cur].pc = "idle" BY FreshIs DEF Init, Threads
<1>2. Dense
  <2>1. \A c \in Chunks : c > 0 BY DEF Chunks
  <2> QED BY <2>1 DEF Init, Dense, Empty, NoBytes
<1>3. Covered BY DEF Init, Covered, NoToken, Token
<1>4. /\ Unread(th[cur]) /\ Writing(th[cur]) /\ Ready(th[cur]) /\ Lagging
  BY <1>1 DEF Unread, Writing, Ready, Lagging, Unopened, Opened, Streaming, Renaming, Active
<1>5. PublishedWhole BY DEF Init, PublishedWhole
<1> QED BY <1>2, <1>3, <1>4, <1>5 DEF FileInv

\* What stands at the final name is a whole version at every moment, also
\* while an older one is replaced and after a publish that failed half-way, as
\* long as no blocking upload was left behind (TempPublish!PublishedWhole).
THEOREM PublishedTheorem ==
    ASSUME Appending PROVE Spec => []PublishedWhole
<1> DEFINE Inv == BaseInv /\ HashInv /\ FileInv
<1>1. Init => Inv BY BaseInit, HashInit, FileInit
<1>2. Inv /\ [Next]_vars => Inv' BY BaseStep, HashStep, FileStep
<1>3. Inv => PublishedWhole BY DEF FileInv, PublishedWhole
<1> QED BY <1>1, <1>2, <1>3, PTL DEF Spec
=============================================================================
