--------------------------- MODULE DiscoveryProofs ---------------------------
(***************************************************************************)
(* What a tick accepts and announces, and how long a file waits for it,    *)
(* for any number of files, any quiet time, rescan and re-log interval,    *)
(* any length of a tick, and any history of writes, removals, outages and  *)
(* triggers.                                                               *)
(*                                                                         *)
(* tick_lock keeps time from passing between a tick's scan and its probes, *)
(* so a version that changed in between is of age zero; and a tracker's    *)
(* entry for the version on disk is never older than that version.         *)
(***************************************************************************)
EXTENDS Discovery, WellFoundedInduction, TLAPS

\* A version on disk or in the tracker is one that was written.
Written ==
    \A f \in Files : /\ disk[f] \in {None, made[f]}
                     /\ seen[f].ver <= made[f]

\* tick_lock: at most one task is inside its tick.
Inside(t) == tick[t].pc \in {"probe", "enqueue", "work"}
LockHeld == \A t, u \in Tasks : Inside(t) /\ Inside(u) => t = u

\* The tracker has not timed the version on disk for longer than it exists.
Tracked ==
    \A f \in Files : disk[f] # None /\ seen[f].ver = disk[f]
                     => seen[f].age <= age[f]

\* What changed since a scan listed it has only just been written.
Listing ==
    \A t \in Tasks, f \in Files :
        /\ tick[t].pc = "probe" /\ f \in tick[t].todo
        /\ disk[f] # None /\ tick[t].cand[f] \notin {0, disk[f]}
        => age[f] = 0

\* The log's PermissionDenied entries are the announced outages.
Ledger == \A p \in Paths : told[p][Denied] = log[p][Denied]

-----------------------------------------------------------------------------
(* The clock's arithmetic. *)

LEMMA MinPair ==
    ASSUME NEW a \in Int, NEW b \in Int
    PROVE  Min({a, b}) = IF a <= b THEN a ELSE b
<1> DEFINE m == IF a <= b THEN a ELSE b
<1>1. m \in {a, b} /\ \A y \in {a, b} : m <= y OBVIOUS
<1>2. \A x \in {a, b} : (\A y \in {a, b} : x <= y) => x = m OBVIOUS
<1> HIDE DEF m
<1>3. (CHOOSE x \in {a, b} : \A y \in {a, b} : x <= y) = m BY <1>1, <1>2
<1> QED BY <1>3 DEF Min, m

LEMMA MaxPair ==
    ASSUME NEW a \in Int, NEW b \in Int
    PROVE  Max({a, b}) = IF a >= b THEN a ELSE b
<1> DEFINE m == IF a >= b THEN a ELSE b
<1>1. m \in {a, b} /\ \A y \in {a, b} : m >= y OBVIOUS
<1>2. \A x \in {a, b} : (\A y \in {a, b} : x >= y) => x = m OBVIOUS
<1> HIDE DEF m
<1>3. (CHOOSE x \in {a, b} : \A y \in {a, b} : x >= y) = m BY <1>1, <1>2
<1> QED BY <1>3 DEF Max, m

\* Ages grow to their cap and timers run down to zero.
LEMMA Aging ==
    ASSUME NEW cap \in Nat, NEW n \in {None} \cup 0..cap
    PROVE  /\ Older(n, cap) \in {None} \cup 0..cap
           /\ n = None <=> Older(n, cap) = None
           /\ n # None => Older(n, cap) = IF n < cap THEN n + 1 ELSE cap
<1>1. CASE n = None BY <1>1 DEF Older, None
<1>2. CASE n # None
  <2>1. n \in 0..cap BY <1>2
  <2>2. Min({n + 1, cap}) = IF n + 1 <= cap THEN n + 1 ELSE cap
    BY <2>1, MinPair
  <2> QED BY <1>2, <2>1, <2>2 DEF Older, None
<1> QED BY <1>1, <1>2

LEMMA Running ==
    ASSUME NEW cap \in Nat, NEW n \in {None} \cup 0..cap
    PROVE  /\ Sooner(n) \in {None} \cup 0..cap
           /\ n = None <=> Sooner(n) = None
<1>1. CASE n = None BY <1>1 DEF Sooner, None
<1>2. CASE n # None
  <2>1. n \in 0..cap BY <1>2
  <2>2. Max({n - 1, 0}) = IF n - 1 >= 0 THEN n - 1 ELSE 0
    BY <2>1, MaxPair
  <2> QED BY <1>2, <2>1, <2>2 DEF Sooner, None
<1> QED BY <1>1, <1>2

\* A set of natural numbers has a least member.
LEMMA LeastOf ==
    ASSUME NEW S, S \subseteq Nat, S # {}
    PROVE  \E m \in S : \A k \in S : m <= k
<1> DEFINE Rel == OpToRel(<, Nat)
<1>1. IsWellFoundedOn(Rel, Nat) BY NatLessThanWellFounded
<1>2. \A x, y \in Nat : x < y => <<x, y>> \in Rel BY DEF OpToRel
<1> HIDE DEF Rel
<1>3. PICK m \in S : \A k \in S : ~(<<k, m>> \in Rel) BY <1>1, WFMin
<1>4. ASSUME NEW k \in S PROVE m <= k
  <2>1. k \in Nat /\ m \in Nat OBVIOUS
  <2>2. ~(k < m) BY <1>2, <1>3, <2>1
  <2> QED BY <2>1, <2>2
<1> QED BY <1>4

\* The re-check, when one is due, comes no later than the rescan.
LEMMA Rearmed ==
    ASSUME TypeOK
    PROVE  Recheck \in {None} \cup 1..Rescan
<1> DEFINE W == {Quiet - seen[f].age : f \in Pending}
<1>0. Quiet \in Nat /\ Rescan \in Nat \ {0} BY DiscoveryAssumption
<1>1. CASE setting.strategy # "stability" \/ Pending = {}
  BY <1>1 DEF Recheck
<1>2. CASE setting.strategy = "stability" /\ Pending # {}
  <2>1. \A f \in Pending : Quiet - seen[f].age \in Nat
    BY <1>0 DEF Pending, TypeOK
  <2>2. W \subseteq Nat /\ W # {} BY <1>2, <2>1
  <2>3. Recheck = Min({Rescan, Max({1, Min(W)})})
    BY <1>2 DEF Recheck
  <2> HIDE DEF W
  <2>4. Min(W) \in Nat
    <3>1. PICK m \in W : \A k \in W : m <= k BY <2>2, LeastOf
    <3>2. Min(W) \in W BY <3>1 DEF Min
    <3> QED BY <2>2, <3>2
  <2>5. Max({1, Min(W)}) \in Nat /\ Max({1, Min(W)}) >= 1 BY <2>4, MaxPair
  <2>6. Recheck \in 1..Rescan BY <1>0, <2>3, <2>5, MinPair
  <2> QED BY <2>6
<1> QED BY <1>1, <1>2

-----------------------------------------------------------------------------
(* Types. *)

LEMMA NoneIsApart == None \notin Nat /\ None \in Int
BY DEF None

LEMMA Constants ==
    /\ Quiet \in Nat /\ Rescan \in Nat \ {0} /\ Relog \in Nat \ {0}
    /\ NudgeCap \in Nat \ {0} /\ MaxSlow \in Nat /\ Longest \in Nat
BY DiscoveryAssumption DEF Longest

LEMMA IdleType == Idle \in TickTypes /\ [Idle EXCEPT !.pc = "wait"] \in TickTypes
                  /\ [Idle EXCEPT !.pc = "work"] \in TickTypes
BY Constants DEF Idle, TickTypes

\* A tick moves on.
LEMMA TickMoves ==
    ASSUME TypeOK, NEW t \in Tasks,
           NEW c \in {"idle", "wait", "probe", "enqueue", "work"}
    PROVE  [tick EXCEPT ![t].pc = c] \in [Tasks -> TickTypes]
<1>1. tick[t] \in TickTypes BY DEF TypeOK
<1>2. [tick[t] EXCEPT !.pc = c] \in TickTypes BY <1>1 DEF TickTypes
<1> QED BY <1>2 DEF TypeOK

LEMMA TypeInit == Init => TypeOK
<1> SUFFICES ASSUME Init PROVE TypeOK OBVIOUS
<1>1. PICK kind \in {"ok"} \cup Kinds :
        /\ upsets = IF kind = "ok" THEN 0 ELSE 1
        /\ access = [p \in Paths |-> IF p = Root THEN kind ELSE "ok"]
        /\ log = Seeded(kind)
        /\ told = Announced(kind)
  BY DEF Init
<1>2. access \in [Paths -> {"ok"} \cup Kinds] /\ upsets \in Nat
  BY <1>1
<1>3. /\ log \in [Paths -> [Kinds -> {None} \cup 0..Relog]]
      /\ told \in [Paths -> [Kinds -> {None} \cup 0..Relog]]
  BY <1>1, Constants DEF Seeded, Announced
<1>4. tick \in [Tasks -> TickTypes]
  BY IdleType DEF Init
<1>5. disk \in [Files -> {None} \cup Version] /\ made \in [Files -> Nat]
  BY DEF Init, Version
<1>6. timer \in [rescan : 0..Rescan, recheck : {None} \cup 0..Rescan]
  BY Constants DEF Init
<1>7. seen \in [Files -> [ver : {None} \cup Version, age : 0..Quiet]]
  BY Constants DEF Init, NoEntry
<1>8. /\ age \in [Files -> 0..Quiet] /\ late \in [Files -> 0..Longest]
      /\ row \in [Files -> {None} \cup Nat] /\ heard \subseteq Files
      /\ nudges \in 0..NudgeCap /\ marked \subseteq Files
      /\ setting \in [strategy : Strategies, watch : BOOLEAN, slow : 0..MaxSlow]
  BY Constants DEF Init
<1> QED BY <1>2, <1>3, <1>4, <1>5, <1>6, <1>7, <1>8 DEF TypeOK

LEMMA NudgeType ==
    ASSUME TypeOK, NEW f \in Files, Nudge(f)
    PROVE  /\ nudges' \in 0..NudgeCap
           /\ late' \in [Files -> 0..Longest] /\ heard' \subseteq Files
<1>1. nudges \in 0..NudgeCap BY DEF TypeOK
<1>2. Min({nudges + 1, NudgeCap}) \in 0..NudgeCap
  BY <1>1, MinPair, Constants
<1>3. nudges' \in 0..NudgeCap BY <1>1, <1>2 DEF Nudge
<1>4. late' \in [Files -> 0..Longest] /\ heard' \subseteq Files
  BY Constants DEF Nudge, TypeOK
<1> QED BY <1>3, <1>4

LEMMA TypeStep == TypeOK /\ [Next]_vars => TypeOK'
<1> SUFFICES ASSUME TypeOK, [Next]_vars PROVE TypeOK' OBVIOUS
<1> USE Constants
<1>1. ASSUME NEW f \in Files, Write(f) PROVE TypeOK'
  <2>1. made[f] \in Nat BY DEF TypeOK
  <2>2. made' \in [Files -> Nat] /\ made'[f] \in Version
    BY <1>1, <2>1 DEF Write, TypeOK, Version
  <2>3. disk' \in [Files -> {None} \cup Version]
    BY <1>1, <2>2 DEF Write, TypeOK
  <2>4. age' \in [Files -> 0..Quiet] BY <1>1 DEF Write, TypeOK
  <2>5. Nudge(f) BY <1>1 DEF Write
  <2> QED BY <1>1, <2>2, <2>3, <2>4, <2>5, NudgeType DEF Write, TypeOK
<1>2. ASSUME NEW f \in Files, Mark(f) PROVE TypeOK'
  <2>1. Nudge(f) BY <1>2 DEF Mark
  <2> QED BY <1>2, <2>1, NudgeType DEF Mark, TypeOK
<1>3. ASSUME NEW f \in Files, Remove(f) PROVE TypeOK'
  <2>1. Nudge(f) BY <1>3 DEF Remove
  <2>2. disk' \in [Files -> {None} \cup Version] BY <1>3 DEF Remove, TypeOK
  <2> QED BY <1>3, <2>1, <2>2, NudgeType DEF Remove, TypeOK
<1>4. ASSUME NEW p \in Paths, Deny(p) PROVE TypeOK'
  <2>1. access' \in [Paths -> {"ok"} \cup Kinds] BY <1>4 DEF Deny, TypeOK, Kinds
  <2>2. upsets' \in Nat BY <1>4 DEF Deny, TypeOK
  <2> QED BY <1>4, <2>1, <2>2 DEF Deny, TypeOK, spool, ghosts
<1>5. ASSUME NEW p \in Paths, Restore(p) PROVE TypeOK'
  <2>1. access' \in [Paths -> {"ok"} \cup Kinds] BY <1>5 DEF Restore, TypeOK
  <2>2. late' \in [Files -> 0..Longest] /\ heard' \subseteq Files
    BY <1>5 DEF Restore, TypeOK
  <2> QED BY <1>5, <2>1, <2>2 DEF Restore, TypeOK, spool
<1>6. CASE Wake
  <2>1. timer' \in [rescan : 0..Rescan, recheck : {None} \cup 0..Rescan]
    BY <1>6 DEF Wake, TypeOK
  <2>2. tick' \in [Tasks -> TickTypes] BY <1>6, TickMoves DEF Wake, Tasks
  <2>3. nudges' \in 0..NudgeCap BY <1>6 DEF Wake, TypeOK
  <2> QED BY <1>6, <2>1, <2>2, <2>3 DEF Wake, TypeOK, spool, ghosts
<1>7. CASE Trigger
  <2>1. tick' \in [Tasks -> TickTypes] BY <1>7, TickMoves DEF Trigger, Tasks
  <2>2. upsets' \in Nat BY <1>7 DEF Trigger, TypeOK
  <2> QED BY <1>7, <2>1, <2>2 DEF Trigger, TypeOK, spool, ghosts
<1>8. ASSUME NEW t \in Tasks, Scan(t) PROVE TypeOK'
  <2> DEFINE cand == [f \in Files |-> IF f \notin Listed THEN None
                                     ELSE IF access[f] = "ok" THEN disk[f] ELSE 0]
             issues == {<<Root, k>> : k \in {access[Root]} \ {"ok"}}
  <2>1. cand \in [Files -> {None} \cup Nat] BY DEF TypeOK, Version
  <2>2. Root \in Paths BY DEF Paths
  <2>3. issues \in SUBSET (Paths \X Kinds)
    <3>1. access[Root] \in {"ok"} \cup Kinds BY <2>2 DEF TypeOK
    <3> QED BY <2>2, <3>1
  <2>4. Listed \in SUBSET Files BY DEF Listed
  <2>5. tick' = [tick EXCEPT ![t] =
            [Idle EXCEPT !.pc = "probe", !.todo = Listed, !.cand = cand,
                         !.issues = issues]]
    BY <1>8 DEF Scan
  <2> HIDE DEF cand, issues
  <2>6. [Idle EXCEPT !.pc = "probe", !.todo = Listed, !.cand = cand,
                     !.issues = issues] \in TickTypes
    <3>1. Idle \in TickTypes BY IdleType
    <3> HIDE DEF Idle
    <3> QED BY <2>1, <2>3, <2>4, <3>1 DEF TickTypes
  <2>7. tick' \in [Tasks -> TickTypes] BY <2>5, <2>6 DEF TypeOK
  <2> QED BY <1>8, <2>7 DEF Scan, TypeOK, spool, ghosts
<1>9. ASSUME NEW t \in Tasks, NEW f \in Files, Probe(t, f) PROVE TypeOK'
  <2>1. seen' \in [Files -> [ver : {None} \cup Version, age : 0..Quiet]]
    <3>1. disk[f] # None => Observed(f, disk[f]) \in [ver : {None} \cup Version, age : 0..Quiet]
      BY DEF Observed, TypeOK
    <3> QED BY <1>9, <3>1 DEF Probe, TypeOK
  <2>2. f \in Paths /\ Denied \in Kinds BY DEF Paths, Kinds
  <2>3. PICK r \in SUBSET Files, i \in SUBSET (Paths \X Kinds) :
          tick' = [tick EXCEPT ![t].todo = @ \ {f}, ![t].ready = r, ![t].issues = i]
    <3>1. tick[t].ready \in SUBSET Files /\ tick[t].issues \in SUBSET (Paths \X Kinds)
      BY DEF TypeOK, TickTypes
    <3>2. /\ tick[t].ready \cup {f} \in SUBSET Files
          /\ tick[t].issues \cup {<<f, Denied>>} \in SUBSET (Paths \X Kinds)
      BY <2>2, <3>1
    <3> QED BY <1>9, <3>1, <3>2 DEF Probe
  <2>4. tick' \in [Tasks -> TickTypes]
    <3>1. tick[t] \in TickTypes BY DEF TypeOK
    <3>2. [tick[t] EXCEPT !.todo = @ \ {f}, !.ready = r, !.issues = i] \in TickTypes
      BY <3>1 DEF TickTypes
    <3> QED BY <2>3, <3>2 DEF TypeOK
  <2> QED BY <1>9, <2>1, <2>4 DEF Probe, TypeOK, spool, ghosts
<1>10. ASSUME NEW t \in Tasks, Report(t) PROVE TypeOK'
  <2>1. seen' \in [Files -> [ver : {None} \cup Version, age : 0..Quiet]]
    BY <1>10 DEF Report, Retained, NoEntry, TypeOK
  <2>2. log' \in [Paths -> [Kinds -> {None} \cup 0..Relog]]
    BY <1>10 DEF Report, Logged, TypeOK
  <2>3. told' \in [Paths -> [Kinds -> {None} \cup 0..Relog]]
    BY <1>10 DEF Report, TypeOK
  <2>4. tick' \in [Tasks -> TickTypes] BY <1>10, TickMoves DEF Report
  <2> QED BY <1>10, <2>1, <2>2, <2>3, <2>4 DEF Report, TypeOK, spool
<1>11. ASSUME NEW t \in Tasks, Enqueue(t) PROVE TypeOK'
  <2>1. row' \in [Files -> {None} \cup Nat]
    <3>1. tick[t].cand \in [Files -> {None} \cup Nat] BY DEF TypeOK, TickTypes
    <3> QED BY <1>11, <3>1 DEF Enqueue, TypeOK
  <2>2. tick' \in [Tasks -> TickTypes] BY <1>11, IdleType DEF Enqueue, TypeOK
  <2>3. upsets' \in Nat BY <1>11 DEF Enqueue, TypeOK
  <2>4. late' \in [Files -> 0..Longest] /\ heard' \subseteq Files
    BY <1>11 DEF Enqueue, TypeOK
  <2> QED BY <1>11, <2>1, <2>2, <2>3, <2>4 DEF Enqueue, TypeOK, spool
<1>12. ASSUME NEW t \in Tasks, EndTick(t) PROVE TypeOK'
  <2>1. timer' \in [rescan : 0..Rescan, recheck : {None} \cup 0..Rescan]
    <3>1. Recheck \in {None} \cup 0..Rescan BY Rearmed
    <3>2. timer' \in {timer, [timer EXCEPT !.recheck = Recheck]} BY <1>12 DEF EndTick
    <3>3. timer \in [rescan : 0..Rescan, recheck : {None} \cup 0..Rescan] BY DEF TypeOK
    <3> HIDE DEF Recheck
    <3> QED BY <3>1, <3>2, <3>3
  <2>2. tick' \in [Tasks -> TickTypes] BY <1>12, IdleType DEF EndTick, TypeOK
  <2> QED BY <1>12, <2>1, <2>2 DEF EndTick, TypeOK, spool, ghosts
<1>13. CASE Elapse
  <2>1. tick' \in [Tasks -> TickTypes]
    <3>1. CASE tick' = tick BY <3>1 DEF TypeOK
    <3>2. ASSUME NEW t \in Tasks, tick[t].slow < setting.slow,
                 tick' = [tick EXCEPT ![t].slow = @ + 1]
          PROVE  tick' \in [Tasks -> TickTypes]
      <4>1. tick[t].slow + 1 \in 0..MaxSlow BY <3>2 DEF TypeOK, TickTypes
      <4>2. tick[t] \in TickTypes BY DEF TypeOK
      <4>3. [tick[t] EXCEPT !.slow = @ + 1] \in TickTypes BY <4>1, <4>2 DEF TickTypes
      <4> QED BY <3>2, <4>3 DEF TypeOK
    <3> QED BY <1>13, <3>1, <3>2 DEF Elapse
  <2>2. seen' \in [Files -> [ver : {None} \cup Version, age : 0..Quiet]]
    <3>1. ASSUME NEW f \in Files
          PROVE  (IF seen[f].ver = None THEN NoEntry
                  ELSE [seen[f] EXCEPT !.age = Older(@, Quiet)])
                    \in [ver : {None} \cup Version, age : 0..Quiet]
      <4>1. seen[f] \in [ver : {None} \cup Version, age : 0..Quiet] BY DEF TypeOK
      <4>2. Older(seen[f].age, Quiet) \in 0..Quiet
        BY <4>1, Aging, NoneIsApart
      <4> QED BY <4>1, <4>2 DEF NoEntry
    <3> QED BY <1>13, <3>1 DEF Elapse
  <2>3. timer' \in [rescan : 0..Rescan, recheck : {None} \cup 0..Rescan]
    <3>1. /\ Sooner(timer.rescan) \in 0..Rescan
          /\ Sooner(timer.recheck) \in {None} \cup 0..Rescan
      BY Running, NoneIsApart DEF TypeOK
    <3> QED BY <1>13, <3>1 DEF Elapse
  <2>4. /\ log' \in [Paths -> [Kinds -> {None} \cup 0..Relog]]
        /\ told' \in [Paths -> [Kinds -> {None} \cup 0..Relog]]
    <3>1. \A p \in Paths, k \in Kinds : Older(log[p][k], Relog) \in {None} \cup 0..Relog
      BY Aging DEF TypeOK
    <3>2. \A p \in Paths, k \in Kinds : Older(told[p][k], Relog) \in {None} \cup 0..Relog
      BY Aging DEF TypeOK
    <3> QED BY <1>13, <3>1, <3>2 DEF Elapse
  <2>5. /\ age' \in [Files -> 0..Quiet] /\ late' \in [Files -> 0..Longest]
        /\ heard' \subseteq Files
    <3>1. \A f \in Files : Older(age[f], Quiet) \in 0..Quiet
      BY Aging, NoneIsApart DEF TypeOK
    <3>2. \A f \in Files : Older(late[f], Longest) \in 0..Longest
      BY Aging, NoneIsApart DEF TypeOK
    <3> QED BY <1>13, <3>1, <3>2 DEF Elapse, TypeOK
  <2> QED BY <1>13, <2>1, <2>2, <2>3, <2>4, <2>5 DEF Elapse, TypeOK
<1>14. CASE UNCHANGED vars BY <1>14 DEF vars, TypeOK
<1> QED BY <1>1, <1>2, <1>3, <1>4, <1>5, <1>6, <1>7, <1>8, <1>9, <1>10, <1>11,
           <1>12, <1>13, <1>14 DEF Next, World, Ticking

\* Every variable keeps its type, and the nudge channel its capacity.
THEOREM TypeCorrect == Spec => []TypeOK
<1>1. Init => TypeOK BY TypeInit
<1>2. TypeOK /\ [Next]_vars => TypeOK' BY TypeStep
<1> QED BY <1>1, <1>2, PTL DEF Spec

-----------------------------------------------------------------------------
(* What a tick accepts. *)

AcceptInv == Written /\ LockHeld /\ Tracked /\ Listing

LEMMA AcceptInit == Init => AcceptInv
<1> SUFFICES ASSUME Init PROVE AcceptInv OBVIOUS
<1>1. \A f \in Files : seen[f].ver = None /\ seen[f].age = 0
  BY DEF Init, NoEntry
<1>2. Written BY <1>1 DEF Init, Written, None
<1>3. \A t \in Tasks : tick[t].pc \in {"idle", "wait"} BY DEF Init, Idle
<1>4. LockHeld /\ Listing BY <1>3 DEF LockHeld, Inside, Listing
<1>5. Tracked BY <1>1 DEF Tracked
<1> QED BY <1>2, <1>4, <1>5 DEF AcceptInv

\* Steps that leave the directory and the tracker alone, and at most let a
\* tick begin to wait, end, or pass from one step to the next.
LEMMA AcceptKept ==
    ASSUME TypeOK, AcceptInv, UNCHANGED <<disk, made, seen, age>>, LockHeld',
           \A t \in Tasks : tick'[t].pc = "probe" => tick'[t] = tick[t]
    PROVE  AcceptInv'
<1>1. Written' BY DEF AcceptInv, Written
<1>2. Tracked' BY DEF AcceptInv, Tracked
<1>3. Listing' BY DEF AcceptInv, Listing
<1> QED BY <1>1, <1>2, <1>3 DEF AcceptInv

\* Time only makes a tick slower.
LEMMA ElapseTick ==
    ASSUME TypeOK, Elapse, NEW t \in Tasks
    PROVE  tick'[t].pc = tick[t].pc /\ tick'[t].ready = tick[t].ready
<1>1. tick[t] \in TickTypes BY DEF TypeOK
<1>2. CASE tick' = tick BY <1>2
<1>3. ASSUME NEW u \in Tasks, tick' = [tick EXCEPT ![u].slow = @ + 1]
      PROVE  tick'[t].pc = tick[t].pc /\ tick'[t].ready = tick[t].ready
  <2>1. tick'[t] \in {tick[t], [tick[t] EXCEPT !.slow = @ + 1]}
    BY <1>3 DEF TypeOK
  <2> QED BY <1>1, <2>1 DEF TickTypes
<1> QED BY <1>2, <1>3 DEF Elapse

\* A probe touches its own tick, and adds at most its file to the ready ones.
LEMMA ProbeTick ==
    ASSUME TypeOK, NEW t \in Tasks, NEW f \in Files, Probe(t, f)
    PROVE  /\ \A u \in Tasks \ {t} : tick'[u] = tick[u]
           /\ tick'[t].pc = tick[t].pc
           /\ tick'[t].ready \subseteq tick[t].ready \cup {f}
           /\ setting.strategy = "stability" /\ f \in tick'[t].ready \ tick[t].ready
                => disk[f] # None /\ Settled(f, disk[f])
<1>1. tick[t] \in TickTypes BY DEF TypeOK
<1>2. PICK r, i :
        /\ tick' = [tick EXCEPT ![t].todo = @ \ {f}, ![t].ready = r, ![t].issues = i]
        /\ r \in {tick[t].ready, tick[t].ready \cup {f}}
        /\ setting.strategy = "stability" /\ r # tick[t].ready
             => disk[f] # None /\ Settled(f, disk[f])
  BY DEF Probe
<1>3. tick'[t] = [tick[t] EXCEPT !.todo = @ \ {f}, !.ready = r, !.issues = i]
  BY <1>2 DEF TypeOK
<1>4. tick'[t].pc = tick[t].pc /\ tick'[t].ready = r
  BY <1>1, <1>3 DEF TickTypes
<1>5. \A u \in Tasks \ {t} : tick'[u] = tick[u] BY <1>2 DEF TypeOK
<1> QED BY <1>2, <1>4, <1>5

LEMMA AcceptStep == TypeOK /\ AcceptInv /\ [Next]_vars => AcceptInv'
<1> SUFFICES ASSUME TypeOK, AcceptInv, [Next]_vars PROVE AcceptInv' OBVIOUS
<1> USE Constants
<1>1. ASSUME NEW f \in Files, Write(f) PROVE AcceptInv'
  <2>1. /\ made' = [made EXCEPT ![f] = made[f] + 1]
        /\ disk' = [disk EXCEPT ![f] = made[f] + 1]
        /\ age' = [age EXCEPT ![f] = 0] /\ seen' = seen /\ tick' = tick
        /\ made[f] \in Nat
    BY <1>1 DEF Write, TypeOK
  <2>2. \A g \in Files : seen[g].ver \in Int /\ made[g] \in Nat
    BY DEF TypeOK, Version, None
  <2>3. Written' BY <2>1, <2>2 DEF AcceptInv, Written, TypeOK
  <2>4. Tracked'
    <3> SUFFICES ASSUME NEW g \in Files, disk'[g] # None, seen[g].ver = disk'[g]
                 PROVE  seen[g].age <= age'[g]
      BY <2>1 DEF Tracked
    <3>1. g # f BY <2>1, <2>2 DEF AcceptInv, Written, TypeOK
    <3> QED BY <2>1, <3>1 DEF AcceptInv, Tracked, TypeOK
  <2>5. Listing' BY <2>1 DEF AcceptInv, Listing, TypeOK
  <2>6. LockHeld' BY <2>1 DEF AcceptInv, LockHeld, Inside
  <2> QED BY <2>3, <2>4, <2>5, <2>6 DEF AcceptInv
<1>2. ASSUME NEW f \in Files, Mark(f) PROVE AcceptInv'
  BY <1>2, AcceptKept DEF Mark, AcceptInv, LockHeld, Inside
<1>3. ASSUME NEW f \in Files, Remove(f) PROVE AcceptInv'
  <2>1. /\ disk' = [disk EXCEPT ![f] = None] /\ made' = made
        /\ age' = age /\ seen' = seen /\ tick' = tick
    BY <1>3 DEF Remove
  <2>2. Written' BY <2>1 DEF AcceptInv, Written, TypeOK
  <2>3. Tracked' BY <2>1 DEF AcceptInv, Tracked, TypeOK
  <2>4. Listing' BY <2>1 DEF AcceptInv, Listing, TypeOK
  <2>5. LockHeld' BY <2>1 DEF AcceptInv, LockHeld, Inside
  <2> QED BY <2>2, <2>3, <2>4, <2>5 DEF AcceptInv
<1>4. ASSUME NEW p \in Paths, Deny(p) PROVE AcceptInv'
  BY <1>4, AcceptKept DEF Deny, AcceptInv, LockHeld, Inside, spool
<1>5. ASSUME NEW p \in Paths, Restore(p) PROVE AcceptInv'
  BY <1>5, AcceptKept DEF Restore, AcceptInv, LockHeld, Inside, spool
<1>6. CASE Wake
  <2>1. \A t \in Tasks : tick'[t] = IF t = "loop" THEN [tick[t] EXCEPT !.pc = "wait"]
                                                  ELSE tick[t]
    BY <1>6 DEF Wake, TypeOK
  <2>2. \A t \in Tasks : t = "loop" => tick'[t].pc = "wait"
    <3>1. \A t \in Tasks : tick[t] \in TickTypes BY DEF TypeOK
    <3> QED BY <2>1, <3>1 DEF TickTypes
  <2>3. LockHeld' BY <2>1, <2>2 DEF AcceptInv, LockHeld, Inside
  <2> QED BY <1>6, <2>1, <2>2, <2>3, AcceptKept DEF Wake, spool
<1>7. CASE Trigger
  <2>1. \A t \in Tasks : tick'[t] = IF t = "trigger" THEN [tick[t] EXCEPT !.pc = "wait"]
                                                     ELSE tick[t]
    BY <1>7 DEF Trigger, TypeOK
  <2>2. \A t \in Tasks : t = "trigger" => tick'[t].pc = "wait"
    <3>1. \A t \in Tasks : tick[t] \in TickTypes BY DEF TypeOK
    <3> QED BY <2>1, <3>1 DEF TickTypes
  <2>3. LockHeld' BY <2>1, <2>2 DEF AcceptInv, LockHeld, Inside
  <2> QED BY <1>7, <2>1, <2>2, <2>3, AcceptKept DEF Trigger, spool
<1>8. ASSUME NEW t \in Tasks, Scan(t) PROVE AcceptInv'
  <2>1. /\ UNCHANGED <<disk, made, seen, age>>
        /\ \A u \in Tasks \ {t} : tick'[u] = tick[u] /\ ~Inside(u)
    BY <1>8 DEF Scan, spool, Unlocked, Inside, TypeOK
  <2>2. /\ tick'[t].todo = Listed
        /\ tick'[t].cand = [f \in Files |-> IF f \notin Listed THEN None
                                            ELSE IF access[f] = "ok" THEN disk[f] ELSE 0]
    BY <1>8 DEF Scan, Idle, TypeOK
  <2>3. LockHeld' BY <2>1 DEF LockHeld, Inside
  <2>4. Listing'
    <3> SUFFICES ASSUME NEW u \in Tasks, NEW f \in Files, tick'[u].pc = "probe",
                        f \in tick'[u].todo
                 PROVE  tick'[u].cand[f] \in {0, disk'[f]}
      BY DEF Listing
    <3>1. u = t BY <2>1 DEF Inside
    <3> QED BY <2>1, <2>2, <3>1
  <2>5. Written' /\ Tracked' BY <2>1 DEF AcceptInv, Written, Tracked
  <2> QED BY <2>3, <2>4, <2>5 DEF AcceptInv
<1>9. ASSUME NEW t \in Tasks, NEW f \in Files, Probe(t, f) PROVE AcceptInv'
  <2>1. /\ UNCHANGED <<disk, made, age>>
        /\ \/ seen' = seen
           \/ disk[f] # None /\ seen' = [seen EXCEPT ![f] = Observed(f, disk[f])]
    BY <1>9 DEF Probe, spool
  <2>2. \A u \in Tasks : /\ tick'[u].pc = tick[u].pc /\ tick'[u].cand = tick[u].cand
                         /\ tick'[u].todo \subseteq tick[u].todo
    BY <1>9 DEF Probe, TypeOK, TickTypes
  <2>3. LockHeld' BY <2>2 DEF AcceptInv, LockHeld, Inside
  <2>4. Listing' BY <2>1, <2>2 DEF AcceptInv, Listing
  <2>5. Written' /\ Tracked'
    <3>1. CASE seen' = seen BY <2>1, <3>1 DEF AcceptInv, Written, Tracked
    <3>2. CASE disk[f] # None /\ seen' = [seen EXCEPT ![f] = Observed(f, disk[f])]
      <4>1. /\ Observed(f, disk[f]).ver = disk[f]
            /\ seen[f].ver # disk[f] => Observed(f, disk[f]).age = 0
            /\ seen[f].ver = disk[f] => Observed(f, disk[f]) = seen[f]
        BY DEF Observed
      <4>2. \A g \in Files : seen'[g] = IF g = f THEN Observed(f, disk[f]) ELSE seen[g]
        BY <3>2 DEF TypeOK
      <4>3. disk[f] <= made[f] /\ age[f] \in Nat
        BY <3>2 DEF AcceptInv, Written, TypeOK
      <4>4. Written' BY <2>1, <4>1, <4>2, <4>3 DEF AcceptInv, Written
      <4>5. Tracked' BY <2>1, <4>1, <4>2, <4>3 DEF AcceptInv, Tracked
      <4> QED BY <4>4, <4>5
    <3> QED BY <2>1, <3>1, <3>2
  <2> QED BY <2>3, <2>4, <2>5 DEF AcceptInv
<1>10. ASSUME NEW t \in Tasks, Report(t) PROVE AcceptInv'
  <2>1. /\ UNCHANGED <<disk, made, age>>
        /\ \A f \in Files : seen'[f] = seen[f] \/ seen'[f] = NoEntry
    BY <1>10 DEF Report, spool, Retained
  <2>2. /\ tick[t].pc = "probe" /\ tick'[t].pc = "enqueue"
        /\ \A u \in Tasks \ {t} : tick'[u] = tick[u]
    BY <1>10 DEF Report, TypeOK, TickTypes
  <2>3. LockHeld' BY <2>2 DEF AcceptInv, LockHeld, Inside
  <2>4. Listing' BY <2>1, <2>2 DEF AcceptInv, Listing
  <2>5. \A f \in Files : made[f] \in Nat BY DEF TypeOK
  <2>6. Written' BY <2>1, <2>5 DEF AcceptInv, Written, NoEntry, None
  <2>7. Tracked' BY <2>1 DEF AcceptInv, Tracked, NoEntry
  <2> QED BY <2>3, <2>4, <2>6, <2>7 DEF AcceptInv
<1>11. ASSUME NEW t \in Tasks, Enqueue(t) PROVE AcceptInv'
  <2>1. /\ tick[t].pc = "enqueue" /\ tick'[t].pc = "work"
        /\ \A u \in Tasks \ {t} : tick'[u] = tick[u]
    BY <1>11 DEF Enqueue, Idle, TypeOK
  <2>2. LockHeld' BY <2>1 DEF AcceptInv, LockHeld, Inside
  <2> QED BY <1>11, <2>1, <2>2, AcceptKept DEF Enqueue, spool
<1>12. ASSUME NEW t \in Tasks, EndTick(t) PROVE AcceptInv'
  <2>1. /\ tick'[t].pc = "idle"
        /\ \A u \in Tasks \ {t} : tick'[u] = tick[u]
    BY <1>12 DEF EndTick, Idle, TypeOK
  <2>2. LockHeld' BY <2>1 DEF AcceptInv, LockHeld, Inside
  <2> QED BY <1>12, <2>1, <2>2, AcceptKept DEF EndTick, spool
<1>13. CASE Elapse
  <2>1. \A u \in Tasks : tick'[u].pc = tick[u].pc
    BY <1>13, ElapseTick
  <2>2. \A u \in Tasks : tick[u].pc # "probe"
    BY <1>13 DEF Elapse, Resting, AcceptInv, LockHeld, Inside
  <2>3. LockHeld' /\ Listing'
    BY <2>1, <2>2 DEF AcceptInv, LockHeld, Listing, Inside
  <2>4. /\ UNCHANGED <<disk, made>>
        /\ \A f \in Files :
             /\ seen'[f].ver = seen[f].ver
             /\ seen[f].ver # None => seen'[f].age = Older(seen[f].age, Quiet)
             /\ age'[f] = Older(age[f], Quiet)
    <3>1. UNCHANGED <<disk, made>> BY <1>13 DEF Elapse
    <3>2. ASSUME NEW f \in Files
          PROVE  /\ seen'[f].ver = seen[f].ver
                 /\ seen[f].ver # None => seen'[f].age = Older(seen[f].age, Quiet)
                 /\ age'[f] = Older(age[f], Quiet)
      <4>1. seen[f] \in [ver : {None} \cup Version, age : 0..Quiet] BY DEF TypeOK
      <4>2. /\ seen'[f] = IF seen[f].ver = None THEN NoEntry
                          ELSE [seen[f] EXCEPT !.age = Older(seen[f].age, Quiet)]
            /\ age'[f] = Older(age[f], Quiet)
        BY <1>13 DEF Elapse
      <4> QED BY <4>1, <4>2 DEF NoEntry
    <3> QED BY <3>1, <3>2
  <2>5. Written' BY <2>4 DEF AcceptInv, Written
  <2>6. Tracked'
    <3> SUFFICES ASSUME NEW f \in Files, disk[f] # None, seen[f].ver = disk[f]
                 PROVE  seen'[f].age <= age'[f]
      BY <2>4 DEF Tracked
    <3>1. seen[f].age <= age[f] BY DEF AcceptInv, Tracked
    <3>2. seen[f].age \in 0..Quiet /\ age[f] \in 0..Quiet BY DEF TypeOK
    <3>3. /\ seen'[f].age = IF seen[f].age < Quiet THEN seen[f].age + 1 ELSE Quiet
          /\ age'[f] = IF age[f] < Quiet THEN age[f] + 1 ELSE Quiet
      BY <2>4, <3>2, Aging, NoneIsApart
    <3> QED BY <3>1, <3>2, <3>3
  <2> QED BY <2>3, <2>5, <2>6 DEF AcceptInv
<1>14. CASE UNCHANGED vars
  BY <1>14 DEF vars, AcceptInv, Written, LockHeld, Inside, Tracked, Listing
<1> QED BY <1>1, <1>2, <1>3, <1>4, <1>5, <1>6, <1>7, <1>8, <1>9, <1>10, <1>11,
           <1>12, <1>13, <1>14 DEF Next, World, Ticking

\* With a quiet time, the stability strategy accepts a file only if nobody has
\* written it for that long, and queues the version that has settled.
THEOREM OnlySettledHolds == ASSUME Quiet > 0 PROVE Spec => OnlySettled
<1>1. ASSUME TypeOK, AcceptInv, [Next]_vars, NEW t \in Tasks, NEW f \in Files,
             setting.strategy = "stability", f \in tick'[t].ready, f \notin tick[t].ready
      PROVE  age[f] >= Quiet /\ tick[t].cand[f] \in {0, disk[f]}
  <2>1. Probe(t, f)
    <3>1. ASSUME NEW u \in Tasks, NEW g \in Files, Probe(u, g)
          PROVE  u = t /\ g = f
      <4>1. /\ \A w \in Tasks \ {u} : tick'[w] = tick[w]
            /\ tick'[u].ready \subseteq tick[u].ready \cup {g}
        BY <1>1, <3>1, ProbeTick
      <4> QED BY <1>1, <4>1
    <3>2. ASSUME \A u \in Tasks : tick'[u].ready \in {tick[u].ready, {}}
          PROVE  FALSE
      BY <1>1, <3>2
    <3>3. tick \in [Tasks -> TickTypes] BY <1>1 DEF TypeOK
    <3>4. CASE tick' = tick BY <3>2, <3>4
    <3>5. CASE Wake BY <3>2, <3>3, <3>5 DEF Wake, TickTypes
    <3>6. CASE Trigger BY <3>2, <3>3, <3>6 DEF Trigger, TickTypes
    <3>7. ASSUME NEW u \in Tasks, Scan(u) PROVE FALSE
      <4>1. \A w \in Tasks : w # u => tick'[w] = tick[w]
        BY <3>3, <3>7 DEF Scan
      <4>2. tick'[u].ready = {} BY <3>3, <3>7 DEF Scan, Idle
      <4> QED BY <3>2, <4>1, <4>2
    <3>8. ASSUME NEW u \in Tasks, Report(u) PROVE FALSE
      BY <3>2, <3>3, <3>8 DEF Report, TickTypes
    <3>9. ASSUME NEW u \in Tasks, Enqueue(u) PROVE FALSE
      BY <3>2, <3>3, <3>9 DEF Enqueue, Idle
    <3>10. ASSUME NEW u \in Tasks, EndTick(u) PROVE FALSE
      BY <3>2, <3>3, <3>10 DEF EndTick, Idle
    <3>11. CASE Elapse
      BY <1>1, <3>2, <3>11, ElapseTick
    <3>12. CASE World
      BY <3>4, <3>12 DEF World, Write, Mark, Remove, Deny, Restore
    <3>13. CASE UNCHANGED vars BY <3>4, <3>13 DEF vars
    <3> QED BY <1>1, <3>1, <3>5, <3>6, <3>7, <3>8, <3>9, <3>10, <3>11, <3>12,
               <3>13 DEF Next, Ticking
  <2>2. disk[f] # None /\ Settled(f, disk[f])
    BY <1>1, <2>1, ProbeTick
  <2>3. seen[f].ver = disk[f] /\ seen[f].age >= Quiet
    BY <2>2 DEF Settled
  <2>4. age[f] >= Quiet
    BY <1>1, <2>2, <2>3, Constants DEF AcceptInv, Tracked, TypeOK
  <2>5. tick[t].cand[f] \in {0, disk[f]}
    BY <1>1, <2>1, <2>2, <2>4, Constants DEF AcceptInv, Listing, Probe
  <2> QED BY <2>4, <2>5
<1>2. TypeOK /\ AcceptInv /\ [Next]_vars
      => [\A t \in Tasks, f \in Files :
             setting.strategy = "stability" /\ f \in tick'[t].ready \ tick[t].ready
             => age[f] >= Quiet /\ tick[t].cand[f] \in {0, disk[f]}]_vars
  BY <1>1
<1>3. Init => TypeOK /\ AcceptInv BY TypeInit, AcceptInit
<1>4. TypeOK /\ AcceptInv /\ [Next]_vars => (TypeOK /\ AcceptInv)'
  BY TypeStep, AcceptStep
<1> QED BY <1>2, <1>3, <1>4, PTL DEF Spec, OnlySettled

-----------------------------------------------------------------------------
(* What a tick announces. *)

LEMMA LedgerInit == Init => Ledger
<1> SUFFICES ASSUME Init, NEW p \in Paths PROVE told[p][Denied] = log[p][Denied]
  BY DEF Ledger
<1>1. Denied \in Kinds BY DEF Kinds
<1>2. PICK kind \in {"ok"} \cup Kinds :
        log = Seeded(kind) /\ told = Announced(kind)
  BY DEF Init
<1> QED BY <1>1, <1>2 DEF Seeded, Announced

LEMMA LedgerStep == Ledger /\ TypeOK /\ [Next]_vars => Ledger'
<1> SUFFICES ASSUME Ledger, TypeOK, [Next]_vars PROVE Ledger' OBVIOUS
<1>0. Denied \in Kinds BY DEF Kinds
<1>1. ASSUME NEW t \in Tasks, Report(t) PROVE Ledger'
  <2> SUFFICES ASSUME NEW p \in Paths PROVE told'[p][Denied] = log'[p][Denied]
    BY DEF Ledger
  <2> DEFINE issues == tick[t].issues
             failing == {i[1] : i \in issues}
  <2>1. p \in failing <=> \E k \in Kinds : <<p, k>> \in issues
    <3>1. issues \in SUBSET (Paths \X Kinds) BY DEF TypeOK, TickTypes
    <3> HIDE DEF issues
    <3>2. \A i \in issues : \E k \in Kinds : i = <<i[1], k>> BY <3>1
    <3>3. \A k \in Kinds : <<p, k>>[1] = p OBVIOUS
    <3> QED BY <3>2, <3>3
  <2>2. log'[p][Denied] = IF p \notin failing THEN None
                          ELSE IF <<p, Denied>> \in issues /\ ShouldLog(p, Denied) THEN 0
                          ELSE log[p][Denied]
    BY <1>0, <1>1 DEF Report, Logged
  <2>3. told'[p][Denied] =
          IF <<p, Denied>> \in issues /\ ShouldLog(p, Denied) THEN 0
          ELSE IF \E k \in Kinds : <<p, k>> \in issues THEN told[p][Denied] ELSE None
    BY <1>0, <1>1 DEF Report, Emitted
  <2>4. told[p][Denied] = log[p][Denied] BY DEF Ledger
  <2> HIDE DEF issues, failing
  <2> QED BY <1>0, <2>1, <2>2, <2>3, <2>4
<1>2. CASE Elapse
  BY <1>0, <1>2 DEF Elapse, Ledger
<1>3. CASE UNCHANGED <<log, told>> BY <1>3 DEF Ledger
<1> QED BY <1>1, <1>2, <1>3 DEF Next, World, Ticking, Write, Mark, Remove, Deny,
           Restore, Wake, Trigger, Scan, Probe, Enqueue, EndTick, ghosts, vars

\* Every outage is announced, and only once per re-log interval.
THEOREM AnnouncedOnceHolds == Spec => AnnouncedOnce
<1>0. Denied \in Kinds /\ Relog \in Nat \ {0} BY Constants DEF Kinds
<1>1. ASSUME TypeOK, Ledger, [Next]_vars, NEW t \in Tasks,
             tick[t].pc = "probe", tick'[t].pc = "enqueue"
      PROVE  /\ \A p \in Emitted(tick[t].issues) : told[p][Denied] \notin 0..(Relog - 1)
             /\ \A p \in Paths : <<p, Denied>> \in tick[t].issues
                    => told'[p][Denied] \in 0..(Relog - 1)
  <2>1. Report(t)
    <3>1. \A u \in Tasks : tick[u] \in TickTypes BY <1>1 DEF TypeOK
    <3>2. ASSUME tick'[t].pc = tick[t].pc \/ tick'[t].pc # "enqueue" PROVE FALSE
      BY <1>1, <3>2
    <3>3. CASE Wake BY <1>1, <3>1, <3>2, <3>3 DEF Wake, TypeOK, TickTypes
    <3>4. CASE Trigger BY <1>1, <3>1, <3>2, <3>4 DEF Trigger, TypeOK, TickTypes
    <3>5. ASSUME NEW u \in Tasks, Scan(u) PROVE FALSE
      BY <1>1, <3>2, <3>5 DEF Scan, Idle, TypeOK
    <3>6. ASSUME NEW u \in Tasks, NEW f \in Files, Probe(u, f) PROVE FALSE
      BY <1>1, <3>2, <3>6, ProbeTick
    <3>7. ASSUME NEW u \in Tasks, Report(u) PROVE u = t
      BY <1>1, <3>1, <3>2, <3>7 DEF Report, TypeOK, TickTypes
    <3>8. ASSUME NEW u \in Tasks, Enqueue(u) PROVE FALSE
      BY <1>1, <3>2, <3>8 DEF Enqueue, Idle, TypeOK
    <3>9. ASSUME NEW u \in Tasks, EndTick(u) PROVE FALSE
      BY <1>1, <3>2, <3>9 DEF EndTick, Idle, TypeOK
    <3>10. CASE Elapse BY <1>1, <3>2, <3>10, ElapseTick
    <3>11. CASE World
      BY <3>2, <3>11 DEF World, Write, Mark, Remove, Deny, Restore
    <3>12. CASE UNCHANGED vars BY <3>2, <3>12 DEF vars
    <3> QED BY <1>1, <3>3, <3>4, <3>5, <3>6, <3>7, <3>8, <3>9, <3>10, <3>11,
               <3>12 DEF Next, Ticking
  <2>2. \A p \in Paths : /\ told[p][Denied] = log[p][Denied]
                         /\ told[p][Denied] \in {None} \cup 0..Relog
    BY <1>0, <1>1 DEF Ledger, TypeOK
  <2>3. \A p \in Emitted(tick[t].issues) : told[p][Denied] \notin 0..(Relog - 1)
    BY <1>0, <2>2 DEF Emitted, ShouldLog, None
  <2>4. ASSUME NEW p \in Paths, <<p, Denied>> \in tick[t].issues
        PROVE  told'[p][Denied] \in 0..(Relog - 1)
    <3>1. CASE ShouldLog(p, Denied)
      BY <1>0, <2>1, <2>4, <3>1 DEF Report, Emitted
    <3>2. CASE ~ShouldLog(p, Denied)
      <4>1. told'[p][Denied] = told[p][Denied] BY <1>0, <2>1, <2>4, <3>2 DEF Report, Emitted
      <4> QED BY <1>0, <2>2, <3>2, <4>1 DEF ShouldLog
    <3> QED BY <3>1, <3>2
  <2> QED BY <2>3, <2>4
<1>2. TypeOK /\ Ledger /\ [Next]_vars
      => [\A t \in Tasks : tick[t].pc = "probe" /\ tick'[t].pc = "enqueue"
            => /\ \A p \in Emitted(tick[t].issues) : told[p][Denied] \notin 0..(Relog - 1)
               /\ \A p \in Paths : <<p, Denied>> \in tick[t].issues
                      => told'[p][Denied] \in 0..(Relog - 1)]_vars
  BY <1>1
<1>3. Init => TypeOK /\ Ledger BY TypeInit, LedgerInit
<1>4. TypeOK /\ Ledger /\ [Next]_vars => (TypeOK /\ Ledger)'
  BY TypeStep, LedgerStep
<1> QED BY <1>2, <1>3, <1>4, PTL DEF Spec, AnnouncedOnce

-----------------------------------------------------------------------------
(* How long a file waits. *)

\* A short tick's re-check keeps track of the quiet time.
Prompt == setting.strategy = "stability" /\ setting.slow = 0 /\ Quiet > 0

\* How long a task may still keep the lock.
Left(t) ==
    IF tick[t].pc \in {"probe", "enqueue"} THEN setting.slow
    ELSE IF tick[t].pc = "work" THEN setting.slow - tick[t].slow ELSE 0

\* A scan begins before f has waited for longer than x.
Due(f, x) ==
    /\ late[f] <= x /\ \A t \in Tasks : late[f] + Left(t) <= x
    /\ \/ tick["loop"].pc = "wait" \/ nudges > 0
       \/ late[f] + timer.rescan <= x

\* The latest event of f has just happened, and a nudge it gave is not lost.
Alerted(f) ==
    late[f] = 0 /\ (f \in heard => nudges > 0 \/ tick["loop"].pc = "wait")

\* What a tick's scan saw differently has changed since.
Missed ==
    \A t \in Tasks, f \in Files :
        /\ tick[t].pc \in {"probe", "enqueue"} /\ tick[t].cand[f] # disk[f]
        /\ disk[f] # None /\ access[Root] = "ok" /\ access[f] = "ok"
        => Alerted(f)

\* The tracker times the version on disk, and the loop will look again when
\* the quiet time is over.
Timed(f) == setting.strategy = "stability" /\ seen[f].ver = disk[f]
Armed(f) ==
    \/ tick["loop"].pc = "wait"
    \/ tick["loop"].pc = "idle" /\ timer.recheck \in 0..(Quiet - seen[f].age)
    \/ Inside("loop") /\ seen[f].age < Quiet

\* The stages of a file's wait: its quiet time runs, or is over ...
Watched(f) ==
    /\ Timed(f) /\ late[f] <= Found(f) + seen[f].age
    /\ IF Prompt THEN Armed(f) ELSE seen[f].age < Quiet
Ripe(f) == Timed(f) /\ ~Prompt /\ seen[f].age = Quiet /\ Due(f, Deadline(f))

\* ... a tick has listed it and will probe it, or has accepted it.
InHand(t, f) ==
    /\ tick[t].pc = "probe" /\ f \in tick[t].todo /\ tick[t].cand[f] = disk[f]
    /\ Prompt => t = "loop"
    /\ late[f] <= Deadline(f)
    /\ \/ late[f] <= Found(f)
       \/ Timed(f) /\ (late[f] <= Found(f) + seen[f].age \/ seen[f].age = Quiet)
Accepted(t, f) ==
    /\ tick[t].pc \in {"probe", "enqueue"} /\ f \in tick[t].ready
    /\ tick[t].cand[f] = disk[f] /\ late[f] <= Deadline(f)

Awaited(f) == \/ Due(f, Found(f)) \/ Watched(f) \/ Ripe(f)
              \/ \E t \in Tasks : InHand(t, f) \/ Accepted(t, f)

Timely == \A f \in Files : Wanted(f) => Awaited(f)

\* The deadlines against the terms they are made of.
Reach(f) ==
    /\ Found(f) \in Nat /\ Deadline(f) \in Nat /\ Found(f) <= Deadline(f)
    /\ setting.slow <= Found(f) /\ (f \notin heard => Rescan <= Found(f))
    /\ setting.strategy = "stability" => Found(f) + Quiet <= Deadline(f)
    /\ setting.strategy = "stability" /\ ~Prompt
         => /\ Found(f) + Quiet + setting.slow <= Deadline(f)
            /\ Found(f) + Quiet + Rescan <= Deadline(f)

Reaches == \A f \in Files : Reach(f)

LEMMA ReachesAll == TypeOK => Reaches
<1> SUFFICES ASSUME TypeOK, NEW f \in Files PROVE Reach(f) BY DEF Reaches
<1>1. setting.slow \in Nat BY DEF TypeOK
<1>2. Max({Rescan, setting.slow})
        = IF Rescan >= setting.slow THEN Rescan ELSE setting.slow
  BY <1>1, Constants, MaxPair
<1> QED BY <1>1, <1>2, Constants DEF Reach, Found, Deadline, Prompt

\* A file whose event is fresh waits within its deadline ...
Fresh == \A f \in Files : Alerted(f) => Due(f, Found(f))

LEMMA FreshAll == TypeOK => Fresh
<1> SUFFICES ASSUME TypeOK, NEW f \in Files, Alerted(f) PROVE Due(f, Found(f))
  BY DEF Fresh
<1>1. Reach(f) BY ReachesAll DEF Reaches
<1>2. \A t \in Tasks : tick[t].slow \in Nat /\ setting.slow \in Nat
  BY DEF TypeOK, TickTypes
<1>3. timer.rescan \in 0..Rescan BY DEF TypeOK
<1> QED BY <1>1, <1>2, <1>3, Constants DEF Reach, Due, Left, Alerted

\* ... and so does one in any of the stages.
LEMMA AwaitedInTime ==
    ASSUME TypeOK, NEW f \in Files, Awaited(f)
    PROVE  late[f] <= Deadline(f)
<1>1. Reach(f) BY ReachesAll DEF Reaches
<1>2. late[f] \in Nat /\ seen[f].age \in 0..Quiet BY DEF TypeOK
<1> QED BY <1>1, <1>2, Constants DEF Reach, Awaited, Due, Watched, Ripe, InHand,
           Accepted, Timed

\* What the events of other files and the probes of other files leave alone.
LEMMA AwaitedKept ==
    ASSUME NEW f \in Files, Awaited(f),
           setting' = setting, timer' = timer, late'[f] = late[f],
           f \in heard' <=> f \in heard, disk'[f] = disk[f], seen'[f] = seen[f],
           nudges > 0 => nudges' > 0,
           \A t \in Tasks : /\ tick'[t].pc = tick[t].pc
                            /\ tick'[t].slow = tick[t].slow
                            /\ tick'[t].cand[f] = tick[t].cand[f]
                            /\ f \in tick[t].todo => f \in tick'[t].todo
                            /\ f \in tick[t].ready => f \in tick'[t].ready
    PROVE  Awaited(f)'
<1>1. Found(f)' = Found(f) BY DEF Found
<1>2. Deadline(f)' = Deadline(f) BY <1>1 DEF Deadline
<1>3. \A t \in Tasks : Left(t)' = Left(t) BY DEF Left
<1>4. "loop" \in Tasks BY DEF Tasks
<1>5. Timed(f)' = Timed(f) /\ Prompt' = Prompt /\ Armed(f)' = Armed(f)
  BY <1>4 DEF Timed, Prompt, Armed, Inside
<1>6. Due(f, Found(f)) => Due(f, Found(f))'
  BY <1>1, <1>3, <1>4 DEF Due
<1>7. Watched(f) => Watched(f)' BY <1>1, <1>5 DEF Watched
<1>8. Ripe(f) => Ripe(f)' BY <1>2, <1>3, <1>4, <1>5 DEF Ripe, Due
<1>9. \A t \in Tasks : InHand(t, f) => InHand(t, f)'
  BY <1>1, <1>2, <1>5 DEF InHand
<1>10. \A t \in Tasks : Accepted(t, f) => Accepted(t, f)'
  BY <1>2 DEF Accepted
<1> QED BY <1>6, <1>7, <1>8, <1>9, <1>10 DEF Awaited

\* In the next state, too.
LEMMA FreshNext ==
    ASSUME TypeOK'
    PROVE  Reaches' /\ \A f \in Files : Alerted(f)' => Awaited(f)'
<1>1. TypeOK' => Reaches' /\ Fresh' BY ReachesAll, FreshAll, PTL
<1> QED BY <1>1 DEF Fresh, Awaited

LEMMA NudgeAlerts ==
    ASSUME TypeOK, NEW g \in Files, Nudge(g)
    PROVE  /\ Alerted(g)' /\ (nudges > 0 => nudges' > 0)
           /\ \A f \in Files \ {g} : /\ late'[f] = late[f]
                                     /\ f \in heard' <=> f \in heard
<1>1. nudges \in 0..NudgeCap BY DEF TypeOK
<1>2. Min({nudges + 1, NudgeCap}) > 0 BY <1>1, MinPair, Constants
<1>3. late' = [late EXCEPT ![g] = 0] /\ late \in [Files -> 0..Longest]
  BY DEF Nudge, TypeOK
<1> QED BY <1>1, <1>2, <1>3 DEF Nudge, Alerted

\* An event of file g.
LEMMA EventStep ==
    ASSUME TypeOK, TypeOK', Missed, Timely, NEW g \in Files, Nudge(g),
           UNCHANGED <<setting, access, seen, tick, timer, row>>,
           \A f \in Files \ {g} : /\ disk'[f] = disk[f]
                                  /\ f \in marked' <=> f \in marked
    PROVE  Missed' /\ Timely'
<1>1. ASSUME NEW f \in Files \ {g} PROVE Alerted(f) => Alerted(f)'
  BY <1>1, NudgeAlerts DEF Alerted
<1>2. Missed' BY <1>1, NudgeAlerts DEF Missed
<1>3. ASSUME NEW f \in Files, Wanted(f)' PROVE Awaited(f)'
  <2>1. CASE f = g BY <2>1, NudgeAlerts, FreshNext
  <2>2. CASE f # g
    <3>1. Wanted(f) BY <1>3, <2>2 DEF Wanted
    <3>2. Awaited(f) BY <3>1 DEF Timely
    <3> QED BY <2>2, <3>2, NudgeAlerts, AwaitedKept
  <2> QED BY <2>1, <2>2
<1> QED BY <1>2, <1>3 DEF Timely

LEMMA WorldWait ==
    ASSUME TypeOK, TypeOK', Missed, Timely, World
    PROVE  Missed' /\ Timely'
<1>1. ASSUME NEW g \in Files, Write(g) PROVE Missed' /\ Timely'
  <2>1. \A f \in Files \ {g} : disk'[f] = disk[f]
    BY <1>1 DEF Write, TypeOK
  <2> QED BY <1>1, <2>1, EventStep DEF Write
<1>2. ASSUME NEW g \in Files, Mark(g) PROVE Missed' /\ Timely'
  BY <1>2, EventStep DEF Mark
<1>3. ASSUME NEW g \in Files, Remove(g) PROVE Missed' /\ Timely'
  <2>1. \A f \in Files \ {g} : disk'[f] = disk[f]
    BY <1>3 DEF Remove, TypeOK
  <2> QED BY <1>3, <2>1, EventStep DEF Remove
<1>4. ASSUME NEW p \in Paths, Deny(p) PROVE Missed' /\ Timely'
  <2>1. /\ UNCHANGED <<setting, spool, seen, tick, timer, nudges, log, row, ghosts>>
        /\ \A q \in Paths : access'[q] = "ok" => access[q] = "ok"
    BY <1>4 DEF Deny, TypeOK, Kinds, Denied
  <2>2. Root \in Paths /\ Files \subseteq Paths BY DEF Paths
  <2>3. Missed' BY <2>1, <2>2 DEF Missed, Alerted, spool, ghosts
  <2>4. ASSUME NEW f \in Files, Wanted(f)' PROVE Awaited(f)'
    <3>1. Wanted(f) BY <2>1, <2>2, <2>4 DEF Wanted, spool
    <3>2. Awaited(f) BY <3>1 DEF Timely
    <3> QED BY <2>1, <3>2, AwaitedKept DEF spool, ghosts
  <2> QED BY <2>3, <2>4 DEF Timely
<1>5. ASSUME NEW p \in Paths, Restore(p) PROVE Missed' /\ Timely'
  <2>1. /\ UNCHANGED <<setting, disk, marked, seen, tick, timer, nudges, row>>
        /\ \A q \in Paths : q # p => access'[q] = access[q]
    BY <1>5 DEF Restore, TypeOK, spool
  <2>2. Root \in Paths /\ Files \subseteq Paths BY DEF Paths
  <2>3. ASSUME NEW f \in Files
        PROVE  IF p \in {Root, f} THEN Alerted(f)'
               ELSE late'[f] = late[f] /\ (f \in heard' <=> f \in heard)
    BY <1>5, <2>3 DEF Restore, Alerted, TypeOK
  <2>4. ASSUME NEW f \in Files, p \notin {Root, f}
        PROVE  /\ Alerted(f) => Alerted(f)'
               /\ access'[Root] = access[Root] /\ access'[f] = access[f]
    BY <2>1, <2>2, <2>3, <2>4 DEF Alerted
  <2>5. Missed' BY <2>1, <2>3, <2>4 DEF Missed
  <2>6. ASSUME NEW f \in Files, Wanted(f)' PROVE Awaited(f)'
    <3>1. CASE p \in {Root, f} BY <2>3, <3>1, FreshNext
    <3>2. CASE p \notin {Root, f}
      <4>1. Wanted(f) BY <2>1, <2>4, <2>6, <3>2 DEF Wanted
      <4>2. Awaited(f) BY <4>1 DEF Timely
      <4> QED BY <2>1, <2>3, <3>2, <4>2, AwaitedKept
    <3> QED BY <3>1, <3>2
  <2> QED BY <2>5, <2>6 DEF Timely
<1> QED BY <1>1, <1>2, <1>3, <1>4, <1>5 DEF World

\* A task begins to wait for the lock.
LEMMA WaitBegins ==
    ASSUME TypeOK, Missed, Timely, Wake \/ Trigger
    PROVE  Missed' /\ Timely'
<1>1. PICK t \in Tasks : /\ tick[t].pc = "idle"
                         /\ tick' = [tick EXCEPT ![t].pc = "wait"]
                         /\ t # "loop" => UNCHANGED <<timer, nudges>>
  BY DEF Wake, Trigger, Tasks
<1>2. UNCHANGED <<setting, disk, marked, access, seen, row, late, heard>>
  BY DEF Wake, Trigger, spool, ghosts
<1>3. /\ tick'[t].pc = "wait" /\ "loop" \in Tasks
      /\ \A u \in Tasks \ {t} : tick'[u] = tick[u]
  <2>1. tick[t] \in TickTypes BY DEF TypeOK
  <2> QED BY <1>1, <2>1 DEF TypeOK, TickTypes, Tasks
<1>4. \A u \in Tasks : Left(u)' = Left(u) BY <1>1, <1>2, <1>3 DEF Left
<1>5. \A f \in Files : Alerted(f) => Alerted(f)'
  BY <1>1, <1>2, <1>3 DEF Alerted
<1>6. Missed' BY <1>2, <1>3, <1>5 DEF Missed
<1>7. ASSUME NEW f \in Files, Wanted(f)' PROVE Awaited(f)'
  <2>1. Awaited(f) BY <1>2, <1>7 DEF Timely, Wanted
  <2>2. Found(f)' = Found(f) BY <1>2 DEF Found
  <2>3. Deadline(f)' = Deadline(f) BY <1>2, <2>2 DEF Deadline
  <2>4. Timed(f)' = Timed(f) /\ Prompt' = Prompt BY <1>2 DEF Timed, Prompt
  <2>5. Armed(f) => Armed(f)' BY <1>1, <1>2, <1>3 DEF Armed, Inside
  <2>6. Due(f, Found(f)) => Due(f, Found(f))'
    BY <1>1, <1>2, <1>3, <1>4, <2>2 DEF Due
  <2>7. Watched(f) => Watched(f)' BY <1>2, <2>2, <2>4, <2>5 DEF Watched
  <2>8. Ripe(f) => Ripe(f)'
    BY <1>1, <1>2, <1>3, <1>4, <2>3, <2>4 DEF Ripe, Due
  <2>9. \A u \in Tasks : InHand(u, f) => InHand(u, f)'
    BY <1>1, <1>2, <1>3, <2>2, <2>3, <2>4 DEF InHand
  <2>10. \A u \in Tasks : Accepted(u, f) => Accepted(u, f)'
    BY <1>1, <1>2, <1>3, <2>3 DEF Accepted
  <2> QED BY <2>1, <2>6, <2>7, <2>8, <2>9, <2>10 DEF Awaited
<1> QED BY <1>6, <1>7 DEF Timely

LEMMA ScanWait ==
    ASSUME TypeOK, Missed, Timely, NEW t \in Tasks, Scan(t)
    PROVE  Missed' /\ Timely'
<1>1. /\ UNCHANGED <<setting, disk, marked, access, seen, timer, nudges, row,
                     late, heard>>
      /\ tick[t].pc = "wait" /\ "loop" \in Tasks
      /\ \A u \in Tasks \ {t} : /\ tick'[u] = tick[u]
                                /\ tick[u].pc \in {"idle", "wait"}
  BY DEF Scan, Unlocked, Tasks, TypeOK, spool, ghosts
<1>2. /\ tick'[t].pc = "probe" /\ tick'[t].todo = Listed
      /\ tick'[t].cand = [f \in Files |-> IF f \notin Listed THEN None
                                          ELSE IF access[f] = "ok" THEN disk[f] ELSE 0]
  BY DEF Scan, Idle, TypeOK
<1>3. ASSUME NEW f \in Files, disk[f] # None, access[Root] = "ok", access[f] = "ok"
      PROVE  f \in tick'[t].todo /\ tick'[t].cand[f] = disk[f]
  BY <1>2, <1>3 DEF Listed
<1>4. Missed' BY <1>1, <1>3 DEF Missed
<1>5. ASSUME NEW f \in Files, Wanted(f)' PROVE Awaited(f)'
  <2>1. Wanted(f) BY <1>1, <1>5 DEF Wanted
  <2>2. Awaited(f) BY <2>1 DEF Timely
  <2>3. f \in tick'[t].todo /\ tick'[t].cand[f] = disk[f]
    BY <1>3, <2>1 DEF Wanted
  <2>4. Found(f)' = Found(f) BY <1>1 DEF Found
  <2>5. Deadline(f)' = Deadline(f) BY <1>1, <2>4 DEF Deadline
  <2>6. Timed(f)' = Timed(f) /\ Prompt' = Prompt BY <1>1 DEF Timed, Prompt
  <2>7. Due(f, Found(f)) \/ Watched(f) \/ Ripe(f)
    BY <1>1, <2>2 DEF Awaited, InHand, Accepted
  <2>8. CASE Prompt => t = "loop"
    <3>1. late[f] <= Deadline(f) BY <2>2, AwaitedInTime
    <3>2. InHand(t, f)'
      BY <1>1, <1>2, <2>3, <2>4, <2>5, <2>6, <2>7, <2>8, <3>1
         DEF InHand, Due, Watched, Ripe
    <3> QED BY <3>2 DEF Awaited
  <2>9. CASE Prompt /\ t # "loop"
    <3>1. setting.slow = 0 /\ tick'["loop"] = tick["loop"]
      BY <1>1, <2>9 DEF Prompt
    <3>2. \A u \in Tasks : Left(u)' = 0
      BY <1>1, <1>2, <3>1 DEF Left
    <3>3. \A u \in Tasks : Left(u) = 0
      BY <1>1 DEF Left
    <3>4. Due(f, Found(f)) => Due(f, Found(f))'
      BY <1>1, <2>4, <3>1, <3>2, <3>3 DEF Due
    <3>5. Watched(f) => Watched(f)'
      BY <1>1, <2>4, <2>6, <3>1 DEF Watched, Armed, Inside
    <3> QED BY <2>7, <2>9, <3>4, <3>5 DEF Awaited, Ripe
  <2> QED BY <2>8, <2>9
<1> QED BY <1>4, <1>5 DEF Timely

\* What a probe of g does to its tick and to the tracker.
LEMMA ProbeEffect ==
    ASSUME TypeOK, NEW t \in Tasks, NEW g \in Files, Probe(t, g)
    PROVE  /\ tick[t].pc = "probe" /\ g \in tick[t].todo
           /\ \A u \in Tasks \ {t} : tick'[u] = tick[u]
           /\ tick'[t].pc = tick[t].pc /\ tick'[t].slow = tick[t].slow
           /\ tick'[t].cand = tick[t].cand
           /\ tick'[t].todo = tick[t].todo \ {g}
           /\ tick[t].ready \subseteq tick'[t].ready
           /\ \A f \in Files \ {g} : seen'[f] = seen[f]
           /\ Wanted(g) =>
                IF setting.strategy = "stability"
                THEN /\ seen'[g] = Observed(g, disk[g])
                     /\ Settled(g, disk[g]) => g \in tick'[t].ready
                ELSE seen'[g] = seen[g] /\ g \in tick'[t].ready
<1> DEFINE stability == setting.strategy = "stability"
           observed == stability /\ access[g] = "ok" /\ disk[g] # None
           ready == CASE stability -> observed /\ Settled(g, disk[g])
                      [] setting.strategy = "marker" -> g \in marked
                      [] OTHER -> TRUE
<1>1. tick[t] \in TickTypes BY DEF TypeOK
<1>2. PICK r, i :
        /\ tick' = [tick EXCEPT ![t].todo = @ \ {g}, ![t].ready = r, ![t].issues = i]
        /\ r = IF ready THEN tick[t].ready \cup {g} ELSE tick[t].ready
  BY DEF Probe
<1>3. seen' = IF observed THEN [seen EXCEPT ![g] = Observed(g, disk[g])] ELSE seen
  BY DEF Probe
<1>4. Wanted(g) => /\ stability => observed /\ (Settled(g, disk[g]) => ready)
                   /\ ~stability => ~observed /\ ready
  BY DEF Wanted
<1> HIDE DEF ready, observed
<1>5. tick'[t] = [tick[t] EXCEPT !.todo = @ \ {g}, !.ready = r, !.issues = i]
  BY <1>2 DEF TypeOK
<1>6. /\ tick'[t].pc = tick[t].pc /\ tick'[t].slow = tick[t].slow
      /\ tick'[t].cand = tick[t].cand /\ tick'[t].todo = tick[t].todo \ {g}
      /\ tick'[t].ready = r
  BY <1>1, <1>5 DEF TickTypes
<1>7. \A u \in Tasks \ {t} : tick'[u] = tick[u] BY <1>2 DEF TypeOK
<1>8. \A f \in Files \ {g} : seen'[f] = seen[f] BY <1>3 DEF TypeOK
<1>9. IF observed THEN seen'[g] = Observed(g, disk[g]) ELSE seen'[g] = seen[g]
  BY <1>3 DEF TypeOK
<1>10. tick[t].pc = "probe" /\ g \in tick[t].todo BY DEF Probe
<1>11. tick[t].ready \subseteq r /\ (ready => g \in r) BY <1>2
<1>12. ASSUME Wanted(g), stability
       PROVE  /\ seen'[g] = Observed(g, disk[g])
              /\ Settled(g, disk[g]) => g \in tick'[t].ready
  BY <1>4, <1>6, <1>9, <1>11, <1>12
<1>13. ASSUME Wanted(g), ~stability
       PROVE  seen'[g] = seen[g] /\ g \in tick'[t].ready
  BY <1>4, <1>6, <1>9, <1>11, <1>13
<1> QED BY <1>6, <1>7, <1>8, <1>10, <1>11, <1>12, <1>13

LEMMA ProbeWait ==
    ASSUME TypeOK, TypeOK', LockHeld, Missed, Timely,
           NEW t \in Tasks, NEW g \in Files, Probe(t, g)
    PROVE  Missed' /\ Timely'
<1>1. /\ UNCHANGED <<setting, disk, marked, access, timer, nudges, row, late,
                     heard>>
      /\ "loop" \in Tasks
  BY DEF Probe, spool, ghosts, Tasks
<1>2. \A u \in Tasks : /\ tick'[u].pc = tick[u].pc /\ tick'[u].slow = tick[u].slow
                       /\ tick'[u].cand = tick[u].cand
                       /\ tick[u].ready \subseteq tick'[u].ready
                       /\ \A f \in Files \ {g} : f \in tick[u].todo => f \in tick'[u].todo
  BY ProbeEffect
<1>3. \A f \in Files : Alerted(f) => Alerted(f)' BY <1>1, <1>2 DEF Alerted
<1>4. Missed' BY <1>1, <1>2, <1>3 DEF Missed
<1>5. ASSUME NEW f \in Files, f # g, Wanted(f)' PROVE Awaited(f)'
  <2>1. Awaited(f) BY <1>1, <1>5 DEF Timely, Wanted
  <2>2. seen'[f] = seen[f] BY <1>5, ProbeEffect
  <2> QED BY <1>1, <1>2, <1>5, <2>1, <2>2, AwaitedKept
<1>6. ASSUME Wanted(g)' PROVE Awaited(g)'
  <2>1. Wanted(g) BY <1>1, <1>6 DEF Wanted
  <2>2. Awaited(g) BY <2>1 DEF Timely
  <2>3. Found(g)' = Found(g) BY <1>1 DEF Found
  <2>4. Deadline(g)' = Deadline(g) BY <1>1, <2>3 DEF Deadline
  <2>5. Prompt' = Prompt BY <1>1 DEF Prompt
  <2>6. \A u \in Tasks : Left(u)' = Left(u) BY <1>1, <1>2 DEF Left
  <2>7. late[g] <= Deadline(g) BY <2>2, AwaitedInTime
  <2>8. tick[t].pc = "probe" BY ProbeEffect
  <2>9. CASE tick[t].cand[g] # disk[g]
    <3>1. Alerted(g) BY <2>1, <2>8, <2>9 DEF Missed, Wanted
    <3> QED BY <1>3, <3>1, FreshNext
  <2>10. CASE tick[t].cand[g] = disk[g] /\ g \in tick'[t].ready
    <3>1. Accepted(t, g)' BY <1>1, <1>2, <2>4, <2>7, <2>8, <2>10 DEF Accepted
    <3> QED BY <3>1 DEF Awaited
  <2>11. CASE tick[t].cand[g] = disk[g] /\ g \notin tick'[t].ready
    <3>1. /\ setting.strategy = "stability" /\ seen'[g] = Observed(g, disk[g])
          /\ ~Settled(g, disk[g])
      BY <2>1, <2>11, ProbeEffect
    <3>2. disk[g] # None /\ seen[g].age \in 0..Quiet /\ late[g] \in Nat
      BY <2>1 DEF Wanted, TypeOK
    <3>3. Reach(g) BY ReachesAll DEF Reaches
    <3>4. Due(g, Found(g)) => Due(g, Found(g))'
      BY <1>1, <1>2, <2>3, <2>6 DEF Due
    <3>5. \A u \in Tasks : ~Accepted(u, g)
      BY <1>2, <2>8, <2>11 DEF Accepted, LockHeld, Inside
    <3>6. \A u \in Tasks : InHand(u, g) => u = t
      BY <2>8 DEF InHand, LockHeld, Inside
    <3>7. CASE seen[g].ver = disk[g]
      <4>1. seen'[g] = seen[g] /\ seen[g].age < Quiet
        BY <3>1, <3>2, <3>7, Constants DEF Observed, Settled
      <4>2. Watched(g) => Watched(g)'
        BY <1>1, <1>2, <2>3, <2>5, <4>1 DEF Watched, Timed, Armed, Inside
      <4>3. ~Ripe(g) BY <4>1, Constants DEF Ripe
      <4>4. InHand(t, g) => Watched(g)'
        BY <1>1, <1>2, <2>3, <2>5, <2>8, <3>1, <3>2, <3>3, <3>7, <4>1, Constants
           DEF InHand, Watched, Timed, Armed, Inside, Reach
      <4> QED BY <2>2, <3>4, <3>5, <3>6, <4>2, <4>3, <4>4 DEF Awaited
    <3>8. CASE seen[g].ver # disk[g]
      <4>1. seen'[g].ver = disk[g] /\ seen'[g].age = 0
        BY <3>1, <3>8 DEF Observed
      <4>2. ~Watched(g) /\ ~Ripe(g) BY <3>8 DEF Watched, Ripe, Timed
      <4>3. ASSUME InHand(t, g) PROVE Watched(g)' \/ Ripe(g)'
        <5>1. late[g] <= Found(g) BY <3>8, <4>3 DEF InHand, Timed
        <5>2. Timed(g)' BY <1>1, <3>1, <4>1 DEF Timed
        <5>3. CASE Quiet > 0
          <6>1. Prompt => Armed(g)'
            BY <1>2, <2>8, <4>1, <4>3, <5>3 DEF InHand, Armed, Inside
          <6> QED BY <1>1, <2>3, <2>5, <3>2, <3>3, <4>1, <5>1, <5>2, <5>3, <6>1
                  DEF Watched, Reach
        <5>4. CASE Quiet = 0
          <6>1. ~Prompt BY <5>4 DEF Prompt
          <6>2. /\ \A u \in Tasks : Left(u) <= setting.slow /\ Left(u) \in Int
                /\ setting.slow \in Nat /\ timer.rescan \in 0..Rescan
            BY Constants DEF Left, TypeOK, TickTypes
          <6>3. /\ Found(g) \in Nat /\ Deadline(g) \in Nat
                /\ Found(g) + setting.slow <= Deadline(g)
                /\ Found(g) + Rescan <= Deadline(g)
            BY <3>1, <3>3, <5>4, <6>1 DEF Reach
          <6>4. Due(g, Deadline(g))'
            BY <1>1, <2>4, <2>6, <3>2, <5>1, <6>2, <6>3, Constants DEF Due
          <6> QED BY <2>5, <4>1, <5>2, <5>4, <6>1, <6>4 DEF Ripe
        <5> QED BY <5>3, <5>4, Constants
      <4> QED BY <2>2, <3>4, <3>5, <3>6, <4>2, <4>3 DEF Awaited
    <3> QED BY <3>7, <3>8
  <2> QED BY <2>9, <2>10, <2>11
<1> QED BY <1>4, <1>5, <1>6 DEF Timely

LEMMA ReportWait ==
    ASSUME TypeOK, TypeOK', LockHeld, Missed, Timely, NEW t \in Tasks, Report(t)
    PROVE  Missed' /\ Timely'
<1>1. /\ UNCHANGED <<setting, disk, marked, access, timer, nudges, row, late,
                     heard>>
      /\ "loop" \in Tasks /\ tick[t].pc = "probe" /\ tick[t].todo = {}
  BY DEF Report, spool, Tasks
<1>2. /\ tick'[t].pc = "enqueue" /\ tick'[t].cand = tick[t].cand
      /\ tick'[t].ready = tick[t].ready
      /\ \A u \in Tasks \ {t} : tick'[u] = tick[u]
  BY DEF Report, TypeOK, TickTypes
<1>3. \A f \in Files : tick[t].cand[f] # None => seen'[f] = seen[f]
  BY DEF Report, Retained
<1>4. \A u \in Tasks : Left(u)' = Left(u) BY <1>1, <1>2 DEF Left
<1>5. \A f \in Files : Alerted(f) => Alerted(f)' BY <1>1, <1>2 DEF Alerted
<1>6. Missed' BY <1>1, <1>2, <1>5 DEF Missed
<1>7. ASSUME NEW f \in Files, Wanted(f)' PROVE Awaited(f)'
  <2>1. Wanted(f) BY <1>1, <1>7 DEF Wanted
  <2>2. Awaited(f) BY <2>1 DEF Timely
  <2>3. CASE tick[t].cand[f] = None
    <3>1. Alerted(f) BY <1>1, <2>1, <2>3 DEF Missed, Wanted
    <3> QED BY <1>5, <3>1, FreshNext
  <2>4. CASE tick[t].cand[f] # None
    <3>1. seen'[f] = seen[f] BY <1>3, <2>4
    <3>2. Found(f)' = Found(f) BY <1>1 DEF Found
    <3>3. Deadline(f)' = Deadline(f) BY <1>1, <3>2 DEF Deadline
    <3>4. Timed(f)' = Timed(f) /\ Prompt' = Prompt
      BY <1>1, <3>1 DEF Timed, Prompt
    <3>5. Armed(f) => Armed(f)' BY <1>1, <1>2, <3>1 DEF Armed, Inside
    <3>6. Due(f, Found(f)) => Due(f, Found(f))'
      BY <1>1, <1>2, <1>4, <3>2 DEF Due
    <3>7. Watched(f) => Watched(f)' BY <1>1, <3>1, <3>2, <3>4, <3>5 DEF Watched
    <3>8. Ripe(f) => Ripe(f)'
      BY <1>1, <1>2, <1>4, <3>1, <3>3, <3>4 DEF Ripe, Due
    <3>9. \A u \in Tasks : ~InHand(u, f)
      BY <1>1 DEF InHand, LockHeld, Inside
    <3>10. \A u \in Tasks : Accepted(u, f) => Accepted(u, f)'
      BY <1>1, <1>2, <3>3 DEF Accepted
    <3> QED BY <2>2, <3>6, <3>7, <3>8, <3>9, <3>10 DEF Awaited
  <2> QED BY <2>3, <2>4
<1> QED BY <1>6, <1>7 DEF Timely

LEMMA EnqueueWait ==
    ASSUME TypeOK, TypeOK', LockHeld, Missed, Timely, NEW t \in Tasks, Enqueue(t)
    PROVE  Missed' /\ Timely'
<1>0. PICK refused \in SUBSET tick[t].ready :
        /\ \A f \in Files : row'[f] = IF f \in tick[t].ready \ refused
                                      THEN tick[t].cand[f] ELSE row[f]
        /\ \A f \in Files : late'[f] = IF f \in refused THEN 0 ELSE late[f]
        /\ heard' = heard \ refused
  BY DEF Enqueue
<1>1. /\ UNCHANGED <<setting, disk, marked, access, seen, timer, nudges>>
      /\ "loop" \in Tasks /\ tick[t].pc = "enqueue"
  BY DEF Enqueue, spool, Tasks
<1>2. /\ tick'[t].pc = "work" /\ tick'[t].slow = 0
      /\ \A u \in Tasks \ {t} : tick'[u] = tick[u]
  BY DEF Enqueue, Idle, TypeOK
<1>3. \A u \in Tasks : Left(u)' = Left(u)
  <2>1. setting.slow \in Nat BY DEF TypeOK
  <2> QED BY <1>1, <1>2, <2>1 DEF Left
<1>4. \A f \in Files : Alerted(f) \/ f \in refused => Alerted(f)'
  BY <1>0, <1>1, <1>2 DEF Alerted
<1>5. Missed' BY <1>1, <1>2, <1>4 DEF Missed
<1>6. ASSUME NEW f \in Files, Wanted(f)' PROVE Awaited(f)'
  <2>1. CASE f \in refused BY <1>4, <2>1, FreshNext
  <2>2. CASE f \in tick[t].ready \ refused
    <3>1. Alerted(f) BY <1>0, <1>1, <1>6, <2>2 DEF Missed, Wanted
    <3> QED BY <1>4, <3>1, FreshNext
  <2>3. CASE f \notin tick[t].ready
    <3>0. late'[f] = late[f] /\ row'[f] = row[f] /\ (f \in heard' <=> f \in heard)
      BY <1>0, <2>3
    <3>1. Awaited(f) BY <1>1, <1>6, <3>0 DEF Timely, Wanted
    <3>2. Found(f)' = Found(f) BY <1>1, <3>0 DEF Found
    <3>3. Deadline(f)' = Deadline(f) BY <1>1, <3>2 DEF Deadline
    <3>4. Timed(f)' = Timed(f) /\ Prompt' = Prompt BY <1>1 DEF Timed, Prompt
    <3>5. Armed(f) => Armed(f)' BY <1>1, <1>2 DEF Armed, Inside
    <3>6. Due(f, Found(f)) => Due(f, Found(f))'
      BY <1>1, <1>2, <1>3, <3>0, <3>2 DEF Due
    <3>7. Watched(f) => Watched(f)' BY <1>1, <3>0, <3>2, <3>4, <3>5 DEF Watched
    <3>8. Ripe(f) => Ripe(f)'
      BY <1>1, <1>2, <1>3, <3>0, <3>3, <3>4 DEF Ripe, Due
    <3>9. \A u \in Tasks : ~InHand(u, f) /\ ~Accepted(u, f)
      BY <1>1, <2>3 DEF InHand, Accepted, LockHeld, Inside
    <3> QED BY <3>1, <3>6, <3>7, <3>8, <3>9 DEF Awaited
  <2> QED BY <2>1, <2>2, <2>3
<1> QED BY <1>5, <1>6 DEF Timely

\* The re-check comes when the first quiet time of the pending files is over.
LEMMA RecheckSoon ==
    ASSUME TypeOK, setting.strategy = "stability", NEW f \in Files,
           seen[f].ver # None, seen[f].age < Quiet
    PROVE  Recheck \in 0..(Quiet - seen[f].age)
<1> DEFINE W == {Quiet - seen[g].age : g \in Pending}
<1>0. Quiet \in Nat /\ Rescan \in Nat \ {0} BY Constants
<1>1. f \in Pending BY DEF Pending
<1>2. \A g \in Pending : Quiet - seen[g].age \in Nat \ {0}
  BY <1>0 DEF Pending, TypeOK
<1>3. W \subseteq Nat \ {0} /\ Quiet - seen[f].age \in W BY <1>1, <1>2
<1>4. Recheck = Min({Rescan, Max({1, Min(W)})}) BY <1>1 DEF Recheck
<1> HIDE DEF W
<1>5. Min(W) \in Nat \ {0} /\ Min(W) <= Quiet - seen[f].age
  <2>1. PICK m \in W : \A k \in W : m <= k BY <1>3, LeastOf
  <2>2. Min(W) \in W /\ \A k \in W : Min(W) <= k BY <2>1 DEF Min
  <2> QED BY <1>3, <2>2
<1>6. Max({1, Min(W)}) = Min(W) BY <1>5, MaxPair
<1>7. Recheck = IF Rescan <= Min(W) THEN Rescan ELSE Min(W)
  <2>1. Recheck = Min({Rescan, Min(W)}) BY <1>4, <1>6
  <2>2. Min({Rescan, Min(W)}) = IF Rescan <= Min(W) THEN Rescan ELSE Min(W)
    BY <1>0, <1>5, MinPair
  <2> QED BY <2>1, <2>2
<1>8. Quiet - seen[f].age \in Int BY <1>0 DEF TypeOK
<1> QED BY <1>0, <1>5, <1>7, <1>8

LEMMA EndTickWait ==
    ASSUME TypeOK, LockHeld, Missed, Timely, NEW t \in Tasks, EndTick(t)
    PROVE  Missed' /\ Timely'
<1>1. /\ UNCHANGED <<setting, disk, marked, access, seen, nudges, row, late, heard>>
      /\ "loop" \in Tasks /\ tick[t].pc = "work" /\ timer'.rescan = timer.rescan
      /\ IF t = "loop" THEN timer'.recheck = Recheck ELSE timer' = timer
  BY DEF EndTick, spool, ghosts, Tasks, TypeOK
<1>2. /\ tick'[t].pc = "idle" /\ \A u \in Tasks \ {t} : tick'[u] = tick[u]
  BY DEF EndTick, Idle, TypeOK
<1>3. \A u \in Tasks : Left(u)' = IF u = t THEN 0 ELSE Left(u)
  BY <1>1, <1>2 DEF Left
<1>4. \A f \in Files : Alerted(f) => Alerted(f)' BY <1>1, <1>2 DEF Alerted
<1>5. Missed' BY <1>1, <1>2, <1>4 DEF Missed
<1>6. ASSUME NEW f \in Files, Wanted(f)' PROVE Awaited(f)'
  <2>1. Awaited(f) /\ disk[f] # None BY <1>1, <1>6 DEF Timely, Wanted
  <2>2. Found(f)' = Found(f) BY <1>1 DEF Found
  <2>3. Deadline(f)' = Deadline(f) BY <1>1, <2>2 DEF Deadline
  <2>4. Timed(f)' = Timed(f) /\ Prompt' = Prompt BY <1>1 DEF Timed, Prompt
  <2>5. late[f] \in Nat BY DEF TypeOK
  <2>6. Timed(f) /\ Armed(f) => Armed(f)'
    <3>1. CASE t = "loop"
      BY <1>1, <1>2, <2>1, <3>1, RecheckSoon DEF Timed, Armed, Inside
    <3>2. CASE t # "loop"
      BY <1>1, <1>2, <3>2 DEF Armed, Inside
    <3> QED BY <3>1, <3>2
  <2>7. Due(f, Found(f)) => Due(f, Found(f))'
    BY <1>1, <1>2, <1>3, <2>2, <2>5 DEF Due
  <2>8. Watched(f) => Watched(f)' BY <1>1, <2>2, <2>4, <2>6 DEF Watched
  <2>9. Ripe(f) => Ripe(f)' BY <1>1, <1>2, <1>3, <2>3, <2>4, <2>5 DEF Ripe, Due
  <2>10. \A u \in Tasks : ~InHand(u, f) /\ ~Accepted(u, f)
    BY <1>1 DEF InHand, Accepted, LockHeld, Inside
  <2> QED BY <2>1, <2>7, <2>8, <2>9, <2>10 DEF Awaited
<1> QED BY <1>5, <1>6 DEF Timely

\* A unit of time, as a file and a task see it.
LEMMA ElapseEffect ==
    ASSUME TypeOK, LockHeld, Elapse
    PROVE  /\ UNCHANGED <<setting, disk, marked, access, nudges, row>>
           /\ \A t \in Tasks : /\ tick'[t].pc = tick[t].pc
                               /\ tick[t].pc \notin {"probe", "enqueue"}
           /\ timer.rescan # 0 => timer'.rescan = timer.rescan - 1
           /\ timer.rescan = 0 => timer'.rescan = 0
           /\ timer.recheck \in Nat \ {0} => timer'.recheck = timer.recheck - 1
           /\ \A f \in Files :
                /\ seen'[f].ver = seen[f].ver
                /\ seen[f].ver # None => seen'[f].age =
                     IF seen[f].age < Quiet THEN seen[f].age + 1 ELSE Quiet
                /\ Wanted(f) => late'[f] <= late[f] + 1 /\ (f \in heard' <=> f \in heard)
<1>1. UNCHANGED <<setting, disk, marked, access, nudges, row>> BY DEF Elapse
<1>2. \A t \in Tasks : tick'[t].pc = tick[t].pc BY ElapseTick
<1>3. \A t \in Tasks : tick[t].pc \notin {"probe", "enqueue"}
  BY DEF Elapse, Resting, LockHeld, Inside
<1>4. /\ timer.rescan # 0 => timer'.rescan = timer.rescan - 1
      /\ timer.rescan = 0 => timer'.rescan = 0
      /\ timer.recheck \in Nat \ {0} => timer'.recheck = timer.recheck - 1
  <2>1. \A n \in Nat : Sooner(n) = IF n - 1 >= 0 THEN n - 1 ELSE 0
    BY MaxPair, NoneIsApart DEF Sooner
  <2>2. /\ timer'.rescan = Sooner(timer.rescan)
        /\ timer'.recheck = Sooner(timer.recheck) /\ timer.rescan \in Nat
    BY DEF Elapse, TypeOK
  <2> QED BY <2>1, <2>2
<1>5. ASSUME NEW f \in Files
      PROVE  /\ seen'[f].ver = seen[f].ver
             /\ seen[f].ver # None => seen'[f].age =
                  IF seen[f].age < Quiet THEN seen[f].age + 1 ELSE Quiet
             /\ Wanted(f) => late'[f] <= late[f] + 1 /\ (f \in heard' <=> f \in heard)
  <2>1. seen[f] \in [ver : {None} \cup Version, age : 0..Quiet] BY DEF TypeOK
  <2>2. seen'[f] = IF seen[f].ver = None THEN NoEntry
                   ELSE [seen[f] EXCEPT !.age = Older(seen[f].age, Quiet)]
    BY DEF Elapse
  <2>3. seen'[f].ver = seen[f].ver BY <2>1, <2>2 DEF NoEntry
  <2>4. ASSUME seen[f].ver # None
        PROVE  seen'[f].age = IF seen[f].age < Quiet THEN seen[f].age + 1 ELSE Quiet
    <3>1. seen'[f].age = Older(seen[f].age, Quiet) BY <2>1, <2>2, <2>4
    <3> QED BY <2>1, <3>1, Aging, Constants, NoneIsApart
  <2>5. ASSUME Wanted(f) PROVE late'[f] <= late[f] + 1 /\ (f \in heard' <=> f \in heard)
    <3>1. late'[f] = Older(late[f], Longest) BY <2>5 DEF Elapse
    <3>2. late[f] \in 0..Longest BY DEF TypeOK
    <3>3. late'[f] <= late[f] + 1
      BY <3>1, <3>2, Aging, Constants, NoneIsApart
    <3>4. f \in heard' <=> f \in heard BY <2>5 DEF Elapse
    <3> QED BY <3>3, <3>4
  <2> QED BY <2>3, <2>4, <2>5
<1> QED BY <1>1, <1>2, <1>3, <1>4, <1>5

\* While time passes, the scan that is due comes closer.
LEMMA DueElapses ==
    ASSUME TypeOK, TypeOK', LockHeld, Elapse, NEW f \in Files, Wanted(f),
           NEW x \in Nat, Due(f, x)
    PROVE  late'[f] <= x /\ (\A t \in Tasks : late'[f] + Left(t)' <= x)
           /\ (tick'["loop"].pc = "wait" \/ nudges' > 0
               \/ late'[f] + timer'.rescan <= x)
<1>1. /\ late[f] \in Nat /\ late'[f] \in Nat /\ setting.slow \in Nat
      /\ timer.rescan \in Nat /\ "loop" \in Tasks
      /\ \A t \in Tasks : tick[t].slow \in Nat
  BY DEF TypeOK, TickTypes, Tasks
<1>2. late'[f] <= late[f] + 1 BY ElapseEffect
<1>3. CASE Resting
  <2>1. \A t \in Tasks : Left(t)' = 0 BY <1>3, ElapseEffect DEF Resting, Left
  <2>2. late[f] + timer.rescan <= x /\ timer.rescan # 0
    BY <1>1, <1>3 DEF Due, Resting, TypeOK
  <2>3. timer'.rescan = timer.rescan - 1 BY <2>2, ElapseEffect
  <2> QED BY <1>1, <1>2, <2>1, <2>2, <2>3
<1>4. ASSUME NEW t \in Tasks, tick[t].pc = "work", tick[t].slow < setting.slow,
             tick' = [tick EXCEPT ![t].slow = @ + 1]
      PROVE  /\ late'[f] <= x /\ \A u \in Tasks : late'[f] + Left(u)' <= x
             /\ \/ tick'["loop"].pc = "wait" \/ nudges' > 0
                \/ late'[f] + timer'.rescan <= x
  <2>1. /\ tick'[t].slow = tick[t].slow + 1 /\ tick'[t].pc = "work"
        /\ \A u \in Tasks \ {t} : tick'[u] = tick[u] /\ ~Inside(u)
    <3>1. tick[t] \in TickTypes BY DEF TypeOK
    <3> QED BY <1>4, <3>1 DEF TypeOK, TickTypes, LockHeld, Inside
  <2>2. setting' = setting BY ElapseEffect
  <2>3. late[f] + (setting.slow - tick[t].slow) <= x BY <1>4 DEF Due, Left
  <2>4. late[f] + 1 <= x BY <1>1, <1>4, <2>3
  <2>5. \A u \in Tasks : Left(u)' = IF u = t THEN setting.slow - (tick[t].slow + 1) ELSE 0
    BY <2>1, <2>2 DEF Left, Inside
  <2>6. \A u \in Tasks : late'[f] + Left(u)' <= x
    BY <1>1, <1>2, <2>3, <2>4, <2>5
  <2>7. late[f] + timer.rescan <= x => late'[f] + timer'.rescan <= x
    BY <1>1, <1>2, <2>4, ElapseEffect
  <2> QED BY <1>1, <1>2, <2>4, <2>6, <2>7, ElapseEffect DEF Due
<1> QED BY <1>3, <1>4 DEF Elapse

LEMMA ElapseWait ==
    ASSUME TypeOK, TypeOK', LockHeld, Missed, Timely, Elapse
    PROVE  Missed' /\ Timely'
<1>1. Missed' BY ElapseEffect DEF Missed
<1>2. ASSUME NEW f \in Files, Wanted(f)' PROVE Awaited(f)'
  <2>1. Wanted(f) BY <1>2, ElapseEffect DEF Wanted
  <2>2. Awaited(f) BY <2>1 DEF Timely
  <2>3. /\ setting' = setting /\ disk' = disk /\ disk[f] # None
        /\ f \in heard' <=> f \in heard
    BY <2>1, ElapseEffect DEF Wanted
  <2>4. Found(f)' = Found(f) BY <2>3 DEF Found
  <2>5. Deadline(f)' = Deadline(f) BY <2>3, <2>4 DEF Deadline
  <2>6. Timed(f)' = Timed(f) /\ Prompt' = Prompt
    BY <2>3, ElapseEffect DEF Timed, Prompt
  <2>7. Reach(f) BY ReachesAll DEF Reaches
  <2>8. ASSUME Due(f, Found(f)) PROVE Due(f, Found(f))'
    BY <2>1, <2>4, <2>7, <2>8, DueElapses DEF Reach, Due
  <2>9. ASSUME Ripe(f) PROVE Ripe(f)'
    <3>1. Due(f, Deadline(f))'
      BY <2>1, <2>5, <2>7, <2>9, DueElapses DEF Ripe, Reach, Due
    <3>2. seen'[f].age = Quiet
      BY <2>3, <2>9, ElapseEffect, Constants DEF Ripe, Timed
    <3> QED BY <2>6, <2>9, <3>1, <3>2 DEF Ripe
  <2>10. ASSUME Watched(f) PROVE Watched(f)' \/ Ripe(f)'
    <3>1. /\ seen[f].age \in 0..Quiet /\ late[f] \in Nat /\ late'[f] \in Nat
          /\ late'[f] <= late[f] + 1 /\ Found(f) \in Nat
          /\ seen[f].ver # None
      BY <2>1, <2>3, <2>7, <2>10, ElapseEffect DEF TypeOK, Reach, Watched, Timed
    <3>2. CASE Prompt
      <4>1. Resting BY <3>2 DEF Elapse, Prompt, TypeOK, TickTypes
      <4>2. /\ tick["loop"].pc = "idle" /\ timer.recheck \in 0..(Quiet - seen[f].age)
            /\ timer.recheck # 0
        BY <2>10, <3>2, <4>1 DEF Watched, Armed, Resting, Inside, Tasks
      <4>3. seen[f].age < Quiet /\ timer.recheck \in Nat \ {0}
        BY <3>1, <4>2, Constants
      <4>4. seen'[f].age = seen[f].age + 1 BY <3>1, <4>3, ElapseEffect
      <4>5. timer'.recheck = timer.recheck - 1 BY <4>3, ElapseEffect
      <4>6. timer'.recheck \in 0..(Quiet - seen'[f].age)
        BY <3>1, <4>2, <4>3, <4>4, <4>5, Constants
      <4>7. tick'["loop"].pc = "idle" BY <4>2, ElapseEffect DEF Tasks
      <4>8. late'[f] <= Found(f) + seen'[f].age
        BY <2>10, <3>1, <4>4 DEF Watched
      <4> QED BY <2>4, <2>6, <2>10, <3>2, <4>6, <4>7, <4>8 DEF Watched, Armed
    <3>3. CASE ~Prompt
      <4>1. seen[f].age < Quiet BY <2>10, <3>3 DEF Watched
      <4>2. seen'[f].age = seen[f].age + 1 BY <3>1, <4>1, ElapseEffect
      <4>3. late'[f] <= Found(f) + seen'[f].age
        BY <2>10, <3>1, <4>2 DEF Watched
      <4>4. CASE seen'[f].age < Quiet
        BY <2>4, <2>6, <2>10, <3>3, <4>3, <4>4 DEF Watched
      <4>5. CASE seen'[f].age = Quiet
        <5>1. /\ \A u \in Tasks : Left(u)' <= setting.slow /\ Left(u)' \in Int
              /\ setting.slow \in Nat /\ timer'.rescan \in 0..Rescan
          BY <2>3, Constants DEF Left, TypeOK, TickTypes
        <5>2. /\ Deadline(f) \in Nat /\ Found(f) + Quiet + setting.slow <= Deadline(f)
              /\ Found(f) + Quiet + Rescan <= Deadline(f)
          BY <2>7, <2>10, <3>3 DEF Reach, Watched, Timed
        <5>3. Due(f, Deadline(f))'
          BY <2>5, <3>1, <4>3, <4>5, <5>1, <5>2, Constants DEF Due
        <5> QED BY <2>6, <2>10, <3>3, <4>5, <5>3 DEF Ripe, Watched
      <4> QED BY <3>1, <4>1, <4>2, <4>4, <4>5, Constants
    <3> QED BY <3>2, <3>3
  <2>11. \A u \in Tasks : ~InHand(u, f) /\ ~Accepted(u, f)
    BY ElapseEffect DEF InHand, Accepted
  <2> QED BY <2>2, <2>8, <2>9, <2>10, <2>11 DEF Awaited
<1> QED BY <1>1, <1>2 DEF Timely

LEMMA WaitInit == Init => Missed /\ Timely
<1> SUFFICES ASSUME Init PROVE Missed /\ Timely OBVIOUS
<1>1. TypeOK BY TypeInit
<1>2. \A t \in Tasks : tick[t].pc \in {"idle", "wait"} BY DEF Init, Idle
<1>3. \A f \in Files : Alerted(f) BY DEF Init, Alerted
<1> QED BY <1>1, <1>2, <1>3, FreshAll DEF Missed, Timely, Fresh, Awaited

LEMMA WaitStep ==
    TypeOK /\ AcceptInv /\ Missed /\ Timely /\ [Next]_vars => Missed' /\ Timely'
<1> SUFFICES ASSUME TypeOK, AcceptInv, Missed, Timely, [Next]_vars
             PROVE  Missed' /\ Timely'
  OBVIOUS
<1>1. TypeOK' BY TypeStep
<1>2. LockHeld BY DEF AcceptInv
<1>3. CASE World BY <1>1, <1>3, WorldWait
<1>4. CASE Wake \/ Trigger BY <1>4, WaitBegins
<1>5. ASSUME NEW t \in Tasks, Ticking(t) PROVE Missed' /\ Timely'
  BY <1>1, <1>2, <1>5, ScanWait, ProbeWait, ReportWait, EnqueueWait, EndTickWait
     DEF Ticking
<1>6. CASE Elapse BY <1>1, <1>2, <1>6, ElapseWait
<1>7. CASE UNCHANGED vars
  <2>1. UNCHANGED <<setting, disk, marked, access, seen, tick, timer, nudges,
                    row, late, heard>>
    BY <1>7 DEF vars
  <2>2. Missed' BY <2>1 DEF Missed, Alerted
  <2>3. ASSUME NEW f \in Files, Wanted(f)' PROVE Awaited(f)'
    BY <2>1, <2>3, AwaitedKept DEF Timely, Wanted
  <2> QED BY <2>2, <2>3 DEF Timely
<1> QED BY <1>3, <1>4, <1>5, <1>6, <1>7 DEF Next

\* Every wanted file is queued by its deadline, whatever the proportions of
\* the quiet time, the rescan interval and the length of a tick.
THEOREM QueuedInTimeHolds == Spec => []QueuedInTime
<1>1. Init => TypeOK /\ AcceptInv /\ Missed /\ Timely
  BY TypeInit, AcceptInit, WaitInit
<1>2. TypeOK /\ AcceptInv /\ Missed /\ Timely /\ [Next]_vars
      => (TypeOK /\ AcceptInv /\ Missed /\ Timely)'
  BY TypeStep, AcceptStep, WaitStep
<1>3. TypeOK /\ Timely => QueuedInTime
  BY AwaitedInTime DEF Timely, QueuedInTime
<1> QED BY <1>1, <1>2, <1>3, PTL DEF Spec
=============================================================================
