--------------------------- MODULE ComponentProofs ---------------------------
(***************************************************************************)
(* The bandwidth caps, the retry bounds and a clean exit, for any number   *)
(* of instances, transfers and buckets, any rates, policies and chunk      *)
(* size, and any window an observer may choose.                            *)
(*                                                                         *)
(* A bucket's level is what was charged to it plus its tokens.  A charge   *)
(* leaves the level alone and time lifts it by at most the rate, so from   *)
(* the start of a window on it stays under base + capacity + rate * time;  *)
(* and a transfer that sleeps off its deficit writes only once the line    *)
(* base + capacity + rate * time has reached its last byte.                *)
(***************************************************************************)
EXTENDS Component, FiniteSetTheorems, WellFoundedInduction, TLAPS

\* How far bucket b may have let bytes through by time t.
Line(b, t) ==
    watch.base[b] + Capacity(Rate[b]) + Rate[b] * (t - watch.start)

\* The bucket's level is under the line.
Level(b) ==
    /\ bucket[b].tokens <= Capacity(Rate[b])
    /\ bucket[b].last <= clock
    /\ bucket[b].last < watch.start => charged[b] = watch.base[b]
    /\ bucket[b].last >= watch.start
         => charged[b] + bucket[b].tokens <= Line(b, bucket[b].last)

\* The last byte of a sleeping transfer is on the line when the wait ends.
Sleeper(x, b) ==
    /\ transfer[x].upto[b] <= charged[b]
    /\ transfer[x].at < watch.start => transfer[x].upto[b] <= watch.base[b]
    /\ transfer[x].at >= watch.start
         => transfer[x].upto[b] <= Line(b, transfer[x].at) + transfer[x].owed[b]

PaceInv ==
    /\ TypeOK
    /\ watch.start <= clock
    /\ \A b \in Buckets : Rate[b] > 0 => Level(b)
    /\ \A x \in Transfers : transfer[x].pc = "throttled" =>
         /\ transfer[x].at <= clock
         /\ \A b \in Buckets : Rate[b] > 0 => Sleeper(x, b)

-----------------------------------------------------------------------------

\* Arithmetic of rates and times.
LEMMA Later ==
    ASSUME NEW r \in Nat, NEW a \in Int, NEW b \in Int, NEW c \in Int
    PROVE  /\ r * (c - a) = r * (c - b) + r * (b - a)
           /\ (c - b) * r = r * (c - b)
           /\ b <= c => r * (c - b) >= 0
           /\ r * (c - b) \in Int /\ r * (b - a) \in Int
PROOF OBVIOUS

\* Rates and capacities are numbers.
LEMMA Rates ==
    ASSUME NEW b \in Buckets
    PROVE  Rate[b] \in Nat /\ Capacity(Rate[b]) \in Nat
<1>1. Rate[b] \in Nat BY ComponentAssumption
<1>2. Rate[b] * Second \in Nat BY <1>1, SecondAssumption
<1> QED BY <1>1, <1>2 DEF Capacity

\* acquire on a limited bucket: the tokens, and the deficit.
LEMMA Acquire ==
    ASSUME TypeOK, NEW b \in Buckets, Rate[b] > 0, Chunk \in Nat,
           bucket[b].last <= clock
    PROVE  LET r == Refilled(bucket[b], Rate[b], clock)
               a == Acquired(bucket[b], Rate[b], Chunk, clock)
               d == Deficit(bucket[b], Rate[b], Chunk, clock)
           IN  /\ r \in Int /\ r <= Capacity(Rate[b])
               /\ r <= bucket[b].tokens + Rate[b] * (clock - bucket[b].last)
               /\ a = [tokens |-> r - Chunk, last |-> clock]
               /\ d \in Nat /\ Chunk <= r + d
<1> DEFINE r == Refilled(bucket[b], Rate[b], clock)
<1>1. bucket[b].tokens \in Int /\ bucket[b].last \in Nat /\ clock \in Nat
  BY DEF TypeOK
<1>2. Rate[b] \in Nat /\ Capacity(Rate[b]) \in Nat BY Rates
<1>3. /\ (clock - bucket[b].last) * Rate[b] = Rate[b] * (clock - bucket[b].last)
      /\ Rate[b] * (clock - bucket[b].last) \in Int
  BY <1>1, <1>2, Later
<1>4. /\ r \in Int /\ r <= Capacity(Rate[b])
      /\ r <= bucket[b].tokens + Rate[b] * (clock - bucket[b].last)
  BY <1>1, <1>2, <1>3 DEF Refilled
<1>5. Acquired(bucket[b], Rate[b], Chunk, clock)
        = [tokens |-> r - Chunk, last |-> clock]
  BY <1>2 DEF Acquired
<1>6. /\ Deficit(bucket[b], Rate[b], Chunk, clock) \in Nat
      /\ Chunk <= r + Deficit(bucket[b], Rate[b], Chunk, clock)
  <2> HIDE DEF r
  <2>1. Deficit(bucket[b], Rate[b], Chunk, clock) = IF r >= Chunk THEN 0 ELSE Chunk - r
    BY <1>2 DEF Deficit, r
  <2> QED BY <2>1, <1>4
<1> QED BY <1>4, <1>5, <1>6

\* The initial state.
LEMMA PaceInit == Init => PaceInv
<1> SUFFICES ASSUME Init PROVE PaceInv OBVIOUS
<1>1. \A b \in Buckets : Rate[b] \in Nat /\ Capacity(Rate[b]) \in Nat BY Rates
<1>2. TypeOK
  BY <1>1, ComponentAssumption DEF Init, TypeOK, TransferTypes, Fresh, NewBucket
<1>3. ASSUME NEW b \in Buckets, Rate[b] > 0 PROVE Level(b)
  <2>1. Rate[b] * (0 - 0) = 0 BY <1>1
  <2> QED BY <2>1, <1>1, <1>3 DEF Init, Level, Line, NewBucket
<1> QED BY <1>2, <1>3 DEF Init, PaceInv, Fresh

-----------------------------------------------------------------------------
(* Steps that charge nothing: time may pass, transfers may start, write or *)
(* end, but a sleeping one stays as it is.                                 *)

LEMMA Calm ==
    ASSUME PaceInv, TypeOK',
           bucket' = bucket, charged' = charged,
           watch'.start = watch.start, watch'.base = watch.base,
           clock <= clock',
           \A x \in Transfers : transfer'[x].pc = "throttled"
              => transfer'[x] = transfer[x]
    PROVE  PaceInv'
<1>1. clock \in Nat /\ clock' \in Nat /\ watch.start \in Nat
  BY DEF PaceInv, TypeOK
<1>2. watch'.start <= clock' BY <1>1 DEF PaceInv
<1>3. ASSUME NEW b \in Buckets, Rate[b] > 0 PROVE Level(b)'
  <2>1. Level(b) BY <1>3 DEF PaceInv
  <2>2. bucket[b].last \in Nat BY DEF PaceInv, TypeOK
  <2> QED BY <1>1, <2>1, <2>2 DEF Level, Line
<1>4. ASSUME NEW x \in Transfers, transfer'[x].pc = "throttled"
      PROVE  /\ transfer'[x].at <= clock'
             /\ \A b \in Buckets : Rate[b] > 0 => Sleeper(x, b)'
  <2>1. transfer'[x] = transfer[x] /\ transfer[x].pc = "throttled" BY <1>4
  <2>2. transfer[x].at \in Nat /\ transfer[x].at <= clock
    BY <2>1 DEF PaceInv, TypeOK, TransferTypes
  <2>3. ASSUME NEW b \in Buckets, Rate[b] > 0 PROVE Sleeper(x, b)'
    <3>1. Sleeper(x, b) BY <2>1, <2>3 DEF PaceInv
    <3> QED BY <2>1, <3>1 DEF Sleeper, Line
  <2> QED BY <1>1, <2>1, <2>2, <2>3
<1> QED BY <1>2, <1>3, <1>4 DEF PaceInv

\* A new window: whatever was charged before it is its base.
LEMMA ObserveStep == PaceInv /\ Observe => PaceInv'
<1> SUFFICES ASSUME PaceInv, Observe PROVE PaceInv' OBVIOUS
<1>1. TypeOK'
  <2>1. Chunk * Cardinality({x \in Transfers : transfer[x].pc = "throttled"}) \in Int
    BY FiniteTransfers, ComponentAssumption, FS_Subset, FS_CardinalityType
  <2> QED BY <2>1 DEF PaceInv, TypeOK, Observe
<1>2. watch'.start = clock /\ watch'.base = charged /\ clock' = clock
  BY DEF Observe
<1>3. ASSUME NEW b \in Buckets, Rate[b] > 0 PROVE Level(b)'
  <2>1. Level(b) BY <1>3 DEF PaceInv
  <2>2. /\ bucket[b].last \in Nat /\ bucket[b].tokens \in Int
        /\ charged[b] \in Nat /\ clock \in Nat
    BY DEF PaceInv, TypeOK
  <2>3. Rate[b] \in Nat /\ Capacity(Rate[b]) \in Nat BY Rates
  <2>4. Rate[b] * (clock - clock) = 0 BY <2>2, <2>3
  <2>5. bucket' = bucket /\ charged' = charged BY DEF Observe
  <2> QED BY <1>2, <2>1, <2>2, <2>3, <2>4, <2>5 DEF Level, Line
<1>4. ASSUME NEW x \in Transfers, transfer'[x].pc = "throttled"
      PROVE  /\ transfer'[x].at <= clock'
             /\ \A b \in Buckets : Rate[b] > 0 => Sleeper(x, b)'
  <2>1. transfer' = transfer /\ charged' = charged BY DEF Observe
  <2>2. transfer[x].at \in Nat /\ transfer[x].at <= clock /\ clock \in Nat
    BY <1>4, <2>1 DEF PaceInv, TypeOK, TransferTypes
  <2>3. ASSUME NEW b \in Buckets, Rate[b] > 0 PROVE Sleeper(x, b)'
    <3>1. Sleeper(x, b) BY <1>4, <2>1, <2>3 DEF PaceInv
    <3>2. /\ transfer[x].upto[b] \in Nat /\ transfer[x].owed[b] \in Nat
          /\ charged[b] \in Nat
      BY DEF PaceInv, TypeOK, TransferTypes
    <3>3. Rate[b] \in Nat /\ Capacity(Rate[b]) \in Nat BY Rates
    <3>4. Rate[b] * (clock - clock) = 0 BY <2>2, <3>3
    <3> QED BY <1>2, <2>1, <2>2, <3>1, <3>2, <3>3, <3>4 DEF Sleeper, Line
  <2> QED BY <1>2, <2>1, <2>2, <2>3
<1>5. watch'.start <= clock' BY <1>2 DEF PaceInv, TypeOK
<1> QED BY <1>1, <1>3, <1>4, <1>5 DEF PaceInv

\* A charge: the level of each bucket it passes is unchanged, and the
\* transfer's last byte is its deficit above the line.
LEMMA ThrottleStep ==
    ASSUME PaceInv, NEW x \in Transfers, Throttle(x)
    PROVE  PaceInv'
<1> DEFINE at == Passes(Owner[x])
           owed == [b \in Buckets |->
              IF b \in at THEN Deficit(bucket[b], Rate[b], Chunk, clock) ELSE 0]
           bytes == [b \in Buckets |-> charged[b] + IF b \in at THEN Chunk ELSE 0]
           upto == [b \in Buckets |-> IF b \in at THEN bytes[b] ELSE 0]
<1>1. /\ bucket' = [b \in Buckets |->
            IF b \in at THEN Acquired(bucket[b], Rate[b], Chunk, clock)
                        ELSE bucket[b]]
      /\ charged' = bytes
      /\ transfer' = [transfer EXCEPT
            ![x].pc = "throttled", ![x].at = clock, ![x].owed = owed,
            ![x].upto = upto]
      /\ watch' = watch /\ clock' = clock
  BY DEF Throttle
<1> HIDE DEF at, owed, bytes, upto
<1>2. /\ TypeOK /\ Chunk \in Nat /\ clock \in Nat /\ watch.start \in Nat
      /\ watch.start <= clock
  BY ComponentAssumption DEF PaceInv, TypeOK
<1>3. \A b \in Buckets : Rate[b] \in Nat /\ Capacity(Rate[b]) \in Nat BY Rates
<1>4. ASSUME NEW b \in Buckets
      PROVE  /\ Deficit(bucket[b], Rate[b], Chunk, clock) \in Nat
             /\ Acquired(bucket[b], Rate[b], Chunk, clock)
                   \in [tokens : Int, last : Nat]
  <2>1. CASE Rate[b] = 0
    BY <2>1, <1>2 DEF Deficit, Acquired, TypeOK
  <2>2. CASE Rate[b] > 0
    <3>1. bucket[b].last <= clock BY <2>2 DEF PaceInv, Level
    <3>2. /\ Refilled(bucket[b], Rate[b], clock) \in Int
          /\ Deficit(bucket[b], Rate[b], Chunk, clock) \in Nat
          /\ Acquired(bucket[b], Rate[b], Chunk, clock)
               = [tokens |-> Refilled(bucket[b], Rate[b], clock) - Chunk, last |-> clock]
      BY <1>2, <2>2, <3>1, Acquire
    <3> QED BY <1>2, <3>2
  <2> QED BY <1>3, <2>1, <2>2
<1>5. TypeOK'
  <2>1. bytes \in [Buckets -> Nat] BY <1>2 DEF TypeOK, bytes
  <2>2. owed \in [Buckets -> Nat] BY <1>4 DEF owed
  <2>3. upto \in [Buckets -> Nat] BY <2>1 DEF upto
  <2>4. bucket' \in [Buckets -> [tokens : Int, last : Nat]]
    BY <1>1, <1>2, <1>4 DEF TypeOK
  <2>5. transfer' \in [Transfers -> TransferTypes]
    <3>1. transfer[x] \in TransferTypes BY <1>2 DEF TypeOK
    <3>2. [transfer[x] EXCEPT !.pc = "throttled", !.at = clock, !.owed = owed,
                              !.upto = upto] \in TransferTypes
      BY <1>2, <2>2, <2>3, <3>1 DEF TransferTypes
    <3> QED BY <1>1, <1>2, <3>2 DEF TypeOK
  <2> QED BY <1>1, <1>2, <2>1, <2>4, <2>5 DEF TypeOK, Throttle
<1>6. \A b \in Buckets : charged[b] \in Nat /\ charged'[b] \in Nat
                          /\ charged[b] <= charged'[b]
                          /\ charged'[b] = IF b \in at THEN charged[b] + Chunk
                                                       ELSE charged[b]
  <2> SUFFICES ASSUME NEW b \in Buckets
               PROVE  /\ charged[b] \in Nat /\ charged'[b] \in Nat
                      /\ charged[b] <= charged'[b]
                      /\ charged'[b] = IF b \in at THEN charged[b] + Chunk
                                                   ELSE charged[b]
    OBVIOUS
  <2>1. charged[b] \in Nat BY <1>2 DEF TypeOK
  <2>2. charged'[b] = charged[b] + IF b \in at THEN Chunk ELSE 0 BY <1>1 DEF bytes
  <2> QED BY <1>2, <2>1, <2>2
\* What the charge does to a bucket it passes.
<1>7. ASSUME NEW b \in Buckets, Rate[b] > 0, b \in at
      PROVE  LET r == Refilled(bucket[b], Rate[b], clock)
             IN  /\ r \in Int /\ r <= Capacity(Rate[b])
                 /\ charged[b] + r <= Line(b, clock)
                 /\ bucket'[b] = [tokens |-> r - Chunk, last |-> clock]
                 /\ charged'[b] = charged[b] + Chunk
                 /\ Chunk <= r + owed[b]
  <2> DEFINE r == Refilled(bucket[b], Rate[b], clock)
  <2>1. Level(b) BY <1>7 DEF PaceInv
  <2>2. /\ r \in Int /\ r <= Capacity(Rate[b])
        /\ r <= bucket[b].tokens + Rate[b] * (clock - bucket[b].last)
        /\ Acquired(bucket[b], Rate[b], Chunk, clock)
             = [tokens |-> r - Chunk, last |-> clock]
        /\ Chunk <= r + owed[b]
    <3>1. owed[b] = Deficit(bucket[b], Rate[b], Chunk, clock) BY <1>7 DEF owed
    <3> QED BY <1>2, <1>7, <2>1, <3>1, Acquire DEF Level
  <2> HIDE DEF r
  <2>3. /\ bucket[b].last \in Nat /\ bucket[b].tokens \in Int
        /\ watch.base[b] \in Nat
    BY <1>2 DEF TypeOK
  <2>4. /\ Rate[b] * (clock - watch.start)
             = Rate[b] * (clock - bucket[b].last) + Rate[b] * (bucket[b].last - watch.start)
        /\ Rate[b] * (clock - bucket[b].last) \in Int
        /\ Rate[b] * (bucket[b].last - watch.start) \in Int
    <3>1. /\ Rate[b] \in Nat /\ clock \in Int /\ watch.start \in Int
          /\ bucket[b].last \in Int
      BY <1>2, <1>3, <2>3
    <3> QED BY <3>1, Later
  <2>5. Rate[b] * (clock - watch.start) \in Int /\ Rate[b] * (clock - watch.start) >= 0
    BY <1>2, <1>3, Later
  <2>6. charged[b] + r <= Line(b, clock)
    <3>1. CASE bucket[b].last < watch.start
      BY <3>1, <1>3, <1>6, <2>1, <2>2, <2>3, <2>5 DEF Level, Line
    <3>2. CASE bucket[b].last >= watch.start
      BY <3>2, <1>3, <1>6, <2>1, <2>2, <2>3, <2>4 DEF Level, Line
    <3> QED BY <3>1, <3>2, <2>3, <1>2
  <2> QED BY <1>1, <1>6, <1>7, <2>2, <2>6 DEF r
<1>8. ASSUME NEW b \in Buckets, Rate[b] > 0 PROVE Level(b)'
  <2>1. CASE b \in at
    <3> DEFINE r == Refilled(bucket[b], Rate[b], clock)
    <3>1. /\ r \in Int /\ r <= Capacity(Rate[b])
          /\ charged[b] + r <= Line(b, clock)
          /\ bucket'[b] = [tokens |-> r - Chunk, last |-> clock]
          /\ charged'[b] = charged[b] + Chunk
      BY <1>7, <1>8, <2>1
    <3> HIDE DEF r
    <3>2. bucket'[b].tokens = r - Chunk /\ bucket'[b].last = clock BY <3>1
    <3>3. Line(b, clock)' = Line(b, clock) BY <1>1 DEF Line
    <3>4. watch'.start <= clock' BY <1>1, <1>2
    <3>5. charged'[b] + bucket'[b].tokens = charged[b] + r
      BY <3>1, <3>2, <1>2, <1>6
    <3>6. bucket'[b].tokens <= Capacity(Rate[b]) BY <1>2, <1>3, <3>1, <3>2
    <3> QED BY <1>1, <1>2, <3>1, <3>2, <3>3, <3>4, <3>5, <3>6 DEF Level, Line
  <2>2. CASE b \notin at
    <3>1. bucket'[b] = bucket[b] /\ charged'[b] = charged[b]
      <4>1. bucket'[b] = bucket[b] BY <1>1, <2>2
      <4>2. charged'[b] = charged[b] BY <1>6, <2>2
      <4> QED BY <4>1, <4>2
    <3>2. Level(b) BY <1>8 DEF PaceInv
    <3> QED BY <1>1, <3>1, <3>2 DEF Level, Line
  <2> QED BY <2>1, <2>2
<1>9. ASSUME NEW y \in Transfers, transfer'[y].pc = "throttled"
      PROVE  /\ transfer'[y].at <= clock'
             /\ \A b \in Buckets : Rate[b] > 0 => Sleeper(y, b)'
  <2>1. CASE y # x
    <3>1. transfer'[y] = transfer[y] BY <1>1, <1>2, <2>1 DEF TypeOK
    <3>2. transfer[y].at <= clock BY <1>9, <3>1 DEF PaceInv
    <3>3. ASSUME NEW b \in Buckets, Rate[b] > 0 PROVE Sleeper(y, b)'
      <4>1. Sleeper(y, b) BY <1>9, <3>1, <3>3 DEF PaceInv
      <4>2. transfer[y].upto[b] \in Nat BY <1>2 DEF TypeOK, TransferTypes
      <4>3. transfer[y].upto[b] <= charged'[b] BY <1>6, <4>1, <4>2 DEF Sleeper
      <4> QED BY <1>1, <3>1, <4>1, <4>3 DEF Sleeper, Line
    <3> QED BY <1>1, <3>1, <3>2, <3>3
  <2>2. CASE y = x
    <3>1. /\ transfer'[x].at = clock /\ transfer'[x].owed = owed
          /\ transfer'[x].upto = upto
      BY <1>1, <1>2 DEF TypeOK, TransferTypes
    <3>2. ASSUME NEW b \in Buckets, Rate[b] > 0 PROVE Sleeper(x, b)'
      <4>1. watch.base[b] \in Nat BY <1>2 DEF TypeOK
      <4>2. Rate[b] * (clock - watch.start) \in Int /\ Rate[b] * (clock - watch.start) >= 0
        BY <1>2, <1>3, Later
      <4>3. watch.start <= clock BY <1>2
      <4>4. owed[b] \in Nat BY <1>4 DEF owed
      <4>5. CASE b \in at
        <5> DEFINE r == Refilled(bucket[b], Rate[b], clock)
        <5>1. /\ r \in Int /\ charged[b] + r <= Line(b, clock)
              /\ charged'[b] = charged[b] + Chunk /\ Chunk <= r + owed[b]
          BY <1>7, <3>2, <4>5
        <5> HIDE DEF r
        <5>2. upto[b] = charged'[b] BY <1>1, <4>5 DEF upto
        <5>3. upto[b] <= Line(b, clock) + owed[b]
          BY <1>2, <1>3, <1>6, <4>1, <4>2, <4>4, <5>1, <5>2 DEF Line
        <5> QED BY <1>1, <1>2, <1>6, <3>1, <4>3, <5>2, <5>3 DEF Sleeper, Line
      <4>6. CASE b \notin at
        <5>1. upto[b] = 0 BY <4>6 DEF upto
        <5> QED BY <1>1, <1>2, <1>3, <1>6, <3>1, <4>1, <4>2, <4>3, <4>4, <5>1
              DEF Sleeper, Line
      <4> QED BY <4>5, <4>6
    <3> QED BY <1>1, <1>2, <2>2, <3>1, <3>2
  <2> QED BY <2>1, <2>2
<1>10. watch'.start <= clock' BY <1>1, <1>2
<1> QED BY <1>5, <1>8, <1>9, <1>10 DEF PaceInv

-----------------------------------------------------------------------------

\* Every other step: no bucket is charged, no window begins, and what sleeps
\* afterwards slept before and is untouched.
Quiet ==
    /\ bucket' = bucket /\ charged' = charged
    /\ watch'.start = watch.start /\ watch'.base = watch.base
    /\ clock <= clock'
    /\ \A x \in Transfers : transfer'[x].pc = "throttled" => transfer'[x] = transfer[x]

\* The steps of App::run and of the clock.
LEMMA AppQuiet ==
    ASSUME PaceInv, AppStep \/ Shutdown \/ Elapse
    PROVE  TypeOK' /\ Quiet
<1>1. /\ TypeOK /\ clock \in Nat BY DEF PaceInv, TypeOK
<1>2. Fresh \in TransferTypes /\ Fresh.pc = "pending"
  BY ComponentAssumption DEF Fresh, TransferTypes
<1>3. CASE StartBuilt
  <2> DEFINE id == Entry.id
  <2>1. /\ task' = [task EXCEPT ![id] = [pc |-> "wait", now |-> 0]]
        /\ transfer' = [x \in Transfers |->
              IF Owner[x] = id THEN [Fresh EXCEPT !.found = clock] ELSE transfer[x]]
        /\ UNCHANGED <<pace, clock>>
    BY <1>3 DEF StartBuilt
  <2> HIDE DEF id
  <2>2. [Fresh EXCEPT !.found = clock] \in TransferTypes
    BY <1>1, <1>2 DEF TransferTypes
  <2>3. [Fresh EXCEPT !.found = clock].pc = "pending"
    BY <1>2 DEF TransferTypes
  <2>4. task' \in [Ids -> [pc : {"none", "wait", "tick", "exited"}, now : Int]]
    <3> DEFINE w == [pc |-> "wait", now |-> 0]
    <3>1. w \in [pc : {"none", "wait", "tick", "exited"}, now : Int] OBVIOUS
    <3> HIDE DEF w
    <3> QED BY <1>1, <2>1, <3>1 DEF TypeOK, w
  <2>5. transfer' \in [Transfers -> TransferTypes] BY <1>1, <2>1, <2>2 DEF TypeOK
  <2>6. TypeOK' BY <1>1, <2>1, <2>4, <2>5 DEF TypeOK, pace
  <2>7. \A x \in Transfers : transfer'[x].pc = "throttled" => transfer'[x] = transfer[x]
    BY <2>1, <2>3
  <2> QED BY <1>1, <2>1, <2>6, <2>7 DEF Quiet, pace
<1>4. CASE Elapse
  BY <1>1, <1>4 DEF Elapse, Quiet, TypeOK, pace
<1>5. CASE Open \/ StartFatal \/ StartSkip \/ StartFails \/ Started \/ Drained \/ Shutdown
  <2>1. UNCHANGED <<task, transfer, pace, clock>>
    BY <1>5 DEF Open, StartFatal, StartSkip, StartFails, Started, Drained, Shutdown
  <2> QED BY <1>1, <2>1 DEF Quiet, TypeOK, pace
<1> QED BY <1>3, <1>4, <1>5 DEF AppStep

\* The steps of an instance's run loop.
LEMMA LoopQuiet ==
    ASSUME PaceInv, NEW i \in Ids, TickBegin(i) \/ TickEnd(i) \/ Exit(i)
    PROVE  TypeOK' /\ Quiet
<1>1. /\ TypeOK /\ clock \in Nat BY DEF PaceInv, TypeOK
<1>2. CASE TickBegin(i)
  <2>1. ASSUME NEW x \in Transfers
        PROVE  /\ [transfer[x] EXCEPT !.pc = "send"] \in TransferTypes
               /\ [transfer[x] EXCEPT !.pc = "send"].pc = "send"
    <3>1. transfer[x] \in TransferTypes BY <1>1 DEF TypeOK
    <3> QED BY <3>1 DEF TransferTypes
  <2>2. transfer' \in [Transfers -> TransferTypes]
    BY <1>1, <1>2, <2>1 DEF TickBegin, TypeOK
  <2>3. task' \in [Ids -> [pc : {"none", "wait", "tick", "exited"}, now : Int]]
    BY <1>1, <1>2 DEF TickBegin, TypeOK
  <2>4. UNCHANGED <<pace, clock>> BY <1>2 DEF TickBegin
  <2>5. \A x \in Transfers : transfer'[x].pc = "throttled" => transfer'[x] = transfer[x]
    BY <1>2, <2>1 DEF TickBegin
  <2> QED BY <1>1, <2>2, <2>3, <2>4, <2>5 DEF Quiet, TypeOK, pace
<1>3. CASE TickEnd(i) \/ Exit(i)
  <2>1. task' \in [Ids -> [pc : {"none", "wait", "tick", "exited"}, now : Int]]
    <3>1. task[i] \in [pc : {"none", "wait", "tick", "exited"}, now : Int]
      BY <1>1 DEF TypeOK
    <3>2. CASE TickEnd(i) BY <1>1, <3>2 DEF TickEnd, TypeOK
    <3>3. CASE Exit(i)
      <4>1. task' = [task EXCEPT ![i] = [task[i] EXCEPT !.pc = "exited"]]
        BY <3>3 DEF Exit
      <4> QED BY <1>1, <3>1, <4>1 DEF TypeOK
    <3> QED BY <1>3, <3>2, <3>3
  <2>2. UNCHANGED <<transfer, pace, clock>> BY <1>3 DEF TickEnd, Exit
  <2> QED BY <1>1, <2>1, <2>2 DEF Quiet, TypeOK, pace
<1> QED BY <1>2, <1>3

\* The steps of a transfer that charge nothing.
LEMMA TransferQuiet ==
    ASSUME PaceInv, NEW x \in Transfers,
           Write(x) \/ Deliver(x) \/ Fail(x) \/ FailPermanently(x)
    PROVE  TypeOK' /\ Quiet
<1>1. /\ TypeOK /\ clock \in Nat BY DEF PaceInv, TypeOK
<1>2. transfer[x] \in TransferTypes /\ Chunk \in Nat /\ Chunks \in Nat
  BY <1>1, ComponentAssumption DEF TypeOK
\* Only x changes, and does not sleep afterwards.
<1>3. ASSUME NEW t \in TransferTypes, t.pc # "throttled",
             transfer' = [transfer EXCEPT ![x] = t]
      PROVE  /\ transfer' \in [Transfers -> TransferTypes]
             /\ \A y \in Transfers :
                   transfer'[y].pc = "throttled" => transfer'[y] = transfer[y]
  BY <1>1, <1>3 DEF TypeOK
<1>4. CASE Write(x)
  <2> DEFINE o == Fresh.owed
             u == Fresh.upto
             l == transfer[x].left - 1
             t == [transfer[x] EXCEPT !.pc = "send", !.left = l, !.at = 0,
                                      !.owed = o, !.upto = u]
  <2>1. o \in [Buckets -> Nat] /\ u \in [Buckets -> Nat] /\ l \in Int
    BY <1>2 DEF Fresh, TransferTypes
  <2>3. transfer' = [transfer EXCEPT ![x] = t] BY <1>4 DEF Write
  <2> HIDE DEF o, u, l
  <2>2. t \in TransferTypes /\ t.pc = "send" BY <1>2, <2>1 DEF TransferTypes
  <2>4. watch' = [watch EXCEPT !.sent = @ + Chunk] /\ UNCHANGED <<task, bucket, charged, clock>>
    BY <1>4 DEF Write
  <2> HIDE DEF t
  <2>5. /\ watch' \in [start : Nat, base : [Buckets -> Nat], unsent : Int, sent : Int]
        /\ watch'.start = watch.start /\ watch'.base = watch.base
    BY <1>1, <1>2, <2>4 DEF TypeOK
  <2> QED BY <1>1, <1>3, <2>2, <2>3, <2>4, <2>5 DEF Quiet, TypeOK
<1>5. CASE Deliver(x) \/ Fail(x) \/ FailPermanently(x)
  <2>1. UNCHANGED <<task, pace, clock>>
    BY <1>5 DEF Deliver, Fail, FailPermanently
  <2>2. CASE Deliver(x) \/ FailPermanently(x)
    <3>1. PICK p \in {"done", "exhausted"} : transfer' = [transfer EXCEPT ![x].pc = p]
      BY <2>2 DEF Deliver, FailPermanently
    <3> DEFINE t == [transfer[x] EXCEPT !.pc = p]
    <3>2. t \in TransferTypes /\ t.pc # "throttled" BY <1>2 DEF TransferTypes
    <3>3. transfer' = [transfer EXCEPT ![x] = t] BY <3>1
    <3> HIDE DEF t
    <3> QED BY <1>1, <1>3, <2>1, <3>2, <3>3 DEF Quiet, TypeOK, pace
  <2>3. CASE Fail(x)
    <3>1. task[Owner[x]].now \in Int BY <1>1, ComponentAssumption DEF TypeOK
    <3>2. CASE transfer' = [transfer EXCEPT ![x].pc = "exhausted"]
      <4> DEFINE t == [transfer[x] EXCEPT !.pc = "exhausted"]
      <4>1. t \in TransferTypes /\ t.pc # "throttled" BY <1>2 DEF TransferTypes
      <4>2. transfer' = [transfer EXCEPT ![x] = t] BY <3>2
      <4> HIDE DEF t
      <4> QED BY <1>1, <1>3, <2>1, <4>1, <4>2 DEF Quiet, TypeOK, pace
    <3>3. CASE \E delay \in Backoff(policy, transfer[x].attempts + 1) :
                  transfer' = [transfer EXCEPT
                     ![x].pc = "pending", ![x].left = Chunks,
                     ![x].attempts = @ + 1, ![x].gate = task[Owner[x]].now + delay]
      <4>1. PICK delay \in Backoff(policy, transfer[x].attempts + 1) :
                  transfer' = [transfer EXCEPT
                     ![x].pc = "pending", ![x].left = Chunks,
                     ![x].attempts = @ + 1, ![x].gate = task[Owner[x]].now + delay]
        BY <3>3
      <4>2. delay \in Int BY DEF Backoff
      <4> DEFINE g == task[Owner[x]].now + delay
                 a == transfer[x].attempts + 1
                 t == [transfer[x] EXCEPT !.pc = "pending", !.left = Chunks,
                                          !.attempts = a, !.gate = g]
      <4>3. g \in Int /\ a \in Nat BY <1>2, <3>1, <4>2 DEF TransferTypes
      <4>4. transfer' = [transfer EXCEPT ![x] = t] BY <4>1
      <4> HIDE DEF g, a
      <4>5. Chunks \in Int BY <1>2
      <4>6. t \in TransferTypes /\ t.pc = "pending" BY <1>2, <4>3, <4>5 DEF TransferTypes
      <4> HIDE DEF t
      <4> QED BY <1>1, <1>3, <2>1, <4>4, <4>6 DEF Quiet, TypeOK, pace
    <3> QED BY <2>3, <3>2, <3>3 DEF Fail
  <2> QED BY <1>5, <2>2, <2>3
<1> QED BY <1>4, <1>5

LEMMA PaceStep == PaceInv /\ [Next]_vars => PaceInv'
<1> SUFFICES ASSUME PaceInv, [Next]_vars PROVE PaceInv' OBVIOUS
<1>1. ASSUME TypeOK', Quiet PROVE PaceInv' BY <1>1, Calm DEF Quiet
<1>2. CASE AppStep \/ Shutdown \/ Elapse BY <1>1, <1>2, AppQuiet
<1>3. CASE Observe BY <1>3, ObserveStep
<1>4. CASE \E i \in Ids : TickBegin(i) \/ TickEnd(i) \/ Exit(i) BY <1>1, <1>4, LoopQuiet
<1>5. CASE \E x \in Transfers : Step(x)
  BY <1>1, <1>5, TransferQuiet, ThrottleStep DEF Step
<1>6. CASE UNCHANGED vars
  <2>1. UNCHANGED <<task, transfer, pace, clock>> BY <1>6 DEF vars
  <2>2. TypeOK' /\ Quiet BY <2>1 DEF PaceInv, TypeOK, Quiet, pace
  <2> QED BY <1>1, <2>2
<1> QED BY <1>2, <1>3, <1>4, <1>5, <1>6 DEF Next

\* A write comes when the line has reached its last byte.
LEMMA WriteOnLine ==
    ASSUME PaceInv, NEW x \in Transfers, Write(x), NEW b \in Buckets, Rate[b] > 0
    PROVE  transfer[x].upto[b] <= Line(b, clock)
<1>1. /\ watch.start \in Nat /\ clock \in Nat /\ watch.base[b] \in Nat
      /\ watch.start <= clock /\ Rate[b] \in Nat /\ Capacity(Rate[b]) \in Nat
  BY Rates DEF PaceInv, TypeOK
<1>2. transfer[x].pc = "throttled" BY DEF Write
<1>3. /\ transfer[x].upto[b] \in Nat /\ transfer[x].owed[b] \in Nat
      /\ transfer[x].at \in Nat /\ transfer[x].at <= clock
  BY <1>2 DEF PaceInv, TypeOK, TransferTypes
<1>4. Sleeper(x, b) BY <1>2 DEF PaceInv
<1>5. (clock - transfer[x].at) * Rate[b] >= transfer[x].owed[b]
  BY DEF Write, Waited
<1>6. /\ Rate[b] * (clock - watch.start)
           = Rate[b] * (clock - transfer[x].at) + Rate[b] * (transfer[x].at - watch.start)
      /\ (clock - transfer[x].at) * Rate[b] = Rate[b] * (clock - transfer[x].at)
      /\ Rate[b] * (clock - transfer[x].at) \in Int
      /\ Rate[b] * (transfer[x].at - watch.start) \in Int
  <2>1. watch.start \in Int /\ clock \in Int /\ transfer[x].at \in Int BY <1>1, <1>3
  <2> QED BY <1>1, <2>1, Later
<1>7. Rate[b] * (clock - watch.start) \in Int /\ Rate[b] * (clock - watch.start) >= 0
  <2>1. watch.start \in Int /\ clock \in Int BY <1>1
  <2> QED BY <1>1, <2>1, Later
<1>8. CASE transfer[x].at < watch.start
  BY <1>1, <1>3, <1>4, <1>7, <1>8 DEF Sleeper, Line
<1>9. CASE transfer[x].at >= watch.start
  BY <1>1, <1>3, <1>4, <1>5, <1>6, <1>9 DEF Sleeper, Line
<1> QED BY <1>1, <1>3, <1>8, <1>9

\* Only a write ends a sleep and sends.
LEMMA SleepEnds ==
    ASSUME PaceInv, [Next]_vars, NEW x \in Transfers,
           transfer[x].pc = "throttled", transfer'[x].pc = "send"
    PROVE  Write(x)
<1>1. transfer \in [Transfers -> TransferTypes] BY DEF PaceInv, TypeOK
<1>2. transfer'[x] # transfer[x] OBVIOUS
<1>3. CASE AppStep \/ Shutdown \/ Elapse \/ Observe
  <2>1. StartBuilt BY <1>2, <1>3 DEF AppStep, Shutdown, Elapse, Observe, Open,
          StartFatal, StartSkip, StartFails, Started, Drained
  <2>2. [Fresh EXCEPT !.found = clock].pc = "pending" BY DEF Fresh
  <2> QED BY <1>2, <2>1, <2>2 DEF StartBuilt
<1>4. CASE \E i \in Ids : TickBegin(i) \/ TickEnd(i) \/ Exit(i)
  <2>1. PICK i \in Ids : TickBegin(i) BY <1>2, <1>4 DEF TickEnd, Exit
  <2>2. x \notin Due(i) BY DEF Due
  <2> QED BY <1>2, <2>1, <2>2 DEF TickBegin
<1>5. ASSUME NEW y \in Transfers, Step(y), y # x PROVE FALSE
  <2>1. PICK t : transfer' = [transfer EXCEPT ![y] = t]
    BY <1>1, <1>5 DEF Step, Throttle, Write, Deliver, Fail, FailPermanently
  <2> QED BY <1>1, <1>2, <1>5, <2>1
<1>6. CASE Step(x)
  BY <1>6 DEF Step, Throttle, Deliver, Fail, FailPermanently
<1>7. CASE UNCHANGED vars BY <1>2, <1>7 DEF vars
<1> QED BY <1>3, <1>4, <1>5, <1>6, <1>7 DEF Next

\* The cap of every limited bucket (Component!Paced): whatever the number of
\* instances and transfers, their rates and the window observed, a chunk is
\* written only when the bucket's burst and rate have reached its last byte.
THEOREM PacedTheorem == Spec => Paced
<1>1. Init => PaceInv BY PaceInit
<1>2. PaceInv /\ [Next]_vars => PaceInv' BY PaceStep
<1>3. PaceInv /\ [Next]_vars
        => \A x \in Transfers : transfer[x].pc = "throttled" /\ transfer'[x].pc = "send"
             => \A b \in Buckets : Rate[b] > 0 =>
                  transfer[x].upto[b]
                    <= watch.base[b] + Capacity(Rate[b]) + Rate[b] * (clock - watch.start)
  BY SleepEnds, WriteOnLine DEF Line
<1> QED BY <1>1, <1>2, <1>3, PTL DEF Spec, Paced

\* Transfers, buckets and the observer keep their types (Component!TypeOK);
\* in particular no deficit is negative and no bucket runs backwards.
THEOREM TypeCorrect == Spec => []TypeOK
<1>1. Init => PaceInv BY PaceInit
<1>2. PaceInv /\ [Next]_vars => PaceInv' BY PaceStep
<1>3. PaceInv => TypeOK BY DEF PaceInv
<1> QED BY <1>1, <1>2, <1>3, PTL DEF Spec

-----------------------------------------------------------------------------
(* No instance outlives App::run. *)

OrphanInv ==
    /\ task \in [Ids -> [pc : {"none", "wait", "tick", "exited"}, now : Int]]
    /\ clock \in Int
    /\ \A i \in Ids : task[i].pc # "none" => i \in spawned
    /\ stage = "open" => spawned = {}
    /\ NoOrphans

LEMMA OrphanStep == OrphanInv /\ [Next]_vars => OrphanInv'
<1> SUFFICES ASSUME OrphanInv, [Next]_vars PROVE OrphanInv' OBVIOUS
<1>1. /\ task \in [Ids -> [pc : {"none", "wait", "tick", "exited"}, now : Int]]
      /\ clock \in Int
  BY DEF OrphanInv
<1>2. CASE StartBuilt
  <2> DEFINE id == Entry.id
             w == [pc |-> "wait", now |-> 0]
  <2>1. /\ stage = "loop" /\ stage' = stage /\ spawned' = spawned \cup {id}
        /\ task' = [task EXCEPT ![id] = w] /\ clock' = clock
    BY <1>2 DEF StartBuilt, Starting
  <2>2. w \in [pc : {"none", "wait", "tick", "exited"}, now : Int] OBVIOUS
  <2> HIDE DEF id, w
  <2>3. task' \in [Ids -> [pc : {"none", "wait", "tick", "exited"}, now : Int]]
    BY <1>1, <2>1, <2>2
  <2>4. \A i \in Ids : i = id \/ task'[i] = task[i] BY <1>1, <2>1
  <2> QED BY <1>1, <2>1, <2>3, <2>4 DEF OrphanInv, NoOrphans
<1>3. CASE Drained
  <2>1. \A i \in spawned : task[i].pc = "exited" BY <1>3 DEF Drained, Joined
  <2>2. task' = task /\ spawned' = spawned /\ clock' = clock /\ stage' # "open"
    BY <1>3 DEF Drained
  <2> QED BY <2>1, <2>2 DEF OrphanInv, NoOrphans
<1>4. CASE Open \/ Started
  <2>1. /\ task' = task /\ spawned' = spawned /\ clock' = clock
        /\ stage' = "failed" => spawned = {}
        /\ stage' \in {"loop", "failed", "running"}
    BY <1>4 DEF Open, Started, Viable, OrphanInv
  <2> QED BY <2>1 DEF OrphanInv, NoOrphans
<1>5. CASE StartFatal \/ StartSkip \/ StartFails \/ Shutdown
  <2>1. /\ task' = task /\ spawned' = spawned /\ clock' = clock
        /\ stage' \in {"loop", "aborting", "stopping"}
    BY <1>5 DEF StartFatal, StartSkip, StartFails, Shutdown, Starting
  <2> QED BY <2>1 DEF OrphanInv, NoOrphans
<1>6. ASSUME NEW i \in Ids, TickBegin(i) \/ TickEnd(i) \/ Exit(i) PROVE OrphanInv'
  <2>1. task[i].pc \in {"wait", "tick"} /\ UNCHANGED <<stage, spawned, clock>>
    BY <1>6 DEF TickBegin, TickEnd, Exit, boot
  <2>2. stage \notin {"stopped", "failed"} BY <2>1 DEF OrphanInv, NoOrphans
  <2>3. task[i] \in [pc : {"none", "wait", "tick", "exited"}, now : Int] BY <1>1
  <2>4. PICK t \in [pc : {"none", "wait", "tick", "exited"}, now : Int] :
            task' = [task EXCEPT ![i] = t]
    <3>1. CASE TickBegin(i) BY <1>1, <3>1 DEF TickBegin
    <3>2. CASE TickEnd(i)
      <4>1. [pc |-> "wait", now |-> 0]
              \in [pc : {"none", "wait", "tick", "exited"}, now : Int]
        OBVIOUS
      <4>2. task' = [task EXCEPT ![i] = [pc |-> "wait", now |-> 0]]
        BY <3>2 DEF TickEnd
      <4> QED BY <4>1, <4>2
    <3>3. CASE Exit(i)
      <4>1. [task[i] EXCEPT !.pc = "exited"]
              \in [pc : {"none", "wait", "tick", "exited"}, now : Int]
        BY <2>3
      <4>2. task' = [task EXCEPT ![i] = [task[i] EXCEPT !.pc = "exited"]]
        BY <3>3 DEF Exit
      <4> QED BY <4>1, <4>2
    <3> QED BY <1>6, <3>1, <3>2, <3>3
  <2>5. task' \in [Ids -> [pc : {"none", "wait", "tick", "exited"}, now : Int]]
    BY <1>1, <2>4
  <2>6. \A j \in Ids : j = i \/ task'[j] = task[j] BY <1>1, <2>4
  <2> QED BY <1>1, <2>1, <2>2, <2>5, <2>6 DEF OrphanInv, NoOrphans
<1>7. CASE Elapse \/ Observe \/ (\E x \in Transfers : Step(x)) \/ UNCHANGED vars
  <2>1. UNCHANGED <<stage, spawned, task>> /\ clock' \in Int
    <3>1. CASE Elapse BY <1>1, <3>1 DEF Elapse, boot
    <3>2. CASE Observe BY <1>1, <3>2 DEF Observe, boot
    <3>3. ASSUME NEW x \in Transfers, Step(x) PROVE UNCHANGED <<boot, task, clock>>
      BY <3>3 DEF Step, Throttle, Write, Deliver, Fail, FailPermanently
    <3>4. CASE UNCHANGED vars BY <1>1, <3>4 DEF vars, boot
    <3> QED BY <1>1, <1>7, <3>1, <3>2, <3>3, <3>4 DEF boot
  <2> QED BY <2>1 DEF OrphanInv, NoOrphans
<1> QED BY <1>2, <1>3, <1>4, <1>5, <1>6, <1>7 DEF Next, AppStep

\* App::run leaves no instance running behind it (Component!NoOrphans), for
\* every configuration and however its start-up ends.
THEOREM NoOrphansTheorem == Spec => []NoOrphans
<1>1. Init => OrphanInv BY DEF Init, OrphanInv, NoOrphans
<1>2. OrphanInv /\ [Next]_vars => OrphanInv' BY OrphanStep
<1>3. OrphanInv => NoOrphans BY DEF OrphanInv
<1> QED BY <1>1, <1>2, <1>3, PTL DEF Spec

-----------------------------------------------------------------------------
(* Instances are started once: dedup_instance_ids leaves one entry per id. *)

\* A set of natural numbers has a least member.
LEMMA LeastOf ==
    ASSUME NEW S, S \subseteq Nat, S # {}
    PROVE  \E m \in S : \A k \in S : m <= k
<1> DEFINE Rel == OpToRel(<, Nat)
<1>1. IsWellFoundedOn(Rel, Nat) BY NatLessThanWellFounded
<1>2. \A x, y \in Nat : x < y => <<x, y>> \in Rel BY DEF OpToRel
<1> HIDE DEF Rel
<1>3. PICK m \in S : \A k \in S : ~(<<k, m>> \in Rel) BY <1>1, WFMin
<1>4. ASSUME NEW k \in S PROVE m <= k
  <2>1. k \in Nat /\ m \in Nat OBVIOUS
  <2>2. ~(k < m) BY <1>2, <1>3, <2>1
  <2> QED BY <2>1, <2>2
<1> QED BY <1>4

Entries == [id : Ids, policy : Policies \cup {"none"}]

RosterInv ==
    /\ OrphanInv
    /\ entries \in [all : Seq(Entries), todo : SUBSET Nat]
    /\ entries.todo \subseteq DOMAIN entries.all
    /\ \A j, k \in entries.todo : j # k => entries.all[j].id # entries.all[k].id
    /\ \A k \in entries.todo : entries.all[k].id \notin spawned
    /\ \A x \in Transfers : Busy(x) => Owner[x] \in spawned

LEMMA TurnInTodo == ASSUME RosterInv, entries.todo # {} PROVE Turn \in entries.todo
<1>1. entries.todo \subseteq Nat BY DEF RosterInv
<1>2. PICK m \in entries.todo : \A k \in entries.todo : m <= k BY <1>1, LeastOf
<1> QED BY <1>2 DEF Turn

LEMMA RosterInit == Init => RosterInv
<1> SUFFICES ASSUME Init PROVE RosterInv OBVIOUS
<1>1. OrphanInv BY DEF Init, OrphanInv, NoOrphans
<1>2. PICK list \in EntryLists : entries = [all |-> list, todo |-> {}] BY DEF Init
<1>3. list \in Seq(Entries) BY ComponentAssumption DEF Entries
<1>4. \A x \in Transfers : ~Busy(x) BY DEF Init, Fresh, Busy
<1> QED BY <1>1, <1>2, <1>3, <1>4 DEF RosterInv

LEMMA RosterStep == RosterInv /\ TypeOK /\ [Next]_vars => RosterInv'
<1> SUFFICES ASSUME RosterInv, TypeOK, [Next]_vars PROVE RosterInv' OBVIOUS
<1>0. OrphanInv' BY OrphanStep DEF RosterInv
<1>1. CASE Open
  <2>1. /\ spawned = {} /\ UNCHANGED <<spawned, transfer>>
        /\ entries.all \in Seq(Entries)
    BY <1>1 DEF Open, RosterInv, OrphanInv
  <2>2. CASE entries' = entries BY <1>0, <2>1, <2>2 DEF RosterInv, Busy
  <2>3. CASE entries' = [entries EXCEPT !.todo = Dedup(entries.all)]
    <3> DEFINE list == entries.all
               T == Dedup(list)
    <3>1. entries'.all = list /\ entries'.todo = T BY <2>3 DEF RosterInv
    <3>2. DOMAIN list = 1..Len(list) /\ Len(list) \in Nat BY <2>1
    <3>3. T \subseteq DOMAIN list /\ T \subseteq Nat BY <3>2 DEF Dedup
    <3>4. \A j, k \in T : j < k => list[j].id # list[k].id
      BY <3>2, <3>3 DEF Dedup
    <3>5. \A j, k \in T : j # k => list[j].id # list[k].id
      BY <3>3, <3>4
    <3>6. entries' \in [all : Seq(Entries), todo : SUBSET Nat]
      BY <2>3, <3>3 DEF RosterInv
    <3> HIDE DEF list, T
    <3> QED BY <1>0, <2>1, <3>1, <3>3, <3>5, <3>6 DEF RosterInv, Busy
  <2> QED BY <1>1, <2>2, <2>3 DEF Open
\* The entry whose turn it is is dealt with; its id may be started.
<1>2. ASSUME entries.todo # {}, NextEntry,
             spawned' = spawned \/ spawned' = spawned \cup {Entry.id},
             \A x \in Transfers : Busy(x)' => Busy(x)
      PROVE  RosterInv'
  <2>1. Turn \in entries.todo BY <1>2, TurnInTodo
  <2> HIDE DEF Turn
  <2>2. /\ entries'.all = entries.all /\ entries'.todo = entries.todo \ {Turn}
        /\ entries' \in [all : Seq(Entries), todo : SUBSET Nat]
    BY <1>2 DEF NextEntry, RosterInv
  <2>3. \A k \in entries'.todo : entries.all[k].id # Entry.id
    BY <2>1, <2>2 DEF Entry, RosterInv
  <2>4. \A k \in entries'.todo : entries'.all[k].id \notin spawned'
    BY <1>2, <2>2, <2>3 DEF RosterInv
  <2>5. \A x \in Transfers : Busy(x)' => Owner[x] \in spawned'
    BY <1>2 DEF RosterInv
  <2> QED BY <1>0, <2>2, <2>4, <2>5 DEF RosterInv
<1>3. CASE StartSkip \/ StartFails
  <2>1. entries.todo # {} /\ NextEntry /\ UNCHANGED <<spawned, transfer>>
    BY <1>3 DEF StartSkip, StartFails, Starting
  <2>2. \A x \in Transfers : Busy(x)' => Busy(x) BY <2>1 DEF Busy
  <2> QED BY <1>2, <2>1, <2>2
<1>4. CASE StartBuilt
  <2>1. /\ entries.todo # {} /\ NextEntry /\ spawned' = spawned \cup {Entry.id}
        /\ \A x \in Transfers : transfer'[x] = transfer[x]
                                 \/ transfer'[x] = [Fresh EXCEPT !.found = clock]
    BY <1>4 DEF StartBuilt, Starting
  <2>2. [Fresh EXCEPT !.found = clock].pc = "pending" BY DEF Fresh
  <2>3. \A x \in Transfers : Busy(x)' => Busy(x) BY <2>1, <2>2 DEF Busy
  <2> QED BY <1>2, <2>1, <2>3
\* Steps that leave the roster alone.
<1>5. ASSUME UNCHANGED <<entries, spawned>>,
             \A x \in Transfers : Busy(x)' => Busy(x) \/ Owner[x] \in spawned
      PROVE  RosterInv'
  BY <1>0, <1>5 DEF RosterInv
<1>6. CASE StartFatal \/ Started \/ Drained \/ Shutdown \/ Elapse \/ Observe \/ UNCHANGED vars
  <2>1. UNCHANGED <<entries, spawned, transfer>>
    BY <1>6 DEF StartFatal, Started, Drained, Shutdown, Elapse, Observe, vars, boot
  <2> QED BY <1>5, <2>1 DEF Busy
<1>7. ASSUME NEW i \in Ids, TickBegin(i) \/ TickEnd(i) \/ Exit(i) PROVE RosterInv'
  <2>1. UNCHANGED <<entries, spawned>> BY <1>7 DEF TickBegin, TickEnd, Exit, boot
  <2>2. CASE TickBegin(i)
    <3>1. i \in spawned BY <2>2 DEF TickBegin, RosterInv, OrphanInv
    <3>2. \A x \in Transfers : Owner[x] = i \/ transfer'[x] = transfer[x]
      BY <2>2 DEF TickBegin, Due, Mine
    <3> QED BY <1>5, <2>1, <3>1, <3>2 DEF Busy
  <2>3. CASE TickEnd(i) \/ Exit(i)
    <3>1. transfer' = transfer BY <2>3 DEF TickEnd, Exit
    <3> QED BY <1>5, <2>1, <3>1 DEF Busy
  <2> QED BY <1>7, <2>2, <2>3
<1>8. ASSUME NEW x \in Transfers, Step(x) PROVE RosterInv'
  <2>1. Busy(x) /\ UNCHANGED <<entries, spawned>>
    BY <1>8 DEF Step, Throttle, Write, Deliver, Fail, FailPermanently, Busy, boot
  <2>2. \A y \in Transfers : y = x \/ transfer'[y] = transfer[y]
    BY <1>8 DEF Step, Throttle, Write, Deliver, Fail, FailPermanently, TypeOK
  <2> QED BY <1>5, <2>1, <2>2 DEF Busy
<1> QED BY <1>1, <1>3, <1>4, <1>6, <1>7, <1>8 DEF Next, AppStep

-----------------------------------------------------------------------------
(* The aggregate cap.  What was charged to the global bucket in the window *)
(* is written, or sleeps; and above some mark that the line has reached,   *)
(* all of it still sleeps.                                                 *)

G == "global"
Asleep == {x \in Transfers : transfer[x].pc = "throttled"}
Above(m) == {x \in Asleep : transfer[x].upto[G] > m}

\* Every byte charged beyond m belongs to a sleeper.
Sleeps(m) == charged[G] - m = Chunk * Cardinality(Above(m))

Mark(m) ==
    /\ watch.base[G] <= m /\ m <= Line(G, clock)
    /\ Sleeps(m)
    /\ \A x \in Above(m) : Sleeps(transfer[x].upto[G])

FlowInv ==
    /\ watch.sent + Chunk * Cardinality(Asleep)
         = watch.unsent + charged[G] - watch.base[G]
    /\ \E m \in Nat : Mark(m)

\* Finite sets of transfers, and what one more or one less of them weighs.
LEMMA Weighed ==
    ASSUME NEW S \in SUBSET Transfers
    PROVE  /\ IsFiniteSet(S) /\ Cardinality(S) \in Nat
           /\ Chunk * Cardinality(S) \in Nat
           /\ \A x \in Transfers \ S :
                 Chunk * Cardinality(S \cup {x}) = Chunk * Cardinality(S) + Chunk
           /\ \A x \in S :
                 Chunk * Cardinality(S) = Chunk * Cardinality(S \ {x}) + Chunk
           /\ \A T \in SUBSET S : Chunk * Cardinality(T) <= Chunk * Cardinality(S)
<1>0. Chunk \in Nat BY ComponentAssumption
<1>1. IsFiniteSet(S) /\ Cardinality(S) \in Nat
  BY FiniteTransfers, FS_Subset, FS_CardinalityType
<1>2. \A a, b \in Nat : a <= b => Chunk * a <= Chunk * b /\ Chunk * a \in Nat
  <2> SUFFICES ASSUME NEW a \in Nat, NEW b \in Nat, a <= b
               PROVE  Chunk * a <= Chunk * b /\ Chunk * a \in Nat
    OBVIOUS
  <2>1. Chunk * b = Chunk * a + Chunk * (b - a) BY <1>0
  <2>2. Chunk * (b - a) >= 0 /\ Chunk * a >= 0 BY <1>0
  <2> QED BY <1>0, <2>1, <2>2
<1>3. \A a \in Nat : Chunk * (a + 1) = Chunk * a + Chunk BY <1>0
<1>4. ASSUME NEW x \in Transfers \ S
      PROVE  Chunk * Cardinality(S \cup {x}) = Chunk * Cardinality(S) + Chunk
  <2>1. Cardinality(S \cup {x}) = Cardinality(S) + 1 BY <1>1, FS_AddElement
  <2> QED BY <1>1, <1>3, <2>1
<1>5. ASSUME NEW x \in S
      PROVE  Chunk * Cardinality(S) = Chunk * Cardinality(S \ {x}) + Chunk
  <2>1. Cardinality(S \ {x}) = Cardinality(S) - 1 /\ IsFiniteSet(S \ {x})
    BY <1>1, FS_RemoveElement
  <2>2. Cardinality(S \ {x}) \in Nat BY <2>1, FS_CardinalityType
  <2>3. Cardinality(S) = Cardinality(S \ {x}) + 1 BY <1>1, <2>1
  <2> QED BY <1>3, <2>2, <2>3
<1>6. ASSUME NEW T \in SUBSET S PROVE Chunk * Cardinality(T) <= Chunk * Cardinality(S)
  <2>1. Cardinality(T) <= Cardinality(S) /\ Cardinality(T) \in Nat
    BY <1>1, FS_Subset, FS_CardinalityType
  <2> QED BY <1>1, <1>2, <2>1
<1> QED BY <1>1, <1>2, <1>4, <1>5, <1>6

\* The numbers the invariant speaks of.
LEMMA FlowTypes ==
    ASSUME PaceInv
    PROVE  /\ Chunk \in Nat /\ charged[G] \in Nat /\ watch.base[G] \in Nat
           /\ watch.sent \in Int /\ watch.unsent \in Int /\ watch.start \in Nat
           /\ clock \in Nat /\ watch.start <= clock /\ G \in Buckets
           /\ Rate[G] \in Nat /\ Capacity(Rate[G]) \in Nat
           /\ \A x \in Transfers : transfer[x].upto[G] \in Nat
           /\ Line(G, clock) \in Int /\ watch.base[G] <= Line(G, clock)
<1>1. G \in Buckets BY DEF G, Buckets
<1>2. /\ Chunk \in Nat /\ charged[G] \in Nat /\ watch.base[G] \in Nat
      /\ watch.sent \in Int /\ watch.unsent \in Int /\ watch.start \in Nat
      /\ clock \in Nat /\ watch.start <= clock
      /\ \A x \in Transfers : transfer[x].upto[G] \in Nat
  BY <1>1, ComponentAssumption DEF PaceInv, TypeOK, TransferTypes
<1>3. Rate[G] \in Nat /\ Capacity(Rate[G]) \in Nat BY <1>1, Rates
<1>4. Rate[G] * (clock - watch.start) >= 0 /\ Rate[G] * (clock - watch.start) \in Int
  BY <1>2, <1>3, Later
<1> QED BY <1>1, <1>2, <1>3, <1>4 DEF Line

LEMMA FlowInit == Init => FlowInv
<1> SUFFICES ASSUME Init PROVE FlowInv OBVIOUS
<1>1. PaceInv BY PaceInit
<1>2. Asleep = {} /\ Above(0) = {} BY DEF Init, Fresh, Asleep, Above
<1>3. Cardinality({}) = 0 /\ Chunk * 0 = 0 BY FS_EmptySet, FlowTypes, <1>1
<1>4. charged[G] = 0 /\ watch.base[G] = 0 /\ watch.sent = 0 /\ watch.unsent = 0
  BY <1>1, FlowTypes DEF Init
<1>5. Mark(0) BY <1>1, <1>2, <1>3, <1>4, FlowTypes DEF Mark, Sleeps
<1> QED BY <1>2, <1>3, <1>4, <1>5 DEF FlowInv

\* Steps that charge and write nothing.
LEMMA FlowKept ==
    ASSUME PaceInv, PaceInv', FlowInv, charged' = charged, watch' = watch,
           clock <= clock', Asleep' = Asleep,
           \A x \in Asleep : transfer'[x].upto = transfer[x].upto
    PROVE  FlowInv'
<1>1. \A k : Above(k)' = Above(k) BY DEF Above
<1>2. PICK m \in Nat : Mark(m) BY DEF FlowInv
<1>3. Line(G, clock) <= Line(G, clock)'
  <2>1. /\ Rate[G] \in Nat /\ clock \in Nat /\ clock' \in Nat /\ watch.start \in Nat
        /\ Capacity(Rate[G]) \in Nat /\ watch.base[G] \in Nat
    BY FlowTypes DEF PaceInv, TypeOK
  <2>2. Rate[G] * (clock' - watch.start)
          = Rate[G] * (clock' - clock) + Rate[G] * (clock - watch.start)
        /\ Rate[G] * (clock' - clock) >= 0
        /\ Rate[G] * (clock - watch.start) \in Int /\ Rate[G] * (clock' - clock) \in Int
    BY <2>1, Later
  <2> QED BY <2>1, <2>2 DEF Line
<1>4. \A k : Sleeps(k)' <=> Sleeps(k) BY <1>1 DEF Sleeps
<1>5. Line(G, clock) \in Int /\ Line(G, clock)' \in Int /\ m <= Line(G, clock)
  BY <1>2, FlowTypes DEF Mark, Line, PaceInv, TypeOK
<1>6. Mark(m)'
  <2>1. watch'.base[G] <= m /\ m <= Line(G, clock)' BY <1>2, <1>3, <1>5 DEF Mark
  <2>2. Sleeps(m)' BY <1>2, <1>4 DEF Mark
  <2>3. ASSUME NEW x \in Above(m)' PROVE Sleeps(transfer[x].upto[G])'
    <3>1. x \in Above(m) /\ x \in Asleep BY <1>1 DEF Above
    <3>2. Sleeps(transfer[x].upto[G]) BY <1>2, <3>1 DEF Mark
    <3> QED BY <1>1, <3>1, <3>2 DEF Sleeps
  <2> QED BY <2>1, <2>2, <2>3 DEF Mark
<1> QED BY <1>6 DEF FlowInv

\* A sleeper's bytes are among the charged ones.
LEMMA SleeperCharged ==
    ASSUME PaceInv, Rate[G] > 0
    PROVE  /\ \A y \in Asleep : transfer[y].upto[G] <= charged[G]
           /\ Above(charged[G]) = {}
<1>1. ASSUME NEW y \in Asleep PROVE transfer[y].upto[G] <= charged[G]
  BY FlowTypes DEF PaceInv, Sleeper, Asleep
<1>2. ASSUME NEW y \in Above(charged[G]) PROVE FALSE
  <2>1. y \in Asleep /\ y \in Transfers /\ transfer[y].upto[G] > charged[G]
    BY DEF Above, Asleep
  <2>2. transfer[y].upto[G] \in Nat /\ charged[G] \in Nat BY <2>1, FlowTypes
  <2> QED BY <1>1, <2>1, <2>2
<1> QED BY <1>1, <1>2

\* A charge puts the chunk on top of what sleeps.
LEMMA FlowThrottle ==
    ASSUME PaceInv, PaceInv', FlowInv, Rate[G] > 0, NEW x \in Transfers, Throttle(x)
    PROVE  FlowInv'
<1>0. PICK c \in Nat : c = charged[G] BY FlowTypes
<1>1. PICK m \in Nat : Mark(m) BY DEF FlowInv
<1>2. /\ Chunk \in Nat /\ c = charged[G] /\ G \in Buckets
      /\ \A y \in Transfers : transfer[y].upto[G] \in Nat
      /\ watch.base[G] \in Nat /\ watch.sent \in Int /\ watch.unsent \in Int
  BY <1>0, FlowTypes
<1>3. G \in Passes(Owner[x]) BY DEF Passes, G
<1>4. /\ charged'[G] = c + Chunk /\ transfer'[x].upto[G] = c + Chunk
      /\ transfer'[x].pc = "throttled" /\ transfer[x].pc = "send"
      /\ \A y \in Transfers \ {x} : transfer'[y] = transfer[y]
      /\ watch' = watch /\ clock' = clock
  BY <1>2, <1>3 DEF Throttle, PaceInv, TypeOK, TransferTypes
<1>5. Asleep' = Asleep \cup {x} /\ x \in Transfers \ Asleep /\ Asleep \in SUBSET Transfers
  BY <1>4 DEF Asleep
<1>6. Chunk * Cardinality(Asleep') = Chunk * Cardinality(Asleep) + Chunk
      /\ Chunk * Cardinality(Asleep) \in Nat
  BY <1>5, Weighed
<1>7. watch'.sent + Chunk * Cardinality(Asleep')
        = watch'.unsent + charged'[G] - watch'.base[G]
  BY <1>2, <1>4, <1>6 DEF FlowInv
<1>8. \A y \in Asleep : transfer[y].upto[G] <= c BY <1>0, SleeperCharged
<1>9. Above(c + Chunk)' = {}
  <2>1. \A y \in Asleep' : transfer'[y].upto[G] <= c + Chunk
    BY <1>2, <1>4, <1>5, <1>8
  <2>2. \A y \in Asleep' : transfer'[y].upto[G] \in Nat BY <1>2, <1>4, <1>5
  <2> QED BY <1>2, <2>1, <2>2 DEF Above
<1>10. Line(G, clock)' = Line(G, clock) BY <1>4 DEF Line
<1>11. \A k \in Nat : Above(k) \in SUBSET Transfers /\ x \notin Above(k)
  BY <1>5 DEF Above
<1>12. CASE Chunk = 0
  <2>1. Chunk * Cardinality(Above(m)) = 0
    BY <1>11, <1>12, Weighed
  <2>2. m = c BY <1>1, <1>2, <2>1 DEF Mark, Sleeps
  <2>3. Above(m)' = {} BY <1>2, <1>9, <1>12, <2>2
  <2>4. Chunk * Cardinality(Above(m)') = 0 BY <1>12, <2>3, FS_EmptySet
  <2>5. Sleeps(m)' BY <1>2, <1>4, <1>12, <2>2, <2>4 DEF Sleeps
  <2>6. Mark(m)' BY <1>1, <1>4, <1>10, <2>3, <2>5 DEF Mark
  <2> QED BY <1>7, <2>6 DEF FlowInv
<1>13. CASE Chunk > 0
  <2>1. ASSUME NEW k \in Nat, k <= c PROVE Above(k)' = Above(k) \cup {x}
    <3>1. c + Chunk > k BY <1>2, <1>13, <2>1
    <3> QED BY <1>4, <1>5, <3>1 DEF Above
  <2>2. ASSUME NEW k \in Nat, k <= c, Sleeps(k) PROVE Sleeps(k)'
    <3>1. /\ Chunk * Cardinality(Above(k) \cup {x}) = Chunk * Cardinality(Above(k)) + Chunk
          /\ Chunk * Cardinality(Above(k)) \in Nat
      BY <1>11, Weighed
    <3>2. Above(k)' = Above(k) \cup {x} BY <2>1, <2>2
    <3> QED BY <1>2, <1>4, <2>2, <3>1, <3>2 DEF Sleeps
  <2>3. Sleeps(c + Chunk)'
    <3>1. Chunk * Cardinality(Above(c + Chunk)') = 0
      <4>1. Cardinality(Above(c + Chunk)') = 0 BY <1>9, FS_EmptySet
      <4> QED BY <1>2, <4>1
    <3> QED BY <1>2, <1>4, <3>1 DEF Sleeps
  <2>4. m <= c
    <3>1. Chunk * Cardinality(Above(m)) \in Nat BY <1>11, Weighed
    <3> QED BY <1>1, <1>2, <3>1 DEF Mark, Sleeps
  <2>5. Sleeps(m)' BY <1>1, <2>2, <2>4 DEF Mark
  <2>6. ASSUME NEW y \in Above(m)' PROVE Sleeps(transfer[y].upto[G])'
    <3>1. CASE y = x BY <1>4, <2>3, <3>1 DEF Sleeps, Above
    <3>2. CASE y # x
      <4>1. y \in Above(m) /\ y \in Asleep /\ y \in Transfers
        BY <2>1, <2>4, <3>2 DEF Above, Asleep
      <4>2. /\ Sleeps(transfer[y].upto[G]) /\ transfer[y].upto[G] \in Nat
            /\ transfer[y].upto[G] <= c /\ transfer'[y].upto[G] = transfer[y].upto[G]
        BY <1>1, <1>2, <1>4, <1>8, <3>2, <4>1 DEF Mark
      <4>3. PICK k \in Nat : k = transfer[y].upto[G] BY <4>2
      <4>4. Sleeps(k)' BY <2>2, <4>2, <4>3
      <4> QED BY <4>2, <4>3, <4>4 DEF Sleeps, Above
    <3> QED BY <3>1, <3>2
  <2>7. Mark(m)' BY <1>1, <1>4, <1>10, <2>5, <2>6 DEF Mark
  <2> QED BY <1>7, <2>7 DEF FlowInv
<1> QED BY <1>2, <1>12, <1>13

\* A write moves a chunk from the sleepers to what was sent; if it lies above
\* the mark, the line has reached it and the mark may follow.
LEMMA FlowWrite ==
    ASSUME PaceInv, PaceInv', FlowInv, Rate[G] > 0, NEW x \in Transfers, Write(x)
    PROVE  FlowInv'
<1>1. PICK m \in Nat : Mark(m) BY DEF FlowInv
<1>2. /\ Chunk \in Nat /\ charged[G] \in Nat /\ G \in Buckets
      /\ \A y \in Transfers : transfer[y].upto[G] \in Nat
      /\ watch.base[G] \in Nat /\ watch.sent \in Int /\ watch.unsent \in Int
      /\ Line(G, clock) \in Int
  BY FlowTypes
<1>3. /\ transfer[x].pc = "throttled" /\ transfer'[x].pc = "send"
      /\ \A y \in Transfers \ {x} : transfer'[y] = transfer[y]
      /\ watch' = [watch EXCEPT !.sent = @ + Chunk]
      /\ charged' = charged /\ clock' = clock
  BY DEF Write, PaceInv, TypeOK, TransferTypes
<1>4. /\ watch'.sent = watch.sent + Chunk /\ watch'.unsent = watch.unsent
      /\ watch'.base = watch.base /\ watch'.start = watch.start
  BY <1>3 DEF PaceInv, TypeOK
<1>5. Asleep' = Asleep \ {x} /\ x \in Asleep /\ Asleep \in SUBSET Transfers
  BY <1>3 DEF Asleep
<1>6. /\ Chunk * Cardinality(Asleep) = Chunk * Cardinality(Asleep') + Chunk
      /\ Chunk * Cardinality(Asleep') \in Nat
  <2>1. Asleep \ {x} \in SUBSET Transfers BY <1>5
  <2> QED BY <1>5, <2>1, Weighed
<1>7. watch'.sent + Chunk * Cardinality(Asleep')
        = watch'.unsent + charged'[G] - watch'.base[G]
  BY <1>2, <1>3, <1>4, <1>6 DEF FlowInv
<1>8. Line(G, clock)' = Line(G, clock) BY <1>3, <1>4 DEF Line
<1>9. PICK k \in Nat : /\ m <= k /\ transfer[x].upto[G] <= k
                       /\ k <= Line(G, clock) /\ Sleeps(k)
  <2>1. CASE x \in Above(m)
    <3>1. transfer[x].upto[G] <= Line(G, clock) BY <1>2, WriteOnLine
    <3>2. Sleeps(transfer[x].upto[G]) /\ transfer[x].upto[G] > m
      BY <1>1, <2>1 DEF Mark, Above
    <3> QED BY <1>2, <3>1, <3>2
  <2>2. CASE x \notin Above(m)
    <3>1. transfer[x].upto[G] <= m BY <1>2, <1>5, <2>2 DEF Above
    <3> QED BY <1>1, <3>1 DEF Mark
  <2> QED BY <2>1, <2>2
<1>10. ASSUME NEW j \in Nat, k <= j PROVE Above(j)' = Above(j)
  <2>1. x \notin Above(j) /\ x \notin Above(j)'
    <3>1. transfer[x].upto[G] \in Nat /\ transfer[x].upto[G] <= j BY <1>2, <1>9, <1>10
    <3> QED BY <1>5, <3>1 DEF Above
  <2> QED BY <1>3, <1>5, <2>1 DEF Above
<1>11. ASSUME NEW j \in Nat, k <= j, Sleeps(j) PROVE Sleeps(j)'
  BY <1>3, <1>10, <1>11 DEF Sleeps
<1>12. Mark(k)'
  <2>1. watch'.base[G] <= k /\ k <= Line(G, clock)'
    BY <1>1, <1>2, <1>4, <1>8, <1>9 DEF Mark
  <2>2. Sleeps(k)' BY <1>9, <1>11
  <2>3. ASSUME NEW y \in Above(k)' PROVE Sleeps(transfer[y].upto[G])'
    <3>1. y \in Above(k) /\ y \in Asleep' BY <1>10 DEF Above
    <3>2. /\ y \in Transfers \ {x} /\ y \in Asleep /\ transfer[y].upto[G] > k
      BY <1>5, <3>1 DEF Above
    <3>3. PICK j \in Nat : j = transfer[y].upto[G] BY <1>2, <3>2
    <3>4. k <= j /\ j > m BY <1>9, <3>2, <3>3
    <3>5. y \in Above(m) BY <3>2, <3>3, <3>4 DEF Above
    <3>6. Sleeps(j) BY <1>1, <3>3, <3>5 DEF Mark
    <3>7. Sleeps(j)' BY <1>11, <3>4, <3>6
    <3>8. transfer'[y].upto[G] = j BY <1>3, <3>2, <3>3
    <3> QED BY <3>7, <3>8 DEF Sleeps, Above
  <2> QED BY <2>1, <2>2, <2>3 DEF Mark
<1> QED BY <1>7, <1>12 DEF FlowInv

\* A new window starts from what is charged.
LEMMA FlowObserve ==
    ASSUME PaceInv, PaceInv', FlowInv, Rate[G] > 0, Observe
    PROVE  FlowInv'
<1>1. /\ watch'.start = clock /\ watch'.base = charged /\ watch'.sent = 0
      /\ watch'.unsent = Chunk * Cardinality(Asleep)
      /\ UNCHANGED <<transfer, charged, clock>>
  BY DEF Observe, Asleep
<1>2. Asleep' = Asleep /\ Above(charged[G])' = {} BY <1>1, SleeperCharged DEF Asleep, Above
<1>3. charged[G] \in Nat /\ Chunk \in Nat BY FlowTypes
<1>4. Chunk * Cardinality(Asleep) \in Nat BY Weighed DEF Asleep
<1>5. watch'.base[G] <= Line(G, clock)'
  <2>1. /\ clock \in Nat /\ Rate[G] \in Nat /\ Capacity(Rate[G]) \in Nat BY FlowTypes
  <2>2. Rate[G] * (clock - clock) = 0 BY <2>1
  <2> QED BY <1>1, <1>3, <2>1, <2>2 DEF Line
<1>6. Sleeps(charged[G])'
  <2>1. Chunk * Cardinality(Above(charged[G])') = 0 BY <1>2, <1>3, FS_EmptySet
  <2> QED BY <1>1, <1>3, <2>1 DEF Sleeps
<1>7. Mark(charged[G])' BY <1>1, <1>2, <1>3, <1>5, <1>6 DEF Mark
<1> QED BY <1>1, <1>2, <1>3, <1>4, <1>7 DEF FlowInv

\* Every other step.
LEMMA FlowStep ==
    ASSUME PaceInv, PaceInv', RosterInv, FlowInv, Rate[G] > 0, [Next]_vars
    PROVE  FlowInv'
<1>1. TypeOK /\ clock \in Nat BY DEF PaceInv, TypeOK
<1>2. CASE AppStep \/ Shutdown \/ Elapse \/ UNCHANGED vars
  <2>1. UNCHANGED <<charged, watch>> /\ clock <= clock'
    BY <1>1, <1>2 DEF AppStep, Open, StartFatal, StartSkip, StartBuilt, StartFails,
         Started, Drained, Shutdown, Elapse, vars, pace
  <2>2. CASE StartBuilt
    <3>1. Turn \in entries.todo BY <2>2, TurnInTodo DEF StartBuilt, Starting
    <3>2. Entry.id \notin spawned BY <3>1 DEF Entry, RosterInv
    <3>3. \A y \in Transfers : Busy(y) => Owner[y] # Entry.id BY <3>2 DEF RosterInv
    <3>4. [Fresh EXCEPT !.found = clock].pc = "pending" BY DEF Fresh
    <3>5. Asleep' = Asleep /\ \A y \in Asleep : transfer'[y] = transfer[y]
      BY <2>2, <3>3, <3>4 DEF StartBuilt, Asleep, Busy
    <3> QED BY <2>1, <3>5, FlowKept
  <2>3. CASE transfer' = transfer BY <2>1, <2>3, FlowKept DEF Asleep
  <2> QED BY <1>2, <2>2, <2>3 DEF AppStep, Open, StartFatal, StartSkip, StartFails,
            Started, Drained, Shutdown, Elapse, vars
<1>3. CASE Observe BY <1>3, FlowObserve
<1>4. ASSUME NEW i \in Ids, TickBegin(i) \/ TickEnd(i) \/ Exit(i) PROVE FlowInv'
  <2>1. UNCHANGED <<charged, watch, clock>>
    BY <1>4 DEF TickBegin, TickEnd, Exit, pace
  <2>2. CASE TickBegin(i)
    <3>1. \A y \in Transfers : transfer[y] \in TransferTypes BY <1>1 DEF TypeOK
    <3>2. \A y \in Transfers : [transfer[y] EXCEPT !.pc = "send"].pc = "send"
      BY <3>1 DEF TransferTypes
    <3>3. Asleep' = Asleep /\ \A y \in Asleep : transfer'[y] = transfer[y]
      BY <2>2, <3>2 DEF TickBegin, Asleep, Due
    <3> QED BY <1>1, <2>1, <3>3, FlowKept
  <2>3. CASE TickEnd(i) \/ Exit(i)
    <3>1. transfer' = transfer BY <2>3 DEF TickEnd, Exit
    <3> QED BY <1>1, <2>1, <3>1, FlowKept DEF Asleep
  <2> QED BY <1>4, <2>2, <2>3
<1>5. ASSUME NEW x \in Transfers, Deliver(x) \/ Fail(x) \/ FailPermanently(x)
      PROVE  FlowInv'
  <2>1. UNCHANGED <<charged, watch, clock>> /\ x \notin Asleep
    BY <1>5 DEF Deliver, Fail, FailPermanently, pace, Asleep
  <2>2. \A y \in Transfers \ {x} : transfer'[y] = transfer[y]
    BY <1>1, <1>5 DEF Deliver, Fail, FailPermanently, TypeOK
  <2>3. x \notin Asleep'
    <3>1. transfer[x].pc # "throttled" BY <1>5 DEF Deliver, Fail, FailPermanently
    <3>2. Quiet BY <1>5, TransferQuiet
    <3>3. transfer'[x].pc # "throttled" BY <3>1, <3>2 DEF Quiet
    <3> QED BY <3>3 DEF Asleep
  <2>4. Asleep' = Asleep /\ \A y \in Asleep : transfer'[y] = transfer[y]
    BY <2>1, <2>2, <2>3 DEF Asleep
  <2> QED BY <1>1, <2>1, <2>4, FlowKept
<1>6. CASE \E x \in Transfers : Step(x)
  BY <1>5, <1>6, FlowThrottle, FlowWrite DEF Step
<1> QED BY <1>2, <1>3, <1>4, <1>6 DEF Next

\* What the sleepers below the mark weigh has not been sent.
LEMMA FlowCaps ==
    ASSUME PaceInv, FlowInv, Rate[G] > 0
    PROVE  AggregateCap
<1>1. PICK m \in Nat : Mark(m) BY DEF FlowInv
<1>2. Chunk * Cardinality(Above(m)) <= Chunk * Cardinality(Asleep)
      /\ Chunk * Cardinality(Asleep) \in Nat /\ Chunk * Cardinality(Above(m)) \in Nat
  <2>1. Asleep \in SUBSET Transfers /\ Above(m) \in SUBSET Asleep BY DEF Asleep, Above
  <2> QED BY <2>1, Weighed
<1>3. /\ charged[G] \in Nat /\ watch.base[G] \in Nat /\ watch.sent \in Int
      /\ watch.unsent \in Int /\ Line(G, clock) \in Int
      /\ Capacity(Rate[G]) \in Nat /\ Rate[G] * (clock - watch.start) \in Int
  BY FlowTypes
<1>4. /\ watch.sent + Chunk * Cardinality(Asleep)
           = watch.unsent + charged[G] - watch.base[G]
      /\ charged[G] - m = Chunk * Cardinality(Above(m)) /\ m <= Line(G, clock)
  BY <1>1 DEF FlowInv, Mark, Sleeps
<1>5. watch.sent <= watch.unsent + Line(G, clock) - watch.base[G]
  BY <1>2, <1>3, <1>4
<1> QED BY <1>3, <1>5 DEF AggregateCap, Line, G

\* All instances together keep to the global byte rate (Component!AggregateCap):
\* what is written in a window is at most what was charged and unwritten when it
\* began, one second's burst and the rate, for any number of instances and
\* transfers, whatever the rates, the chunk size and the window.
THEOREM AggregateCapTheorem == Spec => []AggregateCap
<1>1. CASE Rate["global"] > 0
  <2> DEFINE I == PaceInv /\ RosterInv /\ FlowInv
  <2>0. Rate[G] > 0 BY <1>1 DEF G
  <2>1. Init => I BY PaceInit, RosterInit, FlowInit
  <2>2. I /\ [Next]_vars => I'
    <3> SUFFICES ASSUME I, [Next]_vars PROVE I' OBVIOUS
    <3>1. PaceInv' BY PaceStep
    <3>2. RosterInv' BY RosterStep DEF PaceInv
    <3>3. FlowInv' BY <2>0, <3>1, FlowStep
    <3> QED BY <3>1, <3>2, <3>3
  <2>3. I => AggregateCap BY <2>0, FlowCaps
  <2> HIDE DEF I
  <2> QED BY <2>1, <2>2, <2>3, PTL DEF Spec
<1>2. CASE ~(Rate["global"] > 0)
  <2>1. AggregateCap BY <1>2 DEF AggregateCap
  <2> QED BY <2>1, PTL
<1> QED BY <1>1, <1>2

-----------------------------------------------------------------------------
(* Retries. *)

\* There is a function that doubles at every step: were there an n without
\* one, the least such n would extend that of n - 1.
LEMMA Doubling ==
    ASSUME NEW n \in Nat
    PROVE  \E g \in [0..n -> Nat] :
              \A k \in 0..n : g[k] = IF k = 0 THEN 1 ELSE 2 * g[k - 1]
<1> DEFINE Doubles(g, j) == \A k \in 0..j : g[k] = IF k = 0 THEN 1 ELSE 2 * g[k - 1]
           Bad == {j \in Nat : ~ \E g \in [0..j -> Nat] : Doubles(g, j)}
<1>1. ASSUME Bad # {} PROVE FALSE
  <2>1. PICK m \in Bad : \A k \in Bad : m <= k BY <1>1, LeastOf
  <2>2. m # 0
    <3> DEFINE one == [k \in 0..0 |-> 1]
    <3>1. one \in [0..0 -> Nat] /\ Doubles(one, 0) OBVIOUS
    <3> QED BY <2>1, <3>1
  <2>3. m - 1 \in Nat /\ m - 1 \notin Bad /\ m \in Nat
    <3>1. m \in Nat OBVIOUS
    <3> HIDE DEF Bad
    <3> QED BY <2>1, <2>2, <3>1
  <2>4. PICK g \in [0..(m - 1) -> Nat] : Doubles(g, m - 1) BY <2>3
  <2> DEFINE h == [k \in 0..m |-> IF k = m THEN 2 * g[m - 1] ELSE g[k]]
  <2>5. m - 1 \in 0..(m - 1) /\ \A k \in 0..m : k # m => k \in 0..(m - 1) BY <2>3
  <2>6. h \in [0..m -> Nat] BY <2>5
  <2>7. ASSUME NEW k \in 0..m PROVE h[k] = IF k = 0 THEN 1 ELSE 2 * h[k - 1]
    <3>1. CASE k = m
      <4>1. h[k] = 2 * g[m - 1] BY <3>1
      <4>2. h[m - 1] = g[m - 1] BY <2>3
      <4> QED BY <2>2, <3>1, <4>1, <4>2
    <3>2. CASE k # m
      <4>1. k \in 0..(m - 1) /\ h[k] = g[k] BY <2>3, <3>2
      <4>2. k # 0 => k - 1 \in 0..m /\ k - 1 # m /\ h[k - 1] = g[k - 1]
        BY <2>3, <4>1
      <4> QED BY <2>4, <4>1, <4>2
    <3> QED BY <3>1, <3>2
  <2> HIDE DEF h
  <2> QED BY <2>1, <2>6, <2>7
<1> QED BY <1>1

\* 1 << shift: one doubled shift times, never zero.
LEMMA ShiftedDoubles ==
    /\ \A k \in 0..MaxShift :
          Shifted[k] = IF k = 0 THEN 1 ELSE 2 * Shifted[k - 1]
    /\ \A k \in 0..MaxShift : Shifted[k] \in Nat \ {0}
<1> DEFINE Def(g) == g = [k \in 0..MaxShift |-> IF k = 0 THEN 1 ELSE 2 * g[k - 1]]
<1>1. \E g : Def(g)
  <2>1. MaxShift \in Nat BY WordAssumption
  <2>2. PICK g \in [0..MaxShift -> Nat] :
            \A k \in 0..MaxShift : g[k] = IF k = 0 THEN 1 ELSE 2 * g[k - 1]
    BY <2>1, Doubling
  <2>3. Def(g) BY <2>2
  <2> QED BY <2>3
<1>2. Shifted = CHOOSE g : Def(g) BY DEF Shifted
<1>3. Def(Shifted) BY <1>1, <1>2
<1>4. \A k \in 0..MaxShift : Shifted[k] = IF k = 0 THEN 1 ELSE 2 * Shifted[k - 1]
  BY <1>3
<1> DEFINE Bad == {k \in 0..MaxShift : Shifted[k] \notin Nat \ {0}}
<1>5. ASSUME Bad # {} PROVE FALSE
  <2>0. Bad \subseteq Nat OBVIOUS
  <2>1. PICK m \in Bad : \A k \in Bad : m <= k
    <3> HIDE DEF Bad
    <3> QED BY <1>5, <2>0, LeastOf
  <2>2. m \in 0..MaxShift /\ m # 0 BY <1>4, <2>1
  <2>3. m - 1 \in 0..MaxShift /\ m - 1 \notin Bad BY <2>1, <2>2, WordAssumption
  <2>4. Shifted[m - 1] \in Nat \ {0} BY <2>3
  <2>5. Shifted[m] = 2 * Shifted[m - 1] BY <1>4, <2>2
  <2> QED BY <2>1, <2>4, <2>5
<1> QED BY <1>4, <1>5

\* The policy in force: a positive base, a maximum that is no less.
LEMMA PolicyTypes ==
    /\ policy.base \in Nat /\ policy.base >= 1
    /\ policy.max \in Nat /\ policy.max >= policy.base
    /\ policy.giveUp \in Nat \cup {None} /\ policy.attempts \in Nat \cup {None}
    /\ policy = [base |-> policy.base, max |-> policy.max,
                 giveUp |-> policy.giveUp, attempts |-> policy.attempts]
<1> DEFINE i == InstanceRetry
           g == GlobalRetry
           d == DefaultRetry
<1>1. /\ i.base \in Nat \cup {None} /\ g.base \in Nat \cup {None}
      /\ i.max \in Nat \cup {None} /\ g.max \in Nat \cup {None}
      /\ d.base \in Nat /\ d.max \in Nat
      /\ i.giveUp \in Nat \cup {None} /\ g.giveUp \in Nat \cup {None}
      /\ d.giveUp \in Nat \cup {None}
      /\ i.attempts \in Nat \cup {None} /\ g.attempts \in Nat \cup {None}
  BY RetryAssumption DEF Options
<1> HIDE DEF i, g, d
<1> DEFINE b == Most(1, FirstSet(i.base, g.base, d.base))
           m == Most(b, FirstSet(i.max, g.max, d.max))
<1>2. b \in Nat /\ b >= 1 BY <1>1 DEF FirstSet, Most
<1>3. m \in Nat /\ m >= b
  <2> HIDE DEF b
  <2>1. FirstSet(i.max, g.max, d.max) \in Nat BY <1>1 DEF FirstSet
  <2> QED BY <1>2, <2>1 DEF Most
<1>4. /\ FirstSet(i.giveUp, g.giveUp, d.giveUp) \in Nat \cup {None}
      /\ FirstSet(i.attempts, g.attempts, None) \in Nat \cup {None}
  BY <1>1 DEF FirstSet
<1>5. policy = [base |-> b, max |-> m,
                giveUp |-> FirstSet(i.giveUp, g.giveUp, d.giveUp),
                attempts |-> FirstSet(i.attempts, g.attempts, None)]
  BY DEF policy, Resolve, i, g, d
<1> HIDE DEF b, m
<1> QED BY <1>2, <1>3, <1>4, <1>5

\* A word times a larger factor is larger, saturated or not.
LEMMA Saturates ==
    ASSUME NEW a \in Nat, NEW s \in Nat
    PROVE  /\ Multiplied(a, s) \in Nat
           /\ Multiplied(a, s) <= Multiplied(a, 2 * s)
<1>1. a * s \in Nat /\ a * (2 * s) = 2 * (a * s) OBVIOUS
<1>2. Word \in Nat BY WordAssumption
<1> QED BY <1>1, <1>2 DEF Multiplied, Least

\* One more attempt never shortens the backoff, whatever the delays.
LEMMA CapGrows ==
    ASSUME NEW p, p.base \in Nat, p.max \in Nat, NEW n \in Nat
    PROVE  BackoffCap(p, n) <= BackoffCap(p, n + 1)
<1> DEFINE s == Least(Most(n - 1, 0), MaxShift)
           t == Least(Most(n + 1 - 1, 0), MaxShift)
<1>1. MaxShift \in Nat BY WordAssumption
<1>2. s \in 0..MaxShift /\ (t = s \/ (t = s + 1 /\ t \in 0..MaxShift))
  BY <1>1 DEF Least, Most
<1> HIDE DEF s, t
<1>3. Shifted[s] \in Nat BY <1>2, ShiftedDoubles
<1>4. Shifted[t] = Shifted[s] \/ Shifted[t] = 2 * Shifted[s]
  <2>1. CASE t = s BY <2>1
  <2>2. CASE t = s + 1 /\ t \in 0..MaxShift
    <3>1. t - 1 = s /\ t # 0 BY <1>1, <1>2, <2>2
    <3> QED BY <2>2, <3>1, ShiftedDoubles
  <2> QED BY <1>2, <2>1, <2>2
<1>5. 2 * Shifted[s] \in Nat BY <1>3
<1>6. /\ Multiplied(p.base, Shifted[s]) \in Nat
      /\ Multiplied(p.base, Shifted[t]) \in Nat
      /\ Multiplied(p.base, Shifted[s]) <= Multiplied(p.base, Shifted[t])
  <2>1. /\ Multiplied(p.base, Shifted[s]) \in Nat
        /\ Multiplied(p.base, 2 * Shifted[s]) \in Nat
        /\ Multiplied(p.base, Shifted[s]) <= Multiplied(p.base, 2 * Shifted[s])
    BY <1>3, <1>5, Saturates
  <2>2. CASE Shifted[t] = Shifted[s] BY <2>1, <2>2
  <2>3. CASE Shifted[t] = 2 * Shifted[s] BY <2>1, <2>3
  <2> QED BY <1>4, <2>2, <2>3
<1>7. /\ BackoffCap(p, n) = Most(1, Least(p.max, Multiplied(p.base, Shifted[s])))
      /\ BackoffCap(p, n + 1) = Most(1, Least(p.max, Multiplied(p.base, Shifted[t])))
  BY DEF BackoffCap, s, t
<1> QED BY <1>6, <1>7 DEF Most, Least

\* No backoff is longer than the policy's maximum.
LEMMA CapBounded ==
    ASSUME NEW n \in Nat, NEW delay \in Backoff(policy, n)
    PROVE  delay \in Nat /\ delay <= policy.max
<1> DEFINE s == Least(Most(n - 1, 0), MaxShift)
<1>1. MaxShift \in Nat BY WordAssumption
<1>2. s \in 0..MaxShift BY <1>1 DEF Least, Most
<1> HIDE DEF s
<1>3. Shifted[s] \in Nat BY <1>2, ShiftedDoubles
<1>4. Multiplied(policy.base, Shifted[s]) \in Nat BY <1>3, PolicyTypes, Saturates
<1>5. delay \in 0..Most(1, Least(policy.max, Multiplied(policy.base, Shifted[s])))
  BY DEF Backoff, BackoffCap, s
<1> HIDE DEF policy
<1> QED BY <1>4, <1>5, PolicyTypes DEF Most, Least

\* The backoff never shrinks (Component!BackoffGrows), for every base and
\* maximum, however many attempts were made and wherever the shift and the
\* product saturate.
THEOREM BackoffGrowsTheorem == Spec => []BackoffGrows
<1>1. PaceInv => BackoffGrows
  <2> SUFFICES ASSUME PaceInv,
                      NEW x \in {y \in Transfers : transfer[y].pc = "pending"},
                      NEW base \in Bases, NEW n \in 0..MaxShift
               PROVE  LET p == [policy EXCEPT !.base = base,
                                              !.max = Most(base, policy.max)]
                      IN  BackoffCap(p, transfer[x].attempts + n)
                            <= BackoffCap(p, transfer[x].attempts + n + 1)
    BY DEF BackoffGrows
  <2> DEFINE m == Most(base, policy.max)
             p == [policy EXCEPT !.base = base, !.max = m]
             a == transfer[x].attempts + n
  <2>1. a \in Nat /\ a + 1 = transfer[x].attempts + n + 1
    BY WordAssumption DEF PaceInv, TypeOK, TransferTypes
  <2>2. base \in Nat /\ m \in Nat
    <3> HIDE DEF policy
    <3> QED BY ComponentAssumption, PolicyTypes DEF Most
  <2> HIDE DEF m
  <2>3. p.base \in Nat /\ p.max \in Nat
    <3> HIDE DEF policy
    <3> QED BY <2>2, PolicyTypes
  <2> HIDE DEF p, a
  <2>4. BackoffCap(p, a) <= BackoffCap(p, a + 1) BY <2>1, <2>3, CapGrows
  <2> QED BY <2>1, <2>4 DEF p, a, m
<1>2. Init => PaceInv BY PaceInit
<1>3. PaceInv /\ [Next]_vars => PaceInv' BY PaceStep
<1> QED BY <1>1, <1>2, <1>3, PTL DEF Spec

\* The bounds of one transfer's retry state.
Bounded(t) ==
    /\ policy.attempts # None => t.attempts + 1 <= Most(1, policy.attempts)
    /\ policy.giveUp # None /\ t.attempts > 0 =>
         t.gate < t.found + policy.giveUp + policy.max

\* A failure that is retried was within both budgets when its tick began.
LEMMA RetryBounded ==
    ASSUME NEW a \in Nat, NEW found \in Int, NEW now \in Int,
           ~GivesUp(policy, a, now - found), NEW delay \in Backoff(policy, a + 1)
    PROVE  /\ policy.attempts # None => a + 2 <= Most(1, policy.attempts)
           /\ policy.giveUp # None => now + delay < found + policy.giveUp + policy.max
<1>1. delay \in Nat /\ delay <= policy.max BY CapBounded
<1> HIDE DEF policy
<1>2. /\ policy.max \in Nat /\ policy.giveUp \in Nat \cup {None}
      /\ policy.attempts \in Nat \cup {None}
  BY PolicyTypes
<1>3. policy.attempts # None => a + 2 <= Most(1, policy.attempts)
  BY <1>2 DEF GivesUp, Most
<1>4. policy.giveUp # None => now - found < policy.giveUp BY <1>2 DEF GivesUp, None
<1> QED BY <1>1, <1>2, <1>3, <1>4 DEF None

LEMMA RetryStep == PaceInv /\ RetriesBounded /\ [Next]_vars => RetriesBounded'
<1> SUFFICES ASSUME PaceInv, RetriesBounded, [Next]_vars, NEW y \in Transfers
             PROVE  Bounded(transfer'[y])
  BY DEF RetriesBounded, Bounded
<1>1. TypeOK /\ Bounded(transfer[y]) BY DEF PaceInv, RetriesBounded, Bounded
<1>2. ASSUME transfer'[y].attempts = transfer[y].attempts,
             transfer'[y].gate = transfer[y].gate, transfer'[y].found = transfer[y].found
      PROVE  Bounded(transfer'[y])
  BY <1>1, <1>2 DEF Bounded
<1>3. CASE StartBuilt
  <2>1. CASE transfer'[y] = transfer[y] BY <1>2, <2>1
  <2>2. CASE transfer'[y] = [Fresh EXCEPT !.found = clock]
    <3>1. transfer'[y].attempts = 0 BY <2>2 DEF Fresh
    <3>2. policy.attempts \in Nat \cup {None} BY PolicyTypes
    <3> HIDE DEF policy
    <3>3. policy.attempts # None => 0 + 1 <= Most(1, policy.attempts)
      BY <3>2 DEF Most, None
    <3> QED BY <3>1, <3>3 DEF Bounded
  <2> QED BY <1>3, <2>1, <2>2 DEF StartBuilt
<1>4. ASSUME NEW i \in Ids, TickBegin(i) \/ TickEnd(i) \/ Exit(i)
      PROVE  Bounded(transfer'[y])
  <2>1. transfer[y] \in TransferTypes BY <1>1 DEF TypeOK
  <2>2. transfer'[y] = transfer[y] \/ transfer'[y] = [transfer[y] EXCEPT !.pc = "send"]
    BY <1>4 DEF TickBegin, TickEnd, Exit
  <2> QED BY <1>2, <2>1, <2>2 DEF TransferTypes
<1>5. ASSUME NEW x \in Transfers, Step(x) PROVE Bounded(transfer'[y])
  <2>1. transfer \in [Transfers -> TransferTypes] /\ transfer[y] \in TransferTypes
    BY <1>1 DEF TypeOK
  <2>2. CASE y # x
    <3>1. transfer'[y] = transfer[y]
      BY <1>5, <2>1, <2>2 DEF Step, Throttle, Write, Deliver, Fail, FailPermanently
    <3> QED BY <1>2, <3>1
  <2>3. CASE y = x /\ (Throttle(x) \/ Write(x) \/ Deliver(x) \/ FailPermanently(x))
    <3>1. /\ transfer'[y].attempts = transfer[y].attempts
          /\ transfer'[y].gate = transfer[y].gate /\ transfer'[y].found = transfer[y].found
      <4>1. CASE Throttle(x) BY <2>1, <2>3, <4>1 DEF Throttle, TransferTypes
      <4>2. CASE Write(x) BY <2>1, <2>3, <4>2 DEF Write, TransferTypes
      <4>3. CASE Deliver(x) \/ FailPermanently(x)
        BY <2>1, <2>3, <4>3 DEF Deliver, FailPermanently, TransferTypes
      <4> QED BY <2>3, <4>1, <4>2, <4>3
    <3> QED BY <1>2, <3>1
  <2>4. CASE y = x /\ Fail(x)
    <3> DEFINE now == task[Owner[x]].now
               a == transfer[x].attempts
               f == transfer[x].found
    <3>1. a \in Nat /\ f \in Int /\ now \in Int
      BY <1>1, <2>1, ComponentAssumption DEF TypeOK, TransferTypes
    <3>2. CASE transfer' = [transfer EXCEPT ![x].pc = "exhausted"]
      <4>1. transfer'[y] = [transfer[y] EXCEPT !.pc = "exhausted"] BY <2>1, <2>4, <3>2
      <4> QED BY <1>2, <2>1, <4>1 DEF TransferTypes
    <3>3. CASE /\ ~GivesUp(policy, a, now - f)
               /\ \E delay \in Backoff(policy, a + 1) :
                     transfer' = [transfer EXCEPT
                        ![x].pc = "pending", ![x].left = Chunks,
                        ![x].attempts = @ + 1, ![x].gate = now + delay]
      <4>1. PICK delay \in Backoff(policy, a + 1) :
                     transfer' = [transfer EXCEPT
                        ![x].pc = "pending", ![x].left = Chunks,
                        ![x].attempts = @ + 1, ![x].gate = now + delay]
        BY <3>3
      <4> HIDE DEF policy, now
      <4>2. /\ transfer'[y].attempts = a + 1 /\ transfer'[y].gate = now + delay
            /\ transfer'[y].found = f
        BY <2>1, <2>4, <4>1 DEF TransferTypes
      <4> HIDE DEF a, f
      <4>3. /\ policy.attempts # None => a + 2 <= Most(1, policy.attempts)
            /\ policy.giveUp # None => now + delay < f + policy.giveUp + policy.max
        BY <3>1, <3>3, RetryBounded
      <4>4. a + 1 + 1 = a + 2 BY <3>1
      <4> QED BY <4>2, <4>3, <4>4 DEF Bounded
    <3> QED BY <2>4, <3>2, <3>3 DEF Fail
  <2> QED BY <1>5, <2>2, <2>3, <2>4 DEF Step
<1>6. CASE transfer' = transfer BY <1>2, <1>6
<1> QED BY <1>3, <1>4, <1>5, <1>6 DEF Next, AppStep, Open, StartFatal, StartSkip,
          StartFails, Started, Drained, Shutdown, Elapse, Observe, vars

\* No transfer is retried beyond maxAttempts, nor later than the budget and one
\* backoff after its discovery (Component!RetriesBounded), for every policy
\* that the three levels of configuration resolve to.
THEOREM RetriesBoundedTheorem == Spec => []RetriesBounded
<1>1. Init => RetriesBounded
  <2> SUFFICES ASSUME Init, NEW x \in Transfers PROVE Bounded(transfer[x])
    BY DEF RetriesBounded, Bounded
  <2>1. transfer[x].attempts = 0 BY DEF Init, Fresh
  <2>2. policy.attempts \in Nat \cup {None} BY PolicyTypes
  <2> HIDE DEF policy
  <2>3. policy.attempts # None => 0 + 1 <= Most(1, policy.attempts) BY <2>2 DEF Most, None
  <2> QED BY <2>1, <2>3 DEF Bounded
<1>2. Init => PaceInv BY PaceInit
<1>3. PaceInv /\ [Next]_vars => PaceInv' BY PaceStep
<1>4. PaceInv /\ RetriesBounded /\ [Next]_vars => RetriesBounded' BY RetryStep
<1> QED BY <1>1, <1>2, <1>3, <1>4, PTL DEF Spec
=============================================================================
