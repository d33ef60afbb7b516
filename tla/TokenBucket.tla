---------------------------- MODULE TokenBucket ----------------------------
(***************************************************************************)
(* TokenBucket of ratelimit.rs.  A bucket is its tokens, negative when in  *)
(* debt, and the instant of the last acquire.  Time is counted in units of *)
(* which Second make a second, a rate in bytes per unit, 0 for unlimited.  *)
(***************************************************************************)
EXTENDS Integers

CONSTANT Second

ASSUME SecondAssumption == Second \in Nat \ {0}

\* One second of rate.
Capacity(rate) == rate * Second

\* TokenBucket::new: the bucket starts full.
NewBucket(rate, now) == [tokens |-> Capacity(rate), last |-> now]

\* (mutant: an idle bucket goes on filling)
Refilled_Uncapped(b, rate, now) == b.tokens + (now - b.last) * rate

\* What has flowed in since the last acquire, up to the capacity.
Refilled(b, rate, now) ==
    LET tokens == b.tokens + (now - b.last) * rate
    IN  IF tokens <= Capacity(rate) THEN tokens ELSE Capacity(rate)

\* acquire: the bucket after n bytes are accounted for, debt and all ...
Acquired(b, rate, n, now) ==
    IF rate = 0 THEN b
    ELSE [tokens |-> Refilled(b, rate, now) - n, last |-> now]

\* ... and the bytes the caller has to wait for, deficit/rate units long.
Deficit(b, rate, n, now) ==
    IF rate = 0 \/ Refilled(b, rate, now) >= n THEN 0
    ELSE n - Refilled(b, rate, now)

\* A wait for `owed` bytes that began at `start` is over.
Waited(rate, owed, start, now) == (now - start) * rate >= owed
=============================================================================
