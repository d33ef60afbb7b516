---------------------------- MODULE RetryPolicy ----------------------------
(***************************************************************************)
(* RetryPolicy of worker.rs: which policy is in force, how long a failed   *)
(* attempt backs off, and when an item is given up.  None stands for an    *)
(* absent option.  Multiplication saturates at the largest word, as u64    *)
(* does.                                                                   *)
(***************************************************************************)
EXTENDS Integers

CONSTANTS Word,      \* the largest unsigned word
          MaxShift   \* bound of the exponent

ASSUME WordAssumption == Word \in Nat \ {0} /\ MaxShift \in Nat

None == -1

Least(a, b) == IF a <= b THEN a ELSE b
Most(a, b) == IF a >= b THEN a ELSE b

\* The first of the instance's, the global and the built-in value that is set.
FirstSet(instance, global, default) ==
    IF instance # None THEN instance ELSE IF global # None THEN global ELSE default

\* RetryPolicy::resolve, field by field.
Resolve(instance, global, default) ==
    LET base == Most(1, FirstSet(instance.base, global.base, default.base))
    IN  [base |-> base,
         max |-> Most(base, FirstSet(instance.max, global.max, default.max)),
         giveUp |-> FirstSet(instance.giveUp, global.giveUp, default.giveUp),
         attempts |-> FirstSet(instance.attempts, global.attempts, None)]

\* u64::saturating_mul, and (mutant) the wrapping one.
Multiplied_Wrapping(a, b) == (a * b) % (Word + 1)
Multiplied(a, b) == Least(a * b, Word)

\* 1u64 << shift.
Shifted[k \in 0..MaxShift] == IF k = 0 THEN 1 ELSE 2 * Shifted[k - 1]

\* Upper end of the jitter of the attempts-th attempt.
BackoffCap(policy, attempts) ==
    LET shift == Least(Most(attempts - 1, 0), MaxShift)
    IN  Most(1, Least(policy.max, Multiplied(policy.base, Shifted[shift])))

\* backoff_ms: full jitter.
Backoff(policy, attempts) == 0..BackoffCap(policy, attempts)

\* (mutant: the cap is compared with the attempts before this one)
GivesUp_Late(policy, attempts, spent) ==
    \/ policy.attempts # None /\ attempts >= policy.attempts
    \/ policy.giveUp # None /\ spent >= policy.giveUp

\* decide, for an error that is not permanent: the attempt cap is reached, or
\* the time since discovery is spent.
GivesUp(policy, attempts, spent) ==
    \/ policy.attempts # None /\ attempts + 1 >= policy.attempts
    \/ policy.giveUp # None /\ spent >= policy.giveUp
=============================================================================
