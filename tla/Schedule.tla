------------------------------ MODULE Schedule ------------------------------
(***************************************************************************)
(* The schedule model: what a tick that read the clock at a given instant  *)
(* may claim, and when the run loop wakes for the next edge.  An instant   *)
(* is a number of 1..Horizon; 0 is None.  A cron expression is the set of  *)
(* instants at which it fires (croner and the time zone are external).     *)
(***************************************************************************)
EXTENDS Naturals

CONSTANTS Horizon,  \* bound: the last instant
          Fires,    \* cron: the expression's occurrences
          Opens,    \* window: those of `open`
          Closes,   \* window: those of `close`, {} if durationMins is set
          Duration  \* window: durationMins, 0 if `close` is set

Instants == 1 .. Horizon
None == 0

\* cron_from_cfg: an expression that never fires is refused.
ValidCron(fires) == fires # {}

\* window_from_cfg: so is a window with both or neither of close and
\* durationMins, and a duration of zero.  (The code accepts a `close` that
\* never fires and takes such a window for closed; it is not considered.)
ValidWindow(opens, closes, duration) ==
    ValidCron(opens) /\ (closes = {}) # (duration = 0)

ASSUME ScheduleAssumption ==
    /\ Horizon \in Nat \ {0} /\ Duration \in Nat
    /\ Fires \subseteq Instants /\ Opens \subseteq Instants
    /\ Closes \subseteq Instants
    /\ ValidCron(Fires) /\ ValidWindow(Opens, Closes, Duration)

Latest(S) == IF \E t \in S : \A u \in S : u <= t
             THEN CHOOSE t \in S : \A u \in S : u <= t ELSE None
Earliest(S) == IF \E t \in S : \A u \in S : t <= u
               THEN CHOOSE t \in S : \A u \in S : t <= u ELSE None

prev_fire(S, t) == Latest({u \in S : u <= t})
next_fire(S, t) == Earliest({u \in S : u > t})
next_fire_inclusive(S, t) == Earliest({u \in S : u >= t})

\* The close that is paired with an open.
close_after(open) == IF Duration > 0 THEN open + Duration
                     ELSE next_fire_inclusive(Closes, open)

\* window_state: the close of the window that is open at t, None if closed.
window_until(t) ==
    LET open == prev_fire(Opens, t)
        close == IF open = None THEN None ELSE close_after(open)
    IN  IF t < close THEN close ELSE None

\* Mutant: only a fire at this very instant counts.
fired_Now(now, last) == prev_fire(Fires, now) = now

\* A cron fire since the watermark; the first evaluation sets the baseline.
fired(now, last) == prev_fire(Fires, now) > (IF last = None THEN now ELSE last)

\* Admission: one batch, everything that is ready, the window's, or nothing.
admission(mode, now, last) ==
    CASE mode = "immediate" -> "batch"
      [] mode = "cron" -> IF fired(now, last) THEN "all" ELSE "none"
      [] mode = "window" -> IF window_until(now) # None THEN "window" ELSE "none"

\* The instant of the next edge, None when there is nothing to wake for.
next_wake(mode, now) ==
    CASE mode = "immediate" -> None
      [] mode = "cron" -> next_fire(Fires, now)
      [] mode = "window" -> IF window_until(now) # None THEN window_until(now)
                            ELSE next_fire_inclusive(Opens, now)
=============================================================================
