------------------------------ MODULE Backoff -------------------------------
(***************************************************************************)
(* The delay before a retransmission (internal/session/state.go).  A       *)
(* duration is an int64 of which MaxInt is the largest: doubling a larger  *)
(* one than half of it wraps around.                                       *)
(***************************************************************************)
EXTENDS Integers

CONSTANT MaxInt

ASSUME MaxIntAssumption == MaxInt \in Nat /\ MaxInt % 2 = 1

Doubled(delay) == IF 2 * delay > MaxInt THEN 2 * delay - 2 * (MaxInt + 1) ELSE 2 * delay

\* Mutant: a delay is doubled as long as it is below the maximum.
TooLongLate(delay, maximum) == delay >= maximum

\* Doubling it once more would exceed the maximum.
TooLong(delay, maximum) == delay >= maximum \/ delay > maximum \div 2

\* The early return of the loop is the value -1, which no delay has.
boundedBackoff(base, retry, maximum) ==
    LET delay[step \in 0..retry] ==
            IF step = 0 THEN base
            ELSE IF delay[step - 1] = -1 \/ TooLong(delay[step - 1], maximum) THEN -1
            ELSE Doubled(delay[step - 1])
    IN  IF delay[retry] = -1 \/ delay[retry] > maximum THEN maximum ELSE delay[retry]

\* Validate: 0 < base <= maximum.
Policies == {policy \in (1..MaxInt) \X (1..MaxInt) : policy[1] <= policy[2]}

-----------------------------------------------------------------------------

\* The base doubled with every retry, in exact arithmetic.
Exact(base, retry) ==
    LET exact[step \in 0..retry] == IF step = 0 THEN base ELSE 2 * exact[step - 1]
    IN  exact[retry]

\* initialBackoff and controlBackoff: for every valid policy the delay is the
\* base doubled with every retry, in exact arithmetic, and cut at the maximum;
\* it does not wrap around however large the maximum and the retry count.
Saturates(base, retry, maximum) ==
    boundedBackoff(base, retry, maximum) =
        IF Exact(base, retry) > maximum THEN maximum ELSE Exact(base, retry)
=============================================================================
