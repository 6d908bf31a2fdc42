------------------------------ MODULE Attempts ------------------------------
(***************************************************************************)
(* One call of withRetry, or of withTimeoutAndRetry: the attempts it makes,*)
(* the timer of each, the errors it retries and how long it waits between. *)
(* A timer ends the waiting, not the attempt: an attempt that was given up *)
(* goes on by itself and may still take effect.                            *)
(***************************************************************************)
EXTENDS Naturals

CONSTANTS
    MaxAttempts,
    InitialDelay,
    MaxDelay

ASSUME AttemptsAssumption ==
    /\ MaxAttempts \in Nat \ {0}
    /\ InitialDelay \in Nat \ {0}
    /\ MaxDelay \in Nat \ {0}

VARIABLES
    timed,       \* whether the call is a withTimeoutAndRetry
    call,        \* what the caller is waiting for, or its answer
    attempt,     \* the current attempt
    running,     \* attempts that have not ended, the abandoned ones included
    effects,     \* attempts that took effect
    seen,        \* how each attempt ended for the loop
    delay        \* the last delay between two attempts, 0 before the first

atVars == <<timed, call, attempt, running, effects, seen, delay>>

Numbers == 1 .. MaxAttempts

Errors == {"transient", "permanent"}

ATTypeOK ==
    /\ timed \in BOOLEAN
    /\ call \in {"attempt", "sleep", "returned", "threw"}
    /\ attempt \in Numbers
    /\ running \subseteq Numbers
    /\ effects \subseteq Numbers
    /\ seen \in [Numbers -> {"nothing", "success", "timeout"} \cup Errors]
    /\ delay \in 0 .. MaxDelay

ATInit ==
    /\ timed \in BOOLEAN
    /\ call = "attempt"
    /\ attempt = 1
    /\ running = {1}
    /\ effects = {}
    /\ seen = [n \in Numbers |-> "nothing"]
    /\ delay = 0

-----------------------------------------------------------------------------
\* Mutant: the jitter is added after the limit was applied.
BackoffThenJitter(n) ==
    LET base == InitialDelay * 2 ^ (n - 1)
    IN  {(IF base < MaxDelay THEN base ELSE MaxDelay) + jitter : jitter \in 0 .. (base - 1) \div 10}

\* calculateBackoff: up to a tenth is added before the limit is applied.
Backoff(n) ==
    LET base == InitialDelay * 2 ^ (n - 1)
    IN  {IF base + jitter < MaxDelay THEN base + jitter ELSE MaxDelay :
           jitter \in 0 .. (base - 1) \div 10}

\* Mutant: whatever failed is tried again.
ShouldRetryAlways(error) == TRUE

\* What the loop tries again.  The call with a timer has a predicate of its
\* own, which is not isTransientError unless the caller gives it.
ShouldRetry(error) == error = IF timed THEN "timeout" ELSE "transient"

\* The catch of the loop.
Caught(error) ==
    /\ seen' = [seen EXCEPT ![attempt] = error]
    /\ IF attempt = MaxAttempts \/ ~ShouldRetry(error)
       THEN call' = "threw" /\ UNCHANGED delay
       ELSE call' = "sleep" /\ delay' \in Backoff(attempt)

\* An attempt takes effect, awaited or not.
TakeEffect(n) ==
    /\ n \in running \ effects
    /\ effects' = effects \cup {n}
    /\ UNCHANGED <<timed, call, attempt, running, seen, delay>>

Awaited(n) == call = "attempt" /\ n = attempt

Succeed(n) ==
    /\ n \in running \cap effects
    /\ running' = running \ {n}
    /\ IF Awaited(n)
       THEN call' = "returned" /\ seen' = [seen EXCEPT ![n] = "success"]
       ELSE UNCHANGED <<call, seen>>
    /\ UNCHANGED <<timed, attempt, effects, delay>>

\* An attempt fails, before it took effect or, as when the answer is lost,
\* after it.
Fail(n, error) ==
    /\ n \in running
    /\ running' = running \ {n}
    /\ IF Awaited(n) THEN Caught(error) ELSE UNCHANGED <<call, seen, delay>>
    /\ UNCHANGED <<timed, attempt, effects>>

\* withTimeout: every attempt of a timed call has a timer of its own.
TimerFires ==
    /\ call = "attempt"
    /\ timed
    /\ Caught("timeout")
    /\ UNCHANGED <<timed, attempt, running, effects>>

\* The delay is over: the next attempt.
Wake ==
    /\ call = "sleep"
    /\ call' = "attempt"
    /\ attempt' = attempt + 1
    /\ running' = running \cup {attempt'}
    /\ UNCHANGED <<timed, effects, seen, delay>>

ATNext ==
    \/ TimerFires
    \/ Wake
    \/ \E n \in Numbers : TakeEffect(n) \/ Succeed(n) \/ \E error \in Errors : Fail(n, error)

ATSpec == ATInit /\ [][ATNext]_atVars

-----------------------------------------------------------------------------
(* Properties *)

\* What took effect is done a second time only when the first time was given
\* up on its timer, or reported a transient error after it took effect.
RepeatExcused ==
    \A n \in effects :
        (\E k \in effects : k > n) => seen[n] \in {"timeout", "transient"}

=============================================================================
