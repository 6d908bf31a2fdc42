--------------------------- MODULE CircuitBreaker ---------------------------
(***************************************************************************)
(* One circuit breaker and the calls that go through it.  Everything but   *)
(* the call itself is synchronous: a call that was let through comes back  *)
(* whenever it does, whatever state the breaker is in by then, and nothing *)
(* limits the calls that are let through while it is HALF_OPEN.            *)
(***************************************************************************)
EXTENDS Naturals

CONSTANTS
    Calls,               \* calls that may be in flight at once
    FailureThreshold,    \* failures in a row that open the circuit
    MaxCount             \* bound: beyond it failureCount and streak count no further

ASSUME CircuitBreakerAssumption ==
    FailureThreshold \in Nat \ {0} /\ MaxCount \in Nat /\ MaxCount >= FailureThreshold

VARIABLES
    circuit,         \* state
    failureCount,
    lastFailure,     \* whether resetTimeout has passed since lastFailureTime
    inFlight,        \* calls under way: whether the dependency was up at their start
    healthy,         \* whether the dependency is up
    streak           \* history: failures since the last success, or reset

cbVars == <<circuit, failureCount, lastFailure, inFlight, healthy, streak>>

CBTypeOK ==
    /\ circuit \in {"CLOSED", "OPEN", "HALF_OPEN"}
    /\ failureCount \in 0 .. MaxCount
    /\ lastFailure \in {"none", "recent", "elapsed"}
    /\ inFlight \in [Calls -> {"no", "sound", "doomed"}]
    /\ healthy \in BOOLEAN
    /\ streak \in 0 .. MaxCount

CBInit ==
    /\ circuit = "CLOSED"
    /\ failureCount = 0
    /\ lastFailure = "none"
    /\ inFlight = [c \in Calls |-> "no"]
    /\ healthy = TRUE
    /\ streak = 0

-----------------------------------------------------------------------------
OneMore(n) == IF n < MaxCount THEN n + 1 ELSE n

\* transitionIfNeeded, which getState calls as well as execute.
Current == IF circuit = "OPEN" /\ lastFailure = "elapsed" THEN "HALF_OPEN" ELSE circuit

GetState ==
    /\ circuit' = Current
    /\ UNCHANGED <<failureCount, lastFailure, inFlight, healthy, streak>>

\* execute, up to the call: only OPEN turns one away.
Execute(c) ==
    /\ inFlight[c] = "no"
    /\ Current # "OPEN"
    /\ circuit' = Current
    /\ inFlight' = [inFlight EXCEPT ![c] = IF healthy THEN "sound" ELSE "doomed"]
    /\ UNCHANGED <<failureCount, lastFailure, healthy, streak>>

\* Mutant: a success leaves the state alone.
AfterSuccessAsBefore(state) == state

\* Where a success leads.
AfterSuccess(state) == IF state = "HALF_OPEN" THEN "CLOSED" ELSE state

\* onSuccess
OnSuccess(c) ==
    /\ inFlight[c] = "sound"
    /\ healthy
    /\ circuit' = AfterSuccess(circuit)
    /\ failureCount' = IF circuit = "OPEN" THEN failureCount ELSE 0
    /\ lastFailure' = IF circuit = "HALF_OPEN" THEN "none" ELSE lastFailure
    /\ streak' = 0
    /\ inFlight' = [inFlight EXCEPT ![c] = "no"]
    /\ UNCHANGED healthy

\* Mutant: the threshold is passed one failure early.
AfterFailureEarly(state, count) ==
    IF state = "HALF_OPEN" \/ count + 1 >= FailureThreshold THEN "OPEN" ELSE state

\* Where a failure leads, given the count that includes it.
AfterFailure(state, count) ==
    IF state = "HALF_OPEN" \/ count >= FailureThreshold THEN "OPEN" ELSE state

\* onFailure: a call that began while the dependency was down, or that it
\* does not survive.
OnFailure(c) ==
    /\ inFlight[c] = "doomed" \/ (inFlight[c] = "sound" /\ ~healthy)
    /\ failureCount' = OneMore(failureCount)
    /\ lastFailure' = "recent"
    /\ circuit' = AfterFailure(circuit, OneMore(failureCount))
    /\ streak' = OneMore(streak)
    /\ inFlight' = [inFlight EXCEPT ![c] = "no"]
    /\ UNCHANGED healthy

\* resetTimeout has passed since the last failure.
Cool ==
    /\ lastFailure = "recent"
    /\ lastFailure' = "elapsed"
    /\ UNCHANGED <<circuit, failureCount, inFlight, healthy, streak>>

\* reset, and resetAllBreakers.
Reset ==
    /\ circuit' = "CLOSED"
    /\ failureCount' = 0
    /\ lastFailure' = "none"
    /\ streak' = 0
    /\ UNCHANGED <<inFlight, healthy>>

\* The dependency fails, or recovers.
HealthChanges ==
    /\ healthy' = ~healthy
    /\ UNCHANGED <<circuit, failureCount, lastFailure, inFlight, streak>>

CBNext ==
    \/ GetState
    \/ Cool
    \/ Reset
    \/ HealthChanges
    \/ \E c \in Calls : Execute(c) \/ OnSuccess(c) \/ OnFailure(c)

\* Time passes, there are always callers, and every call comes back.
CBFairness ==
    /\ WF_cbVars(Cool)
    /\ \A c \in Calls :
          /\ WF_cbVars(Execute(c))
          /\ WF_cbVars(OnSuccess(c))
          /\ WF_cbVars(OnFailure(c))

CBSpec == CBInit /\ [][CBNext]_cbVars /\ CBFairness

-----------------------------------------------------------------------------
(* Properties *)

\* The circuit is open or tested only after a run of failures as long as the
\* threshold, which no success interrupted, however late the results of old
\* calls arrive; and while it is CLOSED the count is the run that is going on.
CountIsStreak ==
    /\ circuit = "CLOSED" => failureCount = streak /\ streak < FailureThreshold
    /\ circuit # "CLOSED" => failureCount >= FailureThreshold
    /\ streak <= failureCount

\* A test only goes on while the last failure is resetTimeout ago: a call let
\* through before that fails while HALF_OPEN takes the circuit back to OPEN.
TestIsQuiet == circuit = "HALF_OPEN" => lastFailure = "elapsed"

\* What the state of the circuit says of the past is true: of the failures
\* that led to it, and of the time since the last of them.
CircuitSound == CountIsStreak /\ TestIsQuiet

\* When the dependency is up for good the circuit closes for good, whatever
\* failures of old calls still arrive.
RecoversInTheEnd == <>[]healthy => <>[](circuit = "CLOSED")

=============================================================================
