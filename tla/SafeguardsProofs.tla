-------------------------- MODULE SafeguardsProofs --------------------------
(***************************************************************************)
(* Proofs about the safeguards, for every threshold and limit and any      *)
(* number of calls, requests, attempts, signals and accounts.              *)
(***************************************************************************)
EXTENDS MCSafeguards, FiniteSetTheorems, TLAPS

-----------------------------------------------------------------------------
(* The circuit breaker *)

\* Counting up to the bound keeps the order of two counts, and one that has
\* reached the threshold stays there.
LEMMA CountsOnward ==
  ASSUME NEW n \in 0 .. MaxCount, NEW k \in 0 .. MaxCount
  PROVE  /\ OneMore(n) \in 0 .. MaxCount
         /\ n <= k => OneMore(n) <= OneMore(k)
         /\ n >= FailureThreshold => OneMore(n) >= FailureThreshold
         /\ n < FailureThreshold => OneMore(n) = n + 1
  BY CircuitBreakerAssumption DEF OneMore

\* The state of the breaker keeps its types: CBTypeOK.
LEMMA CBTypeStep ==
  ASSUME CBTypeOK, [CBNext]_cbVars
  PROVE  CBTypeOK'
<1>0. 0 \in 0 .. MaxCount
  BY CircuitBreakerAssumption
<1>1. ASSUME NEW c \in Calls, Execute(c)  PROVE CBTypeOK'
  BY <1>1 DEF CBTypeOK, Execute, Current
<1>2. ASSUME NEW c \in Calls, OnSuccess(c)  PROVE CBTypeOK'
  BY <1>0, <1>2 DEF CBTypeOK, OnSuccess, AfterSuccess
<1>3. ASSUME NEW c \in Calls, OnFailure(c)  PROVE CBTypeOK'
  <2>1. OneMore(failureCount) \in 0 .. MaxCount /\ OneMore(streak) \in 0 .. MaxCount
    BY CountsOnward DEF CBTypeOK
  <2> QED  BY <1>3, <2>1 DEF CBTypeOK, OnFailure, AfterFailure
<1>4. CASE GetState \/ Cool \/ Reset \/ HealthChanges \/ UNCHANGED cbVars
  BY <1>0, <1>4 DEF CBTypeOK, GetState, Cool, Reset, HealthChanges, Current, cbVars
<1> QED  BY <1>1, <1>2, <1>3, <1>4 DEF CBNext

\* A step keeps what the state of the circuit says of the past.
LEMMA CircuitStep ==
  ASSUME CBTypeOK, CircuitSound, [CBNext]_cbVars
  PROVE  CircuitSound'
<1>a. /\ failureCount \in 0 .. MaxCount /\ streak \in 0 .. MaxCount
      /\ circuit \in {"CLOSED", "OPEN", "HALF_OPEN"}
  BY DEF CBTypeOK
<1>b. /\ failureCount \in Nat /\ streak \in Nat
      /\ FailureThreshold \in Nat /\ FailureThreshold > 0
  BY <1>a, CircuitBreakerAssumption
<1>c. /\ circuit = "CLOSED" => failureCount = streak /\ streak < FailureThreshold
      /\ circuit # "CLOSED" => failureCount >= FailureThreshold
      /\ streak <= failureCount
      /\ circuit = "HALF_OPEN" => lastFailure = "elapsed"
  BY DEF CircuitSound, CountIsStreak, TestIsQuiet
<1>1. ASSUME NEW c \in Calls, Execute(c)  PROVE CircuitSound'
  <2>1. circuit' = Current /\ UNCHANGED <<failureCount, lastFailure, streak>>
    BY <1>1 DEF Execute
  <2> QED  BY <1>a, <1>c, <2>1 DEF CircuitSound, CountIsStreak, TestIsQuiet, Current
<1>2. ASSUME NEW c \in Calls, OnSuccess(c)  PROVE CircuitSound'
  <2>1. /\ circuit' = AfterSuccess(circuit)
        /\ failureCount' = IF circuit = "OPEN" THEN failureCount ELSE 0
        /\ streak' = 0
    BY <1>2 DEF OnSuccess
  <2> QED  BY <1>a, <1>b, <1>c, <2>1 DEF CircuitSound, CountIsStreak, TestIsQuiet, AfterSuccess
<1>3. ASSUME NEW c \in Calls, OnFailure(c)  PROVE CircuitSound'
  <2> DEFINE counted == OneMore(failureCount)
  <2>1. /\ counted \in 0 .. MaxCount /\ OneMore(streak) \in 0 .. MaxCount
        /\ OneMore(streak) <= counted
        /\ failureCount >= FailureThreshold => counted >= FailureThreshold
    BY <1>a, <1>c, CountsOnward
  <2>2. /\ circuit' = AfterFailure(circuit, counted)
        /\ failureCount' = counted
        /\ streak' = OneMore(streak)
    BY <1>3 DEF OnFailure
  <2>3. circuit = "CLOSED" => counted = OneMore(streak)
    BY <1>c
  <2> HIDE DEF counted
  <2>4. counted \in Nat /\ OneMore(streak) \in Nat
    BY <2>1, CircuitBreakerAssumption
  <2> QED  BY <1>a, <1>b, <1>c, <2>1, <2>2, <2>3, <2>4
           DEF CircuitSound, CountIsStreak, TestIsQuiet, AfterFailure
<1>4. CASE GetState \/ Cool \/ HealthChanges \/ UNCHANGED cbVars
  <2>1. /\ circuit' = Current \/ circuit' = circuit
        /\ UNCHANGED <<failureCount, streak>>
        /\ lastFailure' = lastFailure \/ (circuit' = circuit /\ lastFailure' = "elapsed")
    BY <1>4 DEF GetState, Cool, HealthChanges, cbVars
  <2> QED  BY <1>a, <1>c, <2>1 DEF CircuitSound, CountIsStreak, TestIsQuiet, Current
<1>5. CASE Reset
  BY <1>b, <1>5 DEF CircuitSound, CountIsStreak, TestIsQuiet, Reset
<1> QED  BY <1>1, <1>2, <1>3, <1>4, <1>5 DEF CBNext

\* The circuit is open or tested only after FailureThreshold failures that no
\* success interrupted, whatever the threshold and however many calls come
\* back late; and a test starts only when the last failure is long ago.
THEOREM Breaker == CBSpec => [](CBTypeOK /\ CircuitSound)
<1>0. 0 \in 0 .. MaxCount /\ 0 < FailureThreshold
  BY CircuitBreakerAssumption
<1>1. CBInit => CBTypeOK
  BY <1>0 DEF CBInit, CBTypeOK
<1>2. CBInit => CircuitSound
  BY <1>0 DEF CBInit, CircuitSound, CountIsStreak, TestIsQuiet
<1>3. CBTypeOK /\ CircuitSound /\ [CBNext]_cbVars => (CBTypeOK /\ CircuitSound)'
  BY CBTypeStep, CircuitStep
<1> QED  BY <1>1, <1>2, <1>3, PTL DEF CBSpec

-----------------------------------------------------------------------------
(* The rate limiter *)

\* The state of the limiter keeps its types: RLTypeOK.
LEMMA RLTypeStep ==
  ASSUME RLTypeOK, [RLNext]_rlVars
  PROVE  RLTypeOK'
<1>a. hits \in 0 .. Limit + 1 /\ losses \in 0 .. MaxLosses
  BY DEF RLTypeOK
<1>0. 0 \in 0 .. Limit + 1 /\ (losses < MaxLosses => losses + 1 \in 0 .. MaxLosses)
  BY <1>a, RateLimitAssumption
<1>1. Incremented \in 0 .. Limit + 1
  BY <1>a, RateLimitAssumption DEF Incremented
<1>2. ASSUME NEW a \in Arrivals, Arrive(a) \/ Count(a) \/ SetExpiry(a) \/ FallBack(a) \/ LoseCount(a)
      PROVE  RLTypeOK'
  BY <1>1, <1>2 DEF RLTypeOK, Arrive, Count, SetExpiry, FallBack, LoseCount, Move
<1>3. CASE KeyExpires \/ RedisLosesKey \/ ConnectionChanges \/ UNCHANGED rlVars
  BY <1>0, <1>3 DEF RLTypeOK, KeyExpires, RedisLosesKey, ConnectionChanges, Forget, rlVars
<1> QED  BY <1>2, <1>3 DEF RLNext

\* A step keeps a cause on record for every counter that does not expire.
LEMMA ImmortalKeyStep ==
  ASSUME RLTypeOK, NoImmortalKey, [RLNext]_rlVars
  PROVE  NoImmortalKey'
<1> USE RateLimitAssumption DEF RLTypeOK, NoImmortalKey, Move
<1>1. ASSUME NEW a \in Arrivals, Arrive(a)  PROVE NoImmortalKey'
  BY <1>1 DEF Arrive
<1>2. ASSUME NEW a \in Arrivals, Count(a)  PROVE NoImmortalKey'
  BY <1>2 DEF Count, Incremented, StartsWindow
<1>3. ASSUME NEW a \in Arrivals, SetExpiry(a)  PROVE NoImmortalKey'
  BY <1>3 DEF SetExpiry
<1>4. ASSUME NEW a \in Arrivals, FallBack(a)  PROVE NoImmortalKey'
  BY <1>4 DEF FallBack, AnotherExpires
<1>5. ASSUME NEW a \in Arrivals, LoseCount(a)  PROVE NoImmortalKey'
  BY <1>5 DEF LoseCount, AnotherExpires, Incremented
<1>6. CASE KeyExpires \/ RedisLosesKey \/ ConnectionChanges \/ UNCHANGED rlVars
  BY <1>6 DEF KeyExpires, RedisLosesKey, ConnectionChanges, Forget, rlVars
<1> QED  BY <1>1, <1>2, <1>3, <1>4, <1>5, <1>6 DEF RLNext

\* With any number of processes and requests, a counter that never expires is
\* left by a request that failed between INCR and PEXPIRE, and by nothing else.
THEOREM KeysExpire == RLSpec => [](RLTypeOK /\ NoImmortalKey)
<1>0. 0 \in 0 .. Limit + 1 /\ 0 \in 0 .. MaxLosses
  BY RateLimitAssumption
<1>1. RLInit => RLTypeOK /\ NoImmortalKey
  BY <1>0 DEF RLInit, RLTypeOK, NoImmortalKey
<1>2. RLTypeOK /\ NoImmortalKey /\ [RLNext]_rlVars => (RLTypeOK /\ NoImmortalKey)'
  BY RLTypeStep, ImmortalKeyStep
<1> QED  BY <1>1, <1>2, PTL DEF RLSpec

-----------------------------------------------------------------------------
(* Retries and timeouts *)

\* Attempts come one after the other, and each but the last was given up for
\* an error that is tried again.  RepeatExcused speaks of attempts that took
\* effect, whenever they did: those are not beyond the current attempt.
GivenUp(n) == seen[n] \in {"timeout", "transient"}

AttemptsOK ==
    /\ attempt \in Nat
    /\ running \cup effects \subseteq Numbers
    /\ \A n \in running \cup effects : n <= attempt
    /\ seen \in [Numbers -> {"nothing", "success", "timeout"} \cup Errors]
    /\ \A n \in Numbers : n < attempt => GivenUp(n)
    /\ call = "sleep" => GivenUp(attempt) /\ attempt < MaxAttempts
    /\ call = "attempt" => attempt \in Numbers

\* An error ends the call, or is on record as one that is tried again.
LEMMA CaughtRecords ==
  ASSUME AttemptsOK, call = "attempt", NEW error \in {"timeout"} \cup Errors, Caught(error)
  PROVE  /\ seen' = [seen EXCEPT ![attempt] = error]
         /\ call' = "threw" \/ (call' = "sleep" /\ attempt # MaxAttempts /\ error \in {"timeout", "transient"})
  BY DEF AttemptsOK, Caught, ShouldRetry

\* The first attempt is under way.
LEMMA AttemptsBegin ==
  ASSUME ATInit
  PROVE  AttemptsOK
<1>1. 1 \in Numbers
  BY AttemptsAssumption DEF Numbers
<1> QED  BY <1>1 DEF ATInit, AttemptsOK, GivenUp, Numbers

\* A step of the loop, of a timer or of an attempt keeps the attempts in order.
LEMMA AttemptsStep ==
  ASSUME AttemptsOK, [ATNext]_atVars
  PROVE  AttemptsOK'
<1>0. MaxAttempts \in Nat \ {0} /\ Numbers = 1 .. MaxAttempts
  BY AttemptsAssumption DEF Numbers
<1>1. ASSUME NEW n \in Numbers, TakeEffect(n)  PROVE AttemptsOK'
  BY <1>1 DEF AttemptsOK, TakeEffect, GivenUp
<1>2. ASSUME NEW n \in Numbers, Succeed(n)  PROVE AttemptsOK'
  <2>1. CASE Awaited(n)
    <3>1. /\ n = attempt /\ call' = "returned"
          /\ seen' = [seen EXCEPT ![n] = "success"]
          /\ running' \subseteq running /\ UNCHANGED <<attempt, effects>>
      BY <1>2, <2>1 DEF Succeed, Awaited
    <3> QED  BY <1>0, <3>1 DEF AttemptsOK, GivenUp
  <2>2. CASE ~Awaited(n)
    BY <1>2, <2>2 DEF Succeed, AttemptsOK, GivenUp
  <2> QED  BY <2>1, <2>2
<1>c. ASSUME NEW error \in {"timeout"} \cup Errors, call = "attempt", Caught(error),
             running' \subseteq running, UNCHANGED <<attempt, effects>>
      PROVE  AttemptsOK'
  <2>1. /\ seen' = [seen EXCEPT ![attempt] = error]
        /\ call' = "threw" \/ (call' = "sleep" /\ attempt # MaxAttempts /\ error \in {"timeout", "transient"})
    BY <1>c, CaughtRecords
  <2> QED  BY <1>0, <1>c, <2>1 DEF AttemptsOK, GivenUp
<1>3. ASSUME NEW n \in Numbers, NEW error \in Errors, Fail(n, error)  PROVE AttemptsOK'
  <2>1. CASE Awaited(n)
    BY <1>3, <2>1, <1>c DEF Fail, Awaited
  <2>2. CASE ~Awaited(n)
    BY <1>3, <2>2 DEF Fail, AttemptsOK, GivenUp
  <2> QED  BY <2>1, <2>2
<1>4. CASE TimerFires
  BY <1>4, <1>c DEF TimerFires
<1>5. CASE Wake
  <2>1. /\ call = "sleep" /\ call' = "attempt"
        /\ attempt' = attempt + 1
        /\ running' = running \cup {attempt + 1}
        /\ UNCHANGED <<effects, seen>>
    BY <1>5 DEF Wake
  <2> QED  BY <1>0, <2>1 DEF AttemptsOK, GivenUp
<1>6. CASE UNCHANGED atVars
  BY <1>6 DEF atVars, AttemptsOK, GivenUp
<1> QED  BY <1>1, <1>2, <1>3, <1>4, <1>5, <1>6 DEF ATNext

\* However many attempts there are and whatever becomes of those that were
\* given up: an effect is repeated only after a timeout or a transient error.
THEOREM Repeats == ATSpec => []RepeatExcused
<1>1. ATInit => AttemptsOK
  BY AttemptsBegin
<1>2. AttemptsOK => RepeatExcused
  BY DEF AttemptsOK, RepeatExcused, GivenUp, Numbers
<1> QED  BY <1>1, <1>2, AttemptsStep, PTL DEF ATSpec

-----------------------------------------------------------------------------
(* The shutdown *)

\* Nothing that is closed is still in use, but for a worker that could not be
\* closed.
AtRest == requests = 0 /\ ~taking /\ (job => "worker" \in failed)

\* A shutdown that waits for the worker or something later has seen the
\* server closed; one that waits for something later has seen the worker
\* closed, too, or fail to close.
ShutdownOK ==
    /\ phase \in [Signals -> Services \cup {"idle"}]
    /\ requests \in Nat
    /\ "server" \in closed \/ entry = "worker" => requests = 0
    /\ \A s \in Signals : phase[s] \in Services \ {"server"} =>
            ~taking /\ ("server" \in closed \/ entry = "worker")
    /\ \A s \in Signals : phase[s] = "server" => entry = "server"
    /\ (\E s \in Signals : phase[s] \in {"queue", "cache", "database"}) => AtRest
    /\ closed \cap {"queue", "cache", "database"} # {} \/ exit = "0" =>
            AtRest /\ ("server" \in closed \/ entry = "worker")
    /\ entry \in {"server", "worker"}

\* A shutdown whose wait for p is over keeps the order.
LEMMA ShutdownGoesOn ==
  ASSUME ShutdownOK, NEW s \in Signals, NEW p \in Services, phase[s] = p,
         GoesOn(s, p),
         p = "server" => requests = 0 /\ "server" \in closed',
         p = "worker" => (job => "worker" \in failed'),
         closed \subseteq closed', closed' \subseteq closed \cup {p}, failed \subseteq failed',
         UNCHANGED <<entry, requests, job>>
  PROVE  ShutdownOK'
<1>1. /\ phase' = [phase EXCEPT ![s] = After(p)]
      /\ taking' = (taking /\ p # "server")
      /\ exit' = IF p = "database" THEN "0" ELSE exit
  BY DEF GoesOn
<1>2. /\ After(p) \in Services \cup {"idle"}
      /\ After(p) # "server"
      /\ After(p) \in {"queue", "cache", "database"} => p # "server"
  BY DEF After, Services, ShutdownOK
<1>3. p \in {"worker", "queue", "cache", "database"} => ~taking /\ ("server" \in closed \/ entry = "worker")
  BY DEF ShutdownOK, Services
<1>4. p \in {"queue", "cache", "database"} => AtRest
  BY DEF ShutdownOK, Services
<1>5. AtRest => AtRest'
  BY <1>1 DEF AtRest
<1>6. p = "worker" => AtRest'
  BY <1>1, <1>3 DEF AtRest, ShutdownOK
<1>7. p # "server" => AtRest'
  BY <1>4, <1>5, <1>6 DEF Services
<1>8. p = "server" => ~taking'
  BY <1>1
<1> QED  BY <1>1, <1>2, <1>3, <1>5, <1>7, <1>8 DEF ShutdownOK, Services

\* A step of the process or of one of its shutdowns keeps the order.
LEMMA ShutdownStep ==
  ASSUME ShutdownOK, [SDNext]_sdVars
  PROVE  ShutdownOK'
<1>0. requests \in Nat
  BY DEF ShutdownOK
<1>1. CASE RequestArrives \/ RequestEnds
  <2>1. requests' \in Nat
    BY <1>0, <1>1 DEF RequestArrives, RequestEnds
  <2>2. UNCHANGED <<entry, phase, job, taking, closed, failed, exit>>
    BY <1>1 DEF RequestArrives, RequestEnds
  <2>3. ~("server" \in closed \/ entry = "worker")
    BY <1>0, <1>1 DEF RequestArrives, RequestEnds, ShutdownOK
  <2> QED  BY <2>1, <2>2, <2>3 DEF ShutdownOK, Services
<1>2. CASE JobStarts \/ JobEnds \/ TickStarts \/ TickEnds \/ UNCHANGED sdVars
  BY <1>2 DEF JobStarts, JobEnds, TickStarts, TickEnds, sdVars, ShutdownOK, AtRest, Services
<1>3. ASSUME NEW s \in Signals, Signal(s)  PROVE ShutdownOK'
  BY <1>3 DEF Signal, ShutdownOK, AtRest, Services
<1>4. ASSUME NEW s \in Signals, Closes(s)  PROVE ShutdownOK'
  <2>1. phase[s] \in Services
    BY <1>4 DEF Closes, ShutdownOK
  <2> QED  BY <1>4, <2>1, ShutdownGoesOn DEF Closes, CanClose
<1>5. ASSUME NEW s \in Signals, Throws(s)  PROVE ShutdownOK'
  <2>1. phase[s] \in Services /\ phase[s] # "server"
    BY <1>5 DEF Throws, ShutdownOK
  <2>2. CASE entry = "server"
    BY <1>5, <2>1, <2>2, ShutdownGoesOn DEF Throws
  <2>3. CASE entry # "server"
    BY <1>5, <2>3 DEF Throws, ShutdownOK, AtRest, Services
  <2> QED  BY <2>2, <2>3
<1>6. ASSUME NEW s \in Signals, ForceExit(s)  PROVE ShutdownOK'
  BY <1>6 DEF ForceExit, ShutdownOK, AtRest, Services
<1> QED  BY <1>1, <1>2, <1>3, <1>4, <1>5, <1>6 DEF SDNext

\* However many signals arrive: no queue, cache or database is closed, and no
\* process ends well, over the head of a request or a job.
THEOREM OrderlyShutdown == SDSpec => []WorkKeepsItsServices
<1>1. SDInit => ShutdownOK
  BY DEF SDInit, ShutdownOK, Services, AtRest
<1>2. ShutdownOK => WorkKeepsItsServices
  BY DEF ShutdownOK, AtRest, WorkKeepsItsServices
<1> QED  BY <1>1, <1>2, ShutdownStep, PTL DEF SDSpec

-----------------------------------------------------------------------------
(* Accounts *)

\* What is on the way to being written is still right to write, as far as the
\* role of the account decides, or updateUser has been at the account.
Right(w) ==
    /\ w.op = "create" => w.row.status = "ACTIVE"
    /\ w.op \in {"edit", "set"} => Exists(w.person)
    /\ w.op = "set" /\ w.field = "status" /\ w.value = "INACTIVE" =>
          w.person \in edited \/ users[w.person].role # "ADMIN"
    /\ w.op = "operate" /\ w.person # Nobody =>
          /\ Exists(w.person)
          /\ w.person \in edited \/ users[w.person].role = "OPERATOR"

DeskOK == \A r \in Requests : Right(desk[r])

ACTables ==
    /\ users \in [People -> Users \cup {Nobody}]
    /\ operator \in People \cup {Nobody}
    /\ tokens \in [People -> SUBSET Roles]
    /\ desk \in [Requests -> Writes \cup {Idle}]
    /\ edited \subseteq People
    /\ unchecked \in BOOLEAN

AccountsOK == ACTables /\ DeskOK /\ AccountsHold

\* What the request at a desk carries, by what it is.
LEMMA DeskTypes ==
  ASSUME NEW w \in Writes \cup {Idle}
  PROVE  /\ w.op = "create" => w.person \in People /\ w.row \in Users
         /\ w.op \in {"edit", "set"} =>
               /\ w.person \in People
               /\ \/ w.field = "email" /\ w.value \in Emails
                  \/ w.field = "role" /\ w.value \in Roles /\ w.op = "edit"
                  \/ w.field = "status" /\ w.value \in {"ACTIVE", "INACTIVE"}
         /\ w.op \in {"operate", "name"} => w.person \in People \cup {Nobody}
         /\ w.op = "login" => w.person \in People /\ w.row \in Users
  BY DEF Writes, Idle

\* A request that begins with something right to write.
LEMMA BeginsRight ==
  ASSUME AccountsOK, NEW r \in Requests, NEW w \in Writes, Begin(r, w), Right(w)
  PROVE  AccountsOK'
<1>1. desk' = [desk EXCEPT ![r] = w] /\ UNCHANGED <<users, operator, tokens, edited, unchecked>>
  BY DEF Begin
<1>2. ACTables'
  BY <1>1 DEF AccountsOK, ACTables
<1>3. \A x : Right(x) => Right(x)'
  BY <1>1 DEF Right, Exists
<1>4. ASSUME NEW q \in Requests  PROVE Right(desk[q])'
  <2>1. PICK x : x = desk'[q]
    OBVIOUS
  <2>2. Right(x)
    BY <1>1, <2>1 DEF AccountsOK, ACTables, DeskOK
  <2>3. Right(x)'
    BY <1>3, <2>2
  <2> QED  BY <2>1, <2>3 DEF Right, Exists
<1>5. AccountsHold'
  BY <1>1 DEF AccountsOK, AccountsHold, EmailsUnique, RolesExcused, Exists
<1> QED  BY <1>2, <1>4, <1>5 DEF AccountsOK, DeskOK

\* Rows stay, and accounts that updateUser has not been at keep their roles.
RolesStand ==
    /\ edited \subseteq edited'
    /\ \A p \in People :
          Exists(p) => Exists(p)' /\ (p \in edited' \/ users'[p].role = users[p].role)

\* What is on the way stays right when a request ends and the roles stand.
LEMMA DeskStays ==
  ASSUME AccountsOK, NEW r \in Requests, desk' = [desk EXCEPT ![r] = Idle], RolesStand
  PROVE  DeskOK'
<1>1. ASSUME NEW x \in Writes \cup {Idle}, Right(x)  PROVE Right(x)'
  <2>1. /\ x.op \in {"edit", "set"} => x.person \in People
        /\ x.op = "operate" => x.person \in People \cup {Nobody}
    BY DeskTypes
  <2> QED  BY <1>1, <2>1 DEF RolesStand, Right
<1>2. Right(Idle)
  BY DEF Right, Idle
<1>3. ASSUME NEW q \in Requests  PROVE Right(desk[q])'
  <2>1. PICK x : x = desk'[q]
    OBVIOUS
  <2>2. x \in Writes \cup {Idle} /\ Right(x)
    BY <1>2, <2>1 DEF AccountsOK, ACTables, DeskOK
  <2>3. Right(x)'
    BY <1>1, <2>2
  <2> QED  BY <2>1, <2>3 DEF Right, Exists
<1> QED  BY <1>3 DEF DeskOK

\* The insert keeps emails apart, and makes no inactive ADMIN.
LEMMA InsertStep ==
  ASSUME AccountsOK, NEW r \in Requests, Insert(r)
  PROVE  AccountsOK'
<1> DEFINE w == desk[r]
<1>1. /\ w.op = "create"
      /\ desk' = [desk EXCEPT ![r] = Idle]
      /\ users' = IF ~Exists(w.person) /\ EmailFree(w.person, w.row.email)
                  THEN [users EXCEPT ![w.person] = w.row] ELSE users
      /\ UNCHANGED <<operator, tokens, edited, unchecked>>
  BY DEF Insert, End
<1>2. w.person \in People /\ w.row \in Users /\ w.row.status = "ACTIVE" /\ w.row # Nobody
  BY <1>1, DeskTypes, NobodyAssumption DEF AccountsOK, ACTables, DeskOK, Right
<1>3. PICK p \in People, row \in Users : p = w.person /\ row = w.row
  BY <1>2
<1> HIDE DEF w
<1>4. ACTables'
  BY <1>1, <1>3 DEF AccountsOK, ACTables
<1>5. RolesStand
  BY <1>1, <1>3 DEF RolesStand, Exists, AccountsOK, ACTables
<1>6. DeskOK'
  BY <1>1, <1>5, DeskStays
<1>7. CASE ~Exists(p) /\ EmailFree(p, row.email)
  <2>1. \A q \in People : users'[q] = IF q = p THEN row ELSE users[q]
    BY <1>1, <1>3, <1>7 DEF AccountsOK, ACTables
  <2>2. EmailsUnique'
    BY <1>7, <2>1 DEF EmailsUnique, EmailFree, Exists, AccountsOK, AccountsHold
  <2>3. RolesExcused'
    BY <1>1, <1>2, <1>3, <1>7, <2>1 DEF RolesExcused, Exists, AccountsOK, AccountsHold, ACTables
  <2> QED  BY <1>4, <1>6, <2>2, <2>3 DEF AccountsOK, AccountsHold
<1>8. CASE ~(~Exists(p) /\ EmailFree(p, row.email))
  <2>1. UNCHANGED <<users, operator, edited, unchecked>>
    BY <1>1, <1>3, <1>8
  <2> QED  BY <1>4, <1>6, <2>1 DEF AccountsOK, AccountsHold, EmailsUnique, RolesExcused, Exists
<1> QED  BY <1>7, <1>8

\* The update by id keeps emails apart; it deactivates no ADMIN whose account
\* updateUser has not written.
LEMMA ChangeStep ==
  ASSUME AccountsOK, NEW r \in Requests, Change(r)
  PROVE  AccountsOK'
<1> DEFINE w == desk[r]
<1>1. /\ w.op \in {"edit", "set"}
      /\ desk' = [desk EXCEPT ![r] = Idle]
      /\ users' = IF w.field = "email" => EmailFree(w.person, w.value)
                  THEN [users EXCEPT ![w.person][w.field] = w.value] ELSE users
      /\ edited' = IF w.op = "edit" /\ w.field # "email" THEN edited \cup {w.person} ELSE edited
      /\ UNCHANGED <<operator, tokens, unchecked>>
  BY DEF Change, End
<1>2. /\ w.person \in People
      /\ \/ w.field = "email" /\ w.value \in Emails
         \/ w.field = "role" /\ w.value \in Roles /\ w.op = "edit"
         \/ w.field = "status" /\ w.value \in {"ACTIVE", "INACTIVE"}
      /\ Exists(w.person)
      /\ w.op = "set" /\ w.field = "status" /\ w.value = "INACTIVE" =>
            w.person \in edited \/ users[w.person].role # "ADMIN"
  BY <1>1, DeskTypes DEF AccountsOK, ACTables, DeskOK, Right
<1>3. PICK p, f, v, op : p \in People /\ p = w.person /\ f = w.field /\ v = w.value /\ op = w.op
  BY <1>2
<1> HIDE DEF w
<1>4. PICK row \in Users : row = users[p]
  BY <1>2, <1>3 DEF AccountsOK, ACTables, Exists
<1>5. PICK new : new = [row EXCEPT ![f] = v]
  OBVIOUS
<1>6. /\ new \in Users /\ new # Nobody
      /\ new.email = IF f = "email" THEN v ELSE row.email
      /\ new.role = IF f = "role" THEN v ELSE row.role
      /\ new.status = IF f = "status" THEN v ELSE row.status
  <2>1. \/ f = "email" /\ v \in Emails
        \/ f = "role" /\ v \in Roles
        \/ f = "status" /\ v \in {"ACTIVE", "INACTIVE"}
    BY <1>2, <1>3
  <2>2. /\ new \in Users
        /\ new.email = IF f = "email" THEN v ELSE row.email
        /\ new.role = IF f = "role" THEN v ELSE row.role
        /\ new.status = IF f = "status" THEN v ELSE row.status
    <3>1. CASE f = "email"  BY <1>5, <2>1, <3>1 DEF Users
    <3>2. CASE f = "role"  BY <1>5, <2>1, <3>2 DEF Users
    <3>3. CASE f = "status"  BY <1>5, <2>1, <3>3 DEF Users
    <3> QED  BY <2>1, <3>1, <3>2, <3>3
  <2> QED  BY <2>2, NobodyAssumption
<1>7. CASE f = "email" => EmailFree(p, v)
  <2>1. /\ users' = [users EXCEPT ![p] = new]
        /\ \A q \in People : users'[q] = IF q = p THEN new ELSE users[q]
    BY <1>1, <1>3, <1>4, <1>5, <1>7 DEF AccountsOK, ACTables
  <2>2. ACTables'
    BY <1>1, <1>3, <1>6, <2>1 DEF AccountsOK, ACTables
  <2>3. RolesStand
    BY <1>1, <1>2, <1>3, <1>4, <1>6, <2>1 DEF RolesStand, Exists
  <2>4. DeskOK'
    BY <1>1, <2>3, DeskStays
  <2>5. EmailsUnique'
    BY <1>2, <1>3, <1>4, <1>6, <1>7, <2>1 DEF EmailsUnique, EmailFree, Exists, AccountsOK, AccountsHold
  <2>6. RolesExcused'
    <3>1. ASSUME NEW q \in People \ edited', Exists(q)', users'[q].role = "ADMIN"
          PROVE  users'[q].status = "ACTIVE"
      BY <1>1, <1>2, <1>3, <1>4, <1>6, <2>1, <3>1
      DEF RolesExcused, Exists, AccountsOK, AccountsHold, Users
    <3>2. /\ operator' # Nobody => Exists(operator)'
          /\ operator' \notin edited' \cup {Nobody} => users'[operator'].role = "OPERATOR" \/ unchecked'
      BY <1>1, <2>3 DEF RolesStand, RolesExcused, AccountsOK, AccountsHold, ACTables, Exists
    <3> QED  BY <3>1, <3>2 DEF RolesExcused, Exists
  <2> QED  BY <2>2, <2>4, <2>5, <2>6 DEF AccountsOK, AccountsHold
<1>8. CASE ~(f = "email" => EmailFree(p, v))
  <2>1. UNCHANGED <<users, operator, tokens, edited, unchecked>>
    BY <1>1, <1>3, <1>8
  <2>2. DeskOK'
    BY <1>1, <2>1, DeskStays DEF RolesStand, Exists
  <2>3. ACTables'
    BY <1>1, <2>1 DEF AccountsOK, ACTables
  <2> QED  BY <2>1, <2>2, <2>3 DEF AccountsOK, AccountsHold, EmailsUnique, RolesExcused, Exists
<1> QED  BY <1>7, <1>8

\* The update of the operator by assignOperator and removeOperator.
LEMMA OperateStep ==
  ASSUME AccountsOK, NEW r \in Requests, Operate(r)
  PROVE  AccountsOK'
<1> DEFINE w == desk[r]
<1>1. /\ w.op = "operate"
      /\ desk' = [desk EXCEPT ![r] = Idle]
      /\ operator' = w.person /\ unchecked' = FALSE
      /\ UNCHANGED <<users, tokens, edited>>
  BY DEF Operate, End
<1>2. /\ w.person \in People \cup {Nobody}
      /\ w.person # Nobody => /\ Exists(w.person)
                              /\ w.person \in edited \/ users[w.person].role = "OPERATOR"
  BY <1>1, DeskTypes DEF AccountsOK, ACTables, DeskOK, Right
<1> HIDE DEF w
<1>3. DeskOK'
  BY <1>1, DeskStays DEF RolesStand, Exists
<1>4. ACTables'
  BY <1>1, <1>2 DEF AccountsOK, ACTables
<1> QED  BY <1>1, <1>2, <1>3, <1>4 DEF AccountsOK, AccountsHold, EmailsUnique, RolesExcused, Exists

\* The operator as a creation or an update of the place names it: an account
\* there is, of any role.
LEMMA NameStep ==
  ASSUME AccountsOK, NEW r \in Requests, NameOperator(r)
  PROVE  AccountsOK'
<1>1. PICK p : p = desk[r].person
  OBVIOUS
<1>2. /\ desk[r].op = "name"
      /\ desk' = [desk EXCEPT ![r] = Idle]
      /\ \/ (p = Nobody \/ Exists(p)) /\ operator' = p /\ unchecked' = TRUE
         \/ UNCHANGED <<operator, unchecked>>
      /\ UNCHANGED <<users, tokens, edited>>
  BY <1>1 DEF NameOperator, RefersToUser, End
<1>3. p \in People \cup {Nobody}
  BY <1>1, <1>2, DeskTypes DEF AccountsOK, ACTables
<1>4. DeskOK'
  BY <1>2, DeskStays DEF RolesStand, Exists
<1>5. ACTables'
  BY <1>2, <1>3 DEF AccountsOK, ACTables
<1> QED  BY <1>2, <1>4, <1>5 DEF AccountsOK, AccountsHold, EmailsUnique, RolesExcused, Exists

\* Tokens come and go without the accounts.
LEMMA TokenStep ==
  ASSUME AccountsOK,
         \/ \E r \in Requests : IssueToken(r)
         \/ \E p \in People, role \in Roles : TokenExpires(p, role)
  PROVE  AccountsOK'
<1>1. ASSUME NEW r \in Requests, IssueToken(r)  PROVE AccountsOK'
  <2>1. /\ desk[r].op = "login" /\ desk' = [desk EXCEPT ![r] = Idle]
        /\ UNCHANGED <<users, operator, edited, unchecked>>
    BY <1>1 DEF IssueToken, End
  <2>2. desk[r].person \in People /\ desk[r].row.role \in Roles
    BY <2>1, DeskTypes DEF AccountsOK, ACTables, Users
  <2>3. ACTables'
    BY <1>1, <2>1, <2>2 DEF IssueToken, AccountsOK, ACTables
  <2>4. DeskOK'
    BY <2>1, DeskStays DEF RolesStand, Exists
  <2> QED  BY <2>1, <2>3, <2>4 DEF AccountsOK, AccountsHold, EmailsUnique, RolesExcused, Exists
<1>2. ASSUME NEW p \in People, NEW role \in Roles, TokenExpires(p, role)  PROVE AccountsOK'
  BY <1>2 DEF TokenExpires, AccountsOK, ACTables, DeskOK, Right, AccountsHold, EmailsUnique,
              RolesExcused, Exists
<1> QED  BY <1>1, <1>2

\* A request that begins has something right to write.
LEMMA BeginStep ==
  ASSUME AccountsOK, NEW r \in Requests, NEW p \in People,
         \/ BeginLogin(r, p)
         \/ BeginAssignOperator(r, p)
         \/ BeginRemoveOperator(r)
         \/ \E email \in Emails :
               \/ BeginProfile(r, p, email)
               \/ BeginEdit(r, p, "email", email)
               \/ \E role \in Roles : BeginCreate(r, p, email, role)
         \/ \E role \in Roles : BeginEdit(r, p, "role", role)
         \/ \E status \in {"ACTIVE", "INACTIVE"} :
               BeginStatus(r, p, status) \/ BeginEdit(r, p, "status", status)
  PROVE  AccountsOK'
<1>1. CASE BeginLogin(r, p)
  <2>1. [op |-> "login", person |-> p, row |-> users[p]] \in Writes
    BY <1>1 DEF BeginLogin, Writes, Exists, AccountsOK, ACTables
  <2>2. Right([op |-> "login", person |-> p, row |-> users[p]])
    BY DEF Right
  <2> QED  BY <1>1, <2>1, <2>2, BeginsRight DEF BeginLogin
<1>2. CASE BeginAssignOperator(r, p)
  <2>1. [op |-> "operate", person |-> p] \in Writes
    BY DEF Writes
  <2>2. Right([op |-> "operate", person |-> p])
    BY <1>2 DEF Right, BeginAssignOperator
  <2> QED  BY <1>2, <2>1, <2>2, BeginsRight DEF BeginAssignOperator, BeginChange
<1>3. CASE BeginRemoveOperator(r)
  <2>1. [op |-> "operate", person |-> Nobody] \in Writes
    BY DEF Writes
  <2>2. Right([op |-> "operate", person |-> Nobody])
    BY DEF Right
  <2> QED  BY <1>3, <2>1, <2>2, BeginsRight DEF BeginRemoveOperator, BeginChange
<1>4. ASSUME NEW email \in Emails, BeginProfile(r, p, email)  PROVE AccountsOK'
  <2>1. [op |-> "set", person |-> p, field |-> "email", value |-> email] \in Writes
    BY DEF Writes
  <2>2. Right([op |-> "set", person |-> p, field |-> "email", value |-> email])
    BY <1>4 DEF Right, BeginProfile
  <2> QED  BY <1>4, <2>1, <2>2, BeginsRight DEF BeginProfile, BeginChange
<1>5. ASSUME NEW f, NEW v, BeginEdit(r, p, f, v),
             \/ f = "email" /\ v \in Emails
             \/ f = "role" /\ v \in Roles
             \/ f = "status" /\ v \in {"ACTIVE", "INACTIVE"}
      PROVE  AccountsOK'
  <2>1. [op |-> "edit", person |-> p, field |-> f, value |-> v] \in Writes
    BY <1>5 DEF Writes
  <2>2. Right([op |-> "edit", person |-> p, field |-> f, value |-> v])
    BY <1>5 DEF Right, BeginEdit
  <2> QED  BY <1>5, <2>1, <2>2, BeginsRight DEF BeginEdit, BeginChange
<1>6. ASSUME NEW email \in Emails, NEW role \in Roles, BeginCreate(r, p, email, role)
      PROVE  AccountsOK'
  <2> DEFINE row == [email |-> email, role |-> role, status |-> "ACTIVE"]
             w == [op |-> "create", person |-> p, row |-> row]
  <2>1. w \in Writes
    BY DEF Writes, Users
  <2>2. Right(w)
    BY DEF Right
  <2> QED  BY <1>6, <2>1, <2>2, BeginsRight DEF BeginCreate, BeginChange
<1>7. ASSUME NEW status \in {"ACTIVE", "INACTIVE"}, BeginStatus(r, p, status)
      PROVE  AccountsOK'
  <2>1. [op |-> "set", person |-> p, field |-> "status", value |-> status] \in Writes
    BY DEF Writes
  <2>2. Right([op |-> "set", person |-> p, field |-> "status", value |-> status])
    BY <1>7 DEF Right, BeginStatus, MayDeactivate
  <2> QED  BY <1>7, <2>1, <2>2, BeginsRight DEF BeginStatus, BeginChange
<1> QED  BY <1>1, <1>2, <1>3, <1>4, <1>5, <1>6, <1>7

\* A request that is to name an operator may write anybody.
LEMMA BeginNameStep ==
  ASSUME AccountsOK, NEW r \in Requests, NEW p \in People \cup {Nobody}, BeginNameOperator(r, p)
  PROVE  AccountsOK'
<1>1. [op |-> "name", person |-> p] \in Writes
  BY DEF Writes
<1>2. Right([op |-> "name", person |-> p])
  BY DEF Right
<1> QED  BY <1>1, <1>2, BeginsRight DEF BeginNameOperator, BeginChange

\* What the account services rely on holds at first, with one administrator.
LEMMA AccountsBegin ==
  ASSUME ACInit
  PROVE  AccountsOK
<1>1. PICK e \in Emails :
         users = [p \in People |-> IF p = FirstAdmin
                                   THEN [email |-> e, role |-> "ADMIN", status |-> "ACTIVE"]
                                   ELSE Nobody]
  BY DEF ACInit
<1>2. [email |-> e, role |-> "ADMIN", status |-> "ACTIVE"] \in Users
  BY DEF Users, Roles
<1>3. ACTables
  BY <1>1, <1>2 DEF ACInit, ACTables
<1>4. Right(Idle)
  BY DEF Right, Idle
<1>5. DeskOK
  BY <1>4 DEF ACInit, DeskOK
<1>6. AccountsHold
  BY <1>1 DEF ACInit, AccountsHold, EmailsUnique, RolesExcused, Exists
<1> QED  BY <1>3, <1>5, <1>6 DEF AccountsOK

\* A step of a request, or of time, keeps what the account services rely on.
LEMMA AccountsStep ==
  ASSUME AccountsOK, [ACNext]_acVars
  PROVE  AccountsOK'
<1>1. CASE UNCHANGED acVars
  BY <1>1 DEF acVars, AccountsOK, ACTables, DeskOK, Right, AccountsHold, EmailsUnique,
              RolesExcused, Exists
<1>2. CASE ACNext
  BY <1>2, BeginStep, BeginNameStep, InsertStep, ChangeStep, OperateStep, NameStep, TokenStep,
     AccountsAssumption DEF ACNext
<1> QED  BY <1>1, <1>2

\* Everything the account services rely on, invariant: AccountsOK.
LEMMA AccountsInvariance == ACSpec => []AccountsOK
  BY AccountsBegin, AccountsStep, PTL DEF ACSpec

\* However many administrators work at once: no two accounts share an email, no
\* ADMIN is deactivated but where updateUser has written the account, a place
\* is operated by no account that does not exist, and by one that is no OPERATOR
\* only where updateUser wrote it or a creation or an update of the place named
\* it.
THEOREM AccountPromises == ACSpec => []AccountsHold
  BY AccountsInvariance, PTL DEF AccountsOK

\* Each list shows exactly what the guard of a row lets open, whoever asks,
\* whatever has become of the accounts since the token was issued.
THEOREM ListsAndGuards == ACSpec => []ListsMatchGuards
<1>1. AccountsOK => ListsMatchGuards
  BY DEF AccountsOK, ACTables, Roles, Staff, ListsMatchGuards, ListsPlace, MayOpenPlace,
         ListsAssignment, MayOpenAssignment, ListsIncident, MayOpenIncident
<1> QED  BY <1>1, AccountsInvariance, PTL

-----------------------------------------------------------------------------
(* The types *)

\* A power of two is a natural number: it is how many subsets a set has.
LEMMA PowersOfTwo ==
  ASSUME NEW n \in Nat
  PROVE  2 ^ n \in Nat
<1>1. IsFiniteSet(1 .. n) /\ Cardinality(1 .. n) = n
  BY FS_Interval
<1>2. IsFiniteSet(SUBSET (1 .. n)) /\ Cardinality(SUBSET (1 .. n)) = 2 ^ n
  BY <1>1, FS_Subset, FS_SUBSET
<1> QED  BY <1>2, FS_CardinalityType

\* A delay is within the limit, whatever the jitter.
LEMMA BackoffBounded ==
  ASSUME NEW n \in Numbers
  PROVE  Backoff(n) \subseteq 0 .. MaxDelay
<1>1. n \in Nat \ {0} /\ n - 1 \in Nat /\ InitialDelay \in Nat /\ MaxDelay \in Nat
  BY AttemptsAssumption DEF Numbers
<1> DEFINE base == InitialDelay * 2 ^ (n - 1)
           most == (base - 1) \div 10
<1>2. PICK power \in Nat : power = 2 ^ (n - 1)
  BY <1>1, PowersOfTwo
<1>3. base \in Nat
  BY <1>1, <1>2
<1> HIDE DEF base
<1>4. ASSUME NEW jitter \in 0 .. most
      PROVE  (IF base + jitter < MaxDelay THEN base + jitter ELSE MaxDelay) \in 0 .. MaxDelay
  <2>1. most \in Int
    BY <1>3
  <2> HIDE DEF most
  <2>2. jitter \in Nat
    BY <2>1
  <2> QED  BY <1>1, <1>3, <2>2
<1> QED  BY <1>4 DEF Backoff, base

\* A call keeps its types: the attempts are numbered up to the last, and the
\* delays stay within the limit.
LEMMA ATTypeStep ==
  ASSUME AttemptsOK, ATTypeOK, [ATNext]_atVars
  PROVE  ATTypeOK'
<1>0. MaxAttempts \in Nat \ {0} /\ Numbers = 1 .. MaxAttempts
  BY AttemptsAssumption DEF Numbers
<1>1. ASSUME NEW error \in {"timeout"} \cup Errors, Caught(error),
             UNCHANGED <<timed, attempt, effects>>, running' \subseteq running
      PROVE  ATTypeOK'
  <2>1. Backoff(attempt) \subseteq 0 .. MaxDelay
    BY BackoffBounded DEF ATTypeOK
  <2>2. delay' \in 0 .. MaxDelay
    BY <1>1, <2>1 DEF Caught, ATTypeOK
  <2>3. call' \in {"sleep", "threw"} /\ seen' = [seen EXCEPT ![attempt] = error]
    BY <1>1 DEF Caught
  <2> QED  BY <1>1, <2>2, <2>3 DEF ATTypeOK
<1>2. ASSUME NEW n \in Numbers, TakeEffect(n)  PROVE ATTypeOK'
  BY <1>2 DEF TakeEffect, ATTypeOK
<1>3. ASSUME NEW n \in Numbers, Succeed(n)  PROVE ATTypeOK'
  BY <1>3 DEF Succeed, ATTypeOK
<1>4. ASSUME NEW n \in Numbers, NEW error \in Errors, Fail(n, error)  PROVE ATTypeOK'
  <2>1. CASE Awaited(n)
    BY <1>1, <1>4, <2>1 DEF Fail
  <2>2. CASE ~Awaited(n)
    BY <1>4, <2>2 DEF Fail, ATTypeOK
  <2> QED  BY <2>1, <2>2
<1>5. CASE TimerFires
  BY <1>1, <1>5 DEF TimerFires
<1>6. CASE Wake
  <2>1. attempt + 1 \in Numbers
    BY <1>0, <1>6 DEF Wake, AttemptsOK, ATTypeOK
  <2> QED  BY <1>6, <2>1 DEF Wake, ATTypeOK
<1>7. CASE UNCHANGED atVars
  BY <1>7 DEF atVars, ATTypeOK
<1> QED  BY <1>2, <1>3, <1>4, <1>5, <1>6, <1>7 DEF ATNext

\* The process keeps its types.
LEMMA SDTypeStep ==
  ASSUME SDTypeOK, [SDNext]_sdVars
  PROVE  SDTypeOK'
<1>0. requests \in 0 .. MaxRequests /\ MaxRequests \in Nat
  BY ShutdownAssumption DEF SDTypeOK
<1>1. CASE RequestArrives \/ RequestEnds
  <2>1. requests' \in 0 .. MaxRequests
    BY <1>0, <1>1 DEF RequestArrives, RequestEnds
  <2> QED  BY <1>1, <2>1 DEF RequestArrives, RequestEnds, SDTypeOK
<1>2. CASE JobStarts \/ JobEnds \/ TickStarts \/ TickEnds \/ UNCHANGED sdVars
  BY <1>2 DEF JobStarts, JobEnds, TickStarts, TickEnds, sdVars, SDTypeOK
<1>3. ASSUME NEW s \in Signals, Signal(s)  PROVE SDTypeOK'
  BY <1>3 DEF Signal, SDTypeOK, Services
<1>4. ASSUME NEW s \in Signals, NEW p \in Services, GoesOn(s, p),
             UNCHANGED <<entry, requests, job, tick>>,
             closed' \subseteq Services, failed' \subseteq Services
      PROVE  SDTypeOK'
  <2>1. After(p) \in Services \cup {"idle"}
    BY DEF After, Services
  <2> QED  BY <1>4, <2>1 DEF GoesOn, SDTypeOK
<1>5. ASSUME NEW s \in Signals, Closes(s)  PROVE SDTypeOK'
  BY <1>4, <1>5 DEF Closes, SDTypeOK
<1>6. ASSUME NEW s \in Signals, Throws(s)  PROVE SDTypeOK'
  <2>1. phase[s] \in Services /\ failed' \subseteq Services
    BY <1>6 DEF Throws, SDTypeOK
  <2>2. CASE entry = "server"
    BY <1>4, <1>6, <2>1, <2>2 DEF Throws, SDTypeOK
  <2>3. CASE entry # "server"
    BY <1>6, <2>1, <2>3 DEF Throws, SDTypeOK
  <2> QED  BY <2>2, <2>3
<1>7. ASSUME NEW s \in Signals, ForceExit(s)  PROVE SDTypeOK'
  BY <1>7 DEF ForceExit, SDTypeOK
<1> QED  BY <1>1, <1>2, <1>3, <1>5, <1>6, <1>7 DEF SDNext

\* The accounts keep their types: the tables do, and the bound is kept.
LEMMA ChangesBounded ==
  ASSUME changes \in 0 .. MaxChanges, [ACNext]_acVars
  PROVE  changes' \in 0 .. MaxChanges
<1> DEFINE Counted == changes' = changes \/ (changes < MaxChanges /\ changes' = changes + 1)
<1>1. ASSUME NEW r \in Requests,
             Insert(r) \/ Change(r) \/ Operate(r) \/ NameOperator(r) \/ IssueToken(r)
      PROVE  Counted
  BY <1>1 DEF Insert, Change, Operate, NameOperator, IssueToken, End
<1>2. ASSUME NEW r \in Requests,
             \/ BeginRemoveOperator(r)
             \/ \E p \in People \cup {Nobody} : BeginNameOperator(r, p)
             \/ \E p \in People : BeginLogin(r, p) \/ BeginAssignOperator(r, p)
      PROVE  Counted
  BY <1>2 DEF BeginRemoveOperator, BeginNameOperator, BeginLogin, BeginAssignOperator, BeginChange
<1>3. ASSUME NEW r \in Requests, NEW p \in People, NEW email \in Emails,
             \/ BeginProfile(r, p, email)
             \/ BeginEdit(r, p, "email", email)
             \/ \E role \in Roles : BeginCreate(r, p, email, role)
      PROVE  Counted
  BY <1>3 DEF BeginProfile, BeginEdit, BeginCreate, BeginChange
<1>4. ASSUME NEW r \in Requests, NEW p \in People,
             \/ \E role \in Roles : BeginEdit(r, p, "role", role)
             \/ \E status \in {"ACTIVE", "INACTIVE"} :
                   BeginStatus(r, p, status) \/ BeginEdit(r, p, "status", status)
      PROVE  Counted
  BY <1>4 DEF BeginStatus, BeginEdit, BeginChange
<1>5. ASSUME UNCHANGED acVars \/ \E p \in People, role \in Roles : TokenExpires(p, role)
      PROVE  Counted
  BY <1>5 DEF acVars, TokenExpires
<1>6. Counted
  <2> HIDE DEF Counted
  <2> QED  BY <1>1, <1>2, <1>3, <1>4, <1>5 DEF ACNext
<1> QED  BY <1>6, AccountsAssumption

\* The types of all safeguards, and what they rest on.
AllTyped ==
    /\ CBTypeOK /\ RLTypeOK /\ SDTypeOK
    /\ ATTypeOK /\ AttemptsOK
    /\ AccountsOK /\ changes \in 0 .. MaxChanges

\* Whatever the safeguard and its bounds, its state keeps its types.
THEOREM SafeguardsTyped == Spec => []SafeguardsTypeOK
<1>1. Init => AllTyped
  <2> SUFFICES ASSUME Init  PROVE AllTyped
    OBVIOUS
  <2>1. /\ 0 \in 0 .. MaxCount /\ 0 \in 0 .. Limit + 1 /\ 0 \in 0 .. MaxLosses
        /\ 0 \in 0 .. MaxDelay /\ 0 \in 0 .. MaxRequests /\ 0 \in 0 .. MaxChanges
        /\ 1 \in Numbers
    BY CircuitBreakerAssumption, RateLimitAssumption, AttemptsAssumption, ShutdownAssumption,
       AccountsAssumption DEF Numbers
  <2>2. CBTypeOK /\ RLTypeOK /\ ATTypeOK
    BY <2>1 DEF Init, CBInit, CBTypeOK, RLInit, RLTypeOK, ATInit, ATTypeOK
  <2>3. SDTypeOK
    BY <2>1 DEF Init, SDInit, SDTypeOK
  <2>4. AttemptsOK /\ AccountsOK
    BY AttemptsBegin, AccountsBegin DEF Init
  <2>5. changes \in 0 .. MaxChanges
    BY <2>1 DEF Init, ACInit
  <2> QED  BY <2>2, <2>3, <2>4, <2>5 DEF AllTyped
<1>2. AllTyped /\ [Next]_<<safeguard, cbVars, rlVars, atVars, sdVars, acVars>> => AllTyped'
  <2> SUFFICES ASSUME AllTyped, [Next]_<<safeguard, cbVars, rlVars, atVars, sdVars, acVars>>
               PROVE  AllTyped'
    OBVIOUS
  <2>1. /\ [CBNext]_cbVars /\ [RLNext]_rlVars /\ [ATNext]_atVars /\ [SDNext]_sdVars
        /\ [ACNext]_acVars
    BY DEF Next
  <2> QED  BY <2>1, CBTypeStep, RLTypeStep, AttemptsStep, ATTypeStep, SDTypeStep, AccountsStep,
              ChangesBounded DEF AllTyped
<1>3. AllTyped => SafeguardsTypeOK
  BY DEF AllTyped, SafeguardsTypeOK, AccountsOK, ACTables, ACTypeOK
<1> QED  BY <1>1, <1>2, <1>3, PTL DEF Spec

=============================================================================
