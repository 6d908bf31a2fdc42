------------------------- MODULE IdempotencyProofs -------------------------
(***************************************************************************)
(* Proofs about the idempotency middleware, for any keys, requests and     *)
(* bodies and any number of requests in flight.                            *)
(***************************************************************************)
EXTENDS Idempotency, FiniteSetTheorems, TLAPS

-----------------------------------------------------------------------------
(* The inductive invariant *)

\* Requests whose handler took effect and whose response is not stored yet.
HasRun(s) == request[s].step \in {"respond", "persist"}

\* A request that ran its handler knows which run that was.
RunsKnown ==
    \A s \in Sessions : HasRun(s) =>
        /\ request[s].run \in DOMAIN ran
        /\ ran[request[s].run].key = request[s].key
        /\ ran[request[s].run].target = request[s].target

\* A record tells of a run for its key, with the hash it holds.
RecordsTell ==
    \A k \in Keys : stored[k] # None =>
        /\ stored[k].run \in DOMAIN ran
        /\ ran[stored[k].run].key = k
        /\ Hash(ran[stored[k].run].target) = stored[k].hash

\* An answer tells of a run for its key, with the hash of its request.
AnswersTell ==
    \A a \in answers :
        /\ a.run \in DOMAIN ran
        /\ ran[a.run].key = a.key
        /\ Hash(ran[a.run].target) = Hash(a.target)

Excused(k) == \E why \in Excuses : <<why, k>> \in excused

\* Only what has expired is dropped.
DropsExpired ==
    /\ \A k \in Keys : stored[k] # None /\ stored[k].expired => <<"expired", k>> \in excused
    /\ \A s \in Sessions : request[s].step = "drop" => <<"expired", request[s].key>> \in excused

\* As long as nothing excuses a second run for key k: at most one request is on
\* its way from the lookup to the insert, and none once there is a record; and
\* what ran has its record, or is that request's.
OneAtATime(k) ==
    \/ Excused(k)
    \/ /\ \A s, t \in Unrecorded(k) : s = t
       /\ stored[k] # None => Unrecorded(k) = {}
       /\ \A n \in DOMAIN ran : ran[n].key = k =>
             \/ stored[k] # None
             \/ \E s \in Unrecorded(k) : HasRun(s)
       /\ \A n, m \in DOMAIN ran : ran[n].key = k /\ ran[m].key = k => n = m

IInv ==
    /\ TypeOK
    /\ RunsKnown
    /\ RecordsTell
    /\ AnswersTell
    /\ DropsExpired
    /\ \A k \in Keys : OneAtATime(k)

-----------------------------------------------------------------------------
(* Lemmas about the state *)

\* The runs are numbered from 1 to how many there are.
LEMMA RunsNumbered ==
  ASSUME TypeOK
  PROVE  /\ Executed \in 0 .. MaxRuns
         /\ ran \in [1 .. Executed -> [key : Keys, target : Targets]]
<1>1. PICK n \in 0 .. MaxRuns : ran \in [1 .. n -> [key : Keys, target : Targets]]
  BY DEF TypeOK
<1>2. n \in Int /\ 0 <= n
  BY <1>1, MaxRunsAssumption
<1>3. Cardinality(1 .. n) = n
  BY <1>2, FS_Interval
<1> QED  BY <1>1, <1>3 DEF Executed

\* A request in flight has a key and a target.
LEMMA RequestIs ==
  ASSUME TypeOK, NEW s \in Sessions, request[s].step # "idle"
  PROVE  /\ request[s] \in InFlight
         /\ request[s].step \in Steps \ {"idle"}
         /\ request[s].key \in Keys
         /\ request[s].target \in Targets
         /\ request[s].run \in 0 .. MaxRuns
<1>1. request[s] # Idle
  BY DEF Idle
<1>2. request[s] \in InFlight
  BY <1>1 DEF TypeOK
<1> QED  BY <1>2 DEF InFlight

\* A request that goes on keeps its key and its target.
LEMMA Onward ==
  ASSUME TypeOK, NEW s \in Sessions, request[s].step # "idle", NEW step \in Steps \ {"idle"}, Goto(s, step)
  PROVE  /\ request' \in [Sessions -> InFlight \union {Idle}]
         /\ request'[s] = [step |-> step, key |-> request[s].key, target |-> request[s].target, run |-> request[s].run]
         /\ \A t \in Sessions \ {s} : request'[t] = request[t]
<1>1. request[s] \in InFlight
  BY RequestIs
<1>2. PICK st \in Steps, k \in Keys, target \in Targets, run \in 0 .. MaxRuns :
         request[s] = [step |-> st, key |-> k, target |-> target, run |-> run]
  BY <1>1 DEF InFlight
<1>3. [request[s] EXCEPT !.step = step] = [step |-> step, key |-> k, target |-> target, run |-> run]
  BY <1>2
<1>4. [step |-> step, key |-> k, target |-> target, run |-> run] \in InFlight
  BY <1>2 DEF InFlight
<1>5. request' = [request EXCEPT ![s] = [step |-> step, key |-> k, target |-> target, run |-> run]]
  BY <1>3 DEF Goto
<1> QED  BY <1>2, <1>4, <1>5 DEF TypeOK

\* A request that is over leaves the others alone.
LEMMA Over ==
  ASSUME TypeOK, NEW s \in Sessions, Finish(s)
  PROVE  /\ request' \in [Sessions -> InFlight \union {Idle}]
         /\ request'[s] = Idle
         /\ \A t \in Sessions \ {s} : request'[t] = request[t]
BY DEF TypeOK, Finish

\* The run of a handler gets the next number; those before it stand.
LEMMA OneMoreRun ==
  ASSUME TypeOK, NEW s \in Sessions, RunHandler(s)
  PROVE  /\ Executed + 1 \in Runs
         /\ DOMAIN ran = 1 .. Executed
         /\ ran' \in [1 .. Executed + 1 -> [key : Keys, target : Targets]]
         /\ ran'[Executed + 1] = [key |-> request[s].key, target |-> request[s].target]
         /\ \A n \in DOMAIN ran : n \in DOMAIN ran' /\ ran'[n] = ran[n] /\ n # Executed + 1
         /\ request' \in [Sessions -> InFlight \union {Idle}]
         /\ request'[s] = [step |-> "respond", key |-> request[s].key, target |-> request[s].target, run |-> Executed + 1]
         /\ \A t \in Sessions \ {s} : request'[t] = request[t]
<1> DEFINE made == Executed + 1
<1>1. /\ Executed \in 0 .. MaxRuns
      /\ ran \in [1 .. Executed -> [key : Keys, target : Targets]]
  BY RunsNumbered
<1>2. Executed \in Nat /\ Executed < MaxRuns
  BY <1>1, MaxRunsAssumption DEF RunHandler
<1>3. made \in Runs /\ made \in 0 .. MaxRuns /\ made \in Nat
  BY <1>2, MaxRunsAssumption DEF Runs
<1>4. \A n \in 1 .. Executed : n \in 1 .. made /\ n # made /\ n <= Executed
  BY <1>2
<1>4a. \A n \in 1 .. made : n <= Executed => n \in 1 .. Executed
  BY <1>2
<1>4b. made \in 1 .. made /\ ~(made <= Executed)
  BY <1>2
<1>5. request[s].step # "idle" /\ request[s].step = "handler"
  BY DEF RunHandler
<1>6. request[s].key \in Keys /\ request[s].target \in Targets /\ request[s] \in InFlight
  BY <1>5, RequestIs
<1>7. ran' = [n \in 1 .. made |-> IF n <= Executed THEN ran[n]
                                 ELSE [key |-> request[s].key, target |-> request[s].target]]
  BY DEF RunHandler
<1> HIDE DEF made
<1>8. ran' \in [1 .. made -> [key : Keys, target : Targets]]
  BY <1>1, <1>4a, <1>6, <1>7
<1>9. PICK k \in Keys, target \in Targets, run \in 0 .. MaxRuns :
         request[s] = [step |-> "handler", key |-> k, target |-> target, run |-> run]
  BY <1>5, <1>6 DEF InFlight
<1> DEFINE next == [step |-> "respond", key |-> k, target |-> target, run |-> made]
<1>10. [[request[s] EXCEPT !.step = "respond"] EXCEPT !.run = made] = next
  <2>1. [request[s] EXCEPT !.step = "respond"] = [step |-> "respond", key |-> k, target |-> target, run |-> run]
    BY <1>9
  <2>2. [[step |-> "respond", key |-> k, target |-> target, run |-> run] EXCEPT !.run = made] = next
    OBVIOUS
  <2> QED  BY <2>1, <2>2
<1>11. request' = [request EXCEPT ![s] = [[request[s] EXCEPT !.step = "respond"] EXCEPT !.run = made]]
  BY DEF RunHandler, TypeOK, made
<1>12. next \in InFlight
  BY <1>3 DEF InFlight, Steps
<1>13. request' = [request EXCEPT ![s] = next]
  BY <1>10, <1>11
<1>14. /\ request' \in [Sessions -> InFlight \union {Idle}]
       /\ request'[s] = next
       /\ \A t \in Sessions \ {s} : request'[t] = request[t]
  BY <1>12, <1>13 DEF TypeOK
<1>15. DOMAIN ran = 1 .. Executed /\ DOMAIN ran' = 1 .. made
  BY <1>1, <1>8
<1>16. \A n \in DOMAIN ran : n \in DOMAIN ran' /\ ran'[n] = ran[n] /\ n # made
  BY <1>4, <1>7, <1>15
<1>17. ran'[made] = [key |-> request[s].key, target |-> request[s].target]
  BY <1>4b, <1>7
<1> QED  BY <1>3, <1>8, <1>9, <1>14, <1>15, <1>16, <1>17 DEF made

\* The run that a request tells of is one there may be.
LEMMA RunKnown ==
  ASSUME TypeOK, RunsKnown, NEW s \in Sessions, HasRun(s)
  PROVE  /\ request[s].step # "idle"
         /\ request[s].key \in Keys /\ request[s].target \in Targets
         /\ request[s].run \in Runs
<1>1. request[s].step # "idle"
  BY DEF HasRun
<1>2. request[s].run \in DOMAIN ran
  BY DEF RunsKnown
<1>3. /\ Executed \in 0 .. MaxRuns
      /\ ran \in [1 .. Executed -> [key : Keys, target : Targets]]
  BY RunsNumbered
<1>4. 1 .. Executed \subseteq Runs
  BY <1>3, MaxRunsAssumption DEF Runs
<1> QED  BY <1>1, <1>2, <1>3, <1>4, RequestIs

\* Every step keeps the types: TypeOK.
LEMMA TypeStep ==
  ASSUME TypeOK, RunsKnown, [Next]_vars
  PROVE  TypeOK'
<1>n. \E n \in 0 .. MaxRuns : ran \in [1 .. n -> [key : Keys, target : Targets]]
  BY DEF TypeOK
<1>1. ASSUME NEW s \in Sessions, NEW k \in Keys, NEW target \in Targets, Send(s, k, target)
      PROVE  TypeOK'
  <2>1. [step |-> "lookup", key |-> k, target |-> target, run |-> 0] \in InFlight
    BY MaxRunsAssumption DEF InFlight, Steps
  <2> QED  BY <1>1, <2>1 DEF TypeOK, Send
<1>2. ASSUME NEW s \in Sessions, Lookup(s)  PROVE TypeOK'
  <2> DEFINE k == request[s].key
             verdict == Verdict(stored[k], Hash(request[s].target))
  <2>1. request[s].step # "idle" /\ UNCHANGED <<stored, ran>>
    BY <1>2 DEF Lookup
  <2>2. k \in Keys /\ request[s].target \in Targets
    BY <2>1, RequestIs
  <2>3. request' \in [Sessions -> InFlight \union {Idle}]
    <3>1. CASE verdict \in {"handler", "drop"}
      BY <1>2, <2>1, <3>1, Onward DEF Lookup, Steps
    <3>2. CASE verdict \notin {"handler", "drop"}
      BY <1>2, <3>2, Over DEF Lookup
    <3> QED  BY <3>1, <3>2
  <2>4. excused' \subseteq Excuses \X Keys
    <3>1. Crossing(k) \subseteq Excuses \X {k}
      BY DEF Crossing, Excuses
    <3> QED  BY <1>2, <2>2, <3>1 DEF Lookup, TypeOK
  <2>5. answers' \subseteq [key : Keys, target : Targets, run : Runs]
    <3>1. CASE verdict = "replay"
      <4>1. stored[k] # None
        BY <3>1 DEF Verdict
      <4>2. stored[k].run \in Runs
        BY <2>2, <4>1 DEF TypeOK, Record
      <4> QED  BY <1>2, <2>2, <3>1, <4>2 DEF Lookup, Answer, TypeOK
    <3> QED  BY <1>2, <3>1 DEF Lookup, TypeOK
  <2> QED  BY <2>1, <2>3, <2>4, <2>5, <1>n DEF TypeOK
<1>3. ASSUME NEW s \in Sessions, DropExpired(s)  PROVE TypeOK'
  <2>1. request' \in [Sessions -> InFlight \union {Idle}]
    BY <1>3, Onward DEF DropExpired, Steps
  <2>2. stored' \in [Keys -> Record \union {None}] /\ UNCHANGED <<ran, answers, excused>>
    BY <1>3 DEF TypeOK, DropExpired
  <2> QED  BY <2>1, <2>2, <1>n DEF TypeOK
<1>4. ASSUME NEW s \in Sessions, RunHandler(s)  PROVE TypeOK'
  <2>1. \A n \in Runs : n \in 0 .. MaxRuns
    BY MaxRunsAssumption DEF Runs
  <2>2. Executed + 1 \in 0 .. MaxRuns
    BY <1>4, <2>1, OneMoreRun
  <2>3. UNCHANGED <<stored, answers, excused>>
    BY <1>4 DEF RunHandler
  <2>4. /\ ran' \in [1 .. Executed + 1 -> [key : Keys, target : Targets]]
        /\ request' \in [Sessions -> InFlight \union {Idle}]
    BY <1>4, OneMoreRun
  <2> QED  BY <2>2, <2>3, <2>4 DEF TypeOK
<1>5. ASSUME NEW s \in Sessions, HandlerRefuses(s)  PROVE TypeOK'
  BY <1>5, <1>n, Over DEF TypeOK, HandlerRefuses
<1>6. ASSUME NEW s \in Sessions, HandlerFailsLate(s) \/ PersistFails(s)  PROVE TypeOK'
  <2>1. request[s].step # "idle"
    BY <1>6 DEF HandlerFailsLate, PersistFails
  <2>2. request[s].key \in Keys
    BY <2>1, RequestIs
  <2>3. excused' \subseteq Excuses \X Keys
    BY <1>6, <2>2 DEF HandlerFailsLate, PersistFails, TypeOK, Excuses
  <2> QED  BY <1>6, <2>3, <1>n, Over DEF TypeOK, HandlerFailsLate, PersistFails
<1>7. ASSUME NEW s \in Sessions, Respond(s)  PROVE TypeOK'
  <2>1. HasRun(s)
    BY <1>7 DEF Respond, HasRun
  <2>2. /\ request[s].step # "idle"
        /\ request[s].key \in Keys /\ request[s].target \in Targets /\ request[s].run \in Runs
    BY <2>1, RunKnown
  <2>3. request' \in [Sessions -> InFlight \union {Idle}]
    BY <1>7, <2>2, Onward DEF Respond, Steps
  <2>4. answers' \subseteq [key : Keys, target : Targets, run : Runs]
    BY <1>7, <2>2 DEF Respond, Answer, TypeOK
  <2> QED  BY <1>7, <2>3, <2>4, <1>n DEF TypeOK, Respond
<1>8. ASSUME NEW s \in Sessions, Persist(s)  PROVE TypeOK'
  <2>1. /\ request[s].step # "idle"
        /\ request[s].key \in Keys /\ request[s].target \in Targets /\ request[s].run \in Runs
    BY <1>8, RunKnown DEF Persist, HasRun
  <2>2. [hash |-> Hash(request[s].target), run |-> request[s].run, expired |-> FALSE] \in Record
    BY <2>1 DEF Record, Hashes, Hash, Targets
  <2>3. stored' \in [Keys -> Record \union {None}]
    BY <1>8, <2>1, <2>2 DEF Persist, WithResponse, TypeOK
  <2> QED  BY <1>8, <2>3, <1>n, Over DEF TypeOK, Persist
<1>9. ASSUME NEW S \in SUBSET Sessions, ProcessEnds(S)  PROVE TypeOK'
  <2>1. request' \in [Sessions -> InFlight \union {Idle}]
    BY <1>9 DEF ProcessEnds, TypeOK
  <2>2. \A s \in S : request[s].step \in {"respond", "persist"} => <<"unstored", request[s].key>> \in Excuses \X Keys
    BY RunKnown DEF HasRun, Excuses
  <2>3. excused' \subseteq Excuses \X Keys
    BY <1>9, <2>2 DEF ProcessEnds, TypeOK
  <2> QED  BY <1>9, <2>1, <2>3, <1>n DEF TypeOK, ProcessEnds
<1>10. ASSUME NEW k \in Keys, Expire(k)  PROVE TypeOK'
  <2>1. stored[k] \in Record
    BY <1>10 DEF Expire, TypeOK
  <2>2. [stored[k] EXCEPT !.expired = TRUE] \in Record
    BY <2>1 DEF Record
  <2>3. stored' \in [Keys -> Record \union {None}]
    BY <1>10, <2>2 DEF Expire, TypeOK
  <2>4. excused' \subseteq Excuses \X Keys
    BY <1>10 DEF Expire, TypeOK, Excuses
  <2> QED  BY <1>10, <2>3, <2>4, <1>n DEF TypeOK, Expire
<1>11. ASSUME Prune  PROVE TypeOK'
  <2>1. stored' \in [Keys -> Record \union {None}]
    BY <1>11 DEF Prune, TypeOK
  <2> QED  BY <1>11, <2>1, <1>n DEF TypeOK, Prune
<1>12. CASE UNCHANGED vars
  BY <1>12, <1>n DEF TypeOK, vars
<1> QED  BY <1>1, <1>2, <1>3, <1>4, <1>5, <1>6, <1>7, <1>8, <1>9, <1>10, <1>11, <1>12 DEF Next

-----------------------------------------------------------------------------
(* What is told of the runs is true *)

\* What ran has run: no step takes a run away or changes it.
LEMMA RunsStand ==
  ASSUME TypeOK, [Next]_vars
  PROVE  \A n \in DOMAIN ran : n \in DOMAIN ran' /\ ran'[n] = ran[n]
<1>1. CASE \E s \in Sessions : RunHandler(s)
  BY <1>1, OneMoreRun
<1>2. CASE UNCHANGED ran
  BY <1>2
<1> QED  BY <1>1, <1>2 DEF Next, vars, Send, Lookup, DropExpired, HandlerRefuses, HandlerFailsLate,
            Respond, Persist, PersistFails, ProcessEnds, Expire, Prune

\* A step of one request that leaves the runs alone, and after which the
\* request has no run that it had not before, keeps RunsKnown.
LEMMA StillKnown ==
  ASSUME RunsKnown, NEW s \in Sessions, UNCHANGED ran,
         \A t \in Sessions \ {s} : request'[t] = request[t],
         HasRun(s)' => /\ HasRun(s)
                       /\ request'[s].run = request[s].run
                       /\ request'[s].key = request[s].key
                       /\ request'[s].target = request[s].target
  PROVE  RunsKnown'
<1> SUFFICES ASSUME NEW t \in Sessions, HasRun(t)'
             PROVE  /\ request'[t].run \in DOMAIN ran
                    /\ ran[request'[t].run].key = request'[t].key
                    /\ ran[request'[t].run].target = request'[t].target
  BY DEF RunsKnown
<1>1. CASE t = s
  BY <1>1 DEF RunsKnown
<1>2. CASE t # s
  BY <1>2 DEF RunsKnown, HasRun
<1> QED  BY <1>1, <1>2

\* Every request that ran its handler goes on to know its run.
LEMMA RunsKnownStep ==
  ASSUME TypeOK, RunsKnown, [Next]_vars
  PROVE  RunsKnown'
<1>1. ASSUME NEW s \in Sessions, NEW k \in Keys, NEW target \in Targets, Send(s, k, target)
      PROVE  RunsKnown'
  <2>1. /\ request'[s].step = "lookup" /\ UNCHANGED ran
        /\ \A t \in Sessions \ {s} : request'[t] = request[t]
    BY <1>1 DEF Send, TypeOK
  <2>2. ~HasRun(s)'
    BY <2>1 DEF HasRun
  <2> QED  BY <2>1, <2>2, StillKnown
<1>2. ASSUME NEW s \in Sessions, Finish(s), UNCHANGED ran  PROVE RunsKnown'
  <2>1. request'[s].step = "idle" /\ \A t \in Sessions \ {s} : request'[t] = request[t]
    BY <1>2, Over DEF Idle
  <2>2. ~HasRun(s)'
    BY <2>1 DEF HasRun
  <2> QED  BY <1>2, <2>1, <2>2, StillKnown
<1>3. ASSUME NEW s \in Sessions, NEW step \in {"handler", "drop"}, Goto(s, step), UNCHANGED ran,
             request[s].step # "idle"
      PROVE  RunsKnown'
  <2>0. step \in Steps \ {"idle"}
    BY DEF Steps
  <2>a. /\ request'[s] = [step |-> step, key |-> request[s].key, target |-> request[s].target, run |-> request[s].run]
        /\ \A t \in Sessions \ {s} : request'[t] = request[t]
    BY <1>3, <2>0, Onward
  <2>1. request'[s].step = step /\ \A t \in Sessions \ {s} : request'[t] = request[t]
    BY <2>a
  <2>2. ~HasRun(s)'
    BY <2>1 DEF HasRun
  <2> QED  BY <1>3, <2>1, <2>2, StillKnown
<1>4. ASSUME NEW s \in Sessions, Respond(s)  PROVE RunsKnown'
  <2>1. request[s].step = "respond" /\ request[s].step # "idle" /\ UNCHANGED ran /\ Goto(s, "persist")
    BY <1>4 DEF Respond
  <2>2. /\ request'[s] = [step |-> "persist", key |-> request[s].key, target |-> request[s].target, run |-> request[s].run]
        /\ \A t \in Sessions \ {s} : request'[t] = request[t]
    BY <2>1, Onward DEF Steps
  <2>3. HasRun(s)
    BY <2>1 DEF HasRun
  <2> QED  BY <2>1, <2>2, <2>3, StillKnown
<1>5. ASSUME NEW s \in Sessions, RunHandler(s)  PROVE RunsKnown'
  <2> SUFFICES ASSUME NEW t \in Sessions, HasRun(t)'
               PROVE  /\ request'[t].run \in DOMAIN ran'
                      /\ ran'[request'[t].run].key = request'[t].key
                      /\ ran'[request'[t].run].target = request'[t].target
    BY DEF RunsKnown
  <2>1. CASE t = s
    <3>0. /\ Executed + 1 \in Runs
          /\ ran' \in [1 .. Executed + 1 -> [key : Keys, target : Targets]]
          /\ ran'[Executed + 1] = [key |-> request[s].key, target |-> request[s].target]
          /\ request'[s] = [step |-> "respond", key |-> request[s].key, target |-> request[s].target, run |-> Executed + 1]
      BY <1>5, OneMoreRun
    <3>1. /\ ran'[Executed + 1].key = request[s].key /\ ran'[Executed + 1].target = request[s].target
          /\ request'[s].run = Executed + 1 /\ request'[s].key = request[s].key /\ request'[s].target = request[s].target
          /\ DOMAIN ran' = 1 .. Executed + 1 /\ Executed + 1 \in Runs
      BY <3>0
    <3>2. Executed + 1 \in 1 .. Executed + 1
      BY <3>1, MaxRunsAssumption DEF Runs
    <3> QED  BY <2>1, <3>1, <3>2
  <2>2. CASE t # s
    <3>1. HasRun(t) /\ request'[t] = request[t]
      BY <1>5, <2>2, OneMoreRun DEF HasRun
    <3>2. \A n \in DOMAIN ran : n \in DOMAIN ran' /\ ran'[n] = ran[n]
      BY <1>5, OneMoreRun
    <3> QED  BY <3>1, <3>2 DEF RunsKnown
  <2> QED  BY <2>1, <2>2
<1>6. ASSUME NEW S \in SUBSET Sessions, ProcessEnds(S)  PROVE RunsKnown'
  BY <1>6 DEF ProcessEnds, RunsKnown, HasRun, Idle
<1>7. CASE UNCHANGED <<request, ran>>
  BY <1>7 DEF RunsKnown, HasRun
<1>8. ASSUME NEW s \in Sessions, Lookup(s)  PROVE RunsKnown'
  <2>1. request[s].step # "idle" /\ UNCHANGED ran
    BY <1>8 DEF Lookup
  <2>2. Finish(s) \/ Goto(s, "handler") \/ Goto(s, "drop")
    BY <1>8 DEF Lookup
  <2> QED  BY <1>2, <1>3, <2>1, <2>2
<1>9. ASSUME NEW s \in Sessions, DropExpired(s)  PROVE RunsKnown'
  <2>1. request[s].step # "idle" /\ UNCHANGED ran /\ Goto(s, "handler")
    BY <1>9 DEF DropExpired
  <2> QED  BY <1>3, <2>1
<1>10. ASSUME NEW s \in Sessions,
              HandlerRefuses(s) \/ HandlerFailsLate(s) \/ Persist(s) \/ PersistFails(s)
       PROVE  RunsKnown'
  <2>1. Finish(s) /\ UNCHANGED ran
    BY <1>10 DEF HandlerRefuses, HandlerFailsLate, Persist, PersistFails
  <2> QED  BY <1>2, <2>1
<1>11. ASSUME NEW k \in Keys, Expire(k)  PROVE RunsKnown'
  BY <1>7, <1>11 DEF Expire
<1>12. CASE Prune \/ UNCHANGED vars
  BY <1>7, <1>12 DEF Prune, vars
<1> QED  BY <1>1, <1>4, <1>5, <1>6, <1>8, <1>9, <1>10, <1>11, <1>12 DEF Next

\* A record that is there after a step was there before it, or is the one that
\* a request stores of its own run.
LEMMA RecordsFrom ==
  ASSUME TypeOK, [Next]_vars, NEW k \in Keys, stored'[k] # None
  PROVE  \/ /\ stored[k] # None
            /\ stored'[k].run = stored[k].run /\ stored'[k].hash = stored[k].hash
         \/ \E s \in Sessions :
               /\ Persist(s) /\ HasRun(s) /\ request[s].key = k
               /\ stored'[k].run = request[s].run
               /\ stored'[k].hash = Hash(request[s].target)
<1>1. ASSUME NEW s \in Sessions, DropExpired(s)
      PROVE  stored[k] # None /\ stored'[k].run = stored[k].run /\ stored'[k].hash = stored[k].hash
  BY <1>1 DEF DropExpired, TypeOK
<1>2. ASSUME NEW s \in Sessions, Persist(s), stored'[k] # stored[k]
      PROVE  /\ HasRun(s) /\ request[s].key = k
             /\ stored'[k].run = request[s].run
             /\ stored'[k].hash = Hash(request[s].target)
  BY <1>2 DEF Persist, WithResponse, TypeOK, HasRun
<1>3. ASSUME NEW j \in Keys, Expire(j)
      PROVE  stored[k] # None /\ stored'[k].run = stored[k].run /\ stored'[k].hash = stored[k].hash
  <2>1. stored[j] \in Record
    BY <1>3 DEF Expire, TypeOK
  <2>2. [stored[j] EXCEPT !.expired = TRUE].run = stored[j].run /\ [stored[j] EXCEPT !.expired = TRUE].hash = stored[j].hash
    BY <2>1 DEF Record
  <2> QED  BY <1>3, <2>2 DEF Expire, TypeOK
<1>4. ASSUME Prune
      PROVE  stored[k] # None /\ stored'[k].run = stored[k].run /\ stored'[k].hash = stored[k].hash
  BY <1>4 DEF Prune
<1>5. CASE UNCHANGED stored
  BY <1>5
<1> QED  BY <1>1, <1>2, <1>3, <1>4, <1>5 DEF Next, vars, Send, Lookup, RunHandler, HandlerRefuses,
            HandlerFailsLate, Respond, PersistFails, ProcessEnds

\* The records go on to tell of runs for their keys.
LEMMA RecordsTellStep ==
  ASSUME TypeOK, RunsKnown, RecordsTell, [Next]_vars
  PROVE  RecordsTell'
<1> SUFFICES ASSUME NEW k \in Keys, stored'[k] # None
             PROVE  /\ stored'[k].run \in DOMAIN ran'
                    /\ ran'[stored'[k].run].key = k
                    /\ Hash(ran'[stored'[k].run].target) = stored'[k].hash
  BY DEF RecordsTell, Hash
<1>1. \A n \in DOMAIN ran : n \in DOMAIN ran' /\ ran'[n] = ran[n]
  BY RunsStand
<1>2. CASE stored[k] # None /\ stored'[k].run = stored[k].run /\ stored'[k].hash = stored[k].hash
  BY <1>1, <1>2 DEF RecordsTell
<1>3. ASSUME NEW s \in Sessions, HasRun(s), request[s].key = k,
             stored'[k].run = request[s].run, stored'[k].hash = Hash(request[s].target)
      PROVE  /\ stored'[k].run \in DOMAIN ran'
             /\ ran'[stored'[k].run].key = k
             /\ Hash(ran'[stored'[k].run].target) = stored'[k].hash
  BY <1>1, <1>3 DEF RunsKnown
<1> QED  BY <1>2, <1>3, RecordsFrom

\* The answers go on to tell of runs for their keys.
LEMMA AnswersTellStep ==
  ASSUME TypeOK, RunsKnown, RecordsTell, AnswersTell, [Next]_vars
  PROVE  AnswersTell'
<1> SUFFICES ASSUME NEW a \in answers'
             PROVE  /\ a.run \in DOMAIN ran'
                    /\ ran'[a.run].key = a.key
                    /\ Hash(ran'[a.run].target) = Hash(a.target)
  BY DEF AnswersTell, Hash
<1>1. \A n \in DOMAIN ran : n \in DOMAIN ran' /\ ran'[n] = ran[n]
  BY RunsStand
<1>2. CASE a \in answers
  BY <1>1, <1>2 DEF AnswersTell
<1>3. ASSUME NEW s \in Sessions, Respond(s), a \notin answers
      PROVE  /\ a.run \in DOMAIN ran'
             /\ ran'[a.run].key = a.key
             /\ Hash(ran'[a.run].target) = Hash(a.target)
  <2>1. a = [key |-> request[s].key, target |-> request[s].target, run |-> request[s].run] /\ HasRun(s)
    BY <1>3 DEF Respond, Answer, HasRun
  <2> QED  BY <1>1, <2>1 DEF RunsKnown
<1>4. ASSUME NEW s \in Sessions, Lookup(s), a \notin answers
      PROVE  /\ a.run \in DOMAIN ran'
             /\ ran'[a.run].key = a.key
             /\ Hash(ran'[a.run].target) = Hash(a.target)
  <2> DEFINE k == request[s].key
  <2>1. a = [key |-> k, target |-> request[s].target, run |-> stored[k].run]
        /\ Verdict(stored[k], Hash(request[s].target)) = "replay"
    BY <1>4 DEF Lookup, Answer
  <2>2. stored[k] # None /\ stored[k].hash = Hash(request[s].target)
    BY <2>1 DEF Verdict
  <2>3. k \in Keys
    BY <1>4, RequestIs DEF Lookup
  <2> QED  BY <1>1, <2>1, <2>2, <2>3 DEF RecordsTell
<1> QED  BY <1>2, <1>3, <1>4 DEF Next, vars, Send, DropExpired, RunHandler, HandlerRefuses,
            HandlerFailsLate, Persist, PersistFails, ProcessEnds, Expire, Prune

-----------------------------------------------------------------------------
(* Why a handler may run again *)

\* An excuse is never taken back.
LEMMA ExcusesStand ==
  ASSUME [Next]_vars
  PROVE  /\ excused \subseteq excused'
         /\ \A k \in Keys : Excused(k) => Excused(k)'
<1>1. excused \subseteq excused'
  BY DEF Next, vars, Send, Lookup, DropExpired, RunHandler, HandlerRefuses, HandlerFailsLate,
         Respond, Persist, PersistFails, ProcessEnds, Expire, Prune
<1> QED  BY <1>1 DEF Excused

\* What has expired is marked so, and only that is dropped.
LEMMA DropsExpiredStep ==
  ASSUME TypeOK, DropsExpired, [Next]_vars
  PROVE  DropsExpired'
<1>0. excused \subseteq excused'
  BY ExcusesStand
<1>1. ASSUME NEW k \in Keys, stored'[k] # None, stored'[k].expired
      PROVE  <<"expired", k>> \in excused'
  <2>1. CASE stored'[k] = stored[k]
    BY <1>0, <1>1, <2>1 DEF DropsExpired
  <2>2. ASSUME NEW s \in Sessions, DropExpired(s)  PROVE stored'[k] = stored[k]
    BY <1>1, <2>2 DEF DropExpired, TypeOK
  <2>3. ASSUME NEW s \in Sessions, Persist(s)  PROVE stored'[k] = stored[k]
    BY <1>1, <2>3 DEF Persist, WithResponse, TypeOK
  <2>4. ASSUME NEW j \in Keys, Expire(j), stored'[k] # stored[k]  PROVE <<"expired", k>> \in excused'
    BY <2>4 DEF Expire, TypeOK
  <2>5. ASSUME Prune  PROVE stored'[k] = stored[k]
    BY <1>1, <2>5 DEF Prune
  <2> QED  BY <2>1, <2>2, <2>3, <2>4, <2>5 DEF Next, vars, Send, Lookup, RunHandler, HandlerRefuses,
              HandlerFailsLate, Respond, PersistFails, ProcessEnds
<1>2. ASSUME NEW t \in Sessions, request'[t].step = "drop"
      PROVE  <<"expired", request'[t].key>> \in excused'
  <2>1. CASE request'[t] = request[t]
    BY <1>0, <1>2, <2>1 DEF DropsExpired
  <2>2. CASE request'[t] # request[t]
    <3>1. ASSUME NEW s \in Sessions, Finish(s)  PROVE FALSE
      BY <1>2, <2>2, <3>1, Over DEF Idle
    <3>2. ASSUME NEW s \in Sessions, NEW step \in Steps \ {"idle", "drop"}, Goto(s, step), request[s].step # "idle"
          PROVE  FALSE
      <4>1. step \in Steps \ {"idle"} /\ step # "drop"
        OBVIOUS
      <4>2. /\ request'[s] = [step |-> step, key |-> request[s].key, target |-> request[s].target, run |-> request[s].run]
            /\ \A u \in Sessions \ {s} : request'[u] = request[u]
        BY <3>2, <4>1, Onward
      <4> QED  BY <1>2, <2>2, <4>1, <4>2
    <3>3. ASSUME NEW s \in Sessions, NEW k \in Keys, NEW target \in Targets, Send(s, k, target)  PROVE FALSE
      BY <1>2, <2>2, <3>3 DEF Send, TypeOK
    <3>4. ASSUME NEW s \in Sessions, RunHandler(s)  PROVE FALSE
      <4>1. /\ request'[s] = [step |-> "respond", key |-> request[s].key, target |-> request[s].target, run |-> Executed + 1]
            /\ \A u \in Sessions \ {s} : request'[u] = request[u]
        BY <3>4, OneMoreRun
      <4> QED  BY <1>2, <2>2, <4>1
    <3>5. ASSUME NEW S \in SUBSET Sessions, ProcessEnds(S)  PROVE FALSE
      BY <1>2, <2>2, <3>5 DEF ProcessEnds, Idle
    <3>6. ASSUME NEW s \in Sessions, Lookup(s)  PROVE <<"expired", request'[t].key>> \in excused'
      <4> DEFINE k == request[s].key
                 verdict == Verdict(stored[k], Hash(request[s].target))
      <4>1. request[s].step # "idle" /\ k \in Keys
        BY <3>6, RequestIs DEF Lookup
      <4>2. verdict # "handler" /\ (Finish(s) \/ Goto(s, "drop"))
        BY <3>6, <3>2, <4>1 DEF Lookup, Steps
      <4>3. verdict = "drop" /\ Goto(s, "drop")
        BY <3>6, <3>1, <4>2 DEF Lookup
      <4>4. /\ request'[s] = [step |-> "drop", key |-> k, target |-> request[s].target, run |-> request[s].run]
            /\ \A u \in Sessions \ {s} : request'[u] = request[u]
        BY <4>1, <4>3, Onward DEF Steps
      <4>5. t = s /\ request'[t].key = k
        BY <2>2, <4>4
      <4>6. stored[k] # None /\ stored[k].expired
        BY <4>3 DEF Verdict
      <4> QED  BY <1>0, <4>1, <4>5, <4>6 DEF DropsExpired
    <3>7. ASSUME NEW s \in Sessions, DropExpired(s) \/ Respond(s)  PROVE FALSE
      BY <3>2, <3>7 DEF DropExpired, Respond, Steps
    <3>8. ASSUME NEW s \in Sessions, HandlerRefuses(s) \/ HandlerFailsLate(s) \/ Persist(s) \/ PersistFails(s)
          PROVE  FALSE
      BY <3>1, <3>8 DEF HandlerRefuses, HandlerFailsLate, Persist, PersistFails
    <3>9. ASSUME NEW k \in Keys, Expire(k)  PROVE FALSE
      BY <2>2, <3>9 DEF Expire
    <3>10. CASE Prune \/ UNCHANGED vars
      BY <2>2, <3>10 DEF Prune, vars
    <3> QED  BY <3>3, <3>4, <3>5, <3>6, <3>7, <3>8, <3>9, <3>10 DEF Next
  <2> QED  BY <2>1, <2>2
<1> QED  BY <1>1, <1>2 DEF DropsExpired

\* What is no business of key k: no handler runs, its record stays, and no
\* request comes or goes between the lookup and the insert but one that had
\* not run its handler.
LEMMA Elsewhere ==
  ASSUME NEW k \in Keys, OneAtATime(k), ~Excused(k),
         UNCHANGED ran, stored'[k] = stored[k],
         \A s \in Sessions :
            /\ s \in Unrecorded(k)' => s \in Unrecorded(k)
            /\ s \in Unrecorded(k) /\ HasRun(s) => s \in Unrecorded(k)' /\ HasRun(s)'
  PROVE  OneAtATime(k)'
<1> DEFINE U == Unrecorded(k)
           V == Unrecorded(k)'
           H == {s \in Sessions : HasRun(s)}
           I == {s \in Sessions : HasRun(s)'}
<1>1. /\ U \subseteq Sessions /\ V \subseteq Sessions
      /\ \A s \in U : HasRun(s) <=> s \in H
      /\ \A s \in V : HasRun(s)' <=> s \in I
  BY DEF Unrecorded
<1>2. /\ \A s, t \in U : s = t
      /\ stored[k] # None => U = {}
      /\ \A n \in DOMAIN ran : ran[n].key = k => stored[k] # None \/ \E s \in U : s \in H
      /\ \A n, m \in DOMAIN ran : ran[n].key = k /\ ran[m].key = k => n = m
  BY <1>1 DEF OneAtATime
<1>3. V \subseteq U /\ \A s \in U : s \in H => s \in V /\ s \in I
  BY <1>1
<1> HIDE DEF U, V, H, I
<1>4. /\ \A s, t \in V : s = t
      /\ stored'[k] # None => V = {}
      /\ \A n \in DOMAIN ran' : ran'[n].key = k => stored'[k] # None \/ \E s \in V : s \in I
      /\ \A n, m \in DOMAIN ran' : ran'[n].key = k /\ ran'[m].key = k => n = m
  BY <1>2, <1>3
<1> USE DEF U, V, H, I
<1> QED  BY <1>1, <1>4 DEF OneAtATime

\* Such is a request that starts, goes on or ends before it ran its handler, or
\* goes on afterwards; and anything a request with another key does.
LEMMA ElsewhereAlone ==
  ASSUME TypeOK, NEW k \in Keys, OneAtATime(k), ~Excused(k), NEW s \in Sessions,
         UNCHANGED ran, stored'[k] = stored[k],
         \A t \in Sessions \ {s} : request'[t] = request[t],
         s \in Unrecorded(k)' => s \in Unrecorded(k),
         s \in Unrecorded(k) /\ HasRun(s) => s \in Unrecorded(k)' /\ HasRun(s)'
  PROVE  OneAtATime(k)'
<1>1. ASSUME NEW t \in Sessions
      PROVE  /\ t \in Unrecorded(k)' => t \in Unrecorded(k)
             /\ t \in Unrecorded(k) /\ HasRun(t) => t \in Unrecorded(k)' /\ HasRun(t)'
  <2>1. CASE t = s
    BY <2>1
  <2>2. CASE t # s
    BY <2>2 DEF Unrecorded, HasRun
  <2> QED  BY <2>1, <2>2
<1> QED  BY <1>1, Elsewhere

\* A request that is over, and whose handler had not run if it was about key k.
LEMMA OverElsewhere ==
  ASSUME TypeOK, NEW k \in Keys, OneAtATime(k), ~Excused(k), NEW s \in Sessions,
         UNCHANGED ran, stored'[k] = stored[k], Finish(s),
         ~(request[s].key = k /\ HasRun(s))
  PROVE  OneAtATime(k)'
<1>1. request'[s] = Idle /\ \A t \in Sessions \ {s} : request'[t] = request[t]
  BY Over
<1>2. s \notin Unrecorded(k)'
  BY <1>1 DEF Unrecorded, Idle
<1>3. ~(s \in Unrecorded(k) /\ HasRun(s))
  BY DEF Unrecorded
<1> QED  BY <1>1, <1>2, <1>3, ElsewhereAlone

\* A request that goes on, and was on its way from the lookup to the insert, or
\* is about another key.
LEMMA OnwardElsewhere ==
  ASSUME TypeOK, NEW k \in Keys, OneAtATime(k), ~Excused(k), NEW s \in Sessions,
         UNCHANGED ran, stored'[k] = stored[k],
         NEW step \in Steps \ {"idle"}, request[s].step # "idle", Goto(s, step),
         request[s].key = k => s \in Unrecorded(k) /\ (HasRun(s) => step = "persist")
  PROVE  OneAtATime(k)'
<1>1. /\ request'[s] = [step |-> step, key |-> request[s].key, target |-> request[s].target, run |-> request[s].run]
      /\ \A t \in Sessions \ {s} : request'[t] = request[t]
  BY Onward
<1>2. s \in Unrecorded(k)' => s \in Unrecorded(k)
  BY <1>1 DEF Unrecorded
<1>3. s \in Unrecorded(k) /\ HasRun(s) => s \in Unrecorded(k)' /\ HasRun(s)'
  BY <1>1 DEF Unrecorded, HasRun
<1> QED  BY <1>1, <1>2, <1>3, ElsewhereAlone

\* The lookup lets a request through to the handler only if no other is on its
\* way and nothing ran for the key: or who else was on its way is on record.
LEMMA LookupOne ==
  ASSUME TypeOK, DropsExpired, NEW k \in Keys, OneAtATime(k), NEW s \in Sessions, Lookup(s), ~Excused(k)'
  PROVE  OneAtATime(k)'
<1> DEFINE verdict == Verdict(stored[request[s].key], Hash(request[s].target))
<1>1. /\ request[s].step = "lookup" /\ request[s].step # "idle"
      /\ UNCHANGED <<stored, ran>>
  BY DEF Lookup
<1>2. ~Excused(k)
  BY ExcusesStand DEF Next
<1>3. s \notin Unrecorded(k) /\ ~HasRun(s)
  BY <1>1 DEF Unrecorded, HasRun
<1>4. CASE Finish(s)
  BY <1>1, <1>2, <1>3, <1>4, OverElsewhere
<1>5. CASE request[s].key # k /\ (Goto(s, "handler") \/ Goto(s, "drop"))
  <2>1. {"handler", "drop"} \subseteq Steps \ {"idle"}
    BY DEF Steps
  <2>2. ASSUME Goto(s, "handler")  PROVE OneAtATime(k)'
    BY <1>1, <1>2, <1>5, <2>1, <2>2, OnwardElsewhere
  <2>3. ASSUME Goto(s, "drop")  PROVE OneAtATime(k)'
    BY <1>1, <1>2, <1>5, <2>1, <2>3, OnwardElsewhere
  <2> QED  BY <1>5, <2>2, <2>3
<1>6. CASE request[s].key = k /\ ~Finish(s)
  <2>1. /\ verdict \in {"handler", "drop"} /\ Goto(s, verdict)
        /\ excused' = excused \union Crossing(k)
    BY <1>6 DEF Lookup
  <2>2. Unrecorded(k) = {}
    <3>1. SUFFICES ASSUME NEW t \in Unrecorded(k)  PROVE FALSE
      OBVIOUS
    <3>2. <<"answered", k>> \in Crossing(k) \/ <<"overlap", k>> \in Crossing(k)
      BY DEF Crossing
    <3> QED  BY <2>1, <3>2 DEF Excused, Excuses
  <2>3. verdict # "drop"
    <3>1. SUFFICES ASSUME verdict = "drop"  PROVE FALSE
      OBVIOUS
    <3>2. stored[k] # None /\ stored[k].expired
      BY <1>6, <3>1 DEF Verdict
    <3> QED  BY <1>2, <3>2 DEF DropsExpired, Excused, Excuses
  <2>4. stored[k] = None /\ Goto(s, "handler")
    BY <1>6, <2>1, <2>3 DEF Verdict
  <2>5. /\ request'[s] = [step |-> "handler", key |-> k, target |-> request[s].target, run |-> request[s].run]
        /\ \A t \in Sessions \ {s} : request'[t] = request[t]
    BY <1>1, <1>6, <2>4, Onward DEF Steps
  <2>6. \A n \in DOMAIN ran : ran[n].key # k
    BY <1>2, <2>2, <2>4 DEF OneAtATime
  <2>7. \A t \in Unrecorded(k)' : t = s
    BY <2>2, <2>5 DEF Unrecorded
  <2> QED  BY <1>1, <2>4, <2>6, <2>7 DEF OneAtATime
<1> QED  BY <1>4, <1>5, <1>6 DEF Lookup

\* The handler that runs is the first that does.
LEMMA RunOne ==
  ASSUME TypeOK, NEW k \in Keys, OneAtATime(k), ~Excused(k), NEW s \in Sessions, RunHandler(s)
  PROVE  OneAtATime(k)'
<1> DEFINE made == Executed + 1
<1>1. /\ request[s].step = "handler" /\ UNCHANGED stored
  BY DEF RunHandler
<1>2. /\ request'[s] = [step |-> "respond", key |-> request[s].key, target |-> request[s].target, run |-> made]
      /\ \A t \in Sessions \ {s} : request'[t] = request[t]
      /\ ran' \in [1 .. made -> [key : Keys, target : Targets]]
      /\ ran'[made] = [key |-> request[s].key, target |-> request[s].target]
      /\ DOMAIN ran = 1 .. Executed
      /\ \A n \in DOMAIN ran : ran'[n] = ran[n]
      /\ made \in Runs
  BY OneMoreRun
<1>2a. ran'[made].key = request[s].key
  BY <1>2
<1>3. \A n \in DOMAIN ran' : n \in DOMAIN ran \/ n = made
  <2>1. Executed \in Nat
    BY RunsNumbered, MaxRunsAssumption
  <2>2. \A n \in 1 .. made : n \in 1 .. Executed \/ n = made
    BY <2>1
  <2> QED  BY <1>2, <2>2
<1> HIDE DEF made
<1>4. /\ \A t, u \in Unrecorded(k) : t = u
      /\ stored[k] # None => Unrecorded(k) = {}
      /\ \A n \in DOMAIN ran : ran[n].key = k => stored[k] # None \/ \E t \in Unrecorded(k) : HasRun(t)
      /\ \A n, m \in DOMAIN ran : ran[n].key = k /\ ran[m].key = k => n = m
  BY DEF OneAtATime
<1>5. CASE request[s].key # k
  <2>1. ASSUME NEW t \in Sessions
        PROVE  /\ t \in Unrecorded(k)' <=> t \in Unrecorded(k)
               /\ t \in Unrecorded(k) /\ HasRun(t) => HasRun(t)'
    <3>1. CASE t = s
      BY <1>2, <1>5, <3>1 DEF Unrecorded
    <3>2. CASE t # s
      BY <1>2, <3>2 DEF Unrecorded, HasRun
    <3> QED  BY <3>1, <3>2
  <2>2. Unrecorded(k)' = Unrecorded(k) /\ \A t \in Unrecorded(k) : HasRun(t) => HasRun(t)'
    <3>1. Unrecorded(k) \subseteq Sessions /\ Unrecorded(k)' \subseteq Sessions
      BY DEF Unrecorded
    <3> QED  BY <2>1, <3>1
  <2>3. \A n \in DOMAIN ran' : ran'[n].key = k => n \in DOMAIN ran /\ ran[n].key = k
    BY <1>2, <1>2a, <1>3, <1>5
  <2> QED  BY <1>1, <1>4, <2>2, <2>3 DEF OneAtATime
<1>6. CASE request[s].key = k
  <2>1. s \in Unrecorded(k) /\ ~HasRun(s)
    BY <1>1, <1>6 DEF Unrecorded, HasRun
  <2>2. stored[k] = None /\ Unrecorded(k) = {s}
    BY <1>4, <2>1
  <2>3. \A n \in DOMAIN ran : ran[n].key # k
    BY <1>4, <2>1, <2>2
  <2>4. \A t \in Unrecorded(k)' : t = s
    BY <1>2, <2>2 DEF Unrecorded
  <2>5. s \in Unrecorded(k)' /\ HasRun(s)'
    BY <1>2, <1>6 DEF Unrecorded, HasRun
  <2>6. \A n \in DOMAIN ran' : ran'[n].key = k => n = made
    BY <1>2, <1>3, <2>3
  <2> QED  BY <1>1, <2>2, <2>4, <2>5, <2>6 DEF OneAtATime
<1> QED  BY <1>5, <1>6

\* When the response is stored, no request is on its way any more.
LEMMA PersistOne ==
  ASSUME TypeOK, RunsKnown, NEW k \in Keys, OneAtATime(k), ~Excused(k), NEW s \in Sessions, Persist(s)
  PROVE  OneAtATime(k)'
<1>1. /\ request[s].step = "persist" /\ UNCHANGED ran /\ Finish(s)
      /\ stored' = WithResponse(s)
  BY DEF Persist
<1>2. request'[s] = Idle /\ \A t \in Sessions \ {s} : request'[t] = request[t]
  BY <1>1, Over
<1>3. CASE request[s].key # k
  <2>1. stored'[k] = stored[k]
    BY <1>1, <1>3 DEF WithResponse, TypeOK
  <2> QED  BY <1>1, <1>3, <2>1, OverElsewhere
<1>4. CASE request[s].key = k
  <2>1. s \in Unrecorded(k)
    BY <1>1, <1>4 DEF Unrecorded
  <2>2. stored[k] = None /\ Unrecorded(k) = {s}
    BY <2>1 DEF OneAtATime
  <2>3. Unrecorded(k)' = {}
    BY <1>2, <2>2 DEF Unrecorded, Idle
  <2>4. stored'[k] # None
    <3>1. /\ request[s].target \in Targets /\ request[s].run \in Runs
      BY <1>1, RunKnown DEF HasRun
    <3>2. [hash |-> Hash(request[s].target), run |-> request[s].run, expired |-> FALSE] \in Record
      BY <3>1 DEF Record, Hashes, Hash, Targets
    <3> QED  BY <1>1, <1>4, <2>2, <3>2, NoneAssumption DEF WithResponse, TypeOK
  <2> QED  BY <1>1, <2>2, <2>3, <2>4 DEF OneAtATime
<1> QED  BY <1>3, <1>4

\* One step of any kind: as long as nothing excuses a second run, the requests
\* with a key take turns.
LEMMA OneAtATimeStep ==
  ASSUME IInv, [Next]_vars, NEW k \in Keys
  PROVE  OneAtATime(k)'
<1> SUFFICES ASSUME ~Excused(k)'  PROVE OneAtATime(k)'
  BY DEF OneAtATime
<1>0. ~Excused(k) /\ excused \subseteq excused'
  BY ExcusesStand
<1>i. TypeOK /\ RunsKnown /\ DropsExpired /\ OneAtATime(k)
  BY DEF IInv
<1>1. ASSUME NEW s \in Sessions, NEW j \in Keys, NEW target \in Targets, Send(s, j, target)
      PROVE  OneAtATime(k)'
  <2>1. /\ request[s].step = "idle" /\ request'[s].step = "lookup" /\ UNCHANGED <<ran, stored>>
        /\ \A t \in Sessions \ {s} : request'[t] = request[t]
    BY <1>1, <1>i DEF Send, TypeOK, Idle
  <2>2. s \notin Unrecorded(k)' /\ s \notin Unrecorded(k)
    BY <2>1 DEF Unrecorded
  <2> QED  BY <1>0, <1>i, <2>1, <2>2, ElsewhereAlone
<1>2. ASSUME NEW s \in Sessions, Lookup(s)  PROVE OneAtATime(k)'
  BY <1>2, <1>i, LookupOne
<1>3. ASSUME NEW s \in Sessions, DropExpired(s)  PROVE OneAtATime(k)'
  <2>1. /\ request[s].step = "drop" /\ request[s].step # "idle" /\ UNCHANGED ran /\ Goto(s, "handler")
        /\ stored' = [stored EXCEPT ![request[s].key] = None]
    BY <1>3 DEF DropExpired
  <2>2. request[s].key # k
    BY <1>0, <1>i, <2>1 DEF DropsExpired, Excused, Excuses
  <2>3. stored'[k] = stored[k]
    BY <1>i, <2>1, <2>2 DEF TypeOK
  <2>4. "handler" \in Steps \ {"idle"}
    BY DEF Steps
  <2> QED  BY <1>0, <1>i, <2>1, <2>2, <2>3, <2>4, OnwardElsewhere
<1>4. ASSUME NEW s \in Sessions, RunHandler(s)  PROVE OneAtATime(k)'
  BY <1>0, <1>i, <1>4, RunOne
<1>5. ASSUME NEW s \in Sessions, HandlerRefuses(s)  PROVE OneAtATime(k)'
  <2>1. Finish(s) /\ ~HasRun(s) /\ UNCHANGED <<ran, stored>>
    BY <1>5 DEF HandlerRefuses, HasRun
  <2> QED  BY <1>0, <1>i, <2>1, OverElsewhere
<1>6. ASSUME NEW s \in Sessions, HandlerFailsLate(s) \/ PersistFails(s)  PROVE OneAtATime(k)'
  <2>1. Finish(s) /\ UNCHANGED <<ran, stored>> /\ <<"unstored", request[s].key>> \in excused'
    BY <1>6 DEF HandlerFailsLate, PersistFails
  <2>2. request[s].key # k
    BY <2>1 DEF Excused, Excuses
  <2> QED  BY <1>0, <1>i, <2>1, <2>2, OverElsewhere
<1>7. ASSUME NEW s \in Sessions, Respond(s)  PROVE OneAtATime(k)'
  <2>1. /\ request[s].step = "respond" /\ request[s].step # "idle" /\ UNCHANGED <<ran, stored>>
        /\ Goto(s, "persist")
    BY <1>7 DEF Respond
  <2>2. request[s].key = k => s \in Unrecorded(k)
    BY <2>1 DEF Unrecorded
  <2>3. "persist" \in Steps \ {"idle"}
    BY DEF Steps
  <2> QED  BY <1>0, <1>i, <2>1, <2>2, <2>3, OnwardElsewhere
<1>8. ASSUME NEW s \in Sessions, Persist(s)  PROVE OneAtATime(k)'
  BY <1>0, <1>i, <1>8, PersistOne
<1>9. ASSUME NEW S \in SUBSET Sessions, ProcessEnds(S)  PROVE OneAtATime(k)'
  <2>1. /\ request' = [s \in Sessions |-> IF s \in S THEN Idle ELSE request[s]]
        /\ UNCHANGED <<ran, stored>>
        /\ \A s \in S : HasRun(s) => <<"unstored", request[s].key>> \in excused'
    BY <1>9 DEF ProcessEnds, HasRun
  <2>2. ASSUME NEW s \in Sessions
        PROVE  /\ s \in Unrecorded(k)' => s \in Unrecorded(k)
               /\ s \in Unrecorded(k) /\ HasRun(s) => s \in Unrecorded(k)' /\ HasRun(s)'
    <3>1. CASE s \in S
      <4>1. s \notin Unrecorded(k)'
        BY <2>1, <3>1 DEF Unrecorded, Idle
      <4>2. ~(s \in Unrecorded(k) /\ HasRun(s))
        BY <2>1, <3>1 DEF Unrecorded, Excused, Excuses
      <4> QED  BY <4>1, <4>2
    <3>2. CASE s \notin S
      BY <2>1, <3>2 DEF Unrecorded, HasRun
    <3> QED  BY <3>1, <3>2
  <2> QED  BY <1>0, <1>i, <2>1, <2>2, Elsewhere
<1>10. ASSUME UNCHANGED <<request, ran>>, stored'[k] = stored[k]  PROVE OneAtATime(k)'
  <2>1. \A s \in Sessions : /\ s \in Unrecorded(k)' <=> s \in Unrecorded(k)
                            /\ HasRun(s)' <=> HasRun(s)
    BY <1>10 DEF Unrecorded, HasRun
  <2> QED  BY <1>0, <1>i, <1>10, <2>1, Elsewhere
<1>11. ASSUME NEW j \in Keys, Expire(j)  PROVE OneAtATime(k)'
  <2>1. j # k
    BY <1>11 DEF Expire, Excused, Excuses
  <2> QED  BY <1>i, <1>10, <1>11, <2>1 DEF Expire, TypeOK
<1>12. ASSUME Prune  PROVE OneAtATime(k)'
  <2>1. ~(stored[k] # None /\ stored[k].expired)
    BY <1>0, <1>i DEF DropsExpired, Excused, Excuses
  <2> QED  BY <1>10, <1>12, <2>1 DEF Prune
<1>13. CASE UNCHANGED vars
  BY <1>10, <1>13 DEF vars
<1> QED  BY <1>1, <1>2, <1>3, <1>4, <1>5, <1>6, <1>7, <1>8, <1>9, <1>11, <1>12, <1>13 DEF Next

-----------------------------------------------------------------------------
(* The theorems *)

\* The inductive invariant holds.
THEOREM Invariance == Spec => []IInv
<1>1. Init => IInv
  <2> SUFFICES ASSUME Init  PROVE IInv
    OBVIOUS
  <2>1. TypeOK
    <3>1. 0 \in 0 .. MaxRuns /\ 1 .. 0 = {}
      BY MaxRunsAssumption
    <3>2. ran \in [1 .. 0 -> [key : Keys, target : Targets]]
      BY <3>1 DEF Init
    <3> QED  BY <3>1, <3>2 DEF Init, TypeOK
  <2>2. RunsKnown /\ RecordsTell /\ AnswersTell /\ DropsExpired
    BY DEF Init, Idle, RunsKnown, HasRun, RecordsTell, AnswersTell, DropsExpired
  <2>3. \A k \in Keys : Unrecorded(k) = {} /\ stored[k] = None
    BY DEF Init, Idle, Unrecorded
  <2>4. \A k \in Keys : OneAtATime(k)
    BY <2>3 DEF Init, OneAtATime
  <2> QED  BY <2>1, <2>2, <2>4 DEF IInv
<1>2. IInv /\ [Next]_vars => IInv'
  <2> SUFFICES ASSUME IInv, [Next]_vars  PROVE IInv'
    OBVIOUS
  <2>1. TypeOK' /\ RunsKnown' /\ RecordsTell' /\ AnswersTell' /\ DropsExpired'
    BY TypeStep, RunsKnownStep, RecordsTellStep, AnswersTellStep, DropsExpiredStep DEF IInv
  <2>2. \A k \in Keys : OneAtATime(k)'
    BY OneAtATimeStep
  <2> QED  BY <2>1, <2>2 DEF IInv
<1> QED  BY <1>1, <1>2, PTL DEF Spec

\* The requests, the table and the runs keep their types.
THEOREM TypeCorrect == Spec => []TypeOK
<1>1. IInv => TypeOK
  BY DEF IInv
<1> QED  BY <1>1, Invariance, PTL

\* No client is ever given the answer of a request with another key or body.
THEOREM AnswersAreOwn == Spec => []AnswersMatch
<1>1. IInv => AnswersMatch
  BY DEF IInv, AnswersTell, AnswersMatch
<1> QED  BY <1>1, Invariance, PTL

\* A handler runs twice for one key only if the second request looked it up
\* before the first had its record, answered or not, if the response was not
\* stored, or if its time was over.
THEOREM OnceUnlessExcused == Spec => []RepeatsExcused
<1>1. IInv => RepeatsExcused
  <2> SUFFICES ASSUME IInv, NEW n \in DOMAIN ran, NEW m \in DOMAIN ran, n # m, ran[n].key = ran[m].key
               PROVE  Excused(ran[n].key)
    BY DEF RepeatsExcused, Excused
  <2>1. ran[n].key \in Keys
    BY RunsNumbered DEF IInv
  <2> QED  BY <2>1 DEF IInv, OneAtATime
<1> QED  BY <1>1, Invariance, PTL

=============================================================================
