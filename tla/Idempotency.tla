---------------------------- MODULE Idempotency ----------------------------
(***************************************************************************)
(* The idempotency middleware in front of the three POST routes that take  *)
(* an Idempotency-Key, and the table in which it keeps the responses.      *)
(*                                                                         *)
(* A request looks its key up, runs the handler if there is no record, and *)
(* stores the response as it sends it: the answer does not wait for the    *)
(* insert, and nothing reserves the key between the lookup and the insert. *)
(* The middleware is an async function that nothing catches: a database    *)
(* error in it is an unhandled rejection, which ends the process and every *)
(* request in it.                                                          *)
(***************************************************************************)
EXTENDS Naturals, FiniteSets

CONSTANTS
    Keys,       \* values of the Idempotency-Key header
    Places,     \* what a request is about: a route, with the id in its URL
    Bodies,     \* request bodies
    Sessions,   \* requests that may be in flight at once
    MaxRuns,    \* bound: executions of a handler
    None        \* no record

ASSUME MaxRunsAssumption == MaxRuns \in Nat

Targets == [place : Places, body : Bodies]
Runs == 1 .. MaxRuns
Excuses == {"overlap", "answered", "unstored", "expired"}
Steps == {"idle", "lookup", "drop", "handler", "respond", "persist"}

VARIABLES
    stored,    \* idempotency_keys: record of each key, or None
    request,   \* where each request stands; `run` is its handler's, if any
    ran,       \* history: key and target of each execution of a handler
    answers,   \* history: the successful answers sent, each with its run
    excused    \* history: why a handler may have run again for a key

vars == <<stored, request, ran, answers, excused>>

\* Mutant: hashes the path and leaves out the body.
HashOfPlace(target) == target.place

\* buildRequestHash: the method is POST and the path, relative to the router
\* the route is mounted on, "/", in all three routes; the body remains.
Hash(target) == target.body
Hashes == Bodies

Record == [hash : Hashes, run : Runs, expired : BOOLEAN]

ASSUME NoneAssumption == None \notin Record

Idle == [step |-> "idle", key |-> None, target |-> None, run |-> 0]
InFlight == [step : Steps \ {"idle"}, key : Keys, target : Targets, run : 0 .. MaxRuns]

TypeOK ==
    /\ stored \in [Keys -> Record \union {None}]
    /\ request \in [Sessions -> InFlight \union {Idle}]
    /\ \E n \in 0 .. MaxRuns : ran \in [1 .. n -> [key : Keys, target : Targets]]
    /\ answers \subseteq [key : Keys, target : Targets, run : Runs]
    /\ excused \subseteq Excuses \X Keys

Init ==
    /\ stored = [k \in Keys |-> None]
    /\ request = [s \in Sessions |-> Idle]
    /\ ran = [n \in {} |-> None]
    /\ answers = {}
    /\ excused = {}

-----------------------------------------------------------------------------
Executed == Cardinality(DOMAIN ran)

\* Requests that have run the handler, or are about to, and have no record yet.
Unrecorded(k) ==
    {s \in Sessions : request[s].key = k /\ request[s].step \in {"drop", "handler", "respond", "persist"}}

\* Why a request that looks key k up now may run the handler again: another is
\* at work on it, or has been answered and its record is still to be inserted.
Crossing(k) ==
    {<<IF request[s].step = "persist" THEN "answered" ELSE "overlap", k>> : s \in Unrecorded(k)}

Goto(s, step) == request' = [request EXCEPT ![s].step = step]
Finish(s) == request' = [request EXCEPT ![s] = Idle]

Answer(s, run) ==
    answers' = answers \union {[key |-> request[s].key, target |-> request[s].target, run |-> run]}

Send(s, k, target) ==
    /\ request[s] = Idle
    /\ request' = [request EXCEPT ![s] = [step |-> "lookup", key |-> k, target |-> target, run |-> 0]]
    /\ UNCHANGED <<stored, ran, answers, excused>>

\* Mutant: any record of the key is replayed.
VerdictOnKey(record, hash) ==
    IF record = None THEN "handler" ELSE IF record.expired THEN "drop" ELSE "replay"

\* What the record found means for a request.
Verdict(record, hash) ==
    CASE record = None -> "handler"
      [] record # None /\ record.expired -> "drop"
      [] record # None /\ ~record.expired /\ record.hash # hash -> "conflict"
      [] OTHER -> "replay"

Lookup(s) ==
    LET k == request[s].key
        verdict == Verdict(stored[k], Hash(request[s].target))
    IN  /\ request[s].step = "lookup"
        /\ IF verdict \in {"handler", "drop"}
           THEN /\ Goto(s, verdict)
                /\ excused' = excused \union Crossing(k)
           ELSE Finish(s) /\ UNCHANGED excused
        /\ IF verdict = "replay" THEN Answer(s, stored[k].run) ELSE UNCHANGED answers
        /\ UNCHANGED <<stored, ran>>

\* The record is deleted by its key, whichever it is by now.
DropExpired(s) ==
    /\ request[s].step = "drop"
    /\ stored[request[s].key] # None
    /\ stored' = [stored EXCEPT ![request[s].key] = None]
    /\ Goto(s, "handler")
    /\ UNCHANGED <<ran, answers, excused>>

\* The handler takes effect.
RunHandler(s) ==
    /\ request[s].step = "handler"
    /\ Executed < MaxRuns
    /\ ran' = [n \in 1 .. Executed + 1 |->
                  IF n <= Executed THEN ran[n]
                                   ELSE [key |-> request[s].key, target |-> request[s].target]]
    /\ request' = [request EXCEPT ![s].step = "respond", ![s].run = Executed + 1]
    /\ UNCHANGED <<stored, answers, excused>>

\* The request is refused, or the handler throws before it changed anything.
HandlerRefuses(s) ==
    /\ request[s].step = "handler"
    /\ Finish(s)
    /\ UNCHANGED <<stored, ran, answers, excused>>

\* It throws after it took effect (createIncident inserts the row, then fails
\* to write its event): the answer is an error, and is not stored.
HandlerFailsLate(s) ==
    /\ request[s].step = "respond"
    /\ excused' = excused \union {<<"unstored", request[s].key>>}
    /\ Finish(s)
    /\ UNCHANGED <<stored, ran, answers>>

\* res.json: the insert is started, and the answer goes out without it.
Respond(s) ==
    /\ request[s].step = "respond"
    /\ Answer(s, request[s].run)
    /\ Goto(s, "persist")
    /\ UNCHANGED <<stored, ran, excused>>

\* Mutant: the response is not stored.
NothingStored(s) == stored

\* The insert fails, and is logged, if there is a record of the key.
WithResponse(s) ==
    IF stored[request[s].key] = None
    THEN [stored EXCEPT ![request[s].key] =
             [hash |-> Hash(request[s].target), run |-> request[s].run, expired |-> FALSE]]
    ELSE stored

Persist(s) ==
    /\ request[s].step = "persist"
    /\ stored' = WithResponse(s)
    /\ Finish(s)
    /\ UNCHANGED <<ran, answers, excused>>

PersistFails(s) ==
    /\ request[s].step = "persist"
    /\ excused' = excused \union {<<"unstored", request[s].key>>}
    /\ Finish(s)
    /\ UNCHANGED <<stored, ran, answers>>

\* A process ends with the requests S in it, by a signal or by an error that
\* nothing caught (the database was away, or the expired record was gone when
\* a request came to delete it); what ran without a record may be run again.
ProcessEnds(S) ==
    /\ \E s \in S : request[s] # Idle
    /\ request' = [s \in Sessions |-> IF s \in S THEN Idle ELSE request[s]]
    /\ excused' = excused \union
          {<<"unstored", request[s].key>> : s \in {t \in S : request[t].step \in {"respond", "persist"}}}
    /\ UNCHANGED <<stored, ran, answers>>

\* The time to live is over.
Expire(k) ==
    /\ stored[k] # None
    /\ ~stored[k].expired
    /\ stored' = [stored EXCEPT ![k].expired = TRUE]
    /\ excused' = excused \union {<<"expired", k>>}
    /\ UNCHANGED <<request, ran, answers>>

\* pruneExpiredIdempotencyKeys, in the cleanup of the worker.
Prune ==
    /\ \E k \in Keys : stored[k] # None /\ stored[k].expired
    /\ stored' = [k \in Keys |->
                     IF stored[k] # None /\ stored[k].expired THEN None ELSE stored[k]]
    /\ UNCHANGED <<request, ran, answers, excused>>

Next ==
    \/ \E s \in Sessions :
          \/ \E k \in Keys, target \in Targets : Send(s, k, target)
          \/ Lookup(s)
          \/ DropExpired(s)
          \/ RunHandler(s)
          \/ HandlerRefuses(s)
          \/ HandlerFailsLate(s)
          \/ Respond(s)
          \/ Persist(s)
          \/ PersistFails(s)
    \/ \E S \in SUBSET Sessions : ProcessEnds(S)
    \/ \E k \in Keys : Expire(k)
    \/ Prune

Spec == Init /\ [][Next]_vars

-----------------------------------------------------------------------------
(* Properties *)

\* A successful answer is never that of a request with another key or body:
\* the run it tells of was made for the same key and the same hash.
AnswersMatch ==
    \A a \in answers :
        ran[a.run].key = a.key /\ Hash(ran[a.run].target) = Hash(a.target)

\* The handler runs twice for one key only if a second request looked it up
\* while the first was at work or, answered already, had its record still to
\* insert; if the first response was not stored; or if its time was over.  So
\* a client that waits for its answer is served from the table once the insert
\* is through, and not before: the answer promises no record.
RepeatsExcused ==
    \A n, m \in DOMAIN ran :
        n # m /\ ran[n].key = ran[m].key => \E why \in Excuses : <<why, ran[n].key>> \in excused

\* "persist the key, Request_Hash, response status, and response body [...]
\* before returning the response", says requirement 3.3 of the reliability
\* specification: no request that looks the key up after the answer would then
\* run the handler again.  The answer does not wait for the insert.
AnsweredIsRecorded ==
    \A n, m \in DOMAIN ran :
        n # m /\ ran[n].key = ran[m].key =>
            \E why \in Excuses \ {"answered"} : <<why, ran[n].key>> \in excused

\* "The actual route handler runs only once per unique key", says
\* idempotency.ts:59: only once until the key expires, that is.
OncePerKey ==
    \A n, m \in DOMAIN ran :
        n # m /\ ran[n].key = ran[m].key => <<"expired", ran[n].key>> \in excused

\* The middleware "hashes method + path + body", says idempotency.ts:12, so
\* that a key reused for another assignment's URL would be refused.  The path
\* it hashes does not hold the assignment's id.
AnswersAreForTheTarget ==
    \A a \in answers : ran[a.run].target = a.target

=============================================================================
