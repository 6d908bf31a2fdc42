--------------------------- MODULE EventPipeline ---------------------------
(***************************************************************************)
(* How a domain event gets from the transaction that wrote it to its       *)
(* handler: the outbox table, the ticks of the outbox publisher that move  *)
(* PENDING rows to the BullMQ queue, and the event workers that consume    *)
(* the jobs.                                                               *)
(*                                                                         *)
(* A tick of the publisher reads a batch and works through what it read;   *)
(* setInterval starts the next one whether or not the last has ended, and  *)
(* every worker process has its own, so that ticks overlap.  A worker      *)
(* looks the event up in processed_events, runs the handler and records    *)
(* the event, in three separate statements.                                *)
(*                                                                         *)
(* BullMQ is modelled from how the code uses it: a job id is added once    *)
(* while a job of that id exists, a job that throws is tried again up to a *)
(* number of attempts, and one whose worker is not heard of is given to    *)
(* another worker once, and failed the second time.                        *)
(***************************************************************************)
EXTENDS Naturals, Sequences, FiniteSets

CONSTANTS
    MaxEvents,            \* bound: events written
    Ticks,                \* ticks of the publisher that may overlap
    Workers,              \* jobs that may be processed at once
    BatchSize,            \* BATCH_SIZE
    MaxPublishAttempts,   \* MAX_PUBLISH_ATTEMPTS
    MaxJobAttempts,       \* WORKER_MAX_ATTEMPTS
    MaxCrashes,           \* bound: ticks and workers lost
    Nobody                \* owner of a job that no worker holds

ASSUME BoundsAssumption ==
    /\ {MaxEvents, MaxCrashes} \subseteq Nat
    /\ {BatchSize, MaxPublishAttempts, MaxJobAttempts} \subseteq Nat \ {0}
ASSUME NobodyAssumption == Nobody \notin Workers

Events == 1 .. MaxEvents     \* in the order of createdAt
OutboxStatus == {"PENDING", "PUBLISHED", "FAILED"}
JobState == {"none", "waiting", "active", "completed", "failed"}
TickSteps == {"idle", "enqueue", "publish", "fail"}
WorkerSteps == {"idle", "check", "handle", "follow", "mark", "ack"}

VARIABLES
    written,    \* events 1 .. written are in the outbox
    outbox,     \* their status and attempts
    tick,       \* of each tick: where it stands, and what is left of its batch
    job,        \* the queue's job of each event
    worker,     \* of each worker: where it stands, and the event it has
    processed,  \* processed_events
    effects,    \* history: how many times the handler of an event took effect
    followed,   \* history: how many follow-up events it wrote
    crashes

vars == <<written, outbox, tick, job, worker, processed, effects, followed, crashes>>

Seen == [event : Events, attempts : Nat]

IdleTick == [step |-> "idle", batch |-> <<>>]
IdleWorker == [step |-> "idle", event |-> 0]
NoJob == [state |-> "none", attempts |-> 0, stalled |-> FALSE, owner |-> Nobody]

TypeOK ==
    /\ written \in 0 .. MaxEvents
    /\ outbox \in [Events -> [status : OutboxStatus, attempts : 0 .. MaxPublishAttempts]]
    /\ tick \in [Ticks -> [step : TickSteps, batch : Seq(Seen)]]
    /\ \A t \in Ticks : /\ Len(tick[t].batch) <= BatchSize
                        /\ tick[t].step # "idle" <=> tick[t].batch # <<>>
    /\ job \in [Events -> [state : JobState, attempts : 0 .. MaxJobAttempts,
                           stalled : BOOLEAN, owner : Workers \union {Nobody}]]
    /\ worker \in [Workers -> [step : WorkerSteps, event : 0 .. MaxEvents]]
    /\ processed \subseteq Events
    /\ effects \in [Events -> Nat]
    /\ followed \in [Events -> Nat]
    /\ crashes \in 0 .. MaxCrashes

Init ==
    /\ written = 0
    /\ outbox = [e \in Events |-> [status |-> "PENDING", attempts |-> 0]]
    /\ tick = [t \in Ticks |-> IdleTick]
    /\ job = [e \in Events |-> NoJob]
    /\ worker = [w \in Workers |-> IdleWorker]
    /\ processed = {}
    /\ effects = [e \in Events |-> 0]
    /\ followed = [e \in Events |-> 0]
    /\ crashes = 0

-----------------------------------------------------------------------------
(* The outbox table *)

\* writeOutboxEvent, when the transaction around it commits, and
\* writeOutboxEventDirect.
WriteEvent ==
    /\ written < MaxEvents
    /\ written' = written + 1
    /\ UNCHANGED <<outbox, tick, job, worker, processed, effects, followed, crashes>>

-----------------------------------------------------------------------------
(* publishPendingOutboxEvents *)

Pending == {e \in 1 .. written : outbox[e].status = "PENDING" /\ outbox[e].attempts < MaxPublishAttempts}

\* The oldest n of a set of events, as a tick sees them.
Oldest(S, n) ==
    LET older(e) == Cardinality({f \in S : f < e})
        size == IF Cardinality(S) < n THEN Cardinality(S) ELSE n
        nth(k) == CHOOSE e \in S : older(e) = k - 1
    IN  [k \in 1 .. size |-> [event |-> nth(k), attempts |-> outbox[nth(k)].attempts]]

\* Mutant: the loop ends after the first event of the batch.
StopAfterOne(t) == tick' = [tick EXCEPT ![t] = [step |-> "idle", batch |-> Tail(@.batch)]]

\* The tick goes on to the next event of its batch, or ends.
NextOf(t) ==
    LET rest == Tail(tick[t].batch)
    IN  tick' = [tick EXCEPT ![t] = [step |-> IF rest = <<>> THEN "idle" ELSE "enqueue", batch |-> rest]]

AtStep(t, step) == tick' = [tick EXCEPT ![t].step = step]

Poll(t) ==
    /\ tick[t].step = "idle"
    /\ Pending # {}
    /\ tick' = [tick EXCEPT ![t] = [step |-> "enqueue", batch |-> Oldest(Pending, BatchSize)]]
    /\ UNCHANGED <<written, outbox, job, worker, processed, effects, followed, crashes>>

\* queue.add: nothing happens if there is a job of this id.
Added(e) ==
    IF job[e].state = "none" THEN [job EXCEPT ![e] = [NoJob EXCEPT !.state = "waiting"]] ELSE job

Enqueue(t) ==
    /\ tick[t].step = "enqueue"
    /\ job' = Added(Head(tick[t].batch).event)
    /\ AtStep(t, "publish")
    /\ UNCHANGED <<written, outbox, worker, processed, effects, followed, crashes>>

\* All retries failed, with an error that Redis or the library returned; an
\* answer may have been lost, and the job be there.
EnqueueFails(t) ==
    /\ tick[t].step = "enqueue"
    /\ job' \in {job, Added(Head(tick[t].batch).event)}
    /\ AtStep(t, "fail")
    /\ UNCHANGED <<written, outbox, worker, processed, effects, followed, crashes>>

MarkPublished(t) ==
    /\ tick[t].step = "publish"
    /\ outbox' = [outbox EXCEPT ![Head(tick[t].batch).event].status = "PUBLISHED"]
    /\ NextOf(t)
    /\ UNCHANGED <<written, job, worker, processed, effects, followed, crashes>>

\* The update failed: the catch block takes it for a failure to publish.
MarkFails(t) ==
    /\ tick[t].step = "publish"
    /\ AtStep(t, "fail")
    /\ UNCHANGED <<written, outbox, job, worker, processed, effects, followed, crashes>>

\* Mutant: off by one, the last attempt leaves the row PENDING.
StatusAfterLast(attempts) == IF attempts > MaxPublishAttempts THEN "FAILED" ELSE "PENDING"

StatusAfter(attempts) == IF attempts >= MaxPublishAttempts THEN "FAILED" ELSE "PENDING"

\* The attempts are counted from what the tick read when it started, and the
\* status is written whatever the row has become since.
RecordFailure(t) ==
    LET seen == Head(tick[t].batch)
    IN  /\ tick[t].step = "fail"
        /\ outbox' = [outbox EXCEPT ![seen.event] =
                         [status |-> StatusAfter(seen.attempts + 1), attempts |-> seen.attempts + 1]]
        /\ NextOf(t)
        /\ UNCHANGED <<written, job, worker, processed, effects, followed, crashes>>

\* The process died, or the database was away when the failure was to be
\* recorded: what is left of the batch waits for another tick.
TickLost(t) ==
    /\ tick[t].step # "idle"
    /\ crashes < MaxCrashes
    /\ crashes' = crashes + 1
    /\ tick' = [tick EXCEPT ![t] = IdleTick]
    /\ UNCHANGED <<written, outbox, job, worker, processed, effects, followed>>

-----------------------------------------------------------------------------
(* processJob, and the queue around it *)

\* Mutant: the event is recorded before it is handled.
RecordedFirst(w) == IF worker[w].event \in processed THEN "ack" ELSE "mark"

\* isAlreadyProcessed
AfterCheck(w) == IF worker[w].event \in processed THEN "ack" ELSE "handle"

Becomes(w, step) == worker' = [worker EXCEPT ![w].step = step]

Take(w, e) ==
    /\ worker[w].step = "idle"
    /\ job[e].state = "waiting"
    /\ job' = [job EXCEPT ![e].state = "active", ![e].owner = w]
    /\ worker' = [worker EXCEPT ![w] = [step |-> "check", event |-> e]]
    /\ UNCHANGED <<written, outbox, tick, processed, effects, followed, crashes>>

Check(w) ==
    /\ worker[w].step = "check"
    /\ Becomes(w, AfterCheck(w))
    /\ UNCHANGED <<written, outbox, tick, job, processed, effects, followed, crashes>>

\* The handler does its work: a priority is saved, an assignment replaced.
Handle(w) ==
    /\ worker[w].step = "handle"
    /\ effects' = [effects EXCEPT ![worker[w].event] = @ + 1]
    /\ Becomes(w, "follow")
    /\ UNCHANGED <<written, outbox, tick, job, processed, followed, crashes>>

\* It writes its follow-up event, with a new id, in a statement of its own.
FollowUp(w) ==
    /\ worker[w].step = "follow"
    /\ followed' = [followed EXCEPT ![worker[w].event] = @ + 1]
    /\ Becomes(w, "mark")
    /\ UNCHANGED <<written, outbox, tick, job, processed, effects, crashes>>

\* markProcessed: an upsert, that may find the record there.
MarkProcessed(w) ==
    /\ worker[w].step = "mark"
    /\ processed' = processed \union {worker[w].event}
    /\ Becomes(w, "ack")
    /\ UNCHANGED <<written, outbox, tick, job, effects, followed, crashes>>

Owns(w) == job[worker[w].event].state = "active" /\ job[worker[w].event].owner = w

\* The queue takes the outcome only from the worker that holds the job.
Settle(w, outcome) ==
    /\ job' = IF Owns(w) THEN [job EXCEPT ![worker[w].event] = outcome] ELSE job
    /\ worker' = [worker EXCEPT ![w] = IdleWorker]

Complete(w) ==
    /\ worker[w].step = "ack"
    /\ Settle(w, [job[worker[w].event] EXCEPT !.state = "completed", !.owner = Nobody])
    /\ UNCHANGED <<written, outbox, tick, processed, effects, followed, crashes>>

\* A statement throws: the job is tried again, up to its number of attempts.
Throw(w) ==
    LET made == job[worker[w].event].attempts + 1
    IN  /\ worker[w].step \in {"check", "handle", "follow", "mark"}
        /\ Settle(w, [job[worker[w].event] EXCEPT
                         !.state = IF made >= MaxJobAttempts THEN "failed" ELSE "waiting",
                         !.attempts = made, !.owner = Nobody])
        /\ UNCHANGED <<written, outbox, tick, processed, effects, followed, crashes>>

\* The process died; its job stays active until the queue notices.
WorkerLost(w) ==
    /\ worker[w].step # "idle"
    /\ crashes < MaxCrashes
    /\ crashes' = crashes + 1
    /\ job' = IF Owns(w) THEN [job EXCEPT ![worker[w].event].owner = Nobody] ELSE job
    /\ worker' = [worker EXCEPT ![w] = IdleWorker]
    /\ UNCHANGED <<written, outbox, tick, processed, effects, followed>>

\* The lock of an active job has run out: its worker is gone, or too slow.
Stall(e) ==
    /\ job[e].state = "active"
    /\ job' = [job EXCEPT ![e] = [@ EXCEPT !.state = IF job[e].stalled THEN "failed" ELSE "waiting",
                                           !.stalled = TRUE, !.owner = Nobody]]
    /\ UNCHANGED <<written, outbox, tick, worker, processed, effects, followed, crashes>>

\* A completed job is removed after a day: its id may be added again.
RemoveCompleted(e) ==
    /\ job[e].state = "completed"
    /\ job' = [job EXCEPT ![e] = NoJob]
    /\ UNCHANGED <<written, outbox, tick, worker, processed, effects, followed, crashes>>

TickStep(t) ==
    \/ Poll(t)
    \/ Enqueue(t)
    \/ EnqueueFails(t)
    \/ MarkPublished(t)
    \/ MarkFails(t)
    \/ RecordFailure(t)

WorkerStep(w) ==
    \/ \E e \in Events : Take(w, e)
    \/ Check(w)
    \/ Handle(w)
    \/ FollowUp(w)
    \/ MarkProcessed(w)
    \/ Complete(w)
    \/ Throw(w)

Next ==
    \/ WriteEvent
    \/ \E t \in Ticks : TickStep(t) \/ TickLost(t)
    \/ \E w \in Workers : WorkerStep(w) \/ WorkerLost(w)
    \/ \E e \in Events : Stall(e) \/ RemoveCompleted(e)

\* setInterval starts ticks for ever, workers take and finish their jobs, well
\* or badly, and the queue looks for stalled jobs.  While the connection to
\* Redis is down a call waits (maxRetriesPerRequest is null): the assumption
\* is that it comes back, so that every call ends, be it with an error.
\* Nothing says that a call or a handler ever succeeds.
Fairness ==
    /\ \A t \in Ticks : WF_vars(TickStep(t))
    /\ \A w \in Workers : WF_vars(WorkerStep(w))
    /\ \A e \in Events : WF_vars(Stall(e) /\ job[e].owner = Nobody)

Spec == Init /\ [][Next]_vars /\ Fairness

-----------------------------------------------------------------------------
(* Properties *)

\* The job of event e is still to be processed.
Queued(e) == job[e].state \in {"waiting", "active"}

\* The event was given up for good, and a row or a job says so.
GivenUp(e) == outbox[e].status = "FAILED" \/ job[e].state = "failed"

\* No event is lost in silence: each one is still PENDING with attempts left,
\* or in the queue, or handled, or on record as given up (a failed job stays
\* on record for seven days, which is longer than this model looks).
NothingLostInSilence ==
    \A e \in 1 .. written :
        e \in Pending \/ Queued(e) \/ effects[e] > 0 \/ GivenUp(e)

\* A job completes only when its handler has run to its end, follow-up event
\* included, be it under another worker: an event is never skipped because of
\* a handler that failed halfway.
CompletedMeansHandled ==
    \A e \in Events :
        job[e].state = "completed" \/ e \in processed => effects[e] > 0 /\ followed[e] > 0

\* Every event is settled in the end, and stays so: handled, or on record as
\* given up, however the ticks that overlap undo each other's bookkeeping.
EverySettled == \A e \in Events : e <= written ~> [](effects[e] > 0 \/ GivenUp(e))

\* "On Redis failure: event stays PENDING in DB", says the header of
\* outbox.publisher.ts, and "event stays PENDING if all retries fail" its loop.
StaysPending == \A e \in Events : outbox[e].status # "FAILED"

\* The unique eventId of processed_events "enforces at-most-once processing",
\* says schema.prisma:399.
HandledAtMostOnce == \A e \in Events : effects[e] <= 1

=============================================================================
