-------------------------- MODULE FailureResponse --------------------------
(***************************************************************************)
(* From a resource that fails on a mission to its replacement: the status  *)
(* edits of staff and the events they write, the delivery of the events,   *)
(* and the handlers that look the mission up and re-optimize it, over the  *)
(* tables of Dispatch and next to its requests.                            *)
(*                                                                         *)
(* An edit reads the row, updates it, and writes its events, in statements *)
(* of their own; it may be cut short between any two.  The delivery is     *)
(* what EventPipeline promises: an event is handled at least once, in any  *)
(* order, or given up on record.  A worker is a session of Dispatch while  *)
(* it re-optimizes.  Capacities, types and routes are left out here, so    *)
(* that a resource is infeasible exactly when its status says so.          *)
(***************************************************************************)
EXTENDS Dispatch, Bags, BagsExt

CONSTANTS
    Requests,         \* sessions that are requests to the API
    Workers,          \* sessions that are event workers
    Editors,          \* edits of a resource that may be in flight at once
    MaxEdits,         \* bound: edits and deactivations of resources
    MaxJobAttempts,   \* WORKER_MAX_ATTEMPTS
    MaxTransactions   \* maxAttempts of withRetry

ASSUME SessionsAssumption ==
    /\ Sessions = Requests \union Workers
    /\ Requests \intersect Workers = {}
ASSUME AttemptsAssumption ==
    {MaxJobAttempts, MaxTransactions} \subseteq Nat \ {0} /\ MaxEdits \in Nat

VARIABLES
    edit,       \* of each editor: what it has read and where it stands
    events,     \* the bag of events on their way to a worker
    job,        \* of each worker: the event it handles and where it stands
    edits,      \* edits made
    unheard,    \* history: resources whose last failure no event tells of any more
    failedOn,   \* history: the assignments during which their resource failed
    attempted   \* history: the assignments found infeasible, then replaced or logged

frVars == <<vars, edit, events, job, edits, unheard, failedOn, attempted>>

FailureStatuses == {"FAILED", "MAINTENANCE", "UNAVAILABLE"}

Edit == [step : {"write", "tell", "tell.failure"}, res : Resources,
         prev : ResourceStatus, to : StaffStatuses]

Changed(r, to) == [kind |-> "changed", about |-> r, to |-> to, tries |-> 0]
FailureDetected(r) == [kind |-> "failure", about |-> r, to |-> None, tries |-> 0]
Requested(a) == [kind |-> "reopt", about |-> a, to |-> None, tries |-> 0]

Event == [kind : {"changed", "failure", "reopt"}, about : Resources \union AssignmentIds,
          to : ResourceStatus \union {None}, tries : 0 .. MaxJobAttempts - 1]

Job == [step : {"handle", "request", "reopt", "mark"}, event : Event,
        found : AssignmentIds \union {None}, infeasible : BOOLEAN, runs : 1 .. MaxTransactions]

FRTypeOK ==
    /\ TypeOK
    /\ edit \in [Editors -> Edit \union {None}]
    /\ BagToSet(events) \subseteq Event
    /\ job \in [Workers -> Job \union {None}]
    /\ edits \in 0 .. MaxEdits
    /\ unheard \subseteq Resources
    /\ failedOn \subseteq AssignmentIds
    /\ attempted \subseteq AssignmentIds

FRInit ==
    /\ Init
    /\ edit = [x \in Editors |-> None]
    /\ events = EmptyBag
    /\ job = [w \in Workers |-> None]
    /\ edits = 0
    /\ unheard = {}
    /\ failedOn = {}
    /\ attempted = {}

-----------------------------------------------------------------------------
(* updateResource and deactivateResource *)

\* The status the resource takes is a failure of the missions it is on.
NoteFailure(r, to) ==
    failedOn' = IF to \in FailureStatuses THEN failedOn \union ActiveOfResource(r) ELSE failedOn

ReadResource(x, r, to) ==
    /\ edit[x] = None
    /\ edits < MaxEdits
    /\ edits' = edits + 1
    /\ edit' = [edit EXCEPT ![x] = [step |-> "write", res |-> r, prev |-> resource[r], to |-> to]]
    /\ UNCHANGED <<vars, events, job, unheard, failedOn, attempted>>

\* Whether the edit is told of: the new status against the one read first,
\* which the row may not have had for some time.
IsChange(e) == e.to # e.prev

WriteResource(x) ==
    LET e == edit[x]
    IN  /\ e # None
        /\ e.step = "write"
        /\ UpdateResource(e.res, e.to)
        /\ NoteFailure(e.res, e.to)
        /\ edit' = [edit EXCEPT ![x] = IF IsChange(e) THEN [e EXCEPT !.step = "tell"] ELSE None]
        /\ unheard' = IF e.to \in FailureStatuses /\ ~IsChange(e)
                      THEN unheard \union {e.res} ELSE unheard
        /\ UNCHANGED <<events, job, edits, attempted>>

\* Mutant: only a failure is told of, not maintenance or being out of service.
TellsFailuresOnly(e) == IF e.to = "FAILED" THEN SetToBag({Changed(e.res, e.to)}) ELSE EmptyBag

ToldOf(e) == SetToBag({Changed(e.res, e.to)})

TellChanged(x) ==
    LET e == edit[x]
    IN  /\ e # None
        /\ e.step = "tell"
        /\ events' = events (+) ToldOf(e)
        /\ edit' = [edit EXCEPT ![x] = IF e.to = "FAILED"
                                       THEN [e EXCEPT !.step = "tell.failure"] ELSE None]
        /\ unheard' = IF e.to \in FailureStatuses THEN unheard \ {e.res} ELSE unheard
        /\ UNCHANGED <<vars, job, edits, failedOn, attempted>>

TellFailure(x) ==
    LET e == edit[x]
    IN  /\ e # None
        /\ e.step = "tell.failure"
        /\ events' = BagAdd(events, FailureDetected(e.res))
        /\ edit' = [edit EXCEPT ![x] = None]
        /\ UNCHANGED <<vars, job, edits, unheard, failedOn, attempted>>

\* A statement fails or the process dies: what was not written never is.
EditLost(x) ==
    LET e == edit[x]
    IN  /\ e # None
        /\ edit' = [edit EXCEPT ![x] = None]
        /\ unheard' = IF e.step = "tell" /\ e.to \in FailureStatuses
                      THEN unheard \union {e.res} ELSE unheard
        /\ UNCHANGED <<vars, events, job, edits, failedOn, attempted>>

\* deactivateResource writes no event at all.
Deactivate(r) ==
    /\ edits < MaxEdits
    /\ edits' = edits + 1
    /\ DeactivateResource(r)
    /\ NoteFailure(r, "UNAVAILABLE")
    /\ unheard' = unheard \union {r}
    /\ UNCHANGED <<edit, events, job, attempted>>

-----------------------------------------------------------------------------
(* Delivery *)

\* What nobody will hear of when event e is given up: e is about a failure,
\* or asks to re-optimize a mission that is still on.
LostWith(e) ==
    CASE e.kind = "changed" /\ e.to \in FailureStatuses -> {e.about}
      [] e.kind = "reopt" /\ e.about \in Active -> {assignment[e.about].res}
      [] OTHER -> {}

Take(w) ==
    /\ job[w] = None
    /\ \E e \in BagToSet(events) :
          /\ e.kind # "failure"
          /\ events' = BagRemove(events, e)
          /\ job' = [job EXCEPT ![w] = [step |-> "handle", event |-> e, found |-> None,
                                        infeasible |-> FALSE, runs |-> 1]]
    /\ UNCHANGED <<vars, edit, edits, unheard, failedOn, attempted>>

\* The publisher runs out of attempts.
Drop ==
    /\ \E e \in BagToSet(events) :
          /\ events' = BagRemove(events, e)
          /\ unheard' = unheard \union LostWith(e)
    /\ UNCHANGED <<vars, edit, job, edits, failedOn, attempted>>

\* Mutant: one attempt too many.
TriedAgainLate(e) == e.tries < MaxJobAttempts

TriedAgain(e) == e.tries + 1 < MaxJobAttempts

\* The handler throws, its transaction is rolled back, or its process dies:
\* the job runs again from the start, or has failed for good.
Throw(w) ==
    LET e == job[w].event
    IN  /\ job[w] # None
        /\ IF pc[w] = "idle" THEN UNCHANGED vars ELSE Abandon(w)
        /\ job' = [job EXCEPT ![w] = None]
        /\ events' = IF TriedAgain(e) THEN BagAdd(events, [e EXCEPT !.tries = @ + 1]) ELSE events
        /\ unheard' = IF TriedAgain(e) \/ job[w].step = "mark" THEN unheard ELSE unheard \union LostWith(e)
        /\ UNCHANGED <<edit, edits, failedOn, attempted>>

Done(w) ==
    /\ job[w] # None
    /\ job[w].step = "mark"
    /\ job' = [job EXCEPT ![w] = None]
    /\ UNCHANGED <<vars, edit, events, edits, unheard, failedOn, attempted>>

-----------------------------------------------------------------------------
(* The handlers *)

Handles(w, kind) ==
    /\ job[w] # None
    /\ job[w].step = "handle"
    /\ job[w].event.kind = kind

\* The handler's query, at the time it runs.
MissionsOf(r) == ActiveOfResource(r)

\* handleResourceStatusChanged
HandleChanged(w) ==
    LET e == job[w].event
        missions == IF e.to \in FailureStatuses THEN MissionsOf(e.about) ELSE {}
    IN  /\ Handles(w, "changed")
        /\ IF missions = {}
           THEN job' = [job EXCEPT ![w].step = "mark"]
           ELSE \E a \in missions : job' = [job EXCEPT ![w].step = "request", ![w].found = a]
        /\ UNCHANGED <<vars, edit, events, edits, unheard, failedOn, attempted>>

RequestReoptimization(w) ==
    /\ job[w] # None
    /\ job[w].step = "request"
    /\ events' = BagAdd(events, Requested(job[w].found))
    /\ job' = [job EXCEPT ![w].step = "mark"]
    /\ UNCHANGED <<vars, edit, edits, unheard, failedOn, attempted>>

\* RESOURCE_FAILURE_DETECTED goes to the same handler and carries no newStatus,
\* which is in no set of failure statuses: it returns at once, in one step.
HandleFailureDetected(w) ==
    /\ job[w] = None
    /\ \E e \in BagToSet(events) :
          /\ e.kind = "failure"
          /\ events' = BagRemove(events, e)
    /\ UNCHANGED <<vars, edit, job, edits, unheard, failedOn, attempted>>

\* Mutant: takes the event's word for it.
InfeasibleByTrigger(a) == TRUE

\* assessCurrentAssignment, on the status just read.
Infeasible(a) == resource[assignment[a].res] \in FailureStatuses

\* handleReoptimizationRequested calls reoptimizeAssignment, step by step.
LoadForEvent(w, a) ==
    /\ Handles(w, "reopt")
    /\ job[w].event.about = a
    /\ ReoptLoad(w, a)
    /\ job' = [job EXCEPT ![w].step = "reopt", ![w].infeasible = Infeasible(a)]
    /\ UNCHANGED <<edit, events, edits, unheard, failedOn, attempted>>

InReopt(w) == job[w] # None /\ job[w].step = "reopt"

ChooseForEvent(w, q) ==
    /\ InReopt(w)
    /\ job[w].infeasible
    /\ ReoptChoose(w, q)
    /\ UNCHANGED <<edit, events, job, edits, unheard, failedOn, attempted>>

\* The resource is feasible, or there is no other to send: logged, and over.
DeclineForEvent(w) ==
    /\ InReopt(w)
    /\ attempted' = IF job[w].infeasible THEN attempted \union {arg[w].asg} ELSE attempted
    /\ ReoptDecline(w)
    /\ job' = [job EXCEPT ![w].step = "mark"]
    /\ UNCHANGED <<edit, events, edits, unheard, failedOn>>

ReplaceStep(w) ==
    /\ InReopt(w)
    /\ ReoptReadAssignment(w) \/ ReoptReadResource(w) \/ ReoptWrite(w)
    /\ UNCHANGED <<edit, events, job, edits, unheard, failedOn, attempted>>

CommitForEvent(w, b) ==
    /\ InReopt(w)
    /\ attempted' = attempted \union {arg[w].asg}
    /\ ReoptCommit(w, b)
    /\ job' = [job EXCEPT ![w].step = "mark"]
    /\ UNCHANGED <<edit, events, edits, unheard, failedOn>>

RetryForEvent(w) ==
    /\ InReopt(w)
    /\ job[w].runs < MaxTransactions
    /\ ReoptRetry(w)
    /\ job' = [job EXCEPT ![w].runs = @ + 1]
    /\ UNCHANGED <<edit, events, edits, unheard, failedOn, attempted>>

-----------------------------------------------------------------------------
EditorStep(x) ==
    \/ WriteResource(x)
    \/ TellChanged(x)
    \/ TellFailure(x)
    \/ EditLost(x)

WorkerStep(w) ==
    \/ Take(w)
    \/ HandleChanged(w)
    \/ RequestReoptimization(w)
    \/ HandleFailureDetected(w)
    \/ \E a \in AssignmentIds : LoadForEvent(w, a) \/ CommitForEvent(w, a)
    \/ \E q \in Resources : ChooseForEvent(w, q)
    \/ DeclineForEvent(w)
    \/ ReplaceStep(w)
    \/ RetryForEvent(w)
    \/ Done(w)
    \/ Throw(w)

\* The steps of a request of Dispatch; workers act on events only.  Here it is
\* the events that lead to a re-optimization; Dispatch has those asked for
\* through the API as well.
RequestStep ==
    /\ \/ IncidentNext
       \/ AssignmentNext
       \/ \E s \in Requests : WriteStatus(s) \/ Abandon(s)
    /\ \A w \in Workers : pc'[w] = pc[w]
    /\ UNCHANGED <<edit, events, job, edits, unheard, failedOn, attempted>>

FRNext ==
    \/ RequestStep
    \/ \E x \in Editors : EditorStep(x) \/ \E r \in Resources, to \in StaffStatuses : ReadResource(x, r, to)
    \/ \E r \in Resources : Deactivate(r)
    \/ Drop
    \/ \E w \in Workers : WorkerStep(w)

\* A request that has started goes on until it ends, well or not, and a
\* worker takes events and finishes them.  Requests may stop anywhere.
FRFairness ==
    /\ \A x \in Editors : WF_frVars(EditorStep(x))
    /\ \A w \in Workers : WF_frVars(WorkerStep(w))

FRSpec == FRInit /\ [][FRNext]_frVars /\ FRFairness

-----------------------------------------------------------------------------
(* Properties *)

FailedMission(a) == a \in Active /\ resource[assignment[a].res] \in FailureStatuses

\* No resource that fails on a mission is forgotten there: the mission ends,
\* the resource recovers, or a re-optimization finds it infeasible and
\* replaces it or logs that it could not; unless the failure was never told
\* of (an edit cut short, an edit that saw no change, a deactivation) or the
\* event was given up on record.
FailureAnswered ==
    \A a \in AssignmentIds :
        FailedMission(a) ~>
            \/ ~FailedMission(a)
            \/ a \in attempted
            \/ \E r \in unheard : a \in ActiveOfResource(r)

\* Events are handled late, twice and in any order, and missions come and go
\* meanwhile; yet a mission is found infeasible only if its own resource
\* failed while it was on, never for what the resource did before.
AttemptsHaveCause == attempted \subseteq failedOn

\* "RESOURCE_FAILURE_DETECTED -> triggers immediate re-optimization", says
\* README.md:260.  The handler of that event writes none.
FailureEventTriggers ==
    [][\A r \in Resources :
          BagToSet(events) \ BagToSet(events') = {FailureDetected(r)} /\ ActiveOfResource(r) # {} =>
              BagToSet(events') \ BagToSet(events) # {}]_frVars

=============================================================================
