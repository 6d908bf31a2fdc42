--------------------------- MODULE FailureProofs ---------------------------
(***************************************************************************)
(* Proofs about the response to failures for every number of editors,      *)
(* workers, requests and attempts: an attempt at a re-optimization has a   *)
(* cause, however late or often its event is handled, and whatever the     *)
(* editors and workers do to the tables, Dispatch allows.                  *)
(***************************************************************************)
EXTENDS FailureResponse, DispatchProofs

-----------------------------------------------------------------------------
(* The inductive invariant *)

\* An event about a status change is about a resource, on its way as well as
\* with the worker that handles it.
ChangesOfResources ==
    /\ \A e \in BagToSet(events) : e.kind = "changed" => e.about \in Resources
    /\ \A w \in Workers :
          job[w] # None /\ job[w].event.kind = "changed" => job[w].event.about \in Resources

\* A worker that is about to request a re-optimization has found a mission.
RequestsFound ==
    \A w \in Workers : job[w] # None /\ job[w].step = "request" => job[w].found \in AssignmentIds

\* Whenever a mission's resource is out of order, it failed on that mission:
\* a resource is sent only while AVAILABLE, and an edit notes whom it hits.
FailuresNoted ==
    \A a \in Active : resource[assignment[a].res] \in FailureStatuses => a \in failedOn

\* What a worker has judged infeasible stays judged so while it picks, locks
\* and writes, and it picks only for what it has judged infeasible.
JudgedRight ==
    \A w \in Workers :
        InReopt(w) =>
            /\ pc[w] # "reopt.choose" => job[w].infeasible
            /\ job[w].infeasible => arg[w].asg \in failedOn

FRInv ==
    /\ IInv
    /\ FRTypeOK
    /\ ChangesOfResources
    /\ RequestsFound
    /\ FailuresNoted
    /\ JudgedRight
    /\ AttemptsHaveCause

-----------------------------------------------------------------------------
(* Bags and constants *)

\* Adding an event to a bag, removing one, joining two bags: what is in the result.
LEMMA BagFacts ==
  ASSUME NEW B, NEW C, NEW e
  PROVE  /\ BagToSet(BagAdd(B, e)) = BagToSet(B) \union {e}
         /\ BagToSet(BagRemove(B, e)) \subseteq BagToSet(B)
         /\ BagToSet(B (+) C) = BagToSet(B) \union BagToSet(C)
         /\ BagToSet(SetToBag({e})) = {e}
<1>1. BagToSet(BagAdd(B, e)) = BagToSet(B) \union {e}
  BY DEF BagToSet, BagAdd
<1>2. BagToSet(BagRemove(B, e)) \subseteq BagToSet(B)
  BY DEF BagToSet, BagRemove
<1>3. BagToSet(B (+) C) = BagToSet(B) \union BagToSet(C)
  BY DEF BagToSet, (+)
<1>4. BagToSet(SetToBag({e})) = {e}
  BY DEF BagToSet, SetToBag
<1> QED  BY <1>1, <1>2, <1>3, <1>4

\* What is assumed of the sessions and the bounds, one by one.
LEMMA Constants ==
  /\ Requests \subseteq Sessions /\ Workers \subseteq Sessions
  /\ \A s \in Requests : s \notin Workers
  /\ MaxJobAttempts \in Nat /\ MaxJobAttempts >= 1
  /\ MaxTransactions \in Nat /\ MaxTransactions >= 1
  /\ MaxEdits \in Nat
<1>1. {MaxJobAttempts, MaxTransactions} \subseteq Nat \ {0} /\ MaxEdits \in Nat
  BY AttemptsAssumption
<1>2. MaxJobAttempts \in Nat /\ MaxJobAttempts # 0 /\ MaxTransactions \in Nat /\ MaxTransactions # 0
  BY <1>1
<1> QED  BY <1>1, <1>2, SessionsAssumption

-----------------------------------------------------------------------------
(* Every step is one that Dispatch allows *)

\* What editors and workers do to the tables and to sessions are steps of the
\* handlers of Dispatch; all else leaves both as they are.
LEMMA StepRefines ==
  ASSUME FRTypeOK, [FRNext]_frVars
  PROVE  [Next]_vars
<1> USE Constants
<1>1. CASE RequestStep
  BY <1>1 DEF RequestStep, Next
<1>2. ASSUME NEW x \in Editors, EditorStep(x)
      PROVE  [Next]_vars
  <2>1. CASE WriteResource(x)
    <3>1. edit[x] \in Edit
      BY <2>1 DEF WriteResource, FRTypeOK
    <3>2. edit[x].res \in Resources /\ edit[x].to \in StaffStatuses
      BY <3>1 DEF Edit
    <3>3. UpdateResource(edit[x].res, edit[x].to)
      BY <2>1 DEF WriteResource
    <3> QED  BY <3>2, <3>3 DEF ResourceNext, Next
  <2>2. CASE TellChanged(x) \/ TellFailure(x) \/ EditLost(x)
    BY <2>2 DEF TellChanged, TellFailure, EditLost
  <2> QED  BY <1>2, <2>1, <2>2 DEF EditorStep
<1>3. ASSUME NEW x \in Editors, NEW r \in Resources, NEW to \in StaffStatuses, ReadResource(x, r, to)
      PROVE  [Next]_vars
  BY <1>3 DEF ReadResource
<1>4. ASSUME NEW r \in Resources, Deactivate(r)
      PROVE  [Next]_vars
  BY <1>4 DEF Deactivate, ResourceNext, Next
<1>5. CASE Drop
  BY <1>5 DEF Drop
<1>6. ASSUME NEW w \in Workers, WorkerStep(w)
      PROVE  [Next]_vars
  <2>1. CASE Take(w) \/ HandleChanged(w) \/ RequestReoptimization(w) \/ HandleFailureDetected(w) \/ Done(w)
    BY <2>1 DEF Take, HandleChanged, RequestReoptimization, HandleFailureDetected, Done
  <2>2. CASE Throw(w)
    BY <2>2 DEF Throw, Next
  <2>3. ASSUME NEW a \in AssignmentIds, LoadForEvent(w, a) \/ CommitForEvent(w, a)
        PROVE  Next
    <3>1. ReoptLoad(w, a) \/ ReoptCommit(w, a)
      BY <2>3 DEF LoadForEvent, CommitForEvent
    <3> QED  BY <3>1 DEF ReoptNext, Next
  <2>4. ASSUME NEW q \in Resources, ChooseForEvent(w, q)
        PROVE  Next
    BY <2>4 DEF ChooseForEvent, ReoptNext, Next
  <2>5. CASE DeclineForEvent(w) \/ ReplaceStep(w) \/ RetryForEvent(w)
    BY <2>5 DEF DeclineForEvent, ReplaceStep, RetryForEvent, ReoptNext, Next
  <2> QED  BY <1>6, <2>1, <2>2, <2>3, <2>4, <2>5 DEF WorkerStep
<1>7. CASE UNCHANGED frVars
  BY <1>7 DEF frVars
<1> QED  BY <1>1, <1>2, <1>3, <1>4, <1>5, <1>6, <1>7 DEF FRNext

-----------------------------------------------------------------------------
(* Types *)

\* The variables of the response have their types, and what it carries from
\* step to step is about the right rows.
Carried ==
    /\ edit \in [Editors -> Edit \union {None}]
    /\ BagToSet(events) \subseteq Event
    /\ job \in [Workers -> Job \union {None}]
    /\ edits \in 0 .. MaxEdits
    /\ unheard \subseteq Resources
    /\ failedOn \subseteq AssignmentIds
    /\ attempted \subseteq AssignmentIds
    /\ ChangesOfResources
    /\ RequestsFound

\* The ACTIVE assignments are rows, and their resources are resources.
LEMMA ActiveAre ==
  ASSUME TypeOK
  PROVE  \A a \in Active : a \in AssignmentIds /\ assignment[a].res \in Resources
  BY DEF TypeOK, Active, Rows, AssignmentRow

\* The resources of which nobody will hear, when a pending event is given up.
LEMMA LostAre ==
  ASSUME TypeOK, NEW e, e.kind = "changed" => e.about \in Resources
  PROVE  LostWith(e) \subseteq Resources
<1>1. CASE e.kind = "changed" /\ e.to \in FailureStatuses
  BY <1>1 DEF LostWith
<1>2. CASE e.kind = "reopt" /\ e.about \in Active
  BY <1>2, ActiveAre DEF LostWith
<1>3. CASE ~(e.kind = "changed" /\ e.to \in FailureStatuses) /\ ~(e.kind = "reopt" /\ e.about \in Active)
  BY <1>3 DEF LostWith
<1> QED  BY <1>1, <1>2, <1>3

\* The events that are written are events.
LEMMA EventsAre ==
  /\ \A r \in Resources, to \in ResourceStatus : Changed(r, to) \in Event
  /\ \A r \in Resources : FailureDetected(r) \in Event
  /\ \A a \in AssignmentIds : Requested(a) \in Event
<1>1. 0 \in 0 .. MaxJobAttempts - 1
  BY Constants
<1> QED  BY <1>1 DEF Event, Changed, FailureDetected, Requested

\* A reading, a writing, a telling or an edit cut short keeps what is carried.
LEMMA EditorCarries ==
  ASSUME TypeOK, Carried, NEW x \in Editors,
         EditorStep(x) \/ \E r \in Resources, to \in StaffStatuses : ReadResource(x, r, to)
  PROVE  Carried'
<1> USE DEF Carried, ChangesOfResources, RequestsFound
<1>1. ASSUME NEW r \in Resources, NEW to \in StaffStatuses, ReadResource(x, r, to)
      PROVE  Carried'
  <2>1. edits' \in 0 .. MaxEdits
    BY <1>1, Constants DEF ReadResource
  <2>2. [step |-> "write", res |-> r, prev |-> resource[r], to |-> to] \in Edit
    BY DEF Edit, TypeOK
  <2>3. edit' \in [Editors -> Edit \union {None}]
    BY <1>1, <2>2 DEF ReadResource
  <2> QED  BY <1>1, <2>1, <2>3 DEF ReadResource
<1>2. ASSUME WriteResource(x) \/ TellChanged(x) \/ TellFailure(x) \/ EditLost(x)
      PROVE  /\ edit[x] \in Edit
             /\ edit[x].res \in Resources /\ edit[x].to \in ResourceStatus
  <2>1. edit[x] \in Edit
    BY <1>2 DEF WriteResource, TellChanged, TellFailure, EditLost
  <2> QED  BY <2>1, StaffAssumption DEF Edit
<1>3. CASE WriteResource(x)
  <2>1. [edit[x] EXCEPT !.step = "tell"] \in Edit
    BY <1>2, <1>3 DEF Edit
  <2>2. edit' \in [Editors -> Edit \union {None}]
    BY <1>3, <2>1 DEF WriteResource
  <2>3. unheard' \subseteq Resources
    BY <1>2, <1>3 DEF WriteResource
  <2>4. failedOn' \subseteq AssignmentIds
    BY <1>3, ActiveAre DEF WriteResource, NoteFailure, ActiveOfResource
  <2> QED  BY <1>3, <2>2, <2>3, <2>4 DEF WriteResource
<1>4. CASE TellChanged(x)
  <2>1. [edit[x] EXCEPT !.step = "tell.failure"] \in Edit
    BY <1>2, <1>4 DEF Edit
  <2>2. edit' \in [Editors -> Edit \union {None}]
    BY <1>4, <2>1 DEF TellChanged
  <2>3. unheard' \subseteq Resources
    BY <1>4 DEF TellChanged
  <2>4. BagToSet(events') = BagToSet(events) \union {Changed(edit[x].res, edit[x].to)}
    <3> DEFINE told == SetToBag({Changed(edit[x].res, edit[x].to)})
    <3>1. events' = events (+) told
      BY <1>4 DEF TellChanged, ToldOf
    <3>2. BagToSet(events (+) told) = BagToSet(events) \union BagToSet(told)
      BY BagFacts
    <3>3. BagToSet(told) = {Changed(edit[x].res, edit[x].to)}
      BY BagFacts
    <3> QED  BY <3>1, <3>2, <3>3
  <2>5. Changed(edit[x].res, edit[x].to).about = edit[x].res
    BY DEF Changed
  <2>6. BagToSet(events') \subseteq Event
    BY <1>2, <1>4, <2>4, EventsAre
  <2>7. \A e \in BagToSet(events') : e.kind = "changed" => e.about \in Resources
    BY <1>2, <1>4, <2>4, <2>5
  <2> QED  BY <1>4, <2>2, <2>3, <2>6, <2>7 DEF TellChanged
<1>5. CASE TellFailure(x)
  <2>1. BagToSet(events') = BagToSet(events) \union {FailureDetected(edit[x].res)}
    BY <1>5, BagFacts DEF TellFailure
  <2>2. FailureDetected(edit[x].res).kind = "failure"
    BY DEF FailureDetected
  <2>3. BagToSet(events') \subseteq Event
    BY <1>2, <1>5, <2>1, EventsAre
  <2>4. \A e \in BagToSet(events') : e.kind = "changed" => e.about \in Resources
    BY <2>1, <2>2
  <2>5. edit' \in [Editors -> Edit \union {None}]
    BY <1>5 DEF TellFailure
  <2> QED  BY <1>5, <2>3, <2>4, <2>5 DEF TellFailure
<1>6. CASE EditLost(x)
  <2>1. unheard' \subseteq Resources
    BY <1>2, <1>6 DEF EditLost
  <2>2. edit' \in [Editors -> Edit \union {None}]
    BY <1>6 DEF EditLost
  <2> QED  BY <1>6, <2>1, <2>2 DEF EditLost
<1> QED  BY <1>1, <1>3, <1>4, <1>5, <1>6 DEF EditorStep

\* The resources of missions that fail through an edit, a deactivation or a
\* dropped event, and the deliveries, keep what is carried.
LEMMA DeliveryCarries ==
  ASSUME TypeOK, Carried,
         \/ \E r \in Resources : Deactivate(r)
         \/ Drop
         \/ \E w \in Workers : Take(w) \/ HandleFailureDetected(w) \/ Done(w)
  PROVE  Carried'
<1> USE DEF Carried, ChangesOfResources, RequestsFound
<1>1. ASSUME NEW r \in Resources, Deactivate(r)
      PROVE  Carried'
  <2>1. edits' \in 0 .. MaxEdits
    BY <1>1, Constants DEF Deactivate
  <2>2. failedOn' \subseteq AssignmentIds
    BY <1>1, ActiveAre DEF Deactivate, NoteFailure, ActiveOfResource
  <2> QED  BY <1>1, <2>1, <2>2 DEF Deactivate
<1>2. CASE Drop
  <2>1. PICK e \in BagToSet(events) : /\ events' = BagRemove(events, e)
                                      /\ unheard' = unheard \union LostWith(e)
    BY <1>2 DEF Drop
  <2>2. BagToSet(events') \subseteq BagToSet(events)
    BY <2>1, BagFacts
  <2>3. unheard' \subseteq Resources
    BY <2>1, LostAre
  <2> QED  BY <1>2, <2>2, <2>3 DEF Drop
<1>3. ASSUME NEW w \in Workers, Take(w)
      PROVE  Carried'
  <2>1. PICK e \in BagToSet(events) :
           /\ events' = BagRemove(events, e)
           /\ job' = [job EXCEPT ![w] = [step |-> "handle", event |-> e, found |-> None,
                                         infeasible |-> FALSE, runs |-> 1]]
    BY <1>3 DEF Take
  <2>2. PICK no \in BOOLEAN : no = FALSE
    OBVIOUS
  <2>3. PICK taken : taken = [step |-> "handle", event |-> e, found |-> None,
                              infeasible |-> no, runs |-> 1]
    OBVIOUS
  <2>4. job' = [job EXCEPT ![w] = taken]
    BY <2>1, <2>2, <2>3
  <2>5. 1 \in 1 .. MaxTransactions
    BY Constants
  <2>6. taken \in Job /\ taken.event = e /\ taken.step = "handle"
    BY <2>3, <2>5 DEF Job
  <2>7. BagToSet(events') \subseteq BagToSet(events)
    BY <2>1, BagFacts
  <2> QED  BY <1>3, <2>4, <2>6, <2>7 DEF Take
<1>4. ASSUME NEW w \in Workers, HandleFailureDetected(w)
      PROVE  Carried'
  <2>1. BagToSet(events') \subseteq BagToSet(events)
    BY <1>4, BagFacts DEF HandleFailureDetected
  <2> QED  BY <1>4, <2>1 DEF HandleFailureDetected
<1>5. ASSUME NEW w \in Workers, Done(w)
      PROVE  Carried'
  BY <1>5 DEF Done
<1> QED  BY <1>1, <1>2, <1>3, <1>4, <1>5

\* A job goes on: it keeps its event, and what is carried.
LEMMA JobCarries ==
  ASSUME Carried, NEW w \in Workers, NEW j \in Job,
         job' = [job EXCEPT ![w] = j], job[w] # None, j.event = job[w].event,
         j.step = "request" => j.found \in AssignmentIds,
         BagToSet(events') \subseteq Event,
         \A e \in BagToSet(events') : e.kind = "changed" => e.about \in Resources,
         UNCHANGED <<edit, edits, unheard, failedOn>>,
         attempted' \subseteq AssignmentIds
  PROVE  Carried'
  BY DEF Carried, ChangesOfResources, RequestsFound

\* The handlers keep what is carried, and so does a worker that throws.
LEMMA WorkerCarries ==
  ASSUME TypeOK, RequestsOK, Carried, NEW w \in Workers, WorkerStep(w)
  PROVE  Carried'
<1> USE Constants DEF Carried, ChangesOfResources, RequestsFound
<1>0. job[w] # None => job[w] \in Job /\ job[w].event \in Event
  BY DEF Job
<1>1. CASE Take(w) \/ HandleFailureDetected(w) \/ Done(w)
  BY <1>1, DeliveryCarries
<1>2. CASE HandleChanged(w)
  <2>1. job[w] \in Job
    BY <1>0, <1>2 DEF HandleChanged, Handles
  <2>2. CASE job' = [job EXCEPT ![w].step = "mark"]
    <3> DEFINE j == [job[w] EXCEPT !.step = "mark"]
    <3>1. j \in Job /\ j.event = job[w].event /\ j.step = "mark"
      BY <2>1 DEF Job
    <3>2. job' = [job EXCEPT ![w] = j]
      BY <2>2
    <3> QED  BY <1>2, <3>1, <3>2, JobCarries DEF HandleChanged, Handles
  <2>3. ASSUME NEW a \in AssignmentIds, job' = [job EXCEPT ![w].step = "request", ![w].found = a]
        PROVE  Carried'
    <3>1. PICK once : once = [job[w] EXCEPT !.step = "request"]
      OBVIOUS
    <3>2. PICK twice : twice = [once EXCEPT !.found = a]
      OBVIOUS
    <3>3. once \in Job /\ once.event = job[w].event /\ once.step = "request"
      BY <2>1, <3>1 DEF Job
    <3>4. twice \in Job /\ twice.event = job[w].event /\ twice.found = a
      BY <3>2, <3>3 DEF Job
    <3>5. job' = [job EXCEPT ![w] = twice]
      BY <2>3, <3>1, <3>2
    <3> QED  BY <1>2, <3>4, <3>5, JobCarries DEF HandleChanged, Handles
  <2>4. \A a : a \in MissionsOf(job[w].event.about) => a \in AssignmentIds
    BY ActiveAre DEF MissionsOf, ActiveOfResource
  <2>5. \/ job' = [job EXCEPT ![w].step = "mark"]
        \/ \E a \in AssignmentIds : job' = [job EXCEPT ![w].step = "request", ![w].found = a]
    BY <1>2, <2>4 DEF HandleChanged
  <2> QED  BY <2>2, <2>3, <2>5
<1>3. CASE RequestReoptimization(w)
  <2> DEFINE j == [job[w] EXCEPT !.step = "mark"]
  <2>1. job[w] \in Job /\ job[w].found \in AssignmentIds
    BY <1>0, <1>3 DEF RequestReoptimization
  <2>2. j \in Job /\ j.event = job[w].event /\ j.step = "mark"
    BY <2>1 DEF Job
  <2>3. job' = [job EXCEPT ![w] = j]
    BY <1>3 DEF RequestReoptimization
  <2>4. BagToSet(events') = BagToSet(events) \union {Requested(job[w].found)}
    BY <1>3, BagFacts DEF RequestReoptimization
  <2>5. Requested(job[w].found).kind = "reopt" /\ Requested(job[w].found) \in Event
    BY <2>1, EventsAre DEF Requested
  <2> QED  BY <1>3, <2>2, <2>3, <2>4, <2>5, JobCarries DEF RequestReoptimization
<1>4. ASSUME NEW a \in AssignmentIds, LoadForEvent(w, a)
      PROVE  Carried'
  <2>1. job[w] \in Job
    BY <1>0, <1>4 DEF LoadForEvent, Handles
  <2>2. PICK judged \in BOOLEAN : judged = Infeasible(a)
    <3>1. Infeasible(a) \in BOOLEAN
      BY DEF Infeasible
    <3> QED  BY <3>1
  <2>3. PICK once : once = [job[w] EXCEPT !.step = "reopt"]
    OBVIOUS
  <2>4. PICK twice : twice = [once EXCEPT !.infeasible = judged]
    OBVIOUS
  <2>5. once \in Job /\ once.event = job[w].event /\ once.step = "reopt"
    BY <2>1, <2>3 DEF Job
  <2>6. twice \in Job /\ twice.event = job[w].event /\ twice.step = "reopt"
    BY <2>4, <2>5 DEF Job
  <2>7. job' = [job EXCEPT ![w] = twice]
    BY <1>4, <2>2, <2>3, <2>4 DEF LoadForEvent
  <2> QED  BY <1>4, <2>6, <2>7, JobCarries DEF LoadForEvent, Handles
<1>5. ASSUME NEW b, DeclineForEvent(w) \/ CommitForEvent(w, b)
      PROVE  Carried'
  <2> DEFINE j == [job[w] EXCEPT !.step = "mark"]
  <2>1. job[w] \in Job /\ job[w] # None
    BY <1>0, <1>5 DEF DeclineForEvent, CommitForEvent, InReopt
  <2>2. j \in Job /\ j.event = job[w].event /\ j.step = "mark"
    BY <2>1 DEF Job
  <2>3. job' = [job EXCEPT ![w] = j]
    BY <1>5 DEF DeclineForEvent, CommitForEvent
  <2>4. pc[w] \in {"reopt.choose"} \union ReoptOpen
    BY <1>5 DEF DeclineForEvent, CommitForEvent, ReoptDecline, ReoptCommit
  <2>5. arg[w].asg \in AssignmentIds
    BY <2>4 DEF RequestsOK, RequestOK, AboutAssignment, ReplaceSteps, Rows
  <2>6. attempted' \subseteq AssignmentIds
    BY <1>5, <2>5 DEF DeclineForEvent, CommitForEvent
  <2> QED  BY <1>5, <2>1, <2>2, <2>3, <2>6, JobCarries DEF DeclineForEvent, CommitForEvent
<1>6. CASE (\E q \in Resources : ChooseForEvent(w, q)) \/ ReplaceStep(w)
  BY <1>6 DEF ChooseForEvent, ReplaceStep
<1>7. CASE RetryForEvent(w)
  <2> DEFINE j == [job[w] EXCEPT !.runs = job[w].runs + 1]
  <2>1. job[w] \in Job /\ job[w] # None
    BY <1>0, <1>7 DEF RetryForEvent, InReopt
  <2>2. job[w].runs + 1 \in 1 .. MaxTransactions
    <3>1. job[w].runs \in 1 .. MaxTransactions
      BY <2>1 DEF Job
    <3> QED  BY <1>7, <3>1 DEF RetryForEvent
  <2>3. j \in Job /\ j.event = job[w].event /\ j.step = "reopt"
    BY <1>7, <2>1, <2>2 DEF Job, RetryForEvent, InReopt
  <2>4. job' = [job EXCEPT ![w] = j]
    BY <1>7 DEF RetryForEvent
  <2> QED  BY <1>7, <2>1, <2>3, <2>4, JobCarries DEF RetryForEvent
<1>8. CASE Throw(w)
  <2> DEFINE e == job[w].event
             again == [e EXCEPT !.tries = e.tries + 1]
  <2>1. job[w] # None /\ e \in Event /\ (e.kind = "changed" => e.about \in Resources)
    BY <1>0, <1>8 DEF Throw
  <2>2. job' = [job EXCEPT ![w] = None]
    BY <1>8 DEF Throw
  <2>3. unheard' \subseteq Resources
    BY <1>8, <2>1, LostAre DEF Throw
  <2>4. CASE TriedAgain(e)
    <3>1. e.tries + 1 \in 0 .. MaxJobAttempts - 1
      <4>1. e.tries \in 0 .. MaxJobAttempts - 1
        BY <2>1 DEF Event
      <4> QED  BY <2>4, <4>1 DEF TriedAgain
    <3>2. again \in Event /\ again.kind = e.kind /\ again.about = e.about
      BY <2>1, <3>1 DEF Event
    <3>3. events' = BagAdd(events, again)
      BY <1>8, <2>4 DEF Throw
    <3>4. BagToSet(events') = BagToSet(events) \union {again}
      BY <3>3, BagFacts
    <3> QED  BY <1>8, <2>1, <2>2, <2>3, <3>2, <3>4 DEF Throw
  <2>5. CASE ~TriedAgain(e)
    <3>1. events' = events
      BY <1>8, <2>5 DEF Throw
    <3> QED  BY <1>8, <2>2, <2>3, <3>1 DEF Throw
  <2> QED  BY <2>4, <2>5
<1> QED  BY <1>1, <1>2, <1>3, <1>4, <1>5, <1>6, <1>7, <1>8 DEF WorkerStep

\* Every step keeps what is carried.
LEMMA CarriedStep ==
  ASSUME TypeOK, RequestsOK, Carried, [FRNext]_frVars
  PROVE  Carried'
<1>1. CASE RequestStep
  BY <1>1 DEF RequestStep, Carried, ChangesOfResources, RequestsFound
<1>2. CASE UNCHANGED frVars
  BY <1>2 DEF frVars, Carried, ChangesOfResources, RequestsFound
<1> QED  BY <1>1, <1>2, EditorCarries, DeliveryCarries, WorkerCarries DEF FRNext

-----------------------------------------------------------------------------
(* Failures and what was judged of them *)

\* A step of a request that is not a staff edit of a resource.
NoEdit ==
    \/ IncidentNext
    \/ AssignmentNext
    \/ ReoptNext
    \/ \E s \in Sessions : WriteStatus(s) \/ Abandon(s)

\* No mission gets a resource that is out of order, and no resource gets out
\* of order on a mission, by any step of Dispatch other than a staff edit.
LEMMA NoNewFailures ==
  ASSUME TypeOK, RequestsOK, NoEdit,
         NEW a \in Active', resource'[assignment'[a].res] \in FailureStatuses
  PROVE  a \in Active /\ resource[assignment[a].res] \in FailureStatuses
<1> USE DEF FailureStatuses
<1>0. Active \subseteq Rows /\ Rows \subseteq AssignmentIds
  BY DEF Active, Rows
<1>1. ASSUME NEW s \in Sessions, NEW b \in AssignmentIds, CreateCommit(s, b)
      PROVE  a \in Active /\ resource[assignment[a].res] \in FailureStatuses
  <2>1. arg[s].res \in Resources /\ Adds(b, arg[s].inc, arg[s].res, {})
    BY <1>1, CreateEffect
  <2>2. resource' = [resource EXCEPT ![arg[s].res] = "BUSY"]
    BY <1>1 DEF CreateCommit
  <2>3. assignment'[a].res # arg[s].res
    BY <2>1, <2>2 DEF TypeOK
  <2>4. a \in Active /\ assignment'[a] = assignment[a]
    BY <1>0, <2>1, <2>3 DEF Adds
  <2> QED  BY <2>1, <2>2, <2>3, <2>4, ActiveAre DEF TypeOK
<1>2. ASSUME NEW s \in Sessions, CompleteCommit(s) \/ CancelCommit(s)
      PROVE  a \in Active /\ resource[assignment[a].res] \in FailureStatuses
  <2>1. Describes(s) /\ Closes(arg[s].asg)
    BY <1>2, CloseEffect
  <2>2. resource' = [resource EXCEPT ![arg[s].res] = "AVAILABLE"]
    BY <1>2 DEF CompleteCommit, CancelCommit
  <2>3. a \in Active /\ assignment'[a] = assignment[a]
    BY <1>0, <2>1 DEF Closes
  <2>4. assignment[a].res \in Resources /\ assignment[a].res # arg[s].res
    BY <2>1, <2>2, <2>3, ActiveAre DEF TypeOK, Describes
  <2> QED  BY <2>2, <2>3, <2>4 DEF TypeOK
<1>3. ASSUME NEW s \in Sessions, NEW b \in AssignmentIds, ReoptCommit(s, b)
      PROVE  a \in Active /\ resource[assignment[a].res] \in FailureStatuses
  <2>1. /\ Describes(s)
        /\ arg[s].alt \in Resources \ {arg[s].res}
        /\ Adds(b, arg[s].inc, arg[s].alt, {arg[s].asg})
    BY <1>3, ReplaceEffect
  <2>2. \A x \in Resources :
           \/ resource'[x] \in {"BUSY", "AVAILABLE"}
           \/ x # arg[s].alt /\ resource'[x] = resource[x]
    BY <1>3 DEF ReoptCommit
  <2>3. resource'[arg[s].alt] = "BUSY"
    BY <1>3, <2>1 DEF ReoptCommit
  <2>4. assignment'[a].res # arg[s].alt
    BY <2>3
  <2>5. a \in Active /\ assignment'[a] = assignment[a]
    BY <1>0, <2>1, <2>4 DEF Adds
  <2> QED  BY <2>2, <2>5, ActiveAre
<1>4. ASSUME assignment' = assignment, Active' = Active, resource' = resource
      PROVE  a \in Active /\ resource[assignment[a].res] \in FailureStatuses
  BY <1>4
<1>5. ASSUME NEW i \in Incidents, NEW role \in CreatorRoles, CreateIncident(i, role)
      PROVE  assignment' = assignment /\ Active' = Active /\ resource' = resource
  BY <1>5, OtherSteps DEF CreateIncident
<1>6. ASSUME NEW s \in Sessions, WriteStatus(s) \/ Quiet(s)
      PROVE  assignment' = assignment /\ Active' = Active /\ resource' = resource
  BY <1>6, OtherSteps, QuietFrame DEF WriteStatus, tables
<1>7. \/ \E i \in Incidents, role \in CreatorRoles : CreateIncident(i, role)
      \/ \E s \in Sessions : WriteStatus(s) \/ Quiet(s)
      \/ \E s \in Sessions, b \in AssignmentIds : CreateCommit(s, b)
      \/ \E s \in Sessions : CompleteCommit(s) \/ CancelCommit(s)
      \/ \E s \in Sessions, b \in AssignmentIds : ReoptCommit(s, b)
  BY DEF NoEdit, IncidentNext, AssignmentNext, ReoptNext, Quiet
<1> QED  BY <1>1, <1>2, <1>3, <1>4, <1>5, <1>6, <1>7

\* A request that is not a worker's leaves the workers' sessions alone: each
\* of its steps moves the session it is a step of.
LEMMA WorkersStay ==
  ASSUME TypeOK, RequestStep, NEW w \in Workers
  PROVE  pc'[w] = pc[w] /\ arg'[w] = arg[w]
<1> USE Constants DEF TypeOK
<1>1. pc'[w] = pc[w] /\ w \in Sessions
  BY DEF RequestStep
<1>2. CASE IncidentNext
  <2>1. ASSUME NEW i \in Incidents, NEW role \in CreatorRoles, CreateIncident(i, role)
        PROVE  arg' = arg
    BY <2>1 DEF CreateIncident
  <2>2. ASSUME NEW s \in Sessions, NEW i, NEW to, DecideStatus(s, i, to)
        PROVE  arg'[w] = arg[w]
    <3>1. pc'[s] # pc[s] /\ \A t \in Sessions \ {s} : arg'[t] = arg[t]
      BY <2>2 DEF DecideStatus, Goto
    <3> QED  BY <1>1, <3>1
  <2>3. ASSUME NEW s \in Sessions, NEW i, ApproveIncident(s, i) \/ RejectIncident(s, i)
        PROVE  arg'[w] = arg[w]
    BY <2>2, <2>3 DEF ApproveIncident, RejectIncident
  <2>4. ASSUME NEW s \in Sessions, NEW i, NEW to,
               CancelIncident(s, i, to) \/ UpdateIncidentStatus(s, i, to)
        PROVE  arg'[w] = arg[w]
    BY <2>2, <2>4 DEF CancelIncident, UpdateIncidentStatus
  <2> QED  BY <1>1, <1>2, <2>1, <2>3, <2>4 DEF IncidentNext
<1>3. CASE AssignmentNext
  <2>1. PICK s \in Sessions :
           \/ \E i \in Incidents, r \in Resources : CreateReadIncident(s, i, r)
           \/ CreateReadResource(s)
           \/ CreateCheckDuplicates(s)
           \/ \E a \in AssignmentIds : CreateCommit(s, a) \/ CompleteCheck(s, a) \/ CancelCheck(s, a)
           \/ CompleteCommit(s)
           \/ CancelWrite(s)
           \/ CancelCommit(s)
    BY <1>3 DEF AssignmentNext
  <2>2. \A t \in Sessions \ {s} : arg'[t] = arg[t]
    BY <2>1 DEF CreateReadIncident, CreateReadResource, CreateCheckDuplicates, CreateCommit,
                CompleteCheck, CancelCheck, CompleteCommit, CancelWrite, CancelCommit, Goto, Finish
  <2>3. pc'[s] # pc[s]
    BY <2>1 DEF CreateReadIncident, CreateReadResource, CreateCheckDuplicates, CreateCommit,
                CompleteCheck, CancelCheck, CompleteCommit, CancelWrite, CancelCommit, CancelOpen,
                Goto, Finish
  <2> QED  BY <1>1, <2>2, <2>3
<1>4. CASE \E s \in Requests : WriteStatus(s) \/ Abandon(s)
  <2>1. PICK s \in Requests : Goto(s, "idle", NoArguments)
    BY <1>4 DEF WriteStatus, Abandon, Finish
  <2>2. s # w /\ s \in Sessions
    BY <2>1
  <2> QED  BY <2>1, <2>2 DEF Goto
<1> QED  BY <1>1, <1>2, <1>3, <1>4 DEF RequestStep

\* If the tables and what the workers hold change in no way that matters to
\* failures, what is noted of them stays right.
LEMMA StaysNoted ==
  ASSUME FailuresNoted, JudgedRight, AttemptsHaveCause,
         assignment' = assignment, resource' = resource,
         failedOn' = failedOn, attempted' = attempted
  PROVE  FailuresNoted' /\ AttemptsHaveCause'
  BY DEF FailuresNoted, AttemptsHaveCause, Active, Rows

\* What the workers have judged stays right if it does for the one that takes
\* a step.
LEMMA StaysJudged ==
  ASSUME JudgedRight, NEW w, failedOn \subseteq failedOn',
         \A v \in Workers \ {w} : job'[v] = job[v] /\ pc'[v] = pc[v] /\ arg'[v] = arg[v],
         InReopt(w)' => /\ pc'[w] # "reopt.choose" => job'[w].infeasible
                        /\ job'[w].infeasible => arg'[w].asg \in failedOn'
  PROVE  JudgedRight'
  BY DEF JudgedRight, InReopt

\* An edit notes the missions that its status hits, before anyone else sees it.
LEMMA EditNoted ==
  ASSUME TypeOK, FailuresNoted, NEW r \in Resources, NEW to, SetResource(r, to), NoteFailure(r, to)
  PROVE  FailuresNoted' /\ failedOn \subseteq failedOn' /\ pc' = pc /\ arg' = arg
<1>1. assignment' = assignment /\ Active' = Active
  BY DEF SetResource, Active, Rows
<1>2. resource' = [resource EXCEPT ![r] = to] /\ pc' = pc /\ arg' = arg
  BY DEF SetResource
<1>3. failedOn \subseteq failedOn'
  BY DEF NoteFailure
<1>4. ASSUME NEW a \in Active, resource'[assignment[a].res] \in FailureStatuses
      PROVE  a \in failedOn'
  <2>1. CASE assignment[a].res = r
    BY <1>2, <1>4, <2>1 DEF TypeOK, NoteFailure, ActiveOfResource
  <2>2. CASE assignment[a].res # r
    BY <1>2, <1>3, <1>4, <2>2, ActiveAre DEF TypeOK, FailuresNoted
  <2> QED  BY <2>1, <2>2
<1> QED  BY <1>1, <1>2, <1>3, <1>4 DEF FailuresNoted

\* A step of Dispatch that is not a staff edit notes no failure, and needs none.
LEMMA OthersNoted ==
  ASSUME TypeOK, RequestsOK, FailuresNoted, NoEdit, failedOn' = failedOn
  PROVE  FailuresNoted'
  BY NoNewFailures DEF FailuresNoted

\* An edit, a deactivation or an event dropped: no worker's judgement changes.
LEMMA EditorNotes ==
  ASSUME TypeOK, Carried, FailuresNoted, JudgedRight, AttemptsHaveCause,
         \/ \E x \in Editors :
               EditorStep(x) \/ \E r \in Resources, to \in StaffStatuses : ReadResource(x, r, to)
         \/ \E r \in Resources : Deactivate(r)
         \/ Drop
  PROVE  FailuresNoted' /\ JudgedRight' /\ AttemptsHaveCause'
<1>1. ASSUME NEW r \in Resources, NEW to, SetResource(r, to), NoteFailure(r, to),
             job' = job, attempted' = attempted
      PROVE  FailuresNoted' /\ JudgedRight' /\ AttemptsHaveCause'
  <2>1. FailuresNoted' /\ failedOn \subseteq failedOn' /\ pc' = pc /\ arg' = arg
    BY <1>1, EditNoted
  <2>2. JudgedRight'
    BY <1>1, <2>1 DEF JudgedRight, InReopt
  <2> QED  BY <1>1, <2>1, <2>2 DEF AttemptsHaveCause
<1>2. ASSUME UNCHANGED <<vars, job, failedOn, attempted>>
      PROVE  FailuresNoted' /\ JudgedRight' /\ AttemptsHaveCause'
  <2>1. FailuresNoted' /\ AttemptsHaveCause'
    BY <1>2, StaysNoted DEF vars, tables
  <2>2. JudgedRight'
    BY <1>2 DEF JudgedRight, InReopt, vars
  <2> QED  BY <2>1, <2>2
<1>3. ASSUME NEW x \in Editors, WriteResource(x)
      PROVE  FailuresNoted' /\ JudgedRight' /\ AttemptsHaveCause'
  <2>1. edit[x] \in Edit
    BY <1>3 DEF WriteResource, Carried
  <2>2. edit[x].res \in Resources
    BY <2>1 DEF Edit
  <2>3. SetResource(edit[x].res, edit[x].to) /\ NoteFailure(edit[x].res, edit[x].to)
    BY <1>3 DEF WriteResource, UpdateResource
  <2>4. job' = job /\ attempted' = attempted
    BY <1>3 DEF WriteResource
  <2> QED  BY <1>1, <2>2, <2>3, <2>4
<1>4. ASSUME NEW r \in Resources, Deactivate(r)
      PROVE  FailuresNoted' /\ JudgedRight' /\ AttemptsHaveCause'
  <2>1. SetResource(r, "UNAVAILABLE") /\ NoteFailure(r, "UNAVAILABLE")
    BY <1>4 DEF Deactivate, DeactivateResource
  <2>2. job' = job /\ attempted' = attempted
    BY <1>4 DEF Deactivate
  <2> QED  BY <1>1, <2>1, <2>2
<1>5. ASSUME NEW x \in Editors, NEW r \in Resources, NEW to \in StaffStatuses, ReadResource(x, r, to)
      PROVE  UNCHANGED <<vars, job, failedOn, attempted>>
  BY <1>5 DEF ReadResource
<1>6. ASSUME NEW x \in Editors, TellChanged(x) \/ TellFailure(x) \/ EditLost(x)
      PROVE  UNCHANGED <<vars, job, failedOn, attempted>>
  BY <1>6 DEF TellChanged, TellFailure, EditLost
<1>7. CASE Drop
  BY <1>2, <1>7 DEF Drop
<1> QED  BY <1>2, <1>3, <1>4, <1>5, <1>6, <1>7 DEF EditorStep

\* A worker changes nobody else's judgement, judges only by the status it
\* reads while the mission is on, and replaces only what it has judged so.
LEMMA WorkerNotes ==
  ASSUME TypeOK, RequestsOK, Carried, FailuresNoted, JudgedRight, AttemptsHaveCause,
         NEW w \in Workers, WorkerStep(w)
  PROVE  FailuresNoted' /\ JudgedRight' /\ AttemptsHaveCause'
<1> USE Constants
<1>0. w \in Sessions /\ Workers \subseteq Sessions
  OBVIOUS
<1>1. failedOn' = failedOn
  BY DEF WorkerStep, Take, HandleChanged, RequestReoptimization, HandleFailureDetected,
         LoadForEvent, CommitForEvent, ChooseForEvent, DeclineForEvent, ReplaceStep,
         RetryForEvent, Done, Throw
<1>2. \A v \in Workers \ {w} : job'[v] = job[v]
  BY DEF WorkerStep, Take, HandleChanged, RequestReoptimization, HandleFailureDetected,
         LoadForEvent, CommitForEvent, ChooseForEvent, DeclineForEvent, ReplaceStep,
         RetryForEvent, Done, Throw, Carried
<1>3. CASE Take(w) \/ HandleChanged(w) \/ RequestReoptimization(w) \/ HandleFailureDetected(w) \/ Done(w)
  <2>1. UNCHANGED <<vars, attempted>>
    BY <1>3 DEF Take, HandleChanged, RequestReoptimization, HandleFailureDetected, Done
  <2>2. job'[w] = job[w] \/ ~InReopt(w)'
    <3>1. CASE Take(w)
      BY <3>1 DEF Take, Carried, InReopt
    <3>2. CASE HandleChanged(w) \/ RequestReoptimization(w)
      <4>1. job[w] \in Job
        BY <3>2 DEF HandleChanged, Handles, RequestReoptimization, Carried
      <4> QED  BY <3>2, <4>1 DEF HandleChanged, RequestReoptimization, Carried, Job, InReopt
    <3>3. CASE HandleFailureDetected(w)
      BY <3>3 DEF HandleFailureDetected
    <3>4. CASE Done(w)
      BY <3>4 DEF Done, Carried, InReopt
    <3> QED  BY <1>3, <3>1, <3>2, <3>3, <3>4
  <2>3. FailuresNoted' /\ AttemptsHaveCause'
    BY <1>1, <2>1, StaysNoted DEF vars, tables
  <2>4. pc' = pc /\ arg' = arg
    BY <2>1 DEF vars
  <2>5. JudgedRight'
    BY <1>1, <1>2, <2>2, <2>4 DEF JudgedRight, InReopt
  <2> QED  BY <2>3, <2>5
<1>4. CASE Throw(w)
  <2>1. job'[w] = None /\ attempted' = attempted
    BY <1>4 DEF Throw, Carried
  <2>2. UNCHANGED vars \/ Abandon(w)
    BY <1>4 DEF Throw
  <2>3. UNCHANGED tables /\ \A v \in Workers \ {w} : pc'[v] = pc[v] /\ arg'[v] = arg[v]
    <3>1. CASE UNCHANGED vars
      BY <3>1 DEF vars
    <3>2. CASE Abandon(w)
      BY <1>0, <3>2, QuietFrame DEF Quiet
    <3> QED  BY <2>2, <3>1, <3>2
  <2>4. FailuresNoted' /\ AttemptsHaveCause'
    BY <1>1, <2>1, <2>3, StaysNoted DEF tables
  <2>5. JudgedRight'
    BY <1>1, <1>2, <2>1, <2>3, StaysJudged DEF InReopt
  <2> QED  BY <2>4, <2>5
<1>5. ASSUME Quiet(w), attempted' = attempted,
             InReopt(w)' => /\ pc'[w] # "reopt.choose" => job'[w].infeasible
                            /\ job'[w].infeasible => arg'[w].asg \in failedOn'
      PROVE  FailuresNoted' /\ JudgedRight' /\ AttemptsHaveCause'
  <2>1. UNCHANGED tables /\ \A v \in Workers \ {w} : pc'[v] = pc[v] /\ arg'[v] = arg[v]
    BY <1>0, <1>5, QuietFrame
  <2>2. FailuresNoted' /\ AttemptsHaveCause'
    BY <1>1, <1>5, <2>1, StaysNoted DEF tables
  <2>3. JudgedRight'
    BY <1>1, <1>2, <1>5, <2>1, StaysJudged
  <2> QED  BY <2>2, <2>3
<1>6. ASSUME NEW a \in AssignmentIds, LoadForEvent(w, a)
      PROVE  FailuresNoted' /\ JudgedRight' /\ AttemptsHaveCause'
  <2>1. Quiet(w) /\ attempted' = attempted
    BY <1>6 DEF LoadForEvent, Quiet
  <2>2. pc'[w] = "reopt.choose" /\ arg'[w].asg = a /\ a \in Active
    BY <1>0, <1>6 DEF LoadForEvent, ReoptLoad, Goto, About, TypeOK
  <2>3. job[w] \in Job
    BY <1>6 DEF LoadForEvent, Handles, Carried
  <2>4. job'[w].infeasible = Infeasible(a)
    <3>1. PICK judged : judged = Infeasible(a)
      OBVIOUS
    <3>2. job' = [job EXCEPT ![w].step = "reopt", ![w].infeasible = judged]
      BY <1>6, <3>1 DEF LoadForEvent
    <3>3. job'[w].infeasible = judged
      BY <2>3, <3>2 DEF Carried, Job
    <3> QED  BY <3>1, <3>3
  <2>5. Infeasible(a) => a \in failedOn
    BY <2>2 DEF Infeasible, FailuresNoted
  <2> QED  BY <1>1, <1>5, <2>1, <2>2, <2>4, <2>5
<1>7. ASSUME NEW q \in Resources, ChooseForEvent(w, q)
      PROVE  FailuresNoted' /\ JudgedRight' /\ AttemptsHaveCause'
  <2>1. Quiet(w) /\ attempted' = attempted /\ job' = job
    BY <1>7 DEF ChooseForEvent, Quiet
  <2>2. arg'[w].asg = arg[w].asg
    <3>1. arg[w] \in Arguments
      BY <1>0 DEF TypeOK
    <3> QED  BY <1>0, <1>7, <3>1 DEF ChooseForEvent, ReoptChoose, Goto, TypeOK, Arguments
  <2>3. job[w].infeasible /\ arg[w].asg \in failedOn
    BY <1>7 DEF ChooseForEvent, JudgedRight
  <2> QED  BY <1>1, <1>5, <2>1, <2>2, <2>3
<1>8. CASE ReplaceStep(w)
  <2>1. Quiet(w) /\ attempted' = attempted /\ job' = job
    BY <1>8 DEF ReplaceStep, Quiet
  <2>2. pc[w] # "reopt.choose" /\ arg'[w] = arg[w]
    BY <1>0, <1>8 DEF ReplaceStep, ReoptReadAssignment, ReoptReadResource, ReoptWrite, Goto, TypeOK
  <2>3. job[w].infeasible /\ arg[w].asg \in failedOn
    BY <1>8, <2>2 DEF ReplaceStep, JudgedRight
  <2> QED  BY <1>1, <1>5, <2>1, <2>2, <2>3
<1>9. CASE RetryForEvent(w)
  <2>1. Quiet(w) /\ attempted' = attempted
    BY <1>9 DEF RetryForEvent, Quiet
  <2>2. pc[w] # "reopt.choose" /\ arg'[w] = arg[w]
    BY <1>0, <1>9 DEF RetryForEvent, ReoptRetry, ReoptOpen, Goto, TypeOK
  <2>3. job[w].infeasible /\ arg[w].asg \in failedOn
    BY <1>9, <2>2 DEF RetryForEvent, JudgedRight
  <2>4. job[w] \in Job
    BY <1>9 DEF RetryForEvent, InReopt, Carried
  <2>5. job'[w].infeasible = job[w].infeasible
    BY <1>9, <2>4 DEF RetryForEvent, Carried, Job
  <2> QED  BY <1>1, <1>5, <2>1, <2>2, <2>3, <2>5
<1>10. ASSUME NEW b, DeclineForEvent(w) \/ CommitForEvent(w, b)
       PROVE  AttemptsHaveCause' /\ ~InReopt(w)'
  <2>1. job[w] \in Job
    BY <1>10 DEF DeclineForEvent, CommitForEvent, InReopt, Carried
  <2>2. ~InReopt(w)'
    BY <1>10, <2>1 DEF DeclineForEvent, CommitForEvent, Carried, Job, InReopt
  <2>3. attempted' \subseteq attempted \union failedOn
    <3>1. CASE DeclineForEvent(w)
      BY <3>1 DEF DeclineForEvent, JudgedRight
    <3>2. CASE CommitForEvent(w, b)
      <4>1. InReopt(w) /\ pc[w] # "reopt.choose" /\ attempted' = attempted \union {arg[w].asg}
        BY <3>2 DEF CommitForEvent, ReoptCommit, ReoptOpen
      <4> QED  BY <4>1 DEF JudgedRight
    <3> QED  BY <1>10, <3>1, <3>2
  <2> QED  BY <1>1, <2>2, <2>3 DEF AttemptsHaveCause
<1>11. CASE DeclineForEvent(w)
  <2>1. Quiet(w)
    BY <1>11 DEF DeclineForEvent, Quiet
  <2>2. UNCHANGED tables /\ \A v \in Workers \ {w} : pc'[v] = pc[v] /\ arg'[v] = arg[v]
    BY <1>0, <2>1, QuietFrame
  <2>3. FailuresNoted'
    BY <1>1, <2>2 DEF FailuresNoted, Active, Rows, tables
  <2> QED  BY <1>1, <1>2, <1>10, <1>11, <2>2, <2>3, StaysJudged
<1>12. ASSUME NEW b \in AssignmentIds, CommitForEvent(w, b)
       PROVE  FailuresNoted' /\ JudgedRight' /\ AttemptsHaveCause'
  <2>1. ReoptCommit(w, b)
    BY <1>12 DEF CommitForEvent
  <2>2. \A v \in Workers \ {w} : pc'[v] = pc[v] /\ arg'[v] = arg[v]
    BY <1>0, <2>1 DEF ReoptCommit, Finish, Goto, TypeOK
  <2>3. FailuresNoted'
    BY <1>0, <1>1, <2>1, OthersNoted DEF NoEdit, ReoptNext
  <2> QED  BY <1>1, <1>2, <1>10, <1>12, <2>2, <2>3, StaysJudged
<1> QED  BY <1>3, <1>4, <1>6, <1>7, <1>8, <1>9, <1>11, <1>12 DEF WorkerStep

\* Every step leaves what is noted and judged of failures right.
LEMMA NotedStep ==
  ASSUME TypeOK, RequestsOK, Carried, FailuresNoted, JudgedRight, AttemptsHaveCause,
         [FRNext]_frVars
  PROVE  FailuresNoted' /\ JudgedRight' /\ AttemptsHaveCause'
<1>1. CASE RequestStep
  <2>1. NoEdit
    BY <1>1, Constants DEF RequestStep, NoEdit
  <2>2. FailuresNoted'
    BY <1>1, <2>1, OthersNoted DEF RequestStep
  <2>3. \A v \in Workers : pc'[v] = pc[v] /\ arg'[v] = arg[v]
    BY <1>1, WorkersStay
  <2>4. job' = job /\ failedOn' = failedOn /\ attempted' = attempted
    BY <1>1 DEF RequestStep
  <2> QED  BY <2>2, <2>3, <2>4 DEF JudgedRight, InReopt, AttemptsHaveCause
<1>2. CASE UNCHANGED frVars
  <2>1. FailuresNoted' /\ AttemptsHaveCause'
    BY <1>2, StaysNoted DEF frVars, vars, tables
  <2>2. JudgedRight'
    BY <1>2 DEF JudgedRight, InReopt, frVars, vars
  <2> QED  BY <2>1, <2>2
<1> QED  BY <1>1, <1>2, EditorNotes, WorkerNotes DEF FRNext

-----------------------------------------------------------------------------
(* Theorems *)

LEMMA FRInvInit == FRInit => FRInv
<1> SUFFICES ASSUME FRInit PROVE FRInv
  OBVIOUS
<1>1. IInv
  BY InvInit DEF FRInit
<1>2. BagToSet(events) = {}
  BY DEF FRInit, EmptyBag, SetToBag, BagToSet
<1>3. FRTypeOK
  BY <1>1, <1>2, Constants DEF IInv, FRInit, FRTypeOK
<1>4. ChangesOfResources /\ RequestsFound /\ JudgedRight /\ AttemptsHaveCause
  BY <1>2 DEF FRInit, ChangesOfResources, RequestsFound, JudgedRight, InReopt, AttemptsHaveCause
<1>5. FailuresNoted
  BY DEF FRInit, Init, FailuresNoted, Active, Rows
<1> QED  BY <1>1, <1>3, <1>4, <1>5 DEF FRInv

LEMMA FRInvStep == FRInv /\ [FRNext]_frVars => FRInv' /\ [Next]_vars
<1> SUFFICES ASSUME FRInv, [FRNext]_frVars PROVE FRInv' /\ [Next]_vars
  OBVIOUS
<1>1. TypeOK /\ RequestsOK /\ Carried
  BY DEF FRInv, FRTypeOK, IInv, DecisionsHold, Carried
<1>2. [Next]_vars
  BY StepRefines DEF FRInv
<1>3. IInv' /\ TypeOK'
  BY <1>2, InvStep DEF FRInv, IInv
<1>4. Carried'
  BY <1>1, CarriedStep
<1>5. FailuresNoted' /\ JudgedRight' /\ AttemptsHaveCause'
  BY <1>1, NotedStep DEF FRInv
<1> QED  BY <1>2, <1>3, <1>4, <1>5 DEF FRInv, FRTypeOK, Carried

\* The inductive invariant holds at every moment.
THEOREM FRInvariance == FRSpec => []FRInv
  BY FRInvInit, FRInvStep, PTL DEF FRSpec

\* Every event, every job and every edit in flight has its type, always: no
\* handler acts on an event that misses what it reads of it.
THEOREM FRTypeCorrect == FRSpec => []FRTypeOK
<1>1. FRInv => FRTypeOK
  BY DEF FRInv
<1> QED  BY <1>1, FRInvariance, PTL

\* However late, often or out of order the events are handled, a mission is
\* found infeasible only for a failure of its own resource while it was on.
THEOREM Caused == FRSpec => []AttemptsHaveCause
<1>1. FRInv => AttemptsHaveCause
  BY DEF FRInv
<1> QED  BY <1>1, FRInvariance, PTL

\* The response to failures is a use of the dispatch core: its edits and its
\* workers take no step that the requests of Dispatch could not, so all that
\* is proved of every behaviour of Dispatch holds of it.
THEOREM ImplementsDispatch == FRSpec => Spec
<1>1. FRInit => Init
  BY DEF FRInit
<1> QED  BY <1>1, FRInvStep, FRInvariance, PTL DEF FRSpec, Spec

\* With workers that replace resources on events, redelivered and out of
\* order, next to requests and staff edits, no resource is on two missions.
THEOREM ReplacementsExclusive == FRSpec => []OneMissionPerResource
  BY ImplementsDispatch, ExclusiveResource, PTL

\* Nor does it leave its old resource BUSY with nothing to do.
THEOREM ReplacementsStrandNothing == FRSpec => []NoStrandedResource
  BY ImplementsDispatch, NothingStranded, PTL

\* And what the workers and requests do together to the pairs in force is an
\* assignment, a release or a replacement of the abstract allocation.
THEOREM ResponseImplements == FRSpec => ImplementsExclusiveAllocation
  BY ImplementsDispatch, Implementation, PTL

=============================================================================
