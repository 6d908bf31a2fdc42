--------------------------- MODULE PriorityScore ---------------------------
(***************************************************************************)
(* The stored priority of one incident and its report.  Three things       *)
(* calculate it: the handler of INCIDENT_CREATED, an edit of the report,   *)
(* and staff who ask for it.  Each reads the report in one statement and   *)
(* saves the score by id in a later one, with its row of the decision log. *)
(* A fourth thing changes the report and calculates nothing: a rejection   *)
(* writes its reason over environmentalCondition, which the priority is    *)
(* calculated from.                                                        *)
(*                                                                         *)
(* Only revisions of the report count that touch a field the priority is   *)
(* calculated from; the score of a revision is known by its number.  What  *)
(* the publisher, the queue and the worker do with an event is in          *)
(* EventPipeline; here INCIDENT_CREATED is handled, perhaps by two workers *)
(* at once, until it is handled or given up.                               *)
(***************************************************************************)
EXTENDS Naturals, FiniteSets

CONSTANTS
    ScoreWorkers,     \* workers that handle INCIDENT_CREATED
    Callers,          \* requests that edit the report, review it or ask for its priority
    MaxRevisions,     \* bound: revisions of the report
    MaxTries          \* attempts of a job

ASSUME PriorityScoreAssumption ==
    /\ MaxRevisions \in Nat \ {0} /\ MaxTries \in Nat
    /\ ScoreWorkers \intersect Callers = {}
    /\ IsFiniteSet(Callers)

VARIABLES
    report,        \* the current revision; 0 before the incident is reported
    review,        \* its status, as far as edits and reviews depend on it
    score,         \* the revision that priorityScore was calculated from; 0 for null
    created,       \* what has become of INCIDENT_CREATED
    tries,         \* attempts of its job that have failed
    task,          \* where each worker and each request stands
    authors,       \* history: who wrote each revision
    approvedAt,    \* history: the revision that was approved, 0 for none
    racing,        \* history: edits by citizens that were under way at the approval
    overtaken,     \* history: an older score was saved over a newer one
    lost           \* history: a calculation was due and nobody made it

psVars == <<report, review, score, created, tries, task, authors, approvedAt, racing,
            overtaken, lost>>

Revisions == 1 .. MaxRevisions
Tasks == ScoreWorkers \union Callers

\* ADMIN stands for COORDINATOR too, who edits and reviews alike.
EditRoles == {"CITIZEN", "ADMIN", "OPERATOR"}

\* A COORDINATOR's report is not approved by itself; "rejection" is the writer
\* of a reason.
Authors == EditRoles \union {"COORDINATOR", "rejection", "nobody"}

Task == [step : {"idle", "write", "review", "read", "save", "announce"},
         role : EditRoles \union {"nobody"}, rev : 0 .. MaxRevisions]

Resting == [step |-> "idle", role |-> "nobody", rev |-> 0]

PSTypeOK ==
    /\ report \in 0 .. MaxRevisions
    /\ review \in {"PENDING", "APPROVED", "REJECTED"}
    /\ score \in 0 .. MaxRevisions
    /\ created \in {"none", "unwritten", "queued", "handled", "abandoned", "lost"}
    /\ tries \in 0 .. MaxTries
    /\ task \in [Tasks -> Task]
    /\ authors \in [Revisions -> Authors]
    /\ approvedAt \in 0 .. MaxRevisions
    /\ racing \in 0 .. Cardinality(Callers)
    /\ {overtaken, lost} \subseteq BOOLEAN

PSInit ==
    /\ report = 0
    /\ review = "PENDING"
    /\ score = 0
    /\ created = "none"
    /\ tries = 0
    /\ task = [t \in Tasks |-> Resting]
    /\ authors = [v \in Revisions |-> "nobody"]
    /\ approvedAt = 0
    /\ racing = 0
    /\ overtaken = FALSE
    /\ lost = FALSE

-----------------------------------------------------------------------------
Enter(t, step) == task' = [task EXCEPT ![t].step = step]
Rest(t) == task' = [task EXCEPT ![t] = Resting]

\* A calculation that was due is not made: that matters if the score is old.
GiveUp(due) == lost' = (lost \/ (due /\ score # report))

\* createIncident: the insert of a report, which needs no approval if it is by
\* an ADMIN or, alike, an OPERATOR ...
ReportIncident ==
    /\ report = 0
    /\ report' = 1
    /\ \E role \in {"CITIZEN", "COORDINATOR", "ADMIN"} :
          /\ authors' = [authors EXCEPT ![1] = role]
          /\ review' = IF role = "ADMIN" THEN "APPROVED" ELSE "PENDING"
          /\ approvedAt' = IF role = "ADMIN" THEN 1 ELSE 0
    /\ created' = "unwritten"
    /\ UNCHANGED <<score, tries, task, racing, overtaken, lost>>

\* ... and its event, in a statement of its own, which may fail or never come.
TellCreated ==
    /\ created = "unwritten"
    /\ \/ created' = "queued" /\ UNCHANGED lost
       \/ created' = "lost" /\ GiveUp(TRUE)
    /\ UNCHANGED <<report, review, score, tries, task, authors, approvedAt, racing, overtaken>>

\* handleIncidentCreated begins.  A stalled job is given to a second worker.
TakeCreated(w) ==
    /\ created = "queued"
    /\ task[w] = Resting
    /\ Enter(w, "read")
    /\ UNCHANGED <<report, review, score, created, tries, authors, approvedAt, racing,
                   overtaken, lost>>

\* Mutant: the status of the incident is not looked at.
MayEditAnyTime(role, status, reporter) == role # "OPERATOR"

\* updateIncident: who may edit, by the row as it is read.
MayEdit(role, status, reporter) ==
    /\ role = "CITIZEN" => reporter = "CITIZEN" /\ status = "PENDING"
    /\ role # "OPERATOR"

\* updateIncident, up to its checks; one that is refused changes nothing.
BeginEdit(c) ==
    /\ report # 0
    /\ task[c] = Resting
    /\ \E role \in EditRoles :
          /\ MayEdit(role, review, authors[1])
          /\ task' = [task EXCEPT ![c] = [step |-> "write", role |-> role, rev |-> 0]]
    /\ UNCHANGED <<report, review, score, created, tries, authors, approvedAt, racing,
                   overtaken, lost>>

\* Mutant: the field that was edited is not in the list.
AfterEditForgotten(role) == Resting

\* touchesPriorityFields: the edit goes on to calculate the priority.
AfterEdit(role) == [step |-> "read", role |-> role, rev |-> 0]

\* updateIncident, the update by id.  Its event and the calculation follow,
\* so that the step "read" also stands for an event that cannot be written.
WriteReport(c) ==
    /\ task[c].step = "write"
    /\ report < MaxRevisions
    /\ report' = report + 1
    /\ authors' = [authors EXCEPT ![report + 1] = task[c].role]
    /\ task' = [task EXCEPT ![c] = AfterEdit(task[c].role)]
    /\ UNCHANGED <<review, score, created, tries, approvedAt, racing, overtaken, lost>>

\* POST /incidents/:id/calculate-priority
AskForPriority(c) ==
    /\ report # 0
    /\ task[c] = Resting
    /\ Enter(c, "read")
    /\ UNCHANGED <<report, review, score, created, tries, authors, approvedAt, racing,
                   overtaken, lost>>

\* calculateAndSaveIncidentPriority reads the incident.
ReadReport(t) ==
    /\ task[t].step = "read"
    /\ task' = [task EXCEPT ![t].step = "save", ![t].rev = report]
    /\ UNCHANGED <<report, review, score, created, tries, authors, approvedAt, racing,
                   overtaken, lost>>

\* Mutant: the calculation of an edit starts from the row read before it.
ScoredBefore(t) == IF t \in Callers THEN task[t].rev - 1 ELSE task[t].rev

\* What a calculation saves: the score of the revision it read.
Scored(t) == task[t].rev

\* calculateAndSaveIncidentPriority, its transaction.
SaveScore(t) ==
    /\ task[t].step = "save"
    /\ score' = Scored(t)
    /\ overtaken' = (Scored(t) # report /\ (overtaken \/ Scored(t) < score))
    /\ lost' = (Scored(t) # report /\ lost)
    /\ IF t \in ScoreWorkers THEN Enter(t, "announce") ELSE Rest(t)
    /\ UNCHANGED <<report, review, created, tries, authors, approvedAt, racing>>

\* PRIORITY_CALCULATED is written, and the job is done.
AnnounceScore(w) ==
    /\ task[w].step = "announce"
    /\ created' = IF created = "queued" THEN "handled" ELSE created
    /\ Rest(w)
    /\ UNCHANGED <<report, review, score, tries, authors, approvedAt, racing, overtaken, lost>>

\* The handler throws: the job is tried again, but for the last attempt.
HandlerThrows(w) ==
    /\ task[w] # Resting
    /\ created = "queued"
    /\ tries < MaxTries
    /\ tries' = tries + 1
    /\ IF tries' = MaxTries THEN created' = "abandoned" /\ GiveUp(TRUE)
       ELSE UNCHANGED <<created, lost>>
    /\ Rest(w)
    /\ UNCHANGED <<report, review, score, authors, approvedAt, racing, overtaken>>

\* A request ends early: an error, or the end of its process.
RequestDies(c) ==
    /\ task[c] # Resting
    /\ GiveUp(task[c].role # "nobody" /\ task[c].step \in {"read", "save"})
    /\ Rest(c)
    /\ UNCHANGED <<report, review, score, created, tries, authors, approvedAt, racing, overtaken>>

\* approveIncident, rejectIncident and updateIncidentStatus, up to their checks.
BeginReview(c) ==
    /\ report # 0
    /\ review = "PENDING"
    /\ task[c] = Resting
    /\ task' = [task EXCEPT ![c] = [step |-> "review", role |-> "ADMIN", rev |-> 0]]
    /\ UNCHANGED <<report, review, score, created, tries, authors, approvedAt, racing,
                   overtaken, lost>>

\* The update by id of an approval, whatever the status is by now: it approves
\* the report as it is now.
ApproveReport(c) ==
    /\ task[c].step = "review"
    /\ review' = "APPROVED"
    /\ approvedAt' = report
    /\ racing' = Cardinality({e \in Callers : task[e].step = "write" /\ task[e].role = "CITIZEN"})
    /\ Rest(c)
    /\ UNCHANGED <<report, score, created, tries, authors, overtaken, lost>>

\* The update by id of a rejection.  With a reason, which is written over
\* environmentalCondition: a revision that nobody calculates the score of.
RejectReport(c) ==
    /\ task[c].step = "review"
    /\ review' = "REJECTED"
    /\ \/ UNCHANGED <<report, authors>>
       \/ /\ report < MaxRevisions
          /\ report' = report + 1
          /\ authors' = [authors EXCEPT ![report + 1] = "rejection"]
    /\ Rest(c)
    /\ UNCHANGED <<score, created, tries, approvedAt, racing, overtaken, lost>>

PSNext ==
    \/ ReportIncident
    \/ TellCreated
    \/ \E w \in ScoreWorkers : TakeCreated(w) \/ AnnounceScore(w) \/ HandlerThrows(w)
    \/ \E c \in Callers :
          \/ BeginEdit(c) \/ WriteReport(c) \/ AskForPriority(c) \/ RequestDies(c)
          \/ BeginReview(c) \/ ApproveReport(c) \/ RejectReport(c)
    \/ \E t \in Tasks : ReadReport(t) \/ SaveScore(t)

\* Statements that were begun complete, and queued jobs are taken.
PSFairness ==
    /\ WF_psVars(TellCreated)
    /\ \A w \in ScoreWorkers : WF_psVars(TakeCreated(w)) /\ WF_psVars(AnnounceScore(w))
    /\ \A t \in Tasks : WF_psVars(ReadReport(t)) /\ WF_psVars(SaveScore(t))

PSSpec == PSInit /\ [][PSNext]_psVars /\ PSFairness

-----------------------------------------------------------------------------
(* Properties *)

\* Somebody is about to save the score of the current revision: a calculation
\* that has read it or is still to read, or an event that nobody works on.
Due ==
    \/ created = "unwritten"
    \/ created = "queued" /\ \A w \in ScoreWorkers : task[w].step \notin {"save", "announce"}
    \/ \E t \in Tasks : task[t].step = "read" \/ (task[t].step = "save" /\ task[t].rev = report)

\* The current revision is the report with the reason of its rejection in it.
Annotated == report # 0 /\ authors[report] = "rejection"

\* The stored priority is that of the current report, unless a calculation of
\* it is due, one was lost, a calculation that had read an older report saved
\* its score last, or the report was last written by a rejection, which
\* calculates nothing: no other writer lets the two drift apart.
ScoreExcused == report # score => Due \/ overtaken \/ lost \/ Annotated

\* An approval stands for what the coordinator saw, but for the edits of the
\* citizen that had passed their check when it was given: each changes the
\* approved report once.
ApprovedAsReviewed ==
    approvedAt # 0 =>
        Cardinality({v \in approvedAt + 1 .. report : authors[v] = "CITIZEN"}) <= racing

\* A report that is written no more has its priority in the end, however the
\* handler, the edits, the reviews and the requests interleave, unless its
\* calculation is lost or overtaken or a rejection wrote it last.
ScoreSettles == (report # score) ~> (report = score \/ overtaken \/ lost \/ Annotated)

=============================================================================
