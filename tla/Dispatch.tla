------------------------------ MODULE Dispatch ------------------------------
(***************************************************************************)
(* The dispatch core: incidents, resources and the assignments that tie    *)
(* them together, as several API processes and workers change them at      *)
(* once over one PostgreSQL database.                                      *)
(*                                                                         *)
(* A session is one request in flight.  Its handler reads rows, decides,   *)
(* and writes; other sessions commit between any two of its steps.  A      *)
(* $transaction runs at READ COMMITTED: every read sees what is committed  *)
(* at that moment, and its writes become visible together, at commit.      *)
(* Two things still order the writers: a row updated by an open            *)
(* transaction is locked, and the partial unique indexes refuse a second   *)
(* ACTIVE assignment of a resource or of an incident.                      *)
(***************************************************************************)
EXTENDS Naturals, FiniteSets

CONSTANTS
    Incidents,        \* ids of incidents that may be reported
    Resources,        \* ids of the resources, all in service from the start
    AssignmentIds,    \* ids that rows of the assignments table may get
    Sessions,         \* requests that may be in flight at once
    CreatorRoles,     \* roles of the users who report incidents
    StatusTargets,    \* incident statuses that staff ask for through /status
    StaffStatuses,    \* resource statuses that staff set through PATCH
    None              \* absent row, unset argument

IncidentStatus ==
    {"PENDING", "APPROVED", "REJECTED", "ASSIGNED", "IN_PROGRESS", "COMPLETED", "CANCELLED"}
ResourceStatus == {"AVAILABLE", "BUSY", "UNAVAILABLE", "MAINTENANCE", "FAILED"}
AssignmentStatus == {"PENDING", "ACTIVE", "COMPLETED", "CANCELLED"}
Roles == {"CITIZEN", "COORDINATOR", "OPERATOR", "ADMIN"}
AssignmentRow == [inc : Incidents, res : Resources, status : AssignmentStatus]

ASSUME RolesAssumption == CreatorRoles \subseteq Roles
ASSUME StaffAssumption ==
    StatusTargets \subseteq IncidentStatus /\ StaffStatuses \subseteq ResourceStatus
ASSUME NoneAssumption ==
    /\ None \notin Incidents \union Resources \union AssignmentIds
                    \union IncidentStatus \union Roles
    /\ None \notin AssignmentRow

VARIABLES
    incident,      \* incidents table: status, or None before the report
    creator,       \* role of the user who reported it
    resource,      \* resources table: status
    assignment,    \* assignments table: row or None
    journal,       \* outbox, decision log and re-optimization log rows about assignments
    pc,            \* where each session's handler stands
    arg,           \* what each session's handler has read or been given
    everApproved,  \* history: the incidents that have ever been APPROVED
    handAssigned,  \* history: the incidents whose ASSIGNED a person set through /status
    handBusy       \* history: the resources whose BUSY a person set through PATCH

history == <<everApproved, handAssigned, handBusy>>

tables == <<incident, creator, resource, assignment, journal, history>>

vars == <<tables, pc, arg>>

Steps ==
    {"idle", "status.write",
     "create.resource", "create.duplicates", "create.insert",
     "complete.write", "cancel.write", "cancel.keep", "cancel.revert",
     "reopt.choose", "reopt.assignment", "reopt.resource", "reopt.write",
     "reopt.keep", "reopt.release"}

\* A cancellation has updated its assignment and its resource, and found the
\* incident in need of a new approval (revert) or not (keep); a replacement
\* has updated the old assignment, and found the old resource BUSY (release)
\* or not (keep).  What is left of either is the commit.
CancelOpen == {"cancel.keep", "cancel.revert"}
ReoptOpen == {"reopt.keep", "reopt.release"}

JournalKinds ==
    {"ASSIGNMENT_CREATED", "ASSIGNMENT_COMPLETED", "ASSIGNMENT_CANCELLED",
     "RESOURCE_ASSIGNMENT", "REPLACED"}

\* inc, res and asg: the rows the request is about; alt: the replacement a
\* re-optimization chose; to: the incident status to write.
Arguments ==
    [inc : Incidents \union {None}, res : Resources \union {None},
     asg : AssignmentIds \union {None}, alt : Resources \union {None},
     to : IncidentStatus \union {None}]

About(i, r, a, to) == [inc |-> i, res |-> r, asg |-> a, alt |-> None, to |-> to]

NoArguments == About(None, None, None, None)

TypeOK ==
    /\ incident \in [Incidents -> IncidentStatus \union {None}]
    /\ creator \in [Incidents -> Roles \union {None}]
    /\ resource \in [Resources -> ResourceStatus]
    /\ assignment \in [AssignmentIds -> AssignmentRow \union {None}]
    /\ journal \subseteq JournalKinds \X AssignmentIds
    /\ pc \in [Sessions -> Steps]
    /\ arg \in [Sessions -> Arguments]
    /\ everApproved \subseteq Incidents
    /\ handAssigned \subseteq Incidents
    /\ handBusy \subseteq Resources

-----------------------------------------------------------------------------
(* What the handlers ask of the tables *)

\* ALLOWED_STATUS_TRANSITIONS of incidents.
AllowedStatusTransitions ==
    [s \in IncidentStatus |->
        CASE s = "PENDING" -> {"APPROVED", "REJECTED", "CANCELLED"}
          [] s = "APPROVED" -> {"ASSIGNED", "CANCELLED"}
          [] s = "ASSIGNED" -> {"IN_PROGRESS", "CANCELLED"}
          [] s = "IN_PROGRESS" -> {"COMPLETED", "CANCELLED"}
          [] OTHER -> {}]

\* ALLOWED_ASSIGNMENT_TRANSITIONS.
AllowedAssignmentTransitions ==
    [s \in AssignmentStatus |->
        CASE s = "PENDING" -> {"ACTIVE", "CANCELLED"}
          [] s = "ACTIVE" -> {"COMPLETED", "CANCELLED"}
          [] OTHER -> {}]

\* Mutant: an incident can be assigned before anyone approved it.
AssignableWithoutApproval == {"PENDING", "APPROVED"}

AssignableIncidentStatuses == {"APPROVED"}

\* The incident statuses for which a re-optimization applies.
ActiveIncidentStatuses == {"APPROVED", "ASSIGNED", "IN_PROGRESS"}

Rows == {a \in AssignmentIds : assignment[a] # None}
Active == {a \in Rows : assignment[a].status = "ACTIVE"}
ActiveOfResource(r) == {a \in Active : assignment[a].res = r}
ActiveOfIncident(i) == {a \in Active : assignment[a].inc = i}

\* Mutants: one of the indexes, or both, are missing from the database.
NoResourceIndexAllows(i, r, freed) == ActiveOfIncident(i) \subseteq freed
NoIncidentIndexAllows(i, r, freed) == ActiveOfResource(r) \subseteq freed
NoIndexesAllow(i, r, freed) == TRUE

\* The two partial unique indexes: a new ACTIVE row of i and r, once the rows
\* in `freed` are no longer ACTIVE.  The insert waits for, or fails on, a
\* conflicting row; either way it does not go through while there is one.
UniqueIndexesAllow(i, r, freed) ==
    ActiveOfResource(r) \union ActiveOfIncident(i) \subseteq freed

\* Rows that an open transaction of another session has updated.
AssignmentLocked(a, s) ==
    \E t \in Sessions \ {s} :
        pc[t] \in CancelOpen \union ReoptOpen /\ arg[t].asg = a
ResourceLocked(r) ==
    \E t \in Sessions : pc[t] \in CancelOpen /\ arg[t].res = r

-----------------------------------------------------------------------------
Init ==
    /\ incident = [i \in Incidents |-> None]
    /\ creator = [i \in Incidents |-> None]
    /\ resource = [r \in Resources |-> "AVAILABLE"]
    /\ assignment = [a \in AssignmentIds |-> None]
    /\ journal = {}
    /\ pc = [s \in Sessions |-> "idle"]
    /\ arg = [s \in Sessions |-> NoArguments]
    /\ everApproved = {}
    /\ handAssigned = {}
    /\ handBusy = {}

\* A session's handler moves to `step`, keeping or changing its arguments.
Goto(s, step, args) ==
    /\ pc' = [pc EXCEPT ![s] = step]
    /\ arg' = [arg EXCEPT ![s] = args]

Finish(s) == Goto(s, "idle", NoArguments)

-----------------------------------------------------------------------------
(* Incidents: each status operation reads the row, checks, then updates it  *)
(* by id in a second statement, outside any transaction.                    *)

\* Mutant: a status that the schema does not have.
UnknownInitialStatus(role) == IF role \in {"OPERATOR", "ADMIN"} THEN "APPROVED" ELSE "NEW"

\* Staff reports are approved at once, the others wait for a coordinator.
InitialStatus(role) == IF role \in {"OPERATOR", "ADMIN"} THEN "APPROVED" ELSE "PENDING"

\* createIncident, up to its insert; its event is the business of the outbox.
CreateIncident(i, role) ==
    /\ incident[i] = None
    /\ LET status == InitialStatus(role)
       IN  /\ incident' = [incident EXCEPT ![i] = status]
           /\ everApproved' = IF status = "APPROVED" THEN everApproved \union {i} ELSE everApproved
    /\ creator' = [creator EXCEPT ![i] = role]
    /\ UNCHANGED <<resource, assignment, journal, handAssigned, handBusy, pc, arg>>

\* The check has passed: the handler will write `to`.
DecideStatus(s, i, to) ==
    /\ pc[s] = "idle"
    /\ incident[i] # None
    /\ Goto(s, "status.write", About(i, None, None, to))
    /\ UNCHANGED tables

\* cancelIncident: a citizen only while PENDING, staff until it is closed.
CancelIncident(s, i, role) ==
    /\ IF role = "CITIZEN" THEN incident[i] = "PENDING"
                           ELSE incident[i] \notin {"COMPLETED", "CANCELLED"}
    /\ DecideStatus(s, i, "CANCELLED")

\* approveIncident: only citizens' reports need it.
ApproveIncident(s, i) ==
    /\ incident[i] = "PENDING"
    /\ creator[i] = "CITIZEN"
    /\ DecideStatus(s, i, "APPROVED")

\* rejectIncident.
RejectIncident(s, i) ==
    /\ incident[i] = "PENDING"
    /\ DecideStatus(s, i, "REJECTED")

\* updateIncidentStatus: any transition the table allows.
UpdateIncidentStatus(s, i, to) ==
    /\ incident[i] # None
    /\ to \in AllowedStatusTransitions[incident[i]]
    /\ DecideStatus(s, i, to)

\* The update by id: whatever the row holds by now, it gets the new status.
WriteStatus(s) ==
    LET i == arg[s].inc
        to == arg[s].to
    IN  /\ pc[s] = "status.write"
        /\ incident' = [incident EXCEPT ![i] = to]
        /\ everApproved' = IF to = "APPROVED" THEN everApproved \union {i} ELSE everApproved
        /\ handAssigned' = IF to = "ASSIGNED" THEN handAssigned \union {i} ELSE handAssigned \ {i}
        /\ Finish(s)
        /\ UNCHANGED <<creator, resource, assignment, journal, handBusy>>

-----------------------------------------------------------------------------
(* Resources: staff may set any status, whatever the resource is doing.     *)

SetResource(r, status) ==
    /\ ~ResourceLocked(r)
    /\ resource' = [resource EXCEPT ![r] = status]
    /\ handBusy' = IF status = "BUSY" THEN handBusy \union {r} ELSE handBusy \ {r}
    /\ UNCHANGED <<incident, creator, assignment, journal, everApproved, handAssigned, pc, arg>>

UpdateResource(r, status) == SetResource(r, status)

DeactivateResource(r) == SetResource(r, "UNAVAILABLE")

-----------------------------------------------------------------------------
(* createAssignment *)

CreateReadIncident(s, i, r) ==
    /\ pc[s] = "idle"
    /\ incident[i] \in AssignableIncidentStatuses
    /\ Goto(s, "create.resource", About(i, r, None, None))
    /\ UNCHANGED tables

\* The type and capacity checks compare fields that staff may edit at any
\* time; here they may pass or (Abandon) fail.
CreateReadResource(s) ==
    /\ pc[s] = "create.resource"
    /\ resource[arg[s].res] = "AVAILABLE"
    /\ Goto(s, "create.duplicates", arg[s])
    /\ UNCHANGED tables

CreateCheckDuplicates(s) ==
    /\ pc[s] = "create.duplicates"
    /\ ActiveOfResource(arg[s].res) = {}
    /\ ActiveOfIncident(arg[s].inc) = {}
    /\ Goto(s, "create.insert", arg[s])
    /\ UNCHANGED tables

\* The writes of the transaction and its commit: the row, the resource, the
\* incident, the decision log and the outbox event together.
CreateCommit(s, a) ==
    LET i == arg[s].inc
        r == arg[s].res
    IN  /\ pc[s] = "create.insert"
        /\ assignment[a] = None
        /\ UniqueIndexesAllow(i, r, {})
        /\ ~ResourceLocked(r)
        /\ assignment' = [assignment EXCEPT ![a] = [inc |-> i, res |-> r, status |-> "ACTIVE"]]
        /\ resource' = [resource EXCEPT ![r] = "BUSY"]
        /\ incident' = [incident EXCEPT ![i] = "ASSIGNED"]
        /\ handAssigned' = handAssigned \ {i}
        /\ handBusy' = handBusy \ {r}
        /\ journal' = journal \union {<<"RESOURCE_ASSIGNMENT", a>>, <<"ASSIGNMENT_CREATED", a>>}
        /\ Finish(s)
        /\ UNCHANGED <<creator, everApproved>>

-----------------------------------------------------------------------------
(* completeAssignment and cancelAssignment *)

\* An existing row may take the status `to`, as the transition table says.
MayBecome(a, to) ==
    /\ assignment[a] # None
    /\ to \in AllowedAssignmentTransitions[assignment[a].status]

CompleteCheck(s, a) ==
    /\ pc[s] = "idle"
    /\ MayBecome(a, "COMPLETED")
    /\ Goto(s, "complete.write",
            About(assignment[a].inc, assignment[a].res, a, None))
    /\ UNCHANGED tables

\* Mutant: the event is not written.
NoCompletionRecord(a) == {}

CompletionRecord(a) == {<<"ASSIGNMENT_COMPLETED", a>>}

\* All three rows are updated by id, with no second look at any of them.
CompleteCommit(s) ==
    LET a == arg[s].asg
        i == arg[s].inc
        r == arg[s].res
    IN  /\ pc[s] = "complete.write"
        /\ ~AssignmentLocked(a, s)
        /\ ~ResourceLocked(r)
        /\ assignment' = [assignment EXCEPT ![a].status = "COMPLETED"]
        /\ resource' = [resource EXCEPT ![r] = "AVAILABLE"]
        /\ incident' = [incident EXCEPT ![i] = "IN_PROGRESS"]
        /\ handAssigned' = handAssigned \ {i}
        /\ handBusy' = handBusy \ {r}
        /\ journal' = journal \union CompletionRecord(a)
        /\ Finish(s)
        /\ UNCHANGED <<creator, everApproved>>

CancelCheck(s, a) ==
    /\ pc[s] = "idle"
    /\ MayBecome(a, "CANCELLED")
    /\ Goto(s, "cancel.write",
            About(assignment[a].inc, assignment[a].res, a, None))
    /\ UNCHANGED tables

\* Mutant: looks for the status an incident has after a mission.
NeedsReapprovalLate(i) == incident[i] = "IN_PROGRESS"

NeedsReapproval(i) == incident[i] = "ASSIGNED"

\* The assignment and the resource are updated, so locked, and the incident
\* is read: it goes back to APPROVED only if it is ASSIGNED now.
CancelWrite(s) ==
    /\ pc[s] = "cancel.write"
    /\ ~AssignmentLocked(arg[s].asg, s)
    /\ ~ResourceLocked(arg[s].res)
    /\ Goto(s, IF NeedsReapproval(arg[s].inc) THEN "cancel.revert" ELSE "cancel.keep", arg[s])
    /\ UNCHANGED tables

CancelCommit(s) ==
    LET a == arg[s].asg
        i == arg[s].inc
        r == arg[s].res
    IN  /\ pc[s] \in CancelOpen
        /\ assignment' = [assignment EXCEPT ![a].status = "CANCELLED"]
        /\ resource' = [resource EXCEPT ![r] = "AVAILABLE"]
        /\ IF pc[s] = "cancel.revert"
           THEN /\ incident' = [incident EXCEPT ![i] = "APPROVED"]
                /\ everApproved' = everApproved \union {i}
                /\ handAssigned' = handAssigned \ {i}
           ELSE UNCHANGED <<incident, everApproved, handAssigned>>
        /\ handBusy' = handBusy \ {r}
        /\ journal' = journal \union {<<"ASSIGNMENT_CANCELLED", a>>}
        /\ Finish(s)
        /\ UNCHANGED creator

-----------------------------------------------------------------------------
(* reoptimizeAssignment *)

\* Reads before the transaction: the assignment with its incident.
ReoptLoad(s, a) ==
    /\ pc[s] = "idle"
    /\ a \in Active
    /\ incident[assignment[a].inc] \in ActiveIncidentStatuses
    /\ Goto(s, "reopt.choose",
            About(assignment[a].inc, assignment[a].res, a, None))
    /\ UNCHANGED tables

\* The current resource was judged infeasible (it failed, is out of service,
\* too small, of the wrong type, or its access is blocked), and the engine
\* picks one of the other available resources.
ReoptChoose(s, q) ==
    /\ pc[s] = "reopt.choose"
    /\ q # arg[s].res
    /\ resource[q] = "AVAILABLE"
    /\ Goto(s, "reopt.assignment", [arg[s] EXCEPT !.alt = q])
    /\ UNCHANGED tables

\* Nothing is replaced: the current resource is good enough, or no other is,
\* or an incident of higher priority may not take it.  The log rows that say
\* so are left out.
ReoptDecline(s) ==
    /\ pc[s] = "reopt.choose"
    /\ Finish(s)
    /\ UNCHANGED tables

\* The transaction reads the assignment and the new resource again, and the
\* incident not.
ReoptReadAssignment(s) ==
    /\ pc[s] = "reopt.assignment"
    /\ arg[s].asg \in Active
    /\ Goto(s, "reopt.resource", arg[s])
    /\ UNCHANGED tables

ReoptReadResource(s) ==
    /\ pc[s] = "reopt.resource"
    /\ resource[arg[s].alt] = "AVAILABLE"
    /\ Goto(s, "reopt.write", arg[s])
    /\ UNCHANGED tables

\* Mutant: releases only what is free already.
NeedsReleaseIfFree(r) == resource[r] = "AVAILABLE"

NeedsRelease(r) == resource[r] = "BUSY"

\* The old assignment is updated, so locked, and the old resource read: it
\* is set AVAILABLE only if it is BUSY now.
ReoptWrite(s) ==
    /\ pc[s] = "reopt.write"
    /\ ~AssignmentLocked(arg[s].asg, s)
    /\ Goto(s, IF NeedsRelease(arg[s].res) THEN "reopt.release" ELSE "reopt.keep", arg[s])
    /\ UNCHANGED tables

ReoptCommit(s, b) ==
    LET a == arg[s].asg
        i == arg[s].inc
        r == arg[s].res
        q == arg[s].alt
        freed == IF pc[s] = "reopt.release" THEN {r} ELSE {}
    IN  /\ pc[s] \in ReoptOpen
        /\ assignment[b] = None
        /\ UniqueIndexesAllow(i, q, {a})
        /\ \A x \in {q} \union freed : ~ResourceLocked(x)
        /\ assignment' = [assignment EXCEPT
                             ![a].status = "CANCELLED",
                             ![b] = [inc |-> i, res |-> q, status |-> "ACTIVE"]]
        /\ resource' = [x \in Resources |->
                           CASE x = q -> "BUSY"
                             [] x \in freed -> "AVAILABLE"
                             [] OTHER -> resource[x]]
        /\ handBusy' = handBusy \ ({q} \union freed)
        /\ journal' = journal \union {<<"RESOURCE_ASSIGNMENT", b>>, <<"REPLACED", a>>}
        /\ Finish(s)
        /\ UNCHANGED <<incident, creator, everApproved, handAssigned>>

\* withRetry runs the transaction again, with what was read before it.
ReoptRetry(s) ==
    /\ pc[s] \in {"reopt.resource", "reopt.write"} \union ReoptOpen
    /\ Goto(s, "reopt.assignment", arg[s])
    /\ UNCHANGED tables

-----------------------------------------------------------------------------
\* The request ends with nothing more written: a check failed, the transaction
\* was rolled back (its retry starts over, as a new request), or the process died.
Abandon(s) ==
    /\ pc[s] # "idle"
    /\ Finish(s)
    /\ UNCHANGED tables

IncidentNext ==
    \E i \in Incidents :
        \/ \E role \in CreatorRoles : CreateIncident(i, role)
        \/ \E s \in Sessions :
              \/ \E role \in {"CITIZEN", "COORDINATOR", "ADMIN"} : CancelIncident(s, i, role)
              \/ ApproveIncident(s, i)
              \/ RejectIncident(s, i)
              \/ \E to \in StatusTargets : UpdateIncidentStatus(s, i, to)

ResourceNext ==
    \E r \in Resources :
        \/ \E status \in StaffStatuses : UpdateResource(r, status)
        \/ DeactivateResource(r)

AssignmentNext ==
    \E s \in Sessions :
        \/ \E i \in Incidents, r \in Resources : CreateReadIncident(s, i, r)
        \/ CreateReadResource(s)
        \/ CreateCheckDuplicates(s)
        \/ \E a \in AssignmentIds :
              \/ CreateCommit(s, a)
              \/ CompleteCheck(s, a)
              \/ CancelCheck(s, a)
        \/ CompleteCommit(s)
        \/ CancelWrite(s)
        \/ CancelCommit(s)

ReoptNext ==
    \E s \in Sessions :
        \/ \E a \in AssignmentIds : ReoptLoad(s, a) \/ ReoptCommit(s, a)
        \/ \E q \in Resources : ReoptChoose(s, q)
        \/ ReoptDecline(s)
        \/ ReoptReadAssignment(s)
        \/ ReoptReadResource(s)
        \/ ReoptWrite(s)
        \/ ReoptRetry(s)

Next ==
    \/ IncidentNext
    \/ ResourceNext
    \/ AssignmentNext
    \/ ReoptNext
    \/ \E s \in Sessions : WriteStatus(s) \/ Abandon(s)

Spec == Init /\ [][Next]_vars

-----------------------------------------------------------------------------
(* Properties *)

\* However the requests interleave, no resource is on two missions: the
\* partial unique index on resourceId (migration 20260816143042).
OneMissionPerResource ==
    \A a, b \in Active : assignment[a].res = assignment[b].res => a = b

\* No incident has two ACTIVE assignments: the index on incidentId.
OneResourcePerIncident ==
    \A a, b \in Active : assignment[a].inc = assignment[b].inc => a = b

\* No resource is ever sent to an incident that nobody approved, whatever
\* races decide its status later: createAssignment asks for APPROVED and a
\* re-optimization inherits it.
ApprovalGate ==
    \A a \in Rows : assignment[a].inc \in everApproved

\* A resource is never left BUSY by a dispatch that is over: BUSY means an
\* ACTIVE assignment, unless a person set it.
NoStrandedResource ==
    \A r \in Resources :
        resource[r] = "BUSY" => r \in handBusy \/ ActiveOfResource(r) # {}

\* An incident is never left ASSIGNED with nobody on the way, unless a
\* person set the status through /status.
NoForgottenIncident ==
    \A i \in Incidents :
        incident[i] = "ASSIGNED" => i \in handAssigned \/ ActiveOfIncident(i) # {}

\* Every dispatch has its decision log row, and every assignment that ended
\* its event or its re-optimization log row: they commit together.
Accounted ==
    \A a \in Rows :
        /\ <<"RESOURCE_ASSIGNMENT", a>> \in journal
        /\ assignment[a].status = "COMPLETED" => <<"ASSIGNMENT_COMPLETED", a>> \in journal
        /\ assignment[a].status = "CANCELLED" =>
              {<<"ASSIGNMENT_CANCELLED", a>>, <<"REPLACED", a>>} \cap journal # {}

\* "COMPLETED and CANCELLED are terminal - no further transitions", says
\* assignment.interface.ts:11.  Two requests that have both passed the check
\* on one ACTIVE assignment say otherwise.
TerminalIsFinal ==
    [][\A a \in Rows :
          assignment[a].status \in {"COMPLETED", "CANCELLED"} =>
              assignment'[a].status = assignment[a].status]_vars

\* "WHILE an Incident has status COMPLETED or CANCELLED, THE System SHALL reject
\* all further status transition attempts", and so while it is REJECTED, say the
\* requirements of the approval.  The end of an assignment asks no such thing of
\* its incident, and staff may cancel what was rejected.
ClosedIsFinal ==
    [][\A i \in Incidents :
          incident[i] \in {"REJECTED", "COMPLETED", "CANCELLED"} => incident'[i] = incident[i]]_vars

\* "Resource -> AVAILABLE (only if it was BUSY due to this assignment)", says
\* the comment in cancelAssignment.  The update below it has no condition.
CancelFreesOnlyBusy ==
    [][\A s \in Sessions :
          (pc[s] \in CancelOpen /\ resource[arg[s].res] # "BUSY") =>
              resource'[arg[s].res] = resource[arg[s].res] \/ pc'[s] = pc[s]]_vars

\* "The transaction re-reads and re-validates all entities inside the
\* transaction boundary", says the header of reoptimization.service.ts.  The
\* incident is not among them.
ReplacesOnlyForActiveIncident ==
    [][\A s \in Sessions :
          (pc[s] = "reopt.assignment" /\ pc'[s] = "reopt.resource") =>
              incident[arg[s].inc] \in ActiveIncidentStatuses]_vars

\* The abstract promise, with the ACTIVE assignments as the pairs in force.
Allocation ==
    INSTANCE ExclusiveAllocation
        WITH serving <- {<<assignment[a].inc, assignment[a].res>> : a \in Active}

ImplementsExclusiveAllocation == Allocation!Spec

=============================================================================
