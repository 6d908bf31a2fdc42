--------------------------- MODULE DispatchProofs ---------------------------
(***************************************************************************)
(* Proofs about the dispatch core for every number of incidents,           *)
(* resources, assignments and concurrent requests.                         *)
(***************************************************************************)
EXTENDS DispatchInvariant, TLAPS

-----------------------------------------------------------------------------
(* Steps *)

\* A step of session s that only moves its own handler forward.
Quiet(s) ==
    \/ \E i \in Incidents :
          \/ \E role \in {"CITIZEN", "COORDINATOR", "ADMIN"} : CancelIncident(s, i, role)
          \/ ApproveIncident(s, i)
          \/ RejectIncident(s, i)
          \/ \E to \in StatusTargets : UpdateIncidentStatus(s, i, to)
          \/ \E r \in Resources : CreateReadIncident(s, i, r)
    \/ CreateReadResource(s)
    \/ CreateCheckDuplicates(s)
    \/ \E a \in AssignmentIds :
          CompleteCheck(s, a) \/ CancelCheck(s, a) \/ ReoptLoad(s, a)
    \/ CancelWrite(s)
    \/ \E q \in Resources : ReoptChoose(s, q)
    \/ ReoptDecline(s)
    \/ ReoptReadAssignment(s)
    \/ ReoptReadResource(s)
    \/ ReoptWrite(s)
    \/ ReoptRetry(s)
    \/ Abandon(s)

\* Every step either writes the tables, in one of seven ways, or moves one
\* handler forward. Splits Next for the proofs below.
LEMMA NextCases ==
  ASSUME Next
  PROVE  \/ \E i \in Incidents, role \in CreatorRoles : CreateIncident(i, role)
         \/ \E s \in Sessions : WriteStatus(s)
         \/ \E r \in Resources, st \in StaffStatuses \union {"UNAVAILABLE"} : SetResource(r, st)
         \/ \E s \in Sessions, a \in AssignmentIds : CreateCommit(s, a)
         \/ \E s \in Sessions : CompleteCommit(s)
         \/ \E s \in Sessions : CancelCommit(s)
         \/ \E s \in Sessions, b \in AssignmentIds : ReoptCommit(s, b)
         \/ \E s \in Sessions : Quiet(s)
<1>1. CASE IncidentNext  BY <1>1 DEF IncidentNext, Quiet
<1>2. CASE ResourceNext  BY <1>2 DEF ResourceNext, UpdateResource, DeactivateResource
<1>3. CASE AssignmentNext  BY <1>3 DEF AssignmentNext, Quiet
<1>4. CASE ReoptNext  BY <1>4 DEF ReoptNext, Quiet
<1>5. CASE \E s \in Sessions : WriteStatus(s) \/ Abandon(s)  BY <1>5 DEF Quiet
<1> QED  BY <1>1, <1>2, <1>3, <1>4, <1>5 DEF Next

\* A handler that moves forward leaves the tables as they were, and the other
\* handlers where they stand.
LEMMA QuietFrame ==
  ASSUME NEW s \in Sessions, TypeOK, Quiet(s)
  PROVE  /\ UNCHANGED tables
         /\ \A t \in Sessions \ {s} : pc'[t] = pc[t] /\ arg'[t] = arg[t]
  BY DEF Quiet, TypeOK, CancelIncident, ApproveIncident, RejectIncident, UpdateIncidentStatus,
         DecideStatus, CreateReadIncident, CreateReadResource, CreateCheckDuplicates,
         CompleteCheck, CancelCheck, ReoptLoad, CancelWrite, ReoptChoose, ReoptReadAssignment,
         ReoptReadResource, ReoptDecline, ReoptWrite, ReoptRetry, Abandon, Goto, Finish,
         NoArguments, About, tables

-----------------------------------------------------------------------------
(* Types *)

LEMMA TypeInit == Init => TypeOK
  BY DEF Init, TypeOK, Arguments, NoArguments, About, Steps, ResourceStatus

\* The types are preserved: a handler writes what it was given or has read.
LEMMA TypeStep ==
  ASSUME TypeOK, RequestsOK, [Next]_vars
  PROVE  TypeOK'
<1> USE DEF IncidentStatus, ResourceStatus, AssignmentStatus, JournalKinds, Steps,
            CancelOpen, ReoptOpen
<1>1. CASE UNCHANGED vars
  BY <1>1 DEF TypeOK, vars, tables, history
<1>2. ASSUME NEW i \in Incidents, NEW role \in CreatorRoles, CreateIncident(i, role)
      PROVE  TypeOK'
  BY <1>2, RolesAssumption DEF TypeOK, CreateIncident, InitialStatus, Roles
<1>3. ASSUME NEW s \in Sessions, WriteStatus(s)
      PROVE  TypeOK'
  BY <1>3 DEF TypeOK, RequestsOK, RequestOK, WriteStatus, Goto, Finish, Arguments, NoArguments, About
<1>4. ASSUME NEW r \in Resources, NEW st \in StaffStatuses \union {"UNAVAILABLE"},
             SetResource(r, st)
      PROVE  TypeOK'
  BY <1>4, StaffAssumption DEF TypeOK, SetResource
<1>5. ASSUME NEW s \in Sessions, NEW a \in AssignmentIds, CreateCommit(s, a)
      PROVE  TypeOK'
  BY <1>5 DEF TypeOK, RequestsOK, RequestOK, CreateSteps, CreateCommit, AssignmentRow,
              Goto, Finish, Arguments, NoArguments, About
<1>6. ASSUME NEW s \in Sessions, CompleteCommit(s)
      PROVE  TypeOK'
  BY <1>6 DEF TypeOK, RequestsOK, RequestOK, AboutAssignment, Rows, CompleteCommit, CompletionRecord,
              AssignmentRow, Goto, Finish, Arguments, NoArguments, About
<1>7. ASSUME NEW s \in Sessions, CancelCommit(s)
      PROVE  TypeOK'
  BY <1>7 DEF TypeOK, RequestsOK, RequestOK, AboutAssignment, Rows, CancelCommit,
              AssignmentRow, Goto, Finish, Arguments, NoArguments, About
<1>8. ASSUME NEW s \in Sessions, NEW b \in AssignmentIds, ReoptCommit(s, b)
      PROVE  TypeOK'
  <2> DEFINE a == arg[s].asg
             q == arg[s].alt
             new == [inc |-> arg[s].inc, res |-> q, status |-> "ACTIVE"]
  <2>1. a \in AssignmentIds /\ assignment[a] \in AssignmentRow /\ new \in AssignmentRow
    BY <1>8 DEF TypeOK, RequestsOK, RequestOK, AboutAssignment, ReplaceSteps, Rows, ReoptCommit,
                AssignmentRow
  <2>2. assignment' \in [AssignmentIds -> AssignmentRow \union {None}]
    BY <1>8, <2>1 DEF TypeOK, ReoptCommit, AssignmentRow
  <2>3. resource' \in [Resources -> ResourceStatus]
    BY <1>8 DEF TypeOK, ReoptCommit
  <2>4. journal' \subseteq JournalKinds \X AssignmentIds /\ handBusy' \subseteq Resources
    BY <1>8, <2>1 DEF TypeOK, ReoptCommit
  <2>5. pc' \in [Sessions -> Steps] /\ arg' \in [Sessions -> Arguments]
    BY <1>8 DEF TypeOK, ReoptCommit, Goto, Finish, Arguments, NoArguments, About
  <2> QED  BY <1>8, <2>2, <2>3, <2>4, <2>5 DEF TypeOK, ReoptCommit
<1>9. ASSUME NEW s \in Sessions, Quiet(s)
      PROVE  TypeOK'
  <2> USE DEF TypeOK, tables, history, Goto, Finish, Arguments, NoArguments, About
  <2>1. ASSUME NEW i \in Incidents, NEW to \in IncidentStatus, DecideStatus(s, i, to)
        PROVE  TypeOK'
    BY <2>1 DEF DecideStatus
  <2>2. ASSUME NEW i \in Incidents, NEW r \in Resources, CreateReadIncident(s, i, r)
        PROVE  TypeOK'
    BY <2>2 DEF CreateReadIncident
  <2>3. ASSUME NEW a \in AssignmentIds, CompleteCheck(s, a) \/ CancelCheck(s, a) \/ ReoptLoad(s, a)
        PROVE  TypeOK'
    <3>1. assignment[a] \in AssignmentRow
      BY <2>3 DEF CompleteCheck, CancelCheck, ReoptLoad, MayBecome, Active, Rows
    <3> QED  BY <2>3, <3>1 DEF CompleteCheck, CancelCheck, ReoptLoad, AssignmentRow
  <2>4. CASE CreateReadResource(s) \/ CreateCheckDuplicates(s)
    BY <2>4 DEF CreateReadResource, CreateCheckDuplicates
  <2>5. CASE CancelWrite(s)
    BY <2>5 DEF CancelWrite, NeedsReapproval
  <2>6. CASE \E q \in Resources : ReoptChoose(s, q)
    BY <2>6 DEF ReoptChoose
  <2>7. CASE ReoptReadAssignment(s) \/ ReoptReadResource(s)
    BY <2>7 DEF ReoptReadAssignment, ReoptReadResource
  <2>8. CASE ReoptWrite(s)
    BY <2>8 DEF ReoptWrite, NeedsRelease
  <2>9. CASE ReoptRetry(s)
    BY <2>9 DEF ReoptRetry
  <2>10. ASSUME ReoptDecline(s) \/ Abandon(s)
         PROVE  TypeOK'
    <3>1. Finish(s) /\ UNCHANGED tables
      BY <2>10 DEF ReoptDecline, Abandon
    <3> QED  BY <3>1
  <2>11. ASSUME NEW i \in Incidents,
                \/ \E role \in {"CITIZEN", "COORDINATOR", "ADMIN"} : CancelIncident(s, i, role)
                \/ ApproveIncident(s, i)
                \/ RejectIncident(s, i)
                \/ \E to \in StatusTargets : UpdateIncidentStatus(s, i, to)
         PROVE  \E to \in IncidentStatus : DecideStatus(s, i, to)
    BY <2>11, StaffAssumption
       DEF CancelIncident, ApproveIncident, RejectIncident, UpdateIncidentStatus
  <2> QED  BY <1>9, <2>1, <2>2, <2>3, <2>4, <2>5, <2>6, <2>7, <2>8, <2>9, <2>10, <2>11 DEF Quiet
<1> QED  BY <1>1, <1>2, <1>3, <1>4, <1>5, <1>6, <1>7, <1>8, <1>9, NextCases

-----------------------------------------------------------------------------
(* Requests in flight *)

\* Handlers move by themselves, or finish, or stay where they are.
LEMMA Movers ==
  ASSUME TypeOK, Next, NEW t \in Sessions
  PROVE  \/ pc'[t] = pc[t] /\ arg'[t] = arg[t]
         \/ pc'[t] = "idle"
         \/ Quiet(t)
<1>1. ASSUME NEW i \in Incidents, NEW role \in CreatorRoles, CreateIncident(i, role)
      PROVE  pc' = pc /\ arg' = arg
  BY <1>1 DEF CreateIncident
<1>2. ASSUME NEW r \in Resources, NEW st, SetResource(r, st)
      PROVE  pc' = pc /\ arg' = arg
  BY <1>2 DEF SetResource
<1>3. ASSUME NEW s \in Sessions, NEW a, NEW b,
             \/ WriteStatus(s) \/ CreateCommit(s, a) \/ CompleteCommit(s)
             \/ CancelCommit(s) \/ ReoptCommit(s, b)
      PROVE  \/ pc'[t] = pc[t] /\ arg'[t] = arg[t]
             \/ pc'[t] = "idle"
  <2>1. Finish(s)
    BY <1>3 DEF WriteStatus, CreateCommit, CompleteCommit, CancelCommit, ReoptCommit
  <2> QED  BY <2>1 DEF Finish, Goto, TypeOK
<1>4. ASSUME NEW s \in Sessions, Quiet(s), t # s
      PROVE  pc'[t] = pc[t] /\ arg'[t] = arg[t]
  BY <1>4, QuietFrame
<1> QED  BY <1>1, <1>2, <1>3, <1>4, NextCases

\* Assignments are never deleted, keep their incident and their resource, and
\* approvals are not forgotten.
LEMMA RowsStay ==
  ASSUME TypeOK, RequestsOK, Next
  PROVE  /\ everApproved \subseteq everApproved'
         /\ \A a \in Rows : /\ a \in Rows'
                            /\ assignment'[a].inc = assignment[a].inc
                            /\ assignment'[a].res = assignment[a].res
<1> USE NoneAssumption
<1>1. ASSUME NEW i \in Incidents, NEW role \in CreatorRoles, CreateIncident(i, role)
      PROVE  everApproved \subseteq everApproved' /\ assignment' = assignment
  BY <1>1 DEF CreateIncident
<1>2. ASSUME NEW s \in Sessions, WriteStatus(s)
      PROVE  everApproved \subseteq everApproved' /\ assignment' = assignment
  BY <1>2 DEF WriteStatus
<1>3. ASSUME NEW r \in Resources, NEW st, SetResource(r, st)
      PROVE  everApproved \subseteq everApproved' /\ assignment' = assignment
  BY <1>3 DEF SetResource
<1>4. ASSUME NEW s \in Sessions, Quiet(s)
      PROVE  everApproved \subseteq everApproved' /\ assignment' = assignment
  BY <1>4, QuietFrame DEF tables, history
<1>5. ASSUME NEW a \in Rows, NEW s \in Sessions, NEW b \in AssignmentIds, CreateCommit(s, b)
      PROVE  everApproved \subseteq everApproved' /\ assignment'[a] = assignment[a]
  BY <1>5 DEF CreateCommit, TypeOK, Rows
<1>6. ASSUME NEW a \in Rows, NEW s \in Sessions, CompleteCommit(s) \/ CancelCommit(s)
      PROVE  /\ everApproved \subseteq everApproved'
             /\ a \in Rows'
             /\ assignment'[a].inc = assignment[a].inc
             /\ assignment'[a].res = assignment[a].res
  <2>1. assignment[a] \in AssignmentRow /\ a \in AssignmentIds
    BY DEF TypeOK, Rows
  <2>2. PICK st \in AssignmentStatus : assignment' = [assignment EXCEPT ![arg[s].asg].status = st]
    BY <1>6 DEF CompleteCommit, CancelCommit, AssignmentStatus
  <2>3. assignment'[a] \in AssignmentRow
    BY <2>1, <2>2 DEF TypeOK, AssignmentRow
  <2> QED  BY <1>6, <2>1, <2>2, <2>3 DEF TypeOK, AssignmentRow, Rows, CompleteCommit, CancelCommit
<1>7. ASSUME NEW a \in Rows, NEW s \in Sessions, NEW b \in AssignmentIds, ReoptCommit(s, b)
      PROVE  /\ everApproved \subseteq everApproved'
             /\ a \in Rows'
             /\ assignment'[a].inc = assignment[a].inc
             /\ assignment'[a].res = assignment[a].res
  <2>1. assignment[a] \in AssignmentRow /\ a \in AssignmentIds /\ a # b
    BY <1>7 DEF TypeOK, Rows, ReoptCommit
  <2>2. assignment'[a] \in AssignmentRow
    BY <1>7, <2>1 DEF TypeOK, AssignmentRow, AssignmentStatus, ReoptCommit
  <2> QED  BY <1>7, <2>1, <2>2 DEF TypeOK, AssignmentRow, Rows, ReoptCommit
<1>8. ASSUME NEW a \in Rows, assignment'[a] = assignment[a]
      PROVE  a \in Rows'
  BY <1>8 DEF Rows
<1> QED
  <2>1. ASSUME NEW a \in Rows
        PROVE  /\ a \in Rows'
               /\ assignment'[a].inc = assignment[a].inc
               /\ assignment'[a].res = assignment[a].res
    BY <1>1, <1>2, <1>3, <1>4, <1>5, <1>6, <1>7, <1>8, NextCases
  <2>2. everApproved \subseteq everApproved'
    <3>1. ASSUME NEW s \in Sessions, NEW b,
                 CreateCommit(s, b) \/ CompleteCommit(s) \/ CancelCommit(s) \/ ReoptCommit(s, b)
          PROVE  everApproved \subseteq everApproved'
      BY <3>1 DEF CreateCommit, CompleteCommit, CancelCommit, ReoptCommit
    <3> QED  BY <1>1, <1>2, <1>3, <1>4, <3>1, NextCases
  <2> QED  BY <2>1, <2>2

\* What a request holds stays right while others write, and a step of its own
\* leaves it with arguments that are right for the step it is at.
LEMMA RequestsStep ==
  ASSUME TypeOK, RequestsOK, ApprovedFirst, [Next]_vars
  PROVE  RequestsOK'
<1> SUFFICES ASSUME Next, NEW t \in Sessions
             PROVE  RequestOK(t)'
  BY DEF RequestsOK, RequestOK, vars, tables, history, Rows
<1>1. RequestOK(t)
  BY DEF RequestsOK
<1>2. CASE pc'[t] = pc[t] /\ arg'[t] = arg[t]
  <2> USE <1>1, <1>2, RowsStay DEF RequestOK
  <2>1. pc'[t] \in AboutAssignment => /\ arg'[t].asg \in Rows'
                                      /\ assignment'[arg'[t].asg].inc = arg'[t].inc
                                      /\ assignment'[arg'[t].asg].res = arg'[t].res
    OBVIOUS
  <2> QED  BY <2>1
<1>3. CASE pc'[t] = "idle"
  BY <1>3 DEF RequestOK, CreateSteps, AboutAssignment, ReplaceSteps, CancelOpen, ReoptOpen
<1>4. CASE Quiet(t)
  <2> USE DEF RequestOK, CreateSteps, AboutAssignment, ReplaceSteps, CancelOpen, ReoptOpen,
              TypeOK, tables, history, Goto, Finish, NoArguments, About, Rows
  <2>0. UNCHANGED tables
    BY <1>4, QuietFrame
  <2>1. ASSUME NEW i \in Incidents, NEW to \in IncidentStatus, DecideStatus(t, i, to),
               to \in PastApproval \ {"APPROVED"} => i \in everApproved
        PROVE  RequestOK(t)'
    BY <2>1 DEF DecideStatus
  <2>2. ASSUME NEW i \in Incidents, NEW r \in Resources, CreateReadIncident(t, i, r)
        PROVE  RequestOK(t)'
    BY <2>2 DEF CreateReadIncident, ApprovedFirst, PastApproval, AssignableIncidentStatuses
  <2>3. ASSUME NEW a \in AssignmentIds, CompleteCheck(t, a) \/ CancelCheck(t, a) \/ ReoptLoad(t, a)
        PROVE  RequestOK(t)'
    <3>1. assignment[a] \in AssignmentRow
      BY <2>3 DEF CompleteCheck, CancelCheck, ReoptLoad, MayBecome, Active
    <3> QED  BY <2>0, <2>3, <3>1, NoneAssumption
             DEF CompleteCheck, CancelCheck, ReoptLoad, AssignmentRow
  <2>4. CASE CreateReadResource(t) \/ CreateCheckDuplicates(t)
    BY <1>1, <2>4 DEF CreateReadResource, CreateCheckDuplicates
  <2>5. CASE CancelWrite(t)
    BY <1>1, <2>5 DEF CancelWrite
  <2>6. CASE \E q \in Resources : ReoptChoose(t, q)
    BY <1>1, <2>6 DEF ReoptChoose, Arguments
  <2>7. CASE ReoptReadAssignment(t) \/ ReoptReadResource(t)
    BY <1>1, <2>7 DEF ReoptReadAssignment, ReoptReadResource
  <2>8. CASE ReoptWrite(t)
    BY <1>1, <2>8 DEF ReoptWrite
  <2>9. CASE ReoptRetry(t)
    BY <1>1, <2>9 DEF ReoptRetry
  <2>10. CASE ReoptDecline(t) \/ Abandon(t)
    BY <2>10 DEF ReoptDecline, Abandon
  <2>11. ASSUME NEW i \in Incidents,
                \/ \E role \in {"CITIZEN", "COORDINATOR", "ADMIN"} : CancelIncident(t, i, role)
                \/ ApproveIncident(t, i)
                \/ RejectIncident(t, i)
         PROVE  RequestOK(t)'
    <3>1. \E to \in {"CANCELLED", "APPROVED", "REJECTED"} : DecideStatus(t, i, to)
      BY <2>11 DEF CancelIncident, ApproveIncident, RejectIncident
    <3> QED  BY <2>1, <3>1 DEF PastApproval, IncidentStatus
  <2>12. ASSUME NEW i \in Incidents, NEW to \in StatusTargets, UpdateIncidentStatus(t, i, to)
         PROVE  RequestOK(t)'
    <3>1. to \in PastApproval \ {"APPROVED"} => incident[i] \in PastApproval
      BY <2>12 DEF UpdateIncidentStatus, AllowedStatusTransitions, PastApproval, IncidentStatus
    <3>2. to \in PastApproval \ {"APPROVED"} => i \in everApproved
      BY <3>1 DEF ApprovedFirst
    <3>3. to \in IncidentStatus /\ DecideStatus(t, i, to)
      BY <2>12, StaffAssumption DEF UpdateIncidentStatus
    <3> QED  BY <2>1, <3>2, <3>3
  <2> QED  BY <1>4, <2>1, <2>2, <2>3, <2>4, <2>5, <2>6, <2>7, <2>8, <2>9, <2>10, <2>11, <2>12 DEF Quiet
<1> QED  BY <1>2, <1>3, <1>4, Movers

-----------------------------------------------------------------------------
(* Approval *)

\* Whatever status an incident gets, past PENDING it gets it after an approval.
LEMMA ApprovedStep ==
  ASSUME TypeOK, RequestsOK, ApprovedFirst, ApprovalGate, [Next]_vars
  PROVE  ApprovedFirst' /\ ApprovalGate'
<1> USE DEF ApprovedFirst, ApprovalGate, Rows, PastApproval
<1>1. CASE UNCHANGED vars
  BY <1>1 DEF vars, tables, history
<1>2. ASSUME NEW i \in Incidents, NEW role \in CreatorRoles, CreateIncident(i, role)
      PROVE  ApprovedFirst' /\ ApprovalGate'
  BY <1>2 DEF CreateIncident, InitialStatus, TypeOK
<1>3. ASSUME NEW s \in Sessions, WriteStatus(s)
      PROVE  ApprovedFirst' /\ ApprovalGate'
  BY <1>3 DEF WriteStatus, TypeOK, RequestsOK, RequestOK
<1>4. ASSUME NEW r \in Resources, NEW st, SetResource(r, st)
      PROVE  ApprovedFirst' /\ ApprovalGate'
  BY <1>4 DEF SetResource
<1>5. ASSUME NEW s \in Sessions, NEW a \in AssignmentIds, CreateCommit(s, a)
      PROVE  ApprovedFirst' /\ ApprovalGate'
  BY <1>5 DEF CreateCommit, TypeOK, RequestsOK, RequestOK, CreateSteps
<1>6. ASSUME NEW s \in Sessions, CompleteCommit(s)
      PROVE  ApprovedFirst' /\ ApprovalGate'
  BY <1>6 DEF CompleteCommit, TypeOK, RequestsOK, RequestOK, AboutAssignment, AssignmentRow
<1>7. ASSUME NEW s \in Sessions, CancelCommit(s)
      PROVE  ApprovedFirst' /\ ApprovalGate'
  BY <1>7 DEF CancelCommit, TypeOK, RequestsOK, RequestOK, AboutAssignment, AssignmentRow, CancelOpen
<1>8. ASSUME NEW s \in Sessions, NEW b \in AssignmentIds, ReoptCommit(s, b)
      PROVE  ApprovedFirst' /\ ApprovalGate'
  BY <1>8 DEF ReoptCommit, TypeOK, RequestsOK, RequestOK, AboutAssignment, ReplaceSteps, ReoptOpen,
              AssignmentRow
<1>9. ASSUME NEW s \in Sessions, Quiet(s)
      PROVE  ApprovedFirst' /\ ApprovalGate'
  BY <1>9, QuietFrame DEF tables, history
<1> QED  BY <1>1, <1>2, <1>3, <1>4, <1>5, <1>6, <1>7, <1>8, <1>9, NextCases

-----------------------------------------------------------------------------
(* What a commit does to the ACTIVE assignments *)

\* Row a is added, ACTIVE, for i and r, and the rows in `gone` are closed.
Adds(a, i, r, gone) ==
    /\ a \notin Rows
    /\ Active' = (Active \ gone) \union {a}
    /\ assignment'[a].inc = i
    /\ assignment'[a].res = r
    /\ \A b \in Rows \ gone : assignment'[b] = assignment[b]

\* Row a is closed.
Closes(a) ==
    /\ Active' = Active \ {a}
    /\ \A b \in Rows \ {a} : assignment'[b] = assignment[b]

\* The arguments of session s describe an existing assignment.
Describes(s) ==
    /\ arg[s].asg \in Rows
    /\ arg[s].inc \in Incidents /\ arg[s].res \in Resources
    /\ assignment[arg[s].asg].inc = arg[s].inc
    /\ assignment[arg[s].asg].res = arg[s].res

LEMMA CreateEffect ==
  ASSUME TypeOK, RequestsOK, NEW s \in Sessions, NEW a \in AssignmentIds, CreateCommit(s, a)
  PROVE  /\ arg[s].inc \in Incidents /\ arg[s].res \in Resources
         /\ Adds(a, arg[s].inc, arg[s].res, {})
  BY NoneAssumption DEF Adds, CreateCommit, TypeOK, RequestsOK, RequestOK, CreateSteps, Active, Rows,
         AssignmentRow, AssignmentStatus

LEMMA CloseEffect ==
  ASSUME TypeOK, RequestsOK, NEW s \in Sessions, CompleteCommit(s) \/ CancelCommit(s)
  PROVE  Describes(s) /\ Closes(arg[s].asg)
<1>1. /\ arg[s].asg \in Rows
      /\ assignment[arg[s].asg].inc = arg[s].inc
      /\ assignment[arg[s].asg].res = arg[s].res
  BY DEF CompleteCommit, CancelCommit, RequestsOK, RequestOK, AboutAssignment, CancelOpen
<1>2. assignment[arg[s].asg] \in AssignmentRow
  BY <1>1 DEF TypeOK, Rows
<1>3. PICK st \in {"COMPLETED", "CANCELLED"} :
         assignment' = [assignment EXCEPT ![arg[s].asg].status = st]
  BY DEF CompleteCommit, CancelCommit
<1>4. assignment'[arg[s].asg] \in AssignmentRow /\ assignment'[arg[s].asg].status = st
  BY <1>1, <1>2, <1>3 DEF TypeOK, AssignmentRow, AssignmentStatus, Rows
<1>5. \A b \in AssignmentIds : b # arg[s].asg => assignment'[b] = assignment[b]
  BY <1>1, <1>3 DEF TypeOK
<1>6. Active' = Active \ {arg[s].asg}
  BY <1>4, <1>5 DEF Active, Rows
<1> QED  BY <1>1, <1>2, <1>5, <1>6 DEF AssignmentRow, Rows, Describes, Closes

LEMMA ReplaceEffect ==
  ASSUME TypeOK, RequestsOK, NEW s \in Sessions, NEW b \in AssignmentIds, ReoptCommit(s, b)
  PROVE  /\ Describes(s)
         /\ arg[s].alt \in Resources \ {arg[s].res}
         /\ Adds(b, arg[s].inc, arg[s].alt, {arg[s].asg})
<1>1. /\ arg[s].asg \in Rows
      /\ assignment[arg[s].asg].inc = arg[s].inc
      /\ assignment[arg[s].asg].res = arg[s].res
      /\ arg[s].alt \in Resources \ {arg[s].res}
      /\ b \notin Rows
  BY DEF ReoptCommit, RequestsOK, RequestOK, AboutAssignment, ReplaceSteps, ReoptOpen, Rows
<1>2. assignment[arg[s].asg] \in AssignmentRow
  BY <1>1 DEF TypeOK, Rows
<1>3. assignment'[arg[s].asg].status = "CANCELLED"
  BY <1>1, <1>2 DEF TypeOK, AssignmentRow, AssignmentStatus, Rows, ReoptCommit
<1>4. \A c \in AssignmentIds : c # arg[s].asg /\ c # b => assignment'[c] = assignment[c]
  BY <1>1 DEF TypeOK, Rows, ReoptCommit
<1>5. assignment'[b] = [inc |-> arg[s].inc, res |-> arg[s].alt, status |-> "ACTIVE"]
  BY <1>1 DEF TypeOK, Rows, ReoptCommit
<1>6. assignment'[b] # None
  BY <1>1, <1>2, <1>5, NoneAssumption DEF AssignmentRow, AssignmentStatus
<1>7. Active' = (Active \ {arg[s].asg}) \union {b}
  BY <1>3, <1>4, <1>5, <1>6 DEF Active, Rows
<1> QED  BY <1>1, <1>2, <1>4, <1>5, <1>7 DEF AssignmentRow, Rows, Describes, Adds

\* The other steps leave the assignments table as it is.
LEMMA OtherSteps ==
  ASSUME TypeOK,
         \/ \E i \in Incidents, role \in CreatorRoles : CreateIncident(i, role)
         \/ \E s \in Sessions : WriteStatus(s)
         \/ \E r \in Resources, st \in StaffStatuses \union {"UNAVAILABLE"} : SetResource(r, st)
         \/ \E s \in Sessions : Quiet(s)
         \/ UNCHANGED vars
  PROVE  assignment' = assignment /\ Active' = Active
<1>1. assignment' = assignment
  BY QuietFrame DEF CreateIncident, WriteStatus, SetResource, tables, vars
<1> QED  BY <1>1 DEF Active, Rows

-----------------------------------------------------------------------------
(* One resource for one incident *)

\* A row that the two indexes let in keeps them unique.
LEMMA AddsUnique ==
  ASSUME OneMissionPerResource, OneResourcePerIncident,
         NEW a, NEW i, NEW r, NEW gone, Adds(a, i, r, gone), UniqueIndexesAllow(i, r, gone)
  PROVE  OneMissionPerResource' /\ OneResourcePerIncident'
<1>1. \A b \in Active \ gone : /\ assignment'[b] = assignment[b]
                               /\ assignment[b].res # r
                               /\ assignment[b].inc # i
  BY DEF Adds, UniqueIndexesAllow, ActiveOfResource, ActiveOfIncident, Active
<1> QED  BY <1>1 DEF Adds, OneMissionPerResource, OneResourcePerIncident

\* Every step keeps each resource on one mission and each incident with one
\* resource: a row gets in only past the indexes.
LEMMA UniqueStep ==
  ASSUME TypeOK, RequestsOK, OneMissionPerResource, OneResourcePerIncident, [Next]_vars
  PROVE  OneMissionPerResource' /\ OneResourcePerIncident'
<1>1. ASSUME NEW s \in Sessions, NEW a \in AssignmentIds, CreateCommit(s, a)
      PROVE  OneMissionPerResource' /\ OneResourcePerIncident'
  BY <1>1, CreateEffect, AddsUnique DEF CreateCommit
<1>2. ASSUME NEW s \in Sessions, NEW b \in AssignmentIds, ReoptCommit(s, b)
      PROVE  OneMissionPerResource' /\ OneResourcePerIncident'
  BY <1>2, ReplaceEffect, AddsUnique DEF ReoptCommit
<1>3. ASSUME NEW s \in Sessions, CompleteCommit(s) \/ CancelCommit(s)
      PROVE  OneMissionPerResource' /\ OneResourcePerIncident'
  BY <1>3, CloseEffect DEF Closes, Active, OneMissionPerResource, OneResourcePerIncident
<1>4. ASSUME assignment' = assignment /\ Active' = Active
      PROVE  OneMissionPerResource' /\ OneResourcePerIncident'
  BY <1>4 DEF OneMissionPerResource, OneResourcePerIncident
<1> QED  BY <1>1, <1>2, <1>3, <1>4, OtherSteps, NextCases

-----------------------------------------------------------------------------
(* Locks *)

\* A request gets to a commit only through the write that takes the locks.
LEMMA Openers ==
  ASSUME TypeOK, Next, NEW t \in Sessions, pc'[t] \in CancelOpen \union ReoptOpen
  PROVE  \/ pc'[t] = pc[t] /\ arg'[t] = arg[t]
         \/ (CancelWrite(t) \/ ReoptWrite(t)) /\ arg'[t] = arg[t]
<1> USE DEF CancelOpen, ReoptOpen
<1>1. pc'[t] # "idle"
  OBVIOUS
<1>2. CASE Quiet(t)
  <2> USE DEF TypeOK, Goto, Finish
  <2>1. ASSUME NEW i, NEW to, DecideStatus(t, i, to)
        PROVE  FALSE
    BY <2>1 DEF DecideStatus
  <2>2. ASSUME NEW i, NEW to, NEW a, NEW q,
               \/ CancelIncident(t, i, to) \/ ApproveIncident(t, i) \/ RejectIncident(t, i)
               \/ UpdateIncidentStatus(t, i, to) \/ CreateReadIncident(t, i, q)
        PROVE  FALSE
    BY <2>1, <2>2 DEF CancelIncident, ApproveIncident, RejectIncident, UpdateIncidentStatus,
                      CreateReadIncident
  <2>3. ASSUME NEW a, NEW q,
               \/ CreateReadResource(t) \/ CreateCheckDuplicates(t) \/ CompleteCheck(t, a)
               \/ CancelCheck(t, a) \/ ReoptLoad(t, a) \/ ReoptChoose(t, q)
               \/ ReoptReadAssignment(t) \/ ReoptReadResource(t) \/ ReoptDecline(t)
               \/ ReoptRetry(t) \/ Abandon(t)
        PROVE  FALSE
    BY <2>3 DEF CreateReadResource, CreateCheckDuplicates, CompleteCheck, CancelCheck, ReoptLoad,
                ReoptChoose, ReoptReadAssignment, ReoptReadResource, ReoptDecline, ReoptRetry,
                Abandon
  <2>4. ASSUME CancelWrite(t) \/ ReoptWrite(t)
        PROVE  arg'[t] = arg[t]
    BY <2>4 DEF CancelWrite, ReoptWrite
  <2> QED  BY <1>2, <2>2, <2>3, <2>4 DEF Quiet
<1> QED  BY <1>1, <1>2, Movers

\* Two transactions never hold the same assignment, nor two cancellations the
\* same resource.
LEMMA LocksStep ==
  ASSUME TypeOK, LocksExclude, [Next]_vars
  PROVE  LocksExclude'
<1>1. CASE UNCHANGED vars
  BY <1>1 DEF LocksExclude, vars
<1> SUFFICES ASSUME Next, NEW s \in Sessions, NEW t \in Sessions, s # t
             PROVE  /\ {pc'[s], pc'[t]} \subseteq CancelOpen \union ReoptOpen =>
                          arg'[s].asg # arg'[t].asg
                    /\ {pc'[s], pc'[t]} \subseteq CancelOpen => arg'[s].res # arg'[t].res
  BY <1>1 DEF LocksExclude
<1>2. ASSUME NEW x \in Sessions, CancelWrite(x) \/ ReoptWrite(x), NEW y \in Sessions \ {x}
      PROVE  /\ pc'[y] = pc[y] /\ arg'[y] = arg[y] /\ arg'[x] = arg[x]
             /\ pc[y] \in CancelOpen \union ReoptOpen => arg[x].asg # arg[y].asg
             /\ pc'[x] \in CancelOpen /\ pc[y] \in CancelOpen => arg[x].res # arg[y].res
  BY <1>2 DEF CancelWrite, ReoptWrite, AssignmentLocked, ResourceLocked, Goto, TypeOK,
              CancelOpen, ReoptOpen
<1>3. \A x \in Sessions : pc'[x] \in CancelOpen \union ReoptOpen =>
         \/ pc'[x] = pc[x] /\ arg'[x] = arg[x]
         \/ CancelWrite(x) \/ ReoptWrite(x)
  BY Openers
<1>4. CASE pc'[s] = pc[s] /\ arg'[s] = arg[s] /\ pc'[t] = pc[t] /\ arg'[t] = arg[t]
  BY <1>4 DEF LocksExclude
<1>5. CASE CancelWrite(s) \/ ReoptWrite(s)
  BY <1>2, <1>5
<1>6. CASE CancelWrite(t) \/ ReoptWrite(t)
  BY <1>2, <1>6
<1> QED  BY <1>3, <1>4, <1>5, <1>6

-----------------------------------------------------------------------------
(* Incidents that are ASSIGNED *)

\* Incident i has an ACTIVE assignment other than a, or a person set it ASSIGNED.
Served(i, a) ==
    \/ i \in handAssigned
    \/ \E b \in Active : assignment[b].inc = i /\ b # a

\* If an incident that is ASSIGNED is served by more than assignment a, it
\* stays so through every step of the others, unless it ceases to be ASSIGNED.
LEMMA ServedStep ==
  ASSUME TypeOK, RequestsOK, OneResourcePerIncident, CancelSawRight, Next,
         NEW i \in Incidents, NEW a \in Rows \union {None},
         incident[i] = "ASSIGNED" => Served(i, a),
         incident'[i] = "ASSIGNED"
  PROVE  Served(i, a)'
<1>0. Active \subseteq Rows /\ None \notin AssignmentIds
  BY NoneAssumption DEF Active
<1>1. ASSUME NEW j \in Incidents, NEW role \in CreatorRoles, CreateIncident(j, role)
      PROVE  Served(i, a)'
  BY <1>1, OtherSteps DEF CreateIncident, InitialStatus, TypeOK, Served
<1>2. ASSUME NEW s \in Sessions, WriteStatus(s)
      PROVE  Served(i, a)'
  BY <1>2, OtherSteps DEF WriteStatus, TypeOK, Served
<1>3. ASSUME NEW r \in Resources, NEW st \in StaffStatuses \union {"UNAVAILABLE"}, SetResource(r, st)
      PROVE  Served(i, a)'
  BY <1>3, OtherSteps DEF SetResource, Served
<1>4. ASSUME NEW s \in Sessions, NEW b \in AssignmentIds, CreateCommit(s, b)
      PROVE  Served(i, a)'
  <2>1. Adds(b, arg[s].inc, arg[s].res, {})
    BY <1>4, CreateEffect
  <2>2. CASE i = arg[s].inc
    BY <1>0, <2>1, <2>2 DEF Adds, Served, Rows
  <2>3. CASE i # arg[s].inc
    BY <1>0, <1>4, <2>1, <2>3 DEF Adds, Served, CreateCommit, TypeOK
  <2> QED  BY <2>2, <2>3
<1>5. ASSUME NEW s \in Sessions, CompleteCommit(s) \/ CancelCommit(s), i # arg[s].inc
      PROVE  Served(i, a)'
  <2>1. Describes(s) /\ Closes(arg[s].asg)
    BY <1>5, CloseEffect
  <2>2. incident'[i] = incident[i] /\ (i \in handAssigned => i \in handAssigned')
    BY <1>5 DEF CompleteCommit, CancelCommit, TypeOK
  <2> QED  BY <1>0, <1>5, <2>1, <2>2 DEF Describes, Closes, Served
<1>6. ASSUME NEW s \in Sessions, CompleteCommit(s) \/ (CancelCommit(s) /\ pc[s] = "cancel.revert"),
             i = arg[s].inc
      PROVE  Served(i, a)'
  BY <1>6 DEF CompleteCommit, CancelCommit, TypeOK
<1>7. ASSUME NEW s \in Sessions, CancelCommit(s), pc[s] = "cancel.keep", i = arg[s].inc
      PROVE  Served(i, a)'
  <2>1. Describes(s) /\ Closes(arg[s].asg)
    BY <1>7, CloseEffect
  <2>2. incident[i] = "ASSIGNED" /\ handAssigned' = handAssigned
    BY <1>7 DEF CancelCommit
  <2>3. Served(i, arg[s].asg)
    BY <1>7, <2>2 DEF CancelSawRight, Served, ActiveOfIncident
  <2>4. ASSUME i \notin handAssigned
        PROVE  \E b \in Active : assignment[b].inc = i /\ b # a /\ b # arg[s].asg
    BY <2>2, <2>3, <2>4 DEF Served, OneResourcePerIncident
  <2> QED  BY <1>0, <2>1, <2>2, <2>4 DEF Closes, Served
<1>8. ASSUME NEW s \in Sessions, NEW b \in AssignmentIds, ReoptCommit(s, b)
      PROVE  Served(i, a)'
  <2>1. Describes(s) /\ Adds(b, arg[s].inc, arg[s].alt, {arg[s].asg})
    BY <1>8, ReplaceEffect
  <2>2. incident' = incident /\ handAssigned' = handAssigned
    BY <1>8 DEF ReoptCommit
  <2>3. CASE i = arg[s].inc
    BY <1>0, <2>1, <2>3 DEF Adds, Served, Rows
  <2>4. CASE i # arg[s].inc
    BY <1>0, <2>1, <2>2, <2>4 DEF Adds, Describes, Served
  <2> QED  BY <2>3, <2>4
<1>9. ASSUME NEW s \in Sessions, Quiet(s)
      PROVE  Served(i, a)'
  BY <1>9, OtherSteps, QuietFrame DEF Served, tables, history
<1> QED  BY <1>1, <1>2, <1>3, <1>4, <1>5, <1>6, <1>7, <1>8, <1>9, NextCases DEF CancelCommit, CancelOpen

\* What a cancellation relies on when it keeps the incident's status.
LEMMA CancelSawStep ==
  ASSUME TypeOK, RequestsOK, OneResourcePerIncident, CancelSawRight, Next
  PROVE  CancelSawRight'
<1> SUFFICES ASSUME NEW t \in Sessions, pc'[t] = "cancel.keep",
                    incident'[arg'[t].inc] = "ASSIGNED",
                    NEW i, NEW a, i = arg'[t].inc, a = arg'[t].asg
             PROVE  Served(i, a)'
  BY DEF CancelSawRight, ActiveOfIncident, Served
<1>1. /\ arg'[t] = arg[t]
      /\ pc[t] = "cancel.keep" \/ CancelWrite(t)
      /\ incident'[i] = "ASSIGNED"
  BY Openers DEF CancelOpen, ReoptOpen, ReoptWrite, Goto, TypeOK
<1>2. i \in Incidents /\ a \in Rows
  BY <1>1 DEF RequestsOK, RequestOK, AboutAssignment, CancelOpen, CancelWrite
<1>3. CASE pc[t] = "cancel.keep"
  <2>1. incident[i] = "ASSIGNED" => Served(i, a)
    BY <1>1, <1>3 DEF CancelSawRight, ActiveOfIncident, Served
  <2> QED  BY <1>1, <1>2, <2>1, ServedStep
<1>4. CASE CancelWrite(t)
  <2>1. incident[i] # "ASSIGNED"
    BY <1>1, <1>4 DEF CancelWrite, NeedsReapproval, Goto, TypeOK
  <2> QED  BY <1>1, <1>2, <2>1, ServedStep
<1> QED  BY <1>1, <1>3, <1>4

\* An incident that is ASSIGNED stays served by somebody.
LEMMA ForgottenStep ==
  ASSUME TypeOK, RequestsOK, OneResourcePerIncident, CancelSawRight, NoForgottenIncident, Next
  PROVE  NoForgottenIncident'
<1> SUFFICES ASSUME NEW i \in Incidents, incident'[i] = "ASSIGNED"
             PROVE  Served(i, None)'
  BY DEF NoForgottenIncident, ActiveOfIncident, Served
<1>1. \A b \in Active : b # None
  BY NoneAssumption DEF Active, Rows
<1>2. incident[i] = "ASSIGNED" => Served(i, None)
  BY <1>1 DEF NoForgottenIncident, ActiveOfIncident, Served
<1> QED  BY <1>2, ServedStep

-----------------------------------------------------------------------------
(* Resources that are BUSY *)

\* Resource r is on an ACTIVE assignment other than a, or a person set it BUSY.
Engaged(r, a) ==
    \/ r \in handBusy
    \/ \E b \in Active : assignment[b].res = r /\ b # a

\* If a resource that is BUSY is engaged by more than assignment a, it stays
\* so through every step of the others, unless it ceases to be BUSY.
LEMMA EngagedStep ==
  ASSUME TypeOK, RequestsOK, OneMissionPerResource, ReplaceSawRight, Next,
         NEW r \in Resources, NEW a \in Rows \union {None},
         resource[r] = "BUSY" => Engaged(r, a),
         resource'[r] = "BUSY"
  PROVE  Engaged(r, a)'
<1>0. Active \subseteq Rows /\ None \notin AssignmentIds
  BY NoneAssumption DEF Active
<1>1. ASSUME NEW j \in Incidents, NEW role \in CreatorRoles, CreateIncident(j, role)
      PROVE  Engaged(r, a)'
  BY <1>1, OtherSteps DEF CreateIncident, Engaged
<1>2. ASSUME NEW s \in Sessions, WriteStatus(s)
      PROVE  Engaged(r, a)'
  BY <1>2, OtherSteps DEF WriteStatus, Engaged
<1>3. ASSUME NEW q \in Resources, NEW st \in StaffStatuses \union {"UNAVAILABLE"}, SetResource(q, st)
      PROVE  Engaged(r, a)'
  BY <1>3, OtherSteps DEF SetResource, TypeOK, Engaged
<1>4. ASSUME NEW s \in Sessions, NEW b \in AssignmentIds, CreateCommit(s, b)
      PROVE  Engaged(r, a)'
  <2>1. Adds(b, arg[s].inc, arg[s].res, {})
    BY <1>4, CreateEffect
  <2>2. CASE r = arg[s].res
    BY <1>0, <2>1, <2>2 DEF Adds, Engaged, Rows
  <2>3. CASE r # arg[s].res
    BY <1>0, <1>4, <2>1, <2>3 DEF Adds, Engaged, CreateCommit, TypeOK
  <2> QED  BY <2>2, <2>3
<1>5. ASSUME NEW s \in Sessions, CompleteCommit(s) \/ CancelCommit(s)
      PROVE  Engaged(r, a)'
  <2>1. Describes(s) /\ Closes(arg[s].asg)
    BY <1>5, CloseEffect
  <2>2. r # arg[s].res /\ resource[r] = "BUSY" /\ (r \in handBusy => r \in handBusy')
    BY <1>5 DEF CompleteCommit, CancelCommit, TypeOK
  <2> QED  BY <1>0, <2>1, <2>2 DEF Describes, Closes, Engaged
<1>6. ASSUME NEW s \in Sessions, NEW b \in AssignmentIds, ReoptCommit(s, b)
      PROVE  Engaged(r, a)'
  <2>1. /\ Describes(s)
        /\ arg[s].alt # arg[s].res
        /\ Adds(b, arg[s].inc, arg[s].alt, {arg[s].asg})
    BY <1>6, ReplaceEffect
  <2>2. CASE r = arg[s].alt
    BY <1>0, <2>1, <2>2 DEF Adds, Engaged, Rows
  <2>3. CASE r # arg[s].alt /\ r # arg[s].res
    <3>1. resource[r] = "BUSY" /\ (r \in handBusy => r \in handBusy')
      BY <1>6, <2>3 DEF ReoptCommit, TypeOK
    <3> QED  BY <1>0, <2>1, <2>3, <3>1 DEF Adds, Describes, Engaged
  <2>4. CASE r = arg[s].res
    <3>1. pc[s] = "reopt.keep" /\ resource[r] = "BUSY" /\ (r \in handBusy => r \in handBusy')
      BY <1>6, <2>1, <2>4 DEF ReoptCommit, ReoptOpen, TypeOK
    <3>2. Engaged(r, arg[s].asg)
      BY <2>4, <3>1 DEF ReplaceSawRight, ActiveOfResource, Engaged
    <3>3. ASSUME r \notin handBusy
          PROVE  \E c \in Active : assignment[c].res = r /\ c # a /\ c # arg[s].asg
      BY <3>1, <3>2, <3>3 DEF Engaged, OneMissionPerResource
    <3> QED  BY <1>0, <2>1, <3>1, <3>3 DEF Adds, Engaged
  <2> QED  BY <2>2, <2>3, <2>4
<1>7. ASSUME NEW s \in Sessions, Quiet(s)
      PROVE  Engaged(r, a)'
  BY <1>7, OtherSteps, QuietFrame DEF Engaged, tables, history
<1> QED  BY <1>1, <1>2, <1>3, <1>4, <1>5, <1>6, <1>7, NextCases

\* What a replacement relies on when it keeps the old resource's status.
LEMMA ReplaceSawStep ==
  ASSUME TypeOK, RequestsOK, OneMissionPerResource, ReplaceSawRight, Next
  PROVE  ReplaceSawRight'
<1> SUFFICES ASSUME NEW t \in Sessions, pc'[t] = "reopt.keep",
                    resource'[arg'[t].res] = "BUSY",
                    NEW r, NEW a, r = arg'[t].res, a = arg'[t].asg
             PROVE  Engaged(r, a)'
  BY DEF ReplaceSawRight, ActiveOfResource, Engaged
<1>1. /\ arg'[t] = arg[t]
      /\ pc[t] = "reopt.keep" \/ ReoptWrite(t)
      /\ resource'[r] = "BUSY"
  BY Openers DEF CancelOpen, ReoptOpen, CancelWrite, Goto, TypeOK
<1>2. a \in Rows
  BY <1>1 DEF RequestsOK, RequestOK, AboutAssignment, ReplaceSteps, ReoptOpen, ReoptWrite
<1>3. r \in Resources
  <2>1. assignment[a] \in AssignmentRow
    BY <1>2 DEF TypeOK, Rows
  <2> QED  BY <1>1, <2>1 DEF RequestsOK, RequestOK, AboutAssignment, ReplaceSteps, ReoptOpen,
                             ReoptWrite, AssignmentRow
<1>4. CASE pc[t] = "reopt.keep"
  <2>1. resource[r] = "BUSY" => Engaged(r, a)
    BY <1>1, <1>4 DEF ReplaceSawRight, ActiveOfResource, Engaged
  <2> QED  BY <1>1, <1>2, <1>3, <2>1, EngagedStep
<1>5. CASE ReoptWrite(t)
  <2>1. resource[r] # "BUSY"
    BY <1>1, <1>5 DEF ReoptWrite, NeedsRelease, Goto, TypeOK
  <2> QED  BY <1>1, <1>2, <1>3, <2>1, EngagedStep
<1> QED  BY <1>1, <1>4, <1>5

\* A resource that is BUSY stays engaged by somebody.
LEMMA StrandedStep ==
  ASSUME TypeOK, RequestsOK, OneMissionPerResource, ReplaceSawRight, NoStrandedResource, Next
  PROVE  NoStrandedResource'
<1> SUFFICES ASSUME NEW r \in Resources, resource'[r] = "BUSY"
             PROVE  Engaged(r, None)'
  BY DEF NoStrandedResource, ActiveOfResource, Engaged
<1>1. \A b \in Active : b # None
  BY NoneAssumption DEF Active, Rows
<1>2. resource[r] = "BUSY" => Engaged(r, None)
  BY <1>1 DEF NoStrandedResource, ActiveOfResource, Engaged
<1> QED  BY <1>2, EngagedStep

-----------------------------------------------------------------------------
(* The record of what was done *)

\* The step that adds or closes an assignment also records it.
LEMMA AccountedStep ==
  ASSUME TypeOK, RequestsOK, Accounted, [Next]_vars
  PROVE  Accounted'
<1> DEFINE Recorded(a) ==
             /\ <<"RESOURCE_ASSIGNMENT", a>> \in journal
             /\ assignment[a].status = "COMPLETED" => <<"ASSIGNMENT_COMPLETED", a>> \in journal
             /\ assignment[a].status = "CANCELLED" =>
                   {<<"ASSIGNMENT_CANCELLED", a>>, <<"REPLACED", a>>} \cap journal # {}
<1>0. \A a \in Rows : Recorded(a)
  BY DEF Accounted
<1>1. ASSUME NEW a \in Rows, assignment'[a] = assignment[a], journal \subseteq journal'
      PROVE  Recorded(a)'
  BY <1>0, <1>1
<1>2. ASSUME NEW s \in Sessions, NEW b \in AssignmentIds, CreateCommit(s, b), NEW a \in Rows'
      PROVE  Recorded(a)'
  <2>1. journal \subseteq journal' /\ <<"RESOURCE_ASSIGNMENT", b>> \in journal'
    BY <1>2 DEF CreateCommit
  <2>2. assignment'[b].status = "ACTIVE"
    BY <1>2 DEF CreateCommit, TypeOK
  <2>3. a # b => a \in Rows /\ assignment'[a] = assignment[a]
    BY <1>2 DEF CreateCommit, TypeOK, Rows
  <2> QED  BY <1>1, <2>1, <2>2, <2>3
<1>3. ASSUME NEW s \in Sessions, CompleteCommit(s) \/ CancelCommit(s), NEW a \in Rows'
      PROVE  Recorded(a)'
  <2>1. Describes(s) /\ journal \subseteq journal'
    BY <1>3, CloseEffect DEF CompleteCommit, CancelCommit
  <2>2. a # arg[s].asg => a \in Rows /\ assignment'[a] = assignment[a]
    BY <1>3 DEF CompleteCommit, CancelCommit, TypeOK, Rows
  <2>3. \/ /\ assignment'[arg[s].asg].status = "COMPLETED"
           /\ <<"ASSIGNMENT_COMPLETED", arg[s].asg>> \in journal'
        \/ /\ assignment'[arg[s].asg].status = "CANCELLED"
           /\ <<"ASSIGNMENT_CANCELLED", arg[s].asg>> \in journal'
    <3>1. assignment[arg[s].asg] \in AssignmentRow /\ arg[s].asg \in AssignmentIds
      BY <2>1 DEF Describes, TypeOK, Rows
    <3> QED  BY <1>3, <3>1 DEF CompleteCommit, CancelCommit, CompletionRecord, TypeOK, AssignmentRow
  <2>4. <<"RESOURCE_ASSIGNMENT", arg[s].asg>> \in journal'
    BY <1>0, <2>1 DEF Describes
  <2> QED  BY <1>1, <2>1, <2>2, <2>3, <2>4
<1>4. ASSUME NEW s \in Sessions, NEW b \in AssignmentIds, ReoptCommit(s, b), NEW a \in Rows'
      PROVE  Recorded(a)'
  <2>1. Describes(s) /\ b \notin Rows
    BY <1>4, ReplaceEffect DEF Adds
  <2>2. /\ journal \subseteq journal'
        /\ <<"RESOURCE_ASSIGNMENT", b>> \in journal'
        /\ <<"REPLACED", arg[s].asg>> \in journal'
    BY <1>4 DEF ReoptCommit
  <2>3. a # arg[s].asg /\ a # b => a \in Rows /\ assignment'[a] = assignment[a]
    BY <1>4 DEF ReoptCommit, TypeOK, Rows
  <2>4. assignment'[b].status = "ACTIVE"
    BY <1>4 DEF ReoptCommit, TypeOK
  <2>5. assignment'[arg[s].asg].status = "CANCELLED"
    <3>1. assignment[arg[s].asg] \in AssignmentRow /\ arg[s].asg \in AssignmentIds
      BY <2>1 DEF Describes, TypeOK, Rows
    <3>2. arg[s].asg # b
      BY <2>1 DEF Describes
    <3> QED  BY <1>4, <3>1, <3>2 DEF ReoptCommit, TypeOK, AssignmentRow
  <2>6. <<"RESOURCE_ASSIGNMENT", arg[s].asg>> \in journal'
    BY <1>0, <2>1, <2>2 DEF Describes
  <2> QED  BY <1>1, <2>2, <2>3, <2>4, <2>5, <2>6
<1>5. ASSUME assignment' = assignment, journal' = journal
      PROVE  Accounted'
  BY <1>0, <1>5 DEF Accounted, Rows
<1>6. CASE UNCHANGED vars
  BY <1>5, <1>6 DEF vars, tables
<1>7. ASSUME NEW i \in Incidents, NEW role \in CreatorRoles, CreateIncident(i, role)
      PROVE  Accounted'
  BY <1>5, <1>7 DEF CreateIncident
<1>8. ASSUME NEW s \in Sessions, WriteStatus(s) \/ Quiet(s)
      PROVE  Accounted'
  BY <1>5, <1>8, QuietFrame DEF WriteStatus, tables
<1>9. ASSUME NEW r \in Resources, NEW st, SetResource(r, st)
      PROVE  Accounted'
  BY <1>5, <1>9 DEF SetResource
<1>10. ASSUME \A a \in Rows' : Recorded(a)'
       PROVE  Accounted'
  BY <1>10 DEF Accounted
<1> QED  BY <1>2, <1>3, <1>4, <1>6, <1>7, <1>8, <1>9, <1>10, NextCases

-----------------------------------------------------------------------------
(* Theorems *)

LEMMA InvInit == Init => IInv
<1> SUFFICES ASSUME Init PROVE IInv
  OBVIOUS
<1>1. TypeOK
  BY TypeInit
<1>2. Rows = {} /\ Active = {}
  BY DEF Init, Rows, Active
<1>3. \A s \in Sessions : pc[s] = "idle"
  BY DEF Init
<1>4. DecisionsHold
  BY <1>3, NoneAssumption
     DEF Init, DecisionsHold, RequestsOK, RequestOK, ApprovedFirst, LocksExclude, CancelSawRight,
         ReplaceSawRight, PastApproval, CreateSteps, AboutAssignment, ReplaceSteps, CancelOpen,
         ReoptOpen, IncidentStatus
<1>5. /\ OneMissionPerResource /\ OneResourcePerIncident /\ ApprovalGate /\ Accounted
      /\ NoStrandedResource /\ NoForgottenIncident
  BY <1>2, NoneAssumption
     DEF Init, OneMissionPerResource, OneResourcePerIncident, ApprovalGate, Accounted,
         NoStrandedResource, NoForgottenIncident, IncidentStatus
<1> QED  BY <1>1, <1>4, <1>5 DEF IInv

LEMMA InvStep == IInv /\ [Next]_vars => IInv'
<1> SUFFICES ASSUME IInv, [Next]_vars PROVE IInv'
  OBVIOUS
<1> USE DEF IInv, DecisionsHold
<1>1. TypeOK' /\ RequestsOK' /\ ApprovedFirst' /\ ApprovalGate' /\ LocksExclude'
  BY TypeStep, RequestsStep, ApprovedStep, LocksStep
<1>2. OneMissionPerResource' /\ OneResourcePerIncident' /\ Accounted'
  BY UniqueStep, AccountedStep
<1>3. CASE Next
  BY <1>1, <1>2, <1>3, CancelSawStep, ReplaceSawStep, StrandedStep, ForgottenStep
<1>4. CASE UNCHANGED vars
  <2>1. Active' = Active
    BY <1>4 DEF vars, tables, Active, Rows
  <2>2. CancelSawRight' /\ ReplaceSawRight' /\ NoStrandedResource' /\ NoForgottenIncident'
    BY <1>4, <2>1 DEF vars, tables, history, CancelSawRight, ReplaceSawRight, NoStrandedResource,
                      NoForgottenIncident, ActiveOfResource, ActiveOfIncident
  <2> QED  BY <1>1, <1>2, <2>2
<1> QED  BY <1>3, <1>4

\* The inductive invariant holds at every moment.
THEOREM Invariance == Spec => []IInv
  BY InvInit, InvStep, PTL DEF Spec

\* Every table row, handler and argument has its type, always: no handler
\* reaches a write with an argument it never read.
THEOREM TypeCorrect == Spec => []TypeOK
<1>1. IInv => TypeOK
  BY DEF IInv
<1> QED  BY <1>1, Invariance, PTL

\* What a request in flight has read and locked is still right when it writes.
THEOREM Decisions == Spec => []DecisionsHold
<1>1. IInv => DecisionsHold
  BY DEF IInv
<1> QED  BY <1>1, Invariance, PTL

\* No resource is ever on two missions, however many requests race.
THEOREM ExclusiveResource == Spec => []OneMissionPerResource
<1>1. IInv => OneMissionPerResource
  BY DEF IInv
<1> QED  BY <1>1, Invariance, PTL

\* No incident ever has two ACTIVE assignments.
THEOREM ExclusiveIncident == Spec => []OneResourcePerIncident
<1>1. IInv => OneResourcePerIncident
  BY DEF IInv
<1> QED  BY <1>1, Invariance, PTL

\* No assignment is ever made for an incident that was never approved.
THEOREM Approval == Spec => []ApprovalGate
<1>1. IInv => ApprovalGate
  BY DEF IInv
<1> QED  BY <1>1, Invariance, PTL

\* No resource is left BUSY by a mission that is over.
THEOREM NothingStranded == Spec => []NoStrandedResource
<1>1. IInv => NoStrandedResource
  BY DEF IInv
<1> QED  BY <1>1, Invariance, PTL

\* No incident is left ASSIGNED with nobody on the way.
THEOREM NobodyForgotten == Spec => []NoForgottenIncident
<1>1. IInv => NoForgottenIncident
  BY DEF IInv
<1> QED  BY <1>1, Invariance, PTL

\* Every dispatch and every ending is on record.
THEOREM AllAccounted == Spec => []Accounted
<1>1. IInv => Accounted
  BY DEF IInv
<1> QED  BY <1>1, Invariance, PTL

-----------------------------------------------------------------------------
(* The dispatch core implements the abstract allocation *)

\* The pairs in force, as the refinement maps them.
Serving == {<<assignment[a].inc, assignment[a].res>> : a \in Active}

\* A row that the indexes let in assigns a free incident to an unused resource.
LEMMA AddsAssign ==
  ASSUME NEW a, NEW i \in Incidents, NEW r \in Resources, NEW gone,
         Adds(a, i, r, gone), UniqueIndexesAllow(i, r, gone), gone \cap Active = {}
  PROVE  Allocation!Assign(i, r)
<1>1. /\ Active' = Active \union {a}
      /\ \A b \in Active : /\ assignment'[b] = assignment[b]
                           /\ assignment[b].res # r
                           /\ assignment[b].inc # i
  BY DEF Adds, UniqueIndexesAllow, ActiveOfResource, ActiveOfIncident, Active
<1>2. Serving' = Serving \union {<<i, r>>}
  BY <1>1 DEF Adds, Serving
<1>3. (\A q \in Resources : <<i, q>> \notin Serving) /\ (\A j \in Incidents : <<j, r>> \notin Serving)
  BY <1>1 DEF Serving
<1> QED  BY <1>2, <1>3 DEF Serving, Allocation!Assign, Allocation!Free, Allocation!Unused

\* A row that takes over from a, which is closed, replaces its resource.
LEMMA AddsReplace ==
  ASSUME NEW a \in Active, NEW b, NEW i \in Incidents, NEW r \in Resources, NEW q \in Resources,
         assignment[a].inc = i, assignment[a].res = r, q # r, OneResourcePerIncident,
         Adds(b, i, q, {a}), UniqueIndexesAllow(i, q, {a})
  PROVE  Allocation!Replace(i, r, q)
<1>1. /\ Active' = (Active \ {a}) \union {b}
      /\ \A c \in Active \ {a} : /\ assignment'[c] = assignment[c]
                                 /\ assignment[c].res # q
                                 /\ assignment[c].inc # i
  BY DEF Adds, UniqueIndexesAllow, ActiveOfResource, ActiveOfIncident, Active
<1>2. Serving = {<<assignment[c].inc, assignment[c].res>> : c \in Active \ {a}} \union {<<i, r>>}
  BY DEF Serving
<1>3. <<i, r>> \notin {<<assignment[c].inc, assignment[c].res>> : c \in Active \ {a}}
  BY <1>1
<1>4. Serving' = {<<assignment[c].inc, assignment[c].res>> : c \in Active \ {a}} \union {<<i, q>>}
  BY <1>1 DEF Adds, Serving
<1>5. Serving' = (Serving \ {<<i, r>>}) \union {<<i, q>>}
  BY <1>2, <1>3, <1>4
<1>6. \A j \in Incidents : <<j, q>> \notin Serving
  BY <1>1 DEF Serving
<1> QED  BY <1>2, <1>5, <1>6 DEF Serving, Allocation!Replace, Allocation!Unused

\* An ACTIVE row that is closed releases its resource.
LEMMA ClosesRelease ==
  ASSUME NEW a \in Active, OneResourcePerIncident, Closes(a),
         NEW i, NEW r, i = assignment[a].inc, r = assignment[a].res
  PROVE  Allocation!Release(i, r)
<1>1. /\ Active' = Active \ {a}
      /\ \A c \in Active \ {a} : /\ assignment'[c] = assignment[c]
                                 /\ assignment[c].inc # i
  BY DEF Closes, OneResourcePerIncident, Active
<1>2. Serving' = Serving \ {<<i, r>>}
  BY <1>1 DEF Serving
<1>3. <<i, r>> \in Serving
  BY DEF Serving
<1> QED  BY <1>2, <1>3 DEF Serving, Allocation!Release

\* Every step of the dispatch core is a step of the abstract allocation, or
\* none: closing a row that was closed already changes no pair in force.
LEMMA AllocationStep ==
  ASSUME TypeOK, RequestsOK, OneResourcePerIncident, [Next]_vars
  PROVE  Allocation!Next \/ UNCHANGED Serving
<1>0. \A a \in Active : /\ assignment[a].inc \in Incidents
                        /\ assignment[a].res \in Resources
  BY DEF Active, Rows, TypeOK, AssignmentRow
<1>1. ASSUME NEW s \in Sessions, NEW a \in AssignmentIds, CreateCommit(s, a)
      PROVE  Allocation!Next
  <2>1. PICK i \in Incidents, r \in Resources : Adds(a, i, r, {}) /\ UniqueIndexesAllow(i, r, {})
    BY <1>1, CreateEffect DEF CreateCommit
  <2>2. Allocation!Assign(i, r)
    BY <2>1, AddsAssign
  <2> QED  BY <2>2 DEF Allocation!Next
<1>2. ASSUME NEW s \in Sessions, CompleteCommit(s) \/ CancelCommit(s)
      PROVE  Allocation!Next \/ UNCHANGED Serving
  <2>1. PICK a : Closes(a)
    BY <1>2, CloseEffect
  <2>2. CASE a \in Active
    <3>1. PICK i \in Incidents, r \in Resources : i = assignment[a].inc /\ r = assignment[a].res
      BY <1>0, <2>2
    <3>2. Allocation!Release(i, r)
      BY <2>1, <2>2, <3>1, ClosesRelease
    <3> QED  BY <3>2 DEF Allocation!Next
  <2>3. CASE a \notin Active
    BY <2>1, <2>3 DEF Closes, Serving, Active
  <2> QED  BY <2>2, <2>3
<1>3. ASSUME NEW s \in Sessions, NEW b \in AssignmentIds, ReoptCommit(s, b)
      PROVE  Allocation!Next
  <2>1. PICK a \in Rows, i \in Incidents, r \in Resources, q \in Resources :
           /\ q # r
           /\ assignment[a].inc = i /\ assignment[a].res = r
           /\ Adds(b, i, q, {a})
           /\ UniqueIndexesAllow(i, q, {a})
    BY <1>3, ReplaceEffect DEF ReoptCommit, Describes
  <2>2. CASE a \in Active
    <3>1. Allocation!Replace(i, r, q)
      BY <2>1, <2>2, AddsReplace
    <3> QED  BY <3>1 DEF Allocation!Next
  <2>3. CASE a \notin Active
    <3>1. Allocation!Assign(i, q)
      BY <2>1, <2>3, AddsAssign
    <3> QED  BY <3>1 DEF Allocation!Next
  <2> QED  BY <2>2, <2>3
<1>4. ASSUME assignment' = assignment, Active' = Active
      PROVE  UNCHANGED Serving
  BY <1>4 DEF Serving
<1> QED  BY <1>1, <1>2, <1>3, <1>4, OtherSteps, NextCases

\* The dispatch core implements exclusive allocation: whatever the requests
\* do, the pairs in force only ever change by assigning a free incident an
\* unused resource, by a release, or by a replacement in one step.
THEOREM Implementation == Spec => ImplementsExclusiveAllocation
<1>1. Init => Allocation!Init
  BY DEF Init, Allocation!Init, Active, Rows
<1>2. IInv /\ [Next]_vars => [Allocation!Next]_Serving
  BY AllocationStep DEF IInv, DecisionsHold
<1> QED  BY <1>1, <1>2, Invariance, PTL DEF Spec, ImplementsExclusiveAllocation, Allocation!Spec, Serving

=============================================================================
