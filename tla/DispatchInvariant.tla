------------------------- MODULE DispatchInvariant -------------------------
(***************************************************************************)
(* The inductive invariant of the dispatch core.  The safety properties of *)
(* Dispatch are not inductive: they say nothing of the requests in flight, *)
(* and it is a request that acts on what it read some steps ago that could *)
(* break them.  What is added here is what such a request may still rely   *)
(* on when it writes.                                                      *)
(***************************************************************************)
EXTENDS Dispatch

\* The statuses of an incident that only an approved one can have.
PastApproval == {"APPROVED", "ASSIGNED", "IN_PROGRESS", "COMPLETED"}

CreateSteps == {"create.resource", "create.duplicates", "create.insert"}
ReplaceSteps == {"reopt.assignment", "reopt.resource", "reopt.write"} \union ReoptOpen
AboutAssignment ==
    {"complete.write", "cancel.write", "reopt.choose"} \union CancelOpen \union ReplaceSteps

\* What session s holds in its arguments while its handler runs. Rows are
\* never deleted and never change hands, so what it read of them stands.
RequestOK(s) ==
    /\ pc[s] # "idle" => arg[s].inc \in Incidents
    /\ pc[s] = "status.write" =>
          /\ arg[s].to \in IncidentStatus
          /\ arg[s].to \in PastApproval \ {"APPROVED"} => arg[s].inc \in everApproved
    /\ pc[s] \in CreateSteps => arg[s].res \in Resources /\ arg[s].inc \in everApproved
    /\ pc[s] \in AboutAssignment =>
          /\ arg[s].asg \in Rows
          /\ assignment[arg[s].asg].inc = arg[s].inc
          /\ assignment[arg[s].asg].res = arg[s].res
    /\ pc[s] \in ReplaceSteps => arg[s].alt \in Resources \ {arg[s].res}

\* Every request in flight is about rows that exist and that it describes correctly.
RequestsOK == \A s \in Sessions : RequestOK(s)

\* No incident gets past PENDING, REJECTED and CANCELLED without an approval.
ApprovedFirst == \A i \in Incidents : incident[i] \in PastApproval => i \in everApproved

\* Row locks exclude each other.
LocksExclude ==
    \A s, t \in Sessions : s # t =>
        /\ {pc[s], pc[t]} \subseteq CancelOpen \union ReoptOpen => arg[s].asg # arg[t].asg
        /\ {pc[s], pc[t]} \subseteq CancelOpen => arg[s].res # arg[t].res

\* A cancellation that found its incident not ASSIGNED will leave it alone:
\* should it be ASSIGNED by now, then for another assignment or by hand.
CancelSawRight ==
    \A s \in Sessions :
        pc[s] = "cancel.keep" /\ incident[arg[s].inc] = "ASSIGNED" =>
            \/ arg[s].inc \in handAssigned
            \/ \E b \in ActiveOfIncident(arg[s].inc) : b # arg[s].asg

\* A replacement that found the old resource not BUSY will leave it alone:
\* should it be BUSY by now, then for another assignment or by hand.
ReplaceSawRight ==
    \A s \in Sessions :
        pc[s] = "reopt.keep" /\ resource[arg[s].res] = "BUSY" =>
            \/ arg[s].res \in handBusy
            \/ \E b \in ActiveOfResource(arg[s].res) : b # arg[s].asg

\* The decisions that requests in flight have taken stay right until they
\* are written, whatever the others commit meanwhile.
DecisionsHold ==
    /\ RequestsOK
    /\ ApprovedFirst
    /\ LocksExclude
    /\ CancelSawRight
    /\ ReplaceSawRight

IInv ==
    /\ TypeOK
    /\ DecisionsHold
    /\ OneMissionPerResource
    /\ OneResourcePerIncident
    /\ ApprovalGate
    /\ NoStrandedResource
    /\ NoForgottenIncident
    /\ Accounted

=============================================================================
