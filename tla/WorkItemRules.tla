---------------------------- MODULE WorkItemRules ----------------------------
(***************************************************************************)
(* The business rules of internal/workitems, as operators without state:   *)
(* the status machine, who may do what to a work item, and who is told.    *)
(* Every other module of the work item components takes its rules from     *)
(* here, so that the atomic and the interleaved models cannot disagree on  *)
(* them.                                                                   *)
(***************************************************************************)
EXTENDS FiniteSets

CONSTANTS
    Users,       \* user ids
    NoUser,      \* the nil of AssignedToUserID
    Contents,    \* abstract values of the editable fields (title, priority, ...)
    NoContent    \* the editable fields of a row that does not exist

ASSUME NoUserAssumption == NoUser \notin Users
ASSUME NoContentAssumption == NoContent \notin Contents

-----------------------------------------------------------------------------
(* The status machine.                                                     *)

Status ==
    {"created", "assigned", "accepted", "in_progress", "submitted_for_review",
     "verified", "flagged", "completed", "cancelled"}

\* A status the Go map has no entry for has no successor.
ValidStatusTransitions ==
    [created              |-> {"assigned", "cancelled"},
     assigned             |-> {"accepted", "cancelled", "created"},
     accepted             |-> {"in_progress", "cancelled"},
     in_progress          |-> {"submitted_for_review", "cancelled"},
     submitted_for_review |-> {"verified", "flagged", "cancelled"},
     verified             |-> {"completed", "cancelled"},
     flagged              |-> {"in_progress", "cancelled"},
     completed            |-> {},
     cancelled            |-> {}]

AssigneeAllowedTransitions ==
    {<<"accepted", "in_progress">>,
     <<"in_progress", "submitted_for_review">>,
     <<"flagged", "in_progress">>}

\* Mutants: acceptance can be undone; flagged work can be verified as it is.
AcceptanceUndone(from, to) ==
    to \in ValidStatusTransitions[from] \/ <<from, to>> = <<"accepted", "created">>

ReworkSkipped(from, to) ==
    to \in ValidStatusTransitions[from] \/ <<from, to>> = <<"flagged", "verified">>

IsValidTransition(from, to) == to \in ValidStatusTransitions[from]

IsAssigneeAllowedTransition(from, to) == <<from, to>> \in AssigneeAllowedTransitions

-----------------------------------------------------------------------------
(* Rows.                                                                   *)

WorkItem ==
    [status : Status, createdBy : Users, assignedTo : Users \cup {NoUser},
     content : Contents]

\* What GetByID finds under an id the store has not handed out: ErrNotFound.
NoItem ==
    [status |-> "absent", createdBy |-> NoUser, assignedTo |-> NoUser,
     content |-> NoContent]

AssignmentStatus == {"assigned", "accepted", "declined"}

Assignment == [status : AssignmentStatus, by : Users, to : Users]

\* What GetByWorkItemID finds for an item never assigned: ErrAssignmentNotFound.
NoAssignment == [status |-> "none", by |-> NoUser, to |-> NoUser]

Exists(item) == item # NoItem

-----------------------------------------------------------------------------
(* Who may do what. A principal is a user together with the roles the       *)
(* request is made under; oversees is the set of pairs <<s, u>> such that  *)
(* IsActiveSupervisorOf(s, u) answers true.                                *)

Role == {"admin", "supervisor", "assignee", "requester"}

Principal == [user : Users, roles : SUBSET Role]

\* The order in which the service's switches look at a principal's roles.
ActingRole(p) ==
    IF "admin" \in p.roles THEN "admin"
    ELSE IF "supervisor" \in p.roles THEN "supervisor"
    ELSE IF "requester" \in p.roles THEN "requester"
    ELSE "assignee"

\* The role gate the router puts in front of each operation.
RouteRoles ==
    [Create       |-> {"admin", "supervisor", "requester"},
     Update       |-> {"admin", "supervisor"},
     ChangeStatus |-> {"admin", "assignee", "supervisor"},
     Verify       |-> {"admin", "supervisor"},
     Flag         |-> {"admin", "supervisor"},
     Assign       |-> {"admin", "supervisor"},
     Respond      |-> {"assignee"},
     Upload       |-> {"admin", "assignee", "supervisor"}]

Allowed(operation, p) == p.roles \cap RouteRoles[operation] # {}

\* Mutant: any unassigned item is every supervisor's.
UnassignedIsAnyones(actor, item, oversees) ==
    item.assignedTo = NoUser \/ <<actor, item.assignedTo>> \in oversees

SupervisorMayActOn(actor, item, oversees) ==
    \/ item.assignedTo = NoUser /\ item.createdBy = actor
    \/ item.assignedTo # NoUser /\ <<actor, item.assignedTo>> \in oversees

\* The ownership part of GetByID, as the evidence gate and the attachment
\* handler call it (without the requester's read access to own items).
MayView(p, item, oversees) ==
    \/ ActingRole(p) = "admin"
    \/ ActingRole(p) = "supervisor" /\ SupervisorMayActOn(p.user, item, oversees)
    \/ ActingRole(p) \notin {"admin", "supervisor"} /\ item.assignedTo = p.user

MayEdit(p, item, oversees) ==
    \/ ActingRole(p) = "admin"
    \/ /\ ActingRole(p) = "supervisor"
       /\ SupervisorMayActOn(p.user, item, oversees)
       /\ item.assignedTo = NoUser

\* Mutant: without the requester case, ownership alone lets him in.
OwnersMayChangeStatus(p, item, to, oversees) ==
    \/ ActingRole(p) = "admin" /\ IsValidTransition(item.status, to)
    \/ /\ ActingRole(p) = "supervisor"
       /\ SupervisorMayActOn(p.user, item, oversees)
       /\ IsValidTransition(item.status, to)
    \/ /\ ActingRole(p) \in {"assignee", "requester"}
       /\ item.assignedTo = p.user
       /\ IsAssigneeAllowedTransition(item.status, to)

MayChangeStatus(p, item, to, oversees) ==
    \/ ActingRole(p) = "admin" /\ IsValidTransition(item.status, to)
    \/ /\ ActingRole(p) = "supervisor"
       /\ SupervisorMayActOn(p.user, item, oversees)
       /\ IsValidTransition(item.status, to)
    \/ /\ ActingRole(p) = "assignee"
       /\ item.assignedTo = p.user
       /\ IsAssigneeAllowedTransition(item.status, to)

MayAssign(p, item, target, oversees) ==
    /\ \/ ActingRole(p) = "admin"
       \/ /\ ActingRole(p) = "supervisor"
          /\ SupervisorMayActOn(p.user, item, oversees)
          /\ <<p.user, target>> \in oversees
    /\ IsValidTransition(item.status, "assigned")

\* Accepting moves the item to accepted, declining back to created.
ResponseStatus(accept) == IF accept THEN "accepted" ELSE "created"

\* Mutant: a pending assignment can be answered at any status of the item.
MayRespondAnytime(p, item, assignment, accept) ==
    /\ "requester" \notin p.roles
    /\ assignment.to = p.user
    /\ assignment.status = "assigned"

MayRespond(p, item, assignment, accept) ==
    /\ "requester" \notin p.roles
    /\ assignment.to = p.user
    /\ assignment.status = "assigned"
    /\ IsValidTransition(item.status, ResponseStatus(accept))

-----------------------------------------------------------------------------
(* The audit trails.                                                       *)

\* role is the role the change was requested under; the table does not keep it.
StatusChange ==
    [from : Status, to : Status, by : Users, role : Role, reason : BOOLEAN]

StatusChangeOf(item, to, p, reason) ==
    [from |-> item.status, to |-> to, by |-> p.user, role |-> ActingRole(p),
     reason |-> reason]

AssignmentEvent == [action : AssignmentStatus, by : Users, to : Users]

-----------------------------------------------------------------------------
(* Who is told of a status change: a sequence of at most one notification, *)
(* computed from the row as just written.                                  *)

NotificationKind ==
    {"evidence_submitted", "work_flagged", "work_verified", "work_completed",
     "assignment_created", "assignment_accepted"}

Notification == [recipient : Users, kind : NotificationKind]

VerdictKind ==
    [flagged |-> "work_flagged", verified |-> "work_verified",
     completed |-> "work_completed"]

\* Mutant: verdicts go to the creator.
NotificationToCreator(item) ==
    IF item.status = "submitted_for_review"
    THEN <<[recipient |-> item.createdBy, kind |-> "evidence_submitted"]>>
    ELSE IF item.status \in DOMAIN VerdictKind
    THEN <<[recipient |-> item.createdBy, kind |-> VerdictKind[item.status]]>>
    ELSE <<>>

NotificationForStatusChange(item) ==
    IF item.status = "submitted_for_review"
    THEN <<[recipient |-> item.createdBy, kind |-> "evidence_submitted"]>>
    ELSE IF item.status \in DOMAIN VerdictKind /\ item.assignedTo # NoUser
    THEN <<[recipient |-> item.assignedTo, kind |-> VerdictKind[item.status]]>>
    ELSE <<>>
=============================================================================
