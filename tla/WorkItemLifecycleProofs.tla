----------------------- MODULE WorkItemLifecycleProofs -----------------------
(* Theorems about WorkItemLifecycle, for every value of its constants.      *)
EXTENDS WorkItemLifecycle, FiniteSetTheorems, TLAPS

USE DEF Exists, ResponseStatus, StatusChangeOf

-----------------------------------------------------------------------------
(* Facts about the rules.                                                  *)

LEMMA ActingRoleIsRole ==
    ASSUME NEW p
    PROVE  ActingRole(p) \in Role
  BY DEF ActingRole, Role

\* The status machine never leaves Status, and what an operation finds under
\* an id is either a row or nothing.
LEMMA TransitionsStayInStatus ==
    ASSUME NEW from \in Status, NEW to, IsValidTransition(from, to)
    PROVE  to \in Status
  BY DEF IsValidTransition, ValidStatusTransitions, Status

LEMMA NothingLeavesTerminal ==
    ASSUME NEW from \in Terminal, NEW to
    PROVE  ~IsValidTransition(from, to)
  BY DEF IsValidTransition, ValidStatusTransitions, Terminal

LEMMA NoWayBackToAssignment ==
    ASSUME NEW from \in Status \ {"created", "assigned"}, NEW to,
           IsValidTransition(from, to)
    PROVE  to \notin {"created", "assigned"}
  BY DEF IsValidTransition, ValidStatusTransitions, Status

\* Whoever may change a status, by whichever rule, follows the status machine.
LEMMA AllowedMovesAreValid ==
    ASSUME NEW p, NEW item, item.status \in Status, NEW to, NEW oversees,
           MayChangeStatus(p, item, to, oversees)
    PROVE  IsValidTransition(item.status, to)
  BY DEF MayChangeStatus, IsValidTransition, IsAssigneeAllowedTransition,
         AssigneeAllowedTransitions, ValidStatusTransitions, Status

LEMMA NewsIsNotification ==
    ASSUME NEW item \in WorkItem
    PROVE  NotificationForStatusChange(item) \in Seq(Notification)
  <1>1. /\ item.createdBy \in Users
        /\ item.assignedTo # NoUser => item.assignedTo \in Users
    BY DEF WorkItem
  <1>2. \A s \in DOMAIN VerdictKind : VerdictKind[s] \in NotificationKind
    BY DEF VerdictKind, NotificationKind
  <1>3. "evidence_submitted" \in NotificationKind
    BY DEF NotificationKind
  <1>4. \A n \in Notification : <<n>> \in Seq(Notification)
    OBVIOUS
  <1>5. [recipient |-> item.createdBy, kind |-> "evidence_submitted"]
            \in Notification
    BY <1>1, <1>3 DEF Notification
  <1>6. item.assignedTo # NoUser =>
            \A s \in DOMAIN VerdictKind :
                [recipient |-> item.assignedTo, kind |-> VerdictKind[s]]
                    \in Notification
    BY <1>1, <1>2 DEF Notification
  <1>7. QED
    BY <1>4, <1>5, <1>6 DEF NotificationForStatusChange

-----------------------------------------------------------------------------
LEMMA MovesAreTyped ==
    ASSUME TypeOK, NEW w \in WorkItems, NEW p \in Principals,
           NEW to \in Status, NEW reason \in BOOLEAN,
           MoveTo(w, p, to, reason)
    PROVE  TypeOK'
  <1> DEFINE moved == [items[w] EXCEPT !.status = to]
  <1>1. items[w] \in WorkItem
    BY DEF MoveTo, TypeOK
  <1>2. moved \in WorkItem
    BY <1>1 DEF WorkItem
  <1>3. items' \in [WorkItems -> WorkItem \cup {NoItem}]
    BY <1>2 DEF MoveTo, TypeOK
  <1>4. statusHistory' \in [WorkItems -> Seq(StatusChange)]
    <2>1. [from |-> items[w].status, to |-> to, by |-> p.user,
           role |-> ActingRole(p), reason |-> reason] \in StatusChange
      BY <1>1, PrincipalsAssumption, ActingRoleIsRole
      DEF WorkItem, StatusChange, Principal
    <2>2. QED
      BY <2>1 DEF MoveTo, RecordStatusChange, TypeOK
  <1>5. notifications' \in [WorkItems -> Seq(Notification)]
    BY <1>2, NewsIsNotification DEF MoveTo, Notify, TypeOK
  <1>6. QED
    BY <1>3, <1>4, <1>5 DEF MoveTo, TypeOK, teamVars, TeamTypeOK

LEMMA OffersAreTyped ==
    ASSUME TypeOK, NEW w \in WorkItems, NEW p \in Principals,
           NEW target \in Users, AssignWorkItem(w, p, target)
    PROVE  TypeOK'
  <1>1. items[w] \in WorkItem /\ p.user \in Users /\ ActingRole(p) \in Role
    BY PrincipalsAssumption, ActingRoleIsRole DEF AssignWorkItem, TypeOK, Principal
  <1>2. items' \in [WorkItems -> WorkItem \cup {NoItem}]
    BY <1>1 DEF AssignWorkItem, TypeOK, WorkItem, Status
  <1>3. statusHistory' \in [WorkItems -> Seq(StatusChange)]
    <2>1. [from |-> items[w].status, to |-> "assigned", by |-> p.user,
           role |-> ActingRole(p), reason |-> FALSE] \in StatusChange
      BY <1>1 DEF WorkItem, StatusChange, Status
    <2>2. QED
      BY <2>1 DEF AssignWorkItem, RecordStatusChange, TypeOK
  <1>4. assignments' \in [WorkItems -> Assignment \cup {NoAssignment}]
    BY <1>1 DEF AssignWorkItem, TypeOK, Assignment, AssignmentStatus
  <1>5. assignmentHistory' \in [WorkItems -> Seq(AssignmentEvent)]
    <2>1. [action |-> "assigned", by |-> p.user, to |-> target]
            \in AssignmentEvent
      BY <1>1 DEF AssignmentEvent, AssignmentStatus
    <2>2. QED
      BY <2>1 DEF AssignWorkItem, RecordAssignmentEvent, TypeOK
  <1>6. notifications' \in [WorkItems -> Seq(Notification)]
    <2>1. [recipient |-> target, kind |-> "assignment_created"] \in Notification
      BY DEF Notification, NotificationKind
    <2>2. <<[recipient |-> target, kind |-> "assignment_created"]>>
            \in Seq(Notification)
      BY <2>1
    <2>3. QED
      BY <2>2 DEF AssignWorkItem, Notify, TypeOK
  <1>7. QED
    BY <1>2, <1>3, <1>4, <1>5, <1>6 DEF AssignWorkItem, TypeOK, teamVars, TeamTypeOK

LEMMA AnswersFindRows ==
    ASSUME TypeOK, NEW w \in WorkItems, NEW p \in Principals,
           NEW accept \in BOOLEAN, NEW reason \in BOOLEAN,
           Respond(w, p, accept, reason)
    PROVE  /\ p.user \in Users
           /\ items[w] \in WorkItem
           /\ assignments[w] \in Assignment
           /\ statusHistory' \in [WorkItems -> Seq(StatusChange)]
  <1>1. items[w] \in WorkItem /\ p.user \in Users /\ ActingRole(p) \in Role
    BY PrincipalsAssumption, ActingRoleIsRole DEF Respond, TypeOK, Principal
  <1>2. assignments[w] \in Assignment
    BY DEF Respond, MayRespond, TypeOK, NoAssignment
  <1>3. [from |-> items[w].status, to |-> ResponseStatus(accept), by |-> p.user,
         role |-> ActingRole(p), reason |-> reason] \in StatusChange
    BY <1>1 DEF WorkItem, StatusChange, Status
  <1>4. statusHistory' \in [WorkItems -> Seq(StatusChange)]
    BY <1>3 DEF Respond, RecordStatusChange, TypeOK
  <1>5. QED
    BY <1>1, <1>2, <1>4

LEMMA AcceptancesAreTyped ==
    ASSUME TypeOK, NEW w \in WorkItems, NEW p \in Principals,
           NEW reason \in BOOLEAN, Accept(w, p, reason)
    PROVE  TypeOK'
  <1>1. /\ p.user \in Users
        /\ items[w] \in WorkItem
        /\ assignments[w] \in Assignment
        /\ statusHistory' \in [WorkItems -> Seq(StatusChange)]
    BY AnswersFindRows DEF Accept
  <1>2. items' \in [WorkItems -> WorkItem \cup {NoItem}]
    BY <1>1 DEF Accept, TypeOK, WorkItem, Status
  <1>3. assignments' \in [WorkItems -> Assignment \cup {NoAssignment}]
    BY <1>1 DEF Accept, TypeOK, Assignment, AssignmentStatus
  <1>4. assignmentHistory' \in [WorkItems -> Seq(AssignmentEvent)]
    <2>1. [action |-> "accepted", by |-> p.user, to |-> assignments[w].to]
            \in AssignmentEvent
      BY <1>1 DEF AssignmentEvent, AssignmentStatus, Assignment
    <2>2. QED
      BY <2>1 DEF Accept, RecordAssignmentEvent, TypeOK
  <1>5. notifications' \in [WorkItems -> Seq(Notification)]
    <2> DEFINE n == [recipient |-> assignments[w].by,
                     kind |-> "assignment_accepted"]
    <2>1. n \in Notification
      BY <1>1 DEF Notification, NotificationKind, Assignment
    <2>2. <<n>> \in Seq(Notification)
      BY <2>1
    <2>3. QED
      BY <2>2 DEF Accept, Notify, TypeOK
  <1>6. QED
    BY <1>1, <1>2, <1>3, <1>4, <1>5
    DEF Accept, Respond, TypeOK, teamVars, TeamTypeOK

LEMMA RefusalsAreTyped ==
    ASSUME TypeOK, NEW w \in WorkItems, NEW p \in Principals,
           NEW reason \in BOOLEAN, Decline(w, p, reason)
    PROVE  TypeOK'
  <1>1. /\ p.user \in Users
        /\ items[w] \in WorkItem
        /\ assignments[w] \in Assignment
        /\ statusHistory' \in [WorkItems -> Seq(StatusChange)]
    BY AnswersFindRows DEF Decline
  <1>2. items' \in [WorkItems -> WorkItem \cup {NoItem}]
    BY <1>1 DEF Decline, TypeOK, WorkItem, Status
  <1>3. assignments' \in [WorkItems -> Assignment \cup {NoAssignment}]
    BY <1>1 DEF Decline, TypeOK, Assignment, AssignmentStatus
  <1>4. assignmentHistory' \in [WorkItems -> Seq(AssignmentEvent)]
    <2>1. [action |-> "declined", by |-> p.user, to |-> assignments[w].to]
            \in AssignmentEvent
      BY <1>1 DEF AssignmentEvent, AssignmentStatus, Assignment
    <2>2. QED
      BY <2>1 DEF Decline, RecordAssignmentEvent, TypeOK
  <1>5. QED
    BY <1>1, <1>2, <1>3, <1>4
    DEF Decline, Respond, TypeOK, teamVars, TeamTypeOK

LEMMA TeamStepsAreTyped ==
    ASSUME TypeOK, TeamStep
    PROVE  TypeOK'
  <1> USE TeamAssumption DEF TeamTypeOK, AddAssignee, AddSupervisor, RemoveSupervisor
  <1>1. TeamTypeOK
    BY DEF TypeOK
  <1>2. ASSUME NEW team \in Teams, NEW u \in TeamMembers, AddAssignee(team, u)
        PROVE  TeamTypeOK'
    BY <1>1, <1>2
  <1>3. ASSUME NEW team \in Teams, NEW u \in TeamSupervisors,
               AddSupervisor(team, u) \/ RemoveSupervisor(team, u)
        PROVE  TeamTypeOK'
    BY <1>1, <1>3
  <1>4. TeamTypeOK'
    BY <1>2, <1>3 DEF TeamStep, TeamNext
  <1>5. QED
    BY <1>4 DEF TypeOK, TeamStep, itemVars

LEMMA TypeCorrectStep ==
    ASSUME TypeOK, [Next]_vars
    PROVE  TypeOK'
  <1>1. ASSUME NEW w \in WorkItems, NEW p \in Principals,
               NEW content \in Contents, Create(w, p, content)
        PROVE  TypeOK'
    BY <1>1, PrincipalsAssumption
    DEF Create, TypeOK, WorkItem, Status, Principal, teamVars, TeamTypeOK
  <1>2. ASSUME NEW w \in WorkItems, NEW p \in Principals,
               NEW content \in Contents, Update(w, p, content)
        PROVE  TypeOK'
    BY <1>2 DEF Update, TypeOK, WorkItem, teamVars, TeamTypeOK
  <1>3. ASSUME NEW w \in WorkItems, NEW p \in Principals, NEW to \in Status,
               NEW reason \in Reasons, ChangeStatus(w, p, to, reason)
        PROVE  TypeOK'
    BY <1>3, MovesAreTyped, ReasonsAssumption DEF ChangeStatus
  <1>4. ASSUME NEW w \in WorkItems, NEW p \in Principals,
               \/ \E reason \in Reasons : Verify(w, p, reason)
               \/ Flag(w, p)
        PROVE  TypeOK'
    BY <1>4, MovesAreTyped, ReasonsAssumption DEF Verify, Flag, Status
  <1>5. ASSUME NEW w \in WorkItems, NEW p \in Principals,
               NEW target \in Users, AssignWorkItem(w, p, target)
        PROVE  TypeOK'
    BY <1>5, OffersAreTyped
  <1>6. ASSUME NEW w \in WorkItems, NEW p \in Principals,
               NEW reason \in Reasons,
               Accept(w, p, reason) \/ Decline(w, p, reason)
        PROVE  TypeOK'
    BY <1>6, AcceptancesAreTyped, RefusalsAreTyped, ReasonsAssumption
  <1>7. ASSUME NEW w \in WorkItems, NEW p \in Principals, Upload(w, p)
        PROVE  TypeOK'
    BY <1>7 DEF Upload, TypeOK, teamVars, TeamTypeOK
  <1>8. CASE UNCHANGED vars
    BY <1>8 DEF vars, itemVars, teamVars, TypeOK, TeamTypeOK
  <1>9. QED
    BY <1>1, <1>2, <1>3, <1>4, <1>5, <1>6, <1>7, <1>8, TeamStepsAreTyped
    DEF Next, WorkItemStep

\* The variables keep their types, whatever requests are made.
THEOREM TypeCorrect == Spec => []TypeOK
  <1>1. Init => TypeOK
    BY DEF Init, TypeOK, TeamInit, TeamTypeOK
  <1>2. TypeOK /\ [Next]_vars => TypeOK'
    BY TypeCorrectStep
  <1>3. QED
    BY <1>1, <1>2, PTL DEF Spec

-----------------------------------------------------------------------------
(* What a step may do to one work item. The invariants below look at one   *)
(* item at a time, so each is proved by cases over these six outcomes      *)
(* instead of over every action and every other item.                      *)

Quiet(w) ==
    /\ notifications'[w] = notifications[w]
    /\ items'[w].status = items[w].status
    /\ items'[w].assignedTo = items[w].assignedTo
    /\ assignments'[w] = assignments[w]
    /\ statusHistory'[w] = statusHistory[w]
    /\ assignmentHistory'[w] = assignmentHistory[w]
    /\ attachments'[w] >= attachments[w]

Created(w) ==
    /\ notifications'[w] = notifications[w]
    /\ items[w] = NoItem
    /\ items'[w].status = "created"
    /\ items'[w].assignedTo = NoUser
    /\ assignments'[w] = assignments[w]
    /\ statusHistory'[w] = statusHistory[w]
    /\ assignmentHistory'[w] = assignmentHistory[w]
    /\ attachments'[w] = attachments[w]

\* A status change, with its entry in the status history.
Recorded(w, to) ==
    /\ items[w].status \in Status
    /\ IsValidTransition(items[w].status, to)
    /\ items'[w].status = to
    /\ \E c \in StatusChange :
            /\ c.from = items[w].status /\ c.to = to
            /\ statusHistory'[w] = Append(statusHistory[w], c)
    /\ attachments'[w] = attachments[w]

\* An assignment event, with the assignment it leaves behind.
Logged(w, action, by, to) ==
    /\ by \in Users /\ to \in Users
    /\ assignments'[w].status = action /\ assignments'[w].to = to
    /\ assignments'[w] # NoAssignment
    /\ assignmentHistory'[w] =
            Append(assignmentHistory[w], [action |-> action, by |-> by, to |-> to])

Moved(w) ==
    \E to \in Status :
        /\ Recorded(w, to)
        /\ to = "submitted_for_review" => attachments[w] > 0
        /\ items'[w].assignedTo = items[w].assignedTo
        /\ assignments'[w] = assignments[w]
        /\ assignmentHistory'[w] = assignmentHistory[w]
        /\ notifications'[w] =
                notifications[w] \o NotificationForStatusChange(items'[w])

Offered(w) ==
    \E by, to \in Users :
        /\ Recorded(w, "assigned")
        /\ items'[w].assignedTo = to
        /\ Logged(w, "assigned", by, to)
        /\ assignments'[w].by = by
        /\ notifications'[w] = notifications[w] \o
                <<[recipient |-> to, kind |-> "assignment_created"]>>

Accepted(w) ==
    /\ assignments[w].status = "assigned"
    /\ Recorded(w, "accepted")
    /\ items'[w].assignedTo = items[w].assignedTo
    /\ Logged(w, "accepted", assignments[w].to, assignments[w].to)
    /\ assignments[w].by \in Users
    /\ notifications'[w] = notifications[w] \o
            <<[recipient |-> assignments[w].by, kind |-> "assignment_accepted"]>>

Declined(w) ==
    /\ assignments[w].status = "assigned"
    /\ Recorded(w, "created")
    /\ items'[w].assignedTo = NoUser
    /\ Logged(w, "declined", assignments[w].to, assignments[w].to)
    /\ notifications'[w] = notifications[w]

Outcome(w) ==
    \/ Quiet(w) \/ Created(w) \/ Moved(w)
    \/ Offered(w) \/ Accepted(w) \/ Declined(w)

LEMMA MovesRecorded ==
    ASSUME TypeOK, NEW w \in WorkItems, NEW p \in Principals,
           NEW to \in Status, NEW reason \in BOOLEAN,
           MoveTo(w, p, to, reason),
           to = "submitted_for_review" => attachments[w] > 0
    PROVE  Moved(w)
  <1> DEFINE c == [from |-> items[w].status, to |-> to, by |-> p.user,
                   role |-> ActingRole(p), reason |-> reason]
  <1>1. items[w] \in WorkItem /\ items[w].status \in Status
    BY DEF MoveTo, TypeOK, WorkItem
  <1>2. IsValidTransition(items[w].status, to)
    BY <1>1, AllowedMovesAreValid DEF MoveTo
  <1>3. c \in StatusChange
    BY <1>1, PrincipalsAssumption, ActingRoleIsRole DEF StatusChange, Principal
  <1>4. items'[w] = [items[w] EXCEPT !.status = to]
    BY DEF MoveTo, TypeOK
  <1>5. items'[w].status = to /\ items'[w].assignedTo = items[w].assignedTo
    BY <1>1, <1>4 DEF WorkItem
  <1>6. statusHistory'[w] = Append(statusHistory[w], c)
    BY DEF MoveTo, RecordStatusChange, TypeOK
  <1>7. c.from = items[w].status /\ c.to = to
    OBVIOUS
  <1>8. Recorded(w, to)
    BY <1>1, <1>2, <1>3, <1>5, <1>6, <1>7 DEF Recorded, MoveTo
  <1>9. QED
    <2>1. notifications'[w] =
            notifications[w] \o NotificationForStatusChange(items'[w])
      BY <1>4 DEF MoveTo, Notify, TypeOK
    <2>2. QED
      BY <1>5, <1>8, <2>1 DEF Moved, MoveTo

LEMMA OffersRecorded ==
    ASSUME TypeOK, NEW w \in WorkItems, NEW p \in Principals,
           NEW target \in Users, AssignWorkItem(w, p, target)
    PROVE  Offered(w)
  <1> DEFINE c == [from |-> items[w].status, to |-> "assigned", by |-> p.user,
                   role |-> ActingRole(p), reason |-> FALSE]
  <1>1. items[w] \in WorkItem /\ items[w].status \in Status /\ p.user \in Users
    BY PrincipalsAssumption, ActingRoleIsRole DEF AssignWorkItem, TypeOK, WorkItem, Principal
  <1>2. IsValidTransition(items[w].status, "assigned")
    BY DEF AssignWorkItem, MayAssign
  <1>3. c \in StatusChange
    BY <1>1, PrincipalsAssumption, ActingRoleIsRole DEF StatusChange, Principal, Status
  <1>4. items'[w].status = "assigned" /\ items'[w].assignedTo = target
    BY <1>1 DEF AssignWorkItem, TypeOK, WorkItem
  <1>5. statusHistory'[w] = Append(statusHistory[w], c)
    BY DEF AssignWorkItem, RecordStatusChange, TypeOK
  <1>6. c.from = items[w].status /\ c.to = "assigned"
    OBVIOUS
  <1>7. Recorded(w, "assigned")
    BY <1>1, <1>2, <1>3, <1>4, <1>5, <1>6 DEF Recorded, AssignWorkItem
  <1>8. Logged(w, "assigned", p.user, target)
    BY <1>1 DEF Logged, AssignWorkItem, RecordAssignmentEvent, TypeOK,
       NoAssignment
  <1>9. QED
    <2>1. /\ assignments'[w].by = p.user
          /\ notifications'[w] = notifications[w] \o
                <<[recipient |-> target, kind |-> "assignment_created"]>>
      BY DEF AssignWorkItem, Notify, TypeOK
    <2>2. QED
      BY <1>1, <1>4, <1>7, <1>8, <2>1 DEF Offered

LEMMA AnswersRecorded ==
    ASSUME TypeOK, NEW w \in WorkItems, NEW p \in Principals,
           NEW accept \in BOOLEAN, NEW reason \in BOOLEAN,
           Respond(w, p, accept, reason),
           items'[w].status = ResponseStatus(accept)
    PROVE  /\ p.user \in Users
           /\ p.user = assignments[w].to
           /\ assignments[w] \in Assignment
           /\ assignments[w].status = "assigned"
           /\ Recorded(w, ResponseStatus(accept))
  <1> DEFINE c == [from |-> items[w].status, to |-> ResponseStatus(accept),
                   by |-> p.user, role |-> ActingRole(p), reason |-> reason]
  <1>1. /\ items[w] \in WorkItem /\ items[w].status \in Status
        /\ p.user \in Users /\ assignments[w] \in Assignment
    BY AnswersFindRows DEF WorkItem
  <1>2. /\ IsValidTransition(items[w].status, ResponseStatus(accept))
        /\ p.user = assignments[w].to /\ assignments[w].status = "assigned"
    BY DEF Respond, MayRespond
  <1>3. c \in StatusChange
    BY <1>1, PrincipalsAssumption, ActingRoleIsRole DEF StatusChange, Principal, Status
  <1>4. statusHistory'[w] = Append(statusHistory[w], c)
    BY DEF Respond, RecordStatusChange, TypeOK
  <1>5. c.from = items[w].status /\ c.to = ResponseStatus(accept)
    OBVIOUS
  <1>6. Recorded(w, ResponseStatus(accept))
    BY <1>1, <1>2, <1>3, <1>4, <1>5 DEF Recorded, Respond
  <1>7. QED
    BY <1>1, <1>2, <1>6

LEMMA AcceptancesRecorded ==
    ASSUME TypeOK, NEW w \in WorkItems, NEW p \in Principals,
           NEW reason \in BOOLEAN, Accept(w, p, reason)
    PROVE  Accepted(w)
  <1>1. items[w] \in WorkItem
    BY AnswersFindRows DEF Accept
  <1>2. /\ items'[w].status = "accepted"
        /\ items'[w].assignedTo = items[w].assignedTo
    BY <1>1 DEF Accept, TypeOK, WorkItem
  <1>3. /\ p.user \in Users /\ p.user = assignments[w].to
        /\ assignments[w] \in Assignment
        /\ assignments[w].status = "assigned"
        /\ Recorded(w, "accepted")
    BY <1>2, AnswersRecorded DEF Accept
  <1>4. Logged(w, "accepted", assignments[w].to, assignments[w].to)
    BY <1>3 DEF Logged, Accept, RecordAssignmentEvent, TypeOK, NoAssignment,
       Assignment
  <1>5. QED
    <2>1. notifications'[w] = notifications[w] \o
            <<[recipient |-> assignments[w].by, kind |-> "assignment_accepted"]>>
      BY DEF Accept, Notify, TypeOK
    <2>2. QED
      BY <1>2, <1>3, <1>4, <2>1 DEF Accepted, Assignment

LEMMA RefusalsRecorded ==
    ASSUME TypeOK, NEW w \in WorkItems, NEW p \in Principals,
           NEW reason \in BOOLEAN, Decline(w, p, reason)
    PROVE  Declined(w)
  <1>1. items[w] \in WorkItem
    BY AnswersFindRows DEF Decline
  <1>2. items'[w].status = "created" /\ items'[w].assignedTo = NoUser
    BY <1>1 DEF Decline, TypeOK, WorkItem
  <1>3. /\ p.user \in Users /\ p.user = assignments[w].to
        /\ assignments[w] \in Assignment
        /\ assignments[w].status = "assigned"
        /\ Recorded(w, "created")
    BY <1>2, AnswersRecorded DEF Decline
  <1>4. Logged(w, "declined", assignments[w].to, assignments[w].to)
    BY <1>3 DEF Logged, Decline, RecordAssignmentEvent, TypeOK, NoAssignment,
       Assignment
  <1>5. QED
    BY <1>2, <1>3, <1>4 DEF Declined, Decline

\* A request for one work item leaves every other work item alone.
LEMMA OthersAreQuiet ==
    ASSUME TypeOK, NEW w \in WorkItems, NEW p \in Principals,
           WorkItemStep(w, p), NEW v \in WorkItems \ {w}
    PROVE  Quiet(v)
  <1> USE DEF TypeOK, Quiet
  <1>1. ASSUME NEW to, NEW reason, MoveTo(w, p, to, reason)
        PROVE  Quiet(v)
    BY <1>1 DEF MoveTo, RecordStatusChange, Notify
  <1>2. ASSUME NEW reason, Accept(w, p, reason) PROVE Quiet(v)
    BY <1>2 DEF Accept, Respond, RecordStatusChange, RecordAssignmentEvent, Notify
  <1>3. ASSUME NEW reason, Decline(w, p, reason) PROVE Quiet(v)
    BY <1>3 DEF Decline, Respond, RecordStatusChange, RecordAssignmentEvent
  <1>4. ASSUME NEW target, AssignWorkItem(w, p, target) PROVE Quiet(v)
    BY <1>4 DEF AssignWorkItem, RecordStatusChange, RecordAssignmentEvent, Notify
  <1>5. ASSUME NEW content, Create(w, p, content) \/ Update(w, p, content)
        PROVE  Quiet(v)
    BY <1>5 DEF Create, Update
  <1>6. ASSUME Upload(w, p) PROVE Quiet(v)
    BY <1>6 DEF Upload
  <1>7. QED
    BY <1>1, <1>2, <1>3, <1>4, <1>5, <1>6
    DEF WorkItemStep, ChangeStatus, Verify, Flag

LEMMA StepOutcomes ==
    ASSUME TypeOK, [Next]_vars, NEW v \in WorkItems
    PROVE  Outcome(v)
  <1>1. ASSUME NEW w \in WorkItems, NEW p \in Principals, WorkItemStep(w, p)
        PROVE  Outcome(v)
    <2>1. CASE v # w
      BY <1>1, <2>1, OthersAreQuiet DEF Outcome
    <2>2. ASSUME v = w, NEW content \in Contents, Create(w, p, content)
          PROVE  Outcome(v)
      BY <2>2 DEF Outcome, Created, Create, TypeOK
    <2>3. ASSUME v = w, NEW content \in Contents, Update(w, p, content)
          PROVE  Outcome(v)
      BY <2>3 DEF Outcome, Quiet, Update, TypeOK, WorkItem
    <2>4. ASSUME v = w, NEW to \in Status, NEW reason \in Reasons,
                 ChangeStatus(w, p, to, reason)
          PROVE  Outcome(v)
      BY <2>4, MovesRecorded, ReasonsAssumption DEF Outcome, ChangeStatus
    <2>5. ASSUME v = w,
                 \/ \E reason \in Reasons : Verify(w, p, reason)
                 \/ Flag(w, p)
          PROVE  Outcome(v)
      BY <2>5, MovesRecorded, ReasonsAssumption DEF Outcome, Verify, Flag, Status
    <2>6. ASSUME v = w, NEW target \in Users, AssignWorkItem(w, p, target)
          PROVE  Outcome(v)
      BY <2>6, OffersRecorded DEF Outcome
    <2>7. ASSUME v = w, NEW reason \in Reasons,
                 Accept(w, p, reason) \/ Decline(w, p, reason)
          PROVE  Outcome(v)
      BY <2>7, AcceptancesRecorded, RefusalsRecorded, ReasonsAssumption DEF Outcome
    <2>8. ASSUME v = w, Upload(w, p) PROVE Outcome(v)
      BY <2>8 DEF Outcome, Quiet, Upload, TypeOK
    <2>9. QED
      BY <1>1, <2>1, <2>2, <2>3, <2>4, <2>5, <2>6, <2>7, <2>8 DEF WorkItemStep
  <1>2. CASE TeamStep \/ UNCHANGED vars
    BY <1>2 DEF TeamStep, vars, itemVars, Outcome, Quiet, TypeOK
  <1>3. QED
    BY <1>1, <1>2 DEF Next

-----------------------------------------------------------------------------
(* The status history.                                                     *)

\* Adding a change that starts where the history ends keeps it a path.
LEMMA PathsGrow ==
    ASSUME NEW h \in Seq(StatusChange), NEW c \in StatusChange,
           IsValidTransition(c.from, c.to),
           \A k \in DOMAIN h : IsValidTransition(h[k].from, h[k].to),
           \A k \in DOMAIN h : k > 1 => h[k].from = h[k-1].to,
           h # <<>> => h[1].from = "created" /\ LastOf(h).to = c.from,
           h = <<>> => c.from = "created"
    PROVE  LET g == Append(h, c) IN
           /\ g # <<>>
           /\ \A k \in DOMAIN g : IsValidTransition(g[k].from, g[k].to)
           /\ \A k \in DOMAIN g : k > 1 => g[k].from = g[k-1].to
           /\ g[1].from = "created"
           /\ LastOf(g) = c
  <1> DEFINE g == Append(h, c)
  <1>1. /\ g \in Seq(StatusChange)
        /\ DOMAIN h = 1..Len(h) /\ Len(h) \in Nat
        /\ DOMAIN g = 1..Len(h)+1 /\ Len(g) = Len(h) + 1
        /\ \A k \in 1..Len(h) : g[k] = h[k]
        /\ g[Len(h)+1] = c
    OBVIOUS
  <1>2. h = <<>> <=> Len(h) = 0
    OBVIOUS
  <1> HIDE DEF g
  <1>3. g # <<>>
    BY <1>1
  <1>4. \A k \in DOMAIN g : IsValidTransition(g[k].from, g[k].to)
    <2> SUFFICES ASSUME NEW k \in 1..Len(h)+1
                 PROVE  IsValidTransition(g[k].from, g[k].to)
      BY <1>1
    <2>1. CASE k = Len(h) + 1
      BY <1>1, <2>1
    <2>2. CASE k \in 1..Len(h)
      BY <1>1, <2>2
    <2>3. QED
      BY <1>1, <2>1, <2>2
  <1>5. \A k \in DOMAIN g : k > 1 => g[k].from = g[k-1].to
    <2> SUFFICES ASSUME NEW k \in 1..Len(h)+1, k > 1
                 PROVE  g[k].from = g[k-1].to
      BY <1>1
    <2>1. CASE k = Len(h) + 1
      BY <1>1, <1>2, <2>1 DEF LastOf
    <2>2. CASE k \in 1..Len(h)
      BY <1>1, <2>2
    <2>3. QED
      BY <1>1, <2>1, <2>2
  <1>6. g[1].from = "created"
    BY <1>1, <1>2
  <1>7. LastOf(g) = c
    BY <1>1 DEF LastOf
  <1>8. QED
    BY <1>3, <1>4, <1>5, <1>6, <1>7 DEF g

\* Every status history is an unbroken path of the status machine from
\* created to the status in the row.
THEOREM HistoryIsAlwaysPath == Spec => []HistoryIsPath
  <1>1. Init => HistoryIsPath
    BY DEF Init, HistoryIsPath, NoItem
  <1>2. TypeOK /\ HistoryIsPath /\ [Next]_vars => HistoryIsPath'
    <2> SUFFICES ASSUME TypeOK, HistoryIsPath, [Next]_vars, NEW w \in WorkItems
                 PROVE  LET h == statusHistory'[w] IN
                        /\ \A k \in DOMAIN h : IsValidTransition(h[k].from, h[k].to)
                        /\ \A k \in DOMAIN h : k > 1 => h[k].from = h[k-1].to
                        /\ h # <<>> =>
                              h[1].from = "created" /\ LastOf(h).to = items'[w].status
                        /\ h = <<>> => items'[w].status \in {"absent", "created"}
      BY DEF HistoryIsPath, LastOf
    <2>1. Outcome(w)
      BY StepOutcomes
    <2>2. CASE Quiet(w)
      BY <2>2 DEF Quiet, HistoryIsPath, LastOf
    <2>3. CASE Created(w)
      <3>1. statusHistory[w] = <<>>
        <4> SUFFICES ASSUME statusHistory[w] # <<>> PROVE FALSE
          OBVIOUS
        <4>1. /\ statusHistory[w] \in Seq(StatusChange)
              /\ LastOf(statusHistory[w]) \in StatusChange
          BY DEF TypeOK, LastOf
        <4>2. LastOf(statusHistory[w]).to \in Status
          BY <4>1 DEF StatusChange
        <4>3. LastOf(statusHistory[w]).to = "absent"
          BY <2>3 DEF Created, NoItem, HistoryIsPath
        <4>4. QED
          BY <4>2, <4>3 DEF Status
      <3>2. QED
        BY <2>3, <3>1 DEF Created
    <2>4. ASSUME NEW to, Recorded(w, to)
          PROVE  LET h == statusHistory'[w] IN
                 /\ \A k \in DOMAIN h : IsValidTransition(h[k].from, h[k].to)
                 /\ \A k \in DOMAIN h : k > 1 => h[k].from = h[k-1].to
                 /\ h # <<>> /\ h[1].from = "created" /\ LastOf(h).to = items'[w].status
      <3>1. PICK c \in StatusChange :
                /\ c.from = items[w].status /\ c.to = to
                /\ statusHistory'[w] = Append(statusHistory[w], c)
        BY <2>4 DEF Recorded
      <3>2. /\ IsValidTransition(c.from, c.to) /\ items'[w].status = to
            /\ items[w].status \in Status
        BY <2>4, <3>1 DEF Recorded
      <3>3. statusHistory[w] = <<>> => c.from = "created"
        BY <3>1, <3>2 DEF HistoryIsPath, Status
      <3>4. /\ statusHistory[w] \in Seq(StatusChange)
            /\ statusHistory[w] # <<>> =>
                  /\ statusHistory[w][1].from = "created"
                  /\ LastOf(statusHistory[w]).to = c.from
            /\ \A k \in DOMAIN statusHistory[w] :
                  IsValidTransition(statusHistory[w][k].from, statusHistory[w][k].to)
            /\ \A k \in DOMAIN statusHistory[w] :
                  k > 1 => statusHistory[w][k].from = statusHistory[w][k-1].to
        BY <3>1 DEF HistoryIsPath, TypeOK
      <3>5. LET g == Append(statusHistory[w], c) IN
            /\ g # <<>>
            /\ \A k \in DOMAIN g : IsValidTransition(g[k].from, g[k].to)
            /\ \A k \in DOMAIN g : k > 1 => g[k].from = g[k-1].to
            /\ g[1].from = "created"
            /\ LastOf(g) = c
        BY <3>2, <3>3, <3>4, PathsGrow
      <3>6. QED
        BY <3>1, <3>2, <3>5
    <2>5. CASE Moved(w) \/ Offered(w) \/ Accepted(w) \/ Declined(w)
      <3>1. \E to : Recorded(w, to)
        BY <2>5 DEF Moved, Offered, Accepted, Declined
      <3>2. QED
        BY <2>4, <3>1
    <2>6. QED
      BY <2>1, <2>2, <2>3, <2>5 DEF Outcome
  <1>3. QED
    BY <1>1, <1>2, TypeCorrect, PTL DEF Spec

\* Once completed or cancelled, a work item keeps its status, its assignee,
\* its assignment, both audit trails and its notifications. (Its contents an
\* admin may still edit, and files may still be attached.)
THEOREM TerminalStaysFinal == Spec => TerminalIsFinal
  <1>1. TypeOK /\ [Next]_vars =>
            [\A w \in WorkItems :
                items[w].status \in Terminal =>
                    /\ items'[w].status = items[w].status
                    /\ items'[w].assignedTo = items[w].assignedTo
                    /\ UNCHANGED <<assignments[w], statusHistory[w],
                                   assignmentHistory[w], notifications[w]>>]_vars
    <2> SUFFICES ASSUME TypeOK, [Next]_vars, NEW w \in WorkItems,
                        items[w].status \in Terminal
                 PROVE  /\ items'[w].status = items[w].status
                        /\ items'[w].assignedTo = items[w].assignedTo
                        /\ UNCHANGED <<assignments[w], statusHistory[w],
                                       assignmentHistory[w], notifications[w]>>
      OBVIOUS
    <2>1. Outcome(w)
      BY StepOutcomes
    <2>2. ~Created(w)
      BY DEF Created, NoItem, Terminal
    <2>3. ASSUME NEW to PROVE ~Recorded(w, to)
      BY NothingLeavesTerminal DEF Recorded
    <2>4. Quiet(w)
      BY <2>1, <2>2, <2>3 DEF Outcome, Moved, Offered, Accepted, Declined
    <2>5. QED
      BY <2>4 DEF Quiet
  <1>2. QED
    BY <1>1, TypeCorrect, PTL DEF Spec, TerminalIsFinal

-----------------------------------------------------------------------------
(* Assignments.                                                            *)

\* The work item, its current assignment and the assignment history agree.
THEOREM AssignmentsAlwaysAgree == Spec => []AssignmentsAgree
  <1> DEFINE Agrees(item, a, h) ==
        /\ (a = NoAssignment) <=> (h = <<>>)
        /\ h # <<>> => LastOf(h).action = a.status /\ LastOf(h).to = a.to
        /\ item.assignedTo =
                IF a.status \in {"assigned", "accepted"} THEN a.to ELSE NoUser
        /\ \A k \in DOMAIN h : h[k].action # "assigned" =>
                /\ k > 1
                /\ h[k-1].action = "assigned"
                /\ h[k-1].to = h[k].to
                /\ h[k].by = h[k].to
  <1>1. Init => AssignmentsAgree
    BY DEF Init, AssignmentsAgree, NoItem, NoAssignment
  <1>2. TypeOK /\ AssignmentsAgree /\ [Next]_vars => AssignmentsAgree'
    <2> SUFFICES ASSUME TypeOK, AssignmentsAgree, [Next]_vars, NEW w \in WorkItems
                 PROVE  Agrees(items'[w], assignments'[w], assignmentHistory'[w])
      BY DEF AssignmentsAgree, LastOf
    <2>1. Outcome(w)
      BY StepOutcomes
    <2>2. Agrees(items[w], assignments[w], assignmentHistory[w])
      BY DEF AssignmentsAgree
    <2>3. CASE Quiet(w) \/ Moved(w)
      BY <2>2, <2>3 DEF Quiet, Moved
    <2>4. CASE Created(w)
      <3>1. items[w].assignedTo = NoUser
        BY <2>4 DEF Created, NoItem
      <3>2. QED
        BY <2>2, <2>4, <3>1 DEF Created
    <2>5. ASSUME NEW action, NEW by, NEW to, Logged(w, action, by, to),
                 items'[w].assignedTo =
                    IF action \in {"assigned", "accepted"} THEN to ELSE NoUser,
                 action # "assigned" =>
                    /\ assignments[w] # NoAssignment
                    /\ assignments[w].status = "assigned"
                    /\ by = to /\ to = assignments[w].to
          PROVE  Agrees(items'[w], assignments'[w], assignmentHistory'[w])
      <3> DEFINE h == assignmentHistory[w]
                 e == [action |-> action, by |-> by, to |-> to]
                 g == Append(h, e)
      <3>1. /\ assignmentHistory'[w] = g
            /\ assignments'[w].status = action /\ assignments'[w].to = to
            /\ assignments'[w] # NoAssignment
        BY <2>5 DEF Logged
      <3>2. /\ h \in Seq(AssignmentEvent)
            /\ DOMAIN h = 1..Len(h) /\ Len(h) \in Nat
            /\ h = <<>> <=> Len(h) = 0
        BY DEF TypeOK
      <3>3. /\ DOMAIN g = 1..Len(h)+1 /\ Len(g) = Len(h) + 1 /\ g # <<>>
            /\ \A k \in 1..Len(h) : g[k] = h[k]
            /\ g[Len(h)+1] = e
        BY <3>2
      <3>4. e.action = action /\ e.by = by /\ e.to = to
        OBVIOUS
      <3> HIDE DEF g, e, h
      <3>5. \A k \in DOMAIN g : g[k].action # "assigned" =>
                /\ k > 1
                /\ g[k-1].action = "assigned"
                /\ g[k-1].to = g[k].to
                /\ g[k].by = g[k].to
        <4> SUFFICES ASSUME NEW k \in 1..Len(h)+1, g[k].action # "assigned"
                     PROVE  /\ k > 1
                            /\ g[k-1].action = "assigned"
                            /\ g[k-1].to = g[k].to
                            /\ g[k].by = g[k].to
          BY <3>3
        <4>1. CASE k \in 1..Len(h)
          <5>1. k \in DOMAIN h /\ g[k] = h[k]
            BY <3>2, <3>3, <4>1
          <5>2. /\ k > 1
                /\ h[k-1].action = "assigned"
                /\ h[k-1].to = h[k].to
                /\ h[k].by = h[k].to
            BY <2>2, <5>1 DEF h
          <5>3. k - 1 \in 1..Len(h)
            BY <3>2, <4>1, <5>2
          <5>4. g[k-1] = h[k-1]
            BY <3>3, <5>3
          <5>5. QED
            BY <5>1, <5>2, <5>4
        <4>2. CASE k = Len(h) + 1
          <5>1. g[k] = e /\ action # "assigned"
            BY <3>3, <3>4, <4>2
          <5>2. h # <<>> /\ LastOf(h).action = "assigned" /\ LastOf(h).to = to
            BY <2>2, <2>5, <5>1 DEF h
          <5>3. k > 1 /\ g[k-1] = LastOf(h)
            BY <3>2, <3>3, <4>2, <5>2 DEF LastOf
          <5>4. QED
            BY <2>5, <3>4, <5>1, <5>2, <5>3
        <4>3. QED
          BY <3>2, <4>1, <4>2
      <3>6. LastOf(g) = e
        BY <3>2, <3>3 DEF LastOf
      <3>7. QED
        BY <2>5, <3>1, <3>3, <3>4, <3>5, <3>6
    <2>6. CASE Offered(w)
      BY <2>5, <2>6 DEF Offered
    <2>7. CASE Accepted(w)
      <3>1. /\ assignments[w].status = "assigned" /\ assignments[w] # NoAssignment
            /\ items'[w].assignedTo = assignments[w].to
            /\ Logged(w, "accepted", assignments[w].to, assignments[w].to)
        BY <2>2, <2>7 DEF Accepted, NoAssignment
      <3>2. QED
        BY <2>5, <3>1
    <2>8. CASE Declined(w)
      <3>1. /\ assignments[w].status = "assigned" /\ assignments[w] # NoAssignment
            /\ items'[w].assignedTo = NoUser
            /\ Logged(w, "declined", assignments[w].to, assignments[w].to)
        BY <2>8 DEF Declined, NoAssignment
      <3>2. QED
        BY <2>5, <3>1
    <2>9. QED
      BY <2>1, <2>3, <2>4, <2>6, <2>7, <2>8 DEF Outcome
  <1>3. QED
    BY <1>1, <1>2, TypeCorrect, PTL DEF Spec

\* An accepted assignment goes with a status past the point of assignment.
THEOREM AcceptedStaysPastAssignment == Spec => []AcceptedIsPastAssignment
  <1>1. Init => AcceptedIsPastAssignment
    BY DEF Init, AcceptedIsPastAssignment, NoAssignment
  <1>2. TypeOK /\ AcceptedIsPastAssignment /\ [Next]_vars =>
            AcceptedIsPastAssignment'
    <2> SUFFICES ASSUME TypeOK, AcceptedIsPastAssignment, [Next]_vars,
                        NEW w \in WorkItems, assignments'[w].status = "accepted"
                 PROVE  items'[w].status \notin {"absent", "created", "assigned"}
      BY DEF AcceptedIsPastAssignment
    <2>1. Outcome(w)
      BY StepOutcomes
    <2>2. CASE Quiet(w)
      BY <2>2 DEF Quiet, AcceptedIsPastAssignment
    <2>3. ~Created(w)
      BY DEF Created, NoItem, AcceptedIsPastAssignment
    <2>4. CASE Moved(w)
      <3>1. PICK to \in Status : Recorded(w, to) /\ assignments'[w] = assignments[w]
        BY <2>4 DEF Moved
      <3>2. items[w].status \in Status \ {"created", "assigned"}
        BY <3>1 DEF Recorded, AcceptedIsPastAssignment
      <3>3. to \notin {"created", "assigned"}
        BY <3>1, <3>2, NoWayBackToAssignment DEF Recorded
      <3>4. QED
        BY <3>1, <3>3 DEF Recorded, Status
    <2>5. ~Offered(w) /\ ~Declined(w)
      BY DEF Offered, Declined, Logged
    <2>6. CASE Accepted(w)
      BY <2>6 DEF Accepted, Recorded
    <2>7. QED
      BY <2>1, <2>2, <2>3, <2>4, <2>5, <2>6 DEF Outcome
  <1>3. QED
    BY <1>1, <1>2, TypeCorrect, PTL DEF Spec

\* Accepted work is never handed to anybody else.
THEOREM AcceptedAssigneeAlwaysKeepsWork == Spec => AcceptedAssigneeKeepsWork
  <1>1. TypeOK /\ AcceptedIsPastAssignment /\ [Next]_vars =>
            [\A w \in WorkItems :
                assignments[w].status = "accepted" =>
                    /\ items'[w].assignedTo = items[w].assignedTo
                    /\ assignments'[w] = assignments[w]]_vars
    <2> SUFFICES ASSUME TypeOK, AcceptedIsPastAssignment, [Next]_vars,
                        NEW w \in WorkItems, assignments[w].status = "accepted"
                 PROVE  /\ items'[w].assignedTo = items[w].assignedTo
                        /\ assignments'[w] = assignments[w]
      OBVIOUS
    <2>1. Outcome(w) /\ items[w].status \notin {"absent", "created", "assigned"}
      BY StepOutcomes DEF AcceptedIsPastAssignment
    <2>2. ~Created(w)
      BY <2>1 DEF Created, NoItem
    <2>3. ~Offered(w)
      <3>1. ASSUME Recorded(w, "assigned") PROVE FALSE
        BY <2>1, <3>1, NoWayBackToAssignment DEF Recorded
      <3>2. QED
        BY <3>1 DEF Offered
    <2>4. QED
      BY <2>1, <2>2, <2>3 DEF Outcome, Quiet, Moved, Accepted, Declined
  <1>2. QED
    BY <1>1, TypeCorrect, AcceptedStaysPastAssignment, PTL
    DEF Spec, AcceptedAssigneeKeepsWork

-----------------------------------------------------------------------------
(* The evidence gate.                                                      *)

Reviewed == {"submitted_for_review", "verified", "flagged", "completed"}

\* ReviewedWithEvidence looks at the history only; the gate is asked on the
\* way into review only. What carries the fact from there to verified, flagged
\* and completed is the status in the row.
EvidenceInv ==
    \A w \in WorkItems :
        (\/ items[w].status \in Reviewed
         \/ \E k \in DOMAIN statusHistory[w] : statusHistory[w][k].to \in Reviewed)
        => attachments[w] > 0

LEMMA ReviewStartsWithSubmission ==
    ASSUME NEW from \in Status, NEW to \in Reviewed, IsValidTransition(from, to)
    PROVE  to = "submitted_for_review" \/ from \in Reviewed
  BY DEF IsValidTransition, ValidStatusTransitions, Status, Reviewed

\* No work item was submitted, verified, flagged or completed without an
\* attachment.
THEOREM ReviewsAlwaysHaveEvidence == Spec => []ReviewedWithEvidence
  <1>1. Init => EvidenceInv
    BY DEF Init, EvidenceInv, NoItem, Reviewed
  <1>2. TypeOK /\ EvidenceInv /\ [Next]_vars => EvidenceInv'
    <2> SUFFICES ASSUME TypeOK, EvidenceInv, [Next]_vars, NEW w \in WorkItems,
                        \/ items'[w].status \in Reviewed
                        \/ \E k \in DOMAIN statusHistory'[w] :
                                statusHistory'[w][k].to \in Reviewed
                 PROVE  attachments'[w] > 0
      BY DEF EvidenceInv
    <2>1. Outcome(w)
      BY StepOutcomes
    <2>2. attachments[w] \in Nat
      BY DEF TypeOK
    <2>3. CASE Quiet(w)
      <3>1. attachments[w] > 0
        BY <2>3 DEF Quiet, EvidenceInv
      <3>2. attachments'[w] >= attachments[w] /\ attachments'[w] \in Nat
        BY <2>3, TypeCorrectStep DEF Quiet, TypeOK
      <3>3. QED
        BY <2>2, <3>1, <3>2
    <2>4. CASE Created(w)
      BY <2>4 DEF Created, EvidenceInv, Reviewed
    <2>5. ASSUME NEW to, Recorded(w, to),
                 to = "submitted_for_review" => attachments[w] > 0
          PROVE  attachments'[w] > 0
      <3>1. PICK c \in StatusChange :
                /\ c.to = to
                /\ statusHistory'[w] = Append(statusHistory[w], c)
        BY <2>5 DEF Recorded
      <3>2. /\ items[w].status \in Status /\ items'[w].status = to
            /\ IsValidTransition(items[w].status, to)
            /\ attachments'[w] = attachments[w]
        BY <2>5 DEF Recorded
      <3>3. CASE to \in Reviewed
        BY <2>5, <3>2, <3>3, ReviewStartsWithSubmission DEF EvidenceInv
      <3>4. CASE to \notin Reviewed
        <4>1. PICK k \in DOMAIN statusHistory'[w] :
                statusHistory'[w][k].to \in Reviewed
          BY <3>2, <3>4
        <4>2. /\ statusHistory[w] \in Seq(StatusChange)
              /\ DOMAIN statusHistory[w] = 1..Len(statusHistory[w])
              /\ Len(statusHistory[w]) \in Nat
          BY DEF TypeOK
        <4>3. k \in DOMAIN statusHistory[w] /\ statusHistory'[w][k] = statusHistory[w][k]
          BY <3>1, <3>4, <4>1, <4>2
        <4>4. QED
          BY <3>2, <4>1, <4>3 DEF EvidenceInv
      <3>5. QED
        BY <3>3, <3>4
    <2>6. CASE Moved(w) \/ Offered(w) \/ Accepted(w) \/ Declined(w)
      BY <2>5, <2>6 DEF Moved, Offered, Accepted, Declined
    <2>7. QED
      BY <2>1, <2>3, <2>4, <2>6 DEF Outcome
  <1>3. EvidenceInv => ReviewedWithEvidence
    BY DEF EvidenceInv, ReviewedWithEvidence, Reviewed
  <1>4. QED
    BY <1>1, <1>2, <1>3, TypeCorrect, PTL DEF Spec

-----------------------------------------------------------------------------
(* Who did what. The outcomes above say what a step does to a work item;   *)
(* the next lemmas say on whose authority it does.                         *)

\* A principal who may move, offer or answer, by the role he acts under.
LEMMA MoversHaveAuthority ==
    ASSUME NEW p \in Principals, NEW item, NEW to, NEW oversees,
           MayChangeStatus(p, item, to, oversees)
    PROVE  \/ ActingRole(p) = "admin"
           \/ ActingRole(p) = "supervisor" /\ SupervisorMayActOn(p.user, item, oversees)
           \/ /\ ActingRole(p) = "assignee"
              /\ item.assignedTo = p.user
              /\ to \in {"in_progress", "submitted_for_review"}
  BY DEF MayChangeStatus, IsAssigneeAllowedTransition, AssigneeAllowedTransitions

\* The authority behind a new entry c of the status history of w: that of an
\* admin, of a supervisor over the item, of its assignee, or of the person
\* who is asked whether he takes the work.
ByRole(w, c) ==
    \/ c.role = "admin"
    \/ c.role = "supervisor" /\ SupervisorMayActOn(c.by, items[w], Oversees)
    \/ /\ c.role = "assignee"
       /\ items[w].assignedTo = c.by
       /\ c.to \in {"in_progress", "submitted_for_review"}

ByTarget(w, c) ==
    /\ c.role # "requester"
    /\ assignments[w].to = c.by
    /\ assignments[w].status = "assigned"
    /\ c.to \in {"created", "accepted"}

Entered(w, c) ==
    /\ c \in StatusChange
    /\ c.from = items[w].status
    /\ IsValidTransition(c.from, c.to)
    /\ items'[w].status = c.to
    /\ statusHistory'[w] = Append(statusHistory[w], c)
    /\ c.to = "flagged" => c.reason
    /\ ByRole(w, c) \/ ByTarget(w, c)

LEMMA MovesAreEntered ==
    ASSUME TypeOK, NEW w \in WorkItems, NEW p \in Principals,
           NEW to \in Status, NEW reason \in BOOLEAN, MoveTo(w, p, to, reason)
    PROVE  \E c : Entered(w, c)
  <1> DEFINE c == [from |-> items[w].status, to |-> to, by |-> p.user,
                   role |-> ActingRole(p), reason |-> reason]
  <1>1. items[w] \in WorkItem /\ items[w].status \in Status
    BY DEF MoveTo, TypeOK, WorkItem
  <1>2. IsValidTransition(items[w].status, to)
    BY <1>1, AllowedMovesAreValid DEF MoveTo
  <1>3. c \in StatusChange
    BY <1>1, PrincipalsAssumption, ActingRoleIsRole DEF StatusChange, Principal
  <1>4. items'[w].status = to
    BY <1>1 DEF MoveTo, TypeOK, WorkItem
  <1>5. statusHistory'[w] = Append(statusHistory[w], c)
    BY DEF MoveTo, RecordStatusChange, TypeOK
  <1>6. ByRole(w, c)
    BY MoversHaveAuthority DEF MoveTo, ByRole
  <1>7. Entered(w, c)
    BY <1>1, <1>2, <1>3, <1>4, <1>5, <1>6 DEF Entered, MoveTo
  <1>8. QED
    BY <1>7

LEMMA OffersAreEntered ==
    ASSUME TypeOK, NEW w \in WorkItems, NEW p \in Principals,
           NEW target \in Users, AssignWorkItem(w, p, target)
    PROVE  \E c : Entered(w, c)
  <1> DEFINE c == [from |-> items[w].status, to |-> "assigned", by |-> p.user,
                   role |-> ActingRole(p), reason |-> FALSE]
  <1>1. items[w] \in WorkItem /\ items[w].status \in Status
    BY DEF AssignWorkItem, TypeOK, WorkItem
  <1>2. c \in StatusChange
    BY <1>1, PrincipalsAssumption, ActingRoleIsRole
    DEF StatusChange, Principal, Status
  <1>3. items'[w].status = "assigned"
    BY <1>1 DEF AssignWorkItem, TypeOK, WorkItem
  <1>4. statusHistory'[w] = Append(statusHistory[w], c)
    BY DEF AssignWorkItem, RecordStatusChange, TypeOK
  <1>5. ByRole(w, c) /\ IsValidTransition(items[w].status, "assigned")
    BY DEF AssignWorkItem, MayAssign, ByRole
  <1>6. Entered(w, c)
    BY <1>1, <1>2, <1>3, <1>4, <1>5 DEF Entered
  <1>7. QED
    BY <1>6

LEMMA AnswersAreEntered ==
    ASSUME TypeOK, NEW w \in WorkItems, NEW p \in Principals,
           NEW accept \in BOOLEAN, NEW reason \in BOOLEAN,
           Respond(w, p, accept, reason),
           items'[w].status = ResponseStatus(accept)
    PROVE  \E c : Entered(w, c)
  <1> DEFINE to == ResponseStatus(accept)
             c == [from |-> items[w].status, to |-> to, by |-> p.user,
                   role |-> ActingRole(p), reason |-> reason]
  <1>1. items[w] \in WorkItem /\ items[w].status \in Status
    BY AnswersFindRows DEF WorkItem
  <1>2. to \in {"created", "accepted"}
    OBVIOUS
  <1>3. c \in StatusChange
    BY <1>1, <1>2, PrincipalsAssumption, ActingRoleIsRole
    DEF StatusChange, Principal, Status
  <1>4. statusHistory'[w] = Append(statusHistory[w], c)
    BY DEF Respond, RecordStatusChange, TypeOK
  <1>5. ActingRole(p) # "requester"
    BY DEF Respond, MayRespond, ActingRole
  <1>6. ByTarget(w, c) /\ IsValidTransition(items[w].status, to)
    BY <1>2, <1>5 DEF Respond, MayRespond, ByTarget
  <1>7. Entered(w, c)
    BY <1>1, <1>2, <1>3, <1>4, <1>6 DEF Entered
  <1>8. QED
    BY <1>7

\* A status history only ever grows by one entry, made with authority.
LEMMA EntriesHaveAuthority ==
    ASSUME TypeOK, [Next]_vars, NEW v \in WorkItems,
           statusHistory'[v] # statusHistory[v]
    PROVE  \E c : Entered(v, c)
  <1>1. ASSUME NEW w \in WorkItems, NEW p \in Principals, WorkItemStep(w, p)
        PROVE  \E c : Entered(v, c)
    <2>1. v = w
      BY <1>1, OthersAreQuiet DEF Quiet
    <2>2. ASSUME NEW to \in Status, NEW reason \in Reasons,
                 ChangeStatus(w, p, to, reason)
          PROVE  \E c : Entered(w, c)
      BY <2>2, MovesAreEntered, ReasonsAssumption DEF ChangeStatus
    <2>3. ASSUME \/ \E reason \in Reasons : Verify(w, p, reason)
                 \/ Flag(w, p)
          PROVE  \E c : Entered(w, c)
      BY <2>3, MovesAreEntered, ReasonsAssumption DEF Verify, Flag, Status
    <2>4. ASSUME NEW target \in Users, AssignWorkItem(w, p, target)
          PROVE  \E c : Entered(w, c)
      BY <2>4, OffersAreEntered
    <2>5. ASSUME NEW reason \in Reasons, Accept(w, p, reason)
          PROVE  \E c : Entered(w, c)
      <3>1. items'[w].status = "accepted"
        BY <2>5, ReasonsAssumption, AnswersFindRows DEF Accept, TypeOK, WorkItem
      <3>2. QED
        BY <2>5, <3>1, AnswersAreEntered, ReasonsAssumption DEF Accept
    <2>6. ASSUME NEW reason \in Reasons, Decline(w, p, reason)
          PROVE  \E c : Entered(w, c)
      <3>1. items'[w].status = "created"
        BY <2>6, ReasonsAssumption, AnswersFindRows DEF Decline, TypeOK, WorkItem
      <3>2. QED
        BY <2>6, <3>1, AnswersAreEntered, ReasonsAssumption DEF Decline
    <2>7. ASSUME \/ \E content \in Contents :
                        Create(w, p, content) \/ Update(w, p, content)
                 \/ Upload(w, p)
          PROVE  FALSE
      BY <2>1, <2>7 DEF Create, Update, Upload
    <2>8. QED
      BY <1>1, <2>1, <2>2, <2>3, <2>4, <2>5, <2>6, <2>7 DEF WorkItemStep
  <1>2. CASE TeamStep \/ UNCHANGED vars
    BY <1>2 DEF TeamStep, vars, itemVars
  <1>3. QED
    BY <1>1, <1>2 DEF Next

\* What has been appended is the last entry of the history.
LEMMA AppendedIsLast ==
    ASSUME NEW S, NEW h \in Seq(S), NEW c \in S
    PROVE  /\ LastOf(Append(h, c)) = c
           /\ Append(h, c) # <<>>
           /\ DOMAIN Append(h, c) = 1..Len(h)+1 /\ DOMAIN h = 1..Len(h)
           /\ Len(h) \in Nat
           /\ \A k \in 1..Len(h) : Append(h, c)[k] = h[k]
           /\ Append(h, c)[Len(h)+1] = c
  BY DEF LastOf

\* Assignees act as the target of the latest offer only, short of the review
\* decision; requesters move nothing.
THEOREM AssigneesAlwaysActOnTheirOffer == Spec => AssigneesActOnTheirOffer
  <1>1. TypeOK /\ AssignmentsAgree /\ [Next]_vars =>
            [\A w \in WorkItems :
                statusHistory'[w] # statusHistory[w] =>
                    LET c == LastOf(statusHistory'[w])
                        offer == LastOf(assignmentHistory[w]) IN
                    /\ c.role # "requester"
                    /\ c.role = "assignee" =>
                        /\ assignmentHistory[w] # <<>>
                        /\ offer.to = c.by /\ offer.action # "declined"
                        /\ c.to \in {"created", "accepted", "in_progress",
                                     "submitted_for_review"}]_vars
    <2> SUFFICES ASSUME TypeOK, AssignmentsAgree, [Next]_vars,
                        NEW w \in WorkItems, statusHistory'[w] # statusHistory[w]
                 PROVE  LET c == LastOf(statusHistory'[w])
                            offer == LastOf(assignmentHistory[w]) IN
                        /\ c.role # "requester"
                        /\ c.role = "assignee" =>
                            /\ assignmentHistory[w] # <<>>
                            /\ offer.to = c.by /\ offer.action # "declined"
                            /\ c.to \in {"created", "accepted", "in_progress",
                                         "submitted_for_review"}
      OBVIOUS
    <2>1. PICK c : Entered(w, c)
      BY EntriesHaveAuthority
    <2>2. LastOf(statusHistory'[w]) = c /\ c.by \in Users
      <3>1. /\ c \in StatusChange /\ statusHistory[w] \in Seq(StatusChange)
            /\ statusHistory'[w] = Append(statusHistory[w], c)
        BY <2>1 DEF Entered, TypeOK
      <3>2. LastOf(Append(statusHistory[w], c)) = c
        BY <3>1, AppendedIsLast
      <3>3. QED
        BY <3>1, <3>2 DEF StatusChange
    <2>3. c.role # "requester"
      BY <2>1 DEF Entered, ByRole, ByTarget
    <2>4. ASSUME c.role = "assignee"
          PROVE  /\ assignments[w].status \in {"assigned", "accepted"}
                 /\ assignments[w].to = c.by
                 /\ c.to \in {"created", "accepted", "in_progress",
                              "submitted_for_review"}
      <3>1. CASE ByTarget(w, c)
        BY <3>1 DEF ByTarget
      <3>2. CASE ByRole(w, c)
        BY <2>2, <2>4, <3>2, NoUserAssumption DEF ByRole, AssignmentsAgree
      <3>3. QED
        BY <2>1, <3>1, <3>2 DEF Entered
    <2>5. ASSUME assignments[w].status \in {"assigned", "accepted"}
          PROVE  /\ assignmentHistory[w] # <<>>
                 /\ LastOf(assignmentHistory[w]).to = assignments[w].to
                 /\ LastOf(assignmentHistory[w]).action # "declined"
      BY <2>5 DEF AssignmentsAgree, NoAssignment
    <2>6. QED
      BY <2>2, <2>3, <2>4, <2>5
  <1>2. QED
    BY <1>1, TypeCorrect, AssignmentsAlwaysAgree, PTL
    DEF Spec, AssigneesActOnTheirOffer

\* What a row keeps in a step that finds it: its creator, and, unless it is
\* edited, its content.
LEMMA RowsKeepCreatorAndContent ==
    ASSUME TypeOK, [Next]_vars, NEW v \in WorkItems, Exists(items[v])
    PROVE  /\ items'[v].createdBy = items[v].createdBy
           /\ \/ items'[v].content = items[v].content
              \/ \E p \in Principals, content \in Contents : Update(v, p, content)
  <1> USE DEF TypeOK, WorkItem
  <1>1. ASSUME NEW w \in WorkItems, NEW p \in Principals, WorkItemStep(w, p)
        PROVE  /\ items'[v].createdBy = items[v].createdBy
               /\ \/ items'[v].content = items[v].content
                  \/ \E content \in Contents : Update(v, p, content)
    <2>1. ASSUME NEW content \in Contents, Create(w, p, content)
          PROVE  items'[v] = items[v]
      BY <2>1 DEF Create
    <2>2. ASSUME NEW content \in Contents, Update(w, p, content)
          PROVE  /\ items'[v].createdBy = items[v].createdBy
                 /\ v = w \/ items'[v].content = items[v].content
      BY <2>2 DEF Update
    <2>3. ASSUME NEW to \in Status, NEW reason, MoveTo(w, p, to, reason)
          PROVE  /\ items'[v].createdBy = items[v].createdBy
                 /\ items'[v].content = items[v].content
      BY <2>3 DEF MoveTo
    <2>4. ASSUME NEW target \in Users, AssignWorkItem(w, p, target)
          PROVE  /\ items'[v].createdBy = items[v].createdBy
                 /\ items'[v].content = items[v].content
      BY <2>4 DEF AssignWorkItem
    <2>5. ASSUME NEW reason, Accept(w, p, reason) \/ Decline(w, p, reason)
          PROVE  /\ items'[v].createdBy = items[v].createdBy
                 /\ items'[v].content = items[v].content
      <3>1. items[v] \in WorkItem /\ items[w] \in WorkItem
        BY <2>5 DEF Accept, Decline, Respond
      <3>2. CASE v # w
        BY <2>5, <3>2 DEF Accept, Decline
      <3>3. CASE v = w /\ Accept(w, p, reason)
        BY <3>1, <3>3 DEF Accept
      <3>4. CASE v = w /\ Decline(w, p, reason)
        BY <3>1, <3>4 DEF Decline
      <3>5. QED
        BY <2>5, <3>2, <3>3, <3>4
    <2>6. ASSUME Upload(w, p) PROVE items'[v] = items[v]
      BY <2>6 DEF Upload
    <2>7. QED
      BY <1>1, <2>1, <2>2, <2>3, <2>4, <2>5, <2>6
      DEF WorkItemStep, ChangeStatus, Verify, Flag, Status
  <1>2. CASE TeamStep \/ UNCHANGED vars
    BY <1>2 DEF TeamStep, vars, itemVars
  <1>3. QED
    BY <1>1, <1>2 DEF Next

\* OthersItemsAreNotAdopted is about the first entry of the history. It is made
\* while the history is empty; nobody holds the item then, so that a supervisor
\* acts on it by having created it.
AdoptionInv ==
    /\ OthersItemsAreNotAdopted
    /\ \A w \in WorkItems : statusHistory[w] = <<>> => items[w].assignedTo = NoUser

\* The first supervisor's move is that of the item's creator.
THEOREM OthersItemsAreNeverAdopted == Spec => []OthersItemsAreNotAdopted
  <1>1. Init => AdoptionInv
    BY DEF Init, AdoptionInv, OthersItemsAreNotAdopted, NoItem
  <1>2. TypeOK /\ HistoryIsPath /\ AdoptionInv /\ [Next]_vars => AdoptionInv'
    <2> SUFFICES ASSUME TypeOK, HistoryIsPath, AdoptionInv, [Next]_vars,
                        NEW w \in WorkItems
                 PROVE  /\ \/ statusHistory'[w] = <<>>
                           \/ statusHistory'[w][1].role # "supervisor"
                           \/ statusHistory'[w][1].by = items'[w].createdBy
                        /\ statusHistory'[w] = <<>> => items'[w].assignedTo = NoUser
      BY DEF AdoptionInv, OthersItemsAreNotAdopted
    <2> DEFINE h == statusHistory[w]
    <2>1. CASE statusHistory'[w] = h
      <3>1. Exists(items[w]) => items'[w].createdBy = items[w].createdBy
        BY RowsKeepCreatorAndContent
      <3>2. ~Exists(items[w]) => h = <<>>
        <4> SUFFICES ASSUME items[w] = NoItem, h # <<>> PROVE FALSE
          OBVIOUS
        <4>1. LastOf(h) \in StatusChange /\ LastOf(h).to = "absent"
          BY DEF HistoryIsPath, NoItem, TypeOK, LastOf
        <4>2. QED
          BY <4>1 DEF StatusChange, Status
      <3>3. h = <<>> => items'[w].assignedTo = NoUser
        <4>1. Quiet(w) \/ Created(w) \/ \E to : Recorded(w, to)
          BY StepOutcomes DEF Outcome, Moved, Offered, Accepted, Declined
        <4>2. ASSUME NEW to, Recorded(w, to) PROVE statusHistory'[w] # <<>>
          <5>1. PICK c \in StatusChange : statusHistory'[w] = Append(h, c)
            BY <4>2 DEF Recorded
          <5>2. h \in Seq(StatusChange)
            BY DEF TypeOK
          <5>3. QED
            BY <5>1, <5>2
        <4>3. QED
          BY <2>1, <4>1, <4>2 DEF Quiet, Created, AdoptionInv
      <3>4. QED
        BY <2>1, <3>1, <3>2, <3>3 DEF AdoptionInv, OthersItemsAreNotAdopted
    <2>2. CASE statusHistory'[w] # h
      <3>1. PICK c : Entered(w, c)
        BY <2>2, EntriesHaveAuthority
      <3>2. h \in Seq(StatusChange) /\ c \in StatusChange /\ c.from \in Status
        BY <3>1 DEF TypeOK, Entered, StatusChange
      <3>3. /\ statusHistory'[w] = Append(h, c) /\ statusHistory'[w] # <<>>
            /\ \A k \in 1..Len(h) : statusHistory'[w][k] = h[k]
            /\ statusHistory'[w][Len(h)+1] = c
            /\ Len(h) \in Nat
        BY <3>1, <3>2, AppendedIsLast DEF Entered
      <3>4. Exists(items[w])
        BY <3>1, <3>2 DEF Entered, NoItem, Status
      <3>5. items'[w].createdBy = items[w].createdBy
        BY <3>4, RowsKeepCreatorAndContent
      <3>6. CASE h = <<>>
        <4>1. statusHistory'[w][1] = c
          BY <3>3, <3>6
        <4>2. c.from = "created" /\ items[w].assignedTo = NoUser
          BY <3>1, <3>2, <3>6 DEF Entered, HistoryIsPath, AdoptionInv, Status
        <4>3. ~ByTarget(w, c)
          BY <3>1, <4>2
          DEF Entered, ByTarget, IsValidTransition, ValidStatusTransitions
        <4>4. c.role = "supervisor" => c.by = items[w].createdBy
          BY <3>1, <4>2, <4>3 DEF Entered, ByRole, SupervisorMayActOn
        <4>5. QED
          BY <3>3, <3>5, <4>1, <4>4
      <3>7. CASE h # <<>>
        <4>1. Len(h) >= 1
          BY <3>2, <3>3, <3>7
        <4>2. statusHistory'[w][1] = h[1]
          BY <3>3, <4>1
        <4>3. QED
          BY <3>3, <3>5, <3>7, <4>2 DEF AdoptionInv, OthersItemsAreNotAdopted
      <3>8. QED
        BY <3>6, <3>7
    <2>3. QED
      BY <2>1, <2>2
  <1>3. QED
    BY <1>1, <1>2, TypeCorrect, HistoryIsAlwaysPath, PTL DEF Spec, AdoptionInv

\* FlaggedWorkIsReworked looks at two entries with others between them. What
\* carries it from the first to the second is the status in the row: work that
\* is under way or in review again since a flag has the entries that took it
\* there behind that flag.
ReworkInv ==
    \A w \in WorkItems :
        LET h == statusHistory[w] IN
        \A i \in DOMAIN h : h[i].to = "flagged" =>
            /\ h[i].reason
            /\ items[w].status \in {"in_progress", "submitted_for_review"} =>
                    \E k \in i+1..Len(h) : h[k].to = "in_progress"
            /\ items[w].status = "submitted_for_review" =>
                    \E k \in i+1..Len(h) : h[k].to = "submitted_for_review"

LEMMA WaysIntoReview ==
    ASSUME NEW from \in Status, NEW to, IsValidTransition(from, to)
    PROVE  /\ to = "submitted_for_review" => from = "in_progress"
           /\ to = "verified" => from = "submitted_for_review"
  BY DEF IsValidTransition, ValidStatusTransitions, Status

\* Flagged work is taken up and submitted again before it is verified.
THEOREM FlaggedWorkIsAlwaysReworked == Spec => []FlaggedWorkIsReworked
  <1>1. Init => ReworkInv /\ FlaggedWorkIsReworked
    BY DEF Init, ReworkInv, FlaggedWorkIsReworked
  <1>2. TypeOK /\ ReworkInv /\ FlaggedWorkIsReworked /\ [Next]_vars =>
            ReworkInv' /\ FlaggedWorkIsReworked'
    <2> SUFFICES ASSUME TypeOK, ReworkInv, FlaggedWorkIsReworked, [Next]_vars,
                        NEW w \in WorkItems
                 PROVE  LET g == statusHistory'[w] IN
                        /\ \A i \in DOMAIN g : g[i].to = "flagged" =>
                            /\ g[i].reason
                            /\ items'[w].status \in {"in_progress", "submitted_for_review"} =>
                                    \E k \in i+1..Len(g) : g[k].to = "in_progress"
                            /\ items'[w].status = "submitted_for_review" =>
                                    \E k \in i+1..Len(g) : g[k].to = "submitted_for_review"
                        /\ \A i, j \in DOMAIN g :
                            i < j /\ g[i].to = "flagged" /\ g[j].to = "verified" =>
                                /\ g[i].reason
                                /\ \E k \in i+1..j-1 : g[k].to = "in_progress"
                                /\ \E k \in i+1..j-1 : g[k].to = "submitted_for_review"
      BY DEF ReworkInv, FlaggedWorkIsReworked
    <2> DEFINE h == statusHistory[w]
               g == statusHistory'[w]
    <2>1. CASE g = h
      <3>1. Quiet(w) \/ Created(w) \/ \E to : Recorded(w, to)
        BY StepOutcomes DEF Outcome, Moved, Offered, Accepted, Declined
      <3>2. ASSUME NEW to, Recorded(w, to) PROVE g # h
        <4>1. PICK c \in StatusChange : g = Append(h, c)
          BY <3>2 DEF Recorded
        <4>2. h \in Seq(StatusChange)
          BY DEF TypeOK
        <4>3. QED
          BY <4>1, <4>2
      <3>3. items'[w].status = items[w].status \/ items'[w].status = "created"
        BY <2>1, <3>1, <3>2 DEF Quiet, Created
      <3>4. QED
        BY <2>1, <3>3 DEF ReworkInv, FlaggedWorkIsReworked
    <2>2. CASE g # h
      <3>1. PICK c : Entered(w, c)
        BY <2>2, EntriesHaveAuthority
      <3>2. /\ h \in Seq(StatusChange) /\ c \in StatusChange
            /\ c.from \in Status /\ g = Append(h, c)
            /\ c.from = items[w].status /\ items'[w].status = c.to
            /\ IsValidTransition(c.from, c.to)
            /\ c.to = "flagged" => c.reason
        BY <3>1 DEF TypeOK, Entered, StatusChange
      <3>3. /\ DOMAIN g = 1..Len(h)+1 /\ DOMAIN h = 1..Len(h) /\ Len(h) \in Nat
            /\ Len(g) = Len(h) + 1
            /\ \A k \in 1..Len(h) : g[k] = h[k]
            /\ g[Len(h)+1] = c
        BY <3>2, AppendedIsLast
      <3>4. \A i \in 1..Len(h) : h[i].to = "flagged" =>
                /\ h[i].reason
                /\ c.from \in {"in_progress", "submitted_for_review"} =>
                        \E k \in i+1..Len(h) : h[k].to = "in_progress"
                /\ c.from = "submitted_for_review" =>
                        \E k \in i+1..Len(h) : h[k].to = "submitted_for_review"
        BY <3>2, <3>3 DEF ReworkInv
      <3>5. \A i, j \in 1..Len(h) :
                i < j /\ h[i].to = "flagged" /\ h[j].to = "verified" =>
                    /\ h[i].reason
                    /\ \E k \in i+1..j-1 : h[k].to = "in_progress"
                    /\ \E k \in i+1..j-1 : h[k].to = "submitted_for_review"
        BY <3>3 DEF FlaggedWorkIsReworked
      <3>6. /\ c.to = "submitted_for_review" => c.from = "in_progress"
            /\ c.to = "verified" => c.from = "submitted_for_review"
        BY <3>2, WaysIntoReview
      <3> HIDE DEF g, h
      <3>7. ASSUME NEW i \in DOMAIN g, g[i].to = "flagged"
            PROVE  /\ g[i].reason
                   /\ c.to \in {"in_progress", "submitted_for_review"} =>
                           \E k \in i+1..Len(g) : g[k].to = "in_progress"
                   /\ c.to = "submitted_for_review" =>
                           \E k \in i+1..Len(g) : g[k].to = "submitted_for_review"
        <4>1. CASE i = Len(h) + 1
          BY <3>2, <3>3, <3>7, <4>1
        <4>2. CASE i \in 1..Len(h)
          <5>1. g[i] = h[i] /\ Len(h) + 1 \in i+1..Len(g)
            BY <3>3, <4>2
          <5>2. c.to = "submitted_for_review" =>
                    \E k \in i+1..Len(g) : g[k].to = "in_progress"
            <6> SUFFICES ASSUME c.to = "submitted_for_review"
                         PROVE  \E k \in i+1..Len(g) : g[k].to = "in_progress"
              OBVIOUS
            <6>1. PICK k \in i+1..Len(h) : h[k].to = "in_progress"
              BY <3>4, <3>6, <3>7, <4>2, <5>1
            <6>2. k \in i+1..Len(g) /\ g[k] = h[k]
              BY <3>3, <4>2
            <6>3. QED
              BY <6>1, <6>2
          <5>3. QED
            BY <3>3, <3>4, <3>7, <4>2, <5>1, <5>2
        <4>3. QED
          BY <3>3, <4>1, <4>2
      <3>8. ASSUME NEW i \in DOMAIN g, NEW j \in DOMAIN g,
                   i < j, g[i].to = "flagged", g[j].to = "verified"
            PROVE  /\ \E k \in i+1..j-1 : g[k].to = "in_progress"
                   /\ \E k \in i+1..j-1 : g[k].to = "submitted_for_review"
        <4>1. i \in 1..Len(h) /\ g[i] = h[i]
          BY <3>3, <3>8
        <4>2. \A k \in i+1..j-1 : g[k] = h[k]
          BY <3>3, <4>1
        <4>3. CASE j \in 1..Len(h)
          BY <3>3, <3>5, <3>8, <4>1, <4>2, <4>3
        <4>4. CASE j = Len(h) + 1
          <5>1. c.from = "submitted_for_review" /\ j - 1 = Len(h)
            BY <3>3, <3>6, <3>8, <4>4
          <5>2. QED
            BY <3>4, <3>8, <4>1, <4>2, <5>1
        <4>5. QED
          BY <3>3, <4>3, <4>4
      <3>9. QED
        BY <3>2, <3>7, <3>8 DEF g
    <2>3. QED
      BY <2>1, <2>2
  <1>3. QED
    BY <1>1, <1>2, TypeCorrect, PTL DEF Spec

-----------------------------------------------------------------------------
(* Counting. What one more entry adds to the number of entries with some   *)
(* property, for each property that NewsReachesTheRightPerson counts by.   *)

EqualTo(s, x) == {k \in DOMAIN s : s[k] = x}
MovesTo(h, x) == {k \in DOMAIN h : h[k].to = x}
OffersTo(h, u) == {k \in DOMAIN h : h[k].action = "assigned" /\ h[k].to = u}
TakenFrom(h, u) == {k \in DOMAIN h : h[k].action = "accepted" /\ h[k-1].by = u}

LEMMA IndexCounts ==
    ASSUME NEW n \in Nat, NEW K \in SUBSET (1..n)
    PROVE  /\ Cardinality(K) \in Nat
           /\ Cardinality(K \cup {n + 1}) = Cardinality(K) + 1
  <1>1. IsFiniteSet(1..n)
    BY FS_Interval
  <1>2. IsFiniteSet(K)
    BY <1>1, FS_Subset
  <1>3. n + 1 \notin K
    OBVIOUS
  <1>4. QED
    BY <1>2, <1>3, FS_AddElement, FS_CardinalityType

\* Entries equal to x, of a sequence to which m is added.
LEMMA EqualEntriesCount ==
    ASSUME NEW S, NEW s \in Seq(S), NEW m \in S, NEW x
    PROVE  LET before == Cardinality(EqualTo(s, x)) IN
           /\ before \in Nat
           /\ Cardinality(EqualTo(s \o <<m>>, x)) =
                IF m = x THEN before + 1 ELSE before
  <1> DEFINE t == s \o <<m>>
             K == {k \in DOMAIN s : s[k] = x}
             L == {k \in DOMAIN t : t[k] = x}
  <1>1. /\ Len(s) \in Nat /\ DOMAIN s = 1..Len(s) /\ DOMAIN t = 1..Len(s)+1
        /\ \A k \in 1..Len(s) : t[k] = s[k]
        /\ t[Len(s)+1] = m
    OBVIOUS
  <1>2. K \in SUBSET (1..Len(s))
    BY <1>1
  <1>3. L = IF m = x THEN K \cup {Len(s) + 1} ELSE K
    BY <1>1
  <1>4. QED
    BY <1>1, <1>2, <1>3, IndexCounts DEF EqualTo

\* Status changes to x, of a history to which the change c is added.
LEMMA MovesToCount ==
    ASSUME NEW S, NEW h \in Seq(S), NEW c \in S, NEW x
    PROVE  LET before == Cardinality(MovesTo(h, x)) IN
           /\ before \in Nat
           /\ Cardinality(MovesTo(Append(h, c), x)) =
                IF c.to = x THEN before + 1 ELSE before
  <1> DEFINE g == Append(h, c)
             K == {k \in DOMAIN h : h[k].to = x}
             L == {k \in DOMAIN g : g[k].to = x}
  <1>1. /\ Len(h) \in Nat /\ DOMAIN h = 1..Len(h) /\ DOMAIN g = 1..Len(h)+1
        /\ \A k \in 1..Len(h) : g[k] = h[k]
        /\ g[Len(h)+1] = c
    OBVIOUS
  <1>2. K \in SUBSET (1..Len(h))
    BY <1>1
  <1>3. L = IF c.to = x THEN K \cup {Len(h) + 1} ELSE K
    BY <1>1
  <1>4. QED
    BY <1>1, <1>2, <1>3, IndexCounts DEF MovesTo

\* Offers to u, of an assignment history to which the event e is added.
LEMMA OffersCount ==
    ASSUME NEW S, NEW h \in Seq(S), NEW e \in S, NEW u
    PROVE  LET before == Cardinality(OffersTo(h, u)) IN
           /\ before \in Nat
           /\ Cardinality(OffersTo(Append(h, e), u)) =
                IF e.action = "assigned" /\ e.to = u THEN before + 1 ELSE before
  <1> DEFINE g == Append(h, e)
             K == {k \in DOMAIN h : h[k].action = "assigned" /\ h[k].to = u}
             L == {k \in DOMAIN g : g[k].action = "assigned" /\ g[k].to = u}
  <1>1. /\ Len(h) \in Nat /\ DOMAIN h = 1..Len(h) /\ DOMAIN g = 1..Len(h)+1
        /\ \A k \in 1..Len(h) : g[k] = h[k]
        /\ g[Len(h)+1] = e
    OBVIOUS
  <1>2. K \in SUBSET (1..Len(h))
    BY <1>1
  <1>3. L = IF e.action = "assigned" /\ e.to = u THEN K \cup {Len(h) + 1} ELSE K
    BY <1>1
  <1>4. QED
    BY <1>1, <1>2, <1>3, IndexCounts DEF OffersTo

\* Acceptances of offers made by u, in a history where an acceptance is never
\* first, and to which the event e is added.
LEMMA AcceptancesCount ==
    ASSUME NEW S, NEW h \in Seq(S), NEW e \in S, NEW u,
           \A k \in DOMAIN h : h[k].action = "accepted" => k > 1,
           h = <<>> => e.action # "accepted"
    PROVE  LET before == Cardinality(TakenFrom(h, u)) IN
           /\ before \in Nat
           /\ Cardinality(TakenFrom(Append(h, e), u)) =
                IF e.action = "accepted" /\ LastOf(h).by = u
                THEN before + 1 ELSE before
  <1> DEFINE g == Append(h, e)
             K == {k \in DOMAIN h : h[k].action = "accepted" /\ h[k-1].by = u}
             L == {k \in DOMAIN g : g[k].action = "accepted" /\ g[k-1].by = u}
  <1>1. /\ Len(h) \in Nat /\ DOMAIN h = 1..Len(h) /\ DOMAIN g = 1..Len(h)+1
        /\ \A k \in 1..Len(h) : g[k] = h[k]
        /\ g[Len(h)+1] = e
        /\ h = <<>> <=> Len(h) = 0
    OBVIOUS
  <1>2. K \in SUBSET (1..Len(h))
    BY <1>1
  <1> HIDE DEF g
  <1>3. \A k \in 1..Len(h) : h[k].action = "accepted" => g[k-1] = h[k-1]
    BY <1>1
  <1>4. e.action = "accepted" => g[(Len(h)+1) - 1] = LastOf(h)
    BY <1>1 DEF LastOf
  <1>5. L = IF e.action = "accepted" /\ LastOf(h).by = u
            THEN K \cup {Len(h) + 1} ELSE K
    <2>1. \A k \in 1..Len(h) : k \in L <=> k \in K
      BY <1>1, <1>3
    <2>2. Len(h) + 1 \in L <=> e.action = "accepted" /\ LastOf(h).by = u
      BY <1>1, <1>4
    <2>3. L \subseteq 1..Len(h)+1 /\ 1..Len(h)+1 = (1..Len(h)) \cup {Len(h)+1}
      BY <1>1
    <2>4. Len(h) + 1 \notin K
      BY <1>1
    <2> HIDE DEF L, K
    <2>5. \A k \in L : k \in 1..Len(h) \/ k = Len(h) + 1
      BY <2>3
    <2>6. CASE e.action = "accepted" /\ LastOf(h).by = u
      <3>1. \A k : k \in L <=> k \in K \cup {Len(h) + 1}
        BY <1>2, <2>1, <2>2, <2>5, <2>6
      <3>2. QED
        BY <2>6, <3>1
    <2>7. CASE ~(e.action = "accepted" /\ LastOf(h).by = u)
      <3>1. \A k : k \in L <=> k \in K
        BY <1>2, <2>1, <2>2, <2>5, <2>7
      <3>2. QED
        BY <2>7, <3>1
    <2>8. QED
      BY <2>6, <2>7
  <1>6. QED
    BY <1>1, <1>2, <1>5, IndexCounts DEF g, TakenFrom

\* NewsReachesTheRightPerson compares numbers with the holder of the item now.
\* It needs that the holder does not change once a verdict was passed, and that
\* an acceptance is announced to whoever made the offer recorded last.
NewsInv ==
    \A w \in WorkItems :
        /\ (\E k \in DOMAIN statusHistory[w] :
                statusHistory[w][k].to \in DOMAIN VerdictKind) =>
             items[w].status \notin {"absent", "created", "assigned"}
        /\ assignments[w].status = "assigned" =>
             LastOf(assignmentHistory[w]).by = assignments[w].by

NewsOf(w, u) ==
    LET h == assignmentHistory[w] IN
    /\ CountKind(w, u, "evidence_submitted") =
         IF items[w].createdBy = u
         THEN CountMoves(w, "submitted_for_review") ELSE 0
    /\ \A s \in DOMAIN VerdictKind :
         CountKind(w, u, VerdictKind[s]) =
            IF items[w].assignedTo = u THEN CountMoves(w, s) ELSE 0
    /\ CountKind(w, u, "assignment_created") = Cardinality(OffersTo(h, u))
    /\ CountKind(w, u, "assignment_accepted") = Cardinality(TakenFrom(h, u))

LEMMA KindsOfNews ==
    /\ {"evidence_submitted", "assignment_created", "assignment_accepted"}
            \subseteq NotificationKind
    /\ {"assigned", "accepted", "declined"} = AssignmentStatus
  BY DEF NotificationKind, AssignmentStatus

LEMMA VerdictsAreStatuses ==
    /\ DOMAIN VerdictKind = {"flagged", "verified", "completed"}
    /\ VerdictKind["flagged"] = "work_flagged"
    /\ VerdictKind["verified"] = "work_verified"
    /\ VerdictKind["completed"] = "work_completed"
  BY DEF VerdictKind

LEMMA VerdictsComeLate ==
    ASSUME NEW from \in Status, NEW to, IsValidTransition(from, to),
           to \in DOMAIN VerdictKind
    PROVE  /\ from \notin {"created", "assigned"}
           /\ to \notin {"absent", "created", "assigned"}
  BY DEF IsValidTransition, ValidStatusTransitions, Status, VerdictKind

\* No verdict is on record before an item is accepted.
LEMMA NoVerdictYet ==
    ASSUME TypeOK, NewsInv, NEW w \in WorkItems, NEW s \in DOMAIN VerdictKind,
           items[w].status \in {"absent", "created", "assigned"}
    PROVE  CountMoves(w, s) = 0
  <1>1. {k \in DOMAIN statusHistory[w] : statusHistory[w][k].to = s} = {}
    BY DEF NewsInv
  <1>2. QED
    BY <1>1, FS_EmptySet DEF CountMoves

\* What a step with one more status change adds to the counts of moves.
LEMMA MovesCounted ==
    ASSUME TypeOK, NEW w \in WorkItems, NEW to, Recorded(w, to), NEW x
    PROVE  /\ CountMoves(w, x) \in Nat
           /\ CountMoves(w, x)' =
                IF to = x THEN CountMoves(w, x) + 1 ELSE CountMoves(w, x)
  <1>1. PICK c \in StatusChange :
            c.to = to /\ statusHistory'[w] = Append(statusHistory[w], c)
    BY DEF Recorded
  <1>2. statusHistory[w] \in Seq(StatusChange)
    BY DEF TypeOK
  <1>3. LET before == Cardinality(MovesTo(statusHistory[w], x)) IN
        /\ before \in Nat
        /\ Cardinality(MovesTo(Append(statusHistory[w], c), x)) =
                IF c.to = x THEN before + 1 ELSE before
    BY <1>2, MovesToCount
  <1>4. /\ CountMoves(w, x) = Cardinality(MovesTo(statusHistory[w], x))
        /\ CountMoves(w, x)' = Cardinality(MovesTo(statusHistory'[w], x))
    BY DEF CountMoves, MovesTo
  <1>5. QED
    BY <1>1, <1>3, <1>4

\* What a notification adds to the counts of notifications.
LEMMA NewsCounted ==
    ASSUME TypeOK, NEW w \in WorkItems, NEW r \in Users, NEW kind \in NotificationKind,
           notifications'[w] = notifications[w] \o <<[recipient |-> r, kind |-> kind]>>,
           NEW u, NEW x
    PROVE  /\ CountKind(w, u, x) \in Nat
           /\ CountKind(w, u, x)' =
                IF r = u /\ kind = x THEN CountKind(w, u, x) + 1 ELSE CountKind(w, u, x)
  <1> DEFINE m == [recipient |-> r, kind |-> kind]
             y == [recipient |-> u, kind |-> x]
  <1>1. m \in Notification /\ notifications[w] \in Seq(Notification)
    BY DEF Notification, TypeOK
  <1>2. m = y <=> r = u /\ kind = x
    <2>1. m.recipient = r /\ m.kind = kind /\ y.recipient = u /\ y.kind = x
      OBVIOUS
    <2>2. QED
      BY <2>1
  <1> HIDE DEF m, y
  <1>3. LET before == Cardinality(EqualTo(notifications[w], y)) IN
        /\ before \in Nat
        /\ Cardinality(EqualTo(notifications[w] \o <<m>>, y)) =
                IF m = y THEN before + 1 ELSE before
    BY <1>1, EqualEntriesCount
  <1>4. /\ CountKind(w, u, x) = Cardinality(EqualTo(notifications[w], y))
        /\ CountKind(w, u, x)' = Cardinality(EqualTo(notifications'[w], y))
        /\ notifications'[w] = notifications[w] \o <<m>>
    BY DEF CountKind, EqualTo, m, y
  <1>5. QED
    BY <1>2, <1>3, <1>4

\* What an assignment event adds to the counts of offers and acceptances.
LEMMA EventsCounted ==
    ASSUME TypeOK, AssignmentsAgree, NEW w \in WorkItems, NEW action \in AssignmentStatus,
           NEW by, NEW to, Logged(w, action, by, to),
           action # "assigned" => assignments[w] # NoAssignment,
           NEW u
    PROVE  LET h == assignmentHistory[w]
               g == assignmentHistory'[w] IN
           /\ Cardinality(OffersTo(h, u)) \in Nat /\ Cardinality(TakenFrom(h, u)) \in Nat
           /\ Cardinality(OffersTo(g, u)) =
                IF action = "assigned" /\ to = u
                THEN Cardinality(OffersTo(h, u)) + 1 ELSE Cardinality(OffersTo(h, u))
           /\ Cardinality(TakenFrom(g, u)) =
                IF action = "accepted" /\ LastOf(h).by = u
                THEN Cardinality(TakenFrom(h, u)) + 1 ELSE Cardinality(TakenFrom(h, u))
  <1> DEFINE h == assignmentHistory[w]
             e == [action |-> action, by |-> by, to |-> to]
  <1>1. /\ assignmentHistory'[w] = Append(h, e) /\ e \in AssignmentEvent
        /\ h \in Seq(AssignmentEvent)
    BY DEF Logged, TypeOK, AssignmentEvent
  <1>2. /\ \A k \in DOMAIN h : h[k].action = "accepted" => k > 1
        /\ h = <<>> => e.action # "accepted"
    BY DEF AssignmentsAgree
  <1>3. e.action = action /\ e.to = to
    OBVIOUS
  <1> HIDE DEF e, h
  <1>4. QED
    BY <1>1, <1>2, <1>3, OffersCount, AcceptancesCount DEF h

\* Every event is announced exactly once, to the right person.
THEOREM NewsAlwaysReachesTheRightPerson == Spec => []NewsReachesTheRightPerson
  <1>1. Init => NewsInv /\ NewsReachesTheRightPerson
    <2> SUFFICES ASSUME Init, NEW w \in WorkItems
                 PROVE  /\ DOMAIN statusHistory[w] = {} /\ DOMAIN assignmentHistory[w] = {}
                        /\ DOMAIN notifications[w] = {}
                        /\ assignments[w].status # "assigned"
      BY FS_EmptySet
      DEF NewsInv, NewsReachesTheRightPerson, CountKind, CountMoves
    <2>1. QED
      BY DEF Init, NoAssignment
  <1>2. TypeOK /\ HistoryIsPath /\ AssignmentsAgree /\ NewsInv
            /\ NewsReachesTheRightPerson /\ [Next]_vars =>
          NewsInv' /\ NewsReachesTheRightPerson'
    <2> SUFFICES ASSUME TypeOK, HistoryIsPath, AssignmentsAgree, NewsInv,
                        NewsReachesTheRightPerson, [Next]_vars, NEW w \in WorkItems
                 PROVE  /\ (\E k \in DOMAIN statusHistory'[w] :
                                statusHistory'[w][k].to \in DOMAIN VerdictKind) =>
                             items'[w].status \notin {"absent", "created", "assigned"}
                        /\ assignments'[w].status = "assigned" =>
                             LastOf(assignmentHistory'[w]).by = assignments'[w].by
                        /\ \A u \in Users : NewsOf(w, u)'
      BY DEF NewsInv, NewsReachesTheRightPerson, NewsOf, OffersTo, TakenFrom
    <2>1. Outcome(w)
      BY StepOutcomes
    <2>2. \A u \in Users : NewsOf(w, u)
      BY DEF NewsReachesTheRightPerson, NewsOf, OffersTo, TakenFrom
    <2>3. CASE Quiet(w)
      <3>1. items'[w].createdBy = items[w].createdBy
        <4>1. CASE Exists(items[w])
          BY <4>1, RowsKeepCreatorAndContent
        <4>2. CASE items[w] = NoItem
          <5>1. items'[w] \in WorkItem \cup {NoItem}
            BY TypeCorrectStep DEF TypeOK
          <5>2. items'[w].status = "absent"
            BY <2>3, <4>2 DEF Quiet, NoItem
          <5>3. items'[w] = NoItem
            BY <5>1, <5>2 DEF WorkItem, Status
          <5>4. QED
            BY <4>2, <5>3
        <4>3. QED
          BY <4>1, <4>2
      <3>2. \A u \in Users : NewsOf(w, u)'
        <4>1. /\ \A x : CountMoves(w, x)' = CountMoves(w, x)
              /\ \A u, x : CountKind(w, u, x)' = CountKind(w, u, x)
          BY <2>3 DEF Quiet, CountMoves, CountKind
        <4>2. QED
          BY <2>2, <2>3, <3>1, <4>1 DEF Quiet, NewsOf
      <3>3. QED
        BY <2>3, <3>2 DEF Quiet, NewsInv
    <2>4. CASE Created(w)
      <3>1. statusHistory[w] = <<>>
        <4> SUFFICES ASSUME statusHistory[w] # <<>> PROVE FALSE
          OBVIOUS
        <4>1. /\ LastOf(statusHistory[w]) \in StatusChange
              /\ LastOf(statusHistory[w]).to = "absent"
          BY <2>4 DEF Created, HistoryIsPath, NoItem, TypeOK, LastOf
        <4>2. QED
          BY <4>1 DEF StatusChange, Status
      <3>2. CountMoves(w, "submitted_for_review") = 0
        <4>1. {k \in DOMAIN statusHistory[w] :
                    statusHistory[w][k].to = "submitted_for_review"} = {}
          BY <3>1
        <4>2. QED
          BY <4>1, FS_EmptySet DEF CountMoves
      <3>3. /\ items[w].assignedTo = NoUser /\ items'[w].assignedTo = NoUser
            /\ \A x : CountMoves(w, x)' = CountMoves(w, x)
            /\ \A u, x : CountKind(w, u, x)' = CountKind(w, u, x)
        BY <2>4 DEF Created, NoItem, CountMoves, CountKind
      <3>4. \A u \in Users : NewsOf(w, u)'
        BY <2>2, <2>4, <3>2, <3>3 DEF Created, NewsOf
      <3>5. QED
        BY <2>4, <3>1, <3>4 DEF Created, NewsInv
    <2>5. ASSUME NEW to \in Status, Recorded(w, to)
          PROVE  (\E k \in DOMAIN statusHistory'[w] :
                        statusHistory'[w][k].to \in DOMAIN VerdictKind) =>
                     items'[w].status \notin {"absent", "created", "assigned"}
      <3> SUFFICES ASSUME NEW k \in DOMAIN statusHistory'[w],
                          statusHistory'[w][k].to \in DOMAIN VerdictKind
                   PROVE  to \notin {"absent", "created", "assigned"}
        BY <2>5 DEF Recorded
      <3>1. PICK c \in StatusChange :
                c.to = to /\ statusHistory'[w] = Append(statusHistory[w], c)
        BY <2>5 DEF Recorded
      <3>2. items[w].status \in Status /\ IsValidTransition(items[w].status, to)
        BY <2>5 DEF Recorded
      <3>3. CASE k \in DOMAIN statusHistory[w] /\ statusHistory'[w][k] = statusHistory[w][k]
        <4>1. items[w].status \in Status \ {"created", "assigned"}
          BY <3>2, <3>3 DEF NewsInv
        <4>2. QED
          BY <3>2, <4>1, NoWayBackToAssignment DEF Status
      <3>4. CASE statusHistory'[w][k] = c
        BY <3>1, <3>2, <3>4, VerdictsComeLate
      <3>5. QED
        <4>1. statusHistory[w] \in Seq(StatusChange)
          BY DEF TypeOK
        <4>2. QED
          BY <3>1, <3>3, <3>4, <4>1
    <2>6. CASE Moved(w)
      <3>1. PICK to \in Status :
                /\ Recorded(w, to)
                /\ items'[w].assignedTo = items[w].assignedTo
                /\ assignments'[w] = assignments[w]
                /\ assignmentHistory'[w] = assignmentHistory[w]
                /\ notifications'[w] =
                        notifications[w] \o NotificationForStatusChange(items'[w])
        BY <2>6 DEF Moved
      <3>2. /\ items[w] \in WorkItem /\ items'[w].status = to
            /\ items'[w].createdBy = items[w].createdBy
            /\ items[w].createdBy \in Users
            /\ items[w].assignedTo \in Users \cup {NoUser}
        <4>1. items[w] \in WorkItem /\ items'[w].status = to
          BY <3>1 DEF Recorded, TypeOK, NoItem, Status
        <4>2. Exists(items[w])
          BY <4>1 DEF WorkItem, NoItem, Status
        <4>3. QED
          BY <4>1, <4>2, RowsKeepCreatorAndContent DEF WorkItem
      <3>3. \A x : /\ CountMoves(w, x) \in Nat
                   /\ CountMoves(w, x)' =
                        IF to = x THEN CountMoves(w, x) + 1 ELSE CountMoves(w, x)
        BY <3>1, MovesCounted
      <3>4. CASE to = "submitted_for_review"
        <4>1. notifications'[w] = notifications[w] \o
                <<[recipient |-> items[w].createdBy, kind |-> "evidence_submitted"]>>
          BY <3>1, <3>2, <3>4 DEF NotificationForStatusChange
        <4>2. \A u \in Users : \A x :
                /\ CountKind(w, u, x) \in Nat
                /\ CountKind(w, u, x)' =
                        IF items[w].createdBy = u /\ "evidence_submitted" = x
                        THEN CountKind(w, u, x) + 1 ELSE CountKind(w, u, x)
          BY <3>2, <4>1, NewsCounted, KindsOfNews
        <4>3. \A u \in Users : NewsOf(w, u)'
          BY <2>2, <3>1, <3>2, <3>3, <3>4, <4>2, VerdictsAreStatuses DEF NewsOf
        <4>4. QED
          BY <2>5, <3>1, <4>3 DEF NewsInv
      <3>5. CASE to \in DOMAIN VerdictKind /\ items[w].assignedTo # NoUser
        <4>1. notifications'[w] = notifications[w] \o
                <<[recipient |-> items[w].assignedTo, kind |-> VerdictKind[to]]>>
          BY <3>1, <3>2, <3>5, VerdictsAreStatuses DEF NotificationForStatusChange
        <4>2. VerdictKind[to] \in NotificationKind
          BY <3>5, VerdictsAreStatuses DEF NotificationKind
        <4>3. \A u \in Users : \A x :
                /\ CountKind(w, u, x) \in Nat
                /\ CountKind(w, u, x)' =
                        IF items[w].assignedTo = u /\ VerdictKind[to] = x
                        THEN CountKind(w, u, x) + 1 ELSE CountKind(w, u, x)
          BY <3>2, <3>5, <4>1, <4>2, NewsCounted
        <4>4. \A u \in Users : NewsOf(w, u)'
          BY <2>2, <3>1, <3>2, <3>3, <3>5, <4>3, VerdictsAreStatuses DEF NewsOf
        <4>5. QED
          BY <2>5, <3>1, <4>4 DEF NewsInv
      <3>6. CASE /\ to # "submitted_for_review"
                 /\ to \in DOMAIN VerdictKind => items[w].assignedTo = NoUser
        <4>1. notifications'[w] = notifications[w]
          <5>1. NotificationForStatusChange(items'[w]) = <<>>
            BY <3>1, <3>2, <3>6 DEF NotificationForStatusChange
          <5>2. notifications[w] \in Seq(Notification)
            BY DEF TypeOK
          <5>3. QED
            BY <3>1, <5>1, <5>2
        <4>2. \A u, x : CountKind(w, u, x)' = CountKind(w, u, x)
          BY <4>1 DEF CountKind
        <4>3. \A u \in Users : NewsOf(w, u)'
          BY <2>2, <3>1, <3>2, <3>3, <3>6, <4>2, NoUserAssumption DEF NewsOf
        <4>4. QED
          BY <2>5, <3>1, <4>3 DEF NewsInv
      <3>7. QED
        BY <3>4, <3>5, <3>6
    <2>7. CASE Offered(w)
      <3>1. PICK by \in Users, to \in Users :
                /\ Recorded(w, "assigned")
                /\ items'[w].assignedTo = to
                /\ Logged(w, "assigned", by, to)
                /\ assignments'[w].by = by
                /\ notifications'[w] = notifications[w] \o
                        <<[recipient |-> to, kind |-> "assignment_created"]>>
        BY <2>7 DEF Offered
      <3>2. /\ items[w].status = "created"
            /\ items'[w].createdBy = items[w].createdBy
        <4>1. items[w].status \in Status /\ IsValidTransition(items[w].status, "assigned")
          BY <3>1 DEF Recorded
        <4>2. Exists(items[w])
          BY <4>1 DEF NoItem, Status
        <4>3. QED
          BY <4>1, <4>2, RowsKeepCreatorAndContent
          DEF IsValidTransition, ValidStatusTransitions, Status
      <3>3. \A x : /\ CountMoves(w, x) \in Nat
                   /\ CountMoves(w, x)' =
                        IF "assigned" = x THEN CountMoves(w, x) + 1 ELSE CountMoves(w, x)
        BY <3>1, MovesCounted
      <3>4. \A s \in DOMAIN VerdictKind : CountMoves(w, s) = 0
        BY <3>2, NoVerdictYet
      <3>5. \A u \in Users : \A x :
                /\ CountKind(w, u, x) \in Nat
                /\ CountKind(w, u, x)' =
                        IF to = u /\ "assignment_created" = x
                        THEN CountKind(w, u, x) + 1 ELSE CountKind(w, u, x)
        BY <3>1, NewsCounted, KindsOfNews
      <3>6. \A u : LET h == assignmentHistory[w]
                        g == assignmentHistory'[w] IN
                /\ Cardinality(OffersTo(h, u)) \in Nat
                /\ Cardinality(OffersTo(g, u)) =
                        IF to = u THEN Cardinality(OffersTo(h, u)) + 1
                        ELSE Cardinality(OffersTo(h, u))
                /\ Cardinality(TakenFrom(g, u)) = Cardinality(TakenFrom(h, u))
        <4>1. "assigned" \in AssignmentStatus /\ Logged(w, "assigned", by, to)
          BY <3>1, KindsOfNews
        <4>2. QED
          BY <4>1, EventsCounted
      <3>7. \A u \in Users : NewsOf(w, u)'
        BY <2>2, <3>2, <3>3, <3>4, <3>5, <3>6, VerdictsAreStatuses DEF NewsOf
      <3>8. LastOf(assignmentHistory'[w]).by = assignments'[w].by
        <4>1. /\ assignmentHistory[w] \in Seq(AssignmentEvent)
              /\ [action |-> "assigned", by |-> by, to |-> to] \in AssignmentEvent
          BY DEF TypeOK, AssignmentEvent, AssignmentStatus
        <4>2. QED
          BY <3>1, <4>1, AppendedIsLast DEF Logged
      <3>9. QED
        BY <2>5, <3>1, <3>7, <3>8 DEF Status
    <2>8. ASSUME NEW action \in {"accepted", "declined"},
                 assignments[w].status = "assigned",
                 Recorded(w, ResponseStatus(action = "accepted")),
                 Logged(w, action, assignments[w].to, assignments[w].to)
          PROVE  /\ items'[w].createdBy = items[w].createdBy
                 /\ items[w].status = "assigned"
                 /\ \A s \in DOMAIN VerdictKind \cup {"submitted_for_review"} :
                        CountMoves(w, s)' = CountMoves(w, s)
                 /\ \A u : LET h == assignmentHistory[w]
                               g == assignmentHistory'[w] IN
                    /\ Cardinality(OffersTo(g, u)) = Cardinality(OffersTo(h, u))
                    /\ Cardinality(TakenFrom(g, u)) =
                            IF action = "accepted" /\ assignments[w].by = u
                            THEN Cardinality(TakenFrom(h, u)) + 1
                            ELSE Cardinality(TakenFrom(h, u))
      <3> DEFINE to == ResponseStatus(action = "accepted")
      <3>1. items[w].status \in Status /\ IsValidTransition(items[w].status, to)
        BY <2>8 DEF Recorded
      <3>2. Exists(items[w])
        BY <3>1 DEF NoItem, Status
      <3>3. items[w].status = "assigned"
        BY <3>1 DEF IsValidTransition, ValidStatusTransitions, Status
      <3>4. \A s \in DOMAIN VerdictKind \cup {"submitted_for_review"} :
                CountMoves(w, s)' = CountMoves(w, s)
        BY <2>8, MovesCounted, VerdictsAreStatuses
      <3>5. /\ assignments[w] # NoAssignment /\ action \in AssignmentStatus
            /\ LastOf(assignmentHistory[w]).by = assignments[w].by
        BY <2>8 DEF NoAssignment, AssignmentStatus, NewsInv
      <3>6. \A u : LET h == assignmentHistory[w]
                        g == assignmentHistory'[w] IN
                    /\ Cardinality(OffersTo(g, u)) = Cardinality(OffersTo(h, u))
                    /\ Cardinality(TakenFrom(g, u)) =
                            IF action = "accepted" /\ LastOf(h).by = u
                            THEN Cardinality(TakenFrom(h, u)) + 1
                            ELSE Cardinality(TakenFrom(h, u))
        BY <2>8, <3>5, EventsCounted
      <3>7. QED
        BY <3>2, <3>3, <3>4, <3>5, <3>6, RowsKeepCreatorAndContent
    <2>9. CASE Accepted(w)
      <3>1. /\ assignments[w].status = "assigned"
            /\ Recorded(w, "accepted")
            /\ items'[w].assignedTo = items[w].assignedTo
            /\ Logged(w, "accepted", assignments[w].to, assignments[w].to)
            /\ assignments[w].by \in Users
            /\ notifications'[w] = notifications[w] \o
                    <<[recipient |-> assignments[w].by, kind |-> "assignment_accepted"]>>
        BY <2>9 DEF Accepted
      <3>2. \A u \in Users : \A x :
                /\ CountKind(w, u, x) \in Nat
                /\ CountKind(w, u, x)' =
                        IF assignments[w].by = u /\ "assignment_accepted" = x
                        THEN CountKind(w, u, x) + 1 ELSE CountKind(w, u, x)
        BY <3>1, NewsCounted, KindsOfNews
      <3>3. \A u \in Users : NewsOf(w, u)'
        BY <2>2, <2>8, <3>1, <3>2, VerdictsAreStatuses DEF NewsOf
      <3>4. assignments'[w].status # "assigned"
        BY <3>1 DEF Logged
      <3>5. QED
        BY <2>5, <3>1, <3>3, <3>4 DEF Status
    <2>10. CASE Declined(w)
      <3>1. /\ assignments[w].status = "assigned"
            /\ Recorded(w, "created")
            /\ items'[w].assignedTo = NoUser
            /\ Logged(w, "declined", assignments[w].to, assignments[w].to)
            /\ notifications'[w] = notifications[w]
        BY <2>10 DEF Declined
      <3>2. \A u, x : CountKind(w, u, x)' = CountKind(w, u, x)
        BY <3>1 DEF CountKind
      <3>3. \A s \in DOMAIN VerdictKind : CountMoves(w, s) = 0
        BY <2>8, <3>1, NoVerdictYet
      <3>4. \A u \in Users : NewsOf(w, u)'
        BY <2>2, <2>8, <3>1, <3>2, <3>3, VerdictsAreStatuses DEF NewsOf
      <3>5. assignments'[w].status # "assigned"
        BY <3>1 DEF Logged
      <3>6. QED
        BY <2>5, <3>1, <3>4, <3>5 DEF Status
    <2>11. QED
      BY <2>1, <2>3, <2>4, <2>6, <2>7, <2>9, <2>10 DEF Outcome
  <1>3. QED
    BY <1>1, <1>2, TypeCorrect, HistoryIsAlwaysPath, AssignmentsAlwaysAgree, PTL DEF Spec

=============================================================================
