-------------------------- MODULE WorkItemLifecycle --------------------------
(***************************************************************************)
(* What the work item API promises when requests do not overlap: each      *)
(* accepted request is one step, which changes the work item, its          *)
(* assignment, both audit trails and the notifications together. It        *)
(* composes workitems.Service, the HTTP handlers in front of it (route     *)
(* roles, the evidence gate), attachments.Service, the notification sink   *)
(* and the team directory that supervisors' authority is read from.        *)
(*                                                                         *)
(* A rejected request changes nothing and is a stuttering step.            *)
(***************************************************************************)
EXTENDS WorkItemRules, Sequences, Naturals

CONSTANTS
    WorkItems,          \* work item ids
    Teams, NoTeam, TeamMembers, TeamSupervisors,   \* see TeamDirectory
    Principals,         \* who makes requests: users with the roles they act under
    Reasons,            \* whether a caller may send a reason: a subset of BOOLEAN
    MaxStatusHistory,   \* bound: status changes per work item
    MaxAttachments      \* bound: uploads per work item

ASSUME PrincipalsAssumption == Principals \subseteq Principal
ASSUME TeamAssumption ==
    NoTeam \notin Teams /\ TeamMembers \subseteq Users /\ TeamSupervisors \subseteq Users
ASSUME ReasonsAssumption == Reasons \subseteq BOOLEAN
ASSUME BoundsAssumption == MaxStatusHistory \in Nat /\ MaxAttachments \in Nat

VARIABLES
    items,               \* work_items, by id
    assignments,         \* assignments: the current one of each work item
    statusHistory,       \* status_history, per work item, oldest first
    assignmentHistory,   \* assignment_history, per work item, oldest first
    notifications,       \* notifications about each work item, oldest first
    attachments,         \* how many attachments each work item has
    memberOf, supervisions

INSTANCE TeamDirectory

itemVars == <<items, assignments, statusHistory, assignmentHistory,
              notifications, attachments>>
teamVars == <<memberOf, supervisions>>
vars == <<itemVars, teamVars>>

TypeOK ==
    /\ items \in [WorkItems -> WorkItem \cup {NoItem}]
    /\ assignments \in [WorkItems -> Assignment \cup {NoAssignment}]
    /\ statusHistory \in [WorkItems -> Seq(StatusChange)]
    /\ assignmentHistory \in [WorkItems -> Seq(AssignmentEvent)]
    /\ notifications \in [WorkItems -> Seq(Notification)]
    /\ attachments \in [WorkItems -> Nat]
    /\ TeamTypeOK

Init ==
    /\ items = [w \in WorkItems |-> NoItem]
    /\ assignments = [w \in WorkItems |-> NoAssignment]
    /\ statusHistory = [w \in WorkItems |-> <<>>]
    /\ assignmentHistory = [w \in WorkItems |-> <<>>]
    /\ notifications = [w \in WorkItems |-> <<>>]
    /\ attachments = [w \in WorkItems |-> 0]
    /\ TeamInit

-----------------------------------------------------------------------------
(* The writes the operations share.                                        *)

RecordStatusChange(w, to, p, reason) ==
    /\ Len(statusHistory[w]) < MaxStatusHistory
    /\ statusHistory' = [statusHistory EXCEPT ![w] =
            Append(@, StatusChangeOf(items[w], to, p, reason))]

RecordAssignmentEvent(w, action, by, to) ==
    assignmentHistory' = [assignmentHistory EXCEPT ![w] =
        Append(@, [action |-> action, by |-> by, to |-> to])]

Notify(w, news) ==
    notifications' = [notifications EXCEPT ![w] = @ \o news]

-----------------------------------------------------------------------------
(* The operations, as the API offers them.                                 *)

\* POST /workitems
Create(w, p, content) ==
    /\ Allowed("Create", p)
    /\ ~Exists(items[w])
    /\ items' = [items EXCEPT ![w] =
            [status |-> "created", createdBy |-> p.user,
             assignedTo |-> NoUser, content |-> content]]
    /\ UNCHANGED <<assignments, statusHistory, assignmentHistory,
                   notifications, attachments, teamVars>>

\* PATCH /workitems/{id}
Update(w, p, content) ==
    /\ Allowed("Update", p)
    /\ Exists(items[w])
    /\ MayEdit(p, items[w], Oversees)
    /\ items' = [items EXCEPT ![w].content = content]
    /\ UNCHANGED <<assignments, statusHistory, assignmentHistory,
                   notifications, attachments, teamVars>>

\* Service.ChangeStatus, which three routes reach.
MoveTo(w, p, to, reason) ==
    LET moved == [items[w] EXCEPT !.status = to] IN
    /\ Exists(items[w])
    /\ to = "flagged" => reason
    /\ MayChangeStatus(p, items[w], to, Oversees)
    /\ items' = [items EXCEPT ![w] = moved]
    /\ RecordStatusChange(w, to, p, reason)
    /\ Notify(w, NotificationForStatusChange(moved))
    /\ UNCHANGED <<assignments, assignmentHistory, attachments, teamVars>>

\* Mutant: only assignees are asked for evidence.
ChangeStatusTrusting(w, p, to, reason) ==
    /\ Allowed("ChangeStatus", p)
    /\ to = "submitted_for_review" =>
            MayView(p, items[w], Oversees)
            /\ (ActingRole(p) = "assignee" => attachments[w] > 0)
    /\ MoveTo(w, p, to, reason)

\* PATCH /workitems/{id}/status, with the evidence gate of its handler.
ChangeStatus(w, p, to, reason) ==
    /\ Allowed("ChangeStatus", p)
    /\ to = "submitted_for_review" =>
            MayView(p, items[w], Oversees) /\ attachments[w] > 0
    /\ MoveTo(w, p, to, reason)

\* POST /workitems/{id}/verify
Verify(w, p, reason) ==
    /\ Allowed("Verify", p)
    /\ MoveTo(w, p, "verified", reason)

\* POST /workitems/{id}/flag: the handler requires a note
Flag(w, p) ==
    /\ Allowed("Flag", p)
    /\ MoveTo(w, p, "flagged", TRUE)

\* POST /workitems/{id}/assignment: nothing is asked of the target
AssignWorkItem(w, p, target) ==
    /\ Allowed("Assign", p)
    /\ Exists(items[w])
    /\ MayAssign(p, items[w], target, Oversees)
    /\ items' = [items EXCEPT ![w].status = "assigned", ![w].assignedTo = target]
    /\ RecordStatusChange(w, "assigned", p, FALSE)
    /\ assignments' = [assignments EXCEPT ![w] =
            [status |-> "assigned", by |-> p.user, to |-> target]]
    /\ RecordAssignmentEvent(w, "assigned", p.user, target)
    /\ Notify(w, <<[recipient |-> target, kind |-> "assignment_created"]>>)
    /\ UNCHANGED <<attachments, teamVars>>

\* Mutant: an answer moves the item without an entry in the status history.
RespondUnrecorded(w, p, accept, reason) ==
    /\ Allowed("Respond", p)
    /\ Exists(items[w])
    /\ MayRespond(p, items[w], assignments[w], accept)
    /\ UNCHANGED <<statusHistory, attachments, teamVars>>

\* The part of Service.RespondToAssignment that both answers share.
Respond(w, p, accept, reason) ==
    /\ Allowed("Respond", p)
    /\ Exists(items[w])
    /\ MayRespond(p, items[w], assignments[w], accept)
    /\ RecordStatusChange(w, ResponseStatus(accept), p, reason)
    /\ UNCHANGED <<attachments, teamVars>>

\* POST /workitems/{id}/assignment/accept
Accept(w, p, reason) ==
    /\ Respond(w, p, TRUE, reason)
    /\ items' = [items EXCEPT ![w].status = "accepted"]
    /\ assignments' = [assignments EXCEPT ![w].status = "accepted"]
    /\ RecordAssignmentEvent(w, "accepted", p.user, assignments[w].to)
    /\ Notify(w, <<[recipient |-> assignments[w].by,
                    kind |-> "assignment_accepted"]>>)

\* Mutants: the item stays with the person who declined it; the assignment is
\* given the status of the item.
DeclineKeepingHolder(w, p, reason) ==
    /\ Respond(w, p, FALSE, reason)
    /\ items' = [items EXCEPT ![w].status = "created"]
    /\ assignments' = [assignments EXCEPT ![w].status = "declined"]
    /\ RecordAssignmentEvent(w, "declined", p.user, assignments[w].to)
    /\ UNCHANGED notifications

DeclineMixingStatuses(w, p, reason) ==
    /\ Respond(w, p, FALSE, reason)
    /\ items' = [items EXCEPT ![w].status = "created", ![w].assignedTo = NoUser]
    /\ assignments' = [assignments EXCEPT ![w].status = "created"]
    /\ RecordAssignmentEvent(w, "declined", p.user, assignments[w].to)
    /\ UNCHANGED notifications

\* POST /workitems/{id}/assignment/decline: nobody is notified
Decline(w, p, reason) ==
    /\ Respond(w, p, FALSE, reason)
    /\ items' = [items EXCEPT ![w].status = "created", ![w].assignedTo = NoUser]
    /\ assignments' = [assignments EXCEPT ![w].status = "declined"]
    /\ RecordAssignmentEvent(w, "declined", p.user, assignments[w].to)
    /\ UNCHANGED notifications

\* POST /workitems/{id}/attachments, of a file that is not empty
Upload(w, p) ==
    /\ Allowed("Upload", p)
    /\ Exists(items[w])
    /\ MayView(p, items[w], Oversees)
    /\ attachments[w] < MaxAttachments
    /\ attachments' = [attachments EXCEPT ![w] = @ + 1]
    /\ UNCHANGED <<items, assignments, statusHistory, assignmentHistory,
                   notifications, teamVars>>

TeamStep == TeamNext /\ UNCHANGED itemVars

WorkItemStep(w, p) ==
    \/ \E content \in Contents : Create(w, p, content) \/ Update(w, p, content)
    \/ \E to \in Status, reason \in Reasons : ChangeStatus(w, p, to, reason)
    \/ \E reason \in Reasons :
            Verify(w, p, reason) \/ Accept(w, p, reason) \/ Decline(w, p, reason)
    \/ Flag(w, p)
    \/ \E target \in Users : AssignWorkItem(w, p, target)
    \/ Upload(w, p)

Next ==
    \/ \E w \in WorkItems, p \in Principals : WorkItemStep(w, p)
    \/ TeamStep

Spec == Init /\ [][Next]_vars

-----------------------------------------------------------------------------
(* Properties.                                                             *)

LastOf(s) == s[Len(s)]

\* The status history of a work item is one unbroken path of the status
\* machine from created to the status its row now shows: recordStatusChange
\* writes the from and to of every write to work_items.status, and no
\* operation changes the status without it. The first entry is the first move,
\* from created, as creating an item is not recorded. (The comment on the type
\* StatusHistory has it otherwise: FromStatus "is nil for the very first entry".
\* No entry is like that.)
HistoryIsPath ==
    \A w \in WorkItems :
        LET h == statusHistory[w] IN
        /\ \A k \in DOMAIN h : IsValidTransition(h[k].from, h[k].to)
        /\ \A k \in DOMAIN h : k > 1 => h[k].from = h[k-1].to
        /\ h # <<>> => h[1].from = "created" /\ LastOf(h).to = items[w].status
        /\ h = <<>> => items[w].status \in {"absent", "created"}

\* The work item row, its current assignment and the assignment history tell
\* one story: the assignment is the last event recorded, the item belongs to
\* the person it names until he declines and to nobody afterwards, and an
\* answer directly follows the offer it answers and comes from its target.
AssignmentsAgree ==
    \A w \in WorkItems :
        LET a == assignments[w]
            h == assignmentHistory[w] IN
        /\ (a = NoAssignment) <=> (h = <<>>)
        /\ h # <<>> => LastOf(h).action = a.status /\ LastOf(h).to = a.to
        /\ items[w].assignedTo =
                IF a.status \in {"assigned", "accepted"} THEN a.to ELSE NoUser
        /\ \A k \in DOMAIN h : h[k].action # "assigned" =>
                /\ k > 1
                /\ h[k-1].action = "assigned"
                /\ h[k-1].to = h[k].to
                /\ h[k].by = h[k].to

\* An assignment its target accepted is never undone: the item stays past the
\* point where AssignWorkItem or a decline could touch it.
AcceptedIsPastAssignment ==
    \A w \in WorkItems :
        assignments[w].status = "accepted" =>
            items[w].status \notin {"absent", "created", "assigned"}

\* No work item was ever submitted for review, hence verified or completed,
\* without an attachment, although only one of the handlers looks for one.
ReviewedWithEvidence ==
    \A w \in WorkItems :
        (\E k \in DOMAIN statusHistory[w] :
            statusHistory[w][k].to \in
                {"submitted_for_review", "verified", "flagged", "completed"})
        => attachments[w] > 0

\* Work that was flagged is verified only after somebody took it up again and
\* submitted it again, with feedback recorded for the assignee to act on.
FlaggedWorkIsReworked ==
    \A w \in WorkItems :
        LET h == statusHistory[w] IN
        \A i, j \in DOMAIN h :
            i < j /\ h[i].to = "flagged" /\ h[j].to = "verified" =>
                /\ h[i].reason
                /\ \E k \in i+1..j-1 : h[k].to = "in_progress"
                /\ \E k \in i+1..j-1 : h[k].to = "submitted_for_review"

\* Whatever an assignee does to a work item, he does as the target of its
\* latest offer, one he has not declined, and it stays short of the review
\* decision; a requester moves nothing, not even work assigned to him.
AssigneesActOnTheirOffer ==
    [][\A w \in WorkItems :
        statusHistory'[w] # statusHistory[w] =>
            LET c == LastOf(statusHistory'[w])
                offer == LastOf(assignmentHistory[w]) IN
            /\ c.role # "requester"
            /\ c.role = "assignee" =>
                /\ assignmentHistory[w] # <<>>
                /\ offer.to = c.by /\ offer.action # "declined"
                /\ c.to \in {"created", "accepted", "in_progress",
                             "submitted_for_review"}]_vars

\* A supervisor cannot adopt an unassigned item somebody else created, by
\* pointing it at his own team: whichever supervisor moves an item first is
\* its creator.
OthersItemsAreNotAdopted ==
    \A w \in WorkItems :
        statusHistory[w] # <<>> /\ statusHistory[w][1].role = "supervisor" =>
            statusHistory[w][1].by = items[w].createdBy

CountKind(w, u, kind) ==
    Cardinality({k \in DOMAIN notifications[w] :
        notifications[w][k] = [recipient |-> u, kind |-> kind]})

CountMoves(w, to) ==
    Cardinality({k \in DOMAIN statusHistory[w] : statusHistory[w][k].to = to})

\* Every event that somebody waits for was announced exactly once, to the
\* right person: each submission to the creator, each verdict to the person
\* who holds the work, each offer to its target, each acceptance to whoever
\* made the offer that was accepted.
NewsReachesTheRightPerson ==
    \A w \in WorkItems, u \in Users :
        LET h == assignmentHistory[w] IN
        /\ CountKind(w, u, "evidence_submitted") =
             IF items[w].createdBy = u
             THEN CountMoves(w, "submitted_for_review") ELSE 0
        /\ \A s \in DOMAIN VerdictKind :
             CountKind(w, u, VerdictKind[s]) =
                IF items[w].assignedTo = u THEN CountMoves(w, s) ELSE 0
        /\ CountKind(w, u, "assignment_created") =
             Cardinality({k \in DOMAIN h : h[k].action = "assigned" /\ h[k].to = u})
        /\ CountKind(w, u, "assignment_accepted") =
             Cardinality({k \in DOMAIN h :
                h[k].action = "accepted" /\ h[k-1].by = u})

Terminal == {"completed", "cancelled"}

\* Once a work item is completed or cancelled, nothing about who did what
\* changes any more: not its status, not its assignee, not its assignment
\* (even one still waiting for an answer), not either audit trail, and nobody
\* is told anything. An admin may still edit its contents, and files may still
\* be attached.
TerminalIsFinal ==
    [][\A w \in WorkItems :
        items[w].status \in Terminal =>
            /\ items'[w].status = items[w].status
            /\ items'[w].assignedTo = items[w].assignedTo
            /\ UNCHANGED <<assignments[w], statusHistory[w],
                           assignmentHistory[w], notifications[w]>>]_vars

\* From acceptance on, a work item has one assignee: no sequence of requests,
\* whatever the roles of those who make them, hands it to somebody else.
AcceptedAssigneeKeepsWork ==
    [][\A w \in WorkItems :
        assignments[w].status = "accepted" =>
            /\ items'[w].assignedTo = items[w].assignedTo
            /\ assignments'[w] = assignments[w]]_vars
=============================================================================
