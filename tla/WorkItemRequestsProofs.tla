------------------------ MODULE WorkItemRequestsProofs ------------------------
(***************************************************************************)
(* WorkItemRequests for any number of users, work items and overlapping    *)
(* requests, and for all Settings.                                         *)
(*                                                                         *)
(* A step is taken apart twice: into what it does to the tables of one     *)
(* work item (TableOutcome) and into what it does to one slot              *)
(* (SlotOutcome). Each invariant then has a part about tables and a part   *)
(* about slots: what a request once read or planned to write stays true of *)
(* the histories, which only grow, however old it is by the time it is     *)
(* written. Last comes the refinement: where requests about one item do    *)
(* not overlap, what a request read and decided is still the case.         *)
(***************************************************************************)
EXTENDS WorkItemRequests, FiniteSetTheorems, SequenceTheorems, TLAPS

-----------------------------------------------------------------------------
(* Facts about the rules.                                                  *)

Tables == {"work_items", "status_history", "assignments", "assignment_history",
           "notifications"}

LEMMA ActingRoleIsRole ==
    ASSUME NEW p
    PROVE  ActingRole(p) \in Role
  BY DEF ActingRole, Role

LEMMA SeqConcatenated ==
    ASSUME NEW S, NEW s \in Seq(S), NEW t \in Seq(S)
    PROVE  s \o t \in Seq(S)
  OBVIOUS

\* The rows of WorkItemLifecycle are those of this module.
LEMMA SameRows ==
    /\ Lifecycle!WorkItem = WorkItem /\ Lifecycle!NoItem = NoItem
    /\ Lifecycle!Assignment = Assignment /\ Lifecycle!NoAssignment = NoAssignment
    /\ Lifecycle!StatusChange = StatusChange
    /\ Lifecycle!AssignmentEvent = AssignmentEvent
    /\ Lifecycle!Notification = Notification
    /\ Lifecycle!TeamTypeOK <=> TeamTypeOK
  BY DEF Lifecycle!WorkItem, WorkItem, Lifecycle!Status, Status,
         Lifecycle!NoItem, NoItem,
         Lifecycle!Assignment, Assignment,
         Lifecycle!AssignmentStatus, AssignmentStatus,
         Lifecycle!NoAssignment, NoAssignment,
         Lifecycle!StatusChange, StatusChange, Lifecycle!Role, Role,
         Lifecycle!AssignmentEvent, AssignmentEvent,
         Lifecycle!Notification, Notification,
         Lifecycle!NotificationKind, NotificationKind,
         Lifecycle!TeamTypeOK, TeamTypeOK

LEMMA TablesTyped ==
    Lifecycle!TypeOK <=>
        /\ items \in [WorkItems -> WorkItem \cup {NoItem}]
        /\ assignments \in [WorkItems -> Assignment \cup {NoAssignment}]
        /\ statusHistory \in [WorkItems -> Seq(StatusChange)]
        /\ assignmentHistory \in [WorkItems -> Seq(AssignmentEvent)]
        /\ notifications \in [WorkItems -> Seq(Notification)]
        /\ attachments \in [WorkItems -> Nat]
        /\ TeamTypeOK
  BY SameRows DEF Lifecycle!TypeOK

\* What a request consists of.
LEMMA RequestFields ==
    ASSUME setting \in Settings, NEW q \in Requests
    PROVE  /\ q.op \in setting.operations /\ q.op \in DOMAIN Arguments
           /\ q.item \in WorkItems
           /\ q.by \in setting.principals /\ q.by \in Principals
           /\ q.by.user \in Users
           /\ q.arg \in Arguments[q.op]
  <1>1. PICK o \in setting.operations :
            q \in [op : {o}, item : WorkItems, by : setting.principals,
                   arg : Arguments[o]]
    BY DEF Requests
  <1>2. q.op = o /\ q.item \in WorkItems /\ q.by \in setting.principals
        /\ q.arg \in Arguments[o]
    BY <1>1
  <1>3. o \in DOMAIN Arguments /\ q.by \in Principals
    BY <1>1, <1>2, OperationsAssumption, SettingsAssumption
  <1>4. q.by.user \in Users
    BY <1>3, PrincipalsAssumption DEF Principal
  <1>5. QED
    BY <1>1, <1>2, <1>3, <1>4

LEMMA NoRequestIsNone ==
    ASSUME setting \in Settings
    PROVE  NoRequest \notin Requests
  <1>1. SUFFICES ASSUME NoRequest \in Requests PROVE FALSE
    OBVIOUS
  <1>2. NoRequest.op \in DOMAIN Arguments
    BY <1>1, RequestFields
  <1>3. QED
    BY <1>2 DEF NoRequest, Arguments

\* The kinds of requests, and what they are after.
LEMMA ArgumentsOf ==
    ASSUME NEW q, q.op \in DOMAIN Arguments, q.arg \in Arguments[q.op]
    PROVE  /\ q.op \in {"Update", "ChangeStatus", "Verify", "Flag", "Assign",
                        "Respond", "Upload"}
           /\ q.op = "Update" => q.arg \in Contents
           /\ q.op = "ChangeStatus" => q.arg \in Status
           /\ q.op = "Verify" => q.arg = "verified"
           /\ q.op = "Flag" => q.arg = "flagged"
           /\ q.op = "Assign" => q.arg \in Users
           /\ q.op = "Respond" => q.arg \in {"accepted", "declined"}
           /\ q.op \notin {"Update", "Upload"} => TargetStatus(q) \in Status
  BY DEF Arguments, TargetStatus, ResponseStatus, Status

LEMMA NewsIsNotification ==
    ASSUME NEW item \in WorkItem
    PROVE  LET news == NotificationForStatusChange(item) IN
           /\ news \in Seq(Notification) /\ Len(news) <= 1
           /\ news # <<>> =>
                news[1].kind = IF item.status = "submitted_for_review"
                               THEN "evidence_submitted" ELSE VerdictKind[item.status]
           /\ item.status = "submitted_for_review" => news # <<>>
           /\ item.status # "submitted_for_review" /\ news # <<>> =>
                item.status \in DOMAIN VerdictKind
  <1>1. /\ item.createdBy \in Users
        /\ item.assignedTo # NoUser => item.assignedTo \in Users
    BY DEF WorkItem
  <1>2. \A s \in DOMAIN VerdictKind : VerdictKind[s] \in NotificationKind
    BY DEF VerdictKind, NotificationKind
  <1>3. "evidence_submitted" \in NotificationKind
    BY DEF NotificationKind
  <1>4. \A n \in Notification : <<n>> \in Seq(Notification)
    OBVIOUS
  <1>5. [recipient |-> item.createdBy, kind |-> "evidence_submitted"]
            \in Notification
    BY <1>1, <1>3 DEF Notification
  <1>6. item.assignedTo # NoUser =>
            \A s \in DOMAIN VerdictKind :
                [recipient |-> item.assignedTo, kind |-> VerdictKind[s]]
                    \in Notification
    BY <1>1, <1>2 DEF Notification
  <1>7. QED
    BY <1>4, <1>5, <1>6 DEF NotificationForStatusChange

\* The next table to write to is one that is still to be written to.
LEMMA NextTableIsLeft ==
    ASSUME NEW ws, DOMAIN ws \subseteq Tables, DOMAIN ws # {}
    PROVE  /\ NextTable(ws) \in DOMAIN ws
           /\ "work_items" \in DOMAIN ws => NextTable(ws) = "work_items"
  <1>1. /\ DOMAIN TableOrder = 1..5
        /\ TableOrder[1] = "work_items" /\ TableOrder[2] = "status_history"
        /\ TableOrder[3] = "assignments" /\ TableOrder[4] = "assignment_history"
        /\ TableOrder[5] = "notifications"
    BY DEF TableOrder
  <1>2. \E k \in DOMAIN TableOrder :
            /\ TableOrder[k] \in DOMAIN ws
            /\ \A j \in 1..k-1 : TableOrder[j] \notin DOMAIN ws
    <2>1. CASE TableOrder[1] \in DOMAIN ws
      BY <1>1, <2>1
    <2>2. CASE TableOrder[1] \notin DOMAIN ws /\ TableOrder[2] \in DOMAIN ws
      BY <1>1, <2>2
    <2>3. CASE /\ TableOrder[1] \notin DOMAIN ws /\ TableOrder[2] \notin DOMAIN ws
               /\ TableOrder[3] \in DOMAIN ws
      BY <1>1, <2>3
    <2>4. CASE /\ TableOrder[1] \notin DOMAIN ws /\ TableOrder[2] \notin DOMAIN ws
               /\ TableOrder[3] \notin DOMAIN ws /\ TableOrder[4] \in DOMAIN ws
      BY <1>1, <2>4
    <2>5. CASE /\ TableOrder[1] \notin DOMAIN ws /\ TableOrder[2] \notin DOMAIN ws
               /\ TableOrder[3] \notin DOMAIN ws /\ TableOrder[4] \notin DOMAIN ws
      <3>1. TableOrder[5] \in DOMAIN ws
        BY <1>1, <2>5 DEF Tables
      <3>2. QED
        BY <1>1, <2>5, <3>1
    <2>6. QED
      BY <2>1, <2>2, <2>3, <2>4, <2>5
  <1> DEFINE First(k) == /\ TableOrder[k] \in DOMAIN ws
                         /\ \A j \in 1..k-1 : TableOrder[j] \notin DOMAIN ws
  <1>3. First(CHOOSE k \in DOMAIN TableOrder : First(k))
    BY <1>2
  <1>4. "work_items" \in DOMAIN ws => (CHOOSE k \in DOMAIN TableOrder : First(k)) = 1
    <2> DEFINE c == CHOOSE k \in DOMAIN TableOrder : First(k)
    <2>1. /\ c \in 1..5
          /\ \A j \in 1..c-1 : TableOrder[j] \notin DOMAIN ws
      BY <1>1, <1>2, <1>3
    <2> HIDE DEF c
    <2>2. c > 1 => 1 \in 1..c-1
      BY <2>1
    <2>3. "work_items" \in DOMAIN ws => c = 1
      BY <1>1, <2>1, <2>2
    <2>4. QED
      BY <2>3 DEF c
  <1>5. QED
    BY <1>1, <1>3, <1>4 DEF NextTable

-----------------------------------------------------------------------------
(* The inductive invariant behind the types.                               *)

\* The kinds of notifications that BooksBalance counts, and the one a request
\* leads to, if it leads to any of them.
CountedKinds == {"assignment_created", "assignment_accepted", "evidence_submitted"}

Announces(q) ==
    IF q.op = "Assign" THEN "assignment_created"
    ELSE IF q.op = "Respond" /\ q.arg = "accepted" THEN "assignment_accepted"
    ELSE IF q.op = "ChangeStatus" /\ q.arg = "submitted_for_review"
    THEN "evidence_submitted" ELSE "none"

\* What a request about q that read row may still have to write: some of the
\* rows WritesOf computes, all of them where a transaction writes them. It is
\* about q, row and ws only, so that other requests cannot disturb it.
Planned(q, row, ws) ==
    LET answers == q.op \in {"Assign", "Respond"}
        answer == IF q.op = "Assign" THEN "assigned" ELSE q.arg IN
    /\ DOMAIN ws \subseteq Tables
    /\ "work_items" \in DOMAIN ws =>
        /\ ws.work_items \in WorkItem
        /\ ws.work_items.status =
                IF q.op = "Update" THEN row.status ELSE TargetStatus(q)
        /\ \/ ws.work_items.assignedTo \in {row.assignedTo, NoUser}
           \/ q.op = "Assign" /\ ws.work_items.assignedTo = q.arg
    /\ "status_history" \in DOMAIN ws =>
        /\ q.op # "Update"
        /\ ws.status_history \in StatusChange
        /\ ws.status_history.from = row.status
        /\ ws.status_history.to = TargetStatus(q)
    /\ "assignments" \in DOMAIN ws =>
        /\ answers
        /\ ws.assignments \in Assignment
        /\ ws.assignments.status = answer
    /\ "assignment_history" \in DOMAIN ws =>
        /\ answers
        /\ ws.assignment_history \in AssignmentEvent
        /\ ws.assignment_history.action = answer
        /\ q.op = "Assign" => ws.assignment_history.to = q.arg
    /\ "notifications" \in DOMAIN ws =>
        /\ q.op # "Update"
        /\ ws.notifications \in Seq(Notification) /\ Len(ws.notifications) <= 1
        /\ \A kind \in CountedKinds :
            (ws.notifications # <<>> /\ ws.notifications[1].kind = kind)
                <=> Announces(q) = kind
    /\ q.op = "Assign" /\ "work_items" \in DOMAIN ws =>
        "assignment_history" \in DOMAIN ws

AllTables(q) ==
    IF q.op = "Update" THEN {"work_items"}
    ELSE IF q.op \in {"Assign", "Respond"} THEN Tables
    ELSE {"work_items", "status_history", "notifications"}

\* What holds of a request by the stage it has reached: the item is there, the
\* row it read allows it, what it writes is what it planned, the assignment it
\* answers exists.
SlotTyped(r) ==
    LET q == request[r] IN
    /\ stage[r] \in Stage
    /\ stage[r] = "idle" =>
        q = NoRequest /\ seen[r] = NoItem /\ writes[r] = <<>>
    /\ stage[r] # "idle" =>
        q \in Requests /\ items[q.item] \in WorkItem
    /\ stage[r] = "saving" => q.op = "Upload"
    /\ stage[r] \in {"evidence", "admitted"} =>
        q.op = "ChangeStatus" /\ q.arg = "submitted_for_review"
    /\ stage[r] \in {"evidence", "saving", "admitted", "read"} => writes[r] = <<>>
    /\ stage[r] \in {"evidence", "saving", "admitted"} => seen[r] = NoItem
    /\ stage[r] \in {"read", "writing", "locked"} =>
        q.op # "Upload" /\ seen[r] \in WorkItem /\ RowAllows(q, seen[r])
    /\ stage[r] \in {"writing", "locked"} =>
        /\ DOMAIN writes[r] # {}
        /\ Planned(q, seen[r], writes[r])
        /\ setting.transactional => DOMAIN writes[r] = AllTables(q)
        /\ q.op = "Respond" => assignments[q.item] \in Assignment
    /\ stage[r] = "locked" => setting.transactional

TypeInv ==
    /\ Lifecycle!TypeOK
    /\ setting \in Settings
    /\ DOMAIN stage = Slots /\ DOMAIN request = Slots
    /\ DOMAIN seen = Slots /\ DOMAIN writes = Slots
    /\ stage = [r \in Slots |-> stage[r]] /\ request = [r \in Slots |-> request[r]]
    /\ seen = [r \in Slots |-> seen[r]] /\ writes = [r \in Slots |-> writes[r]]
    /\ \A r \in Slots : SlotTyped(r)

LEMMA TypeInvGivesTypes == TypeInv => TypeOK
  <1> SUFFICES ASSUME TypeInv PROVE TypeOK
    OBVIOUS
  <1>1. stage \in [Slots -> Stage]
    BY DEF TypeInv, SlotTyped
  <1>2. request \in [Slots -> Requests \cup {NoRequest}]
    BY DEF TypeInv, SlotTyped
  <1>3. seen \in [Slots -> WorkItem \cup {NoItem}]
    BY DEF TypeInv, SlotTyped, Stage
  <1>4. ASSUME NEW r \in Slots
        PROVE  /\ (stage[r] \in {"writing", "locked"}) <=> (writes[r] # <<>>)
               /\ stage[r] \in {"read", "writing", "locked"} => seen[r] \in WorkItem
               /\ request[r] = NoRequest <=> Idle(r)
    <2>1. DOMAIN writes[r] # {} => writes[r] # <<>>
      OBVIOUS
    <2>2. QED
      BY <2>1, NoRequestIsNone DEF TypeInv, SlotTyped, Stage, Idle
  <1>5. QED
    BY <1>1, <1>2, <1>3, <1>4 DEF TypeInv, TypeOK

-----------------------------------------------------------------------------
(* What WritesOf computes is what Planned says.                            *)

LEMMA WritesArePlanned ==
    ASSUME Lifecycle!TypeOK, setting \in Settings, NEW q \in Requests,
           q.op # "Upload", NEW row \in WorkItem, RowAllows(q, row),
           Permitted(q, row)
    PROVE  LET ws == WritesOf(q, row) IN
           /\ DOMAIN ws # {}
           /\ Planned(q, row, ws)
           /\ DOMAIN ws = AllTables(q)
           /\ q.op = "Respond" => assignments[q.item] \in Assignment
  <1>1. /\ q.op \in DOMAIN Arguments /\ q.item \in WorkItems
        /\ q.by.user \in Users /\ q.arg \in Arguments[q.op]
    BY RequestFields
  <1>2. /\ q.op \in {"Update", "ChangeStatus", "Verify", "Flag", "Assign", "Respond"}
        /\ q.op = "Update" => q.arg \in Contents
        /\ q.op = "ChangeStatus" => q.arg \in Status
        /\ q.op = "Verify" => q.arg = "verified"
        /\ q.op = "Flag" => q.arg = "flagged"
        /\ q.op = "Assign" => q.arg \in Users
        /\ q.op = "Respond" => q.arg \in {"accepted", "declined"}
        /\ q.op # "Update" => TargetStatus(q) \in Status
    BY <1>1, ArgumentsOf
  <1>3. ASSUME NEW to \in Status, NEW reason \in BOOLEAN
        PROVE  StatusChangeOf(row, to, q.by, reason) \in StatusChange
    BY <1>1, ActingRoleIsRole DEF StatusChangeOf, StatusChange, WorkItem
  <1>4. CASE q.op = "Update"
    <2>1. WritesOf(q, row) = EditWrites(q, row)
      BY <1>4 DEF WritesOf
    <2>2. [row EXCEPT !.content = q.arg] \in WorkItem
      BY <1>2, <1>4 DEF WorkItem
    <2>3. /\ [row EXCEPT !.content = q.arg].status = row.status
          /\ [row EXCEPT !.content = q.arg].assignedTo = row.assignedTo
      BY DEF WorkItem
    <2>4. /\ DOMAIN WritesOf(q, row) = {"work_items"}
          /\ WritesOf(q, row).work_items = [row EXCEPT !.content = q.arg]
      BY <2>1 DEF EditWrites
    <2>5. AllTables(q) = {"work_items"} /\ "work_items" \in Tables
      BY <1>4 DEF AllTables, Tables
    <2>6. QED
      BY <1>4, <2>2, <2>3, <2>4, <2>5 DEF Planned
  <1>5. CASE q.op \in {"ChangeStatus", "Verify", "Flag"}
    <2> DEFINE updated == [row EXCEPT !.status = q.arg]
    <2>1. WritesOf(q, row) = MoveWrites(q, row) /\ TargetStatus(q) = q.arg
      BY <1>5 DEF WritesOf, TargetStatus
    <2>2. q.arg \in Status
      BY <1>2, <1>5 DEF Status
    <2>3. updated \in WorkItem /\ updated.status = q.arg
          /\ updated.assignedTo = row.assignedTo
      BY <2>2 DEF WorkItem
    <2>4. LET news == NotificationForStatusChange(updated) IN
          /\ news \in Seq(Notification) /\ Len(news) <= 1
          /\ \A kind \in CountedKinds :
                (news # <<>> /\ news[1].kind = kind) <=> Announces(q) = kind
      <3>1. Announces(q) = IF q.arg = "submitted_for_review"
                           THEN "evidence_submitted" ELSE "none"
        BY <1>2, <1>5 DEF Announces
      <3> DEFINE news == NotificationForStatusChange(updated)
      <3>2. /\ news \in Seq(Notification) /\ Len(news) <= 1
            /\ news # <<>> =>
                 news[1].kind = IF q.arg = "submitted_for_review"
                                THEN "evidence_submitted" ELSE VerdictKind[q.arg]
            /\ q.arg = "submitted_for_review" => news # <<>>
            /\ q.arg # "submitted_for_review" /\ news # <<>> =>
                 q.arg \in DOMAIN VerdictKind
        BY <2>3, NewsIsNotification
      <3> HIDE DEF news, updated
      <3>3. q.arg \in DOMAIN VerdictKind => VerdictKind[q.arg] \notin CountedKinds
        BY DEF VerdictKind, CountedKinds
      <3>4. ASSUME q.arg = "submitted_for_review", NEW kind
            PROVE  (news # <<>> /\ news[1].kind = kind) <=> Announces(q) = kind
        BY <3>1, <3>2, <3>4
      <3>5. ASSUME q.arg # "submitted_for_review", NEW kind \in CountedKinds
            PROVE  (news # <<>> /\ news[1].kind = kind) <=> Announces(q) = kind
        <4>1. news # <<>> => news[1].kind \notin CountedKinds
          BY <3>2, <3>3, <3>5
        <4>2. Announces(q) \notin CountedKinds
          BY <3>1, <3>5 DEF CountedKinds
        <4>3. QED
          BY <4>1, <4>2, <3>5
      <3>6. QED
        BY <3>2, <3>4, <3>5 DEF news
    <2>5. /\ StatusChangeOf(row, q.arg, q.by, TRUE) \in StatusChange
          /\ StatusChangeOf(row, q.arg, q.by, TRUE).from = row.status
          /\ StatusChangeOf(row, q.arg, q.by, TRUE).to = q.arg
      BY <1>3, <2>2 DEF StatusChangeOf
    <2> HIDE DEF updated
    <2>6. MoveWrites(q, row) =
            [work_items     |-> updated,
             status_history |-> StatusChangeOf(row, q.arg, q.by, TRUE),
             notifications  |-> NotificationForStatusChange(updated)]
      BY DEF MoveWrites, updated
    <2>7. /\ DOMAIN WritesOf(q, row) = {"work_items", "status_history", "notifications"}
          /\ WritesOf(q, row).work_items = updated
          /\ WritesOf(q, row).status_history = StatusChangeOf(row, q.arg, q.by, TRUE)
          /\ WritesOf(q, row).notifications = NotificationForStatusChange(updated)
      BY <2>1, <2>6
    <2>8. DOMAIN WritesOf(q, row) = AllTables(q) /\ DOMAIN WritesOf(q, row) \subseteq Tables
      BY <1>5, <2>7 DEF AllTables, Tables
    <2>9. QED
      BY <1>5, <2>1, <2>3, <2>4, <2>5, <2>7, <2>8 DEF Planned
  <1>6. CASE q.op = "Assign"
    <2> DEFINE updated == [row EXCEPT !.status = "assigned", !.assignedTo = q.arg]
               change == StatusChangeOf(row, "assigned", q.by, FALSE)
               row2 == [status |-> "assigned", by |-> q.by.user, to |-> q.arg]
               event == [action |-> "assigned", by |-> q.by.user, to |-> q.arg]
               news == <<[recipient |-> q.arg, kind |-> "assignment_created"]>>
    <2>1. WritesOf(q, row) = AssignWrites(q, row) /\ TargetStatus(q) = "assigned"
      BY <1>6 DEF WritesOf, TargetStatus
    <2>2. /\ updated \in WorkItem /\ updated.status = "assigned"
          /\ updated.assignedTo = q.arg
      BY <1>2, <1>6 DEF WorkItem, Status
    <2>3. /\ change \in StatusChange /\ change.from = row.status
          /\ change.to = "assigned"
      BY <1>3 DEF StatusChangeOf, Status
    <2>4. row2 \in Assignment /\ row2.status = "assigned"
      BY <1>1, <1>2, <1>6 DEF Assignment, AssignmentStatus
    <2>5. event \in AssignmentEvent /\ event.action = "assigned" /\ event.to = q.arg
      BY <1>1, <1>2, <1>6 DEF AssignmentEvent, AssignmentStatus
    <2>6. /\ news \in Seq(Notification) /\ Len(news) <= 1
          /\ \A kind \in CountedKinds :
                (news # <<>> /\ news[1].kind = kind) <=> Announces(q) = kind
      <3>1. [recipient |-> q.arg, kind |-> "assignment_created"] \in Notification
        BY <1>2, <1>6 DEF Notification, NotificationKind
      <3>2. QED
        BY <1>6, <3>1 DEF Announces
    <2>7. AssignWrites(q, row) =
            [work_items |-> updated, status_history |-> change,
             assignments |-> row2, assignment_history |-> event,
             notifications |-> news]
      BY DEF AssignWrites
    <2> HIDE DEF updated, change, row2, event, news
    <2>8. QED
      BY <1>6, <2>1, <2>2, <2>3, <2>4, <2>5, <2>6, <2>7
      DEF Planned, AllTables, Tables
  <1>7. CASE q.op = "Respond"
    <2> DEFINE a == assignments[q.item]
               accept == q.arg = "accepted"
               updated == [row EXCEPT !.status = ResponseStatus(accept),
                                      !.assignedTo = IF accept THEN @ ELSE NoUser]
               change == StatusChangeOf(row, ResponseStatus(accept), q.by, TRUE)
               row2 == [a EXCEPT !.status = q.arg]
               event == [action |-> q.arg, by |-> q.by.user, to |-> a.to]
               news == IF accept
                       THEN <<[recipient |-> a.by, kind |-> "assignment_accepted"]>>
                       ELSE <<>>
    <2>1. /\ WritesOf(q, row) = AnswerWrites(q, row)
          /\ TargetStatus(q) = ResponseStatus(accept)
      BY <1>7 DEF WritesOf, TargetStatus
    <2>2. a \in Assignment
      <3>1. a.status = "assigned"
        BY <1>7 DEF Permitted, MayRespond
      <3>2. QED
        BY <1>1, <3>1, TablesTyped DEF NoAssignment
    <2>3. ResponseStatus(accept) \in Status
      BY DEF ResponseStatus, Status
    <2>4. /\ updated \in WorkItem /\ updated.status = ResponseStatus(accept)
          /\ updated.assignedTo \in {row.assignedTo, NoUser}
      BY <2>3 DEF WorkItem
    <2>5. /\ change \in StatusChange /\ change.from = row.status
          /\ change.to = ResponseStatus(accept)
      BY <1>3, <2>3 DEF StatusChangeOf
    <2>6. row2 \in Assignment /\ row2.status = q.arg
      BY <1>2, <1>7, <2>2 DEF Assignment, AssignmentStatus
    <2>7. event \in AssignmentEvent /\ event.action = q.arg
      BY <1>1, <1>2, <1>7, <2>2 DEF AssignmentEvent, AssignmentStatus, Assignment
    <2>8. /\ news \in Seq(Notification) /\ Len(news) <= 1
          /\ \A kind \in CountedKinds :
                (news # <<>> /\ news[1].kind = kind) <=> Announces(q) = kind
      <3>1. [recipient |-> a.by, kind |-> "assignment_accepted"] \in Notification
        BY <2>2 DEF Notification, NotificationKind, Assignment
      <3>2. <<[recipient |-> a.by, kind |-> "assignment_accepted"]>>
                \in Seq(Notification)
        BY <3>1
      <3>3. CASE accept
        BY <1>7, <3>2, <3>3 DEF Announces
      <3>4. CASE ~accept
        BY <1>7, <3>4 DEF Announces, CountedKinds
      <3>5. QED
        BY <3>3, <3>4
    <2>9. AnswerWrites(q, row) =
            [work_items |-> updated, status_history |-> change,
             assignments |-> row2, assignment_history |-> event,
             notifications |-> news]
      BY DEF AnswerWrites
    <2> HIDE DEF updated, change, row2, event, news
    <2>10. QED
      BY <1>7, <2>1, <2>2, <2>4, <2>5, <2>6, <2>7, <2>8, <2>9
      DEF Planned, AllTables, Tables
  <1>8. QED
    BY <1>2, <1>4, <1>5, <1>6, <1>7

-----------------------------------------------------------------------------
(* What a step may do to the tables of one work item, and to one slot.     *)

\* The rows of T that the request in r has planned become visible.
Performed(r, T) ==
    LET w == request[r].item
        ws == writes[r] IN
    /\ T \subseteq DOMAIN ws
    /\ items'[w] = IF "work_items" \in T THEN ws.work_items ELSE items[w]
    /\ statusHistory'[w] =
            IF "status_history" \in T
            THEN Append(statusHistory[w], ws.status_history) ELSE statusHistory[w]
    /\ assignments'[w] =
            IF "assignments" \in T
            THEN AssignmentAfter(assignments[w], ws.assignments) ELSE assignments[w]
    /\ assignmentHistory'[w] =
            IF "assignment_history" \in T
            THEN Append(assignmentHistory[w], ws.assignment_history)
            ELSE assignmentHistory[w]
    /\ notifications'[w] =
            IF "notifications" \in T
            THEN notifications[w] \o ws.notifications ELSE notifications[w]

Kept(w) ==
    /\ items'[w] = items[w] /\ assignments'[w] = assignments[w]
    /\ statusHistory'[w] = statusHistory[w]
    /\ assignmentHistory'[w] = assignmentHistory[w]
    /\ notifications'[w] = notifications[w]

Born(w) ==
    /\ items[w] = NoItem /\ items'[w] \in WorkItem
    /\ items'[w].status = "created" /\ items'[w].assignedTo = NoUser
    /\ assignments'[w] = assignments[w]
    /\ statusHistory'[w] = statusHistory[w]
    /\ assignmentHistory'[w] = assignmentHistory[w]
    /\ notifications'[w] = notifications[w]

Waits(r) ==
    /\ request'[r] = request[r] /\ seen'[r] = seen[r] /\ writes'[r] = writes[r]
    /\ \/ stage'[r] = stage[r]
       \/ /\ stage[r] = "evidence" /\ stage'[r] = "admitted"
          /\ attachments[request[r].item] > 0
       \/ /\ stage[r] = "writing" /\ stage'[r] = "locked"
          /\ setting.transactional

Starts(r) ==
    /\ stage[r] = "idle"
    /\ writes'[r] = <<>>
    /\ request'[r] \in Requests
    /\ items[request'[r].item] \in WorkItem
    /\ \/ stage'[r] = "saving" /\ request'[r].op = "Upload" /\ seen'[r] = NoItem
       \/ /\ stage'[r] = "evidence" /\ seen'[r] = NoItem
          /\ request'[r].op = "ChangeStatus"
          /\ request'[r].arg = "submitted_for_review"
       \/ /\ stage'[r] = "read" /\ seen'[r] = items[request'[r].item]
          /\ request'[r].op # "Upload" /\ ~Gated(request'[r])
          /\ RowAllows(request'[r], seen'[r])

Reads(r) ==
    /\ stage[r] = "admitted" /\ stage'[r] = "read"
    /\ request'[r] = request[r] /\ writes'[r] = writes[r]
    /\ seen'[r] = items[request[r].item]
    /\ RowAllows(request[r], seen'[r])

Decides(r) ==
    /\ stage[r] = "read" /\ stage'[r] = "writing"
    /\ request'[r] = request[r] /\ seen'[r] = seen[r]
    /\ Permitted(request[r], seen[r])
    /\ writes'[r] = WritesOf(request[r], seen[r])

\* A request ends: refused or rolled back, or with the last of its writes.
Cleared(r) ==
    /\ stage'[r] = "idle" /\ request'[r] = NoRequest
    /\ seen'[r] = NoItem /\ writes'[r] = <<>>

Drops(r) ==
    /\ Cleared(r)
    /\ stage[r] \notin {"writing", "locked"} \/ setting.transactional

Completes(r) ==
    /\ stage[r] \in {"writing", "locked"}
    /\ Cleared(r)
    /\ Performed(r, DOMAIN writes[r])

Proceeds(r) ==
    LET t == NextTable(writes[r]) IN
    /\ ~setting.transactional
    /\ stage[r] = "writing" /\ stage'[r] = "writing"
    /\ request'[r] = request[r] /\ seen'[r] = seen[r]
    /\ Performed(r, {t})
    /\ DOMAIN writes[r] \ {t} # {}
    /\ writes'[r] = [x \in DOMAIN writes[r] \ {t} |-> writes[r][x]]

Moves(r) == Waits(r) \/ Starts(r) \/ Reads(r) \/ Decides(r) \/ Drops(r)

Writes(r) == Completes(r) \/ Proceeds(r)

\* A step of the request in r changes no other slot, and only the tables of the
\* work item it writes to.
SlotStep(r) ==
    /\ \A s \in Slots \ {r} : Waits(s)
    /\ \/ Moves(r) /\ \A w \in WorkItems : Kept(w)
       \/ Writes(r) /\ \A w \in WorkItems : w # request[r].item => Kept(w)

\* The same, seen from one slot and from one work item.
SlotOutcome(r) == Moves(r) \/ Writes(r)

WrittenBy(w, r) == request[r].item = w /\ Writes(r)

TableOutcome(w) ==
    /\ Kept(w) \/ Born(w) \/ \E r \in Slots : WrittenBy(w, r)
    /\ attachments'[w] \in Nat /\ attachments'[w] >= attachments[w]

AttachmentsGrow ==
    \A w \in WorkItems : attachments'[w] \in Nat /\ attachments'[w] >= attachments[w]

LEMMA FinishClears ==
    ASSUME TypeInv, NEW r \in Slots, Finish(r)
    PROVE  Cleared(r) /\ \A s \in Slots \ {r} : Waits(s)
  BY DEF TypeInv, Finish, Cleared, Waits

LEMMA PerformIsPerformed ==
    ASSUME TypeInv, NEW r \in Slots, stage[r] # "idle",
           NEW T \in SUBSET DOMAIN writes[r],
           NEW ws, DOMAIN ws = T, \A t \in T : ws[t] = writes[r][t],
           Perform(request[r].item, ws)
    PROVE  /\ Performed(r, T)
           /\ \A w \in WorkItems : w # request[r].item => Kept(w)
  <1> DEFINE w == request[r].item
  <1>1. w \in WorkItems
    BY RequestFields DEF TypeInv, SlotTyped
  <1>2. /\ DOMAIN items = WorkItems /\ DOMAIN assignments = WorkItems
        /\ DOMAIN statusHistory = WorkItems /\ DOMAIN assignmentHistory = WorkItems
        /\ DOMAIN notifications = WorkItems
    BY TablesTyped DEF TypeInv
  <1>3. /\ "work_items" \in T => ws.work_items = writes[r].work_items
        /\ "status_history" \in T => ws.status_history = writes[r].status_history
        /\ "assignments" \in T => ws.assignments = writes[r].assignments
        /\ "assignment_history" \in T =>
                ws.assignment_history = writes[r].assignment_history
        /\ "notifications" \in T => ws.notifications = writes[r].notifications
    OBVIOUS
  <1>4. Performed(r, T)
    BY <1>1, <1>2, <1>3, TablesTyped DEF Perform, Performed, TypeInv
  <1>5. \A v \in WorkItems : v # w => Kept(v)
    BY <1>1, <1>2, TablesTyped DEF Perform, Kept, TypeInv
  <1>6. QED
    BY <1>4, <1>5

\* What the server does for a request is a step of its slot.
LEMMA ServesAreSlotSteps ==
    ASSUME TypeInv, NEW r \in Slots, Serve(r)
    PROVE  SlotStep(r) /\ AttachmentsGrow /\ setting' = setting
  <1> DEFINE w == request[r].item
             q == request[r]
             OthersWait == \A s \in Slots \ {r} : Waits(s)
  <1>1. /\ DOMAIN stage = Slots /\ DOMAIN seen = Slots /\ DOMAIN writes = Slots
        /\ SlotTyped(r) /\ stage[r] \in Stage /\ setting \in Settings
    BY DEF TypeInv, SlotTyped
  <1>2. \A v \in WorkItems : attachments[v] \in Nat
    BY TablesTyped DEF TypeInv
  <1>3. UNCHANGED attachments => AttachmentsGrow
    BY <1>2 DEF AttachmentsGrow
  <1>4. UNCHANGED tables => \A v \in WorkItems : Kept(v)
    BY DEF Kept, tables
  <1>5. ASSUME Finish(r), UNCHANGED tables,
               stage[r] \notin {"writing", "locked"} \/ setting.transactional
        PROVE  SlotStep(r)
    BY <1>4, <1>5, FinishClears DEF SlotStep, Moves, Drops
  <1>6. CASE CheckEvidence(r)
    <2>1. stage[r] = "evidence" /\ UNCHANGED <<tables, attachments, surroundings>>
      BY <1>6 DEF CheckEvidence
    <2>2. CASE attachments[w] > 0
      <3>1. GoTo(r, "admitted")
        BY <1>6, <2>2 DEF CheckEvidence
      <3>2. Waits(r) /\ OthersWait
        BY <1>1, <2>1, <2>2, <3>1 DEF GoTo, Waits, TypeInv
      <3>3. QED
        BY <1>3, <1>4, <2>1, <3>2 DEF SlotStep, Moves, surroundings
    <2>3. CASE ~(attachments[w] > 0)
      <3>1. Finish(r)
        BY <1>6, <2>3 DEF CheckEvidence
      <3>2. QED
        BY <1>3, <1>5, <2>1, <3>1 DEF surroundings
    <2>4. QED
      BY <2>2, <2>3
  <1>7. CASE SaveAttachment(r)
    <2>1. SlotStep(r)
      BY <1>5, <1>7 DEF SaveAttachment
    <2>2. w \in WorkItems
      BY <1>1, <1>7, RequestFields DEF SlotTyped, SaveAttachment
    <2>3. \A v \in WorkItems : attachments'[v] \in Nat /\ attachments'[v] >= attachments[v]
      BY <1>2, <1>7, <2>2, TablesTyped DEF SaveAttachment, TypeInv
    <2>4. QED
      BY <1>7, <2>1, <2>3 DEF SaveAttachment, surroundings, AttachmentsGrow
  <1>8. CASE Admit(r)
    <2>1. stage[r] = "admitted" /\ UNCHANGED <<tables, attachments, surroundings>>
      BY <1>8 DEF Admit
    <2>2. CASE RowAllows(q, items[w])
      <3>1. ReadRow(r, q) /\ UNCHANGED <<request, writes>>
        BY <1>8, <2>2 DEF Admit
      <3>2. Reads(r) /\ OthersWait
        BY <1>1, <2>1, <2>2, <3>1 DEF ReadRow, Reads, Waits
      <3>3. QED
        BY <1>3, <1>4, <2>1, <3>2 DEF SlotStep, Moves, surroundings
    <2>3. CASE ~RowAllows(q, items[w])
      <3>1. Finish(r)
        BY <1>8, <2>3 DEF Admit
      <3>2. QED
        BY <1>3, <1>5, <2>1, <3>1 DEF surroundings
    <2>4. QED
      BY <2>2, <2>3
  <1>9. CASE Decide(r)
    <2>1. stage[r] = "read" /\ UNCHANGED <<tables, attachments, surroundings>>
      BY <1>9 DEF Decide
    <2>2. CASE Permitted(q, seen[r])
      <3>1. Decides(r) /\ OthersWait
        BY <1>1, <1>9, <2>2 DEF Decide, Decides, Waits
      <3>2. QED
        BY <1>3, <1>4, <2>1, <3>1 DEF SlotStep, Moves, surroundings
    <2>3. CASE ~Permitted(q, seen[r])
      <3>1. Finish(r)
        BY <1>9, <2>3 DEF Decide
      <3>2. QED
        BY <1>3, <1>5, <2>1, <3>1 DEF surroundings
    <2>4. QED
      BY <2>2, <2>3
  <1>10. CASE Write(r)
    <2> DEFINE t == NextTable(writes[r])
               rest == DOMAIN writes[r] \ {t}
    <2>1. /\ ~setting.transactional /\ stage[r] = "writing"
          /\ Perform(w, [x \in {t} |-> writes[r][x]])
          /\ UNCHANGED <<attachments, surroundings>>
      BY <1>10 DEF Write
    <2>2. /\ DOMAIN writes[r] \subseteq Tables /\ DOMAIN writes[r] # {}
      BY <1>1, <2>1 DEF SlotTyped, Planned
    <2>3. t \in DOMAIN writes[r]
      BY <2>2, NextTableIsLeft
    <2>4. t = NextTable(writes[r])
      OBVIOUS
    <2> HIDE DEF t
    <2>5. /\ Performed(r, {t})
          /\ \A v \in WorkItems : v # w => Kept(v)
      <3>1. DOMAIN [x \in {t} |-> writes[r][x]] = {t}
            /\ \A x \in {t} : [y \in {t} |-> writes[r][y]][x] = writes[r][x]
        OBVIOUS
      <3>2. QED
        BY <2>1, <2>3, <3>1, PerformIsPerformed
    <2>6. CASE rest = {}
      <3>1. Finish(r) /\ DOMAIN writes[r] = {t}
        BY <1>10, <2>3, <2>6 DEF Write, t
      <3>2. Completes(r) /\ OthersWait
        BY <2>1, <2>5, <3>1, FinishClears DEF Completes
      <3>3. QED
        BY <1>3, <2>1, <2>5, <3>2 DEF SlotStep, Writes, surroundings
    <2>7. CASE rest # {}
      <3>1. /\ writes' = [writes EXCEPT ![r] = [x \in rest |-> @[x]]]
            /\ UNCHANGED <<stage, request, seen>>
        BY <1>10, <2>7 DEF Write, t
      <3>2. Proceeds(r) /\ OthersWait
        BY <1>1, <2>1, <2>3, <2>4, <2>5, <2>7, <3>1 DEF Proceeds, Waits
      <3>3. QED
        BY <1>3, <2>1, <2>5, <3>2 DEF SlotStep, Writes, surroundings
    <2>8. QED
      BY <2>6, <2>7
  <1>11. CASE TakeRow(r)
    <2>1. Waits(r) /\ OthersWait
      BY <1>1, <1>11 DEF TakeRow, GoTo, Waits
    <2>2. QED
      BY <1>3, <1>4, <1>11, <2>1 DEF SlotStep, Moves, TakeRow, surroundings
  <1>12. CASE Commit(r)
    <2>1. /\ stage[r] = "locked" /\ Perform(w, writes[r]) /\ Finish(r)
          /\ UNCHANGED <<attachments, surroundings>>
      BY <1>1, <1>12 DEF Commit
    <2>2. /\ Performed(r, DOMAIN writes[r])
          /\ \A v \in WorkItems : v # w => Kept(v)
      BY <2>1, PerformIsPerformed
    <2>3. Completes(r) /\ OthersWait
      BY <2>1, <2>2, FinishClears DEF Completes
    <2>4. QED
      BY <1>3, <2>1, <2>2, <2>3 DEF SlotStep, Writes, surroundings
  <1>13. QED
    BY <1>6, <1>7, <1>8, <1>9, <1>10, <1>11, <1>12 DEF Serve

LEMMA StartsAreSlotSteps ==
    ASSUME TypeInv, NEW r \in Slots, NEW q \in Requests, Start(r, q)
    PROVE  SlotStep(r) /\ AttachmentsGrow /\ setting' = setting
  <1> DEFINE OthersWait == \A s \in Slots \ {r} : Waits(s)
  <1>1. /\ DOMAIN stage = Slots /\ DOMAIN seen = Slots /\ DOMAIN request = Slots
        /\ SlotTyped(r) /\ setting \in Settings
    BY DEF TypeInv
  <1>2. /\ stage[r] = "idle" /\ Exists(items[q.item])
        /\ request' = [request EXCEPT ![r] = q]
        /\ UNCHANGED <<tables, attachments, surroundings, writes>>
    BY DEF Start, Arrive, Idle
  <1>3. items[q.item] \in WorkItem
    BY <1>1, <1>2, RequestFields, TablesTyped DEF TypeInv, Exists
  <1>4. request'[r] = q /\ writes'[r] = <<>> /\ seen[r] = NoItem
    BY <1>1, <1>2 DEF SlotTyped
  <1>5. ASSUME View(r, q) PROVE Starts(r) /\ OthersWait
    <2>1. /\ Gated(q) /\ seen' = seen
          /\ stage' = [stage EXCEPT ![r] = IF q.op = "Upload" THEN "saving"
                                          ELSE "evidence"]
      BY <1>5 DEF View
    <2>2. Starts(r)
      BY <1>1, <1>2, <1>3, <1>4, <2>1 DEF Gated, Starts
    <2>3. OthersWait
      BY <1>1, <1>2, <2>1 DEF Waits
    <2>4. QED
      BY <2>2, <2>3
  <1>6. ASSUME ~Gated(q), ReadRow(r, q) PROVE Starts(r) /\ OthersWait
    <2>1. /\ RowAllows(q, items[q.item])
          /\ stage' = [stage EXCEPT ![r] = "read"]
          /\ seen' = [seen EXCEPT ![r] = items[q.item]]
      BY <1>6 DEF ReadRow
    <2>2. seen'[r] = items[q.item] /\ stage'[r] = "read" /\ q.op # "Upload"
      BY <1>1, <1>6, <2>1 DEF Gated
    <2>3. Starts(r)
      BY <1>2, <1>3, <1>4, <1>6, <2>1, <2>2 DEF Starts
    <2>4. OthersWait
      BY <1>1, <1>2, <2>1 DEF Waits
    <2>5. QED
      BY <2>3, <2>4
  <1>7. AttachmentsGrow
    BY <1>2, TablesTyped DEF TypeInv, AttachmentsGrow
  <1>8. \A w \in WorkItems : Kept(w)
    BY <1>2 DEF Kept, tables
  <1>9. SlotStep(r)
    BY <1>5, <1>6, <1>8 DEF Start, SlotStep, Moves
  <1>10. QED
    BY <1>2, <1>7, <1>9 DEF surroundings

\* Every step leaves the requests alone or is a step of one of them.
LEMMA StepsAreSlotSteps ==
    ASSUME TypeInv, [Next]_vars
    PROVE  /\ \/ /\ \A r \in Slots : Waits(r)
                 /\ \A w \in WorkItems : Kept(w) \/ Born(w)
              \/ \E r \in Slots : SlotStep(r)
           /\ AttachmentsGrow
           /\ setting' = setting
  <1> DEFINE Goal == /\ \/ /\ \A r \in Slots : Waits(r)
                           /\ \A w \in WorkItems : Kept(w) \/ Born(w)
                        \/ \E r \in Slots : SlotStep(r)
                     /\ AttachmentsGrow
                     /\ setting' = setting
  <1>1. UNCHANGED attachments => AttachmentsGrow
    BY TablesTyped DEF TypeInv, AttachmentsGrow
  <1>2. ASSUME NEW w \in WorkItems, NEW p \in setting.principals,
               NEW content \in Contents, Create(w, p, content)
        PROVE  Goal
    <2>1. /\ UNCHANGED <<slotVars, setting>>
          /\ items[w] = NoItem
          /\ items' = [items EXCEPT ![w] =
                [status |-> "created", createdBy |-> p.user,
                 assignedTo |-> NoUser, content |-> content]]
          /\ UNCHANGED <<assignments, statusHistory, assignmentHistory,
                         notifications, attachments>>
      BY <1>2, SameRows DEF Create, Lifecycle!Create, Lifecycle!Exists
    <2>2. p.user \in Users
      BY PrincipalsAssumption, SettingsAssumption DEF TypeInv, Principal
    <2>3. [status |-> "created", createdBy |-> p.user,
           assignedTo |-> NoUser, content |-> content] \in WorkItem
      BY <2>2 DEF WorkItem, Status
    <2>4. Born(w)
      BY <2>1, <2>3, TablesTyped DEF Born, TypeInv
    <2>5. \A v \in WorkItems : v # w => Kept(v)
      BY <2>1, TablesTyped DEF Kept, TypeInv
    <2>6. \A r \in Slots : Waits(r)
      BY <2>1 DEF Waits, slotVars
    <2>7. QED
      BY <1>1, <2>1, <2>4, <2>5, <2>6
  <1>3. ASSUME NEW r \in Slots, Serve(r) \/ \E q \in Requests : Start(r, q)
        PROVE  Goal
    BY <1>3, StartsAreSlotSteps, ServesAreSlotSteps
  <1>4. ASSUME NEW r \in Slots, Abort(r)
        PROVE  Goal
    <2>1. Cleared(r) /\ \A s \in Slots \ {r} : Waits(s)
      BY <1>4, FinishClears DEF Abort
    <2>2. setting.transactional /\ UNCHANGED <<tables, attachments, surroundings>>
      BY <1>4 DEF Abort
    <2>3. SlotStep(r)
      BY <2>1, <2>2 DEF SlotStep, Moves, Drops, Kept, tables
    <2>4. QED
      BY <1>1, <2>2, <2>3 DEF surroundings
  <1>5. CASE TeamStep \/ UNCHANGED vars
    <2>1. UNCHANGED <<tables, attachments, slotVars, setting>>
      BY <1>5 DEF TeamStep, vars, surroundings
    <2>2. QED
      BY <1>1, <2>1 DEF Waits, Kept, tables, slotVars
  <1>6. QED
    BY <1>2, <1>3, <1>4, <1>5 DEF Next

LEMMA StepOutcomes ==
    ASSUME TypeInv, [Next]_vars
    PROVE  /\ \A r \in Slots : SlotOutcome(r)
           /\ \A w \in WorkItems : TableOutcome(w)
           /\ setting' = setting
  <1>1. ASSUME NEW r \in Slots, SlotStep(r)
        PROVE  /\ \A s \in Slots : SlotOutcome(s)
               /\ \A w \in WorkItems : Kept(w) \/ WrittenBy(w, r)
    BY <1>1 DEF SlotStep, SlotOutcome, Moves, WrittenBy
  <1>2. QED
    BY <1>1, StepsAreSlotSteps
    DEF SlotOutcome, Moves, TableOutcome, AttachmentsGrow

\* What a step that writes makes visible.
LEMMA WritesPerform ==
    ASSUME TypeInv, NEW r \in Slots, Writes(r)
    PROVE  /\ stage[r] \in {"writing", "locked"} /\ SlotTyped(r)
           /\ request[r] \in Requests /\ request[r].item \in WorkItems
           /\ \E T : /\ Performed(r, T) /\ T \subseteq DOMAIN writes[r]
                     /\ setting.transactional => T = DOMAIN writes[r]
  <1>1. stage[r] \in {"writing", "locked"} /\ SlotTyped(r) /\ setting \in Settings
    BY DEF Writes, Completes, Proceeds, TypeInv
  <1>2. request[r] \in Requests /\ request[r].item \in WorkItems
    BY <1>1, RequestFields DEF SlotTyped
  <1>3. QED
    BY <1>1, <1>2 DEF Writes, Completes, Proceeds, Performed

\* The variables stay functions of the work items, and of the slots.
ItemFunctions ==
    /\ items = [w \in WorkItems |-> items[w]]
    /\ assignments = [w \in WorkItems |-> assignments[w]]
    /\ statusHistory = [w \in WorkItems |-> statusHistory[w]]
    /\ assignmentHistory = [w \in WorkItems |-> assignmentHistory[w]]
    /\ notifications = [w \in WorkItems |-> notifications[w]]
    /\ attachments = [w \in WorkItems |-> attachments[w]]

SlotFunctions ==
    /\ stage = [r \in Slots |-> stage[r]] /\ request = [r \in Slots |-> request[r]]
    /\ seen = [r \in Slots |-> seen[r]] /\ writes = [r \in Slots |-> writes[r]]

LEMMA FunctionsStay ==
    ASSUME TypeInv, [Next]_vars
    PROVE  ItemFunctions' /\ SlotFunctions'
  <1>1. ItemFunctions
    BY TablesTyped DEF TypeInv, ItemFunctions
  <1>2. SlotFunctions
    BY DEF TypeInv, SlotFunctions
  <1>3. ASSUME UNCHANGED tables PROVE
            /\ items' = [w \in WorkItems |-> items'[w]]
            /\ assignments' = [w \in WorkItems |-> assignments'[w]]
            /\ statusHistory' = [w \in WorkItems |-> statusHistory'[w]]
            /\ assignmentHistory' = [w \in WorkItems |-> assignmentHistory'[w]]
            /\ notifications' = [w \in WorkItems |-> notifications'[w]]
    BY <1>1, <1>3 DEF ItemFunctions, tables
  <1>4. ASSUME NEW w, NEW ws, Perform(w, ws) PROVE
            /\ items' = [v \in WorkItems |-> items'[v]]
            /\ assignments' = [v \in WorkItems |-> assignments'[v]]
            /\ statusHistory' = [v \in WorkItems |-> statusHistory'[v]]
            /\ assignmentHistory' = [v \in WorkItems |-> assignmentHistory'[v]]
            /\ notifications' = [v \in WorkItems |-> notifications'[v]]
    BY <1>1, <1>4 DEF ItemFunctions, Perform
  <1>5. ASSUME UNCHANGED attachments
        PROVE  attachments' = [w \in WorkItems |-> attachments'[w]]
    BY <1>1, <1>5 DEF ItemFunctions
  <1>6. ASSUME NEW r, Finish(r) PROVE SlotFunctions'
    BY <1>2, <1>6 DEF SlotFunctions, Finish
  <1>7. ASSUME NEW r, NEW next, GoTo(r, next) PROVE SlotFunctions'
    BY <1>2, <1>7 DEF SlotFunctions, GoTo
  <1>8. ASSUME NEW r \in Slots, Serve(r) PROVE ItemFunctions' /\ SlotFunctions'
    <2>1. CASE CheckEvidence(r)
      BY <1>3, <1>5, <1>6, <1>7, <2>1 DEF CheckEvidence, ItemFunctions
    <2>2. CASE SaveAttachment(r)
      <3>1. attachments' = [w \in WorkItems |-> attachments'[w]]
        BY <1>1, <2>2 DEF SaveAttachment, ItemFunctions
      <3>2. QED
        BY <1>3, <1>6, <2>2, <3>1 DEF SaveAttachment, ItemFunctions
    <2>3. CASE Admit(r)
      <3>1. CASE RowAllows(request[r], items[request[r].item])
        <4>1. ReadRow(r, request[r]) /\ UNCHANGED <<request, writes>>
          BY <2>3, <3>1 DEF Admit
        <4>2. SlotFunctions'
          BY <1>2, <4>1 DEF SlotFunctions, ReadRow
        <4>3. QED
          BY <1>3, <1>5, <2>3, <4>2 DEF Admit, ItemFunctions
      <3>2. CASE ~RowAllows(request[r], items[request[r].item])
        BY <1>3, <1>5, <1>6, <2>3, <3>2 DEF Admit, ItemFunctions
      <3>3. QED
        BY <3>1, <3>2
    <2>4. CASE Decide(r)
      <3>1. CASE Permitted(request[r], seen[r])
        <4>1. SlotFunctions'
          BY <1>2, <2>4, <3>1 DEF SlotFunctions, Decide
        <4>2. QED
          BY <1>3, <1>5, <2>4, <4>1 DEF Decide, ItemFunctions
      <3>2. CASE ~Permitted(request[r], seen[r])
        BY <1>3, <1>5, <1>6, <2>4, <3>2 DEF Decide, ItemFunctions
      <3>3. QED
        BY <3>1, <3>2
    <2>5. CASE Write(r)
      <3> DEFINE t == NextTable(writes[r])
                 rest == DOMAIN writes[r] \ {t}
      <3>1. ItemFunctions'
        BY <1>4, <1>5, <2>5 DEF Write, ItemFunctions
      <3>2. CASE rest = {}
        BY <1>6, <2>5, <3>1, <3>2 DEF Write
      <3>3. CASE rest # {}
        <4>1. SlotFunctions'
          BY <1>2, <2>5, <3>3 DEF SlotFunctions, Write
        <4>2. QED
          BY <3>1, <4>1
      <3>4. QED
        BY <3>2, <3>3
    <2>6. CASE TakeRow(r)
      BY <1>3, <1>5, <1>7, <2>6 DEF TakeRow, ItemFunctions
    <2>7. CASE Commit(r)
      BY <1>4, <1>5, <1>6, <2>7 DEF Commit, ItemFunctions
    <2>8. QED
      BY <1>8, <2>1, <2>2, <2>3, <2>4, <2>5, <2>6, <2>7 DEF Serve
  <1>9. ASSUME NEW r \in Slots, NEW q \in Requests, Start(r, q)
        PROVE  ItemFunctions' /\ SlotFunctions'
    <2>1. /\ request' = [request EXCEPT ![r] = q]
          /\ UNCHANGED <<tables, attachments, surroundings, writes>>
      BY <1>9 DEF Start, Arrive
    <2>2. SlotFunctions'
      BY <1>2, <1>9, <2>1 DEF SlotFunctions, Start, View, ReadRow
    <2>3. QED
      BY <1>3, <1>5, <2>1, <2>2 DEF ItemFunctions
  <1>10. ASSUME NEW w, NEW p, NEW content, Create(w, p, content)
         PROVE  ItemFunctions' /\ SlotFunctions'
    <2>1. /\ UNCHANGED <<slotVars, setting>>
          /\ items' = [items EXCEPT ![w] =
                [status |-> "created", createdBy |-> p.user,
                 assignedTo |-> NoUser, content |-> content]]
          /\ UNCHANGED <<assignments, statusHistory, assignmentHistory,
                         notifications, attachments>>
      BY <1>10, SameRows DEF Create, Lifecycle!Create
    <2>2. ItemFunctions'
      BY <1>1, <2>1 DEF ItemFunctions
    <2>3. QED
      BY <1>2, <2>1, <2>2 DEF SlotFunctions, slotVars
  <1>11. ASSUME NEW r \in Slots, Abort(r) PROVE ItemFunctions' /\ SlotFunctions'
    BY <1>3, <1>5, <1>6, <1>11 DEF Abort, ItemFunctions
  <1>12. CASE TeamStep \/ UNCHANGED vars
    <2>1. UNCHANGED <<tables, attachments, slotVars>>
      BY <1>12 DEF TeamStep, vars
    <2>2. QED
      BY <1>2, <1>3, <1>5, <2>1 DEF ItemFunctions, SlotFunctions, slotVars
  <1>13. QED
    BY <1>8, <1>9, <1>10, <1>11, <1>12 DEF Next

\* The teams keep their types.
LEMMA TeamsStayTyped ==
    ASSUME TypeInv, [Next]_vars
    PROVE  TeamTypeOK'
  <1> USE TeamAssumption DEF TeamTypeOK, AddAssignee, AddSupervisor, RemoveSupervisor
  <1>1. TeamTypeOK
    BY TablesTyped DEF TypeInv
  <1>2. ASSUME NEW team \in Teams, NEW u \in TeamMembers, AddAssignee(team, u)
        PROVE  TeamTypeOK'
    BY <1>1, <1>2
  <1>3. ASSUME NEW team \in Teams, NEW u \in TeamSupervisors,
               AddSupervisor(team, u) \/ RemoveSupervisor(team, u)
        PROVE  TeamTypeOK'
    BY <1>1, <1>3
  <1>4. CASE TeamStep
    BY <1>2, <1>3, <1>4 DEF TeamStep, TeamNext
  <1>5. CASE UNCHANGED <<memberOf, supervisions>>
    BY <1>1, <1>5
  <1>6. ASSUME NEW w, NEW p, NEW content, Create(w, p, content)
        PROVE  UNCHANGED <<memberOf, supervisions>>
    BY <1>6 DEF Create, Lifecycle!Create, Lifecycle!teamVars
  <1>7. ASSUME NEW r, \/ Serve(r) \/ Abort(r) \/ \E q \in Requests : Start(r, q)
        PROVE  UNCHANGED <<memberOf, supervisions>>
    BY <1>7 DEF Serve, CheckEvidence, SaveAttachment, Admit, Decide, Write,
       TakeRow, Commit, Abort, Start, Arrive, surroundings
  <1>8. UNCHANGED vars => UNCHANGED <<memberOf, supervisions>>
    BY DEF vars, surroundings
  <1>9. QED
    BY <1>4, <1>5, <1>6, <1>7, <1>8 DEF Next

\* What a request writes to the table of assignments is an assignment.
LEMMA AnswersAreAssignments ==
    ASSUME TypeInv, NEW r \in Slots, stage[r] \in {"writing", "locked"},
           "assignments" \in DOMAIN writes[r]
    PROVE  LET q == request[r]
               a == AssignmentAfter(assignments[q.item], writes[r].assignments) IN
           /\ a \in Assignment
           /\ a.status = writes[r].assignments.status
           /\ a.status = IF q.op = "Assign" THEN "assigned" ELSE q.arg
           /\ q.op \in {"Assign", "Respond"}
  <1> DEFINE q == request[r]
             written == writes[r].assignments
             current == assignments[q.item]
  <1>1. /\ written \in Assignment /\ q.op \in {"Assign", "Respond"}
        /\ written.status = IF q.op = "Assign" THEN "assigned" ELSE q.arg
        /\ q.op = "Respond" => current \in Assignment
    BY DEF TypeInv, SlotTyped, Planned
  <1>2. CASE setting.transactional /\ written.status # "assigned"
    <2>1. current \in Assignment /\ written.status \in AssignmentStatus
      BY <1>1, <1>2 DEF Assignment
    <2>2. AssignmentAfter(current, written) = [current EXCEPT !.status = written.status]
      BY <1>2 DEF AssignmentAfter
    <2>3. QED
      BY <1>1, <2>1, <2>2 DEF Assignment
  <1>3. CASE ~(setting.transactional /\ written.status # "assigned")
    BY <1>1, <1>3 DEF AssignmentAfter
  <1>4. QED
    BY <1>2, <1>3

LEMMA TablesStayTyped ==
    ASSUME TypeInv, [Next]_vars
    PROVE  /\ Lifecycle!TypeOK'
           /\ \A w \in WorkItems :
                /\ items[w] \in WorkItem => items'[w] \in WorkItem
                /\ assignments[w] \in Assignment => assignments'[w] \in Assignment
  <1>1. ASSUME NEW w \in WorkItems
        PROVE  /\ items'[w] \in WorkItem \cup {NoItem}
               /\ assignments'[w] \in Assignment \cup {NoAssignment}
               /\ statusHistory'[w] \in Seq(StatusChange)
               /\ assignmentHistory'[w] \in Seq(AssignmentEvent)
               /\ notifications'[w] \in Seq(Notification)
               /\ attachments'[w] \in Nat
               /\ items[w] \in WorkItem => items'[w] \in WorkItem
               /\ assignments[w] \in Assignment => assignments'[w] \in Assignment
    <2>1. TableOutcome(w)
      BY StepOutcomes
    <2>2. /\ items[w] \in WorkItem \cup {NoItem}
          /\ assignments[w] \in Assignment \cup {NoAssignment}
          /\ statusHistory[w] \in Seq(StatusChange)
          /\ assignmentHistory[w] \in Seq(AssignmentEvent)
          /\ notifications[w] \in Seq(Notification)
      BY TablesTyped DEF TypeInv
    <2>3. CASE Kept(w)
      BY <2>1, <2>2, <2>3 DEF Kept, TableOutcome
    <2>4. CASE Born(w)
      BY <2>1, <2>2, <2>4 DEF Born, TableOutcome
    <2>5. ASSUME NEW r \in Slots, WrittenBy(w, r)
          PROVE  /\ items'[w] \in WorkItem \cup {NoItem}
                 /\ assignments'[w] \in Assignment \cup {NoAssignment}
                 /\ statusHistory'[w] \in Seq(StatusChange)
                 /\ assignmentHistory'[w] \in Seq(AssignmentEvent)
                 /\ notifications'[w] \in Seq(Notification)
                 /\ items[w] \in WorkItem => items'[w] \in WorkItem
                 /\ assignments[w] \in Assignment => assignments'[w] \in Assignment
      <3>1. PICK T : Performed(r, T)
        BY <2>5, WritesPerform DEF WrittenBy
      <3>2. /\ request[r].item = w /\ stage[r] \in {"writing", "locked"}
            /\ T \subseteq DOMAIN writes[r]
            /\ Planned(request[r], seen[r], writes[r])
        BY <2>5, <3>1, WritesPerform DEF WrittenBy, Performed, SlotTyped
      <3>3. "work_items" \in T => writes[r].work_items \in WorkItem
        BY <3>2 DEF Planned
      <3>4. "status_history" \in T => writes[r].status_history \in StatusChange
        BY <3>2 DEF Planned
      <3>5. "assignment_history" \in T =>
                writes[r].assignment_history \in AssignmentEvent
        BY <3>2 DEF Planned
      <3>6. "notifications" \in T => writes[r].notifications \in Seq(Notification)
        BY <3>2 DEF Planned
      <3>7. "assignments" \in T =>
                AssignmentAfter(assignments[w], writes[r].assignments) \in Assignment
        BY <3>2, AnswersAreAssignments
      <3>8. /\ items'[w] \in {items[w], writes[r].work_items}
            /\ items'[w] # items[w] => "work_items" \in T
            /\ \/ assignments'[w] = assignments[w]
               \/ assignments'[w] \in Assignment
        BY <3>1, <3>2, <3>7 DEF Performed
      <3>9. statusHistory'[w] \in Seq(StatusChange)
        <4>1. \/ statusHistory'[w] = statusHistory[w]
              \/ /\ "status_history" \in T
                 /\ statusHistory'[w] =
                        Append(statusHistory[w], writes[r].status_history)
          BY <3>1, <3>2 DEF Performed
        <4>2. statusHistory[w] \in Seq(StatusChange)
          BY <2>2
        <4>3. QED
          BY <3>4, <4>1, <4>2
      <3>10. assignmentHistory'[w] \in Seq(AssignmentEvent)
        <4>1. \/ assignmentHistory'[w] = assignmentHistory[w]
              \/ /\ "assignment_history" \in T
                 /\ assignmentHistory'[w] =
                        Append(assignmentHistory[w], writes[r].assignment_history)
          BY <3>1, <3>2 DEF Performed
        <4>2. assignmentHistory[w] \in Seq(AssignmentEvent)
          BY <2>2
        <4>3. QED
          BY <3>5, <4>1, <4>2
      <3>11. notifications'[w] \in Seq(Notification)
        <4>1. \/ notifications'[w] = notifications[w]
              \/ /\ "notifications" \in T
                 /\ notifications'[w] =
                        notifications[w] \o writes[r].notifications
          BY <3>1, <3>2 DEF Performed
        <4>2. notifications[w] \in Seq(Notification)
          BY <2>2
        <4>3. CASE "notifications" \in T
          <5>1. notifications[w] \o writes[r].notifications \in Seq(Notification)
            BY <3>6, <4>2, <4>3, SeqConcatenated
          <5>2. QED
            BY <4>1, <4>2, <5>1
        <4>4. CASE "notifications" \notin T
          BY <4>1, <4>2, <4>4
        <4>5. QED
          BY <4>3, <4>4
      <3>12. QED
        BY <2>2, <3>3, <3>8, <3>9, <3>10, <3>11
    <2>6. QED
      BY <2>1, <2>3, <2>4, <2>5 DEF TableOutcome
  <1>2. TeamTypeOK'
    BY TeamsStayTyped
  <1>3. ItemFunctions'
    BY FunctionsStay
  <1>4. Lifecycle!TypeOK'
    <2>1. /\ items' \in [WorkItems -> WorkItem \cup {NoItem}]
          /\ assignments' \in [WorkItems -> Assignment \cup {NoAssignment}]
          /\ statusHistory' \in [WorkItems -> Seq(StatusChange)]
          /\ assignmentHistory' \in [WorkItems -> Seq(AssignmentEvent)]
          /\ notifications' \in [WorkItems -> Seq(Notification)]
          /\ attachments' \in [WorkItems -> Nat]
      BY <1>1, <1>3 DEF ItemFunctions
    <2>2. QED
      BY <1>2, <2>1, SameRows DEF Lifecycle!TypeOK, Lifecycle!TeamTypeOK, TeamTypeOK
  <1>5. QED
    BY <1>1, <1>4

LEMMA SlotsStayTyped ==
    ASSUME TypeInv, [Next]_vars, NEW r \in Slots
    PROVE  SlotTyped(r)'
  <1> DEFINE q == request[r]
  <1>1. SlotOutcome(r) /\ setting' = setting
    BY StepOutcomes
  <1>2. SlotTyped(r) /\ setting \in Settings /\ Lifecycle!TypeOK
    BY DEF TypeInv
  <1>3. Requests' = Requests
    BY <1>1 DEF Requests
  <1>4. q \in Requests => q.item \in WorkItems
    BY <1>2, RequestFields
  <1>5. \A w \in WorkItems :
            /\ items[w] \in WorkItem => items'[w] \in WorkItem
            /\ assignments[w] \in Assignment => assignments'[w] \in Assignment
    BY TablesStayTyped
  <1>6. CASE Waits(r)
    BY <1>1, <1>2, <1>3, <1>4, <1>5, <1>6 DEF Waits, SlotTyped, Stage
  <1>7. CASE Starts(r)
    <2>1. request'[r] \in Requests /\ request'[r].item \in WorkItems
      BY <1>2, <1>7, RequestFields DEF Starts
    <2>2. items'[request'[r].item] \in WorkItem
      BY <1>5, <1>7, <2>1 DEF Starts
    <2>3. QED
      BY <1>1, <1>2, <1>3, <1>7, <2>1, <2>2 DEF Starts, SlotTyped, Stage
  <1>8. CASE Reads(r)
    BY <1>1, <1>2, <1>3, <1>4, <1>5, <1>8 DEF Reads, SlotTyped, Stage
  <1>9. CASE Decides(r)
    <2>1. /\ DOMAIN writes'[r] # {} /\ Planned(q, seen[r], writes'[r])
          /\ DOMAIN writes'[r] = AllTables(q)
          /\ q.op = "Respond" => assignments[q.item] \in Assignment
      BY <1>2, <1>9, WritesArePlanned DEF Decides, SlotTyped
    <2>2. QED
      BY <1>1, <1>2, <1>3, <1>4, <1>5, <1>9, <2>1 DEF Decides, SlotTyped, Stage
  <1>10. CASE Proceeds(r)
    <2> DEFINE t == NextTable(writes[r])
    <2>1. /\ DOMAIN writes[r] \ {t} # {}
          /\ writes'[r] = [x \in DOMAIN writes[r] \ {t} |-> writes[r][x]]
      BY <1>10 DEF Proceeds
    <2>2. Planned(q, seen[r], writes[r])
      BY <1>2, <1>10 DEF Proceeds, SlotTyped
    <2>3. Planned(q, seen[r], writes'[r])
      <3>1. "work_items" \in DOMAIN writes[r] => t = "work_items"
        BY <2>1, <2>2, NextTableIsLeft DEF Planned
      <3> HIDE DEF t
      <3> DEFINE ws2 == writes'[r]
      <3>2. /\ DOMAIN ws2 \subseteq DOMAIN writes[r]
            /\ \A x \in DOMAIN ws2 : ws2[x] = writes[r][x]
            /\ "work_items" \notin DOMAIN ws2
        BY <2>1, <3>1
      <3>3. /\ "status_history" \in DOMAIN ws2 =>
                    ws2.status_history = writes[r].status_history
            /\ "assignments" \in DOMAIN ws2 => ws2.assignments = writes[r].assignments
            /\ "assignment_history" \in DOMAIN ws2 =>
                    ws2.assignment_history = writes[r].assignment_history
            /\ "notifications" \in DOMAIN ws2 =>
                    ws2.notifications = writes[r].notifications
        BY <3>2
      <3> HIDE DEF ws2
      <3>4. Planned(q, seen[r], ws2)
        BY <2>2, <3>2, <3>3 DEF Planned
      <3>5. QED
        BY <3>4 DEF ws2
    <2>4. DOMAIN writes'[r] # {}
      BY <2>1
    <2>5. QED
      BY <1>1, <1>2, <1>3, <1>4, <1>5, <1>10, <2>3, <2>4 DEF Proceeds, SlotTyped, Stage
  <1>11. CASE Cleared(r)
    BY <1>11 DEF Cleared, SlotTyped, Stage
  <1>12. QED
    BY <1>1, <1>6, <1>7, <1>8, <1>9, <1>10, <1>11
    DEF SlotOutcome, Moves, Writes, Drops, Completes

LEMMA TypeInvStep ==
    ASSUME TypeInv, [Next]_vars
    PROVE  TypeInv'
  <1>1. Lifecycle!TypeOK'
    BY TablesStayTyped
  <1>2. setting' \in Settings
    BY StepOutcomes DEF TypeInv
  <1>3. SlotFunctions'
    BY FunctionsStay
  <1>4. \A r \in Slots : SlotTyped(r)'
    BY SlotsStayTyped
  <1>5. QED
    BY <1>1, <1>2, <1>3, <1>4 DEF TypeInv, SlotFunctions

LEMMA TypeInvInit == Init => TypeInv
  <1> SUFFICES ASSUME Init PROVE TypeInv
    OBVIOUS
  <1>1. Lifecycle!TypeOK
    BY SameRows, TablesTyped
    DEF Init, Lifecycle!Init, TeamTypeOK, Lifecycle!TeamInit
  <1>2. QED
    BY <1>1 DEF Init, TypeInv, SlotTyped, Stage

LEMMA AlwaysTyped == Spec => []TypeInv
  <1>1. QED
    BY TypeInvInit, TypeInvStep, PTL DEF Spec

\* The tables and the requests in flight keep their types; only a request that
\* has decided has writes to make, and it has read a row.
THEOREM TypeCorrect == Spec => []TypeOK
  BY AlwaysTyped, TypeInvGivesTypes, PTL

-----------------------------------------------------------------------------
(* What transactions write is visible at once.                             *)

LEMMA AppendedTo ==
    ASSUME NEW S, NEW s \in Seq(S), NEW e \in S
    PROVE  /\ Len(s) \in Nat /\ DOMAIN s = 1..Len(s)
           /\ DOMAIN Append(s, e) = 1..Len(s)+1
           /\ Len(Append(s, e)) = Len(s) + 1
           /\ Append(s, e)[Len(s) + 1] = e
           /\ \A k \in 1..Len(s) : Append(s, e)[k] = s[k]
  OBVIOUS

\* A transaction writes the row together with the entries that record it.
LEMMA CommitsAreWhole ==
    ASSUME TypeInv, setting.transactional, NEW w \in WorkItems, NEW r \in Slots,
           WrittenBy(w, r)
    PROVE  LET q == request[r] IN
           /\ seen[r] \in WorkItem /\ stage[r] \in {"writing", "locked"}
           /\ q \in Requests /\ q.item = w
           /\ \/ /\ q.op = "Update"
                 /\ items'[w].status = seen[r].status
                 /\ statusHistory'[w] = statusHistory[w]
                 /\ UNCHANGED <<assignments[w], assignmentHistory[w]>>
              \/ /\ q.op # "Update"
                 /\ \E c \in StatusChange :
                        /\ statusHistory'[w] = Append(statusHistory[w], c)
                        /\ c.from = seen[r].status /\ c.to = items'[w].status
                 /\ \/ UNCHANGED <<assignments[w], assignmentHistory[w]>>
                    \/ \E e \in AssignmentEvent :
                        /\ assignmentHistory'[w] = Append(assignmentHistory[w], e)
                        /\ assignments'[w].status = e.action
  <1> DEFINE q == request[r]
             ws == writes[r]
  <1>1. /\ Performed(r, DOMAIN ws) /\ q.item = w
        /\ stage[r] \in {"writing", "locked"}
    BY WritesPerform DEF WrittenBy
  <1>2. /\ q \in Requests /\ seen[r] \in WorkItem /\ Planned(q, seen[r], ws)
        /\ DOMAIN ws = AllTables(q)
    BY <1>1 DEF TypeInv, SlotTyped
  <1>3. CASE q.op = "Update"
    <2>1. DOMAIN ws = {"work_items"}
      BY <1>2, <1>3 DEF AllTables
    <2>2. items'[w] = ws.work_items /\ ws.work_items.status = seen[r].status
      BY <1>1, <1>2, <1>3, <2>1 DEF Performed, Planned
    <2>3. /\ statusHistory'[w] = statusHistory[w] /\ assignments'[w] = assignments[w]
          /\ assignmentHistory'[w] = assignmentHistory[w]
      BY <1>1, <2>1 DEF Performed
    <2>4. QED
      BY <1>1, <1>2, <1>3, <2>2, <2>3
  <1>4. CASE q.op # "Update"
    <2>1. {"work_items", "status_history"} \subseteq DOMAIN ws
      BY <1>2, <1>4 DEF AllTables, Tables
    <2>2. /\ items'[w] = ws.work_items /\ ws.work_items.status = TargetStatus(q)
          /\ ws.status_history \in StatusChange
          /\ ws.status_history.from = seen[r].status
          /\ ws.status_history.to = TargetStatus(q)
          /\ statusHistory'[w] = Append(statusHistory[w], ws.status_history)
      BY <1>1, <1>2, <1>4, <2>1 DEF Performed, Planned
    <2>3. CASE q.op \in {"Assign", "Respond"}
      <3>1. {"assignments", "assignment_history"} \subseteq DOMAIN ws
        BY <1>2, <2>3 DEF AllTables, Tables
      <3>2. /\ assignmentHistory'[w] = Append(assignmentHistory[w], ws.assignment_history)
            /\ ws.assignment_history \in AssignmentEvent
            /\ assignments'[w] = AssignmentAfter(assignments[w], ws.assignments)
            /\ ws.assignments.status = ws.assignment_history.action
        BY <1>1, <1>2, <3>1 DEF Performed, Planned
      <3>3. AssignmentAfter(assignments[w], ws.assignments).status
                = ws.assignments.status
        BY <1>1, <3>1, AnswersAreAssignments
      <3>4. QED
        BY <1>1, <1>2, <1>4, <2>2, <3>2, <3>3
    <2>4. CASE q.op \notin {"Assign", "Respond"}
      <3>1. /\ assignments'[w] = assignments[w]
            /\ assignmentHistory'[w] = assignmentHistory[w]
        BY <1>1, <1>2, <1>4, <2>4 DEF Performed, AllTables
      <3>2. QED
        BY <1>1, <1>2, <1>4, <2>2, <3>1
    <2>5. QED
      BY <2>3, <2>4
  <1>5. QED
    BY <1>3, <1>4

\* Entries are only ever added to the histories.
LEMMA HistoriesGrow ==
    ASSUME TypeInv, [Next]_vars, NEW w \in WorkItems
    PROVE  /\ \/ statusHistory'[w] = statusHistory[w]
              \/ \E c \in StatusChange :
                    statusHistory'[w] = Append(statusHistory[w], c)
           /\ \/ assignmentHistory'[w] = assignmentHistory[w]
              \/ \E e \in AssignmentEvent :
                    assignmentHistory'[w] = Append(assignmentHistory[w], e)
  <1>1. CASE Kept(w) \/ Born(w)
    BY <1>1 DEF Kept, Born
  <1>2. ASSUME NEW r \in Slots, WrittenBy(w, r)
        PROVE  /\ \/ statusHistory'[w] = statusHistory[w]
                  \/ \E c \in StatusChange :
                        statusHistory'[w] = Append(statusHistory[w], c)
               /\ \/ assignmentHistory'[w] = assignmentHistory[w]
                  \/ \E e \in AssignmentEvent :
                        assignmentHistory'[w] = Append(assignmentHistory[w], e)
    <2>1. PICK T : Performed(r, T)
      BY <1>2, WritesPerform DEF WrittenBy
    <2>2. /\ request[r].item = w /\ T \subseteq DOMAIN writes[r]
          /\ Planned(request[r], seen[r], writes[r])
      BY <1>2, <2>1, WritesPerform DEF WrittenBy, Performed, SlotTyped
    <2>3. "status_history" \in T => writes[r].status_history \in StatusChange
      BY <2>2 DEF Planned
    <2>4. "assignment_history" \in T =>
                writes[r].assignment_history \in AssignmentEvent
      BY <2>2 DEF Planned
    <2>5. QED
      BY <2>1, <2>2, <2>3, <2>4 DEF Performed
  <1>3. QED
    BY <1>1, <1>2, StepOutcomes DEF TableOutcome

-----------------------------------------------------------------------------
(* No status from nowhere.                                                 *)

\* The statuses work item w has been in.
Known(w) ==
    {"created"} \cup {statusHistory[w][j].to : j \in DOMAIN statusHistory[w]}

\* The statuses work items are in, and were in when requests read them, are on
\* record. (In memory a request can read a row before its entry is written.)
KnownInv ==
    setting.transactional =>
        /\ \A w \in WorkItems : items[w].status \in Known(w) \cup {"absent"}
        /\ \A r \in Slots : stage[r] \in {"read", "writing", "locked"} =>
                seen[r].status \in Known(request[r].item)

LEMMA KnownGrows ==
    ASSUME TypeInv, [Next]_vars, NEW w \in WorkItems
    PROVE  Known(w) \subseteq Known(w)'
  <1>1. statusHistory[w] \in Seq(StatusChange)
    BY TablesTyped DEF TypeInv
  <1>2. CASE statusHistory'[w] = statusHistory[w]
    BY <1>2 DEF Known
  <1>3. ASSUME NEW c \in StatusChange,
               statusHistory'[w] = Append(statusHistory[w], c)
        PROVE  Known(w) \subseteq Known(w)'
    <2> DEFINE h == statusHistory[w]
               h2 == statusHistory'[w]
    <2>1. \A j \in DOMAIN h : j \in DOMAIN h2 /\ h2[j] = h[j]
      BY <1>1, <1>3, AppendedTo
    <2>2. QED
      BY <2>1 DEF Known
  <1>4. QED
    BY <1>2, <1>3, HistoriesGrow

LEMMA KnownStep ==
    ASSUME TypeInv, KnownInv, NoStatusFromNowhere, [Next]_vars
    PROVE  KnownInv' /\ NoStatusFromNowhere'
  <1>1. setting' = setting /\ setting \in Settings
    BY StepOutcomes DEF TypeInv
  <1> SUFFICES ASSUME setting.transactional PROVE KnownInv' /\ NoStatusFromNowhere'
    BY <1>1 DEF KnownInv, NoStatusFromNowhere
  <1>2. \A w \in WorkItems : Known(w) \subseteq Known(w)'
    BY KnownGrows
  <1>3. ASSUME NEW r \in Slots, stage[r] \in {"read", "writing", "locked"}
        PROVE  seen[r].status \in Known(request[r].item)
    BY <1>3 DEF KnownInv
  <1>4. ASSUME NEW w \in WorkItems
        PROVE  /\ (items[w].status \in Known(w) \cup {"absent"})'
               /\ \A k \in DOMAIN statusHistory'[w] :
                    \/ statusHistory'[w][k].from = "created"
                    \/ \E j \in 1..k-1 :
                        statusHistory'[w][j].to = statusHistory'[w][k].from
    <2> DEFINE h == statusHistory[w]
               h2 == statusHistory'[w]
    <2>1. /\ h \in Seq(StatusChange)
          /\ items[w].status \in Known(w) \cup {"absent"}
      BY TablesTyped DEF TypeInv, KnownInv
    <2>2. \A k \in DOMAIN h : \/ h[k].from = "created"
                              \/ \E j \in 1..k-1 : h[j].to = h[k].from
      BY DEF NoStatusFromNowhere
    <2>3. CASE h2 = h
      <3>1. (items[w].status \in Known(w) \cup {"absent"})'
        <4>1. CASE Kept(w)
          BY <1>2, <2>1, <4>1 DEF Kept
        <4>2. CASE Born(w)
          BY <4>2 DEF Born, Known
        <4>3. ASSUME NEW r \in Slots, WrittenBy(w, r)
              PROVE  (items[w].status \in Known(w) \cup {"absent"})'
          <5>1. \A c \in StatusChange : h2 # Append(h, c)
            BY <2>1, <2>3, AppendedTo
          <5>2. /\ items'[w].status = seen[r].status /\ request[r].item = w
                /\ stage[r] \in {"writing", "locked"}
            BY <4>3, <5>1, CommitsAreWhole
          <5>3. QED
            BY <1>2, <1>3, <5>2
        <4>4. QED
          BY <4>1, <4>2, <4>3, StepOutcomes DEF TableOutcome
      <3>2. QED
        BY <2>2, <2>3, <3>1
    <2>4. CASE h2 # h
      <3>1. PICK r \in Slots : WrittenBy(w, r)
        BY <2>4, StepOutcomes DEF TableOutcome, Kept, Born
      <3>2. /\ stage[r] \in {"writing", "locked"} /\ request[r].item = w
            /\ \E c \in StatusChange :
                /\ h2 = Append(h, c)
                /\ c.from = seen[r].status /\ c.to = items'[w].status
        BY <2>4, <3>1, CommitsAreWhole
      <3>3. PICK c \in StatusChange :
                /\ h2 = Append(h, c)
                /\ c.from = seen[r].status /\ c.to = items'[w].status
        BY <3>2
      <3>4. /\ Len(h) \in Nat /\ DOMAIN h = 1..Len(h) /\ DOMAIN h2 = 1..Len(h)+1
            /\ h2[Len(h)+1] = c
            /\ \A k \in 1..Len(h) : h2[k] = h[k]
        BY <2>1, <3>3, AppendedTo
      <3>5. (items[w].status \in Known(w) \cup {"absent"})'
        <4>1. Len(h)+1 \in DOMAIN h2 /\ h2[Len(h)+1].to = items'[w].status
          BY <3>3, <3>4
        <4>2. QED
          BY <4>1 DEF Known
      <3>6. c.from \in Known(w)
        BY <1>3, <3>2, <3>3
      <3>7. \/ c.from = "created"
            \/ \E j \in 1..Len(h) : h[j].to = c.from
        BY <3>4, <3>6 DEF Known
      <3>8. ASSUME NEW k \in DOMAIN h2
            PROVE  h2[k].from = "created" \/ \E j \in 1..k-1 : h2[j].to = h2[k].from
        <4>1. CASE k = Len(h) + 1
          <5>1. h2[k] = c /\ k - 1 = Len(h)
            BY <3>4, <4>1
          <5>2. QED
            BY <3>4, <3>7, <5>1
        <4>2. CASE k # Len(h) + 1
          <5>1. k \in DOMAIN h /\ h2[k] = h[k] /\ \A j \in 1..k-1 : h2[j] = h[j]
            BY <3>4, <4>2
          <5>2. QED
            BY <2>2, <5>1
        <4>3. QED
          BY <4>1, <4>2
      <3>9. QED
        BY <3>5, <3>8
    <2>5. QED
      BY <2>3, <2>4
  <1>5. ASSUME NEW r \in Slots, stage'[r] \in {"read", "writing", "locked"}
        PROVE  (seen[r].status \in Known(request[r].item))'
    <2>1. SlotTyped(r) /\ SlotTyped(r)' /\ Requests' = Requests
      BY <1>1, SlotsStayTyped DEF TypeInv, Requests
    <2>2. request'[r] \in Requests /\ request'[r].item \in WorkItems
          /\ seen'[r] \in WorkItem
      BY <1>1, <1>5, <2>1, RequestFields DEF SlotTyped
    <2>3. CASE /\ stage[r] \in {"read", "writing", "locked"}
               /\ request'[r] = request[r] /\ seen'[r] = seen[r]
      BY <1>2, <1>3, <2>2, <2>3
    <2>4. CASE seen'[r] = items[request'[r].item]
      <3>1. seen'[r].status \in Known(request'[r].item) \cup {"absent"}
        BY <2>2, <2>4 DEF KnownInv
      <3>2. seen'[r].status # "absent"
        BY <2>2 DEF WorkItem, Status
      <3>3. QED
        BY <1>2, <2>2, <3>1, <3>2
    <2>5. QED
      BY <1>5, <2>1, <2>3, <2>4, StepOutcomes
      DEF SlotOutcome, Moves, Writes, Drops, Completes, Waits, Starts, Reads, Decides,
          Proceeds, Cleared, SlotTyped
  <1>6. KnownInv'
    BY <1>1, <1>4, <1>5 DEF KnownInv
  <1>7. NoStatusFromNowhere'
    BY <1>4 DEF NoStatusFromNowhere
  <1>8. QED
    BY <1>6, <1>7

\* However requests overlap, with stale rows written back over newer ones, in
\* Postgres no work item leaves a status it never entered: what a request read
\* was on record when it read it, and stays so.
THEOREM NoStatusIsFromNowhere == Spec => []NoStatusFromNowhere
  <1>1. Init => KnownInv /\ NoStatusFromNowhere
    <2> SUFFICES ASSUME Init PROVE KnownInv /\ NoStatusFromNowhere
      OBVIOUS
    <2>1. /\ items = [w \in WorkItems |-> NoItem]
          /\ statusHistory = [w \in WorkItems |-> <<>>]
          /\ stage = [r \in Slots |-> "idle"]
      BY SameRows DEF Init, Lifecycle!Init
    <2>2. QED
      BY <2>1 DEF KnownInv, NoStatusFromNowhere, NoItem
  <1>2. TypeInv /\ KnownInv /\ NoStatusFromNowhere /\ [Next]_vars
            => KnownInv' /\ NoStatusFromNowhere'
    BY KnownStep
  <1>3. QED
    BY <1>1, <1>2, AlwaysTyped, PTL DEF Spec

-----------------------------------------------------------------------------
(* Rows and histories.                                                     *)

LEMMA RowsShowLastRecordStep ==
    ASSUME TypeInv, RowsShowLastRecord, [Next]_vars
    PROVE  RowsShowLastRecord'
  <1>1. setting' = setting /\ setting \in Settings
    BY StepOutcomes DEF TypeInv
  <1> SUFFICES ASSUME setting.transactional, "Update" \notin setting.operations,
                      NEW w \in WorkItems
               PROVE  LET h == statusHistory'[w]
                          e == assignmentHistory'[w] IN
                      /\ h # <<>> => items'[w].status = h[Len(h)].to
                      /\ e # <<>> => assignments'[w].status = e[Len(e)].action
    BY <1>1 DEF RowsShowLastRecord
  <1> DEFINE h == statusHistory[w]
             e == assignmentHistory[w]
  <1>2. /\ h # <<>> => items[w].status = h[Len(h)].to
        /\ e # <<>> => assignments[w].status = e[Len(e)].action
    BY DEF RowsShowLastRecord
  <1>3. h \in Seq(StatusChange) /\ e \in Seq(AssignmentEvent)
    BY TablesTyped DEF TypeInv
  <1>4. CASE Kept(w)
    BY <1>2, <1>4 DEF Kept
  <1>5. CASE Born(w)
    <2>1. items[w].status = "absent"
      BY <1>5 DEF Born, NoItem
    <2>2. h # <<>> => h[Len(h)] \in StatusChange
      BY <1>3
    <2>3. h = <<>>
      BY <1>2, <2>1, <2>2 DEF StatusChange, Status
    <2>4. QED
      BY <1>2, <1>5, <2>3 DEF Born
  <1>6. ASSUME NEW r \in Slots, WrittenBy(w, r)
        PROVE  /\ statusHistory'[w] # <<>> =>
                    items'[w].status = statusHistory'[w][Len(statusHistory'[w])].to
               /\ assignmentHistory'[w] # <<>> =>
                    assignments'[w].status =
                        assignmentHistory'[w][Len(assignmentHistory'[w])].action
    <2>1. /\ request[r] \in Requests
          /\ \/ request[r].op = "Update"
             \/ /\ \E c \in StatusChange :
                        statusHistory'[w] = Append(h, c) /\ c.to = items'[w].status
                /\ \/ UNCHANGED <<assignments[w], assignmentHistory[w]>>
                   \/ \E x \in AssignmentEvent :
                        /\ assignmentHistory'[w] = Append(e, x)
                        /\ assignments'[w].status = x.action
      BY <1>6, CommitsAreWhole
    <2>2. request[r].op # "Update"
      BY <1>1, <2>1, RequestFields
    <2>3. statusHistory'[w] # <<>> =>
                items'[w].status = statusHistory'[w][Len(statusHistory'[w])].to
      <3>1. PICK c \in StatusChange :
                statusHistory'[w] = Append(h, c) /\ c.to = items'[w].status
        BY <2>1, <2>2
      <3>2. QED
        BY <1>3, <3>1, AppendedTo
    <2>4. assignmentHistory'[w] # <<>> =>
                assignments'[w].status =
                    assignmentHistory'[w][Len(assignmentHistory'[w])].action
      <3>1. CASE UNCHANGED <<assignments[w], assignmentHistory[w]>>
        BY <1>2, <3>1
      <3>2. ASSUME NEW x \in AssignmentEvent,
                   assignmentHistory'[w] = Append(e, x),
                   assignments'[w].status = x.action
            PROVE  assignments'[w].status =
                        assignmentHistory'[w][Len(assignmentHistory'[w])].action
        BY <1>3, <3>2, AppendedTo
      <3>3. QED
        BY <2>1, <2>2, <3>1, <3>2
    <2>5. QED
      BY <2>3, <2>4
  <1>7. QED
    BY <1>4, <1>5, <1>6, StepOutcomes DEF TableOutcome

\* In Postgres, where nobody edits work items, the row shows the status recorded
\* last, and the assignment the answer recorded last, however the transactions
\* that wrote them overlapped.
THEOREM RowsAlwaysShowLastRecord == Spec => []RowsShowLastRecord
  <1>1. Init => RowsShowLastRecord
    <2> SUFFICES ASSUME Init PROVE RowsShowLastRecord
      OBVIOUS
    <2>1. /\ statusHistory = [w \in WorkItems |-> <<>>]
          /\ assignmentHistory = [w \in WorkItems |-> <<>>]
      BY DEF Init, Lifecycle!Init
    <2>2. QED
      BY <2>1 DEF RowsShowLastRecord
  <1>2. TypeInv /\ RowsShowLastRecord /\ [Next]_vars => RowsShowLastRecord'
    BY RowsShowLastRecordStep
  <1>3. QED
    BY <1>1, <1>2, AlwaysTyped, PTL DEF Spec

-----------------------------------------------------------------------------
(* The evidence gate.                                                      *)

Reviewed == {"submitted_for_review", "verified", "flagged", "completed"}

Submits(q) == q.op = "ChangeStatus" /\ q.arg = "submitted_for_review"

\* Evidence stands behind every review: behind those on record, those a request
\* has seen, and those it is about to start, from the moment the gate let it
\* through.
EvidenceInv ==
    /\ \A w \in WorkItems :
        (\/ items[w].status \in Reviewed
         \/ \E k \in DOMAIN statusHistory[w] : statusHistory[w][k].to \in Reviewed)
        => attachments[w] > 0
    /\ \A r \in Slots :
        LET q == request[r] IN
        (\/ stage[r] \in {"read", "writing", "locked"} /\ seen[r].status \in Reviewed
         \/ stage[r] \in {"admitted", "read", "writing", "locked"} /\ Submits(q))
        => attachments[q.item] > 0

\* Only a submission starts a review; everything later follows one.
LEMMA ReviewsStartWithSubmission ==
    ASSUME setting \in Settings, NEW q \in Requests, q.op \notin {"Update", "Upload"},
           NEW row \in WorkItem, RowAllows(q, row), TargetStatus(q) \in Reviewed
    PROVE  row.status \in Reviewed \/ Submits(q)
  <1>1. q.op \in DOMAIN Arguments /\ q.arg \in Arguments[q.op]
    BY RequestFields
  <1>2. /\ row.status \in Status
        /\ TargetStatus(q) \in ValidStatusTransitions[row.status]
    BY DEF WorkItem, RowAllows, IsValidTransition
  <1>3. TargetStatus(q) \in {"verified", "flagged", "completed"} =>
            row.status \in Reviewed
    BY <1>2 DEF ValidStatusTransitions, Status, Reviewed
  <1>4. TargetStatus(q) = "submitted_for_review" => Submits(q)
    BY <1>1, ArgumentsOf DEF TargetStatus, ResponseStatus, Submits
  <1>5. QED
    BY <1>3, <1>4 DEF Reviewed

LEMMA EvidenceStep ==
    ASSUME TypeInv, EvidenceInv, [Next]_vars
    PROVE  EvidenceInv'
  <1>1. setting' = setting /\ setting \in Settings
    BY StepOutcomes DEF TypeInv
  <1>2. ASSUME NEW w \in WorkItems, attachments[w] > 0
        PROVE  attachments'[w] > 0
    <2>1. /\ attachments[w] \in Nat /\ attachments'[w] \in Nat
          /\ attachments'[w] >= attachments[w]
      BY StepOutcomes, TablesTyped DEF TableOutcome, TypeInv
    <2>2. QED
      BY <1>2, <2>1
  <1>3. ASSUME NEW r \in Slots,
               \/ /\ stage[r] \in {"read", "writing", "locked"}
                  /\ seen[r].status \in Reviewed
               \/ /\ stage[r] \in {"admitted", "read", "writing", "locked"}
                  /\ Submits(request[r])
        PROVE  attachments[request[r].item] > 0
    BY <1>3 DEF EvidenceInv
  <1>4. ASSUME NEW w \in WorkItems,
               \/ items'[w].status \in Reviewed
               \/ \E k \in DOMAIN statusHistory'[w] :
                        statusHistory'[w][k].to \in Reviewed
        PROVE  attachments'[w] > 0
    <2> DEFINE h == statusHistory[w]
               h2 == statusHistory'[w]
    <2>1. h \in Seq(StatusChange)
      BY TablesTyped DEF TypeInv
    <2>2. (\/ items[w].status \in Reviewed
           \/ \E k \in DOMAIN h : h[k].to \in Reviewed)
          => attachments[w] > 0
      BY DEF EvidenceInv
    <2>3. CASE Kept(w)
      BY <1>2, <1>4, <2>2, <2>3 DEF Kept
    <2>4. CASE Born(w)
      <3>1. items'[w].status \notin Reviewed /\ h2 = h
        BY <2>4 DEF Born, Reviewed
      <3>2. QED
        BY <1>2, <1>4, <2>2, <3>1
    <2>5. ASSUME NEW r \in Slots, WrittenBy(w, r)
          PROVE  attachments'[w] > 0
      <3> DEFINE q == request[r]
                 ws == writes[r]
      <3>1. PICK T : Performed(r, T)
        BY <2>5, WritesPerform DEF WrittenBy
      <3>2. /\ q.item = w /\ T \subseteq DOMAIN ws /\ Planned(q, seen[r], ws)
            /\ stage[r] \in {"writing", "locked"} /\ q \in Requests
            /\ q.op # "Upload" /\ seen[r] \in WorkItem /\ RowAllows(q, seen[r])
        BY <2>5, <3>1, WritesPerform DEF WrittenBy, Performed, SlotTyped
      <3>3. CASE q.op = "Update"
        <4>1. "status_history" \notin T
          BY <3>2, <3>3 DEF Planned
        <4>2. h2 = h
          BY <3>1, <3>2, <4>1 DEF Performed
        <4>3. items'[w] = items[w] \/ items'[w].status = seen[r].status
          BY <3>1, <3>2, <3>3 DEF Performed, Planned
        <4>4. QED
          BY <1>2, <1>3, <1>4, <2>2, <3>2, <4>2, <4>3
      <3>4. CASE q.op # "Update"
        <4>1. TargetStatus(q) \in Reviewed => attachments[w] > 0
          BY <1>1, <1>3, <3>2, <3>4, ReviewsStartWithSubmission
        <4>2. items'[w] = items[w] \/ items'[w].status = TargetStatus(q)
          BY <3>1, <3>2, <3>4 DEF Performed, Planned
        <4>3. ASSUME NEW k \in DOMAIN h2
              PROVE  (k \in DOMAIN h /\ h2[k] = h[k]) \/ h2[k].to = TargetStatus(q)
          <5>1. CASE "status_history" \notin T
            BY <3>1, <3>2, <4>3, <5>1 DEF Performed
          <5>2. CASE "status_history" \in T
            <6>1. /\ h2 = Append(h, ws.status_history)
                  /\ ws.status_history.to = TargetStatus(q)
                  /\ ws.status_history \in StatusChange
              BY <3>1, <3>2, <5>2 DEF Performed, Planned
            <6>2. /\ Len(h) \in Nat /\ DOMAIN h = 1..Len(h)
                  /\ DOMAIN h2 = 1..Len(h)+1
                  /\ h2[Len(h)+1] = ws.status_history
                  /\ \A j \in 1..Len(h) : h2[j] = h[j]
              BY <2>1, <6>1, AppendedTo
            <6>3. QED
              BY <4>3, <6>1, <6>2
          <5>3. QED
            BY <5>1, <5>2
        <4>4. QED
          BY <1>2, <1>4, <2>2, <4>1, <4>2, <4>3
      <3>5. QED
        BY <3>3, <3>4
    <2>6. QED
      BY <2>3, <2>4, <2>5, StepOutcomes DEF TableOutcome
  <1>5. ASSUME NEW r \in Slots,
               \/ /\ stage'[r] \in {"read", "writing", "locked"}
                  /\ seen'[r].status \in Reviewed
               \/ /\ stage'[r] \in {"admitted", "read", "writing", "locked"}
                  /\ Submits(request'[r])
        PROVE  attachments'[request'[r].item] > 0
    <2>1. SlotTyped(r) /\ SlotTyped(r)' /\ Requests' = Requests
      BY <1>1, SlotsStayTyped DEF TypeInv, Requests
    <2>2. request'[r] \in Requests /\ request'[r].item \in WorkItems
      BY <1>1, <1>5, <2>1, RequestFields DEF SlotTyped
    <2>3. attachments[request'[r].item] > 0
      <3>1. CASE Waits(r)
        BY <1>3, <1>5, <3>1 DEF Waits
      <3>2. CASE Starts(r)
        <4>1. /\ stage'[r] = "read" => ~Submits(request'[r])
              /\ stage'[r] \notin {"admitted", "writing", "locked"}
          BY <3>2 DEF Starts, Gated, Submits
        <4>2. seen'[r] = items[request'[r].item] /\ seen'[r].status \in Reviewed
          BY <1>5, <3>2, <4>1 DEF Starts
        <4>3. QED
          BY <2>2, <4>2 DEF EvidenceInv
      <3>3. CASE Reads(r)
        BY <1>3, <1>5, <2>1, <2>2, <3>3 DEF Reads, SlotTyped, Submits
      <3>4. CASE Decides(r)
        BY <1>3, <1>5, <3>4 DEF Decides
      <3>5. CASE Proceeds(r)
        BY <1>3, <1>5, <3>5 DEF Proceeds
      <3>6. CASE Cleared(r)
        BY <1>5, <3>6 DEF Cleared
      <3>7. QED
        BY <3>1, <3>2, <3>3, <3>4, <3>5, <3>6, StepOutcomes
        DEF SlotOutcome, Moves, Writes, Drops, Completes
    <2>4. QED
      BY <1>2, <2>2, <2>3
  <1>6. QED
    BY <1>4, <1>5 DEF EvidenceInv

LEMMA EvidenceGivesReviewed == EvidenceInv => ReviewedWithEvidence
  BY DEF EvidenceInv, Reviewed, ReviewedWithEvidence, Lifecycle!ReviewedWithEvidence

\* Nothing was ever submitted for review, verified, flagged or completed without
\* an attachment, although the gate is asked before, and outside, the transaction
\* that submits, and although verdicts do not ask it: attachments only grow, and
\* what a request passed the gate with is still there when it writes.
THEOREM ReviewsAlwaysHaveEvidence == Spec => []ReviewedWithEvidence
  <1>1. Init => EvidenceInv
    <2> SUFFICES ASSUME Init PROVE EvidenceInv
      OBVIOUS
    <2>1. /\ items = [w \in WorkItems |-> NoItem]
          /\ statusHistory = [w \in WorkItems |-> <<>>]
          /\ stage = [r \in Slots |-> "idle"]
      BY SameRows DEF Init, Lifecycle!Init
    <2>2. QED
      BY <2>1 DEF EvidenceInv, NoItem, Reviewed
  <1>2. TypeInv /\ EvidenceInv /\ [Next]_vars => EvidenceInv'
    BY EvidenceStep
  <1>3. QED
    BY <1>1, <1>2, AlwaysTyped, EvidenceGivesReviewed, PTL DEF Spec

-----------------------------------------------------------------------------
(* Holders and offers.                                                     *)

\* The users work item w was offered to, as its history tells.
OfferedTo(w) ==
    {assignmentHistory[w][k].to : k \in
        {j \in DOMAIN assignmentHistory[w] : assignmentHistory[w][j].action = "assigned"}}

\* In memory the row of an offer is written before the event.
OffersSoon(r, w) ==
    /\ ~setting.transactional /\ stage[r] = "writing"
    /\ request[r].item = w /\ request[r].op = "Assign"
    /\ "assignment_history" \in DOMAIN writes[r]

Backing(w) ==
    {NoUser} \cup OfferedTo(w)
        \cup {request[r].arg : r \in {s \in Slots : OffersSoon(s, w)}}

\* Whoever holds a work item, or held it when a request read it, was offered
\* it, or the event that says so is about to be written.
HolderInv ==
    /\ \A w \in WorkItems : items[w].assignedTo \in Backing(w)
    /\ \A r \in Slots : stage[r] \in {"read", "writing", "locked"} =>
            seen[r].assignedTo \in Backing(request[r].item)

LEMMA OfferedToGrows ==
    ASSUME TypeInv, [Next]_vars, NEW w \in WorkItems
    PROVE  OfferedTo(w) \subseteq OfferedTo(w)'
  <1> DEFINE e == assignmentHistory[w]
             e2 == assignmentHistory'[w]
  <1>1. e \in Seq(AssignmentEvent)
    BY TablesTyped DEF TypeInv
  <1>2. ASSUME NEW j \in DOMAIN e PROVE j \in DOMAIN e2 /\ e2[j] = e[j]
    <2>1. CASE e2 = e
      BY <2>1
    <2>2. ASSUME NEW x \in AssignmentEvent, e2 = Append(e, x)
          PROVE  j \in DOMAIN e2 /\ e2[j] = e[j]
      BY <1>1, <2>2, AppendedTo
    <2>3. QED
      BY <2>1, <2>2, HistoriesGrow
  <1>3. QED
    BY <1>2 DEF OfferedTo

\* The event of an offer makes its target one of those it was offered to.
LEMMA OffersAreRecorded ==
    ASSUME TypeInv, NEW r \in Slots, stage[r] \in {"writing", "locked"},
           request[r].op = "Assign", NEW T, Performed(r, T),
           "assignment_history" \in T, NEW w, w = request[r].item
    PROVE  request[r].arg \in OfferedTo(w)'
  <1> DEFINE e == assignmentHistory[w]
             x == writes[r].assignment_history
  <1>1. /\ w \in WorkItems /\ "assignment_history" \in DOMAIN writes[r]
        /\ Planned(request[r], seen[r], writes[r])
    BY RequestFields DEF TypeInv, SlotTyped, Performed
  <1>2. /\ x \in AssignmentEvent /\ x.action = "assigned" /\ x.to = request[r].arg
        /\ assignmentHistory'[w] = Append(e, x)
    BY <1>1 DEF Planned, Performed
  <1>3. e \in Seq(AssignmentEvent)
    BY <1>1, TablesTyped DEF TypeInv
  <1> HIDE DEF x
  <1>4. /\ Len(e) + 1 \in DOMAIN assignmentHistory'[w]
        /\ assignmentHistory'[w][Len(e) + 1] = x
    BY <1>2, <1>3, AppendedTo
  <1>5. QED
    BY <1>2, <1>4 DEF OfferedTo

LEMMA BackingGrows ==
    ASSUME TypeInv, [Next]_vars, NEW w \in WorkItems
    PROVE  Backing(w) \subseteq Backing(w)'
  <1>1. setting' = setting
    BY StepOutcomes
  <1>2. OfferedTo(w) \subseteq OfferedTo(w)'
    BY OfferedToGrows
  <1>3. ASSUME NEW r \in Slots, OffersSoon(r, w)
        PROVE  request[r].arg \in Backing(w)'
    <2>1. /\ ~setting.transactional /\ stage[r] = "writing"
          /\ request[r].item = w /\ request[r].op = "Assign"
          /\ "assignment_history" \in DOMAIN writes[r]
      BY <1>3 DEF OffersSoon
    <2>2. CASE Waits(r)
      <3>1. OffersSoon(r, w)' /\ request'[r] = request[r]
        BY <1>1, <2>1, <2>2 DEF Waits, OffersSoon
      <3>2. QED
        BY <3>1 DEF Backing
    <2>3. CASE Completes(r)
      <3>1. request[r].arg \in OfferedTo(w)'
        BY <2>1, <2>3, OffersAreRecorded DEF Completes
      <3>2. QED
        BY <3>1 DEF Backing
    <2>4. CASE Proceeds(r)
      <3> DEFINE t == NextTable(writes[r])
      <3>1. /\ Performed(r, {t}) /\ stage'[r] = "writing" /\ request'[r] = request[r]
            /\ writes'[r] = [x \in DOMAIN writes[r] \ {t} |-> writes[r][x]]
        BY <2>4 DEF Proceeds
      <3> HIDE DEF t
      <3>2. CASE t = "assignment_history"
        <4>1. request[r].arg \in OfferedTo(w)'
          BY <2>1, <3>1, <3>2, OffersAreRecorded
        <4>2. QED
          BY <4>1 DEF Backing
      <3>3. CASE t # "assignment_history"
        <4>1. OffersSoon(r, w)'
          BY <1>1, <2>1, <3>1, <3>3 DEF OffersSoon
        <4>2. QED
          BY <3>1, <4>1 DEF Backing
      <3>4. QED
        BY <3>2, <3>3
    <2>5. QED
      BY <2>1, <2>2, <2>3, <2>4, StepOutcomes
      DEF SlotOutcome, Moves, Writes, Starts, Reads, Decides, Drops
  <1>4. QED
    BY <1>2, <1>3 DEF Backing

LEMMA HolderStep ==
    ASSUME TypeInv, HolderInv, [Next]_vars
    PROVE  HolderInv'
  <1>1. setting' = setting /\ setting \in Settings
    BY StepOutcomes DEF TypeInv
  <1>2. \A w \in WorkItems : Backing(w) \subseteq Backing(w)'
    BY BackingGrows
  <1>3. ASSUME NEW w \in WorkItems
        PROVE  items'[w].assignedTo \in Backing(w)'
    <2>1. items[w].assignedTo \in Backing(w)'
      BY <1>2 DEF HolderInv
    <2>2. NoUser \in Backing(w)'
      BY DEF Backing
    <2>3. CASE Kept(w)
      BY <2>1, <2>3 DEF Kept
    <2>4. CASE Born(w)
      BY <2>2, <2>4 DEF Born
    <2>5. ASSUME NEW r \in Slots, WrittenBy(w, r)
          PROVE  items'[w].assignedTo \in Backing(w)'
      <3> DEFINE q == request[r]
                 ws == writes[r]
      <3>1. /\ stage[r] \in {"writing", "locked"} /\ SlotTyped(r)
            /\ q \in Requests /\ q.item = w /\ Writes(r)
        BY <2>5, WritesPerform DEF WrittenBy
      <3>2. Planned(q, seen[r], ws)
        BY <3>1 DEF SlotTyped
      <3>3. seen[r].assignedTo \in Backing(w)'
        BY <1>2, <3>1 DEF HolderInv
      <3>4. \/ items'[w].assignedTo \in {items[w].assignedTo, seen[r].assignedTo, NoUser}
            \/ /\ q.op = "Assign" /\ items'[w].assignedTo = q.arg
               /\ \E T : Performed(r, T) /\ "work_items" \in T
        <4>1. PICK T : Performed(r, T)
          BY <3>1, WritesPerform
        <4>2. QED
          BY <3>1, <3>2, <4>1 DEF Performed, Planned
      <3>5. CASE q.op = "Assign" /\ Completes(r)
        <4>1. /\ Performed(r, DOMAIN ws)
          BY <3>5 DEF Completes
        <4>2. CASE "work_items" \in DOMAIN ws
          <5>1. "assignment_history" \in DOMAIN ws
            BY <3>2, <3>5, <4>2 DEF Planned
          <5>2. q.arg \in OfferedTo(w)'
            BY <3>1, <3>5, <4>1, <5>1, OffersAreRecorded
          <5>3. QED
            BY <2>1, <2>2, <3>3, <3>4, <5>2 DEF Backing
        <4>3. CASE "work_items" \notin DOMAIN ws
          BY <2>1, <3>1, <4>1, <4>3 DEF Performed
        <4>4. QED
          BY <4>2, <4>3
      <3>6. CASE q.op = "Assign" /\ Proceeds(r)
        <4> DEFINE t == NextTable(ws)
        <4>1. /\ Performed(r, {t}) /\ stage'[r] = "writing" /\ request'[r] = q
              /\ ~setting.transactional
              /\ writes'[r] = [x \in DOMAIN ws \ {t} |-> ws[x]]
          BY <3>6 DEF Proceeds
        <4> HIDE DEF t
        <4>2. CASE t = "work_items"
          <5>1. "assignment_history" \in DOMAIN ws
            BY <3>2, <3>6, <4>1, <4>2 DEF Planned, Performed
          <5>2. OffersSoon(r, w)'
            BY <1>1, <3>1, <3>6, <4>1, <4>2, <5>1 DEF OffersSoon
          <5>3. q.arg \in Backing(w)'
            BY <4>1, <5>2 DEF Backing
          <5>4. QED
            BY <2>1, <2>2, <3>3, <3>4, <5>3
        <4>3. CASE t # "work_items"
          BY <2>1, <3>1, <4>1, <4>3 DEF Performed
        <4>4. QED
          BY <4>2, <4>3
      <3>7. QED
        BY <2>1, <2>2, <3>1, <3>3, <3>4, <3>5, <3>6 DEF Writes
    <2>6. QED
      BY <2>3, <2>4, <2>5, StepOutcomes DEF TableOutcome
  <1>4. ASSUME NEW r \in Slots, stage'[r] \in {"read", "writing", "locked"}
        PROVE  (seen[r].assignedTo \in Backing(request[r].item))'
    <2>1. SlotTyped(r) /\ SlotTyped(r)' /\ Requests' = Requests
      BY <1>1, SlotsStayTyped DEF TypeInv, Requests
    <2>2. request'[r] \in Requests /\ request'[r].item \in WorkItems
      BY <1>1, <1>4, <2>1, RequestFields DEF SlotTyped
    <2>3. CASE /\ stage[r] \in {"read", "writing", "locked"}
               /\ request'[r] = request[r] /\ seen'[r] = seen[r]
      BY <1>2, <2>2, <2>3 DEF HolderInv
    <2>4. CASE seen'[r] = items[request'[r].item]
      BY <1>2, <2>2, <2>4 DEF HolderInv
    <2>5. QED
      BY <1>4, <2>1, <2>3, <2>4, StepOutcomes
      DEF SlotOutcome, Moves, Writes, Drops, Completes, Waits, Starts, Reads, Decides,
          Proceeds, Cleared, SlotTyped
  <1>5. QED
    BY <1>3, <1>4 DEF HolderInv

LEMMA HolderInvGivesOffers == TypeInv /\ HolderInv => HoldersWereOffered
  <1> SUFFICES ASSUME TypeInv, HolderInv, NEW w \in WorkItems,
                      items[w].assignedTo # NoUser,
                      setting.transactional \/ w \notin InFlight
               PROVE  \E k \in DOMAIN assignmentHistory[w] :
                        /\ assignmentHistory[w][k].action = "assigned"
                        /\ assignmentHistory[w][k].to = items[w].assignedTo
    BY DEF HoldersWereOffered
  <1>1. \A r \in Slots : ~OffersSoon(r, w)
    BY DEF OffersSoon, InFlight, Idle
  <1>2. items[w].assignedTo \in OfferedTo(w)
    BY <1>1 DEF HolderInv, Backing
  <1>3. QED
    BY <1>2 DEF OfferedTo

\* Nobody holds a work item that was not offered to him, however old the row
\* that was written back, in Postgres at any time, and in memory as soon as no
\* request about it is in flight.
THEOREM HoldersAlwaysWereOffered == Spec => []HoldersWereOffered
  <1>1. Init => HolderInv
    <2> SUFFICES ASSUME Init PROVE HolderInv
      OBVIOUS
    <2>1. /\ items = [w \in WorkItems |-> NoItem]
          /\ stage = [r \in Slots |-> "idle"]
      BY SameRows DEF Init, Lifecycle!Init
    <2>2. QED
      BY <2>1 DEF HolderInv, Backing, NoItem
  <1>2. TypeInv /\ HolderInv /\ [Next]_vars => HolderInv'
    BY HolderStep
  <1>3. QED
    BY <1>1, <1>2, AlwaysTyped, HolderInvGivesOffers, PTL DEF Spec

-----------------------------------------------------------------------------
(* The books.                                                              *)

AnyRequest ==
    UNION {[op : {o}, item : WorkItems, by : Principals, arg : Arguments[o]] :
              o \in DOMAIN Arguments}

\* The requests that record action in the assignment history, that move a work
\* item to status to, and that send a notification of kind.
Logging(action) ==
    {q \in AnyRequest : /\ q.op \in {"Assign", "Respond"}
                        /\ action = IF q.op = "Assign" THEN "assigned" ELSE q.arg}

Moving(to) ==
    {q \in AnyRequest : q.op \notin {"Update", "Upload"} /\ TargetStatus(q) = to}

Sending(kind) == {q \in AnyRequest : Announces(q) = kind}

Events(action) == {e \in AssignmentEvent : e.action = action}
ChangesTo(to) == {c \in StatusChange : c.to = to}
NewsOf(kind) == {n \in Notification : n.kind = kind}

\* The entries of s that are in A, by their places.
Places(s, A) == {k \in DOMAIN s : s[k] \in A}

\* The requests of M that have yet to write their row of table about w, where
\* rows become visible one by one.
Pending(w, table, M) ==
    {r \in Slots : /\ ~setting.transactional /\ stage[r] = "writing"
                   /\ request[r] \in M /\ request[r].item = w
                   /\ table \in DOMAIN writes[r]}

\* What is written, together with what is about to be.
EventBook(w, action) ==
    Cardinality(Places(assignmentHistory[w], Events(action)))
        + Cardinality(Pending(w, "assignment_history", Logging(action)))

MoveBook(w, to) ==
    Cardinality(Places(statusHistory[w], ChangesTo(to)))
        + Cardinality(Pending(w, "status_history", Moving(to)))

NewsBook(w, kind) ==
    Cardinality(Places(notifications[w], NewsOf(kind)))
        + Cardinality(Pending(w, "notifications", Sending(kind)))

Balanced(w) ==
    /\ EventBook(w, "assigned") = NewsBook(w, "assignment_created")
    /\ EventBook(w, "accepted") = NewsBook(w, "assignment_accepted")
    /\ EventBook(w, "assigned") <= MoveBook(w, "assigned")
    /\ EventBook(w, "accepted") <= MoveBook(w, "accepted")
    /\ EventBook(w, "declined") <= MoveBook(w, "created")
    /\ MoveBook(w, "submitted_for_review") = NewsBook(w, "evidence_submitted")

BooksInv == \A w \in WorkItems : Balanced(w)

Bit(b) == IF b THEN 1 ELSE 0

\* A request enters the books when its writes are certain to be made.
EntersBooks(r, w) ==
    /\ request[r].item = w
    /\ IF setting.transactional THEN Completes(r) ELSE Decides(r)

\* The step makes the row that r planned for the table visible.
Shows(r, table) ==
    \/ Completes(r) /\ table \in DOMAIN writes[r]
    \/ Proceeds(r) /\ table = NextTable(writes[r])

\* What the step adds to the books of M, and to the entries in the table.
Entering(r, w, M) == IF EntersBooks(r, w) /\ request[r] \in M THEN 1 ELSE 0

Showing(r, w, table, M) ==
    IF request[r].item = w /\ Shows(r, table) /\ request[r] \in M THEN 1 ELSE 0

LEMMA PlacesAreFinite ==
    ASSUME NEW S, NEW s \in Seq(S), NEW A
    PROVE  IsFiniteSet(Places(s, A)) /\ Cardinality(Places(s, A)) \in Nat
  <1>1. Len(s) \in Nat /\ DOMAIN s = 1..Len(s)
    OBVIOUS
  <1>2. IsFiniteSet(DOMAIN s)
    BY <1>1, FS_Interval
  <1>3. Places(s, A) \subseteq DOMAIN s
    BY DEF Places
  <1>4. QED
    BY <1>2, <1>3, FS_Subset, FS_CardinalityType

LEMMA OneMorePlace ==
    ASSUME NEW S, NEW s \in Seq(S), NEW e \in S, NEW A
    PROVE  Cardinality(Places(Append(s, e), A))
                = Cardinality(Places(s, A)) + Bit(e \in A)
  <1> DEFINE n == Len(s) + 1
  <1>1. /\ Len(s) \in Nat /\ DOMAIN s = 1..Len(s) /\ DOMAIN Append(s, e) = 1..n
        /\ Append(s, e)[n] = e /\ \A k \in 1..Len(s) : Append(s, e)[k] = s[k]
    BY AppendedTo
  <1>2. IsFiniteSet(Places(s, A)) /\ Cardinality(Places(s, A)) \in Nat
    BY PlacesAreFinite
  <1>3. CASE e \in A
    <2>1. Places(Append(s, e), A) = Places(s, A) \cup {n}
      BY <1>1, <1>3 DEF Places
    <2>2. n \notin Places(s, A)
      BY <1>1 DEF Places
    <2>3. QED
      BY <1>2, <1>3, <2>1, <2>2, FS_AddElement DEF Bit
  <1>4. CASE e \notin A
    <2>1. Places(Append(s, e), A) = Places(s, A)
      BY <1>1, <1>4 DEF Places
    <2>2. QED
      BY <1>2, <1>4, <2>1 DEF Bit
  <1>5. QED
    BY <1>3, <1>4

LEMMA AtMostOneMore ==
    ASSUME NEW S, NEW s \in Seq(S), NEW t \in Seq(S), Len(t) <= 1
    PROVE  s \o t = IF t = <<>> THEN s ELSE Append(s, t[1])
  <1>1. CASE t = <<>>
    <2>1. s \o <<>> = s
      OBVIOUS
    <2>2. QED
      BY <1>1, <2>1
  <1>2. CASE t # <<>>
    <2>1. Len(t) \in Nat /\ Len(t) # 0
      BY <1>2, EmptySeq
    <2>2. Len(t) = 1
      <3> DEFINE n == Len(t)
      <3>1. n \in Nat /\ n # 0 /\ n <= 1
        BY <2>1
      <3> HIDE DEF n
      <3>2. n = 1
        BY <3>1
      <3>3. QED
        BY <3>2 DEF n
    <2>3. t[1] \in S /\ t = <<t[1]>>
      BY <2>2
    <2>4. s \o <<t[1]>> = Append(s, t[1])
      BY <2>3
    <2>5. QED
      BY <1>2, <2>3, <2>4
  <1>3. QED
    BY <1>1, <1>2

\* Two sets of slots that agree on all slots but r.
LEMMA OneSlotDiffers ==
    ASSUME NEW A \in SUBSET Slots, NEW B \in SUBSET Slots, NEW r \in Slots,
           \A s \in Slots \ {r} : s \in A <=> s \in B
    PROVE  /\ Cardinality(A) \in Nat /\ Cardinality(B) \in Nat
           /\ Cardinality(B) = Cardinality(A) + Bit(r \in B) - Bit(r \in A)
  <1>1. IsFiniteSet(A) /\ IsFiniteSet(B)
    BY SlotsAssumption, FS_Subset
  <1>2. Cardinality(A) \in Nat /\ Cardinality(B) \in Nat
    BY <1>1, FS_CardinalityType
  <1>3. CASE r \in A /\ r \notin B
    <2>1. B = A \ {r}
      BY <1>3
    <2>2. Cardinality(B) = Cardinality(A) - 1
      BY <1>1, <1>3, <2>1, FS_RemoveElement
    <2>3. QED
      BY <1>2, <1>3, <2>2 DEF Bit
  <1>4. CASE r \notin A /\ r \in B
    <2>1. B = A \cup {r}
      BY <1>4
    <2>2. Cardinality(B) = Cardinality(A) + 1
      BY <1>1, <1>4, <2>1, FS_AddElement
    <2>3. QED
      BY <1>2, <1>4, <2>2 DEF Bit
  <1>5. CASE r \in A <=> r \in B
    <2>1. A = B
      BY <1>5
    <2>2. QED
      BY <1>2, <2>1 DEF Bit
  <1>6. QED
    BY <1>3, <1>4, <1>5

LEMMA RequestsAreAny ==
    ASSUME setting \in Settings, NEW q \in Requests
    PROVE  q \in AnyRequest
  <1>1. PICK o \in setting.operations :
            q \in [op : {o}, item : WorkItems, by : setting.principals,
                   arg : Arguments[o]]
    BY DEF Requests
  <1>2. o \in DOMAIN Arguments /\ setting.principals \subseteq Principals
    BY OperationsAssumption, SettingsAssumption
  <1>3. q \in [op : {o}, item : WorkItems, by : Principals, arg : Arguments[o]]
    BY <1>1, <1>2
  <1>4. QED
    BY <1>2, <1>3 DEF AnyRequest

ShownBy(r) == {table \in Tables : Shows(r, table)}

\* A request that writes does nothing else in that step.
LEMMA WritersOnlyWrite ==
    ASSUME TypeInv, NEW r \in Slots, Writes(r)
    PROVE  /\ ~Waits(r) /\ ~Decides(r) /\ ~Starts(r) /\ ~Reads(r)
           /\ ~(Completes(r) /\ Proceeds(r))
           /\ Proceeds(r) => NextTable(writes[r]) \in DOMAIN writes[r]
           /\ DOMAIN writes[r] \subseteq Tables
           /\ Performed(r, ShownBy(r))
  <1>1. /\ stage[r] \in {"writing", "locked"} /\ SlotTyped(r)
        /\ request[r] \in Requests /\ setting \in Settings
    BY WritesPerform DEF TypeInv
  <1>2. /\ DOMAIN writes[r] \subseteq Tables /\ DOMAIN writes[r] # {}
        /\ NextTable(writes[r]) \in DOMAIN writes[r]
    BY <1>1, NextTableIsLeft DEF SlotTyped, Planned
  <1>3. request[r] # NoRequest
    BY <1>1, NoRequestIsNone
  <1>4. ~Decides(r) /\ ~Starts(r) /\ ~Reads(r)
    BY <1>1 DEF Decides, Starts, Reads
  <1>5. ~(Completes(r) /\ Proceeds(r))
    BY DEF Completes, Proceeds, Cleared
  <1>6. Completes(r) => ~Waits(r)
    BY <1>3 DEF Completes, Cleared, Waits
  <1>7. Proceeds(r) => ~Waits(r)
    <2> DEFINE t == NextTable(writes[r])
    <2> SUFFICES ASSUME Proceeds(r), Waits(r) PROVE FALSE
      OBVIOUS
    <2>1. /\ writes'[r] = [x \in DOMAIN writes[r] \ {t} |-> writes[r][x]]
          /\ writes'[r] = writes[r]
      BY DEF Proceeds, Waits
    <2>2. t \in DOMAIN writes[r]
      BY <1>2
    <2> HIDE DEF t
    <2>3. DOMAIN writes[r] = DOMAIN writes[r] \ {t}
      BY <2>1
    <2>4. QED
      BY <2>2, <2>3
  <1>8. Performed(r, ShownBy(r))
    <2>1. CASE Completes(r)
      <3>1. ShownBy(r) = DOMAIN writes[r]
        BY <1>2, <1>5, <2>1 DEF ShownBy, Shows
      <3>2. QED
        BY <2>1, <3>1 DEF Completes
    <2>2. CASE Proceeds(r)
      <3>1. ShownBy(r) = {NextTable(writes[r])}
        BY <1>2, <1>5, <2>2 DEF ShownBy, Shows
      <3>2. QED
        BY <2>2, <3>1 DEF Proceeds
    <2>3. QED
      BY <2>1, <2>2 DEF Writes
  <1>9. QED
    BY <1>2, <1>4, <1>5, <1>6, <1>7, <1>8 DEF Writes

\* What a step makes visible of the tables about w.
LEMMA ShownTables ==
    ASSUME TypeInv, NEW r \in Slots, SlotStep(r), NEW w \in WorkItems
    PROVE  IF request[r].item = w /\ Writes(r)
           THEN Performed(r, ShownBy(r)) ELSE Kept(w)
  BY WritersOnlyWrite DEF SlotStep

LEMMA ShownEvents ==
    ASSUME TypeInv, NEW r \in Slots, SlotStep(r), NEW w \in WorkItems, NEW action
    PROVE  Cardinality(Places(assignmentHistory'[w], Events(action))) =
                Cardinality(Places(assignmentHistory[w], Events(action)))
                    + Showing(r, w, "assignment_history", Logging(action))
  <1> DEFINE e == assignmentHistory[w]
             x == writes[r].assignment_history
             q == request[r]
  <1>1. e \in Seq(AssignmentEvent)
    BY TablesTyped DEF TypeInv
  <1>2. Cardinality(Places(e, Events(action))) \in Nat
    BY <1>1, PlacesAreFinite
  <1>3. CASE q.item = w /\ Shows(r, "assignment_history")
    <2>1. Writes(r)
      BY <1>3 DEF Shows, Writes
    <2>2. /\ Performed(r, ShownBy(r)) /\ "assignment_history" \in ShownBy(r)
      BY <1>3, <2>1, WritersOnlyWrite DEF ShownBy, Tables
    <2>3. /\ q \in Requests /\ Planned(q, seen[r], writes[r])
      BY <2>1, WritesPerform DEF SlotTyped
    <2>4. /\ assignmentHistory'[w] = Append(e, x)
          /\ "assignment_history" \in DOMAIN writes[r]
      BY <1>1, <1>3, <2>2 DEF Performed
    <2>5. /\ x \in AssignmentEvent /\ q.op \in {"Assign", "Respond"}
          /\ x.action = IF q.op = "Assign" THEN "assigned" ELSE q.arg
      BY <2>3, <2>4 DEF Planned
    <2>6. q \in AnyRequest
      BY <2>3, RequestsAreAny DEF TypeInv
    <2> HIDE DEF x
    <2>7. x \in Events(action) <=> q \in Logging(action)
      BY <2>5, <2>6 DEF Events, Logging
    <2>8. Cardinality(Places(assignmentHistory'[w], Events(action))) =
                Cardinality(Places(e, Events(action))) + Bit(x \in Events(action))
      BY <1>1, <2>4, <2>5, OneMorePlace
    <2>9. QED
      BY <1>2, <1>3, <2>7, <2>8 DEF Bit, Entering, Showing
  <1>4. CASE ~(q.item = w /\ Shows(r, "assignment_history"))
    <2>1. assignmentHistory'[w] = e
      <3>1. CASE q.item = w /\ Writes(r)
        <4>1. "assignment_history" \notin ShownBy(r)
          BY <1>4, <3>1 DEF ShownBy
        <4>2. QED
          BY <3>1, <4>1, ShownTables DEF Performed
      <3>2. CASE ~(q.item = w /\ Writes(r))
        BY <3>2, ShownTables DEF Kept
      <3>3. QED
        BY <3>1, <3>2
    <2>2. QED
      BY <1>2, <1>4, <2>1 DEF Bit, Entering, Showing
  <1>5. QED
    BY <1>3, <1>4

LEMMA ShownMoves ==
    ASSUME TypeInv, NEW r \in Slots, SlotStep(r), NEW w \in WorkItems, NEW to
    PROVE  Cardinality(Places(statusHistory'[w], ChangesTo(to))) =
                Cardinality(Places(statusHistory[w], ChangesTo(to)))
                    + Showing(r, w, "status_history", Moving(to))
  <1> DEFINE h == statusHistory[w]
             x == writes[r].status_history
             q == request[r]
  <1>1. h \in Seq(StatusChange)
    BY TablesTyped DEF TypeInv
  <1>2. Cardinality(Places(h, ChangesTo(to))) \in Nat
    BY <1>1, PlacesAreFinite
  <1>3. CASE q.item = w /\ Shows(r, "status_history")
    <2>1. Writes(r)
      BY <1>3 DEF Shows, Writes
    <2>2. /\ Performed(r, ShownBy(r)) /\ "status_history" \in ShownBy(r)
      BY <1>3, <2>1, WritersOnlyWrite DEF ShownBy, Tables
    <2>3. /\ q \in Requests /\ q.op # "Upload" /\ Planned(q, seen[r], writes[r])
      BY <2>1, WritesPerform DEF SlotTyped
    <2>4. /\ statusHistory'[w] = Append(h, x)
          /\ "status_history" \in DOMAIN writes[r]
      BY <1>3, <2>2 DEF Performed
    <2>5. x \in StatusChange /\ q.op # "Update" /\ x.to = TargetStatus(q)
      BY <2>3, <2>4 DEF Planned
    <2>6. q \in AnyRequest
      BY <2>3, RequestsAreAny DEF TypeInv
    <2> HIDE DEF x
    <2>7. x \in ChangesTo(to) <=> q \in Moving(to)
      BY <2>3, <2>5, <2>6 DEF ChangesTo, Moving
    <2>8. Cardinality(Places(statusHistory'[w], ChangesTo(to))) =
                Cardinality(Places(h, ChangesTo(to))) + Bit(x \in ChangesTo(to))
      BY <1>1, <2>4, <2>5, OneMorePlace
    <2>9. QED
      BY <1>2, <1>3, <2>7, <2>8 DEF Bit, Entering, Showing
  <1>4. CASE ~(q.item = w /\ Shows(r, "status_history"))
    <2>1. statusHistory'[w] = h
      <3>1. CASE q.item = w /\ Writes(r)
        <4>1. "status_history" \notin ShownBy(r)
          BY <1>4, <3>1 DEF ShownBy
        <4>2. QED
          BY <3>1, <4>1, ShownTables DEF Performed
      <3>2. CASE ~(q.item = w /\ Writes(r))
        BY <3>2, ShownTables DEF Kept
      <3>3. QED
        BY <3>1, <3>2
    <2>2. QED
      BY <1>2, <1>4, <2>1 DEF Bit, Entering, Showing
  <1>5. QED
    BY <1>3, <1>4

LEMMA ShownNews ==
    ASSUME TypeInv, NEW r \in Slots, SlotStep(r), NEW w \in WorkItems,
           NEW kind \in CountedKinds
    PROVE  Cardinality(Places(notifications'[w], NewsOf(kind))) =
                Cardinality(Places(notifications[w], NewsOf(kind)))
                    + Showing(r, w, "notifications", Sending(kind))
  <1> DEFINE n == notifications[w]
             x == writes[r].notifications
             q == request[r]
  <1>1. n \in Seq(Notification)
    BY TablesTyped DEF TypeInv
  <1>2. Cardinality(Places(n, NewsOf(kind))) \in Nat
    BY <1>1, PlacesAreFinite
  <1>3. CASE q.item = w /\ Shows(r, "notifications")
    <2>1. Writes(r)
      BY <1>3 DEF Shows, Writes
    <2>2. /\ Performed(r, ShownBy(r)) /\ "notifications" \in ShownBy(r)
      BY <1>3, <2>1, WritersOnlyWrite DEF ShownBy, Tables
    <2>3. /\ q \in Requests /\ Planned(q, seen[r], writes[r])
      BY <2>1, WritesPerform DEF SlotTyped
    <2>4. /\ notifications'[w] = n \o x
          /\ "notifications" \in DOMAIN writes[r]
      BY <1>3, <2>2 DEF Performed
    <2>5. /\ x \in Seq(Notification) /\ Len(x) <= 1
          /\ (x # <<>> /\ x[1].kind = kind) <=> Announces(q) = kind
      BY <2>3, <2>4 DEF Planned
    <2>6. q \in AnyRequest
      BY <2>3, RequestsAreAny DEF TypeInv
    <2> HIDE DEF x
    <2>7. n \o x = IF x = <<>> THEN n ELSE Append(n, x[1])
      BY <1>1, <2>5, AtMostOneMore
    <2>8. x # <<>> => x[1] \in Notification
      BY <2>5, EmptySeq
    <2>9. q \in Sending(kind) <=> Announces(q) = kind
      BY <2>6 DEF Sending
    <2>10. CASE x = <<>>
      <3>1. q \notin Sending(kind) /\ notifications'[w] = n
        BY <2>4, <2>5, <2>7, <2>9, <2>10
      <3>2. QED
        BY <1>2, <3>1 DEF Bit, Entering, Showing
    <2>11. CASE x # <<>>
      <3>1. x[1] \in NewsOf(kind) <=> q \in Sending(kind)
        BY <2>5, <2>8, <2>9, <2>11 DEF NewsOf
      <3>2. notifications'[w] = Append(n, x[1])
        BY <2>4, <2>7, <2>11
      <3>3. Cardinality(Places(notifications'[w], NewsOf(kind))) =
                Cardinality(Places(n, NewsOf(kind))) + Bit(x[1] \in NewsOf(kind))
        BY <1>1, <2>8, <2>11, <3>2, OneMorePlace
      <3>4. QED
        BY <1>2, <1>3, <3>1, <3>3 DEF Bit, Entering, Showing
    <2>12. QED
      BY <2>10, <2>11
  <1>4. CASE ~(q.item = w /\ Shows(r, "notifications"))
    <2>1. notifications'[w] = n
      <3>1. CASE q.item = w /\ Writes(r)
        <4>1. "notifications" \notin ShownBy(r)
          BY <1>4, <3>1 DEF ShownBy
        <4>2. QED
          BY <3>1, <4>1, ShownTables DEF Performed
      <3>2. CASE ~(q.item = w /\ Writes(r))
        BY <3>2, ShownTables DEF Kept
      <3>3. QED
        BY <3>1, <3>2
    <2>2. QED
      BY <1>2, <1>4, <2>1 DEF Bit, Entering, Showing
  <1>5. QED
    BY <1>3, <1>4

LEMMA PendingChanges ==
    ASSUME TypeInv, setting' = setting, NEW r \in Slots, SlotStep(r),
           NEW w \in WorkItems, NEW table \in Tables, NEW M,
           \A q \in M : table \in AllTables(q)
    PROVE  /\ Cardinality(Pending(w, table, M)) \in Nat
           /\ Cardinality(Pending(w, table, M)') \in Nat
           /\ Cardinality(Pending(w, table, M)') =
                Cardinality(Pending(w, table, M))
                    + Entering(r, w, M)
                    - Showing(r, w, table, M)
  <1> DEFINE A == Pending(w, table, M)
             B == Pending(w, table, M)'
             q == request[r]
  <1>1. A \in SUBSET Slots /\ B \in SUBSET Slots
    BY DEF Pending
  <1>2. \A s \in Slots \ {r} : s \in A <=> s \in B
    BY DEF SlotStep, Waits, Pending
  <1>3. /\ Cardinality(A) \in Nat /\ Cardinality(B) \in Nat
        /\ Cardinality(B) = Cardinality(A) + Bit(r \in B) - Bit(r \in A)
    BY <1>1, <1>2, OneSlotDiffers
  <1>4. /\ SlotTyped(r)
        /\ stage[r] \in {"writing", "locked"} => q \in Requests
    BY DEF TypeInv, SlotTyped
  <1>5. Bit(r \in B) - Bit(r \in A) =
            Entering(r, w, M)
                - Showing(r, w, table, M)
    <2>1. CASE setting.transactional
      <3>1. r \notin A /\ r \notin B
        BY <2>1 DEF Pending
      <3>2. Completes(r) => DOMAIN writes[r] = AllTables(q)
        BY <1>4, <2>1 DEF Completes, SlotTyped
      <3>3. q \in M => (Shows(r, table) <=> Completes(r))
        BY <2>1, <3>2 DEF Shows, Proceeds
      <3>4. (EntersBooks(r, w) /\ q \in M)
                <=> (q.item = w /\ Shows(r, table) /\ q \in M)
        BY <2>1, <3>3 DEF EntersBooks
      <3>5. QED
        BY <3>1, <3>4 DEF Bit, Entering, Showing
    <2>2. CASE ~setting.transactional
      <3>1. EntersBooks(r, w) <=> q.item = w /\ Decides(r)
        BY <2>2 DEF EntersBooks
      <3>2. CASE Writes(r)
        <4>1. stage[r] = "writing" /\ ~Decides(r)
          BY <1>4, <2>2, <3>2, WritersOnlyWrite, WritesPerform DEF SlotTyped
        <4>2. r \in A <=> q.item = w /\ q \in M /\ table \in DOMAIN writes[r]
          BY <2>2, <4>1 DEF Pending
        <4>3. CASE Completes(r)
          <5>1. r \notin B
            BY <4>3 DEF Completes, Cleared, Pending
          <5>2. Shows(r, table) <=> table \in DOMAIN writes[r]
            BY <3>2, <4>3, WritersOnlyWrite DEF Shows
          <5>3. QED
            BY <3>1, <4>1, <4>2, <5>1, <5>2 DEF Bit, Entering, Showing
        <4>4. CASE Proceeds(r)
          <5> DEFINE t == NextTable(writes[r])
          <5>1. /\ stage'[r] = "writing" /\ request'[r] = q
                /\ writes'[r] = [x \in DOMAIN writes[r] \ {t} |-> writes[r][x]]
                /\ t \in DOMAIN writes[r]
                /\ Shows(r, table) <=> table = t
            BY <3>2, <4>4, WritersOnlyWrite DEF Proceeds, Shows
          <5> HIDE DEF t
          <5>2. DOMAIN writes'[r] = DOMAIN writes[r] \ {t}
            BY <5>1
          <5>3. r \in B <=> /\ q.item = w /\ q \in M
                            /\ table \in DOMAIN writes[r] \ {t}
            BY <2>2, <5>1, <5>2 DEF Pending
          <5>4. CASE table = t
            <6>1. r \notin B /\ (r \in A <=> q.item = w /\ q \in M)
              BY <4>2, <5>1, <5>3, <5>4
            <6>2. QED
              BY <3>1, <4>1, <5>1, <5>4, <6>1 DEF Bit, Entering, Showing
          <5>5. CASE table # t
            <6>1. r \in B <=> r \in A
              BY <4>2, <5>3, <5>5
            <6>2. QED
              BY <3>1, <4>1, <5>1, <5>5, <6>1 DEF Bit, Entering, Showing
          <5>6. QED
            BY <5>4, <5>5
        <4>5. QED
          BY <3>2, <4>3, <4>4 DEF Writes
      <3>3. CASE ~Writes(r) /\ Decides(r)
        <4>1. stage[r] = "read" /\ stage'[r] = "writing" /\ request'[r] = q
          BY <3>3 DEF Decides
        <4>2. DOMAIN writes'[r] = AllTables(q)
          BY <1>4, <3>3, <4>1, WritesArePlanned DEF Decides, SlotTyped, TypeInv
        <4>3. r \notin A /\ (r \in B <=> q.item = w /\ q \in M)
          BY <2>2, <4>1, <4>2 DEF Pending
        <4>4. ~Shows(r, table)
          BY <3>3 DEF Writes, Shows
        <4>5. QED
          BY <3>1, <3>3, <4>3, <4>4 DEF Bit, Entering, Showing
      <3>4. CASE ~Writes(r) /\ ~Decides(r)
        <4>1. Waits(r) \/ Starts(r) \/ Reads(r) \/ Drops(r)
          BY <3>4 DEF SlotStep, Moves
        <4>2. r \in A <=> r \in B
          BY <2>2, <4>1 DEF Waits, Starts, Reads, Drops, Cleared, Pending
        <4>3. ~Shows(r, table)
          BY <3>4 DEF Writes, Shows
        <4>4. QED
          BY <3>1, <3>4, <4>2, <4>3 DEF Bit, Entering, Showing
      <3>5. QED
        BY <3>2, <3>3, <3>4
    <2>3. QED
      BY <2>1, <2>2
  <1>6. /\ Bit(r \in B) \in Nat /\ Bit(r \in A) \in Nat
        /\ Entering(r, w, M) \in Nat
        /\ Showing(r, w, table, M) \in Nat
    BY DEF Bit, Entering, Showing
  <1>7. QED
    BY <1>3, <1>5, <1>6

\* A step adds to the books what the request that enters them writes.
LEMMA BooksChange ==
    ASSUME TypeInv, setting' = setting, NEW r \in Slots, SlotStep(r),
           NEW w \in WorkItems
    PROVE  /\ \A action : /\ EventBook(w, action) \in Nat
                          /\ EventBook(w, action)' = EventBook(w, action)
                                + Entering(r, w, Logging(action))
           /\ \A to : /\ MoveBook(w, to) \in Nat
                      /\ MoveBook(w, to)' = MoveBook(w, to)
                            + Entering(r, w, Moving(to))
           /\ \A kind \in CountedKinds :
                /\ NewsBook(w, kind) \in Nat
                /\ NewsBook(w, kind)' = NewsBook(w, kind)
                        + Entering(r, w, Sending(kind))
  <1>1. /\ assignmentHistory[w] \in Seq(AssignmentEvent)
        /\ statusHistory[w] \in Seq(StatusChange)
        /\ notifications[w] \in Seq(Notification)
    BY TablesTyped DEF TypeInv
  <1>2. ASSUME NEW action
        PROVE  /\ EventBook(w, action) \in Nat
               /\ EventBook(w, action)' = EventBook(w, action)
                     + Entering(r, w, Logging(action))
    <2> PICK M : M = Logging(action)
      OBVIOUS
    <2>1. \A q \in M : "assignment_history" \in AllTables(q)
      BY DEF Logging, AllTables, Tables
    <2>2. "assignment_history" \in Tables
      BY DEF Tables
    <2>3. /\ Cardinality(Pending(w, "assignment_history", M)) \in Nat
          /\ Cardinality(Pending(w, "assignment_history", M)') =
                Cardinality(Pending(w, "assignment_history", M))
                    + Entering(r, w, M)
                    - Showing(r, w, "assignment_history", M)
      BY <2>1, <2>2, PendingChanges
    <2>4. Cardinality(Places(assignmentHistory'[w], Events(action))) =
                Cardinality(Places(assignmentHistory[w], Events(action)))
                    + Showing(r, w, "assignment_history", M)
      BY ShownEvents
    <2>5. Cardinality(Places(assignmentHistory[w], Events(action))) \in Nat
      BY <1>1, PlacesAreFinite
    <2>6. /\ Entering(r, w, M) \in Nat
          /\ Showing(r, w, "assignment_history", M) \in Nat
      BY DEF Bit, Entering, Showing
    <2>7. /\ EventBook(w, action) =
                Cardinality(Places(assignmentHistory[w], Events(action)))
                    + Cardinality(Pending(w, "assignment_history", M))
          /\ EventBook(w, action)' =
                Cardinality(Places(assignmentHistory'[w], Events(action)))
                    + Cardinality(Pending(w, "assignment_history", M)')
      BY DEF EventBook, Logging, Events, Pending
    <2>8. QED
      BY <2>3, <2>4, <2>5, <2>6, <2>7
  <1>3. ASSUME NEW to
        PROVE  /\ MoveBook(w, to) \in Nat
               /\ MoveBook(w, to)' = MoveBook(w, to)
                     + Entering(r, w, Moving(to))
    <2> PICK M : M = Moving(to)
      OBVIOUS
    <2>1. \A q \in M : "status_history" \in AllTables(q)
      BY DEF Moving, AllTables, Tables
    <2>2. "status_history" \in Tables
      BY DEF Tables
    <2>3. /\ Cardinality(Pending(w, "status_history", M)) \in Nat
          /\ Cardinality(Pending(w, "status_history", M)') =
                Cardinality(Pending(w, "status_history", M))
                    + Entering(r, w, M)
                    - Showing(r, w, "status_history", M)
      BY <2>1, <2>2, PendingChanges
    <2>4. Cardinality(Places(statusHistory'[w], ChangesTo(to))) =
                Cardinality(Places(statusHistory[w], ChangesTo(to)))
                    + Showing(r, w, "status_history", M)
      BY ShownMoves
    <2>5. Cardinality(Places(statusHistory[w], ChangesTo(to))) \in Nat
      BY <1>1, PlacesAreFinite
    <2>6. /\ Entering(r, w, M) \in Nat
          /\ Showing(r, w, "status_history", M) \in Nat
      BY DEF Bit, Entering, Showing
    <2>7. /\ MoveBook(w, to) =
                Cardinality(Places(statusHistory[w], ChangesTo(to)))
                    + Cardinality(Pending(w, "status_history", M))
          /\ MoveBook(w, to)' =
                Cardinality(Places(statusHistory'[w], ChangesTo(to)))
                    + Cardinality(Pending(w, "status_history", M)')
      BY DEF MoveBook, Moving, ChangesTo, Pending
    <2>8. QED
      BY <2>3, <2>4, <2>5, <2>6, <2>7
  <1>4. ASSUME NEW kind \in CountedKinds
        PROVE  /\ NewsBook(w, kind) \in Nat
               /\ NewsBook(w, kind)' = NewsBook(w, kind)
                     + Entering(r, w, Sending(kind))
    <2> PICK M : M = Sending(kind)
      OBVIOUS
    <2>1. \A q \in M : "notifications" \in AllTables(q)
      BY DEF Sending, CountedKinds, Announces, AllTables, Tables
    <2>2. "notifications" \in Tables
      BY DEF Tables
    <2>3. /\ Cardinality(Pending(w, "notifications", M)) \in Nat
          /\ Cardinality(Pending(w, "notifications", M)') =
                Cardinality(Pending(w, "notifications", M))
                    + Entering(r, w, M)
                    - Showing(r, w, "notifications", M)
      BY <2>1, <2>2, PendingChanges
    <2>4. Cardinality(Places(notifications'[w], NewsOf(kind))) =
                Cardinality(Places(notifications[w], NewsOf(kind)))
                    + Showing(r, w, "notifications", M)
      BY ShownNews
    <2>5. Cardinality(Places(notifications[w], NewsOf(kind))) \in Nat
      BY <1>1, PlacesAreFinite
    <2>6. /\ Entering(r, w, M) \in Nat
          /\ Showing(r, w, "notifications", M) \in Nat
      BY DEF Bit, Entering, Showing
    <2>7. /\ NewsBook(w, kind) =
                Cardinality(Places(notifications[w], NewsOf(kind)))
                    + Cardinality(Pending(w, "notifications", M))
          /\ NewsBook(w, kind)' =
                Cardinality(Places(notifications'[w], NewsOf(kind)))
                    + Cardinality(Pending(w, "notifications", M)')
      BY DEF NewsBook, Sending, NewsOf, Pending
    <2>8. QED
      BY <2>3, <2>4, <2>5, <2>6, <2>7
  <1>5. QED
    BY <1>2, <1>3, <1>4

\* What a request adds to one side of a balance, it adds to the other.
LEMMA EntriesBalance ==
    ASSUME TypeInv, NEW r \in Slots, NEW w
    PROVE  /\ Entering(r, w, Logging("assigned"))
                = Entering(r, w, Sending("assignment_created"))
           /\ Entering(r, w, Logging("accepted"))
                = Entering(r, w, Sending("assignment_accepted"))
           /\ Entering(r, w, Logging("assigned")) <= Entering(r, w, Moving("assigned"))
           /\ Entering(r, w, Logging("accepted")) <= Entering(r, w, Moving("accepted"))
           /\ Entering(r, w, Logging("declined")) <= Entering(r, w, Moving("created"))
           /\ Entering(r, w, Moving("submitted_for_review"))
                = Entering(r, w, Sending("evidence_submitted"))
  <1> DEFINE q == request[r]
  <1>1. CASE ~EntersBooks(r, w)
    BY <1>1 DEF Entering
  <1>2. CASE EntersBooks(r, w)
    <2>1. stage[r] \in {"read", "writing", "locked"} /\ SlotTyped(r)
      BY <1>2 DEF EntersBooks, Completes, Decides, TypeInv
    <2>2. q \in Requests /\ q.op # "Upload"
      BY <2>1 DEF SlotTyped
    <2>3. /\ q.op \in DOMAIN Arguments /\ q.arg \in Arguments[q.op]
          /\ q \in AnyRequest
      BY <2>2, RequestFields, RequestsAreAny DEF TypeInv
    <2>4. /\ q.op \in {"Update", "ChangeStatus", "Verify", "Flag", "Assign", "Respond"}
          /\ q.op = "ChangeStatus" => q.arg \in Status
          /\ q.op = "Verify" => q.arg = "verified"
          /\ q.op = "Flag" => q.arg = "flagged"
          /\ q.op = "Respond" => q.arg \in {"accepted", "declined"}
      BY <2>2, <2>3, ArgumentsOf
    <2>5. /\ q \in Logging("assigned") <=> q.op = "Assign"
          /\ q \in Logging("accepted") <=> q.op = "Respond" /\ q.arg = "accepted"
          /\ q \in Logging("declined") <=> q.op = "Respond" /\ q.arg = "declined"
      BY <2>3, <2>4 DEF Logging
    <2>6. /\ q \in Sending("assignment_created") <=> q.op = "Assign"
          /\ q \in Sending("assignment_accepted") <=>
                q.op = "Respond" /\ q.arg = "accepted"
          /\ q \in Sending("evidence_submitted") <=>
                q.op = "ChangeStatus" /\ q.arg = "submitted_for_review"
      BY <2>3, <2>4 DEF Sending, Announces
    <2>7. /\ q.op = "Assign" => q \in Moving("assigned")
          /\ q.op = "Respond" /\ q.arg = "accepted" => q \in Moving("accepted")
          /\ q.op = "Respond" /\ q.arg = "declined" => q \in Moving("created")
          /\ q \in Moving("submitted_for_review") <=>
                q.op = "ChangeStatus" /\ q.arg = "submitted_for_review"
      BY <2>3, <2>4 DEF Moving, TargetStatus, ResponseStatus
    <2>8. QED
      BY <1>2, <2>4, <2>5, <2>6, <2>7 DEF Entering
  <1>3. QED
    BY <1>1, <1>2

LEMMA BooksStep ==
    ASSUME TypeInv, BooksInv, [Next]_vars
    PROVE  BooksInv'
  <1>1. setting' = setting
    BY StepOutcomes
  <1>2. ASSUME NEW w \in WorkItems PROVE Balanced(w)'
    <2>1. Balanced(w)
      BY DEF BooksInv
    <2>2. ASSUME NEW r \in Slots, SlotStep(r) PROVE Balanced(w)'
      <3>1. \A action :
                /\ EventBook(w, action) \in Nat
                /\ EventBook(w, action)'
                        = EventBook(w, action) + Entering(r, w, Logging(action))
        BY <1>1, <2>2, BooksChange
      <3>2. \A to :
                /\ MoveBook(w, to) \in Nat
                /\ MoveBook(w, to)' = MoveBook(w, to) + Entering(r, w, Moving(to))
        BY <1>1, <2>2, BooksChange
      <3>3. \A kind \in CountedKinds :
                /\ NewsBook(w, kind) \in Nat
                /\ NewsBook(w, kind)'
                        = NewsBook(w, kind) + Entering(r, w, Sending(kind))
        BY <1>1, <2>2, BooksChange
      <3>4. \A M : Entering(r, w, M) \in {0, 1}
        BY DEF Entering
      <3>5. (EventBook(w, "assigned") = NewsBook(w, "assignment_created"))'
        BY <2>1, <3>1, <3>3, EntriesBalance DEF Balanced, CountedKinds
      <3>6. (EventBook(w, "accepted") = NewsBook(w, "assignment_accepted"))'
        BY <2>1, <3>1, <3>3, EntriesBalance DEF Balanced, CountedKinds
      <3>7. (EventBook(w, "assigned") <= MoveBook(w, "assigned"))'
        BY <2>1, <3>1, <3>2, <3>4, EntriesBalance DEF Balanced
      <3>8. (EventBook(w, "accepted") <= MoveBook(w, "accepted"))'
        BY <2>1, <3>1, <3>2, <3>4, EntriesBalance DEF Balanced
      <3>9. (EventBook(w, "declined") <= MoveBook(w, "created"))'
        BY <2>1, <3>1, <3>2, <3>4, EntriesBalance DEF Balanced
      <3>10. (MoveBook(w, "submitted_for_review") = NewsBook(w, "evidence_submitted"))'
        BY <2>1, <3>2, <3>3, EntriesBalance DEF Balanced, CountedKinds
      <3>11. QED
        BY <3>5, <3>6, <3>7, <3>8, <3>9, <3>10 DEF Balanced
    <2>3. CASE (\A r \in Slots : Waits(r)) /\ (Kept(w) \/ Born(w))
      <3>1. /\ statusHistory'[w] = statusHistory[w]
            /\ assignmentHistory'[w] = assignmentHistory[w]
            /\ notifications'[w] = notifications[w]
        BY <2>3 DEF Kept, Born
      <3>2. \A action : EventBook(w, action)' = EventBook(w, action)
        BY <1>1, <2>3, <3>1 DEF EventBook, Places, Pending, Waits, Events, Logging
      <3>3. \A to : MoveBook(w, to)' = MoveBook(w, to)
        BY <1>1, <2>3, <3>1 DEF MoveBook, Places, Pending, Waits, ChangesTo, Moving
      <3>4. \A kind : NewsBook(w, kind)' = NewsBook(w, kind)
        BY <1>1, <2>3, <3>1 DEF NewsBook, Places, Pending, Waits, NewsOf, Sending
      <3>5. QED
        BY <2>1, <3>2, <3>3, <3>4 DEF Balanced
    <2>4. QED
      BY <2>2, <2>3, StepsAreSlotSteps
  <1>3. QED
    BY <1>2 DEF BooksInv

LEMMA BooksInvGivesBalance == TypeInv /\ BooksInv => BooksBalance
  <1> SUFFICES ASSUME TypeInv, BooksInv, NEW w \in WorkItems,
                      setting.transactional \/ w \notin InFlight
               PROVE  /\ Cardinality({k \in DOMAIN assignmentHistory[w] :
                                assignmentHistory[w][k].action = "assigned"})
                        = Cardinality({k \in DOMAIN notifications[w] :
                                notifications[w][k].kind = "assignment_created"})
                      /\ Cardinality({k \in DOMAIN assignmentHistory[w] :
                                assignmentHistory[w][k].action = "accepted"})
                        = Cardinality({k \in DOMAIN notifications[w] :
                                notifications[w][k].kind = "assignment_accepted"})
                      /\ Cardinality({k \in DOMAIN assignmentHistory[w] :
                                assignmentHistory[w][k].action = "assigned"})
                        <= Cardinality({k \in DOMAIN statusHistory[w] :
                                statusHistory[w][k].to = "assigned"})
                      /\ Cardinality({k \in DOMAIN assignmentHistory[w] :
                                assignmentHistory[w][k].action = "accepted"})
                        <= Cardinality({k \in DOMAIN statusHistory[w] :
                                statusHistory[w][k].to = "accepted"})
                      /\ Cardinality({k \in DOMAIN assignmentHistory[w] :
                                assignmentHistory[w][k].action = "declined"})
                        <= Cardinality({k \in DOMAIN statusHistory[w] :
                                statusHistory[w][k].to = "created"})
                      /\ Cardinality({k \in DOMAIN statusHistory[w] :
                                statusHistory[w][k].to = "submitted_for_review"})
                        = Cardinality({k \in DOMAIN notifications[w] :
                                notifications[w][k].kind = "evidence_submitted"})
    BY DEF BooksBalance, Count
  <1>1. /\ assignmentHistory[w] \in Seq(AssignmentEvent)
        /\ statusHistory[w] \in Seq(StatusChange)
        /\ notifications[w] \in Seq(Notification)
    BY TablesTyped DEF TypeInv
  <1>2. ASSUME NEW table, NEW M PROVE Cardinality(Pending(w, table, M)) = 0
    <2>1. Pending(w, table, M) = {}
      BY DEF Pending, InFlight, Idle
    <2>2. QED
      BY <2>1, FS_EmptySet
  <1>3. ASSUME NEW action
        PROVE  Cardinality({k \in DOMAIN assignmentHistory[w] :
                    assignmentHistory[w][k].action = action}) = EventBook(w, action)
    <2>1. {k \in DOMAIN assignmentHistory[w] : assignmentHistory[w][k].action = action}
                = Places(assignmentHistory[w], Events(action))
      <3>1. \A k \in DOMAIN assignmentHistory[w] :
                    assignmentHistory[w][k] \in AssignmentEvent
        BY <1>1
      <3>2. QED
        BY <3>1 DEF Places, Events
    <2>2. Cardinality(Places(assignmentHistory[w], Events(action))) \in Nat
      BY <1>1, PlacesAreFinite
    <2>3. QED
      BY <1>2, <2>1, <2>2 DEF EventBook
  <1>4. ASSUME NEW to
        PROVE  Cardinality({k \in DOMAIN statusHistory[w] :
                    statusHistory[w][k].to = to}) = MoveBook(w, to)
    <2>1. {k \in DOMAIN statusHistory[w] : statusHistory[w][k].to = to}
                = Places(statusHistory[w], ChangesTo(to))
      <3>1. \A k \in DOMAIN statusHistory[w] : statusHistory[w][k] \in StatusChange
        BY <1>1
      <3>2. QED
        BY <3>1 DEF Places, ChangesTo
    <2>2. Cardinality(Places(statusHistory[w], ChangesTo(to))) \in Nat
      BY <1>1, PlacesAreFinite
    <2>3. Cardinality(Pending(w, "status_history", Moving(to))) = 0
      BY <1>2
    <2>4. QED
      BY <2>1, <2>2, <2>3 DEF MoveBook
  <1>5. ASSUME NEW kind
        PROVE  Cardinality({k \in DOMAIN notifications[w] :
                    notifications[w][k].kind = kind}) = NewsBook(w, kind)
    <2>1. {k \in DOMAIN notifications[w] : notifications[w][k].kind = kind}
                = Places(notifications[w], NewsOf(kind))
      <3>1. \A k \in DOMAIN notifications[w] : notifications[w][k] \in Notification
        BY <1>1
      <3>2. QED
        BY <3>1 DEF Places, NewsOf
    <2>2. Cardinality(Places(notifications[w], NewsOf(kind))) \in Nat
      BY <1>1, PlacesAreFinite
    <2>3. QED
      BY <1>2, <2>1, <2>2 DEF NewsBook
  <1>6. Balanced(w)
    BY DEF BooksInv
  <1>7. QED
    BY <1>3, <1>4, <1>5, <1>6 DEF Balanced

\* The four tables keep the same books, under transactions at all times, and in
\* memory whenever no request about the item is in flight: a request that has
\* decided is counted with what it has yet to write, and writes all of it.
THEOREM BooksAlwaysBalance == Spec => []BooksBalance
  <1>1. Init => BooksInv
    <2> SUFFICES ASSUME Init, NEW w \in WorkItems PROVE Balanced(w)
      BY DEF BooksInv
    <2>1. /\ statusHistory[w] = <<>> /\ assignmentHistory[w] = <<>>
          /\ notifications[w] = <<>>
          /\ stage = [r \in Slots |-> "idle"]
      BY DEF Init, Lifecycle!Init
    <2>2. \A table, M : Pending(w, table, M) = {}
      BY <2>1 DEF Pending
    <2>3. \A A : Places(<<>>, A) = {}
      BY DEF Places
    <2>4. /\ \A action : EventBook(w, action) = 0
          /\ \A to : MoveBook(w, to) = 0
          /\ \A kind : NewsBook(w, kind) = 0
      <3>1. \A table, M : Cardinality(Pending(w, table, M)) = 0
        BY <2>2, FS_EmptySet
      <3>2. \A A : Cardinality(Places(<<>>, A)) = 0
        BY <2>3, FS_EmptySet
      <3>3. ASSUME NEW action PROVE EventBook(w, action) = 0
        <4>1. /\ Cardinality(Pending(w, "assignment_history", Logging(action))) = 0
              /\ Cardinality(Places(assignmentHistory[w], Events(action))) = 0
          BY <2>1, <3>1, <3>2
        <4>2. QED
          BY <4>1 DEF EventBook
      <3>4. ASSUME NEW to PROVE MoveBook(w, to) = 0
        <4>1. /\ Cardinality(Pending(w, "status_history", Moving(to))) = 0
              /\ Cardinality(Places(statusHistory[w], ChangesTo(to))) = 0
          BY <2>1, <3>1, <3>2
        <4>2. QED
          BY <4>1 DEF MoveBook
      <3>5. ASSUME NEW kind PROVE NewsBook(w, kind) = 0
        <4>1. /\ Cardinality(Pending(w, "notifications", Sending(kind))) = 0
              /\ Cardinality(Places(notifications[w], NewsOf(kind))) = 0
          BY <2>1, <3>1, <3>2
        <4>2. QED
          BY <4>1 DEF NewsBook
      <3>6. QED
        BY <3>3, <3>4, <3>5
    <2>5. QED
      BY <2>4 DEF Balanced
  <1>2. TypeInv /\ BooksInv /\ [Next]_vars => BooksInv'
    BY BooksStep
  <1>3. QED
    BY <1>1, <1>2, AlwaysTyped, BooksInvGivesBalance, PTL DEF Spec

-----------------------------------------------------------------------------
(* Transactions that do not overlap implement the atomic API.              *)

\* The rules of WorkItemLifecycle are those of this module.
LEMMA SameRules ==
    /\ Lifecycle!Oversees = Oversees
    /\ \A operation, p : Lifecycle!Allowed(operation, p) <=> Allowed(operation, p)
    /\ \A item : Lifecycle!Exists(item) <=> Exists(item)
    /\ \A p, item, ov : /\ Lifecycle!MayView(p, item, ov) <=> MayView(p, item, ov)
                        /\ Lifecycle!MayEdit(p, item, ov) <=> MayEdit(p, item, ov)
    /\ \A p, item, x, ov :
            /\ Lifecycle!MayChangeStatus(p, item, x, ov) <=> MayChangeStatus(p, item, x, ov)
            /\ Lifecycle!MayAssign(p, item, x, ov) <=> MayAssign(p, item, x, ov)
            /\ Lifecycle!MayRespond(p, item, ov, x) <=> MayRespond(p, item, ov, x)
    /\ \A item, to, p, reason :
            Lifecycle!StatusChangeOf(item, to, p, reason)
                = StatusChangeOf(item, to, p, reason)
    /\ \A item : Lifecycle!NotificationForStatusChange(item)
                    = NotificationForStatusChange(item)
    /\ \A accept : Lifecycle!ResponseStatus(accept) = ResponseStatus(accept)
    /\ Lifecycle!Status = Status
  <1>1. Lifecycle!Oversees = Oversees
    BY DEF Lifecycle!Oversees, Oversees
  <1>2. \A operation, p : Lifecycle!Allowed(operation, p) <=> Allowed(operation, p)
    BY DEF Lifecycle!Allowed, Allowed, Lifecycle!RouteRoles, RouteRoles
  <1>3. \A item : Lifecycle!Exists(item) <=> Exists(item)
    BY DEF Lifecycle!Exists, Exists, Lifecycle!NoItem, NoItem
  <1>4. /\ \A p : Lifecycle!ActingRole(p) = ActingRole(p)
        /\ \A actor, item, ov : Lifecycle!SupervisorMayActOn(actor, item, ov)
                                    <=> SupervisorMayActOn(actor, item, ov)
        /\ \A from, to : /\ Lifecycle!IsValidTransition(from, to)
                                <=> IsValidTransition(from, to)
                         /\ Lifecycle!IsAssigneeAllowedTransition(from, to)
                                <=> IsAssigneeAllowedTransition(from, to)
    BY DEF Lifecycle!ActingRole, ActingRole, Lifecycle!SupervisorMayActOn,
       SupervisorMayActOn, Lifecycle!IsValidTransition, IsValidTransition,
       Lifecycle!ValidStatusTransitions, ValidStatusTransitions,
       Lifecycle!IsAssigneeAllowedTransition, IsAssigneeAllowedTransition,
       Lifecycle!AssigneeAllowedTransitions, AssigneeAllowedTransitions
  <1>5. \A accept : Lifecycle!ResponseStatus(accept) = ResponseStatus(accept)
    BY DEF Lifecycle!ResponseStatus, ResponseStatus
  <1>6. \A p, item, ov : /\ Lifecycle!MayView(p, item, ov) <=> MayView(p, item, ov)
                         /\ Lifecycle!MayEdit(p, item, ov) <=> MayEdit(p, item, ov)
    BY <1>4 DEF Lifecycle!MayView, MayView, Lifecycle!MayEdit, MayEdit
  <1>7. \A p, item, x, ov :
            /\ Lifecycle!MayChangeStatus(p, item, x, ov) <=> MayChangeStatus(p, item, x, ov)
            /\ Lifecycle!MayAssign(p, item, x, ov) <=> MayAssign(p, item, x, ov)
            /\ Lifecycle!MayRespond(p, item, ov, x) <=> MayRespond(p, item, ov, x)
    BY <1>4, <1>5 DEF Lifecycle!MayChangeStatus, MayChangeStatus, Lifecycle!MayAssign,
       MayAssign, Lifecycle!MayRespond, MayRespond
  <1>8. \A item, to, p, reason :
            Lifecycle!StatusChangeOf(item, to, p, reason)
                = StatusChangeOf(item, to, p, reason)
    BY <1>4 DEF Lifecycle!StatusChangeOf, StatusChangeOf
  <1>9. \A item : Lifecycle!NotificationForStatusChange(item)
                    = NotificationForStatusChange(item)
    BY DEF Lifecycle!NotificationForStatusChange, NotificationForStatusChange,
       Lifecycle!VerdictKind, VerdictKind
  <1>10. Lifecycle!Status = Status
    BY DEF Lifecycle!Status, Status
  <1>11. QED
    BY <1>1, <1>2, <1>3, <1>5, <1>6, <1>7, <1>8, <1>9, <1>10

\* A Postgres server whose clients never let requests about one item overlap,
\* with admins who change no team beside a supervisor's request.
Serial == setting.transactional /\ setting.oneAtATime /\ setting.teamsWait

\* What the request in r was admitted with, read and decided still holds.
StillHolds(r) ==
    LET q == request[r] IN
    /\ Allowed(q.op, q.by)
    /\ stage[r] = "saving" =>
        attachments[q.item] < MaxAttachments /\ MayView(q.by, items[q.item], Oversees)
    /\ stage[r] = "evidence" \/ Submits(q) => MayView(q.by, items[q.item], Oversees)
    /\ stage[r] \in {"admitted", "read", "writing", "locked"} /\ Submits(q) =>
        attachments[q.item] > 0
    /\ stage[r] \in {"read", "writing", "locked"} => seen[r] = items[q.item]
    /\ stage[r] \in {"writing", "locked"} =>
        Permitted(q, seen[r]) /\ writes[r] = WritesOf(q, seen[r])

SerialInv ==
    /\ Serial
    /\ \A r \in Slots : stage[r] # "idle" => StillHolds(r)
    /\ \A r, s \in Slots :
        stage[r] # "idle" /\ stage[s] # "idle" /\ request[r].item = request[s].item
            => r = s

\* Nothing that a request of p about w depends on changes: the teams matter to
\* supervisors only.
Undisturbed(w, p) ==
    /\ Kept(w) /\ attachments'[w] = attachments[w]
    /\ setting' = setting
    /\ UNCHANGED <<memberOf, supervisions>> \/ ActingRole(p) # "supervisor"

\* Whoever does not act as a supervisor may do the same whoever oversees whom.
LEMMA TeamsMatterToSupervisors ==
    ASSUME NEW p, NEW before, NEW after,
           after = before \/ ActingRole(p) # "supervisor"
    PROVE  /\ \A item : /\ MayView(p, item, after) <=> MayView(p, item, before)
                        /\ MayEdit(p, item, after) <=> MayEdit(p, item, before)
           /\ \A item, x :
                /\ MayChangeStatus(p, item, x, after)
                        <=> MayChangeStatus(p, item, x, before)
                /\ MayAssign(p, item, x, after) <=> MayAssign(p, item, x, before)
  BY DEF MayView, MayEdit, MayChangeStatus, MayAssign

LEMMA WaitingHolds ==
    ASSUME TypeInv, NEW r \in Slots, stage[r] # "idle", StillHolds(r), Waits(r),
           Undisturbed(request[r].item, request[r].by)
    PROVE  StillHolds(r)' /\ stage'[r] # "idle"
  <1> DEFINE q == request[r]
             w == q.item
  <1>1. /\ request'[r] = q /\ seen'[r] = seen[r] /\ writes'[r] = writes[r]
        /\ items'[w] = items[w] /\ assignments'[w] = assignments[w]
        /\ statusHistory'[w] = statusHistory[w] /\ attachments'[w] = attachments[w]
        /\ setting' = setting
    BY DEF Waits, Undisturbed, Kept
  <1>2. Oversees' = Oversees \/ ActingRole(q.by) # "supervisor"
    BY DEF Undisturbed, Oversees
  <1>3. /\ SlotTyped(r)
        /\ stage[r] = "evidence" => Submits(q)
    BY DEF TypeInv, SlotTyped, Submits
  <1>4. Allowed(q.op, q.by)' = Allowed(q.op, q.by)
    BY <1>1 DEF Allowed
  <1>5. Permitted(q, seen[r])' <=> Permitted(q, seen[r])
    <2>1. /\ MayEdit(q.by, seen[r], Oversees') <=> MayEdit(q.by, seen[r], Oversees)
          /\ MayChangeStatus(q.by, seen[r], q.arg, Oversees')
                <=> MayChangeStatus(q.by, seen[r], q.arg, Oversees)
          /\ MayAssign(q.by, seen[r], q.arg, Oversees')
                <=> MayAssign(q.by, seen[r], q.arg, Oversees)
      BY <1>2, TeamsMatterToSupervisors
    <2>2. QED
      BY <1>1, <2>1 DEF Permitted
  <1>6. WritesOf(q, seen[r])' = WritesOf(q, seen[r])
    BY <1>1 DEF WritesOf, EditWrites, MoveWrites, AssignWrites, AnswerWrites
  <1>7. Submits(q)' <=> Submits(q)
    BY <1>1 DEF Submits
  <1>8. MayView(q.by, items[w], Oversees)' <=> MayView(q.by, items[w], Oversees)
    <2>1. MayView(q.by, items[w], Oversees') <=> MayView(q.by, items[w], Oversees)
      BY <1>2, TeamsMatterToSupervisors
    <2>2. QED
      BY <1>1, <2>1
  <1>9. stage'[r] = stage[r] \/ (stage[r] = "evidence" /\ stage'[r] = "admitted"
                                    /\ attachments[w] > 0)
        \/ (stage[r] = "writing" /\ stage'[r] = "locked")
    BY DEF Waits
  <1>10. QED
    BY <1>1, <1>3, <1>4, <1>5, <1>6, <1>7, <1>8, <1>9 DEF StillHolds

\* A step about w only: what other requests rely on stays as it is.
LEMMA OthersKeepHolding ==
    ASSUME TypeInv, SerialInv, NEW r \in Slots, NEW w \in WorkItems,
           \A s \in Slots \ {r} : Waits(s),
           \A s \in Slots \ {r} : stage[s] # "idle" => request[s].item # w,
           \A v \in WorkItems \ {w} : Kept(v) /\ attachments'[v] = attachments[v],
           UNCHANGED surroundings,
           stage'[r] # "idle" => request'[r].item = w /\ StillHolds(r)'
    PROVE  SerialInv'
  <1>1. UNCHANGED <<memberOf, supervisions, setting>>
    BY DEF surroundings
  <1>2. ASSUME NEW s \in Slots \ {r}
        PROVE  /\ stage'[s] # "idle" <=> stage[s] # "idle"
               /\ request'[s] = request[s]
               /\ stage[s] # "idle" => StillHolds(s)'
    <2>1. Waits(s)
      OBVIOUS
    <2>2. (stage'[s] # "idle" <=> stage[s] # "idle") /\ request'[s] = request[s]
      BY <2>1 DEF Waits
    <2>3. ASSUME stage[s] # "idle" PROVE StillHolds(s)'
      <3>1. request[s].item \in WorkItems /\ StillHolds(s)
        BY <2>3, RequestFields DEF TypeInv, SlotTyped, SerialInv
      <3>2. request[s].item # w
        BY <2>3
      <3>3. Undisturbed(request[s].item, request[s].by)
        BY <1>1, <3>1, <3>2 DEF Undisturbed
      <3>4. QED
        BY <2>1, <2>3, <3>1, <3>3, WaitingHolds
    <2>4. QED
      BY <2>2, <2>3
  <1>3. ASSUME NEW s \in Slots, stage'[s] # "idle" PROVE StillHolds(s)'
    BY <1>2, <1>3
  <1>4. ASSUME NEW s \in Slots, NEW t \in Slots, stage'[s] # "idle",
               stage'[t] # "idle", request'[s].item = request'[t].item
        PROVE  s = t
    <2>1. CASE s = r \/ t = r
      BY <1>2, <1>4, <2>1
    <2>2. CASE s # r /\ t # r
      BY <1>2, <1>4, <2>2 DEF SerialInv
    <2>3. QED
      BY <2>1, <2>2
  <1>5. Serial'
    BY <1>1 DEF SerialInv, Serial
  <1>6. QED
    BY <1>3, <1>4, <1>5 DEF SerialInv

\* Serve, taken apart for a transactional server.
LEMMA ServedOnItsOwn ==
    ASSUME TypeInv, SerialInv, NEW r \in Slots, Serve(r)
    PROVE  SerialInv'
  <1> DEFINE q == request[r]
             w == q.item
  <1>1. /\ stage[r] # "idle" /\ SlotTyped(r) /\ StillHolds(r)
        /\ w \in WorkItems /\ setting.transactional
        /\ DOMAIN stage = Slots /\ DOMAIN seen = Slots /\ DOMAIN writes = Slots
    <2>1. stage[r] # "idle"
      BY DEF Serve, CheckEvidence, SaveAttachment, Admit, Decide, Write, TakeRow,
             Commit
    <2>2. QED
      BY <2>1, RequestFields DEF TypeInv, SlotTyped, SerialInv, Serial
  <1>2. \A s \in Slots \ {r} : stage[s] # "idle" => request[s].item # w
    BY <1>1 DEF SerialInv
  <1>3. \A s \in Slots \ {r} : Waits(s)
    BY ServesAreSlotSteps DEF SlotStep
  <1>4. \A v \in WorkItems \ {w} : Kept(v)
    BY ServesAreSlotSteps DEF SlotStep
  <1>5. UNCHANGED surroundings
    BY DEF Serve, CheckEvidence, SaveAttachment, Admit, Decide, Write, TakeRow,
           Commit
  <1>6. ASSUME Finish(r) PROVE stage'[r] = "idle"
    BY <1>1, <1>6 DEF Finish
  <1>7. ASSUME UNCHANGED <<tables, attachments>>, Waits(r)
        PROVE  SerialInv'
    <2>1. Undisturbed(w, q.by)
      BY <1>5, <1>7 DEF Undisturbed, Kept, tables, surroundings
    <2>2. StillHolds(r)' /\ request'[r].item = w
      BY <1>1, <1>7, <2>1, WaitingHolds DEF Waits
    <2>3. QED
      BY <1>1, <1>2, <1>3, <1>4, <1>5, <1>7, <2>2, OthersKeepHolding
  <1>8. ASSUME UNCHANGED attachments, Finish(r) PROVE SerialInv'
    BY <1>1, <1>2, <1>3, <1>4, <1>5, <1>6, <1>8, OthersKeepHolding
  <1>9. CASE CheckEvidence(r)
    <2>1. stage[r] = "evidence" /\ UNCHANGED <<tables, attachments>>
      BY <1>9 DEF CheckEvidence
    <2>2. CASE attachments[w] > 0
      <3>1. GoTo(r, "admitted")
        BY <1>9, <2>2 DEF CheckEvidence
      <3>2. Waits(r)
        BY <1>1, <2>1, <2>2, <3>1 DEF GoTo, Waits
      <3>3. QED
        BY <1>7, <2>1, <3>2
    <2>3. CASE ~(attachments[w] > 0)
      BY <1>8, <1>9, <2>3 DEF CheckEvidence
    <2>4. QED
      BY <2>2, <2>3
  <1>10. CASE SaveAttachment(r)
    <2>1. \A v \in WorkItems \ {w} : attachments'[v] = attachments[v]
      BY <1>1, <1>10, TablesTyped DEF SaveAttachment, TypeInv
    <2>2. stage'[r] = "idle"
      BY <1>6, <1>10 DEF SaveAttachment
    <2>3. QED
      BY <1>1, <1>2, <1>3, <1>4, <1>5, <2>1, <2>2, OthersKeepHolding
  <1>11. CASE Admit(r)
    <2>1. stage[r] = "admitted" /\ UNCHANGED <<tables, attachments>>
      BY <1>11 DEF Admit
    <2>2. CASE RowAllows(q, items[w])
      <3>1. ReadRow(r, q) /\ UNCHANGED <<request, writes>>
        BY <1>11, <2>2 DEF Admit
      <3>2. /\ request'[r] = q /\ stage'[r] = "read" /\ seen'[r] = items[w]
            /\ items' = items /\ attachments' = attachments
            /\ UNCHANGED <<memberOf, supervisions>>
        BY <1>1, <1>5, <2>1, <3>1 DEF ReadRow, tables, surroundings
      <3>3. Oversees' = Oversees
        BY <3>2 DEF Oversees
      <3>4. Submits(q)
        BY <1>1, <2>1 DEF SlotTyped, Submits
      <3>5. Allowed(q.op, q.by) /\ MayView(q.by, items[w], Oversees) /\ attachments[w] > 0
        BY <1>1, <2>1, <3>4 DEF StillHolds
      <3>6. Allowed(q.op, q.by)' /\ MayView(q.by, items[w], Oversees)'
        BY <3>2, <3>3, <3>5 DEF Allowed, MayView
      <3>7. StillHolds(r)'
        BY <3>2, <3>5, <3>6 DEF StillHolds
      <3>8. QED
        BY <1>1, <1>2, <1>3, <1>4, <1>5, <2>1, <3>2, <3>7, OthersKeepHolding
    <2>3. CASE ~RowAllows(q, items[w])
      BY <1>8, <1>11, <2>3 DEF Admit
    <2>4. QED
      BY <2>2, <2>3
  <1>12. CASE Decide(r)
    <2>1. stage[r] = "read" /\ UNCHANGED <<tables, attachments>>
      BY <1>12 DEF Decide
    <2>2. CASE Permitted(q, seen[r])
      <3>1. /\ request'[r] = q /\ stage'[r] = "writing" /\ seen'[r] = seen[r]
            /\ writes'[r] = WritesOf(q, seen[r])
            /\ UNCHANGED <<memberOf, supervisions, setting, tables, attachments>>
        BY <1>1, <1>5, <1>12, <2>2 DEF Decide, surroundings
      <3>2. items' = items /\ assignments' = assignments /\ statusHistory' = statusHistory
        BY <3>1 DEF tables
      <3>3. Oversees' = Oversees
        BY <3>1 DEF Oversees
      <3>4. /\ Allowed(q.op, q.by) /\ seen[r] = items[w]
            /\ Submits(q) => MayView(q.by, items[w], Oversees) /\ attachments[w] > 0
        BY <1>1, <2>1 DEF StillHolds
      <3>5. /\ Allowed(q.op, q.by)'
            /\ Submits(q)' <=> Submits(q)
            /\ Submits(q) => MayView(q.by, items[w], Oversees)'
        BY <3>1, <3>2, <3>3, <3>4 DEF Allowed, MayView, Submits
      <3>6. Permitted(q, seen[r])' <=> Permitted(q, seen[r])
        BY <3>1, <3>2, <3>3 DEF Permitted
      <3>7. WritesOf(q, seen[r])' = WritesOf(q, seen[r])
        BY <3>1, <3>2 DEF WritesOf, EditWrites, MoveWrites, AssignWrites, AnswerWrites
      <3>8. StillHolds(r)'
        BY <2>2, <3>1, <3>2, <3>4, <3>5, <3>6, <3>7 DEF StillHolds
      <3>9. QED
        BY <1>1, <1>2, <1>3, <1>4, <1>5, <3>1, <3>8, OthersKeepHolding
    <2>3. CASE ~Permitted(q, seen[r])
      BY <1>8, <1>12, <2>3 DEF Decide
    <2>4. QED
      BY <2>2, <2>3
  <1>13. CASE Write(r)
    BY <1>1, <1>13 DEF Write
  <1>14. CASE TakeRow(r)
    BY <1>1, <1>7, <1>14 DEF TakeRow, GoTo, Waits
  <1>15. CASE Commit(r)
    BY <1>8, <1>15 DEF Commit
  <1>16. QED
    BY <1>9, <1>10, <1>11, <1>12, <1>13, <1>14, <1>15 DEF Serve

LEMMA SerialStep ==
    ASSUME TypeInv, SerialInv, [Next]_vars
    PROVE  SerialInv'
  <1>1. \A r \in Slots : stage[r] # "idle" =>
            StillHolds(r) /\ request[r].item \in WorkItems
                /\ items[request[r].item] \in WorkItem
    BY RequestFields DEF SerialInv, TypeInv, SlotTyped
  <1>2. ASSUME NEW w \in WorkItems, NEW p, NEW content, Create(w, p, content)
        PROVE  SerialInv'
    <2>1. /\ UNCHANGED <<slotVars, setting, memberOf, supervisions>>
          /\ items[w] = NoItem
          /\ \A v \in WorkItems \ {w} : items'[v] = items[v]
          /\ UNCHANGED <<assignments, statusHistory, assignmentHistory,
                         notifications, attachments>>
      BY <1>2, SameRows DEF Create, Lifecycle!Create, Lifecycle!Exists,
         Lifecycle!teamVars
    <2>2. UNCHANGED <<stage, request, seen, writes>>
      BY <2>1 DEF slotVars
    <2>3. NoItem \notin WorkItem
      BY DEF NoItem, WorkItem, Status
    <2>4. ASSUME NEW r \in Slots, stage[r] # "idle" PROVE StillHolds(r)'
      <3>1. request[r].item \in WorkItems \ {w}
        BY <1>1, <2>1, <2>3, <2>4
      <3>2. Undisturbed(request[r].item, request[r].by)
        BY <2>1, <3>1 DEF Undisturbed, Kept
      <3>3. Waits(r)
        BY <2>2 DEF Waits
      <3>4. QED
        BY <1>1, <2>4, <3>2, <3>3, WaitingHolds
    <2>5. QED
      BY <2>1, <2>2, <2>4 DEF SerialInv, Serial
  <1>3. ASSUME NEW r \in Slots, NEW q \in Requests, Start(r, q)
        PROVE  SerialInv'
    <2> DEFINE w == q.item
    <2>1. /\ stage[r] = "idle" /\ Allowed(q.op, q.by) /\ w \notin InFlight
          /\ request' = [request EXCEPT ![r] = q]
          /\ UNCHANGED <<tables, attachments, surroundings, writes>>
      BY <1>3 DEF Start, Arrive, Idle, SerialInv, Serial
    <2>2. w \in WorkItems
      BY RequestFields DEF TypeInv
    <2>3. \A s \in Slots : stage[s] # "idle" => request[s].item # w
      BY <2>1 DEF InFlight, Idle
    <2>4. request'[r] = q /\ request'[r].item = w
      BY <2>1 DEF TypeInv
    <2>5. UNCHANGED <<items, attachments, memberOf, supervisions>>
      BY <2>1 DEF tables, surroundings
    <2>6. Oversees' = Oversees
      BY <2>5 DEF Oversees
    <2>7. StillHolds(r)'
      <3>1. Allowed(q.op, q.by)'
        BY <2>1 DEF Allowed
      <3>2. CASE View(r, q)
        <4>1. /\ stage'[r] = IF q.op = "Upload" THEN "saving" ELSE "evidence"
              /\ MayView(q.by, items[w], Oversees)
              /\ q.op = "Upload" => attachments[w] < MaxAttachments
          BY <3>2 DEF View, TypeInv
        <4>2. MayView(q.by, items[w], Oversees)'
          BY <2>5, <2>6, <4>1 DEF MayView
        <4>3. QED
          BY <2>4, <2>5, <3>1, <4>1, <4>2 DEF StillHolds
      <3>3. CASE ~Gated(q) /\ ReadRow(r, q)
        <4>1. stage'[r] = "read" /\ seen'[r] = items[w] /\ ~Submits(q)
          BY <3>3 DEF ReadRow, TypeInv, Gated, Submits
        <4>2. ~Submits(q)'
          BY <4>1 DEF Submits
        <4>3. QED
          BY <2>4, <2>5, <3>1, <4>1, <4>2 DEF StillHolds
      <3>4. QED
        BY <1>3, <3>2, <3>3 DEF Start
    <2>8. \A s \in Slots \ {r} : Waits(s)
      BY <1>3, StartsAreSlotSteps, <2>1 DEF SlotStep
    <2>9. \A v \in WorkItems : Kept(v)
      BY <2>1 DEF Kept, tables
    <2>10. QED
      BY <2>1, <2>2, <2>3, <2>4, <2>5, <2>7, <2>8, <2>9, OthersKeepHolding
  <1>4. ASSUME NEW r \in Slots, Serve(r) PROVE SerialInv'
    BY <1>4, ServedOnItsOwn
  <1>5. ASSUME NEW r \in Slots, Abort(r) PROVE SerialInv'
    <2> DEFINE w == request[r].item
    <2>1. /\ stage[r] # "idle" /\ Finish(r)
          /\ UNCHANGED <<tables, attachments, surroundings>>
      BY <1>5 DEF Abort, Idle
    <2>2. stage'[r] = "idle" /\ \A s \in Slots \ {r} : Waits(s)
      BY <2>1, FinishClears DEF Cleared
    <2>3. w \in WorkItems
          /\ \A s \in Slots \ {r} : stage[s] # "idle" => request[s].item # w
      BY <1>1, <2>1 DEF SerialInv
    <2>4. \A v \in WorkItems : Kept(v)
      BY <2>1 DEF Kept, tables
    <2>5. QED
      BY <2>1, <2>2, <2>3, <2>4, OthersKeepHolding
  <1>6. CASE TeamStep
    <2>1. /\ UNCHANGED <<slotVars, tables, attachments, setting>>
          /\ \A r \in Slots : stage[r] # "idle" =>
                ActingRole(request[r].by) # "supervisor"
      BY <1>6 DEF TeamStep, SerialInv, Serial, Idle
    <2>2. \A r \in Slots : Waits(r)
      BY <2>1 DEF Waits, slotVars
    <2>3. \A r \in Slots : stage[r] # "idle" =>
            Undisturbed(request[r].item, request[r].by)
      BY <2>1 DEF Undisturbed, Kept, tables
    <2>4. \A r \in Slots : stage[r] # "idle" => StillHolds(r)'
      BY <1>1, <2>2, <2>3, WaitingHolds
    <2>5. QED
      BY <2>1, <2>4 DEF SerialInv, Serial, slotVars
  <1>7. CASE UNCHANGED vars
    <2>1. /\ UNCHANGED <<slotVars, tables, attachments, surroundings>>
      BY <1>7 DEF vars
    <2>2. \A r \in Slots : Waits(r)
      BY <2>1 DEF Waits, slotVars
    <2>3. \A v \in WorkItems, r \in Slots : Undisturbed(v, request[r].by)
      BY <2>1 DEF Undisturbed, Kept, tables, surroundings
    <2>4. \A r \in Slots : stage[r] # "idle" => StillHolds(r)'
      BY <1>1, <2>2, <2>3, WaitingHolds
    <2>5. QED
      BY <2>1, <2>4 DEF SerialInv, Serial, slotVars, surroundings
  <1>8. QED
    BY <1>2, <1>3, <1>4, <1>5, <1>6, <1>7 DEF Next

\* A commit is the step of the atomic API that the request asked for.
LEMMA CommitIsOneStep ==
    ASSUME TypeInv, SerialInv, NEW r \in Slots, Commit(r)
    PROVE  Lifecycle!Next
  <1> DEFINE q == request[r]
             w == q.item
             row == items[w]
             ws == WritesOf(q, row)
  <1>1. /\ stage[r] = "locked" /\ SlotTyped(r) /\ StillHolds(r)
        /\ setting \in Settings /\ setting.transactional
        /\ UNCHANGED <<attachments, surroundings>>
    BY DEF Commit, TypeInv, SerialInv, Serial
  <1>2. /\ q \in Requests /\ w \in WorkItems /\ q.by \in Principals
        /\ q.op \in DOMAIN Arguments /\ q.arg \in Arguments[q.op]
        /\ row \in WorkItem /\ q.op # "Upload"
    BY <1>1, RequestFields DEF SlotTyped
  <1>3. /\ q.op \in {"Update", "ChangeStatus", "Verify", "Flag", "Assign", "Respond"}
        /\ q.op = "Update" => q.arg \in Contents
        /\ q.op = "ChangeStatus" => q.arg \in Status
        /\ q.op = "Verify" => q.arg = "verified"
        /\ q.op = "Flag" => q.arg = "flagged"
        /\ q.op = "Assign" => q.arg \in Users
        /\ q.op = "Respond" => q.arg \in {"accepted", "declined"}
    BY <1>2, ArgumentsOf
  <1>4. /\ Permitted(q, row) /\ Allowed(q.op, q.by) /\ Exists(row)
        /\ Submits(q) => MayView(q.by, row, Oversees) /\ attachments[w] > 0
    <2>1. NoItem \notin WorkItem
      BY DEF NoItem, WorkItem, Status
    <2>2. seen[r] = row /\ Permitted(q, seen[r])
      BY <1>1 DEF StillHolds
    <2>3. Permitted(q, row)
      BY <2>2
    <2>4. Exists(row)
      BY <1>2, <2>1 DEF Exists
    <2>5. Allowed(q.op, q.by) /\ (Submits(q) => MayView(q.by, row, Oversees) /\ attachments[w] > 0)
      BY <1>1 DEF StillHolds
    <2>6. QED
      BY <2>3, <2>4, <2>5
  <1>5. Perform(w, ws)
    <2>1. writes[r] = ws
      BY <1>1 DEF StillHolds
    <2>2. Perform(w, writes[r])
      BY DEF Commit
    <2>3. QED
      BY <2>1, <2>2
  <1>6. UNCHANGED <<attachments, memberOf, supervisions>>
    BY <1>1 DEF surroundings
  <1>7. q.op # "Update" => Len(statusHistory[w]) < MaxStatusHistory
    <2>1. /\ setting.moves \in Nat /\ setting.moves <= MaxStatusHistory
          /\ MaxStatusHistory \in Nat /\ Len(statusHistory[w]) \in Nat
      BY <1>1, <1>2, SettingsAssumption, BoundsAssumption, TablesTyped DEF TypeInv
    <2>2. QED
      BY <1>4, <2>1 DEF Permitted
  <1>8. /\ items = [v \in WorkItems |-> items[v]]
        /\ assignments = [v \in WorkItems |-> assignments[v]]
        /\ notifications = [v \in WorkItems |-> notifications[v]]
        /\ notifications[w] \in Seq(Notification)
    BY <1>2, TablesTyped DEF TypeInv
  <1>9. SUFFICES Lifecycle!WorkItemStep(w, q.by)
    BY <1>2 DEF Lifecycle!Next
  <1>10. CASE q.op = "Update"
    <2>1. ws = [work_items |-> [row EXCEPT !.content = q.arg]]
      BY <1>10 DEF WritesOf, EditWrites
    <2> HIDE DEF ws
    <2>2. DOMAIN ws = {"work_items"} /\ ws.work_items = [row EXCEPT !.content = q.arg]
      BY <2>1
    <2>3. /\ items' = [items EXCEPT ![w] = [row EXCEPT !.content = q.arg]]
          /\ UNCHANGED <<statusHistory, assignments, assignmentHistory, notifications>>
      BY <1>5, <2>2 DEF Perform
    <2>4. MayEdit(q.by, row, Oversees)
      BY <1>4, <1>10 DEF Permitted
    <2>5. Lifecycle!Update(w, q.by, q.arg)
      BY <1>4, <1>6, <1>10, <2>3, <2>4, SameRules
      DEF Lifecycle!Update, Lifecycle!teamVars
    <2>6. QED
      BY <1>3, <1>10, <2>5 DEF Lifecycle!WorkItemStep
  <1>11. CASE q.op \in {"ChangeStatus", "Verify", "Flag"}
    <2> DEFINE moved == [row EXCEPT !.status = q.arg]
               change == StatusChangeOf(row, q.arg, q.by, TRUE)
               news == NotificationForStatusChange(moved)
    <2>1. ws = [work_items |-> moved, status_history |-> change, notifications |-> news]
      BY <1>11 DEF WritesOf, MoveWrites
    <2> HIDE DEF ws
    <2>2. /\ DOMAIN ws = {"work_items", "status_history", "notifications"}
          /\ ws.work_items = moved /\ ws.status_history = change
          /\ ws.notifications = news
      BY <2>1
    <2>3. /\ items' = [items EXCEPT ![w] = moved]
          /\ statusHistory' = [statusHistory EXCEPT ![w] = Append(@, change)]
          /\ notifications' = [notifications EXCEPT ![w] = @ \o news]
          /\ UNCHANGED <<assignments, assignmentHistory>>
      BY <1>5, <2>2 DEF Perform
    <2>4. MayChangeStatus(q.by, row, q.arg, Oversees)
      BY <1>4, <1>11 DEF Permitted
    <2>5. Lifecycle!MoveTo(w, q.by, q.arg, TRUE)
      BY <1>4, <1>6, <1>7, <1>11, <2>3, <2>4, SameRules
      DEF Lifecycle!MoveTo, Lifecycle!RecordStatusChange, Lifecycle!Notify,
          Lifecycle!teamVars
    <2>6. CASE q.op = "ChangeStatus"
      <3>1. q.arg = "submitted_for_review" =>
                MayView(q.by, row, Oversees) /\ attachments[w] > 0
        BY <1>4, <2>6 DEF Submits
      <3>2. Lifecycle!ChangeStatus(w, q.by, q.arg, TRUE)
        BY <1>4, <2>5, <2>6, <3>1, SameRules DEF Lifecycle!ChangeStatus
      <3>3. QED
        BY <1>3, <2>6, <3>2, ReasonsAssumption, SameRules DEF Lifecycle!WorkItemStep
    <2>7. CASE q.op = "Verify"
      <3>1. Lifecycle!Verify(w, q.by, TRUE)
        BY <1>3, <1>4, <2>5, <2>7, SameRules DEF Lifecycle!Verify
      <3>2. QED
        BY <3>1, ReasonsAssumption DEF Lifecycle!WorkItemStep
    <2>8. CASE q.op = "Flag"
      <3>1. Lifecycle!Flag(w, q.by)
        BY <1>3, <1>4, <2>5, <2>8, SameRules DEF Lifecycle!Flag
      <3>2. QED
        BY <3>1 DEF Lifecycle!WorkItemStep
    <2>9. QED
      BY <1>11, <2>6, <2>7, <2>8
  <1>12. CASE q.op = "Assign"
    <2> DEFINE updated == [row EXCEPT !.status = "assigned", !.assignedTo = q.arg]
               change == StatusChangeOf(row, "assigned", q.by, FALSE)
               offer == [status |-> "assigned", by |-> q.by.user, to |-> q.arg]
               event == [action |-> "assigned", by |-> q.by.user, to |-> q.arg]
               news == <<[recipient |-> q.arg, kind |-> "assignment_created"]>>
    <2>1. ws = [work_items |-> updated, status_history |-> change,
                assignments |-> offer, assignment_history |-> event,
                notifications |-> news]
      BY <1>12 DEF WritesOf, AssignWrites
    <2> HIDE DEF ws
    <2>2. /\ DOMAIN ws = {"work_items", "status_history", "assignments",
                          "assignment_history", "notifications"}
          /\ ws.work_items = updated /\ ws.status_history = change
          /\ ws.assignments = offer /\ ws.assignment_history = event
          /\ ws.notifications = news
      BY <2>1
    <2>3. AssignmentAfter(assignments[w], offer) = offer
      BY DEF AssignmentAfter
    <2>4. /\ items' = [items EXCEPT ![w] = updated]
          /\ statusHistory' = [statusHistory EXCEPT ![w] = Append(@, change)]
          /\ assignments' = [assignments EXCEPT ![w] = offer]
          /\ assignmentHistory' = [assignmentHistory EXCEPT ![w] = Append(@, event)]
          /\ notifications' = [notifications EXCEPT ![w] = @ \o news]
      BY <1>5, <2>2, <2>3 DEF Perform
    <2>5. MayAssign(q.by, row, q.arg, Oversees)
      BY <1>4, <1>12 DEF Permitted
    <2>6. Lifecycle!AssignWorkItem(w, q.by, q.arg)
      BY <1>4, <1>6, <1>7, <1>12, <2>4, <2>5, SameRules
      DEF Lifecycle!AssignWorkItem, Lifecycle!RecordStatusChange, Lifecycle!Notify,
          Lifecycle!RecordAssignmentEvent, Lifecycle!teamVars
    <2>7. QED
      BY <1>3, <1>12, <2>6 DEF Lifecycle!WorkItemStep
  <1>13. CASE q.op = "Respond" /\ q.arg = "accepted"
    <2> DEFINE a == assignments[w]
               updated == [row EXCEPT !.status = "accepted"]
               change == StatusChangeOf(row, "accepted", q.by, TRUE)
               answer == [a EXCEPT !.status = "accepted"]
               event == [action |-> "accepted", by |-> q.by.user, to |-> a.to]
               news == <<[recipient |-> a.by, kind |-> "assignment_accepted"]>>
    <2>1. ResponseStatus(q.arg = "accepted") = "accepted" /\ ResponseStatus(TRUE) = "accepted"
      BY <1>13 DEF ResponseStatus
    <2>2. [row EXCEPT !.status = "accepted", !.assignedTo = @] = updated
      BY <1>2 DEF WorkItem
    <2>3. ws = [work_items |-> updated, status_history |-> change,
                assignments |-> answer, assignment_history |-> event,
                notifications |-> news]
      BY <1>13, <2>1, <2>2 DEF WritesOf, AnswerWrites
    <2> HIDE DEF ws
    <2>4. /\ DOMAIN ws = {"work_items", "status_history", "assignments",
                          "assignment_history", "notifications"}
          /\ ws.work_items = updated /\ ws.status_history = change
          /\ ws.assignments = answer /\ ws.assignment_history = event
          /\ ws.notifications = news
      BY <2>3
    <2>5. a \in Assignment
      BY <1>1, <1>13 DEF SlotTyped
    <2>6. AssignmentAfter(a, answer) = answer
      BY <1>1, <2>5 DEF AssignmentAfter, Assignment
    <2>7. /\ items' = [items EXCEPT ![w] = updated]
          /\ statusHistory' = [statusHistory EXCEPT ![w] = Append(@, change)]
          /\ assignments' = [assignments EXCEPT ![w] = answer]
          /\ assignmentHistory' = [assignmentHistory EXCEPT ![w] = Append(@, event)]
          /\ notifications' = [notifications EXCEPT ![w] = @ \o news]
      BY <1>5, <2>4, <2>6 DEF Perform
    <2>8. MayRespond(q.by, row, a, TRUE)
      BY <1>4, <1>13, <2>1 DEF Permitted, MayRespond
    <2>9. Lifecycle!Respond(w, q.by, TRUE, TRUE)
      BY <1>4, <1>6, <1>7, <1>13, <2>1, <2>7, <2>8, SameRules
      DEF Lifecycle!Respond, Lifecycle!RecordStatusChange, Lifecycle!teamVars
    <2>10. Lifecycle!Accept(w, q.by, TRUE)
      BY <2>7, <2>9
      DEF Lifecycle!Accept, Lifecycle!RecordAssignmentEvent, Lifecycle!Notify
    <2>11. QED
      BY <2>10, ReasonsAssumption DEF Lifecycle!WorkItemStep
  <1>14. CASE q.op = "Respond" /\ q.arg = "declined"
    <2> DEFINE a == assignments[w]
               updated == [row EXCEPT !.status = "created", !.assignedTo = NoUser]
               change == StatusChangeOf(row, "created", q.by, TRUE)
               answer == [a EXCEPT !.status = "declined"]
               event == [action |-> "declined", by |-> q.by.user, to |-> a.to]
    <2>1. ResponseStatus(q.arg = "accepted") = "created" /\ ResponseStatus(FALSE) = "created"
      BY <1>14 DEF ResponseStatus
    <2>2. ws = [work_items |-> updated, status_history |-> change,
                assignments |-> answer, assignment_history |-> event,
                notifications |-> <<>>]
      BY <1>14, <2>1 DEF WritesOf, AnswerWrites
    <2> HIDE DEF ws
    <2>3. /\ DOMAIN ws = {"work_items", "status_history", "assignments",
                          "assignment_history", "notifications"}
          /\ ws.work_items = updated /\ ws.status_history = change
          /\ ws.assignments = answer /\ ws.assignment_history = event
          /\ ws.notifications = <<>>
      BY <2>2
    <2>4. a \in Assignment
      BY <1>1, <1>14 DEF SlotTyped
    <2>5. AssignmentAfter(a, answer) = answer
      BY <1>1, <2>4 DEF AssignmentAfter, Assignment
    <2>6. /\ items' = [items EXCEPT ![w] = updated]
          /\ statusHistory' = [statusHistory EXCEPT ![w] = Append(@, change)]
          /\ assignments' = [assignments EXCEPT ![w] = answer]
          /\ assignmentHistory' = [assignmentHistory EXCEPT ![w] = Append(@, event)]
          /\ notifications' = [notifications EXCEPT ![w] = @ \o <<>>]
      BY <1>5, <2>3, <2>5 DEF Perform
    <2>7. UNCHANGED notifications
      <3>1. notifications[w] \o <<>> = notifications[w]
        BY <1>8
      <3>2. QED
        BY <1>8, <2>6, <3>1
    <2>8. MayRespond(q.by, row, a, FALSE)
      BY <1>4, <1>14, <2>1 DEF Permitted, MayRespond
    <2>9. Lifecycle!Respond(w, q.by, FALSE, TRUE)
      BY <1>4, <1>6, <1>7, <1>14, <2>1, <2>6, <2>8, SameRules
      DEF Lifecycle!Respond, Lifecycle!RecordStatusChange, Lifecycle!teamVars
    <2>10. Lifecycle!Decline(w, q.by, TRUE)
      BY <2>6, <2>7, <2>9
      DEF Lifecycle!Decline, Lifecycle!RecordAssignmentEvent
    <2>11. QED
      BY <2>10, ReasonsAssumption DEF Lifecycle!WorkItemStep
  <1>15. QED
    BY <1>3, <1>10, <1>11, <1>12, <1>13, <1>14

\* Every other step of a request is none of the atomic API, except that saving
\* a file is an upload.
LEMMA StepsImplementLifecycle ==
    ASSUME TypeInv, SerialInv, [Next]_vars
    PROVE  [Lifecycle!Next]_(Lifecycle!vars)
  <1>1. ASSUME UNCHANGED <<tables, attachments, surroundings>>
        PROVE  UNCHANGED Lifecycle!vars
    BY <1>1 DEF tables, surroundings, Lifecycle!vars, Lifecycle!itemVars,
       Lifecycle!teamVars
  <1>2. ASSUME NEW w \in WorkItems, NEW p \in setting.principals,
               NEW content \in Contents, Create(w, p, content)
        PROVE  Lifecycle!Next
    <2>1. p \in Principals
      BY SettingsAssumption DEF TypeInv
    <2>2. QED
      BY <1>2, <2>1 DEF Create, Lifecycle!Next, Lifecycle!WorkItemStep
  <1>3. ASSUME NEW r \in Slots, NEW q \in Requests, Start(r, q)
        PROVE  UNCHANGED Lifecycle!vars
    BY <1>1, <1>3 DEF Start, Arrive
  <1>4. ASSUME NEW r \in Slots, SaveAttachment(r) PROVE Lifecycle!Next
    <2> DEFINE q == request[r]
               w == q.item
    <2>1. /\ stage[r] = "saving" /\ SlotTyped(r) /\ StillHolds(r)
          /\ setting \in Settings
          /\ attachments' = [attachments EXCEPT ![w] = @ + 1]
          /\ UNCHANGED <<tables, surroundings>>
      BY <1>4 DEF SaveAttachment, TypeInv, SerialInv
    <2>2. /\ q.op = "Upload" /\ items[w] \in WorkItem
          /\ w \in WorkItems /\ q.by \in Principals
      BY <2>1, RequestFields DEF SlotTyped
    <2>3. /\ Allowed("Upload", q.by) /\ attachments[w] < MaxAttachments
          /\ MayView(q.by, items[w], Oversees)
      BY <2>1, <2>2 DEF StillHolds
    <2>4. Exists(items[w])
      <3>1. NoItem \notin WorkItem
        BY DEF NoItem, WorkItem, Status
      <3>2. QED
        BY <2>2, <3>1 DEF Exists
    <2>5. Lifecycle!Upload(w, q.by)
      BY <2>1, <2>3, <2>4, SameRules
      DEF Lifecycle!Upload, Lifecycle!teamVars, tables, surroundings
    <2>6. QED
      BY <2>2, <2>5 DEF Lifecycle!Next, Lifecycle!WorkItemStep
  <1>5. ASSUME NEW r \in Slots, Serve(r) PROVE [Lifecycle!Next]_(Lifecycle!vars)
    <2>1. ~Write(r)
      BY DEF Write, SerialInv, Serial
    <2>2. CASE CheckEvidence(r) \/ Admit(r) \/ Decide(r) \/ TakeRow(r)
      BY <1>1, <2>2 DEF CheckEvidence, Admit, Decide, TakeRow
    <2>3. QED
      BY <1>4, <1>5, <2>1, <2>2, CommitIsOneStep DEF Serve
  <1>6. ASSUME NEW r \in Slots, Abort(r) PROVE UNCHANGED Lifecycle!vars
    BY <1>1, <1>6 DEF Abort
  <1>7. CASE TeamStep
    <2>1. TeamNext /\ UNCHANGED <<tables, attachments>>
      BY <1>7 DEF TeamStep
    <2>2. Lifecycle!TeamNext
      BY <2>1 DEF TeamNext, Lifecycle!TeamNext, AddAssignee, Lifecycle!AddAssignee,
         AddSupervisor, Lifecycle!AddSupervisor,
         RemoveSupervisor, Lifecycle!RemoveSupervisor
    <2>3. QED
      BY <2>1, <2>2
      DEF Lifecycle!Next, Lifecycle!TeamStep, Lifecycle!itemVars, tables
  <1>8. CASE UNCHANGED vars
    BY <1>1, <1>8 DEF vars
  <1>9. QED
    BY <1>2, <1>3, <1>5, <1>6, <1>7, <1>8 DEF Next

\* A Postgres server implements the atomic API of WorkItemLifecycle where its
\* clients never let requests about one work item overlap and no team changes
\* while a supervisor's request is in flight, two conditions the server does not
\* enforce: what a request read and decided then still holds when it commits, so
\* the commit is one step of that API, and a request that is refused or rolled
\* back, wherever it is, is none. Requests of others may meet team changes at any
\* point.
THEOREM SerialRequestsImplementLifecycle == Spec /\ Serial => ImplementsLifecycle
  <1>1. Init => Lifecycle!Init
    BY DEF Init
  <1>2. Init /\ Serial => SerialInv
    BY DEF Init, SerialInv
  <1>3. TypeInv /\ SerialInv /\ [Next]_vars => SerialInv'
    BY SerialStep
  <1>4. TypeInv /\ SerialInv /\ [Next]_vars => [Lifecycle!Next]_(Lifecycle!vars)
    BY StepsImplementLifecycle
  <1>5. QED
    BY <1>1, <1>2, <1>3, <1>4, AlwaysTyped, PTL
    DEF Spec, ImplementsLifecycle, Lifecycle!Spec

=============================================================================
