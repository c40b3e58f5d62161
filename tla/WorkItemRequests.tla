--------------------------- MODULE WorkItemRequests ---------------------------
(***************************************************************************)
(* Work item requests as the server really runs them: every request is a   *)
(* goroutine, and several may be about the same work item. A request reads *)
(* the row, decides on what it read, and writes; nothing it reads is       *)
(* locked or read again. What follows a decision depends on the storage:   *)
(*                                                                         *)
(*   - Postgres (transactional): the writes become visible together        *)
(*     at commit, after the first of them, the UPDATE of the work_items    *)
(*     row, got the row lock; any statement may fail, and then nothing is  *)
(*     written;                                                            *)
(*   - in memory: each store call is atomic by its own mutex, so the       *)
(*     writes of one request become visible one by one.                    *)
(*                                                                         *)
(* The tables and the rules are those of WorkItemLifecycle. Each behaviour *)
(* has one of the Settings: the storage, who makes requests, which, and    *)
(* what overlaps what.                                                     *)
(***************************************************************************)
EXTENDS WorkItemRules, Sequences, Naturals

CONSTANTS
    WorkItems, Teams, NoTeam, TeamMembers, TeamSupervisors, Principals,
    Reasons, MaxStatusHistory, MaxAttachments,   \* see WorkItemLifecycle
    Slots,           \* requests that can be in flight at the same time
    Settings         \* the settings to look at; of each the record
                     \*   transactional: whether there is a TxRunner,
                     \*   operations: some of DOMAIN Arguments,
                     \*   principals: who asks for them,
                     \*   oneAtATime: whether clients never let requests about
                     \*               one item overlap,
                     \*   teamsWait: whether nobody changes the teams while a
                     \*              supervisor's request is in flight,
                     \*   moves: bound on the status changes of an item

ASSUME PrincipalsAssumption == Principals \subseteq Principal
ASSUME TeamAssumption ==
    NoTeam \notin Teams /\ TeamMembers \subseteq Users /\ TeamSupervisors \subseteq Users
ASSUME BoundsAssumption == MaxStatusHistory \in Nat /\ MaxAttachments \in Nat
ASSUME SlotsAssumption == IsFiniteSet(Slots)
ASSUME ReasonsAssumption == TRUE \in Reasons   \* requests carry one, see Arguments
ASSUME SettingsAssumption ==
    \A e \in Settings :
        /\ {e.transactional, e.oneAtATime, e.teamsWait} \subseteq BOOLEAN
        /\ e.principals \subseteq Principals
        /\ e.moves \in Nat /\ e.moves <= MaxStatusHistory

VARIABLES
    items, assignments, statusHistory, assignmentHistory, notifications,
    attachments, memberOf, supervisions,          \* see WorkItemLifecycle
    stage,     \* how far the request in each slot has got
    request,   \* the request each slot works on
    seen,      \* the work item row as that request read it
    writes,    \* the writes it still has to make: table |-> row
    setting    \* one of Settings, from the start

INSTANCE TeamDirectory

Lifecycle == INSTANCE WorkItemLifecycle

tables == <<items, assignments, statusHistory, assignmentHistory,
            notifications>>
surroundings == <<memberOf, supervisions, setting>>
slotVars == <<stage, request, seen, writes>>
vars == <<tables, attachments, surroundings, slotVars>>

-----------------------------------------------------------------------------
(* Requests and the writes they lead to.                                   *)

\* Every request carries a reason or note.
Arguments ==
    [Update       |-> Contents,
     ChangeStatus |-> Status,
     Verify       |-> {"verified"},
     Flag         |-> {"flagged"},
     Assign       |-> Users,
     Respond      |-> {"accepted", "declined"},
     Upload       |-> {"file"}]

ASSUME OperationsAssumption ==
    \A e \in Settings : e.operations \subseteq DOMAIN Arguments

Requests ==
    UNION {[op : {o}, item : WorkItems, by : setting.principals, arg : Arguments[o]] :
              o \in setting.operations}

NoRequest == [op |-> "none"]

\* Requests that look at the work item before the service does: uploads, and
\* submissions for review through the status route.
Gated(q) ==
    \/ q.op = "Upload"
    \/ q.op = "ChangeStatus" /\ q.arg = "submitted_for_review"

TargetStatus(q) ==
    CASE q.op = "Assign"  -> "assigned"
      [] q.op = "Respond" -> ResponseStatus(q.arg = "accepted")
      [] OTHER            -> q.arg

RowAllows(q, row) ==
    q.op = "Update" \/ IsValidTransition(row.status, TargetStatus(q))

\* The answer of the service, from the row it read and what it reads now. A
\* status change beyond setting.moves is refused, to bound the model.
Permitted(q, row) ==
    LET a == assignments[q.item] IN
    /\ q.op # "Update" => Len(statusHistory[q.item]) < setting.moves
    /\ \/ q.op = "Update" /\ MayEdit(q.by, row, Oversees)
       \/ /\ q.op \in {"ChangeStatus", "Verify", "Flag"}
          /\ MayChangeStatus(q.by, row, q.arg, Oversees)
       \/ q.op = "Assign" /\ MayAssign(q.by, row, q.arg, Oversees)
       \/ q.op = "Respond" /\ MayRespond(q.by, row, a, q.arg = "accepted")

\* The rows a permitted request writes, computed from the rows it read.
EditWrites(q, row) == [work_items |-> [row EXCEPT !.content = q.arg]]

\* Mutant: from is taken after the new status was set.
MoveWritesLate(q, row) ==
    LET updated == [row EXCEPT !.status = q.arg] IN
    [work_items     |-> updated,
     status_history |-> StatusChangeOf(updated, q.arg, q.by, TRUE),
     notifications  |-> NotificationForStatusChange(updated)]

MoveWrites(q, row) ==
    LET updated == [row EXCEPT !.status = q.arg] IN
    [work_items     |-> updated,
     status_history |-> StatusChangeOf(row, q.arg, q.by, TRUE),
     notifications  |-> NotificationForStatusChange(updated)]

\* Mutant: the event names the wrong person.
AssignWritesMixedUp(q, row) ==
    [work_items |-> [row EXCEPT !.status = "assigned", !.assignedTo = q.arg],
     status_history |-> StatusChangeOf(row, "assigned", q.by, FALSE),
     assignments |-> [status |-> "assigned", by |-> q.by.user, to |-> q.arg],
     assignment_history |->
        [action |-> "assigned", by |-> q.arg, to |-> q.by.user],
     notifications |->
        <<[recipient |-> q.arg, kind |-> "assignment_created"]>>]

AssignWrites(q, row) ==
    [work_items |-> [row EXCEPT !.status = "assigned", !.assignedTo = q.arg],
     status_history |-> StatusChangeOf(row, "assigned", q.by, FALSE),
     assignments |-> [status |-> "assigned", by |-> q.by.user, to |-> q.arg],
     assignment_history |->
        [action |-> "assigned", by |-> q.by.user, to |-> q.arg],
     notifications |->
        <<[recipient |-> q.arg, kind |-> "assignment_created"]>>]

\* Mutant: a decline is announced as well.
AnswerWritesLoud(q, row) ==
    LET a == assignments[q.item]
        accept == q.arg = "accepted" IN
    [work_items |->
        [row EXCEPT !.status = ResponseStatus(accept),
                    !.assignedTo = IF accept THEN @ ELSE NoUser],
     status_history |-> StatusChangeOf(row, ResponseStatus(accept), q.by, TRUE),
     assignments |-> [a EXCEPT !.status = q.arg],
     assignment_history |-> [action |-> q.arg, by |-> q.by.user, to |-> a.to],
     notifications |-> <<[recipient |-> a.by, kind |-> "assignment_accepted"]>>]

\* Mutant: the assignment gets the status the work item goes to.
AnswerWritesMixedStatus(q, row) ==
    LET a == assignments[q.item]
        accept == q.arg = "accepted" IN
    [work_items |->
        [row EXCEPT !.status = ResponseStatus(accept),
                    !.assignedTo = IF accept THEN @ ELSE NoUser],
     status_history |-> StatusChangeOf(row, ResponseStatus(accept), q.by, TRUE),
     assignments |-> [a EXCEPT !.status = ResponseStatus(accept)],
     assignment_history |-> [action |-> q.arg, by |-> q.by.user, to |-> a.to],
     notifications |->
        IF accept
        THEN <<[recipient |-> a.by, kind |-> "assignment_accepted"]>> ELSE <<>>]

AnswerWrites(q, row) ==
    LET a == assignments[q.item]
        accept == q.arg = "accepted" IN
    [work_items |->
        [row EXCEPT !.status = ResponseStatus(accept),
                    !.assignedTo = IF accept THEN @ ELSE NoUser],
     status_history |-> StatusChangeOf(row, ResponseStatus(accept), q.by, TRUE),
     assignments |-> [a EXCEPT !.status = q.arg],
     assignment_history |-> [action |-> q.arg, by |-> q.by.user, to |-> a.to],
     notifications |->
        IF accept
        THEN <<[recipient |-> a.by, kind |-> "assignment_accepted"]>> ELSE <<>>]

\* What the model enters in writes when the request is decided.
WritesOf(q, row) ==
    CASE q.op = "Update"  -> EditWrites(q, row)
      [] q.op = "Assign"  -> AssignWrites(q, row)
      [] q.op = "Respond" -> AnswerWrites(q, row)
      [] OTHER            -> MoveWrites(q, row)

\* The order of the store calls in the service.
TableOrder ==
    <<"work_items", "status_history", "assignments", "assignment_history",
      "notifications">>

\* The next of those calls, for the one-by-one writes of the model.
NextTable(ws) ==
    TableOrder[CHOOSE k \in DOMAIN TableOrder :
        /\ TableOrder[k] \in DOMAIN ws
        /\ \A j \in 1..k-1 : TableOrder[j] \notin DOMAIN ws]

\* Postgres updates only the answer of an assignment that exists; the in-memory
\* store replaces the row, as an assignment made anew does in both.
AssignmentAfter(current, written) ==
    IF setting.transactional /\ written.status # "assigned"
    THEN [current EXCEPT !.status = written.status] ELSE written

Perform(w, ws) ==
    /\ items' = IF "work_items" \in DOMAIN ws
            THEN [items EXCEPT ![w] = ws.work_items] ELSE items
    /\ statusHistory' = IF "status_history" \in DOMAIN ws
            THEN [statusHistory EXCEPT ![w] = Append(@, ws.status_history)]
            ELSE statusHistory
    /\ assignments' = IF "assignments" \in DOMAIN ws
            THEN [assignments EXCEPT ![w] = AssignmentAfter(@, ws.assignments)]
            ELSE assignments
    /\ assignmentHistory' = IF "assignment_history" \in DOMAIN ws
            THEN [assignmentHistory EXCEPT ![w] =
                    Append(@, ws.assignment_history)]
            ELSE assignmentHistory
    /\ notifications' = IF "notifications" \in DOMAIN ws
            THEN [notifications EXCEPT ![w] = @ \o ws.notifications]
            ELSE notifications

-----------------------------------------------------------------------------
(* A request in slot r: View and CheckEvidence if it is gated, ReadRow,    *)
(* Decide, and then either TakeRow and Commit or one Write per table.      *)

Idle(r) == stage[r] = "idle"

\* The work items some request is about.
InFlight == {request[r].item : r \in {s \in Slots : ~Idle(s)}}

\* The row lock a transaction holds from its first UPDATE to its end.
Holds(r, w) == stage[r] = "locked" /\ request[r].item = w

Init ==
    /\ Lifecycle!Init
    /\ stage = [r \in Slots |-> "idle"]
    /\ request = [r \in Slots |-> NoRequest]
    /\ seen = [r \in Slots |-> NoItem]
    /\ writes = [r \in Slots |-> <<>>]
    /\ setting \in Settings

GoTo(r, next) ==
    /\ stage' = [stage EXCEPT ![r] = next]
    /\ UNCHANGED <<request, seen, writes>>

\* The request is answered, whatever the answer.
Finish(r) ==
    /\ stage' = [stage EXCEPT ![r] = "idle"]
    /\ request' = [request EXCEPT ![r] = NoRequest]
    /\ seen' = [seen EXCEPT ![r] = NoItem]
    /\ writes' = [writes EXCEPT ![r] = <<>>]

\* Past the router's role gate. A request about an id without a row is
\* answered at once and leaves no trace.
Arrive(r, q) ==
    /\ Idle(r)
    /\ Allowed(q.op, q.by)
    /\ Exists(items[q.item])
    /\ setting.oneAtATime => q.item \notin InFlight
    /\ request' = [request EXCEPT ![r] = q]
    /\ UNCHANGED <<tables, attachments, surroundings, writes>>

\* The handler's own GetByID, in front of uploads and submissions. Whoever may
\* not see the item is refused.
View(r, q) ==
    /\ Gated(q)
    /\ q.op = "Upload" => attachments[q.item] < MaxAttachments
    /\ MayView(q.by, items[q.item], Oversees)
    /\ stage' = [stage EXCEPT ![r] = IF q.op = "Upload" THEN "saving" ELSE "evidence"]
    /\ UNCHANGED seen

\* store.GetByID of the service. A request that the row's status rules out is
\* refused, whatever else would be read.
ReadRow(r, q) ==
    /\ RowAllows(q, items[q.item])
    /\ stage' = [stage EXCEPT ![r] = "read"]
    /\ seen' = [seen EXCEPT ![r] = items[q.item]]

Start(r, q) ==
    /\ Arrive(r, q)
    /\ View(r, q) \/ (~Gated(q) /\ ReadRow(r, q))

\* Mutant: an upload that is under way is evidence enough.
CheckEvidenceComing(r) ==
    /\ stage[r] = "evidence"
    /\ LET w == request[r].item
           coming == \E s \in Slots : stage[s] = "saving" /\ request[s].item = w IN
       IF attachments[w] > 0 \/ coming THEN GoTo(r, "admitted") ELSE Finish(r)
    /\ UNCHANGED <<tables, attachments, surroundings>>

CheckEvidence(r) ==
    /\ stage[r] = "evidence"
    /\ IF attachments[request[r].item] > 0 THEN GoTo(r, "admitted") ELSE Finish(r)
    /\ UNCHANGED <<tables, attachments, surroundings>>

SaveAttachment(r) ==
    /\ stage[r] = "saving"
    /\ attachments' = [attachments EXCEPT ![request[r].item] = @ + 1]
    /\ Finish(r)
    /\ UNCHANGED <<tables, surroundings>>

Admit(r) ==
    /\ stage[r] = "admitted"
    /\ IF RowAllows(request[r], items[request[r].item])
       THEN ReadRow(r, request[r]) /\ UNCHANGED <<request, writes>>
       ELSE Finish(r)
    /\ UNCHANGED <<tables, attachments, surroundings>>

\* Everything from there to the first write: the assignment and the teams are
\* read now, the work item is not read again.
Decide(r) ==
    /\ stage[r] = "read"
    /\ IF Permitted(request[r], seen[r])
       THEN /\ stage' = [stage EXCEPT ![r] = "writing"]
            /\ writes' = [writes EXCEPT ![r] = WritesOf(request[r], seen[r])]
            /\ UNCHANGED <<request, seen>>
       ELSE Finish(r)
    /\ UNCHANGED <<tables, attachments, surroundings>>

\* One store call of the in-memory backend.
Write(r) ==
    /\ ~setting.transactional
    /\ stage[r] = "writing"
    /\ LET t == NextTable(writes[r])
           rest == DOMAIN writes[r] \ {t} IN
       /\ Perform(request[r].item, [x \in {t} |-> writes[r][x]])
       /\ IF rest = {}
          THEN Finish(r)
          ELSE /\ writes' = [writes EXCEPT ![r] = [x \in rest |-> @[x]]]
               /\ UNCHANGED <<stage, request, seen>>
    /\ UNCHANGED <<attachments, surroundings>>

\* Mutant: waits for every transaction that has decided, not for the lock.
TakeRowPolitely(r) ==
    /\ setting.transactional
    /\ stage[r] = "writing"
    /\ \A s \in Slots \ {r} :
            stage[s] \in {"writing", "locked"} => request[s].item # request[r].item
    /\ GoTo(r, "locked")
    /\ UNCHANGED <<tables, attachments, surroundings>>

\* The UPDATE of the work_items row waits for whoever holds its lock.
TakeRow(r) ==
    /\ setting.transactional
    /\ stage[r] = "writing"
    /\ \A s \in Slots : ~Holds(s, request[r].item)
    /\ GoTo(r, "locked")
    /\ UNCHANGED <<tables, attachments, surroundings>>

Commit(r) ==
    /\ stage[r] = "locked"
    /\ Perform(request[r].item, writes[r])
    /\ Finish(r)
    /\ UNCHANGED <<attachments, surroundings>>

\* Mutant: what was written before the failure stays.
AbortHalfway(r) ==
    /\ stage[r] = "locked"
    /\ \E k \in 0..Len(TableOrder) :
        LET done == {TableOrder[j] : j \in 1..k} \cap DOMAIN writes[r] IN
        Perform(request[r].item, [t \in done |-> writes[r][t]])
    /\ Finish(r)
    /\ UNCHANGED <<attachments, surroundings>>

\* A statement fails or the connection is lost: the transaction rolls back.
Abort(r) ==
    /\ setting.transactional
    /\ ~Idle(r)
    /\ Finish(r)
    /\ UNCHANGED <<tables, attachments, surroundings>>

\* POST /workitems is a single store call.
Create(w, p, content) ==
    /\ Lifecycle!Create(w, p, content)
    /\ UNCHANGED <<slotVars, setting>>

\* The service of the teams knows nothing of work item requests: only a setting
\* that says so keeps team changes out of the way of a supervisor's request,
\* whose authority they decide.
TeamStep ==
    /\ setting.teamsWait =>
        \A r \in Slots : ~Idle(r) => ActingRole(request[r].by) # "supervisor"
    /\ TeamNext
    /\ UNCHANGED <<tables, attachments, slotVars, setting>>

\* What the server does for a request it has admitted.
Serve(r) ==
    \/ CheckEvidence(r) \/ SaveAttachment(r)
    \/ Admit(r) \/ Decide(r)
    \/ Write(r) \/ TakeRow(r) \/ Commit(r)

Next ==
    \/ \E w \in WorkItems, p \in setting.principals, content \in Contents :
            Create(w, p, content)
    \/ \E r \in Slots :
            \/ \E q \in Requests : Start(r, q)
            \/ Serve(r)
            \/ Abort(r)
    \/ TeamStep

Spec == Init /\ [][Next]_vars

\* A goroutine that can run does run, and the row lock is granted in the order
\* in which transactions asked for it. Nobody has to start or abort anything.
Fairness ==
    \A r \in Slots :
        /\ WF_vars(Serve(r))
        /\ SF_vars(TakeRow(r))

FairSpec == Spec /\ Fairness

-----------------------------------------------------------------------------
(* Properties.                                                             *)

Stage == {"idle", "evidence", "saving", "admitted", "read", "writing",
          "locked"}

\* The types of the tables and of what is in flight; only a request that has
\* decided has writes to make, and it has read a row.
TypeOK ==
    /\ Lifecycle!TypeOK
    /\ stage \in [Slots -> Stage]
    /\ request \in [Slots -> Requests \cup {NoRequest}]
    /\ seen \in [Slots -> WorkItem \cup {NoItem}]
    /\ \A r \in Slots :
        /\ (stage[r] \in {"writing", "locked"}) <=> (writes[r] # <<>>)
        /\ stage[r] \in {"read", "writing", "locked"} => seen[r] \in WorkItem
        /\ request[r] = NoRequest <=> Idle(r)

\* Where requests about one work item do not overlap, and nobody changes the
\* teams while a supervisor's request is in flight, a transactional server
\* implements the atomic API: a request that is refused or rolled back, at
\* whatever point, leaves no trace, and one that commits is one step of it.
\* Without the second condition a supervisor who was removed after the service
\* asked whether he oversees the assignee still gets his commit.
ImplementsLifecycle == Lifecycle!Spec

\* However requests overlap, in Postgres no work item leaves a status it never
\* entered: completion was preceded by a verification, a verdict by a submission,
\* and so on, with stale rows written back over newer ones. (In memory a status
\* can be read before its entry is in the history.)
NoStatusFromNowhere ==
    setting.transactional =>
        \A w \in WorkItems : \A k \in DOMAIN statusHistory[w] :
            \/ statusHistory[w][k].from = "created"
            \/ \E j \in 1..k-1 : statusHistory[w][j].to = statusHistory[w][k].from

\* In Postgres, where nobody edits work items, the row shows the status recorded
\* last, and the assignment the answer recorded last, however the requests that
\* wrote them overlapped: each transaction writes both, under the lock of the
\* row.
RowsShowLastRecord ==
    setting.transactional /\ "Update" \notin setting.operations =>
        \A w \in WorkItems :
            LET h == statusHistory[w]
                e == assignmentHistory[w] IN
            /\ h # <<>> => items[w].status = h[Len(h)].to
            /\ e # <<>> => assignments[w].status = e[Len(e)].action

Count(s, Test(_)) == Cardinality({k \in DOMAIN s : Test(s[k])})

\* The four tables keep the same books: for each offer, acceptance and decline
\* there is one status change of that kind made by a response or an offer, one
\* assignment event, and the notification that goes with it; each submission
\* has its notification. Transactions keep them at all times, the in-memory
\* stores whenever no request about the item is in flight.
BooksBalance ==
    \A w \in WorkItems :
        LET Sent(kind) ==
                LET OfKind(n) == n.kind = kind IN Count(notifications[w], OfKind)
            Logged(action) ==
                LET Is(e) == e.action = action IN Count(assignmentHistory[w], Is)
            Moved(to) ==
                LET Is(c) == c.to = to IN Count(statusHistory[w], Is) IN
        \/ ~setting.transactional /\ w \in InFlight
        \/ /\ Logged("assigned") = Sent("assignment_created")
           /\ Logged("accepted") = Sent("assignment_accepted")
           /\ Logged("assigned") <= Moved("assigned")
           /\ Logged("accepted") <= Moved("accepted")
           /\ Logged("declined") <= Moved("created")
           /\ Moved("submitted_for_review") = Sent("evidence_submitted")

\* Nobody holds a work item that was not offered to him, however old the row
\* that was written back.
HoldersWereOffered ==
    \A w \in WorkItems :
        \/ items[w].assignedTo = NoUser
        \/ ~setting.transactional /\ w \in InFlight
        \/ \E k \in DOMAIN assignmentHistory[w] :
            /\ assignmentHistory[w][k].action = "assigned"
            /\ assignmentHistory[w][k].to = items[w].assignedTo

\* The evidence gate holds although it is asked before, and outside, the
\* transaction that submits, and although verdicts do not ask it at all.
ReviewedWithEvidence == Lifecycle!ReviewedWithEvidence

\* Every request is answered: no two transactions wait for each other, and none
\* waits for the row forever, although it may find it locked again and again.
EveryRequestEnds == \A r \in Slots : ~Idle(r) ~> Idle(r)

\* What the comment on validStatusTransitions says: "nothing can move once a
\* work item lands there".
NothingMovesFromTerminal ==
    [][\A w \in WorkItems :
        items[w].status \in {"completed", "cancelled"} =>
            items'[w].status = items[w].status]_vars

\* What README.md says: "every status change is a permanent, queryable record".
EveryStatusChangeIsRecorded ==
    [][\A w \in WorkItems :
        Exists(items[w]) /\ items'[w].status # items[w].status =>
            statusHistory'[w] # statusHistory[w]]_vars
=============================================================================
