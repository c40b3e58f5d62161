----------------------------- MODULE TeamRequests -----------------------------
(***************************************************************************)
(* teams.Service as the server runs it: one store call per step, no        *)
(* transaction around them, and requests that overlap. Rows are never      *)
(* deleted: a membership or supervision ends when its row is closed.       *)
(*                                                                         *)
(* Postgres (Indexed = TRUE) refuses a second active membership of a user  *)
(* by a partial unique index, and may fail or lose its client between two  *)
(* store calls (Failing); the in-memory stores do neither.                 *)
(***************************************************************************)
EXTENDS Naturals, Sequences, FiniteSets

CONSTANTS
    Users, Teams, NoTeam, TeamMembers, TeamSupervisors,  \* see TeamDirectory
    Slots,            \* requests that can be in flight at the same time
    Operations,       \* what they ask for
    Indexed,          \* whether the store has the unique index
    Failing,          \* those of them that may end after any store call
    MaxMemberships,   \* bound: no user is put on a team beyond these rows
    MaxSupervisions   \* bound: no supervisor is added beyond these rows

ASSUME TeamModesAssumption ==
    /\ Indexed \in BOOLEAN /\ Failing \subseteq Operations
    /\ MaxMemberships \in Nat /\ MaxSupervisions \in Nat

ASSUME TeamPeopleAssumption ==
    /\ TeamMembers \subseteq Users /\ TeamSupervisors \subseteq Users
    /\ NoTeam \notin Teams

VARIABLES
    memberships,      \* rows of team_memberships
    supervisionRows,  \* rows of team_supervisions
    stage,            \* the store call each request makes next
    request,          \* what it was asked for
    rows,             \* ids of the rows it has read and still has to close
    horizon,          \* how many supervision rows there were when it first read
    held              \* whether a check could truly be answered yes, so far

slotVars == <<stage, request, rows, horizon>>
vars == <<memberships, supervisionRows, slotVars, held>>

-----------------------------------------------------------------------------
(* The tables.                                                             *)

Rows == [user : Users, team : Teams, active : BOOLEAN]

RowsOf(u) == {k \in DOMAIN memberships : memberships[k].user = u}

ActiveRowsOf(u) == {k \in RowsOf(u) : memberships[k].active}

\* ListActiveByTeamID, and the comparison of the service with one user.
ActiveSupervisions(team, u) ==
    {k \in DOMAIN supervisionRows :
        supervisionRows[k] = [user |-> u, team |-> team, active |-> TRUE]}

Opened(table, u, team) ==
    Append(table, [user |-> u, team |-> team, active |-> TRUE])

Closed(table, k) == [table EXCEPT ![k].active = FALSE]

-----------------------------------------------------------------------------
(* The directory these tables stand for.                                   *)

BeingMoved(u) ==
    \E r \in Slots :
        stage[r] = "creating" /\ request[r].user = u

Latest(u) == CHOOSE k \in RowsOf(u) : \A j \in RowsOf(u) : j <= k

\* The team somebody is on; while he is being moved, the team he leaves.
TeamShown(u) ==
    IF ActiveRowsOf(u) # {}
    THEN memberships[CHOOSE k \in ActiveRowsOf(u) : TRUE].team
    ELSE IF RowsOf(u) # {} /\ BeingMoved(u)
    THEN memberships[Latest(u)].team
    ELSE NoTeam

SupervisionsShown ==
    {pair \in Users \X Teams : ActiveSupervisions(pair[2], pair[1]) # {}}

Directory == INSTANCE TeamDirectory WITH
    memberOf     <- [u \in Users |-> TeamShown(u)],
    supervisions <- SupervisionsShown

-----------------------------------------------------------------------------
(* Requests. AddAssignee: ReadMembership, CloseOld, CreateNew.             *)
(* RemoveSupervisor: ReadSupervisions, then CloseSupervision for each row. *)
(* IsActiveSupervisorOf: ReadTeamOf, ReadSupervisors.                      *)

NoRequest == [op |-> "none"]

Requests ==
    [op : {"Add"}, user : TeamMembers, team : Teams]
        \cup [op : {"Remove"}, user : TeamSupervisors, team : Teams]
        \cup [op : {"Check"}, sup : TeamSupervisors, user : TeamMembers,
              team : Teams]

Idle(r) == stage[r] = "idle"

Init ==
    /\ memberships = <<>>
    /\ supervisionRows = <<>>
    /\ stage = [r \in Slots |-> "idle"]
    /\ request = [r \in Slots |-> NoRequest]
    /\ rows = [r \in Slots |-> {}]
    /\ horizon = [r \in Slots |-> 0]
    /\ held = [r \in Slots |-> FALSE]

GoTo(r, next, q, ids) ==
    /\ stage' = [stage EXCEPT ![r] = next]
    /\ request' = [request EXCEPT ![r] = q]
    /\ rows' = [rows EXCEPT ![r] = ids]
    /\ UNCHANGED horizon

Finish(r) ==
    /\ stage' = [stage EXCEPT ![r] = "idle"]
    /\ request' = [request EXCEPT ![r] = NoRequest]
    /\ rows' = [rows EXCEPT ![r] = {}]
    /\ horizon' = [horizon EXCEPT ![r] = 0]

\* GetActiveByUserID. Whoever is on the team already is left there.
ReadMembership(r, team, u) ==
    /\ "Add" \in Operations /\ Idle(r)
    /\ Len(memberships) < MaxMemberships
    /\ LET q == [op |-> "Add", user |-> u, team |-> team] IN
       \/ /\ ActiveRowsOf(u) = {}
          /\ GoTo(r, "creating", q, {})
       \/ \E k \in ActiveRowsOf(u) :
            /\ \A j \in ActiveRowsOf(u) : k <= j
            /\ memberships[k].team # team
            /\ GoTo(r, "closing", q, {k})
    /\ UNCHANGED <<memberships, supervisionRows>>

CloseOld(r) ==
    /\ stage[r] = "closing"
    /\ \E k \in rows[r] : memberships' = Closed(memberships, k)
    /\ GoTo(r, "creating", request[r], {})
    /\ UNCHANGED supervisionRows

\* Mutant: the unique index is missing.
CreateAnyway(r) ==
    /\ stage[r] = "creating"
    /\ memberships' = Opened(memberships, request[r].user, request[r].team)
    /\ Finish(r)
    /\ UNCHANGED supervisionRows

\* Mutant: the index covers closed rows as well.
CreateOnce(r) ==
    /\ stage[r] = "creating"
    /\ IF Indexed /\ RowsOf(request[r].user) # {}
       THEN UNCHANGED memberships
       ELSE memberships' =
                Opened(memberships, request[r].user, request[r].team)
    /\ Finish(r)
    /\ UNCHANGED supervisionRows

\* The INSERT, which the index refuses if another request was faster.
CreateNew(r) ==
    /\ stage[r] = "creating"
    /\ IF Indexed /\ ActiveRowsOf(request[r].user) # {}
       THEN UNCHANGED memberships
       ELSE memberships' =
                Opened(memberships, request[r].user, request[r].team)
    /\ Finish(r)
    /\ UNCHANGED supervisionRows

\* Mutant: a supervisor is moved, as an assignee is.
AddSupervisorMoving(team, u) ==
    /\ "Supervise" \in Operations
    /\ Len(supervisionRows) < MaxSupervisions
    /\ supervisionRows' =
            Opened([k \in DOMAIN supervisionRows |->
                        [supervisionRows[k] EXCEPT !.active = @ /\ supervisionRows[k].user # u]],
                   u, team)
    /\ UNCHANGED <<memberships, slotVars>>

AddSupervisor(team, u) ==
    /\ "Supervise" \in Operations
    /\ Len(supervisionRows) < MaxSupervisions
    /\ supervisionRows' = Opened(supervisionRows, u, team)
    /\ UNCHANGED <<memberships, slotVars>>

\* Mutant: only one of the matching rows is remembered.
ReadOneSupervision(r, team, u) ==
    /\ "Remove" \in Operations /\ Idle(r)
    /\ ActiveSupervisions(team, u) # {}
    /\ stage' = [stage EXCEPT ![r] = "removing"]
    /\ request' = [request EXCEPT ![r] =
            [op |-> "Remove", user |-> u, team |-> team]]
    /\ \E k \in ActiveSupervisions(team, u) :
            rows' = [rows EXCEPT ![r] = {k}]
    /\ horizon' = [horizon EXCEPT ![r] = Len(supervisionRows)]
    /\ UNCHANGED <<memberships, supervisionRows>>

\* The list RemoveSupervisor works through. A user who is no supervisor of the
\* team is refused.
ReadSupervisions(r, team, u) ==
    /\ "Remove" \in Operations /\ Idle(r)
    /\ ActiveSupervisions(team, u) # {}
    /\ stage' = [stage EXCEPT ![r] = "removing"]
    /\ request' = [request EXCEPT ![r] =
            [op |-> "Remove", user |-> u, team |-> team]]
    /\ rows' = [rows EXCEPT ![r] = ActiveSupervisions(team, u)]
    /\ horizon' = [horizon EXCEPT ![r] = Len(supervisionRows)]
    /\ UNCHANGED <<memberships, supervisionRows>>

CloseSupervision(r) ==
    /\ stage[r] = "removing"
    /\ \E k \in rows[r] :
        /\ supervisionRows' = Closed(supervisionRows, k)
        /\ IF rows[r] = {k} THEN Finish(r)
           ELSE GoTo(r, "removing", request[r], rows[r] \ {k})
    /\ UNCHANGED memberships

\* Mutant: the team of any membership, ended or not.
ReadAnyTeamOf(r, sup, u) ==
    /\ "Check" \in Operations /\ Idle(r)
    /\ \E k \in RowsOf(u) :
        /\ stage' = [stage EXCEPT ![r] = "looking"]
        /\ request' = [request EXCEPT ![r] =
                [op |-> "Check", sup |-> sup, user |-> u,
                 team |-> memberships[k].team]]
    /\ horizon' = [horizon EXCEPT ![r] = Len(supervisionRows)]
    /\ UNCHANGED <<memberships, supervisionRows, rows>>

\* The first read of IsActiveSupervisorOf. Without a team the answer is no.
ReadTeamOf(r, sup, u) ==
    /\ "Check" \in Operations /\ Idle(r)
    /\ \E k \in ActiveRowsOf(u) :
        /\ \A j \in ActiveRowsOf(u) : k <= j
        /\ stage' = [stage EXCEPT ![r] = "looking"]
        /\ request' = [request EXCEPT ![r] =
                [op |-> "Check", sup |-> sup, user |-> u,
                 team |-> memberships[k].team]]
    /\ horizon' = [horizon EXCEPT ![r] = Len(supervisionRows)]
    /\ UNCHANGED <<memberships, supervisionRows, rows>>

\* The second, of the team read before; the answer is yes if there is any
\* active supervision.
ReadSupervisors(r) ==
    /\ stage[r] = "looking"
    /\ Finish(r)
    /\ UNCHANGED <<memberships, supervisionRows>>

\* A store call fails, or the client is gone before the next one.
Fail(r) ==
    /\ ~Idle(r)
    /\ request[r].op \in Failing
    /\ Finish(r)
    /\ UNCHANGED <<memberships, supervisionRows>>

\* Bookkeeping for the property about checks.
Watch ==
    held' = [r \in Slots |->
        /\ stage'[r] = "looking"
        /\ held[r] \/ <<request'[r].sup, request'[r].user>> \in Directory!Oversees']

Step ==
    \/ \E r \in Slots :
        \/ \E team \in Teams :
            \/ \E u \in TeamMembers : ReadMembership(r, team, u)
            \/ \E u \in TeamSupervisors : ReadSupervisions(r, team, u)
        \/ \E sup \in TeamSupervisors, u \in TeamMembers :
                ReadTeamOf(r, sup, u)
        \/ CloseOld(r)
        \/ CreateNew(r)
        \/ CloseSupervision(r)
        \/ ReadSupervisors(r)
        \/ Fail(r)
    \/ \E team \in Teams, u \in TeamSupervisors : AddSupervisor(team, u)

Next == Step /\ Watch

Spec == Init /\ [][Next]_vars

-----------------------------------------------------------------------------
(* Properties.                                                             *)

\* The types of the tables and of what is in flight.
TypeOK ==
    /\ memberships \in Seq(Rows)
    /\ supervisionRows \in Seq(Rows)
    /\ stage \in [Slots -> {"idle", "closing", "creating", "removing",
                            "looking"}]
    /\ request \in [Slots -> Requests \cup {NoRequest}]
    /\ horizon \in [Slots -> Nat]
    /\ held \in [Slots -> BOOLEAN]
    /\ DOMAIN rows = Slots
    /\ \A r \in Slots :
        /\ stage[r] \in {"closing", "creating"} => request[r].op = "Add"
        /\ stage[r] = "closing" =>
                \E k \in RowsOf(request[r].user) : rows[r] = {k}
        /\ stage[r] = "removing" =>
                /\ request[r].op = "Remove"
                /\ rows[r] # {} /\ rows[r] \subseteq DOMAIN supervisionRows
        /\ stage[r] = "looking" => request[r].op = "Check"

\* Nobody is on two teams, however moves overlap and wherever they break off.
\* The index sees to that alone; store.go promises it of every store.
OneActiveTeam ==
    \A u \in Users : \A j, k \in ActiveRowsOf(u) : j = k

\* What AddAssignee promises: "exactly one active team, never zero once
\* assigned". Whoever was put on a team is on one, or some request is about to
\* put him there; one whose INSERT the index refuses has lost to one that
\* succeeded. So it is where moves do not break off.
NeverTeamless ==
    \A u \in Users : RowsOf(u) # {} => ActiveRowsOf(u) # {} \/ BeingMoved(u)

\* A removal that is not cut short leaves no supervision of that user and team
\* but those granted after it looked; a user who was added twice is not left a
\* supervisor.
RemovalIsComplete ==
    [][\A r \in Slots :
        stage[r] = "removing" /\ stage'[r] = "idle" =>
            \/ "Remove" \in Failing /\ UNCHANGED supervisionRows
            \/ \A k \in 1..horizon[r] :
                    supervisionRows'[k] # [user |-> request[r].user,
                                           team |-> request[r].team,
                                           active |-> TRUE]]_vars

\* IsActiveSupervisorOf says whether somebody "currently" is a supervisor of the
\* team somebody else "currently belongs to", from two reads. A yes was right at
\* some moment of the check (with a user who is being moved still on the team he
\* leaves), unless it rests on a supervision granted between the two: then the
\* user may have left that team before.
YesWasTrueOnce ==
    [][\A r \in Slots :
        stage[r] = "looking" /\ stage'[r] = "idle" =>
            \/ held[r]
            \/ \A k \in ActiveSupervisions(request[r].team, request[r].sup) :
                    k > horizon[r]]_vars

\* Refinement. With the index, and where moves do not break off, overlapping
\* requests look like the atomic operations the work item modules build on:
\* every move takes effect at once or not at all, and a removal when the last
\* of its rows is closed, if it gets there.
ImplementsDirectory == Directory!TeamSpec
=============================================================================
