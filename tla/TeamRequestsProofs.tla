-------------------------- MODULE TeamRequestsProofs --------------------------
(***************************************************************************)
(* TeamRequests for any number of users, teams and overlapping requests.   *)
(* The heart of it is that the active membership of a user is the last row *)
(* he has: the index lets nobody insert a row behind an active one, and so *)
(* the row a request closes is the row the directory showed.               *)
(***************************************************************************)
EXTENDS TeamRequests, SequenceTheorems, TLAPS

\* With the index, only the last of a user's rows can be active.
ActiveIsNewest ==
    \A u \in Users : RowsOf(u) # {} =>
        \E k \in RowsOf(u) :
            /\ \A j \in RowsOf(u) : j <= k
            /\ Indexed => ActiveRowsOf(u) \subseteq {k}

\* Where nothing fails, nobody is forgotten.
NobodyIsForgotten == "Add" \notin Failing => NeverTeamless

\* A removal still has to close every row it saw that is active, and no row of
\* anybody else.
RemovalsAreOnTheWay ==
    \A r \in Slots : stage[r] = "removing" =>
        /\ horizon[r] <= Len(supervisionRows)
        /\ \A k \in rows[r] :
            /\ supervisionRows[k].user = request[r].user
            /\ supervisionRows[k].team = request[r].team
        /\ \A k \in 1..horizon[r] :
            supervisionRows[k] = [user |-> request[r].user,
                                  team |-> request[r].team,
                                  active |-> TRUE] => k \in rows[r]

IInv ==
    /\ TypeOK
    /\ ActiveIsNewest
    /\ NobodyIsForgotten
    /\ RemovalsAreOnTheWay

-----------------------------------------------------------------------------
(* The tables.                                                             *)

LEMMA OpenedTable ==
    ASSUME NEW table \in Seq(Rows), NEW u \in Users, NEW team \in Teams
    PROVE  /\ Opened(table, u, team) \in Seq(Rows)
           /\ Len(Opened(table, u, team)) = Len(table) + 1
           /\ \A k \in 1..Len(table) : Opened(table, u, team)[k] = table[k]
           /\ Opened(table, u, team)[Len(table) + 1] =
                [user |-> u, team |-> team, active |-> TRUE]
  BY DEF Opened, Rows

LEMMA ClosedTable ==
    ASSUME NEW table \in Seq(Rows), NEW k \in DOMAIN table
    PROVE  /\ Closed(table, k) \in Seq(Rows)
           /\ Len(Closed(table, k)) = Len(table)
           /\ \A j \in DOMAIN table :
                /\ Closed(table, k)[j].user = table[j].user
                /\ Closed(table, k)[j].team = table[j].team
                /\ j # k => Closed(table, k)[j] = table[j]
                /\ ~table[j].active => Closed(table, k)[j] = table[j]
           /\ Closed(table, k)[k].active = FALSE
<1>1. \A j \in DOMAIN table : table[j] \in Rows
  OBVIOUS
<1>2. [table[k] EXCEPT !.active = FALSE] \in Rows
  BY <1>1 DEF Rows
<1>3. Closed(table, k) = [table EXCEPT ![k] = [table[k] EXCEPT !.active = FALSE]]
  BY Zenon DEF Closed
<1>4. /\ Closed(table, k) \in Seq(Rows) /\ Len(Closed(table, k)) = Len(table)
      /\ \A j \in DOMAIN table : Closed(table, k)[j] =
            IF j = k THEN [table[k] EXCEPT !.active = FALSE] ELSE table[j]
  BY <1>2, <1>3, ExceptSeq
<1>5. ~table[k].active => [table[k] EXCEPT !.active = FALSE] = table[k]
  BY <1>1 DEF Rows
<1>6. /\ [table[k] EXCEPT !.active = FALSE].user = table[k].user
      /\ [table[k] EXCEPT !.active = FALSE].team = table[k].team
      /\ [table[k] EXCEPT !.active = FALSE].active = FALSE
  BY <1>1 DEF Rows
<1> QED BY <1>4, <1>5, <1>6

-----------------------------------------------------------------------------
(* One slot moves, the others stay.                                        *)

Stages == {"idle", "closing", "creating", "removing", "looking"}

OthersStay(r) ==
    \A s \in Slots \ {r} :
        /\ stage'[s] = stage[s] /\ request'[s] = request[s]
        /\ rows'[s] = rows[s] /\ horizon'[s] = horizon[s]

SlotsTyped ==
    /\ stage \in [Slots -> Stages]
    /\ request \in [Slots -> Requests \cup {NoRequest}]
    /\ horizon \in [Slots -> Nat]
    /\ DOMAIN rows = Slots

LEMMA SlotGoesTo ==
    ASSUME SlotsTyped, NEW r \in Slots, NEW next \in Stages,
           NEW q \in Requests, NEW ids, GoTo(r, next, q, ids)
    PROVE  /\ SlotsTyped'
           /\ OthersStay(r)
           /\ stage'[r] = next /\ request'[r] = q /\ rows'[r] = ids
           /\ horizon'[r] = horizon[r]
  BY DEF SlotsTyped, GoTo, OthersStay

LEMMA SlotFinishes ==
    ASSUME SlotsTyped, NEW r \in Slots, Finish(r)
    PROVE  SlotsTyped' /\ OthersStay(r) /\ stage'[r] = "idle"
  BY DEF SlotsTyped, Finish, OthersStay, Stages

\* What a request was asked for.
LEMMA WhatWasAsked ==
    ASSUME TypeOK, NEW r \in Slots
    PROVE  /\ stage[r] \in {"closing", "creating"} =>
                /\ request[r] \in Requests
                /\ request[r].user \in TeamMembers /\ request[r].user \in Users
                /\ request[r].team \in Teams
           /\ stage[r] = "removing" =>
                /\ request[r] \in Requests
                /\ request[r].user \in TeamSupervisors
                /\ request[r].user \in Users
                /\ request[r].team \in Teams
<1>1. request[r] \in Requests \cup {NoRequest}
  BY DEF TypeOK
<1>2. request[r].op \in {"Add", "Remove"} =>
        /\ request[r] \in Requests
        /\ request[r].op = "Add" => request[r].user \in TeamMembers
        /\ request[r].op = "Remove" => request[r].user \in TeamSupervisors
        /\ request[r].team \in Teams
  BY <1>1 DEF Requests, NoRequest
<1>3. /\ stage[r] \in {"closing", "creating"} => request[r].op = "Add"
      /\ stage[r] = "removing" => request[r].op = "Remove"
  BY DEF TypeOK
<1> QED BY <1>2, <1>3, TeamPeopleAssumption

-----------------------------------------------------------------------------
(* The invariant is inductive.                                             *)

LEMMA InitEstablishes == Init => IInv
  BY TeamModesAssumption
  DEF Init, IInv, TypeOK, ActiveIsNewest, NobodyIsForgotten, NeverTeamless,
      RemovalsAreOnTheWay, ActiveRowsOf, RowsOf, NoRequest

\* The parts of the invariant that are about a table survive while it does.
LEMMA MembershipsUntouched ==
    ASSUME ActiveIsNewest, UNCHANGED memberships
    PROVE  ActiveIsNewest'
  BY DEF ActiveIsNewest, ActiveRowsOf, RowsOf

LEMMA NobodyLetGo ==
    ASSUME NobodyIsForgotten, UNCHANGED memberships,
           \A s \in Slots : stage[s] = "creating" =>
                stage'[s] = "creating" /\ request'[s] = request[s]
    PROVE  NobodyIsForgotten'
  BY DEF NobodyIsForgotten, NeverTeamless, BeingMoved, ActiveRowsOf, RowsOf

LEMMA RemovalsUntouched ==
    ASSUME RemovalsAreOnTheWay, UNCHANGED supervisionRows, NEW r \in Slots,
           OthersStay(r), stage'[r] # "removing"
    PROVE  RemovalsAreOnTheWay'
  BY DEF RemovalsAreOnTheWay, OthersStay

\* The types that bookkeeping and the request in one slot leave to be shown.
SlotTyped(r) ==
    /\ stage[r] \in {"closing", "creating"} => request[r].op = "Add"
    /\ stage[r] = "closing" => \E k \in RowsOf(request[r].user) : rows[r] = {k}
    /\ stage[r] = "removing" =>
            /\ request[r].op = "Remove"
            /\ rows[r] # {} /\ rows[r] \subseteq DOMAIN supervisionRows
    /\ stage[r] = "looking" => request[r].op = "Check"

LEMMA HeldTyped ==
    ASSUME Watch PROVE held' \in [Slots -> BOOLEAN]
  BY DEF Watch

LEMMA TypeOKFromParts ==
    ASSUME TypeOK, Watch, NEW r \in Slots, OthersStay(r), SlotsTyped',
           memberships' \in Seq(Rows), supervisionRows' \in Seq(Rows),
           Len(memberships') >= Len(memberships),
           Len(supervisionRows') >= Len(supervisionRows),
           \A k \in DOMAIN memberships :
                memberships'[k].user = memberships[k].user,
           SlotTyped(r)'
    PROVE  TypeOK'
<1>1. ASSUME NEW s \in Slots \ {r} PROVE SlotTyped(s)'
  <2>1. \A u : RowsOf(u) \subseteq RowsOf(u)'
    BY DEF RowsOf, TypeOK
  <2>2. DOMAIN supervisionRows \subseteq DOMAIN supervisionRows'
    BY DEF TypeOK
  <2>3. SlotTyped(s)
    BY DEF TypeOK, SlotTyped
  <2> QED BY <2>1, <2>2, <2>3 DEF SlotTyped, OthersStay
<1> QED BY <1>1, HeldTyped DEF TypeOK, SlotsTyped, Stages, SlotTyped

LEMMA ReadMembershipPreserves ==
    ASSUME IInv, NEW r \in Slots, NEW team \in Teams, NEW u \in TeamMembers,
           ReadMembership(r, team, u), Watch
    PROVE  IInv'
<1> DEFINE q == [op |-> "Add", user |-> u, team |-> team]
<1>1. UNCHANGED <<memberships, supervisionRows>>
  BY DEF ReadMembership
<1>2. q \in Requests /\ SlotsTyped
  BY DEF Requests, IInv, TypeOK, SlotsTyped, Stages
<1>3. PICK next \in {"creating", "closing"} : \E found :
        /\ GoTo(r, next, q, found)
        /\ next = "closing" => \E k \in RowsOf(u) : found = {k}
  BY DEF ReadMembership, ActiveRowsOf
<1>4. PICK ids :
        /\ GoTo(r, next, q, ids)
        /\ next = "closing" => \E k \in RowsOf(u) : ids = {k}
  BY <1>3
<1>5. /\ SlotsTyped' /\ OthersStay(r)
      /\ stage'[r] = next /\ request'[r] = q /\ rows'[r] = ids
  BY <1>2, <1>4, SlotGoesTo DEF Stages
<1>6. TypeOK'
  <2>1. SlotTyped(r)'
    BY <1>1, <1>4, <1>5 DEF SlotTyped, RowsOf
  <2> QED BY <1>1, <1>5, <2>1, TypeOKFromParts DEF IInv, TypeOK
<1>7. NobodyIsForgotten'
  BY <1>1, <1>5, NobodyLetGo DEF ReadMembership, Idle, OthersStay, IInv
<1> QED BY <1>1, <1>5, <1>6, <1>7, MembershipsUntouched, RemovalsUntouched DEF IInv

\* CloseOld, seen from the rows: one ends, of the user who is moved.
LEMMA RowCloses ==
    ASSUME IInv, NEW r \in Slots, CloseOld(r)
    PROVE  \E u \in Users, k \in Nat :
        /\ u = request[r].user
        /\ k \in RowsOf(u)
        /\ memberships' \in Seq(Rows) /\ Len(memberships') = Len(memberships)
        /\ \A j \in DOMAIN memberships :
            /\ memberships'[j].user = memberships[j].user
            /\ memberships'[j].team = memberships[j].team
        /\ \A v \in Users :
            /\ RowsOf(v)' = RowsOf(v)
            /\ v # u => ActiveRowsOf(v)' = ActiveRowsOf(v)
        /\ ActiveRowsOf(u)' = ActiveRowsOf(u) \ {k}
<1>1. PICK u \in Users : u = request[r].user
  BY WhatWasAsked DEF CloseOld, IInv
<1>2. PICK k \in RowsOf(u) : memberships' = Closed(memberships, k)
  BY <1>1 DEF CloseOld, IInv, TypeOK
<1>3. memberships \in Seq(Rows) /\ k \in DOMAIN memberships
  BY <1>2 DEF RowsOf, IInv, TypeOK
<1>4. memberships' \in Seq(Rows) /\ Len(memberships') = Len(memberships)
  BY <1>2, <1>3, ClosedTable
<1>5. DOMAIN memberships' = DOMAIN memberships /\ k \in Nat
  BY <1>3, <1>4
<1>6. /\ \A j \in DOMAIN memberships :
            /\ memberships'[j].user = memberships[j].user
            /\ memberships'[j].team = memberships[j].team
            /\ j # k => memberships'[j] = memberships[j]
      /\ memberships'[k].active = FALSE
  BY <1>2, <1>3, ClosedTable
<1>7. /\ \A v \in Users :
            /\ RowsOf(v)' = RowsOf(v)
            /\ v # u => ActiveRowsOf(v)' = ActiveRowsOf(v)
      /\ ActiveRowsOf(u)' = ActiveRowsOf(u) \ {k}
  BY <1>2, <1>5, <1>6 DEF RowsOf, ActiveRowsOf
<1> QED BY <1>1, <1>2, <1>4, <1>5, <1>6, <1>7

LEMMA CloseOldPreserves ==
    ASSUME IInv, NEW r \in Slots, CloseOld(r), Watch
    PROVE  IInv'
<1>1. request[r] \in Requests
  BY WhatWasAsked DEF CloseOld, IInv
<1>2. PICK u \in Users, k \in Nat :
        /\ u = request[r].user
        /\ memberships' \in Seq(Rows) /\ Len(memberships') = Len(memberships)
        /\ \A j \in DOMAIN memberships :
            memberships'[j].user = memberships[j].user
        /\ \A v \in Users :
            /\ RowsOf(v)' = RowsOf(v)
            /\ v # u => ActiveRowsOf(v)' = ActiveRowsOf(v)
        /\ ActiveRowsOf(u)' = ActiveRowsOf(u) \ {k}
  <2>1. PICK u \in Users, k \in Nat :
        /\ u = request[r].user
        /\ k \in RowsOf(u)
        /\ memberships' \in Seq(Rows) /\ Len(memberships') = Len(memberships)
        /\ \A j \in DOMAIN memberships :
            /\ memberships'[j].user = memberships[j].user
            /\ memberships'[j].team = memberships[j].team
        /\ \A v \in Users :
            /\ RowsOf(v)' = RowsOf(v)
            /\ v # u => ActiveRowsOf(v)' = ActiveRowsOf(v)
        /\ ActiveRowsOf(u)' = ActiveRowsOf(u) \ {k}
    BY RowCloses
  <2> QED BY <2>1
<1>3. /\ SlotsTyped' /\ OthersStay(r)
      /\ stage'[r] = "creating" /\ request'[r] = request[r]
  <2>1. SlotsTyped
    BY DEF IInv, TypeOK, SlotsTyped, Stages
  <2> QED BY <1>1, <2>1, SlotGoesTo DEF CloseOld, Stages
<1>5. TypeOK'
  <2>1. SlotTyped(r)'
    BY <1>3 DEF SlotTyped, CloseOld, IInv, TypeOK
  <2> QED BY <1>2, <1>3, <2>1, TypeOKFromParts DEF CloseOld, IInv, TypeOK
<1>6. ActiveIsNewest'
  BY <1>2 DEF ActiveIsNewest, IInv
<1>7. NobodyIsForgotten'
  <2>1. \A v : BeingMoved(v) => BeingMoved(v)'
    BY <1>3 DEF BeingMoved, OthersStay, CloseOld
  <2>2. BeingMoved(u)'
    BY <1>2, <1>3 DEF BeingMoved
  <2> QED BY <1>2, <2>1, <2>2 DEF NobodyIsForgotten, NeverTeamless, IInv
<1>8. RemovalsAreOnTheWay'
  BY <1>3, RemovalsUntouched DEF CloseOld, IInv
<1> QED BY <1>5, <1>6, <1>7, <1>8 DEF IInv

\* CreateNew, where it is not refused: a new row, and the last.
LEMMA RowOpens ==
    ASSUME IInv, NEW r \in Slots, CreateNew(r),
           Indexed => ActiveRowsOf(request[r].user) = {}
    PROVE  \E u \in Users, n \in Nat :
        /\ u = request[r].user
        /\ memberships' \in Seq(Rows) /\ Len(memberships') >= Len(memberships)
        /\ memberships'[n].team = request[r].team
        /\ \A j \in DOMAIN memberships : memberships'[j] = memberships[j] /\ j < n
        /\ \A v \in Users : v # u =>
            /\ RowsOf(v)' = RowsOf(v)
            /\ ActiveRowsOf(v)' = ActiveRowsOf(v)
        /\ RowsOf(u)' = RowsOf(u) \cup {n}
        /\ ActiveRowsOf(u)' = ActiveRowsOf(u) \cup {n}
<1>1. PICK u \in Users : u = request[r].user /\ request[r].team \in Teams
  BY WhatWasAsked DEF CreateNew, IInv
<1>2. memberships' = Opened(memberships, u, request[r].team)
  BY <1>1 DEF CreateNew
<1>3. memberships \in Seq(Rows)
  BY DEF IInv, TypeOK
<1>4. PICK n \in Nat : n = Len(memberships) + 1
  BY <1>3
<1>5. /\ memberships' \in Seq(Rows)
      /\ Len(memberships') = n
      /\ \A k \in 1..Len(memberships) : memberships'[k] = memberships[k]
      /\ memberships'[n] = [user |-> u, team |-> request[r].team, active |-> TRUE]
  BY <1>1, <1>2, <1>3, <1>4, OpenedTable
<1>6. /\ DOMAIN memberships = 1..Len(memberships)
      /\ DOMAIN memberships' = 1..n
  BY <1>3, <1>5
<1>7. 1..n = 1..Len(memberships) \cup {n} /\ n \notin 1..Len(memberships)
  BY <1>3, <1>4
<1>8. \A v : /\ v # u => /\ RowsOf(v)' = RowsOf(v)
                         /\ ActiveRowsOf(v)' = ActiveRowsOf(v)
             /\ v = u => /\ RowsOf(v)' = RowsOf(v) \cup {n}
                         /\ ActiveRowsOf(v)' = ActiveRowsOf(v) \cup {n}
  BY <1>5, <1>6, <1>7 DEF RowsOf, ActiveRowsOf
<1>9. /\ \A j \in DOMAIN memberships : memberships'[j] = memberships[j] /\ j < n
      /\ Len(memberships') >= Len(memberships)
      /\ memberships'[n].team = request[r].team
  BY <1>3, <1>4, <1>5, <1>6
<1> QED BY <1>1, <1>5, <1>8, <1>9

LEMMA CreateNewPreserves ==
    ASSUME IInv, NEW r \in Slots, CreateNew(r), Watch
    PROVE  IInv'
<1>1. SlotsTyped' /\ OthersStay(r) /\ stage'[r] = "idle"
  <2>1. SlotsTyped
    BY DEF IInv, TypeOK, SlotsTyped, Stages
  <2> QED BY <2>1, SlotFinishes DEF CreateNew
<1>2. SlotTyped(r)'
  BY <1>1 DEF SlotTyped
<1>3. RemovalsAreOnTheWay'
  BY <1>1, RemovalsUntouched DEF CreateNew, IInv
<1>4. \A v : v # request[r].user /\ BeingMoved(v) => BeingMoved(v)'
  BY <1>1 DEF BeingMoved, OthersStay
<1>5. CASE Indexed /\ ActiveRowsOf(request[r].user) # {}
  <2>1. UNCHANGED <<memberships, supervisionRows>>
    BY <1>5 DEF CreateNew
  <2>2. TypeOK'
    BY <1>1, <1>2, <2>1, TypeOKFromParts DEF IInv, TypeOK
  <2>3. \A v : RowsOf(v)' = RowsOf(v) /\ ActiveRowsOf(v)' = ActiveRowsOf(v)
    BY <2>1 DEF RowsOf, ActiveRowsOf
  <2>4. NobodyIsForgotten'
    BY <1>4, <1>5, <2>3 DEF NobodyIsForgotten, NeverTeamless, IInv
  <2> QED BY <1>3, <2>1, <2>2, <2>4, MembershipsUntouched DEF IInv
<1>6. CASE Indexed => ActiveRowsOf(request[r].user) = {}
  <2>1. PICK u \in Users, n \in Nat :
        /\ u = request[r].user
        /\ memberships' \in Seq(Rows) /\ Len(memberships') >= Len(memberships)
        /\ \A j \in DOMAIN memberships : memberships'[j] = memberships[j] /\ j < n
        /\ \A v \in Users : v # u =>
            /\ RowsOf(v)' = RowsOf(v)
            /\ ActiveRowsOf(v)' = ActiveRowsOf(v)
        /\ RowsOf(u)' = RowsOf(u) \cup {n}
        /\ ActiveRowsOf(u)' = ActiveRowsOf(u) \cup {n}
    BY <1>6, RowOpens
  <2>2. TypeOK'
    <3>1. /\ supervisionRows' \in Seq(Rows)
          /\ Len(supervisionRows') >= Len(supervisionRows)
      BY DEF CreateNew, IInv, TypeOK
    <3> QED BY <1>1, <1>2, <2>1, <3>1, TypeOKFromParts DEF IInv
  <2>3. ActiveIsNewest'
    <3> SUFFICES ASSUME NEW v \in Users, RowsOf(v)' # {}
                 PROVE  \E k \in RowsOf(v)' :
                            /\ \A j \in RowsOf(v)' : j <= k
                            /\ Indexed => ActiveRowsOf(v)' \subseteq {k}
      BY DEF ActiveIsNewest
    <3>1. CASE v = u
      <4>1. \A j \in RowsOf(u)' : j \in Nat /\ (j = n \/ j < n)
        BY <2>1 DEF RowsOf, IInv, TypeOK
      <4>2. \A j \in RowsOf(u)' : j <= n
        BY <4>1
      <4> QED BY <1>6, <2>1, <3>1, <4>2
    <3>2. CASE v # u
      BY <2>1, <3>2 DEF IInv, ActiveIsNewest
    <3> QED BY <3>1, <3>2
  <2>4. NobodyIsForgotten'
    BY <1>4, <2>1 DEF NobodyIsForgotten, NeverTeamless, IInv
  <2> QED BY <1>3, <2>2, <2>3, <2>4 DEF IInv
<1> QED BY <1>5, <1>6

LEMMA ReadSupervisionsPreserves ==
    ASSUME IInv, NEW r \in Slots, NEW team \in Teams, NEW u \in TeamSupervisors,
           ReadSupervisions(r, team, u), Watch
    PROVE  IInv'
<1> DEFINE q == [op |-> "Remove", user |-> u, team |-> team]
<1>1. UNCHANGED <<memberships, supervisionRows>>
  BY DEF ReadSupervisions
<1>2. q \in Requests
  BY DEF Requests
<1>3. /\ SlotsTyped' /\ OthersStay(r)
      /\ stage'[r] = "removing" /\ request'[r] = q
      /\ rows'[r] = ActiveSupervisions(team, u)
      /\ horizon'[r] = Len(supervisionRows)
  BY <1>2 DEF ReadSupervisions, SlotsTyped, OthersStay, Stages, IInv, TypeOK
<1>4. TypeOK'
  <2>1. SlotTyped(r)'
    <3>1. /\ ActiveSupervisions(team, u) # {}
          /\ ActiveSupervisions(team, u) \subseteq DOMAIN supervisionRows
      BY DEF ReadSupervisions, ActiveSupervisions
    <3> QED BY <1>1, <1>3, <3>1 DEF SlotTyped
  <2> QED BY <1>1, <1>3, <2>1, TypeOKFromParts DEF IInv, TypeOK
<1>5. NobodyIsForgotten'
  BY <1>1, <1>3, NobodyLetGo DEF ReadSupervisions, Idle, OthersStay, IInv
<1>6. RemovalsAreOnTheWay'
  <2>1. DOMAIN supervisionRows = 1..Len(supervisionRows)
    BY DEF IInv, TypeOK
  <2>2. \A k \in rows'[r] : /\ supervisionRows[k].user = u
                            /\ supervisionRows[k].team = team
    BY <1>3 DEF ActiveSupervisions
  <2>3. \A k \in 1..horizon'[r] :
            supervisionRows[k] = [user |-> u, team |-> team, active |-> TRUE]
                => k \in rows'[r]
    BY <1>3, <2>1 DEF ActiveSupervisions
  <2>4. horizon'[r] <= Len(supervisionRows')
    BY <1>1, <1>3 DEF IInv, TypeOK
  <2>5. request'[r].user = u /\ request'[r].team = team
    BY <1>3
  <2> SUFFICES ASSUME NEW s \in Slots, stage'[s] = "removing"
               PROVE  /\ horizon'[s] <= Len(supervisionRows')
                      /\ \A k \in rows'[s] :
                            /\ supervisionRows'[k].user = request'[s].user
                            /\ supervisionRows'[k].team = request'[s].team
                      /\ \A k \in 1..horizon'[s] :
                            supervisionRows'[k] = [user |-> request'[s].user,
                                                   team |-> request'[s].team,
                                                   active |-> TRUE]
                                => k \in rows'[s]
    BY DEF RemovalsAreOnTheWay
  <2>6. CASE s = r
    BY <1>1, <2>2, <2>3, <2>4, <2>5, <2>6
  <2>7. CASE s # r
    BY <1>1, <1>3, <2>7 DEF OthersStay, RemovalsAreOnTheWay, IInv
  <2> QED BY <2>6, <2>7
<1> QED BY <1>1, <1>4, <1>5, <1>6, MembershipsUntouched DEF IInv

LEMMA CloseSupervisionPreserves ==
    ASSUME IInv, NEW r \in Slots, CloseSupervision(r), Watch
    PROVE  IInv'
<1>1. UNCHANGED memberships /\ request[r] \in Requests
  BY WhatWasAsked DEF CloseSupervision, IInv
<1>2. PICK k \in rows[r] :
        /\ supervisionRows' = Closed(supervisionRows, k)
        /\ IF rows[r] = {k} THEN Finish(r)
           ELSE GoTo(r, "removing", request[r], rows[r] \ {k})
  BY DEF CloseSupervision
<1>3. /\ SlotsTyped' /\ OthersStay(r)
      /\ \/ stage'[r] = "idle"
         \/ /\ stage'[r] = "removing" /\ request'[r] = request[r]
            /\ rows'[r] = rows[r] \ {k} /\ rows'[r] # {}
            /\ horizon'[r] = horizon[r]
  <2>1. SlotsTyped
    BY DEF IInv, TypeOK, SlotsTyped, Stages
  <2> QED BY <1>1, <1>2, <2>1, SlotGoesTo, SlotFinishes DEF Stages
<1>4. /\ supervisionRows' \in Seq(Rows)
      /\ Len(supervisionRows') = Len(supervisionRows)
      /\ DOMAIN supervisionRows = 1..Len(supervisionRows)
      /\ DOMAIN supervisionRows' = 1..Len(supervisionRows)
      /\ \A j \in DOMAIN supervisionRows :
            /\ supervisionRows'[j].user = supervisionRows[j].user
            /\ supervisionRows'[j].team = supervisionRows[j].team
            /\ j # k => supervisionRows'[j] = supervisionRows[j]
      /\ supervisionRows'[k].active = FALSE
  <2>1. supervisionRows \in Seq(Rows) /\ k \in DOMAIN supervisionRows
    BY <1>2 DEF CloseSupervision, IInv, TypeOK
  <2>2. /\ supervisionRows' \in Seq(Rows)
        /\ Len(supervisionRows') = Len(supervisionRows)
    BY <1>2, <2>1, ClosedTable
  <2>3. /\ \A j \in DOMAIN supervisionRows :
            /\ supervisionRows'[j].user = supervisionRows[j].user
            /\ supervisionRows'[j].team = supervisionRows[j].team
            /\ j # k => supervisionRows'[j] = supervisionRows[j]
        /\ supervisionRows'[k].active = FALSE
    BY <1>2, <2>1, ClosedTable
  <2> QED BY <2>1, <2>2, <2>3
<1>5. TypeOK'
  <2>1. SlotTyped(r)'
    BY <1>3, <1>4 DEF SlotTyped, CloseSupervision, IInv, TypeOK
  <2>2. /\ memberships' \in Seq(Rows)
        /\ Len(memberships') >= Len(memberships)
        /\ Len(supervisionRows') >= Len(supervisionRows)
        /\ \A j \in DOMAIN memberships :
                memberships'[j].user = memberships[j].user
    BY <1>1, <1>4 DEF IInv, TypeOK
  <2> QED BY <1>3, <1>4, <2>1, <2>2, TypeOKFromParts DEF IInv
<1>6. NobodyIsForgotten'
  BY <1>1, <1>3, NobodyLetGo DEF CloseSupervision, OthersStay, IInv
<1>7. RemovalsAreOnTheWay'
  <2> SUFFICES ASSUME NEW s \in Slots, stage'[s] = "removing"
               PROVE  /\ horizon'[s] <= Len(supervisionRows')
                      /\ \A j \in rows'[s] :
                            /\ supervisionRows'[j].user = request'[s].user
                            /\ supervisionRows'[j].team = request'[s].team
                      /\ \A j \in 1..horizon'[s] :
                            supervisionRows'[j] = [user |-> request'[s].user,
                                                   team |-> request'[s].team,
                                                   active |-> TRUE]
                                => j \in rows'[s]
    BY DEF RemovalsAreOnTheWay
  <2>1. /\ stage[s] = "removing" /\ request'[s] = request[s]
        /\ horizon'[s] = horizon[s]
        /\ rows'[s] = rows[s] \/ rows'[s] = rows[s] \ {k}
    BY <1>3 DEF OthersStay, CloseSupervision
  <2>2. /\ horizon[s] <= Len(supervisionRows) /\ horizon[s] \in Nat
        /\ rows[s] \subseteq DOMAIN supervisionRows
    BY <2>1 DEF RemovalsAreOnTheWay, IInv, TypeOK
  <2>3. \A j \in rows[s] :
            /\ supervisionRows[j].user = request[s].user
            /\ supervisionRows[j].team = request[s].team
    BY <2>1 DEF RemovalsAreOnTheWay, IInv
  <2>4. \A j \in 1..horizon[s] :
            supervisionRows[j] = [user |-> request[s].user,
                                  team |-> request[s].team,
                                  active |-> TRUE] => j \in rows[s]
    BY <2>1 DEF RemovalsAreOnTheWay, IInv
  <2>5. 1..horizon[s] \subseteq DOMAIN supervisionRows
    BY <1>4, <2>2 DEF IInv, TypeOK
  <2>6. \A j \in rows'[s] :
            /\ supervisionRows'[j].user = request'[s].user
            /\ supervisionRows'[j].team = request'[s].team
    BY <1>4, <2>1, <2>2, <2>3
  <2>7. \A j \in 1..horizon[s] :
            supervisionRows'[j] = [user |-> request[s].user,
                                   team |-> request[s].team,
                                   active |-> TRUE] =>
                j # k /\ supervisionRows[j] = supervisionRows'[j]
    BY <1>4, <2>5
  <2> QED BY <1>4, <2>1, <2>2, <2>4, <2>6, <2>7
<1> QED BY <1>1, <1>5, <1>6, <1>7, MembershipsUntouched DEF IInv

LEMMA AddSupervisorPreserves ==
    ASSUME IInv, NEW team \in Teams, NEW u \in TeamSupervisors,
           AddSupervisor(team, u), Watch
    PROVE  IInv'
<1>1. UNCHANGED <<memberships, slotVars>> /\ u \in Users
  BY TeamPeopleAssumption DEF AddSupervisor
<1>2. /\ supervisionRows' \in Seq(Rows)
      /\ Len(supervisionRows') = Len(supervisionRows) + 1
      /\ Len(supervisionRows) \in Nat
      /\ DOMAIN supervisionRows = 1..Len(supervisionRows)
      /\ DOMAIN supervisionRows' = 1..(Len(supervisionRows) + 1)
      /\ \A k \in 1..Len(supervisionRows) :
            supervisionRows'[k] = supervisionRows[k]
  <2>1. supervisionRows \in Seq(Rows)
    BY DEF IInv, TypeOK
  <2>2. /\ supervisionRows' \in Seq(Rows)
        /\ Len(supervisionRows') = Len(supervisionRows) + 1
        /\ \A k \in 1..Len(supervisionRows) :
            supervisionRows'[k] = supervisionRows[k]
    BY <1>1, <2>1, OpenedTable DEF AddSupervisor
  <2> QED BY <2>1, <2>2
<1>3. TypeOK'
  <2>1. DOMAIN supervisionRows \subseteq DOMAIN supervisionRows'
    BY <1>2
  <2>2. \A v : RowsOf(v)' = RowsOf(v)
    BY <1>1 DEF RowsOf
  <2> QED BY <1>1, <1>2, <2>1, <2>2, HeldTyped DEF slotVars, IInv, TypeOK
<1>4. NobodyIsForgotten'
  BY <1>1, NobodyLetGo DEF slotVars, IInv
<1>5. RemovalsAreOnTheWay'
  <2>1. \A s \in Slots : stage[s] = "removing" =>
            rows[s] \subseteq 1..Len(supervisionRows)
    BY <1>2 DEF IInv, TypeOK
  <2>2. \A s \in Slots : horizon[s] \in Nat
    BY DEF IInv, TypeOK
  <2> QED BY <1>1, <1>2, <2>1, <2>2 DEF slotVars, RemovalsAreOnTheWay, IInv
<1> QED BY <1>1, <1>3, <1>4, <1>5, MembershipsUntouched DEF IInv

\* A request that only reads, or ends, while it creates nothing.
LEMMA ReadingPreserves ==
    ASSUME IInv, NEW r \in Slots, OthersStay(r), SlotsTyped',
           UNCHANGED <<memberships, supervisionRows>>, Watch,
           "Add" \in Failing \/ stage[r] # "creating",
           \/ stage'[r] = "idle"
           \/ stage'[r] = "looking" /\ request'[r].op = "Check"
    PROVE  IInv'
<1>1. TypeOK'
  <2>1. SlotTyped(r)'
    BY DEF SlotTyped
  <2> QED BY <2>1, TypeOKFromParts DEF IInv, TypeOK
<1>2. NobodyIsForgotten'
  <2>1. CASE "Add" \in Failing
    BY <2>1 DEF NobodyIsForgotten
  <2>2. CASE stage[r] # "creating"
    BY <2>2, NobodyLetGo DEF OthersStay, IInv
  <2> QED BY <2>1, <2>2
<1> QED BY <1>1, <1>2, MembershipsUntouched, RemovalsUntouched DEF IInv

LEMMA StepPreserves == IInv /\ [Next]_vars => IInv'
<1> SUFFICES ASSUME IInv, [Next]_vars PROVE IInv'
  OBVIOUS
<1>1. SlotsTyped
  BY DEF IInv, TypeOK, SlotsTyped, Stages
<1>2. ASSUME NEW r \in Slots, NEW sup \in TeamSupervisors, NEW u \in TeamMembers,
             ReadTeamOf(r, sup, u), Watch
      PROVE  IInv'
  <2>1. PICK k \in ActiveRowsOf(u) :
            /\ stage' = [stage EXCEPT ![r] = "looking"]
            /\ request' = [request EXCEPT ![r] =
                    [op |-> "Check", sup |-> sup, user |-> u,
                     team |-> memberships[k].team]]
    BY <1>2 DEF ReadTeamOf
  <2>2. memberships[k].team \in Teams
    <3>1. k \in DOMAIN memberships /\ memberships \in Seq(Rows)
      BY <2>1 DEF ActiveRowsOf, RowsOf, IInv, TypeOK
    <3>2. memberships[k] \in Rows
      BY <3>1
    <3> QED BY <3>2 DEF Rows
  <2>3. [op |-> "Check", sup |-> sup, user |-> u,
         team |-> memberships[k].team] \in Requests
    BY <2>2 DEF Requests
  <2>4. /\ SlotsTyped' /\ OthersStay(r)
        /\ stage'[r] = "looking" /\ request'[r].op = "Check"
    <3>1. /\ horizon' = [horizon EXCEPT ![r] = Len(supervisionRows)]
          /\ Len(supervisionRows) \in Nat /\ rows' = rows
      BY <1>2 DEF ReadTeamOf, IInv, TypeOK
    <3> QED BY <1>1, <2>1, <2>3, <3>1 DEF SlotsTyped, OthersStay, Stages
  <2> QED BY <1>2, <2>4, ReadingPreserves DEF ReadTeamOf, Idle
<1>3. ASSUME NEW r \in Slots, ReadSupervisors(r) \/ Fail(r), Watch
      PROVE  IInv'
  <2>1. SlotsTyped' /\ OthersStay(r) /\ stage'[r] = "idle"
    BY <1>1, <1>3, SlotFinishes DEF ReadSupervisors, Fail
  <2>2. "Add" \in Failing \/ stage[r] # "creating"
    BY <1>3 DEF ReadSupervisors, Fail, IInv, TypeOK
  <2> QED BY <1>3, <2>1, <2>2, ReadingPreserves DEF ReadSupervisors, Fail
<1>4. CASE UNCHANGED vars
  <2>1. UNCHANGED <<memberships, supervisionRows, slotVars, held>>
    BY <1>4 DEF vars
  <2>2. TypeOK'
    BY <2>1 DEF slotVars, IInv, TypeOK, RowsOf
  <2>3. RemovalsAreOnTheWay'
    BY <2>1 DEF slotVars, IInv, RemovalsAreOnTheWay
  <2> QED BY <2>1, <2>2, <2>3, MembershipsUntouched, NobodyLetGo
          DEF slotVars, IInv
<1> QED
  BY <1>2, <1>3, <1>4, ReadMembershipPreserves, CloseOldPreserves,
     CreateNewPreserves, ReadSupervisionsPreserves, CloseSupervisionPreserves,
     AddSupervisorPreserves
  DEF Next, Step

LEMMA Invariance == Spec => []IInv
  BY InitEstablishes, StepPreserves, PTL DEF Spec

-----------------------------------------------------------------------------
(* What follows from it.                                                   *)

\* The tables and what is in flight have their types; a request closes rows
\* that exist, of the user it is about.
THEOREM TypeCorrect == Spec => []TypeOK
  BY Invariance, PTL DEF IInv

\* With the unique index, nobody is ever on two teams, wherever requests break
\* off.
THEOREM NobodyOnTwoTeams == Indexed => (Spec => []OneActiveTeam)
<1> SUFFICES ASSUME Indexed PROVE Spec => []OneActiveTeam
  OBVIOUS
<1>1. IInv => OneActiveTeam
  <2> SUFFICES ASSUME IInv, NEW u \in Users,
                      NEW j \in ActiveRowsOf(u), NEW k \in ActiveRowsOf(u)
               PROVE  j = k
    BY DEF OneActiveTeam
  <2>1. PICK i \in RowsOf(u) : ActiveRowsOf(u) \subseteq {i}
    BY DEF IInv, ActiveIsNewest, ActiveRowsOf
  <2> QED BY <2>1
<1> QED BY <1>1, Invariance, PTL

\* Where moves do not break off, whoever was put on a team is on one or is being put on
\* the next, however many requests move him at the same time.
THEOREM NobodyLosesHisTeam == "Add" \notin Failing => (Spec => []NeverTeamless)
<1> SUFFICES ASSUME "Add" \notin Failing PROVE Spec => []NeverTeamless
  OBVIOUS
<1>1. IInv => NeverTeamless
  BY DEF IInv, NobodyIsForgotten
<1> QED BY <1>1, Invariance, PTL

\* Only the removal itself, or a failure, ends a removal.
LEMMA HowRemovalsEnd ==
    ASSUME IInv, Step, NEW r \in Slots,
           stage[r] = "removing", stage'[r] = "idle"
    PROVE  \/ "Remove" \in Failing /\ UNCHANGED supervisionRows
           \/ CloseSupervision(r)
<1>1. stage \in [Slots -> Stages]
  BY DEF IInv, TypeOK, Stages
<1>2. ASSUME NEW s \in Slots, NEW x, NEW y, stage[s] = x, x # "removing",
             stage' = [stage EXCEPT ![s] = y]
      PROVE  FALSE
  BY <1>1, <1>2
<1>3. ASSUME NEW s \in Slots, s # r, CloseSupervision(s)
      PROVE  FALSE
  <2>1. \E y : stage' = [stage EXCEPT ![s] = y]
    BY <1>3 DEF CloseSupervision, GoTo, Finish
  <2> QED BY <1>1, <1>3, <2>1
<1>4. ASSUME NEW team \in Teams, NEW u \in TeamSupervisors,
             AddSupervisor(team, u)
      PROVE  FALSE
  BY <1>4 DEF AddSupervisor, slotVars
<1>5. ASSUME NEW s \in Slots, NEW team \in Teams, NEW u,
             ReadMembership(s, team, u) \/ ReadSupervisions(s, team, u)
      PROVE  FALSE
  BY <1>2, <1>5 DEF ReadMembership, ReadSupervisions, GoTo, Idle
<1>6. ASSUME NEW s \in Slots, NEW sup, NEW u, ReadTeamOf(s, sup, u)
      PROVE  FALSE
  BY <1>2, <1>6 DEF ReadTeamOf, Idle
<1>7. ASSUME NEW s \in Slots, CloseOld(s) \/ CreateNew(s) \/ ReadSupervisors(s)
      PROVE  FALSE
  BY <1>2, <1>7 DEF CloseOld, CreateNew, ReadSupervisors, GoTo, Finish
<1>8. ASSUME NEW s \in Slots, Fail(s)
      PROVE  "Remove" \in Failing /\ UNCHANGED supervisionRows
  <2>1. s = r
    BY <1>1, <1>8 DEF Fail, Finish, Idle
  <2> QED BY <1>8, <2>1 DEF Fail, IInv, TypeOK
<1> QED BY <1>3, <1>4, <1>5, <1>6, <1>7, <1>8 DEF Step

LEMMA LastRowIsClosed ==
    ASSUME IInv, NEW r \in Slots, CloseSupervision(r), stage'[r] = "idle",
           NEW k \in 1..horizon[r]
    PROVE  supervisionRows'[k] # [user |-> request[r].user,
                                  team |-> request[r].team, active |-> TRUE]
<1>1. PICK j : rows[r] = {j} /\ supervisionRows' = Closed(supervisionRows, j)
  <2>1. PICK j \in rows[r] :
            /\ supervisionRows' = Closed(supervisionRows, j)
            /\ rows[r] # {j} => GoTo(r, "removing", request[r], rows[r] \ {j})
    BY DEF CloseSupervision
  <2>2. ~GoTo(r, "removing", request[r], rows[r] \ {j})
    BY DEF GoTo, IInv, TypeOK
  <2> QED BY <2>1, <2>2
<1>2. supervisionRows \in Seq(Rows) /\ j \in DOMAIN supervisionRows
  BY <1>1 DEF CloseSupervision, IInv, TypeOK
<1>3. k \in DOMAIN supervisionRows
  <2>1. horizon[r] \in Nat /\ horizon[r] <= Len(supervisionRows)
    BY DEF CloseSupervision, RemovalsAreOnTheWay, IInv, TypeOK
  <2>2. DOMAIN supervisionRows = 1..Len(supervisionRows)
        /\ Len(supervisionRows) \in Nat
    BY <1>2
  <2> QED BY <2>1, <2>2
<1>4. CASE k = j
  <2>1. supervisionRows'[k].active = FALSE
    BY <1>1, <1>2, <1>4, ClosedTable
  <2>2. \A row : row = [user |-> request[r].user, team |-> request[r].team,
                        active |-> TRUE] => row.active = TRUE
    OBVIOUS
  <2> QED BY <2>1, <2>2
<1>5. CASE k # j
  <2>1. supervisionRows'[k] = supervisionRows[k]
    BY <1>1, <1>2, <1>3, <1>5, ClosedTable
  <2> QED BY <1>1, <1>5, <2>1 DEF CloseSupervision, RemovalsAreOnTheWay, IInv
<1> QED BY <1>4, <1>5

\* A removal that is not cut short leaves no supervision of that user and team
\* that was there when it looked, whatever is granted and removed meanwhile.
THEOREM RemovalsAreComplete == Spec => RemovalIsComplete
<1>1. ASSUME IInv, [Next]_vars, NEW r \in Slots,
             stage[r] = "removing", stage'[r] = "idle"
      PROVE  \/ "Remove" \in Failing /\ UNCHANGED supervisionRows
             \/ \A k \in 1..horizon[r] :
                    supervisionRows'[k] # [user |-> request[r].user,
                                           team |-> request[r].team,
                                           active |-> TRUE]
  <2>1. Step
    BY <1>1 DEF Next, vars, slotVars
  <2> QED BY <1>1, <2>1, HowRemovalsEnd, LastRowIsClosed
<1>2. IInv /\ [Next]_vars =>
        [\A r \in Slots :
            stage[r] = "removing" /\ stage'[r] = "idle" =>
                \/ "Remove" \in Failing /\ UNCHANGED supervisionRows
                \/ \A k \in 1..horizon[r] :
                        supervisionRows'[k] # [user |-> request[r].user,
                                               team |-> request[r].team,
                                               active |-> TRUE]]_vars
  BY <1>1
<1> QED BY <1>2, Invariance, PTL DEF Spec, RemovalIsComplete

-----------------------------------------------------------------------------
(* With the index, and where moves do not break off, TeamRequests          *)
(* implements the directory.                                               *)

LEMMA OnlyMember ==
    ASSUME NEW S, NEW k \in S, \A j \in S : j = k
    PROVE  (CHOOSE j \in S : TRUE) = k
  OBVIOUS

LEMMA GreatestMember ==
    ASSUME NEW S, S \subseteq Nat, NEW k \in S, \A j \in S : j <= k
    PROVE  (CHOOSE m \in S : \A j \in S : j <= m) = k
<1>1. \A m \in S : (\A j \in S : j <= m) => m = k
  OBVIOUS
<1> QED BY <1>1

Sound == Indexed /\ "Add" \notin Failing /\ IInv

LEMMA ActiveRowShows ==
    ASSUME Sound, NEW u \in Users, NEW k \in ActiveRowsOf(u)
    PROVE  ActiveRowsOf(u) = {k} /\ TeamShown(u) = memberships[k].team
<1>1. \A j \in ActiveRowsOf(u) : j = k
  <2>1. PICK i \in RowsOf(u) : ActiveRowsOf(u) \subseteq {i}
    BY DEF Sound, IInv, ActiveIsNewest, ActiveRowsOf
  <2> QED BY <2>1
<1> QED BY <1>1, OnlyMember DEF TeamShown

\* Who keeps his rows is shown where he was.
LEMMA SameRowsSameTeam ==
    ASSUME Sound, IInv', NEW u \in Users,
           RowsOf(u)' = RowsOf(u), ActiveRowsOf(u)' = ActiveRowsOf(u),
           \A j \in RowsOf(u) : memberships'[j].team = memberships[j].team
    PROVE  TeamShown(u)' = TeamShown(u)
<1>1. CASE ActiveRowsOf(u) # {}
  <2>1. (CHOOSE j \in ActiveRowsOf(u) : TRUE) \in RowsOf(u)
    BY <1>1 DEF ActiveRowsOf
  <2> QED BY <1>1, <2>1 DEF TeamShown
<1>2. CASE ActiveRowsOf(u) = {} /\ RowsOf(u) # {}
  <2>1. BeingMoved(u) /\ BeingMoved(u)'
    BY <1>2 DEF Sound, IInv, NobodyIsForgotten, NeverTeamless
  <2>2. PICK k \in RowsOf(u) : \A j \in RowsOf(u) : j <= k
    BY <1>2 DEF Sound, IInv, ActiveIsNewest
  <2>3. RowsOf(u) \subseteq Nat
    BY DEF RowsOf, Sound, IInv, TypeOK
  <2>4. Latest(u) = k /\ Latest(u)' = k
    BY <2>2, <2>3, GreatestMember DEF Latest
  <2> QED BY <1>2, <2>1, <2>2, <2>4 DEF TeamShown
<1>3. CASE RowsOf(u) = {}
  BY <1>3 DEF TeamShown, ActiveRowsOf
<1> QED BY <1>1, <1>2, <1>3

\* Members(f): the directory shows f.
Members == [u \in Users |-> TeamShown(u)]

LEMMA MembersUntouched ==
    ASSUME Sound, IInv', UNCHANGED memberships
    PROVE  Members' = Members
<1>1. ASSUME NEW u \in Users PROVE TeamShown(u)' = TeamShown(u)
  BY SameRowsSameTeam DEF RowsOf, ActiveRowsOf
<1> QED BY <1>1 DEF Members

LEMMA ClosingShowsNothing ==
    ASSUME Sound, IInv', NEW r \in Slots, CloseOld(r)
    PROVE  Members' = Members
<1>1. PICK u \in Users, k \in Nat :
        /\ u = request[r].user
        /\ k \in RowsOf(u)
        /\ \A j \in DOMAIN memberships :
            memberships'[j].team = memberships[j].team
        /\ \A v \in Users :
            /\ RowsOf(v)' = RowsOf(v)
            /\ v # u => ActiveRowsOf(v)' = ActiveRowsOf(v)
        /\ ActiveRowsOf(u)' = ActiveRowsOf(u) \ {k}
  <2>1. IInv
    BY DEF Sound
  <2> QED BY <2>1, RowCloses
<1>2. ASSUME NEW v \in Users, v # u PROVE TeamShown(v)' = TeamShown(v)
  BY <1>1, <1>2, SameRowsSameTeam DEF RowsOf
<1>3. TeamShown(u)' = TeamShown(u)
  <2>1. CASE k \notin ActiveRowsOf(u)
    BY <1>1, <2>1, SameRowsSameTeam DEF RowsOf
  <2>2. CASE k \in ActiveRowsOf(u)
    <3>1. ActiveRowsOf(u) = {k} /\ TeamShown(u) = memberships[k].team
      BY <2>2, ActiveRowShows
    <3>2. ActiveRowsOf(u)' = {} /\ RowsOf(u)' = RowsOf(u) /\ RowsOf(u) # {}
      BY <1>1, <3>1
    <3>3. BeingMoved(u)'
      BY <3>2 DEF Sound, IInv, NobodyIsForgotten, NeverTeamless
    <3>4. \A j \in RowsOf(u) : j <= k
      BY <3>1 DEF Sound, IInv, ActiveIsNewest, ActiveRowsOf
    <3>5. RowsOf(u) \subseteq Nat /\ k \in DOMAIN memberships
      BY <1>1 DEF RowsOf, Sound, IInv, TypeOK
    <3>6. Latest(u)' = k
      BY <1>1, <3>2, <3>4, <3>5, GreatestMember DEF Latest
    <3> QED BY <1>1, <3>1, <3>2, <3>3, <3>5, <3>6 DEF TeamShown
  <2> QED BY <2>1, <2>2
<1> QED BY <1>2, <1>3 DEF Members

LEMMA CreatingMoves ==
    ASSUME Sound, IInv', NEW r \in Slots, CreateNew(r)
    PROVE  \/ Members' = Members
           \/ \E team \in Teams, u \in TeamMembers :
                Members' = [Members EXCEPT ![u] = team]
<1>1. CASE ActiveRowsOf(request[r].user) # {}
  BY <1>1, MembersUntouched DEF CreateNew, Sound
<1>2. CASE ActiveRowsOf(request[r].user) = {}
  <2>1. PICK u \in Users, n \in Nat :
        /\ u = request[r].user
        /\ memberships'[n].team = request[r].team
        /\ \A j \in DOMAIN memberships : memberships'[j] = memberships[j] /\ j < n
        /\ \A v \in Users : v # u =>
            /\ RowsOf(v)' = RowsOf(v)
            /\ ActiveRowsOf(v)' = ActiveRowsOf(v)
        /\ ActiveRowsOf(u)' = ActiveRowsOf(u) \cup {n}
    BY <1>2, RowOpens DEF Sound
  <2>2. u \in TeamMembers /\ request[r].team \in Teams
    BY <2>1, WhatWasAsked DEF CreateNew, Sound, IInv
  <2>3. ASSUME NEW v \in Users, v # u PROVE TeamShown(v)' = TeamShown(v)
    BY <2>1, <2>3, SameRowsSameTeam DEF RowsOf
  <2>4. TeamShown(u)' = request[r].team
    <3>1. ActiveRowsOf(u)' = {n}
      BY <1>2, <2>1
    <3>2. (CHOOSE j \in ActiveRowsOf(u)' : TRUE) = n
      BY <3>1
    <3> QED BY <2>1, <3>1, <3>2 DEF TeamShown
  <2>5. Members' = [Members EXCEPT ![u] = request[r].team]
    BY <2>3, <2>4 DEF Members
  <2> QED BY <2>2, <2>5
<1> QED BY <1>1, <1>2

LEMMA AddingShows ==
    ASSUME IInv, NEW team \in Teams, NEW u \in TeamSupervisors,
           AddSupervisor(team, u)
    PROVE  SupervisionsShown' = SupervisionsShown \cup {<<u, team>>}
<1>1. /\ u \in Users /\ supervisionRows \in Seq(Rows)
      /\ supervisionRows' = Opened(supervisionRows, u, team)
  BY TeamPeopleAssumption DEF AddSupervisor, IInv, TypeOK
<1>2. PICK n : n = Len(supervisionRows) + 1
  OBVIOUS
<1>3. /\ \A k \in 1..Len(supervisionRows) :
            supervisionRows'[k] = supervisionRows[k]
      /\ supervisionRows'[n] = [user |-> u, team |-> team, active |-> TRUE]
      /\ supervisionRows' \in Seq(Rows)
      /\ Len(supervisionRows') = n
  BY <1>1, <1>2, OpenedTable
<1>4. /\ DOMAIN supervisionRows = 1..Len(supervisionRows)
      /\ DOMAIN supervisionRows' = 1..Len(supervisionRows) \cup {n}
  BY <1>1, <1>2, <1>3
<1>5. \A t \in Teams, v \in Users :
        ActiveSupervisions(t, v)' # {} <=>
            ActiveSupervisions(t, v) # {} \/ (t = team /\ v = u)
  <2> SUFFICES ASSUME NEW t \in Teams, NEW v \in Users
               PROVE  ActiveSupervisions(t, v)' # {} <=>
                        ActiveSupervisions(t, v) # {} \/ (t = team /\ v = u)
    OBVIOUS
  <2>1. supervisionRows'[n] = [user |-> v, team |-> t, active |-> TRUE] <=>
            t = team /\ v = u
    <3>1. /\ supervisionRows'[n].user = u
          /\ supervisionRows'[n].team = team
      BY <1>3
    <3>2. CASE t = team /\ v = u
      BY <1>3, <3>2
    <3>3. CASE ~(t = team /\ v = u)
      <4> DEFINE row == [user |-> v, team |-> t, active |-> TRUE]
      <4>1. row.user = v /\ row.team = t
        OBVIOUS
      <4> HIDE DEF row
      <4>2. supervisionRows'[n] # row
        BY <3>1, <3>3, <4>1
      <4> QED BY <3>3, <4>2 DEF row
    <3> QED BY <3>2, <3>3
  <2>2. ActiveSupervisions(t, v)' =
            {k \in 1..Len(supervisionRows) \cup {n} :
                supervisionRows'[k] =
                    [user |-> v, team |-> t, active |-> TRUE]}
    BY <1>4 DEF ActiveSupervisions
  <2>3. ActiveSupervisions(t, v) =
            {k \in 1..Len(supervisionRows) :
                supervisionRows'[k] =
                    [user |-> v, team |-> t, active |-> TRUE]}
    BY <1>3, <1>4 DEF ActiveSupervisions
  <2> QED BY <2>1, <2>2, <2>3
<1>6. \A t \in Teams, v \in Users :
        <<v, t>> \in SupervisionsShown' <=>
            <<v, t>> \in SupervisionsShown \/ <<v, t>> = <<u, team>>
  BY <1>5 DEF SupervisionsShown
<1> QED BY <1>1, <1>6 DEF SupervisionsShown

LEMMA ClosingMayEnd ==
    ASSUME IInv, NEW r \in Slots, CloseSupervision(r)
    PROVE  \/ SupervisionsShown' = SupervisionsShown
           \/ \E team \in Teams, u \in TeamSupervisors :
                /\ <<u, team>> \in SupervisionsShown
                /\ SupervisionsShown' = SupervisionsShown \ {<<u, team>>}
<1>1. PICK u \in TeamSupervisors, team \in Teams :
        u = request[r].user /\ team = request[r].team
  BY WhatWasAsked DEF CloseSupervision, IInv
<1>2. PICK k \in rows[r] : supervisionRows' = Closed(supervisionRows, k)
  BY DEF CloseSupervision
<1>3. /\ supervisionRows \in Seq(Rows) /\ k \in DOMAIN supervisionRows
      /\ supervisionRows[k].user = u /\ supervisionRows[k].team = team
  BY <1>1, <1>2 DEF CloseSupervision, RemovalsAreOnTheWay, IInv, TypeOK
<1>4. /\ supervisionRows' \in Seq(Rows)
      /\ Len(supervisionRows') = Len(supervisionRows)
  BY <1>2, <1>3, ClosedTable
<1>5. DOMAIN supervisionRows' = DOMAIN supervisionRows
  BY <1>3, <1>4
<1>6. /\ \A j \in DOMAIN supervisionRows :
            j # k => supervisionRows'[j] = supervisionRows[j]
      /\ supervisionRows'[k].active = FALSE
  BY <1>2, <1>3, ClosedTable
<1>7. \A t \in Teams, v \in Users :
        ActiveSupervisions(t, v)' = ActiveSupervisions(t, v) \ {k}
  BY <1>5, <1>6 DEF ActiveSupervisions
<1>8. \A t \in Teams, v \in Users :
        <<v, t>> # <<u, team>> => k \notin ActiveSupervisions(t, v)
  BY <1>3 DEF ActiveSupervisions
<1>9. \A t \in Teams, v \in Users :
        <<v, t>> # <<u, team>> =>
            (<<v, t>> \in SupervisionsShown' <=> <<v, t>> \in SupervisionsShown)
  BY <1>7, <1>8 DEF SupervisionsShown
<1>10. <<u, team>> \in SupervisionsShown' => <<u, team>> \in SupervisionsShown
  BY <1>1, <1>7 DEF SupervisionsShown
<1>11. CASE <<u, team>> \in SupervisionsShown' <=> <<u, team>> \in SupervisionsShown
  BY <1>9, <1>11 DEF SupervisionsShown
<1>12. CASE <<u, team>> \in SupervisionsShown /\ <<u, team>> \notin SupervisionsShown'
  <2>1. SupervisionsShown' = SupervisionsShown \ {<<u, team>>}
    BY <1>9, <1>12 DEF SupervisionsShown
  <2> QED BY <1>12, <2>1
<1> QED BY <1>10, <1>11, <1>12

LEMMA StepsMapToSteps ==
    ASSUME Sound, IInv', Step
    PROVE  Directory!TeamNext \/ UNCHANGED <<Members, SupervisionsShown>>
<1>1. UNCHANGED supervisionRows => UNCHANGED SupervisionsShown
  BY DEF SupervisionsShown, ActiveSupervisions
<1>2. UNCHANGED memberships => UNCHANGED Members
  BY MembersUntouched
<1>3. ASSUME NEW r \in Slots, CloseOld(r)
      PROVE  UNCHANGED <<Members, SupervisionsShown>>
  BY <1>1, <1>3, ClosingShowsNothing DEF CloseOld
<1>4. ASSUME NEW r \in Slots, CreateNew(r)
      PROVE  Directory!TeamNext \/ UNCHANGED <<Members, SupervisionsShown>>
  BY <1>1, <1>4, CreatingMoves
     DEF CreateNew, Directory!TeamNext, Directory!AddAssignee, Members
<1>5. ASSUME NEW r \in Slots, CloseSupervision(r)
      PROVE  Directory!TeamNext \/ UNCHANGED <<Members, SupervisionsShown>>
  BY <1>2, <1>5, ClosingMayEnd
     DEF CloseSupervision, Sound, Directory!TeamNext,
         Directory!RemoveSupervisor, Members
<1>6. ASSUME NEW team \in Teams, NEW u \in TeamSupervisors,
             AddSupervisor(team, u)
      PROVE  Directory!TeamNext
  BY <1>2, <1>6, AddingShows
     DEF AddSupervisor, Sound, Directory!TeamNext, Directory!AddSupervisor,
         Members
<1>7. ASSUME NEW r \in Slots, NEW team, NEW u,
             ReadMembership(r, team, u) \/ ReadSupervisions(r, team, u)
                \/ ReadTeamOf(r, team, u)
      PROVE  UNCHANGED <<memberships, supervisionRows>>
  BY <1>7 DEF ReadMembership, ReadSupervisions, ReadTeamOf
<1>8. ASSUME NEW r \in Slots, ReadSupervisors(r) \/ Fail(r)
      PROVE  UNCHANGED <<memberships, supervisionRows>>
  BY <1>8 DEF ReadSupervisors, Fail
<1> QED BY <1>1, <1>2, <1>3, <1>4, <1>5, <1>6, <1>7, <1>8 DEF Step

LEMMA InitMapsToInit == Init => Directory!TeamInit
<1> SUFFICES ASSUME Init PROVE Directory!TeamInit
  OBVIOUS
<1>1. \A u : RowsOf(u) = {} /\ ActiveRowsOf(u) = {}
  BY DEF Init, RowsOf, ActiveRowsOf
<1>2. \A u : TeamShown(u) = NoTeam
  BY <1>1 DEF TeamShown
<1>3. SupervisionsShown = {}
  BY DEF Init, SupervisionsShown, ActiveSupervisions
<1> QED BY <1>2, <1>3 DEF Directory!TeamInit

\* The store calls of overlapping requests, seen through the active rows, are
\* the operations TeamDirectory takes as one step: a move takes effect when its
\* row is created, a removal when its last row is closed. What the work item
\* modules assume of the team directory is what it does.
THEOREM TeamRequestsImplementDirectory ==
    Indexed /\ "Add" \notin Failing => (Spec => ImplementsDirectory)
<1> SUFFICES ASSUME Indexed, "Add" \notin Failing
             PROVE  Spec => ImplementsDirectory
  OBVIOUS
<1>1. IInv /\ IInv' /\ [Next]_vars =>
        [Directory!TeamNext]_<<[u \in Users |-> TeamShown(u)], SupervisionsShown>>
  <2> SUFFICES ASSUME IInv, IInv', [Next]_vars
               PROVE  Directory!TeamNext \/ UNCHANGED <<Members, SupervisionsShown>>
    BY DEF Members
  <2>1. Sound
    BY DEF Sound
  <2>2. CASE UNCHANGED vars
    <3>1. UNCHANGED SupervisionsShown
      BY <2>2 DEF vars, SupervisionsShown, ActiveSupervisions
    <3> QED BY <2>1, <2>2, <3>1, MembersUntouched DEF vars
  <2> QED BY <2>1, <2>2, StepsMapToSteps DEF Next
<1> QED
  BY <1>1, InitMapsToInit, Invariance, PTL
  DEF Spec, ImplementsDirectory, Directory!TeamSpec

-----------------------------------------------------------------------------
(* The check of authority: two reads, and what happens between them.       *)

Supervision(u, team) == [user |-> u, team |-> team, active |-> TRUE]

\* A check that has read the team and may yet be answered yes rests on a moment
\* when yes was right, or on a supervision granted after it read.
ChecksAreRight ==
    \A r \in Slots : stage[r] = "looking" =>
        /\ horizon[r] <= Len(supervisionRows)
        /\ \/ held[r]
           \/ \A k \in 1..horizon[r] :
                supervisionRows[k] # Supervision(request[r].sup, request[r].team)

\* No step opens a supervision that is there already.
LEMMA SupervisionsOnlyClose ==
    ASSUME IInv, [Next]_vars
    PROVE  /\ Len(supervisionRows) <= Len(supervisionRows')
           /\ \A k \in 1..Len(supervisionRows) : \A u, team :
                supervisionRows'[k] = Supervision(u, team)
                    => supervisionRows[k] = Supervision(u, team)
<1>1. supervisionRows \in Seq(Rows) /\ Len(supervisionRows) \in Nat
  BY DEF IInv, TypeOK
<1>2. ASSUME NEW r \in Slots, CloseSupervision(r)
      PROVE  \E j \in DOMAIN supervisionRows :
                supervisionRows' = Closed(supervisionRows, j)
  BY <1>2 DEF CloseSupervision, IInv, TypeOK
<1>3. ASSUME NEW team \in Teams, NEW u \in TeamSupervisors,
             AddSupervisor(team, u)
      PROVE  supervisionRows' = Opened(supervisionRows, u, team) /\ u \in Users
  BY <1>3, TeamPeopleAssumption DEF AddSupervisor
<1>4. \/ UNCHANGED supervisionRows
      \/ \E j \in DOMAIN supervisionRows :
            supervisionRows' = Closed(supervisionRows, j)
      \/ \E u \in Users, team \in Teams :
            supervisionRows' = Opened(supervisionRows, u, team)
  BY <1>2, <1>3
  DEF Next, Step, vars, ReadMembership, ReadSupervisions, ReadTeamOf, CloseOld,
      CreateNew, ReadSupervisors, Fail
<1>5. ASSUME NEW j \in DOMAIN supervisionRows,
             supervisionRows' = Closed(supervisionRows, j),
             NEW k \in 1..Len(supervisionRows), NEW u, NEW team,
             supervisionRows'[k] = Supervision(u, team)
      PROVE  supervisionRows[k] = Supervision(u, team)
  <2>1. Supervision(u, team).active = TRUE
    BY DEF Supervision
  <2>2. /\ Closed(supervisionRows, j)[j].active = FALSE
        /\ \A i \in DOMAIN supervisionRows :
            i # j => Closed(supervisionRows, j)[i] = supervisionRows[i]
    BY <1>1, ClosedTable
  <2>3. k \in DOMAIN supervisionRows
    BY <1>1
  <2>4. Closed(supervisionRows, j)[k] = Supervision(u, team)
    BY <1>5
  <2> QED BY <2>1, <2>2, <2>3, <2>4
<1>6. ASSUME NEW j \in DOMAIN supervisionRows,
             supervisionRows' = Closed(supervisionRows, j)
      PROVE  Len(supervisionRows') = Len(supervisionRows)
  BY <1>1, <1>6, ClosedTable
<1>7. ASSUME NEW u \in Users, NEW team \in Teams,
             supervisionRows' = Opened(supervisionRows, u, team)
      PROVE  /\ Len(supervisionRows') = Len(supervisionRows) + 1
             /\ \A k \in 1..Len(supervisionRows) :
                    supervisionRows'[k] = supervisionRows[k]
  BY <1>1, <1>7, OpenedTable
<1> QED BY <1>1, <1>4, <1>5, <1>6, <1>7

\* A check that is under way is so since it read the team.
LEMMA HowChecksStart ==
    ASSUME IInv, [Next]_vars, NEW r \in Slots, stage'[r] = "looking"
    PROVE  \/ /\ stage[r] = "looking"
              /\ request'[r] = request[r] /\ horizon'[r] = horizon[r]
              /\ held[r] => held'[r]
           \/ /\ Watch
              /\ \E sup \in TeamSupervisors, u \in TeamMembers :
                    ReadTeamOf(r, sup, u)
<1> DEFINE Stays == /\ stage[r] = "looking"
                    /\ request'[r] = request[r] /\ horizon'[r] = horizon[r]
<1>1. /\ stage \in [Slots -> Stages] /\ DOMAIN request = Slots
      /\ DOMAIN horizon = Slots
  BY DEF IInv, TypeOK, Stages
<1>2. ASSUME NEW s \in Slots, NEW next, NEW q, NEW ids, GoTo(s, next, q, ids),
             next # "looking"
      PROVE  Stays
  BY <1>1, <1>2 DEF GoTo
<1>3. ASSUME NEW s \in Slots, Finish(s) PROVE Stays
  BY <1>1, <1>3 DEF Finish
<1>4. ASSUME NEW s \in Slots, NEW team \in Teams, NEW u,
             ReadMembership(s, team, u)
      PROVE  Stays
  BY <1>2, <1>4 DEF ReadMembership
<1>5. ASSUME NEW s \in Slots, NEW team \in Teams, NEW u,
             ReadSupervisions(s, team, u)
      PROVE  Stays
  BY <1>1, <1>5 DEF ReadSupervisions
<1>6. ASSUME NEW s \in Slots, CloseOld(s) \/ CreateNew(s) PROVE Stays
  BY <1>2, <1>3, <1>6 DEF CloseOld, CreateNew
<1>7. ASSUME NEW s \in Slots, CloseSupervision(s) PROVE Stays
  BY <1>2, <1>3, <1>7 DEF CloseSupervision
<1>8. ASSUME NEW s \in Slots, ReadSupervisors(s) \/ Fail(s) PROVE Stays
  BY <1>3, <1>8 DEF ReadSupervisors, Fail
<1>9. ASSUME NEW team, NEW u, AddSupervisor(team, u) PROVE Stays
  BY <1>9 DEF AddSupervisor, slotVars
<1>10. ASSUME NEW s \in Slots, s # r, NEW sup, NEW u, ReadTeamOf(s, sup, u)
       PROVE  Stays
  BY <1>1, <1>10 DEF ReadTeamOf
<1>11. Step => Stays \/ \E sup \in TeamSupervisors, u \in TeamMembers :
                            ReadTeamOf(r, sup, u)
  BY <1>4, <1>5, <1>6, <1>7, <1>8, <1>9, <1>10 DEF Step
<1>12. Watch => (held[r] => held'[r])
  BY DEF Watch
<1>13. UNCHANGED vars => Stays /\ (held[r] => held'[r])
  BY DEF vars, slotVars
<1> QED BY <1>11, <1>12, <1>13 DEF Next

\* With the index, the team a check reads is the one the directory shows: yes is
\* right at once, or there is no supervision yet to say yes.
LEMMA FirstReadIsRight ==
    ASSUME Indexed, IInv, NEW r \in Slots, NEW sup \in TeamSupervisors,
           NEW u \in TeamMembers, ReadTeamOf(r, sup, u), Watch
    PROVE  /\ horizon'[r] = Len(supervisionRows)
           /\ \/ held'[r]
              \/ \A k \in 1..Len(supervisionRows) :
                    supervisionRows[k]
                        # Supervision(request'[r].sup, request'[r].team)
<1>1. PICK k \in ActiveRowsOf(u) :
        /\ stage' = [stage EXCEPT ![r] = "looking"]
        /\ request' = [request EXCEPT ![r] =
                [op |-> "Check", sup |-> sup, user |-> u,
                 team |-> memberships[k].team]]
  BY DEF ReadTeamOf
<1>2. /\ horizon' = [horizon EXCEPT ![r] = Len(supervisionRows)]
      /\ UNCHANGED <<memberships, supervisionRows>>
  BY DEF ReadTeamOf
<1> PICK team : team = memberships[k].team
  OBVIOUS
<1>3. /\ horizon'[r] = Len(supervisionRows) /\ stage'[r] = "looking"
      /\ request'[r].sup = sup /\ request'[r].user = u /\ request'[r].team = team
  BY <1>1, <1>2 DEF IInv, TypeOK
<1>4. u \in Users /\ sup \in Users /\ NoTeam \notin Teams
  BY TeamPeopleAssumption
<1>5. team \in Teams
  <2>1. k \in DOMAIN memberships /\ memberships \in Seq(Rows)
    BY DEF ActiveRowsOf, RowsOf, IInv, TypeOK
  <2>2. memberships[k] \in Rows
    BY <2>1
  <2> QED BY <2>2 DEF Rows
<1>6. TeamShown(u)' = team
  <2>1. ActiveRowsOf(u)' = ActiveRowsOf(u)
    BY <1>2 DEF ActiveRowsOf, RowsOf
  <2>2. \A j \in ActiveRowsOf(u) : j = k
    <3>1. PICK i \in RowsOf(u) : ActiveRowsOf(u) \subseteq {i}
      BY <1>4 DEF IInv, ActiveIsNewest, ActiveRowsOf
    <3> QED BY <3>1
  <2>3. (CHOOSE j \in ActiveRowsOf(u) : TRUE) = k
    BY <2>2, OnlyMember
  <2> QED BY <1>2, <2>1, <2>3 DEF TeamShown
<1>7. CASE \E j \in 1..Len(supervisionRows) :
                supervisionRows[j] = Supervision(sup, team)
  <2>1. PICK j \in 1..Len(supervisionRows) :
                supervisionRows[j] = Supervision(sup, team)
    BY <1>7
  <2>2. j \in ActiveSupervisions(team, sup)'
    BY <1>2, <2>1 DEF ActiveSupervisions, Supervision, IInv, TypeOK
  <2>3. <<sup, team>> \in SupervisionsShown'
    <3>1. <<sup, team>> \in Users \X Teams
      BY <1>4, <1>5
    <3>2. \A pair : pair = <<sup, team>> =>
            ActiveSupervisions(pair[2], pair[1])' # {}
      BY <2>2
    <3> QED BY <3>1, <3>2 DEF SupervisionsShown
  <2>4. <<sup, u>> \in Directory!Oversees'
    BY <1>4, <1>5, <1>6, <2>3 DEF Directory!Oversees
  <2>5. held'[r]
    BY <1>3, <2>4 DEF Watch
  <2> QED BY <1>3, <2>5
<1>8. CASE \A j \in 1..Len(supervisionRows) :
                supervisionRows[j] # Supervision(sup, team)
  BY <1>3, <1>8
<1> QED BY <1>7, <1>8

LEMMA ChecksStayRight ==
    ASSUME Indexed, IInv, ChecksAreRight, [Next]_vars
    PROVE  ChecksAreRight'
<1> SUFFICES ASSUME NEW r \in Slots, stage'[r] = "looking"
             PROVE  /\ horizon'[r] <= Len(supervisionRows')
                    /\ \/ held'[r]
                       \/ \A k \in 1..horizon'[r] :
                            supervisionRows'[k] #
                                Supervision(request'[r].sup, request'[r].team)
  BY DEF ChecksAreRight, Supervision
<1>1. horizon[r] \in Nat /\ Len(supervisionRows) \in Nat
      /\ Len(supervisionRows') \in Nat
  BY StepPreserves DEF IInv, TypeOK
<1>2. /\ Len(supervisionRows) <= Len(supervisionRows')
      /\ \A k \in 1..Len(supervisionRows) : \A u, team :
            supervisionRows'[k] = Supervision(u, team)
                => supervisionRows[k] = Supervision(u, team)
  BY SupervisionsOnlyClose
<1>3. CASE /\ stage[r] = "looking"
           /\ request'[r] = request[r] /\ horizon'[r] = horizon[r]
           /\ held[r] => held'[r]
  BY <1>1, <1>2, <1>3 DEF ChecksAreRight
<1>4. ASSUME Watch, NEW sup \in TeamSupervisors, NEW u \in TeamMembers,
             ReadTeamOf(r, sup, u)
      PROVE  /\ horizon'[r] = Len(supervisionRows)
             /\ supervisionRows' = supervisionRows
             /\ \/ held'[r]
                \/ \A k \in 1..Len(supervisionRows) :
                    supervisionRows[k] #
                        Supervision(request'[r].sup, request'[r].team)
  BY <1>4, FirstReadIsRight DEF ReadTeamOf
<1> QED BY <1>1, <1>3, <1>4, HowChecksStart

\* With the index, a check of authority that says yes was right at some moment
\* between its two reads, or rests on a supervision granted between them, however
\* moves and removals overlap it.
THEOREM YesWasAlwaysTrueOnce == Indexed => (Spec => YesWasTrueOnce)
<1> SUFFICES ASSUME Indexed PROVE Spec => YesWasTrueOnce
  OBVIOUS
<1>1. Init => ChecksAreRight
  BY DEF Init, ChecksAreRight
<1>2. IInv /\ ChecksAreRight /\ [Next]_vars => ChecksAreRight'
  BY ChecksStayRight
<1>3. ASSUME IInv, ChecksAreRight, NEW r \in Slots, stage[r] = "looking"
      PROVE  \/ held[r]
             \/ \A k \in ActiveSupervisions(request[r].team, request[r].sup) :
                    k > horizon[r]
  <2>1. /\ DOMAIN supervisionRows = 1..Len(supervisionRows)
        /\ Len(supervisionRows) \in Nat /\ horizon[r] \in Nat
    BY <1>3 DEF IInv, TypeOK
  <2> QED BY <1>3, <2>1 DEF ChecksAreRight, ActiveSupervisions, Supervision
<1>4. IInv /\ ChecksAreRight /\ [Next]_vars =>
        [\A r \in Slots :
            stage[r] = "looking" /\ stage'[r] = "idle" =>
                \/ held[r]
                \/ \A k \in ActiveSupervisions(request[r].team, request[r].sup) :
                        k > horizon[r]]_vars
  BY <1>3
<1> QED BY <1>1, <1>2, <1>4, Invariance, PTL DEF Spec, YesWasTrueOnce

=============================================================================
