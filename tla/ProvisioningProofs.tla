-------------------------- MODULE ProvisioningProofs --------------------------
(***************************************************************************)
(* Provisioning for any number of identifiers, identities, teams and       *)
(* overlapping requests.                                                   *)
(***************************************************************************)
EXTENDS Provisioning, FiniteSetTheorems, TLAPS

Accounts ==
    [identifier : Identifiers, subject : Subjects \cup {NoSubject},
     role : Staff \cup {"requester", "admin"},
     by : {"SignUp", "Google", "CreateUser", "seed"}, emailVerified : BOOLEAN]

\* The types, and what a request has done before it gets where it is: its team
\* exists, its code is sent, and its account there before it joins.
Types ==
    /\ accounts \in Seq(Accounts)
    /\ teamOf \in Seq(KnownTeams \cup {NoTeamId})
    /\ Len(teamOf) = Len(accounts)
    /\ step \in [AccountSlots -> {"idle", "mailing", "inserting", "joining"}]
    /\ DOMAIN wanted = AccountSlots

RequestInPlace(r) ==
    step[r] # "idle" =>
        /\ wanted[r] \in AccountRequests
        /\ wanted[r].op = "CreateUser" => wanted[r].team # UnknownTeam
        /\ step[r] = "inserting" /\ wanted[r].op = "SignUp" =>
                wanted[r].identifier \in mailed
        /\ step[r] = "joining" =>
                wanted[r].op = "CreateUser" /\ wanted[r].role \in Staff

Complete == "CreateUser" \notin FailingRoutes => NoOrphans

IInv ==
    /\ Types
    /\ \A r \in AccountSlots : RequestInPlace(r)
    /\ AccountsAreDistinct
    /\ CodesWereSent
    /\ Complete

-----------------------------------------------------------------------------
\* A surjection of 1..n onto a set of n elements names none of them twice.
LEMMA SeedsAreDistinct ==
    ASSUME NEW seeds \in [1..Cardinality(Seeded) -> Seeded],
           \A x \in Seeded : \E k \in DOMAIN seeds : seeds[k] = x
    PROVE  \A j, k \in DOMAIN seeds : seeds[j] = seeds[k] => j = k
<1> DEFINE n == Cardinality(Seeded)
<1>1. IsFiniteSet(Seeded)
  BY ProvisioningAssumption
<1>2. n \in Nat
  BY <1>1, FS_CardinalityType
<1>3. IsFiniteSet(1..n) /\ Cardinality(1..n) = n
  BY <1>2, FS_Interval
<1>4. seeds \in Surjection(1..n, Seeded)
  BY DEF Surjection
<1>5. seeds \in Injection(1..n, Seeded)
  BY <1>3, <1>4, FS_SurjSameCardinalityImpliesInj
<1>6. \A j, k \in 1..n : seeds[j] = seeds[k] => j = k
  BY <1>5 DEF Injection, IsInjective
<1> QED BY <1>6

LEMMA InitEstablishes == ProvisioningInit => IInv
<1> SUFFICES ASSUME ProvisioningInit PROVE IInv
  OBVIOUS
<1> DEFINE n == Cardinality(Seeded)
<1>1. n \in Nat
  BY ProvisioningAssumption, FS_CardinalityType
<1>2. PICK seeds \in [1..n -> Seeded] :
        /\ \A x \in Seeded : \E k \in DOMAIN seeds : seeds[k] = x
        /\ accounts = [k \in DOMAIN seeds |-> SeedRow(seeds[k])]
  BY DEF ProvisioningInit
<1> HIDE DEF n
<1>3. \A k \in 1..n : SeedRow(seeds[k]) \in Accounts
  BY ProvisioningAssumption DEF SeedRow, Accounts
<1>4. accounts \in Seq(Accounts) /\ Len(accounts) = n /\ DOMAIN accounts = 1..n
  BY <1>1, <1>2, <1>3
<1>5. /\ teamOf \in Seq(KnownTeams \cup {NoTeamId}) /\ Len(teamOf) = n
      /\ step = [r \in AccountSlots |-> "idle"] /\ DOMAIN wanted = AccountSlots
  BY <1>1 DEF ProvisioningInit, n
<1>6. Types /\ \A r \in AccountSlots : RequestInPlace(r)
  BY <1>4, <1>5 DEF Types, RequestInPlace
<1>7. \A k \in 1..n : /\ accounts[k].identifier = seeds[k]
                      /\ accounts[k].subject = NoSubject
                      /\ accounts[k].emailVerified
                      /\ accounts[k].by = "seed"
  BY <1>2, <1>4 DEF SeedRow
<1>8. AccountsAreDistinct
  BY <1>2, <1>4, <1>7, SeedsAreDistinct DEF AccountsAreDistinct, n
<1>9. CodesWereSent /\ Complete
  BY <1>4, <1>7 DEF CodesWereSent, Complete, NoOrphans
<1> QED BY <1>6, <1>8, <1>9 DEF IInv

OthersStay(r) ==
    \A s \in AccountSlots \ {r} : step'[s] = step[s] /\ wanted'[s] = wanted[s]

\* What is true of the accounts is not touched by a step that creates none.
LEMMA AccountsUntouched ==
    ASSUME IInv, UNCHANGED <<accounts, teamOf, told>>, NEW r \in AccountSlots,
           OthersStay(r), Types', RequestInPlace(r)', mailed \subseteq mailed',
           "CreateUser" \in FailingRoutes \/ step[r] # "joining"
    PROVE  IInv'
<1>1. AccountsAreDistinct' /\ CodesWereSent'
  BY DEF IInv, AccountsAreDistinct, CodesWereSent
<1>2. \A s \in AccountSlots : RequestInPlace(s)'
  BY DEF IInv, RequestInPlace, OthersStay
<1>3. Complete'
  <2>1. \A k : step[r] # "joining" /\ BeingCreated(k) => BeingCreated(k)'
    BY DEF BeingCreated, OthersStay
  <2> QED BY <2>1 DEF IInv, Complete, NoOrphans
<1> QED BY <1>1, <1>2, <1>3 DEF IInv

LEMMA BeginPreserves ==
    ASSUME IInv, NEW r \in AccountSlots, NEW q \in AccountRequests, Begin(r, q)
    PROVE  IInv'
<1>1. /\ OthersStay(r) /\ Types'
      /\ step'[r] = IF q.op = "SignUp" THEN "mailing" ELSE "inserting"
      /\ wanted'[r] = q
  BY DEF Begin, OthersStay, IInv, Types
<1>2. RequestInPlace(r)'
  BY <1>1 DEF Begin, RequestInPlace
<1> QED BY <1>1, <1>2, AccountsUntouched DEF Begin, Unused

LEMMA SendCodePreserves ==
    ASSUME IInv, NEW r \in AccountSlots, SendCode(r)
    PROVE  IInv'
<1>1. /\ OthersStay(r) /\ Types'
      /\ step'[r] = "inserting" /\ wanted'[r] = wanted[r]
  BY DEF SendCode, MoveOn, OthersStay, IInv, Types
<1>2. RequestInPlace(r)'
  BY <1>1 DEF SendCode, RequestInPlace, IInv
<1> QED BY <1>1, <1>2, AccountsUntouched DEF SendCode

LEMMA FinishIsFine ==
    ASSUME IInv, NEW r \in AccountSlots, Answer(r)
    PROVE  OthersStay(r) /\ step'[r] = "idle"
           /\ step' \in [AccountSlots -> {"idle", "mailing", "inserting", "joining"}]
           /\ DOMAIN wanted' = AccountSlots
  BY DEF Answer, OthersStay, IInv, Types

LEMMA RowTyped ==
    ASSUME NEW q \in AccountRequests
    PROVE  /\ Row(q) \in Accounts
           /\ Row(q).identifier = q.identifier
           /\ Row(q).by = q.op
           /\ Row(q).emailVerified = (q.op # "SignUp")
           /\ q.op = "CreateUser" => Row(q).role = q.role
<1>1. /\ q.identifier \in Identifiers
      /\ q.op \in {"SignUp", "Google", "CreateUser"}
      /\ q.op = "Google" => q.subject \in Subjects
      /\ q.op = "CreateUser" => q.role \in Staff \cup {"requester"}
  BY DEF AccountRequests
<1> QED BY <1>1 DEF Row, Accounts

\* A row that none of the constraints refuses.
LEMMA RowInserted ==
    ASSUME IInv, NEW row \in Accounts, ~Taken(row), NEW n,
           n = Len(accounts) + 1,
           accounts' = Append(accounts, row), teamOf' = Append(teamOf, NoTeamId),
           row.emailVerified \/ row.identifier \in mailed, UNCHANGED mailed
    PROVE  /\ n \in Nat
           /\ accounts' \in Seq(Accounts) /\ teamOf' \in Seq(KnownTeams \cup {NoTeamId})
           /\ Len(teamOf') = Len(accounts')
           /\ accounts'[n] = row
           /\ DOMAIN accounts' = DOMAIN accounts \cup {n}
           /\ n \notin DOMAIN accounts
           /\ \A k \in DOMAIN accounts :
                accounts'[k] = accounts[k] /\ teamOf'[k] = teamOf[k]
           /\ AccountsAreDistinct'
           /\ CodesWereSent'
<1>1. accounts \in Seq(Accounts) /\ teamOf \in Seq(KnownTeams \cup {NoTeamId})
      /\ Len(teamOf) = Len(accounts)
  BY DEF IInv, Types
<1>2. /\ n \in Nat
      /\ accounts' \in Seq(Accounts) /\ teamOf' \in Seq(KnownTeams \cup {NoTeamId})
      /\ Len(teamOf') = Len(accounts')
      /\ DOMAIN accounts = 1..Len(accounts)
      /\ DOMAIN accounts' = 1..n
  BY <1>1
<1>3. DOMAIN accounts' = DOMAIN accounts \cup {n} /\ n \notin DOMAIN accounts
  BY <1>1, <1>2
<1>4. /\ accounts'[n] = row
      /\ \A k \in DOMAIN accounts :
            accounts'[k] = accounts[k] /\ teamOf'[k] = teamOf[k]
  BY <1>1, <1>2
<1>5. \A k \in DOMAIN accounts :
        /\ accounts[k].identifier # row.identifier
        /\ accounts[k].subject = NoSubject \/ accounts[k].subject # row.subject
  BY DEF Taken, Has, HasSubject
<1>6. AccountsAreDistinct'
  <2> SUFFICES ASSUME NEW j \in DOMAIN accounts', NEW k \in DOMAIN accounts', j # k
               PROVE  /\ accounts'[j].identifier # accounts'[k].identifier
                      /\ accounts'[j].subject = NoSubject
                            \/ accounts'[j].subject # accounts'[k].subject
    BY DEF AccountsAreDistinct
  <2>1. CASE j \in DOMAIN accounts /\ k \in DOMAIN accounts
    BY <1>4, <2>1 DEF IInv, AccountsAreDistinct
  <2>2. CASE j = n \/ k = n
    BY <1>3, <1>4, <1>5, <2>2
  <2> QED BY <1>3, <2>1, <2>2
<1>7. CodesWereSent'
  BY <1>3, <1>4 DEF IInv, CodesWereSent
<1> QED BY <1>2, <1>3, <1>4, <1>6, <1>7

LEMMA InsertPreserves ==
    ASSUME IInv, NEW r \in AccountSlots, Insert(r)
    PROVE  IInv'
<1>1. CASE Taken(Row(wanted[r]))
  <2>1. Answer(r) /\ UNCHANGED <<accounts, teamOf, told, mailed>>
    BY <1>1 DEF Insert
  <2>2. OthersStay(r) /\ Types' /\ RequestInPlace(r)'
    BY <2>1, FinishIsFine DEF IInv, Types, RequestInPlace
  <2> QED BY <2>1, <2>2, AccountsUntouched DEF Insert
<1>2. CASE ~Taken(Row(wanted[r]))
  <2>1. PICK q \in AccountRequests : q = wanted[r] /\ step[r] = "inserting"
    BY DEF Insert, IInv, RequestInPlace
  <2>2. PICK n : n = Len(accounts) + 1
    OBVIOUS
  <2>3. /\ accounts' = Append(accounts, Row(q)) /\ teamOf' = Append(teamOf, NoTeamId)
        /\ UNCHANGED mailed
        /\ RespondsAtOnce(q) => Answer(r) /\ told' = told \cup {n}
        /\ ~RespondsAtOnce(q) => MoveOn(r, "joining") /\ told' = told
    BY <1>2, <2>1, <2>2 DEF Insert
  <2>4. Row(q).emailVerified \/ Row(q).identifier \in mailed
    BY <2>1, RowTyped DEF IInv, RequestInPlace
  <2>5. /\ accounts' \in Seq(Accounts) /\ teamOf' \in Seq(KnownTeams \cup {NoTeamId})
        /\ Len(teamOf') = Len(accounts')
        /\ accounts'[n] = Row(q)
        /\ DOMAIN accounts' = DOMAIN accounts \cup {n}
        /\ \A k \in DOMAIN accounts :
                accounts'[k] = accounts[k] /\ teamOf'[k] = teamOf[k]
        /\ AccountsAreDistinct'
        /\ CodesWereSent'
    BY <1>2, <2>1, <2>2, <2>3, <2>4, RowTyped, RowInserted
  <2>6. /\ OthersStay(r)
        /\ step' \in [AccountSlots -> {"idle", "mailing", "inserting", "joining"}]
        /\ DOMAIN wanted' = AccountSlots
        /\ RespondsAtOnce(q) => step'[r] = "idle"
        /\ ~RespondsAtOnce(q) => step'[r] = "joining" /\ wanted'[r] = q
    <3>1. CASE RespondsAtOnce(q)
      BY <2>3, <3>1, FinishIsFine
    <3>2. CASE ~RespondsAtOnce(q)
      BY <2>1, <2>3, <3>2 DEF MoveOn, OthersStay, IInv, Types
    <3> QED BY <3>1, <3>2
  <2>7. Types'
    BY <2>5, <2>6 DEF Types
  <2>8. \A s \in AccountSlots : RequestInPlace(s)'
    <3>1. RequestInPlace(r)'
      BY <2>1, <2>3, <2>6 DEF RequestInPlace, RespondsAtOnce, IInv
    <3> QED BY <2>3, <2>6, <3>1 DEF RequestInPlace, OthersStay, IInv
  <2>9. Complete'
    <3> SUFFICES ASSUME "CreateUser" \notin FailingRoutes, NEW k \in DOMAIN accounts',
                        accounts'[k].by = "CreateUser", ~BeingCreated(k)'
                 PROVE  /\ k \in told'
                        /\ accounts'[k].role \in Staff => teamOf'[k] \in KnownTeams
      BY DEF Complete, NoOrphans
    <3>1. CASE k \in DOMAIN accounts
      <4>1. ~BeingCreated(k)
        BY <2>1, <2>5, <2>6, <3>1 DEF BeingCreated, OthersStay
      <4> QED BY <2>3, <2>5, <3>1, <4>1 DEF IInv, Complete, NoOrphans
    <3>2. CASE k = n
      <4>1. Row(q).by = q.op /\ Row(q).identifier = q.identifier
            /\ (q.op = "CreateUser" => Row(q).role = q.role)
        BY RowTyped
      <4>2. RespondsAtOnce(q)
        BY <2>5, <2>6, <3>2, <4>1 DEF BeingCreated
      <4> QED BY <2>3, <2>5, <3>2, <4>1, <4>2 DEF RespondsAtOnce
    <3> QED BY <2>5, <3>1, <3>2
  <2> QED BY <2>5, <2>7, <2>8, <2>9 DEF IInv
<1> QED BY <1>1, <1>2

LEMMA JoinPreserves ==
    ASSUME IInv, NEW r \in AccountSlots, Join(r)
    PROVE  IInv'
<1>1. /\ Answer(r) /\ UNCHANGED <<accounts, mailed>> /\ step[r] = "joining"
  BY DEF Join
<1>2. OthersStay(r) /\ step'[r] = "idle" /\ RequestInPlace(r)'
  BY <1>1, FinishIsFine DEF RequestInPlace
<1>3. wanted[r].team \in KnownTeams
  BY <1>1 DEF IInv, RequestInPlace, AccountRequests, Staff
<1>4. PICK k \in DOMAIN accounts :
        /\ accounts[k].identifier = wanted[r].identifier
        /\ teamOf' = [teamOf EXCEPT ![k] = wanted[r].team]
        /\ told' = told \cup {k}
  BY <1>3 DEF Join
<1>5. /\ teamOf \in Seq(KnownTeams \cup {NoTeamId}) /\ k \in 1..Len(teamOf)
      /\ DOMAIN accounts = 1..Len(teamOf)
  BY <1>4 DEF IInv, Types
<1>6. /\ teamOf' \in Seq(KnownTeams \cup {NoTeamId}) /\ Len(teamOf') = Len(teamOf)
      /\ teamOf'[k] \in KnownTeams
      /\ \A j \in DOMAIN accounts : j # k => teamOf'[j] = teamOf[j]
  BY <1>3, <1>4, <1>5
<1>7. Types'
  BY <1>1, <1>6, FinishIsFine DEF IInv, Types
<1>8. AccountsAreDistinct' /\ CodesWereSent'
  BY <1>1 DEF IInv, AccountsAreDistinct, CodesWereSent
<1>9. \A s \in AccountSlots : RequestInPlace(s)'
  BY <1>1, <1>2 DEF IInv, RequestInPlace, OthersStay
<1>10. Complete'
  <2> SUFFICES ASSUME "CreateUser" \notin FailingRoutes, NEW j \in DOMAIN accounts,
                      accounts[j].by = "CreateUser", ~BeingCreated(j)'
               PROVE  /\ j \in told'
                      /\ accounts[j].role \in Staff => teamOf'[j] \in KnownTeams
    BY <1>1 DEF Complete, NoOrphans
  <2>1. CASE j = k
    BY <1>4, <1>6, <2>1
  <2>2. CASE j # k
    <3>1. accounts[j].identifier # wanted[r].identifier
      BY <1>4, <2>2 DEF IInv, AccountsAreDistinct
    <3>2. ~BeingCreated(j)
      BY <1>1, <1>2, <3>1 DEF BeingCreated, OthersStay
    <3> QED BY <1>4, <1>6, <2>2, <3>2 DEF IInv, Complete, NoOrphans
  <2> QED BY <2>1, <2>2
<1> QED BY <1>7, <1>8, <1>9, <1>10 DEF IInv

LEMMA StepPreserves == IInv /\ [ProvisioningNext]_provisioningVars => IInv'
<1> SUFFICES ASSUME IInv, [ProvisioningNext]_provisioningVars PROVE IInv'
  OBVIOUS
<1>1. ASSUME NEW r \in AccountSlots, BreakOff(r) PROVE IInv'
  <2>1. OthersStay(r) /\ RequestInPlace(r)' /\ Types'
    BY <1>1, FinishIsFine DEF BreakOff, IInv, Types, RequestInPlace
  <2>2. "CreateUser" \in FailingRoutes \/ step[r] # "joining"
    BY <1>1 DEF BreakOff, IInv, RequestInPlace
  <2> QED BY <1>1, <2>1, <2>2, AccountsUntouched DEF BreakOff
<1>2. CASE UNCHANGED provisioningVars
  BY <1>2 DEF provisioningVars, requestVars, IInv, Types, RequestInPlace, AccountsAreDistinct,
              CodesWereSent, Complete, NoOrphans, BeingCreated
<1> QED
  BY <1>1, <1>2, BeginPreserves, SendCodePreserves, InsertPreserves,
     JoinPreserves
  DEF ProvisioningNext

LEMMA Invariance == ProvisioningSpec => []IInv
  BY InitEstablishes, StepPreserves, PTL DEF ProvisioningSpec

\* However requests overlap or break off, no identifier and no Google identity
\* has two accounts.
THEOREM NoAccountTwice == ProvisioningSpec => []AccountsAreDistinct
  BY Invariance, PTL DEF IInv

\* Whoever has yet to verify his address was sent the code for it.
THEOREM NobodyWaitsForACode == ProvisioningSpec => []CodesWereSent
  BY Invariance, PTL DEF IInv

\* Where POST /users does not break off, every account an admin asked for is complete once he has
\* his answer: its password told, and staff on a team.
THEOREM AccountsAreComplete ==
    "CreateUser" \notin FailingRoutes => (ProvisioningSpec => []NoOrphans)
<1> SUFFICES ASSUME "CreateUser" \notin FailingRoutes
             PROVE  ProvisioningSpec => []NoOrphans
  OBVIOUS
<1>1. IInv => NoOrphans
  BY DEF IInv, Complete
<1> QED BY <1>1, Invariance, PTL
=============================================================================
