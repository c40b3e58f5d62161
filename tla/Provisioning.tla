----------------------------- MODULE Provisioning -----------------------------
(***************************************************************************)
(* How accounts come to be: a requester signs up (SignUp), logs in with    *)
(* Google for the first time (LoginWithGoogle), or an admin creates an     *)
(* account and puts it on a team in the same request (POST /users). Each   *)
(* looks for the identifier first and inserts the row later; the unique    *)
(* constraints of the users table, or the checks of the in-memory store,   *)
(* decide when requests overlap.                                           *)
(***************************************************************************)
EXTENDS Naturals, Sequences, FiniteSets

CONSTANTS
    Identifiers,     \* email addresses and the like
    Subjects,        \* Google identities
    NoSubject,       \* of a local account
    KnownTeams,      \* team ids
    NoTeamId,        \* no team asked for, or none
    UnknownTeam,     \* an id no team has
    Seeded,          \* the identifiers of the bootstrap accounts
    AccountSlots,    \* requests that can be in flight at the same time
    FailingRoutes,   \* those whose requests may end after any store call
    MaxAccounts      \* bound: nobody asks for an account beyond

ASSUME ProvisioningAssumption ==
    /\ Seeded \subseteq Identifiers /\ IsFiniteSet(Seeded)
    /\ FailingRoutes \subseteq {"SignUp", "Google", "CreateUser"}
    /\ MaxAccounts \in Nat
    /\ NoSubject \notin Subjects
    /\ NoTeamId \notin KnownTeams /\ UnknownTeam \notin KnownTeams

VARIABLES
    accounts,  \* rows of the users table
    teamOf,    \* the team each account was put on, member or supervisor
    told,      \* accounts whose temporary password somebody has been told
    mailed,    \* identifiers a verification code was sent to
    step,      \* the step each request makes next
    wanted     \* what it was asked for

requestVars == <<step, wanted>>
provisioningVars == <<accounts, teamOf, told, mailed, requestVars>>

Staff == {"supervisor", "assignee"}

NothingWanted == [op |-> "none"]

\* What the three routes are asked for, past their own checks: staff come with
\* a team, and others may.
AccountRequests ==
    [op : {"SignUp"}, identifier : Identifiers]
        \cup [op : {"Google"}, identifier : Identifiers, subject : Subjects]
        \cup [op : {"CreateUser"}, identifier : Identifiers, role : Staff,
              team : KnownTeams \cup {UnknownTeam}]
        \cup [op : {"CreateUser"}, identifier : Identifiers,
              role : {"requester"}, team : KnownTeams \cup {NoTeamId}]

\* The row each of them creates.
Row(q) ==
    [identifier |-> q.identifier,
     subject |-> IF q.op = "Google" THEN q.subject ELSE NoSubject,
     role |-> IF q.op = "CreateUser" THEN q.role ELSE "requester",
     by |-> q.op,
     emailVerified |-> q.op # "SignUp"]

\* Each has a role of its own, on which nothing here depends.
SeedRow(identifier) ==
    [identifier |-> identifier, subject |-> NoSubject, role |-> "admin",
     by |-> "seed", emailVerified |-> TRUE]

Has(identifier) == \E k \in DOMAIN accounts : accounts[k].identifier = identifier

HasSubject(subject) == \E k \in DOMAIN accounts : accounts[k].subject = subject

\* Mutant: nothing keeps a Google identity from having two accounts.
TakenByIdentifier(row) == Has(row.identifier)

\* The unique constraints.
Taken(row) ==
    Has(row.identifier) \/ (row.subject # NoSubject /\ HasSubject(row.subject))

Unused(r) == step[r] = "idle"

\* SeedBootstrapUsers comes before the first request.
ProvisioningInit ==
    /\ \E seeds \in [1..Cardinality(Seeded) -> Seeded] :
        /\ \A x \in Seeded : \E k \in DOMAIN seeds : seeds[k] = x
        /\ accounts = [k \in DOMAIN seeds |-> SeedRow(seeds[k])]
    /\ teamOf = [k \in 1..Cardinality(Seeded) |-> NoTeamId]
    /\ told = {}
    /\ mailed = {}
    /\ step = [r \in AccountSlots |-> "idle"]
    /\ wanted = [r \in AccountSlots |-> NothingWanted]

MoveOn(r, s) == step' = [step EXCEPT ![r] = s] /\ UNCHANGED wanted

Answer(r) ==
    /\ step' = [step EXCEPT ![r] = "idle"]
    /\ wanted' = [wanted EXCEPT ![r] = NothingWanted]

\* Mutant: the team is not looked up first.
BeginUnchecked(r, q) ==
    /\ Unused(r)
    /\ Len(accounts) < MaxAccounts
    /\ q.op = "Google" => ~HasSubject(q.subject)
    /\ ~Has(q.identifier)
    /\ step' = [step EXCEPT ![r] =
            IF q.op = "SignUp" THEN "mailing" ELSE "inserting"]
    /\ wanted' = [wanted EXCEPT ![r] = q]
    /\ UNCHANGED <<accounts, teamOf, told, mailed>>

\* TeamExists, FindByGoogleSubjectID and FindByIdentifier. A known Google
\* identity just logs in; everything else that fails a check is refused.
Begin(r, q) ==
    /\ Unused(r)
    /\ Len(accounts) < MaxAccounts
    /\ q.op = "CreateUser" => q.team # UnknownTeam
    /\ q.op = "Google" => ~HasSubject(q.subject)
    /\ ~Has(q.identifier)
    /\ step' = [step EXCEPT ![r] =
            IF q.op = "SignUp" THEN "mailing" ELSE "inserting"]
    /\ wanted' = [wanted EXCEPT ![r] = q]
    /\ UNCHANGED <<accounts, teamOf, told, mailed>>

\* The code is sent before there is an account.
SendCode(r) ==
    /\ step[r] = "mailing"
    /\ mailed' = mailed \cup {wanted[r].identifier}
    /\ MoveOn(r, "inserting")
    /\ UNCHANGED <<accounts, teamOf, told>>

\* A requester with a team is not put on it: the switch knows two roles.
RespondsAtOnce(q) == q.op # "CreateUser" \/ q.role \notin Staff

\* Mutant: the mail is sent when the account is there.
InsertFirst(r) ==
    /\ step[r] \in {"mailing", "inserting"}
    /\ IF Taken(Row(wanted[r]))
       THEN Answer(r) /\ UNCHANGED <<accounts, teamOf, told>>
       ELSE /\ accounts' = Append(accounts, Row(wanted[r]))
            /\ teamOf' = Append(teamOf, NoTeamId)
            /\ IF RespondsAtOnce(wanted[r]) THEN Answer(r) ELSE MoveOn(r, "joining")
            /\ told' = IF RespondsAtOnce(wanted[r])
                       THEN told \cup {Len(accounts) + 1} ELSE told
    /\ UNCHANGED mailed

\* UserStore.Create. The response to POST /users holds the password.
Insert(r) ==
    /\ step[r] = "inserting"
    /\ IF Taken(Row(wanted[r]))
       THEN Answer(r) /\ UNCHANGED <<accounts, teamOf, told>>
       ELSE /\ accounts' = Append(accounts, Row(wanted[r]))
            /\ teamOf' = Append(teamOf, NoTeamId)
            /\ IF RespondsAtOnce(wanted[r]) THEN Answer(r) ELSE MoveOn(r, "joining")
            /\ told' = IF RespondsAtOnce(wanted[r])
                       THEN told \cup {Len(accounts) + 1} ELSE told
    /\ UNCHANGED mailed

\* AddAssignee or AddSupervisor, and the response. A team nobody has heard of
\* is an error.
Join(r) ==
    /\ step[r] = "joining"
    /\ IF wanted[r].team \in KnownTeams
       THEN \E k \in DOMAIN accounts :
                /\ accounts[k].identifier = wanted[r].identifier
                /\ teamOf' = [teamOf EXCEPT ![k] = wanted[r].team]
                /\ told' = told \cup {k}
       ELSE UNCHANGED <<teamOf, told>>
    /\ Answer(r)
    /\ UNCHANGED <<accounts, mailed>>

\* A store call or the mail fails, or the client hangs up.
BreakOff(r) ==
    /\ ~Unused(r)
    /\ wanted[r].op \in FailingRoutes
    /\ Answer(r)
    /\ UNCHANGED <<accounts, teamOf, told, mailed>>

ProvisioningNext ==
    \E r \in AccountSlots :
        \/ \E q \in AccountRequests : Begin(r, q)
        \/ SendCode(r) \/ Insert(r) \/ Join(r) \/ BreakOff(r)

ProvisioningSpec == ProvisioningInit /\ [][ProvisioningNext]_provisioningVars

-----------------------------------------------------------------------------
(* Properties.                                                             *)

\* However first logins and sign-ups overlap, no identifier and no Google
\* identity has two accounts: FindByIdentifier and FindByGoogleSubjectID have
\* one answer at most.
AccountsAreDistinct ==
    \A j, k \in DOMAIN accounts :
        \/ j = k
        \/ /\ accounts[j].identifier # accounts[k].identifier
           /\ accounts[j].subject = NoSubject
                \/ accounts[j].subject # accounts[k].subject

\* Nobody who signed himself up waits for a code that was never sent, wherever
\* the request broke off: such an account could not be used, nor made again.
CodesWereSent ==
    \A k \in DOMAIN accounts :
        ~accounts[k].emailVerified => accounts[k].identifier \in mailed

BeingCreated(k) ==
    \E r \in AccountSlots :
        step[r] = "joining" /\ wanted[r].identifier = accounts[k].identifier

\* Where POST /users does not break off, an admin who asks for an account gets one that is
\* complete, whatever he asked and whoever asked at the same time: it has the
\* password he is told, and staff are on a team. Nothing is left half done for
\* which the password, told only once, is lost.
NoOrphans ==
    \A k \in DOMAIN accounts :
        accounts[k].by = "CreateUser" /\ ~BeingCreated(k) =>
            /\ k \in told
            /\ accounts[k].role \in Staff => teamOf[k] \in KnownTeams
=============================================================================
