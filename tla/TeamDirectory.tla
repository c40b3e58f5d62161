---------------------------- MODULE TeamDirectory ----------------------------
(***************************************************************************)
(* What teams.Service promises the rest of the system, each of its         *)
(* operations taken as one step: every user has at most one active         *)
(* membership, a team may have several supervisors, and the question the   *)
(* workitems package asks is IsActiveSupervisorOf.                         *)
(***************************************************************************)
EXTENDS FiniteSets

CONSTANTS
    Users,       \* user ids
    Teams,       \* teams that exist
    NoTeam,      \* no active membership
    TeamMembers,     \* the users admins put on teams
    TeamSupervisors  \* the users admins make supervisors of teams

VARIABLES
    memberOf,      \* the team of each user's active membership, or NoTeam
    supervisions   \* the active supervisions: pairs <<user, team>>

TeamTypeOK ==
    /\ memberOf \in [Users -> Teams \cup {NoTeam}]
    /\ supervisions \subseteq Users \X Teams

TeamInit ==
    /\ memberOf = [u \in Users |-> NoTeam]
    /\ supervisions = {}

-----------------------------------------------------------------------------
\* The pairs <<s, u>> for which IsActiveSupervisorOf(s, u) answers true.
Oversees ==
    {pair \in Users \X Users :
        /\ memberOf[pair[2]] # NoTeam
        /\ <<pair[1], memberOf[pair[2]]>> \in supervisions}

\* Puts the user on the team, leaving the team he was on.
AddAssignee(team, u) ==
    /\ memberOf' = [memberOf EXCEPT ![u] = team]
    /\ UNCHANGED supervisions

AddSupervisor(team, u) ==
    /\ supervisions' = supervisions \cup {<<u, team>>}
    /\ UNCHANGED memberOf

RemoveSupervisor(team, u) ==
    /\ <<u, team>> \in supervisions
    /\ supervisions' = supervisions \ {<<u, team>>}
    /\ UNCHANGED memberOf

TeamNext ==
    \E team \in Teams :
        \/ \E u \in TeamMembers : AddAssignee(team, u)
        \/ \E u \in TeamSupervisors :
                AddSupervisor(team, u) \/ RemoveSupervisor(team, u)

\* The directory on its own, which TeamRequests implements.
TeamSpec == TeamInit /\ [][TeamNext]_<<memberOf, supervisions>>
=============================================================================
