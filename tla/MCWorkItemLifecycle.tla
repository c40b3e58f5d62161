------------------------- MODULE MCWorkItemLifecycle -------------------------
(***************************************************************************)
(* Small instances of WorkItemLifecycle for TLC. Each behaviour has one of *)
(* the Casts: who makes requests, and how far they may go.                 *)
(***************************************************************************)
EXTENDS WorkItemLifecycle

CONSTANTS adm, sup, lead, ann, bob, req   \* users
CONSTANTS c1, c2   \* contents

As(u, role) == [user |-> u, roles |-> {role}]

\* One of each role that can move work, and a second assignee.
Staff ==
    [principals |-> {As(adm, "admin"), As(sup, "supervisor"),
                     As(ann, "assignee"), As(bob, "assignee")},
     teamMembers |-> {ann, bob}, supervisors |-> {sup},
     contents |-> {c1}, reasonsLeftOut |-> FALSE, moves |-> 5]

\* The shortest cast that can take a work item through review and rework.
Review ==
    [principals |-> {As(adm, "admin"), As(ann, "assignee")},
     teamMembers |-> {}, supervisors |-> {},
     contents |-> {c1}, reasonsLeftOut |-> TRUE, moves |-> 8]

\* No admin; two supervisors, somebody who is both requester and assignee,
\* and an assignee whom an admin has meanwhile made a supervisor.
Supervision ==
    [principals |-> {As(sup, "supervisor"), As(lead, "supervisor"),
                     As(ann, "assignee"), As(ann, "supervisor"),
                     [user |-> req, roles |-> {"requester", "assignee"}]},
     teamMembers |-> {ann, req}, supervisors |-> {sup, lead},
     contents |-> {c1, c2}, reasonsLeftOut |-> FALSE, moves |-> 4]

Casts == {Staff, Review, Supervision}

\* Their Principals.
Everybody == UNION {c.principals : c \in Casts}

VARIABLE cast

\* Offers go to people of the cast, and nobody goes beyond what it is for. Where
\* reasons are not left out, offers are the only moves without one.
Within ==
    LET people == {p.user : p \in cast.principals} IN
    /\ \A w \in WorkItems :
        /\ items[w].assignedTo \in people \cup {NoUser}
        /\ items[w].content \in cast.contents \cup {NoContent}
        /\ Len(statusHistory[w]) <= cast.moves
        /\ \/ cast.reasonsLeftOut
           \/ Cardinality({k \in DOMAIN statusHistory[w] :
                                ~statusHistory[w][k].reason})
                = Cardinality({k \in DOMAIN assignmentHistory[w] :
                                assignmentHistory[w][k].action = "assigned"})
    /\ \A u \in Users : memberOf[u] # NoTeam => u \in cast.teamMembers
    /\ supervisions \subseteq cast.supervisors \X Teams

CastInit == Init /\ cast \in Casts

CastNext ==
    /\ \/ \E w \in WorkItems, p \in cast.principals : WorkItemStep(w, p)
       \/ TeamStep
    /\ UNCHANGED cast
    /\ Within'

CastSpec == CastInit /\ [][CastNext]_<<vars, cast>>
=============================================================================
