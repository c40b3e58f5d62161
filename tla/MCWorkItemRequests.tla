-------------------------- MODULE MCWorkItemRequests --------------------------
(* Small instances of WorkItemRequests for TLC.                            *)
EXTENDS WorkItemRequests, TLC

CONSTANTS adm, sup, ann   \* users

As(u, role) == [user |-> u, roles |-> {role}]

\* The shortest cast that takes a work item through its whole life, and a
\* supervisor who runs the team of an assignee, and then does not.
PairPrincipals == {As(adm, "admin"), As(ann, "assignee")}
TeamPrincipals == {As(sup, "supervisor"), As(ann, "assignee")}

In(operations, principals, moves) ==
    [transactional |-> TRUE, oneAtATime |-> FALSE, teamsWait |-> FALSE,
     operations |-> operations, principals |-> principals, moves |-> moves]

\* Moves, answers and uploads; the same with edits; reviews, by somebody who may
\* do all but answer offers; and moves and answers in memory.
Overlapping ==
    {In({"ChangeStatus", "Assign", "Respond", "Upload"}, PairPrincipals, 3),
     In({"Update", "ChangeStatus", "Assign", "Respond"}, PairPrincipals, 3),
     In({"ChangeStatus", "Verify", "Flag", "Upload"}, {As(adm, "admin")}, 5),
     [In({"ChangeStatus", "Assign", "Respond"}, PairPrincipals, 3)
        EXCEPT !.transactional = FALSE]}

OnlyMoves == {In({"ChangeStatus", "Assign", "Respond"}, PairPrincipals, 3)}

MovesAndEdits == {In({"Update", "Assign"}, PairPrincipals, 3)}

\* Requests that wait for each other.
Contending == {In({"ChangeStatus", "Update", "Upload"}, PairPrincipals, 3)}

\* Everything, but never two requests about one item, nor a team change beside
\* a request of the supervisor. Those of the assignee have team changes at every
\* point.
Serial ==
    {[In({"Update", "ChangeStatus", "Assign", "Respond", "Upload"},
         TeamPrincipals, 2) EXCEPT !.oneAtATime = TRUE, !.teamsWait = TRUE]}

SlotSymmetry == Permutations(Slots)
=============================================================================
