--------------------------- MODULE NotificationReads ---------------------------
(***************************************************************************)
(* notifications.Service: Notify, which the work item service calls, and   *)
(* MarkAsRead, which reads a notification, looks at it, and writes it back *)
(* in a second store call.                                                 *)
(***************************************************************************)
EXTENDS Naturals, Sequences

CONSTANTS
    Recipients,
    ReadSlots,         \* MarkAsRead requests that can be in flight
    ReadsMayFail,      \* whether a request may end between its store calls
    MaxNotifications, MaxTime   \* bounds

ASSUME ReadsAssumption == ReadsMayFail \in BOOLEAN

VARIABLES
    notifications,  \* the rows; a time of 0 stands for nil
    now,            \* the clock
    marking,        \* the row each request is about to write, and its id
    known           \* when each notification was first seen to be read, or 0

readsVars == <<notifications, now, marking, known>>

Notification == [recipient : Recipients, createdAt : Nat, readAt : Nat]

Nothing == [id |-> 0]

Free(r) == marking[r] = Nothing

ReadsInit ==
    /\ notifications = <<>>
    /\ now = 1
    /\ marking = [r \in ReadSlots |-> Nothing]
    /\ known = <<>>

Tick ==
    /\ now < MaxTime
    /\ now' = now + 1
    /\ UNCHANGED <<notifications, marking, known>>

Notify(u) ==
    /\ Len(notifications) < MaxNotifications
    /\ notifications' = Append(notifications,
            [recipient |-> u, createdAt |-> now, readAt |-> 0])
    /\ known' = Append(known, 0)
    /\ UNCHANGED <<now, marking>>

\* Mutant: a notification that was read is marked again.
ReadAgain(r, id, caller) ==
    /\ Free(r)
    /\ notifications[id].recipient = caller
    /\ marking' = [marking EXCEPT ![r] =
            [id |-> id, row |-> [notifications[id] EXCEPT !.readAt = now]]]
    /\ UNCHANGED <<notifications, now, known>>

\* GetByID, the checks and the clock. Somebody else's notification is refused,
\* one that was read is left alone.
Read(r, id, caller) ==
    /\ Free(r)
    /\ notifications[id].recipient = caller
    /\ notifications[id].readAt = 0
    /\ marking' = [marking EXCEPT ![r] =
            [id |-> id, row |-> [notifications[id] EXCEPT !.readAt = now]]]
    /\ UNCHANGED <<notifications, now, known>>

Write(r) ==
    /\ ~Free(r)
    /\ notifications' =
            [notifications EXCEPT ![marking[r].id] = marking[r].row]
    /\ known' = [known EXCEPT ![marking[r].id] = IF @ = 0 THEN now ELSE @]
    /\ marking' = [marking EXCEPT ![r] = Nothing]
    /\ UNCHANGED now

FailToMark(r) ==
    /\ ReadsMayFail
    /\ ~Free(r)
    /\ marking' = [marking EXCEPT ![r] = Nothing]
    /\ UNCHANGED <<notifications, now, known>>

ReadsNext ==
    \/ Tick
    \/ \E u \in Recipients : Notify(u)
    \/ \E r \in ReadSlots :
        \/ \E id \in DOMAIN notifications, caller \in Recipients :
                Read(r, id, caller)
        \/ Write(r)
        \/ FailToMark(r)

ReadsSpec == ReadsInit /\ [][ReadsNext]_readsVars

-----------------------------------------------------------------------------
(* Properties.                                                             *)

\* However requests overlap, fail and are sent again: a notification that was
\* read stays read, and the time it shows is one at which its reader had not yet
\* been told so: a later click, or a retry of what was already done, moves it no
\* more. Only requests that were all under way before the first of them wrote
\* may disagree on the time.
ReadTimesAreTrue ==
    \A id \in DOMAIN notifications :
        LET n == notifications[id] IN
        \/ n.readAt = 0 /\ known[id] = 0
        \/ n.createdAt <= n.readAt /\ n.readAt <= known[id]

\* What store.go says of a notification: its "ReadAt field changes once, in
\* place, after creation".
ChangesOnce ==
    [][\A id \in DOMAIN notifications :
        notifications'[id] # notifications[id] =>
            notifications[id].readAt = 0]_readsVars
=============================================================================
