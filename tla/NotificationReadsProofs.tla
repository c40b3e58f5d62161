------------------------ MODULE NotificationReadsProofs ------------------------
(***************************************************************************)
(* What the read time of a notification is worth, for any users, any       *)
(* notifications and any number of overlapping requests to mark them.      *)
(***************************************************************************)
EXTENDS NotificationReads, TLAPS

\* A request writes a time that is not past, and that is not later than when its
\* notification was first known to be read: it found it unread.
MarksInTime(r) ==
    ~Free(r) =>
        /\ marking[r].id \in DOMAIN notifications
        /\ marking[r].row \in Notification
        /\ 0 < marking[r].row.createdAt
        /\ marking[r].row.createdAt <= marking[r].row.readAt
        /\ marking[r].row.readAt <= now
        /\ \/ known[marking[r].id] = 0
           \/ marking[r].row.readAt <= known[marking[r].id]

IInv ==
    /\ notifications \in Seq(Notification)
    /\ known \in Seq(Nat)
    /\ Len(known) = Len(notifications)
    /\ now \in Nat \ {0}
    /\ DOMAIN marking = ReadSlots
    /\ \A id \in DOMAIN notifications :
        0 < notifications[id].createdAt /\ notifications[id].createdAt <= now
    /\ ReadTimesAreTrue
    /\ \A r \in ReadSlots : MarksInTime(r)

\* The times of a row are numbers.
LEMMA TimesAreNumbers ==
    ASSUME IInv
    PROVE  \A id \in DOMAIN notifications :
            notifications[id].createdAt \in Nat /\ notifications[id].readAt \in Nat
<1> TAKE id \in DOMAIN notifications
<1>1. notifications[id] \in Notification
  BY DEF IInv
<1> QED BY <1>1 DEF Notification

LEMMA InitEstablishes == ReadsInit => IInv
  BY DEF ReadsInit, IInv, Free, MarksInTime, ReadTimesAreTrue

LEMMA NotifyPreserves ==
    ASSUME IInv, NEW u \in Recipients, Notify(u)
    PROVE  IInv'
<1> DEFINE new == [recipient |-> u, createdAt |-> now, readAt |-> 0]
<1>1. new \in Notification /\ new.createdAt = now /\ new.readAt = 0
  BY DEF IInv, Notification
<1> HIDE DEF new
<1>2. notifications' = Append(notifications, new) /\ known' = Append(known, 0)
  BY DEF Notify, new
<1>3. /\ notifications' \in Seq(Notification) /\ known' \in Seq(Nat)
      /\ Len(known') = Len(notifications')
      /\ DOMAIN notifications' = DOMAIN notifications \cup {Len(notifications) + 1}
      /\ notifications'[Len(notifications) + 1] = new
      /\ known'[Len(notifications) + 1] = 0
      /\ \A id \in DOMAIN notifications :
            notifications'[id] = notifications[id] /\ known'[id] = known[id]
  BY <1>1, <1>2 DEF IInv
<1>4. UNCHANGED <<now, marking>>
  BY DEF Notify
<1>5. ReadTimesAreTrue'
  BY <1>1, <1>3 DEF IInv, ReadTimesAreTrue
<1>6. \A r \in ReadSlots : MarksInTime(r)'
  BY <1>3, <1>4 DEF IInv, MarksInTime, Free
<1>7. \A id \in DOMAIN notifications' :
        0 < notifications'[id].createdAt /\ notifications'[id].createdAt <= now'
  BY <1>1, <1>3, <1>4 DEF IInv
<1> QED BY <1>3, <1>4, <1>5, <1>6, <1>7 DEF IInv

LEMMA ReadPreserves ==
    ASSUME IInv, NEW r \in ReadSlots, NEW id \in DOMAIN notifications,
           NEW caller \in Recipients, Read(r, id, caller)
    PROVE  IInv'
<1>1. PICK row \in Notification :
        /\ row = [notifications[id] EXCEPT !.readAt = now]
        /\ row.readAt = now /\ row.createdAt = notifications[id].createdAt
  <2>1. notifications[id] \in Notification /\ now \in Nat
    BY DEF IInv
  <2>2. [notifications[id] EXCEPT !.readAt = now] \in Notification
    BY <2>1 DEF Notification
  <2> QED BY <2>1, <2>2 DEF Notification
<1>2. /\ UNCHANGED <<notifications, now, known>>
      /\ notifications[id].readAt = 0
      /\ marking' = [marking EXCEPT ![r] = [id |-> id, row |-> row]]
  BY <1>1 DEF Read
<1>3. /\ DOMAIN marking' = ReadSlots
      /\ marking'[r].id = id /\ marking'[r].row = row
      /\ \A s \in ReadSlots \ {r} : marking'[s] = marking[s]
  BY <1>2 DEF IInv
<1>4. known[id] = 0
  BY <1>2, TimesAreNumbers DEF IInv, ReadTimesAreTrue
<1>5. MarksInTime(r)'
  BY <1>1, <1>2, <1>3, <1>4 DEF IInv, MarksInTime
<1>6. \A s \in ReadSlots \ {r} : MarksInTime(s)'
  BY <1>2, <1>3 DEF IInv, MarksInTime, Free
<1>7. ReadTimesAreTrue'
  BY <1>2 DEF IInv, ReadTimesAreTrue
<1> QED BY <1>2, <1>3, <1>5, <1>6, <1>7 DEF IInv

\* The first request to write makes the time known; a later one writes a time it
\* had taken before that.
LEMMA WritePreserves ==
    ASSUME IInv, NEW r \in ReadSlots, Write(r)
    PROVE  IInv'
<1>1. PICK k \in DOMAIN notifications, row \in Notification :
        /\ k = marking[r].id /\ row = marking[r].row
        /\ 0 < row.createdAt /\ row.createdAt <= row.readAt /\ row.readAt <= now
        /\ known[k] = 0 \/ row.readAt <= known[k]
  <2>1. ~Free(r) /\ MarksInTime(r)
    BY DEF Write, IInv
  <2> QED BY <2>1 DEF MarksInTime
<1>2. PICK t \in Nat :
        /\ known' = [known EXCEPT ![k] = t]
        /\ t # 0 /\ row.readAt <= t
        /\ known[k] = 0 \/ t = known[k]
  <2>1. known[k] \in Nat /\ now \in Nat \ {0} /\ row.readAt \in Nat
    BY DEF IInv, Notification
  <2>2. known' = [known EXCEPT ![k] = IF known[k] = 0 THEN now ELSE known[k]]
    BY <1>1 DEF Write
  <2>3. CASE known[k] = 0
    BY <1>1, <2>1, <2>2, <2>3
  <2>4. CASE known[k] # 0
    BY <1>1, <2>1, <2>2, <2>4
  <2> QED BY <2>3, <2>4
<1>3. notifications' = [notifications EXCEPT ![k] = row]
  BY <1>1 DEF Write
<1>4. /\ notifications' \in Seq(Notification) /\ known' \in Seq(Nat)
      /\ Len(notifications') = Len(notifications) /\ Len(known') = Len(known)
      /\ DOMAIN notifications' = DOMAIN notifications
      /\ notifications'[k] = row /\ known'[k] = t
      /\ \A id \in DOMAIN notifications \ {k} :
            notifications'[id] = notifications[id] /\ known'[id] = known[id]
  BY <1>2, <1>3 DEF IInv
<1>5. /\ marking' = [marking EXCEPT ![r] = Nothing] /\ now' = now
      /\ Free(r)'
      /\ \A s \in ReadSlots \ {r} : marking'[s] = marking[s]
  BY DEF Write, IInv, Free
<1>6. ReadTimesAreTrue'
  BY <1>1, <1>2, <1>4 DEF IInv, ReadTimesAreTrue
<1>7. ASSUME NEW s \in ReadSlots, ~Free(s)' PROVE MarksInTime(s)'
  <2>1. /\ marking'[s] = marking[s] /\ ~Free(s) /\ MarksInTime(s)
    BY <1>5, <1>7 DEF IInv, Free
  <2>2. CASE marking[s].id = k
    <3>1. known'[k] = t /\ (known[k] = 0 => t = now)
      <4>1. known[k] = 0 => known'[k] = now
        BY <1>1, <1>4 DEF Write, IInv
      <4> QED BY <4>1, <1>4
    <3>2. marking[s].row.readAt <= t
      BY <2>1, <2>2, <3>1, <1>2 DEF MarksInTime
    <3> QED BY <2>1, <2>2, <3>1, <3>2, <1>4, <1>5 DEF MarksInTime
  <2>3. CASE marking[s].id # k
    BY <2>1, <2>3, <1>4, <1>5 DEF MarksInTime
  <2> QED BY <2>2, <2>3
<1>8. /\ \A s \in ReadSlots : MarksInTime(s)'
      /\ DOMAIN marking' = ReadSlots
  BY <1>5, <1>7 DEF MarksInTime, IInv
<1>9. \A id \in DOMAIN notifications :
        0 < notifications'[id].createdAt /\ notifications'[id].createdAt <= now
  <2> SUFFICES ASSUME NEW id \in DOMAIN notifications
               PROVE  0 < notifications'[id].createdAt /\ notifications'[id].createdAt <= now
    OBVIOUS
  <2>1. row.createdAt \in Nat /\ row.readAt \in Nat /\ now \in Nat
    BY DEF Notification, IInv
  <2>2. CASE id = k
    BY <1>1, <1>4, <2>1, <2>2
  <2>3. CASE id # k
    BY <1>4, <2>3 DEF IInv
  <2> QED BY <2>2, <2>3
<1> QED BY <1>4, <1>5, <1>6, <1>8, <1>9 DEF IInv

LEMMA StepPreserves == IInv /\ [ReadsNext]_readsVars => IInv'
<1> SUFFICES ASSUME IInv, [ReadsNext]_readsVars PROVE IInv'
  OBVIOUS
<1>1. CASE Tick
  <2>1. /\ UNCHANGED <<notifications, marking, known>>
        /\ now' \in Nat \ {0} /\ now' = now + 1
    BY <1>1 DEF Tick, IInv
  <2>2. ReadTimesAreTrue'
    BY <2>1 DEF IInv, ReadTimesAreTrue
  <2>3. ASSUME NEW r \in ReadSlots, ~Free(r)' PROVE MarksInTime(r)'
    <3>1. ~Free(r) /\ MarksInTime(r)
      BY <2>1, <2>3 DEF IInv, Free
    <3>2. marking[r].row.readAt \in Nat
      BY <3>1 DEF MarksInTime, Notification
    <3> QED BY <2>1, <3>1, <3>2 DEF MarksInTime, IInv
  <2>4. \A id \in DOMAIN notifications : notifications[id].createdAt \in Nat
    BY TimesAreNumbers
  <2>5. \A id \in DOMAIN notifications :
            0 < notifications[id].createdAt /\ notifications[id].createdAt <= now'
    BY <2>1, <2>4 DEF IInv
  <2>6. \A r \in ReadSlots : MarksInTime(r)'
    BY <2>3 DEF MarksInTime
  <2> QED BY <2>1, <2>2, <2>5, <2>6 DEF IInv
<1>2. ASSUME NEW r \in ReadSlots, FailToMark(r) PROVE IInv'
  <2>1. /\ Free(r)'
        /\ \A s \in ReadSlots \ {r} : marking'[s] = marking[s]
        /\ DOMAIN marking' = ReadSlots /\ UNCHANGED <<notifications, now, known>>
    BY <1>2 DEF FailToMark, IInv, Free
  <2> QED BY <2>1 DEF IInv, Free, MarksInTime, ReadTimesAreTrue
<1>3. CASE UNCHANGED readsVars
  BY <1>3 DEF readsVars, IInv, Free, MarksInTime, ReadTimesAreTrue
<1> QED
  BY <1>1, <1>2, <1>3, NotifyPreserves, ReadPreserves, WritePreserves DEF ReadsNext

\* A notification that was read stays read, with a time at which its reader had
\* not been told so yet, however requests overlap, fail and are repeated.
THEOREM ReadTimesAreAlwaysTrue == ReadsSpec => []ReadTimesAreTrue
<1>1. IInv /\ [ReadsNext]_readsVars => IInv'
  BY StepPreserves
<1>2. IInv => ReadTimesAreTrue
  BY DEF IInv
<1> QED BY <1>1, <1>2, InitEstablishes, PTL DEF ReadsSpec
=============================================================================
