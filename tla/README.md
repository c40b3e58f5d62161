# Verification of ops-platform-starter

TLA+ models of the work order backend in `src/` (Go), model-checked with TLC on
small instances and, but for liveness, proved with TLAPS for every instance.
Paths below are relative to `src/internal/` unless they say otherwise.

## The system

A single HTTP server. Every request is a goroutine; nothing else runs in the
background but the sending of emails. All state is in stores, each of which
exists twice: in memory (one `RWMutex` per store, so one store call is atomic
and never fails) and in Postgres (READ COMMITTED, plain `SELECT`s, full-row
`UPDATE`s). `router.New` chooses by `DATABASE_URL`.

| Component | State | Operations | Modelled in |
|---|---|---|---|
| `workitems.Service` and its handlers | work items, current assignments, status history, assignment history | create, edit, change status, verify, flag, assign, accept, decline | `WorkItemRules`, `WorkItemLifecycle`, `WorkItemRequests` |
| `db.WithTx`, `PoolTxRunner` | open transactions, row locks | begin, commit, roll back | `WorkItemRequests` |
| `teams.Service` | memberships, supervisions | put on a team, add and remove a supervisor; asked by `workitems` | `TeamDirectory` (atomic), `TeamRequests` (store by store) |
| `notifications.Service` | notifications | notify, mark as read | `WorkItemLifecycle` (who is told what), `NotificationReads` (the rows) |
| `attachments.Service` | attachment rows, files | upload; asked by the evidence gate | `Uploads`; the number of rows in the work item modules |
| `auth.Service`, user stores, one-time codes | users, codes, lockouts | sign up, verify, create and change users, change and reset passwords | `Accounts` (the row of one account), `Provisioning` (how rows come to be) |
| `http/handlers/users.go` | none of its own | an account and its team in one request | `Provisioning` |
| `db.Migrate` | schema version, advisory lock | bring the schema up to date at the start | `Migrations` |
| bootstrap accounts | none of its own | seed accounts at every start | initial states and `Restart` of `Accounts`, initial states of `Provisioning` |
| tokens, Google's side of sign-in, email, middleware, configuration, docs | none that a protocol depends on | | not modelled |

How they interact: a handler takes the caller's user and roles from the account
as it is now (`RequireAuth` reads the account for every request, so roles may
change between two requests of the same person), the router checks the roles a
route wants, and the service checks ownership. A supervisor's authority is
asked of the team directory. A work item operation writes up to five tables:
`work_items`, `status_history`, `assignments`, `assignment_history`,
`notifications`, always in this order. The submission handler asks the
attachment store before it calls the service.

What is hard: requests about one work item overlap, and nothing a request reads
is locked or read again before it writes the whole row back; transactions fail
between two writes; the in-memory stores have no transactions; three routes
reach `ChangeStatus` but only one checks evidence; who may act on an item
depends on who holds it now, hence on the requests before; roles and teams
change while work is under way. Outside work items: a move between teams is two
store calls; a removal closes the rows it saw; some changes of an account go
through `UpdateAtomic` and some write back a row read earlier; codes expire,
accounts lock, and a code may be requested while another is being guessed;
processes start together, migrate one database and die anywhere; an account, its
mail and its team are made one after the other. `PROJECT.json` lists each of
these hazards with the line where it bites and the property that watches it.

## Modules

- **`WorkItemRules`** - the rules, without state: the status machine
  (`ValidStatusTransitions`), the role gate of each route, who may view, edit,
  move, assign and answer, what is recorded, who is notified. The work item
  modules share it.
- **`TeamDirectory`** - what the teams package promises: one active team per
  user, several supervisors per team, `Oversees` for `IsActiveSupervisorOf`.
- **`WorkItemLifecycle`** - the abstract specification of the work item API:
  one step per accepted request. Each action is one route (`Create`, `Update`,
  `ChangeStatus`, `Verify`, `Flag`, `AssignWorkItem`, `Accept`, `Decline`,
  `Upload`) with all it writes; `TeamStep` changes the teams at any time.
- **`WorkItemLifecycleProofs`** - theorems about it.
- **`WorkItemRequests`** - the same API as the server runs it. A request in a
  slot goes through `View` and `CheckEvidence` (if its handler looks first),
  `ReadRow`, `Decide`, and then `TakeRow` and `Commit` (Postgres) or one `Write`
  per table (in memory). `Abort` ends a Postgres request anywhere, with nothing
  written. The writes of a request are computed from the rows it read.
  `Lifecycle == INSTANCE WorkItemLifecycle` gives it the same tables, and
  `ImplementsLifecycle` states the refinement. A `setting` says which storage
  there is, who asks for what, and what is kept apart: `oneAtATime` keeps
  requests about one item apart, `teamsWait` keeps the teams as they are while
  a request of somebody acting as a supervisor is in flight. The server does
  neither; only the setting of `requests_serial` assumes both, and in all
  others requests and `TeamStep` interleave freely. `WritesOf` and `NextTable`
  are the model's own: which of the `...Writes` a request makes, and which comes
  next in `TableOrder`.
- **`TeamRequests`** - the store calls of `AddAssignee`, `AddSupervisor`,
  `RemoveSupervisor` and `IsActiveSupervisorOf` on the two tables, row by row,
  overlapping and failing. `Indexed` says whether the partial unique index of
  migration 000006 is there (Postgres) or not (in memory).
  `Directory == INSTANCE TeamDirectory WITH ...` shows the tables as the atomic
  directory, in which a user whose old row is closed and whose new one is not
  there yet is still on his old team; `ImplementsDirectory` is the refinement.
- **`Accounts`** - the row of one account: codes, expiry, wrong guesses and
  lockout, password changes and resets, patches, time and restarts.
  `RequestReset`, the two uses of `consumeOTP` and the setting of a password
  after it are single steps on the row (`UpdateAtomic`), with other requests in
  between; `UpdateUser`, `ChangePassword` and `ResetPassword` read the row and
  write all of it back later (`WriteBack`). The account signed up, was made by
  an admin, or is a seed (`origin`); `Restart` is a start on the same database,
  where `Seed` finds the row of a seeded account and leaves it alone.
- **`Provisioning`** - how accounts come to be: `SignUp`, a first Google
  sign-in, `POST /users` with or without a team, seeds; overlapping, breaking
  off between any two writes on the routes in `FailingRoutes`.
- **`Migrations`** - processes of any binaries that start, take the advisory
  lock, apply what their binary embeds and serve; a process may die anywhere, and
  the database may notice late, or carry out a `COMMIT` of the dead.
- **`NotificationReads`** - `Notify` and the read, check and write of
  `MarkAsRead`, requests overlapping and failing. `known` remembers when a
  notification was first seen as read.
- **`Uploads`** - the file is created, copied, and then named by a row; failures
  and restarts in between.
- **`...Proofs`** - the theorems about the module of that name.
- **`MCWorkItemLifecycle`**, **`MCWorkItemRequests`**, **`MCAccounts`**,
  **`MCParts`** - small instances for TLC.

A run often covers several casts of users, or several sets of operations. They
are then chosen by the initial state: `cast` in `MCWorkItemLifecycle`, `setting`
in `WorkItemRequests`. `MCParts` explores the five modules that share no state
the same way: `part` says which one moves, while the others stand still. As no
two of them have a variable in common, no property of one can depend on the
steps of another, and a behaviour of one part is a behaviour of the whole seen
from there. Their names differ so that one module can extend them all.

Operators introduced by a comment that starts with "Mutant" are not part of a
specification: each is the definition after it with a plausible bug, and serves
to show that a property would notice.

### What stands for what

- A work item is its status, creator, assignee and one abstract value for the
  fields an edit changes. Ids, texts and timestamps are left out. An assignment
  is its status and both its users. A reason is whether there is one.
- A principal is a user with any set of roles. `ActingRole` is the order of the
  `switch` in the service (admin, supervisor, requester, everybody else).
- The status history also keeps the role a change was made under, which the
  table does not; only properties read it.
- Requests that are refused change nothing. In `WorkItemLifecycle` they are
  stuttering steps, in `WorkItemRequests` they end their slot.
- In `WorkItemRequests` the row is read and compared with the status machine in
  one step (`ReadRow`), since the comparison touches no shared state; the teams
  and the assignment are read later, in `Decide`. A supervisor's authority is
  two or three store reads there; they are taken as one.
- In Postgres, the writes after the first are invisible until commit and the
  row lock is held, so `Commit` makes all of them in one step. An edit is a
  single statement outside a transaction: it takes the row lock and commits in
  the same way. `PostgresAssignmentStore.Update` writes only the answer of an
  assignment, the in-memory one the whole row (`AssignmentAfter`).
- In `TeamRequests` a row is its user, its team and whether it is open; rows are
  never deleted, so a position in the sequence is its id. One step is one store
  call. `held` and `horizon` remember what a check of authority may have seen.
- In `Accounts` time is a number, a hash stands for its password, and a password
  or code is its place in the order in which they were made; the variables in
  `history` record what was accepted, when, which passwords were replaced, and
  how the account came to be.
- In `Migrations` a migration is its number, and a binary embeds the first so
  many. What the statements of a migration do is left out; each runs in one
  transaction with the row that records it.
- In `Uploads` the bytes of a file are whether they are all there, and the random
  part of a name is one of `Suffixes`, all of which are unused when drawn.
- If a connection is lost during commit the client does not learn the outcome;
  the outcome itself is one of `Commit` and `Abort`.

## Runs

| Run | What it asks | States, time |
|---|---|---|
| `lifecycle` | With an admin, a supervisor and two assignees; with two supervisors who come and go and people of two roles; and through review and rework: do the row, the assignment and both histories agree, do finished items and accepted offers stay as they are, does anybody act beyond his roles, his team and his offer, does evidence precede review and rework verification, and is the right person told, once? | 225K, 124 s |
| `requests_overlap` | Overlapping requests in four settings: moves with uploads, moves with edits, reviews, and moves without transactions. What do rows, histories and notifications still agree on? | 1.4M, 162 s |
| `requests_serial` | Where requests about one item do not overlap, and the teams do not change beside a supervisor's request: does the server implement `WorkItemLifecycle`? | 192K, 60 s |
| `requests_end` | Is every request answered? | 236K, 110 s |
| `accounts_codes` | Accounts of every origin, overlapping verifications and resets by code, failures, restarts, time: does a code work once, does the newest survive, are guesses slowed down? | 2.3M, 135 s |
| `accounts_all` | A seeded account, with patches, changes and an admin's resets besides: does a made-up password ever stand without the flag that forces its change, and does anything but a stale patch bring a replaced password back? | 3.2M, 183 s |
| `parts` | The five modules that share no state, one at a time: team tables, migrations, reads, uploads, the making of accounts. | 235K, 143 s |

All of these pass (the times are for two runs at once, with two workers each). Five runs are expected to fail and show where the code and
what it says of itself part:

- `requests_terminal` - `types.go:37-38` says nothing moves once a work item is
  completed or cancelled. Two status changes that overlap (cancel it, and
  anything else that was legal when it was read) both commit; the later one
  takes the item out again.
- `requests_lost_move` - `src/README.md:57` says every status change is
  recorded. `PATCH /workitems/{id}` writes the status and the assignee it read
  back, so an edit that overlaps an assignment silently undoes it.
- `teams_lost` - `teams/service.go:63-65` says an assignee always has exactly one
  active team. `AddAssignee` closes the old membership and creates the new one in
  two store calls outside a transaction; a failure in between leaves him on none.
- `reads_twice` - `notifications/store.go:13-15` says `ReadAt` changes once, and
  `service.go:64-66` that a double click is a no-op. Two overlapping `MarkAsRead`
  both find the notification unread and both set the time.
- `accounts_patch` - `auth/service.go:186` says a nil field of a patch is left
  unchanged. `UpdateUser` writes the whole row it read, so a patch that overlaps
  a change of password puts the old password back.

`requests_terminal`, `requests_lost_move`, `reads_twice` and `accounts_patch`
have one cause: the row is read without a lock (`SELECT ... FOR UPDATE`), and
`Update` has no condition on what was read. The same cause has an effect the
models contain and no run of its own shows: an accept and a decline that overlap
both find an offer pending and both commit. What two overlapping `MarkAsRead`
do not break is `ReadTimesAreTrue` of the run `parts`.

Others were met on the way. The comment at `workitems/types.go:116-118` says that
`FromStatus` is nil in the first entry of a status history; `recordStatusChange`
always sets it and creating an item makes no entry, so the first entry says from
`created`, as the tests of the service and of the router expect and `HistoryIsPath`
states: it is the comment that is out of date. Without the index, in memory, two
overlapping moves put one user on two teams (hence `Indexed`); a supervisor who is
granted a team between the two reads of the check of his authority may be let
through although he never supervised the team the assignee was on at the time
(hence the escape in `YesWasTrueOnce`); the number of wrong guesses is not
cleared when a lock ends, so each later wrong guess locks the account again; and
an account whose verification code expired cannot get a new one.

### Bounds

*Work items.* One work item (two in `requests_serial`): no operation reads or
writes two work items, so items interact only through the slots and the team
directory. Two slots: every anomaly is between one request that read and one that
committed meanwhile; a third adds more of the same. `MaxStatusHistory` (and
`moves` of a cast or a setting) bounds the status changes of an item: 5 for the
staff (two offers and more: offer, decline, offer, accept), 8 where rework must
fit (review, flag, rework, review, verify), 4 where supervisors come and go; 2 to
5 in `WorkItemRequests`, checked when a request decides, so that histories may be
one longer than the bound. Beyond it a request is refused like any other, so the
bound never blocks a slot and deadlock is checked. `MaxAttachments` is 1: the
gate asks only whether there is one.

*Accounts.* Two slots; `MaxAttempts` and `Lockout` are 2, which leaves room for
reaching the limit, waiting and guessing again within `MaxTime` 3 and
`MaxGuesses` 4; 3 codes (the one of the sign-up and two resets) and 2 passwords
beyond which nobody asks for another. `accounts_all` stops the clock, since its
properties do not depend on time, and lets all operations overlap instead; it
has 3 passwords, so that a change and a reset of the first can overlap each
other, and an account that was seeded, so that a restart seeds it again.

*Parts.* Two teams, one member and one supervisor, 3 rows of each table, which
suffices for a supervisor added twice and removed once, and for two moves; three
processes of two binaries (2 and 3 migrations), started and killed again and
again; 2 notifications and 3 time stamps; 3 uploads with two names; 4 accounts of
which one is seeded, three identifiers and two Google identities. Moves do not
break off here (`Failing`), nor does `POST /users` (`FailingRoutes`): with
breaking off the properties about them are false, as `teams_lost` shows. All
other operations may fail anywhere.

`Slots` are symmetric, and declared so in the runs of `WorkItemRequests` and
`Accounts`, except where liveness is checked. `CHECK_DEADLOCK FALSE` stands where
the bounds bring the model to a halt (all codes and passwords used up, all rows
there).

### Fairness

`FairSpec` of `WorkItemRequests` assumes that a request that can take a step
takes one (a goroutine that is ready runs; a database answers or fails each
statement) and that the row lock is granted to whoever keeps asking (Postgres
queues waiters in order), hence strong fairness for `TakeRow`. Nobody is assumed
to send a request, and nothing is assumed to fail.

`MigrationsFairness` assumes the same of a process at work (`Proceed`), strong
fairness for the advisory lock, which Postgres grants in the order of its queue,
and that the database ends dead sessions some time (`EndSession`). Nobody is
assumed to start, and anybody may die.

## Proofs

All theorems hold for every value of the constants that satisfies the named
`ASSUME`s of the module (principals are users with roles, `NoUser` is no user,
bounds are numbers, and the like). Where the code keeps a promise only under a
condition, the condition is the hypothesis of the theorem.

Every safety property and every action property that a passing run checks is
the statement of a theorem, and so are both refinements (`ImplementsLifecycle`,
`ImplementsDirectory`); they are refinements of safety, without fairness.

**`WorkItemLifecycleProofs`**: `TypeCorrect`, action by action;
`HistoryIsAlwaysPath`, `AssignmentsAlwaysAgree`, `AcceptedStaysPastAssignment`
(each inductive together with `TypeOK`); `TerminalStaysFinal` (a terminal status
has no successor, and every step that writes more than the contents or the
attachments of an existing item follows a transition; contents and attachments
may change, and the property does not speak of them); `AcceptedAssigneeAlwaysKeepsWork` (from
`AcceptedIsPastAssignment`); `ReviewsAlwaysHaveEvidence`, with `EvidenceInv`: the
property speaks of the history, the gate of the attachments, and what links them
at a verdict is the status in the row, so the invariant covers it too. The
argument goes through `StepOutcomes`: whatever the step, one work item sees one
of six outcomes (quiet, created, moved, offered, accepted, declined), and each
invariant is proved by cases over these instead of over all actions.

The other properties build on these invariants. `AssigneesAlwaysActOnTheirOffer`:
the row lets an assignee act because it names him, and by `AssignmentsAgree` the
row names whoever the last event of the assignment history offered it to.
`OthersItemsAreNeverAdopted`,
with `AdoptionInv`: nobody holds an item whose history is empty, so the first
move of a supervisor rests on his having created it. `FlaggedWorkIsAlwaysReworked`,
with `ReworkInv`: behind every flag, an item that is being worked on or reviewed
again has the entries that say so. `NewsAlwaysReachesTheRightPerson`, with
`NewsInv`: verdicts come when the holder can no longer change, and a pending offer
was made by whoever the last event names; the counts then follow step by step,
since an appended entry adds one to the counts it belongs to and none to the others.

**`WorkItemRequestsProofs`**, for any number of overlapping requests, in both
storages. A step is taken apart into what it does to the tables of one work item
(`TableOutcome`) and to one slot (`SlotOutcome`), and each invariant has a part
about rows and a part about what requests have read and are about to write.

- `TypeCorrect`, with `TypeInv`: what a request has still to write is some of the
  rows `WritesOf` computed from the row it read (`Planned`), all of them in
  Postgres. Nothing else is known of a row that may be stale by then.
- `NoStatusIsFromNowhere`, with `KnownInv`: the status of a row, and the one a
  request once read, is on record; records only grow, so stale rows do no harm.
- `RowsAlwaysShowLastRecord`: a transaction appends the record and writes the row
  it describes in one step, so whichever commits last is the one both show.
- `ReviewsAlwaysHaveEvidence`, with `EvidenceInv`: a request that passed the gate,
  or read an item under review, has evidence behind it, and attachments only grow.
- `HoldersAlwaysWereOffered`, with `HolderInv`: whoever a row names, also one that
  was read long ago, was offered the item, or, in memory, the request that names
  him has yet to write the event.
- `BooksAlwaysBalance`, with `BooksInv`: for each kind, the entries written plus
  those that requests still have to write agree between the tables. In Postgres
  nothing is ever half written; in memory it is, but what is pending is counted
  (`Pending`), and nothing is pending when no request is in flight.
- `SerialRequestsImplementLifecycle`: under `Serial` the server implements
  `WorkItemLifecycle`. `Serial` is transactions and two conditions the server
  does not enforce: no two requests about one item overlap, and no team changes
  while a request of somebody acting as a supervisor is in flight. Requests of
  others may meet team changes anywhere, since no rule asks the teams about them
  (`TeamsMatterToSupervisors`). `SerialInv` says that what a request was admitted with, read
  and decided still holds (`StillHolds`) and that no two requests are about one
  item; so `Commit` is the operation it was asked for, on the row as it is,
  `SaveAttachment` is `Upload`, and every other step of a slot, a rollback
  included, is none. That the first condition is needed the two failing runs
  about requests show; without the second, a supervisor removed between `Decide`
  and `Commit` still gets his commit, which the atomic API would refuse.

**`TeamRequestsProofs`**: `TypeCorrect`; `NobodyOnTwoTeams` (with the index);
`NobodyLosesHisTeam` (where moves do not break off); `RemovalsAreComplete`;
`TeamRequestsImplementDirectory` (both conditions); `YesWasAlwaysTrueOnce` (with
the index). The invariant adds to the
types that with the index only a user's last row can be active
(`ActiveIsNewest`: the row a request closes is then the row the directory
showed), that somebody between two teams is in the hands of a request
(`NobodyIsForgotten`), and that a removal still has before it every row it saw
that is open (`RemovalsAreOnTheWay`). For the check of authority `ChecksAreRight`
is added: once the team is read, yes has been right, or no supervision that could
answer yes was there yet; rows only close, so none of those can turn up later.

**`AccountsProofs`**: `TypeCorrect`, `TemporaryPasswordsAreMarked` and
`PasswordsComeBackByPatchesOnly` for all operations. The first two come from
`RowsAreSound`, which says the same of the rows that requests still hold and will
write back; the third from `NewPasswords`: a change or a reset that has still to
write holds a password that no row ever had, and whoever else writes a row, but
for a patch, writes the password that is there or makes a new one.
`CodesWorkOnce`, `NewestCodeWorks`, `NobodyVerifiesWithoutTheCode` and
`GuessingIsSlow` are for accounts that are only changed through `UpdateAtomic`
(`AtomicOnly`); with the other operations a row that was read earlier brings a
used code or an old password back, as `accounts_patch` shows. Their invariants:
codes in the row are not among the used (`CodesAreFresh`), and the row counts the
wrong guesses and is locked from the last of them (`GuessesAreCounted`).

**`MigrationsProofs`**: `TypeCorrect`, which says that the lock is held by the
one process at work or by a dead session; `MigrationsAlwaysInOrder` and
`SchemaAlwaysCurrent`, for any number of processes of any binaries, with
`WorkersKeepUp`: what the process at work has passed is in the schema, and a
pending `COMMIT` is for the migration that is next.

**`ProvisioningProofs`**: `NoAccountTwice`, `NobodyWaitsForACode`, and
`AccountsAreComplete` where `POST /users` does not break off. An account in the
hands of a request is the one thing that may still be incomplete.

**`UploadsProofs`**: `EvidenceIsNeverLost`; a file belongs to one upload or one
row (`FilesHaveOneOwner`), which is what restarts and reuse of names could break.

**`NotificationReadsProofs`**: `ReadTimesAreAlwaysTrue`, for any number of
overlapping requests. What a request is about to write carries a time that lies
between the creation of the notification and now, and, if the notification was
read meanwhile, not after the moment that was known.

Only model-checked: liveness under fairness (`EveryRequestEnds`,
`EveryStartEnds`), which is out of the prover's reach. The five failing runs are
counterexamples and have no theorem.

## Not modelled

- Lists and histories: queries change nothing. The order of history rows is that
  of `created_at`, a time taken before the row lock is waited for; the models
  keep the order of commits, and the code promises no other order.
- A configuration that changes the bootstrap identifiers between two starts.
- Tokens, password hashing, Google's side of the sign-in: what the server relies
  on is their cryptography. `Provisioning` takes a Google identity as given.
- Email delivery: an HTTP call; that a code is mailed before there is an account
  is a step of `Provisioning`. A mail that does not arrive is a code nobody
  sends in.
- HTTP server, middleware, configuration, shutdown, documentation: no state that
  a protocol depends on. The roles a route wants are in `WorkItemRules`.
- Creating a team: a single write that nothing competes with.
- Across packages: a supervisor is removed while a work item request that was
  allowed is under way. The window is inherent in reading the directory without a
  lock; `WorkItemRequests` has it in every setting but the serial one, and nothing
  in the code promises otherwise.

What could be added: theorems about configurations no run has (more of what
`TeamRequests` keeps without the index, and of `Accounts` where all operations
overlap), and the time stamps by which history rows are listed.
