------------------------------ MODULE Migrations ------------------------------
(***************************************************************************)
(* db.Migrate, which every process runs at startup before it serves: under *)
(* a session-scoped advisory lock, the migrations its binary embeds that   *)
(* schema_migrations does not list are applied in order, each in a         *)
(* transaction with its entry. Processes of older and newer binaries start *)
(* side by side, and die anywhere. The database may notice the end of a    *)
(* session late, and may still commit what the dead process had asked for. *)
(***************************************************************************)
EXTENDS Naturals, Sequences

CONSTANTS
    Processes,     \* processes that are started, again and again
    Newest,        \* Newest[p]: the migrations p embeds are 1..Newest[p]
    NoProcess,     \* nobody holds the lock
    DeadSession    \* a session whose process is gone holds it

ASSUME MigrationsAssumption ==
    /\ Newest \in [Processes -> Nat]
    /\ NoProcess \notin Processes /\ DeadSession \notin Processes
    /\ NoProcess # DeadSession

VARIABLES
    schema,   \* the migrations whose statements took effect, in that order
    listed,   \* the versions in schema_migrations
    holder,   \* who holds the advisory lock
    asked,    \* the version whose COMMIT the dead session left behind, or 0
    phase,    \* where each process is
    next      \* the migration it looks at

migrationVars == <<schema, listed, holder, asked, phase, next>>

Done(p) == next[p] > Newest[p]

MigrationsInit ==
    /\ schema = <<>>
    /\ listed = {}
    /\ holder = NoProcess
    /\ asked = 0
    /\ phase = [p \in Processes |-> "down"]
    /\ next = [p \in Processes |-> 0]

Enter(p, s) == phase' = [phase EXCEPT ![p] = s]

Start(p) ==
    /\ phase[p] = "down"
    /\ Enter(p, "waiting")
    /\ UNCHANGED <<schema, listed, holder, asked, next>>

\* pg_advisory_lock.
Lock(p) ==
    /\ phase[p] = "waiting"
    /\ holder = NoProcess
    /\ holder' = p
    /\ Enter(p, "looking")
    /\ next' = [next EXCEPT ![p] = 1]
    /\ UNCHANGED <<schema, listed, asked>>

\* The SELECT EXISTS of one round of the loop.
Look(p) ==
    /\ phase[p] = "looking"
    /\ ~Done(p)
    /\ IF next[p] \in listed
       THEN next' = [next EXCEPT ![p] = @ + 1] /\ UNCHANGED phase
       ELSE Enter(p, "applying") /\ UNCHANGED next
    /\ UNCHANGED <<schema, listed, holder, asked>>

\* Mutant: the entry is written outside the transaction.
ApplyListed(p) ==
    /\ phase[p] = "applying"
    /\ Enter(p, "committing")
    /\ listed' = listed \cup {next[p]}
    /\ UNCHANGED <<schema, holder, asked, next>>

\* The statements of the migration and its INSERT, not visible to others yet.
Apply(p) ==
    /\ phase[p] = "applying"
    /\ Enter(p, "committing")
    /\ UNCHANGED <<schema, listed, holder, asked, next>>

TakeEffect(v) ==
    /\ schema' = Append(schema, v)
    /\ listed' = listed \cup {v}

Commit(p) ==
    /\ phase[p] = "committing"
    /\ TakeEffect(next[p])
    /\ Enter(p, "looking")
    /\ next' = [next EXCEPT ![p] = @ + 1]
    /\ UNCHANGED <<holder, asked>>

\* Mutant: the lock is given back after each migration.
UnlockEarly(p) ==
    /\ phase[p] = "looking"
    /\ holder' = NoProcess
    /\ Enter(p, "serving")
    /\ UNCHANGED <<schema, listed, asked, next>>

\* Mutant: the connection goes back to the pool with the lock.
UnlockNever(p) ==
    /\ phase[p] = "looking"
    /\ Done(p)
    /\ Enter(p, "serving")
    /\ UNCHANGED <<schema, listed, holder, asked, next>>

\* The deferred unlock; the server starts to listen.
Unlock(p) ==
    /\ phase[p] = "looking"
    /\ Done(p)
    /\ holder' = NoProcess
    /\ Enter(p, "serving")
    /\ UNCHANGED <<schema, listed, asked, next>>

Holds(p) == phase[p] \in {"looking", "applying", "committing"}

\* A crash, a kill, or a statement that fails: the process ends. Its session
\* holds the lock until the database has noticed.
Die(p) ==
    /\ phase[p] # "down"
    /\ Enter(p, "down")
    /\ next' = [next EXCEPT ![p] = 0]
    /\ holder' = IF Holds(p) THEN DeadSession ELSE holder
    /\ asked' = IF phase[p] = "committing" THEN next[p] ELSE asked
    /\ UNCHANGED <<schema, listed>>

\* The database carries out a COMMIT it received from a process now dead.
LateCommit ==
    /\ asked # 0
    /\ TakeEffect(asked)
    /\ asked' = 0
    /\ UNCHANGED <<holder, phase, next>>

\* It rolls back what was not committed, and ends the session.
EndSession ==
    /\ holder = DeadSession
    /\ holder' = NoProcess
    /\ asked' = 0
    /\ UNCHANGED <<schema, listed, phase, next>>

\* What a process does by itself once it holds the lock.
Proceed(p) == Look(p) \/ Apply(p) \/ Commit(p) \/ Unlock(p)

MigrationsNext ==
    \/ \E p \in Processes : Start(p) \/ Lock(p) \/ Proceed(p) \/ Die(p)
    \/ LateCommit
    \/ EndSession

MigrationsSpec == MigrationsInit /\ [][MigrationsNext]_migrationVars

\* A process that can run runs, the lock goes to whoever keeps waiting, and the
\* database ends dead sessions. Nobody has to start, and everybody may die.
MigrationsFairness ==
    /\ \A p \in Processes : WF_migrationVars(Proceed(p)) /\ SF_migrationVars(Lock(p))
    /\ WF_migrationVars(EndSession)

MigrationsFairSpec == MigrationsSpec /\ MigrationsFairness

-----------------------------------------------------------------------------
(* Properties.                                                             *)

\* The types, and who holds the lock when: exactly the process that is at work,
\* or a dead session, the only one to leave a COMMIT behind.
MigrationsTypeOK ==
    /\ schema \in Seq(Nat)
    /\ listed \subseteq Nat
    /\ holder \in Processes \cup {NoProcess, DeadSession}
    /\ asked \in Nat
    /\ phase \in [Processes -> {"down", "waiting", "looking", "applying",
                                "committing", "serving"}]
    /\ next \in [Processes -> Nat]
    /\ \A p \in Processes : Holds(p) <=> holder = p
    /\ asked # 0 => holder = DeadSession

\* Whatever starts together and dies in between, every migration takes effect
\* at most once and in order, none before those it builds on, and the list says
\* which: CREATE TABLE never meets a table that exists.
AppliedInOrder ==
    /\ \A k \in DOMAIN schema : schema[k] = k
    /\ listed = 1..Len(schema)

\* A process serves only when the schema is at least the one its code expects.
ServesCurrentSchema ==
    \A p \in Processes : phase[p] = "serving" => Len(schema) >= Newest[p]

\* Every process that starts gets to serve, unless it dies: nobody dies holding
\* the lock for good, and nobody waits for it forever.
EveryStartEnds ==
    \A p \in Processes : phase[p] = "waiting" ~> phase[p] \in {"serving", "down"}
=============================================================================
