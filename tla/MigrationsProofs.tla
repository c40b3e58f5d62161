--------------------------- MODULE MigrationsProofs ---------------------------
(***************************************************************************)
(* Safety of Migrations for any number of processes, with any binaries.    *)
(* The lock alone does not give AppliedInOrder: a COMMIT that a dead       *)
(* process left behind must also be the next migration, and still be when  *)
(* the database gets to it, because the dead session holds the lock.       *)
(***************************************************************************)
EXTENDS Migrations, TLAPS

\* What whoever is at work knows of the schema; nobody else changes it.
WorkersKeepUp ==
    /\ \A p \in Processes :
        /\ phase[p] = "looking" =>
                /\ next[p] > 0
                /\ next[p] <= Len(schema) + 1
        /\ phase[p] \in {"applying", "committing"} => next[p] = Len(schema) + 1
    /\ asked # 0 => asked = Len(schema) + 1

IInv == MigrationsTypeOK /\ AppliedInOrder /\ ServesCurrentSchema /\ WorkersKeepUp

\* A migration takes effect after those before it, and then the list says so.
LEMMA OneMoreMigration ==
    ASSUME schema \in Seq(Nat), listed \subseteq Nat, AppliedInOrder,
           TakeEffect(Len(schema) + 1)
    PROVE  /\ schema' \in Seq(Nat) /\ listed' \subseteq Nat
           /\ Len(schema') = Len(schema) + 1
           /\ AppliedInOrder'
  BY DEF AppliedInOrder, TakeEffect

LEMMA InitEstablishes == MigrationsInit => IInv
  BY MigrationsAssumption
  DEF MigrationsInit, IInv, MigrationsTypeOK, AppliedInOrder, ServesCurrentSchema, WorkersKeepUp,
      Holds

LEMMA StepPreserves == IInv /\ [MigrationsNext]_migrationVars => IInv'
<1> SUFFICES ASSUME IInv, [MigrationsNext]_migrationVars PROVE IInv'
  OBVIOUS
<1> USE MigrationsAssumption
<1> USE DEF IInv, MigrationsTypeOK, Holds
<1>1. ASSUME NEW p \in Processes, Start(p) PROVE IInv'
  BY <1>1 DEF Start, Enter, AppliedInOrder, ServesCurrentSchema, WorkersKeepUp
<1>2. ASSUME NEW p \in Processes, Lock(p) PROVE IInv'
  BY <1>2 DEF Lock, Enter, AppliedInOrder, ServesCurrentSchema, WorkersKeepUp
<1>3. ASSUME NEW p \in Processes, Look(p) PROVE IInv'
  <2>1. UNCHANGED <<schema, listed, holder, asked>>
    BY <1>3 DEF Look
  <2>2. AppliedInOrder'
    BY <2>1 DEF AppliedInOrder
  <2>3. CASE next[p] \in listed
    <3>1. next[p] > 0 /\ next[p] <= Len(schema)
      BY <2>3 DEF AppliedInOrder
    <3>2. next' = [next EXCEPT ![p] = @ + 1] /\ UNCHANGED phase
      BY <1>3, <2>3 DEF Look
    <3>3. WorkersKeepUp'
      BY <1>3, <2>1, <3>1, <3>2 DEF Look, WorkersKeepUp
    <3> QED BY <2>1, <2>2, <3>2, <3>3 DEF ServesCurrentSchema
  <2>4. CASE next[p] \notin listed
    <3>1. phase[p] = "looking" /\ Enter(p, "applying") /\ UNCHANGED next
      BY <1>3, <2>4 DEF Look
    <3>2. next[p] = Len(schema) + 1
      BY <2>4, <3>1 DEF AppliedInOrder, WorkersKeepUp
    <3>3. WorkersKeepUp'
      BY <2>1, <3>1, <3>2 DEF Enter, WorkersKeepUp
    <3> QED BY <2>1, <2>2, <3>1, <3>3 DEF Enter, ServesCurrentSchema
  <2> QED BY <2>3, <2>4
<1>4. ASSUME NEW p \in Processes, Apply(p) PROVE IInv'
  BY <1>4 DEF Apply, Enter, AppliedInOrder, ServesCurrentSchema, WorkersKeepUp
<1>5. ASSUME NEW p \in Processes, Commit(p) PROVE IInv'
  <2>1. TakeEffect(Len(schema) + 1)
    BY <1>5 DEF Commit, WorkersKeepUp
  <2>2. /\ schema' \in Seq(Nat) /\ listed' \subseteq Nat
        /\ Len(schema') = Len(schema) + 1
        /\ AppliedInOrder'
    BY <2>1, OneMoreMigration
  <2>3. asked = 0
    BY <1>5 DEF Commit
  <2>4. \A q \in Processes : Holds(q) => q = p
    BY <1>5 DEF Commit
  <2>5. MigrationsTypeOK'
    BY <1>5, <2>2, <2>3 DEF Commit, Enter
  <2>6. ServesCurrentSchema'
    BY <1>5, <2>2 DEF Commit, Enter, ServesCurrentSchema
  <2>7. WorkersKeepUp'
    BY <1>5, <2>2, <2>3, <2>4 DEF Commit, Enter, WorkersKeepUp
  <2> QED BY <2>2, <2>5, <2>6, <2>7
<1>6. ASSUME NEW p \in Processes, Unlock(p) PROVE IInv'
  BY <1>6 DEF Unlock, Enter, Done, AppliedInOrder, ServesCurrentSchema,
              WorkersKeepUp
<1>7. ASSUME NEW p \in Processes, Die(p) PROVE IInv'
  BY <1>7 DEF Die, Enter, AppliedInOrder, ServesCurrentSchema, WorkersKeepUp
<1>8. CASE LateCommit
  <2>1. TakeEffect(Len(schema) + 1)
    BY <1>8 DEF LateCommit, WorkersKeepUp
  <2>2. /\ schema' \in Seq(Nat) /\ listed' \subseteq Nat
        /\ Len(schema') = Len(schema) + 1
        /\ AppliedInOrder'
    BY <2>1, OneMoreMigration
  <2>3. holder = DeadSession
    BY <1>8 DEF LateCommit
  <2>4. MigrationsTypeOK'
    BY <1>8, <2>2 DEF LateCommit
  <2>5. ServesCurrentSchema'
    BY <1>8, <2>2 DEF LateCommit, ServesCurrentSchema
  <2>6. WorkersKeepUp'
    BY <1>8, <2>2, <2>3 DEF LateCommit, WorkersKeepUp
  <2> QED BY <2>2, <2>4, <2>5, <2>6
<1>9. CASE EndSession
  BY <1>9 DEF EndSession, AppliedInOrder, ServesCurrentSchema, WorkersKeepUp
<1>10. CASE UNCHANGED migrationVars
  BY <1>10 DEF migrationVars, AppliedInOrder, ServesCurrentSchema, WorkersKeepUp
<1> QED
  BY <1>1, <1>2, <1>3, <1>4, <1>5, <1>6, <1>7, <1>8, <1>9, <1>10
  DEF MigrationsNext, Proceed

LEMMA Invariance == MigrationsSpec => []IInv
  BY InitEstablishes, StepPreserves, PTL DEF MigrationsSpec

\* The types, and that the lock is held by exactly one process at work or by a
\* dead session.
THEOREM TypeCorrect == MigrationsSpec => []MigrationsTypeOK
  BY Invariance, PTL DEF IInv

\* However many processes start together and wherever they die, migrations take
\* effect in order and once, and schema_migrations tells the truth.
THEOREM MigrationsAlwaysInOrder == MigrationsSpec => []AppliedInOrder
  BY Invariance, PTL DEF IInv

\* Nobody serves on a schema older than his code.
THEOREM SchemaAlwaysCurrent == MigrationsSpec => []ServesCurrentSchema
  BY Invariance, PTL DEF IInv
=============================================================================
