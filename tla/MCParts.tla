------------------------------- MODULE MCParts -------------------------------
(***************************************************************************)
(* Small instances of the parts of the server that share no state, for     *)
(* TLC. Each behaviour is one of one part, chosen at the start, in which   *)
(* the others stand still: as they have no variable in common, no property *)
(* of one part depends on what another does.                               *)
(***************************************************************************)
EXTENDS TeamRequests, Migrations, NotificationReads, Uploads, Provisioning, TLC

CONSTANTS p1, p2, p3   \* processes

\* Two processes of a new binary and one of the binary before it.
RollingUpgrade == (p1 :> 2) @@ (p2 :> 3) @@ (p3 :> 3)

VARIABLE part   \* the part that is looked at

PartsInit ==
    /\ part \in {"teams", "migrations", "reads", "uploads", "provisioning"}
    /\ Init
    /\ MigrationsInit
    /\ ReadsInit
    /\ UploadsInit
    /\ ProvisioningInit

Alone(p) ==
    /\ part = p
    /\ p # "teams" => UNCHANGED vars
    /\ p # "migrations" => UNCHANGED migrationVars
    /\ p # "reads" => UNCHANGED readsVars
    /\ p # "uploads" => UNCHANGED uploadVars
    /\ p # "provisioning" => UNCHANGED provisioningVars
    /\ UNCHANGED part

PartsNext ==
    \/ Next /\ Alone("teams")
    \/ MigrationsNext /\ Alone("migrations")
    \/ ReadsNext /\ Alone("reads")
    \/ UploadsNext /\ Alone("uploads")
    \/ ProvisioningNext /\ Alone("provisioning")

partsVars ==
    <<vars, migrationVars, readsVars, uploadVars, provisioningVars, part>>

PartsSpec == PartsInit /\ [][PartsNext]_partsVars /\ MigrationsFairness
=============================================================================
