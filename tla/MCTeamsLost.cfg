CONSTANTS
    Users = {sup, ann}
    Teams = {t1, t2}
    NoTeam = NoTeam
    TeamMembers = {ann}
    TeamSupervisors = {sup}
    Slots = {r1, r2}
    Operations = {"Add"}
    Indexed = TRUE
    Failing = {"Add"}
    MaxMemberships = 3
    MaxSupervisions = 0
SPECIFICATION Spec
CHECK_DEADLOCK FALSE
INVARIANTS
    NeverTeamless
