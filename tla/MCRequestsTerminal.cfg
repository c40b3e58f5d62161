CONSTANTS
    adm = adm
    sup = sup
    ann = ann
    Users = {adm, ann}
    NoUser = NoUser
    Contents = {c1}
    NoContent = NoContent
    WorkItems = {w1}
    Teams = {t1}
    NoTeam = NoTeam
    TeamMembers = {}
    TeamSupervisors = {}
    Principals <- PairPrincipals
    Reasons = {TRUE}
    MaxStatusHistory = 3
    MaxAttachments = 1
    Slots = {r1, r2}
    Settings <- OnlyMoves
SPECIFICATION Spec
SYMMETRY SlotSymmetry
PROPERTIES
    NothingMovesFromTerminal
