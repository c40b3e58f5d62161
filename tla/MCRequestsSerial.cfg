CONSTANTS
    adm = adm
    sup = sup
    ann = ann
    Users = {sup, ann}
    NoUser = NoUser
    Contents = {c1}
    NoContent = NoContent
    WorkItems = {w1, w2}
    Teams = {t1}
    NoTeam = NoTeam
    TeamMembers = {ann}
    TeamSupervisors = {sup}
    Principals <- TeamPrincipals
    Reasons = {TRUE}
    MaxStatusHistory = 2
    MaxAttachments = 1
    Slots = {r1, r2}
    Settings <- Serial
SPECIFICATION Spec
SYMMETRY SlotSymmetry
PROPERTIES
    ImplementsLifecycle
