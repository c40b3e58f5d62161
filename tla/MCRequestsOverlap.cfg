CONSTANTS
    adm = adm
    sup = sup
    ann = ann
    Users = {adm, ann}
    NoUser = NoUser
    Contents = {c1}
    NoContent = NoContent
    WorkItems = {w1}
    Teams = {t1}
    NoTeam = NoTeam
    TeamMembers = {}
    TeamSupervisors = {}
    Principals <- PairPrincipals
    Reasons = {TRUE}
    MaxStatusHistory = 5
    MaxAttachments = 1
    Slots = {r1, r2}
    Settings <- Overlapping
SPECIFICATION Spec
SYMMETRY SlotSymmetry
INVARIANTS
    TypeOK
    NoStatusFromNowhere
    RowsShowLastRecord
    BooksBalance
    HoldersWereOffered
    ReviewedWithEvidence
