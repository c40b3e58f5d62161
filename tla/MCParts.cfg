CONSTANTS
    Users = {sup, ann}
    Teams = {t1, t2}
    NoTeam = NoTeam
    TeamMembers = {ann}
    TeamSupervisors = {sup}
    Slots = {r1, r2}
    Operations = {"Add", "Supervise", "Remove", "Check"}
    Indexed = TRUE
    Failing = {"Remove", "Check"}
    MaxMemberships = 3
    MaxSupervisions = 3
    p1 = p1
    p2 = p2
    p3 = p3
    Processes = {p1, p2, p3}
    Newest <- RollingUpgrade
    NoProcess = NoProcess
    DeadSession = DeadSession
    Recipients = {ann, bob}
    ReadSlots = {r1, r2}
    ReadsMayFail = TRUE
    MaxNotifications = 2
    MaxTime = 3
    UploadSlots = {r1, r2}
    FileNames = {photo, form}
    Suffixes = {x1, x2, x3}
    NoFile = NoFile
    MaxUploads = 3
    Identifiers = {root, ann, bob}
    Subjects = {g1, g2}
    NoSubject = NoSubject
    KnownTeams = {t1}
    NoTeamId = NoTeam
    UnknownTeam = t0
    Seeded = {root}
    AccountSlots = {r1, r2}
    FailingRoutes = {"SignUp", "Google"}
    MaxAccounts = 4
SPECIFICATION PartsSpec
CHECK_DEADLOCK FALSE
INVARIANTS
    OneActiveTeam
    NeverTeamless
    AppliedInOrder
    ServesCurrentSchema
    
    EvidenceIsThere
    AccountsAreDistinct
    CodesWereSent
    NoOrphans
PROPERTIES
    RemovalIsComplete
    YesWasTrueOnce
    ImplementsDirectory
    EveryStartEnds
