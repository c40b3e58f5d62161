CONSTANTS
    adm = adm
    sup = sup
    lead = lead
    ann = ann
    bob = bob
    req = req
    c1 = c1
    c2 = c2
    Users = {adm, sup, lead, ann, bob, req}
    NoUser = NoUser
    Contents = {c1, c2}
    NoContent = NoContent
    WorkItems = {w1}
    Teams = {t1}
    NoTeam = NoTeam
    TeamMembers = {ann, bob, req}
    TeamSupervisors = {sup, lead}
    Principals <- Everybody
    Reasons = {TRUE, FALSE}
    MaxStatusHistory = 8
    MaxAttachments = 1
SPECIFICATION CastSpec
INVARIANTS
    TypeOK
    HistoryIsPath
    AssignmentsAgree
    AcceptedIsPastAssignment
    OthersItemsAreNotAdopted
    ReviewedWithEvidence
    FlaggedWorkIsReworked
    NewsReachesTheRightPerson
PROPERTIES
    TerminalIsFinal
    AcceptedAssigneeKeepsWork
    AssigneesActOnTheirOffer
