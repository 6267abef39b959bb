SPECIFICATION MCSpec
CONSTANTS
    e1 = e1
    e2 = e2
    e3 = e3
    m1 = m1
    f1 = f1
    f2 = f2
    f3 = f3
    FreeEntries = 1
    StorageMb <- Storage
    IndividualContacts = 1
    FamilyProfiles = 4
    Owner = owner
    Contacts = {c1}
    Ids = {e1, e2, e3, m1}
    KindOf <- KindOfId
    Keys = {a}
    Requests = {q1, q2}
    TiersSeen = {"free", "individual", "family"}
    Null = Null
    FileIds = {f1, f2, f3}
    FileRequests = {r1, r2}
    Multipart = {f2}
    SizeMb = 2
SYMMETRY Symmetry
CHECK_DEADLOCK FALSE
PROPERTY ObjectsGoByEditors
