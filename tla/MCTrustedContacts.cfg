SPECIFICATION Spec
CONSTANTS
    u1 = u1
    u2 = u2
    e1 = e1
    e2 = e2
    Users = {u1, u2}
    Emails = {e1}
    AccountOf <- Accounts
    Ids = {i1, i2}
    Requests = {q1, q2}
    Null = Null
SYMMETRY Symmetry
CHECK_DEADLOCK FALSE
INVARIANTS
    TypeOK
PROPERTIES
    EndedStaysEnded
    EndingDropsKey
    KeepsLedger
