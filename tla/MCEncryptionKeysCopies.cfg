SPECIFICATION Spec
CONSTANTS
    o = o
    c = c
    Accounts = {o, c}
    Owner = o
    MaxVersion = 2
    Devices <- DevicesOf
    MaxKeys <- KeysOfVersion
    MaxGen = 2
    Requests = {q1, q2}
    Null = Null
CHECK_DEADLOCK FALSE
PROPERTIES
    CopiesFollowKeys
