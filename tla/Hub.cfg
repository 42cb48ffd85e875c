SPECIFICATION Spec
CONSTANTS
    r1 = r1
    r2 = r2
    r3 = r3
    post = post
    role1 = role1
    role2 = role2
    h1 = h1
    h2 = h2
    NoRequest = NoRequest
    Requests <- FewRequests
    Keys <- ThreeKeys
    RoleKeys <- TwoRoleKeys
    Hashes <- TwoHashes
    Calls <- Mixes
    MaxEntries = 1
    MAX_ATTEMPTS = 2
    MaxRestarts = 1
INVARIANTS
    TypeOK
    OncePerKey
    AnswerIsOurs
    NothingLeaks
    RoleOnce
PROPERTIES
    EverybodyLeaves
CHECK_DEADLOCK FALSE
