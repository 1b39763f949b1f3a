SPECIFICATION FairPlatformSpec
CONSTANTS
    User = {ta}
    Tenant = {t1}
    Conv = {c1}
    Req = {r1, r2}
    NotNullFk = TRUE
    None = None
    Job = {r1, r2}
    Worker = {w1, w2}
    Nobody = Nobody
    Attempts = 2
    MaxStalled = 1
    a1 = a1
    ta = ta
    t1 = t1
    r1 = r1
    w1 = w1
    w2 = w2
    RoleOf <- MCRoleOf
    TenantOf <- MCTenantOf
    ServedBy <- MCServedBy
PROPERTIES
    ImplementsConversations
    ImplementsQueue
    AnsweredIsNotified
INVARIANTS
    AnswersAreDurable
