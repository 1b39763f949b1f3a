SPECIFICATION FairSpec
CONSTANTS
    User = {ta, a1, sa}
    Tenant = {t1, t2}
    Reader = {r1, r2}
    Ttl = 2
    Slow = 1
    MaxMessages = 1
    None = None
    ta = ta
    a1 = a1
    sa = sa
    t1 = t1
    t2 = t2
    RoleOf <- MCRoleOf
    TenantOf <- MCTenantOf
PROPERTIES
    StaleIsDropped
INVARIANTS
    TypeOK
    ScopedAnswers
    BoundedStaleness
