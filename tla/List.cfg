SPECIFICATION Spec
CONSTANTS
    User = {a1, ta}
    Tenant = {t1, t2}
    Conv = {1, 2, 3}
    Limit = 2
    None = None
    ta = ta
    a1 = a1
    t1 = t1
    RoleOf <- MCRoleOf
    TenantOf <- MCTenantOf
INVARIANTS
    TypeOK
    WalkMissesNothing
    PageMatchesTotal
    ListedInScope
