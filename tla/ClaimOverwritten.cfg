SPECIFICATION Spec
CONSTANTS
    User = {a1, a2, ta}
    Tenant = {t1}
    Conv = {c1}
    Req = {r1, r2}
    NotNullFk = TRUE
    None = None
    a1 = a1
    a2 = a2
    ta = ta
    sa = sa
    t1 = t1
    t2 = t2
    RoleOf <- MCRoleOf
    TenantOf <- MCTenantOf
PROPERTIES
    AssignmentIsKept
