SPECIFICATION FairSpec
CONSTANTS
    User = {a1, ta, sa}
    Tenant = {t1, t2}
    Conv = {c1}
    Req = {r1, r2, r3}
    NotNullFk = TRUE
    None = None
    a1 = a1
    a2 = a2
    ta = ta
    sa = sa
    t1 = t1
    t2 = t2
    RoleOf <- MCRoleOf
    TenantOf <- MCTenantOf
INVARIANTS
    TypeOK
    IInv
    SingleGrant
    GrantIsHonoured
    ClaimDecisionStillValid
    EffectsFollowResolution
    TenantIsolation
PROPERTIES
    ResolvedIsFinal
    NotesAreKept
    ImplementsLifecycle
    ImplementsTable
    RequestsFinish
