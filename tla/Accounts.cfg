SPECIFICATION Spec
CONSTANTS
    Account = {u1, u2}
    Email = {e1}
    Tenant = {t1, t2}
    Name = {n1, n2}
    Slug = {s1, s2}
    Req = {r1, r2, r3}
    None = None
SYMMETRY Symmetry
INVARIANTS
    TypeOK
    OneAccountPerEmail
    DeactivationIsFinal
    ClosedTenantAdmitsNobody
    SignOutEndsSessions
PROPERTIES
    ImplementsDirectory
