SPECIFICATION Spec
CONSTANTS
    Account = {u1}
    Email = {e1}
    Tenant = {t1}
    Name = {n1}
    Slug = {s1}
    Req = {r1, r2, r3}
    None = None
INVARIANTS
    SignOutSticks
