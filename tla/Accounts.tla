------------------------------ MODULE Accounts ------------------------------
(***************************************************************************)
(* AuthService, the JWT strategies, the creation of tenants and the        *)
(* deactivation of users and tenants: requests interleaved at their awaits *)
(* over the tables users and tenants.  An element of Req is one HTTP       *)
(* request; the tokens it is answered with bear its name.  Tokens do not   *)
(* expire here (access tokens live 15 minutes, refresh tokens 7 days).     *)
(***************************************************************************)
EXTENDS Naturals, FiniteSets

CONSTANTS Account,  \* users.id
          Tenant,   \* tenants.id
          Email, Name, Slug, Req,
          None      \* SQL NULL

ASSUME NoneIsNothing == None \notin UNION {Account, Tenant, Email, Name, Slug, Req}

Role == {"SuperAdmin", "TenantAdmin", "Agent"}

VARIABLES row,       \* the table users
          company,   \* the table tenants
          pc,        \* where a request is
          req,       \* what it asks and whom it found to be asking
          before     \* the requests that were answered before it came in

vars == <<row, company, pc, req, before>>

(* A row of users; refreshToken is the token whose hash is stored.         *)
Row == [email : Email, tenant : Tenant \cup {None}, role : Role,
        isActive : BOOLEAN, refreshToken : Req \cup {None}]
NoRow == [email |-> None]
Exists(a) == row[a] # NoRow

Company   == [name : Name, slug : Slug, isActive : BOOLEAN]
NoCompany == [name |-> None]
Founded(t) == company[t] # NoCompany
Active(t)  == Founded(t) /\ company[t].isActive

Issuing  == {"comparing", "issuing"}
Waiting  == {"checkingEmail", "inserting", "findingUser", "signingOut", "finding",
             "deactivating", "deactivatingTenant", "checkingTenant", "insertingTenant"}
            \cup Issuing
Success  == {"issued", "signedOut", "deactivated", "tenantDeactivated", "tenantCreated"}
Answered == Success \cup {"refused", "failed"}

NoRequest ==
  [kind |-> "none", account |-> None, email |-> None, tenant |-> None,
   role |-> None, token |-> None, target |-> None, name |-> None, slug |-> None]

Start(p, phase, r) ==
  /\ pc[p] = "new"
  /\ pc' = [pc EXCEPT ![p] = phase]
  /\ req' = [req EXCEPT ![p] = r]
  /\ before' = [before EXCEPT ![p] = {q \in Req : pc[q] \in Answered}]

Proceed(p, from, to) ==
  /\ pc[p] = from
  /\ pc' = [pc EXCEPT ![p] = to]
  /\ UNCHANGED before

(* WHERE email = ... AND tenant_id = ... (or IS NULL)                      *)
Registered(e, t) == {a \in Account : Exists(a) /\ row[a].email = e /\ row[a].tenant = t}

(***************************************************************************)
(* POST /auth/sign-up                                                      *)
(***************************************************************************)

(* Without a tenant only a super admin passes; the tenant of anybody else  *)
(* has to be active, that of a super admin is not looked up.               *)
StartSignUp(p, e, t, r) ==
  /\ Start(p, IF r = "SuperAdmin" \/ (t # None /\ Active(t))
                THEN "checkingEmail" ELSE "refused",
           [NoRequest EXCEPT !.kind = "signUp", !.email = e, !.tenant = t, !.role = r])
  /\ UNCHANGED <<row, company>>

CheckEmail(p) ==
  /\ Proceed(p, "checkingEmail",
             IF Registered(req[p].email, req[p].tenant) # {} THEN "refused" ELSE "inserting")
  /\ UNCHANGED <<row, company, req>>

(* Mutant of Conflicts: no unique index on (tenant_id, email).             *)
ConflictsNever(e, t) == FALSE

(* The unique index on (tenant_id, email); NULLs are distinct to it.       *)
Conflicts(e, t) == t # None /\ Registered(e, t) # {}

(* Mutant of Dangling: no foreign key to tenants.                          *)
DanglingNever(t) == FALSE

(* The foreign key to tenants: nobody looked up the tenant of a super      *)
(* admin.                                                                  *)
Dangling(t) == t # None /\ ~Founded(t)

Insert(p, a) ==
  /\ ~Exists(a)
  /\ ~Conflicts(req[p].email, req[p].tenant)
  /\ ~Dangling(req[p].tenant)
  /\ Proceed(p, "inserting", "issuing")
  /\ row' = [row EXCEPT ![a] =
       [email |-> req[p].email, tenant |-> req[p].tenant, role |-> req[p].role,
        isActive |-> TRUE, refreshToken |-> None]]
  /\ req' = [req EXCEPT ![p].account = a]
  /\ UNCHANGED company

(* The schema refuses the INSERT: an error no handler expects (500).       *)
InsertRejected(p) ==
  /\ Conflicts(req[p].email, req[p].tenant) \/ Dangling(req[p].tenant)
  /\ Proceed(p, "inserting", "failed")
  /\ UNCHANGED <<row, company, req>>

(***************************************************************************)
(* POST /auth/sign-in                                                      *)
(***************************************************************************)

(* Mutant of Admits: the tenant need not be active.                        *)
AdmitsAll(slug) == {t \in Tenant : Founded(t) /\ company[t].slug = slug}

(* WHERE slug = ... AND is_active                                          *)
Admits(slug) == {t \in Tenant : Active(t) /\ company[t].slug = slug}

(* Without a slug the user is looked for among those without a tenant.     *)
StartSignIn(p, e, slug) ==
  /\ \/ \E t \in IF slug = None THEN {None} ELSE Admits(slug) :
          Start(p, "findingUser", [NoRequest EXCEPT !.kind = "signIn", !.email = e, !.tenant = t])
     \/ /\ slug # None /\ Admits(slug) = {}
        /\ Start(p, "refused", [NoRequest EXCEPT !.kind = "signIn", !.email = e])
  /\ UNCHANGED <<row, company>>

(* getOne takes one of the rows found.                                     *)
FindUser(p, a) ==
  /\ a \in Registered(req[p].email, req[p].tenant)
  /\ Proceed(p, "findingUser", IF row[a].isActive THEN "comparing" ELSE "refused")
  /\ req' = [req EXCEPT ![p].account = a]
  /\ UNCHANGED <<row, company>>

FindNobody(p) ==
  /\ Registered(req[p].email, req[p].tenant) = {}
  /\ Proceed(p, "findingUser", "refused")
  /\ UNCHANGED <<row, company, req>>

(* bcrypt.compare of the password: right or wrong.                         *)
Compare(p) ==
  /\ \E phase \in {"issuing", "refused"} : Proceed(p, "comparing", phase)
  /\ UNCHANGED <<row, company, req>>

(***************************************************************************)
(* GET /auth/refresh                                                       *)
(***************************************************************************)

(* bcrypt.compare of a token with a stored hash.  bcrypt takes 72 bytes;   *)
(* those of a refresh token are its header and the first half of its       *)
(* subject, the same in all tokens of one user.                            *)
Matches(token, stored) == req[token].account = req[stored].account

(* Mutant of RefreshAllowed: the strategy does not read is_active.         *)
RefreshAllowedInactive(a, token) ==
  row[a].refreshToken # None /\ Matches(token, row[a].refreshToken)

(* JwtRefreshStrategy.validate, on the row of the token's subject.         *)
RefreshAllowed(a, token) ==
  /\ row[a].isActive
  /\ row[a].refreshToken # None
  /\ Matches(token, row[a].refreshToken)

StartRefresh(p, token) ==
  LET a == req[token].account
  IN /\ pc[token] = "issued"
     /\ Start(p, IF RefreshAllowed(a, token) THEN "issuing" ELSE "refused",
              [NoRequest EXCEPT !.kind = "refresh", !.account = a, !.token = token])
     /\ UNCHANGED <<row, company>>

(* Mutant of StoreRefreshToken: the UPDATE has no WHERE clause.            *)
StoreRefreshTokenEverywhere(p) ==
  /\ Proceed(p, "issuing", "issued")
  /\ row' = [a \in Account |->
               IF Exists(a) THEN [row[a] EXCEPT !.refreshToken = p] ELSE row[a]]
  /\ UNCHANGED <<company, req>>

(* generateTokens, bcrypt.hash and the UPDATE of storeRefreshToken, then   *)
(* the answer: the end of sign-up, sign-in and refresh.                    *)
StoreRefreshToken(p) ==
  /\ Proceed(p, "issuing", "issued")
  /\ row' = [row EXCEPT ![req[p].account].refreshToken = p]
  /\ UNCHANGED <<company, req>>

(***************************************************************************)
(* Requests with an access token                                           *)
(***************************************************************************)

(* JwtAccessStrategy.validate: the subject exists and is active.           *)
Authenticated(a) == row[a].isActive

(* GET /auth/sign-out                                                      *)
StartSignOut(p, token) ==
  LET a == req[token].account
  IN /\ pc[token] = "issued"
     /\ Start(p, IF Authenticated(a) THEN "signingOut" ELSE "refused",
              [NoRequest EXCEPT !.kind = "signOut", !.account = a, !.token = token])
     /\ UNCHANGED <<row, company>>

(* Mutant of SignOut: nothing is stored.                                   *)
SignOutForgets(p) ==
  /\ Proceed(p, "signingOut", "signedOut")
  /\ UNCHANGED <<row, company, req>>

SignOut(p) ==
  /\ Proceed(p, "signingOut", "signedOut")
  /\ row' = [row EXCEPT ![req[p].account].refreshToken = None]
  /\ UNCHANGED <<company, req>>

(* PATCH /users/:id/deactivate                                             *)
StartDeactivate(p, token, target) ==
  LET a == req[token].account
  IN /\ pc[token] = "issued"
     /\ Start(p, IF Authenticated(a) /\ row[a].role \in {"SuperAdmin", "TenantAdmin"}
                   THEN "finding" ELSE "refused",
              [NoRequest EXCEPT !.kind = "deactivate", !.account = a, !.token = token,
                                !.target = target])
     /\ UNCHANGED <<row, company>>

(* A tenant admin may deactivate the users of its tenant only.             *)
MayDeactivate(a, target) ==
  /\ Exists(target)
  /\ row[a].role = "TenantAdmin" => row[target].tenant = row[a].tenant

Find(p) ==
  /\ Proceed(p, "finding",
             IF MayDeactivate(req[p].account, req[p].target) THEN "deactivating" ELSE "refused")
  /\ UNCHANGED <<row, company, req>>

Deactivate(p) ==
  /\ Proceed(p, "deactivating", "deactivated")
  /\ row' = [row EXCEPT ![req[p].target].isActive = FALSE]
  /\ UNCHANGED <<company, req>>

(* PATCH /tenants/:id/deactivate, for super admins.                        *)
StartDeactivateTenant(p, token, t) ==
  LET a == req[token].account
  IN /\ pc[token] = "issued"
     /\ Start(p, IF Authenticated(a) /\ row[a].role = "SuperAdmin"
                   THEN "deactivatingTenant" ELSE "refused",
              [NoRequest EXCEPT !.kind = "deactivateTenant", !.account = a,
                                !.token = token, !.tenant = t])
     /\ UNCHANGED <<row, company>>

(* findOne and save: only is_active differs, and nothing but this writes   *)
(* a tenant that is there.                                                 *)
DeactivateTenant(p) ==
  LET t == req[p].tenant
  IN /\ Proceed(p, "deactivatingTenant", IF Founded(t) THEN "tenantDeactivated" ELSE "refused")
     /\ company' = IF Founded(t) THEN [company EXCEPT ![t].isActive = FALSE] ELSE company
     /\ UNCHANGED <<row, req>>

(* POST /tenants, for super admins.                                        *)
StartCreateTenant(p, token, name, slug) ==
  LET a == req[token].account
  IN /\ pc[token] = "issued"
     /\ Start(p, IF Authenticated(a) /\ row[a].role = "SuperAdmin"
                   THEN "checkingTenant" ELSE "refused",
              [NoRequest EXCEPT !.kind = "createTenant", !.account = a, !.token = token,
                                !.name = name, !.slug = slug])
     /\ UNCHANGED <<row, company>>

(* WHERE name = ... OR slug = ...                                          *)
Taken(name, slug) ==
  \E t \in Tenant : Founded(t) /\ (company[t].name = name \/ company[t].slug = slug)

CheckTenant(p) ==
  /\ Proceed(p, "checkingTenant",
             IF Taken(req[p].name, req[p].slug) THEN "refused" ELSE "insertingTenant")
  /\ UNCHANGED <<row, company, req>>

(* The unique indexes on name and on slug.                                 *)
Clashes(name, slug) == Taken(name, slug)

InsertTenant(p, t) ==
  /\ ~Founded(t)
  /\ ~Clashes(req[p].name, req[p].slug)
  /\ Proceed(p, "insertingTenant", "tenantCreated")
  /\ company' = [company EXCEPT ![t] =
       [name |-> req[p].name, slug |-> req[p].slug, isActive |-> TRUE]]
  /\ UNCHANGED <<row, req>>

(* The loser of a race: 500 instead of the 409 of CheckTenant.             *)
InsertTenantRejected(p) ==
  /\ Clashes(req[p].name, req[p].slug)
  /\ Proceed(p, "insertingTenant", "failed")
  /\ UNCHANGED <<row, company, req>>

(***************************************************************************)

(* The await rejects; what was stored before stays.                        *)
Fail(p) ==
  /\ pc[p] \in Waiting
  /\ pc' = [pc EXCEPT ![p] = "failed"]
  /\ UNCHANGED <<row, company, req, before>>

(* The seeder leaves tenants, a super admin without one and users of them. *)
SeededRow(r) ==
  \/ r = NoRow
  \/ /\ r.isActive /\ r.refreshToken = None
     /\ r.role = "SuperAdmin" <=> r.tenant = None
     /\ r.tenant # None => Founded(r.tenant)

Init ==
  /\ company \in {f \in [Tenant -> Company \cup {NoCompany}] :
                    \A t, u \in Tenant :
                      f[t] # NoCompany =>
                        /\ f[t].isActive
                        /\ t # u /\ f[u] # NoCompany =>
                             f[t].name # f[u].name /\ f[t].slug # f[u].slug}
  /\ row \in {f \in [Account -> Row \cup {NoRow}] :
                /\ \A a \in Account : SeededRow(f[a])
                /\ \A a, b \in Account :
                     a # b /\ f[a] # NoRow /\ f[b] # NoRow =>
                       <<f[a].email, f[a].tenant>> # <<f[b].email, f[b].tenant>>}
  /\ pc = [p \in Req |-> "new"]
  /\ req = [p \in Req |-> NoRequest]
  /\ before = [p \in Req |-> {}]

Receive(p) ==
  \/ \E e \in Email :
       \/ \E slug \in Slug \cup {None} : StartSignIn(p, e, slug)
       \/ \E t \in Tenant \cup {None}, r \in Role : StartSignUp(p, e, t, r)
  \/ \E token \in Req :
       \/ StartRefresh(p, token)
       \/ StartSignOut(p, token)
       \/ \E a \in Account : StartDeactivate(p, token, a)
       \/ \E t \in Tenant : StartDeactivateTenant(p, token, t)
       \/ \E name \in Name, slug \in Slug : StartCreateTenant(p, token, name, slug)

Serve(p) ==
  \/ CheckEmail(p) \/ InsertRejected(p) \/ (\E a \in Account : Insert(p, a) \/ FindUser(p, a))
  \/ FindNobody(p) \/ Compare(p) \/ StoreRefreshToken(p)
  \/ SignOut(p) \/ Find(p) \/ Deactivate(p) \/ DeactivateTenant(p)
  \/ CheckTenant(p) \/ InsertTenantRejected(p) \/ (\E t \in Tenant : InsertTenant(p, t))

Idle == (\A p \in Req : pc[p] \notin Waiting) /\ UNCHANGED vars

Next == (\E p \in Req : Receive(p) \/ Serve(p) \/ Fail(p)) \/ Idle

Spec == Init /\ [][Next]_vars

(***************************************************************************)
(* Properties                                                              *)
(***************************************************************************)

(* Every variable has the shape its declaration says; the stored refresh   *)
(* token is one that was made for the account it is stored with.           *)
TypeOK ==
  /\ row \in [Account -> Row \cup {NoRow}]
  /\ company \in [Tenant -> Company \cup {NoCompany}]
  /\ pc \in [Req -> {"new"} \cup Waiting \cup Answered]
  /\ before \in [Req -> SUBSET Req]
  /\ \A a \in Account :
       Exists(a) /\ row[a].refreshToken # None => req[row[a].refreshToken].account = a

(* Two sign-ups that both found an e-mail address free do not both get it  *)
(* in one tenant.                                                          *)
OneAccountPerEmail ==
  \A e \in Email, t \in Tenant : Cardinality(Registered(e, t)) <= 1

(* Two super admins who create a tenant of one name or one slug at a time  *)
(* do not both get it: a slug is what users sign in with.                  *)
TenantsAreDistinct ==
  \A t, u \in Tenant :
    t # u /\ Founded(t) /\ Founded(u) =>
      company[t].name # company[u].name /\ company[t].slug # company[u].slug

(* Once the deactivation of an account is answered, no request that comes  *)
(* in for it succeeds: not with its password, not with any token it was    *)
(* given, nor does a request still on its way activate it again.           *)
DeactivationIsFinal ==
  \A p, q \in Req :
    /\ pc[p] = "deactivated" /\ p \in before[q]
    /\ req[q].account = req[p].target
    => pc[q] \notin Success

(* Once the deactivation of a tenant is answered, no request that comes in *)
(* signs up (but super admins) or signs in to it.                          *)
ClosedTenantAdmitsNobody ==
  \A p, q \in Req :
    /\ pc[p] = "tenantDeactivated" /\ p \in before[q]
    /\ req[q].kind \in {"signUp", "signIn"} /\ req[q].tenant = req[p].tenant
    => pc[q] # "issued" \/ req[q].role = "SuperAdmin"

(* A refresh that comes in after the answer to a sign-out is accepted only *)
(* if a request that was not answered yet when the sign-out came in has    *)
(* been answered with tokens since.  No more can be promised: once the     *)
(* account has signed in again, every refresh token it was ever given is   *)
(* accepted again (Matches), also those the sign-out was to end.           *)
SignOutEndsSessions ==
  \A p, q \in Req :
    /\ pc[p] = "signedOut" /\ p \in before[q]
    /\ req[q].kind = "refresh" /\ pc[q] \in {"issuing", "issued"}
    /\ req[q].account = req[p].account
    => \E s \in before[q] \ before[p] :
         pc[s] = "issued" /\ req[s].account = req[p].account

(***************************************************************************)
(* What the repository says and the code does not keep (see README)        *)
(***************************************************************************)

(* Sign-out makes "the refresh token permanently invalid": once it is      *)
(* answered, the account has no stored refresh token unless it signed in   *)
(* again.  A refresh request that was validated before stores a new one.   *)
SignOutSticks ==
  \A p \in Req :
    pc[p] = "signedOut" =>
      LET stored == row[req[p].account].refreshToken
      IN stored = None \/ req[stored].kind # "refresh" \/ p \in before[stored]
=============================================================================
