--------------------------- MODULE AccountsProofs ---------------------------
(***************************************************************************)
(* Proofs about Accounts for every set of accounts, tenants and requests.  *)
(***************************************************************************)
EXTENDS AccountsRefinement, FiniteSetTheorems, TLAPS

(***************************************************************************)
(* The inductive invariant                                                 *)
(***************************************************************************)

Kind == {"none", "signUp", "signIn", "refresh", "signOut", "deactivate",
         "deactivateTenant", "createTenant"}

Request ==
  [kind : Kind, account : Account \cup {None}, email : Email \cup {None},
   tenant : Tenant \cup {None}, role : Role \cup {None}, token : Req \cup {None},
   target : Account \cup {None}, name : Name \cup {None}, slug : Slug \cup {None}]

(* Phases before and after a request knows its account.                    *)
Anonymous == {"new", "checkingEmail", "inserting", "findingUser"}
Known     == (Waiting \cup Success) \ Anonymous

(* A request fits its phase: it has what the rest of its handler uses, and *)
(* what it has done is stored.                                             *)
Fits(p) ==
  LET r == req[p]
  IN /\ pc[p] \in Anonymous => r.account = None
     /\ pc[p] \in Known => r.account \in Account /\ Exists(r.account)
     /\ pc[p] \in {"checkingEmail", "inserting", "findingUser", "comparing"} => r.kind # "refresh"
     /\ pc[p] \in {"checkingEmail", "inserting"} => r.email \in Email /\ r.role \in Role
     /\ pc[p] = "finding" => r.target \in Account
     /\ pc[p] \in {"deactivating", "deactivated"} => r.target \in Account /\ Exists(r.target)
     /\ pc[p] = "deactivated" => ~row[r.target].isActive
     /\ pc[p] \in {"deactivatingTenant", "tenantDeactivated"} => r.tenant \in Tenant
     /\ pc[p] = "tenantDeactivated" => Founded(r.tenant) /\ ~company[r.tenant].isActive
     /\ pc[p] \in {"checkingTenant", "insertingTenant"} => r.name \in Name /\ r.slug \in Slug

(* A request that came in after a deactivation and concerns what was       *)
(* deactivated has got nowhere.                                            *)
Late ==
  \A q \in Req : \A p \in before[q] :
    \/ pc[p] = "deactivated" /\ req[q].account = req[p].target
    \/ /\ pc[p] = "tenantDeactivated"
       /\ req[q].kind \in {"signUp", "signIn"} /\ req[q].role # "SuperAdmin"
       /\ req[q].tenant = req[p].tenant
    => pc[q] \in {"refused", "failed"}

Past   == \A q \in Req : \A p \in before[q] : pc[p] \in Answered
Tokens == \A a \in Account :
            Exists(a) /\ row[a].refreshToken # None => pc[row[a].refreshToken] = "issued"
(* After a sign-out the account has no stored token, or that of a request  *)
(* that was not answered yet when the sign-out came in.                    *)
SessionsEnded ==
  \A p \in Req : pc[p] = "signedOut" => row[req[p].account].refreshToken \notin before[p]

Distinct ==
  \A a, b \in Account :
    a # b /\ Exists(a) /\ Exists(b) /\ row[a].tenant # None /\ row[a].tenant = row[b].tenant
      => row[a].email # row[b].email

AccountsInv ==
  /\ TypeOK
  /\ req \in [Req -> Request]
  /\ \A p \in Req : Fits(p)
  /\ Past
  /\ Late
  /\ Tokens
  /\ SessionsEnded
  /\ SignOutEndsSessions
  /\ Distinct
  /\ TenantsAreDistinct

(***************************************************************************)
(* What every step of a request has in common                              *)
(***************************************************************************)

(* Only p moves, and it was not answered yet.                              *)
Moves(p) ==
  /\ pc[p] \notin Answered
  /\ \A q \in Req : q # p => /\ pc'[q] = pc[q] /\ req'[q] = req[q]
                             /\ before'[q] = before[q]
  /\ before'[p] = before[p] \/ before'[p] = {q \in Req : pc[q] \in Answered}

(* No row is removed, none is activated again.                             *)
Kept ==
  /\ \A a \in Account : Exists(a) =>
       /\ row'[a] # NoRow
       /\ ~row[a].isActive => ~row'[a].isActive
       /\ row'[a].email = row[a].email /\ row'[a].tenant = row[a].tenant
  /\ \A t \in Tenant : Founded(t) =>
       /\ company'[t] # NoCompany
       /\ ~company[t].isActive => ~company'[t].isActive
       /\ company'[t].name = company[t].name /\ company'[t].slug = company[t].slug

(* p is refused, or asks what it asked before, or asks for an account and  *)
(* a tenant that are not deactivated.                                      *)
Welcome(p) ==
  \/ pc'[p] \in {"refused", "failed"}
  \/ /\ \/ before'[p] = before[p] /\ req'[p].account = req[p].account
        \/ req'[p].account \notin Account
        \/ ~Exists(req'[p].account)
        \/ row[req'[p].account].isActive
     /\ \/ /\ before'[p] = before[p] /\ req'[p].kind = req[p].kind
           /\ req'[p].role = req[p].role /\ req'[p].tenant = req[p].tenant
        \/ req'[p].kind \notin {"signUp", "signIn"}
        \/ req'[p].role = "SuperAdmin"
        \/ req'[p].tenant \notin Tenant
        \/ Active(req'[p].tenant)

(* Who gets tokens for a refresh found one stored when it came in.         *)
Renews(p) ==
  \/ pc'[p] \notin {"issuing", "issued"}
  \/ req'[p].kind # "refresh"
  \/ pc[p] = "issuing" /\ req'[p] = req[p] /\ before'[p] = before[p]
  \/ /\ req'[p].account \in Account /\ Exists(req'[p].account)
     /\ row[req'[p].account].refreshToken # None
     /\ before'[p] = {q \in Req : pc[q] \in Answered}

(* The only token p stores is its own, for its account.                    *)
Writes(p) ==
  /\ \A a \in Account : row'[a] # NoRow =>
       \/ Exists(a) /\ row'[a].refreshToken = row[a].refreshToken
       \/ row'[a].refreshToken = None
       \/ row'[a].refreshToken = p /\ pc'[p] = "issued" /\ req'[p].account = a
  /\ pc'[p] = "signedOut" => row'[req'[p].account].refreshToken = None

(* What is new has a free e-mail address, or a free name and slug.         *)
Adds ==
  /\ \A a, b \in Account :
       /\ row'[a] # NoRow /\ ~Exists(a)
       /\ row'[b] # NoRow /\ a # b
       /\ row'[a].tenant # None /\ row'[a].tenant = row'[b].tenant
       => Exists(b) /\ row'[a].email # row'[b].email
  /\ \A t, u \in Tenant :
       company'[t] # NoCompany /\ ~Founded(t) /\ company'[u] # NoCompany /\ t # u =>
         /\ Founded(u)
         /\ company'[t].name # company'[u].name /\ company'[t].slug # company'[u].slug

Shape ==
  /\ row \in [Account -> Row \cup {NoRow}]
  /\ company \in [Tenant -> Company \cup {NoCompany}]
  /\ pc \in [Req -> {"new"} \cup Waiting \cup Answered]
  /\ before \in [Req -> SUBSET Req]
  /\ req \in [Req -> Request]

Step(p) ==
  Shape' /\ Moves(p) /\ Kept /\ Fits(p)' /\ Welcome(p) /\ Renews(p) /\ Writes(p) /\ Adds

LEMMA NoRowIsNone == NoRow \notin Row /\ NoCompany \notin Company
BY NoneIsNothing DEF NoRow, Row, NoCompany, Company

LEMMA StepKeepsInv ==
  ASSUME AccountsInv, NEW p \in Req, Step(p)
  PROVE  AccountsInv'
<1> USE DEF AccountsInv, Step
<1>1. Past'
  BY DEF Past, Moves, Shape
<1>2. \A q \in Req : Fits(q)'
  <2> SUFFICES ASSUME NEW q \in Req, q # p PROVE Fits(q)'
    OBVIOUS
  <2>1. pc'[q] = pc[q] /\ req'[q] = req[q]
    BY DEF Moves
  <2>2. Fits(q)
    OBVIOUS
  <2> QED
    BY <2>1, <2>2 DEF Fits, Kept, Exists, Founded
<1>3. \A q \in Req : \A x \in before'[q] : x \in Req /\ x # p /\ pc'[x] = pc[x] /\ req'[x] = req[x]
  BY DEF Past, Moves, TypeOK
<1>4. Late'
  <2> SUFFICES ASSUME NEW q \in Req, NEW x \in before'[q],
                      \/ pc'[x] = "deactivated" /\ req'[q].account = req'[x].target
                      \/ /\ pc'[x] = "tenantDeactivated"
                         /\ req'[q].kind \in {"signUp", "signIn"} /\ req'[q].role # "SuperAdmin"
                         /\ req'[q].tenant = req'[x].tenant
               PROVE  pc'[q] \in {"refused", "failed"}
    BY DEF Late
  <2>1. x \in Req /\ pc'[x] = pc[x] /\ req'[x] = req[x]
    BY <1>3
  <2>2. CASE q # p
    BY <2>1, <2>2 DEF Late, Moves
  <2>3. CASE q = p /\ before'[p] = before[p] /\ req'[p].account = req[p].account
             /\ pc'[x] = "deactivated" /\ req'[q].account = req'[x].target
    BY <2>1, <2>3 DEF Late, Moves, Answered
  <2>4. CASE q = p /\ before'[p] = before[p] /\ req'[p].kind = req[p].kind
             /\ req'[p].role = req[p].role /\ req'[p].tenant = req[p].tenant
             /\ pc'[x] = "tenantDeactivated"
             /\ req'[q].kind \in {"signUp", "signIn"} /\ req'[q].role # "SuperAdmin"
             /\ req'[q].tenant = req'[x].tenant
    BY <2>1, <2>4 DEF Late, Moves, Answered
  <2>5. Fits(x)
    BY <2>1
  <2>6. pc[x] = "deactivated" =>
          req[x].target \in Account /\ Exists(req[x].target) /\ ~row[req[x].target].isActive
    BY <2>5 DEF Fits
  <2>7. pc[x] = "tenantDeactivated" => req[x].tenant \in Tenant /\ ~Active(req[x].tenant)
    BY <2>5 DEF Fits, Active
  <2> QED
    BY <2>1, <2>2, <2>3, <2>4, <2>6, <2>7 DEF Welcome
<1>5. \A a \in Account : row'[a] # NoRow /\ row'[a].refreshToken # None =>
        /\ req'[row'[a].refreshToken].account = a
        /\ pc'[row'[a].refreshToken] = "issued"
  <2> SUFFICES ASSUME NEW a \in Account, row'[a] # NoRow, row'[a].refreshToken # None
               PROVE  /\ req'[row'[a].refreshToken].account = a
                      /\ pc'[row'[a].refreshToken] = "issued"
    OBVIOUS
  <2>1. CASE row'[a].refreshToken = p
    <3>1. CASE Exists(a) /\ row[a].refreshToken = p
      <4>1. pc[p] = "issued"
        BY <3>1, NoneIsNothing DEF Tokens
      <4> QED
        BY <4>1 DEF Moves, Answered, Success
    <3> QED
      BY <2>1, <3>1, NoneIsNothing DEF Writes
  <2>2. CASE row'[a].refreshToken # p
    <3>1. Exists(a) /\ row'[a].refreshToken = row[a].refreshToken
      BY <2>2 DEF Writes
    <3>2. row[a].refreshToken \in Req
      BY <3>1 DEF TypeOK, Row, Exists
    <3> QED
      BY <2>2, <3>1, <3>2 DEF Moves, Tokens, TypeOK
  <2> QED
    BY <2>1, <2>2
<1>6. TypeOK' /\ Tokens'
  BY <1>5 DEF TypeOK, Tokens, Shape, Exists
<1>7. SessionsEnded'
  <2> SUFFICES ASSUME NEW q \in Req, pc'[q] = "signedOut"
               PROVE  row'[req'[q].account].refreshToken \notin before'[q]
    BY DEF SessionsEnded
  <2>1. before'[q] \subseteq Req /\ None \notin Req
    BY NoneIsNothing DEF Shape
  <2>2. CASE q = p
    BY <2>1, <2>2 DEF Writes
  <2>3. CASE q # p
    <3>1. pc[q] = "signedOut" /\ req'[q] = req[q] /\ before'[q] = before[q]
      BY <2>3 DEF Moves
    <3>2. req[q].account \in Account /\ Exists(req[q].account)
      BY <3>1 DEF Fits, Known, Success, Anonymous
    <3>3. row[req[q].account].refreshToken \notin before[q]
      BY <3>1 DEF SessionsEnded
    <3>4. p \notin before[q]
      BY DEF Past, Moves
    <3>5. row'[req[q].account] # NoRow
      BY <3>2 DEF Kept
    <3> QED
      BY <2>1, <3>1, <3>2, <3>3, <3>4, <3>5 DEF Writes
  <2> QED
    BY <2>2, <2>3
<1>8. Distinct'
  <2> SUFFICES ASSUME NEW a \in Account, NEW b \in Account,
                      a # b, row'[a] # NoRow, row'[b] # NoRow,
                      row'[a].tenant # None, row'[a].tenant = row'[b].tenant
               PROVE  row'[a].email # row'[b].email
    BY DEF Distinct, Exists
  <2>1. CASE Exists(a) /\ Exists(b)
    BY <2>1 DEF Kept, Distinct
  <2>2. CASE ~Exists(a)
    BY <2>2 DEF Adds
  <2>3. CASE ~Exists(b)
    BY <2>3 DEF Adds
  <2> QED
    BY <2>1, <2>2, <2>3
<1>9. TenantsAreDistinct'
  <2> SUFFICES ASSUME NEW t \in Tenant, NEW u \in Tenant, t # u,
                      company'[t] # NoCompany, company'[u] # NoCompany
               PROVE  company'[t].name # company'[u].name /\ company'[t].slug # company'[u].slug
    BY DEF TenantsAreDistinct, Founded
  <2>1. CASE Founded(t) /\ Founded(u)
    BY <2>1 DEF Kept, TenantsAreDistinct
  <2>2. CASE ~Founded(t)
    BY <2>2 DEF Adds
  <2>3. CASE ~Founded(u)
    BY <2>3 DEF Adds
  <2> QED
    BY <2>1, <2>2, <2>3
<1>10. req' \in [Req -> Request]
  BY DEF Shape
<1>11. SignOutEndsSessions'
  <2> SUFFICES ASSUME NEW x \in Req, NEW q \in Req,
                      pc'[x] = "signedOut", x \in before'[q],
                      req'[q].kind = "refresh", pc'[q] \in {"issuing", "issued"},
                      req'[q].account = req'[x].account
               PROVE  \E s \in before'[q] \ before'[x] :
                        pc'[s] = "issued" /\ req'[s].account = req'[x].account
    BY DEF SignOutEndsSessions
  <2>1. x # p /\ pc[x] = "signedOut" /\ req'[x] = req[x] /\ before'[x] = before[x]
    BY <1>3 DEF Moves
  <2>2. CASE pc[q] \in {"issuing", "issued"} /\ req'[q] = req[q] /\ before'[q] = before[q]
    <3>1. PICK s \in before[q] \ before[x] :
            pc[s] = "issued" /\ req[s].account = req[x].account
      BY <2>1, <2>2 DEF SignOutEndsSessions
    <3> QED
      BY <1>3, <2>1, <2>2, <3>1
  <2>3. CASE q # p
    BY <2>2, <2>3 DEF Moves
  <2>4. CASE q = p /\ before'[p] = {y \in Req : pc[y] \in Answered}
             /\ req'[p].account \in Account /\ Exists(req'[p].account)
             /\ row[req'[p].account].refreshToken # None
    <3> DEFINE a == req'[p].account
               s == row[a].refreshToken
    <3>1. s \in Req /\ pc[s] = "issued" /\ req[s].account = a
      BY <2>4 DEF Tokens, TypeOK, Row, Exists
    <3>2. s \in before'[p] /\ s \notin before[x]
      BY <2>1, <2>4, <3>1 DEF SessionsEnded, Answered, Success
    <3> QED
      BY <1>3, <2>1, <2>4, <3>1, <3>2
  <2> QED
    BY <2>2, <2>3, <2>4 DEF Renews
<1> QED
  BY <1>1, <1>2, <1>4, <1>6, <1>7, <1>8, <1>9, <1>10, <1>11

(***************************************************************************)
(* The steps                                                               *)
(***************************************************************************)

LEMMA TablesKept ==
  ASSUME NEW p \in Req, row' = row, company' = company, pc'[p] # "signedOut"
  PROVE  Kept /\ Adds /\ Writes(p)
BY DEF Kept, Adds, Writes, Exists, Founded

LEMMA SignUpStarts ==
  ASSUME AccountsInv, NEW p \in Req, NEW e \in Email, NEW t \in Tenant \cup {None},
         NEW r \in Role, StartSignUp(p, e, t, r)
  PROVE  Step(p)
<1> DEFINE R == [NoRequest EXCEPT !.kind = "signUp", !.email = e, !.tenant = t, !.role = r]
<1>1. /\ R \in Request /\ R.account = None /\ R.email = e /\ R.role = r /\ R.tenant = t
      /\ R.kind = "signUp"
  BY DEF NoRequest, Request, Kind
<1>2. /\ pc[p] = "new"
      /\ pc' = [pc EXCEPT ![p] = IF r = "SuperAdmin" \/ (t # None /\ Active(t))
                                   THEN "checkingEmail" ELSE "refused"]
      /\ req' = [req EXCEPT ![p] = R]
      /\ before' = [before EXCEPT ![p] = {q \in Req : pc[q] \in Answered}]
      /\ row' = row /\ company' = company
  BY DEF StartSignUp, Start
<1> HIDE DEF R
<1>3. Shape' /\ Moves(p)
  BY <1>1, <1>2 DEF AccountsInv, TypeOK, Shape, Moves, Waiting, Answered, Success
<1>4. Fits(p)'
  BY <1>1, <1>2 DEF AccountsInv, TypeOK, Fits, Anonymous, Known, Waiting, Issuing, Success
<1>5. Welcome(p)
  BY <1>1, <1>2, NoneIsNothing DEF AccountsInv, TypeOK, Welcome
<1>6. pc'[p] # "signedOut" /\ Renews(p)
  BY <1>2 DEF AccountsInv, TypeOK, Renews
<1> QED
  BY <1>2, <1>3, <1>4, <1>5, <1>6, TablesKept DEF Step

LEMMA SignInStarts ==
  ASSUME AccountsInv, NEW p \in Req, NEW e \in Email, NEW slug \in Slug \cup {None},
         StartSignIn(p, e, slug)
  PROVE  Step(p)
<1>1. CASE slug # None /\ Start(p, "refused", [NoRequest EXCEPT !.kind = "signIn", !.email = e])
  <2> DEFINE R == [NoRequest EXCEPT !.kind = "signIn", !.email = e]
  <2>1. R \in Request /\ R.account = None
    BY DEF NoRequest, Request, Kind
  <2>2. /\ pc[p] = "new" /\ pc' = [pc EXCEPT ![p] = "refused"]
        /\ req' = [req EXCEPT ![p] = R]
        /\ before' = [before EXCEPT ![p] = {q \in Req : pc[q] \in Answered}]
        /\ row' = row /\ company' = company
    BY <1>1 DEF StartSignIn, Start
  <2> HIDE DEF R
  <2>3. Shape' /\ Moves(p)
    BY <2>1, <2>2 DEF AccountsInv, TypeOK, Shape, Moves, Waiting, Answered, Success
  <2>4. Fits(p)' /\ Welcome(p) /\ Renews(p) /\ pc'[p] # "signedOut"
    BY <2>1, <2>2
    DEF AccountsInv, TypeOK, Fits, Anonymous, Known, Waiting, Issuing, Success, Welcome, Renews
  <2> QED
    BY <2>2, <2>3, <2>4, TablesKept DEF Step
<1>2. ASSUME NEW t \in IF slug = None THEN {None} ELSE Admits(slug),
             Start(p, "findingUser", [NoRequest EXCEPT !.kind = "signIn", !.email = e, !.tenant = t])
      PROVE  Step(p)
  <2> DEFINE R == [NoRequest EXCEPT !.kind = "signIn", !.email = e, !.tenant = t]
  <2>1. t = None \/ (t \in Tenant /\ Active(t))
    BY DEF Admits
  <2>2. R \in Request /\ R.account = None /\ R.tenant = t /\ R.kind = "signIn"
    BY <2>1 DEF NoRequest, Request, Kind
  <2>3. /\ pc[p] = "new" /\ pc' = [pc EXCEPT ![p] = "findingUser"]
        /\ req' = [req EXCEPT ![p] = R]
        /\ before' = [before EXCEPT ![p] = {q \in Req : pc[q] \in Answered}]
        /\ row' = row /\ company' = company
    BY <1>2 DEF StartSignIn, Start
  <2> HIDE DEF R
  <2>4. Shape' /\ Moves(p)
    BY <2>2, <2>3 DEF AccountsInv, TypeOK, Shape, Moves, Waiting, Answered, Success
  <2>5. Fits(p)' /\ Renews(p) /\ pc'[p] # "signedOut"
    BY <2>2, <2>3
    DEF AccountsInv, TypeOK, Fits, Anonymous, Known, Waiting, Issuing, Success, Renews
  <2>6. Welcome(p)
    BY <2>1, <2>2, <2>3, NoneIsNothing DEF AccountsInv, TypeOK, Welcome
  <2> QED
    BY <2>3, <2>4, <2>5, <2>6, TablesKept DEF Step
<1> QED
  BY <1>1, <1>2 DEF StartSignIn

(* The requests that come with a token: each is refused, or enters its     *)
(* handler for an active account.                                          *)
LEMMA TokenStarts ==
  ASSUME AccountsInv, NEW p \in Req, NEW token \in Req, pc[token] = "issued", pc[p] = "new",
         req'[p] \in Request, req' = [req EXCEPT ![p] = req'[p]],
         req'[p].account = req[token].account,
         req'[p].kind \notin {"signUp", "signIn"},
         pc' = [pc EXCEPT ![p] = pc'[p]],
         \/ pc'[p] = "refused"
         \/ /\ row[req[token].account].isActive
            /\ pc'[p] \in {"issuing", "signingOut", "finding", "deactivatingTenant", "checkingTenant"}
            /\ pc'[p] = "issuing" => row[req[token].account].refreshToken # None
            /\ pc'[p] = "finding" => req'[p].target \in Account
            /\ pc'[p] = "deactivatingTenant" => req'[p].tenant \in Tenant
            /\ pc'[p] = "checkingTenant" => req'[p].name \in Name /\ req'[p].slug \in Slug,
         before' = [before EXCEPT ![p] = {q \in Req : pc[q] \in Answered}],
         row' = row, company' = company
  PROVE  Step(p)
<1>1. req[token].account \in Account /\ Exists(req[token].account)
  BY DEF AccountsInv, Fits, Known, Success, Anonymous
<1>2. pc'[p] \in Waiting \cup {"refused"}
  BY DEF Waiting, Issuing
<1>3. Shape' /\ Moves(p)
  BY <1>2 DEF AccountsInv, TypeOK, Shape, Moves, Waiting, Answered, Success
<1>4. Fits(p)' /\ pc'[p] # "signedOut"
  BY <1>1 DEF Fits, Anonymous, Known, Waiting, Success, Exists
<1>5. Welcome(p)
  BY DEF Welcome
<1>6. before'[p] = {q \in Req : pc[q] \in Answered}
  BY DEF AccountsInv, TypeOK
<1>7. Renews(p)
  BY <1>1, <1>6 DEF Renews
<1> QED
  BY <1>3, <1>4, <1>5, <1>7, TablesKept DEF Step

LEMMA ReceiveStep ==
  ASSUME AccountsInv, NEW p \in Req, Receive(p)
  PROVE  Step(p)
<1>1. ASSUME NEW token \in Req, StartRefresh(p, token)
      PROVE  Step(p)
  <2> DEFINE a == req[token].account
             R == [NoRequest EXCEPT !.kind = "refresh", !.account = a, !.token = token]
  <2>1. a \in Account \cup {None}
    BY DEF AccountsInv, Request
  <2>2. /\ R \in Request /\ R.account = a /\ R.kind = "refresh"
    BY <2>1 DEF NoRequest, Request, Kind
  <2>3. /\ pc[token] = "issued" /\ pc[p] = "new"
        /\ pc' = [pc EXCEPT ![p] = IF RefreshAllowed(a, token) THEN "issuing" ELSE "refused"]
        /\ req' = [req EXCEPT ![p] = R]
        /\ before' = [before EXCEPT ![p] = {q \in Req : pc[q] \in Answered}]
        /\ row' = row /\ company' = company
    BY <1>1 DEF StartRefresh, Start
  <2>4. req'[p] = R /\ pc'[p] = IF RefreshAllowed(a, token) THEN "issuing" ELSE "refused"
    BY <2>3 DEF AccountsInv, TypeOK
  <2> HIDE DEF R
  <2>5. pc' = [pc EXCEPT ![p] = pc'[p]] /\ req' = [req EXCEPT ![p] = req'[p]]
    BY <2>3, <2>4
  <2>6. \/ pc'[p] = "refused"
        \/ row[a].isActive /\ row[a].refreshToken # None /\ pc'[p] = "issuing"
    BY <2>4 DEF RefreshAllowed
  <2> QED
    BY <2>2, <2>3, <2>4, <2>5, <2>6, TokenStarts
<1>2. ASSUME NEW token \in Req, StartSignOut(p, token)
      PROVE  Step(p)
  <2> DEFINE a == req[token].account
             R == [NoRequest EXCEPT !.kind = "signOut", !.account = a, !.token = token]
  <2>1. a \in Account \cup {None}
    BY DEF AccountsInv, Request
  <2>2. /\ R \in Request /\ R.account = a /\ R.kind = "signOut"
    BY <2>1 DEF NoRequest, Request, Kind
  <2>3. /\ pc[token] = "issued" /\ pc[p] = "new"
        /\ pc' = [pc EXCEPT ![p] = IF Authenticated(a) THEN "signingOut" ELSE "refused"]
        /\ req' = [req EXCEPT ![p] = R]
        /\ before' = [before EXCEPT ![p] = {q \in Req : pc[q] \in Answered}]
        /\ row' = row /\ company' = company
    BY <1>2 DEF StartSignOut, Start
  <2>4. req'[p] = R /\ pc'[p] = IF Authenticated(a) THEN "signingOut" ELSE "refused"
    BY <2>3 DEF AccountsInv, TypeOK
  <2> HIDE DEF R
  <2>5. pc' = [pc EXCEPT ![p] = pc'[p]] /\ req' = [req EXCEPT ![p] = req'[p]]
    BY <2>3, <2>4
  <2>6. pc'[p] = "refused" \/ (row[a].isActive /\ pc'[p] = "signingOut")
    BY <2>4 DEF Authenticated
  <2> QED
    BY <2>2, <2>3, <2>4, <2>5, <2>6, TokenStarts
<1>3. ASSUME NEW token \in Req, NEW target \in Account, StartDeactivate(p, token, target)
      PROVE  Step(p)
  <2> DEFINE a == req[token].account
             R == [NoRequest EXCEPT !.kind = "deactivate", !.account = a, !.token = token,
                   !.target = target]
  <2>1. a \in Account \cup {None}
    BY DEF AccountsInv, Request
  <2>2. /\ R \in Request /\ R.account = a /\ R.kind = "deactivate" /\ R.target = target
    BY <2>1 DEF NoRequest, Request, Kind
  <2>3. /\ pc[token] = "issued" /\ pc[p] = "new"
        /\ pc' = [pc EXCEPT ![p] = IF Authenticated(a) /\ row[a].role \in {"SuperAdmin", "TenantAdmin"} THEN "finding" ELSE "refused"]
        /\ req' = [req EXCEPT ![p] = R]
        /\ before' = [before EXCEPT ![p] = {q \in Req : pc[q] \in Answered}]
        /\ row' = row /\ company' = company
    BY <1>3 DEF StartDeactivate, Start
  <2>4. req'[p] = R /\ pc'[p] = IF Authenticated(a) /\ row[a].role \in {"SuperAdmin", "TenantAdmin"} THEN "finding" ELSE "refused"
    BY <2>3 DEF AccountsInv, TypeOK
  <2> HIDE DEF R
  <2>5. pc' = [pc EXCEPT ![p] = pc'[p]] /\ req' = [req EXCEPT ![p] = req'[p]]
    BY <2>3, <2>4
  <2>6. pc'[p] = "refused" \/ (row[a].isActive /\ pc'[p] = "finding")
    BY <2>4 DEF Authenticated
  <2> QED
    BY <2>2, <2>3, <2>4, <2>5, <2>6, TokenStarts
<1>4. ASSUME NEW token \in Req, NEW t \in Tenant, StartDeactivateTenant(p, token, t)
      PROVE  Step(p)
  <2> DEFINE a == req[token].account
             R == [NoRequest EXCEPT !.kind = "deactivateTenant", !.account = a, !.token = token,
                   !.tenant = t]
  <2>1. a \in Account \cup {None}
    BY DEF AccountsInv, Request
  <2>2. /\ R \in Request /\ R.account = a /\ R.kind = "deactivateTenant" /\ R.tenant = t
    BY <2>1 DEF NoRequest, Request, Kind
  <2>3. /\ pc[token] = "issued" /\ pc[p] = "new"
        /\ pc' = [pc EXCEPT ![p] = IF Authenticated(a) /\ row[a].role = "SuperAdmin" THEN "deactivatingTenant" ELSE "refused"]
        /\ req' = [req EXCEPT ![p] = R]
        /\ before' = [before EXCEPT ![p] = {q \in Req : pc[q] \in Answered}]
        /\ row' = row /\ company' = company
    BY <1>4 DEF StartDeactivateTenant, Start
  <2>4. req'[p] = R /\ pc'[p] = IF Authenticated(a) /\ row[a].role = "SuperAdmin" THEN "deactivatingTenant" ELSE "refused"
    BY <2>3 DEF AccountsInv, TypeOK
  <2> HIDE DEF R
  <2>5. pc' = [pc EXCEPT ![p] = pc'[p]] /\ req' = [req EXCEPT ![p] = req'[p]]
    BY <2>3, <2>4
  <2>6. pc'[p] = "refused" \/ (row[a].isActive /\ pc'[p] = "deactivatingTenant")
    BY <2>4 DEF Authenticated
  <2> QED
    BY <2>2, <2>3, <2>4, <2>5, <2>6, TokenStarts
<1>5. ASSUME NEW token \in Req, NEW name \in Name, NEW slug \in Slug,
             StartCreateTenant(p, token, name, slug)
      PROVE  Step(p)
  <2> DEFINE a == req[token].account
             R == [NoRequest EXCEPT !.kind = "createTenant", !.account = a, !.token = token,
                   !.name = name, !.slug = slug]
  <2>1. a \in Account \cup {None}
    BY DEF AccountsInv, Request
  <2>2. /\ R \in Request /\ R.account = a /\ R.kind = "createTenant" /\ R.name = name /\ R.slug = slug
    BY <2>1 DEF NoRequest, Request, Kind
  <2>3. /\ pc[token] = "issued" /\ pc[p] = "new"
        /\ pc' = [pc EXCEPT ![p] = IF Authenticated(a) /\ row[a].role = "SuperAdmin" THEN "checkingTenant" ELSE "refused"]
        /\ req' = [req EXCEPT ![p] = R]
        /\ before' = [before EXCEPT ![p] = {q \in Req : pc[q] \in Answered}]
        /\ row' = row /\ company' = company
    BY <1>5 DEF StartCreateTenant, Start
  <2>4. req'[p] = R /\ pc'[p] = IF Authenticated(a) /\ row[a].role = "SuperAdmin" THEN "checkingTenant" ELSE "refused"
    BY <2>3 DEF AccountsInv, TypeOK
  <2> HIDE DEF R
  <2>5. pc' = [pc EXCEPT ![p] = pc'[p]] /\ req' = [req EXCEPT ![p] = req'[p]]
    BY <2>3, <2>4
  <2>6. pc'[p] = "refused" \/ (row[a].isActive /\ pc'[p] = "checkingTenant")
    BY <2>4 DEF Authenticated
  <2> QED
    BY <2>2, <2>3, <2>4, <2>5, <2>6, TokenStarts
<1> QED
  BY <1>1, <1>2, <1>3, <1>4, <1>5, SignUpStarts, SignInStarts DEF Receive

(* A step of a request on its way that changes neither what it asks nor a  *)
(* table.                                                                  *)
LEMMA PlainStep ==
  ASSUME AccountsInv, NEW p \in Req, pc[p] \in Waiting,
         pc' = [pc EXCEPT ![p] = pc'[p]],
         \/ pc'[p] \in {"refused", "failed"}
         \/ pc[p] = "checkingEmail" /\ pc'[p] = "inserting"
         \/ pc[p] = "comparing" /\ pc'[p] = "issuing"
         \/ pc[p] = "checkingTenant" /\ pc'[p] = "insertingTenant"
         \/ pc[p] = "finding" /\ pc'[p] = "deactivating" /\ Exists(req[p].target),
         UNCHANGED <<row, company, req, before>>
  PROVE  Step(p)
<1>1. Shape' /\ Moves(p)
  BY DEF AccountsInv, TypeOK, Shape, Moves, Waiting, Issuing, Answered, Success
<1>2. Fits(p) /\ req[p] \in Request
  BY DEF AccountsInv
<1>3. Fits(p)'
  BY <1>2 DEF Fits, Anonymous, Known, Waiting, Issuing, Success, Exists
<1>4. Welcome(p) /\ Renews(p) /\ pc'[p] # "signedOut"
  BY <1>2 DEF Fits, Welcome, Renews
<1> QED
  BY <1>1, <1>3, <1>4, TablesKept DEF Step

LEMMA PlainSteps ==
  ASSUME AccountsInv, NEW p \in Req,
         \/ CheckEmail(p) \/ InsertRejected(p) \/ FindNobody(p) \/ Compare(p) \/ Find(p)
         \/ CheckTenant(p) \/ InsertTenantRejected(p) \/ Fail(p)
  PROVE  Step(p)
<1>1. pc \in [Req -> {"new"} \cup Waiting \cup Answered]
  BY DEF AccountsInv, TypeOK
<1> USE PlainStep DEF Proceed, Waiting, Issuing
<1>2. CASE CheckEmail(p)
  BY <1>1, <1>2 DEF CheckEmail
<1>3. CASE InsertRejected(p)
  BY <1>1, <1>3 DEF InsertRejected
<1>4. CASE FindNobody(p)
  BY <1>1, <1>4 DEF FindNobody
<1>5. CASE Compare(p)
  BY <1>1, <1>5 DEF Compare
<1>6. CASE Find(p)
  BY <1>1, <1>6 DEF Find, MayDeactivate
<1>7. CASE CheckTenant(p)
  BY <1>1, <1>7 DEF CheckTenant
<1>8. CASE InsertTenantRejected(p)
  BY <1>1, <1>8 DEF InsertTenantRejected
<1>9. CASE Fail(p)
  BY <1>1, <1>9 DEF Fail
<1> QED
  BY <1>2, <1>3, <1>4, <1>5, <1>6, <1>7, <1>8, <1>9

LEMMA FindUserStep ==
  ASSUME AccountsInv, NEW p \in Req, NEW a \in Account, FindUser(p, a)
  PROVE  Step(p)
<1> DEFINE R == [req[p] EXCEPT !.account = a]
<1>1. req[p] \in Request
  BY DEF AccountsInv
<1>2. /\ R \in Request /\ R.account = a /\ R.kind = req[p].kind /\ R.role = req[p].role
      /\ R.tenant = req[p].tenant
  BY <1>1 DEF Request
<1>3. /\ pc[p] = "findingUser" /\ Exists(a)
      /\ pc' = [pc EXCEPT ![p] = IF row[a].isActive THEN "comparing" ELSE "refused"]
      /\ req' = [req EXCEPT ![p] = R]
      /\ before' = before /\ row' = row /\ company' = company
  BY DEF FindUser, Proceed, Registered
<1> HIDE DEF R
<1>4. Shape' /\ Moves(p)
  BY <1>2, <1>3 DEF AccountsInv, TypeOK, Shape, Moves, Waiting, Issuing, Answered, Success
<1>5. Fits(p)' /\ pc'[p] # "signedOut"
  BY <1>2, <1>3
  DEF AccountsInv, TypeOK, Fits, Anonymous, Known, Waiting, Issuing, Success, Exists
<1>6. Welcome(p) /\ Renews(p)
  BY <1>2, <1>3 DEF AccountsInv, TypeOK, Welcome, Renews
<1> QED
  BY <1>3, <1>4, <1>5, <1>6, TablesKept DEF Step

LEMMA InsertStep ==
  ASSUME AccountsInv, NEW p \in Req, NEW a \in Account, Insert(p, a)
  PROVE  Step(p)
<1> DEFINE R == [req[p] EXCEPT !.account = a]
           N == [email |-> req[p].email, tenant |-> req[p].tenant, role |-> req[p].role,
                 isActive |-> TRUE, refreshToken |-> None]
<1>1. req[p] \in Request /\ Fits(p)
  BY DEF AccountsInv
<1>2. /\ R \in Request /\ R.account = a /\ R.kind = req[p].kind /\ R.role = req[p].role
      /\ R.tenant = req[p].tenant
  BY <1>1 DEF Request
<1>3. /\ pc[p] = "inserting" /\ ~Exists(a)
      /\ pc' = [pc EXCEPT ![p] = "issuing"]
      /\ req' = [req EXCEPT ![p] = R]
      /\ row' = [row EXCEPT ![a] = N]
      /\ before' = before /\ company' = company
      /\ ~Conflicts(req[p].email, req[p].tenant)
  BY DEF Insert, Proceed
<1>4. /\ N \in Row /\ N.refreshToken = None /\ N.email = req[p].email
      /\ N.tenant = req[p].tenant
  BY <1>1, <1>3 DEF Fits, Row, Request
<1>5. N # NoRow
  BY <1>4, NoRowIsNone
<1>6. \A b \in Account : row'[b] = IF b = a THEN N ELSE row[b]
  BY <1>3 DEF AccountsInv, TypeOK
<1> HIDE DEF R, N
<1>7. Shape' /\ Moves(p)
  BY <1>2, <1>3, <1>4
  DEF AccountsInv, TypeOK, Shape, Moves, Waiting, Issuing, Answered, Success
<1>8. Fits(p)'
  BY <1>2, <1>3, <1>5, <1>6
  DEF AccountsInv, TypeOK, Fits, Anonymous, Known, Waiting, Issuing, Success, Exists
<1>9. Welcome(p) /\ Renews(p)
  BY <1>1, <1>2, <1>3 DEF AccountsInv, TypeOK, Fits, Welcome, Renews
<1>10. Kept
  BY <1>3, <1>6 DEF Kept, Exists, Founded
<1>11. Writes(p)
  BY <1>3, <1>4, <1>6 DEF AccountsInv, TypeOK, Writes, Exists
<1>12. Adds
  <2>1. \A b \in Account : ~Exists(b) /\ row'[b] # NoRow => b = a
    BY <1>6 DEF Exists
  <2>2. \A b \in Account :
          Exists(b) /\ req[p].tenant # None /\ row[b].tenant = req[p].tenant
            => row[b].email # req[p].email
    BY <1>3 DEF Conflicts, Registered
  <2> QED
    BY <1>3, <1>4, <1>6, <2>1, <2>2 DEF Adds, Founded, Exists
<1> QED
  BY <1>7, <1>8, <1>9, <1>10, <1>11, <1>12 DEF Step

(* The three UPDATEs of one column of one row of users.                    *)
LEMMA UpdateStep ==
  ASSUME AccountsInv, NEW p \in Req, NEW a \in Account, Exists(a),
         NEW r \in Row, r.email = row[a].email, r.tenant = row[a].tenant,
         r.isActive => row[a].isActive,
         row' = [row EXCEPT ![a] = r],
         pc' = [pc EXCEPT ![p] = pc'[p]],
         \/ /\ pc[p] = "issuing" /\ pc'[p] = "issued"
            /\ a = req[p].account /\ r.refreshToken = p
         \/ /\ pc[p] = "signingOut" /\ pc'[p] = "signedOut"
            /\ a = req[p].account /\ r.refreshToken = None
         \/ /\ pc[p] = "deactivating" /\ pc'[p] = "deactivated"
            /\ a = req[p].target /\ r.refreshToken = row[a].refreshToken /\ ~r.isActive,
         UNCHANGED <<company, req, before>>
  PROVE  Step(p)
<1>1. req[p] \in Request /\ Fits(p)
  BY DEF AccountsInv
<1>2. \A b \in Account : row'[b] = IF b = a THEN r ELSE row[b]
  BY DEF AccountsInv, TypeOK
<1>3. r # NoRow
  BY NoRowIsNone
<1>4. Shape' /\ Moves(p)
  BY DEF AccountsInv, TypeOK, Shape, Moves, Waiting, Issuing, Answered, Success
<1>5. Fits(p)'
  BY <1>1, <1>2, <1>3 DEF Fits, Anonymous, Known, Waiting, Issuing, Success, Exists
<1>6. Welcome(p) /\ Renews(p)
  BY DEF Welcome, Renews
<1>7. Kept /\ Adds
  BY <1>2, <1>3 DEF Kept, Adds, Exists, Founded
<1>8. Writes(p)
  BY <1>2, <1>3 DEF Writes, Exists
<1> QED
  BY <1>4, <1>5, <1>6, <1>7, <1>8 DEF Step

LEMMA UserSteps ==
  ASSUME AccountsInv, NEW p \in Req, StoreRefreshToken(p) \/ SignOut(p) \/ Deactivate(p)
  PROVE  Step(p)
<1>1. req[p] \in Request /\ Fits(p)
  BY DEF AccountsInv
<1>2. \A a \in Account : Exists(a) => row[a] \in Row
  BY DEF AccountsInv, TypeOK, Exists
<1>3. pc \in [Req -> {"new"} \cup Waiting \cup Answered]
  BY DEF AccountsInv, TypeOK
<1>4. CASE StoreRefreshToken(p)
  <2> DEFINE a == req[p].account
             r == [row[a] EXCEPT !.refreshToken = p]
  <2>1. /\ pc[p] = "issuing" /\ pc' = [pc EXCEPT ![p] = "issued"]
        /\ row' = [row EXCEPT ![a] = r] /\ UNCHANGED <<company, req, before>>
    BY <1>4 DEF StoreRefreshToken, Proceed
  <2>2. a \in Account /\ Exists(a) /\ row[a] \in Row
    BY <1>1, <1>2, <2>1 DEF Fits, Known, Waiting, Issuing, Anonymous
  <2>3. /\ r \in Row /\ r.email = row[a].email /\ r.tenant = row[a].tenant
        /\ r.isActive = row[a].isActive /\ r.refreshToken = p
    BY <2>2 DEF Row
  <2>4. pc'[p] = "issued"
    BY <1>3, <2>1
  <2> HIDE DEF r
  <2> QED
    BY <2>1, <2>2, <2>3, <2>4, UpdateStep
<1>5. CASE SignOut(p)
  <2> DEFINE a == req[p].account
             r == [row[a] EXCEPT !.refreshToken = None]
  <2>1. /\ pc[p] = "signingOut" /\ pc' = [pc EXCEPT ![p] = "signedOut"]
        /\ row' = [row EXCEPT ![a] = r] /\ UNCHANGED <<company, req, before>>
    BY <1>5 DEF SignOut, Proceed
  <2>2. a \in Account /\ Exists(a) /\ row[a] \in Row
    BY <1>1, <1>2, <2>1 DEF Fits, Known, Waiting, Anonymous
  <2>3. /\ r \in Row /\ r.email = row[a].email /\ r.tenant = row[a].tenant
        /\ r.isActive = row[a].isActive /\ r.refreshToken = None
    BY <2>2 DEF Row
  <2>4. pc'[p] = "signedOut"
    BY <1>3, <2>1
  <2> HIDE DEF r
  <2> QED
    BY <2>1, <2>2, <2>3, <2>4, UpdateStep
<1>6. CASE Deactivate(p)
  <2> DEFINE a == req[p].target
             r == [row[a] EXCEPT !.isActive = FALSE]
  <2>1. /\ pc[p] = "deactivating" /\ pc' = [pc EXCEPT ![p] = "deactivated"]
        /\ row' = [row EXCEPT ![a] = r] /\ UNCHANGED <<company, req, before>>
    BY <1>6 DEF Deactivate, Proceed
  <2>2. a \in Account /\ Exists(a) /\ row[a] \in Row
    BY <1>1, <1>2, <2>1 DEF Fits
  <2>3. /\ r \in Row /\ r.email = row[a].email /\ r.tenant = row[a].tenant
        /\ r.isActive = FALSE /\ r.refreshToken = row[a].refreshToken
    BY <2>2 DEF Row
  <2>4. pc'[p] = "deactivated"
    BY <1>3, <2>1
  <2> HIDE DEF r
  <2> QED
    BY <2>1, <2>2, <2>3, <2>4, UpdateStep
<1> QED
  BY <1>4, <1>5, <1>6

LEMMA DeactivateTenantStep ==
  ASSUME AccountsInv, NEW p \in Req, DeactivateTenant(p)
  PROVE  Step(p)
<1> DEFINE t == req[p].tenant
           c == [company[t] EXCEPT !.isActive = FALSE]
<1>1. req[p] \in Request /\ Fits(p)
  BY DEF AccountsInv
<1>2. CASE ~Founded(t)
  <2>1. /\ pc[p] \in Waiting /\ pc' = [pc EXCEPT ![p] = "refused"]
        /\ UNCHANGED <<row, company, req, before>>
    BY <1>2 DEF DeactivateTenant, Proceed, Waiting
  <2>2. pc'[p] = "refused"
    BY <2>1 DEF AccountsInv, TypeOK
  <2> QED
    BY <2>1, <2>2, PlainStep
<1>3. CASE Founded(t)
  <2>1. /\ pc[p] = "deactivatingTenant" /\ pc' = [pc EXCEPT ![p] = "tenantDeactivated"]
        /\ company' = [company EXCEPT ![t] = c] /\ UNCHANGED <<row, req, before>>
    BY <1>3 DEF DeactivateTenant, Proceed
  <2>2. t \in Tenant /\ company[t] \in Company
    BY <1>1, <1>3, <2>1 DEF Fits, AccountsInv, TypeOK, Founded
  <2>3. c \in Company /\ c.name = company[t].name /\ c.slug = company[t].slug /\ ~c.isActive
    BY <2>2 DEF Company
  <2>4. c # NoCompany
    BY <2>3, NoRowIsNone
  <2>5. \A u \in Tenant : company'[u] = IF u = t THEN c ELSE company[u]
    BY <2>1 DEF AccountsInv, TypeOK
  <2>6. pc'[p] = "tenantDeactivated"
    BY <2>1 DEF AccountsInv, TypeOK
  <2> HIDE DEF c
  <2>7. Shape' /\ Moves(p)
    BY <2>1, <2>3, <2>6
    DEF AccountsInv, TypeOK, Shape, Moves, Waiting, Issuing, Answered, Success
  <2>8. Fits(p)'
    BY <1>1, <2>1, <2>2, <2>3, <2>4, <2>5, <2>6
    DEF Fits, Anonymous, Known, Waiting, Issuing, Success, Exists, Founded
  <2>9. Welcome(p) /\ Renews(p)
    BY <2>1, <2>6 DEF Welcome, Renews
  <2>10. Kept /\ Adds
    BY <1>3, <2>1, <2>3, <2>4, <2>5 DEF Kept, Adds, Exists, Founded
  <2>11. Writes(p)
    BY <2>1, <2>6 DEF Writes, Exists
  <2> QED
    BY <2>7, <2>8, <2>9, <2>10, <2>11 DEF Step
<1> QED
  BY <1>2, <1>3

LEMMA InsertTenantStep ==
  ASSUME AccountsInv, NEW p \in Req, NEW t \in Tenant, InsertTenant(p, t)
  PROVE  Step(p)
<1> DEFINE c == [name |-> req[p].name, slug |-> req[p].slug, isActive |-> TRUE]
<1>1. req[p] \in Request /\ Fits(p)
  BY DEF AccountsInv
<1>2. /\ pc[p] = "insertingTenant" /\ ~Founded(t)
      /\ pc' = [pc EXCEPT ![p] = "tenantCreated"]
      /\ company' = [company EXCEPT ![t] = c] /\ UNCHANGED <<row, req, before>>
      /\ ~Clashes(req[p].name, req[p].slug)
  BY DEF InsertTenant, Proceed
<1>3. c \in Company /\ c.name = req[p].name /\ c.slug = req[p].slug
  BY <1>1, <1>2 DEF Fits, Company
<1>4. \A u \in Tenant : company'[u] = IF u = t THEN c ELSE company[u]
  BY <1>2 DEF AccountsInv, TypeOK
<1>5. pc'[p] = "tenantCreated"
  BY <1>2 DEF AccountsInv, TypeOK
<1> HIDE DEF c
<1>6. Shape' /\ Moves(p)
  BY <1>2, <1>3, <1>5
  DEF AccountsInv, TypeOK, Shape, Moves, Waiting, Issuing, Answered, Success
<1>7. Fits(p)'
  BY <1>1, <1>2, <1>5 DEF Fits, Anonymous, Known, Waiting, Issuing, Success, Exists
<1>8. Welcome(p) /\ Renews(p)
  BY <1>2, <1>5 DEF Welcome, Renews
<1>9. Kept
  BY <1>2, <1>4 DEF Kept, Exists, Founded
<1>10. Writes(p)
  BY <1>2, <1>5 DEF Writes, Exists
<1>11. Adds
  <2>1. \A u \in Tenant : ~Founded(u) /\ company'[u] # NoCompany => u = t
    BY <1>4 DEF Founded
  <2>2. \A u \in Tenant :
          Founded(u) => company[u].name # req[p].name /\ company[u].slug # req[p].slug
    BY <1>2 DEF Clashes, Taken
  <2> QED
    BY <1>2, <1>3, <1>4, <2>1, <2>2 DEF Adds, Exists, Founded
<1> QED
  BY <1>6, <1>7, <1>8, <1>9, <1>10, <1>11 DEF Step

LEMMA ServeStep ==
  ASSUME AccountsInv, NEW p \in Req, Serve(p) \/ Fail(p)
  PROVE  Step(p)
BY PlainSteps, FindUserStep, InsertStep, UserSteps, DeactivateTenantStep, InsertTenantStep
DEF Serve

(***************************************************************************)
(* Theorems                                                                *)
(***************************************************************************)

LEMMA InitAccounts == Init => AccountsInv
<1> SUFFICES ASSUME Init PROVE AccountsInv
  OBVIOUS
<1>1. NoRequest \in Request
  BY DEF NoRequest, Request, Kind
<1>2. /\ \A p \in Req : pc[p] = "new" /\ req[p] = NoRequest /\ before[p] = {}
      /\ req \in [Req -> Request]
  BY <1>1 DEF Init
<1>3. \A a \in Account : Exists(a) => row[a].refreshToken = None
  BY DEF Init, SeededRow, Exists
<1>4. TypeOK /\ Tokens
  BY <1>3 DEF Init, TypeOK, Tokens
<1>5. (\A p \in Req : Fits(p)) /\ Past /\ Late /\ SessionsEnded /\ SignOutEndsSessions
  BY <1>2
  DEF NoRequest, Fits, Past, Late, SessionsEnded, SignOutEndsSessions, Anonymous, Known, Waiting, Issuing, Success
<1>6. Distinct
  BY DEF Init, Distinct, Exists
<1>7. TenantsAreDistinct
  BY DEF Init, TenantsAreDistinct, Founded
<1> QED
  BY <1>2, <1>4, <1>5, <1>6, <1>7 DEF AccountsInv

LEMMA NextAccounts == AccountsInv /\ [Next]_vars => AccountsInv'
<1> SUFFICES ASSUME AccountsInv, [Next]_vars PROVE AccountsInv'
  OBVIOUS
<1>1. ASSUME NEW p \in Req, Receive(p) \/ Serve(p) \/ Fail(p) PROVE AccountsInv'
  BY <1>1, ReceiveStep, ServeStep, StepKeepsInv
<1>2. CASE UNCHANGED vars
  BY <1>2
  DEF vars, AccountsInv, TypeOK, Fits, Past, Late, Tokens, SessionsEnded, SignOutEndsSessions,
      Distinct, TenantsAreDistinct, Exists, Founded
<1> QED
  BY <1>1, <1>2 DEF Next, Idle

LEMMA AccountsInvariant == Spec => []AccountsInv
BY InitAccounts, NextAccounts, PTL DEF Spec

(* Every reachable state is well-typed, and a stored refresh token is one  *)
(* that was made for the account it is stored with.                        *)
THEOREM TypeCorrect == Spec => []TypeOK
<1>1. AccountsInv => TypeOK
  BY DEF AccountsInv
<1> QED
  BY <1>1, AccountsInvariant, PTL

(* However many sign-ups race, a tenant has at most one account for an     *)
(* e-mail address.                                                         *)
THEOREM OneAccountPerEmailHolds == Spec => []OneAccountPerEmail
<1>1. ASSUME AccountsInv, NEW e \in Email, NEW t \in Tenant
      PROVE  Cardinality(Registered(e, t)) <= 1
  <2>1. t # None
    BY NoneIsNothing
  <2>2. \A a, b \in Registered(e, t) : a = b
    BY <1>1, <2>1 DEF AccountsInv, Distinct, Registered
  <2>3. CASE Registered(e, t) = {}
    BY <2>3, FS_EmptySet
  <2>4. CASE Registered(e, t) # {}
    <3>1. PICK a \in Registered(e, t) : TRUE
      BY <2>4
    <3>2. Registered(e, t) = {a}
      BY <2>2, <3>1
    <3>3. Cardinality({a}) = 1
      BY FS_Singleton
    <3> QED
      BY <3>2, <3>3
  <2> QED
    BY <2>3, <2>4
<1>2. AccountsInv => OneAccountPerEmail
  BY <1>1 DEF OneAccountPerEmail
<1> QED
  BY <1>2, AccountsInvariant, PTL

(* However many creations race, no two tenants have one name or one slug.  *)
THEOREM TenantsAreDistinctHolds == Spec => []TenantsAreDistinct
<1>1. AccountsInv => TenantsAreDistinct
  BY DEF AccountsInv
<1> QED
  BY <1>1, AccountsInvariant, PTL

(* No request that came in after an account was deactivated succeeds for   *)
(* it, whatever was on its way at the time.                                *)
THEOREM DeactivationIsFinalHolds == Spec => []DeactivationIsFinal
<1>1. AccountsInv => DeactivationIsFinal
  BY DEF AccountsInv, DeactivationIsFinal, Late, Success
<1> QED
  BY <1>1, AccountsInvariant, PTL

(* Nobody but a super admin signs up to a deactivated tenant, and nobody   *)
(* signs in to it.                                                         *)
THEOREM ClosedTenantAdmitsNobodyHolds == Spec => []ClosedTenantAdmitsNobody
<1>1. AccountsInv => ClosedTenantAdmitsNobody
  BY DEF AccountsInv, ClosedTenantAdmitsNobody, Late
<1> QED
  BY <1>1, AccountsInvariant, PTL

(* However many requests of an account overlap, no refresh is accepted     *)
(* after a sign-out unless tokens were handed out to a request that was    *)
(* not answered before it.                                                 *)
THEOREM SignOutEndsSessionsHolds == Spec => []SignOutEndsSessions
<1>1. AccountsInv => SignOutEndsSessions
  BY DEF AccountsInv
<1> QED
  BY <1>1, AccountsInvariant, PTL

(***************************************************************************)
(* Accounts implements Directory                                           *)
(***************************************************************************)

(* An account is a member, a tenant a firm, when its row is there.         *)
LEMMA Membership ==
  ASSUME TypeOK
  PROVE  /\ TheDirectory!Members = {a \in Account : Exists(a)}
         /\ TheDirectory!Firms = {t \in Tenant : Founded(t)}
<1>1. \A a \in Account : Exists(a) => row[a].email # None
  BY NoneIsNothing DEF TypeOK, Row, Exists
<1>2. \A a \in Account : Member[a] # NoRow <=> Exists(a)
  BY <1>1 DEF Member, NoRow
<1>3. \A t \in Tenant : Founded(t) => company[t].name # None
  BY NoneIsNothing DEF TypeOK, Company, Founded
<1>4. \A t \in Tenant : Firm[t] # NoCompany <=> Founded(t)
  BY <1>3 DEF Firm, NoCompany
<1> QED
  BY <1>2, <1>4
  DEF TheDirectory!Members, TheDirectory!Firms, TheDirectory!Nobody, TheDirectory!Nothing,
      NoRow, NoCompany

LEMMA InitDirectory == Init => TheDirectory!Init
<1> SUFFICES ASSUME Init PROVE TheDirectory!Init
  OBVIOUS
<1>1. TypeOK
  BY InitAccounts DEF AccountsInv
<1>2. \A a \in Account : Exists(a) => row[a] \in Row /\ row[a].isActive /\ row[a].refreshToken = None
  BY <1>1 DEF Init, SeededRow, TypeOK, Exists
<1>3. \A t \in Tenant : Founded(t) => company[t] \in Company /\ company[t].isActive
  BY <1>1 DEF Init, TypeOK, Founded
<1>4. Member \in [Account -> [email : Email, tenant : Tenant \cup {None}, role : Role]
                              \cup {TheDirectory!Nobody}]
  BY <1>2 DEF Member, Row, NoRow, TheDirectory!Nobody
<1>5. Firm \in [Tenant -> [name : Name, slug : Slug] \cup {TheDirectory!Nothing}]
  BY <1>3 DEF Firm, Company, NoCompany, TheDirectory!Nothing
<1>6. \A a, b \in TheDirectory!Members :
        a # b => <<Member[a].email, Member[a].tenant>> # <<Member[b].email, Member[b].tenant>>
  BY <1>1, Membership DEF Init, Member, Exists
<1>7. \A t, u \in TheDirectory!Firms :
        t # u => Firm[t].name # Firm[u].name /\ Firm[t].slug # Firm[u].slug
  BY <1>1, Membership DEF Init, Firm, Founded
<1>8. Enabled = TheDirectory!Members /\ Open = TheDirectory!Firms
  BY <1>1, <1>2, <1>3, Membership DEF Enabled, Open, Active
<1>9. Session = [a \in Account |-> None] /\ Spent = {}
  BY <1>2 DEF Session, Spent, Init
<1> QED
  BY <1>4, <1>5, <1>6, <1>7, <1>8, <1>9 DEF TheDirectory!Init

(* What leaves the tables alone and issues nothing is a stutter.           *)
LEMMA DirectoryStutters ==
  ASSUME row' = row, company' = company, Spent' = Spent
  PROVE  UNCHANGED TheDirectory!vars
BY DEF TheDirectory!vars, Member, Enabled, Firm, Open, Session, Active, Exists, Founded

LEMMA SpentStays ==
  ASSUME AccountsInv, NEW p \in Req, Step(p), pc'[p] # "issued"
  PROVE  Spent' = Spent
BY DEF Spent, Step, Moves, Answered, Success

LEMMA StartPhase ==
  ASSUME TypeOK, NEW p \in Req, NEW phase, NEW r, Start(p, phase, r)
  PROVE  pc'[p] = phase
BY DEF TypeOK, Start

LEMMA ReceiveDirectory ==
  ASSUME AccountsInv, NEW p \in Req, Receive(p)
  PROVE  UNCHANGED TheDirectory!vars
<1>1. TypeOK
  BY DEF AccountsInv
<1> DEFINE Silent == row' = row /\ company' = company /\ pc'[p] # "issued"
<1>2. ASSUME NEW e \in Email, NEW t \in Tenant \cup {None}, NEW r \in Role, StartSignUp(p, e, t, r)
      PROVE  Silent
  BY <1>1, <1>2, StartPhase DEF StartSignUp
<1>3. ASSUME NEW e \in Email, NEW slug \in Slug \cup {None}, StartSignIn(p, e, slug)
      PROVE  Silent
  <2>1. ASSUME NEW phase \in {"findingUser", "refused"}, NEW r, Start(p, phase, r)
        PROVE  pc'[p] # "issued"
    BY <1>1, <2>1, StartPhase
  <2>2. row' = row /\ company' = company
    BY <1>3, Zenon DEF StartSignIn
  <2>3. pc'[p] # "issued"
    BY <1>3, <2>1, Zenon DEF StartSignIn
  <2> QED
    BY <2>2, <2>3
<1>4. ASSUME NEW token \in Req, StartRefresh(p, token) \/ StartSignOut(p, token)
      PROVE  Silent
  BY <1>1, <1>4, StartPhase DEF StartRefresh, StartSignOut
<1>5. ASSUME NEW token \in Req, NEW a \in Account, StartDeactivate(p, token, a)
      PROVE  Silent
  BY <1>1, <1>5, StartPhase DEF StartDeactivate
<1>6. ASSUME NEW token \in Req, NEW t \in Tenant, StartDeactivateTenant(p, token, t)
      PROVE  Silent
  BY <1>1, <1>6, StartPhase DEF StartDeactivateTenant
<1>7. ASSUME NEW token \in Req, NEW n \in Name, NEW s \in Slug, StartCreateTenant(p, token, n, s)
      PROVE  Silent
  BY <1>1, <1>7, StartPhase DEF StartCreateTenant
<1>8. Silent
  BY <1>2, <1>3, <1>4, <1>5, <1>6, <1>7 DEF Receive
<1> QED
  BY <1>8, ReceiveStep, SpentStays, DirectoryStutters

(* An UPDATE of the row r of a user who is there keeps who it is.          *)
LEMMA UpdatedUser ==
  ASSUME TypeOK, NEW a \in Account, Exists(a), NEW r \in Row,
         r.email = row[a].email, r.tenant = row[a].tenant, r.role = row[a].role,
         row' = [row EXCEPT ![a] = r], company' = company
  PROVE  /\ a \in TheDirectory!Members
         /\ Member' = Member /\ Firm' = Firm /\ Open' = Open
         /\ Session' = [Session EXCEPT ![a] = r.refreshToken]
         /\ Enabled' = IF r.isActive THEN Enabled \cup {a} ELSE Enabled \ {a}
<1>1. r # NoRow
  BY NoRowIsNone
<1>2. \A b \in Account : row'[b] = IF b = a THEN r ELSE row[b]
  BY DEF TypeOK
<1>3. a \in TheDirectory!Members
  BY Membership
<1>4. Firm' = Firm /\ Open' = Open
  BY DEF Firm, Open, Active, Founded
<1>5. Member' = Member
  BY <1>1, <1>2 DEF Member, Exists
<1>6. Session' = [Session EXCEPT ![a] = r.refreshToken]
  <2>1. /\ Session' = [b \in Account |-> IF row'[b] # NoRow THEN row'[b].refreshToken ELSE None]
        /\ Session = [b \in Account |-> IF row[b] # NoRow THEN row[b].refreshToken ELSE None]
    BY DEF Session, Exists
  <2>2. \A b \in Account : Session'[b] = IF b = a THEN r.refreshToken ELSE Session[b]
    BY <1>1, <1>2, <2>1
  <2> QED
    BY <2>1, <2>2
<1>7. Enabled' = IF r.isActive THEN Enabled \cup {a} ELSE Enabled \ {a}
  BY <1>1, <1>2 DEF Enabled, Exists
<1> QED
  BY <1>3, <1>4, <1>5, <1>6, <1>7

LEMMA UserDirectory ==
  ASSUME AccountsInv, NEW p \in Req, StoreRefreshToken(p) \/ SignOut(p) \/ Deactivate(p)
  PROVE  [TheDirectory!Next]_(TheDirectory!vars)
<1>1. TypeOK /\ req[p] \in Request /\ Fits(p)
  BY DEF AccountsInv
<1>2. \A a \in Account : Exists(a) => row[a] \in Row
  BY <1>1 DEF TypeOK, Exists
<1>3. Step(p)
  BY UserSteps
<1>4. CASE StoreRefreshToken(p)
  <2> DEFINE a == req[p].account
             r == [row[a] EXCEPT !.refreshToken = p]
  <2>1. /\ pc[p] = "issuing" /\ pc' = [pc EXCEPT ![p] = "issued"]
        /\ row' = [row EXCEPT ![a] = r] /\ company' = company
    BY <1>4 DEF StoreRefreshToken, Proceed
  <2>2. a \in Account /\ Exists(a) /\ row[a] \in Row
    BY <1>1, <1>2, <2>1 DEF Fits, Known, Waiting, Issuing, Anonymous
  <2>3. /\ r \in Row /\ r.email = row[a].email /\ r.tenant = row[a].tenant
        /\ r.role = row[a].role /\ r.isActive = row[a].isActive /\ r.refreshToken = p
    BY <2>2 DEF Row
  <2> HIDE DEF a, r
  <2>4. /\ a \in TheDirectory!Members
        /\ Member' = Member /\ Firm' = Firm /\ Open' = Open
        /\ Session' = [Session EXCEPT ![a] = p]
        /\ Enabled' = IF r.isActive THEN Enabled \cup {a} ELSE Enabled \ {a}
    BY <1>1, <2>1, <2>2, <2>3, UpdatedUser
  <2>5. Enabled' = Enabled
    BY <2>2, <2>3, <2>4 DEF Enabled
  <2>6. p \notin Spent /\ Spent' = Spent \cup {p}
    BY <1>1, <2>1 DEF Spent, TypeOK
  <2>7. TheDirectory!Authorize(a, p)
    BY <2>4, <2>5, <2>6 DEF TheDirectory!Authorize
  <2> QED
    BY <2>4, <2>7 DEF TheDirectory!Next
<1>5. CASE SignOut(p)
  <2> DEFINE a == req[p].account
             r == [row[a] EXCEPT !.refreshToken = None]
  <2>1. /\ pc[p] = "signingOut" /\ pc' = [pc EXCEPT ![p] = "signedOut"]
        /\ row' = [row EXCEPT ![a] = r] /\ company' = company
    BY <1>5 DEF SignOut, Proceed
  <2>2. a \in Account /\ Exists(a) /\ row[a] \in Row
    BY <1>1, <1>2, <2>1 DEF Fits, Known, Waiting, Anonymous
  <2>3. /\ r \in Row /\ r.email = row[a].email /\ r.tenant = row[a].tenant
        /\ r.role = row[a].role /\ r.isActive = row[a].isActive /\ r.refreshToken = None
    BY <2>2 DEF Row
  <2> HIDE DEF a, r
  <2>4. /\ a \in TheDirectory!Members
        /\ Member' = Member /\ Firm' = Firm /\ Open' = Open
        /\ Session' = [Session EXCEPT ![a] = None]
        /\ Enabled' = IF r.isActive THEN Enabled \cup {a} ELSE Enabled \ {a}
    BY <1>1, <2>1, <2>2, <2>3, UpdatedUser
  <2>5. Enabled' = Enabled
    BY <2>2, <2>3, <2>4 DEF Enabled
  <2>6. Spent' = Spent
    BY <1>1, <1>3, <2>1, SpentStays DEF TypeOK
  <2>7. TheDirectory!EndSession(a)
    BY <2>4, <2>5, <2>6 DEF TheDirectory!EndSession
  <2> QED
    BY <2>4, <2>7 DEF TheDirectory!Next
<1>6. CASE Deactivate(p)
  <2> DEFINE a == req[p].target
             r == [row[a] EXCEPT !.isActive = FALSE]
  <2>1. /\ pc[p] = "deactivating" /\ pc' = [pc EXCEPT ![p] = "deactivated"]
        /\ row' = [row EXCEPT ![a] = r] /\ company' = company
    BY <1>6 DEF Deactivate, Proceed
  <2>2. a \in Account /\ Exists(a) /\ row[a] \in Row
    BY <1>1, <1>2, <2>1 DEF Fits
  <2>3. /\ r \in Row /\ r.email = row[a].email /\ r.tenant = row[a].tenant
        /\ r.role = row[a].role /\ ~r.isActive /\ r.refreshToken = row[a].refreshToken
    BY <2>2 DEF Row
  <2> HIDE DEF a, r
  <2>4. /\ a \in TheDirectory!Members
        /\ Member' = Member /\ Firm' = Firm /\ Open' = Open
        /\ Session' = [Session EXCEPT ![a] = row[a].refreshToken]
        /\ Enabled' = IF r.isActive THEN Enabled \cup {a} ELSE Enabled \ {a}
    BY <1>1, <2>1, <2>2, <2>3, UpdatedUser
  <2>5. Session' = Session /\ Enabled' = Enabled \ {a}
    BY <2>2, <2>3, <2>4 DEF Session
  <2>6. Spent' = Spent
    BY <1>1, <1>3, <2>1, SpentStays DEF TypeOK
  <2>7. TheDirectory!Disable(a)
    BY <2>4, <2>5, <2>6 DEF TheDirectory!Disable
  <2> QED
    BY <2>4, <2>7 DEF TheDirectory!Next
<1> QED
  BY <1>4, <1>5, <1>6

LEMMA InsertDirectory ==
  ASSUME AccountsInv, NEW p \in Req, NEW a \in Account, Insert(p, a)
  PROVE  TheDirectory!Next
<1> DEFINE e == req[p].email
           t == req[p].tenant
           k == req[p].role
           N == [email |-> e, tenant |-> t, role |-> k, isActive |-> TRUE,
                 refreshToken |-> None]
<1>1. TypeOK /\ req[p] \in Request /\ Fits(p)
  BY DEF AccountsInv
<1>2. /\ pc[p] = "inserting" /\ ~Exists(a)
      /\ pc' = [pc EXCEPT ![p] = "issuing"]
      /\ row' = [row EXCEPT ![a] = N] /\ company' = company
      /\ ~Conflicts(e, t) /\ ~Dangling(t)
  BY DEF Insert, Proceed
<1>3. e \in Email /\ k \in Role /\ t \in Tenant \cup {None}
  BY <1>1, <1>2 DEF Fits, Request
<1>4. N \in Row /\ N # NoRow
  <2>1. N \in Row
    BY <1>3 DEF Row
  <2> HIDE DEF N
  <2> QED
    BY <2>1, NoRowIsNone
<1>5. \A b \in Account : row'[b] = IF b = a THEN N ELSE row[b]
  BY <1>1, <1>2 DEF TypeOK
<1>6. a \in Account \ TheDirectory!Members
  BY <1>1, <1>2, Membership
<1>7. t # None => t \in TheDirectory!Firms /\ \A b \in TheDirectory!Members :
                    <<Member[b].email, Member[b].tenant>> # <<e, t>>
  BY <1>1, <1>2, <1>3, Membership DEF Member, Conflicts, Dangling, Registered
<1>8. Member' = [Member EXCEPT ![a] = [email |-> e, tenant |-> t, role |-> k]]
  <2>1. \A b \in Account : Member'[b] = IF b = a THEN [email |-> e, tenant |-> t, role |-> k]
                                                  ELSE Member[b]
    BY <1>4, <1>5 DEF Member, Exists
  <2> QED
    BY <2>1 DEF Member
<1>9. Enabled' = Enabled \cup {a}
  BY <1>4, <1>5 DEF Enabled, Exists
<1>10. Firm' = Firm /\ Open' = Open
  BY <1>2 DEF Firm, Open, Active, Founded
<1>11. Session' = Session
  BY <1>2, <1>4, <1>5 DEF Session, Exists
<1>12. Spent' = Spent
  BY <1>1, <1>2, InsertStep, SpentStays DEF TypeOK
<1> HIDE DEF e, t, k
<1>13. TheDirectory!Enroll(a, e, t, k)
  BY <1>7, <1>8, <1>9, <1>10, <1>11, <1>12 DEF TheDirectory!Enroll
<1> QED
  BY <1>3, <1>6, <1>13 DEF TheDirectory!Next

(* The two writes of a row of tenants.                                     *)
LEMMA TenantDirectory ==
  ASSUME AccountsInv, NEW p \in Req,
         DeactivateTenant(p) \/ (\E u \in Tenant : InsertTenant(p, u))
  PROVE  [TheDirectory!Next]_(TheDirectory!vars)
<1>1. TypeOK /\ req[p] \in Request /\ Fits(p)
  BY DEF AccountsInv
<1>2. row' = row /\ Member' = Member /\ Enabled' = Enabled /\ Session' = Session
  BY DEF DeactivateTenant, InsertTenant, Member, Enabled, Session, Exists
<1>3. Step(p)
  BY DeactivateTenantStep, InsertTenantStep
<1>4. Spent' = Spent
  <2>1. pc'[p] # "issued"
    BY <1>1 DEF DeactivateTenant, InsertTenant, Proceed, TypeOK
  <2> QED
    BY <1>3, <2>1, SpentStays
<1>5. CASE DeactivateTenant(p) /\ ~Founded(req[p].tenant)
  <2>1. company' = company
    BY <1>5 DEF DeactivateTenant
  <2> QED
    BY <1>2, <1>4, <2>1, DirectoryStutters
<1>6. CASE DeactivateTenant(p) /\ Founded(req[p].tenant)
  <2> DEFINE t == req[p].tenant
             c == [company[t] EXCEPT !.isActive = FALSE]
  <2>1. pc[p] = "deactivatingTenant" /\ company' = [company EXCEPT ![t] = c]
    BY <1>6 DEF DeactivateTenant, Proceed
  <2>2. t \in Tenant /\ company[t] \in Company
    BY <1>1, <1>6, <2>1 DEF Fits, TypeOK, Founded
  <2>3. c \in Company /\ c.name = company[t].name /\ c.slug = company[t].slug /\ ~c.isActive
    BY <2>2 DEF Company
  <2>4. c # NoCompany
    BY <2>3, NoRowIsNone
  <2> HIDE DEF c
  <2>5. \A u \in Tenant : company'[u] = IF u = t THEN c ELSE company[u]
    BY <1>1, <2>1 DEF TypeOK
  <2>6. Firm' = Firm
    BY <1>6, <2>3, <2>4, <2>5 DEF Firm, Founded
  <2>7. Open' = Open \ {t}
    BY <2>3, <2>5 DEF Open, Active, Founded
  <2>8. t \in TheDirectory!Firms
    BY <1>1, <1>6, <2>2, Membership
  <2>9. TheDirectory!Close(t)
    BY <1>2, <1>4, <2>6, <2>7 DEF TheDirectory!Close
  <2> QED
    BY <2>8, <2>9 DEF TheDirectory!Next
<1>7. ASSUME NEW t \in Tenant, InsertTenant(p, t)
      PROVE  TheDirectory!Next
  <2> DEFINE n == req[p].name
             s == req[p].slug
             c == [name |-> n, slug |-> s, isActive |-> TRUE]
  <2>1. /\ pc[p] = "insertingTenant" /\ ~Founded(t)
        /\ company' = [company EXCEPT ![t] = c] /\ ~Clashes(n, s)
    BY <1>7 DEF InsertTenant, Proceed
  <2>2. n \in Name /\ s \in Slug
    BY <1>1, <2>1 DEF Fits
  <2>3. c # NoCompany
    <3>1. c \in Company
      BY <2>2 DEF Company
    <3> HIDE DEF c
    <3> QED
      BY <3>1, NoRowIsNone
  <2>4. \A u \in Tenant : company'[u] = IF u = t THEN c ELSE company[u]
    BY <1>1, <2>1 DEF TypeOK
  <2>5. t \in Tenant \ TheDirectory!Firms
    BY <1>1, <2>1, Membership
  <2>6. \A u \in TheDirectory!Firms : Firm[u].name # n /\ Firm[u].slug # s
    BY <1>1, <2>1, Membership DEF Firm, Clashes, Taken
  <2>7. Firm' = [Firm EXCEPT ![t] = [name |-> n, slug |-> s]]
    <3>1. \A u \in Tenant : Firm'[u] = IF u = t THEN [name |-> n, slug |-> s] ELSE Firm[u]
      BY <2>3, <2>4 DEF Firm, Founded
    <3> QED
      BY <3>1 DEF Firm
  <2>8. Open' = Open \cup {t}
    BY <2>3, <2>4 DEF Open, Active, Founded
  <2> HIDE DEF n, s
  <2>9. TheDirectory!Establish(t, n, s)
    BY <1>2, <1>4, <2>6, <2>7, <2>8 DEF TheDirectory!Establish
  <2> QED
    BY <2>2, <2>5, <2>9 DEF TheDirectory!Next
<1> QED
  BY <1>5, <1>6, <1>7

LEMMA PlainDirectory ==
  ASSUME AccountsInv, NEW p \in Req,
         \/ CheckEmail(p) \/ InsertRejected(p) \/ FindNobody(p) \/ Compare(p) \/ Find(p)
         \/ CheckTenant(p) \/ InsertTenantRejected(p) \/ Fail(p)
         \/ \E a \in Account : FindUser(p, a)
  PROVE  UNCHANGED TheDirectory!vars
<1>1. TypeOK
  BY DEF AccountsInv
<1>2. row' = row /\ company' = company
  BY DEF CheckEmail, InsertRejected, FindNobody, Compare, Find, CheckTenant,
         InsertTenantRejected, Fail, FindUser
<1>3. pc'[p] # "issued"
  BY <1>1 DEF CheckEmail, InsertRejected, FindNobody, Compare, Find, CheckTenant,
              InsertTenantRejected, Fail, FindUser, Proceed, TypeOK
<1> QED
  BY <1>2, <1>3, PlainSteps, FindUserStep, SpentStays, DirectoryStutters

LEMMA NextDirectory ==
  AccountsInv /\ [Next]_vars => [TheDirectory!Next]_(TheDirectory!vars)
<1> SUFFICES ASSUME AccountsInv, [Next]_vars
             PROVE  [TheDirectory!Next]_(TheDirectory!vars)
  OBVIOUS
<1>1. ASSUME NEW p \in Req, Receive(p) PROVE UNCHANGED TheDirectory!vars
  BY <1>1, ReceiveDirectory
<1>2. ASSUME NEW p \in Req, Serve(p) \/ Fail(p)
      PROVE  [TheDirectory!Next]_(TheDirectory!vars)
  BY <1>2, PlainDirectory, InsertDirectory, UserDirectory, TenantDirectory DEF Serve
<1>3. CASE UNCHANGED vars
  BY <1>3, DirectoryStutters DEF vars, Spent
<1> QED
  BY <1>1, <1>2, <1>3 DEF Next, Idle

(* However many requests race and wherever they fail, users and tenants    *)
(* change only as Directory says: identities last, e-mail addresses, names *)
(* and slugs stay unique, deactivations stay, and the token stored for an  *)
(* account is replaced only by the one of the answer just sent.            *)
THEOREM DirectoryRefinement == Spec => ImplementsDirectory
BY InitDirectory, NextDirectory, AccountsInvariant, PTL
DEF Spec, ImplementsDirectory, TheDirectory!Spec
=============================================================================
