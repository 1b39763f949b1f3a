-------------------------- MODULE AccountsRefinement --------------------------
(***************************************************************************)
(* Accounts implements Directory: a row is the account and its session in  *)
(* one, and a token is spent when the answer that bears it is sent.        *)
(***************************************************************************)
EXTENDS Accounts

Member ==
  [a \in Account |->
     IF Exists(a) THEN [email |-> row[a].email, tenant |-> row[a].tenant, role |-> row[a].role]
                  ELSE NoRow]
Enabled == {a \in Account : Exists(a) /\ row[a].isActive}
Firm ==
  [t \in Tenant |->
     IF Founded(t) THEN [name |-> company[t].name, slug |-> company[t].slug] ELSE NoCompany]
Open    == {t \in Tenant : Active(t)}
Session == [a \in Account |-> IF Exists(a) THEN row[a].refreshToken ELSE None]
Spent   == {p \in Req : pc[p] = "issued"}

TheDirectory == INSTANCE Directory WITH
  Token <- Req, member <- Member, enabled <- Enabled, firm <- Firm, open <- Open,
  session <- Session, spent <- Spent

(* However the requests of AuthService, UsersService and TenantsService    *)
(* interleave and wherever they fail, the tables users and tenants change  *)
(* only as the Directory does: a request still on its way neither renames, *)
(* moves nor reactivates an account or a tenant, duplicates none, and      *)
(* stores no token but the one it answers with.                            *)
ImplementsDirectory == TheDirectory!Spec
=============================================================================
