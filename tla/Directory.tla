------------------------------ MODULE Directory ------------------------------
(***************************************************************************)
(* What the accounts of the service promise, whatever requests race: an    *)
(* account keeps its e-mail address, tenant and role, a tenant its name    *)
(* and slug; both are unique; what was deactivated stays so; and the token *)
(* stored for an account is replaced only by one that was never stored     *)
(* before.  Which tokens are accepted while it is stored is not said here. *)
(***************************************************************************)
CONSTANTS Account, Tenant, Email, Name, Slug, Role, Token,
          None   \* no tenant, no session

VARIABLES member,   \* [email, tenant, role] of an account, or Nobody
          enabled,  \* the accounts that are not deactivated
          firm,     \* [name, slug] of a tenant, or Nothing
          open,     \* the tenants that are not deactivated
          session,  \* of an account: the token stored for it, or None
          spent     \* the tokens handed out so far

vars == <<member, enabled, firm, open, session, spent>>

Nobody  == [email |-> None]
Nothing == [name |-> None]
Members == {a \in Account : member[a] # Nobody}
Firms   == {t \in Tenant : firm[t] # Nothing}

Init ==
  /\ member \in [Account -> [email : Email, tenant : Tenant \cup {None}, role : Role] \cup {Nobody}]
  /\ \A a, b \in Members : a # b => <<member[a].email, member[a].tenant>>
                                      # <<member[b].email, member[b].tenant>>
  /\ firm \in [Tenant -> [name : Name, slug : Slug] \cup {Nothing}]
  /\ \A t, u \in Firms : t # u => firm[t].name # firm[u].name /\ firm[t].slug # firm[u].slug
  /\ enabled = Members
  /\ open = Firms
  /\ session = [a \in Account |-> None]
  /\ spent = {}

(* An e-mail address is unique within a tenant; nothing keeps those of     *)
(* the accounts without a tenant apart.                                    *)
Enroll(a, e, t, r) ==
  /\ t # None => t \in Firms /\ \A b \in Members :
                                     <<member[b].email, member[b].tenant>> # <<e, t>>
  /\ member' = [member EXCEPT ![a] = [email |-> e, tenant |-> t, role |-> r]]
  /\ enabled' = enabled \cup {a}
  /\ UNCHANGED <<firm, open, session, spent>>

(* A token is handed out once, to one account, and stored in place of the  *)
(* one before it.                                                          *)
Authorize(a, token) ==
  /\ token \notin spent
  /\ session' = [session EXCEPT ![a] = token]
  /\ spent' = spent \cup {token}
  /\ UNCHANGED <<member, enabled, firm, open>>

EndSession(a) ==
  /\ session' = [session EXCEPT ![a] = None]
  /\ UNCHANGED <<member, enabled, firm, open, spent>>

Disable(a) ==
  /\ enabled' = enabled \ {a}
  /\ UNCHANGED <<member, firm, open, session, spent>>

Establish(t, n, s) ==
  /\ \A u \in Firms : firm[u].name # n /\ firm[u].slug # s
  /\ firm' = [firm EXCEPT ![t] = [name |-> n, slug |-> s]]
  /\ open' = open \cup {t}
  /\ UNCHANGED <<member, enabled, session, spent>>

Close(t) ==
  /\ open' = open \ {t}
  /\ UNCHANGED <<member, enabled, firm, session, spent>>

Next ==
  \/ \E a \in Account \ Members, e \in Email, t \in Tenant \cup {None}, r \in Role :
       Enroll(a, e, t, r)
  \/ \E a \in Members :
       (\E token \in Token : Authorize(a, token)) \/ EndSession(a) \/ Disable(a)
  \/ \E t \in Tenant \ Firms, n \in Name, s \in Slug : Establish(t, n, s)
  \/ \E t \in Firms : Close(t)

Spec == Init /\ [][Next]_vars
=============================================================================
