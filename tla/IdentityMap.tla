------------------------------ MODULE IdentityMap ------------------------------
(***************************************************************************)
(* What signing in with OAuth2 promises: identities of a provider and      *)
(* accounts are matched one to one, and a login is answered with the       *)
(* account its identity has at that moment.  Abstract: whoever asks, a     *)
(* match is made, dissolved or looked up in one step.                      *)
(* OAuth2Binding implements it with four statements and two indexes.       *)
(***************************************************************************)
CONSTANTS Identity, User, Request, None

VARIABLES
  account,  \* matched pairs
  answer    \* the pair a login goes on with

vars == <<account, answer>>

Init ==
  /\ account = {}
  /\ answer = [q \in Request |-> None]

Free(i, u) == \A p \in account : p[1] # i /\ p[2] # u

\* A user adds an identity to the account.
Bind(i, u) ==
  /\ Free(i, u)
  /\ account' = account \cup {<<i, u>>}
  /\ UNCHANGED answer

\* A login finds the account of its identity.
Resolve(q) ==
  /\ \E p \in account : answer' = [answer EXCEPT ![q] = p]
  /\ UNCHANGED account

\* The first login of an identity.
BindAndResolve(q, i, u) ==
  /\ Free(i, u)
  /\ account' = account \cup {<<i, u>>}
  /\ answer' = [answer EXCEPT ![q] = <<i, u>>]

Unbind(u) ==
  /\ account' = {p \in account : p[2] # u}
  /\ UNCHANGED answer

\* The login is over, or failed.
Return(q) ==
  /\ answer' = [answer EXCEPT ![q] = None]
  /\ UNCHANGED account

Next ==
  \/ \E i \in Identity, u \in User : Bind(i, u)
  \/ \E q \in Request :
       \/ Resolve(q)
       \/ \E i \in Identity, u \in User : BindAndResolve(q, i, u)
       \/ Return(q)
  \/ \E u \in User : Unbind(u)

Spec == Init /\ [][Next]_vars

\* No identity has two accounts and no account two identities.
OneToOne ==
  \A p, r \in account : p[1] = r[1] \/ p[2] = r[2] => p = r
=============================================================================
