---------------------------- MODULE MCOAuth2Binding ----------------------------
(* Small instances of OAuth2Binding for TLC.                                 *)
EXTENDS OAuth2Binding, TLC

\* Identities, accounts, emails, states and handlers are interchangeable.
Symmetry ==
  Permutations(Identity) \cup Permutations(User) \cup Permutations(Email)
    \cup Permutations(State) \cup Permutations(Request)
=============================================================================
