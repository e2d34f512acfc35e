----------------------------- MODULE MCAccounts -----------------------------
(* Accounts for TLC: handlers are interchangeable.  Codes and links meet   *)
(* nowhere but in the registration, so a behaviour has one or the other.   *)
EXTENDS Accounts, TLC

MCContexts == {"LOGIN_2FA", "DISABLE_2FA", "UPDATE_USER_PROFILE"}

Symmetry == Permutations(Procs)

\* A bound: either links are made, or codes.
Apart ==
  \/ \A n \in Numbers : issued[n] \in Links
  \/ \A n \in Numbers : issued[n] \in Contexts

=============================================================================
