---------------------------- MODULE MCOnboarding ----------------------------
(* Onboarding for TLC.                                                     *)
EXTENDS Onboarding, TLC

MCContexts == {"CREATE_BANK_ACCOUNT", "PIX_KEY_UPDATE"}

\* A bound: what a charge makes in the account is apart from the review of the
\* account and from the commercial data: each meets what creates the account,
\* and what replaces it.
Apart ==
  LET reviewing == \E a \in Accounts : account[a].documents \/ reviewed[a] # {}
      charging ==
        \/ evp # {} \/ sub.key # NoId
        \/ \E k \in Customers : customerOf[k] # NoId
      informing == infos > 0
  IN  /\ ~(reviewing /\ charging)
      /\ ~(charging /\ informing)

Symmetry ==
  Permutations(Procs) \cup Permutations(Accounts) \cup Permutations(Customers)

=============================================================================
