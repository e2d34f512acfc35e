---------------------------- MODULE MCActivation ----------------------------
(* Small instances of Activation for TLC.                                  *)
EXTENDS Activation, FiniteSets, TLC

\* Two handlers meet, and fail, before the gateway holds a charge; charges
\* and their webhooks go through one handler after the other.
Apart ==
  \/ \A i \in ChargeIds : gwStatus[i] = "absent"
  \/ /\ crashes = 0
     /\ hasDeposit /\ contract # "AGUARDANDO_ASSINATURAS"
     /\ Cardinality(sent) <= 3
     /\ Cardinality({p \in Procs : ~At(p, "idle")}) <= 1

\* Handlers, order ids and charge ids are interchangeable.
Symmetry ==
  Permutations(Procs) \cup Permutations(Orders) \cup Permutations(ChargeIds)

=============================================================================
