---------------------------- MODULE MCRentBilling ----------------------------
(* Small instances of RentBilling for TLC.                                 *)
EXTENDS RentBilling, TLC

\* Two handlers meet over two charges, and fail, before a PIX transfer is
\* made; payouts are of one charge, and without failures.
Apart ==
  \/ /\ \A t \in TransferIds : pixStatus[t] = "absent"
     /\ crashes = 0 \/ contract # "FINALIZADO"
     /\ Cardinality(sent) <= 2
  \/ /\ crashes = 0
     /\ contract # "FINALIZADO"
     /\ Cardinality(sent) <= 4 /\ Cardinality(pixSent) <= 3
     /\ Cardinality({c \in ChargeIds : gwStatus[c] # "absent"}) <= 1

\* Handlers, charge ids and transfer ids are interchangeable.
Symmetry == Permutations(Procs) \cup Permutations(ChargeIds)
              \cup Permutations(TransferIds)

=============================================================================
