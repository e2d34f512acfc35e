--------------------------- MODULE MCContractFlow ---------------------------
(* Small instances of ContractFlow for TLC.                                *)
EXTENDS ContractFlow, TLC

CONSTANTS f1, f2, v1, c1, i1   \* rows: front, back, CPF, income

\* One row of each type but two of the front, so that it is sent again.
RowTypes ==
  (f1 :> "IDENTIDADE_FRENTE") @@ (f2 :> "IDENTIDADE_FRENTE")
    @@ (v1 :> "IDENTIDADE_VERSO") @@ (c1 :> "CPF")
    @@ (i1 :> "COMPROVANTE_RENDA")

RowType == [r \in Rows |-> RowTypes[r]]

\* Alterations, cancellation, PUT and failures meet each other, and the
\* documents only as long as none was sent.
Apart ==
  \/ \A r \in Rows : doc[r] = "absent"
  \/ /\ visited \cap {"SOLICITANDO_ALTERACAO", "ATIVO", "CANCELADO"} = {}
     /\ text <= 1 /\ put = {} /\ crashes = 0

\* Handlers are interchangeable.
Symmetry == Permutations(Procs)

=============================================================================
