-------------------------- MODULE ContractLifecycle --------------------------
(***************************************************************************)
(* What the status of a contract promises while the contract is drafted,   *)
(* accepted, documented and prepared for signature: no step of the process *)
(* is skipped.  A status may come back, because handlers act on what they  *)
(* read before, but none is entered that the process did not prepare,      *)
(* except by hand.  ContractFlow implements it.                            *)
(***************************************************************************)

CONSTANT ByHand   \* the statuses somebody may write directly

VARIABLES
  status,         \* Contract.status
  visited         \* the statuses the contract has had

lifecycle == <<status, visited>>

Statuses == {"EM_ELABORACAO", "AGUARDANDO_ACEITE_INQUILINO",
             "SOLICITANDO_ALTERACAO", "PENDENTE_DOCUMENTACAO", "EM_ANALISE",
             "AGUARDANDO_ASSINATURAS", "ATIVO", "FINALIZADO", "CANCELADO"}

\* The statuses that prepare s.
Before(s) ==
  CASE s = "AGUARDANDO_ACEITE_INQUILINO" ->
         {"EM_ELABORACAO", "SOLICITANDO_ALTERACAO"}
    [] s = "SOLICITANDO_ALTERACAO"  -> {"AGUARDANDO_ACEITE_INQUILINO"}
    [] s = "PENDENTE_DOCUMENTACAO"  -> {"AGUARDANDO_ACEITE_INQUILINO"}
    [] s = "EM_ANALISE"             -> {"PENDENTE_DOCUMENTACAO"}
    [] s = "AGUARDANDO_ASSINATURAS" -> {"EM_ANALISE"}
    [] s = "ATIVO"                  -> Statuses
    [] s = "CANCELADO"              -> Statuses \ {"CANCELADO", "FINALIZADO"}
    [] OTHER                        -> {}

Init ==
  /\ status = "EM_ELABORACAO"
  /\ visited = {"EM_ELABORACAO"}

Enter(s) ==
  /\ Before(s) \cap visited # {} \/ s \in ByHand
  /\ status' = s
  /\ visited' = visited \cup {s}

Next == \E s \in Statuses : Enter(s)

Spec == Init /\ [][Next]_lifecycle

=============================================================================
