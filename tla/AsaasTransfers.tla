--------------------------- MODULE AsaasTransfers ---------------------------
(***************************************************************************)
(* The payment gateway (Asaas) as far as PIX transfers go: an external     *)
(* service, modelled from createPixTransfer and from the transfer webhooks *)
(* that handleTransferStatusUpdate tells apart.  Delivery is as unreliable *)
(* as for charges.                                                         *)
(***************************************************************************)
EXTENDS OrderIds

CONSTANT TransferIds   \* the transfer ids the gateway may hand out

ASSUME TransferNoneAssumption == None \notin TransferIds

VARIABLES
  pixOrder,      \* the order a PIX transfer pays out
  pixStatus,     \* the state of the transfer at the gateway
  pixSent        \* webhook messages emitted so far: <<status, transfer>>

pixVars == <<pixOrder, pixStatus, pixSent>>

\* The enum TransferStatus, also the statuses the gateway reports.
TransferStatus == {"PENDING", "DONE", "FAILED", "CANCELLED"}

PixTypeOK ==
  /\ pixOrder \in [TransferIds -> Orders \cup {None}]
  /\ pixStatus \in [TransferIds -> TransferStatus \cup {"absent"}]
  /\ pixSent \subseteq TransferStatus \X TransferIds

PixInit ==
  /\ pixOrder = [t \in TransferIds |-> None]
  /\ pixStatus = [t \in TransferIds |-> "absent"]
  /\ pixSent = {}

\* Call of the server: the money leaves the sub-account at once.
PixCreate(t, o) ==
  /\ pixStatus[t] = "absent"
  /\ pixOrder' = [pixOrder EXCEPT ![t] = o]
  /\ pixStatus' = [pixStatus EXCEPT ![t] = "PENDING"]
  /\ pixSent' = pixSent \cup {<<"PENDING", t>>}

\* The transfer ends, well or badly.
PixEnd(t) ==
  /\ pixStatus[t] = "PENDING"
  /\ \E s \in TransferStatus \ {"PENDING"} :
       /\ pixStatus' = [pixStatus EXCEPT ![t] = s]
       /\ pixSent' = pixSent \cup {<<s, t>>}
  /\ UNCHANGED pixOrder

=============================================================================
