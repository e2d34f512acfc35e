---------------------------- MODULE AsaasCharges ----------------------------
(***************************************************************************)
(* The payment gateway (Asaas) as far as charges go: an external service,  *)
(* modelled from how payment-gateway.service.ts calls it and which         *)
(* webhooks webhooks.service.ts handles.                                   *)
(*                                                                         *)
(* Webhooks are an ever growing set of messages: one that was emitted may  *)
(* be delivered late, in any order, again, or never.                       *)
(***************************************************************************)
EXTENDS OrderIds

CONSTANT ChargeIds   \* the charge ids the gateway may hand out

ASSUME ChargeNoneAssumption == None \notin ChargeIds

VARIABLES
  gwOrder,     \* the order a gateway charge was created for
  gwStatus,    \* what the gateway knows about the charge
  sent         \* webhook messages emitted so far: <<event, charge>>

gatewayVars == <<gwOrder, gwStatus, sent>>

GwStatus == {"absent", "PENDING", "OVERDUE", "CONFIRMED", "RECEIVED",
             "RECEIVED_IN_CASH", "DELETED"}

\* The payment events that processAsaasEvent tells apart.
ChargeEvents == {"PAYMENT_CONFIRMED", "PAYMENT_RECEIVED", "PAYMENT_OVERDUE",
                 "PAYMENT_DELETED", "PAYMENT_RESTORED"}

GatewayTypeOK ==
  /\ gwOrder \in [ChargeIds -> Orders \cup {None}]
  /\ gwStatus \in [ChargeIds -> GwStatus]
  /\ sent \subseteq ChargeEvents \X ChargeIds

GatewayInit ==
  /\ gwOrder = [c \in ChargeIds |-> None]
  /\ gwStatus = [c \in ChargeIds |-> "absent"]
  /\ sent = {}

\* A charge the payer can still pay.
Open(c) == gwStatus[c] \in {"PENDING", "OVERDUE"}

\* Money that reached the landlord's gateway account through the charge.
Collected(c) == gwStatus[c] \in {"CONFIRMED", "RECEIVED"}

-----------------------------------------------------------------------------
(* Calls of the server.                                                    *)

GwCreate(c, o) ==
  /\ gwStatus[c] = "absent"
  /\ gwOrder' = [gwOrder EXCEPT ![c] = o]
  /\ gwStatus' = [gwStatus EXCEPT ![c] = "PENDING"]
  /\ UNCHANGED sent

\* Only an open charge can be cancelled; the server's cancellation is
\* reported by a webhook like one made in the gateway's own panel.
GwCancel(c) ==
  /\ Open(c)
  /\ gwStatus' = [gwStatus EXCEPT ![c] = "DELETED"]
  /\ sent' = sent \cup {<<"PAYMENT_DELETED", c>>}
  /\ UNCHANGED gwOrder

\* receiveInCash closes the charge; its webhook is one the server ignores.
GwCash(c) ==
  /\ Open(c)
  /\ gwStatus' = [gwStatus EXCEPT ![c] = "RECEIVED_IN_CASH"]
  /\ UNCHANGED <<gwOrder, sent>>

-----------------------------------------------------------------------------
(* What happens at the gateway by itself.                                  *)

\* The payer pays: the payment is confirmed first or received at once.
GwPay(c) ==
  /\ Open(c)
  /\ \/ /\ gwStatus' = [gwStatus EXCEPT ![c] = "CONFIRMED"]
        /\ sent' = sent \cup {<<"PAYMENT_CONFIRMED", c>>}
     \/ /\ gwStatus' = [gwStatus EXCEPT ![c] = "RECEIVED"]
        /\ sent' = sent \cup {<<"PAYMENT_RECEIVED", c>>}
  /\ UNCHANGED gwOrder

\* A confirmed payment is credited.
GwCredit(c) ==
  /\ gwStatus[c] = "CONFIRMED"
  /\ gwStatus' = [gwStatus EXCEPT ![c] = "RECEIVED"]
  /\ sent' = sent \cup {<<"PAYMENT_RECEIVED", c>>}
  /\ UNCHANGED gwOrder

\* The charge passes its due date unpaid.
GwExpire(c) ==
  /\ gwStatus[c] = "PENDING"
  /\ gwStatus' = [gwStatus EXCEPT ![c] = "OVERDUE"]
  /\ sent' = sent \cup {<<"PAYMENT_OVERDUE", c>>}
  /\ UNCHANGED gwOrder

\* A deleted charge is restored in the gateway's panel.
GwRestore(c) ==
  /\ gwStatus[c] = "DELETED"
  /\ gwStatus' = [gwStatus EXCEPT ![c] = "PENDING"]
  /\ sent' = sent \cup {<<"PAYMENT_RESTORED", c>>}
  /\ UNCHANGED gwOrder

=============================================================================
