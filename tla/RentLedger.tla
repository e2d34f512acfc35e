----------------------------- MODULE RentLedger -----------------------------
(***************************************************************************)
(* What billing promises about the money of the rent orders, without its   *)
(* charges, handlers and webhooks: which money has come in, which has been *)
(* sent to the landlord, and what may be shown of an order at each point.  *)
(* RentBilling implements it.                                              *)
(***************************************************************************)

CONSTANTS Orders, TransferIds, None

VARIABLES
  collected,   \* orders whose money reached the gateway account
  declared,    \* orders the landlord reported as paid in cash
  payee,       \* the order a transfer pays out, None before it is made
  arrived,     \* transfers that came through
  shown        \* what the tenant and the landlord see of an order

ledger == <<collected, declared, payee, arrived, shown>>

Shown == {"unpaid", "paid", "forwarding", "received"}

Init ==
  /\ collected = {}
  /\ declared = {}
  /\ payee = [t \in TransferIds |-> None]
  /\ arrived = {}
  /\ shown = [o \in Orders |-> "unpaid"]

Collect(o) ==
  /\ collected' = collected \cup {o}
  /\ UNCHANGED <<declared, payee, arrived, shown>>

Declare(o) ==
  /\ declared' = declared \cup {o}
  /\ UNCHANGED <<collected, payee, arrived, shown>>

\* Only money that came in is sent on; a transfer is made once.
Forward(t, o) ==
  /\ payee[t] = None
  /\ o \in collected
  /\ payee' = [payee EXCEPT ![t] = o]
  /\ UNCHANGED <<collected, declared, arrived, shown>>

Arrive(t) ==
  /\ payee[t] # None
  /\ arrived' = arrived \cup {t}
  /\ UNCHANGED <<collected, declared, payee, shown>>

\* What must have happened before an order is shown as s.
Justified(o, s) ==
  CASE s = "unpaid"     -> TRUE
    [] s = "paid"       -> o \in collected \cup declared
    [] s = "forwarding" -> \E t \in TransferIds : payee[t] = o
    [] s = "received"   -> \E t \in arrived : payee[t] = o

Show(o, s) ==
  /\ Justified(o, s)
  /\ shown' = [shown EXCEPT ![o] = s]
  /\ UNCHANGED <<collected, declared, payee, arrived>>

Next ==
  \/ \E o \in Orders : Collect(o) \/ Declare(o)
  \/ \E o \in Orders, s \in Shown : Show(o, s)
  \/ \E t \in TransferIds : Arrive(t) \/ \E o \in Orders : Forward(t, o)

Spec == Init /\ [][Next]_ledger

=============================================================================
