----------------------------- MODULE RentBilling -----------------------------
(***************************************************************************)
(* The life of the rent payment orders of one active contract: charge      *)
(* generation (endpoint, daily scheduler and worker), payment, overdue,    *)
(* deletion and restoration webhooks, cash payments, the automatic payout  *)
(* to the landlord with its own webhooks, cancelling and force-activating  *)
(* the contract.                                                           *)
(*                                                                         *)
(* No handler runs in a transaction.  Each one is split at its awaits: the *)
(* read of its rows with the checks on them, every call of the gateway and *)
(* every write is a step of its own, and between two steps the handler is  *)
(* a task holding what it read, which a failure or a crash forgets.        *)
(***************************************************************************)
EXTENDS AsaasCharges, AsaasTransfers, Naturals, FiniteSets

CONSTANTS
  Procs,        \* handlers that can be in flight at once
  First,        \* the order of the contract that is due first
  Updates,      \* the statuses that PUT contracts/:id is used to set
  MaxCrashes    \* bound on the failures that end handlers

\* AGUARDANDO_GARANTIA stands for all the statuses before ATIVO.
ContractStatus == {"AGUARDANDO_GARANTIA", "ATIVO", "FINALIZADO", "CANCELADO"}

ASSUME BillingAssumption ==
  /\ First \in Orders
  /\ Updates \subseteq ContractStatus
  /\ MaxCrashes \in Nat

VARIABLES
  contract,        \* Contract.status
  order,           \* PaymentOrder.status, per order
  late,            \* the orders whose due date is past
  charge,          \* Charge.asaasChargeId of the order's charge row, or None
  transferStatus,  \* Transfer.status, "absent" without a row
  transferOrder,   \* Transfer.paymentOrderId
  jobs,            \* orders with a job waiting in the charge queue
  task,            \* the handlers in flight
  cash,            \* history: orders the landlord reported as paid in cash
  crashes          \* failures so far

dbVars == <<contract, order, charge, transferStatus, transferOrder>>
vars == <<gatewayVars, pixVars, dbVars, late, jobs, task, cash, crashes>>

\* The statuses of PaymentOrder that some code of the server writes.
PaymentStatus == {"PENDENTE", "PAGO", "ATRASADO", "CANCELADO", "EM_REPASSE",
                  "RECEBIDO"}

\* A task is named for the step it will do next.
Ops == {"idle", "gen_read", "gen_call", "gen_save", "confirm_write",
        "payout_call", "payout_save", "overdue_write", "sweep", "cash_write",
        "cancel_gateway", "cancel_contract", "settle_done", "settle_failed"}

Task(op, o, i, todo) == [op |-> op, order |-> o, id |-> i, todo |-> todo]

IdleTask == Task("idle", None, None, {})

TypeOK ==
  /\ GatewayTypeOK
  /\ PixTypeOK
  /\ contract \in ContractStatus
  /\ order \in [Orders -> PaymentStatus]
  /\ late \subseteq Orders
  /\ charge \in [Orders -> ChargeIds \cup {None}]
  /\ transferStatus \in [TransferIds -> TransferStatus \cup {"absent"}]
  /\ transferOrder \in [TransferIds -> Orders \cup {None}]
  /\ jobs \subseteq Orders
  /\ task \in [Procs -> [op : Ops, order : Orders \cup {None},
                         id : ChargeIds \cup TransferIds \cup {None},
                         todo : SUBSET Orders]]
  /\ cash \subseteq Orders
  /\ crashes \in Nat

\* The contract has just become ATIVO and its schedule has been created.
Init ==
  /\ GatewayInit
  /\ PixInit
  /\ contract = "ATIVO"
  /\ order = [o \in Orders |-> "PENDENTE"]
  /\ late = {}
  /\ charge = [o \in Orders |-> None]
  /\ transferStatus = [t \in TransferIds |-> "absent"]
  /\ transferOrder = [t \in TransferIds |-> None]
  /\ jobs = {}
  /\ task = [p \in Procs |-> IdleTask]
  /\ cash = {}
  /\ crashes = 0

-----------------------------------------------------------------------------
(* Tasks.                                                                  *)

At(p, op) == task[p].op = op

Continue(p, t) == task' = [task EXCEPT ![p] = t]

Start(p, t) == At(p, "idle") /\ Continue(p, t)

Finish(p) == Continue(p, IdleTask)

-----------------------------------------------------------------------------
(* generateChargeForPaymentOrder.  Here and below, an operator marked      *)
(* "Variant" is the definition after it as a plausible slip would have it; *)
(* no other definition uses it.                                            *)

\* Every check made on the rows read, the one on the due date included.
Generable(o) ==
  /\ charge[o] = None
  /\ order[o] # "ATRASADO"
  /\ contract = "ATIVO"
  /\ o \notin late

\* The read: what comes next for the task that asked for the charge of o.
AfterGenerateRead(o) ==
  IF Generable(o) THEN Task("gen_call", o, None, {}) ELSE IdleTask

\* POST charges/generate.
StartGenerate(p, o) ==
  /\ Generable(o)
  /\ Start(p, AfterGenerateRead(o))
  /\ UNCHANGED <<gatewayVars, pixVars, dbVars, late, jobs, cash, crashes>>

\* The first charge after an activation.
GenerateRead(p) ==
  /\ At(p, "gen_read")
  /\ Continue(p, AfterGenerateRead(task[p].order))
  /\ UNCHANGED <<gatewayVars, pixVars, dbVars, late, jobs, cash, crashes>>

GenerateCall(p, c) ==
  /\ At(p, "gen_call")
  /\ GwCreate(c, task[p].order)
  /\ Continue(p, Task("gen_save", task[p].order, c, {}))
  /\ UNCHANGED <<pixVars, dbVars, late, jobs, cash, crashes>>

\* The gateway refuses or times out: the exception ends the handler.
GenerateFail(p) ==
  /\ At(p, "gen_call")
  /\ Finish(p)
  /\ UNCHANGED <<gatewayVars, pixVars, dbVars, late, jobs, cash, crashes>>

\* Variant: an upsert in place of the insert.
GenerateSaveUpsert(p) ==
  /\ At(p, "gen_save")
  /\ charge' = [charge EXCEPT ![task[p].order] = task[p].id]
  /\ Finish(p)
  /\ UNCHANGED <<gatewayVars, pixVars, contract, order, transferStatus,
                 transferOrder, late, jobs, cash, crashes>>

\* Charge.paymentOrderId is unique: the insert fails when a row is there.
GenerateSave(p) ==
  /\ At(p, "gen_save")
  /\ charge' = IF charge[task[p].order] = None
               THEN [charge EXCEPT ![task[p].order] = task[p].id]
               ELSE charge
  /\ Finish(p)
  /\ UNCHANGED <<gatewayVars, pixVars, contract, order, transferStatus,
                 transferOrder, late, jobs, cash, crashes>>

\* Variant: the comparison with today is turned round.
EnqueuedPast == {o \in late : order[o] = "PENDENTE" /\ charge[o] = None}

\* The 6 AM scheduler.
Enqueued == {o \in Orders : order[o] = "PENDENTE" /\ charge[o] = None
                            /\ o \notin late}

EnqueueCharges ==
  /\ ~ Enqueued \subseteq jobs
  /\ jobs' = jobs \cup Enqueued
  /\ UNCHANGED <<gatewayVars, pixVars, dbVars, late, task, cash, crashes>>

\* The worker takes a job, which has a single attempt.
TakeJob(p, o) ==
  /\ o \in jobs
  /\ jobs' = jobs \ {o}
  /\ Start(p, AfterGenerateRead(o))
  /\ UNCHANGED <<gatewayVars, pixVars, dbVars, late, cash, crashes>>

-----------------------------------------------------------------------------
(* confirmPaymentByChargeId and initiateAutomaticTransfer.                 *)

\* Variant: a case without its break.
ConfirmEventsFallThrough ==
  {"PAYMENT_RECEIVED", "PAYMENT_CONFIRMED", "PAYMENT_OVERDUE"}

\* The cases of processAsaasEvent that confirm a payment.
ConfirmEvents == {"PAYMENT_RECEIVED", "PAYMENT_CONFIRMED"}

\* The webhook finds the order by the charge row; a paid order is left alone.
StartConfirm(p, o) ==
  /\ \E e \in ConfirmEvents : <<e, charge[o]>> \in sent
  /\ order[o] # "PAGO"
  /\ Start(p, Task("confirm_write", o, None, {}))
  /\ UNCHANGED <<gatewayVars, pixVars, dbVars, late, jobs, cash, crashes>>

ConfirmWrite(p) ==
  /\ At(p, "confirm_write")
  /\ order' = [order EXCEPT ![task[p].order] = "PAGO"]
  /\ Continue(p, Task("payout_call", task[p].order, None, {}))
  /\ UNCHANGED <<gatewayVars, pixVars, contract, charge, transferStatus,
                 transferOrder, late, jobs, cash, crashes>>

\* No bank account, nothing left after the fees, a failed notification, or a
\* refusal of the gateway, which is caught and reported to the admins.
PayoutSkip(p) ==
  /\ At(p, "payout_call")
  /\ Finish(p)
  /\ UNCHANGED <<gatewayVars, pixVars, dbVars, late, jobs, cash, crashes>>

PayoutCall(p, t) ==
  /\ At(p, "payout_call")
  /\ PixCreate(t, task[p].order)
  /\ Continue(p, Task("payout_save", task[p].order, t, {}))
  /\ UNCHANGED <<gatewayVars, dbVars, late, jobs, cash, crashes>>

\* Variant: the row linked before stays linked.
PayoutSaveKeepingOld(p) ==
  LET o == task[p].order
      t == task[p].id
  IN /\ At(p, "payout_save")
     /\ order' = [order EXCEPT ![o] = "EM_REPASSE"]
     /\ transferStatus' = [transferStatus EXCEPT ![t] = "PENDING"]
     /\ transferOrder' = [transferOrder EXCEPT ![t] = o]
     /\ Finish(p)
     /\ UNCHANGED <<gatewayVars, pixVars, contract, charge, late, jobs, cash,
                    crashes>>

\* createTransferRecord: the nested create takes the place of the row that
\* was linked to the order, which stays without one.
PayoutSave(p) ==
  LET o == task[p].order
      t == task[p].id
  IN /\ At(p, "payout_save")
     /\ order' = [order EXCEPT ![o] = "EM_REPASSE"]
     /\ transferStatus' = [transferStatus EXCEPT ![t] = "PENDING"]
     /\ transferOrder' = [u \in TransferIds |->
                            IF u = t THEN o
                            ELSE IF transferOrder[u] = o THEN None
                            ELSE transferOrder[u]]
     /\ Finish(p)
     /\ UNCHANGED <<gatewayVars, pixVars, contract, charge, late, jobs, cash,
                    crashes>>

-----------------------------------------------------------------------------
(* handleTransferStatusUpdate.                                             *)

\* Variant: a cancelled transfer counts as done.
SettlementCancelledDone(s) ==
  IF s = "FAILED" THEN "settle_failed" ELSE "settle_done"

\* What a final transfer status does to the order; PENDING does nothing.
Settlement(s) == IF s = "DONE" THEN "settle_done" ELSE "settle_failed"

\* Without a row the webhook is ignored.
StartSettle(p, t, s) ==
  /\ <<s, t>> \in pixSent
  /\ transferStatus[t] # "absent"
  /\ transferStatus' = [transferStatus EXCEPT ![t] = s]
  /\ Start(p, IF s = "PENDING" \/ transferOrder[t] = None THEN IdleTask
              ELSE Task(Settlement(s), transferOrder[t], None, {}))
  /\ UNCHANGED <<gatewayVars, pixVars, contract, order, charge, transferOrder,
                 late, jobs, cash, crashes>>

SettleWrite(p) ==
  /\ task[p].op \in {"settle_done", "settle_failed"}
  /\ order' = [order EXCEPT ![task[p].order] =
                 IF At(p, "settle_done") THEN "RECEBIDO" ELSE "PAGO"]
  /\ Finish(p)
  /\ UNCHANGED <<gatewayVars, pixVars, contract, charge, transferStatus,
                 transferOrder, late, jobs, cash, crashes>>

-----------------------------------------------------------------------------
(* processOverduePayment, from a webhook or from the 5 AM scheduler.       *)

StartOverdue(p, o) ==
  /\ <<"PAYMENT_OVERDUE", charge[o]>> \in sent
  /\ order[o] # "ATRASADO"
  /\ Start(p, Task("overdue_write", o, None, {}))
  /\ UNCHANGED <<gatewayVars, pixVars, dbVars, late, jobs, cash, crashes>>

OverdueWrite(p) ==
  /\ At(p, "overdue_write")
  /\ order' = [order EXCEPT ![task[p].order] = "ATRASADO"]
  /\ Finish(p)
  /\ UNCHANGED <<gatewayVars, pixVars, contract, charge, transferStatus,
                 transferOrder, late, jobs, cash, crashes>>

\* Variant: the query asks for the charge too.
OverdueCharged == {o \in late : order[o] = "PENDENTE" /\ charge[o] # None}

\* What the scheduler's query returns.
Overdue == {o \in late : order[o] = "PENDENTE"}

StartSweep(p) ==
  /\ Overdue # {}
  /\ Start(p, Task("sweep", None, None, Overdue))
  /\ UNCHANGED <<gatewayVars, pixVars, dbVars, late, jobs, cash, crashes>>

\* The loop works on the rows of the query; a notification that fails after
\* a write ends it.
SweepWrite(p) ==
  /\ At(p, "sweep")
  /\ \E o \in task[p].todo :
       /\ order' = [order EXCEPT ![o] = "ATRASADO"]
       /\ \E rest \in {task[p].todo \ {o}, {}} :
            Continue(p, IF rest = {} THEN IdleTask
                        ELSE Task("sweep", None, None, rest))
  /\ UNCHANGED <<gatewayVars, pixVars, contract, charge, transferStatus,
                 transferOrder, late, jobs, cash, crashes>>

-----------------------------------------------------------------------------
(* updatePaymentStatusByChargeId: whatever the order's status is.  Its read *)
(* finds the order of the charge row, which never changes: one step.       *)

StatusWebhook(o, event, status) ==
  /\ <<event, charge[o]>> \in sent
  /\ order' = [order EXCEPT ![o] = status]
  /\ UNCHANGED <<gatewayVars, pixVars, contract, charge, transferStatus,
                 transferOrder, late, jobs, task, cash, crashes>>

\* Variant: the gateway's own word is stored.
DeletedRaw(o) == StatusWebhook(o, "PAYMENT_DELETED", "DELETED")

Deleted(o) == StatusWebhook(o, "PAYMENT_DELETED", "CANCELADO")

Restored(o) == StatusWebhook(o, "PAYMENT_RESTORED", "PENDENTE")

-----------------------------------------------------------------------------
(* confirmCashPayment, whatever the order's status is.                     *)

\* With a charge the gateway is told first, and an error of it ends the
\* handler; without one the payment is only recorded.
StartCash(p, o) ==
  /\ IF charge[o] = None THEN UNCHANGED gatewayVars ELSE GwCash(charge[o])
  /\ Start(p, Task("cash_write", o, None, {}))
  /\ cash' = cash \cup {o}
  /\ UNCHANGED <<pixVars, dbVars, late, jobs, crashes>>

\* Variant: cash is paid out like a payment at the gateway.
CashWriteThenPayout(p) ==
  /\ At(p, "cash_write")
  /\ order' = [order EXCEPT ![task[p].order] = "PAGO"]
  /\ Continue(p, Task("payout_call", task[p].order, None, {}))
  /\ UNCHANGED <<gatewayVars, pixVars, contract, charge, transferStatus,
                 transferOrder, late, jobs, cash, crashes>>

CashWrite(p) ==
  /\ At(p, "cash_write")
  /\ order' = [order EXCEPT ![task[p].order] = "PAGO"]
  /\ Finish(p)
  /\ UNCHANGED <<gatewayVars, pixVars, contract, charge, transferStatus,
                 transferOrder, late, jobs, cash, crashes>>

-----------------------------------------------------------------------------
(* cancelContract, update and forceActivateContract.                       *)

\* The pending orders with a charge, as the contract was read.
StartCancel(p) ==
  /\ contract \notin {"CANCELADO", "FINALIZADO"}
  /\ Start(p, Task("cancel_gateway", None, None,
                   {o \in Orders : order[o] = "PENDENTE" /\ charge[o] # None}))
  /\ UNCHANGED <<gatewayVars, pixVars, dbVars, late, jobs, cash, crashes>>

\* An error of the gateway is logged and swallowed.
CancelCharge(p) ==
  /\ At(p, "cancel_gateway")
  /\ \E o \in task[p].todo :
       /\ GwCancel(charge[o]) \/ UNCHANGED gatewayVars
       /\ Continue(p, Task("cancel_gateway", None, None, task[p].todo \ {o}))
  /\ UNCHANGED <<pixVars, dbVars, late, jobs, cash, crashes>>

\* updateMany: the orders that are pending now.
CancelOrders(p) ==
  /\ At(p, "cancel_gateway")
  /\ task[p].todo = {}
  /\ order' = [o \in Orders |->
                 IF order[o] = "PENDENTE" THEN "CANCELADO" ELSE order[o]]
  /\ Continue(p, Task("cancel_contract", None, None, {}))
  /\ UNCHANGED <<gatewayVars, pixVars, contract, charge, transferStatus,
                 transferOrder, late, jobs, cash, crashes>>

CancelContract(p) ==
  /\ At(p, "cancel_contract")
  /\ contract' = "CANCELADO"
  /\ Finish(p)
  /\ UNCHANGED <<gatewayVars, pixVars, order, charge, transferStatus,
                 transferOrder, late, jobs, cash, crashes>>

\* PUT contracts/:id: the status is a field like the others.
Update(s) ==
  /\ contract' = s
  /\ UNCHANGED <<gatewayVars, pixVars, order, charge, transferStatus,
                 transferOrder, late, jobs, task, cash, crashes>>

\* No check on the contract's status.  The schedule exists, so no order is
\* created, and the first charge is generated.
ForceActivate(p) ==
  /\ contract' = "ATIVO"
  /\ Start(p, Task("gen_read", First, None, {}))
  /\ UNCHANGED <<gatewayVars, pixVars, order, charge, transferStatus,
                 transferOrder, late, jobs, cash, crashes>>

-----------------------------------------------------------------------------
(* Time, the server process and the gateway.                               *)

\* The due date of o passes; the first order's passes first.
Age(o) ==
  /\ o \notin late
  /\ o # First => First \in late
  /\ late' = late \cup {o}
  /\ UNCHANGED <<gatewayVars, pixVars, dbVars, jobs, task, cash, crashes>>

\* Handlers die: one whose database statement throws, or all of them with
\* the process.  The queue lives in Redis and runs a job again whose worker
\* died with the process.
Crash ==
  \E dead \in (SUBSET Procs) \ {{}} :
    LET generating == {q \in dead : task[q].op \in {"gen_call", "gen_save"}}
    IN /\ crashes < MaxCrashes
       /\ crashes' = crashes + 1
       /\ task' = [p \in Procs |-> IF p \in dead THEN IdleTask ELSE task[p]]
       /\ \E stalled \in SUBSET generating :
            jobs' = jobs \cup {task[q].order : q \in stalled}
       /\ UNCHANGED <<gatewayVars, pixVars, dbVars, late, cash>>

GatewayStep ==
  /\ \E c \in ChargeIds :
       \/ GwPay(c)
       \/ GwCredit(c)
       \/ gwOrder[c] \in late /\ GwExpire(c)
       \/ GwCancel(c)
       \/ GwRestore(c)
  /\ UNCHANGED <<pixVars, dbVars, late, jobs, task, cash, crashes>>

PixStep ==
  /\ \E t \in TransferIds : PixEnd(t)
  /\ UNCHANGED <<gatewayVars, dbVars, late, jobs, task, cash, crashes>>

-----------------------------------------------------------------------------

\* A request, a webhook or a scheduler starts a handler.
Begin(p) ==
  \/ \E o \in Orders : \/ StartGenerate(p, o)
                       \/ TakeJob(p, o)
                       \/ StartConfirm(p, o)
                       \/ StartOverdue(p, o)
                       \/ StartCash(p, o)
  \/ \E t \in TransferIds, s \in TransferStatus : StartSettle(p, t, s)
  \/ StartSweep(p)
  \/ StartCancel(p)
  \/ ForceActivate(p)

\* A handler in flight does its next step.
Step(p) ==
  \/ GenerateRead(p)
  \/ \E c \in ChargeIds : GenerateCall(p, c)
  \/ GenerateFail(p)
  \/ GenerateSave(p)
  \/ ConfirmWrite(p)
  \/ PayoutSkip(p)
  \/ \E t \in TransferIds : PayoutCall(p, t)
  \/ PayoutSave(p)
  \/ SettleWrite(p)
  \/ OverdueWrite(p)
  \/ SweepWrite(p)
  \/ CashWrite(p)
  \/ CancelCharge(p)
  \/ CancelOrders(p)
  \/ CancelContract(p)

Next ==
  \/ \E p \in Procs : Begin(p) \/ Step(p)
  \/ \E o \in Orders : Deleted(o) \/ Restored(o) \/ Age(o)
  \/ EnqueueCharges
  \/ \E s \in Updates : Update(s)
  \/ GatewayStep
  \/ PixStep
  \/ Crash

Spec == Init /\ [][Next]_vars

-----------------------------------------------------------------------------
(* Safety.                                                                 *)

\* The orders of which the gateway collected a charge.
CollectedOrders == {gwOrder[c] : c \in {d \in ChargeIds : Collected(d)}}

\* A charge row names a gateway charge that was created for that very order,
\* so that a webhook found by its charge id never touches another order, and
\* no two orders share a gateway charge (generateChargeForPaymentOrder runs
\* concurrently and unlocked).
ChargeBelongsToOrder ==
  \A o \in Orders : charge[o] # None => gwOrder[charge[o]] = o

\* An order that is shown as paid, being paid out or paid out has its money:
\* the gateway collected a charge of it, or the landlord reported cash
\* (confirmPaymentByChargeId, confirmCashPayment, and the way back to PAGO of
\* handleTransferStatusUpdate, under stale, repeated and reordered webhooks).
MoneyBehindPaid ==
  \A o \in Orders :
    order[o] \in {"PAGO", "EM_REPASSE", "RECEBIDO"} =>
      o \in CollectedOrders \cup cash

\* A PIX transfer pays out only an order whose money the gateway collected:
\* cash in the landlord's hand is never sent a second time.
PayoutOnlyCollected ==
  \A t \in TransferIds :
    pixStatus[t] # "absent" => pixOrder[t] \in CollectedOrders

\* An order is shown as received by the landlord only when a transfer of
\* that order has come through at the gateway.
ReceivedWasTransferred ==
  \A o \in Orders :
    order[o] = "RECEBIDO" =>
      \E t \in TransferIds : pixOrder[t] = o /\ pixStatus[t] = "DONE"

\* A linked transfer row is the row of a gateway transfer of that order, and
\* an order has at most one linked row (createTransferRecord detaches).
TransferRowOfOrder ==
  \A t \in TransferIds :
    transferOrder[t] # None =>
      /\ transferStatus[t] # "absent"
      /\ pixOrder[t] = transferOrder[t]
      /\ \A u \in TransferIds \ {t} : transferOrder[u] # transferOrder[t]

-----------------------------------------------------------------------------
(* The promise to the people: RentLedger, in terms of this module.         *)

View(s) == CASE s = "PAGO"       -> "paid"
             [] s = "EM_REPASSE" -> "forwarding"
             [] s = "RECEBIDO"   -> "received"
             [] OTHER            -> "unpaid"

Ledger == INSTANCE RentLedger WITH
  collected <- CollectedOrders,
  declared  <- cash,
  payee     <- pixOrder,
  arrived   <- {t \in TransferIds : pixStatus[t] = "DONE"},
  shown     <- [o \in Orders |-> View(order[o])]

\* Billing implements the ledger: money is sent on only after it came in, no
\* transfer is made twice, and every status change of an order is justified
\* at the very step that writes it, by whichever handler and however stale.
ImplementsLedger == Ledger!Spec

-----------------------------------------------------------------------------
(* Steps.                                                                  *)

\* The charge row of a rent order is never replaced or removed: the bill the
\* tenant holds stays the one whose webhooks the server recognises, however
\* many handlers generate a charge for the order at the same time.
ChargeNeverReplaced ==
  [][\A o \in Orders : charge[o] # None => charge'[o] = charge[o]]_vars

-----------------------------------------------------------------------------
(* Liveness.                                                               *)

\* Handlers in flight go on; the schedulers fire every day and the worker
\* polls its queue, whatever else keeps the server busy; and the gateway
\* does not refuse the charge of an order for ever.
Fairness ==
  /\ \A p \in Procs : WF_vars(Step(p))
  /\ WF_vars(EnqueueCharges)
  /\ \A o \in Orders : SF_vars(\E p \in Procs : TakeJob(p, o))
  /\ \A o \in Orders :
       SF_vars(\E p \in Procs, c \in ChargeIds :
                 task[p].order = o /\ GenerateCall(p, c))
  /\ SF_vars(\E p \in Procs : StartSweep(p))

FairSpec == Spec /\ Fairness

\* The 5 AM scheduler is the fallback for lost PAYMENT_OVERDUE webhooks: a
\* pending order whose due date is past does not stay pending, through
\* crashes and through loops that a failed notification cut short.
OverdueIsMarked ==
  \A o \in Orders :
    order[o] = "PENDENTE" /\ o \in late ~> order[o] # "PENDENTE"

\* The 6 AM scheduler and the worker charge a pending order of an active
\* contract in time, unless the order or the contract changes first or the
\* due date comes; a job whose charge failed or crashed is tried again.
PendingIsCharged ==
  \A o \in Orders :
    order[o] = "PENDENTE" /\ contract = "ATIVO" ~>
      \/ charge[o] # None
      \/ o \in late
      \/ order[o] # "PENDENTE"
      \/ contract # "ATIVO"

-----------------------------------------------------------------------------
(* What the repository says of the program.                                *)

\* schema.prisma: an order has one transfer.
OneLivePayout ==
  \A t, u \in TransferIds :
    t # u /\ pixStatus[t] \in {"PENDING", "DONE"}
          /\ pixStatus[u] \in {"PENDING", "DONE"} =>
      pixOrder[t] # pixOrder[u]

=============================================================================
