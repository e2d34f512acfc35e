----------------------------- MODULE Activation -----------------------------
(***************************************************************************)
(* How a contract that is out for signature becomes active: the close      *)
(* webhook of the envelope, the security deposit with its order and its    *)
(* charge, payment of the deposit through the gateway or in cash, a new    *)
(* charge for an overdue deposit, activation by hand, the creation of the  *)
(* rent schedule, and cancelling the contract on the way.                  *)
(*                                                                         *)
(* As in RentBilling, handlers are split at their awaits and a failure or  *)
(* a crash forgets them.  The rent schedule is represented by its first    *)
(* order: createMany writes all of it at once and this module touches no   *)
(* other.  "Variant" operators are used by no other definition.            *)
(***************************************************************************)
EXTENDS AsaasCharges, Naturals, FiniteSets

CONSTANTS
  Procs,           \* handlers that can be in flight at once
  MayHaveDeposit,  \* the values hasDeposit starts with
  Updates,         \* the statuses that PUT contracts/:id is used to set
  MaxCrashes       \* bound on the failures that end handlers

\* The statuses from AGUARDANDO_ASSINATURAS on.
ContractStatus == {"AGUARDANDO_ASSINATURAS", "AGUARDANDO_GARANTIA", "ATIVO",
                   "FINALIZADO", "CANCELADO"}

ASSUME ActivationAssumption ==
  /\ MayHaveDeposit \subseteq BOOLEAN
  /\ Updates \subseteq ContractStatus
  /\ MaxCrashes \in Nat

VARIABLES
  contract,    \* Contract.status
  available,   \* Property.isAvailable
  hasDeposit,  \* guaranteeType is DEPOSITO_CAUCAO, the deposit is positive
  envelope,    \* the Clicksign envelope of the contract
  kind,        \* which order rows exist, and their isSecurityDeposit
  order,       \* PaymentOrder.status
  late,        \* orders whose due date is past
  charge,      \* Charge.asaasChargeId of the order's charge row, or None
  task,        \* the handlers in flight
  forced,      \* history: the landlord activated the contract by hand
  cash,        \* history: orders the landlord reported as paid in cash
  crashes      \* failures so far

orderVars == <<kind, order, late, charge>>
history == <<forced, cash>>
deedVars == <<hasDeposit, envelope>>
vars == <<gatewayVars, contract, available, deedVars, orderVars, task,
          history, crashes>>

PaymentStatus == {"PENDENTE", "PAGO", "ATRASADO", "CANCELADO"}

\* A task is named for the step it will do next.
Ops == {"idle", "sign_write", "deposit_create", "gen_read", "gen_call",
        "gen_save", "available_write", "schedule_read", "schedule_write",
        "first_read", "confirm_write", "activate_read", "activate_write",
        "cash_write", "overdue_write", "deleted_write", "restored_write",
        "regen_cancel", "regen_delete",
        "regen_write", "cancel_envelope", "cancel_gateway", "cancel_contract"}

\* byHand marks the handler of forceActivateContract, which does its steps in
\* an order of its own.
Task(op, o, i, todo, byHand) ==
  [op |-> op, order |-> o, id |-> i, todo |-> todo, byHand |-> byHand]

IdleTask == Task("idle", None, None, {}, FALSE)

OrderTask(op, o) == Task(op, o, None, {}, FALSE)

TypeOK ==
  /\ GatewayTypeOK
  /\ contract \in ContractStatus
  /\ available \in BOOLEAN
  /\ hasDeposit \in BOOLEAN
  /\ envelope \in {"running", "closed", "deleted"}
  /\ kind \in [Orders -> {"absent", "deposit", "rent"}]
  /\ order \in [Orders -> PaymentStatus]
  /\ late \subseteq Orders
  /\ charge \in [Orders -> ChargeIds \cup {None}]
  /\ task \in [Procs -> [op : Ops, order : Orders \cup {None},
                         id : ChargeIds \cup {None}, todo : SUBSET ChargeIds,
                         byHand : BOOLEAN]]
  /\ forced \in BOOLEAN
  /\ cash \subseteq Orders
  /\ crashes \in Nat

Init ==
  /\ GatewayInit
  /\ contract = "AGUARDANDO_ASSINATURAS"
  /\ available = TRUE
  /\ hasDeposit \in MayHaveDeposit
  /\ envelope = "running"
  /\ kind = [o \in Orders |-> "absent"]
  /\ order = [o \in Orders |-> "PENDENTE"]
  /\ late = {}
  /\ charge = [o \in Orders |-> None]
  /\ task = [p \in Procs |-> IdleTask]
  /\ forced = FALSE
  /\ cash = {}
  /\ crashes = 0

Deposits == {o \in Orders : kind[o] = "deposit"}
Rents == {o \in Orders : kind[o] = "rent"}

-----------------------------------------------------------------------------
(* Tasks.                                                                  *)

At(p, op) == task[p].op = op

Continue(p, t) == task' = [task EXCEPT ![p] = t]

Start(p, t) == At(p, "idle") /\ Continue(p, t)

Finish(p) == Continue(p, IdleTask)

\* The next step of the same handler, on the same order.
Proceed(p, op) == Continue(p, [task[p] EXCEPT !.op = op])

-----------------------------------------------------------------------------
(* activateContractAfterSignature, called by each of the webhooks that     *)
(* Clicksign sends for a closed envelope.                                  *)

StartSigned(p) ==
  /\ envelope = "closed"
  /\ contract = "AGUARDANDO_ASSINATURAS"
  /\ Start(p, OrderTask("sign_write", None))
  /\ UNCHANGED <<gatewayVars, contract, available, deedVars, orderVars,
                 history, crashes>>

\* Variant: the guarantee is left to be settled after the activation.
SignWriteAtOnce(p) ==
  /\ At(p, "sign_write")
  /\ contract' = "ATIVO"
  /\ Proceed(p, "available_write")
  /\ UNCHANGED <<gatewayVars, available, deedVars, orderVars, history,
                 crashes>>

SignWrite(p) ==
  /\ At(p, "sign_write")
  /\ IF hasDeposit
     THEN contract' = "AGUARDANDO_GARANTIA" /\ Proceed(p, "deposit_create")
     ELSE contract' = "ATIVO" /\ Proceed(p, "available_write")
  /\ UNCHANGED <<gatewayVars, available, deedVars, orderVars, history,
                 crashes>>

\* A new row: pending, due later, without a charge.
CreateOrder(o, k) ==
  /\ kind[o] = "absent"
  /\ kind' = [kind EXCEPT ![o] = k]
  /\ order' = [order EXCEPT ![o] = "PENDENTE"]
  /\ UNCHANGED <<late, charge>>

\* Variant: the schedule is created along with the deposit.
DepositCreateWithRent(p, o) ==
  /\ At(p, "deposit_create")
  /\ CreateOrder(o, "deposit")
  /\ Proceed(p, "schedule_read")
  /\ UNCHANGED <<gatewayVars, contract, available, deedVars, history, crashes>>

\* createAndChargeSecurityDeposit.
DepositCreate(p, o) ==
  /\ At(p, "deposit_create")
  /\ CreateOrder(o, "deposit")
  /\ Continue(p, OrderTask("gen_read", o))
  /\ UNCHANGED <<gatewayVars, contract, available, deedVars, history, crashes>>

\* The contract is read again and its deposit was edited away (update has no
\* check on the status).
DepositRefused(p) ==
  /\ At(p, "deposit_create")
  /\ Finish(p)
  /\ UNCHANGED <<gatewayVars, contract, available, deedVars, orderVars,
                 history, crashes>>

-----------------------------------------------------------------------------
(* generateChargeForPaymentOrder, for a deposit or for the first rent.     *)

Generable(o) ==
  /\ charge[o] = None
  /\ order[o] # "ATRASADO"
  /\ contract = IF kind[o] = "deposit" THEN "AGUARDANDO_GARANTIA" ELSE "ATIVO"
  /\ o \notin late

\* POST charges/generate.
StartGenerate(p, o) ==
  /\ kind[o] # "absent"
  /\ Generable(o)
  /\ Start(p, OrderTask("gen_call", o))
  /\ UNCHANGED <<gatewayVars, contract, available, deedVars, orderVars,
                 history, crashes>>

\* The handler that asked for a charge goes on when it got one, and when the
\* error was caught; only forceActivateContract has a step left.
AfterGenerate(p) == IF task[p].byHand THEN Proceed(p, "available_write")
                    ELSE Finish(p)

GenerateRead(p) ==
  /\ At(p, "gen_read")
  /\ IF Generable(task[p].order) THEN Proceed(p, "gen_call")
     ELSE AfterGenerate(p)
  /\ UNCHANGED <<gatewayVars, contract, available, deedVars, orderVars,
                 history, crashes>>

GenerateCall(p, c) ==
  /\ At(p, "gen_call")
  /\ GwCreate(c, task[p].order)
  /\ Continue(p, [task[p] EXCEPT !.op = "gen_save", !.id = c])
  /\ UNCHANGED <<contract, available, deedVars, orderVars, history, crashes>>

GenerateFail(p) ==
  /\ At(p, "gen_call")
  /\ AfterGenerate(p)
  /\ UNCHANGED <<gatewayVars, contract, available, deedVars, orderVars,
                 history, crashes>>

\* Variant: the order is looked up again, as the one without a charge.
GenerateSaveLookup(p) ==
  /\ At(p, "gen_save")
  /\ \E o \in Deposits \cup Rents :
       charge[o] = None /\ charge' = [charge EXCEPT ![o] = task[p].id]
  /\ AfterGenerate(p)
  /\ UNCHANGED <<gatewayVars, contract, available, deedVars, kind, order,
                 late, history, crashes>>

\* Charge.paymentOrderId is unique: the insert fails when a row is there.
GenerateSave(p) ==
  /\ At(p, "gen_save")
  /\ charge' = IF charge[task[p].order] = None
               THEN [charge EXCEPT ![task[p].order] = task[p].id]
               ELSE charge
  /\ AfterGenerate(p)
  /\ UNCHANGED <<gatewayVars, contract, available, deedVars, kind, order,
                 late, history, crashes>>

-----------------------------------------------------------------------------
(* The end of every activation: the property is taken, the schedule is     *)
(* created and its first order charged.                                    *)

\* An activation by hand takes the property last.
AvailableWrite(p) ==
  /\ At(p, "available_write")
  /\ available' = FALSE
  /\ IF task[p].byHand THEN Finish(p) ELSE Proceed(p, "schedule_read")
  /\ UNCHANGED <<gatewayVars, contract, deedVars, orderVars, history,
                 crashes>>

\* Variant: the count includes the deposit.
ScheduleReadAny(p) ==
  /\ At(p, "schedule_read")
  /\ Proceed(p, IF Deposits \cup Rents = {} THEN "schedule_write"
                ELSE "first_read")
  /\ UNCHANGED <<gatewayVars, contract, available, deedVars, orderVars,
                 history, crashes>>

\* createPaymentsForContract counts the rent orders first.
ScheduleRead(p) ==
  /\ At(p, "schedule_read")
  /\ Proceed(p, IF Rents = {} THEN "schedule_write" ELSE "first_read")
  /\ UNCHANGED <<gatewayVars, contract, available, deedVars, orderVars,
                 history, crashes>>

ScheduleWrite(p, o) ==
  /\ At(p, "schedule_write")
  /\ CreateOrder(o, "rent")
  /\ Proceed(p, "first_read")
  /\ UNCHANGED <<gatewayVars, contract, available, deedVars, history, crashes>>

\* The order due first, of either kind: the due dates are not modelled.
FirstRead(p) ==
  /\ At(p, "first_read")
  /\ \E o \in Deposits \cup Rents :
       Continue(p, [task[p] EXCEPT !.op = "gen_read", !.order = o])
  /\ UNCHANGED <<gatewayVars, contract, available, deedVars, orderVars,
                 history, crashes>>

-----------------------------------------------------------------------------
(* Payment of the deposit.                                                 *)

\* Variant: a case without its break.
ConfirmEventsFallThrough ==
  {"PAYMENT_RECEIVED", "PAYMENT_CONFIRMED", "PAYMENT_OVERDUE"}

ConfirmEvents == {"PAYMENT_RECEIVED", "PAYMENT_CONFIRMED"}

\* confirmPaymentByChargeId for a deposit.  The rents' payments are in
\* RentBilling.
StartConfirm(p, o) ==
  /\ o \in Deposits
  /\ \E e \in ConfirmEvents : <<e, charge[o]>> \in sent
  /\ order[o] # "PAGO"
  /\ Start(p, OrderTask("confirm_write", o))
  /\ UNCHANGED <<gatewayVars, contract, available, deedVars, orderVars,
                 history, crashes>>

\* confirmSecurityDepositInCash: the gateway is not told of it.
StartDepositCash(p, o) ==
  /\ o \in Deposits
  /\ order[o] = "PENDENTE"
  /\ Start(p, OrderTask("confirm_write", o))
  /\ cash' = cash \cup {o}
  /\ UNCHANGED <<gatewayVars, contract, available, deedVars, orderVars,
                 forced, crashes>>

\* Both write the payment and then try to activate the contract.
ConfirmWrite(p) ==
  /\ At(p, "confirm_write")
  /\ order' = [order EXCEPT ![task[p].order] = "PAGO"]
  /\ Proceed(p, "activate_read")
  /\ UNCHANGED <<gatewayVars, contract, available, deedVars, kind, late,
                 charge, history, crashes>>

\* confirmCashPayment takes a deposit as well: it records the payment and
\* leaves the contract alone.
StartCash(p, o) ==
  /\ kind[o] # "absent"
  /\ IF charge[o] = None THEN UNCHANGED gatewayVars ELSE GwCash(charge[o])
  /\ Start(p, OrderTask("cash_write", o))
  /\ cash' = cash \cup {o}
  /\ UNCHANGED <<contract, available, deedVars, orderVars, forced, crashes>>

CashWrite(p) ==
  /\ At(p, "cash_write")
  /\ order' = [order EXCEPT ![task[p].order] = "PAGO"]
  /\ Finish(p)
  /\ UNCHANGED <<gatewayVars, contract, available, deedVars, kind, late,
                 charge, history, crashes>>

\* activateContractAfterDepositPayment.
ActivateRead(p) ==
  /\ At(p, "activate_read")
  /\ IF contract = "AGUARDANDO_GARANTIA" THEN Proceed(p, "activate_write")
     ELSE Finish(p)
  /\ UNCHANGED <<gatewayVars, contract, available, deedVars, orderVars,
                 history, crashes>>

ActivateWrite(p) ==
  /\ At(p, "activate_write")
  /\ contract' = "ATIVO"
  /\ Proceed(p, "available_write")
  /\ UNCHANGED <<gatewayVars, available, deedVars, orderVars, history,
                 crashes>>

\* forceActivateContract, whatever the contract's status is.
ForceActivate(p) ==
  /\ contract' = "ATIVO"
  /\ forced' = TRUE
  /\ Start(p, Task("schedule_read", None, None, {}, TRUE))
  /\ UNCHANGED <<gatewayVars, available, deedVars, orderVars, cash, crashes>>

\* PUT contracts/:id: the status is a field like the others, and ATIVO is
\* written without the rest of an activation.
Update(s) ==
  /\ contract' = s
  /\ forced' = (forced \/ s = "ATIVO")
  /\ UNCHANGED <<gatewayVars, available, deedVars, orderVars, task, cash,
                 crashes>>

-----------------------------------------------------------------------------
(* Overdue, deleted and restored deposits, and a new charge for one.       *)

\* processOverduePayment, from the webhook or from the daily scheduler.
StartOverdue(p, o) ==
  /\ o \in Deposits
  /\ \/ <<"PAYMENT_OVERDUE", charge[o]>> \in sent /\ order[o] # "ATRASADO"
     \/ o \in late /\ order[o] = "PENDENTE"
  /\ Start(p, OrderTask("overdue_write", o))
  /\ UNCHANGED <<gatewayVars, contract, available, deedVars, orderVars,
                 history, crashes>>

OverdueWrite(p) ==
  /\ At(p, "overdue_write")
  /\ order' = [order EXCEPT ![task[p].order] = "ATRASADO"]
  /\ Finish(p)
  /\ UNCHANGED <<gatewayVars, contract, available, deedVars, kind, late,
                 charge, history, crashes>>

\* updatePaymentStatusByChargeId finds the order by the charge row, which may
\* be gone when the status is written.
StartStatus(p, o) ==
  /\ o \in Deposits
  /\ \/ /\ <<"PAYMENT_DELETED", charge[o]>> \in sent
        /\ Start(p, OrderTask("deleted_write", o))
     \/ /\ <<"PAYMENT_RESTORED", charge[o]>> \in sent
        /\ Start(p, OrderTask("restored_write", o))
  /\ UNCHANGED <<gatewayVars, contract, available, deedVars, orderVars,
                 history, crashes>>

\* Variant: the gateway's own word is stored.
StatusWriteRaw(p) ==
  /\ task[p].op \in {"deleted_write", "restored_write"}
  /\ order' = [order EXCEPT ![task[p].order] =
                 IF At(p, "deleted_write") THEN "DELETED" ELSE "PENDENTE"]
  /\ Finish(p)
  /\ UNCHANGED <<gatewayVars, contract, available, deedVars, kind, late,
                 charge, history, crashes>>

StatusWrite(p) ==
  /\ task[p].op \in {"deleted_write", "restored_write"}
  /\ order' = [order EXCEPT ![task[p].order] =
                 IF At(p, "deleted_write") THEN "CANCELADO" ELSE "PENDENTE"]
  /\ Finish(p)
  /\ UNCHANGED <<gatewayVars, contract, available, deedVars, kind, late,
                 charge, history, crashes>>

\* regenerateDepositCharge.
StartRegenerate(p, o) ==
  /\ o \in Deposits
  /\ order[o] = "ATRASADO"
  /\ Start(p, IF charge[o] = None THEN OrderTask("regen_write", o)
              ELSE Task("regen_cancel", o, charge[o], {}, FALSE))
  /\ UNCHANGED <<gatewayVars, contract, available, deedVars, orderVars,
                 history, crashes>>

\* An error of the gateway skips the deletion of the row and is swallowed.
RegenCancel(p) ==
  /\ At(p, "regen_cancel")
  /\ \/ GwCancel(task[p].id) /\ Proceed(p, "regen_delete")
     \/ UNCHANGED gatewayVars /\ Proceed(p, "regen_write")
  /\ UNCHANGED <<contract, available, deedVars, orderVars, history, crashes>>

RegenDelete(p) ==
  /\ At(p, "regen_delete")
  /\ charge' = IF charge[task[p].order] = task[p].id
               THEN [charge EXCEPT ![task[p].order] = None]
               ELSE charge
  /\ Proceed(p, "regen_write")
  /\ UNCHANGED <<gatewayVars, contract, available, deedVars, kind, order, late,
                 history, crashes>>

RegenWrite(p) ==
  /\ At(p, "regen_write")
  /\ order' = [order EXCEPT ![task[p].order] = "PENDENTE"]
  /\ late' = late \ {task[p].order}
  /\ Finish(p)
  /\ UNCHANGED <<gatewayVars, contract, available, deedVars, kind, charge,
                 history, crashes>>

-----------------------------------------------------------------------------
(* cancelContract.                                                         *)

\* The read: the contract and the charges of its pending orders.
StartCancel(p) ==
  LET pending == {o \in Deposits \cup Rents :
                    order[o] = "PENDENTE" /\ charge[o] # None}
      first == IF contract = "AGUARDANDO_ASSINATURAS" THEN "cancel_envelope"
               ELSE "cancel_gateway"
  IN /\ contract \notin {"CANCELADO", "FINALIZADO"}
     /\ Start(p, Task(first, None, None, {charge[o] : o \in pending}, FALSE))
     /\ UNCHANGED <<gatewayVars, contract, available, deedVars, orderVars,
                    history, crashes>>

\* deleteEnvelope fails for a closed envelope, or for no reason of ours.
CancelEnvelope(p) ==
  /\ At(p, "cancel_envelope")
  /\ envelope' \in IF envelope = "running" THEN {"running", "deleted"}
                   ELSE {envelope}
  /\ Proceed(p, "cancel_gateway")
  /\ UNCHANGED <<gatewayVars, contract, available, hasDeposit, orderVars,
                 history, crashes>>

\* An error of the gateway is logged and swallowed.
CancelCharge(p) ==
  /\ At(p, "cancel_gateway")
  /\ \E c \in task[p].todo :
       /\ GwCancel(c) \/ UNCHANGED gatewayVars
       /\ Continue(p, [task[p] EXCEPT !.todo = @ \ {c}])
  /\ UNCHANGED <<contract, available, deedVars, orderVars, history, crashes>>

CancelOrders(p) ==
  /\ At(p, "cancel_gateway")
  /\ task[p].todo = {}
  /\ order' = [o \in Orders |->
                 IF kind[o] # "absent" /\ order[o] = "PENDENTE"
                 THEN "CANCELADO" ELSE order[o]]
  /\ Proceed(p, "cancel_contract")
  /\ UNCHANGED <<gatewayVars, contract, available, deedVars, kind, late,
                 charge, history, crashes>>

\* The property is not made available again.
CancelContract(p) ==
  /\ At(p, "cancel_contract")
  /\ contract' = "CANCELADO"
  /\ Finish(p)
  /\ UNCHANGED <<gatewayVars, available, deedVars, orderVars, history,
                 crashes>>

-----------------------------------------------------------------------------
(* The parties, time and the server process.                               *)

\* The last party signs: the envelope closes by itself.
Sign ==
  /\ envelope = "running"
  /\ envelope' = "closed"
  /\ UNCHANGED <<gatewayVars, contract, available, hasDeposit, orderVars, task,
                 history, crashes>>

Age(o) ==
  /\ o \in Deposits \ late
  /\ late' = late \cup {o}
  /\ UNCHANGED <<gatewayVars, contract, available, deedVars, kind, order,
                 charge, task, history, crashes>>

\* Handlers die: one whose database statement throws, or all of them with
\* the process.
Crash ==
  /\ crashes < MaxCrashes
  /\ crashes' = crashes + 1
  /\ \E dead \in (SUBSET Procs) \ {{}} :
       task' = [p \in Procs |-> IF p \in dead THEN IdleTask ELSE task[p]]
  /\ UNCHANGED <<gatewayVars, contract, available, deedVars, orderVars,
                 history>>

GatewayStep ==
  /\ \E c \in ChargeIds : \/ GwPay(c)
                          \/ GwCredit(c)
                          \/ gwOrder[c] \in late /\ GwExpire(c)
                          \/ GwCancel(c)
                          \/ GwRestore(c)
  /\ UNCHANGED <<contract, available, deedVars, orderVars, task, history,
                 crashes>>

-----------------------------------------------------------------------------

Begin(p) ==
  \/ StartSigned(p)
  \/ \E o \in Orders : \/ StartGenerate(p, o)
                       \/ StartConfirm(p, o)
                       \/ StartDepositCash(p, o)
                       \/ StartCash(p, o)
                       \/ StartOverdue(p, o)
                       \/ StartStatus(p, o)
                       \/ StartRegenerate(p, o)
  \/ ForceActivate(p)
  \/ StartCancel(p)

Step(p) ==
  \/ SignWrite(p)
  \/ \E o \in Orders : DepositCreate(p, o) \/ ScheduleWrite(p, o)
  \/ DepositRefused(p)
  \/ GenerateRead(p)
  \/ \E c \in ChargeIds : GenerateCall(p, c)
  \/ GenerateFail(p)
  \/ GenerateSave(p)
  \/ AvailableWrite(p)
  \/ ScheduleRead(p)
  \/ FirstRead(p)
  \/ ConfirmWrite(p)
  \/ CashWrite(p)
  \/ ActivateRead(p)
  \/ ActivateWrite(p)
  \/ OverdueWrite(p)
  \/ StatusWrite(p)
  \/ RegenCancel(p)
  \/ RegenDelete(p)
  \/ RegenWrite(p)
  \/ CancelEnvelope(p)
  \/ CancelCharge(p)
  \/ CancelOrders(p)
  \/ CancelContract(p)

Next ==
  \/ \E p \in Procs : Begin(p) \/ Step(p)
  \/ \E o \in Orders : Age(o)
  \/ \E s \in Updates : Update(s)
  \/ Sign
  \/ GatewayStep
  \/ Crash

Spec == Init /\ [][Next]_vars

\* The handlers in flight go on.
FairSpec == Spec /\ \A p \in Procs : WF_vars(Step(p))

-----------------------------------------------------------------------------
(* Safety.                                                                 *)

CollectedOrders == {gwOrder[c] : c \in {d \in ChargeIds : Collected(d)}}

\* All parties signed and, where a deposit is due, a deposit order was paid
\* through the gateway or in cash; or the landlord overruled both.
Justified ==
  \/ forced
  \/ envelope = "closed" /\ (hasDeposit =>
       Deposits \cap (CollectedOrders \cup cash) # {})

\* A contract is active only if that is so, although
\* activateContractAfterSignature and activateContractAfterDepositPayment act
\* on what they read before, and are called more than once.
ActiveIsJustified == contract = "ATIVO" => Justified

\* A rent schedule exists only for a contract whose activation was justified
\* in the same way, also when it was cancelled since.
ScheduleIsJustified == Rents # {} => Justified

\* An order that is shown as paid has its money, as in RentBilling, when the
\* charge of an overdue deposit is cancelled and deleted under way.
MoneyBehindPaid ==
  \A o \in Deposits : order[o] = "PAGO" => o \in CollectedOrders \cup cash

\* A charge row always names a gateway charge created for that order, while
\* rows are deleted and generated again.
ChargeBelongsToOrder ==
  \A o \in Orders : charge[o] # None => gwOrder[charge[o]] = o

-----------------------------------------------------------------------------
(* Liveness, when the server process does not crash.                       *)

\* An activation runs to its end: the property of an active contract is taken
\* out of the market and the contract has a rent schedule.
ActivationCompletes ==
  contract = "ATIVO" ~> ~ available /\ Rents # {}

=============================================================================
