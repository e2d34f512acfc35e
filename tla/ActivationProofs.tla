-------------------------- MODULE ActivationProofs --------------------------
(***************************************************************************)
(* Proofs about Activation for any number of orders, charges, handlers and *)
(* failures, with or without a deposit, and any statuses that PUT may      *)
(* write.                                                                  *)
(***************************************************************************)
EXTENDS Activation, TLAPS

\* Tasks that act on one order know it, and those that carry a charge id
\* carry one.
TaskOK ==
  \A p \in Procs :
    /\ task[p].op \in {"gen_read", "gen_call", "gen_save", "confirm_write",
                       "activate_read", "activate_write", "cash_write",
                       "overdue_write", "deleted_write", "restored_write",
                       "regen_cancel", "regen_delete", "regen_write"} =>
         task[p].order \in Orders
    /\ task[p].op \in {"gen_save", "regen_cancel", "regen_delete"} =>
         task[p].id \in ChargeIds

\* A charge id that the server holds, in a row or in a task about to write
\* one, is the id of a charge of that order, and a payment webhook tells the
\* truth.
ChargesInv ==
  /\ ChargeBelongsToOrder
  /\ \A o \in Orders : charge[o] # None => gwStatus[charge[o]] # "absent"
  /\ \A p \in Procs : task[p].op = "gen_save" =>
       /\ gwOrder[task[p].id] = task[p].order
       /\ gwStatus[task[p].id] # "absent"
  /\ \A e \in ConfirmEvents, c \in ChargeIds :
       <<e, c>> \in sent => Collected(c)

\* The orders with money behind them.
Settled == CollectedOrders \cup cash

\* What a task is about to do for the contract, or to write of a payment, was
\* justified when it read, and stays so.
Ready(t) ==
  /\ t.byHand => forced
  /\ t.op \in {"sign_write", "deposit_create"} => envelope = "closed"
  /\ t.op = "cash_write" => t.order \in Settled
  /\ t.op \in {"confirm_write", "activate_read", "activate_write"} =>
       t.order \in Deposits \cap Settled
  /\ t.op \in {"available_write", "schedule_read", "schedule_write",
               "first_read"} => Justified

TasksReady == \A p \in Procs : Ready(task[p])

\* What the rows say is justified; a deposit is asked for only when all have
\* signed.
RowsInv ==
  /\ Deposits # {} => envelope = "closed"
  /\ ActiveIsJustified
  /\ ScheduleIsJustified
  /\ MoneyBehindPaid

\* The inductive invariant.
IInv == TypeOK /\ TaskOK /\ ChargesInv /\ TasksReady /\ RowsInv

\* Nothing of what rows and tasks rely on is ever taken back.
Keeps ==
  /\ forced => forced'
  /\ envelope = "closed" => envelope' = "closed"
  /\ hasDeposit' = hasDeposit
  /\ Deposits \subseteq Deposits'
  /\ Settled \subseteq Settled'

-----------------------------------------------------------------------------

\* The initial states have no row, no task and no charge.
LEMMA InitInv == Init => IInv
<1> SUFFICES ASSUME Init PROVE IInv
  OBVIOUS
<1> USE DEF Init, GatewayInit, Task, IdleTask
<1>1. TypeOK
  BY ActivationAssumption
     DEF TypeOK, GatewayTypeOK, GwStatus, ChargeEvents, ContractStatus,
         PaymentStatus, Ops
<1>2. TaskOK
  BY DEF TaskOK
<1>3. ChargesInv
  BY DEF ChargesInv, ChargeBelongsToOrder
<1>4. Deposits = {} /\ Rents = {}
  BY DEF Deposits, Rents
<1>5. TasksReady
  BY DEF TasksReady, Ready
<1>6. RowsInv
  BY <1>4 DEF RowsInv, ActiveIsJustified, ScheduleIsJustified, MoneyBehindPaid
<1> QED
  BY <1>1, <1>2, <1>3, <1>5, <1>6 DEF IInv

-----------------------------------------------------------------------------

\* Types are preserved by every step.
LEMMA TypeStep ==
  TypeOK /\ TaskOK /\ [Next]_vars => TypeOK'
<1> SUFFICES ASSUME TypeOK, TaskOK, [Next]_vars
             PROVE  TypeOK'
  OBVIOUS
<1> DEFINE Tasks == [op : Ops, order : Orders \cup {None},
                     id : ChargeIds \cup {None}, todo : SUBSET ChargeIds,
                     byHand : BOOLEAN]
<1>t. ASSUME NEW t \in Tasks
      PROVE  /\ \A c \in ChargeIds :
                  [t EXCEPT !.op = "gen_save", !.id = c] \in Tasks
             /\ \A o \in Orders :
                  [t EXCEPT !.op = "gen_read", !.order = o] \in Tasks
  BY DEF Ops
<1>p. ASSUME NEW p \in Procs, NEW op \in Ops, Proceed(p, op)
      PROVE  task' \in [Procs -> Tasks]
  BY <1>p DEF TypeOK, Proceed, Continue
<1>f. ASSUME NEW p \in Procs, Finish(p)
      PROVE  task' \in [Procs -> Tasks]
  BY <1>f DEF TypeOK, Finish, Continue, IdleTask, Task, Ops
<1>g. ASSUME NEW p \in Procs, AfterGenerate(p)
      PROVE  task' \in [Procs -> Tasks]
  BY <1>p, <1>f, <1>g DEF AfterGenerate, Ops
<1> USE DEF TypeOK, GatewayTypeOK, GwStatus, ChargeEvents, ContractStatus,
            PaymentStatus, Ops, Task, IdleTask, At, Start, Continue, Finish,
            Proceed, vars, gatewayVars, deedVars, orderVars, history
<1>1. ASSUME NEW p \in Procs, StartSigned(p)
      PROVE  TypeOK'
  BY <1>1 DEF StartSigned, OrderTask
<1>2. ASSUME NEW p \in Procs, NEW o \in Orders, StartGenerate(p, o)
      PROVE  TypeOK'
  BY <1>2 DEF StartGenerate, Generable, OrderTask
<1>3. ASSUME NEW p \in Procs, NEW o \in Orders, StartConfirm(p, o)
      PROVE  TypeOK'
  BY <1>3 DEF StartConfirm, OrderTask
<1>4. ASSUME NEW p \in Procs, NEW o \in Orders, StartDepositCash(p, o)
      PROVE  TypeOK'
  BY <1>4 DEF StartDepositCash, OrderTask
<1>5. ASSUME NEW p \in Procs, NEW o \in Orders, StartCash(p, o)
      PROVE  TypeOK'
  BY <1>5 DEF StartCash, OrderTask, GwCash, Open
<1>6. ASSUME NEW p \in Procs, NEW o \in Orders, StartOverdue(p, o)
      PROVE  TypeOK'
  BY <1>6 DEF StartOverdue, OrderTask
<1>7. ASSUME NEW p \in Procs, NEW o \in Orders, StartStatus(p, o)
      PROVE  TypeOK'
  <2>1. PICK op \in Ops :
          task' = [task EXCEPT ![p] = Task(op, o, None, {}, FALSE)]
    BY <1>7 DEF StartStatus, OrderTask
  <2>2. task' \in [Procs -> Tasks]
    BY <2>1 DEF Task
  <2> QED
    BY <1>7, <2>2 DEF StartStatus
<1>8. ASSUME NEW p \in Procs, NEW o \in Orders, StartRegenerate(p, o)
      PROVE  TypeOK'
  BY <1>8 DEF StartRegenerate, OrderTask
<1>9. ASSUME NEW p \in Procs, ForceActivate(p)
      PROVE  TypeOK'
  BY <1>9 DEF ForceActivate
<1>10. ASSUME NEW p \in Procs, StartCancel(p)
      PROVE  TypeOK'
  <2>1. PICK op \in Ops, O \in SUBSET {o \in Orders : charge[o] # None} :
          task' = [task EXCEPT ![p] =
                     Task(op, None, None, {charge[o] : o \in O}, FALSE)]
    <3> DEFINE pending == {o \in Deposits \cup Rents :
                             order[o] = "PENDENTE" /\ charge[o] # None}
               first == IF contract = "AGUARDANDO_ASSINATURAS"
                        THEN "cancel_envelope" ELSE "cancel_gateway"
    <3>1. /\ first \in Ops
          /\ pending \in SUBSET {o \in Orders : charge[o] # None}
      BY DEF Deposits, Rents
    <3>2. task' = [task EXCEPT ![p] =
                     Task(first, None, None, {charge[o] : o \in pending},
                          FALSE)]
      BY <1>10 DEF StartCancel
    <3> HIDE DEF first, pending
    <3> QED
      BY <3>1, <3>2
  <2>2. {charge[o] : o \in O} \in SUBSET ChargeIds
    OBVIOUS
  <2>3. task' \in [Procs -> Tasks]
    BY <2>1, <2>2 DEF Task
  <2> QED
    BY <1>10, <2>3 DEF StartCancel
<1>11. ASSUME NEW p \in Procs, SignWrite(p)
      PROVE  TypeOK'
  BY <1>11 DEF SignWrite
<1>12. ASSUME NEW p \in Procs, NEW o \in Orders, DepositCreate(p, o)
      PROVE  TypeOK'
  BY <1>12 DEF DepositCreate, CreateOrder, OrderTask
<1>13. ASSUME NEW p \in Procs, NEW o \in Orders, ScheduleWrite(p, o)
      PROVE  TypeOK'
  BY <1>13 DEF ScheduleWrite, CreateOrder
<1>14. ASSUME NEW p \in Procs, DepositRefused(p)
      PROVE  TypeOK'
  BY <1>14 DEF DepositRefused
<1>15. ASSUME NEW p \in Procs, GenerateRead(p)
      PROVE  TypeOK'
  <2>1. task' \in [Procs -> Tasks]
    BY <1>15, <1>p, <1>g DEF GenerateRead, Ops
  <2> QED
    BY <1>15, <2>1 DEF GenerateRead
<1>16. ASSUME NEW p \in Procs, NEW c \in ChargeIds, GenerateCall(p, c)
      PROVE  TypeOK'
  <2>1. [task[p] EXCEPT !.op = "gen_save", !.id = c] \in Tasks
    <3>1. task[p] \in Tasks
      OBVIOUS
    <3> QED
      BY <1>t, <3>1
  <2>2. task' \in [Procs -> Tasks]
    BY <1>16, <2>1 DEF GenerateCall
  <2>3. GatewayTypeOK'
    BY <1>16 DEF GenerateCall, GwCreate, At, TaskOK
  <2> QED
    BY <1>16, <2>2, <2>3 DEF GenerateCall
<1>17. ASSUME NEW p \in Procs, GenerateFail(p)
      PROVE  TypeOK'
  <2>1. task' \in [Procs -> Tasks]
    BY <1>17, <1>g DEF GenerateFail, Ops
  <2> QED
    BY <1>17, <2>1 DEF GenerateFail
<1>18. ASSUME NEW p \in Procs, GenerateSave(p)
      PROVE  TypeOK'
  <2>1. task' \in [Procs -> Tasks]
    BY <1>18, <1>g DEF GenerateSave, Ops
  <2> QED
    BY <1>18, <2>1 DEF GenerateSave
<1>19. ASSUME NEW p \in Procs, AvailableWrite(p)
      PROVE  TypeOK'
  <2>1. task' \in [Procs -> Tasks]
    BY <1>19, <1>p, <1>f DEF AvailableWrite, Ops
  <2> QED
    BY <1>19, <2>1 DEF AvailableWrite
<1>20. ASSUME NEW p \in Procs, ScheduleRead(p)
      PROVE  TypeOK'
  BY <1>20 DEF ScheduleRead
<1>21. ASSUME NEW p \in Procs, FirstRead(p)
      PROVE  TypeOK'
  <2>1. PICK o \in Orders :
          task' = [task EXCEPT ![p] = [task[p] EXCEPT !.op = "gen_read",
                                                      !.order = o]]
    BY <1>21 DEF FirstRead, Deposits, Rents
  <2>2. [task[p] EXCEPT !.op = "gen_read", !.order = o] \in Tasks
    <3>1. task[p] \in Tasks
      OBVIOUS
    <3> QED
      BY <1>t, <3>1
  <2>3. task' \in [Procs -> Tasks]
    BY <2>1, <2>2
  <2> QED
    BY <1>21, <2>3 DEF FirstRead
<1>22. ASSUME NEW p \in Procs, ConfirmWrite(p)
      PROVE  TypeOK'
  <2>1. task' \in [Procs -> Tasks]
    BY <1>22, <1>p DEF ConfirmWrite, Ops
  <2> QED
    BY <1>22, <2>1 DEF ConfirmWrite, TaskOK
<1>23. ASSUME NEW p \in Procs, CashWrite(p)
      PROVE  TypeOK'
  BY <1>23 DEF CashWrite
<1>24. ASSUME NEW p \in Procs, ActivateRead(p)
      PROVE  TypeOK'
  <2>1. task' \in [Procs -> Tasks]
    BY <1>24, <1>p, <1>f DEF ActivateRead, Ops
  <2> QED
    BY <1>24, <2>1 DEF ActivateRead
<1>25. ASSUME NEW p \in Procs, ActivateWrite(p)
      PROVE  TypeOK'
  <2>1. task' \in [Procs -> Tasks]
    BY <1>25, <1>p DEF ActivateWrite, Ops
  <2> QED
    BY <1>25, <2>1 DEF ActivateWrite
<1>26. ASSUME NEW p \in Procs, OverdueWrite(p)
      PROVE  TypeOK'
  BY <1>26 DEF OverdueWrite
<1>27. ASSUME NEW p \in Procs, StatusWrite(p)
      PROVE  TypeOK'
  BY <1>27 DEF StatusWrite
<1>28. ASSUME NEW p \in Procs, RegenCancel(p)
      PROVE  TypeOK'
  <2>1. task' \in [Procs -> Tasks]
    BY <1>28, <1>p DEF RegenCancel, Ops
  <2>2. GatewayTypeOK'
    BY <1>28 DEF RegenCancel, GwCancel, Open, TaskOK
  <2> QED
    BY <1>28, <2>1, <2>2 DEF RegenCancel
<1>29. ASSUME NEW p \in Procs, RegenDelete(p)
      PROVE  TypeOK'
  <2>1. task' \in [Procs -> Tasks]
    BY <1>29, <1>p DEF RegenDelete, Ops
  <2> QED
    BY <1>29, <2>1 DEF RegenDelete
<1>30. ASSUME NEW p \in Procs, RegenWrite(p)
      PROVE  TypeOK'
  BY <1>30 DEF RegenWrite
<1>31. ASSUME NEW p \in Procs, CancelEnvelope(p)
      PROVE  TypeOK'
  BY <1>31 DEF CancelEnvelope
<1>32. ASSUME NEW p \in Procs, CancelCharge(p)
      PROVE  TypeOK'
  BY <1>32 DEF CancelCharge, GwCancel, Open
<1>33. ASSUME NEW p \in Procs, CancelOrders(p)
      PROVE  TypeOK'
  BY <1>33 DEF CancelOrders
<1>34. ASSUME NEW p \in Procs, CancelContract(p)
      PROVE  TypeOK'
  BY <1>34 DEF CancelContract
<1>35. ASSUME NEW o \in Orders, Age(o)
      PROVE  TypeOK'
  BY <1>35 DEF Age
<1>36. ASSUME NEW s \in Updates, Update(s)
      PROVE  TypeOK'
  BY <1>36, ActivationAssumption DEF Update
<1>37. CASE Sign
  BY <1>37 DEF Sign
<1>38. CASE GatewayStep
  BY <1>38
     DEF GatewayStep, GwPay, GwCredit, GwExpire, GwCancel, GwRestore, Open
<1>39. CASE Crash
  BY <1>39 DEF Crash
<1>40. CASE UNCHANGED vars
  BY <1>40
<1> HIDE DEF TypeOK, TaskOK, vars
<1> QED
  BY <1>1, <1>2, <1>3, <1>4, <1>5, <1>6, <1>7, <1>8, <1>9, <1>10, <1>11,
     <1>12, <1>13, <1>14, <1>15, <1>16, <1>17, <1>18, <1>19, <1>20, <1>21,
     <1>22, <1>23, <1>24, <1>25, <1>26, <1>27, <1>28, <1>29, <1>30, <1>31,
     <1>32, <1>33, <1>34, <1>35, <1>36, <1>37, <1>38, <1>39, <1>40
     DEF Next, Begin, Step

\* Tasks keep what they need to know.
LEMMA TaskStep ==
  TypeOK /\ TaskOK /\ [Next]_vars => TaskOK'
<1> SUFFICES ASSUME TypeOK, TaskOK, [Next]_vars
             PROVE  TaskOK'
  OBVIOUS
<1> USE DEF TypeOK, TaskOK, GatewayTypeOK, Task, IdleTask, At, Start,
            Continue, Finish, Proceed, vars, gatewayVars, deedVars, orderVars,
            history
<1>1. ASSUME NEW p \in Procs, StartSigned(p)
      PROVE  TaskOK'
  BY <1>1 DEF StartSigned, OrderTask
<1>2. ASSUME NEW p \in Procs, NEW o \in Orders, StartGenerate(p, o)
      PROVE  TaskOK'
  BY <1>2 DEF StartGenerate, Generable, OrderTask
<1>3. ASSUME NEW p \in Procs, NEW o \in Orders, StartConfirm(p, o)
      PROVE  TaskOK'
  BY <1>3 DEF StartConfirm, OrderTask
<1>4. ASSUME NEW p \in Procs, NEW o \in Orders, StartDepositCash(p, o)
      PROVE  TaskOK'
  BY <1>4 DEF StartDepositCash, OrderTask
<1>5. ASSUME NEW p \in Procs, NEW o \in Orders, StartCash(p, o)
      PROVE  TaskOK'
  BY <1>5 DEF StartCash, OrderTask, GwCash, Open
<1>6. ASSUME NEW p \in Procs, NEW o \in Orders, StartOverdue(p, o)
      PROVE  TaskOK'
  BY <1>6 DEF StartOverdue, OrderTask
<1>7. ASSUME NEW p \in Procs, NEW o \in Orders, StartStatus(p, o)
      PROVE  TaskOK'
  BY <1>7 DEF StartStatus, OrderTask
<1>8. ASSUME NEW p \in Procs, NEW o \in Orders, StartRegenerate(p, o)
      PROVE  TaskOK'
  BY <1>8 DEF StartRegenerate, OrderTask
<1>9. ASSUME NEW p \in Procs, ForceActivate(p)
      PROVE  TaskOK'
  BY <1>9 DEF ForceActivate
<1>10. ASSUME NEW p \in Procs, StartCancel(p)
      PROVE  TaskOK'
  BY <1>10 DEF StartCancel
<1>11. ASSUME NEW p \in Procs, SignWrite(p)
      PROVE  TaskOK'
  BY <1>11 DEF SignWrite
<1>12. ASSUME NEW p \in Procs, NEW o \in Orders, DepositCreate(p, o)
      PROVE  TaskOK'
  BY <1>12 DEF DepositCreate, CreateOrder, OrderTask
<1>13. ASSUME NEW p \in Procs, NEW o \in Orders, ScheduleWrite(p, o)
      PROVE  TaskOK'
  BY <1>13 DEF ScheduleWrite, CreateOrder
<1>14. ASSUME NEW p \in Procs, DepositRefused(p)
      PROVE  TaskOK'
  BY <1>14 DEF DepositRefused
<1>15. ASSUME NEW p \in Procs, GenerateRead(p)
      PROVE  TaskOK'
  BY <1>15 DEF GenerateRead, Generable, AfterGenerate
<1>16. ASSUME NEW p \in Procs, NEW c \in ChargeIds, GenerateCall(p, c)
      PROVE  TaskOK'
  BY <1>16 DEF GenerateCall, GwCreate
<1>17. ASSUME NEW p \in Procs, GenerateFail(p)
      PROVE  TaskOK'
  BY <1>17 DEF GenerateFail, AfterGenerate
<1>18. ASSUME NEW p \in Procs, GenerateSave(p)
      PROVE  TaskOK'
  BY <1>18 DEF GenerateSave, AfterGenerate
<1>19. ASSUME NEW p \in Procs, AvailableWrite(p)
      PROVE  TaskOK'
  BY <1>19 DEF AvailableWrite
<1>20. ASSUME NEW p \in Procs, ScheduleRead(p)
      PROVE  TaskOK'
  BY <1>20 DEF ScheduleRead
<1>21. ASSUME NEW p \in Procs, FirstRead(p)
      PROVE  TaskOK'
  BY <1>21 DEF FirstRead, Deposits, Rents
<1>22. ASSUME NEW p \in Procs, ConfirmWrite(p)
      PROVE  TaskOK'
  BY <1>22 DEF ConfirmWrite
<1>23. ASSUME NEW p \in Procs, CashWrite(p)
      PROVE  TaskOK'
  BY <1>23 DEF CashWrite
<1>24. ASSUME NEW p \in Procs, ActivateRead(p)
      PROVE  TaskOK'
  <2>1. CASE Proceed(p, "activate_write")
    BY <1>24, <2>1 DEF ActivateRead
  <2>2. CASE Finish(p)
    BY <1>24, <2>2 DEF ActivateRead
  <2> QED
    BY <1>24, <2>1, <2>2 DEF ActivateRead
<1>25. ASSUME NEW p \in Procs, ActivateWrite(p)
      PROVE  TaskOK'
  BY <1>25 DEF ActivateWrite
<1>26. ASSUME NEW p \in Procs, OverdueWrite(p)
      PROVE  TaskOK'
  BY <1>26 DEF OverdueWrite
<1>27. ASSUME NEW p \in Procs, StatusWrite(p)
      PROVE  TaskOK'
  BY <1>27 DEF StatusWrite
<1>28. ASSUME NEW p \in Procs, RegenCancel(p)
      PROVE  TaskOK'
  BY <1>28 DEF RegenCancel, GwCancel, Open
<1>29. ASSUME NEW p \in Procs, RegenDelete(p)
      PROVE  TaskOK'
  BY <1>29 DEF RegenDelete
<1>30. ASSUME NEW p \in Procs, RegenWrite(p)
      PROVE  TaskOK'
  BY <1>30 DEF RegenWrite
<1>31. ASSUME NEW p \in Procs, CancelEnvelope(p)
      PROVE  TaskOK'
  BY <1>31 DEF CancelEnvelope
<1>32. ASSUME NEW p \in Procs, CancelCharge(p)
      PROVE  TaskOK'
  BY <1>32 DEF CancelCharge, GwCancel, Open
<1>33. ASSUME NEW p \in Procs, CancelOrders(p)
      PROVE  TaskOK'
  BY <1>33 DEF CancelOrders
<1>34. ASSUME NEW p \in Procs, CancelContract(p)
      PROVE  TaskOK'
  BY <1>34 DEF CancelContract
<1>35. ASSUME NEW o \in Orders, Age(o)
      PROVE  TaskOK'
  BY <1>35 DEF Age
<1>36. ASSUME NEW s \in Updates, Update(s)
      PROVE  TaskOK'
  BY <1>36 DEF Update
<1>37. CASE Sign
  BY <1>37 DEF Sign
<1>38. CASE GatewayStep
  BY <1>38
     DEF GatewayStep, GwPay, GwCredit, GwExpire, GwCancel, GwRestore, Open
<1>39. CASE Crash
  BY <1>39 DEF Crash
<1>40. CASE UNCHANGED vars
  BY <1>40
<1> HIDE DEF TypeOK, TaskOK, vars
<1> QED
  BY <1>1, <1>2, <1>3, <1>4, <1>5, <1>6, <1>7, <1>8, <1>9, <1>10, <1>11,
     <1>12, <1>13, <1>14, <1>15, <1>16, <1>17, <1>18, <1>19, <1>20, <1>21,
     <1>22, <1>23, <1>24, <1>25, <1>26, <1>27, <1>28, <1>29, <1>30, <1>31,
     <1>32, <1>33, <1>34, <1>35, <1>36, <1>37, <1>38, <1>39, <1>40
     DEF Next, Begin, Step

\* Ids held in rows and tasks keep naming charges of the right order, and
\* payment webhooks keep telling the truth.
LEMMA ChargesStep ==
  TypeOK /\ TaskOK /\ ChargesInv /\ [Next]_vars => ChargesInv'
<1> SUFFICES ASSUME TypeOK, TaskOK, ChargesInv, [Next]_vars
             PROVE  ChargesInv'
  OBVIOUS
<1> USE DEF TypeOK, TaskOK, GatewayTypeOK, ChargesInv, ChargeBelongsToOrder,
            Collected, ConfirmEvents, ChargeEvents, Task, IdleTask, At, Start,
            Continue, Finish, Proceed, vars, gatewayVars, deedVars, orderVars,
            history
<1>1. ASSUME NEW p \in Procs, StartSigned(p)
      PROVE  ChargesInv'
  BY <1>1 DEF StartSigned, OrderTask
<1>2. ASSUME NEW p \in Procs, NEW o \in Orders, StartGenerate(p, o)
      PROVE  ChargesInv'
  BY <1>2 DEF StartGenerate, Generable, OrderTask
<1>3. ASSUME NEW p \in Procs, NEW o \in Orders, StartConfirm(p, o)
      PROVE  ChargesInv'
  BY <1>3 DEF StartConfirm, OrderTask
<1>4. ASSUME NEW p \in Procs, NEW o \in Orders, StartDepositCash(p, o)
      PROVE  ChargesInv'
  BY <1>4 DEF StartDepositCash, OrderTask
<1>5. ASSUME NEW p \in Procs, NEW o \in Orders, StartCash(p, o)
      PROVE  ChargesInv'
  <2>1. /\ gwOrder' = gwOrder
        /\ sent' = sent
        /\ charge' = charge
        /\ \A c \in ChargeIds :
             /\ gwStatus[c] # "absent" <=> gwStatus'[c] # "absent"
             /\ Collected(c) => Collected(c)'
    BY <1>5 DEF StartCash, GwCash, Open
  <2>2. \A q \in Procs : task'[q] = task[q] \/ task'[q].op = "cash_write"
    BY <1>5 DEF StartCash, OrderTask
  <2> QED
    BY <2>1, <2>2
<1>6. ASSUME NEW p \in Procs, NEW o \in Orders, StartOverdue(p, o)
      PROVE  ChargesInv'
  BY <1>6 DEF StartOverdue, OrderTask
<1>7. ASSUME NEW p \in Procs, NEW o \in Orders, StartStatus(p, o)
      PROVE  ChargesInv'
  BY <1>7 DEF StartStatus, OrderTask
<1>8. ASSUME NEW p \in Procs, NEW o \in Orders, StartRegenerate(p, o)
      PROVE  ChargesInv'
  BY <1>8 DEF StartRegenerate, OrderTask
<1>9. ASSUME NEW p \in Procs, ForceActivate(p)
      PROVE  ChargesInv'
  BY <1>9 DEF ForceActivate
<1>10. ASSUME NEW p \in Procs, StartCancel(p)
      PROVE  ChargesInv'
  BY <1>10 DEF StartCancel
<1>11. ASSUME NEW p \in Procs, SignWrite(p)
      PROVE  ChargesInv'
  BY <1>11 DEF SignWrite
<1>12. ASSUME NEW p \in Procs, NEW o \in Orders, DepositCreate(p, o)
      PROVE  ChargesInv'
  BY <1>12 DEF DepositCreate, CreateOrder, OrderTask
<1>13. ASSUME NEW p \in Procs, NEW o \in Orders, ScheduleWrite(p, o)
      PROVE  ChargesInv'
  BY <1>13 DEF ScheduleWrite, CreateOrder
<1>14. ASSUME NEW p \in Procs, DepositRefused(p)
      PROVE  ChargesInv'
  BY <1>14 DEF DepositRefused
<1>15. ASSUME NEW p \in Procs, GenerateRead(p)
      PROVE  ChargesInv'
  BY <1>15 DEF GenerateRead, Generable, AfterGenerate
<1>16. ASSUME NEW p \in Procs, NEW c \in ChargeIds, GenerateCall(p, c)
      PROVE  ChargesInv'
  BY <1>16 DEF GenerateCall, GwCreate
<1>17. ASSUME NEW p \in Procs, GenerateFail(p)
      PROVE  ChargesInv'
  BY <1>17 DEF GenerateFail, AfterGenerate
<1>18. ASSUME NEW p \in Procs, GenerateSave(p)
      PROVE  ChargesInv'
  BY <1>18 DEF GenerateSave, AfterGenerate
<1>19. ASSUME NEW p \in Procs, AvailableWrite(p)
      PROVE  ChargesInv'
  BY <1>19 DEF AvailableWrite
<1>20. ASSUME NEW p \in Procs, ScheduleRead(p)
      PROVE  ChargesInv'
  BY <1>20 DEF ScheduleRead
<1>21. ASSUME NEW p \in Procs, FirstRead(p)
      PROVE  ChargesInv'
  BY <1>21 DEF FirstRead, Deposits, Rents
<1>22. ASSUME NEW p \in Procs, ConfirmWrite(p)
      PROVE  ChargesInv'
  BY <1>22 DEF ConfirmWrite
<1>23. ASSUME NEW p \in Procs, CashWrite(p)
      PROVE  ChargesInv'
  BY <1>23 DEF CashWrite
<1>24. ASSUME NEW p \in Procs, ActivateRead(p)
      PROVE  ChargesInv'
  BY <1>24 DEF ActivateRead
<1>25. ASSUME NEW p \in Procs, ActivateWrite(p)
      PROVE  ChargesInv'
  BY <1>25 DEF ActivateWrite
<1>26. ASSUME NEW p \in Procs, OverdueWrite(p)
      PROVE  ChargesInv'
  BY <1>26 DEF OverdueWrite
<1>27. ASSUME NEW p \in Procs, StatusWrite(p)
      PROVE  ChargesInv'
  BY <1>27 DEF StatusWrite
<1>28. ASSUME NEW p \in Procs, RegenCancel(p)
      PROVE  ChargesInv'
  <2>1. \A q \in Procs : task'[q] = task[q] \/ task'[q].op # "gen_save"
    BY <1>28 DEF RegenCancel
  <2>2. CASE GwCancel(task[p].id)
    <3>1. /\ gwOrder' = gwOrder
          /\ charge' = charge
          /\ sent' = sent \cup {<<"PAYMENT_DELETED", task[p].id>>}
          /\ \A c \in ChargeIds :
               /\ gwStatus[c] # "absent" => gwStatus'[c] # "absent"
               /\ Collected(c) => Collected(c)'
      BY <1>28, <2>2 DEF RegenCancel, GwCancel, Open
    <3> QED
      BY <2>1, <3>1
  <2>3. CASE UNCHANGED gatewayVars
    BY <1>28, <2>1, <2>3 DEF RegenCancel
  <2> QED
    BY <1>28, <2>2, <2>3 DEF RegenCancel
<1>29. ASSUME NEW p \in Procs, RegenDelete(p)
      PROVE  ChargesInv'
  BY <1>29 DEF RegenDelete
<1>30. ASSUME NEW p \in Procs, RegenWrite(p)
      PROVE  ChargesInv'
  BY <1>30 DEF RegenWrite
<1>31. ASSUME NEW p \in Procs, CancelEnvelope(p)
      PROVE  ChargesInv'
  BY <1>31 DEF CancelEnvelope
<1>32. ASSUME NEW p \in Procs, CancelCharge(p)
      PROVE  ChargesInv'
  BY <1>32 DEF CancelCharge, GwCancel, Open
<1>33. ASSUME NEW p \in Procs, CancelOrders(p)
      PROVE  ChargesInv'
  BY <1>33 DEF CancelOrders
<1>34. ASSUME NEW p \in Procs, CancelContract(p)
      PROVE  ChargesInv'
  BY <1>34 DEF CancelContract
<1>35. ASSUME NEW o \in Orders, Age(o)
      PROVE  ChargesInv'
  BY <1>35 DEF Age
<1>36. ASSUME NEW s \in Updates, Update(s)
      PROVE  ChargesInv'
  BY <1>36 DEF Update
<1>37. CASE Sign
  BY <1>37 DEF Sign
<1>38. CASE GatewayStep
  BY <1>38
     DEF GatewayStep, GwPay, GwCredit, GwExpire, GwCancel, GwRestore, Open
<1>39. CASE Crash
  BY <1>39 DEF Crash
<1>40. CASE UNCHANGED vars
  BY <1>40
<1> HIDE DEF TypeOK, TaskOK, ChargesInv, vars
<1> QED
  BY <1>1, <1>2, <1>3, <1>4, <1>5, <1>6, <1>7, <1>8, <1>9, <1>10, <1>11,
     <1>12, <1>13, <1>14, <1>15, <1>16, <1>17, <1>18, <1>19, <1>20, <1>21,
     <1>22, <1>23, <1>24, <1>25, <1>26, <1>27, <1>28, <1>29, <1>30, <1>31,
     <1>32, <1>33, <1>34, <1>35, <1>36, <1>37, <1>38, <1>39, <1>40
     DEF Next, Begin, Step

-----------------------------------------------------------------------------

\* Money that was collected stays collected, for the same order.
LEMMA CollectedStep ==
  TypeOK /\ TaskOK /\ [Next]_vars => CollectedOrders \subseteq CollectedOrders'
<1> SUFFICES ASSUME TypeOK, TaskOK, [Next]_vars
             PROVE  \A c \in ChargeIds : Collected(c) =>
                      Collected(c)' /\ gwOrder'[c] = gwOrder[c]
  BY DEF CollectedOrders
<1> DEFINE Goal == \A d \in ChargeIds : Collected(d) =>
                     Collected(d)' /\ gwOrder'[d] = gwOrder[d]
<1> USE DEF TypeOK, GatewayTypeOK, Collected, gatewayVars
<1>1. ASSUME NEW p \in Procs, NEW c \in ChargeIds, GenerateCall(p, c)
      PROVE  Goal
  BY <1>1 DEF GenerateCall, GwCreate
<1>2. ASSUME NEW p \in Procs, NEW o \in Orders, StartCash(p, o)
      PROVE  Goal
  BY <1>2 DEF StartCash, GwCash, Open
<1>3. ASSUME NEW p \in Procs, RegenCancel(p)
      PROVE  Goal
  BY <1>3 DEF RegenCancel, GwCancel, Open
<1>4. ASSUME NEW p \in Procs, CancelCharge(p)
      PROVE  Goal
  BY <1>4 DEF CancelCharge, GwCancel, Open
<1>5. CASE GatewayStep
  BY <1>5 DEF GatewayStep, GwPay, GwCredit, GwExpire, GwCancel, GwRestore, Open
<1>6. CASE UNCHANGED gatewayVars
  BY <1>6
<1> HIDE DEF TypeOK, GatewayTypeOK, Collected, gatewayVars
<1>7. ASSUME NEW p \in Procs, Begin(p)
      PROVE  Goal
  BY <1>2, <1>6, <1>7
     DEF Begin, StartSigned, StartGenerate, StartConfirm, StartDepositCash,
         StartOverdue, StartStatus, StartRegenerate, ForceActivate,
         StartCancel
<1>8. ASSUME NEW p \in Procs, Step(p)
      PROVE  Goal
  BY <1>1, <1>3, <1>4, <1>6, <1>8
     DEF Step, SignWrite, DepositCreate, ScheduleWrite, DepositRefused,
         GenerateRead, GenerateFail, GenerateSave, AvailableWrite,
         ScheduleRead, FirstRead, ConfirmWrite, CashWrite, ActivateRead,
         ActivateWrite, OverdueWrite, StatusWrite, RegenDelete, RegenWrite,
         CancelEnvelope, CancelOrders, CancelContract
<1> QED
  BY <1>5, <1>6, <1>7, <1>8 DEF Next, vars, Age, Update, Sign, Crash

\* No step takes back what rows and tasks rely on.
LEMMA StepKeeps == TypeOK /\ TaskOK /\ [Next]_vars => Keeps
<1> SUFFICES ASSUME TypeOK, TaskOK, [Next]_vars
             PROVE  Keeps
  OBVIOUS
<1>0. CollectedOrders \subseteq CollectedOrders'
  BY CollectedStep
<1> USE DEF Keeps, Deposits, Settled, deedVars, orderVars, history
<1>1. ASSUME NEW p \in Procs, NEW o \in Orders,
             StartDepositCash(p, o) \/ StartCash(p, o)
      PROVE  Keeps
  BY <1>0, <1>1 DEF StartDepositCash, StartCash
<1>2. ASSUME NEW p \in Procs, NEW o \in Orders,
             DepositCreate(p, o) \/ ScheduleWrite(p, o)
      PROVE  Keeps
  BY <1>0, <1>2 DEF DepositCreate, ScheduleWrite, CreateOrder, TypeOK
<1>3. ASSUME NEW p \in Procs, ForceActivate(p) \/ CancelEnvelope(p)
      PROVE  Keeps
  <2>1. CASE ForceActivate(p)
    BY <1>0, <2>1 DEF ForceActivate
  <2>2. CASE CancelEnvelope(p)
    BY <1>0, <2>2 DEF CancelEnvelope
  <2> QED
    BY <1>3, <2>1, <2>2
<1>4. ASSUME NEW s \in Updates, Update(s)
      PROVE  Keeps
  BY <1>0, <1>4 DEF Update
<1>5. CASE Sign
  BY <1>0, <1>5 DEF Sign
<1>6. CASE UNCHANGED <<kind, deedVars, history>>
  BY <1>0, <1>6
<1> HIDE DEF Keeps
<1>7. ASSUME NEW p \in Procs, Begin(p)
      PROVE  Keeps
  BY <1>1, <1>3, <1>6, <1>7
     DEF Begin, StartSigned, StartGenerate, StartConfirm, StartOverdue,
         StartStatus, StartRegenerate, StartCancel
<1>8. ASSUME NEW p \in Procs, Step(p)
      PROVE  Keeps
  BY <1>2, <1>3, <1>6, <1>8
     DEF Step, SignWrite, DepositRefused, GenerateRead, GenerateCall,
         GenerateFail, GenerateSave, AvailableWrite, ScheduleRead, FirstRead,
         ConfirmWrite, CashWrite, ActivateRead, ActivateWrite, OverdueWrite,
         StatusWrite, RegenCancel, RegenDelete, RegenWrite, CancelCharge,
         CancelOrders, CancelContract
<1> QED
  BY <1>4, <1>5, <1>6, <1>7, <1>8
     DEF Next, vars, Age, GatewayStep, Crash

\* What justifies an activation stays.
LEMMA JustifiedKept ==
  ASSUME Keeps, Justified
  PROVE  Justified'
BY DEF Keeps, Justified, Settled

\* A task stays ready while nothing is taken back.
LEMMA ReadyKept ==
  ASSUME Keeps, NEW t, Ready(t)
  PROVE  Ready(t)'
BY JustifiedKept DEF Keeps, Ready

\* The next task of a handler is ready.
LEMMA NextReady ==
  ASSUME IInv, Keeps, NEW p \in Procs, Begin(p) \/ Step(p)
  PROVE  Ready(task[p])'
<1>i. TypeOK /\ TaskOK /\ ChargesInv /\ TasksReady /\ RowsInv
  BY DEF IInv
<1>k. Keeps
  OBVIOUS
<1>j. Justified => Justified'
  BY JustifiedKept
<1> USE DEF At, Start, Continue, Finish, Proceed, Task, IdleTask
<1>1. CASE StartSigned(p)
  BY <1>1, <1>i, <1>k, <1>j
     DEF StartSigned, Ready, Keeps, TasksReady, TypeOK, OrderTask
<1>2. ASSUME NEW o \in Orders, StartGenerate(p, o)
      PROVE  Ready(task[p])'
  BY <1>2, <1>i, <1>k, <1>j
     DEF StartGenerate, Ready, Keeps, TasksReady, TypeOK, OrderTask
<1>3. ASSUME NEW o \in Orders, StartConfirm(p, o)
      PROVE  Ready(task[p])'
  <2>0. /\ o \in Deposits'
        /\ o \in Settled'
    <3>1. /\ charge[o] \in ChargeIds /\ Collected(charge[o])
          /\ gwOrder[charge[o]] = o
      BY <1>3, <1>i, ChargeNoneAssumption
         DEF StartConfirm, TypeOK, GatewayTypeOK, ChargeEvents, ChargesInv,
             ChargeBelongsToOrder
    <3>2. o \in Settled
      BY <3>1 DEF Settled, CollectedOrders
    <3> QED
      BY <1>3, <3>2, <1>k DEF StartConfirm, Keeps
  <2> QED
    BY <1>3, <1>i, <1>k, <1>j, <2>0
       DEF StartConfirm, Ready, Keeps, TasksReady, TypeOK, OrderTask
<1>4. ASSUME NEW o \in Orders, StartDepositCash(p, o)
      PROVE  Ready(task[p])'
  <2>0. o \in Deposits' /\ o \in Settled'
    BY <1>4, <1>k DEF StartDepositCash, Settled, Keeps
  <2> QED
    BY <1>4, <1>i, <1>k, <1>j, <2>0
       DEF StartDepositCash, Ready, Keeps, TasksReady, TypeOK, OrderTask
<1>5. ASSUME NEW o \in Orders, StartCash(p, o)
      PROVE  Ready(task[p])'
  <2>0. o \in Settled'
    BY <1>5 DEF StartCash, Settled
  <2> QED
    BY <1>5, <1>i, <1>k, <1>j, <2>0
       DEF StartCash, Ready, Keeps, TasksReady, TypeOK, OrderTask
<1>6. ASSUME NEW o \in Orders, StartOverdue(p, o)
      PROVE  Ready(task[p])'
  BY <1>6, <1>i, <1>k, <1>j
     DEF StartOverdue, Ready, Keeps, TasksReady, TypeOK, OrderTask
<1>7. ASSUME NEW o \in Orders, StartStatus(p, o)
      PROVE  Ready(task[p])'
  BY <1>7, <1>i, <1>k, <1>j
     DEF StartStatus, Ready, Keeps, TasksReady, TypeOK, OrderTask
<1>8. ASSUME NEW o \in Orders, StartRegenerate(p, o)
      PROVE  Ready(task[p])'
  BY <1>8, <1>i, <1>k, <1>j
     DEF StartRegenerate, Ready, Keeps, TasksReady, TypeOK, OrderTask
<1>9. CASE ForceActivate(p)
  <2>0. forced' /\ Justified'
    BY <1>9 DEF ForceActivate, Justified
  <2> QED
    BY <1>9, <1>i, <1>k, <1>j, <2>0
       DEF ForceActivate, Ready, Keeps, TasksReady, TypeOK
<1>10. CASE StartCancel(p)
  BY <1>10, <1>i, <1>k, <1>j
     DEF StartCancel, Ready, Keeps, TasksReady, TypeOK
<1>11. CASE SignWrite(p)
  <2>0. /\ envelope = "closed"
        /\ ~ hasDeposit => Justified
    BY <1>11, <1>i DEF SignWrite, At, TasksReady, Ready, Justified
  <2> QED
    BY <1>11, <1>i, <1>k, <1>j, <2>0
       DEF SignWrite, Ready, Keeps, TasksReady, TypeOK
<1>12. ASSUME NEW o \in Orders, DepositCreate(p, o)
      PROVE  Ready(task[p])'
  BY <1>12, <1>i, <1>k, <1>j
     DEF DepositCreate, Ready, Keeps, TasksReady, TypeOK, OrderTask
<1>13. ASSUME NEW o \in Orders, ScheduleWrite(p, o)
      PROVE  Ready(task[p])'
  BY <1>13, <1>i, <1>k, <1>j
     DEF ScheduleWrite, Ready, Keeps, TasksReady, TypeOK
<1>14. CASE DepositRefused(p)
  BY <1>14, <1>i, <1>k, <1>j
     DEF DepositRefused, Ready, Keeps, TasksReady, TypeOK
<1>15. CASE GenerateRead(p)
  <2>0. task[p].byHand => forced' /\ Justified'
    BY <1>i, <1>k, <1>j DEF TasksReady, Ready, Keeps, Justified
  <2> QED
    BY <1>15, <1>i, <1>k, <1>j, <2>0
       DEF GenerateRead, Ready, Keeps, TasksReady, TypeOK, AfterGenerate
<1>16. ASSUME NEW c \in ChargeIds, GenerateCall(p, c)
      PROVE  Ready(task[p])'
  BY <1>16, <1>i, <1>k, <1>j
     DEF GenerateCall, Ready, Keeps, TasksReady, TypeOK
<1>17. CASE GenerateFail(p)
  <2>0. task[p].byHand => forced' /\ Justified'
    BY <1>i, <1>k, <1>j DEF TasksReady, Ready, Keeps, Justified
  <2> QED
    BY <1>17, <1>i, <1>k, <1>j, <2>0
       DEF GenerateFail, Ready, Keeps, TasksReady, TypeOK, AfterGenerate
<1>18. CASE GenerateSave(p)
  <2>0. task[p].byHand => forced' /\ Justified'
    BY <1>i, <1>k, <1>j DEF TasksReady, Ready, Keeps, Justified
  <2> QED
    BY <1>18, <1>i, <1>k, <1>j, <2>0
       DEF GenerateSave, Ready, Keeps, TasksReady, TypeOK, AfterGenerate
<1>19. CASE AvailableWrite(p)
  BY <1>19, <1>i, <1>k, <1>j
     DEF AvailableWrite, Ready, Keeps, TasksReady, TypeOK
<1>20. CASE ScheduleRead(p)
  BY <1>20, <1>i, <1>k, <1>j
     DEF ScheduleRead, Ready, Keeps, TasksReady, TypeOK
<1>21. CASE FirstRead(p)
  BY <1>21, <1>i, <1>k, <1>j DEF FirstRead, Ready, Keeps, TasksReady, TypeOK
<1>22. CASE ConfirmWrite(p)
  BY <1>22, <1>i, <1>k, <1>j
     DEF ConfirmWrite, Ready, Keeps, TasksReady, TypeOK
<1>23. CASE CashWrite(p)
  BY <1>23, <1>i, <1>k, <1>j DEF CashWrite, Ready, Keeps, TasksReady, TypeOK
<1>24. CASE ActivateRead(p)
  BY <1>24, <1>i, <1>k, <1>j
     DEF ActivateRead, Ready, Keeps, TasksReady, TypeOK
<1>25. CASE ActivateWrite(p)
  <2>0. Justified
    <3>1. task[p].order \in Deposits \cap Settled
      BY <1>25, <1>i DEF ActivateWrite, At, TasksReady, Ready
    <3>2. envelope = "closed"
      BY <3>1, <1>i DEF RowsInv
    <3> QED
      BY <3>1, <3>2 DEF Justified, Settled
  <2> QED
    BY <1>25, <1>i, <1>k, <1>j, <2>0
       DEF ActivateWrite, Ready, Keeps, TasksReady, TypeOK
<1>26. CASE OverdueWrite(p)
  BY <1>26, <1>i, <1>k, <1>j
     DEF OverdueWrite, Ready, Keeps, TasksReady, TypeOK
<1>27. CASE StatusWrite(p)
  BY <1>27, <1>i, <1>k, <1>j
     DEF StatusWrite, Ready, Keeps, TasksReady, TypeOK
<1>28. CASE RegenCancel(p)
  BY <1>28, <1>i, <1>k, <1>j
     DEF RegenCancel, Ready, Keeps, TasksReady, TypeOK
<1>29. CASE RegenDelete(p)
  BY <1>29, <1>i, <1>k, <1>j
     DEF RegenDelete, Ready, Keeps, TasksReady, TypeOK
<1>30. CASE RegenWrite(p)
  BY <1>30, <1>i, <1>k, <1>j DEF RegenWrite, Ready, Keeps, TasksReady, TypeOK
<1>31. CASE CancelEnvelope(p)
  BY <1>31, <1>i, <1>k, <1>j
     DEF CancelEnvelope, Ready, Keeps, TasksReady, TypeOK
<1>32. CASE CancelCharge(p)
  BY <1>32, <1>i, <1>k, <1>j
     DEF CancelCharge, Ready, Keeps, TasksReady, TypeOK
<1>33. CASE CancelOrders(p)
  BY <1>33, <1>i, <1>k, <1>j
     DEF CancelOrders, Ready, Keeps, TasksReady, TypeOK
<1>34. CASE CancelContract(p)
  BY <1>34, <1>i, <1>k, <1>j
     DEF CancelContract, Ready, Keeps, TasksReady, TypeOK
<1> HIDE DEF At
<1> QED
  BY <1>1, <1>2, <1>3, <1>4, <1>5, <1>6, <1>7, <1>8, <1>9, <1>10, <1>11,
     <1>12, <1>13, <1>14, <1>15, <1>16, <1>17, <1>18, <1>19, <1>20, <1>21,
     <1>22, <1>23, <1>24, <1>25, <1>26, <1>27, <1>28, <1>29, <1>30, <1>31,
     <1>32, <1>33, <1>34
     DEF Begin, Step

\* A step of one handler leaves the others where they are.
LEMMA OthersWait ==
  ASSUME TypeOK, NEW p \in Procs, Begin(p) \/ Step(p), NEW q \in Procs, q # p
  PROVE  task'[q] = task[q]
<1> SUFFICES \E t : Continue(p, t)
  BY DEF Continue, TypeOK
<1>1. CASE Begin(p)
  BY <1>1
     DEF Begin, Start, StartSigned, StartGenerate, StartConfirm,
         StartDepositCash, StartCash, StartOverdue, StartStatus,
         StartRegenerate, ForceActivate, StartCancel
<1>2. CASE Step(p)
  BY <1>2
     DEF Step, AfterGenerate, Proceed, Finish, SignWrite, DepositCreate,
         ScheduleWrite, DepositRefused, GenerateRead, GenerateCall,
         GenerateFail, GenerateSave, AvailableWrite, ScheduleRead, FirstRead,
         ConfirmWrite, CashWrite, ActivateRead, ActivateWrite, OverdueWrite,
         StatusWrite, RegenCancel, RegenDelete, RegenWrite, CancelEnvelope,
         CancelCharge, CancelOrders, CancelContract
<1> QED
  BY <1>1, <1>2

\* Every step leaves every task ready.
LEMMA TasksStep == IInv /\ [Next]_vars => TasksReady'
<1> SUFFICES ASSUME IInv, [Next]_vars, NEW q \in Procs
             PROVE  Ready(task[q])'
  BY DEF TasksReady
<1>i. TypeOK /\ TaskOK /\ TasksReady
  BY DEF IInv
<1>k. Keeps
  BY <1>i, StepKeeps
<1>1. CASE task'[q] = task[q]
  <2>1. Ready(task[q])
    BY <1>i DEF TasksReady
  <2> QED
    BY <1>1, <1>k, <2>1, JustifiedKept DEF Keeps, Ready
<1>2. CASE \E p \in Procs : Begin(p) \/ Step(p)
  BY <1>1, <1>2, <1>i, <1>k, NextReady, OthersWait
<1>3. CASE Crash
  <2>1. task'[q] = IdleTask \/ task'[q] = task[q]
    BY <1>3 DEF Crash
  <2>2. CASE task'[q] = IdleTask
    BY <2>2 DEF Ready, IdleTask, Task
  <2> QED
    BY <1>1, <2>1, <2>2
<1>4. CASE UNCHANGED task
  BY <1>1, <1>4
<1> QED
  BY <1>2, <1>3, <1>4 DEF Next, Age, Update, Sign, GatewayStep, vars

\* Every status and every row that a step writes is justified.
LEMMA RowsStep == IInv /\ [Next]_vars => RowsInv'
<1> SUFFICES ASSUME IInv, [Next]_vars
             PROVE  RowsInv'
  OBVIOUS
<1>i. TypeOK /\ TaskOK /\ TasksReady /\ RowsInv
  BY DEF IInv
<1>k. Keeps
  BY <1>i, StepKeeps
<1>j. Justified => Justified'
  BY <1>k, JustifiedKept
<1> USE DEF RowsInv, ActiveIsJustified, ScheduleIsJustified, MoneyBehindPaid,
            Deposits, Rents, TypeOK, Keeps, At, deedVars, orderVars, history
<1>1. ASSUME NEW p \in Procs, ForceActivate(p)
      PROVE  RowsInv'
  BY <1>1, <1>i, <1>k, <1>j DEF ForceActivate, Justified, Settled
<1>2. ASSUME NEW p \in Procs, SignWrite(p)
      PROVE  RowsInv'
  <2>1. contract' = "ATIVO" => Justified
    BY <1>2, <1>i DEF SignWrite, TasksReady, Ready, Justified
  <2> QED
    BY <1>2, <1>i, <1>k, <1>j, <2>1 DEF SignWrite, Settled
<1>3. ASSUME NEW p \in Procs, NEW o \in Orders, DepositCreate(p, o)
      PROVE  RowsInv'
  <2>1. envelope = "closed"
    BY <1>3, <1>i DEF DepositCreate, TasksReady, Ready
  <2> QED
    BY <1>3, <1>i, <1>k, <1>j, <2>1 DEF DepositCreate, CreateOrder, Settled
<1>4. ASSUME NEW p \in Procs, NEW o \in Orders, ScheduleWrite(p, o)
      PROVE  RowsInv'
  <2>1. Justified
    BY <1>4, <1>i DEF ScheduleWrite, TasksReady, Ready
  <2> QED
    BY <1>4, <1>i, <1>k, <1>j, <2>1 DEF ScheduleWrite, CreateOrder, Settled
<1>5. ASSUME NEW p \in Procs, ConfirmWrite(p)
      PROVE  RowsInv'
  <2>1. task[p].order \in Orders /\ task[p].order \in Settled
    BY <1>5, <1>i DEF ConfirmWrite, TasksReady, Ready, TaskOK
  <2> QED
    BY <1>5, <1>i, <1>k, <1>j, <2>1 DEF ConfirmWrite, Settled
<1>6. ASSUME NEW p \in Procs, CashWrite(p)
      PROVE  RowsInv'
  <2>1. task[p].order \in Orders /\ task[p].order \in Settled
    BY <1>6, <1>i DEF CashWrite, TasksReady, Ready, TaskOK
  <2> QED
    BY <1>6, <1>i, <1>k, <1>j, <2>1 DEF CashWrite, Settled
<1>7. ASSUME NEW p \in Procs, ActivateWrite(p)
      PROVE  RowsInv'
  <2>1. Justified
    <3>1. task[p].order \in Deposits \cap Settled
      BY <1>7, <1>i DEF ActivateWrite, TasksReady, Ready
    <3> QED
      BY <3>1, <1>i DEF Justified, Settled
  <2> QED
    BY <1>7, <1>i, <1>k, <1>j, <2>1 DEF ActivateWrite, Settled
<1>8. ASSUME NEW p \in Procs, OverdueWrite(p)
      PROVE  RowsInv'
  BY <1>8, <1>i, <1>k, <1>j DEF OverdueWrite, Settled
<1>9. ASSUME NEW p \in Procs, StatusWrite(p)
      PROVE  RowsInv'
  BY <1>9, <1>i, <1>k, <1>j DEF StatusWrite, Settled
<1>10. ASSUME NEW p \in Procs, RegenWrite(p)
      PROVE  RowsInv'
  BY <1>10, <1>i, <1>k, <1>j DEF RegenWrite, Settled
<1>11. ASSUME NEW p \in Procs, CancelOrders(p)
      PROVE  RowsInv'
  BY <1>11, <1>i, <1>k, <1>j DEF CancelOrders, Settled
<1>12. ASSUME NEW p \in Procs, CancelContract(p)
      PROVE  RowsInv'
  BY <1>12, <1>i, <1>k, <1>j DEF CancelContract, Settled
<1>13. ASSUME NEW s \in Updates, Update(s)
      PROVE  RowsInv'
  BY <1>13, <1>i, <1>k, <1>j DEF Update, Justified, Settled
<1>14. CASE UNCHANGED <<contract, kind, order>>
  BY <1>14, <1>i, <1>k, <1>j DEF Settled
<1> HIDE DEF RowsInv, TypeOK
<1>15. ASSUME NEW p \in Procs, Begin(p)
      PROVE  RowsInv'
  BY <1>1, <1>14, <1>15
     DEF Begin, orderVars, StartSigned, StartGenerate, StartConfirm,
         StartDepositCash, StartCash, StartOverdue, StartStatus,
         StartRegenerate, StartCancel
<1>16. ASSUME NEW p \in Procs, Step(p)
      PROVE  RowsInv'
  BY <1>2, <1>3, <1>4, <1>5, <1>6, <1>7, <1>8, <1>9, <1>10, <1>11, <1>12,
     <1>14, <1>16
     DEF Step, orderVars, DepositRefused, GenerateRead, GenerateCall,
         GenerateFail, GenerateSave, AvailableWrite, ScheduleRead, FirstRead,
         ActivateRead, RegenCancel, RegenDelete, CancelEnvelope, CancelCharge
<1> QED
  BY <1>13, <1>14, <1>15, <1>16
     DEF Next, vars, orderVars, Age, Sign, GatewayStep, Crash

-----------------------------------------------------------------------------

\* Every reachable state of an activation satisfies the inductive invariant.
THEOREM Invariance == Spec => []IInv
<1>1. IInv /\ [Next]_vars => IInv'
  BY TypeStep, TaskStep, ChargesStep, TasksStep, RowsStep DEF IInv
<1> QED
  BY <1>1, InitInv, PTL DEF Spec

\* The type invariant of Activation.
THEOREM TypeCorrect == Spec => []TypeOK
<1>1. IInv => TypeOK
  BY DEF IInv
<1> QED
  BY <1>1, Invariance, PTL

\* A contract is active only when all signed and a deposit that is due was
\* paid, or the landlord overruled it, however many close and payment webhooks
\* arrive and however late they write
\* (activateContractAfterSignature, activateContractAfterDepositPayment).
THEOREM ActiveContract == Spec => []ActiveIsJustified
<1>1. IInv => ActiveIsJustified
  BY DEF IInv, RowsInv
<1> QED
  BY <1>1, Invariance, PTL

\* The same for a contract with a rent schedule
\* (createPaymentsForContract), which stays when the contract is cancelled.
THEOREM ScheduledContract == Spec => []ScheduleIsJustified
<1>1. IInv => ScheduleIsJustified
  BY DEF IInv, RowsInv
<1> QED
  BY <1>1, Invariance, PTL

\* A deposit is shown as paid only with its money there, whatever becomes of
\* its charges (confirmPaymentByChargeId, confirmSecurityDepositInCash,
\* confirmCashPayment, regenerateDepositCharge).
THEOREM MoneyIsThere == Spec => []MoneyBehindPaid
<1>1. IInv => MoneyBehindPaid
  BY DEF IInv, RowsInv
<1> QED
  BY <1>1, Invariance, PTL

\* A charge row names a gateway charge of its own order, while charges are
\* deleted and generated again (regenerateDepositCharge,
\* generateChargeForPaymentOrder).
THEOREM ChargesBelong == Spec => []ChargeBelongsToOrder
<1>1. IInv => ChargeBelongsToOrder
  BY DEF IInv, ChargesInv
<1> QED
  BY <1>1, Invariance, PTL

=============================================================================
