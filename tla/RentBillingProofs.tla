-------------------------- MODULE RentBillingProofs --------------------------
(***************************************************************************)
(* Proofs about RentBilling for any number of orders, charges, transfers,  *)
(* handlers in flight and crashes.                                         *)
(***************************************************************************)
EXTENDS RentBilling, TLAPS

\* Tasks that act on one order know it, and those that carry an id the
\* gateway gave them carry one of the right kind; what is
\* cancelled has a charge.
TaskOK ==
  \A p \in Procs :
    /\ task[p].op \in {"gen_read", "gen_call", "gen_save", "confirm_write",
                       "payout_call", "payout_save", "overdue_write",
                       "cash_write", "settle_done", "settle_failed"} =>
         task[p].order \in Orders
    /\ task[p].op = "gen_save" => task[p].id \in ChargeIds
    /\ task[p].op = "payout_save" => task[p].id \in TransferIds
    /\ task[p].op = "cancel_gateway" =>
         \A o \in task[p].todo : charge[o] # None

\* An id of the gateway that the server holds, in a row or in a task, is the
\* id of a charge of that order, and a payment webhook tells the truth.
ChargesInv ==
  /\ ChargeBelongsToOrder
  /\ \A o \in Orders : charge[o] # None => gwStatus[charge[o]] # "absent"
  /\ \A p \in Procs : task[p].op = "gen_save" =>
       /\ gwOrder[task[p].id] = task[p].order
       /\ gwStatus[task[p].id] # "absent"
  /\ \A c \in ChargeIds : gwStatus[c] # "absent" => gwOrder[c] \in Orders
  /\ \A e \in ConfirmEvents, c \in ChargeIds :
       <<e, c>> \in sent => Collected(c)

\* The same for transfers.
TransfersInv ==
  /\ \A s \in TransferStatus, t \in TransferIds :
       <<s, t>> \in pixSent =>
         /\ pixStatus[t] # "absent"
         /\ s = "DONE" => pixStatus[t] = "DONE"
  /\ \A t \in TransferIds : pixStatus[t] = "absent" <=> pixOrder[t] = None
  /\ TransferRowOfOrder
  /\ \A t \in TransferIds :
       transferStatus[t] # "absent" => pixStatus[t] # "absent"
  /\ \A p \in Procs : task[p].op = "payout_save" =>
       /\ pixOrder[task[p].id] = task[p].order
       /\ pixStatus[task[p].id] # "absent"

\* What a handler in flight is about to write is still justified when it
\* writes it, because what justified it cannot be undone.
MoneyInv ==
  /\ MoneyBehindPaid
  /\ PayoutOnlyCollected
  /\ ReceivedWasTransferred
  /\ \A p \in Procs :
       /\ task[p].op \in {"confirm_write", "payout_call", "payout_save",
                          "settle_failed"} =>
            task[p].order \in CollectedOrders
       /\ task[p].op = "cash_write" => task[p].order \in cash
       /\ task[p].op = "settle_done" =>
            \E t \in TransferIds :
              pixOrder[t] = task[p].order /\ pixStatus[t] = "DONE"

-----------------------------------------------------------------------------

\* The initial state has no task, no charge and no transfer.
LEMMA InitTypes == Init => TypeOK /\ TaskOK
BY ChargeNoneAssumption, TransferNoneAssumption, OrderNoneAssumption,
   BillingAssumption
   DEF Init, TypeOK, TaskOK, GatewayInit, PixInit, GatewayTypeOK, PixTypeOK,
       GwStatus, ContractStatus, PaymentStatus, IdleTask, Task, Ops

\* Types are preserved by every step.
LEMMA TypeStep == TypeOK /\ TaskOK /\ [Next]_vars => TypeOK' /\ TaskOK'
<1> SUFFICES ASSUME TypeOK, TaskOK, [Next]_vars
             PROVE  TypeOK' /\ TaskOK'
  OBVIOUS
<1> USE DEF TypeOK, TaskOK, GatewayTypeOK, PixTypeOK, GwStatus,
            TransferStatus, ChargeEvents, ContractStatus, PaymentStatus, Ops,
            Task, IdleTask, At, Start, Continue, Finish, vars, gatewayVars,
            pixVars, dbVars
<1>1. ASSUME NEW p \in Procs, NEW o \in Orders, StartGenerate(p, o)
      PROVE  TypeOK' /\ TaskOK'
  BY <1>1 DEF StartGenerate, AfterGenerateRead
<1>2. ASSUME NEW p \in Procs, NEW o \in Orders, TakeJob(p, o)
      PROVE  TypeOK' /\ TaskOK'
  BY <1>2 DEF TakeJob, AfterGenerateRead
<1>3. ASSUME NEW p \in Procs, NEW o \in Orders, StartConfirm(p, o)
      PROVE  TypeOK' /\ TaskOK'
  BY <1>3 DEF StartConfirm
<1>4. ASSUME NEW p \in Procs, NEW o \in Orders, StartOverdue(p, o)
      PROVE  TypeOK' /\ TaskOK'
  BY <1>4 DEF StartOverdue
<1>5. ASSUME NEW p \in Procs, NEW o \in Orders, StartCash(p, o)
      PROVE  TypeOK' /\ TaskOK'
  BY <1>5 DEF StartCash, GwCash, Open
<1>6. ASSUME NEW p \in Procs, NEW t \in TransferIds,
             NEW s \in TransferStatus, StartSettle(p, t, s)
      PROVE  TypeOK' /\ TaskOK'
  BY <1>6 DEF StartSettle, Settlement
<1>7. ASSUME NEW p \in Procs, StartSweep(p)
      PROVE  TypeOK' /\ TaskOK'
  BY <1>7 DEF StartSweep, Overdue
<1>8. ASSUME NEW p \in Procs, StartCancel(p)
      PROVE  TypeOK' /\ TaskOK'
  BY <1>8 DEF StartCancel
<1>9. ASSUME NEW p \in Procs, ForceActivate(p)
      PROVE  TypeOK' /\ TaskOK'
  BY <1>9, BillingAssumption DEF ForceActivate
<1>10. ASSUME NEW p \in Procs, GenerateRead(p)
      PROVE  TypeOK' /\ TaskOK'
  BY <1>10 DEF GenerateRead, AfterGenerateRead
<1>11. ASSUME NEW p \in Procs, NEW c \in ChargeIds, GenerateCall(p, c)
      PROVE  TypeOK' /\ TaskOK'
  BY <1>11 DEF GenerateCall, GwCreate
<1>12. ASSUME NEW p \in Procs, GenerateFail(p)
      PROVE  TypeOK' /\ TaskOK'
  BY <1>12 DEF GenerateFail
<1>13. ASSUME NEW p \in Procs, GenerateSave(p)
      PROVE  TypeOK' /\ TaskOK'
  BY <1>13 DEF GenerateSave
<1>14. ASSUME NEW p \in Procs, ConfirmWrite(p)
      PROVE  TypeOK' /\ TaskOK'
  BY <1>14 DEF ConfirmWrite
<1>15. ASSUME NEW p \in Procs, PayoutSkip(p)
      PROVE  TypeOK' /\ TaskOK'
  BY <1>15 DEF PayoutSkip
<1>16. ASSUME NEW p \in Procs, NEW t \in TransferIds, PayoutCall(p, t)
      PROVE  TypeOK' /\ TaskOK'
  BY <1>16, OrderNoneAssumption DEF PayoutCall, PixCreate
<1>17. ASSUME NEW p \in Procs, PayoutSave(p)
      PROVE  TypeOK' /\ TaskOK'
  BY <1>17 DEF PayoutSave
<1>18. ASSUME NEW p \in Procs, SettleWrite(p)
      PROVE  TypeOK' /\ TaskOK'
  BY <1>18 DEF SettleWrite
<1>19. ASSUME NEW p \in Procs, OverdueWrite(p)
      PROVE  TypeOK' /\ TaskOK'
  BY <1>19 DEF OverdueWrite
<1>20. ASSUME NEW p \in Procs, SweepWrite(p)
      PROVE  TypeOK' /\ TaskOK'
  BY <1>20 DEF SweepWrite
<1>21. ASSUME NEW p \in Procs, CashWrite(p)
      PROVE  TypeOK' /\ TaskOK'
  BY <1>21 DEF CashWrite
<1>22. ASSUME NEW p \in Procs, CancelCharge(p)
      PROVE  TypeOK' /\ TaskOK'
  BY <1>22 DEF CancelCharge, GwCancel, Open
<1>23. ASSUME NEW p \in Procs, CancelOrders(p)
      PROVE  TypeOK' /\ TaskOK'
  BY <1>23 DEF CancelOrders
<1>24. ASSUME NEW p \in Procs, CancelContract(p)
      PROVE  TypeOK' /\ TaskOK'
  BY <1>24 DEF CancelContract
<1>25. ASSUME NEW o \in Orders, Deleted(o)
      PROVE  TypeOK' /\ TaskOK'
  BY <1>25 DEF Deleted, StatusWebhook
<1>26. ASSUME NEW o \in Orders, Restored(o)
      PROVE  TypeOK' /\ TaskOK'
  BY <1>26 DEF Restored, StatusWebhook
<1>27. ASSUME NEW o \in Orders, Age(o)
      PROVE  TypeOK' /\ TaskOK'
  BY <1>27 DEF Age
<1>28. CASE EnqueueCharges
  BY <1>28 DEF EnqueueCharges, Enqueued
<1>29. CASE GatewayStep
  BY <1>29
  DEF GatewayStep, GwPay, GwCredit, GwExpire, GwCancel, GwRestore, Open
<1>30. CASE PixStep
  BY <1>30 DEF PixStep, PixEnd
<1>31. CASE Crash
  BY <1>31 DEF Crash
<1>32. ASSUME NEW s \in Updates, Update(s)
      PROVE  TypeOK' /\ TaskOK'
  BY <1>32, BillingAssumption DEF Update
<1>33. CASE UNCHANGED vars
  BY <1>33
<1> HIDE DEF TypeOK, TaskOK, vars
<1> QED
  BY <1>1, <1>2, <1>3, <1>4, <1>5, <1>6, <1>7, <1>8, <1>9, <1>10, <1>11,
     <1>12, <1>13, <1>14, <1>15, <1>16, <1>17, <1>18, <1>19, <1>20, <1>21,
     <1>22, <1>23, <1>24, <1>25, <1>26, <1>27, <1>28, <1>29, <1>30, <1>31,
     <1>32, <1>33
     DEF Next, Begin, Step

\* Ids held in rows and tasks keep naming charges of the right order, and
\* payment webhooks keep telling the truth.
LEMMA ChargesStep ==
  TypeOK /\ TaskOK /\ ChargesInv /\ [Next]_vars => ChargesInv'
<1> SUFFICES ASSUME TypeOK, TaskOK, ChargesInv, [Next]_vars
             PROVE  ChargesInv'
  OBVIOUS
<1> USE DEF TypeOK, TaskOK, GatewayTypeOK, PixTypeOK, Task, IdleTask, At,
            Start, Continue, Finish, vars, gatewayVars, pixVars, dbVars,
            ChargesInv, ChargeBelongsToOrder, Collected, ConfirmEvents,
            ChargeEvents
<1>1. ASSUME NEW p \in Procs, NEW o \in Orders, StartGenerate(p, o)
      PROVE  ChargesInv'
  BY <1>1 DEF StartGenerate, AfterGenerateRead
<1>2. ASSUME NEW p \in Procs, NEW o \in Orders, TakeJob(p, o)
      PROVE  ChargesInv'
  BY <1>2 DEF TakeJob, AfterGenerateRead
<1>3. ASSUME NEW p \in Procs, NEW o \in Orders, StartConfirm(p, o)
      PROVE  ChargesInv'
  BY <1>3 DEF StartConfirm
<1>4. ASSUME NEW p \in Procs, NEW o \in Orders, StartOverdue(p, o)
      PROVE  ChargesInv'
  BY <1>4 DEF StartOverdue
<1>5. ASSUME NEW p \in Procs, NEW o \in Orders, StartCash(p, o)
      PROVE  ChargesInv'
  <2>1. /\ gwOrder' = gwOrder
        /\ sent' = sent
        /\ charge' = charge
        /\ \A c \in ChargeIds :
             /\ gwStatus[c] # "absent" <=> gwStatus'[c] # "absent"
             /\ Collected(c) => Collected(c)'
    BY <1>5 DEF StartCash, GwCash, Open, gatewayVars, dbVars
  <2>2. \A q \in Procs : task'[q] = task[q] \/ task'[q].op = "cash_write"
    BY <1>5 DEF StartCash
  <2>3. QED
    BY <2>1, <2>2
<1>6. ASSUME NEW p \in Procs, NEW t \in TransferIds,
             NEW s \in TransferStatus, StartSettle(p, t, s)
      PROVE  ChargesInv'
  BY <1>6 DEF StartSettle, Settlement
<1>7. ASSUME NEW p \in Procs, StartSweep(p)
      PROVE  ChargesInv'
  BY <1>7 DEF StartSweep, Overdue
<1>8. ASSUME NEW p \in Procs, StartCancel(p)
      PROVE  ChargesInv'
  BY <1>8 DEF StartCancel
<1>9. ASSUME NEW p \in Procs, ForceActivate(p)
      PROVE  ChargesInv'
  BY <1>9 DEF ForceActivate
<1>10. ASSUME NEW p \in Procs, GenerateRead(p)
      PROVE  ChargesInv'
  BY <1>10 DEF GenerateRead, AfterGenerateRead
<1>11. ASSUME NEW p \in Procs, NEW c \in ChargeIds, GenerateCall(p, c)
      PROVE  ChargesInv'
  BY <1>11 DEF GenerateCall, GwCreate
<1>12. ASSUME NEW p \in Procs, GenerateFail(p)
      PROVE  ChargesInv'
  BY <1>12 DEF GenerateFail
<1>13. ASSUME NEW p \in Procs, GenerateSave(p)
      PROVE  ChargesInv'
  BY <1>13 DEF GenerateSave
<1>14. ASSUME NEW p \in Procs, ConfirmWrite(p)
      PROVE  ChargesInv'
  BY <1>14 DEF ConfirmWrite
<1>15. ASSUME NEW p \in Procs, PayoutSkip(p)
      PROVE  ChargesInv'
  BY <1>15 DEF PayoutSkip
<1>16. ASSUME NEW p \in Procs, NEW t \in TransferIds, PayoutCall(p, t)
      PROVE  ChargesInv'
  BY <1>16, OrderNoneAssumption DEF PayoutCall, PixCreate
<1>17. ASSUME NEW p \in Procs, PayoutSave(p)
      PROVE  ChargesInv'
  BY <1>17 DEF PayoutSave
<1>18. ASSUME NEW p \in Procs, SettleWrite(p)
      PROVE  ChargesInv'
  BY <1>18 DEF SettleWrite
<1>19. ASSUME NEW p \in Procs, OverdueWrite(p)
      PROVE  ChargesInv'
  BY <1>19 DEF OverdueWrite
<1>20. ASSUME NEW p \in Procs, SweepWrite(p)
      PROVE  ChargesInv'
  BY <1>20 DEF SweepWrite
<1>21. ASSUME NEW p \in Procs, CashWrite(p)
      PROVE  ChargesInv'
  BY <1>21 DEF CashWrite
<1>22. ASSUME NEW p \in Procs, CancelCharge(p)
      PROVE  ChargesInv'
  BY <1>22 DEF CancelCharge, GwCancel, Open
<1>23. ASSUME NEW p \in Procs, CancelOrders(p)
      PROVE  ChargesInv'
  BY <1>23 DEF CancelOrders
<1>24. ASSUME NEW p \in Procs, CancelContract(p)
      PROVE  ChargesInv'
  BY <1>24 DEF CancelContract
<1>25. ASSUME NEW o \in Orders, Deleted(o)
      PROVE  ChargesInv'
  BY <1>25 DEF Deleted, StatusWebhook
<1>26. ASSUME NEW o \in Orders, Restored(o)
      PROVE  ChargesInv'
  BY <1>26 DEF Restored, StatusWebhook
<1>27. ASSUME NEW o \in Orders, Age(o)
      PROVE  ChargesInv'
  BY <1>27 DEF Age
<1>28. CASE EnqueueCharges
  BY <1>28 DEF EnqueueCharges, Enqueued
<1>29. CASE GatewayStep
  BY <1>29
  DEF GatewayStep, GwPay, GwCredit, GwExpire, GwCancel, GwRestore, Open
<1>30. CASE PixStep
  BY <1>30 DEF PixStep, PixEnd
<1>31. CASE Crash
  BY <1>31 DEF Crash
<1>32. ASSUME NEW s \in Updates, Update(s)
      PROVE  ChargesInv'
  BY <1>32 DEF Update
<1>33. CASE UNCHANGED vars
  BY <1>33
<1> HIDE DEF TypeOK, TaskOK, ChargesInv, vars
<1> QED
  BY <1>1, <1>2, <1>3, <1>4, <1>5, <1>6, <1>7, <1>8, <1>9, <1>10, <1>11,
     <1>12, <1>13, <1>14, <1>15, <1>16, <1>17, <1>18, <1>19, <1>20, <1>21,
     <1>22, <1>23, <1>24, <1>25, <1>26, <1>27, <1>28, <1>29, <1>30, <1>31,
     <1>32, <1>33
     DEF Next, Begin, Step

\* The same for transfers.
LEMMA TransfersStep ==
  TypeOK /\ TaskOK /\ TransfersInv /\ [Next]_vars => TransfersInv'
<1> SUFFICES ASSUME TypeOK, TaskOK, TransfersInv, [Next]_vars
             PROVE  TransfersInv'
  OBVIOUS
<1> USE DEF TypeOK, TaskOK, GatewayTypeOK, PixTypeOK, Task, IdleTask, At,
            Start, Continue, Finish, vars, gatewayVars, pixVars, dbVars,
            TransfersInv, TransferRowOfOrder, TransferStatus
<1>1. ASSUME NEW p \in Procs, NEW o \in Orders, StartGenerate(p, o)
      PROVE  TransfersInv'
  BY <1>1 DEF StartGenerate, AfterGenerateRead
<1>2. ASSUME NEW p \in Procs, NEW o \in Orders, TakeJob(p, o)
      PROVE  TransfersInv'
  BY <1>2 DEF TakeJob, AfterGenerateRead
<1>3. ASSUME NEW p \in Procs, NEW o \in Orders, StartConfirm(p, o)
      PROVE  TransfersInv'
  BY <1>3 DEF StartConfirm
<1>4. ASSUME NEW p \in Procs, NEW o \in Orders, StartOverdue(p, o)
      PROVE  TransfersInv'
  BY <1>4 DEF StartOverdue
<1>5. ASSUME NEW p \in Procs, NEW o \in Orders, StartCash(p, o)
      PROVE  TransfersInv'
  BY <1>5 DEF StartCash, GwCash, Open
<1>6. ASSUME NEW p \in Procs, NEW t \in TransferIds,
             NEW s \in TransferStatus, StartSettle(p, t, s)
      PROVE  TransfersInv'
  BY <1>6 DEF StartSettle, Settlement
<1>7. ASSUME NEW p \in Procs, StartSweep(p)
      PROVE  TransfersInv'
  BY <1>7 DEF StartSweep, Overdue
<1>8. ASSUME NEW p \in Procs, StartCancel(p)
      PROVE  TransfersInv'
  BY <1>8 DEF StartCancel
<1>9. ASSUME NEW p \in Procs, ForceActivate(p)
      PROVE  TransfersInv'
  BY <1>9 DEF ForceActivate
<1>10. ASSUME NEW p \in Procs, GenerateRead(p)
      PROVE  TransfersInv'
  BY <1>10 DEF GenerateRead, AfterGenerateRead
<1>11. ASSUME NEW p \in Procs, NEW c \in ChargeIds, GenerateCall(p, c)
      PROVE  TransfersInv'
  BY <1>11 DEF GenerateCall, GwCreate
<1>12. ASSUME NEW p \in Procs, GenerateFail(p)
      PROVE  TransfersInv'
  BY <1>12 DEF GenerateFail
<1>13. ASSUME NEW p \in Procs, GenerateSave(p)
      PROVE  TransfersInv'
  BY <1>13 DEF GenerateSave
<1>14. ASSUME NEW p \in Procs, ConfirmWrite(p)
      PROVE  TransfersInv'
  BY <1>14 DEF ConfirmWrite
<1>15. ASSUME NEW p \in Procs, PayoutSkip(p)
      PROVE  TransfersInv'
  BY <1>15 DEF PayoutSkip
<1>16. ASSUME NEW p \in Procs, NEW t \in TransferIds, PayoutCall(p, t)
      PROVE  TransfersInv'
  BY <1>16, OrderNoneAssumption DEF PayoutCall, PixCreate
<1>17. ASSUME NEW p \in Procs, PayoutSave(p)
      PROVE  TransfersInv'
  BY <1>17 DEF PayoutSave
<1>18. ASSUME NEW p \in Procs, SettleWrite(p)
      PROVE  TransfersInv'
  BY <1>18 DEF SettleWrite
<1>19. ASSUME NEW p \in Procs, OverdueWrite(p)
      PROVE  TransfersInv'
  BY <1>19 DEF OverdueWrite
<1>20. ASSUME NEW p \in Procs, SweepWrite(p)
      PROVE  TransfersInv'
  BY <1>20 DEF SweepWrite
<1>21. ASSUME NEW p \in Procs, CashWrite(p)
      PROVE  TransfersInv'
  BY <1>21 DEF CashWrite
<1>22. ASSUME NEW p \in Procs, CancelCharge(p)
      PROVE  TransfersInv'
  BY <1>22 DEF CancelCharge, GwCancel, Open
<1>23. ASSUME NEW p \in Procs, CancelOrders(p)
      PROVE  TransfersInv'
  BY <1>23 DEF CancelOrders
<1>24. ASSUME NEW p \in Procs, CancelContract(p)
      PROVE  TransfersInv'
  BY <1>24 DEF CancelContract
<1>25. ASSUME NEW o \in Orders, Deleted(o)
      PROVE  TransfersInv'
  BY <1>25 DEF Deleted, StatusWebhook
<1>26. ASSUME NEW o \in Orders, Restored(o)
      PROVE  TransfersInv'
  BY <1>26 DEF Restored, StatusWebhook
<1>27. ASSUME NEW o \in Orders, Age(o)
      PROVE  TransfersInv'
  BY <1>27 DEF Age
<1>28. CASE EnqueueCharges
  BY <1>28 DEF EnqueueCharges, Enqueued
<1>29. CASE GatewayStep
  BY <1>29
  DEF GatewayStep, GwPay, GwCredit, GwExpire, GwCancel, GwRestore, Open
<1>30. CASE PixStep
  BY <1>30 DEF PixStep, PixEnd
<1>31. CASE Crash
  BY <1>31 DEF Crash
<1>32. ASSUME NEW s \in Updates, Update(s)
      PROVE  TransfersInv'
  BY <1>32 DEF Update
<1>33. CASE UNCHANGED vars
  BY <1>33
<1> HIDE DEF TypeOK, TaskOK, TransfersInv, vars
<1> QED
  BY <1>1, <1>2, <1>3, <1>4, <1>5, <1>6, <1>7, <1>8, <1>9, <1>10, <1>11,
     <1>12, <1>13, <1>14, <1>15, <1>16, <1>17, <1>18, <1>19, <1>20, <1>21,
     <1>22, <1>23, <1>24, <1>25, <1>26, <1>27, <1>28, <1>29, <1>30, <1>31,
     <1>32, <1>33
     DEF Next, Begin, Step

\* Money that was collected stays collected, for the same order: the only
\* steps that touch the gateway's charges create one under an unused id or
\* act on one that is still to be paid.
LEMMA CollectedStep ==
  TypeOK /\ TaskOK /\ [Next]_vars =>
    CollectedOrders \subseteq CollectedOrders'
<1> SUFFICES ASSUME TypeOK, TaskOK, [Next]_vars
             PROVE  \A c \in ChargeIds : Collected(c) =>
                      Collected(c)' /\ gwOrder'[c] = gwOrder[c]
  BY DEF CollectedOrders
<1> USE DEF TypeOK, GatewayTypeOK, Collected
<1>1. ASSUME NEW p \in Procs, NEW c \in ChargeIds, GenerateCall(p, c)
      PROVE  \A d \in ChargeIds : Collected(d) =>
               Collected(d)' /\ gwOrder'[d] = gwOrder[d]
  BY <1>1 DEF GenerateCall, GwCreate
<1>2. ASSUME NEW p \in Procs, NEW o \in Orders, StartCash(p, o)
      PROVE  \A d \in ChargeIds : Collected(d) =>
               Collected(d)' /\ gwOrder'[d] = gwOrder[d]
  BY <1>2 DEF StartCash, GwCash, Open, gatewayVars
<1>3. ASSUME NEW p \in Procs, CancelCharge(p)
      PROVE  \A d \in ChargeIds : Collected(d) =>
               Collected(d)' /\ gwOrder'[d] = gwOrder[d]
  BY <1>3 DEF CancelCharge, GwCancel, Open, gatewayVars
<1>4. CASE GatewayStep
  BY <1>4 DEF GatewayStep, GwPay, GwCredit, GwExpire, GwCancel, GwRestore, Open
<1>5. CASE UNCHANGED gatewayVars
  BY <1>5 DEF gatewayVars
<1> HIDE DEF TypeOK
<1>6. QED
  BY <1>1, <1>2, <1>3, <1>4, <1>5
     DEF Next, Begin, Step, vars, StartGenerate, TakeJob, StartConfirm,
         StartOverdue, StartSettle, StartSweep, StartCancel, ForceActivate,
         GenerateRead, GenerateFail, GenerateSave, ConfirmWrite, PayoutSkip,
         PayoutCall, PayoutSave, SettleWrite, OverdueWrite, SweepWrite,
         CashWrite, CancelOrders, CancelContract, Deleted, Restored,
         StatusWebhook, Age, EnqueueCharges, Update, PixStep, Crash

\* Every status an order gets is justified by money, and stays so.
LEMMA MoneyStep ==
  TypeOK /\ TaskOK /\ ChargesInv /\ TransfersInv /\ MoneyInv /\ [Next]_vars =>
    MoneyInv'
<1> SUFFICES ASSUME TypeOK, TaskOK, ChargesInv, TransfersInv, MoneyInv,
                    [Next]_vars
             PROVE  MoneyInv'
  OBVIOUS
<1>0. CollectedOrders \subseteq CollectedOrders'
  BY CollectedStep
<1> USE DEF TypeOK, TaskOK, GatewayTypeOK, PixTypeOK, Task, IdleTask, At,
            Start, Continue, Finish, vars, gatewayVars, pixVars, dbVars,
            ChargesInv, ChargeBelongsToOrder, TransfersInv,
            TransferRowOfOrder, MoneyInv, MoneyBehindPaid,
            PayoutOnlyCollected, ReceivedWasTransferred, TransferStatus
<1>1. ASSUME NEW p \in Procs, NEW o \in Orders, StartGenerate(p, o)
      PROVE  MoneyInv'
  BY <1>0, <1>1 DEF StartGenerate, AfterGenerateRead
<1>2. ASSUME NEW p \in Procs, NEW o \in Orders, TakeJob(p, o)
      PROVE  MoneyInv'
  BY <1>0, <1>2 DEF TakeJob, AfterGenerateRead
<1>3. ASSUME NEW p \in Procs, NEW o \in Orders, StartConfirm(p, o)
      PROVE  MoneyInv'
  <2>1. /\ charge[o] \in ChargeIds /\ Collected(charge[o])
        /\ gwOrder[charge[o]] = o
    BY <1>3, ChargeNoneAssumption DEF StartConfirm, ChargeEvents
  <2>2. o \in CollectedOrders
    BY <2>1 DEF CollectedOrders
  <2>3. QED
    BY <1>0, <1>3, <2>2 DEF StartConfirm
<1>4. ASSUME NEW p \in Procs, NEW o \in Orders, StartOverdue(p, o)
      PROVE  MoneyInv'
  BY <1>0, <1>4 DEF StartOverdue
<1>5. ASSUME NEW p \in Procs, NEW o \in Orders, StartCash(p, o)
      PROVE  MoneyInv'
  BY <1>0, <1>5 DEF StartCash, GwCash, Open
<1>6. ASSUME NEW p \in Procs, NEW t \in TransferIds,
             NEW s \in TransferStatus, StartSettle(p, t, s)
      PROVE  MoneyInv'
  BY <1>0, <1>6 DEF StartSettle, Settlement
<1>7. ASSUME NEW p \in Procs, StartSweep(p)
      PROVE  MoneyInv'
  BY <1>0, <1>7 DEF StartSweep, Overdue
<1>8. ASSUME NEW p \in Procs, StartCancel(p)
      PROVE  MoneyInv'
  BY <1>0, <1>8 DEF StartCancel
<1>9. ASSUME NEW p \in Procs, ForceActivate(p)
      PROVE  MoneyInv'
  BY <1>0, <1>9 DEF ForceActivate
<1>10. ASSUME NEW p \in Procs, GenerateRead(p)
      PROVE  MoneyInv'
  BY <1>0, <1>10 DEF GenerateRead, AfterGenerateRead
<1>11. ASSUME NEW p \in Procs, NEW c \in ChargeIds, GenerateCall(p, c)
      PROVE  MoneyInv'
  BY <1>0, <1>11 DEF GenerateCall, GwCreate
<1>12. ASSUME NEW p \in Procs, GenerateFail(p)
      PROVE  MoneyInv'
  BY <1>0, <1>12 DEF GenerateFail
<1>13. ASSUME NEW p \in Procs, GenerateSave(p)
      PROVE  MoneyInv'
  BY <1>0, <1>13 DEF GenerateSave
<1>14. ASSUME NEW p \in Procs, ConfirmWrite(p)
      PROVE  MoneyInv'
  BY <1>0, <1>14 DEF ConfirmWrite
<1>15. ASSUME NEW p \in Procs, PayoutSkip(p)
      PROVE  MoneyInv'
  BY <1>0, <1>15 DEF PayoutSkip
<1>16. ASSUME NEW p \in Procs, NEW t \in TransferIds, PayoutCall(p, t)
      PROVE  MoneyInv'
  BY <1>0, <1>16 DEF PayoutCall, PixCreate
<1>17. ASSUME NEW p \in Procs, PayoutSave(p)
      PROVE  MoneyInv'
  BY <1>0, <1>17 DEF PayoutSave
<1>18. ASSUME NEW p \in Procs, SettleWrite(p)
      PROVE  MoneyInv'
  BY <1>0, <1>18 DEF SettleWrite
<1>19. ASSUME NEW p \in Procs, OverdueWrite(p)
      PROVE  MoneyInv'
  BY <1>0, <1>19 DEF OverdueWrite
<1>20. ASSUME NEW p \in Procs, SweepWrite(p)
      PROVE  MoneyInv'
  BY <1>0, <1>20 DEF SweepWrite
<1>21. ASSUME NEW p \in Procs, CashWrite(p)
      PROVE  MoneyInv'
  BY <1>0, <1>21 DEF CashWrite
<1>22. ASSUME NEW p \in Procs, CancelCharge(p)
      PROVE  MoneyInv'
  BY <1>0, <1>22 DEF CancelCharge, GwCancel, Open
<1>23. ASSUME NEW p \in Procs, CancelOrders(p)
      PROVE  MoneyInv'
  BY <1>0, <1>23 DEF CancelOrders
<1>24. ASSUME NEW p \in Procs, CancelContract(p)
      PROVE  MoneyInv'
  BY <1>0, <1>24 DEF CancelContract
<1>25. ASSUME NEW o \in Orders, Deleted(o)
      PROVE  MoneyInv'
  BY <1>0, <1>25 DEF Deleted, StatusWebhook
<1>26. ASSUME NEW o \in Orders, Restored(o)
      PROVE  MoneyInv'
  BY <1>0, <1>26 DEF Restored, StatusWebhook
<1>27. ASSUME NEW o \in Orders, Age(o)
      PROVE  MoneyInv'
  BY <1>0, <1>27 DEF Age
<1>28. CASE EnqueueCharges
  BY <1>0, <1>28 DEF EnqueueCharges, Enqueued
<1>29. CASE GatewayStep
  BY <1>0, <1>29
     DEF GatewayStep, GwPay, GwCredit, GwExpire, GwCancel, GwRestore, Open
<1>30. CASE PixStep
  BY <1>0, <1>30 DEF PixStep, PixEnd
<1>31. CASE Crash
  BY <1>0, <1>31 DEF Crash
<1>32. ASSUME NEW s \in Updates, Update(s)
      PROVE  MoneyInv'
  BY <1>0, <1>32 DEF Update
<1>33. CASE UNCHANGED vars
  BY <1>0, <1>33
<1> HIDE DEF TypeOK, TaskOK, ChargesInv, TransfersInv, MoneyInv, vars
<1> QED
  BY <1>1, <1>2, <1>3, <1>4, <1>5, <1>6, <1>7, <1>8, <1>9, <1>10, <1>11,
     <1>12, <1>13, <1>14, <1>15, <1>16, <1>17, <1>18, <1>19, <1>20, <1>21,
     <1>22, <1>23, <1>24, <1>25, <1>26, <1>27, <1>28, <1>29, <1>30, <1>31,
     <1>32, <1>33
     DEF Next, Begin, Step

-----------------------------------------------------------------------------

\* The inductive invariant.
IInv == TypeOK /\ TaskOK /\ ChargesInv /\ TransfersInv /\ MoneyInv

\* The initial states satisfy it.
LEMMA InitInv == Init => IInv
<1> SUFFICES ASSUME Init PROVE ChargesInv /\ TransfersInv /\ MoneyInv
  BY InitTypes DEF IInv
<1> USE DEF Init, GatewayInit, PixInit, Task, IdleTask
<1>1. ChargesInv
  BY DEF ChargesInv, ChargeBelongsToOrder
<1>2. TransfersInv
  BY DEF TransfersInv, TransferRowOfOrder
<1>3. MoneyInv
  BY DEF MoneyInv, MoneyBehindPaid, PayoutOnlyCollected, ReceivedWasTransferred
<1>4. QED
  BY <1>1, <1>2, <1>3

\* Every reachable state of the billing satisfies the inductive invariant.
THEOREM Invariance == Spec => []IInv
<1>1. Init => IInv
  BY InitInv
<1>2. IInv /\ [Next]_vars => IInv'
  BY TypeStep, ChargesStep, TransfersStep, MoneyStep DEF IInv
<1>3. QED
  BY <1>1, <1>2, PTL DEF Spec

\* The type invariant of RentBilling.
THEOREM TypeCorrect == Spec => []TypeOK
<1>1. IInv => TypeOK
  BY DEF IInv
<1>2. QED
  BY <1>1, Invariance, PTL

\* A charge row names a gateway charge of its own order, for any number of
\* handlers that generate charges at once (generateChargeForPaymentOrder).
THEOREM ChargesBelong == Spec => []ChargeBelongsToOrder
<1>1. IInv => ChargeBelongsToOrder
  BY DEF IInv, ChargesInv
<1>2. QED
  BY <1>1, Invariance, PTL

\* No order is shown as paid, being paid out or paid out without its money,
\* whatever webhooks arrive late, twice or out of order.
THEOREM MoneyIsThere == Spec => []MoneyBehindPaid
<1>1. IInv => MoneyBehindPaid
  BY DEF IInv, MoneyInv
<1>2. QED
  BY <1>1, Invariance, PTL

\* A PIX transfer pays out only what the gateway collected
\* (initiateAutomaticTransfer).
THEOREM PayoutsAreCollected == Spec => []PayoutOnlyCollected
<1>1. IInv => PayoutOnlyCollected
  BY DEF IInv, MoneyInv
<1>2. QED
  BY <1>1, Invariance, PTL

\* An order is shown as received only after a transfer of it came through
\* (handleTransferStatusUpdate).
THEOREM ReceivedIsTransferred == Spec => []ReceivedWasTransferred
<1>1. IInv => ReceivedWasTransferred
  BY DEF IInv, MoneyInv
<1>2. QED
  BY <1>1, Invariance, PTL

\* A transfer row linked to an order is the only one, and the row of a
\* transfer made for that order (createTransferRecord).
THEOREM TransferRows == Spec => []TransferRowOfOrder
<1>1. IInv => TransferRowOfOrder
  BY DEF IInv, TransfersInv
<1>2. QED
  BY <1>1, Invariance, PTL

\* The charge row of an order is never replaced: only the save of a generated
\* charge writes it, and only where there is none.
THEOREM ChargeIsKept == Spec => ChargeNeverReplaced
<1>1. ASSUME TypeOK, TaskOK, [Next]_vars
      PROVE  \A o \in Orders : charge[o] # None => charge'[o] = charge[o]
  <2>1. ASSUME NEW p \in Procs, GenerateSave(p)
        PROVE  \A o \in Orders : charge[o] # None => charge'[o] = charge[o]
    BY <1>1, <2>1 DEF GenerateSave, TypeOK
  <2>2. CASE UNCHANGED charge
    BY <2>2
  <2>3. QED
    BY <1>1, <2>1, <2>2
       DEF Next, Begin, Step, vars, dbVars, StartGenerate, TakeJob,
           StartConfirm, StartOverdue, StartCash, StartSettle, StartSweep,
           StartCancel, ForceActivate, GenerateRead, GenerateCall,
           GenerateFail, ConfirmWrite, PayoutSkip, PayoutCall, PayoutSave,
           SettleWrite, OverdueWrite, SweepWrite, CashWrite, CancelCharge,
           CancelOrders, CancelContract, Deleted, Restored, StatusWebhook,
           Age, EnqueueCharges, Update, GatewayStep, PixStep, Crash
<1>2. IInv /\ [Next]_vars =>
        [\A o \in Orders : charge[o] # None => charge'[o] = charge[o]]_vars
  BY <1>1 DEF IInv
<1>3. QED
  BY <1>2, Invariance, PTL DEF Spec, ChargeNeverReplaced

-----------------------------------------------------------------------------
(* RentBilling implements RentLedger.                                      *)

\* A step that leaves the gateway's two sides, the orders and the history of
\* cash alone is not seen by the ledger.
LEMMA Unseen ==
  UNCHANGED <<gatewayVars, pixVars, order, cash>> => UNCHANGED Ledger!ledger
BY DEF Ledger!ledger, CollectedOrders, Collected, gatewayVars, pixVars

\* A step that only writes a justified status of one order shows it.
LEMMA ShowsStatus ==
  ASSUME TypeOK, NEW o \in Orders, NEW s \in PaymentStatus,
         order' = [order EXCEPT ![o] = s],
         UNCHANGED <<gatewayVars, pixVars, cash>>,
         Ledger!Justified(o, View(s))
  PROVE  [Ledger!Next]_(Ledger!ledger)
<1>1. View(s) \in Ledger!Shown
  BY DEF View, Ledger!Shown, PaymentStatus
<1>2. CollectedOrders' = CollectedOrders
  BY DEF CollectedOrders, Collected, gatewayVars
<1>3. [q \in Orders |-> View(order'[q])]
        = [[q \in Orders |-> View(order[q])] EXCEPT ![o] = View(s)]
  BY DEF TypeOK
<1>4. Ledger!Show(o, View(s))
  BY <1>2, <1>3 DEF Ledger!Show, pixVars
<1>5. QED
  BY <1>1, <1>4 DEF Ledger!Next

\* Every step of the billing is a step of the ledger or one it does not see.
LEMMA LedgerStep ==
  IInv /\ [Next]_vars => [Ledger!Next]_(Ledger!ledger)
<1> SUFFICES ASSUME IInv, [Next]_vars
             PROVE  [Ledger!Next]_(Ledger!ledger)
  OBVIOUS
<1>0. TypeOK /\ TaskOK /\ ChargesInv /\ TransfersInv /\ MoneyInv
  BY DEF IInv
<1>1. ASSUME NEW p \in Procs, ConfirmWrite(p)
      PROVE  [Ledger!Next]_(Ledger!ledger)
  <2>1. task[p].order \in Orders /\ task[p].order \in CollectedOrders
    BY <1>0, <1>1 DEF ConfirmWrite, At, TaskOK, MoneyInv
  <2>2. Ledger!Justified(task[p].order, View("PAGO"))
    BY <2>1 DEF Ledger!Justified, View
  <2>3. QED
    BY <1>0, <1>1, <2>1, <2>2, ShowsStatus DEF ConfirmWrite, PaymentStatus
<1>2. ASSUME NEW p \in Procs, CashWrite(p)
      PROVE  [Ledger!Next]_(Ledger!ledger)
  <2>1. task[p].order \in Orders /\ task[p].order \in cash
    BY <1>0, <1>2 DEF CashWrite, At, TaskOK, MoneyInv
  <2>2. Ledger!Justified(task[p].order, View("PAGO"))
    BY <2>1 DEF Ledger!Justified, View
  <2>3. QED
    BY <1>0, <1>2, <2>1, <2>2, ShowsStatus DEF CashWrite, PaymentStatus
<1>3. ASSUME NEW p \in Procs, PayoutSave(p)
      PROVE  [Ledger!Next]_(Ledger!ledger)
  <2>1. /\ task[p].order \in Orders /\ task[p].id \in TransferIds
        /\ pixOrder[task[p].id] = task[p].order
    BY <1>0, <1>3 DEF PayoutSave, At, TaskOK, TransfersInv
  <2>2. Ledger!Justified(task[p].order, View("EM_REPASSE"))
    BY <2>1 DEF Ledger!Justified, View
  <2>3. QED
    BY <1>0, <1>3, <2>1, <2>2, ShowsStatus DEF PayoutSave, PaymentStatus
<1>4. ASSUME NEW p \in Procs, SettleWrite(p)
      PROVE  [Ledger!Next]_(Ledger!ledger)
  <2>1. task[p].order \in Orders
    BY <1>0, <1>4 DEF SettleWrite, TaskOK
  <2>2. CASE At(p, "settle_done")
    <3>1. Ledger!Justified(task[p].order, View("RECEBIDO"))
      BY <1>0, <2>2 DEF Ledger!Justified, View, MoneyInv, At
    <3>2. QED
      BY <1>0, <1>4, <2>1, <2>2, <3>1, ShowsStatus
         DEF SettleWrite, PaymentStatus
  <2>3. CASE ~ At(p, "settle_done")
    <3>1. Ledger!Justified(task[p].order, View("PAGO"))
      BY <1>0, <1>4, <2>3 DEF SettleWrite, Ledger!Justified, View, MoneyInv, At
    <3>2. QED
      BY <1>0, <1>4, <2>1, <2>3, <3>1, ShowsStatus
         DEF SettleWrite, PaymentStatus
  <2>4. QED
    BY <2>2, <2>3
<1>5. ASSUME NEW o \in Orders, NEW s \in {"ATRASADO", "CANCELADO", "PENDENTE"},
             order' = [order EXCEPT ![o] = s],
             UNCHANGED <<gatewayVars, pixVars, cash>>
      PROVE  [Ledger!Next]_(Ledger!ledger)
  <2>1. Ledger!Justified(o, View(s))
    BY DEF Ledger!Justified, View
  <2>2. QED
    BY <1>0, <1>5, <2>1, ShowsStatus DEF PaymentStatus
<1>6. ASSUME NEW p \in Procs, OverdueWrite(p)
      PROVE  [Ledger!Next]_(Ledger!ledger)
  BY <1>0, <1>5, <1>6 DEF OverdueWrite, At, TaskOK
<1>7. ASSUME NEW p \in Procs, SweepWrite(p)
      PROVE  [Ledger!Next]_(Ledger!ledger)
  BY <1>0, <1>5, <1>7 DEF SweepWrite, TypeOK
<1>8. ASSUME NEW o \in Orders, Deleted(o) \/ Restored(o)
      PROVE  [Ledger!Next]_(Ledger!ledger)
  BY <1>5, <1>8 DEF Deleted, Restored, StatusWebhook
<1>9. ASSUME NEW p \in Procs, CancelOrders(p)
      PROVE  [Ledger!Next]_(Ledger!ledger)
  <2>1. [q \in Orders |-> View(order'[q])] = [q \in Orders |-> View(order[q])]
    BY <1>9 DEF CancelOrders, View
  <2>2. CollectedOrders' = CollectedOrders
    BY <1>9 DEF CancelOrders, CollectedOrders, Collected, gatewayVars
  <2>3. QED
    BY <1>9, <2>1, <2>2 DEF CancelOrders, pixVars, Ledger!ledger
<1>10. ASSUME NEW p \in Procs, NEW t \in TransferIds, PayoutCall(p, t)
       PROVE  [Ledger!Next]_(Ledger!ledger)
  <2>1. task[p].order \in Orders /\ task[p].order \in CollectedOrders
    BY <1>0, <1>10 DEF PayoutCall, At, TaskOK, MoneyInv
  <2>2. CollectedOrders' = CollectedOrders
    BY <1>10 DEF PayoutCall, CollectedOrders, Collected, gatewayVars
  <2>3. {u \in TransferIds : pixStatus[u] = "DONE"}'
          = {u \in TransferIds : pixStatus[u] = "DONE"}
    BY <1>0, <1>10 DEF PayoutCall, PixCreate, TypeOK, PixTypeOK
  <2>4. pixOrder[t] = None
    BY <1>0, <1>10 DEF PayoutCall, PixCreate, TransfersInv
  <2>5. Ledger!Forward(t, task[p].order)
    BY <1>10, <2>1, <2>2, <2>3, <2>4
       DEF PayoutCall, PixCreate, dbVars, Ledger!Forward
  <2>6. QED
    BY <2>1, <2>5 DEF Ledger!Next
<1>11. CASE PixStep
  <2>1. PICK t \in TransferIds : PixEnd(t)
    BY <1>11 DEF PixStep
  <2>2. CollectedOrders' = CollectedOrders
    BY <1>11 DEF PixStep, CollectedOrders, Collected, gatewayVars
  <2>3. CASE pixStatus'[t] = "DONE"
    <3>1. {u \in TransferIds : pixStatus[u] = "DONE"}'
            = {u \in TransferIds : pixStatus[u] = "DONE"} \cup {t}
      BY <1>0, <2>1, <2>3 DEF PixEnd, TypeOK, PixTypeOK
    <3>2. pixOrder[t] # None
      BY <1>0, <2>1 DEF PixEnd, TransfersInv
    <3>3. Ledger!Arrive(t)
      BY <1>11, <2>1, <2>2, <3>1, <3>2
         DEF PixStep, PixEnd, dbVars, Ledger!Arrive
    <3>4. QED
      BY <3>3 DEF Ledger!Next
  <2>4. CASE pixStatus'[t] # "DONE"
    <3>1. {u \in TransferIds : pixStatus[u] = "DONE"}'
            = {u \in TransferIds : pixStatus[u] = "DONE"}
      BY <1>0, <2>1, <2>4 DEF PixEnd, TypeOK, PixTypeOK
    <3>2. QED
      BY <1>11, <2>1, <2>2, <3>1 DEF PixStep, PixEnd, dbVars, Ledger!ledger
  <2>5. QED
    BY <2>3, <2>4
<1>12. ASSUME NEW p \in Procs, NEW o \in Orders, StartCash(p, o)
       PROVE  [Ledger!Next]_(Ledger!ledger)
  <2>1. CollectedOrders' = CollectedOrders
    <3>1. \A c \in ChargeIds :
            Collected(c)' = Collected(c) /\ gwOrder'[c] = gwOrder[c]
      BY <1>0, <1>12
         DEF StartCash, GwCash, Open, Collected, gatewayVars, TypeOK,
             GatewayTypeOK
    <3>2. QED
      BY <3>1 DEF CollectedOrders
  <2>2. Ledger!Declare(o)
    BY <1>12, <2>1 DEF StartCash, pixVars, dbVars, Ledger!Declare
  <2>3. QED
    BY <2>2 DEF Ledger!Next
<1>13. ASSUME NEW p \in Procs, NEW c \in ChargeIds, GenerateCall(p, c)
       PROVE  [Ledger!Next]_(Ledger!ledger)
  <2>1. \A d \in ChargeIds : Collected(d)' = Collected(d)
                             /\ (Collected(d) => gwOrder'[d] = gwOrder[d])
    BY <1>0, <1>13 DEF GenerateCall, GwCreate, Collected, TypeOK, GatewayTypeOK
  <2>2. CollectedOrders' = CollectedOrders
    BY <2>1 DEF CollectedOrders
  <2>3. QED
    BY <1>13, <2>2 DEF GenerateCall, pixVars, dbVars, Ledger!ledger
<1>14. ASSUME NEW p \in Procs, CancelCharge(p)
       PROVE  [Ledger!Next]_(Ledger!ledger)
  <2>1. \A c \in ChargeIds :
          Collected(c)' = Collected(c) /\ gwOrder'[c] = gwOrder[c]
    BY <1>0, <1>14
       DEF CancelCharge, GwCancel, Open, Collected, gatewayVars, TypeOK,
           GatewayTypeOK
  <2>2. CollectedOrders' = CollectedOrders
    BY <2>1 DEF CollectedOrders
  <2>3. QED
    BY <1>14, <2>2 DEF CancelCharge, pixVars, dbVars, Ledger!ledger
<1>15. CASE GatewayStep
  <2>1. ASSUME NEW c \in ChargeIds, GwPay(c)
        PROVE  CollectedOrders' = CollectedOrders \cup {gwOrder[c]}
    <3>1. \A d \in ChargeIds : /\ gwOrder'[d] = gwOrder[d]
                               /\ Collected(d)' = (Collected(d) \/ d = c)
      BY <1>0, <2>1 DEF GwPay, Collected, TypeOK, GatewayTypeOK
    <3>2. QED
      BY <3>1 DEF CollectedOrders
  <2>2. ASSUME NEW c \in ChargeIds, GwPay(c)
        PROVE  [Ledger!Next]_(Ledger!ledger)
    <3>1. gwOrder[c] \in Orders
      BY <1>0, <2>2 DEF GwPay, Open, ChargesInv
    <3>2. Ledger!Collect(gwOrder[c])
      BY <1>15, <2>1, <2>2 DEF GatewayStep, pixVars, dbVars, Ledger!Collect
    <3>3. QED
      BY <3>1, <3>2 DEF Ledger!Next
  <2>3. ASSUME NEW c \in ChargeIds,
               GwCredit(c) \/ GwExpire(c) \/ GwCancel(c) \/ GwRestore(c)
        PROVE  [Ledger!Next]_(Ledger!ledger)
    <3>1. \A d \in ChargeIds :
            Collected(d)' = Collected(d) /\ gwOrder'[d] = gwOrder[d]
      BY <1>0, <2>3
         DEF GwCredit, GwExpire, GwCancel, GwRestore, Open, Collected, TypeOK,
             GatewayTypeOK
    <3>2. CollectedOrders' = CollectedOrders
      BY <3>1 DEF CollectedOrders
    <3>3. QED
      BY <1>15, <3>2 DEF GatewayStep, pixVars, dbVars, Ledger!ledger
  <2>4. QED
    BY <1>15, <2>2, <2>3 DEF GatewayStep
<1>16. CASE UNCHANGED <<gatewayVars, pixVars, order, cash>>
  BY <1>16, Unseen
<1>17. QED
  BY <1>1, <1>2, <1>3, <1>4, <1>6, <1>7, <1>8, <1>9, <1>10, <1>11, <1>12,
     <1>13, <1>14, <1>15, <1>16
     DEF Next, Begin, Step, vars, dbVars, StartGenerate, TakeJob, StartConfirm,
         StartOverdue, StartSettle, StartSweep, StartCancel, ForceActivate,
         GenerateRead, GenerateFail, GenerateSave, PayoutSkip, CancelContract,
         Age, EnqueueCharges, Update, Crash

\* Billing implements the ledger: money is sent on only after it came in, and
\* every status an order gets is justified when it is written.
THEOREM Refinement == Spec => ImplementsLedger
<1>1. Init => Ledger!Init
  BY DEF Init, GatewayInit, PixInit, Ledger!Init, CollectedOrders, Collected,
         View
<1>2. IInv /\ [Next]_vars => [Ledger!Next]_(Ledger!ledger)
  BY LedgerStep
<1>3. QED
  BY <1>1, <1>2, Invariance, PTL DEF Spec, ImplementsLedger, Ledger!Spec

=============================================================================
