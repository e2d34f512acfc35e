--------------------------- MODULE NoticesProofs ---------------------------
(***************************************************************************)
(* Proofs about Notices for any orders, due days, and bounds.              *)
(***************************************************************************)
EXTENDS Notices, FiniteSetTheorems, TLAPS

\* The rents of which somebody is yet to be told, or which are to be paid out.
Pending == owed \ silent

\* A rent that is pending is in the hands of the webhook's handler, which is
\* on its way to the payout, or to the admins whom it tells of the failure.
OwedInv ==
  LET w == task["webhook"]
  IN  Pending # {} =>
        /\ Pending \subseteq w.order
        /\ \/ w.op = "payout" /\ w.sum = 1
           \/ /\ w.op \in {"row", "mail"} /\ w.sum = 1
              /\ w.kinds \in {<<"paid_tenant", "paid_landlord">>,
                              <<"paid_landlord">>}
           \/ w.op = "row" /\ w.kinds = <<"payout_failed">>

\* No handler is about to write an order that was paid, unless their ways
\* crossed; the reminders mark nothing.
HeldInv ==
  /\ task["remind"].op # "mark"
  /\ \A o \in paid \ crossed : \A h \in Handlers : o \notin Holds(h)

-----------------------------------------------------------------------------
(* Types.                                                                  *)

Tasks == [op : Ops, todo : SUBSET Orders, saying : SUBSET Kinds,
          order : SUBSET Orders, kinds : Seq(Kinds), sum : Nat]

\* TypeOK in its parts.
TasksOK == task \in [Handlers -> Tasks]

OrdersOK ==
  /\ status \in [Orders -> Statuses]
  /\ due \in [Orders -> Nat]
  /\ renewed \in [Orders -> Nat]

BalanceOK ==
  /\ credited \subseteq Rents
  /\ IsFiniteSet(credited)
  /\ balance \in 0..Cardinality(credited)

RestOK ==
  /\ day \in 0..LastDay
  /\ fired \subseteq Crons
  /\ OrdersOK
  /\ transferred \subseteq Orders
  /\ told \in [Orders \X Kinds -> Nat]
  /\ queue \in Seq(0..(Attempts - 1))
  /\ BalanceOK
  /\ admin \in BOOLEAN
  /\ reports \in 0..MaxReports
  /\ failures \in 0..MaxFailures
  /\ paid \subseteq Orders /\ crossed \subseteq Orders
  /\ cancelled \subseteq Orders
  /\ owed \subseteq Orders /\ silent \subseteq Orders
  /\ missed \subseteq Orders \X Reminders
  /\ overtaken \in BOOLEAN

LEMMA Types == TypeOK /\ IsFiniteSet(credited) <=> TasksOK /\ RestOK
  BY DEF TypeOK, TasksOK, RestOK, OrdersOK, BalanceOK, Tasks

LEMMA TaskOrders ==
  ASSUME TasksOK, NEW h \in Handlers
  PROVE  task[h].order \subseteq Orders /\ task[h].sum \in Nat
  BY DEF TasksOK, Tasks

LEMMA Counted ==
  ASSUME NEW S, NEW f \in [S -> Nat], NEW x
  PROVE  [f EXCEPT ![x] = @ + 1] \in [S -> Nat]
<1>. DEFINE g == [f EXCEPT ![x] = @ + 1]
<1>1. \A y \in S : g[y] \in Nat
  <2>. TAKE y \in S
  <2>1. CASE y = x
    BY <2>1
  <2>2. CASE y # x
    BY <2>2
  <2>. QED  BY <2>1, <2>2
<1>. QED  BY <1>1

LEMMA Removed ==
  ASSUME NEW S, NEW s \in Seq(S), NEW n \in DOMAIN s
  PROVE  RemoveAt(s, n) \in Seq(S)
  BY DEF RemoveAt

\* Orders are made, each with a day on which it is due.
Creates ==
  \E S \in SUBSET Orders : \E f :
    Create(S, f) /\ \A o \in S : f[o] \in Nat

LEMMA CreateStep ==
  ASSUME RestOK,
         \/ \E o \in Orders : CreateDeposit(o)
         \/ \E S \in SUBSET Orders : CreateRents(S)
  PROVE  Creates
<1>1. ASSUME NEW o \in Orders, CreateDeposit(o) PROVE Creates
  <2>. DEFINE f == [d \in Deposits |-> day + 3]
  <2>1. Create({o}, f) /\ o \in Deposits
    BY <1>1 DEF CreateDeposit
  <2>2. day + 3 \in Nat
    BY NoticesAssumption DEF RestOK
  <2>3. \A q \in {o} : f[q] \in Nat
    BY <2>1, <2>2
  <2>. HIDE DEF f
  <2>. QED  BY <2>1, <2>3 DEF Creates
<1>2. ASSUME NEW S \in SUBSET Orders, CreateRents(S) PROVE Creates
  BY <1>2, NoticesAssumption DEF CreateRents, Creates
<1>. QED  BY <1>1, <1>2

\* A transfer's event, either way.
LEMMA TransferStep ==
  ASSUME NEW o \in Orders, TransferDone(o) \/ TransferFailed(o)
  PROVE  /\ StartTransfer(o)
         /\ \E s \in {"PAGO", "RECEBIDO"} : status' = [status EXCEPT ![o] = s]
         /\ balance' \in {balance, balance + 1}
         /\ balance' = balance \/ balance' \in 0..Cardinality(credited)
         /\ \/ UNCHANGED task
            \/ Continue("webhook",
                 [IdleTask EXCEPT !.op = "row", !.order = {o},
                                  !.kinds = <<"transfer_failed">>])
  BY DEF TransferDone, TransferFailed, Admins

LEMMA RestStep ==
  ASSUME TasksOK, RestOK, [Next]_vars
  PROVE  RestOK'
<1>. USE NoticesAssumption, TaskOrders
         DEF handling, orders, notes, money, bounds, history
<1>o. ASSUME OrdersOK', BalanceOK', transferred' \subseteq Orders,
             told' \in [Orders \X Kinds -> Nat],
             queue' \in Seq(0..(Attempts - 1)),
             day' \in 0..LastDay, fired' \subseteq Crons,
             admin' \in BOOLEAN, overtaken' \in BOOLEAN,
             reports' \in 0..MaxReports, failures' \in 0..MaxFailures,
             paid' \subseteq Orders, crossed' \subseteq Orders,
             cancelled' \subseteq Orders, owed' \subseteq Orders,
             silent' \subseteq Orders, missed' \subseteq Orders \X Reminders
      PROVE  RestOK'
  BY <1>o DEF RestOK
<1>u. /\ UNCHANGED <<status, due, renewed>> => OrdersOK'
      /\ UNCHANGED <<credited, balance>> => BalanceOK'
  BY DEF RestOK, OrdersOK, BalanceOK
<1>w. ASSUME NEW o, NEW s \in Statuses, status' = [status EXCEPT ![o] = s],
             UNCHANGED <<due, renewed>>
      PROVE  OrdersOK'
  BY <1>w DEF RestOK, OrdersOK
<1>s. {"PENDENTE", "CANCELADO", "ATRASADO", "PAGO", "RECEBIDO", "EM_REPASSE"}
        \subseteq Statuses
  BY DEF Statuses
<1>b. balance \in Nat /\ Cardinality(credited) \in Nat
  BY FS_CardinalityType DEF RestOK, BalanceOK
<1>1. CASE StartSweep
  <2>1. SweepReads \subseteq Orders
    BY DEF SweepReads, InStatus
  <2>. QED  BY <1>1, <1>u, <2>1 DEF RestOK, StartSweep, Fire, Crons
<1>2. ASSUME NEW o \in Orders, StartWebhook(o) PROVE RestOK'
  BY <1>2, <1>u DEF RestOK, StartWebhook
<1>3. ASSUME NEW o \in Orders, StartPayment(o) PROVE RestOK'
  <2>1. /\ UNCHANGED <<day, fired, orders, notes, admin, renewed, failures,
                       history>>
        /\ reports' \in 0..MaxReports
    BY <1>3 DEF StartPayment, Report, RestOK
  <2>2. BalanceOK'
    <3>1. CASE UNCHANGED money
      BY <1>u, <3>1
    <3>2. CASE /\ o \in Rents \ credited
               /\ credited' = credited \cup {o}
               /\ balance' = balance + 1
      <4>1. /\ IsFiniteSet(credited')
            /\ Cardinality(credited') = Cardinality(credited) + 1
        BY <3>2, FS_AddElement DEF RestOK, BalanceOK
      <4>2. balance' \in 0..Cardinality(credited')
        BY <1>b, <3>2, <4>1 DEF RestOK, BalanceOK
      <4>. QED  BY <3>2, <4>1, <4>2 DEF RestOK, BalanceOK
    <3>. QED  BY <1>3, <3>1, <3>2 DEF StartPayment
  <2>. QED  BY <1>o, <1>u, <2>1, <2>2 DEF RestOK
<1>4. ASSUME NEW o \in Orders, StartCash(o) PROVE RestOK'
  BY <1>4, <1>u DEF RestOK, StartCash, Report
<1>5. ASSUME NEW h \in Handlers, Pick(h) PROVE RestOK'
  BY <1>5, <1>u DEF RestOK, Pick
<1>6. ASSUME NEW h \in Handlers, Mark(h) PROVE RestOK'
  <2>1. PICK o \in task[h].order : status' = [status EXCEPT ![o] = "ATRASADO"]
    BY <1>6 DEF Mark
  <2>2. UNCHANGED <<day, fired, due, transferred, notes, money, admin, bounds,
                    history>>
    BY <1>6 DEF Mark
  <2>3. OrdersOK'
    BY <1>w, <1>s, <2>1, <2>2
  <2>. QED  BY <1>o, <1>u, <2>2, <2>3 DEF RestOK
<1>7. ASSUME NEW h \in Handlers, PayWrite(h) PROVE RestOK'
  <2>1. PICK o \in task[h].order :
          /\ status' = [status EXCEPT ![o] = "PAGO"]
          /\ Settle(o)
          /\ owed' = owed \/ owed' = owed \cup {o}
          /\ silent' = silent \/ silent' = silent \ {o}
    BY <1>7 DEF PayWrite
  <2>2. UNCHANGED <<day, fired, due, transferred, notes, money, admin, bounds,
                    cancelled, missed, overtaken>>
    BY <1>7 DEF PayWrite
  <2>3. OrdersOK'
    BY <1>w, <1>s, <2>1, <2>2
  <2>4. o \in Orders
    OBVIOUS
  <2>5. /\ paid' \subseteq Orders /\ crossed' \subseteq Orders
        /\ owed' \subseteq Orders /\ silent' \subseteq Orders
    BY <2>1, <2>4 DEF RestOK, Settle
  <2>. QED  BY <1>o, <1>u, <2>2, <2>3, <2>5 DEF RestOK
<1>8. ASSUME NEW h \in Handlers, Row(h) PROVE RestOK'
  <2>1. told' \in [Orders \X Kinds -> Nat]
    <3>1. PICK o \in task[h].order :
            told' = [told EXCEPT ![<<o, Head(task[h].kinds)>>] = @ + 1]
      BY <1>8 DEF Row
    <3>. QED  BY <3>1, Counted DEF RestOK
  <2>. QED  BY <1>8, <1>u, <2>1 DEF RestOK, Row
<1>9. ASSUME NEW h \in Handlers, Mail(h) PROVE RestOK'
  BY <1>9, <1>u DEF RestOK, Mail
<1>10. ASSUME NEW h \in Handlers, Crash(h) PROVE RestOK'
  BY <1>10, <1>u DEF RestOK, Crash
<1>11. CASE PayoutDone
  <2>1. task["webhook"].order \subseteq Orders
    BY DEF Handlers
  <2>2. \A r \in owed : r \in Orders
    BY DEF RestOK
  <2>3. OrdersOK'
    BY <1>11, <1>s DEF PayoutDone, RestOK, OrdersOK
  <2>4. BalanceOK'
    BY <1>11, <1>b DEF PayoutDone, RestOK, BalanceOK
  <2>5. UNCHANGED <<day, fired, notes, admin, reports, failures, paid, crossed,
                    cancelled, missed, silent, overtaken>>
    BY <1>11 DEF PayoutDone
  <2>6. owed' \subseteq Orders
    BY <1>11, <2>2 DEF PayoutDone
  <2>7. transferred' \subseteq Orders
    BY <1>11, <2>1 DEF PayoutDone, RestOK
  <2>. QED  BY <1>o, <2>3, <2>4, <2>5, <2>6, <2>7 DEF RestOK
<1>12. CASE PayoutSkip
  BY <1>12, <1>u DEF RestOK, PayoutSkip
<1>13. CASE PayoutFails
  <2>1. /\ balance' \in {balance, balance - 1} \cap Nat
        /\ failures' \in 0..MaxFailures
    BY <1>13, <1>b DEF PayoutFails, Refused, RestOK
  <2>2. /\ UNCHANGED <<day, fired, orders, notes, credited, admin, reports,
                       renewed, paid, crossed, cancelled, missed, owed,
                       overtaken>>
        /\ silent' = silent \/ silent' = silent \cup task["webhook"].order
    BY <1>13 DEF PayoutFails
  <2>3. BalanceOK'
    BY <1>b, <2>1, <2>2 DEF RestOK, BalanceOK
  <2>4. silent' \subseteq Orders
    BY <2>2 DEF RestOK, Handlers
  <2>. QED  BY <1>o, <1>u, <2>1, <2>2, <2>3, <2>4 DEF RestOK
<1>14. CASE StartWithdraw
  BY <1>14, <1>u DEF RestOK, StartWithdraw
<1>15. CASE Withdraw
  <2>1. task["withdraw"].sum \in Nat
    BY DEF Handlers
  <2>2. balance' \in 0..balance
    BY <1>15, <1>b, <2>1 DEF Withdraw
  <2>3. BalanceOK'
    BY <1>15, <1>b, <2>2 DEF Withdraw, RestOK, BalanceOK
  <2>. QED  BY <1>15, <1>u, <2>3 DEF RestOK, Withdraw
<1>16. CASE Deactivate
  BY <1>16, <1>u DEF RestOK, Deactivate
<1>17. CASE Reactivate
  BY <1>17, <1>u DEF RestOK, Reactivate
<1>18. CASE StartRemind
  BY <1>18, <1>u DEF RestOK, StartRemind, Fire, Crons
<1>19. CASE RemindOn
  BY <1>19, <1>u DEF RestOK, RemindOn
<1>20. ASSUME NEW n \in DOMAIN queue, MailSent(n) PROVE RestOK'
  BY <1>20, <1>u, Removed DEF RestOK, MailSent
<1>21. ASSUME NEW n \in DOMAIN queue, MailFails(n) PROVE RestOK'
  <2>1. queue' \in Seq(0..(Attempts - 1))
    <3>1. RemoveAt(queue, n) \in Seq(0..(Attempts - 1))
      BY <1>21, Removed DEF RestOK
    <3>2. CASE queue[n] + 1 < Attempts
      <4>1. queue[n] + 1 \in 0..(Attempts - 1)
        BY <1>21, <3>2 DEF RestOK
      <4>. QED  BY <1>21, <3>1, <3>2, <4>1 DEF MailFails
    <3>3. CASE ~(queue[n] + 1 < Attempts)
      BY <1>21, <3>1, <3>3 DEF MailFails
    <3>. QED  BY <3>2, <3>3
  <2>2. failures' \in 0..MaxFailures
    <3>1. failures < MaxFailures /\ failures' = failures + 1
      BY <1>21 DEF MailFails
    <3>. QED  BY <3>1 DEF RestOK
  <2>3. UNCHANGED <<handling, orders, told, money, admin, reports, renewed,
                    history>>
    BY <1>21 DEF MailFails
  <2>. QED  BY <1>o, <1>u, <2>1, <2>2, <2>3 DEF RestOK
<1>22. ASSUME NEW c \in Crons, Miss(c) PROVE RestOK'
  <2>1. failures' \in 0..MaxFailures
    BY <1>22 DEF Miss, RestOK
  <2>. QED  BY <1>22, <1>u, <2>1 DEF RestOK, Miss, Fire
<1>23. CASE Tick
  BY <1>23, <1>u DEF RestOK, Tick
<1>24. CASE UNCHANGED vars
  BY <1>24, <1>u DEF RestOK, vars
<1>25. CASE Creates
  <2>1. PICK S \in SUBSET Orders :
          \E f : Create(S, f) /\ \A o \in S : f[o] \in Nat
    BY <1>25 DEF Creates
  <2>2. PICK f : Create(S, f) /\ \A o \in S : f[o] \in Nat
    BY <2>1
  <2>3. /\ UNCHANGED <<handling, transferred, notes, money, admin, bounds,
                       paid, crossed, cancelled, owed, silent, overtaken>>
        /\ missed' \subseteq missed \cup (S \X Reminders)
    BY <2>2 DEF Create
  <2>4. OrdersOK'
    <3>1. status' \in [Orders -> Statuses]
      BY <1>s, <2>2 DEF Create, RestOK, OrdersOK
    <3>2. due' \in [Orders -> Nat]
      BY <2>2 DEF Create, RestOK, OrdersOK
    <3>. QED  BY <2>3, <3>1, <3>2 DEF RestOK, OrdersOK
  <2>5. missed' \subseteq Orders \X Reminders
    BY <2>3 DEF RestOK
  <2>. QED  BY <1>o, <1>u, <2>3, <2>4, <2>5 DEF RestOK
<1>26. ASSUME NEW S \in SUBSET Orders, CancelContract(S) PROVE RestOK'
  <2>1. /\ UNCHANGED <<handling, due, transferred, notes, money, admin, bounds,
                       paid, crossed, missed, owed, silent, overtaken>>
        /\ cancelled' \subseteq cancelled \cup S
    BY <1>26 DEF CancelContract
  <2>2. OrdersOK'
    BY <1>26, <1>s, <2>1 DEF CancelContract, RestOK, OrdersOK
  <2>3. cancelled' \subseteq Orders
    BY <2>1 DEF RestOK
  <2>. QED  BY <1>o, <1>u, <2>1, <2>2, <2>3 DEF RestOK
<1>27. ASSUME NEW o \in Orders, NEW s \in {"CANCELADO", "PENDENTE"},
              Rewrite(o, s)
       PROVE  RestOK'
  <2>1. /\ UNCHANGED <<handling, due, transferred, notes, money, admin,
                       reports, failures, crossed, cancelled, missed, owed,
                       silent, overtaken>>
        /\ paid' \subseteq paid
    BY <1>27 DEF Rewrite
  <2>2. renewed' \in [Orders -> Nat]
    BY <1>27, Counted DEF Rewrite, RestOK, OrdersOK
  <2>3. OrdersOK'
    BY <1>27, <1>s, <2>1, <2>2 DEF Rewrite, RestOK, OrdersOK
  <2>. QED  BY <1>o, <1>u, <2>1, <2>3 DEF RestOK
<1>28. ASSUME NEW o \in Orders, StartRenew(o) PROVE RestOK'
  BY <1>28, <1>u DEF RestOK, StartRenew
<1>29. CASE RenewWrite
  <2>1. UNCHANGED <<day, fired, transferred, notes, money, admin, reports,
                    failures, history>>
    BY <1>29 DEF RenewWrite
  <2>2. PICK o \in task["renew"].order :
          /\ status' = [status EXCEPT ![o] = "PENDENTE"]
          /\ due' = [due EXCEPT ![o] = day + 3]
          /\ renewed' = [renewed EXCEPT ![o] = @ + 1]
    BY <1>29 DEF RenewWrite
  <2>3. renewed' \in [Orders -> Nat]
    BY <2>2, Counted DEF RestOK, OrdersOK
  <2>4. day + 3 \in Nat
    BY DEF RestOK
  <2>5. OrdersOK'
    BY <1>s, <2>2, <2>3, <2>4 DEF RestOK, OrdersOK
  <2>. QED  BY <1>o, <1>u, <2>1, <2>5 DEF RestOK
<1>30. ASSUME NEW o \in Orders, TransferDone(o) \/ TransferFailed(o)
       PROVE  RestOK'
  <2>1. /\ UNCHANGED <<day, fired, due, transferred, notes, credited, admin,
                       renewed, failures, cancelled, missed, owed, silent,
                       overtaken>>
        /\ reports < MaxReports /\ reports' = reports + 1
        /\ Settle(o)
    BY <1>30, TransferStep DEF StartTransfer
  <2>5. reports' \in 0..MaxReports
    BY <2>1 DEF RestOK
  <2>2. OrdersOK'
    BY <1>30, <1>w, <1>s, <2>1, TransferStep
  <2>3. BalanceOK'
    BY <1>30, <2>1, TransferStep DEF RestOK, BalanceOK
  <2>4. paid' \subseteq Orders /\ crossed' \subseteq Orders
    BY <2>1 DEF RestOK, Settle
  <2>. QED  BY <1>o, <1>u, <2>1, <2>2, <2>3, <2>4, <2>5 DEF RestOK
<1>. QED
  BY <1>1, <1>2, <1>3, <1>4, <1>5, <1>6, <1>7, <1>8, <1>9, <1>10, <1>11,
     <1>12, <1>13, <1>14, <1>15, <1>16, <1>17, <1>18, <1>19, <1>20, <1>21,
     <1>22, <1>23, <1>24, <1>25, <1>26, <1>27, <1>28, <1>29, <1>30,
     CreateStep DEF Next

-----------------------------------------------------------------------------
(* The types of the tasks.                                                 *)

LEMMA Continues ==
  ASSUME TasksOK, NEW h \in Handlers, NEW t \in Tasks, Continue(h, t)
  PROVE  TasksOK'
  BY DEF TasksOK, Continue

LEMMA Idles == IdleTask \in Tasks
  BY DEF IdleTask, Tasks, Ops

LEMMA Lists ==
  /\ <<>> \in Seq(Kinds)
  /\ \A a, b \in Kinds : <<a>> \in Seq(Kinds) /\ <<a, b>> \in Seq(Kinds)
  OBVIOUS

LEMMA Finishes ==
  ASSUME TasksOK, NEW h \in Handlers, Finish(h)
  PROVE  TasksOK'
  BY Continues, Idles DEF Finish

LEMMA TasksStep ==
  ASSUME TasksOK, RestOK, [Next]_vars
  PROVE  TasksOK'
<1>. USE DEF Handlers
<1>k. /\ {"upcoming", "overdue", "late_deposit", "late_tenant",
          "late_landlord", "new_chance", "paid_tenant", "paid_landlord",
          "payout_failed", "transfer_failed"} \subseteq Kinds
      /\ Reminders \subseteq Kinds
  BY DEF Kinds, Reminders
<1>1. CASE StartSweep
  <2>1. [IdleTask EXCEPT !.op = "pick", !.todo = SweepReads] \in Tasks
    BY Idles DEF Tasks, Ops, SweepReads, InStatus
  <2>. QED  BY <1>1, <2>1, Continues DEF StartSweep
<1>2. ASSUME NEW o \in Orders, StartWebhook(o) PROVE TasksOK'
  <2>1. [IdleTask EXCEPT !.op = "mark", !.order = {o}] \in Tasks
    BY Idles DEF Tasks, Ops
  <2>. QED  BY <1>2, <2>1, Continues DEF StartWebhook
<1>3. ASSUME NEW o \in Orders, StartPayment(o) \/ StartCash(o) PROVE TasksOK'
  <2>1. [IdleTask EXCEPT !.op = "pay", !.order = {o}] \in Tasks
    BY Idles DEF Tasks, Ops
  <2>. QED  BY <1>3, <2>1, Continues DEF StartPayment, StartCash, Report
<1>4. ASSUME NEW h \in Handlers, Pick(h) PROVE TasksOK'
  <2>1. CASE task[h].todo = {}
    BY <1>4, <2>1, Finishes DEF Pick
  <2>2. CASE task[h].todo # {}
    <3>1. PICK o \in task[h].todo :
            LET t == [task[h] EXCEPT !.todo = @ \ {o}, !.order = {o}]
            IN Continue(h,
                 IF h # "remind" THEN [t EXCEPT !.op = "mark"]
                 ELSE [t EXCEPT !.op = "row",
                                !.kinds = IF t.saying = {"upcoming"}
                                          THEN <<"upcoming">>
                                          ELSE <<"overdue">>])
      BY <1>4, <2>2 DEF Pick
    <3>. DEFINE t == [task[h] EXCEPT !.todo = @ \ {o}, !.order = {o}]
    <3>2. t \in Tasks
      BY ZenonT(60) DEF TasksOK, Tasks
    <3>3. [t EXCEPT !.op = "mark"] \in Tasks
      BY <3>2 DEF Tasks, Ops
    <3>4. \A k \in {<<"upcoming">>, <<"overdue">>} :
            [t EXCEPT !.op = "row", !.kinds = k] \in Tasks
      <4>1. \A k \in {<<"upcoming">>, <<"overdue">>} : k \in Seq(Kinds)
        BY <1>k, Lists
      <4>. QED  BY <3>2, <4>1 DEF Tasks, Ops
    <3>. HIDE DEF t
    <3>. QED  BY <3>1, <3>3, <3>4, Continues DEF t
  <2>. QED  BY <2>1, <2>2
<1>5. ASSUME NEW h \in Handlers, Mark(h) PROVE TasksOK'
  <2>1. \A o \in task[h].order :
          [task[h] EXCEPT !.op = "row", !.kinds = LateKinds(o)] \in Tasks
    <3>1. \A o \in task[h].order : LateKinds(o) \in Seq(Kinds)
      BY <1>k, Lists DEF LateKinds
    <3>. QED  BY <3>1 DEF TasksOK, Tasks, Ops
  <2>. QED  BY <1>5, <2>1, Continues DEF Mark
<1>6. ASSUME NEW h \in Handlers, PayWrite(h) PROVE TasksOK'
  <2>1. \A n \in {0, 1} :
          [task[h] EXCEPT !.op = "row", !.sum = n,
             !.kinds = <<"paid_tenant", "paid_landlord">>] \in Tasks
    <3>1. <<"paid_tenant", "paid_landlord">> \in Seq(Kinds)
      BY <1>k, Lists
    <3>2. task[h] \in Tasks /\ {0, 1} \subseteq Nat /\ "row" \in Ops
      BY DEF TasksOK, Ops
    <3>. QED  BY <3>1, <3>2 DEF Tasks
  <2>2. PICK n \in {0, 1} :
          Finish(h) \/ Continue(h, [task[h] EXCEPT !.op = "row", !.sum = n,
                         !.kinds = <<"paid_tenant", "paid_landlord">>])
    BY <1>6 DEF PayWrite
  <2>. QED  BY <2>1, <2>2, Continues, Finishes
<1>7. ASSUME NEW h \in Handlers, Row(h) PROVE TasksOK'
  <2>1. [task[h] EXCEPT !.op = "mail"] \in Tasks
    BY ZenonT(60) DEF TasksOK, Tasks, Ops
  <2>. QED  BY <1>7, <2>1, Continues DEF Row
<1>8. ASSUME NEW h \in Handlers, Mail(h) PROVE TasksOK'
  <2>1. CASE Len(task[h].kinds) > 1
    <3>1. task[h].kinds \in Seq(Kinds)
      BY DEF TasksOK, Tasks
    <3>2. Tail(task[h].kinds) \in Seq(Kinds)
      BY <2>1, <3>1
    <3>3. [task[h] EXCEPT !.op = "row", !.kinds = Tail(@)] \in Tasks
      BY <3>2, ZenonT(60) DEF TasksOK, Tasks, Ops
    <3>. QED  BY <1>8, <2>1, <3>3, Continues DEF Mail
  <2>2. CASE ~(Len(task[h].kinds) > 1)
    <3>1. AfterNotices(h) \in Tasks
      BY Lists, ZenonT(60) DEF AfterNotices, TasksOK, Tasks, Ops
    <3>. QED  BY <1>8, <2>2, <3>1, Continues DEF Mail
  <2>. QED  BY <2>1, <2>2
<1>9. ASSUME NEW h \in Handlers, Crash(h) PROVE TasksOK'
  BY <1>9, Finishes DEF Crash
<1>10. CASE PayoutDone \/ PayoutSkip
  BY <1>10, Finishes DEF PayoutDone, PayoutSkip
<1>11. CASE PayoutFails
  <2>1. [task["webhook"] EXCEPT !.op = "row",
                                !.kinds = Admins("payout_failed")] \in Tasks
    <3>1. Admins("payout_failed") \in Seq(Kinds)
      BY <1>k, Lists DEF Admins
    <3>. QED  BY <3>1 DEF TasksOK, Tasks, Ops
  <2>. QED  BY <1>11, <2>1, Continues, Finishes DEF PayoutFails
<1>12. CASE StartWithdraw
  <2>1. [IdleTask EXCEPT !.op = "withdraw", !.sum = balance] \in Tasks
    <3>1. balance \in Nat
      BY FS_CardinalityType DEF RestOK, BalanceOK
    <3>. QED  BY <3>1, Idles DEF Tasks, Ops
  <2>. QED  BY <1>12, <2>1, Continues DEF StartWithdraw
<1>13. CASE Withdraw
  BY <1>13, Finishes DEF Withdraw
<1>14. CASE StartRemind
  <2>1. [IdleTask EXCEPT !.op = "pick", !.saying = {"upcoming"},
           !.todo = {o \in InStatus("PENDENTE") : due[o] = day + 3}] \in Tasks
    BY <1>k, Idles DEF Tasks, Ops, InStatus
  <2>. QED  BY <1>14, <2>1, Continues DEF StartRemind
<1>15. CASE RemindOn
  <2>1. [IdleTask EXCEPT !.op = "pick", !.saying = {"overdue"},
                         !.todo = OverdueReads] \in Tasks
    BY <1>k, Idles DEF Tasks, Ops, OverdueReads, InStatus
  <2>. QED  BY <1>15, <2>1, Continues, Finishes DEF RemindOn
<1>16. ASSUME UNCHANGED task PROVE TasksOK'
  BY <1>16 DEF TasksOK
<1>17. CASE Deactivate \/ Reactivate \/ UNCHANGED vars
  BY <1>16, <1>17 DEF Deactivate, Reactivate, handling, vars
<1>18. ASSUME NEW n \in DOMAIN queue, MailSent(n) \/ MailFails(n)
       PROVE  TasksOK'
  BY <1>16, <1>18 DEF MailSent, MailFails, handling
<1>19. CASE Tick \/ \E c \in Crons : Miss(c)
  BY <1>16, <1>19 DEF Tick, Miss
<1>20. CASE Creates
  BY <1>16, <1>20 DEF Creates, Create, handling
<1>21. ASSUME NEW S \in SUBSET Orders, CancelContract(S) PROVE TasksOK'
  BY <1>16, <1>21 DEF CancelContract, handling
<1>22. ASSUME NEW o \in Orders, NEW s, Rewrite(o, s) PROVE TasksOK'
  BY <1>16, <1>22 DEF Rewrite, handling
<1>23. ASSUME NEW o \in Orders, StartRenew(o) PROVE TasksOK'
  <2>1. [IdleTask EXCEPT !.op = "renew", !.order = {o}] \in Tasks
    BY Idles DEF Tasks, Ops
  <2>. QED  BY <1>23, <2>1, Continues DEF StartRenew
<1>24. CASE RenewWrite
  <2>1. [task["renew"] EXCEPT !.op = "row", !.kinds = <<"new_chance">>]
          \in Tasks
    <3>1. <<"new_chance">> \in Seq(Kinds)
      BY <1>k, Lists
    <3>. QED  BY <3>1 DEF TasksOK, Tasks, Ops
  <2>. QED  BY <1>24, <2>1, Continues DEF RenewWrite
<1>25. ASSUME NEW o \in Orders, TransferDone(o) \/ TransferFailed(o)
       PROVE  TasksOK'
  <2>1. [IdleTask EXCEPT !.op = "row", !.order = {o},
                         !.kinds = <<"transfer_failed">>] \in Tasks
    <3>1. <<"transfer_failed">> \in Seq(Kinds)
      BY <1>k, Lists
    <3>. QED  BY <3>1, Idles DEF Tasks, Ops
  <2>. QED  BY <1>16, <1>25, <2>1, TransferStep, Continues
<1>. QED
  BY <1>1, <1>2, <1>3, <1>4, <1>5, <1>6, <1>7, <1>8, <1>9, <1>10, <1>11,
     <1>12, <1>13, <1>14, <1>15, <1>17, <1>18, <1>19, <1>20, <1>21, <1>22,
     <1>23, <1>24, <1>25, CreateStep DEF Next

-----------------------------------------------------------------------------
(* A payout is answered.                                                   *)

LEMMA OwedStep ==
  ASSUME TasksOK, RestOK, OwedInv, [Next]_vars
  PROVE  OwedInv'
<1>. USE DEF Handlers
<1>1. ASSUME Pending' = {} PROVE OwedInv'
  BY <1>1 DEF OwedInv
<1>2. ASSUME Pending' = Pending, task'["webhook"] = task["webhook"]
      PROVE  OwedInv'
  BY <1>2 DEF OwedInv
<1>3. ASSUME NEW h \in Handlers \ {"webhook"}, NEW t, Continue(h, t)
      PROVE  task'["webhook"] = task["webhook"]
  BY <1>3 DEF Continue, TasksOK
<1>4. ASSUME NEW h \in Handlers \ {"webhook"}, Finish(h)
      PROVE  task'["webhook"] = task["webhook"]
  BY <1>3, <1>4 DEF Finish
<1>5. \/ Pending = {}
      \/ task["webhook"].op \in {"row", "mail", "payout"}
  BY DEF OwedInv
<1>h. UNCHANGED <<owed, silent>> => Pending' = Pending
  BY DEF Pending
<1>6. CASE StartSweep \/ StartWithdraw \/ StartRemind
  BY <1>2, <1>3, <1>6, <1>h
     DEF StartSweep, StartWithdraw, StartRemind, history
<1>7. ASSUME NEW o \in Orders,
             StartWebhook(o) \/ StartPayment(o) \/ StartCash(o)
      PROVE  OwedInv'
  BY <1>1, <1>2, <1>3, <1>5, <1>7, <1>h
     DEF StartWebhook, StartPayment, StartCash, Report, At, history
<1>8. ASSUME NEW h \in Handlers, Pick(h) \/ Mark(h) PROVE OwedInv'
  <2>1. CASE h = "webhook"
    BY <1>1, <1>5, <1>8, <2>1, <1>h DEF Pick, Mark, At, history
  <2>2. CASE h # "webhook"
    BY <1>2, <1>3, <1>4, <1>8, <2>2, <1>h DEF Pick, Mark, history
  <2>. QED  BY <2>1, <2>2
<1>9. ASSUME NEW h \in Handlers, PayWrite(h) PROVE OwedInv'
  <2>1. PICK o \in task[h].order, n \in {0, 1} :
          /\ n = 1 => h = "webhook" /\ o \in Rents
          /\ owed' = IF n = 1 THEN owed \cup {o} ELSE owed
          /\ silent' = IF n = 1 THEN silent \ {o} ELSE silent
          /\ \/ o \in Deposits /\ Finish(h)
             \/ Continue(h, [task[h] EXCEPT !.op = "row", !.sum = n,
                               !.kinds = <<"paid_tenant", "paid_landlord">>])
    BY <1>9 DEF PayWrite
  <2>2. CASE h = "webhook"
    <3>1. Pending = {}
      BY <1>5, <1>9, <2>2 DEF PayWrite, At
    <3>2. CASE n = 1
      <4>1. Continue(h, [task[h] EXCEPT !.op = "row", !.sum = 1,
                           !.kinds = <<"paid_tenant", "paid_landlord">>])
        BY <2>1, <3>2 DEF Rents
      <4>2. Pending' = {o}
        BY <2>1, <3>1, <3>2 DEF Pending
      <4>. QED
        BY <2>1, <2>2, <4>1, <4>2 DEF OwedInv, Continue, TasksOK, Tasks
    <3>3. CASE n # 1
      BY <1>1, <2>1, <3>1, <3>3 DEF Pending
    <3>. QED  BY <3>2, <3>3
  <2>3. CASE h # "webhook"
    <3>1. UNCHANGED <<owed, silent>>
      BY <2>1, <2>3
    <3>2. task'["webhook"] = task["webhook"]
      BY <1>3, <1>4, <2>1, <2>3
    <3>. QED  BY <1>2, <1>h, <3>1, <3>2
  <2>. QED  BY <2>2, <2>3
<1>10. ASSUME NEW h \in Handlers, Row(h) PROVE OwedInv'
  <2>0. /\ owed' = (IF Head(task[h].kinds) = "payout_failed"
                    THEN owed \ task[h].order ELSE owed)
        /\ silent' = silent
    BY <1>10 DEF Row
  <2>1. CASE h = "webhook"
    <3>1. CASE Pending' = {}
      BY <1>1, <3>1
    <3>2. CASE Pending' # {}
      <4>1. /\ Pending # {}
            /\ Pending' \subseteq task[h].order
            /\ task[h].op = "row"
        BY <1>10, <2>0, <2>1, <3>2 DEF Row, OwedInv, At, Pending
      <4>2. task[h].kinds # <<"payout_failed">>
        <5>1. SUFFICES ASSUME task[h].kinds = <<"payout_failed">>
                       PROVE  Pending' = {}
          BY <3>2
        <5>2. Head(task[h].kinds) = "payout_failed"
          BY <5>1
        <5>. QED  BY <2>0, <2>1, <4>1, <5>2 DEF OwedInv, Pending
      <4>3. /\ task[h].kinds \in {<<"paid_tenant", "paid_landlord">>,
                                  <<"paid_landlord">>}
            /\ task[h].sum = 1
        BY <2>1, <4>1, <4>2 DEF OwedInv
      <4>. QED
        BY <1>10, <2>1, <4>1, <4>3 DEF Row, OwedInv, Continue, TasksOK, Tasks
    <3>. QED  BY <3>1, <3>2
  <2>2. CASE h # "webhook"
    <3>1. task'["webhook"] = task["webhook"] /\ Pending' \subseteq Pending
      BY <1>3, <1>10, <2>0, <2>2 DEF Row, Pending
    <3>. QED  BY <3>1 DEF OwedInv
  <2>. QED  BY <2>1, <2>2
<1>11. ASSUME NEW h \in Handlers, Mail(h) PROVE OwedInv'
  <2>0. Pending' = Pending
    BY <1>11, <1>h DEF Mail, history
  <2>1. CASE h = "webhook" /\ Pending # {}
    <3>1. /\ task[h].op = "mail"
          /\ Pending \subseteq task[h].order
          /\ task[h].kinds \in {<<"paid_tenant", "paid_landlord">>,
                                <<"paid_landlord">>}
          /\ task[h].sum = 1
      BY <1>11, <2>1 DEF Mail, At, OwedInv
    <3>2. CASE task[h].kinds = <<"paid_tenant", "paid_landlord">>
      <4>1. /\ Len(task[h].kinds) > 1
            /\ Tail(task[h].kinds) = <<"paid_landlord">>
        BY <3>2
      <4>2. Continue(h, [task[h] EXCEPT !.op = "row",
                                        !.kinds = <<"paid_landlord">>])
        BY <1>11, <4>1 DEF Mail
      <4>. QED
        BY <2>0, <2>1, <3>1, <4>2 DEF OwedInv, Continue, TasksOK, Tasks
    <3>3. CASE task[h].kinds = <<"paid_landlord">>
      <4>1. Continue(h, [task[h] EXCEPT !.op = "payout", !.kinds = <<>>])
        BY <1>11, <2>1, <3>3 DEF Mail, AfterNotices
      <4>. QED
        BY <2>0, <2>1, <3>1, <4>1 DEF OwedInv, Continue, TasksOK, Tasks
    <3>. QED  BY <3>1, <3>2, <3>3
  <2>2. CASE Pending = {}
    BY <1>1, <2>0, <2>2
  <2>3. CASE h # "webhook"
    BY <1>2, <1>3, <1>11, <2>0, <2>3 DEF Mail
  <2>. QED  BY <2>1, <2>2, <2>3
<1>12. ASSUME NEW h \in Handlers, Crash(h) PROVE OwedInv'
  <2>1. /\ owed' = owed
        /\ silent' = silent \cup
             (IF h = "webhook" THEN owed \cap task[h].order ELSE {})
        /\ Finish(h)
    BY <1>12 DEF Crash
  <2>2. CASE h = "webhook"
    BY <1>1, <2>1, <2>2 DEF OwedInv, Pending
  <2>3. CASE h # "webhook"
    BY <1>2, <1>4, <2>1, <2>3 DEF Pending
  <2>. QED  BY <2>2, <2>3
<1>13. CASE PayoutDone
  BY <1>1, <1>13 DEF PayoutDone, OwedInv, Pending
<1>14. CASE PayoutSkip
  <2>1. task["webhook"].op = "payout" /\ task["webhook"].sum = 0
    BY <1>14 DEF PayoutSkip, At
  <2>2. Pending = {}
    BY <2>1 DEF OwedInv
  <2>. QED  BY <1>1, <1>14, <1>h, <2>2 DEF PayoutSkip, history
<1>15. CASE PayoutFails
  <2>1. CASE Admins("payout_failed") = <<>>
    BY <1>1, <1>15, <2>1 DEF PayoutFails, OwedInv, Pending
  <2>2. CASE Admins("payout_failed") # <<>>
    <3>1. Admins("payout_failed") = <<"payout_failed">>
      BY <2>2 DEF Admins
    <3>2. /\ Pending' = Pending
          /\ Continue("webhook", [task["webhook"] EXCEPT
                                    !.op = "row",
                                    !.kinds = <<"payout_failed">>])
      BY <1>15, <2>2, <3>1, <1>h DEF PayoutFails
    <3>3. task["webhook"].op = "payout"
      BY <1>15 DEF PayoutFails, At
    <3>. QED  BY <3>2, <3>3 DEF OwedInv, Continue, TasksOK, Tasks
  <2>. QED  BY <2>1, <2>2
<1>16. CASE Withdraw \/ RemindOn
  BY <1>2, <1>3, <1>4, <1>16, <1>h DEF Withdraw, RemindOn, history
<1>17. CASE Deactivate \/ Reactivate \/ Tick \/ UNCHANGED vars
  BY <1>2, <1>17, <1>h DEF Deactivate, Reactivate, Tick, vars, handling,
                           history
<1>18. ASSUME NEW n \in DOMAIN queue, MailSent(n) \/ MailFails(n)
       PROVE  OwedInv'
  BY <1>2, <1>18, <1>h DEF MailSent, MailFails, handling, history
<1>19. ASSUME NEW c \in Crons, Miss(c) PROVE OwedInv'
  BY <1>2, <1>19, <1>h DEF Miss, history
<1>20. CASE Creates
  BY <1>2, <1>20, <1>h DEF Creates, Create, handling
<1>21. ASSUME NEW S \in SUBSET Orders, CancelContract(S) PROVE OwedInv'
  BY <1>2, <1>21, <1>h DEF CancelContract, handling
<1>22. ASSUME NEW o \in Orders, NEW s, Rewrite(o, s) PROVE OwedInv'
  BY <1>2, <1>22, <1>h DEF Rewrite, handling
<1>23. ASSUME NEW o \in Orders, StartRenew(o) PROVE OwedInv'
  BY <1>2, <1>3, <1>23, <1>h DEF StartRenew, history
<1>24. CASE RenewWrite
  BY <1>2, <1>3, <1>24, <1>h DEF RenewWrite, history
<1>25. ASSUME NEW o \in Orders, TransferDone(o) \/ TransferFailed(o)
       PROVE  OwedInv'
  <2>1. UNCHANGED <<owed, silent>> /\ task["webhook"].op = "idle"
    BY <1>25, TransferStep DEF StartTransfer, At
  <2>. QED  BY <1>1, <1>5, <1>h, <2>1
<1>. QED
  BY <1>6, <1>7, <1>8, <1>9, <1>10, <1>11, <1>12, <1>13, <1>14, <1>15,
     <1>16, <1>17, <1>18, <1>19, <1>20, <1>21, <1>22, <1>23, <1>24, <1>25,
     CreateStep DEF Next

-----------------------------------------------------------------------------
(* What was paid stays paid.                                               *)

LEMMA HoldsAfter ==
  ASSUME TasksOK, NEW h \in Handlers, NEW t \in Tasks, Continue(h, t)
  PROVE  /\ \A g \in Handlers \ {h} : Holds(g)' = Holds(g)
         /\ h = "remind" => Holds(h)' = {}
         /\ h # "remind" /\ t.op \in {"mark", "renew"} =>
              Holds(h)' = t.todo \cup t.order
         /\ h # "remind" /\ t.op \notin {"mark", "renew"} =>
              Holds(h)' = t.todo
         /\ task'[h] = t
         /\ \A g \in Handlers \ {h} : task'[g] = task[g]
<1>1. /\ task'[h] = t
      /\ \A g \in Handlers \ {h} : task'[g] = task[g]
  BY DEF TasksOK, Continue
<1>. QED  BY <1>1 DEF Holds

LEMMA HoldsNone ==
  ASSUME TasksOK, NEW h \in Handlers, Finish(h)
  PROVE  /\ \A g \in Handlers : Holds(g)' \subseteq Holds(g)
         /\ task'["remind"].op \in {task["remind"].op, "idle"}
<1>1. IdleTask.todo = {} /\ IdleTask.op = "idle"
  BY DEF IdleTask
<1>. QED  BY <1>1, HoldsAfter, Idles DEF Finish, Handlers

\* A step that pays no order, makes no handler hold more of those paid, and
\* takes none of them back, keeps them paid.
LEMMA Quiet ==
  ASSUME HeldInv, PaidStaysPaid,
         task'["remind"].op # "mark",
         paid' \subseteq paid, crossed \subseteq crossed',
         \A o \in paid' \ crossed' :
           /\ status'[o] \in {status[o]} \cup PaidStatus
           /\ \A h \in Handlers : o \notin Holds(h)' \ Holds(h)
  PROVE  HeldInv' /\ PaidStaysPaid'
  BY DEF HeldInv, PaidStaysPaid

\* An order that is paid now stays so, if nobody is about to write it.
LEMMA SettleKeeps ==
  ASSUME RestOK, HeldInv, PaidStaysPaid, NEW o \in Orders, Settle(o),
         task'["remind"].op # "mark",
         \A h \in Handlers : Holds(h)' \subseteq Holds(h),
         \E s \in PaidStatus : status' = [status EXCEPT ![o] = s]
  PROVE  HeldInv' /\ PaidStaysPaid'
<1>1. PICK s \in PaidStatus : status' = [status EXCEPT ![o] = s]
  OBVIOUS
<1>2. /\ paid' = paid \cup {o}
      /\ crossed' = IF \E g \in Handlers : o \in Holds(g)
                    THEN crossed \cup {o} ELSE crossed
  BY DEF Settle
<1>3. ASSUME NEW q \in paid' \ crossed'
      PROVE  /\ status'[q] \in PaidStatus
             /\ \A g \in Handlers : q \notin Holds(g)
  <2>1. CASE q = o
    BY <1>1, <1>2, <1>3, <2>1 DEF RestOK, OrdersOK
  <2>2. CASE q # o
    BY <1>1, <1>2, <1>3, <2>2 DEF RestOK, OrdersOK, HeldInv, PaidStaysPaid
  <2>. QED  BY <2>1, <2>2
<1>. QED  BY <1>3 DEF HeldInv, PaidStaysPaid

LEMMA HeldStep ==
  ASSUME TasksOK, RestOK, HeldInv, PaidStaysPaid, [Next]_vars
  PROVE  HeldInv' /\ PaidStaysPaid'
<1>. USE DEF Handlers
<1>1. ASSUME paid' = paid, crossed' = crossed, status' = status,
             task'["remind"].op # "mark",
             \A h \in Handlers : Holds(h)' \subseteq Holds(h)
      PROVE  HeldInv' /\ PaidStaysPaid'
  BY <1>1, Quiet
<1>2. ASSUME paid' = paid, crossed' = crossed, status' = status,
             UNCHANGED task
      PROVE  HeldInv' /\ PaidStaysPaid'
  BY <1>1, <1>2 DEF Holds, HeldInv
<1>3. task["remind"].op # "mark"
  BY DEF HeldInv
<1>4. CASE StartSweep
  <2>. DEFINE t == [IdleTask EXCEPT !.op = "pick", !.todo = SweepReads]
  <2>1. /\ t \in Tasks /\ t.op = "pick" /\ t.todo = SweepReads
    BY Idles DEF IdleTask, Tasks, Ops, SweepReads, InStatus
  <2>2. /\ \A g \in Handlers \ {"sweep"} : Holds(g)' = Holds(g)
        /\ Holds("sweep")' = SweepReads
        /\ task'["remind"] = task["remind"]
    <3>1. Continue("sweep", t)
      BY <1>4 DEF StartSweep
    <3>. HIDE DEF t
    <3>. QED  BY <2>1, <3>1, HoldsAfter
  <2>3. \A o \in paid \ crossed : o \notin SweepReads
    BY DEF PaidStaysPaid, PaidStatus, SweepReads, InStatus
  <2>. QED  BY <1>3, <1>4, <2>2, <2>3, Quiet DEF StartSweep, orders
<1>5. ASSUME NEW o \in Orders, StartWebhook(o)
      PROVE  HeldInv' /\ PaidStaysPaid'
  <2>. DEFINE t == [IdleTask EXCEPT !.op = "mark", !.order = {o}]
  <2>1. t \in Tasks /\ t.op = "mark" /\ t.todo = {} /\ t.order = {o}
    BY Idles DEF IdleTask, Tasks, Ops
  <2>2. /\ \A g \in Handlers \ {"webhook"} : Holds(g)' = Holds(g)
        /\ Holds("webhook")' = {} \cup {o}
        /\ task'["remind"] = task["remind"]
    <3>1. Continue("webhook", t)
      BY <1>5 DEF StartWebhook
    <3>. HIDE DEF t
    <3>. QED  BY <2>1, <3>1, HoldsAfter
  <2>3. /\ paid' = paid /\ status' = status
        /\ crossed \subseteq crossed'
        /\ o \in paid => o \in crossed'
    BY <1>5 DEF StartWebhook, orders
  <2>. QED  BY <1>3, <2>2, <2>3, Quiet
<1>6. ASSUME NEW o \in Orders, StartPayment(o) \/ StartCash(o)
      PROVE  HeldInv' /\ PaidStaysPaid'
  <2>. DEFINE t == [IdleTask EXCEPT !.op = "pay", !.order = {o}]
  <2>1. t \in Tasks /\ t.op = "pay" /\ t.todo = {}
    BY Idles DEF IdleTask, Tasks, Ops
  <2>2. PICK h \in {"webhook", "cash"} :
          Continue(h, t) /\ UNCHANGED <<status, history>>
    BY <1>6 DEF StartPayment, StartCash, Report, orders
  <2>3. /\ \A g \in Handlers : Holds(g)' \subseteq Holds(g)
        /\ task'["remind"] = task["remind"]
    <3>. HIDE DEF t
    <3>. QED  BY <2>1, <2>2, HoldsAfter
  <2>. QED  BY <1>1, <1>3, <2>2, <2>3 DEF history
<1>7. ASSUME NEW h \in Handlers, Pick(h) PROVE HeldInv' /\ PaidStaysPaid'
  <2>1. UNCHANGED <<paid, crossed, status>>
    BY <1>7 DEF Pick, orders, history
  <2>2. CASE Finish(h)
    BY <1>1, <1>3, <2>1, <2>2, HoldsNone
  <2>3. CASE ~Finish(h)
    <3>1. PICK o \in task[h].todo :
            LET t == [task[h] EXCEPT !.todo = @ \ {o}, !.order = {o}]
            IN Continue(h,
                 IF h # "remind" THEN [t EXCEPT !.op = "mark"]
                 ELSE [t EXCEPT !.op = "row",
                                !.kinds = IF t.saying = {"upcoming"}
                                          THEN <<"upcoming">>
                                          ELSE <<"overdue">>])
      BY <1>7, <2>3 DEF Pick
    <3>. DEFINE t == [task[h] EXCEPT !.todo = @ \ {o}, !.order = {o}]
    <3>2. CASE h # "remind"
      <4>. DEFINE u == [t EXCEPT !.op = "mark"]
      <4>1. /\ u \in Tasks /\ u.op = "mark"
            /\ u.todo = task[h].todo \ {o} /\ u.order = {o}
        BY ZenonT(60) DEF TasksOK, Tasks, Ops
      <4>2. /\ \A g \in Handlers \ {h} : Holds(g)' = Holds(g)
            /\ Holds(h)' = (task[h].todo \ {o}) \cup {o}
            /\ task'["remind"] = task["remind"]
        <5>1. Continue(h, u)
          BY <3>1, <3>2
        <5>. HIDE DEF u
        <5>. QED  BY <3>2, <4>1, <5>1, HoldsAfter
      <4>3. Holds(h)' \subseteq Holds(h)
        BY <3>2, <4>2 DEF Holds
      <4>. QED  BY <1>1, <1>3, <2>1, <4>2, <4>3
    <3>3. CASE h = "remind"
      <4>1. \A k \in {<<"upcoming">>, <<"overdue">>} :
              /\ [t EXCEPT !.op = "row", !.kinds = k] \in Tasks
              /\ [t EXCEPT !.op = "row", !.kinds = k].op = "row"
        <5>1. \A k \in {<<"upcoming">>, <<"overdue">>} : k \in Seq(Kinds)
          BY Lists DEF Kinds, Reminders
        <5>. QED  BY <5>1, ZenonT(60) DEF TasksOK, Tasks, Ops
      <4>2. PICK k \in {<<"upcoming">>, <<"overdue">>} :
              Continue(h, [t EXCEPT !.op = "row", !.kinds = k])
        BY <3>1, <3>3
      <4>3. /\ \A g \in Handlers \ {h} : Holds(g)' = Holds(g)
            /\ Holds(h)' = {}
            /\ task'["remind"].op = "row"
        BY <3>3, <4>1, <4>2, HoldsAfter, ZenonT(60)
      <4>. QED  BY <1>1, <2>1, <4>3
    <3>. QED  BY <3>2, <3>3
  <2>. QED  BY <2>2, <2>3
<1>8. ASSUME NEW h \in Handlers, Mark(h) PROVE HeldInv' /\ PaidStaysPaid'
  <2>1. PICK o \in task[h].order :
          /\ status' = [status EXCEPT ![o] = "ATRASADO"]
          /\ Continue(h, [task[h] EXCEPT !.op = "row", !.kinds = LateKinds(o)])
    BY <1>8 DEF Mark
  <2>. DEFINE t == [task[h] EXCEPT !.op = "row", !.kinds = LateKinds(o)]
  <2>2. t \in Tasks /\ t.op = "row" /\ t.todo = task[h].todo
    <3>1. LateKinds(o) \in Seq(Kinds)
      BY Lists DEF LateKinds, Kinds
    <3>. QED  BY <3>1 DEF TasksOK, Tasks, Ops
  <2>3. h # "remind" /\ o \in Holds(h)
    BY <1>3, <1>8, <2>1 DEF Mark, Holds, At
  <2>4. /\ \A g \in Handlers \ {h} : Holds(g)' = Holds(g)
        /\ Holds(h)' = task[h].todo
        /\ task'["remind"] = task["remind"]
    <3>1. Continue(h, t)
      BY <2>1
    <3>. HIDE DEF t
    <3>. QED  BY <2>2, <2>3, <3>1, HoldsAfter
  <2>5. \A g \in Handlers : Holds(g)' \subseteq Holds(g)
    BY <2>3, <2>4 DEF Holds
  <2>6. \A q \in paid \ crossed : status'[q] = status[q]
    <3>. TAKE q \in paid \ crossed
    <3>1. q # o
      BY <2>3 DEF HeldInv
    <3>. QED  BY <2>1, <3>1 DEF RestOK, OrdersOK
  <2>. QED  BY <1>3, <1>8, <2>4, <2>5, <2>6, Quiet DEF Mark, history
<1>9. ASSUME NEW h \in Handlers, PayWrite(h)
      PROVE  HeldInv' /\ PaidStaysPaid'
  <2>1. PICK o \in task[h].order, n \in {0, 1} :
          /\ status' = [status EXCEPT ![o] = "PAGO"]
          /\ Settle(o)
          /\ Finish(h) \/ Continue(h, [task[h] EXCEPT !.op = "row", !.sum = n,
                            !.kinds = <<"paid_tenant", "paid_landlord">>])
    BY <1>9 DEF PayWrite
  <2>. DEFINE t == [task[h] EXCEPT !.op = "row", !.sum = n,
                      !.kinds = <<"paid_tenant", "paid_landlord">>]
  <2>2. t \in Tasks /\ t.op = "row" /\ t.todo = task[h].todo
    <3>1. <<"paid_tenant", "paid_landlord">> \in Seq(Kinds)
      BY Lists DEF Kinds
    <3>2. task[h] \in Tasks /\ {0, 1} \subseteq Nat /\ "row" \in Ops
      BY DEF TasksOK, Ops
    <3>. QED  BY <3>1, <3>2 DEF Tasks
  <2>3. /\ \A g \in Handlers : Holds(g)' \subseteq Holds(g)
        /\ task'["remind"].op # "mark"
    <3>1. CASE Finish(h)
      BY <1>3, <3>1, HoldsNone
    <3>2. CASE Continue(h, t)
      <4>1. /\ \A g \in Handlers \ {h} : Holds(g)' = Holds(g)
            /\ Holds(h)' = IF h = "remind" THEN {} ELSE task[h].todo
            /\ task'["remind"].op \in {task["remind"].op, "row"}
        <5>. HIDE DEF t
        <5>. QED  BY <2>2, <3>2, HoldsAfter
      <4>. QED  BY <1>3, <4>1 DEF Holds
    <3>. QED  BY <2>1, <3>1, <3>2
  <2>4. o \in Orders
    BY TaskOrders
  <2>. QED  BY <2>1, <2>3, <2>4, SettleKeeps DEF PaidStatus
<1>10. ASSUME NEW h \in Handlers, Row(h) PROVE HeldInv' /\ PaidStaysPaid'
  <2>. DEFINE t == [task[h] EXCEPT !.op = "mail"]
  <2>1. t \in Tasks /\ t.op = "mail" /\ t.todo = task[h].todo
    BY DEF TasksOK, Tasks, Ops
  <2>2. /\ \A g \in Handlers \ {h} : Holds(g)' = Holds(g)
        /\ Holds(h)' = IF h = "remind" THEN {} ELSE task[h].todo
        /\ task'["remind"].op \in {task["remind"].op, "mail"}
    <3>1. Continue(h, t)
      BY <1>10 DEF Row
    <3>. HIDE DEF t
    <3>. QED  BY <2>1, <3>1, HoldsAfter
  <2>. QED  BY <1>1, <1>3, <1>10, <2>2 DEF Row, Holds, orders
<1>11. ASSUME NEW h \in Handlers, Mail(h) PROVE HeldInv' /\ PaidStaysPaid'
  <2>1. PICK t \in Tasks :
          /\ Continue(h, t) /\ t.op \notin {"mark", "renew"}
          /\ t.todo = task[h].todo
    <3>1. CASE Len(task[h].kinds) > 1
      <4>. DEFINE t == [task[h] EXCEPT !.op = "row", !.kinds = Tail(@)]
      <4>1. task[h].kinds \in Seq(Kinds)
        BY DEF TasksOK, Tasks
      <4>2. Tail(task[h].kinds) \in Seq(Kinds)
        BY <3>1, <4>1
      <4>3. t \in Tasks /\ t.op = "row" /\ t.todo = task[h].todo
        BY <4>2 DEF TasksOK, Tasks, Ops
      <4>. QED  BY <1>11, <3>1, <4>3 DEF Mail
    <3>2. CASE ~(Len(task[h].kinds) > 1)
      <4>1. /\ AfterNotices(h) \in Tasks
            /\ AfterNotices(h).op \in {"payout", "pick"}
            /\ AfterNotices(h).todo = task[h].todo
        BY Lists, ZenonT(60) DEF AfterNotices, TasksOK, Tasks, Ops
      <4>. QED  BY <1>11, <3>2, <4>1 DEF Mail
    <3>. QED  BY <3>1, <3>2
  <2>2. /\ \A g \in Handlers \ {h} : Holds(g)' = Holds(g)
        /\ Holds(h)' = IF h = "remind" THEN {} ELSE task[h].todo
        /\ task'["remind"].op # "mark"
    BY <1>3, <2>1, HoldsAfter
  <2>. QED  BY <1>1, <1>11, <2>2 DEF Mail, Holds, orders, history
<1>12. ASSUME NEW h \in Handlers, Crash(h) PROVE HeldInv' /\ PaidStaysPaid'
  BY <1>1, <1>3, <1>12, HoldsNone DEF Crash, orders
<1>13. CASE PayoutDone \/ PayoutSkip
  <2>1. /\ Finish("webhook")
        /\ paid' = paid /\ crossed' = crossed
        /\ \A o \in paid : status'[o] \in {status[o]} \cup PaidStatus
    BY <1>13
       DEF PayoutDone, PayoutSkip, RestOK, OrdersOK, PaidStatus, orders,
           history
  <2>. QED  BY <1>3, <2>1, HoldsNone, Quiet
<1>14. CASE PayoutFails
  <2>. DEFINE t == [task["webhook"] EXCEPT !.op = "row", 
                      !.kinds = Admins("payout_failed")]
  <2>1. t \in Tasks /\ t.op = "row" /\ t.todo = task["webhook"].todo
    <3>1. Admins("payout_failed") \in Seq(Kinds)
      BY Lists DEF Admins, Kinds
    <3>. QED  BY <3>1 DEF TasksOK, Tasks, Ops
  <2>2. CASE Finish("webhook")
    BY <1>1, <1>3, <1>14, <2>2, HoldsNone DEF PayoutFails, orders
  <2>3. CASE Continue("webhook", t)
    <3>1. /\ \A g \in Handlers \ {"webhook"} : Holds(g)' = Holds(g)
          /\ Holds("webhook")' = task["webhook"].todo
          /\ task'["remind"] = task["remind"]
      BY <2>1, <2>3, HoldsAfter
    <3>. QED  BY <1>1, <1>3, <1>14, <3>1 DEF PayoutFails, Holds, orders
  <2>. QED  BY <1>14, <2>2, <2>3 DEF PayoutFails
<1>15. CASE StartWithdraw
  <2>. DEFINE t == [IdleTask EXCEPT !.op = "withdraw", !.sum = balance]
  <2>1. t \in Tasks /\ t.op = "withdraw" /\ t.todo = {}
    <3>1. balance \in Nat
      BY FS_CardinalityType DEF RestOK, BalanceOK
    <3>. QED  BY <3>1, Idles DEF IdleTask, Tasks, Ops
  <2>2. /\ \A g \in Handlers : Holds(g)' \subseteq Holds(g)
        /\ task'["remind"] = task["remind"]
    <3>1. Continue("withdraw", t)
      BY <1>15 DEF StartWithdraw
    <3>. HIDE DEF t
    <3>. QED  BY <2>1, <3>1, HoldsAfter
  <2>. QED  BY <1>1, <1>3, <1>15, <2>2 DEF StartWithdraw, orders, history
<1>16. CASE Withdraw
  BY <1>1, <1>3, <1>16, HoldsNone DEF Withdraw, orders, history
<1>17. CASE StartRemind
  <2>. DEFINE t == [IdleTask EXCEPT !.op = "pick", !.saying = {"upcoming"},
                      !.todo = {o \in InStatus("PENDENTE") : due[o] = day + 3}]
  <2>1. t \in Tasks /\ t.op = "pick"
    BY Idles DEF IdleTask, Tasks, Ops, InStatus, Kinds, Reminders
  <2>2. /\ \A g \in Handlers : Holds(g)' \subseteq Holds(g)
        /\ task'["remind"].op = "pick"
    BY <1>17, <2>1, HoldsAfter DEF StartRemind
  <2>. QED  BY <1>17, <2>2, Quiet DEF StartRemind, orders
<1>18. CASE RemindOn
  <2>. DEFINE t == [IdleTask EXCEPT !.op = "pick", !.saying = {"overdue"},
                      !.todo = OverdueReads]
  <2>1. t \in Tasks /\ t.op = "pick"
    BY Idles DEF IdleTask, Tasks, Ops, OverdueReads, InStatus, Kinds, Reminders
  <2>2. /\ \A g \in Handlers : Holds(g)' \subseteq Holds(g)
        /\ task'["remind"].op # "mark"
    <3>1. CASE Finish("remind")
      BY <1>3, <3>1, HoldsNone
    <3>2. CASE Continue("remind", t)
      BY <2>1, <3>2, HoldsAfter
    <3>. QED  BY <1>18, <3>1, <3>2 DEF RemindOn
  <2>. QED  BY <1>1, <1>18, <2>2 DEF RemindOn, orders, history
<1>19. CASE Deactivate \/ Reactivate \/ Tick \/ UNCHANGED vars
  BY <1>2, <1>19
     DEF Deactivate, Reactivate, Tick, vars, handling, orders, history
<1>20. ASSUME NEW n \in DOMAIN queue, MailSent(n) \/ MailFails(n)
       PROVE  HeldInv' /\ PaidStaysPaid'
  BY <1>2, <1>20 DEF MailSent, MailFails, handling, orders, history
<1>21. ASSUME NEW c \in Crons, Miss(c) PROVE HeldInv' /\ PaidStaysPaid'
  BY <1>2, <1>21 DEF Miss, orders, history
<1>22. CASE Creates
  <2>1. UNCHANGED <<task, paid, crossed>>
    BY <1>22 DEF Creates, Create, handling
  <2>2. \A o \in Orders : status[o] # "absent" => status'[o] = status[o]
    <3>1. PICK S \in SUBSET Orders : \E f : Create(S, f)
      BY <1>22 DEF Creates
    <3>. QED  BY <3>1 DEF Create, InStatus
  <2>3. \A h \in Handlers : Holds(h)' = Holds(h)
    BY <2>1 DEF Holds
  <2>4. \A o \in paid \ crossed : status'[o] = status[o]
    BY <2>2 DEF PaidStaysPaid, PaidStatus, RestOK
  <2>. QED  BY <1>3, <2>1, <2>3, <2>4, Quiet
<1>23. ASSUME NEW S \in SUBSET Orders, CancelContract(S)
       PROVE  HeldInv' /\ PaidStaysPaid'
  <2>1. UNCHANGED <<task, paid, crossed>>
    BY <1>23 DEF CancelContract, handling
  <2>2. \A o \in Orders : status[o] # "PENDENTE" => status'[o] = status[o]
    BY <1>23 DEF CancelContract, InStatus
  <2>3. \A h \in Handlers : Holds(h)' = Holds(h)
    BY <2>1 DEF Holds
  <2>4. \A o \in paid \ crossed : status'[o] = status[o]
    BY <2>2 DEF PaidStaysPaid, PaidStatus, RestOK
  <2>. QED  BY <1>3, <2>1, <2>3, <2>4, Quiet
<1>24. ASSUME NEW o \in Orders, NEW s, Rewrite(o, s)
       PROVE  HeldInv' /\ PaidStaysPaid'
  <2>1. UNCHANGED <<task, crossed>> /\ paid' = paid \ {o}
    BY <1>24 DEF Rewrite, handling
  <2>2. \A q \in Orders \ {o} : status'[q] = status[q]
    BY <1>24 DEF Rewrite, RestOK, OrdersOK
  <2>3. \A h \in Handlers : Holds(h)' = Holds(h)
    BY <2>1 DEF Holds
  <2>4. paid \subseteq Orders
    BY DEF RestOK
  <2>. QED  BY <1>3, <2>1, <2>2, <2>3, <2>4, Quiet
<1>25. ASSUME NEW o \in Orders, StartRenew(o)
       PROVE  HeldInv' /\ PaidStaysPaid'
  <2>. DEFINE t == [IdleTask EXCEPT !.op = "renew", !.order = {o}]
  <2>1. t \in Tasks /\ t.op = "renew" /\ t.todo = {} /\ t.order = {o}
    BY Idles DEF IdleTask, Tasks, Ops
  <2>2. /\ \A g \in Handlers \ {"renew"} : Holds(g)' = Holds(g)
        /\ Holds("renew")' = {} \cup {o}
        /\ task'["remind"] = task["remind"]
    <3>1. Continue("renew", t)
      BY <1>25 DEF StartRenew
    <3>. HIDE DEF t
    <3>. QED  BY <2>1, <3>1, HoldsAfter
  <2>3. UNCHANGED <<status, paid, crossed>> /\ status[o] = "ATRASADO"
    BY <1>25 DEF StartRenew, orders, history
  <2>4. o \notin paid \ crossed
    BY <2>3 DEF PaidStaysPaid, PaidStatus
  <2>. QED  BY <1>3, <2>2, <2>3, <2>4, Quiet
<1>26. CASE RenewWrite
  <2>1. PICK o \in task["renew"].order :
          status' = [status EXCEPT ![o] = "PENDENTE"]
    BY <1>26 DEF RenewWrite
  <2>. DEFINE t == [task["renew"] EXCEPT !.op = "row",
                                         !.kinds = <<"new_chance">>]
  <2>2. t \in Tasks /\ t.op = "row" /\ t.todo = task["renew"].todo
    <3>1. <<"new_chance">> \in Seq(Kinds)
      BY Lists DEF Kinds
    <3>. QED  BY <3>1 DEF TasksOK, Tasks, Ops
  <2>3. /\ \A g \in Handlers \ {"renew"} : Holds(g)' = Holds(g)
        /\ Holds("renew")' = task["renew"].todo
        /\ task'["remind"] = task["remind"]
    <3>1. Continue("renew", t)
      BY <1>26 DEF RenewWrite
    <3>. HIDE DEF t
    <3>. QED  BY <2>2, <3>1, HoldsAfter
  <2>4. o \in Holds("renew") /\ task["renew"].todo \subseteq Holds("renew")
    BY <1>26, <2>1 DEF RenewWrite, Holds, At
  <2>5. UNCHANGED <<paid, crossed>>
    BY <1>26 DEF RenewWrite, history
  <2>6. \A q \in paid \ crossed : status'[q] = status[q]
    BY <2>1, <2>4 DEF HeldInv, RestOK, OrdersOK
  <2>. QED  BY <1>3, <2>3, <2>4, <2>5, <2>6, Quiet
<1>27. ASSUME NEW o \in Orders, TransferDone(o) \/ TransferFailed(o)
       PROVE  HeldInv' /\ PaidStaysPaid'
  <2>. DEFINE t == [IdleTask EXCEPT !.op = "row", !.order = {o},
                                    !.kinds = <<"transfer_failed">>]
  <2>1. t \in Tasks /\ t.op = "row" /\ t.todo = {}
    <3>1. <<"transfer_failed">> \in Seq(Kinds)
      BY Lists DEF Kinds
    <3>. QED  BY <3>1, Idles DEF IdleTask, Tasks, Ops
  <2>2. UNCHANGED task \/ Continue("webhook", t)
    BY <1>27, TransferStep
  <2>3. CASE UNCHANGED task
    BY <1>3, <1>27, <2>3, TransferStep, SettleKeeps
       DEF StartTransfer, Holds, PaidStatus
  <2>4. CASE Continue("webhook", t)
    <3>1. /\ \A g \in Handlers \ {"webhook"} : Holds(g)' = Holds(g)
          /\ Holds("webhook")' = {}
          /\ task'["remind"] = task["remind"]
      <4>. HIDE DEF t
      <4>. QED  BY <2>1, <2>4, HoldsAfter
    <3>2. \A h \in Handlers : Holds(h)' \subseteq Holds(h)
      BY <3>1
    <3>. QED
      BY <1>3, <1>27, <3>1, <3>2, TransferStep, SettleKeeps
         DEF StartTransfer, PaidStatus
  <2>. QED  BY <2>2, <2>3, <2>4
<1>. QED
  BY <1>4, <1>5, <1>6, <1>7, <1>8, <1>9, <1>10, <1>11, <1>12, <1>13, <1>14,
     <1>15, <1>16, <1>17, <1>18, <1>19, <1>20, <1>21, <1>22, <1>23, <1>24,
     <1>25, <1>26, <1>27, CreateStep DEF Next

-----------------------------------------------------------------------------
(* What a task is, and what its handler is yet to tell.                    *)

LateKind == {"late_deposit", "late_tenant", "late_landlord"}
PaidKind == {"paid_tenant", "paid_landlord"}

\* The handlers that mark orders as late, and tell so.
Markers == {"sweep", "webhook"}

\* The messages of all handlers but the reminders', as they become shorter.
LateMessages ==
  {<<"late_deposit">>, <<"late_tenant", "late_landlord">>,
   <<"late_landlord">>}

Messages ==
  LateMessages \cup
  {<<"paid_tenant", "paid_landlord">>, <<"paid_landlord">>,
   <<"payout_failed">>, <<"transfer_failed">>, <<"new_chance">>}

OpsOf ==
  [sweep    |-> {"idle", "pick", "mark", "row", "mail"},
   webhook  |-> {"idle", "pick", "mark", "pay", "row", "mail", "payout"},
   cash     |-> {"idle", "pick", "pay", "row", "mail"},
   renew    |-> {"idle", "pick", "renew", "row", "mail"},
   withdraw |-> {"idle", "withdraw"},
   remind   |-> {"idle", "pick", "row", "mail"}]

\* A handler that is past the choice of an order has one, which its loop has
\* left behind; what the webhook's says of a payment is of an order that was
\* paid, and no event of the account opens it until it is said.
Shaped(h, t, done) ==
  /\ t.op \in OpsOf[h]
  /\ t.op = "idle" => t = IdleTask
  /\ h \notin Crons => t.todo = {}
  /\ t.op \in {"mark", "pay", "renew", "row", "mail", "payout"} =>
       \E o \in Orders : t.order = {o} /\ o \notin t.todo
  /\ t.op \in {"row", "mail"} /\ h # "remind" =>
       /\ t.kinds \in Messages
       /\ h \notin Markers => t.kinds \notin LateMessages
  /\ /\ h = "webhook"
     /\ \/ t.op \in {"row", "mail"} /\ Head(t.kinds) \in PaidKind
        \/ t.op = "payout"
     => t.order \subseteq done
  /\ t.op \in {"pick", "row", "mail"} /\ h = "remind" =>
       \E k \in Reminders :
         /\ t.saying = {k}
         /\ t.op \in {"row", "mail"} => t.kinds = <<k>>

ShapeInv == \A h \in Handlers : Shaped(h, task[h], paid)

\* What a task is yet to tell; and who is yet to tell what of an order.
Yet(t) ==
  CASE t.op = "row"  -> ToSet(t.kinds)
    [] t.op = "mail" -> ToSet(Tail(t.kinds))
    [] OTHER         -> {}

Says(h, o, k) == o \in task[h].order /\ k \in Yet(task[h])

\* The lists of one and of two kinds.
LEMMA OneTwo ==
  /\ ToSet(<<>>) = {}
  /\ \A a, b :
       /\ ToSet(<<a>>) = {a}
       /\ ToSet(<<a, b>>) = {a, b}
       /\ Tail(<<a>>) = <<>> /\ Tail(<<a, b>>) = <<b>>
       /\ Head(<<a>>) = a /\ Head(<<a, b>>) = a
       /\ Len(<<a>>) = 1 /\ Len(<<a, b>>) = 2
<1>1. ToSet(<<>>) = {}
  BY DEF ToSet
<1>2. ASSUME NEW a, NEW b
      PROVE  /\ ToSet(<<a>>) = {a}
             /\ ToSet(<<a, b>>) = {a, b}
  <2>1. DOMAIN <<a>> = {1} /\ DOMAIN <<a, b>> = {1, 2}
    OBVIOUS
  <2>2. <<a>>[1] = a /\ <<a, b>>[1] = a /\ <<a, b>>[2] = b
    OBVIOUS
  <2>. QED  BY <2>1, <2>2 DEF ToSet
<1>3. ASSUME NEW a, NEW b
      PROVE  /\ Tail(<<a>>) = <<>> /\ Tail(<<a, b>>) = <<b>>
             /\ Head(<<a>>) = a /\ Head(<<a, b>>) = a
             /\ Len(<<a>>) = 1 /\ Len(<<a, b>>) = 2
  OBVIOUS
<1>. QED  BY <1>1, <1>2, <1>3

\* The head of a message is no more in its tail, which is a message itself if
\* it says anything; none is a reminder.
LEMMA MessageFacts ==
  ASSUME NEW k \in Messages
  PROVE  /\ Head(k) \in ToSet(k) \ ToSet(Tail(k))
         /\ ToSet(Tail(k)) \subseteq ToSet(k)
         /\ Len(k) > 1 => Tail(k) \in Messages
         /\ Head(k) \in PaidKind \/ ToSet(k) \cap PaidKind = {}
         /\ ToSet(k) \cap Reminders = {}
         /\ k \notin LateMessages => ToSet(k) \cap LateKind = {}
         /\ k \notin LateMessages /\ Len(k) > 1 => Tail(k) \notin LateMessages
         /\ k \in LateMessages => Head(k) \notin PaidKind
<1>1. /\ ToSet(<<>>) = {}
      /\ \A a, b :
           /\ ToSet(<<a>>) = {a}
           /\ ToSet(<<a, b>>) = {a, b}
           /\ Tail(<<a>>) = <<>> /\ Tail(<<a, b>>) = <<b>>
           /\ Head(<<a>>) = a /\ Head(<<a, b>>) = a
           /\ Len(<<a>>) = 1 /\ Len(<<a, b>>) = 2
  BY OneTwo
<1>. USE DEF Messages, LateMessages, LateKind, PaidKind, Reminders
<1>2. CASE k = <<"late_deposit">>
  BY <1>1, <1>2
<1>3. CASE k = <<"late_tenant", "late_landlord">>
  BY <1>1, <1>3
<1>4. CASE k = <<"late_landlord">>
  BY <1>1, <1>4
<1>5. CASE k = <<"paid_tenant", "paid_landlord">>
  BY <1>1, <1>5
<1>6. CASE k = <<"paid_landlord">>
  BY <1>1, <1>6
<1>7. ASSUME NEW a \in {"payout_failed", "transfer_failed", "new_chance"},
             k = <<a>>
      PROVE  /\ Head(k) = a /\ ToSet(k) = {a} /\ ToSet(Tail(k)) = {}
             /\ ~(Len(k) > 1) /\ k \notin LateMessages
  BY <1>1, <1>7
<1>. QED  BY <1>2, <1>3, <1>4, <1>5, <1>6, <1>7

\* The edits that steps make to a task.
LEMMA Edits ==
  ASSUME NEW t \in Tasks, NEW a, NEW k, NEW O
  PROVE  /\ LET u == [t EXCEPT !.op = a]
            IN  /\ u.op = a /\ u.todo = t.todo /\ u.saying = t.saying
                /\ u.order = t.order /\ u.kinds = t.kinds
         /\ LET u == [t EXCEPT !.op = a, !.kinds = k]
            IN  /\ u.op = a /\ u.todo = t.todo /\ u.saying = t.saying
                /\ u.order = t.order /\ u.kinds = k
         /\ LET u == [t EXCEPT !.op = a, !.kinds = k, !.order = O]
            IN  /\ u.op = a /\ u.todo = t.todo /\ u.saying = t.saying
                /\ u.order = O /\ u.kinds = k
         /\ LET u == [t EXCEPT !.op = a, !.sum = O, !.kinds = k]
            IN  /\ u.op = a /\ u.todo = t.todo /\ u.saying = t.saying
                /\ u.order = t.order /\ u.kinds = k
         /\ LET u == [t EXCEPT !.op = a, !.order = O, !.kinds = k]
            IN  /\ u.op = a /\ u.todo = t.todo /\ u.saying = t.saying
                /\ u.order = O /\ u.kinds = k
  BY DEF Tasks

\* The other handlers' tasks keep their shape when one goes on.
LEMMA ShapeAfter ==
  ASSUME TasksOK, ShapeInv, paid \subseteq paid',
         NEW h \in Handlers, NEW t, Continue(h, t), Shaped(h, t, paid')
  PROVE  ShapeInv'
<1>. SUFFICES ASSUME NEW g \in Handlers
              PROVE  Shaped(g, task'[g], paid')
  BY DEF ShapeInv
<1>1. task'[g] = IF g = h THEN t ELSE task[g]
  BY DEF TasksOK, Continue
<1>2. Shaped(g, task[g], paid) => Shaped(g, task[g], paid')
  BY DEF Shaped
<1>. QED  BY <1>1, <1>2 DEF ShapeInv

LEMMA IdleShape ==
  ASSUME NEW h \in Handlers, NEW S
  PROVE  Shaped(h, IdleTask, S)
<1>1. IdleTask.op = "idle" /\ IdleTask.todo = {}
  BY DEF IdleTask
<1>2. "idle" \in OpsOf[h]
  BY DEF OpsOf, Handlers
<1>. QED  BY <1>1, <1>2 DEF Shaped

LEMMA ShapeFinish ==
  ASSUME TasksOK, ShapeInv, paid \subseteq paid',
         NEW h \in Handlers, Finish(h)
  PROVE  ShapeInv'
  BY ShapeAfter, IdleShape DEF Finish

LEMMA ShapeStep ==
  ASSUME TasksOK, RestOK, ShapeInv, [Next]_vars
  PROVE  ShapeInv'
<1>s. \A h \in Handlers : Shaped(h, task[h], paid) /\ task[h] \in Tasks
  BY DEF ShapeInv, TasksOK
<1>l. \A a, b : Head(<<a>>) = a /\ Head(<<a, b>>) = a /\ Len(<<a>>) = 1
  BY OneTwo
<1>i. IdleTask \in Tasks /\ IdleTask.todo = {}
  BY Idles DEF IdleTask
<1>. USE DEF Handlers
<1>1. CASE StartSweep
  <2>. DEFINE t == [IdleTask EXCEPT !.op = "pick", !.todo = SweepReads]
  <2>1. t.op = "pick"
    BY <1>i DEF Tasks
  <2>2. Continue("sweep", t) /\ paid' = paid
    BY <1>1 DEF StartSweep
  <2>. HIDE DEF t
  <2>3. Shaped("sweep", t, paid')
    BY <2>1 DEF Shaped, OpsOf, Crons
  <2>. QED  BY <2>2, <2>3, ShapeAfter
<1>2. ASSUME NEW o \in Orders, StartWebhook(o) PROVE ShapeInv'
  <2>. DEFINE t == [IdleTask EXCEPT !.op = "mark", !.order = {o}]
  <2>1. t.op = "mark" /\ t.order = {o} /\ t.todo = {}
    BY <1>i DEF Tasks
  <2>2. Continue("webhook", t) /\ paid' = paid
    BY <1>2 DEF StartWebhook
  <2>. HIDE DEF t
  <2>3. Shaped("webhook", t, paid')
    BY <2>1 DEF Shaped, OpsOf, Crons
  <2>. QED  BY <2>2, <2>3, ShapeAfter
<1>3. ASSUME NEW o \in Orders, StartPayment(o) \/ StartCash(o)
      PROVE  ShapeInv'
  <2>. DEFINE t == [IdleTask EXCEPT !.op = "pay", !.order = {o}]
  <2>1. t.op = "pay" /\ t.order = {o} /\ t.todo = {}
    BY <1>i DEF Tasks
  <2>2. PICK h \in {"webhook", "cash"} : Continue(h, t) /\ paid' = paid
    BY <1>3 DEF StartPayment, StartCash, Report, history
  <2>. HIDE DEF t
  <2>3. Shaped(h, t, paid')
    BY <2>1 DEF Shaped, OpsOf, Crons
  <2>. QED  BY <2>2, <2>3, ShapeAfter
<1>4. ASSUME NEW h \in Handlers, Pick(h) PROVE ShapeInv'
  <2>1. paid' = paid /\ task[h].op = "pick"
    BY <1>4 DEF Pick, At, history
  <2>2. CASE Finish(h)
    BY <2>1, <2>2, ShapeFinish
  <2>3. CASE ~Finish(h)
    <3>1. PICK o \in task[h].todo :
            LET t == [task[h] EXCEPT !.todo = @ \ {o}, !.order = {o}]
            IN Continue(h,
                 IF h # "remind" THEN [t EXCEPT !.op = "mark"]
                 ELSE [t EXCEPT !.op = "row",
                                !.kinds = IF t.saying = {"upcoming"}
                                          THEN <<"upcoming">>
                                          ELSE <<"overdue">>])
      BY <1>4, <2>3 DEF Pick
    <3>. DEFINE t == [task[h] EXCEPT !.todo = @ \ {o}, !.order = {o}]
    <3>2. /\ t \in Tasks /\ t.todo = task[h].todo \ {o} /\ t.order = {o}
          /\ t.saying = task[h].saying
      BY <1>s, ZenonT(60) DEF Tasks
    <3>3. o \in Orders /\ h \in Crons
      BY <1>s, <3>1 DEF Shaped, Tasks
    <3>4. CASE h # "remind"
      <4>. DEFINE u == [t EXCEPT !.op = "mark"]
      <4>1. Continue(h, u)
        BY <3>1, <3>4
      <4>. HIDE DEF t
      <4>2. u.op = "mark" /\ u.todo = t.todo /\ u.order = t.order
        BY <3>2, Edits
      <4>. HIDE DEF u
      <4>3. Shaped(h, u, paid')
        BY <3>2, <3>3, <3>4, <4>2 DEF Shaped, OpsOf, Crons
      <4>. QED  BY <2>1, <4>1, <4>3, ShapeAfter
    <3>5. CASE h = "remind"
      <4>1. PICK k \in Reminders : t.saying = {k}
        BY <1>s, <2>1, <3>2, <3>5 DEF Shaped
      <4>. DEFINE u == [t EXCEPT !.op = "row", !.kinds = <<k>>]
      <4>2. Continue(h, u)
        BY <3>1, <3>5, <4>1 DEF Reminders
      <4>. HIDE DEF t
      <4>3. /\ u.op = "row" /\ u.todo = t.todo /\ u.order = t.order
            /\ u.saying = t.saying /\ u.kinds = <<k>>
        BY <3>2, Edits
      <4>. HIDE DEF u
      <4>4. Head(u.kinds) \notin PaidKind
        BY <1>l, <4>3 DEF PaidKind, Reminders
      <4>5. Shaped(h, u, paid')
        BY <3>2, <3>3, <3>5, <4>1, <4>3, <4>4 DEF Shaped, OpsOf, Crons
      <4>. QED  BY <2>1, <4>2, <4>5, ShapeAfter
    <3>. QED  BY <3>4, <3>5
  <2>. QED  BY <2>2, <2>3
<1>5. ASSUME NEW h \in Handlers, Mark(h) PROVE ShapeInv'
  <2>1. PICK o \in task[h].order :
          Continue(h, [task[h] EXCEPT !.op = "row", !.kinds = LateKinds(o)])
    BY <1>5 DEF Mark
  <2>2. paid' = paid /\ task[h].op = "mark"
    BY <1>5 DEF Mark, At, history
  <2>. DEFINE t == [task[h] EXCEPT !.op = "row", !.kinds = LateKinds(o)]
  <2>3. /\ t.op = "row" /\ t.todo = task[h].todo
        /\ t.order = task[h].order /\ t.kinds = LateKinds(o)
    BY <1>s, Edits
  <2>. HIDE DEF t
  <2>4. t.kinds \in Messages /\ Head(t.kinds) \notin PaidKind
    BY <1>l, <2>3 DEF LateKinds, Messages, LateMessages, PaidKind
  <2>5. h \in Markers
    BY <1>s, <2>2 DEF Shaped, OpsOf, Markers
  <2>6. Shaped(h, t, paid')
    BY <1>s, <2>2, <2>3, <2>4, <2>5 DEF Shaped, OpsOf, Crons, Markers
  <2>. QED  BY <2>1, <2>2, <2>6, ShapeAfter DEF t
<1>6. ASSUME NEW h \in Handlers, PayWrite(h) PROVE ShapeInv'
  <2>1. PICK o \in task[h].order, n \in {0, 1} :
          /\ paid' = paid \cup {o}
          /\ Finish(h) \/ Continue(h, [task[h] EXCEPT !.op = "row", !.sum = n,
                            !.kinds = <<"paid_tenant", "paid_landlord">>])
    BY <1>6 DEF PayWrite, Settle
  <2>. DEFINE k == <<"paid_tenant", "paid_landlord">>
              t == [task[h] EXCEPT !.op = "row", !.sum = n, !.kinds = k]
  <2>2. CASE Finish(h)
    BY <2>1, <2>2, ShapeFinish
  <2>3. CASE Continue(h, t)
    <3>1. /\ t.op = "row" /\ t.todo = task[h].todo
          /\ t.order = task[h].order
          /\ t.kinds = k
      BY <1>s, Edits
    <3>. HIDE DEF t
    <3>2. t.kinds \in Messages \ LateMessages
      BY <3>1, OneTwo DEF Messages, LateMessages
    <3>3. h \in {"cash", "webhook"} /\ task[h].op = "pay"
      BY <1>s, <1>6 DEF Shaped, OpsOf, PayWrite, At
    <3>4. t.order = {o} /\ o \notin t.todo
      BY <1>s, <2>1, <3>1, <3>3 DEF Shaped
    <3>5. o \in Orders /\ t.order \subseteq paid'
      BY <2>1, <3>4, TaskOrders
    <3>6. Shaped(h, t, paid')
      BY <1>s, <3>1, <3>2, <3>3, <3>4, <3>5 DEF Shaped, OpsOf, Crons
    <3>. QED  BY <2>1, <2>3, <3>6, ShapeAfter
  <2>. QED  BY <2>1, <2>2, <2>3
<1>7. ASSUME NEW h \in Handlers, Row(h) PROVE ShapeInv'
  <2>. DEFINE t == [task[h] EXCEPT !.op = "mail"]
  <2>1. Continue(h, t) /\ paid' = paid /\ task[h].op = "row"
    BY <1>7 DEF Row, At
  <2>2. /\ t.op = "mail" /\ t.todo = task[h].todo
        /\ t.order = task[h].order /\ t.kinds = task[h].kinds
        /\ t.saying = task[h].saying
    BY <1>s, Edits
  <2>. HIDE DEF t
  <2>3. Shaped(h, t, paid')
    BY <1>s, <2>1, <2>2 DEF Shaped, OpsOf
  <2>. QED  BY <2>1, <2>3, ShapeAfter
<1>8. ASSUME NEW h \in Handlers, Mail(h) PROVE ShapeInv'
  <2>1. paid' = paid /\ task[h].op = "mail"
    BY <1>8 DEF Mail, At, history
  <2>2. CASE Len(task[h].kinds) > 1
    <3>. DEFINE k == Tail(task[h].kinds)
                t == [task[h] EXCEPT !.op = "row", !.kinds = k]
    <3>1. Continue(h, t)
      BY <1>8, <2>2 DEF Mail
    <3>. HIDE DEF k
    <3>2. /\ t.op = "row" /\ t.todo = task[h].todo
          /\ t.order = task[h].order /\ t.kinds = k
      BY <1>s, Edits
    <3>. HIDE DEF t
    <3>3. h # "remind" /\ task[h].kinds \in Messages
      <4>1. ASSUME h = "remind" PROVE FALSE
        <5>1. PICK r \in Reminders : task[h].kinds = <<r>>
          BY <1>s, <2>1, <4>1 DEF Shaped
        <5>2. Len(task[h].kinds) = 1
          BY <5>1
        <5>. QED  BY <2>2, <5>2
      <4>. QED  BY <1>s, <2>1, <4>1 DEF Shaped
    <3>4. /\ t.kinds \in Messages
          /\ h \notin Markers => t.kinds \notin LateMessages
          /\ Head(t.kinds) \in PaidKind => Head(task[h].kinds) \in PaidKind
      <4>1. k \in Messages /\ ToSet(k) \subseteq ToSet(task[h].kinds)
        BY <2>2, <3>3, MessageFacts DEF k
      <4>2. Head(k) \in ToSet(k)
        BY <4>1, MessageFacts
      <4>3. \/ Head(task[h].kinds) \in PaidKind
            \/ ToSet(task[h].kinds) \cap PaidKind = {}
        BY <3>3, MessageFacts
      <4>4. h \notin Markers => k \notin LateMessages
        <5>1. h \notin Markers => task[h].kinds \notin LateMessages
          BY <1>s, <2>1, <3>3 DEF Shaped
        <5>. QED  BY <2>2, <3>3, <5>1, MessageFacts DEF k
      <4>. QED  BY <3>2, <4>1, <4>2, <4>3, <4>4
    <3>5. Shaped(h, t, paid')
      BY <1>s, <2>1, <3>2, <3>3, <3>4 DEF Shaped, OpsOf
    <3>. QED  BY <2>1, <3>1, <3>5, ShapeAfter
  <2>3. CASE ~(Len(task[h].kinds) > 1)
    <3>1. Continue(h, AfterNotices(h))
      BY <1>8, <2>3 DEF Mail
    <3>2. CASE h = "webhook" /\ Head(task[h].kinds) = "paid_landlord"
      <4>1. /\ AfterNotices(h).op = "payout"
            /\ AfterNotices(h).order = task[h].order
            /\ AfterNotices(h).todo = task[h].todo
        BY <1>s, <3>2, Edits DEF AfterNotices
      <4>2. Shaped(h, AfterNotices(h), paid')
        BY <1>s, <2>1, <3>2, <4>1 DEF Shaped, OpsOf, PaidKind
      <4>. QED  BY <2>1, <3>1, <4>2, ShapeAfter
    <3>3. CASE ~(h = "webhook" /\ Head(task[h].kinds) = "paid_landlord")
      <4>1. /\ AfterNotices(h).op = "pick"
            /\ AfterNotices(h).todo = task[h].todo
            /\ AfterNotices(h).saying = task[h].saying
        BY <1>s, <3>3, Edits DEF AfterNotices
      <4>2. Shaped(h, AfterNotices(h), paid')
        BY <1>s, <2>1, <4>1 DEF Shaped, OpsOf
      <4>. QED  BY <2>1, <3>1, <4>2, ShapeAfter
    <3>. QED  BY <3>2, <3>3
  <2>. QED  BY <2>2, <2>3
<1>9. ASSUME NEW h \in Handlers, Crash(h) PROVE ShapeInv'
  BY <1>9, ShapeFinish DEF Crash
<1>10. CASE PayoutDone \/ PayoutSkip
  BY <1>10, ShapeFinish DEF PayoutDone, PayoutSkip, history
<1>11. CASE PayoutFails
  <2>1. paid' = paid /\ task["webhook"].op = "payout"
    BY <1>11 DEF PayoutFails, At
  <2>2. CASE Finish("webhook")
    BY <2>1, <2>2, ShapeFinish
  <2>3. CASE ~Finish("webhook")
    <3>. DEFINE t == [task["webhook"] EXCEPT !.op = "row",
                                             !.kinds = <<"payout_failed">>]
    <3>1. Continue("webhook", t)
      BY <1>11, <2>3 DEF PayoutFails, Admins
    <3>2. /\ t.op = "row" /\ t.todo = task["webhook"].todo
          /\ t.order = task["webhook"].order
          /\ t.kinds = <<"payout_failed">>
      BY <1>s, Edits
    <3>. HIDE DEF t
    <3>3. Shaped("webhook", t, paid')
      BY <1>s, <2>1, <3>2 DEF Shaped, OpsOf, Messages, Markers
    <3>. QED  BY <2>1, <3>1, <3>3, ShapeAfter
  <2>. QED  BY <2>2, <2>3
<1>12. CASE StartWithdraw
  <2>. DEFINE t == [IdleTask EXCEPT !.op = "withdraw", !.sum = balance]
  <2>1. t.op = "withdraw" /\ t.todo = {}
    BY <1>i DEF Tasks
  <2>2. Continue("withdraw", t) /\ paid' = paid
    BY <1>12 DEF StartWithdraw, history
  <2>. HIDE DEF t
  <2>3. Shaped("withdraw", t, paid')
    BY <2>1 DEF Shaped, OpsOf
  <2>. QED  BY <2>2, <2>3, ShapeAfter
<1>13. CASE Withdraw
  BY <1>13, ShapeFinish DEF Withdraw, history
<1>14. CASE StartRemind
  <2>. DEFINE t == [IdleTask EXCEPT !.op = "pick", !.saying = {"upcoming"},
                      !.todo = {o \in InStatus("PENDENTE") : due[o] = day + 3}]
  <2>1. t.op = "pick" /\ t.saying = {"upcoming"}
    BY <1>i DEF Tasks
  <2>2. Continue("remind", t) /\ paid' = paid
    BY <1>14 DEF StartRemind
  <2>. HIDE DEF t
  <2>3. Shaped("remind", t, paid')
    BY <2>1 DEF Shaped, OpsOf, Crons, Reminders
  <2>. QED  BY <2>2, <2>3, ShapeAfter
<1>15. CASE RemindOn
  <2>. DEFINE t == [IdleTask EXCEPT !.op = "pick", !.saying = {"overdue"},
                      !.todo = OverdueReads]
  <2>1. t.op = "pick" /\ t.saying = {"overdue"}
    BY <1>i DEF Tasks
  <2>2. (Finish("remind") \/ Continue("remind", t)) /\ paid' = paid
    BY <1>15 DEF RemindOn, history
  <2>. HIDE DEF t
  <2>3. Shaped("remind", t, paid')
    BY <2>1 DEF Shaped, OpsOf, Crons, Reminders
  <2>. QED  BY <2>2, <2>3, ShapeAfter, ShapeFinish
<1>16. ASSUME UNCHANGED <<task, paid>> PROVE ShapeInv'
  BY <1>16 DEF ShapeInv, Shaped
<1>17. CASE Deactivate \/ Reactivate \/ Tick \/ UNCHANGED vars
  BY <1>16, <1>17 DEF Deactivate, Reactivate, Tick, handling, history, vars
<1>18. ASSUME NEW n \in DOMAIN queue, MailSent(n) \/ MailFails(n)
       PROVE  ShapeInv'
  BY <1>16, <1>18 DEF MailSent, MailFails, handling, history
<1>19. ASSUME NEW c \in Crons, Miss(c) PROVE ShapeInv'
  BY <1>16, <1>19 DEF Miss, history
<1>20. CASE Creates
  BY <1>16, <1>20 DEF Creates, Create, handling
<1>21. ASSUME NEW S \in SUBSET Orders, CancelContract(S) PROVE ShapeInv'
  BY <1>16, <1>21 DEF CancelContract, handling
<1>22. ASSUME NEW o \in Orders, NEW s, Rewrite(o, s) PROVE ShapeInv'
  <2>1. task' = task /\ task["webhook"] = IdleTask
    BY <1>s, <1>22 DEF Rewrite, handling, At, Shaped
  <2>2. ASSUME NEW h \in Handlers PROVE Shaped(h, task[h], paid')
    <3>1. CASE h = "webhook"
      BY <2>1, <3>1, IdleShape
    <3>2. CASE h # "webhook"
      BY <1>s, <3>2 DEF Shaped
    <3>. QED  BY <3>1, <3>2
  <2>. QED  BY <2>1, <2>2 DEF ShapeInv
<1>23. ASSUME NEW o \in Orders, StartRenew(o) PROVE ShapeInv'
  <2>. DEFINE t == [IdleTask EXCEPT !.op = "renew", !.order = {o}]
  <2>1. t.op = "renew" /\ t.order = {o} /\ t.todo = {}
    BY <1>i DEF Tasks
  <2>2. Continue("renew", t) /\ paid' = paid
    BY <1>23 DEF StartRenew, history
  <2>. HIDE DEF t
  <2>3. Shaped("renew", t, paid')
    BY <2>1 DEF Shaped, OpsOf, Crons
  <2>. QED  BY <2>2, <2>3, ShapeAfter
<1>24. CASE RenewWrite
  <2>. DEFINE k == <<"new_chance">>
              t == [task["renew"] EXCEPT !.op = "row", !.kinds = k]
  <2>1. Continue("renew", t) /\ paid' = paid /\ task["renew"].op = "renew"
    BY <1>24 DEF RenewWrite, At, history
  <2>2. k \in Messages \ LateMessages
    BY OneTwo DEF Messages, LateMessages
  <2>. HIDE DEF k
  <2>3. /\ t.op = "row" /\ t.todo = task["renew"].todo
        /\ t.order = task["renew"].order /\ t.kinds = k
    BY <1>s, Edits
  <2>. HIDE DEF t
  <2>4. Shaped("renew", t, paid')
    BY <1>s, <2>1, <2>2, <2>3 DEF Shaped, OpsOf, Crons
  <2>. QED  BY <2>1, <2>4, ShapeAfter
<1>25. ASSUME NEW o \in Orders, TransferDone(o) \/ TransferFailed(o)
       PROVE  ShapeInv'
  <2>. DEFINE k == <<"transfer_failed">>
              t == [IdleTask EXCEPT !.op = "row", !.order = {o}, !.kinds = k]
  <2>1. /\ paid \subseteq paid'
        /\ UNCHANGED task \/ Continue("webhook", t)
    BY <1>25, TransferStep DEF StartTransfer, Settle
  <2>2. k \in Messages /\ Head(k) \notin PaidKind
    BY OneTwo DEF Messages, PaidKind
  <2>. HIDE DEF k
  <2>3. t.op = "row" /\ t.todo = {} /\ t.order = {o} /\ t.kinds = k
    BY <1>i, Edits
  <2>. HIDE DEF t
  <2>4. Shaped("webhook", t, paid')
    BY <2>2, <2>3 DEF Shaped, OpsOf, Crons, Markers
  <2>5. CASE UNCHANGED task
    <3>1. ASSUME NEW h \in Handlers PROVE Shaped(h, task[h], paid')
      BY <1>s, <2>1 DEF Shaped
    <3>. QED  BY <2>5, <3>1 DEF ShapeInv
  <2>. QED  BY <2>1, <2>4, <2>5, ShapeAfter
<1>. QED
  BY <1>1, <1>2, <1>3, <1>4, <1>5, <1>6, <1>7, <1>8, <1>9, <1>10, <1>11,
     <1>12, <1>13, <1>14, <1>15, <1>17, <1>18, <1>19, <1>20, <1>21, <1>22,
     <1>23, <1>24, <1>25, CreateStep DEF Next

-----------------------------------------------------------------------------
(* What the status of an order says of it.                                 *)

\* An order that is not paid is open, late, or cancelled; and cancelled only
\* by its contract, or by an event.
StatusInv ==
  \A o \in Orders :
    /\ o \notin paid =>
         status[o] \in {"absent", "PENDENTE", "ATRASADO", "CANCELADO"}
    /\ o \notin cancelled /\ renewed[o] = 0 => status[o] # "CANCELADO"

\* Nothing is done with an order that is not there, nor told of it.
AbsentInv ==
  \A o \in Orders : ~There(o) =>
    /\ \A h \in Handlers : o \notin task[h].todo \cup task[h].order
    /\ o \notin paid /\ o \notin cancelled /\ o \notin transferred
    /\ renewed[o] = 0
    /\ \A k \in Kinds : told[o, k] = 0

\* An order of which a lateness can be told yet, without being opened again.
Open == {"absent", "PENDENTE", "CANCELADO"}

Bit(b) == IF b THEN 1 ELSE 0

\* An order that was neither paid, nor cancelled, nor opened again.
Plain(o) ==
  /\ There(o)
  /\ renewed[o] = 0
  /\ o \notin paid /\ o \notin cancelled

\* What a step does with an order: one that gets open again is counted; and
\* one that is plain is late from then on, due on the same day, or is made.
OrderGoes(o) ==
  /\ \/ status'[o] \in Open => status[o] \in Open
     \/ renewed'[o] = renewed[o] + 1
  /\ renewed'[o] \in {renewed[o], renewed[o] + 1}
  /\ Plain(o)' /\ There(o) =>
       /\ Plain(o)
       /\ due'[o] = due[o]
       /\ status[o] = "ATRASADO" => status'[o] = "ATRASADO"
       /\ \A k : <<o, k>> \in missed' <=> <<o, k>> \in missed

OrdersGo == \A o \in Orders : OrderGoes(o)

\* No order is made by the step.
NoneMade == \A o \in Orders : There(o)' => There(o)

LEMMA StatusStep ==
  ASSUME TasksOK, RestOK, ShapeInv, StatusInv, AbsentInv, [Next]_vars
  PROVE  StatusInv' /\ OrdersGo /\ (NoneMade \/ Creates)
<1>. USE DEF Handlers, There
<1>o. \A o \in Orders : status[o] \in Statuses /\ renewed[o] \in Nat
  BY DEF RestOK, OrdersOK
<1>t. \A h \in Handlers : \A o \in task[h].order : o \in Orders /\ There(o)
  BY TaskOrders DEF AbsentInv
<1>1. ASSUME UNCHANGED <<status, due, renewed, paid, cancelled, missed>>
      PROVE  StatusInv' /\ OrdersGo /\ NoneMade
  BY <1>1 DEF StatusInv, NoneMade, OrdersGo, OrderGoes, Plain
<1>2. ASSUME NEW S \in SUBSET Orders, NEW s,
             UNCHANGED <<due, renewed, cancelled, missed>>,
             \A q \in Orders : status'[q] = IF q \in S THEN s ELSE status[q],
             \A q \in S : There(q),
             \/ s = "ATRASADO" /\ paid' = paid
             \/ s \in PaidStatus /\ paid \cup S \subseteq paid'
                /\ paid' \subseteq paid \cup S
      PROVE  StatusInv' /\ OrdersGo /\ NoneMade
  <2>1. s \notin Open /\ s # "CANCELADO"
    BY <1>2 DEF Open, PaidStatus
  <2>2. StatusInv'
    BY <1>2, <2>1 DEF StatusInv
  <2>3. NoneMade
    BY <1>2 DEF NoneMade
  <2>4. ASSUME NEW q \in Orders PROVE OrderGoes(q)
    <3>1. CASE q \in S
      BY <1>2, <2>1, <3>1 DEF OrderGoes, Plain
    <3>2. CASE q \notin S
      BY <1>2, <3>2 DEF OrderGoes, Plain
    <3>. QED  BY <3>1, <3>2
  <2>. QED  BY <2>2, <2>3, <2>4 DEF OrdersGo
<1>3. ASSUME NEW o, NEW s, status' = [status EXCEPT ![o] = s]
      PROVE  \A q \in Orders : status'[q] = IF q \in {o} THEN s ELSE status[q]
  BY <1>3 DEF RestOK, OrdersOK
<1>4. ASSUME NEW h \in Handlers, Mark(h)
      PROVE  StatusInv' /\ OrdersGo /\ NoneMade
  <2>1. PICK o \in task[h].order : status' = [status EXCEPT ![o] = "ATRASADO"]
    BY <1>4 DEF Mark
  <2>2. UNCHANGED <<due, renewed, paid, cancelled, missed>>
    BY <1>4 DEF Mark, bounds, history
  <2>3. o \in Orders /\ There(o)
    BY <1>t
  <2>4. {o} \in SUBSET Orders /\ (\A q \in {o} : There(q))
    BY <2>3
  <2>5. \A q \in Orders : status'[q] = IF q \in {o} THEN "ATRASADO"
                                       ELSE status[q]
    BY <1>3, <2>1
  <2>. QED  BY <1>2, <2>2, <2>4, <2>5
<1>5. ASSUME NEW h \in Handlers, PayWrite(h)
      PROVE  StatusInv' /\ OrdersGo /\ NoneMade
  <2>1. PICK o \in task[h].order :
          status' = [status EXCEPT ![o] = "PAGO"] /\ paid' = paid \cup {o}
    BY <1>5 DEF PayWrite, Settle
  <2>2. UNCHANGED <<due, renewed, cancelled, missed>>
    BY <1>5 DEF PayWrite, bounds
  <2>3. o \in Orders /\ There(o)
    BY <1>t
  <2>4. {o} \in SUBSET Orders /\ (\A q \in {o} : There(q))
    BY <2>3
  <2>5. \A q \in Orders : status'[q] = IF q \in {o} THEN "PAGO"
                                       ELSE status[q]
    BY <1>3, <2>1
  <2>6. "PAGO" \in PaidStatus
    BY DEF PaidStatus
  <2>. QED  BY <1>2, <2>1, <2>2, <2>4, <2>5, <2>6
<1>6. CASE PayoutDone
  <2>1. task["webhook"].order \subseteq paid
    BY <1>6 DEF PayoutDone, At, ShapeInv, Shaped
  <2>2. /\ UNCHANGED <<due, renewed, paid, cancelled, missed>>
        /\ \A q \in Orders :
             status'[q] = IF q \in task["webhook"].order THEN "EM_REPASSE"
                          ELSE status[q]
    BY <1>6 DEF PayoutDone, bounds
  <2>3. "EM_REPASSE" \in PaidStatus
    BY DEF PaidStatus
  <2>4. task["webhook"].order \in SUBSET Orders
    BY <1>t
  <2>. QED  BY <1>t, <1>2, <2>1, <2>2, <2>3, <2>4
<1>7. ASSUME NEW o \in Orders, TransferDone(o) \/ TransferFailed(o)
      PROVE  StatusInv' /\ OrdersGo /\ NoneMade
  <2>1. PICK s \in {"PAGO", "RECEBIDO"} : status' = [status EXCEPT ![o] = s]
    BY <1>7, TransferStep
  <2>2. /\ UNCHANGED <<due, renewed, cancelled, missed>>
        /\ paid' = paid \cup {o}
        /\ There(o)
    BY <1>7, TransferStep DEF StartTransfer, Settle, AbsentInv
  <2>4. {o} \in SUBSET Orders /\ (\A q \in {o} : There(q))
    BY <2>2
  <2>5. \A q \in Orders : status'[q] = IF q \in {o} THEN s ELSE status[q]
    BY <1>3, <2>1
  <2>6. s \in PaidStatus
    BY DEF PaidStatus
  <2>. QED  BY <1>2, <2>2, <2>4, <2>5, <2>6
<1>8. CASE Creates
  <2>1. PICK S \in SUBSET Orders : \E f : Create(S, f)
    BY <1>8 DEF Creates
  <2>2. PICK f : Create(S, f)
    BY <2>1
  <2>3. /\ \A q \in S : ~There(q)
        /\ \A q \in Orders : status'[q] = IF q \in S THEN "PENDENTE"
                                          ELSE status[q]
        /\ \A q \in Orders : due'[q] = IF q \in S THEN f[q] ELSE due[q]
        /\ missed' = missed \cup {r \in S \X Reminders : Passed(r[2], f[r[1]])}
        /\ UNCHANGED <<renewed, paid, cancelled>>
    BY <2>2 DEF Create, InStatus, bounds
  <2>4. StatusInv'
    BY <2>3 DEF StatusInv
  <2>5. ASSUME NEW q \in Orders PROVE OrderGoes(q)
    <3>1. CASE q \in S
      <4>1. status[q] \in Open /\ ~There(q) /\ renewed'[q] = renewed[q]
        BY <2>3, <3>1 DEF Open
      <4>. QED  BY <4>1 DEF OrderGoes
    <3>2. CASE q \notin S
      <4>1. /\ status'[q] = status[q]
            /\ due'[q] = due[q]
            /\ renewed'[q] = renewed[q]
            /\ q \in paid' <=> q \in paid
            /\ q \in cancelled' <=> q \in cancelled
        BY <2>3, <3>2
      <4>2. \A k : <<q, k>> \in missed' <=> <<q, k>> \in missed
        BY <2>3, <3>2
      <4>. QED  BY <4>1, <4>2, Zenon DEF OrderGoes, Plain, There
    <3>. QED  BY <3>1, <3>2
  <2>. QED  BY <1>8, <2>4, <2>5 DEF OrdersGo
<1>9. ASSUME NEW S \in SUBSET Orders, CancelContract(S)
      PROVE  StatusInv' /\ OrdersGo /\ NoneMade
  <2>. DEFINE open == S \cap InStatus("PENDENTE")
  <2>1. /\ \A q \in open : q \in Orders /\ status[q] = "PENDENTE"
        /\ \A q \in Orders : status'[q] = IF q \in open THEN "CANCELADO"
                                          ELSE status[q]
        /\ cancelled' = cancelled \cup open
        /\ UNCHANGED <<due, renewed, paid, missed>>
    BY <1>9 DEF CancelContract, InStatus, bounds
  <2>. HIDE DEF open
  <2>o. PICK O : O = open
    OBVIOUS
  <2>2. StatusInv'
    BY <2>1, <2>o DEF StatusInv
  <2>3. NoneMade
    BY <2>1, <2>o DEF NoneMade
  <2>4. ASSUME NEW q \in Orders PROVE OrderGoes(q)
    <3>1. CASE q \in O
      <4>1. status[q] \in Open /\ q \in cancelled' /\ renewed'[q] = renewed[q]
        BY <2>1, <2>o, <3>1 DEF Open
      <4>. QED  BY <4>1 DEF OrderGoes, Plain
    <3>2. CASE q \notin O
      <4>1. /\ status'[q] = status[q]
            /\ due'[q] = due[q]
            /\ renewed'[q] = renewed[q]
            /\ q \in paid' <=> q \in paid
            /\ q \in cancelled' <=> q \in cancelled
        BY <2>1, <2>o, <3>2
      <4>2. \A k : <<q, k>> \in missed' <=> <<q, k>> \in missed
        BY <2>1
      <4>. QED  BY <4>1, <4>2, Zenon DEF OrderGoes, Plain, There
    <3>. QED  BY <3>1, <3>2
  <2>. QED  BY <2>2, <2>3, <2>4 DEF OrdersGo
<1>10. ASSUME NEW o \in Orders, NEW s \in {"CANCELADO", "PENDENTE"},
              There(o),
              renewed' = [renewed EXCEPT ![o] = @ + 1],
              status' = [status EXCEPT ![o] = s],
              \A q \in Orders \ {o} : /\ due'[q] = due[q]
                                      /\ q \in paid <=> q \in paid',
              UNCHANGED <<cancelled, missed>>
       PROVE  StatusInv' /\ OrdersGo /\ NoneMade
  <2>1. /\ \A q \in Orders : status'[q] = IF q = o THEN s ELSE status[q]
        /\ \A q \in Orders : renewed'[q] = IF q = o THEN renewed[q] + 1
                                           ELSE renewed[q]
    BY <1>10 DEF RestOK, OrdersOK
  <2>2. renewed'[o] # 0
    BY <1>o, <2>1
  <2>3. StatusInv'
    BY <1>10, <2>1, <2>2 DEF StatusInv
  <2>4. NoneMade
    BY <1>10, <2>1 DEF NoneMade
  <2>5. ASSUME NEW q \in Orders PROVE OrderGoes(q)
    <3>1. CASE q = o
      BY <2>1, <2>2, <3>1 DEF OrderGoes, Plain
    <3>2. CASE q # o
      BY <1>10, <2>1, <3>2 DEF OrderGoes, Plain
    <3>. QED  BY <3>1, <3>2
  <2>. QED  BY <2>3, <2>4, <2>5 DEF OrdersGo
<1>11. ASSUME NEW o \in Orders, NEW s \in {"CANCELADO", "PENDENTE"},
              Rewrite(o, s)
       PROVE  StatusInv' /\ OrdersGo /\ NoneMade
  <2>1. /\ There(o)
        /\ renewed' = [renewed EXCEPT ![o] = @ + 1]
        /\ status' = [status EXCEPT ![o] = s]
        /\ UNCHANGED <<due, cancelled, missed>>
        /\ paid' = paid \ {o}
    BY <1>11 DEF Rewrite
  <2>. QED  BY <1>10, <2>1
<1>12. CASE RenewWrite
  <2>1. PICK o \in task["renew"].order :
          /\ status' = [status EXCEPT ![o] = "PENDENTE"]
          /\ due' = [due EXCEPT ![o] = day + 3]
          /\ renewed' = [renewed EXCEPT ![o] = @ + 1]
    BY <1>12 DEF RenewWrite
  <2>2. UNCHANGED <<paid, cancelled, missed>>
    BY <1>12 DEF RenewWrite, history
  <2>3. \A q \in Orders \ {o} : due'[q] = due[q]
    BY <2>1 DEF RestOK, OrdersOK
  <2>4. o \in Orders /\ There(o)
    BY <1>t, <2>1
  <2>. QED  BY <1>10, <2>1, <2>2, <2>3, <2>4
<1>13. CASE StartSweep \/ StartWithdraw \/ Withdraw \/ StartRemind \/ RemindOn
  BY <1>1, <1>13
     DEF StartSweep, StartWithdraw, Withdraw, StartRemind, RemindOn, orders,
         bounds, history
<1>14. ASSUME NEW o \in Orders,
              \/ StartWebhook(o) \/ StartPayment(o) \/ StartCash(o)
              \/ StartRenew(o)
       PROVE  StatusInv' /\ OrdersGo /\ NoneMade
  BY <1>1, <1>14, SMTT(30)
     DEF StartWebhook, StartPayment, StartCash, StartRenew, Report, orders,
         bounds, history
<1>15. ASSUME NEW h \in Handlers, Pick(h) \/ Row(h) \/ Mail(h) \/ Crash(h)
       PROVE  StatusInv' /\ OrdersGo /\ NoneMade
  BY <1>1, <1>15 DEF Pick, Row, Mail, Crash, orders, bounds, history
<1>16. CASE PayoutSkip \/ PayoutFails
  BY <1>1, <1>16 DEF PayoutSkip, PayoutFails, orders, bounds, history
<1>17. CASE Deactivate \/ Reactivate \/ Tick \/ UNCHANGED vars
  BY <1>1, <1>17
     DEF Deactivate, Reactivate, Tick, orders, bounds, history, vars
<1>18. ASSUME NEW n \in DOMAIN queue, MailSent(n) \/ MailFails(n)
       PROVE  StatusInv' /\ OrdersGo /\ NoneMade
  BY <1>1, <1>18 DEF MailSent, MailFails, orders, bounds, history
<1>19. ASSUME NEW c \in Crons, Miss(c)
       PROVE  StatusInv' /\ OrdersGo /\ NoneMade
  BY <1>1, <1>19 DEF Miss, orders, history
<1>. QED
  BY <1>4, <1>5, <1>6, <1>7, <1>8, <1>9, <1>11, <1>12, <1>13, <1>14, <1>15,
     <1>16, <1>17, <1>18, <1>19, CreateStep DEF Next


\* What a step does with an order that is not there after it: nothing.
Leaves ==
  \A o \in Orders : ~There(o)' =>
    /\ ~There(o)
    /\ renewed'[o] = renewed[o]
    /\ o \in paid' => o \in paid
    /\ o \in cancelled' => o \in cancelled
    /\ o \in transferred' => o \in transferred
    /\ \A k \in Kinds : told'[o, k] = told[o, k]

LEMMA AbsentStep ==
  ASSUME TasksOK, RestOK, AbsentInv, [Next]_vars
  PROVE  AbsentInv'
<1>. USE DEF Handlers, There
<1>s. \A h \in Handlers : task[h] \in Tasks
  BY DEF TasksOK
<1>t. \A h \in Handlers : \A o \in task[h].order :
        o \in Orders /\ status[o] # "absent"
  BY TaskOrders DEF AbsentInv
<1>i. IdleTask \in Tasks /\ IdleTask.todo = {} /\ IdleTask.order = {}
  BY Idles DEF IdleTask
<1>1. ASSUME Leaves,
             \A h \in Handlers : \A o \in Orders :
               o \in task'[h].todo \cup task'[h].order => There(o)
      PROVE  AbsentInv'
  <2>. SUFFICES ASSUME NEW o \in Orders, ~There(o)'
                PROVE  /\ \A h \in Handlers :
                            o \notin task'[h].todo \cup task'[h].order
                       /\ o \notin paid' /\ o \notin cancelled'
                       /\ o \notin transferred' /\ renewed'[o] = 0
                       /\ \A k \in Kinds : told'[o, k] = 0
    BY Zenon DEF AbsentInv
  <2>1. ~There(o)
    BY <1>1 DEF Leaves
  <2>2. \A k \in Kinds : told'[o, k] = 0
    <3>1. \A k \in Kinds : told[o, k] = 0
      BY <2>1, Zenon DEF AbsentInv
    <3>2. \A k \in Kinds : told'[o, k] = told[o, k]
      BY <1>1, Zenon DEF Leaves
    <3>. QED  BY <3>1, <3>2, Zenon
  <2>. QED  BY <1>1, <2>1, <2>2 DEF AbsentInv, Leaves
<1>2. ASSUME UNCHANGED task, Leaves PROVE AbsentInv'
  BY <1>1, <1>2 DEF AbsentInv
<1>3. ASSUME NEW h \in Handlers, NEW t, Continue(h, t), Leaves,
             \A o \in Orders : o \in t.todo \cup t.order =>
               There(o) \/ o \in task[h].todo \cup task[h].order
      PROVE  AbsentInv'
  <2>1. \A g \in Handlers : task'[g] = IF g = h THEN t ELSE task[g]
    BY <1>3 DEF TasksOK, Continue
  <2>. QED  BY <1>1, <1>3, <2>1 DEF AbsentInv
<1>4. ASSUME NEW h \in Handlers, Finish(h), Leaves PROVE AbsentInv'
  BY <1>3, <1>4, <1>i DEF Finish
<1>5. ASSUME UNCHANGED <<status, renewed, paid, cancelled, transferred, told>>
      PROVE  Leaves
  BY <1>5, Zenon DEF Leaves
<1>6. ASSUME UNCHANGED <<renewed, cancelled, told>>,
             NEW O \in SUBSET Orders, NEW s \in Statuses \ {"absent"},
             \A q \in Orders : status'[q] = IF q \in O THEN s ELSE status[q],
             paid' \subseteq paid \cup O,
             transferred' \subseteq transferred \cup O
      PROVE  Leaves
  <2>1. ASSUME NEW q \in Orders, ~There(q)'
        PROVE  ~There(q) /\ q \notin O
    BY <1>6, <2>1
  <2>2. \A q, k : told'[q, k] = told[q, k]
    BY <1>6, Zenon
  <2>. QED  BY <1>6, <2>1, <2>2 DEF Leaves
<1>7. ASSUME NEW o, NEW s, status' = [status EXCEPT ![o] = s]
      PROVE  \A q \in Orders : status'[q] = IF q \in {o} THEN s ELSE status[q]
  BY <1>7 DEF RestOK, OrdersOK
<1>8. CASE Creates
  <2>1. PICK S \in SUBSET Orders : \E f : Create(S, f)
    BY <1>8 DEF Creates
  <2>2. /\ UNCHANGED <<task, renewed, cancelled, told, paid, transferred>>
        /\ \A q \in Orders : status'[q] = IF q \in S THEN "PENDENTE"
                                          ELSE status[q]
    BY <2>1 DEF Create, handling, notes, bounds
  <2>3. Leaves
    BY <1>6, <2>2 DEF Statuses
  <2>. QED  BY <1>2, <2>2, <2>3
<1>9. ASSUME NEW S \in SUBSET Orders, CancelContract(S) PROVE AbsentInv'
  <2>. DEFINE open == S \cap InStatus("PENDENTE")
  <2>1. /\ \A q \in Orders : status'[q] = IF q \in open THEN "CANCELADO"
                                          ELSE status[q]
        /\ cancelled' = cancelled \cup open
        /\ UNCHANGED <<renewed, paid, told, transferred, task>>
    BY <1>9 DEF CancelContract, bounds, notes, handling
  <2>. HIDE DEF open
  <2>o. PICK O : O = open
    OBVIOUS
  <2>2. \A q, k : told'[q, k] = told[q, k]
    BY <2>1, Zenon
  <2>3. ASSUME NEW q \in Orders, ~There(q)' PROVE ~There(q) /\ q \notin O
    BY <2>1, <2>o, <2>3
  <2>4. Leaves
    BY <2>1, <2>o, <2>2, <2>3 DEF Leaves
  <2>. QED  BY <1>2, <2>1, <2>4
<1>10. ASSUME NEW o \in Orders, NEW s \in Statuses \ {"absent"},
              status' = [status EXCEPT ![o] = s],
              renewed' = [renewed EXCEPT ![o] = @ + 1],
              paid' \subseteq paid,
              UNCHANGED <<told, cancelled, transferred>>
       PROVE  Leaves
  <2>1. /\ \A q \in Orders : status'[q] = IF q = o THEN s ELSE status[q]
        /\ \A q \in Orders : q # o => renewed'[q] = renewed[q]
    BY <1>10 DEF RestOK, OrdersOK
  <2>2. \A q, k : told'[q, k] = told[q, k]
    BY <1>10, Zenon
  <2>. QED  BY <1>10, <2>1, <2>2 DEF Leaves
<1>11. ASSUME NEW o \in Orders, NEW s \in {"CANCELADO", "PENDENTE"},
              Rewrite(o, s)
       PROVE  AbsentInv'
  <2>1. /\ UNCHANGED <<task, told, cancelled, transferred>>
        /\ paid' \subseteq paid
        /\ status' = [status EXCEPT ![o] = s]
        /\ renewed' = [renewed EXCEPT ![o] = @ + 1]
    BY <1>11 DEF Rewrite, handling, notes
  <2>2. s \in Statuses \ {"absent"}
    BY DEF Statuses
  <2>. QED  BY <1>2, <1>10, <2>1, <2>2
<1>12. ASSUME NEW o \in Orders, StartRenew(o) PROVE AbsentInv'
  <2>. DEFINE t == [IdleTask EXCEPT !.op = "renew", !.order = {o}]
  <2>1. t.order = {o} /\ t.todo = {}
    BY <1>i DEF Tasks
  <2>2. /\ Continue("renew", t) /\ There(o)
        /\ UNCHANGED <<status, renewed, paid, cancelled, transferred, told>>
    BY <1>12 DEF StartRenew, orders, notes, bounds, history
  <2>. HIDE DEF t
  <2>. QED  BY <1>3, <1>5, <2>1, <2>2
<1>13. CASE RenewWrite
  <2>. DEFINE k == <<"new_chance">>
              t == [task["renew"] EXCEPT !.op = "row", !.kinds = k]
  <2>1. /\ Continue("renew", t)
        /\ UNCHANGED <<told, paid, cancelled, transferred>>
    BY <1>13 DEF RenewWrite, notes, history
  <2>2. PICK o \in task["renew"].order :
          /\ status' = [status EXCEPT ![o] = "PENDENTE"]
          /\ renewed' = [renewed EXCEPT ![o] = @ + 1]
    BY <1>13 DEF RenewWrite
  <2>3. o \in Orders
    BY <1>t, <2>2
  <2>4. Leaves
    BY <1>10, <2>1, <2>2, <2>3 DEF Statuses
  <2>. HIDE DEF k
  <2>5. t.todo = task["renew"].todo /\ t.order = task["renew"].order
    BY <1>s, Edits
  <2>. HIDE DEF t
  <2>. QED  BY <1>3, <2>1, <2>4, <2>5
<1>14. CASE StartSweep
  <2>. DEFINE t == [IdleTask EXCEPT !.op = "pick", !.todo = SweepReads]
  <2>1. t.order = {} /\ t.todo = SweepReads
    BY <1>i DEF Tasks
  <2>2. /\ Continue("sweep", t)
        /\ UNCHANGED <<status, renewed, paid, cancelled, transferred, told>>
    BY <1>14 DEF StartSweep, orders, notes, bounds
  <2>. HIDE DEF t
  <2>. QED  BY <1>3, <1>5, <2>1, <2>2 DEF SweepReads, InStatus
<1>15. ASSUME NEW o \in Orders, StartWebhook(o) PROVE AbsentInv'
  <2>. DEFINE t == [IdleTask EXCEPT !.op = "mark", !.order = {o}]
  <2>1. t.order = {o} /\ t.todo = {}
    BY <1>i DEF Tasks
  <2>2. /\ Continue("webhook", t) /\ There(o)
        /\ UNCHANGED <<status, renewed, paid, cancelled, transferred, told>>
    BY <1>15 DEF StartWebhook, orders, notes, bounds
  <2>. HIDE DEF t
  <2>. QED  BY <1>3, <1>5, <2>1, <2>2
<1>16. ASSUME NEW o \in Orders, StartPayment(o) \/ StartCash(o)
       PROVE  AbsentInv'
  <2>. DEFINE t == [IdleTask EXCEPT !.op = "pay", !.order = {o}]
  <2>1. t.order = {o} /\ t.todo = {}
    BY <1>i DEF Tasks
  <2>2. PICK h \in {"webhook", "cash"} : Continue(h, t)
    BY <1>16 DEF StartPayment, StartCash, Report
  <2>3. /\ There(o)
        /\ UNCHANGED <<status, renewed, paid, cancelled, transferred, told>>
    BY <1>16 DEF StartPayment, StartCash, Report, orders, notes, history
  <2>. HIDE DEF t
  <2>. QED  BY <1>3, <1>5, <2>1, <2>2, <2>3
<1>17. ASSUME NEW h \in Handlers, Pick(h) PROVE AbsentInv'
  <2>1. UNCHANGED <<status, renewed, paid, cancelled, transferred, told>>
    BY <1>17 DEF Pick, orders, notes, bounds, history
  <2>2. CASE Finish(h)
    BY <1>4, <1>5, <2>1, <2>2
  <2>3. CASE ~Finish(h)
    <3>1. PICK o \in task[h].todo :
            LET t == [task[h] EXCEPT !.todo = @ \ {o}, !.order = {o}]
            IN Continue(h,
                 IF h # "remind" THEN [t EXCEPT !.op = "mark"]
                 ELSE [t EXCEPT !.op = "row",
                                !.kinds = IF t.saying = {"upcoming"}
                                          THEN <<"upcoming">>
                                          ELSE <<"overdue">>])
      BY <1>17, <2>3 DEF Pick
    <3>. DEFINE t == [task[h] EXCEPT !.todo = @ \ {o}, !.order = {o}]
    <3>2. t \in Tasks /\ t.todo = task[h].todo \ {o} /\ t.order = {o}
      BY <1>s, ZenonT(60) DEF Tasks
    <3>3. PICK u : /\ Continue(h, u)
                   /\ u.todo = t.todo /\ u.order = t.order
      <4>1. CASE h # "remind"
        <5>. DEFINE u == [t EXCEPT !.op = "mark"]
        <5>1. Continue(h, u)
          BY <3>1, <4>1
        <5>. HIDE DEF t
        <5>2. u.todo = t.todo /\ u.order = t.order
          BY <3>2, Edits
        <5>. HIDE DEF u
        <5>. QED  BY <5>1, <5>2
      <4>2. CASE h = "remind"
        <5>1. PICK k : Continue(h, [t EXCEPT !.op = "row", !.kinds = k])
          BY <3>1, <4>2
        <5>. DEFINE u == [t EXCEPT !.op = "row", !.kinds = k]
        <5>. HIDE DEF t
        <5>2. u.todo = t.todo /\ u.order = t.order
          BY <3>2, Edits
        <5>. QED  BY <5>1, <5>2 DEF u
      <4>. QED  BY <4>1, <4>2
    <3>. HIDE DEF t
    <3>. QED  BY <1>3, <1>5, <2>1, <3>1, <3>2, <3>3
  <2>. QED  BY <2>2, <2>3
<1>18. ASSUME NEW h \in Handlers, Mark(h) PROVE AbsentInv'
  <2>1. PICK o \in task[h].order :
          /\ status' = [status EXCEPT ![o] = "ATRASADO"]
          /\ Continue(h, [task[h] EXCEPT !.op = "row", !.kinds = LateKinds(o)])
    BY <1>18 DEF Mark
  <2>2. UNCHANGED <<renewed, paid, cancelled, transferred, told>>
    BY <1>18 DEF Mark, notes, bounds, history
  <2>3. {o} \in SUBSET Orders /\ "ATRASADO" \in Statuses \ {"absent"}
    BY <1>t, <2>1 DEF Statuses
  <2>s. \A q \in Orders : status'[q] = IF q \in {o} THEN "ATRASADO"
                                       ELSE status[q]
    BY <1>7, <2>1
  <2>4. Leaves
    BY <1>6, <2>1, <2>2, <2>3, <2>s
  <2>. DEFINE t == [task[h] EXCEPT !.op = "row", !.kinds = LateKinds(o)]
  <2>5. t.todo = task[h].todo /\ t.order = task[h].order
    BY <1>s, Edits
  <2>6. Continue(h, t)
    BY <2>1
  <2>. HIDE DEF t
  <2>. QED  BY <1>3, <2>4, <2>5, <2>6
<1>19. ASSUME NEW h \in Handlers, PayWrite(h) PROVE AbsentInv'
  <2>. DEFINE k == <<"paid_tenant", "paid_landlord">>
  <2>1. PICK o \in task[h].order, n \in {0, 1} :
          /\ status' = [status EXCEPT ![o] = "PAGO"]
          /\ paid' = paid \cup {o}
          /\ \/ Finish(h)
             \/ Continue(h, [task[h] EXCEPT !.op = "row", !.sum = n,
                                            !.kinds = k])
    BY <1>19 DEF PayWrite, Settle
  <2>2. UNCHANGED <<renewed, cancelled, transferred, told>>
    BY <1>19 DEF PayWrite, notes, bounds
  <2>3. {o} \in SUBSET Orders /\ "PAGO" \in Statuses \ {"absent"}
    BY <1>t, <2>1 DEF Statuses
  <2>s. \A q \in Orders : status'[q] = IF q \in {o} THEN "PAGO"
                                       ELSE status[q]
    BY <1>7, <2>1
  <2>4. Leaves
    BY <1>6, <2>1, <2>2, <2>3, <2>s
  <2>. HIDE DEF k
  <2>. DEFINE t == [task[h] EXCEPT !.op = "row", !.sum = n, !.kinds = k]
  <2>5. t.todo = task[h].todo /\ t.order = task[h].order
    BY <1>s, Edits
  <2>6. Finish(h) \/ Continue(h, t)
    BY <2>1
  <2>. HIDE DEF t
  <2>. QED  BY <1>3, <1>4, <2>4, <2>5, <2>6
<1>20. ASSUME NEW h \in Handlers, Row(h) PROVE AbsentInv'
  <2>. DEFINE t == [task[h] EXCEPT !.op = "mail"]
  <2>k. PICK k : k = Head(task[h].kinds)
    OBVIOUS
  <2>1. PICK o \in task[h].order :
          told' = [told EXCEPT ![<<o, k>>] = @ + 1]
    BY <1>20, <2>k DEF Row
  <2>2. /\ Continue(h, t)
        /\ UNCHANGED <<status, renewed, paid, cancelled, transferred>>
    BY <1>20 DEF Row, orders, bounds
  <2>3. t.todo = task[h].todo /\ t.order = task[h].order
    BY <1>s, Edits
  <2>4. \A q \in Orders, r \in Kinds : q # o => told'[q, r] = told[q, r]
    BY <2>1 DEF RestOK
  <2>5. Leaves
    BY <1>t, <2>1, <2>2, <2>4 DEF Leaves
  <2>. HIDE DEF t
  <2>. QED  BY <1>3, <2>2, <2>3, <2>5
<1>21. ASSUME NEW h \in Handlers, Mail(h) PROVE AbsentInv'
  <2>1. UNCHANGED <<status, renewed, paid, cancelled, transferred, told>>
    BY <1>21 DEF Mail, orders, bounds, history
  <2>2. CASE Len(task[h].kinds) > 1
    <3>. DEFINE k == Tail(task[h].kinds)
                t == [task[h] EXCEPT !.op = "row", !.kinds = k]
    <3>1. Continue(h, t)
      BY <1>21, <2>2 DEF Mail
    <3>. HIDE DEF k
    <3>2. t.todo = task[h].todo /\ t.order = task[h].order
      BY <1>s, Edits
    <3>. HIDE DEF t
    <3>. QED  BY <1>3, <1>5, <2>1, <3>1, <3>2
  <2>3. CASE ~(Len(task[h].kinds) > 1)
    <3>1. Continue(h, AfterNotices(h))
      BY <1>21, <2>3 DEF Mail
    <3>2. /\ AfterNotices(h).todo = task[h].todo
          /\ AfterNotices(h).order \subseteq task[h].order
      BY <1>s, Edits DEF AfterNotices
    <3>. QED  BY <1>3, <1>5, <2>1, <3>1, <3>2
  <2>. QED  BY <2>2, <2>3
<1>22. ASSUME NEW h \in Handlers, Crash(h) PROVE AbsentInv'
  BY <1>4, <1>5, <1>22 DEF Crash, orders, notes
<1>23. CASE PayoutDone
  <2>. DEFINE O == task["webhook"].order
  <2>1. /\ Finish("webhook")
        /\ UNCHANGED <<renewed, cancelled, paid, told>>
        /\ transferred' = transferred \cup O
        /\ \A q \in Orders : status'[q] = IF q \in O THEN "EM_REPASSE"
                                          ELSE status[q]
    BY <1>23 DEF PayoutDone, notes, bounds
  <2>2. O \in SUBSET Orders
    BY <1>t
  <2>. HIDE DEF O
  <2>o. PICK P \in SUBSET Orders : P = O
    BY <2>2
  <2>3. Leaves
    BY <1>6, <2>1, <2>o DEF Statuses
  <2>. QED  BY <1>4, <2>1, <2>3
<1>24. CASE PayoutSkip
  BY <1>4, <1>5, <1>24 DEF PayoutSkip, orders, notes, bounds, history
<1>25. CASE PayoutFails
  <2>1. UNCHANGED <<status, renewed, paid, cancelled, transferred, told>>
    BY <1>25 DEF PayoutFails, orders, notes
  <2>2. CASE Finish("webhook")
    BY <1>4, <1>5, <2>1, <2>2
  <2>3. CASE ~Finish("webhook")
    <3>. DEFINE k == <<"payout_failed">>
                t == [task["webhook"] EXCEPT !.op = "row", !.kinds = k]
    <3>1. Continue("webhook", t)
      BY <1>25, <2>3 DEF PayoutFails, Admins
    <3>. HIDE DEF k
    <3>2. t.todo = task["webhook"].todo /\ t.order = task["webhook"].order
      BY <1>s, Edits
    <3>. HIDE DEF t
    <3>. QED  BY <1>3, <1>5, <2>1, <3>1, <3>2
  <2>. QED  BY <2>2, <2>3
<1>26. ASSUME NEW o \in Orders, TransferDone(o) \/ TransferFailed(o)
       PROVE  AbsentInv'
  <2>. DEFINE k == <<"transfer_failed">>
              t == [IdleTask EXCEPT !.op = "row", !.order = {o}, !.kinds = k]
  <2>1. PICK s \in {"PAGO", "RECEBIDO"} : status' = [status EXCEPT ![o] = s]
    BY <1>26, TransferStep
  <2>2. /\ UNCHANGED <<renewed, cancelled, told, transferred>>
        /\ paid' = paid \cup {o}
        /\ There(o)
    BY <1>26, TransferStep DEF StartTransfer, Settle, AbsentInv, notes
  <2>3. UNCHANGED task \/ Continue("webhook", t)
    BY <1>26, TransferStep
  <2>4. {o} \in SUBSET Orders /\ s \in Statuses \ {"absent"}
    BY DEF Statuses
  <2>s. \A q \in Orders : status'[q] = IF q \in {o} THEN s ELSE status[q]
    BY <1>7, <2>1
  <2>5. Leaves
    BY <1>6, <2>2, <2>4, <2>s
  <2>. HIDE DEF k
  <2>6. t.order = {o} /\ t.todo = {}
    BY <1>i, Edits
  <2>. HIDE DEF t
  <2>. QED  BY <1>2, <1>3, <2>2, <2>3, <2>5, <2>6
<1>27. CASE StartWithdraw
  <2>. DEFINE t == [IdleTask EXCEPT !.op = "withdraw", !.sum = balance]
  <2>1. t.todo = {} /\ t.order = {}
    BY <1>i DEF Tasks
  <2>2. /\ Continue("withdraw", t)
        /\ UNCHANGED <<status, renewed, paid, cancelled, transferred, told>>
    BY <1>27 DEF StartWithdraw, orders, notes, bounds, history
  <2>. HIDE DEF t
  <2>. QED  BY <1>3, <1>5, <2>1, <2>2
<1>28. CASE Withdraw
  BY <1>4, <1>5, <1>28 DEF Withdraw, orders, notes, bounds, history
<1>29. CASE StartRemind
  <2>. DEFINE O == {o \in InStatus("PENDENTE") : due[o] = day + 3}
              t == [IdleTask EXCEPT !.op = "pick", !.saying = {"upcoming"},
                                    !.todo = O]
  <2>1. /\ Continue("remind", t)
        /\ UNCHANGED <<status, renewed, paid, cancelled, transferred, told>>
    BY <1>29 DEF StartRemind, orders, notes, bounds
  <2>2. \A o \in O : There(o)
    BY DEF InStatus
  <2>. HIDE DEF O
  <2>3. t.todo = O /\ t.order = {}
    BY <1>i DEF Tasks
  <2>. HIDE DEF t
  <2>. QED  BY <1>3, <1>5, <2>1, <2>2, <2>3
<1>30. CASE RemindOn
  <2>. DEFINE t == [IdleTask EXCEPT !.op = "pick", !.saying = {"overdue"},
                      !.todo = OverdueReads]
  <2>1. t.todo = OverdueReads /\ t.order = {}
    BY <1>i DEF Tasks
  <2>2. /\ Finish("remind") \/ Continue("remind", t)
        /\ UNCHANGED <<status, renewed, paid, cancelled, transferred, told>>
    BY <1>30 DEF RemindOn, orders, notes, bounds, history
  <2>3. \A o \in OverdueReads : There(o)
    BY DEF OverdueReads, InStatus
  <2>. HIDE DEF t
  <2>. QED  BY <1>3, <1>4, <1>5, <2>1, <2>2, <2>3
<1>31. CASE Deactivate \/ Reactivate \/ Tick \/ UNCHANGED vars
  BY <1>2, <1>5, <1>31
     DEF Deactivate, Reactivate, Tick, handling, orders, notes, bounds,
         history, vars
<1>32. ASSUME NEW n \in DOMAIN queue, MailSent(n) \/ MailFails(n)
       PROVE  AbsentInv'
  BY <1>2, <1>5, <1>32
     DEF MailSent, MailFails, handling, orders, bounds, history
<1>33. ASSUME NEW c \in Crons, Miss(c) PROVE AbsentInv'
  BY <1>2, <1>5, <1>33 DEF Miss, orders, notes, history
<1>. QED
  BY <1>8, <1>9, <1>11, <1>12, <1>13, <1>14, <1>15, <1>16, <1>17, <1>18,
     <1>19, <1>20, <1>21, <1>22, <1>23, <1>24, <1>25, <1>26, <1>27, <1>28,
     <1>29, <1>30, <1>31, <1>32, <1>33, CreateStep DEF Next

-----------------------------------------------------------------------------
(* A lateness is told once for each time that an order is open.            *)

\* As long as no handler reads an order that another is about to mark: only
\* an open order is held, by one handler.
HeldOnce(o) ==
  \A h \in Markers : o \in Holds(h) =>
    /\ status[o] \in Open
    /\ \A g \in Markers : o \in Holds(g) => g = h

\* A lateness that was told, or is about to be told, or that an open order may
\* still come to, is one, or one of those that an opening allows.
SaidOnce(o, k) ==
  told[o, k] + Bit(Says("sweep", o, k)) + Bit(Says("webhook", o, k))
    + Bit(status[o] \in Open) <= 1 + renewed[o]

OnceInv ==
  \A o \in Orders \ crossed :
    HeldOnce(o) /\ \A k \in LateKind : SaidOnce(o, k)

\* What is marked, or is about to be, is late.
DueInv ==
  \A o \in Orders : Plain(o) =>
    /\ status[o] = "ATRASADO" => due[o] < day
    /\ \A h \in Markers : o \in Holds(h) => due[o] < day

\* Holds, of a task.
HeldBy(h, t) ==
  IF h = "remind" THEN {}
  ELSE t.todo \cup (IF t.op \in {"mark", "renew"} THEN t.order ELSE {})

\* When a handler goes on, the others hold and say what they did.
LEMMA Turn ==
  ASSUME TasksOK, NEW h \in Handlers, NEW t, Continue(h, t)
  PROVE  /\ task'[h] = t
         /\ \A g \in Handlers \ {h} : task'[g] = task[g]
         /\ \A g \in Handlers \ {h} : Holds(g)' = Holds(g)
         /\ Holds(h)' = HeldBy(h, t)
         /\ \A g \in Handlers \ {h} : \A o, k :
              Says(g, o, k)' <=> Says(g, o, k)
         /\ \A o, k : Says(h, o, k)' <=> o \in t.order /\ k \in Yet(t)
<1>1. /\ task'[h] = t
      /\ \A g \in Handlers \ {h} : task'[g] = task[g]
  BY DEF TasksOK, Continue
<1>2. /\ \A g \in Handlers \ {h} : Holds(g)' = Holds(g)
      /\ Holds(h)' = HeldBy(h, t)
  BY <1>1 DEF Holds, HeldBy
<1>3. /\ \A g \in Handlers \ {h} : \A o, k :
           Says(g, o, k)' <=> Says(g, o, k)
      /\ \A o, k : Says(h, o, k)' <=> o \in t.order /\ k \in Yet(t)
  <2>1. ASSUME NEW g \in Handlers \ {h}, NEW o, NEW k
        PROVE  Says(g, o, k)' <=> Says(g, o, k)
    BY <1>1, Zenon DEF Says, Yet
  <2>2. ASSUME NEW o, NEW k
        PROVE  Says(h, o, k)' <=> o \in t.order /\ k \in Yet(t)
    BY <1>1, Zenon DEF Says, Yet
  <2>. QED  BY <2>1, <2>2
<1>. QED  BY <1>1, <1>2, <1>3

\* What a step tells of a lateness.
Untold(o, k) == told'[o, k] = told[o, k]
ToldOnce(o, k) == told'[o, k] = told[o, k] + 1

SameTold == \A o \in Orders : \A k \in LateKind : Untold(o, k)

\* An order that a handler is about to mark stays open; none becomes late.
Settles ==
  /\ \A o \in Orders \ crossed' : \A h \in Markers :
       o \in Holds(h) => status'[o] \in {status[o]} \cup Open
  /\ \A o \in Orders : status'[o] = "ATRASADO" => status[o] = "ATRASADO"

LEMMA Counts ==
  ASSUME RestOK, NEW o \in Orders, NEW k \in LateKind
  PROVE  told[o, k] \in Nat /\ renewed[o] \in Nat
  BY DEF RestOK, OrdersOK, LateKind, Kinds

\* Where no handler says more, and nothing is told, nothing is said twice;
\* nor where a handler marks an open order; nor where it tells what it said.
LEMMA SaidNext ==
  ASSUME RestOK, RestOK', NEW o \in Orders, NEW k \in LateKind,
         SaidOnce(o, k),
         \/ /\ Untold(o, k) /\ OrderGoes(o)
            /\ \A g \in Markers : Says(g, o, k)' => Says(g, o, k)
         \/ \E h \in Markers :
              /\ renewed'[o] = renewed[o]
              /\ \A g \in Markers \ {h} : Says(g, o, k)' => Says(g, o, k)
              /\ \/ /\ Untold(o, k) /\ ~Says(h, o, k)
                    /\ status[o] \in Open /\ status'[o] \notin Open
                 \/ /\ ToldOnce(o, k) /\ Says(h, o, k) /\ ~Says(h, o, k)'
                    /\ status'[o] = status[o]
  PROVE  SaidOnce(o, k)'
<1>. DEFINE A == Bit(Says("sweep", o, k))
            B == Bit(Says("webhook", o, k))
            C == Bit(status[o] \in Open)
<1>1. PICK n, m, r, s, a, b, c, x, y, z :
        /\ n = told[o, k] /\ m = told'[o, k]
        /\ r = renewed[o] /\ s = renewed'[o]
        /\ a = A /\ b = B /\ c = C /\ x = A' /\ y = B' /\ z = C'
  OBVIOUS
<1>2. n \in Nat /\ r \in Nat /\ s \in Nat
  <2>1. n \in Nat /\ r \in Nat
    BY <1>1, Counts
  <2>2. s \in Nat
    BY <1>1 DEF RestOK, OrdersOK
  <2>. QED  BY <2>1, <2>2
<1>3. a \in {0, 1} /\ b \in {0, 1} /\ c \in {0, 1}
  BY <1>1 DEF Bit
<1>4. x \in {0, 1} /\ y \in {0, 1} /\ z \in {0, 1}
  BY <1>1 DEF Bit
<1>z. 0 # 1
  OBVIOUS
<1>f. /\ a = IF Says("sweep", o, k) THEN 1 ELSE 0
      /\ x = IF Says("sweep", o, k)' THEN 1 ELSE 0
      /\ b = IF Says("webhook", o, k) THEN 1 ELSE 0
      /\ y = IF Says("webhook", o, k)' THEN 1 ELSE 0
      /\ c = IF status[o] \in Open THEN 1 ELSE 0
      /\ z = IF status'[o] \in Open THEN 1 ELSE 0
  BY <1>1, Zenon DEF Bit
<1>m. Untold(o, k) => m = n
  BY <1>1, Zenon DEF Untold
<1>t. ToldOnce(o, k) => m = n + 1
  BY <1>1, Zenon DEF ToldOnce
<1>8. n + a + b + c <= 1 + r
  BY <1>1, Zenon DEF SaidOnce
<1>. USE DEF Markers
<1>5. ASSUME Untold(o, k), OrderGoes(o),
             \A g \in Markers : Says(g, o, k)' => Says(g, o, k)
      PROVE  m + x + y + z <= 1 + s
  <2>1. x = 1 => a = 1
    BY <1>5, <1>f, <1>z, Zenon
  <2>2. y = 1 => b = 1
    BY <1>5, <1>f, <1>z, Zenon
  <2>3. \/ status'[o] \in Open => status[o] \in Open
        \/ s = r + 1
    BY <1>1, <1>5 DEF OrderGoes
  <2>4. (status'[o] \in Open => status[o] \in Open) => (z = 1 => c = 1)
    BY <1>f, <1>z, Zenon
  <2>5. s \in {r, r + 1}
    BY <1>1, <1>5 DEF OrderGoes
  <2>. QED
    BY <1>2, <1>3, <1>4, <1>5, <1>8, <1>m, <2>1, <2>2, <2>3, <2>4, <2>5
<1>6. ASSUME NEW h \in Markers,
             renewed'[o] = renewed[o],
             \A g \in Markers \ {h} : Says(g, o, k)' => Says(g, o, k),
             Untold(o, k), ~Says(h, o, k),
             status[o] \in Open, status'[o] \notin Open
      PROVE  m + x + y + z <= 1 + s
  <2>1. s = r /\ m = n
    BY <1>1, <1>6, <1>m
  <2>2. c = 1 /\ z = 0
    BY <1>6, <1>f, Zenon
  <2>3. CASE h = "sweep"
    <3>1. a = 0
      BY <1>6, <1>f, <2>3, Zenon
    <3>2. Says("webhook", o, k)' => Says("webhook", o, k)
      BY <1>6, <2>3
    <3>3. y = 1 => b = 1
      BY <1>f, <1>z, <3>2, Zenon
    <3>. QED  BY <1>2, <1>3, <1>4, <1>8, <2>1, <2>2, <3>1, <3>3
  <2>4. CASE h = "webhook"
    <3>1. b = 0
      BY <1>6, <1>f, <2>4, Zenon
    <3>2. Says("sweep", o, k)' => Says("sweep", o, k)
      BY <1>6, <2>4
    <3>3. x = 1 => a = 1
      BY <1>f, <1>z, <3>2, Zenon
    <3>. QED  BY <1>2, <1>3, <1>4, <1>8, <2>1, <2>2, <3>1, <3>3
  <2>. QED  BY <2>3, <2>4
<1>7. ASSUME NEW h \in Markers,
             renewed'[o] = renewed[o],
             \A g \in Markers \ {h} : Says(g, o, k)' => Says(g, o, k),
             ToldOnce(o, k), Says(h, o, k), ~Says(h, o, k)',
             status'[o] = status[o]
      PROVE  m + x + y + z <= 1 + s
  <2>1. s = r /\ m = n + 1
    BY <1>1, <1>7, <1>t
  <2>2. c = z
    BY <1>7, <1>f, Zenon
  <2>3. CASE h = "sweep"
    <3>1. a = 1 /\ x = 0
      BY <1>7, <1>f, <2>3, Zenon
    <3>2. Says("webhook", o, k)' => Says("webhook", o, k)
      BY <1>7, <2>3
    <3>3. y = 1 => b = 1
      BY <1>f, <1>z, <3>2, Zenon
    <3>. QED  BY <1>2, <1>3, <1>4, <1>8, <2>1, <2>2, <3>1, <3>3
  <2>4. CASE h = "webhook"
    <3>1. b = 1 /\ y = 0
      BY <1>7, <1>f, <2>4, Zenon
    <3>2. Says("sweep", o, k)' => Says("sweep", o, k)
      BY <1>7, <2>4
    <3>3. x = 1 => a = 1
      BY <1>f, <1>z, <3>2, Zenon
    <3>. QED  BY <1>2, <1>3, <1>4, <1>8, <2>1, <2>2, <3>1, <3>3
  <2>. QED  BY <2>3, <2>4
<1>9. m + x + y + z <= 1 + s
  BY <1>5, <1>6, <1>7
<1>. QED  BY <1>1, <1>9, Zenon DEF SaidOnce

\* A step in which no handler comes to hold or to say more.
LEMMA QuietStep ==
  ASSUME TasksOK, RestOK, RestOK', AbsentInv, OnceInv, DueInv, OrdersGo,
         Settles, SameTold, crossed \subseteq crossed',
         day' \in {day, day + 1},
         \A g \in Markers : Holds(g)' \subseteq Holds(g),
         \A g \in Markers : \A o \in Orders : \A k \in LateKind :
           Says(g, o, k)' => Says(g, o, k)
  PROVE  OnceInv' /\ DueInv'
<1>1. ASSUME NEW o \in Orders \ crossed' PROVE HeldOnce(o)'
  <2>1. HeldOnce(o)
    BY DEF OnceInv
  <2>2. ASSUME NEW g \in Markers, o \in Holds(g)' PROVE status'[o] \in Open
    <3>1. o \in Holds(g)
      BY <2>2
    <3>2. status[o] \in Open
      BY <2>1, <3>1 DEF HeldOnce
    <3>. QED  BY <3>1, <3>2 DEF Settles
  <2>. QED  BY <2>1, <2>2 DEF HeldOnce
<1>2. ASSUME NEW o \in Orders \ crossed', NEW k \in LateKind
      PROVE  SaidOnce(o, k)'
  <2>1. SaidOnce(o, k) /\ OrderGoes(o)
    BY DEF OnceInv, OrdersGo
  <2>2. \A g \in Markers : Says(g, o, k)' => Says(g, o, k)
    OBVIOUS
  <2>3. Untold(o, k)
    BY DEF SameTold
  <2>. QED  BY <2>1, <2>2, <2>3, SaidNext
<1>3. ASSUME NEW o \in Orders, Plain(o)'
      PROVE  /\ status'[o] = "ATRASADO" => due'[o] < day'
             /\ \A h \in Markers : o \in Holds(h)' => due'[o] < day'
  <2>1. CASE There(o)
    <3>1. Plain(o) /\ due'[o] = due[o]
      BY <1>3, <2>1 DEF OrdersGo, OrderGoes
    <3>2. day \in Nat /\ due[o] \in Nat
      BY NoticesAssumption DEF RestOK, OrdersOK
    <3>3. due[o] < day => due'[o] < day'
      BY <3>1, <3>2
    <3>4. /\ status[o] = "ATRASADO" => due[o] < day
          /\ \A h \in Markers : o \in Holds(h) => due[o] < day
      BY <3>1 DEF DueInv
    <3>. QED  BY <3>3, <3>4 DEF Settles
  <2>2. CASE ~There(o)
    <3>1. \A h \in Markers : o \notin Holds(h)
      BY <2>2 DEF AbsentInv, Holds, Handlers, Markers
    <3>2. status'[o] # "ATRASADO"
      BY <2>2 DEF There, Settles
    <3>. QED  BY <3>1, <3>2
  <2>. QED  BY <2>1, <2>2
<1>. QED  BY <1>1, <1>2, <1>3 DEF OnceInv, DueInv

\* A handler that goes on holds and says no more, and nothing is told.
LEMMA QuietTurn ==
  ASSUME TasksOK, RestOK, RestOK', AbsentInv, OnceInv, DueInv, OrdersGo,
         Settles, SameTold, crossed \subseteq crossed', day' = day,
         NEW h \in Handlers, NEW t, Continue(h, t),
         h \in Markers =>
           /\ HeldBy(h, t) \subseteq Holds(h)
           /\ \/ Yet(t) \cap LateKind = {}
              \/ t.order = task[h].order /\ Yet(t) \subseteq Yet(task[h])
  PROVE  OnceInv' /\ DueInv'
<1>m. Markers \subseteq Handlers
  BY DEF Markers, Handlers
<1>1. \A g \in Markers : Holds(g)' \subseteq Holds(g)
  BY <1>m, Turn
<1>2. ASSUME NEW g \in Markers, NEW o \in Orders, NEW k \in LateKind
      PROVE  Says(g, o, k)' => Says(g, o, k)
  <2>1. CASE g = h
    BY <2>1, Turn DEF Says
  <2>2. CASE g # h
    BY <1>m, <2>2, Turn
  <2>. QED  BY <2>1, <2>2
<1>. QED  BY <1>1, <1>2, QuietStep

\* A handler that ends, or starts to do something else than mark, is quiet.
LEMMA QuietEnd ==
  ASSUME TasksOK, RestOK, RestOK', AbsentInv, OnceInv, DueInv, OrdersGo,
         Settles, SameTold, crossed \subseteq crossed', day' = day,
         NEW h \in Handlers, NEW t, Continue(h, t),
         h \in Markers =>
           t.op \notin {"mark", "renew", "row", "mail"} /\ t.todo = {}
  PROVE  OnceInv' /\ DueInv'
<1>1. h \in Markers => HeldBy(h, t) = {} /\ Yet(t) = {}
  BY DEF HeldBy, Yet
<1>. QED  BY <1>1, QuietTurn

LEMMA OnceStep ==
  ASSUME TasksOK, RestOK, HeldInv, ShapeInv, StatusInv, AbsentInv, OnceInv,
         DueInv, [Next]_vars
  PROVE  OnceInv' /\ DueInv'
<1>g. OrdersGo /\ RestOK'
  BY StatusStep, RestStep
<1>s. \A h \in Handlers : Shaped(h, task[h], paid) /\ task[h] \in Tasks
  BY DEF ShapeInv, TasksOK
<1>i. /\ IdleTask \in Tasks /\ IdleTask.todo = {} /\ IdleTask.op = "idle"
      /\ IdleTask.kinds = <<>>
  BY Idles DEF IdleTask
<1>d. day \in Nat /\ \A o \in Orders : due[o] \in Nat
  BY NoticesAssumption DEF RestOK, OrdersOK
<1>o. \A h \in Handlers : \A o \in task[h].order : o \in Orders
  BY TaskOrders
<1>m. Markers \subseteq Handlers /\ "remind" \notin Markers
  BY DEF Markers, Handlers
<1>c. ASSUME UNCHANGED status PROVE Settles
  BY <1>c DEF Settles
<1>u. ASSUME UNCHANGED told PROVE SameTold
  BY <1>u, Zenon DEF SameTold, Untold
<1>w. ASSUME NEW o, NEW s, status' = [status EXCEPT ![o] = s]
      PROVE  \A q \in Orders : status'[q] = IF q \in {o} THEN s ELSE status[q]
  BY <1>w DEF RestOK, OrdersOK
<1>v. ASSUME NEW S \in SUBSET Orders, NEW s \in Statuses \ {"ATRASADO"},
             \A q \in Orders : status'[q] = IF q \in S THEN s ELSE status[q],
             \/ s \in Open
             \/ \A q \in S \ crossed' : \A h \in Markers : q \notin Holds(h)
      PROVE  Settles
  BY <1>v DEF Settles
<1>. USE DEF Handlers
<1>1. ASSUME UNCHANGED <<task, told>>, Settles, crossed \subseteq crossed',
             day' \in {day, day + 1}
      PROVE  OnceInv' /\ DueInv'
  <2>1. \A h \in Handlers : Holds(h)' = Holds(h)
    BY <1>1 DEF Holds
  <2>2. ASSUME NEW g \in Handlers, NEW o, NEW k
        PROVE  Says(g, o, k)' => Says(g, o, k)
    BY <1>1, Zenon DEF Says, Yet
  <2>3. SameTold
    BY <1>1, <1>u
  <2>. QED  BY <1>1, <1>g, <1>m, <2>1, <2>2, <2>3, QuietStep
<1>2. ASSUME NEW h \in Handlers, Finish(h), UNCHANGED <<told, day>>,
             crossed \subseteq crossed', Settles
      PROVE  OnceInv' /\ DueInv'
  <2>1. SameTold
    BY <1>2, <1>u
  <2>. QED  BY <1>2, <1>g, <1>i, <2>1, QuietEnd DEF Finish
<1>3. ASSUME NEW h \in Handlers, NEW t, Continue(h, t),
             UNCHANGED <<told, day>>, crossed \subseteq crossed', Settles,
             h \in Markers =>
               /\ HeldBy(h, t) \subseteq Holds(h)
               /\ \/ Yet(t) \cap LateKind = {}
                  \/ t.order = task[h].order /\ Yet(t) \subseteq Yet(task[h])
      PROVE  OnceInv' /\ DueInv'
  <2>1. SameTold
    BY <1>3, <1>u
  <2>. QED  BY <1>3, <1>g, <2>1, QuietTurn
<1>4. CASE StartSweep
  <2>. DEFINE t == [IdleTask EXCEPT !.op = "pick", !.todo = SweepReads]
  <2>1. t.op = "pick" /\ t.todo = SweepReads
    BY <1>i DEF Tasks
  <2>2. /\ Continue("sweep", t)
        /\ UNCHANGED <<status, told, day, due, renewed, paid, cancelled>>
        /\ crossed' = crossed \cup (SweepReads \cap Holds("webhook"))
    BY <1>4 DEF StartSweep, notes, orders, bounds
  <2>. HIDE DEF t
  <2>3. HeldBy("sweep", t) = SweepReads /\ Yet(t) = {}
    BY <2>1 DEF HeldBy, Yet
  <2>4. /\ Holds("webhook")' = Holds("webhook")
        /\ Holds("sweep")' = SweepReads
    BY <2>2, <2>3, Turn
  <2>s. ASSUME NEW g \in Markers, NEW o, NEW k
        PROVE  Says(g, o, k)' => Says(g, o, k)
    BY <1>m, <2>2, <2>3, Turn
  <2>6. \A o \in SweepReads :
          /\ o \in Orders /\ status[o] \in Open /\ due[o] < day
          /\ o \notin crossed' => o \notin Holds("webhook")
    BY <2>2 DEF SweepReads, InStatus, Open
  <2>7. DueInv'
    <3>1. \A o \in Orders : Plain(o)' => Plain(o)
      BY <2>2 DEF Plain, There
    <3>. QED  BY <2>2, <2>4, <2>6, <3>1 DEF DueInv, Markers
  <2>8. ASSUME NEW q \in Orders \ crossed'
        PROVE  HeldOnce(q)'
    <3>1. HeldOnce(q)
      BY <2>2 DEF OnceInv
    <3>. QED  BY <2>2, <2>4, <2>6, <3>1 DEF HeldOnce, Markers
  <2>9. ASSUME NEW q \in Orders \ crossed', NEW k \in LateKind
        PROVE  SaidOnce(q, k)'
    <3>1. SaidOnce(q, k) /\ OrderGoes(q)
      BY <1>g, <2>2 DEF OnceInv, OrdersGo
    <3>2. Untold(q, k)
      BY <1>u, <2>2 DEF SameTold
    <3>. QED  BY <1>g, <2>s, <3>1, <3>2, SaidNext
  <2>. QED  BY <2>7, <2>8, <2>9 DEF OnceInv
<1>5. ASSUME NEW o \in Orders, StartWebhook(o) PROVE OnceInv' /\ DueInv'
  <2>. DEFINE t == [IdleTask EXCEPT !.op = "mark", !.order = {o}]
  <2>1. t.op = "mark" /\ t.todo = {} /\ t.order = {o}
    BY <1>i DEF Tasks
  <2>2. /\ Continue("webhook", t)
        /\ UNCHANGED <<status, told, day, due, renewed, paid, cancelled>>
        /\ crossed \subseteq crossed'
        /\ o \in crossed' \/ (o \notin paid /\ o \notin Holds("sweep"))
        /\ status[o] # "ATRASADO"
        /\ due[o] < day \/ renewed[o] > 0
    BY <1>5 DEF StartWebhook, notes, orders, bounds
  <2>. HIDE DEF t
  <2>3. HeldBy("webhook", t) = {o} /\ Yet(t) = {}
    BY <2>1 DEF HeldBy, Yet
  <2>4. /\ Holds("sweep")' = Holds("sweep")
        /\ Holds("webhook")' = {o}
    BY <2>2, <2>3, Turn
  <2>s. ASSUME NEW g \in Markers, NEW q, NEW k
        PROVE  Says(g, q, k)' => Says(g, q, k)
    BY <1>m, <2>2, <2>3, Turn
  <2>6. o \notin crossed' => status[o] \in Open
    BY <2>2 DEF StatusInv, Open
  <2>7. DueInv'
    <3>1. \A q \in Orders : Plain(q)' => Plain(q)
      BY <2>2 DEF Plain, There
    <3>2. Plain(o)' => due[o] < day
      BY <2>2 DEF Plain
    <3>. QED  BY <2>2, <2>4, <3>1, <3>2 DEF DueInv, Markers
  <2>8. ASSUME NEW q \in Orders \ crossed'
        PROVE  HeldOnce(q)'
    <3>1. HeldOnce(q)
      BY <2>2 DEF OnceInv
    <3>. QED  BY <2>2, <2>4, <2>6, <3>1 DEF HeldOnce, Markers
  <2>9. ASSUME NEW q \in Orders \ crossed', NEW k \in LateKind
        PROVE  SaidOnce(q, k)'
    <3>1. SaidOnce(q, k) /\ OrderGoes(q)
      BY <1>g, <2>2 DEF OnceInv, OrdersGo
    <3>2. Untold(q, k)
      BY <1>u, <2>2 DEF SameTold
    <3>. QED  BY <1>g, <2>s, <3>1, <3>2, SaidNext
  <2>. QED  BY <2>7, <2>8, <2>9 DEF OnceInv
<1>6. ASSUME NEW o \in Orders, StartPayment(o) \/ StartCash(o)
      PROVE  OnceInv' /\ DueInv'
  <2>. DEFINE t == [IdleTask EXCEPT !.op = "pay", !.order = {o}]
  <2>1. t.op = "pay" /\ t.todo = {}
    BY <1>i DEF Tasks
  <2>2. PICK h \in {"webhook", "cash"} :
          Continue(h, t) /\ UNCHANGED <<status, told, day, crossed>>
    BY <1>6 DEF StartPayment, StartCash, Report, notes, history, orders
  <2>. HIDE DEF t
  <2>3. HeldBy(h, t) = {} /\ Yet(t) = {}
    BY <2>1 DEF HeldBy, Yet
  <2>. QED  BY <1>3, <1>c, <2>2, <2>3
<1>7. ASSUME NEW h \in Handlers, Pick(h) PROVE OnceInv' /\ DueInv'
  <2>1. UNCHANGED <<status, told, day, crossed>> /\ task[h].op = "pick"
    BY <1>7 DEF Pick, At, notes, history, orders
  <2>2. CASE Finish(h)
    BY <1>2, <1>c, <2>1, <2>2
  <2>3. CASE ~Finish(h)
    <3>1. PICK o \in task[h].todo :
            LET t == [task[h] EXCEPT !.todo = @ \ {o}, !.order = {o}]
            IN Continue(h,
                 IF h # "remind" THEN [t EXCEPT !.op = "mark"]
                 ELSE [t EXCEPT !.op = "row",
                                !.kinds = IF t.saying = {"upcoming"}
                                          THEN <<"upcoming">>
                                          ELSE <<"overdue">>])
      BY <1>7, <2>3 DEF Pick
    <3>. DEFINE t == [task[h] EXCEPT !.todo = @ \ {o}, !.order = {o}]
    <3>2. t \in Tasks /\ t.todo = task[h].todo \ {o} /\ t.order = {o}
      BY <1>s, ZenonT(60) DEF Tasks
    <3>4. CASE h # "remind"
      <4>. DEFINE u == [t EXCEPT !.op = "mark"]
      <4>1. Continue(h, u)
        BY <3>1, <3>4
      <4>. HIDE DEF t
      <4>2. u.op = "mark" /\ u.todo = t.todo /\ u.order = t.order
        BY <3>2, Edits
      <4>. HIDE DEF u
      <4>3. HeldBy(h, u) \subseteq Holds(h) /\ Yet(u) = {}
        BY <3>1, <3>2, <3>4, <4>2 DEF HeldBy, Holds, Yet
      <4>. QED  BY <1>3, <1>c, <2>1, <4>1, <4>3
    <3>5. CASE h = "remind"
      <4>1. PICK k : Continue(h, k)
        BY <3>1, <3>5
      <4>. QED  BY <1>3, <1>c, <1>m, <2>1, <3>5, <4>1
    <3>. QED  BY <3>4, <3>5
  <2>. QED  BY <2>2, <2>3
<1>8. ASSUME NEW h \in Handlers, Mark(h) PROVE OnceInv' /\ DueInv'
  <2>1. PICK o \in task[h].order :
          /\ status' = [status EXCEPT ![o] = "ATRASADO"]
          /\ Continue(h, [task[h] EXCEPT !.op = "row", !.kinds = LateKinds(o)])
    BY <1>8 DEF Mark
  <2>2. /\ UNCHANGED <<told, day, crossed, due, renewed, paid, cancelled>>
        /\ task[h].op = "mark"
    BY <1>8 DEF Mark, At, notes, history, bounds
  <2>. DEFINE t == [task[h] EXCEPT !.op = "row", !.kinds = LateKinds(o)]
  <2>3. /\ t.op = "row" /\ t.todo = task[h].todo
        /\ t.order = task[h].order
    BY <1>s, Edits
  <2>t. Continue(h, t)
    BY <2>1
  <2>. HIDE DEF t
  <2>4. /\ o \in Orders /\ h \in Markers
        /\ task[h].order = {o} /\ o \notin task[h].todo
    BY <1>s, <2>1, <2>2 DEF Shaped, OpsOf, Markers
  <2>5. /\ HeldBy(h, t) = task[h].todo
        /\ Holds(h) = task[h].todo \cup {o}
    BY <1>m, <2>2, <2>3, <2>4 DEF HeldBy, Holds
  <2>6. /\ \A g \in Handlers \ {h} : Holds(g)' = Holds(g)
        /\ Holds(h)' = Holds(h) \ {o}
    BY <2>t, <2>4, <2>5, Turn
  <2>s. ASSUME NEW g \in Handlers, NEW q, NEW k, Says(g, q, k)'
        PROVE  Says(g, q, k) \/ (g = h /\ q = o)
    <3>1. CASE g = h
      BY <2>t, <2>3, <2>4, <2>s, <3>1, Turn DEF Says
    <3>2. CASE g # h
      BY <2>t, <2>s, <3>2, Turn
    <3>. QED  BY <3>1, <3>2
  <2>7. \A q \in Orders :
          status'[q] = IF q = o THEN "ATRASADO" ELSE status[q]
    <3>1. \A q \in Orders :
            status'[q] = IF q \in {o} THEN "ATRASADO" ELSE status[q]
      BY <1>w, <2>1
    <3>. QED  BY <3>1
  <2>8. DueInv'
    <3>1. ASSUME NEW q \in Orders, Plain(q)'
          PROVE  /\ status'[q] = "ATRASADO" => due[q] < day
                 /\ \A g \in Markers : q \in Holds(g)' => due[q] < day
      <4>1. There(q)
        BY <2>4, <2>7, <3>1 DEF AbsentInv, Plain, There
      <4>2. Plain(q)
        BY <2>2, <3>1, <4>1 DEF Plain
      <4>3. /\ status[q] = "ATRASADO" => due[q] < day
            /\ \A g \in Markers : q \in Holds(g) => due[q] < day
        BY <4>2 DEF DueInv
      <4>4. \A g \in Markers : Holds(g)' \subseteq Holds(g)
        BY <1>m, <2>6
      <4>5. q = o => q \in Holds(h)
        BY <2>5
      <4>. QED  BY <2>4, <2>7, <4>3, <4>4, <4>5
    <3>. QED  BY <2>2, <3>1 DEF DueInv
  <2>9. ASSUME NEW q \in Orders \ crossed
        PROVE  HeldOnce(q)'
    <3>1. HeldOnce(q)
      BY DEF OnceInv
    <3>2. \A g \in Markers : Holds(g)' \subseteq Holds(g)
      BY <1>m, <2>6
    <3>3. \A g \in Markers : o \notin Holds(g)' \/ q # o
      BY <1>m, <2>4, <2>5, <2>6, <3>1 DEF HeldOnce
    <3>. QED  BY <2>7, <3>1, <3>2, <3>3 DEF HeldOnce
  <2>10. ASSUME NEW q \in Orders \ crossed, NEW k \in LateKind
         PROVE  SaidOnce(q, k)'
    <3>1. HeldOnce(q) /\ SaidOnce(q, k) /\ OrderGoes(q)
      BY <1>g DEF OnceInv, OrdersGo
    <3>2. Untold(q, k)
      BY <1>u, <2>2 DEF SameTold
    <3>3. CASE q = o
      <4>1. status[q] \in Open
        BY <2>4, <2>5, <3>1, <3>3 DEF HeldOnce
      <4>2. status'[q] \notin Open /\ renewed'[q] = renewed[q]
        BY <2>2, <2>7, <3>3 DEF Open
      <4>3. ~Says(h, q, k)
        BY <2>2 DEF Says, Yet
      <4>4. \A g \in Markers \ {h} : Says(g, q, k)' => Says(g, q, k)
        BY <1>m, <2>t, Turn
      <4>5. \E f \in Markers :
              /\ renewed'[q] = renewed[q]
              /\ \A g \in Markers \ {f} : Says(g, q, k)' => Says(g, q, k)
              /\ \/ /\ Untold(q, k) /\ ~Says(f, q, k)
                    /\ status[q] \in Open /\ status'[q] \notin Open
                 \/ /\ ToldOnce(q, k) /\ Says(f, q, k) /\ ~Says(f, q, k)'
                    /\ status'[q] = status[q]
        <5>1. h \in Markers
          BY <2>4
        <5>. QED  BY <3>2, <4>1, <4>2, <4>3, <4>4, <5>1, Zenon
      <4>. HIDE <4>1, <4>2, <4>3, <4>4
      <4>. QED  BY <1>g, <3>1, <4>5, SaidNext, Zenon
    <3>4. CASE q # o
      <4>1. ASSUME NEW g \in Markers, Says(g, q, k)' PROVE Says(g, q, k)
        <5>1. g \in Handlers
          BY <1>m
        <5>. HIDE DEF Handlers
        <5>. QED  BY <2>s, <3>4, <4>1, <5>1
      <4>. QED  BY <1>g, <3>1, <3>2, <4>1, SaidNext
    <3>. QED  BY <3>3, <3>4
  <2>. QED  BY <2>2, <2>8, <2>9, <2>10 DEF OnceInv
<1>9. ASSUME NEW h \in Handlers, PayWrite(h) PROVE OnceInv' /\ DueInv'
  <2>. DEFINE k == <<"paid_tenant", "paid_landlord">>
  <2>1. PICK o \in task[h].order, n \in {0, 1} :
          /\ status' = [status EXCEPT ![o] = "PAGO"]
          /\ crossed' = IF \E g \in Handlers : o \in Holds(g)
                        THEN crossed \cup {o} ELSE crossed
          /\ \/ Finish(h)
             \/ Continue(h, [task[h] EXCEPT !.op = "row", !.sum = n,
                                            !.kinds = k])
    BY <1>9 DEF PayWrite, Settle
  <2>2. UNCHANGED <<told, day>> /\ task[h].op = "pay"
    BY <1>9 DEF PayWrite, At, notes
  <2>s. \A q \in Orders : status'[q] = IF q \in {o} THEN "PAGO"
                                       ELSE status[q]
    BY <1>w, <2>1
  <2>3. /\ crossed \subseteq crossed'
        /\ \A q \in {o} \ crossed' : \A g \in Markers : q \notin Holds(g)
    BY <1>m, <2>1
  <2>o. {o} \in SUBSET Orders
    BY <1>o
  <2>4. Settles
    <3>1. "PAGO" \in Statuses \ {"ATRASADO"}
      BY DEF Statuses
    <3>. QED  BY <1>v, <2>s, <2>3, <2>o, <3>1
  <2>5. CASE Finish(h)
    BY <1>2, <2>2, <2>3, <2>4, <2>5
  <2>6. CASE ~Finish(h)
    <3>. DEFINE t == [task[h] EXCEPT !.op = "row", !.sum = n, !.kinds = k]
    <3>0. Continue(h, t)
      BY <2>1, <2>6
    <3>. HIDE DEF k
    <3>1. t.op = "row" /\ t.todo = task[h].todo /\ t.kinds = k
      BY <1>s, Edits
    <3>2. Yet(t) = {"paid_tenant", "paid_landlord"}
      BY <3>1, OneTwo DEF Yet, k
    <3>. HIDE DEF t
    <3>3. HeldBy(h, t) \subseteq Holds(h)
      BY <3>1 DEF HeldBy, Holds
    <3>4. Yet(t) \cap LateKind = {}
      BY <3>2 DEF LateKind
    <3>. QED  BY <1>3, <2>2, <2>3, <2>4, <3>0, <3>3, <3>4
  <2>. QED  BY <2>5, <2>6
<1>10. ASSUME NEW h \in Handlers, Row(h) PROVE OnceInv' /\ DueInv'
  <2>. DEFINE t == [task[h] EXCEPT !.op = "mail"]
  <2>k. PICK k : k = Head(task[h].kinds)
    OBVIOUS
  <2>1. PICK o \in task[h].order :
          told' = [told EXCEPT ![<<o, k>>] = @ + 1]
    BY <1>10, <2>k DEF Row
  <2>2. /\ Continue(h, t) /\ task[h].op = "row"
        /\ UNCHANGED <<status, day, crossed, renewed>>
    BY <1>10 DEF Row, At, orders, bounds
  <2>3. /\ t.op = "mail" /\ t.todo = task[h].todo
        /\ t.order = task[h].order /\ t.kinds = task[h].kinds
    BY <1>s, Edits
  <2>. HIDE DEF t
  <2>4. o \in Orders /\ task[h].order = {o}
    BY <1>s, <2>1, <2>2 DEF Shaped
  <2>5. /\ k \in Yet(task[h]) /\ k \notin Yet(t)
        /\ Yet(t) \subseteq Yet(task[h])
        /\ h \notin Markers => k \notin LateKind
    <3>1. Yet(task[h]) = ToSet(task[h].kinds) /\ Yet(t) = ToSet(Tail(t.kinds))
      BY <2>2, <2>3 DEF Yet
    <3>2. CASE h # "remind"
      <4>1. /\ task[h].kinds \in Messages
            /\ h \notin Markers => task[h].kinds \notin LateMessages
        BY <1>s, <2>2, <3>2 DEF Shaped
      <4>. QED  BY <2>k, <2>3, <3>1, <4>1, MessageFacts
    <3>3. CASE h = "remind"
      <4>1. PICK r \in Reminders : task[h].kinds = <<r>>
        BY <1>s, <2>2, <3>3 DEF Shaped
      <4>2. k \notin LateKind
        BY <2>k, <4>1, OneTwo DEF LateKind, Reminders
      <4>. QED  BY <2>k, <2>3, <3>1, <4>1, <4>2, OneTwo
    <3>. QED  BY <3>2, <3>3
  <2>6. ASSUME NEW q \in Orders, NEW r \in LateKind
        PROVE  IF q = o /\ r = k THEN ToldOnce(q, r) ELSE Untold(q, r)
    <3>1. told'[q, r] = IF q = o /\ r = k THEN told[q, r] + 1 ELSE told[q, r]
      BY <2>1 DEF RestOK, LateKind, Kinds
    <3>. QED  BY <3>1, Zenon DEF ToldOnce, Untold
  <2>7. CASE h \notin Markers
    <3>1. SameTold
      BY <2>5, <2>6, <2>7 DEF SameTold
    <3>. QED  BY <1>g, <1>c, <2>2, <2>7, <3>1, QuietTurn
  <2>8. CASE h \in Markers
    <3>1. \A g \in Markers : Holds(g)' \subseteq Holds(g)
      <4>1. HeldBy(h, t) \subseteq Holds(h)
        BY <2>3 DEF HeldBy, Holds
      <4>. QED  BY <1>m, <2>2, <4>1, Turn
    <3>2. ASSUME NEW g \in Markers, NEW q, NEW r
          PROVE  Says(g, q, r)' => Says(g, q, r)
      <4>1. CASE g = h
        BY <2>2, <2>3, <2>5, <4>1, Turn DEF Says
      <4>2. CASE g # h
        BY <1>m, <2>2, <4>2, Turn
      <4>. QED  BY <4>1, <4>2
    <3>3. Says(h, o, k) /\ ~Says(h, o, k)'
      <4>1. Says(h, o, k)
        BY <2>4, <2>5 DEF Says
      <4>2. ~Says(h, o, k)'
        BY <2>2, <2>5, Turn
      <4>. QED  BY <4>1, <4>2
    <3>4. DueInv'
      <4>1. UNCHANGED <<due, paid, cancelled>>
        BY <1>10 DEF Row, orders
      <4>2. \A q \in Orders : Plain(q)' => Plain(q)
        BY <2>2, <4>1 DEF Plain, There
      <4>. QED  BY <2>2, <3>1, <4>1, <4>2 DEF DueInv
    <3>5. ASSUME NEW q \in Orders \ crossed
          PROVE  HeldOnce(q)'
      <4>1. HeldOnce(q)
        BY DEF OnceInv
      <4>. QED  BY <2>2, <3>1, <4>1 DEF HeldOnce
    <3>6. ASSUME NEW q \in Orders \ crossed, NEW r \in LateKind
          PROVE  SaidOnce(q, r)'
      <4>1. SaidOnce(q, r) /\ OrderGoes(q)
        BY <1>g DEF OnceInv, OrdersGo
      <4>2. CASE q = o /\ r = k
        <5>1. Says(h, q, r) /\ ~Says(h, q, r)'
          BY <3>3, <4>2
        <5>2. ToldOnce(q, r)
          BY <2>6, <4>2
        <5>3. status'[q] = status[q] /\ renewed'[q] = renewed[q]
          BY <2>2
        <5>4. \A g \in Markers \ {h} : Says(g, q, r)' => Says(g, q, r)
          BY <3>2
        <5>. QED  BY <1>g, <2>8, <4>1, <5>1, <5>2, <5>3, <5>4, SaidNext
      <4>3. CASE ~(q = o /\ r = k)
        <5>1. Untold(q, r)
          BY <2>6, <4>3
        <5>2. \A g \in Markers : Says(g, q, r)' => Says(g, q, r)
          BY <3>2
        <5>. QED  BY <1>g, <4>1, <5>1, <5>2, SaidNext
      <4>. QED  BY <4>2, <4>3
    <3>. QED  BY <2>2, <3>4, <3>5, <3>6 DEF OnceInv
  <2>. QED  BY <2>7, <2>8
<1>11. ASSUME NEW h \in Handlers, Mail(h) PROVE OnceInv' /\ DueInv'
  <2>1. /\ UNCHANGED <<status, told, day, crossed>>
        /\ task[h].op = "mail"
    BY <1>11 DEF Mail, At, history, orders
  <2>2. CASE Len(task[h].kinds) > 1
    <3>. DEFINE k == Tail(task[h].kinds)
                t == [task[h] EXCEPT !.op = "row", !.kinds = k]
    <3>1. Continue(h, t)
      BY <1>11, <2>2 DEF Mail
    <3>. HIDE DEF k
    <3>2. /\ t.op = "row" /\ t.todo = task[h].todo
          /\ t.order = task[h].order /\ t.kinds = k
      BY <1>s, Edits
    <3>. HIDE DEF t
    <3>3. Yet(t) = Yet(task[h])
      BY <2>1, <3>2 DEF Yet, k
    <3>4. HeldBy(h, t) \subseteq Holds(h)
      BY <3>2 DEF HeldBy, Holds
    <3>. QED  BY <1>3, <1>c, <2>1, <3>1, <3>2, <3>3, <3>4
  <2>3. CASE ~(Len(task[h].kinds) > 1)
    <3>1. Continue(h, AfterNotices(h))
      BY <1>11, <2>3 DEF Mail
    <3>2. /\ AfterNotices(h).op \in {"payout", "pick"}
          /\ AfterNotices(h).todo = task[h].todo
      BY <1>s, Edits DEF AfterNotices
    <3>3. HeldBy(h, AfterNotices(h)) \subseteq Holds(h)
          /\ Yet(AfterNotices(h)) = {}
      BY <3>2 DEF HeldBy, Holds, Yet
    <3>. QED  BY <1>3, <1>c, <2>1, <3>1, <3>3
  <2>. QED  BY <2>2, <2>3
<1>12. ASSUME NEW h \in Handlers, Crash(h) PROVE OnceInv' /\ DueInv'
  BY <1>2, <1>c, <1>12 DEF Crash, notes, orders
<1>13. CASE PayoutDone
  <2>. DEFINE O == task["webhook"].order
  <2>1. /\ Finish("webhook") /\ UNCHANGED <<told, day, crossed>>
        /\ \A q \in Orders : status'[q] = IF q \in O THEN "EM_REPASSE"
                                          ELSE status[q]
        /\ O \subseteq paid
    BY <1>13, <1>s DEF PayoutDone, notes, At, Shaped
  <2>2. O \in SUBSET Orders
    BY <1>o
  <2>. HIDE DEF O
  <2>3. PICK P \in SUBSET Orders : P = O
    BY <2>2
  <2>4. \A q \in P \ crossed' : \A h \in Markers : q \notin Holds(h)
    BY <1>m, <2>1, <2>3 DEF HeldInv
  <2>5. "EM_REPASSE" \in Statuses \ {"ATRASADO"}
    BY DEF Statuses
  <2>6. Settles
    BY <1>v, <2>1, <2>3, <2>4, <2>5
  <2>. QED  BY <1>2, <2>1, <2>6
<1>14. CASE PayoutSkip
  BY <1>2, <1>c, <1>14 DEF PayoutSkip, notes, orders, history
<1>15. CASE PayoutFails
  <2>1. UNCHANGED <<status, told, day, crossed>>
    BY <1>15 DEF PayoutFails, notes, orders
  <2>2. CASE Finish("webhook")
    BY <1>2, <1>c, <2>1, <2>2
  <2>3. CASE ~Finish("webhook")
    <3>. DEFINE k == <<"payout_failed">>
                t == [task["webhook"] EXCEPT !.op = "row", !.kinds = k]
    <3>1. Continue("webhook", t)
      BY <1>15, <2>3 DEF PayoutFails, Admins
    <3>. HIDE DEF k
    <3>2. t.op = "row" /\ t.todo = task["webhook"].todo /\ t.kinds = k
      BY <1>s, Edits
    <3>3. Yet(t) \cap LateKind = {}
      <4>1. Yet(t) = {"payout_failed"}
        BY <3>2, OneTwo DEF Yet, k
      <4>. QED  BY <4>1 DEF LateKind
    <3>. HIDE DEF t
    <3>4. HeldBy("webhook", t) \subseteq Holds("webhook")
      BY <3>2 DEF HeldBy, Holds
    <3>. QED  BY <1>3, <1>c, <2>1, <3>1, <3>3, <3>4
  <2>. QED  BY <2>2, <2>3
<1>16. CASE StartWithdraw \/ StartRemind \/ RemindOn
  <2>1. PICK h \in {"withdraw", "remind"} : \E t : Continue(h, t)
    BY <1>16, Zenon DEF StartWithdraw, StartRemind, RemindOn, Finish
  <2>2. UNCHANGED <<status, told, day, crossed>>
    BY <1>16 DEF StartWithdraw, StartRemind, RemindOn, notes, history, orders
  <2>3. h \notin Markers
    BY DEF Markers
  <2>. QED  BY <1>3, <1>c, <2>1, <2>2, <2>3
<1>17. CASE Withdraw
  BY <1>2, <1>c, <1>17 DEF Withdraw, notes, history, orders
<1>18. CASE Deactivate \/ Reactivate \/ Tick \/ UNCHANGED vars
  BY <1>1, <1>c, <1>18
     DEF Deactivate, Reactivate, Tick, handling, notes, history, orders, vars
<1>19. ASSUME NEW n \in DOMAIN queue, MailSent(n) \/ MailFails(n)
       PROVE  OnceInv' /\ DueInv'
  BY <1>1, <1>c, <1>19 DEF MailSent, MailFails, handling, history, orders
<1>20. ASSUME NEW c \in Crons, Miss(c) PROVE OnceInv' /\ DueInv'
  BY <1>1, <1>c, <1>20 DEF Miss, notes, history, orders
<1>21. CASE Creates
  <2>1. PICK S \in SUBSET Orders : \E f : Create(S, f)
    BY <1>21 DEF Creates
  <2>2. /\ UNCHANGED <<task, told, crossed, day>>
        /\ \A q \in Orders : status'[q] = IF q \in S THEN "PENDENTE"
                                          ELSE status[q]
    BY <2>1 DEF Create, handling, notes
  <2>3. "PENDENTE" \in Open /\ "PENDENTE" \in Statuses \ {"ATRASADO"}
    BY DEF Open, Statuses
  <2>4. Settles
    BY <1>v, <2>2, <2>3
  <2>. QED  BY <1>1, <2>2, <2>4
<1>22. ASSUME NEW S \in SUBSET Orders, CancelContract(S)
       PROVE  OnceInv' /\ DueInv'
  <2>. DEFINE open == S \cap InStatus("PENDENTE")
  <2>1. /\ \A q \in Orders : status'[q] = IF q \in open THEN "CANCELADO"
                                          ELSE status[q]
        /\ UNCHANGED <<task, told, crossed, day>>
    BY <1>22 DEF CancelContract, notes, handling
  <2>2. open \in SUBSET Orders
    OBVIOUS
  <2>. HIDE DEF open
  <2>o. PICK O \in SUBSET Orders : O = open
    BY <2>2
  <2>3. "CANCELADO" \in Open /\ "CANCELADO" \in Statuses \ {"ATRASADO"}
    BY DEF Open, Statuses
  <2>4. Settles
    BY <1>v, <2>1, <2>o, <2>3
  <2>. QED  BY <1>1, <2>1, <2>4
<1>23. ASSUME NEW o \in Orders, NEW s \in {"CANCELADO", "PENDENTE"},
              status' = [status EXCEPT ![o] = s]
       PROVE  Settles
  <2>1. s \in Open /\ s \in Statuses \ {"ATRASADO"}
    BY DEF Open, Statuses
  <2>2. \A q \in Orders : status'[q] = IF q \in {o} THEN s ELSE status[q]
    BY <1>23, <1>w
  <2>3. {o} \in SUBSET Orders
    OBVIOUS
  <2>. QED  BY <1>v, <2>1, <2>2, <2>3
<1>24. ASSUME NEW o \in Orders, NEW s \in {"CANCELADO", "PENDENTE"},
              Rewrite(o, s)
       PROVE  OnceInv' /\ DueInv'
  BY <1>1, <1>23, <1>24 DEF Rewrite, handling, notes
<1>25. ASSUME NEW o \in Orders, StartRenew(o) PROVE OnceInv' /\ DueInv'
  <2>1. \E t : Continue("renew", t)
    BY <1>25 DEF StartRenew
  <2>2. UNCHANGED <<status, told, day, crossed>>
    BY <1>25 DEF StartRenew, notes, history, orders
  <2>. QED  BY <1>3, <1>c, <2>1, <2>2 DEF Markers
<1>26. CASE RenewWrite
  <2>1. PICK o \in task["renew"].order :
          status' = [status EXCEPT ![o] = "PENDENTE"]
    BY <1>26 DEF RenewWrite
  <2>2. Settles
    BY <1>23, <1>o, <2>1
  <2>3. \E t : Continue("renew", t)
    BY <1>26 DEF RenewWrite
  <2>4. UNCHANGED <<told, day, crossed>>
    BY <1>26 DEF RenewWrite, notes, history
  <2>. QED  BY <1>3, <2>2, <2>3, <2>4 DEF Markers
<1>27. ASSUME NEW o \in Orders, TransferDone(o) \/ TransferFailed(o)
       PROVE  OnceInv' /\ DueInv'
  <2>. DEFINE k == <<"transfer_failed">>
              t == [IdleTask EXCEPT !.op = "row", !.order = {o}, !.kinds = k]
  <2>1. PICK s \in {"PAGO", "RECEBIDO"} : status' = [status EXCEPT ![o] = s]
    BY <1>27, TransferStep
  <2>2. /\ UNCHANGED <<told, day>>
        /\ crossed' = IF \E g \in Handlers : o \in Holds(g)
                      THEN crossed \cup {o} ELSE crossed
    BY <1>27, TransferStep DEF StartTransfer, Settle, notes
  <2>3. UNCHANGED task \/ Continue("webhook", t)
    BY <1>27, TransferStep
  <2>4. Settles
    <3>1. \A q \in Orders : status'[q] = IF q \in {o} THEN s
                                         ELSE status[q]
      BY <1>w, <2>1
    <3>2. \A q \in {o} \ crossed' : \A g \in Markers : q \notin Holds(g)
      BY <1>m, <2>2
    <3>3. s \in Statuses \ {"ATRASADO"} /\ {o} \in SUBSET Orders
      BY DEF Statuses
    <3>. QED  BY <1>v, <3>1, <3>2, <3>3
  <2>. HIDE DEF k
  <2>5. t.op = "row" /\ t.todo = {} /\ t.kinds = k
    BY <1>i, Edits
  <2>. HIDE DEF t
  <2>6. Yet(t) \cap LateKind = {}
    <3>1. Yet(t) = {"transfer_failed"}
      BY <2>5, OneTwo DEF Yet, k
    <3>. QED  BY <3>1 DEF LateKind
  <2>7. HeldBy("webhook", t) = {}
    BY <2>5 DEF HeldBy
  <2>8. crossed \subseteq crossed'
    BY <2>2
  <2>. QED  BY <1>1, <1>3, <2>2, <2>3, <2>4, <2>6, <2>7, <2>8
<1>. QED
  BY <1>4, <1>5, <1>6, <1>7, <1>8, <1>9, <1>10, <1>11, <1>12, <1>13, <1>14,
     <1>15, <1>16, <1>17, <1>18, <1>19, <1>20, <1>21, <1>22, <1>24, <1>25,
     <1>26, <1>27, CreateStep DEF Next

-----------------------------------------------------------------------------
(* The reminders, of a behaviour in which nothing fails.                   *)

\* The crons fire in their order, and work once they have fired.
FiredInv ==
  /\ "remind" \in fired => "sweep" \in fired
  /\ task["remind"].op # "idle" => "remind" \in fired
  /\ task["sweep"].op # "idle" => "sweep" \in fired

\* The loop is yet to remind of an order.
Ahead(o, k) ==
  LET t == task["remind"]
  IN  /\ t.saying = {k}
      /\ o \in t.todo \/ (t.op = "row" /\ o \in t.order)

\* The day of a reminder.
RemindDay(o, k) == IF k = "upcoming" THEN due[o] - 3 ELSE due[o] + 1

\* A loop is at the orders of the day, as far as they were left alone.
AheadInv ==
  \A o \in Orders : Plain(o) =>
    \A k \in Reminders : Ahead(o, k) => day = RemindDay(o, k)

\* What is late is marked by the sweep of the day, or about to be.
SweptInv ==
  \A o \in Orders : Plain(o) /\ <<o, "overdue">> \notin missed =>
    (due[o] < day /\ "sweep" \in fired =>
       status[o] = "ATRASADO" \/ o \in Holds("sweep"))

\* The sweep is over at 8AM.
QuietInv == "remind" \in fired => task["sweep"].op = "idle"

\* The loop that reminds of an order has begun.
Came(o, k) ==
  \/ day > RemindDay(o, k)
  \/ /\ day = RemindDay(o, k)
     /\ "remind" \in fired
     /\ k = "upcoming" \/ task["remind"].saying # {"upcoming"}

\* An order was reminded of, once, when its loop has begun and left it behind;
\* and not before.
TellsInv ==
  \A o \in Orders : Plain(o) =>
    \A k \in Reminders : <<o, k>> \notin missed =>
      told[o, k] = IF Came(o, k) /\ ~Ahead(o, k) THEN 1 ELSE 0

RemindInv ==
  failures = 0 =>
    /\ FiredInv
    /\ AheadInv
    /\ SweptInv
    /\ ~overtaken => QuietInv /\ TellsInv

\* Nothing is told of an order as its reminder.
Unreminded == \A o \in Orders : \A k \in Reminders : Untold(o, k)

\* A step that is neither of the crons nor of the clock.
Aside ==
  /\ UNCHANGED <<day, fired, overtaken>>
  /\ task'["sweep"] = task["sweep"]
  /\ task'["remind"] = task["remind"]
  /\ Unreminded

\* A row tells its order one thing; unless it is the reminders', it reminds
\* of nothing.
LEMMA RowTells ==
  ASSUME TasksOK, RestOK, ShapeInv, NEW h \in Handlers, Row(h)
  PROVE  LET c == Head(task[h].kinds)
         IN  /\ h # "remind" => c \notin Reminders
             /\ \E r \in Orders :
                  /\ task[h].order = {r} /\ r \notin task[h].todo
                  /\ \A o \in Orders : \A k \in Reminders :
                       IF o = r /\ k = c THEN ToldOnce(o, k) ELSE Untold(o, k)
<1>1. task[h].op = "row" /\ Shaped(h, task[h], paid)
  BY DEF Row, At, ShapeInv
<1>2. PICK c : c = Head(task[h].kinds)
  OBVIOUS
<1>3. PICK r \in task[h].order : told' = [told EXCEPT ![<<r, c>>] = @ + 1]
  BY <1>2 DEF Row
<1>4. r \in Orders /\ task[h].order = {r} /\ r \notin task[h].todo
  BY <1>1, <1>3 DEF Shaped
<1>5. h # "remind" => c \notin Reminders
  BY <1>1, <1>2, MessageFacts DEF Shaped
<1>6. ASSUME NEW o \in Orders, NEW k \in Reminders
      PROVE  IF o = r /\ k = c THEN ToldOnce(o, k) ELSE Untold(o, k)
  <2>1. told'[o, k] = IF o = r /\ k = c THEN told[o, k] + 1 ELSE told[o, k]
    BY <1>3 DEF RestOK, Reminders, Kinds
  <2>. QED  BY <2>1, Zenon DEF ToldOnce, Untold
<1>. QED  BY <1>2, <1>4, <1>5, <1>6

LEMMA AsideStep ==
  ASSUME TasksOK, RestOK, ShapeInv, [Next]_vars, failures' = 0
  PROVE  /\ failures = 0
         /\ \/ Aside
            \/ StartSweep \/ StartRemind \/ RemindOn \/ Tick
            \/ \E h \in Crons : Pick(h) \/ Row(h) \/ Mail(h)
            \/ Mark("sweep")
<1>f. failures \in Nat
  BY NoticesAssumption DEF RestOK
<1>s. \A h \in Handlers : Shaped(h, task[h], paid)
  BY DEF ShapeInv
<1>h. Handlers = {"sweep", "webhook", "cash", "renew", "withdraw", "remind"}
  BY DEF Handlers
<1>u. ASSUME UNCHANGED told PROVE Unreminded
  BY <1>u, Zenon DEF Unreminded, Untold
<1>1. ASSUME UNCHANGED <<day, fired, overtaken, told>>,
             \/ UNCHANGED task
             \/ \E h \in Handlers \ Crons : Finish(h) \/ \E t : Continue(h, t)
      PROVE  Aside
  <2>1. \A g \in Crons : task'[g] = task[g]
    BY <1>1, <1>h DEF Finish, Continue, TasksOK, Crons
  <2>. QED  BY <1>1, <1>u, <2>1 DEF Aside, Crons
<1>2. ASSUME NEW o \in Orders,
             \/ StartWebhook(o) \/ StartPayment(o) \/ StartCash(o)
             \/ StartRenew(o)
      PROVE  Aside /\ failures = 0
  <2>1. \E h \in {"webhook", "cash", "renew"} : \E t : Continue(h, t)
    BY <1>2, Zenon
       DEF StartWebhook, StartPayment, StartCash, StartRenew, Report
  <2>. QED
    BY <1>1, <1>2, <1>h, <2>1
       DEF StartWebhook, StartPayment, StartCash, StartRenew, Report, bounds,
           notes, history, Crons
<1>3. ASSUME NEW h \in Handlers \ Crons, Pick(h) PROVE Aside /\ failures = 0
  <2>1. Finish(h) \/ \E t : Continue(h, t)
    BY <1>3 DEF Pick
  <2>. QED  BY <1>1, <1>3, <2>1 DEF Pick, bounds, notes, history
<1>4. ASSUME NEW h \in Handlers \ Crons, Mark(h) \/ PayWrite(h)
      PROVE  Aside /\ failures = 0
  <2>1. Finish(h) \/ \E t : Continue(h, t)
    BY <1>4, Zenon DEF Mark, PayWrite
  <2>. QED  BY <1>1, <1>4, <2>1 DEF Mark, PayWrite, bounds, notes, history
<1>5. ASSUME NEW h \in Handlers \ Crons, Row(h) PROVE Aside /\ failures = 0
  <2>1. \A g \in Crons : task'[g] = task[g]
    BY <1>5, <1>h DEF Row, Continue, TasksOK, Crons
  <2>2. Unreminded
    BY <1>5, RowTells DEF Crons, Unreminded
  <2>. QED  BY <1>5, <2>1, <2>2 DEF Aside, Row, bounds, Crons
<1>6. ASSUME NEW h \in Handlers \ Crons, Mail(h) PROVE Aside /\ failures = 0
  <2>1. \E t : Continue(h, t)
    BY <1>6 DEF Mail
  <2>. QED  BY <1>1, <1>6, <2>1 DEF Mail, bounds, history
<1>7. ~\E h \in Crons : PayWrite(h)
  BY <1>s, <1>h DEF PayWrite, At, Shaped, OpsOf, Crons
<1>8. ~Mark("remind")
  BY <1>s, <1>h DEF Mark, At, Shaped, OpsOf
<1>9. ASSUME NEW h \in Handlers, Crash(h) PROVE FALSE
  BY <1>9, <1>f DEF Crash
<1>10. CASE PayoutDone \/ PayoutSkip
  BY <1>1, <1>10, <1>h
     DEF PayoutDone, PayoutSkip, bounds, notes, history, Crons
<1>11. CASE PayoutFails
  <2>1. failures = 0
    BY <1>11, <1>f DEF PayoutFails, Refused
  <2>2. Finish("webhook") \/ \E t : Continue("webhook", t)
    BY <1>11 DEF PayoutFails
  <2>. QED  BY <1>1, <1>11, <1>h, <2>1, <2>2 DEF PayoutFails, notes, Crons
<1>12. CASE StartWithdraw \/ Withdraw
  BY <1>1, <1>12, <1>h
     DEF StartWithdraw, Withdraw, bounds, notes, history, Crons
<1>13. CASE Deactivate \/ Reactivate \/ UNCHANGED vars
  BY <1>1, <1>13
     DEF Deactivate, Reactivate, handling, bounds, notes, history, vars
<1>14. ASSUME NEW n \in DOMAIN queue, MailSent(n) PROVE Aside /\ failures = 0
  BY <1>1, <1>14 DEF MailSent, handling, bounds, history
<1>15. ASSUME NEW n \in DOMAIN queue, MailFails(n) PROVE FALSE
  BY <1>15, <1>f DEF MailFails
<1>16. ASSUME NEW c \in Crons, Miss(c) PROVE FALSE
  BY <1>16, <1>f DEF Miss
<1>17. StartSweep \/ StartRemind \/ RemindOn \/ Tick => failures = 0
  BY SMTT(30) DEF StartSweep, StartRemind, RemindOn, Tick, bounds
<1>18. ASSUME NEW h \in Crons, Pick(h) \/ Mark(h) \/ Row(h) \/ Mail(h)
       PROVE  failures = 0
  BY <1>18 DEF Pick, Mark, Row, Mail, bounds
<1>19. CASE Creates
  BY <1>1, <1>19 DEF Creates, Create, handling, notes, bounds
<1>20. ASSUME NEW S \in SUBSET Orders, CancelContract(S)
       PROVE  Aside /\ failures = 0
  BY <1>1, <1>20 DEF CancelContract, handling, notes, bounds
<1>21. ASSUME NEW o \in Orders, NEW s, Rewrite(o, s)
       PROVE  Aside /\ failures = 0
  BY <1>1, <1>21 DEF Rewrite, handling, notes
<1>22. CASE RenewWrite
  <2>1. \E t : Continue("renew", t)
    BY <1>22 DEF RenewWrite
  <2>. QED  BY <1>1, <1>22, <1>h, <2>1 DEF RenewWrite, notes, history, Crons
<1>23. ASSUME NEW o \in Orders, TransferDone(o) \/ TransferFailed(o)
       PROVE  Aside /\ failures = 0
  <2>1. UNCHANGED task \/ \E t : Continue("webhook", t)
    BY <1>23, TransferStep
  <2>2. StartTransfer(o)
    BY <1>23, TransferStep
  <2>. QED  BY <1>1, <1>h, <2>1, <2>2 DEF StartTransfer, notes, Crons
<1>. QED
  BY <1>2, <1>3, <1>4, <1>5, <1>6, <1>7, <1>8, <1>9, <1>10, <1>11, <1>12,
     <1>13, <1>14, <1>15, <1>16, <1>17, <1>18, <1>19, <1>20, <1>21, <1>22,
     <1>23, CreateStep DEF Next, Crons

\* The sweep goes on: what it held, it still holds, or has marked.
LEMMA SweepGoes ==
  ASSUME TasksOK, RestOK, ShapeInv,
         Pick("sweep") \/ Mark("sweep") \/ Row("sweep") \/ Mail("sweep")
  PROVE  /\ UNCHANGED <<day, fired, overtaken>>
         /\ task["sweep"].op # "idle"
         /\ task'["remind"] = task["remind"]
         /\ Unreminded
         /\ \A o \in Holds("sweep") :
              o \in Holds("sweep")' \/ status'[o] = "ATRASADO"
<1>s. Shaped("sweep", task["sweep"], paid) /\ task["sweep"] \in Tasks
  BY DEF ShapeInv, TasksOK, Handlers
<1>h. "sweep" \in Handlers /\ "remind" \in Handlers
  BY DEF Handlers
<1>1. /\ UNCHANGED <<day, fired, overtaken>>
      /\ task["sweep"].op # "idle"
  BY DEF Pick, Mark, Row, Mail, At, history, orders
<1>2. task'["remind"] = task["remind"]
  <2>1. Finish("sweep") \/ \E t : Continue("sweep", t)
    BY DEF Pick, Mark, Row, Mail
  <2>. QED  BY <1>h, <2>1 DEF Finish, Continue, TasksOK
<1>3. Unreminded
  <2>1. CASE Row("sweep")
    BY <1>h, <2>1, RowTells DEF Unreminded
  <2>2. CASE ~Row("sweep")
    <3>1. UNCHANGED told
      BY <2>2 DEF Pick, Mark, Mail, notes
    <3>. QED  BY <3>1, Zenon DEF Unreminded, Untold
  <2>. QED  BY <2>1, <2>2
<1>4. \A o \in Holds("sweep") :
        o \in Holds("sweep")' \/ status'[o] = "ATRASADO"
  <2>1. CASE Pick("sweep")
    <3>1. CASE task["sweep"].todo = {}
      BY <2>1, <3>1 DEF Pick, Holds, At
    <3>2. CASE task["sweep"].todo # {}
      <4>1. PICK o \in task["sweep"].todo :
              Continue("sweep",
                [[task["sweep"] EXCEPT !.todo = @ \ {o}, !.order = {o}]
                   EXCEPT !.op = "mark"])
        BY <2>1, <3>2 DEF Pick
      <4>. DEFINE t == [task["sweep"] EXCEPT !.todo = @ \ {o}, !.order = {o}]
                  u == [t EXCEPT !.op = "mark"]
      <4>2. /\ t \in Tasks /\ t.todo = task["sweep"].todo \ {o}
            /\ t.order = {o}
        BY <1>s, <4>1, ZenonT(60) DEF Tasks
      <4>3. Continue("sweep", u)
        BY <4>1
      <4>. HIDE DEF t
      <4>4. u.op = "mark" /\ u.todo = t.todo /\ u.order = t.order
        BY <4>2, Edits
      <4>. HIDE DEF u
      <4>5. Holds("sweep")' = task["sweep"].todo \cup {o}
        BY <1>h, <4>2, <4>3, <4>4, Turn DEF HeldBy
      <4>6. task["sweep"].op = "pick"
        BY <2>1 DEF Pick, At
      <4>. QED  BY <4>5, <4>6 DEF Holds, At
    <3>. QED  BY <3>1, <3>2
  <2>2. CASE Mark("sweep")
    <3>1. PICK o \in task["sweep"].order :
            /\ status' = [status EXCEPT ![o] = "ATRASADO"]
            /\ Continue("sweep",
                 [task["sweep"] EXCEPT !.op = "row", !.kinds = LateKinds(o)])
      BY <2>2 DEF Mark
    <3>2. task["sweep"].op = "mark" /\ task["sweep"].order = {o}
      BY <1>s, <2>2, <3>1 DEF Mark, At, Shaped
    <3>. DEFINE t == [task["sweep"] EXCEPT !.op = "row",
                                           !.kinds = LateKinds(o)]
    <3>3. t.op = "row" /\ t.todo = task["sweep"].todo
      BY <1>s, Edits
    <3>4. Continue("sweep", t)
      BY <3>1
    <3>. HIDE DEF t
    <3>5. Holds("sweep")' = task["sweep"].todo
      <4>1. Holds("sweep")' = HeldBy("sweep", t)
        BY <1>h, <3>4, Turn
      <4>. QED  BY <3>3, <4>1 DEF HeldBy
    <3>6. Holds("sweep") = task["sweep"].todo \cup {o}
      BY <3>2 DEF Holds, At
    <3>7. o \in Orders /\ status'[o] = "ATRASADO"
      BY <1>h, <3>1, TaskOrders DEF RestOK, OrdersOK
    <3>. QED  BY <3>5, <3>6, <3>7
  <2>3. CASE Row("sweep")
    <3>. DEFINE t == [task["sweep"] EXCEPT !.op = "mail"]
    <3>1. t.op = "mail" /\ t.todo = task["sweep"].todo
      BY <1>s, Edits
    <3>2. Continue("sweep", t) /\ task["sweep"].op = "row"
      BY <2>3 DEF Row, At
    <3>. HIDE DEF t
    <3>3. Holds("sweep")' = task["sweep"].todo
      BY <1>h, <3>1, <3>2, Turn DEF HeldBy
    <3>. QED  BY <3>2, <3>3 DEF Holds, At
  <2>4. CASE Mail("sweep")
    <3>1. PICK t : /\ Continue("sweep", t)
                   /\ t.op \notin {"mark", "renew"}
                   /\ t.todo = task["sweep"].todo
      <4>1. CASE Len(task["sweep"].kinds) > 1
        <5>. DEFINE t == [task["sweep"] EXCEPT
                            !.op = "row", !.kinds = Tail(task["sweep"].kinds)]
        <5>1. Continue("sweep", t)
          BY <2>4, <4>1 DEF Mail
        <5>2. t.op = "row" /\ t.todo = task["sweep"].todo
          BY <1>s, Edits
        <5>3. t.op \notin {"mark", "renew"}
          BY <5>2
        <5>. HIDE DEF t
        <5>. QED  BY <5>1, <5>2, <5>3
      <4>2. CASE ~(Len(task["sweep"].kinds) > 1)
        <5>1. Continue("sweep", AfterNotices("sweep"))
          BY <2>4, <4>2 DEF Mail
        <5>2. /\ AfterNotices("sweep").op \notin {"mark", "renew"}
              /\ AfterNotices("sweep").todo = task["sweep"].todo
          BY <1>s, Edits DEF AfterNotices
        <5>. QED  BY <5>1, <5>2
      <4>. QED  BY <4>1, <4>2
    <3>2. Holds("sweep")' = task["sweep"].todo /\ task["sweep"].op = "mail"
      <4>1. Holds("sweep")' = HeldBy("sweep", t)
        BY <1>h, <3>1, Turn
      <4>. QED  BY <2>4, <3>1, <4>1 DEF HeldBy, Mail, At
    <3>. QED  BY <3>2 DEF Holds, At
  <2>. QED  BY <2>1, <2>2, <2>3, <2>4
<1>. QED  BY <1>1, <1>2, <1>3, <1>4

\* The loop of the reminders goes on: only a row tells anything, and it leaves
\* the order that it tells of behind.
LEMMA RemindGoes ==
  ASSUME TasksOK, RestOK, ShapeInv,
         Pick("remind") \/ Row("remind") \/ Mail("remind")
  PROVE  /\ UNCHANGED <<day, fired, overtaken>>
         /\ task["remind"].op # "idle"
         /\ task'["sweep"] = task["sweep"]
         /\ task'["remind"].saying = task["remind"].saying
         /\ \A o \in Orders : \A k \in Reminders :
              \/ Untold(o, k) /\ (Ahead(o, k)' <=> Ahead(o, k))
              \/ ToldOnce(o, k) /\ Ahead(o, k) /\ ~Ahead(o, k)'
<1>s. Shaped("remind", task["remind"], paid) /\ task["remind"] \in Tasks
  BY DEF ShapeInv, TasksOK, Handlers
<1>h. "sweep" \in Handlers /\ "remind" \in Handlers
  BY DEF Handlers
<1>1. /\ UNCHANGED <<day, fired, overtaken>>
      /\ task["remind"].op # "idle"
  BY DEF Pick, Row, Mail, At, history, orders
<1>2. ASSUME NEW t, Continue("remind", t),
             t.saying = task["remind"].saying
      PROVE  /\ task'["sweep"] = task["sweep"]
             /\ task'["remind"].saying = task["remind"].saying
             /\ \A o, k : Ahead(o, k)' <=>
                  /\ t.saying = {k}
                  /\ o \in t.todo \/ (t.op = "row" /\ o \in t.order)
  <2>1. task'["sweep"] = task["sweep"] /\ task'["remind"] = t
    BY <1>h, <1>2, Turn
  <2>. QED  BY <1>2, <2>1 DEF Ahead
<1>3. CASE Pick("remind")
  <2>p. PICK o \in task["remind"].todo :
          \E k : Continue("remind",
                   [[task["remind"] EXCEPT !.todo = @ \ {o}, !.order = {o}]
                      EXCEPT !.op = "row", !.kinds = k])
    BY <1>3 DEF Pick
  <2>1. PICK k :
          Continue("remind",
            [[task["remind"] EXCEPT !.todo = @ \ {o}, !.order = {o}]
               EXCEPT !.op = "row", !.kinds = k])
    BY <2>p
  <2>. DEFINE t == [task["remind"] EXCEPT !.todo = @ \ {o}, !.order = {o}]
              u == [t EXCEPT !.op = "row", !.kinds = k]
  <2>2. /\ t \in Tasks /\ t.todo = task["remind"].todo \ {o}
        /\ t.order = {o} /\ t.saying = task["remind"].saying
    BY <1>s, <2>1, ZenonT(60) DEF Tasks
  <2>3. Continue("remind", u)
    BY <2>1
  <2>. HIDE DEF t
  <2>4. /\ u.op = "row" /\ u.todo = t.todo /\ u.order = t.order
        /\ u.saying = t.saying
    BY <2>2, Edits
  <2>. HIDE DEF u
  <2>5. task["remind"].op = "pick" /\ told' = told
    BY <1>3 DEF Pick, At, notes
  <2>6. \A q, m : Ahead(q, m)' <=> Ahead(q, m)
    <3>. TAKE q, m
    <3>1. Ahead(q, m)' <=> /\ u.saying = {m}
                           /\ q \in u.todo \/ (u.op = "row" /\ q \in u.order)
      BY <1>2, <2>2, <2>3, <2>4
    <3>2. u.todo \cup u.order = task["remind"].todo
      BY <2>1, <2>2, <2>4
    <3>3. Ahead(q, m) <=> u.saying = {m} /\ q \in task["remind"].todo
      BY <2>2, <2>4, <2>5 DEF Ahead
    <3>. QED  BY <2>4, <3>1, <3>2, <3>3
  <2>7. \A q \in Orders : \A m \in Reminders : Untold(q, m)
    BY <2>5, Zenon DEF Untold
  <2>. QED  BY <1>1, <1>2, <2>2, <2>3, <2>4, <2>6, <2>7
<1>4. CASE Row("remind")
  <2>. DEFINE t == [task["remind"] EXCEPT !.op = "mail"]
  <2>1. /\ t.op = "mail" /\ t.todo = task["remind"].todo
        /\ t.saying = task["remind"].saying
    BY <1>s, Edits
  <2>2. Continue("remind", t) /\ task["remind"].op = "row"
    BY <1>4 DEF Row, At
  <2>. HIDE DEF t
  <2>3. PICK c \in Reminders :
          task["remind"].saying = {c} /\ task["remind"].kinds = <<c>>
    BY <1>s, <2>2 DEF Shaped
  <2>4. Head(task["remind"].kinds) = c
    BY <2>3
  <2>5. PICK r \in Orders :
          /\ task["remind"].order = {r} /\ r \notin task["remind"].todo
          /\ \A o \in Orders : \A k \in Reminders :
               IF o = r /\ k = Head(task["remind"].kinds)
               THEN ToldOnce(o, k) ELSE Untold(o, k)
    BY <1>4, <1>h, RowTells
  <2>6. \A o, k : Ahead(o, k) <=>
          k = c /\ (o \in task["remind"].todo \/ o = r)
    BY <2>2, <2>3, <2>5 DEF Ahead
  <2>7. \A o, k : Ahead(o, k)' <=> k = c /\ o \in task["remind"].todo
    <3>1. \A o, k : Ahead(o, k)' <=> t.saying = {k} /\ o \in t.todo
      BY <1>2, <2>1, <2>2
    <3>. QED  BY <2>1, <2>3, <3>1
  <2>8. ASSUME NEW o \in Orders, NEW k \in Reminders
        PROVE  \/ Untold(o, k) /\ (Ahead(o, k)' <=> Ahead(o, k))
               \/ ToldOnce(o, k) /\ Ahead(o, k) /\ ~Ahead(o, k)'
    <3>1. CASE o = r /\ k = c
      BY <2>4, <2>5, <2>6, <2>7, <3>1
    <3>2. CASE ~(o = r /\ k = c)
      <4>1. Untold(o, k)
        BY <2>4, <2>5, <3>2
      <4>2. Ahead(o, k)' <=> Ahead(o, k)
        BY <2>6, <2>7, <3>2, Zenon
      <4>. QED  BY <4>1, <4>2
    <3>. QED  BY <3>1, <3>2
  <2>. QED  BY <1>1, <1>2, <2>1, <2>2, <2>8
<1>5. CASE Mail("remind")
  <2>1. task["remind"].op = "mail" /\ told' = told
    BY <1>5 DEF Mail, At
  <2>2. ~(Len(task["remind"].kinds) > 1)
    <3>1. PICK c \in Reminders : task["remind"].kinds = <<c>>
      BY <1>s, <2>1 DEF Shaped
    <3>. QED  BY <3>1
  <2>. DEFINE t == [task["remind"] EXCEPT !.op = "pick", !.kinds = <<>>,
                                          !.order = {}]
  <2>3. Continue("remind", t)
    BY <1>5, <2>2 DEF Mail, AfterNotices
  <2>4. /\ t.op = "pick" /\ t.todo = task["remind"].todo
        /\ t.saying = task["remind"].saying
    BY <1>s, Edits
  <2>. HIDE DEF t
  <2>5. \A o, k : Ahead(o, k)' <=> Ahead(o, k)
    <3>1. \A o, k : Ahead(o, k)' <=> t.saying = {k} /\ o \in t.todo
      BY <1>2, <2>3, <2>4
    <3>2. \A o, k : Ahead(o, k) <=> t.saying = {k} /\ o \in t.todo
      BY <2>1, <2>4 DEF Ahead
    <3>. QED  BY <3>1, <3>2, Zenon
  <2>6. \A o \in Orders : \A k \in Reminders : Untold(o, k)
    BY <2>1, Zenon DEF Untold
  <2>. QED  BY <1>1, <1>2, <2>3, <2>4, <2>5, <2>6
<1>. QED  BY <1>3, <1>4, <1>5


\* A plain order was plain before, unless it is made; its days are the same.
LEMMA PlainKept ==
  ASSUME OrdersGo, NoneMade, NEW o \in Orders, Plain(o)'
  PROVE  /\ Plain(o)
         /\ due'[o] = due[o]
         /\ status[o] = "ATRASADO" => status'[o] = "ATRASADO"
         /\ \A k : <<o, k>> \in missed' <=> <<o, k>> \in missed
         /\ \A k : RemindDay(o, k)' = RemindDay(o, k)
<1>1. There(o)
  BY DEF NoneMade, Plain
<1>2. OrderGoes(o)
  BY DEF OrdersGo
<1>3. /\ Plain(o)
      /\ due'[o] = due[o]
      /\ status[o] = "ATRASADO" => status'[o] = "ATRASADO"
      /\ \A k : <<o, k>> \in missed' <=> <<o, k>> \in missed
  BY <1>1, <1>2, Zenon DEF OrderGoes
<1>. QED  BY <1>3 DEF RemindDay

\* A plain order is open or late.
LEMMA PlainStatus ==
  ASSUME StatusInv, NEW o \in Orders, Plain(o)
  PROVE  status[o] \in {"PENDENTE", "ATRASADO"}
  BY DEF StatusInv, Plain, There

\* What is swept stays so while the day and its crons are the same.
LEMMA SweptKept ==
  ASSUME OrdersGo, NoneMade, SweptInv, day' = day,
         "sweep" \in fired' => "sweep" \in fired,
         \A o \in Holds("sweep") :
           o \in Holds("sweep")' \/ status'[o] = "ATRASADO"
  PROVE  SweptInv'
<1>. SUFFICES ASSUME NEW o \in Orders, Plain(o)',
                     <<o, "overdue">> \notin missed',
                     due'[o] < day', "sweep" \in fired'
              PROVE  status'[o] = "ATRASADO" \/ o \in Holds("sweep")'
  BY DEF SweptInv
<1>1. /\ Plain(o) /\ due'[o] = due[o] /\ <<o, "overdue">> \notin missed
      /\ status[o] = "ATRASADO" => status'[o] = "ATRASADO"
  BY PlainKept
<1>2. status[o] = "ATRASADO" \/ o \in Holds("sweep")
  BY <1>1 DEF SweptInv
<1>. QED  BY <1>1, <1>2

\* What was told stays right while as much has come.
LEMMA TellsKept ==
  ASSUME OrdersGo, NoneMade, TellsInv,
         \A o \in Orders : Plain(o)' =>
           \A k \in Reminders : <<o, k>> \notin missed' =>
             /\ Untold(o, k)
             /\ (Came(o, k)' /\ ~Ahead(o, k)') <=> (Came(o, k) /\ ~Ahead(o, k))
  PROVE  TellsInv'
<1>. SUFFICES ASSUME NEW o \in Orders, Plain(o)', NEW k \in Reminders,
                     <<o, k>> \notin missed'
              PROVE  told'[o, k] = IF Came(o, k)' /\ ~Ahead(o, k)' THEN 1
                                   ELSE 0
  BY DEF TellsInv
<1>0. Plain(o) /\ <<o, k>> \notin missed
  BY PlainKept
<1>1. told[o, k] = IF Came(o, k) /\ ~Ahead(o, k) THEN 1 ELSE 0
  BY <1>0, Zenon DEF TellsInv
<1>2. told'[o, k] = told[o, k]
  BY Zenon DEF Untold
<1>3. (Came(o, k)' /\ ~Ahead(o, k)') <=> (Came(o, k) /\ ~Ahead(o, k))
  OBVIOUS
<1>4. CASE Came(o, k) /\ ~Ahead(o, k)
  BY <1>1, <1>2, <1>3, <1>4, Zenon
<1>5. CASE ~(Came(o, k) /\ ~Ahead(o, k))
  BY <1>1, <1>2, <1>3, <1>5, Zenon
<1>. QED  BY <1>4, <1>5

\* An order that is made too late for a reminder has missed it, and none is
\* ahead of any other.
LEMMA CreatedReminds ==
  ASSUME RestOK, AbsentInv, Creates, FiredInv, AheadInv, SweptInv
  PROVE  /\ FiredInv' /\ AheadInv' /\ SweptInv'
         /\ QuietInv /\ TellsInv => QuietInv' /\ TellsInv'
<1>1. PICK S \in SUBSET Orders :
        \E f : Create(S, f) /\ \A o \in S : f[o] \in Nat
  BY DEF Creates
<1>2. PICK f : Create(S, f) /\ \A o \in S : f[o] \in Nat
  BY <1>1
<1>3. /\ UNCHANGED <<day, fired, task, told, renewed, paid, cancelled>>
      /\ \A o \in S : ~There(o)
  BY <1>2 DEF Create, handling, notes, bounds, InStatus, There
<1>4. /\ \A o \in Orders : status'[o] = IF o \in S THEN "PENDENTE"
                                        ELSE status[o]
      /\ \A o \in Orders : due'[o] = IF o \in S THEN f[o] ELSE due[o]
  BY <1>2 DEF Create
<1>5. /\ \A o \in Orders \ S : \A k :
           <<o, k>> \in missed' <=> <<o, k>> \in missed
      /\ \A o \in S : \A k \in Reminders :
           <<o, k>> \notin missed' => ~Passed(k, f[o])
  BY <1>2 DEF Create
<1>6. FiredInv'
  BY <1>3 DEF FiredInv
<1>7. QuietInv => QuietInv'
  BY <1>3 DEF QuietInv
<1>8. Holds("sweep")' = Holds("sweep")
  BY <1>3 DEF Holds, At
<1>9. \A o, k : Ahead(o, k)' <=> Ahead(o, k)
  BY <1>3 DEF Ahead
<1>10. \A o \in S : \A k : ~Ahead(o, k)
  BY <1>3 DEF Ahead, AbsentInv, Handlers
<1>11. \A o \in Orders \ S : Plain(o)' <=> Plain(o)
  BY <1>3, <1>4 DEF Plain, There
<1>12. \A o \in Orders \ S : \A k : RemindDay(o, k)' = RemindDay(o, k)
  BY <1>4 DEF RemindDay
<1>13. \A o \in Orders \ S : \A k : Came(o, k)' <=> Came(o, k)
  BY <1>3, <1>12 DEF Came
<1>d. day \in Nat
  BY NoticesAssumption DEF RestOK
<1>14. AheadInv'
  <2>1. ASSUME NEW o \in Orders, Plain(o)', NEW k \in Reminders, Ahead(o, k)'
        PROVE  day' = RemindDay(o, k)'
    <3>1. o \notin S /\ Ahead(o, k)
      BY <1>9, <1>10, <2>1
    <3>2. Plain(o)
      BY <1>11, <2>1, <3>1
    <3>3. day = RemindDay(o, k)
      BY <3>1, <3>2 DEF AheadInv
    <3>. QED  BY <1>3, <1>12, <3>1, <3>3
  <2>. QED  BY <2>1 DEF AheadInv
<1>15. SweptInv'
  <2>. SUFFICES ASSUME NEW o \in Orders, Plain(o)',
                       <<o, "overdue">> \notin missed',
                       due'[o] < day', "sweep" \in fired'
                PROVE  status'[o] = "ATRASADO" \/ o \in Holds("sweep")'
    BY DEF SweptInv
  <2>1. CASE o \in S
    <3>1. ~Passed("overdue", f[o])
      BY <1>5, <2>1 DEF Reminders
    <3>2. f[o] \in Nat /\ f[o] < day
      BY <1>2, <1>3, <1>4, <2>1
    <3>3. day > f[o] + 1 \/ day = f[o] + 1
      BY <1>d, <3>2
    <3>. QED  BY <1>3, <3>1, <3>3 DEF Passed
  <2>2. CASE o \notin S
    BY <1>3, <1>4, <1>5, <1>8, <1>11, <2>2 DEF SweptInv
  <2>. QED  BY <2>1, <2>2
<1>16. ASSUME TellsInv PROVE TellsInv'
  <2>. SUFFICES ASSUME NEW o \in Orders, Plain(o)', NEW k \in Reminders,
                       <<o, k>> \notin missed'
                PROVE  told'[o, k] = IF Came(o, k)' /\ ~Ahead(o, k)' THEN 1
                                     ELSE 0
    BY DEF TellsInv
  <2>1. CASE o \in S
    <3>1. ~Passed(k, f[o])
      BY <1>5, <2>1
    <3>2. RemindDay(o, k)' = IF k = "upcoming" THEN f[o] - 3 ELSE f[o] + 1
      BY <1>4, <2>1 DEF RemindDay
    <3>3. ~Came(o, k)'
      BY <1>3, <1>6, <3>1, <3>2 DEF Came, Passed, FiredInv
    <3>4. told[o, k] = 0
      <4>1. k \in Kinds
        BY DEF Kinds
      <4>. QED  BY <1>3, <2>1, <4>1, Zenon DEF AbsentInv
    <3>. QED  BY <1>3, <3>3, <3>4, Zenon
  <2>2. CASE o \notin S
    <3>1. Plain(o) /\ <<o, k>> \notin missed
      BY <1>5, <1>11, <2>2
    <3>2. told[o, k] = IF Came(o, k) /\ ~Ahead(o, k) THEN 1 ELSE 0
      BY <1>16, <3>1, Zenon DEF TellsInv
    <3>3. (Came(o, k)' /\ ~Ahead(o, k)') <=> (Came(o, k) /\ ~Ahead(o, k))
      BY <1>9, <1>13, <2>2
    <3>4. told' = told
      BY <1>3
    <3>5. CASE Came(o, k) /\ ~Ahead(o, k)
      BY <3>2, <3>3, <3>4, <3>5, Zenon
    <3>6. CASE ~(Came(o, k) /\ ~Ahead(o, k))
      BY <3>2, <3>3, <3>4, <3>6, Zenon
    <3>. QED  BY <3>5, <3>6
  <2>. QED  BY <2>1, <2>2
<1>. QED  BY <1>6, <1>7, <1>14, <1>15, <1>16

\* The reminders of an order that is plain, over every step.
LEMMA RemindStep ==
  ASSUME TasksOK, RestOK, ShapeInv, StatusInv, AbsentInv, DueInv, RemindInv,
         [Next]_vars, ShapeInv'
  PROVE  RemindInv'
<1>. SUFFICES ASSUME failures' = 0
              PROVE  /\ FiredInv' /\ AheadInv' /\ SweptInv'
                     /\ ~overtaken' => QuietInv' /\ TellsInv'
  BY DEF RemindInv
<1>f. /\ failures = 0
      /\ \/ Aside
         \/ StartSweep \/ StartRemind \/ RemindOn \/ Tick
         \/ \E h \in Crons : Pick(h) \/ Row(h) \/ Mail(h)
         \/ Mark("sweep")
  BY AsideStep
<1>i. /\ FiredInv /\ AheadInv /\ SweptInv
      /\ ~overtaken => QuietInv /\ TellsInv
  BY <1>f DEF RemindInv
<1>n. StatusInv' /\ OrdersGo /\ (NoneMade \/ Creates)
  BY StatusStep
<1>c. CASE Creates
  <2>1. overtaken' = overtaken
    BY <1>c DEF Creates, Create
  <2>. QED  BY <1>c, <1>i, <2>1, CreatedReminds
<1>. SUFFICES ASSUME NoneMade
              PROVE  /\ FiredInv' /\ AheadInv' /\ SweptInv'
                     /\ ~overtaken' => QuietInv' /\ TellsInv'
  BY <1>c, <1>n
<1>k. ASSUME NEW o \in Orders, Plain(o)'
      PROVE  /\ Plain(o)
             /\ due'[o] = due[o]
             /\ status[o] = "ATRASADO" => status'[o] = "ATRASADO"
             /\ \A k : <<o, k>> \in missed' <=> <<o, k>> \in missed
             /\ \A k : RemindDay(o, k)' = RemindDay(o, k)
  BY <1>n, <1>k, PlainKept
<1>h. "sweep" \in Handlers /\ "remind" \in Handlers /\ "sweep" # "remind"
  BY DEF Handlers
<1>d. /\ day \in Nat /\ fired \subseteq {"sweep", "remind"}
      /\ \A o \in Orders : due[o] \in Nat
  BY NoticesAssumption DEF RestOK, OrdersOK, Crons
<1>z. task["remind"].op = "idle" =>
        \A o, k : ~Ahead(o, k) /\ task["remind"].saying # {"upcoming"}
  <2>1. task["remind"].op = "idle" => task["remind"] = IdleTask
    BY <1>h DEF ShapeInv, Shaped
  <2>2. IdleTask.saying = {}
    BY DEF IdleTask
  <2>. QED  BY <2>1, <2>2 DEF Ahead
<1>y. task["sweep"].op = "idle" => Holds("sweep") = {}
  <2>1. task["sweep"].op = "idle" => task["sweep"] = IdleTask
    BY <1>h DEF ShapeInv, Shaped
  <2>2. IdleTask.todo = {} /\ IdleTask.op = "idle"
    BY DEF IdleTask
  <2>. QED  BY <2>1, <2>2 DEF Holds, At
<1>u. ASSUME UNCHANGED told PROVE Unreminded
  BY <1>u, Zenon DEF Unreminded, Untold
\* With the same crons and the same loop as much has come.
<1>e. ASSUME UNCHANGED <<day, fired>>,
             task'["remind"].saying = task["remind"].saying
      PROVE  \A o \in Orders : Plain(o)' =>
               \A k : Came(o, k)' <=> Came(o, k)
  BY <1>e, <1>k DEF Came
<1>l. ASSUME UNCHANGED <<day, fired, overtaken>>, Unreminded,
             task'["remind"] = task["remind"]
      PROVE  /\ AheadInv'
             /\ ~overtaken' => TellsInv'
  <2>1. \A o, k : Ahead(o, k)' <=> Ahead(o, k)
    BY <1>l DEF Ahead
  <2>2. \A o \in Orders : Plain(o)' => \A k : Came(o, k)' <=> Came(o, k)
    BY <1>e, <1>l
  <2>3. AheadInv'
    <3>1. ASSUME NEW o \in Orders, Plain(o)', NEW k \in Reminders,
                 Ahead(o, k)'
          PROVE  day' = RemindDay(o, k)'
      <4>1. day = RemindDay(o, k)
        BY <1>i, <1>k, <2>1, <3>1 DEF AheadInv
      <4>. QED  BY <1>k, <1>l, <3>1, <4>1
    <3>. QED  BY <3>1 DEF AheadInv
  <2>4. ~overtaken' => TellsInv'
    <3>1. ASSUME NEW o \in Orders, Plain(o)', NEW k \in Reminders
          PROVE  /\ Untold(o, k)
                 /\ (Came(o, k)' /\ ~Ahead(o, k)')
                    <=> (Came(o, k) /\ ~Ahead(o, k))
      <4>1. Untold(o, k)
        BY <1>l DEF Unreminded
      <4>2. (Came(o, k)' <=> Came(o, k)) /\ (Ahead(o, k)' <=> Ahead(o, k))
        BY <2>1, <2>2, <3>1
      <4>. QED  BY <4>1, <4>2, Zenon
    <3>. QED  BY <1>i, <1>l, <1>n, <3>1, TellsKept
  <2>. QED  BY <2>3, <2>4
<1>1. CASE Aside
  <2>1. /\ UNCHANGED <<day, fired, overtaken>>
        /\ task'["sweep"] = task["sweep"]
        /\ task'["remind"] = task["remind"]
        /\ Unreminded
    BY <1>1 DEF Aside
  <2>2. AheadInv' /\ (~overtaken' => TellsInv')
    BY <1>l, <2>1
  <2>3. FiredInv'
    BY <1>i, <2>1 DEF FiredInv
  <2>4. Holds("sweep")' = Holds("sweep")
    BY <2>1 DEF Holds, At
  <2>5. SweptInv'
    BY <1>i, <1>n, <2>1, <2>4, SweptKept
  <2>6. ~overtaken' => QuietInv'
    BY <1>i, <2>1 DEF QuietInv
  <2>. QED  BY <2>2, <2>3, <2>5, <2>6
<1>2. CASE StartSweep
  <2>. DEFINE t == [IdleTask EXCEPT !.op = "pick", !.todo = SweepReads]
  <2>1. /\ "sweep" \notin fired /\ fired' = fired \cup {"sweep"}
        /\ UNCHANGED <<day, overtaken, told, status, due>>
        /\ Continue("sweep", t)
    BY <1>2 DEF StartSweep, Fire, notes, orders
  <2>2. t.todo = SweepReads
    BY DEF IdleTask
  <2>. HIDE DEF t
  <2>3. /\ task'["remind"] = task["remind"]
        /\ Holds("sweep")' = HeldBy("sweep", t)
    BY <1>h, <2>1, Turn
  <2>4. "remind" \notin fired /\ task["remind"].op = "idle"
    BY <1>i, <2>1 DEF FiredInv
  <2>5. FiredInv' /\ QuietInv'
    BY <1>h, <2>1, <2>3, <2>4 DEF FiredInv, QuietInv
  <2>6. \A o, k : ~Ahead(o, k) /\ ~Ahead(o, k)'
    BY <1>z, <2>3, <2>4 DEF Ahead
  <2>7. AheadInv'
    BY <2>6 DEF AheadInv
  <2>8. SweptInv'
    <3>1. SweepReads \subseteq Holds("sweep")'
      BY <1>h, <2>2, <2>3 DEF HeldBy
    <3>2. ASSUME NEW o \in Orders, Plain(o)', due'[o] < day'
          PROVE  status'[o] = "ATRASADO" \/ o \in SweepReads
      BY <1>n, <2>1, <3>2, <1>k, PlainStatus DEF SweepReads, InStatus
    <3>. QED  BY <3>1, <3>2 DEF SweptInv
  <2>9. ~overtaken' => TellsInv'
    <3>1. ASSUME NEW o \in Orders, Plain(o)', NEW k \in Reminders
          PROVE  Came(o, k)' <=> Came(o, k)
      BY <1>k, <2>1, <2>3, <2>4, <3>1 DEF Came
    <3>2. ASSUME NEW o \in Orders, Plain(o)', NEW k \in Reminders
          PROVE  /\ Untold(o, k)
                 /\ (Came(o, k)' /\ ~Ahead(o, k)')
                    <=> (Came(o, k) /\ ~Ahead(o, k))
      <4>1. Untold(o, k)
        BY <1>u, <2>1 DEF Unreminded
      <4>2. /\ Came(o, k)' <=> Came(o, k)
            /\ Ahead(o, k)' <=> Ahead(o, k)
        BY <2>6, <3>1, <3>2
      <4>. QED  BY <4>1, <4>2, Zenon
    <3>. QED  BY <1>i, <1>n, <2>1, <3>2, TellsKept
  <2>. QED  BY <2>5, <2>7, <2>8, <2>9
<1>3. CASE Tick
  <2>1. /\ fired = {"sweep", "remind"} /\ fired' = {} /\ day' = day + 1
        /\ task["sweep"].op = "idle" /\ task["remind"].op = "idle"
        /\ UNCHANGED <<task, overtaken, told>>
    BY <1>3 DEF Tick, Crons, At, notes, history
  <2>2. FiredInv' /\ SweptInv' /\ QuietInv'
    BY <2>1 DEF FiredInv, SweptInv, QuietInv
  <2>3. \A o, k : ~Ahead(o, k) /\ ~Ahead(o, k)'
    BY <1>z, <2>1 DEF Ahead
  <2>4. AheadInv'
    BY <2>3 DEF AheadInv
  <2>5. ASSUME NEW o \in Orders, Plain(o)', NEW k \in Reminders
        PROVE  Came(o, k)' <=> Came(o, k)
    <3>1. RemindDay(o, k) \in Int /\ RemindDay(o, k)' = RemindDay(o, k)
      BY <1>d, <1>k, <2>5 DEF RemindDay
    <3>2. Came(o, k)' <=> day + 1 > RemindDay(o, k)
      BY <2>1, <3>1 DEF Came
    <3>3. Came(o, k) <=> day > RemindDay(o, k) \/ day = RemindDay(o, k)
      BY <1>z, <2>1 DEF Came
    <3>4. day + 1 > RemindDay(o, k)
          <=> day > RemindDay(o, k) \/ day = RemindDay(o, k)
      BY <1>d, <3>1
    <3>. QED  BY <3>2, <3>3, <3>4
  <2>6. ~overtaken' => TellsInv'
    <3>1. ASSUME NEW o \in Orders, Plain(o)', NEW k \in Reminders
          PROVE  /\ Untold(o, k)
                 /\ (Came(o, k)' /\ ~Ahead(o, k)')
                    <=> (Came(o, k) /\ ~Ahead(o, k))
      <4>1. Untold(o, k)
        BY <1>u, <2>1 DEF Unreminded
      <4>2. /\ Came(o, k)' <=> Came(o, k)
            /\ Ahead(o, k)' <=> Ahead(o, k)
        BY <2>3, <2>5, <3>1
      <4>. QED  BY <4>1, <4>2, Zenon
    <3>. QED  BY <1>i, <1>n, <2>1, <3>1, TellsKept
  <2>. QED  BY <2>2, <2>4, <2>6
<1>4. CASE StartRemind
  <2>. DEFINE T == {o \in InStatus("PENDENTE") : due[o] = day + 3}
              t == [IdleTask EXCEPT !.op = "pick", !.saying = {"upcoming"},
                                    !.todo = T]
  <2>1. /\ "remind" \notin fired /\ fired' = fired \cup {"remind"}
        /\ "sweep" \in fired
        /\ UNCHANGED <<day, told, status, due>>
        /\ Continue("remind", t)
        /\ overtaken' = (overtaken \/ ~At("sweep", "idle"))
    BY <1>4 DEF StartRemind, Fire, notes, orders
  <2>2. /\ t.todo = T /\ t.op = "pick" /\ t.saying = {"upcoming"}
    BY DEF IdleTask
  <2>3. /\ \A o \in T : due[o] = day + 3
        /\ \A o \in Orders : due[o] = day + 3 /\ status[o] = "PENDENTE"
             => o \in T
    BY DEF InStatus
  <2>. HIDE DEF t, T
  <2>4. PICK U : U = T
    OBVIOUS
  <2>5. /\ task'["remind"] = t /\ task'["sweep"] = task["sweep"]
        /\ Holds("sweep")' = Holds("sweep")
    BY <1>h, <2>1, Turn
  <2>6. task["remind"].op = "idle"
    BY <1>i, <2>1 DEF FiredInv
  <2>7. FiredInv'
    BY <1>i, <2>1, <2>5 DEF FiredInv
  <2>8. \A o, k : Ahead(o, k)' <=> k = "upcoming" /\ o \in U
    BY <2>2, <2>4, <2>5 DEF Ahead
  <2>9. AheadInv'
    <3>1. ASSUME NEW o \in Orders, Plain(o)', NEW k \in Reminders,
                 Ahead(o, k)'
          PROVE  day' = RemindDay(o, k)'
      <4>1. k = "upcoming" /\ due[o] = day + 3 /\ day' = day
        BY <2>1, <2>3, <2>4, <2>8, <3>1
      <4>2. RemindDay(o, k)' = RemindDay(o, k)
        BY <1>k, <3>1
      <4>. QED  BY <1>d, <4>1, <4>2 DEF RemindDay
    <3>. QED  BY <3>1 DEF AheadInv
  <2>10. SweptInv'
    BY <1>i, <1>n, <2>1, <2>5, SweptKept
  <2>11. ASSUME ~overtaken'
         PROVE  QuietInv' /\ TellsInv'
    <3>1. ~overtaken /\ task["sweep"].op = "idle"
      BY <2>1, <2>11, Zenon DEF At
    <3>2. QuietInv'
      BY <2>5, <3>1 DEF QuietInv
    <3>3. ASSUME NEW o \in Orders, Plain(o)', NEW k \in Reminders
          PROVE  (Came(o, k)' /\ ~Ahead(o, k)')
                 <=> (Came(o, k) /\ ~Ahead(o, k))
      <4>0. RemindDay(o, k) \in Int /\ RemindDay(o, k)' = RemindDay(o, k)
        BY <1>d, <1>k, <3>3 DEF RemindDay
      <4>1. Came(o, k) <=> day > RemindDay(o, k)
        BY <2>1 DEF Came
      <4>2. ~Ahead(o, k)
        BY <1>z, <2>6
      <4>3. CASE k = "overdue"
        <5>1. Came(o, k)' <=> day > RemindDay(o, k)
          BY <2>1, <2>2, <2>5, <4>0, <4>3 DEF Came
        <5>2. ~Ahead(o, k)'
          BY <2>8, <4>3
        <5>. QED  BY <4>1, <4>2, <5>1, <5>2
      <4>4. CASE k = "upcoming"
        <5>1. Came(o, k)' <=> day > RemindDay(o, k) \/ day = RemindDay(o, k)
          BY <2>1, <4>0, <4>4 DEF Came
        <5>2. Ahead(o, k)' <=> o \in U
          BY <2>8, <4>4
        <5>3. o \in U <=> due[o] = day + 3
          <6>1. due[o] = day + 3 => ~(due[o] < day)
            BY <1>d
          <6>2. Plain(o)
            BY <1>k, <3>3
          <6>3. due[o] = day + 3 => status[o] = "PENDENTE"
            BY <6>1, <6>2, PlainStatus DEF DueInv
          <6>. QED  BY <2>3, <2>4, <6>3
        <5>4. due[o] = day + 3 <=> day = RemindDay(o, k)
          BY <1>d, <4>4 DEF RemindDay
        <5>5. day > RemindDay(o, k) => day # RemindDay(o, k)
          BY <1>d, <4>0
        <5>. QED  BY <4>1, <4>2, <5>1, <5>2, <5>3, <5>4, <5>5
      <4>. QED  BY <4>3, <4>4 DEF Reminders
    <3>4. \A o \in Orders : \A k \in Reminders : Untold(o, k)
      BY <1>u, <2>1 DEF Unreminded
    <3>5. TellsInv'
      BY <1>i, <1>n, <3>1, <3>3, <3>4, TellsKept
    <3>. QED  BY <3>2, <3>5
  <2>. QED  BY <2>7, <2>9, <2>10, <2>11
<1>5. CASE RemindOn
  <2>1. /\ UNCHANGED <<day, fired, overtaken, told, status, due>>
        /\ task["remind"].op = "pick" /\ task["remind"].todo = {}
    BY <1>5 DEF RemindOn, At, notes, history, orders
  <2>2. /\ "remind" \in fired /\ "sweep" \in fired
    BY <1>i, <2>1 DEF FiredInv
  <2>3. PICK m \in Reminders : task["remind"].saying = {m}
    BY <1>h, <2>1 DEF ShapeInv, Shaped
  <2>4. \A o, k : ~Ahead(o, k)
    BY <2>1 DEF Ahead
  <2>. DEFINE t == [IdleTask EXCEPT !.op = "pick", !.saying = {"overdue"},
                                    !.todo = OverdueReads]
              u == IF m = "upcoming" THEN t ELSE IdleTask
  <2>5. Continue("remind", u)
    BY <1>5, <2>3 DEF RemindOn, Finish
  <2>6. IF m = "upcoming"
        THEN u.op = "pick" /\ u.saying = {"overdue"} /\ u.todo = OverdueReads
        ELSE u.op = "idle" /\ u.saying = {} /\ u.todo = {}
    BY DEF IdleTask
  <2>. HIDE DEF u
  <2>u. PICK U : U = OverdueReads
    OBVIOUS
  <2>7. /\ task'["remind"] = u /\ task'["sweep"] = task["sweep"]
        /\ Holds("sweep")' = Holds("sweep")
    BY <1>h, <2>5, Turn
  <2>8. FiredInv'
    BY <1>i, <2>1, <2>2, <2>7 DEF FiredInv
  <2>9. \A o, k : Ahead(o, k)' <=>
          m = "upcoming" /\ k = "overdue" /\ o \in U
    BY <2>6, <2>7, <2>u DEF Ahead
  <2>10. \A o \in Orders :
           o \in U <=> status[o] = "ATRASADO" /\ due[o] = day - 1
    BY <2>u DEF OverdueReads, InStatus
  <2>11. AheadInv'
    <3>1. ASSUME NEW o \in Orders, Plain(o)', NEW k \in Reminders,
                 Ahead(o, k)'
          PROVE  day' = RemindDay(o, k)'
      <4>1. k = "overdue" /\ due[o] = day - 1 /\ day' = day
        BY <2>1, <2>9, <2>10, <3>1
      <4>2. RemindDay(o, k)' = RemindDay(o, k)
        BY <1>k, <3>1
      <4>. QED  BY <1>d, <4>1, <4>2 DEF RemindDay
    <3>. QED  BY <3>1 DEF AheadInv
  <2>12. SweptInv'
    BY <1>i, <1>n, <2>1, <2>7, SweptKept
  <2>13. ASSUME ~overtaken'
         PROVE  QuietInv' /\ TellsInv'
    <3>1. QuietInv /\ TellsInv
      BY <1>i, <2>1, <2>13
    <3>2. QuietInv' /\ Holds("sweep") = {}
      BY <1>y, <2>1, <2>2, <2>7, <3>1 DEF QuietInv
    <3>3. ASSUME NEW o \in Orders, Plain(o)', NEW k \in Reminders,
                 <<o, k>> \notin missed'
          PROVE  (Came(o, k)' /\ ~Ahead(o, k)')
                 <=> (Came(o, k) /\ ~Ahead(o, k))
      <4>0. RemindDay(o, k) \in Int /\ RemindDay(o, k)' = RemindDay(o, k)
        BY <1>d, <1>k, <3>3 DEF RemindDay
      <4>1. CASE k = "upcoming"
        <5>1. Came(o, k)' <=> Came(o, k)
          BY <2>1, <4>0, <4>1 DEF Came
        <5>2. ~Ahead(o, k)'
          BY <2>9, <4>1
        <5>. QED  BY <2>4, <5>1, <5>2
      <4>2. CASE k = "overdue" /\ m = "upcoming"
        <5>1. Came(o, k) <=> day > RemindDay(o, k)
          BY <2>3, <4>2 DEF Came
        <5>2. Came(o, k)' <=> day > RemindDay(o, k) \/ day = RemindDay(o, k)
          BY <2>1, <2>2, <2>6, <2>7, <4>0, <4>2 DEF Came
        <5>3. Ahead(o, k)' <=> day = RemindDay(o, k)
          <6>0. Plain(o) /\ <<o, "overdue">> \notin missed
            BY <1>k, <3>3, <4>2
          <6>1. due[o] = day - 1 => status[o] = "ATRASADO"
            <7>1. due[o] = day - 1 => due[o] < day
              BY <1>d
            <7>. QED  BY <1>i, <2>2, <3>2, <6>0, <7>1 DEF SweptInv
          <6>2. due[o] = day - 1 <=> day = RemindDay(o, k)
            BY <1>d, <4>2 DEF RemindDay
          <6>. QED  BY <2>9, <2>10, <4>2, <6>1, <6>2
        <5>4. day > RemindDay(o, k) => day # RemindDay(o, k)
          BY <1>d, <4>0
        <5>. QED  BY <2>4, <5>1, <5>2, <5>3, <5>4
      <4>3. CASE k = "overdue" /\ m # "upcoming"
        <5>1. u.saying # {"upcoming"} /\ task["remind"].saying # {"upcoming"}
          BY <2>3, <2>6, <4>3
        <5>2. Came(o, k)' <=> Came(o, k)
          BY <2>1, <2>7, <4>0, <5>1 DEF Came
        <5>3. ~Ahead(o, k)'
          BY <2>9, <4>3
        <5>. QED  BY <2>4, <5>2, <5>3
      <4>. QED  BY <4>1, <4>2, <4>3 DEF Reminders
    <3>4. \A o \in Orders : \A k \in Reminders : Untold(o, k)
      BY <1>u, <2>1 DEF Unreminded
    <3>5. TellsInv'
      BY <1>n, <3>1, <3>3, <3>4, TellsKept
    <3>. QED  BY <3>2, <3>5
  <2>. QED  BY <2>8, <2>11, <2>12, <2>13
<1>6. CASE Pick("sweep") \/ Mark("sweep") \/ Row("sweep") \/ Mail("sweep")
  <2>1. /\ UNCHANGED <<day, fired, overtaken>>
        /\ task["sweep"].op # "idle"
        /\ task'["remind"] = task["remind"]
        /\ Unreminded
        /\ \A o \in Holds("sweep") :
             o \in Holds("sweep")' \/ status'[o] = "ATRASADO"
    BY <1>6, SweepGoes
  <2>2. AheadInv' /\ (~overtaken' => TellsInv')
    BY <1>l, <2>1
  <2>3. FiredInv'
    BY <1>i, <2>1 DEF FiredInv
  <2>4. SweptInv'
    BY <1>i, <1>n, <2>1, SweptKept
  <2>5. ~overtaken' => QuietInv'
    BY <1>i, <2>1 DEF QuietInv
  <2>. QED  BY <2>2, <2>3, <2>4, <2>5
<1>7. CASE Pick("remind") \/ Row("remind") \/ Mail("remind")
  <2>1. /\ UNCHANGED <<day, fired, overtaken>>
        /\ task["remind"].op # "idle"
        /\ task'["sweep"] = task["sweep"]
        /\ task'["remind"].saying = task["remind"].saying
        /\ \A o \in Orders : \A k \in Reminders :
             \/ Untold(o, k) /\ (Ahead(o, k)' <=> Ahead(o, k))
             \/ ToldOnce(o, k) /\ Ahead(o, k) /\ ~Ahead(o, k)'
    BY <1>7, RemindGoes
  <2>2. \A o \in Orders : Plain(o)' => \A k : Came(o, k)' <=> Came(o, k)
    BY <1>e, <2>1
  <2>3. "remind" \in fired /\ "sweep" \in fired
    BY <1>i, <2>1 DEF FiredInv
  <2>4. FiredInv'
    BY <1>i, <2>1, <2>3 DEF FiredInv
  <2>5. AheadInv'
    <3>1. ASSUME NEW o \in Orders, Plain(o)', NEW k \in Reminders,
                 Ahead(o, k)'
          PROVE  day' = RemindDay(o, k)'
      <4>1. Ahead(o, k)
        BY <2>1, <3>1
      <4>2. day = RemindDay(o, k)
        BY <1>i, <1>k, <3>1, <4>1 DEF AheadInv
      <4>. QED  BY <1>k, <2>1, <3>1, <4>2
    <3>. QED  BY <3>1 DEF AheadInv
  <2>6. Holds("sweep")' = Holds("sweep")
    BY <2>1 DEF Holds, At
  <2>7. SweptInv'
    BY <1>i, <1>n, <2>1, <2>6, SweptKept
  <2>8. ASSUME ~overtaken'
        PROVE  QuietInv' /\ TellsInv'
    <3>1. QuietInv /\ TellsInv
      BY <1>i, <2>1, <2>8
    <3>2. ASSUME NEW o \in Orders, Plain(o)', NEW k \in Reminders,
                 <<o, k>> \notin missed'
          PROVE  told'[o, k] = IF Came(o, k)' /\ ~Ahead(o, k)' THEN 1 ELSE 0
      <4>0. Plain(o) /\ <<o, k>> \notin missed
        BY <1>k, <3>2
      <4>1. told[o, k] = IF Came(o, k) /\ ~Ahead(o, k) THEN 1 ELSE 0
        BY <3>1, <4>0, Zenon DEF TellsInv
      <4>c. Came(o, k)' <=> Came(o, k)
        BY <2>2, <3>2
      <4>2. CASE Untold(o, k) /\ (Ahead(o, k)' <=> Ahead(o, k))
        <5>1. told'[o, k] = told[o, k]
          BY <4>2, Zenon DEF Untold
        <5>2. CASE Came(o, k) /\ ~Ahead(o, k)
          BY <4>1, <4>2, <4>c, <5>1, <5>2, Zenon
        <5>3. CASE ~(Came(o, k) /\ ~Ahead(o, k))
          BY <4>1, <4>2, <4>c, <5>1, <5>3, Zenon
        <5>. QED  BY <5>2, <5>3
      <4>3. CASE ToldOnce(o, k) /\ Ahead(o, k) /\ ~Ahead(o, k)'
        <5>1. told'[o, k] = 1
          <6>1. told[o, k] = 0
            BY <4>1, <4>3, Zenon
          <6>2. \A n, m : n = 0 /\ m = n + 1 => m = 1
            OBVIOUS
          <6>. QED  BY <4>3, <6>1, <6>2, Zenon DEF ToldOnce
        <5>2. task["remind"].saying = {k} /\ day = RemindDay(o, k)
          BY <1>i, <4>0, <4>3 DEF Ahead, AheadInv
        <5>3. k = "upcoming" \/ task["remind"].saying # {"upcoming"}
          BY <5>2
        <5>4. Came(o, k)
          BY <2>3, <5>2, <5>3 DEF Came
        <5>. QED  BY <4>3, <4>c, <5>1, <5>4, Zenon
      <4>. QED  BY <2>1, <4>2, <4>3
    <3>3. TellsInv'
      BY <3>2, Zenon DEF TellsInv
    <3>4. QuietInv'
      BY <2>1, <3>1 DEF QuietInv
    <3>. QED  BY <3>3, <3>4
  <2>. QED  BY <2>4, <2>5, <2>7, <2>8
<1>. QED
  BY <1>f, <1>1, <1>2, <1>3, <1>4, <1>5, <1>6, <1>7 DEF Crons

-----------------------------------------------------------------------------
(* The theorems.                                                           *)

IInv ==
  /\ TasksOK /\ RestOK
  /\ OwedInv /\ HeldInv /\ PaidStaysPaid
  /\ ShapeInv /\ StatusInv /\ AbsentInv /\ OnceInv /\ DueInv
  /\ RemindInv

LEMMA InitInv == Init => IInv
<1>. SUFFICES ASSUME Init PROVE IInv
  OBVIOUS
<1>1. TasksOK
  BY Idles DEF Init, TasksOK
<1>2. RestOK
  <2>1. BalanceOK
    <3>1. IsFiniteSet(credited) /\ Cardinality(credited) = 0
      BY FS_EmptySet DEF Init
    <3>. QED  BY <3>1 DEF Init, BalanceOK
  <2>2. queue \in Seq(0..(Attempts - 1)) /\ told \in [Orders \X Kinds -> Nat]
    BY DEF Init
  <2>3. OrdersOK
    BY DEF Init, OrdersOK, Statuses
  <2>4. day \in 0..LastDay /\ reports \in 0..MaxReports
    BY NoticesAssumption DEF Init
  <2>5. failures \in 0..MaxFailures
    BY NoticesAssumption DEF Init
  <2>. QED  BY <2>1, <2>2, <2>3, <2>4, <2>5 DEF Init, RestOK
<1>3. OwedInv /\ PaidStaysPaid
  BY DEF Init, OwedInv, Pending, PaidStaysPaid
<1>4. HeldInv
  BY DEF Init, HeldInv, Handlers, IdleTask
<1>5. \A h \in Handlers : task[h] = IdleTask
  BY DEF Init
<1>6. /\ IdleTask.op = "idle" /\ IdleTask.todo = {}
      /\ IdleTask.order = {} /\ IdleTask.saying = {}
  BY DEF IdleTask
<1>7. ShapeInv
  BY <1>5, IdleShape DEF ShapeInv
<1>8. /\ \A h \in Handlers : Holds(h) = {}
      /\ \A h \in Handlers : \A o, k : ~Says(h, o, k)
  BY <1>5, <1>6 DEF Holds, At, Says
<1>9. \A o \in Orders : ~There(o) /\ ~Plain(o)
  BY DEF Init, There, Plain
<1>10. \A o \in Orders : \A k \in Kinds : told[o, k] = 0
  BY DEF Init
<1>11. AbsentInv
  BY <1>5, <1>6, <1>10, Zenon DEF Init, AbsentInv
<1>12. StatusInv /\ DueInv
  BY <1>9 DEF Init, StatusInv, DueInv
<1>13. OnceInv
  <2>. SUFFICES ASSUME NEW o \in Orders
                PROVE  HeldOnce(o) /\ \A k \in LateKind : SaidOnce(o, k)
    BY DEF OnceInv
  <2>1. HeldOnce(o)
    <3>1. Markers \subseteq Handlers
      BY DEF Markers, Handlers
    <3>. QED  BY <1>8, <3>1 DEF HeldOnce
  <2>2. ASSUME NEW k \in LateKind PROVE SaidOnce(o, k)
    <3>1. told[o, k] = 0
      <4>1. k \in Kinds
        BY DEF LateKind, Kinds
      <4>. QED  BY <1>10, <4>1, Zenon
    <3>2. /\ Bit(Says("sweep", o, k)) = 0
          /\ Bit(Says("webhook", o, k)) = 0
      BY <1>8 DEF Bit, Handlers
    <3>3. Bit(status[o] \in Open) = 1
      BY DEF Init, Open, Bit
    <3>4. renewed[o] = 0
      BY DEF Init
    <3>5. 0 + 0 + 0 + 1 <= 1 + 0
      OBVIOUS
    <3>. QED  BY <3>1, <3>2, <3>3, <3>4, <3>5, Zenon DEF SaidOnce
  <2>. QED  BY <2>1, <2>2
<1>14. RemindInv
  <2>1. task["sweep"] = IdleTask /\ task["remind"] = IdleTask
    BY <1>5 DEF Handlers
  <2>2. FiredInv /\ QuietInv
    BY <1>6, <2>1 DEF Init, FiredInv, QuietInv
  <2>3. AheadInv /\ SweptInv /\ TellsInv
    BY <1>9, Zenon DEF AheadInv, SweptInv, TellsInv
  <2>. QED  BY <2>2, <2>3 DEF RemindInv
<1>. QED
  BY <1>1, <1>2, <1>3, <1>4, <1>7, <1>11, <1>12, <1>13, <1>14 DEF IInv

LEMMA StepInv == IInv /\ [Next]_vars => IInv'
<1>. SUFFICES ASSUME IInv, [Next]_vars PROVE IInv'
  OBVIOUS
<1>1. /\ TasksOK /\ RestOK
      /\ OwedInv /\ HeldInv /\ PaidStaysPaid
      /\ ShapeInv /\ StatusInv /\ AbsentInv /\ OnceInv /\ DueInv
      /\ RemindInv
  BY DEF IInv
<1>2. TasksOK' /\ RestOK' /\ OwedInv' /\ HeldInv' /\ PaidStaysPaid'
  BY <1>1, TasksStep, RestStep, OwedStep, HeldStep
<1>3. ShapeInv' /\ StatusInv' /\ AbsentInv'
  BY <1>1, ShapeStep, StatusStep, AbsentStep
<1>4. OnceInv' /\ DueInv'
  BY <1>1, OnceStep
<1>5. RemindInv'
  BY <1>1, <1>3, RemindStep
<1>. QED  BY <1>2, <1>3, <1>4, <1>5 DEF IInv

LEMMA Invariant == Spec => []IInv
  BY InitInv, StepInv, PTL DEF Spec

\* The variables of Notices keep their types, for any orders, days, reports
\* and failures: a balance is never more than what came in.
THEOREM TypeCorrect == Spec => []TypeOK
<1>1. IInv => TypeOK
  BY Types DEF IInv
<1>. QED  BY <1>1, Invariant, PTL

\* A rent that came in by the gateway, of a landlord who could be paid, is
\* paid out by the handler that took it in, or its failure told to an admin;
\* unless that handler was cut short, or there was no admin to tell.
THEOREM PayoutsAreAnswered == Spec => []PayoutIsAnswered
<1>1. IInv => PayoutIsAnswered
  BY DEF IInv, OwedInv, Pending, PayoutIsAnswered
<1>. QED  BY <1>1, Invariant, PTL

\* An order that was paid is shown as paid, on its way or received, until an
\* event deletes or restores its charge, unless another handler had read it
\* and was about to write it, or an event of its lateness came after all.
THEOREM PaidStay == Spec => []PaidStaysPaid
<1>1. IInv => PaidStaysPaid
  BY DEF IInv
<1>. QED  BY <1>1, Invariant, PTL

\* A lateness is told to each person once, and once more for each time that
\* an event or a new charge opened or closed the order again, over any number
\* of days, sweeps, webhooks and failures, unless handlers read it at once.
THEOREM LatenessOnce == Spec => []LateToldOnce
<1>1. IInv => LateToldOnce
  <2>. SUFFICES ASSUME IInv, NEW o \in Orders \ crossed, NEW k \in LateKind
                PROVE  told[o, k] <= 1 + renewed[o]
    BY DEF LateToldOnce, LateKind
  <2>1. SaidOnce(o, k)
    BY DEF IInv, OnceInv
  <2>2. told[o, k] \in Nat /\ renewed[o] \in Nat
    BY Counts DEF IInv
  <2>3. PICK a, b, c : /\ a = Bit(Says("sweep", o, k))
                       /\ b = Bit(Says("webhook", o, k))
                       /\ c = Bit(status[o] \in Open)
    OBVIOUS
  <2>4. a \in {0, 1} /\ b \in {0, 1} /\ c \in {0, 1}
    BY <2>3 DEF Bit
  <2>5. PICK n, r : n = told[o, k] /\ r = renewed[o]
    OBVIOUS
  <2>6. n + a + b + c <= 1 + r
    BY <2>1, <2>3, <2>5, Zenon DEF SaidOnce
  <2>7. n \in Nat /\ r \in Nat
    BY <2>2, <2>5, Zenon
  <2>8. n <= 1 + r
    BY <2>4, <2>6, <2>7
  <2>. QED  BY <2>5, <2>8, Zenon
<1>. QED  BY <1>1, Invariant, PTL

\* While nothing fails, and no sweep takes until 8AM, an order that was
\* neither paid, nor cancelled, nor opened again has got each of its reminders
\* once, on any day after them, unless it was made too late for that one.
THEOREM UnpaidReminded == Spec => []UnpaidIsReminded
<1>1. ASSUME IInv PROVE UnpaidIsReminded
  <2>. SUFFICES ASSUME failures = 0, ~overtaken, NEW o \in Orders, Plain(o)
                PROVE  /\ Reminded(due[o] + 1)
                            /\ <<o, "overdue">> \notin missed
                            => told[o, "overdue"] = 1
                       /\ Reminded(due[o] - 3)
                            /\ <<o, "upcoming">> \notin missed
                            => told[o, "upcoming"] = 1
    BY DEF UnpaidIsReminded, Plain
  <2>1. TellsInv /\ AheadInv /\ ShapeInv
    BY <1>1 DEF IInv, RemindInv
  <2>d. day \in Int /\ due[o] \in Int
    BY <1>1, NoticesAssumption DEF IInv, RestOK, OrdersOK
  <2>2. task["remind"].op = "idle" =>
          \A k : ~Ahead(o, k) /\ task["remind"].saying # {"upcoming"}
    <3>1. task["remind"].op = "idle" => task["remind"] = IdleTask
      BY <2>1 DEF ShapeInv, Shaped, Handlers
    <3>2. IdleTask.saying = {}
      BY DEF IdleTask
    <3>. QED  BY <3>1, <3>2 DEF Ahead
  <2>3. ASSUME NEW k \in Reminders, Reminded(RemindDay(o, k)),
               <<o, k>> \notin missed
        PROVE  told[o, k] = 1
    <3>0. RemindDay(o, k) \in Int
      BY <2>d DEF RemindDay
    <3>1. Came(o, k)
      BY <2>2, <2>3 DEF Came, Reminded, At
    <3>2. ~Ahead(o, k)
      <4>1. CASE day > RemindDay(o, k)
        <5>1. day # RemindDay(o, k)
          BY <2>d, <3>0, <4>1
        <5>. QED  BY <2>1, <5>1 DEF AheadInv
      <4>2. CASE task["remind"].op = "idle"
        BY <2>2, <4>2
      <4>. QED  BY <2>3, <4>1, <4>2 DEF Reminded, At
    <3>3. told[o, k] = IF Came(o, k) /\ ~Ahead(o, k) THEN 1 ELSE 0
      BY <2>1, <2>3, Zenon DEF TellsInv
    <3>. QED  BY <3>1, <3>2, <3>3, Zenon
  <2>4. Reminded(due[o] + 1) /\ <<o, "overdue">> \notin missed
          => told[o, "overdue"] = 1
    <3>1. "overdue" \in Reminders /\ RemindDay(o, "overdue") = due[o] + 1
      BY DEF Reminders, RemindDay
    <3>. QED  BY <2>3, <3>1, Zenon
  <2>5. Reminded(due[o] - 3) /\ <<o, "upcoming">> \notin missed
          => told[o, "upcoming"] = 1
    <3>1. "upcoming" \in Reminders /\ RemindDay(o, "upcoming") = due[o] - 3
      BY DEF Reminders, RemindDay
    <3>. QED  BY <2>3, <3>1, Zenon
  <2>. QED  BY <2>4, <2>5
<1>. QED  BY <1>1, Invariant, PTL

=============================================================================
