----------------------------- MODULE Notices -------------------------------
(***************************************************************************)
(* What people are told of their payment orders: from the day an order is  *)
(* made (payments-orders), over the reminders at 8AM (reminders.scheduler),*)
(* the sweep at 5AM that marks it as late (payments.scheduler), the        *)
(* webhooks of its charge and of its transfer, cash that the landlord      *)
(* records, a deposit that is charged anew (charges) and a contract that   *)
(* is cancelled, to the payout of a rent (transfers); each notification    *)
(* (notifications) and its mail (email.worker, mailer).                    *)
(*                                                                         *)
(* A day has a 5AM and an 8AM; handlers are split at their awaits.  The    *)
(* charges are of one landlord, whose account at Asaas sends its events    *)
(* one at a time; the money of a rent counts as one there, whatever the    *)
(* fees leave of it.  "Variant" operators are used by no other             *)
(* definition.                                                             *)
(***************************************************************************)
EXTENDS Integers, SequencesExt

CONSTANTS
  Orders,        \* the payment orders
  Due,           \* the day on which each rent is due
  Deposits,      \* those that are a security deposit
  LastDay,       \* bound on the days
  Attempts,      \* how often the queue tries a job
  MaxReports,    \* bound on the payments and transfers that are reported
  MaxRenewals,   \* bound on how often an order is opened, or closed, again
  MaxFailures    \* bound on what fails

ASSUME NoticesAssumption ==
  /\ Due \in [Orders -> Nat]
  /\ Deposits \subseteq Orders
  /\ {LastDay, MaxReports, MaxRenewals, MaxFailures} \subseteq Nat
  /\ Attempts \in Nat \ {0}

VARIABLES
  day,         \* today
  fired,       \* which of the two crons fired today
  status,      \* the status of each order, also of one that is not there
  due,         \* the day on which each order is due
  transferred, \* the orders that have a transfer's row
  task,        \* the six handlers
  told,        \* how many rows tell each thing of each order
  queue,       \* the jobs of mails: how often each has failed
  balance,     \* how many rents' money is at the landlord's account
  credited,    \* the rents whose money came there at some time
  admin,       \* whether there is an active admin
  reports,     \* payments and transfers reported so far
  renewed,     \* how often each order was opened, or closed, again: by an
               \* event of its charge, or since it is charged anew
  failures,    \* failures so far
  paid,        \* history: the orders that were paid, by a charge, in cash or
               \* by the word of a transfer, and not opened or closed since
               \* by an event
  crossed,     \* history: those that were paid, or read by another handler,
               \* while a handler that had read them was about to write
  cancelled,   \* history: the orders that a contract's end cancelled
  missed,      \* history: the reminders of which the hour had passed when
               \* their order was made
  owed,        \* history: the rents that came in by the gateway, of a
               \* landlord who can be paid, whose payout was not asked, nor
               \* its failure told to admins
  silent,      \* history: those of which nobody could be told
  overtaken    \* history: at some 8AM the sweep of 5AM was under way

handling == <<day, fired, task>>
orders == <<status, due, transferred>>
history == <<paid, crossed, cancelled, missed, overtaken, owed, silent>>
notes == <<told, queue>>
money == <<balance, credited>>
bounds == <<reports, renewed, failures>>
vars == <<handling, orders, notes, money, admin, bounds, history>>

Handlers == {"sweep", "webhook", "cash", "renew", "withdraw", "remind"}
Crons == {"sweep", "remind"}

Reminders == {"upcoming", "overdue"}

\* What a notification says, and to whom.
Kinds == Reminders \cup
         {"late_deposit", "late_tenant", "late_landlord", "new_chance",
          "paid_tenant", "paid_landlord", "payout_failed", "transfer_failed"}

Statuses == {"absent", "PENDENTE", "ATRASADO", "PAGO", "EM_REPASSE",
             "RECEBIDO", "CANCELADO"}

PaidStatus == {"PAGO", "EM_REPASSE", "RECEBIDO"}

Rents == Orders \ Deposits

Ops == {"idle", "pick", "mark", "pay", "renew", "row", "mail", "payout",
        "withdraw"}

\* A task is named for the step it will do next.  todo: what the loop has
\* left; saying: the loop's reminder; order and kinds: who is told what;
\* sum: the money that a payout, or a withdrawal, is to send.
IdleTask == [op |-> "idle", todo |-> {}, saying |-> {}, order |-> {},
             kinds |-> <<>>, sum |-> 0]

TypeOK ==
  /\ day \in 0..LastDay
  /\ fired \subseteq Crons
  /\ status \in [Orders -> Statuses]
  /\ due \in [Orders -> Nat]
  /\ task \in [Handlers ->
       [op : Ops, todo : SUBSET Orders, saying : SUBSET Kinds,
        order : SUBSET Orders, kinds : Seq(Kinds), sum : Nat]]
  /\ told \in [Orders \X Kinds -> Nat]
  /\ queue \in Seq(0..(Attempts - 1))
  /\ balance \in 0..Cardinality(credited)
  /\ credited \subseteq Rents
  /\ transferred \subseteq Orders
  /\ admin \in BOOLEAN
  /\ reports \in 0..MaxReports
  /\ renewed \in [Orders -> Nat]
  /\ failures \in 0..MaxFailures
  /\ paid \cup crossed \cup cancelled \cup owed \cup silent \subseteq Orders
  /\ missed \subseteq Orders \X Reminders
  /\ overtaken \in BOOLEAN

Init ==
  /\ day = 0
  /\ fired = {}
  /\ status = [o \in Orders |-> "absent"]
  /\ due = [o \in Orders |-> 0]
  /\ transferred = {}
  /\ task = [h \in Handlers |-> IdleTask]
  /\ told = [t \in Orders \X Kinds |-> 0]
  /\ queue = <<>>
  /\ balance = 0
  /\ credited = {}
  /\ admin = TRUE
  /\ reports = 0
  /\ renewed = [o \in Orders |-> 0]
  /\ failures = 0
  /\ paid = {}
  /\ crossed = {}
  /\ cancelled = {}
  /\ missed = {}
  /\ owed = {}
  /\ silent = {}
  /\ overtaken = FALSE

At(h, op) == task[h].op = op

Continue(h, t) == task' = [task EXCEPT ![h] = t]

Finish(h) == Continue(h, IdleTask)

Fire(c) ==
  /\ c \notin fired
  /\ "sweep" \in fired \cup {c}
  /\ fired' = fired \cup {c}

\* The orders that a handler has read as unpaid, and is yet to write.
Holds(h) ==
  IF h = "remind" THEN {}
  ELSE task[h].todo \cup
       (IF task[h].op \in {"mark", "renew"} THEN task[h].order ELSE {})

InStatus(s) == {o \in Orders : status[o] = s}

There(o) == status[o] # "absent"

-----------------------------------------------------------------------------
(* An order is made, and cancelled.                                        *)

\* The hour of a reminder has passed, for an order that is due on day d.
Passed(k, d) ==
  IF k = "upcoming"
  THEN day > d - 3 \/ (day = d - 3 /\ "remind" \in fired)
  ELSE day > d + 1 \/ (day = d + 1 /\ "sweep" \in fired)

\* The orders of a set are made, each due on its day of f.
Create(S, f) ==
  /\ S \subseteq InStatus("absent")
  /\ status' = [o \in Orders |-> IF o \in S THEN "PENDENTE" ELSE status[o]]
  /\ due' = [o \in Orders |-> IF o \in S THEN f[o] ELSE due[o]]
  /\ missed' = missed \cup
                 {r \in S \X Reminders : Passed(r[2], f[r[1]])}
  /\ UNCHANGED <<handling, transferred, notes, money, admin, bounds, paid,
                 crossed, cancelled, owed, silent, overtaken>>

\* createAndChargeSecurityDeposit: due three days on, at whatever hour.
CreateDeposit(o) ==
  /\ o \in Deposits
  /\ Create({o}, [d \in Deposits |-> day + 3])

\* createPaymentsForContract makes all the rents of a contract at once; it may
\* be so late that some are due already.
CreateRents(S) ==
  /\ S \subseteq Rents
  /\ Create(S, Due)

\* cancelContract: of the contract's orders those that are open.  The mail
\* that it sends is of the contract.
CancelContract(S) ==
  LET open == S \cap InStatus("PENDENTE")
  IN  /\ status' = [o \in Orders |-> IF o \in open THEN "CANCELADO"
                                     ELSE status[o]]
      /\ cancelled' = cancelled \cup open
      /\ UNCHANGED <<handling, due, transferred, notes, money, admin, bounds,
                     paid, crossed, missed, owed, silent, overtaken>>

\* PAYMENT_DELETED or PAYMENT_RESTORED: the order's status is written,
\* whatever it is.
Rewrite(o, s) ==
  /\ There(o)
  /\ renewed[o] < MaxRenewals
  /\ At("webhook", "idle")
  /\ status' = [status EXCEPT ![o] = s]
  /\ renewed' = [renewed EXCEPT ![o] = @ + 1]
  /\ paid' = paid \ {o}
  /\ UNCHANGED <<handling, due, transferred, notes, money, admin, reports,
                 failures, crossed, cancelled, missed, owed, silent,
                 overtaken>>

\* regenerateDepositCharge: of a deposit that is late; its charge is taken
\* back.
StartRenew(o) ==
  /\ o \in Deposits
  /\ status[o] = "ATRASADO"
  /\ renewed[o] < MaxRenewals
  /\ At("renew", "idle")
  /\ Continue("renew", [IdleTask EXCEPT !.op = "renew", !.order = {o}])
  /\ UNCHANGED <<day, fired, orders, notes, money, admin, bounds, history>>

\* Then it is open again, whatever its status is by now, and due three days
\* on; the tenant is told.
RenewWrite ==
  /\ At("renew", "renew")
  /\ \E o \in task["renew"].order :
       /\ status' = [status EXCEPT ![o] = "PENDENTE"]
       /\ due' = [due EXCEPT ![o] = day + 3]
       /\ renewed' = [renewed EXCEPT ![o] = @ + 1]
  /\ Continue("renew", [task["renew"] EXCEPT !.op = "row",
                                            !.kinds = <<"new_chance">>])
  /\ UNCHANGED <<day, fired, transferred, notes, money, admin, reports,
                 failures, history>>

-----------------------------------------------------------------------------
(* processOverduePayment, for the sweep and for the webhook.               *)

\* Variant: the sweep takes what is due, whatever its status.
SweepAny == {o \in Orders : There(o) /\ due[o] < day}

\* What processScheduledOverduePayments reads.
SweepReads == {o \in InStatus("PENDENTE") : due[o] < day}

StartSweep ==
  /\ Fire("sweep")
  /\ At("sweep", "idle")
  /\ Continue("sweep", [IdleTask EXCEPT !.op = "pick", !.todo = SweepReads])
  /\ crossed' = crossed \cup (SweepReads \cap Holds("webhook"))
  /\ UNCHANGED <<day, orders, notes, money, admin, bounds, paid, cancelled,
                 missed, owed, silent, overtaken>>

\* PAYMENT_OVERDUE, delivered once the order is late, or again, or after the
\* event that it was paid, or that it is open again; only ATRASADO is refused.
StartWebhook(o) ==
  /\ There(o)
  /\ due[o] < day \/ renewed[o] > 0
  /\ status[o] # "ATRASADO"
  /\ At("webhook", "idle")
  /\ Continue("webhook",
              [IdleTask EXCEPT !.op = "mark", !.order = {o}])
  /\ crossed' = IF o \in paid \cup Holds("sweep") THEN crossed \cup {o}
                ELSE crossed
  /\ UNCHANGED <<day, fired, orders, notes, money, admin, bounds, paid,
                 cancelled, missed, owed, silent, overtaken>>

\* The loop's next order; or its end.
Pick(h) ==
  /\ At(h, "pick")
  /\ IF task[h].todo = {}
     THEN h # "remind" /\ Finish(h)
     ELSE \E o \in task[h].todo :
            LET t == [task[h] EXCEPT !.todo = @ \ {o}, !.order = {o}]
            IN Continue(h,
                 IF h # "remind" THEN [t EXCEPT !.op = "mark"]
                 ELSE [t EXCEPT !.op = "row",
                                !.kinds = IF t.saying = {"upcoming"}
                                          THEN <<"upcoming">>
                                          ELSE <<"overdue">>])
  /\ UNCHANGED <<day, fired, orders, notes, money, admin, bounds, history>>

LateKinds(o) ==
  IF o \in Deposits THEN <<"late_deposit">>
  ELSE <<"late_tenant", "late_landlord">>

\* Variant: the row is marked only when everyone was told.
MarkLast(h) ==
  /\ At(h, "mark")
  /\ \E o \in task[h].order :
       Continue(h, [task[h] EXCEPT !.op = "row", !.kinds = LateKinds(o)])
  /\ UNCHANGED <<day, fired, orders, notes, money, admin, bounds, history>>

\* Whatever the row's status is by now.
Mark(h) ==
  /\ At(h, "mark")
  /\ \E o \in task[h].order :
       /\ status' = [status EXCEPT ![o] = "ATRASADO"]
       /\ Continue(h, [task[h] EXCEPT !.op = "row", !.kinds = LateKinds(o)])
  /\ UNCHANGED <<day, fired, due, transferred, notes, money, admin, bounds,
                 history>>

-----------------------------------------------------------------------------
(* A payment, and the payout of a rent.                                    *)

Report(h, o) ==
  /\ There(o)
  /\ reports < MaxReports
  /\ reports' = reports + 1
  /\ At(h, "idle")
  /\ Continue(h, [IdleTask EXCEPT !.op = "pay", !.order = {o}])
  /\ UNCHANGED <<day, fired, orders, notes, admin, renewed, failures, history>>

\* PAYMENT_CONFIRMED, PAYMENT_RECEIVED, or one of them again.  The money of a
\* confirmed payment may not be at the account yet.
StartPayment(o) ==
  /\ status[o] # "PAGO"
  /\ Report("webhook", o)
  /\ \/ UNCHANGED money
     \/ /\ o \in Rents \ credited
        /\ credited' = credited \cup {o}
        /\ balance' = balance + 1

\* The landlord records cash, of an order in any status.
StartCash(o) == Report("cash", o) /\ UNCHANGED money

\* An order is shown as paid, while a handler may be about to write it.
Settle(o) ==
  /\ paid' = paid \cup {o}
  /\ crossed' = IF \E g \in Handlers : o \in Holds(g)
                THEN crossed \cup {o} ELSE crossed

\* A deposit that is paid activates its contract (module Activation); of any
\* other payment both parties are told, and also of a deposit in cash, unless
\* it is recorded by the deposit's own route.  n: whether the landlord has an
\* account to pay to, as read now, and the fees leave something to pay.
PayWrite(h) ==
  /\ At(h, "pay")
  /\ \E o \in task[h].order, n \in {0, 1} :
       /\ status' = [status EXCEPT ![o] = "PAGO"]
       /\ Settle(o)
       /\ n = 1 => h = "webhook" /\ o \in Rents
       /\ owed' = IF n = 1 THEN owed \cup {o} ELSE owed
       /\ silent' = IF n = 1 THEN silent \ {o} ELSE silent
       /\ \/ o \in Deposits /\ Finish(h)
          \/ /\ o \in Deposits => h = "cash"
             /\ Continue(h, [task[h] EXCEPT !.op = "row", !.sum = n,
                               !.kinds = <<"paid_tenant", "paid_landlord">>])
  /\ UNCHANGED <<day, fired, due, transferred, notes, money, admin, bounds,
                 cancelled, missed, overtaken>>

\* The order of a transfer that was asked for is shown as on its way, also
\* one whose cash was recorded, or that became late, meanwhile; its row takes
\* the place of one that the order had.
PayoutDone ==
  /\ At("webhook", "payout")
  /\ task["webhook"].sum = 1
  /\ balance > 0
  /\ balance' = balance - 1
  /\ transferred' = transferred \cup task["webhook"].order
  /\ status' = [o \in Orders |-> IF o \in task["webhook"].order
                               THEN "EM_REPASSE" ELSE status[o]]
  /\ owed' = owed \ task["webhook"].order
  /\ Finish("webhook")
  /\ UNCHANGED <<day, fired, due, notes, credited, admin, bounds, paid,
                 crossed, cancelled, missed, silent, overtaken>>

\* The landlord has no account to pay to, or the fees leave nothing to pay: a
\* line of the log, and nobody is told.
PayoutSkip ==
  /\ At("webhook", "payout")
  /\ task["webhook"].sum = 0
  /\ Finish("webhook")
  /\ UNCHANGED <<day, fired, orders, notes, money, admin, bounds, history>>

\* The money is not there, or no more; or a call throws, which may be the one
\* that writes the row of a transfer that was made.
Refused ==
  \/ balance = 0 /\ UNCHANGED <<balance, failures>>
  \/ /\ failures < MaxFailures
     /\ failures' = failures + 1
     /\ balance' \in {balance, balance - 1} \cap Nat

\* Variant: the failure is only logged.
PayoutFailsLogged ==
  /\ At("webhook", "payout")
  /\ task["webhook"].sum = 1
  /\ Refused
  /\ Finish("webhook")
  /\ UNCHANGED <<day, fired, orders, notes, credited, admin, reports, renewed,
                 history>>

\* findAdmins: those that are active are told, of several each.
Admins(k) == IF admin THEN <<k>> ELSE <<>>

\* notifyAdminsOfTransferFailure; without an admin the failure is only logged.
PayoutFails ==
  /\ At("webhook", "payout")
  /\ task["webhook"].sum = 1
  /\ Refused
  /\ IF Admins("payout_failed") = <<>>
     THEN /\ Finish("webhook")
          /\ silent' = silent \cup task["webhook"].order
     ELSE /\ Continue("webhook", [task["webhook"] EXCEPT
                                    !.op = "row",
                                    !.kinds = Admins("payout_failed")])
          /\ UNCHANGED silent
  /\ UNCHANGED <<day, fired, orders, notes, credited, admin, reports, renewed,
                 paid, crossed, cancelled, missed, owed, overtaken>>

\* handleTransferStatusUpdate: the transfer of an order is reported, or once
\* more, as done or as failed, in any order.  Of a failure the admins are told;
\* its money may be back at the account by then.
StartTransfer(o) ==
  /\ o \in transferred
  /\ reports < MaxReports
  /\ reports' = reports + 1
  /\ At("webhook", "idle")
  /\ Settle(o)
  /\ UNCHANGED <<day, fired, due, transferred, notes, credited, admin, renewed,
                 failures, cancelled, missed, owed, silent, overtaken>>

TransferDone(o) ==
  /\ StartTransfer(o)
  /\ status' = [status EXCEPT ![o] = "RECEBIDO"]
  /\ UNCHANGED <<balance, task>>

TransferFailed(o) ==
  /\ StartTransfer(o)
  /\ status' = [status EXCEPT ![o] = "PAGO"]
  /\ balance' \in {balance, balance + 1} \cap 0..Cardinality(credited)
  /\ IF Admins("transfer_failed") = <<>> THEN UNCHANGED task
     ELSE Continue("webhook", [IdleTask EXCEPT
                                 !.op = "row", !.order = {o},
                                 !.kinds = Admins("transfer_failed")])

\* createManualTransfer: the balance is read, then all of it is sent, and a
\* row of no order made.  A balance that is smaller by then refuses.
StartWithdraw ==
  /\ balance > 0
  /\ At("withdraw", "idle")
  /\ Continue("withdraw", [IdleTask EXCEPT !.op = "withdraw", !.sum = balance])
  /\ UNCHANGED <<day, fired, orders, notes, money, admin, bounds, history>>

Withdraw ==
  /\ At("withdraw", "withdraw")
  /\ balance' = IF task["withdraw"].sum <= balance
                THEN balance - task["withdraw"].sum ELSE balance
  /\ Finish("withdraw")
  /\ UNCHANGED <<day, fired, orders, notes, credited, admin, bounds, history>>

\* The users: an admin is deactivated, or active again.
Deactivate ==
  /\ admin' = FALSE
  /\ UNCHANGED <<handling, orders, notes, money, bounds, history>>

Reactivate ==
  /\ admin' = TRUE
  /\ UNCHANGED <<handling, orders, notes, money, bounds, history>>

-----------------------------------------------------------------------------
(* NotificationsService.create: the row, then the job of its mail, and     *)
(* then a push to the open sockets.                                        *)

Row(h) ==
  /\ At(h, "row")
  /\ \E o \in task[h].order :
       told' = [told EXCEPT ![<<o, Head(task[h].kinds)>>] = @ + 1]
  /\ owed' = IF Head(task[h].kinds) = "payout_failed"
             THEN owed \ task[h].order ELSE owed
  /\ Continue(h, [task[h] EXCEPT !.op = "mail"])
  /\ UNCHANGED <<day, fired, orders, queue, money, admin, bounds, paid,
                 crossed, cancelled, missed, silent, overtaken>>

\* What follows when the last person was told: the payout of a rent that came
\* in; or the loop's next order; or the answer.
AfterNotices(h) ==
  IF h = "webhook" /\ Head(task[h].kinds) = "paid_landlord"
  THEN [task[h] EXCEPT !.op = "payout", !.kinds = <<>>]
  ELSE [task[h] EXCEPT !.op = "pick", !.kinds = <<>>, !.order = {}]

Mail(h) ==
  /\ At(h, "mail")
  /\ queue' = Append(queue, 0)
  /\ Continue(h, IF Len(task[h].kinds) > 1
                 THEN [task[h] EXCEPT !.op = "row", !.kinds = Tail(@)]
                 ELSE AfterNotices(h))
  /\ UNCHANGED <<day, fired, orders, told, money, admin, bounds, history>>

-----------------------------------------------------------------------------
(* The reminders.                                                          *)

\* What is due in three days.
StartRemind ==
  /\ Fire("remind")
  /\ Continue("remind",
       [IdleTask EXCEPT !.op = "pick", !.saying = {"upcoming"},
          !.todo = {o \in InStatus("PENDENTE") : due[o] = day + 3}])
  /\ overtaken' = (overtaken \/ ~At("sweep", "idle"))
  /\ UNCHANGED <<day, orders, notes, money, admin, bounds, paid, crossed,
                 cancelled, missed, owed, silent>>

\* Variant: the sweep is not relied on.
OverdueUnmarked == {o \in InStatus("PENDENTE") : due[o] = day - 1}

\* What was due yesterday, and is marked by now.
OverdueReads == {o \in InStatus("ATRASADO") : due[o] = day - 1}

\* After the first loop the second; after the second the end.
RemindOn ==
  /\ At("remind", "pick")
  /\ task["remind"].todo = {}
  /\ IF task["remind"].saying = {"upcoming"}
     THEN Continue("remind",
            [IdleTask EXCEPT !.op = "pick", !.saying = {"overdue"},
                             !.todo = OverdueReads])
     ELSE Finish("remind")
  /\ UNCHANGED <<day, fired, orders, notes, money, admin, bounds, history>>

-----------------------------------------------------------------------------
(* The mails.                                                              *)

\* A job of a kind is as any other, and several are in work at once.
MailSent(n) ==
  /\ queue' = RemoveAt(queue, n)
  /\ UNCHANGED <<handling, orders, told, money, admin, bounds, history>>

\* Variant: a job that throws goes back to the queue.
MailRetried(n) ==
  /\ failures < MaxFailures
  /\ failures' = failures + 1
  /\ queue' = Append(RemoveAt(queue, n), queue[n] + 1)
  /\ UNCHANGED <<handling, orders, told, money, admin, reports, renewed,
                 history>>

\* sendEmail throws, and so does its worker: the queue tries again, or leaves
\* the job among the failed ones.
MailFails(n) ==
  /\ failures < MaxFailures
  /\ failures' = failures + 1
  /\ LET rest == RemoveAt(queue, n)
     IN queue' = IF queue[n] + 1 < Attempts THEN Append(rest, queue[n] + 1)
                 ELSE rest
  /\ UNCHANGED <<handling, orders, told, money, admin, reports, renewed,
                 history>>

-----------------------------------------------------------------------------
(* Failures, days, and the specification.                                  *)

\* A statement, or a queue's add, throws and ends its handler; or the server
\* stops.  Nothing goes on with a loop: what it had left is for the next run.
Crash(h) ==
  /\ failures < MaxFailures
  /\ ~At(h, "idle")
  /\ failures' = failures + 1
  /\ Finish(h)
  /\ silent' = silent \cup
                (IF h = "webhook" THEN owed \cap task[h].order ELSE {})
  /\ UNCHANGED <<day, fired, orders, notes, money, admin, reports, renewed,
                 paid, crossed, cancelled, missed, owed, overtaken>>

\* The server is down at that hour.
Miss(c) ==
  /\ failures < MaxFailures
  /\ failures' = failures + 1
  /\ Fire(c)
  /\ UNCHANGED <<day, task, orders, notes, money, admin, reports, renewed,
                 history>>

\* The loops of a day end on that day.
Tick ==
  /\ day < LastDay
  /\ fired = Crons
  /\ \A c \in Crons : At(c, "idle")
  /\ day' = day + 1
  /\ fired' = {}
  /\ UNCHANGED <<task, orders, notes, money, admin, bounds, history>>

Next ==
  \/ \E o \in Orders : CreateDeposit(o)
  \/ \E S \in SUBSET Orders : CreateRents(S) \/ CancelContract(S)
  \/ \E o \in Orders, s \in {"CANCELADO", "PENDENTE"} : Rewrite(o, s)
  \/ \E o \in Orders : StartRenew(o)
  \/ RenewWrite
  \/ StartSweep
  \/ \E o \in Orders : StartWebhook(o) \/ StartPayment(o) \/ StartCash(o)
  \/ \E h \in Handlers : Pick(h) \/ Mark(h) \/ PayWrite(h)
  \/ \E h \in Handlers : Row(h) \/ Mail(h) \/ Crash(h)
  \/ PayoutDone
  \/ PayoutSkip
  \/ PayoutFails
  \/ \E o \in Orders : TransferDone(o) \/ TransferFailed(o)
  \/ StartWithdraw
  \/ Withdraw
  \/ Deactivate
  \/ Reactivate
  \/ StartRemind
  \/ RemindOn
  \/ \E n \in DOMAIN queue : MailSent(n) \/ MailFails(n)
  \/ \E c \in Crons : Miss(c)
  \/ Tick

Spec == Init /\ [][Next]_vars

-----------------------------------------------------------------------------
(* Safety.                                                                 *)

\* An order that was paid stays so, through the sweeps, the webhooks and the
\* payouts that come later, until an event deletes or restores its charge.
\* Only a handler that had read it before it was paid, or an event that is
\* late itself, writes it otherwise: the write looks at nothing.
PaidStaysPaid == \A o \in paid \ crossed : status[o] \in PaidStatus

\* A rent that came in by the gateway, of a landlord who could be paid when it
\* did, is paid out, or the admins are told of the failure, once the handler
\* that took it in ends, whatever else is done with the order meanwhile: the
\* event, delivered again, finds it paid.  Only a handler that is cut short,
\* or a failure when no admin is active, leaves the landlord without either.
\* A landlord who could not be paid gets neither, and nobody is told.
PayoutIsAnswered == owed \ silent \subseteq task["webhook"].order

\* A lateness is told to each person once, over all the sweeps, webhooks and
\* failures, and once more for each time that an event of the charge or a new
\* charge opens or closes the order again; only handlers that read the order
\* at once tell it twice.
LateToldOnce ==
  \A o \in Orders \ crossed :
    \A kind \in {"late_deposit", "late_tenant", "late_landlord"} :
      told[o, kind] <= 1 + renewed[o]

\* The reminders of that day have been sent.
Reminded(d) ==
  \/ day > d
  \/ day = d /\ "remind" \in fired /\ At("remind", "idle")

\* An order that is not paid gets its two reminders, each once: three days
\* before it is due, and the day after, which needs the sweep of that morning
\* to have marked it.  Only an order that was made too late for a reminder, as
\* a deposit after 8AM is for its first, or that was cancelled or opened again,
\* may do without it.
UnpaidIsReminded ==
  failures = 0 /\ ~overtaken =>
    \A o \in Orders \ (paid \cup cancelled) :
      There(o) /\ renewed[o] = 0 =>
        /\ Reminded(due[o] + 1) /\ <<o, "overdue">> \notin missed
             => told[o, "overdue"] = 1
        /\ Reminded(due[o] - 3) /\ <<o, "upcoming">> \notin missed
             => told[o, "upcoming"] = 1

=============================================================================
