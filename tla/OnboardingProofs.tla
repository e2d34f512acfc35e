-------------------------- MODULE OnboardingProofs --------------------------
(***************************************************************************)
(* Proofs about Onboarding for any handlers, accounts, customers, bounds,  *)
(* and either value of the flag.                                           *)
(***************************************************************************)
EXTENDS Onboarding, SequenceTheorems, TLAPS

\* What a handler knows.
Task == [op : Ops, by : {"bank", "approve"}, acct : Accounts \cup {NoId},
         key : Accounts \cup {NoId}, customer : Customers \cup {NoId},
         status : SubStatus, n : Nat]

\* The steps of a handler that read the account on the row.
AccountOps ==
  {"documents_post", "info_post", "info_write", "key_get", "key_find",
   "key_post", "key_write", "customer_read", "customer_find",
   "customer_post", "customer_write", "status_write", "status_answer"}

StatusOps == {"status_write", "status_answer"}

\* The steps of a handler that has the number of a token.
TokenOps ==
  {"bank_consume", "bank_read", "request_find", "request_write",
   "request_tell", "account_post", "account_write", "url_write",
   "bank_write", "pix_consume", "pix_write"}

\* Numbers are those of tokens and updates that there were.
NumbersInv ==
  /\ \A c \in Contexts : actionToken[c] \in 0..tokens
  /\ \A p \in Procs :
       /\ task[p].op \in TokenOps => task[p].n \in 0..MaxTokens
       /\ task[p].op \in {"info_post", "info_write"} =>
            task[p].n \in 0..infos
       /\ task[p].op = "info_write" => task[p].n \in told

\* A handler's account was made, and is the one on the row.
AccountOK(p) ==
  /\ task[p].op \in AccountOps =>
       /\ task[p].acct \in Made
       /\ sub.acct # NoId
       /\ ~Replaced => task[p].acct = sub.acct
  /\ task[p].op = "account_write" => task[p].acct \in Made
  /\ task[p].op = "account_post" /\ requireApproval =>
       "approved" \in history

TasksInv == \A p \in Procs : AccountOK(p)

\* A customer that was made is in the account it was made with.
CustomersInv ==
  \A p \in Procs : task[p].op = "customer_write" =>
    /\ task[p].customer \in Customers
    /\ customerOf[task[p].customer] = task[p].acct

\* An event that is in hand is the first, of one handler only, and every
\* event tells of a review that was.
EventsInv ==
  /\ \A p \in Procs : task[p].op \in StatusOps =>
       /\ events[task[p].acct] # <<>>
       /\ task[p].status = Head(events[task[p].acct])
  /\ \A p, q \in Procs :
       /\ task[p].op \in StatusOps
       /\ task[q].op \in StatusOps
       /\ task[p].acct = task[q].acct
       => p = q
  /\ \A a \in Accounts : \A i \in 1..Len(events[a]) :
       events[a][i] \in reviewed[a]

\* A row that was given a status of Asaas has an account.
RowInv == sub.status \in {"APPROVED", "REJECTED"} => sub.acct # NoId

IInv ==
  /\ TypeOK
  /\ NumbersInv
  /\ TasksInv
  /\ RowInv
  /\ CustomersInv
  /\ EventsInv
  /\ NoAccountUnapproved
  /\ StatusIsOfAccount
  /\ CustomerIsOfAccount
  /\ LocalIsTold

-----------------------------------------------------------------------------
(* Tasks.                                                                  *)

\* The task of a handler that does nothing.
LEMMA Idle ==
  /\ IdleTask \in Task
  /\ IdleTask.op = "idle"
  /\ IdleTask.by = "bank"
  /\ IdleTask.acct = NoId
  /\ IdleTask.n = 0
BY DEF IdleTask, Task, Ops, SubStatus

\* Only the task of p changes.
Others(p) ==
  /\ task' \in [Procs -> Task]
  /\ \A q \in Procs \ {p} : task'[q] = task[q]

\* The handler goes on to a step with what it knows.
Kept(p, op) ==
  /\ Others(p)
  /\ task'[p].op = op
  /\ task'[p].by = task[p].by
  /\ task'[p].acct = task[p].acct
  /\ task'[p].customer = task[p].customer
  /\ task'[p].status = task[p].status
  /\ task'[p].n = task[p].n

\* The handler starts afresh.
Fresh(p, op, acct, n) ==
  /\ Others(p)
  /\ task'[p].op = op
  /\ task'[p].acct = acct
  /\ task'[p].n = n

\* The tasks of the other handlers stay.
LEMMA Continued ==
  ASSUME TypeOK, NEW p \in Procs, NEW t \in Task, Continue(p, t)
  PROVE  Others(p) /\ task'[p] = t
<1>1. task \in [Procs -> Task]
  BY DEF TypeOK, Task
<1> QED
  BY <1>1 DEF Others, Continue

\* A handler that finished is idle.
LEMMA Finished ==
  ASSUME TypeOK, NEW p \in Procs, Finish(p)
  PROVE  Fresh(p, "idle", NoId, 0)
BY Continued, Idle DEF Finish, Fresh

\* Another step of the same task.
LEMMA Proceeded ==
  ASSUME TypeOK, NEW p \in Procs, NEW op \in Ops,
         Continue(p, [task[p] EXCEPT !.op = op])
  PROVE  Kept(p, op)
<1>1. task[p] \in Task
  BY DEF TypeOK, Task
<1> DEFINE t == [task[p] EXCEPT !.op = op]
<1>2. /\ t \in Task
      /\ t.op = op
      /\ t.by = task[p].by
      /\ t.acct = task[p].acct
      /\ t.customer = task[p].customer
      /\ t.status = task[p].status
      /\ t.n = task[p].n
  BY <1>1 DEF Task
<1> HIDE DEF t
<1>3. Continue(p, t)
  BY DEF t
<1> QED
  BY <1>2, <1>3, Continued DEF Kept

\* A task that starts.
LEMMA Started ==
  ASSUME TypeOK, NEW p \in Procs, NEW op \in Ops, NEW n \in Nat,
         NEW a \in Accounts \cup {NoId}, NEW s \in SubStatus,
         NEW k \in Accounts \cup {NoId}
  PROVE  /\ Continue(p, [IdleTask EXCEPT !.op = op, !.n = n]) =>
              Fresh(p, op, NoId, n)
         /\ Continue(p, [IdleTask EXCEPT !.op = op, !.by = "approve"]) =>
              Fresh(p, op, NoId, 0)
         /\ Continue(p, [IdleTask EXCEPT !.op = op, !.acct = a, !.n = n]) =>
              Fresh(p, op, a, n)
         /\ Continue(p, [IdleTask EXCEPT !.op = op, !.acct = a,
                                         !.key = k]) =>
              Fresh(p, op, a, 0)
         /\ Continue(p, [IdleTask EXCEPT !.op = op, !.acct = a]) =>
              Fresh(p, op, a, 0)
         /\ Continue(p, [IdleTask EXCEPT !.op = op, !.acct = a,
                                         !.status = s]) =>
              Fresh(p, op, a, 0) /\ task'[p].status = s
<1>1. ASSUME NEW t \in Task, Continue(p, t)
      PROVE  Fresh(p, t.op, t.acct, t.n) /\ task'[p].status = t.status
  BY <1>1, Continued DEF Fresh
<1>2. /\ [IdleTask EXCEPT !.op = op, !.n = n] \in Task
      /\ [IdleTask EXCEPT !.op = op, !.n = n].op = op
      /\ [IdleTask EXCEPT !.op = op, !.n = n].acct = NoId
      /\ [IdleTask EXCEPT !.op = op, !.n = n].n = n
  BY Idle DEF Task
<1>3. /\ [IdleTask EXCEPT !.op = op, !.by = "approve"] \in Task
      /\ [IdleTask EXCEPT !.op = op, !.by = "approve"].op = op
      /\ [IdleTask EXCEPT !.op = op, !.by = "approve"].acct = NoId
      /\ [IdleTask EXCEPT !.op = op, !.by = "approve"].n = 0
  BY Idle DEF Task
<1>4. /\ [IdleTask EXCEPT !.op = op, !.acct = a, !.n = n] \in Task
      /\ [IdleTask EXCEPT !.op = op, !.acct = a, !.n = n].op = op
      /\ [IdleTask EXCEPT !.op = op, !.acct = a, !.n = n].acct = a
      /\ [IdleTask EXCEPT !.op = op, !.acct = a, !.n = n].n = n
  BY Idle DEF Task
<1>5. /\ [IdleTask EXCEPT !.op = op, !.acct = a, !.key = k] \in Task
      /\ [IdleTask EXCEPT !.op = op, !.acct = a, !.key = k].op = op
      /\ [IdleTask EXCEPT !.op = op, !.acct = a, !.key = k].acct = a
      /\ [IdleTask EXCEPT !.op = op, !.acct = a, !.key = k].n = 0
  BY Idle DEF Task
<1>6. /\ [IdleTask EXCEPT !.op = op, !.acct = a] \in Task
      /\ [IdleTask EXCEPT !.op = op, !.acct = a].op = op
      /\ [IdleTask EXCEPT !.op = op, !.acct = a].acct = a
      /\ [IdleTask EXCEPT !.op = op, !.acct = a].n = 0
  BY Idle DEF Task
<1>7. /\ [IdleTask EXCEPT !.op = op, !.acct = a, !.status = s] \in Task
      /\ [IdleTask EXCEPT !.op = op, !.acct = a, !.status = s].op = op
      /\ [IdleTask EXCEPT !.op = op, !.acct = a, !.status = s].acct = a
      /\ [IdleTask EXCEPT !.op = op, !.acct = a, !.status = s].n = 0
      /\ [IdleTask EXCEPT !.op = op, !.acct = a, !.status = s].status = s
  BY Idle DEF Task
<1> HIDE DEF Task
<1>8. ASSUME Continue(p, [IdleTask EXCEPT !.op = op, !.n = n])
      PROVE  Fresh(p, op, NoId, n)
  BY <1>1, <1>2, <1>8, ZenonT(30)
<1>9. ASSUME Continue(p, [IdleTask EXCEPT !.op = op, !.by = "approve"])
      PROVE  Fresh(p, op, NoId, 0)
  BY <1>1, <1>3, <1>9, ZenonT(30)
<1>10. ASSUME Continue(p, [IdleTask EXCEPT !.op = op, !.acct = a, !.n = n])
       PROVE  Fresh(p, op, a, n)
  BY <1>1, <1>4, <1>10, ZenonT(30)
<1>11. ASSUME Continue(p, [IdleTask EXCEPT !.op = op, !.acct = a, !.key = k])
       PROVE  Fresh(p, op, a, 0)
  BY <1>1, <1>5, <1>11, ZenonT(30)
<1>12. ASSUME Continue(p, [IdleTask EXCEPT !.op = op, !.acct = a])
       PROVE  Fresh(p, op, a, 0)
  BY <1>1, <1>6, <1>12, ZenonT(30)
<1>13. ASSUME Continue(p, [IdleTask EXCEPT !.op = op, !.acct = a,
                                           !.status = s])
       PROVE  Fresh(p, op, a, 0) /\ task'[p].status = s
  BY <1>1, <1>7, <1>13, ZenonT(30)
<1> QED
  BY <1>8, <1>9, <1>10, <1>11, <1>12, <1>13

\* How handlers begin.
LEMMA BeginMoves ==
  ASSUME TypeOK, NEW p \in Procs
  PROVE  /\ StartBank(p) =>
              Fresh(p, "bank_consume", NoId,
                    actionToken["CREATE_BANK_ACCOUNT"])
         /\ StartPix(p) =>
              Fresh(p, "pix_consume", NoId, actionToken["PIX_KEY_UPDATE"])
         /\ StartApprove(p) => Fresh(p, "account_post", NoId, 0)
         /\ StartDocuments(p) => Fresh(p, "documents_post", sub.acct, 0)
         /\ StartInfo(p) => Fresh(p, "info_post", sub.acct, infos + 1)
         /\ StartCharge(p, "key_get") => Fresh(p, "key_get", sub.acct, 0)
         /\ StartCharge(p, "customer_read") =>
              Fresh(p, "customer_read", sub.acct, 0)
         /\ \A a \in Accounts : StartStatus(p, a) =>
              /\ Fresh(p, "status_write", a, 0)
              /\ task'[p].status = Head(events[a])
<1>t. /\ \A c \in Contexts : actionToken[c] \in Nat
      /\ sub.acct \in Accounts \cup {NoId}
      /\ sub.key \in Accounts \cup {NoId}
      /\ infos + 1 \in Nat
      /\ \A a \in Accounts : events[a] \in Seq(AccountStatus)
  BY OnboardingAssumption DEF TypeOK, VerificationTypeOK, AsaasTypeOK
<1>c. {"CREATE_BANK_ACCOUNT", "PIX_KEY_UPDATE"} \subseteq Contexts
  BY OnboardingAssumption
<1>o. {"bank_consume", "pix_consume", "account_post", "documents_post",
       "info_post", "key_get", "customer_read", "status_write"} \subseteq Ops
  BY DEF Ops
<1>s. "none" \in SubStatus
  BY DEF SubStatus
<1>1. ASSUME StartBank(p)
      PROVE  Fresh(p, "bank_consume", NoId,
                   actionToken["CREATE_BANK_ACCOUNT"])
  <2> DEFINE n == actionToken["CREATE_BANK_ACCOUNT"]
  <2>1. n \in Nat
    BY <1>t, <1>c
  <2>2. Continue(p, [IdleTask EXCEPT !.op = "bank_consume", !.n = n])
    BY <1>1 DEF StartBank, StartWithToken, Start
  <2> HIDE DEF n
  <2>3. Fresh(p, "bank_consume", NoId, n)
    BY <1>t, <1>o, <1>s, <2>1, <2>2, Started, Zenon
  <2> QED
    BY <2>3 DEF n
<1>2. ASSUME StartPix(p)
      PROVE  Fresh(p, "pix_consume", NoId, actionToken["PIX_KEY_UPDATE"])
  <2> DEFINE n == actionToken["PIX_KEY_UPDATE"]
  <2>1. n \in Nat
    BY <1>t, <1>c
  <2>2. Continue(p, [IdleTask EXCEPT !.op = "pix_consume", !.n = n])
    BY <1>2 DEF StartPix, StartWithToken, Start
  <2> HIDE DEF n
  <2>3. Fresh(p, "pix_consume", NoId, n)
    BY <1>t, <1>o, <1>s, <2>1, <2>2, Started, Zenon
  <2> QED
    BY <2>3 DEF n
<1>3. ASSUME StartApprove(p)
      PROVE  Fresh(p, "account_post", NoId, 0)
  <2>1. Continue(p, [IdleTask EXCEPT !.op = "account_post",
                                     !.by = "approve"])
    BY <1>3 DEF StartApprove, Start
  <2> QED
    BY <1>t, <1>o, <1>s, <2>1, Started, Zenon
<1>4. ASSUME NEW op \in Ops, NEW n \in Nat, StartWithKey(p, op, n)
      PROVE  Fresh(p, op, sub.acct, n)
  <2>1. Continue(p, [IdleTask EXCEPT !.op = op, !.acct = sub.acct, !.n = n])
    BY <1>4 DEF StartWithKey, Start
  <2> QED
    BY <1>t, <1>s, <2>1, Started, Zenon
<1>5. ASSUME NEW op \in Ops, StartCharge(p, op)
      PROVE  Fresh(p, op, sub.acct, 0)
  <2>1. Continue(p, [IdleTask EXCEPT !.op = op, !.acct = sub.acct,
                                     !.key = sub.key])
    BY <1>5 DEF StartCharge, Start
  <2> QED
    BY <1>t, <1>s, <2>1, Started, Zenon
<1>6. ASSUME NEW a \in Accounts, StartStatus(p, a)
      PROVE  /\ Fresh(p, "status_write", a, 0)
             /\ task'[p].status = Head(events[a])
  <2> DEFINE h == Head(events[a])
  <2>1. h \in SubStatus
    <3>1. h \in AccountStatus
      BY <1>6, <1>t, HeadTailProperties DEF StartStatus, HasEvent
    <3> QED
      BY <3>1 DEF SubStatus
  <2>2. Continue(p, [IdleTask EXCEPT !.op = "status_write", !.acct = a,
                                     !.status = h])
    BY <1>6 DEF StartStatus, Start
  <2> HIDE DEF h
  <2>3. Fresh(p, "status_write", a, 0) /\ task'[p].status = h
    BY <1>t, <1>o, <2>1, <2>2, Started, Zenon
  <2> QED
    BY <2>3 DEF h
<1>7. /\ StartDocuments(p) => Fresh(p, "documents_post", sub.acct, 0)
      /\ StartInfo(p) => Fresh(p, "info_post", sub.acct, infos + 1)
  BY <1>4, <1>o, <1>t DEF StartDocuments, StartInfo
<1>8. /\ StartCharge(p, "key_get") => Fresh(p, "key_get", sub.acct, 0)
      /\ StartCharge(p, "customer_read") =>
           Fresh(p, "customer_read", sub.acct, 0)
  BY <1>5, <1>o
<1> QED
  BY <1>1, <1>2, <1>3, <1>6, <1>7, <1>8

\* How handlers of bank accounts and subaccounts go on.
LEMMA AccountMoves ==
  ASSUME TypeOK, NEW p \in Procs
  PROVE  /\ BankConsume(p) => Kept(p, "bank_read")
         /\ BankRead(p) =>
              \/ Fresh(p, "idle", NoId, 0)
              \/ Kept(p, "bank_write")
              \/ Kept(p, "request_find")
              \/ Kept(p, "account_post") /\ ~requireApproval
         /\ RequestFind(p) => Kept(p, "bank_write") \/ Kept(p, "request_write")
         /\ RequestWrite(p) =>
              Fresh(p, "idle", NoId, 0) \/ Kept(p, "request_tell")
         /\ RequestTell(p) => Kept(p, "bank_write")
         /\ BankWrite(p) => Fresh(p, "idle", NoId, 0)
         /\ PixConsume(p) => Kept(p, "pix_write")
         /\ PixWrite(p) => Fresh(p, "idle", NoId, 0)
         /\ \A a \in Accounts : AccountPost(p, a) =>
              \/ Fresh(p, "idle", NoId, 0)
              \/ Fresh(p, "account_write", a, task[p].n)
         /\ AccountWrite(p) => Kept(p, "url_write")
         /\ UrlWrite(p) => Kept(p, "bank_write") \/ Kept(p, "approve_tell")
         /\ ApproveTell(p) => Fresh(p, "idle", NoId, 0)
         /\ StatusWrite(p) => Kept(p, "status_answer")
         /\ StatusAnswer(p) => Fresh(p, "idle", NoId, 0)
<1> USE DEF Proceed
<1>o. {"bank_read", "bank_write", "request_find", "account_post",
       "request_write", "request_tell", "pix_write", "account_write",
       "url_write", "approve_tell", "status_answer"} \subseteq Ops
  BY DEF Ops
<1>1. BankConsume(p) => Kept(p, "bank_read")
  BY <1>o, Proceeded DEF BankConsume, Consume
<1>2. BankRead(p) => \/ Fresh(p, "idle", NoId, 0)
                     \/ Kept(p, "bank_write")
                     \/ Kept(p, "request_find")
                     \/ Kept(p, "account_post") /\ ~requireApproval
  <2> SUFFICES ASSUME BankRead(p)
               PROVE  \/ Fresh(p, "idle", NoId, 0)
                      \/ Kept(p, "bank_write")
                      \/ Kept(p, "request_find")
                      \/ Kept(p, "account_post") /\ ~requireApproval
    OBVIOUS
  <2>1. \/ Finish(p)
        \/ Proceed(p, "bank_write")
        \/ Proceed(p, "request_find")
        \/ Proceed(p, "account_post") /\ ~requireApproval
    BY DEF BankRead
  <2> QED
    BY <1>o, <2>1, Finished, Proceeded
<1>3. RequestFind(p) => Kept(p, "bank_write") \/ Kept(p, "request_write")
  <2>1. RequestFind(p) =>
          Proceed(p, "bank_write") \/ Proceed(p, "request_write")
    BY DEF RequestFind
  <2> QED
    BY <1>o, <2>1, Proceeded
<1>4. RequestWrite(p) => Fresh(p, "idle", NoId, 0) \/ Kept(p, "request_tell")
  BY <1>o, Finished, Proceeded DEF RequestWrite
<1>5. RequestTell(p) => Kept(p, "bank_write")
  BY <1>o, Proceeded DEF RequestTell
<1>6. /\ BankWrite(p) => Fresh(p, "idle", NoId, 0)
      /\ PixWrite(p) => Fresh(p, "idle", NoId, 0)
      /\ ApproveTell(p) => Fresh(p, "idle", NoId, 0)
      /\ StatusAnswer(p) => Fresh(p, "idle", NoId, 0)
  BY Finished DEF BankWrite, PixWrite, ApproveTell, StatusAnswer
<1>7. PixConsume(p) => Kept(p, "pix_write")
  BY <1>o, Proceeded DEF PixConsume, Consume
<1>8. ASSUME NEW a \in Accounts, AccountPost(p, a)
      PROVE  \/ Fresh(p, "idle", NoId, 0)
             \/ Fresh(p, "account_write", a, task[p].n)
  <2> DEFINE t == [task[p] EXCEPT !.op = "account_write", !.acct = a]
  <2>1. Continue(p, t) \/ Finish(p)
    BY <1>8 DEF AccountPost, Answer
  <2>2. task[p] \in Task
    BY DEF TypeOK, Task
  <2>3. /\ t \in Task
        /\ t.op = "account_write"
        /\ t.acct = a
        /\ t.n = task[p].n
    BY <1>o, <2>2 DEF Task
  <2> HIDE DEF t
  <2> QED
    BY <2>1, <2>3, Continued, Finished DEF Fresh
<1>9. AccountWrite(p) => Kept(p, "url_write")
  BY <1>o, Proceeded DEF AccountWrite
<1>10. UrlWrite(p) => Kept(p, "bank_write") \/ Kept(p, "approve_tell")
  <2>1. UrlWrite(p) => Proceed(p, "bank_write") \/ Proceed(p, "approve_tell")
    BY DEF UrlWrite
  <2> QED
    BY <1>o, <2>1, Proceeded
<1>11. StatusWrite(p) => Kept(p, "status_answer")
  BY <1>o, Proceeded DEF StatusWrite
<1> QED
  BY <1>1, <1>2, <1>3, <1>4, <1>5, <1>6, <1>7, <1>8, <1>9, <1>10, <1>11

\* How handlers of documents, commercial data and charges go on.
LEMMA ChargeMoves ==
  ASSUME TypeOK, NEW p \in Procs
  PROVE  /\ DocumentsPost(p) => Fresh(p, "idle", NoId, 0)
         /\ InfoPost(p) => Fresh(p, "idle", NoId, 0) \/ Kept(p, "info_write")
         /\ InfoWrite(p) => Fresh(p, "idle", NoId, 0)
         /\ KeyGet(p) => Kept(p, "customer_read") \/ Kept(p, "key_find")
         /\ KeyFind(p) => Kept(p, "key_write") \/ Kept(p, "key_post")
         /\ KeyPost(p) => Fresh(p, "idle", NoId, 0) \/ Kept(p, "key_write")
         /\ KeyWrite(p) => Kept(p, "customer_read")
         /\ CustomerRead(p) => Fresh(p, "customer_find", sub.acct, 0)
         /\ CustomerFind(p) =>
              Fresh(p, "idle", NoId, 0) \/ Kept(p, "customer_post")
         /\ \A c \in Customers : CustomerPost(p, c) =>
              \/ Fresh(p, "idle", NoId, 0)
              \/ /\ Fresh(p, "customer_write", task[p].acct, task[p].n)
                 /\ task'[p].customer = c
         /\ CustomerWrite(p) => Fresh(p, "idle", NoId, 0)
         /\ PostFails(p) => Fresh(p, "idle", NoId, 0)
         /\ Crash(p) => Fresh(p, "idle", NoId, 0)
<1> USE DEF Proceed
<1>o. {"info_write", "customer_read", "key_find", "key_write", "key_post",
       "customer_find", "customer_post", "customer_write"} \subseteq Ops
  BY DEF Ops
<1>1. /\ DocumentsPost(p) => Fresh(p, "idle", NoId, 0)
      /\ InfoWrite(p) => Fresh(p, "idle", NoId, 0)
      /\ CustomerWrite(p) => Fresh(p, "idle", NoId, 0)
      /\ PostFails(p) => Fresh(p, "idle", NoId, 0)
      /\ Crash(p) => Fresh(p, "idle", NoId, 0)
  BY Finished DEF DocumentsPost, InfoWrite, CustomerWrite, PostFails, Crash
<1>2. InfoPost(p) => Fresh(p, "idle", NoId, 0) \/ Kept(p, "info_write")
  BY <1>o, Finished, Proceeded, Zenon DEF InfoPost, Answer
<1>3. KeyGet(p) => Kept(p, "customer_read") \/ Kept(p, "key_find")
  BY <1>o, Proceeded, Zenon DEF KeyGet
<1>4. KeyFind(p) => Kept(p, "key_write") \/ Kept(p, "key_post")
  <2>1. KeyFind(p) => Proceed(p, "key_write") \/ Proceed(p, "key_post")
    BY DEF KeyFind
  <2> QED
    BY <1>o, <2>1, Proceeded
<1>5. KeyPost(p) => Fresh(p, "idle", NoId, 0) \/ Kept(p, "key_write")
  BY <1>o, Finished, Proceeded, Zenon DEF KeyPost, Answer
<1>6. KeyWrite(p) => Kept(p, "customer_read")
  BY <1>o, Proceeded DEF KeyWrite
<1>7. CustomerRead(p) => Fresh(p, "customer_find", sub.acct, 0)
  <2> SUFFICES ASSUME CustomerRead(p)
               PROVE  Fresh(p, "customer_find", sub.acct, 0)
    OBVIOUS
  <2>1. Continue(p, [IdleTask EXCEPT !.op = "customer_find",
                                     !.acct = sub.acct])
    BY DEF CustomerRead
  <2>2. sub.acct \in Accounts \cup {NoId} /\ "none" \in SubStatus
    BY DEF TypeOK, SubStatus
  <2> QED
    BY <1>o, <2>1, <2>2, Started, Zenon
<1>8. CustomerFind(p) => Fresh(p, "idle", NoId, 0) \/ Kept(p, "customer_post")
  BY <1>o, Finished, Proceeded DEF CustomerFind
<1>9. ASSUME NEW c \in Customers, CustomerPost(p, c)
      PROVE  \/ Fresh(p, "idle", NoId, 0)
             \/ /\ Fresh(p, "customer_write", task[p].acct, task[p].n)
                /\ task'[p].customer = c
  <2> DEFINE t == [task[p] EXCEPT !.op = "customer_write", !.customer = c]
  <2>1. Continue(p, t) \/ Finish(p)
    BY <1>9 DEF CustomerPost, Answer
  <2>2. task[p] \in Task
    BY DEF TypeOK, Task
  <2>3. /\ t \in Task
        /\ t.op = "customer_write"
        /\ t.acct = task[p].acct
        /\ t.customer = c
        /\ t.n = task[p].n
    BY <1>o, <2>2 DEF Task
  <2> HIDE DEF t
  <2> QED
    BY <2>1, <2>3, Continued, Finished DEF Fresh
<1> QED
  BY <1>1, <1>2, <1>3, <1>4, <1>5, <1>6, <1>7, <1>8, <1>9

\* Handlers act, or all are left alone.
LEMMA HandlerStep ==
  ASSUME [Next]_vars
  PROVE  \/ UNCHANGED task
         \/ \E p \in Procs :
              \/ Begin(p)
              \/ Step(p)
              \/ Crash(p)
              \/ \E a \in Accounts : StartStatus(p, a)
BY DEF Next, vars, Grant, ForgetToken, Asaas

-----------------------------------------------------------------------------
(* What each step changes.                                                 *)

\* The row of the subaccount is written by these.
LEMMA SubStep ==
  ASSUME [Next]_vars
  PROVE  \/ UNCHANGED sub
         \/ \E p \in Procs :
              \/ RequestWrite(p)
              \/ AccountWrite(p)
              \/ UrlWrite(p)
              \/ StatusWrite(p)
              \/ KeyWrite(p)
<1> USE DEF rows
<1>1. CASE UNCHANGED vars
  BY <1>1 DEF vars
<1>2. CASE \/ (\E c \in Contexts : Grant(c)) \/ ForgetToken \/ Asaas
  BY <1>2 DEF Grant, ForgetToken, Asaas
<1>3. ASSUME NEW p \in Procs,
             \/ StartBank(p) \/ StartPix(p) \/ StartApprove(p)
             \/ StartDocuments(p) \/ StartInfo(p) \/ StartCharge(p, "key_get")
             \/ StartCharge(p, "customer_read")
             \/ (\E a \in Accounts : StartStatus(p, a)) \/ Crash(p)
      PROVE  UNCHANGED sub
  BY <1>3 DEF StartBank, StartWithToken, StartPix, StartApprove,
              StartDocuments, StartInfo, StartCharge, StartStatus, Crash
<1>4. ASSUME NEW p \in Procs,
             \/ BankConsume(p) \/ BankRead(p) \/ RequestFind(p)
             \/ RequestTell(p) \/ BankWrite(p) \/ PixConsume(p) \/ PixWrite(p)
             \/ (\E a \in Accounts : AccountPost(p, a)) \/ ApproveTell(p)
             \/ StatusAnswer(p)
      PROVE  UNCHANGED sub
  BY <1>4 DEF BankConsume, Consume, BankRead, RequestFind, RequestTell,
              BankWrite, PixConsume, PixWrite, AccountPost, ApproveTell,
              StatusAnswer
<1>5. ASSUME NEW p \in Procs,
             \/ DocumentsPost(p) \/ InfoPost(p) \/ InfoWrite(p) \/ KeyGet(p)
             \/ KeyFind(p) \/ KeyPost(p) \/ CustomerRead(p) \/ CustomerFind(p)
             \/ (\E c \in Customers : CustomerPost(p, c)) \/ CustomerWrite(p)
             \/ PostFails(p)
      PROVE  UNCHANGED sub
  BY <1>5 DEF DocumentsPost, InfoPost, InfoWrite, KeyGet, KeyFind, KeyPost,
              CustomerRead, CustomerFind, CustomerPost, CustomerWrite,
              PostFails
<1> QED
  BY <1>1, <1>2, <1>3, <1>4, <1>5 DEF Next, Begin, Step

\* The other rows are written by one or two steps each.
LEMMA RowsStep ==
  ASSUME [Next]_vars
  PROVE  \/ UNCHANGED <<pix, customer, local>>
         \/ \E p \in Procs :
              \/ BankWrite(p)
              \/ PixWrite(p)
              \/ InfoWrite(p)
              \/ CustomerWrite(p)
<1> USE DEF rows
<1>1. CASE UNCHANGED vars
  BY <1>1 DEF vars
<1>2. CASE \/ (\E c \in Contexts : Grant(c)) \/ ForgetToken \/ Asaas
  BY <1>2 DEF Grant, ForgetToken, Asaas
<1>3. ASSUME NEW p \in Procs,
             \/ StartBank(p) \/ StartPix(p) \/ StartApprove(p)
             \/ StartDocuments(p) \/ StartInfo(p) \/ StartCharge(p, "key_get")
             \/ StartCharge(p, "customer_read")
             \/ (\E a \in Accounts : StartStatus(p, a)) \/ Crash(p)
      PROVE  UNCHANGED <<pix, customer, local>>
  BY <1>3 DEF StartBank, StartWithToken, StartPix, StartApprove,
              StartDocuments, StartInfo, StartCharge, StartStatus, Crash
<1>4. ASSUME NEW p \in Procs,
             \/ BankConsume(p) \/ BankRead(p) \/ RequestFind(p)
             \/ RequestWrite(p) \/ RequestTell(p) \/ PixConsume(p)
             \/ (\E a \in Accounts : AccountPost(p, a)) \/ AccountWrite(p)
             \/ UrlWrite(p) \/ ApproveTell(p) \/ StatusWrite(p)
             \/ StatusAnswer(p)
      PROVE  UNCHANGED <<pix, customer, local>>
  BY <1>4 DEF BankConsume, Consume, BankRead, RequestFind, RequestWrite,
              RequestTell, PixConsume, AccountPost, AccountWrite, UrlWrite,
              ApproveTell, StatusWrite, StatusAnswer
<1>5. ASSUME NEW p \in Procs,
             \/ DocumentsPost(p) \/ InfoPost(p) \/ KeyGet(p) \/ KeyFind(p)
             \/ KeyPost(p) \/ KeyWrite(p) \/ CustomerRead(p) \/ CustomerFind(p)
             \/ (\E c \in Customers : CustomerPost(p, c)) \/ PostFails(p)
      PROVE  UNCHANGED <<pix, customer, local>>
  BY <1>5 DEF DocumentsPost, InfoPost, KeyGet, KeyFind, KeyPost, KeyWrite,
              CustomerRead, CustomerFind, CustomerPost, PostFails
<1> QED
  BY <1>1, <1>2, <1>3, <1>4, <1>5 DEF Next, Begin, Step

\* Asaas acts of itself, or is asked to.
LEMMA AsaasStep ==
  ASSUME [Next]_vars
  PROVE  \/ UNCHANGED <<asaasVars, reviewed>>
         \/ Asaas
         \/ \E p \in Procs :
              \/ \E a \in Accounts : AccountPost(p, a)
              \/ StatusAnswer(p)
              \/ DocumentsPost(p)
              \/ InfoPost(p)
              \/ KeyPost(p)
              \/ \E c \in Customers : CustomerPost(p, c)
<1>1. CASE UNCHANGED vars
  BY <1>1 DEF vars
<1>2. CASE \/ (\E c \in Contexts : Grant(c)) \/ ForgetToken
  BY <1>2 DEF Grant, ForgetToken
<1>3. ASSUME NEW p \in Procs,
             \/ StartBank(p) \/ StartPix(p) \/ StartApprove(p)
             \/ StartDocuments(p) \/ StartInfo(p) \/ StartCharge(p, "key_get")
             \/ StartCharge(p, "customer_read")
             \/ (\E a \in Accounts : StartStatus(p, a)) \/ Crash(p)
      PROVE  UNCHANGED <<asaasVars, reviewed>>
  BY <1>3 DEF StartBank, StartWithToken, StartPix, StartApprove,
              StartDocuments, StartInfo, StartCharge, StartStatus, Crash
<1>4. ASSUME NEW p \in Procs,
             \/ BankConsume(p) \/ BankRead(p) \/ RequestFind(p)
             \/ RequestWrite(p) \/ RequestTell(p) \/ BankWrite(p)
             \/ PixConsume(p) \/ PixWrite(p) \/ AccountWrite(p) \/ UrlWrite(p)
             \/ ApproveTell(p) \/ StatusWrite(p)
      PROVE  UNCHANGED <<asaasVars, reviewed>>
  BY <1>4 DEF BankConsume, Consume, BankRead, RequestFind, RequestWrite,
              RequestTell, BankWrite, PixConsume, PixWrite, AccountWrite,
              UrlWrite, ApproveTell, StatusWrite
<1>5. ASSUME NEW p \in Procs,
             \/ InfoWrite(p) \/ KeyGet(p) \/ KeyFind(p) \/ KeyWrite(p)
             \/ CustomerRead(p) \/ CustomerFind(p) \/ CustomerWrite(p)
             \/ PostFails(p)
      PROVE  UNCHANGED <<asaasVars, reviewed>>
  BY <1>5 DEF InfoWrite, KeyGet, KeyFind, KeyWrite, CustomerRead, CustomerFind,
              CustomerWrite, PostFails
<1> QED
  BY <1>1, <1>2, <1>3, <1>4, <1>5 DEF Next, Begin, Step

\* An approval and a replaced account are remembered.
LEMMA HistoryStep ==
  ASSUME [Next]_vars
  PROVE  \/ UNCHANGED history
         \/ \E p \in Procs :
              \/ StartApprove(p)
              \/ AccountWrite(p)
<1>1. CASE UNCHANGED vars
  BY <1>1 DEF vars
<1>2. CASE \/ (\E c \in Contexts : Grant(c)) \/ ForgetToken \/ Asaas
  BY <1>2 DEF Grant, ForgetToken, Asaas
<1>3. ASSUME NEW p \in Procs,
             \/ StartBank(p) \/ StartPix(p) \/ StartDocuments(p)
             \/ StartInfo(p) \/ StartCharge(p, "key_get")
             \/ StartCharge(p, "customer_read")
             \/ (\E a \in Accounts : StartStatus(p, a)) \/ Crash(p)
      PROVE  UNCHANGED history
  BY <1>3 DEF StartBank, StartWithToken, StartPix, StartDocuments, StartInfo,
              StartCharge, StartStatus, Crash
<1>4. ASSUME NEW p \in Procs,
             \/ BankConsume(p) \/ BankRead(p) \/ RequestFind(p)
             \/ RequestWrite(p) \/ RequestTell(p) \/ BankWrite(p)
             \/ PixConsume(p) \/ PixWrite(p)
             \/ (\E a \in Accounts : AccountPost(p, a)) \/ UrlWrite(p)
             \/ ApproveTell(p) \/ StatusWrite(p) \/ StatusAnswer(p)
      PROVE  UNCHANGED history
  BY <1>4 DEF BankConsume, Consume, BankRead, RequestFind, RequestWrite,
              RequestTell, BankWrite, PixConsume, PixWrite, AccountPost,
              UrlWrite, ApproveTell, StatusWrite, StatusAnswer
<1>5. ASSUME NEW p \in Procs,
             \/ DocumentsPost(p) \/ InfoPost(p) \/ InfoWrite(p) \/ KeyGet(p)
             \/ KeyFind(p) \/ KeyPost(p) \/ KeyWrite(p) \/ CustomerRead(p)
             \/ CustomerFind(p) \/ (\E c \in Customers : CustomerPost(p, c))
             \/ CustomerWrite(p) \/ PostFails(p)
      PROVE  UNCHANGED history
  BY <1>5 DEF DocumentsPost, InfoPost, InfoWrite, KeyGet, KeyFind, KeyPost,
              KeyWrite, CustomerRead, CustomerFind, CustomerPost,
              CustomerWrite, PostFails
<1> QED
  BY <1>1, <1>2, <1>3, <1>4, <1>5 DEF Next, Begin, Step

\* Tokens are given, consumed, and forgotten.
LEMMA TokensStep ==
  ASSUME [Next]_vars
  PROVE  \/ UNCHANGED <<tokens, verificationVars>>
         \/ \E c \in Contexts : Grant(c)
         \/ ForgetToken
         \/ \E p \in Procs :
              \/ BankConsume(p)
              \/ PixConsume(p)
<1>1. CASE UNCHANGED vars
  BY <1>1 DEF vars
<1>2. CASE \/ Asaas
  BY <1>2 DEF Asaas
<1>3. ASSUME NEW p \in Procs,
             \/ StartBank(p) \/ StartPix(p) \/ StartApprove(p)
             \/ StartDocuments(p) \/ StartInfo(p) \/ StartCharge(p, "key_get")
             \/ StartCharge(p, "customer_read")
             \/ (\E a \in Accounts : StartStatus(p, a)) \/ Crash(p)
      PROVE  UNCHANGED <<tokens, verificationVars>>
  BY <1>3 DEF StartBank, StartWithToken, StartPix, StartApprove,
              StartDocuments, StartInfo, StartCharge, StartStatus, Crash
<1>4. ASSUME NEW p \in Procs,
             \/ BankRead(p) \/ RequestFind(p) \/ RequestWrite(p)
             \/ RequestTell(p) \/ BankWrite(p) \/ PixWrite(p)
             \/ (\E a \in Accounts : AccountPost(p, a)) \/ AccountWrite(p)
             \/ UrlWrite(p) \/ ApproveTell(p) \/ StatusWrite(p)
             \/ StatusAnswer(p)
      PROVE  UNCHANGED <<tokens, verificationVars>>
  BY <1>4 DEF BankRead, RequestFind, RequestWrite, RequestTell, BankWrite,
              PixWrite, AccountPost, AccountWrite, UrlWrite, ApproveTell,
              StatusWrite, StatusAnswer
<1>5. ASSUME NEW p \in Procs,
             \/ DocumentsPost(p) \/ InfoPost(p) \/ InfoWrite(p) \/ KeyGet(p)
             \/ KeyFind(p) \/ KeyPost(p) \/ KeyWrite(p) \/ CustomerRead(p)
             \/ CustomerFind(p) \/ (\E c \in Customers : CustomerPost(p, c))
             \/ CustomerWrite(p) \/ PostFails(p)
      PROVE  UNCHANGED <<tokens, verificationVars>>
  BY <1>5 DEF DocumentsPost, InfoPost, InfoWrite, KeyGet, KeyFind, KeyPost,
              KeyWrite, CustomerRead, CustomerFind, CustomerPost,
              CustomerWrite, PostFails
<1> QED
  BY <1>1, <1>2, <1>3, <1>4, <1>5 DEF Next, Begin, Step

\* Updates are counted as they begin, failures as they occur.
LEMMA CountsStep ==
  ASSUME [Next]_vars
  PROVE  \/ UNCHANGED <<infos, crashes>>
         \/ \E p \in Procs :
              \/ StartInfo(p)
              \/ Crash(p)
<1>1. CASE UNCHANGED vars
  BY <1>1 DEF vars
<1>2. CASE \/ (\E c \in Contexts : Grant(c)) \/ ForgetToken \/ Asaas
  BY <1>2 DEF Grant, ForgetToken, Asaas
<1>3. ASSUME NEW p \in Procs,
             \/ StartBank(p) \/ StartPix(p) \/ StartApprove(p)
             \/ StartDocuments(p) \/ StartCharge(p, "key_get")
             \/ StartCharge(p, "customer_read")
             \/ (\E a \in Accounts : StartStatus(p, a))
      PROVE  UNCHANGED <<infos, crashes>>
  BY <1>3 DEF StartBank, StartWithToken, StartPix, StartApprove,
              StartDocuments, StartCharge, StartStatus
<1>4. ASSUME NEW p \in Procs,
             \/ BankConsume(p) \/ BankRead(p) \/ RequestFind(p)
             \/ RequestWrite(p) \/ RequestTell(p) \/ BankWrite(p)
             \/ PixConsume(p) \/ PixWrite(p)
             \/ (\E a \in Accounts : AccountPost(p, a)) \/ AccountWrite(p)
             \/ UrlWrite(p) \/ ApproveTell(p) \/ StatusWrite(p)
             \/ StatusAnswer(p)
      PROVE  UNCHANGED <<infos, crashes>>
  BY <1>4 DEF BankConsume, Consume, BankRead, RequestFind, RequestWrite,
              RequestTell, BankWrite, PixConsume, PixWrite, AccountPost,
              AccountWrite, UrlWrite, ApproveTell, StatusWrite, StatusAnswer
<1>5. ASSUME NEW p \in Procs,
             \/ DocumentsPost(p) \/ InfoPost(p) \/ InfoWrite(p) \/ KeyGet(p)
             \/ KeyFind(p) \/ KeyPost(p) \/ KeyWrite(p) \/ CustomerRead(p)
             \/ CustomerFind(p) \/ (\E c \in Customers : CustomerPost(p, c))
             \/ CustomerWrite(p) \/ PostFails(p)
      PROVE  UNCHANGED <<infos, crashes>>
  BY <1>5 DEF DocumentsPost, InfoPost, InfoWrite, KeyGet, KeyFind, KeyPost,
              KeyWrite, CustomerRead, CustomerFind, CustomerPost,
              CustomerWrite, PostFails
<1> QED
  BY <1>1, <1>2, <1>3, <1>4, <1>5 DEF Next, Begin, Step

\* The flag stays as it is.
LEMMA FlagStep ==
  ASSUME [Next]_vars
  PROVE  UNCHANGED requireApproval
<1>1. CASE UNCHANGED vars
  BY <1>1 DEF vars
<1>2. CASE \/ (\E c \in Contexts : Grant(c)) \/ ForgetToken \/ Asaas
  BY <1>2 DEF Grant, ForgetToken, Asaas
<1>3. ASSUME NEW p \in Procs,
             \/ StartBank(p) \/ StartPix(p) \/ StartApprove(p)
             \/ StartDocuments(p) \/ StartInfo(p) \/ StartCharge(p, "key_get")
             \/ StartCharge(p, "customer_read")
             \/ (\E a \in Accounts : StartStatus(p, a)) \/ Crash(p)
      PROVE  UNCHANGED requireApproval
  BY <1>3 DEF StartBank, StartWithToken, StartPix, StartApprove,
              StartDocuments, StartInfo, StartCharge, StartStatus, Crash
<1>4. ASSUME NEW p \in Procs,
             \/ BankConsume(p) \/ BankRead(p) \/ RequestFind(p)
             \/ RequestWrite(p) \/ RequestTell(p) \/ BankWrite(p)
             \/ PixConsume(p) \/ PixWrite(p)
             \/ (\E a \in Accounts : AccountPost(p, a)) \/ AccountWrite(p)
             \/ UrlWrite(p) \/ ApproveTell(p) \/ StatusWrite(p)
             \/ StatusAnswer(p)
      PROVE  UNCHANGED requireApproval
  BY <1>4 DEF BankConsume, Consume, BankRead, RequestFind, RequestWrite,
              RequestTell, BankWrite, PixConsume, PixWrite, AccountPost,
              AccountWrite, UrlWrite, ApproveTell, StatusWrite, StatusAnswer
<1>5. ASSUME NEW p \in Procs,
             \/ DocumentsPost(p) \/ InfoPost(p) \/ InfoWrite(p) \/ KeyGet(p)
             \/ KeyFind(p) \/ KeyPost(p) \/ KeyWrite(p) \/ CustomerRead(p)
             \/ CustomerFind(p) \/ (\E c \in Customers : CustomerPost(p, c))
             \/ CustomerWrite(p) \/ PostFails(p)
      PROVE  UNCHANGED requireApproval
  BY <1>5 DEF DocumentsPost, InfoPost, InfoWrite, KeyGet, KeyFind, KeyPost,
              KeyWrite, CustomerRead, CustomerFind, CustomerPost,
              CustomerWrite, PostFails
<1> QED
  BY <1>1, <1>2, <1>3, <1>4, <1>5 DEF Next, Begin, Step

-----------------------------------------------------------------------------
(* Asaas.                                                                  *)

\* An account is made by the handler that asks for it, and is never undone.
LEMMA MadeStep ==
  ASSUME TypeOK, [Next]_vars
  PROVE  /\ account' \in [Accounts -> [status : AccountStatus,
                                       documents : BOOLEAN]]
         /\ Made \subseteq Made'
         /\ \/ Made' = Made
            \/ \E p \in Procs, a \in Accounts :
                 AccountPost(p, a) /\ a \in Made'
<1>t. account \in [Accounts -> [status : AccountStatus, documents : BOOLEAN]]
  BY DEF TypeOK, AsaasTypeOK
<1> DEFINE Same == /\ account' \in [Accounts -> [status : AccountStatus,
                                                 documents : BOOLEAN]]
                   /\ Made' = Made
<1>d. ASSUME NEW a, PostDocuments(a)
      PROVE  Same
  BY <1>d, <1>t DEF PostDocuments, Made
<1>r. ASSUME NEW a \in Accounts, NEW s, Review(a, s)
      PROVE  Same
  <2>1. /\ account' = [account EXCEPT ![a] = [status |-> s,
                                              documents |-> s = "APPROVED"]]
        /\ s \in {"APPROVED", "REJECTED"}
        /\ account[a].status \in {"PENDING", "REJECTED"}
    BY <1>r DEF Review
  <2>2. [status |-> s, documents |-> s = "APPROVED"] \in
          [status : AccountStatus, documents : BOOLEAN]
    BY <2>1 DEF AccountStatus
  <2>3. \A b \in Accounts :
          account'[b].status # "absent" <=> account[b].status # "absent"
    BY <2>1, <1>t
  <2> QED
    BY <2>1, <2>2, <2>3, <1>t DEF Made
<1>1. CASE UNCHANGED <<asaasVars, reviewed>>
  BY <1>1, <1>t DEF asaasVars, Made
<1>2. CASE Asaas
  <2>1. PICK a \in Accounts :
          \/ PostDocuments(a)
          \/ \E s \in {"APPROVED", "REJECTED"} : Review(a, s)
          \/ DropKey(a)
    BY <1>2 DEF Asaas
  <2>2. CASE DropKey(a)
    BY <2>2, <1>t DEF DropKey, Made
  <2> QED
    BY <2>1, <2>2, <1>d, <1>r
<1>3. ASSUME NEW p \in Procs, NEW a \in Accounts, AccountPost(p, a)
      PROVE  /\ account' \in [Accounts -> [status : AccountStatus,
                                           documents : BOOLEAN]]
             /\ Made \subseteq Made'
             /\ a \in Made'
  <2>1. account' = [account EXCEPT ![a] = [status |-> "PENDING",
                                           documents |-> FALSE]]
    BY <1>3 DEF AccountPost, PostAccount
  <2> QED
    BY <2>1, <1>t DEF Made, AccountStatus
<1>4. ASSUME NEW p \in Procs, DocumentsPost(p)
      PROVE  Same
  <2>1. UNCHANGED account \/ PostDocuments(task[p].acct)
    BY <1>4 DEF DocumentsPost, asaasVars
  <2>2. CASE UNCHANGED account
    BY <2>2, <1>t DEF Made
  <2> QED
    BY <2>1, <2>2, <1>d
<1>5. ASSUME NEW p \in Procs,
             \/ InfoPost(p) \/ KeyPost(p) \/ StatusAnswer(p)
             \/ (\E c \in Customers : CustomerPost(p, c))
      PROVE  Same
  <2>1. UNCHANGED account
    BY <1>5 DEF InfoPost, KeyPost, StatusAnswer, CustomerPost, PostInfo,
                PostKey, Answered, PostCustomer
  <2> QED
    BY <2>1, <1>t DEF Made
<1> QED
  BY <1>1, <1>2, <1>3, <1>4, <1>5, AsaasStep

\* What Asaas was told stays; a customer stays in its account.
LEMMA ToldStep ==
  ASSUME TypeOK, [Next]_vars
  PROVE  /\ told \subseteq told'
         /\ told' = told \/ \E p \in Procs : InfoPost(p)
         /\ \A c \in Customers : customerOf[c] # NoId =>
              customerOf'[c] = customerOf[c]
         /\ customerOf' = customerOf
              \/ \E p \in Procs, c \in Customers : CustomerPost(p, c)
         /\ \/ evp' \subseteq evp
            \/ \E p \in Procs : KeyPost(p)
<1>t. customerOf \in [Customers -> Accounts \cup {NoId}]
  BY DEF TypeOK, AsaasTypeOK
<1>1. CASE UNCHANGED <<asaasVars, reviewed>>
  BY <1>1 DEF asaasVars
<1>2. CASE Asaas
  BY <1>2 DEF Asaas, PostDocuments, Review, DropKey
<1>3. ASSUME NEW p \in Procs, NEW a \in Accounts, AccountPost(p, a)
      PROVE  UNCHANGED <<told, customerOf, evp>>
  BY <1>3 DEF AccountPost, PostAccount
<1>4. ASSUME NEW p \in Procs, DocumentsPost(p) \/ StatusAnswer(p)
      PROVE  UNCHANGED <<told, customerOf, evp>>
  BY <1>4 DEF DocumentsPost, PostDocuments, StatusAnswer, Answered,
              asaasVars
<1>5. ASSUME NEW p \in Procs, InfoPost(p)
      PROVE  told \subseteq told' /\ UNCHANGED <<customerOf, evp>>
  BY <1>5 DEF InfoPost, PostInfo
<1>6. ASSUME NEW p \in Procs, KeyPost(p)
      PROVE  UNCHANGED <<told, customerOf>>
  BY <1>6 DEF KeyPost, PostKey
<1>7. ASSUME NEW p \in Procs, NEW c \in Customers, CustomerPost(p, c)
      PROVE  /\ UNCHANGED <<told, evp>>
             /\ \A d \in Customers : customerOf[d] # NoId =>
                  customerOf'[d] = customerOf[d]
  BY <1>7, <1>t DEF CustomerPost, PostCustomer
<1> QED
  BY <1>1, <1>2, <1>3, <1>4, <1>5, <1>6, <1>7, AsaasStep

\* The row keeps its account, unless that is remembered as a replacement.
LEMMA AccountStep ==
  ASSUME TypeOK, [Next]_vars
  PROVE  /\ history \subseteq history'
         /\ Replaced => Replaced'
         /\ sub'.acct = sub.acct \/ \E p \in Procs : AccountWrite(p)
         /\ \A p \in Procs : AccountWrite(p) =>
              /\ sub'.acct = task[p].acct
              /\ sub.acct # NoId => Replaced'
<1>t. sub \in [exists : BOOLEAN, acct : Accounts \cup {NoId},
               status : SubStatus, url : BOOLEAN, key : Accounts \cup {NoId}]
  BY DEF TypeOK
<1>1. history \subseteq history'
  BY HistoryStep DEF StartApprove, AccountWrite
<1>2. sub'.acct = sub.acct \/ \E p \in Procs : AccountWrite(p)
  <2>1. ASSUME NEW p \in Procs, RequestWrite(p)
        PROVE  sub'.acct = sub.acct
    BY <2>1, <1>t DEF RequestWrite
  <2>2. ASSUME NEW p \in Procs, UrlWrite(p)
        PROVE  sub'.acct = sub.acct
    BY <2>2, <1>t DEF UrlWrite
  <2>3. ASSUME NEW p \in Procs, KeyWrite(p)
        PROVE  sub'.acct = sub.acct
    BY <2>3, <1>t DEF KeyWrite
  <2>4. ASSUME NEW p \in Procs, StatusWrite(p)
        PROVE  sub'.acct = sub.acct
    BY <2>4, <1>t DEF StatusWrite
  <2> QED
    BY <2>1, <2>2, <2>3, <2>4, SubStep
<1>3. ASSUME NEW p \in Procs, AccountWrite(p)
      PROVE  /\ sub'.acct = task[p].acct
             /\ sub.acct # NoId => Replaced'
  <2>1. sub'.acct = task[p].acct
    BY <1>3, <1>t DEF AccountWrite
  <2>2. sub.acct # NoId => Replaced'
    BY <1>3 DEF AccountWrite, Replaced
  <2> QED
    BY <2>1, <2>2
<1> QED
  BY <1>1, <1>2, <1>3 DEF Replaced

-----------------------------------------------------------------------------
(* The accounts in the handlers' hands.                                    *)

\* Each handler's account is one that was made, and the row's.
LEMMA TasksStep == TypeOK /\ TasksInv /\ [Next]_vars => TasksInv'
<1> SUFFICES ASSUME TypeOK, TasksInv, [Next]_vars PROVE TasksInv'
  OBVIOUS
<1>m. /\ Made \subseteq Made'
      /\ history \subseteq history'
      /\ Replaced => Replaced'
      /\ requireApproval' = requireApproval
  BY MadeStep, AccountStep, FlagStep
<1>n. NoId \notin Made
  BY AsaasAccountsAssumption DEF Made
<1>s. /\ sub.acct # NoId => sub'.acct # NoId
      /\ sub.acct # NoId /\ ~Replaced' => sub'.acct = sub.acct
  <2>1. ASSUME NEW p \in Procs, AccountWrite(p)
        PROVE  sub'.acct # NoId /\ (sub.acct # NoId => Replaced')
    <3>1. task[p].acct \in Made
      BY <2>1 DEF AccountWrite, At, TasksInv, AccountOK
    <3> QED
      BY <2>1, <3>1, <1>n, AccountStep
  <2> QED
    BY <2>1, AccountStep
<1>1. ASSUME NEW q \in Procs, task'[q] = task[q]
      PROVE  AccountOK(q)'
  BY <1>1, <1>m, <1>s DEF TasksInv, AccountOK
<1>2. ASSUME NEW p \in Procs, AccountOK(p)', Others(p)
      PROVE  TasksInv'
  BY <1>1, <1>2 DEF TasksInv, Others
<1>3. ASSUME NEW p \in Procs,
             NEW op, op \notin AccountOps \cup {"account_write",
                                                "account_post"},
             Kept(p, op) \/ \E a, n : Fresh(p, op, a, n)
      PROVE  TasksInv'
  <2>1. task'[p].op = op /\ Others(p)
    BY <1>3 DEF Kept, Fresh
  <2>2. AccountOK(p)'
    BY <1>3, <2>1 DEF AccountOK
  <2> QED
    BY <1>2, <2>1, <2>2
<1>4. ASSUME NEW p \in Procs, NEW op \in AccountOps, Kept(p, op),
             task[p].op \in AccountOps
      PROVE  TasksInv'
  <2>1. AccountOK(p)'
    BY <1>4, <1>m, <1>s DEF TasksInv, AccountOK, Kept, AccountOps
  <2> QED
    BY <1>2, <1>4, <2>1 DEF Kept
<1>5. ASSUME NEW p \in Procs, NEW op \in AccountOps, NEW a, NEW n,
             Fresh(p, op, a, n), a = sub.acct, sub.acct # NoId, UNCHANGED sub
      PROVE  TasksInv'
  <2>1. a \in Made
    BY <1>5 DEF TypeOK
  <2>2. AccountOK(p)'
    BY <1>5, <2>1, <1>m DEF AccountOK, Fresh, AccountOps
  <2> QED
    BY <1>2, <1>5, <2>2 DEF Fresh
<1>6. ASSUME NEW p \in Procs, Begin(p) \/ Crash(p)
      PROVE  TasksInv'
  <2>1. CASE StartBank(p) \/ StartPix(p) \/ Crash(p)
    BY <1>3, <2>1, BeginMoves, ChargeMoves DEF AccountOps
  <2>2. CASE StartApprove(p)
    <3>1. Fresh(p, "account_post", NoId, 0) /\ "approved" \in history'
      BY <2>2, BeginMoves DEF StartApprove
    <3>2. AccountOK(p)'
      BY <3>1 DEF AccountOK, Fresh, AccountOps
    <3> QED
      BY <1>2, <3>1, <3>2 DEF Fresh
  <2>3. CASE StartDocuments(p) \/ StartInfo(p)
    <3>1. sub.acct # NoId /\ UNCHANGED sub
      BY <2>3 DEF StartDocuments, StartInfo, StartWithKey, rows
    <3> QED
      BY <1>5, <2>3, <3>1, BeginMoves DEF AccountOps
  <2>4. CASE StartCharge(p, "key_get") \/ StartCharge(p, "customer_read")
    <3>1. sub.acct # NoId /\ UNCHANGED sub
      BY <2>4 DEF StartCharge, rows
    <3> QED
      BY <1>5, <2>4, <3>1, BeginMoves DEF AccountOps
  <2> QED
    BY <1>6, <2>1, <2>2, <2>3, <2>4 DEF Begin
<1>7. ASSUME NEW p \in Procs, NEW a \in Accounts, StartStatus(p, a)
      PROVE  TasksInv'
  <2>1. a = sub.acct /\ sub.acct # NoId /\ UNCHANGED sub
    BY <1>7, AsaasAccountsAssumption DEF StartStatus, Known, rows
  <2> QED
    BY <1>5, <1>7, <2>1, BeginMoves DEF AccountOps
<1>8. ASSUME NEW p \in Procs, Step(p)
      PROVE  TasksInv'
  <2>1. CASE \/ BankConsume(p) \/ RequestFind(p) \/ RequestWrite(p)
             \/ RequestTell(p) \/ BankWrite(p) \/ PixConsume(p)
             \/ PixWrite(p) \/ AccountWrite(p) \/ UrlWrite(p)
             \/ ApproveTell(p) \/ StatusAnswer(p)
    BY <1>3, <2>1, AccountMoves DEF AccountOps
  <2>2. CASE \/ DocumentsPost(p) \/ InfoWrite(p) \/ CustomerWrite(p)
             \/ PostFails(p)
    BY <1>3, <2>2, ChargeMoves DEF AccountOps
  <2>3. CASE BankRead(p)
    <3>1. ASSUME Kept(p, "account_post"), ~requireApproval
          PROVE  TasksInv'
      <4>1. AccountOK(p)'
        BY <3>1, <1>m DEF AccountOK, Kept, AccountOps
      <4> QED
        BY <1>2, <3>1, <4>1 DEF Kept
    <3> QED
      BY <1>3, <2>3, <3>1, AccountMoves DEF AccountOps
  <2>4. ASSUME NEW a \in Accounts, AccountPost(p, a)
        PROVE  TasksInv'
    <3>1. a \in Made'
      BY <2>4 DEF AccountPost, PostAccount, Made, TypeOK, AsaasTypeOK
    <3>2. ASSUME Fresh(p, "account_write", a, task[p].n)
          PROVE  TasksInv'
      <4>1. AccountOK(p)'
        BY <3>1, <3>2 DEF AccountOK, Fresh, AccountOps
      <4> QED
        BY <1>2, <3>2, <4>1 DEF Fresh
    <3> QED
      BY <1>3, <2>4, <3>2, AccountMoves DEF AccountOps
  <2>5. CASE \/ InfoPost(p) \/ KeyGet(p) \/ KeyFind(p) \/ KeyPost(p)
             \/ KeyWrite(p) \/ CustomerFind(p) \/ StatusWrite(p)
    <3>1. task[p].op \in AccountOps
      BY <2>5 DEF InfoPost, KeyGet, KeyFind, KeyPost, KeyWrite,
         CustomerFind, StatusWrite, At, AccountOps
    <3>2. {"info_write", "customer_read", "key_find", "key_write",
           "key_post", "customer_post", "status_answer"} \subseteq AccountOps
      BY DEF AccountOps
    <3>3. "idle" \notin AccountOps \cup {"account_write", "account_post"}
      BY DEF AccountOps
    <3> QED
      BY <1>3, <1>4, <2>5, <3>1, <3>2, <3>3, AccountMoves, ChargeMoves
  <2>6. CASE CustomerRead(p)
    <3>1. sub.acct # NoId /\ UNCHANGED sub
      BY <2>6 DEF CustomerRead, At, rows, TasksInv, AccountOK, AccountOps
    <3> QED
      BY <1>5, <2>6, <3>1, ChargeMoves DEF AccountOps
  <2>7. ASSUME NEW c \in Customers, CustomerPost(p, c)
        PROVE  TasksInv'
    <3>1. task[p].op \in AccountOps
      BY <2>7 DEF CustomerPost, At, AccountOps
    <3>2. ASSUME Fresh(p, "customer_write", task[p].acct, task[p].n)
          PROVE  TasksInv'
      <4>1. AccountOK(p)'
        BY <3>1, <3>2, <1>m, <1>s DEF TasksInv, AccountOK, Fresh, AccountOps
      <4> QED
        BY <1>2, <3>2, <4>1 DEF Fresh
    <3> QED
      BY <1>3, <2>7, <3>2, ChargeMoves DEF AccountOps
  <2> QED
    BY <1>8, <2>1, <2>2, <2>3, <2>4, <2>5, <2>6, <2>7 DEF Step
<1>9. CASE UNCHANGED task
  BY <1>1, <1>9 DEF TasksInv
<1> QED
  BY <1>6, <1>7, <1>8, <1>9, HandlerStep

-----------------------------------------------------------------------------
(* The events, and the numbers.                                            *)

\* The events of an account change by a review or by an answer.
LEMMA QueueStep ==
  ASSUME [Next]_vars
  PROVE  /\ \/ UNCHANGED <<events, reviewed>>
            \/ /\ \E a \in Accounts, s \in {"APPROVED", "REJECTED"} :
                    /\ events' = [events EXCEPT ![a] = Append(@, s)]
                    /\ reviewed' = [reviewed EXCEPT ![a] = @ \cup {s}]
               /\ UNCHANGED task
            \/ /\ \E p \in Procs :
                    /\ StatusAnswer(p)
                    /\ events' = [events EXCEPT ![task[p].acct] = Tail(@)]
               /\ UNCHANGED reviewed
<1>1. CASE UNCHANGED <<asaasVars, reviewed>>
  BY <1>1 DEF asaasVars
<1>2. CASE Asaas
  BY <1>2 DEF Asaas, PostDocuments, Review, DropKey
<1>3. ASSUME NEW p \in Procs, NEW a \in Accounts, AccountPost(p, a)
      PROVE  UNCHANGED <<events, reviewed>>
  BY <1>3 DEF AccountPost, PostAccount
<1>4. ASSUME NEW p \in Procs, DocumentsPost(p) \/ InfoPost(p) \/ KeyPost(p)
      PROVE  UNCHANGED <<events, reviewed>>
  BY <1>4 DEF DocumentsPost, PostDocuments, InfoPost, PostInfo, KeyPost,
              PostKey, asaasVars
<1>5. ASSUME NEW p \in Procs, NEW c \in Customers, CustomerPost(p, c)
      PROVE  UNCHANGED <<events, reviewed>>
  BY <1>5 DEF CustomerPost, PostCustomer
<1>6. ASSUME NEW p \in Procs, StatusAnswer(p)
      PROVE  /\ events' = [events EXCEPT ![task[p].acct] = Tail(@)]
             /\ UNCHANGED reviewed
  BY <1>6 DEF StatusAnswer, Answered
<1> QED
  BY <1>1, <1>2, <1>3, <1>4, <1>5, <1>6, AsaasStep

\* An event stays the first of its account until it is answered, and one
\* handler has it.
LEMMA EventsStep ==
  TypeOK /\ TasksInv /\ EventsInv /\ [Next]_vars
    => /\ EventsInv'
       /\ events' \in [Accounts -> Seq(AccountStatus)]
       /\ reviewed' \in [Accounts -> SUBSET AccountStatus]
<1> SUFFICES ASSUME TypeOK, TasksInv, EventsInv, [Next]_vars
             PROVE  /\ EventsInv'
                    /\ events' \in [Accounts -> Seq(AccountStatus)]
                    /\ reviewed' \in [Accounts -> SUBSET AccountStatus]
  OBVIOUS
<1>t. /\ events \in [Accounts -> Seq(AccountStatus)]
      /\ reviewed \in [Accounts -> SUBSET AccountStatus]
  BY DEF TypeOK, AsaasTypeOK
<1>a. \A p \in Procs : task[p].op \in StatusOps => task[p].acct \in Accounts
  BY DEF TasksInv, AccountOK, AccountOps, StatusOps, Made
<1> DEFINE Told == \A a \in Accounts : \A i \in 1..Len(events[a]) :
                     events[a][i] \in reviewed[a]
           InHand(p) == task[p].op \in StatusOps =>
                          /\ events[task[p].acct] # <<>>
                          /\ task[p].status = Head(events[task[p].acct])
           Alone(p, q) == /\ task[p].op \in StatusOps
                          /\ task[q].op \in StatusOps
                          /\ task[p].acct = task[q].acct
                          => p = q
<1>i. /\ Told
      /\ \A p \in Procs : InHand(p)
      /\ \A p, q \in Procs : Alone(p, q)
  BY DEF EventsInv
<1>1. ASSUME UNCHANGED <<events, reviewed>>
      PROVE  /\ Told'
             /\ events' \in [Accounts -> Seq(AccountStatus)]
             /\ reviewed' \in [Accounts -> SUBSET AccountStatus]
  BY <1>1, <1>i, <1>t
<1>2. ASSUME NEW a \in Accounts, NEW s \in {"APPROVED", "REJECTED"},
             events' = [events EXCEPT ![a] = Append(@, s)],
             reviewed' = [reviewed EXCEPT ![a] = @ \cup {s}],
             UNCHANGED task
      PROVE  /\ EventsInv'
             /\ events' \in [Accounts -> Seq(AccountStatus)]
             /\ reviewed' \in [Accounts -> SUBSET AccountStatus]
  <2>1. /\ Append(events[a], s) \in Seq(AccountStatus)
        /\ s \in AccountStatus
    BY <1>t DEF AccountStatus
  <2>2. /\ events' \in [Accounts -> Seq(AccountStatus)]
        /\ reviewed' \in [Accounts -> SUBSET AccountStatus]
    BY <1>2, <1>t, <2>1
  <2>3. ASSUME NEW b \in Accounts, NEW i \in 1..Len(events'[b])
        PROVE  events'[b][i] \in reviewed'[b]
    <3>1. CASE b # a
      BY <1>2, <1>i, <1>t, <2>3, <3>1
    <3>2. CASE b = a
      <4>1. /\ events'[b] = Append(events[a], s)
            /\ reviewed'[b] = reviewed[a] \cup {s}
            /\ events[a] \in Seq(AccountStatus)
        BY <1>2, <1>t, <3>2
      <4>2. /\ Len(events'[b]) = Len(events[a]) + 1
            /\ i <= Len(events[a]) => events'[b][i] = events[a][i]
            /\ i = Len(events[a]) + 1 => events'[b][i] = s
        BY <2>3, <4>1
      <4>3. i \in 1..Len(events[a]) \/ i = Len(events[a]) + 1
        BY <2>3, <4>1, <4>2
      <4> QED
        BY <1>i, <4>1, <4>2, <4>3
    <3> QED
      BY <3>1, <3>2
  <2>4. ASSUME NEW p \in Procs
        PROVE  InHand(p)'
    <3>1. ASSUME task[p].op \in StatusOps, task[p].acct = a
          PROVE  /\ events'[a] # <<>>
                 /\ Head(events'[a]) = Head(events[a])
      <4>1. events[a] \in Seq(AccountStatus) /\ events[a] # <<>>
        BY <1>i, <1>t, <3>1
      <4>2. events'[a] = Append(events[a], s)
        BY <1>2, <1>t
      <4> QED
        BY <4>1, <4>2, <2>1, HeadTailAppend
    <3>2. ASSUME task[p].op \in StatusOps, task[p].acct # a
          PROVE  events'[task[p].acct] = events[task[p].acct]
      BY <1>2, <1>a, <1>t, <3>2
    <3> QED
      BY <1>2, <1>i, <3>1, <3>2
  <2>5. \A p, q \in Procs : Alone(p, q)'
    BY <1>2, <1>i
  <2> QED
    BY <2>2, <2>3, <2>4, <2>5 DEF EventsInv
<1>3. ASSUME NEW p \in Procs, StatusAnswer(p),
             events' = [events EXCEPT ![task[p].acct] = Tail(@)],
             UNCHANGED reviewed
      PROVE  /\ EventsInv'
             /\ events' \in [Accounts -> Seq(AccountStatus)]
             /\ reviewed' \in [Accounts -> SUBSET AccountStatus]
  <2> DEFINE a == task[p].acct
  <2>1. task[p].op \in StatusOps
    BY <1>3 DEF StatusAnswer, At, StatusOps
  <2>2. /\ a \in Accounts
        /\ events[a] \in Seq(AccountStatus)
        /\ events[a] # <<>>
    BY <1>a, <1>i, <1>t, <2>1
  <2>3. /\ Tail(events[a]) \in Seq(AccountStatus)
        /\ Len(Tail(events[a])) = Len(events[a]) - 1
        /\ \A i \in 1..Len(Tail(events[a])) :
             Tail(events[a])[i] = events[a][i + 1]
    BY <2>2, HeadTailProperties
  <2>4. Fresh(p, "idle", NoId, 0)
    BY <1>3, AccountMoves
  <2>5. \A q \in Procs \ {p} :
          task[q].op \in StatusOps => task[q].acct # a
    BY <1>i, <2>1
  <2>e. events' = [events EXCEPT ![a] = Tail(events[a])]
    BY <1>3
  <2> HIDE DEF a
  <2>6. /\ events' \in [Accounts -> Seq(AccountStatus)]
        /\ reviewed' \in [Accounts -> SUBSET AccountStatus]
    BY <1>3, <1>t, <2>2, <2>3, <2>e
  <2>7. ASSUME NEW b \in Accounts, NEW i \in 1..Len(events'[b])
        PROVE  events'[b][i] \in reviewed'[b]
    <3>1. CASE b # a
      BY <1>3, <1>i, <1>t, <2>7, <2>e, <3>1
    <3>2. CASE b = a
      <4>1. events'[b] = Tail(events[a]) /\ reviewed'[b] = reviewed[a]
        BY <1>3, <1>t, <2>2, <2>e, <3>2
      <4>2. Len(events[a]) \in Nat
        BY <2>2
      <4>3. i + 1 \in 1..Len(events[a])
        BY <2>3, <2>7, <4>1, <4>2
      <4> QED
        BY <1>i, <2>2, <2>3, <2>7, <4>1, <4>3
    <3> QED
      BY <3>1, <3>2
  <2>8. ASSUME NEW q \in Procs
        PROVE  InHand(q)'
    <3>1. CASE q = p
      BY <2>4, <3>1 DEF Fresh, StatusOps
    <3>2. ASSUME q # p, task[q].op \in StatusOps
          PROVE  events'[task[q].acct] = events[task[q].acct]
      BY <1>a, <1>t, <2>5, <2>e, <3>2
    <3> QED
      BY <1>i, <2>4, <3>1, <3>2 DEF Fresh, Others
  <2>9. \A q, r \in Procs : Alone(q, r)'
    BY <1>i, <2>4 DEF Fresh, Others, StatusOps
  <2> QED
    BY <2>6, <2>7, <2>8, <2>9 DEF EventsInv
<1>4. ASSUME UNCHANGED <<events, reviewed>>,
             \A q \in Procs :
               \/ task'[q] = task[q]
               \/ task'[q].op \notin StatusOps
               \/ /\ task[q].op \in StatusOps
                  /\ task'[q].acct = task[q].acct
                  /\ task'[q].status = task[q].status
      PROVE  EventsInv'
  <2>1. \A p \in Procs : InHand(p)'
    BY <1>4, <1>i
  <2>2. \A p, q \in Procs : Alone(p, q)'
    BY <1>4, <1>i
  <2>3. Told'
    BY <1>1, <1>4
  <2> HIDE DEF InHand, Alone, Told
  <2> QED
    BY <2>1, <2>2, <2>3 DEF EventsInv, InHand, Alone, Told
<1>5. ASSUME UNCHANGED <<events, reviewed>>,
             NEW p \in Procs, NEW op, op \notin StatusOps,
             Kept(p, op) \/ \E a, n : Fresh(p, op, a, n)
      PROVE  EventsInv'
  BY <1>4, <1>5 DEF Kept, Fresh, Others
<1>6. ASSUME UNCHANGED <<events, reviewed>>,
             NEW p \in Procs, NEW a \in Accounts, StartStatus(p, a)
      PROVE  EventsInv'
  <2>1. /\ events[a] # <<>>
        /\ \A q \in Procs : task[q].op \in StatusOps => task[q].acct # a
    BY <1>6 DEF StartStatus, HasEvent, Delivered, StatusOps
  <2>2. /\ Fresh(p, "status_write", a, 0)
        /\ task'[p].status = Head(events[a])
    BY <1>6, BeginMoves
  <2>3. \A q \in Procs : InHand(q)'
    BY <1>6, <1>i, <2>1, <2>2 DEF Fresh, Others
  <2>4. \A q, r \in Procs : Alone(q, r)'
    BY <1>i, <2>1, <2>2 DEF Fresh, Others
  <2>5. Told'
    BY <1>1, <1>6
  <2> HIDE DEF InHand, Alone, Told
  <2> QED
    BY <2>3, <2>4, <2>5 DEF EventsInv, InHand, Alone, Told
<1>7. ASSUME UNCHANGED <<events, reviewed>>, NEW p \in Procs,
             Begin(p) \/ Crash(p)
      PROVE  EventsInv'
  <2>1. ASSUME NEW op, op \notin StatusOps, NEW a, NEW n, Fresh(p, op, a, n)
        PROVE  EventsInv'
    BY <1>5, <1>7, <2>1, Zenon
  <2>2. {"bank_consume", "pix_consume", "account_post", "documents_post",
         "info_post", "key_get", "customer_read", "idle"}
          \cap StatusOps = {}
    BY DEF StatusOps
  <2>3. CASE \/ StartBank(p) \/ StartPix(p) \/ StartApprove(p)
    BY <2>1, <2>2, <2>3, BeginMoves
  <2>4. CASE \/ StartDocuments(p) \/ StartInfo(p) \/ StartCharge(p, "key_get")
             \/ StartCharge(p, "customer_read")
    BY <2>1, <2>2, <2>4, BeginMoves
  <2>5. CASE Crash(p)
    BY <2>1, <2>2, <2>5, ChargeMoves
  <2> QED
    BY <1>7, <2>3, <2>4, <2>5 DEF Begin
<1>8. ASSUME UNCHANGED <<events, reviewed>>, NEW p \in Procs, Step(p)
      PROVE  EventsInv'
  <2>1. CASE StatusWrite(p)
    <3>1. Kept(p, "status_answer") /\ task[p].op \in StatusOps
      BY <2>1, AccountMoves DEF StatusWrite, At, StatusOps
    <3> QED
      BY <1>4, <1>8, <3>1 DEF Kept, Others
  <2>2. CASE \/ BankConsume(p) \/ BankRead(p) \/ RequestFind(p)
             \/ RequestWrite(p) \/ RequestTell(p) \/ BankWrite(p)
             \/ PixConsume(p) \/ PixWrite(p) \/ AccountWrite(p)
             \/ UrlWrite(p) \/ ApproveTell(p) \/ StatusAnswer(p)
             \/ (\E a \in Accounts : AccountPost(p, a))
    <3>1. {"idle", "bank_read", "bank_write", "request_find", "account_post",
           "request_write", "request_tell", "pix_write", "account_write",
           "url_write", "approve_tell"} \cap StatusOps = {}
      BY DEF StatusOps
    <3> QED
      BY <1>5, <1>8, <2>2, <3>1, AccountMoves
  <2>3. CASE \/ DocumentsPost(p) \/ InfoPost(p) \/ InfoWrite(p) \/ KeyGet(p)
             \/ KeyFind(p) \/ KeyPost(p) \/ KeyWrite(p)
             \/ CustomerRead(p) \/ CustomerFind(p) \/ CustomerWrite(p)
             \/ PostFails(p) \/ (\E c \in Customers : CustomerPost(p, c))
    <3>1. {"idle", "info_write", "customer_read", "key_find", "key_write",
           "key_post", "customer_find", "customer_post", "customer_write"}
             \cap StatusOps = {}
      BY DEF StatusOps
    <3> QED
      BY <1>5, <1>8, <2>3, <3>1, ChargeMoves
  <2> QED
    BY <1>8, <2>1, <2>2, <2>3 DEF Step
<1>9. ASSUME UNCHANGED <<events, reviewed>>, UNCHANGED task
      PROVE  EventsInv'
  BY <1>4, <1>9
<1>10. CASE UNCHANGED <<events, reviewed>>
  <2>1. EventsInv'
    BY <1>6, <1>7, <1>8, <1>9, <1>10, HandlerStep, Zenon
  <2> QED
    BY <1>1, <1>10, <2>1
<1> QED
  <2>1. CASE /\ \E a \in Accounts, s \in {"APPROVED", "REJECTED"} :
                  /\ events' = [events EXCEPT ![a] = Append(@, s)]
                  /\ reviewed' = [reviewed EXCEPT ![a] = @ \cup {s}]
             /\ UNCHANGED task
    BY <1>2, <2>1, Zenon
  <2>2. CASE /\ \E p \in Procs :
                  /\ StatusAnswer(p)
                  /\ events' = [events EXCEPT ![task[p].acct] = Tail(@)]
             /\ UNCHANGED reviewed
    BY <1>3, <2>2, Zenon
  <2> QED
    BY <1>10, <2>1, <2>2, QueueStep, Zenon

-----------------------------------------------------------------------------
(* Types.                                                                  *)

\* The invariant holds of an empty system.
LEMMA InitInv == Init => IInv
<1> SUFFICES ASSUME Init PROVE IInv
  OBVIOUS
<1> USE DEF Init, AsaasInit, VerificationInit
<1>n. MaxTokens \in Nat /\ MaxInfo \in Nat
  BY OnboardingAssumption
<1>1. /\ task \in [Procs -> Task]
      /\ \A p \in Procs : task[p].op = "idle"
  BY Idle
<1>2. Made = {}
  BY DEF Made
<1>3. AsaasTypeOK
  BY <1>2 DEF AsaasTypeOK, AccountStatus
<1>4. VerificationTypeOK
  BY DEF VerificationTypeOK
<1>5. sub \in [exists : BOOLEAN, acct : Accounts \cup {NoId},
               status : SubStatus, url : BOOLEAN, key : Accounts \cup {NoId}]
  BY DEF SubStatus
<1>6. TypeOK
  <2>1. /\ requireApproval \in BOOLEAN
        /\ {sub.acct, sub.key} \subseteq Made \cup {NoId}
        /\ customer \in Customers \cup {NoId}
        /\ history \subseteq {"approved", "replaced"}
        /\ reviewed \in [Accounts -> SUBSET AccountStatus]
    OBVIOUS
  <2>2. /\ pix \in 0..MaxTokens
        /\ local \in 0..infos
        /\ tokens \in 0..MaxTokens
        /\ infos \in 0..MaxInfo
        /\ crashes \in Nat
    BY <1>n
  <2> QED
    BY <1>1, <1>3, <1>4, <1>5, <2>1, <2>2 DEF TypeOK, Task
<1>7. NumbersInv
  BY <1>1 DEF NumbersInv, TokenOps
<1>8. TasksInv
  BY <1>1 DEF TasksInv, AccountOK, AccountOps
<1>9. CustomersInv
  BY <1>1 DEF CustomersInv
<1>10. EventsInv
  BY <1>1 DEF EventsInv, StatusOps
<1>11. NoAccountUnapproved
  BY <1>2 DEF NoAccountUnapproved
<1>12. StatusIsOfAccount /\ CustomerIsOfAccount /\ LocalIsTold
  BY DEF StatusIsOfAccount, CustomerIsOfAccount, LocalIsTold
<1>13. RowInv
  BY DEF RowInv
<1> QED
  BY <1>13, <1>6, <1>7, <1>8, <1>9, <1>10, <1>11, <1>12 DEF IInv

\* Tasks keep their type.
LEMMA TaskTyped ==
  ASSUME TypeOK, [Next]_vars
  PROVE  task' \in [Procs -> Task]
<1>k. ASSUME NEW p \in Procs, NEW op, Kept(p, op)
      PROVE  task' \in [Procs -> Task]
  BY <1>k DEF Kept, Others
<1>f. ASSUME NEW p \in Procs, NEW op, NEW a, NEW n, Fresh(p, op, a, n)
      PROVE  task' \in [Procs -> Task]
  BY <1>f DEF Fresh, Others
<1>2. ASSUME NEW p \in Procs, Begin(p)
      PROVE  task' \in [Procs -> Task]
  BY <1>2, <1>f, BeginMoves DEF Begin
<1>3. ASSUME NEW p \in Procs, NEW a \in Accounts, StartStatus(p, a)
      PROVE  task' \in [Procs -> Task]
  BY <1>3, <1>f, BeginMoves
<1>4. ASSUME NEW p \in Procs, Step(p)
      PROVE  task' \in [Procs -> Task]
  <2>1. CASE \/ BankConsume(p) \/ BankRead(p) \/ RequestFind(p)
             \/ RequestWrite(p) \/ RequestTell(p) \/ BankWrite(p)
             \/ PixConsume(p) \/ PixWrite(p) \/ AccountWrite(p)
             \/ UrlWrite(p) \/ ApproveTell(p) \/ StatusAnswer(p)
             \/ StatusWrite(p) \/ (\E a \in Accounts : AccountPost(p, a))
    BY <1>k, <1>f, <2>1, AccountMoves
  <2>2. CASE \/ DocumentsPost(p) \/ InfoPost(p) \/ InfoWrite(p) \/ KeyGet(p)
             \/ KeyFind(p) \/ KeyPost(p) \/ KeyWrite(p)
             \/ CustomerRead(p) \/ CustomerFind(p) \/ CustomerWrite(p)
             \/ PostFails(p) \/ (\E c \in Customers : CustomerPost(p, c))
    BY <1>k, <1>f, <2>2, ChargeMoves
  <2> QED
    BY <1>4, <2>1, <2>2 DEF Step
<1>5. ASSUME NEW p \in Procs, Crash(p)
      PROVE  task' \in [Procs -> Task]
  BY <1>5, <1>f, ChargeMoves
<1>6. CASE UNCHANGED task
  BY <1>6 DEF TypeOK, Task
<1> QED
  BY <1>2, <1>3, <1>4, <1>5, <1>6, HandlerStep, Zenon

\* The rows keep their types.
LEMMA RowsTyped ==
  ASSUME TypeOK, NumbersInv, TasksInv, [Next]_vars
  PROVE  /\ sub' \in [exists : BOOLEAN, acct : Accounts \cup {NoId},
                      status : SubStatus, url : BOOLEAN,
                      key : Accounts \cup {NoId}]
         /\ {sub'.acct, sub'.key} \subseteq Made' \cup {NoId}
         /\ pix' \in 0..MaxTokens
         /\ customer' \in Customers \cup {NoId}
         /\ local' \in 0..infos'
         /\ infos' \in 0..MaxInfo
         /\ crashes' \in Nat
         /\ history' \subseteq {"approved", "replaced"}
<1>t. /\ sub \in [exists : BOOLEAN, acct : Accounts \cup {NoId},
                  status : SubStatus, url : BOOLEAN,
                  key : Accounts \cup {NoId}]
      /\ {sub.acct, sub.key} \subseteq Made \cup {NoId}
      /\ task \in [Procs -> Task]
      /\ Made \subseteq Accounts
  BY DEF TypeOK, Task, Made
<1>m. Made \subseteq Made'
  BY MadeStep
<1> DEFINE Row == [exists : BOOLEAN, acct : Accounts \cup {NoId},
                   status : SubStatus, url : BOOLEAN,
                   key : Accounts \cup {NoId}]
           Good(r) == r \in Row /\ {r.acct, r.key} \subseteq Made \cup {NoId}
<1>1. Good(sub')
  <2>1. CASE UNCHANGED sub
    BY <1>t, <2>1
  <2>2. ASSUME NEW p \in Procs, RequestWrite(p)
        PROVE  Good(sub')
    BY <1>t, <2>2 DEF RequestWrite, SubStatus
  <2>3. ASSUME NEW p \in Procs, AccountWrite(p)
        PROVE  Good(sub')
    <3>1. task[p].acct \in Made
      BY <2>3 DEF AccountWrite, At, TasksInv, AccountOK
    <3> QED
      BY <1>t, <2>3, <3>1 DEF AccountWrite, SubStatus, AccountStatus
  <2>4. ASSUME NEW p \in Procs, UrlWrite(p)
        PROVE  Good(sub')
    BY <1>t, <2>4 DEF UrlWrite
  <2>5. ASSUME NEW p \in Procs, StatusWrite(p)
        PROVE  Good(sub')
    <3>1. task[p].status \in SubStatus
      BY <1>t DEF Task
    <3> QED
      BY <1>t, <2>5, <3>1 DEF StatusWrite
  <2>6. ASSUME NEW p \in Procs, KeyWrite(p)
        PROVE  Good(sub')
    <3>1. task[p].acct \in Made
      BY <2>6 DEF KeyWrite, At, TasksInv, AccountOK, AccountOps
    <3> QED
      BY <1>t, <2>6, <3>1 DEF KeyWrite
  <2> HIDE DEF Good
  <2> QED
    BY <2>1, <2>2, <2>3, <2>4, <2>5, <2>6, SubStep
<1>2. infos' \in 0..MaxInfo /\ infos <= infos' /\ crashes' \in Nat
  <2>1. infos \in 0..MaxInfo /\ crashes \in Nat /\ MaxInfo \in Nat
    BY OnboardingAssumption DEF TypeOK
  <2>2. ASSUME NEW p \in Procs, StartInfo(p)
        PROVE  infos < MaxInfo /\ infos' = infos + 1 /\ UNCHANGED crashes
    BY <2>2 DEF StartInfo
  <2>3. ASSUME NEW p \in Procs, Crash(p)
        PROVE  crashes' = crashes + 1 /\ UNCHANGED infos
    BY <2>3 DEF Crash
  <2>4. \/ UNCHANGED <<infos, crashes>>
        \/ infos < MaxInfo /\ infos' = infos + 1 /\ UNCHANGED crashes
        \/ crashes' = crashes + 1 /\ UNCHANGED infos
    BY <2>2, <2>3, CountsStep, Zenon
  <2> QED
    BY <2>1, <2>4
<1>3. /\ pix' \in 0..MaxTokens
      /\ customer' \in Customers \cup {NoId}
      /\ local' \in 0..infos'
  <2>1. /\ pix \in 0..MaxTokens
        /\ customer \in Customers \cup {NoId}
        /\ local \in 0..infos
        /\ infos \in Nat
    BY DEF TypeOK
  <2>2. ASSUME UNCHANGED local
        PROVE  local' \in 0..infos'
    BY <1>2, <2>1, <2>2
  <2>3. ASSUME NEW p \in Procs, BankWrite(p) \/ PixWrite(p)
        PROVE  pix' \in 0..MaxTokens /\ UNCHANGED <<customer, local>>
    <3>1. task[p].n \in 0..MaxTokens
      BY <2>3 DEF BankWrite, PixWrite, At, NumbersInv, TokenOps
    <3> QED
      BY <2>1, <2>3, <3>1 DEF BankWrite, PixWrite
  <2>4. ASSUME NEW p \in Procs, InfoWrite(p)
        PROVE  local' \in 0..infos' /\ UNCHANGED <<pix, customer>>
    <3>1. task[p].n \in 0..infos /\ local' = task[p].n
      BY <2>4 DEF InfoWrite, At, NumbersInv
    <3>2. UNCHANGED <<pix, customer>>
      BY <2>4 DEF InfoWrite
    <3> QED
      BY <1>2, <2>1, <3>1, <3>2
  <2>5. ASSUME NEW p \in Procs, CustomerWrite(p)
        PROVE  customer' \in Customers \cup {NoId} /\ UNCHANGED <<pix, local>>
    <3>1. task[p].customer \in Customers \cup {NoId}
      BY <1>t DEF Task
    <3> QED
      BY <2>1, <2>5, <3>1 DEF CustomerWrite
  <2> QED
    BY <2>1, <2>2, <2>3, <2>4, <2>5, RowsStep
<1>4. history' \subseteq {"approved", "replaced"}
  <2>1. history \subseteq {"approved", "replaced"}
    BY DEF TypeOK
  <2> QED
    BY <2>1, HistoryStep DEF StartApprove, AccountWrite
<1> QED
  BY <1>1, <1>2, <1>3, <1>4, <1>m

\* Asaas keeps its type.
LEMMA AsaasTyped ==
  ASSUME TypeOK, TasksInv, EventsInv, [Next]_vars
  PROVE  AsaasTypeOK'
<1>t. /\ customerOf \in [Customers -> Accounts \cup {NoId}]
      /\ told \subseteq Nat
      /\ evp \subseteq Made
      /\ task \in [Procs -> Task]
  BY DEF TypeOK, AsaasTypeOK, Task
<1>1. customerOf' \in [Customers -> Accounts \cup {NoId}]
  <2>1. ASSUME NEW p \in Procs, NEW c \in Customers, CustomerPost(p, c)
        PROVE  customerOf' \in [Customers -> Accounts \cup {NoId}]
    <3>1. task[p].acct \in Accounts \cup {NoId}
      BY <1>t DEF Task
    <3>2. customerOf' = [customerOf EXCEPT ![c] = task[p].acct]
      BY <2>1 DEF CustomerPost, PostCustomer
    <3> QED
      BY <1>t, <3>1, <3>2
  <2> QED
    BY <1>t, <2>1, ToldStep
<1>2. told' \subseteq Nat
  <2>1. ASSUME NEW p \in Procs, InfoPost(p)
        PROVE  told' \subseteq Nat
    <3>1. task[p].n \in Nat
      BY <1>t DEF Task
    <3>2. told' = told \cup {task[p].n}
      BY <2>1 DEF InfoPost, PostInfo
    <3> QED
      BY <1>t, <3>1, <3>2
  <2> QED
    BY <1>t, <2>1, ToldStep
<1>3. evp' \subseteq Made'
  <2>1. ASSUME NEW p \in Procs, KeyPost(p)
        PROVE  evp' \subseteq Made
    <3>1. task[p].acct \in Made
      BY <2>1 DEF KeyPost, At, TasksInv, AccountOK, AccountOps
    <3>2. evp' = evp \cup {task[p].acct}
      BY <2>1 DEF KeyPost, PostKey
    <3> QED
      BY <1>t, <3>1, <3>2
  <2> QED
    BY <1>t, <2>1, ToldStep, MadeStep
<1> QED
  BY <1>1, <1>2, <1>3, MadeStep, EventsStep DEF AsaasTypeOK

\* Every variable keeps its type.
LEMMA TypeStep ==
  ASSUME TypeOK, NumbersInv, TasksInv, EventsInv, [Next]_vars
  PROVE  TypeOK'
<1>1. VerificationTypeOK' /\ tokens' \in 0..MaxTokens
  <2>1. /\ code \in [Contexts -> Nat]
        /\ actionToken \in [Contexts -> Nat]
        /\ tokens \in 0..MaxTokens
        /\ MaxTokens \in Nat
    BY OnboardingAssumption DEF TypeOK, VerificationTypeOK
  <2>2. CASE UNCHANGED <<tokens, verificationVars>>
    BY <2>1, <2>2 DEF verificationVars, VerificationTypeOK
  <2>3. ASSUME NEW c \in Contexts, Grant(c)
        PROVE  VerificationTypeOK' /\ tokens' \in 0..MaxTokens
    BY <2>1, <2>3 DEF Grant, SetToken, VerificationTypeOK
  <2>4. CASE ForgetToken
    BY <2>1, <2>4 DEF ForgetToken, Expire, DeleteCode, DeleteToken, SetCode,
                      SetToken, VerificationTypeOK
  <2>5. ASSUME NEW p \in Procs, BankConsume(p) \/ PixConsume(p)
        PROVE  VerificationTypeOK' /\ tokens' \in 0..MaxTokens
    BY <2>1, <2>5 DEF BankConsume, PixConsume, Consume, DeleteToken, SetToken,
                      VerificationTypeOK
  <2> QED
    BY <2>2, <2>3, <2>4, <2>5, TokensStep
<1>2. requireApproval' \in BOOLEAN
  BY FlagStep DEF TypeOK
<1>3. AsaasTypeOK'
  BY AsaasTyped
<1>4. reviewed' \in [Accounts -> SUBSET AccountStatus]
  BY EventsStep
<1>5. task' \in [Procs -> Task]
  BY TaskTyped
<1> QED
  BY <1>1, <1>2, <1>3, <1>4, <1>5, RowsTyped DEF TypeOK, Task

-----------------------------------------------------------------------------
(* Tokens and versions.                                                    *)

\* Numbers stay within what was given out.
LEMMA NumbersStep ==
  ASSUME TypeOK, NumbersInv, [Next]_vars
  PROVE  NumbersInv'
<1>t. /\ tokens \in 0..MaxTokens
      /\ MaxTokens \in Nat
      /\ infos \in Nat
      /\ actionToken \in [Contexts -> Nat]
      /\ \A c \in Contexts : actionToken[c] \in 0..tokens
  BY OnboardingAssumption DEF TypeOK, VerificationTypeOK, NumbersInv
<1>1. \A c \in Contexts : actionToken'[c] \in 0..tokens'
  <2>2. CASE UNCHANGED <<tokens, verificationVars>>
    BY <1>t, <2>2 DEF verificationVars
  <2>3. ASSUME NEW c \in Contexts, Grant(c)
        PROVE  \A d \in Contexts : actionToken'[d] \in 0..tokens'
    <3>1. /\ tokens' = tokens + 1
          /\ actionToken' = [actionToken EXCEPT ![c] = tokens + 1]
      BY <2>3 DEF Grant, SetToken
    <3> QED
      BY <1>t, <3>1
  <2>4. CASE ForgetToken
    BY <1>t, <2>4 DEF ForgetToken, Expire, DeleteCode, DeleteToken, SetCode,
                      SetToken
  <2>5. ASSUME NEW p \in Procs, BankConsume(p) \/ PixConsume(p)
        PROVE  \A d \in Contexts : actionToken'[d] \in 0..tokens'
    BY <1>t, <2>5 DEF BankConsume, PixConsume, Consume, DeleteToken, SetToken
  <2> QED
    BY <2>2, <2>3, <2>4, <2>5, TokensStep
<1>m. /\ infos <= infos' /\ infos' \in Nat
      /\ told \subseteq told'
  <2>1. ASSUME NEW p \in Procs, StartInfo(p)
        PROVE  infos' = infos + 1
    BY <2>1 DEF StartInfo
  <2>2. ASSUME NEW p \in Procs, Crash(p)
        PROVE  infos' = infos
    BY <2>2 DEF Crash
  <2>3. infos' = infos \/ infos' = infos + 1
    BY <2>1, <2>2, CountsStep, Zenon
  <2> QED
    BY <1>t, <2>3, ToldStep
<1> DEFINE InfoOps == {"info_post", "info_write"}
           NumOK(p) ==
             /\ task[p].op \in TokenOps => task[p].n \in 0..MaxTokens
             /\ task[p].op \in {"info_post", "info_write"} =>
                  task[p].n \in 0..infos
             /\ task[p].op = "info_write" => task[p].n \in told
<1>i. \A p \in Procs : NumOK(p)
  BY DEF NumbersInv
<1>2. ASSUME NEW q \in Procs, task'[q] = task[q]
      PROVE  NumOK(q)'
  BY <1>2, <1>i, <1>m, <1>t
<1>3. ASSUME NEW p \in Procs, NumOK(p)', Others(p)
      PROVE  NumbersInv'
  <2>1. \A q \in Procs : NumOK(q)'
    BY <1>2, <1>3 DEF Others
  <2> QED
    BY <1>1, <2>1 DEF NumbersInv
<1>4. ASSUME NEW p \in Procs, NEW op, op \notin TokenOps \cup InfoOps,
             Kept(p, op)
      PROVE  NumbersInv'
  BY <1>3, <1>4 DEF Kept
<1>5. ASSUME NEW p \in Procs, NEW op, op \notin TokenOps \cup InfoOps,
             NEW a, NEW n, Fresh(p, op, a, n)
      PROVE  NumbersInv'
  BY <1>3, <1>5 DEF Fresh
<1>o. TokenOps \cap InfoOps = {}
  BY DEF TokenOps
<1>6. ASSUME NEW p \in Procs, NEW op \in TokenOps, Kept(p, op),
             task[p].op \in TokenOps
      PROVE  NumbersInv'
  BY <1>3, <1>6, <1>i, <1>o DEF Kept
<1>7. ASSUME NEW p \in Procs, NEW op \in TokenOps, NEW a,
             NEW n \in 0..MaxTokens, Fresh(p, op, a, n)
      PROVE  NumbersInv'
  BY <1>3, <1>7, <1>o DEF Fresh
<1>8. ASSUME NEW p \in Procs, Begin(p) \/ Crash(p)
      PROVE  NumbersInv'
  <2>1. CASE Crash(p)
    BY <1>5, <2>1, ChargeMoves DEF TokenOps
  <2>2. CASE \/ StartDocuments(p) \/ StartCharge(p, "key_get")
             \/ StartCharge(p, "customer_read")
    BY <1>5, <2>2, BeginMoves DEF TokenOps
  <2>3. CASE \/ StartBank(p) \/ StartPix(p) \/ StartApprove(p)
    <3>1. /\ actionToken["CREATE_BANK_ACCOUNT"] \in 0..MaxTokens
          /\ actionToken["PIX_KEY_UPDATE"] \in 0..MaxTokens
          /\ 0 \in 0..MaxTokens
      BY <1>t, OnboardingAssumption
    <3>2. {"bank_consume", "pix_consume", "account_post"} \subseteq TokenOps
      BY DEF TokenOps
    <3> QED
      BY <1>7, <2>3, <3>1, <3>2, BeginMoves
  <2>4. CASE StartInfo(p)
    <3>1. Fresh(p, "info_post", sub.acct, infos + 1) /\ infos' = infos + 1
      BY <2>4, BeginMoves DEF StartInfo
    <3>2. infos + 1 \in 0..infos'
      BY <1>t, <3>1
    <3>3. NumOK(p)'
      BY <1>o, <3>1, <3>2 DEF Fresh
    <3> QED
      BY <1>3, <3>1, <3>3 DEF Fresh
  <2> QED
    BY <1>8, <2>1, <2>2, <2>3, <2>4 DEF Begin
<1>9. ASSUME NEW p \in Procs, Step(p)
      PROVE  NumbersInv'
  <2>o. /\ {"bank_read", "bank_write", "request_find", "account_post",
            "request_write", "request_tell", "pix_write", "account_write",
            "url_write"} \subseteq TokenOps
        /\ {"idle", "approve_tell", "status_answer", "customer_read",
            "key_find", "key_write", "key_post", "customer_find",
            "customer_post", "customer_write"}
             \cap (TokenOps \cup InfoOps) = {}
    BY DEF TokenOps
  <2>1. CASE \/ BankConsume(p) \/ BankRead(p) \/ RequestFind(p)
             \/ RequestWrite(p) \/ RequestTell(p) \/ PixConsume(p)
             \/ AccountWrite(p) \/ UrlWrite(p)
    <3>1. task[p].op \in TokenOps
      BY <2>1 DEF BankConsume, PixConsume, Consume, BankRead, RequestFind,
         RequestWrite, RequestTell, AccountWrite, UrlWrite, At, TokenOps
    <3> QED
      BY <1>4, <1>5, <1>6, <2>1, <2>o, <3>1, AccountMoves
  <2>2. CASE \/ BankWrite(p) \/ PixWrite(p) \/ ApproveTell(p)
             \/ StatusAnswer(p) \/ StatusWrite(p)
    BY <1>4, <1>5, <2>2, <2>o, AccountMoves
  <2>3. ASSUME NEW a \in Accounts, AccountPost(p, a)
        PROVE  NumbersInv'
    <3>1. task[p].op \in TokenOps
      BY <2>3 DEF AccountPost, At, TokenOps
    <3>2. task[p].n \in 0..MaxTokens
      BY <1>i, <3>1
    <3> QED
      BY <1>5, <1>7, <2>3, <2>o, <3>2, AccountMoves
  <2>4. CASE \/ DocumentsPost(p) \/ InfoWrite(p) \/ KeyGet(p) \/ KeyFind(p)
             \/ KeyPost(p) \/ KeyWrite(p) \/ CustomerRead(p)
             \/ CustomerFind(p) \/ CustomerWrite(p) \/ PostFails(p)
             \/ (\E c \in Customers : CustomerPost(p, c))
    BY <1>4, <1>5, <2>4, <2>o, ChargeMoves
  <2>5. CASE InfoPost(p)
    <3>1. /\ task[p].op = "info_post"
          /\ told' = told \cup {task[p].n}
      BY <2>5 DEF InfoPost, At, PostInfo
    <3>2. task[p].n \in 0..infos'
      BY <1>i, <1>m, <1>t, <3>1
    <3>3. ASSUME Kept(p, "info_write")
          PROVE  NumbersInv'
      <4>1. NumOK(p)'
        BY <1>o, <3>1, <3>2, <3>3 DEF Kept
      <4> QED
        BY <1>3, <3>3, <4>1 DEF Kept
    <3> QED
      BY <1>5, <2>5, <2>o, <3>3, ChargeMoves
  <2> QED
    BY <1>9, <2>1, <2>2, <2>3, <2>4, <2>5 DEF Step
<1>10. ASSUME NEW p \in Procs, NEW a \in Accounts, StartStatus(p, a)
       PROVE  NumbersInv'
  BY <1>5, <1>10, BeginMoves DEF TokenOps
<1>11. CASE UNCHANGED task
  <2>1. \A q \in Procs : NumOK(q)'
    BY <1>2, <1>11
  <2> QED
    BY <1>1, <2>1 DEF NumbersInv
<1> QED
  BY <1>8, <1>9, <1>10, <1>11, HandlerStep, Zenon

\* The user's row is never ahead of Asaas: what it is given, Asaas was.
LEMMA LocalStep ==
  NumbersInv /\ LocalIsTold /\ TypeOK /\ [Next]_vars => LocalIsTold'
<1> SUFFICES ASSUME NumbersInv, LocalIsTold, TypeOK, [Next]_vars
             PROVE  LocalIsTold'
  OBVIOUS
<1>1. told \subseteq told'
  BY ToldStep
<1>2. ASSUME NEW p \in Procs, InfoWrite(p)
      PROVE  local' \in told
  BY <1>2 DEF InfoWrite, At, NumbersInv
<1>3. ASSUME NEW p \in Procs,
             BankWrite(p) \/ PixWrite(p) \/ CustomerWrite(p)
      PROVE  UNCHANGED local
  BY <1>3 DEF BankWrite, PixWrite, CustomerWrite
<1>4. UNCHANGED local \/ local' \in told
  BY <1>2, <1>3, RowsStep, Zenon
<1> QED
  BY <1>1, <1>4 DEF LocalIsTold

-----------------------------------------------------------------------------
(* The customer and the key.                                               *)

\* A customer that was made stays in the account it was made with.
LEMMA CustomersStep ==
  ASSUME TypeOK, TasksInv, CustomersInv, [Next]_vars
  PROVE  CustomersInv'
<1>n. NoId \notin Made
  BY AsaasAccountsAssumption DEF Made
<1> DEFINE Ours(p) == task[p].op = "customer_write" =>
                        /\ task[p].customer \in Customers
                        /\ customerOf[task[p].customer] = task[p].acct
<1>1. ASSUME NEW q \in Procs, task'[q] = task[q]
      PROVE  Ours(q)'
  <2> SUFFICES ASSUME task[q].op = "customer_write"
               PROVE  /\ task[q].customer \in Customers
                      /\ customerOf'[task[q].customer] = task[q].acct
    BY <1>1
  <2>1. /\ task[q].customer \in Customers
        /\ customerOf[task[q].customer] = task[q].acct
    BY DEF CustomersInv
  <2>2. task[q].acct \in Made
    BY DEF TasksInv, AccountOK, AccountOps
  <2> QED
    BY <1>n, <2>1, <2>2, ToldStep
<1>2. ASSUME NEW p \in Procs, Ours(p)', Others(p)
      PROVE  CustomersInv'
  <2>1. \A q \in Procs : Ours(q)'
    BY <1>1, <1>2 DEF Others
  <2> QED
    BY <2>1 DEF CustomersInv
<1>3. ASSUME NEW p \in Procs, NEW op, op # "customer_write", Kept(p, op)
      PROVE  CustomersInv'
  BY <1>2, <1>3 DEF Kept
<1>4. ASSUME NEW p \in Procs, NEW op, op # "customer_write",
             NEW a, NEW n, Fresh(p, op, a, n)
      PROVE  CustomersInv'
  BY <1>2, <1>4 DEF Fresh
<1>5. ASSUME NEW p \in Procs, Begin(p) \/ Crash(p)
      PROVE  CustomersInv'
  BY <1>4, <1>5, BeginMoves, ChargeMoves DEF Begin
<1>6. ASSUME NEW p \in Procs, NEW a \in Accounts, StartStatus(p, a)
      PROVE  CustomersInv'
  BY <1>4, <1>6, BeginMoves
<1>7. ASSUME NEW p \in Procs, Step(p)
      PROVE  CustomersInv'
  <2>1. CASE \/ BankConsume(p) \/ BankRead(p) \/ RequestFind(p)
             \/ RequestWrite(p) \/ RequestTell(p) \/ BankWrite(p)
             \/ PixConsume(p) \/ PixWrite(p) \/ AccountWrite(p)
             \/ UrlWrite(p) \/ ApproveTell(p) \/ StatusAnswer(p)
             \/ StatusWrite(p) \/ (\E a \in Accounts : AccountPost(p, a))
    BY <1>3, <1>4, <2>1, AccountMoves
  <2>2. CASE \/ DocumentsPost(p) \/ InfoPost(p) \/ InfoWrite(p) \/ KeyGet(p)
             \/ KeyFind(p) \/ KeyPost(p) \/ KeyWrite(p)
             \/ CustomerRead(p) \/ CustomerFind(p) \/ CustomerWrite(p)
             \/ PostFails(p)
    BY <1>3, <1>4, <2>2, ChargeMoves
  <2>3. ASSUME NEW c \in Customers, CustomerPost(p, c)
        PROVE  CustomersInv'
    <3>1. ASSUME Fresh(p, "customer_write", task[p].acct, task[p].n),
                 task'[p].customer = c
          PROVE  CustomersInv'
      <4>1. customerOf' = [customerOf EXCEPT ![c] = task[p].acct]
        BY <2>3 DEF CustomerPost, PostCustomer
      <4>2. customerOf'[c] = task[p].acct
        BY <4>1 DEF TypeOK, AsaasTypeOK
      <4> QED
        BY <1>2, <3>1, <4>2 DEF Fresh
    <3> QED
      BY <1>4, <2>3, <3>1, ChargeMoves
  <2> QED
    BY <1>7, <2>1, <2>2, <2>3 DEF Step
<1>8. CASE UNCHANGED task
  <2>1. \A q \in Procs : Ours(q)'
    BY <1>1, <1>8
  <2> QED
    BY <2>1 DEF CustomersInv
<1> QED
  BY <1>5, <1>6, <1>7, <1>8, HandlerStep, Zenon

\* The customer and the key on the row, and the keys in use, are those of the
\* row's account as long as it has not been replaced.
LEMMA CustomerStep ==
  ASSUME TypeOK, TasksInv, CustomersInv, CustomerIsOfAccount, [Next]_vars
  PROVE  CustomerIsOfAccount'
<1> SUFFICES ASSUME ~Replaced'
             PROVE  /\ customer' # NoId =>
                         /\ sub'.acct # NoId
                         /\ customerOf'[customer'] = sub'.acct
                    /\ sub'.key # NoId => sub'.key = sub'.acct
                    /\ evp' \subseteq {sub'.acct}
  BY DEF CustomerIsOfAccount
<1>r. ~Replaced
  BY AccountStep
<1>i. /\ customer # NoId => sub.acct # NoId /\ customerOf[customer] = sub.acct
      /\ sub.key # NoId => sub.key = sub.acct
      /\ evp \subseteq {sub.acct}
  BY <1>r DEF CustomerIsOfAccount
<1>t. /\ sub \in [exists : BOOLEAN, acct : Accounts \cup {NoId},
                  status : SubStatus, url : BOOLEAN,
                  key : Accounts \cup {NoId}]
      /\ customer \in Customers \cup {NoId}
      /\ evp \subseteq Made
      /\ NoId \notin Made
      /\ NoId \notin Customers
  BY AsaasAccountsAssumption DEF TypeOK, AsaasTypeOK, Made
<1>h. \A p \in Procs : task[p].op \in AccountOps =>
        task[p].acct = sub.acct /\ sub.acct # NoId
  BY <1>r DEF TasksInv, AccountOK
<1>1. CASE sub'.acct = sub.acct
  <2>1. customer' # NoId =>
          sub'.acct # NoId /\ customerOf'[customer'] = sub'.acct
    <3>1. ASSUME NEW c \in Customers, sub.acct # NoId,
                 customerOf[c] = sub.acct
          PROVE  customerOf'[c] = sub.acct
      BY <3>1, ToldStep
    <3>2. CASE UNCHANGED customer
      BY <1>1, <1>i, <1>t, <3>1, <3>2
    <3>3. ASSUME NEW p \in Procs, CustomerWrite(p), customer = NoId
          PROVE  sub'.acct # NoId /\ customerOf'[customer'] = sub'.acct
      <4>1. task[p].op = "customer_write" /\ customer' = task[p].customer
        BY <3>3 DEF CustomerWrite, At
      <4>2. /\ task[p].customer \in Customers
            /\ customerOf[task[p].customer] = sub.acct
            /\ sub.acct # NoId
        BY <1>h, <4>1 DEF CustomersInv, AccountOps
      <4> QED
        BY <1>1, <3>1, <4>1, <4>2
    <3>4. ASSUME NEW p \in Procs, CustomerWrite(p), customer # NoId
          PROVE  UNCHANGED customer
      BY <3>4 DEF CustomerWrite
    <3>5. ASSUME NEW p \in Procs, BankWrite(p) \/ PixWrite(p) \/ InfoWrite(p)
          PROVE  UNCHANGED customer
      BY <3>5 DEF BankWrite, PixWrite, InfoWrite
    <3> QED
      BY <3>2, <3>3, <3>4, <3>5, RowsStep
  <2>2. sub'.key # NoId => sub'.key = sub'.acct
    <3>1. ASSUME NEW p \in Procs, KeyWrite(p)
          PROVE  sub'.key = sub.acct
      BY <1>h, <1>t, <3>1 DEF KeyWrite, At, AccountOps
    <3>2. ASSUME NEW p \in Procs, RequestWrite(p)
          PROVE  sub'.key = sub.key
      BY <1>t, <3>2 DEF RequestWrite
    <3>3. ASSUME NEW p \in Procs, AccountWrite(p)
          PROVE  sub'.key = sub.key
      BY <1>t, <3>3 DEF AccountWrite
    <3>4. ASSUME NEW p \in Procs, UrlWrite(p)
          PROVE  sub'.key = sub.key
      BY <1>t, <3>4 DEF UrlWrite
    <3>5. ASSUME NEW p \in Procs, StatusWrite(p)
          PROVE  sub'.key = sub.key
      BY <1>t, <3>5 DEF StatusWrite
    <3> QED
      BY <1>1, <1>i, <3>1, <3>2, <3>3, <3>4, <3>5, SubStep
  <2>3. evp' \subseteq {sub'.acct}
    <3>1. ASSUME NEW p \in Procs, KeyPost(p)
          PROVE  evp' \subseteq {sub.acct}
      BY <1>h, <1>i, <3>1 DEF KeyPost, PostKey, At, AccountOps
    <3> QED
      BY <1>1, <1>i, <3>1, ToldStep
  <2> QED
    BY <2>1, <2>2, <2>3
<1>2. ASSUME NEW p \in Procs, AccountWrite(p), sub.acct = NoId
      PROVE  /\ customer' = NoId
             /\ sub'.key = NoId
             /\ evp' = {}
  <2>1. UNCHANGED <<customer, evp>> /\ sub'.key = sub.key
    BY <1>2, <1>t DEF AccountWrite, asaasVars
  <2> QED
    BY <1>2, <1>i, <1>t, <2>1
<1>3. ASSUME NEW p \in Procs, AccountWrite(p)
      PROVE  sub.acct = NoId
  BY <1>3, AccountStep
<1> QED
  BY <1>1, <1>2, <1>3, AccountStep

-----------------------------------------------------------------------------
(* Approval and status.                                                    *)

\* An account is made only by a handler that may.
LEMMA ApprovalStep ==
  ASSUME TypeOK, TasksInv, NoAccountUnapproved, [Next]_vars
  PROVE  NoAccountUnapproved'
<1>1. /\ requireApproval' = requireApproval
      /\ history \subseteq history'
  BY FlagStep, AccountStep
<1>2. ASSUME NEW p \in Procs, NEW a \in Accounts, AccountPost(p, a)
      PROVE  requireApproval => "approved" \in history
  BY <1>2 DEF AccountPost, At, TasksInv, AccountOK
<1>3. Made' = Made \/ (requireApproval => "approved" \in history)
  BY <1>2, MadeStep
<1> QED
  BY <1>1, <1>3 DEF NoAccountUnapproved

\* A status is written by a handler whose account is the row's.
LEMMA StatusStep ==
  ASSUME TypeOK, TasksInv, RowInv, EventsInv, StatusIsOfAccount, [Next]_vars
  PROVE  RowInv' /\ StatusIsOfAccount'
<1>t. /\ sub \in [exists : BOOLEAN, acct : Accounts \cup {NoId},
                  status : SubStatus, url : BOOLEAN,
                  key : Accounts \cup {NoId}]
      /\ events \in [Accounts -> Seq(AccountStatus)]
      /\ reviewed \in [Accounts -> SUBSET AccountStatus]
      /\ NoId \notin Accounts
  BY AsaasAccountsAssumption DEF TypeOK, AsaasTypeOK
<1>g. \A a \in Accounts : reviewed[a] \subseteq reviewed'[a]
  BY <1>t, QueueStep
<1>r. Replaced => Replaced'
  BY AccountStep
<1>1. ASSUME sub'.acct = sub.acct, sub'.status = sub.status
      PROVE  RowInv' /\ StatusIsOfAccount'
  BY <1>1, <1>g, <1>r, <1>t DEF RowInv, StatusIsOfAccount
<1>2. ASSUME sub'.status \notin {"APPROVED", "REJECTED"}
      PROVE  RowInv' /\ StatusIsOfAccount'
  BY <1>2 DEF RowInv, StatusIsOfAccount
<1>3. ASSUME NEW p \in Procs, StatusWrite(p)
      PROVE  RowInv' /\ StatusIsOfAccount'
  <2>1. /\ task[p].op = "status_write"
        /\ sub'.acct = sub.acct
        /\ sub'.status = task[p].status
    BY <1>3, <1>t DEF StatusWrite, At
  <2> DEFINE a == task[p].acct
  <2>2. /\ a \in Accounts
        /\ sub.acct # NoId
        /\ ~Replaced => a = sub.acct
    BY <2>1 DEF TasksInv, AccountOK, AccountOps, Made
  <2>3. task[p].status \in reviewed[a]
    <3>1. /\ events[a] # <<>>
          /\ task[p].status = Head(events[a])
      BY <2>1 DEF EventsInv, StatusOps
    <3>2. /\ Head(events[a]) = events[a][1]
          /\ 1 \in 1..Len(events[a])
      BY <1>t, <2>2, <3>1
    <3> QED
      BY <2>2, <3>1, <3>2 DEF EventsInv
  <2> HIDE DEF a
  <2> QED
    BY <1>g, <1>r, <2>1, <2>2, <2>3 DEF RowInv, StatusIsOfAccount
<1>4. ASSUME NEW p \in Procs, RequestWrite(p)
      PROVE  RowInv' /\ StatusIsOfAccount'
  <2>1. UNCHANGED sub \/ sub'.status = "PENDING_ADMIN_APPROVAL"
    BY <1>4, <1>t DEF RequestWrite
  <2> QED
    BY <1>1, <1>2, <2>1
<1>5. ASSUME NEW p \in Procs, AccountWrite(p)
      PROVE  RowInv' /\ StatusIsOfAccount'
  <2>1. sub'.status = "PENDING"
    BY <1>5, <1>t DEF AccountWrite
  <2> QED
    BY <1>2, <2>1
<1>6. ASSUME NEW p \in Procs, UrlWrite(p) \/ KeyWrite(p)
      PROVE  RowInv' /\ StatusIsOfAccount'
  <2>1. sub'.acct = sub.acct /\ sub'.status = sub.status
    BY <1>6, <1>t DEF UrlWrite, KeyWrite
  <2> QED
    BY <1>1, <2>1
<1> QED
  BY <1>1, <1>3, <1>4, <1>5, <1>6, SubStep

-----------------------------------------------------------------------------
(* The theorems.                                                           *)

\* The invariant holds in every reachable state: what each handler holds
\* between two awaits agrees with the row, with Asaas and with its events.
THEOREM Invariance == Spec => []IInv
<1>1. IInv /\ [Next]_vars => IInv'
  <2> SUFFICES ASSUME IInv, [Next]_vars PROVE IInv'
    OBVIOUS
  <2>1. /\ TypeOK /\ NumbersInv /\ TasksInv /\ RowInv /\ CustomersInv
        /\ EventsInv /\ NoAccountUnapproved /\ StatusIsOfAccount
        /\ CustomerIsOfAccount /\ LocalIsTold
    BY DEF IInv
  <2>2. TypeOK' /\ NumbersInv'
    BY <2>1, TypeStep, NumbersStep
  <2>3. TasksInv' /\ CustomersInv' /\ EventsInv'
    BY <2>1, TasksStep, CustomersStep, EventsStep
  <2>4. RowInv' /\ NoAccountUnapproved' /\ StatusIsOfAccount'
    BY <2>1, ApprovalStep, StatusStep
  <2>5. CustomerIsOfAccount' /\ LocalIsTold'
    BY <2>1, CustomerStep, LocalStep
  <2> QED
    BY <2>2, <2>3, <2>4, <2>5 DEF IInv
<1> QED
  BY <1>1, InitInv, PTL DEF Spec

\* The type invariant.
THEOREM TypeCorrect == Spec => []TypeOK
<1>1. IInv => TypeOK
  BY DEF IInv
<1> QED
  BY <1>1, Invariance, PTL

\* While approval is required, whatever handlers run at once, Asaas gets no
\* account before an administrator approved one: a bank account is created
\* without, and the approval alone leads to completeSubaccountCreation.
THEOREM ApprovedFirst == Spec => []NoAccountUnapproved
<1>1. IInv => NoAccountUnapproved
  BY DEF IInv
<1> QED
  BY <1>1, Invariance, PTL

\* The status on the row is one that the row's own account was reviewed to,
\* however its webhook interleaves with the writes of other handlers, unless
\* a second approval replaced the account.
THEOREM StatusOfAccount == Spec => []StatusIsOfAccount
<1>1. IInv => StatusIsOfAccount
  BY DEF IInv
<1> QED
  BY <1>1, Invariance, PTL

\* The tenant's customer and the PIX key on the row are in the account whose
\* key the charges use, although each is found or made by one handler and
\* written by another, unless a second approval replaced the account.
THEOREM CustomerOfAccount == Spec => []CustomerIsOfAccount
<1>1. IInv => CustomerIsOfAccount
  BY DEF IInv
<1> QED
  BY <1>1, Invariance, PTL

\* The commercial data on the user's row was given to Asaas before, whatever
\* fails in between and however many updates run at once.
THEOREM LocalTold == Spec => []LocalIsTold
<1>1. IInv => LocalIsTold
  BY DEF IInv
<1> QED
  BY <1>1, Invariance, PTL

=============================================================================
