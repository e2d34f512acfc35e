----------------------------- MODULE Onboarding -----------------------------
(***************************************************************************)
(* How one landlord comes to be paid: the PIX key of his bank account      *)
(* (bank-accounts), his subaccount at Asaas (subaccounts) with its         *)
(* approval by an administrator, its documents and its status, which Asaas *)
(* tells by webhook, its random PIX key and one tenant's customer record,  *)
(* which charges make (charges, asaas-customers), and its commercial data. *)
(*                                                                         *)
(* Handlers are split at their awaits; a bank account's action token is    *)
(* consumed first (Verification).  "Variant" operators are used by no      *)
(* other definition.                                                       *)
(***************************************************************************)
EXTENDS AsaasAccounts, Verification

CONSTANTS
  Procs,          \* handlers that can be in flight at once
  MaxTokens,      \* bound on the action tokens
  MaxInfo,        \* bound on the updates of the commercial data
  MaxCrashes      \* bound on the failures that end handlers

ASSUME OnboardingAssumption ==
  /\ {MaxTokens, MaxInfo, MaxCrashes} \subseteq Nat
  /\ Contexts = {"CREATE_BANK_ACCOUNT", "PIX_KEY_UPDATE"}

VARIABLES
  requireApproval,  \* the flag requireAdminApprovalForSubaccount
  sub,        \* the row of the subaccount: it exists, asaasAccountId (with
              \* its apiKey and webhook token), statusGeneral, onboardingUrl,
              \* and asaasPixKeyId, as the account of the key
  pix,        \* the PIX key of the bank account, by its number; 0 is none
  customer,   \* the row that names the tenant's customer
  local,      \* the commercial data on the user's row, as its version
  task,       \* the handlers in flight
  tokens,     \* action tokens so far
  infos,      \* updates of the commercial data so far
  history,    \* what happened: an administrator approved,
              \* the row's account was replaced
  reviewed,   \* history: every status that each account was reviewed to
  crashes     \* failures so far

rows == <<sub, pix, customer, local>>
vars == <<requireApproval, rows, task, tokens, infos, history, reviewed,
          crashes, asaasVars, verificationVars>>

SubStatus == {"none", "PENDING_ADMIN_APPROVAL"} \cup AccountStatus

\* A task is named for the step it will do next.
Ops == {"idle", "bank_consume", "bank_read", "request_find", "request_write",
        "request_tell", "account_post", "account_write", "url_write",
        "bank_write", "approve_tell", "pix_consume", "pix_write",
        "key_get", "key_find", "key_post", "key_write", "customer_read",
        "customer_find", "customer_post", "customer_write", "info_post",
        "info_write", "documents_post", "status_write", "status_answer"}

\* by tells who creates a subaccount; the rest is what was read, or made.
IdleTask == [op |-> "idle", by |-> "bank", acct |-> NoId, key |-> NoId,
             customer |-> NoId, status |-> "none", n |-> 0]

TypeOK ==
  /\ AsaasTypeOK
  /\ VerificationTypeOK
  /\ requireApproval \in BOOLEAN
  /\ sub \in [exists : BOOLEAN, acct : Accounts \cup {NoId},
              status : SubStatus, url : BOOLEAN, key : Accounts \cup {NoId}]
  /\ {sub.acct, sub.key} \subseteq Made \cup {NoId}
  /\ pix \in 0..MaxTokens
  /\ customer \in Customers \cup {NoId}
  /\ local \in 0..infos
  /\ task \in [Procs -> [op : Ops, by : {"bank", "approve"},
                         acct : Accounts \cup {NoId},
                         key : Accounts \cup {NoId},
                         customer : Customers \cup {NoId},
                         status : SubStatus, n : Nat]]
  /\ tokens \in 0..MaxTokens
  /\ infos \in 0..MaxInfo
  /\ history \subseteq {"approved", "replaced"}
  /\ reviewed \in [Accounts -> SUBSET AccountStatus]
  /\ crashes \in Nat

Init ==
  /\ AsaasInit
  /\ VerificationInit
  /\ requireApproval \in BOOLEAN
  /\ sub = [exists |-> FALSE, acct |-> NoId, status |-> "none", url |-> FALSE,
            key |-> NoId]
  /\ pix = 0
  /\ customer = NoId
  /\ local = 0
  /\ task = [p \in Procs |-> IdleTask]
  /\ tokens = 0
  /\ infos = 0
  /\ history = {}
  /\ reviewed = [a \in Accounts |-> {}]
  /\ crashes = 0

-----------------------------------------------------------------------------
(* Tasks.                                                                  *)

At(p, op) == task[p].op = op

Continue(p, t) == task' = [task EXCEPT ![p] = t]

Start(p, t) == At(p, "idle") /\ Continue(p, t)

Proceed(p, op) == Continue(p, [task[p] EXCEPT !.op = op])

Finish(p) == Continue(p, IdleTask)

\* Asaas did what a POST asked for.  If its answer is too late the handler
\* throws: a call is made once, whatever request's retry says.
Answer(p, t) == Continue(p, t) \/ Finish(p)

-----------------------------------------------------------------------------
(* Action tokens, as Accounts makes them; a handler takes the last.        *)

Grant(c) ==
  /\ tokens < MaxTokens
  /\ tokens' = tokens + 1
  /\ SetToken(c, tokens + 1)
  /\ UNCHANGED <<requireApproval, rows, task, infos, history, reviewed,
                 crashes, asaasVars>>

ForgetToken ==
  /\ \E c \in Contexts : Expire(c)
  /\ UNCHANGED <<requireApproval, rows, task, tokens, infos, history, reviewed,
                 crashes, asaasVars>>

StartWithToken(p, c, op) ==
  /\ actionToken[c] # 0
  /\ Start(p, [IdleTask EXCEPT !.op = op, !.n = actionToken[c]])
  /\ UNCHANGED <<requireApproval, rows, tokens, infos, history, reviewed,
                 crashes, asaasVars, verificationVars>>

Consume(p, op, c, next) ==
  /\ At(p, op)
  /\ DeleteToken(c)
  /\ Proceed(p, next)
  /\ UNCHANGED <<requireApproval, rows, tokens, infos, history, reviewed,
                 crashes, asaasVars>>

-----------------------------------------------------------------------------
(* The bank account, and the subaccount it asks for.                       *)

StartBank(p) == StartWithToken(p, "CREATE_BANK_ACCOUNT", "bank_consume")

BankConsume(p) ==
  Consume(p, "bank_consume", "CREATE_BANK_ACCOUNT", "bank_read")

\* Variant: the flag is not looked at.
BankReadLax(p) ==
  /\ At(p, "bank_read")
  /\ IF pix # 0 THEN Finish(p)
     ELSE Proceed(p, IF sub.acct # NoId THEN "bank_write" ELSE "account_post")
  /\ UNCHANGED <<requireApproval, rows, tokens, infos, history, reviewed,
                 crashes, asaasVars, verificationVars>>

\* A conflict, or getOrCreateSubaccount for the user that was read.
BankRead(p) ==
  /\ At(p, "bank_read")
  /\ IF pix # 0 THEN Finish(p)
     ELSE Proceed(p, IF sub.acct # NoId THEN "bank_write"
                     ELSE IF requireApproval THEN "request_find"
                     ELSE "account_post")
  /\ UNCHANGED <<requireApproval, rows, tokens, infos, history, reviewed,
                 crashes, asaasVars, verificationVars>>

RequestFind(p) ==
  /\ At(p, "request_find")
  /\ Proceed(p, IF sub.exists THEN "bank_write" ELSE "request_write")
  /\ UNCHANGED <<requireApproval, rows, tokens, infos, history, reviewed,
                 crashes, asaasVars, verificationVars>>

\* One row per user: of two at once, one throws.
RequestWrite(p) ==
  /\ At(p, "request_write")
  /\ IF sub.exists
     THEN Finish(p) /\ UNCHANGED sub
     ELSE /\ sub' = [sub EXCEPT !.exists = TRUE,
                                !.status = "PENDING_ADMIN_APPROVAL"]
          /\ Proceed(p, "request_tell")
  /\ UNCHANGED <<requireApproval, pix, customer, local, tokens, infos, history,
                 reviewed, crashes, asaasVars, verificationVars>>

\* Every active administrator is notified.
RequestTell(p) ==
  /\ At(p, "request_tell")
  /\ Proceed(p, "bank_write")
  /\ UNCHANGED <<requireApproval, rows, tokens, infos, history, reviewed,
                 crashes, asaasVars, verificationVars>>

\* One row per user, here too.
BankWrite(p) ==
  /\ At(p, "bank_write")
  /\ pix' = IF pix = 0 THEN task[p].n ELSE pix
  /\ Finish(p)
  /\ UNCHANGED <<requireApproval, sub, customer, local, tokens, infos, history,
                 reviewed, crashes, asaasVars, verificationVars>>

StartPix(p) == StartWithToken(p, "PIX_KEY_UPDATE", "pix_consume")

PixConsume(p) == Consume(p, "pix_consume", "PIX_KEY_UPDATE", "pix_write")

PixWrite(p) ==
  /\ At(p, "pix_write")
  /\ pix' = IF pix # 0 THEN task[p].n ELSE pix
  /\ Finish(p)
  /\ UNCHANGED <<requireApproval, sub, customer, local, tokens, infos, history,
                 reviewed, crashes, asaasVars, verificationVars>>

-----------------------------------------------------------------------------
(* The subaccount at Asaas: completeSubaccountCreation.                    *)

StartApprove(p) ==
  /\ sub.status = "PENDING_ADMIN_APPROVAL"
  /\ Start(p, [IdleTask EXCEPT !.op = "account_post", !.by = "approve"])
  /\ history' = history \cup {"approved"}
  /\ UNCHANGED <<requireApproval, rows, tokens, infos, reviewed, crashes,
                 asaasVars, verificationVars>>

\* Variant: the row is written under an id that Asaas has yet to take.
AccountPostLate(p, a) ==
  /\ At(p, "account_post")
  /\ a \notin Made
  /\ Continue(p, [task[p] EXCEPT !.op = "account_write", !.acct = a])
  /\ UNCHANGED <<requireApproval, rows, tokens, infos, history, reviewed,
                 crashes, asaasVars, verificationVars>>

AccountPost(p, a) ==
  /\ At(p, "account_post")
  /\ PostAccount(a)
  /\ Answer(p, [task[p] EXCEPT !.op = "account_write", !.acct = a])
  /\ UNCHANGED <<requireApproval, rows, tokens, infos, history, reviewed,
                 crashes, verificationVars>>

\* upsert, whatever the row has become.
AccountWrite(p) ==
  /\ At(p, "account_write")
  /\ sub' = [sub EXCEPT !.exists = TRUE, !.acct = task[p].acct,
                        !.status = "PENDING"]
  /\ history' = IF sub.acct = NoId THEN history
                ELSE history \cup {"replaced"}
  /\ Proceed(p, "url_write")
  /\ UNCHANGED <<requireApproval, pix, customer, local, tokens, infos,
                 reviewed, crashes, asaasVars, verificationVars>>

\* After 15 seconds the documents are asked for; an error, or an answer
\* without a link, is logged.
UrlWrite(p) ==
  /\ At(p, "url_write")
  /\ sub' \in {sub, [sub EXCEPT !.url = TRUE]}
  /\ Proceed(p, IF task[p].by = "bank" THEN "bank_write" ELSE "approve_tell")
  /\ UNCHANGED <<requireApproval, pix, customer, local, tokens, infos, history,
                 reviewed, crashes, asaasVars, verificationVars>>

\* Variant: the approval is taken for that of Asaas.
ApproveTellApproved(p) ==
  /\ At(p, "approve_tell")
  /\ sub' = [sub EXCEPT !.status = "APPROVED"]
  /\ Finish(p)
  /\ UNCHANGED <<requireApproval, pix, customer, local, tokens, infos,
                 history, reviewed, crashes, asaasVars, verificationVars>>

ApproveTell(p) ==
  /\ At(p, "approve_tell")
  /\ Finish(p)
  /\ UNCHANGED <<requireApproval, rows, tokens, infos, history, reviewed,
                 crashes, asaasVars, verificationVars>>

-----------------------------------------------------------------------------
(* Documents, and commercial data.                                         *)

\* With the account, and its key, on the row.
StartWithKey(p, op, n) ==
  /\ sub.acct # NoId
  /\ Start(p, [IdleTask EXCEPT !.op = op, !.acct = sub.acct, !.n = n])

\* processDocumentUpload.
StartDocuments(p) ==
  /\ StartWithKey(p, "documents_post", 0)
  /\ UNCHANGED <<requireApproval, rows, tokens, infos, history, reviewed,
                 crashes, asaasVars, verificationVars>>

\* Refused if Asaas does not ask for them.
DocumentsPost(p) ==
  /\ At(p, "documents_post")
  /\ IF account[task[p].acct].documents THEN UNCHANGED asaasVars
     ELSE PostDocuments(task[p].acct)
  /\ Finish(p)
  /\ UNCHANGED <<requireApproval, rows, tokens, infos, history, reviewed,
                 crashes, verificationVars>>

StartInfo(p) ==
  /\ infos < MaxInfo
  /\ infos' = infos + 1
  /\ StartWithKey(p, "info_post", infos + 1)
  /\ UNCHANGED <<requireApproval, rows, tokens, history, reviewed, crashes,
                 asaasVars, verificationVars>>

\* Variant: the user's row goes first.
InfoPostLate(p) ==
  /\ At(p, "info_post")
  /\ local' = task[p].n
  /\ Proceed(p, "info_write")
  /\ UNCHANGED <<requireApproval, sub, pix, customer, tokens, infos, history,
                 reviewed, crashes, asaasVars, verificationVars>>

InfoPost(p) ==
  /\ At(p, "info_post")
  /\ PostInfo(task[p].n)
  /\ Answer(p, [task[p] EXCEPT !.op = "info_write"])
  /\ UNCHANGED <<requireApproval, rows, tokens, infos, history, reviewed,
                 crashes, verificationVars>>

InfoWrite(p) ==
  /\ At(p, "info_write")
  /\ local' = task[p].n
  /\ Finish(p)
  /\ UNCHANGED <<requireApproval, sub, pix, customer, tokens, infos, history,
                 reviewed, crashes, asaasVars, verificationVars>>

-----------------------------------------------------------------------------
(* What a charge needs: a PIX key, and the tenant as a customer.           *)

\* Variant: the key of the subaccount is taken to be there.
StartChargeUnchecked(p, op) ==
  /\ sub.exists
  /\ Start(p, [IdleTask EXCEPT !.op = op, !.acct = sub.acct, !.key = sub.key])
  /\ UNCHANGED <<requireApproval, rows, tokens, infos, history, reviewed,
                 crashes, asaasVars, verificationVars>>

\* generateChargeForPaymentOrder, by PIX or not, once its order will do.
StartCharge(p, op) ==
  /\ sub.acct # NoId
  /\ Start(p, [IdleTask EXCEPT !.op = op, !.acct = sub.acct, !.key = sub.key])
  /\ UNCHANGED <<requireApproval, rows, tokens, infos, history, reviewed,
                 crashes, asaasVars, verificationVars>>

\* getOrCreateEvpPixKey: the key on the row, if this account has it in use;
\* an error is logged.
KeyGet(p) ==
  /\ At(p, "key_get")
  /\ \/ task[p].key = task[p].acct /\ task[p].key \in evp
        /\ Proceed(p, "customer_read")
     \/ Proceed(p, "key_find")
  /\ UNCHANGED <<requireApproval, rows, tokens, infos, history, reviewed,
                 crashes, asaasVars, verificationVars>>

KeyFind(p) ==
  /\ At(p, "key_find")
  /\ Proceed(p, IF task[p].acct \in evp THEN "key_write" ELSE "key_post")
  /\ UNCHANGED <<requireApproval, rows, tokens, infos, history, reviewed,
                 crashes, asaasVars, verificationVars>>

KeyPost(p) ==
  /\ At(p, "key_post")
  /\ PostKey(task[p].acct)
  /\ Answer(p, [task[p] EXCEPT !.op = "key_write"])
  /\ UNCHANGED <<requireApproval, rows, tokens, infos, history, reviewed,
                 crashes, verificationVars>>

\* Unless the row has it.
KeyWrite(p) ==
  /\ At(p, "key_write")
  /\ sub' = [sub EXCEPT !.key = task[p].acct]
  /\ Proceed(p, "customer_read")
  /\ UNCHANGED <<requireApproval, pix, customer, local, tokens, infos, history,
                 reviewed, crashes, asaasVars, verificationVars>>

\* getOrCreate: the subaccount, read anew.
CustomerRead(p) ==
  /\ At(p, "customer_read")
  /\ Continue(p, [IdleTask EXCEPT !.op = "customer_find", !.acct = sub.acct])
  /\ UNCHANGED <<requireApproval, rows, tokens, infos, history, reviewed,
                 crashes, asaasVars, verificationVars>>

CustomerFind(p) ==
  /\ At(p, "customer_find")
  /\ IF customer # NoId \/ task[p].acct = NoId THEN Finish(p)
     ELSE Proceed(p, "customer_post")
  /\ UNCHANGED <<requireApproval, rows, tokens, infos, history, reviewed,
                 crashes, asaasVars, verificationVars>>

CustomerPost(p, c) ==
  /\ At(p, "customer_post")
  /\ PostCustomer(c, task[p].acct)
  /\ Answer(p, [task[p] EXCEPT !.op = "customer_write", !.customer = c])
  /\ UNCHANGED <<requireApproval, rows, tokens, infos, history, reviewed,
                 crashes, verificationVars>>

\* One row per tenant and subaccount: of two at once, one throws.
CustomerWrite(p) ==
  /\ At(p, "customer_write")
  /\ customer' = IF customer = NoId THEN task[p].customer ELSE customer
  /\ Finish(p)
  /\ UNCHANGED <<requireApproval, sub, pix, local, tokens, infos, history,
                 reviewed, crashes, asaasVars, verificationVars>>

-----------------------------------------------------------------------------
(* The webhook of an account: handleAccountStatusUpdate.                   *)

\* Asaas waits for an answer before it sends again.
Delivered(a) ==
  \E p \in Procs : /\ task[p].op \in {"status_write", "status_answer"}
                   /\ task[p].acct = a

\* The guard knows an account by the webhook token on the row; others are
\* refused, and sent again.
Known(a) == sub.acct = a

StartStatus(p, a) ==
  /\ HasEvent(a)
  /\ ~Delivered(a)
  /\ Known(a)
  /\ Start(p, [IdleTask EXCEPT !.op = "status_write", !.acct = a,
                               !.status = Head(events[a])])
  /\ UNCHANGED <<requireApproval, rows, tokens, infos, history, reviewed,
                 crashes, asaasVars, verificationVars>>

StatusWrite(p) ==
  /\ At(p, "status_write")
  /\ sub' = [sub EXCEPT !.status = task[p].status]
  /\ Proceed(p, "status_answer")
  /\ UNCHANGED <<requireApproval, pix, customer, local, tokens, infos, history,
                 reviewed, crashes, asaasVars, verificationVars>>

\* The landlord is notified.
StatusAnswer(p) ==
  /\ At(p, "status_answer")
  /\ Answered(task[p].acct)
  /\ Finish(p)
  /\ UNCHANGED <<requireApproval, rows, tokens, infos, history, reviewed,
                 crashes, verificationVars>>

-----------------------------------------------------------------------------
(* Asaas, failures, and the specification.                                 *)

\* Documents by the link, reviews, and what becomes of a PIX key.
Asaas ==
  /\ \E a \in Accounts :
       \/ /\ sub.acct = a /\ sub.url
          /\ PostDocuments(a)
          /\ UNCHANGED reviewed
       \/ \E s \in {"APPROVED", "REJECTED"} :
            /\ Review(a, s)
            /\ reviewed' = [reviewed EXCEPT ![a] = @ \cup {s}]
       \/ DropKey(a) /\ UNCHANGED reviewed
  /\ UNCHANGED <<requireApproval, rows, task, tokens, infos, history, crashes,
                 verificationVars>>

\* Asaas refuses a call; before a subaccount is asked for, the user's data may
\* be found incomplete.
PostFails(p) ==
  /\ task[p].op \in {"account_post", "customer_post", "info_post",
                     "documents_post", "key_find", "key_post"}
  /\ Finish(p)
  /\ UNCHANGED <<requireApproval, rows, tokens, infos, history, reviewed,
                 crashes, asaasVars, verificationVars>>

\* A handler dies, or a call of its throws: what it did before stays.
Crash(p) ==
  /\ crashes < MaxCrashes
  /\ ~At(p, "idle")
  /\ crashes' = crashes + 1
  /\ Finish(p)
  /\ UNCHANGED <<requireApproval, rows, tokens, infos, history, reviewed,
                 asaasVars, verificationVars>>

Begin(p) ==
  \/ StartBank(p)
  \/ StartPix(p)
  \/ StartApprove(p)
  \/ StartDocuments(p)
  \/ StartInfo(p)
  \/ StartCharge(p, "key_get") \/ StartCharge(p, "customer_read")

Step(p) ==
  \/ BankConsume(p)
  \/ BankRead(p)
  \/ RequestFind(p)
  \/ RequestWrite(p)
  \/ RequestTell(p)
  \/ BankWrite(p)
  \/ PixConsume(p)
  \/ PixWrite(p)
  \/ \E a \in Accounts : AccountPost(p, a)
  \/ AccountWrite(p)
  \/ UrlWrite(p)
  \/ ApproveTell(p)
  \/ DocumentsPost(p)
  \/ InfoPost(p)
  \/ InfoWrite(p)
  \/ KeyGet(p)
  \/ KeyFind(p)
  \/ KeyPost(p)
  \/ KeyWrite(p)
  \/ CustomerRead(p)
  \/ CustomerFind(p)
  \/ \E c \in Customers : CustomerPost(p, c)
  \/ CustomerWrite(p)
  \/ PostFails(p)
  \/ StatusWrite(p)
  \/ StatusAnswer(p)

Next ==
  \/ \E c \in Contexts : Grant(c)
  \/ ForgetToken
  \/ \E p \in Procs : Begin(p) \/ Step(p) \/ Crash(p)
  \/ \E p \in Procs, a \in Accounts : StartStatus(p, a)
  \/ Asaas

Spec == Init /\ [][Next]_vars

-----------------------------------------------------------------------------
(* Safety.                                                                 *)

Replaced == "replaced" \in history

\* While approval is required, Asaas gets no account before an administrator
\* approved the request, whichever handler comes to create it.
NoAccountUnapproved ==
  requireApproval /\ Made # {} => "approved" \in history

\* The status on the row was given to the account on the row, although the
\* row is found by one and written by the other; unless a second approval
\* replaced the account.
StatusIsOfAccount ==
  sub.status \in {"APPROVED", "REJECTED"} /\ ~Replaced =>
    sub.status \in reviewed[sub.acct]

\* The tenant's customer, and the PIX key on the row, are those of the account
\* whose key the charges use, not of the platform's own; unless a second
\* approval replaced the account.
CustomerIsOfAccount ==
  ~Replaced =>
    /\ customer # NoId => sub.acct # NoId /\ customerOf[customer] = sub.acct
    /\ sub.key # NoId => sub.key = sub.acct
    /\ evp \subseteq {sub.acct}

\* The commercial data on the user's row is some that Asaas was given: a
\* failure between the two leaves Asaas ahead, never the row.
LocalIsTold == local \in told

=============================================================================
