# Colibri server: specifications, model checking and proofs

This directory holds TLA+ specifications of `colibri-server`, a NestJS service
that runs residential rentals: a landlord offers a property, landlord and tenant
draft, document and sign a contract, the tenant pays a security deposit and
monthly rent through the Asaas gateway, and the server forwards the money to the
landlord. The specifications are translated from the TypeScript under `src/src`;
paths below are relative to that directory, and references like `LC:313` use
these short names:

| Short | File | Short | File |
| --- | --- | --- | --- |
| CH | `modules/charges/charges.service.ts` | VE | `modules/verification/verification.service.ts` |
| PO | `modules/payments-orders/payments-orders.service.ts` | AUT | `auth/auth.service.ts` |
| TR | `modules/transfers/transfers.service.ts` | US | `modules/users/users.service.ts` |
| LC | `modules/contracts/contracts.lifecycle.service.ts` | SUB, SAD | `modules/subaccounts/subaccounts.service.ts`, `...subaccounts.admin.service.ts` |
| CP | `modules/contracts/contracts.payment.service.ts` | BA | `modules/bank-accounts/bank-accounts.service.ts` |
| SG | `modules/contracts/contracts.signature.service.ts` | AC | `modules/asaas-customers/asaas-customers.service.ts` |
| PSG | `modules/pdfs/pdfs.signature.service.ts` | PG | `payment-gateway/payment-gateway.service.ts` |
| PDF | `modules/pdfs/pdfs.service.ts` | PR, PCA | `modules/properties/properties.service.ts`, `...properties-cache.service.ts` |
| DO | `modules/documents/documents.service.ts` | CA | `modules/cache/cache.service.ts` |
| WH | `modules/webhooks/webhooks.service.ts` | PH | `modules/photos/photos.property.service.ts` |
| RS | `scheduler/tasks/reminders.scheduler.ts` | IN | `modules/interests/interests.service.ts` |
| TFA | `modules/two-factor-auth/two-factor-auth.service.ts` | NS | `modules/notifications/notifications.service.ts` |

Contents: 1 the system, 2 the modules, 3 how code becomes actions, 4 the runs,
5 bounds, 6 fairness, 7 proofs, 8 what the models say about the code, 9 what is
not modelled, 10 plan.

## 1. The system

One Node process (or several behind a load balancer: nothing in the code
assumes a single one) serves HTTP requests, Asaas and Clicksign webhooks, cron
tasks and Bull queue workers. All of them are `async` handlers over one
PostgreSQL database through Prisma, a Redis and a bucket of files. **No
handler uses a transaction or a lock over its reads and writes** (the only
transactions read a page of a list with its count): what protects data is a
unique index here and there, and checks made on rows read earlier.
Almost everything hard in this system follows from that.

| Component | State | Operations | Hard behaviour |
| --- | --- | --- | --- |
| Contract drafting (LC) | `Contract.status`, `contractHtml`, `alterationRequestReason` | create, updateContractHtml, tenantAcceptsContract, tenantRequestsAlteration, update (PUT), cancelContract, remove | edits and answers in flight together; PUT writes any status |
| Documents (DO) | `Document` rows: type, status, file | uploadDocument (replaces a row of the type), updateStatus, the two advances of the contract | upload against approval; deletion before a new upload that may fail |
| Signature (SG, PSG, worker, Clicksign) | `contractFilePath`, `clicksignEnvelopeId`, `SignatureRequest` rows, queue jobs | initiate (worker, 3 attempts), request by hand, sign and close webhooks | a retry after half of the calls; files deleted under a job; old envelopes that close |
| Activation (LC, CP, WH) | contract status, `Property.isAvailable`, orders | activateContractAfterSignature, createAndChargeSecurityDeposit, activateContractAfterDepositPayment, forceActivateContract, createPaymentsForContract | three webhooks for one closing; activation and cancellation at once; crash half way |
| Charges (CH, scheduler, worker) | `Charge` row (one per order, unique) | generate, regenerateDepositCharge, daily job per order, cancel | gateway call between check and insert |
| Payment orders (PO) | `PaymentOrder.status`, due date | createAndChargeSecurityDeposit, createPaymentsForContract, confirmPaymentByChargeId, processOverduePayment, updatePaymentStatusByChargeId, confirmCashPayment, confirmSecurityDepositInCash, daily overdue sweep | webhooks repeated, late and out of order; cash against webhook; an order made after the hour of its reminder |
| Payouts (TR) | `Transfer` row (optional, unique order) | initiateAutomaticTransfer, createTransferRecord, handleTransferStatusUpdate, createManualTransfer | PIX call before its row; webhook before the row; two payouts of one order; a balance that was withdrawn |
| Notifications, mails, reminders (NS, RS, `email.worker`) | notification rows, mail jobs | create; sweep and reminders at 5 and 8 AM | a failed send ends the handler that awaits it, with what it had left to do |
| Verification (VE) | Redis keys with a life time | codes, single-use action tokens | get-then-delete of a code or token |
| Login and users (AUT, TFA, US) | `User`, its links and second factor, JWTs | register, links, login, second factor, refresh, reset, update | links written, mailed and used at once; partial tokens and refreshes |
| Subaccounts, bank accounts, customers (SUB, SAD, BA, AC) | `SubAccount`, `BankAccount`, `AsaasCustomer` | create, approve, documents, commercial data, account webhooks, get-or-create of key and customer | double approval; get-or-create twice; late webhooks; lost answers |
| Properties, photos, reports, interests (PR, PH, PDF, IN) | their rows, objects in the bucket | create, update, remove, upload, decide, clean-up task | object and row written apart; several photos at once, of which one fails; a removal, or a cancellation, that meets an upload |
| Cached lists (CA, PCA) | pages in Redis, the sets that track them | fill, expire, clear | clear in two steps against a late fill; changes that clear nothing |
| Condominiums, logs, analytics, metrics, health | single rows and counters | CRUD, reports | none that two handlers could get wrong together |

How they interact. A tenant's interest leads to a contract. Drafting ends in
`PENDENTE_DOCUMENTACAO`; documents advance it to `EM_ANALISE` and
`AGUARDANDO_ASSINATURAS` and put a job on the signature queue; the job renders
the PDF, stores it and sends it to Clicksign; the close webhook of the envelope
starts activation, which creates the deposit or the schedule of rent orders and
asks for the first charge; the schedulers, the queue, the payment webhooks and
the payouts then work on those orders until the contract ends. Charges need the
landlord's subaccount, and payouts his bank account. Cancel, force-activate and
PUT cut across all stages, the removal of a property across all tables. Every
stage tells people by `NotificationsService.create`, which handlers await.

What correctness means, per component:

- *Money*: an order shown as paid has its money; a payout follows money that was
  collected; an order shown as received was transferred; rows of charges and
  transfers point at the order they were made for; a payout that fails is told.
- *Progress of billing*: a pending order of an active contract is charged in
  time; an unpaid one is marked once its due date passes, is told so once, and is reminded
  of twice.
- *Activation*: nobody gets an active contract or a rent schedule without all
  signatures and, where there is one, the deposit; an activation that started
  ends with a schedule.
- *Process*: no stage of a contract is skipped by handlers with stale reads; the
  signature job is queued only for a contract that was accepted, documented and
  approved.
- *Signature*: what can be signed is whole, is the current text, and is found
  again when it closes; a job ends.
- *Accounts*: a secret does what it was issued for; the second factor was really
  given; the newest link works.
- *Onboarding*: no account at the gateway without approval; status, key and
  customer on our rows are those of the account on our row.
- *Listings*: rows and objects name each other; a cached page is as fresh as the
  clearing makes it; an interest's status reaches the person it concerns.

## 2. The modules

| Module | What it is | Proofs | TLC |
| --- | --- | --- | --- |
| `OrderIds` | the shared identities and `None` | | |
| `AsaasCharges` | the gateway's charges and their webhooks (external) | | |
| `AsaasTransfers` | the gateway's PIX transfers and their webhooks (external) | | |
| `AsaasAccounts` | the gateway's subaccounts, customers, PIX keys and account events (external) | | |
| `Clicksign` | envelopes: draft, running, closed, cancelled (external) | | |
| `Storage` | the bucket: upload, deletion that throws or is logged | | |
| `Verification` | codes and action tokens in Redis, one operator per call | | |
| `RentLedger` | abstract: where the money of an order is, and what may be shown of it | | |
| `RentBilling` | charges, orders and payouts of an active contract; implements `RentLedger` | `RentBillingProofs` | `MCRentBilling` |
| `Activation` | from the open envelope to the active contract with its schedule | `ActivationProofs` | `MCActivation` |
| `ContractLifecycle` | abstract: which status an earlier status prepares | | |
| `ContractFlow` | draft, acceptance, documents, up to the signature job; implements `ContractLifecycle` | `ContractFlowProofs` | `MCContractFlow` |
| `Signature` | the signature job and the request by hand, Clicksign, closing, cancellation, removal | `SignatureProofs` | `MCSignature` |
| `Accounts` | registration, links, codes, second factor, sessions, profile | `AccountsProofs` | `MCAccounts` |
| `Onboarding` | bank account, subaccount, approval, account webhooks, key, customer, commercial data | `OnboardingProofs` | `MCOnboarding` |
| `Listings` | property, photos, reports, interests, cached lists, removal, the reports of a cancelled contract | `ListingsProofs` | `MCListings` |
| `Notices` | what is told of orders, from their creation on: sweep, webhooks of charges and transfers, cash, a new charge, cancellation, payouts, reminders, mails | `NoticesProofs` | `MCNotices` |

`RentBilling` extends both gateway modules for money, `Activation` the charges
only, `Signature` extends `Storage` and `Clicksign`, `Listings` extends `Storage`,
`Accounts` and `Onboarding` extend `Verification`, and `Onboarding` also
`AsaasAccounts`. The contract modules cut the life of one contract at the points
where the code hands over: `ContractFlow` ends with the job on the signature
queue, `Signature` begins there and ends with the closed envelope, `Activation`
begins with the running envelope, and `RentBilling` begins where `Activation`
ends, with status `ATIVO` and a schedule. `Notices` looks at the handlers that
write orders in `Activation` and `RentBilling` from the side of the people who are
told, over days: it has every statement of the code that writes an order's status.

Correspondence of state:

- `contract`, `order`, `charge`, `transferStatus`, `transferOrder`, `doc`,
  `available`, `reason`, `user`, `sub`, `pix`, `customer`, `local`, `photos`,
  `reports`, `interest`, `requests` are rows or columns of the Prisma schema, named
  in the comments of the `VARIABLES`. A row that does not exist is `None`, absent
  from a set, or `"absent"`. A document row that was deleted is `"deleted"`: ids
  are never used again.
- `text` stands for `contractHtml` by the number of edits made so far, `local` for
  the commercial data by its version.
- `late` (of `RentBilling`) is the set of orders whose due date is past; `Age` is
  the calendar. In `Notices` the calendar is `day`, with its two crons.
- `hasDeposit` is the outcome of `guaranteeType === 'DEPOSITO_CAUCAO' &&
  securityDeposit > 0`. It is fixed at the start, although PUT may edit the
  guarantee; the one effect of such an edit the code reacts to, a deposit that
  is gone when the order is to be created, is the action `DepositRefused`.
- `jobs` (of `RentBilling`) is the charge queue; its elements are orders, so two
  jobs for one order count as one. `job` (of `Signature`) is the signature job
  with its attempts, `queue` (of `Notices`) the mails.
- `gwStatus`, `sent`, `pixStatus`, `pixSent`, `account`, `customerOf`, `evp`,
  `events` belong to Asaas, `envelope` to Clicksign, `stored` to the bucket,
  `cached` and `tracked` and the codes and tokens of `Verification` to Redis.
  `sent` and `pixSent` only grow: a webhook that was emitted can be handled at any
  later time, any number of times, in any order, or never. The events of an
  account come in order, each until it is answered, as the webhook that the code
  registers asks for (`sendType: SEQUENTIALLY`).
- A code, a link and a token is a number, its secret being that it is fresh; what
  a client holds is what was mailed or granted to it.
- History variables (`cash`, `forced`, `put`, `visited`, `accepted`, `cleared`,
  `purged`, `reopened`, `withdrawn`, `uses`, `expired`, `reviewed`, `told`, `raced`,
  `lost`, `paid`, `crossed`, `cancelled`, `missed`, `owed`, `silent`, `overtaken`) are
  read by no action's guard, but for `told` of `Listings`, by which an interest's id
  is not used twice. `renewed` of `Notices` counts how often an order was opened or
  closed again; its bound is its only use in a guard but for `StartWebhook`, where it
  says that an event of an older lateness may come.
- `task[p]` is a handler in flight, see next section.

## 3. How code becomes actions

A handler that reads, awaits and writes is split at its awaits. Its first action
(`Start...`) is the read with every check made on what was read; each call of a
gateway, of Redis or of the bucket and each write of the database is an action of
its own; what the handler remembers between two of them is the record `task[p]`,
with the name of the step it will do next. `Begin(p)` collects the actions that
start a handler, `Step(p)` those that continue one. A write is atomic because it
is one SQL statement (Prisma's nested writes of one call are one statement group
in one implicit transaction). Example: `confirmPaymentByChargeId` (PO:352 on) is
`StartConfirm` (find the order by the charge id, return when it is `PAGO`),
`ConfirmWrite` (status `PAGO`), then `PayoutCall` (the PIX call), `PayoutSave` (the
row and `EM_REPASSE`) or `PayoutSkip` (no bank account, nothing left after fees, or
an error, which is caught). Two deliveries of one webhook are two tasks that
interleave. In `Notices` the handlers have names instead (`sweep`, `remind`,
`webhook`, `cash`, `renew`, `withdraw`), since each kind is there once: the crons by
their schedule, the webhooks because Asaas sends the events of one account one at a
time.

A `Promise.all` is one task with several things in hand: in `uploadPropertyPhotos`
(PH:47-82) each photo of a request is uploaded and gets its row in an order of its
own (`PhotoUpload`, `PhotoRow`), the cache is cleared after the last (`PhotoMade`),
and the first that fails ends the handler while the others go on, in a task that
nobody waits for (`PhotoFails`, `photo_stray`).

What a cached page shows is the record `Listing`: whether the property is on it and
available, its photos, and its interests, of which the page has the number
(PR:140, PR:156). `Shows` says when a page is as the rows are in all but interests
that came since.

Steps between which nothing another handler does could make a difference are one
action: `Deleted` and `Restored` of `RentBilling` (the charge row of a rent order is
never replaced, which `ChargeNeverReplaced` shows). In `Activation` the charge row
of a deposit *can* be deleted, so there the same handler is split.

One handler can appear in two modules, with a different part of its effects in
view. `cancelContract` cancels charges and orders in `RentBilling`, orders in
`Notices` (`CancelContract`), the envelope and files in `Signature`, deletes the
reports in `Listings` (`StartCancel`), and sets the status in `ContractFlow`. What the other
modules' part could change here is then an input: a status that changes by itself
(`Prepare` in `Signature`, `Hide` and `AddContract` in `Listings`).

Failures. `Crash` ends handlers between two steps: a database error or a failed
notification ends one, a restart of the process all of them. A failed call of a
gateway is the matching `...Fail(s)` action or the `UNCHANGED` disjunct where the
code swallows the error (`CancelCharge`, `RegenCancel`, `CancelEnvelope`). An answer
that is lost leaves what the call did (`PostFails` of `Onboarding`). A job whose
worker died goes back to the queue or not (Bull's stalled check), by choice. A
storage that fails either throws into the handler or is logged, as its caller has
it (`DeleteFiles`, `DeleteFilesOrLog`). What Redis holds may go at any moment
(`ExpireSecret`, `ForgetToken`, `ExpirePage`): life times are not measured.

Inputs are chosen by `\E`. `Update(s)` is PUT `contracts/:id`, whose DTO accepts
`status` like any other field (LC:368).

Names marked *Variant* are slips a programmer could plausibly make in the
definition that follows them. No specification uses them; each shows that some
property would notice.

## 4. The runs

Eleven runs pass:

| Run | Instance | Question | Distinct states |
| --- | --- | --- | --- |
| `Rent` | 1 order, 2 charge ids, 2 transfers, 2 handlers, 1 failure, PUT to `FINALIZADO` | With requests, jobs, cash, cancellation, payments, payouts and their webhooks in any order and repeated, do the books run ahead of the money (`MoneyBehindPaid`, `ReceivedWasTransferred`, and step by step `ImplementsLedger`), or is the first charge row ever replaced (`ChargeNeverReplaced`)? No. | 0.5 M |
| `RentLive` | 1 order, 2 charges, 1 handler, 1 failure, PUT to an earlier status | Under the fairness of section 6, is every pending order charged in time, and marked when its date passed? Yes. | 0.2 M |
| `Activation` | 2 orders, 2 charges, 2 handlers, 1 failure, with and without a deposit, PUT back to `AGUARDANDO_ASSINATURAS` | Can repeated close webhooks, deposits paid by charge or cash, cancellation or a status set back lead to an active contract or a schedule without signatures and deposit? No. | 1.3 M |
| `ActivationCompletes` | 2 orders, 1 charge, 1 handler | Does an activation end with the property taken and a schedule? Yes, when handlers go on. | 0.1 M |
| `Flow` | 2 handlers, 4 document rows, 2 edits, 1 failure, PUT to two statuses | Is a request for alteration ever shown without its reason, can the job be queued for a contract that was not accepted, documented and approved, does the status skip a stage (`ImplementsLifecycle`)? No. | 1.4 M |
| `Signature` | 2 envelopes, 1 file, 2 handlers, 1 job of 2 attempts, 1 edit | A job with its retries, a request by hand, an edit, a cancellation, a removal and closings meet, and every call may throw: is what can be signed whole, current, and found again? Yes. | 2.0 M |
| `SignatureEnds` | 1 envelope, 2 files, 1 handler, 3 attempts, 1 failure, PUT | Does a job end, done or failed? Yes, under section 6. | 0.1 M |
| `Accounts` | 2 handlers, 2 codes or links, 1 failure | Can a code or token do what it was not issued for, a session claim a second factor that was not given, the newest link be refused? No. | 1.4 M |
| `Onboarding` | 2 accounts, 2 customers, 2 handlers, 1 token, 1 failure | With approvals, documents, charges, commercial data and account webhooks at once and answers lost: an account without approval, a status, key or customer of another account, data on our side that Asaas was not given? No. | 1.5 M |
| `Listings` | 2 photos, 2 reports, 2 pages (one of each list), 1 interest, 2 handlers, 1 update, 1 failure | A row without its object, an object without row, a stale page that no handler is about to clear, a decision nobody is told? No. | 0.9 M |
| `Notices` | a rent and a deposit, days 0 to 4, 6 handlers of which 2 at once, 2 reports, 1 renewal of each order, 1 failure | Is a paid order marked late again, a payout forgotten, one lateness told twice, a reminder left out? No. | 0.5 M |

Each property has its exceptions in its formula, and they are part of what it
says: they name the races and failures the code does lose (section 8).

One run ends in a counterexample, against a sentence of the repository:
`RentOnePayout`, section 8.

Why these properties. Each one relates the state at a write to a read some steps
earlier, or the database to a gateway, a cache or the bucket. For instance
`RequestHasReason` looks obvious, but `updateContractHtml` writes back the reason it
read (LC:616); it holds only because an edit that could overwrite a reason also
leaves `SOLICITANDO_ALTERACAO` in the same statement. `ScheduleIsJustified` holds
although two close webhooks may send an active contract back to its deposit,
because only the two activating handlers reach `createPaymentsForContract`.
`RunningIsComplete` holds although a retry starts again with a new envelope at any
point, because activation is the last call and the rows are written just before.
`NewestLinkWorks` holds because the link is written before it is mailed.
`PayoutIsAnswered` holds because the failure is caught around the whole payout and
told to the admins in the same handler, which no redelivered event would repeat; it
is stated of landlords who could be paid, since of the others nobody is told
(TR:212-239). `LateToldOnce` counts how often events of the charge and new charges
opened the order again, since each of them allows one more lateness and no more,
although neither the sweep nor the webhook looks at what was told. `UnpaidIsReminded`
starts with orders that are not made yet, and has to except what was made too late.
`StoredIsNamed` holds although one of several photos may fail, because the others
still get their rows; it names the two operations, removal and cancellation, that
delete rows they did not read.

## 5. Bounds

| Bound | Why it is enough |
| --- | --- |
| `Procs` 1 or 2 | Every race in the code is between a read-check-write and one other write, so two handlers show it. Runs with one handler still interleave it with webhooks, the gateway, time and `Update`. |
| `Orders` 1 or 2 | Handlers of rent orders touch one order, except the sweep, cancel and the schedule; `Activation` needs a deposit and a rent, or two of either; `Notices` a rent and a deposit, since they are made, told and opened again differently. |
| `ChargeIds` 1 or 2, `TransferIds` 0 or 2 | A second id is what a race or a retry needs. |
| `MaxCrashes`, `MaxFailures` 0 or 1 | One failure at any step. `Signature` has it 0, since `SigningFails` and `OtherThrows` end a handler at any step as often as they like; there a crash differs only in what becomes of the job, which `SignatureEnds` has. Where a liveness run has it 0 (`ActivationCompletes`), nothing in the code resumes what was cut off. |
| `MaxEdits` 1 or 2, `MaxUpdates`, `MaxInfo`, `MaxTokens`, `MaxEvents`, `MaxJobs`, `MaxRenewals` 1, `MaxIssued` 2 | Two edits are needed for an acceptance of the older text; two codes or links for one that replaces another; otherwise one change against what it meets. |
| `Attempts` 2, 3 or 1 | Signature jobs have three; two show what a retry meets. Mails have one: `bull.config` asks for three, but `queue.module` registers the queues with the connection alone. |
| `MaxReports` 2, `LastDay` 4 | Two payments or transfers reported of two orders or twice of one; with orders due on day 3, days 0 to 4 hold both reminders of both, of which an order made after 8AM of day 0 misses the first. An order that is charged anew on day 4 is due on day 7, so that its second lateness is told only by the webhook. |
| `Photos`, `Reports` 2 | Two photos of one request, of which one fails and the other goes on; a report in the storage and one on its way, when a contract is cancelled or removed. |
| `Updates` | The statuses set by PUT, chosen per run so that PUT disturbs what the run asks about. Where it is `{}` the properties that hold "except after PUT" are checked at full strength. The proofs have it arbitrary. |
| `MayHaveDeposit` | `{TRUE, FALSE}` in `Activation`, `{TRUE}` in `ActivationCompletes`. |
| `TypeOf`, `Rows` | One row per document type in `Flow`: a type is sent once, approved or refused, and a replacement deletes it and finds no row left. The theorem about `SignatureIsPrepared` has any number of rows of any types. |

Some products of independent hazards are too large, and are kept apart by a state
constraint of the `MC` module; its comment says what meets what:

| Constraint | What it keeps apart, and where that meets after all |
| --- | --- |
| `Apart` of `MCRentBilling` | Handlers over two charges, failures and PUT come before a PIX transfer; payouts are of one charge, without failures. The theorems have no constraint. |
| `Apart` of `MCActivation` | Two handlers and failures come before the gateway holds a charge (deposits are then paid in cash); charges go through one handler. The theorems have no constraint. |
| `Apart` of `MCContractFlow` | Alterations, cancellation, PUT and failures come before the first document. The theorems have no constraint. |
| `Apart` of `MCAccounts` | A behaviour issues links or codes, not both: they share the user's row, but no column of it. |
| `Apart` of `MCOnboarding` | What charges make in the account (key, customer) is apart from its review and from the commercial data; each meets creation and replacement of the account. |
| `Apart` of `MCListings` | The cached lists, the contract with its reports and the interests each meet the property's removal, the interests also the lists; photos meet each of lists and reports one at a time, two photos meet removal and failures, two reports cancellation and removal. Once `late` is set nothing is asked of pages, and the behaviour is cut. The theorems have no constraint. |
| `TwoAtWork` of `MCNotices` | Two of six handlers work at once: the reminders with the sweep only, withdrawals with the webhook only. |
| `AdminAway` of `MCNotices` | The only active admin is away only while a payout is made, which is where it matters. |
| `FewEvents` of `MCNotices` | Of payments and transfers reported, cancellations, renewals and failures, at most two happen where one order is made, at most one where both are, and none where the sweep was still at work at 8AM. |
| `MailNext`, `MadeFirst` of `MCNotices` (action constraints) | A mail that is queued is tried before anything else happens; orders are made on the first day, at any of its hours, or not at all. No theorem of `Notices` has a constraint. |

Symmetry is used for ids and handlers in runs that check only safety, where the
initial state and every property treat them alike.

Deadlock checking is on where some parallel actor (a webhook, an edit, PUT, a new
request) can always move. It is off in `Signature`, `Accounts`, `Onboarding`,
`Listings` and `Notices`: a contract that is removed, secrets, ids and days that
are used up leave nothing to do.

## 6. Fairness

Safety runs use `Spec`, without fairness. Three runs need more.

`ActivationCompletes`: `WF_vars(Step(p))` for every handler. An `async`
function whose promise settles is resumed by the event loop, so a handler in
flight does its next step unless it fails; calls of the gateway settle because
the HTTP client times out (`GenerateFail` is the outcome then). The run has no
crashes and no PUT: nothing in the code resumes an activation that was cut off.

`RentLive` (`Fairness` in `RentBilling`):

- `WF` on `Step(p)`, as above;
- `WF` on `EnqueueCharges`: the 6 AM cron fires every day;
- `SF` on `TakeJob` per order: Bull's worker polls its queue without end. Strong,
  because a handler slot is busy now and then, which is an artefact of `Procs`;
- `SF` on `GenerateCall` per order: the gateway does not refuse the charge of one
  order for ever;
- `SF` on `StartSweep`: the 5 AM cron, strong for the same reason as `TakeJob`.

Nothing is assumed of webhooks, payers, landlords, PUT or the calendar, and
failures may happen at any step up to the bound.

`SignatureEnds` (`Fairness` in `Signature`): `WF` on `Step(p)`; `SF` on the worker
taking the job, strong as `TakeJob` above; `WF` on `JobFindsNothing`, the worker's
attempt at a contract that is gone. Nothing is assumed of Clicksign or the storage:
`SigningFails` may be taken at every step, and the attempts are then used up.

`RentLive` has one order on purpose. With two, the loop of the sweep
(PO:612-636) can be cut after its first order by a failing notification every
day while repeated `PAYMENT_RESTORED` webhooks make that order pending again, and
the second order waits for ever. TLC shows this, and it needs endlessly many
failures and redeliveries, so it is recorded here and not as a finding.

## 7. Proofs

`tlapm` checks `RentBillingProofs`, `ActivationProofs`, `ContractFlowProofs`,
`SignatureProofs`, `AccountsProofs`, `OnboardingProofs`, `ListingsProofs` and
`NoticesProofs` to the last leaf. Between them they prove every safety property
the passing runs check. The only assumptions are those on the constants: `None`
is no id, `First` is an order, the status sets are subsets of the enumerations,
the bounds are naturals, `TypeOf` is a function to document types. So the
theorems hold for any number of orders, charges, transfers, handlers, rows,
edits and failures, and without the state constraints of section 5.

The method is the same everywhere. `Next` gives an atomic write to a handler that
read what it relies on some steps ago, so no property is inductive as it stands.
The strengthening says, for each name a step can have in `task[p].op`, what the
handler relies on; a lemma says that no step of anybody else takes it away (or
which history variable remembers that it did); and one lemma per conjunct has one
step per action.

**`RentBilling`.** `IInv == TypeOK /\ TaskOK /\ ChargesInv /\ TransfersInv /\
MoneyInv`. None of the properties is inductive by itself: a handler in flight
may be about to write `PAGO` on the strength of a webhook it read long ago. The
strengthening says, per step name in `task[p].op`, what the handler relies on
(`confirm_write` relies on the order's charge being collected, `cash_write` on
the landlord's report, `settle_done` on a finished transfer), and that this is
*stable*: a charge that was collected stays collected, a transfer that came
through stays so, a gateway charge keeps its order. `ChargesInv` and
`TransfersInv` say that ids held in rows and tasks were handed out by the gateway
for that very order, and that a confirmation webhook tells the truth. One
lemma per conjunct has one step per action of `Next`. Results: `TypeCorrect`,
`ChargesBelong`, `MoneyIsThere`, `PayoutsAreCollected`, `ReceivedIsTransferred`,
`TransferRows`, `ChargeIsKept` (an action property), and `Refinement`: every step
of `RentBilling` is a step of `RentLedger` or leaves its variables unchanged.

**`ContractFlow`.** `IInv == TypeOK /\ TasksReady /\ HistoryOK /\
RequestHasReason`. `Ready(t)` says what each pending write was justified by when
its handler read; lemma by lemma, `Keeps` shows that history variables only
grow, so the justification survives whatever runs in between. `HistoryOK` links
the stages a contract has visited to texts accepted and documents sent.
Results: `TypeCorrect`, `SignaturesArePrepared`, `RequestsHaveReasons`,
`Refinement` (`ContractLifecycle`). The statuses that PUT may write are an
arbitrary subset of the enumeration.

**`Activation`.** `IInv == TypeOK /\ TaskOK /\ ChargesInv /\ TasksReady /\ RowsInv`.
That an active contract is justified is not inductive: `ActivateWrite` writes
`ATIVO` without a look at anything, on the strength of a read that may be many
steps old. `Ready(t)` says what each pending step relies on (the closed envelope,
a deposit order with its money, an order by hand), `Keeps` that no step takes any
of it back: an envelope stays closed, a deposit order stays, collected money and
reported cash stay. So a task stays ready while others run (`TasksStep`), and
what it writes is justified (`RowsStep`). The status may be set back and forth by
PUT in between: what justifies an activation is not the status. Results:
`TypeCorrect`, `ActiveContract`, `ScheduledContract`, `MoneyIsThere`,
`ChargesBelong`.

**`Notices`.** `IInv == TasksOK /\ RestOK /\ OwedInv /\ HeldInv /\
PaidStaysPaid /\ ShapeInv /\ StatusInv /\ AbsentInv /\ OnceInv /\ DueInv /\
RemindInv`.

- `OwedInv` says in which of its steps the webhooks' handler can be while it has a
  rent to pay out: about to pay out, about to tell tenant or landlord first, or
  about to tell the admins of the failure. `HeldInv` says that no handler is about
  to write an order that was paid, unless it read the order before (`crossed`).
- `ShapeInv` says which steps each of the six handlers has, that past the choice
  of an order it has one, which its loop has left behind, and which messages it
  can have left. The messages are sequences, so `OneTwo`, `MessageFacts` and
  `Lists` say what is left of each after a step.
- `StatusInv` says what an order can be that was not paid, and that `CANCELADO`
  comes from its contract or an event; `AbsentInv`, that nothing is done with an
  order before it is made, nor told of it.
- `OnceInv` is why a lateness is told once, though `Mark` and `Row` look at nothing.
  It counts: what was told of a lateness, and is about to be, and what the order may
  still come to while it is open, is one more than the openings at most. An order
  opens again only with `renewed` (`OrderGoes`), and as long as it is not in
  `crossed`, only one handler holds it. `DueInv` adds that what is held or
  `ATRASADO` is past its due day, as long as the order was left alone.
- `RemindInv` is about behaviours in which nothing has failed, and orders that were
  neither paid, cancelled nor opened again (`Plain`). `SweptInv` says that
  once the sweep of a day has begun, what is late is `ATRASADO` or still
  held by the sweep, unless it was made after that (`missed`). `QuietInv` says that
  the sweep is over when the reminders begin, unless `overtaken`. Together they give
  the second loop all the orders it must remind of. `TellsInv` counts: such an order
  was reminded of exactly once if the loop for it has begun (`Came`) and left it
  behind (not `Ahead`), and otherwise not at all. That is stronger than
  `UnpaidIsReminded`, which says nothing of the time before. `AheadInv` keeps a loop
  on the day of its orders.

`balance` never exceeds what came in, which needs the cardinality of a finite set
(`Counted`, `Removed`). Results: `TypeCorrect`, `PayoutsAreAnswered`, `PaidStay`,
`LatenessOnce`, `UnpaidReminded`, for any orders, due days, last day, attempts,
reports, renewals and failures.

**`Signature`.** `IInv == TypeOK /\ JobInv /\ OwnersInv /\ RunningIsComplete /\
QuietInv /\ NamesInv /\ TextInv /\ StoredInv /\ ClosedInv`.

- `OwnersInv` makes `RunningIsComplete` inductive: a handler between
  `createEnvelope` and the activation works on a draft of its own, which no other
  handler has, and `Drafted` says for each step which document, signers and rows
  that draft has by then. An older attempt, or a request by hand next to the job,
  has its own draft and cannot add to this one.
- `JobInv` says that one handler at most has the job, and that its attempts are
  counted when they start, so that a retry finds the attempt before it over.
- `TextInv` follows the text from the moment it is read: the rendered file that
  the row names, the one in a handler's hands and the document at Clicksign have
  the text as it stands, unless the contract was opened again. It needs `QuietInv`:
  an edit in `EM_ELABORACAO` is no opening again, and may be made because nothing
  was rendered or sent by then.
- `NamesInv` and `StoredInv`: what is named was uploaded, and what was uploaded is
  there until a handler withdraws the contract. `ClosedInv`: a handler of the close
  webhook is there only when an envelope closed.

Results: `TypeCorrect`, `RunningComplete`, `SignedTextCurrent`, `FileStored`,
`ActiveSigned`, for any number of handlers, envelopes, files, attempts, jobs, edits
and crashes; the run has two of each and one edit.

**`Onboarding`.** `IInv == TypeOK /\ NumbersInv /\ TasksInv /\ RowInv /\
CustomersInv /\ EventsInv /\ NoAccountUnapproved /\ StatusIsOfAccount /\
CustomerIsOfAccount /\ LocalIsTold`. `TasksInv` says that the account a handler read
is still the one on the row when the handler writes, unless a second approval
replaced it (`Replaced`), and that a handler that is about to post an account
began after an approval, where one is required. `CustomersInv` says that a customer in a
handler's hands is in the account it was made with. `EventsInv` is about the
account's webhooks: the event in a handler's hands is the first of its account's
queue, of no other handler, and every event tells of a review that took place;
hence the status that `status_write` puts on the row is one the account was given.
`NumbersInv` says that the version of the commercial data that is to be written
here was told to Asaas. Results: `TypeCorrect`, `ApprovedFirst`, `StatusOfAccount`,
`CustomerOfAccount`, `LocalTold`, with the approval flag on or off.

**`Listings`.** `IInv == TypeOK /\ HandsInv /\ NextInv /\ AbsentInv /\ RaceInv /\
DropInv /\ TrackInv /\ FreshInv /\ RowIsReadable /\ StoredIsNamed /\
InterestIsTold`.

- `HandsInv` says what the objects in a handler's hands are: an upload has some of
  its own, which no row names and of which the storage has those that were uploaded;
  a deletion has some that were there, and once it is to delete rows the storage has
  none of them, unless it failed. So a row is never made for an object that is gone,
  nor an object dropped whose row stays. `NextInv` says what follows a step.
- `DropInv` and `RaceInv` are about removals and cancellations, which delete rows
  other than those they read: rows that appeared since are those whose upload
  overlapped, and that is remembered in `raced` (also of a removal that is over,
  while its property or contract is gone).
- `FreshInv` is `PageIsFresh` with the handlers named that will clear a stale page,
  among them an upload of photos that has not begun to clear but will, if it
  finds the property; photos that go on astray are not among them (`ListingStep`).
  That a page counts no interest that is gone needs `ShowsKept`: interests go only
  with their property. It also needs `TrackInv`: a cached page is in the set by which
  `clearPropertiesCache` finds it, unless a clear emptied that set of pages entered
  since it had read the set (`late`).

Results: `TypeCorrect`, `RowReadable`, `StoredNamed`, `PageFresh`, `InterestTold`, for
any number of photos, reports, pages, interests, handlers, updates and failures,
which meet here without the constraint `Apart` of the run.

**`Accounts`.** `IInv == Typed /\ StoredInv /\ TasksInv /\ UsesInv /\
SecondFactorWasGiven /\ LinkInv`. `StoredInv` says that a code or token in Redis stands under
the context it was issued for; `TasksInv` says per step what the handler knows of
the secret in its hands, before the code is compared (only that it was mailed,
and that the context fits the endpoint) and after (that it was issued for the
context). `Keeps` says that nothing is taken back: numbers keep their purpose and
what was mailed stays mailed, so that tasks in flight stay as good as they were
(`TasksStep`). `LinkInv` is `NewestLinkWorks` from the moment the row takes a link,
before it is mailed: a link whose time is not over is the one in the user's row,
unless the address is verified or a newer link was issued. Results: `TypeCorrect`,
`SecretsAreUsedAsIssued`, `SecondFactor`, `NewestLink`, for any number of handlers,
codes, links and failures, though the calls of Redis by which a code is read and
deleted interleave with all others.

Five of the theorems are about properties that no run repeats, since their proofs
cover every instance: `PayoutOnlyCollected`, `TransferRowOfOrder` and
`ChargeBelongsToOrder` of `RentBilling`, `MoneyBehindPaid` and
`ChargeBelongsToOrder` of `Activation`.

Only model-checked: the four liveness results (`PendingIsCharged`,
`OverdueIsMarked`, `ActivationCompletes`, `SignatureJobEnds`; liveness under
fairness needs `ENABLED`, which is beyond the prover here), and the counterexample
of `RentOnePayout`.

## 8. What the models say about the code

The finding with a run that ends in the counterexample:

- *Two payouts of one payment* (`RentOnePayout`). Asaas reports
  `PAYMENT_CONFIRMED` and later `PAYMENT_RECEIVED` of one payment.
  `confirmPaymentByChargeId` stops only at `PAGO` (PO:373), but the first webhook
  has moved the order on to `EM_REPASSE`, so the second makes another PIX
  transfer. The schema gives an order one `transfer` (`schema.prisma:410`).

Behaviour worth knowing that the models reproduce, without a run of its own.
Where a property has an exception in its formula, this is why.

Money:

- A charge is generated for any order without a charge that is not `ATRASADO`,
  paid ones included (CH:113), where CH:89 says "PENDENTE".
- The sweep writes `ATRASADO` on the rows of its query whatever happened to them
  since (PO:612-636), so an order paid meanwhile becomes late (`crossed` in
  `PaidStaysPaid`). A `PAYMENT_OVERDUE` that comes after the payment does the same.
- The row is marked before people are told, and a failure or a stop between the
  two leaves them untold: no later sweep finds the order. So does one in the loop
  of the reminders: the rest of that day's reminders are lost.
- A failed notification, or a stop, after `PAGO` and before the payout leaves the
  landlord unpaid: the event delivered again returns at PO:373. `PayoutIsAnswered`
  excludes this (`Crash` puts the rent in `silent`).
- A landlord without bank account or API key, and a rent of which the fees leave
  nothing, get no payout and nobody is told but the log (TR:212-239). When the account
  is there later, no event makes up for it.
- `PAYMENT_DELETED` and `PAYMENT_RESTORED` are written over any status (PO:534): a paid
  order that is restored is `PENDENTE`, and the next sweep marks it and tells its
  lateness again. So does a deposit that is charged anew (CH:358), also one that was
  paid while its old charge was taken back, since the status is read only at the
  start (CH:321); and a transfer's report rewrites the order's status too (TR:395).
- The row of a second transfer takes the place of the order's first, which stays
  without an order: reports of the first then change nothing.
- A deposit's order is due three days after the moment it is made (PO:179). Made
  after 8AM, it misses its first reminder, as does a schedule that an activation
  makes late; made after 5AM of the day after its due date, a rent misses the second
  (`missed` in `UnpaidIsReminded`).
- A payout fails when the money is confirmed but not yet credited, or was
  withdrawn: `createManualTransfer` sends the whole balance, commission included
  (TR:68-134), in a row of no order. The admins are told, and nothing tries it
  again; without an active admin the failure is only logged.
- `confirmCashPayment` looks at no status. It accepts the order of a deposit: it
  becomes `PAGO`, and the contract stays in `AGUARDANDO_GARANTIA`, since nothing else
  activates it (PO:483). A deposit confirmed in cash leaves its charge open at the
  gateway (PO:131).
- `cancelContract` swallows errors of the gateway per charge (LC:454) and looks
  only at pending orders, and then tells the landlord that all pending charges
  have been cancelled (LC:487).
- *A regenerated deposit that cannot be charged*: an error of the gateway when the
  old charge is cancelled is swallowed (CH:348); the order becomes `PENDENTE` with
  the old row, and a new charge is refused as a conflict.
- The gateway's calls are tried once: the `delay` of their `retry` throws the error
  on (PG:57-68), so that the three attempts its message speaks of never happen. An
  answer that is lost leaves what Asaas did.

Contracts:

- *Two schedules*: `createPaymentsForContract` counts, then creates (PO:309), and
  nothing in the schema stops the second of two.
- *Acceptance of an older text*: the acceptance is written without a second look
  (LC:682); with two edits in flight the contract goes on with a text nobody
  accepted.
- The documents required for the review and for the signature differ: the back
  of the identity must be sent but need not be approved (DO:212, DO:276).
- A cancelled contract leaves its property unavailable.
- A crash after `AGUARDANDO_GARANTIA` or after `PAGO` is written leaves an
  activation that no redelivered webhook resumes: the early returns see a
  status that moved on. A crash between `AGUARDANDO_ASSINATURAS` and the job
  leaves a contract that only a request by hand goes on with.
- *Two running envelopes*: the worker refuses only an envelope that is `in_progress`
  (PSG:62), while activating one makes it `running`, which only the request by hand
  looks for (SG:110). A retry after the last call leaves the first envelope running.
- The PDF is kept once rendered: after PUT sets the status back and the text is
  edited, what is signed is the older text (`reopened` in `SignedTextIsCurrent`).
- A closed envelope activates a contract that was opened again since, by any of its
  envelopes whose rows are still there.

Accounts and onboarding:

- A code and an action token are read and deleted in two steps (VE:89, VE:142), so
  that one secret sent twice at once acts twice. The token is consumed before the
  checks of what it confirms (BA:35), so a refused request spends it.
- `loginWith2FA` takes any token that the server signed as the partial token; the
  code must still be right.
- A profile's update writes a password as it is given, unhashed (US:269-309), and a
  new e-mail address keeps `emailVerified`. Using one link clears a newer one of its
  kind; a stop between the writing of a link and its mail takes the old one away.
  A removed user (`status` false) still logs in: only `findAdmins` looks at it.
- Two approvals at once make two accounts at the gateway, the second of which
  replaces the first on the row (`Replaced`); a stop between the call and the write
  leaves an account no row knows, one in the wait of 15 s a row without
  `onboardingUrl`.
- Get-or-create of the PIX key heals itself when the key on the row is gone at
  Asaas; of the customer it does not ask Asaas.

Listings:

- Activation hides a property without clearing the lists, which then show it for
  their life time of 300 s; a page filled from rows read before a clearing stays; and
  the clearing deletes a list's set of keys whole, with those added meanwhile
  (`late`).
- When one of the photos of a request fails, the request is answered and nothing is
  cleared, not even by the create it belongs to, while the others go on: their rows
  are made after the answer, and no page shows them until it expires (PH:48-81).
- A new interest clears no list: the number of interests on a cached page (PR:156,
  PR:243) is that of the time it was filled.
- A removal that a photo is added to fails at the property's row, when its
  contracts, files and other photos are gone already; files uploaded during a
  removal are left in the bucket (`raced`).
- `cancelContract` reads the rows of the reports, deletes their objects, and then all
  rows of the contract (PDF:206-215). The contract stays, so that reports can be made
  meanwhile and later: one made in between loses its row and leaves its object.
- A deletion by several handlers, or one that the storage fails, leaves rows or
  objects behind when its handler stops between the two (`lost`).
- Two decisions on one interest are both written and both told; two requests at
  once make two interests (IN:54-79, no unique index).
- `condominiums` refuses to edit or remove unless the caller is both its landlord
  and an admin (`landlordId !== sub || role !== ADMIN`).

## 9. What is not modelled

- Within the modelled components: reads and lists other than the cached ones; who
  may call what (any permitted actor may act at any time). `createContract` is the
  initial state of `ContractFlow`.
- Amounts: value, fees and interest are data no property tells apart; that
  nothing is left after the fees is a case of `PayoutSkip`, and a rent counts as one
  in the balance of `Notices`. A landlord without bank account or API key is the
  same choice, which `Notices` makes when the payment is written (`PayWrite`), where
  the code reads both.
- Due dates in `RentBilling` and `Activation`: an order is due later or late. That
  the deposit or a rent is due first (`FirstRead`) is any choice in `Activation` and
  the constant `First` in `RentBilling`. `Notices` has days.
- Notifications outside `Notices`: their sending changes nothing there; their
  failure is `Crash`, or the cut loop of `SweepWrite`. The push to open sockets, and
  the marking as read.
- Several contracts of one property, several landlords. In `Listings` the contract is
  there or not; its cancellation is the part of `cancelContract` that deletes the
  reports, and may be taken of any contract.
- In `Notices`: the removal of a contract, which takes its orders along; the events of a
  withdrawal's own transfer, which has no order; `PENDING` reports of a transfer,
  which write no order; the mail on the cancellation of a contract; and the charge,
  without which an event finds no order. Orders may be made, restored or cancelled
  whenever the actions allow, without the contract's status, which is in
  `Activation`. The other columns of an order (amounts, receipt) are data.
- On the cached pages: the landlord's name, e-mail and phone, which a profile's update
  changes without clearing; the pages of tenants and admins (`findUserProperties` by
  role), which the landlord's changes do not clear.
- The sessions' life time, cookies and logout; preferences (whose merge reads and
  then writes, so that of two at once one is lost), the survey, roles and searches
  of users; `resendOnboardingEmail`; the searches of properties.
- `PrismaService` encrypts columns (API keys, tax ids, phones, PIX keys) with a
  random vector in an extension (`prisma/prisma.service.ts:24-45`). Where it is in
  force, a key read by a nested `include` is not decrypted and a lookup by tax id
  finds nothing; the models take every column as readable.
- Errors of Redis as a cache, which `CacheService` logs; the signature by which
  Clicksign's and Asaas's webhooks show who they are (whose account an event is
  for is modelled, in `StartStatus`).
- Condominiums, logs, analytics, metrics, health: rows of one table, and reports.
  The cached list of condominiums is never cleared.
- Code that nothing reaches: the PDF worker's queue gets no job, and launch
  notifications and `redis.service` are commented out.

## 10. Plan

1. `RentBilling`, `RentLedger`, their proofs. *Done.*
2. `Activation` and its proofs. *Done*, except an abstract `ActivationGate`
   (signed, secured, active, scheduled) that it implements.
3. `ContractFlow`, `ContractLifecycle`, their proofs. *Done.*
4. `Signature` with `Clicksign` and `Storage`. *Done.*
5. `Accounts` with `Verification`. *Done.*
6. `Onboarding` with `AsaasAccounts`. *Done.*
7. `Listings`: interests, photos, reports, cached lists, removal. *Done.*
8. `Notices`: who is told what, over days. *Done.*
9. Proofs of `Notices`, `Accounts`, `Signature`, `Onboarding` and `Listings`.
   *Done*: every safety property of the passing runs is a theorem.
10. `Rental`: `Activation` and `RentBilling` composed over two contracts of one
    property; pure functions (fee and commission, the schedule's due dates and
    count, the daily queries' date limits) against reference definitions.
