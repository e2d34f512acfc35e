----------------------------- MODULE Signature -----------------------------
(***************************************************************************)
(* The signatures of one contract: its PDF is rendered, stored and sent to *)
(* Clicksign in an envelope, by the signature job (pdfs.signature, three   *)
(* attempts) or by the landlord's request (contracts.signature); the       *)
(* envelope's closing activates the contract.  Meanwhile the contract may  *)
(* be edited, cancelled or removed.                                        *)
(*                                                                         *)
(* Handlers are split at their awaits.  The statuses before the signatures *)
(* are one, EM_ELABORACAO (ContractFlow tells them apart), those after are *)
(* ATIVO (Activation does).  "Variant" operators are used by no other      *)
(* definition.                                                             *)
(***************************************************************************)
EXTENDS Storage, Clicksign

CONSTANTS
  Procs,        \* handlers that can be in flight at once
  Attempts,     \* of a signature job; the queue is told 3
  MaxJobs,      \* bound on the signature jobs
  MaxEdits,     \* bound on the edits of the text
  Updates,      \* the statuses that PUT contracts/:id is used to set
  MaxCrashes    \* bound on the failures that end handlers

ContractStatus == {"EM_ELABORACAO", "AGUARDANDO_ASSINATURAS", "ATIVO",
                   "CANCELADO"}

ASSUME SignatureAssumption ==
  /\ Attempts \in Nat \ {0}
  /\ {MaxJobs, MaxEdits, MaxCrashes} \subseteq Nat
  /\ Updates \subseteq ContractStatus

VARIABLES
  contract,    \* status, contractFilePath, signedContractFilePath,
               \* clicksignEnvelopeId
  exists,      \* the row of the contract is there
  text,        \* Contract.contractHtml, as the number of edits so far
  rendered,    \* the text in each PDF that was stored
  requests,    \* the envelopes whose two SignatureRequest rows are there
  job,         \* the signature job: its state and attempts made
  task,        \* the handlers in flight
  purged,      \* history: envelopes whose rows were deleted
  reopened,    \* history: the text or status changed once signing began
  withdrawn,   \* history: cancelled, or its removal began
  jobs,        \* jobs so far
  crashes      \* failures so far

contractVars == <<contract, exists, text>>
history == <<purged, reopened, withdrawn>>
bounds == <<jobs, crashes>>
vars == <<contractVars, rendered, requests, job, task, envelope,
          storageVars, history, bounds>>

\* A task is named for the step it will do next.
SigningOps ==
  {"pdf_read", "pdf_upload", "pdf_write", "envelope_check", "create",
   "document", "envelope_write", "lessor", "lessee", "rows_delete",
   "rows_write", "activate", "notify"}

Ops == SigningOps \cup {"idle", "close_store", "close_save", "close_read",
                        "close_write", "cancel_envelope", "cancel_write",
                        "cancel_files", "remove_files", "remove_row"}

\* by tells the job from the request; path, signed and env are what was read
\* of the contract, or made since; text what the PDF is rendered from.
IdleTask ==
  [op |-> "idle", by |-> "request", path |-> None, signed |-> None,
   env |-> NoEnvelope, text |-> 0]

TypeOK ==
  /\ StorageTypeOK
  /\ EnvelopesTypeOK
  /\ contract \in [status : ContractStatus, path : Files \cup {None},
                   signed : Files \cup {None},
                   env : Envelopes \cup {NoEnvelope}]
  /\ exists \in BOOLEAN
  /\ text \in Nat
  /\ rendered \in [Files -> Nat]
  /\ requests \subseteq Envelopes
  /\ job \in [state : {"none", "waiting", "active", "completed", "failed"},
              tries : 0..Attempts]
  /\ task \in [Procs ->
                 [op : Ops, by : {"job", "request"}, path : Files \cup {None},
                  signed : Files \cup {None},
                  env : Envelopes \cup {NoEnvelope}, text : Nat]]
  /\ purged \subseteq Envelopes
  /\ {reopened, withdrawn} \subseteq BOOLEAN
  /\ jobs \in Nat
  /\ crashes \in Nat

Init ==
  /\ StorageInit
  /\ EnvelopesInit
  /\ contract = [status |-> "EM_ELABORACAO", path |-> None,
                 signed |-> None, env |-> NoEnvelope]
  /\ exists = TRUE
  /\ text = 0
  /\ rendered = [f \in Files |-> 0]
  /\ requests = {}
  /\ job = [state |-> "none", tries |-> 0]
  /\ task = [p \in Procs |-> IdleTask]
  /\ purged = {}
  /\ reopened = FALSE
  /\ withdrawn = FALSE
  /\ jobs = 0
  /\ crashes = 0

-----------------------------------------------------------------------------
(* Tasks and the signature job.                                            *)

At(p, op) == task[p].op = op

Continue(p, t) == task' = [task EXCEPT ![p] = t]

Start(p, t) == At(p, "idle") /\ Continue(p, t)

Proceed(p, op) == Continue(p, [task[p] EXCEPT !.op = op])

Finish(p) == Continue(p, IdleTask)

\* What a task takes from the row of the contract to sign it, and to delete
\* its files.
Loaded(op, by) ==
  [IdleTask EXCEPT !.op = op, !.by = by, !.path = contract.path,
                   !.env = contract.env]

LoadedFiles(op) ==
  [IdleTask EXCEPT !.op = op, !.path = contract.path,
                   !.signed = contract.signed]

JobState(s) == job' = [job EXCEPT !.state = s]

\* Variant: the attempts have no limit.
RetryForever == JobState("waiting")

\* Bull tries a job again until its attempts are used up.
Retry == JobState(IF job.tries < Attempts THEN "waiting" ELSE "failed")

\* Variant: a job is given up at its first failure, without being told.
ThrowSilently(p) == Finish(p) /\ UNCHANGED job

\* A handler that throws; for the job it is a failed attempt.
Throw(p) ==
  /\ Finish(p)
  /\ IF task[p].by = "job" THEN Retry ELSE UNCHANGED job

-----------------------------------------------------------------------------
(* Around the signatures: the text and the status of the contract.         *)

Enqueue ==
  /\ jobs < MaxJobs
  /\ job.state \in {"none", "completed", "failed"}
  /\ job' = [state |-> "waiting", tries |-> 0]
  /\ jobs' = jobs + 1

\* The last document is approved (checkAndAdvanceToSignatures).  Two
\* approvals at once make two jobs; a server that stops here makes none.
Prepare ==
  /\ exists
  /\ contract.status \in {"EM_ELABORACAO", "AGUARDANDO_ASSINATURAS"}
  /\ contract' = [contract EXCEPT !.status = "AGUARDANDO_ASSINATURAS"]
  /\ Enqueue \/ UNCHANGED <<job, jobs>>
  /\ UNCHANGED <<exists, text, rendered, requests, task, envelope,
                 storageVars, history, crashes>>

\* updateContractHtml; its status was checked when it began, which may be
\* long ago.
Edit ==
  /\ exists
  /\ text < MaxEdits
  /\ text' = text + 1
  /\ contract' = [contract EXCEPT !.status = "EM_ELABORACAO"]
  /\ reopened' = (reopened \/ contract.status # "EM_ELABORACAO")
  /\ UNCHANGED <<exists, rendered, requests, job, task, envelope,
                 storageVars, purged, withdrawn, bounds>>

\* PUT contracts/:id.
Update(s) ==
  /\ exists
  /\ contract.status # s
  /\ contract' = [contract EXCEPT !.status = s]
  /\ reopened' = TRUE
  /\ UNCHANGED <<exists, text, rendered, requests, job, task, envelope,
                 storageVars, purged, withdrawn, bounds>>

-----------------------------------------------------------------------------
(* The signature job: initiateSignatureProcess.                            *)

\* The status of the contract is not looked at.
StartJob(p) ==
  /\ job.state = "waiting"
  /\ job' = [state |-> "active", tries |-> job.tries + 1]
  /\ exists
  /\ Start(p, Loaded(IF contract.path = None THEN "pdf_read"
                     ELSE "envelope_check", "job"))
  /\ UNCHANGED <<contractVars, rendered, requests, envelope, storageVars,
                 history, bounds>>

\* The contract is gone: the attempt fails.
JobFindsNothing ==
  /\ job.state = "waiting"
  /\ ~exists
  /\ job' = [state |-> IF job.tries + 1 < Attempts THEN "waiting"
                       ELSE "failed",
             tries |-> job.tries + 1]
  /\ UNCHANGED <<contractVars, rendered, requests, task, envelope,
                 storageVars, history, bounds>>

\* It refuses a status that Clicksign does not give a running envelope.
JobRefuses(e) == Found(e) /\ Status(e) = "in_progress"

\* The landlord's request looks at the status, and for a running envelope.
RequestRefuses(e) == Found(e) /\ Status(e) \in {"running", "in_progress"}

\* Variant: the request does not look at the status of the contract.
StartRequestAny(p) ==
  /\ exists
  /\ Start(p, Loaded(IF contract.env # NoEnvelope THEN "envelope_check"
                     ELSE IF contract.path = None THEN "pdf_read"
                     ELSE "create", "request"))
  /\ UNCHANGED <<contractVars, rendered, requests, job, envelope,
                 storageVars, history, bounds>>

StartRequest(p) ==
  /\ exists
  /\ contract.status = "AGUARDANDO_ASSINATURAS"
  /\ Start(p, Loaded(IF contract.env # NoEnvelope THEN "envelope_check"
                     ELSE IF contract.path = None THEN "pdf_read"
                     ELSE "create", "request"))
  /\ UNCHANGED <<contractVars, rendered, requests, job, envelope,
                 storageVars, history, bounds>>

\* getEnvelope for the id that was read.
JobCheck(p) ==
  LET e == task[p].env
  IN /\ At(p, "envelope_check")
     /\ task[p].by = "job"
     /\ IF e # NoEnvelope /\ JobRefuses(e)
        THEN Throw(p)
        ELSE Proceed(p, "create") /\ UNCHANGED job
     /\ UNCHANGED <<contractVars, rendered, requests, envelope,
                    storageVars, history, bounds>>

RequestCheck(p) ==
  /\ At(p, "envelope_check")
  /\ task[p].by = "request"
  /\ IF RequestRefuses(task[p].env)
     THEN Finish(p)
     ELSE Continue(p, [task[p] EXCEPT
            !.op = IF task[p].path = None THEN "pdf_read" ELSE "create",
            !.env = NoEnvelope])
  /\ UNCHANGED <<contractVars, rendered, requests, job, envelope,
                 storageVars, history, bounds>>

-----------------------------------------------------------------------------
(* generateAndSaveContractPdf, in the course of either.                    *)

\* The contract is read again, and its text rendered.
PdfRead(p) ==
  /\ At(p, "pdf_read")
  /\ exists
  /\ Continue(p, [task[p] EXCEPT !.op = "pdf_upload", !.text = text])
  /\ UNCHANGED <<contractVars, rendered, requests, job, envelope,
                 storageVars, history, bounds>>

PdfUpload(p, f) ==
  /\ At(p, "pdf_upload")
  /\ UploadFile(f)
  /\ rendered' = [rendered EXCEPT ![f] = task[p].text]
  /\ Continue(p, [task[p] EXCEPT !.op = "pdf_write", !.path = f,
                                 !.text = 0])
  /\ UNCHANGED <<contractVars, requests, job, envelope, history, bounds>>

PdfWrite(p) ==
  /\ At(p, "pdf_write")
  /\ exists
  /\ contract' = [contract EXCEPT !.path = task[p].path]
  /\ Proceed(p, IF task[p].by = "job" THEN "envelope_check" ELSE "create")
  /\ UNCHANGED <<exists, text, rendered, requests, job, envelope,
                 storageVars, history, bounds>>

-----------------------------------------------------------------------------
(* The calls of Clicksign, in the order both make them.                    *)

CreateStep(p, e) ==
  /\ At(p, "create")
  /\ CreateEnvelope(e)
  /\ Continue(p, [task[p] EXCEPT !.op = "document", !.env = e])
  /\ UNCHANGED <<contractVars, rendered, requests, job, storageVars,
                 history, bounds>>

\* The file is read from the storage at the path that was read.
DocumentStep(p) ==
  LET f == task[p].path
  IN /\ At(p, "document")
     /\ Readable(f)
     /\ AddDocument(task[p].env, rendered[f])
     /\ Continue(p, [task[p] EXCEPT !.op = "envelope_write", !.path = None])
     /\ UNCHANGED <<contractVars, rendered, requests, job, storageVars,
                    history, bounds>>

EnvelopeWrite(p) ==
  /\ At(p, "envelope_write")
  /\ exists
  /\ contract' = [contract EXCEPT !.env = task[p].env]
  /\ Proceed(p, "lessor")
  /\ UNCHANGED <<exists, text, rendered, requests, job, envelope,
                 storageVars, history, bounds>>

LessorStep(p) ==
  /\ At(p, "lessor")
  /\ AddSigner(task[p].env, "lessor")
  /\ Proceed(p, "lessee")
  /\ UNCHANGED <<contractVars, rendered, requests, job, storageVars,
                 history, bounds>>

\* Only the landlord's request deletes the rows of earlier envelopes.
LesseeStep(p) ==
  /\ At(p, "lessee")
  /\ AddSigner(task[p].env, "lessee")
  /\ Proceed(p, IF task[p].by = "job" THEN "rows_write" ELSE "rows_delete")
  /\ UNCHANGED <<contractVars, rendered, requests, job, storageVars,
                 history, bounds>>

RowsDelete(p) ==
  /\ At(p, "rows_delete")
  /\ requests' = {}
  /\ purged' = purged \cup requests
  /\ Proceed(p, "rows_write")
  /\ UNCHANGED <<contractVars, rendered, job, envelope, storageVars,
                 reopened, withdrawn, bounds>>

\* Variant: an error of the insert is only logged.
RowsWriteLax(p) ==
  /\ At(p, "rows_write")
  /\ requests' \in {requests, requests \cup {task[p].env}}
  /\ Proceed(p, "activate")
  /\ UNCHANGED <<contractVars, rendered, job, envelope, storageVars,
                 history, bounds>>

\* Both rows, in one statement.
RowsWrite(p) ==
  /\ At(p, "rows_write")
  /\ exists
  /\ requests' = requests \cup {task[p].env}
  /\ Proceed(p, "activate")
  /\ UNCHANGED <<contractVars, rendered, job, envelope, storageVars,
                 history, bounds>>

ActivateStep(p) ==
  /\ At(p, "activate")
  /\ ActivateEnvelope(task[p].env)
  /\ Continue(p, [task[p] EXCEPT !.op = "notify", !.env = NoEnvelope])
  /\ UNCHANGED <<contractVars, rendered, requests, job, storageVars,
                 history, bounds>>

\* The signers get their e-mail, and the handler is done.
NotifyStep(p) ==
  /\ At(p, "notify")
  /\ Finish(p)
  /\ IF task[p].by = "job" THEN JobState("completed") ELSE UNCHANGED job
  /\ UNCHANGED <<contractVars, rendered, requests, envelope, storageVars,
                 history, bounds>>

\* A call of Clicksign, the storage or the database throws at any of these
\* steps; what was done before stays.
SigningFails(p) ==
  /\ task[p].op \in SigningOps
  /\ Throw(p)
  /\ UNCHANGED <<contractVars, rendered, requests, envelope, storageVars,
                 history, bounds>>

-----------------------------------------------------------------------------
(* processClicksignEvent: an envelope closed.                              *)

\* Variant: any event of the envelope will do.
StartCloseEarly(p, e) ==
  /\ Status(e) \in {"running", "closed"}
  /\ e \in requests
  /\ Start(p, [IdleTask EXCEPT !.op = "close_store"])
  /\ UNCHANGED <<contractVars, rendered, requests, job, envelope,
                 storageVars, history, bounds>>

\* The event is found by its document; it may come again at any time.
StartClose(p, e) ==
  /\ Status(e) = "closed"
  /\ e \in requests
  /\ Start(p, [IdleTask EXCEPT !.op = "close_store"])
  /\ UNCHANGED <<contractVars, rendered, requests, job, envelope,
                 storageVars, history, bounds>>

\* The signed file is stored, if the event names it and nothing fails.
CloseStore(p, f) ==
  /\ At(p, "close_store")
  /\ UploadFile(f)
  /\ Continue(p, [IdleTask EXCEPT !.op = "close_save", !.signed = f])
  /\ UNCHANGED <<contractVars, rendered, requests, job, envelope, history,
                 bounds>>

CloseSave(p) ==
  /\ At(p, "close_save")
  /\ exists
  /\ contract' = [contract EXCEPT !.signed = task[p].signed]
  /\ Continue(p, [IdleTask EXCEPT !.op = "close_read"])
  /\ UNCHANGED <<exists, text, rendered, requests, job, envelope,
                 storageVars, history, bounds>>

\* An error while the file is kept is only logged.
CloseWithoutFile(p) ==
  /\ task[p].op \in {"close_store", "close_save"}
  /\ Continue(p, [IdleTask EXCEPT !.op = "close_read"])
  /\ UNCHANGED <<contractVars, rendered, requests, job, envelope,
                 storageVars, history, bounds>>

\* activateContractAfterSignature.
CloseRead(p) ==
  /\ At(p, "close_read")
  /\ IF exists /\ contract.status = "AGUARDANDO_ASSINATURAS"
     THEN Proceed(p, "close_write")
     ELSE Finish(p)
  /\ UNCHANGED <<contractVars, rendered, requests, job, envelope,
                 storageVars, history, bounds>>

CloseWrite(p) ==
  /\ At(p, "close_write")
  /\ IF exists THEN contract' = [contract EXCEPT !.status = "ATIVO"]
     ELSE UNCHANGED contract
  /\ Finish(p)
  /\ UNCHANGED <<exists, text, rendered, requests, job, envelope,
                 storageVars, history, bounds>>

-----------------------------------------------------------------------------
(* cancelContract and remove.                                              *)

StartCancel(p) ==
  /\ exists
  /\ contract.status # "CANCELADO"
  /\ Start(p, IF contract.status = "AGUARDANDO_ASSINATURAS"
                   /\ contract.env # NoEnvelope
              THEN [LoadedFiles("cancel_envelope") EXCEPT !.env = contract.env]
              ELSE LoadedFiles("cancel_write"))
  /\ UNCHANGED <<contractVars, rendered, requests, job, envelope,
                 storageVars, history, bounds>>

\* deleteContractPdfsFromStorage, of the paths read when it began.
FilesOf(t) == {t.path, t.signed} \ {None}

\* Variant: the files go before the status is written.
CancelFilesFirst(p) ==
  /\ At(p, "cancel_envelope")
  /\ DeleteFilesOrLog(FilesOf(task[p]))
  /\ Proceed(p, "cancel_write")
  /\ UNCHANGED <<contractVars, rendered, requests, job, envelope, history,
                 bounds>>

\* A refusal of Clicksign is logged and forgotten.
CancelEnvelope(p) ==
  /\ At(p, "cancel_envelope")
  /\ DeleteEnvelope(task[p].env)
  /\ Continue(p, [task[p] EXCEPT !.op = "cancel_write", !.env = NoEnvelope])
  /\ UNCHANGED <<contractVars, rendered, requests, job, storageVars,
                 history, bounds>>

CancelWrite(p) ==
  /\ At(p, "cancel_write")
  /\ exists
  /\ contract' = [contract EXCEPT !.status = "CANCELADO"]
  /\ withdrawn' = TRUE
  /\ Proceed(p, "cancel_files")
  /\ UNCHANGED <<exists, text, rendered, requests, job, envelope,
                 storageVars, purged, reopened, bounds>>

CancelFiles(p) ==
  /\ At(p, "cancel_files")
  /\ DeleteFilesOrLog(FilesOf(task[p]))
  /\ Finish(p)
  /\ UNCHANGED <<contractVars, rendered, requests, job, envelope, history,
                 bounds>>

StartRemove(p) ==
  /\ exists
  /\ Start(p, LoadedFiles("remove_files"))
  /\ withdrawn' = TRUE
  /\ UNCHANGED <<contractVars, rendered, requests, job, envelope,
                 storageVars, purged, reopened, bounds>>

RemoveFiles(p) ==
  /\ At(p, "remove_files")
  /\ DeleteFilesOrLog(FilesOf(task[p]))
  /\ Proceed(p, "remove_row")
  /\ UNCHANGED <<contractVars, rendered, requests, job, envelope, history,
                 bounds>>

\* The rows of the contract go with it; the envelope stays where it is.
RemoveRow(p) ==
  /\ At(p, "remove_row")
  /\ exists
  /\ exists' = FALSE
  /\ requests' = {}
  /\ purged' = purged \cup requests
  /\ Finish(p)
  /\ UNCHANGED <<contract, text, rendered, job, envelope, storageVars,
                 reopened, withdrawn, bounds>>

\* update and delete of a row that is gone throw.
OtherThrows(p) ==
  /\ task[p].op \in {"cancel_write", "remove_row"}
  /\ ~exists
  /\ Finish(p)
  /\ UNCHANGED <<contractVars, rendered, requests, job, envelope,
                 storageVars, history, bounds>>

-----------------------------------------------------------------------------
(* Signers, failures, and the specification.                               *)

Signers ==
  /\ \E e \in Envelopes : Close(e) \/ Lapse(e)
  /\ UNCHANGED <<contractVars, rendered, requests, job, task, storageVars,
                 history, bounds>>

\* Handlers die, one or all of them.  Bull's check for stalled jobs puts a
\* job whose worker died back on the queue, the attempt not counted, or
\* gives it up.
Crash ==
  /\ crashes < MaxCrashes
  /\ crashes' = crashes + 1
  /\ \E dead \in (SUBSET Procs) \ {{}} :
       /\ task' = [p \in Procs |-> IF p \in dead THEN IdleTask ELSE task[p]]
       /\ IF \E p \in dead : task[p].by = "job"
          THEN \/ job' = [state |-> "waiting", tries |-> job.tries - 1]
               \/ JobState("failed")
          ELSE UNCHANGED job
  /\ UNCHANGED <<contractVars, rendered, requests, envelope, storageVars,
                 history, jobs>>

Begin(p) ==
  \/ StartJob(p)
  \/ StartRequest(p)
  \/ \E e \in Envelopes : StartClose(p, e)
  \/ StartCancel(p)
  \/ StartRemove(p)

Step(p) ==
  \/ JobCheck(p)
  \/ RequestCheck(p)
  \/ PdfRead(p)
  \/ \E f \in Files : PdfUpload(p, f) \/ CloseStore(p, f)
  \/ PdfWrite(p)
  \/ \E e \in Envelopes : CreateStep(p, e)
  \/ DocumentStep(p)
  \/ EnvelopeWrite(p)
  \/ LessorStep(p)
  \/ LesseeStep(p)
  \/ RowsDelete(p)
  \/ RowsWrite(p)
  \/ ActivateStep(p)
  \/ NotifyStep(p)
  \/ SigningFails(p)
  \/ CloseSave(p)
  \/ CloseWithoutFile(p)
  \/ CloseRead(p)
  \/ CloseWrite(p)
  \/ CancelEnvelope(p)
  \/ CancelWrite(p)
  \/ CancelFiles(p)
  \/ RemoveFiles(p)
  \/ RemoveRow(p)
  \/ OtherThrows(p)

Next ==
  \/ Prepare
  \/ Edit
  \/ \E s \in Updates : Update(s)
  \/ JobFindsNothing
  \/ \E p \in Procs : Begin(p) \/ Step(p)
  \/ Signers
  \/ Crash

Spec == Init /\ [][Next]_vars

\* The event loop resumes handlers, and the worker polls its queue without
\* end; strong, as a handler slot may be busy now and then.
Fairness ==
  /\ \A p \in Procs : WF_vars(Step(p))
  /\ SF_vars(\E p \in Procs : StartJob(p))
  /\ WF_vars(JobFindsNothing)

FairSpec == Spec /\ Fairness

-----------------------------------------------------------------------------
(* Safety and liveness.                                                    *)

\* An envelope that can be signed has its document and both parties, and its
\* signature rows are there to find the contract by when it closes, however
\* many attempts failed half way before; only a later request or a removal
\* takes the rows away.
RunningIsComplete ==
  \A e \in InStatus({"running", "closed", "canceled"}) :
    /\ envelope[e].hasDocument
    /\ envelope[e].signers = Parties
    /\ e \in requests \cup purged

\* What can be signed is the text as it stands, although the PDF is rendered
\* once and used again by each attempt; only a contract that was opened again
\* after it went out for signatures can be signed in an older text.
SignedTextIsCurrent ==
  ~reopened =>
    \A e \in InStatus({"running", "closed"}) : envelope[e].text = text

\* The file that the contract's row names is in the storage, so that every
\* attempt can read it; a cancellation or a removal that began deletes it.
ContractFileIsStored ==
  exists /\ contract.path # None /\ ~withdrawn => contract.path \in stored

\* A contract that became active by its signatures has an envelope that
\* closed, found by its rows.
ActiveWasSigned ==
  contract.status = "ATIVO" /\ ~reopened => InStatus({"closed"}) # {}

\* A signature job does not stay on its queue: it is done, or its attempts
\* are used up, whatever its steps run into.
SignatureJobEnds ==
  job.state \in {"waiting", "active"} ~> job.state \in {"completed", "failed"}

=============================================================================
