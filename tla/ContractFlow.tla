---------------------------- MODULE ContractFlow ----------------------------
(***************************************************************************)
(* A contract from its draft to the request for signatures: the landlord   *)
(* edits the text, the tenant accepts it or asks for an alteration, the    *)
(* parties upload documents, the landlord approves or refuses them, and    *)
(* approval puts the signature job on its queue.  The contract may be      *)
(* cancelled, activated by hand or given any status by PUT on the way.     *)
(*                                                                         *)
(* As in RentBilling, handlers are split at their awaits and a failure or  *)
(* a crash forgets them.  "Variant" operators are used by no other         *)
(* definition.                                                             *)
(***************************************************************************)
EXTENDS Naturals

CONSTANTS
  Procs,        \* handlers that can be in flight at once
  Rows,         \* the ids of document rows
  TypeOf,       \* Document.type of each, were it created
  None,         \* no row
  MaxEdits,     \* bound on the edits of the text
  Updates,      \* the statuses that PUT contracts/:id is used to set
  MaxCrashes    \* bound on the failures that end handlers

\* AGUARDANDO_GARANTIA comes after what this module models.
ContractStatus == {"EM_ELABORACAO", "AGUARDANDO_ACEITE_INQUILINO",
                   "SOLICITANDO_ALTERACAO", "PENDENTE_DOCUMENTACAO",
                   "EM_ANALISE", "AGUARDANDO_ASSINATURAS", "ATIVO",
                   "FINALIZADO", "CANCELADO"}

\* COMPROVANTE_ENDERECO is required nowhere and left out.
DocumentType == {"IDENTIDADE_FRENTE", "IDENTIDADE_VERSO", "CPF",
                 "COMPROVANTE_RENDA"}

ASSUME FlowAssumption ==
  /\ None \notin Rows
  /\ TypeOf \in [Rows -> DocumentType]
  /\ MaxEdits \in Nat
  /\ MaxCrashes \in Nat
  /\ Updates \subseteq ContractStatus

VARIABLES
  contract,    \* Contract.status
  text,        \* Contract.contractHtml, as the number of edits so far
  reason,      \* Contract.alterationRequestReason is not null
  doc,         \* Document.status, "absent" or "deleted"
  enqueued,    \* a signature job was put on its queue
  task,        \* the handlers in flight
  visited,     \* history: the statuses the contract has had
  put,         \* history: the statuses written by PUT
  accepted,    \* history: the texts the tenant accepted
  cleared,     \* history: all signature types were approved at one time
  crashes      \* failures so far

textVars == <<text, reason>>
history == <<put, accepted, cleared>>
vars == <<contract, textVars, doc, enqueued, task, visited, history,
          crashes>>

DocumentStatus == {"REPROVADO", "AGUARDANDO_APROVACAO", "APROVADO"}

ReviewTypes == {"IDENTIDADE_FRENTE", "IDENTIDADE_VERSO", "COMPROVANTE_RENDA"}

SignatureTypes == {"IDENTIDADE_FRENTE", "CPF", "COMPROVANTE_RENDA"}

\* A task is named for the step it will do next.
Ops == {"idle", "edit_write", "accept_write", "alter_write", "upload_drop",
        "upload_create", "review_read", "review_write", "decide_write",
        "sign_read", "sign_write", "sign_enqueue", "cancel_write"}

\* text and reason are those read; type and row those of the document.
Task(op, n, r, ty, row, s) ==
  [op |-> op, text |-> n, reason |-> r, type |-> ty, row |-> row,
   status |-> s]

\* A step that needs nothing of what was read.
Blank(op) == Task(op, 0, FALSE, "CPF", None, "REPROVADO")

IdleTask == Blank("idle")

TextTask(op, n, r) == [Blank(op) EXCEPT !.text = n, !.reason = r]

UploadTask(op, ty, row) == [Blank(op) EXCEPT !.type = ty, !.row = row]

TypeOK ==
  /\ contract \in ContractStatus
  /\ text \in Nat
  /\ reason \in BOOLEAN
  /\ doc \in [Rows -> DocumentStatus \cup {"absent", "deleted"}]
  /\ enqueued \in BOOLEAN
  /\ task \in [Procs -> [op : Ops, text : Nat, reason : BOOLEAN,
                         type : DocumentType, row : Rows \cup {None},
                         status : DocumentStatus]]
  /\ visited \subseteq ContractStatus
  /\ put \subseteq ContractStatus
  /\ accepted \subseteq Nat
  /\ cleared \in BOOLEAN
  /\ crashes \in Nat

Init ==
  /\ contract = "EM_ELABORACAO"
  /\ text = 0
  /\ reason = FALSE
  /\ doc = [r \in Rows |-> "absent"]
  /\ enqueued = FALSE
  /\ task = [p \in Procs |-> IdleTask]
  /\ visited = {"EM_ELABORACAO"}
  /\ put = {}
  /\ accepted = {}
  /\ cleared = FALSE
  /\ crashes = 0

\* The rows there are; the types that were ever uploaded, that rows have,
\* and that approved rows have.
Present == {r \in Rows : doc[r] \in DocumentStatus}
TypesOf(rows) == {TypeOf[r] : r \in rows}
Sent == TypesOf({r \in Rows : doc[r] # "absent"})
Submitted == TypesOf(Present)
Approved == TypesOf({r \in Present : doc[r] = "APROVADO"})

-----------------------------------------------------------------------------
(* Tasks, and the write of a status.                                       *)

At(p, op) == task[p].op = op

Continue(p, t) == task' = [task EXCEPT ![p] = t]

Start(p, t) == At(p, "idle") /\ Continue(p, t)

Finish(p) == Continue(p, IdleTask)

Proceed(p, op) == Continue(p, [task[p] EXCEPT !.op = op])

SetStatus(s) == contract' = s /\ visited' = visited \cup {s}

\* A step that only reads.
OnlyTask == UNCHANGED <<contract, textVars, doc, enqueued, visited,
                        history, crashes>>

-----------------------------------------------------------------------------
(* updateContractHtml, by the landlord.                                    *)

\* An edit that answers a request clears its reason; another one writes back
\* the reason it read.
StartEdit(p) ==
  /\ contract \in {"EM_ELABORACAO", "SOLICITANDO_ALTERACAO"}
  /\ Start(p, TextTask("edit_write", text,
                       contract # "SOLICITANDO_ALTERACAO" /\ reason))
  /\ OnlyTask

EditWrite(p) ==
  /\ At(p, "edit_write")
  /\ text < MaxEdits
  /\ text' = text + 1
  /\ reason' = task[p].reason
  /\ SetStatus("AGUARDANDO_ACEITE_INQUILINO")
  /\ Finish(p)
  /\ UNCHANGED <<doc, enqueued, history, crashes>>

-----------------------------------------------------------------------------
(* tenantAcceptsContract and tenantRequestsAlteration, by the tenant.      *)

\* Variant: the status is not checked.
StartAcceptAny(p) ==
  /\ Start(p, TextTask("accept_write", text, FALSE))
  /\ OnlyTask

\* What the tenant accepts is at best the text at this moment.
StartAccept(p) ==
  /\ contract = "AGUARDANDO_ACEITE_INQUILINO"
  /\ Start(p, TextTask("accept_write", text, FALSE))
  /\ OnlyTask

AcceptWrite(p) ==
  /\ At(p, "accept_write")
  /\ SetStatus("PENDENTE_DOCUMENTACAO")
  /\ accepted' = accepted \cup {task[p].text}
  /\ Finish(p)
  /\ UNCHANGED <<textVars, doc, enqueued, put, cleared, crashes>>

StartAlter(p) ==
  /\ contract = "AGUARDANDO_ACEITE_INQUILINO"
  /\ Start(p, Blank("alter_write"))
  /\ OnlyTask

\* Variant: the reason stays in the notification.
AlterWriteNoReason(p) ==
  /\ At(p, "alter_write")
  /\ SetStatus("SOLICITANDO_ALTERACAO")
  /\ Finish(p)
  /\ UNCHANGED <<textVars, doc, enqueued, history, crashes>>

AlterWrite(p) ==
  /\ At(p, "alter_write")
  /\ SetStatus("SOLICITANDO_ALTERACAO")
  /\ reason' = TRUE
  /\ Finish(p)
  /\ UNCHANGED <<text, doc, enqueued, history, crashes>>

-----------------------------------------------------------------------------
(* uploadDocument, by either party and in every status of the contract.    *)

\* The read, of the contract and of a row of this type.
StartUpload(p, ty) ==
  /\ IF ty \in Submitted
     THEN \E r \in Present :
            /\ TypeOf[r] = ty
            /\ Start(p, UploadTask("upload_drop", ty, r))
     ELSE Start(p, UploadTask("upload_create", ty, None))
  /\ OnlyTask

\* The file and the row are deleted; deleting a row that is gone throws.
UploadDrop(p) ==
  LET r == task[p].row
  IN /\ At(p, "upload_drop")
     /\ IF r \in Present
        THEN /\ doc' = [doc EXCEPT ![r] = "deleted"]
             /\ Proceed(p, "upload_create")
        ELSE Finish(p) /\ UNCHANGED doc
     /\ UNCHANGED <<contract, textVars, enqueued, visited, history, crashes>>

\* The storage fails.
UploadFail(p) ==
  /\ task[p].op \in {"upload_drop", "upload_create"}
  /\ Finish(p)
  /\ OnlyTask

UploadCreate(p, r) ==
  /\ At(p, "upload_create")
  /\ doc[r] = "absent"
  /\ TypeOf[r] = task[p].type
  /\ doc' = [doc EXCEPT ![r] = "AGUARDANDO_APROVACAO"]
  /\ Continue(p, Blank("review_read"))
  /\ UNCHANGED <<contract, textVars, enqueued, visited, history, crashes>>

\* checkAndAdvanceToReview.
ReviewRead(p) ==
  /\ At(p, "review_read")
  /\ IF contract = "PENDENTE_DOCUMENTACAO" /\ ReviewTypes \subseteq Submitted
     THEN Proceed(p, "review_write")
     ELSE Finish(p)
  /\ OnlyTask

ReviewWrite(p) ==
  /\ At(p, "review_write")
  /\ SetStatus("EM_ANALISE")
  /\ Finish(p)
  /\ UNCHANGED <<textVars, doc, enqueued, history, crashes>>

-----------------------------------------------------------------------------
(* updateStatus, by the landlord and in every status of the contract.      *)

\* Variant: the status in the body is not checked against the enumeration.
StartDecideRaw(p, r, s) ==
  /\ r \in Present
  /\ Start(p, [Blank("decide_write") EXCEPT !.row = r, !.status = "OUTRO"])
  /\ OnlyTask

StartDecide(p, r, s) ==
  /\ r \in Present
  /\ Start(p, [Blank("decide_write") EXCEPT !.row = r, !.status = s])
  /\ OnlyTask

\* The update of a row that is gone throws.
DecideWrite(p) ==
  LET r == task[p].row
  IN /\ At(p, "decide_write")
     /\ IF r \in Present
        THEN /\ doc' = [doc EXCEPT ![r] = task[p].status]
             /\ IF task[p].status = "APROVADO"
                THEN Continue(p, Blank("sign_read"))
                ELSE Finish(p)
        ELSE Finish(p) /\ UNCHANGED doc
     /\ cleared' = (cleared \/ SignatureTypes \subseteq Approved')
     /\ UNCHANGED <<contract, textVars, enqueued, visited, put, accepted,
                    crashes>>

\* Variant: rows of any status are counted.
SignReadSubmitted(p) ==
  /\ At(p, "sign_read")
  /\ IF contract = "EM_ANALISE" /\ SignatureTypes \subseteq Submitted
     THEN Proceed(p, "sign_write")
     ELSE Finish(p)
  /\ OnlyTask

\* checkAndAdvanceToSignatures.
SignRead(p) ==
  /\ At(p, "sign_read")
  /\ IF contract = "EM_ANALISE" /\ SignatureTypes \subseteq Approved
     THEN Proceed(p, "sign_write")
     ELSE Finish(p)
  /\ OnlyTask

SignWrite(p) ==
  /\ At(p, "sign_write")
  /\ SetStatus("AGUARDANDO_ASSINATURAS")
  /\ Proceed(p, "sign_enqueue")
  /\ UNCHANGED <<textVars, doc, enqueued, history, crashes>>

SignEnqueue(p) ==
  /\ At(p, "sign_enqueue")
  /\ enqueued' = TRUE
  /\ Finish(p)
  /\ UNCHANGED <<contract, textVars, doc, visited, history, crashes>>

-----------------------------------------------------------------------------
(* cancelContract, forceActivateContract and update, as far as the status  *)
(* goes: there are no orders yet, and the envelope is in Activation.       *)

StartCancel(p) ==
  /\ contract \notin {"CANCELADO", "FINALIZADO"}
  /\ Start(p, Blank("cancel_write"))
  /\ OnlyTask

CancelWrite(p) ==
  /\ At(p, "cancel_write")
  /\ SetStatus("CANCELADO")
  /\ Finish(p)
  /\ UNCHANGED <<textVars, doc, enqueued, history, crashes>>

ForceActivate ==
  /\ SetStatus("ATIVO")
  /\ UNCHANGED <<textVars, doc, enqueued, task, history, crashes>>

Update(s) ==
  /\ SetStatus(s)
  /\ put' = put \cup {s}
  /\ UNCHANGED <<textVars, doc, enqueued, task, accepted, cleared, crashes>>

-----------------------------------------------------------------------------

\* Handlers die: one whose database statement throws, or all of them with
\* the process.
Crash ==
  /\ crashes < MaxCrashes
  /\ crashes' = crashes + 1
  /\ \E dead \in (SUBSET Procs) \ {{}} :
       task' = [p \in Procs |-> IF p \in dead THEN IdleTask ELSE task[p]]
  /\ UNCHANGED <<contract, textVars, doc, enqueued, visited, history>>

Begin(p) ==
  \/ StartEdit(p)
  \/ StartAccept(p)
  \/ StartAlter(p)
  \/ \E ty \in DocumentType : StartUpload(p, ty)
  \/ \E r \in Rows, s \in DocumentStatus : StartDecide(p, r, s)
  \/ StartCancel(p)

Step(p) ==
  \/ EditWrite(p)
  \/ AcceptWrite(p)
  \/ AlterWrite(p)
  \/ UploadDrop(p)
  \/ UploadFail(p)
  \/ \E r \in Rows : UploadCreate(p, r)
  \/ ReviewRead(p)
  \/ ReviewWrite(p)
  \/ DecideWrite(p)
  \/ SignRead(p)
  \/ SignWrite(p)
  \/ SignEnqueue(p)
  \/ CancelWrite(p)

Next ==
  \/ \E p \in Procs : Begin(p) \/ Step(p)
  \/ ForceActivate
  \/ \E s \in Updates : Update(s)
  \/ Crash

Spec == Init /\ [][Next]_vars

-----------------------------------------------------------------------------
(* Safety.                                                                 *)

\* A signature job is put on its queue only for a contract whose tenant
\* accepted a text, whose documents for the review were all uploaded, and
\* whose documents for the signature were all approved at one time, although
\* every handler on the way writes a status it justified by an earlier read;
\* only a status written by PUT can have skipped the part before it.
SignatureIsPrepared ==
  enqueued =>
    /\ cleared
    /\ "EM_ANALISE" \notin put => ReviewTypes \subseteq Sent
    /\ put \cap {"PENDENTE_DOCUMENTACAO", "EM_ANALISE"} = {} => accepted # {}

\* While an alteration is requested its reason is there for the landlord to
\* read, although an edit in flight may write back the reason it read before
\* the request (PUT alone can show a request without a reason).
RequestHasReason ==
  contract = "SOLICITANDO_ALTERACAO" /\ "SOLICITANDO_ALTERACAO" \notin put =>
    reason

-----------------------------------------------------------------------------
(* The promise of the status: ContractLifecycle.                           *)

Lifecycle == INSTANCE ContractLifecycle WITH
  ByHand <- Updates,
  status <- contract

\* No status is entered that an earlier status did not prepare: stale
\* handlers can repeat a part of the process, never skip one.
ImplementsLifecycle == Lifecycle!Spec

=============================================================================
