-------------------------- MODULE SignatureProofs --------------------------
(***************************************************************************)
(* Proofs about Signature for any handlers, envelopes, files, and bounds.  *)
(***************************************************************************)
EXTENDS Signature, TLAPS

\* What a handler knows.
Task == [op : Ops, by : {"job", "request"}, path : Files \cup {None},
         signed : Files \cup {None}, env : Envelopes \cup {NoEnvelope},
         text : Nat]

\* The steps of a handler that made an envelope and has not activated it.
OwnerOps == {"document", "envelope_write", "lessor", "lessee", "rows_delete",
             "rows_write", "activate"}

CloseOps == {"close_store", "close_save", "close_read", "close_write"}

\* One handler at most has the job, it is the active one, and it signs; the
\* attempts are counted when they start.
JobInv ==
  /\ \A p \in Procs : task[p].by = "job" =>
       task[p].op \in SigningOps /\ job.state = "active"
  /\ \A p, q \in Procs : task[p].by = "job" /\ task[q].by = "job" => p = q
  /\ job.state = "active" => job.tries > 0
  /\ job.state = "waiting" => job.tries < Attempts

\* How far the envelope in a handler's hands is.
Drafted(p) ==
  LET t == task[p]
  IN  t.op \in OwnerOps =>
        /\ t.env \in Envelopes
        /\ Status(t.env) \in {"draft", "deleted"}
        /\ t.op # "document" => envelope[t.env].hasDocument
        /\ t.op \notin {"document", "envelope_write", "lessor"} =>
             "lessor" \in envelope[t.env].signers
        /\ t.op \in {"rows_delete", "rows_write", "activate"} =>
             "lessee" \in envelope[t.env].signers
        /\ t.op = "activate" => t.env \in requests \cup purged

\* Each works on an envelope of its own.
OwnersInv ==
  /\ \A p \in Procs : Drafted(p)
  /\ \A p, q \in Procs :
       /\ p # q
       /\ task[p].op \in OwnerOps
       /\ task[q].op \in OwnerOps
       => task[p].env # task[q].env

\* Nothing was signed before the contract was first prepared for it.
Quiet ==
  /\ job.state = "none"
  /\ contract.path = None
  /\ \A e \in Envelopes :
       Status(e) = "absent" /\ ~envelope[e].hasDocument
  /\ \A p \in Procs : task[p].op \notin SigningOps

QuietInv == ~reopened /\ contract.status = "EM_ELABORACAO" => Quiet

\* What handlers and rows name was uploaded.
NamesInv ==
  /\ contract.path \in used \cup {None}
  /\ \A p \in Procs : task[p].path \in used \cup {None}

\* What is on its way to Clicksign, or there, is the text as it stands.
TextInv ==
  ~reopened =>
    /\ contract.path # None => rendered[contract.path] = text
    /\ \A e \in Envelopes : envelope[e].hasDocument => envelope[e].text = text
    /\ \A p \in Procs :
         /\ task[p].op = "pdf_upload" => task[p].text = text
         /\ task[p].op \in SigningOps /\ task[p].path # None =>
              rendered[task[p].path] = text

\* Objects are deleted only by what withdraws the contract.
StoredInv ==
  ~withdrawn =>
    /\ stored = used
    /\ \A p \in Procs :
         task[p].op \notin {"cancel_files", "remove_files", "remove_row"}

\* The event of an envelope that closed is acted upon.
ClosedInv ==
  /\ \A p \in Procs : task[p].op \in CloseOps => InStatus({"closed"}) # {}
  /\ ActiveWasSigned

IInv ==
  /\ TypeOK
  /\ JobInv
  /\ OwnersInv
  /\ RunningIsComplete
  /\ QuietInv
  /\ NamesInv
  /\ TextInv
  /\ StoredInv
  /\ ClosedInv

-----------------------------------------------------------------------------

\* The task of a handler that does nothing.
LEMMA Idle ==
  /\ IdleTask \in Task
  /\ IdleTask.op = "idle"
  /\ IdleTask.by = "request"
  /\ IdleTask.path = None
  /\ IdleTask.signed = None
  /\ IdleTask.env = NoEnvelope
  /\ IdleTask.text = 0
BY DEF IdleTask, Task, Ops

\* What a handler reads of the contract.
LEMMA Loads ==
  ASSUME TypeOK, NEW op \in Ops, NEW by \in {"job", "request"}
  PROVE  /\ Loaded(op, by) \in Task
         /\ Loaded(op, by).op = op
         /\ Loaded(op, by).by = by
         /\ Loaded(op, by).path = contract.path
         /\ LoadedFiles(op) \in Task
         /\ LoadedFiles(op).op = op
         /\ LoadedFiles(op).by = "request"
         /\ LoadedFiles(op).path = contract.path
         /\ LoadedFiles(op).signed = contract.signed
<1>t. contract.path \in Files \cup {None}
      /\ contract.signed \in Files \cup {None}
      /\ contract.env \in Envelopes \cup {NoEnvelope}
  BY DEF TypeOK
<1>1. Loaded(op, by) \in Task
  BY <1>t, Idle DEF Loaded, Task
<1>2. LoadedFiles(op) \in Task
  BY <1>t, Idle DEF LoadedFiles, Task
<1>3. /\ Loaded(op, by).op = op
      /\ Loaded(op, by).by = by
      /\ Loaded(op, by).path = contract.path
  BY Idle DEF Loaded, Task
<1>4. /\ LoadedFiles(op).op = op
      /\ LoadedFiles(op).by = "request"
      /\ LoadedFiles(op).path = contract.path
      /\ LoadedFiles(op).signed = contract.signed
  BY Idle DEF LoadedFiles, Task
<1> QED
  BY <1>1, <1>2, <1>3, <1>4

\* At first nothing is signed.
LEMMA InitInv == Init => IInv
<1> SUFFICES ASSUME Init PROVE IInv
  OBVIOUS
<1> USE SignatureAssumption, StorageAssumption, ClicksignAssumption
    DEF Init, StorageInit, EnvelopesInit
<1>1. TypeOK
  <2>1. StorageTypeOK
    BY DEF StorageTypeOK
  <2>2. EnvelopesTypeOK
    BY DEF EnvelopesTypeOK, EnvelopeRecord, EnvelopeStatus
  <2>3. contract \in [status : ContractStatus, path : Files \cup {None},
                      signed : Files \cup {None},
                      env : Envelopes \cup {NoEnvelope}]
    BY DEF ContractStatus
  <2>4. task \in [Procs -> Task]
    BY Idle
  <2>5. job \in [state : {"none", "waiting", "active", "completed", "failed"},
                 tries : 0..Attempts]
    OBVIOUS
  <2>6. rendered \in [Files -> Nat] /\ {reopened, withdrawn} \subseteq BOOLEAN
    OBVIOUS
  <2> HIDE DEF Init
  <2>7. exists \in BOOLEAN /\ text \in Nat /\ jobs \in Nat /\ crashes \in Nat
        /\ requests \subseteq Envelopes /\ purged \subseteq Envelopes
    BY DEF Init
  <2> QED
    BY <2>1, <2>2, <2>3, <2>4, <2>5, <2>6, <2>7 DEF TypeOK, Task
<1>2. JobInv /\ OwnersInv
  BY Idle DEF JobInv, OwnersInv, Drafted, OwnerOps
<1>3. RunningIsComplete
  BY DEF RunningIsComplete, InStatus, Status
<1>4. QuietInv /\ NamesInv /\ TextInv /\ StoredInv
  BY Idle DEF QuietInv, Quiet, NamesInv, TextInv, StoredInv, Status, SigningOps
<1>5. ClosedInv
  BY Idle DEF ClosedInv, CloseOps, ActiveWasSigned
<1> QED
  BY <1>1, <1>2, <1>3, <1>4, <1>5 DEF IInv

-----------------------------------------------------------------------------
(* Tasks.                                                                  *)

\* The task of p becomes one with this step, this starter and this file.
Moved(p, op, by, path) ==
  /\ task' \in [Procs -> Task]
  /\ task'[p].op = op
  /\ task'[p].by = by
  /\ task'[p].path = path
  /\ \A q \in Procs \ {p} : task'[q] = task[q]

\* The tasks of the other handlers stay.
LEMMA Continued ==
  ASSUME TypeOK, NEW p \in Procs, NEW t \in Task, Continue(p, t)
  PROVE  task'[p] = t /\ Moved(p, t.op, t.by, t.path)
<1>1. task \in [Procs -> Task]
  BY DEF TypeOK, Task
<1>2. /\ task' \in [Procs -> Task]
      /\ task'[p] = t
      /\ \A q \in Procs \ {p} : task'[q] = task[q]
  BY <1>1 DEF Continue
<1> QED
  BY <1>2 DEF Moved

\* A handler that finished is idle.
LEMMA Finished ==
  ASSUME TypeOK, NEW p \in Procs, Finish(p)
  PROVE  Moved(p, "idle", "request", None)
BY Continued, Idle DEF Finish

\* Another step of the same task.
LEMMA Proceeded ==
  ASSUME TypeOK, NEW p \in Procs, NEW op \in Ops, Proceed(p, op)
  PROVE  /\ Moved(p, op, task[p].by, task[p].path)
         /\ task'[p].env = task[p].env
<1>1. task[p] \in Task
  BY DEF TypeOK, Task
<1> DEFINE t == [task[p] EXCEPT !.op = op]
<1>2. t \in Task /\ t.op = op
      /\ t.by = task[p].by /\ t.path = task[p].path /\ t.env = task[p].env
  BY <1>1 DEF Task
<1> HIDE DEF t
<1>3. Continue(p, t)
  BY DEF Proceed, t
<1> QED
  BY <1>2, <1>3, Continued

\* Another step, with another envelope.
LEMMA WithEnvelope ==
  ASSUME TypeOK, NEW p \in Procs, NEW op \in Ops,
         NEW e \in Envelopes \cup {NoEnvelope},
         Continue(p, [task[p] EXCEPT !.op = op, !.env = e])
  PROVE  Moved(p, op, task[p].by, task[p].path) /\ task'[p].env = e
<1>1. task[p] \in Task
  BY DEF TypeOK, Task
<1> DEFINE t == [task[p] EXCEPT !.op = op, !.env = e]
<1>2. t \in Task /\ t.op = op
      /\ t.by = task[p].by /\ t.path = task[p].path /\ t.env = e
  BY <1>1 DEF Task
<1> HIDE DEF t
<1>3. Continue(p, t)
  BY DEF t
<1> QED
  BY <1>2, <1>3, Continued

\* The steps of the PDF, and those that start afresh.
LEMMA WithFile ==
  ASSUME TypeOK, NEW p \in Procs, NEW op \in Ops
  PROVE  /\ Continue(p, [task[p] EXCEPT !.op = op, !.text = text]) =>
              /\ Moved(p, op, task[p].by, task[p].path)
              /\ task'[p].text = text
         /\ \A f \in Files :
              Continue(p, [task[p] EXCEPT !.op = op, !.path = f,
                                          !.text = 0]) =>
                Moved(p, op, task[p].by, f)
         /\ Continue(p, [task[p] EXCEPT !.op = op, !.path = None]) =>
              Moved(p, op, task[p].by, None) /\ task'[p].env = task[p].env
         /\ Continue(p, [IdleTask EXCEPT !.op = op]) =>
              Moved(p, op, "request", None)
         /\ \A f \in Files :
              Continue(p, [IdleTask EXCEPT !.op = op, !.signed = f]) =>
                Moved(p, op, "request", None)
<1>t. task[p] \in Task /\ text \in Nat
  BY DEF TypeOK, Task
<1>1. ASSUME Continue(p, [task[p] EXCEPT !.op = op, !.text = text])
      PROVE  /\ Moved(p, op, task[p].by, task[p].path)
             /\ task'[p].text = text
  <2> DEFINE t == [task[p] EXCEPT !.op = op, !.text = text]
  <2>1. t \in Task /\ t.op = op
        /\ t.by = task[p].by /\ t.path = task[p].path /\ t.text = text
    BY <1>t DEF Task
  <2>2. Continue(p, t)
    BY <1>1
  <2> HIDE DEF t
  <2> QED
    BY <2>1, <2>2, Continued
<1>2. ASSUME NEW f \in Files,
             Continue(p, [task[p] EXCEPT !.op = op, !.path = f, !.text = 0])
      PROVE  Moved(p, op, task[p].by, f)
  <2> DEFINE t == [task[p] EXCEPT !.op = op, !.path = f, !.text = 0]
  <2>1. t \in Task /\ t.op = op /\ t.by = task[p].by /\ t.path = f
    BY <1>t DEF Task
  <2>2. Continue(p, t)
    BY <1>2
  <2> HIDE DEF t
  <2> QED
    BY <2>1, <2>2, Continued
<1>3. ASSUME Continue(p, [task[p] EXCEPT !.op = op, !.path = None])
      PROVE  Moved(p, op, task[p].by, None) /\ task'[p].env = task[p].env
  <2> DEFINE t == [task[p] EXCEPT !.op = op, !.path = None]
  <2>1. t \in Task /\ t.op = op
        /\ t.by = task[p].by /\ t.path = None /\ t.env = task[p].env
    BY <1>t DEF Task
  <2>2. Continue(p, t)
    BY <1>3
  <2> HIDE DEF t
  <2> QED
    BY <2>1, <2>2, Continued
<1>4. ASSUME Continue(p, [IdleTask EXCEPT !.op = op])
      PROVE  Moved(p, op, "request", None)
  <2> DEFINE t == [IdleTask EXCEPT !.op = op]
  <2>1. t \in Task /\ t.op = op /\ t.by = "request" /\ t.path = None
    BY Idle DEF Task
  <2>2. Continue(p, t)
    BY <1>4
  <2> HIDE DEF t
  <2> QED
    BY <2>1, <2>2, Continued
<1>5. ASSUME NEW f \in Files,
             Continue(p, [IdleTask EXCEPT !.op = op, !.signed = f])
      PROVE  Moved(p, op, "request", None)
  <2> DEFINE t == [IdleTask EXCEPT !.op = op, !.signed = f]
  <2>1. t \in Task /\ t.op = op /\ t.by = "request" /\ t.path = None
    BY Idle DEF Task
  <2>2. Continue(p, t)
    BY <1>5
  <2> HIDE DEF t
  <2> QED
    BY <2>1, <2>2, Continued
<1> QED
  BY <1>1, <1>2, <1>3, <1>4, <1>5

\* How handlers begin.
LEMMA BeginMoves ==
  ASSUME TypeOK, NEW p \in Procs
  PROVE  /\ StartJob(p) =>
              \/ Moved(p, "pdf_read", "job", contract.path)
              \/ Moved(p, "envelope_check", "job", contract.path)
         /\ StartRequest(p) =>
              \/ Moved(p, "pdf_read", "request", contract.path)
              \/ Moved(p, "envelope_check", "request", contract.path)
              \/ Moved(p, "create", "request", contract.path)
         /\ \A e \in Envelopes : StartClose(p, e) =>
              Moved(p, "close_store", "request", None)
         /\ StartCancel(p) =>
              \/ Moved(p, "cancel_envelope", "request", contract.path)
              \/ Moved(p, "cancel_write", "request", contract.path)
         /\ StartRemove(p) =>
              Moved(p, "remove_files", "request", contract.path)
<1> USE DEF Start, Ops, SigningOps
<1>1. ASSUME StartJob(p)
      PROVE  \/ Moved(p, "pdf_read", "job", contract.path)
             \/ Moved(p, "envelope_check", "job", contract.path)
  BY <1>1, Continued, Loads DEF StartJob
<1>2. ASSUME StartRequest(p)
      PROVE  \/ Moved(p, "pdf_read", "request", contract.path)
             \/ Moved(p, "envelope_check", "request", contract.path)
             \/ Moved(p, "create", "request", contract.path)
  BY <1>2, Continued, Loads DEF StartRequest
<1>3. ASSUME NEW e \in Envelopes, StartClose(p, e)
      PROVE  Moved(p, "close_store", "request", None)
  <2>1. Continue(p, [IdleTask EXCEPT !.op = "close_store"])
    BY <1>3 DEF StartClose
  <2> DEFINE t == [IdleTask EXCEPT !.op = "close_store"]
  <2>2. t \in Task /\ t.op = "close_store" /\ t.by = "request"
        /\ t.path = None
    BY Idle DEF Task
  <2> HIDE DEF t
  <2>3. Continue(p, t)
    BY <2>1 DEF t
  <2> QED
    BY <2>2, <2>3, Continued
<1>4. ASSUME StartCancel(p)
      PROVE  \/ Moved(p, "cancel_envelope", "request", contract.path)
             \/ Moved(p, "cancel_write", "request", contract.path)
  <2> DEFINE t == [LoadedFiles("cancel_envelope") EXCEPT !.env = contract.env]
  <2>1. t \in Task /\ t.op = "cancel_envelope" /\ t.by = "request"
        /\ t.path = contract.path
    <3>1. contract.env \in Envelopes \cup {NoEnvelope}
      BY DEF TypeOK
    <3> DEFINE l == LoadedFiles("cancel_envelope")
    <3>2. l \in Task /\ l.op = "cancel_envelope" /\ l.by = "request"
          /\ l.path = contract.path
      BY Loads
    <3> HIDE DEF l
    <3>3. [l EXCEPT !.env = contract.env].op = l.op
          /\ [l EXCEPT !.env = contract.env].by = l.by
          /\ [l EXCEPT !.env = contract.env].path = l.path
          /\ [l EXCEPT !.env = contract.env] \in Task
      BY <3>1, <3>2 DEF Task
    <3> QED
      BY <3>2, <3>3 DEF l
  <2>2. Continue(p, t) \/ Continue(p, LoadedFiles("cancel_write"))
    BY <1>4 DEF StartCancel
  <2> HIDE DEF t
  <2> QED
    BY <2>1, <2>2, Continued, Loads
<1>5. ASSUME StartRemove(p)
      PROVE  Moved(p, "remove_files", "request", contract.path)
  BY <1>5, Continued, Loads DEF StartRemove
<1> QED
  BY <1>1, <1>2, <1>3, <1>4, <1>5

\* How handlers go on while they sign.
LEMMA SigningMoves ==
  ASSUME TypeOK, NEW p \in Procs
  PROVE  /\ JobCheck(p) =>
              \/ Moved(p, "idle", "request", None) /\ Throw(p)
              \/ Moved(p, "create", task[p].by, task[p].path) /\ UNCHANGED job
         /\ RequestCheck(p) =>
              \/ Moved(p, "idle", "request", None)
              \/ Moved(p, "pdf_read", task[p].by, task[p].path)
              \/ Moved(p, "create", task[p].by, task[p].path)
         /\ PdfRead(p) =>
              /\ Moved(p, "pdf_upload", task[p].by, task[p].path)
              /\ task'[p].text = text
         /\ \A f \in Files : PdfUpload(p, f) =>
              Moved(p, "pdf_write", task[p].by, f)
         /\ PdfWrite(p) =>
              \/ Moved(p, "envelope_check", task[p].by, task[p].path)
              \/ Moved(p, "create", task[p].by, task[p].path)
         /\ \A e \in Envelopes : CreateStep(p, e) =>
              /\ Moved(p, "document", task[p].by, task[p].path)
              /\ task'[p].env = e
         /\ DocumentStep(p) =>
              /\ Moved(p, "envelope_write", task[p].by, None)
              /\ task'[p].env = task[p].env
         /\ EnvelopeWrite(p) =>
              /\ Moved(p, "lessor", task[p].by, task[p].path)
              /\ task'[p].env = task[p].env
         /\ LessorStep(p) =>
              /\ Moved(p, "lessee", task[p].by, task[p].path)
              /\ task'[p].env = task[p].env
         /\ LesseeStep(p) =>
              /\ \/ Moved(p, "rows_write", task[p].by, task[p].path)
                 \/ Moved(p, "rows_delete", task[p].by, task[p].path)
              /\ task'[p].env = task[p].env
         /\ RowsDelete(p) =>
              /\ Moved(p, "rows_write", task[p].by, task[p].path)
              /\ task'[p].env = task[p].env
         /\ RowsWrite(p) =>
              /\ Moved(p, "activate", task[p].by, task[p].path)
              /\ task'[p].env = task[p].env
         /\ ActivateStep(p) => Moved(p, "notify", task[p].by, task[p].path)
         /\ NotifyStep(p) => Moved(p, "idle", "request", None)
         /\ SigningFails(p) => Moved(p, "idle", "request", None) /\ Throw(p)
<1> USE DEF Ops, SigningOps
<1>1. ASSUME JobCheck(p)
      PROVE  \/ Moved(p, "idle", "request", None) /\ Throw(p)
             \/ Moved(p, "create", task[p].by, task[p].path) /\ UNCHANGED job
  <2>1. Throw(p) => Moved(p, "idle", "request", None)
    BY Finished DEF Throw
  <2> QED
    BY <1>1, <2>1, Proceeded DEF JobCheck
<1>2. ASSUME RequestCheck(p)
      PROVE  \/ Moved(p, "idle", "request", None)
             \/ Moved(p, "pdf_read", task[p].by, task[p].path)
             \/ Moved(p, "create", task[p].by, task[p].path)
  <2>1. Finish(p)
        \/ Continue(p, [task[p] EXCEPT !.op = "pdf_read", !.env = NoEnvelope])
        \/ Continue(p, [task[p] EXCEPT !.op = "create", !.env = NoEnvelope])
    BY <1>2 DEF RequestCheck
  <2> QED
    BY <2>1, Finished, WithEnvelope, Zenon
<1>3. ASSUME PdfRead(p)
      PROVE  /\ Moved(p, "pdf_upload", task[p].by, task[p].path)
             /\ task'[p].text = text
  BY <1>3, WithFile, ZenonT(30) DEF PdfRead
<1>4. ASSUME NEW f \in Files, PdfUpload(p, f)
      PROVE  Moved(p, "pdf_write", task[p].by, f)
  BY <1>4, WithFile, ZenonT(30) DEF PdfUpload
<1>5. ASSUME PdfWrite(p)
      PROVE  \/ Moved(p, "envelope_check", task[p].by, task[p].path)
             \/ Moved(p, "create", task[p].by, task[p].path)
  BY <1>5, Proceeded DEF PdfWrite
<1>6. ASSUME NEW e \in Envelopes, CreateStep(p, e)
      PROVE  /\ Moved(p, "document", task[p].by, task[p].path)
             /\ task'[p].env = e
  BY <1>6, WithEnvelope, Zenon DEF CreateStep
<1>7. ASSUME DocumentStep(p)
      PROVE  /\ Moved(p, "envelope_write", task[p].by, None)
             /\ task'[p].env = task[p].env
  BY <1>7, WithFile, ZenonT(30) DEF DocumentStep
<1>8. ASSUME EnvelopeWrite(p)
      PROVE  /\ Moved(p, "lessor", task[p].by, task[p].path)
             /\ task'[p].env = task[p].env
  BY <1>8, Proceeded DEF EnvelopeWrite
<1>9. ASSUME LessorStep(p)
      PROVE  /\ Moved(p, "lessee", task[p].by, task[p].path)
             /\ task'[p].env = task[p].env
  BY <1>9, Proceeded DEF LessorStep
<1>10. ASSUME LesseeStep(p)
       PROVE  /\ \/ Moved(p, "rows_write", task[p].by, task[p].path)
                 \/ Moved(p, "rows_delete", task[p].by, task[p].path)
              /\ task'[p].env = task[p].env
  BY <1>10, Proceeded DEF LesseeStep
<1>11. ASSUME RowsDelete(p)
       PROVE  /\ Moved(p, "rows_write", task[p].by, task[p].path)
              /\ task'[p].env = task[p].env
  BY <1>11, Proceeded DEF RowsDelete
<1>12. ASSUME RowsWrite(p)
       PROVE  /\ Moved(p, "activate", task[p].by, task[p].path)
              /\ task'[p].env = task[p].env
  BY <1>12, Proceeded DEF RowsWrite
<1>13. ASSUME ActivateStep(p)
       PROVE  Moved(p, "notify", task[p].by, task[p].path)
  BY <1>13, WithEnvelope, Zenon DEF ActivateStep
<1>14. ASSUME NotifyStep(p)
       PROVE  Moved(p, "idle", "request", None)
  BY <1>14, Finished DEF NotifyStep
<1>15. ASSUME SigningFails(p)
       PROVE  Moved(p, "idle", "request", None) /\ Throw(p)
  BY <1>15, Finished DEF SigningFails, Throw
<1> QED
  BY <1>1, <1>2, <1>3, <1>4, <1>5, <1>6, <1>7, <1>8, <1>9, <1>10, <1>11,
     <1>12, <1>13, <1>14, <1>15

\* How handlers go on otherwise.
LEMMA OtherMoves ==
  ASSUME TypeOK, NEW p \in Procs
  PROVE  /\ \A f \in Files : CloseStore(p, f) =>
              Moved(p, "close_save", "request", None)
         /\ CloseSave(p) => Moved(p, "close_read", "request", None)
         /\ CloseWithoutFile(p) => Moved(p, "close_read", "request", None)
         /\ CloseRead(p) =>
              \/ Moved(p, "idle", "request", None)
              \/ /\ Moved(p, "close_write", task[p].by, task[p].path)
                 /\ contract.status = "AGUARDANDO_ASSINATURAS"
         /\ CloseWrite(p) => Moved(p, "idle", "request", None)
         /\ CancelEnvelope(p) =>
              Moved(p, "cancel_write", task[p].by, task[p].path)
         /\ CancelWrite(p) =>
              Moved(p, "cancel_files", task[p].by, task[p].path)
         /\ CancelFiles(p) => Moved(p, "idle", "request", None)
         /\ RemoveFiles(p) =>
              Moved(p, "remove_row", task[p].by, task[p].path)
         /\ RemoveRow(p) => Moved(p, "idle", "request", None)
         /\ OtherThrows(p) => Moved(p, "idle", "request", None)
<1> USE DEF Ops
<1>1. ASSUME NEW f \in Files, CloseStore(p, f)
      PROVE  Moved(p, "close_save", "request", None)
  BY <1>1, WithFile, Zenon DEF CloseStore
<1>2. ASSUME CloseSave(p)
      PROVE  Moved(p, "close_read", "request", None)
  BY <1>2, WithFile, Zenon DEF CloseSave
<1>3. ASSUME CloseWithoutFile(p)
      PROVE  Moved(p, "close_read", "request", None)
  BY <1>3, WithFile, Zenon DEF CloseWithoutFile
<1>4. ASSUME CloseRead(p)
      PROVE  \/ Moved(p, "idle", "request", None)
             \/ /\ Moved(p, "close_write", task[p].by, task[p].path)
                /\ contract.status = "AGUARDANDO_ASSINATURAS"
  BY <1>4, Proceeded, Finished DEF CloseRead
<1>5. ASSUME CloseWrite(p)
      PROVE  Moved(p, "idle", "request", None)
  BY <1>5, Finished DEF CloseWrite
<1>6. ASSUME CancelEnvelope(p)
      PROVE  Moved(p, "cancel_write", task[p].by, task[p].path)
  BY <1>6, WithEnvelope DEF CancelEnvelope
<1>7. ASSUME CancelWrite(p)
      PROVE  Moved(p, "cancel_files", task[p].by, task[p].path)
  BY <1>7, Proceeded DEF CancelWrite
<1>8. ASSUME CancelFiles(p)
      PROVE  Moved(p, "idle", "request", None)
  BY <1>8, Finished DEF CancelFiles
<1>9. ASSUME RemoveFiles(p)
      PROVE  Moved(p, "remove_row", task[p].by, task[p].path)
  BY <1>9, Proceeded DEF RemoveFiles
<1>10. ASSUME RemoveRow(p)
       PROVE  Moved(p, "idle", "request", None)
  BY <1>10, Finished DEF RemoveRow
<1>11. ASSUME OtherThrows(p)
       PROVE  Moved(p, "idle", "request", None)
  BY <1>11, Finished DEF OtherThrows
<1> QED
  BY <1>1, <1>2, <1>3, <1>4, <1>5, <1>6, <1>7, <1>8, <1>9, <1>10, <1>11

\* No step loses the task of a handler.
LEMMA TaskStep ==
  ASSUME TypeOK, NEW p \in Procs, Begin(p) \/ Step(p)
  PROVE  \E op, by, path : Moved(p, op, by, path)
<1>1. CASE Begin(p)
  BY <1>1, BeginMoves DEF Begin
<1>2. CASE Step(p)
  BY <1>2, SigningMoves, OtherMoves DEF Step
<1> QED
  BY <1>1, <1>2

-----------------------------------------------------------------------------
(* What each step changes.                                                 *)

\* Files are uploaded by two steps and deleted by two.
LEMMA StorageStep ==
  ASSUME [Next]_vars
  PROVE  \/ UNCHANGED <<storageVars, rendered>>
         \/ \E p \in Procs, f \in Files :
              \/ PdfUpload(p, f)
              \/ CloseStore(p, f)
         \/ \E p \in Procs : CancelFiles(p) \/ RemoveFiles(p)
<1> USE DEF storageVars
<1>1. CASE UNCHANGED vars
  BY <1>1 DEF vars
<1>2. CASE Prepare \/ Edit \/ (\E s \in Updates : Update(s))
           \/ JobFindsNothing \/ Signers \/ Crash
  BY <1>2 DEF Prepare, Edit, Update, JobFindsNothing, Signers, Crash
<1>3. ASSUME NEW p \in Procs, Begin(p)
      PROVE  UNCHANGED <<storageVars, rendered>>
  BY <1>3 DEF Begin, StartJob, StartRequest, StartClose, StartCancel,
              StartRemove
<1>4. ASSUME NEW p \in Procs,
             \/ JobCheck(p) \/ RequestCheck(p) \/ PdfRead(p) \/ PdfWrite(p)
             \/ (\E e \in Envelopes : CreateStep(p, e)) \/ DocumentStep(p)
             \/ EnvelopeWrite(p) \/ LessorStep(p) \/ LesseeStep(p)
             \/ RowsDelete(p) \/ RowsWrite(p) \/ ActivateStep(p)
             \/ NotifyStep(p) \/ SigningFails(p)
      PROVE  UNCHANGED <<storageVars, rendered>>
  BY <1>4 DEF JobCheck, RequestCheck, PdfRead, PdfWrite, CreateStep,
              DocumentStep, EnvelopeWrite, LessorStep, LesseeStep,
              RowsDelete, RowsWrite, ActivateStep, NotifyStep, SigningFails
<1>5. ASSUME NEW p \in Procs,
             \/ CloseSave(p) \/ CloseWithoutFile(p) \/ CloseRead(p)
             \/ CloseWrite(p) \/ CancelEnvelope(p) \/ CancelWrite(p)
             \/ RemoveRow(p) \/ OtherThrows(p)
      PROVE  UNCHANGED <<storageVars, rendered>>
  BY <1>5 DEF CloseSave, CloseWithoutFile, CloseRead, CloseWrite,
              CancelEnvelope, CancelWrite, RemoveRow, OtherThrows
<1> QED
  BY <1>1, <1>2, <1>3, <1>4, <1>5 DEF Next, Step

\* Envelopes are changed by the signers, by a cancellation, and by the
\* handler that has one in its hands.
LEMMA EnvelopeStep ==
  ASSUME [Next]_vars
  PROVE  \/ UNCHANGED envelope
         \/ Signers
         \/ \E p \in Procs :
              \/ \E e \in Envelopes : CreateStep(p, e)
              \/ DocumentStep(p)
              \/ LessorStep(p)
              \/ LesseeStep(p)
              \/ ActivateStep(p)
              \/ CancelEnvelope(p)
<1>1. CASE UNCHANGED vars
  BY <1>1 DEF vars
<1>2. CASE Prepare \/ Edit \/ (\E s \in Updates : Update(s))
           \/ JobFindsNothing \/ Crash
  BY <1>2 DEF Prepare, Edit, Update, JobFindsNothing, Crash
<1>3. ASSUME NEW p \in Procs, Begin(p)
      PROVE  UNCHANGED envelope
  BY <1>3 DEF Begin, StartJob, StartRequest, StartClose, StartCancel,
              StartRemove
<1>4. ASSUME NEW p \in Procs,
             \/ JobCheck(p) \/ RequestCheck(p) \/ PdfRead(p) \/ PdfWrite(p)
             \/ (\E f \in Files : PdfUpload(p, f) \/ CloseStore(p, f))
             \/ EnvelopeWrite(p) \/ RowsDelete(p) \/ RowsWrite(p)
             \/ NotifyStep(p) \/ SigningFails(p)
      PROVE  UNCHANGED envelope
  BY <1>4, Zenon DEF JobCheck, RequestCheck, PdfRead, PdfWrite, PdfUpload,
              CloseStore, EnvelopeWrite, RowsDelete, RowsWrite, NotifyStep,
              SigningFails
<1>5. ASSUME NEW p \in Procs,
             \/ CloseSave(p) \/ CloseWithoutFile(p) \/ CloseRead(p)
             \/ CloseWrite(p) \/ CancelWrite(p) \/ CancelFiles(p)
             \/ RemoveFiles(p) \/ RemoveRow(p) \/ OtherThrows(p)
      PROVE  UNCHANGED envelope
  BY <1>5 DEF CloseSave, CloseWithoutFile, CloseRead, CloseWrite,
              CancelWrite, CancelFiles, RemoveFiles, RemoveRow, OtherThrows
<1> QED
  BY <1>1, <1>2, <1>3, <1>4, <1>5 DEF Next, Step

\* The row of the contract, and what is remembered of it, is written by
\* these.
LEMMA ContractStep ==
  ASSUME [Next]_vars
  PROVE  \/ UNCHANGED <<contractVars, reopened, withdrawn>>
         \/ Prepare
         \/ Edit
         \/ \E s \in Updates : Update(s)
         \/ \E p \in Procs :
              \/ PdfWrite(p)
              \/ EnvelopeWrite(p)
              \/ CloseSave(p)
              \/ CloseWrite(p)
              \/ CancelWrite(p)
              \/ StartRemove(p)
              \/ RemoveRow(p)
<1> USE DEF contractVars, history
<1>1. CASE UNCHANGED vars
  BY <1>1 DEF vars
<1>2. CASE JobFindsNothing \/ Signers \/ Crash
  BY <1>2 DEF JobFindsNothing, Signers, Crash
<1>3. ASSUME NEW p \in Procs, Begin(p), ~StartRemove(p)
      PROVE  UNCHANGED <<contractVars, reopened, withdrawn>>
  BY <1>3 DEF Begin, StartJob, StartRequest, StartClose, StartCancel
<1>4. ASSUME NEW p \in Procs,
             \/ JobCheck(p) \/ RequestCheck(p) \/ PdfRead(p)
             \/ (\E f \in Files : PdfUpload(p, f) \/ CloseStore(p, f))
             \/ (\E e \in Envelopes : CreateStep(p, e)) \/ DocumentStep(p)
             \/ LessorStep(p) \/ LesseeStep(p)
             \/ RowsDelete(p) \/ RowsWrite(p) \/ ActivateStep(p)
             \/ NotifyStep(p) \/ SigningFails(p)
      PROVE  UNCHANGED <<contractVars, reopened, withdrawn>>
  BY <1>4, Zenon DEF JobCheck, RequestCheck, PdfRead, PdfUpload, CloseStore,
              CreateStep, DocumentStep, LessorStep, LesseeStep, RowsDelete,
              RowsWrite, ActivateStep, NotifyStep, SigningFails
<1>5. ASSUME NEW p \in Procs,
             \/ CloseWithoutFile(p) \/ CloseRead(p) \/ CancelEnvelope(p)
             \/ CancelFiles(p) \/ RemoveFiles(p) \/ OtherThrows(p)
      PROVE  UNCHANGED <<contractVars, reopened, withdrawn>>
  BY <1>5 DEF CloseWithoutFile, CloseRead, CancelEnvelope, CancelFiles,
              RemoveFiles, OtherThrows
<1> QED
  BY <1>1, <1>2, <1>3, <1>4, <1>5 DEF Next, Begin, Step

\* Signature rows are written by one step and deleted by two.
LEMMA RowsStep ==
  ASSUME [Next]_vars
  PROVE  \/ UNCHANGED <<requests, purged>>
         \/ \E p \in Procs : RowsWrite(p) \/ RowsDelete(p) \/ RemoveRow(p)
<1> USE DEF history
<1>1. CASE UNCHANGED vars
  BY <1>1 DEF vars
<1>2. CASE Prepare \/ Edit \/ (\E s \in Updates : Update(s))
           \/ JobFindsNothing \/ Signers \/ Crash
  BY <1>2 DEF Prepare, Edit, Update, JobFindsNothing, Signers, Crash
<1>3. ASSUME NEW p \in Procs, Begin(p)
      PROVE  UNCHANGED <<requests, purged>>
  BY <1>3 DEF Begin, StartJob, StartRequest, StartClose, StartCancel,
              StartRemove
<1>4. ASSUME NEW p \in Procs,
             \/ JobCheck(p) \/ RequestCheck(p) \/ PdfRead(p) \/ PdfWrite(p)
             \/ (\E f \in Files : PdfUpload(p, f) \/ CloseStore(p, f))
             \/ (\E e \in Envelopes : CreateStep(p, e)) \/ DocumentStep(p)
             \/ EnvelopeWrite(p) \/ LessorStep(p) \/ LesseeStep(p)
             \/ ActivateStep(p) \/ NotifyStep(p) \/ SigningFails(p)
      PROVE  UNCHANGED <<requests, purged>>
  BY <1>4, Zenon DEF JobCheck, RequestCheck, PdfRead, PdfWrite, PdfUpload,
              CloseStore, CreateStep, DocumentStep, EnvelopeWrite,
              LessorStep, LesseeStep, ActivateStep, NotifyStep, SigningFails
<1>5. ASSUME NEW p \in Procs,
             \/ CloseSave(p) \/ CloseWithoutFile(p) \/ CloseRead(p)
             \/ CloseWrite(p) \/ CancelEnvelope(p) \/ CancelWrite(p)
             \/ CancelFiles(p) \/ RemoveFiles(p) \/ OtherThrows(p)
      PROVE  UNCHANGED <<requests, purged>>
  BY <1>5 DEF CloseSave, CloseWithoutFile, CloseRead, CloseWrite,
              CancelEnvelope, CancelWrite, CancelFiles, RemoveFiles,
              OtherThrows
<1> QED
  BY <1>1, <1>2, <1>3, <1>4, <1>5 DEF Next, Step

\* The job is changed by the queue and by the ends of its handler.
LEMMA JobStep ==
  ASSUME [Next]_vars
  PROVE  \/ UNCHANGED job
         \/ Prepare
         \/ JobFindsNothing
         \/ Crash
         \/ \E p \in Procs :
              StartJob(p) \/ JobCheck(p) \/ NotifyStep(p) \/ SigningFails(p)
<1>1. CASE UNCHANGED vars
  BY <1>1 DEF vars
<1>2. CASE Edit \/ (\E s \in Updates : Update(s)) \/ Signers
  BY <1>2 DEF Edit, Update, Signers
<1>3. ASSUME NEW p \in Procs, Begin(p), ~StartJob(p)
      PROVE  UNCHANGED job
  BY <1>3 DEF Begin, StartRequest, StartClose, StartCancel, StartRemove
<1>4. ASSUME NEW p \in Procs,
             \/ RequestCheck(p) \/ PdfRead(p) \/ PdfWrite(p)
             \/ (\E f \in Files : PdfUpload(p, f) \/ CloseStore(p, f))
             \/ (\E e \in Envelopes : CreateStep(p, e)) \/ DocumentStep(p)
             \/ EnvelopeWrite(p) \/ LessorStep(p) \/ LesseeStep(p)
             \/ RowsDelete(p) \/ RowsWrite(p) \/ ActivateStep(p)
      PROVE  UNCHANGED job
  BY <1>4, Zenon DEF RequestCheck, PdfRead, PdfWrite, PdfUpload, CloseStore,
              CreateStep, DocumentStep, EnvelopeWrite, LessorStep,
              LesseeStep, RowsDelete, RowsWrite, ActivateStep
<1>5. ASSUME NEW p \in Procs,
             \/ CloseSave(p) \/ CloseWithoutFile(p) \/ CloseRead(p)
             \/ CloseWrite(p) \/ CancelEnvelope(p) \/ CancelWrite(p)
             \/ CancelFiles(p) \/ RemoveFiles(p) \/ RemoveRow(p)
             \/ OtherThrows(p)
      PROVE  UNCHANGED job
  BY <1>5 DEF CloseSave, CloseWithoutFile, CloseRead, CloseWrite,
              CancelEnvelope, CancelWrite, CancelFiles, RemoveFiles,
              RemoveRow, OtherThrows
<1> QED
  BY <1>1, <1>2, <1>3, <1>4, <1>5 DEF Next, Begin, Step

\* Jobs and failures are counted where they occur.
LEMMA BoundsStep ==
  ASSUME [Next]_vars
  PROVE  UNCHANGED bounds \/ Prepare \/ Crash
<1>1. CASE UNCHANGED vars
  BY <1>1 DEF vars
<1>2. CASE Edit \/ (\E s \in Updates : Update(s)) \/ JobFindsNothing
           \/ Signers
  BY <1>2 DEF Edit, Update, JobFindsNothing, Signers
<1>3. ASSUME NEW p \in Procs, Begin(p)
      PROVE  UNCHANGED bounds
  BY <1>3 DEF Begin, StartJob, StartRequest, StartClose, StartCancel,
              StartRemove
<1>4. ASSUME NEW p \in Procs,
             \/ JobCheck(p) \/ RequestCheck(p) \/ PdfRead(p) \/ PdfWrite(p)
             \/ (\E f \in Files : PdfUpload(p, f) \/ CloseStore(p, f))
             \/ (\E e \in Envelopes : CreateStep(p, e)) \/ DocumentStep(p)
             \/ EnvelopeWrite(p) \/ LessorStep(p) \/ LesseeStep(p)
             \/ RowsDelete(p) \/ RowsWrite(p) \/ ActivateStep(p)
             \/ NotifyStep(p) \/ SigningFails(p)
      PROVE  UNCHANGED bounds
  BY <1>4, Zenon DEF JobCheck, RequestCheck, PdfRead, PdfWrite, PdfUpload,
              CloseStore, CreateStep, DocumentStep, EnvelopeWrite,
              LessorStep, LesseeStep, RowsDelete, RowsWrite, ActivateStep,
              NotifyStep, SigningFails
<1>5. ASSUME NEW p \in Procs,
             \/ CloseSave(p) \/ CloseWithoutFile(p) \/ CloseRead(p)
             \/ CloseWrite(p) \/ CancelEnvelope(p) \/ CancelWrite(p)
             \/ CancelFiles(p) \/ RemoveFiles(p) \/ RemoveRow(p)
             \/ OtherThrows(p)
      PROVE  UNCHANGED bounds
  BY <1>5 DEF CloseSave, CloseWithoutFile, CloseRead, CloseWrite,
              CancelEnvelope, CancelWrite, CancelFiles, RemoveFiles,
              RemoveRow, OtherThrows
<1> QED
  BY <1>1, <1>2, <1>3, <1>4, <1>5 DEF Next, Step

\* Handlers act, or die, or are left alone.
LEMMA HandlerStep ==
  ASSUME [Next]_vars
  PROVE  \/ UNCHANGED task
         \/ Crash
         \/ \E p \in Procs : Begin(p) \/ Step(p)
BY DEF Next, vars, Prepare, Edit, Update, JobFindsNothing, Signers

\* A crash makes handlers idle and does nothing else to tasks.
LEMMA CrashTasks ==
  ASSUME Crash
  PROVE  \A q \in Procs : task'[q] = task[q] \/ task'[q] = IdleTask
BY DEF Crash

-----------------------------------------------------------------------------
(* Types, and the job.                                                     *)

\* Types are preserved by every step.
LEMMA TypeStep == TypeOK /\ JobInv /\ OwnersInv /\ [Next]_vars => TypeOK'
<1> SUFFICES ASSUME TypeOK, JobInv, OwnersInv, [Next]_vars PROVE TypeOK'
  OBVIOUS
<1> USE SignatureAssumption
<1>1. task' \in [Procs -> Task]
  <2>1. task \in [Procs -> Task]
    BY DEF TypeOK, Task
  <2>2. CASE Crash
    BY <2>1, <2>2, Idle DEF Crash
  <2>3. CASE \E p \in Procs : Begin(p) \/ Step(p)
    BY <2>3, TaskStep DEF Moved
  <2> QED
    BY <2>1, <2>2, <2>3, HandlerStep
<1>2. StorageTypeOK' /\ rendered' \in [Files -> Nat]
  <2> USE DEF TypeOK, StorageTypeOK, storageVars
  <2>1. ASSUME NEW p \in Procs, NEW f \in Files, PdfUpload(p, f)
        PROVE  StorageTypeOK' /\ rendered' \in [Files -> Nat]
    <3>1. StorageTypeOK'
      BY <2>1 DEF PdfUpload, UploadFile
    <3>2. task[p].text \in Nat /\ rendered \in [Files -> Nat]
      OBVIOUS
    <3>3. rendered' = [rendered EXCEPT ![f] = task[p].text]
      BY <2>1 DEF PdfUpload
    <3> QED
      BY <3>1, <3>2, <3>3
  <2>2. ASSUME NEW p \in Procs, NEW f \in Files, CloseStore(p, f)
        PROVE  StorageTypeOK' /\ rendered' \in [Files -> Nat]
    BY <2>2 DEF CloseStore, UploadFile
  <2>3. ASSUME NEW p \in Procs, CancelFiles(p) \/ RemoveFiles(p)
        PROVE  StorageTypeOK' /\ rendered' \in [Files -> Nat]
    BY <2>3 DEF CancelFiles, RemoveFiles, DeleteFilesOrLog, DeleteFiles
  <2>4. CASE UNCHANGED <<storageVars, rendered>>
    BY <2>4
  <2> QED
    BY <2>1, <2>2, <2>3, <2>4, StorageStep
<1>3. EnvelopesTypeOK'
  <2>t. EnvelopesTypeOK /\ rendered \in [Files -> Nat]
        /\ stored \subseteq Files
    BY DEF TypeOK, StorageTypeOK
  <2>s. ASSUME NEW e, NEW s \in EnvelopeStatus, SetStatusOf(e, s)
        PROVE  EnvelopesTypeOK'
    BY <2>s, <2>t DEF EnvelopesTypeOK, SetStatusOf, EnvelopeRecord
  <2>a. ASSUME NEW e, NEW who \in Parties, AddSigner(e, who)
        PROVE  EnvelopesTypeOK'
    BY <2>a, <2>t DEF EnvelopesTypeOK, AddSigner, EnvelopeRecord
  <2>1. CASE UNCHANGED envelope
    BY <2>1, <2>t DEF EnvelopesTypeOK
  <2>2. CASE Signers
    BY <2>2, <2>s DEF Signers, Close, Lapse, EnvelopeStatus
  <2>3. ASSUME NEW p \in Procs, NEW e \in Envelopes, CreateStep(p, e)
        PROVE  EnvelopesTypeOK'
    BY <2>3, <2>s DEF CreateStep, CreateEnvelope, EnvelopeStatus
  <2>4. ASSUME NEW p \in Procs, DocumentStep(p)
        PROVE  EnvelopesTypeOK'
    <3> DEFINE n == rendered[task[p].path]
               e == task[p].env
    <3>1. n \in Nat
      BY <2>4, <2>t DEF DocumentStep, Readable
    <3>2. AddDocument(e, n)
      BY <2>4 DEF DocumentStep
    <3> HIDE DEF n, e
    <3> QED
      BY <3>1, <3>2, <2>t DEF EnvelopesTypeOK, AddDocument, EnvelopeRecord
  <2>5. ASSUME NEW p \in Procs, LessorStep(p) \/ LesseeStep(p)
        PROVE  EnvelopesTypeOK'
    BY <2>5, <2>a DEF LessorStep, LesseeStep, Parties
  <2>6. ASSUME NEW p \in Procs, ActivateStep(p)
        PROVE  EnvelopesTypeOK'
    BY <2>6, <2>s DEF ActivateStep, ActivateEnvelope, EnvelopeStatus
  <2>7. ASSUME NEW p \in Procs, CancelEnvelope(p)
        PROVE  EnvelopesTypeOK'
    BY <2>7, <2>1, <2>s DEF CancelEnvelope, DeleteEnvelope, EnvelopeStatus
  <2> QED
    BY <2>1, <2>2, <2>3, <2>4, <2>5, <2>6, <2>7, EnvelopeStep
<1> DEFINE RowOK ==
      /\ contract \in [status : ContractStatus, path : Files \cup {None},
                       signed : Files \cup {None},
                       env : Envelopes \cup {NoEnvelope}]
      /\ exists \in BOOLEAN
      /\ text \in Nat
      /\ {reopened, withdrawn} \subseteq BOOLEAN
<1>4. RowOK'
  <2>t. /\ contract \in [status : ContractStatus, path : Files \cup {None},
                         signed : Files \cup {None},
                         env : Envelopes \cup {NoEnvelope}]
        /\ exists \in BOOLEAN
        /\ text \in Nat
        /\ reopened \in BOOLEAN
        /\ withdrawn \in BOOLEAN
        /\ \A p \in Procs : /\ task[p].path \in Files \cup {None}
                            /\ task[p].signed \in Files \cup {None}
                            /\ task[p].env \in Envelopes \cup {NoEnvelope}
    BY DEF TypeOK
  <2> USE DEF contractVars, history, ContractStatus
  <2>1. CASE UNCHANGED <<contractVars, reopened, withdrawn>>
    BY <2>1, <2>t
  <2>2. CASE Prepare
    BY <2>2, <2>t DEF Prepare
  <2>3. CASE Edit
    BY <2>3, <2>t DEF Edit
  <2>4. ASSUME NEW s \in Updates, Update(s)
        PROVE  RowOK'
    BY <2>4, <2>t DEF Update
  <2>5. ASSUME NEW p \in Procs, PdfWrite(p)
        PROVE  RowOK'
    BY <2>5, <2>t DEF PdfWrite
  <2>6. ASSUME NEW p \in Procs, EnvelopeWrite(p)
        PROVE  RowOK'
    BY <2>6, <2>t DEF EnvelopeWrite
  <2>7. ASSUME NEW p \in Procs, CloseSave(p)
        PROVE  RowOK'
    BY <2>7, <2>t DEF CloseSave
  <2>8. ASSUME NEW p \in Procs, CloseWrite(p) \/ CancelWrite(p)
        PROVE  RowOK'
    BY <2>8, <2>t DEF CloseWrite, CancelWrite
  <2>9. ASSUME NEW p \in Procs, StartRemove(p) \/ RemoveRow(p)
        PROVE  RowOK'
    BY <2>9, <2>t DEF StartRemove, RemoveRow
  <2> QED
    BY <2>1, <2>2, <2>3, <2>4, <2>5, <2>6, <2>7, <2>8, <2>9, ContractStep
<1>5. requests' \subseteq Envelopes /\ purged' \subseteq Envelopes
  <2>t. /\ requests \subseteq Envelopes
        /\ purged \subseteq Envelopes
    BY DEF TypeOK
  <2>1. ASSUME NEW p \in Procs, RowsWrite(p)
        PROVE  requests' \subseteq Envelopes /\ purged' \subseteq Envelopes
    <3>1. task[p].env \in Envelopes
      BY <2>1 DEF OwnersInv, Drafted, OwnerOps, RowsWrite, At
    <3> QED
      BY <2>1, <2>t, <3>1 DEF RowsWrite, history
  <2>2. ASSUME NEW p \in Procs, RowsDelete(p) \/ RemoveRow(p)
        PROVE  requests' \subseteq Envelopes /\ purged' \subseteq Envelopes
    BY <2>2, <2>t DEF RowsDelete, RemoveRow
  <2> QED
    BY <2>t, <2>1, <2>2, RowsStep
<1>6. job' \in [state : {"none", "waiting", "active", "completed", "failed"},
                tries : 0..Attempts]
  <2>t. /\ job \in [state : {"none", "waiting", "active", "completed",
                             "failed"}, tries : 0..Attempts]
        /\ job.state = "active" => job.tries > 0
        /\ job.state = "waiting" => job.tries < Attempts
        /\ \A p \in Procs : task[p].by = "job" => job.state = "active"
    BY DEF TypeOK, JobInv
  <2> USE DEF JobState
  <2>1. CASE UNCHANGED job
    BY <2>1, <2>t
  <2>2. CASE Prepare
    BY <2>2, <2>t DEF Prepare, Enqueue
  <2>3. CASE JobFindsNothing
    BY <2>3, <2>t DEF JobFindsNothing
  <2>4. CASE Crash
    BY <2>4, <2>t DEF Crash
  <2>5. ASSUME NEW p \in Procs, StartJob(p)
        PROVE  job' \in [state : {"none", "waiting", "active", "completed",
                                  "failed"}, tries : 0..Attempts]
    BY <2>5, <2>t DEF StartJob
  <2>6. ASSUME NEW p \in Procs,
               JobCheck(p) \/ NotifyStep(p) \/ SigningFails(p)
        PROVE  job' \in [state : {"none", "waiting", "active", "completed",
                                  "failed"}, tries : 0..Attempts]
    BY <2>6, <2>t DEF JobCheck, NotifyStep, SigningFails, Throw, Retry
  <2> QED
    BY <2>1, <2>2, <2>3, <2>4, <2>5, <2>6, JobStep
<1>7. jobs' \in Nat /\ crashes' \in Nat
  <2>t. jobs \in Nat /\ crashes \in Nat
    BY DEF TypeOK
  <2>1. CASE UNCHANGED bounds
    BY <2>1, <2>t DEF bounds
  <2>2. CASE Prepare
    BY <2>2, <2>t DEF Prepare, Enqueue
  <2>3. CASE Crash
    BY <2>3, <2>t DEF Crash
  <2> QED
    BY <2>1, <2>2, <2>3, BoundsStep
<1> QED
  BY <1>1, <1>2, <1>3, <1>4, <1>5, <1>6, <1>7 DEF TypeOK, Task

\* The job has one handler at most, which counts its attempt.
LEMMA JobInvStep == TypeOK /\ JobInv /\ [Next]_vars => JobInv'
<1> SUFFICES ASSUME TypeOK, JobInv, [Next]_vars PROVE JobInv'
  OBVIOUS
<1> USE SignatureAssumption
<1>t. /\ job \in [state : {"none", "waiting", "active", "completed",
                           "failed"}, tries : 0..Attempts]
      /\ task \in [Procs -> Task]
  BY DEF TypeOK, Task
<1>1. ASSUME UNCHANGED job,
             \A p \in Procs : task'[p].by = "job" =>
               task[p].by = "job" /\ task'[p].op \in SigningOps
      PROVE  JobInv'
  BY <1>1 DEF JobInv
<1>2. ASSUME job.state # "active", UNCHANGED task,
             job'.state # "active",
             job'.state = "waiting" => job'.tries < Attempts
      PROVE  JobInv'
  BY <1>2 DEF JobInv
<1>3. CASE UNCHANGED <<job, task>>
  BY <1>1, <1>3 DEF JobInv
<1>4. CASE Prepare
  BY <1>2, <1>3, <1>4, <1>t DEF Prepare, Enqueue
<1>5. CASE JobFindsNothing
  BY <1>2, <1>5, <1>t DEF JobFindsNothing
<1>6. CASE Crash
  <2>1. PICK dead \in (SUBSET Procs) \ {{}} :
          /\ task' = [p \in Procs |-> IF p \in dead THEN IdleTask
                                                    ELSE task[p]]
          /\ IF \E p \in dead : task[p].by = "job"
             THEN \/ job' = [state |-> "waiting", tries |-> job.tries - 1]
                  \/ JobState("failed")
             ELSE UNCHANGED job
    BY <1>6 DEF Crash
  <2>2. CASE \E p \in dead : task[p].by = "job"
    <3>1. job.state = "active" /\ job.tries > 0
      BY <2>2 DEF JobInv
    <3>2. \A p \in Procs : task'[p].by # "job"
      BY <2>1, <2>2, Idle DEF JobInv
    <3>3. job'.state # "active"
          /\ (job'.state = "waiting" => job'.tries < Attempts)
      BY <2>1, <2>2, <3>1, <1>t DEF JobState
    <3> QED
      BY <3>2, <3>3 DEF JobInv
  <2>3. CASE ~ \E p \in dead : task[p].by = "job"
    BY <1>1, <2>1, <2>3, Idle DEF JobInv
  <2> QED
    BY <2>2, <2>3
<1>7. ASSUME NEW p \in Procs, StartJob(p)
      PROVE  JobInv'
  <2>1. \A q \in Procs : task[q].by # "job"
    BY <1>7 DEF StartJob, JobInv
  <2>2. \/ Moved(p, "pdf_read", "job", contract.path)
        \/ Moved(p, "envelope_check", "job", contract.path)
    BY <1>7, BeginMoves
  <2>3. job' = [state |-> "active", tries |-> job.tries + 1]
    BY <1>7 DEF StartJob
  <2> QED
    BY <2>1, <2>2, <2>3, <1>t DEF JobInv, Moved, SigningOps
<1>8. ASSUME NEW p \in Procs, Moved(p, "idle", "request", None),
             Throw(p) \/ NotifyStep(p)
      PROVE  JobInv'
  <2>1. CASE task[p].by = "job"
    <3>1. job.state = "active" /\ \A q \in Procs \ {p} : task[q].by # "job"
      BY <2>1 DEF JobInv
    <3>2. \A q \in Procs : task'[q].by # "job"
      BY <1>8, <3>1 DEF Moved
    <3>3. job'.state # "active"
          /\ (job'.state = "waiting" => job'.tries < Attempts)
      BY <1>8, <2>1, <1>t DEF Throw, Retry, NotifyStep, JobState
    <3> QED
      BY <3>2, <3>3 DEF JobInv
  <2>2. CASE task[p].by # "job"
    <3>1. UNCHANGED job
      BY <1>8, <2>2 DEF Throw, NotifyStep
    <3> QED
      BY <1>1, <1>8, <3>1 DEF Moved, JobInv
  <2> QED
    BY <2>1, <2>2
<1>9. ASSUME UNCHANGED job, NEW p \in Procs, Begin(p) \/ Step(p)
      PROVE  JobInv'
  <2>1. ASSUME NEW op, NEW path, Moved(p, op, "request", path)
        PROVE  JobInv'
    BY <1>1, <1>9, <2>1 DEF Moved, JobInv
  <2>2. ASSUME NEW op \in SigningOps, NEW path,
               Moved(p, op, task[p].by, path)
        PROVE  JobInv'
    BY <1>1, <1>9, <2>2 DEF Moved, JobInv
  <2>3. ASSUME task[p].op \notin SigningOps, NEW op, NEW path,
               Moved(p, op, task[p].by, path)
        PROVE  JobInv'
    BY <1>1, <1>9, <2>3 DEF Moved, JobInv
  <2>4. CASE Begin(p)
    <3>1. ~StartJob(p)
      BY <1>9, <1>t DEF StartJob
    <3> QED
      BY <2>1, <2>4, <3>1, BeginMoves DEF Begin
  <2>5. CASE \/ JobCheck(p) \/ RequestCheck(p) \/ PdfRead(p) \/ PdfWrite(p)
             \/ (\E f \in Files : PdfUpload(p, f))
             \/ (\E e \in Envelopes : CreateStep(p, e)) \/ DocumentStep(p)
             \/ EnvelopeWrite(p) \/ LessorStep(p) \/ LesseeStep(p)
             \/ RowsDelete(p) \/ RowsWrite(p) \/ ActivateStep(p)
             \/ NotifyStep(p) \/ SigningFails(p)
    BY <2>1, <2>2, <2>5, SigningMoves DEF SigningOps
  <2>6. CASE \/ CloseRead(p) \/ CancelEnvelope(p) \/ CancelWrite(p)
             \/ RemoveFiles(p)
    <3>1. task[p].op \notin SigningOps
      BY <2>6 DEF CloseRead, CancelEnvelope, CancelWrite, RemoveFiles, At,
                  SigningOps
    <3> QED
      BY <2>1, <2>3, <2>6, <3>1, OtherMoves
  <2>7. CASE \/ (\E f \in Files : CloseStore(p, f)) \/ CloseSave(p)
             \/ CloseWithoutFile(p) \/ CloseWrite(p) \/ CancelFiles(p)
             \/ RemoveRow(p) \/ OtherThrows(p)
    BY <2>1, <2>7, OtherMoves
  <2> QED
    BY <1>9, <2>4, <2>5, <2>6, <2>7 DEF Step
<1>10. ASSUME NEW p \in Procs, JobCheck(p)
       PROVE  JobInv'
  BY <1>8, <1>9, <1>10, SigningMoves DEF Step
<1>11. ASSUME NEW p \in Procs, NotifyStep(p) \/ SigningFails(p)
       PROVE  JobInv'
  BY <1>8, <1>11, SigningMoves
<1>12. CASE UNCHANGED job
  BY <1>3, <1>6, <1>9, <1>12, HandlerStep
<1> QED
  BY <1>4, <1>5, <1>6, <1>7, <1>10, <1>11, <1>12, JobStep

-----------------------------------------------------------------------------
(* The envelopes and the handlers that make them.                          *)

\* The steps that leave a handler with an envelope of its own.
OwnerStep(p) ==
  \/ \E e \in Envelopes : CreateStep(p, e)
  \/ DocumentStep(p)
  \/ EnvelopeWrite(p)
  \/ LessorStep(p)
  \/ LesseeStep(p)
  \/ RowsDelete(p)
  \/ RowsWrite(p)

\* All other steps give no handler an envelope.
LEMMA OwnersStay ==
  ASSUME TypeOK, [Next]_vars
  PROVE  \/ \A q \in Procs :
              task'[q] = task[q] \/ task'[q].op \notin OwnerOps
         \/ \E p \in Procs : OwnerStep(p)
<1>1. CASE UNCHANGED task
  BY <1>1
<1>2. CASE Crash
  BY <1>2, Idle DEF Crash, OwnerOps
<1>3. ASSUME NEW p \in Procs, NEW op, op \notin OwnerOps, NEW by, NEW path,
             Moved(p, op, by, path)
      PROVE  \A q \in Procs :
               task'[q] = task[q] \/ task'[q].op \notin OwnerOps
  BY <1>3 DEF Moved
<1>4. ASSUME NEW p \in Procs, Begin(p)
      PROVE  \A q \in Procs :
               task'[q] = task[q] \/ task'[q].op \notin OwnerOps
  BY <1>3, <1>4, BeginMoves DEF Begin, OwnerOps
<1>5. ASSUME NEW p \in Procs, Step(p), ~OwnerStep(p)
      PROVE  \A q \in Procs :
               task'[q] = task[q] \/ task'[q].op \notin OwnerOps
  <2>1. CASE \/ JobCheck(p) \/ RequestCheck(p) \/ PdfRead(p) \/ PdfWrite(p)
             \/ (\E f \in Files : PdfUpload(p, f)) \/ ActivateStep(p)
             \/ NotifyStep(p) \/ SigningFails(p)
    BY <1>3, <2>1, SigningMoves DEF OwnerOps
  <2>2. CASE \/ CloseRead(p) \/ CancelEnvelope(p) \/ CancelWrite(p)
             \/ RemoveFiles(p) \/ (\E f \in Files : CloseStore(p, f))
             \/ CloseSave(p) \/ CloseWithoutFile(p) \/ CloseWrite(p)
             \/ CancelFiles(p) \/ RemoveRow(p) \/ OtherThrows(p)
    BY <1>3, <2>2, OtherMoves DEF OwnerOps
  <2> QED
    BY <1>5, <2>1, <2>2 DEF Step, OwnerStep
<1> QED
  BY <1>1, <1>2, <1>4, <1>5, HandlerStep

\* Whose signature rows were there is not forgotten.
LEMMA RowsKept ==
  ASSUME [Next]_vars
  PROVE  requests \cup purged \subseteq (requests \cup purged)'
BY RowsStep DEF RowsWrite, RowsDelete, RemoveRow, history

\* Each handler works on its own envelope, in the order of its steps, and an
\* envelope that was set running is complete.
LEMMA OwnersStep ==
  TypeOK /\ OwnersInv /\ RunningIsComplete /\ [Next]_vars
    => OwnersInv' /\ RunningIsComplete'
<1> SUFFICES ASSUME TypeOK, OwnersInv, RunningIsComplete, [Next]_vars
             PROVE  OwnersInv' /\ RunningIsComplete'
  OBVIOUS
<1> DEFINE Stay == \A q \in Procs :
                     task'[q] = task[q] \/ task'[q].op \notin OwnerOps
<1>t. /\ envelope \in [Envelopes -> EnvelopeRecord]
      /\ task \in [Procs -> Task]
  BY DEF TypeOK, EnvelopesTypeOK, Task
<1>r. requests \cup purged \subseteq (requests \cup purged)'
  BY RowsKept
<1>1. CASE UNCHANGED envelope /\ Stay
  <2>1. OwnersInv'
    BY <1>1, <1>r DEF OwnersInv, Drafted, Status
  <2>2. RunningIsComplete'
    BY <1>1, <1>r DEF RunningIsComplete, InStatus, Status
  <2> QED
    BY <2>1, <2>2
<1>2. ASSUME NEW p \in Procs,
             EnvelopeWrite(p) \/ RowsDelete(p) \/ RowsWrite(p)
      PROVE  OwnersInv' /\ RunningIsComplete'
  <2>1. /\ UNCHANGED envelope
        /\ task[p].op \in OwnerOps
        /\ task'[p].env = task[p].env
        /\ \A q \in Procs \ {p} : task'[q] = task[q]
    BY <1>2, SigningMoves DEF EnvelopeWrite, RowsDelete, RowsWrite, At,
       OwnerOps, Moved
  <2>2. RunningIsComplete'
    BY <2>1, <1>r DEF RunningIsComplete, InStatus, Status
  <2>3. \A q, r \in Procs :
          q # r /\ task'[q].op \in OwnerOps /\ task'[r].op \in OwnerOps
            => task'[q].env # task'[r].env
    BY <2>1 DEF OwnersInv
  <2>4. \A q \in Procs \ {p} : Drafted(q)'
    BY <2>1, <1>r DEF OwnersInv, Drafted, Status
  <2>5. Drafted(p)'
    <3>1. CASE EnvelopeWrite(p)
      <4>1. task[p].op = "envelope_write" /\ task'[p].op = "lessor"
        BY <3>1, SigningMoves DEF EnvelopeWrite, At, Moved
      <4> QED
        BY <2>1, <4>1 DEF OwnersInv, Drafted, Status, OwnerOps
    <3>2. CASE RowsDelete(p)
      <4>1. task[p].op = "rows_delete" /\ task'[p].op = "rows_write"
        BY <3>2, SigningMoves DEF RowsDelete, At, Moved
      <4> QED
        BY <2>1, <4>1 DEF OwnersInv, Drafted, Status, OwnerOps
    <3>3. CASE RowsWrite(p)
      <4>1. /\ task[p].op = "rows_write"
            /\ task'[p].op = "activate"
            /\ task[p].env \in requests'
        BY <3>3, SigningMoves DEF RowsWrite, At, Moved
      <4> QED
        BY <2>1, <4>1 DEF OwnersInv, Drafted, Status, OwnerOps
    <3> QED
      BY <1>2, <3>1, <3>2, <3>3
  <2> QED
    BY <2>2, <2>3, <2>4, <2>5 DEF OwnersInv
<1>3. ASSUME NEW p \in Procs, NEW e \in Envelopes, CreateStep(p, e)
      PROVE  OwnersInv' /\ RunningIsComplete'
  <2>1. /\ task'[p].op = "document"
        /\ task'[p].env = e
        /\ \A q \in Procs \ {p} : task'[q] = task[q]
    BY <1>3, SigningMoves DEF Moved
  <2>2. /\ envelope[e].status = "absent"
        /\ envelope' = [envelope EXCEPT ![e].status = "draft"]
    BY <1>3 DEF CreateStep, CreateEnvelope, SetStatusOf, Status
  <2>3. /\ envelope'[e].status = "draft"
        /\ \A f \in Envelopes \ {e} : envelope'[f] = envelope[f]
    BY <2>2, <1>t DEF EnvelopeRecord
  <2>4. \A q \in Procs \ {p} : task[q].op \in OwnerOps => task[q].env # e
    BY <2>2 DEF OwnersInv, Drafted, Status
  <2>5. \A q \in Procs \ {p} : Drafted(q)'
    BY <2>1, <2>3, <2>4, <1>r DEF OwnersInv, Drafted, Status
  <2>6. Drafted(p)'
    BY <2>1, <2>3 DEF Drafted, Status
  <2>7. OwnersInv'
    BY <2>1, <2>4, <2>5, <2>6 DEF OwnersInv
  <2>8. RunningIsComplete'
    BY <2>3, <1>r DEF RunningIsComplete, InStatus, Status
  <2> QED
    BY <2>7, <2>8
<1>4. ASSUME NEW p \in Procs, NEW e \in Envelopes,
             task[p].op \in OwnerOps, task[p].env = e, task'[p].env = e,
             \A q \in Procs \ {p} : task'[q] = task[q],
             envelope'[e].status = "draft",
             \A f \in Envelopes \ {e} : envelope'[f] = envelope[f],
             Drafted(p)'
      PROVE  OwnersInv' /\ RunningIsComplete'
  <2>1. \A q \in Procs \ {p} : task[q].op \in OwnerOps => task[q].env # e
    BY <1>4 DEF OwnersInv
  <2>2. \A q \in Procs \ {p} : Drafted(q)'
    BY <1>4, <2>1, <1>r DEF OwnersInv, Drafted, Status
  <2>3. OwnersInv'
    BY <1>4, <2>1, <2>2 DEF OwnersInv
  <2>4. RunningIsComplete'
    BY <1>4, <1>r DEF RunningIsComplete, InStatus, Status
  <2> QED
    BY <2>3, <2>4
<1>5. ASSUME NEW p \in Procs, DocumentStep(p)
      PROVE  OwnersInv' /\ RunningIsComplete'
  <2> DEFINE e == task[p].env
             n == rendered[task[p].path]
  <2>1. /\ task[p].op = "document"
        /\ task'[p].op = "envelope_write"
        /\ task'[p].env = e
        /\ \A q \in Procs \ {p} : task'[q] = task[q]
    BY <1>5, SigningMoves, Zenon DEF Moved, DocumentStep, At
  <2>2. e \in Envelopes
    BY <2>1 DEF OwnersInv, Drafted, OwnerOps
  <2>3. AddDocument(e, n)
    BY <1>5 DEF DocumentStep
  <2> HIDE DEF n
  <2>4. /\ envelope'[e].status = "draft"
        /\ envelope'[e].hasDocument
        /\ \A f \in Envelopes \ {e} : envelope'[f] = envelope[f]
    <3> HIDE DEF e
    <3> QED
      BY <2>2, <2>3, <1>t DEF AddDocument, EnvelopeRecord, Status
  <2>5. Drafted(p)'
    BY <2>1, <2>2, <2>4 DEF Drafted, Status
  <2> QED
    BY <1>4, <2>1, <2>2, <2>4, <2>5 DEF OwnerOps
<1>6. ASSUME NEW p \in Procs, LessorStep(p)
      PROVE  OwnersInv' /\ RunningIsComplete'
  <2> DEFINE e == task[p].env
  <2>1. /\ task[p].op = "lessor"
        /\ task'[p].op = "lessee"
        /\ task'[p].env = e
        /\ \A q \in Procs \ {p} : task'[q] = task[q]
    BY <1>6, SigningMoves DEF Moved, LessorStep, At
  <2>2. e \in Envelopes /\ envelope[e].hasDocument
    BY <2>1 DEF OwnersInv, Drafted, OwnerOps
  <2>3. AddSigner(e, "lessor")
    BY <1>6 DEF LessorStep
  <2>4. /\ envelope'[e].status = "draft"
        /\ envelope'[e].hasDocument
        /\ "lessor" \in envelope'[e].signers
        /\ \A f \in Envelopes \ {e} : envelope'[f] = envelope[f]
    <3> HIDE DEF e
    <3> QED
      BY <2>2, <2>3, <1>t DEF AddSigner, EnvelopeRecord, Status
  <2>5. Drafted(p)'
    BY <2>1, <2>2, <2>4 DEF Drafted, Status
  <2> QED
    BY <1>4, <2>1, <2>2, <2>4, <2>5 DEF OwnerOps
<1>7. ASSUME NEW p \in Procs, LesseeStep(p)
      PROVE  OwnersInv' /\ RunningIsComplete'
  <2> DEFINE e == task[p].env
  <2>1. /\ task[p].op = "lessee"
        /\ task'[p].op \in {"rows_write", "rows_delete"}
        /\ task'[p].env = e
        /\ \A q \in Procs \ {p} : task'[q] = task[q]
    BY <1>7, SigningMoves DEF Moved, LesseeStep, At
  <2>2. /\ e \in Envelopes
        /\ envelope[e].hasDocument
        /\ "lessor" \in envelope[e].signers
    BY <2>1 DEF OwnersInv, Drafted, OwnerOps
  <2>3. AddSigner(e, "lessee")
    BY <1>7 DEF LesseeStep
  <2>4. /\ envelope'[e].status = "draft"
        /\ envelope'[e].hasDocument
        /\ "lessor" \in envelope'[e].signers
        /\ "lessee" \in envelope'[e].signers
        /\ \A f \in Envelopes \ {e} : envelope'[f] = envelope[f]
    <3> HIDE DEF e
    <3> QED
      BY <2>2, <2>3, <1>t DEF AddSigner, EnvelopeRecord, Status
  <2>5. Drafted(p)'
    BY <2>1, <2>2, <2>4 DEF Drafted, Status
  <2> QED
    BY <1>4, <2>1, <2>2, <2>4, <2>5 DEF OwnerOps
<1>8. ASSUME NEW p \in Procs, ActivateStep(p)
      PROVE  OwnersInv' /\ RunningIsComplete'
  <2> DEFINE e == task[p].env
  <2>1. /\ task[p].op = "activate"
        /\ task'[p].op = "notify"
        /\ \A q \in Procs \ {p} : task'[q] = task[q]
    BY <1>8, SigningMoves, Zenon DEF Moved, ActivateStep, At
  <2>2. /\ e \in Envelopes
        /\ envelope[e].hasDocument
        /\ {"lessor", "lessee"} \subseteq envelope[e].signers
        /\ e \in requests \cup purged
    BY <2>1 DEF OwnersInv, Drafted, OwnerOps
  <2>3. envelope' = [envelope EXCEPT ![e].status = "running"]
    BY <1>8 DEF ActivateStep, ActivateEnvelope, SetStatusOf
  <2>4. \A q \in Procs \ {p} : task[q].op \in OwnerOps => task[q].env # e
    BY <2>1 DEF OwnersInv, OwnerOps
  <2> HIDE DEF e
  <2>5. /\ envelope'[e].hasDocument
        /\ envelope'[e].signers = Parties
        /\ \A f \in Envelopes \ {e} : envelope'[f] = envelope[f]
    BY <2>2, <2>3, <1>t DEF EnvelopeRecord, Parties
  <2>6. \A q \in Procs \ {p} : Drafted(q)'
    BY <2>1, <2>4, <2>5, <1>r DEF OwnersInv, Drafted, Status
  <2>7. OwnersInv'
    BY <2>1, <2>6 DEF OwnersInv, Drafted, OwnerOps
  <2>8. RunningIsComplete'
    BY <2>2, <2>5, <1>r DEF RunningIsComplete, InStatus, Status
  <2> QED
    BY <2>7, <2>8
<1>9. ASSUME Stay,
             \A f \in Envelopes :
               \/ envelope'[f] = envelope[f]
               \/ /\ envelope'[f].hasDocument = envelope[f].hasDocument
                  /\ envelope'[f].signers = envelope[f].signers
                  /\ \/ envelope'[f].status = "deleted"
                     \/ /\ envelope[f].status = "running"
                        /\ envelope'[f].status \in {"closed", "canceled"}
      PROVE  OwnersInv' /\ RunningIsComplete'
  <2>1. OwnersInv'
    BY <1>9, <1>r DEF OwnersInv, Drafted, Status
  <2>2. RunningIsComplete'
    BY <1>9, <1>r DEF RunningIsComplete, InStatus, Status
  <2> QED
    BY <2>1, <2>2
<1>s. ASSUME NEW e, NEW s, SetStatusOf(e, s)
      PROVE  \A f \in Envelopes :
               \/ envelope'[f] = envelope[f]
               \/ /\ f = e
                  /\ envelope'[f].status = s
                  /\ envelope'[f].hasDocument = envelope[f].hasDocument
                  /\ envelope'[f].signers = envelope[f].signers
  BY <1>s, <1>t DEF SetStatusOf, EnvelopeRecord
<1>10. ASSUME NEW p \in Procs, CancelEnvelope(p)
       PROVE  OwnersInv' /\ RunningIsComplete'
  <2>1. Stay
    BY <1>10, OtherMoves DEF Moved, OwnerOps
  <2>2. CASE UNCHANGED envelope
    BY <1>1, <2>1, <2>2
  <2>3. CASE SetStatusOf(task[p].env, "deleted")
    BY <1>9, <1>s, <2>1, <2>3
  <2> QED
    BY <1>10, <2>2, <2>3 DEF CancelEnvelope, DeleteEnvelope
<1>11. CASE Signers
  <2>1. PICK e \in Envelopes : Close(e) \/ Lapse(e)
    BY <1>11 DEF Signers
  <2>2. /\ envelope[e].status = "running"
        /\ SetStatusOf(e, "closed") \/ SetStatusOf(e, "canceled")
    BY <2>1 DEF Close, Lapse, Status
  <2>3. Stay
    BY <1>11 DEF Signers
  <2> QED
    BY <1>9, <1>s, <2>2, <2>3
<1>12. CASE UNCHANGED envelope
  BY <1>1, <1>2, <1>3, <1>5, <1>6, <1>7, <1>12, OwnersStay DEF OwnerStep
<1> QED
  BY <1>3, <1>5, <1>6, <1>7, <1>8, <1>10, <1>11, <1>12, EnvelopeStep

\* An envelope that closed stays so; only a document that is added changes
\* its text; and none that is absent changes while nobody signs.
LEMMA EnvelopeEffect ==
  ASSUME TypeOK, [Next]_vars, NEW e \in Envelopes
  PROVE  /\ envelope[e].status = "closed" => envelope'[e].status = "closed"
         /\ \/ /\ envelope'[e].hasDocument = envelope[e].hasDocument
               /\ envelope'[e].text = envelope[e].text
            \/ \E p \in Procs :
                 DocumentStep(p) /\ envelope'[e].text = rendered[task[p].path]
         /\ /\ \A p \in Procs : task[p].op \notin SigningOps
            /\ envelope[e].status = "absent"
            => envelope'[e] = envelope[e]
<1>t. envelope \in [Envelopes -> EnvelopeRecord]
  BY DEF TypeOK, EnvelopesTypeOK
<1> DEFINE Kept == /\ envelope'[e].hasDocument = envelope[e].hasDocument
                   /\ envelope'[e].text = envelope[e].text
<1>s. ASSUME NEW f, NEW s, SetStatusOf(f, s)
      PROVE  Kept /\ (envelope'[e] = envelope[e] \/ e = f)
  BY <1>s, <1>t DEF SetStatusOf, EnvelopeRecord
<1>a. ASSUME NEW f, NEW who, AddSigner(f, who)
      PROVE  /\ Kept
             /\ envelope'[e].status = envelope[e].status
  BY <1>a, <1>t DEF AddSigner, EnvelopeRecord
<1>1. CASE UNCHANGED envelope
  BY <1>1
<1>2. CASE Signers
  <2>1. PICK f \in Envelopes : Close(f) \/ Lapse(f)
    BY <1>2 DEF Signers
  <2>2. /\ envelope[f].status = "running"
        /\ SetStatusOf(f, "closed") \/ SetStatusOf(f, "canceled")
    BY <2>1 DEF Close, Lapse, Status
  <2> QED
    BY <2>2, <1>s
<1>3. ASSUME NEW p \in Procs, NEW f \in Envelopes, CreateStep(p, f)
      PROVE  /\ task[p].op \in SigningOps
             /\ Kept
             /\ envelope'[e] = envelope[e] \/ envelope[e].status = "absent"
  BY <1>3, <1>s DEF CreateStep, CreateEnvelope, Status, At, SigningOps
<1>4. ASSUME NEW p \in Procs, DocumentStep(p)
      PROVE  /\ task[p].op \in SigningOps
             /\ envelope'[e].status = envelope[e].status
             /\ Kept \/ envelope'[e].text = rendered[task[p].path]
  <2> DEFINE f == task[p].env
             n == rendered[task[p].path]
  <2>1. AddDocument(f, n) /\ task[p].op \in SigningOps
    BY <1>4 DEF DocumentStep, At, SigningOps
  <2> HIDE DEF f, n
  <2>2. /\ envelope'[e].status = envelope[e].status
        /\ Kept \/ envelope'[e].text = n
    <3>1. envelope' = [envelope EXCEPT ![f].hasDocument = TRUE,
                                       ![f].text = n]
      BY <2>1 DEF AddDocument
    <3>2. CASE e = f
      BY <3>1, <3>2, <1>t DEF EnvelopeRecord
    <3>3. CASE e # f
      BY <3>1, <3>3, <1>t
    <3> QED
      BY <3>2, <3>3
  <2> QED
    BY <2>1, <2>2 DEF n
<1>5. ASSUME NEW p \in Procs, LessorStep(p) \/ LesseeStep(p)
      PROVE  /\ task[p].op \in SigningOps
             /\ Kept
             /\ envelope'[e].status = envelope[e].status
  BY <1>5, <1>a DEF LessorStep, LesseeStep, At, SigningOps
<1>6. ASSUME NEW p \in Procs, ActivateStep(p)
      PROVE  /\ task[p].op \in SigningOps
             /\ Kept
             /\ envelope'[e] = envelope[e] \/ envelope[e].status = "draft"
  BY <1>6, <1>s DEF ActivateStep, ActivateEnvelope, Status, At, SigningOps
<1>7. ASSUME NEW p \in Procs, CancelEnvelope(p)
      PROVE  /\ Kept
             /\ \/ envelope'[e] = envelope[e]
                \/ envelope[e].status \in {"draft", "running"}
  BY <1>7, <1>s DEF CancelEnvelope, DeleteEnvelope, Status
<1> HIDE DEF Kept
<1>8. ASSUME NEW p \in Procs, LessorStep(p) \/ LesseeStep(p)
      PROVE  /\ task[p].op \in SigningOps
             /\ Kept
             /\ envelope'[e].status = envelope[e].status
  BY <1>5, <1>8
<1> USE DEF Kept
<1> QED
  BY <1>1, <1>2, <1>3, <1>4, <1>8, <1>6, <1>7, EnvelopeStep

-----------------------------------------------------------------------------
(* The files.                                                              *)

\* What was withdrawn or opened again is remembered.
LEMMA HistoryKept ==
  ASSUME TypeOK, [Next]_vars
  PROVE  /\ withdrawn => withdrawn'
         /\ reopened => reopened'
         /\ used \subseteq used'
<1> USE DEF TypeOK
<1>1. withdrawn' = withdrawn \/ withdrawn' = TRUE
  BY ContractStep DEF Prepare, Edit, Update, PdfWrite, EnvelopeWrite,
     CloseSave, CloseWrite, CancelWrite, StartRemove, RemoveRow, history
<1>3. reopened => reopened'
  <2>1. ASSUME NEW p \in Procs,
               \/ PdfWrite(p) \/ EnvelopeWrite(p) \/ CloseSave(p)
               \/ CloseWrite(p) \/ CancelWrite(p) \/ StartRemove(p)
               \/ RemoveRow(p)
        PROVE  UNCHANGED reopened
    BY <2>1 DEF PdfWrite, EnvelopeWrite, CloseSave, CloseWrite, CancelWrite,
                StartRemove, RemoveRow, history
  <2>2. CASE Prepare \/ Edit \/ \E s \in Updates : Update(s)
    BY <2>2 DEF Prepare, Edit, Update, history
  <2> QED
    BY <2>1, <2>2, ContractStep
<1>2. used \subseteq used'
  BY StorageStep DEF storageVars, PdfUpload, CloseStore, CancelFiles,
     RemoveFiles, UploadFile, DeleteFilesOrLog, DeleteFiles
<1> QED
  BY <1>1, <1>2, <1>3

\* Before a withdrawal nothing is deleted.
LEMMA StoredStep == TypeOK /\ StoredInv /\ [Next]_vars => StoredInv'
<1> SUFFICES ASSUME TypeOK, StoredInv, [Next]_vars, ~withdrawn'
             PROVE  /\ stored' = used'
                    /\ \A p \in Procs :
                         task'[p].op \notin {"cancel_files", "remove_files",
                                             "remove_row"}
  BY DEF StoredInv
<1>h. /\ ~withdrawn
      /\ stored = used
      /\ \A p \in Procs :
           task[p].op \notin {"cancel_files", "remove_files", "remove_row"}
  BY HistoryKept DEF StoredInv
<1>1. stored' = used'
  BY <1>h, StorageStep, Zenon DEF storageVars, PdfUpload, CloseStore,
     UploadFile, CancelFiles, RemoveFiles, At
<1>2. ASSUME NEW p \in Procs, NEW op, NEW by, NEW path,
             Moved(p, op, by, path),
             op \notin {"cancel_files", "remove_files", "remove_row"}
      PROVE  \A q \in Procs :
               task'[q].op \notin {"cancel_files", "remove_files",
                                   "remove_row"}
  BY <1>h, <1>2 DEF Moved
<1>3. ASSUME NEW p \in Procs, Begin(p)
      PROVE  \A q \in Procs :
               task'[q].op \notin {"cancel_files", "remove_files",
                                   "remove_row"}
  <2>1. ~StartRemove(p)
    BY DEF StartRemove
  <2> QED
    BY <1>2, <1>3, <2>1, BeginMoves DEF Begin
<1>4. ASSUME NEW p \in Procs, Step(p)
      PROVE  \A q \in Procs :
               task'[q].op \notin {"cancel_files", "remove_files",
                                   "remove_row"}
  <2>1. ~CancelWrite(p) /\ ~RemoveFiles(p) /\ ~CancelFiles(p)
        /\ ~RemoveRow(p)
    BY <1>h DEF CancelWrite, RemoveFiles, CancelFiles, RemoveRow, At
  <2>2. CASE \/ JobCheck(p) \/ RequestCheck(p) \/ PdfRead(p) \/ PdfWrite(p)
             \/ (\E f \in Files : PdfUpload(p, f))
             \/ (\E e \in Envelopes : CreateStep(p, e)) \/ DocumentStep(p)
             \/ EnvelopeWrite(p) \/ LessorStep(p) \/ LesseeStep(p)
             \/ RowsDelete(p) \/ RowsWrite(p) \/ ActivateStep(p)
             \/ NotifyStep(p) \/ SigningFails(p)
    BY <1>2, <2>2, SigningMoves
  <2>3. CASE \/ CloseRead(p) \/ CancelEnvelope(p)
             \/ (\E f \in Files : CloseStore(p, f)) \/ CloseSave(p)
             \/ CloseWithoutFile(p) \/ CloseWrite(p) \/ OtherThrows(p)
    BY <1>2, <2>3, OtherMoves
  <2> QED
    BY <1>4, <2>1, <2>2, <2>3 DEF Step
<1>5. ASSUME Crash
      PROVE  \A q \in Procs :
               task'[q].op \notin {"cancel_files", "remove_files",
                                   "remove_row"}
  BY <1>5, <1>h, CrashTasks, Idle
<1> QED
  BY <1>1, <1>3, <1>4, <1>5, <1>h, HandlerStep

\* Names are of files that were uploaded.
LEMMA NamesStep == TypeOK /\ NamesInv /\ [Next]_vars => NamesInv'
<1> SUFFICES ASSUME TypeOK, NamesInv, [Next]_vars PROVE NamesInv'
  OBVIOUS
<1>t. contract \in [status : ContractStatus, path : Files \cup {None},
                    signed : Files \cup {None},
                    env : Envelopes \cup {NoEnvelope}]
  BY DEF TypeOK
<1>u. used \subseteq used'
  BY HistoryKept
<1>1. contract'.path \in used' \cup {None}
  <2>1. \/ contract'.path = contract.path
        \/ \E p \in Procs : contract'.path = task[p].path
    BY <1>t, ContractStep DEF contractVars, Prepare, Edit, Update, PdfWrite,
       EnvelopeWrite, CloseSave, CloseWrite, CancelWrite, StartRemove,
       RemoveRow
  <2> QED
    BY <2>1, <1>u DEF NamesInv
<1>2. ASSUME NEW p \in Procs, NEW op, NEW by,
             NEW path \in used' \cup {None}, Moved(p, op, by, path)
      PROVE  \A q \in Procs : task'[q].path \in used' \cup {None}
  BY <1>2, <1>u DEF Moved, NamesInv
<1>n. /\ contract.path \in used' \cup {None}
      /\ \A p \in Procs : task[p].path \in used' \cup {None}
      /\ None \in used' \cup {None}
  BY <1>u DEF NamesInv
<1>3. ASSUME NEW p \in Procs, Begin(p)
      PROVE  \A q \in Procs : task'[q].path \in used' \cup {None}
  BY <1>2, <1>3, <1>n, BeginMoves DEF Begin
<1>4. ASSUME NEW p \in Procs, Step(p)
      PROVE  \A q \in Procs : task'[q].path \in used' \cup {None}
  <2>1. ASSUME NEW f \in Files, PdfUpload(p, f)
        PROVE  \A q \in Procs : task'[q].path \in used' \cup {None}
    <3>1. f \in used' \cup {None}
      BY <2>1 DEF PdfUpload, UploadFile
    <3> QED
      BY <1>2, <2>1, <3>1, SigningMoves
  <2>2. CASE \/ JobCheck(p) \/ RequestCheck(p) \/ PdfRead(p) \/ PdfWrite(p)
             \/ (\E e \in Envelopes : CreateStep(p, e)) \/ DocumentStep(p)
             \/ EnvelopeWrite(p) \/ LessorStep(p) \/ LesseeStep(p)
             \/ RowsDelete(p) \/ RowsWrite(p) \/ ActivateStep(p)
             \/ NotifyStep(p) \/ SigningFails(p)
    BY <1>2, <1>n, <2>2, SigningMoves
  <2>3. CASE \/ CloseRead(p) \/ CancelEnvelope(p) \/ CancelWrite(p)
             \/ RemoveFiles(p) \/ (\E f \in Files : CloseStore(p, f))
             \/ CloseSave(p) \/ CloseWithoutFile(p) \/ CloseWrite(p)
             \/ CancelFiles(p) \/ RemoveRow(p) \/ OtherThrows(p)
    BY <1>2, <1>n, <2>3, OtherMoves
  <2> QED
    BY <1>4, <2>1, <2>2, <2>3 DEF Step
<1>5. ASSUME Crash
      PROVE  \A q \in Procs : task'[q].path \in used' \cup {None}
  BY <1>5, <1>n, CrashTasks, Idle
<1> QED
  BY <1>1, <1>3, <1>4, <1>5, <1>n, HandlerStep DEF NamesInv

-----------------------------------------------------------------------------
(* The text, the status, and what was signed.                              *)

\* Until it is first prepared for the signatures nothing of them happens.
LEMMA QuietStep ==
  TypeOK /\ JobInv /\ QuietInv /\ [Next]_vars => QuietInv'
<1> SUFFICES ASSUME TypeOK, JobInv, QuietInv, [Next]_vars, ~reopened',
                    contract'.status = "EM_ELABORACAO"
             PROVE  Quiet'
  BY DEF QuietInv
<1>t. /\ contract \in [status : ContractStatus, path : Files \cup {None},
                       signed : Files \cup {None},
                       env : Envelopes \cup {NoEnvelope}]
      /\ reopened \in BOOLEAN
      /\ task \in [Procs -> Task]
  BY DEF TypeOK, Task
<1>r. ~reopened
  BY HistoryKept
<1>p. ~Prepare
  BY <1>t DEF Prepare
<1> DEFINE Still ==
      /\ contract.status = "EM_ELABORACAO"
      /\ contract'.path = contract.path \/ \E p \in Procs : PdfWrite(p)
<1>1. Still
  <2>1. CASE UNCHANGED <<contractVars, reopened, withdrawn>>
    BY <2>1 DEF contractVars
  <2>2. CASE Edit
    BY <2>2, <1>t DEF Edit
  <2>3. ASSUME NEW s \in Updates, Update(s)
        PROVE  FALSE
    BY <2>3 DEF Update
  <2>4. ASSUME NEW p \in Procs,
               PdfWrite(p) \/ EnvelopeWrite(p) \/ CloseSave(p)
        PROVE  Still
    BY <2>4, <1>t DEF PdfWrite, EnvelopeWrite, CloseSave
  <2>5. ASSUME NEW p \in Procs,
               \/ CloseWrite(p) \/ CancelWrite(p) \/ StartRemove(p)
               \/ RemoveRow(p)
        PROVE  Still
    BY <2>5, <1>t DEF CloseWrite, CancelWrite, StartRemove, RemoveRow,
                      contractVars
  <2> QED
    BY <1>p, <2>1, <2>2, <2>3, <2>4, <2>5, ContractStep
<1>q. Quiet
  BY <1>r, <1>1 DEF QuietInv
<1>s. /\ job.state = "none"
      /\ \A p \in Procs : task[p].op \notin SigningOps
      /\ \A p \in Procs : task[p].by # "job"
      /\ contract.path = None
      /\ \A e \in Envelopes :
           envelope[e].status = "absent" /\ ~envelope[e].hasDocument
  BY <1>q DEF Quiet, JobInv, Status
<1>n. ASSUME NEW p \in Procs
      PROVE  /\ ~StartJob(p) /\ ~StartRequest(p)
             /\ ~JobCheck(p) /\ ~RequestCheck(p) /\ ~PdfRead(p)
             /\ ~PdfWrite(p) /\ ~(\E f \in Files : PdfUpload(p, f))
             /\ ~(\E e \in Envelopes : CreateStep(p, e)) /\ ~DocumentStep(p)
             /\ ~EnvelopeWrite(p) /\ ~LessorStep(p) /\ ~LesseeStep(p)
             /\ ~RowsDelete(p) /\ ~RowsWrite(p) /\ ~ActivateStep(p)
             /\ ~NotifyStep(p) /\ ~SigningFails(p)
  BY <1>s, <1>1 DEF StartJob, StartRequest, JobCheck, RequestCheck, PdfRead,
     PdfWrite, PdfUpload, CreateStep, DocumentStep, EnvelopeWrite,
     LessorStep, LesseeStep, RowsDelete, RowsWrite, ActivateStep, NotifyStep,
     SigningFails, At, SigningOps
<1>2. job'.state = "none"
  <2>1. CASE Crash
    BY <2>1, <1>s DEF Crash
  <2>2. ~JobFindsNothing
    BY <1>s DEF JobFindsNothing
  <2> QED
    BY <1>p, <1>n, <1>s, <2>1, <2>2, JobStep
<1>3. contract'.path = None
  BY <1>1, <1>n, <1>s
<1>4. \A e \in Envelopes :
        envelope'[e].status = "absent" /\ ~envelope'[e].hasDocument
  BY <1>s, EnvelopeEffect
<1>m. ASSUME NEW p \in Procs, NEW op, op \notin SigningOps, NEW by, NEW path,
             Moved(p, op, by, path)
      PROVE  \A q \in Procs : task'[q].op \notin SigningOps
  BY <1>m, <1>s DEF Moved
<1>5. \A q \in Procs : task'[q].op \notin SigningOps
  <2>1. ASSUME NEW p \in Procs, Begin(p)
        PROVE  \A q \in Procs : task'[q].op \notin SigningOps
    BY <2>1, <1>m, <1>n, BeginMoves DEF Begin, SigningOps
  <2>2. ASSUME NEW p \in Procs, Step(p)
        PROVE  \A q \in Procs : task'[q].op \notin SigningOps
    <3>1. \/ CloseRead(p) \/ CancelEnvelope(p) \/ CancelWrite(p)
          \/ RemoveFiles(p) \/ (\E f \in Files : CloseStore(p, f))
          \/ CloseSave(p) \/ CloseWithoutFile(p) \/ CloseWrite(p)
          \/ CancelFiles(p) \/ RemoveRow(p) \/ OtherThrows(p)
      BY <2>2, <1>n DEF Step
    <3> QED
      BY <3>1, <1>m, OtherMoves DEF SigningOps
  <2>3. ASSUME Crash
        PROVE  \A q \in Procs : task'[q].op \notin SigningOps
    BY <2>3, <1>s, CrashTasks, Idle DEF SigningOps
  <2> QED
    BY <1>s, <2>1, <2>2, <2>3, HandlerStep
<1> QED
  BY <1>2, <1>3, <1>4, <1>5 DEF Quiet, Status

\* An envelope that closed is there while its event is acted upon.
LEMMA ClosedStep == TypeOK /\ ClosedInv /\ [Next]_vars => ClosedInv'
<1> SUFFICES ASSUME TypeOK, ClosedInv, [Next]_vars PROVE ClosedInv'
  OBVIOUS
<1>t. /\ contract \in [status : ContractStatus, path : Files \cup {None},
                       signed : Files \cup {None},
                       env : Envelopes \cup {NoEnvelope}]
      /\ reopened \in BOOLEAN
  BY DEF TypeOK
<1>c. InStatus({"closed"}) # {} => InStatus({"closed"})' # {}
  BY EnvelopeEffect DEF InStatus, Status
<1> DEFINE Told == \A q \in Procs :
                     task'[q].op \in CloseOps => InStatus({"closed"})' # {}
<1>m. ASSUME NEW p \in Procs, NEW op, NEW by, NEW path,
             Moved(p, op, by, path),
             op \in CloseOps => InStatus({"closed"}) # {}
      PROVE  Told
  BY <1>m, <1>c DEF Moved, ClosedInv
<1>1. ASSUME NEW p \in Procs, Begin(p)
      PROVE  Told
  <2>1. ASSUME NEW e \in Envelopes, StartClose(p, e)
        PROVE  Told
    <3>1. InStatus({"closed"}) # {}
      BY <2>1 DEF StartClose, InStatus
    <3> QED
      BY <2>1, <3>1, <1>m, BeginMoves
  <2>2. CASE StartJob(p) \/ StartRequest(p) \/ StartCancel(p)
             \/ StartRemove(p)
    BY <2>2, <1>m, BeginMoves DEF CloseOps
  <2> QED
    BY <1>1, <2>1, <2>2 DEF Begin
<1>2. ASSUME NEW p \in Procs, Step(p)
      PROVE  Told
  <2>1. CASE \/ JobCheck(p) \/ RequestCheck(p) \/ PdfRead(p) \/ PdfWrite(p)
             \/ (\E f \in Files : PdfUpload(p, f))
             \/ (\E e \in Envelopes : CreateStep(p, e)) \/ DocumentStep(p)
             \/ EnvelopeWrite(p) \/ LessorStep(p) \/ LesseeStep(p)
             \/ RowsDelete(p) \/ RowsWrite(p) \/ ActivateStep(p)
             \/ NotifyStep(p) \/ SigningFails(p)
    BY <2>1, <1>m, SigningMoves DEF CloseOps
  <2>2. CASE \/ CancelEnvelope(p) \/ CancelWrite(p) \/ CancelFiles(p)
             \/ RemoveFiles(p) \/ RemoveRow(p) \/ OtherThrows(p)
             \/ CloseWrite(p)
    BY <2>2, <1>m, OtherMoves DEF CloseOps
  <2>3. CASE \/ (\E f \in Files : CloseStore(p, f)) \/ CloseSave(p)
             \/ CloseWithoutFile(p) \/ CloseRead(p)
    <3>1. InStatus({"closed"}) # {}
      BY <2>3 DEF CloseStore, CloseSave, CloseWithoutFile, CloseRead, At,
         CloseOps, ClosedInv
    <3> QED
      BY <2>3, <3>1, <1>m, OtherMoves
  <2> QED
    BY <1>2, <2>1, <2>2, <2>3 DEF Step
<1>3. Told
  <2>1. CASE UNCHANGED task
    BY <2>1, <1>c DEF ClosedInv
  <2>2. CASE Crash
    BY <2>2, <1>c, CrashTasks, Idle DEF ClosedInv, CloseOps
  <2> QED
    BY <1>1, <1>2, <2>1, <2>2, HandlerStep
<1>4. ActiveWasSigned'
  <2> SUFFICES ASSUME contract'.status = "ATIVO", ~reopened'
               PROVE  InStatus({"closed"})' # {}
    BY DEF ActiveWasSigned
  <2>1. ~reopened
    BY HistoryKept
  <2>2. CASE contract.status = "ATIVO"
    BY <1>c, <2>1, <2>2 DEF ClosedInv, ActiveWasSigned
  <2>3. CASE \E p \in Procs : CloseWrite(p)
    BY <1>c, <2>3 DEF CloseWrite, At, CloseOps, ClosedInv
  <2>4. CASE UNCHANGED <<contractVars, reopened, withdrawn>> \/ Prepare
             \/ Edit \/ \E s \in Updates : Update(s)
    BY <2>2, <2>4, <1>t DEF contractVars, Prepare, Edit, Update
  <2>5. ASSUME NEW p \in Procs,
               \/ PdfWrite(p) \/ EnvelopeWrite(p) \/ CloseSave(p)
               \/ CancelWrite(p) \/ StartRemove(p) \/ RemoveRow(p)
        PROVE  contract.status = "ATIVO"
    BY <2>5, <1>t DEF PdfWrite, EnvelopeWrite, CloseSave, CancelWrite,
                      StartRemove, RemoveRow, contractVars
  <2> QED
    BY <2>2, <2>3, <2>4, <2>5, ContractStep
<1> QED
  BY <1>3, <1>4 DEF ClosedInv

\* Unless the contract was opened again, what was rendered, sent or is on
\* its way is the text as it stands.
LEMMA TextStep ==
  TypeOK /\ QuietInv /\ NamesInv /\ TextInv /\ [Next]_vars => TextInv'
<1> SUFFICES ASSUME TypeOK, QuietInv, NamesInv, TextInv, [Next]_vars,
                    ~reopened'
             PROVE  /\ contract'.path # None =>
                         rendered'[contract'.path] = text'
                    /\ \A e \in Envelopes :
                         envelope'[e].hasDocument => envelope'[e].text = text'
                    /\ \A p \in Procs :
                         /\ task'[p].op = "pdf_upload" => task'[p].text = text'
                         /\ task'[p].op \in SigningOps /\ task'[p].path # None
                              => rendered'[task'[p].path] = text'
  BY DEF TextInv
<1>t. /\ contract \in [status : ContractStatus, path : Files \cup {None},
                       signed : Files \cup {None},
                       env : Envelopes \cup {NoEnvelope}]
      /\ reopened \in BOOLEAN
      /\ task \in [Procs -> Task]
      /\ rendered \in [Files -> Nat]
      /\ used \subseteq Files
      /\ stored \subseteq used
  BY DEF TypeOK, Task, StorageTypeOK
<1>r. ~reopened
  BY HistoryKept
<1>x. /\ contract.path # None => rendered[contract.path] = text
      /\ \A e \in Envelopes :
           envelope[e].hasDocument => envelope[e].text = text
      /\ \A p \in Procs :
           /\ task[p].op = "pdf_upload" => task[p].text = text
           /\ task[p].op \in SigningOps /\ task[p].path # None
                => rendered[task[p].path] = text
  BY <1>r DEF TextInv
<1>n. /\ contract.path \in used \cup {None}
      /\ \A p \in Procs : task[p].path \in used \cup {None}
      /\ None \notin used
  BY <1>t, StorageAssumption DEF NamesInv
<1>1. CASE Edit
  <2>1. contract.status = "EM_ELABORACAO"
    BY <1>1 DEF Edit
  <2>2. Quiet
    BY <1>r, <2>1 DEF QuietInv
  <2>3. /\ contract'.path = None
        /\ UNCHANGED <<rendered, task, envelope>>
    BY <1>1, <1>t, <2>2 DEF Edit, Quiet
  <2> QED
    BY <2>2, <2>3 DEF Quiet, SigningOps
<1>2. ASSUME ~Edit
      PROVE  UNCHANGED text
  <2>1. ASSUME NEW p \in Procs,
               \/ PdfWrite(p) \/ EnvelopeWrite(p) \/ CloseSave(p)
               \/ CloseWrite(p) \/ CancelWrite(p) \/ StartRemove(p)
               \/ RemoveRow(p)
        PROVE  UNCHANGED text
    BY <2>1 DEF PdfWrite, EnvelopeWrite, CloseSave, CloseWrite, CancelWrite,
                StartRemove, RemoveRow, contractVars
  <2> QED
    BY <1>2, <2>1, ContractStep DEF contractVars, Prepare, Update
<1>3. \A f \in used : rendered'[f] = rendered[f]
  <2>1. ASSUME NEW p \in Procs, NEW f \in Files, PdfUpload(p, f)
        PROVE  \A g \in used : rendered'[g] = rendered[g]
    BY <2>1, <1>t DEF PdfUpload, UploadFile
  <2> QED
    BY <2>1, StorageStep DEF CloseStore, CancelFiles, RemoveFiles
<1>4. ASSUME UNCHANGED text
      PROVE  contract'.path # None => rendered'[contract'.path] = text'
  <2>1. \/ contract'.path = contract.path
        \/ \E p \in Procs :
             task[p].op \in SigningOps /\ contract'.path = task[p].path
    <3>1. ASSUME NEW p \in Procs, PdfWrite(p)
          PROVE  task[p].op \in SigningOps /\ contract'.path = task[p].path
      BY <3>1, <1>t DEF PdfWrite, At, SigningOps
    <3>2. ASSUME NEW p \in Procs,
                 \/ EnvelopeWrite(p) \/ CloseSave(p) \/ CloseWrite(p)
                 \/ CancelWrite(p) \/ StartRemove(p) \/ RemoveRow(p)
          PROVE  contract'.path = contract.path
      BY <3>2, <1>t DEF EnvelopeWrite, CloseSave, CloseWrite, CancelWrite,
                        StartRemove, RemoveRow, contractVars
    <3>3. CASE Prepare \/ Edit \/ \E s \in Updates : Update(s)
      BY <3>3, <1>t DEF Prepare, Edit, Update
    <3> QED
      BY <3>1, <3>2, <3>3, ContractStep DEF contractVars
  <2> QED
    BY <1>3, <1>4, <1>n, <1>x, <2>1
<1>5. ASSUME UNCHANGED text
      PROVE  \A e \in Envelopes :
               envelope'[e].hasDocument => envelope'[e].text = text'
  <2>1. ASSUME NEW p \in Procs, DocumentStep(p)
        PROVE  rendered[task[p].path] = text
    <3>1. /\ task[p].op \in SigningOps
          /\ task[p].path \in stored
      BY <2>1 DEF DocumentStep, Readable, At, SigningOps
    <3> QED
      BY <3>1, <1>t, <1>n, <1>x
  <2> QED
    BY <1>5, <1>x, <2>1, EnvelopeEffect
<1> DEFINE Current(p) ==
      /\ task'[p].op = "pdf_upload" => task'[p].text = text'
      /\ task'[p].op \in SigningOps /\ task'[p].path # None
           => rendered'[task'[p].path] = text'
<1>6. ASSUME UNCHANGED text, NEW q \in Procs, task'[q] = task[q]
      PROVE  Current(q)
  BY <1>3, <1>6, <1>n, <1>x
<1>7. ASSUME UNCHANGED text, NEW q \in Procs, task'[q].op \notin SigningOps
      PROVE  Current(q)
  BY <1>7 DEF SigningOps
<1>8. ASSUME UNCHANGED text, NEW q \in Procs, task'[q].op # "pdf_upload",
             \/ task'[q].path = contract.path
             \/ task'[q].path = None
             \/ task[q].op \in SigningOps /\ task'[q].path = task[q].path
      PROVE  Current(q)
  BY <1>3, <1>8, <1>n, <1>x
<1>9. ASSUME UNCHANGED text, NEW p \in Procs, Begin(p)
      PROVE  \A q \in Procs : Current(q)
  <2>1. /\ task'[p].op # "pdf_upload"
        /\ task'[p].path \in {contract.path, None}
        /\ \A q \in Procs \ {p} : task'[q] = task[q]
    BY <1>9, BeginMoves DEF Begin, Moved
  <2> HIDE DEF Current
  <2> QED
    BY <1>6, <1>8, <1>9, <2>1
<1>10. ASSUME UNCHANGED text, NEW p \in Procs, Step(p)
       PROVE  \A q \in Procs : Current(q)
  <2> HIDE DEF Current
  <2>1. ASSUME NEW op, op \notin SigningOps, NEW by, NEW path,
               Moved(p, op, by, path)
        PROVE  \A q \in Procs : Current(q)
    BY <1>6, <1>7, <1>10, <2>1 DEF Moved
  <2>2. ASSUME task[p].op \in SigningOps, NEW op, op # "pdf_upload", NEW by,
               NEW path \in {task[p].path, None}, Moved(p, op, by, path)
        PROVE  \A q \in Procs : Current(q)
    BY <1>6, <1>8, <1>10, <2>2 DEF Moved
  <2>3. CASE PdfRead(p)
    <3>1. /\ task[p].op \in SigningOps
          /\ task'[p].text = text'
          /\ task'[p].path = task[p].path
          /\ \A q \in Procs \ {p} : task'[q] = task[q]
      BY <1>10, <2>3, SigningMoves, Zenon DEF PdfRead, At, SigningOps, Moved
    <3>2. Current(p)
      BY <3>1, <1>3, <1>10, <1>n, <1>x DEF Current
    <3> QED
      BY <1>6, <1>10, <3>1, <3>2
  <2>4. ASSUME NEW f \in Files, PdfUpload(p, f)
        PROVE  \A q \in Procs : Current(q)
    <3>1. /\ task[p].op = "pdf_upload"
          /\ rendered'[f] = task[p].text
          /\ task'[p].op = "pdf_write"
          /\ task'[p].path = f
          /\ \A q \in Procs \ {p} : task'[q] = task[q]
      BY <2>4, <1>t, SigningMoves DEF PdfUpload, At, Moved
    <3>2. Current(p)
      BY <3>1, <1>10, <1>x DEF Current
    <3> QED
      BY <1>6, <1>10, <3>1, <3>2
  <2>5. CASE \/ JobCheck(p) \/ RequestCheck(p) \/ PdfWrite(p)
             \/ (\E e \in Envelopes : CreateStep(p, e)) \/ DocumentStep(p)
             \/ EnvelopeWrite(p) \/ LessorStep(p) \/ LesseeStep(p)
             \/ RowsDelete(p) \/ RowsWrite(p) \/ ActivateStep(p)
             \/ NotifyStep(p) \/ SigningFails(p)
    <3>1. task[p].op \in SigningOps
      BY <2>5 DEF JobCheck, RequestCheck, PdfWrite, CreateStep,
         DocumentStep, EnvelopeWrite, LessorStep, LesseeStep, RowsDelete,
         RowsWrite, ActivateStep, NotifyStep, SigningFails, At, SigningOps
    <3> QED
      BY <2>2, <2>5, <3>1, SigningMoves
  <2>6. CASE \/ CloseRead(p) \/ CancelEnvelope(p) \/ CancelWrite(p)
             \/ RemoveFiles(p) \/ (\E f \in Files : CloseStore(p, f))
             \/ CloseSave(p) \/ CloseWithoutFile(p) \/ CloseWrite(p)
             \/ CancelFiles(p) \/ RemoveRow(p) \/ OtherThrows(p)
    BY <2>1, <2>6, OtherMoves DEF SigningOps
  <2> QED
    BY <1>10, <2>3, <2>4, <2>5, <2>6 DEF Step
<1>11. ASSUME UNCHANGED text
       PROVE  \A q \in Procs : Current(q)
  <2> HIDE DEF Current
  <2>1. CASE UNCHANGED task
    BY <1>6, <1>11, <2>1
  <2>2. CASE Crash
    <3>1. \A q \in Procs : task'[q] = task[q] \/ task'[q].op = "idle"
      BY <2>2, CrashTasks, Idle
    <3>2. "idle" \notin SigningOps
      BY DEF SigningOps
    <3> QED
      BY <1>6, <1>7, <1>11, <3>1, <3>2
  <2> QED
    BY <1>9, <1>10, <1>11, <2>1, <2>2, HandlerStep
<1> QED
  BY <1>1, <1>2, <1>4, <1>5, <1>11

-----------------------------------------------------------------------------
(* The invariant, and what it says.                                        *)

\* The invariant holds in every state.
THEOREM Invariance == Spec => []IInv
<1>1. Init => IInv
  BY InitInv
<1>2. IInv /\ [Next]_vars => IInv'
  <2> SUFFICES ASSUME IInv, [Next]_vars PROVE IInv'
    OBVIOUS
  <2> USE DEF IInv
  <2>1. TypeOK'
    BY TypeStep
  <2>2. JobInv'
    BY JobInvStep
  <2>3. OwnersInv' /\ RunningIsComplete'
    BY OwnersStep
  <2>4. QuietInv'
    BY QuietStep
  <2>5. NamesInv'
    BY NamesStep
  <2>6. TextInv'
    BY TextStep
  <2>7. StoredInv'
    BY StoredStep
  <2>8. ClosedInv'
    BY ClosedStep
  <2> QED
    BY <2>1, <2>2, <2>3, <2>4, <2>5, <2>6, <2>7, <2>8
<1> QED
  BY <1>1, <1>2, PTL DEF Spec

\* Every variable keeps its type; no attempt of a signature job goes beyond
\* the last, nor is one taken back that was not counted.
THEOREM TypeCorrect == Spec => []TypeOK
<1>1. IInv => TypeOK
  BY DEF IInv
<1> QED
  BY <1>1, Invariance, PTL

\* An envelope that can be signed is complete and its rows are there,
\* whichever attempts and requests made envelopes next to it.
THEOREM RunningComplete == Spec => []RunningIsComplete
<1>1. IInv => RunningIsComplete
  BY DEF IInv
<1> QED
  BY <1>1, Invariance, PTL

\* Only a contract that was opened again can be signed in an older text.
THEOREM SignedTextCurrent == Spec => []SignedTextIsCurrent
<1>1. IInv => SignedTextIsCurrent
  BY DEF IInv, RunningIsComplete, TextInv, SignedTextIsCurrent, InStatus
<1> QED
  BY <1>1, Invariance, PTL

\* The file that the row names can be read until the contract is withdrawn.
THEOREM FileStored == Spec => []ContractFileIsStored
<1>1. IInv => ContractFileIsStored
  BY DEF IInv, NamesInv, StoredInv, ContractFileIsStored
<1> QED
  BY <1>1, Invariance, PTL

\* No contract becomes active by its signatures without an envelope that
\* closed.
THEOREM ActiveSigned == Spec => []ActiveWasSigned
<1>1. IInv => ActiveWasSigned
  BY DEF IInv, ClosedInv
<1> QED
  BY <1>1, Invariance, PTL

=============================================================================
