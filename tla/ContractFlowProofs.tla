------------------------- MODULE ContractFlowProofs -------------------------
(***************************************************************************)
(* Proofs about ContractFlow for any number of handlers, documents, edits  *)
(* and crashes, and any statuses that PUT may write.                       *)
(***************************************************************************)
EXTENDS ContractFlow, TLAPS

\* What a task is about to write was prepared when it read, and stays so.
Ready(t) ==
  /\ t.op = "edit_write" =>
       visited \cap {"EM_ELABORACAO", "SOLICITANDO_ALTERACAO"} # {}
  /\ t.op \in {"accept_write", "alter_write"} =>
       "AGUARDANDO_ACEITE_INQUILINO" \in visited
  /\ t.op = "review_write" =>
       "PENDENTE_DOCUMENTACAO" \in visited /\ ReviewTypes \subseteq Sent
  /\ t.op \in {"sign_write", "sign_enqueue"} =>
       "EM_ANALISE" \in visited /\ cleared
  /\ t.op = "cancel_write" => visited \ {"CANCELADO", "FINALIZADO"} # {}

TasksReady == \A p \in Procs : Ready(task[p])

\* What the statuses of the past say of the texts and the documents.
HistoryOK ==
  /\ contract \in visited
  /\ SignatureTypes \subseteq Approved => cleared
  /\ "PENDENTE_DOCUMENTACAO" \in visited \ put => accepted # {}
  /\ "EM_ANALISE" \in visited \ put =>
       ReviewTypes \subseteq Sent /\ "PENDENTE_DOCUMENTACAO" \in visited
  /\ enqueued => "EM_ANALISE" \in visited /\ cleared

\* Nothing of what tasks and history rely on is ever taken back.
Keeps ==
  /\ visited \subseteq visited'
  /\ put \subseteq put'
  /\ accepted \subseteq accepted'
  /\ Sent \subseteq Sent'
  /\ cleared => cleared'

IInv == TypeOK /\ TasksReady /\ HistoryOK /\ RequestHasReason

-----------------------------------------------------------------------------

\* The initial state satisfies the invariant.
LEMMA InitInv == Init => IInv
<1> SUFFICES ASSUME Init PROVE IInv
  OBVIOUS
<1>1. TypeOK
  BY DEF Init, TypeOK, ContractStatus, DocumentStatus, IdleTask, Blank, Task,
         Ops, DocumentType
<1>2. TasksReady
  BY DEF Init, TasksReady, Ready, IdleTask, Blank, Task
<1>3. Approved = {}
  BY DEF Init, Approved, TypesOf, Present, DocumentStatus
<1>4. HistoryOK
  BY <1>3 DEF Init, HistoryOK, SignatureTypes
<1> QED
  BY <1>1, <1>2, <1>4 DEF IInv, RequestHasReason, Init

\* Types are preserved by every step.
LEMMA TypeStep == TypeOK /\ [Next]_vars => TypeOK'
<1> SUFFICES ASSUME TypeOK, [Next]_vars
             PROVE  TypeOK'
  OBVIOUS
<1> USE DEF TypeOK, ContractStatus, DocumentType, DocumentStatus, Ops, Task,
            Blank, IdleTask, At, Start, Continue, Finish, vars, textVars,
            history
<1>1. ASSUME NEW p \in Procs, StartEdit(p)
      PROVE  TypeOK'
  BY <1>1 DEF StartEdit, TextTask, OnlyTask
<1>2. ASSUME NEW p \in Procs, StartAccept(p)
      PROVE  TypeOK'
  BY <1>2 DEF StartAccept, TextTask, OnlyTask
<1>3. ASSUME NEW p \in Procs, StartAlter(p)
      PROVE  TypeOK'
  BY <1>3 DEF StartAlter, OnlyTask
<1>4. ASSUME NEW p \in Procs, NEW ty \in DocumentType, StartUpload(p, ty)
      PROVE  TypeOK'
  <2>1. CASE ty \in Submitted
    <3>1. PICK r \in Present :
            task' = [task EXCEPT ![p] = UploadTask("upload_drop", ty, r)]
      BY <1>4, <2>1 DEF StartUpload
    <3> QED
      BY <1>4, <3>1 DEF StartUpload, UploadTask, Present, OnlyTask
  <2>2. CASE ty \notin Submitted
    <3>1. task' = [task EXCEPT ![p] = UploadTask("upload_create", ty, None)]
      BY <1>4, <2>2 DEF StartUpload
    <3> QED
      BY <1>4, <3>1 DEF StartUpload, UploadTask, OnlyTask
  <2> QED
    BY <2>1, <2>2
<1>5. ASSUME NEW p \in Procs, NEW r \in Rows, NEW s \in DocumentStatus,
             StartDecide(p, r, s)
      PROVE  TypeOK'
  BY <1>5 DEF StartDecide, OnlyTask
<1>6. ASSUME NEW p \in Procs, StartCancel(p)
      PROVE  TypeOK'
  BY <1>6 DEF StartCancel, OnlyTask
<1>7. ASSUME NEW p \in Procs, EditWrite(p)
      PROVE  TypeOK'
  BY <1>7 DEF EditWrite, SetStatus
<1>8. ASSUME NEW p \in Procs, AcceptWrite(p)
      PROVE  TypeOK'
  BY <1>8 DEF AcceptWrite, SetStatus
<1>9. ASSUME NEW p \in Procs, AlterWrite(p)
      PROVE  TypeOK'
  BY <1>9 DEF AlterWrite, SetStatus
<1>10. ASSUME NEW p \in Procs, UploadDrop(p)
      PROVE  TypeOK'
  <2>1. CASE task[p].row \in Present
    BY <1>10, <2>1 DEF UploadDrop, Proceed
  <2>2. CASE task[p].row \notin Present
    <3>1. Finish(p) /\ UNCHANGED doc
      BY <1>10, <2>2 DEF UploadDrop
    <3>2. UNCHANGED <<contract, text, reason, enqueued, visited, put, accepted,
                      cleared, crashes>>
      BY <1>10 DEF UploadDrop
    <3> QED
      BY <3>1, <3>2
  <2> QED
    BY <2>1, <2>2
<1>11. ASSUME NEW p \in Procs, UploadFail(p)
      PROVE  TypeOK'
  BY <1>11 DEF UploadFail, OnlyTask
<1>12. ASSUME NEW p \in Procs, NEW r \in Rows, UploadCreate(p, r)
      PROVE  TypeOK'
  BY <1>12 DEF UploadCreate
<1>13. ASSUME NEW p \in Procs, ReviewRead(p)
      PROVE  TypeOK'
  <2>1. CASE Proceed(p, "review_write")
    BY <1>13, <2>1 DEF ReviewRead, Proceed, OnlyTask
  <2>2. CASE Finish(p)
    BY <1>13, <2>2 DEF ReviewRead, OnlyTask
  <2> QED
    BY <1>13, <2>1, <2>2 DEF ReviewRead
<1>14. ASSUME NEW p \in Procs, ReviewWrite(p)
      PROVE  TypeOK'
  BY <1>14 DEF ReviewWrite, SetStatus
<1>15. ASSUME NEW p \in Procs, DecideWrite(p)
      PROVE  TypeOK'
  <2>1. UNCHANGED <<contract, text, reason, enqueued, visited, put, accepted,
                    crashes>>
    BY <1>15 DEF DecideWrite
  <2>2. cleared' \in BOOLEAN
    BY <1>15 DEF DecideWrite
  <2>3. CASE task[p].row \in Present
    <3>1. doc' = [doc EXCEPT ![task[p].row] = task[p].status]
      BY <1>15, <2>3 DEF DecideWrite
    <3>2. doc' \in [Rows -> DocumentStatus \cup {"absent", "deleted"}]
      BY <3>1
    <3>3. CASE Continue(p, Blank("sign_read"))
      BY <2>1, <2>2, <3>2, <3>3
    <3>4. CASE Finish(p)
      BY <2>1, <2>2, <3>2, <3>4
    <3> QED
      BY <1>15, <2>3, <3>3, <3>4 DEF DecideWrite
  <2>4. CASE task[p].row \notin Present
    <3>1. Finish(p) /\ UNCHANGED doc
      BY <1>15, <2>4 DEF DecideWrite
    <3> QED
      BY <2>1, <2>2, <3>1
  <2> QED
    BY <2>3, <2>4
<1>16. ASSUME NEW p \in Procs, SignRead(p)
      PROVE  TypeOK'
  <2>1. CASE Proceed(p, "sign_write")
    BY <1>16, <2>1 DEF SignRead, Proceed, OnlyTask
  <2>2. CASE Finish(p)
    BY <1>16, <2>2 DEF SignRead, OnlyTask
  <2> QED
    BY <1>16, <2>1, <2>2 DEF SignRead
<1>17. ASSUME NEW p \in Procs, SignWrite(p)
      PROVE  TypeOK'
  BY <1>17 DEF SignWrite, Proceed, SetStatus
<1>18. ASSUME NEW p \in Procs, SignEnqueue(p)
      PROVE  TypeOK'
  BY <1>18 DEF SignEnqueue
<1>19. ASSUME NEW p \in Procs, CancelWrite(p)
      PROVE  TypeOK'
  BY <1>19 DEF CancelWrite, SetStatus
<1>20. ASSUME ForceActivate
      PROVE  TypeOK'
  BY <1>20 DEF ForceActivate, SetStatus
<1>21. ASSUME NEW s \in Updates, Update(s)
      PROVE  TypeOK'
  BY <1>21, FlowAssumption DEF Update, SetStatus
<1>22. ASSUME Crash
      PROVE  TypeOK'
  BY <1>22 DEF Crash
<1>23. ASSUME UNCHANGED vars
      PROVE  TypeOK'
  BY <1>23
<1> QED
  BY <1>1, <1>2, <1>3, <1>4, <1>5, <1>6, <1>7, <1>8, <1>9, <1>10, <1>11,
     <1>12, <1>13, <1>14, <1>15, <1>16, <1>17, <1>18, <1>19, <1>20, <1>21,
     <1>22, <1>23 DEF Next, Begin, Step

-----------------------------------------------------------------------------

\* A task stays ready while nothing is taken back.
LEMMA ReadyKept ==
  ASSUME Keeps, NEW t, Ready(t)
  PROVE  Ready(t)'
BY DEF Keeps, Ready

\* Every step keeps the histories: statuses, texts and documents only add.
LEMMA StepKeeps == TypeOK /\ [Next]_vars => Keeps
<1> SUFFICES ASSUME TypeOK, [Next]_vars
             PROVE  Keeps
  OBVIOUS
<1> USE DEF Keeps, Sent, TypesOf, vars, textVars, history
<1>1. ASSUME NEW p \in Procs, StartEdit(p)
      PROVE  Keeps
  BY <1>1 DEF StartEdit, OnlyTask
<1>2. ASSUME NEW p \in Procs, StartAccept(p)
      PROVE  Keeps
  BY <1>2 DEF StartAccept, OnlyTask
<1>3. ASSUME NEW p \in Procs, StartAlter(p)
      PROVE  Keeps
  BY <1>3 DEF StartAlter, OnlyTask
<1>4. ASSUME NEW p \in Procs, NEW ty \in DocumentType, StartUpload(p, ty)
      PROVE  Keeps
  BY <1>4 DEF StartUpload, OnlyTask
<1>5. ASSUME NEW p \in Procs, NEW r \in Rows, NEW s \in DocumentStatus,
             StartDecide(p, r, s)
      PROVE  Keeps
  BY <1>5 DEF StartDecide, OnlyTask
<1>6. ASSUME NEW p \in Procs, StartCancel(p)
      PROVE  Keeps
  BY <1>6 DEF StartCancel, OnlyTask
<1>7. ASSUME NEW p \in Procs, EditWrite(p)
      PROVE  Keeps
  BY <1>7 DEF EditWrite, SetStatus
<1>8. ASSUME NEW p \in Procs, AcceptWrite(p)
      PROVE  Keeps
  BY <1>8 DEF AcceptWrite, SetStatus
<1>9. ASSUME NEW p \in Procs, AlterWrite(p)
      PROVE  Keeps
  BY <1>9 DEF AlterWrite, SetStatus
<1>10. ASSUME NEW p \in Procs, UploadDrop(p)
      PROVE  Keeps
  <2>1. CASE task[p].row \in Present
    <3>1. doc' = [doc EXCEPT ![task[p].row] = "deleted"]
      BY <1>10, <2>1 DEF UploadDrop
    <3>2. \A r \in Rows : doc[r] # "absent" => doc'[r] # "absent"
      BY <3>1 DEF TypeOK
    <3> QED
      BY <1>10, <3>2 DEF UploadDrop
  <2>2. CASE task[p].row \notin Present
    BY <1>10, <2>2 DEF UploadDrop
  <2> QED
    BY <2>1, <2>2
<1>11. ASSUME NEW p \in Procs, UploadFail(p)
      PROVE  Keeps
  BY <1>11 DEF UploadFail, OnlyTask
<1>12. ASSUME NEW p \in Procs, NEW r \in Rows, UploadCreate(p, r)
      PROVE  Keeps
  BY <1>12 DEF UploadCreate
<1>13. ASSUME NEW p \in Procs, ReviewRead(p)
      PROVE  Keeps
  BY <1>13 DEF ReviewRead, OnlyTask
<1>14. ASSUME NEW p \in Procs, ReviewWrite(p)
      PROVE  Keeps
  BY <1>14 DEF ReviewWrite, SetStatus
<1>15. ASSUME NEW p \in Procs, DecideWrite(p)
      PROVE  Keeps
  BY <1>15 DEF DecideWrite, Present, DocumentStatus, TypeOK
<1>16. ASSUME NEW p \in Procs, SignRead(p)
      PROVE  Keeps
  BY <1>16 DEF SignRead, OnlyTask
<1>17. ASSUME NEW p \in Procs, SignWrite(p)
      PROVE  Keeps
  BY <1>17 DEF SignWrite, SetStatus
<1>18. ASSUME NEW p \in Procs, SignEnqueue(p)
      PROVE  Keeps
  BY <1>18 DEF SignEnqueue
<1>19. ASSUME NEW p \in Procs, CancelWrite(p)
      PROVE  Keeps
  BY <1>19 DEF CancelWrite, SetStatus
<1>20. ASSUME ForceActivate
      PROVE  Keeps
  BY <1>20 DEF ForceActivate, SetStatus
<1>21. ASSUME NEW s \in Updates, Update(s)
      PROVE  Keeps
  BY <1>21 DEF Update, SetStatus
<1>22. ASSUME Crash
      PROVE  Keeps
  BY <1>22 DEF Crash
<1>23. ASSUME UNCHANGED vars
      PROVE  Keeps
  BY <1>23
<1> QED
  BY <1>1, <1>2, <1>3, <1>4, <1>5, <1>6, <1>7, <1>8, <1>9, <1>10, <1>11,
     <1>12, <1>13, <1>14, <1>15, <1>16, <1>17, <1>18, <1>19, <1>20, <1>21,
     <1>22, <1>23 DEF Next, Begin, Step

\* A handler that goes on with a ready task leaves every task ready.
LEMMA ReadyStep ==
  ASSUME TypeOK, TasksReady, Keeps,
         NEW p \in Procs, NEW t, Ready(t)', Continue(p, t)
  PROVE  TasksReady'
<1> SUFFICES ASSUME NEW q \in Procs
             PROVE  Ready(task[q])'
  BY DEF TasksReady
<1>1. CASE q = p
  <2>1. task'[q] = t
    BY <1>1 DEF Continue, TypeOK
  <2> QED
    BY <2>1 DEF Ready
<1>2. CASE q # p
  <2>1. task'[q] = task[q]
    BY <1>2 DEF Continue, TypeOK
  <2>2. Ready(task[q])
    BY DEF TasksReady
  <2> QED
    BY <2>1, <2>2 DEF Ready, Keeps
<1> QED
  BY <1>1, <1>2

\* Every step leaves every task ready.
LEMMA TasksStep == IInv /\ [Next]_vars => TasksReady'
<1> SUFFICES ASSUME IInv, [Next]_vars
             PROVE  TasksReady'
  OBVIOUS
<1>t. TypeOK /\ TasksReady /\ HistoryOK
  BY DEF IInv
<1>k. Keeps
  BY <1>t, StepKeeps
<1>i. Ready(IdleTask)'
  BY DEF Ready, IdleTask, Blank, Task
<1>1. ASSUME NEW p \in Procs, StartEdit(p)
      PROVE  TasksReady'
  <2> DEFINE t == TextTask("edit_write", text,
                           contract # "SOLICITANDO_ALTERACAO" /\ reason)
  <2>1. Continue(p, t) /\ t.op = "edit_write"
    BY <1>1 DEF StartEdit, Start, TextTask, Blank, Task
  <2>2. visited' \cap {"EM_ELABORACAO", "SOLICITANDO_ALTERACAO"} # {}
    BY <1>1, <1>t, <1>k DEF StartEdit, HistoryOK, Keeps
  <2> QED
    BY <1>t, <1>k, <2>1, <2>2, ReadyStep DEF Ready
<1>2. ASSUME NEW p \in Procs, StartAccept(p)
      PROVE  TasksReady'
  <2> DEFINE t == TextTask("accept_write", text, FALSE)
  <2>1. Continue(p, t) /\ t.op = "accept_write"
    BY <1>2 DEF StartAccept, Start, TextTask, Blank, Task
  <2>2. "AGUARDANDO_ACEITE_INQUILINO" \in visited'
    BY <1>2, <1>t, <1>k DEF StartAccept, HistoryOK, Keeps
  <2> QED
    BY <1>t, <1>k, <2>1, <2>2, ReadyStep DEF Ready
<1>3. ASSUME NEW p \in Procs, StartAlter(p)
      PROVE  TasksReady'
  <2> DEFINE t == Blank("alter_write")
  <2>1. Continue(p, t)
    BY <1>3 DEF StartAlter, Start
  <2>2. Ready(t)'
    BY <1>3, <1>t, <1>k
       DEF StartAlter, Ready, Blank, Task, HistoryOK, Keeps
  <2> QED
    BY <1>t, <1>k, <2>1, <2>2, ReadyStep
<1>4. ASSUME NEW p \in Procs, NEW ty \in DocumentType, StartUpload(p, ty)
      PROVE  TasksReady'
  <2>1. CASE ty \in Submitted
    <3>1. PICK r \in Present : Continue(p, UploadTask("upload_drop", ty, r))
      BY <1>4, <2>1 DEF StartUpload, Start
    <3>2. Ready(UploadTask("upload_drop", ty, r))'
      BY DEF Ready, UploadTask, Blank, Task
    <3> QED
      BY <1>t, <1>k, <3>1, <3>2, ReadyStep
  <2>2. CASE ty \notin Submitted
    <3>1. Continue(p, UploadTask("upload_create", ty, None))
      BY <1>4, <2>2 DEF StartUpload, Start
    <3>2. Ready(UploadTask("upload_create", ty, None))'
      BY DEF Ready, UploadTask, Blank, Task
    <3> QED
      BY <1>t, <1>k, <3>1, <3>2, ReadyStep
  <2> QED
    BY <2>1, <2>2
<1>5. ASSUME NEW p \in Procs, NEW r \in Rows, NEW s \in DocumentStatus,
             StartDecide(p, r, s)
      PROVE  TasksReady'
  <2> DEFINE t == [Blank("decide_write")
                         EXCEPT !.row = r, !.status = s]
  <2>1. Continue(p, t)
    BY <1>5 DEF StartDecide, Start
  <2>2. Ready(t)'
    BY <1>5, <1>t, <1>k
       DEF StartDecide, Ready, Blank, Task
  <2> QED
    BY <1>t, <1>k, <2>1, <2>2, ReadyStep
<1>6. ASSUME NEW p \in Procs, StartCancel(p)
      PROVE  TasksReady'
  <2> DEFINE t == Blank("cancel_write")
  <2>1. Continue(p, t)
    BY <1>6 DEF StartCancel, Start
  <2>2. Ready(t)'
    BY <1>6, <1>t, <1>k
       DEF StartCancel, Ready, Blank, Task, HistoryOK, Keeps
  <2> QED
    BY <1>t, <1>k, <2>1, <2>2, ReadyStep
<1>7. ASSUME NEW p \in Procs, EditWrite(p)
      PROVE  TasksReady'
  BY <1>7, <1>t, <1>k, <1>i, ReadyStep DEF EditWrite, Finish
<1>8. ASSUME NEW p \in Procs, AcceptWrite(p)
      PROVE  TasksReady'
  BY <1>8, <1>t, <1>k, <1>i, ReadyStep DEF AcceptWrite, Finish
<1>9. ASSUME NEW p \in Procs, AlterWrite(p)
      PROVE  TasksReady'
  BY <1>9, <1>t, <1>k, <1>i, ReadyStep DEF AlterWrite, Finish
<1>10. ASSUME NEW p \in Procs, UploadDrop(p)
      PROVE  TasksReady'
  <2> DEFINE t == [task[p] EXCEPT !.op = "upload_create"]
  <2>1. Continue(p, t) \/ Finish(p)
    BY <1>10 DEF UploadDrop, Proceed
  <2>2. t.op = "upload_create"
    BY <1>t DEF TypeOK
  <2>3. CASE Continue(p, t)
    BY <1>t, <1>k, <2>2, <2>3, ReadyStep DEF Ready
  <2> QED
    BY <1>t, <1>k, <1>i, <2>1, <2>3, ReadyStep DEF Finish
<1>11. ASSUME NEW p \in Procs, UploadFail(p)
      PROVE  TasksReady'
  BY <1>11, <1>t, <1>k, <1>i, ReadyStep DEF UploadFail, Finish
<1>12. ASSUME NEW p \in Procs, NEW r \in Rows, UploadCreate(p, r)
      PROVE  TasksReady'
  <2> DEFINE t == Blank("review_read")
  <2>1. Continue(p, t)
    BY <1>12 DEF UploadCreate, Start
  <2>2. Ready(t)'
    BY <1>12, <1>t, <1>k
       DEF UploadCreate, Ready, Blank, Task
  <2> QED
    BY <1>t, <1>k, <2>1, <2>2, ReadyStep
<1>13. ASSUME NEW p \in Procs, ReviewRead(p)
      PROVE  TasksReady'
  <2> DEFINE t == [task[p] EXCEPT !.op = "review_write"]
  <2>1. CASE Continue(p, t) /\ contract = "PENDENTE_DOCUMENTACAO"
                            /\ ReviewTypes \subseteq Submitted
    <3>1. t.op = "review_write"
      BY <1>t DEF TypeOK
    <3>2. Submitted \subseteq Sent
      BY DEF Submitted, Sent, TypesOf, Present, DocumentStatus
    <3>3. "PENDENTE_DOCUMENTACAO" \in visited' /\ ReviewTypes \subseteq Sent'
      BY <1>t, <1>k, <2>1, <3>2 DEF HistoryOK, Keeps
    <3> QED
      BY <1>t, <1>k, <2>1, <3>1, <3>3, ReadyStep DEF Ready
  <2>2. CASE Finish(p)
    BY <1>t, <1>k, <1>i, <2>2, ReadyStep DEF Finish
  <2> QED
    BY <1>13, <2>1, <2>2 DEF ReviewRead, Proceed
<1>14. ASSUME NEW p \in Procs, ReviewWrite(p)
      PROVE  TasksReady'
  BY <1>14, <1>t, <1>k, <1>i, ReadyStep DEF ReviewWrite, Finish
<1>15. ASSUME NEW p \in Procs, DecideWrite(p)
      PROVE  TasksReady'
  <2>1. Continue(p, Blank("sign_read")) \/ Finish(p)
    BY <1>15 DEF DecideWrite
  <2>2. Ready(Blank("sign_read"))'
    BY DEF Ready, Blank, Task
  <2> QED
    BY <1>t, <1>k, <1>i, <2>1, <2>2, ReadyStep DEF Finish
<1>16. ASSUME NEW p \in Procs, SignRead(p)
      PROVE  TasksReady'
  <2> DEFINE t == [task[p] EXCEPT !.op = "sign_write"]
  <2>1. CASE Continue(p, t) /\ contract = "EM_ANALISE"
                            /\ SignatureTypes \subseteq Approved
    <3>1. t.op = "sign_write"
      BY <1>t DEF TypeOK
    <3>2. "EM_ANALISE" \in visited' /\ cleared'
      BY <1>t, <1>k, <2>1 DEF HistoryOK, Keeps
    <3> QED
      BY <1>t, <1>k, <2>1, <3>1, <3>2, ReadyStep DEF Ready
  <2>2. CASE Finish(p)
    BY <1>t, <1>k, <1>i, <2>2, ReadyStep DEF Finish
  <2> QED
    BY <1>16, <2>1, <2>2 DEF SignRead, Proceed
<1>17. ASSUME NEW p \in Procs, SignWrite(p)
      PROVE  TasksReady'
  <2> DEFINE t == [task[p] EXCEPT !.op = "sign_enqueue"]
  <2>1. Continue(p, t) /\ task[p].op = "sign_write"
    BY <1>17 DEF SignWrite, Proceed, At
  <2>2. t.op = "sign_enqueue"
    BY <1>t DEF TypeOK
  <2>3. "EM_ANALISE" \in visited' /\ cleared'
    BY <1>t, <1>k, <2>1 DEF TasksReady, Ready, Keeps
  <2> QED
    BY <1>t, <1>k, <2>1, <2>2, <2>3, ReadyStep DEF Ready
<1>18. ASSUME NEW p \in Procs, SignEnqueue(p)
      PROVE  TasksReady'
  BY <1>18, <1>t, <1>k, <1>i, ReadyStep DEF SignEnqueue, Finish
<1>19. ASSUME NEW p \in Procs, CancelWrite(p)
      PROVE  TasksReady'
  BY <1>19, <1>t, <1>k, <1>i, ReadyStep DEF CancelWrite, Finish
<1>20. ASSUME ForceActivate
      PROVE  TasksReady'
  BY <1>20, <1>t, <1>k DEF ForceActivate, TasksReady, Ready, Keeps
<1>21. ASSUME NEW s \in Updates, Update(s)
      PROVE  TasksReady'
  BY <1>21, <1>t, <1>k DEF Update, TasksReady, Ready, Keeps
<1>22. ASSUME Crash
      PROVE  TasksReady'
  <2> SUFFICES ASSUME NEW q \in Procs
               PROVE  Ready(task[q])'
    BY DEF TasksReady
  <2>1. task'[q] = IdleTask \/ task'[q] = task[q]
    BY <1>22 DEF Crash
  <2>2. CASE task'[q] = IdleTask
    BY <2>2 DEF Ready, IdleTask, Blank, Task
  <2>3. CASE task'[q] = task[q]
    BY <1>t, <1>k, <2>3 DEF TasksReady, Ready, Keeps
  <2> QED
    BY <2>1, <2>2, <2>3
<1>23. ASSUME UNCHANGED vars
      PROVE  TasksReady'
  BY <1>23, <1>t DEF TasksReady, Ready, Sent, TypesOf, vars, history
<1> QED
  BY <1>1, <1>2, <1>3, <1>4, <1>5, <1>6, <1>7, <1>8, <1>9, <1>10, <1>11,
     <1>12, <1>13, <1>14, <1>15, <1>16, <1>17, <1>18, <1>19, <1>20, <1>21,
     <1>22, <1>23 DEF Next, Begin, Step

\* Every step keeps what the histories say.
LEMMA HistoryStep == IInv /\ [Next]_vars => HistoryOK' /\ RequestHasReason'
<1> SUFFICES ASSUME IInv, [Next]_vars
             PROVE  HistoryOK' /\ RequestHasReason'
  OBVIOUS
<1>t. TypeOK /\ TasksReady /\ HistoryOK /\ RequestHasReason
  BY DEF IInv
<1>k. Keeps
  BY <1>t, StepKeeps
<1>u. ASSUME UNCHANGED <<contract, reason, doc, enqueued, visited, put,
                         accepted, cleared>>
      PROVE  HistoryOK' /\ RequestHasReason'
  BY <1>t, <1>u DEF HistoryOK, RequestHasReason, Approved, Sent, TypesOf,
                    Present
<1>1. ASSUME NEW p \in Procs, StartEdit(p)
      PROVE  HistoryOK' /\ RequestHasReason'
  BY <1>1, <1>u DEF StartEdit, OnlyTask, textVars, history
<1>2. ASSUME NEW p \in Procs, StartAccept(p)
      PROVE  HistoryOK' /\ RequestHasReason'
  BY <1>2, <1>u DEF StartAccept, OnlyTask, textVars, history
<1>3. ASSUME NEW p \in Procs, StartAlter(p)
      PROVE  HistoryOK' /\ RequestHasReason'
  BY <1>3, <1>u DEF StartAlter, OnlyTask, textVars, history
<1>4. ASSUME NEW p \in Procs, NEW ty \in DocumentType, StartUpload(p, ty)
      PROVE  HistoryOK' /\ RequestHasReason'
  BY <1>4, <1>u DEF StartUpload, OnlyTask, textVars, history
<1>5. ASSUME NEW p \in Procs, NEW r \in Rows, NEW s \in DocumentStatus,
             StartDecide(p, r, s)
      PROVE  HistoryOK' /\ RequestHasReason'
  BY <1>5, <1>u DEF StartDecide, OnlyTask, textVars, history
<1>6. ASSUME NEW p \in Procs, StartCancel(p)
      PROVE  HistoryOK' /\ RequestHasReason'
  BY <1>6, <1>u DEF StartCancel, OnlyTask, textVars, history
<1>7. ASSUME NEW p \in Procs, EditWrite(p)
      PROVE  HistoryOK' /\ RequestHasReason'
  <2>1. UNCHANGED <<doc, enqueued, put, accepted, cleared>>
    BY <1>7 DEF EditWrite, textVars, history
  <2>2. /\ contract' = "AGUARDANDO_ACEITE_INQUILINO"
        /\ visited' = visited \cup {"AGUARDANDO_ACEITE_INQUILINO"}
    BY <1>7, <1>t DEF EditWrite, SetStatus
  <2>3. UNCHANGED <<Approved, Sent>>
    BY <2>1 DEF Approved, Sent, TypesOf, Present
  <2> QED
    BY <1>t, <2>1, <2>2, <2>3 DEF HistoryOK, RequestHasReason
<1>8. ASSUME NEW p \in Procs, AcceptWrite(p)
      PROVE  HistoryOK' /\ RequestHasReason'
  <2>1. UNCHANGED <<reason, doc, enqueued, put, cleared>>
    BY <1>8 DEF AcceptWrite, textVars, history
  <2>2. /\ contract' = "PENDENTE_DOCUMENTACAO"
        /\ visited' = visited \cup {"PENDENTE_DOCUMENTACAO"}
        /\ accepted' # {}
    BY <1>8, <1>t DEF AcceptWrite, SetStatus
  <2>3. UNCHANGED <<Approved, Sent>>
    BY <2>1 DEF Approved, Sent, TypesOf, Present
  <2> QED
    BY <1>t, <2>1, <2>2, <2>3 DEF HistoryOK, RequestHasReason
<1>9. ASSUME NEW p \in Procs, AlterWrite(p)
      PROVE  HistoryOK' /\ RequestHasReason'
  <2>1. UNCHANGED <<doc, enqueued, put, accepted, cleared>>
    BY <1>9 DEF AlterWrite, textVars, history
  <2>2. /\ contract' = "SOLICITANDO_ALTERACAO"
        /\ visited' = visited \cup {"SOLICITANDO_ALTERACAO"}
        /\ reason'
    BY <1>9, <1>t DEF AlterWrite, SetStatus
  <2>3. UNCHANGED <<Approved, Sent>>
    BY <2>1 DEF Approved, Sent, TypesOf, Present
  <2> QED
    BY <1>t, <2>1, <2>2, <2>3 DEF HistoryOK, RequestHasReason
<1>10. ASSUME NEW p \in Procs, UploadDrop(p)
      PROVE  HistoryOK' /\ RequestHasReason'
  <2>1. UNCHANGED <<contract, reason, enqueued, visited, put, accepted,
                    cleared>>
    BY <1>10 DEF UploadDrop, textVars, history
  <2>2. \A q \in Rows : doc'[q] = "APROVADO" => doc[q] = "APROVADO"
    BY <1>10, <1>t DEF UploadDrop, TypeOK, DocumentStatus, Present
  <2>3. Approved' \subseteq Approved
    BY <2>2 DEF Approved, TypesOf, Present, DocumentStatus
  <2> QED
    BY <1>t, <1>k, <2>1, <2>3 DEF HistoryOK, RequestHasReason, Keeps
<1>11. ASSUME NEW p \in Procs, UploadFail(p)
      PROVE  HistoryOK' /\ RequestHasReason'
  BY <1>11, <1>u DEF UploadFail, OnlyTask, textVars, history
<1>12. ASSUME NEW p \in Procs, NEW r \in Rows, UploadCreate(p, r)
      PROVE  HistoryOK' /\ RequestHasReason'
  <2>1. UNCHANGED <<contract, reason, enqueued, visited, put, accepted,
                    cleared>>
    BY <1>12 DEF UploadCreate, textVars, history
  <2>2. \A q \in Rows : doc'[q] = "APROVADO" => doc[q] = "APROVADO"
    BY <1>12, <1>t DEF UploadCreate, TypeOK, DocumentStatus, Present
  <2>3. Approved' \subseteq Approved
    BY <2>2 DEF Approved, TypesOf, Present, DocumentStatus
  <2> QED
    BY <1>t, <1>k, <2>1, <2>3 DEF HistoryOK, RequestHasReason, Keeps
<1>13. ASSUME NEW p \in Procs, ReviewRead(p)
      PROVE  HistoryOK' /\ RequestHasReason'
  BY <1>13, <1>u DEF ReviewRead, OnlyTask, textVars, history
<1>14. ASSUME NEW p \in Procs, ReviewWrite(p)
      PROVE  HistoryOK' /\ RequestHasReason'
  <2>1. UNCHANGED <<reason, doc, enqueued, put, accepted, cleared>>
    BY <1>14 DEF ReviewWrite, textVars, history
  <2>2. /\ contract' = "EM_ANALISE"
        /\ visited' = visited \cup {"EM_ANALISE"}
        /\ "PENDENTE_DOCUMENTACAO" \in visited /\ ReviewTypes \subseteq Sent
    BY <1>14, <1>t DEF ReviewWrite, SetStatus, At, TasksReady, Ready
  <2>3. UNCHANGED <<Approved, Sent>>
    BY <2>1 DEF Approved, Sent, TypesOf, Present
  <2> QED
    BY <1>t, <2>1, <2>2, <2>3 DEF HistoryOK, RequestHasReason
<1>15. ASSUME NEW p \in Procs, DecideWrite(p)
      PROVE  HistoryOK' /\ RequestHasReason'
  <2>1. UNCHANGED <<contract, reason, enqueued, visited, put, accepted>>
    BY <1>15 DEF DecideWrite, textVars
  <2>2. SignatureTypes \subseteq Approved' => cleared'
    BY <1>15 DEF DecideWrite
  <2> QED
    BY <1>t, <1>k, <2>1, <2>2 DEF HistoryOK, RequestHasReason, Keeps
<1>16. ASSUME NEW p \in Procs, SignRead(p)
      PROVE  HistoryOK' /\ RequestHasReason'
  BY <1>16, <1>u DEF SignRead, OnlyTask, textVars, history
<1>17. ASSUME NEW p \in Procs, SignWrite(p)
      PROVE  HistoryOK' /\ RequestHasReason'
  <2>1. UNCHANGED <<reason, doc, enqueued, put, accepted, cleared>>
    BY <1>17 DEF SignWrite, textVars, history
  <2>2. /\ contract' = "AGUARDANDO_ASSINATURAS"
        /\ visited' = visited \cup {"AGUARDANDO_ASSINATURAS"}
    BY <1>17, <1>t DEF SignWrite, SetStatus
  <2>3. UNCHANGED <<Approved, Sent>>
    BY <2>1 DEF Approved, Sent, TypesOf, Present
  <2> QED
    BY <1>t, <2>1, <2>2, <2>3 DEF HistoryOK, RequestHasReason
<1>18. ASSUME NEW p \in Procs, SignEnqueue(p)
      PROVE  HistoryOK' /\ RequestHasReason'
  <2>1. UNCHANGED <<contract, reason, doc, visited, put, accepted, cleared>>
    BY <1>18 DEF SignEnqueue, textVars, history
  <2>2. "EM_ANALISE" \in visited /\ cleared
    BY <1>18, <1>t DEF SignEnqueue, At, TasksReady, Ready
  <2>3. UNCHANGED <<Approved, Sent>>
    BY <2>1 DEF Approved, Sent, TypesOf, Present
  <2> QED
    BY <1>t, <2>1, <2>2, <2>3 DEF HistoryOK, RequestHasReason
<1>19. ASSUME NEW p \in Procs, CancelWrite(p)
      PROVE  HistoryOK' /\ RequestHasReason'
  <2>1. UNCHANGED <<reason, doc, enqueued, put, accepted, cleared>>
    BY <1>19 DEF CancelWrite, textVars, history
  <2>2. /\ contract' = "CANCELADO"
        /\ visited' = visited \cup {"CANCELADO"}
    BY <1>19, <1>t DEF CancelWrite, SetStatus
  <2>3. UNCHANGED <<Approved, Sent>>
    BY <2>1 DEF Approved, Sent, TypesOf, Present
  <2> QED
    BY <1>t, <2>1, <2>2, <2>3 DEF HistoryOK, RequestHasReason
<1>20. ASSUME ForceActivate
      PROVE  HistoryOK' /\ RequestHasReason'
  <2>1. UNCHANGED <<reason, doc, enqueued, put, accepted, cleared>>
    BY <1>20 DEF ForceActivate, textVars, history
  <2>2. /\ contract' = "ATIVO"
        /\ visited' = visited \cup {"ATIVO"}
    BY <1>20, <1>t DEF ForceActivate, SetStatus
  <2>3. UNCHANGED <<Approved, Sent>>
    BY <2>1 DEF Approved, Sent, TypesOf, Present
  <2> QED
    BY <1>t, <2>1, <2>2, <2>3 DEF HistoryOK, RequestHasReason
<1>21. ASSUME NEW s \in Updates, Update(s)
      PROVE  HistoryOK' /\ RequestHasReason'
  <2>1. UNCHANGED <<reason, doc, enqueued, accepted, cleared>>
    BY <1>21 DEF Update, textVars, history
  <2>2. /\ contract' = s
        /\ visited' = visited \cup {s}
        /\ put' = put \cup {s}
    BY <1>21, <1>t DEF Update, SetStatus
  <2>3. UNCHANGED <<Approved, Sent>>
    BY <2>1 DEF Approved, Sent, TypesOf, Present
  <2> QED
    BY <1>t, <2>1, <2>2, <2>3 DEF HistoryOK, RequestHasReason
<1>22. ASSUME Crash
      PROVE  HistoryOK' /\ RequestHasReason'
  BY <1>22, <1>u DEF Crash, textVars, history
<1>23. ASSUME UNCHANGED vars
      PROVE  HistoryOK' /\ RequestHasReason'
  BY <1>23, <1>u DEF vars, textVars, history
<1> QED
  BY <1>1, <1>2, <1>3, <1>4, <1>5, <1>6, <1>7, <1>8, <1>9, <1>10, <1>11,
     <1>12, <1>13, <1>14, <1>15, <1>16, <1>17, <1>18, <1>19, <1>20, <1>21,
     <1>22, <1>23 DEF Next, Begin, Step

-----------------------------------------------------------------------------

\* The invariant holds of every behaviour.
THEOREM Invariance == Spec => []IInv
<1>1. Init => IInv
  BY InitInv
<1>2. IInv /\ [Next]_vars => IInv'
  BY TypeStep, TasksStep, HistoryStep DEF IInv
<1> QED
  BY <1>1, <1>2, PTL DEF Spec

\* Every variable of the process keeps to its type.
THEOREM TypeCorrect == Spec => []TypeOK
<1>1. IInv => TypeOK
  BY DEF IInv
<1> QED
  BY <1>1, Invariance, PTL

\* A signature job is queued only for a contract that was accepted, whose
\* documents were sent and those for the signature approved, whatever the
\* number of handlers that act on stale reads.
THEOREM SignaturesArePrepared == Spec => []SignatureIsPrepared
<1>1. IInv => SignatureIsPrepared
  BY DEF IInv, HistoryOK, SignatureIsPrepared
<1> QED
  BY <1>1, Invariance, PTL

\* An alteration is never requested without its reason, except by PUT.
THEOREM RequestsHaveReasons == Spec => []RequestHasReason
<1>1. IInv => RequestHasReason
  BY DEF IInv
<1> QED
  BY <1>1, Invariance, PTL

-----------------------------------------------------------------------------

\* A status that a step enters was prepared by one the contract had before.
LEMMA EnterStep ==
  ASSUME NEW s \in ContractStatus, SetStatus(s),
         Lifecycle!Before(s) \cap visited # {} \/ s \in Updates
  PROVE  Lifecycle!Next
BY DEF Lifecycle!Next, Lifecycle!Enter, Lifecycle!Statuses, ContractStatus,
       SetStatus

\* Every step of the handlers is a step of ContractLifecycle or stutters.
LEMMA LifecycleStep ==
  IInv /\ [Next]_vars => [Lifecycle!Next]_<<contract, visited>>
<1> SUFFICES ASSUME IInv, [Next]_vars
             PROVE  [Lifecycle!Next]_<<contract, visited>>
  OBVIOUS
<1> DEFINE Goal == [Lifecycle!Next]_<<contract, visited>>
<1>t. TypeOK /\ TasksReady /\ HistoryOK
  BY DEF IInv
<1>u. ASSUME UNCHANGED <<contract, visited>> PROVE Goal
  BY <1>u
<1>1. ASSUME NEW p \in Procs, StartEdit(p)
      PROVE  Goal
  BY <1>1, <1>u DEF StartEdit, OnlyTask
<1>2. ASSUME NEW p \in Procs, StartAccept(p)
      PROVE  Goal
  BY <1>2, <1>u DEF StartAccept, OnlyTask
<1>3. ASSUME NEW p \in Procs, StartAlter(p)
      PROVE  Goal
  BY <1>3, <1>u DEF StartAlter, OnlyTask
<1>4. ASSUME NEW p \in Procs, NEW ty \in DocumentType, StartUpload(p, ty)
      PROVE  Goal
  BY <1>4, <1>u DEF StartUpload, OnlyTask
<1>5. ASSUME NEW p \in Procs, NEW r \in Rows, NEW s \in DocumentStatus,
             StartDecide(p, r, s)
      PROVE  Goal
  BY <1>5, <1>u DEF StartDecide, OnlyTask
<1>6. ASSUME NEW p \in Procs, StartCancel(p)
      PROVE  Goal
  BY <1>6, <1>u DEF StartCancel, OnlyTask
<1>7. ASSUME NEW p \in Procs, EditWrite(p)
      PROVE  Goal
  <2>1. SetStatus("AGUARDANDO_ACEITE_INQUILINO")
    BY <1>7 DEF EditWrite
  <2>2. Lifecycle!Before("AGUARDANDO_ACEITE_INQUILINO") \cap visited # {}
    BY <1>7, <1>t
       DEF EditWrite, At, TasksReady, Ready, Lifecycle!Before
  <2> QED
    BY <2>1, <2>2, EnterStep DEF ContractStatus
<1>8. ASSUME NEW p \in Procs, AcceptWrite(p)
      PROVE  Goal
  <2>1. SetStatus("PENDENTE_DOCUMENTACAO")
    BY <1>8 DEF AcceptWrite
  <2>2. Lifecycle!Before("PENDENTE_DOCUMENTACAO") \cap visited # {}
    BY <1>8, <1>t
       DEF AcceptWrite, At, TasksReady, Ready, Lifecycle!Before
  <2> QED
    BY <2>1, <2>2, EnterStep DEF ContractStatus
<1>9. ASSUME NEW p \in Procs, AlterWrite(p)
      PROVE  Goal
  <2>1. SetStatus("SOLICITANDO_ALTERACAO")
    BY <1>9 DEF AlterWrite
  <2>2. Lifecycle!Before("SOLICITANDO_ALTERACAO") \cap visited # {}
    BY <1>9, <1>t
       DEF AlterWrite, At, TasksReady, Ready, Lifecycle!Before
  <2> QED
    BY <2>1, <2>2, EnterStep DEF ContractStatus
<1>10. ASSUME NEW p \in Procs, UploadDrop(p)
      PROVE  Goal
  BY <1>10, <1>u DEF UploadDrop
<1>11. ASSUME NEW p \in Procs, UploadFail(p)
      PROVE  Goal
  BY <1>11, <1>u DEF UploadFail, OnlyTask
<1>12. ASSUME NEW p \in Procs, NEW r \in Rows, UploadCreate(p, r)
      PROVE  Goal
  BY <1>12, <1>u DEF UploadCreate
<1>13. ASSUME NEW p \in Procs, ReviewRead(p)
      PROVE  Goal
  BY <1>13, <1>u DEF ReviewRead, OnlyTask
<1>14. ASSUME NEW p \in Procs, ReviewWrite(p)
      PROVE  Goal
  <2>1. SetStatus("EM_ANALISE")
    BY <1>14 DEF ReviewWrite
  <2>2. Lifecycle!Before("EM_ANALISE") \cap visited # {}
    BY <1>14, <1>t
       DEF ReviewWrite, At, TasksReady, Ready, Lifecycle!Before
  <2> QED
    BY <2>1, <2>2, EnterStep DEF ContractStatus
<1>15. ASSUME NEW p \in Procs, DecideWrite(p)
      PROVE  Goal
  BY <1>15, <1>u DEF DecideWrite
<1>16. ASSUME NEW p \in Procs, SignRead(p)
      PROVE  Goal
  BY <1>16, <1>u DEF SignRead, OnlyTask
<1>17. ASSUME NEW p \in Procs, SignWrite(p)
      PROVE  Goal
  <2>1. SetStatus("AGUARDANDO_ASSINATURAS")
    BY <1>17 DEF SignWrite
  <2>2. Lifecycle!Before("AGUARDANDO_ASSINATURAS") \cap visited # {}
    BY <1>17, <1>t
       DEF SignWrite, At, TasksReady, Ready, Lifecycle!Before
  <2> QED
    BY <2>1, <2>2, EnterStep DEF ContractStatus
<1>18. ASSUME NEW p \in Procs, SignEnqueue(p)
      PROVE  Goal
  BY <1>18, <1>u DEF SignEnqueue
<1>19. ASSUME NEW p \in Procs, CancelWrite(p)
      PROVE  Goal
  <2>1. SetStatus("CANCELADO")
    BY <1>19 DEF CancelWrite
  <2>2. Lifecycle!Before("CANCELADO") \cap visited # {}
    BY <1>19, <1>t
       DEF CancelWrite, At, TasksReady, Ready, TypeOK, ContractStatus,
           Lifecycle!Before, Lifecycle!Statuses
  <2> QED
    BY <2>1, <2>2, EnterStep DEF ContractStatus
<1>20. ASSUME ForceActivate
      PROVE  Goal
  <2>1. SetStatus("ATIVO")
    BY <1>20 DEF ForceActivate
  <2>2. Lifecycle!Before("ATIVO") \cap visited # {}
    BY <1>t DEF Lifecycle!Before, Lifecycle!Statuses, HistoryOK, TypeOK,
                   ContractStatus
  <2> QED
    BY <2>1, <2>2, EnterStep DEF ContractStatus
<1>21. ASSUME NEW s \in Updates, Update(s)
      PROVE  Goal
  <2>1. s \in ContractStatus /\ SetStatus(s)
    BY <1>21, FlowAssumption DEF Update
  <2> QED
    BY <2>1, EnterStep
<1>22. ASSUME Crash
      PROVE  Goal
  BY <1>22, <1>u DEF Crash
<1>23. ASSUME UNCHANGED vars
      PROVE  Goal
  BY <1>23, <1>u DEF vars
<1> QED
  BY <1>1, <1>2, <1>3, <1>4, <1>5, <1>6, <1>7, <1>8, <1>9, <1>10, <1>11,
     <1>12, <1>13, <1>14, <1>15, <1>16, <1>17, <1>18, <1>19, <1>20, <1>21,
     <1>22, <1>23 DEF Next, Begin, Step

\* ContractFlow implements ContractLifecycle.
THEOREM Refinement == Spec => ImplementsLifecycle
<1>1. Init => Lifecycle!Init
  BY DEF Init, Lifecycle!Init
<1>2. IInv /\ [Next]_vars => [Lifecycle!Next]_Lifecycle!lifecycle
  BY LifecycleStep DEF Lifecycle!lifecycle
<1> QED
  BY <1>1, <1>2, Invariance, PTL DEF Spec, ImplementsLifecycle, Lifecycle!Spec

=============================================================================
