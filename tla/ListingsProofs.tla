--------------------------- MODULE ListingsProofs ---------------------------
(***************************************************************************)
(* Proofs about Listings for any photos, reports, pages, interests,        *)
(* handlers and bounds.                                                    *)
(***************************************************************************)
EXTENDS Listings, TLAPS

\* The steps of a handler, by what it does.
ClearOps == {"clear_read", "clear_del", "clear_read_own", "clear_del_own"}

FillOps == {"fill_read", "own_read", "fill_photos", "fill_set", "own_set"}

PhotoUp == {"photo_upload", "photo_stray"}

ReportUp == {"report_render", "report_upload", "report_row"}

UploadOps == PhotoUp \cup ReportUp

PhotoOut == {"photo_delete", "photo_unrow", "photos_delete", "photos_unrow"}

ReportOut == {"report_delete", "report_unrow", "reports_delete",
              "reports_unrow", "sweep_delete", "sweep_unrow"}

UnrowOps == {"photo_unrow", "photos_unrow", "report_unrow", "reports_unrow",
             "sweep_unrow"}

\* Of the objects in a handler's hands: an upload has some of its own, which
\* no row names, and of which the storage has those that were uploaded; a
\* deletion has some that were ever there, and at its end none that the
\* storage still has, unless that failed.
HandOK(p) ==
  /\ task[p].op \notin UploadOps \cup PhotoOut \cup ReportOut =>
       task[p].files = {}
  /\ task[p].op \in ReportUp \cup {"photo_delete", "photo_unrow"} =>
       \E f \in Files : task[p].files = {f}
  /\ task[p].op \in PhotoUp \cup PhotoOut => task[p].files \subseteq Photos
  /\ task[p].op \in ReportUp \cup ReportOut =>
       task[p].files \subseteq Reports
  /\ task[p].op \in PhotoOut \cup ReportOut => task[p].files \subseteq used
  /\ task[p].op \in UploadOps =>
       /\ task[p].files \cap (photos \cup reports) = {}
       /\ \A q \in Procs \ {p} : task[p].files \cap task[q].files = {}
       /\ task[p].files \cap used \subseteq stored
  /\ task[p].op \in {"report_render", "report_upload"} =>
       task[p].files \cap used = {}
  /\ task[p].op = "report_row" => task[p].files \subseteq used
  /\ task[p].op \in UnrowOps => task[p].files \cap stored \subseteq lost

HandsInv == \A p \in Procs : HandOK(p)

\* What a handler does next, and what it does it to.
NextOK(p) ==
  /\ task[p].op \in ClearOps =>
       task[p].then \in {"idle", "contracts_read", "clear_read"}
  /\ task[p].op \in PhotoUp => task[p].then \in {"idle", "clear_read"}
  /\ task[p].op \in {"reports_read", "reports_delete", "reports_unrow"} =>
       task[p].then \in {"property_unrow", "contract_unrow", "idle"}
  /\ task[p].then = "contracts_read" => task[p].op \in ClearOps
  /\ task[p].op \in FillOps => task[p].page \in Pages
  /\ task[p].op \in {"interest_find", "interest_create"} =>
       task[p].status = "PENDING"
  /\ task[p].op \in {"interest_tell", "decide_write", "decide_tell"} =>
       task[p].interest \in Interests

NextInv == \A p \in Procs : NextOK(p)

\* Before the property there is nothing, and pages of nothing.
AbsentInv ==
  property = "absent" =>
    /\ used = {}
    /\ \A i \in Interests : interest[i] = "absent"
    /\ \A p \in Procs : task[p].op \in FillOps \cup {"idle"}

\* What a removal overlaps is remembered, also when the removal is over.
Endangered(p) ==
  \/ \E q \in Procs : Removing(q)
  \/ task[p].op \in PhotoUp /\ property # "there"
  \/ task[p].op \in ReportUp /\ ~contract

RaceInv ==
  \A p \in Procs :
    Uploading(p) /\ Endangered(p) => task[p].files \subseteq raced

\* A removal drops the rows it read, and those whose upload it overlapped.
DropOK(p) ==
  /\ task[p].op \in {"photos_delete", "photos_unrow"} =>
       photos \subseteq task[p].files \cup raced
  /\ task[p].op \in {"reports_delete", "reports_unrow"} =>
       reports \subseteq task[p].files \cup raced
  /\ task[p].op \in {"contract_unrow", "property_unrow"} =>
       reports \subseteq raced

DropInv == \A p \in Procs : DropOK(p)

\* A page is known to the list it is in, unless a clear missed it.
TrackInv == late \/ \A g \in Pages : cached[g] # None => g \in tracked

\* A handler that will clear the page.  One that uploads photos will, if it
\* finds the property.
WillClear(p, g) ==
  \/ task[p].op \in {"clear_read", "clear_del"}
  \/ g \in Own /\ task[p].op \in {"clear_read_own", "clear_del_own"}
  \/ property = "there" /\ task[p].op = "photo_upload"

\* A page shows something else than the rows say.
Stale(g) == cached[g] # None /\ ~Shows(cached[g], Listing(g))

FreshInv ==
  \A g \in Pages : Stale(g) => late \/ \E p \in Procs : WillClear(p, g)

IInv ==
  /\ TypeOK
  /\ HandsInv
  /\ NextInv
  /\ AbsentInv
  /\ RaceInv
  /\ DropInv
  /\ TrackInv
  /\ FreshInv
  /\ RowIsReadable
  /\ StoredIsNamed
  /\ InterestIsTold

-----------------------------------------------------------------------------
(* What each step changes.                                                 *)

\* A handler begins, goes on, or dies.
Acts(p) == Begin(p) \/ Step(p) \/ Crash(p)

\* A handler acts, or all are left alone.
LEMMA HandlerStep ==
  ASSUME [Next]_vars
  PROVE  \/ \E p \in Procs : Acts(p)
         \/ /\ UNCHANGED <<task, property, photos, reports, interestVars,
                           fileVars, updates, crashes>>
            /\ \/ UNCHANGED <<available, contract, cacheVars>>
               \/ \E g \in Pages : ExpirePage(g)
               \/ Hide
               \/ AddContract
BY DEF Next, Acts, vars, rowVars, ExpirePage, Hide, AddContract

\* The rows of the property and its contract are written by these.
LEMMA RowStep ==
  ASSUME NEW p \in Procs, Acts(p)
  PROVE  \/ UNCHANGED <<property, available, contract>>
         \/ \E S \in SUBSET Photos : Create(p, S)
         \/ \E b \in BOOLEAN : UpdateWrite(p, b)
         \/ ContractUnrow(p)
         \/ PropertyUnrow(p)
<1> USE DEF rowVars, cacheVars, interestVars, fileVars, storageVars
<1>1. CASE \/ (\E g \in Pages : StartFill(p, g))
           \/ (\E g \in Pages : StartOwnFill(p, g)) \/ StartUpdate(p)
           \/ (\E S \in SUBSET Photos : StartPhotos(p, S))
           \/ (\E f \in Photos : UpdatePhoto(p, f))
           \/ (\E f \in Photos : StartPhotoDelete(p, f))
           \/ (\E f \in Reports : StartReport(p, f))
           \/ (\E f \in Reports : StartReportDelete(p, f))
           \/ (\E S \in SUBSET Reports : StartSweep(p, S)) \/ StartRemove(p)
           \/ StartContractRemove(p) \/ StartCancel(p) \/ StartInterest(p)
           \/ (\E i \in Interests, s \in InterestStatus :
                  StartDecide(p, i, s))
           \/ Crash(p)
  BY <1>1 DEF StartFill, Ask, StartOwnFill, StartUpdate, StartPhotos,
              UploadStarts, UpdatePhoto, StartPhotoDelete, StartReport,
              StartReportDelete, StartSweep, StartRemove, RemovalStarts,
              StartContractRemove, StartCancel, StartInterest, StartDecide,
              Crash
<1>2. CASE \/ ClearRead(p) \/ ClearDel(p) \/ ClearReadOwn(p) \/ ClearDelOwn(p)
           \/ FillRead(p) \/ OwnRead(p) \/ FillPhotos(p) \/ FillSet(p)
           \/ OwnSet(p) \/ (\E f \in Photos : PhotoUpload(p, f))
           \/ (\E f \in Photos : PhotoRow(p, f))
           \/ (\E f \in Photos : PhotoThrows(p, f)) \/ PhotoDelete(p)
           \/ PhotoUnrow(p)
  BY <1>2 DEF ClearRead, ReadList, ClearDel, DelList, ClearReadOwn,
              ClearDelOwn, FillRead, Read, OwnRead, FillPhotos, FillSet,
              SetPage, CacheSet, OwnSet, PhotoUpload, NeverUploaded,
              UploadFile, PhotoRow, PhotoFails, PhotoMade, PhotoThrows,
              PhotoDelete, DeleteFiles, PhotoUnrow
<1>3. CASE \/ (\E f \in Reports : ReportRender(p, f))
           \/ (\E f \in Reports : ReportUpload(p, f)) \/ ReportRow(p)
           \/ ReportDelete(p) \/ ReportUnrow(p) \/ SweepDelete(p)
           \/ SweepUnrow(p)
  BY <1>3 DEF ReportRender, NeverUploaded, ReportUpload, UploadFile, ReportRow,
              ReportDelete, DeleteFiles, ReportUnrow, SweepDelete,
              DeleteSeveral, SweepUnrow
<1>4. CASE \/ PhotosRead(p) \/ PhotosDelete(p) \/ PhotosUnrow(p)
           \/ ContractsRead(p) \/ ReportsRead(p) \/ ReportsDelete(p)
           \/ ReportsUnrow(p) \/ InterestFind(p)
           \/ (\E i \in Interests : InterestCreate(p, i)) \/ InterestTell(p)
           \/ DecideWrite(p) \/ DecideTell(p)
  BY <1>4 DEF PhotosRead, PhotosDelete, DeleteSeveral, PhotosUnrow,
              ContractsRead, ReportsRead, ReportsDelete, ReportsUnrow,
              InterestFind, InterestCreate, InterestTell, Tell, DecideWrite,
              DecideTell
<1> QED
  BY <1>1, <1>2, <1>3, <1>4, SMTT(30) DEF Acts, Begin, Step

\* The rows that name objects are made and deleted by these.
LEMMA NamesStep ==
  ASSUME NEW p \in Procs, Acts(p)
  PROVE  \/ UNCHANGED <<photos, reports>>
         \/ \E f \in Photos : PhotoRow(p, f)
         \/ PhotoUnrow(p)
         \/ ReportRow(p)
         \/ ReportUnrow(p)
         \/ SweepUnrow(p)
         \/ PhotosUnrow(p)
         \/ ReportsUnrow(p)
         \/ ContractUnrow(p)
         \/ PropertyUnrow(p)
<1> USE DEF rowVars, cacheVars, interestVars, fileVars, storageVars
<1>1. CASE \/ (\E g \in Pages : StartFill(p, g))
           \/ (\E g \in Pages : StartOwnFill(p, g))
           \/ (\E S \in SUBSET Photos : Create(p, S)) \/ StartUpdate(p)
           \/ (\E S \in SUBSET Photos : StartPhotos(p, S))
           \/ (\E f \in Photos : UpdatePhoto(p, f))
           \/ (\E f \in Photos : StartPhotoDelete(p, f))
           \/ (\E f \in Reports : StartReport(p, f))
           \/ (\E f \in Reports : StartReportDelete(p, f))
           \/ (\E S \in SUBSET Reports : StartSweep(p, S)) \/ StartRemove(p)
           \/ StartContractRemove(p) \/ StartCancel(p) \/ StartInterest(p)
           \/ (\E i \in Interests, s \in InterestStatus :
                  StartDecide(p, i, s))
           \/ Crash(p)
  BY <1>1 DEF StartFill, Ask, StartOwnFill, Create, StartUpdate, StartPhotos,
              UploadStarts, UpdatePhoto, StartPhotoDelete, StartReport,
              StartReportDelete, StartSweep, StartRemove, RemovalStarts,
              StartContractRemove, StartCancel, StartInterest, StartDecide,
              Crash
<1>2. CASE \/ ClearRead(p) \/ ClearDel(p) \/ ClearReadOwn(p) \/ ClearDelOwn(p)
           \/ FillRead(p) \/ OwnRead(p) \/ FillPhotos(p) \/ FillSet(p)
           \/ OwnSet(p) \/ (\E b \in BOOLEAN : UpdateWrite(p, b))
           \/ (\E f \in Photos : PhotoUpload(p, f))
           \/ (\E f \in Photos : PhotoThrows(p, f)) \/ PhotoDelete(p)
  BY <1>2 DEF ClearRead, ReadList, ClearDel, DelList, ClearReadOwn,
              ClearDelOwn, FillRead, Read, OwnRead, FillPhotos, FillSet,
              SetPage, CacheSet, OwnSet, UpdateWrite, PhotoUpload,
              NeverUploaded, UploadFile, PhotoFails, PhotoThrows, PhotoDelete,
              DeleteFiles
<1>3. CASE \/ (\E f \in Reports : ReportRender(p, f))
           \/ (\E f \in Reports : ReportUpload(p, f)) \/ ReportDelete(p)
           \/ SweepDelete(p)
  BY <1>3 DEF ReportRender, NeverUploaded, ReportUpload, UploadFile,
              ReportDelete, DeleteFiles, SweepDelete, DeleteSeveral
<1>4. CASE \/ PhotosRead(p) \/ PhotosDelete(p) \/ ContractsRead(p)
           \/ ReportsRead(p) \/ ReportsDelete(p) \/ InterestFind(p)
           \/ (\E i \in Interests : InterestCreate(p, i)) \/ InterestTell(p)
           \/ DecideWrite(p) \/ DecideTell(p)
  BY <1>4 DEF PhotosRead, PhotosDelete, DeleteSeveral, ContractsRead,
              ReportsRead, ReportsDelete, InterestFind, InterestCreate,
              InterestTell, Tell, DecideWrite, DecideTell
<1> QED
  BY <1>1, <1>2, <1>3, <1>4, SMTT(30) DEF Acts, Begin, Step

\* The cache is cleared, filled, or found to be late.
LEMMA CacheStep ==
  ASSUME NEW p \in Procs, Acts(p)
  PROVE  \/ UNCHANGED cacheVars
         \/ Crash(p)
         \/ ClearDel(p)
         \/ ClearDelOwn(p)
         \/ FillSet(p)
         \/ OwnSet(p)
         \/ \E f \in Photos : PhotoUpload(p, f)
         \/ \E f \in Photos : PhotoRow(p, f)
         \/ \E f \in Photos : PhotoThrows(p, f)
<1> USE DEF rowVars, cacheVars, interestVars, fileVars, storageVars
<1>1. CASE \/ (\E g \in Pages : StartFill(p, g))
           \/ (\E g \in Pages : StartOwnFill(p, g))
           \/ (\E S \in SUBSET Photos : Create(p, S)) \/ StartUpdate(p)
           \/ (\E S \in SUBSET Photos : StartPhotos(p, S))
           \/ (\E f \in Photos : UpdatePhoto(p, f))
           \/ (\E f \in Photos : StartPhotoDelete(p, f))
           \/ (\E f \in Reports : StartReport(p, f))
           \/ (\E f \in Reports : StartReportDelete(p, f))
           \/ (\E S \in SUBSET Reports : StartSweep(p, S)) \/ StartRemove(p)
           \/ StartContractRemove(p) \/ StartCancel(p) \/ StartInterest(p)
           \/ (\E i \in Interests, s \in InterestStatus :
                  StartDecide(p, i, s))
  BY <1>1 DEF StartFill, Ask, StartOwnFill, Create, StartUpdate, StartPhotos,
              UploadStarts, UpdatePhoto, StartPhotoDelete, StartReport,
              StartReportDelete, StartSweep, StartRemove, RemovalStarts,
              StartContractRemove, StartCancel, StartInterest, StartDecide
<1>2. CASE \/ ClearRead(p) \/ ClearReadOwn(p) \/ FillRead(p) \/ OwnRead(p)
           \/ FillPhotos(p) \/ (\E b \in BOOLEAN : UpdateWrite(p, b))
           \/ PhotoDelete(p) \/ PhotoUnrow(p)
  BY <1>2 DEF ClearRead, ReadList, ClearReadOwn, FillRead, Read, OwnRead,
              FillPhotos, UpdateWrite, PhotoDelete, DeleteFiles,
              PhotoUnrow
<1>3. CASE \/ (\E f \in Reports : ReportRender(p, f))
           \/ (\E f \in Reports : ReportUpload(p, f)) \/ ReportRow(p)
           \/ ReportDelete(p) \/ ReportUnrow(p) \/ SweepDelete(p)
           \/ SweepUnrow(p)
  BY <1>3 DEF ReportRender, NeverUploaded, ReportUpload, UploadFile, ReportRow,
              ReportDelete, DeleteFiles, ReportUnrow, SweepDelete,
              DeleteSeveral, SweepUnrow
<1>4. CASE \/ PhotosRead(p) \/ PhotosDelete(p) \/ PhotosUnrow(p)
           \/ ContractsRead(p) \/ ReportsRead(p) \/ ReportsDelete(p)
           \/ ReportsUnrow(p) \/ ContractUnrow(p) \/ PropertyUnrow(p)
           \/ InterestFind(p) \/ (\E i \in Interests : InterestCreate(p, i))
           \/ InterestTell(p) \/ DecideWrite(p) \/ DecideTell(p)
  BY <1>4, Zenon DEF PhotosRead, PhotosDelete, DeleteSeveral, PhotosUnrow,
              ContractsRead, ReportsRead, ReportsDelete, ReportsUnrow,
              ContractUnrow, PropertyUnrow, InterestFind, InterestCreate,
              InterestTell, Tell, DecideWrite, DecideTell
<1> QED
  BY <1>1, <1>2, <1>3, <1>4, SMTT(30) DEF Acts, Begin, Step

\* Interests are shown, decided, told, and go with the property.
LEMMA InterestStep ==
  ASSUME NEW p \in Procs, Acts(p)
  PROVE  \/ UNCHANGED interestVars
         \/ PropertyUnrow(p)
         \/ \E i \in Interests : InterestCreate(p, i)
         \/ InterestTell(p)
         \/ DecideWrite(p)
         \/ DecideTell(p)
<1> USE DEF rowVars, cacheVars, interestVars, fileVars, storageVars
<1>1. CASE \/ (\E g \in Pages : StartFill(p, g))
           \/ (\E g \in Pages : StartOwnFill(p, g))
           \/ (\E S \in SUBSET Photos : Create(p, S)) \/ StartUpdate(p)
           \/ (\E S \in SUBSET Photos : StartPhotos(p, S))
           \/ (\E f \in Photos : UpdatePhoto(p, f))
           \/ (\E f \in Photos : StartPhotoDelete(p, f))
           \/ (\E f \in Reports : StartReport(p, f))
           \/ (\E f \in Reports : StartReportDelete(p, f))
           \/ (\E S \in SUBSET Reports : StartSweep(p, S)) \/ StartRemove(p)
           \/ StartContractRemove(p) \/ StartCancel(p) \/ StartInterest(p)
           \/ (\E i \in Interests, s \in InterestStatus :
                  StartDecide(p, i, s))
           \/ Crash(p)
  BY <1>1 DEF StartFill, Ask, StartOwnFill, Create, StartUpdate, StartPhotos,
              UploadStarts, UpdatePhoto, StartPhotoDelete, StartReport,
              StartReportDelete, StartSweep, StartRemove, RemovalStarts,
              StartContractRemove, StartCancel, StartInterest, StartDecide,
              Crash
<1>2. CASE \/ ClearRead(p) \/ ClearDel(p) \/ ClearReadOwn(p) \/ ClearDelOwn(p)
           \/ FillRead(p) \/ OwnRead(p) \/ FillPhotos(p) \/ FillSet(p)
           \/ OwnSet(p) \/ (\E b \in BOOLEAN : UpdateWrite(p, b))
           \/ (\E f \in Photos : PhotoUpload(p, f))
           \/ (\E f \in Photos : PhotoRow(p, f))
           \/ (\E f \in Photos : PhotoThrows(p, f)) \/ PhotoDelete(p)
           \/ PhotoUnrow(p)
  BY <1>2 DEF ClearRead, ReadList, ClearDel, DelList, ClearReadOwn,
              ClearDelOwn, FillRead, Read, OwnRead, FillPhotos, FillSet,
              SetPage, CacheSet, OwnSet, UpdateWrite, PhotoUpload,
              NeverUploaded, UploadFile, PhotoRow, PhotoFails, PhotoMade,
              PhotoThrows, PhotoDelete, DeleteFiles, PhotoUnrow
<1>3. CASE \/ (\E f \in Reports : ReportRender(p, f))
           \/ (\E f \in Reports : ReportUpload(p, f)) \/ ReportRow(p)
           \/ ReportDelete(p) \/ ReportUnrow(p) \/ SweepDelete(p)
           \/ SweepUnrow(p)
  BY <1>3 DEF ReportRender, NeverUploaded, ReportUpload, UploadFile, ReportRow,
              ReportDelete, DeleteFiles, ReportUnrow, SweepDelete,
              DeleteSeveral, SweepUnrow
<1>4. CASE \/ PhotosRead(p) \/ PhotosDelete(p) \/ PhotosUnrow(p)
           \/ ContractsRead(p) \/ ReportsRead(p) \/ ReportsDelete(p)
           \/ ReportsUnrow(p) \/ ContractUnrow(p) \/ InterestFind(p)
  BY <1>4 DEF PhotosRead, PhotosDelete, DeleteSeveral, PhotosUnrow,
              ContractsRead, ReportsRead, ReportsDelete, ReportsUnrow,
              ContractUnrow, InterestFind
<1> QED
  BY <1>1, <1>2, <1>3, <1>4, SMTT(30) DEF Acts, Begin, Step

\* The storage is asked by these; what fails is remembered.
LEMMA StorageStep ==
  ASSUME NEW p \in Procs, Acts(p)
  PROVE  \/ UNCHANGED <<storageVars, lost>>
         \/ Crash(p)
         \/ \E f \in Photos : PhotoUpload(p, f)
         \/ \E f \in Photos : PhotoThrows(p, f)
         \/ PhotoDelete(p)
         \/ \E f \in Reports : ReportUpload(p, f)
         \/ ReportDelete(p)
         \/ SweepDelete(p)
         \/ PhotosDelete(p)
         \/ ReportsDelete(p)
<1> USE DEF rowVars, cacheVars, interestVars, fileVars, storageVars
<1>1. CASE \/ (\E g \in Pages : StartFill(p, g))
           \/ (\E g \in Pages : StartOwnFill(p, g))
           \/ (\E S \in SUBSET Photos : Create(p, S)) \/ StartUpdate(p)
           \/ (\E S \in SUBSET Photos : StartPhotos(p, S))
           \/ (\E f \in Photos : UpdatePhoto(p, f))
           \/ (\E f \in Photos : StartPhotoDelete(p, f))
           \/ (\E f \in Reports : StartReport(p, f))
           \/ (\E f \in Reports : StartReportDelete(p, f))
           \/ (\E S \in SUBSET Reports : StartSweep(p, S)) \/ StartRemove(p)
           \/ StartContractRemove(p) \/ StartCancel(p) \/ StartInterest(p)
           \/ (\E i \in Interests, s \in InterestStatus :
                  StartDecide(p, i, s))
  BY <1>1 DEF StartFill, Ask, StartOwnFill, Create, StartUpdate, StartPhotos,
              UploadStarts, UpdatePhoto, StartPhotoDelete, StartReport,
              StartReportDelete, StartSweep, StartRemove, RemovalStarts,
              StartContractRemove, StartCancel, StartInterest, StartDecide
<1>2. CASE \/ ClearRead(p) \/ ClearDel(p) \/ ClearReadOwn(p) \/ ClearDelOwn(p)
           \/ FillRead(p) \/ OwnRead(p) \/ FillPhotos(p) \/ FillSet(p)
           \/ OwnSet(p) \/ (\E b \in BOOLEAN : UpdateWrite(p, b))
           \/ (\E f \in Photos : PhotoRow(p, f)) \/ PhotoUnrow(p)
  BY <1>2 DEF ClearRead, ReadList, ClearDel, DelList, ClearReadOwn,
              ClearDelOwn, FillRead, Read, OwnRead, FillPhotos, FillSet,
              SetPage, CacheSet, OwnSet, UpdateWrite, PhotoRow, PhotoFails,
              PhotoMade, PhotoUnrow
<1>3. CASE \/ (\E f \in Reports : ReportRender(p, f)) \/ ReportRow(p)
           \/ ReportUnrow(p) \/ SweepUnrow(p)
  BY <1>3 DEF ReportRender, NeverUploaded, ReportRow, ReportUnrow, SweepUnrow
<1>4. CASE \/ PhotosRead(p) \/ PhotosUnrow(p) \/ ContractsRead(p)
           \/ ReportsRead(p) \/ ReportsUnrow(p) \/ ContractUnrow(p)
           \/ PropertyUnrow(p) \/ InterestFind(p)
           \/ (\E i \in Interests : InterestCreate(p, i)) \/ InterestTell(p)
           \/ DecideWrite(p) \/ DecideTell(p)
  BY <1>4 DEF PhotosRead, PhotosUnrow, ContractsRead, ReportsRead,
              ReportsUnrow, ContractUnrow, PropertyUnrow, InterestFind,
              InterestCreate, InterestTell, Tell, DecideWrite, DecideTell
<1> QED
  BY <1>1, <1>2, <1>3, <1>4, SMTT(30) DEF Acts, Begin, Step

\* What a removal overlaps is remembered, and forgotten if it came to nothing.
LEMMA RacedStep ==
  ASSUME NEW p \in Procs, Acts(p)
  PROVE  \/ UNCHANGED raced
         \/ \E S \in SUBSET Photos : StartPhotos(p, S)
         \/ \E f \in Reports : StartReport(p, f)
         \/ StartRemove(p)
         \/ StartContractRemove(p)
         \/ StartCancel(p)
         \/ Crash(p)
         \/ \E f \in Photos : PhotoUpload(p, f)
         \/ \E f \in Reports : ReportRender(p, f)
         \/ \E f \in Reports : ReportUpload(p, f)
<1> USE DEF rowVars, cacheVars, interestVars, fileVars, storageVars
<1>1. CASE \/ (\E g \in Pages : StartFill(p, g))
           \/ (\E g \in Pages : StartOwnFill(p, g))
           \/ (\E S \in SUBSET Photos : Create(p, S)) \/ StartUpdate(p)
           \/ (\E f \in Photos : UpdatePhoto(p, f))
           \/ (\E f \in Photos : StartPhotoDelete(p, f))
           \/ (\E f \in Reports : StartReportDelete(p, f))
           \/ (\E S \in SUBSET Reports : StartSweep(p, S)) \/ StartInterest(p)
           \/ (\E i \in Interests, s \in InterestStatus :
                  StartDecide(p, i, s))
  BY <1>1 DEF StartFill, Ask, StartOwnFill, Create, StartUpdate, UpdatePhoto,
              StartPhotoDelete, StartReportDelete, StartSweep, StartInterest,
              StartDecide
<1>2. CASE \/ ClearRead(p) \/ ClearDel(p) \/ ClearReadOwn(p) \/ ClearDelOwn(p)
           \/ FillRead(p) \/ OwnRead(p) \/ FillPhotos(p) \/ FillSet(p)
           \/ OwnSet(p) \/ (\E b \in BOOLEAN : UpdateWrite(p, b))
           \/ (\E f \in Photos : PhotoRow(p, f))
           \/ (\E f \in Photos : PhotoThrows(p, f)) \/ PhotoDelete(p)
           \/ PhotoUnrow(p)
  BY <1>2 DEF ClearRead, ReadList, ClearDel, DelList, ClearReadOwn,
              ClearDelOwn, FillRead, Read, OwnRead, FillPhotos, FillSet,
              SetPage, CacheSet, OwnSet, UpdateWrite, PhotoRow, PhotoFails,
              PhotoMade, PhotoThrows, PhotoDelete, DeleteFiles, PhotoUnrow
<1>3. CASE \/ ReportRow(p) \/ ReportDelete(p) \/ ReportUnrow(p)
           \/ SweepDelete(p) \/ SweepUnrow(p)
  BY <1>3 DEF ReportRow, ReportDelete, DeleteFiles, ReportUnrow, SweepDelete,
              DeleteSeveral, SweepUnrow
<1>4. CASE \/ PhotosRead(p) \/ PhotosDelete(p) \/ PhotosUnrow(p)
           \/ ContractsRead(p) \/ ReportsRead(p) \/ ReportsDelete(p)
           \/ ReportsUnrow(p) \/ ContractUnrow(p) \/ PropertyUnrow(p)
           \/ InterestFind(p) \/ (\E i \in Interests : InterestCreate(p, i))
           \/ InterestTell(p) \/ DecideWrite(p) \/ DecideTell(p)
  BY <1>4 DEF PhotosRead, PhotosDelete, DeleteSeveral, PhotosUnrow,
              ContractsRead, ReportsRead, ReportsDelete, ReportsUnrow,
              ContractUnrow, PropertyUnrow, InterestFind, InterestCreate,
              InterestTell, Tell, DecideWrite, DecideTell
<1> QED
  BY <1>1, <1>2, <1>3, <1>4, SMTT(30) DEF Acts, Begin, Step

\* Updates are counted as they begin, failures as they occur.
LEMMA CountsStep ==
  ASSUME NEW p \in Procs, Acts(p)
  PROVE  \/ UNCHANGED <<updates, crashes>>
         \/ StartUpdate(p)
         \/ Crash(p)
         \/ \E f \in Photos : PhotoThrows(p, f)
<1> USE DEF rowVars, cacheVars, interestVars, fileVars, storageVars
<1>1. CASE \/ (\E g \in Pages : StartFill(p, g))
           \/ (\E g \in Pages : StartOwnFill(p, g))
           \/ (\E S \in SUBSET Photos : Create(p, S))
           \/ (\E S \in SUBSET Photos : StartPhotos(p, S))
           \/ (\E f \in Photos : UpdatePhoto(p, f))
           \/ (\E f \in Photos : StartPhotoDelete(p, f))
           \/ (\E f \in Reports : StartReport(p, f))
           \/ (\E f \in Reports : StartReportDelete(p, f))
           \/ (\E S \in SUBSET Reports : StartSweep(p, S)) \/ StartRemove(p)
           \/ StartContractRemove(p) \/ StartCancel(p) \/ StartInterest(p)
           \/ (\E i \in Interests, s \in InterestStatus :
                  StartDecide(p, i, s))
  BY <1>1 DEF StartFill, Ask, StartOwnFill, Create, StartPhotos, UploadStarts,
              UpdatePhoto, StartPhotoDelete, StartReport, StartReportDelete,
              StartSweep, StartRemove, RemovalStarts, StartContractRemove,
              StartCancel, StartInterest, StartDecide
<1>2. CASE \/ ClearRead(p) \/ ClearDel(p) \/ ClearReadOwn(p) \/ ClearDelOwn(p)
           \/ FillRead(p) \/ OwnRead(p) \/ FillPhotos(p) \/ FillSet(p)
           \/ OwnSet(p) \/ (\E b \in BOOLEAN : UpdateWrite(p, b))
           \/ (\E f \in Photos : PhotoUpload(p, f))
           \/ (\E f \in Photos : PhotoRow(p, f))
           \/ PhotoDelete(p) \/ PhotoUnrow(p)
  BY <1>2 DEF ClearRead, ReadList, ClearDel, DelList, ClearReadOwn,
              ClearDelOwn, FillRead, Read, OwnRead, FillPhotos, FillSet,
              SetPage, CacheSet, OwnSet, UpdateWrite, PhotoUpload,
              NeverUploaded, UploadFile, PhotoRow, PhotoFails, PhotoMade,
              PhotoDelete, DeleteFiles, PhotoUnrow
<1>3. CASE \/ (\E f \in Reports : ReportRender(p, f))
           \/ (\E f \in Reports : ReportUpload(p, f)) \/ ReportRow(p)
           \/ ReportDelete(p) \/ ReportUnrow(p) \/ SweepDelete(p)
           \/ SweepUnrow(p)
  BY <1>3 DEF ReportRender, NeverUploaded, ReportUpload, UploadFile, ReportRow,
              ReportDelete, DeleteFiles, ReportUnrow, SweepDelete,
              DeleteSeveral, SweepUnrow
<1>4. CASE \/ PhotosRead(p) \/ PhotosDelete(p) \/ PhotosUnrow(p)
           \/ ContractsRead(p) \/ ReportsRead(p) \/ ReportsDelete(p)
           \/ ReportsUnrow(p) \/ ContractUnrow(p) \/ PropertyUnrow(p)
           \/ InterestFind(p) \/ (\E i \in Interests : InterestCreate(p, i))
           \/ InterestTell(p) \/ DecideWrite(p) \/ DecideTell(p)
  BY <1>4 DEF PhotosRead, PhotosDelete, DeleteSeveral, PhotosUnrow,
              ContractsRead, ReportsRead, ReportsDelete, ReportsUnrow,
              ContractUnrow, PropertyUnrow, InterestFind, InterestCreate,
              InterestTell, Tell, DecideWrite, DecideTell
<1> QED
  BY <1>1, <1>2, <1>3, <1>4, SMTT(30) DEF Acts, Begin, Step

-----------------------------------------------------------------------------
(* Tasks.                                                                  *)

\* What a handler knows.
Task == [op : Ops, then : Ops, files : SUBSET Files, page : Pages \cup {None},
         pages : SUBSET Pages, seen : Showing,
         interest : Interests \cup {None}, status : InterestStatus]

\* The task of a handler that does nothing.
LEMMA Idle ==
  /\ IdleTask \in Task
  /\ IdleTask.op = "idle"
  /\ IdleTask.then = "idle"
  /\ IdleTask.files = {}
  /\ IdleTask.page = None
  /\ IdleTask.interest = None
  /\ IdleTask.status = "PENDING"
BY DEF IdleTask, Task, Ops, Nothing, Showing, InterestStatus

\* Only the task of p changes.
Others(p) ==
  /\ task' \in [Procs -> Task]
  /\ \A q \in Procs \ {p} : task'[q] = task[q]

\* The step, the step after it, and the objects of a handler.
Turned(p, op, then, files) ==
  /\ Others(p)
  /\ task'[p].op = op
  /\ task'[p].then = then
  /\ task'[p].files = files

\* The handler goes on to a step with what it knows.
Kept(p, op) ==
  /\ Turned(p, op, task[p].then, task[p].files)
  /\ task'[p].page = task[p].page
  /\ task'[p].interest = task[p].interest
  /\ task'[p].status = task[p].status

\* The handler starts afresh.
Blank(p, op, then, files) ==
  /\ Turned(p, op, then, files)
  /\ task'[p].status = "PENDING"

\* The handler is idle.
Ended(p) == Blank(p, "idle", "idle", {})

\* The handler goes on with photos that are left, or with none.
Failed(p, f) ==
  \/ task[p].files = {f} /\ Ended(p)
  \/ Blank(p, "photo_stray", "idle", task[p].files \ {f})

Left(p, f) == Turned(p, task[p].op, task[p].then, task[p].files \ {f})

\* The tasks of the other handlers stay.
LEMMA Continued ==
  ASSUME TypeOK, NEW p \in Procs, NEW t \in Task, Continue(p, t)
  PROVE  Others(p) /\ task'[p] = t
<1>1. task \in [Procs -> Task]
  BY DEF TypeOK, Task
<1> QED
  BY <1>1 DEF Others, Continue

\* A handler that finished is idle.
LEMMA Finished ==
  ASSUME TypeOK, NEW p \in Procs, Finish(p)
  PROVE  Ended(p)
BY Continued, Idle DEF Finish, Ended, Blank, Turned

\* Another step of the same task.
LEMMA Proceeded ==
  ASSUME TypeOK, NEW p \in Procs, NEW op \in Ops,
         Continue(p, [task[p] EXCEPT !.op = op])
  PROVE  Kept(p, op)
<1>1. task[p] \in Task
  BY DEF TypeOK, Task
<1> DEFINE t == [task[p] EXCEPT !.op = op]
<1>2. /\ t \in Task
      /\ t.op = op
      /\ t.then = task[p].then
      /\ t.files = task[p].files
      /\ t.page = task[p].page
      /\ t.interest = task[p].interest
      /\ t.status = task[p].status
  BY <1>1 DEF Task
<1> HIDE DEF t
<1>3. Continue(p, t)
  BY DEF t
<1> QED
  BY <1>2, <1>3, Continued DEF Kept, Turned

\* What a task says of its handler.
LEMMA Turns ==
  ASSUME TypeOK, NEW p \in Procs, NEW t \in Task, Continue(p, t)
  PROVE  /\ Turned(p, t.op, t.then, t.files)
         /\ t.status = "PENDING" => Blank(p, t.op, t.then, t.files)
         /\ task'[p].page = t.page
         /\ task'[p].interest = t.interest
         /\ task'[p].status = t.status
BY Continued DEF Turned, Blank

\* A task that starts.
LEMMA Started ==
  ASSUME TypeOK, NEW p \in Procs, NEW op \in Ops, NEW then \in Ops,
         NEW F \in SUBSET Files
  PROVE  /\ Continue(p, [IdleTask EXCEPT !.op = op]) =>
              Blank(p, op, "idle", {})
         /\ Continue(p, [IdleTask EXCEPT !.op = op, !.then = then]) =>
              Blank(p, op, then, {})
         /\ Continue(p, [IdleTask EXCEPT !.op = op, !.files = F]) =>
              Blank(p, op, "idle", F)
         /\ Continue(p, [IdleTask EXCEPT !.op = op, !.files = F,
                                         !.then = then]) =>
              Blank(p, op, then, F)
<1>1. ASSUME Continue(p, [IdleTask EXCEPT !.op = op])
      PROVE  Blank(p, op, "idle", {})
  <2> DEFINE t == [IdleTask EXCEPT !.op = op]
  <2>1. /\ t \in Task
        /\ t.op = op
        /\ t.then = "idle"
        /\ t.files = {}
        /\ t.status = "PENDING"
    BY Idle DEF Task
  <2>2. Continue(p, t)
    BY <1>1
  <2> HIDE DEF t
  <2> QED
    BY <2>1, <2>2, Turns
<1>2. ASSUME Continue(p, [IdleTask EXCEPT !.op = op, !.then = then])
      PROVE  Blank(p, op, then, {})
  <2> DEFINE t == [IdleTask EXCEPT !.op = op, !.then = then]
  <2>1. /\ t \in Task
        /\ t.op = op
        /\ t.then = then
        /\ t.files = {}
        /\ t.status = "PENDING"
    BY Idle DEF Task
  <2>2. Continue(p, t)
    BY <1>2
  <2> HIDE DEF t
  <2> QED
    BY <2>1, <2>2, Turns
<1>3. ASSUME Continue(p, [IdleTask EXCEPT !.op = op, !.files = F])
      PROVE  Blank(p, op, "idle", F)
  <2> DEFINE t == [IdleTask EXCEPT !.op = op, !.files = F]
  <2>1. /\ t \in Task
        /\ t.op = op
        /\ t.then = "idle"
        /\ t.files = F
        /\ t.status = "PENDING"
    BY Idle DEF Task
  <2>2. Continue(p, t)
    BY <1>3
  <2> HIDE DEF t
  <2> QED
    BY <2>1, <2>2, Turns
<1>4. ASSUME Continue(p, [IdleTask EXCEPT !.op = op, !.files = F,
                                          !.then = then])
      PROVE  Blank(p, op, then, F)
  <2> DEFINE t == [IdleTask EXCEPT !.op = op, !.files = F, !.then = then]
  <2>1. /\ t \in Task
        /\ t.op = op
        /\ t.then = then
        /\ t.files = F
        /\ t.status = "PENDING"
    BY Idle DEF Task
  <2>2. Continue(p, t)
    BY <1>4
  <2> HIDE DEF t
  <2> QED
    BY <2>1, <2>2, Turns
<1> QED
  BY <1>1, <1>2, <1>3, <1>4

\* A task that clears the cache.
LEMMA ClearBegins ==
  ASSUME TypeOK, NEW p \in Procs, NEW then \in Ops,
         Continue(p, Clearing(then))
  PROVE  Blank(p, "clear_read", then, {})
<1>1. "clear_read" \in Ops
  BY DEF Ops
<1>2. {} \in SUBSET Files
  OBVIOUS
<1> QED
  BY <1>1, <1>2, Started, Zenon DEF Clearing

\* A task that asks for a page.
LEMMA AskMoves ==
  ASSUME TypeOK, NEW p \in Procs, NEW op \in Ops, NEW g \in Pages,
         Ask(p, g, op)
  PROVE  Blank(p, op, "idle", {}) /\ task'[p].page = g
<1> DEFINE t == [IdleTask EXCEPT !.op = op, !.page = g]
<1>1. /\ t \in Task
      /\ t.op = op
      /\ t.then = "idle"
      /\ t.files = {}
      /\ t.page = g
      /\ t.status = "PENDING"
  BY Idle DEF Task
<1>2. Continue(p, t)
  BY DEF Ask, Start
<1> HIDE DEF t
<1> QED
  BY <1>1, <1>2, Turns

\* A task that decides.
LEMMA DecideMoves ==
  ASSUME TypeOK, NEW p \in Procs, NEW i \in Interests,
         NEW s \in InterestStatus, StartDecide(p, i, s)
  PROVE  Turned(p, "decide_write", "idle", {}) /\ task'[p].interest = i
<1> DEFINE t == [IdleTask EXCEPT !.op = "decide_write", !.interest = i,
                                 !.status = s]
<1>1. /\ t \in Task
      /\ t.op = "decide_write"
      /\ t.then = "idle"
      /\ t.files = {}
      /\ t.interest = i
  BY Idle DEF Task, Ops
<1>2. Continue(p, t)
  BY DEF StartDecide, Start
<1> HIDE DEF t
<1> QED
  BY <1>1, <1>2, Turns

\* How handlers begin.
LEMMA BeginMoves ==
  ASSUME TypeOK, NEW p \in Procs
  PROVE  /\ \A g \in Pages :
              /\ StartFill(p, g) =>
                   Blank(p, "fill_read", "idle", {}) /\ task'[p].page = g
              /\ StartOwnFill(p, g) =>
                   Blank(p, "own_read", "idle", {}) /\ task'[p].page = g
         /\ \A S \in SUBSET Photos :
              /\ Create(p, S) => IF S = {}
                                 THEN Blank(p, "clear_read", "idle", {})
                                 ELSE Blank(p, "photo_upload", "clear_read", S)
              /\ StartPhotos(p, S) => Blank(p, "photo_upload", "idle", S)
         /\ \A f \in Photos :
              /\ UpdatePhoto(p, f) => Blank(p, "clear_read", "idle", {})
              /\ StartPhotoDelete(p, f) =>
                   Blank(p, "photo_delete", "idle", {f})
         /\ \A f \in Reports :
              /\ StartReport(p, f) => Blank(p, "report_render", "idle", {f})
              /\ StartReportDelete(p, f) =>
                   Blank(p, "report_delete", "idle", {f})
         /\ \A S \in SUBSET Reports :
              StartSweep(p, S) => Blank(p, "sweep_delete", "idle", S)
         /\ StartUpdate(p) => Blank(p, "update_write", "idle", {})
         /\ StartRemove(p) => Blank(p, "photos_read", "idle", {})
         /\ StartContractRemove(p) =>
              Blank(p, "reports_read", "contract_unrow", {})
         /\ StartCancel(p) => Blank(p, "reports_read", "idle", {})
         /\ StartInterest(p) => Blank(p, "interest_find", "idle", {})
         /\ \A i \in Interests, s \in InterestStatus : StartDecide(p, i, s) =>
              /\ Turned(p, "decide_write", "idle", {})
              /\ task'[p].interest = i
<1>o. {"idle", "clear_read", "update_write", "photo_upload", "photo_delete",
       "fill_read", "own_read", "report_render", "report_delete",
       "photos_read", "reports_read", "sweep_delete", "contract_unrow",
       "interest_find", "decide_write"} \subseteq Ops
  BY DEF Ops
<1>f. /\ Photos \subseteq Files
      /\ Reports \subseteq Files
      /\ None \notin Files
  BY ListingsAssumption, StorageAssumption
<1>1. ASSUME NEW g \in Pages
      PROVE  /\ StartFill(p, g) =>
                  Blank(p, "fill_read", "idle", {}) /\ task'[p].page = g
             /\ StartOwnFill(p, g) =>
                  Blank(p, "own_read", "idle", {}) /\ task'[p].page = g
  BY <1>o, AskMoves DEF StartFill, StartOwnFill
<1>c. Continue(p, Clearing("idle")) => Blank(p, "clear_read", "idle", {})
  BY <1>o, ClearBegins
<1>2. ASSUME NEW S \in SUBSET Photos
      PROVE  /\ Create(p, S) => IF S = {}
                                THEN Blank(p, "clear_read", "idle", {})
                                ELSE Blank(p, "photo_upload", "clear_read", S)
             /\ StartPhotos(p, S) => Blank(p, "photo_upload", "idle", S)
  <2>1. S \in SUBSET Files
    BY <1>f
  <2>2. /\ Create(p, S) /\ S = {} => Continue(p, Clearing("idle"))
        /\ Create(p, S) /\ S # {} =>
             Continue(p, [IdleTask EXCEPT !.op = "photo_upload", !.files = S,
                                          !.then = "clear_read"])
        /\ StartPhotos(p, S) =>
             Continue(p, [IdleTask EXCEPT !.op = "photo_upload", !.files = S])
    BY DEF Create, StartPhotos, Start
  <2> QED
    BY <1>c, <1>o, <2>1, <2>2, Started
<1>3. ASSUME NEW f \in Photos
      PROVE  /\ UpdatePhoto(p, f) => Blank(p, "clear_read", "idle", {})
             /\ StartPhotoDelete(p, f) =>
                  Blank(p, "photo_delete", "idle", {f})
  <2>1. {f} \in SUBSET Files /\ f # None
    BY <1>f
  <2> DEFINE t(op) == [IdleTask EXCEPT !.op = op, !.files = {f}]
  <2>2. StartPhotoDelete(p, f) => Continue(p, t("photo_delete"))
    BY <2>1 DEF StartPhotoDelete, Start
  <2>3. UpdatePhoto(p, f) => Continue(p, Clearing("idle"))
    BY DEF UpdatePhoto, Start
  <2> QED
    BY <1>c, <1>o, <2>1, <2>2, <2>3, Started
<1>4. ASSUME NEW f \in Reports
      PROVE  /\ StartReport(p, f) => Blank(p, "report_render", "idle", {f})
             /\ StartReportDelete(p, f) =>
                  Blank(p, "report_delete", "idle", {f})
  <2>1. {f} \in SUBSET Files
    BY <1>f
  <2> QED
    BY <1>o, <2>1, Started DEF StartReport, StartReportDelete, Start
<1>5. ASSUME NEW S \in SUBSET Reports
      PROVE  StartSweep(p, S) => Blank(p, "sweep_delete", "idle", S)
  <2>1. S \in SUBSET Files
    BY <1>f
  <2> QED
    BY <1>o, <2>1, Started DEF StartSweep, Start
<1>6. /\ StartUpdate(p) => Blank(p, "update_write", "idle", {})
      /\ StartRemove(p) => Blank(p, "photos_read", "idle", {})
      /\ StartInterest(p) => Blank(p, "interest_find", "idle", {})
  <2>1. /\ StartUpdate(p) =>
             Continue(p, [IdleTask EXCEPT !.op = "update_write"])
        /\ StartRemove(p) =>
             Continue(p, [IdleTask EXCEPT !.op = "photos_read"])
        /\ StartInterest(p) =>
             Continue(p, [IdleTask EXCEPT !.op = "interest_find"])
    BY DEF StartUpdate, StartRemove, StartInterest, Start
  <2> QED
    BY <1>o, <2>1, Started, {} \in SUBSET Files
<1>7. /\ StartContractRemove(p) =>
           Blank(p, "reports_read", "contract_unrow", {})
      /\ StartCancel(p) => Blank(p, "reports_read", "idle", {})
  <2>1. /\ StartContractRemove(p) =>
             Continue(p, [IdleTask EXCEPT !.op = "reports_read",
                                          !.then = "contract_unrow"])
        /\ StartCancel(p) =>
             Continue(p, [IdleTask EXCEPT !.op = "reports_read"])
    BY DEF StartContractRemove, StartCancel, Start
  <2> QED
    BY <1>o, <2>1, Started, {} \in SUBSET Files
<1> QED
  BY <1>1, <1>2, <1>3, <1>4, <1>5, <1>6, <1>7, DecideMoves

\* How handlers of the cache go on.
LEMMA CacheMoves ==
  ASSUME TypeOK, NEW p \in Procs
  PROVE  /\ ClearRead(p) =>
              \/ Blank(p, "clear_read_own", task[p].then, {})
              \/ Kept(p, "clear_del")
         /\ ClearDel(p) => Blank(p, "clear_read_own", task[p].then, {})
         /\ ClearReadOwn(p) =>
              \/ Blank(p, task[p].then, "idle", {})
              \/ Kept(p, "clear_del_own")
         /\ ClearDelOwn(p) => Blank(p, task[p].then, "idle", {})
         /\ FillRead(p) \/ OwnRead(p) =>
              \/ Kept(p, "fill_photos")
              \/ Kept(p, "own_set")
              \/ Kept(p, "fill_set")
         /\ FillPhotos(p) => Kept(p, "own_set") \/ Kept(p, "fill_set")
         /\ FillSet(p) \/ OwnSet(p) => Ended(p)
<1>o. {"clear_read_own", "clear_del", "clear_del_own", "fill_photos",
       "own_set", "fill_set"} \subseteq Ops
  BY DEF Ops
<1>t. /\ task[p] \in Task
      /\ task[p].then \in Ops
      /\ tracked \subseteq Pages
      /\ photos \subseteq Photos
      /\ available \in BOOLEAN
  BY DEF TypeOK, Task
<1>1. ASSUME NEW list, NEW op \in Ops,
             Continue(p, [task[p] EXCEPT !.op = op,
                                         !.pages = tracked \cap list])
      PROVE  Kept(p, op)
  <2> DEFINE t == [task[p] EXCEPT !.op = op, !.pages = tracked \cap list]
  <2>1. /\ t \in Task
        /\ t.op = op
        /\ t.then = task[p].then
        /\ t.files = task[p].files
        /\ t.page = task[p].page
        /\ t.interest = task[p].interest
        /\ t.status = task[p].status
    BY <1>t DEF Task
  <2>2. Continue(p, t)
    BY <1>1
  <2> HIDE DEF t
  <2> QED
    BY <2>1, <2>2, Turns DEF Kept
<1>2. /\ Continue(p, ToOwn(p)) => Blank(p, "clear_read_own", task[p].then, {})
      /\ Continue(p, Cleared(p)) => Blank(p, task[p].then, "idle", {})
  BY <1>o, <1>t, Started, {} \in SUBSET Files DEF ToOwn, Cleared
<1>3. /\ ClearRead(p) => \/ Blank(p, "clear_read_own", task[p].then, {})
                         \/ Kept(p, "clear_del")
      /\ ClearReadOwn(p) => \/ Blank(p, task[p].then, "idle", {})
                            \/ Kept(p, "clear_del_own")
  BY <1>1, <1>2, <1>o DEF ClearRead, ClearReadOwn, ReadList
<1>4. /\ ClearDel(p) => Blank(p, "clear_read_own", task[p].then, {})
      /\ ClearDelOwn(p) => Blank(p, task[p].then, "idle", {})
  BY <1>2 DEF ClearDel, ClearDelOwn, DelList
<1>5. ASSUME NEW s \in Showing, NEW op \in Ops,
             Continue(p, [task[p] EXCEPT !.seen = s, !.op = op])
      PROVE  Kept(p, op)
  <2> DEFINE t == [task[p] EXCEPT !.seen = s, !.op = op]
  <2>1. /\ t \in Task
        /\ t.op = op
        /\ t.then = task[p].then
        /\ t.files = task[p].files
        /\ t.page = task[p].page
        /\ t.interest = task[p].interest
        /\ t.status = task[p].status
    BY <1>t DEF Task
  <2>2. Continue(p, t)
    BY <1>5
  <2> HIDE DEF t
  <2> QED
    BY <2>1, <2>2, Turns DEF Kept
<1>6. ASSUME Read(p)
      PROVE  \/ Kept(p, "fill_photos")
             \/ Kept(p, "own_set")
             \/ Kept(p, "fill_set")
  <2> DEFINE now == Listing(task[p].page)
             s == [now EXCEPT !.photos = {}]
             op == IF now.on THEN "fill_photos" ELSE SetOp(task[p].page)
  <2>1. now \in Showing
    <3>1. Shown \subseteq Interests
      BY DEF Shown
    <3>2. Nothing \in Showing
      BY DEF Nothing, Showing
    <3>3. [on |-> TRUE, available |-> available, photos |-> photos,
           interests |-> Shown] \in Showing
      BY <1>t, <3>1 DEF Showing
    <3> QED
      BY <3>2, <3>3 DEF Listing
  <2>2. s \in Showing
    BY <2>1 DEF Showing
  <2>3. op \in {"fill_photos", "own_set", "fill_set"}
    BY DEF SetOp
  <2>4. Continue(p, [task[p] EXCEPT !.seen = s, !.op = op])
    BY <1>6 DEF Read
  <2> HIDE DEF now, s, op
  <2> QED
    BY <1>5, <1>o, <2>2, <2>3, <2>4
<1>7. ASSUME FillPhotos(p)
      PROVE  Kept(p, "own_set") \/ Kept(p, "fill_set")
  <2> DEFINE op == SetOp(task[p].page)
             s == [task[p].seen EXCEPT !.photos = photos]
             t == [task[p] EXCEPT !.op = op, !.seen.photos = photos]
  <2>1. op \in {"own_set", "fill_set"}
    BY DEF SetOp
  <2>2. Continue(p, t)
    BY <1>7 DEF FillPhotos
  <2>3. task[p].seen \in Showing
    BY <1>t DEF Task
  <2>4. s \in Showing
    BY <1>t, <2>3 DEF Showing
  <2>5. op \in Ops
    BY <1>o, <2>1
  <2> HIDE DEF op
  <2>6. /\ t \in Task
        /\ t.op = op
        /\ t.then = task[p].then
        /\ t.files = task[p].files
        /\ t.page = task[p].page
        /\ t.interest = task[p].interest
        /\ t.status = task[p].status
    BY <1>t, <2>4, <2>5 DEF Task
  <2> HIDE DEF t
  <2> QED
    BY <2>1, <2>2, <2>6, Turns DEF Kept
<1>8. FillSet(p) \/ OwnSet(p) => Ended(p)
  BY Finished DEF FillSet, OwnSet, SetPage
<1> QED
  BY <1>3, <1>4, <1>6, <1>7, <1>8 DEF FillRead, OwnRead

\* How handlers of the property, its photos and its reports go on.
LEMMA FileMoves ==
  ASSUME TypeOK, NEW p \in Procs
  PROVE  /\ \A b \in BOOLEAN : UpdateWrite(p, b) =>
              Blank(p, "clear_read", "idle", {}) \/ Ended(p)
         /\ \A f \in Photos :
              /\ PhotoUpload(p, f) => \/ Kept(p, task[p].op) /\ UploadFile(f)
                                      \/ Failed(p, f) /\ NeverUploaded(f)
              /\ PhotoRow(p, f) =>
                   \/ Left(p, f)
                   \/ /\ task[p].op = "photo_upload"
                      /\ Blank(p, "clear_read", task[p].then, {})
                      /\ task[p].files = {f}
                   \/ Failed(p, f)
              /\ PhotoThrows(p, f) => Failed(p, f)
         /\ PhotoDelete(p) => Kept(p, "photo_unrow") \/ Ended(p)
         /\ PhotoUnrow(p) => Blank(p, "clear_read", "idle", {}) \/ Ended(p)
         /\ \A f \in Reports :
              /\ ReportRender(p, f) => Kept(p, "report_upload") \/ Ended(p)
              /\ ReportUpload(p, f) => Kept(p, "report_row") \/ Ended(p)
         /\ ReportRow(p) => Ended(p)
         /\ ReportDelete(p) => Kept(p, "report_unrow") \/ Ended(p)
         /\ ReportUnrow(p) => Ended(p)
         /\ SweepDelete(p) => Kept(p, "sweep_unrow")
         /\ SweepUnrow(p) => Ended(p)
<1>o. {"idle", "clear_read", "photo_stray", "photo_unrow", "report_upload",
       "report_row", "report_unrow", "sweep_unrow"} \subseteq Ops
  BY DEF Ops
<1>c. Continue(p, Clearing("idle")) => Blank(p, "clear_read", "idle", {})
  BY <1>o, ClearBegins
<1>p. ASSUME NEW op \in Ops, Proceed(p, op)
      PROVE  Kept(p, op)
  BY <1>p, Proceeded DEF Proceed
<1>1. ASSUME NEW b \in BOOLEAN
      PROVE  UpdateWrite(p, b) =>
               Blank(p, "clear_read", "idle", {}) \/ Ended(p)
  BY <1>c, Finished DEF UpdateWrite
<1>t. /\ task[p] \in Task
      /\ task \in [Procs -> Task]
      /\ task[p].files \in SUBSET Files
      /\ task[p].then \in Ops
  BY DEF TypeOK, Task
<1>f. ASSUME NEW f, PhotoFails(p, f)
      PROVE  Failed(p, f)
  <2>1. CASE task[p].files = {f}
    BY <1>f, <2>1, Finished DEF PhotoFails, Finish, Failed
  <2>2. CASE task[p].files # {f}
    <3>1. task[p].files \ {f} \in SUBSET Files
      BY <1>t
    <3> QED
      BY <1>f, <1>o, <2>2, <3>1, Started DEF PhotoFails, Failed
  <2> QED
    BY <2>1, <2>2
<1>2. ASSUME NEW f \in Photos
      PROVE  /\ PhotoUpload(p, f) => \/ Kept(p, task[p].op) /\ UploadFile(f)
                                     \/ Failed(p, f) /\ NeverUploaded(f)
             /\ PhotoThrows(p, f) => Failed(p, f)
  <2>1. task' = task => Kept(p, task[p].op)
    BY <1>t DEF Kept, Turned, Others
  <2> QED
    BY <1>f, <2>1 DEF PhotoUpload, PhotoThrows
<1>3. ASSUME NEW f \in Photos, PhotoRow(p, f)
      PROVE  \/ Left(p, f)
             \/ /\ task[p].op = "photo_upload"
                /\ Blank(p, "clear_read", task[p].then, {})
                /\ task[p].files = {f}
             \/ Failed(p, f)
  <2>1. CASE PhotoFails(p, f)
    BY <1>f, <2>1
  <2>2. CASE PhotoMade(p, f) /\ task[p].files # {f}
    <3> DEFINE t == [task[p] EXCEPT !.files = @ \ {f}]
    <3>1. Continue(p, t)
      BY <2>2 DEF PhotoMade
    <3>2. /\ t \in Task
          /\ t.op = task[p].op
          /\ t.then = task[p].then
          /\ t.files = task[p].files \ {f}
      BY <1>t DEF Task
    <3> HIDE DEF t
    <3> QED
      BY <3>1, <3>2, Turns DEF Left
  <2>3. CASE PhotoMade(p, f) /\ task[p].files = {f} /\ At(p, "photo_stray")
    BY <2>3, Finished DEF PhotoMade, Finish, Failed
  <2>4. CASE PhotoMade(p, f) /\ task[p].files = {f} /\ ~At(p, "photo_stray")
    <3>1. Continue(p, Clearing(task[p].then))
      BY <2>4 DEF PhotoMade
    <3>2. task[p].op = "photo_upload"
      BY <1>3, <2>4 DEF PhotoRow, UploadingPhotos, At
    <3> QED
      BY <1>t, <2>4, <3>1, <3>2, ClearBegins
  <2> QED
    BY <1>3, <2>1, <2>2, <2>3, <2>4 DEF PhotoRow
<1>9. PhotoUnrow(p) => Blank(p, "clear_read", "idle", {}) \/ Ended(p)
  BY <1>c, Finished DEF PhotoUnrow
<1>4. /\ PhotoDelete(p) => Kept(p, "photo_unrow") \/ Ended(p)
      /\ ReportDelete(p) => Kept(p, "report_unrow") \/ Ended(p)
  BY <1>p, <1>o, Finished DEF PhotoDelete, ReportDelete
<1>5. ASSUME NEW f \in Reports
      PROVE  /\ ReportRender(p, f) => Kept(p, "report_upload") \/ Ended(p)
             /\ ReportUpload(p, f) => Kept(p, "report_row") \/ Ended(p)
  BY <1>p, <1>o, Finished DEF ReportRender, ReportUpload
<1>6. /\ ReportRow(p) => Ended(p)
      /\ ReportUnrow(p) => Ended(p)
      /\ SweepUnrow(p) => Ended(p)
  BY Finished DEF ReportRow, ReportUnrow, SweepUnrow
<1>7. SweepDelete(p) => Kept(p, "sweep_unrow")
  BY <1>p, <1>o DEF SweepDelete, DeleteSeveral
<1> QED
  BY <1>1, <1>2, <1>3, <1>4, <1>5, <1>6, <1>7, <1>9

\* How removals go on.
LEMMA RemoveMoves ==
  ASSUME TypeOK, NEW p \in Procs
  PROVE  /\ PhotosRead(p) =>
              \/ Blank(p, "contracts_read", "idle", {})
              \/ Blank(p, "photos_delete", "idle", photos)
         /\ PhotosDelete(p) => Kept(p, "photos_unrow")
         /\ PhotosUnrow(p) => Blank(p, "clear_read", "contracts_read", {})
         /\ ContractsRead(p) =>
              \/ Blank(p, "reports_read", "property_unrow", {})
              \/ Blank(p, "property_unrow", "idle", {}) /\ ~contract
         /\ ReportsRead(p) =>
              \/ Blank(p, task[p].then, "idle", {}) /\ reports = {}
              \/ Turned(p, "reports_delete", task[p].then, reports)
         /\ ReportsDelete(p) => Kept(p, "reports_unrow")
         /\ ReportsUnrow(p) => Blank(p, task[p].then, "idle", {})
         /\ ContractUnrow(p) => Ended(p)
         /\ PropertyUnrow(p) =>
              \/ Blank(p, "clear_read", "idle", {}) /\ property' = "removed"
              \/ Ended(p) /\ UNCHANGED property
<1>o. {"idle", "clear_read", "contracts_read", "photos_delete",
       "photos_unrow", "reports_read", "property_unrow", "reports_delete",
       "reports_unrow"} \subseteq Ops
  BY DEF Ops
<1>t. /\ task[p] \in Task
      /\ task[p].then \in Ops
      /\ photos \in SUBSET Files
      /\ reports \in SUBSET Files
  BY ListingsAssumption DEF TypeOK, Task
<1>e. {} \in SUBSET Files
  OBVIOUS
<1>p. ASSUME NEW op \in Ops, Proceed(p, op)
      PROVE  Kept(p, op)
  BY <1>p, Proceeded DEF Proceed
<1>1. PhotosRead(p) => \/ Blank(p, "contracts_read", "idle", {})
                       \/ Blank(p, "photos_delete", "idle", photos)
  BY <1>o, <1>t, Started DEF PhotosRead
<1>2. /\ PhotosDelete(p) => Kept(p, "photos_unrow")
      /\ ReportsDelete(p) => Kept(p, "reports_unrow")
  BY <1>p, <1>o DEF PhotosDelete, ReportsDelete, DeleteSeveral
<1>3. PhotosUnrow(p) => Blank(p, "clear_read", "contracts_read", {})
  BY <1>e, <1>o, Started DEF PhotosUnrow, Clearing
<1>4. ContractsRead(p) =>
        \/ Blank(p, "reports_read", "property_unrow", {})
        \/ Blank(p, "property_unrow", "idle", {}) /\ ~contract
  BY <1>e, <1>o, Started DEF ContractsRead
<1>5. ASSUME ReportsRead(p)
      PROVE  \/ Blank(p, task[p].then, "idle", {}) /\ reports = {}
             \/ Turned(p, "reports_delete", task[p].then, reports)
  <2> DEFINE t == [task[p] EXCEPT !.op = "reports_delete", !.files = reports]
  <2>1. CASE reports = {}
    <3>1. Continue(p, [IdleTask EXCEPT !.op = task[p].then])
      BY <1>5, <2>1 DEF ReportsRead
    <3> QED
      BY <1>e, <1>t, <2>1, <3>1, Started
  <2>2. CASE reports # {}
    <3>1. Continue(p, t)
      BY <1>5, <2>2 DEF ReportsRead
    <3>2. /\ t \in Task
          /\ t.op = "reports_delete"
          /\ t.then = task[p].then
          /\ t.files = reports
      BY <1>o, <1>t DEF Task
    <3> HIDE DEF t
    <3> QED
      BY <3>1, <3>2, Turns
  <2> QED
    BY <2>1, <2>2
<1>6. ReportsUnrow(p) => Blank(p, task[p].then, "idle", {})
  BY <1>e, <1>t, Started DEF ReportsUnrow
<1>7. ContractUnrow(p) => Ended(p)
  BY Finished DEF ContractUnrow
<1>8. PropertyUnrow(p) =>
        \/ Blank(p, "clear_read", "idle", {}) /\ property' = "removed"
        \/ Ended(p) /\ UNCHANGED property
  BY <1>e, <1>o, Started, Finished DEF PropertyUnrow, Clearing
<1> QED
  BY <1>1, <1>2, <1>3, <1>4, <1>5, <1>6, <1>7, <1>8

\* How handlers of interests go on, and how any ends.
LEMMA InterestMoves ==
  ASSUME TypeOK, NEW p \in Procs
  PROVE  /\ InterestFind(p) => Kept(p, "interest_create") \/ Ended(p)
         /\ \A i \in Interests : InterestCreate(p, i) =>
              \/ /\ Turned(p, "interest_tell", task[p].then, task[p].files)
                 /\ task'[p].interest = i
                 /\ task'[p].status = task[p].status
                 /\ interest' = [interest EXCEPT ![i] = "PENDING"]
              \/ Ended(p) /\ UNCHANGED interest
         /\ InterestTell(p) => Ended(p)
         /\ DecideWrite(p) =>
              \/ /\ Kept(p, "decide_tell")
                 /\ interest' = [interest EXCEPT ![task[p].interest] =
                                   task[p].status]
              \/ Ended(p) /\ UNCHANGED interest
         /\ DecideTell(p) => Ended(p)
         /\ Crash(p) => Ended(p)
<1>o. {"interest_create", "interest_tell", "decide_tell"} \subseteq Ops
  BY DEF Ops
<1>t. task[p] \in Task
  BY DEF TypeOK, Task
<1>p. ASSUME NEW op \in Ops, Proceed(p, op)
      PROVE  Kept(p, op)
  BY <1>p, Proceeded DEF Proceed
<1>1. InterestFind(p) => Kept(p, "interest_create") \/ Ended(p)
  BY <1>o, <1>p, Finished DEF InterestFind
<1>2. ASSUME NEW i \in Interests, InterestCreate(p, i)
      PROVE  \/ /\ Turned(p, "interest_tell", task[p].then, task[p].files)
                /\ task'[p].interest = i
                /\ task'[p].status = task[p].status
                /\ interest' = [interest EXCEPT ![i] = "PENDING"]
             \/ Ended(p) /\ UNCHANGED interest
  <2> DEFINE t == [task[p] EXCEPT !.op = "interest_tell", !.interest = i]
  <2>1. \/ Continue(p, t) /\ interest' = [interest EXCEPT ![i] = "PENDING"]
        \/ Finish(p) /\ UNCHANGED interest
    BY <1>2 DEF InterestCreate
  <2>2. /\ t \in Task
        /\ t.op = "interest_tell"
        /\ t.then = task[p].then
        /\ t.files = task[p].files
        /\ t.interest = i
        /\ t.status = task[p].status
    BY <1>o, <1>t DEF Task
  <2> HIDE DEF t
  <2> QED
    BY <2>1, <2>2, Turns, Finished
<1>3. DecideWrite(p) =>
        \/ /\ Kept(p, "decide_tell")
           /\ interest' = [interest EXCEPT ![task[p].interest] =
                             task[p].status]
        \/ Ended(p) /\ UNCHANGED interest
  BY <1>o, <1>p, Finished DEF DecideWrite
<1>4. /\ InterestTell(p) => Ended(p)
      /\ DecideTell(p) => Ended(p)
      /\ Crash(p) => Ended(p)
  BY Finished DEF InterestTell, DecideTell, Crash
<1> QED
  BY <1>1, <1>2, <1>3, <1>4

-----------------------------------------------------------------------------
(* What a handler does at a step.                                          *)

Watched == ClearOps \cup UploadOps \cup UnrowOps
             \cup {"interest_tell", "decide_tell"}

\* At some steps a handler can only go on in one way, or die.
LEMMA OpStep ==
  ASSUME NEW p \in Procs, Acts(p)
  PROVE  \/ task[p].op \notin Watched
         \/ Crash(p)
         \/ ClearRead(p)
         \/ ClearDel(p)
         \/ ClearReadOwn(p)
         \/ ClearDelOwn(p)
         \/ \E f \in Photos : PhotoUpload(p, f)
         \/ \E f \in Photos : PhotoRow(p, f)
         \/ \E f \in Photos : PhotoThrows(p, f)
         \/ PhotoUnrow(p)
         \/ \E f \in Reports : ReportRender(p, f)
         \/ \E f \in Reports : ReportUpload(p, f)
         \/ ReportRow(p)
         \/ ReportUnrow(p)
         \/ SweepUnrow(p)
         \/ PhotosUnrow(p)
         \/ ReportsUnrow(p)
         \/ InterestTell(p)
         \/ DecideTell(p)
<1> USE DEF At, Watched, ClearOps, UploadOps, PhotoUp, ReportUp, UnrowOps
<1>1. CASE \/ (\E g \in Pages : StartFill(p, g))
           \/ (\E g \in Pages : StartOwnFill(p, g))
           \/ (\E S \in SUBSET Photos : Create(p, S)) \/ StartUpdate(p)
           \/ (\E S \in SUBSET Photos : StartPhotos(p, S))
           \/ (\E f \in Photos : UpdatePhoto(p, f))
           \/ (\E f \in Photos : StartPhotoDelete(p, f))
           \/ (\E f \in Reports : StartReport(p, f))
           \/ (\E f \in Reports : StartReportDelete(p, f))
           \/ (\E S \in SUBSET Reports : StartSweep(p, S)) \/ StartRemove(p)
           \/ StartContractRemove(p) \/ StartCancel(p) \/ StartInterest(p)
           \/ (\E i \in Interests, s \in InterestStatus :
                  StartDecide(p, i, s))
  BY <1>1, Zenon
     DEF StartFill, Ask, Start, StartOwnFill, Create, StartUpdate, StartPhotos,
         UpdatePhoto, StartPhotoDelete, StartReport, StartReportDelete,
         StartSweep, StartRemove, StartContractRemove, StartCancel,
         StartInterest, StartDecide
<1>2. CASE \/ FillRead(p) \/ OwnRead(p) \/ FillPhotos(p) \/ FillSet(p)
           \/ OwnSet(p) \/ (\E b \in BOOLEAN : UpdateWrite(p, b))
           \/ PhotoDelete(p)
  BY <1>2 DEF FillRead, OwnRead, FillPhotos, FillSet, OwnSet, UpdateWrite,
              PhotoDelete
<1>3. CASE \/ ReportDelete(p) \/ SweepDelete(p)
  BY <1>3 DEF ReportDelete, SweepDelete, DeleteSeveral
<1>4. CASE \/ PhotosRead(p) \/ PhotosDelete(p) \/ ContractsRead(p)
           \/ ReportsRead(p) \/ ReportsDelete(p) \/ ContractUnrow(p)
           \/ PropertyUnrow(p) \/ InterestFind(p)
           \/ (\E i \in Interests : InterestCreate(p, i)) \/ DecideWrite(p)
  BY <1>4 DEF PhotosRead, PhotosDelete, DeleteSeveral, ContractsRead,
              ReportsRead, ReportsDelete, ContractUnrow, PropertyUnrow,
              InterestFind, InterestCreate, DecideWrite
<1> QED
  BY <1>1, <1>2, <1>3, <1>4, SMTT(30) DEF Acts, Begin, Step

\* Only the task of p changes.
LEMMA ActsAlone ==
  ASSUME TypeOK, NEW p \in Procs, Acts(p)
  PROVE  Others(p)
<1>t. ASSUME NEW op, NEW then, NEW F, Turned(p, op, then, F)
      PROVE  Others(p)
  BY <1>t DEF Turned
<1>b. ASSUME NEW op, NEW then, NEW F, Blank(p, op, then, F)
      PROVE  Others(p)
  BY <1>b, <1>t DEF Blank
<1>k. ASSUME NEW op, Kept(p, op)
      PROVE  Others(p)
  BY <1>k, <1>t DEF Kept
<1>e. Ended(p) => Others(p)
  BY <1>b DEF Ended
<1>1. CASE Begin(p)
  <2>2. CASE \E g \in Pages : StartFill(p, g) \/ StartOwnFill(p, g)
    BY <1>b, <2>2, BeginMoves
  <2>3. CASE \E S \in SUBSET Photos : Create(p, S)
    BY <1>b, <2>3, BeginMoves
  <2>4. CASE \/ (\E S \in SUBSET Photos : StartPhotos(p, S))
             \/ (\E f \in Photos : UpdatePhoto(p, f) \/ StartPhotoDelete(p, f))
    BY <1>b, <2>4, BeginMoves
  <2>5. CASE \E f \in Reports : StartReport(p, f) \/ StartReportDelete(p, f)
    BY <1>b, <2>5, BeginMoves
  <2>6. CASE \E S \in SUBSET Reports : StartSweep(p, S)
    BY <1>b, <2>6, BeginMoves
  <2>7. CASE \E i \in Interests, s \in InterestStatus : StartDecide(p, i, s)
    BY <1>t, <2>7, BeginMoves
  <2>8. CASE \/ StartUpdate(p) \/ StartRemove(p) \/ StartContractRemove(p)
             \/ StartCancel(p) \/ StartInterest(p)
    BY <1>b, <2>8, BeginMoves
  <2> QED
    BY <1>1, <2>2, <2>3, <2>4, <2>5, <2>6, <2>7, <2>8 DEF Begin
<1>2. CASE Step(p)
  <2>1. CASE \/ ClearRead(p) \/ ClearDel(p) \/ ClearReadOwn(p)
             \/ ClearDelOwn(p) \/ FillRead(p) \/ OwnRead(p) \/ FillPhotos(p)
             \/ FillSet(p) \/ OwnSet(p)
    BY <1>b, <1>e, <1>k, <2>1, CacheMoves
  <2>2. CASE \/ (\E b \in BOOLEAN : UpdateWrite(p, b))
             \/ PhotoDelete(p) \/ PhotoUnrow(p)
             \/ (\E f \in Reports : ReportRender(p, f) \/ ReportUpload(p, f))
             \/ ReportRow(p) \/ ReportDelete(p) \/ ReportUnrow(p)
             \/ SweepDelete(p) \/ SweepUnrow(p)
    BY <1>b, <1>e, <1>k, <2>2, FileMoves
  <2>5. CASE \/ (\E f \in Photos : PhotoUpload(p, f))
             \/ (\E f \in Photos : PhotoRow(p, f))
             \/ (\E f \in Photos : PhotoThrows(p, f))
    BY <1>b, <1>e, <1>k, <1>t, <2>5, FileMoves DEF Failed, Left
  <2>3. CASE \/ PhotosRead(p) \/ PhotosDelete(p) \/ PhotosUnrow(p)
             \/ ContractsRead(p) \/ ReportsRead(p) \/ ReportsDelete(p)
             \/ ReportsUnrow(p) \/ ContractUnrow(p) \/ PropertyUnrow(p)
    BY <1>b, <1>e, <1>k, <1>t, <2>3, RemoveMoves
  <2>4. CASE \/ InterestFind(p) \/ (\E i \in Interests : InterestCreate(p, i))
             \/ InterestTell(p) \/ DecideWrite(p) \/ DecideTell(p)
    BY <1>e, <1>k, <1>t, <2>4, InterestMoves
  <2> QED
    BY <1>2, <2>1, <2>2, <2>3, <2>4, <2>5 DEF Step
<1>3. CASE Crash(p)
  BY <1>3, <1>e, InterestMoves
<1> QED
  BY <1>1, <1>2, <1>3 DEF Acts

\* What each handler does next follows from what it knows.
LEMMA NextStep ==
  ASSUME TypeOK, NextInv, NEW p \in Procs, Acts(p)
  PROVE  NextInv'
<1>a. Others(p)
  BY ActsAlone
<1>i. NextOK(p)
  BY DEF NextInv
<1>1. ASSUME NextOK(p)'
      PROVE  NextInv'
  <2>1. ASSUME NEW q \in Procs, q # p
        PROVE  NextOK(q)'
    BY <1>a, <2>1 DEF NextInv, NextOK, Others
  <2> QED
    BY <1>1, <2>1 DEF NextInv
<1> DEFINE ReportOps == {"reports_read", "reports_delete", "reports_unrow"}
           FindOps == {"interest_find", "interest_create"}
           TellOps == {"interest_tell", "decide_write", "decide_tell"}
<1>o. /\ ClearOps \cap (FillOps \cup ReportOps \cup FindOps \cup TellOps) = {}
      /\ FillOps \cap (ReportOps \cup FindOps \cup TellOps) = {}
      /\ ReportOps \cap (FindOps \cup TellOps) = {}
      /\ FindOps \cap TellOps = {}
      /\ "idle" \notin ClearOps \cup FillOps \cup ReportOps \cup TellOps
      /\ "clear_read" \in ClearOps
      /\ PhotoUp \cap (ClearOps \cup FillOps \cup ReportOps \cup FindOps
                         \cup TellOps \cup {"idle"}) = {}
  BY DEF ClearOps, FillOps, PhotoUp
<1>2. ASSUME NEW op,
             op \notin ClearOps \cup FillOps \cup ReportOps \cup TellOps,
             NEW F, Blank(p, op, "idle", F)
      PROVE  NextInv'
  <2>1. NextOK(p)'
    BY <1>2 DEF NextOK, Blank, Turned
  <2> QED
    BY <1>1, <2>1
<1>3. ASSUME NEW op \in ClearOps,
             NEW then \in {"idle", "contracts_read", "clear_read"},
             Blank(p, op, then, {})
      PROVE  NextInv'
  BY <1>1, <1>3, <1>o DEF NextOK, Blank, Turned
<1>4. ASSUME NEW op, Kept(p, op), op \notin FindOps,
             task[p].op \in ClearOps <=> op \in ClearOps,
             task[p].op \in PhotoUp <=> op \in PhotoUp,
             task[p].op \in FillOps <=> op \in FillOps,
             task[p].op \in ReportOps <=> op \in ReportOps,
             task[p].op \in TellOps <=> op \in TellOps
      PROVE  NextInv'
  BY <1>1, <1>4, <1>i DEF NextOK, Kept, Turned
<1>5. Ended(p) => NextInv'
  BY <1>2, <1>o DEF Ended
<1>6. Blank(p, "clear_read", "idle", {}) => NextInv'
  BY <1>3, <1>o
<1>7. ASSUME NEW op \in FillOps, Blank(p, op, "idle", {}),
             task'[p].page \in Pages
      PROVE  NextInv'
  BY <1>1, <1>7, <1>o DEF NextOK, Blank, Turned
<1>8. ASSUME NEW op \in ReportOps, NEW F,
             NEW then \in {"property_unrow", "contract_unrow", "idle"},
             Turned(p, op, then, F)
      PROVE  NextInv'
  BY <1>1, <1>8, <1>o DEF NextOK, Turned
<1>9. ASSUME NEW op \in TellOps, NEW F, NEW then, then # "contracts_read",
             Turned(p, op, then, F), task'[p].interest \in Interests
      PROVE  NextInv'
  BY <1>1, <1>9, <1>o DEF NextOK, Turned
<1>14. ASSUME NEW op \in PhotoUp, NEW then \in {"idle", "clear_read"},
              NEW F, Turned(p, op, then, F)
       PROVE  NextInv'
  <2>1. /\ op \notin ClearOps \cup FillOps \cup ReportOps \cup TellOps
        /\ op \notin FindOps
    BY DEF PhotoUp, ClearOps, FillOps
  <2> QED
    BY <1>1, <1>14, <2>1 DEF NextOK, Turned
<1>13. ASSUME NEW F, NEW then \in {"idle", "clear_read"},
              Blank(p, "photo_upload", then, F)
       PROVE  NextInv'
  BY <1>13, <1>14 DEF Blank, PhotoUp
<1>n. {"update_write", "photo_delete", "report_render",
       "report_delete", "photos_read", "sweep_delete", "contract_unrow",
       "property_unrow", "interest_find", "contracts_read", "photos_delete",
       "idle"}
         \cap (ClearOps \cup FillOps \cup ReportOps \cup TellOps) = {}
  BY DEF ClearOps, FillOps
<1>10. CASE Begin(p)
  <2>1. CASE \E g \in Pages : StartFill(p, g) \/ StartOwnFill(p, g)
    BY <1>7, <2>1, BeginMoves DEF FillOps
  <2>2. ASSUME NEW S \in SUBSET Photos, Create(p, S) \/ StartPhotos(p, S)
        PROVE  NextInv'
    <3>1. \/ Blank(p, "clear_read", "idle", {})
          \/ Blank(p, "photo_upload", "clear_read", S)
          \/ Blank(p, "photo_upload", "idle", S)
      BY <2>2, BeginMoves
    <3> QED
      BY <1>6, <1>13, <3>1
  <2>3. CASE \E f \in Photos : UpdatePhoto(p, f) \/ StartPhotoDelete(p, f)
    BY <1>2, <1>6, <1>n, <2>3, BeginMoves
  <2>4. CASE \E f \in Reports : StartReport(p, f) \/ StartReportDelete(p, f)
    BY <1>2, <1>n, <2>4, BeginMoves
  <2>5. CASE \E S \in SUBSET Reports : StartSweep(p, S)
    BY <1>2, <1>n, <2>5, BeginMoves
  <2>6. CASE \E i \in Interests, s \in InterestStatus : StartDecide(p, i, s)
    BY <1>9, <2>6, BeginMoves
  <2>7. CASE StartContractRemove(p) \/ StartCancel(p)
    BY <1>8, <2>7, BeginMoves DEF Blank
  <2>8. CASE \/ StartUpdate(p) \/ StartRemove(p) \/ StartInterest(p)
    BY <1>2, <1>n, <2>8, BeginMoves
  <2> QED
    BY <1>10, <2>1, <2>2, <2>3, <2>4, <2>5, <2>6, <2>7, <2>8 DEF Begin
<1>11. CASE Step(p)
  <2>1. CASE ClearRead(p) \/ ClearDel(p) \/ ClearReadOwn(p) \/ ClearDelOwn(p)
    <3>1. task[p].op \in ClearOps
      BY <2>1 DEF ClearRead, ClearDel, ClearReadOwn, ClearDelOwn, At, ClearOps
    <3>2. task[p].then \in {"idle", "contracts_read", "clear_read"}
      BY <1>i, <3>1 DEF NextOK
    <3>3. /\ {"clear_del", "clear_read_own", "clear_del_own"}
               \subseteq ClearOps
          /\ {"clear_del", "clear_del_own"} \cap FindOps = {}
      BY DEF ClearOps
    <3>4. \/ Blank(p, "clear_read_own", task[p].then, {})
          \/ Blank(p, task[p].then, "idle", {})
          \/ Kept(p, "clear_del")
          \/ Kept(p, "clear_del_own")
      BY <2>1, CacheMoves
    <3> QED
      BY <1>2, <1>3, <1>4, <1>n, <1>o, <3>1, <3>2, <3>3, <3>4
  <2>2. CASE FillRead(p) \/ OwnRead(p) \/ FillPhotos(p)
    <3>1. task[p].op \in FillOps
      BY <2>2 DEF FillRead, OwnRead, FillPhotos, At, FillOps
    <3>2. /\ {"fill_photos", "own_set", "fill_set"} \subseteq FillOps
          /\ {"fill_photos", "own_set", "fill_set"} \cap FindOps = {}
      BY DEF FillOps
    <3> QED
      BY <1>4, <1>o, <2>2, <3>1, <3>2, CacheMoves
  <2>3. CASE FillSet(p) \/ OwnSet(p)
    BY <1>5, <2>3, CacheMoves
  <2>4. CASE \E b \in BOOLEAN : UpdateWrite(p, b)
    BY <1>5, <1>6, <2>4, FileMoves
  <2>5. CASE PhotoUnrow(p)
    BY <1>5, <1>6, <2>5, FileMoves
  <2>17. ASSUME NEW f \in Photos,
                PhotoUpload(p, f) \/ PhotoRow(p, f) \/ PhotoThrows(p, f)
         PROVE  NextInv'
    <3>1. task[p].op \in PhotoUp
      BY <2>17 DEF PhotoUpload, PhotoRow, PhotoThrows, UploadingPhotos, PhotoUp
    <3>2. task[p].then \in {"idle", "clear_read"}
      BY <1>i, <3>1 DEF NextOK
    <3>3. /\ "photo_stray" \in PhotoUp
          /\ "clear_read" \in ClearOps
      BY DEF PhotoUp, ClearOps
    <3>4. \/ \E F : Turned(p, task[p].op, task[p].then, F)
          \/ Blank(p, "clear_read", task[p].then, {})
          \/ \E F : Turned(p, "photo_stray", "idle", F)
          \/ Ended(p)
      BY <2>17, FileMoves DEF Kept, Left, Failed, Blank
    <3> QED
      BY <1>3, <1>5, <1>14, <3>1, <3>2, <3>3, <3>4
  <2>6. CASE ReportRow(p) \/ ReportUnrow(p) \/ SweepUnrow(p)
    BY <1>5, <2>6, FileMoves
  <2>7. CASE \/ PhotoDelete(p)
             \/ (\E f \in Reports : ReportRender(p, f) \/ ReportUpload(p, f))
             \/ ReportDelete(p) \/ SweepDelete(p) \/ PhotosDelete(p)
    <3>1. task[p].op \notin ClearOps \cup FillOps \cup ReportOps \cup TellOps
                              \cup PhotoUp
      BY <2>7 DEF PhotoDelete, ReportRender, ReportUpload,
         ReportDelete, SweepDelete, PhotosDelete, DeleteSeveral, At, ClearOps,
         FillOps, PhotoUp
    <3>2. {"photo_unrow", "report_upload", "report_row",
           "report_unrow", "sweep_unrow", "photos_unrow"}
             \cap (ClearOps \cup FillOps \cup ReportOps \cup FindOps
                     \cup TellOps \cup PhotoUp) = {}
      BY DEF ClearOps, FillOps, PhotoUp
    <3>3. \/ Kept(p, "photo_unrow")
          \/ Kept(p, "report_upload")
          \/ Kept(p, "report_row")
          \/ Kept(p, "report_unrow")
          \/ Kept(p, "sweep_unrow")
          \/ Kept(p, "photos_unrow")
          \/ Ended(p)
      BY <2>7, FileMoves, RemoveMoves
    <3>4. ASSUME NEW op, Kept(p, op),
                 op \notin ClearOps \cup FillOps \cup ReportOps \cup FindOps
                             \cup TellOps \cup PhotoUp
          PROVE  NextInv'
      BY <1>4, <3>1, <3>4
    <3> QED
      BY <1>5, <3>2, <3>3, <3>4
  <2>8. CASE PhotosRead(p)
    BY <1>2, <1>n, <2>8, RemoveMoves
  <2>9. CASE PhotosUnrow(p)
    BY <1>3, <1>o, <2>9, RemoveMoves
  <2>10. CASE ContractsRead(p)
    BY <1>2, <1>8, <1>n, <2>10, RemoveMoves DEF Blank
  <2>11. CASE ReportsRead(p) \/ ReportsDelete(p) \/ ReportsUnrow(p)
    <3>1. task[p].op \in ReportOps
      BY <2>11 DEF ReportsRead, ReportsDelete, ReportsUnrow, DeleteSeveral, At
    <3>2. task[p].then \in {"property_unrow", "contract_unrow", "idle"}
      BY <1>i, <3>1 DEF NextOK
    <3>3. \/ Blank(p, task[p].then, "idle", {})
          \/ Turned(p, "reports_delete", task[p].then, reports)
          \/ Turned(p, "reports_unrow", task[p].then, task[p].files)
      BY <2>11, RemoveMoves DEF Kept
    <3> QED
      BY <1>2, <1>8, <1>n, <3>2, <3>3
  <2>12. CASE ContractUnrow(p) \/ PropertyUnrow(p)
    BY <1>5, <1>6, <2>12, RemoveMoves
  <2>13. CASE InterestFind(p)
    <3>1. /\ task[p].op = "interest_find"
          /\ task[p].status = "PENDING"
          /\ task[p].then # "contracts_read"
      BY <2>13, <1>i DEF InterestFind, At, NextOK, ClearOps
    <3>2. Kept(p, "interest_create") => NextInv'
      BY <1>1, <3>1 DEF NextOK, Kept, Turned, ClearOps, FillOps, PhotoUp
    <3> QED
      BY <1>5, <2>13, <3>2, InterestMoves
  <2>14. ASSUME NEW i \in Interests, InterestCreate(p, i)
         PROVE  NextInv'
    <3>1. task[p].then # "contracts_read"
      BY <2>14, <1>i DEF InterestCreate, At, NextOK, ClearOps
    <3> QED
      BY <1>5, <1>9, <2>14, <3>1, InterestMoves
  <2>15. CASE InterestTell(p) \/ DecideTell(p)
    BY <1>5, <2>15, InterestMoves
  <2>16. CASE DecideWrite(p)
    <3>1. /\ task[p].then # "contracts_read"
          /\ task[p].interest \in Interests
      BY <2>16, <1>i DEF DecideWrite, At, NextOK, ClearOps
    <3>2. Kept(p, "decide_tell") => NextInv'
      BY <1>9, <3>1 DEF Kept
    <3> QED
      BY <1>5, <2>16, <3>2, InterestMoves
  <2> QED
    BY <1>11, <2>1, <2>2, <2>3, <2>4, <2>5, <2>6, <2>7, <2>8, <2>9, <2>10,
       <2>11, <2>12, <2>13, <2>14, <2>15, <2>16, <2>17 DEF Step
<1>12. CASE Crash(p)
  BY <1>5, <1>12, InterestMoves
<1> QED
  BY <1>10, <1>11, <1>12 DEF Acts

-----------------------------------------------------------------------------
(* Objects.                                                                *)

\* A handler names, stores and deletes no objects but its own.
LEMMA EnvStep ==
  ASSUME TypeOK, NEW p \in Procs, Acts(p)
  PROVE  /\ photos' \subseteq photos \cup task[p].files
         /\ reports' \subseteq reports \cup task[p].files
         /\ used \subseteq used' /\ used' \subseteq used \cup task[p].files
         /\ stored' \subseteq stored \cup (used' \ used)
         /\ stored \ task[p].files \subseteq stored'
         /\ lost \subseteq lost'
         /\ lost' \subseteq lost \cup task[p].files \cup {task[p].interest}
<1>1. /\ photos' \subseteq photos \cup task[p].files
      /\ reports' \subseteq reports \cup task[p].files
  <2>1. CASE \/ (\E f \in Photos : PhotoRow(p, f)) \/ PhotoUnrow(p)
             \/ PhotosUnrow(p)
    BY <2>1 DEF PhotoRow, PhotoUnrow, PhotosUnrow
  <2>2. CASE \/ ReportRow(p) \/ ReportUnrow(p) \/ SweepUnrow(p)
             \/ ReportsUnrow(p)
    BY <2>2 DEF ReportRow, ReportUnrow, SweepUnrow, ReportsUnrow
  <2>3. CASE ContractUnrow(p) \/ PropertyUnrow(p)
    BY <2>3 DEF ContractUnrow, PropertyUnrow
  <2> QED
    BY <2>1, <2>2, <2>3, NamesStep
<1>2. /\ used \subseteq used' /\ used' \subseteq used \cup task[p].files
      /\ stored' \subseteq stored \cup (used' \ used)
      /\ stored \ task[p].files \subseteq stored'
      /\ lost \subseteq lost'
      /\ lost' \subseteq lost \cup task[p].files \cup {task[p].interest}
  <2> USE DEF storageVars
  <2>1. ASSUME NEW f \in task[p].files, UploadFile(f), UNCHANGED lost
        PROVE  /\ used \subseteq used'
               /\ used' \subseteq used \cup task[p].files
               /\ stored' \subseteq stored \cup (used' \ used)
               /\ stored \ task[p].files \subseteq stored'
               /\ lost \subseteq lost' /\ lost' \subseteq lost
    BY <2>1 DEF UploadFile
  <2>2. CASE UNCHANGED <<storageVars, lost>>
    BY <2>2
  <2>3. CASE DeleteFiles(task[p].files) /\ UNCHANGED lost
    BY <2>3 DEF DeleteFiles
  <2>4. CASE UNCHANGED storageVars /\ lost' = lost \cup task[p].files
    BY <2>4
  <2>5. ASSUME NEW f \in Photos, PhotoUpload(p, f)
        PROVE  \/ UNCHANGED <<storageVars, lost>>
               \/ f \in task[p].files /\ UploadFile(f) /\ UNCHANGED lost
    BY <2>5 DEF PhotoUpload, NeverUploaded
  <2>6. ASSUME NEW f \in Reports, ReportUpload(p, f)
        PROVE  \/ UNCHANGED <<storageVars, lost>>
               \/ f \in task[p].files /\ UploadFile(f) /\ UNCHANGED lost
    BY <2>6 DEF ReportUpload, NeverUploaded
  <2>7. ASSUME PhotoDelete(p) \/ ReportDelete(p)
        PROVE  \/ UNCHANGED <<storageVars, lost>>
               \/ DeleteFiles(task[p].files) /\ UNCHANGED lost
    BY <2>7 DEF PhotoDelete, ReportDelete
  <2>8. ASSUME SweepDelete(p) \/ PhotosDelete(p) \/ ReportsDelete(p)
        PROVE  \/ DeleteFiles(task[p].files) /\ UNCHANGED lost
               \/ UNCHANGED storageVars /\ lost' = lost \cup task[p].files
    BY <2>8 DEF SweepDelete, PhotosDelete, ReportsDelete, DeleteSeveral
  <2>9. CASE Crash(p)
    BY <2>9 DEF Crash
  <2>10. CASE \E f \in Photos : PhotoThrows(p, f)
    BY <2>10 DEF PhotoThrows
  <2> QED
    BY <2>1, <2>2, <2>3, <2>4, <2>5, <2>6, <2>7, <2>8, <2>9, <2>10,
       StorageStep
<1> QED
  BY <1>1, <1>2

\* A handler that acts leaves the objects of the others alone.
LEMMA HandOther ==
  ASSUME TypeOK, HandsInv, NEW p \in Procs, Acts(p), NEW q \in Procs, q # p,
         task[q].op \in UploadOps => task'[p].files \cap task[q].files = {}
  PROVE  HandOK(q)'
<1>a. Others(p)
  BY ActsAlone
<1>i. HandOK(q)
  BY DEF HandsInv
<1>s. stored \subseteq used
  BY DEF TypeOK, StorageTypeOK
<1>t. task'[q] = task[q]
  BY <1>a DEF Others
<1>1. ASSUME task[q].op \in UploadOps
      PROVE  /\ task[q].files \cap (photos' \cup reports') = {}
             /\ \A r \in Procs \ {q} : task[q].files \cap task'[r].files = {}
             /\ task[q].files \cap (used' \ used) = {}
             /\ task[q].files \cap stored \subseteq stored'
  <2>1. task[q].files \cap task[p].files = {}
    BY <1>1, <1>i DEF HandOK
  <2>2. task[q].files \cap (photos \cup reports) = {}
    BY <1>1, <1>i DEF HandOK
  <2>3. ASSUME NEW r \in Procs \ {q}
        PROVE  task[q].files \cap task'[r].files = {}
    <3>1. CASE r = p
      BY <1>1, <3>1
    <3>2. CASE r # p
      BY <1>1, <1>a, <1>i, <3>2 DEF HandOK, Others
    <3> QED
      BY <3>1, <3>2
  <2> QED
    BY <2>1, <2>2, <2>3, EnvStep
<1>2. ASSUME task[q].op \in UnrowOps
      PROVE  task[q].files \cap stored' \subseteq lost'
  <2>1. /\ task[q].files \subseteq used
        /\ task[q].files \cap stored \subseteq lost
    BY <1>2, <1>i DEF HandOK, UnrowOps, PhotoOut, ReportOut
  <2> QED
    BY <2>1, EnvStep
<1>3. task[q].files \subseteq used => task[q].files \subseteq used'
  BY EnvStep
<1>4. task[q].op \in UploadOps =>
        /\ task[q].files \cap (photos' \cup reports') = {}
        /\ \A r \in Procs \ {q} : task'[q].files \cap task'[r].files = {}
        /\ task[q].files \cap used' \subseteq stored'
  BY <1>1, <1>i, <1>t DEF HandOK
<1>5. task[q].op \in {"report_render", "report_upload"} =>
        task[q].files \cap used' = {}
  BY <1>1, <1>i DEF HandOK, UploadOps, ReportUp
<1> QED
  BY <1>2, <1>3, <1>4, <1>5, <1>i, <1>t DEF HandOK

\* What is in a handler's hands is its own, or was named by a row.
LEMMA HandsStep ==
  ASSUME TypeOK, HandsInv, NextInv, AbsentInv, NEW p \in Procs, Acts(p)
  PROVE  HandsInv'
<1> DEFINE FileOps == UploadOps \cup PhotoOut \cup ReportOut
<1>a. Others(p)
  BY ActsAlone
<1>i. HandOK(p) /\ NextOK(p)
  BY DEF HandsInv, NextInv
<1>s. /\ stored \subseteq used /\ used \subseteq Files
      /\ photos \subseteq used \cap Photos
      /\ reports \subseteq used \cap Reports
      /\ Photos \cap Reports = {}
      /\ Photos \cup Reports = Files
  BY ListingsAssumption DEF TypeOK, StorageTypeOK
<1>1. ASSUME HandOK(p)',
             \A q \in Procs \ {p} : task[q].op \in UploadOps =>
               task'[p].files \cap task[q].files = {}
      PROVE  HandsInv'
  <2>1. ASSUME NEW q \in Procs, q # p
        PROVE  HandOK(q)'
    BY <1>1, <2>1, HandOther
  <2> QED
    BY <1>1, <2>1 DEF HandsInv
<1>2. ASSUME HandOK(p)',
             task'[p].files \subseteq task[p].files \cup photos \cup reports
      PROVE  HandsInv'
  <2>1. ASSUME NEW q \in Procs \ {p}, task[q].op \in UploadOps
        PROVE  task'[p].files \cap task[q].files = {}
    <3>1. HandOK(q)
      BY DEF HandsInv
    <3> QED
      BY <1>2, <2>1, <3>1 DEF HandOK
  <2> QED
    BY <1>1, <1>2, <2>1
<1>o. /\ UnrowOps \subseteq PhotoOut \cup ReportOut
      /\ UploadOps \cap (PhotoOut \cup ReportOut) = {}
      /\ PhotoOut \cap ReportOut = {}
      /\ PhotoUp \cap ReportUp = {}
      /\ UploadOps = PhotoUp \cup ReportUp
      /\ {"photo_delete", "photo_unrow"} \subseteq PhotoOut
      /\ {"report_render", "report_upload", "report_row"} = ReportUp
  BY DEF UnrowOps, PhotoOut, ReportOut, UploadOps, PhotoUp, ReportUp
<1>3. ASSUME NEW op, op \notin FileOps, NEW then, Turned(p, op, then, {})
      PROVE  HandsInv'
  <2>1. HandOK(p)'
    BY <1>3, <1>o DEF HandOK, Turned
  <2> QED
    BY <1>2, <1>3, <2>1 DEF Turned
<1>4. ASSUME NEW op, op \notin FileOps, NEW then, Blank(p, op, then, {})
      PROVE  HandsInv'
  BY <1>3, <1>4 DEF Blank
<1>5. ASSUME NEW op, op \notin FileOps, task[p].op \notin FileOps, Kept(p, op)
      PROVE  HandsInv'
  BY <1>3, <1>5, <1>i DEF Kept, HandOK
<1>6. Ended(p) \/ Blank(p, "clear_read", "idle", {}) => HandsInv'
  <2>1. "idle" \notin FileOps /\ "clear_read" \notin FileOps
    BY DEF UploadOps, PhotoUp, ReportUp, PhotoOut, ReportOut
  <2> QED
    BY <1>4, <2>1 DEF Ended
<1>7. ASSUME NEW F \in SUBSET Files, \A f \in F : Fresh(f),
             UNCHANGED <<photos, reports, used>>, NEW then,
             \/ F \subseteq Photos /\ Blank(p, "photo_upload", then, F)
             \/ /\ F \subseteq Reports /\ \E f \in Files : F = {f}
                /\ Blank(p, "report_render", then, F)
      PROVE  HandsInv'
  <2>1. \A q \in Procs : F \cap task[q].files = {}
    BY <1>7 DEF Fresh
  <2>2. F \cap used = {} /\ F \cap (photos \cup reports) = {}
    BY <1>7, <1>s DEF Fresh
  <2>3. task'[p].files = F
    BY <1>7 DEF Blank, Turned
  <2>4. \A q \in Procs \ {p} : task'[p].files \cap task'[q].files = {}
    BY <1>a, <2>1, <2>3 DEF Others
  <2>5. \/ task'[p].op = "photo_upload" /\ F \subseteq Photos
        \/ /\ task'[p].op = "report_render" /\ F \subseteq Reports
           /\ \E f \in Files : F = {f}
    BY <1>7 DEF Blank, Turned
  <2>6. F \cap (photos' \cup reports') = {} /\ F \cap used' = {}
    BY <1>7, <2>2
  <2>7. HandOK(p)'
    <3>1. CASE task'[p].op = "photo_upload" /\ F \subseteq Photos
      BY <2>3, <2>4, <2>6, <3>1 DEF HandOK, UploadOps, PhotoUp, ReportUp,
         PhotoOut, ReportOut, UnrowOps
    <3>2. CASE /\ task'[p].op = "report_render" /\ F \subseteq Reports
               /\ \E f \in Files : F = {f}
      BY <2>3, <2>4, <2>6, <3>2 DEF HandOK, UploadOps, PhotoUp, ReportUp,
         PhotoOut, ReportOut, UnrowOps
    <3> QED
      BY <2>5, <3>1, <3>2
  <2> QED
    BY <1>1, <2>1, <2>3, <2>7
<1>8. ASSUME NEW op, NEW then, NEW F,
             Turned(p, op, then, F), op \notin UnrowOps,
             \/ op \in PhotoOut /\ F \subseteq photos
             \/ op \in ReportOut /\ F \subseteq reports,
             op = "photo_delete" => \E f \in Files : F = {f}
      PROVE  HandsInv'
  <2>1. F \subseteq used'
    BY <1>8, <1>s, EnvStep
  <2>2. /\ task'[p].op = op
        /\ task'[p].files = F
    BY <1>8 DEF Turned
  <2>3. op # "photo_unrow" /\ op \notin UploadOps /\ op \notin ReportUp
    BY <1>8, <1>o DEF UnrowOps
  <2>4. HandOK(p)'
    BY <1>8, <1>o, <1>s, <2>1, <2>2, <2>3 DEF HandOK
  <2> QED
    BY <1>2, <1>8, <2>2, <2>4
<1>9. ASSUME NEW op \in UnrowOps, Kept(p, op),
             op = "photo_unrow" <=> task[p].op = "photo_delete",
             op \in PhotoOut <=> task[p].op \in PhotoOut,
             op \in ReportOut <=> task[p].op \in ReportOut,
             task[p].files \cap stored' \subseteq lost'
      PROVE  HandsInv'
  <2>1. task'[p].op = op /\ task'[p].files = task[p].files
    BY <1>9 DEF Kept, Turned
  <2>2. task[p].files \subseteq used'
    BY <1>9, <1>i, <1>o, EnvStep DEF HandOK
  <2>3. op # "photo_delete"
    BY DEF UnrowOps
  <2>4. HandOK(p)'
    BY <1>9, <1>i, <1>o, <2>1, <2>2, <2>3 DEF HandOK
  <2> QED
    BY <1>2, <2>1, <2>4
<1>10. ASSUME NEW op \in UploadOps, NEW then, NEW F, Turned(p, op, then, F),
              F \subseteq task[p].files,
              \/ /\ op \in PhotoUp /\ task[p].op \in PhotoUp
              \/ /\ op \in ReportUp /\ task[p].op \in ReportUp
                 /\ F = task[p].files,
              F \cap (photos' \cup reports') = {},
              F \cap used' \subseteq stored',
              op \in {"report_render", "report_upload"} => F \cap used' = {},
              op = "report_row" => F \subseteq used'
       PROVE  HandsInv'
  <2>1. task'[p].op = op /\ task'[p].files = F
    BY <1>10 DEF Turned
  <2>2. task[p].op \in UploadOps
    BY <1>10, <1>o
  <2>3. \A q \in Procs \ {p} : task'[p].files \cap task'[q].files = {}
    BY <1>10, <1>a, <1>i, <2>1, <2>2 DEF HandOK, Others
  <2>4. op \notin PhotoOut \cup ReportOut /\ op \notin UnrowOps
    BY <1>10, <1>o
  <2>5. op # "photo_delete" /\ op # "photo_unrow"
    BY <2>4 DEF PhotoOut
  <2>6. op \in PhotoUp => F \subseteq Photos
    BY <1>10, <1>i, <1>o DEF HandOK
  <2>7. op \in ReportUp => F \subseteq Reports /\ \E f \in Files : F = {f}
    BY <1>10, <1>i, <1>o DEF HandOK
  <2>8. HandOK(p)'
    BY <1>10, <1>o, <2>1, <2>3, <2>4, <2>5, <2>6, <2>7 DEF HandOK
  <2> QED
    BY <1>2, <1>10, <2>1, <2>8
\* A report's handler, that keeps its object.
<1>r. ASSUME NEW op \in ReportUp, Kept(p, op), task[p].op \in ReportUp,
             UNCHANGED <<photos, reports>>,
             task[p].files \cap used' \subseteq stored',
             op \in {"report_render", "report_upload"} =>
               task[p].files \cap used' = {},
             op = "report_row" => task[p].files \subseteq used'
       PROVE  HandsInv'
  <2>1. task[p].files \cap (photos' \cup reports') = {}
    BY <1>r, <1>i, <1>o DEF HandOK
  <2>2. Turned(p, op, task[p].then, task[p].files) /\ op \in UploadOps
    BY <1>r, <1>o DEF Kept
  <2> HIDE DEF FileOps
  <2> QED
    BY <1>10, <1>r, <2>1, <2>2
<1>n. {"clear_read", "clear_del", "clear_read_own", "clear_del_own",
       "update_write", "fill_read", "own_read", "fill_photos", "fill_set",
       "own_set", "photos_read", "contracts_read", "reports_read",
       "contract_unrow", "property_unrow", "interest_find",
       "interest_create", "interest_tell", "decide_write", "decide_tell",
       "idle"} \cap FileOps = {}
  BY DEF UploadOps, PhotoUp, ReportUp, PhotoOut, ReportOut
<1>11. CASE Begin(p)
  <2>1. CASE \E g \in Pages : StartFill(p, g) \/ StartOwnFill(p, g)
    BY <1>4, <1>n, <2>1, BeginMoves
  <2>2. ASSUME NEW S \in SUBSET Photos, Create(p, S)
        PROVE  HandsInv'
    <3>1. CASE S = {}
      BY <1>6, <2>2, <3>1, BeginMoves
    <3>2. CASE S # {}
      <4>1. property = "absent" /\ UNCHANGED <<photos, reports, used>>
        BY <2>2 DEF Create, fileVars, storageVars
      <4>2. ASSUME NEW q \in Procs
            PROVE  task[q].files = {}
        <5>1. task[q].op \in FillOps \cup {"idle"}
          BY <4>1 DEF AbsentInv
        <5>2. task[q].op \notin FileOps
          BY <1>n, <5>1 DEF FillOps
        <5> QED
          BY <5>2 DEF HandsInv, HandOK
      <4>3. \A f \in S : Fresh(f)
        BY <4>1, <4>2 DEF AbsentInv, Fresh
      <4>4. Blank(p, "photo_upload", "clear_read", S)
        BY <2>2, <3>2, BeginMoves
      <4>5. S \in SUBSET Files
        BY <1>s
      <4> QED
        BY <1>7, <4>1, <4>3, <4>4, <4>5
    <3> QED
      BY <3>1, <3>2
  <2>3. ASSUME NEW S \in SUBSET Photos, StartPhotos(p, S)
        PROVE  HandsInv'
    <3>1. S \in SUBSET Files
      BY <1>s
    <3>2. UNCHANGED <<photos, reports, used>> /\ \A f \in S : Fresh(f)
      BY <2>3 DEF StartPhotos, rowVars, storageVars
    <3>3. Blank(p, "photo_upload", "idle", S)
      BY <2>3, BeginMoves
    <3> QED
      BY <1>7, <3>1, <3>2, <3>3
  <2>4. ASSUME NEW f \in Photos, UpdatePhoto(p, f)
        PROVE  HandsInv'
    BY <1>6, <2>4, BeginMoves
  <2>5. ASSUME NEW f \in Photos, StartPhotoDelete(p, f)
        PROVE  HandsInv'
    <3>1. f \in photos
      BY <2>5 DEF StartPhotoDelete
    <3>2. Turned(p, "photo_delete", "idle", {f})
      BY <2>5, BeginMoves DEF Blank
    <3>3. "photo_delete" \in PhotoOut \ UnrowOps
      BY DEF PhotoOut, UnrowOps
    <3> QED
      BY <1>8, <1>s, <3>1, <3>2, <3>3
  <2>6. ASSUME NEW f \in Reports, StartReport(p, f)
        PROVE  HandsInv'
    <3>1. {f} \in SUBSET Files /\ {f} \subseteq Reports /\ f \in Files
      BY <1>s
    <3>2. UNCHANGED <<photos, reports, used>> /\ Fresh(f)
      BY <2>6 DEF StartReport, rowVars, storageVars
    <3>3. Blank(p, "report_render", "idle", {f})
      BY <2>6, BeginMoves
    <3> QED
      BY <1>7, <3>1, <3>2, <3>3
  <2>7. ASSUME NEW f \in Reports, StartReportDelete(p, f)
        PROVE  HandsInv'
    <3>1. f \in reports
      BY <2>7 DEF StartReportDelete
    <3>2. Turned(p, "report_delete", "idle", {f})
      BY <2>7, BeginMoves DEF Blank
    <3>3. "report_delete" \in ReportOut \ UnrowOps
      BY DEF ReportOut, UnrowOps
    <3> QED
      BY <1>8, <3>1, <3>2, <3>3
  <2>8. ASSUME NEW S \in SUBSET Reports, StartSweep(p, S)
        PROVE  HandsInv'
    <3>1. S \subseteq reports
      BY <2>8 DEF StartSweep
    <3>2. Turned(p, "sweep_delete", "idle", S)
      BY <2>8, BeginMoves DEF Blank
    <3>3. "sweep_delete" \in ReportOut \ UnrowOps
      BY DEF ReportOut, UnrowOps
    <3> QED
      BY <1>8, <3>1, <3>2, <3>3
  <2>9. CASE \E i \in Interests, s \in InterestStatus : StartDecide(p, i, s)
    BY <1>3, <1>n, <2>9, BeginMoves
  <2>10. CASE \/ StartUpdate(p) \/ StartRemove(p) \/ StartContractRemove(p)
              \/ StartCancel(p) \/ StartInterest(p)
    BY <1>4, <1>n, <2>10, BeginMoves
  <2> QED
    BY <1>11, <2>1, <2>2, <2>3, <2>4, <2>5, <2>6, <2>7, <2>8, <2>9, <2>10
       DEF Begin
<1>12. CASE Step(p)
  <2>1. CASE ClearRead(p) \/ ClearDel(p) \/ ClearReadOwn(p) \/ ClearDelOwn(p)
    <3>1. task[p].op \in ClearOps
      BY <2>1 DEF ClearRead, ClearDel, ClearReadOwn, ClearDelOwn, At, ClearOps
    <3>2. task[p].op \notin FileOps
      BY <1>n, <3>1 DEF ClearOps
    <3>3. task[p].then \in {"idle", "contracts_read", "clear_read"}
      BY <1>i, <3>1 DEF NextOK
    <3> QED
      BY <1>4, <1>5, <1>n, <2>1, <3>2, <3>3, CacheMoves
  <2>2. CASE FillRead(p) \/ OwnRead(p) \/ FillPhotos(p)
    <3>1. task[p].op \notin FileOps
      BY <1>n, <2>2 DEF FillRead, OwnRead, FillPhotos, At
    <3> QED
      BY <1>5, <1>n, <2>2, <3>1, CacheMoves
  <2>3. CASE FillSet(p) \/ OwnSet(p)
    BY <1>6, <2>3, CacheMoves
  <2>4. CASE \/ (\E b \in BOOLEAN : UpdateWrite(p, b)) \/ PhotoUnrow(p)
             \/ ReportRow(p) \/ ReportUnrow(p) \/ SweepUnrow(p)
    BY <1>6, <2>4, FileMoves
  <2>5. ASSUME NEW f \in Photos,
               PhotoUpload(p, f) \/ PhotoRow(p, f) \/ PhotoThrows(p, f)
        PROVE  HandsInv'
    <3>1. /\ task[p].op \in PhotoUp /\ f \in task[p].files
          /\ task[p].op \in UploadOps
      BY <2>5, <1>o DEF PhotoUpload, PhotoRow, PhotoThrows, UploadingPhotos,
         PhotoUp
    <3>2. "photo_stray" \in PhotoUp /\ "clear_read" \notin FileOps
      BY DEF UploadOps, PhotoUp, ReportUp, PhotoOut, ReportOut
    <3>3. /\ task[p].files \cap (photos \cup reports) = {}
          /\ task[p].files \cap used \subseteq stored
      BY <1>i, <3>1 DEF HandOK
    <3>4. ASSUME NEW op \in PhotoUp, NEW then, NEW F, Turned(p, op, then, F),
                 F \subseteq task[p].files,
                 F \cap (photos' \cup reports') = {},
                 F \cap used' \subseteq stored'
          PROVE  HandsInv'
      <4>1. op \in UploadOps /\ op \notin ReportUp
        BY <1>o
      <4>2. op \notin {"report_render", "report_upload", "report_row"}
        BY <4>1 DEF ReportUp
      <4> QED
        BY <1>10, <3>1, <3>4, <4>1, <4>2
    <3>5. CASE PhotoUpload(p, f) /\ UploadFile(f) /\ Kept(p, task[p].op)
      <4>1. /\ UNCHANGED <<photos, reports>>
            /\ used' = used \cup {f}
            /\ stored' = stored \cup {f}
        BY <3>5 DEF PhotoUpload, rowVars, UploadFile
      <4>2. task[p].files \cap used' \subseteq stored'
        BY <3>3, <4>1
      <4> QED
        BY <3>1, <3>3, <3>4, <3>5, <4>1, <4>2 DEF Kept
    <3>6. CASE Failed(p, f) \/ Left(p, f)
      <4>1. /\ photos' \subseteq photos \cup {f}
            /\ reports' = reports
            /\ UNCHANGED <<used, stored>> \/ UploadFile(f)
        BY <2>5 DEF PhotoUpload, PhotoRow, PhotoThrows, rowVars, fileVars,
           storageVars, NeverUploaded
      <4>2. task[p].files \ {f} \subseteq task[p].files
        OBVIOUS
      <4>3. (task[p].files \ {f}) \cap (photos' \cup reports') = {}
        BY <3>3, <4>1
      <4>4. (task[p].files \ {f}) \cap used' \subseteq stored'
        BY <3>3, <4>1 DEF UploadFile
      <4>5. \/ Ended(p)
            \/ Turned(p, "photo_stray", "idle", task[p].files \ {f})
            \/ Turned(p, task[p].op, task[p].then, task[p].files \ {f})
        BY <3>6 DEF Failed, Left, Blank
      <4> QED
        BY <1>6, <3>1, <3>2, <3>4, <4>2, <4>3, <4>4, <4>5
    <3>7. CASE Blank(p, "clear_read", task[p].then, {})
      BY <1>4, <3>2, <3>7
    <3> QED
      BY <2>5, <3>5, <3>6, <3>7, FileMoves
  <2>6. ASSUME NEW f \in Reports, ReportRender(p, f)
        PROVE  HandsInv'
    <3>1. Kept(p, "report_upload") \/ Ended(p)
      BY <2>6, FileMoves
    <3>2. /\ task[p].op = "report_render"
          /\ UNCHANGED <<photos, reports, used>>
      BY <2>6 DEF ReportRender, At, rowVars, fileVars, storageVars,
         NeverUploaded
    <3>3. {"report_upload", "report_render"} \subseteq ReportUp
      BY DEF ReportUp
    <3>4. task[p].files \cap used' = {}
      BY <1>i, <3>2 DEF HandOK
    <3> QED
      BY <1>6, <1>r, <3>1, <3>2, <3>3, <3>4
  <2>7. ASSUME NEW f \in Reports, ReportUpload(p, f)
        PROVE  HandsInv'
    <3>1. Kept(p, "report_row") \/ Ended(p)
      BY <2>7, FileMoves
    <3>2. /\ task[p].op = "report_upload" /\ f \in task[p].files
          /\ UNCHANGED <<photos, reports>>
      BY <2>7 DEF ReportUpload, At, rowVars
    <3>3. {"report_upload", "report_row"} \subseteq ReportUp
      BY DEF ReportUp
    <3>4. task[p].files = {f}
      BY <1>i, <1>o, <3>2, <3>3 DEF HandOK
    <3>5. UploadFile(f) \/ Finish(p)
      BY <2>7 DEF ReportUpload
    <3>6. CASE UploadFile(f) /\ Kept(p, "report_row")
      <4>1. task[p].files \subseteq stored' /\ task[p].files \subseteq used'
        BY <3>4, <3>6 DEF UploadFile
      <4> QED
        BY <1>r, <3>2, <3>3, <3>6, <4>1
    <3> QED
      BY <1>6, <3>1, <3>5, <3>6, Finished
  <2>8. CASE PhotoDelete(p) \/ ReportDelete(p)
    <3>1. CASE Finish(p)
      BY <1>6, <3>1, Finished
    <3>2. CASE DeleteFiles(task[p].files)
      <4>1. task[p].files \cap stored' \subseteq lost'
        BY <3>2 DEF DeleteFiles
      <4>2. \/ /\ task[p].op = "photo_delete"
               /\ Kept(p, "photo_unrow") \/ Ended(p)
            \/ /\ task[p].op = "report_delete"
               /\ Kept(p, "report_unrow") \/ Ended(p)
        BY <2>8, FileMoves DEF PhotoDelete, ReportDelete, At
      <4>3. /\ {"photo_unrow", "report_unrow"} \subseteq UnrowOps
            /\ {"photo_delete", "photo_unrow"} \subseteq PhotoOut \ ReportOut
            /\ {"report_delete", "report_unrow"} \subseteq ReportOut \ PhotoOut
        BY DEF UnrowOps, PhotoOut, ReportOut
      <4> QED
        BY <1>6, <1>9, <4>1, <4>2, <4>3
    <3> QED
      BY <2>8, <3>1, <3>2 DEF PhotoDelete, ReportDelete
  <2>9. CASE SweepDelete(p) \/ PhotosDelete(p) \/ ReportsDelete(p)
    <3>1. task[p].files \cap stored' \subseteq lost'
      BY <2>9 DEF SweepDelete, PhotosDelete, ReportsDelete, DeleteSeveral,
         DeleteFiles
    <3>2. \/ task[p].op = "sweep_delete" /\ Kept(p, "sweep_unrow")
          \/ task[p].op = "photos_delete" /\ Kept(p, "photos_unrow")
          \/ task[p].op = "reports_delete" /\ Kept(p, "reports_unrow")
      BY <2>9, FileMoves, RemoveMoves DEF SweepDelete, PhotosDelete,
         ReportsDelete, DeleteSeveral, At
    <3>3. /\ {"sweep_unrow", "photos_unrow", "reports_unrow"}
               \subseteq UnrowOps
          /\ {"photos_delete", "photos_unrow"} \subseteq PhotoOut \ ReportOut
          /\ {"sweep_delete", "sweep_unrow", "reports_delete",
              "reports_unrow"} \subseteq ReportOut \ PhotoOut
      BY DEF UnrowOps, PhotoOut, ReportOut
    <3> QED
      BY <1>9, <3>1, <3>2, <3>3
  <2>10. CASE PhotosRead(p)
    <3>1. "photos_delete" \in PhotoOut \ UnrowOps
      BY DEF PhotoOut, UnrowOps
    <3>2. Blank(p, "photos_delete", "idle", photos) => HandsInv'
      BY <1>8, <3>1 DEF Blank
    <3> QED
      BY <1>4, <1>n, <2>10, <3>2, RemoveMoves
  <2>11. CASE PhotosUnrow(p) \/ ContractsRead(p)
    BY <1>4, <1>n, <2>11, RemoveMoves
  <2>12. CASE ReportsRead(p) \/ ReportsUnrow(p)
    <3>1. task[p].then \in {"property_unrow", "contract_unrow", "idle"}
      BY <1>i, <2>12 DEF NextOK, ReportsRead, ReportsUnrow, At
    <3>2. "reports_delete" \in ReportOut \ UnrowOps
      BY DEF ReportOut, UnrowOps
    <3>3. Turned(p, "reports_delete", task[p].then, reports) => HandsInv'
      BY <1>8, <3>2
    <3> QED
      BY <1>4, <1>n, <2>12, <3>1, <3>3, RemoveMoves
  <2>13. CASE ContractUnrow(p) \/ PropertyUnrow(p)
    BY <1>6, <2>13, RemoveMoves
  <2>14. CASE InterestFind(p) \/ DecideWrite(p)
    <3>1. task[p].op \notin FileOps
      BY <1>n, <2>14 DEF InterestFind, DecideWrite, At
    <3> QED
      BY <1>5, <1>6, <1>n, <2>14, <3>1, InterestMoves
  <2>15. ASSUME NEW i \in Interests, InterestCreate(p, i)
         PROVE  HandsInv'
    <3>1. task[p].op \notin FileOps
      BY <1>n, <2>15 DEF InterestCreate, At
    <3>2. task[p].files = {}
      BY <1>i, <3>1 DEF HandOK
    <3>3. Turned(p, "interest_tell", task[p].then, {}) \/ Ended(p)
      BY <2>15, <3>2, InterestMoves
    <3> QED
      BY <1>3, <1>6, <1>n, <3>3
  <2>16. CASE InterestTell(p) \/ DecideTell(p)
    BY <1>6, <2>16, InterestMoves
  <2> QED
    BY <1>12, <2>1, <2>2, <2>3, <2>4, <2>5, <2>6, <2>7, <2>8, <2>9, <2>10,
       <2>11, <2>12, <2>13, <2>14, <2>15, <2>16 DEF Step
<1>13. CASE Crash(p)
  BY <1>6, <1>13, InterestMoves
<1> QED
  BY <1>11, <1>12, <1>13 DEF Acts


\* Before the property there are only reads of its pages.
LEMMA AbsentActs ==
  ASSUME TypeOK, AbsentInv, NEW p \in Procs, Acts(p), property = "absent"
  PROVE  \/ \E S \in SUBSET Photos : Create(p, S)
         \/ /\ UNCHANGED <<property, interest, used>>
            /\ task'[p].op \in FillOps \cup {"idle"}
<1>1. /\ task[p].op \in FillOps \cup {"idle"}
      /\ ~contract
      /\ photos = {} /\ reports = {}
      /\ \A i \in Interests : interest[i] = "absent"
  BY DEF AbsentInv, TypeOK
<1> USE DEF rowVars, cacheVars, interestVars, fileVars, storageVars, At
<1>2. CASE Begin(p)
  <2>1. ASSUME NEW g \in Pages, StartFill(p, g) \/ StartOwnFill(p, g)
        PROVE  /\ UNCHANGED <<property, interest, used>>
               /\ task'[p].op \in FillOps \cup {"idle"}
    <3>1. UNCHANGED <<property, interest, used>>
      BY <2>1 DEF StartFill, StartOwnFill, Ask
    <3>2. {"fill_read", "own_read"} \subseteq FillOps
      BY DEF FillOps
    <3>3. task'[p].op \in {"fill_read", "own_read"}
      BY <2>1, BeginMoves DEF Blank, Turned
    <3> QED
      BY <3>1, <3>2, <3>3
  <2>2. ~ \/ StartUpdate(p) \/ StartRemove(p) \/ StartContractRemove(p)
          \/ StartCancel(p) \/ StartInterest(p)
    BY <1>1 DEF StartUpdate, StartRemove, StartContractRemove, StartCancel,
                StartInterest
  <2>3. ~ \/ (\E S \in SUBSET Photos : StartPhotos(p, S))
          \/ (\E f \in Photos : UpdatePhoto(p, f) \/ StartPhotoDelete(p, f))
    BY <1>1 DEF StartPhotos, UpdatePhoto, StartPhotoDelete
  <2>4. ~ \E f \in Reports : StartReport(p, f) \/ StartReportDelete(p, f)
    BY <1>1 DEF StartReport, StartReportDelete
  <2>5. ~ \E S \in SUBSET Reports : StartSweep(p, S)
    BY <1>1 DEF StartSweep
  <2>6. ~ \E i \in Interests, s \in InterestStatus : StartDecide(p, i, s)
    BY <1>1 DEF StartDecide
  <2> QED
    BY <1>2, <2>1, <2>2, <2>3, <2>4, <2>5, <2>6 DEF Begin
<1>3. CASE Step(p)
  <2>1. CASE FillRead(p) \/ OwnRead(p) \/ FillPhotos(p) \/ FillSet(p)
             \/ OwnSet(p)
    <3>1. UNCHANGED <<property, interest, used>>
      BY <2>1 DEF FillRead, OwnRead, Read, FillPhotos, FillSet, OwnSet, SetPage
    <3>2. {"fill_photos", "own_set", "fill_set"} \subseteq FillOps
      BY DEF FillOps
    <3>3. task'[p].op \in {"fill_photos", "own_set", "fill_set", "idle"}
      BY <2>1, CacheMoves DEF Ended, Blank, Kept, Turned
    <3> QED
      BY <3>1, <3>2, <3>3
  <2>2. ~ \/ ClearRead(p) \/ ClearDel(p) \/ ClearReadOwn(p) \/ ClearDelOwn(p)
          \/ (\E b \in BOOLEAN : UpdateWrite(p, b))
          \/ (\E f \in Photos :
                 PhotoUpload(p, f) \/ PhotoRow(p, f) \/ PhotoThrows(p, f))
          \/ PhotoDelete(p) \/ PhotoUnrow(p)
    BY <1>1 DEF ClearRead, ClearDel, ClearReadOwn, ClearDelOwn, UpdateWrite,
       PhotoUpload, PhotoRow, PhotoThrows, UploadingPhotos, PhotoDelete,
       PhotoUnrow, FillOps
  <2>3. ~ \/ (\E f \in Reports : ReportRender(p, f) \/ ReportUpload(p, f))
          \/ ReportRow(p) \/ ReportDelete(p) \/ ReportUnrow(p)
          \/ SweepDelete(p) \/ SweepUnrow(p) \/ PhotosRead(p)
          \/ PhotosDelete(p) \/ PhotosUnrow(p)
    BY <1>1 DEF ReportRender, ReportUpload, ReportRow, ReportDelete,
       ReportUnrow, SweepDelete, SweepUnrow, PhotosRead, PhotosDelete,
       PhotosUnrow, DeleteSeveral, FillOps
  <2>4. ~ \/ ContractsRead(p) \/ ReportsRead(p) \/ ReportsDelete(p)
          \/ ReportsUnrow(p) \/ ContractUnrow(p) \/ PropertyUnrow(p)
          \/ InterestFind(p) \/ (\E i \in Interests : InterestCreate(p, i))
          \/ InterestTell(p) \/ DecideWrite(p) \/ DecideTell(p)
    BY <1>1 DEF ContractsRead, ReportsRead, ReportsDelete, ReportsUnrow,
       ContractUnrow, PropertyUnrow, InterestFind, InterestCreate,
       InterestTell, DecideWrite, DecideTell, DeleteSeveral, FillOps
  <2> QED
    BY <1>3, <2>1, <2>2, <2>3, <2>4 DEF Step
<1>4. CASE Crash(p)
  <2>1. task'[p].op = "idle"
    BY <1>4, InterestMoves DEF Ended, Blank, Turned
  <2> QED
    BY <1>4, <2>1 DEF Crash
<1> QED
  BY <1>2, <1>3, <1>4 DEF Acts

\* Nothing comes before the property.
LEMMA AbsentStep ==
  ASSUME TypeOK, AbsentInv, NEW p \in Procs, Acts(p)
  PROVE  AbsentInv'
<1>a. Others(p)
  BY ActsAlone
<1>1. ASSUME property' = "absent"
      PROVE  property = "absent"
  BY <1>1, RowStep DEF Create, UpdateWrite, ContractUnrow, PropertyUnrow
<1>2. ASSUME property = "absent", property' = "absent"
      PROVE  /\ UNCHANGED <<interest, used>>
             /\ task'[p].op \in FillOps \cup {"idle"}
  BY <1>2, AbsentActs DEF Create
<1>3. ASSUME property = "absent", property' = "absent", NEW q \in Procs
      PROVE  task'[q].op \in FillOps \cup {"idle"}
  BY <1>2, <1>3, <1>a DEF AbsentInv, Others
<1> QED
  BY <1>1, <1>2, <1>3 DEF AbsentInv

\* What a removal overlapped is forgotten only by the handler that had it,
\* and only if it was not uploaded.
LEMMA RacedKept ==
  ASSUME TypeOK, HandsInv, NEW p \in Procs, Acts(p)
  PROVE  /\ raced \ task[p].files \subseteq raced'
         /\ raced \cap used \subseteq raced'
<1>i. HandOK(p)
  BY DEF HandsInv
<1>1. ASSUME NEW f \in task[p].files \ used, NeverUploaded(f)
      PROVE  /\ raced \ task[p].files \subseteq raced'
             /\ raced \cap used \subseteq raced'
  BY <1>1 DEF NeverUploaded
<1>2. ASSUME NEW f \in Photos, PhotoUpload(p, f)
      PROVE  /\ raced \ task[p].files \subseteq raced'
             /\ raced \cap used \subseteq raced'
  <2>1. /\ f \in task[p].files \ used
        /\ NeverUploaded(f) \/ UNCHANGED raced
    BY <1>2 DEF PhotoUpload
  <2> QED
    BY <1>1, <2>1
<1>3. ASSUME NEW f \in Reports, ReportRender(p, f) \/ ReportUpload(p, f)
      PROVE  /\ raced \ task[p].files \subseteq raced'
             /\ raced \cap used \subseteq raced'
  <2>1. task[p].op \in {"report_render", "report_upload"}
    BY <1>3 DEF ReportRender, ReportUpload, At
  <2>2. task[p].files \cap used = {}
    BY <1>i, <2>1 DEF HandOK
  <2>3. f \in task[p].files /\ (NeverUploaded(f) \/ UNCHANGED raced)
    BY <1>3 DEF ReportRender, ReportUpload, fileVars
  <2> QED
    BY <1>1, <2>2, <2>3
<1>4. CASE \/ (\E S \in SUBSET Photos : StartPhotos(p, S))
           \/ (\E f \in Reports : StartReport(p, f))
           \/ StartRemove(p) \/ StartContractRemove(p) \/ StartCancel(p)
  BY <1>4 DEF StartPhotos, StartReport, UploadStarts, StartRemove,
     StartContractRemove, StartCancel, RemovalStarts
<1>5. CASE Crash(p)
  BY <1>5 DEF Crash
<1> QED
  BY <1>2, <1>3, <1>4, <1>5, RacedStep

\* A removal of the property, of its contract, or of its reports.
RemovalBegun(p) == StartRemove(p) \/ StartContractRemove(p) \/ StartCancel(p)

\* A handler removes once it has begun to.
LEMMA RemovalBegins ==
  ASSUME TypeOK, NextInv, NEW p \in Procs, Acts(p), Removing(p)'
  PROVE  Removing(p) \/ RemovalBegun(p)
<1> SUFFICES ASSUME ~ Removing(p)
             PROVE  RemovalBegun(p)
  OBVIOUS
<1> DEFINE RemoveOps ==
             {"photos_read", "photos_delete", "photos_unrow",
              "contracts_read", "reports_read", "reports_delete",
              "reports_unrow", "contract_unrow", "property_unrow"}
<1>i. NextOK(p)
  BY DEF NextInv
<1>r. task'[p].op \in RemoveOps \/ task'[p].then = "contracts_read"
  BY DEF Removing
<1>n. task[p].op \notin RemoveOps /\ task[p].then # "contracts_read"
  BY DEF Removing
<1>1. ASSUME NEW op, op \notin RemoveOps, NEW then, then # "contracts_read",
             NEW F, Turned(p, op, then, F)
      PROVE  FALSE
  BY <1>1, <1>r DEF Turned
<1>2. ASSUME NEW op, op \notin RemoveOps, NEW F, Blank(p, op, "idle", F)
      PROVE  FALSE
  BY <1>1, <1>2 DEF Blank
<1>3. ASSUME NEW op, op \notin RemoveOps, Kept(p, op)
      PROVE  FALSE
  BY <1>1, <1>3, <1>n DEF Kept
<1>4. ~ Ended(p)
  BY <1>2 DEF Ended
<1>5. ASSUME NEW op \in RemoveOps, At(p, op)
      PROVE  FALSE
  BY <1>5, <1>n DEF At
<1> HIDE DEF RemoveOps
<1>m. {"idle", "clear_read", "clear_del", "clear_read_own", "clear_del_own",
       "update_write", "photo_upload", "photo_stray", "photo_delete",
       "photo_unrow", "fill_read", "own_read", "fill_photos", "fill_set",
       "own_set", "report_render", "report_upload", "report_row",
       "report_delete", "report_unrow", "sweep_delete", "sweep_unrow",
       "interest_find", "interest_create", "interest_tell", "decide_write",
       "decide_tell"} \cap RemoveOps = {}
  BY DEF RemoveOps
<1>6. CASE Begin(p)
  <2>1. ~ \E g \in Pages : StartFill(p, g) \/ StartOwnFill(p, g)
    BY <1>2, <1>m, BeginMoves
  <2>2. ~ \E S \in SUBSET Photos : Create(p, S)
    <3>1. ASSUME NEW S \in SUBSET Photos, Create(p, S)
          PROVE  \/ Turned(p, "clear_read", "idle", {})
                 \/ Turned(p, "photo_upload", "clear_read", S)
      BY <3>1, BeginMoves DEF Blank
    <3> QED
      BY <1>1, <1>m, <3>1
  <2>3. ~ \E f \in Photos : UpdatePhoto(p, f) \/ StartPhotoDelete(p, f)
    BY <1>2, <1>m, BeginMoves
  <2>8. ~ \E S \in SUBSET Photos : StartPhotos(p, S)
    BY <1>2, <1>m, BeginMoves
  <2>4. ~ \E f \in Reports : StartReport(p, f) \/ StartReportDelete(p, f)
    BY <1>2, <1>m, BeginMoves
  <2>5. ~ \E S \in SUBSET Reports : StartSweep(p, S)
    BY <1>2, <1>m, BeginMoves
  <2>6. ~ \E i \in Interests, s \in InterestStatus : StartDecide(p, i, s)
    BY <1>1, <1>m, BeginMoves
  <2>7. ~ (StartUpdate(p) \/ StartInterest(p))
    BY <1>2, <1>m, BeginMoves
  <2> QED
    BY <1>6, <2>1, <2>2, <2>3, <2>4, <2>5, <2>6, <2>7, <2>8
       DEF Begin, RemovalBegun
<1>7. ~ Step(p)
  <2>1. ~ (ClearRead(p) \/ ClearDel(p) \/ ClearReadOwn(p) \/ ClearDelOwn(p))
    <3>1. ASSUME ClearRead(p) \/ ClearDel(p) \/ ClearReadOwn(p)
                   \/ ClearDelOwn(p)
          PROVE  task[p].then \in {"idle", "clear_read"}
      BY <3>1, <1>i, <1>n DEF ClearRead, ClearDel, ClearReadOwn, ClearDelOwn,
         At, NextOK, ClearOps
    <3>2. ASSUME ClearRead(p) \/ ClearDel(p) \/ ClearReadOwn(p)
                   \/ ClearDelOwn(p)
          PROVE  \/ Turned(p, "clear_read_own", task[p].then, {})
                 \/ Turned(p, task[p].then, "idle", {})
                 \/ Kept(p, "clear_del")
                 \/ Kept(p, "clear_del_own")
      BY <3>2, CacheMoves DEF Blank
    <3> QED
      BY <1>1, <1>3, <1>m, <1>n, <3>1, <3>2
  <2>2. ~ (FillRead(p) \/ OwnRead(p) \/ FillPhotos(p) \/ FillSet(p)
             \/ OwnSet(p))
    BY <1>3, <1>4, <1>m, CacheMoves
  <2>3. ~ \/ (\E b \in BOOLEAN : UpdateWrite(p, b))
          \/ PhotoDelete(p) \/ PhotoUnrow(p)
          \/ (\E f \in Reports : ReportRender(p, f) \/ ReportUpload(p, f))
          \/ ReportRow(p) \/ ReportDelete(p) \/ ReportUnrow(p)
          \/ SweepDelete(p) \/ SweepUnrow(p)
    BY <1>2, <1>3, <1>4, <1>m, FileMoves
  <2>6. ~ \E f \in Photos :
            PhotoUpload(p, f) \/ PhotoRow(p, f) \/ PhotoThrows(p, f)
    <3>1. ASSUME NEW f \in Photos,
                 PhotoUpload(p, f) \/ PhotoRow(p, f) \/ PhotoThrows(p, f)
          PROVE  \/ \E F : Turned(p, task[p].op, task[p].then, F)
                 \/ Turned(p, "clear_read", task[p].then, {})
                 \/ \E F : Turned(p, "photo_stray", "idle", F)
                 \/ Ended(p)
      BY <3>1, FileMoves DEF Kept, Left, Failed, Blank
    <3> QED
      BY <1>1, <1>4, <1>m, <1>n, <3>1
  <2>4. ~ \/ PhotosRead(p) \/ PhotosDelete(p) \/ PhotosUnrow(p)
          \/ ContractsRead(p) \/ ReportsRead(p) \/ ReportsDelete(p)
          \/ ReportsUnrow(p) \/ ContractUnrow(p) \/ PropertyUnrow(p)
    <3>1. {"photos_read", "photos_delete", "photos_unrow", "contracts_read",
           "reports_read", "reports_delete", "reports_unrow",
           "contract_unrow", "property_unrow"} \subseteq RemoveOps
      BY DEF RemoveOps
    <3> QED
      BY <1>5, <3>1 DEF PhotosRead, PhotosDelete, PhotosUnrow, ContractsRead,
         ReportsRead, ReportsDelete, ReportsUnrow, ContractUnrow,
         PropertyUnrow, DeleteSeveral
  <2>5. ~ \/ InterestFind(p) \/ (\E i \in Interests : InterestCreate(p, i))
          \/ InterestTell(p) \/ DecideWrite(p) \/ DecideTell(p)
    BY <1>1, <1>3, <1>4, <1>m, <1>n, InterestMoves
  <2> QED
    BY <2>1, <2>2, <2>3, <2>4, <2>5, <2>6 DEF Step
<1>8. ~ Crash(p)
  BY <1>4, InterestMoves
<1> QED
  BY <1>6, <1>7, <1>8 DEF Acts

\* A handler uploads once it has begun to, always the same object.
LEMMA UploadBegins ==
  ASSUME TypeOK, NextInv, NEW p \in Procs, Acts(p), task'[p].op \in UploadOps
  PROVE  \/ \E S \in SUBSET Photos : S # {} /\ Create(p, S)
         \/ \E S \in SUBSET Photos : StartPhotos(p, S)
         \/ \E f \in Reports : StartReport(p, f)
         \/ /\ task[p].op \in PhotoUp <=> task'[p].op \in PhotoUp
            /\ task[p].op \in ReportUp <=> task'[p].op \in ReportUp
            /\ task'[p].files \subseteq task[p].files
            /\ UNCHANGED <<property, contract>>
            /\ raced \cap task'[p].files \subseteq raced'
<1>i. NextOK(p)
  BY DEF NextInv
<1>1. ASSUME NEW op, op \notin UploadOps, NEW then, NEW F,
             Turned(p, op, then, F)
      PROVE  FALSE
  BY <1>1 DEF Turned
<1>2. ASSUME NEW op, op \notin UploadOps, NEW then, NEW F,
             Blank(p, op, then, F)
      PROVE  FALSE
  BY <1>1, <1>2 DEF Blank
<1>3. ASSUME NEW op, op \notin UploadOps, Kept(p, op)
      PROVE  FALSE
  BY <1>1, <1>3 DEF Kept
<1>m. {"idle", "clear_read", "clear_del", "clear_read_own", "clear_del_own",
       "update_write", "photo_delete",
       "photo_unrow", "fill_read", "own_read", "fill_photos", "fill_set",
       "own_set", "report_delete", "report_unrow", "photos_read",
       "photos_delete", "photos_unrow", "contracts_read", "reports_read",
       "reports_delete", "reports_unrow", "sweep_delete", "sweep_unrow",
       "contract_unrow", "property_unrow", "interest_find",
       "interest_create", "interest_tell", "decide_write", "decide_tell"}
         \cap UploadOps = {}
  BY DEF UploadOps, PhotoUp, ReportUp
<1>4. ~ Ended(p)
  BY <1>2, <1>m DEF Ended
<1>5. ~ Finish(p)
  BY <1>4, Finished
<1>6. CASE Begin(p)
  <2>1. ~ \E g \in Pages : StartFill(p, g) \/ StartOwnFill(p, g)
    BY <1>2, <1>m, BeginMoves
  <2>2. ~ Create(p, {})
    BY <1>2, <1>m, BeginMoves
  <2>8. ASSUME NEW S \in SUBSET Photos, Create(p, S)
        PROVE  S # {} /\ Create(p, S)
    BY <2>2, <2>8
  <2>3. ~ \E f \in Photos : UpdatePhoto(p, f) \/ StartPhotoDelete(p, f)
    BY <1>2, <1>m, BeginMoves
  <2>4. ~ \E f \in Reports : StartReportDelete(p, f)
    BY <1>2, <1>m, BeginMoves
  <2>5. ~ \E S \in SUBSET Reports : StartSweep(p, S)
    BY <1>2, <1>m, BeginMoves
  <2>6. ~ \E i \in Interests, s \in InterestStatus : StartDecide(p, i, s)
    BY <1>1, <1>m, BeginMoves
  <2>7. ~ \/ StartUpdate(p) \/ StartRemove(p) \/ StartContractRemove(p)
          \/ StartCancel(p) \/ StartInterest(p)
    BY <1>2, <1>m, BeginMoves
  <2> QED
    BY <1>6, <2>1, <2>3, <2>4, <2>5, <2>6, <2>7, <2>8 DEF Begin
<1>7. CASE Step(p)
  <2>1. ~ (ClearRead(p) \/ ClearDel(p) \/ ClearReadOwn(p) \/ ClearDelOwn(p))
    <3>1. ASSUME ClearRead(p) \/ ClearDel(p) \/ ClearReadOwn(p)
                   \/ ClearDelOwn(p)
          PROVE  task[p].then \in {"idle", "contracts_read", "clear_read"}
      BY <3>1, <1>i DEF ClearRead, ClearDel, ClearReadOwn, ClearDelOwn,
         At, NextOK, ClearOps
    <3> QED
      BY <1>2, <1>3, <1>m, <3>1, CacheMoves
  <2>2. ~ (FillRead(p) \/ OwnRead(p) \/ FillPhotos(p) \/ FillSet(p)
             \/ OwnSet(p))
    BY <1>3, <1>4, <1>m, CacheMoves
  <2>3. ~ \/ (\E b \in BOOLEAN : UpdateWrite(p, b))
          \/ PhotoDelete(p) \/ PhotoUnrow(p)
          \/ ReportRow(p) \/ ReportDelete(p) \/ ReportUnrow(p)
          \/ SweepDelete(p) \/ SweepUnrow(p)
    BY <1>2, <1>3, <1>4, <1>m, FileMoves
  <2>4. ~ \/ PhotosRead(p) \/ PhotosDelete(p) \/ PhotosUnrow(p)
          \/ ContractsRead(p) \/ ReportsRead(p) \/ ReportsDelete(p)
          \/ ReportsUnrow(p) \/ ContractUnrow(p) \/ PropertyUnrow(p)
    <3>1. ASSUME ReportsRead(p) \/ ReportsUnrow(p)
          PROVE  task[p].then \in {"property_unrow", "contract_unrow", "idle"}
      BY <3>1, <1>i DEF ReportsRead, ReportsUnrow, At, NextOK
    <3> QED
      BY <1>1, <1>2, <1>3, <1>4, <1>m, <3>1, RemoveMoves
  <2>5. ~ \/ InterestFind(p) \/ (\E i \in Interests : InterestCreate(p, i))
          \/ InterestTell(p) \/ DecideWrite(p) \/ DecideTell(p)
    BY <1>1, <1>3, <1>4, <1>m, InterestMoves
  <2>6. ASSUME NEW f \in Reports, ReportRender(p, f) \/ ReportUpload(p, f)
        PROVE  /\ task[p].op \in PhotoUp <=> task'[p].op \in PhotoUp
               /\ task[p].op \in ReportUp <=> task'[p].op \in ReportUp
               /\ task'[p].files \subseteq task[p].files
               /\ UNCHANGED <<property, contract>>
               /\ raced \cap task'[p].files \subseteq raced'
    <3>1. UNCHANGED <<property, contract, raced>>
      BY <1>5, <2>6 DEF ReportRender, ReportUpload, rowVars, fileVars
    <3>2. \/ task[p].op = "report_render" /\ Kept(p, "report_upload")
          \/ task[p].op = "report_upload" /\ Kept(p, "report_row")
      BY <1>4, <2>6, FileMoves DEF ReportRender, ReportUpload, At
    <3> QED
      BY <3>1, <3>2 DEF Kept, Turned, PhotoUp, ReportUp
  <2>7. ASSUME NEW f \in Photos,
               PhotoUpload(p, f) \/ PhotoRow(p, f) \/ PhotoThrows(p, f)
        PROVE  /\ task[p].op \in PhotoUp <=> task'[p].op \in PhotoUp
               /\ task[p].op \in ReportUp <=> task'[p].op \in ReportUp
               /\ task'[p].files \subseteq task[p].files
               /\ UNCHANGED <<property, contract>>
               /\ raced \cap task'[p].files \subseteq raced'
    <3>1. task[p].op \in PhotoUp /\ UNCHANGED <<property, contract>>
      BY <2>7 DEF PhotoUpload, PhotoRow, PhotoThrows, UploadingPhotos, PhotoUp,
         rowVars
    <3>2. \/ /\ Turned(p, task[p].op, task[p].then, task[p].files)
             /\ UploadFile(f)
          \/ Turned(p, task[p].op, task[p].then, task[p].files \ {f})
          \/ Turned(p, "photo_stray", "idle", task[p].files \ {f})
      BY <1>2, <1>4, <1>m, <2>7, FileMoves DEF Kept, Left, Failed, Blank
    <3>3. task'[p].op \in PhotoUp /\ task'[p].files \subseteq task[p].files
      BY <3>1, <3>2 DEF Turned, PhotoUp
    <3>4. UNCHANGED raced \/ raced' = raced \ {f}
      BY <2>7 DEF PhotoUpload, PhotoRow, PhotoThrows, fileVars, NeverUploaded
    <3>5. ASSUME ~ UNCHANGED raced
          PROVE  f \notin task'[p].files
      <4>1. PhotoUpload(p, f) /\ NeverUploaded(f)
        BY <2>7, <3>5 DEF PhotoUpload, PhotoRow, PhotoThrows, fileVars
      <4>2. ~ UploadFile(f)
        BY <4>1 DEF PhotoUpload, NeverUploaded, UploadFile, storageVars
      <4> QED
        BY <3>2, <4>2 DEF Turned
    <3> QED
      BY <3>1, <3>3, <3>4, <3>5 DEF PhotoUp, ReportUp
  <2> QED
    BY <1>7, <2>1, <2>2, <2>3, <2>4, <2>5, <2>6, <2>7 DEF Step
<1>8. ~ Crash(p)
  BY <1>4, InterestMoves
<1> QED
  BY <1>6, <1>7, <1>8 DEF Acts

\* An upload that a removal overlaps is remembered.
LEMMA RaceStep ==
  ASSUME TypeOK, HandsInv, NextInv, AbsentInv, RaceInv, NEW p \in Procs,
         Acts(p)
  PROVE  RaceInv'
<1>a. Others(p)
  BY ActsAlone
<1>u. \A q \in Procs : Uploading(q) <=> task[q].op \in UploadOps
  BY DEF Uploading, UploadingPhotos, UploadOps, PhotoUp, ReportUp
<1>v. \A q \in Procs : Uploading(q)' <=> task'[q].op \in UploadOps
  BY DEF Uploading, UploadingPhotos, UploadOps, PhotoUp, ReportUp
<1>r. ASSUME NEW q \in Procs, q # p
      PROVE  Removing(q)' <=> Removing(q)
  BY <1>a, <1>r DEF Others, Removing
<1>s. ASSUME RemovalBegun(p)
      PROVE  /\ \A q \in Procs : Uploading(q) => task[q].files \subseteq raced'
             /\ ~ Uploading(p)'
  <2>1. \A q \in Procs : Uploading(q) => task[q].files \subseteq raced'
    BY <1>s DEF RemovalBegun, StartRemove, StartContractRemove, StartCancel,
       RemovalStarts
  <2>2. task'[p].op \in {"photos_read", "reports_read"}
    BY <1>s, BeginMoves DEF RemovalBegun, Blank, Turned
  <2> QED
    BY <1>v, <2>1, <2>2 DEF UploadOps, PhotoUp, ReportUp
\* What endangers an upload is there already, or is a removal that starts.
<1>e. ASSUME NEW q \in Procs, Uploading(q), Endangered(q)',
             task[q].op \in PhotoUp <=> task'[q].op \in PhotoUp,
             task[q].op \in ReportUp <=> task'[q].op \in ReportUp
      PROVE  Endangered(q) \/ RemovalBegun(p)
  <2>1. ASSUME NEW r \in Procs, Removing(r)'
        PROVE  (\E o \in Procs : Removing(o)) \/ RemovalBegun(p)
    BY <1>r, <2>1, RemovalBegins
  <2>2. ASSUME property = "there", property' # "there"
        PROVE  Removing(p)
    <3>1. PropertyUnrow(p)
      BY <2>2, RowStep DEF Create, UpdateWrite, ContractUnrow
    <3> QED
      BY <3>1 DEF PropertyUnrow, At, Removing
  <2>3. ASSUME contract, ~ contract'
        PROVE  Removing(p)
    <3>1. PropertyUnrow(p) \/ ContractUnrow(p)
      BY <2>3, RowStep DEF Create, UpdateWrite
    <3> QED
      BY <3>1 DEF PropertyUnrow, ContractUnrow, At, Removing
  <2> QED
    BY <1>e, <2>1, <2>2, <2>3 DEF Endangered
<1>1. ASSUME NEW q \in Procs, q # p, Uploading(q)', Endangered(q)'
      PROVE  task'[q].files \subseteq raced'
  <2>1. task'[q] = task[q] /\ Uploading(q)
    BY <1>1, <1>a DEF Others, Uploading, UploadingPhotos
  <2>2. Endangered(q) \/ RemovalBegun(p)
    BY <1>1, <1>e, <2>1
  <2>3. CASE Endangered(q)
    <3>1. task[q].files \subseteq raced
      BY <2>1, <2>3 DEF RaceInv
    <3>2. task[q].files \cap task[p].files = {}
      BY <1>1, <1>u, <2>1 DEF HandsInv, HandOK
    <3> QED
      BY <2>1, <3>1, <3>2, RacedKept
  <2> QED
    BY <1>s, <2>1, <2>2, <2>3
<1>2. ASSUME Uploading(p)', Endangered(p)'
      PROVE  task'[p].files \subseteq raced'
  <2>1. NextOK(p)'
    BY NextStep DEF NextInv
  <2>2. ~ Removing(p)'
    BY <1>2, <1>v, <2>1 DEF NextOK, Removing, ClearOps, UploadOps, PhotoUp,
       ReportUp
  <2>3. ASSUME NEW r \in Procs, Removing(r)'
        PROVE  r # p /\ Removing(r)
    BY <1>r, <2>2, <2>3
  <2>4. ASSUME NEW S \in SUBSET Photos, S # {}, Create(p, S)
        PROVE  FALSE
    <3>1. property = "absent" /\ property' = "there"
      BY <2>4 DEF Create
    <3>2. task'[p].op = "photo_upload"
      BY <2>4, BeginMoves DEF Blank, Turned
    <3>3. PICK r \in Procs : Removing(r)'
      BY <1>2, <3>1, <3>2 DEF Endangered, ReportUp
    <3>4. Removing(r) /\ NextOK(r)
      BY <2>3, <3>3 DEF NextInv
    <3>5. task[r].op \in FillOps \cup {"idle"}
      BY <3>1 DEF AbsentInv
    <3> QED
      BY <3>4, <3>5 DEF NextOK, Removing, ClearOps, FillOps
  <2>5. ASSUME NEW F, \/ F \in SUBSET Photos /\ StartPhotos(p, F)
                      \/ \E f \in Reports : F = {f} /\ StartReport(p, f)
        PROVE  task'[p].files \subseteq raced'
    <3>p. ASSUME F \in SUBSET Photos, StartPhotos(p, F)
          PROVE  /\ UploadStarts(F)
                 /\ Turned(p, "photo_upload", "idle", F)
                 /\ property' = "there"
      BY <3>p, BeginMoves DEF Blank, StartPhotos, rowVars
    <3>r. ASSUME NEW f \in Reports, F = {f}, StartReport(p, f)
          PROVE  /\ UploadStarts(F)
                 /\ Turned(p, "report_render", "idle", F)
                 /\ contract'
      <4>1. contract /\ contract' = contract /\ UploadStarts(F)
        BY <3>r DEF StartReport, rowVars
      <4>2. Turned(p, "report_render", "idle", F)
        BY <3>r, BeginMoves DEF Blank
      <4> QED
        BY <4>1, <4>2, Zenon
    <3>1. /\ task'[p].files = F
          /\ UploadStarts(F)
          /\ \/ task'[p].op = "photo_upload" /\ property' = "there"
             \/ task'[p].op = "report_render" /\ contract'
      BY <2>5, <3>p, <3>r, Zenon DEF Turned
    <3>n. "photo_upload" \notin ReportUp /\ "report_render" \notin PhotoUp
      BY DEF ReportUp, PhotoUp
    <3>e. \/ \E r \in Procs : Removing(r)'
          \/ task'[p].op \in PhotoUp /\ property' # "there"
          \/ task'[p].op \in ReportUp /\ ~contract'
      BY <1>2 DEF Endangered
    <3>2. PICK r \in Procs : Removing(r)'
      BY <3>1, <3>e, <3>n, Zenon
    <3>3. Removing(r)
      BY <2>3, <3>2
    <3> QED
      BY <3>1, <3>3 DEF UploadStarts
  <2>6. ASSUME task[p].op \in PhotoUp <=> task'[p].op \in PhotoUp,
               task[p].op \in ReportUp <=> task'[p].op \in ReportUp,
               task'[p].files \subseteq task[p].files,
               UNCHANGED <<property, contract>>,
               raced \cap task'[p].files \subseteq raced'
        PROVE  task'[p].files \subseteq raced'
    <3>1. Uploading(p)
      BY <1>2, <1>u, <1>v, <2>6 DEF UploadOps
    <3>2. Endangered(p)
      BY <1>2, <1>e, <1>s, <2>6, <3>1
    <3> QED
      BY <2>6, <3>1, <3>2 DEF RaceInv
  <2> QED
    BY <1>2, <1>v, <2>4, <2>5, <2>6, UploadBegins
<1> QED
  BY <1>1, <1>2 DEF RaceInv

\* What comes before the rows of photos, of reports or of the contract are
\* deleted by a removal.
LEMMA DropBegins ==
  ASSUME TypeOK, NextInv, NEW p \in Procs, Acts(p),
         task'[p].op \in {"photos_delete", "photos_unrow", "reports_delete",
                          "reports_unrow", "contract_unrow", "property_unrow"}
  PROVE  \/ PhotosRead(p)
         \/ PhotosDelete(p)
         \/ ContractsRead(p)
         \/ ReportsRead(p)
         \/ ReportsDelete(p)
         \/ ReportsUnrow(p)
<1> DEFINE DropOps == {"photos_delete", "photos_unrow", "reports_delete",
                       "reports_unrow", "contract_unrow", "property_unrow"}
<1>i. NextOK(p)
  BY DEF NextInv
<1>1. ASSUME NEW op, op \notin DropOps, NEW then, NEW F,
             Turned(p, op, then, F)
      PROVE  FALSE
  BY <1>1 DEF Turned
<1>2. ASSUME NEW op, op \notin DropOps, NEW then, NEW F,
             Blank(p, op, then, F)
      PROVE  FALSE
  BY <1>1, <1>2 DEF Blank
<1>3. ASSUME NEW op, op \notin DropOps, Kept(p, op)
      PROVE  FALSE
  BY <1>1, <1>3 DEF Kept
<1>m. {"idle", "clear_read", "clear_del", "clear_read_own", "clear_del_own",
       "update_write", "photo_upload", "photo_stray", "photo_delete",
       "photo_unrow", "fill_read", "own_read", "fill_photos", "fill_set",
       "own_set", "report_render", "report_upload", "report_row",
       "report_delete", "report_unrow", "photos_read", "contracts_read",
       "reports_read", "sweep_delete", "sweep_unrow", "interest_find",
       "interest_create", "interest_tell", "decide_write", "decide_tell"}
         \cap DropOps = {}
  OBVIOUS
<1> HIDE DEF DropOps
<1>4. ~ Ended(p)
  BY <1>2, <1>m DEF Ended
<1>5. ~ Begin(p)
  <2>1. ~ \E g \in Pages : StartFill(p, g) \/ StartOwnFill(p, g)
    BY <1>2, <1>m, BeginMoves
  <2>2. ~ \E S \in SUBSET Photos : Create(p, S)
    BY <1>2, <1>m, BeginMoves
  <2>3. ~ \E f \in Photos : UpdatePhoto(p, f) \/ StartPhotoDelete(p, f)
    BY <1>2, <1>m, BeginMoves
  <2>8. ~ \E S \in SUBSET Photos : StartPhotos(p, S)
    BY <1>2, <1>m, BeginMoves
  <2>4. ~ \E f \in Reports : StartReport(p, f) \/ StartReportDelete(p, f)
    BY <1>2, <1>m, BeginMoves
  <2>5. ~ \E S \in SUBSET Reports : StartSweep(p, S)
    BY <1>2, <1>m, BeginMoves
  <2>6. ~ \E i \in Interests, s \in InterestStatus : StartDecide(p, i, s)
    BY <1>1, <1>m, BeginMoves
  <2>7. ~ \/ StartUpdate(p) \/ StartRemove(p) \/ StartContractRemove(p)
          \/ StartCancel(p) \/ StartInterest(p)
    BY <1>2, <1>m, BeginMoves
  <2> QED
    BY <2>1, <2>2, <2>3, <2>4, <2>5, <2>6, <2>7, <2>8 DEF Begin
<1>6. CASE Step(p)
  <2>1. ~ (ClearRead(p) \/ ClearDel(p) \/ ClearReadOwn(p) \/ ClearDelOwn(p))
    <3>1. ASSUME ClearRead(p) \/ ClearDel(p) \/ ClearReadOwn(p)
                   \/ ClearDelOwn(p)
          PROVE  task[p].then \in {"idle", "contracts_read", "clear_read"}
      BY <3>1, <1>i DEF ClearRead, ClearDel, ClearReadOwn, ClearDelOwn,
         At, NextOK, ClearOps
    <3> QED
      BY <1>2, <1>3, <1>m, <3>1, CacheMoves
  <2>2. ~ (FillRead(p) \/ OwnRead(p) \/ FillPhotos(p) \/ FillSet(p)
             \/ OwnSet(p))
    BY <1>3, <1>4, <1>m, CacheMoves
  <2>3. ~ \/ (\E b \in BOOLEAN : UpdateWrite(p, b))
          \/ PhotoDelete(p) \/ PhotoUnrow(p)
          \/ (\E f \in Reports : ReportRender(p, f) \/ ReportUpload(p, f))
          \/ ReportRow(p) \/ ReportDelete(p) \/ ReportUnrow(p)
          \/ SweepDelete(p) \/ SweepUnrow(p)
    BY <1>2, <1>3, <1>4, <1>m, FileMoves
  <2>6. ~ \E f \in Photos :
            PhotoUpload(p, f) \/ PhotoRow(p, f) \/ PhotoThrows(p, f)
    <3>1. ASSUME NEW f \in Photos,
                 PhotoUpload(p, f) \/ PhotoRow(p, f) \/ PhotoThrows(p, f)
          PROVE  \/ \E F : Turned(p, task[p].op, task[p].then, F)
                 \/ Turned(p, "clear_read", task[p].then, {})
                 \/ \E F : Turned(p, "photo_stray", "idle", F)
                 \/ Ended(p)
      BY <3>1, FileMoves DEF Kept, Left, Failed, Blank
    <3>2. task[p].op \in {"photo_upload", "photo_stray"}
            \/ ~ \E f \in Photos :
                   PhotoUpload(p, f) \/ PhotoRow(p, f) \/ PhotoThrows(p, f)
      BY DEF PhotoUpload, PhotoRow, PhotoThrows, UploadingPhotos
    <3> QED
      BY <1>1, <1>4, <1>m, <3>1, <3>2
  <2>4. ~ (PhotosUnrow(p) \/ ContractUnrow(p) \/ PropertyUnrow(p))
    BY <1>2, <1>4, <1>m, RemoveMoves
  <2>5. ~ \/ InterestFind(p) \/ (\E i \in Interests : InterestCreate(p, i))
          \/ InterestTell(p) \/ DecideWrite(p) \/ DecideTell(p)
    BY <1>1, <1>3, <1>4, <1>m, InterestMoves
  <2> QED
    BY <1>6, <2>1, <2>2, <2>3, <2>4, <2>5, <2>6 DEF Step
<1>7. ~ Crash(p)
  BY <1>4, InterestMoves
<1> QED
  BY <1>5, <1>6, <1>7 DEF Acts

\* While a removal goes on, the rows that are made are of objects it raced.
LEMMA NewNames ==
  ASSUME TypeOK, HandsInv, RaceInv, NEW p \in Procs, Acts(p),
         \E q \in Procs : Removing(q)
  PROVE  /\ photos' \subseteq photos \cup raced'
         /\ reports' \subseteq reports \cup raced'
<1>1. ASSUME NEW f \in Photos, PhotoRow(p, f)
      PROVE  /\ photos' \subseteq photos \cup raced'
             /\ reports' \subseteq reports \cup raced'
  <2>1. /\ UNCHANGED <<reports, raced>>
        /\ Uploading(p)
        /\ f \in task[p].files
        /\ photos' \subseteq photos \cup {f}
    BY <1>1 DEF PhotoRow, fileVars, Uploading
  <2>2. task[p].files \subseteq raced
    BY <2>1 DEF RaceInv, Endangered
  <2> QED
    BY <2>1, <2>2
<1>2. CASE ReportRow(p)
  <2>1. /\ UNCHANGED <<photos, raced>>
        /\ Uploading(p)
        /\ reports' \subseteq reports \cup task[p].files
    BY <1>2 DEF ReportRow, fileVars, Uploading, At
  <2>2. task[p].files \subseteq raced
    BY <2>1 DEF RaceInv, Endangered
  <2> QED
    BY <2>1, <2>2
<1>3. CASE PhotoUnrow(p) \/ ReportUnrow(p) \/ SweepUnrow(p) \/ PhotosUnrow(p)
  BY <1>3 DEF PhotoUnrow, ReportUnrow, SweepUnrow, PhotosUnrow
<1>4. CASE ReportsUnrow(p) \/ ContractUnrow(p) \/ PropertyUnrow(p)
  BY <1>4 DEF ReportsUnrow, ContractUnrow, PropertyUnrow
<1> QED
  BY <1>1, <1>2, <1>3, <1>4, NamesStep

\* A removal knows the rows it deletes, or raced their upload.
LEMMA DropStep ==
  ASSUME TypeOK, HandsInv, NextInv, RaceInv, DropInv, NEW p \in Procs, Acts(p)
  PROVE  DropInv'
<1>a. Others(p)
  BY ActsAlone
<1>u. photos \subseteq used /\ reports \subseteq used
  BY DEF TypeOK
<1> DEFINE DropOps == {"photos_delete", "photos_unrow", "reports_delete",
                       "reports_unrow", "contract_unrow", "property_unrow"}
<1>1. ASSUME NEW q \in Procs, task[q].op \in DropOps,
             task'[q].op \in DropOps => task'[q].files = task[q].files,
             \/ task'[q].op = task[q].op
             \/ task[q].op = "photos_delete" /\ task'[q].op = "photos_unrow"
             \/ task[q].op = "reports_delete" /\ task'[q].op = "reports_unrow"
      PROVE  DropOK(q)'
  <2>1. Removing(q)
    BY <1>1 DEF Removing
  <2>2. /\ photos' \subseteq photos \cup raced'
        /\ reports' \subseteq reports \cup raced'
    BY <2>1, NewNames
  <2>3. raced \cap used \subseteq raced'
    BY RacedKept
  <2>4. DropOK(q)
    BY DEF DropInv
  <2> QED
    BY <1>1, <1>u, <2>2, <2>3, <2>4 DEF DropOK
<1>2. ASSUME NEW q \in Procs, q # p
      PROVE  DropOK(q)'
  <2>1. task'[q] = task[q]
    BY <1>2, <1>a DEF Others
  <2>2. CASE task[q].op \in DropOps
    BY <1>1, <2>1, <2>2
  <2> QED
    BY <2>1, <2>2 DEF DropOK
<1>3. ASSUME task'[p].op \in DropOps
      PROVE  DropOK(p)'
  <2>1. CASE PhotosRead(p)
    <3>1. Turned(p, "contracts_read", "idle", {})
            \/ Turned(p, "photos_delete", "idle", photos)
      BY <2>1, RemoveMoves DEF Blank
    <3>2. UNCHANGED photos
      BY <2>1 DEF PhotosRead, rowVars
    <3> QED
      BY <3>1, <3>2 DEF DropOK, Turned
  <2>2. CASE PhotosDelete(p)
    <3>1. task[p].op = "photos_delete" /\ Kept(p, "photos_unrow")
      BY <2>2, RemoveMoves DEF PhotosDelete, DeleteSeveral, At
    <3> QED
      BY <1>1, <3>1 DEF Kept, Turned
  <2>3. CASE ContractsRead(p)
    <3>1. /\ \/ Turned(p, "reports_read", "property_unrow", {})
             \/ Turned(p, "property_unrow", "idle", {}) /\ ~contract
          /\ UNCHANGED reports
      BY <2>3, RemoveMoves DEF Blank, ContractsRead, rowVars
    <3>2. ~ contract => reports = {}
      BY DEF TypeOK
    <3> QED
      BY <3>1, <3>2 DEF DropOK, Turned
  <2>4. CASE ReportsRead(p)
    <3>1. task[p].then \in {"property_unrow", "contract_unrow", "idle"}
      BY <2>4 DEF NextInv, NextOK, ReportsRead, At
    <3>2. /\ \/ Turned(p, task[p].then, "idle", {}) /\ reports = {}
             \/ Turned(p, "reports_delete", task[p].then, reports)
          /\ UNCHANGED reports
      BY <2>4, RemoveMoves DEF Blank, ReportsRead, rowVars
    <3> QED
      BY <3>1, <3>2 DEF DropOK, Turned
  <2>5. CASE ReportsDelete(p)
    <3>1. task[p].op = "reports_delete" /\ Kept(p, "reports_unrow")
      BY <2>5, RemoveMoves DEF ReportsDelete, DeleteSeveral, At
    <3> QED
      BY <1>1, <3>1 DEF Kept, Turned
  <2>6. CASE ReportsUnrow(p)
    <3>1. task[p].then \in {"property_unrow", "contract_unrow", "idle"}
      BY <2>6 DEF NextInv, NextOK, ReportsUnrow, At
    <3>2. Turned(p, task[p].then, "idle", {}) /\ reports' = {}
      BY <2>6, RemoveMoves DEF Blank, ReportsUnrow
    <3> QED
      BY <3>1, <3>2 DEF DropOK, Turned
  <2> QED
    BY <1>3, <2>1, <2>2, <2>3, <2>4, <2>5, <2>6, DropBegins
<1>4. task'[p].op \notin DropOps => DropOK(p)'
  BY DEF DropOK
<1> QED
  BY <1>2, <1>3, <1>4 DEF DropInv


-----------------------------------------------------------------------------
(* Rows and their objects.                                                 *)

\* An object leaves in the hands of a handler that will delete its row.
LEMMA LeavingHands ==
  /\ \A f : f \in Leaving <=>
       \E q \in Procs : task[q].op \in UnrowOps /\ f \in task[q].files
  /\ \A f : f \in Leaving' <=>
       \E q \in Procs : task'[q].op \in UnrowOps /\ f \in task'[q].files
BY DEF Leaving, UnrowOps

\* What leaves the storage is in the hands of such a handler.
LEMMA DeletedStep ==
  ASSUME TypeOK, NEW p \in Procs, Acts(p), NEW f \in stored, f \notin stored'
  PROVE  f \in Leaving'
<1>o. {"photo_unrow", "report_unrow", "sweep_unrow", "photos_unrow",
       "reports_unrow"} \subseteq UnrowOps
  BY DEF UnrowOps
<1>1. ASSUME DeleteFiles(task[p].files), NEW op \in UnrowOps, Kept(p, op)
      PROVE  f \in Leaving'
  BY <1>1, LeavingHands DEF DeleteFiles, Kept, Turned
<1>2. UNCHANGED storageVars => FALSE
  BY DEF storageVars
<1>3. ASSUME NEW x, UploadFile(x)
      PROVE  FALSE
  BY <1>3 DEF UploadFile
<1>4. CASE PhotoDelete(p)
  BY <1>1, <1>2, <1>4, <1>o, Proceeded DEF PhotoDelete, Proceed, Ops
<1>5. CASE ReportDelete(p)
  BY <1>1, <1>2, <1>5, <1>o, Proceeded DEF ReportDelete, Proceed, Ops
<1>6. CASE SweepDelete(p) \/ PhotosDelete(p) \/ ReportsDelete(p)
  <2>1. DeleteFiles(task[p].files)
    BY <1>2, <1>6 DEF SweepDelete, PhotosDelete, ReportsDelete, DeleteSeveral
  <2>2. \/ Kept(p, "sweep_unrow")
        \/ Kept(p, "photos_unrow")
        \/ Kept(p, "reports_unrow")
    BY <1>6, FileMoves, RemoveMoves
  <2> QED
    BY <1>1, <1>o, <2>1, <2>2
<1>7. ~ \/ Crash(p)
        \/ (\E x \in Photos : PhotoUpload(p, x))
        \/ (\E x \in Photos : PhotoThrows(p, x))
        \/ (\E x \in Reports : ReportUpload(p, x))
  BY <1>2, <1>3 DEF Crash, PhotoUpload, PhotoThrows, ReportUpload,
     NeverUploaded
<1> QED
  BY <1>2, <1>4, <1>5, <1>6, <1>7, StorageStep

\* A row's object is there until a handler has its row left to delete.
LEMMA ReadableStep ==
  ASSUME TypeOK, HandsInv, RowIsReadable, NEW p \in Procs, Acts(p)
  PROVE  RowIsReadable'
<1>a. Others(p)
  BY ActsAlone
<1>i. HandOK(p)
  BY DEF HandsInv
<1>t. /\ photos \subseteq used \cap Photos
      /\ reports \subseteq used \cap Reports
      /\ Photos \cap Reports = {}
  BY ListingsAssumption DEF TypeOK
<1>1. ASSUME NEW f, f \in photos' \cup reports', f \notin photos \cup reports
      PROVE  f \in stored'
  <2>1. (\E x \in Photos : PhotoRow(p, x)) \/ ReportRow(p)
    BY <1>1, NamesStep DEF PhotoUnrow, ReportUnrow, SweepUnrow, PhotosUnrow,
       ReportsUnrow, ContractUnrow, PropertyUnrow
  <2>2. /\ task[p].op \in PhotoUp \cup {"report_row"}
        /\ f \in task[p].files
        /\ task[p].op \in PhotoUp => f \in used
        /\ UNCHANGED stored
    BY <1>1, <2>1 DEF PhotoRow, UploadingPhotos, PhotoUp, ReportRow, At,
       fileVars, storageVars
  <2> QED
    BY <1>i, <2>2 DEF HandOK, UploadOps, PhotoUp, ReportUp
<1>2. ASSUME NEW f \in photos \cup reports, f \in photos' \cup reports',
             f \in Leaving
      PROVE  f \in Leaving' \cup lost'
  <2>1. PICK q \in Procs : task[q].op \in UnrowOps /\ f \in task[q].files
    BY <1>2, LeavingHands
  <2>2. CASE q # p
    BY <1>a, <2>1, <2>2, LeavingHands DEF Others
  <2>3. CASE q = p
    <3>1. task[p].op \in UnrowOps /\ f \in task[p].files
      BY <2>1, <2>3
    <3>2. /\ task[p].op \in {"photo_unrow", "photos_unrow"} => f \notin reports
          /\ task[p].op \notin {"photo_unrow", "photos_unrow"} =>
               f \notin photos
      BY <1>i, <1>t, <3>1 DEF HandOK, UnrowOps, PhotoOut, ReportOut
    <3>3. task[p].op = "photo_unrow" => task[p].files = {f}
      BY <1>i, <3>1 DEF HandOK
    <3>4. CASE Crash(p)
      BY <1>2, <1>t, <3>1, <3>4 DEF Crash
    <3>5. ~ PhotoUnrow(p)
      BY <1>2, <3>2, <3>3 DEF PhotoUnrow, At
    <3>6. ~ PhotosUnrow(p)
      BY <1>2, <3>2 DEF PhotosUnrow, At
    <3>7. ~ (ReportUnrow(p) \/ SweepUnrow(p) \/ ReportsUnrow(p))
      BY <1>2, <3>1, <3>2 DEF ReportUnrow, SweepUnrow, ReportsUnrow, At
    <3>8. ~ \/ ClearRead(p) \/ ClearDel(p) \/ ClearReadOwn(p)
            \/ ClearDelOwn(p) \/ (\E x \in Photos : PhotoUpload(p, x))
            \/ (\E x \in Photos : PhotoRow(p, x))
            \/ (\E x \in Photos : PhotoThrows(p, x))
            \/ (\E x \in Reports : ReportRender(p, x))
            \/ (\E x \in Reports : ReportUpload(p, x)) \/ ReportRow(p)
            \/ InterestTell(p) \/ DecideTell(p)
      BY <3>1 DEF ClearRead, ClearDel, ClearReadOwn, ClearDelOwn, PhotoUpload,
         PhotoRow, PhotoThrows, UploadingPhotos, ReportRender, ReportUpload,
         ReportRow, InterestTell, DecideTell, At, UnrowOps
    <3>9. task[p].op \in Watched
      BY <3>1 DEF Watched
    <3> QED
      BY <3>4, <3>5, <3>6, <3>7, <3>8, <3>9, OpStep
  <2> QED
    BY <2>2, <2>3
<1>3. lost \subseteq lost'
  BY EnvStep
<1>4. ASSUME NEW f, f \in photos' \cup reports'
      PROVE  f \in stored' \/ f \in Leaving' \cup lost'
  <2>1. CASE f \notin photos \cup reports
    BY <1>1, <1>4, <2>1
  <2>2. CASE f \in photos \cup reports
    <3>1. f \in stored \cup Leaving \cup lost
      BY <2>2 DEF RowIsReadable, Readable
    <3>2. f \in stored => f \in stored' \cup Leaving'
      BY DeletedStep
    <3> QED
      BY <1>2, <1>3, <1>4, <2>2, <3>1, <3>2
  <2> QED
    BY <2>1, <2>2
<1> QED
  BY <1>4 DEF RowIsReadable, Readable

\* An object has its row, or a handler that will make it.
LEMMA NamedStep ==
  ASSUME TypeOK, HandsInv, NextInv, RaceInv, DropInv, StoredIsNamed,
         NEW p \in Procs, Acts(p)
  PROVE  StoredIsNamed'
<1>a. Others(p)
  BY ActsAlone
<1>i. HandOK(p) /\ DropOK(p)
  BY DEF HandsInv, DropInv
<1>t. stored \subseteq used /\ photos \subseteq used /\ reports \subseteq used
  BY DEF TypeOK, StorageTypeOK
<1>u. \A q \in Procs : Uploading(q)' <=> task'[q].op \in UploadOps
  BY DEF Uploading, UploadingPhotos, UploadOps, PhotoUp, ReportUp
<1>k. lost \subseteq lost' /\ raced \cap used \subseteq raced'
  BY EnvStep, RacedKept
<1>1. ASSUME NEW f, f \in stored', f \notin stored
      PROVE  Uploading(p)' /\ f \in task'[p].files
  <2>1. ASSUME NEW x, \/ x \in Photos /\ PhotoUpload(p, x)
                      \/ x \in Reports /\ ReportUpload(p, x)
        PROVE  /\ f \in task[p].files
               /\ \/ task[p].op \in PhotoUp /\ Kept(p, task[p].op)
                  \/ Kept(p, "report_row")
    <3>1. UploadFile(x) /\ x \in task[p].files
      BY <1>1, <2>1 DEF PhotoUpload, ReportUpload, NeverUploaded, storageVars
    <3>2. x = f /\ ~ NeverUploaded(x)
      BY <1>1, <3>1 DEF UploadFile, NeverUploaded, storageVars
    <3>3. CASE x \in Photos /\ PhotoUpload(p, x)
      <4>1. task[p].op \in PhotoUp
        BY <3>3 DEF PhotoUpload, UploadingPhotos, PhotoUp
      <4> QED
        BY <3>1, <3>2, <3>3, <4>1, FileMoves
    <3>4. CASE ReportUpload(p, x)
      <4>1. Proceed(p, "report_row")
        BY <3>2, <3>4 DEF ReportUpload
      <4> QED
        BY <3>1, <3>2, <4>1, Proceeded DEF Proceed, Ops
    <3> QED
      BY <2>1, <3>3, <3>4
  <2>2. \/ \E x \in Photos : PhotoUpload(p, x)
        \/ \E x \in Reports : ReportUpload(p, x)
    <3>1. ~ UNCHANGED storageVars /\ ~ DeleteFiles(task[p].files)
      BY <1>1 DEF storageVars, DeleteFiles
    <3> QED
      BY <3>1, StorageStep DEF Crash, PhotoThrows,
         PhotoDelete, ReportDelete, SweepDelete,
         PhotosDelete, ReportsDelete, DeleteSeveral
  <2>3. /\ f \in task[p].files
        /\ \/ task[p].op \in PhotoUp /\ Kept(p, task[p].op)
           \/ Kept(p, "report_row")
    BY <2>1, <2>2
  <2> QED
    BY <1>u, <2>3 DEF Kept, Turned, UploadOps, PhotoUp, ReportUp
<1>2. ASSUME NEW f \in stored, f \in stored', f \in photos \cup reports,
             f \notin photos' \cup reports'
      PROVE  f \in raced' \cup lost'
  <2>1. CASE PhotoUnrow(p) \/ ReportUnrow(p) \/ SweepUnrow(p)
    <3>1. f \in task[p].files
      BY <1>2, <2>1 DEF PhotoUnrow, ReportUnrow, SweepUnrow
    <3>2. task[p].op \in UnrowOps
      BY <2>1 DEF PhotoUnrow, ReportUnrow, SweepUnrow, At, UnrowOps
    <3> QED
      BY <1>2, <1>i, <1>k, <3>1, <3>2 DEF HandOK
  <2>2. CASE PhotosUnrow(p) \/ ReportsUnrow(p)
    <3>1. f \in task[p].files \cup raced
      BY <1>2, <1>i, <2>2 DEF PhotosUnrow, ReportsUnrow, At, DropOK
    <3>2. task[p].op \in UnrowOps
      BY <2>2 DEF PhotosUnrow, ReportsUnrow, At, UnrowOps
    <3> QED
      BY <1>2, <1>i, <1>k, <1>t, <3>1, <3>2 DEF HandOK
  <2>3. CASE ContractUnrow(p) \/ PropertyUnrow(p)
    <3>1. f \in raced
      BY <1>2, <1>i, <2>3 DEF ContractUnrow, PropertyUnrow, At, DropOK
    <3> QED
      BY <1>k, <1>t, <3>1
  <2>4. ~ ((\E x \in Photos : PhotoRow(p, x)) \/ ReportRow(p))
    BY <1>2 DEF PhotoRow, ReportRow
  <2> QED
    BY <1>2, <2>1, <2>2, <2>3, <2>4, NamesStep
<1>3. ASSUME NEW f \in stored, NEW q \in Procs, Uploading(q),
             f \in task[q].files
      PROVE  \/ f \in photos' \cup reports' \cup raced' \cup lost'
             \/ \E r \in Procs : Uploading(r)' /\ f \in task'[r].files
  <2>1. CASE q # p
    BY <1>3, <1>a, <2>1 DEF Others, Uploading, UploadingPhotos
  <2>2. CASE q = p
    <3>1. task[p].op \in UploadOps
      BY <1>3, <2>2 DEF Uploading, UploadingPhotos, UploadOps, PhotoUp,
         ReportUp
    <3>2. task[p].op \in PhotoUp \cup {"report_row"}
      <4>1. task[p].op \notin {"report_render", "report_upload"}
        BY <1>3, <1>i, <1>t, <2>2 DEF HandOK
      <4> QED
        BY <3>1, <4>1 DEF UploadOps, ReportUp
    <3>3. CASE Crash(p)
      BY <1>3, <1>t, <2>2, <3>3 DEF Crash
    <3>8. ASSUME NEW x \in Photos, x # f, Failed(p, x)
          PROVE  Uploading(p)' /\ f \in task'[p].files
      <4>1. task[p].files # {x} /\ f \in task[p].files \ {x}
        BY <1>3, <2>2, <3>8
      <4>2. Turned(p, "photo_stray", "idle", task[p].files \ {x})
        BY <3>8, <4>1 DEF Failed, Blank
      <4> QED
        BY <1>u, <4>1, <4>2 DEF Turned, UploadOps, PhotoUp
    <3>9. ASSUME NEW x \in Photos, PhotoUpload(p, x)
          PROVE  Uploading(p)' /\ f \in task'[p].files
      <4>1. x # f
        BY <1>3, <1>t, <3>9 DEF PhotoUpload
      <4>2. Kept(p, task[p].op) \/ Failed(p, x)
        BY <3>9, FileMoves
      <4>3. CASE Kept(p, task[p].op)
        BY <1>3, <1>u, <2>2, <3>1, <4>3 DEF Kept, Turned
      <4> QED
        BY <3>8, <4>1, <4>2, <4>3
    <3>10. ASSUME NEW x \in Photos, PhotoThrows(p, x)
           PROVE  \/ f \in lost'
                  \/ Uploading(p)' /\ f \in task'[p].files
      <4>1. CASE x = f
        BY <3>10, <4>1 DEF PhotoThrows
      <4>2. CASE x # f
        BY <3>8, <3>10, <4>2, FileMoves
      <4> QED
        BY <4>1, <4>2
    <3>4. ASSUME NEW x \in Photos, PhotoRow(p, x)
          PROVE  \/ f \in photos' \cup raced'
                 \/ Uploading(p)' /\ f \in task'[p].files
      <4>1. CASE property # "there"
        <5>1. task[p].op \in PhotoUp
          BY <3>4 DEF PhotoRow, UploadingPhotos, PhotoUp
        <5>2. task[p].files \subseteq raced
          BY <1>3, <2>2, <4>1, <5>1 DEF RaceInv, Endangered
        <5> QED
          BY <1>3, <1>k, <1>t, <2>2, <5>2
      <4>2. CASE property = "there" /\ x = f
        BY <3>4, <4>2 DEF PhotoRow
      <4>3. CASE x # f
        <5>1. CASE Left(p, x)
          BY <1>3, <1>u, <2>2, <3>1, <4>3, <5>1 DEF Left, Turned
        <5>2. task[p].files # {x}
          BY <1>3, <2>2, <4>3
        <5> QED
          BY <3>4, <3>8, <4>3, <5>1, <5>2, FileMoves
      <4> QED
        BY <4>1, <4>2, <4>3
    <3>5. CASE ReportRow(p)
      <4>1. CASE contract
        BY <1>3, <2>2, <3>5, <4>1 DEF ReportRow
      <4>2. CASE ~ contract
        <5>1. task[p].files \subseteq raced
          BY <1>3, <2>2, <3>5, <4>2 DEF RaceInv, Endangered, ReportRow, At,
             ReportUp
        <5> QED
          BY <1>3, <1>k, <1>t, <2>2, <5>1
      <4> QED
        BY <4>1, <4>2
    <3>6. ~ \/ ClearRead(p) \/ ClearDel(p) \/ ClearReadOwn(p)
            \/ ClearDelOwn(p)
            \/ PhotoUnrow(p) \/ (\E x \in Reports : ReportRender(p, x))
            \/ (\E x \in Reports : ReportUpload(p, x)) \/ ReportUnrow(p)
            \/ SweepUnrow(p) \/ PhotosUnrow(p) \/ ReportsUnrow(p)
            \/ InterestTell(p) \/ DecideTell(p)
      BY <3>2 DEF ClearRead, ClearDel, ClearReadOwn, ClearDelOwn, PhotoUp,
         PhotoUnrow, ReportRender, ReportUpload, ReportUnrow, SweepUnrow,
         PhotosUnrow, ReportsUnrow, InterestTell, DecideTell, At
    <3>7. task[p].op \in Watched
      BY <3>1 DEF Watched
    <3> QED
      BY <2>2, <3>3, <3>4, <3>5, <3>6, <3>7, <3>9, <3>10, OpStep
  <2> QED
    BY <2>1, <2>2
<1>4. ASSUME NEW f, f \in stored'
      PROVE  \/ f \in photos' \cup reports' \cup raced' \cup lost'
             \/ \E r \in Procs : Uploading(r)' /\ f \in task'[r].files
  <2>1. CASE f \notin stored
    BY <1>1, <1>4, <2>1
  <2>2. CASE f \in stored
    <3>1. \/ f \in photos \cup reports \cup raced \cup lost
          \/ \E q \in Procs : Uploading(q) /\ f \in task[q].files
      BY <2>2 DEF StoredIsNamed
    <3> QED
      BY <1>2, <1>3, <1>4, <1>k, <1>t, <2>2, <3>1
  <2> QED
    BY <2>1, <2>2
<1> QED
  BY <1>4 DEF StoredIsNamed


-----------------------------------------------------------------------------
(* The cached pages.                                                       *)

\* A failure, and the upload of photos, may be late, and leave the pages.
LEMMA CachedKept ==
  ASSUME NEW p \in Procs,
         \/ Crash(p)
         \/ \E f \in Photos : PhotoUpload(p, f)
         \/ \E f \in Photos : PhotoRow(p, f)
         \/ \E f \in Photos : PhotoThrows(p, f)
  PROVE  /\ UNCHANGED <<cached, tracked>>
         /\ late => late'
<1>1. UNCHANGED <<cached, tracked>>
  BY Zenon DEF Crash, PhotoUpload, PhotoRow, PhotoThrows
<1>2. ASSUME NEW x, late' = (late \/ x)
      PROVE  late => late'
  BY <1>2, Zenon
<1>3. CASE Crash(p)
  BY <1>2, <1>3, Zenon DEF Crash
<1>4. ASSUME NEW f \in Photos, PhotoUpload(p, f)
      PROVE  late => late'
  BY <1>2, <1>4, Zenon DEF PhotoUpload
<1>5. ASSUME NEW f \in Photos, PhotoRow(p, f)
      PROVE  late => late'
  BY <1>2, <1>5, Zenon DEF PhotoRow, PhotoMade
<1>6. ASSUME NEW f \in Photos, PhotoThrows(p, f)
      PROVE  late => late'
  BY <1>2, <1>6, Zenon DEF PhotoThrows
<1> QED
  BY <1>1, <1>3, <1>4, <1>5, <1>6

\* A page is cached with its tracking, and loses it to a clear that deletes
\* the page, or is late.
LEMMA TrackStep ==
  ASSUME TypeOK, TrackInv, NEW p \in Procs, Acts(p)
  PROVE  TrackInv'
<1>t. cached \in [Pages -> Showing \cup {None}]
  BY DEF TypeOK
<1>1. ASSUME NEW list, NEW t, DelList(p, list, t)
      PROVE  TrackInv'
  BY <1>1, <1>t DEF TrackInv, DelList
<1>2. ASSUME SetPage(p)
      PROVE  TrackInv'
  BY <1>2, <1>t DEF TrackInv, SetPage, CacheSet
<1>3. ASSUME UNCHANGED <<cached, tracked>>, late => late'
      PROVE  TrackInv'
  BY <1>3 DEF TrackInv
<1>4. CASE ClearDel(p) \/ ClearDelOwn(p)
  BY <1>1, <1>4 DEF ClearDel, ClearDelOwn
<1>5. CASE FillSet(p) \/ OwnSet(p)
  BY <1>2, <1>5 DEF FillSet, OwnSet
<1>6. CASE \/ Crash(p)
           \/ (\E f \in Photos : PhotoUpload(p, f))
           \/ (\E f \in Photos : PhotoRow(p, f))
           \/ (\E f \in Photos : PhotoThrows(p, f))
  <2>1. UNCHANGED <<cached, tracked>> /\ (late => late')
    BY <1>6, CachedKept
  <2> QED
    BY <1>3, <2>1
<1> QED
  BY <1>3, <1>4, <1>5, <1>6, CacheStep DEF cacheVars

\* Interests go only with the property.
LEMMA ShownStep ==
  ASSUME TypeOK, NextInv, NEW p \in Procs, Acts(p), UNCHANGED property
  PROVE  Shown \subseteq Shown'
<1>t. interest \in [Interests -> InterestStatus \cup {"absent"}]
  BY DEF TypeOK
<1>1. CASE UNCHANGED interest
  BY <1>1 DEF Shown
<1>2. ASSUME NEW i \in Interests, NEW s, s # "absent",
             interest' = [interest EXCEPT ![i] = s]
      PROVE  Shown \subseteq Shown'
  BY <1>2, <1>t DEF Shown
<1>3. CASE PropertyUnrow(p)
  BY <1>1, <1>3 DEF PropertyUnrow
<1>4. CASE \E i \in Interests : InterestCreate(p, i)
  BY <1>1, <1>2, <1>4, "PENDING" # "absent" DEF InterestCreate
<1>5. CASE DecideWrite(p)
  <2>1. task[p].op = "decide_write"
    BY <1>5 DEF DecideWrite, At
  <2>2. task[p].interest \in Interests
    BY <2>1 DEF NextInv, NextOK
  <2>3. task[p].status # "absent"
    BY DEF TypeOK, InterestStatus
  <2> QED
    BY <1>1, <1>2, <1>5, <2>2, <2>3 DEF DecideWrite
<1>6. CASE InterestTell(p) \/ DecideTell(p)
  BY <1>1, <1>6 DEF InterestTell, DecideTell
<1> QED
  BY <1>1, <1>3, <1>4, <1>5, <1>6, InterestStep DEF interestVars

RowOf(n, a, f, s) ==
  [on |-> n, available |-> a, photos |-> f, interests |-> s]

\* A listing with other interests: the three fields that stay.
LEMMA RowWith ==
  \A n, a, f, s, x :
    [RowOf(n, a, f, s) EXCEPT !.interests = x] = RowOf(n, a, f, x)
BY SMT DEF RowOf

LEMMA ShowsKept ==
  ASSUME NEW g \in Pages, UNCHANGED <<property, available, photos>>,
         Shown \subseteq Shown', NEW page, Shows(page, Listing(g))
  PROVE  Shows(page, Listing(g)')
<1> DEFINE On == property = "there" /\ (available \/ g \in Own)
           Row(s) == RowOf(TRUE, available, photos, s)
<1>1. CASE ~ On
  <2>1. Listing(g) = Nothing /\ Listing(g)' = Nothing
    BY <1>1 DEF Listing, Nothing
  <2> QED
    BY <2>1
<1>2. CASE On
  <2>1. Listing(g) = Row(Shown) /\ Listing(g)' = Row(Shown')
    BY <1>2 DEF Listing, RowOf
  <2>2. \A s, x : [Row(s) EXCEPT !.interests = x] = Row(x)
    BY RowWith
  <2>3. \A s : Row(s).interests = s
    BY DEF RowOf
  <2> HIDE DEF Row
  <2>4. page.interests \subseteq Shown /\ page = Row(page.interests)
    BY <2>1, <2>2, <2>3 DEF Shows
  <2> QED
    BY <2>1, <2>2, <2>3, <2>4 DEF Shows
<1> QED
  BY <1>1, <1>2

\* What the rows say of the property changes only if the handler will clear
\* the pages, or makes the row of a photo that went astray.
LEMMA ListingStep ==
  ASSUME TypeOK, NEW p \in Procs, Acts(p)
  PROVE  \/ UNCHANGED <<property, available, photos>>
         \/ \A g \in Pages : WillClear(p, g)'
         \/ late'
         \/ \A g \in Pages : cached'[g] = None
<1>1. ASSUME task'[p].op \in {"clear_read", "clear_del"}
      PROVE  \A g \in Pages : WillClear(p, g)'
  BY <1>1 DEF WillClear
<1>c. Blank(p, "clear_read", "idle", {}) => \A g \in Pages : WillClear(p, g)'
  BY <1>1 DEF Blank, Turned
<1>d. Continue(p, Clearing("idle")) => Blank(p, "clear_read", "idle", {})
  BY ClearBegins DEF Ops
<1>2. ASSUME NEW S \in SUBSET Photos, Create(p, S)
      PROVE  \A g \in Pages : WillClear(p, g)'
  <2>1. CASE S = {}
    BY <1>c, <1>2, <2>1, BeginMoves
  <2>2. CASE S # {}
    <3>1. task'[p].op = "photo_upload" /\ property' = "there"
      BY <1>2, <2>2, BeginMoves DEF Blank, Turned, Create
    <3> QED
      BY <3>1 DEF WillClear
  <2> QED
    BY <2>1, <2>2
<1>3. ASSUME NEW b \in BOOLEAN, UpdateWrite(p, b)
      PROVE  \/ UNCHANGED <<property, available, photos>>
             \/ \A g \in Pages : WillClear(p, g)'
  BY <1>3, <1>c, <1>d DEF UpdateWrite
<1>4. CASE PropertyUnrow(p)
  BY <1>4, <1>c, <1>d DEF PropertyUnrow
<1>5. CASE PhotoUnrow(p)
  BY <1>5, <1>c, <1>d DEF PhotoUnrow
<1>10. ASSUME NEW f \in Photos, PhotoRow(p, f)
       PROVE  \/ UNCHANGED <<property, available, photos>>
              \/ \A g \in Pages : WillClear(p, g)'
              \/ late'
              \/ \A g \in Pages : cached'[g] = None
  <2>1. UNCHANGED <<property, available, cached>>
    BY <1>10 DEF PhotoRow
  <2>2. CASE property # "there"
    BY <1>10, <2>1, <2>2 DEF PhotoRow
  <2>3. CASE property = "there" /\ At(p, "photo_stray")
    <3>1. late' = (late \/ (At(p, "photo_stray") /\ Listed))
      BY <1>10, <2>3, Zenon DEF PhotoRow, PhotoMade
    <3>2. Listed => late'
      BY <2>3, <3>1
    <3>3. ~ Listed => \A g \in Pages : cached'[g] = None
      BY <2>1 DEF Listed
    <3> QED
      BY <3>2, <3>3
  <2>4. CASE property = "there" /\ ~At(p, "photo_stray")
    <3>1. task[p].op = "photo_upload" /\ PhotoMade(p, f)
      BY <1>10, <2>4 DEF PhotoRow, UploadingPhotos, At
    <3>2. CASE task[p].files # {f}
      <4>1. task'[p].op = "photo_upload"
        <5>1. task[p] \in Task /\ task \in [Procs -> Task]
          BY DEF TypeOK, Task
        <5>2. Continue(p, [task[p] EXCEPT !.files = @ \ {f}])
          BY <3>1, <3>2 DEF PhotoMade
        <5> QED
          BY <3>1, <5>1, <5>2 DEF Continue, Task
      <4> QED
        BY <2>1, <2>4, <4>1 DEF WillClear
    <3>3. CASE task[p].files = {f}
      <4>1. Continue(p, Clearing(task[p].then)) /\ task[p].then \in Ops
        BY <2>4, <3>1, <3>3 DEF PhotoMade, TypeOK
      <4>2. task'[p].op = "clear_read"
        BY <4>1, ClearBegins DEF Blank, Turned
      <4> QED
        BY <1>1, <4>2
    <3> QED
      BY <3>2, <3>3
  <2> QED
    BY <2>2, <2>3, <2>4
<1>6. CASE PhotosUnrow(p)
  <2>1. task'[p].op = "clear_read"
    BY <1>6, RemoveMoves DEF Blank, Turned
  <2> QED
    BY <1>1, <2>1
<1>7. CASE ContractUnrow(p)
  BY <1>7 DEF ContractUnrow
<1>8. CASE ReportRow(p) \/ ReportUnrow(p) \/ SweepUnrow(p) \/ ReportsUnrow(p)
  BY <1>8 DEF ReportRow, ReportUnrow, SweepUnrow, ReportsUnrow
<1>9. CASE UNCHANGED <<property, available, contract>>
             /\ UNCHANGED <<photos, reports>>
  BY <1>9
<1> QED
  BY <1>2, <1>3, <1>4, <1>5, <1>6, <1>7, <1>8, <1>9, <1>10, RowStep,
     NamesStep

\* Who clears a page that is in the list.
LEMMA ClearStep ==
  ASSUME TypeOK, TrackInv, NEW p \in Procs, Acts(p), NEW g \in Pages,
         WillClear(p, g), UNCHANGED property,
         cached[g] # None, cached'[g] # None, ~ late'
  PROVE  WillClear(p, g)'
<1>t. /\ cached \in [Pages -> Showing \cup {None}]
      /\ task \in [Procs -> Task]
      /\ task[p] \in Task
      /\ Own \subseteq Pages
  BY ListingsAssumption DEF TypeOK, Task
<1>w. task[p].op \in {"clear_read", "clear_del", "clear_read_own",
                      "clear_del_own", "photo_upload"}
  BY DEF WillClear
<1>l. Listed
  BY DEF Listed
<1>1. ~ Crash(p)
  BY <1>l, <1>w DEF Crash, ClearAhead
<1>2. ASSUME late' = (late \/ Listed)
      PROVE  FALSE
  BY <1>2, <1>l
<1>3. ASSUME NEW list, NEW op, NEW next, g \in list, ~ late,
             ReadList(p, list, op, next)
      PROVE  task'[p].op = op
  <2>1. g \in tracked \cap list
    BY <1>3 DEF TrackInv
  <2>2. Continue(p, [task[p] EXCEPT !.op = op, !.pages = tracked \cap list])
    BY <1>3, <2>1 DEF ReadList
  <2> QED
    BY <1>t, <2>2 DEF Continue, Task
<1>4. ASSUME NEW list, NEW next, g \in list, DelList(p, list, next)
      PROVE  FALSE
  <2>1. ~ late /\ tracked \cap list \subseteq task[p].pages
    BY <1>4 DEF DelList
  <2>2. g \in task[p].pages
    BY <1>4, <2>1 DEF TrackInv
  <2> QED
    BY <1>4, <2>2 DEF DelList
<1>5. CASE ClearRead(p)
  <2>1. ~ late
    BY <1>5 DEF ClearRead, ReadList, cacheVars
  <2>2. CASE g \in Own
    <3>1. task'[p].op \in {"clear_read_own", "clear_del"}
      BY <1>5, CacheMoves DEF Blank, Kept, Turned
    <3> QED
      BY <2>2, <3>1 DEF WillClear
  <2>3. CASE g \notin Own
    <3>1. task'[p].op = "clear_del"
      BY <1>3, <1>5, <2>1, <2>3 DEF ClearRead
    <3> QED
      BY <3>1 DEF WillClear
  <2> QED
    BY <2>2, <2>3
<1>6. CASE ClearDel(p)
  <2>1. g \in Own
    BY <1>4, <1>6 DEF ClearDel
  <2>2. task'[p].op = "clear_read_own"
    BY <1>6, CacheMoves DEF Blank, Turned
  <2> QED
    BY <2>1, <2>2 DEF WillClear
<1>7. CASE ClearReadOwn(p)
  <2>1. ~ late
    BY <1>7 DEF ClearReadOwn, ReadList, cacheVars
  <2>2. g \in Own
    BY <1>7 DEF ClearReadOwn, At, WillClear
  <2>3. task'[p].op = "clear_del_own"
    BY <1>3, <1>7, <2>1, <2>2 DEF ClearReadOwn
  <2> QED
    BY <2>2, <2>3 DEF WillClear
<1>8. ~ ClearDelOwn(p)
  BY <1>4 DEF ClearDelOwn, At, WillClear
<1>p. ASSUME task[p].op \in {"photo_upload", "photo_stray"}
      PROVE  task[p].op = "photo_upload" /\ property = "there"
  BY <1>p DEF WillClear
<1>9. ASSUME NEW f \in Photos, PhotoUpload(p, f)
      PROVE  WillClear(p, g)'
  <2>1. task[p].op = "photo_upload" /\ property = "there"
    BY <1>9, <1>p DEF PhotoUpload, UploadingPhotos
  <2>2. ~ (late' = (late \/ (ClearAhead(p) /\ Listed)))
    BY <1>l, <2>1 DEF ClearAhead
  <2>3. UNCHANGED task
    BY <1>9, <2>2, Zenon DEF PhotoUpload
  <2> QED
    BY <2>1, <2>3 DEF WillClear
<1>10. ASSUME NEW f \in Photos, PhotoRow(p, f)
       PROVE  WillClear(p, g)'
  <2>1. task[p].op = "photo_upload" /\ property = "there"
    BY <1>10, <1>p DEF PhotoRow, UploadingPhotos
  <2>2. PhotoMade(p, f) /\ ~At(p, "photo_stray")
    BY <1>10, <2>1 DEF PhotoRow, At
  <2>3. CASE task[p].files # {f}
    <3>1. Continue(p, [task[p] EXCEPT !.files = @ \ {f}])
      BY <2>2, <2>3 DEF PhotoMade
    <3>2. task'[p].op = "photo_upload"
      BY <1>t, <2>1, <3>1 DEF Continue, Task
    <3> QED
      BY <2>1, <3>2 DEF WillClear
  <2>4. CASE task[p].files = {f}
    <3>1. Continue(p, Clearing(task[p].then)) /\ task[p].then \in Ops
      BY <1>t, <2>2, <2>4 DEF PhotoMade, Task
    <3>2. task'[p].op = "clear_read"
      BY <3>1, ClearBegins DEF Blank, Turned
    <3> QED
      BY <3>2 DEF WillClear
  <2> QED
    BY <2>3, <2>4
<1>13. ASSUME NEW f \in Photos, PhotoThrows(p, f)
       PROVE  FALSE
  <2>1. task[p].op = "photo_upload"
    BY <1>13, <1>p DEF PhotoThrows, UploadingPhotos
  <2>2. late' = (late \/ (ClearAhead(p) /\ Listed))
    BY <1>13, Zenon DEF PhotoThrows
  <2> QED
    BY <1>l, <2>1, <2>2 DEF ClearAhead
<1>11. ~ \/ PhotoUnrow(p) \/ (\E x \in Reports : ReportRender(p, x))
         \/ (\E x \in Reports : ReportUpload(p, x)) \/ ReportRow(p)
         \/ ReportUnrow(p) \/ SweepUnrow(p) \/ PhotosUnrow(p)
         \/ ReportsUnrow(p) \/ InterestTell(p) \/ DecideTell(p)
  BY <1>w DEF PhotoUnrow, ReportRender, ReportUpload, ReportRow, ReportUnrow,
     SweepUnrow, PhotosUnrow, ReportsUnrow, InterestTell, DecideTell, At
<1>12. task[p].op \in Watched
  BY <1>w DEF Watched, ClearOps, UploadOps, PhotoUp
<1> QED
  BY <1>1, <1>5, <1>6, <1>7, <1>8, <1>9, <1>10, <1>11, <1>12, <1>13,
     OpStep

\* A page that is not as its rows has a handler that will clear it.
LEMMA FreshStep ==
  ASSUME TypeOK, NextInv, TrackInv, FreshInv, NEW p \in Procs, Acts(p)
  PROVE  FreshInv'
<1>a. Others(p)
  BY ActsAlone
<1>t. cached \in [Pages -> Showing \cup {None}]
  BY DEF TypeOK
<1>s. \A h \in Pages : /\ Stale(h) <=> /\ cached[h] # None
                                       /\ ~Shows(cached[h], Listing(h))
                       /\ Stale(h)' <=> /\ cached'[h] # None
                                        /\ ~Shows(cached'[h], Listing(h)')
  BY DEF Stale, Shows
\* A page goes stale when its rows change, or is late.
<1>2. ASSUME UNCHANGED <<property, available, photos>>, NEW g \in Pages,
             Stale(g)', ~ late'
      PROVE  ~ late /\ Stale(g)
  <2>s. Shown \subseteq Shown'
    BY <1>2, ShownStep
  <2>k. \A page : Shows(page, Listing(g)) => Shows(page, Listing(g)')
    BY <1>2, <2>s, ShowsKept
  <2>1. ASSUME ~ late, cached'[g] = cached[g]
        PROVE  ~ late /\ Stale(g)
    BY <1>2, <1>s, <2>1, <2>k
  <2>2. ASSUME NEW list, NEW t, DelList(p, list, t)
        PROVE  ~ late /\ Stale(g)
    <3>1. ~ late /\ cached'[g] \in {None, cached[g]}
      BY <1>2, <1>t, <2>2 DEF DelList
    <3> QED
      BY <1>2, <1>s, <2>1, <3>1
  <2>3. ASSUME SetPage(p)
        PROVE  ~ late /\ Stale(g)
    <3>1. /\ ~ late
          /\ Shows(task[p].seen, Listing(task[p].page))
      BY <1>2, <2>3 DEF SetPage
    <3>2. cached' = [cached EXCEPT ![task[p].page] = task[p].seen]
      BY <2>3 DEF SetPage, CacheSet
    <3>3. CASE g = task[p].page
      <4>1. cached'[g] = task[p].seen
        BY <1>t, <3>2, <3>3
      <4>2. Shows(cached'[g], Listing(g)')
        BY <2>k, <3>1, <3>3, <4>1
      <4> QED
        BY <1>2, <1>s, <4>2
    <3>4. CASE g # task[p].page
      <4>1. cached'[g] = cached[g]
        BY <1>t, <3>2, <3>4
      <4> QED
        BY <2>1, <3>1, <4>1
    <3> QED
      BY <3>3, <3>4
  <2>4. CASE UNCHANGED cached /\ (late => late')
    BY <1>2, <2>1, <2>4
  <2>5. CASE ClearDel(p) \/ ClearDelOwn(p)
    BY <2>2, <2>5 DEF ClearDel, ClearDelOwn
  <2>6. CASE FillSet(p) \/ OwnSet(p)
    BY <2>3, <2>6 DEF FillSet, OwnSet
  <2> QED
    BY <2>4, <2>5, <2>6, CachedKept, CacheStep DEF cacheVars
<1>3. ASSUME NEW g \in Pages, Stale(g)', ~ late'
      PROVE  \E q \in Procs : WillClear(q, g)'
  <2>1. CASE \A h \in Pages : WillClear(p, h)'
    BY <2>1
  <2>2. CASE UNCHANGED <<property, available, photos>>
    <3>1. ~ late /\ Stale(g)
      BY <1>2, <1>3, <2>2
    <3>2. PICK q \in Procs : WillClear(q, g)
      BY <3>1 DEF FreshInv
    <3>3. CASE q = p
      <4>1. cached[g] # None /\ cached'[g] # None
        BY <1>3, <1>s, <3>1
      <4> QED
        BY <1>3, <2>2, <3>2, <3>3, <4>1, ClearStep
    <3>4. CASE q # p
      BY <1>a, <2>2, <3>2, <3>4 DEF WillClear, Others
    <3> QED
      BY <3>3, <3>4
  <2>3. ~ \A h \in Pages : cached'[h] = None
    BY <1>3, <1>s
  <2> QED
    BY <1>3, <2>1, <2>2, <2>3, ListingStep
<1> QED
  BY <1>3 DEF FreshInv

-----------------------------------------------------------------------------
(* Interests.                                                              *)

\* What becomes of an interest is told, or is being told.
LEMMA ToldStep ==
  ASSUME TypeOK, NextInv, InterestIsTold, NEW p \in Procs, Acts(p)
  PROVE  InterestIsTold'
<1> DEFINE Telling(q, i) ==
             /\ task[q].op \in {"interest_tell", "decide_tell"}
             /\ task[q].interest = i
             /\ task[q].status = interest[i]
           ToldNext(i) ==
             \/ interest'[i] \in told'[i]
             \/ \E q \in Procs :
                  /\ task'[q].op \in {"interest_tell", "decide_tell"}
                  /\ task'[q].interest = i
                  /\ task'[q].status = interest'[i]
             \/ i \in lost'
<1>a. Others(p)
  BY ActsAlone
<1>t. /\ interest \in [Interests -> InterestStatus \cup {"absent"}]
      /\ told \in [Interests -> SUBSET InterestStatus]
      /\ None \notin Interests
  BY ListingsAssumption DEF TypeOK
<1>k. lost \subseteq lost'
  BY EnvStep
<1>1. ASSUME NEW i \in Interests
      PROVE  told[i] \subseteq told'[i]
  <2>1. CASE Tell(p)
    BY <1>t, <2>1 DEF Tell
  <2> QED
    BY <2>1, InterestStep DEF interestVars, PropertyUnrow, InterestCreate,
       InterestTell, DecideWrite, DecideTell
<1>2. ASSUME NEW i \in Interests, interest'[i] = interest[i], Telling(p, i)
      PROVE  ToldNext(i)
  <2>1. CASE Tell(p)
    <3>1. task[p].status \in told'[i]
      BY <1>2, <1>t, <2>1 DEF Tell
    <3> QED
      BY <1>2, <3>1
  <2>2. CASE Crash(p)
    BY <1>2, <1>t, <2>2 DEF Crash
  <2>3. ~ \/ ClearRead(p) \/ ClearDel(p) \/ ClearReadOwn(p)
          \/ ClearDelOwn(p) \/ (\E x \in Photos : PhotoUpload(p, x))
          \/ (\E x \in Photos : PhotoRow(p, x))
          \/ (\E x \in Photos : PhotoThrows(p, x)) \/ PhotoUnrow(p)
          \/ (\E x \in Reports : ReportRender(p, x))
          \/ (\E x \in Reports : ReportUpload(p, x)) \/ ReportRow(p)
          \/ ReportUnrow(p) \/ SweepUnrow(p) \/ PhotosUnrow(p)
          \/ ReportsUnrow(p)
    BY <1>2 DEF ClearRead, ClearDel, ClearReadOwn, ClearDelOwn, PhotoUpload,
       PhotoRow, PhotoThrows, UploadingPhotos, PhotoUnrow, ReportRender,
       ReportUpload, ReportRow, ReportUnrow, SweepUnrow, PhotosUnrow,
       ReportsUnrow, At
  <2>4. task[p].op \in Watched
    BY <1>2 DEF Watched
  <2> QED
    BY <2>1, <2>2, <2>3, <2>4, OpStep DEF InterestTell, DecideTell
<1>3. ASSUME NEW i \in Interests, interest[i] # "absent",
             interest'[i] = interest[i]
      PROVE  ToldNext(i)
  <2>1. \/ interest[i] \in told[i]
        \/ \E q \in Procs : Telling(q, i)
        \/ i \in lost
    BY <1>3 DEF InterestIsTold, Shown
  <2>2. ASSUME NEW q \in Procs, q # p, Telling(q, i)
        PROVE  ToldNext(i)
    BY <1>3, <1>a, <2>2 DEF Others
  <2> QED
    BY <1>1, <1>2, <1>3, <1>k, <2>1, <2>2
<1>4. ASSUME NEW i \in Interests, interest'[i] # interest[i],
             interest'[i] # "absent"
      PROVE  ToldNext(i)
  <2>1. ASSUME NEW j \in Interests, InterestCreate(p, j)
        PROVE  ToldNext(i)
    <3>1. task[p].status = "PENDING"
      BY <2>1 DEF NextInv, NextOK, InterestCreate, At
    <3>2. /\ Turned(p, "interest_tell", task[p].then, task[p].files)
          /\ task'[p].interest = j
          /\ task'[p].status = task[p].status
          /\ interest' = [interest EXCEPT ![j] = "PENDING"]
      BY <1>4, <2>1, InterestMoves
    <3>3. i = j
      BY <1>4, <1>t, <3>2
    <3>4. interest'[i] = "PENDING"
      BY <1>t, <3>2, <3>3
    <3> QED
      BY <3>1, <3>2, <3>3, <3>4 DEF Turned
  <2>2. CASE DecideWrite(p)
    <3>1. /\ Kept(p, "decide_tell")
          /\ interest' = [interest EXCEPT ![task[p].interest] = task[p].status]
      BY <1>4, <2>2, InterestMoves
    <3>2. i = task[p].interest /\ interest'[i] = task[p].status
      BY <1>4, <1>t, <3>1
    <3> QED
      BY <3>1, <3>2 DEF Kept, Turned
  <2>3. ~ PropertyUnrow(p)
    BY <1>4 DEF PropertyUnrow
  <2>4. interest' # interest
    BY <1>4
  <2> QED
    BY <2>1, <2>2, <2>3, <2>4, InterestStep DEF interestVars, InterestTell,
       DecideTell
<1>5. ASSUME NEW i \in Interests, interest'[i] # "absent"
      PROVE  ToldNext(i)
  BY <1>3, <1>4, <1>5
<1> QED
  BY <1>5 DEF InterestIsTold, Shown


-----------------------------------------------------------------------------
(* Types.                                                                  *)

\* Each variable keeps its type.
LEMMA TypeStep ==
  ASSUME TypeOK, HandsInv, NextInv, NEW p \in Procs, Acts(p)
  PROVE  TypeOK'
<1>a. Others(p)
  BY ActsAlone
<1>i. HandOK(p) /\ NextOK(p)
  BY DEF HandsInv, NextInv
<1>t. /\ used \subseteq Files /\ stored \subseteq used
      /\ property \in {"absent", "there", "removed"}
      /\ available \in BOOLEAN /\ contract \in BOOLEAN
      /\ contract => property = "there"
      /\ photos \subseteq used \cap Photos
      /\ reports \subseteq used \cap Reports
      /\ property # "there" => photos = {}
      /\ ~contract => reports = {}
      /\ task \in [Procs -> Task] /\ task[p] \in Task
      /\ task[p].files \subseteq Files
      /\ task[p].interest \in Interests \cup {None}
  BY DEF TypeOK, StorageTypeOK, Task
<1>f. /\ Photos \subseteq Files /\ Reports \subseteq Files
      /\ Photos \cap Reports = {} /\ Own \subseteq Pages
      /\ None \notin Interests
      /\ MaxUpdates \in Nat
  BY ListingsAssumption
<1>1. StorageTypeOK'
  BY <1>t, EnvStep DEF StorageTypeOK
<1>2. /\ property' \in {"absent", "there", "removed"}
      /\ available' \in BOOLEAN
  BY <1>t, RowStep DEF Create, UpdateWrite, ContractUnrow, PropertyUnrow
<1>3. /\ contract' \in BOOLEAN
      /\ contract' => property' = "there"
  <2>1. ASSUME contract' = contract,
               property' = property \/ property' = "there"
        PROVE  contract' \in BOOLEAN /\ (contract' => property' = "there")
    <3>1. contract \in BOOLEAN /\ (contract => property = "there")
      BY <1>t
    <3> QED
      BY <2>1, <3>1, Zenon
  <2>2. CASE \/ UNCHANGED <<property, available, contract>>
             \/ (\E S \in SUBSET Photos : Create(p, S))
             \/ (\E b \in BOOLEAN : UpdateWrite(p, b))
    <3>1. /\ contract' = contract
          /\ property' = property \/ property' = "there"
      BY <2>2 DEF Create, UpdateWrite
    <3> QED
      BY <2>1, <3>1, Zenon
  <2>3. CASE ContractUnrow(p)
    BY <2>3 DEF ContractUnrow
  <2>4. CASE PropertyUnrow(p)
    BY <1>t, <2>4 DEF PropertyUnrow
  <2> QED
    BY <2>2, <2>3, <2>4, RowStep
<1>4. /\ photos' \subseteq used' \cap Photos
      /\ property' # "there" => photos' = {}
  <2>1. used \subseteq used'
    BY EnvStep
  <2>2. ASSUME NEW f \in Photos, PhotoRow(p, f)
        PROVE  /\ photos' \subseteq used' \cap Photos
               /\ property' # "there" => photos' = {}
    <3>1. f \in used
      BY <2>2 DEF PhotoRow
    <3>2. \/ property' = "there" /\ photos' = photos \cup {f}
          \/ property' = property /\ photos' = photos
      BY <2>2 DEF PhotoRow
    <3> QED
      BY <1>t, <2>1, <3>1, <3>2
  <2>3. CASE PropertyUnrow(p)
    <3>1. photos' = photos /\ (photos = {} \/ property' = property)
      BY <2>3 DEF PropertyUnrow
    <3> QED
      BY <1>t, <2>1, <3>1
  <2>4. CASE ~ (\E f \in Photos : PhotoRow(p, f)) /\ ~ PropertyUnrow(p)
    <3>1. photos' \subseteq photos
      BY <2>4, NamesStep DEF PhotoUnrow, ReportRow, ReportUnrow, SweepUnrow,
         PhotosUnrow, ReportsUnrow, ContractUnrow
    <3>2. property' = property \/ property' = "there"
      BY <2>4, RowStep DEF Create, UpdateWrite, ContractUnrow
    <3> QED
      BY <1>t, <2>1, <3>1, <3>2
  <2> QED
    BY <2>2, <2>3, <2>4
<1>5. /\ reports' \subseteq used' \cap Reports
      /\ ~ contract' => reports' = {}
  <2>1. used \subseteq used'
    BY EnvStep
  <2>2. CASE ReportRow(p)
    <3>1. task[p].files \subseteq used /\ task[p].files \subseteq Reports
      BY <1>i, <2>2 DEF HandOK, ReportRow, At, ReportUp
    <3>2. contract' = contract
      BY <2>2 DEF ReportRow
    <3>3. reports' = IF contract THEN reports \cup task[p].files ELSE reports
      BY <2>2 DEF ReportRow
    <3>4. CASE contract
      BY <1>t, <2>1, <3>1, <3>2, <3>3, <3>4
    <3>5. CASE ~ contract
      BY <1>t, <3>2, <3>3, <3>5
    <3> QED
      BY <3>4, <3>5
  <2>3. CASE ContractUnrow(p)
    BY <2>3 DEF ContractUnrow
  <2>4. CASE PropertyUnrow(p)
    <3>1. \/ reports' = {}
          \/ reports' = reports /\ contract' = contract
      BY <2>4 DEF PropertyUnrow
    <3> QED
      BY <1>t, <2>1, <3>1
  <2>5. CASE ~ ReportRow(p) /\ ~ ContractUnrow(p) /\ ~ PropertyUnrow(p)
    <3>1. reports' \subseteq reports
      BY <2>5, NamesStep DEF PhotoRow, PhotoUnrow, ReportUnrow, SweepUnrow,
         PhotosUnrow, ReportsUnrow
    <3>2. contract' = contract
      BY <2>5, RowStep DEF Create, UpdateWrite
    <3> QED
      BY <1>t, <2>1, <3>1, <3>2
  <2> QED
    BY <2>2, <2>3, <2>4, <2>5
<1>6. /\ cached' \in [Pages -> Showing \cup {None}]
      /\ tracked' \subseteq Pages
      /\ late' \in BOOLEAN
  <2>t. /\ cached \in [Pages -> Showing \cup {None}]
        /\ tracked \subseteq Pages
        /\ late \in BOOLEAN
        /\ task[p].seen \in Showing
    BY <1>t DEF TypeOK, Task
  <2>1. ASSUME NEW list, NEW t, DelList(p, list, t)
        PROVE  /\ cached' \in [Pages -> Showing \cup {None}]
               /\ tracked' \subseteq Pages
               /\ late' \in BOOLEAN
    BY <2>1, <2>t DEF DelList
  <2>2. ASSUME SetPage(p), task[p].page \in Pages
        PROVE  /\ cached' \in [Pages -> Showing \cup {None}]
               /\ tracked' \subseteq Pages
               /\ late' \in BOOLEAN
    BY <2>2, <2>t DEF SetPage, CacheSet
  <2>3. CASE ClearDel(p) \/ ClearDelOwn(p)
    BY <2>1, <2>3 DEF ClearDel, ClearDelOwn
  <2>4. CASE FillSet(p) \/ OwnSet(p)
    <3>1. task[p].page \in Pages
      BY <1>i, <2>4 DEF NextOK, FillOps, FillSet, OwnSet, At
    <3> QED
      BY <2>2, <2>4, <3>1 DEF FillSet, OwnSet
  <2>5. CASE \/ Crash(p)
             \/ (\E f \in Photos : PhotoUpload(p, f))
             \/ (\E f \in Photos : PhotoRow(p, f))
             \/ (\E f \in Photos : PhotoThrows(p, f))
    <3>1. UNCHANGED <<cached, tracked>>
      BY <2>5, CachedKept
    <3>2. late' \in BOOLEAN
      BY <2>5, <2>t, Zenon DEF Crash, PhotoUpload, PhotoRow, PhotoMade,
         PhotoThrows
    <3> QED
      BY <2>t, <3>1, <3>2
  <2> QED
    BY <2>3, <2>4, <2>5, <2>t, CacheStep DEF cacheVars
<1>7. /\ interest' \in [Interests -> InterestStatus \cup {"absent"}]
      /\ told' \in [Interests -> SUBSET InterestStatus]
  <2>t. /\ interest \in [Interests -> InterestStatus \cup {"absent"}]
        /\ told \in [Interests -> SUBSET InterestStatus]
        /\ task[p].status \in InterestStatus
    BY <1>t DEF TypeOK, Task
  <2>1. CASE Tell(p) /\ UNCHANGED interest
    BY <2>1, <2>t DEF Tell
  <2>2. CASE \E i \in Interests : InterestCreate(p, i)
    BY <2>2, <2>t DEF InterestCreate, InterestStatus
  <2>3. CASE DecideWrite(p)
    BY <2>3, <2>t DEF DecideWrite
  <2>4. CASE PropertyUnrow(p)
    BY <2>4, <2>t DEF PropertyUnrow
  <2> QED
    BY <2>1, <2>2, <2>3, <2>4, <2>t, InterestStep DEF interestVars,
       InterestTell, DecideTell
<1>8. task' \in [Procs -> [op : Ops, then : Ops, files : SUBSET Files,
                           page : Pages \cup {None}, pages : SUBSET Pages,
                           seen : Showing, interest : Interests \cup {None},
                           status : InterestStatus]]
  BY <1>a DEF Others, Task
<1>9. raced' \subseteq Files
  <2>r. raced \subseteq Files
    BY DEF TypeOK
  <2>1. CASE \/ (\E S \in SUBSET Photos : StartPhotos(p, S))
             \/ (\E f \in Reports : StartReport(p, f))
    BY <1>f, <2>1, <2>r DEF StartPhotos, StartReport, UploadStarts
  <2>2. CASE StartRemove(p) \/ StartContractRemove(p) \/ StartCancel(p)
    <3>1. \A q \in Procs : task[q].files \subseteq Files
      BY <1>t DEF Task
    <3> QED
      BY <2>2, <2>r, <3>1 DEF StartRemove, StartContractRemove, StartCancel,
         RemovalStarts
  <2>3. CASE \/ Crash(p) \/ (\E f \in Photos : PhotoUpload(p, f))
             \/ (\E f \in Reports : ReportRender(p, f))
             \/ (\E f \in Reports : ReportUpload(p, f))
    BY <2>3, <2>r DEF Crash, PhotoUpload, ReportRender, ReportUpload,
       NeverUploaded, fileVars
  <2> QED
    BY <2>1, <2>2, <2>3, <2>r, RacedStep
<1>10. lost' \subseteq Files \cup Interests
  <2>l. lost \subseteq Files \cup Interests
    BY DEF TypeOK
  <2>1. CASE Crash(p)
    BY <1>t, <2>1, <2>l DEF Crash
  <2>2. CASE \/ (\E f \in Photos : PhotoUpload(p, f)) \/ PhotoDelete(p)
             \/ (\E f \in Reports : ReportUpload(p, f)) \/ ReportDelete(p)
    BY <2>2, <2>l DEF PhotoUpload, PhotoDelete, ReportUpload, ReportDelete
  <2>4. CASE \E f \in Photos : PhotoThrows(p, f)
    BY <1>f, <2>4, <2>l DEF PhotoThrows
  <2>3. CASE SweepDelete(p) \/ PhotosDelete(p) \/ ReportsDelete(p)
    BY <1>t, <2>3, <2>l DEF SweepDelete, PhotosDelete, ReportsDelete,
       DeleteSeveral
  <2> QED
    BY <2>1, <2>2, <2>3, <2>4, <2>l, StorageStep
<1>11. updates' \in 0..MaxUpdates /\ crashes' \in Nat
  <2>1. updates \in 0..MaxUpdates /\ crashes \in Nat
    BY DEF TypeOK
  <2>2. \/ updates' = updates
        \/ updates < MaxUpdates /\ updates' = updates + 1
    BY CountsStep DEF StartUpdate, Crash, PhotoThrows
  <2>3. crashes' = crashes \/ crashes' = crashes + 1
    BY CountsStep DEF StartUpdate, Crash, PhotoThrows
  <2> QED
    BY <1>f, <2>1, <2>2, <2>3
<1> QED
  BY <1>1, <1>2, <1>3, <1>4, <1>5, <1>6, <1>7, <1>8, <1>9, <1>10, <1>11
     DEF TypeOK

-----------------------------------------------------------------------------
(* The theorems.                                                           *)

\* Initially there is no property, no page and no handler.
LEMMA InitInv == Init => IInv
<1> SUFFICES ASSUME Init PROVE IInv
  OBVIOUS
<1>1. \A p \in Procs : task[p] = IdleTask
  BY DEF Init
<1>2. /\ used = {} /\ stored = {} /\ photos = {} /\ reports = {}
      /\ raced = {} /\ lost = {}
  BY DEF Init, StorageInit
<1>3. TypeOK
  <2>1. task \in [Procs -> Task]
    BY Idle DEF Init
  <2>2. cached \in [Pages -> Showing \cup {None}] /\ tracked \subseteq Pages
    BY DEF Init
  <2>3. /\ interest \in [Interests -> InterestStatus \cup {"absent"}]
        /\ told \in [Interests -> SUBSET InterestStatus]
    BY DEF Init
  <2>4. updates \in 0..MaxUpdates /\ crashes \in Nat
    BY ListingsAssumption DEF Init
  <2>5. /\ property = "absent"
        /\ available \in BOOLEAN /\ contract = FALSE /\ late \in BOOLEAN
    BY DEF Init
  <2> QED
    BY <1>2, <2>1, <2>2, <2>3, <2>4, <2>5 DEF TypeOK, StorageTypeOK, Task
<1>i. "idle" \notin UploadOps \cup PhotoOut \cup ReportOut \cup UnrowOps
                      \cup ClearOps \cup FillOps
  BY DEF UploadOps, PhotoUp, ReportUp, PhotoOut, ReportOut, UnrowOps,
     ClearOps, FillOps
<1>j. "idle" \notin PhotoUp \cup ReportUp
  BY DEF PhotoUp, ReportUp
<1>4. HandsInv
  BY <1>1, <1>i, <1>j, Idle DEF HandsInv, HandOK
<1>5. NextInv
  BY <1>1, <1>i, Idle DEF NextInv, NextOK
<1>6. AbsentInv
  BY <1>1, <1>2, Idle DEF AbsentInv, Init
<1>7. RaceInv
  BY <1>1, Idle DEF RaceInv, Uploading, UploadingPhotos
<1>8. DropInv
  BY <1>1, <1>2, Idle DEF DropInv, DropOK
<1>9. TrackInv /\ FreshInv
  BY DEF TrackInv, FreshInv, Stale, Init
<1>10. RowIsReadable /\ StoredIsNamed
  BY <1>2 DEF RowIsReadable, StoredIsNamed
<1>11. InterestIsTold
  BY DEF InterestIsTold, Shown, Init
<1> QED
  BY <1>3, <1>4, <1>5, <1>6, <1>7, <1>8, <1>9, <1>10, <1>11 DEF IInv

\* A page that expires, the activation, and a new contract leave the
\* handlers, the rows of photos and reports and the storage alone.
LEMMA AloneStep ==
  ASSUME IInv,
         UNCHANGED <<task, property, photos, reports, interestVars, fileVars,
                     updates, crashes>>,
         \/ UNCHANGED <<available, contract, cacheVars>>
         \/ \E g \in Pages : ExpirePage(g)
         \/ Hide
         \/ AddContract
  PROVE  IInv'
<1> USE DEF IInv, interestVars, fileVars, storageVars
<1>c. /\ contract' = contract \/ (contract' = TRUE /\ property = "there")
      /\ available' \in BOOLEAN
      /\ contract \in BOOLEAN
  BY DEF ExpirePage, rowVars, cacheVars, Hide, AddContract, TypeOK
<1>t. /\ cached \in [Pages -> Showing \cup {None}]
      /\ tracked \subseteq Pages
      /\ late \in BOOLEAN
  BY DEF TypeOK
<1>v. /\ tracked' = tracked
      /\ late' \in BOOLEAN
      /\ late => late'
      /\ cached' \in [Pages -> Showing \cup {None}]
      /\ \A g \in Pages : cached'[g] \in {None, cached[g]}
  BY <1>t DEF ExpirePage, cacheVars, Hide, AddContract
<1>1. TypeOK'
  <2>t. /\ contract \in BOOLEAN
        /\ contract => property = "there"
        /\ ~ contract => reports = {}
    BY DEF TypeOK
  <2>1. /\ contract' \in BOOLEAN
        /\ contract' => property = "there"
        /\ ~ contract' => reports = {}
    <3>1. CASE contract' = contract
      BY <2>t, <3>1, Zenon
    <3>2. CASE contract' = TRUE /\ property = "there"
      BY <3>2
    <3> QED
      BY <1>c, <3>1, <3>2
  <2> QED
    BY <1>c, <1>v, <2>1 DEF TypeOK, StorageTypeOK
<1>2. HandsInv' /\ NextInv' /\ AbsentInv'
  BY DEF HandsInv, HandOK, NextInv, NextOK, AbsentInv
<1>3. RaceInv'
  <2>1. ASSUME NEW p \in Procs, Endangered(p)'
        PROVE  Endangered(p)
    BY <1>c, <2>1 DEF Endangered, Removing
  <2> QED
    BY <2>1 DEF RaceInv, Uploading, UploadingPhotos
<1>4. DropInv'
  BY DEF DropInv, DropOK
<1>5. TrackInv'
  BY <1>v DEF TrackInv
<1>6. FreshInv'
  <2>1. CASE Hide
    <3>1. late' = (late \/ Listed) /\ UNCHANGED cached
      BY <2>1, Zenon DEF Hide
    <3>2. Listed => late'
      BY <3>1
    <3>3. ASSUME NEW g \in Pages, Stale(g)'
          PROVE  Listed
      BY <3>1, <3>3 DEF Stale, Listed
    <3> QED
      BY <3>2, <3>3 DEF FreshInv
  <2>2. CASE ~ Hide
    <3>1. available' = available
      BY <2>2 DEF ExpirePage, rowVars, AddContract
    <3>2. ASSUME NEW g \in Pages
          PROVE  Listing(g)' = Listing(g)
      BY <3>1 DEF Listing, Shown
    <3>3. ASSUME NEW g \in Pages, NEW p \in Procs, WillClear(p, g)
          PROVE  WillClear(p, g)'
      BY <3>3 DEF WillClear
    <3>4. ASSUME NEW g \in Pages, Stale(g)'
          PROVE  late' \/ \E p \in Procs : WillClear(p, g)'
      <4>1. cached'[g] # None /\ ~Shows(cached'[g], Listing(g)')
        BY <3>4 DEF Stale, Shows
      <4>2. Stale(g)
        BY <1>v, <3>2, <4>1 DEF Stale
      <4>3. late \/ \E p \in Procs : WillClear(p, g)
        BY <4>2 DEF FreshInv
      <4> QED
        BY <1>v, <3>3, <4>3
    <3> QED
      BY <3>4 DEF FreshInv
  <2> QED
    BY <2>1, <2>2
<1>7. RowIsReadable' /\ StoredIsNamed' /\ InterestIsTold'
  BY DEF RowIsReadable, Readable, Leaving, StoredIsNamed, Uploading,
     UploadingPhotos, InterestIsTold, Shown
<1> QED
  BY <1>1, <1>2, <1>3, <1>4, <1>5, <1>6, <1>7

\* The inductive invariant: what handlers have in their hands and do next,
\* and what was raced, lost or late.
THEOREM Invariance == Spec => []IInv
<1>1. IInv /\ [Next]_vars => IInv'
  <2> SUFFICES ASSUME IInv, [Next]_vars
               PROVE  IInv'
    OBVIOUS
  <2>1. ASSUME NEW p \in Procs, Acts(p)
        PROVE  IInv'
    <3>1. TypeOK' /\ HandsInv' /\ NextInv' /\ AbsentInv'
      BY <2>1, TypeStep, HandsStep, NextStep, AbsentStep DEF IInv
    <3>2. RaceInv' /\ DropInv'
      BY <2>1, RaceStep, DropStep DEF IInv
    <3>3. TrackInv' /\ FreshInv'
      BY <2>1, TrackStep, FreshStep DEF IInv
    <3>4. RowIsReadable' /\ StoredIsNamed' /\ InterestIsTold'
      BY <2>1, ReadableStep, NamedStep, ToldStep DEF IInv
    <3> QED
      BY <3>1, <3>2, <3>3, <3>4 DEF IInv
  <2> QED
    BY <2>1, HandlerStep, AloneStep
<1> QED
  BY <1>1, InitInv, PTL DEF Spec

\* Each variable keeps its type, at every step.
THEOREM TypeCorrect == Spec => []TypeOK
<1>1. IInv => TypeOK
  BY DEF IInv
<1> QED
  BY <1>1, Invariance, PTL

\* The row of a photo or a report names an object that can be read, until
\* its handler has only the row left to delete, unless one died in between.
THEOREM RowReadable == Spec => []RowIsReadable
<1>1. IInv => RowIsReadable
  BY DEF IInv
<1> QED
  BY <1>1, Invariance, PTL

\* No object stays in the storage without a row, unless the storage or a
\* handler failed, or a removal, or a cancellation of the contract,
\* overlapped its upload.
THEOREM StoredNamed == Spec => []StoredIsNamed
<1>1. IInv => StoredIsNamed
  BY DEF IInv
<1> QED
  BY <1>1, Invariance, PTL

\* A cached page is as the rows, but for interests that came since, or a
\* handler will clear it, unless one of the ways to a stale page that the
\* code leaves open was taken.
THEOREM PageFresh == Spec => []PageIsFresh
<1>1. IInv => PageIsFresh
  <2>1. ASSUME NEW p \in Procs, NEW g \in Pages, WillClear(p, g)
        PROVE  ClearAhead(p)
    BY <2>1 DEF WillClear, ClearAhead
  <2> QED
    BY <2>1 DEF IInv, FreshInv, Stale, PageIsFresh
<1> QED
  BY <1>1, Invariance, PTL

\* What becomes of an interest is told to whom it concerns, or is being told,
\* unless a handler died.
THEOREM InterestTold == Spec => []InterestIsTold
<1>1. IInv => InterestIsTold
  BY DEF IInv
<1> QED
  BY <1>1, Invariance, PTL


=============================================================================
