------------------------------ MODULE Listings ------------------------------
(***************************************************************************)
(* One property that a landlord offers: its row, its photos and their      *)
(* objects in the storage, the cached pages of the available properties    *)
(* and of the landlord's own, the interest tenants show in it, the reports *)
(* of its contract, which go when it is cancelled or removed, and the      *)
(* removal of the property with everything that hangs on it.               *)
(*                                                                         *)
(* Handlers are split at their awaits.  The contract's own PDF and its     *)
(* progress are in Signature and ContractFlow, the token that a removal    *)
(* consumes first in Accounts.  "Variant" operators are used by no other   *)
(* definition.                                                             *)
(***************************************************************************)
EXTENDS Storage, Naturals

CONSTANTS
  Photos, Reports,   \* the keys of objects, by what they hold
  Pages,             \* the cache keys of lists: page and limit
  Own,               \* those of the landlord's own list
  Interests,         \* the ids of interest rows
  Procs,             \* handlers that can be in flight at once
  MaxUpdates,        \* bound on the updates of the property
  MaxCrashes         \* bound on the failures that end handlers

ASSUME ListingsAssumption ==
  /\ Files = Photos \cup Reports
  /\ Photos \cap Reports = {}
  /\ Own \subseteq Pages
  /\ None \notin Pages \cup Interests
  /\ {MaxUpdates, MaxCrashes} \subseteq Nat

VARIABLES
  property,    \* the row: "absent", "there", "removed"
  available,   \* Property.isAvailable
  contract,    \* there is a contract for the property
  photos,      \* the Photo rows, by the key of their object
  reports,     \* the GeneratedPdf rows of the contract, likewise
  cached,      \* what Redis holds for each page
  tracked,     \* the sets list:properties_available, list:user_properties
  interest,    \* Interest.status, or "absent"
  task,        \* the handlers in flight
  told,        \* history: what was told of each interest, to the landlord
               \* when it is new and to the tenant when it is decided
  late,        \* history: a page may have gone stale for its whole life
  raced,       \* history: objects whose upload a removal, or a cancellation
               \* of the contract, overlapped
  lost,        \* history: objects, and interests, that a failure left half
               \* done
  updates,     \* updates of the property so far
  crashes      \* failures so far

cacheVars == <<cached, tracked, late>>
rowVars == <<property, available, contract, photos, reports>>
interestVars == <<interest, told>>
fileVars == <<storageVars, raced, lost>>
vars == <<rowVars, cacheVars, interestVars, fileVars, task, updates, crashes>>

InterestStatus == {"PENDING", "CONTACTED", "DISMISSED"}

\* What a page shows of the property: if it does, whether it is available,
\* its photos, and its interests, of which the page has the number.
Showing == [on : BOOLEAN, available : BOOLEAN, photos : SUBSET Photos,
            interests : SUBSET Interests]

Nothing == [on |-> FALSE, available |-> FALSE, photos |-> {},
            interests |-> {}]

Shown == {i \in Interests : interest[i] # "absent"}

\* The available properties, and all that the landlord has.
Listing(g) ==
  IF property = "there" /\ (available \/ g \in Own)
  THEN [on |-> TRUE, available |-> available, photos |-> photos,
        interests |-> Shown]
  ELSE Nothing

\* A page shows what the rows say, but for interests that came since.
Shows(page, now) ==
  /\ page.interests \subseteq now.interests
  /\ page = [now EXCEPT !.interests = page.interests]

Listed == \E g \in Pages : cached[g] # None

\* A task is named for the step it will do next.
Ops == {"idle", "clear_read", "clear_del", "clear_read_own", "clear_del_own",
        "update_write", "photo_upload",
        "photo_stray", "photo_delete", "photo_unrow", "fill_read", "own_read",
        "fill_photos", "fill_set", "own_set", "report_render", "report_upload",
        "report_row",
        "report_delete", "report_unrow", "photos_read", "photos_delete",
        "photos_unrow", "contracts_read", "reports_read", "reports_delete",
        "reports_unrow", "sweep_delete", "sweep_unrow", "contract_unrow",
        "property_unrow", "interest_find", "interest_create",
        "interest_tell", "decide_write", "decide_tell"}

\* then is the step after the cache is cleared, or after the reports are
\* deleted; files are the objects that are yet to be uploaded or to get their
\* row, or that are to go; the rest is what was read, or made.
IdleTask == [op |-> "idle", then |-> "idle", files |-> {}, page |-> None,
             pages |-> {}, seen |-> Nothing,
             interest |-> None, status |-> "PENDING"]

TypeOK ==
  /\ StorageTypeOK
  /\ property \in {"absent", "there", "removed"}
  /\ {available, contract} \subseteq BOOLEAN
  /\ contract => property = "there"
  /\ photos \subseteq used \cap Photos
  /\ reports \subseteq used \cap Reports
  /\ property # "there" => photos = {}
  /\ ~contract => reports = {}
  /\ cached \in [Pages -> Showing \cup {None}]
  /\ tracked \subseteq Pages
  /\ interest \in [Interests -> InterestStatus \cup {"absent"}]
  /\ task \in [Procs -> [op : Ops, then : Ops, files : SUBSET Files,
                         page : Pages \cup {None}, pages : SUBSET Pages,
                         seen : Showing, interest : Interests \cup {None},
                         status : InterestStatus]]
  /\ told \in [Interests -> SUBSET InterestStatus]
  /\ late \in BOOLEAN
  /\ raced \subseteq Files
  /\ lost \subseteq Files \cup Interests
  /\ updates \in 0..MaxUpdates
  /\ crashes \in Nat

Init ==
  /\ StorageInit
  /\ property = "absent"
  /\ available = TRUE
  /\ contract = FALSE
  /\ photos = {}
  /\ reports = {}
  /\ cached = [g \in Pages |-> None]
  /\ tracked = {}
  /\ interest = [i \in Interests |-> "absent"]
  /\ task = [p \in Procs |-> IdleTask]
  /\ told = [i \in Interests |-> {}]
  /\ late = FALSE
  /\ raced = {}
  /\ lost = {}
  /\ updates = 0
  /\ crashes = 0

-----------------------------------------------------------------------------
(* Tasks.                                                                  *)

At(p, op) == task[p].op = op

Continue(p, t) == task' = [task EXCEPT ![p] = t]

Start(p, t) == At(p, "idle") /\ Continue(p, t)

Proceed(p, op) == Continue(p, [task[p] EXCEPT !.op = op])

Finish(p) == Continue(p, IdleTask)

\* The handler that clears the lists, and what it does then.
Clearing(then) == [IdleTask EXCEPT !.op = "clear_read", !.then = then]

\* A removal has begun, of the property, of its contract, or of the reports
\* of a contract that is cancelled.
Removing(p) ==
  task[p].op \in {"photos_read", "photos_delete", "photos_unrow",
                  "contracts_read", "reports_read", "reports_delete",
                  "reports_unrow", "contract_unrow", "property_unrow"}
    \/ task[p].then = "contracts_read"

\* The rows have changed, or may, and the cache is not yet cleared; photos
\* that come with their property are uploaded first.
ClearAhead(p) ==
  task[p].op \in {"clear_read", "clear_del", "clear_read_own",
                  "clear_del_own", "photo_upload"}

UploadingPhotos(p) == task[p].op \in {"photo_upload", "photo_stray"}

Uploading(p) ==
  \/ UploadingPhotos(p)
  \/ task[p].op \in {"report_render", "report_upload", "report_row"}

\* Uploads start, or one fails, or a removal starts.
UploadStarts(S) ==
  raced' = IF \E q \in Procs : Removing(q) THEN raced \cup S ELSE raced

Fresh(f) == f \notin used /\ \A q \in Procs : f \notin task[q].files

NeverUploaded(f) == raced' = raced \ {f} /\ UNCHANGED storageVars

RemovalStarts ==
  LET uploaders == {q \in Procs : Uploading(q)}
  IN  raced' = raced \cup UNION {task[q].files : q \in uploaders}

-----------------------------------------------------------------------------
(* The cache: clearPropertiesCache, and what fills it.                     *)

\* delFromList: SMEMBERS, then DEL of these keys and of the set.  Errors of
\* Redis are left out.
ReadList(p, list, del, next) ==
  /\ Continue(p, IF tracked \cap list = {} THEN next
                 ELSE [task[p] EXCEPT !.op = del, !.pages = tracked \cap list])
  /\ UNCHANGED <<rowVars, cacheVars, interestVars, fileVars, updates, crashes>>

\* A page that was tracked since is tracked no more.
DelList(p, list, next) ==
  /\ cached' = [g \in Pages |-> IF g \in task[p].pages THEN None
                                ELSE cached[g]]
  /\ tracked' = tracked \ list
  /\ late' = (late \/ ~ tracked \cap list \subseteq task[p].pages)
  /\ Continue(p, next)
  /\ UNCHANGED <<rowVars, interestVars, fileVars, updates, crashes>>

ToOwn(p) == [IdleTask EXCEPT !.op = "clear_read_own", !.then = task[p].then]

Cleared(p) == [IdleTask EXCEPT !.op = task[p].then]

SetOp(g) == IF g \in Own THEN "own_set" ELSE "fill_set"

\* The available properties first, then the landlord's own.
ClearRead(p) ==
  At(p, "clear_read") /\ ReadList(p, Pages \ Own, "clear_del", ToOwn(p))

ClearDel(p) == At(p, "clear_del") /\ DelList(p, Pages \ Own, ToOwn(p))

ClearReadOwn(p) ==
  At(p, "clear_read_own") /\ ReadList(p, Own, "clear_del_own", Cleared(p))

ClearDelOwn(p) == At(p, "clear_del_own") /\ DelList(p, Own, Cleared(p))

\* findAvailable, and findUserProperties: a page that is not cached.
Ask(p, g, op) ==
  /\ cached[g] = None
  /\ Start(p, [IdleTask EXCEPT !.op = op, !.page = g])
  /\ UNCHANGED <<rowVars, cacheVars, interestVars, fileVars, updates, crashes>>

StartFill(p, g) == g \notin Own /\ Ask(p, g, "fill_read")

StartOwnFill(p, g) == g \in Own /\ Ask(p, g, "own_read")

\* The transaction over the properties, then their photos.
Read(p) ==
  LET now == Listing(task[p].page)
  IN  /\ Continue(p, [task[p] EXCEPT
           !.seen = [now EXCEPT !.photos = {}],
           !.op = IF now.on THEN "fill_photos" ELSE SetOp(task[p].page)])
      /\ UNCHANGED <<rowVars, cacheVars, interestVars, fileVars, updates,
                     crashes>>

FillRead(p) == At(p, "fill_read") /\ Read(p)

OwnRead(p) == At(p, "own_read") /\ Read(p)

FillPhotos(p) ==
  /\ At(p, "fill_photos")
  /\ Continue(p, [task[p] EXCEPT
       !.op = SetOp(task[p].page), !.seen.photos = photos])
  /\ UNCHANGED <<rowVars, cacheVars, interestVars, fileVars, updates, crashes>>

\* SET and SADD in one transaction of Redis: a page is never without its
\* tracking in the list.
CacheSet(g, page) ==
  /\ cached' = [cached EXCEPT ![g] = page]
  /\ tracked' = tracked \cup {g}

\* A page is set of what was read, which may have changed since.
SetPage(p) ==
  /\ CacheSet(task[p].page, task[p].seen)
  /\ late' = (late \/ ~Shows(task[p].seen, Listing(task[p].page)))
  /\ Finish(p)
  /\ UNCHANGED <<rowVars, interestVars, fileVars, updates, crashes>>

FillSet(p) == At(p, "fill_set") /\ SetPage(p)

OwnSet(p) == At(p, "own_set") /\ SetPage(p)

\* The 300 seconds of a page are over; the set keeps its key.
ExpirePage(g) ==
  /\ cached[g] # None
  /\ cached' = [cached EXCEPT ![g] = None]
  /\ UNCHANGED <<rowVars, tracked, late, interestVars, fileVars, task, updates,
                 crashes>>

-----------------------------------------------------------------------------
(* The property and its photos.                                            *)

\* create, with photos or without; after them it clears the cache again.
Create(p, S) ==
  /\ property = "absent"
  /\ property' = "there"
  /\ Start(p, IF S = {} THEN Clearing("idle")
              ELSE [IdleTask EXCEPT !.op = "photo_upload", !.files = S,
                                    !.then = "clear_read"])
  /\ UNCHANGED <<available, contract, photos, reports, cacheVars, interestVars,
                 fileVars, updates, crashes>>

StartUpdate(p) ==
  /\ property = "there"
  /\ updates < MaxUpdates
  /\ updates' = updates + 1
  /\ Start(p, [IdleTask EXCEPT !.op = "update_write"])
  /\ UNCHANGED <<rowVars, cacheVars, interestVars, fileVars, crashes>>

\* Variant: the list is left as it is.
UpdateWriteOnly(p, b) ==
  /\ At(p, "update_write")
  /\ IF property = "there" THEN available' = b ELSE UNCHANGED available
  /\ Finish(p)
  /\ UNCHANGED <<property, contract, photos, reports, cacheVars, interestVars,
                 fileVars, updates, crashes>>

\* The update throws if the row is gone.
UpdateWrite(p, b) ==
  /\ At(p, "update_write")
  /\ IF property = "there"
     THEN available' = b /\ Continue(p, Clearing("idle"))
     ELSE Finish(p) /\ UNCHANGED available
  /\ UNCHANGED <<property, contract, photos, reports, cacheVars, interestVars,
                 fileVars, updates, crashes>>

\* ContractLifecycle's activation of the contract takes the property off the
\* list of what is available, without a word to the cache.
Hide ==
  /\ contract /\ available
  /\ available' = FALSE
  /\ late' = (late \/ Listed)
  /\ UNCHANGED <<property, contract, photos, reports, cached, tracked,
                 interestVars, fileVars, task, updates, crashes>>

\* uploadPropertyPhotos: those of a request are uploaded, and each gets its
\* row, side by side; the handler waits for all (Promise.all).
StartPhotos(p, S) ==
  /\ property = "there"
  /\ S # {} /\ \A f \in S : Fresh(f)
  /\ UploadStarts(S)
  /\ Start(p, [IdleTask EXCEPT !.op = "photo_upload", !.files = S])
  /\ UNCHANGED <<rowVars, cacheVars, interestVars, storageVars, lost,
                 updates, crashes>>

\* The first that fails answers the request, and the cache is not cleared, not
\* even by create, whose row stays.  The others go on astray: nobody waits
\* for them any more.
PhotoFails(p, f) ==
  Continue(p, IF task[p].files = {f} THEN IdleTask
              ELSE [IdleTask EXCEPT !.op = "photo_stray",
                                    !.files = task[p].files \ {f}])

\* Variant: an upload that fails is logged.
PhotoUploadOrLog(p, f) ==
  /\ UploadingPhotos(p)
  /\ f \in task[p].files \ used
  /\ \/ UploadFile(f)
     \/ used' = used \cup {f} /\ UNCHANGED stored
  /\ UNCHANGED <<rowVars, cacheVars, interestVars, raced, lost, task, updates,
                 crashes>>

\* uploadFile throws if the storage fails.
PhotoUpload(p, f) ==
  /\ UploadingPhotos(p)
  /\ f \in task[p].files \ used
  /\ \/ UploadFile(f) /\ UNCHANGED <<task, late, raced>>
     \/ /\ NeverUploaded(f) /\ PhotoFails(p, f)
        /\ late' = (late \/ (ClearAhead(p) /\ Listed))
  /\ UNCHANGED <<rowVars, cached, tracked, interestVars, lost, updates,
                 crashes>>

\* After the last row the handler that waits clears the cache; after a row
\* that is made astray nobody does.
PhotoMade(p, f) ==
  /\ late' = (late \/ (At(p, "photo_stray") /\ Listed))
  /\ Continue(p, IF task[p].files # {f}
                 THEN [task[p] EXCEPT !.files = @ \ {f}]
                 ELSE IF At(p, "photo_stray") THEN IdleTask
                 ELSE Clearing(task[p].then))

\* The foreign key refuses the row of a property that is gone.
PhotoRow(p, f) ==
  /\ UploadingPhotos(p)
  /\ f \in task[p].files \cap used
  /\ IF property = "there"
     THEN photos' = photos \cup {f} /\ PhotoMade(p, f)
     ELSE PhotoFails(p, f) /\ UNCHANGED <<photos, late>>
  /\ UNCHANGED <<property, available, contract, reports, cached, tracked,
                 interestVars, fileVars, updates, crashes>>

\* The statement that makes the row throws.
PhotoThrows(p, f) ==
  /\ crashes < MaxCrashes
  /\ crashes' = crashes + 1
  /\ UploadingPhotos(p)
  /\ f \in task[p].files \cap used
  /\ lost' = lost \cup {f}
  /\ PhotoFails(p, f)
  /\ late' = (late \/ (ClearAhead(p) /\ Listed))
  /\ UNCHANGED <<rowVars, cached, tracked, interestVars, storageVars, raced,
                 updates>>

\* updatePhoto: another cover, which the pages show with the photos.
UpdatePhoto(p, f) ==
  /\ f \in photos
  /\ Start(p, Clearing("idle"))
  /\ UNCHANGED <<rowVars, cacheVars, interestVars, fileVars, updates, crashes>>

\* deletePhoto: deleteFile throws what the storage answers.
StartPhotoDelete(p, f) ==
  /\ f \in photos
  /\ Start(p, [IdleTask EXCEPT !.op = "photo_delete", !.files = {f}])
  /\ UNCHANGED <<rowVars, cacheVars, interestVars, fileVars, updates, crashes>>

PhotoDelete(p) ==
  /\ At(p, "photo_delete")
  /\ \/ DeleteFiles(task[p].files) /\ Proceed(p, "photo_unrow")
     \/ UNCHANGED storageVars /\ Finish(p)
  /\ UNCHANGED <<rowVars, cacheVars, interestVars, raced, lost, updates,
                 crashes>>

\* Throws if another handler deleted the row.
PhotoUnrow(p) ==
  /\ At(p, "photo_unrow")
  /\ IF task[p].files \subseteq photos
     THEN photos' = photos \ task[p].files /\ Continue(p, Clearing("idle"))
     ELSE Finish(p) /\ UNCHANGED photos
  /\ UNCHANGED <<property, available, contract, reports, cacheVars,
                 interestVars, fileVars, updates, crashes>>

-----------------------------------------------------------------------------
(* The contract's reports: generated, deleted, and swept after a week.     *)

AddContract ==
  /\ property = "there" /\ ~contract
  /\ contract' = TRUE
  /\ UNCHANGED <<property, available, photos, reports, cacheVars, interestVars,
                 fileVars, task, updates, crashes>>

\* generateAndSaveAccessoryPdf.
StartReport(p, f) ==
  /\ contract
  /\ Fresh(f)
  /\ UploadStarts({f})
  /\ Start(p, [IdleTask EXCEPT !.op = "report_render", !.files = {f}])
  /\ UNCHANGED <<rowVars, cacheVars, interestVars, storageVars, lost,
                 updates, crashes>>

\* The contract is read, and its documents: throws if it is gone, or if the
\* storage fails.
ReportRender(p, f) ==
  /\ At(p, "report_render")
  /\ f \in task[p].files
  /\ \/ contract /\ Proceed(p, "report_upload") /\ UNCHANGED fileVars
     \/ NeverUploaded(f) /\ Finish(p) /\ UNCHANGED lost
  /\ UNCHANGED <<rowVars, cacheVars, interestVars, updates, crashes>>

ReportUpload(p, f) ==
  /\ At(p, "report_upload")
  /\ f \in task[p].files
  /\ \/ UploadFile(f) /\ Proceed(p, "report_row") /\ UNCHANGED raced
     \/ NeverUploaded(f) /\ Finish(p)
  /\ UNCHANGED <<rowVars, cacheVars, interestVars, lost, updates, crashes>>

ReportRow(p) ==
  /\ At(p, "report_row")
  /\ reports' = IF contract THEN reports \cup task[p].files ELSE reports
  /\ Finish(p)
  /\ UNCHANGED <<property, available, contract, photos, cacheVars,
                 interestVars, fileVars, updates, crashes>>

\* deleteAccessoryPdf.
StartReportDelete(p, f) ==
  /\ f \in reports
  /\ Start(p, [IdleTask EXCEPT !.op = "report_delete", !.files = {f}])
  /\ UNCHANGED <<rowVars, cacheVars, interestVars, fileVars, updates, crashes>>

ReportDelete(p) ==
  /\ At(p, "report_delete")
  /\ \/ DeleteFiles(task[p].files) /\ Proceed(p, "report_unrow")
     \/ UNCHANGED storageVars /\ Finish(p)
  /\ UNCHANGED <<rowVars, cacheVars, interestVars, raced, lost, updates,
                 crashes>>

ReportUnrow(p) ==
  /\ At(p, "report_unrow")
  /\ reports' = reports \ task[p].files
  /\ Finish(p)
  /\ UNCHANGED <<property, available, contract, photos, cacheVars,
                 interestVars, fileVars, updates, crashes>>

\* handleCleanupOldReports, of those that are a week old.
StartSweep(p, S) ==
  /\ S \subseteq reports /\ S # {}
  /\ Start(p, [IdleTask EXCEPT !.op = "sweep_delete", !.files = S])
  /\ UNCHANGED <<rowVars, cacheVars, interestVars, fileVars, updates, crashes>>

\* deleteFiles, whose errors are logged, then the rows.
DeleteSeveral(p, op, next) ==
  /\ At(p, op)
  /\ \/ DeleteFiles(task[p].files) /\ UNCHANGED lost
     \/ UNCHANGED storageVars /\ lost' = lost \cup task[p].files
  /\ Proceed(p, next)
  /\ UNCHANGED <<rowVars, cacheVars, interestVars, raced, updates, crashes>>

SweepDelete(p) == DeleteSeveral(p, "sweep_delete", "sweep_unrow")

SweepUnrow(p) ==
  /\ At(p, "sweep_unrow")
  /\ reports' = reports \ task[p].files
  /\ Finish(p)
  /\ UNCHANGED <<property, available, contract, photos, cacheVars,
                 interestVars, fileVars, updates, crashes>>

-----------------------------------------------------------------------------
(* Removal, of the property, of its contract, and of the reports of one    *)
(* that is cancelled.                                                      *)

StartRemove(p) ==
  /\ property = "there"
  /\ Start(p, [IdleTask EXCEPT !.op = "photos_read"])
  /\ RemovalStarts
  /\ UNCHANGED <<rowVars, cacheVars, interestVars, storageVars, lost,
                 updates, crashes>>

\* deletePhotosByProperty.
PhotosRead(p) ==
  /\ At(p, "photos_read")
  /\ Continue(p, IF photos = {}
                 THEN [IdleTask EXCEPT !.op = "contracts_read"]
                 ELSE [IdleTask EXCEPT !.op = "photos_delete",
                                       !.files = photos])
  /\ UNCHANGED <<rowVars, cacheVars, interestVars, fileVars, updates, crashes>>

PhotosDelete(p) == DeleteSeveral(p, "photos_delete", "photos_unrow")

\* All the rows of the property, also those made since.
PhotosUnrow(p) ==
  /\ At(p, "photos_unrow")
  /\ photos' = {}
  /\ Continue(p, Clearing("contracts_read"))
  /\ UNCHANGED <<property, available, contract, reports, cacheVars,
                 interestVars, fileVars, updates, crashes>>

\* Variant: the reports are left to the cascade.
ContractsReadNone(p) ==
  /\ At(p, "contracts_read")
  /\ Continue(p, [IdleTask EXCEPT !.op = "property_unrow"])
  /\ UNCHANGED <<rowVars, cacheVars, interestVars, fileVars, updates, crashes>>

\* deleteContractsByProperty.
ContractsRead(p) ==
  /\ At(p, "contracts_read")
  /\ Continue(p, IF contract
                 THEN [IdleTask EXCEPT !.op = "reports_read",
                                       !.then = "property_unrow"]
                 ELSE [IdleTask EXCEPT !.op = "property_unrow"])
  /\ UNCHANGED <<rowVars, cacheVars, interestVars, fileVars, updates, crashes>>

\* remove, of the contract.
StartContractRemove(p) ==
  /\ contract
  /\ Start(p, [IdleTask EXCEPT !.op = "reports_read",
                               !.then = "contract_unrow"])
  /\ RemovalStarts
  /\ UNCHANGED <<rowVars, cacheVars, interestVars, storageVars, lost,
                 updates, crashes>>

\* cancelContract, from its reports on: the contract stays.  What it does
\* before is in ContractLifecycle, and with the orders in Notices.
StartCancel(p) ==
  /\ contract
  /\ Start(p, [IdleTask EXCEPT !.op = "reports_read"])
  /\ RemovalStarts
  /\ UNCHANGED <<rowVars, cacheVars, interestVars, storageVars, lost,
                 updates, crashes>>

\* deleteAccessoryPdfsByContract.
ReportsRead(p) ==
  /\ At(p, "reports_read")
  /\ Continue(p, IF reports = {}
                 THEN [IdleTask EXCEPT !.op = task[p].then]
                 ELSE [task[p] EXCEPT !.op = "reports_delete",
                                      !.files = reports])
  /\ UNCHANGED <<rowVars, cacheVars, interestVars, fileVars, updates, crashes>>

ReportsDelete(p) == DeleteSeveral(p, "reports_delete", "reports_unrow")

\* All the rows of the contract, also those made since.
ReportsUnrow(p) ==
  /\ At(p, "reports_unrow")
  /\ reports' = {}
  /\ Continue(p, [IdleTask EXCEPT !.op = task[p].then])
  /\ UNCHANGED <<property, available, contract, photos, cacheVars,
                 interestVars, fileVars, updates, crashes>>

\* The rows of new reports go with that of the contract.
ContractUnrow(p) ==
  /\ At(p, "contract_unrow")
  /\ contract' = FALSE
  /\ reports' = {}
  /\ Finish(p)
  /\ UNCHANGED <<property, available, photos, cacheVars, interestVars,
                 fileVars, updates, crashes>>

\* Variant: the property goes although a photo was added.
PropertyUnrowAnyway(p) ==
  /\ At(p, "property_unrow")
  /\ property' = "removed"
  /\ contract' = FALSE
  /\ reports' = {}
  /\ interest' = [i \in Interests |-> "absent"]
  /\ Continue(p, Clearing("idle"))
  /\ UNCHANGED <<available, photos, cacheVars, told, fileVars, updates,
                 crashes>>

\* The contract and the interests go with the property; a new photo keeps it,
\* and the call throws.
PropertyUnrow(p) ==
  /\ At(p, "property_unrow")
  /\ IF property = "there" /\ photos = {}
     THEN /\ property' = "removed"
          /\ contract' = FALSE
          /\ reports' = {}
          /\ interest' = [i \in Interests |-> "absent"]
          /\ Continue(p, Clearing("idle"))
     ELSE /\ Finish(p)
          /\ UNCHANGED <<property, contract, reports, interest>>
  /\ UNCHANGED <<available, photos, cacheVars, told, fileVars, updates,
                 crashes>>

-----------------------------------------------------------------------------
(* Interests.                                                              *)

\* create, once the property was read and its landlord takes proposals.
StartInterest(p) ==
  /\ property = "there"
  /\ Start(p, [IdleTask EXCEPT !.op = "interest_find"])
  /\ UNCHANGED <<rowVars, cacheVars, interestVars, fileVars, updates, crashes>>

\* The check for an interest of the same tenant.
InterestFind(p) ==
  /\ At(p, "interest_find")
  /\ IF Shown = {} THEN Proceed(p, "interest_create") ELSE Finish(p)
  /\ UNCHANGED <<rowVars, cacheVars, interestVars, fileVars, updates, crashes>>

\* No index stands in the way of a second row.  The pages, which show how many
\* there are, are left as they are.
InterestCreate(p, i) ==
  /\ At(p, "interest_create")
  /\ interest[i] = "absent" /\ told[i] = {}
  /\ IF property = "there"
     THEN /\ interest' = [interest EXCEPT ![i] = "PENDING"]
          /\ Continue(p, [task[p] EXCEPT !.op = "interest_tell",
                                         !.interest = i])
     ELSE Finish(p) /\ UNCHANGED interest
  /\ UNCHANGED <<rowVars, cacheVars, told, fileVars, updates, crashes>>

Tell(p) ==
  LET i == task[p].interest
  IN  told' = [told EXCEPT ![i] = @ \cup {task[p].status}]

InterestTell(p) ==
  /\ At(p, "interest_tell")
  /\ Tell(p)
  /\ Finish(p)
  /\ UNCHANGED <<rowVars, cacheVars, interest, fileVars, updates, crashes>>

\* updateStatus, by the landlord.
StartDecide(p, i, s) ==
  /\ interest[i] = "PENDING"
  /\ s # "PENDING"
  /\ Start(p, [IdleTask EXCEPT !.op = "decide_write", !.interest = i,
                               !.status = s])
  /\ UNCHANGED <<rowVars, cacheVars, interestVars, fileVars, updates, crashes>>

\* Variant: a dismissal is not told.
DecideWriteSilently(p) ==
  LET i == task[p].interest
  IN  /\ At(p, "decide_write")
      /\ IF interest[i] = "absent" THEN UNCHANGED interest
         ELSE interest' = [interest EXCEPT ![i] = task[p].status]
      /\ IF task[p].status = "DISMISSED" \/ interest[i] = "absent"
         THEN Finish(p) ELSE Proceed(p, "decide_tell")
      /\ UNCHANGED <<rowVars, cacheVars, told, fileVars, updates, crashes>>

\* Throws if the row is gone; whatever was decided since is overwritten.
DecideWrite(p) ==
  LET i == task[p].interest
  IN  /\ At(p, "decide_write")
      /\ IF interest[i] = "absent" THEN Finish(p) /\ UNCHANGED interest
         ELSE /\ interest' = [interest EXCEPT ![i] = task[p].status]
              /\ Proceed(p, "decide_tell")
      /\ UNCHANGED <<rowVars, cacheVars, told, fileVars, updates, crashes>>

DecideTell(p) ==
  /\ At(p, "decide_tell")
  /\ Tell(p)
  /\ Finish(p)
  /\ UNCHANGED <<rowVars, cacheVars, interest, fileVars, updates, crashes>>

-----------------------------------------------------------------------------
(* Failures, and the specification.                                        *)

\* A handler dies, or a call of its throws: what it did before stays.
Crash(p) ==
  /\ crashes < MaxCrashes
  /\ ~At(p, "idle")
  /\ crashes' = crashes + 1
  /\ late' = (late \/ (ClearAhead(p) /\ Listed))
  /\ lost' = lost \cup (task[p].files \cap used)
                  \cup ({task[p].interest} \ {None})
  /\ raced' = raced \ (task[p].files \ used)
  /\ Finish(p)
  /\ UNCHANGED <<rowVars, cached, tracked, interestVars, storageVars, updates>>

Begin(p) ==
  \/ \E g \in Pages : StartFill(p, g) \/ StartOwnFill(p, g)
  \/ \E S \in SUBSET Photos : Create(p, S) \/ StartPhotos(p, S)
  \/ StartUpdate(p)
  \/ \E f \in Photos : UpdatePhoto(p, f) \/ StartPhotoDelete(p, f)
  \/ \E f \in Reports : StartReport(p, f) \/ StartReportDelete(p, f)
  \/ \E S \in SUBSET Reports : StartSweep(p, S)
  \/ StartRemove(p)
  \/ StartContractRemove(p)
  \/ StartCancel(p)
  \/ StartInterest(p)
  \/ \E i \in Interests, s \in InterestStatus : StartDecide(p, i, s)

Step(p) ==
  \/ ClearRead(p)
  \/ ClearDel(p)
  \/ ClearReadOwn(p)
  \/ ClearDelOwn(p)
  \/ FillRead(p)
  \/ OwnRead(p)
  \/ FillPhotos(p)
  \/ FillSet(p)
  \/ OwnSet(p)
  \/ \E b \in BOOLEAN : UpdateWrite(p, b)
  \/ \E f \in Photos :
       PhotoUpload(p, f) \/ PhotoRow(p, f) \/ PhotoThrows(p, f)
  \/ PhotoDelete(p)
  \/ PhotoUnrow(p)
  \/ \E f \in Reports : ReportRender(p, f) \/ ReportUpload(p, f)
  \/ ReportRow(p)
  \/ ReportDelete(p)
  \/ ReportUnrow(p)
  \/ SweepDelete(p)
  \/ SweepUnrow(p)
  \/ PhotosRead(p)
  \/ PhotosDelete(p)
  \/ PhotosUnrow(p)
  \/ ContractsRead(p)
  \/ ReportsRead(p)
  \/ ReportsDelete(p)
  \/ ReportsUnrow(p)
  \/ ContractUnrow(p)
  \/ PropertyUnrow(p)
  \/ InterestFind(p)
  \/ \E i \in Interests : InterestCreate(p, i)
  \/ InterestTell(p)
  \/ DecideWrite(p)
  \/ DecideTell(p)

Next ==
  \/ \E g \in Pages : ExpirePage(g)
  \/ Hide
  \/ AddContract
  \/ \E p \in Procs : Begin(p) \/ Step(p) \/ Crash(p)

Spec == Init /\ [][Next]_vars

-----------------------------------------------------------------------------
(* Safety.                                                                 *)

\* Objects whose rows a handler is about to delete.
Leaving ==
  UNION {task[p].files : p \in {q \in Procs :
           task[q].op \in {"photo_unrow", "photos_unrow", "report_unrow",
                           "reports_unrow", "sweep_unrow"}}}

\* The object of a photo's and of a report's row is there to be read, until a
\* handler that deletes it has the row left to delete; only one that dies in
\* between leaves a row without its object, however deletions and uploads
\* meet.
RowIsReadable ==
  \A f \in photos \cup reports : Readable(f) \/ f \in Leaving \cup lost

\* No object is left without a row by handlers that run to their end, unless
\* the storage or a statement failed, or a removal of the property or of its
\* contract, or a cancellation of the contract, overlapped the upload: these
\* read the rows, delete their objects, and then all the rows there are.
StoredIsNamed ==
  \A f \in stored :
    \/ f \in photos \cup reports \cup raced \cup lost
    \/ \E p \in Procs : Uploading(p) /\ f \in task[p].files

\* A cached page shows the property as its rows are, with no interest that is
\* gone, until the handler that changed them has cleared the list.  It counts
\* no interest that came since: nobody clears for it.  For the rest, only a
\* page set from rows read before a change, or that lost its tracking to a
\* clear that had not seen it, the contract's activation, or a failure, after
\* which photos may get their rows astray, leaves it stale.
PageIsFresh ==
  \A g \in Pages :
    cached[g] # None =>
      \/ Shows(cached[g], Listing(g))
      \/ late
      \/ \E p \in Procs : ClearAhead(p)

\* The status of an interest was told to whom it concerns, or is being told,
\* also when two decisions meet; only a failure leaves it untold.
InterestIsTold ==
  \A i \in Shown :
    \/ interest[i] \in told[i]
    \/ \E p \in Procs : /\ task[p].op \in {"interest_tell", "decide_tell"}
                        /\ task[p].interest = i
                        /\ task[p].status = interest[i]
    \/ i \in lost

=============================================================================
