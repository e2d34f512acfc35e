------------------------------ MODULE Storage ------------------------------
(***************************************************************************)
(* The Supabase buckets as StorageService uses them.  A key holds the time *)
(* of its upload, so that a key is never used a second time.               *)
(***************************************************************************)

CONSTANTS
  Files,       \* the keys of objects
  None         \* "null": no key

ASSUME StorageAssumption == None \notin Files

VARIABLES
  stored,      \* the objects there are
  used         \* the keys that were ever handed out

storageVars == <<stored, used>>

StorageTypeOK == used \subseteq Files /\ stored \subseteq used

StorageInit == stored = {} /\ used = {}

\* uploadFile; it never overwrites (upsert is false).
UploadFile(f) ==
  /\ f \in Files \ used
  /\ used' = used \cup {f}
  /\ stored' = stored \cup {f}

\* deleteFile and deleteFiles; a key that is not there is no error.
DeleteFiles(fs) == stored' = stored \ fs /\ UNCHANGED used

\* deleteFiles logs an error of the storage and returns as if it had
\* deleted.
DeleteFilesOrLog(fs) == DeleteFiles(fs) \/ UNCHANGED storageVars

\* getFileBuffer and getFileStream throw when there is no such object.
Readable(f) == f \in stored

=============================================================================
