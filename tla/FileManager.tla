---------------------------- MODULE FileManager ----------------------------
(***************************************************************************)
(* Reading, listing and managing files, composed with the service.         *)
(*                                                                         *)
(* On the server, downloads and archives (handlers.go, file_manager.go)    *)
(* look records up under the read lock and open the objects after giving   *)
(* it back.  In the browser, the file manager of src/web/app.js shows a    *)
(* list it has loaded earlier, reloads it after its own deletions, and has *)
(* one dialog in which deletions are confirmed.                            *)
(***************************************************************************)
EXTENDS Service, FileNames

CONSTANTS
  Readers,               \* goroutines serving downloads and archives
  Deletions,             \* deletions the page may have under way
  MaxArchiveFiles

ASSUME FileManagerAssumption ==
  IsFiniteSet(Readers) /\ IsFiniteSet(Deletions) /\ MaxArchiveFiles \in Nat \ {0}

VARIABLES
  \* On the server.
  reading,       \* of each read under way: the files still to be opened, and the
                 \* files whose records have been removed since they were looked up
  \* In the page.
  files,         \* the list it shows
  loaded,        \* fileManager.loaded
  loading,       \* fileManager.loading: "no", "asked", "answered" by the server, or
                 \* "overtaken": a reload was dropped with that answer on its way
  answer,        \* the list in that answer
  dialog,        \* activeDeleteFileIds, none when the dialog is hidden or its
                 \* button disabled
  deleting,      \* of each deletion under way: its files, and what became of it
  \* What happened, for the properties.
  stale,         \* the list shown came in an overtaken answer
  deleted        \* of the files in the list or the answer, those this page was told
                 \* it has deleted since

list     == <<files, loaded, loading, answer, stale>>
page     == <<list, dialog, deleting, deleted>>
fileVars == <<vars, reading, page>>

Nothing == [x \in {} |-> 0]

Extend(f, x, y) == [z \in DOMAIN f \cup {x} |-> IF z = x THEN y ELSE f[z]]
Remove(f, x)    == Restrict(f, DOMAIN f \ {x})

\* Faults may happen at any time: Init without its other case.
FileInit ==
  /\ Init /\ ~healthy
  /\ reading = Nothing
  /\ files = {} /\ loaded = FALSE /\ loading = "no" /\ answer = {}
  /\ dialog = {} /\ deleting = Nothing
  /\ stale = FALSE /\ deleted = {}

----------------------------------------------------------------------------
(* Reads.                                                                  *)

\* GET /files/{id} with a valid key finds the record; only local files are served.
FileLookup(r, id) ==
  /\ up /\ r \notin DOMAIN reading /\ Driver = "local"
  /\ id \in DOMAIN records
  /\ reading' = Extend(reading, r, [todo |-> {id}, lost |-> {}])
  /\ UNCHANGED <<vars, page>>

\* Mutant of ArchiveLookup: the index on disk is asked.
ArchiveLookupInIndex(r, ids) ==
  /\ up /\ r \notin DOMAIN reading
  /\ Cardinality(ids) <= MaxArchiveFiles /\ ids \cap DOMAIN index # {}
  /\ reading' = Extend(reading, r, [todo |-> ids \cap DOMAIN index, lost |-> {}])
  /\ UNCHANGED <<vars, page>>

\* GET /api/files/archive copies the records it finds; ids named twice count once.
ArchiveLookup(r, ids) ==
  /\ up /\ r \notin DOMAIN reading
  /\ Cardinality(ids) <= MaxArchiveFiles /\ ids \cap DOMAIN records # {}
  /\ reading' = Extend(reading, r, [todo |-> ids \cap DOMAIN records, lost |-> {}])
  /\ UNCHANGED <<vars, page>>

\* Mutant of ReadOpen: the read goes on after its last file.
ReadOpenOnly(r) ==
  /\ r \in DOMAIN reading
  /\ \E id \in reading[r].todo \cap objects : reading' = [reading EXCEPT ![r].todo = @ \ {id}]
  /\ UNCHANGED <<vars, page>>

\* An object is opened; its bytes can be read to the end whatever happens to it.
ReadOpen(r) ==
  /\ r \in DOMAIN reading
  /\ \E id \in reading[r].todo \cap objects :
       reading' = IF reading[r].todo = {id} THEN Remove(reading, r)
                  ELSE [reading EXCEPT ![r].todo = @ \ {id}]
  /\ UNCHANGED <<vars, page>>

\* It is not there, or cannot be read: the download is a 404, the archive ends.
ReadFails(r) ==
  /\ r \in DOMAIN reading
  /\ reading' = Remove(reading, r)
  /\ UNCHANGED <<vars, page>>

\* The removals of a step, as the reads under way meet them.
NoteRemovals ==
  reading' = [r \in DOMAIN reading |->
                [reading[r] EXCEPT !.lost = @ \cup (DOMAIN records \ DOMAIN records')]]

----------------------------------------------------------------------------
(* The list.                                                               *)

\* refreshFileManager(force): the tab is shown, or the reload button pressed.  A
\* reload is dropped while a load is under way.
Refresh(force) ==
  /\ force \/ ~loaded
  /\ loading = "no" /\ loading' = "asked"
  /\ UNCHANGED <<vars, reading, files, loaded, answer, stale, dialog, deleting, deleted>>

\* listFiles copies the records under the read lock.
ListFiles ==
  /\ up /\ loading = "asked"
  /\ loading' = "answered"
  /\ answer' = DOMAIN records
  /\ deleted' = deleted \ DOMAIN records
  /\ UNCHANGED <<vars, reading, files, loaded, stale, dialog, deleting>>

ListArrives ==
  /\ loading \in {"answered", "overtaken"}
  /\ files' = answer /\ loaded' = TRUE
  /\ loading' = "no" /\ answer' = {}
  /\ stale' = (loading = "overtaken")
  /\ deleted' = deleted \cap answer
  /\ UNCHANGED <<vars, reading, dialog, deleting>>

\* The request or its answer is lost; the list stays as it is.
ListFails ==
  /\ loading # "no"
  /\ loading' = "no" /\ answer' = {}
  /\ deleted' = deleted \cap files
  /\ UNCHANGED <<vars, reading, files, loaded, stale, dialog, deleting>>

----------------------------------------------------------------------------
(* Deletions.                                                              *)

\* openDeleteFilesModal, for the selected files or for one card.
OpenDialog(ids) ==
  /\ ids # {} /\ ids \subseteq files
  /\ dialog' = ids
  /\ UNCHANGED <<vars, reading, list, deleting, deleted>>

CancelDialog ==
  /\ dialog # {}
  /\ dialog' = {}
  /\ UNCHANGED <<vars, reading, list, deleting, deleted>>

\* confirmDeleteFilesAction disables the button and sends the request.
Confirm(d) ==
  /\ dialog # {} /\ d \notin DOMAIN deleting
  /\ dialog' = {}
  /\ deleting' = Extend(deleting, d, [ids |-> dialog, at |-> "sent"])
  /\ UNCHANGED <<vars, reading, list, deleted>>

Answered(d, at) == deleting' = [deleting EXCEPT ![d].at = at]

\* POST /api/files/delete: deleteRecords, unless there are too many ids or none of
\* them is known.
DeletionServed(d) ==
  /\ d \in DOMAIN deleting /\ deleting[d].at = "sent" /\ up
  /\ LET ids  == deleting[d].ids
         few  == Cardinality(ids) <= MaxArchiveFiles
         hits == IF few THEN ids \cap DOMAIN records ELSE {}
     IN  \/ /\ hits # {} /\ BatchDelete(ids)
            /\ Answered(d, IF \A id \in hits : told'[id] = "gone" THEN "done" ELSE "failed")
         \/ /\ hits = {} /\ UNCHANGED vars
            /\ Answered(d, IF few THEN "done" ELSE "failed")
  /\ NoteRemovals
  /\ UNCHANGED <<list, dialog, deleted>>

\* The reload after a deletion.
Reload == loading' = CASE loading = "no" -> "asked"
                       [] loading = "answered" -> "overtaken"
                       [] OTHER -> loading

\* Mutant of DeletionDone: the list still counts as loaded.
DeletionDoneLoaded(d) ==
  /\ d \in DOMAIN deleting /\ deleting[d].at = "done"
  /\ Reload
  /\ deleted' = deleted \cup (deleting[d].ids \cap (files \cup answer))
  /\ deleting' = Remove(deleting, d)
  /\ dialog' = {}
  /\ UNCHANGED <<vars, reading, files, loaded, answer, stale>>

\* performDeleteFiles hears of the success and reloads the list; then the dialog
\* is hidden, whichever deletion it is showing by now.
DeletionDone(d) ==
  /\ d \in DOMAIN deleting /\ deleting[d].at = "done"
  /\ loaded' = FALSE /\ stale' = FALSE
  /\ Reload
  /\ deleted' = deleted \cup (deleting[d].ids \cap (files \cup answer))
  /\ deleting' = Remove(deleting, d)
  /\ dialog' = {}
  /\ UNCHANGED <<vars, reading, files, answer>>

\* It hears of an error, or of nothing: the answer may be lost.
DeletionFailed(d) ==
  /\ d \in DOMAIN deleting
  /\ deleting' = Remove(deleting, d)
  /\ dialog' = {}
  /\ UNCHANGED <<vars, reading, list, deleted>>

\* The page is left or reloaded, by the user or at a 401.
PageReload ==
  /\ files' = {} /\ loaded' = FALSE /\ loading' = "no" /\ answer' = {}
  /\ dialog' = {} /\ deleting' = Nothing
  /\ stale' = FALSE /\ deleted' = {}
  /\ UNCHANGED <<vars, reading>>

----------------------------------------------------------------------------
\* An upload of a resumable or a single-shot request reaches persist.  Whatever else
\* an upload does touches its temp file and the ledger only, and is left out here.
FilePersist(id) ==
  /\ up /\ Acceptable(id)
  /\ \/ \E how \in PersistEnds : Persist(id, 0, Cleaned(Image), how)
     \/ CleanupFails
  /\ UNCHANGED <<staged, up, reservedBytes, request, now, healthy>>

\* What the service does meanwhile; a crash ends the reads.
ServiceStep ==
  \/ /\ \/ \E id \in Ids : FilePersist(id) \/ DeleteFile(id)
        \/ CleanupTick \/ Start \/ StartFails \/ Tick
     /\ NoteRemovals
     /\ UNCHANGED page
  \/ /\ Crash
     /\ reading' = Nothing
     /\ UNCHANGED page

FileNext ==
  \/ ServiceStep
  \/ \E r \in Readers :
       \/ \E id \in Ids : FileLookup(r, id)
       \/ \E ids \in SUBSET Ids : ArchiveLookup(r, ids)
       \/ ReadOpen(r) \/ ReadFails(r)
  \/ \E force \in BOOLEAN : Refresh(force)
  \/ ListFiles \/ ListArrives \/ ListFails
  \/ \E ids \in SUBSET Ids : OpenDialog(ids)
  \/ CancelDialog
  \/ \E d \in Deletions : Confirm(d) \/ DeletionServed(d) \/ DeletionDone(d) \/ DeletionFailed(d)
  \/ PageReload

FileSpec == FileInit /\ [][FileNext]_fileVars

----------------------------------------------------------------------------
(* Properties.                                                             *)

Reads    == [todo : (SUBSET Ids) \ {{}}, lost : SUBSET Ids]
Removals == [ids : (SUBSET Ids) \ {{}}, at : {"sent", "done", "failed"}]

\* Every variable of the reads and of the page keeps its type.
FileTypeOK ==
  /\ TypeOK
  /\ DOMAIN reading \subseteq Readers /\ reading \in [DOMAIN reading -> Reads]
  /\ files \subseteq Ids /\ loaded \in BOOLEAN /\ answer \subseteq Ids
  /\ loading \in {"no", "asked", "answered", "overtaken"}
  /\ dialog \subseteq Ids
  /\ DOMAIN deleting \subseteq Deletions /\ deleting \in [DOMAIN deleting -> Removals]
  /\ stale \in BOOLEAN /\ deleted \subseteq files \cup answer

\* file_manager.go and handlers.go open objects after the lock is given back.  On
\* local storage a read that finds an object missing lost it to a deletion or to
\* expiry since it looked the record up: no record it was given was a dead one.
ReadsExplained ==
  Driver = "local" =>
    \A r \in DOMAIN reading : reading[r].todo \subseteq objects \cup reading[r].lost

\* app.js: "Reload the list from the server to stay in sync."  A list that counts
\* as loaded shows no file the page has heard, since that list was made, to be
\* deleted, unless the reload was dropped with an older answer on its way.
ListInSync == loaded /\ ~stale => files \cap deleted = {}

\* archiveFiles: "De-duplicate filenames inside the archive".  While an archive is
\* read, no two of its entries have one name, unless a file was uploaded under a
\* name the archive generates.
EntriesDistinct == reading # Nothing => ArchivesNamed
=============================================================================
