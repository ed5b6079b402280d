------------------------- MODULE FileManagerProofs -------------------------
(***************************************************************************)
(* Theorems of FileManager: what the reads of the server may miss, and     *)
(* what the list of the page shows, for every value of the constants.      *)
(***************************************************************************)
EXTENDS FileManager, StoreProofs, SequenceTheorems, WellFoundedInduction

----------------------------------------------------------------------------
(* Types.                                                                  *)

DeletionsOK(f) == DOMAIN f \subseteq Deletions /\ f \in [DOMAIN f -> Removals]

PageOK ==
  /\ files \subseteq Ids /\ loaded \in BOOLEAN /\ answer \subseteq Ids
  /\ loading \in {"no", "asked", "answered", "overtaken"}
  /\ dialog \subseteq Ids
  /\ DeletionsOK(deleting)
  /\ stale \in BOOLEAN

ReadsOK == DOMAIN reading \subseteq Readers /\ reading \in [DOMAIN reading -> Reads]

\* Until an answer is on its way there is none, and the files in an answer that no
\* deletion has overtaken are files the page has not been told to be deleted.
Fresh ==
  /\ loading \in {"no", "asked"} => answer = {}
  /\ loading = "answered" => answer \cap deleted = {}
  /\ deleted \subseteq files \cup answer

\* A persist keeps the types of the service, and the expiry pass before it.
LEMMA FilePersistFacts ==
  ASSUME StoreInv, NEW id \in Ids, FilePersist(id)
  PROVE  StoreInv'
<1>1. /\ TypeOK /\ up /\ up'
      /\ UNCHANGED <<staged, reservedBytes, request, now, healthy>>
  BY DEF FilePersist, StoreInv
<1>2. CASE CleanupFails
  <2>1. /\ orphans' \subseteq Ids /\ objects' \subseteq Ids
    BY <1>1, <1>2, SweepFacts DEF TypeOK
  <2>2. TypeOK'
    BY <1>1, <1>2, <2>1, SweepFacts DEF TypeOK, Answers, request
  <2> QED
    BY <1>1, <1>2, <2>2, SweepSound DEF StoreInv
<1>3. ASSUME NEW how \in PersistEnds, Persist(id, 0, Cleaned(Image), how)
      PROVE  StoreInv'
  <2>1. /\ records' \in Indexes /\ index' \in Indexes
        /\ orphans' \subseteq Ids /\ objects' \subseteq Ids
        /\ told' \in [Ids -> Answers]
    BY <1>1, <1>3, PersistContent
  <2>2. TypeOK'
    BY <1>1, <2>1 DEF TypeOK, Answers, request
  <2> QED
    BY <1>1, <1>3, <2>2, ContentSound DEF StoreInv
<1> QED
  BY <1>2, <1>3 DEF FilePersist

\* Every step of the composition keeps the store sound; the page changes it by its
\* deletions only.
LEMMA FileStore ==
  ASSUME StoreInv, PageOK, [FileNext]_fileVars
  PROVE  StoreInv'
<1>1. ASSUME NEW id \in Ids, FilePersist(id)
      PROVE  StoreInv'
  BY <1>1, FilePersistFacts
<1>2. CASE Next \/ UNCHANGED vars
  BY <1>2, NextStore
<1>3. CASE ServiceStep
  BY <1>1, <1>2, <1>3 DEF ServiceStep, Next
<1>4. ASSUME NEW r \in Readers,
             \/ \E id \in Ids : FileLookup(r, id)
             \/ \E ids \in SUBSET Ids : ArchiveLookup(r, ids)
             \/ ReadOpen(r) \/ ReadFails(r)
      PROVE  UNCHANGED vars
  BY <1>4 DEF FileLookup, ArchiveLookup, ReadOpen, ReadFails
<1>5. CASE \/ \E force \in BOOLEAN : Refresh(force)
           \/ ListFiles \/ ListArrives \/ ListFails
           \/ \E ids \in SUBSET Ids : OpenDialog(ids)
           \/ CancelDialog \/ PageReload
  BY <1>2, <1>5 DEF Refresh, ListFiles, ListArrives, ListFails, OpenDialog, CancelDialog,
                    PageReload
<1>6. ASSUME NEW d \in Deletions, Confirm(d) \/ DeletionDone(d) \/ DeletionFailed(d)
      PROVE  UNCHANGED vars
  BY <1>6 DEF Confirm, DeletionDone, DeletionFailed
<1>7. ASSUME NEW d \in Deletions, DeletionServed(d)
      PROVE  StoreInv'
  <2>1. deleting[d].ids \in SUBSET Ids
    BY <1>7 DEF DeletionServed, PageOK, DeletionsOK, Removals
  <2> QED
    BY <1>2, <1>7, <2>1 DEF DeletionServed, Next
<1> QED
  BY <1>2, <1>3, <1>4, <1>5, <1>6, <1>7 DEF FileNext, fileVars

----------------------------------------------------------------------------
(* The reads.                                                              *)

\* A file that a read has still to open has its record, or has lost it since.
Looked == \A r \in DOMAIN reading : reading[r].todo \subseteq DOMAIN records \cup reading[r].lost

ReadsInv == ReadsOK /\ Looked

\* The removals of a step are noted.
LEMMA NoteFacts ==
  ASSUME StoreInv, StoreInv', ReadsInv, NoteRemovals
  PROVE  ReadsInv'
<1>1. DOMAIN records \subseteq Ids
  BY IndexParts DEF StoreInv, TypeOK
<1> DEFINE gone == DOMAIN records \ DOMAIN records'
<1>2. /\ DOMAIN reading' = DOMAIN reading
      /\ \A r \in DOMAIN reading : reading'[r] = [reading[r] EXCEPT !.lost = @ \cup gone]
      /\ reading' = [r \in DOMAIN reading |-> reading'[r]]
  BY DEF NoteRemovals
<1> HIDE DEF gone
<1>3. \A r \in DOMAIN reading :
        reading[r].todo \in (SUBSET Ids) \ {{}} /\ reading[r].lost \in SUBSET Ids
        /\ reading[r] \in Reads
  BY DEF ReadsInv, ReadsOK, Reads
<1>4. \A r \in DOMAIN reading : /\ reading'[r].todo = reading[r].todo
                                /\ reading'[r].lost = reading[r].lost \cup gone
                                /\ reading'[r] \in Reads
  BY <1>1, <1>2, <1>3 DEF Reads, gone
<1>5. ReadsOK'
  BY <1>2, <1>4 DEF ReadsInv, ReadsOK
<1>6. Looked'
  BY <1>2, <1>4 DEF ReadsInv, Looked, gone
<1> QED
  BY <1>5, <1>6 DEF ReadsInv

\* The steps of one read.
LEMMA ReaderFacts ==
  ASSUME StoreInv, ReadsInv, NEW r \in Readers,
         \/ \E id \in Ids : FileLookup(r, id)
         \/ \E ids \in SUBSET Ids : ArchiveLookup(r, ids)
         \/ ReadOpen(r) \/ ReadFails(r)
  PROVE  ReadsInv'
<1> DEFINE D == DOMAIN reading
<1>1. /\ D \in SUBSET Readers /\ reading \in [D -> Reads] /\ UNCHANGED records
      /\ DOMAIN records \subseteq Ids
  BY IndexParts
     DEF StoreInv, TypeOK, ReadsInv, ReadsOK, FileLookup, ArchiveLookup, ReadOpen, ReadFails,
         vars, memory
<1>2. ASSUME NEW todo \in (SUBSET DOMAIN records) \ {{}},
             reading' = Extend(reading, r, [todo |-> todo, lost |-> {}])
      PROVE  ReadsInv'
  <2> DEFINE one == [todo |-> todo, lost |-> {}]
  <2>1. one \in Reads /\ one.todo \subseteq DOMAIN records
    BY <1>1 DEF Reads
  <2> HIDE DEF one, D
  <2>2. /\ DOMAIN reading' = D \cup {r} /\ reading' \in [D \cup {r} -> Reads]
        /\ reading'[r] = one /\ \A s \in D \ {r} : reading'[s] = reading[s]
    BY <1>1, <1>2, <2>1 DEF Extend, one
  <2>3. ReadsOK'
    BY <1>1, <2>2 DEF ReadsOK
  <2>4. Looked'
    BY <1>1, <2>1, <2>2 DEF Looked, ReadsInv, D
  <2> QED
    BY <2>3, <2>4 DEF ReadsInv
<1>3. CASE r \in D /\ reading' = Remove(reading, r)
  <2> HIDE DEF D
  <2>1. Remove(reading, r) \in [D \ {r} -> Reads] /\ DOMAIN Remove(reading, r) = D \ {r}
        /\ \A s \in D \ {r} : Remove(reading, r)[s] = reading[s]
    BY DEF Remove, Restrict, D, ReadsInv, ReadsOK
  <2>2. ReadsOK'
    BY <1>1, <1>3, <2>1 DEF ReadsOK
  <2>3. Looked'
    BY <1>1, <1>3, <2>1 DEF Looked, ReadsInv, D
  <2> QED
    BY <2>2, <2>3 DEF ReadsInv
<1>4. ASSUME NEW id, r \in D, reading[r].todo # {id},
             reading' = [reading EXCEPT ![r].todo = @ \ {id}], id \in reading[r].todo
      PROVE  ReadsInv'
  <2> HIDE DEF D
  <2>1. reading[r] \in Reads
    BY <1>1, <1>4
  <2>2. /\ DOMAIN reading' = D
        /\ reading'[r] = [reading[r] EXCEPT !.todo = @ \ {id}]
        /\ \A s \in D \ {r} : reading'[s] = reading[s]
        /\ reading' = [s \in D |-> reading'[s]]
    BY <1>1, <1>4
  <2>3. /\ reading'[r] \in Reads /\ reading'[r].todo = reading[r].todo \ {id}
        /\ reading'[r].lost = reading[r].lost
    BY <1>4, <2>1, <2>2 DEF Reads
  <2>4. ReadsOK'
    BY <1>1, <2>2, <2>3 DEF ReadsOK
  <2>5. Looked'
    BY <1>1, <2>2, <2>3 DEF Looked, ReadsInv, D
  <2> QED
    BY <2>4, <2>5 DEF ReadsInv
<1>5. CASE \E id \in Ids : FileLookup(r, id)
  BY <1>2, <1>5 DEF FileLookup
<1>6. CASE \E ids \in SUBSET Ids : ArchiveLookup(r, ids)
  <2>1. PICK ids : /\ ids \cap DOMAIN records # {}
                   /\ reading' = Extend(reading, r, [todo |-> ids \cap DOMAIN records, lost |-> {}])
    BY <1>6 DEF ArchiveLookup
  <2> DEFINE todo == ids \cap DOMAIN records
  <2>2. todo \in (SUBSET DOMAIN records) \ {{}}
    BY <2>1
  <2> QED
    BY <1>2, <2>1, <2>2
<1>7. CASE ReadOpen(r)
  BY <1>3, <1>4, <1>7 DEF ReadOpen
<1>8. CASE ReadFails(r)
  BY <1>3, <1>8 DEF ReadFails
<1> QED
  BY <1>5, <1>6, <1>7, <1>8

LEMMA FileReads ==
  ASSUME StoreInv, StoreInv', ReadsInv, [FileNext]_fileVars
  PROVE  ReadsInv'
<1>1. CASE UNCHANGED <<vars, reading>>
  BY <1>1 DEF ReadsInv, ReadsOK, Looked, vars, memory
<1>2. CASE ServiceStep
  <2>1. CASE NoteRemovals
    BY <2>1, NoteFacts
  <2>2. CASE Crash /\ reading' = Nothing
    BY <2>2 DEF Nothing, ReadsInv, ReadsOK, Looked
  <2> QED
    BY <1>2, <2>1, <2>2 DEF ServiceStep
<1>3. ASSUME NEW r \in Readers,
             \/ \E id \in Ids : FileLookup(r, id)
             \/ \E ids \in SUBSET Ids : ArchiveLookup(r, ids)
             \/ ReadOpen(r) \/ ReadFails(r)
      PROVE  ReadsInv'
  BY <1>3, ReaderFacts
<1>4. CASE \/ \E force \in BOOLEAN : Refresh(force)
           \/ ListFiles \/ ListArrives \/ ListFails
           \/ \E ids \in SUBSET Ids : OpenDialog(ids)
           \/ CancelDialog \/ PageReload
  BY <1>1, <1>4 DEF Refresh, ListFiles, ListArrives, ListFails, OpenDialog, CancelDialog,
                    PageReload
<1>5. ASSUME NEW d \in Deletions, Confirm(d) \/ DeletionDone(d) \/ DeletionFailed(d)
      PROVE  UNCHANGED <<vars, reading>>
  BY <1>5 DEF Confirm, DeletionDone, DeletionFailed
<1>6. ASSUME NEW d \in Deletions, DeletionServed(d)
      PROVE  ReadsInv'
  BY <1>6, NoteFacts DEF DeletionServed
<1> QED
  BY <1>1, <1>2, <1>3, <1>4, <1>5, <1>6 DEF FileNext, fileVars

----------------------------------------------------------------------------
(* The page.                                                               *)

\* Each deletion of the page is one of its own, with the files of its dialog.
LEMMA DeletingFacts ==
  ASSUME PageOK, NEW d \in Deletions
  PROVE  /\ \A ids \in (SUBSET Ids) \ {{}} :
              DeletionsOK(Extend(deleting, d, [ids |-> ids, at |-> "sent"]))
         /\ d \in DOMAIN deleting =>
              \A at \in {"done", "failed"} : DeletionsOK([deleting EXCEPT ![d].at = at])
         /\ DeletionsOK(Remove(deleting, d))
<1> DEFINE D == DOMAIN deleting
<1>1. D \in SUBSET Deletions /\ deleting \in [D -> Removals]
  BY DEF PageOK, DeletionsOK
<1>2. ASSUME NEW ids \in (SUBSET Ids) \ {{}}
      PROVE  DeletionsOK(Extend(deleting, d, [ids |-> ids, at |-> "sent"]))
  <2> DEFINE one == [ids |-> ids, at |-> "sent"]
  <2>1. one \in Removals
    BY DEF Removals
  <2> HIDE DEF one
  <2>2. DeletionsOK(Extend(deleting, d, one))
    BY <1>1, <2>1 DEF Extend, DeletionsOK
  <2> QED
    BY <2>2 DEF one
<1>3. ASSUME NEW at \in {"done", "failed"}, d \in D
      PROVE  DeletionsOK([deleting EXCEPT ![d].at = at])
  <2> HIDE DEF D
  <2>1. [deleting[d] EXCEPT !.at = at] \in Removals
    BY <1>1, <1>3 DEF Removals
  <2>2. DOMAIN [deleting EXCEPT ![d].at = at] = D
    BY <1>1, <1>3
  <2> QED
    BY <1>1, <1>3, <2>1, <2>2 DEF DeletionsOK
<1>4. DeletionsOK(Remove(deleting, d))
  BY <1>1 DEF Remove, Restrict, DeletionsOK
<1> QED
  BY <1>2, <1>3, <1>4

PageInv == PageOK /\ Fresh /\ ListInSync

LEMMA FilePage ==
  ASSUME StoreInv, PageInv, [FileNext]_fileVars
  PROVE  PageInv'
<1>1. PageOK /\ Fresh /\ ListInSync /\ DOMAIN records \subseteq Ids
  BY IndexParts DEF PageInv, StoreInv, TypeOK
<1>2. CASE UNCHANGED page
  BY <1>1, <1>2 DEF PageInv, PageOK, Fresh, ListInSync, page, list
<1>3. CASE \/ ServiceStep
           \/ \E r \in Readers :
                \/ \E id \in Ids : FileLookup(r, id)
                \/ \E ids \in SUBSET Ids : ArchiveLookup(r, ids)
                \/ ReadOpen(r) \/ ReadFails(r)
           \/ UNCHANGED fileVars
  BY <1>2, <1>3 DEF ServiceStep, FileLookup, ArchiveLookup, ReadOpen, ReadFails, fileVars
<1>4. ASSUME NEW force \in BOOLEAN, Refresh(force)
      PROVE  PageInv'
  BY <1>1, <1>4 DEF Refresh, PageInv, PageOK, Fresh, ListInSync
<1>5. CASE ListFiles
  BY <1>1, <1>5 DEF ListFiles, PageInv, PageOK, Fresh, ListInSync
<1>6. CASE ListArrives
  BY <1>1, <1>6 DEF ListArrives, PageInv, PageOK, Fresh, ListInSync
<1>7. CASE ListFails
  BY <1>1, <1>7 DEF ListFails, PageInv, PageOK, Fresh, ListInSync
<1>8. CASE (\E ids \in SUBSET Ids : OpenDialog(ids)) \/ CancelDialog
  BY <1>1, <1>8 DEF OpenDialog, CancelDialog, list, PageInv, PageOK, Fresh, ListInSync
<1>9. ASSUME NEW d \in Deletions, Confirm(d) \/ DeletionServed(d) \/ DeletionFailed(d)
      PROVE  PageInv'
  <2>1. UNCHANGED <<list, deleted>> /\ dialog' \in {dialog, {}}
    BY <1>9 DEF Confirm, DeletionServed, DeletionFailed
  <2>2. DeletionsOK(deleting')
    <3>1. CASE Confirm(d)
      <4>1. dialog \in (SUBSET Ids) \ {{}}
        BY <1>1, <3>1 DEF Confirm, PageOK
      <4> QED
        BY <1>1, <3>1, <4>1, DeletingFacts DEF Confirm
    <3>2. CASE DeletionServed(d)
      <4>1. d \in DOMAIN deleting
            /\ \E at \in {"done", "failed"} : deleting' = [deleting EXCEPT ![d].at = at]
        BY <3>2 DEF DeletionServed, Answered
      <4> QED
        BY <1>1, <4>1, DeletingFacts
    <3>3. CASE DeletionFailed(d)
      BY <1>1, <3>3, DeletingFacts DEF DeletionFailed
    <3> QED
      BY <1>9, <3>1, <3>2, <3>3
  <2> QED
    BY <1>1, <2>1, <2>2 DEF list, PageInv, PageOK, Fresh, ListInSync
<1>10. ASSUME NEW d \in Deletions, DeletionDone(d)
       PROVE  PageInv'
  <2>1. DeletionsOK(deleting')
    BY <1>1, <1>10, DeletingFacts DEF DeletionDone
  <2>2. /\ ~loaded' /\ loaded' \in BOOLEAN /\ stale' \in BOOLEAN /\ dialog' = {}
        /\ UNCHANGED <<files, answer>>
        /\ deleted' = deleted \cup (deleting[d].ids \cap (files \cup answer))
        /\ Reload
    BY <1>10 DEF DeletionDone
  <2>3. loading' \in {"asked", "overtaken", "no", "answered"} /\ loading' # "answered"
        /\ (loading' = "asked" => loading \in {"no", "asked"}) /\ loading' # "no"
    BY <1>1, <2>2 DEF Reload, PageOK
  <2>4. Fresh'
    BY <1>1, <2>2, <2>3 DEF Fresh
  <2> QED
    BY <1>1, <2>1, <2>2, <2>3, <2>4 DEF PageInv, PageOK, ListInSync
<1>11. CASE PageReload
  BY <1>11 DEF PageReload, Nothing, DeletionsOK, PageInv, PageOK, Fresh, ListInSync
<1> QED
  BY <1>3, <1>4, <1>5, <1>6, <1>7, <1>8, <1>9, <1>10, <1>11 DEF FileNext

----------------------------------------------------------------------------
(* The composition.                                                        *)

\* The inductive invariant: the store is sound, reads know what they were given and
\* have lost since, and the list is one the page has not outlived.
FileInv == StoreInv /\ ReadsInv /\ PageInv

LEMMA FileCorrect == FileSpec => []FileInv
<1>1. ASSUME FileInit
      PROVE  FileInv
  <2>1. StoreInv
    BY <1>1, InitTypes DEF FileInit, Init, StoreInv
  <2>2. ReadsInv
    BY <1>1 DEF FileInit, Nothing, ReadsInv, ReadsOK, Looked
  <2>3. PageInv
    BY <1>1 DEF FileInit, Nothing, DeletionsOK, PageInv, PageOK, Fresh, ListInSync
  <2> QED
    BY <2>1, <2>2, <2>3 DEF FileInv
<1>2. FileInv /\ [FileNext]_fileVars => FileInv'
  BY FileStore, FileReads, FilePage DEF FileInv, PageInv
<1> QED
  BY <1>1, <1>2, PTL DEF FileSpec

\* Every variable of the reads and of the page keeps its type.
THEOREM FileTypesCorrect == FileSpec => []FileTypeOK
<1>1. FileInv => FileTypeOK
  BY DEF FileInv, StoreInv, ReadsInv, ReadsOK, PageInv, PageOK, DeletionsOK, Fresh, FileTypeOK
<1> QED
  BY <1>1, FileCorrect, PTL

\* A read that misses an object on local storage lost it to a deletion or to expiry
\* after it had looked up the record: no lookup under the read lock finds a dead one.
THEOREM ReadsAreExplained == FileSpec => []ReadsExplained
<1>1. ASSUME FileInv
      PROVE  ReadsExplained
  <2>1. Durable /\ Looked
    BY <1>1, StoreParts DEF FileInv, ReadsInv
  <2> QED
    BY <2>1 DEF Durable, Looked, ReadsExplained
<1> QED
  BY <1>1, FileCorrect, PTL

\* A list that counts as loaded, and was not overtaken by a deletion of the page, shows
\* no file the page has been told to be deleted since.
THEOREM ListStaysInSync == FileSpec => []ListInSync
<1>1. FileInv => ListInSync
  BY DEF FileInv, PageInv
<1> QED
  BY <1>1, FileCorrect, PTL

----------------------------------------------------------------------------
(* The names of an archive, for archives of any length.                    *)

\* A set of natural numbers has a least element: what fails for some length fails
\* first for a shortest one.
LEMMA LeastNumber ==
  ASSUME NEW S \in SUBSET Nat, S # {}
  PROVE  \E m \in S : \A n \in S : m <= n
<1>1. PICK m \in S : \A n \in S : ~ (<<n, m>> \in OpToRel(<, Nat))
  BY NatLessThanWellFounded, WFMin
<1>2. ASSUME NEW n \in S
      PROVE  m <= n
  <2>1. m \in Nat /\ n \in Nat
    OBVIOUS
  <2>2. SUFFICES ASSUME n < m
                 PROVE  FALSE
    BY <2>1
  <2>3. <<n, m>> \in OpToRel(<, Nat)
    BY <2>1, <2>2 DEF OpToRel
  <2> QED
    BY <1>1, <2>3
<1> QED
  BY <1>2

\* The map of used names after i entries, from the one before.
Filled(f, names, i) == IF i = 0 THEN [x \in {} |-> 0] ELSE Count(f[i - 1], names[i])

\* f holds the maps after up to l entries.
Table(f, names, l) == f = [i \in 0 .. l |-> Filled(f, names, i)]

LEMMA TablesExist ==
  ASSUME NEW names, NEW l \in Nat
  PROVE  \E f : Table(f, names, l)
<1> DEFINE Missing == {k \in Nat : ~ \E f : Table(f, names, k)}
<1>1. SUFFICES ASSUME Missing # {}
               PROVE  FALSE
  OBVIOUS
<1>2. PICK m \in Missing : \A n \in Missing : m <= n
  <2> HIDE DEF Missing
  <2>1. Missing \in SUBSET Nat
    BY DEF Missing
  <2> QED
    BY <1>1, <2>1, LeastNumber
<1>3. m \in Nat /\ ~ \E f : Table(f, names, m)
  OBVIOUS
<1>4. CASE m = 0
  <2> DEFINE f == [i \in 0 .. 0 |-> [x \in {} |-> 0]]
  <2>1. Table(f, names, 0)
    BY DEF Table, Filled
  <2> QED
    BY <1>3, <1>4, <2>1
<1>5. CASE m > 0
  <2>1. m - 1 \in Nat /\ m - 1 < m
    BY <1>3, <1>5
  <2>2. m - 1 \notin Missing
    <3> HIDE DEF Missing
    <3> QED BY <1>2, <1>3, <2>1
  <2>3. PICK g : Table(g, names, m - 1)
    BY <2>1, <2>2
  <2> DEFINE f == [i \in 0 .. m |-> IF i = m THEN Count(g[m - 1], names[m]) ELSE g[i]]
  <2>4. ASSUME NEW i \in 0 .. m
        PROVE  f[i] = Filled(f, names, i)
    <3>1. CASE i = m
      <4>1. f[m - 1] = g[m - 1] /\ f[m] = Count(g[m - 1], names[m])
        BY <1>3, <2>1
      <4> HIDE DEF f
      <4> QED
        BY <1>5, <3>1, <4>1 DEF Filled
    <3>2. CASE i # m /\ i # 0
      <4>1. i \in 0 .. m - 1 /\ i - 1 \in 0 .. m - 1
        BY <1>3, <3>2
      <4>2. f[i] = g[i] /\ f[i - 1] = g[i - 1]
        BY <1>3, <4>1
      <4>3. g[i] = Count(g[i - 1], names[i])
        BY <2>3, <3>2, <4>1 DEF Table, Filled
      <4> HIDE DEF f
      <4> QED
        BY <3>2, <4>2, <4>3 DEF Filled
    <3>3. CASE i = 0
      <4>1. f[0] = g[0]
        BY <1>3, <1>5
      <4>2. g[0] = [x \in {} |-> 0]
        BY <2>1, <2>3 DEF Table, Filled
      <4> HIDE DEF f
      <4> QED
        BY <3>3, <4>1, <4>2 DEF Filled
    <3> QED
      BY <3>1, <3>2, <3>3
  <2>5. f = [i \in 0 .. m |-> f[i]]
    OBVIOUS
  <2>6. Table(f, names, m)
    <3> HIDE DEF f
    <3> QED
      BY <2>4, <2>5 DEF Table
  <2> QED
    BY <1>3, <2>6
<1> QED
  BY <1>3, <1>4, <1>5

\* So the recursion of Used means what it says.
LEMMA UsedFills ==
  ASSUME NEW names, Len(names) \in Nat
  PROVE  Table(Used(names), names, Len(names))
<1>1. Used(names) = CHOOSE f : Table(f, names, Len(names))
  BY DEF Used, Table, Filled
<1>2. \E f : Table(f, names, Len(names))
  BY TablesExist
<1> QED
  BY <1>1, <1>2

\* The first and the other maps, for names of one archive.
LEMMA UsedSteps ==
  ASSUME NEW names, Len(names) \in Nat, NEW u, u = Used(names)
  PROVE  /\ u[0] = [x \in {} |-> 0]
         /\ \A i \in 1 .. Len(names) : u[i] = Count(u[i - 1], names[i])
<1>1. Table(u, names, Len(names))
  BY UsedFills
<1>2. u[0] = [x \in {} |-> 0]
  BY <1>1 DEF Table, Filled
<1>3. ASSUME NEW i \in 1 .. Len(names)
      PROVE  u[i] = Count(u[i - 1], names[i])
  <2>1. i \in 0 .. Len(names) /\ i # 0
    OBVIOUS
  <2> QED
    BY <1>1, <2>1 DEF Table, Filled
<1> QED
  BY <1>2, <1>3

\* Count adds the name, and no count falls.
LEMMA CountFacts ==
  ASSUME NEW S, NEW k \in Nat, NEW f \in [S -> 1 .. k], NEW x
  PROVE  /\ Count(f, x) \in [S \cup {x} -> 1 .. k + 1]
         /\ \A y \in S : f[y] <= Count(f, x)[y]
<1>1. \A y \in S : f[y] \in 1 .. k
  OBVIOUS
<1>2. DOMAIN f = S
  OBVIOUS
<1> QED
  BY <1>1, <1>2 DEF Count

\* What the maps hold after i entries: of every name asked for so far, a count of no
\* more than i.
Asked(names, i) == {names[n] : n \in 1 .. i}

LEMMA UsedTypes ==
  ASSUME NEW names, Len(names) \in Nat, NEW u, u = Used(names)
  PROVE  \A i \in 0 .. Len(names) : u[i] \in [Asked(names, i) -> 1 .. i]
<1> DEFINE Untyped == {i \in 0 .. Len(names) : u[i] \notin [Asked(names, i) -> 1 .. i]}
<1>1. SUFFICES ASSUME Untyped # {}
               PROVE  FALSE
  OBVIOUS
<1>2. PICK m \in Untyped : \A n \in Untyped : m <= n
  <2>1. Untyped \in SUBSET Nat
    OBVIOUS
  <2> HIDE DEF Untyped
  <2> QED
    BY <1>1, <2>1, LeastNumber
<1>3. m \in 0 .. Len(names) /\ u[m] \notin [Asked(names, m) -> 1 .. m]
  OBVIOUS
<1>4. CASE m = 0
  <2>1. Asked(names, 0) = {}
    BY DEF Asked
  <2>2. u[0] = [x \in {} |-> 0]
    BY UsedSteps
  <2>3. [x \in {} |-> 0] \in [{} -> 1 .. 0]
    OBVIOUS
  <2> QED
    BY <1>3, <1>4, <2>1, <2>2, <2>3
<1>5. CASE m # 0
  <2>1. m \in 1 .. Len(names) /\ m - 1 \in 0 .. Len(names) /\ m - 1 \in Nat /\ ~ (m <= m - 1)
    BY <1>3, <1>5
  <2>2. m - 1 \notin Untyped
    <3> HIDE DEF Untyped
    <3> QED BY <1>2, <2>1
  <2>3. u[m - 1] \in [Asked(names, m - 1) -> 1 .. m - 1]
    BY <2>1, <2>2
  <2>4. u[m] = Count(u[m - 1], names[m])
    BY <2>1, UsedSteps
  <2>5. u[m] \in [Asked(names, m - 1) \cup {names[m]} -> 1 .. (m - 1) + 1]
    <3>1. PICK S, k, f, x : S = Asked(names, m - 1) /\ k = m - 1 /\ f = u[m - 1] /\ x = names[m]
      OBVIOUS
    <3>2. k \in Nat /\ f \in [S -> 1 .. k]
      BY <2>1, <2>3, <3>1
    <3>3. Count(f, x) \in [S \cup {x} -> 1 .. k + 1]
      BY <3>2, CountFacts
    <3> QED
      BY <2>4, <3>1, <3>3
  <2>6. Asked(names, m - 1) \cup {names[m]} = Asked(names, m)
    <3>1. 1 .. m = (1 .. m - 1) \cup {m}
      BY <2>1
    <3> QED
      BY <3>1 DEF Asked
  <2>7. (m - 1) + 1 = m
    BY <2>1
  <2> QED
    BY <1>3, <2>5, <2>6, <2>7
<1> QED
  BY <1>4, <1>5

\* Every name asked for is in the later maps, with a count that never falls.
LEMMA UsedGrows ==
  ASSUME NEW names, Len(names) \in Nat, NEW u, u = Used(names),
         NEW i \in 0 .. Len(names), NEW x \in Asked(names, i)
  PROVE  \A j \in i .. Len(names) : x \in Asked(names, j) /\ u[i][x] <= u[j][x]
<1> DEFINE Fallen == {j \in i .. Len(names) : ~ (u[i][x] <= u[j][x])}
<1>1. ASSUME NEW j \in i .. Len(names)
      PROVE  x \in Asked(names, j)
  <2>1. 1 .. i \subseteq 1 .. j
    OBVIOUS
  <2> QED
    BY <2>1 DEF Asked
<1>2. SUFFICES ASSUME Fallen # {}
               PROVE  FALSE
  BY <1>1
<1>3. PICK m \in Fallen : \A n \in Fallen : m <= n
  <2>1. Fallen \in SUBSET Nat
    OBVIOUS
  <2> HIDE DEF Fallen
  <2> QED
    BY <1>2, <2>1, LeastNumber
<1>4. m \in i .. Len(names) /\ ~ (u[i][x] <= u[m][x])
  OBVIOUS
<1>5. u[i][x] \in Int
  BY UsedTypes
<1>6. m # i
  BY <1>4, <1>5
<1>7. m - 1 \in i .. Len(names) /\ ~ (m <= m - 1) /\ m - 1 \in 0 .. Len(names) /\ m \in 1 .. Len(names)
      /\ m - 1 \in Nat
  BY <1>4, <1>6
<1>8. m - 1 \notin Fallen
  <2> HIDE DEF Fallen
  <2> QED BY <1>3, <1>7
<1>9. u[i][x] <= u[m - 1][x]
  BY <1>7, <1>8
<1>10. x \in Asked(names, m - 1) /\ u[m - 1] \in [Asked(names, m - 1) -> 1 .. m - 1]
  BY <1>1, <1>7, UsedTypes
<1>11. u[m - 1][x] <= u[m][x]
  <2>1. PICK S, k, f, y : S = Asked(names, m - 1) /\ k = m - 1 /\ f = u[m - 1] /\ y = names[m]
    OBVIOUS
  <2>2. k \in Nat /\ f \in [S -> 1 .. k] /\ x \in S
    BY <1>7, <1>10, <2>1
  <2>3. f[x] <= Count(f, y)[x]
    BY <2>2, CountFacts
  <2>4. u[m] = Count(f, y)
    BY <1>7, <2>1, UsedSteps
  <2> QED
    BY <2>1, <2>3, <2>4
<1>12. u[m - 1][x] \in Int /\ u[m][x] \in Int
  <2>1. x \in Asked(names, m) /\ u[m] \in [Asked(names, m) -> 1 .. m]
    BY <1>1, <1>4, <1>7, UsedTypes
  <2> QED
    BY <1>10, <2>1
<1> QED
  BY <1>4, <1>5, <1>9, <1>11, <1>12

\* A name and a counter are told from the name they make.
LEMMA NumberedTwice ==
  ASSUME NEW x, NEW y, NEW n \in Nat, NEW k \in Nat,
         x = <<x[1], x[2], x[3]>>, y = <<y[1], y[2], y[3]>>,
         x[2] \in Seq(Nat), y[2] \in Seq(Nat),
         Numbered(x, n) = Numbered(y, k)
  PROVE  x = y /\ n = k
<1>1. x[1] = y[1] /\ x[3] = y[3] /\ Append(x[2], n) = Append(y[2], k)
  BY DEF Numbered
<1>2. x[2] = y[2] /\ n = k
  BY <1>1, AppendInjective
<1> QED
  BY <1>1, <1>2

\* A name that has been used before is counted up, and stays above what its entry got.
LEMMA CountsUsedOnce ==
  ASSUME NEW names, Len(names) \in Nat, NEW u, u = Used(names),
         NEW i \in 1 .. Len(names), NEW j \in 1 .. Len(names), i < j,
         names[i] \in Asked(names, i - 1)
  PROVE  u[i - 1][names[i]] < u[j - 1][names[i]]
<1>1. i - 1 \in 0 .. Len(names) /\ i - 1 \in Nat /\ i \in 0 .. Len(names)
      /\ j - 1 \in i .. Len(names) /\ j - 1 \in 0 .. Len(names)
  OBVIOUS
<1>2. u[i - 1] \in [Asked(names, i - 1) -> 1 .. i - 1]
  BY <1>1, UsedTypes
<1>3. PICK S, k, f, x : S = Asked(names, i - 1) /\ k = i - 1 /\ f = u[i - 1] /\ x = names[i]
  OBVIOUS
<1>4. Count(f, x)[x] = f[x] + 1
  <2>1. k \in Nat
    BY <1>1, <1>3
  <2>2. f \in [S -> 1 .. k]
    BY <1>2, <1>3
  <2>3. x \in S
    BY <1>3
  <2> QED
    BY <1>2, <1>3, <2>1, <2>2, <2>3 DEF Count
<1>5. u[i] = Count(f, x)
  BY <1>3, UsedSteps
<1>6. x \in Asked(names, i)
  BY <1>3 DEF Asked
<1>7. x \in Asked(names, j - 1) /\ u[i][x] <= u[j - 1][x]
  BY <1>1, <1>6, UsedGrows
<1>8. u[i - 1][x] \in Int /\ u[j - 1][x] \in Int
  <2>1. u[j - 1] \in [Asked(names, j - 1) -> 1 .. j - 1]
    BY <1>1, UsedTypes
  <2> QED
    BY <1>2, <1>3, <1>7, <2>1
<1> QED
  BY <1>3, <1>4, <1>5, <1>7, <1>8

\* The name of an entry, from the map before it.
LEMMA EntryNames ==
  ASSUME NEW names, Len(names) \in Nat, DOMAIN names = 1 .. Len(names),
         NEW u, u = Used(names), NEW i \in 1 .. Len(names)
  PROVE  IF names[i] \in Asked(names, i - 1)
         THEN /\ ArchiveNames(names)[i] = Numbered(names[i], u[i - 1][names[i]])
              /\ u[i - 1][names[i]] \in 1 .. Len(names)
         ELSE ArchiveNames(names)[i] = names[i]
<1>1. i - 1 \in 0 .. Len(names) /\ 1 .. i - 1 \subseteq 1 .. Len(names)
  OBVIOUS
<1>2. u[i - 1] \in [Asked(names, i - 1) -> 1 .. i - 1]
  BY <1>1, UsedTypes
<1>3. DOMAIN u[i - 1] = Asked(names, i - 1)
  BY <1>2
<1>4. ArchiveNames(names)[i] = IF names[i] \in DOMAIN u[i - 1]
                               THEN Numbered(names[i], u[i - 1][names[i]]) ELSE names[i]
  BY DEF ArchiveNames
<1> QED
  BY <1>1, <1>2, <1>3, <1>4

\* Of two entries the later does not get the name of the earlier.
LEMMA LaterDiffers ==
  ASSUME NEW names, Len(names) \in Nat, DOMAIN names = 1 .. Len(names),
         \A n \in DOMAIN names : names[n] \in Names,
         \A i, j \in DOMAIN names : \A n \in 1 .. Len(names) : names[i] # Numbered(names[j], n),
         NEW i \in 1 .. Len(names), NEW j \in 1 .. Len(names), i < j
  PROVE  ArchiveNames(names)[i] # ArchiveNames(names)[j]
<1>1. PICK u : u = Used(names)
  OBVIOUS
<1>2. PICK x, y : x = names[i] /\ y = names[j]
  OBVIOUS
<1>3. /\ x = <<x[1], x[2], x[3]>> /\ x[2] \in Seq(Nat)
      /\ y = <<y[1], y[2], y[3]>> /\ y[2] \in Seq(Nat)
  BY <1>2, NamesAssumption
<1>4. x \in Asked(names, j - 1)
  <2>1. i \in 1 .. j - 1
    OBVIOUS
  <2> QED
    BY <1>2, <2>1 DEF Asked
<1>5. CASE x \in Asked(names, i - 1) /\ y \in Asked(names, j - 1)
  <2>1. PICK n, k : n = u[i - 1][x] /\ k = u[j - 1][y]
    OBVIOUS
  <2>2. /\ ArchiveNames(names)[i] = Numbered(x, n) /\ n \in 1 .. Len(names)
        /\ ArchiveNames(names)[j] = Numbered(y, k) /\ k \in 1 .. Len(names)
    BY <1>1, <1>2, <1>5, <2>1, EntryNames
  <2>3. SUFFICES ASSUME Numbered(x, n) = Numbered(y, k)
                 PROVE  FALSE
    BY <2>2
  <2>4. n \in Nat /\ k \in Nat
    BY <2>2
  <2>5. x = y /\ n = k
    BY <1>3, <2>3, <2>4, NumberedTwice
  <2>6. u[i - 1][x] < u[j - 1][x]
    BY <1>1, <1>2, <1>5, CountsUsedOnce
  <2> QED
    BY <2>1, <2>4, <2>5, <2>6
<1>6. CASE x \in Asked(names, i - 1) /\ y \notin Asked(names, j - 1)
  <2>1. PICK n : n = u[i - 1][x]
    OBVIOUS
  <2>2. /\ ArchiveNames(names)[i] = Numbered(x, n) /\ n \in 1 .. Len(names)
        /\ ArchiveNames(names)[j] = y
    BY <1>1, <1>2, <1>6, <2>1, EntryNames
  <2> QED
    BY <1>2, <2>2
<1>7. CASE x \notin Asked(names, i - 1) /\ y \in Asked(names, j - 1)
  <2>1. PICK k : k = u[j - 1][y]
    OBVIOUS
  <2>2. /\ ArchiveNames(names)[i] = x
        /\ ArchiveNames(names)[j] = Numbered(y, k) /\ k \in 1 .. Len(names)
    BY <1>1, <1>2, <1>7, <2>1, EntryNames
  <2> QED
    BY <1>2, <2>2
<1>8. CASE x \notin Asked(names, i - 1) /\ y \notin Asked(names, j - 1)
  <2>1. ArchiveNames(names)[i] = x /\ ArchiveNames(names)[j] = y
    BY <1>2, <1>8, EntryNames
  <2> QED
    BY <1>4, <1>8, <2>1
<1> QED
  BY <1>5, <1>6, <1>7, <1>8

\* For archives of any length: the entries have different names, unless a file was
\* uploaded under a name that archiveFiles makes for another.
THEOREM ArchivesDistinct ==
  ASSUME NEW names \in Seq(Names)
  PROVE  NamesDistinct(names)
<1>1. /\ Len(names) \in Nat /\ DOMAIN names = 1 .. Len(names)
      /\ \A n \in DOMAIN names : names[n] \in Names
  OBVIOUS
<1>2. SUFFICES ASSUME \A i, j \in DOMAIN names : \A n \in 1 .. Len(names) :
                         names[i] # Numbered(names[j], n)
               PROVE  IsInjective(ArchiveNames(names))
  BY DEF NamesDistinct
<1>3. DOMAIN ArchiveNames(names) = 1 .. Len(names)
  BY <1>1 DEF ArchiveNames
<1>4. ASSUME NEW i \in 1 .. Len(names), NEW j \in 1 .. Len(names), i < j
      PROVE  ArchiveNames(names)[i] # ArchiveNames(names)[j]
  BY <1>1, <1>2, <1>4, LaterDiffers
<1>5. ASSUME NEW i \in 1 .. Len(names), NEW j \in 1 .. Len(names), i # j
      PROVE  ArchiveNames(names)[i] # ArchiveNames(names)[j]
  <2>1. i < j \/ j < i
    BY <1>1, <1>5
  <2> QED
    BY <1>4, <2>1
<1> QED
  BY <1>3, <1>5 DEF IsInjective

\* While an archive is read its entries have different names, unless a file was
\* uploaded under a generated one.
THEOREM EntriesStayDistinct == FileSpec => []EntriesDistinct
<1>1. ASSUME NEW size \in 1 .. MaxEntries, NEW names \in [1 .. size -> Names]
      PROVE  NamesDistinct(names)
  <2>1. names \in Seq(Names)
    BY NamesAssumption
  <2> QED
    BY <2>1, ArchivesDistinct
<1>2. EntriesDistinct
  BY <1>1 DEF EntriesDistinct, ArchivesNamed
<1> QED
  BY <1>2, PTL
=============================================================================
