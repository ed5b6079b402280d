---------------------------- MODULE StoreProofs ----------------------------
(***************************************************************************)
(* Theorems of Service about the store, for every value of the constants:  *)
(* memory, index and disk agree, in spite of failing calls and crashes,    *)
(* and the answers given to clients stay true; the temp files stay within  *)
(* the disk budget, and a reservation is worth its bytes.                  *)
(***************************************************************************)
EXTENDS ServiceProofs

\* What the three properties say of an image of the store.
Sound(rec, orph, objs, idx) ==
  /\ orph \cap DOMAIN rec = {}
  /\ Driver = "local" =>
       /\ DOMAIN rec \subseteq objs
       /\ IsRestriction(rec, idx)
       /\ objs \subseteq DOMAIN rec \cup orph

SoundImage(m) == Sound(m.records, m.orphans, m.objects, m.index)

\* The inductive invariant: the store of a running service is sound.  A process
\* that is down remembers nothing, and reconcile makes a sound store of any disk.
StoreInv == TypeOK /\ (up => Sound(records, orphans, objects, index))

LEMMA StoreParts == StoreInv => OrphansDead /\ Durable /\ AllBytesAccounted
<1> SUFFICES ASSUME StoreInv
             PROVE  OrphansDead /\ Durable /\ AllBytesAccounted
  OBVIOUS
<1>1. up \in BOOLEAN
  BY DEF StoreInv, TypeOK
<1>2. CASE up
  BY <1>2 DEF StoreInv, Sound, OrphansDead, Durable, AllBytesAccounted
<1>3. CASE ~up
  <2>1. DOMAIN records = {} /\ orphans = {}
    BY <1>3 DEF StoreInv, TypeOK
  <2> QED
    BY <1>3, <2>1 DEF OrphansDead, Durable, AllBytesAccounted, IsRestriction
<1> QED
  BY <1>1, <1>2, <1>3

----------------------------------------------------------------------------
(* The expiry pass.                                                        *)

\* A sweep keeps the store sound, with all of its saves done or the last missing.
LEMMA SweptSound ==
  ASSUME NEW m \in Images, SoundImage(m), NEW done, NEW unsaved
  PROVE  SoundImage(Swept(m, done, unsaved))
<1> DEFINE saved == done \ unsaved
<1>1. /\ DOMAIN Drop(m.records, done) = (DOMAIN m.records) \ done
      /\ \A id \in (DOMAIN m.records) \ done : Drop(m.records, done)[id] = m.records[id]
  BY DropFacts DEF Images
<1>2. /\ DOMAIN Drop(m.records, saved) = (DOMAIN m.records) \ saved
      /\ \A id \in (DOMAIN m.records) \ saved : Drop(m.records, saved)[id] = m.records[id]
  <2> HIDE DEF saved
  <2> QED
    BY DropFacts DEF Images
<1> DEFINE s == Swept(m, done, unsaved)
<1>3. /\ s.records = Drop(m.records, done) /\ s.orphans = {}
      /\ s.objects = m.objects \ (m.orphans \cup done)
      /\ s.index = m.index \/ s.index = Drop(m.records, saved)
  BY DEF Swept
<1> HIDE DEF s
<1>4. (DOMAIN m.records) \ done \subseteq (DOMAIN m.records) \ saved
  OBVIOUS
<1> HIDE DEF saved
<1>5. ASSUME Driver = "local"
      PROVE  /\ DOMAIN s.records \subseteq s.objects
             /\ IsRestriction(s.records, s.index)
             /\ s.objects \subseteq DOMAIN s.records \cup s.orphans
  <2>1. /\ m.orphans \cap DOMAIN m.records = {} /\ DOMAIN m.records \subseteq m.objects
        /\ IsRestriction(m.records, m.index)
        /\ m.objects \subseteq DOMAIN m.records \cup m.orphans
    BY <1>5 DEF SoundImage, Sound
  <2>2. IsRestriction(Drop(m.records, done), m.index)
    BY <1>1, <2>1 DEF IsRestriction
  <2>3. IsRestriction(Drop(m.records, done), Drop(m.records, saved))
    BY <1>1, <1>2, <1>4 DEF IsRestriction
  <2> QED
    BY <1>1, <1>3, <2>1, <2>2, <2>3
<1> QED
  BY <1>3, <1>5 DEF SoundImage, Sound, s

\* With local storage a failing Delete leaves every object.
LEMMA LocalFailedDelete ==
  ASSUME Driver = "local", NEW objs, NEW keys, NEW left \in AfterFailedDelete(objs, keys)
  PROVE  left = objs
BY DEF AfterFailedDelete

\* cleanupLocked keeps the store sound, wherever it fails.
LEMMA CleanupSound ==
  ASSUME NEW m \in Images, SoundImage(m), NEW n \in Outcomes(m)
  PROVE  SoundImage(n)
<1>1. CASE n = Cleaned(m)
  BY <1>1, SweptSound DEF Cleaned
<1>2. CASE n \in OrphanFailures(m)
  <2>0. PICK done \in SUBSET m.orphans :
          \E left \in AfterFailedDelete(m.objects \ done, m.orphans \ done) :
            n = [m EXCEPT !.orphans = @ \ done, !.objects = left]
    BY <1>2 DEF OrphanFailures
  <2>1. PICK left \in AfterFailedDelete(m.objects \ done, m.orphans \ done) :
          n = [m EXCEPT !.orphans = @ \ done, !.objects = left]
    BY <2>0
  <2>2. /\ n.records = m.records /\ n.orphans = m.orphans \ done
        /\ n.objects = left /\ n.index = m.index
    BY <2>1 DEF Images
  <2>3. Driver = "local" => left = m.objects \ done
    BY LocalFailedDelete
  <2> QED
    BY <2>2, <2>3 DEF SoundImage, Sound
<1>3. CASE n \in DeleteFailures(m)
  <2>0. PICK done \in SUBSET Expired(m.records) :
          \E left \in AfterFailedDelete(m.objects \ (m.orphans \cup done),
                                        Expired(m.records) \ done) :
            n = [Swept(m, done, {}) EXCEPT !.objects = left]
    BY <1>3 DEF DeleteFailures
  <2>1. PICK left \in AfterFailedDelete(m.objects \ (m.orphans \cup done),
                                        Expired(m.records) \ done) :
          n = [Swept(m, done, {}) EXCEPT !.objects = left]
    BY <2>0
  <2> DEFINE s == Swept(m, done, {})
  <2>2. s \in Images /\ SoundImage(s) /\ s.objects = m.objects \ (m.orphans \cup done)
    BY SweptFacts, SweptSound
  <2>3. Driver = "local" => left = s.objects
    BY <2>2, LocalFailedDelete
  <2>4. n = [s EXCEPT !.objects = left]
    BY <2>1
  <2> HIDE DEF s
  <2>5. /\ n.records = s.records /\ n.orphans = s.orphans
        /\ n.objects = left /\ n.index = s.index
    BY <2>2, <2>4 DEF Images
  <2> QED
    BY <2>2, <2>3, <2>5 DEF SoundImage, Sound
<1>4. CASE n \in SaveFailures(m)
  <2>1. PICK done \in SUBSET Expired(m.records) : \E last \in done : n = Swept(m, done, {last})
    BY <1>4 DEF SaveFailures
  <2>2. PICK last \in done : n = Swept(m, done, {last})
    BY <2>1
  <2> DEFINE unsaved == {last}
  <2>3. n = Swept(m, done, unsaved)
    BY <2>2
  <2> HIDE DEF unsaved
  <2> QED
    BY <2>3, SweptSound
<1> QED
  BY <1>1, <1>2, <1>3, <1>4 DEF Outcomes, CleanupFailures

\* The pass inside a handler, failing or not.
LEMMA SweepSound ==
  ASSUME StoreInv, up, CleanupSucceeds \/ CleanupFails
  PROVE  Sound(records, orphans, objects, index)'
<1>1. PICK n \in Outcomes(Image) : Install(n)
  BY DEF CleanupSucceeds, CleanupFails, Outcomes
<1>2. Image \in Images /\ SoundImage(Image)
  BY ImageFacts DEF StoreInv, SoundImage
<1>3. SoundImage(n)
  BY <1>1, <1>2, CleanupSound
<1> QED
  BY <1>1, <1>3 DEF Install, SoundImage, Sound

----------------------------------------------------------------------------
(* Uploads.                                                                *)

\* persist keeps the store sound, however it ends: a new content becomes a record,
\* an object and an index entry together, or an orphan, or nothing.
LEMMA ContentSound ==
  ASSUME StoreInv, up, NEW id \in Ids, NEW reserved, NEW how \in PersistEnds,
         Persist(id, reserved, Cleaned(Image), how)
  PROVE  Sound(records, orphans, objects, index)'
<1> DEFINE m == Cleaned(Image)
           New == id \notin DOMAIN m.records /\ Fits(id, reserved, m)
<1>1. m \in Images /\ SoundImage(m)
  <2>1. Image \in Images /\ SoundImage(Image)
    BY ImageFacts DEF StoreInv, SoundImage
  <2> QED
    BY <2>1, CleanupShrinks, CleanupSound DEF Outcomes, Shrinks
<1>2. DOMAIN Created(m.records, id) = DOMAIN m.records \cup {id}
  BY DEF Created
<1> HIDE DEF m
<1>3. CASE Install(m)
  BY <1>1, <1>3 DEF Install, SoundImage, Sound
<1>4. CASE Install([m EXCEPT !.records = Created(@, id), !.index = Created(m.records, id),
                             !.orphans = @ \ {id}, !.objects = @ \cup {id}])
  <2>1. /\ records' = Created(m.records, id) /\ index' = Created(m.records, id)
        /\ orphans' = m.orphans \ {id} /\ objects' = m.objects \cup {id}
    BY <1>1, <1>4 DEF Install, Images
  <2>2. IsRestriction(records', index')
    BY <2>1 DEF IsRestriction
  <2> QED
    BY <1>1, <1>2, <2>1, <2>2 DEF SoundImage, Sound
<1>5. ASSUME NEW left \in AfterFailedPut(m.objects, id),
             Install([m EXCEPT !.objects = left])
      PROVE  Sound(records, orphans, objects, index)'
  <2>1. /\ records' = m.records /\ index' = m.index
        /\ orphans' = m.orphans /\ objects' = left
    BY <1>1, <1>5 DEF Install, Images
  <2>2. Driver = "local" => left = m.objects
    BY DEF AfterFailedPut
  <2> QED
    BY <1>1, <2>1, <2>2 DEF SoundImage, Sound
<1>6. CASE New /\ Install([m EXCEPT !.objects = @ \ {id}])
  <2>1. /\ records' = m.records /\ index' = m.index
        /\ orphans' = m.orphans /\ objects' = m.objects \ {id}
    BY <1>1, <1>6 DEF Install, Images
  <2> QED
    BY <1>1, <1>6, <2>1 DEF SoundImage, Sound
<1>7. ASSUME New, NEW left \in AfterFailedDelete(m.objects \cup {id}, {id}),
             Install([m EXCEPT !.objects = left, !.orphans = @ \cup {id}])
      PROVE  Sound(records, orphans, objects, index)'
  <2>1. /\ records' = m.records /\ index' = m.index
        /\ orphans' = m.orphans \cup {id} /\ objects' = left
    BY <1>1, <1>7 DEF Install, Images
  <2>2. Driver = "local" => left = m.objects \cup {id}
    BY LocalFailedDelete
  <2> QED
    BY <1>1, <1>7, <2>1, <2>2 DEF SoundImage, Sound
<1> QED
  BY <1>3, <1>4, <1>5, <1>6, <1>7 DEF Persist, m

LEMMA PersistSound ==
  ASSUME StoreInv, up, NEW u \in Uploads, UploadPersist(u)
  PROVE  Sound(records, orphans, objects, index)'
<1>1. content[u] \in Ids
  BY DEF StoreInv, TypeOK, UploadPersist, PersistEnds
<1> QED
  BY <1>1, ContentSound, SweepSound DEF UploadPersist

----------------------------------------------------------------------------
(* Deletion.                                                               *)

\* Records removed with their objects, the index left or saved: the store is sound,
\* whether the ids become orphans or not.
LEMMA RemovalSound ==
  ASSUME StoreInv, up, NEW done \in SUBSET DOMAIN records,
         records' = Drop(records, done),
         orphans' \in {orphans, orphans \cup done},
         Driver = "local" => objects' = objects \ done,
         index' \in {index, Drop(records, done)}
  PROVE  Sound(records, orphans, objects, index)'
<1>1. /\ orphans \cap DOMAIN records = {}
      /\ Driver = "local" => /\ DOMAIN records \subseteq objects
                             /\ IsRestriction(records, index)
                             /\ objects \subseteq DOMAIN records \cup orphans
  BY DEF StoreInv, Sound
<1>2. /\ DOMAIN Drop(records, done) = (DOMAIN records) \ done
      /\ \A id \in (DOMAIN records) \ done : Drop(records, done)[id] = records[id]
  BY DropFacts DEF StoreInv, TypeOK
<1>3. Driver = "local" => IsRestriction(records', index')
  BY <1>1, <1>2 DEF IsRestriction
<1> QED
  BY <1>1, <1>2, <1>3 DEF Sound

LEMMA DeletionSound ==
  ASSUME StoreInv,
         \/ \E id \in Ids : DeleteFile(id)
         \/ \E ids \in SUBSET Ids : BatchDelete(ids)
  PROVE  up /\ Sound(records, orphans, objects, index)'
<1>0. /\ Image.records = records /\ Image.orphans = orphans
      /\ Image.objects = objects /\ Image.index = index /\ Image \in Images
  BY ImageFacts DEF StoreInv
<1>1. up
  BY DEF DeleteFile, BatchDelete
<1>2. ASSUME NEW left, Driver = "local" => left = objects,
             Install([Image EXCEPT !.objects = left])
      PROVE  Sound(records, orphans, objects, index)'
  BY <1>1, <1>2 DEF Install, Image, StoreInv, Sound
<1>3. ASSUME NEW id \in Ids, DeleteFile(id)
      PROVE  Sound(records, orphans, objects, index)'
  <2> DEFINE one == {id}
  <2>1. one \in SUBSET DOMAIN records
    BY <1>3 DEF DeleteFile
  <2>2. CASE Install([Image EXCEPT !.records = Drop(@, one), !.objects = @ \ one,
                                   !.index = Drop(records, one)])
    <3>1. /\ records' = Drop(records, one) /\ orphans' = orphans
          /\ objects' = objects \ one /\ index' = Drop(records, one)
      BY <2>2 DEF Install, Image
    <3> HIDE DEF one
    <3> QED
      BY <1>1, <2>1, <3>1, RemovalSound
  <2>3. CASE \E left \in AfterFailedDelete(objects, one) :
               Install([Image EXCEPT !.objects = left])
    <3>1. PICK left \in AfterFailedDelete(objects, one) :
            Install([Image EXCEPT !.objects = left])
      BY <2>3
    <3>2. Driver = "local" => left = objects
      BY LocalFailedDelete
    <3> QED
      BY <1>2, <3>1, <3>2
  <2>4. CASE Install([Image EXCEPT !.records = Drop(@, one), !.objects = @ \ one,
                                   !.orphans = @ \cup one])
    <3>1. /\ records' = Drop(records, one) /\ orphans' = orphans \cup one
          /\ objects' = objects \ one /\ index' = index
      BY <2>4 DEF Install, Image
    <3> HIDE DEF one
    <3> QED
      BY <1>1, <2>1, <3>1, RemovalSound
  <2> QED
    BY <1>3, <2>2, <2>3, <2>4 DEF DeleteFile
<1>4. ASSUME NEW ids \in SUBSET Ids, BatchDelete(ids)
      PROVE  Sound(records, orphans, objects, index)'
  <2> DEFINE hits == ids \cap DOMAIN records
             Without(done) == [Image EXCEPT !.records = Drop(@, done), !.objects = @ \ done]
  <2>1. hits \in SUBSET DOMAIN records
    OBVIOUS
  <2> HIDE DEF hits
  <2>2. CASE Install([Without(hits) EXCEPT !.index = Drop(records, hits)])
    <3>1. /\ records' = Drop(records, hits) /\ orphans' = orphans
          /\ objects' = objects \ hits /\ index' = Drop(records, hits)
      BY <2>2 DEF Install, Image
    <3> QED
      BY <1>1, <2>1, <3>1, RemovalSound
  <2>3. CASE \E done \in (SUBSET hits) \ {hits} :
             \E left \in AfterFailedDelete(objects \ done, hits \ done) :
               Install([Without(done) EXCEPT !.objects = left, !.orphans = @ \cup done])
    <3>1. PICK done \in SUBSET hits :
            \E left \in AfterFailedDelete(objects \ done, hits \ done) :
              Install([Without(done) EXCEPT !.objects = left, !.orphans = @ \cup done])
      BY <2>3
    <3>2. PICK left \in AfterFailedDelete(objects \ done, hits \ done) :
            Install([Without(done) EXCEPT !.objects = left, !.orphans = @ \cup done])
      BY <3>1
    <3>3. Driver = "local" => left = objects \ done
      BY LocalFailedDelete
    <3>4. /\ records' = Drop(records, done) /\ orphans' = orphans \cup done
          /\ objects' = left /\ index' = index
      BY <3>2 DEF Install, Image
    <3> QED
      BY <1>1, <2>1, <3>3, <3>4, RemovalSound
  <2>4. CASE Install([Without(hits) EXCEPT !.orphans = @ \cup hits])
    <3>1. /\ records' = Drop(records, hits) /\ orphans' = orphans \cup hits
          /\ objects' = objects \ hits /\ index' = index
      BY <2>4 DEF Install, Image
    <3> QED
      BY <1>1, <2>1, <3>1, RemovalSound
  <2> QED
    BY <1>4, <2>2, <2>3, <2>4 DEF BatchDelete, hits
<1> QED
  BY <1>1, <1>3, <1>4

----------------------------------------------------------------------------
(* Startup, and the theorems.                                              *)

\* A start makes the store sound whatever is on disk.
LEMMA StartSound ==
  ASSUME TypeOK, Boot
  PROVE  Sound(records, orphans, objects, index)'
<1>1. Reconciled \in Images
  BY ReconciledFacts
<1>2. /\ Reconciled.records = Survivors /\ Reconciled.index = Survivors
      /\ Reconciled.orphans = {} /\ Reconciled.objects = objects \cap DOMAIN index
  BY DEF Reconciled
<1>3. DOMAIN Survivors = (DOMAIN index) \cap objects
  BY DEF Survivors, Restrict
<1>4. SoundImage(Reconciled)
  BY <1>2, <1>3 DEF SoundImage, Sound, IsRestriction
<1>5. SoundImage(Cleaned(Reconciled)) /\ Install(Cleaned(Reconciled))
  BY <1>1, <1>4, CleanupSound DEF Outcomes, Boot
<1> QED
  BY <1>5 DEF Install, SoundImage, Sound

LEMMA NextStore ==
  ASSUME StoreInv, [Next]_vars
  PROVE  StoreInv'
<1>1. TypeOK /\ TypeOK'
  BY NextTypes DEF StoreInv
<1>2. CASE UNCHANGED <<records, orphans, objects, index, up>>
  BY <1>1, <1>2 DEF StoreInv, Sound
<1>3. ASSUME NEW u \in Uploads, UploadReserve(u)
      PROVE  StoreInv'
  BY <1>1, <1>3, SweepSound DEF UploadReserve, StoreInv
<1>4. ASSUME NEW u \in Uploads, UploadPersist(u)
      PROVE  StoreInv'
  BY <1>1, <1>4, PersistSound DEF UploadPersist, StoreInv
<1>5. ASSUME NEW u \in Uploads,
             \/ UploadRefused(u) \/ UploadReceive(u) \/ UploadReject(u)
             \/ UploadRemoveTemp(u) \/ UploadRelease(u)
      PROVE  UNCHANGED <<records, orphans, objects, index, up>>
  BY <1>5 DEF UploadRefused, UploadReceive, UploadReject, UploadRemoveTemp, UploadRelease,
              durable, memory
<1>6. CASE \/ \E id \in Ids : DeleteFile(id)
           \/ \E ids \in SUBSET Ids : BatchDelete(ids)
  BY <1>1, <1>6, DeletionSound DEF StoreInv
<1>7. CASE CleanupTick
  BY <1>1, <1>7, SweepSound DEF CleanupTick, StoreInv
<1>8. CASE Crash
  BY <1>1, <1>8 DEF Crash, StoreInv
<1>9. CASE Start
  BY <1>1, <1>9, StartSound DEF StoreInv, Start
<1>10. CASE StartFails
  BY <1>1, <1>10 DEF StartFails, ReconcileFails, FirstCleanupFails, memory, StoreInv
<1>11. CASE Tick \/ Stabilize \/ UNCHANGED vars
  BY <1>2, <1>11 DEF Tick, Stabilize, vars, durable, memory
<1> QED
  BY <1>2, <1>3, <1>4, <1>5, <1>6, <1>7, <1>8, <1>9, <1>10, <1>11 DEF Next, UploadStep

\* The store of a running service is sound in every reachable state.
THEOREM StoreCorrect == Spec => []StoreInv
<1>1. Init => StoreInv
  BY InitTypes DEF Init, StoreInv
<1>2. StoreInv /\ [Next]_vars => StoreInv'
  BY NextStore
<1> QED
  BY <1>1, <1>2, PTL DEF Spec

\* A live file is never an orphan: the orphan pass of cleanupLocked deletes no bytes
\* of a record.
THEOREM OrphansAreDead == Spec => []OrphansDead
<1>1. StoreInv => OrphansDead
  BY StoreParts
<1> QED
  BY <1>1, StoreCorrect, PTL

\* With local storage every record has its object and its index entry on disk,
\* after any sequence of failing calls: a crash loses no acknowledged upload.
THEOREM RecordsAreDurable == Spec => []Durable
<1>1. StoreInv => Durable
  BY StoreParts
<1> QED
  BY <1>1, StoreCorrect, PTL

\* With local storage every stored object is a record or a known orphan, so that
\* usedBytesLocked counts every byte.
THEOREM BytesAreAccounted == Spec => []AllBytesAccounted
<1>1. StoreInv => AllBytesAccounted
  BY StoreParts
<1> QED
  BY <1>1, StoreCorrect, PTL

----------------------------------------------------------------------------
(* The answers given to clients.                                           *)

\* Enough for a running service with a sound store.
LEMMA AnswersFrom ==
  ASSUME Sound(records, orphans, objects, index)',
         \A id \in Ids :
           /\ told'[id] = "gone" => id \notin DOMAIN records' \cup DOMAIN index'
           /\ told'[id] = "kept" /\ Driver = "local" => id \in DOMAIN records'
  PROVE  AnswersHold'
BY DEF AnswersHold, Sound, IsRestriction

\* What held before and was not forgotten holds of a step that only removes.
LEMMA AnswersKept ==
  ASSUME AnswersHold, up, Sound(records, orphans, objects, index)',
         DOMAIN records' \subseteq DOMAIN records,
         index' = index \/ DOMAIN index' \subseteq DOMAIN records,
         told' = Forget(DOMAIN records \ DOMAIN records')
  PROVE  AnswersHold'
<1>1. ASSUME NEW id \in Ids
      PROVE  /\ told'[id] = "gone" => id \notin DOMAIN records' \cup DOMAIN index'
             /\ told'[id] = "kept" /\ Driver = "local" => id \in DOMAIN records'
  BY <1>1 DEF AnswersHold, Forget
<1> QED
  BY <1>1, AnswersFrom

\* The expiry pass ends only the promises of the files it removes.
LEMMA SweepAnswers ==
  ASSUME StoreInv, AnswersHold, up, CleanupSucceeds \/ CleanupFails
  PROVE  AnswersHold'
<1>1. told' = Forget(DOMAIN records \ DOMAIN records')
  <2>1. PICK n \in Outcomes(Image) :
          Install(n) /\ told' = Forget(DOMAIN records \ DOMAIN n.records)
    BY DEF CleanupSucceeds, CleanupFails, Outcomes
  <2> QED
    BY <2>1 DEF Install
<1> QED
  BY <1>1, SweepFacts, SweepSound, AnswersKept DEF StoreInv

\* persist promises the content it has stored or found, and ends no other promise
\* than those of the files that expire.
LEMMA ContentAnswers ==
  ASSUME StoreInv, AnswersHold, up, NEW id \in Ids, NEW reserved, NEW how \in PersistEnds,
         Persist(id, reserved, Cleaned(Image), how)
  PROVE  AnswersHold'
<1> DEFINE m == Cleaned(Image)
           kept == Forget(DOMAIN records \ DOMAIN m.records)
<1>1. Shrinks(Image, m)
  BY ImageFacts, CleanupShrinks DEF StoreInv, Outcomes
<1>2. /\ m \in Images /\ DOMAIN m.records \subseteq DOMAIN records
      /\ m.index = index \/ DOMAIN m.index \subseteq DOMAIN records
  BY <1>1, ImageFacts DEF Shrinks, StoreInv
<1>3. Sound(records, orphans, objects, index)'
  BY ContentSound
<1>4. DOMAIN Created(m.records, id) = DOMAIN m.records \cup {id}
  BY DEF Created
<1>5. \A x \in Ids :
        /\ kept[x] = "gone" => x \notin DOMAIN m.records \cup DOMAIN m.index
        /\ kept[x] = "kept" /\ Driver = "local" => x \in DOMAIN m.records
  <2> HIDE DEF m
  <2> QED
    BY <1>2 DEF AnswersHold, Forget
<1>6. kept = [x \in Ids |-> kept[x]]
  BY DEF Forget
<1> HIDE DEF kept, m
<1>7. CASE told' = kept /\ records' = m.records /\ index' = m.index
  BY <1>3, <1>5, <1>7, AnswersFrom
<1>8. CASE /\ id \in DOMAIN m.records /\ told' = [kept EXCEPT ![id] = "kept"]
           /\ records' = m.records /\ index' = m.index
  <2>1. \A x \in Ids : told'[x] = IF x = id THEN "kept" ELSE kept[x]
    BY <1>6, <1>8
  <2> QED
    BY <1>3, <1>5, <1>8, <2>1, AnswersFrom
<1>9. CASE /\ told' = [kept EXCEPT ![id] = "kept"]
           /\ records' = Created(m.records, id) /\ index' = Created(m.records, id)
  <2>1. \A x \in Ids : told'[x] = IF x = id THEN "kept" ELSE kept[x]
    BY <1>6, <1>9
  <2> QED
    BY <1>3, <1>4, <1>5, <1>9, <2>1, AnswersFrom
<1> QED
  BY <1>2, <1>7, <1>8, <1>9 DEF Persist, Install, Images, m, kept

LEMMA PersistAnswers ==
  ASSUME StoreInv, AnswersHold, up, NEW u \in Uploads, UploadPersist(u)
  PROVE  AnswersHold'
<1>1. content[u] \in Ids
  BY DEF StoreInv, TypeOK, UploadPersist, PersistEnds
<1> QED
  BY <1>1, ContentAnswers, SweepAnswers DEF UploadPersist

\* A deletion speaks only of the files it was asked for, and keeps its word.
LEMMA DeletionAnswers ==
  ASSUME StoreInv, AnswersHold,
         \/ \E id \in Ids : DeleteFile(id)
         \/ \E ids \in SUBSET Ids : BatchDelete(ids)
  PROVE  AnswersHold'
<1>1. up /\ Sound(records, orphans, objects, index)'
  BY DeletionSound
<1>2. records \in Indexes
  BY DEF StoreInv, TypeOK
<1>3. ASSUME NEW hits \in SUBSET DOMAIN records, NEW what \in {"none", "gone"},
             told' = Tell(hits, what),
             (DOMAIN records) \ hits \subseteq DOMAIN records',
             DOMAIN records' \subseteq DOMAIN records,
             index' = index \/ DOMAIN index' \subseteq DOMAIN records,
             what = "gone" => /\ records' = Drop(records, hits)
                              /\ index' = Drop(records, hits)
      PROVE  AnswersHold'
  <2>1. DOMAIN Drop(records, hits) = (DOMAIN records) \ hits
    BY <1>2, DropFacts
  <2>2. ASSUME NEW id \in Ids
        PROVE  /\ told'[id] = "gone" => id \notin DOMAIN records' \cup DOMAIN index'
               /\ told'[id] = "kept" /\ Driver = "local" => id \in DOMAIN records'
    <3>1. told'[id] = IF id \in hits THEN what ELSE told[id]
      BY <1>3, <2>2 DEF Tell
    <3>2. CASE id \in hits
      BY <1>3, <2>1, <3>1, <3>2
    <3>3. CASE id \notin hits
      BY <1>1, <1>3, <3>1, <3>3 DEF AnswersHold
    <3> QED
      BY <3>2, <3>3
  <2> QED
    BY <1>1, <2>2, AnswersFrom
<1>4. \A S : DOMAIN Drop(records, S) = (DOMAIN records) \ S
  BY <1>2, DropFacts
<1>5. ASSUME NEW id \in Ids, DeleteFile(id)
      PROVE  AnswersHold'
  <2> DEFINE one == {id}
  <2>1. one \in SUBSET DOMAIN records
    BY <1>5 DEF DeleteFile
  <2>2. \/ /\ told' = Tell(one, "gone")
           /\ records' = Drop(records, one) /\ index' = Drop(records, one)
        \/ /\ told' = Tell(one, "none")
           /\ records' = records \/ records' = Drop(records, one)
           /\ index' = index
    BY <1>5 DEF DeleteFile, Install, Image
  <2> HIDE DEF one
  <2> QED
    BY <1>3, <1>4, <2>1, <2>2
<1>6. ASSUME NEW ids \in SUBSET Ids, BatchDelete(ids)
      PROVE  AnswersHold'
  <2> DEFINE hits == ids \cap DOMAIN records
  <2>1. hits \in SUBSET DOMAIN records
    OBVIOUS
  <2>2. \/ /\ told' = Tell(hits, "gone")
           /\ records' = Drop(records, hits) /\ index' = Drop(records, hits)
        \/ /\ told' = Tell(hits, "none") /\ index' = index
           /\ \E done \in SUBSET hits : records' = Drop(records, done)
    BY <1>6 DEF BatchDelete, Install, Image
  <2> HIDE DEF hits
  <2> QED
    BY <1>3, <1>4, <2>1, <2>2
<1> QED
  BY <1>5, <1>6

\* A start brings back what was promised, and nothing that was confirmed as deleted.
LEMMA StartAnswers ==
  ASSUME StoreInv, AnswersHold, Boot \/ StartFails
  PROVE  AnswersHold'
<1>1. TypeOK
  BY DEF StoreInv
<1>2. DOMAIN index' \subseteq DOMAIN index /\ DOMAIN records' \subseteq DOMAIN index
  BY <1>1, StartFacts
<1>3. /\ DOMAIN Survivors = (DOMAIN index) \cap objects
      /\ Reconciled.records = Survivors /\ Reconciled.index = Survivors
      /\ Reconciled.orphans = {} /\ Reconciled.objects = objects \cap DOMAIN index
  BY DEF Survivors, Restrict, Reconciled
<1>4. Reconciled \in Images /\ SoundImage(Reconciled)
  <2>1. SoundImage(Reconciled)
    BY <1>3 DEF SoundImage, Sound, IsRestriction
  <2> QED
    BY <1>1, <2>1, ReconciledFacts
<1>5. CASE Boot
  <2>1. Sound(records, orphans, objects, index)'
    BY <1>1, <1>5, StartSound
  <2>2. told' = Forget(Expired(Survivors)) /\ Install(Cleaned(Reconciled))
    BY <1>5 DEF Boot
  <2>3. DOMAIN records' = DOMAIN Survivors \ Expired(Survivors)
    BY <1>3, <1>4, <2>2, SweptFacts DEF Install, Cleaned
  <2>4. ASSUME NEW id \in Ids
        PROVE  /\ told'[id] = "gone" => id \notin DOMAIN records' \cup DOMAIN index'
               /\ told'[id] = "kept" /\ Driver = "local" => id \in DOMAIN records'
    BY <1>2, <1>3, <2>2, <2>3, <2>4 DEF AnswersHold, Forget
  <2> QED
    BY <2>1, <2>4, AnswersFrom
<1>6. CASE ReconcileFails
  <2>1. /\ index' = index /\ told' = told /\ UNCHANGED <<up, records>> /\ ~up
        /\ objects \cap DOMAIN index \subseteq objects'
    BY <1>6 DEF ReconcileFails, memory
  <2> QED
    BY <2>1 DEF AnswersHold
<1>7. CASE FirstCleanupFails
  <2>1. PICK m \in CleanupFailures(Reconciled) :
          /\ objects' = m.objects /\ index' = m.index
          /\ told' = Forget(DOMAIN Survivors \ DOMAIN m.records)
    BY <1>7 DEF FirstCleanupFails
  <2>2. SoundImage(m)
    BY <1>4, <2>1, CleanupSound DEF Outcomes
  <2>3. ~up /\ UNCHANGED <<up, records>>
    BY <1>7 DEF FirstCleanupFails, memory
  <2>4. ASSUME NEW id \in Ids
        PROVE  /\ told'[id] = "gone" => id \notin DOMAIN records' \cup DOMAIN index'
               /\ told'[id] = "kept" /\ Driver = "local" =>
                    id \in objects' \cap DOMAIN index'
    <3>1. told'[id] = IF id \in DOMAIN Survivors \ DOMAIN m.records THEN "none" ELSE told[id]
      BY <2>1, <2>4 DEF Forget
    <3>2. told'[id] = "gone" => id \notin DOMAIN records' \cup DOMAIN index'
      BY <1>2, <3>1 DEF AnswersHold
    <3>3. told'[id] = "kept" /\ Driver = "local" => id \in DOMAIN m.records
      BY <1>3, <3>1 DEF AnswersHold
    <3> QED
      BY <2>1, <2>2, <3>2, <3>3 DEF SoundImage, Sound, IsRestriction
  <2> QED
    BY <2>3, <2>4 DEF AnswersHold
<1> QED
  BY <1>5, <1>6, <1>7 DEF StartFails

LEMMA NextAnswers ==
  ASSUME StoreInv, AnswersHold, [Next]_vars
  PROVE  AnswersHold'
<1>1. CASE UNCHANGED <<records, objects, index, up, told>>
  BY <1>1 DEF AnswersHold
<1>2. ASSUME NEW u \in Uploads, UploadReserve(u)
      PROVE  AnswersHold'
  BY <1>2, SweepAnswers DEF UploadReserve
<1>3. ASSUME NEW u \in Uploads, UploadPersist(u)
      PROVE  AnswersHold'
  <2>1. up
    BY <1>3 DEF StoreInv, TypeOK, UploadPersist
  <2> QED
    BY <1>3, <2>1, PersistAnswers
<1>4. ASSUME NEW u \in Uploads,
             \/ UploadRefused(u) \/ UploadReceive(u) \/ UploadReject(u)
             \/ UploadRemoveTemp(u) \/ UploadRelease(u)
      PROVE  UNCHANGED <<records, objects, index, up, told>>
  BY <1>4 DEF UploadRefused, UploadReceive, UploadReject, UploadRemoveTemp, UploadRelease,
              durable, memory
<1>5. CASE CleanupTick
  BY <1>5, SweepAnswers DEF CleanupTick
<1>6. CASE Crash
  BY <1>6 DEF Crash, durable, AnswersHold, Empty
<1>7. CASE Tick \/ Stabilize \/ UNCHANGED vars
  BY <1>1, <1>7 DEF Tick, Stabilize, vars, durable, memory
<1> QED
  BY <1>1, <1>2, <1>3, <1>4, <1>5, <1>6, <1>7, DeletionAnswers, StartAnswers
     DEF Next, UploadStep, Start

\* What the clients were told holds: a confirmed deletion stays one, and a stored or
\* duplicate upload survives with its bytes until it is deleted or has expired.
THEOREM AnswersStayTrue == Spec => []AnswersHold
<1>1. Init => StoreInv /\ AnswersHold
  BY InitTypes DEF Init, StoreInv, AnswersHold
<1>2. StoreInv /\ AnswersHold /\ [Next]_vars => (StoreInv /\ AnswersHold)'
  BY NextStore, NextAnswers
<1> QED
  BY <1>1, <1>2, PTL DEF Spec

----------------------------------------------------------------------------
(* What a request receives, and what it has reserved for it.               *)

\* The requests that have a temp file.
Holding == {"received", "duplicate", "full", "failed", "undone"}

\* A reservation pays for the bytes in the temp file, but for a probing byte.
Paid(u) ==
  \/ staged[u] <= reservation[u]
  \/ staged[u] = reservation[u] + 1 /\ staged[u] > MaxUploadBytes

\* What a request of a running service may have in its temp file.
Covered(u) ==
  /\ pc[u] = "receiving" =>
       reservation[u] = MaxUploadBytes \/ Size[content[u]] <= reservation[u]
  /\ pc[u] = "received" => staged[u] = Size[content[u]] /\ staged[u] <= reservation[u]
  /\ pc[u] \in Holding => Paid(u)
  /\ Driver = "local" /\ pc[u] \notin Holding => staged[u] = 0

Staging == up => \A u \in Uploads : Covered(u)

\* The inductive invariant.
StagingInv == StoreInv /\ Capacity /\ Staging /\ DiskBounded

----------------------------------------------------------------------------
(* The requests.                                                           *)

\* What a request is and has when it is not the one that moves.
LEMMA OthersCovered ==
  ASSUME TypeOK, up, Staging, NEW u \in Uploads, NEW v \in Uploads \ {u},
         pc'[v] = pc[v], staged'[v] = staged[v], content'[v] = content[v],
         reservation'[v] = reservation[v]
  PROVE  Covered(v)'
BY DEF Staging, Covered, Paid

\* One request that moves, the others being left as they are.
LEMMA OneCovered ==
  ASSUME TypeOK, up, Staging, NEW u \in Uploads,
         staged' = staged \/ \E n : staged' = [staged EXCEPT ![u] = n],
         pc' = pc \/ \E at : pc' = [pc EXCEPT ![u] = at],
         content' = content \/ \E id : content' = [content EXCEPT ![u] = id],
         reservation' = reservation \/ \E n : reservation' = [reservation EXCEPT ![u] = n],
         Covered(u)'
  PROVE  Staging'
<1>1. ASSUME NEW v \in Uploads \ {u}
      PROVE  /\ pc'[v] = pc[v] /\ staged'[v] = staged[v]
             /\ content'[v] = content[v] /\ reservation'[v] = reservation[v]
  BY DEF TypeOK
<1>2. ASSUME NEW v \in Uploads \ {u}
      PROVE  Covered(v)'
  BY <1>1, OthersCovered
<1> QED
  BY <1>2 DEF Staging

LEMMA ReserveStaging ==
  ASSUME TypeOK, Staging, NEW u \in Uploads, UploadReserve(u)
  PROVE  Staging'
<1>1. up /\ pc[u] = "idle" /\ staged' = staged /\ up' = up
  BY DEF UploadReserve
<1>2. CASE UNCHANGED request
  BY <1>1, <1>2 DEF Staging, Covered, Paid, request
<1>3. ASSUME NEW id \in Ids, NEW length \in ContentLengths(id),
             reservation' = [reservation EXCEPT ![u] = Reservation(length)],
             content' = [content EXCEPT ![u] = id],
             pc' = [pc EXCEPT ![u] = "receiving"]
      PROVE  Staging'
  <2>1. /\ pc'[u] = "receiving" /\ content'[u] = id /\ reservation'[u] = Reservation(length)
    BY <1>3 DEF TypeOK
  <2>2. Reservation(length) = MaxUploadBytes \/ Size[id] <= Reservation(length)
    <3>1. Size[id] \in Nat /\ Envelopes \subseteq Nat /\ MaxUploadBytes \in Nat
      BY ServiceAssumption
    <3>2. CASE length = -1
      BY <3>2 DEF Reservation
    <3>3. ASSUME NEW e \in Envelopes, length = Size[id] + e
          PROVE  Reservation(length) = MaxUploadBytes \/ Size[id] <= Reservation(length)
      BY <3>1, <3>3 DEF Reservation
    <3> QED
      BY <3>2, <3>3 DEF ContentLengths
  <2>3. Driver = "local" => staged'[u] = 0
    BY <1>1 DEF Staging, Covered, Holding
  <2>4. Covered(u)'
    BY <2>1, <2>2, <2>3 DEF Covered, Holding
  <2> QED
    BY <1>1, <1>3, <2>4, OneCovered
<1>4. CASE /\ \E id \in Ids : content' = [content EXCEPT ![u] = id]
           /\ pc' = [pc EXCEPT ![u] = "refused"]
           /\ UNCHANGED reservation
  <2>1. pc'[u] = "refused"
    BY <1>4 DEF TypeOK
  <2>2. Driver = "local" => staged'[u] = 0
    BY <1>1 DEF Staging, Covered, Holding
  <2>3. Covered(u)'
    BY <2>1, <2>2 DEF Covered, Holding
  <2> QED
    BY <1>1, <1>4, <2>3, OneCovered
<1> QED
  BY <1>2, <1>3, <1>4 DEF UploadReserve

LEMMA ReceiveStaging ==
  ASSUME TypeOK, Staging, NEW u \in Uploads, UploadReceive(u) \/ UploadReject(u)
  PROVE  Staging'
<1>1. pc[u] = "receiving" /\ UNCHANGED <<content, reservation, up>>
  BY DEF UploadReceive, UploadReject, memory
<1>2. up /\ content[u] \in Ids /\ reservation[u] \in Nat
  BY <1>1 DEF TypeOK
<1>3. /\ reservation[u] = MaxUploadBytes \/ Size[content[u]] <= reservation[u]
      /\ Size[content[u]] \in Nat /\ MaxUploadBytes \in Nat
  BY <1>1, <1>2, ServiceAssumption DEF Staging, Covered
<1>4. CASE UploadReceive(u)
  <2>1. pc'[u] = "received" /\ staged'[u] = Size[content[u]] /\ Size[content[u]] <= MaxUploadBytes
    BY <1>3, <1>4 DEF UploadReceive, TypeOK, Acceptable
  <2>2. staged'[u] <= reservation'[u]
    BY <1>1, <1>2, <1>3, <2>1
  <2>3. Covered(u)'
    BY <1>1, <2>1, <2>2 DEF Covered, Paid, Holding
  <2> QED
    BY <1>1, <1>2, <1>4, <2>3, OneCovered DEF UploadReceive
<1>5. CASE UploadReject(u)
  <2>1. PICK written \in 0 .. MaxUploadBytes + 1 :
          written <= Size[content[u]] /\ staged' = [staged EXCEPT ![u] = written]
    BY <1>5 DEF UploadReject
  <2>2. pc'[u] = "failed" /\ staged'[u] = written
    BY <1>5, <2>1 DEF UploadReject, TypeOK
  <2>3. written <= reservation[u] \/ (written = reservation[u] + 1 /\ written > MaxUploadBytes)
    BY <1>2, <1>3, <2>1
  <2>4. Covered(u)'
    BY <1>1, <2>2, <2>3 DEF Covered, Paid, Holding
  <2> QED
    BY <1>1, <1>2, <1>5, <2>1, <2>4, OneCovered DEF UploadReject
<1> QED
  BY <1>4, <1>5

LEMMA PersistStaging ==
  ASSUME TypeOK, Staging, NEW u \in Uploads, UploadPersist(u)
  PROVE  Staging'
<1>1. pc[u] = "received" /\ UNCHANGED <<content, reservation, up>>
  BY DEF UploadPersist
<1>2. up /\ staged[u] <= reservation[u] /\ reservation[u] \in Nat
  BY <1>1 DEF TypeOK, Staging, Covered
<1>3. ASSUME NEW how \in PersistEnds, pc' = [pc EXCEPT ![u] = how],
             staged' = IF Consumes(how) THEN [staged EXCEPT ![u] = 0] ELSE staged
      PROVE  Staging'
  <2>1. pc'[u] = how /\ staged'[u] = IF Consumes(how) THEN 0 ELSE staged[u]
    BY <1>3 DEF TypeOK
  <2>2. how \in PersistEnds \ Holding /\ Driver = "local" => Consumes(how)
    BY DEF Consumes, PersistEnds, Holding, Moved
  <2>3. how # "received" /\ how # "receiving"
    BY DEF PersistEnds
  <2>4. staged'[u] <= reservation'[u]
    BY <1>1, <1>2, <2>1
  <2>5. Covered(u)'
    BY <1>3, <2>1, <2>2, <2>3, <2>4 DEF Covered, Paid
  <2>6. staged' = staged \/ \E n : staged' = [staged EXCEPT ![u] = n]
    BY <1>3
  <2> QED
    BY <1>1, <1>2, <1>3, <2>5, <2>6, OneCovered
<1>4. CASE pc' = [pc EXCEPT ![u] = "failed"] /\ UNCHANGED staged
  <2>1. pc'[u] = "failed" /\ staged'[u] <= reservation'[u]
    BY <1>1, <1>2, <1>4 DEF TypeOK
  <2>2. Covered(u)'
    BY <2>1 DEF Covered, Paid, Holding
  <2> QED
    BY <1>1, <1>2, <1>4, <2>2, OneCovered
<1> QED
  BY <1>3, <1>4 DEF UploadPersist

\* The end of a request: its temp file goes before it is idle again.
LEMMA EndStaging ==
  ASSUME TypeOK, Staging, NEW u \in Uploads,
         UploadRefused(u) \/ UploadRemoveTemp(u) \/ UploadRelease(u)
  PROVE  Staging'
<1>1. pc[u] \in {"refused", "releasing"} \cup PersistEnds /\ up' = up
  BY DEF UploadRefused, UploadRemoveTemp, UploadRelease, memory
<1>2. up /\ pc'[u] \in {"idle", "releasing"}
  BY <1>1 DEF TypeOK, PersistEnds, UploadRefused, UploadRemoveTemp, UploadRelease
<1>3. Driver = "local" => staged'[u] = 0
  BY <1>2 DEF UploadRefused, UploadRemoveTemp, UploadRelease, TypeOK, Staging, Covered,
              Holding, durable
<1>4. Covered(u)'
  BY <1>2, <1>3 DEF Covered, Holding
<1> QED
  BY <1>1, <1>2, <1>4, OneCovered DEF UploadRefused, UploadRemoveTemp, UploadRelease, durable

LEMMA NextStaging ==
  ASSUME TypeOK, TypeOK', Staging, [Next]_vars
  PROVE  Staging'
<1>1. CASE UNCHANGED <<staged, request, up>>
  BY <1>1 DEF Staging, Covered, Paid, request
<1>2. CASE Start
  <2>1. /\ \A u \in Uploads : pc'[u] = "idle" /\ staged'[u] = 0
    BY <1>2 DEF Start, Boot, request, TypeOK
  <2> QED
    BY <2>1 DEF Staging, Covered, Holding
<1>3. CASE Crash \/ StartFails
  <2>1. up' = FALSE
    BY <1>3 DEF Crash, StartFails, ReconcileFails, FirstCleanupFails, memory, TypeOK
  <2> QED
    BY <2>1 DEF Staging
<1>4. ASSUME NEW u \in Uploads, UploadStep(u)
      PROVE  Staging'
  BY <1>4, ReserveStaging, ReceiveStaging, PersistStaging, EndStaging DEF UploadStep
<1>5. CASE \/ \E id \in Ids : DeleteFile(id)
           \/ \E ids \in SUBSET Ids : BatchDelete(ids)
           \/ CleanupTick
  BY <1>1, <1>5 DEF DeleteFile, BatchDelete, CleanupTick
<1>6. CASE Tick \/ Stabilize \/ UNCHANGED vars
  BY <1>1, <1>6 DEF Tick, Stabilize, vars, durable, memory
<1> QED
  BY <1>2, <1>3, <1>4, <1>5, <1>6 DEF Next

----------------------------------------------------------------------------
(* The disk.                                                               *)

\* The requests whose temp file has a probing byte.
Probing == {u \in Uploads : staged[u] > MaxUploadBytes}

\* The budget of a running service is paid for by records, orphans and reservations.
LEMMA DiskWhileUp ==
  ASSUME TypeOK, up, NoOvercommit, AllBytesAccounted, Staging
  PROVE  DiskBounded
<1> SUFFICES ASSUME Driver = "local"
             PROVE  Total(objects, Size) + Total(Uploads, staged)
                      <= MaxStorageBytes + Cardinality(Probing)
  BY DEF DiskBounded, Probing
<1> DEFINE held == [u \in Uploads |-> IF u \in Pending THEN reservation[u] ELSE 0]
<1>1. /\ IsFiniteSet(Uploads) /\ MaxStorageBytes \in Nat /\ MaxUploadBytes \in Nat
      /\ held \in [Uploads -> Nat] /\ staged \in [Uploads -> Nat]
      /\ \A u \in Uploads : held[u] = IF u \in Pending THEN reservation[u] ELSE 0
      /\ Probing \in SUBSET Uploads
  BY ServiceAssumption DEF TypeOK, Probing
<1> HIDE DEF held
<1>2. \A u \in Uploads : staged[u] <= Raised(Uploads, held, Probing)[u]
  <2>1. ASSUME NEW u \in Uploads
        PROVE  staged[u] <= IF u \in Probing THEN held[u] + 1 ELSE held[u]
    <3>1. CASE pc[u] \in Holding
      <4>1. Paid(u) /\ held[u] = reservation[u]
        BY <1>1, <3>1 DEF Staging, Covered, Holding, Pending
      <4>2. reservation[u] \in Nat /\ staged[u] \in Nat
        BY DEF TypeOK
      <4> QED
        BY <4>1, <4>2 DEF Paid, Probing
    <3>2. CASE pc[u] \notin Holding
      <4>1. staged[u] = 0
        BY <3>2 DEF Staging, Covered
      <4>2. held[u] \in Nat
        BY <1>1
      <4> QED
        BY <4>1, <4>2
    <3> QED
      BY <3>1, <3>2
  <2> QED
    BY <2>1 DEF Raised
<1>3. Total(Uploads, staged) <= Total(Uploads, held) + Cardinality(Probing)
  <2>1. \A u \in Uploads : held[u] \in Nat /\ staged[u] \in Nat
    BY <1>1
  <2>2. \A u \in Uploads : Raised(Uploads, held, Probing)[u] \in Nat
    BY <2>1 DEF Raised
  <2>3. Total(Uploads, staged) <= Total(Uploads, Raised(Uploads, held, Probing))
    BY <1>1, <1>2, <2>1, <2>2, TotalLess
  <2>4. Total(Uploads, Raised(Uploads, held, Probing)) = Total(Uploads, held) + Cardinality(Probing)
    BY <1>1, <2>1, TotalRaised
  <2> QED
    BY <2>3, <2>4
<1>4. Total(Uploads, held) = Total(Pending, reservation)
  <2> DEFINE rest == Uploads \ Pending
  <2>1. /\ Pending \in SUBSET Uploads /\ rest \in SUBSET Uploads
        /\ Pending \cup rest = Uploads /\ Pending \cap rest = {}
    BY DEF Pending
  <2>2. IsFiniteSet(Pending) /\ IsFiniteSet(rest)
    BY <1>1, <2>1, FS_Subset
  <2>3. \A u \in rest : held[u] = 0
    BY <1>1
  <2>4. \A u \in Pending : held[u] = reservation[u]
    BY <1>1, <2>1
  <2>5. \A u \in Pending \cup rest : held[u] \in Nat
    BY <1>1, <2>1
  <2> HIDE DEF rest
  <2>6. Total(Pending \cup rest, held) = Total(Pending, held) + Total(rest, held)
    BY <2>1, <2>2, <2>5, TotalUnion
  <2>7. Total(rest, held) = 0
    BY <2>3, TotalZero
  <2>8. Total(Pending, held) = Total(Pending, reservation)
    BY <2>4, TotalSame
  <2>9. Total(Pending, reservation) \in Nat
    BY CapacityNumbers DEF Sums
  <2> QED
    BY <2>1, <2>6, <2>7, <2>8, <2>9
<1>5. Total(objects, Size) <= UsedBytes(records, orphans)
  <2> DEFINE both == DOMAIN records \cup orphans
  <2>1. DOMAIN records \in SUBSET Ids /\ orphans \in SUBSET Ids
    BY CapacityNumbers DEF Sums
  <2>2. Total(both, Size) <= Total(DOMAIN records, Size) + Total(orphans, Size)
    BY <2>1, SizeUnion
  <2>3. objects \in SUBSET both
    BY DEF AllBytesAccounted
  <2>4. both \in SUBSET Ids
    BY <2>1
  <2> HIDE DEF both
  <2>5. Total(objects, Size) <= Total(both, Size) /\ Total(both, Size) \in Nat
    BY <2>3, <2>4, SizeTotals
  <2>6. objects \in SUBSET Ids
    BY <2>3, <2>4
  <2>7. Total(objects, Size) \in Nat
    BY <2>6, SizeTotals
  <2>8. Total(DOMAIN records, Size) \in Nat /\ Total(orphans, Size) \in Nat
    BY CapacityNumbers DEF Sums
  <2> QED
    BY <2>2, <2>5, <2>7, <2>8 DEF UsedBytes
<1>6. /\ Total(objects, Size) \in Nat /\ Total(Uploads, staged) \in Nat
      /\ UsedBytes(records, orphans) \in Nat /\ Total(Pending, reservation) \in Nat
      /\ Cardinality(Probing) \in Nat
  <2>1. Total(objects, Size) \in Nat
    BY SizeTotals DEF TypeOK
  <2>2. Total(Uploads, staged) \in Nat
    BY <1>1, HeldTotals
  <2>3. Total(Pending, reservation) \in Nat /\ UsedBytes(records, orphans) \in Nat
    BY CapacityNumbers DEF Sums, UsedBytes
  <2>4. Cardinality(Probing) \in Nat
    BY <1>1, FS_Subset, FS_CardinalityType
  <2> QED
    BY <2>1, <2>2, <2>3, <2>4
<1>7. UsedBytes(records, orphans) + Total(Pending, reservation) <= MaxStorageBytes
  BY DEF NoOvercommit
<1> QED
  BY <1>1, <1>3, <1>4, <1>5, <1>6, <1>7

\* The same of the next state.
LEMMA NextDiskWhileUp ==
  TypeOK' /\ up' /\ NoOvercommit' /\ AllBytesAccounted' /\ Staging' => DiskBounded'
<1>1. TypeOK /\ up /\ NoOvercommit /\ AllBytesAccounted /\ Staging => DiskBounded
  BY DiskWhileUp
<1> QED
  BY <1>1, PTL

\* A start that fails removes objects and temp files, and with a temp file at least
\* the byte by which it may exceed the budget.
LEMMA DiskWhileDown ==
  ASSUME TypeOK, TypeOK', DiskBounded, objects' \subseteq objects,
         \A u \in Uploads : staged'[u] \in {0, staged[u]}
  PROVE  DiskBounded'
<1> SUFFICES ASSUME Driver = "local"
             PROVE  Total(objects', Size) + Total(Uploads, staged')
                      <= MaxStorageBytes + Cardinality(Probing')
  BY DEF DiskBounded, Probing
<1>1. /\ IsFiniteSet(Uploads) /\ MaxStorageBytes \in Nat /\ MaxUploadBytes \in Nat
      /\ staged \in [Uploads -> Nat] /\ staged' \in [Uploads -> Nat]
      /\ Probing \in SUBSET Uploads /\ Probing' \in SUBSET Uploads
  BY ServiceAssumption DEF TypeOK, Probing
<1>2. Total(objects', Size) <= Total(objects, Size)
      /\ Total(objects', Size) \in Nat /\ Total(objects, Size) \in Nat
  <2>1. objects' \in SUBSET objects /\ objects \in SUBSET Ids /\ objects' \in SUBSET Ids
    BY DEF TypeOK
  <2> QED
    BY <2>1, SizeTotals
<1> DEFINE before == Raised(Uploads, staged, Probing')
           after  == Raised(Uploads, staged', Probing)
<1>3. \A u \in Uploads : /\ before[u] \in Nat /\ after[u] \in Nat
                         /\ after[u] <= before[u]
  <2>1. ASSUME NEW u \in Uploads
        PROVE  /\ before[u] = IF u \in Probing' THEN staged[u] + 1 ELSE staged[u]
               /\ after[u] = IF u \in Probing THEN staged'[u] + 1 ELSE staged'[u]
    BY DEF Raised
  <2>2. ASSUME NEW u \in Uploads
        PROVE  staged[u] \in Nat /\ staged'[u] \in Nat /\ staged'[u] \in {0, staged[u]}
    BY <1>1
  <2>3. \A u \in Uploads : /\ (u \in Probing) <=> (staged[u] > MaxUploadBytes)
                           /\ (u \in Probing') <=> (staged'[u] > MaxUploadBytes)
    BY DEF Probing
  <2> HIDE DEF before, after
  <2>4. ASSUME NEW u \in Uploads, staged'[u] = staged[u]
        PROVE  before[u] \in Nat /\ after[u] \in Nat /\ after[u] <= before[u]
    BY <2>1, <2>2, <2>3, <2>4
  <2>5. ASSUME NEW u \in Uploads, staged'[u] = 0
        PROVE  before[u] \in Nat /\ after[u] \in Nat /\ after[u] <= before[u]
    BY <1>1, <2>1, <2>2, <2>3, <2>5
  <2> QED
    BY <2>2, <2>4, <2>5
<1>4. Total(Uploads, before) = Total(Uploads, staged) + Cardinality(Probing')
  BY <1>1, TotalRaised
<1>5. Total(Uploads, after) = Total(Uploads, staged') + Cardinality(Probing)
  BY <1>1, TotalRaised
<1> HIDE DEF before, after
<1>6. Total(Uploads, after) <= Total(Uploads, before)
  BY <1>1, <1>3, TotalLess
<1>7. Total(Uploads, staged) \in Nat /\ Total(Uploads, staged') \in Nat
  BY <1>1, HeldTotals
<1>8. Cardinality(Probing) \in Nat /\ Cardinality(Probing') \in Nat
  BY <1>1, FS_Subset, FS_CardinalityType
<1>9. Total(objects, Size) + Total(Uploads, staged) <= MaxStorageBytes + Cardinality(Probing)
  BY DEF DiskBounded, Probing
<1> QED
  BY <1>1, <1>2, <1>4, <1>5, <1>6, <1>7, <1>8, <1>9

LEMMA NextDisk ==
  ASSUME StagingInv, TypeOK', NoOvercommit', AllBytesAccounted', Staging', [Next]_vars
  PROVE  DiskBounded'
<1>1. TypeOK /\ DiskBounded /\ up \in BOOLEAN /\ up' \in BOOLEAN
  BY DEF StagingInv, StoreInv, TypeOK
<1>2. CASE up'
  BY <1>2, NextDiskWhileUp
<1>3. CASE ~up'
  <2>1. CASE UNCHANGED <<objects, staged>>
    BY <1>1, <2>1, DiskWhileDown
  <2>2. CASE StartFails
    <3>1. \A u \in Uploads : staged'[u] \in {0, staged[u]}
      BY <2>2 DEF StartFails, ReconcileFails, FirstCleanupFails
    <3>2. CASE ReconcileFails
      BY <1>1, <3>1, <3>2, DiskWhileDown DEF ReconcileFails
    <3>3. CASE FirstCleanupFails
      <4>1. PICK m \in CleanupFailures(Reconciled) : objects' = m.objects
        BY <3>3 DEF FirstCleanupFails
      <4>2. Shrinks(Reconciled, m) /\ Reconciled.objects \subseteq objects
        BY <1>1, <4>1, ReconciledFacts, CleanupShrinks DEF Outcomes
      <4>3. objects' \subseteq objects
        BY <4>1, <4>2 DEF Shrinks
      <4> QED
        BY <1>1, <3>1, <4>3, DiskWhileDown
    <3> QED
      BY <2>2, <3>2, <3>3 DEF StartFails
  <2>3. CASE Crash \/ Tick \/ Stabilize \/ UNCHANGED vars
    BY <2>1, <2>3 DEF Crash, Tick, Stabilize, vars, durable
  <2>4. ASSUME NEW u \in Uploads, UploadStep(u)
        PROVE  up'
    BY <1>1, <2>4 DEF UploadStep, UploadReserve, UploadRefused, UploadReceive, UploadReject,
                      UploadPersist, UploadRemoveTemp, UploadRelease, PersistEnds, memory,
                      TypeOK
  <2>5. CASE \/ \E id \in Ids : DeleteFile(id)
             \/ \E ids \in SUBSET Ids : BatchDelete(ids)
             \/ CleanupTick \/ Start
    <3>1. (\E id \in Ids : DeleteFile(id)) => up'
      BY DEF DeleteFile
    <3>2. ASSUME NEW ids \in SUBSET Ids, BatchDelete(ids)
          PROVE  up'
      <4>1. up /\ up' = up
        BY <3>2 DEF BatchDelete
      <4> QED
        BY <4>1
    <3>3. CleanupTick \/ Start => up'
      BY DEF CleanupTick, Start, Boot
    <3> QED
      BY <1>3, <2>5, <3>1, <3>2, <3>3
  <2> QED
    BY <1>3, <2>2, <2>3, <2>4, <2>5 DEF Next
<1> QED
  BY <1>1, <1>2, <1>3

----------------------------------------------------------------------------
(* The theorems.                                                           *)

THEOREM StagingCorrect == Spec => []StagingInv
<1>1. Init => Staging /\ DiskBounded
  <2> SUFFICES ASSUME Init PROVE Staging /\ DiskBounded
    OBVIOUS
  <2>1. ~up /\ objects = {} /\ \A u \in Uploads : staged[u] = 0
    BY DEF Init
  <2>2. Total(Uploads, staged) = 0 /\ Total(objects, Size) = 0
    BY <2>1, TotalZero, TotalEmpty
  <2>3. Cardinality(Probing) \in Nat
    BY ServiceAssumption, FS_Subset, FS_CardinalityType DEF Probing
  <2> QED
    BY <2>1, <2>2, <2>3, ServiceAssumption DEF Staging, DiskBounded, Probing
<1>2. StagingInv /\ StoreInv' /\ Capacity' /\ [Next]_vars => StagingInv'
  <2>1. StoreInv' => TypeOK' /\ AllBytesAccounted'
    <3>1. StoreInv => TypeOK /\ AllBytesAccounted
      BY StoreParts DEF StoreInv
    <3> QED
      BY <3>1, PTL
  <2>2. Capacity' => NoOvercommit'
    BY DEF Capacity
  <2>3. StagingInv => TypeOK /\ Staging
    BY DEF StagingInv, StoreInv
  <2> QED
    BY <2>1, <2>2, <2>3, NextStaging, NextDisk DEF StagingInv
<1>3. StoreInv /\ Capacity /\ Staging /\ DiskBounded => StagingInv
  BY DEF StagingInv
<1>4. StagingInv => StoreInv /\ Capacity
  BY DEF StagingInv
<1> QED
  BY <1>1, <1>2, <1>3, <1>4, StoreCorrect, CapacityCorrect, PTL DEF Spec

\* Objects and temp files together exceed the storage limit by no more than one
\* probing byte of each body that is too large: the temp file is gone before the
\* reservation that paid for it is released.
THEOREM DiskStaysBounded == Spec => []DiskBounded
<1>1. StagingInv => DiskBounded
  BY DEF StagingInv
<1> QED
  BY <1>1, StagingCorrect, PTL

\* A received upload passes the capacity check of persist, unless another request's
\* bytes count twice.
THEOREM ReservationsAreHonoured == Spec => []ReservationHonoured
<1>1. StagingInv => ReservationHonoured
  <2> SUFFICES ASSUME StagingInv, NEW u \in Uploads, pc[u] = "received",
                      \A v \in Uploads :
                        pc[v] \in {"stored", "orphaned", "releasing"} => reservation[v] = 0
               PROVE  Fits(content[u], reservation[u], Cleaned(Image))
    BY DEF ReservationHonoured
  <2> DEFINE rest == Uploads \ Pending
             m    == Cleaned(Image)
  <2>1. TypeOK /\ LedgerExact /\ NoOvercommit /\ Staging
    BY DEF StagingInv, StoreInv, Capacity
  <2>2. /\ up /\ content[u] \in Ids /\ reservation \in [Uploads -> Nat] /\ u \in Pending
        /\ Pending \in SUBSET Uploads
    BY <2>1 DEF TypeOK, Pending
  <2>3. Size[content[u]] <= reservation[u] /\ Size[content[u]] \in Nat
    BY <2>1, <2>2, ServiceAssumption DEF Staging, Covered
  <2>4. \A v \in rest : reservation[v] = 0
    BY <2>1 DEF TypeOK, PCs, PersistEnds, Pending
  <2>5. Total(Uploads, reservation) = Total(Pending, reservation)
    <3>1. /\ Pending \cup rest = Uploads /\ Pending \cap rest = {}
          /\ rest \in SUBSET Uploads /\ IsFiniteSet(Uploads)
      BY <2>2, ServiceAssumption
    <3>2. IsFiniteSet(Pending) /\ IsFiniteSet(rest)
      BY <2>2, <3>1, FS_Subset
    <3>3. Total(rest, reservation) = 0
      BY <2>4, TotalZero
    <3>4. \A v \in Pending \cup rest : reservation[v] \in Nat
      BY <2>2, <3>1
    <3> HIDE DEF rest
    <3>5. Total(Pending \cup rest, reservation) = Total(Pending, reservation) + Total(rest, reservation)
      BY <3>1, <3>2, <3>4, TotalUnion
    <3>6. Total(Pending, reservation) \in Nat
      BY <2>1, CapacityNumbers DEF Sums
    <3> QED
      BY <3>1, <3>3, <3>5, <3>6
  <2>6. Total(Pending, reservation) = Total(Pending \ {u}, reservation) + reservation[u]
        /\ Total(Pending \ {u}, reservation) \in Nat
    <3> DEFINE others == Pending \ {u}
    <3>1. others \in SUBSET Uploads
      BY <2>2
    <3>2. Total(Pending, reservation) = Total(Pending \ {u}, reservation) + reservation[u]
      BY <2>2, HeldSplit
    <3> HIDE DEF others
    <3>3. Total(others, reservation) \in Nat
      BY <2>2, <3>1, HeldTotals
    <3> QED
      BY <3>2, <3>3 DEF others
  <2>7. /\ UsedBytes(m.records, m.orphans) <= UsedBytes(records, orphans)
        /\ UsedBytes(m.records, m.orphans) \in Nat /\ UsedBytes(records, orphans) \in Nat
    <3>1. DOMAIN m.records \subseteq DOMAIN records /\ m.orphans \subseteq orphans
      BY <2>1, ImageFacts, CleanupShrinks DEF Outcomes, Shrinks
    <3> HIDE DEF m
    <3> QED
      BY <2>1, <3>1, UsedShrinks
  <2>8. UsedBytes(records, orphans) + Total(Pending, reservation) <= MaxStorageBytes
    BY <2>1 DEF NoOvercommit
  <2>9. reservedBytes = Total(Pending, reservation) /\ reservation[u] \in Nat
        /\ MaxStorageBytes \in Nat
    BY <2>1, <2>2, <2>5, ServiceAssumption DEF LedgerExact
  <2> HIDE DEF m, rest
  <2> QED
    BY <2>3, <2>6, <2>7, <2>8, <2>9 DEF Fits, m
<1> QED
  BY <1>1, StagingCorrect, PTL
=============================================================================
