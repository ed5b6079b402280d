--------------------------- MODULE ServiceProofs ---------------------------
(***************************************************************************)
(* Theorems of Service, for every finite set of contents and requests and  *)
(* every size and limit: the types, and the capacity ledger.               *)
(***************************************************************************)
EXTENDS Service, TotalsTheorems

----------------------------------------------------------------------------
(* Indexes.                                                                *)

\* An index maps some ids to times.
LEMMA IndexParts ==
  ASSUME NEW f \in Indexes
  PROVE  DOMAIN f \subseteq Ids /\ \A id \in DOMAIN f : f[id] \in Time
BY DEF Indexes

\* Any function from some ids to times is an index.
LEMMA IndexIntro ==
  ASSUME NEW S \in SUBSET Ids, NEW f \in [S -> Time]
  PROVE  f \in Indexes
BY DEF Indexes

\* Dropping ids from an index leaves an index of the other ids.
LEMMA DropFacts ==
  ASSUME NEW f \in Indexes, NEW S
  PROVE  /\ Drop(f, S) \in Indexes
         /\ DOMAIN Drop(f, S) = (DOMAIN f) \ S
         /\ \A id \in (DOMAIN f) \ S : Drop(f, S)[id] = f[id]
<1>1. /\ DOMAIN Drop(f, S) = (DOMAIN f) \ S
      /\ \A id \in (DOMAIN f) \ S : Drop(f, S)[id] = f[id]
  BY DEF Drop, Restrict
<1>2. (DOMAIN f) \ S \in SUBSET Ids /\ Drop(f, S) \in [(DOMAIN f) \ S -> Time]
  BY IndexParts DEF Drop, Restrict
<1> QED
  BY <1>1, <1>2, IndexIntro

\* The empty index.
LEMMA EmptyFacts == Empty \in Indexes /\ DOMAIN Empty = {}
<1>1. Empty \in [{} -> Time] /\ DOMAIN Empty = {}
  BY DEF Empty
<1> QED
  BY <1>1, IndexIntro

\* Adding an id created now.
LEMMA CreatedFacts ==
  ASSUME NEW f \in Indexes, NEW id \in Ids, now \in Time
  PROVE  /\ Created(f, id) \in Indexes
         /\ DOMAIN Created(f, id) = (DOMAIN f) \cup {id}
<1>1. DOMAIN Created(f, id) = (DOMAIN f) \cup {id}
  BY DEF Created
<1>2. (DOMAIN f) \cup {id} \in SUBSET Ids /\ Created(f, id) \in [(DOMAIN f) \cup {id} -> Time]
  BY IndexParts DEF Created
<1> QED
  BY <1>1, <1>2, IndexIntro

----------------------------------------------------------------------------
(* The expiry pass only removes.                                           *)

Images == [records : Indexes, orphans : SUBSET Ids, objects : SUBSET Ids, index : Indexes]

\* What one sweep leaves.
LEMMA SweptFacts ==
  ASSUME NEW m \in Images, NEW done, NEW unsaved
  PROVE  /\ Swept(m, done, unsaved) \in Images
         /\ DOMAIN Swept(m, done, unsaved).records = (DOMAIN m.records) \ done
         /\ Swept(m, done, unsaved).orphans = {}
         /\ Swept(m, done, unsaved).objects = m.objects \ (m.orphans \cup done)
         /\ \/ Swept(m, done, unsaved).index = m.index
            \/ DOMAIN Swept(m, done, unsaved).index \subseteq DOMAIN m.records
<1>1. /\ m.records \in Indexes /\ m.index \in Indexes
      /\ m.orphans \subseteq Ids /\ m.objects \subseteq Ids
  BY DEF Images
<1>2. /\ Drop(m.records, done) \in Indexes
      /\ DOMAIN Drop(m.records, done) = (DOMAIN m.records) \ done
  BY <1>1, DropFacts
<1>3. /\ Drop(m.records, done \ unsaved) \in Indexes
      /\ DOMAIN Drop(m.records, done \ unsaved) \subseteq DOMAIN m.records
  <2> DEFINE saved == done \ unsaved
  <2> HIDE DEF saved
  <2>1. Drop(m.records, saved) \in Indexes /\ DOMAIN Drop(m.records, saved) \subseteq DOMAIN m.records
    BY <1>1, DropFacts
  <2> QED
    BY <2>1 DEF saved
<1> QED
  BY <1>1, <1>2, <1>3 DEF Swept, Images

\* The outcomes of cleanupLocked, failing or not.
Outcomes(m) == {Cleaned(m)} \cup CleanupFailures(m)

\* An image the expiry pass may leave has fewer records, orphans and objects, and
\* an index that is the old one or lists only ids that were committed.
Shrinks(m, n) ==
  /\ n \in Images
  /\ DOMAIN n.records \subseteq DOMAIN m.records
  /\ n.orphans \subseteq m.orphans
  /\ n.objects \subseteq m.objects
  /\ n.index = m.index \/ DOMAIN n.index \subseteq DOMAIN m.records

\* A failing Delete adds no object.
LEMMA FailedDeleteShrinks ==
  ASSUME NEW objs, NEW keys, NEW left \in AfterFailedDelete(objs, keys)
  PROVE  left \subseteq objs
BY DEF AfterFailedDelete

\* cleanupLocked only removes, wherever it fails.
LEMMA CleanupShrinks ==
  ASSUME NEW m \in Images, NEW n \in Outcomes(m)
  PROVE  Shrinks(m, n)
<1>1. CASE n = Cleaned(m)
  BY <1>1, SweptFacts DEF Cleaned, Shrinks, Images
<1>2. CASE n \in OrphanFailures(m)
  <2>0. PICK done \in SUBSET m.orphans :
          \E left \in AfterFailedDelete(m.objects \ done, m.orphans \ done) :
            n = [m EXCEPT !.orphans = @ \ done, !.objects = left]
    BY <1>2 DEF OrphanFailures
  <2>1. PICK left \in AfterFailedDelete(m.objects \ done, m.orphans \ done) :
          n = [m EXCEPT !.orphans = @ \ done, !.objects = left]
    BY <2>0
  <2>2. left \subseteq m.objects
    BY FailedDeleteShrinks
  <2> QED
    BY <2>1, <2>2 DEF Shrinks, Images
<1>3. CASE n \in DeleteFailures(m)
  <2>0. PICK done \in SUBSET Expired(m.records) :
          \E left \in AfterFailedDelete(m.objects \ (m.orphans \cup done),
                                        Expired(m.records) \ done) :
            n = [Swept(m, done, {}) EXCEPT !.objects = left]
    BY <1>3 DEF DeleteFailures
  <2>1. PICK left \in AfterFailedDelete(m.objects \ (m.orphans \cup done),
                                       Expired(m.records) \ done) :
          n = [Swept(m, done, {}) EXCEPT !.objects = left]
    BY <2>0
  <2>2. left \subseteq m.objects
    BY FailedDeleteShrinks
  <2> DEFINE s == Swept(m, done, {})
  <2>3. /\ s \in Images
        /\ DOMAIN s.records \subseteq DOMAIN m.records
        /\ s.orphans \subseteq m.orphans
        /\ s.index = m.index \/ DOMAIN s.index \subseteq DOMAIN m.records
    BY SweptFacts
  <2> HIDE DEF s
  <2>4. n = [s EXCEPT !.objects = left]
    BY <2>1 DEF s
  <2>5. m.objects \subseteq Ids
    BY DEF Images
  <2> QED
    BY <2>2, <2>3, <2>4, <2>5 DEF Shrinks, Images
<1>4. CASE n \in SaveFailures(m)
  <2>1. PICK done \in SUBSET Expired(m.records) : \E last \in done : n = Swept(m, done, {last})
    BY <1>4 DEF SaveFailures
  <2>2. PICK last \in done : n = Swept(m, done, {last})
    BY <2>1
  <2> DEFINE unsaved == {last}
  <2>3. n = Swept(m, done, unsaved)
    BY <2>2
  <2> HIDE DEF unsaved
  <2>4. m.objects \ (m.orphans \cup done) \subseteq m.objects
    OBVIOUS
  <2> QED
    BY <2>3, <2>4, SweptFacts DEF Shrinks, Images
<1> QED
  BY <1>1, <1>2, <1>3, <1>4 DEF Outcomes, CleanupFailures

----------------------------------------------------------------------------
(* Types.                                                                  *)

Answers == {"none", "kept", "gone"}

\* The image of a well-typed state.
LEMMA ImageFacts ==
  ASSUME TypeOK
  PROVE  /\ Image \in Images
         /\ Image.records = records /\ Image.orphans = orphans
         /\ Image.objects = objects /\ Image.index = index
BY DEF TypeOK, Image, Images

\* The clients' promises stay promises.
LEMMA ToldTypes ==
  ASSUME TypeOK, NEW ids, NEW what \in Answers
  PROVE  Forget(ids) \in [Ids -> Answers] /\ Tell(ids, what) \in [Ids -> Answers]
BY DEF TypeOK, Forget, Tell, Answers

\* The expiry pass inside a handler, failing or not, in terms of the variables.
LEMMA SweepFacts ==
  ASSUME TypeOK, CleanupSucceeds \/ CleanupFails
  PROVE  /\ records' \in Indexes /\ DOMAIN records' \subseteq DOMAIN records
         /\ orphans' \subseteq orphans
         /\ objects' \subseteq objects
         /\ index' \in Indexes
         /\ index' = index \/ DOMAIN index' \subseteq DOMAIN records
         /\ told' \in [Ids -> Answers]
<1>1. PICK n \in Outcomes(Image) :
        /\ Install(n)
        /\ told' = Forget(DOMAIN records \ DOMAIN n.records)
  BY DEF CleanupSucceeds, CleanupFails, Outcomes
<1>2. Shrinks(Image, n)
  BY <1>1, ImageFacts, CleanupShrinks
<1>3. told' \in [Ids -> Answers]
  <2> DEFINE ids == DOMAIN records \ DOMAIN n.records
  <2>1. told' = Forget(ids)
    BY <1>1
  <2> HIDE DEF ids
  <2> QED
    BY <2>1, ToldTypes DEF Answers
<1> QED
  BY <1>1, <1>2, <1>3, ImageFacts DEF Install, Shrinks, Images

\* reserve, and a refusal, keep the types.
LEMMA ReserveTypes ==
  ASSUME TypeOK, NEW u \in Uploads, UploadReserve(u)
  PROVE  TypeOK'
<1> USE ServiceAssumption
<1>1. CleanupSucceeds \/ CleanupFails
  BY DEF UploadReserve
<1>2. /\ objects' \subseteq Ids /\ index' \in Indexes /\ staged' \in [Uploads -> Nat]
      /\ up' \in BOOLEAN /\ records' \in Indexes /\ orphans' \subseteq Ids
      /\ now' \in Time /\ healthy' \in BOOLEAN
      /\ told' \in [Ids -> Answers]
      /\ up'
  BY <1>1, SweepFacts DEF UploadReserve, TypeOK
<1>3. CASE UNCHANGED <<reservedBytes, request>>
  BY <1>2, <1>3 DEF TypeOK, Answers, request
<1>4. ASSUME NEW id \in Ids, NEW length \in ContentLengths(id),
             Reservable(Reservation(length), Cleaned(Image)),
             reservedBytes' = reservedBytes + Reservation(length),
             content' = [content EXCEPT ![u] = id],
             reservation' = [reservation EXCEPT ![u] = Reservation(length)],
             pc' = [pc EXCEPT ![u] = "receiving"]
      PROVE  TypeOK'
  <2>1. length \in Int
    BY <1>4 DEF ContentLengths
  <2>2. Reservation(length) \in Nat
    BY <2>1 DEF Reservation
  <2>3. reservedBytes' \in Nat
    BY <1>4, <2>2 DEF TypeOK
  <2> QED
    BY <1>2, <1>4, <2>2, <2>3 DEF TypeOK, Answers, PCs
<1>5. ASSUME NEW id \in Ids,
             content' = [content EXCEPT ![u] = id],
             pc' = [pc EXCEPT ![u] = "refused"],
             pc[u] = "idle",
             UNCHANGED <<reservedBytes, reservation>>
      PROVE  TypeOK'
  BY <1>2, <1>5 DEF TypeOK, Answers, PCs
<1> QED
  BY <1>3, <1>4, <1>5 DEF UploadReserve

\* What a persist that adds no content does, and one that adds it, as a record or as
\* an orphan, after the capacity check.
RemovesOnly ==
  /\ DOMAIN records' \subseteq DOMAIN records /\ orphans' \subseteq orphans
  /\ index' = index \/ DOMAIN index' \subseteq DOMAIN records

AddsContent(id, reserved, how) ==
  \E c \in Images :
    /\ Shrinks(Image, c) /\ Fits(id, reserved, c)
    /\ \/ /\ how = "stored"
          /\ DOMAIN records' = DOMAIN c.records \cup {id}
          /\ orphans' \subseteq c.orphans
          /\ DOMAIN index' = DOMAIN records'
       \/ /\ how = "orphaned"
          /\ records' = c.records
          /\ orphans' = c.orphans \cup {id}
          /\ index' = c.index

Neutral == {"duplicate", "full", "failed", "undone"}

\* persist of a content, whoever calls it: it keeps the types and adds at most the
\* content.
LEMMA PersistContent ==
  ASSUME TypeOK, NEW id \in Ids, NEW reserved, NEW how \in PersistEnds,
         Persist(id, reserved, Cleaned(Image), how)
  PROVE  /\ records' \in Indexes /\ index' \in Indexes
         /\ orphans' \subseteq Ids /\ objects' \subseteq Ids
         /\ told' \in [Ids -> Answers]
         /\ (how \in Neutral /\ RemovesOnly) \/ AddsContent(id, reserved, how)
<1> DEFINE m == Cleaned(Image)
           kept == Forget(DOMAIN records \ DOMAIN m.records)
           Types == /\ records' \in Indexes /\ index' \in Indexes
                    /\ orphans' \subseteq Ids /\ objects' \subseteq Ids
                    /\ told' \in [Ids -> Answers]
           Ends(image, answers) == Install(image) /\ told' = answers
           New == id \notin DOMAIN m.records /\ Fits(id, reserved, m)
<1>1. Shrinks(Image, m) /\ now \in Time
  BY ImageFacts, CleanupShrinks DEF Outcomes, TypeOK
<1>2. m \in Images
  BY <1>1 DEF Shrinks
<1>3. /\ kept \in [Ids -> Answers]
      /\ [kept EXCEPT ![id] = "kept"] \in [Ids -> Answers]
  <2> DEFINE ids == DOMAIN records \ DOMAIN m.records
  <2>1. kept = Forget(ids)
    OBVIOUS
  <2> HIDE DEF ids, kept
  <2>2. kept \in [Ids -> Answers]
    BY <2>1, ToldTypes DEF Answers
  <2> QED
    BY <2>2 DEF Answers
<1>4. /\ Created(m.records, id) \in Indexes
      /\ DOMAIN Created(m.records, id) = DOMAIN m.records \cup {id}
  BY <1>1, <1>2, CreatedFacts DEF Images
<1>5. ASSUME NEW answers \in [Ids -> Answers], NEW left \in SUBSET Ids,
             Ends([m EXCEPT !.objects = left], answers)
      PROVE  Types /\ RemovesOnly
  <2>1. /\ records' = m.records /\ index' = m.index
        /\ orphans' = m.orphans /\ objects' = left /\ told' = answers
    BY <1>2, <1>5 DEF Install, Images
  <2> HIDE DEF m
  <2> QED
    BY <1>1, <1>2, <1>5, <2>1 DEF Shrinks, Images, RemovesOnly, Image
<1>6. m = [m EXCEPT !.objects = m.objects] /\ m.objects \in SUBSET Ids
  BY <1>2 DEF Images
<1> HIDE DEF m, kept
<1>7. CASE how = "duplicate" /\ Ends(m, [kept EXCEPT ![id] = "kept"])
  <2> DEFINE left == m.objects
             answers == [kept EXCEPT ![id] = "kept"]
  <2>1. left \in SUBSET Ids /\ answers \in [Ids -> Answers]
    BY <1>3, <1>6
  <2>2. Ends([m EXCEPT !.objects = left], answers)
    BY <1>6, <1>7
  <2> HIDE DEF left, answers, Ends
  <2>3. Types /\ RemovesOnly
    BY <1>5, <2>1, <2>2
  <2> QED
    BY <1>7, <2>3 DEF Neutral
<1>8. CASE how = "full" /\ Ends(m, kept)
  <2> DEFINE left == m.objects
  <2>1. left \in SUBSET Ids
    BY <1>6
  <2>2. Ends([m EXCEPT !.objects = left], kept)
    BY <1>6, <1>8
  <2> HIDE DEF left, Ends
  <2>3. Types /\ RemovesOnly
    BY <1>3, <1>5, <2>1, <2>2
  <2> QED
    BY <1>8, <2>3 DEF Neutral
<1>9. ASSUME New, how = "stored",
             Ends([m EXCEPT !.records = Created(@, id), !.index = Created(m.records, id),
                            !.orphans = @ \ {id}, !.objects = @ \cup {id}],
                  [kept EXCEPT ![id] = "kept"])
      PROVE  Types /\ AddsContent(id, reserved, how)
  <2>1. /\ records' = Created(m.records, id) /\ index' = Created(m.records, id)
        /\ orphans' = m.orphans \ {id} /\ objects' = m.objects \cup {id}
        /\ told' = [kept EXCEPT ![id] = "kept"]
    BY <1>2, <1>9 DEF Install, Images
  <2>2. AddsContent(id, reserved, how)
    BY <1>1, <1>2, <1>4, <1>9, <2>1 DEF AddsContent
  <2> QED
    BY <1>2, <1>3, <1>4, <2>1, <2>2 DEF Images
<1>10. ASSUME how = "failed",
              NEW left \in AfterFailedPut(m.objects, id),
              Ends([m EXCEPT !.objects = left], kept)
       PROVE  Types /\ RemovesOnly
  <2>1. left \in SUBSET Ids
    BY <1>6 DEF AfterFailedPut
  <2> HIDE DEF Ends
  <2> QED
    BY <1>3, <1>5, <1>10, <2>1
<1>11. CASE how = "undone" /\ Ends([m EXCEPT !.objects = @ \ {id}], kept)
  <2> DEFINE left == m.objects \ {id}
  <2>1. left \in SUBSET Ids /\ Ends([m EXCEPT !.objects = left], kept)
    BY <1>6, <1>11
  <2> HIDE DEF left, Ends
  <2>2. Types /\ RemovesOnly
    BY <1>3, <1>5, <2>1
  <2> QED
    BY <1>11, <2>2 DEF Neutral
<1>12. ASSUME New, how = "orphaned",
              NEW left \in AfterFailedDelete(m.objects \cup {id}, {id}),
              Ends([m EXCEPT !.objects = left, !.orphans = @ \cup {id}], kept)
       PROVE  Types /\ AddsContent(id, reserved, how)
  <2>1. /\ records' = m.records /\ index' = m.index
        /\ orphans' = m.orphans \cup {id} /\ objects' = left
        /\ told' = kept
    BY <1>2, <1>12 DEF Install, Images
  <2>2. left \subseteq m.objects \cup {id}
    BY DEF AfterFailedDelete
  <2>3. AddsContent(id, reserved, how)
    BY <1>1, <1>2, <1>12, <2>1 DEF AddsContent
  <2> QED
    BY <1>2, <1>3, <2>1, <2>2, <2>3 DEF Images
<1> QED
  BY <1>7, <1>8, <1>9, <1>10, <1>11, <1>12 DEF Persist, Neutral, m, kept

\* The same of a request that persists: where it is left.
Only(u) ==
  /\ \E how \in Neutral : pc' = [pc EXCEPT ![u] = how]
  /\ RemovesOnly

Adds(u) ==
  \E how \in {"stored", "orphaned"} :
    /\ pc' = [pc EXCEPT ![u] = how]
    /\ AddsContent(content[u], reservation[u], how)

LEMMA PersistFacts ==
  ASSUME TypeOK, NEW u \in Uploads, UploadPersist(u)
  PROVE  /\ records' \in Indexes /\ index' \in Indexes
         /\ orphans' \subseteq Ids /\ objects' \subseteq Ids
         /\ staged' \in [Uploads -> Nat]
         /\ told' \in [Ids -> Answers]
         /\ Only(u) \/ Adds(u)
<1>1. content[u] \in Ids
  BY DEF TypeOK, UploadPersist, PersistEnds
<1>2. CASE CleanupFails /\ pc' = [pc EXCEPT ![u] = "failed"] /\ UNCHANGED staged
  <2>1. Only(u)
    BY <1>2, SweepFacts DEF Only, RemovesOnly, Neutral
  <2> QED
    BY <1>2, <2>1, SweepFacts DEF TypeOK
<1>3. ASSUME NEW how \in PersistEnds,
             Persist(content[u], reservation[u], Cleaned(Image), how),
             staged' = IF Consumes(how) THEN [staged EXCEPT ![u] = 0] ELSE staged,
             pc' = [pc EXCEPT ![u] = how]
      PROVE  /\ records' \in Indexes /\ index' \in Indexes
             /\ orphans' \subseteq Ids /\ objects' \subseteq Ids
             /\ staged' \in [Uploads -> Nat]
             /\ told' \in [Ids -> Answers]
             /\ Only(u) \/ Adds(u)
  <2>1. staged' \in [Uploads -> Nat]
    BY <1>3 DEF TypeOK
  <2>2. /\ records' \in Indexes /\ index' \in Indexes
        /\ orphans' \subseteq Ids /\ objects' \subseteq Ids
        /\ told' \in [Ids -> Answers]
        /\ (how \in Neutral /\ RemovesOnly) \/ AddsContent(content[u], reservation[u], how)
    BY <1>1, <1>3, PersistContent
  <2>3. AddsContent(content[u], reservation[u], how) => how \in {"stored", "orphaned"}
    BY DEF AddsContent
  <2> QED
    BY <1>3, <2>1, <2>2, <2>3 DEF Only, Adds
<1> QED
  BY <1>2, <1>3 DEF UploadPersist

LEMMA PersistTypes ==
  ASSUME TypeOK, NEW u \in Uploads, UploadPersist(u)
  PROVE  TypeOK'
<1>1. /\ records' \in Indexes /\ index' \in Indexes
      /\ orphans' \subseteq Ids /\ objects' \subseteq Ids
      /\ staged' \in [Uploads -> Nat]
      /\ told' \in [Ids -> Answers]
  BY PersistFacts
<1>2. /\ pc[u] = "received" /\ up = up' /\ up
      /\ UNCHANGED <<reservedBytes, content, reservation, now, healthy>>
  BY DEF UploadPersist, TypeOK
<1>3. PICK how \in {"duplicate", "full", "failed", "undone", "stored", "orphaned"} :
        pc' = [pc EXCEPT ![u] = how]
  BY PersistFacts DEF Only, Adds, Neutral
<1>4. pc' \in [Uploads -> PCs] /\ \A v \in Uploads : pc'[v] = IF v = u THEN how ELSE pc[v]
  BY <1>3 DEF TypeOK, PCs, PersistEnds
<1> QED
  BY <1>1, <1>2, <1>3, <1>4 DEF TypeOK, Answers

\* The steps of a request outside the lock, and its release, keep the types.
LEMMA RequestTypes ==
  ASSUME TypeOK, NEW u \in Uploads,
         \/ UploadRefused(u) \/ UploadReceive(u) \/ UploadReject(u)
         \/ UploadRemoveTemp(u) \/ UploadRelease(u)
  PROVE  TypeOK'
<1> USE ServiceAssumption
<1>1. CASE UploadRefused(u)
  BY <1>1 DEF UploadRefused, TypeOK, durable, memory, PCs
<1>2. CASE UploadReceive(u)
  <2>1. content[u] \in Ids
    BY <1>2 DEF UploadReceive, TypeOK
  <2>2. Size[content[u]] \in Nat
    BY <2>1
  <2>3. staged' \in [Uploads -> Nat]
    BY <1>2, <2>2 DEF UploadReceive, TypeOK
  <2> QED
    BY <1>2, <2>3 DEF UploadReceive, TypeOK, memory, PCs, PersistEnds
<1>3. CASE UploadReject(u)
  <2>1. staged' \in [Uploads -> Nat]
    BY <1>3 DEF UploadReject, TypeOK
  <2> QED
    BY <1>3, <2>1 DEF UploadReject, TypeOK, memory, PCs, PersistEnds
<1>4. CASE UploadRemoveTemp(u)
  BY <1>4 DEF UploadRemoveTemp, TypeOK, memory, PCs, PersistEnds
<1>5. CASE UploadRelease(u)
  <2>1. reservedBytes' \in Nat
    BY <1>5 DEF UploadRelease, Released, TypeOK
  <2> QED
    BY <1>5, <2>1 DEF UploadRelease, TypeOK, durable, PCs
<1> QED
  BY <1>1, <1>2, <1>3, <1>4, <1>5

\* What a deletion, single or batched, does to the index: it only removes, turns
\* records into orphans, or saves the records that are left.
LEMMA DeletionFacts ==
  ASSUME TypeOK,
         \/ \E id \in Ids : DeleteFile(id)
         \/ \E ids \in SUBSET Ids : BatchDelete(ids)
  PROVE  /\ records' \in Indexes /\ index' \in Indexes
         /\ orphans' \subseteq Ids /\ objects' \subseteq objects
         /\ told' \in [Ids -> Answers]
         /\ up /\ UNCHANGED <<staged, up, reservedBytes, request, now, healthy>>
         /\ \E done \in SUBSET DOMAIN records :
              /\ DOMAIN records' = (DOMAIN records) \ done
              /\ orphans' \subseteq orphans \cup done
         /\ index' = index \/ DOMAIN index' \subseteq DOMAIN records
<1>1. /\ records \in Indexes /\ index \in Indexes /\ orphans \subseteq Ids
      /\ objects \subseteq Ids /\ DOMAIN records \subseteq Ids
  BY IndexParts DEF TypeOK
<1>2. \A S \in SUBSET Ids :
        /\ Drop(records, S) \in Indexes
        /\ DOMAIN Drop(records, S) = (DOMAIN records) \ S
  BY <1>1, DropFacts
<1>3. ASSUME NEW id \in Ids, DeleteFile(id)
      PROVE  /\ records' \in Indexes /\ index' \in Indexes
             /\ orphans' \subseteq Ids /\ objects' \subseteq objects
             /\ \E done \in SUBSET DOMAIN records :
                  /\ DOMAIN records' = (DOMAIN records) \ done
                  /\ orphans' \subseteq orphans \cup done
             /\ index' = index \/ DOMAIN index' \subseteq DOMAIN records
  <2> DEFINE one == {id}
  <2>1. one \in SUBSET Ids /\ one \in SUBSET DOMAIN records
    BY <1>3 DEF DeleteFile
  <2>2. /\ Drop(records, one) \in Indexes
        /\ DOMAIN Drop(records, one) = (DOMAIN records) \ one
    BY <1>2, <2>1
  <2>3. CASE Install([Image EXCEPT !.records = Drop(@, one), !.objects = @ \ one,
                                   !.index = Drop(records, one)])
    BY <1>1, <2>1, <2>2, <2>3 DEF Install, Image
  <2>4. CASE \E left \in AfterFailedDelete(objects, one) :
               Install([Image EXCEPT !.objects = left])
    <3>1. PICK left \in AfterFailedDelete(objects, one) :
            Install([Image EXCEPT !.objects = left])
      BY <2>4
    <3>2. left \subseteq objects
      BY FailedDeleteShrinks
    <3>3. DOMAIN records = (DOMAIN records) \ {} /\ orphans \subseteq orphans \cup {}
      OBVIOUS
    <3> QED
      BY <1>1, <3>1, <3>2, <3>3 DEF Install, Image
  <2>5. CASE Install([Image EXCEPT !.records = Drop(@, one), !.objects = @ \ one,
                                   !.orphans = @ \cup one])
    BY <1>1, <2>1, <2>2, <2>5 DEF Install, Image
  <2> QED
    BY <1>3, <2>3, <2>4, <2>5 DEF DeleteFile
<1>4. ASSUME NEW ids \in SUBSET Ids, BatchDelete(ids)
      PROVE  /\ records' \in Indexes /\ index' \in Indexes
             /\ orphans' \subseteq Ids /\ objects' \subseteq objects
             /\ \E done \in SUBSET DOMAIN records :
                  /\ DOMAIN records' = (DOMAIN records) \ done
                  /\ orphans' \subseteq orphans \cup done
             /\ index' = index \/ DOMAIN index' \subseteq DOMAIN records
  <2> DEFINE hits == ids \cap DOMAIN records
             Without(done) == [Image EXCEPT !.records = Drop(@, done), !.objects = @ \ done]
  <2>1. \A done \in SUBSET hits :
          /\ Drop(records, done) \in Indexes
          /\ DOMAIN Drop(records, done) = (DOMAIN records) \ done
    BY <1>2
  <2>0. hits \in SUBSET DOMAIN records
    OBVIOUS
  <2> HIDE DEF hits
  <2>2. CASE Install([Without(hits) EXCEPT !.index = Drop(records, hits)])
    BY <1>1, <2>0, <2>1, <2>2 DEF Install, Image
  <2>3. CASE \E done \in (SUBSET hits) \ {hits} :
             \E left \in AfterFailedDelete(objects \ done, hits \ done) :
               Install([Without(done) EXCEPT !.objects = left, !.orphans = @ \cup done])
    <3>1. PICK done \in SUBSET hits :
            \E left \in AfterFailedDelete(objects \ done, hits \ done) :
              Install([Without(done) EXCEPT !.objects = left, !.orphans = @ \cup done])
      BY <2>3
    <3>2. PICK left \in AfterFailedDelete(objects \ done, hits \ done) :
            Install([Without(done) EXCEPT !.objects = left, !.orphans = @ \cup done])
      BY <3>1
    <3>3. left \subseteq objects
      BY FailedDeleteShrinks
    <3> QED
      BY <1>1, <2>0, <2>1, <3>2, <3>3 DEF Install, Image
  <2>4. CASE Install([Without(hits) EXCEPT !.orphans = @ \cup hits])
    BY <1>1, <2>0, <2>1, <2>4 DEF Install, Image
  <2> QED
    BY <1>4, <2>2, <2>3, <2>4 DEF BatchDelete, hits
<1>5. told' \in [Ids -> Answers]
  BY DEF DeleteFile, BatchDelete, Tell, TypeOK, Answers
<1> QED
  BY <1>3, <1>4, <1>5 DEF DeleteFile, BatchDelete

LEMMA DeletionTypes ==
  ASSUME TypeOK,
         \/ \E id \in Ids : DeleteFile(id)
         \/ \E ids \in SUBSET Ids : BatchDelete(ids)
  PROVE  TypeOK'
<1>1. /\ records' \in Indexes /\ index' \in Indexes
      /\ orphans' \subseteq Ids /\ objects' \subseteq objects
      /\ told' \in [Ids -> Answers]
      /\ up /\ UNCHANGED <<staged, up, reservedBytes, request, now, healthy>>
  BY DeletionFacts
<1> QED
  BY <1>1 DEF TypeOK, Answers, request

\* What reconcile makes of the disk.
LEMMA ReconciledFacts ==
  ASSUME TypeOK
  PROVE  /\ Reconciled \in Images
         /\ DOMAIN Reconciled.records \subseteq DOMAIN index
         /\ DOMAIN Reconciled.index \subseteq DOMAIN index
         /\ Reconciled.orphans = {}
         /\ Reconciled.objects \subseteq objects
<1>1. /\ index \in Indexes /\ objects \subseteq Ids
      /\ DOMAIN index \subseteq Ids /\ \A id \in DOMAIN index : index[id] \in Time
  BY IndexParts DEF TypeOK
<1>2. /\ Survivors \in [(DOMAIN index) \cap objects -> Time]
      /\ (DOMAIN index) \cap objects \in SUBSET Ids
  BY <1>1 DEF Survivors, Restrict
<1>3. Survivors \in Indexes
  BY <1>2, IndexIntro
<1>4. DOMAIN Survivors = (DOMAIN index) \cap objects
  BY DEF Survivors, Restrict
<1> QED
  BY <1>1, <1>3, <1>4 DEF Reconciled, Images

\* A start, failed or not, only removes from the disk.
LEMMA StartFacts ==
  ASSUME TypeOK, Boot \/ StartFails
  PROVE  /\ objects' \subseteq Ids
         /\ index' \in Indexes /\ DOMAIN index' \subseteq DOMAIN index
         /\ staged' \in [Uploads -> Nat]
         /\ told' \in [Ids -> Answers]
         /\ records' \in Indexes /\ DOMAIN records' \subseteq DOMAIN index
         /\ orphans' = {}
         /\ up' \in BOOLEAN
         /\ ~up' => DOMAIN records' = {}
         /\ UNCHANGED <<request, now, healthy>>
<1>1. /\ ~up /\ up \in BOOLEAN /\ orphans = {} /\ DOMAIN records = {} /\ records \in Indexes
      /\ index \in Indexes /\ objects \subseteq Ids /\ staged \in [Uploads -> Nat]
  BY DEF TypeOK, Boot, StartFails, ReconcileFails, FirstCleanupFails
<1>2. told' \in [Ids -> Answers]
  BY DEF Boot, StartFails, ReconcileFails, FirstCleanupFails, Forget, TypeOK, Answers
<1>3. \A n \in Outcomes(Reconciled) :
        /\ n \in Images
        /\ DOMAIN n.records \subseteq DOMAIN index
        /\ DOMAIN n.index \subseteq DOMAIN index
        /\ n.orphans = {}
  BY ReconciledFacts, CleanupShrinks DEF Shrinks
<1>4. CASE Boot
  <2>1. Cleaned(Reconciled) \in Outcomes(Reconciled)
    BY DEF Outcomes
  <2>2. Install(Cleaned(Reconciled))
    BY <1>4 DEF Boot
  <2>3. /\ Cleaned(Reconciled) \in Images
        /\ DOMAIN Cleaned(Reconciled).records \subseteq DOMAIN index
        /\ DOMAIN Cleaned(Reconciled).index \subseteq DOMAIN index
        /\ Cleaned(Reconciled).orphans = {}
    BY <1>3, <2>1
  <2>4. /\ objects' \subseteq Ids
        /\ index' \in Indexes /\ DOMAIN index' \subseteq DOMAIN index
        /\ records' \in Indexes /\ DOMAIN records' \subseteq DOMAIN index
        /\ orphans' = {}
    BY <2>2, <2>3 DEF Install, Images
  <2>5. staged' \in [Uploads -> Nat] /\ up' = TRUE
        /\ UNCHANGED <<request, now, healthy>>
    BY <1>4 DEF Boot
  <2> QED
    BY <1>2, <2>4, <2>5
<1>5. CASE StartFails
  <2>1. /\ staged' \in [Uploads -> Nat]
        /\ UNCHANGED <<up, records, orphans, request, now, healthy>>
    BY <1>1, <1>5 DEF StartFails, ReconcileFails, FirstCleanupFails, memory
  <2>2. objects' \subseteq Ids /\ index' \in Indexes /\ DOMAIN index' \subseteq DOMAIN index
    <3>1. CASE \E m \in CleanupFailures(Reconciled) : objects' = m.objects /\ index' = m.index
      BY <1>3, <3>1 DEF Outcomes, Images
    <3>2. CASE index' = index /\ objects' \subseteq objects
      BY <1>1, <3>2
    <3> QED
      BY <1>5, <3>1, <3>2 DEF StartFails, ReconcileFails, FirstCleanupFails
  <2>3. /\ records' \in Indexes /\ DOMAIN records' = {} /\ orphans' = {}
        /\ up' \in BOOLEAN
    BY <1>1, <2>1
  <2>4. DOMAIN records' \subseteq DOMAIN index
    BY <2>3
  <2> QED
    BY <1>2, <2>1, <2>2, <2>3, <2>4
<1> QED
  BY <1>4, <1>5

\* Everything else keeps the types.
LEMMA RestTypes ==
  ASSUME TypeOK, CleanupTick \/ Crash \/ Start \/ StartFails \/ Tick \/ Stabilize
  PROVE  TypeOK'
<1> USE ServiceAssumption
<1>1. CASE CleanupTick
  <2>1. CleanupSucceeds \/ CleanupFails
    BY <1>1 DEF CleanupTick
  <2> QED
    BY <1>1, <2>1, SweepFacts DEF CleanupTick, TypeOK, Answers, request
<1>2. CASE Crash
  BY <1>2, EmptyFacts DEF Crash, TypeOK, durable, PCs
<1>3. CASE Start \/ StartFails
  <2>1. UNCHANGED reservedBytes
    BY <1>3 DEF Start, StartFails, ReconcileFails, FirstCleanupFails, memory
  <2>2. ~up /\ (Boot \/ StartFails)
    BY <1>3 DEF Start, Boot, StartFails, ReconcileFails, FirstCleanupFails
  <2> QED
    BY <2>1, <2>2, StartFacts DEF TypeOK, Answers, request
<1>4. CASE Tick
  BY <1>4 DEF Tick, TypeOK, durable, memory, request, Time
<1>5. CASE Stabilize
  BY <1>5 DEF Stabilize, TypeOK, durable, memory, request
<1> QED
  BY <1>1, <1>2, <1>3, <1>4, <1>5

LEMMA InitTypes ==
  ASSUME Init
  PROVE  TypeOK
<1>1. /\ objects = {} /\ index = Empty /\ staged = [u \in Uploads |-> 0]
      /\ up = FALSE /\ records = Empty /\ orphans = {} /\ reservedBytes = 0
      /\ pc = [u \in Uploads |-> "idle"] /\ content = [u \in Uploads |-> NoId]
      /\ reservation = [u \in Uploads |-> 0] /\ told = [id \in Ids |-> "none"]
      /\ now = 0 /\ healthy \in BOOLEAN
  BY DEF Init
<1>2. index \in Indexes /\ records \in Indexes /\ DOMAIN records = {}
  BY <1>1, EmptyFacts
<1>3. now \in Time
  BY <1>1, ServiceAssumption DEF Time
<1> QED
  BY <1>1, <1>2, <1>3 DEF TypeOK, PCs, PersistEnds

LEMMA NextTypes ==
  ASSUME TypeOK, [Next]_vars
  PROVE  TypeOK'
<1>1. CASE UNCHANGED vars
  BY <1>1 DEF vars, durable, memory, request, TypeOK
<1>2. CASE Next
  BY <1>2, ReserveTypes, RequestTypes, PersistTypes, DeletionTypes, RestTypes
     DEF Next, UploadStep
<1> QED
  BY <1>1, <1>2

\* Every variable keeps its type.
THEOREM TypeCorrect == Spec => []TypeOK
<1>1. Init => TypeOK
  BY InitTypes
<1>2. TypeOK /\ [Next]_vars => TypeOK'
  BY NextTypes
<1> QED
  BY <1>1, <1>2, PTL DEF Spec

----------------------------------------------------------------------------
(* Byte sums over contents and over requests.                              *)

\* Sums of sizes are numbers and grow with the set.
LEMMA SizeTotals ==
  ASSUME NEW S \in SUBSET Ids
  PROVE  /\ IsFiniteSet(S) /\ Total(S, Size) \in Nat
         /\ \A T \in SUBSET S : Total(T, Size) <= Total(S, Size)
<1>1. IsFiniteSet(S) /\ \A x \in S : Size[x] \in Nat
  BY ServiceAssumption, FS_Subset
<1>2. Total(S, Size) \in Nat
  BY <1>1, TotalType
<1>3. ASSUME NEW T \in SUBSET S
      PROVE  Total(T, Size) <= Total(S, Size)
  BY <1>1, TotalMonotone
<1> QED
  BY <1>1, <1>2, <1>3

\* Joining two sets of contents adds at most their sums.
LEMMA SizeUnion ==
  ASSUME NEW S \in SUBSET Ids, NEW T \in SUBSET Ids
  PROVE  Total(S \cup T, Size) <= Total(S, Size) + Total(T, Size)
<1>1. IsFiniteSet(S) /\ IsFiniteSet(T) /\ \A x \in S \cup T : Size[x] \in Nat
  BY ServiceAssumption, FS_Subset
<1> QED
  BY <1>1, TotalSubadditive

\* Adding a content adds at most its size.
LEMMA SizeAdd ==
  ASSUME NEW S \in SUBSET Ids, NEW id \in Ids
  PROVE  Total(S \cup {id}, Size) <= Total(S, Size) + Size[id]
<1>1. Size[id] \in Nat /\ Total({id}, Size) = Size[id]
  BY ServiceAssumption, TotalOne
<1> DEFINE one == {id}
<1>2. one \in SUBSET Ids
  OBVIOUS
<1>3. Total(S \cup one, Size) <= Total(S, Size) + Total(one, Size)
  <2> HIDE DEF one
  <2> QED
    BY <1>2, SizeUnion
<1> QED
  BY <1>1, <1>3

\* Removing some contents of a set removes exactly their sum.
LEMMA SizeSplit ==
  ASSUME NEW S \in SUBSET Ids, NEW T \in SUBSET S
  PROVE  Total(S, Size) = Total(S \ T, Size) + Total(T, Size)
<1> DEFINE rest == S \ T
<1>1. IsFiniteSet(rest) /\ IsFiniteSet(T) /\ rest \cap T = {}
      /\ \A x \in rest \cup T : Size[x] \in Nat
  BY ServiceAssumption, FS_Subset
<1>2. rest \cup T = S
  OBVIOUS
<1>3. Total(rest \cup T, Size) = Total(rest, Size) + Total(T, Size)
  <2> HIDE DEF rest
  <2> QED
    BY <1>1, TotalUnion
<1> QED
  BY <1>2, <1>3

\* Sums of reservations are numbers and grow with the set.
LEMMA HeldTotals ==
  ASSUME NEW r \in [Uploads -> Nat], NEW S \in SUBSET Uploads
  PROVE  /\ Total(S, r) \in Nat
         /\ \A T \in SUBSET S : Total(T, r) <= Total(S, r)
<1>1. IsFiniteSet(S) /\ \A x \in S : r[x] \in Nat
  BY ServiceAssumption, FS_Subset
<1>2. Total(S, r) \in Nat
  BY <1>1, TotalType
<1>3. ASSUME NEW T \in SUBSET S
      PROVE  Total(T, r) <= Total(S, r)
  BY <1>1, TotalMonotone
<1> QED
  BY <1>2, <1>3

\* One request's share of a sum.
LEMMA HeldSplit ==
  ASSUME NEW r \in [Uploads -> Nat], NEW S \in SUBSET Uploads, NEW u \in S
  PROVE  Total(S, r) = Total(S \ {u}, r) + r[u]
<1>1. IsFiniteSet(S) /\ \A x \in S : r[x] \in Nat
  BY ServiceAssumption, FS_Subset
<1>2. Total(S \ {u}, r) = Total(S, r) - r[u]
  BY <1>1, TotalRemove
<1>3. Total(S, r) \in Nat /\ r[u] \in Nat
  BY <1>1, TotalType
<1> QED
  BY <1>2, <1>3

\* Changing what one request holds changes the sum by the difference.
LEMMA HeldChange ==
  ASSUME NEW r \in [Uploads -> Nat], NEW q \in [Uploads -> Nat],
         NEW S \in SUBSET Uploads, NEW u \in S,
         \A v \in Uploads \ {u} : q[v] = r[v]
  PROVE  Total(S, q) = Total(S, r) - r[u] + q[u]
<1>1. Total(S, r) = Total(S \ {u}, r) + r[u] /\ Total(S, q) = Total(S \ {u}, q) + q[u]
  BY HeldSplit
<1>2. Total(S \ {u}, q) = Total(S \ {u}, r)
  <2> DEFINE T == S \ {u}
  <2>1. \A v \in T : q[v] = r[v]
    OBVIOUS
  <2> HIDE DEF T
  <2>2. Total(T, q) = Total(T, r)
    BY <2>1, TotalSame
  <2> QED
    BY <2>2 DEF T
<1>3. Total(S \ {u}, r) \in Nat /\ r[u] \in Nat /\ q[u] \in Nat
  <2> DEFINE T == S \ {u}
  <2>1. T \in SUBSET Uploads
    OBVIOUS
  <2> HIDE DEF T
  <2>2. Total(T, r) \in Nat
    BY <2>1, HeldTotals
  <2> QED
    BY <2>2 DEF T
<1> QED
  BY <1>1, <1>2, <1>3

----------------------------------------------------------------------------
(* What is stored fits the limit, whatever the ledger holds: persist checks *)
(* the content it adds.                                                    *)

\* The sets and sums the capacity checks are about.
Sums ==
  /\ DOMAIN records \in SUBSET Ids /\ orphans \in SUBSET Ids
  /\ DOMAIN index \in SUBSET Ids /\ Pending \in SUBSET Uploads
  /\ Total(DOMAIN records, Size) \in Nat /\ Total(orphans, Size) \in Nat
  /\ Total(DOMAIN index, Size) \in Nat
  /\ Total(Pending, reservation) \in Nat
  /\ reservation \in [Uploads -> Nat] /\ reservedBytes \in Nat

\* The sums of a well-typed state are numbers.
LEMMA CapacityNumbers == TypeOK => Sums
<1> SUFFICES ASSUME TypeOK
             PROVE  Sums
  OBVIOUS
<1>1. /\ DOMAIN records \in SUBSET Ids /\ orphans \in SUBSET Ids
      /\ DOMAIN index \in SUBSET Ids
      /\ reservation \in [Uploads -> Nat] /\ reservedBytes \in Nat
  BY IndexParts DEF TypeOK
<1>2. Pending \in SUBSET Uploads
  BY DEF Pending
<1> QED
  BY <1>1, <1>2, SizeTotals, HeldTotals DEF Sums

\* So are those of the next state.
LEMMA NextNumbers == TypeOK' => Sums'
BY CapacityNumbers, PTL

\* Fewer records and orphans use fewer bytes.
LEMMA UsedShrinks ==
  ASSUME TypeOK, NEW rec, NEW orph,
         DOMAIN rec \subseteq DOMAIN records, orph \subseteq orphans
  PROVE  /\ UsedBytes(rec, orph) <= UsedBytes(records, orphans)
         /\ UsedBytes(rec, orph) \in Nat /\ UsedBytes(records, orphans) \in Nat
<1> DEFINE D == DOMAIN rec
<1>1. D \in SUBSET Ids /\ D \in SUBSET DOMAIN records /\ orph \in SUBSET Ids
      /\ orph \in SUBSET orphans
      /\ DOMAIN records \in SUBSET Ids /\ orphans \in SUBSET Ids
  BY CapacityNumbers DEF Sums
<1> HIDE DEF D
<1>2. /\ Total(D, Size) \in Nat /\ Total(D, Size) <= Total(DOMAIN records, Size)
      /\ Total(orph, Size) \in Nat /\ Total(orph, Size) <= Total(orphans, Size)
      /\ Total(DOMAIN records, Size) \in Nat /\ Total(orphans, Size) \in Nat
  BY <1>1, SizeTotals
<1> QED
  BY <1>2 DEF UsedBytes, D

\* The index written by a step fits once the records and orphans do.
LEMMA StoredFits ==
  ASSUME TypeOK, TypeOK', StoredWithin,
         UsedBytes(records', orphans') <= MaxStorageBytes,
         \/ DOMAIN index' \subseteq DOMAIN index
         \/ DOMAIN index' \subseteq DOMAIN records
         \/ DOMAIN index' = DOMAIN records'
  PROVE  StoredWithin'
<1>1. /\ DOMAIN records \in SUBSET Ids /\ DOMAIN index \in SUBSET Ids
      /\ Total(DOMAIN records, Size) \in Nat /\ Total(orphans, Size) \in Nat
      /\ Total(DOMAIN index, Size) \in Nat
  BY CapacityNumbers DEF Sums
<1>2. /\ Total(DOMAIN records', Size) \in Nat /\ Total(orphans', Size) \in Nat
      /\ Total(DOMAIN index', Size) \in Nat
  BY NextNumbers DEF Sums
<1>3. MaxStorageBytes \in Nat
  BY ServiceAssumption
<1>4. CASE DOMAIN index' \subseteq DOMAIN index
  <2>1. Total(DOMAIN index', Size) <= Total(DOMAIN index, Size)
    BY <1>1, <1>4, SizeTotals
  <2> QED
    BY <1>1, <1>2, <1>3, <2>1 DEF StoredWithin
<1>5. CASE DOMAIN index' \subseteq DOMAIN records
  <2>1. Total(DOMAIN index', Size) <= Total(DOMAIN records, Size)
    BY <1>1, <1>5, SizeTotals
  <2> QED
    BY <1>1, <1>2, <1>3, <2>1 DEF StoredWithin, UsedBytes
<1>6. CASE DOMAIN index' = DOMAIN records'
  BY <1>1, <1>2, <1>3, <1>6 DEF StoredWithin, UsedBytes
<1> QED
  BY <1>4, <1>5, <1>6

\* A step that only removes keeps the stored bytes within the limit.
LEMMA RemovalStored ==
  ASSUME TypeOK, TypeOK', StoredWithin, RemovesOnly
  PROVE  StoredWithin'
<1>1. /\ UsedBytes(records', orphans') <= UsedBytes(records, orphans)
      /\ UsedBytes(records', orphans') \in Nat /\ UsedBytes(records, orphans) \in Nat
  BY UsedShrinks DEF RemovesOnly
<1>2. UsedBytes(records', orphans') <= MaxStorageBytes
  BY <1>1, ServiceAssumption DEF StoredWithin
<1> QED
  BY <1>2, StoredFits DEF RemovesOnly

\* The bytes a persist adds fit beside what the ledger holds for the others.
LEMMA AddedFits ==
  ASSUME TypeOK, TypeOK', NEW id \in Ids, NEW reserved \in Nat, NEW how,
         AddsContent(id, reserved, how)
  PROVE  /\ UsedBytes(records', orphans') <= MaxStorageBytes - (reservedBytes - reserved)
         /\ 0 <= reservedBytes - reserved
         /\ \/ DOMAIN index' \subseteq DOMAIN index
            \/ DOMAIN index' \subseteq DOMAIN records
            \/ DOMAIN index' = DOMAIN records'
<1>1. PICK c \in Images :
        /\ Shrinks(Image, c) /\ Fits(id, reserved, c)
        /\ \/ /\ DOMAIN records' = DOMAIN c.records \cup {id}
              /\ orphans' \subseteq c.orphans
              /\ DOMAIN index' = DOMAIN records'
           \/ /\ records' = c.records
              /\ orphans' = c.orphans \cup {id}
              /\ index' = c.index
  BY DEF AddsContent
<1> DEFINE size == Size[id]
           D == DOMAIN c.records
           others == reservedBytes - reserved
<1>2. /\ size \in Nat /\ D \in SUBSET Ids /\ c.orphans \in SUBSET Ids
      /\ DOMAIN c.index \subseteq DOMAIN index \/ DOMAIN c.index \subseteq DOMAIN records
  BY <1>1, ServiceAssumption, IndexParts, ImageFacts DEF Images, Shrinks
<1>3. Total(D, Size) \in Nat /\ Total(c.orphans, Size) \in Nat
  BY <1>2, SizeTotals
<1>4. UsedBytes(records', orphans') <= UsedBytes(c.records, c.orphans) + size
  <2>1. Total(D \cup {id}, Size) <= Total(D, Size) + size
    BY <1>2, SizeAdd
  <2>2. Total(c.orphans \cup {id}, Size) <= Total(c.orphans, Size) + size
    BY <1>2, SizeAdd
  <2>3. Total(DOMAIN records', Size) \in Nat /\ Total(orphans', Size) \in Nat
    BY NextNumbers DEF Sums
  <2>4. CASE DOMAIN records' = D \cup {id} /\ orphans' \subseteq c.orphans
    <3>1. Total(orphans', Size) <= Total(c.orphans, Size)
      BY <1>2, <2>4, SizeTotals
    <3>2. Total(DOMAIN records', Size) <= Total(D, Size) + size
      BY <2>1, <2>4
    <3> QED
      BY <1>2, <1>3, <2>3, <3>1, <3>2 DEF UsedBytes
  <2>5. CASE records' = c.records /\ orphans' = c.orphans \cup {id}
    <3>1. Total(orphans', Size) <= Total(c.orphans, Size) + size
      BY <2>2, <2>5
    <3>2. Total(DOMAIN records', Size) = Total(D, Size)
      BY <2>5
    <3> QED
      BY <1>2, <1>3, <2>3, <3>1, <3>2 DEF UsedBytes
  <2> QED
    BY <1>1, <2>4, <2>5
<1>5. UsedBytes(c.records, c.orphans) <= MaxStorageBytes - others - size /\ 0 <= others
  BY <1>1 DEF Fits
<1>6. UsedBytes(records', orphans') \in Nat /\ UsedBytes(c.records, c.orphans) \in Nat
  BY <1>3, NextNumbers DEF Sums, UsedBytes
<1>7. UsedBytes(records', orphans') <= MaxStorageBytes - others
  <2>1. others \in Int /\ MaxStorageBytes \in Nat
    BY ServiceAssumption DEF TypeOK
  <2> QED
    BY <1>2, <1>4, <1>5, <1>6, <2>1
<1> QED
  BY <1>1, <1>2, <1>5, <1>7

\* So what is stored stays within the limit, whatever the ledger holds.
LEMMA AddedStored ==
  ASSUME TypeOK, TypeOK', StoredWithin, NEW id \in Ids, NEW reserved \in Nat, NEW how,
         AddsContent(id, reserved, how)
  PROVE  StoredWithin'
<1>1. /\ UsedBytes(records', orphans') <= MaxStorageBytes - (reservedBytes - reserved)
      /\ 0 <= reservedBytes - reserved
      /\ \/ DOMAIN index' \subseteq DOMAIN index
         \/ DOMAIN index' \subseteq DOMAIN records
         \/ DOMAIN index' = DOMAIN records'
  BY AddedFits
<1>2. UsedBytes(records', orphans') \in Nat /\ reservedBytes \in Nat /\ MaxStorageBytes \in Nat
  BY NextNumbers, ServiceAssumption DEF Sums, UsedBytes, TypeOK
<1>3. UsedBytes(records', orphans') <= MaxStorageBytes
  BY <1>1, <1>2
<1> QED
  BY <1>1, <1>3, StoredFits

\* A deletion moves bytes from the records to the orphans at most.
LEMMA DeletionUsed ==
  ASSUME TypeOK, TypeOK',
         \/ \E id \in Ids : DeleteFile(id)
         \/ \E ids \in SUBSET Ids : BatchDelete(ids)
  PROVE  /\ UsedBytes(records', orphans') <= UsedBytes(records, orphans)
         /\ UsedBytes(records', orphans') \in Nat /\ UsedBytes(records, orphans) \in Nat
<1>1. PICK done \in SUBSET DOMAIN records :
        /\ DOMAIN records' = (DOMAIN records) \ done
        /\ orphans' \subseteq orphans \cup done
  BY DeletionFacts
<1>2. DOMAIN records \in SUBSET Ids /\ orphans \in SUBSET Ids /\ done \in SUBSET Ids
  BY <1>1, CapacityNumbers DEF Sums
<1>3. Total(DOMAIN records, Size) = Total(DOMAIN records', Size) + Total(done, Size)
  BY <1>1, <1>2, SizeSplit
<1>4. Total(orphans', Size) <= Total(orphans, Size) + Total(done, Size)
  <2> DEFINE both == orphans \cup done
  <2>1. both \in SUBSET Ids /\ orphans' \in SUBSET both
    BY <1>1, <1>2
  <2>2. Total(both, Size) <= Total(orphans, Size) + Total(done, Size)
    BY <1>2, SizeUnion
  <2> HIDE DEF both
  <2>3. Total(orphans', Size) <= Total(both, Size) /\ Total(both, Size) \in Nat
    BY <2>1, SizeTotals
  <2> QED
    BY <1>2, <2>2, <2>3, NextNumbers, CapacityNumbers, SizeTotals DEF Sums
<1>5. /\ Total(DOMAIN records', Size) \in Nat /\ Total(done, Size) \in Nat
      /\ Total(orphans, Size) \in Nat /\ Total(orphans', Size) \in Nat
      /\ Total(DOMAIN records, Size) \in Nat
  BY <1>2, SizeTotals, NextNumbers, CapacityNumbers DEF Sums
<1> QED
  BY <1>3, <1>4, <1>5 DEF UsedBytes

\* A start brings back at most what the index lists.
LEMMA StartStored ==
  ASSUME TypeOK, TypeOK', StoredWithin,
         DOMAIN records' \subseteq DOMAIN index, orphans' = {},
         DOMAIN index' \subseteq DOMAIN index
  PROVE  StoredWithin'
<1>1. Total(orphans', Size) = 0
  BY TotalEmpty
<1>2. Total(DOMAIN records', Size) <= Total(DOMAIN index, Size)
  BY CapacityNumbers, SizeTotals DEF Sums
<1>3. UsedBytes(records', orphans') <= MaxStorageBytes
  BY <1>1, <1>2, NextNumbers, CapacityNumbers, ServiceAssumption
     DEF Sums, UsedBytes, StoredWithin
<1> QED
  BY <1>3, StoredFits

\* Every step of the service keeps the stored bytes within the limit.
LEMMA NextStored ==
  ASSUME TypeOK, StoredWithin, [Next]_vars
  PROVE  StoredWithin'
<1>1. TypeOK'
  BY NextTypes
<1>2. CASE UNCHANGED <<records, orphans, index>>
  BY <1>2 DEF StoredWithin, UsedBytes
<1>3. CASE CleanupSucceeds \/ CleanupFails
  BY <1>1, <1>3, SweepFacts, RemovalStored DEF RemovesOnly
<1>4. ASSUME NEW u \in Uploads, UploadReserve(u)
      PROVE  StoredWithin'
  BY <1>3, <1>4 DEF UploadReserve
<1>5. ASSUME NEW u \in Uploads, UploadPersist(u)
      PROVE  StoredWithin'
  <2>1. content[u] \in Ids /\ reservation[u] \in Nat
    BY <1>5 DEF TypeOK, UploadPersist
  <2> QED
    BY <1>1, <1>5, <2>1, PersistFacts, RemovalStored, AddedStored DEF Only, Adds
<1>6. ASSUME NEW u \in Uploads,
             \/ UploadRefused(u) \/ UploadReceive(u) \/ UploadReject(u)
             \/ UploadRemoveTemp(u) \/ UploadRelease(u)
      PROVE  UNCHANGED <<records, orphans, index>>
  BY <1>6 DEF UploadRefused, UploadReceive, UploadReject, UploadRemoveTemp, UploadRelease,
              durable, memory
<1>7. CASE \/ \E id \in Ids : DeleteFile(id)
           \/ \E ids \in SUBSET Ids : BatchDelete(ids)
  <2>1. /\ UsedBytes(records', orphans') <= UsedBytes(records, orphans)
        /\ UsedBytes(records', orphans') \in Nat /\ UsedBytes(records, orphans) \in Nat
    BY <1>1, <1>7, DeletionUsed
  <2>2. UsedBytes(records', orphans') <= MaxStorageBytes
    BY <2>1, ServiceAssumption DEF StoredWithin
  <2> QED
    BY <1>1, <1>7, <2>2, DeletionFacts, StoredFits
<1>8. CASE CleanupTick
  BY <1>3, <1>8 DEF CleanupTick
<1>9. CASE Crash
  BY <1>1, <1>9, RemovalStored, EmptyFacts DEF Crash, durable, RemovesOnly
<1>10. CASE Start \/ StartFails
  BY <1>1, <1>10, StartFacts, StartStored DEF Start
<1>11. CASE Tick \/ Stabilize \/ UNCHANGED vars
  BY <1>2, <1>11 DEF Tick, Stabilize, vars, durable, memory
<1> QED
  BY <1>2, <1>4, <1>5, <1>6, <1>7, <1>8, <1>9, <1>10, <1>11 DEF Next, UploadStep

----------------------------------------------------------------------------
(* The ledger and the room of the requests in flight, beside x bytes that  *)
(* other users of the same ledger hold.                                    *)

\* The ledger holds the reservations of the requests, and x bytes more.
Covers(x) == Total(Uploads, reservation) + x <= reservedBytes

\* What is stored, what is pending, and x bytes more fit the limit.
Room(x) == UsedBytes(records, orphans) + Total(Pending, reservation) + x <= MaxStorageBytes

\* The ledger moves with what the requests hold.
Balanced == reservedBytes' - Total(Uploads, reservation')
              = reservedBytes - Total(Uploads, reservation)

LEMMA RoomAlone == TypeOK => (NoOvercommit <=> Room(0) /\ StoredWithin)
<1> SUFFICES ASSUME TypeOK
             PROVE  NoOvercommit <=> Room(0) /\ StoredWithin
  OBVIOUS
<1>1. UsedBytes(records, orphans) \in Nat /\ Total(Pending, reservation) \in Nat
  BY CapacityNumbers DEF Sums, UsedBytes
<1> QED
  BY <1>1, ServiceAssumption DEF NoOvercommit, Room, StoredWithin

\* A step that keeps what is held and pending keeps its room, if the store shrinks.
LEMMA ShrinkingStep ==
  ASSUME TypeOK, TypeOK', NEW x \in Nat, Room(x),
         UsedBytes(records', orphans') <= UsedBytes(records, orphans),
         Total(Pending', reservation') <= Total(Pending, reservation)
  PROVE  Room(x)'
<1>1. /\ UsedBytes(records', orphans') \in Nat /\ UsedBytes(records, orphans) \in Nat
      /\ Total(Pending, reservation) \in Nat /\ Total(Pending', reservation') \in Nat
  BY CapacityNumbers, NextNumbers DEF Sums, UsedBytes
<1> QED
  BY <1>1, ServiceAssumption DEF Room

\* reserve balances the ledger and commits no more than the limit.
LEMMA ReserveRoom ==
  ASSUME TypeOK, TypeOK', NEW x \in Nat, Covers(x), Room(x),
         NEW u \in Uploads, UploadReserve(u)
  PROVE  Balanced /\ Room(x)'
<1>1. CleanupSucceeds \/ CleanupFails
  BY DEF UploadReserve
<1>2. UsedBytes(records', orphans') <= UsedBytes(records, orphans)
  BY <1>1, SweepFacts, UsedShrinks
<1>3. CASE UNCHANGED <<reservedBytes, request>>
  <2>1. Pending' = Pending /\ reservation' = reservation /\ reservedBytes' = reservedBytes
    BY <1>3 DEF Pending, request
  <2>2. Total(Pending', reservation') <= Total(Pending, reservation)
    BY <2>1, CapacityNumbers DEF Sums
  <2> QED
    BY <1>2, <2>1, <2>2, ShrinkingStep DEF Balanced
<1>4. ASSUME NEW id \in Ids, NEW length \in ContentLengths(id),
             CleanupSucceeds, pc[u] = "idle",
             Reservable(Reservation(length), Cleaned(Image)),
             reservedBytes' = reservedBytes + Reservation(length),
             reservation' = [reservation EXCEPT ![u] = Reservation(length)]
      PROVE  Balanced /\ Room(x)'
  <2> DEFINE bytes == Reservation(length)
  <2>1. bytes \in Nat
    BY <1>4, ServiceAssumption DEF ContentLengths, Reservation
  <2>2. /\ reservation \in [Uploads -> Nat] /\ reservation' \in [Uploads -> Nat]
        /\ reservation[u] = 0 /\ reservation'[u] = bytes
        /\ \A v \in Uploads \ {u} : reservation'[v] = reservation[v]
    BY <1>4, <2>1 DEF TypeOK
  <2>3. Total(Uploads, reservation') = Total(Uploads, reservation) - reservation[u] + reservation'[u]
    BY <2>2, HeldChange
  <2>4. /\ Total(Uploads, reservation) \in Nat /\ Total(Uploads, reservation') \in Nat
        /\ reservedBytes \in Nat
    BY <2>2, HeldTotals DEF TypeOK
  <2> HIDE DEF bytes
  <2>5. Total(Uploads, reservation') = Total(Uploads, reservation) + bytes
    BY <2>1, <2>2, <2>3, <2>4
  <2>6. Balanced
    BY <1>4, <2>1, <2>4, <2>5 DEF Balanced, bytes
  <2>7. UsedBytes(records', orphans') <= MaxStorageBytes - reservedBytes - bytes
    BY <1>4, ImageFacts DEF Reservable, CleanupSucceeds, Install, bytes
  <2>8. Total(Pending', reservation') <= Total(Uploads, reservation')
    BY <2>2, HeldTotals DEF Pending
  <2>9. Total(Pending', reservation') \in Nat /\ UsedBytes(records', orphans') \in Nat
    BY NextNumbers DEF Sums, UsedBytes
  <2>10. Room(x)'
    BY <2>1, <2>4, <2>5, <2>7, <2>8, <2>9, ServiceAssumption DEF Covers, Room
  <2> QED
    BY <2>6, <2>10
<1>5. CASE /\ pc[u] = "idle"
           /\ pc' = [pc EXCEPT ![u] = "refused"]
           /\ UNCHANGED <<reservedBytes, reservation>>
  <2>1. Pending' = Pending
    BY <1>5 DEF Pending, TypeOK
  <2>2. Total(Pending', reservation') <= Total(Pending, reservation)
    BY <1>5, <2>1, CapacityNumbers DEF Sums
  <2> QED
    BY <1>2, <1>5, <2>2, ShrinkingStep DEF Balanced
<1> QED
  BY <1>3, <1>4, <1>5 DEF UploadReserve

\* persist turns a reservation into stored bytes without passing the limit.
LEMMA PersistRoom ==
  ASSUME TypeOK, TypeOK', NEW x \in Nat, Covers(x), Room(x),
         NEW u \in Uploads, UploadPersist(u)
  PROVE  Balanced /\ Room(x)'
<1>1. /\ pc[u] = "received" /\ content[u] \in Ids /\ reservation[u] \in Nat
      /\ UNCHANGED <<reservedBytes, content, reservation>>
  BY DEF UploadPersist, TypeOK
<1>2. Balanced
  BY <1>1 DEF Balanced
<1>3. CASE Only(u)
  <2>1. Pending' = Pending
    BY <1>1, <1>3 DEF Pending, TypeOK, Only, Neutral
  <2>2. Total(Pending', reservation') <= Total(Pending, reservation)
    BY <1>1, <2>1, CapacityNumbers DEF Sums
  <2>3. UsedBytes(records', orphans') <= UsedBytes(records, orphans)
    BY <1>3, UsedShrinks DEF Only, RemovesOnly
  <2> QED
    BY <1>2, <2>2, <2>3, ShrinkingStep
<1>4. CASE Adds(u)
  <2> DEFINE others == reservedBytes - reservation[u]
             rest == Uploads \ {u}
  <2>1. UsedBytes(records', orphans') <= MaxStorageBytes - others
    BY <1>1, <1>4, AddedFits DEF Adds
  <2>2. Pending' \in SUBSET rest /\ rest \in SUBSET Uploads
    BY <1>1, <1>4 DEF Pending, TypeOK, Adds
  <2>3. reservation \in [Uploads -> Nat]
    BY DEF TypeOK
  <2>4. Total(Uploads, reservation) = Total(rest, reservation) + reservation[u]
    BY <2>3, HeldSplit
  <2> HIDE DEF rest
  <2>5. Total(Pending', reservation) <= Total(rest, reservation) /\ Total(rest, reservation) \in Nat
    BY <2>2, <2>3, HeldTotals
  <2>6. UsedBytes(records', orphans') \in Nat /\ Total(Pending', reservation') \in Nat
    BY NextNumbers DEF Sums, UsedBytes
  <2>7. reservedBytes \in Nat /\ MaxStorageBytes \in Nat
    BY ServiceAssumption DEF TypeOK
  <2>8. Room(x)'
    BY <1>1, <2>1, <2>4, <2>5, <2>6, <2>7 DEF Covers, Room
  <2> QED
    BY <1>2, <2>8
<1> QED
  BY <1>3, <1>4, PersistFacts

\* The steps of a request outside the lock change no sum but what they release.
LEMMA RequestRoom ==
  ASSUME TypeOK, TypeOK', NEW x \in Nat, Covers(x), Room(x), NEW u \in Uploads,
         \/ UploadRefused(u) \/ UploadReceive(u) \/ UploadReject(u)
         \/ UploadRemoveTemp(u) \/ UploadRelease(u)
  PROVE  Balanced /\ Room(x)'
<1>1. UNCHANGED <<records, orphans>>
  BY DEF UploadRefused, UploadReceive, UploadReject, UploadRemoveTemp, UploadRelease,
         durable, memory
<1>2. UsedBytes(records', orphans') <= UsedBytes(records, orphans)
  BY <1>1, CapacityNumbers DEF Sums, UsedBytes
<1>3. CASE UploadRelease(u)
  <2>1. /\ reservation \in [Uploads -> Nat] /\ reservation' \in [Uploads -> Nat]
        /\ reservation'[u] = 0 /\ \A v \in Uploads \ {u} : reservation'[v] = reservation[v]
    BY <1>3 DEF UploadRelease, TypeOK
  <2>2. Total(Uploads, reservation') = Total(Uploads, reservation) - reservation[u] + reservation'[u]
    BY <2>1, HeldChange
  <2>3. Total(Uploads, reservation') \in Nat /\ Total(Uploads, reservation) \in Nat
    BY <2>1, HeldTotals
  <2>4. /\ reservedBytes' = Released(reservation[u]) /\ reservation[u] \in Nat
        /\ reservedBytes \in Nat
    BY <1>3, <2>1 DEF UploadRelease, TypeOK
  <2>5. Balanced
    BY <2>1, <2>2, <2>3, <2>4 DEF Balanced, Covers, Released
  <2>6. Pending' = Pending /\ u \notin Pending
    BY <1>3 DEF UploadRelease, Pending, TypeOK
  <2>7. Total(Pending, reservation') = Total(Pending, reservation)
    <3>1. \A v \in Pending : reservation'[v] = reservation[v]
      BY <2>1, <2>6 DEF Pending
    <3> QED
      BY <3>1, TotalSame
  <2>8. Total(Pending', reservation') <= Total(Pending, reservation)
    BY <2>6, <2>7, CapacityNumbers DEF Sums
  <2> QED
    BY <1>2, <2>5, <2>8, ShrinkingStep
<1>4. CASE \/ UploadRefused(u) \/ UploadReceive(u) \/ UploadReject(u) \/ UploadRemoveTemp(u)
  <2>1. UNCHANGED <<reservedBytes, reservation>>
    BY <1>4 DEF UploadRefused, UploadReceive, UploadReject, UploadRemoveTemp, memory
  <2>2. Pending' \in SUBSET Pending
    BY <1>4 DEF UploadRefused, UploadReceive, UploadReject, UploadRemoveTemp,
                Pending, TypeOK
  <2>3. Total(Pending', reservation') <= Total(Pending, reservation)
    BY <2>1, <2>2, CapacityNumbers, HeldTotals DEF Sums
  <2> QED
    BY <1>2, <2>1, <2>3, ShrinkingStep DEF Balanced
<1> QED
  BY <1>3, <1>4

\* What happens beside the requests, while the service runs, takes no room.
LEMMA BesideRoom ==
  ASSUME TypeOK, TypeOK', NEW x \in Nat, Room(x),
         \/ \E id \in Ids : DeleteFile(id)
         \/ \E ids \in SUBSET Ids : BatchDelete(ids)
         \/ CleanupTick \/ Tick \/ Stabilize
  PROVE  Balanced /\ Room(x)'
<1>1. CASE \/ \E id \in Ids : DeleteFile(id)
           \/ \E ids \in SUBSET Ids : BatchDelete(ids)
  <2>1. UsedBytes(records', orphans') <= UsedBytes(records, orphans)
    BY <1>1, DeletionUsed
  <2>2. UNCHANGED <<reservedBytes, request>>
    BY <1>1, DeletionFacts
  <2> QED
    BY <2>1, <2>2, ShrinkingStep, CapacityNumbers DEF Sums, Balanced, Pending, request
<1>2. CASE CleanupTick
  <2>1. UsedBytes(records', orphans') <= UsedBytes(records, orphans)
    BY <1>2, SweepFacts, UsedShrinks DEF CleanupTick
  <2>2. UNCHANGED <<reservedBytes, request>>
    BY <1>2 DEF CleanupTick
  <2> QED
    BY <2>1, <2>2, ShrinkingStep, CapacityNumbers DEF Sums, Balanced, Pending, request
<1>3. CASE Tick \/ Stabilize
  <2>1. UNCHANGED <<records, orphans, reservedBytes, pc, reservation>>
    BY <1>3 DEF Tick, Stabilize, memory, request
  <2> QED
    BY <2>1 DEF Balanced, Room, Pending, UsedBytes
<1> QED
  BY <1>1, <1>2, <1>3

\* After a crash, and until a service has started, the requests hold nothing.
LEMMA DownRoom ==
  ASSUME TypeOK, TypeOK', StoredWithin', \A u \in Uploads : pc'[u] = "idle"
  PROVE  Room(0)' /\ Total(Uploads, reservation') = 0
<1>1. Pending' = {} /\ \A u \in Uploads : reservation'[u] = 0
  BY DEF Pending, TypeOK
<1>2. Total(Uploads, reservation') = 0 /\ Total(Pending', reservation') = 0
  BY <1>1, TotalZero, TotalEmpty
<1>3. UsedBytes(records', orphans') \in Nat
  BY NextNumbers DEF Sums, UsedBytes
<1> QED
  BY <1>2, <1>3, ServiceAssumption DEF Room, StoredWithin

----------------------------------------------------------------------------
(* The service alone.  The invariant is inductive with the types: the exact *)
(* ledger is what turns the checks of reserve and persist, which read      *)
(* reservedBytes, into facts about what the requests hold.                 *)

Capacity == TypeOK /\ LedgerExact /\ NoOvercommit

LEMMA InitCapacity ==
  ASSUME Init
  PROVE  Capacity
<1>1. TypeOK
  BY InitTypes
<1>2. /\ DOMAIN records = {} /\ DOMAIN index = {} /\ orphans = {} /\ Pending = {}
      /\ reservedBytes = 0 /\ \A v \in Uploads : reservation[v] = 0
  BY EmptyFacts DEF Init, Pending
<1>3. LedgerExact
  BY <1>2, TotalZero DEF LedgerExact
<1>4. NoOvercommit
  BY <1>2, TotalEmpty, ServiceAssumption DEF NoOvercommit, UsedBytes
<1> QED
  BY <1>1, <1>3, <1>4 DEF Capacity

LEMMA NextCapacity ==
  ASSUME Capacity, [Next]_vars
  PROVE  Capacity'
<1>1. TypeOK /\ TypeOK' /\ StoredWithin /\ Room(0) /\ LedgerExact
  BY NextTypes, RoomAlone DEF Capacity
<1>2. StoredWithin'
  BY <1>1, NextStored
<1>3. /\ Covers(0) /\ Total(Uploads, reservation) = reservedBytes
      /\ Total(Uploads, reservation) \in Nat /\ reservedBytes \in Nat
      /\ Total(Uploads, reservation') \in Nat /\ reservedBytes' \in Nat
  <2>1. /\ reservation \in [Uploads -> Nat] /\ reservation' \in [Uploads -> Nat]
        /\ reservedBytes \in Nat /\ reservedBytes' \in Nat
    BY <1>1, CapacityNumbers, NextNumbers DEF Sums
  <2>2. Total(Uploads, reservation) \in Nat /\ Total(Uploads, reservation') \in Nat
    BY <2>1, HeldTotals
  <2> QED
    BY <1>1, <2>1, <2>2 DEF LedgerExact, Covers
<1>4. CASE Balanced /\ Room(0)'
  <2>1. LedgerExact'
    BY <1>3, <1>4 DEF Balanced, LedgerExact
  <2> QED
    BY <1>1, <1>2, <1>4, <2>1, RoomAlone, PTL DEF Capacity
<1>5. CASE Crash \/ Start \/ StartFails
  <2>1. (\A u \in Uploads : pc'[u] = "idle") /\ (reservedBytes' = 0 \/ UNCHANGED <<reservedBytes, request>>)
    BY <1>1, <1>5, StartFacts DEF TypeOK, Crash, Start, Boot, StartFails, ReconcileFails,
                                  FirstCleanupFails, request, memory
  <2>2. Room(0)' /\ Total(Uploads, reservation') = 0
    BY <1>1, <1>2, <2>1, DownRoom
  <2>3. LedgerExact'
    BY <1>1, <1>3, <2>1, <2>2 DEF LedgerExact, request
  <2> QED
    BY <1>1, <1>2, <2>2, <2>3, RoomAlone, PTL DEF Capacity
<1>6. CASE UNCHANGED vars
  BY <1>1, <1>6 DEF vars, durable, memory, request, Capacity, LedgerExact, NoOvercommit,
                    Pending, UsedBytes
<1> QED
  BY <1>1, <1>3, <1>4, <1>5, <1>6, ReserveRoom, PersistRoom, RequestRoom, BesideRoom
     DEF Next, UploadStep

\* Capacity holds in every reachable state.
THEOREM CapacityCorrect == Spec => []Capacity
<1>1. Init => Capacity
  BY InitCapacity
<1>2. Capacity /\ [Next]_vars => Capacity'
  BY NextCapacity
<1> QED
  BY <1>1, <1>2, PTL DEF Spec

\* The ledger is exact: reservedBytes is what the requests in flight hold, so every
\* reserve of persist.go is balanced by one release.
THEOREM LedgerCorrect == Spec => []LedgerExact
<1>1. Capacity => LedgerExact
  BY DEF Capacity
<1> QED
  BY <1>1, CapacityCorrect, PTL

\* Committed objects, orphans and pending reservations never exceed the limit, nor
\* does what a restart would bring back.
THEOREM CapacityLimit == Spec => []NoOvercommit
<1>1. Capacity => NoOvercommit
  BY DEF Capacity
<1> QED
  BY <1>1, CapacityCorrect, PTL
=============================================================================
