--------------------------- MODULE FileHostProofs ---------------------------
(***************************************************************************)
(* With local storage Service implements FileHost, for every value of the  *)
(* constants: each step of the handlers, of the background and of the life *)
(* of the process is a step of the file host or leaves what its clients    *)
(* see as it was.  And no file gets younger while it is there.             *)
(***************************************************************************)
EXTENDS StoreProofs

\* The refinement mapping, by name.
Keepers == {id \in Ids : told[id] = "kept"}
Kept == Restrict(index, {id \in DOMAIN index : told[id] = "kept"})
Gone == {id \in Ids : told[id] = "gone"}

\* What the simulation rests on.
HostInv == StoreInv /\ AnswersHold /\ Driver = "local"

----------------------------------------------------------------------------
(* Records and promises.                                                   *)

\* The promises of a host, running or not, are about files its index lists.
OnDisk ==
  /\ Keepers \subseteq DOMAIN index \cap objects
  /\ Kept = [id \in Keepers |-> index[id]]

LEMMA KeptOnDisk == HostInv => OnDisk
<1> SUFFICES ASSUME HostInv PROVE OnDisk
  OBVIOUS
<1>1. Keepers \subseteq DOMAIN index \cap objects
  BY DEF HostInv, AnswersHold, Keepers
<1>2. DOMAIN index \subseteq Ids
  BY IndexParts DEF HostInv, StoreInv, TypeOK
<1>3. {id \in DOMAIN index : told[id] = "kept"} = Keepers
  BY <1>1, <1>2 DEF Keepers
<1> QED
  BY <1>1, <1>3 DEF OnDisk, Kept, Restrict

\* The promises of a running host are about its files.
Listed ==
  /\ Keepers \subseteq DOMAIN records
  /\ Kept = [id \in Keepers |-> records[id]]

LEMMA KeptWhileUp == HostInv /\ up => Listed
<1> SUFFICES ASSUME HostInv, up PROVE Listed
  OBVIOUS
<1>1. Keepers \subseteq DOMAIN records
  BY DEF HostInv, AnswersHold, Keepers
<1>2. \A id \in DOMAIN records : records[id] = index[id]
  BY DEF HostInv, StoreInv, Sound, IsRestriction
<1> QED
  BY <1>1, <1>2, KeptOnDisk DEF OnDisk, Listed

\* The same after a step.
LEMMA NextKept == (HostInv' => OnDisk') /\ (HostInv' /\ up' => Listed')
BY KeptOnDisk, KeptWhileUp, PTL

\* FileHost takes ids out of a function as Service does.
LEMMA HostOperators ==
  /\ \A f, S : Host!Without(f, S) = Drop(f, S)
  /\ \A f, g : Host!IsRestriction(f, g) <=> IsRestriction(f, g)
BY DEF Host!Without, Host!Restrict, Drop, Restrict, Host!IsRestriction, IsRestriction

\* Dropping nothing.
LEMMA DropNone ==
  ASSUME NEW f \in Indexes
  PROVE  Drop(f, {}) = f
BY DEF Drop, Restrict, Indexes

\* The expiry pass removes expired records, some of them where it fails.
LEMMA SweepRecords ==
  ASSUME NEW m \in Images, NEW n \in Outcomes(m)
  PROVE  \E S \in SUBSET Expired(m.records) : n.records = Drop(m.records, S)
<1>1. CASE n = Cleaned(m)
  BY <1>1 DEF Cleaned, Swept
<1>2. CASE n \in OrphanFailures(m)
  <2>0. PICK done \in SUBSET m.orphans :
          \E left \in AfterFailedDelete(m.objects \ done, m.orphans \ done) :
            n = [m EXCEPT !.orphans = @ \ done, !.objects = left]
    BY <1>2 DEF OrphanFailures
  <2>1. n.records = m.records
    BY <2>0 DEF Images
  <2>2. n.records = Drop(m.records, {})
    BY <2>1, DropNone DEF Images
  <2> QED
    BY <2>2
<1>3. CASE n \in DeleteFailures(m)
  <2>1. PICK done \in SUBSET Expired(m.records) :
          \E left \in AfterFailedDelete(m.objects \ (m.orphans \cup done),
                                        Expired(m.records) \ done) :
            n = [Swept(m, done, {}) EXCEPT !.objects = left]
    BY <1>3 DEF DeleteFailures
  <2>2. n.records = Drop(m.records, done)
    BY <2>1 DEF Swept
  <2> QED
    BY <2>2
<1>4. CASE n \in SaveFailures(m)
  <2>1. PICK done \in SUBSET Expired(m.records) : \E last \in done : n = Swept(m, done, {last})
    BY <1>4 DEF SaveFailures
  <2>2. n.records = Drop(m.records, done)
    BY <2>1 DEF Swept
  <2> QED
    BY <2>2
<1> QED
  BY <1>1, <1>2, <1>3, <1>4 DEF Outcomes, CleanupFailures

\* What a step does to the files of a running service: some expire,
Expiring(S) ==
  /\ S \subseteq Expired(records)
  /\ records' = Drop(records, S)
  /\ told' = Forget(DOMAIN records \ DOMAIN records')
\* a content is stored,
Storing(id) ==
  /\ id \notin DOMAIN records \ Expired(records)
  /\ records' = Created(Drop(records, Expired(records)), id)
  /\ told' = [Forget(Expired(records)) EXCEPT ![id] = "kept"]
\* or found stored already,
Confirming(id) ==
  /\ id \in DOMAIN records \ Expired(records)
  /\ records' = Drop(records, Expired(records))
  /\ told' = [Forget(Expired(records)) EXCEPT ![id] = "kept"]
\* a deletion succeeds,
Deleting(S) ==
  /\ S \in (SUBSET DOMAIN records) \ {{}}
  /\ records' = Drop(records, S)
  /\ told' = Tell(S, "gone")
\* or fails.
Failing(S) ==
  /\ S \in (SUBSET DOMAIN records) \ {{}}
  /\ \E done \in SUBSET S : records' = Drop(records, done)
  /\ told' = Tell(S, "none")

LEMMA SweepExpires ==
  ASSUME TypeOK, CleanupSucceeds \/ CleanupFails
  PROVE  \E S : Expiring(S)
<1>1. Image \in Images /\ Image.records = records
  BY ImageFacts
<1>2. PICK n \in Outcomes(Image) :
        Install(n) /\ told' = Forget(DOMAIN records \ DOMAIN n.records)
  BY DEF CleanupSucceeds, CleanupFails, Outcomes
<1>3. PICK S \in SUBSET Expired(Image.records) : n.records = Drop(Image.records, S)
  BY <1>1, SweepRecords
<1>4. records' = n.records
  BY <1>2 DEF Install
<1> QED
  BY <1>1, <1>2, <1>3, <1>4 DEF Expiring

LEMMA PersistedEffect ==
  ASSUME TypeOK, NEW id \in Ids, NEW reserved, NEW how \in PersistEnds,
         Persist(id, reserved, Cleaned(Image), how)
  PROVE  \/ \E S : Expiring(S)
         \/ Storing(id)
         \/ Confirming(id)
<1> DEFINE m == Cleaned(Image)
           kept == Forget(Expired(records))
<1>1. Image \in Images /\ Image.records = records
  BY ImageFacts
<1>2. m.records = Drop(records, Expired(records))
  BY <1>1 DEF Cleaned, Swept
<1>3. DOMAIN m.records = (DOMAIN records) \ Expired(records)
  <2>1. records \in Indexes
    BY DEF TypeOK
  <2> HIDE DEF m
  <2> QED
    BY <1>2, <2>1, DropFacts
<1>4. DOMAIN records \ DOMAIN m.records = Expired(records)
  BY <1>3 DEF Expired
<1>5. m \in Images
  BY <1>1, SweptFacts DEF Cleaned
<1> HIDE DEF m
<1>6. Persist(id, reserved, m, how)
  BY DEF m
<1>7. \/ records' = m.records /\ told' = kept
      \/ /\ id \in DOMAIN m.records /\ records' = m.records
         /\ told' = [kept EXCEPT ![id] = "kept"]
      \/ /\ id \notin DOMAIN m.records /\ records' = Created(m.records, id)
         /\ told' = [kept EXCEPT ![id] = "kept"]
  BY <1>4, <1>5, <1>6 DEF Persist, Install, Images
<1>8. CASE records' = m.records /\ told' = kept
  <2>1. DOMAIN records \ DOMAIN records' = Expired(records)
    BY <1>4, <1>8
  <2>2. Expiring(Expired(records))
    BY <1>2, <1>8, <2>1 DEF Expiring
  <2> QED
    BY <2>2
<1> QED
  BY <1>2, <1>3, <1>7, <1>8 DEF Storing, Confirming

LEMMA PersistEffect ==
  ASSUME TypeOK, NEW u \in Uploads, UploadPersist(u)
  PROVE  \/ \E S : Expiring(S)
         \/ Storing(content[u])
         \/ Confirming(content[u])
<1>1. content[u] \in Ids
  BY DEF TypeOK, UploadPersist, PersistEnds
<1>2. CASE CleanupFails
  BY <1>2, SweepExpires
<1> QED
  BY <1>1, <1>2, PersistedEffect DEF UploadPersist

LEMMA DeletionEffect ==
  ASSUME TypeOK,
         \/ \E id \in Ids : DeleteFile(id)
         \/ \E ids \in SUBSET Ids : BatchDelete(ids)
  PROVE  \E S : Deleting(S) \/ Failing(S)
<1>1. ASSUME NEW id \in Ids, DeleteFile(id)
      PROVE  Deleting({id}) \/ Failing({id})
  <2>1. Drop(records, {}) = records
    BY DropNone DEF TypeOK
  <2>2. \/ records' = Drop(records, {id}) /\ told' = Tell({id}, "gone")
        \/ /\ told' = Tell({id}, "none")
           /\ records' \in {Drop(records, {}), Drop(records, {id})}
    BY <1>1, <2>1 DEF DeleteFile, Install, Image
  <2>3. {id} \in (SUBSET DOMAIN records) \ {{}}
    BY <1>1 DEF DeleteFile
  <2> QED
    BY <2>2, <2>3 DEF Deleting, Failing
<1>2. ASSUME NEW ids \in SUBSET Ids, BatchDelete(ids)
      PROVE  \E S : Deleting(S) \/ Failing(S)
  <2> DEFINE hits == ids \cap DOMAIN records
  <2>1. hits \in (SUBSET DOMAIN records) \ {{}}
    BY <1>2 DEF BatchDelete
  <2>2. \/ told' = Tell(hits, "gone") /\ records' = Drop(records, hits)
        \/ /\ told' = Tell(hits, "none")
           /\ \E done \in SUBSET hits : records' = Drop(records, done)
    BY <1>2 DEF BatchDelete, Install, Image
  <2> HIDE DEF hits
  <2> QED
    BY <2>1, <2>2 DEF Deleting, Failing
<1> QED
  BY <1>1, <1>2

----------------------------------------------------------------------------
(* The steps of the host.                                                  *)

\* What stays between two states of a running host.
InService == HostInv /\ HostInv' /\ up /\ up' /\ now' = now

\* The primed and the unprimed promises are the files of the keepers.
LEMMA ServingFacts ==
  ASSUME InService
  PROVE  /\ Listed /\ Listed'
         /\ records \in Indexes /\ told \in [Ids -> {"none", "kept", "gone"}]
         /\ DOMAIN records \subseteq Ids
         /\ \A id \in DOMAIN records : told[id] # "gone"
         /\ Host!Old(records) = Expired(records)
<1>1. records \in Indexes /\ told \in [Ids -> {"none", "kept", "gone"}]
  BY DEF InService, HostInv, StoreInv, TypeOK
<1>2. DOMAIN records \subseteq Ids
  BY <1>1, IndexParts
<1>3. \A id \in DOMAIN records : told[id] # "gone"
  BY <1>2 DEF InService, HostInv, AnswersHold
<1>4. Host!Old(records) = Expired(records)
  BY DEF Host!Old, Expired
<1> QED
  BY <1>1, <1>2, <1>3, <1>4, KeptWhileUp, NextKept DEF InService

LEMMA ExpiringSimulates ==
  ASSUME InService, NEW S, Expiring(S)
  PROVE  Host!Expire
<1>0. records \in Indexes
  BY ServingFacts
<1>1. /\ DOMAIN records' = (DOMAIN records) \ S
      /\ \A id \in (DOMAIN records) \ S : records'[id] = records[id]
  BY <1>0, DropFacts DEF Expiring
<1>2. S \subseteq DOMAIN records
  BY DEF Expiring, Expired
<1>3. \A id \in Ids : told'[id] = IF id \in S THEN "none" ELSE told[id]
  BY <1>1, <1>2 DEF Expiring, Forget
<1>4. Keepers' = Keepers \ S
  BY <1>3 DEF Keepers
<1>5. Kept' = Host!Without(Kept, S)
  BY HostOperators, <1>1, <1>4, ServingFacts DEF Listed, Drop, Restrict
<1>6. Gone' = Gone
  BY <1>2, <1>3, ServingFacts DEF Gone
<1>7. records' = Host!Without(records, S) /\ S \in SUBSET Host!Old(records)
  BY HostOperators, ServingFacts DEF Expiring
<1> QED
  BY <1>5, <1>6, <1>7 DEF Host!Expire, InService, Kept, Gone

LEMMA StoringSimulates ==
  ASSUME InService, NEW id \in Ids, Storing(id)
  PROVE  Host!Store
<1>0. records \in Indexes
  BY ServingFacts
<1> DEFINE E == Expired(records)
           F == Drop(records, E)
<1>1. /\ F \in Indexes /\ DOMAIN F = (DOMAIN records) \ E
      /\ \A x \in (DOMAIN records) \ E : F[x] = records[x]
  BY <1>0, DropFacts
<1>2. E \subseteq DOMAIN records
  BY DEF Expired
<1>3. \A x \in Ids : told'[x] = IF x = id THEN "kept" ELSE IF x \in E THEN "none" ELSE told[x]
  BY DEF Storing, Forget
<1>4. F = Host!Without(records, Host!Old(records))
  BY HostOperators, ServingFacts
<1>5. id \notin DOMAIN records \ Host!Old(records)
  BY ServingFacts DEF Storing
<1>6. records' = Created(F, id)
  BY DEF Storing
<1> HIDE DEF E, F
<1>7. records' = Host!With(F, id, now)
  BY <1>6 DEF Created, Host!With
<1>8. /\ DOMAIN records' = DOMAIN F \cup {id}
      /\ \A x \in DOMAIN records' : records'[x] = IF x = id THEN now ELSE F[x]
  BY <1>6 DEF Created
<1>9. Keepers' = (Keepers \ E) \cup {id}
  BY <1>3 DEF Keepers
<1>10. Kept' = [x \in (Keepers \ E) \cup {id} |-> IF x = id THEN now ELSE records[x]]
  BY <1>1, <1>8, <1>9, ServingFacts DEF Listed
<1>11. Host!Without(Kept, E) = [x \in Keepers \ E |-> records[x]]
  BY HostOperators, ServingFacts DEF Listed, Drop, Restrict
<1>12. Kept' = Host!With(Host!Without(Kept, E), id, now)
  BY HostOperators, <1>10, <1>11 DEF Host!With
<1>13. Gone' = Gone \ {id}
  BY <1>2, <1>3, ServingFacts DEF Gone
<1>14. E = Host!Old(records)
  BY ServingFacts DEF E
<1> QED
  BY <1>4, <1>5, <1>7, <1>12, <1>13, <1>14 DEF Host!Store, InService, Kept, Gone

LEMMA ConfirmingSimulates ==
  ASSUME InService, NEW id \in Ids, Confirming(id)
  PROVE  Host!Confirm
<1>0. records \in Indexes
  BY ServingFacts
<1> DEFINE E == Expired(records)
<1>1. /\ DOMAIN records' = (DOMAIN records) \ E
      /\ \A x \in (DOMAIN records) \ E : records'[x] = records[x]
  BY <1>0, DropFacts DEF Confirming
<1>2. E \subseteq DOMAIN records
  BY DEF Expired
<1>3. \A x \in Ids : told'[x] = IF x = id THEN "kept" ELSE IF x \in E THEN "none" ELSE told[x]
  BY DEF Confirming, Forget
<1>4. records' = Host!Without(records, E)
  BY HostOperators DEF Confirming
<1>5. E = Host!Old(records)
  BY ServingFacts
<1>6. id \in DOMAIN records \ E
  BY DEF Confirming
<1> HIDE DEF E
<1>7. Keepers' = (Keepers \ E) \cup {id}
  BY <1>3 DEF Keepers
<1>8. Kept' = [x \in (Keepers \ E) \cup {id} |-> records[x]]
  BY <1>1, <1>6, <1>7, ServingFacts DEF Listed
<1>9. Host!Without(Kept, E) = [x \in Keepers \ E |-> records[x]]
  BY HostOperators, ServingFacts DEF Listed, Drop, Restrict
<1>10. Kept' = Host!With(Host!Without(Kept, E), id, records[id])
  BY HostOperators, <1>8, <1>9 DEF Host!With
<1>11. Gone' = Gone
  BY <1>2, <1>3, <1>6, ServingFacts DEF Gone
<1> QED
  BY <1>4, <1>5, <1>6, <1>10, <1>11 DEF Host!Confirm, InService, Kept, Gone

LEMMA DeletingSimulates ==
  ASSUME InService, NEW S, Deleting(S)
  PROVE  Host!Delete
<1>0. records \in Indexes
  BY ServingFacts
<1>1. /\ DOMAIN records' = (DOMAIN records) \ S
      /\ \A id \in (DOMAIN records) \ S : records'[id] = records[id]
  BY <1>0, DropFacts DEF Deleting
<1>2. S \subseteq DOMAIN records
  BY DEF Deleting
<1>3. \A id \in Ids : told'[id] = IF id \in S THEN "gone" ELSE told[id]
  BY DEF Deleting, Tell
<1>4. Keepers' = Keepers \ S
  BY <1>3 DEF Keepers
<1>5. Kept' = Host!Without(Kept, S)
  BY HostOperators, <1>1, <1>4, ServingFacts DEF Listed, Drop, Restrict
<1>6. Gone' = Gone \cup S
  BY <1>2, <1>3, ServingFacts DEF Gone
<1>7. records' = Host!Without(records, S)
  BY HostOperators DEF Deleting
<1>8. S \in (SUBSET DOMAIN records) \ {{}}
  BY DEF Deleting
<1> QED
  BY <1>5, <1>6, <1>7, <1>8 DEF Host!Delete, InService, Kept, Gone

LEMMA FailingSimulates ==
  ASSUME InService, NEW S, Failing(S)
  PROVE  Host!DeleteFails
<1>0. records \in Indexes
  BY ServingFacts
<1>1. PICK done \in SUBSET S : records' = Drop(records, done)
  BY DEF Failing
<1>2. /\ DOMAIN records' = (DOMAIN records) \ done
      /\ \A id \in (DOMAIN records) \ done : records'[id] = records[id]
  BY <1>0, <1>1, DropFacts
<1>3. S \subseteq DOMAIN records
  BY DEF Failing
<1>4. \A id \in Ids : told'[id] = IF id \in S THEN "none" ELSE told[id]
  BY DEF Failing, Tell
<1>5. Keepers' = Keepers \ S
  BY <1>4 DEF Keepers
<1>6. Kept' = Host!Without(Kept, S)
  BY HostOperators, <1>2, <1>5, ServingFacts DEF Listed, Drop, Restrict
<1>7. Gone' = Gone
  BY <1>3, <1>4, ServingFacts DEF Gone
<1>8. records' = Host!Without(records, done)
  BY HostOperators, <1>1
<1>9. S \in (SUBSET DOMAIN records) \ {{}}
  BY DEF Failing
<1> QED
  BY <1>6, <1>7, <1>8, <1>9 DEF Host!DeleteFails, InService, Kept, Gone

----------------------------------------------------------------------------
(* The life of the process.                                                *)

LEMMA CrashSimulates ==
  ASSUME Crash
  PROVE  Host!Crash
<1>1. index' = index /\ told' = told /\ now' = now /\ up /\ up' = FALSE /\ records' = Empty
  BY DEF Crash, durable
<1>2. Kept' = Kept /\ Gone' = Gone
  BY <1>1 DEF Kept, Gone
<1>3. Empty = Host!None
  BY DEF Empty, Host!None
<1> QED
  BY <1>1, <1>2, <1>3 DEF Host!Crash, Kept, Gone

\* What the index on disk tells a start.
LEMMA SurvivorFacts ==
  ASSUME HostInv
  PROVE  /\ Reconciled \in Images /\ SoundImage(Reconciled)
         /\ Reconciled.records = Survivors /\ Survivors \in Indexes
         /\ DOMAIN Survivors = (DOMAIN index) \cap objects
         /\ \A id \in DOMAIN Survivors : Survivors[id] = index[id]
         /\ Keepers \subseteq DOMAIN Survivors
         /\ Host!Old(Kept) = Keepers \cap Expired(Survivors)
<1>1. /\ DOMAIN Survivors = (DOMAIN index) \cap objects
      /\ \A id \in DOMAIN Survivors : Survivors[id] = index[id]
      /\ Reconciled.records = Survivors /\ Reconciled.index = Survivors
      /\ Reconciled.orphans = {} /\ Reconciled.objects = objects \cap DOMAIN index
  BY DEF Survivors, Restrict, Reconciled
<1>2. Reconciled \in Images
  BY ReconciledFacts DEF HostInv, StoreInv
<1>3. SoundImage(Reconciled)
  BY <1>1 DEF SoundImage, Sound, IsRestriction
<1>4. Keepers \subseteq DOMAIN Survivors /\ Kept = [id \in Keepers |-> index[id]]
  BY <1>1, KeptOnDisk DEF OnDisk
<1>5. Host!Old(Kept) = Keepers \cap Expired(Survivors)
  BY <1>1, <1>4 DEF Host!Old, Expired
<1>6. Survivors \in Indexes
  BY <1>1, <1>2 DEF Images
<1> QED
  BY <1>1, <1>2, <1>3, <1>4, <1>5, <1>6

LEMMA StartSimulates ==
  ASSUME HostInv, HostInv', Boot
  PROVE  Host!Restart
<1> DEFINE E == Expired(Survivors)
<1>1. /\ up = FALSE /\ up' = TRUE /\ now' = now
      /\ records' = Drop(Survivors, E) /\ told' = Forget(E)
  <2>1. up \in BOOLEAN
    BY DEF HostInv, StoreInv, TypeOK
  <2>2. Cleaned(Reconciled).records = Drop(Survivors, E)
    BY SurvivorFacts DEF Cleaned, Swept
  <2> QED
    BY <2>1, <2>2 DEF Boot, Install
<1>2. /\ DOMAIN records' = (DOMAIN Survivors) \ E
      /\ \A id \in DOMAIN records' : records'[id] = index[id]
  <2>1. Survivors \in Indexes
    BY SurvivorFacts
  <2> HIDE DEF E
  <2>2. /\ DOMAIN Drop(Survivors, E) = (DOMAIN Survivors) \ E
        /\ \A id \in (DOMAIN Survivors) \ E : Drop(Survivors, E)[id] = Survivors[id]
    BY <2>1, DropFacts
  <2> QED
    BY <1>1, <2>2, SurvivorFacts
<1>3. E \subseteq DOMAIN index
  BY SurvivorFacts DEF Expired
<1>4. DOMAIN index \subseteq Ids
  BY IndexParts DEF HostInv, StoreInv, TypeOK
<1>5. \A id \in Ids : told'[id] = IF id \in E THEN "none" ELSE told[id]
  BY <1>1 DEF Forget
<1>6. \A id \in DOMAIN records' : records'[id] + Retention > now
  <2>1. \A id \in DOMAIN records' : ~(index[id] + Retention <= now)
    BY <1>2, SurvivorFacts DEF Expired
  <2>2. \A id \in DOMAIN records' : index[id] \in Int
    BY <1>2, SurvivorFacts, IndexParts DEF HostInv, StoreInv, TypeOK, Time
  <2>3. now \in Int /\ Retention \in Int
    BY ServiceAssumption DEF HostInv, StoreInv, TypeOK, Time
  <2>4. \A id \in DOMAIN records' : index[id] + Retention > now
    BY <2>1, <2>2, <2>3
  <2> QED
    BY <1>2, <2>4
<1> HIDE DEF E
<1>7. Keepers' = Keepers \ E
  BY <1>5 DEF Keepers
<1>8. /\ Keepers' \subseteq DOMAIN records'
      /\ Kept' = [id \in Keepers' |-> records'[id]]
  BY <1>1, NextKept DEF Listed
<1>9. Kept' = [id \in Keepers \ E |-> index[id]]
  BY <1>2, <1>7, <1>8
<1>10. Kept' = Host!Without(Kept, Host!Old(Kept))
  BY HostOperators, <1>9, KeptOnDisk, SurvivorFacts DEF OnDisk, Drop, Restrict, E
<1>11. IsRestriction(Kept', records')
  BY <1>8 DEF IsRestriction
<1>12. Gone' = Gone
  <2>1. \A id \in Ids : told[id] = "gone" => id \notin DOMAIN index
    BY DEF HostInv, AnswersHold
  <2> QED
    BY <1>3, <1>5, <2>1 DEF Gone
<1>13. DOMAIN records' \cap Gone = {}
  <2>1. DOMAIN records' \subseteq DOMAIN index
    BY <1>2, SurvivorFacts
  <2> QED
    BY <1>4, <2>1 DEF HostInv, AnswersHold, Gone
<1>14. records' \in Host!Catalogs
  <2>1. records' \in Indexes
    BY <1>1, SurvivorFacts, DropFacts DEF E
  <2> QED
    BY <2>1 DEF Host!Catalogs, Host!Time, Indexes, Time
<1>15. Host!Old(records') = {}
  <2>1. \A id \in DOMAIN records' : records'[id] \in Int
    BY <1>14 DEF Host!Catalogs, Host!Time
  <2> QED
    BY <1>6, <2>1, ServiceAssumption DEF Host!Old, HostInv, StoreInv, TypeOK, Time
<1> QED
  BY HostOperators, <1>1, <1>10, <1>11, <1>12, <1>13, <1>14, <1>15 DEF Host!Restart, Kept, Gone

LEMMA StartFailsSimulates ==
  ASSUME HostInv, HostInv', StartFails
  PROVE  Host!RestartFails
<1>1. /\ up = FALSE /\ up' = FALSE /\ records' = records /\ now' = now
  <2>1. up \in BOOLEAN
    BY DEF HostInv, StoreInv, TypeOK
  <2> QED
    BY <2>1 DEF StartFails, ReconcileFails, FirstCleanupFails, memory
<1>2. CASE ReconcileFails
  <2>1. Kept' = Kept /\ Gone' = Gone
    BY <1>2 DEF ReconcileFails, Kept, Gone
  <2>2. Kept' = Host!Without(Kept, {})
    BY HostOperators, <2>1, KeptOnDisk DEF OnDisk, Drop, Restrict
  <2>3. {} \in SUBSET Host!Old(Kept)
    OBVIOUS
  <2> QED
    BY <1>1, <2>1, <2>2, <2>3 DEF Host!RestartFails, Kept, Gone
<1>3. CASE FirstCleanupFails
  <2>1. PICK m \in CleanupFailures(Reconciled) :
          /\ index' = m.index
          /\ told' = Forget(DOMAIN Survivors \ DOMAIN m.records)
    BY <1>3 DEF FirstCleanupFails
  <2>2. PICK S \in SUBSET Expired(Survivors) : m.records = Drop(Survivors, S)
    BY <2>1, SurvivorFacts, SweepRecords DEF Outcomes
  <2>3. SoundImage(m)
    BY <2>1, SurvivorFacts, CleanupSound DEF Outcomes
  <2>4. /\ DOMAIN m.records = (DOMAIN Survivors) \ S
        /\ \A id \in DOMAIN m.records : m.records[id] = index[id]
    <3>1. /\ DOMAIN Drop(Survivors, S) = (DOMAIN Survivors) \ S
          /\ \A id \in (DOMAIN Survivors) \ S : Drop(Survivors, S)[id] = Survivors[id]
      <4>1. Survivors \in Indexes
        BY SurvivorFacts
      <4> QED
        BY <4>1, DropFacts
    <3> QED
      BY <2>2, <3>1, SurvivorFacts
  <2>5. S \subseteq DOMAIN Survivors
    BY <2>2 DEF Expired
  <2>6. \A id \in Ids : told'[id] = IF id \in S THEN "none" ELSE told[id]
    BY <2>1, <2>4, <2>5 DEF Forget
  <2>7. Keepers' = Keepers \ S
    BY <2>6 DEF Keepers
  <2>8. \A id \in DOMAIN m.records : id \in DOMAIN index' /\ index'[id] = m.records[id]
    BY <2>1, <2>3 DEF SoundImage, Sound, IsRestriction, HostInv
  <2>9. Keepers \ S \subseteq DOMAIN m.records
    BY <2>4, SurvivorFacts
  <2>10. Kept' = [id \in Keepers' |-> index'[id]]
    BY NextKept DEF OnDisk
  <2>11. Kept' = [id \in Keepers \ S |-> index[id]]
    BY <2>4, <2>7, <2>8, <2>9, <2>10
  <2>12. Kept' = Host!Without(Kept, S \cap Keepers)
    BY HostOperators, <2>11, KeptOnDisk DEF OnDisk, Drop, Restrict
  <2>13. S \cap Keepers \in SUBSET Host!Old(Kept)
    BY <2>2, SurvivorFacts
  <2>14. Gone' = Gone
    <3>1. \A id \in Ids : told[id] = "gone" => id \notin DOMAIN index
      BY DEF HostInv, AnswersHold
    <3> QED
      BY <2>5, <2>6, <3>1, SurvivorFacts DEF Gone
  <2> QED
    BY <1>1, <2>12, <2>13, <2>14 DEF Host!RestartFails, Kept, Gone
<1> QED
  BY <1>2, <1>3 DEF StartFails

----------------------------------------------------------------------------
(* The refinement.                                                         *)

LEMMA InitSimulates ==
  ASSUME Init
  PROVE  Host!Init
<1>1. up = FALSE /\ records = Empty /\ index = Empty /\ now = 0
      /\ told = [id \in Ids |-> "none"]
  BY DEF Init
<1>2. Gone = {}
  BY <1>1 DEF Gone
<1>3. Empty = Host!None /\ DOMAIN Empty = {}
  BY DEF Empty, Host!None
<1>4. Kept = Host!None
  BY <1>1, <1>3 DEF Kept, Restrict, Host!None
<1> QED
  BY <1>1, <1>2, <1>3, <1>4 DEF Host!Init, Kept, Gone

\* Every step of the service is a step of the host or leaves what it promises.
LEMMA NextSimulates ==
  ASSUME HostInv, HostInv', [Next]_vars
  PROVE  [Host!Next]_(Host!vars)
<1>0. TypeOK
  BY DEF HostInv, StoreInv
<1>1. CASE UNCHANGED <<up, records, index, told, now>>
  BY <1>1 DEF Host!vars
<1>2. ASSUME up, up' = up, now' = now, NEW S, Expiring(S)
      PROVE  Host!Next
  BY <1>2, ExpiringSimulates DEF InService, Host!Next
<1>3. ASSUME NEW u \in Uploads, UploadReserve(u)
      PROVE  Host!Next
  <2>1. up /\ up' = up /\ now' = now /\ (CleanupSucceeds \/ CleanupFails)
    BY <1>3 DEF UploadReserve
  <2> QED
    BY <1>0, <1>2, <2>1, SweepExpires
<1>4. ASSUME NEW u \in Uploads, UploadPersist(u)
      PROVE  Host!Next
  <2>1. up /\ up' = up /\ now' = now /\ content[u] \in Ids
    BY <1>0, <1>4 DEF UploadPersist, TypeOK, PersistEnds
  <2>2. InService
    BY <2>1 DEF InService
  <2>3. CASE \E S : Expiring(S)
    BY <1>2, <2>1, <2>3
  <2>4. CASE Storing(content[u])
    BY <2>1, <2>2, <2>4, StoringSimulates DEF Host!Next
  <2>5. CASE Confirming(content[u])
    BY <2>1, <2>2, <2>5, ConfirmingSimulates DEF Host!Next
  <2> QED
    BY <1>0, <1>4, <2>3, <2>4, <2>5, PersistEffect
<1>5. ASSUME NEW u \in Uploads,
             \/ UploadRefused(u) \/ UploadReceive(u) \/ UploadReject(u)
             \/ UploadRemoveTemp(u) \/ UploadRelease(u)
      PROVE  UNCHANGED <<up, records, index, told, now>>
  BY <1>5 DEF UploadRefused, UploadReceive, UploadReject, UploadRemoveTemp, UploadRelease,
              durable, memory
<1>6. CASE \/ \E id \in Ids : DeleteFile(id)
           \/ \E ids \in SUBSET Ids : BatchDelete(ids)
  <2>1. up /\ up' = up /\ now' = now
    BY <1>6 DEF DeleteFile, BatchDelete
  <2>2. InService
    BY <2>1 DEF InService
  <2>3. PICK S : Deleting(S) \/ Failing(S)
    BY <1>0, <1>6, DeletionEffect
  <2> QED
    BY <2>2, <2>3, DeletingSimulates, FailingSimulates DEF Host!Next
<1>7. CASE CleanupTick
  <2>1. up /\ up' = up /\ now' = now /\ (CleanupSucceeds \/ CleanupFails)
    BY <1>7 DEF CleanupTick
  <2> QED
    BY <1>0, <1>2, <2>1, SweepExpires
<1>8. CASE Crash
  BY <1>8, CrashSimulates DEF Host!Next
<1>9. CASE Start
  BY <1>9, StartSimulates DEF Start, Host!Next
<1>10. CASE StartFails
  BY <1>10, StartFailsSimulates DEF Host!Next
<1>11. CASE Tick
  <2>1. UNCHANGED <<up, records, index, told>>
    BY <1>11 DEF Tick, durable, memory
  <2>2. Kept' = Kept /\ Gone' = Gone
    BY <2>1 DEF Kept, Gone
  <2> QED
    BY <1>11, <2>1, <2>2 DEF Tick, Host!Next, Host!Tick, Kept, Gone
<1>12. CASE Stabilize \/ UNCHANGED vars
  BY <1>1, <1>12 DEF Stabilize, vars, durable, memory
<1> QED
  BY <1>1, <1>3, <1>4, <1>5, <1>6, <1>7, <1>8, <1>9, <1>10, <1>11, <1>12
     DEF Next, UploadStep

\* With local storage the service is the file host of FileHost: files are there,
\* with the age they had, until they expire or are deleted, whatever call fails
\* and whenever the process crashes; a confirmed deletion is never undone.
THEOREM HostImplemented == Driver = "local" => (Spec => ImplementsFileHost)
<1> SUFFICES ASSUME Driver = "local"
             PROVE  Spec => ImplementsFileHost
  OBVIOUS
<1>1. Init => Host!Init
  BY InitSimulates
<1>2. Spec => []HostInv
  <2>1. StoreInv /\ AnswersHold => HostInv
    BY DEF HostInv
  <2> QED
    BY <2>1, StoreCorrect, AnswersStayTrue, PTL
<1>3. HostInv /\ HostInv' /\ [Next]_vars => [Host!Next]_(Host!vars)
  BY NextSimulates
<1> QED
  BY <1>1, <1>2, <1>3, PTL DEF Spec, ImplementsFileHost, Host!Spec

----------------------------------------------------------------------------
(* The age of the files.                                                   *)

\* A record that stays keeps its time, unless it had expired and its content is stored
\* anew.
Ages == \A id \in DOMAIN records \cap DOMAIN records' :
          records'[id] = records[id] \/ id \in Expired(records)

LEMMA DropAges ==
  ASSUME TypeOK, NEW S, records' = Drop(records, S)
  PROVE  Ages
<1>0. records \in Indexes
  BY DEF TypeOK
<1>1. /\ \A id \in (DOMAIN records) \ S : records'[id] = records[id]
      /\ DOMAIN records' = (DOMAIN records) \ S
  BY <1>0, DropFacts
<1> QED
  BY <1>1 DEF Ages

LEMMA StoringAges ==
  ASSUME TypeOK, NEW added, Storing(added)
  PROVE  Ages
<1> DEFINE F == Drop(records, Expired(records))
<1>0. records \in Indexes
  BY DEF TypeOK
<1>1. /\ DOMAIN F = (DOMAIN records) \ Expired(records)
      /\ \A id \in DOMAIN F : F[id] = records[id]
  BY <1>0, DropFacts
<1>2. \A id \in DOMAIN records' : records'[id] = IF id = added THEN now ELSE F[id]
  BY DEF Storing, Created
<1>3. DOMAIN records' = DOMAIN F \cup {added}
  BY DEF Storing, Created
<1> HIDE DEF F
<1> QED
  BY <1>1, <1>2, <1>3 DEF Storing, Ages

\* Nothing an upload that reaches persist does changes a time.
LEMMA PersistedAges ==
  ASSUME TypeOK, NEW id,
         (\E S : Expiring(S)) \/ Storing(id) \/ Confirming(id)
  PROVE  Ages
BY DropAges, StoringAges DEF Expiring, Confirming

LEMMA NextAges ==
  ASSUME TypeOK, [Next]_vars
  PROVE  Ages
<1>1. CASE records' = records \/ records' = Empty
  BY <1>1 DEF Empty, Ages
<1>2. CASE CleanupSucceeds \/ CleanupFails
  BY <1>2, SweepExpires, DropAges DEF Expiring
<1>3. ASSUME NEW u \in Uploads, UploadPersist(u)
      PROVE  Ages
  BY <1>3, PersistEffect, PersistedAges
<1>4. CASE \/ \E id \in Ids : DeleteFile(id)
           \/ \E ids \in SUBSET Ids : BatchDelete(ids)
  BY <1>4, DeletionEffect, DropAges DEF Deleting, Failing
<1>5. CASE Crash
  BY <1>1, <1>5 DEF Crash
<1>6. CASE Start \/ StartFails
  <2>1. ~up
    BY <1>6 DEF Start, Boot, StartFails, ReconcileFails, FirstCleanupFails
  <2> QED
    BY <2>1 DEF TypeOK, Ages
<1>7. ASSUME NEW u \in Uploads,
             \/ UploadRefused(u) \/ UploadReceive(u) \/ UploadReject(u)
             \/ UploadRemoveTemp(u) \/ UploadRelease(u)
      PROVE  records' = records
  BY <1>7 DEF UploadRefused, UploadReceive, UploadReject, UploadRemoveTemp, UploadRelease,
              memory
<1>8. CASE Tick \/ Stabilize \/ UNCHANGED vars
  BY <1>1, <1>8 DEF Tick, Stabilize, memory, vars
<1> QED
  BY <1>1, <1>2, <1>3, <1>4, <1>5, <1>6, <1>7, <1>8
     DEF Next, UploadStep, UploadReserve, CleanupTick

\* A duplicate upload resets neither the created time nor the expiry: a record that
\* stays keeps its time, unless it had expired and its content is stored anew.
THEOREM AgesAreKept == Spec => CreatedFixed
<1>1. TypeOK /\ [Next]_vars => [Ages]_vars
  BY NextAges
<1> QED
  BY <1>1, TypeCorrect, PTL DEF Spec, CreatedFixed, Ages
=============================================================================
