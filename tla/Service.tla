------------------------------ MODULE Service ------------------------------
(***************************************************************************)
(* The service of internal/app: the object store, its JSON index, the      *)
(* capacity ledger, and the handlers that move them.                       *)
(*                                                                         *)
(* Objects are named by their SHA-256, so an id is also the object's key.  *)
(* Every critical section under service.mu is one step.  A step may end at *)
(* any failing storage call inside it, and that leaves the disk exactly as *)
(* a crash at that call would: Crash after a failing step is a crash in    *)
(* the middle of the section.  What runs outside the lock (receiving the   *)
(* body, removing the temp file) is a step of its own.                     *)
(***************************************************************************)
EXTENDS Integers, FiniteSets, Functions, Totals

CONSTANTS
  Ids,                   \* contents, by their SHA-256
  NoId,                  \* no content: the field of an idle request
  Size,                  \* bytes of each content
  Allowed,               \* contents whose type the policy allows
  Uploads,               \* request goroutines serving POST /api/upload
  Envelopes,             \* bytes a multipart envelope may add to a content
  MaxUploadBytes,
  MaxStorageBytes,
  MaxMultipartOverhead,
  Retention,
  MaxTime,               \* bound of the clock
  Driver                 \* "local" or "oss"

ASSUME ServiceAssumption ==
  /\ IsFiniteSet(Ids) /\ IsFiniteSet(Uploads) /\ NoId \notin Ids
  /\ Size \in [Ids -> Nat]
  /\ Allowed \subseteq Ids
  /\ Envelopes \subseteq Nat \ {0}
  /\ MaxUploadBytes \in Nat \ {0}
  /\ MaxStorageBytes \in Nat \ {0}
  /\ MaxMultipartOverhead \in Nat
  /\ Retention \in Nat \ {0}
  /\ MaxTime \in Nat
  /\ Driver \in {"local", "oss"}

VARIABLES
  \* On disk, or in the bucket: survives the process.
  objects,       \* the stored objects
  index,         \* index.json: created time of each id it lists
  staged,        \* bytes in data/tmp/upload-* of each request
  \* In the process.
  up,            \* the process serves requests
  records,       \* created time of each committed id
  orphans,       \* keys whose deletion has to be repeated
  reservedBytes,
  \* The requests in flight.
  pc, content, reservation,
  \* The world.
  now,           \* the clock
  healthy,       \* from now on no storage call fails and no crash happens
  told           \* what the clients may rely on, by the last answers they got

durable == <<objects, index, staged>>
memory  == <<up, records, orphans, reservedBytes>>
request == <<pc, content, reservation>>
vars    == <<durable, memory, request, now, healthy, told>>

----------------------------------------------------------------------------
(* Indexes and byte sums.                                                  *)

Time == 0 .. MaxTime

\* The index maps: created times of some set of ids.
Indexes == UNION {[S -> Time] : S \in SUBSET Ids}

Empty == [id \in {} |-> 0]

\* f without the ids of S.
Drop(f, S) == Restrict(f, (DOMAIN f) \ S)

\* f with id created now.
Created(f, id) == [x \in (DOMAIN f) \cup {id} |-> IF x = id THEN now ELSE f[x]]

\* The records past the retention window: !Created.After(now - Retention).
Expired(f) == {id \in DOMAIN f : f[id] + Retention <= now}

\* usedBytesLocked: committed objects and known orphans.
UsedBytes(rec, orph) == Total(DOMAIN rec, Size) + Total(orph, Size)

----------------------------------------------------------------------------
(* The expiry pass, as a function of an image of the store.                *)

Image == [records |-> records, orphans |-> orphans,
          objects |-> objects, index |-> index]

Install(m) == /\ records' = m.records
              /\ orphans' = m.orphans
              /\ objects' = m.objects
              /\ index'   = m.index

\* What a failing Delete of one of the keys leaves: a failed reply from OSS
\* does not tell whether the object is gone.
AfterFailedDelete(objs, keys) ==
  {objs} \cup (IF Driver = "oss" THEN {objs \ {k} : k \in keys} ELSE {})

\* What a failing Put leaves: a rename has failed, OSS may have the object.
AfterFailedPut(objs, id) ==
  {objs} \cup (IF Driver = "oss" THEN {objs \cup {id}} ELSE {})

\* Mutant of Swept: a record is forgotten only after the index is saved.
SweptLate(m, done, unsaved) ==
  [records |-> Drop(m.records, done \ unsaved),
   orphans |-> {},
   objects |-> m.objects \ (m.orphans \cup done),
   index   |-> IF done = unsaved THEN m.index ELSE Drop(m.records, done \ unsaved)]

\* Mutant of Swept: a deleted orphan stays in the map.
SweptKeepingOrphans(m, done, unsaved) ==
  [records |-> Drop(m.records, done),
   orphans |-> m.orphans,
   objects |-> m.objects \ (m.orphans \cup done),
   index   |-> IF done = unsaved THEN m.index ELSE Drop(m.records, done \ unsaved)]

\* Orphans gone, the expired ids of `done` gone, and the index saved after each
\* of them but those in `unsaved`.
Swept(m, done, unsaved) ==
  [records |-> Drop(m.records, done),
   orphans |-> {},
   objects |-> m.objects \ (m.orphans \cup done),
   index   |-> IF done = unsaved THEN m.index ELSE Drop(m.records, done \ unsaved)]

\* Mutant of Cleaned: the test of Created is missing.
CleanedOfAll(m) == Swept(m, DOMAIN m.records, {})

\* Mutant of Cleaned: the second loop is missing.
CleanedOfOrphans(m) == Swept(m, {}, {})

\* cleanupLocked when every call succeeds.
Cleaned(m) == Swept(m, Expired(m.records), {})

\* cleanupLocked when Delete fails on an orphan.
OrphanFailures(m) ==
  UNION {{[m EXCEPT !.orphans = @ \ done, !.objects = left] :
            left \in AfterFailedDelete(m.objects \ done, m.orphans \ done)} :
         done \in (SUBSET m.orphans) \ {m.orphans}}

\* cleanupLocked when Delete fails on an expired object.
DeleteFailures(m) ==
  UNION {{[Swept(m, done, {}) EXCEPT !.objects = left] :
            left \in AfterFailedDelete(m.objects \ (m.orphans \cup done),
                                       Expired(m.records) \ done)} :
         done \in (SUBSET Expired(m.records)) \ {Expired(m.records)}}

\* cleanupLocked when the index cannot be saved after an expired object is gone.
SaveFailures(m) ==
  UNION {{Swept(m, done, {last}) : last \in done} : done \in SUBSET Expired(m.records)}

CleanupFailures(m) == OrphanFailures(m) \cup DeleteFailures(m) \cup SaveFailures(m)

\* The promise to keep a file ends when the file expires and is removed.
Forget(ids) == [id \in Ids |-> IF id \in ids THEN "none" ELSE told[id]]

----------------------------------------------------------------------------
Init == /\ objects = {} /\ index = Empty /\ staged = [u \in Uploads |-> 0]
        /\ up = FALSE /\ records = Empty /\ orphans = {} /\ reservedBytes = 0
        /\ pc = [u \in Uploads |-> "idle"]
        /\ content = [u \in Uploads |-> NoId]
        /\ reservation = [u \in Uploads |-> 0]
        /\ now = 0 /\ healthy \in BOOLEAN
        /\ told = [id \in Ids |-> "none"]

----------------------------------------------------------------------------
(* POST /api/upload.                                                       *)

\* Mutant of Reservable: reservations in flight are not counted.
ReservableAlone(bytes, m) ==
  /\ 0 < bytes
  /\ bytes <= MaxStorageBytes
  /\ UsedBytes(m.records, m.orphans) <= MaxStorageBytes - bytes

\* The capacity check of reserve.
Reservable(bytes, m) ==
  /\ 0 < bytes
  /\ bytes <= MaxStorageBytes
  /\ UsedBytes(m.records, m.orphans) <= MaxStorageBytes - reservedBytes - bytes

\* The Content-Length values a request carrying id may have: -1 when chunked.
ContentLengths(id) == {-1} \cup {Size[id] + e : e \in Envelopes}

Reservation(length) ==
  IF length >= 0 /\ length < MaxUploadBytes THEN length ELSE MaxUploadBytes

\* The expiry pass inside a handler fails with an error.
CleanupFails ==
  /\ ~healthy
  /\ \E m \in CleanupFailures(Image) :
       /\ Install(m)
       /\ told' = Forget(DOMAIN records \ DOMAIN m.records)

\* The expiry pass inside a handler succeeds.
CleanupSucceeds ==
  LET m == Cleaned(Image)
  IN  Install(m) /\ told' = Forget(DOMAIN records \ DOMAIN m.records)

\* The head of the upload handler.  An over-long request gets its 413 before it
\* touches any state, and a failing expiry pass a 500; the others reserve, or
\* are answered 507.
UploadReserve(u) ==
  /\ up /\ pc[u] = "idle"
  /\ \E id \in Ids : \E length \in ContentLengths(id) :
       LET bytes == Reservation(length)
       IN  /\ length <= MaxUploadBytes + MaxMultipartOverhead
           /\ \/ /\ CleanupFails
                 /\ UNCHANGED <<reservedBytes, request>>
              \/ /\ CleanupSucceeds
                 /\ Reservable(bytes, Cleaned(Image))
                 /\ reservedBytes' = reservedBytes + bytes
                 /\ content' = [content EXCEPT ![u] = id]
                 /\ reservation' = [reservation EXCEPT ![u] = bytes]
                 /\ pc' = [pc EXCEPT ![u] = "receiving"]
              \/ /\ CleanupSucceeds
                 /\ ~Reservable(bytes, Cleaned(Image))
                 /\ content' = [content EXCEPT ![u] = id]
                 /\ pc' = [pc EXCEPT ![u] = "refused"]
                 /\ UNCHANGED <<reservedBytes, reservation>>
  /\ UNCHANGED <<staged, up, now, healthy>>

\* The client has read its 507.
UploadRefused(u) ==
  /\ pc[u] = "refused"
  /\ pc' = [pc EXCEPT ![u] = "idle"]
  /\ content' = [content EXCEPT ![u] = NoId]
  /\ UNCHANGED <<durable, memory, reservation, now, healthy, told>>

\* writePart accepts what is not empty, not too large and of an allowed type.
Acceptable(id) == Size[id] \in 1 .. MaxUploadBytes /\ id \in Allowed

\* writePart copies the part into a temp file; the limit reader lets one byte
\* more than the limit through.
UploadReceive(u) ==
  /\ pc[u] = "receiving" /\ Acceptable(content[u])
  /\ staged' = [staged EXCEPT ![u] = Size[content[u]]]
  /\ pc' = [pc EXCEPT ![u] = "received"]
  /\ UNCHANGED <<objects, index, memory, content, reservation, now, healthy, told>>

\* The body ends early, or the content is refused: part of it is in the file.
UploadReject(u) ==
  /\ pc[u] = "receiving"
  /\ \E written \in 0 .. MaxUploadBytes + 1 :
       /\ written <= Size[content[u]]
       /\ staged' = [staged EXCEPT ![u] = written]
  /\ pc' = [pc EXCEPT ![u] = "failed"]
  /\ UNCHANGED <<objects, index, memory, content, reservation, now, healthy, told>>

\* Mutant of Fits: the reservation is trusted.
FitsReserved(id, reserved, m) ==
  /\ reservedBytes - reserved >= 0
  /\ Size[id] <= MaxStorageBytes

\* Mutant of Fits: the request's own reservation stands in its way.
FitsBeside(id, reserved, m) ==
  UsedBytes(m.records, m.orphans) <= MaxStorageBytes - reservedBytes - Size[id]

\* The capacity check of persist, for a request that holds `reserved` bytes.
Fits(id, reserved, m) ==
  LET others == reservedBytes - reserved
  IN  /\ others >= 0
      /\ Size[id] <= MaxStorageBytes
      /\ UsedBytes(m.records, m.orphans) <= MaxStorageBytes - others - Size[id]

\* How persist ends, and the endings that have moved the received file.
PersistEnds == {"duplicate", "full", "stored", "failed", "undone", "orphaned"}
Moved == {"stored", "undone", "orphaned"}

\* persist of content id, when the expiry pass succeeded and left m.
Persist(id, reserved, m, how) ==
  LET kept == Forget(DOMAIN records \ DOMAIN m.records)
      Ends(image, answers) == Install(image) /\ told' = answers
      New == id \notin DOMAIN m.records /\ Fits(id, reserved, m)
  IN  \/ /\ how = "duplicate" /\ id \in DOMAIN m.records
         /\ Ends(m, [kept EXCEPT ![id] = "kept"])
      \/ /\ how = "full" /\ id \notin DOMAIN m.records /\ ~Fits(id, reserved, m)
         /\ Ends(m, kept)
      \/ /\ how = "stored" /\ New
         /\ Ends([m EXCEPT !.records = Created(@, id), !.index = Created(m.records, id),
                           !.orphans = @ \ {id}, !.objects = @ \cup {id}],
                 [kept EXCEPT ![id] = "kept"])
      \* Put fails.
      \/ /\ how = "failed" /\ New /\ ~healthy
         /\ \E left \in AfterFailedPut(m.objects, id) : Ends([m EXCEPT !.objects = left], kept)
      \* The index cannot be saved, and the object is removed again.
      \/ /\ how = "undone" /\ New /\ ~healthy
         /\ Ends([m EXCEPT !.objects = @ \ {id}], kept)
      \* The index cannot be saved, nor the object removed.
      \/ /\ how = "orphaned" /\ New /\ ~healthy
         /\ \E left \in AfterFailedDelete(m.objects \cup {id}, {id}) :
              Ends([m EXCEPT !.objects = left, !.orphans = @ \cup {id}], kept)

\* The local Put moves the temp file, or removes it; OSS copies it.
Consumes(how) == Driver = "local" /\ how \in Moved

UploadPersist(u) ==
  /\ pc[u] = "received"
  /\ \/ \E how \in PersistEnds :
          /\ Persist(content[u], reservation[u], Cleaned(Image), how)
          /\ staged' = IF Consumes(how) THEN [staged EXCEPT ![u] = 0] ELSE staged
          /\ pc' = [pc EXCEPT ![u] = how]
     \/ CleanupFails /\ pc' = [pc EXCEPT ![u] = "failed"] /\ UNCHANGED staged
  /\ UNCHANGED <<up, reservedBytes, content, reservation, now, healthy>>

\* Mutant of UploadRemoveTemp: the temp file is left behind.
UploadKeepTemp(u) ==
  /\ pc[u] \in PersistEnds
  /\ pc' = [pc EXCEPT ![u] = "releasing"]
  /\ UNCHANGED <<durable, memory, content, reservation, now, healthy, told>>

\* Mutant of UploadRemoveTemp: the answer to a duplicate returns too early.
UploadRemoveTempUnlessDuplicate(u) ==
  /\ pc[u] \in PersistEnds \ {"duplicate"}
  /\ staged' = [staged EXCEPT ![u] = 0]
  /\ pc' = [pc EXCEPT ![u] = "releasing"]
  /\ UNCHANGED <<objects, index, memory, content, reservation, now, healthy, told>>

\* The temp file goes first (the deferred os.Remove), then the reservation.
UploadRemoveTemp(u) ==
  /\ pc[u] \in PersistEnds
  /\ staged' = [staged EXCEPT ![u] = 0]
  /\ pc' = [pc EXCEPT ![u] = "releasing"]
  /\ UNCHANGED <<objects, index, memory, content, reservation, now, healthy, told>>

\* Mutant of Released: what is released is the maximum, and nothing clamps.
ReleasedMaximum(bytes) == reservedBytes - MaxUploadBytes

\* release clamps the ledger at zero.
Released(bytes) == IF reservedBytes - bytes < 0 THEN 0 ELSE reservedBytes - bytes

\* Mutant of UploadRelease: the bytes received are released, not those reserved.
UploadReleaseReceived(u) ==
  /\ pc[u] = "releasing"
  /\ reservedBytes' = Released(Size[content[u]])
  /\ pc' = [pc EXCEPT ![u] = "idle"]
  /\ content' = [content EXCEPT ![u] = NoId]
  /\ reservation' = [reservation EXCEPT ![u] = 0]
  /\ UNCHANGED <<durable, up, records, orphans, now, healthy, told>>

UploadRelease(u) ==
  /\ pc[u] = "releasing"
  /\ reservedBytes' = Released(reservation[u])
  /\ pc' = [pc EXCEPT ![u] = "idle"]
  /\ content' = [content EXCEPT ![u] = NoId]
  /\ reservation' = [reservation EXCEPT ![u] = 0]
  /\ UNCHANGED <<durable, up, records, orphans, now, healthy, told>>

----------------------------------------------------------------------------
(* Deletion.                                                               *)

Tell(ids, what) == [id \in Ids |-> IF id \in ids THEN what ELSE told[id]]

\* Mutant of DeleteFile: the index is not saved.
DeleteFileUnsaved(id) ==
  /\ up /\ id \in DOMAIN records
  /\ Install([Image EXCEPT !.records = Drop(@, {id}), !.objects = @ \ {id}])
  /\ told' = Tell({id}, "gone")
  /\ UNCHANGED <<staged, up, reservedBytes, request, now, healthy>>

\* Mutant of DeleteFile: a failing Delete hands the live object to the orphans.
DeleteFileOrphaning(id) ==
  /\ up /\ id \in DOMAIN records /\ ~healthy
  /\ Install([Image EXCEPT !.orphans = @ \cup {id}])
  /\ told' = Tell({id}, "none")
  /\ UNCHANGED <<staged, up, reservedBytes, request, now, healthy>>

\* DELETE /api/files/{id} of a known id; an unknown one changes nothing.
DeleteFile(id) ==
  /\ up /\ id \in DOMAIN records
  /\ \/ /\ Install([Image EXCEPT !.records = Drop(@, {id}), !.objects = @ \ {id},
                                 !.index = Drop(records, {id})])
        /\ told' = Tell({id}, "gone")
     \/ /\ ~healthy
        /\ \E left \in AfterFailedDelete(objects, {id}) :
             Install([Image EXCEPT !.objects = left])
        /\ told' = Tell({id}, "none")
     \/ /\ ~healthy
        /\ Install([Image EXCEPT !.records = Drop(@, {id}), !.objects = @ \ {id},
                                 !.orphans = @ \cup {id}])
        /\ told' = Tell({id}, "none")
  /\ UNCHANGED <<staged, up, reservedBytes, request, now, healthy>>

\* POST /api/files/delete: unknown ids are skipped, the index is saved once, at
\* the end, and the removed objects become orphans when it is not.
BatchDelete(ids) ==
  LET hits == ids \cap DOMAIN records
      Without(done) == [Image EXCEPT !.records = Drop(@, done), !.objects = @ \ done]
  IN  /\ up /\ hits # {}
      /\ \/ /\ Install([Without(hits) EXCEPT !.index = Drop(records, hits)])
            /\ told' = Tell(hits, "gone")
         \/ /\ ~healthy
            /\ \E done \in (SUBSET hits) \ {hits} :
               \E left \in AfterFailedDelete(objects \ done, hits \ done) :
                 Install([Without(done) EXCEPT !.objects = left, !.orphans = @ \cup done])
            /\ told' = Tell(hits, "none")
         \/ /\ ~healthy
            /\ Install([Without(hits) EXCEPT !.orphans = @ \cup hits])
            /\ told' = Tell(hits, "none")
      /\ UNCHANGED <<staged, up, reservedBytes, request, now, healthy>>

----------------------------------------------------------------------------
(* The background and the life of the process.                             *)

\* cleanup on the hourly ticker.
CleanupTick ==
  /\ up
  /\ CleanupSucceeds \/ CleanupFails
  /\ UNCHANGED <<staged, up, reservedBytes, request, now, healthy>>

Crash ==
  /\ up /\ ~healthy
  /\ up' = FALSE
  /\ records' = Empty /\ orphans' = {} /\ reservedBytes' = 0
  /\ pc' = [u \in Uploads |-> "idle"]
  /\ content' = [u \in Uploads |-> NoId]
  /\ reservation' = [u \in Uploads |-> 0]
  /\ UNCHANGED <<durable, now, healthy, told>>

\* Mutant of Survivors: the records are made again from the objects, created now.
SurvivorsRenewed == [id \in (DOMAIN index) \cap objects |-> now]

\* loadIndex, then what reconcile keeps: the index entries whose object exists.
Survivors == Restrict(index, (DOMAIN index) \cap objects)

\* Mutant of Reconciled: stray objects stay.
ReconciledIndexOnly == [records |-> Survivors, orphans |-> {},
                        objects |-> objects, index |-> Survivors]

Reconciled == [records |-> Survivors, orphans |-> {},
               objects |-> objects \cap DOMAIN index, index |-> Survivors]

\* NewServer succeeds: index loaded, temp files and stray objects removed, the
\* index saved if it changed, the first expiry pass done.
Boot ==
  /\ ~up
  /\ up' = TRUE
  /\ LET m == Cleaned(Reconciled)
     IN  Install(m) /\ told' = Forget(Expired(Survivors))
  /\ staged' = [u \in Uploads |-> 0]
  /\ UNCHANGED <<request, now, healthy>>

Start == Boot /\ UNCHANGED reservedBytes

\* NewServer returns an error in reconcile, at the temp files or at the stray
\* objects and the index, and the process exits.
ReconcileFails ==
  /\ ~up /\ ~healthy
  /\ \/ /\ \E gone \in SUBSET Uploads :
             staged' = [u \in Uploads |-> IF u \in gone THEN 0 ELSE staged[u]]
        /\ UNCHANGED objects
     \/ /\ staged' = [u \in Uploads |-> 0]
        /\ \E gone \in SUBSET (objects \ DOMAIN index) : objects' = objects \ gone
  /\ UNCHANGED <<index, told, memory, request, now, healthy>>

\* NewServer returns an error in the first expiry pass.
FirstCleanupFails ==
  /\ ~up /\ ~healthy
  /\ staged' = [u \in Uploads |-> 0]
  /\ \E m \in CleanupFailures(Reconciled) :
       /\ objects' = m.objects /\ index' = m.index
       /\ told' = Forget(DOMAIN Survivors \ DOMAIN m.records)
  /\ UNCHANGED <<memory, request, now, healthy>>

StartFails == ReconcileFails \/ FirstCleanupFails

Tick ==
  /\ now < MaxTime
  /\ now' = now + 1
  /\ UNCHANGED <<durable, memory, request, healthy, told>>

\* The faults stop.
Stabilize ==
  /\ ~healthy
  /\ healthy' = TRUE
  /\ UNCHANGED <<durable, memory, request, now, told>>

----------------------------------------------------------------------------
UploadStep(u) == \/ UploadReserve(u) \/ UploadRefused(u)
                 \/ UploadReceive(u) \/ UploadReject(u)
                 \/ UploadPersist(u) \/ UploadRemoveTemp(u) \/ UploadRelease(u)

Next == \/ \E u \in Uploads : UploadStep(u)
        \/ \E id \in Ids : DeleteFile(id)
        \/ \E ids \in SUBSET Ids : BatchDelete(ids)
        \/ CleanupTick \/ Crash \/ Start \/ StartFails
        \/ Tick \/ Stabilize

Spec == Init /\ [][Next]_vars

\* The handlers run on, bodies arrive or fail (the server's ReadTimeout), the
\* ticker fires every hour and the container is restarted when it exits.
Fairness ==
  /\ \A u \in Uploads : /\ WF_vars(UploadRefused(u))
                         /\ WF_vars(UploadReceive(u) \/ UploadReject(u))
                         /\ WF_vars(UploadPersist(u))
                         /\ WF_vars(UploadRemoveTemp(u))
                         /\ WF_vars(UploadRelease(u))
  /\ WF_vars(CleanupTick)
  /\ WF_vars(Start \/ StartFails)

FairSpec == Spec /\ Fairness

----------------------------------------------------------------------------
(* Properties.                                                             *)

PCs == {"idle", "refused", "receiving", "received", "releasing"} \cup PersistEnds

\* Requests that hold a reservation whose bytes are not (yet) counted as a
\* record or an orphan.
Pending == {u \in Uploads : pc[u] \in {"receiving", "received", "duplicate", "full",
                                       "failed", "undone"}}

\* Every variable keeps its type; a process that is down holds nothing.
TypeOK ==
  /\ objects \subseteq Ids /\ index \in Indexes /\ staged \in [Uploads -> Nat]
  /\ up \in BOOLEAN /\ records \in Indexes /\ orphans \subseteq Ids /\ reservedBytes \in Nat
  /\ pc \in [Uploads -> PCs]
  /\ content \in [Uploads -> Ids \cup {NoId}]
  /\ reservation \in [Uploads -> Nat]
  /\ now \in Time /\ healthy \in BOOLEAN
  /\ told \in [Ids -> {"none", "kept", "gone"}]
  /\ \A u \in Uploads : content[u] = NoId <=> pc[u] = "idle"
  /\ \A u \in Uploads : pc[u] \in {"idle", "refused"} => reservation[u] = 0
  /\ ~up => DOMAIN records = {} /\ orphans = {} /\ \A u \in Uploads : pc[u] = "idle"

\* The ledger is exact: reservedBytes is the sum of what the requests in flight
\* hold, so every reserve is balanced by one release (persist.go: "It must be
\* balanced by release") and the clamp at zero never acts.
LedgerExact == reservedBytes = Total(Uploads, reservation)

\* What is stored fits the limit, and so does what the index on disk would bring
\* back.
StoredWithin ==
  /\ UsedBytes(records, orphans) <= MaxStorageBytes
  /\ Total(DOMAIN index, Size) <= MaxStorageBytes

\* Committed objects, orphans and the reservations still to be used fit the
\* limit together, and so does what the index on disk would bring back.
NoOvercommit ==
  /\ UsedBytes(records, orphans) + Total(Pending, reservation) <= MaxStorageBytes
  /\ Total(DOMAIN index, Size) <= MaxStorageBytes

\* With local storage, what the memory lists is on disk, with its bytes and its
\* index entry: an acknowledged upload, or a duplicate of it, survives a crash
\* whatever saves failed before it.
Durable ==
  Driver = "local" =>
    /\ DOMAIN records \subseteq objects
    /\ IsRestriction(records, index)

\* With local storage a running service knows every object it stores: no byte
\* escapes the capacity check until the next restart.
AllBytesAccounted ==
  Driver = "local" /\ up => objects \subseteq DOMAIN records \cup orphans

\* No key is both a committed object and an orphan: the orphan pass never
\* deletes the bytes of a live record.
OrphansDead == orphans \cap DOMAIN records = {}

\* Objects and temp files together exceed the limit by at most the one probing
\* byte of each body that turned out to be too large.
DiskBounded ==
  Driver = "local" =>
    Total(objects, Size) + Total(Uploads, staged)
      <= MaxStorageBytes + Cardinality({u \in Uploads : staged[u] > MaxUploadBytes})

\* What the clients were told holds: a deletion answered with success leaves
\* neither a record nor an index entry a restart could bring back, and a stored
\* or duplicate upload is in the index, with its bytes, until it is deleted or
\* has expired.
AnswersHold ==
  \A id \in Ids :
    /\ told[id] = "gone" => id \notin DOMAIN records \cup DOMAIN index
    /\ told[id] = "kept" /\ Driver = "local" =>
         id \in objects \cap DOMAIN index /\ (up => id \in DOMAIN records)

\* A reservation is worth its bytes: a fully received upload passes the capacity
\* check of persist, unless another request has stored its bytes and not yet
\* released its reservation.
ReservationHonoured ==
  \A u \in Uploads :
    /\ pc[u] = "received"
    /\ \A v \in Uploads : pc[v] \in {"stored", "orphaned", "releasing"} => reservation[v] = 0
    => Fits(content[u], reservation[u], Cleaned(Image))

\* README: a duplicate upload resets neither the created time nor the expiry.  Only
\* a record that has expired can be replaced by a newer one.
CreatedFixed ==
  [][\A id \in DOMAIN records \cap DOMAIN records' :
       records'[id] = records[id] \/ id \in Expired(records)]_vars

\* README: files and their index survive restarts, and expire by their age.  With
\* local storage the service is the file host of FileHost: its records are the
\* files, and the index holds, with their created times, what clients were
\* promised last.
Host == INSTANCE FileHost
          WITH running <- up, files <- records,
               kept <- Restrict(index, {id \in DOMAIN index : told[id] = "kept"}),
               gone <- {id \in Ids : told[id] = "gone"}

ImplementsFileHost == Host!Spec

\* Once the faults stop, an expired record is removed.
ExpiredReaped ==
  \A id \in Ids : (healthy /\ id \in Expired(records)) ~> (id \notin Expired(records))

\* Once the faults stop, an orphan is removed.
OrphansReaped ==
  \A id \in Ids : (healthy /\ id \in orphans) ~> (id \notin orphans)

\* Every request ends, and with it its reservation.
UploadsEnd == \A u \in Uploads : (pc[u] # "idle") ~> (pc[u] = "idle")
=============================================================================
