----------------------------- MODULE TusUploads -----------------------------
(***************************************************************************)
(* Resumable uploads (tus.go), composed with the service they share the    *)
(* lock, the ledger and the store with.                                    *)
(*                                                                         *)
(* tusd owns data/tus: an upload t has a binary file, to which PATCH       *)
(* requests append, and a t.info file with its declared length.  The       *)
(* callbacks of tus.go reserve at creation, persist the file when it is    *)
(* complete, and release at termination; a reaper releases what is idle.   *)
(* The composition has no locker: nothing keeps two requests, or a request *)
(* and the reaper, from working on one upload at the same time.            *)
(***************************************************************************)
EXTENDS Service

CONSTANTS
  MaxSessions,           \* tus uploads a behaviour may create
  Calls,                 \* request goroutines serving /api/uploads/
  TTL,                   \* tusSessionTTL
  MaxTusResults,
  Overlap                \* requests and the reaper may meet at one upload

ASSUME TusAssumption ==
  /\ MaxSessions \in Nat /\ IsFiniteSet(Calls)
  /\ TTL \in Nat \ {0} /\ MaxTusResults \in Nat \ {0} /\ Overlap \in BOOLEAN

\* Upload ids are random; their numbers stand for the order of their names, in
\* which a directory is read.
Sessions == 1 .. MaxSessions
NoSession == 0

VARIABLES
  \* On disk.
  info,          \* the .info file: "none", "whole" or "torn"
  bin,           \* length of the binary file, -1 without one
  touched,       \* its modification time, 0 without one
  sent,          \* the content the client sends: what the declared length and
                 \* the bytes in the file come from
  \* In the process.
  call,          \* what each goroutine is doing, to which upload, and the bytes
                 \* missing when it opened the file
  found,         \* the upload the reaper has found expired and not yet removed
  reaping,       \* the upload the reaper has removed and not yet released
  results,       \* tusResults, by upload id
  \* What happened, for the properties.
  stored,        \* uploads whose bytes persist has put into the store, or found
                 \* there
  leftover       \* uploads whose .info file is still there although their
                 \* reservation was released, or not restored: it could not be
                 \* removed

staging == <<info, bin, touched, sent>>
reaper == <<found, reaping>>
tusVars == <<staging, call, reaper, results, stored, leftover>>
allVars == <<vars, tusVars>>

\* The declared length of each upload that was created.
Length == [t \in Sessions |-> IF sent[t] \in Ids THEN Size[sent[t]] ELSE 0]

Call(at, t, left) == [at |-> at, t |-> t, left |-> left]
Idle == Call("idle", NoSession, 0)

TusInit ==
  /\ Init
  /\ info = [t \in Sessions |-> "none"] /\ bin = [t \in Sessions |-> -1]
  /\ touched = [t \in Sessions |-> 0] /\ sent = [t \in Sessions |-> NoId]
  /\ call = [c \in Calls |-> Idle] /\ found = NoSession /\ reaping = NoSession
  /\ results = {} /\ stored = {} /\ leftover = {}

----------------------------------------------------------------------------
(* Helpers.                                                                *)

\* Nobody else is working on t.
Alone(c, t) ==
  Overlap \/ (found # t /\ reaping # t /\ \A d \in Calls \ {c} : call[d].t # t)

Goes(c, at) == call' = [call EXCEPT ![c].at = at]
Ends(c)     == call' = [call EXCEPT ![c] = Idle]

\* tusExpired: no binary file, or one that has not been written for TTL.
TusExpired(t) == bin[t] < 0 \/ touched[t] + TTL < now

Removed(f, S, gone) == [t \in Sessions |-> IF t \in S THEN gone ELSE f[t]]

\* removeTusFiles, for every upload of S: either file may stay, and the error is ignored.
RemoveFiles(S) ==
  \E bins \in SUBSET S : \E infos \in SUBSET S :
    /\ healthy => bins = S /\ infos = S
    /\ bin' = Removed(bin, bins, -1) /\ touched' = Removed(touched, bins, 0)
    /\ info' = Removed(info, infos, "none")
    /\ UNCHANGED sent

\* The last of an upload's removal and its release is over: what remains is left over.
Remains(t) == leftover' = IF info'[t] = "whole" THEN leftover \cup {t} ELSE leftover

\* The service's memory and disk stay; the ledger may change.
ButLedger == <<durable, up, records, orphans, request, now, healthy, told>>

Release(bytes) == reservedBytes' = Released(bytes) /\ UNCHANGED ButLedger

----------------------------------------------------------------------------
(* POST: creation.                                                         *)

\* beforeTusCreate reserves the declared length, or the creation is refused.
TusReserve(c, t) ==
  /\ up /\ call[c] = Idle /\ sent[t] = NoId
  /\ \E id \in Ids :
       /\ Size[id] \in 1 .. MaxUploadBytes
       /\ \/ /\ CleanupSucceeds
             /\ Reservable(Size[id], Cleaned(Image))
             /\ reservedBytes' = reservedBytes + Size[id]
             /\ sent' = [sent EXCEPT ![t] = id]
             /\ call' = [call EXCEPT ![c] = Call("creating", t, 0)]
          \/ /\ CleanupSucceeds
             /\ ~Reservable(Size[id], Cleaned(Image))
             /\ UNCHANGED <<reservedBytes, sent, call>>
          \/ /\ CleanupFails
             /\ UNCHANGED <<reservedBytes, sent, call>>
  /\ UNCHANGED <<staged, up, request, now, healthy,
                 info, bin, touched, reaper, results, stored, leftover>>

\* tusd creates the binary file, then the .info file.
TusCreate(c) ==
  /\ call[c].at = "creating"
  /\ LET t == call[c].t
     IN  /\ bin' = [bin EXCEPT ![t] = 0] /\ info' = [info EXCEPT ![t] = "whole"]
         /\ touched' = [touched EXCEPT ![t] = now]
  /\ Ends(c)
  /\ UNCHANGED <<vars, sent, reaper, results, stored, leftover>>

\* One of the two cannot be created: the client gets a 500, and no callback runs.
TusCreateFails(c) ==
  /\ call[c].at = "creating" /\ ~healthy
  /\ LET t == call[c].t
     IN  \/ UNCHANGED <<bin, info, touched>>
         \/ /\ bin' = [bin EXCEPT ![t] = 0] /\ touched' = [touched EXCEPT ![t] = now]
            /\ info' \in {info, [info EXCEPT ![t] = "torn"]}
  /\ Ends(c)
  /\ UNCHANGED <<vars, sent, reaper, results, stored, leftover>>

----------------------------------------------------------------------------
(* PATCH: bytes, and the end of an upload.                                 *)

Known(t) == info[t] = "whole" /\ bin[t] >= 0

\* tusd finds the upload incomplete and opens its file.
PatchOpen(c, t) ==
  /\ up /\ call[c] = Idle /\ Alone(c, t)
  /\ Known(t) /\ bin[t] < Length[t]
  /\ call' = [call EXCEPT ![c] = Call("writing", t, Length[t] - bin[t])]
  /\ UNCHANGED <<vars, staging, reaper, results, stored, leftover>>

\* tusd finds all bytes there: it calls nobody and answers that they are.
PatchComplete(c, t) ==
  /\ up /\ call[c] = Idle /\ Alone(c, t)
  /\ Known(t) /\ bin[t] >= Length[t]
  /\ call' = [call EXCEPT ![c] = Call("complete", t, 0)]
  /\ UNCHANGED <<vars, staging, reaper, results, stored, leftover>>

PatchAnswer(c) ==
  /\ call[c].at = "complete"
  /\ Ends(c)
  /\ UNCHANGED <<vars, staging, reaper, results, stored, leftover>>

\* Bytes of the body are appended, to a file that may have been unlinked.  The
\* body may end early; when all bytes are there the upload is finished.
PatchWrite(c) ==
  /\ call[c].at = "writing"
  /\ LET t == call[c].t
     IN  \E n \in 0 .. call[c].left :
           /\ bin' = IF bin[t] < 0 THEN bin ELSE [bin EXCEPT ![t] = @ + n]
           /\ touched' = IF n = 0 \/ bin[t] < 0 THEN touched ELSE [touched EXCEPT ![t] = now]
           /\ call' = [call EXCEPT ![c] = IF n = @.left THEN Call("finishing", t, 0) ELSE Idle]
  /\ UNCHANGED <<vars, info, sent, reaper, results, stored, leftover>>

\* finishTusUpload hashes the file and tests its length and type.
FinishCheck(c) ==
  /\ call[c].at = "finishing"
  /\ LET t == call[c].t
     IN  Goes(c, IF bin[t] = Length[t] /\ sent[t] \in Allowed THEN "checked" ELSE "failing")
  /\ UNCHANGED <<vars, staging, reaper, results, stored, leftover>>

\* The file cannot be read.
FinishCheckFails(c) ==
  /\ call[c].at = "finishing" /\ ~healthy
  /\ Goes(c, "failing")
  /\ UNCHANGED <<vars, staging, reaper, results, stored, leftover>>

\* persist: a file that is gone by now makes Put fail.
FinishPersist(c) ==
  /\ call[c].at = "checked"
  /\ LET t  == call[c].t
         id == sent[t]
     IN  \/ \E how \in PersistEnds :
              /\ Persist(id, Length[t], Cleaned(Image), how)
              /\ how \in Moved => bin[t] >= 0
              /\ LET gone == IF Consumes(how) THEN {t} ELSE {}
                 IN  bin' = Removed(bin, gone, -1) /\ touched' = Removed(touched, gone, 0)
              /\ Goes(c, IF how \in {"duplicate", "stored"} THEN "persisted" ELSE "failing")
              /\ stored' = IF how \in {"duplicate", "stored", "orphaned"}
                           THEN stored \cup {t} ELSE stored
         \/ /\ bin[t] < 0
            /\ id \notin DOMAIN Cleaned(Image).records
            /\ Fits(id, Length[t], Cleaned(Image))
            /\ CleanupSucceeds
            /\ Goes(c, "failing")
            /\ UNCHANGED <<bin, touched, stored>>
         \/ /\ CleanupFails
            /\ Goes(c, "failing")
            /\ UNCHANGED <<bin, touched, stored>>
  /\ UNCHANGED <<staged, up, reservedBytes, request, now, healthy,
                 info, sent, reaper, results, leftover>>

FinishRelease(c) ==
  /\ call[c].at = "persisted"
  /\ Release(Length[call[c].t])
  /\ Goes(c, "released")
  /\ UNCHANGED <<staging, reaper, results, stored, leftover>>

\* Mutant of FinishAnswer: nothing is evicted at the cap.
FinishAnswerUnbounded(c) ==
  /\ call[c].at = "released"
  /\ LET t == call[c].t
     IN  /\ info' \in {info, [info EXCEPT ![t] = "none"]} /\ (healthy => info'[t] = "none")
         /\ Remains(t)
         /\ results' = results \cup {t}
  /\ Ends(c)
  /\ UNCHANGED <<vars, bin, touched, sent, reaper, stored>>

\* The .info file goes, unless it cannot be removed (the binary file stays where Put
\* did not move it); the result is remembered, evicting any other at the cap, and the
\* client answered.
FinishAnswer(c) ==
  /\ call[c].at = "released"
  /\ LET t == call[c].t
     IN  /\ info' \in {info, [info EXCEPT ![t] = "none"]} /\ (healthy => info'[t] = "none")
         /\ Remains(t)
         /\ IF t \in results \/ Cardinality(results) < MaxTusResults
            THEN results' = results \cup {t}
            ELSE \E old \in results : results' = (results \ {old}) \cup {t}
  /\ Ends(c)
  /\ UNCHANGED <<vars, bin, touched, sent, reaper, stored>>

\* failTusUpload removes both files, then releases.
FailRemove(c) ==
  /\ call[c].at = "failing"
  /\ RemoveFiles({call[c].t})
  /\ Goes(c, "removed")
  /\ UNCHANGED <<vars, reaper, results, stored, leftover>>

\* Mutant of FailRelease: it waits for the ledger to cover what it releases.
FailReleaseCovered(c) ==
  /\ call[c].at = "removed" /\ reservedBytes >= Length[call[c].t]
  /\ Release(Length[call[c].t])
  /\ Ends(c)
  /\ UNCHANGED <<staging, reaper, results, stored>>
  /\ Remains(call[c].t)

FailRelease(c) ==
  /\ call[c].at = "removed"
  /\ Release(Length[call[c].t])
  /\ Ends(c)
  /\ UNCHANGED <<staging, reaper, results, stored>>
  /\ Remains(call[c].t)

----------------------------------------------------------------------------
(* DELETE: termination.                                                    *)

TerminateOpen(c, t) ==
  /\ up /\ call[c] = Idle /\ Alone(c, t)
  /\ Known(t)
  /\ call' = [call EXCEPT ![c] = Call("terminating", t, 0)]
  /\ UNCHANGED <<vars, staging, reaper, results, stored, leftover>>

\* beforeTusTerminate releases, then tusd removes the files; what it cannot remove, it
\* answers with an error.
TerminateRelease(c) ==
  /\ call[c].at = "terminating"
  /\ Release(Length[call[c].t])
  /\ Goes(c, "terminated")
  /\ UNCHANGED <<staging, reaper, results, stored, leftover>>

TerminateRemove(c) ==
  /\ call[c].at = "terminated"
  /\ RemoveFiles({call[c].t})
  /\ Ends(c)
  /\ Remains(call[c].t)
  /\ UNCHANGED <<vars, reaper, results, stored>>

----------------------------------------------------------------------------
(* The reaper, and restarts.                                               *)

\* reapTus reads the .info files in the order of their names and stops at the
\* first it cannot parse.
Reached(t) == info[t] = "whole" /\ \A s \in 1 .. t : info[s] # "torn"

\* Mutant of ReapFind: an upload with all its bytes is left to its request.
ReapFindIncomplete(t) ==
  /\ up /\ found = NoSession /\ reaping = NoSession
  /\ Overlap \/ \A c \in Calls : call[c].t # t
  /\ Reached(t) /\ TusExpired(t) /\ bin[t] < Length[t]
  /\ found' = t
  /\ UNCHANGED <<vars, staging, call, reaping, results, stored, leftover>>

\* It reads the .info file and finds the upload expired,
ReapFind(t) ==
  /\ up /\ found = NoSession /\ reaping = NoSession
  /\ Overlap \/ \A c \in Calls : call[c].t # t
  /\ Reached(t) /\ TusExpired(t)
  /\ found' = t
  /\ UNCHANGED <<vars, staging, call, reaping, results, stored, leftover>>

\* removes the files of what it has found, written since or not,
ReapRemove ==
  /\ found # NoSession
  /\ RemoveFiles({found})
  /\ reaping' = found /\ found' = NoSession
  /\ UNCHANGED <<vars, call, results, stored, leftover>>

\* and releases its bytes, whether the files are gone or not.
ReapRelease ==
  /\ reaping # NoSession
  /\ Release(Length[reaping])
  /\ reaping' = NoSession
  /\ UNCHANGED <<staging, call, found, results, stored>>
  /\ Remains(reaping)

\* A crash may tear the .info file that is being written.
TusCrash ==
  /\ Crash
  /\ call' = [c \in Calls |-> Idle] /\ found' = NoSession /\ reaping' = NoSession
  /\ results' = {} /\ leftover' = {}
  /\ LET creating == {call[c].t : c \in {d \in Calls : call[d].at = "creating"}}
     IN  \E bins \in SUBSET creating : \E torn \in SUBSET bins :
           /\ bin' = Removed(bin, bins, 0) /\ touched' = Removed(touched, bins, now)
           /\ info' = Removed(info, torn, "torn")
  /\ UNCHANGED <<sent, stored>>

\* reconcileTus removes the files of the uploads that are idle and restores the
\* reservations of the others.
Idlers == {t \in Sessions : Reached(t) /\ TusExpired(t)}

\* Mutant of Restored: the dropped uploads count as well.
RestoredAll == {t \in Sessions : Reached(t)}

Restored == {t \in Sessions : Reached(t)} \ Idlers

Parsable == \A t \in Sessions : info[t] # "torn"

\* Mutant of TusStart: the surviving reservations are forgotten.
TusStartAfresh ==
  /\ Parsable
  /\ Boot
  /\ RemoveFiles(Idlers)
  /\ leftover' = {t \in Idlers : info'[t] = "whole"}
  /\ UNCHANGED <<reservedBytes, call, reaper, results, stored>>

\* Mutant of TusStart: a missing binary file is an error.
TusStartStrict ==
  /\ Parsable /\ \A t \in Sessions : info[t] = "whole" => bin[t] >= 0
  /\ Boot
  /\ RemoveFiles(Idlers)
  /\ reservedBytes' = reservedBytes + Total(Restored, Length)
  /\ leftover' = {t \in Idlers : info'[t] = "whole"}
  /\ UNCHANGED <<call, reaper, results, stored>>

TusStart ==
  /\ Parsable
  /\ Boot
  /\ RemoveFiles(Idlers)
  /\ reservedBytes' = reservedBytes + Total(Restored, Length)
  /\ leftover' = {t \in Idlers : info'[t] = "whole"}
  /\ UNCHANGED <<call, reaper, results, stored>>

\* NewServer returns an error before, in or after initTus.
TusStartFails ==
  \/ ReconcileFails /\ UNCHANGED tusVars
  \/ /\ ~up /\ ~Parsable
     /\ staged' = [u \in Uploads |-> 0]
     /\ objects' = Reconciled.objects /\ index' = Reconciled.index
     /\ RemoveFiles(Idlers)
     /\ UNCHANGED <<memory, request, now, healthy, told, call, reaper, results, stored, leftover>>
  \/ /\ Parsable
     /\ FirstCleanupFails
     /\ RemoveFiles(Idlers)
     /\ UNCHANGED <<call, reaper, results, stored, leftover>>

----------------------------------------------------------------------------
CallStep(c) ==
  \/ TusCreate(c) \/ TusCreateFails(c) \/ PatchWrite(c) \/ PatchAnswer(c)
  \/ FinishCheck(c) \/ FinishCheckFails(c) \/ FinishPersist(c) \/ FinishRelease(c)
  \/ FinishAnswer(c) \/ FailRemove(c) \/ FailRelease(c)
  \/ TerminateRelease(c) \/ TerminateRemove(c)

\* What the service does on its own while it runs.
ServiceStep ==
  \/ \E u \in Uploads : UploadStep(u)
  \/ \E id \in Ids : DeleteFile(id)
  \/ \E ids \in SUBSET Ids : BatchDelete(ids)
  \/ CleanupTick \/ Tick \/ Stabilize

TusNext ==
  \/ ServiceStep /\ UNCHANGED tusVars
  \/ \E c \in Calls, t \in Sessions :
       TusReserve(c, t) \/ PatchOpen(c, t) \/ PatchComplete(c, t) \/ TerminateOpen(c, t)
  \/ \E c \in Calls : CallStep(c)
  \/ \E t \in Sessions : ReapFind(t)
  \/ ReapRemove \/ ReapRelease \/ TusCrash \/ TusStart \/ TusStartFails

TusSpec == TusInit /\ [][TusNext]_allVars

\* Goroutines run on, bodies arrive or end, the reaper ticks every 15 minutes and
\* the container is restarted.
TusFairness ==
  /\ \A c \in Calls : WF_allVars(CallStep(c))
  /\ \A t \in Sessions : WF_allVars(ReapFind(t))
  /\ WF_allVars(ReapRemove) /\ WF_allVars(ReapRelease)
  /\ WF_allVars(TusStart \/ TusStartFails)

TusFairSpec == TusSpec /\ TusFairness

----------------------------------------------------------------------------
(* Properties.                                                             *)

Ats == {"idle", "creating", "writing", "finishing", "checked", "persisted", "released",
        "complete", "failing", "removed", "terminating", "terminated"}

At(t, ats) == \E c \in Calls : call[c].t = t /\ call[c].at \in ats

\* The uploads whose reservation is still to be released: those with an .info file,
\* unless it is left over or their request has released it, and those some request or
\* the reaper is about to release.
Owing ==
  {t \in Sessions \ leftover :
     \/ info[t] = "whole" /\ ~At(t, {"released", "terminated", "removed"})
     \/ At(t, {"creating", "removed"})
     \/ reaping = t}

\* Those whose bytes are not (yet) counted as a record or an orphan.
Unstored == Owing \ stored

\* The files of data/tus, and the goroutines: one that is not idle works on an upload.
FilesOK ==
  /\ info \in [Sessions -> {"none", "whole", "torn"}]
  /\ bin \in [Sessions -> Int] /\ \A t \in Sessions : bin[t] >= -1
  /\ touched \in [Sessions -> Time]
  /\ sent \in [Sessions -> Ids \cup {NoId}]

CallsOK ==
  /\ call \in [Calls -> [at : Ats, t : Sessions \cup {NoSession}, left : Nat]]
  /\ \A c \in Calls : (call[c].t = NoSession) <=> (call[c].at = "idle")

\* Every variable of the uploads keeps its type; a process that is down serves no
\* request and reaps nothing.
TusTypeOK ==
  /\ TypeOK /\ FilesOK /\ CallsOK
  /\ found \in Sessions \cup {NoSession} /\ reaping \in Sessions \cup {NoSession}
  /\ results \subseteq Sessions /\ Cardinality(results) <= MaxTusResults
  /\ stored \subseteq Sessions /\ leftover \subseteq Sessions
  /\ ~up => found = NoSession /\ reaping = NoSession /\ \A c \in Calls : call[c].at = "idle"

\* persist.go: a reservation "must be balanced by release", and by one only: the
\* ledger covers every reservation still to be released.
LedgerCovers ==
  up => Total(Uploads, reservation) + Total(Owing, Length) <= reservedBytes

\* The reservation of an upload that is left over is released once more.
ReleasedAgain ==
  \/ \E c \in Calls : call[c].t \in leftover
       /\ (FinishRelease(c) \/ FailRelease(c) \/ TerminateRelease(c))
  \/ reaping \in leftover /\ ReapRelease

\* persist.go: a reservation must be balanced by one release.  No step, whatever fails,
\* nor the end of the process and the next start, leaves the ledger with less than is
\* owed, but another release of an upload whose .info file could not be removed.
LedgerStaysCovering == [][LedgerCovers => LedgerCovers' \/ ReleasedAgain]_allVars

\* persist.go: a reservation must be balanced by a release: the ledger holds
\* nothing but the reservations still to be released.
LedgerBalanced ==
  up => reservedBytes <= Total(Uploads, reservation) + Total(Owing, Length)

\* Records, orphans and what uploads of both kinds may still store.
Within == UsedBytes(records, orphans) + Total(Pending, reservation) + Total(Unstored, Length)
            <= MaxStorageBytes

\* Uploads of both kinds, records and orphans fit the limit together: no step of a
\* running service whose ledger covers what is owed takes them beyond it, but persist
\* of an upload that is left over, whose bytes nobody reserves any more.
StaysWithin ==
  [][up /\ up' /\ LedgerCovers /\ Within =>
       Within' \/ \E c \in Calls : call[c].t \in leftover /\ FinishPersist(c)]_allVars

\* Only a failed creation leaks a reservation: no other step, whatever fails, nor the
\* end of the process and the next start, leaves the ledger with more than is owed.
LedgerStaysBalanced ==
  [][LedgerBalanced => LedgerBalanced' \/ \E c \in Calls : TusCreateFails(c)]_allVars

\* No bytes are counted twice: whoever has stored its bytes has released its reservation.
CountedOnce ==
  /\ Owing \cap stored = {}
  /\ \A u \in Uploads : pc[u] \in {"stored", "orphaned", "releasing"} => reservation[u] = 0

\* A reservation is worth its bytes, for uploads of both kinds: while nothing fails, the
\* ledger holds what is owed and nothing else, no bytes are counted twice and everything
\* fits, persist does not refuse what was received and checked.
ReceivedStored ==
  [][healthy /\ up' /\ Within /\ LedgerCovers /\ LedgerBalanced /\ CountedOnce =>
       /\ \A c \in Calls :
            call[c].at = "checked" /\ call[c].t \notin leftover /\ call'[c] # call[c]
              => call'[c].at = "persisted"
       /\ \A u \in Uploads :
            pc[u] = "received" /\ pc'[u] # pc[u] => pc'[u] \in {"duplicate", "stored"}]_allVars

\* web_handlers.go: the completed tus response comes after the upload has been
\* validated and persisted.
CompletePersisted == \A c \in Calls : call[c].at = "complete" => call[c].t \in stored

\* README: unexpired uploads can be continued after a restart.  The server comes
\* back once nothing fails any more.
ComesBack == healthy ~> up

\* README: an unfinished tus upload without a write for two hours is cleaned up,
\* unless the client comes back in time.  That holds of the uploads whose names
\* come before that of any torn .info file.
ReachedUploadsReaped ==
  \A t \in Sessions :
    (healthy /\ up /\ Reached(t) /\ TusExpired(t))
      ~> (info[t] # "whole" \/ ~TusExpired(t))

\* initTus: where no .info file is torn, the server comes back once nothing fails.
ComesBackIfParsable == (healthy /\ Parsable) ~> up

\* Every request ends.
CallsEnd == \A c \in Calls : (call[c] # Idle) ~> (call[c] = Idle)
=============================================================================
