----------------------------- MODULE TusProofs -----------------------------
(***************************************************************************)
(* Theorems of TusUploads: types, the answers given to clients, and what   *)
(* the shared ledger covers, for every value of the constants.             *)
(***************************************************************************)
EXTENDS TusUploads, FileHostProofs, FiniteSetTheorems

\* An upload that was never created has no .info file, and nobody works on it.
Begun ==
  \A t \in Sessions :
    sent[t] = NoId => /\ info[t] = "none" /\ t \notin leftover
                      /\ found # t /\ reaping # t /\ \A c \in Calls : call[c].t # t

Working == {"writing", "finishing", "checked", "persisted", "released", "complete",
            "failing", "terminating", "terminated"}

\* Where requests and the reaper never meet at one upload, whoever works on it owns
\* it: nobody else does, and its .info file is there until its owner removes it.
Owned ==
  /\ \A c, d \in Calls : c # d /\ call[c].t = call[d].t => call[c].t = NoSession
  /\ \A c \in Calls : /\ found = call[c].t => found = NoSession
                      /\ reaping = call[c].t => reaping = NoSession
  /\ found = NoSession \/ reaping = NoSession
  /\ found # NoSession => info[found] = "whole"
  /\ \A c \in Calls : call[c].at \in Working => info[call[c].t] = "whole"

----------------------------------------------------------------------------
(* Types.                                                                  *)

\* What a call becomes: at another place, working on t, the others as they were.
Becomes(c, at, t) ==
  /\ call'[c].at = at /\ call'[c].t = t
  /\ \A d \in Calls \ {c} : call'[d] = call[d]

\* The three ways a call changes keep its type.
LEMMA GoesFacts ==
  ASSUME CallsOK, NEW c \in Calls, call[c].at # "idle", NEW at \in Ats, at # "idle", Goes(c, at)
  PROVE  CallsOK' /\ Becomes(c, at, call[c].t)
BY DEF CallsOK, Becomes, Goes

LEMMA EndsFacts ==
  ASSUME CallsOK, NEW c \in Calls, Ends(c)
  PROVE  CallsOK' /\ Becomes(c, "idle", NoSession)
BY DEF CallsOK, Becomes, Ends, Idle, Call, Ats

LEMMA OpensFacts ==
  ASSUME CallsOK, NEW c \in Calls, NEW t \in Sessions, NEW at \in Ats, at # "idle",
         NEW left \in Nat, call' = [call EXCEPT ![c] = Call(at, t, left)]
  PROVE  CallsOK' /\ Becomes(c, at, t)
BY DEF CallsOK, Becomes, Call, Sessions, NoSession

\* A call that is not idle works on an upload, and only a running service has one.
LEMMA CallFacts ==
  ASSUME TusTypeOK, NEW c \in Calls, call[c].at # "idle"
  PROVE  up /\ call[c].t \in Sessions /\ call[c].at \in Ats /\ call[c].left \in Nat
BY DEF TusTypeOK, CallsOK, TypeOK

\* An upload that somebody works on was created.
LEMMA SentFacts ==
  ASSUME TusTypeOK, Begun
  PROVE  /\ \A t \in Sessions : sent[t] \in Ids \cup {NoId}
         /\ \A t \in Sessions : info[t] # "none" \/ found = t \/ reaping = t => sent[t] \in Ids
         /\ \A c \in Calls : call[c].at # "idle" => sent[call[c].t] \in Ids
BY CallFacts DEF TusTypeOK, FilesOK, Begun

\* Removing files, whether all of it succeeds or not, keeps the types of the files.
LEMMA RemoveFacts ==
  ASSUME FilesOK, NEW S, RemoveFiles(S)
  PROVE  /\ FilesOK' /\ sent' = sent
         /\ \A t \in Sessions : /\ info'[t] = info[t] \/ (t \in S /\ info'[t] = "none")
                                /\ bin'[t] = bin[t] \/ (t \in S /\ bin'[t] = -1)
<1>1. PICK bins \in SUBSET S : \E infos \in SUBSET S :
        /\ bin' = Removed(bin, bins, -1) /\ touched' = Removed(touched, bins, 0)
        /\ info' = Removed(info, infos, "none") /\ UNCHANGED sent
  BY DEF RemoveFiles
<1>2. PICK infos \in SUBSET S :
        /\ bin' = Removed(bin, bins, -1) /\ touched' = Removed(touched, bins, 0)
        /\ info' = Removed(info, infos, "none") /\ UNCHANGED sent
  BY <1>1
<1>3. /\ info' \in [Sessions -> {"none", "whole", "torn"}]
      /\ bin' \in [Sessions -> Int] /\ \A t \in Sessions : bin'[t] >= -1
      /\ touched' \in [Sessions -> Time] /\ sent' = sent
  <2>1. 0 \in Time
    BY ServiceAssumption DEF Time
  <2>2. info' \in [Sessions -> {"none", "whole", "torn"}]
    BY <1>2 DEF FilesOK, Removed
  <2>3. bin' \in [Sessions -> Int] /\ \A t \in Sessions : bin'[t] >= -1
    BY <1>2 DEF FilesOK, Removed
  <2>4. touched' \in [Sessions -> Time] /\ sent' = sent
    BY <1>2, <2>1 DEF FilesOK, Removed
  <2> QED
    BY <2>2, <2>3, <2>4
<1>4. ASSUME NEW t \in Sessions
      PROVE  /\ info'[t] = info[t] \/ (t \in S /\ info'[t] = "none")
             /\ bin'[t] = bin[t] \/ (t \in S /\ bin'[t] = -1)
  <2>1. info'[t] = IF t \in infos THEN "none" ELSE info[t]
    BY <1>2 DEF Removed
  <2>2. bin'[t] = IF t \in bins THEN -1 ELSE bin[t]
    BY <1>2 DEF Removed
  <2>3. (t \in infos => t \in S) /\ (t \in bins => t \in S)
    OBVIOUS
  <2> QED
    BY <2>1, <2>2, <2>3
<1> QED
  BY <1>3, <1>4 DEF FilesOK

\* What is left over is an upload.
LEMMA RemainsFacts ==
  ASSUME leftover \subseteq Sessions, NEW t \in Sessions, Remains(t)
  PROVE  /\ leftover' \subseteq Sessions /\ leftover \subseteq leftover'
         /\ leftover' \subseteq leftover \cup {t}
         /\ info'[t] = "whole" => t \in leftover'
BY DEF Remains

LEMMA LengthFacts == Length \in [Sessions -> Nat]
BY ServiceAssumption DEF Length

\* The lengths of finitely many uploads have a sum.
LEMMA SessionsFinite == IsFiniteSet(Sessions)
BY FS_Interval, TusAssumption DEF Sessions

LEMMA LengthTotals ==
  ASSUME NEW f \in [Sessions -> Nat], NEW S \in SUBSET Sessions
  PROVE  /\ Total(S, f) \in Nat
         /\ \A T \in SUBSET S : Total(T, f) <= Total(S, f)
<1>1. IsFiniteSet(S)
  BY SessionsFinite, FS_Subset
<1> QED
  BY <1>1, TotalType, TotalMonotone

\* A release keeps the types, and so does a step of the files alone.
LEMMA ReleaseTypes ==
  ASSUME TypeOK, NEW bytes \in Nat, Release(bytes)
  PROVE  TypeOK' /\ UNCHANGED ButLedger
<1>1. reservedBytes' \in Nat
  BY DEF TypeOK, Release, Released
<1> QED
  BY <1>1 DEF TypeOK, Release, ButLedger, durable, request

LEMMA StutterTypes ==
  ASSUME TypeOK, UNCHANGED vars
  PROVE  TypeOK'
BY NextTypes

\* The service's own steps are steps of Service that leave it running.
LEMMA ServiceSteps ==
  ASSUME TypeOK, ServiceStep
  PROVE  Next /\ TypeOK' /\ (up' <=> up)
<1>1. Next
  BY DEF ServiceStep, Next
<1>2. (up' <=> up)
  <2>1. CASE \E u \in Uploads : UploadStep(u)
    BY <2>1 DEF UploadStep, UploadReserve, UploadRefused, UploadReceive, UploadReject,
                UploadPersist, UploadRemoveTemp, UploadRelease, memory
  <2>2. CASE \/ \E id \in Ids : DeleteFile(id)
             \/ \E ids \in SUBSET Ids : BatchDelete(ids)
    BY <2>2, DeletionFacts
  <2>3. CASE CleanupTick \/ Tick \/ Stabilize
    BY <2>3 DEF CleanupTick, Tick, Stabilize, memory
  <2> QED
    BY <2>1, <2>2, <2>3 DEF ServiceStep
<1> QED
  BY <1>1, <1>2, NextTypes

\* What persist of an upload's file keeps.
LEMMA FinishPersistTypes ==
  ASSUME TusTypeOK, Begun, NEW c \in Calls, FinishPersist(c)
  PROVE  /\ TypeOK' /\ FilesOK' /\ stored' \subseteq Sessions
         /\ \/ Goes(c, "persisted")
            \/ Goes(c, "failing")
<1> DEFINE t == call[c].t
           id == sent[t]
<1>1. call[c].at = "checked"
  BY DEF FinishPersist
<1>2. /\ up /\ t \in Sessions /\ id \in Ids
      /\ TypeOK /\ FilesOK /\ stored \subseteq Sessions
  BY <1>1, CallFacts, SentFacts DEF TusTypeOK
<1>3. /\ UNCHANGED <<staged, up, reservedBytes, request, now, healthy, info, sent>>
      /\ Goes(c, "persisted") \/ Goes(c, "failing")
  BY DEF FinishPersist
<1>4. stored' \subseteq Sessions
  BY <1>2 DEF FinishPersist
<1>5. \/ \E gone : bin' = Removed(bin, gone, -1) /\ touched' = Removed(touched, gone, 0)
      \/ UNCHANGED <<bin, touched>>
  BY DEF FinishPersist
<1>6. FilesOK'
  BY <1>2, <1>3, <1>5, ServiceAssumption DEF FilesOK, Removed, Time
<1>7. /\ records' \in Indexes /\ index' \in Indexes
      /\ orphans' \subseteq Ids /\ objects' \subseteq Ids
      /\ told' \in [Ids -> Answers]
  <2>1. CASE CleanupSucceeds \/ CleanupFails
    <3>1. /\ orphans' \subseteq orphans /\ objects' \subseteq objects
          /\ orphans \subseteq Ids /\ objects \subseteq Ids
      BY <1>2, <2>1, SweepFacts DEF TypeOK
    <3> QED
      BY <1>2, <2>1, <3>1, SweepFacts
  <2>2. CASE \E how \in PersistEnds : Persist(id, Length[t], Cleaned(Image), how)
    BY <1>2, <2>2, PersistContent
  <2> QED
    BY <2>1, <2>2 DEF FinishPersist
<1>8. TypeOK'
  BY <1>2, <1>3, <1>7 DEF TypeOK, Answers, request
<1> QED
  BY <1>3, <1>4, <1>6, <1>8

\* The steps of one call.
LEMMA CallTypes ==
  ASSUME TusTypeOK, Begun, NEW c \in Calls, CallStep(c)
  PROVE  TusTypeOK'
<1> DEFINE t == call[c].t
           Rest == /\ TypeOK' /\ FilesOK' /\ CallsOK'
                   /\ results' \subseteq Sessions /\ Cardinality(results') <= MaxTusResults
                   /\ stored' \subseteq Sessions /\ leftover' \subseteq Sessions
<1>1. /\ TypeOK /\ FilesOK /\ CallsOK 
      /\ found \in Sessions \cup {NoSession} /\ reaping \in Sessions \cup {NoSession}
      /\ results \subseteq Sessions /\ Cardinality(results) <= MaxTusResults
      /\ stored \subseteq Sessions /\ leftover \subseteq Sessions /\ now \in Time
  BY DEF TusTypeOK, TypeOK
<1>2. /\ call[c].at # "idle" /\ UNCHANGED <<found, reaping>>
  BY DEF CallStep, TusCreate, TusCreateFails, PatchWrite, PatchAnswer, FinishCheck,
         FinishCheckFails, FinishPersist, FinishRelease, FinishAnswer, FailRemove,
         FailRelease, TerminateRelease, TerminateRemove, reaper
<1>3. up /\ t \in Sessions /\ call[c].left \in Nat /\ Length[t] \in Nat
  BY <1>2, CallFacts, LengthFacts
<1>4. up'
  BY <1>3 DEF CallStep, TusCreate, TusCreateFails, PatchWrite, PatchAnswer, FinishCheck,
              FinishCheckFails, FinishPersist, FinishRelease, FinishAnswer, FailRemove,
              FailRelease, TerminateRelease, TerminateRemove, Release, ButLedger,
              vars, memory
<1> SUFFICES Rest
  BY <1>1, <1>2, <1>4 DEF TusTypeOK
<1>5. CASE TusCreate(c) \/ TusCreateFails(c)
  <2>1. /\ UNCHANGED <<vars, sent, results, stored, leftover>> /\ Ends(c)
        /\ bin' \in {bin, [bin EXCEPT ![t] = 0]}
        /\ touched' \in {touched, [touched EXCEPT ![t] = now]}
        /\ info' \in {info, [info EXCEPT ![t] = "whole"], [info EXCEPT ![t] = "torn"]}
    BY <1>5 DEF TusCreate, TusCreateFails
  <2>2. FilesOK'
    BY <1>1, <1>3, <2>1 DEF FilesOK
  <2> QED
    BY <1>1, <2>1, <2>2, StutterTypes, EndsFacts
<1>6. CASE PatchWrite(c)
  <2>1. PICK n \in 0 .. call[c].left :
          /\ bin' = IF bin[t] < 0 THEN bin ELSE [bin EXCEPT ![t] = @ + n]
          /\ touched' \in {touched, [touched EXCEPT ![t] = now]}
          /\ call' = [call EXCEPT ![c] = IF n = @.left THEN Call("finishing", t, 0) ELSE Idle]
    BY <1>6 DEF PatchWrite
  <2>2. UNCHANGED <<vars, info, sent, results, stored, leftover>>
    BY <1>6 DEF PatchWrite
  <2>3. FilesOK'
    BY <1>1, <1>3, <2>1, <2>2 DEF FilesOK
  <2>4. CallsOK'
    <3>1. CASE n = call[c].left
      BY <1>1, <1>3, <2>1, <3>1, OpensFacts DEF Ats
    <3>2. CASE n # call[c].left
      BY <1>1, <2>1, <3>2, EndsFacts DEF Ends
    <3> QED
      BY <3>1, <3>2
  <2> QED
    BY <1>1, <2>2, <2>3, <2>4, StutterTypes
<1>7. CASE PatchAnswer(c)
  BY <1>1, <1>7, StutterTypes, EndsFacts DEF PatchAnswer, staging, FilesOK
<1>8. CASE FinishCheck(c) \/ FinishCheckFails(c)
  <2>1. /\ UNCHANGED <<vars, staging, results, stored, leftover>>
        /\ Goes(c, "checked") \/ Goes(c, "failing")
    BY <1>8 DEF FinishCheck, FinishCheckFails
  <2> QED
    BY <1>1, <1>2, <2>1, StutterTypes, GoesFacts DEF staging, FilesOK, Ats
<1>9. CASE FinishPersist(c)
  BY <1>1, <1>2, <1>9, FinishPersistTypes, GoesFacts DEF FinishPersist, Ats
<1>10. CASE FinishRelease(c) \/ FailRelease(c) \/ TerminateRelease(c)
  <2>1. /\ UNCHANGED <<staging, results, stored>> /\ Release(Length[t])
        /\ Goes(c, "released") \/ Goes(c, "terminated") \/ Ends(c)
        /\ UNCHANGED leftover \/ Remains(t)
    BY <1>10 DEF FinishRelease, FailRelease, TerminateRelease
  <2> QED
    BY <1>1, <1>2, <1>3, <2>1, ReleaseTypes, GoesFacts, EndsFacts, RemainsFacts
       DEF staging, FilesOK, Ats
<1>11. CASE FinishAnswer(c)
  <2>1. /\ UNCHANGED <<vars, bin, touched, sent, stored>> /\ Ends(c)
        /\ info' \in {info, [info EXCEPT ![t] = "none"]} /\ Remains(t)
    BY <1>11 DEF FinishAnswer
  <2>2. FilesOK'
    BY <1>1, <1>3, <2>1 DEF FilesOK
  <2>3. results' \subseteq Sessions /\ Cardinality(results') <= MaxTusResults
    <3>1. IsFiniteSet(results) /\ Cardinality(results) \in Nat /\ MaxTusResults \in Nat
      BY <1>1, SessionsFinite, FS_Subset, FS_CardinalityType, TusAssumption
    <3>2. CASE results' = results \cup {t} /\ (t \in results \/ Cardinality(results) < MaxTusResults)
      <4> DEFINE more == results \cup {t}
      <4>1. Cardinality(more) = IF t \in results THEN Cardinality(results)
                                                 ELSE Cardinality(results) + 1
        BY <3>1, FS_AddElement
      <4>2. more \subseteq Sessions
        BY <1>1, <1>3
      <4> HIDE DEF more
      <4> QED
        BY <1>1, <3>1, <3>2, <4>1, <4>2 DEF more
    <3>3. ASSUME NEW old \in results, results' = (results \ {old}) \cup {t}
          PROVE  results' \subseteq Sessions /\ Cardinality(results') <= MaxTusResults
      <4> DEFINE less == results \ {old}
                 more == less \cup {t}
      <4>1. IsFiniteSet(less) /\ Cardinality(less) = Cardinality(results) - 1
        BY <3>1, <3>3, FS_RemoveElement
      <4>2. results' = more /\ more \subseteq Sessions
        BY <1>1, <1>3, <3>3
      <4> HIDE DEF less, t
      <4>3. Cardinality(more) = IF t \in less THEN Cardinality(less) ELSE Cardinality(less) + 1
        BY <4>1, FS_AddElement
      <4> HIDE DEF more
      <4> QED
        BY <1>1, <3>1, <4>1, <4>2, <4>3
    <3> QED
      BY <1>11, <3>2, <3>3 DEF FinishAnswer
  <2> QED
    BY <1>1, <1>3, <2>1, <2>2, <2>3, StutterTypes, EndsFacts, RemainsFacts
<1>12. CASE FailRemove(c) \/ TerminateRemove(c)
  <2>1. /\ UNCHANGED <<vars, results, stored>> /\ RemoveFiles({t})
        /\ Goes(c, "removed") \/ Ends(c)
        /\ UNCHANGED leftover \/ Remains(t)
    BY <1>12 DEF FailRemove, TerminateRemove
  <2> QED
    BY <1>1, <1>2, <1>3, <2>1, StutterTypes, GoesFacts, EndsFacts, RemoveFacts, RemainsFacts
       DEF Ats
<1> QED
  BY <1>5, <1>6, <1>7, <1>8, <1>9, <1>10, <1>11, <1>12 DEF CallStep

\* The requests that open an upload, and the reaper.
LEMMA OpenTypes ==
  ASSUME TusTypeOK, NEW c \in Calls, NEW t \in Sessions,
         TusReserve(c, t) \/ PatchOpen(c, t) \/ PatchComplete(c, t) \/ TerminateOpen(c, t)
  PROVE  TusTypeOK'
<1>1. /\ TypeOK /\ FilesOK /\ CallsOK /\ up /\ Length[t] \in Nat
      /\ UNCHANGED <<info, bin, touched, found, reaping, results, stored, leftover>>
  BY LengthFacts DEF TusTypeOK, TusReserve, PatchOpen, PatchComplete, TerminateOpen, staging,
                           reaper
<1>2. up'
  BY <1>1 DEF TusReserve, PatchOpen, PatchComplete, TerminateOpen, vars, memory
<1>3. CASE TusReserve(c, t)
  <2>1. PICK id \in Ids :
          \/ /\ CleanupSucceeds
             /\ reservedBytes' = reservedBytes + Size[id]
             /\ sent' = [sent EXCEPT ![t] = id]
             /\ call' = [call EXCEPT ![c] = Call("creating", t, 0)]
          \/ /\ CleanupSucceeds \/ CleanupFails
             /\ UNCHANGED <<reservedBytes, sent, call>>
    BY <1>3 DEF TusReserve
  <2>2. /\ UNCHANGED <<staged, up, request, now, healthy>>
        /\ CleanupSucceeds \/ CleanupFails
    BY <1>3, <2>1 DEF TusReserve
  <2>3. reservedBytes' \in Nat
    BY <1>1, <2>1, ServiceAssumption DEF TypeOK
  <2>4. TypeOK'
    <3>1. /\ orphans' \subseteq orphans /\ objects' \subseteq objects
          /\ orphans \subseteq Ids /\ objects \subseteq Ids
      BY <1>1, <2>2, SweepFacts DEF TypeOK
    <3> QED
      BY <1>1, <2>2, <2>3, <3>1, SweepFacts DEF TypeOK, Answers, request
  <2>5. FilesOK'
    BY <1>1, <2>1 DEF FilesOK
  <2>6. CallsOK'
    <3>1. CASE UNCHANGED call
      BY <1>1, <3>1 DEF CallsOK
    <3>2. CASE call' = [call EXCEPT ![c] = Call("creating", t, 0)]
      BY <1>1, <3>2, OpensFacts DEF Ats
    <3> QED
      BY <2>1, <3>1, <3>2
  <2> QED
    BY <1>1, <1>2, <2>4, <2>5, <2>6 DEF TusTypeOK
<1>4. CASE PatchOpen(c, t) \/ PatchComplete(c, t) \/ TerminateOpen(c, t)
  <2>1. /\ UNCHANGED <<vars, staging>>
        /\ \/ /\ bin[t] < Length[t]
              /\ call' = [call EXCEPT ![c] = Call("writing", t, Length[t] - bin[t])]
           \/ call' = [call EXCEPT ![c] = Call("complete", t, 0)]
           \/ call' = [call EXCEPT ![c] = Call("terminating", t, 0)]
    BY <1>4 DEF PatchOpen, PatchComplete, TerminateOpen
  <2>2. TypeOK' /\ FilesOK'
    BY <1>1, <2>1, StutterTypes DEF FilesOK, staging
  <2>3. CallsOK'
    <3>1. bin[t] < Length[t] => Length[t] - bin[t] \in Nat
      BY <1>1 DEF FilesOK
    <3> QED
      BY <1>1, <2>1, <3>1, OpensFacts DEF Ats
  <2> QED
    BY <1>1, <1>2, <2>2, <2>3 DEF TusTypeOK
<1> QED
  BY <1>3, <1>4

LEMMA ReapTypes ==
  ASSUME TusTypeOK, (\E t \in Sessions : ReapFind(t)) \/ ReapRemove \/ ReapRelease
  PROVE  TusTypeOK' /\ UNCHANGED <<sent, call>>
<1>1. /\ TypeOK /\ FilesOK /\ CallsOK /\ UNCHANGED <<call, results, stored>>
      /\ leftover \subseteq Sessions
      /\ found \in Sessions \cup {NoSession} /\ reaping \in Sessions \cup {NoSession}
  BY DEF TusTypeOK, ReapFind, ReapRemove, ReapRelease
<1>2. CallsOK'
  BY <1>1 DEF CallsOK
<1>3. up
  BY DEF ReapFind, ReapRemove, ReapRelease, TusTypeOK, TypeOK
<1>4. ASSUME NEW t \in Sessions, ReapFind(t)
      PROVE  TusTypeOK' /\ UNCHANGED sent
  <2>1. found' = t /\ UNCHANGED <<vars, staging, reaping, leftover>>
    BY <1>4 DEF ReapFind
  <2>2. up'
    BY <1>3, <2>1 DEF vars, memory
  <2> QED
    BY <1>1, <1>2, <2>1, <2>2, StutterTypes DEF TusTypeOK, staging, FilesOK
<1>5. CASE ReapRemove
  <2>1. /\ RemoveFiles({found}) /\ reaping' = found /\ found' = NoSession
        /\ UNCHANGED <<vars, leftover>>
    BY <1>5 DEF ReapRemove
  <2>2. up'
    BY <1>3, <2>1 DEF vars, memory
  <2> QED
    BY <1>1, <1>2, <2>1, <2>2, StutterTypes, RemoveFacts DEF TusTypeOK
<1>6. CASE ReapRelease
  <2>1. /\ reaping \in Sessions /\ Release(Length[reaping]) /\ reaping' = NoSession
        /\ UNCHANGED <<staging, found>> /\ Remains(reaping)
    BY <1>6 DEF ReapRelease, TusTypeOK
  <2>2. up'
    BY <1>3, <2>1 DEF Release, ButLedger, memory
  <2>3. TypeOK'
    BY <1>1, <2>1, LengthFacts, ReleaseTypes
  <2>4. leftover' \subseteq Sessions
    BY <1>1, <2>1, RemainsFacts
  <2> QED
    BY <1>1, <1>2, <2>1, <2>2, <2>3, <2>4 DEF TusTypeOK, staging, FilesOK
<1> QED
  BY <1>1, <1>4, <1>5, <1>6

\* A crash, which may tear an .info file that is being written.
LEMMA CrashTypes ==
  ASSUME TusTypeOK, TusCrash
  PROVE  /\ TusTypeOK' /\ UNCHANGED sent
         /\ call' = [c \in Calls |-> Idle] /\ found' = NoSession /\ reaping' = NoSession
         /\ leftover' = {}
         /\ \A t \in Sessions : \/ info'[t] = info[t]
                                \/ \E c \in Calls : call[c].at = "creating" /\ call[c].t = t
<1>1. /\ TypeOK /\ FilesOK /\ CallsOK /\ now \in Time
  BY DEF TusTypeOK, TypeOK
<1>2. TypeOK' /\ ~up'
  BY <1>1, NextTypes DEF TusCrash, Next, Crash
<1>3. PICK bins \in SUBSET {call[c].t : c \in {d \in Calls : call[d].at = "creating"}} :
        \E torn \in SUBSET bins :
          /\ bin' = Removed(bin, bins, 0) /\ touched' = Removed(touched, bins, now)
          /\ info' = Removed(info, torn, "torn")
  BY DEF TusCrash
<1>4. PICK torn \in SUBSET bins :
        /\ bin' = Removed(bin, bins, 0) /\ touched' = Removed(touched, bins, now)
        /\ info' = Removed(info, torn, "torn")
  BY <1>3
<1>5. /\ UNCHANGED <<sent, stored>> /\ call' = [c \in Calls |-> Idle]
      /\ found' = NoSession /\ reaping' = NoSession /\ results' = {} /\ leftover' = {}
  BY DEF TusCrash
<1>6. FilesOK'
  BY <1>1, <1>4, <1>5 DEF FilesOK, Removed
<1>7. CallsOK' /\ \A c \in Calls : call'[c].at = "idle"
  BY <1>5 DEF CallsOK, Idle, Call, Ats
<1>8. Cardinality(results') <= MaxTusResults
  BY <1>5, FS_EmptySet, TusAssumption
<1>9. \A t \in Sessions : \/ info'[t] = info[t]
                          \/ \E c \in Calls : call[c].at = "creating" /\ call[c].t = t
  BY <1>3, <1>4 DEF Removed
<1>10. stored' \subseteq Sessions
  BY <1>5 DEF TusTypeOK
<1> QED
  BY <1>2, <1>5, <1>6, <1>7, <1>8, <1>9, <1>10 DEF TusTypeOK

\* A process that is down, its uploads, and what a start may do of them.
LEMMA DownFacts ==
  ASSUME TusTypeOK, TusStart \/ TusStartFails
  PROVE  /\ ~up /\ found = NoSession /\ reaping = NoSession
         /\ \A c \in Calls : call[c].at = "idle"
         /\ TypeOK /\ FilesOK /\ CallsOK
         /\ UNCHANGED <<sent, call, found, reaping, results, stored>>
         /\ UNCHANGED staging \/ RemoveFiles(Idlers)
         /\ leftover' \in {leftover, {t \in Idlers : info'[t] = "whole"}}
         /\ leftover' \subseteq Sessions
<1>1. ~up
  BY DEF TusStart, TusStartFails, Boot, ReconcileFails, FirstCleanupFails
<1>2. UNCHANGED staging \/ RemoveFiles(Idlers)
  BY DEF TusStart, TusStartFails, tusVars
<1>3. UNCHANGED sent
  BY <1>2 DEF staging, RemoveFiles
<1>4. leftover' \in {leftover, {t \in Idlers : info'[t] = "whole"}}
  BY DEF TusStart, TusStartFails, tusVars
<1>5. leftover' \subseteq Sessions
  BY <1>4 DEF TusTypeOK, Idlers
<1> QED
  BY <1>1, <1>2, <1>3, <1>4, <1>5 DEF TusTypeOK, TusStart, TusStartFails, tusVars, reaper

\* NewServer fails before, in or after initTus.
LEMMA HaltFacts ==
  ASSUME TypeOK, TusStartFails
  PROVE  TypeOK' /\ ~up' /\ UNCHANGED <<records, orphans, reservedBytes>>
<1>1. CASE StartFails
  BY <1>1, NextTypes DEF Next, StartFails, ReconcileFails, FirstCleanupFails, memory
<1>2. CASE /\ ~up /\ staged' = [u \in Uploads |-> 0]
           /\ objects' = Reconciled.objects /\ index' = Reconciled.index
           /\ UNCHANGED <<memory, request, now, healthy, told>>
  <2>1. objects' \subseteq Ids /\ index' \in Indexes
    BY <1>2, ReconciledFacts DEF Images
  <2> QED
    BY <1>2, <2>1 DEF TypeOK, memory, request
<1> QED
  BY <1>1, <1>2 DEF TusStartFails, StartFails

LEMMA StartTypes ==
  ASSUME TusTypeOK, TusStart \/ TusStartFails
  PROVE  TusTypeOK'
<1>1. FilesOK' /\ CallsOK' /\ \A c \in Calls : call'[c].at = "idle"
  BY DownFacts, RemoveFacts DEF staging, FilesOK, CallsOK
<1>2. TypeOK'
  <2>1. CASE TusStartFails
    BY <2>1, HaltFacts DEF TusTypeOK
  <2>2. CASE TusStart
    <3>1. Boot /\ reservedBytes' = reservedBytes + Total(Restored, Length) /\ TypeOK
      BY <2>2 DEF TusStart, TusTypeOK
    <3>2. reservedBytes' \in Nat
      <4>1. Restored \in SUBSET Sessions
        BY DEF Restored
      <4>2. Total(Restored, Length) \in Nat /\ reservedBytes \in Nat
        BY <3>1, <4>1, LengthFacts, LengthTotals DEF TypeOK
      <4> QED
        BY <3>1, <4>2
    <3>3. ~up
      BY DownFacts
    <3> QED
      BY <3>1, <3>2, <3>3, StartFacts DEF TypeOK, request, Answers
  <2> QED
    BY <2>1, <2>2
<1> QED
  BY <1>1, <1>2, DownFacts DEF TusTypeOK

----------------------------------------------------------------------------
(* Uploads begin with their reservation.                                   *)

\* Enough for a step that lets nobody begin to work on an upload never created.
LEMMA BegunKept ==
  ASSUME Begun, UNCHANGED sent,
         \A t \in Sessions : sent[t] = NoId => info'[t] \in {info[t], "none"},
         \A t \in leftover' : t \in leftover \/ sent[t] # NoId,
         found' \in {found, NoSession} \/ sent[found'] # NoId,
         reaping' \in {reaping, NoSession} \/ sent[reaping'] # NoId,
         \A c \in Calls : \/ call'[c].t \in {call[c].t, NoSession}
                          \/ sent[call'[c].t] # NoId
  PROVE  Begun'
BY DEF Begun, Sessions, NoSession

\* The inductive invariant behind the types.
TusInv == TusTypeOK /\ Begun

LEMMA TusInitFacts ==
  ASSUME TusInit
  PROVE  TusInv /\ Init
<1>1. TypeOK /\ Init
  BY InitTypes DEF TusInit
<1>2. FilesOK /\ Begun
  BY ServiceAssumption DEF TusInit, FilesOK, Begun, Idle, Call, Time, Sessions, NoSession
<1>3. CallsOK /\ \A c \in Calls : call[c].at = "idle"
  BY DEF TusInit, CallsOK, Idle, Call, Ats
<1>4. results \subseteq Sessions /\ Cardinality(results) <= MaxTusResults
  BY FS_EmptySet, TusAssumption DEF TusInit
<1> QED
  BY <1>1, <1>2, <1>3, <1>4 DEF TusInit, TusInv, TusTypeOK

\* A call step works on an upload that was created.
LEMMA CallBegun ==
  ASSUME TusInv, NEW c \in Calls, CallStep(c)
  PROVE  Begun' /\ UNCHANGED <<sent, found, reaping>>
<1> DEFINE t == call[c].t
<1>1. /\ call[c].at # "idle" /\ UNCHANGED <<sent, found, reaping>>
  BY DEF CallStep, TusCreate, TusCreateFails, PatchWrite, PatchAnswer, FinishCheck,
         FinishCheckFails, FinishPersist, FinishRelease, FinishAnswer, FailRemove,
         FailRelease, TerminateRelease, TerminateRemove, staging, RemoveFiles,
         reaper
<1>2. TusTypeOK /\ Begun /\ CallsOK /\ FilesOK /\ sent[t] # NoId /\ t \in Sessions
  BY <1>1, CallFacts, SentFacts, ServiceAssumption DEF TusInv, TusTypeOK
<1>3. \A s \in Sessions \ {t} : info'[s] = info[s]
  <2>1. info' \in {info, [info EXCEPT ![t] = "whole"], [info EXCEPT ![t] = "torn"],
                   [info EXCEPT ![t] = "none"]}
          \/ \E gone \in SUBSET {t} : info' = Removed(info, gone, "none")
    BY DEF CallStep, TusCreate, TusCreateFails, PatchWrite, PatchAnswer, FinishCheck,
           FinishCheckFails, FinishPersist, FinishRelease, FinishAnswer, FailRemove,
           FailRelease, TerminateRelease, TerminateRemove, staging, RemoveFiles
  <2> QED
    BY <1>2, <2>1 DEF Removed, FilesOK
<1>4. \A d \in Calls : call'[d].t \in {call[d].t, NoSession}
  <2>1. \/ call' = [call EXCEPT ![c] = Idle]
        \/ \E at : call' = [call EXCEPT ![c].at = at]
        \/ call' = [call EXCEPT ![c] = Call("finishing", t, 0)]
    BY DEF CallStep, TusCreate, TusCreateFails, PatchWrite, PatchAnswer, FinishCheck,
           FinishCheckFails, FinishPersist, FinishRelease, FinishAnswer, FailRemove,
           FailRelease, TerminateRelease, TerminateRemove, Goes, Ends
  <2> QED
    BY <1>2, <2>1 DEF CallsOK, Idle, Call
<1>5. leftover' \subseteq leftover \cup {t}
  BY DEF CallStep, TusCreate, TusCreateFails, PatchWrite, PatchAnswer, FinishCheck,
         FinishCheckFails, FinishPersist, FinishRelease, FinishAnswer, FailRemove,
         FailRelease, TerminateRelease, TerminateRemove, Remains
<1> QED
  BY <1>1, <1>2, <1>3, <1>4, <1>5, BegunKept

\* So does a request that opens an upload, once a creation has reserved.
LEMMA OpenBegun ==
  ASSUME TusInv, NEW c \in Calls, NEW t \in Sessions,
         TusReserve(c, t) \/ PatchOpen(c, t) \/ PatchComplete(c, t) \/ TerminateOpen(c, t)
  PROVE  Begun'
<1>1. /\ TusTypeOK /\ Begun /\ CallsOK /\ FilesOK /\ UNCHANGED <<info, found, reaping, leftover>>
  BY DEF TusInv, TusTypeOK, TusReserve, PatchOpen, PatchComplete, TerminateOpen, staging, reaper
<1>2. CASE TusReserve(c, t)
  <2>1. \/ UNCHANGED <<sent, call>>
        \/ \E id \in Ids : /\ sent' = [sent EXCEPT ![t] = id]
                           /\ call' = [call EXCEPT ![c] = Call("creating", t, 0)]
    BY <1>2 DEF TusReserve
  <2>2. CASE UNCHANGED <<sent, call>>
    BY <1>1, <2>2 DEF Begun
  <2>3. ASSUME NEW id \in Ids, sent' = [sent EXCEPT ![t] = id],
               call' = [call EXCEPT ![c] = Call("creating", t, 0)]
        PROVE  Begun'
    <3>1. id # NoId
      BY ServiceAssumption
    <3> QED
      BY <1>1, <2>3, <3>1 DEF Begun, FilesOK, CallsOK, Call
  <2> QED
    BY <2>1, <2>2, <2>3
<1>3. CASE PatchOpen(c, t) \/ PatchComplete(c, t) \/ TerminateOpen(c, t)
  <2>1. UNCHANGED staging /\ info[t] = "whole"
    BY <1>3 DEF PatchOpen, PatchComplete, TerminateOpen, Known
  <2>2. sent[t] # NoId
    BY <1>1, <2>1, SentFacts, ServiceAssumption
  <2>3. \E at, left : call' = [call EXCEPT ![c] = Call(at, t, left)]
    BY <1>3 DEF PatchOpen, PatchComplete, TerminateOpen
  <2>4. \A d \in Calls : call'[d].t \in {call[d].t, t}
    BY <1>1, <2>3 DEF CallsOK, Call
  <2> QED
    BY <1>1, <2>1, <2>2, <2>4, BegunKept DEF staging
<1> QED
  BY <1>2, <1>3

LEMMA NextTusInv ==
  ASSUME TusInv, [TusNext]_allVars
  PROVE  TusInv'
<1>1. TusTypeOK /\ Begun /\ TypeOK /\ FilesOK
  BY DEF TusInv, TusTypeOK
<1>2. CASE (ServiceStep \/ UNCHANGED vars) /\ UNCHANGED tusVars
  <2>1. TypeOK' /\ (up' <=> up)
    BY <1>1, <1>2, ServiceSteps, StutterTypes DEF vars, memory
  <2>2. UNCHANGED <<info, bin, touched, sent, call, found, reaping, results, stored,
                  leftover>>
    BY <1>2 DEF tusVars, staging, reaper
  <2> QED
    BY <1>1, <2>1, <2>2 DEF TusInv, TusTypeOK, FilesOK, CallsOK, Begun
<1>3. ASSUME NEW c \in Calls, NEW t \in Sessions,
             TusReserve(c, t) \/ PatchOpen(c, t) \/ PatchComplete(c, t) \/ TerminateOpen(c, t)
      PROVE  TusInv'
  BY <1>1, <1>3, OpenTypes, OpenBegun DEF TusInv
<1>4. ASSUME NEW c \in Calls, CallStep(c)
      PROVE  TusInv'
  BY <1>1, <1>4, CallTypes, CallBegun DEF TusInv
<1>5. ASSUME NEW t \in Sessions, ReapFind(t)
      PROVE  TusInv'
  <2>1. TusTypeOK' /\ UNCHANGED <<sent, call>>
    BY <1>1, <1>5, ReapTypes
  <2>2. info[t] = "whole" /\ found' = t /\ UNCHANGED <<info, reaping, leftover>>
    BY <1>5 DEF ReapFind, Reached, staging
  <2> QED
    BY <1>1, <2>1, <2>2, SentFacts, BegunKept, ServiceAssumption DEF TusInv
<1>6. CASE ReapRemove \/ ReapRelease
  <2>1. TusTypeOK' /\ UNCHANGED <<sent, call>>
    BY <1>1, <1>6, ReapTypes
  <2>2. CASE ReapRemove
    <3>1. /\ found \in Sessions /\ RemoveFiles({found})
          /\ reaping' = found /\ found' = NoSession /\ UNCHANGED leftover
      BY <1>1, <2>2 DEF ReapRemove, TusTypeOK
    <3> QED
      BY <1>1, <2>1, <3>1, SentFacts, RemoveFacts, BegunKept, ServiceAssumption DEF TusInv
  <2>3. CASE ReapRelease
    <3>1. /\ reaping \in Sessions /\ Remains(reaping) /\ leftover \subseteq Sessions
          /\ reaping' = NoSession /\ UNCHANGED <<info, found>>
      BY <1>1, <2>3 DEF ReapRelease, staging, TusTypeOK
    <3> QED
      BY <1>1, <2>1, <3>1, SentFacts, RemainsFacts, BegunKept, ServiceAssumption DEF TusInv
  <2> QED
    BY <1>6, <2>2, <2>3
<1>7. CASE TusCrash
  <2>1. /\ TusTypeOK' /\ UNCHANGED sent
        /\ call' = [c \in Calls |-> Idle] /\ found' = NoSession /\ reaping' = NoSession
        /\ leftover' = {}
        /\ \A t \in Sessions : \/ info'[t] = info[t]
                               \/ \E c \in Calls : call[c].at = "creating" /\ call[c].t = t
    BY <1>1, <1>7, CrashTypes
  <2>2. \A t \in Sessions : sent[t] = NoId => info'[t] = info[t]
    BY <1>1, <2>1, SentFacts, ServiceAssumption
  <2>3. \A c \in Calls : call'[c].t = NoSession
    BY <2>1 DEF Idle, Call
  <2> QED
    BY <1>1, <2>1, <2>2, <2>3, BegunKept DEF TusInv
<1>8. CASE TusStart \/ TusStartFails
  <2>1. /\ UNCHANGED <<sent, call, found, reaping>>
        /\ \A t \in Sessions : info'[t] \in {info[t], "none"}
    <3>1. /\ UNCHANGED <<sent, call, found, reaping>> /\ FilesOK
          /\ UNCHANGED staging \/ RemoveFiles(Idlers)
      BY <1>1, <1>8, DownFacts DEF TusInv
    <3> QED
      BY <3>1, RemoveFacts DEF staging
  <2>2. \A t \in leftover' : t \in leftover \/ sent[t] # NoId
    <3>1. leftover' \in {leftover, {t \in Idlers : info'[t] = "whole"}}
      BY <1>1, <1>8, DownFacts
    <3>2. ASSUME NEW t \in Idlers
          PROVE  sent[t] # NoId
      <4>1. t \in Sessions /\ info[t] = "whole"
        BY DEF Idlers, Reached
      <4> QED
        BY <1>1, <4>1 DEF TusInv, Begun
    <3> QED
      BY <3>1, <3>2
  <2> QED
    BY <1>1, <1>8, <2>1, <2>2, StartTypes, BegunKept DEF TusInv
<1> QED
  BY <1>2, <1>3, <1>4, <1>5, <1>6, <1>7, <1>8 DEF TusNext, allVars

\* Every variable of the uploads and of the service they share keeps its type, also
\* where requests and the reaper meet at one upload; a process that is down serves
\* no request and reaps nothing, and the result cache never passes its cap.
THEOREM TusTypeCorrect == TusSpec => []TusTypeOK
<1>1. TusInit => TusInv
  BY TusInitFacts
<1>2. TusInv /\ [TusNext]_allVars => TusInv'
  BY NextTusInv
<1>3. TusInv => TusTypeOK
  BY DEF TusInv
<1> QED
  BY <1>1, <1>2, <1>3, PTL DEF TusSpec

----------------------------------------------------------------------------
(* The store they share.                                                   *)

\* NewServer fails in initTus, after reconcile.
Halts ==
  /\ ~up /\ UNCHANGED <<up, records, orphans, told, now>>
  /\ objects' = Reconciled.objects /\ index' = Reconciled.index

\* The file of call c is persisted, ending in `how`.
Persisting(c, how) ==
  LET t == call[c].t
  IN  call[c].at = "checked" /\ Persist(sent[t], Length[t], Cleaned(Image), how)

\* What a step of the composition does to the store.
StoreEffect ==
  \/ Next \/ Boot \/ Halts
  \/ UNCHANGED <<objects, index, up, records, orphans, told, now>>
  \/ up /\ up' /\ now' = now /\ (CleanupSucceeds \/ CleanupFails)
  \/ up /\ up' /\ now' = now /\ \E c \in Calls : \E how \in PersistEnds : Persisting(c, how)

LEMMA StoreEffects ==
  ASSUME TusInv, [TusNext]_allVars
  PROVE  StoreEffect
<1>1. CASE UNCHANGED vars
  BY <1>1 DEF StoreEffect, vars, durable, memory
<1>2. CASE ServiceStep
  BY <1>2, ServiceSteps DEF StoreEffect, TusInv, TusTypeOK
<1>3. ASSUME NEW bytes, Release(bytes)
      PROVE  StoreEffect
  BY <1>3 DEF Release, ButLedger, StoreEffect, durable
<1>4. ASSUME NEW c \in Calls, NEW t \in Sessions, TusReserve(c, t)
      PROVE  StoreEffect
  <2>1. up /\ up' /\ now' = now
    BY <1>4 DEF TusReserve
  <2>2. CleanupSucceeds \/ CleanupFails
    BY <1>4 DEF TusReserve
  <2> QED
    BY <2>1, <2>2 DEF StoreEffect
<1>5. ASSUME NEW c \in Calls, FinishPersist(c)
      PROVE  StoreEffect
  <2>1. call[c].at = "checked"
    BY <1>5 DEF FinishPersist
  <2>2. up
    BY <2>1, CallFacts DEF TusInv
  <2>3. up' /\ now' = now
    BY <1>5, <2>2 DEF FinishPersist
  <2>4. \/ CleanupSucceeds \/ CleanupFails
        \/ \E how \in PersistEnds : Persisting(c, how)
    BY <1>5, <2>1 DEF FinishPersist, Persisting
  <2> QED
    BY <2>2, <2>3, <2>4 DEF StoreEffect
<1>6. ASSUME NEW c \in Calls, CallStep(c)
      PROVE  StoreEffect
  BY <1>1, <1>3, <1>5, <1>6
     DEF CallStep, TusCreate, TusCreateFails, PatchWrite, PatchAnswer, FinishCheck,
         FinishCheckFails, FinishRelease, FinishAnswer, FailRemove, FailRelease,
         TerminateRelease, TerminateRemove
<1>7. ASSUME NEW c \in Calls, NEW t \in Sessions,
             PatchOpen(c, t) \/ PatchComplete(c, t) \/ TerminateOpen(c, t)
      PROVE  StoreEffect
  BY <1>1, <1>7 DEF PatchOpen, PatchComplete, TerminateOpen
<1>8. CASE (\E t \in Sessions : ReapFind(t)) \/ ReapRemove \/ ReapRelease
  BY <1>1, <1>3, <1>8 DEF ReapFind, ReapRemove, ReapRelease
<1>9. CASE TusCrash \/ TusStart
  BY <1>9 DEF TusCrash, TusStart, StoreEffect, Next
<1>10. CASE TusStartFails
  BY <1>10 DEF TusStartFails, StoreEffect, Next, StartFails, Halts, memory
<1> QED
  BY <1>1, <1>2, <1>4, <1>6, <1>7, <1>8, <1>9, <1>10 DEF TusNext, allVars

\* What is stored fits the limit.
LEMMA TusStored ==
  ASSUME TusInv, TusInv', StoredWithin, StoreEffect
  PROVE  StoredWithin'
<1>1. TypeOK /\ TypeOK'
  BY DEF TusInv, TusTypeOK
<1>2. CASE Next
  BY <1>1, <1>2, NextStored
<1>3. CASE Boot
  BY <1>1, <1>3, StartFacts, StartStored
<1>4. CASE Halts
  BY <1>1, <1>4, ReconciledFacts, StartStored DEF Halts, TypeOK
<1>5. CASE UNCHANGED <<objects, index, up, records, orphans, told, now>>
  BY <1>5 DEF StoredWithin, UsedBytes
<1>6. CASE CleanupSucceeds \/ CleanupFails
  BY <1>1, <1>6, SweepFacts, RemovalStored DEF RemovesOnly
<1>7. ASSUME NEW c \in Calls, NEW how \in PersistEnds, Persisting(c, how)
      PROVE  StoredWithin'
  <2> DEFINE t == call[c].t
  <2>1. t \in Sessions /\ sent[t] \in Ids /\ Length[t] \in Nat
    BY <1>7, CallFacts, SentFacts, LengthFacts DEF Persisting, TusInv
  <2>2. Persist(sent[t], Length[t], Cleaned(Image), how)
    BY <1>7 DEF Persisting
  <2> HIDE DEF t
  <2> QED
    BY <1>1, <2>1, <2>2, PersistContent, RemovalStored, AddedStored
<1> QED
  BY <1>2, <1>3, <1>4, <1>5, <1>6, <1>7 DEF StoreEffect

\* The store of a running service is sound, and the answers hold.
LEMMA TusAnswers ==
  ASSUME TusInv, TusInv', StoreInv, AnswersHold, StoreEffect
  PROVE  StoreInv' /\ AnswersHold'
<1>1. TypeOK /\ TypeOK'
  BY DEF TusInv, TusTypeOK
<1>2. CASE Next
  BY <1>2, NextStore, NextAnswers
<1>3. CASE Boot
  BY <1>1, <1>3, StartSound, StartAnswers DEF StoreInv
<1>4. CASE Halts
  <2>1. ~up' /\ StoreInv'
    BY <1>1, <1>4 DEF Halts, StoreInv
  <2>2. /\ DOMAIN index' = (DOMAIN index) \cap objects
        /\ objects' = objects \cap DOMAIN index
        /\ told' = told /\ records' = records
    BY <1>4 DEF Halts, Reconciled, Survivors, Restrict
  <2> QED
    BY <2>1, <2>2 DEF AnswersHold
<1>5. CASE UNCHANGED <<objects, index, up, records, orphans, told, now>>
  BY <1>1, <1>5 DEF StoreInv, Sound, AnswersHold
<1>6. CASE up /\ up' /\ (CleanupSucceeds \/ CleanupFails)
  BY <1>1, <1>6, SweepSound, SweepAnswers DEF StoreInv
<1>7. ASSUME NEW c \in Calls, NEW how \in PersistEnds, up, Persisting(c, how)
      PROVE  StoreInv' /\ AnswersHold'
  <2> DEFINE t == call[c].t
  <2>1. sent[t] \in Ids
    BY <1>7, SentFacts DEF Persisting, TusInv
  <2>2. Persist(sent[t], Length[t], Cleaned(Image), how)
    BY <1>7 DEF Persisting
  <2> HIDE DEF t
  <2> QED
    BY <1>1, <1>7, <2>1, <2>2, ContentSound, ContentAnswers DEF StoreInv
<1> QED
  BY <1>2, <1>3, <1>4, <1>5, <1>6, <1>7 DEF StoreEffect

TusStoreInv == TusInv /\ StoreInv /\ AnswersHold /\ StoredWithin

LEMMA TusStoreCorrect == TusSpec => []TusStoreInv
<1>1. ASSUME TusInit
      PROVE  TusStoreInv
  <2>1. Init /\ TusInv
    BY <1>1, TusInitFacts
  <2>2. Capacity /\ StoreInv /\ AnswersHold
    BY <2>1, InitCapacity, InitTypes DEF Init, StoreInv, AnswersHold
  <2> QED
    BY <2>1, <2>2, RoomAlone DEF Capacity, TusStoreInv
<1>2. TusStoreInv /\ [TusNext]_allVars => TusStoreInv'
  BY NextTusInv, StoreEffects, TusStored, TusAnswers DEF TusStoreInv
<1> QED
  BY <1>1, <1>2, PTL DEF TusSpec

\* What the clients were told holds with resumable uploads too, and wherever their
\* requests and the reaper meet: a confirmed deletion stays one, and a stored or
\* duplicate upload survives until it is deleted or has expired.
THEOREM TusAnswersStayTrue == TusSpec => []AnswersHold
<1>1. TusStoreInv => AnswersHold
  BY DEF TusStoreInv
<1> QED
  BY <1>1, TusStoreCorrect, PTL

\* What is stored, and what a restart would bring back, never exceeds the limit, even
\* where an upload is released twice: persist checks the bytes it adds.
THEOREM TusStoreLimit == TusSpec => []StoredWithin
<1>1. TusStoreInv => StoredWithin
  BY DEF TusStoreInv
<1> QED
  BY <1>1, TusStoreCorrect, PTL

\* Records are on disk and in the index, orphans are dead, and every stored object is
\* accounted for, also while resumable uploads share the store.
THEOREM TusStoreSound == TusSpec => [](Durable /\ AllBytesAccounted /\ OrphansDead)
<1>1. TusStoreInv => Durable /\ AllBytesAccounted /\ OrphansDead
  BY StoreParts DEF TusStoreInv
<1> QED
  BY <1>1, TusStoreCorrect, PTL

----------------------------------------------------------------------------
(* The abstract host.                                                      *)

\* Every step of the composition is a step of the host or leaves what it promises.
LEMMA TusSimulates ==
  ASSUME TusInv, HostInv, HostInv', StoreEffect
  PROVE  [Host!Next]_(Host!vars)
<1>1. CASE UNCHANGED <<up, records, index, told, now>>
  BY <1>1 DEF Host!vars
<1>2. CASE Next
  BY <1>2, NextSimulates
<1>3. CASE Boot
  BY <1>3, StartSimulates DEF Host!Next
<1>4. CASE Halts
  <2>1. /\ DOMAIN index' = (DOMAIN index) \cap objects
        /\ \A id \in (DOMAIN index) \cap objects : index'[id] = index[id]
    BY <1>4 DEF Halts, Reconciled, Survivors, Restrict
  <2>2. up' = up /\ records' = records /\ told' = told /\ now' = now
    BY <1>4 DEF Halts
  <2>3. Keepers' = Keepers /\ Gone' = Gone
    BY <2>2 DEF Keepers, Gone
  <2>4. Kept' = Kept
    <3>1. OnDisk /\ OnDisk'
      BY KeptOnDisk, NextKept
    <3> QED
      BY <2>1, <2>3, <3>1 DEF OnDisk
  <2> QED
    BY <2>2, <2>3, <2>4 DEF Host!vars, Kept, Gone
<1>5. CASE UNCHANGED <<objects, index, up, records, orphans, told, now>>
  BY <1>1, <1>5
<1>6. CASE up /\ up' /\ now' = now /\ (CleanupSucceeds \/ CleanupFails)
  <2>1. InService
    BY <1>6 DEF InService
  <2>2. \E S : Expiring(S)
    BY <1>6, SweepExpires DEF TusInv, TusTypeOK
  <2> QED
    BY <2>1, <2>2, ExpiringSimulates DEF Host!Next
<1>7. ASSUME NEW c \in Calls, NEW how \in PersistEnds,
             up, up', now' = now, Persisting(c, how)
      PROVE  Host!Next
  <2> PICK id : id = sent[call[c].t]
    OBVIOUS
  <2>1. id \in Ids
    BY <1>7, SentFacts DEF Persisting, TusInv
  <2>2. Persist(id, Length[call[c].t], Cleaned(Image), how)
    BY <1>7 DEF Persisting
  <2>3. InService
    BY <1>7 DEF InService
  <2>4. \/ \E S : Expiring(S)
        \/ Storing(id)
        \/ Confirming(id)
    BY <2>1, <2>2, PersistedEffect DEF TusInv, TusTypeOK
  <2> QED
    BY <2>1, <2>3, <2>4, ExpiringSimulates, StoringSimulates, ConfirmingSimulates
       DEF Host!Next
<1> QED
  BY <1>2, <1>3, <1>4, <1>5, <1>6, <1>7 DEF StoreEffect

\* With local storage the service is the host of FileHost with resumable uploads too,
\* wherever their requests and the reaper meet: its promises are kept and its files
\* leave by expiry or deletion only, whatever fails and whenever it crashes.
THEOREM TusHostImplemented == Driver = "local" => (TusSpec => ImplementsFileHost)
<1> SUFFICES ASSUME Driver = "local"
             PROVE  TusSpec => ImplementsFileHost
  OBVIOUS
<1>1. TusInit => Host!Init
  BY TusInitFacts, InitSimulates
<1>2. TusStoreInv => HostInv /\ TusInv
  BY DEF TusStoreInv, HostInv
<1>3. HostInv /\ HostInv' /\ TusInv /\ [TusNext]_allVars => [Host!Next]_(Host!vars)
  BY StoreEffects, TusSimulates
<1> QED
  BY <1>1, <1>2, <1>3, TusStoreCorrect, PTL DEF TusSpec, ImplementsFileHost, Host!Spec

\* Resumable uploads renew nothing either, on either storage driver: a record that
\* stays keeps its created time, unless it had expired and its content is stored anew.
THEOREM TusAgesAreKept == TusSpec => CreatedFixed
<1>1. ASSUME TusInv, [TusNext]_allVars
      PROVE  Ages
  <2>0. TypeOK /\ StoreEffect
    BY <1>1, StoreEffects DEF TusInv, TusTypeOK
  <2>1. CASE Next
    BY <2>0, <2>1, NextAges
  <2>2. CASE Boot
    BY <2>0, <2>2 DEF Boot, TypeOK, Ages
  <2>3. CASE Halts \/ UNCHANGED <<objects, index, up, records, orphans, told, now>>
    BY <2>3 DEF Halts, Ages
  <2>4. CASE CleanupSucceeds \/ CleanupFails
    BY <2>0, <2>4, SweepExpires, PersistedAges
  <2>5. ASSUME NEW c \in Calls, NEW how \in PersistEnds, Persisting(c, how)
        PROVE  Ages
    <3> PICK id : id = sent[call[c].t]
      OBVIOUS
    <3>1. id \in Ids
      BY <1>1, <2>5, SentFacts, CallFacts DEF Persisting, TusInv
    <3>2. Persist(id, Length[call[c].t], Cleaned(Image), how)
      BY <2>5 DEF Persisting
    <3> QED
      BY <2>0, <3>1, <3>2, PersistedEffect, PersistedAges
  <2> QED
    BY <2>0, <2>1, <2>2, <2>3, <2>4, <2>5 DEF StoreEffect
<1>2. TusInv /\ [TusNext]_allVars => [Ages]_vars
  BY <1>1
<1>3. TusStoreInv => TusInv
  BY DEF TusStoreInv
<1> QED
  BY <1>2, <1>3, TusStoreCorrect, PTL DEF TusSpec, CreatedFixed, Ages

----------------------------------------------------------------------------
(* Ownership.  Where the reaper and requests do not meet at one upload, the *)
(* reservation of each upload has one owner, who releases it once.         *)

\* Nobody works on t.
Free(t) == found # t /\ reaping # t /\ \A c \in Calls : call[c].t # t

\* Where a call has released the reservation of its upload, or is about to.
Off == {"released", "terminated", "removed"}

\* What the owner of an upload still owes depends on where it is.
OwesAt(c) == \/ info[call[c].t] = "whole" /\ call[c].at \notin Off
             \/ call[c].at \in {"creating", "removed"}

LEMMA OwingOwned ==
  ASSUME CallsOK, Owned, NEW c \in Calls, call[c].at # "idle"
  PROVE  call[c].t \in Owing <=> call[c].t \notin leftover /\ OwesAt(c)
<1> DEFINE t == call[c].t
<1>1. t \in Sessions /\ t # NoSession /\ reaping # t
  BY DEF CallsOK, Owned, Sessions, NoSession
<1>2. \A d \in Calls : call[d].t = t => d = c
  BY <1>1 DEF Owned
<1>3. \A ats : At(t, ats) <=> call[c].at \in ats
  BY <1>2 DEF At
<1> HIDE DEF t
<1>4. t \in Owing <=> /\ t \notin leftover
                      /\ \/ info[t] = "whole" /\ call[c].at \notin Off
                         \/ call[c].at \in {"creating", "removed"}
  BY <1>1, <1>3 DEF Owing, Off
<1> QED
  BY <1>4 DEF t, OwesAt

\* The same, of each call, in a form that holds of the next state too.
OwingByPlace ==
  \A c \in Calls : call[c].at # "idle" =>
    (call[c].t \in Owing <=> call[c].t \notin leftover /\ OwesAt(c))

LEMMA OwingPlaces == CallsOK /\ Owned => OwingByPlace
BY OwingOwned DEF OwingByPlace

LEMMA NextPlaces == CallsOK' /\ Owned' => OwingByPlace'
BY OwingPlaces, PTL

LEMMA OwingFree ==
  ASSUME NEW t \in Sessions, reaping # t, \A c \in Calls : call[c].t # t
  PROVE  t \in Owing <=> t \notin leftover /\ info[t] = "whole"
BY DEF Owing, At

\* Who works on other uploads owes what they owed.
LEMMA OwingElsewhere ==
  ASSUME NEW t, NEW s \in Sessions, s # t,
         \A d \in Calls : call'[d] = call[d] \/ (call[d].t # s /\ call'[d].t # s),
         reaping' = reaping \/ (reaping # s /\ reaping' # s),
         info'[s] = info[s], s \in leftover' <=> s \in leftover
  PROVE  s \in Owing' <=> s \in Owing
<1>1. \A ats : At(s, ats)' <=> At(s, ats)
  BY DEF At
<1>2. reaping' = s <=> reaping = s
  OBVIOUS
<1> QED
  BY <1>1, <1>2 DEF Owing

\* A step of the owner of an upload keeps the others' ownership.
LEMMA OwnerStep ==
  ASSUME CallsOK, Owned, NEW c \in Calls, call[c].at # "idle", NEW at, NEW t,
         t = call[c].t, UNCHANGED <<found, reaping>>,
         found \in Sessions \cup {NoSession},
         \A s \in Sessions \ {t} : /\ info'[s] = info[s]
                                   /\ s \in leftover' <=> s \in leftover,
         \/ Becomes(c, "idle", NoSession)
         \/ Becomes(c, at, t) /\ (at \in Working => info'[t] = "whole")
  PROVE  Owned' /\ \A s \in Sessions \ {t} : s \in Owing' <=> s \in Owing
<1>1. t \in Sessions /\ t # NoSession /\ found # t /\ reaping # t
  BY DEF CallsOK, Owned, Sessions, NoSession
<1>2. /\ call'[c].t \in {t, NoSession}
      /\ \A d \in Calls \ {c} : call'[d] = call[d] /\ call[d].t # t
  BY <1>1 DEF Becomes, Owned
<1>3. \A d \in Calls \ {c} : call[d].at \in Working =>
        call[d].t \in Sessions /\ info'[call[d].t] = info[call[d].t]
  BY <1>2 DEF CallsOK, Working
<1>4. \A d \in Calls : call'[d].t = call[d].t \/ call'[d].t = NoSession
  BY <1>2
<1>5. found # NoSession => info'[found] = "whole"
  BY <1>1 DEF Owned
<1>6. call'[c].at \in Working => info'[call'[c].t] = "whole"
  BY DEF Becomes, Working
<1>7. Owned'
  BY <1>2, <1>3, <1>4, <1>5, <1>6 DEF Owned
<1>8. ASSUME NEW s \in Sessions \ {t}
      PROVE  s \in Owing' <=> s \in Owing
  <2>1. s # NoSession
    BY DEF Sessions, NoSession
  <2> QED
    BY <1>2, <2>1, OwingElsewhere
<1> QED
  BY <1>7, <1>8

\* A call that opens a free upload becomes its owner.
LEMMA OpenerStep ==
  ASSUME CallsOK, Owned, NEW c \in Calls, call[c].at = "idle", NEW at, NEW t \in Sessions,
         Free(t), UNCHANGED <<found, reaping, info, leftover>>, Becomes(c, at, t),
         at \in Working => info[t] = "whole"
  PROVE  Owned' /\ \A s \in Sessions \ {t} : s \in Owing' <=> s \in Owing
<1>1. t # NoSession /\ call[c].t = NoSession
  BY DEF CallsOK, Sessions, NoSession
<1>2. Owned'
  BY <1>1 DEF Owned, Becomes, Free
<1>3. ASSUME NEW s \in Sessions \ {t}
      PROVE  s \in Owing' <=> s \in Owing
  <2>1. s # NoSession
    BY DEF Sessions, NoSession
  <2> QED
    BY <1>1, <2>1, OwingElsewhere DEF Becomes
<1> QED
  BY <1>2, <1>3

----------------------------------------------------------------------------
(* What a step does to the ledger and to those who owe it.                 *)

\* The service is as it was, and the same uploads owe.
Keeping == UNCHANGED <<vars, sent, stored>> /\ Owing' = Owing

\* A failed creation: nobody will release what it reserved.
Leaking ==
  /\ \E c \in Calls : TusCreateFails(c)
  /\ UNCHANGED <<vars, sent, stored>> /\ Owing' \subseteq Owing

\* One upload is released, and nobody owes it any more.
Releasing ==
  /\ \E t \in Owing : Release(Length[t]) /\ Owing' = Owing \ {t}
  /\ UNCHANGED <<sent, stored>>

\* An upload that is left over, and that nobody owes, is released once more.
Repeating ==
  /\ ReleasedAgain
  /\ \E t \in Sessions : Release(Length[t])
  /\ Owing' = Owing /\ UNCHANGED <<sent, stored>>

\* A creation that reserves owes one upload more.
Creating(c, t) ==
  /\ TusReserve(c, t)
  /\ t \notin Owing /\ Owing \subseteq Owing' /\ Owing' \subseteq Owing \cup {t}
  /\ sent' = sent \/ t \in Owing'

\* persist of an upload that owes, or is left over.
Finishing(c) ==
  /\ FinishPersist(c) /\ Owing' = Owing
  /\ call[c].t \in Owing \/ call[c].t \in leftover

LedgerEffect ==
  \/ ServiceStep /\ UNCHANGED tusVars
  \/ \E c \in Calls, t \in Sessions : Creating(c, t)
  \/ Keeping \/ Leaking \/ Releasing \/ Repeating
  \/ \E c \in Calls : Finishing(c)
  \/ ~up'
  \/ TusStart

LEMMA ReserveOwned ==
  ASSUME TusInv, TusInv', Owned, NEW c \in Calls, NEW t \in Sessions, TusReserve(c, t)
  PROVE  Owned' /\ Creating(c, t)
<1>1. /\ CallsOK /\ CallsOK' /\ call[c] = Idle /\ UNCHANGED <<found, reaping, info, leftover>> /\ Free(t)
      /\ info[t] # "whole" /\ t \notin leftover
      /\ \/ UNCHANGED <<call, sent>>
         \/ call' = [call EXCEPT ![c] = Call("creating", t, 0)]
  BY DEF TusInv, TusTypeOK, TusReserve, Begun, Free, reaper
<1>2. call[c].at = "idle"
  BY <1>1 DEF Idle, Call
<1>3. t \notin Owing
  BY <1>1 DEF Owing, At, Free
<1>4. CASE UNCHANGED <<call, sent>>
  <2>1. Owned' /\ Owing' = Owing
    <3>1. leftover' = leftover /\ info' = info /\ found' = found /\ reaping' = reaping
      BY <1>1
    <3> QED
      BY <1>4, <3>1 DEF Owned, Owing, At
  <2> QED
    BY <1>3, <1>4, <2>1 DEF Creating
<1>5. CASE call' = [call EXCEPT ![c] = Call("creating", t, 0)]
  <2>1. Becomes(c, "creating", t)
    BY <1>1, <1>5, OpensFacts DEF Ats
  <2>2. Owned' /\ \A s \in Sessions \ {t} : s \in Owing' <=> s \in Owing
    BY <1>1, <1>2, <2>1, OpenerStep DEF Working
  <2>3. t \in Owing'
    BY <1>1, <2>1 DEF Owing, At, Becomes
  <2> QED
    BY <1>3, <2>2, <2>3 DEF Owing, Creating
<1> QED
  BY <1>1, <1>4, <1>5

\* The calls that open an upload that is there.
LEMMA OpenOwned ==
  ASSUME TusInv, Owned, ~Overlap, NEW c \in Calls, NEW t \in Sessions,
         PatchOpen(c, t) \/ PatchComplete(c, t) \/ TerminateOpen(c, t)
  PROVE  Owned' /\ Keeping
<1>1. /\ CallsOK /\ call[c] = Idle /\ UNCHANGED <<vars, staging, found, reaping, stored, leftover>>
      /\ info[t] = "whole" /\ Alone(c, t)
      /\ \E at \in {"writing", "complete", "terminating"} :
           \E left : call' = [call EXCEPT ![c] = Call(at, t, left)]
  BY DEF TusInv, TusTypeOK, PatchOpen, PatchComplete, TerminateOpen, Known, reaper
<1>2. call[c].at = "idle" /\ call[c].t = NoSession
  BY <1>1 DEF Idle, Call
<1>3. Free(t)
  BY <1>1, <1>2 DEF Alone, Free, Sessions, NoSession
<1>4. PICK at \in {"writing", "complete", "terminating"} : Becomes(c, at, t)
  BY <1>1 DEF Becomes, CallsOK, Call
<1>5. Owned' /\ \A s \in Sessions \ {t} : s \in Owing' <=> s \in Owing
  BY <1>1, <1>2, <1>3, <1>4, OpenerStep DEF staging
<1>6. t \in Owing <=> t \notin leftover
  BY <1>1, <1>3, OwingFree DEF Free
<1>7. t \in Owing' <=> t \notin leftover
  <2>1. info'[t] = "whole" /\ reaping' # t /\ leftover' = leftover
    BY <1>1, <1>3 DEF staging, Free
  <2>2. \A d \in Calls : call'[d].t = t => call'[d].at \notin Off
    BY <1>3, <1>4 DEF Becomes, Free, Off
  <2> QED
    BY <2>1, <2>2 DEF Owing, At, Off
<1>8. Owing' = Owing
  BY <1>5, <1>6, <1>7 DEF Owing
<1> QED
  BY <1>1, <1>5, <1>8 DEF Keeping, staging

\* The owner of an upload either goes on owing it, or releases it, and more than once
\* only where it is left over.
LEMMA CallOwned ==
  ASSUME TusInv, TusInv', Owned, NEW c \in Calls, CallStep(c)
  PROVE  Owned' /\ LedgerEffect
<1> DEFINE t == call[c].t
<1>1. /\ call[c].at # "idle" /\ UNCHANGED <<sent, found, reaping>>
      /\ t \in Sessions /\ CallsOK /\ CallsOK' /\ FilesOK /\ call[c].left \in Nat
      /\ leftover \subseteq Sessions /\ found \in Sessions \cup {NoSession}
  <2>1. call[c].at # "idle"
    BY DEF CallStep, TusCreate, TusCreateFails, PatchWrite, PatchAnswer, FinishCheck,
           FinishCheckFails, FinishPersist, FinishRelease, FinishAnswer, FailRemove,
           FailRelease, TerminateRelease, TerminateRemove
  <2> QED
    BY <2>1, CallBegun, CallFacts DEF TusInv, TusTypeOK
<1>2. call[c].at \in Working => info[t] = "whole"
  BY DEF Owned
<1>3. t \in Owing <=> t \notin leftover /\ OwesAt(c)
  BY <1>1, OwingOwned
<1>4. ASSUME NEW at \in Ats, at # "idle", Goes(c, at)
      PROVE  Becomes(c, at, t)
  BY <1>1, <1>4, GoesFacts
<1>5. ASSUME Ends(c)
      PROVE  Becomes(c, "idle", NoSession)
  BY <1>1, <1>5, EndsFacts
\* Only this upload is written to, and only it can become left over.
<1>6. ASSUME NEW at, \A s \in Sessions \ {t} : info'[s] = info[s],
             UNCHANGED leftover \/ Remains(t),
             \/ Becomes(c, "idle", NoSession)
             \/ Becomes(c, at, t) /\ (at \in Working => info'[t] = "whole")
      PROVE  /\ Owned' /\ \A s \in Sessions \ {t} : s \in Owing' <=> s \in Owing
             /\ t \in leftover => t \in leftover'
             /\ Becomes(c, "idle", NoSession) => (t \in Owing' <=> /\ info'[t] = "whole"
                                                                  /\ t \notin leftover')
             /\ Becomes(c, at, t) /\ at # "idle" => (t \in Owing' <=> t \notin leftover' /\ OwesAt(c)')
  <2> HIDE DEF t
  <2>0. t = call[c].t
    BY DEF t
  <2>1. /\ \A s \in Sessions \ {t} : s \in leftover' <=> s \in leftover
        /\ t \in leftover => t \in leftover'
    BY <1>6 DEF Remains
  <2>2. Owned' /\ \A s \in Sessions \ {t} : s \in Owing' <=> s \in Owing
    BY <1>1, <1>6, <2>0, <2>1, OwnerStep
  <2>3. ASSUME Becomes(c, "idle", NoSession)
        PROVE  t \in Owing' <=> info'[t] = "whole" /\ t \notin leftover'
    <3>1. t # NoSession /\ reaping # t
      BY <1>1, <2>0 DEF Owned, Sessions, NoSession
    <3>2. \A d \in Calls : call'[d].t # t
      BY <1>1, <2>0, <2>3, <3>1 DEF Becomes, Owned
    <3> QED
      BY <1>1, <3>1, <3>2 DEF Owing, At
  <2>4. ASSUME Becomes(c, at, t), at # "idle"
        PROVE  t \in Owing' <=> t \notin leftover' /\ OwesAt(c)'
    <3>1. call'[c].t = t /\ call'[c].at # "idle"
      BY <2>4 DEF Becomes
    <3> QED
      BY <1>1, <2>2, <3>1, NextPlaces DEF OwingByPlace
  <2> QED
    BY <2>1, <2>2, <2>3, <2>4
\* The steps that leave what is owed as it is.
<1>7. ASSUME NEW at, \A s \in Sessions \ {t} : info'[s] = info[s], UNCHANGED leftover,
             OwesAt(c),
             \/ Becomes(c, "idle", NoSession) /\ info'[t] = "whole"
             \/ /\ Becomes(c, at, t) /\ at # "idle" /\ (at \in Working => info'[t] = "whole")
                /\ OwesAt(c)'
      PROVE  Owned' /\ Owing' = Owing
  <2>1. Owned' /\ \A s \in Sessions \ {t} : s \in Owing' <=> s \in Owing
    BY <1>6, <1>7
  <2>2. t \in Owing' <=> t \notin leftover
    BY <1>6, <1>7
  <2>3. t \in Owing <=> t \notin leftover
    BY <1>3, <1>7
  <2> QED
    BY <2>1, <2>2, <2>3 DEF Owing
\* The last steps after a release.
<1>8. ASSUME \A s \in Sessions \ {t} : info'[s] = info[s], Remains(t), ~OwesAt(c), Ends(c)
      PROVE  Owned' /\ Owing' = Owing
  <2>1. Owned' /\ \A s \in Sessions \ {t} : s \in Owing' <=> s \in Owing
    BY <1>5, <1>6, <1>8
  <2>2. t \in Owing' <=> info'[t] = "whole" /\ t \notin leftover'
    BY <1>5, <1>6, <1>8
  <2>3. t \notin Owing' /\ t \notin Owing
    BY <1>3, <1>8, <2>2 DEF Remains
  <2> QED
    BY <2>1, <2>3 DEF Owing
\* The steps that release.
<1>9. ASSUME NEW at, UNCHANGED <<info, stored>>, Release(Length[t]), OwesAt(c),
             \/ FinishRelease(c) \/ TerminateRelease(c) \/ FailRelease(c),
             \/ Becomes(c, "idle", NoSession) /\ Remains(t)
             \/ /\ Becomes(c, at, t) /\ at \in Off \ {"removed"} /\ UNCHANGED leftover
                /\ info[t] = "whole"
      PROVE  Owned' /\ LedgerEffect
  <2>1. /\ Owned' /\ \A s \in Sessions \ {t} : s \in Owing' <=> s \in Owing
        /\ t \in leftover => t \in leftover'
    BY <1>6, <1>9
  <2>2. t \notin Owing'
    <3>1. CASE Becomes(c, "idle", NoSession) /\ Remains(t)
      <4>1. t \in Owing' <=> info'[t] = "whole" /\ t \notin leftover'
        BY <1>6, <1>9, <3>1
      <4> QED
        BY <3>1, <4>1 DEF Remains
    <3>2. CASE Becomes(c, at, t) /\ at \in Off \ {"removed"} /\ UNCHANGED leftover
                 /\ info[t] = "whole"
      <4>1. call'[c].at = at /\ at # "idle" /\ at # "creating"
        BY <3>2 DEF Becomes, Off
      <4>2. t \in Owing' <=> t \notin leftover' /\ OwesAt(c)'
        BY <1>6, <1>9, <3>2, <4>1
      <4> QED
        BY <3>2, <4>1, <4>2 DEF OwesAt
    <3> QED
      BY <1>9, <3>1, <3>2
  <2>3. CASE t \in leftover
    <3>1. t \notin Owing
      BY <2>3 DEF Owing
    <3>2. Owing' = Owing
      BY <2>1, <2>2, <3>1 DEF Owing
    <3> QED
      BY <1>1, <1>9, <2>1, <2>3, <3>2 DEF LedgerEffect, Repeating, ReleasedAgain
  <2>4. CASE t \notin leftover
    <3>1. t \in Owing
      BY <1>3, <1>9, <2>4
    <3>2. Owing' = Owing \ {t}
      BY <2>1, <2>2 DEF Owing
    <3> QED
      BY <1>1, <1>9, <2>1, <3>1, <3>2 DEF LedgerEffect, Releasing
  <2> QED
    BY <2>3, <2>4
<1>10. CASE TusCreate(c)
  <2>1. /\ call[c].at = "creating" /\ UNCHANGED <<vars, sent, stored, leftover>> /\ Ends(c)
        /\ info' = [info EXCEPT ![t] = "whole"]
    BY <1>10 DEF TusCreate
  <2>2. info'[t] = "whole" /\ \A s \in Sessions \ {t} : info'[s] = info[s]
    BY <1>1, <2>1 DEF FilesOK
  <2>3. OwesAt(c)
    BY <2>1 DEF OwesAt
  <2> QED
    BY <1>5, <1>7, <2>1, <2>2, <2>3 DEF LedgerEffect, Keeping
<1>11. CASE TusCreateFails(c)
  <2>1. /\ call[c].at = "creating" /\ UNCHANGED <<vars, sent, stored, leftover>> /\ Ends(c)
        /\ info' \in {info, [info EXCEPT ![t] = "torn"]}
    BY <1>11 DEF TusCreateFails
  <2>2. \A s \in Sessions \ {t} : info'[s] = info[s]
    BY <1>1, <2>1 DEF FilesOK
  <2>3. Owned' /\ \A s \in Sessions \ {t} : s \in Owing' <=> s \in Owing
    BY <1>5, <1>6, <2>1, <2>2
  <2>4. t \in Owing' => t \notin leftover
    BY <2>1 DEF Owing
  <2>5. t \in Owing' => t \in Owing
    BY <1>3, <2>1, <2>4 DEF OwesAt
  <2> QED
    BY <1>11, <2>1, <2>3, <2>5 DEF LedgerEffect, Leaking, Owing
<1>12. CASE PatchWrite(c)
  <2>1. /\ call[c].at = "writing" /\ UNCHANGED <<vars, info, sent, stored, leftover>>
        /\ \E n : call' = [call EXCEPT ![c] = IF n = @.left THEN Call("finishing", t, 0) ELSE Idle]
    BY <1>12 DEF PatchWrite
  <2>2. Becomes(c, "finishing", t) \/ Becomes(c, "idle", NoSession)
    BY <1>1, <2>1 DEF CallsOK, Becomes, Call, Idle
  <2>3. OwesAt(c) /\ info[t] = "whole" /\ info'[t] = "whole"
    BY <1>2, <2>1 DEF Working, Off, OwesAt
  <2>4. Becomes(c, "finishing", t) => OwesAt(c)'
    BY <2>3 DEF Becomes, Off, OwesAt
  <2> QED
    BY <1>7, <2>1, <2>2, <2>3, <2>4 DEF LedgerEffect, Keeping
<1>13. CASE PatchAnswer(c)
  <2>1. /\ call[c].at = "complete" /\ UNCHANGED <<vars, staging, stored, leftover>> /\ Ends(c)
    BY <1>13 DEF PatchAnswer
  <2>2. OwesAt(c) /\ info[t] = "whole" /\ UNCHANGED <<info, sent>>
    BY <1>2, <2>1 DEF Working, Off, OwesAt, staging
  <2> QED
    BY <1>5, <1>7, <2>1, <2>2 DEF LedgerEffect, Keeping
<1>14. CASE FinishCheck(c) \/ FinishCheckFails(c)
  <2>1. /\ call[c].at = "finishing" /\ UNCHANGED <<vars, staging, stored, leftover>>
        /\ Goes(c, "checked") \/ Goes(c, "failing")
    BY <1>14 DEF FinishCheck, FinishCheckFails
  <2>2. OwesAt(c) /\ info[t] = "whole" /\ UNCHANGED <<info, sent>>
    BY <1>2, <2>1 DEF Working, Off, OwesAt, staging
  <2>3. Becomes(c, "checked", t) \/ Becomes(c, "failing", t)
    BY <1>4, <2>1 DEF Ats
  <2>4. OwesAt(c)'
    BY <2>2, <2>3 DEF Becomes, Off, OwesAt
  <2> QED
    BY <1>7, <2>1, <2>2, <2>3, <2>4 DEF LedgerEffect, Keeping
<1>15. CASE FinishPersist(c)
  <2>1. /\ call[c].at = "checked" /\ UNCHANGED <<info, sent, leftover>>
        /\ Goes(c, "persisted") \/ Goes(c, "failing")
    BY <1>15 DEF FinishPersist
  <2>2. OwesAt(c) /\ info[t] = "whole"
    BY <1>2, <2>1 DEF Working, Off, OwesAt
  <2>3. Becomes(c, "persisted", t) \/ Becomes(c, "failing", t)
    BY <1>4, <2>1 DEF Ats
  <2>4. OwesAt(c)'
    BY <2>1, <2>2, <2>3 DEF Becomes, Off, OwesAt
  <2>5. Owned' /\ Owing' = Owing
    BY <1>7, <2>1, <2>2, <2>3, <2>4
  <2>6. t \in Owing \/ t \in leftover
    BY <1>3, <2>2
  <2> QED
    BY <1>15, <2>5, <2>6 DEF LedgerEffect, Finishing
<1>16. CASE FinishRelease(c) \/ TerminateRelease(c)
  <2>1. /\ call[c].at \in {"persisted", "terminating"} /\ UNCHANGED <<info, stored, leftover>>
        /\ Release(Length[t])
        /\ Goes(c, "released") \/ Goes(c, "terminated")
    BY <1>16 DEF FinishRelease, TerminateRelease, staging
  <2>2. OwesAt(c) /\ info[t] = "whole"
    BY <1>2, <2>1 DEF Working, Off, OwesAt
  <2>3. Becomes(c, "released", t) \/ Becomes(c, "terminated", t)
    BY <1>4, <2>1 DEF Ats
  <2> QED
    BY <1>9, <1>16, <2>1, <2>2, <2>3 DEF Off
<1>17. CASE FailRelease(c)
  <2>1. /\ call[c].at = "removed" /\ UNCHANGED <<info, stored>> /\ Release(Length[t])
        /\ Ends(c) /\ Remains(t)
    BY <1>17 DEF FailRelease, staging
  <2>2. OwesAt(c)
    BY <2>1 DEF OwesAt
  <2> QED
    BY <1>5, <1>9, <1>17, <2>1, <2>2
<1>18. CASE FinishAnswer(c)
  <2>1. /\ call[c].at = "released" /\ UNCHANGED <<vars, sent, stored>> /\ Ends(c)
        /\ info' \in {info, [info EXCEPT ![t] = "none"]} /\ Remains(t)
    BY <1>18 DEF FinishAnswer
  <2>2. \A s \in Sessions \ {t} : info'[s] = info[s]
    BY <1>1, <2>1 DEF FilesOK
  <2>3. ~OwesAt(c)
    BY <2>1 DEF Off, OwesAt
  <2> QED
    BY <1>8, <2>1, <2>2, <2>3 DEF LedgerEffect, Keeping
<1>19. CASE TerminateRemove(c)
  <2>1. /\ call[c].at = "terminated" /\ UNCHANGED <<vars, stored>> /\ Ends(c)
        /\ RemoveFiles({t}) /\ Remains(t)
    BY <1>19 DEF TerminateRemove
  <2>2. sent' = sent /\ \A s \in Sessions \ {t} : info'[s] = info[s]
    BY <1>1, <2>1, RemoveFacts
  <2>3. ~OwesAt(c)
    BY <2>1 DEF Off, OwesAt
  <2> QED
    BY <1>8, <2>1, <2>2, <2>3 DEF LedgerEffect, Keeping
<1>20. CASE FailRemove(c)
  <2>1. /\ call[c].at = "failing" /\ UNCHANGED <<vars, stored, leftover>> /\ Goes(c, "removed")
        /\ RemoveFiles({t})
    BY <1>20 DEF FailRemove
  <2>2. sent' = sent /\ \A s \in Sessions \ {t} : info'[s] = info[s]
    BY <1>1, <2>1, RemoveFacts
  <2>3. OwesAt(c)
    BY <1>2, <2>1 DEF Working, Off, OwesAt
  <2>4. Becomes(c, "removed", t)
    BY <1>4, <2>1 DEF Ats
  <2>5. OwesAt(c)'
    BY <2>4 DEF Becomes, OwesAt
  <2> QED
    BY <1>7, <2>1, <2>2, <2>3, <2>4, <2>5 DEF LedgerEffect, Keeping, Working
<1> QED
  BY <1>10, <1>11, <1>12, <1>13, <1>14, <1>15, <1>16, <1>17, <1>18, <1>19, <1>20 DEF CallStep

\* The reaper finds an upload that nobody works on, removes its files, as far as they
\* can be, and then releases it.
LEMMA FindOwned ==
  ASSUME TusInv, Owned, ~Overlap, NEW t \in Sessions, ReapFind(t)
  PROVE  Owned' /\ Keeping
<1>1. /\ found = NoSession /\ reaping = NoSession /\ found' = t /\ info[t] = "whole"
      /\ UNCHANGED <<vars, staging, call, reaping, results, stored, leftover>>
      /\ \A c \in Calls : call[c].t # t
  BY DEF ReapFind, Reached
<1>2. Owned'
  BY <1>1 DEF Owned, staging
<1>3. Owing' = Owing
  BY <1>1 DEF Owing, At, staging
<1> QED
  BY <1>1, <1>2, <1>3 DEF Keeping, staging

LEMMA RemoveOwned ==
  ASSUME TusInv, Owned, ReapRemove
  PROVE  Owned' /\ Keeping
<1> DEFINE t == found
<1>1. /\ FilesOK /\ CallsOK /\ t \in Sessions /\ t # NoSession
      /\ reaping = NoSession /\ reaping' = t /\ found' = NoSession
      /\ info[t] = "whole" /\ \A c \in Calls : call[c].t # t
      /\ RemoveFiles({t}) /\ UNCHANGED <<vars, call, stored, leftover>>
  BY DEF TusInv, TusTypeOK, ReapRemove, Owned
<1> HIDE DEF t
<1>2. sent' = sent /\ \A s \in Sessions \ {t} : info'[s] = info[s]
  BY <1>1, RemoveFacts
<1>3. \A c \in Calls : call[c].at \in Working => call[c].t \in Sessions \ {t}
  BY <1>1 DEF CallsOK, Working
<1>4. Owned'
  BY <1>1, <1>2, <1>3 DEF Owned
<1>5. t \in Owing <=> t \notin leftover
  BY <1>1, OwingFree
<1>6. ASSUME NEW s \in Sessions \ {t}
      PROVE  s \in Owing' <=> s \in Owing
  <2>1. s # NoSession
    BY DEF Sessions, NoSession
  <2> QED
    BY <1>1, <1>2, <2>1, OwingElsewhere
<1>7. t \in Owing' <=> t \notin leftover
  BY <1>1 DEF Owing
<1>8. Owing' = Owing
  BY <1>5, <1>6, <1>7 DEF Owing
<1> QED
  BY <1>1, <1>2, <1>4, <1>8 DEF Keeping

LEMMA ReleaseOwned ==
  ASSUME TusInv, Owned, ReapRelease
  PROVE  Owned' /\ (Releasing \/ Repeating)
<1> DEFINE t == reaping
<1>1. /\ CallsOK /\ t \in Sessions /\ reaping' = NoSession /\ Release(Length[t])
      /\ UNCHANGED <<staging, call, found, stored>> /\ t # NoSession /\ Remains(t)
      /\ \A c \in Calls : call[c].t # t
      /\ leftover \subseteq Sessions
  BY DEF TusInv, TusTypeOK, ReapRelease, Owned
<1>2. Owned'
  BY <1>1 DEF Owned, staging
<1>3. t \in Owing <=> t \notin leftover
  BY <1>1 DEF Owing
<1> HIDE DEF t
<1>4. ASSUME NEW s \in Sessions \ {t}
      PROVE  s \in Owing' <=> s \in Owing
  <2>1. s # NoSession /\ info'[s] = info[s] /\ (s \in leftover' <=> s \in leftover)
    BY <1>1 DEF Remains, staging, Sessions, NoSession
  <2>2. reaping # s /\ reaping' # s
    BY <1>1, <2>1 DEF t
  <2> QED
    BY <1>1, <2>1, <2>2, OwingElsewhere
<1>5. t \notin Owing' /\ (t \in leftover => t \in leftover')
  BY <1>1 DEF Owing, At, staging, Remains
<1>6. CASE t \in leftover
  <2>1. Owing' = Owing
    BY <1>3, <1>4, <1>5, <1>6 DEF Owing
  <2> QED
    BY <1>1, <1>2, <1>6, <2>1 DEF Repeating, ReleasedAgain, staging, t
<1>7. CASE t \notin leftover
  <2>1. Owing' = Owing \ {t}
    BY <1>3, <1>4, <1>5, <1>7 DEF Owing
  <2> QED
    BY <1>1, <1>2, <1>3, <1>7, <2>1 DEF Releasing, staging
<1> QED
  BY <1>6, <1>7

\* After a crash nobody works on an upload; nor before and after a start.
LEMMA NobodyOwns ==
  ASSUME found' = NoSession, reaping' = NoSession,
         \A c \in Calls : call'[c].at = "idle" /\ call'[c].t = NoSession
  PROVE  Owned'
BY DEF Owned, Working

LEMMA NextOwned ==
  ASSUME TusInv, Owned, ~Overlap, [TusNext]_allVars
  PROVE  Owned' /\ (LedgerEffect \/ UNCHANGED allVars)
<1>0. TusInv' /\ TusTypeOK /\ TypeOK /\ CallsOK
  BY NextTusInv DEF TusInv, TusTypeOK
<1>1. CASE (ServiceStep \/ UNCHANGED vars) /\ UNCHANGED tusVars
  BY <1>1 DEF Owned, LedgerEffect, tusVars, staging, reaper, allVars
<1>2. ASSUME NEW c \in Calls, NEW t \in Sessions, TusReserve(c, t)
      PROVE  Owned' /\ LedgerEffect
  BY <1>0, <1>2, ReserveOwned DEF LedgerEffect
<1>3. ASSUME NEW c \in Calls, NEW t \in Sessions,
             PatchOpen(c, t) \/ PatchComplete(c, t) \/ TerminateOpen(c, t)
      PROVE  Owned' /\ LedgerEffect
  BY <1>3, OpenOwned DEF LedgerEffect
<1>4. ASSUME NEW c \in Calls, CallStep(c)
      PROVE  Owned' /\ LedgerEffect
  BY <1>0, <1>4, CallOwned
<1>5. ASSUME NEW t \in Sessions, ReapFind(t)
      PROVE  Owned' /\ LedgerEffect
  BY <1>5, FindOwned DEF LedgerEffect
<1>6. CASE ReapRemove \/ ReapRelease
  BY <1>6, RemoveOwned, ReleaseOwned DEF LedgerEffect
<1>7. CASE TusCrash
  <2>1. ~up' /\ found' = NoSession /\ reaping' = NoSession /\ call' = [c \in Calls |-> Idle]
    BY <1>7 DEF TusCrash, Crash
  <2> QED
    BY <2>1, NobodyOwns DEF LedgerEffect, Idle, Call
<1>8. CASE TusStart \/ TusStartFails
  <2>1. /\ found' = NoSession /\ reaping' = NoSession
        /\ \A c \in Calls : call'[c].at = "idle" /\ call'[c].t = NoSession
    BY <1>0, <1>8, DownFacts DEF CallsOK
  <2>2. TusStart \/ ~up'
    BY <1>0, <1>8, HaltFacts
  <2> QED
    BY <2>1, <2>2, NobodyOwns DEF LedgerEffect
<1> QED
  BY <1>1, <1>2, <1>3, <1>4, <1>5, <1>6, <1>7, <1>8 DEF TusNext, allVars

----------------------------------------------------------------------------
(* The ledger covers what is owed.                                         *)

\* The bytes other users of the ledger owe, beside the single-shot uploads.
Owed == Total(Owing, Length)

\* What is owed is a sum, and part of it is still to be stored.
Debts ==
  /\ Owing \in SUBSET Sessions /\ Unstored \in SUBSET Owing
  /\ Owed \in Nat /\ Total(Unstored, Length) \in Nat /\ Total(Unstored, Length) <= Owed

LEMMA OwedFacts == Debts
<1>1. Owing \in SUBSET Sessions /\ Unstored \in SUBSET Owing
  BY DEF Owing, Unstored
<1>2. Owed \in Nat /\ Total(Unstored, Length) <= Owed
  <2> DEFINE S == Owing  T == Unstored  f == Length
  <2>1. S \in SUBSET Sessions /\ T \in SUBSET S /\ f \in [Sessions -> Nat]
    BY <1>1, LengthFacts
  <2> HIDE DEF S, T, f
  <2>2. Total(S, f) \in Nat /\ Total(T, f) <= Total(S, f)
    BY <2>1, LengthTotals
  <2> QED
    BY <2>2 DEF Owed, S, T, f
<1>3. Total(Unstored, Length) \in Nat
  <2>1. Unstored \in SUBSET Sessions
    BY <1>1
  <2> QED
    BY <2>1, LengthFacts, LengthTotals
<1> QED
  BY <1>1, <1>2, <1>3 DEF Debts

LEMMA NextOwed == Debts'
BY OwedFacts, PTL

\* Fewer uploads, of the same lengths, owe no more.
LEMMA OwesLess ==
  ASSUME NEW S \in SUBSET Sessions, NEW T \in SUBSET S, UNCHANGED sent
  PROVE  Total(T, Length') <= Total(S, Length) /\ Total(T, Length') \in Nat
<1>1. Length' = Length
  BY DEF Length
<1>2. T \in SUBSET Sessions
  OBVIOUS
<1>3. Total(T, Length) <= Total(S, Length) /\ Total(T, Length) \in Nat
  BY <1>2, LengthFacts, LengthTotals
<1> QED
  BY <1>1, <1>3

\* A creation adds the length of the upload it creates.
LEMMA OwesMore ==
  ASSUME TusTypeOK, NEW S \in SUBSET Sessions, NEW T \in SUBSET Sessions,
         NEW t \in Sessions, NEW id \in Ids,
         sent[t] = NoId, sent' = [sent EXCEPT ![t] = id], T \subseteq S \cup {t}
  PROVE  Total(T, Length') <= Total(S, Length) + Size[id] /\ Total(T, Length') \in Nat
<1> DEFINE f == Length
           g == Length'
           rest == T \ {t}
           one == {t}
<1>1. /\ f \in [Sessions -> Nat] /\ g \in [Sessions -> Nat]
      /\ g[t] = Size[id] /\ \A s \in Sessions \ {t} : g[s] = f[s]
  <2>1. sent \in [Sessions -> Ids \cup {NoId}]
    BY DEF TusTypeOK, FilesOK
  <2> QED
    BY <2>1, ServiceAssumption DEF Length
<1>2. /\ rest \in SUBSET Sessions /\ rest \in SUBSET S /\ one \in SUBSET Sessions
      /\ T \in SUBSET (rest \cup one) /\ rest \cup one \in SUBSET Sessions
      /\ \A s \in rest : g[s] = f[s]
  BY <1>1
<1> HIDE DEF f, g, rest
<1>3. Total(rest, g) = Total(rest, f) /\ Total(rest, f) <= Total(S, f)
      /\ Total(S, f) \in Nat
  BY <1>1, <1>2, TotalSame, LengthTotals
<1>4. Total(one, g) = Size[id]
  BY <1>1, TotalOne, ServiceAssumption
<1> HIDE DEF one
<1>5. Total(rest \cup one, g) <= Total(rest, g) + Total(one, g)
  <2>1. IsFiniteSet(rest) /\ IsFiniteSet(one) /\ \A x \in rest \cup one : g[x] \in Nat
    BY <1>1, <1>2, SessionsFinite, FS_Subset
  <2> QED
    BY <2>1, TotalSubadditive
<1>6. Total(T, g) <= Total(rest \cup one, g) /\ Total(rest \cup one, g) \in Nat
  <2> DEFINE both == rest \cup one
  <2>1. both \in SUBSET Sessions /\ T \in SUBSET both
    BY <1>2
  <2> HIDE DEF both
  <2>2. Total(T, g) <= Total(both, g) /\ Total(both, g) \in Nat
    BY <1>1, <2>1, LengthTotals
  <2> QED
    BY <2>2 DEF both
<1>7. Total(T, g) \in Nat /\ Total(rest, f) \in Nat
  BY <1>1, <1>2, LengthTotals
<1>8. Total(T, g) <= Total(S, f) + Size[id]
  BY <1>3, <1>4, <1>5, <1>6, <1>7, ServiceAssumption
<1> QED
  BY <1>7, <1>8 DEF f, g

\* Once one of them is released, the others owe what is left.
LEMMA OwesOthers ==
  ASSUME NEW S \in SUBSET Sessions, NEW t \in S
  PROVE  /\ Total(S \ {t}, Length) = Total(S, Length) - Length[t]
         /\ Total(S, Length) \in Nat /\ Length[t] \in Nat
<1>1. IsFiniteSet(S) /\ \A y \in S : Length[y] \in Nat
  BY SessionsFinite, FS_Subset, LengthFacts
<1>2. Total(S, Length) \in Nat
  BY LengthFacts, LengthTotals
<1> QED
  BY <1>1, <1>2, TotalRemove

\* What a step does to the ledger and to the room: the ledger still covers what is
\* owed, and what fits the limit still does, alone and beside the uploads that are
\* still to be stored.
StaysCovered ==
  /\ LedgerCovers'
  /\ Room(0) => Room(0)'
  /\ Within => Within'

\* The numbers of a state of the composition, and of the next one.
Numbers ==
  /\ Sums /\ Debts
  /\ Total(Uploads, reservation) \in Nat
  /\ Total(Pending, reservation) <= Total(Uploads, reservation)
  /\ UsedBytes(records, orphans) \in Nat

LEMMA TusNumbers == TypeOK => Numbers
<1> SUFFICES ASSUME TypeOK
             PROVE  Numbers
  OBVIOUS
<1>1. Sums
  BY CapacityNumbers
<1>2. /\ Total(Uploads, reservation) \in Nat
      /\ Total(Pending, reservation) <= Total(Uploads, reservation)
  BY <1>1, HeldTotals DEF Sums
<1>3. UsedBytes(records, orphans) \in Nat
  BY <1>1 DEF Sums, UsedBytes
<1> QED
  BY <1>1, <1>2, <1>3, OwedFacts DEF Numbers

LEMMA NextTusNumbers == TypeOK' => Numbers'
BY TusNumbers, PTL

\* The service's own steps balance the ledger they share.
LEMMA ServiceRoom ==
  ASSUME TypeOK, TypeOK', NEW x \in Nat, Covers(x), Room(x), ServiceStep
  PROVE  Balanced /\ Room(x)'
<1>1. ASSUME NEW u \in Uploads, UploadStep(u)
      PROVE  Balanced /\ Room(x)'
  BY <1>1, ReserveRoom, PersistRoom, RequestRoom DEF UploadStep
<1> QED
  BY <1>1, BesideRoom DEF ServiceStep

\* They add to the ledger what a request comes to hold, and release what it held.
LedgerMoves ==
  \E n \in Nat :
    \/ /\ reservedBytes' = reservedBytes + n
       /\ Total(Uploads, reservation') = Total(Uploads, reservation) + n
    \/ /\ reservedBytes' = Released(n)
       /\ Total(Uploads, reservation') = Total(Uploads, reservation) - n

LEMMA ServiceLedger ==
  ASSUME TypeOK, TypeOK', ServiceStep
  PROVE  LedgerMoves
<1>1. /\ reservation \in [Uploads -> Nat] /\ reservation' \in [Uploads -> Nat]
      /\ reservedBytes \in Nat
  BY DEF TypeOK
<1>2. Total(Uploads, reservation) \in Nat /\ Total(Uploads, reservation') \in Nat
  BY <1>1, HeldTotals
<1>3. CASE UNCHANGED <<reservedBytes, reservation>>
  <2>1. /\ reservedBytes' = reservedBytes + 0
        /\ Total(Uploads, reservation') = Total(Uploads, reservation) + 0
    BY <1>1, <1>2, <1>3
  <2> QED
    BY <2>1 DEF LedgerMoves
<1>4. ASSUME NEW u \in Uploads, UploadRelease(u)
      PROVE  LedgerMoves
  <2>1. /\ reservation[u] \in Nat /\ reservation'[u] = 0
        /\ reservedBytes' = Released(reservation[u])
        /\ \A v \in Uploads \ {u} : reservation'[v] = reservation[v]
    BY <1>1, <1>4 DEF UploadRelease
  <2>2. Total(Uploads, reservation') = Total(Uploads, reservation) - reservation[u] + reservation'[u]
    BY <1>1, <2>1, HeldChange
  <2>3. Total(Uploads, reservation') = Total(Uploads, reservation) - reservation[u]
    BY <1>2, <2>1, <2>2
  <2> QED
    BY <2>1, <2>3 DEF LedgerMoves
<1>5. ASSUME NEW u \in Uploads, UploadReserve(u)
      PROVE  LedgerMoves
  <2>1. CASE UNCHANGED <<reservedBytes, reservation>>
    BY <1>3, <2>1
  <2>2. ASSUME NEW id \in Ids, NEW length \in ContentLengths(id), pc[u] = "idle",
               reservedBytes' = reservedBytes + Reservation(length),
               reservation' = [reservation EXCEPT ![u] = Reservation(length)]
        PROVE  LedgerMoves
    <3>1. PICK n \in Nat : n = Reservation(length)
      BY <2>2, ServiceAssumption DEF ContentLengths, Reservation
    <3>2. /\ reservation[u] = 0 /\ reservation'[u] = n
          /\ \A v \in Uploads \ {u} : reservation'[v] = reservation[v]
      BY <1>1, <2>2, <3>1 DEF TypeOK
    <3>3. Total(Uploads, reservation') = Total(Uploads, reservation) - reservation[u] + reservation'[u]
      BY <1>1, <3>2, HeldChange
    <3>4. Total(Uploads, reservation') = Total(Uploads, reservation) + n
      BY <1>2, <3>2, <3>3
    <3> QED
      BY <2>2, <3>1, <3>4 DEF LedgerMoves
  <2> QED
    BY <1>5, <2>1, <2>2 DEF UploadReserve, request
<1>6. ASSUME NEW u \in Uploads,
             \/ UploadRefused(u) \/ UploadReceive(u) \/ UploadReject(u)
             \/ UploadPersist(u) \/ UploadRemoveTemp(u)
      PROVE  UNCHANGED <<reservedBytes, reservation>>
  BY <1>6 DEF UploadRefused, UploadReceive, UploadReject, UploadPersist, UploadRemoveTemp,
              memory
<1>7. CASE \/ \E id \in Ids : DeleteFile(id)
           \/ \E ids \in SUBSET Ids : BatchDelete(ids)
  BY <1>3, <1>7, DeletionFacts DEF request
<1>8. CASE CleanupTick \/ Tick \/ Stabilize
  BY <1>3, <1>8 DEF CleanupTick, Tick, Stabilize, memory, request
<1> QED
  BY <1>3, <1>4, <1>5, <1>6, <1>7, <1>8 DEF ServiceStep, UploadStep

LEMMA ServiceKept ==
  ASSUME TusInv, TusInv', up, LedgerCovers, ServiceStep, UNCHANGED tusVars
  PROVE  StaysCovered
<1> DEFINE x == Total(Unstored, Length)
<1>1. /\ TypeOK /\ TypeOK' /\ Numbers /\ Numbers' /\ 0 \in Nat
  BY TusNumbers, NextTusNumbers DEF TusInv, TusTypeOK
<1>2. /\ Total(Uploads, reservation) + Owed <= reservedBytes
      /\ Owed \in Nat /\ x \in Nat /\ x <= Owed
      /\ Total(Uploads, reservation) \in Nat /\ reservedBytes \in Nat
      /\ Total(Uploads, reservation') \in Nat /\ reservedBytes' \in Nat
  BY <1>1 DEF LedgerCovers, Numbers, Sums, Debts, Owed
<1>3. Owing' = Owing /\ Unstored' = Unstored /\ Length' = Length
  BY DEF tusVars, staging, reaper, Owing, Unstored, Length, At
<1>4. Covers(0) /\ Covers(x)
  BY <1>2 DEF Covers
<1>5. Room(0) => Room(0)'
  BY <1>1, <1>4, ServiceRoom
<1>6. LedgerCovers'
  <2>1. LedgerMoves
    BY <1>1, ServiceLedger
  <2>2. Total(Uploads, reservation') + Owed <= reservedBytes'
    BY <1>2, <2>1 DEF LedgerMoves, Released
  <2> QED
    BY <1>3, <2>2 DEF LedgerCovers, Owed
<1>7. ASSUME Within
      PROVE  Within'
  <2>1. PICK v \in Nat : v = x
    BY <1>2
  <2>2. Covers(v) /\ Room(v)
    BY <1>4, <1>7, <2>1 DEF Covers, Within, Room
  <2>3. Room(v)'
    BY <1>1, <2>2, ServiceRoom
  <2> QED
    BY <1>3, <2>1, <2>3 DEF Within, Room
<1> QED
  BY <1>5, <1>6, <1>7 DEF StaysCovered

\* A creation reserves, after its check of the room, or changes nothing of the ledger.
LEMMA CreationFacts ==
  ASSUME TypeOK, NEW c \in Calls, NEW t \in Sessions, TusReserve(c, t)
  PROVE  /\ UNCHANGED <<request, stored>>
         /\ \/ /\ UNCHANGED <<reservedBytes, sent, call, info, reaping, leftover>>
               /\ UsedBytes(records', orphans') <= UsedBytes(records, orphans)
            \/ \E id \in Ids :
                 /\ sent[t] = NoId /\ sent' = [sent EXCEPT ![t] = id]
                 /\ reservedBytes' = reservedBytes + Size[id]
                 /\ UsedBytes(records', orphans') <= MaxStorageBytes - reservedBytes - Size[id]
<1>1. UNCHANGED <<request, stored>>
  BY DEF TusReserve
<1>0. UNCHANGED <<info, reaping, leftover>>
  BY DEF TusReserve, reaper
<1>2. PICK id \in Ids :
        \/ /\ CleanupSucceeds
           /\ Reservable(Size[id], Cleaned(Image))
           /\ reservedBytes' = reservedBytes + Size[id]
           /\ sent' = [sent EXCEPT ![t] = id]
        \/ /\ CleanupSucceeds \/ CleanupFails
           /\ UNCHANGED <<reservedBytes, sent, call, info, reaping, leftover>>
  BY <1>0 DEF TusReserve
<1>3. CASE /\ CleanupSucceeds \/ CleanupFails
           /\ UNCHANGED <<reservedBytes, sent, call, info, reaping, leftover>>
  BY <1>1, <1>3, SweepFacts, UsedShrinks
<1>4. CASE /\ CleanupSucceeds
           /\ Reservable(Size[id], Cleaned(Image))
           /\ reservedBytes' = reservedBytes + Size[id]
           /\ sent' = [sent EXCEPT ![t] = id]
  <2>1. UsedBytes(records', orphans') <= MaxStorageBytes - reservedBytes - Size[id]
    BY <1>4, ImageFacts DEF Reservable, CleanupSucceeds, Install
  <2>2. sent[t] = NoId
    BY DEF TusReserve
  <2> QED
    BY <1>1, <1>4, <2>1, <2>2
<1> QED
  BY <1>2, <1>3, <1>4

LEMMA ReserveKept ==
  ASSUME TusInv, TusInv', LedgerCovers, up, NEW c \in Calls, NEW t \in Sessions,
         TusReserve(c, t), Owing' \subseteq Owing \cup {t}
  PROVE  StaysCovered
<1> DEFINE x == Total(Unstored, Length)
           y == Total(Unstored', Length')
           held == Total(Uploads, reservation)
           pend == Total(Pending, reservation)
<1>1. /\ TusTypeOK /\ TypeOK /\ TypeOK' /\ Numbers /\ Numbers'
      /\ UNCHANGED <<request, stored>>
  BY CreationFacts, TusNumbers, NextTusNumbers DEF TusInv, TusTypeOK
<1>2. /\ held + Owed <= reservedBytes
      /\ Owed \in Nat /\ x \in Nat /\ x <= Owed /\ Owed' \in Nat /\ y \in Nat
      /\ held \in Nat /\ reservedBytes \in Nat /\ reservedBytes' \in Nat
      /\ pend \in Nat /\ pend <= held
      /\ UsedBytes(records, orphans) \in Nat /\ UsedBytes(records', orphans') \in Nat
      /\ MaxStorageBytes \in Nat
  BY <1>1, ServiceAssumption DEF LedgerCovers, Numbers, Sums, Debts, Owed
<1>3. /\ Owing \in SUBSET Sessions /\ Unstored \in SUBSET Sessions
      /\ Owing' \in SUBSET Sessions /\ Unstored' \in SUBSET Sessions
      /\ Unstored' \subseteq Unstored \cup {t}
  BY <1>1 DEF Owing, Unstored
<1>4. /\ Total(Uploads, reservation') = held /\ Total(Pending', reservation') = pend
  BY <1>1 DEF request, Pending
\* Both ways take from the room what they add to the ledger.
<1>5. CASE /\ UNCHANGED <<reservedBytes, sent, call, info, reaping, leftover>>
           /\ UsedBytes(records', orphans') <= UsedBytes(records, orphans)
  <2>1. Owed' = Owed /\ y = x
    BY <1>1, <1>5 DEF Owed, Owing, Unstored, Length, At
  <2> HIDE DEF x, y, held, pend
  <2>2. LedgerCovers'
    BY <1>2, <1>4, <1>5, <2>1 DEF LedgerCovers, Owed
  <2>3. Room(0) => Room(0)'
    BY <1>2, <1>4, <1>5 DEF Room, pend
  <2>4. Within => Within'
    BY <1>2, <1>4, <1>5, <2>1 DEF Within, pend, x, y
  <2> QED
    BY <2>2, <2>3, <2>4 DEF StaysCovered
<1>6. ASSUME NEW id \in Ids, sent[t] = NoId, sent' = [sent EXCEPT ![t] = id],
             reservedBytes' = reservedBytes + Size[id],
             UsedBytes(records', orphans') <= MaxStorageBytes - reservedBytes - Size[id]
      PROVE  StaysCovered
  <2>1. Owed' <= Owed + Size[id] /\ y <= x + Size[id] /\ Size[id] \in Nat
    BY <1>1, <1>3, <1>6, OwesMore, ServiceAssumption DEF Owed
  <2> HIDE DEF x, y, held, pend
  <2>2. LedgerCovers'
    BY <1>2, <1>4, <1>6, <2>1 DEF LedgerCovers, Owed, held
  <2>3. Room(0)'
    BY <1>2, <1>4, <1>6, <2>1 DEF Room, pend
  <2>4. Within'
    BY <1>2, <1>4, <1>6, <2>1 DEF Within, pend, y
  <2> QED
    BY <2>2, <2>3, <2>4 DEF StaysCovered
<1> QED
  BY <1>1, <1>5, <1>6, CreationFacts

\* A step of the files alone, and a release, take no room.
LEMMA KeepingKept ==
  ASSUME TusInv, TusInv', LedgerCovers, up, Keeping \/ Leaking \/ Releasing
  PROVE  StaysCovered
<1> DEFINE x == Total(Unstored, Length)
           y == Total(Unstored', Length')
           held == Total(Uploads, reservation)
           pend == Total(Pending, reservation)
<1>1. /\ TusTypeOK /\ TypeOK /\ TypeOK' /\ Numbers /\ Numbers'
      /\ UNCHANGED <<sent, stored, request, records, orphans>>
  BY TusNumbers, NextTusNumbers
     DEF TusInv, TusTypeOK, Keeping, Leaking, Releasing, Release, ButLedger, vars, memory
<1>2. /\ held + Owed <= reservedBytes
      /\ Owed \in Nat /\ x \in Nat /\ x <= Owed /\ Owed' \in Nat /\ y \in Nat
      /\ held \in Nat /\ reservedBytes \in Nat /\ reservedBytes' \in Nat
      /\ pend \in Nat /\ pend <= held
      /\ UsedBytes(records, orphans) \in Nat /\ MaxStorageBytes \in Nat
  BY <1>1, ServiceAssumption DEF LedgerCovers, Numbers, Sums, Debts, Owed
<1>3. /\ Total(Uploads, reservation') = held /\ Total(Pending', reservation') = pend
      /\ UsedBytes(records', orphans') = UsedBytes(records, orphans)
  BY <1>1 DEF request, Pending, UsedBytes
<1>4. /\ Owing \in SUBSET Sessions /\ Unstored \in SUBSET Sessions
      /\ Owing' \subseteq Owing /\ Unstored' \subseteq Unstored
  BY <1>1 DEF Owing, Unstored, Keeping, Leaking, Releasing
<1>5. y <= x
  BY <1>1, <1>4, OwesLess
<1>6. Owed' <= Owed - (reservedBytes - reservedBytes')
  <2>1. CASE Keeping \/ Leaking
    <3>1. reservedBytes' = reservedBytes
      BY <2>1 DEF Keeping, Leaking, vars, memory
    <3>2. Owed' <= Owed
      BY <1>1, <1>4, OwesLess DEF Owed
    <3> QED
      BY <1>2, <3>1, <3>2
  <2>2. ASSUME NEW t \in Owing, Release(Length[t]), Owing' = Owing \ {t}
        PROVE  Owed' <= Owed - (reservedBytes - reservedBytes')
    <3> DEFINE S == Owing \ {t}
               n == Length[t]
    <3>1. Total(S, Length) = Owed - n /\ n \in Nat
      BY <1>4, OwesOthers DEF Owed
    <3>2. S \in SUBSET Sessions /\ Owing' \in SUBSET S
      BY <1>4, <2>2
    <3>3. reservedBytes' = Released(n)
      BY <2>2 DEF Release
    <3> HIDE DEF S, n
    <3>4. Owed' <= Total(S, Length)
      BY <1>1, <3>2, OwesLess DEF Owed
    <3>5. Total(S, Length) \in Nat
      BY <3>2, LengthFacts, LengthTotals
    <3>6. n <= reservedBytes
      BY <1>2, <3>1, <3>5
    <3> QED
      BY <1>2, <3>1, <3>3, <3>4, <3>6 DEF Released
  <2> QED
    BY <2>1, <2>2 DEF Releasing
<1>7. reservedBytes' <= reservedBytes
  <2>1. CASE Keeping \/ Leaking
    <3>1. reservedBytes' = reservedBytes
      BY <2>1 DEF Keeping, Leaking, vars, memory
    <3> QED
      BY <1>2, <3>1
  <2>2. ASSUME NEW t \in Owing, Release(Length[t])
        PROVE  reservedBytes' <= reservedBytes
    <3>1. Length[t] \in Nat
      BY <1>4, LengthFacts
    <3> QED
      BY <1>2, <2>2, <3>1 DEF Release, Released
  <2> QED
    BY <2>1, <2>2 DEF Releasing
<1> HIDE DEF x, y, held, pend
<1>8. LedgerCovers'
  BY <1>2, <1>3, <1>6 DEF LedgerCovers, Owed, held
<1>9. Room(0) => Room(0)'
  BY <1>2, <1>3 DEF Room, pend
<1>10. Within => Within'
  BY <1>2, <1>3, <1>5 DEF Within, pend, x, y
<1> QED
  BY <1>8, <1>9, <1>10 DEF StaysCovered

\* persist of an upload's file stores it, or leaves the store no fuller.
LEMMA FinishFacts ==
  ASSUME TusInv, NEW c \in Calls, FinishPersist(c)
  PROVE  /\ UNCHANGED <<reservedBytes, request, sent>> /\ stored \subseteq stored'
         /\ \/ RemovesOnly
            \/ /\ \E how \in PersistEnds : AddsContent(sent[call[c].t], Length[call[c].t], how)
               /\ call[c].t \in stored'
<1> DEFINE t == call[c].t
           id == sent[t]
<1>1. /\ TusTypeOK /\ TypeOK /\ t \in Sessions /\ id \in Ids
      /\ UNCHANGED <<reservedBytes, request, sent>> /\ stored \subseteq stored'
  BY CallFacts, SentFacts DEF TusInv, TusTypeOK, FinishPersist
<1>2. CASE CleanupSucceeds \/ CleanupFails
  BY <1>1, <1>2, SweepFacts DEF RemovesOnly
<1>3. ASSUME NEW how \in PersistEnds, Persist(id, Length[t], Cleaned(Image), how),
             stored' = IF how \in {"duplicate", "stored", "orphaned"}
                       THEN stored \cup {t} ELSE stored
      PROVE  RemovesOnly \/ (AddsContent(id, Length[t], how) /\ t \in stored')
  <2>1. (how \in Neutral /\ RemovesOnly) \/ AddsContent(id, Length[t], how)
    BY <1>1, <1>3, PersistContent
  <2>2. AddsContent(id, Length[t], how) => how \in {"stored", "orphaned"}
    BY DEF AddsContent
  <2> QED
    BY <1>3, <2>1, <2>2
<1>4. \/ CleanupSucceeds \/ CleanupFails
      \/ \E how \in PersistEnds :
           /\ Persist(id, Length[t], Cleaned(Image), how)
           /\ stored' = IF how \in {"duplicate", "stored", "orphaned"}
                        THEN stored \cup {t} ELSE stored
  BY DEF FinishPersist
<1> QED
  BY <1>1, <1>2, <1>3, <1>4

LEMMA FinishKept ==
  ASSUME TusInv, TusInv', LedgerCovers, up, NEW c \in Calls, Finishing(c)
  PROVE  LedgerCovers' /\ (call[c].t \in Owing => StaysCovered)
<1> DEFINE t == call[c].t
           x == Total(Unstored, Length)
           y == Total(Unstored', Length')
           held == Total(Uploads, reservation)
           pend == Total(Pending, reservation)
           used == UsedBytes(records', orphans')
<1>0. FinishPersist(c) /\ Owing' = Owing
  BY DEF Finishing
<1>1. /\ TusTypeOK /\ TypeOK /\ TypeOK' /\ Numbers /\ Numbers'
      /\ UNCHANGED <<sent, reservedBytes, request>> /\ stored \subseteq stored'
  BY <1>0, FinishFacts, TusNumbers, NextTusNumbers DEF TusInv, TusTypeOK
<1>2. /\ held + Owed <= reservedBytes
      /\ Owed \in Nat /\ x \in Nat /\ x <= Owed /\ Owed' \in Nat /\ y \in Nat
      /\ held \in Nat /\ reservedBytes \in Nat
      /\ pend \in Nat /\ pend <= held /\ used \in Nat
      /\ UsedBytes(records, orphans) \in Nat /\ MaxStorageBytes \in Nat
  BY <1>1, ServiceAssumption DEF LedgerCovers, Numbers, Sums, Debts, Owed
<1>3. /\ Total(Uploads, reservation') = held /\ Total(Pending', reservation') = pend
  BY <1>1 DEF request, Pending
<1>4. /\ Owing \in SUBSET Sessions /\ Unstored \in SUBSET Sessions
      /\ Unstored' \subseteq Unstored
  BY <1>0, <1>1 DEF Owing, Unstored
<1>5. Owed' <= Owed /\ y <= x
  BY <1>0, <1>1, <1>4, OwesLess DEF Owed
<1>6. LedgerCovers'
  <2> HIDE DEF held
  <2> QED
    BY <1>1, <1>2, <1>3, <1>5 DEF LedgerCovers, Owed, held
<1> SUFFICES ASSUME t \in Owing
             PROVE  StaysCovered
  BY <1>6
<1>7. CASE RemovesOnly
  <2>1. used <= UsedBytes(records, orphans)
    BY <1>1, <1>7, UsedShrinks DEF RemovesOnly
  <2> HIDE DEF x, y, held, pend, used
  <2>2. Room(0) => Room(0)'
    BY <1>2, <1>3, <2>1 DEF Room, pend, used
  <2>3. Within => Within'
    BY <1>2, <1>3, <1>5, <2>1 DEF Within, pend, x, y, used
  <2> QED
    BY <1>6, <2>2, <2>3 DEF StaysCovered
<1>8. ASSUME NEW how, AddsContent(sent[t], Length[t], how), t \in stored'
      PROVE  StaysCovered
  <2> DEFINE n == Length[t]
             S == Owing \ {t}
             id == sent[t]
  <2>1. Total(S, Length) = Owed - n /\ n \in Nat
    BY <1>4, OwesOthers DEF Owed
  <2>2. S \in SUBSET Sessions /\ Unstored' \in SUBSET S
    BY <1>0, <1>4, <1>8 DEF Unstored
  <2>3. id \in Ids
    BY <1>0, SentFacts, CallFacts DEF FinishPersist, TusInv
  <2>4. used <= MaxStorageBytes - (reservedBytes - n)
    <3> HIDE DEF n, id
    <3>1. AddsContent(id, n, how)
      BY <1>8 DEF id, n
    <3> QED
      BY <1>1, <2>1, <2>3, <3>1, AddedFits
  <2> HIDE DEF S, n, t
  <2>5. y <= Total(S, Length) /\ Total(S, Length) \in Nat
    BY <1>1, <2>2, OwesLess, LengthFacts, LengthTotals
  <2> HIDE DEF x, y, held, pend, used
  <2>6. Room(0)'
    BY <1>2, <1>3, <2>1, <2>4, <2>5 DEF Room, pend, used
  <2>7. Within'
    BY <1>2, <1>3, <2>1, <2>4, <2>5 DEF Within, pend, y, used
  <2> QED
    BY <1>6, <2>6, <2>7 DEF StaysCovered
<1> QED
  BY <1>0, <1>7, <1>8, FinishFacts

\* A process that is down owes nothing to its ledger.
LEMMA DownKept ==
  ASSUME TypeOK, TypeOK', StoredWithin', ~up'
  PROVE  LedgerCovers' /\ Room(0)'
BY DownRoom DEF LedgerCovers, TypeOK

\* A start restores the reservations of the uploads that are still there.
LEMMA StartKept ==
  ASSUME TusInv, TusInv', StoredWithin', TusStart
  PROVE  LedgerCovers' /\ Room(0)'
<1>1. /\ TypeOK /\ TypeOK' /\ FilesOK /\ TusTypeOK /\ Parsable
      /\ RemoveFiles(Idlers) /\ reaping' = NoSession
      /\ reservedBytes' = reservedBytes + Total(Restored, Length)
      /\ \A c \in Calls : call'[c].at = "idle"
      /\ leftover' = {t \in Idlers : info'[t] = "whole"}
  BY DownFacts DEF TusInv, TusTypeOK, TusStart
<1>2. \A u \in Uploads : pc'[u] = "idle"
  <2>1. ~up /\ UNCHANGED request
    BY <1>1, DownFacts, StartFacts DEF TusStart
  <2> QED
    BY <1>1, <2>1 DEF TypeOK, request
<1>3. Room(0)' /\ Total(Uploads, reservation') = 0
  BY <1>1, <1>2, DownRoom
<1>4. sent' = sent /\ \A t \in Sessions : info'[t] \in {info[t], "none"}
  BY <1>1, RemoveFacts
<1>5. Restored \in SUBSET Sessions /\ Owing' \in SUBSET Restored
  <2>1. ASSUME NEW t \in Sessions, t \in Owing'
        PROVE  t \in Restored
    <3>1. info'[t] = "whole" /\ t \notin leftover' /\ t \in Sessions
      BY <1>1, <2>1 DEF Owing, At, Sessions, NoSession
    <3>2. info[t] = "whole" /\ t \notin Idlers
      BY <1>1, <1>4, <3>1
    <3>3. \A s \in 1 .. t : s \in Sessions
      BY TusAssumption DEF Sessions
    <3> QED
      BY <1>1, <3>2, <3>3 DEF Restored, Reached, Parsable
  <2>2. Owing' \subseteq Sessions
    BY DEF Owing
  <2> QED
    BY <2>1, <2>2 DEF Restored
<1>6. Owed' <= Total(Restored, Length) /\ Owed' \in Nat
  BY <1>4, <1>5, OwesLess DEF Owed
<1>7. Total(Restored, Length) \in Nat /\ reservedBytes \in Nat
  BY <1>1, <1>5, LengthFacts, LengthTotals DEF TypeOK
<1>8. Total(Uploads, reservation') + Owed' <= reservedBytes'
  BY <1>1, <1>3, <1>6, <1>7
<1> QED
  BY <1>3, <1>8 DEF LedgerCovers, Owed

\* What is left over stays so until the process ends.
LEMMA NextLeftover ==
  ASSUME TusInv, [TusNext]_allVars, up', ~TusStart
  PROVE  leftover \subseteq leftover'
<1>1. ASSUME NEW c \in Calls, CallStep(c)
      PROVE  leftover \subseteq leftover'
  BY <1>1 DEF CallStep, TusCreate, TusCreateFails, PatchWrite, PatchAnswer, FinishCheck,
              FinishCheckFails, FinishPersist, FinishRelease, FinishAnswer, FailRemove,
              FailRelease, TerminateRelease, TerminateRemove, Remains
<1>2. ASSUME NEW c \in Calls, NEW t \in Sessions,
             TusReserve(c, t) \/ PatchOpen(c, t) \/ PatchComplete(c, t) \/ TerminateOpen(c, t)
      PROVE  leftover' = leftover
  BY <1>2 DEF TusReserve, PatchOpen, PatchComplete, TerminateOpen
<1>3. CASE (\E t \in Sessions : ReapFind(t)) \/ ReapRemove \/ ReapRelease
  BY <1>3 DEF ReapFind, ReapRemove, ReapRelease, Remains
<1>4. ~TusCrash
  BY DEF TusCrash, Crash
<1>5. ~TusStartFails
  BY HaltFacts DEF TusInv, TusTypeOK
<1>6. UNCHANGED tusVars => leftover' = leftover
  BY DEF tusVars
<1> QED
  BY <1>1, <1>2, <1>3, <1>4, <1>5, <1>6 DEF TusNext, allVars

\* Another release takes no room either.
LEMMA RepeatingKept ==
  ASSUME Repeating, Within
  PROVE  Within' /\ leftover # {}
<1>1. UNCHANGED <<records, orphans, pc, reservation, sent, stored>> /\ Owing' = Owing
  BY DEF Repeating, Release, ButLedger, request
<1>2. Within'
  BY <1>1 DEF Within, Pending, Unstored, Length, UsedBytes
<1>3. leftover # {}
  BY DEF Repeating, ReleasedAgain
<1> QED
  BY <1>2, <1>3

\* The inductive invariant behind the ledger and the room: each upload has one owner,
\* who releases it once; the ledger covers what is owed, and what is stored and pending
\* fits because the ledger covers it when reserve and persist check, as long as nothing
\* is left over.
TusCapacity ==
  TusInv /\ Owned /\ StoredWithin /\ (leftover = {} => LedgerCovers /\ Room(0))

LEMMA TusInitCapacity ==
  ASSUME TusInit
  PROVE  TusCapacity
<1>1. TusInv /\ Init /\ Capacity
  BY TusInitFacts, InitCapacity
<1>2. StoredWithin /\ Room(0)
  BY <1>1, RoomAlone DEF Capacity
<1>3. Owned
  BY DEF TusInit, Owned, Working, Idle, Call
<1>4. LedgerCovers
  <2>1. Owing = {}
    BY DEF TusInit, Owing, At, Idle, Call, Sessions, NoSession
  <2>2. Total(Owing, Length) = 0
    BY <2>1, TotalEmpty
  <2>3. Total(Uploads, reservation) <= reservedBytes /\ reservedBytes \in Nat
    BY <1>1 DEF Capacity, LedgerExact, TypeOK
  <2>4. Total(Uploads, reservation) = reservedBytes
    BY <1>1 DEF Capacity, LedgerExact
  <2> QED
    BY <2>2, <2>3, <2>4 DEF LedgerCovers
<1> QED
  BY <1>1, <1>2, <1>3, <1>4 DEF TusCapacity

\* What one step does to the ledger that covers what is owed, and to what fits.
PersistsLeftover == \E c \in Calls : call[c].t \in leftover /\ FinishPersist(c)

StepCovers == LedgerCovers => LedgerCovers' \/ ReleasedAgain

StepFits == up /\ up' /\ LedgerCovers /\ Within => Within' \/ PersistsLeftover

LEMMA NextTusCapacity ==
  ASSUME ~Overlap, TusCapacity, [TusNext]_allVars
  PROVE  TusCapacity' /\ StepCovers /\ StepFits
<1>1. /\ TusInv /\ TusInv' /\ TypeOK /\ TypeOK' /\ StoredWithin'
      /\ Owned' /\ (LedgerEffect \/ UNCHANGED allVars)
      /\ leftover = {} => LedgerCovers /\ Room(0)
  BY NextTusInv, NextOwned, StoreEffects, TusStored DEF TusCapacity, TusInv, TusTypeOK
<1>2. CASE UNCHANGED allVars
  BY <1>1, <1>2 DEF allVars, vars, durable, memory, request, tusVars, staging, reaper,
                    TusCapacity, StepCovers, StepFits, LedgerCovers, Room, Within, Owing,
                    Unstored, Length, At, Pending, UsedBytes
<1>3. CASE ~up'
  BY <1>1, <1>3, DownKept DEF TusCapacity, StepCovers, StepFits
<1>4. CASE TusStart
  <2>1. ~up
    BY <1>1, <1>4, DownFacts DEF TusInv
  <2> QED
    BY <1>1, <1>4, <2>1, StartKept DEF TusCapacity, StepCovers, StepFits
<1>5. CASE LedgerEffect /\ up' /\ ~TusStart
  <2>1. leftover' = {} => leftover = {}
    BY <1>1, <1>5, NextLeftover
  <2>2. up
    <3>1. CASE ServiceStep
      BY <1>1, <1>5, <3>1, ServiceSteps
    <3>2. CASE Keeping \/ Leaking \/ Releasing \/ Repeating
      BY <1>5, <3>2 DEF Keeping, Leaking, Releasing, Repeating, Release, ButLedger, vars, memory
    <3>3. CASE \E c \in Calls, t \in Sessions : Creating(c, t)
      BY <3>3 DEF Creating, TusReserve
    <3>4. CASE \E c \in Calls : Finishing(c)
      BY <1>1, <3>4, CallFacts DEF TusInv, Finishing, FinishPersist
    <3> QED
      BY <1>5, <3>1, <3>2, <3>3, <3>4 DEF LedgerEffect
  <2>3. CASE ~LedgerCovers
    BY <1>1, <2>1, <2>3 DEF TusCapacity, StepCovers, StepFits
  <2>4. CASE LedgerCovers /\ StaysCovered
    BY <1>1, <2>1, <2>4 DEF StaysCovered, TusCapacity, StepCovers, StepFits
  <2>5. CASE LedgerCovers /\ Repeating
    BY <1>1, <2>1, <2>5, RepeatingKept DEF TusCapacity, StepCovers, StepFits, Repeating,
                                          ReleasedAgain
  <2>6. ASSUME LedgerCovers, NEW c \in Calls, Finishing(c)
        PROVE  TusCapacity' /\ StepCovers /\ StepFits
    <3>1. LedgerCovers' /\ (call[c].t \in Owing => StaysCovered)
      BY <1>1, <2>2, <2>6, FinishKept
    <3>2. CASE call[c].t \in leftover
      BY <1>1, <2>1, <2>6, <3>1, <3>2
         DEF TusCapacity, StepCovers, StepFits, PersistsLeftover, Finishing
    <3> QED
      BY <2>4, <2>6, <3>1, <3>2 DEF Finishing
  <2>7. ASSUME LedgerCovers, NEW c \in Calls, NEW t \in Sessions, Creating(c, t)
        PROVE  StaysCovered
    BY <1>1, <2>2, <2>7, ReserveKept DEF Creating
  <2>8. CASE LedgerCovers /\ (Keeping \/ Leaking \/ Releasing)
    BY <1>1, <2>2, <2>4, <2>8, KeepingKept
  <2>9. CASE LedgerCovers /\ ServiceStep /\ UNCHANGED tusVars
    BY <1>1, <2>2, <2>4, <2>9, ServiceKept
  <2> QED
    BY <1>5, <2>3, <2>4, <2>5, <2>6, <2>7, <2>8, <2>9 DEF LedgerEffect
<1> QED
  BY <1>1, <1>2, <1>3, <1>4, <1>5

LEMMA TusCapacityCorrect == ~Overlap => (TusSpec => []TusCapacity)
<1> SUFFICES ASSUME ~Overlap
             PROVE  TusSpec => []TusCapacity
  OBVIOUS
<1>1. TusInit => TusCapacity
  BY TusInitCapacity
<1>2. TusCapacity /\ [TusNext]_allVars => TusCapacity'
  BY NextTusCapacity
<1> QED
  BY <1>1, <1>2, PTL DEF TusSpec

\* Where requests and the reaper never meet at one upload, no step, whatever fails, nor
\* the end of the process and the next start, leaves the ledger with less than is owed,
\* but another release of an upload whose .info file could not be removed.
THEOREM TusLedgerStaysCovering == ~Overlap => (TusSpec => LedgerStaysCovering)
<1> SUFFICES ASSUME ~Overlap
             PROVE  TusSpec => LedgerStaysCovering
  OBVIOUS
<1>1. TusCapacity /\ [TusNext]_allVars
        => [LedgerCovers => LedgerCovers' \/ ReleasedAgain]_allVars
  BY NextTusCapacity DEF StepCovers
<1> QED
  BY <1>1, TusCapacityCorrect, PTL DEF TusSpec, LedgerStaysCovering

\* There, until an .info file that cannot be removed is left over, the ledger covers
\* what every upload still owes: each reservation is released once, through crashes and
\* restarts.
THEOREM TusLedgerCovers == ~Overlap => (TusSpec => [](leftover = {} => LedgerCovers))
<1> SUFFICES ASSUME ~Overlap
             PROVE  TusSpec => [](leftover = {} => LedgerCovers)
  OBVIOUS
<1>1. TusCapacity => (leftover = {} => LedgerCovers)
  BY DEF TusCapacity
<1> QED
  BY <1>1, TusCapacityCorrect, PTL

\* And until then the single-shot uploads and what is stored keep to the limit beside
\* the resumable ones.
THEOREM TusNoOvercommit == ~Overlap => (TusSpec => [](leftover = {} => NoOvercommit))
<1> SUFFICES ASSUME ~Overlap
             PROVE  TusSpec => [](leftover = {} => NoOvercommit)
  OBVIOUS
<1>1. TusCapacity => (leftover = {} => NoOvercommit)
  BY RoomAlone DEF TusCapacity, TusInv, TusTypeOK
<1> QED
  BY <1>1, TusCapacityCorrect, PTL

\* No step of a running service whose ledger covers what is owed takes uploads of both
\* kinds, records and orphans beyond the limit together, but persist of an upload that
\* is left over.
THEOREM TusStaysWithin == ~Overlap => (TusSpec => StaysWithin)
<1> SUFFICES ASSUME ~Overlap
             PROVE  TusSpec => StaysWithin
  OBVIOUS
<1>1. TusCapacity /\ [TusNext]_allVars
        => [up /\ up' /\ LedgerCovers /\ Within =>
              Within' \/ \E c \in Calls : call[c].t \in leftover /\ FinishPersist(c)]_allVars
  BY NextTusCapacity DEF StepFits, PersistsLeftover
<1>2. TusSpec => []TusCapacity
  BY TusCapacityCorrect
<1> QED
  BY <1>1, <1>2, PTL DEF TusSpec, StaysWithin

----------------------------------------------------------------------------
(* Nothing but a failed creation leaks.  The invariant TusCapacity covers   *)
(* what is owed; the steps below keep it from holding more than that.       *)

\* A process that is down has an empty ledger.
Drained == ~up => reservedBytes = 0

LEMMA NextDrained ==
  ASSUME TusInv, TusInv', Drained, [TusNext]_allVars
  PROVE  Drained'
<1>1. TypeOK /\ TusTypeOK
  BY DEF TusInv, TusTypeOK
<1>2. CASE ServiceStep
  <2>1. (up' <=> up)
    BY <1>1, <1>2, ServiceSteps
  <2>2. ~up => reservedBytes' = reservedBytes
    <3>1. ASSUME ~up, NEW u \in Uploads, UploadStep(u)
          PROVE  FALSE
      BY <1>1, <3>1 DEF TypeOK, UploadStep, UploadReserve, UploadRefused, UploadReceive,
                        UploadReject, UploadPersist, UploadRemoveTemp, UploadRelease,
                        PersistEnds
    <3>2. CASE \/ \E id \in Ids : DeleteFile(id)
               \/ \E ids \in SUBSET Ids : BatchDelete(ids)
      BY <1>1, <3>2 DEF DeleteFile, BatchDelete
    <3>3. CASE CleanupTick \/ Tick \/ Stabilize
      BY <3>3 DEF CleanupTick, Tick, Stabilize, memory
    <3> QED
      BY <1>2, <3>1, <3>2, <3>3 DEF ServiceStep
  <2> QED
    BY <2>1, <2>2 DEF Drained
<1>3. ASSUME NEW c \in Calls, NEW t \in Sessions,
             TusReserve(c, t) \/ PatchOpen(c, t) \/ PatchComplete(c, t) \/ TerminateOpen(c, t)
      PROVE  up'
  BY <1>3 DEF TusReserve, PatchOpen, PatchComplete, TerminateOpen, vars, memory
<1>4. ASSUME NEW c \in Calls, CallStep(c)
      PROVE  up'
  <2>1. call[c].at # "idle"
    BY <1>4 DEF CallStep, TusCreate, TusCreateFails, PatchWrite, PatchAnswer, FinishCheck,
                FinishCheckFails, FinishPersist, FinishRelease, FinishAnswer, FailRemove,
                FailRelease, TerminateRelease, TerminateRemove
  <2>2. up
    BY <1>1, <2>1, CallFacts
  <2> QED
    BY <1>4, <2>2 DEF CallStep, TusCreate, TusCreateFails, PatchWrite, PatchAnswer,
                FinishCheck, FinishCheckFails, FinishPersist, FinishRelease, FinishAnswer,
                FailRemove, FailRelease, TerminateRelease, TerminateRemove, Release,
                ButLedger, vars, memory
<1>5. ASSUME NEW t \in Sessions, ReapFind(t)
      PROVE  up'
  BY <1>5 DEF ReapFind, vars, memory
<1>6. CASE ReapRemove \/ ReapRelease
  <2>1. up
    BY <1>1, <1>6 DEF ReapRemove, ReapRelease, TusTypeOK, TypeOK
  <2>2. up'
    BY <1>6, <2>1 DEF ReapRemove, ReapRelease, Release, ButLedger, vars, memory
  <2> QED
    BY <2>2 DEF Drained
<1>7. CASE TusCrash
  BY <1>7 DEF TusCrash, Crash, Drained
<1>8. CASE TusStart
  BY <1>8 DEF TusStart, Boot, Drained
<1>9. CASE TusStartFails
  <2>1. ~up /\ reservedBytes' = reservedBytes
    BY <1>1, <1>9, DownFacts, HaltFacts
  <2> QED
    BY <2>1 DEF Drained
<1>10. CASE UNCHANGED allVars
  BY <1>10 DEF allVars, vars, memory, Drained
<1> QED
  BY <1>2, <1>3, <1>4, <1>5, <1>6, <1>7, <1>8, <1>9, <1>10 DEF TusNext, Drained

\* A creation adds exactly the length of the upload it creates.
LEMMA OwesNew ==
  ASSUME TusTypeOK, NEW S \in SUBSET Sessions, NEW T, NEW t \in Sessions, NEW id \in Ids,
         sent[t] = NoId, sent' = [sent EXCEPT ![t] = id], t \notin S, T = S \cup {t}
  PROVE  Total(T, Length') = Total(S, Length) + Size[id]
<1> DEFINE f == Length
           g == Length'
<1>1. /\ f \in [Sessions -> Nat] /\ g \in [Sessions -> Nat]
      /\ g[t] = Size[id] /\ \A s \in Sessions \ {t} : g[s] = f[s]
  <2>1. sent \in [Sessions -> Ids \cup {NoId}]
    BY DEF TusTypeOK, FilesOK
  <2> QED
    BY <2>1, ServiceAssumption DEF Length
<1> HIDE DEF f, g
<1>2. /\ T \in SUBSET Sessions /\ t \in T /\ T \ {t} = S
      /\ \A s \in S : g[s] = f[s]
  BY <1>1
<1>3. IsFiniteSet(T) /\ \A s \in T : g[s] \in Nat
  BY <1>1, <1>2, SessionsFinite, FS_Subset
<1>4. Total(T \ {t}, g) = Total(T, g) - g[t]
  BY <1>2, <1>3, TotalRemove
<1>5. Total(S, g) = Total(S, f)
  BY <1>2, TotalSame
<1>6. Total(T, g) \in Nat
  BY <1>1, <1>2, LengthTotals
<1>7. T \ {t} = S
  BY <1>2
<1>8. Total(S, g) = Total(T, g) - g[t]
  BY <1>4, <1>7
<1>9. Total(T, g) = Total(S, f) + Size[id]
  BY <1>1, <1>5, <1>6, <1>8, ServiceAssumption
<1> QED
  BY <1>9 DEF f, g

\* What holds of a ledger that is balanced, and has to hold of the next one.
Excess == reservedBytes <= Total(Uploads, reservation) + Owed

LEMMA CreatingBalanced ==
  ASSUME TusInv, NEW c \in Calls, NEW t \in Sessions, Creating(c, t), Excess
  PROVE  Excess'
<1>1. /\ TusTypeOK /\ TypeOK /\ TusReserve(c, t) /\ Numbers /\ Owing \in SUBSET Sessions
  BY TusNumbers DEF TusInv, TusTypeOK, Creating, Owing
<1>2. Total(Uploads, reservation') = Total(Uploads, reservation)
  BY <1>1, CreationFacts DEF request
<1>3. CASE UNCHANGED <<reservedBytes, sent, call, info, reaping, leftover>>
  <2>1. Owed' = Owed
    BY <1>3 DEF Owed, Owing, Length, At
  <2> QED
    BY <1>2, <1>3, <2>1 DEF Excess
<1>4. ASSUME NEW id \in Ids, sent[t] = NoId, sent' = [sent EXCEPT ![t] = id],
             reservedBytes' = reservedBytes + Size[id]
      PROVE  Excess'
  <2>1. sent' # sent
    <3>1. sent'[t] = id /\ id # NoId
      BY <1>1, <1>4, ServiceAssumption DEF TusTypeOK, FilesOK
    <3> QED
      BY <1>4, <3>1
  <2>2. Owing' = Owing \cup {t} /\ t \notin Owing
    BY <2>1 DEF Creating
  <2>3. PICK S \in SUBSET Sessions : S = Owing
    BY <1>1
  <2>4. PICK T : T = Owing'
    OBVIOUS
  <2>5. Total(T, Length') = Total(S, Length) + Size[id]
    BY <1>1, <1>4, <2>2, <2>3, <2>4, OwesNew
  <2>6. Owed' = Owed + Size[id]
    BY <2>3, <2>4, <2>5 DEF Owed
  <2>7. /\ Owed \in Nat /\ Size[id] \in Nat /\ reservedBytes \in Nat
        /\ Total(Uploads, reservation) \in Nat
    BY <1>1, ServiceAssumption DEF Numbers, Debts, TypeOK
  <2>8. PICK held \in Nat : held = Total(Uploads, reservation)
    BY <2>7
  <2>9. reservedBytes' <= held + Owed'
    BY <1>4, <2>6, <2>7, <2>8 DEF Excess
  <2> QED
    BY <1>2, <2>8, <2>9 DEF Excess
<1> QED
  BY <1>1, <1>3, <1>4, CreationFacts

LEMMA KeepingBalanced ==
  ASSUME TusInv, Keeping \/ Releasing \/ Repeating, Excess
  PROVE  Excess'
<1>1. /\ TypeOK /\ Numbers /\ Owing \in SUBSET Sessions /\ UNCHANGED <<sent, request>>
  BY TusNumbers
     DEF TusInv, TusTypeOK, Keeping, Releasing, Repeating, Release, ButLedger, vars, Owing
<1>2. Total(Uploads, reservation') = Total(Uploads, reservation) /\ Length' = Length
  BY <1>1 DEF request, Length
<1>3. PICK held \in Nat : held = Total(Uploads, reservation)
  BY <1>1 DEF Numbers
<1>4. reservedBytes <= held + Owed /\ Owed \in Nat /\ reservedBytes \in Nat
  BY <1>1, <1>3 DEF Excess, Numbers, Debts, TypeOK
<1>5. CASE Keeping
  <2>1. Owing' = Owing /\ reservedBytes' = reservedBytes
    BY <1>5 DEF Keeping, vars, memory
  <2> QED
    BY <1>2, <2>1 DEF Excess, Owed
<1>6. CASE Repeating
  <2>1. PICK n \in Nat : reservedBytes' = Released(n)
    BY <1>6, LengthFacts DEF Repeating, Release
  <2>2. Owed' = Owed
    BY <1>2, <1>6 DEF Repeating, Owed
  <2>3. reservedBytes' <= held + Owed
    BY <1>4, <2>1 DEF Released
  <2> QED
    BY <1>2, <1>3, <2>2, <2>3 DEF Excess
<1>7. ASSUME NEW t \in Owing, Release(Length[t]), Owing' = Owing \ {t}
      PROVE  Excess'
  <2>1. PICK n \in Nat : n = Length[t]
    BY <1>1, LengthFacts
  <2>2. PICK S \in SUBSET Sessions : S = Owing
    BY <1>1
  <2>3. PICK rest : rest = Total(S \ {t}, Length)
    OBVIOUS
  <2>4. Total(S \ {t}, Length) = Total(S, Length) - Length[t]
    BY <1>7, <2>2, OwesOthers
  <2>5. rest = Owed - n
    BY <2>1, <2>2, <2>3, <2>4 DEF Owed
  <2>6. Owed' = rest
    BY <1>2, <1>7, <2>2, <2>3 DEF Owed
  <2>7. S \ {t} \in SUBSET Sessions
    BY <2>2
  <2>8. rest \in Nat
    BY <2>3, <2>7, LengthFacts, LengthTotals
  <2>9. reservedBytes' = Released(n)
    BY <1>7, <2>1 DEF Release
  <2>10. reservedBytes' <= held + rest
    BY <1>4, <2>5, <2>8, <2>9 DEF Released
  <2> QED
    BY <1>2, <1>3, <2>6, <2>10 DEF Excess
<1> QED
  BY <1>5, <1>6, <1>7 DEF Releasing

LEMMA ServiceBalanced ==
  ASSUME TusInv, TusInv', ServiceStep, UNCHANGED tusVars, Excess
  PROVE  Excess'
<1>1. /\ TypeOK /\ TypeOK' /\ Numbers /\ Numbers'
  BY TusNumbers, NextTusNumbers DEF TusInv, TusTypeOK
<1>2. PICK held \in Nat : held = Total(Uploads, reservation)
  BY <1>1 DEF Numbers
<1>3. PICK next \in Nat : next = Total(Uploads, reservation')
  BY <1>1 DEF Numbers
<1>4. reservedBytes <= held + Owed /\ Owed \in Nat /\ reservedBytes \in Nat
  BY <1>1, <1>2 DEF Excess, Numbers, Debts, TypeOK
<1>5. Owing' = Owing /\ Length' = Length
  BY DEF tusVars, staging, reaper, Owing, Length, At
<1>6. Owed' = Owed
  BY <1>5 DEF Owed
<1>7. PICK n \in Nat : \/ reservedBytes' = reservedBytes + n /\ next = held + n
                       \/ reservedBytes' = Released(n) /\ next = held - n
  BY <1>1, <1>2, <1>3, ServiceLedger DEF LedgerMoves
<1>8. reservedBytes' <= next + Owed
  BY <1>4, <1>7 DEF Released
<1> QED
  BY <1>3, <1>6, <1>8 DEF Excess

\* A start restores no more than the uploads it keeps will release.
LEMMA StartBalanced ==
  ASSUME TusInv, TusInv', Drained, TusStart, StoredWithin'
  PROVE  Excess'
<1>1. /\ TypeOK /\ TypeOK' /\ FilesOK /\ TusTypeOK /\ ~up
      /\ RemoveFiles(Idlers) /\ reaping' = NoSession
      /\ reservedBytes' = reservedBytes + Total(Restored, Length)
      /\ \A c \in Calls : call'[c].at = "idle" /\ call'[c].t = NoSession
      /\ leftover' = {t \in Idlers : info'[t] = "whole"}
  BY DownFacts DEF TusInv, TusTypeOK, TusStart, CallsOK
<1>2. \A u \in Uploads : pc'[u] = "idle"
  <2>1. UNCHANGED request
    BY <1>1, StartFacts DEF TusStart
  <2> QED
    BY <1>1, <2>1 DEF TypeOK, request
<1>3. Total(Uploads, reservation') = 0
  BY <1>1, <1>2, DownRoom
<1>4. sent' = sent /\ \A t \in Sessions \ Idlers : info'[t] = info[t]
  BY <1>1, RemoveFacts
<1>5. ASSUME NEW t \in Restored
      PROVE  t \in Owing'
  <2>1. t \in Sessions /\ info[t] = "whole" /\ t \notin Idlers /\ t # NoSession
    BY DEF Restored, Reached, Sessions, NoSession
  <2>2. info'[t] = "whole" /\ t \notin leftover' /\ \A c \in Calls : call'[c].t # t
    BY <1>1, <1>4, <2>1
  <2> QED
    BY <2>1, <2>2 DEF Owing, At
<1>6. PICK S : S = Owing'
  OBVIOUS
<1>7. PICK T : T = Restored
  OBVIOUS
<1>8. S \in SUBSET Sessions /\ T \in SUBSET S
  BY <1>5, <1>6, <1>7 DEF Owing
<1>9. Total(T, Length) <= Total(S, Length)
  BY <1>8, LengthFacts, LengthTotals
<1>10. Length' = Length
  BY <1>4 DEF Length
<1>11. Total(Restored, Length) <= Owed'
  BY <1>6, <1>7, <1>9, <1>10 DEF Owed
<1>12. reservedBytes = 0
  BY <1>1 DEF Drained
<1>13. T \in SUBSET Sessions
  BY <1>8
<1>14. Total(Restored, Length) \in Nat /\ Owed' \in Nat
  BY <1>7, <1>13, LengthFacts, LengthTotals, NextOwed DEF Debts
<1>15. reservedBytes' <= 0 + Owed'
  BY <1>1, <1>11, <1>12, <1>14
<1> QED
  BY <1>3, <1>15 DEF Excess

\* Where requests and the reaper never meet at one upload, only a failed creation leaks:
\* no other step, whatever fails, nor the end of the process and the next start, leaves
\* the ledger with more than is owed.
THEOREM TusLedgerStaysBalanced == ~Overlap => (TusSpec => LedgerStaysBalanced)
<1> SUFFICES ASSUME ~Overlap
             PROVE  TusSpec => LedgerStaysBalanced
  OBVIOUS
<1>1. TusInit => Drained
  BY DEF TusInit, Init, Drained
<1>2. TusCapacity => TusInv
  BY DEF TusCapacity
<1>3. TusInv /\ TusInv' /\ Drained /\ [TusNext]_allVars => Drained'
  BY NextDrained
<1>4. ASSUME TusCapacity, TusCapacity', Drained, [TusNext]_allVars, LedgerBalanced,
             ~\E c \in Calls : TusCreateFails(c)
      PROVE  LedgerBalanced'
  <2>1. /\ TusInv /\ TusInv' /\ StoredWithin' /\ TypeOK
        /\ LedgerEffect \/ UNCHANGED allVars
    BY <1>4, NextOwned DEF TusCapacity, TusInv, TusTypeOK
  <2>2. up => Excess
    BY <1>4 DEF LedgerBalanced, Excess, Owed
  <2>3. Excess' \/ ~up' => LedgerBalanced'
    BY DEF LedgerBalanced, Excess, Owed
  <2>4. CASE UNCHANGED allVars
    BY <1>4, <2>4 DEF allVars, vars, memory, request, tusVars, staging, reaper,
                      LedgerBalanced, Owing, Length, At
  <2>5. CASE ServiceStep /\ UNCHANGED tusVars
    <3>1. (up' <=> up)
      BY <2>1, <2>5, ServiceSteps
    <3>2. CASE up
      BY <2>1, <2>2, <2>3, <2>5, <3>2, ServiceBalanced
    <3> QED
      BY <2>3, <3>1, <3>2
  <2>6. ASSUME NEW c \in Calls, NEW t \in Sessions, Creating(c, t)
        PROVE  LedgerBalanced'
    <3>1. up
      BY <2>6 DEF Creating, TusReserve
    <3> QED
      BY <2>1, <2>2, <2>3, <2>6, <3>1, CreatingBalanced
  <2>7. CASE Keeping \/ Releasing \/ Repeating
    <3>1. (up' <=> up)
      BY <2>7 DEF Keeping, Releasing, Repeating, Release, ButLedger, vars, memory
    <3>2. CASE up
      BY <2>1, <2>2, <2>3, <2>7, <3>2, KeepingBalanced
    <3> QED
      BY <2>3, <3>1, <3>2
  <2>8. ASSUME NEW c \in Calls, Finishing(c)
        PROVE  LedgerBalanced'
    <3>1. UNCHANGED <<reservedBytes, request, sent, up>> /\ Owing' = Owing
      BY <2>1, <2>8, FinishFacts DEF FinishPersist, Finishing
    <3> QED
      BY <1>4, <3>1 DEF LedgerBalanced, request, Length
  <2>9. CASE TusStart
    BY <1>4, <2>1, <2>3, <2>9, StartBalanced
  <2>10. ~Leaking
    BY <1>4 DEF Leaking
  <2> QED
    BY <2>1, <2>3, <2>4, <2>5, <2>6, <2>7, <2>8, <2>9, <2>10 DEF LedgerEffect
<1>5. TusSpec => []TusCapacity
  BY TusCapacityCorrect
<1>6. TusCapacity /\ TusCapacity' /\ Drained /\ [TusNext]_allVars
        => [LedgerBalanced => LedgerBalanced' \/ \E c \in Calls : TusCreateFails(c)]_allVars
  BY <1>4
<1> QED
  BY <1>1, <1>2, <1>3, <1>5, <1>6, PTL DEF TusSpec, LedgerStaysBalanced

----------------------------------------------------------------------------
(* A reservation is worth its bytes.  What persist is about to store is     *)
(* there, its reservation covers it, and the ledger holds nothing else.     *)

LEMMA NextTusStaging ==
  ASSUME TusInv, TusInv', Owned, ~Overlap, Staging, [TusNext]_allVars
  PROVE  Staging'
<1>1. TypeOK /\ TypeOK' /\ (LedgerEffect \/ UNCHANGED allVars)
  BY NextOwned DEF TusInv, TusTypeOK
<1>2. CASE ServiceStep \/ UNCHANGED vars
  <2>1. [Next]_vars
    BY <1>1, <1>2, ServiceSteps
  <2> QED
    BY <1>1, <2>1, NextStaging
<1>3. CASE UNCHANGED <<staged, request, up>>
  BY <1>3 DEF Staging, Covered, Paid, request
<1>4. CASE \E c \in Calls, t \in Sessions : Creating(c, t)
  BY <1>3, <1>4 DEF Creating, TusReserve
<1>5. CASE Keeping \/ Leaking \/ Releasing \/ Repeating
  BY <1>2, <1>3, <1>5 DEF Keeping, Leaking, Releasing, Repeating, Release, ButLedger, durable
<1>6. CASE \E c \in Calls : Finishing(c)
  BY <1>3, <1>6 DEF Finishing, FinishPersist
<1>7. CASE ~up'
  BY <1>7 DEF Staging
<1>8. CASE TusStart
  <2>1. \A u \in Uploads : pc'[u] = "idle" /\ staged'[u] = 0
    BY <1>1, <1>8 DEF TusStart, Boot, request, TypeOK
  <2> QED
    BY <2>1 DEF Staging, Covered, Holding
<1> QED
  BY <1>1, <1>2, <1>4, <1>5, <1>6, <1>7, <1>8 DEF LedgerEffect, allVars

\* A call writes to its own upload, and to no other.
LEMMA CallWrites ==
  ASSUME TusInv, NEW c \in Calls, CallStep(c)
  PROVE  /\ \A d \in Calls \ {c} : call'[d] = call[d]
         /\ \A s \in Sessions \ {call[c].t} : bin'[s] = bin[s]
         /\ call'[c].at = "checked" =>
              call[c].at = "finishing" /\ call'[c].t = call[c].t /\ bin' = bin
                /\ bin[call[c].t] = Length[call[c].t]
<1> DEFINE t == call[c].t
<1>1. CallsOK /\ FilesOK
  BY DEF TusInv, TusTypeOK
<1>2. \A d \in Calls \ {c} : call'[d] = call[d]
  BY <1>1 DEF CallsOK, CallStep, TusCreate, TusCreateFails, PatchWrite, PatchAnswer,
              FinishCheck, FinishCheckFails, FinishPersist, FinishRelease, FinishAnswer,
              FailRemove, FailRelease, TerminateRelease, TerminateRemove, Goes, Ends
<1>3. \A s \in Sessions \ {t} : bin'[s] = bin[s]
  <2>1. CASE TusCreate(c) \/ TusCreateFails(c) \/ PatchWrite(c)
    BY <1>1, <2>1 DEF FilesOK, TusCreate, TusCreateFails, PatchWrite
  <2>2. CASE FinishPersist(c)
    BY <1>1, <2>2 DEF FinishPersist, Removed
  <2>3. CASE FailRemove(c) \/ TerminateRemove(c)
    BY <1>1, <2>3, RemoveFacts DEF FailRemove, TerminateRemove
  <2>4. CASE UNCHANGED bin
    BY <2>4
  <2> QED
    BY <2>1, <2>2, <2>3, <2>4
       DEF CallStep, PatchAnswer, FinishCheck, FinishCheckFails, FinishRelease,
           FinishAnswer, FailRelease, TerminateRelease, staging
<1>4. ASSUME call'[c].at = "checked"
      PROVE  /\ call[c].at = "finishing" /\ call'[c].t = call[c].t /\ bin' = bin
             /\ bin[t] = Length[t]
  <2>1. CASE FinishCheck(c)
    BY <1>1, <1>4, <2>1 DEF CallsOK, FinishCheck, Goes, staging
  <2>2. CASE ~FinishCheck(c)
    <3>1. \/ Ends(c) \/ PatchWrite(c)
          \/ \E at \in {"failing", "persisted", "released", "removed", "terminated"} : Goes(c, at)
      BY <2>2 DEF CallStep, TusCreate, TusCreateFails, PatchAnswer, FinishCheckFails,
                  FinishPersist, FinishRelease, FinishAnswer, FailRemove, FailRelease,
                  TerminateRelease, TerminateRemove
    <3>2. call'[c].at # "checked"
      BY <1>1, <3>1 DEF CallsOK, Ends, PatchWrite, Goes, Idle, Call
    <3> QED
      BY <1>4, <3>2
  <2> QED
    BY <2>1, <2>2
<1> QED
  BY <1>2, <1>3, <1>4

\* The opening of an upload leaves every call that is at work, and every file, as it was.
LEMMA OpenWrites ==
  ASSUME TusInv, NEW c \in Calls, NEW t \in Sessions,
         TusReserve(c, t) \/ PatchOpen(c, t) \/ PatchComplete(c, t) \/ TerminateOpen(c, t)
  PROVE  /\ bin' = bin /\ call[c].at = "idle" /\ call'[c].at # "checked"
         /\ \A d \in Calls \ {c} : call'[d] = call[d]
<1>1. CallsOK /\ bin' = bin /\ call[c] = Idle
  BY DEF TusInv, TusTypeOK, TusReserve, PatchOpen, PatchComplete, TerminateOpen, staging
<1>2. \/ call' = call
      \/ \E at \in {"creating", "writing", "complete", "terminating"} :
           \E left : call' = [call EXCEPT ![c] = Call(at, t, left)]
  BY DEF TusReserve, PatchOpen, PatchComplete, TerminateOpen
<1> QED
  BY <1>1, <1>2 DEF CallsOK, Idle, Call

\* The file of an upload that has been checked is there until persist has had it.
Received == \A c \in Calls : call[c].at = "checked" => bin[call[c].t] >= 0

LEMMA NextReceived ==
  ASSUME TusInv, TusInv', Owned, ~Overlap, Received, [TusNext]_allVars
  PROVE  Received'
<1>1. TusTypeOK /\ CallsOK /\ FilesOK /\ TypeOK
  BY DEF TusInv, TusTypeOK
<1>2. CASE UNCHANGED <<call, bin>>
  BY <1>2 DEF Received
<1>3. CASE \A c \in Calls : call'[c].at = "idle"
  BY <1>3 DEF Received
<1>4. ASSUME NEW c \in Calls, NEW t \in Sessions,
             TusReserve(c, t) \/ PatchOpen(c, t) \/ PatchComplete(c, t) \/ TerminateOpen(c, t)
      PROVE  Received'
  BY <1>4, OpenWrites DEF Received
<1>5. ASSUME NEW c \in Calls, CallStep(c), NEW d \in Calls, call'[d].at = "checked"
      PROVE  bin'[call'[d].t] >= 0
  <2>1. CASE d = c
    <3>1. /\ call'[c].t = call[c].t /\ bin' = bin /\ bin[call[c].t] = Length[call[c].t]
          /\ call[c].at # "idle"
      BY <1>5, <2>1, CallWrites
    <3>2. PICK t : t = call[c].t
      OBVIOUS
    <3>3. t \in Sessions
      BY <1>1, <3>1, <3>2, CallFacts
    <3>4. Length[t] \in Nat
      BY <3>3, LengthFacts
    <3> QED
      BY <2>1, <3>1, <3>2, <3>4
  <2>2. CASE d # c
    <3>1. call'[d] = call[d] /\ call[d].at = "checked"
      BY <1>5, <2>2, CallWrites
    <3>2. call[d].t \in Sessions /\ call[d].t # NoSession
      BY <1>1, <3>1, CallFacts DEF Sessions, NoSession
    <3>3. call[d].t # call[c].t
      BY <2>2, <3>2 DEF Owned
    <3>4. bin'[call[d].t] = bin[call[d].t]
      BY <1>5, <3>2, <3>3, CallWrites
    <3> QED
      BY <3>1, <3>4 DEF Received
  <2> QED
    BY <2>1, <2>2
<1>6. CASE ReapRemove
  <2>1. /\ call' = call /\ RemoveFiles({found}) /\ \A c \in Calls : call[c].t # found
    BY <1>6 DEF ReapRemove, Owned
  <2>2. \A s \in Sessions \ {found} : bin'[s] = bin[s]
    BY <1>1, <2>1, RemoveFacts
  <2>3. \A c \in Calls : call[c].at = "checked" => call[c].t \in Sessions \ {found}
    BY <1>1, <2>1, CallFacts
  <2> QED
    BY <2>1, <2>2, <2>3 DEF Received
<1>7. CASE (\E t \in Sessions : ReapFind(t)) \/ ReapRelease
  BY <1>2, <1>7 DEF ReapFind, ReapRelease, staging
<1>8. CASE TusCrash
  BY <1>3, <1>8 DEF TusCrash, Idle, Call
<1>9. CASE TusStart \/ TusStartFails
  BY <1>1, <1>3, <1>9, DownFacts
<1>10. CASE UNCHANGED tusVars
  BY <1>2, <1>10 DEF tusVars, staging
<1>11. (\E c \in Calls : CallStep(c)) => Received'
  BY <1>5 DEF Received
<1> QED
  BY <1>4, <1>6, <1>7, <1>8, <1>9, <1>10, <1>11 DEF TusNext, allVars

\* Only persist takes what was checked, or received, any further.
LEMMA OnlyPersists ==
  ASSUME TusInv, [TusNext]_allVars, up'
  PROVE  /\ \A c \in Calls : call[c].at = "checked" /\ call'[c] # call[c] => FinishPersist(c)
         /\ \A u \in Uploads : pc[u] = "received" /\ pc'[u] # pc[u] => UploadPersist(u)
<1>1. TusTypeOK /\ TypeOK /\ CallsOK
  BY DEF TusInv, TusTypeOK
<1>2. ASSUME NEW c \in Calls, call[c].at = "checked", call'[c] # call[c]
      PROVE  FinishPersist(c)
  <2>1. ASSUME NEW d \in Calls, CallStep(d)
        PROVE  FinishPersist(c)
    <3>1. d = c
      BY <1>2, <2>1, CallWrites
    <3> QED
      BY <1>2, <2>1, <3>1
         DEF CallStep, TusCreate, TusCreateFails, PatchWrite, PatchAnswer, FinishCheck,
             FinishCheckFails, FinishRelease, FinishAnswer, FailRemove, FailRelease,
             TerminateRelease, TerminateRemove
  <2>2. ASSUME NEW d \in Calls, NEW t \in Sessions,
               TusReserve(d, t) \/ PatchOpen(d, t) \/ PatchComplete(d, t) \/ TerminateOpen(d, t)
        PROVE  call'[c] = call[c]
    BY <1>2, <2>2, OpenWrites
  <2>3. CASE UNCHANGED call
    BY <1>2, <2>3
  <2>4. CASE TusCrash
    BY <2>4 DEF TusCrash, Crash
  <2> QED
    BY <1>2, <2>1, <2>2, <2>3, <2>4
       DEF TusNext, ReapFind, ReapRemove, ReapRelease, TusStart, TusStartFails, tusVars, allVars
<1>3. ASSUME NEW u \in Uploads, pc[u] = "received", pc'[u] # pc[u]
      PROVE  UploadPersist(u)
  <2>1. ASSUME NEW v \in Uploads, UploadStep(v)
        PROVE  UploadPersist(u)
    <3>1. pc \in [Uploads -> PCs]
      BY <1>1 DEF TypeOK
    <3>2. \/ pc' = pc
          \/ \E at : pc' = [pc EXCEPT ![v] = at]
      BY <2>1 DEF UploadStep, UploadReserve, UploadRefused, UploadReceive, UploadReject,
                  UploadPersist, UploadRemoveTemp, UploadRelease, request
    <3>3. v = u
      BY <1>3, <3>1, <3>2
    <3>4. pc[v] = "received"
      BY <1>3, <3>3
    <3>5. UploadPersist(v)
      BY <2>1, <3>4 DEF UploadStep, UploadReserve, UploadRefused, UploadReceive, UploadReject,
                  UploadRemoveTemp, UploadRelease, PersistEnds
    <3> QED
      BY <3>3, <3>5
  <2>2. CASE UNCHANGED request \/ UNCHANGED vars
    BY <1>3, <2>2 DEF request, vars
  <2>3. CASE \/ \E id \in Ids : DeleteFile(id)
             \/ \E ids \in SUBSET Ids : BatchDelete(ids)
             \/ CleanupTick \/ Tick \/ Stabilize
    BY <2>2, <2>3 DEF DeleteFile, BatchDelete, CleanupTick, Tick, Stabilize
  <2>4. ASSUME NEW d \in Calls, CallStep(d)
        PROVE  UNCHANGED request
    BY <2>4 DEF CallStep, TusCreate, TusCreateFails, PatchWrite, PatchAnswer, FinishCheck,
                FinishCheckFails, FinishPersist, FinishRelease, FinishAnswer, FailRemove,
                FailRelease, TerminateRelease, TerminateRemove, Release, ButLedger, vars
  <2>5. ASSUME NEW d \in Calls, NEW t \in Sessions,
               TusReserve(d, t) \/ PatchOpen(d, t) \/ PatchComplete(d, t) \/ TerminateOpen(d, t)
        PROVE  UNCHANGED request
    BY <2>5 DEF TusReserve, PatchOpen, PatchComplete, TerminateOpen, vars
  <2>6. CASE ReapRemove \/ ReapRelease \/ \E t \in Sessions : ReapFind(t)
    BY <2>2, <2>6 DEF ReapFind, ReapRemove, ReapRelease, Release, ButLedger
  <2>7. CASE TusCrash
    BY <2>7 DEF TusCrash, Crash
  <2>8. CASE TusStart \/ TusStartFails
    <3>1. ~up
      BY <1>1, <2>8, DownFacts
    <3> QED
      BY <1>1, <1>3, <3>1 DEF TypeOK
  <2> QED
    BY <2>1, <2>2, <2>3, <2>4, <2>5, <2>6, <2>7, <2>8 DEF TusNext, ServiceStep, allVars
<1> QED
  BY <1>2, <1>3

\* What ReceivedStored assumes of the state before the step.
Undisturbed == up /\ healthy /\ Within /\ LedgerCovers /\ LedgerBalanced /\ CountedOnce

\* In such a state everything reserved fits beside everything that is stored.
LEMMA ReservedFit ==
  ASSUME TusCapacity, Undisturbed
  PROVE  /\ UsedBytes(records, orphans) + reservedBytes <= MaxStorageBytes
         /\ UsedBytes(records, orphans) \in Nat /\ reservedBytes \in Nat
         /\ Owed <= reservedBytes /\ Owed \in Nat
         /\ \A u \in Uploads : reservation[u] <= reservedBytes /\ reservation[u] \in Nat
<1> DEFINE rest == Uploads \ Pending
<1>1. /\ TypeOK /\ Numbers /\ LedgerCovers /\ up /\ Within
      /\ reservation \in [Uploads -> Nat] /\ Pending \in SUBSET Uploads
  BY TusNumbers DEF TusCapacity, TusInv, TusTypeOK, TypeOK, Undisturbed, Pending
<1>2. Total(Unstored, Length) = Owed
  <2>1. Unstored = Owing
    BY DEF Undisturbed, CountedOnce, Unstored
  <2> QED
    BY <2>1 DEF Owed
<1>3. Total(Uploads, reservation) = Total(Pending, reservation)
  <2>1. /\ Pending \cup rest = Uploads /\ Pending \cap rest = {}
        /\ rest \in SUBSET Uploads /\ IsFiniteSet(Uploads)
    BY <1>1, ServiceAssumption
  <2>2. IsFiniteSet(Pending) /\ IsFiniteSet(rest)
    BY <1>1, <2>1, FS_Subset
  <2>3. \A v \in rest : reservation[v] = 0
    BY <1>1 DEF Undisturbed, CountedOnce, TypeOK, PCs, PersistEnds, Pending
  <2>4. Total(rest, reservation) = 0
    BY <2>3, TotalZero
  <2>5. \A v \in Pending \cup rest : reservation[v] \in Nat
    BY <1>1, <2>1
  <2> HIDE DEF rest
  <2>6. Total(Pending \cup rest, reservation) = Total(Pending, reservation) + Total(rest, reservation)
    BY <2>1, <2>2, <2>5, TotalUnion
  <2>7. Total(Pending, reservation) \in Nat
    BY <1>1, CapacityNumbers DEF Sums
  <2> QED
    BY <2>1, <2>4, <2>6, <2>7
<1>4. PICK held \in Nat : held = Total(Uploads, reservation)
  BY <1>1 DEF Numbers
<1>5. PICK used \in Nat : used = UsedBytes(records, orphans)
  BY <1>1 DEF Numbers
<1>6. /\ held + Owed <= reservedBytes /\ reservedBytes <= held + Owed
      /\ used + held + Owed <= MaxStorageBytes
  BY <1>1, <1>2, <1>3, <1>4, <1>5 DEF LedgerCovers, Undisturbed, LedgerBalanced, Within, Owed
<1>7. Owed \in Nat /\ reservedBytes \in Nat /\ MaxStorageBytes \in Nat
  BY <1>1, ServiceAssumption DEF Numbers, Debts, TypeOK
<1>8. ASSUME NEW u \in Uploads
      PROVE  reservation[u] <= held /\ reservation[u] \in Nat
  <2> DEFINE others == Uploads \ {u}
  <2>1. Total(Uploads, reservation) = Total(others, reservation) + reservation[u]
    BY <1>1, HeldSplit
  <2>2. others \in SUBSET Uploads
    OBVIOUS
  <2> HIDE DEF others
  <2>3. Total(others, reservation) \in Nat /\ reservation[u] \in Nat
    BY <1>1, <2>2, HeldTotals
  <2> QED
    BY <1>4, <2>1, <2>3
<1>9. /\ used + reservedBytes <= MaxStorageBytes /\ Owed <= reservedBytes
      /\ held <= reservedBytes
  BY <1>6, <1>7
<1> QED
  BY <1>5, <1>7, <1>8, <1>9

\* And so persist has room for content that a reservation covers.
LEMMA CoveredFits ==
  ASSUME TusCapacity, Undisturbed, NEW id \in Ids, NEW reserved \in Nat,
         Size[id] <= reserved, reserved <= reservedBytes
  PROVE  Fits(id, reserved, Cleaned(Image))
<1> DEFINE m == Cleaned(Image)
<1>1. TypeOK
  BY DEF TusCapacity, TusInv, TusTypeOK
<1>2. DOMAIN m.records \subseteq DOMAIN records /\ m.orphans \subseteq orphans
  BY <1>1, ImageFacts, CleanupShrinks DEF Outcomes, Shrinks
<1> HIDE DEF m
<1>3. /\ UsedBytes(m.records, m.orphans) <= UsedBytes(records, orphans)
      /\ UsedBytes(m.records, m.orphans) \in Nat
  BY <1>1, <1>2, UsedShrinks
<1>4. /\ UsedBytes(records, orphans) + reservedBytes <= MaxStorageBytes
      /\ UsedBytes(records, orphans) \in Nat /\ reservedBytes \in Nat
      /\ Size[id] \in Nat /\ MaxStorageBytes \in Nat
  BY ReservedFit, ServiceAssumption
<1>5. Fits(id, reserved, m)
  BY <1>3, <1>4 DEF Fits
<1> QED
  BY <1>5 DEF m

LEMMA CallStored ==
  ASSUME TusCapacity, Received, Undisturbed, NEW c \in Calls, FinishPersist(c),
         call[c].t \notin leftover
  PROVE  call'[c].at = "persisted"
<1>1. /\ TusInv /\ TusTypeOK /\ TypeOK /\ CallsOK /\ Owned /\ call[c].at = "checked" /\ healthy
  BY DEF TusCapacity, TusInv, TusTypeOK, FinishPersist, Undisturbed
<1>2. PICK t \in Sessions : t = call[c].t
  BY <1>1, CallFacts
<1>3. PICK id \in Ids : id = sent[t]
  BY <1>1, <1>2, SentFacts DEF TusInv
<1>4. PICK n \in Nat : n = Length[t]
  BY <1>2, LengthFacts
<1>5. n = Size[id]
  BY <1>2, <1>3, <1>4 DEF Length
<1>6. t \in Owing
  <2>1. info[t] = "whole"
    BY <1>1, <1>2 DEF Owned, Working
  <2> QED
    BY <1>1, <1>2, <2>1, OwingOwned DEF OwesAt, Off
<1>7. n <= reservedBytes
  <2>1. PICK S \in SUBSET Sessions : S = Owing
    BY DEF Owing
  <2>2. PICK T \in SUBSET S : T = S \ {t}
    OBVIOUS
  <2>3. t \in S /\ T \in SUBSET Sessions
    BY <1>6, <2>1, <2>2
  <2>4. Total(S \ {t}, Length) = Total(S, Length) - Length[t]
    BY <2>3, OwesOthers
  <2>5. Total(T, Length) \in Nat /\ Total(S, Length) \in Nat
    BY <2>1, <2>3, LengthFacts, LengthTotals
  <2>6. n <= Total(S, Length)
    BY <1>4, <2>2, <2>4, <2>5
  <2>7. Total(S, Length) <= reservedBytes /\ reservedBytes \in Nat
    BY <2>1, ReservedFit DEF Owed
  <2> QED
    BY <2>5, <2>6, <2>7
<1>8. Size[id] <= n
  BY <1>5
<1>9. Fits(id, n, Cleaned(Image))
  BY <1>7, <1>8, CoveredFits
<1>10. Fits(sent[call[c].t], Length[call[c].t], Cleaned(Image))
  BY <1>2, <1>3, <1>4, <1>9
<1>11. bin[call[c].t] >= 0 /\ bin[call[c].t] \in Int
  BY <1>1, <1>2 DEF Received, TusTypeOK, FilesOK
<1>12. Goes(c, "persisted")
  <2>1. PICK how \in PersistEnds :
          /\ Persist(sent[call[c].t], Length[call[c].t], Cleaned(Image), how)
          /\ Goes(c, IF how \in {"duplicate", "stored"} THEN "persisted" ELSE "failing")
    BY <1>1, <1>11 DEF FinishPersist, CleanupFails
  <2>2. how \in {"duplicate", "stored"}
    BY <1>1, <1>10, <2>1 DEF Persist
  <2> QED
    BY <2>1, <2>2
<1> QED
  BY <1>1, <1>12 DEF CallsOK, Goes

LEMMA UploadStored ==
  ASSUME TusCapacity, Staging, Undisturbed, NEW u \in Uploads, UploadPersist(u)
  PROVE  pc'[u] \in {"duplicate", "stored"}
<1>1. TypeOK /\ pc[u] = "received" /\ healthy /\ up
  BY DEF TusCapacity, TusInv, TusTypeOK, UploadPersist, Undisturbed
<1>2. PICK id \in Ids : id = content[u]
  BY <1>1 DEF TypeOK
<1>3. PICK n \in Nat : n = reservation[u]
  BY <1>1 DEF TypeOK
<1>4. Size[id] <= n
  BY <1>1, <1>2, <1>3 DEF Staging, Covered
<1>5. n <= reservedBytes
  BY <1>3, ReservedFit
<1>6. Fits(id, n, Cleaned(Image))
  BY <1>4, <1>5, CoveredFits
<1>7. Fits(content[u], reservation[u], Cleaned(Image))
  BY <1>2, <1>3, <1>6
<1>8. PICK how \in PersistEnds :
        /\ Persist(content[u], reservation[u], Cleaned(Image), how)
        /\ pc' = [pc EXCEPT ![u] = how]
  BY <1>1 DEF UploadPersist, CleanupFails
<1>9. how \in {"duplicate", "stored"}
  BY <1>1, <1>7, <1>8 DEF Persist
<1> QED
  BY <1>1, <1>8, <1>9 DEF TypeOK

\* Where requests and the reaper never meet at one upload, persist does not refuse what
\* an upload of either kind has reserved, sent and had checked, while nothing fails, the
\* ledger holds what is owed and nothing else, and no bytes are counted twice.
THEOREM TusReceivedStored == ~Overlap => (TusSpec => ReceivedStored)
<1> SUFFICES ASSUME ~Overlap
             PROVE  TusSpec => ReceivedStored
  OBVIOUS
<1> DEFINE Stores ==
      healthy /\ up' /\ Within /\ LedgerCovers /\ LedgerBalanced /\ CountedOnce =>
        /\ \A c \in Calls :
             call[c].at = "checked" /\ call[c].t \notin leftover /\ call'[c] # call[c]
               => call'[c].at = "persisted"
        /\ \A u \in Uploads :
             pc[u] = "received" /\ pc'[u] # pc[u] => pc'[u] \in {"duplicate", "stored"}
<1>1. TusInit => Received /\ Staging
  BY DEF TusInit, Init, Received, Staging, Idle, Call
<1>2. /\ TusCapacity /\ TusCapacity' /\ Received /\ Staging /\ [TusNext]_allVars
           => Received' /\ Staging'
  BY NextReceived, NextTusStaging DEF TusCapacity
<1>3. ASSUME TusCapacity, Received, Staging, [TusNext]_allVars
      PROVE  Stores
  <2> SUFFICES ASSUME healthy, up', Within, LedgerCovers, LedgerBalanced,
                      CountedOnce
               PROVE  /\ \A c \in Calls : call[c].at = "checked" /\ call[c].t \notin leftover
                                              /\ call'[c] # call[c]
                                            => call'[c].at = "persisted"
                      /\ \A u \in Uploads : pc[u] = "received" /\ pc'[u] # pc[u]
                                              => pc'[u] \in {"duplicate", "stored"}
    OBVIOUS
  <2>1. TusInv /\ TusTypeOK /\ TypeOK
    BY <1>3 DEF TusCapacity, TusInv, TusTypeOK
  <2>2. ASSUME NEW c \in Calls, call[c].at = "checked", call[c].t \notin leftover, call'[c] # call[c]
        PROVE  call'[c].at = "persisted"
    <3>1. up
      BY <2>1, <2>2, CallFacts
    <3>2. Undisturbed
      BY <3>1 DEF Undisturbed
    <3>3. FinishPersist(c)
      BY <1>3, <2>1, <2>2, OnlyPersists
    <3> QED
      BY <1>3, <2>2, <3>2, <3>3, CallStored
  <2>3. ASSUME NEW u \in Uploads, pc[u] = "received", pc'[u] # pc[u]
        PROVE  pc'[u] \in {"duplicate", "stored"}
    <3>1. up
      BY <2>1, <2>3 DEF TypeOK
    <3>2. Undisturbed
      BY <3>1 DEF Undisturbed
    <3>3. UploadPersist(u)
      BY <1>3, <2>1, <2>3, OnlyPersists
    <3> QED
      BY <1>3, <3>2, <3>3, UploadStored
  <2> QED
    BY <2>2, <2>3
<1>4. TusSpec => []TusCapacity
  BY TusCapacityCorrect
<1>5. TusCapacity /\ Received /\ Staging /\ [TusNext]_allVars => [Stores]_allVars
  BY <1>3
<1> QED
  BY <1>1, <1>2, <1>4, <1>5, PTL DEF TusSpec, ReceivedStored
=============================================================================
