------------------------------ MODULE FileHost ------------------------------
(***************************************************************************)
(* What a client of the file host may rely on, without its disk, index,    *)
(* orphans, ledger or requests: files that are there until they expire or  *)
(* are deleted, promises that outlive crashes, and a process that loses    *)
(* nothing it has promised when it is restarted.                           *)
(*                                                                         *)
(* Service implements this specification with local storage.               *)
(***************************************************************************)
EXTENDS Integers, FiniteSets, Functions

CONSTANTS Ids, Retention, MaxTime

VARIABLES
  running,       \* the host answers requests
  files,         \* what it serves: created time of each file
  kept,          \* the part of it that clients were promised, with the created
                 \* time the promise was made of
  gone,          \* contents whose deletion was confirmed
  now

vars == <<running, files, kept, gone, now>>

Time == 0 .. MaxTime
Catalogs == UNION {[S -> Time] : S \in SUBSET Ids}
None == [id \in {} |-> 0]

Without(f, S) == Restrict(f, (DOMAIN f) \ S)
With(f, id, t) == [x \in (DOMAIN f) \cup {id} |-> IF x = id THEN t ELSE f[x]]

Old(f) == {id \in DOMAIN f : f[id] + Retention <= now}

Init == /\ running = FALSE /\ files = None /\ kept = None /\ gone = {}
        /\ now = 0

\* Files leave the host because they have expired; promises end with them.
Expire == \E S \in SUBSET Old(files) :
  /\ running
  /\ files' = Without(files, S) /\ kept' = Without(kept, S)
  /\ UNCHANGED <<running, gone, now>>

\* A new content is stored and promised.  Expired files have left before.
Store == \E id \in Ids :
  /\ running /\ id \notin DOMAIN files \ Old(files)
  /\ files' = With(Without(files, Old(files)), id, now)
  /\ kept' = With(Without(kept, Old(files)), id, now)
  /\ gone' = gone \ {id}
  /\ UNCHANGED <<running, now>>

\* A content that is there is promised again, with the age it has.
Confirm == \E id \in DOMAIN files \ Old(files) :
  /\ running
  /\ files' = Without(files, Old(files))
  /\ kept' = With(Without(kept, Old(files)), id, files[id])
  /\ UNCHANGED <<running, gone, now>>

\* A deletion is confirmed.
Delete == \E S \in (SUBSET DOMAIN files) \ {{}} :
  /\ running
  /\ files' = Without(files, S) /\ kept' = Without(kept, S)
  /\ gone' = gone \cup S
  /\ UNCHANGED <<running, now>>

\* A deletion ends in an error: it may have removed some of the files, and the
\* promises for all of them are void.
DeleteFails == \E S \in (SUBSET DOMAIN files) \ {{}} : \E done \in SUBSET S :
  /\ running
  /\ files' = Without(files, done) /\ kept' = Without(kept, S)
  /\ UNCHANGED <<running, gone, now>>

Crash ==
  /\ running
  /\ running' = FALSE /\ files' = None
  /\ UNCHANGED <<kept, gone, now>>

\* The host comes back with every file it has promised, as old as it was; of the
\* others it may have lost some, and a failed deletion may prove not to have been
\* one.  Nothing comes back whose deletion was confirmed.
Restart ==
  /\ ~running
  /\ running' = TRUE
  /\ kept' = Without(kept, Old(kept))
  /\ files' \in Catalogs
  /\ IsRestriction(kept', files')
  /\ DOMAIN files' \cap gone = {} /\ Old(files') = {}
  /\ UNCHANGED <<gone, now>>

\* A start that ends in an error may have removed expired files.
RestartFails == \E S \in SUBSET Old(kept) :
  /\ ~running
  /\ kept' = Without(kept, S)
  /\ UNCHANGED <<running, files, gone, now>>

Tick ==
  /\ now < MaxTime
  /\ now' = now + 1
  /\ UNCHANGED <<running, files, kept, gone>>

Next == Expire \/ Store \/ Confirm \/ Delete \/ DeleteFails
          \/ Crash \/ Restart \/ RestartFails \/ Tick

Spec == Init /\ [][Next]_vars
=============================================================================
