----------------------------- MODULE AuthProofs -----------------------------
(***************************************************************************)
(* Theorems of Auth, for every set of clients and requests, every limit    *)
(* and every window: the types with the cap of the table, what a client    *)
(* can get recorded, when it is let in again, what ends a lockout, and     *)
(* what a session rests on.                                                *)
(***************************************************************************)
EXTENDS Auth, FiniteSetTheorems, TLAPS

Entries == [first : Time, attempts : Nat \ {0}]
Tested  == [client : Clients, kind : {"login", "upload"}, began : Time]

IsTable(t) == DOMAIN t \subseteq Clients /\ t \in [DOMAIN t -> Entries]

\* The shapes of the variables that AuthTypeOK describes field by field.
Shapes ==
  /\ IsTable(failures)
  /\ DOMAIN req \subseteq Requests /\ req \in [DOMAIN req -> Tested]
  /\ cookie \in [key : Nat, expires : Nat]

\* What the two clocks of a refused client owe to each other: its entry and its
\* requests in flight are not younger than the refusal.
Waiting ==
  \A c \in Clients : refused[c] >= 0 =>
    /\ c \in DOMAIN failures => failures[c].first <= refused[c]
    /\ \A r \in Testing(c) : req[r].began <= refused[c]

\* A cookie signed by this process comes from a login to it.
Issued == cookie.key = process => loggedIn >= 0 /\ cookie.expires <= loggedIn + SessionTTL

AuthInv == AuthTypeOK /\ Shapes /\ AttemptsBounded /\ Waiting /\ Issued

----------------------------------------------------------------------------
(* The operators on the table.                                             *)

\* Pruning keeps entries as they are and drops only those whose window is over.
LEMMA PrunedFacts ==
  ASSUME IsTable(failures), NEW time \in Time
  PROVE  /\ IsTable(Pruned(time))
         /\ DOMAIN Pruned(time) \subseteq DOMAIN failures
         /\ \A c \in DOMAIN Pruned(time) : Pruned(time)[c] = failures[c]
         /\ \A c \in DOMAIN failures \ DOMAIN Pruned(time) :
              failures[c].first + FailureWindow <= time
<1> DEFINE P == {c \in DOMAIN failures : time - failures[c].first < FailureWindow}
<1>1. DOMAIN Pruned(time) = P /\ \A c \in P : Pruned(time)[c] = failures[c]
  BY DEF Pruned, Restrict
<1>2. Pruned(time) \in [P -> Entries]
  BY DEF Pruned, Restrict, IsTable
<1>3. \A c \in DOMAIN failures \ P : failures[c].first + FailureWindow <= time
  BY AuthAssumption DEF IsTable, Entries, Time
<1> QED
  BY <1>1, <1>2, <1>3 DEF IsTable

\* Dropping an entry leaves the others.
LEMMA WithoutFacts ==
  ASSUME NEW t, IsTable(t), NEW c
  PROVE  /\ IsTable(Without(t, c)) /\ DOMAIN Without(t, c) = DOMAIN t \ {c}
         /\ \A d \in DOMAIN t \ {c} : Without(t, c)[d] = t[d]
BY DEF IsTable, Without, Restrict

\* Counting an attempt changes one entry, or adds it.
LEMMA CountedFacts ==
  ASSUME NEW t, IsTable(t), NEW c \in Clients, NEW time \in Time
  PROVE  /\ IsTable(Counted(t, c, time)) /\ DOMAIN Counted(t, c, time) = DOMAIN t \cup {c}
         /\ \A d \in DOMAIN t \ {c} : Counted(t, c, time)[d] = t[d]
         /\ c \in DOMAIN t => /\ Counted(t, c, time)[c].first = t[c].first
                              /\ Counted(t, c, time)[c].attempts = t[c].attempts + 1
         /\ c \notin DOMAIN t => /\ Counted(t, c, time)[c].first = time
                                 /\ Counted(t, c, time)[c].attempts = 1
<1> DEFINE entry == IF c \in DOMAIN t THEN [t[c] EXCEPT !.attempts = @ + 1]
                    ELSE [first |-> time, attempts |-> 1]
           new   == [x \in DOMAIN t \cup {c} |-> IF x = c THEN entry ELSE t[x]]
<1>1. Counted(t, c, time) = new
  BY DEF Counted
<1>2. CASE c \in DOMAIN t
  <2>1. t[c] \in Entries
    BY <1>2 DEF IsTable
  <2>2. /\ entry = [t[c] EXCEPT !.attempts = @ + 1] /\ entry \in Entries
        /\ entry.first = t[c].first /\ entry.attempts = t[c].attempts + 1
    BY <1>2, <2>1 DEF Entries
  <2>3. new \in [DOMAIN t \cup {c} -> Entries]
    BY <2>2 DEF IsTable
  <2> HIDE DEF entry
  <2> QED
    BY <1>1, <1>2, <2>2, <2>3 DEF IsTable
<1>3. CASE c \notin DOMAIN t
  <2>1. entry = [first |-> time, attempts |-> 1] /\ entry \in Entries
    BY <1>3 DEF Entries
  <2>2. new \in [DOMAIN t \cup {c} -> Entries]
    BY <2>1 DEF IsTable
  <2> HIDE DEF entry
  <2> QED
    BY <1>1, <1>3, <2>1, <2>2 DEF IsTable
<1> QED
  BY <1>2, <1>3

\* A set of clients is finite, and so is a set of requests.
LEMMA FiniteParts ==
  /\ \A S \in SUBSET Clients : IsFiniteSet(S) /\ Cardinality(S) \in Nat
  /\ \A S \in SUBSET Requests : /\ IsFiniteSet(S) /\ Cardinality(S) \in Nat
                                /\ Cardinality(S) <= Cardinality(Requests)
BY AuthAssumption, FS_Subset, FS_CardinalityType

\* What FailedAttempt makes of the table: within the cap, one attempt more for the
\* client or a first one, and nobody else changed but for windows that are over and
\* one oldest entry of a full table.
LEMMA AfterFailureFacts ==
  ASSUME IsTable(failures), Cardinality(DOMAIN failures) <= MaxClients,
         NEW c \in Clients, NEW time \in Time, NEW t \in AfterFailure(c, time)
  PROVE  /\ IsTable(t) /\ Cardinality(DOMAIN t) <= MaxClients /\ c \in DOMAIN t
         /\ \/ /\ c \in DOMAIN failures /\ t[c].first = failures[c].first
               /\ t[c].attempts = failures[c].attempts + 1
            \/ /\ c \in DOMAIN failures => failures[c].first + FailureWindow <= time
               /\ t[c].first = time /\ t[c].attempts = 1
         /\ \A d \in DOMAIN t \ {c} : d \in DOMAIN failures /\ t[d] = failures[d]
         /\ \A d \in DOMAIN failures \ DOMAIN t :
              \/ failures[d].first + FailureWindow <= time
              \/ /\ Cardinality(DOMAIN failures) = MaxClients
                 /\ \A e \in DOMAIN failures : failures[d].first <= failures[e].first
<1> DEFINE table == Pruned(time)
<1>1. /\ IsTable(table) /\ DOMAIN table \subseteq DOMAIN failures
      /\ \A d \in DOMAIN table : table[d] = failures[d]
      /\ \A d \in DOMAIN failures \ DOMAIN table : failures[d].first + FailureWindow <= time
  BY PrunedFacts
<1>2. /\ IsFiniteSet(DOMAIN table) /\ Cardinality(DOMAIN table) \in Nat
      /\ IsFiniteSet(DOMAIN failures) /\ Cardinality(DOMAIN failures) \in Nat
      /\ Cardinality(DOMAIN table) <= Cardinality(DOMAIN failures)
      /\ Cardinality(DOMAIN table) = Cardinality(DOMAIN failures) => DOMAIN table = DOMAIN failures
  BY <1>1, FiniteParts, FS_Subset DEF IsTable
<1>3. MaxClients \in Nat
  BY AuthAssumption
<1> HIDE DEF table
<1>4. CASE c \in DOMAIN table \/ Cardinality(DOMAIN table) < MaxClients
  <2>1. t = Counted(table, c, time)
    BY <1>4 DEF AfterFailure, table
  <2>2. Cardinality(DOMAIN table \cup {c}) <= MaxClients
    <3>1. CASE c \in DOMAIN table
      <4>1. DOMAIN table \cup {c} = DOMAIN table
        BY <3>1
      <4> QED
        BY <4>1, <1>2, <1>3
    <3>2. CASE c \notin DOMAIN table
      <4>1. Cardinality(DOMAIN table \cup {c}) = Cardinality(DOMAIN table) + 1
        BY <3>2, <1>2, FS_AddElement
      <4> QED
        BY <4>1, <3>2, <1>2, <1>3, <1>4
    <3> QED
      BY <3>1, <3>2
  <2>3. /\ IsTable(t) /\ DOMAIN t = DOMAIN table \cup {c}
        /\ \A d \in DOMAIN table \ {c} : t[d] = table[d]
        /\ c \in DOMAIN table => /\ t[c].first = table[c].first
                                 /\ t[c].attempts = table[c].attempts + 1
        /\ c \notin DOMAIN table => t[c].first = time /\ t[c].attempts = 1
    <3> DEFINE one == Counted(table, c, time)
    <3>1. IsTable(one) /\ DOMAIN one = DOMAIN table \cup {c}
      BY <1>1, CountedFacts
    <3>2. \A d \in DOMAIN table \ {c} : one[d] = table[d]
      BY <1>1, CountedFacts
    <3>3. ASSUME c \in DOMAIN table
          PROVE  one[c].first = table[c].first /\ one[c].attempts = table[c].attempts + 1
      BY <1>1, <3>3, CountedFacts
    <3>4. ASSUME c \notin DOMAIN table PROVE  one[c].first = time /\ one[c].attempts = 1
      BY <3>4 DEF Counted
    <3>5. t = one
      BY <2>1
    <3> HIDE DEF one
    <3> QED
      BY <3>1, <3>2, <3>3, <3>4, <3>5
  <2> QED
    BY <1>1, <2>2, <2>3
<1>5. CASE c \notin DOMAIN table /\ ~(Cardinality(DOMAIN table) < MaxClients)
  <2>1. PICK old \in Oldest(table) : t = Counted(Without(table, old), c, time)
    BY <1>5 DEF AfterFailure, table
  <2>2. /\ DOMAIN table = DOMAIN failures /\ Cardinality(DOMAIN failures) = MaxClients
        /\ old \in DOMAIN failures
        /\ \A e \in DOMAIN failures : failures[old].first <= failures[e].first
    BY <1>1, <1>2, <1>3, <1>5 DEF Oldest
  <2>3. /\ IsTable(Without(table, old)) /\ DOMAIN Without(table, old) = DOMAIN table \ {old}
        /\ \A d \in DOMAIN table \ {old} : Without(table, old)[d] = table[d]
    BY <1>1, WithoutFacts
  <2>4. /\ IsTable(t) /\ DOMAIN t = (DOMAIN table \ {old}) \cup {c}
        /\ \A d \in (DOMAIN table \ {old}) \ {c} : t[d] = Without(table, old)[d]
        /\ t[c].first = time /\ t[c].attempts = 1
    BY <2>1, <2>3, <1>5, CountedFacts
  <2>5. Cardinality(DOMAIN t) <= MaxClients
    <3>1. /\ IsFiniteSet(DOMAIN table \ {old})
          /\ Cardinality(DOMAIN table \ {old}) = Cardinality(DOMAIN table) - 1
      BY <1>2, <2>2, FS_RemoveElement
    <3>2. Cardinality((DOMAIN table \ {old}) \cup {c}) = Cardinality(DOMAIN table \ {old}) + 1
      BY <3>1, <1>5, FS_AddElement
    <3> QED
      BY <3>1, <3>2, <2>2, <2>4, <1>2, <1>3
  <2>6. ~(c \in DOMAIN failures)
    BY <1>5, <2>2
  <2> QED
    BY <1>1, <2>2, <2>3, <2>4, <2>5, <2>6
<1> QED
  BY <1>4, <1>5
----------------------------------------------------------------------------
(* The invariant.                                                          *)

\* A step takes entries away, or leaves them alone.
Fewer(t) == IsTable(t) /\ DOMAIN t \subseteq DOMAIN failures
              /\ \A c \in DOMAIN t : t[c] = failures[c]

\* A step ends requests, or leaves them alone.
Ends(q) == /\ DOMAIN q \subseteq DOMAIN req /\ q = [r \in DOMAIN q |-> req[r]]

\* With fewer entries and requests the invariant stays, also when a client is refused
\* now, and when the browser gets a cookie it should have.
LEMMA FewerKeep ==
  ASSUME AuthInv, Fewer(failures'), Ends(req'), UNCHANGED <<process, now>>,
         page' \in {"login", "app"},
         refused' \in [Clients -> Time \cup {-1}],
         \A c \in Clients : refused'[c] >= 0 => refused'[c] \in {refused[c], now},
         loggedIn' \in Time \cup {-1},
         cookie' \in [key : 0 .. process, expires : Nat], Issued'
  PROVE  AuthInv'
<1>1. /\ AuthTypeOK /\ Shapes /\ AttemptsBounded /\ Waiting /\ Issued
      /\ IsTable(failures') /\ DOMAIN failures' \subseteq DOMAIN failures
      /\ \A c \in DOMAIN failures' : failures'[c] = failures[c]
      /\ DOMAIN req' \subseteq DOMAIN req /\ \A r \in DOMAIN req' : req'[r] = req[r]
  BY DEF AuthInv, Fewer, Ends
<1>2. DOMAIN failures' \in SUBSET DOMAIN failures /\ IsFiniteSet(DOMAIN failures)
  BY <1>1, FiniteParts DEF Shapes, IsTable
<1>3. Cardinality(DOMAIN failures') <= Cardinality(DOMAIN failures)
  BY <1>2, FS_Subset
<1>4. Cardinality(DOMAIN failures') \in Nat /\ Cardinality(DOMAIN failures) \in Nat
  BY <1>2, FS_CardinalityType, FS_Subset
<1>5. AuthTypeOK'
  BY <1>1, <1>3, <1>4, AuthAssumption DEF AuthTypeOK
<1>6. Shapes'
  <2>1. req' \in [DOMAIN req' -> Tested]
    BY <1>1 DEF Shapes, Ends
  <2>2. process \in Nat
    BY <1>1, AuthAssumption DEF AuthTypeOK
  <2> QED
    BY <1>1, <2>1, <2>2 DEF Shapes
<1>7. AttemptsBounded'
  <2> SUFFICES ASSUME NEW c \in Clients
               PROVE  (Attempts(c) + Cardinality(Testing(c)) <= MaxFailures - 1 + Cardinality(Requests))'
    BY DEF AttemptsBounded
  <2>1. Testing(c)' \in SUBSET Testing(c) /\ Testing(c) \in SUBSET Requests
    BY <1>1 DEF Testing, Shapes
  <2>2. /\ Cardinality(Testing(c)') <= Cardinality(Testing(c))
        /\ Cardinality(Testing(c)') \in Nat /\ Cardinality(Testing(c)) \in Nat
        /\ Cardinality(Requests) \in Nat
    BY <2>1, FiniteParts, FS_Subset, AuthAssumption, FS_CardinalityType
  <2>3. Attempts(c)' <= Attempts(c) /\ Attempts(c) \in Nat /\ Attempts(c)' \in Nat
    BY <1>1 DEF Attempts, Shapes, IsTable, Entries
  <2>4. Attempts(c) + Cardinality(Testing(c)) <= MaxFailures - 1 + Cardinality(Requests)
    BY <1>1 DEF AttemptsBounded
  <2>5. Attempts(c)' + Cardinality(Testing(c)') <= MaxFailures - 1 + Cardinality(Requests)
    BY <2>2, <2>3, <2>4, AuthAssumption
  <2> QED
    BY <2>5
<1>8. Waiting'
  <2> SUFFICES ASSUME NEW c \in Clients, refused'[c] >= 0
               PROVE  /\ c \in DOMAIN failures' => failures'[c].first <= refused'[c]
                      /\ \A r \in Testing(c)' : req'[r].began <= refused'[c]
    BY DEF Waiting
  <2>1. CASE refused'[c] = refused[c]
    BY <1>1, <2>1 DEF Waiting, Testing
  <2>2. CASE refused'[c] = now
    BY <1>1, <2>2 DEF AuthTypeOK, Testing
  <2> QED
    BY <2>1, <2>2
<1> QED
  BY <1>5, <1>6, <1>7, <1>8 DEF AuthInv

\* The head of a guard: a refusal adds no request, a client let in is below the limit.
LEMMA BeginKeeps ==
  ASSUME AuthInv, NEW r \in Requests, NEW c \in Clients, NEW kind \in {"login", "upload"},
         Begin(r, c, kind)
  PROVE  AuthInv'
<1>1. /\ AuthTypeOK /\ Shapes /\ AttemptsBounded /\ Waiting /\ Issued
      /\ r \notin DOMAIN req /\ failures' = Pruned(now) /\ now \in Time
      /\ UNCHANGED <<process, cookie, page, now, loggedIn>>
  BY DEF AuthInv, Begin, AuthTypeOK
<1>2. /\ IsTable(failures') /\ DOMAIN failures' \subseteq DOMAIN failures
      /\ \A d \in DOMAIN failures' : failures'[d] = failures[d]
  BY <1>1, PrunedFacts DEF Shapes
<1>3. Fewer(failures')
  BY <1>2 DEF Fewer
<1>4. /\ page' \in {"login", "app"} /\ loggedIn' \in Time \cup {-1} /\ Issued'
      /\ cookie' \in [key : 0 .. process, expires : Nat]
      /\ refused \in [Clients -> Time \cup {-1}]
  BY <1>1 DEF AuthTypeOK, Shapes, Issued
<1>5. CASE ~Allowed(c, failures')
  <2>1. req' = req /\ refused' = [refused EXCEPT ![c] = IF @ = -1 THEN now ELSE @]
    BY <1>5 DEF Begin, Told
  <2>2. Ends(req')
    BY <1>1, <2>1 DEF Ends, Shapes
  <2>3. /\ refused' \in [Clients -> Time \cup {-1}]
        /\ \A d \in Clients : refused'[d] >= 0 => refused'[d] \in {refused[d], now}
    BY <1>1, <1>4, <2>1
  <2> QED
    BY <1>1, <1>3, <1>4, <2>2, <2>3, FewerKeep
<1>6. CASE Allowed(c, failures')
  <2> DEFINE q == [client |-> c, kind |-> kind, began |-> now]
  <2>1. req' = LetIn(r, q) /\ refused' = [refused EXCEPT ![c] = -1]
    BY <1>6 DEF Begin
  <2>2. /\ DOMAIN req' = DOMAIN req \cup {r} /\ req'[r] = q
        /\ \A p \in DOMAIN req : req'[p] = req[p]
    BY <1>1, <2>1 DEF LetIn
  <2>3. q \in Tested
    BY <1>1 DEF Tested
  <2>4. req' \in [DOMAIN req' -> Tested]
    <3> HIDE DEF q
    <3>1. \A p \in DOMAIN req \cup {r} : (IF p = r THEN q ELSE req[p]) \in Tested
      BY <1>1, <2>3 DEF Shapes
    <3> QED
      BY <2>1, <3>1 DEF LetIn
  <2>5. Shapes'
    BY <1>1, <1>2, <2>2, <2>4 DEF Shapes
  <2>6. AuthTypeOK'
    <3>1. Cardinality(DOMAIN failures') <= Cardinality(DOMAIN failures)
      BY <1>1, <1>2, FiniteParts, FS_Subset DEF Shapes, IsTable
    <3>2. Cardinality(DOMAIN failures') \in Nat /\ Cardinality(DOMAIN failures) \in Nat
      BY <1>1, <1>2, FiniteParts DEF Shapes, IsTable
    <3>3. Cardinality(DOMAIN failures') <= MaxClients
      BY <1>1, <3>1, <3>2, AuthAssumption DEF AuthTypeOK
    <3>4. /\ DOMAIN failures' \subseteq Clients
          /\ \A d \in DOMAIN failures' : /\ failures'[d].first \in 0 .. now'
                                         /\ failures'[d].attempts \in Nat \ {0}
      BY <1>1, <1>2 DEF AuthTypeOK
    <3>5. \A p \in DOMAIN req' : /\ req'[p].client \in Clients /\ req'[p].began \in 0 .. now'
                                 /\ req'[p].kind \in {"login", "upload"}
      <4>1. /\ q.client \in Clients /\ q.began \in 0 .. now /\ q.kind \in {"login", "upload"}
        BY <1>1 DEF Time
      <4> QED
        BY <1>1, <2>2, <4>1 DEF AuthTypeOK
    <3>6. refused' \in [Clients -> Time \cup {-1}] /\ DOMAIN req' \subseteq Requests
      BY <1>1, <1>4, <2>1, <2>2 DEF Shapes
    <3> QED
      BY <1>1, <3>3, <3>4, <3>5, <3>6 DEF AuthTypeOK
  <2>7. AttemptsBounded'
    <3> SUFFICES ASSUME NEW d \in Clients
                 PROVE  Attempts(d)' + Cardinality(Testing(d)') <= MaxFailures - 1 + Cardinality(Requests)
      BY DEF AttemptsBounded
    <3>1. Testing(d)' \in SUBSET Requests /\ Testing(d) \in SUBSET Requests
      BY <1>1, <2>5 DEF Testing, Shapes
    <3>2. /\ Cardinality(Testing(d)') \in Nat /\ Cardinality(Testing(d)') <= Cardinality(Requests)
          /\ Cardinality(Testing(d)) \in Nat /\ Cardinality(Requests) \in Nat
      BY <3>1, FiniteParts
    <3>3. Attempts(d) \in Nat /\ Attempts(d)' \in Nat /\ Attempts(d)' <= Attempts(d)
      BY <1>1, <1>2 DEF Attempts, Shapes, IsTable, Entries
    <3>4. CASE d = c
      <4>1. Attempts(d)' <= MaxFailures - 1
        BY <1>2, <1>6, <3>3, <3>4, AuthAssumption DEF Attempts, Allowed, IsTable, Entries
      <4> QED
        BY <3>2, <3>3, <4>1, AuthAssumption
    <3>5. CASE d # c
      <4>1. q.client = c
        OBVIOUS
      <4>2. Testing(d)' = Testing(d)
        BY <1>1, <2>2, <3>5, <4>1 DEF Testing
      <4>3. Attempts(d) + Cardinality(Testing(d)) <= MaxFailures - 1 + Cardinality(Requests)
        BY <1>1 DEF AttemptsBounded
      <4> QED
        BY <3>2, <3>3, <4>2, <4>3, AuthAssumption
    <3> QED
      BY <3>4, <3>5
  <2>8. Waiting'
    <3> SUFFICES ASSUME NEW d \in Clients, refused'[d] >= 0
                 PROVE  /\ d \in DOMAIN failures' => failures'[d].first <= refused'[d]
                        /\ \A p \in Testing(d)' : req'[p].began <= refused'[d]
      BY DEF Waiting
    <3>1. d # c /\ refused'[d] = refused[d]
      BY <1>4, <2>1
    <3>2. q.client = c
      OBVIOUS
    <3>3. Testing(d)' = Testing(d)
      BY <1>1, <2>2, <3>1, <3>2 DEF Testing
    <3> QED
      BY <1>1, <1>2, <2>2, <3>1, <3>3 DEF Waiting, Testing
  <2> QED
    BY <1>4, <2>5, <2>6, <2>7, <2>8 DEF AuthInv
<1> QED
  BY <1>5, <1>6

\* A request that ends leaves the others.
LEMMA DoneEnds ==
  ASSUME Shapes, NEW r \in DOMAIN req, Done(r)
  PROVE  /\ Ends(req') /\ DOMAIN req' = DOMAIN req \ {r}
         /\ \A p \in DOMAIN req \ {r} : req'[p] = req[p]
<1>1. DOMAIN req' = DOMAIN req \ {r} /\ \A p \in DOMAIN req \ {r} : req'[p] = req[p]
  BY DEF Done, Without, Restrict
<1>2. req' = [p \in DOMAIN req \ {r} |-> req[p]]
  BY DEF Done, Without, Restrict
<1> QED
  BY <1>1, <1>2 DEF Ends

\* A wrong password: one attempt more on the table, one request less in flight; and
\* what it records is not younger than the request.
LEMMA WrongKeeps ==
  ASSUME AuthInv, NEW r \in Requests, Wrong(r)
  PROVE  AuthInv'
<1> DEFINE c == req[r].client
           time == req[r].began
<1>1. /\ AuthTypeOK /\ Shapes /\ AttemptsBounded /\ Waiting /\ Issued
      /\ r \in DOMAIN req /\ failures' \in AfterFailure(c, time) /\ Done(r)
      /\ UNCHANGED <<process, cookie, page, now, loggedIn>>
      /\ refused' \in {refused, Told(c)}
  BY DEF AuthInv, Wrong
<1>2. c \in Clients /\ time \in Time /\ time <= now /\ now \in Time
  <2>1. c \in Clients /\ time \in 0 .. now /\ now \in Time
    BY <1>1 DEF AuthTypeOK
  <2> QED
    BY <2>1, AuthAssumption DEF Time
<1>3. /\ DOMAIN req' = DOMAIN req \ {r} /\ \A p \in DOMAIN req \ {r} : req'[p] = req[p]
      /\ req' = [p \in DOMAIN req' |-> req[p]]
  BY <1>1, DoneEnds DEF Ends
<1> HIDE DEF c, time
<1>4. Cardinality(DOMAIN failures) <= MaxClients
  BY <1>1 DEF AuthTypeOK
<1>5. IsTable(failures') /\ Cardinality(DOMAIN failures') <= MaxClients /\ c \in DOMAIN failures'
  BY <1>1, <1>2, <1>4, AfterFailureFacts DEF Shapes
<1>6. \/ /\ c \in DOMAIN failures /\ failures'[c].first = failures[c].first
         /\ failures'[c].attempts = failures[c].attempts + 1
      \/ failures'[c].first = time /\ failures'[c].attempts = 1
  BY <1>1, <1>2, <1>4, AfterFailureFacts DEF Shapes
<1>7. \A d \in DOMAIN failures' \ {c} : d \in DOMAIN failures /\ failures'[d] = failures[d]
  BY <1>1, <1>2, <1>4, AfterFailureFacts DEF Shapes
<1>8. /\ refused' \in [Clients -> Time \cup {-1}]
       /\ \A d \in Clients : refused'[d] >= 0 => refused'[d] \in {refused[d], now}
  BY <1>1, <1>2 DEF AuthTypeOK, Told
<1>9. Shapes'
  <2>1. req' \in [DOMAIN req' -> Tested] /\ DOMAIN req' \subseteq Requests
    BY <1>1, <1>3 DEF Shapes
  <2> QED
    BY <1>1, <1>5, <2>1 DEF Shapes
<1>10. AuthTypeOK'
  <2>1. \A d \in DOMAIN failures' : /\ failures'[d].first \in 0 .. now
                                    /\ failures'[d].attempts \in Nat \ {0}
    <3>1. \A d \in DOMAIN failures' : failures'[d].first \in Nat /\ failures'[d].attempts \in Nat \ {0}
      BY <1>5 DEF IsTable, Entries, Time
    <3>2. \A d \in DOMAIN failures' : failures'[d].first <= now
      BY <1>1, <1>2, <1>6, <1>7 DEF AuthTypeOK
    <3> QED
      BY <3>1, <3>2, <1>2 DEF Time
  <2>2. \A p \in DOMAIN req' : /\ req'[p].client \in Clients /\ req'[p].began \in 0 .. now
                               /\ req'[p].kind \in {"login", "upload"}
    BY <1>1, <1>3 DEF AuthTypeOK
  <2> QED
    BY <1>1, <1>5, <1>8, <1>9, <2>1, <2>2 DEF AuthTypeOK, Shapes, IsTable
<1>11. AttemptsBounded'
  <2> SUFFICES ASSUME NEW d \in Clients
               PROVE  Attempts(d)' + Cardinality(Testing(d)') <= MaxFailures - 1 + Cardinality(Requests)
    BY DEF AttemptsBounded
  <2>1. Testing(d) \in SUBSET Requests /\ Testing(d)' = Testing(d) \ {r}
    BY <1>1, <1>3 DEF Testing, Shapes
  <2>2. /\ Cardinality(Testing(d)) \in Nat /\ IsFiniteSet(Testing(d))
        /\ Cardinality(Testing(d)) <= Cardinality(Requests) /\ Cardinality(Requests) \in Nat
    BY <2>1, FiniteParts
  <2>3. Attempts(d) \in Nat /\ Attempts(d)' \in Nat
    BY <1>1, <1>5 DEF Attempts, Shapes, IsTable, Entries
  <2>4. Attempts(d) + Cardinality(Testing(d)) <= MaxFailures - 1 + Cardinality(Requests)
    BY <1>1 DEF AttemptsBounded
  <2>5. CASE d = c
    <3>1. r \in Testing(d)
      BY <1>1, <2>5 DEF Testing, c
    <3>2. Cardinality(Testing(d)') = Cardinality(Testing(d)) - 1
      BY <2>1, <2>2, <3>1, FS_RemoveElement
    <3>3. Attempts(d)' = Attempts(d) + 1 \/ Attempts(d)' = 1
      BY <1>5, <1>6, <2>5 DEF Attempts
    <3> QED
      BY <2>2, <2>3, <2>4, <3>2, <3>3, AuthAssumption
  <2>6. CASE d # c
    <3>1. r \notin Testing(d)
      BY <2>6 DEF Testing, c
    <3>2. Testing(d)' = Testing(d)
      BY <2>1, <3>1
    <3>3. Attempts(d)' <= Attempts(d)
      BY <1>7, <2>3, <2>6 DEF Attempts
    <3> QED
      BY <2>2, <2>3, <2>4, <3>2, <3>3, AuthAssumption
  <2> QED
    BY <2>5, <2>6
<1>12. Waiting'
  <2> SUFFICES ASSUME NEW d \in Clients, refused'[d] >= 0
               PROVE  /\ d \in DOMAIN failures' => failures'[d].first <= refused'[d]
                      /\ \A p \in Testing(d)' : req'[p].began <= refused'[d]
    BY DEF Waiting
  <2>1. CASE refused'[d] = now
    <3>1. /\ \A e \in DOMAIN failures' : failures'[e].first <= now
          /\ \A p \in DOMAIN req' : req'[p].began <= now
      BY <1>1, <1>10 DEF AuthTypeOK
    <3> QED
      BY <2>1, <3>1 DEF Testing
  <2>2. CASE refused'[d] = refused[d]
    <3>1. /\ d \in DOMAIN failures => failures[d].first <= refused[d]
          /\ \A p \in Testing(d) : req[p].began <= refused[d]
      BY <1>1, <2>2 DEF Waiting
    <3>2. \A p \in Testing(d)' : req'[p].began <= refused[d]
      BY <1>3, <3>1 DEF Testing
    <3>3. CASE d = c
      <4>1. r \in Testing(d)
        BY <1>1, <3>3 DEF Testing, c
      <4>2. time <= refused[d]
        BY <3>1, <4>1 DEF time
      <4> QED
        BY <1>6, <2>2, <3>1, <3>2, <3>3, <4>2
    <3>4. CASE d # c
      BY <1>7, <2>2, <3>1, <3>2, <3>4
    <3> QED
      BY <3>3, <3>4
  <2> QED
    BY <1>8, <2>1, <2>2
<1>13. Issued'
  BY <1>1 DEF Issued
<1> QED
  BY <1>9, <1>10, <1>11, <1>12, <1>13 DEF AuthInv

\* The right password, or a form that is none: the client's entry goes, or nothing
\* does, and a login brings a cookie that lasts no longer than it should.
LEMMA EndingKeeps ==
  ASSUME AuthInv, NEW r \in Requests, Malformed(r) \/ LogIn(r) \/ LetUpload(r)
  PROVE  AuthInv'
<1>1. /\ AuthTypeOK /\ Shapes /\ Issued /\ r \in DOMAIN req /\ Done(r)
      /\ UNCHANGED <<process, page, now, refused>>
  BY DEF AuthInv, Malformed, LogIn, LetUpload
<1>2. Ends(req')
  BY <1>1, DoneEnds
<1>3. Fewer(failures')
  <2>1. failures' = failures \/ failures' = Without(failures, req[r].client)
    BY DEF Malformed, LogIn, LetUpload, ClearAttempts
  <2> DEFINE c == req[r].client
             left == Without(failures, c)
  <2> HIDE DEF c
  <2>2. /\ IsTable(left) /\ DOMAIN left = DOMAIN failures \ {c}
        /\ \A d \in DOMAIN failures \ {c} : left[d] = failures[d]
    BY <1>1, WithoutFacts DEF Shapes
  <2> HIDE DEF left
  <2> QED
    BY <1>1, <2>1, <2>2 DEF Fewer, Shapes, left, c
<1>4. /\ page' \in {"login", "app"} /\ refused' \in [Clients -> Time \cup {-1}]
      /\ \A d \in Clients : refused'[d] >= 0 => refused'[d] \in {refused[d], now}
  BY <1>1 DEF AuthTypeOK
<1>5. CASE Malformed(r) \/ LetUpload(r)
  <2>1. UNCHANGED <<cookie, loggedIn>>
    BY <1>5 DEF Malformed, LetUpload
  <2>2. /\ loggedIn' \in Time \cup {-1} /\ Issued'
        /\ cookie' \in [key : 0 .. process, expires : Nat]
    BY <1>1, <2>1 DEF AuthTypeOK, Shapes, Issued
  <2> QED
    BY <1>1, <1>2, <1>3, <1>4, <2>2, FewerKeep
<1>6. CASE LogIn(r)
  <2>1. /\ cookie' = Cookie(process, req[r].began + SessionTTL)
        /\ loggedIn' = IF loggedIn < req[r].began THEN req[r].began ELSE loggedIn
    BY <1>6 DEF LogIn
  <2>2. req[r].began \in Time /\ loggedIn \in Time \cup {-1} /\ process \in Nat /\ SessionTTL \in Nat
    BY <1>1, AuthAssumption DEF AuthTypeOK, Shapes, Tested
  <2>3. cookie' \in [key : 0 .. process, expires : Nat] /\ loggedIn' \in Time \cup {-1}
    BY <2>1, <2>2 DEF Cookie, Time
  <2>4. loggedIn' >= 0 /\ cookie'.expires <= loggedIn' + SessionTTL
    BY <2>1, <2>2 DEF Cookie, Time
  <2> QED
    BY <1>1, <1>2, <1>3, <1>4, <2>3, <2>4, FewerKeep DEF Issued
<1> QED
  BY <1>5, <1>6

\* The steps of the browser: a cookie is kept or dropped.
LEMMA BrowserKeeps ==
  ASSUME AuthInv, Home \/ Guarded \/ Logout
  PROVE  AuthInv'
<1>1. /\ AuthTypeOK /\ Shapes /\ Issued
      /\ UNCHANGED <<failures, process, req, now, refused, loggedIn>>
      /\ page' \in {"login", "app"} /\ (cookie' = cookie \/ cookie' = NoCookie)
  BY DEF AuthInv, Home, Guarded, Logout
<1>2. Fewer(failures') /\ Ends(req')
  BY <1>1 DEF Fewer, Ends, Shapes
<1>3. cookie' \in [key : 0 .. process, expires : Nat] /\ Issued'
  <2>1. process \in Nat \ {0}
    BY <1>1, AuthAssumption DEF AuthTypeOK
  <2>2. NoCookie \in [key : 0 .. process, expires : Nat] /\ NoCookie.key = 0
    BY <2>1 DEF NoCookie, Cookie
  <2> QED
    BY <1>1, <2>1, <2>2 DEF AuthTypeOK, Shapes, Issued
<1> QED
  BY <1>1, <1>2, <1>3, FewerKeep DEF AuthTypeOK

\* A new process has no failures, no requests and a key of its own.
LEMMA RestartKeeps ==
  ASSUME AuthInv, Restart
  PROVE  AuthInv'
<1>1. /\ AuthTypeOK /\ Shapes
      /\ process < MaxProcesses /\ process' = process + 1
      /\ failures' = Nothing /\ req' = Nothing
      /\ refused' = [c \in Clients |-> -1] /\ loggedIn' = -1
      /\ UNCHANGED <<cookie, page, now>>
  BY DEF AuthInv, Restart
<1>2. DOMAIN failures' = {} /\ DOMAIN req' = {}
  BY <1>1 DEF Nothing
<1>3. process \in Nat \ {0} /\ cookie.key \in 0 .. process
  BY <1>1, AuthAssumption DEF AuthTypeOK
<1>4. Shapes'
  <2>1. Nothing \in [{} -> Entries] /\ Nothing \in [{} -> Tested]
    BY DEF Nothing
  <2> QED
    BY <1>1, <1>2, <2>1 DEF Shapes, IsTable
<1>5. AuthTypeOK'
  <2>1. Cardinality(DOMAIN failures') <= MaxClients
    BY <1>2, FS_EmptySet, AuthAssumption
  <2>2. process' \in 1 .. MaxProcesses /\ cookie'.key \in 0 .. process'
    BY <1>1, <1>3, AuthAssumption
  <2> QED
    BY <1>1, <1>2, <2>1, <2>2 DEF AuthTypeOK
<1>6. AttemptsBounded'
  <2> SUFFICES ASSUME NEW c \in Clients
               PROVE  Attempts(c)' + Cardinality(Testing(c)') <= MaxFailures - 1 + Cardinality(Requests)
    BY DEF AttemptsBounded
  <2>1. Attempts(c)' = 0 /\ Testing(c)' = {}
    BY <1>2 DEF Attempts, Testing
  <2>2. Cardinality(Requests) \in Nat
    BY FiniteParts
  <2> QED
    BY <2>1, <2>2, FS_EmptySet, AuthAssumption
<1>7. Waiting' /\ Issued'
  BY <1>1, <1>3 DEF Waiting, Issued
<1> QED
  BY <1>4, <1>5, <1>6, <1>7 DEF AuthInv

\* The clock moves past nothing that the invariant speaks of.
LEMMA TickKeeps ==
  ASSUME AuthInv, Tick
  PROVE  AuthInv'
<1>1. /\ AuthTypeOK /\ Shapes /\ AttemptsBounded /\ Waiting /\ Issued
      /\ now < MaxTime /\ now' = now + 1
      /\ UNCHANGED <<failures, process, req, cookie, page, refused, loggedIn>>
  BY DEF AuthInv, Tick
<1>2. now \in Nat /\ now' \in Time /\ \A t : t \in 0 .. now => t \in 0 .. now'
  BY <1>1, AuthAssumption DEF AuthTypeOK, Time
<1>3. AuthTypeOK'
  BY <1>1, <1>2 DEF AuthTypeOK
<1>4. Shapes' /\ AttemptsBounded' /\ Waiting' /\ Issued'
  BY <1>1 DEF Shapes, AttemptsBounded, Attempts, Waiting, Testing, Issued
<1> QED
  BY <1>3, <1>4 DEF AuthInv

----------------------------------------------------------------------------
(* Theorems.                                                               *)

\* The invariant holds at the beginning and is kept by every step.
THEOREM AuthCorrect == Spec => []AuthInv
<1>1. Init => AuthInv
  <2> SUFFICES ASSUME Init PROVE AuthInv
    OBVIOUS
  <2>1. DOMAIN failures = {} /\ DOMAIN req = {}
    BY DEF Init, Nothing
  <2>2. failures \in [{} -> Entries] /\ req \in [{} -> Tested]
    BY DEF Init, Nothing
  <2>3. cookie \in [key : Nat, expires : Nat] /\ cookie.key = 0 /\ cookie.expires \in Nat
    BY DEF Init, NoCookie, Cookie
  <2>4. AuthTypeOK
    BY <2>1, <2>3, FS_EmptySet, AuthAssumption DEF Init, AuthTypeOK, Time
  <2>5. AttemptsBounded
    <3> SUFFICES ASSUME NEW c \in Clients
                 PROVE  Attempts(c) + Cardinality(Testing(c)) <= MaxFailures - 1 + Cardinality(Requests)
      BY DEF AttemptsBounded
    <3>1. Attempts(c) = 0 /\ Testing(c) = {}
      BY <2>1 DEF Attempts, Testing
    <3>2. Cardinality(Requests) \in Nat
      BY FiniteParts
    <3> QED
      BY <3>1, <3>2, FS_EmptySet, AuthAssumption
  <2>6. Shapes
    BY <2>1, <2>2, <2>3 DEF Shapes, IsTable
  <2>7. Waiting /\ Issued
    BY <2>1, <2>3 DEF Init, Waiting, Testing, Issued
  <2> QED
    BY <2>4, <2>5, <2>6, <2>7 DEF AuthInv
<1>2. AuthInv /\ [Next]_vars => AuthInv'
  <2> SUFFICES ASSUME AuthInv, [Next]_vars PROVE AuthInv'
    OBVIOUS
  <2>1. ASSUME NEW r \in Requests, NEW c \in Clients, NEW kind \in {"login", "upload"},
               Begin(r, c, kind)
        PROVE  AuthInv'
    BY <2>1, BeginKeeps
  <2>2. ASSUME NEW r \in Requests, Wrong(r) PROVE AuthInv'
    BY <2>2, WrongKeeps
  <2>3. ASSUME NEW r \in Requests, Malformed(r) \/ LogIn(r) \/ LetUpload(r) PROVE AuthInv'
    BY <2>3, EndingKeeps
  <2>4. CASE Home \/ Guarded \/ Logout
    BY <2>4, BrowserKeeps
  <2>5. CASE Restart
    BY <2>5, RestartKeeps
  <2>6. CASE Tick
    BY <2>6, TickKeeps
  <2>7. CASE UNCHANGED vars
    BY <2>7 DEF vars, AuthInv, AuthTypeOK, Shapes, AttemptsBounded, Attempts, Waiting,
                Testing, Issued
  <2> QED
    BY <2>1, <2>2, <2>3, <2>4, <2>5, <2>6, <2>7 DEF Next
<1> QED
  BY <1>1, <1>2, PTL DEF Spec

\* The types, and the cap of the failure table.
THEOREM AuthTypes == Spec => []AuthTypeOK
<1>1. AuthInv => AuthTypeOK
  BY DEF AuthInv
<1> QED
  BY <1>1, AuthCorrect, PTL

\* However requests interleave, a client gets no more attempts recorded than the
\* limit and the requests in flight with its last one allow.
THEOREM AttemptsStayBounded == Spec => []AttemptsBounded
<1>1. AuthInv => AttemptsBounded
  BY DEF AuthInv
<1> QED
  BY <1>1, AuthCorrect, PTL

\* A refused client is let in once a window has passed since the refusal.
THEOREM RetryIsHonoured == Spec => []RetryHolds
<1>1. AuthInv => RetryHolds
  <2> SUFFICES ASSUME AuthInv, NEW c \in Clients, refused[c] >= 0,
                      now >= refused[c] + FailureWindow
               PROVE  Allowed(c, Pruned(now))
    BY DEF RetryHolds
  <2>1. now \in Time /\ IsTable(failures) /\ refused[c] \in Time
    BY DEF AuthInv, AuthTypeOK, Shapes, Time
  <2>2. c \in DOMAIN failures => failures[c].first <= refused[c] /\ failures[c].first \in Nat
    BY <2>1 DEF AuthInv, Waiting, AuthTypeOK
  <2>3. c \notin DOMAIN Pruned(now)
    BY <2>1, <2>2, AuthAssumption DEF Pruned, Restrict, Time
  <2> QED
    BY <2>3 DEF Allowed
<1> QED
  BY <1>1, AuthCorrect, PTL

\* The application is shown on the strength of a recent login to this process.
THEOREM SessionsRestOnLogins == Spec => []SessionsLapse
<1>1. AuthInv => SessionsLapse
  <2> SUFFICES ASSUME AuthInv, ValidSession(cookie)
               PROVE  loggedIn >= 0 /\ now < loggedIn + SessionTTL
    BY DEF SessionsLapse
  <2>1. loggedIn >= 0 /\ cookie.expires <= loggedIn + SessionTTL /\ now < cookie.expires
    BY DEF AuthInv, Issued, ValidSession
  <2>2. now \in Int /\ loggedIn \in Int /\ cookie.expires \in Int /\ SessionTTL \in Int
    BY AuthAssumption DEF AuthInv, AuthTypeOK, Time
  <2> QED
    BY <2>1, <2>2
<1> QED
  BY <1>1, AuthCorrect, PTL

\* A lockout ends by its window, a restart, the right password of a request let in
\* before, or as the oldest entry of a full table: by nothing else.
THEOREM LockoutsEndRightly == Spec => LockoutHolds
<1> DEFINE Step == \A c \in Clients :
       Locked(c) /\ ~Locked(c)' =>
         \/ now >= failures[c].first + FailureWindow
         \/ process' # process
         \/ \E r \in Testing(c) : r \notin DOMAIN req' /\ Attempts(c)' = 0
         \/ /\ Cardinality(DOMAIN failures) = MaxClients
            /\ \A d \in DOMAIN failures : failures[c].first <= failures[d].first
<1>1. AuthInv /\ [Next]_vars => [Step]_vars
  <2> SUFFICES ASSUME AuthInv, Next, NEW c \in Clients, Locked(c), ~Locked(c)'
               PROVE  \/ now >= failures[c].first + FailureWindow
                      \/ process' # process
                      \/ \E r \in Testing(c) : r \notin DOMAIN req' /\ Attempts(c)' = 0
                      \/ /\ Cardinality(DOMAIN failures) = MaxClients
                         /\ \A d \in DOMAIN failures : failures[c].first <= failures[d].first
    OBVIOUS
  <2>1. /\ AuthTypeOK /\ Shapes /\ now \in Time /\ process \in Nat
        /\ Cardinality(DOMAIN failures) <= MaxClients /\ IsTable(failures)
    BY AuthAssumption DEF AuthInv, AuthTypeOK, Shapes
  <2>2. c \in DOMAIN failures /\ failures[c].attempts >= MaxFailures
    BY AuthAssumption DEF Locked, Attempts
  <2>3. \A t : failures' = t /\ c \in DOMAIN t => t[c] # failures[c]
    BY <2>2 DEF Locked, Attempts
  <2>4. ASSUME NEW r \in Requests, NEW d \in Clients, NEW kind \in {"login", "upload"},
               Begin(r, d, kind)
        PROVE  now >= failures[c].first + FailureWindow
    <3>1. failures' = Pruned(now)
      BY <2>4 DEF Begin
    <3> QED
      BY <2>1, <2>2, <2>3, <3>1, PrunedFacts
  <2>5. ASSUME NEW r \in Requests, Wrong(r)
        PROVE  \/ now >= failures[c].first + FailureWindow
               \/ /\ Cardinality(DOMAIN failures) = MaxClients
                  /\ \A d \in DOMAIN failures : failures[c].first <= failures[d].first
    <3> DEFINE d == req[r].client
               time == req[r].began
    <3>1. /\ failures' \in AfterFailure(d, time) /\ d \in Clients /\ time \in Time /\ time <= now
      BY <2>1, <2>5 DEF Wrong, Shapes, AuthTypeOK, Tested
    <3> HIDE DEF d, time
    <3>2. \/ /\ d \in DOMAIN failures /\ failures'[d].attempts = failures[d].attempts + 1
          \/ d \in DOMAIN failures => failures[d].first + FailureWindow <= time
      BY <2>1, <3>1, AfterFailureFacts
    <3>3. /\ d \in DOMAIN failures'
          /\ \A e \in DOMAIN failures' \ {d} : e \in DOMAIN failures /\ failures'[e] = failures[e]
          /\ \A e \in DOMAIN failures \ DOMAIN failures' :
              \/ failures[e].first + FailureWindow <= time
              \/ /\ Cardinality(DOMAIN failures) = MaxClients
                 /\ \A x \in DOMAIN failures : failures[e].first <= failures[x].first
      BY <2>1, <3>1, AfterFailureFacts
    <3>4. failures[c].first \in Nat /\ failures[c].attempts \in Nat /\ FailureWindow \in Nat
          /\ MaxFailures \in Nat /\ time \in Nat /\ now \in Nat
      BY <2>1, <2>2, <3>1, AuthAssumption DEF IsTable, Entries, Time
    <3>5. CASE c = d
      <4>1. ~(failures'[d].attempts >= MaxFailures)
        BY <3>3, <3>5 DEF Locked, Attempts
      <4> QED
        BY <2>2, <3>1, <3>2, <3>4, <3>5, <4>1
    <3>6. CASE c # d
      <4>1. c \notin DOMAIN failures'
        BY <2>3, <3>3, <3>6
      <4> QED
        BY <2>2, <3>1, <3>3, <3>4, <4>1
    <3> QED
      BY <3>5, <3>6
  <2>6. ASSUME NEW r \in Requests, LogIn(r) \/ LetUpload(r)
        PROVE  \E p \in Testing(c) : p \notin DOMAIN req' /\ Attempts(c)' = 0
    <3>1. r \in DOMAIN req /\ Done(r) /\ failures' = Without(failures, req[r].client)
      BY <2>6 DEF LogIn, LetUpload, ClearAttempts
    <3>2. c = req[r].client /\ c \notin DOMAIN failures'
      <4> DEFINE d == req[r].client
      <4>1. /\ DOMAIN Without(failures, d) = DOMAIN failures \ {d}
            /\ \A e \in DOMAIN failures \ {d} : Without(failures, d)[e] = failures[e]
        BY <2>1, WithoutFacts
      <4>2. failures' = Without(failures, d)
        BY <3>1
      <4> HIDE DEF d
      <4>3. c = d
        BY <2>2, <2>3, <4>1, <4>2
      <4> QED
        BY <4>1, <4>2, <4>3 DEF d
    <3>3. r \in Testing(c) /\ r \notin DOMAIN req' /\ Attempts(c)' = 0
      BY <2>1, <3>1, <3>2, DoneEnds DEF Testing, Attempts
    <3> QED
      BY <3>3
  <2>7. ASSUME NEW r \in Requests, Malformed(r) PROVE FALSE
    BY <2>2, <2>3, <2>7 DEF Malformed
  <2>8. CASE Home \/ Guarded \/ Logout \/ Tick
    BY <2>2, <2>3, <2>8 DEF Home, Guarded, Logout, Tick
  <2>9. CASE Restart
    BY <2>1, <2>9 DEF Restart
  <2> QED
    BY <2>4, <2>5, <2>6, <2>7, <2>8, <2>9 DEF Next
<1> QED
  BY <1>1, AuthCorrect, PTL DEF Spec, LockoutHolds
=============================================================================
