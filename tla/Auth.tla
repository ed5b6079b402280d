-------------------------------- MODULE Auth --------------------------------
(***************************************************************************)
(* Process-local authentication (internal/auth) and the guards that use it *)
(* (auth_middleware.go, web_handlers.go): the password form, the ?pwd= of  *)
(* the command-line upload, the session cookie, and the failure table that *)
(* limits the attempts of a client.                                        *)
(*                                                                         *)
(* A password guard takes the table's lock twice: AllowAttempt before the  *)
(* password is tested, FailedAttempt or ClearAttempts after it.  Between   *)
(* the two other requests run, and the clock moves while a form arrives;   *)
(* all calls are given the time that was read when the request began.      *)
(***************************************************************************)
EXTENDS Integers, FiniteSets, Functions

CONSTANTS
  Clients,               \* remote addresses
  Requests,              \* goroutines serving POST /login and POST /api/upload
  MaxFailures, FailureWindow, MaxClients,
  SessionTTL,
  MaxTime,               \* bound of the clock
  MaxProcesses           \* bound of the restarts

ASSUME AuthAssumption ==
  /\ IsFiniteSet(Clients) /\ IsFiniteSet(Requests)
  /\ MaxFailures \in Nat \ {0} /\ FailureWindow \in Nat \ {0}
  /\ MaxClients \in Nat \ {0} /\ SessionTTL \in Nat \ {0}
  /\ MaxTime \in Nat /\ MaxProcesses \in Nat \ {0}

VARIABLES
  failures,      \* the table: first failure and number of attempts of a client
  process,       \* numbers the processes, and with them their signing keys
  req,           \* the requests let in: client, kind and the time they read
  cookie,        \* the cookie the browser holds, with its key and its expiry;
                 \* a browser may change its address
  page,          \* what the browser shows
  now,
  \* What happened in this process, for the properties.
  refused,       \* when each client was told to wait, if it has not been let in
                 \* since, or -1
  loggedIn       \* when the last successful login began, or -1

vars == <<failures, process, req, cookie, page, now, refused, loggedIn>>

Time == 0 .. MaxTime

\* A cookie holds the time its session expires, signed with the key of a process.
Cookie(key, expires) == [key |-> key, expires |-> expires]
NoCookie == Cookie(0, 0)

Nothing == [x \in {} |-> 0]

Init ==
  /\ failures = Nothing /\ process = 1 /\ req = Nothing
  /\ cookie = NoCookie /\ page = "login" /\ now = 0
  /\ refused = [c \in Clients |-> -1] /\ loggedIn = -1

----------------------------------------------------------------------------
(* The failure table.                                                      *)

\* pruneFailuresLocked.
Pruned(time) ==
  Restrict(failures, {c \in DOMAIN failures : time - failures[c].first < FailureWindow})

\* Mutant of Allowed: the limit itself is let in.
AllowedAtLimit(c, table) == c \in DOMAIN table => table[c].attempts <= MaxFailures

\* AllowAttempt, on the pruned table.
Allowed(c, table) == c \in DOMAIN table => table[c].attempts < MaxFailures

\* Mutant of Oldest: any entry is dropped.
OldestOfNone(table) == DOMAIN table

\* The entries dropOldestFailureLocked may drop: map order decides among equals.
Oldest(table) ==
  {c \in DOMAIN table : \A d \in DOMAIN table : table[c].first <= table[d].first}

Without(f, x) == Restrict(f, DOMAIN f \ {x})

\* Mutant of Counted: the window slides with every failure.
CountedSliding(table, c, time) ==
  LET before == IF c \in DOMAIN table THEN table[c].attempts ELSE 0
  IN  [x \in DOMAIN table \cup {c} |->
         IF x = c THEN [first |-> now, attempts |-> before + 1] ELSE table[x]]

\* The entry of c with one attempt more.
Counted(table, c, time) ==
  LET entry == IF c \in DOMAIN table THEN [table[c] EXCEPT !.attempts = @ + 1]
               ELSE [first |-> time, attempts |-> 1]
  IN  [x \in DOMAIN table \cup {c} |-> IF x = c THEN entry ELSE table[x]]

\* Mutant of AfterFailure: nothing is dropped at the cap.
AfterFailureUnbounded(c, time) == {Counted(Pruned(time), c, time)}

\* FailedAttempt: the table afterwards, one of a set when an entry is dropped.
AfterFailure(c, time) ==
  LET table == Pruned(time)
  IN  IF c \in DOMAIN table \/ Cardinality(DOMAIN table) < MaxClients
      THEN {Counted(table, c, time)}
      ELSE {Counted(Without(table, old), c, time) : old \in Oldest(table)}

\* The result of FailedAttempt.
AtLimit(table, c) == table[c].attempts >= MaxFailures

----------------------------------------------------------------------------
(* The guards.                                                             *)

\* c is told to wait; the first refusal since it was let in is the one that counts.
Told(c) == [refused EXCEPT ![c] = IF @ = -1 THEN now ELSE @]

LetIn(r, q) == [x \in DOMAIN req \cup {r} |-> IF x = r THEN q ELSE req[x]]

\* The head of login and of requirePasswordQuery.
Begin(r, c, kind) ==
  /\ r \notin DOMAIN req
  /\ failures' = Pruned(now)
  /\ \/ /\ Allowed(c, failures')
        /\ req' = LetIn(r, [client |-> c, kind |-> kind, began |-> now])
        /\ refused' = [refused EXCEPT ![c] = -1]
     \/ /\ ~Allowed(c, failures')
        /\ refused' = Told(c)
        /\ UNCHANGED req
  /\ UNCHANGED <<process, cookie, page, now, loggedIn>>

Done(r) == req' = Without(req, r)

\* The form is of another media type, too large or malformed.
Malformed(r) ==
  /\ r \in DOMAIN req /\ req[r].kind = "login"
  /\ Done(r)
  /\ UNCHANGED <<failures, process, cookie, page, now, refused, loggedIn>>

\* Both guards with a wrong password: at the limit FailedAttempt says so, and the
\* answer is the refusal that tells the client to wait.
Wrong(r) ==
  LET c == req[r].client
  IN  /\ r \in DOMAIN req
      /\ failures' \in AfterFailure(c, req[r].began)
      /\ refused' = IF AtLimit(failures', c) THEN Told(c) ELSE refused
      /\ Done(r)
      /\ UNCHANGED <<process, cookie, page, now, loggedIn>>

\* ClearAttempts.
ClearAttempts(c) == failures' = Without(failures, c)

\* login with the right password: the browser gets a cookie and is sent to the page.
LogIn(r) ==
  LET c == req[r].client
  IN  /\ r \in DOMAIN req /\ req[r].kind = "login"
      /\ ClearAttempts(c)
      /\ cookie' = Cookie(process, req[r].began + SessionTTL)
      /\ loggedIn' = IF loggedIn < req[r].began THEN req[r].began ELSE loggedIn
      /\ Done(r)
      /\ UNCHANGED <<process, page, now, refused>>

\* requirePasswordQuery with the right password: the upload goes on.
LetUpload(r) ==
  /\ r \in DOMAIN req /\ req[r].kind = "upload"
  /\ ClearAttempts(req[r].client)
  /\ Done(r)
  /\ UNCHANGED <<process, cookie, page, now, refused, loggedIn>>

\* Mutant of ValidSession: the signature is not compared.
ValidSessionOfAnyKey(k) == now < k.expires

\* ValidSession: signed with this process's key, and not expired.
ValidSession(k) == k.key = process /\ now < k.expires

\* GET /: the application or the login form.
Home ==
  /\ page' = IF ValidSession(cookie) THEN "app" ELSE "login"
  /\ UNCHANGED <<failures, process, req, cookie, now, refused, loggedIn>>

\* A request of the application behind requireSession; at a 401 the application
\* reloads itself, and the login form appears.
Guarded ==
  /\ page = "app"
  /\ page' = IF ValidSession(cookie) THEN "app" ELSE "login"
  /\ UNCHANGED <<failures, process, req, cookie, now, refused, loggedIn>>

Logout ==
  /\ cookie' = NoCookie
  /\ page' = "login"
  /\ UNCHANGED <<failures, process, req, now, refused, loggedIn>>

\* The process ends and another begins, with an empty table and a new key.
Restart ==
  /\ process < MaxProcesses
  /\ process' = process + 1
  /\ failures' = Nothing /\ req' = Nothing
  /\ refused' = [c \in Clients |-> -1] /\ loggedIn' = -1
  /\ UNCHANGED <<cookie, page, now>>

Tick ==
  /\ now < MaxTime
  /\ now' = now + 1
  /\ UNCHANGED <<failures, process, req, cookie, page, refused, loggedIn>>

Next ==
  \/ \E r \in Requests :
       \/ \E c \in Clients, kind \in {"login", "upload"} : Begin(r, c, kind)
       \/ Malformed(r) \/ Wrong(r) \/ LogIn(r) \/ LetUpload(r)
  \/ Home \/ Guarded \/ Logout \/ Restart \/ Tick

Spec == Init /\ [][Next]_vars

----------------------------------------------------------------------------
(* Properties.                                                             *)

\* The requests that have been let in and whose password is still to be tested.
Testing(c) == {r \in DOMAIN req : req[r].client = c}

Attempts(c) == IF c \in DOMAIN failures THEN failures[c].attempts ELSE 0

\* Every variable keeps its type; the table has no more entries than its cap
\* (auth.go: MaxClients), and no entry is from the future.
AuthTypeOK ==
  /\ DOMAIN failures \subseteq Clients /\ Cardinality(DOMAIN failures) <= MaxClients
  /\ \A c \in DOMAIN failures : /\ failures[c].first \in 0 .. now
                                /\ failures[c].attempts \in Nat \ {0}
  /\ process \in 1 .. MaxProcesses
  /\ DOMAIN req \subseteq Requests
  /\ \A r \in DOMAIN req : /\ req[r].client \in Clients /\ req[r].began \in 0 .. now
                          /\ req[r].kind \in {"login", "upload"}
  /\ cookie.key \in 0 .. process /\ cookie.expires \in Nat
  /\ page \in {"login", "app"} /\ now \in Time
  /\ refused \in [Clients -> Time \cup {-1}] /\ loggedIn \in Time \cup {-1}

\* auth.go, MaxFailures: the check before the password and the record after it
\* are two sections, so requests in flight pass together; what a client can get
\* recorded before it is refused exceeds the limit by no more than the requests
\* that can be in flight with the last one let in.
AttemptsBounded ==
  \A c \in Clients :
    Attempts(c) + Cardinality(Testing(c)) <= MaxFailures - 1 + Cardinality(Requests)

\* The login page tells a refused client to retry in five minutes, be it before the
\* password is tested or after the failure that reached the limit.  Whatever its
\* requests in flight and those of others record meanwhile, at whatever time
\* they began, it is let in then.
RetryHolds ==
  \A c \in Clients :
    refused[c] >= 0 /\ now >= refused[c] + FailureWindow => Allowed(c, Pruned(now))

Locked(c) == Attempts(c) >= MaxFailures

\* A client that is locked out stays so until its window has passed, unless the
\* process restarts, a request let in before had the right password, or the
\* table is full and no other entry is older.
LockoutHolds ==
  [][\A c \in Clients :
       Locked(c) /\ ~Locked(c)' =>
         \/ now >= failures[c].first + FailureWindow
         \/ process' # process
         \/ \E r \in Testing(c) : r \notin DOMAIN req' /\ Attempts(c)' = 0
         \/ /\ Cardinality(DOMAIN failures) = MaxClients
            /\ \A d \in DOMAIN failures : failures[c].first <= failures[d].first]_vars

\* auth.go: signing keys are per process, "intentionally invalidating sessions".
\* The application is shown on the strength of a login to this very process,
\* begun less than SessionTTL ago, whichever of several logins answered last.
SessionsLapse ==
  ValidSession(cookie) => loggedIn >= 0 /\ now < loggedIn + SessionTTL
=============================================================================
