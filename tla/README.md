# A verification project for easy-temp-cloud

easy-temp-cloud is a temporary file host: files are uploaded by a command-line
client (`POST /api/upload`) or by the browser (resumable tus uploads), stored
once per content under their SHA-256 on the local disk or in an OSS bucket,
listed in an index that survives restarts, and removed when their retention is
over. This directory holds TLA+ models of its server (`internal/`), the TLC runs
that check them and the TLAPS proofs about them.

Paths below are relative to the repository.

## 1. Inventory

| Component | State | Operations | What makes it correct |
| --- | --- | --- | --- |
| Object store (`internal/app/storage.go`) | objects by key, on disk or in the bucket | `Put`, `Delete`, `Open`, `SignURL` | a key's bytes are there exactly when the service believes so, whichever call failed |
| Index and records (`service.go`, `persist.go`) | `records` in memory, `index.json` on disk | `persist`, `deleteRecord`, `deleteRecords`, `loadIndex`, `saveIndexLocked` | an acknowledged upload survives a crash, a confirmed deletion does not come back, a live file keeps its created time |
| Capacity ledger (`persist.go`) | `reservedBytes`, `orphans` | `reserve`, `release`, `restoreReservation`, `usedBytesLocked` | every reserve is balanced by one release; records, orphans and reservations never exceed the limit together |
| Single-shot uploads (`handlers.go`) | one temp file and one reservation per request | reserve, receive, persist, remove the temp file, release | the disk budget holds at every interleaving; a request always ends and gives back what it took |
| Expiry (`cleanup.go`) | the ledger's and the index's | `cleanupLocked` at the head of `reserve` and `persist`, on the hourly ticker and at startup | expired files and orphans go away, live files do not |
| Startup (`reconcile.go`, `server.go`) | all of the above | remove temp files, drop entries without object, remove objects without entry | after a restart memory, index and disk agree |
| Resumable uploads (`tus.go`, the tusd library) | `data/tus/*` and `*.info`, `tusResults` | create, write, finish, terminate, reap, restore at startup | reservations and staged files are released once, on every path |
| Deletion (`handlers.go`, `file_manager.go`) | the index's | single and batch deletion | success means gone for good; a failure half way leaves nothing unaccounted |
| Listing, download, archive (`file_manager.go`, `handlers.go`) | none of their own | reads under `RLock`, opens after unlocking | a read misses only what was removed since it looked the record up; the names in an archive are distinct |
| Authentication (`internal/auth`, `auth_middleware.go`) | the failure table, the signing key of the process | check, record, forget; cookies | attempts beyond the limit are bounded, a refused client is let in when it was told, a session rests on a login to this process |
| Configuration (`internal/config`) | none | parsing and validation at startup | what is accepted means what it says, whatever overflows |
| Type policy (`internal/policy`) | none | parsing, matching, the list for the page | presets and wildcards accept what the documentation lists; the page is told of the policy in force |
| Browser application (`src/web/app.js`) | the file manager's list and dialog, upload history | reload, select, delete | the list shown agrees with what the page knows the server did |
| Older server copy (`src/*.go`) | - | - | replaced by `internal/`, no longer built |

All server state is guarded by one mutex (`service.mu`). The handlers of the
HTTP server, the hourly expiry ticker and the 15-minute tus reaper run
concurrently; each takes the lock one or more times. What lies between two
critical sections (receiving a body, removing a temp file, a tus chunk) is where
they interleave. Storage calls happen inside the critical sections, so a failing
call or a crash can end a section at each of them. Nothing but the disk (or the
bucket) survives a restart; `docker-compose.yml` restarts the process whenever it
exits.

The hard parts: reservations that must balance over a handler's every exit;
three images of the same facts (disk, `index.json`, memory) that a failure or a
crash can separate at every call; orphans, the bytes that belong to nobody until
they are deleted; expiry inside every upload; OSS calls that fail after taking
effect; a password check that gives its lock back between asking the table and
recording the answer; lists, in the browser and in an archive under way, that were
true when they were made. `PROJECT.json` lists them one by one under `hazards`.

## 2. Modules

| Module | Models |
| --- | --- |
| `Totals` | the byte sums of `usedBytesLocked`, as cardinalities |
| `FileHost` | what a client of the host may rely on: the abstract specification `Service` implements |
| `Service` | store, index, ledger, single-shot uploads, deletion, expiry, startup, crashes |
| `TusUploads` | resumable uploads: callbacks, reaper, restart and result table; EXTENDS `Service`, whose ledger, store and crashes it shares |
| `FileManager` | downloads, archives and the browser's file list and deletions; EXTENDS `Service`, whose records, objects, deletions and crashes it shares |
| `FileNames` | the names of an archive's entries, as an algorithm; `FileManager` EXTENDS it too |
| `Auth` | login, rate limit, sessions, the page shown |
| `Config`, `Policy` | what the environment's byte counts, retention and types mean, as operators |
| `Serving` | `Service` with the configuration and the policy it runs with: what holds of them in a process that is up |
| `MCService`, `MCTusUploads`, `MCFileManager`, `MCAuth` | the instances that TLC checks (one `.cfg` per question) |
| `TotalsTheorems` | what sums over disjoint, smaller or changed sets, and of smaller or raised values, are; proved |
| `ServiceProofs` | type correctness and the capacity theorems of `Service`; proved |
| `StoreProofs` | agreement of disk, index and memory, the answers, the disk budget and what a reservation is worth, of `Service`; proved |
| `FileHostProofs` | `Service` implements `FileHost`, and keeps the age of its files; proved |
| `TusProofs` | types, store, answers, ledger, limit and what a reservation is worth, of `TusUploads`, which implements `FileHost` too; proved |
| `FileManagerProofs` | types, reads and list of `FileManager`, and the names of `FileNames`; proved |
| `ServingProofs` | the rules of `Config` and `Policy`; proved |
| `AuthProofs` | types, limit, waits, sessions and lockouts of `Auth`; proved |

### `Service`

State and code:

| Variable | Code |
| --- | --- |
| `objects` | the files of `data/objects`, or the keys of the bucket under `image-host/` |
| `index` | `data/index.json`: id to created time |
| `staged` | `data/tmp/upload-*`: the bytes in each request's temp file |
| `up` | the process has started and serves |
| `records`, `orphans`, `reservedBytes` | the fields of `service` |
| `pc`, `content`, `reservation` | where each upload handler is, what it carries, the local variable `reservation` |
| `now` | `time.Now()`, in units of which `Retention` are a retention window |
| `healthy` | an assumption about the environment: from now on no call fails |
| `told` | the last thing a client was told about a content: `kept` (201 or 200), `gone` (204, or a batch deletion's 200) or nothing binding |

Each critical section under `service.mu` is one action: the expiry pass that
heads `reserve` and `persist` is part of `UploadReserve` and `UploadPersist`. A
section that fails does so at any of its storage calls: for a loop over a map the
set handled before the failure is any subset (Go's map order is random). The
storage calls of a section are the only places where a crash in the middle of it
can be told from a crash before or after it, and a failing call leaves the same
disk as a crash at that call: so `Crash` after a failing step stands for a crash
inside the section, and needs no finer steps. `saveIndexLocked` writes a temporary
file and renames it, so the index is always a whole one.

Actions: `UploadReserve` (handler head: 413, expiry, reservation or 507),
`UploadRefused` (the 507 is out), `UploadReceive` and `UploadReject` (`writePart`, with
the temp file whole or partial), `UploadPersist` (duplicate, full, stored, Put
failed, save failed with and without rollback), `UploadRemoveTemp` and
`UploadRelease` (the two deferred calls, in their order), `DeleteFile`, `BatchDelete`,
`CleanupTick`, `Crash`, `Start`, `StartFails`, `Tick`, `Stabilize`.

Left out: int64 saturation in sums (the configuration caps both limits at
10 GiB); `ContentLength` 0, which is refused like a full store; form parts other
than `file`, which are skipped; a failing `os.Remove` of a request's own temp file;
the clock moving inside one critical section; the parts of `Filename` and
`ContentType`. The ids a policy rejects are the constant `Allowed`.

### `TusUploads`

tusd keeps an upload as a binary file and an `.info` file in `data/tus`; the
callbacks of `tus.go` reserve, persist and release. An upload's number stands for
its random id, in the order of the names in which a directory is read; ids are
used once.

| Variable | Code |
| --- | --- |
| `info`, `bin`, `touched` | the `.info` file (none, whole or torn), the length of the binary file and its modification time |
| `sent` | the content the client sends: the source of `Upload-Length` and of the bytes in the file |
| `call` | where each request under `/api/uploads/` is, at which upload, and the bytes that were missing when it opened the file |
| `found`, `reaping` | the upload `reapTus` has found expired and will remove next, the one it has removed and will release next |
| `results` | `service.tusResults` |
| `stored` | history: uploads whose bytes persist has put into the store, or found there |
| `leftover` | history: uploads released, or dropped at a start, whose `.info` file is still there |

Code of `tus.go`: `TusReserve` (`beforeTusCreate`), `FinishCheck`, `FinishCheckFails`,
`FinishPersist` (which shares `Persist`, the whole of `persist`, with the single-shot
uploads), `FinishRelease` and `FinishAnswer` (`finishTusUpload`), `FailRemove` and
`FailRelease` (`failTusUpload`), `TerminateRelease` (`beforeTusTerminate`), `ReapFind`,
`ReapRemove` and `ReapRelease` (`reapTus`), `TusStart` and `TusStartFails` (`NewServer` with
`reconcileTus`). `release` takes the lock by itself, so every release is a step of its
own. The reaper takes no lock for the expiry test either: a client may write between
`ReapFind` and `ReapRemove`. Until the environment is `healthy`, any removal may leave either
file behind (`RemoveFiles`, `FinishAnswer`), and the code goes on as if it had not: it
releases, and an upload that keeps its `.info` file (`Remains`) is reaped or terminated and
released again. tusd's part, modelled from how the code uses it: `TusCreate`, `TusCreateFails`,
`PatchOpen`, `PatchComplete`, `PatchAnswer`, `PatchWrite`, `TerminateOpen`,
`TerminateRemove`. The
composition registers no locker with tusd, so requests for one upload are not
serialised; with `Overlap = FALSE` the model looks at clients and a reaper that do
not meet at one upload, with `Overlap = TRUE` at all.

Left out: an `os.Stat` that fails on a binary file that is there; garbled contents when two requests write to one file at once, and late
writes to a file that has been renamed into the store; concatenated uploads; the
deferred-length and empty uploads that `beforeTusCreate` refuses; a crash between the
two removals in `removeTusFiles`, which leaves what a failing removal leaves.

### `FileHost`

Five variables: whether the host runs, its `files` with their created times, the part
of them `kept` that clients were promised, the contents `gone` whose deletion was
confirmed, and `now`. Files leave when they have expired (`Expire`), are stored
(`Store`), promised again with the age they have (`Confirm`), deleted (`Delete`), or
caught in a deletion that fails (`DeleteFails`). `Crash` takes the files and leaves the
promises; `Restart` brings back every file promised, as old as it was, nothing
whose deletion was confirmed, and perhaps others; `RestartFails` loses at most what has
expired. There is no disk, index, orphan, ledger or request in it.

`Service` implements it on local storage: `running` is `up`, `files` are the `records`,
`kept` is the part of the `index` for which the last answer was `kept`, `gone` the ids
whose last answer was `gone`. A step of `Service` inside a request's own business is a
stutter. Not so on OSS, where a failed call may have removed a live object.

### `FileManager` and `FileNames`

| Variable | Code |
| --- | --- |
| `reading` | downloads (`file`) and archives (`archiveFiles`) under way: ids still to be opened, and ids whose records have gone since the lookup |
| `files`, `loaded`, `loading` | the fields of `fileManager` in `app.js`; `overtaken` is a load whose answer is on its way when a reload is dropped |
| `answer` | the list in that answer |
| `dialog` | `activeDeleteFileIds` while the dialog can be confirmed |
| `deleting` | `performDeleteFiles` calls waiting for their answer |
| `stale`, `deleted` | history: the list came in an overtaken answer; listed files the page was told are deleted |

`FileLookup` and `ArchiveLookup` copy records under the read lock, `ReadOpen` and
`ReadFails` open the objects later. `Refresh`, `ListFiles`, `ListArrives`, `ListFails` are
a load of the list; `OpenDialog`, `CancelDialog`, `Confirm`, `DeletionServed` (the whole
of `deleteRecords`, as `BatchDelete`), `DeletionDone` and `DeletionFailed` a deletion.
`FilePersist` stands for any upload that reaches `persist`: what an upload does before
and after touches its temp file and the ledger only. `NoteRemovals` is history: it tells
the reads under way what a step removed.

`FileNames` is `archiveFiles`' deduplication: a name is a stem, the counters in brackets
behind it, and the extension. The map `used` is a recursive function over the positions of
the archive, so that the prover can reason about it; `Names` are the names files may have
been uploaded under, and `MaxEntries` the length up to which TLC tries sequences of them.

Left out: what a list says of a file beyond its id (`toFileEntry`, links, sizes),
range requests, HTTP caching, selection in the page (a dialog opens for any part of the
list).

### `Auth`

| Variable | Code |
| --- | --- |
| `failures` | `Auth.failures`: first failure and attempts of a client |
| `process` | a number for the signing key, which a restart replaces |
| `req` | requests between `AllowAttempt` and `FailedAttempt` or `ClearAttempts`, with the time read when they began |
| `cookie` | the session cookie the browser holds: whose key, until when |
| `page` | the application or the login form |
| `refused`, `loggedIn` | history: when each client was told to wait; when the last login that succeeded began |

`Begin` is the head of `login` and of `requirePasswordQuery` with `AllowAttempt` (which
prunes the table first); `Malformed`, `Wrong`, `LogIn` and `LetUpload` are what follows
when the form has arrived. `Wrong` includes the result of `FailedAttempt` (`AtLimit`): the
failure that reaches the limit is answered with the same refusal as the next request, and
the client is told to wait (`Told`). `login` reads the clock once, at its head, and uses it for
the record and the cookie; the clock may move in between, and other requests run.
`AfterFailure` is `FailedAttempt` with `dropOldestFailureLocked`: where several entries
are oldest, map order decides. `Home`, `Guarded` and `Logout` are the pages behind the
session. Signatures are abstracted to the key that made them, a client to its address; a
browser may change its address.

### `Config` and `Policy`

Operators with the names of the functions they model, an error being the empty set of
results. `ParseBytes` keeps the width of the product: `MaxInt` and the base of the binary
units are constants, so overflow happens among numbers TLC can enumerate, and every
other number follows from them as in the code. `Load` is `config.Load` as far as limits,
retention, password and driver go; `ClientConfig` what the page is told.
`Policy!Parse` takes the set of tokens of `ALLOWED_TYPES`, `Shown` is `policy.String`,
`Detected` the external table of what `http.DetectContentType` makes of the formats
README names. A format whose files the detector tells apart appears more than once: an MP3
is `audio/mpeg` only with an ID3 tag at its head, an MP4 `video/mp4` only with a brand that
begins with "mp4". `TokensAccept` says of every format in a preset's row whether it is
stored, and `Misdetected` lists the ten that are not. Left out: trimming and case, the grammar of one MIME type (`validMIME`),
addresses, paths and OSS credentials beyond their presence.

## 3. Runs

Bounds of `service`: two concurrent uploads and three contents of 1, 2 and 4 bytes, the
last too large for `MaxUploadBytes` = 3 and of a refused type; envelopes of one byte, so
a request reserves 2 or 3 bytes of a limit of 5: one reservation always fits, two do
not always, and a committed object decides. `Retention` is 2 and the clock stops at 3,
so that files of two ages can be there and one can expire before the other. `live` has
the two smaller contents, `Retention` 1 and a clock up to 1. Two uploads are what a race
between reservations needs; with two contents one can be live, orphaned or expired
while the other is uploaded, and the same content can be uploaded twice at once.
Crashes, restarts and failures are not bounded. There is no run of single-shot uploads
on OSS: what holds there (`TypeOK`, `LedgerExact`, `NoOvercommit`, `OrphansDead`,
`CreatedFixed`, `ReservationHonoured` and a bucket's half of `AnswersHold`) is proved for both drivers, and `tus_overlap`, which runs
on OSS, takes the steps of `persist` and of the deletions there.

| Run | Question | Result |
| --- | --- | --- |
| `service` | ledger, limit, disk budget, agreement of disk, index and memory, answers, ages of files; `Service` implements `FileHost`; the rules of the configuration and the policy | holds |
| `live` | expiry, orphans and requests come to an end | holds |
| `files` | reads explain what they miss; the list agrees with what the page was told; entries of an archive have distinct names | holds, but for a list in an overtaken answer, and for files uploaded under a generated name |
| `auth` | attempts recorded, waits, lockouts and sessions, with two requests in flight | holds: one attempt more than the limit per further request in flight |
| `presets` | a preset accepts the formats README lists | violated: the detector calls several of them otherwise, an MP3 without ID3 tag among them |

The rules of `Config` and `Policy` are statements about their operators, true or false in
every state; `Serving` states them of a process that is `up`, the only one that has a
configuration. `Binary` = 4 puts the ceiling (10 GiB) at 640 and the end of an int64 at
1023; `MCNumbers`, −20 to 1100, lies around every limit and beyond, so that products
overflow at both ends. In the same way `EntriesDistinct` states of an archive under way
that sequences of up to `MaxEntries` = 4 of the eight `MCNames` stay distinct, which is
enough for a repeated name, two bases and generated names that meet.

`files`: two contents of one byte on a limit of 2, one reader, one deletion in flight, a
clock up to 1. The reads and the page neither change nor enable each other; both only
follow the service. The action constraint `OneAtATime` explores the service with the
one and with the other, and not with both at once: every property is about one of them.

`auth`: three clients on a table of two entries, so that an entry has to go; two failures
allowed, two requests, a window and a session of two units on a clock up to 3, two
processes. A window is two units long so that a form that takes one unit opens an entry
whose window is partly over.

Runs of `TusUploads`, with `TTL` 1 and a clock up to 2, so that one upload can be idle
while another is written: two resumable uploads, one request and the reaper. Two uploads
are what a ledger, a reaper pass or a restart needs to take one for another; a request and
the reaper are two actors that can meet at one of them, and one request is enough to leave
an upload anywhere it can be left, by ending early or at a crash. Failing removals make
uploads of which something is left behind, and each multiplies the states of the others, so
constraints bound how many there are beside one another:

- `tus`: a single-shot upload beside the resumable ones, all of one byte, on a limit of 2.
  `FewAtATime`: uploads of both kinds that have begun are at most two, and of those in which
  something is left behind or a single-shot upload is running at most one. The view
  `ButAnswers` takes states that differ in `told` only for one: no guard reads it, and
  nothing this run checks of the ledger and the limit does.
- `tus_overlap`: contents of 1 and 2 bytes, a limit of 2, OSS, the reaper meeting the
  request. `BehindAloneLater`: once the clock has moved, no other upload has an `.info` file
  beside one of which something is left behind. Before that it may, so that one upload is
  released while it can still be persisted, another takes its capacity, and both are.
- `tus_live`: one content allowed and one refused by type, the reaper meeting the request,
  `BehindAlone`: the same from the beginning. Torn files do not count as left behind.

In `tus` and `tus_live` the uploads are created in the order of their names (`InOrder`): a
directory is read in that order, and the first may be torn, idle or gone before the second
is there or after.

What the constraints leave out is proved: every safety property of these runs holds for any
number of uploads, requests and left-over files (section 4).

| Run | Question | Result |
| --- | --- | --- |
| `tus` | two resumable uploads and a single-shot one: the ledger goes on covering what is still to be released, and no step but a failed creation leaves more in it; no step takes uploads, records and orphans beyond the limit; `persist` stores what was received and checked | holds while nothing overlaps at one upload, but for uploads whose `.info` file could not be removed |
| `tus_overlap` | records and orphans stay within the limit although reservations are released twice, and a confirmed deletion stays one | holds: `persist` checks again |
| `tus_live` | requests end, reached idle uploads are reaped, the service comes back; the composition implements `FileHost` | holds |
| `tus_twice` | a reservation is released once | violated when the reaper meets a termination |
| `tus_leak` | a reservation is released at all | violated when tusd fails to create the files |
| `tus_unfinished` | an upload reported complete has been persisted | violated by a crash after the last bytes |
| `tus_down` | the service comes back after a crash | violated by a torn `.info` file |

The violations are findings: `PROJECT.json` quotes the sentence each of them
contradicts. Other departures are plain in the actions, or were met while reading, and
have no run.

Of uploads: a duplicate may be answered 507, because capacity is reserved before the
content is known (`README.md:82`, `README.md:171`, `handlers.go:35`). `persist` counts the
bytes of a stored upload twice until its request has released them, and may answer 507
below the limit (`ReservationHonoured` and `ReceivedStored` say when it does not). `MAX_UPLOAD_BYTES` above
`MAX_STORAGE_BYTES` makes every chunked upload, which reserves the former, a 507. An
expiry pass cut between a deletion and its save leaves the index pointing at a removed
file until the next start. `sanitizedFilename` slices out of range when an extension is
longer than 255 bytes (`service.go:59`). The comment at `service.go:67` has storage
operations run outside the lock; they run under it.

Of resumable uploads: the errors of `os.Remove` on staging files are ignored (`tus.go:109`,
`131-132`, `219-220`) and the bytes released all the same. While an `.info` file stays,
every reaper pass that finds its upload expired releases the bytes once more, and a
termination that tusd answers with an error has released already: with no two actors
meeting, `reservedBytes` falls below what others still hold (persist.go:80: "It must be
balanced by release"). `LedgerStaysCovering` says that this is the only way where they do
not meet, and `StaysWithin` and `StoredWithin` what the limit is still worth then. A binary
file without `.info` (left by a crash, by a duplicate, by a failing removal, or by
every finished upload with OSS) stays in `data/tus`; a torn `.info` file hides the
uploads behind it from the reaper; a terminated upload whose files survive a crash gets
its reservation back; `deleteRecord` and `deleteRecords` look for the result of a deleted
file under the content's id, and the table is keyed by upload (`persist.go:69`,
`file_manager.go:168`).

Of reading: a share link lives again when its content is uploaded again in the same
process, although `handlers.go:167` says that a deletion invalidates it.

Of the page: a reload dropped while an older answer is on its way leaves a list that
shows deleted files, in spite of "Reload the list from the server to stay in sync."
(`app.js`); an older deletion that completes closes a dialog opened since; an upload
does not reload a loaded list.

Of authentication: `login` records a failure at the time its request began, so slow forms
open entries whose window is partly over and more wrong passwords fit a span of one
window than `MaxFailures` says; `RetryHolds` shows that nobody has to wait longer for it.

Of the configuration: `config.go:20` says out-of-range values are clamped, and they are
refused; the number of chunks reaches 1280 where the comment says about 1024; a negative
byte count can wrap into the accepted range (−17179869183g is taken for 1 GiB); `all`
inside a longer list is an error.

### Fairness

`FairSpec` assumes weak fairness of the steps of a request (goroutines run; a body
arrives or fails, `ReadTimeout` ends the wait), of the hourly ticker and of starting
the process (`restart: unless-stopped`). New requests, deletions, crashes and the
clock are not fair. `TusFairSpec` adds the steps of a tus request, the reaper on its
15-minute ticker for each upload (`reapTus` goes through all of them in one pass) and
the start. `ExpiredReaped` and `OrphansReaped` speak of what happens once
`healthy` holds: while deletions may fail for ever nothing can be promised. `FileManager`
and `Auth` state no liveness: a user need not come back, and a page need not be answered.

## 4. Proofs

`ServiceProofs` proves for every value of the constants allowed by
`ServiceAssumption`:

- `TypeCorrect`: `Spec => []TypeOK`. `TypeOK` is inductive by itself; the work is in the
  expiry pass, whose outcomes only shrink records, orphans and objects and leave
  an index of the same kind (`CleanupShrinks`, `SweepFacts`).
- `CapacityCorrect`: `Spec => []Capacity`, the inductive invariant `TypeOK /\ LedgerExact
  /\ NoOvercommit` behind the two that follow. Neither is inductive alone: the check
  of `persist` subtracts the request's own reservation from `reservedBytes`, which
  bounds the others' only if the ledger is exact, and the bound on the sizes the
  index lists is what a restart relies on. One lemma per group of actions says that
  its steps preserve the three sums; `TotalsTheorems` has the facts about sums.
- `LedgerCorrect`: `Spec => []LedgerExact`.
- `CapacityLimit`: `Spec => []NoOvercommit`.

`StoreProofs` rests on it and proves, under the same assumption:

- `StoreCorrect`: `Spec => []StoreInv`. `StoreInv` is `TypeOK` together with a sound
  store while the process is up: orphans apart from the records and, on local
  storage, every record with its object and its index entry, every object a record
  or an orphan. The parts need one another: that an expiry pass deletes no object of
  a record follows from orphans being apart from records, and that every object is
  accounted for from what a failed call leaves behind becoming an orphan. Nothing is
  asked of the disk while the process is down, because `Reconciled` makes a sound
  store of any disk. One lemma says that every outcome of the expiry pass keeps a
  store sound, one per group of actions that the rest of the step does.
- `OrphansAreDead`, `RecordsAreDurable`, `BytesAreAccounted`: the three parts.
- `AnswersStayTrue`: `Spec => []AnswersHold`, by an induction of its own over
  `StoreInv`: the start after a crash keeps an acknowledged upload only because the
  index and the object of every record were on the disk.

Its last part rests on the capacity and the store:

- `StagingCorrect`: `Spec => []StagingInv`, which adds two things to `Capacity` and
  `StoreInv`. `Staging`: while the process is up, the reservation of a request pays for
  its temp file but for one probing byte, covers the content it is still to receive, and
  a request that holds no reservation has no temp file. `DiskBounded` itself: while the
  process is up it follows from `Staging`, `NoOvercommit` and `AllBytesAccounted` by
  arithmetic on sums, but a crash forgets the reservations and leaves the temp files,
  and what bounds the disk until the next start is that it was bounded before.
- `DiskStaysBounded`: `Spec => []DiskBounded`.
- `ReservationsAreHonoured`: `Spec => []ReservationHonoured`, for both drivers: with an exact
  ledger the others' reservations are all still to be used, so `NoOvercommit` leaves
  room for this one's, and the expiry pass only makes more.

`FileHostProofs` rests on the agreement and the answers:

- `HostImplemented`: `Driver = "local" => (Spec => ImplementsFileHost)`. The invariant that
  carries the simulation is `HostInv`, `StoreInv` with `AnswersHold`: it makes the
  promises a part of the records while the process is up and of the index while it is
  down, with the same created times. One lemma per kind of step of `Service` says what
  it does to records and answers (`SweepExpires`, `PersistEffect`, `DeletionEffect`), one
  per action of `FileHost` that such an effect is that action.
- `AgesAreKept`: `Spec => CreatedFixed`, from the same effects, for both drivers.

`AuthProofs` proves of `Auth`, for every value of the constants allowed by
`AuthAssumption`:

- `AuthCorrect`: `Spec => []AuthInv`, the inductive invariant. Besides types and the bound
  on attempts it has two parts that no property states. `Waiting`: the entry of a client
  that was refused, and each of its requests still in flight, is not younger than the
  refusal, be it at the head of a guard or after a failure. So whatever those requests
  record, and whichever entry the table drops meanwhile, what locks the client is over one window after the refusal. `Issued`: a
  cookie with the key of this process expires by the lifetime of the last login to it.
- `AttemptsStayBounded`: `Spec => []AttemptsBounded`. Induction needs the attempts and the
  requests in flight of a client together: one let in adds a request and no attempt, one
  refused the password turns a request into an attempt.
- `RetryIsHonoured`, `SessionsRestOnLogins`, `AuthTypes`: the other invariants.
- `LockoutsEndRightly`: `Spec => LockoutHolds`, an action property, step by step from the
  invariant.

`TusProofs` proves of `TusUploads`, for every number of uploads, requests and contents
allowed by `ServiceAssumption` and `TusAssumption`. Six theorems hold for either value of
`Overlap`:

- `TusTypeCorrect`: `TusSpec => []TusTypeOK`, from `TusInv`, which adds `Begun`: an upload
  that was never created has no `.info` file and nobody at it. So a step that finds a
  file, or works on an upload, finds a declared length too.
- `TusStoreSound`, `TusStoreLimit`, `TusAnswersStayTrue`: what `StoreProofs` says of the
  store and of the answers holds with resumable uploads too. The lemma behind them,
  `StoreEffects`, says that a step of `TusNext` does to the store what some step of
  `Service` does, or nothing; `persist` and the expiry pass are the same operators. The
  limit on stored bytes is proved apart from the reservations, because with overlapping
  requests these prove nothing: `persist` adds the bytes it is about to store to
  what is stored, whatever the ledger says.
- `TusHostImplemented`: `Driver = "local" => (TusSpec => ImplementsFileHost)`, and
  `TusAgesAreKept`: `TusSpec => CreatedFixed`. The simulation is that of `FileHostProofs`,
  effect by effect; new is only a start that ends at a torn `.info` file after it has
  reconciled disk and index (`Halts`), a stutter of the host.

Six have the hypothesis `~Overlap`. It is a constant of the model and not of the code,
and `tus_twice` shows what is false without it. There are two ways to release a reservation
twice: two requests, or one and the reaper, meet at one upload; or an `.info` file cannot be
removed, and its upload is released again. The hypothesis excludes the first; the second is
in the model, and `ReleasedAgain` names it. The six say that there is no third.

- `TusCapacityCorrect`: `TusSpec => []TusCapacity`, the inductive invariant. `Owned` is the
  rule of the locker that is missing: no two of the requests and the reaper work on one
  upload, and its `.info` file is there until the one who works on it removes it. The
  ledger counts an upload by its `.info` file or by its owner (`Owing`), unless it is left
  over, so ownership is what makes a release take one upload out of the sum, by its own
  length, and creation put one in. That the ledger covers this sum, and that what is stored
  fits beside the single-shot reservations (`Room(0)`), is part of the invariant as long as
  nothing is left over; that what is stored fits the limit (`StoredWithin`) always. The
  lemmas of `ServiceProofs` about the ledger are stated for x bytes more that others hold
  (`Covers(x)`, `Room(x)`), so that the service's own steps are not proved again.
- `TusLedgerStaysCovering`: `TusSpec => LedgerStaysCovering`, step by step. `LedgerEffect`
  says that every step does one of six things to the ledger: nothing (`Keeping`), a failed
  creation (`Leaking`), the release of one upload that owes (`Releasing`) or of one that is
  left over (`Repeating`), a reservation (`Creating`), a `persist` (`Finishing`); only
  `Repeating` takes from the ledger what nobody owes.
- `TusLedgerCovers`, `TusNoOvercommit`: `LedgerCovers` and `NoOvercommit` hold while nothing is
  left over.
- `TusStaysWithin`: `TusSpec => StaysWithin`, the action property: creation and `persist`
  compare with `reservedBytes`, and where that covers what the others still have to store,
  they take nothing beyond the limit. Nothing is claimed of a restart, which restores
  reservations without asking, nor of `persist` of an upload that is left over: its bytes are
  reserved by nobody.
- `TusLedgerStaysBalanced`: `TusSpec => LedgerStaysBalanced`, the other half of the
  balance. `LedgerBalanced` itself is false (`tus_leak`), so the theorem is about steps: from
  a balanced ledger `TusCreateFails` is the only step that leads to another, whatever fails,
  crashes and starts included. Induction adds `Drained`, a process that is down has an empty
  ledger: a start restores exactly the uploads it keeps.
- `TusReceivedStored`: `TusSpec => ReceivedStored`, for both drivers. With a balanced ledger,
  no bytes counted twice and `Within`, `reservedBytes` fits beside what is stored
  (`ReservedFit`), so `persist` has room for whatever a reservation covers (`CoveredFits`).
  That it covers the content is `Staging` for single-shot uploads, kept by the steps of the
  resumable ones (`NextTusStaging`), and the declared length for these; `Received` keeps
  the file of a checked upload there. The hypotheses name the only ways to a 507 for a
  client that has sent everything: a restart that restored more than fits, a leak, a release
  too many, of its own upload or another, and the bytes of another request between `persist`
  and release.

`FileManagerProofs` proves of `FileManager`, from `FileInv`:

- `ReadsAreExplained`: `FileSpec => []ReadsExplained`. Induction needs `Looked`: while the
  process is up, a file still to be opened is a record, or one that has gone since it was
  looked up; with `Durable` of `StoreProofs` a record's object is there.
- `ListStaysInSync`: `FileSpec => []ListInSync`. Induction needs `Fresh`: an answer on its
  way that no deletion has overtaken holds no file the page was told is deleted, and what
  it was told since is of the list it shows or of that answer.
- `FileTypesCorrect`: `FileSpec => []FileTypeOK`.
- `ArchivesDistinct`: `NamesDistinct(names)` for every sequence of names, of any length, and
  with it `EntriesStayDistinct`: `FileSpec => []EntriesDistinct`. A position's name is either
  the one asked for, for the first time, or that name with its count so far. Counts never
  fall along the archive (`UsedGrows`) and a repeated name has each of its counts once
  (`CountsUsedOnce`), so two entries of one base differ; two of different bases can only
  meet where one was uploaded under what the other generates, which is the exception.
  The library's induction over sequences cannot be used here: each of these facts is proved
  of the least position that would contradict it (`LeastNumber`, from the well-founded order
  of the naturals). `TablesExist` proves that the recursive function `used` exists at all.

`ServingProofs` proves the six rules of `Config` and `Policy`, for every integer, base of
the units and width of an int64 allowed by `ConfigAssumption` (`Numbers` may be all
integers), and for every list of tokens:

- `LimitsAreExact`: the guard of `ParseBytes` compares with a quotient what it must not
  multiply; `GuardFacts` says that the two comparisons are one, `WrapFacts` that what passes
  is not wrapped. `LoadedHold` adds what holds of a limit that does wrap into the range,
  of a negative number. `RetentionIsShown`, `ChunksAreBounded`: likewise, by
  division.
- `PresetsAccept`, `PolicyIsShown`, `TokensAreIndependent`: from what each kind of token
  alone is parsed to. `PresetsAccept` says exactly which of the documented formats are
  accepted.

Only model-checked: the liveness properties (`ExpiredReaped`, `OrphansReaped`,
`UploadsEnd`, `CallsEnd`, `ReachedUploadsReaped`, `ComesBackIfParsable`), which the prover
cannot handle; and the five violations. All other properties of the passing runs are
theorems.

## 5. Plan

Done: `Service`, its abstract specification `FileHost` and the refinement; `TusUploads`;
`FileManager` with `FileNames`; `Auth`; `Config` and `Policy`; the proofs of section 4.

Left, in this order:

1. The upload queue of the page: pauses, retries and the history it resumes from,
   composed with `TusUploads`.
2. How far overlapping requests may take the ledger: `StoredWithin` is proved for them, a
   bound on what they lose or leak is not stated.

Not planned: cryptography, page rendering, presentation in the browser, vendored
libraries, and the older server copy in `src/`, which `main.go` no longer builds.
