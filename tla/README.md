# Verification of yap-shortener

A Go service that shortens URLs: HTTP handlers over one of three stores (in memory,
a JSON file, PostgreSQL), deletion in the background, a graceful shutdown. The modules
here are translated from the source; TLC checks them on small instances, and TLAPS proves
their safety properties for every size.

## 1. The system

| Component | State | Operations | Talks to |
|---|---|---|---|
| HTTP handlers (`internal/server/server.go`) | none of their own | `redirect`, `shorten`, `shortenAPI`, `shortenURLs`, `getUserURLs`, `deleteUserURLs`, `ping` | one goroutine per request calls the `URLStore` interface and `URLRemover.DeleteURLs` |
| In-memory store (`internal/persistance/inmemory`) | a `sync.Map` from short URL to record | `GetOriginalURL`, `AddURL`, `AddURLs`, `GetUserURLs`, `DeleteUserURLs` | called by every request goroutine and by the remover, without a lock |
| File store (`internal/persistance/file`) | a map, a mutex, a `json.Encoder`, the file | the same, and `New` / `readURLs` at start | appends one JSON line per change |
| PostgreSQL store (`internal/persistance/pgsql`, `migration`) | table `url` with unique `short_url` and `original_url` | the same, in transactions over a connection pool | the database |
| Background deletion (`internal/server/urls_remover.go`) | an unbuffered channel, blocked senders, one remover goroutine, `doneCh` | `DeleteURLs` | the store, with the context of `main` |
| `main`, `runServer` (`cmd/shortener/main.go`) | the signal context, two `doneCh` channels, the deferred calls | start, shutdown | all of the above |
| Authentication (`internal/auth`, `internal/middleware/auth.go`) | none: the browser keeps the signed cookie | `GetUserID`, `CreateCookie` | handlers, through the request context |
| Logging and compression (`internal/middleware`) | two maps shared by requests; a pool of gzip writers | `ResponseLogger`, `ResponseEncoder`, `RequestDecoder` | wrap every request |
| Short URLs (`internal/shortener`) | none | `Shorten`: base 58 of a random 32-bit number, lowest digit first | handlers |
| Configuration (`internal/config`, `internal/factory`) | none | JSON file < flags < environment; pgsql > file > memory | `main` |
| Certificate (`internal/cert`, `cmd/shortener/main.go`) | two files in the working directory | `generateAndSave` when one of them is missing | `main`, `crypto/tls` |
| Migration (`migration`) | the schema, with golang-migrate's dirty mark | `Up` at every start | `pgsql.New` |
| Client (`internal/client`) | none | `Expand`, `Shorten` | the HTTP API |
| Linter, test doubles | none | - | - |

What is hard here: the in-memory store composes atomic map operations without a lock; the
file store changes its map before it writes, meets write errors (after the first, its
`json.Encoder` repeats the error for ever) and process crashes, writes text where the map has
any bytes a client sent, and refuses at start some files it has itself written; deletions are answered before they are done, and pass through
goroutines that nobody waits for when the process ends; the identity of a user is a cookie that
comes late, gets lost or expires; the logger keeps two plain maps that every request reads and
writes, and the gzip writers of the pool are right only because of the order of the deferred
calls; a start that is killed leaves half of what it was making to the next one. `PROJECT.json` lists these places
line by line under `hazards`, with the property that watches each of them.

What makes each component correct: a store never unbinds, rebinds or revives a short URL,
reports a known original URL, deletes for the owner only, and keeps across restarts what it
has told its clients; the remover gets every accepted deletion to the store; the process
ends when told to. The handlers tell their clients what the store holds, show and delete a
user's own URLs only, and the middleware gets every answer to its client whole. A start recovers
from what an earlier one was killed in.

## 2. Modules

| Module | Models | Extends / uses |
|---|---|---|
| `Domain` | pairs, records, maps, `findShortURL` as a set | |
| `URLStore` | **abstract**: a short URL is bound once and later at most deleted | `Domain` |
| `InmemoryURLStore` | the in-memory store, goroutine by goroutine | refines `URLStore` with `urls <- m` |
| `FileURLStore` | the file store, its file, crashes and restarts | refines `URLStore` with `urls <- Durable`, the content of the file |
| `TransactionalURLStore` | **abstract**: calls take effect whole, one user at a time, and original URLs are unique | `Domain` |
| `PostgresURLStore` | the PostgreSQL store: pool, transactions, row waits, faults | refines `TransactionalURLStore` with `urls <- table` |
| `URLRemover` | DELETE handler, senders, remover, signal, drain, deferred calls of `main` | |
| `Shortener` | `Shorten`, a number in the digits of the alphabet, as a recursive function | |
| `Server` | all handlers, authentication, browsers with cookies | `Domain`, `Shortener`; its store is an abstract one, with every outcome of the three |
| `Middleware` | logger, request decoder, response encoder, around an arbitrary handler | |
| `Configuration` | defaults, file, arguments, environment, choice of the store: pure functions | |
| `Service` | processes one after another: start, migration, certificate, kill, restart | **composes** `URLRemover` (its actions, within one process) and `Configuration` |
| `InmemoryURLStoreProofs`, `FileURLStoreProofs`, `PostgresURLStoreProofs`, `ShortenerProofs`, `ServerProofs`, `URLRemoverProofs`, `ServiceProofs`, `MiddlewareProofs` | theorems about the module each is named after | TLAPS |
| `MCInmemoryURLStore`, `MCFileURLStore`, `MCPostgresURLStore`, `MCServer`, `MCMiddleware`, `MCService` | symmetry sets, settings to start with | |

Definitions marked "Mutant" are plausible bugs, each substituted for the definition after it
to confirm that a property notices; no specification uses them.

### InmemoryURLStore

`pc[p]` is the place of goroutine `p` in its method, `call[p]` the method and its arguments,
`i`, `loaded`, `visited` its local variables, `reply` what it tells its caller; `before[p]` is
a history variable, the content when the call began. One step is one atomic operation of
`sync.Map`. A `Range` takes one step per key (`FindMiss`, `FindHit`, `ListVisit`): no key
twice, every key present throughout, a key stored meanwhile perhaps, each with its value at
the visit; that is what `Range` does in Go 1.21. `LoadOwn` and `Swap` are the two halves of
a deletion. `IDsCollide` says whether the random short URLs may repeat.

The type assertions on values of the map always succeed and are left out.

### FileURLStore

The file is a sequence of lines, `[ShortURL, rec]` or `Torn`. `LoadRecord`, `LoadFails` and
`LoadEnd` are the loop of `readURLs`. Every method is `Lock`, its steps, `Unlock`; putting a
record into the map (`Put`, `Mark`) and writing the line (`Encode`, `EncodeFails`) are
separate, because a write may fail or the process end in between. A write that does not
succeed may leave nothing, a torn line, or the line without its newline, which the decoder
accepts. `Crash` ends the process at any moment of its service and is followed by a
new one; `Retry` is a new attempt after a failed start. `promised` is a history variable: what
the answers without an error told the clients. A graceful stop is a crash with no write under
way. What the file holds of an original URL is its text, `AsText`: `encoding/json` replaces bytes
that are not UTF-8 by U+FFFD, so different URLs of the map may be one in the file (`Stored` of a
record, `AsRead` of the map). Only the body of `shorten` can be such bytes; batches have come as JSON
(`Texts`). `AsTextCoerces` says that text stays as it is. A crash of the machine, which could lose writes the operating system has not flushed
(the code never calls `Sync`), is not modelled. Short URLs do not repeat in this module.

### PostgresURLStore

`table` is what has been committed, `writes[p]` the rows the transaction of goroutine `p` has
inserted or updated. `Holders` have a connection of the pool, from `Acquire` to `Release`. One
step is one row of an `INSERT`, a `COPY` or an `UPDATE`, and `COMMIT`. A row that repeats a
committed one, or one of its own transaction, is a unique violation (`Violates`); one that
repeats, or updates, what another transaction has written waits for it (`InsertWaitsFor`,
`UpdateWaitsFor`), and PostgreSQL aborts a transaction of a circle of waits (`InACircle`,
`DeadlockDetected`). These four are PostgreSQL's behaviour at read committed. `Breaks` are the
faults: a cancelled context or a lost connection at `Acquire`, at a statement, at `COMMIT`
(which may have been done all the same) and at a read. A server session that outlives its lost
connection is taken to end with it. Short URLs may repeat here: the unique constraint
is what the code relies on. The connection `AcquireFails` leaves the call without makes its
deferred `Release` panic; `net/http` recovers that in a handler (`URLRemover` shows the remover,
where nothing does).

### URLRemover

`request[r]` follows a DELETE request from its handler into the sender goroutine (`spawned`),
onto the queue of `deleteCh` (`blocked`), into the remover (`received`) and to its end.
`main` runs from `listening` through the drain to the deferred calls in their order: close
`doneCh`, close the storage, return. `storage` is chosen once: memory, file or pgsql. The
pgsql store gets no connection once the context of `main` is cancelled and then panics on the
deferred `Release` (`Panic`); its `Close` waits for connections in use. The remover is always
wired in `main`, so the branch of the handler that calls the store directly is left out.
What a deletion does inside a store is the business of the store modules.

### Server

`urls` is the content of the store. Decoding, authentication, the handler and its one call of
the store are one step: neither before nor after the call does a handler touch what another
request could see (what happens inside the call is the business of the store modules). A store
that fails (`Fails`) may have kept all of a pair, or any first part of a batch. What an
answer brings its browser, a cookie and the news of a created short URL, is `inFlight` until
`Receive` or `Lose`. The module is one life of a process: `urls` keeps what it was given, also
bytes that are not text. Two conversions stand between `urls` and the client: lists are JSON
(`AsText`, as in `FileURLStore`), and `http.Redirect` makes a URL without a scheme a path of the
service, the empty URL `/`, and escapes the rest (`Location`, a function the instance gives).
`Said` is what an answer can say of a URL of the store. `jar` holds the cookies, `expires` the end of the token of every identity
handed out, `removals` the deletions that were answered 202. `Respond` is an answer,
`RespondTo` one behind `Auth`, which sets the cookie of a new user. `says` is what the reader
takes from the body; for a redirect that is what `Client.Expand` makes of it: the `Location` header,
which after a failed read of the store (`RedirectFails`) is that of the empty URL. `maker`, `told` and `raced` are history variables:
whose request stored a short URL, which short URLs their makers know of, and which browsers did
not wait for an answer before the next request. Bounds: `MaxTime`, `MaxInFlight`, one pending
removal.

Two assumptions on the sentinels, `RecordsArePresent` and `NothingIsNothing`, say that no record
is `Absent` and no browser or cookie `Nothing`. The short URLs are those `Shortener` makes of the
numbers in `IDs`; that different numbers have different ones is a theorem, not an assumption.

A handler's 401, 400 or 403 still sets the cookie of a new user, as in the code. A token is a
user ID and a time; signatures are left out.

### Middleware

`pc[p]` is the place of the request goroutine `p`, from `ResponseLogger` through the handler and
the deferred calls of `ResponseEncoder` back to the logger. `wire[p]` is what its client has been
sent, `seen[p]` the status the wrapper has recorded; `target[w]` is whose connection the gzip
writer `w` writes to since its last `Reset`, so a writer in two hands would show in `wire`.
`Deferred` is the order in which the deferred calls run. The look-ups and stores of `methodCache`
and `statusCache` are steps of their own, without a lock: a look-up that overlaps a store may miss
an entry, one of two overlapping stores may be lost, a log line may find no field (the logger
panics, and the line is missing), or the runtime may notice and end the process (`Crash`): the
outcomes a data race on a Go map has in practice. `Collect` is the garbage
collector, which may empty a `sync.Pool`. The handler is any that sends one status and one
part; it may panic or find its client gone when it writes. `/ping`, which the encoder does not
wrap, is a request that accepts no compression.

### Configuration and Service

`Configuration` has `getConfig` as a function of arguments, environment and files: an option that
is given, even as the empty text, is taken; the path of the file is the exception.
`FlagsInFilesAreBool` says that a file whose `enable_https` is no boolean is `Malformed`, which is
what `encoding/json` makes of it.
`Service` starts up to `MaxStarts` processes with any of the `Settings`. `startup` is the
process's way from `main` to listening; `schema`, `cert` and `key` stay on the host. The scripts of
the migration are run one by one (`BeginMigration`, `EndMigration`): `schema` is the version and
golang-migrate's dirty mark. A file is
absent, `Torn`, or named by the process that generated it; a pair fits if one process made
both. `Dies` kills the process anywhere: an `os.WriteFile` leaves a torn file, a script the
dirty mark. Once `startup` is `"up"` the actions of `URLRemover` go on as they do there; on its way
a process may get the signal (`GetsSignal`), and its shutdown goroutine may already be running.
`cutOff` is a history variable: a process that was replacing the pair has not written both files. `Discard` is the operator, who
removes one of the files to have them made anew. A restarted client may ask for its deletion
again.

## 3. Runs

| Run | Bounds | Shows |
|---|---|---|
| `inmemory` | 2 goroutines, 2 short URLs, 2 originals, 2 users, batches up to 2 | types, answers of `AddURL`, batches, deletions and listings under interleaving, ownership, refinement of `URLStore` |
| `inmemory_duplicates` (violated) | 2 goroutines, `AddURL` only | two concurrent `AddURL` calls bind one original URL twice |
| `file` | 2 goroutines, 2 short URLs, 2 crashes, failed and torn writes, a body that is not text | promises survive restarts as text, map and file agree, a failed start has a reason, the file refines `URLStore` |
| `file_unique` | no batches, 1 crash, no torn writes, fairness, a body that is not text | the mutex keeps original URLs unique, a start is refused only for two bodies that are one text, every call returns |
| `file_reopen` (violated) | 1 batch of 2, no failing write | a batch that repeats an original URL leaves a file the next process refuses |
| `pgsql` | 2 goroutines, 2 connections, 2 short URLs, 2 originals, 2 users, batches and lists up to 2, faults | answers are true, deletions take effect, calls are atomic, the table refines `TransactionalURLStore` |
| `pgsql_returns` | 1 user, no lists, fairness, faults | no circle of transactions or of waits for a connection lasts |
| `pgsql_read` (violated) | 1 goroutine | `GetOriginalURL` returns the empty string and no error |
| `server` | 2 browsers, 2 originals of which one is not text and not left alone by a redirect, short URLs of 1 and 2 letters, 2 answers on their way, a failing store, a clock that outlives a token | answers are true, own URLs only, deleted URLs gone, who waits finds what they created |
| `middleware` | 2 requests at a time, 2 gzip writers, 2 methods, 1 status and the 500, panics and lost clients | answers are whole, log lines true, warm caches never written |
| `service` | 3 processes, 3 scripts, 2 deletions, 30 settings, kills, errors of the store, fairness | the strongest source wins, starts recover, accepted deletions reach the store while the process serves, none is refused, a shutdown ends |
| `remover_lost` (violated) | 1 deletion, no errors | an accepted deletion is lost at the end of the process |

**Why the bounds are enough.** Every property relates at most two goroutines and two short
URLs: the acting one and the one it races (for the search of `AddURL`, which passes any number
of keys, `DuplicatesReported` is proved).
Two users separate owner from stranger, two originals a duplicate from a distinct URL. Batches
of two have a first pair visible before the last. Two crashes allow a restart from a file
written after a restart; `MaxRecords` admits a line, its deletion and one more. Two
deletions put one in the store and one behind it; three processes let one be killed in what the
one before it was killed in, and a third find the result. The settings of `MCService` give every
kind of option by every source, also empty, malformed and both false and true. Deadlock checking is
off only in `service` and `remover_lost`, where the (last) process ends; in the other modules a
client may always call again. In `server` one of the two originals is not text, so its batches have one
URL, perhaps twice; batches of different URLs are for `ClientsAreToldTheTruth` and the runs of the
stores.

**Fairness.** `FileURLStore`: the Go scheduler runs every goroutine again (`WF` on its steps),
and `sync.Mutex` goes into starvation mode for a goroutine that has waited a millisecond, so a
waiter that finds it free again and again gets it (`SF` on `Lock`). `URLRemover`: handlers,
senders, the remover and `main` run again (`WF`); requests, signals and failures to listen
are never due. A store call is assumed to return. `Service` adds the way of `main` to listening
(`WF` on `StartingUp`); starts, kills and the operator are never due. `PostgresURLStore`: the pool serves `Acquire` in
the order of the calls and PostgreSQL the waiters of a row, so who can go on again and again
does (`SF` on `Steps`); no fault is ever due.

## 4. Proofs

Every safety property the passing runs check, the two refinements among them, is also a theorem,
for all values of the constants. Each rests on an inductive invariant; TLC confirmed the new parts
of it on the instances of the runs before they were proved.

`InmemoryURLStoreProofs`, for any sets of goroutines, URLs and users and any `MaxBatch`:

* `TypeCorrect`: `Spec => []TypeOK`.
* `Refinement` and `Permanence`, assuming `~IDsCollide`: every step is a step of `URLStore` or
  leaves the map alone, so nothing is ever unbound, rebound or revived. `TypeOK` is too weak:
  the store writes without looking at the map. `Inv` adds that short URLs still to be stored are
  free (`PendingIDsAreFree`) and all different (`IDsAreDistinct`), and that the record a deletion
  will swap back is still the one in the map up to its mark (`LoadedIsCurrent`). `StepRefines`
  derives the refinement from `Inv`; `InvPreserved` shows `Inv` inductive, using the refinement
  itself for `LoadedIsCurrent`.
* `DuplicatesReported`, assuming `~IDsCollide`: the search of `AddURL`. `SearchInv` adds that
  what was bound when the call began still is (`BeforeSurvives`) and that the keys passed held no
  answer then (`Passed`).
* `BatchesResolve`, `DeletesTakeEffect`, `ListingsAreAccurate`, assuming `~IDsCollide`.
  `ResultsInv` says how far each loop has got: the pairs before `i` are stored, the short URLs
  before `i` that were the caller's at the call are marked, the keys visited were listed if they
  were live throughout and nothing else was. All three rest on the refinement: what a loop has
  done, nobody undoes.
* `OwnersDelete`, assuming `~IDsCollide`: whatever a deletion has loaded is its own user's, and
  still the record in the map when it is swapped. Without the assumption a repeated short URL may
  have replaced the record between the two, and the stale one is put back over it.

`FileURLStoreProofs`, for any number of goroutines, crashes, failed and torn writes:
`TypesAreRight`, mutual exclusion included, `PromisesKept`, `MapAndFileMatch`, `FailuresHaveAReason`,
`FileImplementsURLStore`, for any coercion of URLs to text. The invariant ties together the map, the file and the one goroutine
inside the mutex: a line that binds a short URL comes before the one that deletes it and no line
rebinds it (`LinesSurvive`), the map is ahead of the file by at most what the goroutine has put
and not written, unless a write has failed (`MapFollowsFile`, `MapIsWritten`, `LineIsNext`), what
was promised is in the file (`PromisesAreDurable`), and while a process loads nobody is inside a
method (`LoadingIsQuiet`). The refinement maps `urls` to the content of the file: a crash leaves it
alone, and each written line adds or marks one record. Two results need an
assumption: `OriginalsStayUnique` assumes `MaxBatch = 0`, because
`AddURLs` does not look for duplicates (`file_reopen`), and `CoercedURLsAlone` assumes in addition
`TornWrites = FALSE`, because a line cut short cannot be read. They are the bounds of the run that
checks these properties. The second is about two bodies that are one text: the originals
in the file are unique but for texts that stand for several URLs (`UniqueButForCoerced`).

`PostgresURLStoreProofs`, for any pool, any number of goroutines and any faults, short URLs that
repeat included: `TypesAreRight`, `AddsTellTheTruth`, `DeletesTakeEffect`, `CallsCommitAtOnce` and
`TableIsTransactional`. The invariant says what an open transaction knows: two of them never hold
rows with the same short or original URL (`NoClash`, because the second one waits), an open addition
fits the committed rows (`Inserts`), an open deletion holds the newest version of each row it has
marked (`Updates`), and what was committed when a call began still is (`BeforeSurvives`). So a
`COMMIT` is one step of `TransactionalURLStore`, and every other step leaves the table alone.

`ShortenerProofs`: `ShortURLsAreText` and `ShortURLsDiffer`, for every number and any alphabet of two
letters or more. The library's induction theorems take an operator as a parameter, which the
provers at hand cannot instantiate, but the well-foundedness of `<` on `Nat` is a fact about sets:
a non-empty set of counterexamples has a least member (`LeastNumber`). From it follow that the
recursive definition of `Digits` defines a function (`DigitsDef`) and both theorems.

`ServerProofs`, for any number of browsers and answers on their way, any batches, lost answers,
tokens that expire and a store that fails: `TypesAreRight`, `ClientsAreToldTheTruth`,
`BrowsersAreKeptApart`, `DeletedStaysGone`, `WaitingIsRewarded`. The argument is about who
`Knows` a user ID: who holds a cookie with it, is about to get one, has made a short URL with it or
asked for a deletion with it. `IdentitiesAreOwn`: only one browser does, and an ID nobody has been
given is known to nobody. For `WaitingIsRewarded` also the future counts: an answer on its way to a
browser that waits is its only one (`OneAnswerEach`), it brings a cookie only if the browser has
no valid one, and what it says was created belongs to the identity the browser will have then
(`AnswersBringIdentity`), so that once told, the browser has the identity until it expires
(`IdentitiesAreKept`). `RequestsKeepHistory` proves this once for every request behind `Auth`, from
what the handler does to the store; the handlers then differ only in what they say. That the store
takes pairs under short URLs nobody has is `ShortURLsDiffer`.

`URLRemoverProofs`: `NoRefusal`, from the invariant that `doneCh` is closed only after the drain
and that no handler runs then; `RemoverTypes`, where `TypeOK` is inductive: a blocked sender is in
the queue once, the deletion received is in the remover's hand.

`ServiceProofs`: `Recovery`, from how far a start has come with the schema and with the two files
(`StartsRecover` says nothing of the places before listening), and `ServiceNoRefusal`: `DrainInv` of `URLRemoverProofs`
holds through starts and kills as well (`StepsOfTheRemover`: for the remover every step of the
service is one of its own, a start or an end). `Precedence` computes `getConfig` option by option
(`ConfigOf`). `ServiceTypes` adds that a process has been started if one is alive and that
it comes to the certificate only with HTTPS.

`MiddlewareProofs`, for any number of requests, writers, methods and statuses: `MiddlewareTypes`,
`WholeResponses`, `TrueLogLines`, `SafeWhenWarm`. `MiddlewareInv` adds to the types that a writer
that is taken is not in the pool and writes to who took it (`WriterInv`, from which no two
requests share one), what has been received at each place of a request (`Received`), and
that the logger has seen what was sent unless writing failed (`Observed`). Every step but a
crash is one request's, so `OneSteps` leaves each action its own request's part to keep.
`SafeWhenWarm` follows because a warm look-up neither misses nor overlaps a store.

**Assumptions.** Those on the constants are the named `ASSUME`s, which TLC evaluates in every run;
they keep sentinels apart from values and numbers within `Nat`. The assumption `~IDsCollide` is
needed: `Store` overwrites whatever the key holds, so a repeated number takes a short URL from its
owner. The chance is small (the number has 32 bits), but no code excludes it; the table of the
PostgreSQL store does.

**Only model-checked**: the liveness properties (`CallsReturn` of two stores,
`AcceptedReachTheStore`, `ShutdownEnds`), because TLAPS proves nothing about `ENABLED`, on which weak
and strong fairness rest. The violated properties are false, so there is nothing to prove.

## 5. Disagreements found

The violated runs, described with their sources under `findings` in `PROJECT.json`:

* `inmemory_duplicates`: `AddURL` of the in-memory store is not atomic, and two concurrent calls
  bind one original URL twice.
* `file_reopen`: a batch with a repeated original URL is answered 201 and makes the file unreadable for
  the next process.
* `pgsql_read`: `GetOriginalURL` of the PostgreSQL store takes most errors for success.
* `remover_lost`: a deletion answered 202 may be lost at a graceful shutdown.

Other places where the code does what a reader would not expect are part of the modules, and the
properties say what happens there, or name the case they leave out:

* The file has the text of a body, not its bytes. After a restart a URL that is not UTF-8 is its text
  (`PromisesAreKept`), and two that have one text make a file the next start refuses
  (`FailsOnlyForCoercedURLs`).
* After a failed write the file store has a URL in its map only, and `AddURL` names the short URL of it
  to the next client, which no restart brings back (`encErr` in `MapMatchesFile`).
* A redirect rewrites a URL without a scheme, such as the `foo.net` of the tests. After an unknown error
  of the store it leads to `/`, and a deleted short URL expands to the empty one
  (`AnswersAreTrue` allows these two and no others).
* A failed listing is answered 204, as if there were no URLs (`failed` in
  `PatientBrowsersFindTheirURLs`).
* A handler that cannot write answers 500 too late, which is logged (`LogLinesAreTrue`). Two first
  requests of a kind may lose a log line or end the process (`Misses`, `Crash`).
* A deletion the remover takes up during the shutdown makes the PostgreSQL store panic (`Panic`), which
  `ShutdownEnds` takes for an end. `IsAvailable` panics likewise, in a handler.
* A browser whose first requests run at the same time keeps one of several identities, and loses it
  when the token expires (`raced`, `expires`).
* A process killed while it replaces one of two certificate files leaves a pair that no later start
  repairs (`cutOff`); a dirty schema stops every start until an operator repairs it, as golang-migrate
  has it.

## 6. Plan

1. Theorems: that `TransactionalURLStore` keeps bindings for ever and original URLs unique, and with
   it that the table of the PostgreSQL store does; the same of `URLStore` and the file.
2. `Server` over a store whose content may differ from what it answered (`FileURLStore` after a
   failed write), if a property of the two together comes up.

## Not modelled

* Printing of build information, the texts and content types of answers, the zap logger itself:
  no state that a property is about.
* Signing of tokens and making of keys: cryptography; a token is what it says, a certificate who
  made it.
* Expiry of the certificate after a year: no code looks at it.
* The dialogue of `cmd/client` and `Client.Shorten`: one request each, no state.
* The static analyser, the store contract tests and the delegate store: development tools. The
  contract tests are where several properties of the stores come from.
