# CitrineOS OCPI in TLA+

This directory is the verification project of the CitrineOS OCPI server (`src/`): TLA+ modules that model its
concurrent and failure-prone parts, TLC configurations that check them on small instances, and TLAPS proofs of the
properties that matter most for every value of the constants. `PROJECT.json` lists components, runs, the source
lines of every definition, hazards, findings and theorems in machine-readable form.

Contents: [the system](#1-the-system) · [what is modelled](#2-modules) · [runs and bounds](#3-runs-and-bounds) ·
[fairness](#4-fairness) · [proofs](#5-proofs) · [findings and known behaviours](#6-what-does-not-hold) ·
[not modelled](#7-what-is-not-modelled) · [plan](#8-plan) · [how to run](#9-running-it)

## 1. The system

The server speaks OCPI 2.2.1 for a charge point operator (CPO): it pushes sessions, CDRs, tariffs, EVSE states and
tokens to partners (eMSPs, or hubs such as Gireve behind which roaming partners sit), executes commands that the
partners send, and stores what partners publish themselves. Its data are in the Postgres database of the CitrineOS
core, reached through a GraphQL service. All of the server's processes are single-threaded JavaScript: **a handler
runs without interruption from one `await` to the next, and anything may happen between the two**. Every model
takes exactly these segments as its steps.

    Postgres triggers -> pg_notify -> DtoRouter -> RabbitMQ -> one receiver per module -> event handlers
                                                                                            |
       partners <- HTTP - BaseClientApi.broadcastToClients <- broadcasters <----------------+
                               | failed pushes to Gireve
                               v
                    GireveBroadcastRetryQueues (table) <- CronJob: GireveBroadcastRetryWorker -> partner
       partners - command -> CommandsService -> CommandExecutor -> OCPP core
       partners <- result <- postCommandResult <- callback endpoint <- OCPP core
       partners - PUT, PATCH, POST, GET -> AuthMiddleware -> services -> tables -> paginated lists -> partners
       administrator -> pulls of partners' lists, bulk pushes, onboarding, credentials, deleteLocationOCPI
       operator at a shell -> cleanup scripts -> tables

### Components, their state and what makes them correct

| Component (code) | State | Operations | What is hard | Correct when |
|---|---|---|---|---|
| Gireve retry outbox and worker (`GireveBroadcastRetryOutbox`, `...Worker`, `Server/src/gireve-retry`) | the queue table; the batch a run holds | upsert after a failed push; release stale locks, claim, retry, mark, reschedule | find and write are two requests; a run dies anywhere; answers lost after the commit; live failures during a retry | a row is closed only when its payload was answered; no row stays open for ever; a CDR is marked only if accepted |
| Session broadcast (`03_Modules/Sessions`, `SessionBroadcaster`, `SessionBroadcastDedupeService`) | fingerprints and in-flight keys in memory | insert and update handler: read, map, decide, push, CDR, clear | handlers of one transaction interleave; failures at each await | no duplicate pushes; no key stuck |
| CDR delivery (`CdrBroadcaster`, `CdrsService`) | `Cdrs` rows and their `successfullySentAt` | find or insert, post, mark; retry by the outbox | racing updates of an ended transaction; ids that are computed again; a refusal inside HTTP 200 | one CDR id per transaction; marked only if accepted |
| Session and CDR contents (`BaseTransactionMapper`, `SessionMapper`, `CdrMapper`) | the object of one handling | merge row and payload, look up tariff and location, map session and CDR, charging periods | tariff, location and row change between the reads; boundaries and rounding of periods | CDR, session message, listed tariff and energy agree; periods add up |
| Event receiver (`RabbitMqDtoReceiver`, `AbstractDtoModule`) | connection, channel, subscriptions, reconnect flags | init, subscribe, shutdown; disconnect, forced reconnect, replay, redeclare | closes arrive during a reconnect, from old connections, or twice; a consumer is cancelled alone | never deaf; no event handled twice per channel; recovers |
| Event capture and routing (migrations, `PgNotifyEventSubscriber`, `DtoRouter`, `RabbitMqDtoSender`) | LISTEN set, connection, channel | notify, route, publish, reconnect | a lost database connection is not restored; publishing while RabbitMQ is away | events keep their order; what happens while all is sound is handled |
| Commands (`CommandsService`, `CommandExecutor`, `CommandsClientApi`) | a cache entry and a timer per command; a token's authorization row | check, store the authorization, call the core, take answers, time out, post results | answers after the timeout, repeated or none; a restart; rows that change between check and call | one result unless the OCPP call failed; a result in the end; a command does what it says for the party that gave it |
| Partner pushes (`BaseClientApi`) | none of its own | loop over partners, filter, route through hubs, swallow failures | one partner fails among several | each partner is tried; failures are queued if retryable |
| Own EVSEs and locations (`03_Modules/Locations`, `LocationsBroadcaster`, `AdminLocationsApi`) | rows, what partners were told | status and tariff changes of connectors; deleteLocationOCPI; GETs | status computed before an await; EVSEs that come and go during the removal | the last change handled alone is what partners know; a removal tells all |
| Own tariffs and tokens (`TariffsBroadcaster`, `TokensBroadcaster`, `03_Modules/Tariffs`, `Tokens`) | rows, links of tokens to tenants, what partners hold | PUT, PATCH, DELETE for each change; push of all rows by pages | overlapping handlers; retries that bring older payloads; rows that change during a push of all | a partner reached by the last change, handled alone, has the row |
| Paginated lists (`PaginatedMiddleware`, services) | none | a page and a link to the next | rows enter and leave between pages | a row that stays is reached |
| Credentials (`CredentialsService`) | each partner's profile: tokens, roles, endpoints | register (tokens A, B, C), post, put, regenerate, delete, unregister | whole-profile read-modify-write over HTTP requests; either side's failure | both sides agree on a token in the end, or one can renew |
| Tokens (`TokensService`) | authorizations | PUT, PATCH, real-time authorization with all partners | find-then-write; merges in memory; timeouts | a token stays with its owner; the best answer in time wins |
| Received locations and their pull (`LocationReceiverService`, `LocationsPullService`) | locations, virtual stations, EVSEs, connectors, tariffs of connectors | PUT and PATCH at three levels; paginated pull with reconciliation | many writes without a transaction; pages of a list that changes; a PUT during a pull | one station per location; only what the partner removed is marked removed |
| Received tariffs, sessions, CDRs (`TariffsService`, `SessionsService`, `CdrsService`, pull services) | rows, tariff elements, charging periods | PUT, PATCH, POST, DELETE, pull | element sets replaced in three requests; lists appended by read, merge, write | no element set lost, no period lost or doubled, what is listed is stored |
| Whose rows a request touches (`AuthMiddleware`, services' queries) | none | four namings of a party in one request | direct and roaming parties with the same ids | a party's rows are its own |
| Roaming partners and billing (`RoamingPartnerService`, `AdminModuleApi`) | rows of partners, customers of the billing system | five routes | repeated and overlapping calls that fail half-way | what the administrator is told is there |
| Cleanup scripts (`Server/scripts`) | none | count, find a batch, delete, one script per table | order of scripts, rows that return, crashes | the partner's rows go and no others |
| Partner certificates (`PartnerMtlsCertificateService`) | caches of agents and clients | get agent, get client | expiry of one cache under another | a rotated certificate is used |
| Versions, charging profiles, validation, configuration, UI | none | one request each | nothing concurrent | (not candidates for a model) |

### How the components interact

* **Shared database rows.** The live push and the cron run share the outbox table; every update of an ended
  transaction and the cron run share the CDR's row; a pull and the partner's own requests share what both store. No
  transaction spans two requests, so each request is atomic and nothing more is. Three statements of the outbox are
  conditional (release, mark sent and reschedule test the status); the claim is one SQL function of the core
  (`FOR UPDATE SKIP LOCKED`).
* **Events.** A write of the core notifies; the notification crosses RabbitMQ and starts a handler. Handlers of one
  row run concurrently and nothing orders them; a handler sees the row as it is when it reads it and the
  notification as it was when the row was written.
* **The cache.** A command's context is set by the executor, read by the callback endpoint and the routing,
  replaced by "resolved" when a result is posted, and watched by the timer.
* **HTTP.** A request may be lost before or after it took effect at the partner; a 2xx may still be an OCPI refusal.

## 2. Modules

| Module | Models |
|---|---|
| `RetryObligation` | what the outbox promises: a stored payload is owed until answered or replaced (abstract) |
| `GireveOutbox` | live pushes of successive versions of resources, `upsertOnFailure`, clocks, cron runs |
| `SessionBroadcast` | the writes of one transaction and their handlers; the dedupe service |
| `CdrDelivery` | `broadcastPostCdr` for each update after the end, and what the retry does to the CDR |
| `TransactionMessages` | what the session messages and the CDR of one transaction say |
| `SessionPeriods` | the charging periods computed of the stored meter values |
| `RabbitReceiver` | one module's receiver with its broker |
| `ChangeCapture` | triggers and functions of the database under migration, and which changes handlers pass on to partners |
| `EventPipeline` | row, notification, router, sender, exchange, queues and handlers, composed with `RabbitReceiver` |
| `CommandResults`, `CommandDispatch` | one command from its request to its last result; what commands say, and what the station does |
| `EvseStatus`, `OwnLocation` | status and tariffs of an own EVSE at partners; an own location's list, GETs and removal |
| `OwnTariff`, `OwnToken`, `BulkPush` | what partners have of an own tariff, of an own token; the push of all of them, by a service or a script |
| `Listings` | a partner that pages through a list |
| `ReceivedTokens`, `LocationsPull` | a partner's token and the real-time authorization; the pull of locations |
| `ReceivedLocation`, `ReceivedFields` | the rows of a received location; its columns |
| `ReceivedSession`, `ReceivedTariff`, `PartnerPull` | a received session, a received tariff; pulls of tariffs, sessions and CDRs |
| `PartyRows` | whose rows a request reads and writes |
| `CredentialsHandshake`, `Onboarding`, `PartnerCleanup` | tokens of the two sides; rows set up for a partner; scripts that remove a partner's rows |
| `MC<Module>` | instances, compositions, symmetry and state constraints for TLC |
| `<Module>Proofs` | theorems and TLAPS proofs (section 5); those of what partners send are `LocationProofs` (a location and its columns, and the composition) and `ReceivedProofs` (the rest) |

Components that share no row are put side by side by `MCPushed`, `MCOwn`, `MCReceived`, `MCAsked`, `MCEventPipeline` and
`MCCommandResults`: a variable says which of them a behaviour is about, the others rest at one initial state,
so a run explores the sum of their states and not the product. In MCReceived a property asks
for what it says of the part that moves; a part at rest is at an initial state, which the run checks too, in a
behaviour of that part. `LocationProofs` proves the conjuncts of every part at every state (`ReceivedIsStored`).

How state and actions correspond to the code:

**GireveOutbox.** `row[r]` is the table's row of a dedupe key with status, payload version, `attemptCount`, and the
two comparisons with the clock that the code makes: `due` (`nextRetryAt <= now`) and the age of `lockedAt`. `push[r][v]`
is the live push of version v, at its HTTP request, its FIND or its write, and what FIND returned.
`pc[w]`, `batch[w]`, `cur[w]` are a run's position and local variables. Each request of `upsertOnFailure`,
`releaseStaleLocks`, `claimDueRetries`, `retryOne`, `markSent` and `reschedule` is an action; a separate action exists
where a request can fail after its commit (`ClaimAnswerLost`, `MarkSentError`); `RunDies` is possible at every point,
and also stands for the exceptions that end a run (the partner query is outside `retryOne`'s try block).
`answered`, `accepted` and `lastCall` are history variables. The claim function and the table belong to the core and are external.

**SessionBroadcast.** `tx` is the row, `event[e]` what the trigger put into the notification of write e, `body[e]` the session
the handler merged from both, reduced to what the fingerprint tells apart. `fingerprint` and
`inFlight` are the dedupe service's two collections. `ReadTransaction`, `MapSession`, `StartBroadcast` or `SkipBroadcast`,
`FinishBroadcast` or `FailBroadcast`, `PostCdrAndClear` are the segments of a handler between its awaits; each has its
failing counterpart. `Gireve` selects the key: Gireve takes PUT for updates as well.

**CdrDelivery.** `stored` and `sent` are the row of `Cdrs`; the table's unique key on transaction and partner is what
`InsertCdr` depends on. `id[h]` is the id the handler computes, in the format of the program version that
handles the update: versions may run side by side in a rollout. `queued` and `marking` reduce the outbox and
its run to the id they hold; `GireveOutbox` has the rest.

**TransactionMessages.** `txRow`, `price` and `place` are the transaction, its tariff and its location; `notice[u]` the columns
the trigger told of write u; `work[u]` the handler with what is on its object: the merged row, the tariff once looked up, and
whether the location was there. Each lookup is an action, so the row, the tariff and the location may change between any two. The
CDR is mapped from the same object, with the tariff read once more to be listed. `HandlersDie` is a crash, after which a notification may be
redelivered; `ServeCdrs` is the list of CDRs.

**SessionPeriods.** `tx` and `readings` are the row and its meter values in the order they were stored. `Merged` to `CdrPeriods`
translate `BaseTransactionMapper` step by step, with its rounding and its tests for a register in Wh and for values without
energy; `PutSession` and `PatchSession` are what a partner keeps that appends the last closed period.

**RabbitReceiver.** A connection has one channel, so both carry one number. `current` is `this._channel`, `reconnect` the
position in `_handleDisconnect` (and `_reconnecting`), `todo` the rest of `_resubscribeAll`'s loop, `pending` the calls
of `_forceReconnect` scheduled by close listeners and catch blocks, `subscribing` the `subscribe` under way. What amqplib does
when a channel or connection closes follows the receiver's own test double: pending calls reject, the channel
emits `close` before its connection, `close()` on a closing connection rejects.

**EventPipeline.** `listening` is whether the LISTENs are in place, `sender` the sender's connection (`dead`: its channel alone
closed), `asserting` the calls of `sendEvent` that await `assertExchange`, `wire`, `queues` and `started` where events are on
their way. An event that reaches a sender that is away, or a handler that ends after its channel closed, ends the process, for
nothing catches the rejection. The receiver's actions are `RabbitReceiver`'s.

**ChangeCapture.** `schema` is what the migrations leave in the database: the triggers with their tables and operations, and the body of each function, abstracted
to which operations and columns it notifies. Each migration is the two lists of statements of its `up` and `down`; `applied` is what `SequelizeMeta` lists, `migrator` the statements still to
come. There is no transaction around them, so each is committed alone (`Executes`), and the migrator may end between two (`MigratorEnds`) or at one that the database refuses (`StatementFails`).
`Broadcast` is what a handler does with the notification of a change: it goes by the columns that the notification has, and `Told` says whether partners hear of the change as the schema now is.
`ChangesAreCaptured` says that a database which lists all migrations has the triggers of one migrated without a break (`SchemaConverges`), that at no point between statements is a partner's row broadcast
as own (`NothingEchoed`), and that on a migrated database exactly the changes that partners should hear of are broadcast (`OwnChangesTold`). An undo that broke off (`torn`) is excepted from the first and the last,
for its half-removed triggers stay. Two migrators at once are not modelled.

**CommandResults.** `entry`, `elapsed` and `watch` are the command's cache entry, its lifetime and the promise of
`cache.onChange`. A result can come from the executor (FAILED), from each answer of the core, and from the timer (TIMEOUT):
`step[p]` follows each through `postCommandResult`. The cache survives `Die`, timers and requests do not.

**CommandDispatch.** `dispatch[c]` is a command with its numbers, `authorization` the token's row that a start writes for the core
to find, `sequence` the row of remote start ids with the upserts that nobody awaits, `requests[c]` what the station is asked. The handlers of
OCPP 1.6 and 2.0.1 differ in the ids they send. The core and the station are external (`StationActs`).

**EvseStatus.** A handler is called with the notification's column and the location's `disableOCPI` of that moment (`StatusChanges`, `TariffsChange`),
reads the rows, which may fail or find none and then pushes nothing (`ReadFails`), and PATCHes one partner after the other (`Handle`). `known[p]` is what p was told, `due` and `settled` are history.
**OwnLocation** has `deleteLocationOCPI` as the six steps of `Remove`, with its two lookups of the EVSEs, and the status pushes beside it; `late` is history, the EVSEs that came after the first lookup.

**OwnTariff.** The four triggers call handlers (`InsertOwn`, `ChangeElements`, `ChangeOwn`, `DeleteOwn`) that read (`ReadOwn`) and reach or fail at
each partner; `has[p][i]` is what p holds under the id `i`, its own or the formatted number. `outbox` is Gireve's queue, reduced to a version per id.
**OwnToken** has the links to tenants, whose notifications name the partners a handler PUTs, PATCHes or invalidates at. **BulkPush** is the
loop over pages of `push...ToPartner` with its summary, and the same loop in the script that pushes all tokens and in the one that invalidates them at the partner (which read on until a page is empty, and look only at the
HTTP status of an answer), beside rows that come, change (and are broadcast) and go.

**Listings.** `GetPage` answers by offset and limit with the total each service gives; `Enters` and `Leaves` change the list at any place.

**ReceivedTokens.** `tokenCall[c]` is a PUT, PATCH or real-time authorization at its find, its group or its write; `answers[p]` is what each partner
answers within its ten seconds. **LocationsPull** has the page loop with `seen`, the query of what is known and the marking; `shown[l]` is what is stored of a location.

**ReceivedLocation.** Every request of `LocationReceiverService` is a step: location, station, EVSE, connector, tariff links, then the reconciliation of what the
body, which may be without EVSEs, did not name. `hidden` is history: the location and the connectors that were marked before the call began. `CallBreaks` at any of them. **ReceivedFields** follows the columns through PUT, PATCH and GET of two parties, with the
touching of the parents' `updatedAt`. **ReceivedSession**, **ReceivedTariff** and **PartnerPull** are find and write of a session's periods, a tariff's elements and a pulled item.

**PartyRows.** A request is one step; `from` are its routing headers, q the party of its path. What it does when it overlaps others is in the modules above.

**CredentialsHandshake.** `profile` is the row's profile, read once and written whole by each operation `op[o]`; the partner holds our token and accepts its own.
**Onboarding** has find, insert or append of the role, the billing request and the pull in the background, `uniqueKey` being either, for the key is not visible in the repository.
**PartnerCleanup** has the six scripts, each started for a tenant (`TENANT_ID`) and with its own clauses, and the three things a foreign key may do when its row is deleted (`onDelete`).

## 3. Runs and bounds

| Run | Instance | Distinct states | Properties |
|---|---|---|---|
| `outbox_cron` | a CDR and a session, two versions each, three live pushes in all, one run slot, batches of two | ~1,000,000 | `SentMeansAnswered` `CdrMarkedMeansAccepted` `SentReopensOnlyByLiveFailure` `ImplementsObligation` |
| `outbox_drain` | one CDR, two versions | small | `RetriesDrain` |
| `pushed` | CDR: four updates, two id formats, Gireve. Session: three writes at the hub. Removal: two EVSEs of two stations, two partners, three edits. Messages: two writes, one edit of the tariff or deletion of the location, one crash | 1,173,638 | `OneCdrPerTransaction` `MarkedWasAccepted` `NoStuckKey` `InFlightGuardsPushes` `NoRepeatedPush` `RemovalTellsAll` `CdrIsTrue` |
| `own` | periods: four instants, three readings. EVSE: two connectors, two partners, two handlers, three changes. Tariff: two partners, two handlers, three versions. Token: two tenants, two senders, four writes. Bulk: three rows, pages of two, two changes. Lists: up to three rows, two moves | 405,461 | `OwnIInv` `PeriodsAddUp` `PatchesBuildTheList` `ToldIsTrue` `PagesReachAll` `ChangesArePushed` |
| `received` | location: bodies of none, one and two EVSEs, a tariff that may not be stored yet, two of three calls at a time. Columns: two calls, two parties. Session: four calls, two at a time. Tariff: three calls, all at a time. Pull: three items of three parties with one id, of tariffs without a unique key, sessions and CDRs with one. Credentials: three operations, two at a time, two faults. Onboarding: two calls. Cleanup: one location tree, a station of another tenant's, batches of one, two scripts of which one is that of the links, two tenants | 695,010 | `ReceivedIInv` `NoDuplicates` `StoredAlone` `PullsMirror` `PeriodsStay` `ConnectionSurvives` |
| `asked` | a direct eMSP and a hub, two calls at a time; a pull of two of three locations by pages of one, two changes of the list | 692,382 | `AskedIInv` `OwnerStays` `BestAnswerWins` `GoneIsHidden` `KeptStaysVisible` `AskingEnds` |
| `pipeline` | two events of one subscription, a receiver with two, two faults, five connections; besides, a receiver that boots; besides, the twenty migrations, two that break off and two that are undone | 99,581 | `PipeIInv` `ChangesAreCaptured` `DroppedOnlyInRepair` `WhatIsWaitedForComes` |
| `receiver_up` | two subscriptions, three faults, seven connections | | `NeverDeaf` `OneConsumerPerChannel` `Recovers` |
| `command_results` | all types of commands, two answers, with or without hub; and two commands of two parties, a hub and one behind it, to a station of either version with three EVSEs | 1,422,959 | `LateResultsAreFailures` `DoneAsGiven` `Settles` |
| `listing` | a list of up to three rows | small | `LinksReachEveryRow` (violated, section 6) |
| `removal_late` | two EVSEs, one there at first, one partner | small | `RemovedHereToo` (violated, section 6) |
| `tariff_deleted` | two partners, one handler | small | `DeletedIsGone` (violated) |

What each run shows is said in `PROJECT.json` ("about"), what each property means above its definition. Every property of a
passing run is known to fail for at least one plausible bug: the definitions commented as `Mutant:` beside the correct
ones are those bugs (a status test dropped from `markSent`, `markFailed` forgotten, ids not taken from the stored row,
`close()` believed to work, a token's links read after its delete, a transaction given to a stop by its direct partner, ...). Properties of
several components that one run carries are named together (`ToldIsTrue` of EVSE, tariff and token), with mutants for each component.

Why the bounds are enough:

* **Outbox.** The conflicts are between two live failures of one key (two versions), between a run and a live failure,
  and between the two items of a batch (two resources). Slots are reused, so one slot already has a run that
  crashes followed by others. `FewPushes` limits the live pushes to three of the four possible: two for one key and one for
  the other. It constrains states of a safety run only; the liveness run has no constraint. `MaxAttempt` is
  the attempt at which the backoff reaches its cap.
* **Sessions.** Two keys exist; three handlers are the least that let one be in flight, one be dropped
  and one come after, the insert or the end among them; the theorems are of any number. Gireve is the harder case for
  safety, as all handlers share one key.
* **CDRs.** Two handlers race for the insert, a third finds the result, the fourth comes after a crash. What a CDR says depends on
  the write that ends the transaction and one beside it.
* **Receiver and pipeline.** A fault each in the old connection, its reconnect and the replay; each costs at most two
  connections, so the connections are never exhausted by the faults (otherwise `Recovers` would be blocked by the bound). Two events are an order.
* **Capture.** The migrations are the repository's own, all of them. Two breaks let a migration break off, be repeated and break off again; two undos reach the migration before the last applied one.
* **Commands.** A first and a repeated answer, besides the timer and the executor. A start and what may meet it: another start on the same ids,
  or a stop of its session. Of two EVSEs and one connector the row's id is not the number that the station has for it, so that a wrong translation shows; of the third EVSE and the other connector it is, where the two commands that
  confuse them (section 6) have to reach what they name. The third requester of the code, a partner without a hub, passes the same checks as the hub for itself.
* **Own rows.** Two handlers overlap, a third change comes when both have ended; two partners let one be told and one fail. Tokens need four
  writes: created, linked, linked to the other tenant, changed. A page, a full page and a page that is not full need three rows of pages of two.
* **Received rows.** Two calls overlap and a third is alone after what they left; for a tariff three may overlap, as its update is three requests. A pull needs
  an item before and one after the one that changes.
* **Requests one after the other** in `PartyRows` and the GETs of `ReceivedFields`: these questions are about keys and columns, the overlap
  is asked in the other modules.

`CHECK_DEADLOCK FALSE` is set where the system comes to rest by itself: sessions, CDRs, calls and commands end, rows are changed a bounded number
of times; a receiver that was shut down or has used up its faults rests. The outbox never rests (cron runs keep coming) and is checked for deadlock.

## 4. Fairness

* **Outbox (`FairSpec`).** The CronJob keeps starting runs; clocks advance; a run that nothing kills goes on. `RetryFairness`
  says that no failure is eternal: a request that is tried again and again gets through at some time (strong fairness per
  step of a retry and resource). Runs may still crash, claims be lost and requests fail any finite number of times between, and
  nothing is assumed of live pushes, which are bounded in number. Claims are oldest first (`FETCH_DUE_GIREVE_RETRIES`
  orders them), which justifies fairness per resource.
* **Receiver.** One weak fairness on what the event loop or the client library has already scheduled: connection attempts, declares, close
  handshakes and calls go on. Faults are bounded by `MaxFaults`, the usual "the broker is eventually stable".
* **Pipeline (`PipeFairness`).** The receiver's, the same for the sender (its publish and its reconnect go on), and the broker delivers what its queues hold.
  Nothing is assumed of events, of faults, or that a handler ends.
* **Commands.** Timers fire and a posting that has begun ends, in success or failure. Nothing is assumed of the core or the
  station: neither the OCPP call nor any answer needs to come.
* **Asked (`TokensFairness`, `PullFairness`).** Requests to the database end, and so do timers: the ten seconds of a real-time request, and for a page
  of a pull the client's own timeout (typed-rest-client's three minutes). Nothing is assumed of the partners.
* **Own (`EvseFairness`).** A handler that is called goes on: its requests to the database end and those to partners time out. The
  other parts of that run have safety properties only.
* Sessions, CDRs and received rows have safety properties only: the code promises no repetition to partners other than Gireve.

## 5. Proofs

All theorems hold for any number of resources, versions, runs, handlers, subscriptions, connections, partners, rows, pages, calls, faults or answers; they
assume nothing but the named `ASSUME`s on the constants (bounds are naturals, flags are Booleans, the names of things are disjoint, what a body
may hold is what the schema lets through, party and id identify an item, rows refer to what this server makes them refer to), and TLC evaluates those in the runs. Invariants have three lemmas each (`Init => IInv`, `IInv /\ [Next]_vars => IInv'`,
`IInv =>` the property) with one lemma or step per action.

| Theorem | States | Argument |
|---|---|---|
| `GireveOutboxProofs!TypeCorrect` | types | step by step |
| `ClosedRowsWereAnswered` | `Forbid => (Spec => []SentMeansAnswered)` | `markSent` looks at the status alone, so `SentMeansAnswered` is not inductive. `IInv` adds: one run at a time (`Sole`), items are held only during a retry, a row in processing holds the payload of the item that claimed it (`ItemsMatchRows`), and an item being marked was answered. An upsert that replaces the payload leaves processing, and only another run could bring the row back, of which there is none |
| `SentIsReopenedByLiveFailure` | action property, without `Forbid` | release, claim and reschedule all test the status |
| `MarkedCdrsWereAccepted` | `CdrMarkedMeansAccepted`, without `Forbid` | a run marks the CDR only after an accepting answer, which is remembered |
| `OutboxImplementsObligation` | `Forbid => (Spec => Obligation!Spec)` | refinement: an upsert owes, a row becoming sent discharges (by `IInv` its payload was answered), an HTTP answer answers, the rest stutters |
| `PushedProofs!SessionTypeCorrect`, `KeysAreReleased`, `PushesAreGuarded`, `BodiesAreNotRepeated` | types, `NoStuckKey`, `InFlightGuardsPushes`, `NoRepeatedPush` | `IInv` adds that a push under way is its key's last attempt and that an attempt which did not fail is its key's fingerprint (`AttemptIsRemembered`) |
| `CdrInvariant`, `OneCdrIsSent`, `MarkedCdrWasAccepted` | `IInv`, `OneCdrPerTransaction`, `MarkedWasAccepted` | there is one row, and every id being posted, queued or marked is that row's (`SendsTheStoredId`) |
| `LocationRemovalTellsAll` | `RemovalTellsAll` of `OwnLocationSpec` | `RemovalIInv`: no status is under way once the disabling was quiet (`QuietStays`); of the partners whose turn has come, each EVSE found is still to be PATCHed, told, refused or named in the summary (`TurnsAreTold`); what was found and is gone does not come back, as no id is used again; and what a partner was told of is marked here or came after the lookup (`OnlyLateDiverge`) |
| `CdrTellsTheTruth` | `CdrIsTrue` of `MessagesSpec` | `MessagesIInv`: only the handler of the one end comes to a CDR (`OneEnd`); what it has said and mapped is computed of what is on its object (`ObjectsAreSaid`), whose tariff is the current one until that is edited (`TariffIsCurrent`); the energy of the end is in the row, in its notice, then on the object (`EnergyIsKept`); and until something is written, every CDR says the same (`SaysWhatIsDue`), also after a crash and a redelivery |
| `PushedIsItsParts`, `PushedSafe` | all the properties of the `pushed` run, of its composition | a step of the composition is one of one part and a stuttering of the other three |
| `RabbitReceiverProofs!ReceiverTypeCorrect`, `ReceiverInvariant`, `NeverDeafOnceBooted`, `OneConsumerOnceBooted` | types, `IInv`, `NeverDeaf`, `OneConsumerPerChannel`, the latter three for a booted module | the current channel is the latest (`CurrentIsLatest`), closed channels are silent, a subscription is consumed or being declared but not both (`DeclaredOnce`), and an idle receiver has every consumer, is redeclaring it, or is about to replace the channel (`Covered`) |
| `EventsKeepTheirOrder`, `DropsAreRepairs` | `PipeIInv`, `DroppedOnlyInRepair`, behind a booted receiver | `PipeIInv` orders the places an event passes: what a handler has begun is older than what waits in its queue, that than what is on the wire, that than what awaits the exchange, that than what is yet to happen. A queue is copied to when the exchange has one consumer for it, which is where `ReceiverInvariant` is needed; so a drop means no consumer, and by `Covered` a repair |
| `CommandResultsProofs!CommandInvariant`, `LateAnswersPostNothing` | `IInv`, `LateResultsAreFailures` | once a result is marked the context is gone from the cache and the watch no longer armed (`ContextMeansUnresolved`); who comes after that has nothing to post (`LateIsIdle`) |
| `CommandsDoneAsGiven` | `DoneAsGiven` of `DispatchSpec` | `DispatchIInv`: the token's row is its party's and says so from the first start that stored it (`RowTellsOwner`), which no later command takes back; a command keeps what its checks found, and a transaction the token it is linked with; so what the stop's check compares is what the start stored; and a request has the numbers of what was named, or is one of the two that confuse them and does not have them (`ReachesTheNamed`) |
| `AskedProofs!TokensAreTheirOwners`, `TokenOwnerStays` | `TokensIInv`, `OwnerStays` | a call carries its partner's payload and at most a row of that partner (`CarriesOwnWords`), as the owner is looked at by whoever finds a row, and no one else writes to it |
| `TheBestAnswerWins` | `BestAnswerWins` | there is one real-time request at a time (`AsksAlone`), and from the selection on the answers stand and none precedes the chosen one (`AnswerStands`); that the selection is the best is a lemma on `Precedes`, with the ranks of `Priority` |
| `PullsKnowTheList`, `WhatHasGoneIsHidden`, `WhatIsKeptStaysVisible` | `PullIInv`, `GoneIsHidden`, `KeptStaysVisible` | of a pull from the first offset, what stays listed is seen, on the page, or ahead of the offset it goes to (`AheadOrSeen`): an added location only moves others back; what has gone is on no page and so unseen, found missing and marked. Lemmas on sequences: the range and places of a list into which one is inserted, or from which one is removed, and of a page |
| `AskedSafe` | `AskedIInv` of the composition | the two above; each part leaves the other's variables alone |
| `OwnProofs!OwnSafe` | `OwnIInv` of the composition: six inductive invariants and `DisabledIsNotPushed` | EVSE: what was last read alone is what each partner knows, or what the one handler that pushes will bring it (`Brings`, `PushesWhatIsRight`), unless its read failed; two handlers that push mean that nothing is settled. Tariff: a partner in touch has the current version under the tariff's id, or the one pushing handler, for Gireve else the outbox, will bring it, and nothing under the other id. Token: one sender alone leaves what is so with each partner it has reached. Bulk: what was there throughout is in the summary, in the batch or ahead, and nothing is ahead once a batch was not full. Lists: the rows missed are at most those that left, counted by cardinality separately for the rows behind the offset, where an arriving row pushes one back over it and a leaving row lets one slip. Periods: types |
| `OwnTold`, `OwnPaged` | `ToldIsTrue`, `PagesReachAll` of the composition | from `OwnIInv` |
| `ReceivedProofs!SessionPeriodsStay` | `SessionIInv`, `PeriodsStay` of `SessionSpec` | `SessionIInv`: until calls overlap, of two calls that both write one has ended (`CallsKeepApart`), so that a PATCH that is about to write has read what is stored and what is owed to the row; until a call is repeated, lists rise and what a call carries is newer than all that is stored (`ListsRise`) |
| `TariffsAreStored` | `AlonePutStores`, `NeverLeftEmpty`, `OneTariff` of `TariffSpec` | `TariffIInv`: a call that is alone and found nothing meets no row (`AloneFindsItsRow`), nothing stays of a call after one that is alone has ended (`NothingAfterAlone`), and a row without elements has a call between clearing and inserting them |
| `PartiesKeepTheirRows` | `RowsAreKept` of `PartySpec`, with `OneRowPerParty` | `PartyIInv`: what is told is under the key a query looks for (`KeptIsThere`), and a token's party is its partner (`TokensAreThePartners`), whose query has no other key |
| `CredentialsSurvive` | `ConnectionSurvives` of `CredentialsSpec` | `CredentialsIInv`: as long as no operation has begun beside another or after a fault, one is under way at a time (`OneByOne`), and each of its positions tells what either side holds of the other's tokens (`OnCourse`); a fault ends it, with one side still able to reach the other |
| `ListsArePulled` | `PulledIsStored`, `ExistsIsTrue`, `OneRowEach` of `PartnerPullSpec` | `PartnerPullIInv`: an item that was listed throughout is stored at least as it was, counted as failed, under way, or ahead of the offset (`NothingPassedOver`); a list into which one is inserted only moves others back; versions do not shrink (`VersionsGrow`); and what a find has found is there (`WhatIsFoundIsThere`), as no two items have one party and id |
| `PartnersAreOnboarded` | `OneRoamingPartner`, `OnboardedAsTold` of `OnboardingSpec` | `OnboardingIInv`: a row is of a call that made it or was there before (`RowsAreOfCalls`), and a call in its middle knows the row that it found or made (`KnowsItsRow`), so that what it links is its party's |
| `ScriptsSweep` | `SweptIsGone`, `OthersStay`, `CountedOnce` of `CleanupSpec` | `CleanupIInv`: a batch is of the partner's rows and of the tenant the script runs for, a row refers to what it always did or to less, in order every table that refers to the one being swept is swept, and references not nulled keep a row's parents as long as it is there (`Intact`). The partner's rows are a least set (`TheirRows`), so that a row is of them by its own partner or by a row of them that it refers to, and all have the partner's tenant (`RowsAreMadeSo`), so that a run for another one finds none |
| `LocationProofs!LocationStays` | `RowsAreWhole`, `OneOfEach`, `AloneStores`, `FullPullMirrors` of `LocationSpec` | `LocationIInv`: a call that may break off anywhere leaves no row without the one it belongs to (`RowsAreWhole`), as it has found or made that before (`CallIsGrounded`); a call makes one station at most, so the stations and the calls that may still make one are no more than the calls begun (`StationsAreCounted`); a call that began alone is alone (`AloneAreAlone`) and holds of its body what it has passed (`StoredUpTo`); what a full pull is about to mark is not of its body (`MarksAreUnlisted`), and what is not of its body and still shown is about to be marked (`UnlistedAreMarked`); of a call that is alone, the location and the connectors that are hidden are those that were when it began (`hidden`), or that it has marked itself (`HidesNoMore`) |
| `FieldsStay` | `RowsOfOwnParty`, `ParentsFollow`, `FieldsKept` of `FieldSpec` | `FieldIInv`: a value is of a call of the row's party or of a PUT of the partner itself (`ColumnsHold`); what a call has written is no older than any call that had ended before it began (`IsKept`), and a row that is behind its child has a touch pending (`ParentsWillFollow`) |
| `ReceivedIsItsParts`, `ReceivedSafe` | `PeriodsStay`, `ConnectionSurvives` of the `received` run's composition | a step of one part leaves the variables of the others alone, for seven parts; locations and columns follow in `LocationProofs` |
| `ReceivedInvariant`, `NothingIsDoubled`, `WhatIsToldIsStored`, `PullsLeaveTheList` | `ReceivedIInv`, `NoDuplicates`, `StoredAlone`, `PullsMirror` of that composition | from the theorems of the nine parts (`ReceivedIsStored`) |

`Forbid` is the CronJob's `concurrencyPolicy: Forbid`, documented at `src/Server/scripts/README.md:21`. `SentMeansAnswered` depends on it: with two
runs at a time, a run that comes back late could close a row that another has claimed with a newer payload.
`Booted` is a constant of the receiver: a module that has subscribed. One that still boots is checked by TLC only (`BootEnds`, a part of `WhatIsWaitedForComes`) and does not
satisfy `OneConsumerPerChannel` (section 6).

What the proofs corrected in the models: the cases of `EvseStatus!Means` overlapped, so that the meaning of a status depended on TLC's order of evaluation
(they are disjoint now, in the order of the code's tests); `OwnTariffAssumption` allowed no version at all, for which the queue's empty row is of no
type; `PartyAssumption` allowed a partner with the name of the missing header; the type of a pushing handler in `OwnTariff` let its set of partners be empty, which `SUBSET S \ {{}}` without parentheses
hides; `PeriodsTypeOK` said of readings only that they are a sequence. In `PartnerCleanup` what falls with a deleted row, and the partner's rows, are least sets
and no longer recursive, and `RowsAreMadeSo` states how this server makes rows, on which `SweptIsGone` depends; two items of `PartnerPull` do not share party and
id, which TLC's instance satisfied unsaid; a call of `ReceivedLocation` keeps what it is to mark apart from the tariffs it is to link.

Only model-checked, and why:

* liveness (`RetriesDrain`, `Recovers`, `Settles`, `WhatIsWaitedForComes`, `AskingEnds`, `ChangesArePushed`): the proof system does not reach it;
* `PeriodsAddUp`, `PatchesBuildTheList`: sums over lists of any length need induction over data, and what the mapping computes is a fold;
* `ChangesAreCaptured`: it is about twenty given migrations, with no constant but the two bounds of breaks and undos; what it says is an enumeration of their statements and of the kinds of changes, which is TLC's work;
* the violated properties, whose counterexamples TLC prints.

## 6. What does not hold

Three runs end with a counterexample; each property quotes what a README, a test or a comment of the repository says.

* **`listing` / `LinksReachEveryRow`.** "ensuring that the Link, X-Total-Count and X-Limit headers are set" (`PaginatedMiddleware.ts:17`). Sessions, tariffs and tokens
  give the length of the page for the total (`SessionsService.ts:108`, `TariffsService.ts:214`, `TokensService.ts:472`), so no link to a next page is ever sent.
* **`removal_late` / `RemovedHereToo`.** "Partners are only PATCHed once our DB reflects REMOVED, so the two sides cannot diverge." (`LocationsService.ts:384`). The EVSEs that are marked are
  those of a first lookup, the EVSEs that are PATCHed those of another one per partner (`LocationsClientApi.ts:151`): one created between is REMOVED at the partners only. `OnlyLateDiverge`, a part of
  `RemovalTellsAll`, says that no other EVSE is.
* **`tariff_deleted` / `DeletedIsGone`.** "Exactly what handleTariffDelete forwards" (`TariffsBroadcaster.integration.test.ts:222`). The deletion's notification
  has no `ocpiTariffId`, so the DELETE names an id under which the tariff was never PUT.

Known behaviours that the models show, or leave out of what their properties say. None is repaired by the code.

* **Outbox.** FIND and write are two requests: the older of two failed payloads may be written last, against "latest wins"
  (`GireveBroadcastRetryOutbox.ts:97`), and a live push that succeeds leaves an older payload in the queue, which the retry then brings.
* **Sessions.** An update whose key is in flight is dropped, pushes may overtake each other, `clear` releases keys of other
  handlers: the partner may keep an active session. A session in `EVConnected` is PENDING even after its end. Without tariff or location
  an insert throws, and an end makes no CDR.
* **CDRs.** `successfullySentAt` is read before the POST and not by the retry, so a CDR may be posted again, against "does not re-send a CDR the partner
  already acknowledged" (`CdrBroadcaster.test.ts:168`), and with another content than the stored one. A tariff that is edited or deleted during the mapping makes
  `total_cost` disagree with the tariff listed; a stored null tariff makes `GET /cdrs` fail for its page. Energy written after the end is in no CDR.
* **Periods.** A reading with a state of charge alone loses the energy around it; sums are exact in four decimals, but the difference of rounded registers may
  differ from the rounded total; an update without a new period sends the last one again, several readings per update skip periods. `tariff_id` of a period is the text "null" for a
  tariff without `ocpiTariffId`.
* **Receiver.** The late close of an abandoned connection resets the current one without closing it (`receiver.ts:171`, `309`): its consumers go on and an event may be handled on
  two channels. A module that boots through a reconnect may consume a subscription twice.
* **Pipeline.** An event while the sender is away, or a handler that ends after its channel closed, ends the process by an unhandled rejection. The loss of the LISTEN connection is silent.
* **Capture.** A migration that breaks off after its CREATE TRIGGER, and does not begin by dropping it, cannot be repeated: the trigger is there, and every repetition fails until somebody drops it. Since `20260630173511` a connector's notification names no owner, so
  that a partner's connectors are not broadcast rests on the receiver never writing a connector's status. A token that is deleted with its links tells each linked tenant's partners once more, without a uid.
* **Commands.** The routing of a TIMEOUT expires when it is due, so it goes to the hub. Unlock of a 2.0.1 EVSE looks the station's number up as a row's id; a 1.6 start sends
  the row's id as connector (`ReachesTheNamed` names the two). Two starts may use one `remoteStartId`. A start without `authorization_reference` keeps that of an earlier one. A hub that shares a token with a partner behind it cannot
  stop its own session. Every rejected start is reported `EVSE_OCCUPIED`.
* **EVSEs and locations.** Overlapping handlers may leave an old status until the next change; a change of tariffs beside an `Occupied` connector pushes AVAILABLE to
  Gireve; starts and ends of transactions, and `disableOCPI`, push nothing; status pushes ignore `ocpiStatus`. A failed push is not repeated. An EVSE that is deleted meanwhile ends the call as failed, and its repetition heals. A GET of one EVSE has
  no connectors and looks the number in the uid, which the list makes of the EVSE's number at its station, up as the primary key (`LocationsModuleApi.ts:434`; "Fetch one EVSE for a location", Locations' README:36); one of a location shows ids of tariffs
  that the list of tariffs has under other ids. A read that fails, or finds no station or EVSE, ends the handler of a change without a push, and nothing repeats it.
* **Own tariffs and tokens.** A PUT that overlaps a DELETE revives the tariff at the partner; a retry may bring Gireve an older version. Token pushes are
  not repeated: a lost invalidation stays lost. A token that becomes complete after it was linked reaches no partner but Gireve before a push of all. A batch of that push may overwrite a newer broadcast;
  a tariff is counted as pushed even if refused; deletions make it miss rows.
* **Lists.** Paging by offset skips a row for every earlier row that leaves; equal `createdAt` have no order. An own tariff without elements makes `GET /tariffs` fail for its page.
* **Received tokens.** A PATCH without `valid` invalidates (`TokensMapper.ts:238`; "Mise a jour partielle", Tokens' README:117). An older PUT may come last. Two real-time authorizations of two partners may both pass the owner's check.
* **Received locations.** What was marked removed stays so when it is announced again, EVSE status apart: the upserts of a location and of a connector do not clear `deletedAt` (`connector.queries.ts:13`), and `AloneStores` says
  what stays hidden; a direct party's PUT takes over a roaming party's location of the same id; a partial pull hides the connectors of EVSEs it does not list; overlapping PUTs make two stations; overlapping PATCHes of the opening times
  lose one; a location that is PUT while the last page of a full pull is handled is marked removed; a start at an offset marks all before it; a page without an offset in its link restarts the pull.
* **Received sessions and tariffs.** Overlapping PATCHes lose periods, a repeated one doubles its own, a PUT heals. Overlapping PUTs of a tariff mix elements; a crash after the
  delete leaves none until the next. An item of an older page may overwrite a newer PUT.
* **Parties.** A PATCH or GET under a party that is not the partner's acts on the direct party's session; the direct party's DELETE of a tariff takes those of its roaming parties with the same id.
  Lists without routing headers are refused.
* **Credentials.** DELETE leaves a profile that cannot be registered again; a lost answer of regenerate, or a PUT of the partner that overlaps it, locks out both.
* **Onboarding.** A repetition that finds nothing to change does not pull, so a pull that failed is not repeated by it. The billing customer is asked for on every outcome,
  where `AdminModuleApi.ts:391` and AdminModule's README:21 say "only if the partner is new"; `OnboardedAsTold` states what the code does, which its own comment (`AdminModuleApi.ts:413`) gives the reason for. Without a unique key, which the repository does not show, overlapping calls make two rows.
* **Scripts.** In another order than children first, where foreign keys null what refers to a deleted row, rows stay that no script finds any more. Their README gives no order. `TENANT_ID` is 8 by default in `delete-partner-tariffs-batch.ts:18` and 1 in the others, so
  that run with neither set they are not about the same tenant; a run for a tenant that is not the partner's ends as if all were gone.

## 7. What is not modelled

Of the modelled components: time itself (only the comparisons the code makes), the receiver's storm guard (a delay), the
acknowledging of a single message (`module.handle` catches everything, so `_onEvent` never rejects one), pagination beyond offset and limit, translation of
fields that no property is about, why a station refuses a command. `PROJECT.json` says of each component what is left out.

Left out for good: pure translation (most of the mappers, schemas, versions, OpenAPI), stubs (charging profiles), code that is commented
out (asynchronous admin jobs, most broadcasts of locations), TLS certificates, generated code, seeders, the monitor UI and
deployment. These are most of the implementation's lines (the generated `operations.ts` alone has 3,390, the monitor application several thousands), which is
why the share of lines the modules stand for is about three tenths.

Hazards beyond those of `PROJECT.json`, which lists the ones that properties treat:

| Where | What can go wrong |
|---|---|
| `src/00_Base/src/broadcaster/CdrBroadcaster.ts:84` | successfullySentAt is read before the POST and not by the retry: a CDR already acknowledged is posted again. |
| `src/00_Base/src/broadcaster/CdrBroadcaster.ts:123` | A POST to a partner other than Gireve that fails is logged and never repeated, unless the transaction happens to be updated again. |
| `src/00_Base/src/trigger/CommandsClientApi.ts:93` | The routing of the TIMEOUT is read from an entry that expires at the moment the TIMEOUT is due. |
| `src/00_Base/src/util/CommandExecutor.ts:476` | The cache is looked at before the partner is read and not again: an answer that overlaps the deadline is posted besides TIMEOUT. |
| `src/00_Base/src/util/ocppCommandHandlers/base.ts:146` | FAILED is posted without looking at the cache: a call to the core that fails after the station's answer, or after TIMEOUT, contradicts the result already given. |
| `src/00_Base/src/trigger/CommandsClientApi.ts:61` | The command is marked as resolved before its result is posted: if the POST fails, later answers are dropped and the result is never given. |
| `src/00_Base/src/util/CommandExecutor.ts:532` | The timer lives in the process and the context in the cache: after a restart an answer is still posted, but no TIMEOUT is. |
| `src/00_Base/src/util/ocppCommandHandlers/OCPP2_0_1_CommandHandler.ts:66` | remoteStartId is read, incremented and written back without waiting: two start commands to a station use the same one. |
| `src/00_Base/src/services/CredentialsService.ts:429` | unregisterClient deletes the registration at the partner first and the local row second; a failure between the two leaves one side registered, and a retry is refused by the partner. |
| `src/00_Base/src/services/GireveBroadcastRetryOutbox.ts:97` | FIND and INSERT/UPDATE of an upsert are two requests: concurrent failures of one resource overwrite each other's payload, or the loser of two INSERTs is dropped. |
| `src/00_Base/src/services/GireveBroadcastRetryOutbox.ts:155` | attemptCount read by FIND is written back after a cron run may have incremented it. |
| `src/00_Base/src/trigger/BaseClientApi.ts:419` | A live push that succeeds does not clear an older failed payload of the same resource from the outbox: the retry delivers the older payload after the newer one. |
| `src/00_Base/src/services/GireveBroadcastRetryOutbox.ts:157` | Every live failure moves nextRetryAt a full delay into the future; a resource that keeps failing live is never retried by the cron run while it does. |
| `src/00_Base/src/events/pgNotify/subscriber.ts:111` | When the connection that LISTENs ends, nobody connects or LISTENs again: the handleDisconnect that DtoRouter passes does nothing, and every later change of the database goes unnoticed. |
| `src/00_Base/src/events/rabbitMQ/receiver.ts:171` | The close listener of an old connection acts on the current one. |
| `src/00_Base/src/events/rabbitMQ/receiver.ts:273` | subscribe appends to the array that _resubscribeAll iterates over: a subscription declared on the reconnected channel by a booting module is declared on it again. |
| `src/00_Base/src/events/rabbitMQ/receiver.ts:203` | RECONNECT_DELAY and _lastRestoreFailureAt space out restores that keep failing; the model has no clock. |
| `src/00_Base/src/services/SessionBroadcastDedupeService.ts:101` | clear removes in-flight marks that belong to pushes of other handlers. |
| `src/03_Modules/Sessions/src/index.ts:140` | The body a handler pushes was read before its awaits: the push of an older body may reach the partner after the end of the session. |
| `src/00_Base/src/services/SessionBroadcastDedupeService.ts:13` | lastFingerprint is emptied only by the end of a transaction whose CDR is posted without an exception; entries of the others stay for ever. |
| `src/00_Base/src/services/TokensService.ts:286` | An update of a token does not compare last_updated: an older PUT that arrives late overwrites the newer one. |
| `src/00_Base/src/util/helpers.ts:127` | findThenUpsert reads and then inserts or updates: two calls for one new resource both insert, and of two updates the older may be the last. |
| `src/00_Base/src/services/LocationReceiverService.ts:600` | The connector number is a 32-bit hash of the ids: two connectors of a station may collide. |
| `src/00_Base/src/services/LocationsPullService.ts:428` | A full pull may start at any offset, and still marks every location before that offset as removed. |
| `src/00_Base/src/util/PartnerMtlsCertificateService.ts:85` | getRestClient caches the client without a lifetime: the agent's expiry never reaches it, and a rotated certificate is not picked up before a restart. |
| `src/00_Base/src/trigger/BaseClientApi.ts:477` | The outbox stores body, while the push sent effectiveBody under another path or partner identity: a retry through a hub may differ from what failed. |

## 8. Plan

Done: all components of section 1 but certificates, versions and profiles, and proofs of every invariant and action property that a passing run checks,
but `PeriodsAddUp`, `PatchesBuildTheList` and `ChangesAreCaptured`. What could follow: a mapping of charging periods stated without a fold, by the sums of an interval's two ends, would bring those
two within reach of the proof system.

## 9. Running it

In this directory: `tlc -workers 2 -config MCGireveOutbox_cron.cfg MCGireveOutbox` (likewise for each `.cfg`, which begins with the name of
its module; `Listings` and `OwnTariff` are small enough to be checked without an MC module), and `tlapm GireveOutboxProofs.tla` for each proof module. The largest runs, `outbox_cron` and `pushed`, have about a million distinct
states; all take two to four minutes at most; `LocationProofs.tla` and `ReceivedProofs.tla` are the longest proofs,
ten to fifteen minutes each.
