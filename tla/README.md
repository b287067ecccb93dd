# Verification of the Needly backend

TLA+ models of the state-changing logic of this repository, configurations that
check them exhaustively with TLC on small instances, and proofs, checked by
TLAPS, of the properties that matter most for every instance size.

    tlc -config MCAuth.cfg MCAuth              # one run; the table below lists them all
    tlapm AuthProofs.tla                       # one proof module

Paths such as `auth/service.go:180` are relative to `src/internal/`;
`README.md:501` without a directory is the repository's own `src/README.md`.
`PROJECT.json` maps every definition to the lines it models.

Contents: 1 the system · 2 the models · 3 the runs · 4 the proofs ·
5 what was learnt about the code · 6 what is not modelled · 7 the plan.

---------------------------------------------------------------------------

## 1. The system

Needly is a Go API for shared shopping lists. Several identical instances run
behind a load balancer (`k8s/`, `docker-compose.prod.yml`) and share one
PostgreSQL and one Redis. Nothing coordinates the instances except these two.

    request ──> rate limiter ──> circuit breaker ──> [auth] ──> membership ──> idempotency ──> service
                 (Redis)          (memory, per        (JWT)      (SQL)          (SQL)            │
                                   instance)                                                     ├─> PostgreSQL (GORM)
                                                                                                 ├─> Redis copies: evict / fill
                                                                                                 └─> notification ─> WebSocket hub ─> Redis pub/sub ─> hubs
                                                                                                                        └─> connected clients

Nearly every handler is a *sequence of SQL statements without a transaction*;
GORM's `Save` writes a whole row read earlier and inserts it if it is gone.
Most of what is hard here follows from these two facts.

### Components

| Component | State | Operations | Hard behaviour | What makes it correct |
|---|---|---|---|---|
| Authentication (`auth/`) | users, refresh_tokens (families), password-reset and email-verification tokens | register, login, refresh, logout, forgot, reset, verify, resend, cleanup every 30 minutes | two refreshes of one token; reuse detection during a rotation; one-time tokens consumed twice; refreshes and logins under way when sessions are revoked; stops between consume and effect | revoked tokens stay revoked until expiry; dead families stay dead; a reset, and reuse detection, end every session that has no refresh or login under way; one password change per token |
| WebSocket hub (`websocket/`) | the map client ID → connection of every instance, `Send` channels, sockets, Redis subscription | register, unregister, broadcast to household, send to client, publish, receive, shutdown | event loop, subscription and callers deliver while connections come and go; slow clients; two connections with one ID; lost messages, and publications that the Redis client sends again | no send on a closed channel; only to whom it is addressed, at most once and in order unless a publication was repeated, and at most once at home in any case; every closed connection is cleaned up |
| Shopping items, history (`shoppingitem/`, `history/`) | shopping_items, shopping_history | create, update (with `base_updated_at`), complete, list with roll-over, delete, re-add, delete history | whole-row saves of stale copies; history recorded before the save; deletions under a handler's feet; dates of the recurrence rules | `next_due_at` set exactly on completed recurring items; completed items are in the history; categories are the household's own |
| Lists (`shoppinglist/`) | shopping_lists | create, update, delete with items and history, reads | cascade while item handlers run; Save after deletion | see items, cache |
| Households, members (`household/`) | households, household_members | create, update, delete with everything below, add and remove member | ownership checked one statement before it is used | the owner is a member; nothing survives its household unnoticed |
| Categories (`category/`) | categories (no foreign key to households) | create at the end, update, delete, reorder | maximum and count read before they are used | distinct positions |
| Cache (`cache/` and its callers) | Redis copies with a five-minute TTL | get, set, delete, delete by pattern | fill races eviction; evictions fail; the eviction needs a look-up of its own | a copy is stale only while its eviction is ahead |
| Rate limiter, circuit breaker, idempotency (`middleware/`, `idempotency/`) | Redis counters; breaker per instance; idempotency_keys | count, admit, record; look up, replay, store, purge | retries overlapping the first try; concurrent probes; failures of each store | one effect per key; answers do not change; the breaker closes again |
| Authorization (`middleware/auth.go`, `authorization.go`) | none | resolve household, check membership | the check is old when the service acts | see households |
| Offline sync (`sync/`) | none on the server | snapshot, delta since a time | two queries and a stamp taken after them, while rows stamped earlier commit; lost answers | a chain of deltas misses nothing but what committed late; what a full answer lacks was deleted |
| Notifications (`notification/`) | bounded history in Redis | push, read, send through the hub | written after the commit; evicted by household changes | bounded; a change that was announced can be fetched |
| Migrations (`database/postgres.go`) | the schema, the table migrations | apply, record | stop between the two, several instances and images at once | what serves has its whole schema; races do no lasting harm |
| API process (`cmd/api/main.go`, `server/`, `middleware/timeout.go`) | – | wiring, cleanup ticker, graceful stop | – | – |

The rest (logging, headers, CORS, compression, metrics, mail, configuration, seed
data, OpenAPI, deployment) keeps no protocol state.

### How they interact

* **Shared tables.** Items reference lists and categories, lists reference
  households (foreign keys `ON DELETE CASCADE` / `SET NULL`); the deletions of
  lists, categories and households are therefore steps of `ShoppingItems`,
  `Tenancy` and `Cache` alike, each with the part of the state it is about.
* **Calls.** Completing an item calls `history.Record` between reading and saving
  the item (one action of `ShoppingItems`); every service ends a write with its
  evictions (`Cache`) and a notification that enters the hub (`Hub`: a message
  accepted by the event loop).
* **Middleware.** The order limiter → breaker → strict limiter (only `/auth`) or
  authentication and idempotency → handler is the control flow of `Gateway`; a
  handler there is one step with an effect and a status, whatever service it is.
* **Pub/sub.** The hubs of all instances exchange every message through one
  Redis channel; `Hub` has all instances in one model.
* **Write, commit, notify, fetch.** `Sync` has the handlers of lists and items only as far as
  a snapshot can tell, with `updated_at` taken before the statement that writes it and
  the notification sent after its commit, and the clients that read both.

---------------------------------------------------------------------------

## 2. The models

One step of a model is one SQL statement, one Redis call, one channel operation
or one critical section: between two of them every other goroutine, request and
instance may run. Where the code uses a transaction whose row locks make it
atomic (creating a household, deleting a list, reordering categories), the
transaction is one step. The one that deletes a household is two steps in `Tenancy`,
where categories inserted between them matter, and one in `Cache`, where such a row is
like one inserted afterwards. History variables (marked *history* in the modules) only
record what happened, and are read by properties only.

### Auth — accounts and sessions

`status`, `owner`, `expired` and `birth` are the columns of the three token
tables: *live* is `revoked_at`/`used_at IS NULL`, *spent* is set. A token is the
identity of its row (hashes are unique), a password the number of its write. `birth` also has the
password a session was opened with (*history*), which a rotation hands on, and `escaped` (*history*) the
families that the last revocation meant for them did not end.
Each handler `p` has a program counter `pc[p]` and what it read, `loc[p]`.

| auth/service.go | Actions |
|---|---|
| `Register` 92 | `RegisterCheck`, `RegisterCreate` (unique index), `SendVerification`, `Mint` |
| `Login` 134, `issueTokenPair` 449 | `Login`, `Mint` |
| `Refresh` 155 | `RefreshRead`, `Rotate`, `Mint`, or `Kill` |
| `Logout` 195 | `LogoutOne`, `LogoutAll` |
| `CleanupExpiredRefreshTokens` 210 | `CleanupExpiredRefreshTokens` |
| `RequestPasswordReset` 221, `ResetPassword` 239 | `RequestPasswordReset`, `ClearResetTokens`, `CreateResetToken`; `ResetRead`, `ResetConsume`, `ResetUpdate`, `ResetRevoke` |
| `VerifyEmail` 284, `ResendVerificationEmail` 322 | `VerifyRead`, `VerifyConsume`, `VerifyMark`; `ResendVerification`, `SendVerification` |
| errors, stops, time | `Abort`, `Expire` |

### Hub and Broadcast — WebSocket delivery

`Hub` has, per instance, the event loop and the subscription goroutine (`work`),
the map (`clients`) and its inbox from Redis; per connection the handler, the
writer, the socket (`up`) and the `Send` channel (`sent`, `taken`, `closed`). A
delivery under the read lock is a loop over `todo`, one non-blocking send per step,
with `Register` and `Unregister` locked out meanwhile. Redis executes a `PUBLISH` for any
subset of the subscriptions (a lost connection, a full buffer, an error), in one order for all.
`cache/redis.go:17-21` leaves go-redis' default retries on: an attempt may go unanswered
(`HubUnanswered`, `DirectUnanswered`), is then repeated up to `MaxSends` times in all, and may
be executed all the same at any later time (`LatePublish`). So a message can reach an instance twice, and
after messages accepted later; `givenUp` counts a message's unanswered attempts.

| websocket/ | Actions |
|---|---|
| `ServeWS` (controller.go:64) | `Register`, `ReaderExit`, `Unregister`; writer: `WriterTake`, `WriterStop` |
| `Run` (hub.go:80), `deliverToHousehold` 140 | `HubBroadcast`, `SendOne`, `DeliverEnd`, `HubPublish` or `HubUnanswered`; `LoopStop` |
| `Subscribe` (pubsub.go:79), `handlePubSubMessage` 122 | `SubReceive`, `SendOne`, `DeliverEnd`; `LoopStop` |
| `BroadcastToClient` (hub.go:186) | `DirectCall`, `DirectSend`, `DirectPublish` or `DirectUnanswered` |
| Redis, peers, tests | `LatePublish`; `Disconnect`; `Shutdown` |

`Broadcast` is the abstract promise: sources accept messages; a connection gets some
of those addressed to it, at most once and in each source's order, except for messages in
doubt, which may come again and late. `Hub` implements it under the mapping `log <- accepted,
delivered <- sent`, with the messages that had an unanswered attempt in doubt (property
`BestEffortBroadcast`). What holds even of these is `OnceAtHome`: the instance that accepted a message
drops every echo (hub.go:124), so its own connections get it once.

### ShoppingItems — items and their history

A row is `[done, rule, due, cat]`; `due` is whether `next_due_at` is set, and a
set date may be found passed at any time. `copy[p]` holds the rows a handler read and will
`Save` whole; `Save` inserts a row again when it is gone, provided the foreign keys hold.
`UpdateApply` composes `WithCat`, `WithRule` and `WithDone` in the order of the assignments in
`Update`. Of `updated_at` the model keeps what `base_updated_at` needs: `base[p]` becomes
`"outdated"` when the row is written after `p` compared.

### Recurrence — when a recurring item is due

`computeNextDue` over the Gregorian calendar as package `time` computes it (`AddDate`
normalises a day past the end of its month), for one item that is completed,
reopened, given rules and listed, day by day.

### Gateway — limiter, breaker, idempotency

A slot is a client sending one request after the other to one kind of endpoint;
`pc` walks through the middleware. `count` is the shared window counter,
`breaker[i]` the three-state machine of instance `i` in memory (lost by `Restart`),
`stored[k]` the table row of a key. `healthy` covers Redis, database and handlers:
while it is false any of them may fail at each use. `effects[k]` counts
executions that took effect (a handler may have had its effect and answer 500, or 400 as `AddMember`
does when its last query fails: `Misreported`), `excused` the keys for which the code lets that
exceed one.

### Tenancy — households, members, categories

`CheckOwner` and `RequireMembership` are steps of their own, in front of the
statements they guard: what they found may have changed when those run. `Delete`'s
transaction is `DropCategories`, which finds and locks the categories it will remove
(`doomed`), and `DropHousehold`, its commit: categories have no foreign key, so nothing
keeps another handler from inserting one in between, or afterwards. Other writers of a
locked row wait. `raised` records households re-inserted by `Update`'s Save, `late`
categories written when their household was gone or going, `raced` categories with a
position from a failed or outdated read.

### Cache — copies in Redis

A row is its identity; a copy is *fresh* if it is what its query would return now,
*stale* if a write overtook it, *excused* if nobody is left to evict it. Every
service's list of evictions is data (`EvictHousehold`, `EvictLists`,
`EvictOneList`, `EvictCategories`, `EvictItem`, `EvictListItems`), run one call per
step, with the household of a list looked up by a query of its own
(`Later`, `LookUp`). `Pending(k)` says that an eviction of key `k` is still ahead.

### Sync — snapshots, deltas and notifications

A row is the number of its last write and its `updated_at`. `CallSave` takes the time,
`Write` commits, `Notify` pushes to the bounded history (`Pushed`: LPUSH and LTRIM), each a
step of its own; `DeleteCategory` is the database's `ON DELETE SET NULL`, which changes
an item without a new `updated_at`. A request is `ReadLists`, `ReadItems` and `Answer`,
which takes the server time; the client merges a delta into what it `held`, replaces it by a
full answer, and keeps the time as its next `since`. `late` collects the rows whose
last write committed after an answer had read their table with a stamp not after that answer's.

### Migrations — instances starting together

`applied` is the schema, `recorded` the rows of the table `migrations`; `seen[i]` is what
instance `i` read of it when it started. `Apply` runs the SQL of a file (which fails if
the effect is there and the file is not `ReRunnable`), `Record` inserts its row, and any
error is `Exit` and a restart. Instances may be of older images (`Shipped`), and the
database may have been made by AutoMigrate (`debug`).

---------------------------------------------------------------------------

## 3. The runs

| Run | Module, configuration | Instance | Shows |
|---|---|---|---|
| `auth` | MCAuth, MCAuth | 1 user, 2 handlers, failures; *sessions*: 3 refresh tokens; *account*: 2 refresh, 2 reset and 1 verification token, 3 passwords; *resets*: 2 refresh and 2 reset tokens, 3 passwords | `TypeOK`, `ForksOnlyOnOverlap`, `TerminatedUnlessUnderWay`, `ResetRevokesEarlierSessions`, `PasswordLedger`, `OneResetLinkUnlessCrossed`, `VerifiedByConsumedToken`, `DeadFamilyStaysDead`, `RevokedUntilExpired` |
| `auth_reset` | MCAuth, MCAuthReset | 1 user, 2 handlers, 3 refresh tokens, 1 reset token, no failures | **violation** of `ResetEndsEverySession` |
| `hub` | MCHub, MCHub | 2 instances, 2 households, capacity 1; *delivery*: 2 connections, 2 of 3 messages; *replacement*: 2 connections of one user, 1 message, shutdown; *retries*: 2 connections, 2 of 3 messages, 2 unanswered attempts | `TypeOK`, `NoPanic`, `OnceAtHome`, `BestEffortBroadcast`, `ClosedConnectionsGoAway` |
| `hub_two_devices` | MCHub, MCHubTwoDevices | 3 connections, two of one user | **violation** of `ConnectedClientsAreMapped` |
| `items` | MCShoppingItems, MCItems | 2 handlers, 1 history id, failures; *categories*: 1 item, own and foreign category; *items*: 2 items | `TypeOK`, `ScheduledOnlyIfCompleted`, `CompletedRecurringIsScheduled`, `CompletedItemsWereRecorded`, `CategoryOfOwnHousehold` |
| `items_lost_update` | MCShoppingItems, MCItemsLostUpdate | 1 item, 2 handlers, guarded updates | **violation** of `GuardedUpdateMatchesStored` |
| `recurrence` | MCRecurrence | 3 starting dates, 35 days, all rules | **violation** of `ReappearsAfterItsPeriod` |
| `gateway` | MCGateway | 2 requests with one key, 1 to `/auth`, 1 instance, thresholds of 2 | `TypeOK`, `RepeatedOnlyIfExcused`, `FirstAnswerStays`, `BreakersRecover` |
| `tenancy` | MCTenancy | 1 household, 2 users, 2 categories, 2 handlers | `TypeOK`, `OwnerIsMember`, `OrphansOnlyByRace`, `PositionsDistinctUnlessRaced` |
| `cache` | MCCache | 1 household, list, item, category and user; 1 reader, 2 writers, failures | `TypeOK`, `StaleOnlyIfExcused` |
| `sync` | MCSync | 1 list written once, 1 item written twice, 2 handlers, 1 client, 2 instants, history of 2, failures | `TypeOK`, `MissedOnlyIfLate`, `AbsentMeansDeleted`, `ToldChangesArrive` |
| `migrations` | MCMigrations | 2 instances of the new image, 1 of an older, 4 files, 2 stops | `TypeOK`, `ServesOnFullSchema`, `StuckOnlyIfInterrupted`, `ServesInTheEnd` |

**Kinds.** Three MC modules have a variable `kind`, chosen once: a behaviour is of one of
two or three kinds, each with a part of the requests and rows (named in the table), because
all of them at once are more than TLC can enumerate. Each kind's behaviours are behaviours
of the module's own specification, whose properties are checked in all.

### Bounds, and why they are enough

* **Two handlers** everywhere: every race listed among the hazards is between one
  handler that read and another that wrote; environment steps (expiry, deletions,
  logout, cleanup, failures) do not occupy a handler and come on top.
* **Auth.** Three refresh tokens in *sessions*: a token, and two successors of it, which is what a
  fork needs; one less in *account*, where a session is only there to be revoked, and in *resets*,
  where an old session is rotated while its account's password changes. Two reset tokens and three passwords: two resets racing for the same
  account. `MaxPwd` only stops counting. Requests for a reset overlap in *account* only.
* **Hub.** Capacity 1 (256 in the code) makes a full channel a matter of one message; two
  connections of one ID are the reconnect and the second tab; two accepted messages are
  enough for an order. One connection on the other
  instance exercises pub/sub; it stays connected in *delivery*, since connections going away
  are the matter of *replacement*. `MaxSends` 2 (4 with go-redis' defaults) gives a publication up for good after a
  repeat, and two unanswered attempts, of one message or of two, are a duplicate and a message that
  arrives after a later one. In *retries* the connections stay and their writers are prompt, so that no
  full channel hides a duplicate.
* **Items.** Writes are not bounded: a row is its four columns, so the run covers
  sequences of any length. One item meets every save of a stale copy; two are for the
  roll-over, which saves several. Entries can be deleted,
  so one history id lets an item be recorded again and again. `items_lost_update` needs two.
* **Recurrence.** The dates are around the ends of a short month, a leap February and a
  year; 35 days are longer than the longest month.
* **Gateway.** One instance: the only state two instances share is the table and
  the counter, which slots on one instance already race for. `Requests` and
  `StrictRequests` are 1, and a window may end at any moment, so a request may be
  passed or refused at any time. Thresholds of 2 distinguish counting from
  not counting.
* **Tenancy.** One household: no statement reads two. Two categories collide after two
  creations from one maximum, or the Save of one after a reorder or a re-creation of
  another. A reorder whose count no longer stands makes two collide only once a third
  category has been created; that case is left to the proof, which is for any number.
* **Cache.** `MaxCached = 1`: eviction and fill of a key never depend on another key's
  copy, so one copy at a time, over all eight kinds of key, loses nothing. Two
  writers let a write overtake another's eviction; one reader is a late fill. The
  users' listings are evicted together, so one user is enough.
* **Sync.** Two instants (`MaxTime` 1) are an earlier and a later tick, each with any number of
  steps; the item's second write overtakes a copy read in between, the list's only write
  and its deletion give the order of the two queries a meaning. `HistoryLimit` 2 trims at
  the third push.
* **Migrations.** Two instances race for every file; the third, older, starts before, between or
  after. Files that can be run again and those that cannot alternate. Two stops interrupt
  one file twice, or two files.
* **Ids** are finite sets: an id is never given out twice (a sequence in PostgreSQL).

### Deadlock

TLC checks for deadlock except where the modelled system may stop: in the hub runs
all connections end and the accepted messages are used up (or the hub is shut
down); in `auth_reset` and `items_lost_update`, without failures, handlers end with the rows or
the history ids used up; in `tenancy` all ids may be used up with the household gone; in
`migrations` every instance serves and no stop is left. These are ends of the
bounded instance.

### Fairness

`Hub.FairSpec`: goroutines are scheduled (weak fairness of readers, writers and
loops); a Redis call returns (each attempt is answered or given up, and there are `MaxSends` of them); `Register` and `Unregister` are strongly fair, because
the event loop's `select` picks a ready case at random, so a handler whose rendezvous is
possible again and again is eventually received. Nothing is assumed of clients,
of message arrival or of Redis delivering, or executing what was given up. `MCHub` restricts it to the connections that play
in the behaviour's kind; the others never get past the upgrade.
`Gateway.FairSpec`: requests in flight are processed, clients keep sending (a breaker
only moves when requests come), the reset timeout passes and rate windows end. Nothing is
assumed of health: `BreakersRecover` is conditional on failures stopping.
`Migrations.FairSpec`: a process runs on, and one that exited is started again
(`restart: unless-stopped` in docker-compose.prod.yml, the Deployment in `k8s/`). Stops of the
environment are not fair, and bounded.

Every property of a passing run has a mutant: a definition changed the way a
plausible bug would (the operators named *Mutant* in the modules), under which the
same run finds the property violated.

---------------------------------------------------------------------------

## 4. The proofs

TLAPS proves the following for every value of the constants, that is any number of users,
handlers, rows, instances and messages. The assumptions are the named ASSUMEs
of the modules: types of the constants, disjoint id sets (for `Hub`, message identities and instances), `NONE`
distinct from everything, and the ids of categories a finite set. TLC evaluates them in each run.

| Theorem | States | Inductive argument |
|---|---|---|
| `AuthProofs!TypeCorrect` | `[]TypeOK` | `Types`: a row written stays written, an account that exists keeps existing (`Kept`); `At` says what a handler holds at each statement, and that nothing undoes it |
| `AuthProofs!RevocationLasts` | `RevokedUntilExpired` | a step property from `Types`: `Mint` and the inserts touch unissued rows only, the cleanup expired ones only |
| `AuthProofs!NoRevival` | `DeadFamilyStaysDead` | a family gains a live token only by a `Mint` whose handler holds one of its tokens; which a dead family has none of |
| `AuthProofs!ResetsRevoke` | `[]ResetRevokesEarlierSessions` | `SessionInv`: a token has the password and owner its family was opened with, a refresh or login past its read carries them (`CarriedOver`), and an outdated family is dead, escaped, or its revocation is due (`OldSessionsEnd`) |
| `AuthProofs!TerminationEnds` | `[]TerminatedUnlessUnderWay` | `SessionInv` again: a family whose reuse was answered is dead or escaped (`TerminatedEnd`), and what is dead stays so |
| `AuthProofs!LinksReplaceEachOther` | `[]OneResetLinkUnlessCrossed` | `OneLink`: a user whose requests have not crossed has either one request past its DELETE, or one token that works, or neither |
| `AuthProofs!VerificationIsPaidFor` | `[]VerifiedByConsumedToken` | `HoldInv`: between a conditional UPDATE that consumed a token and the statement that follows, the token is spent, its owner's, in no other handler's hands and not lost |
| `AuthProofs!ResetsArePaidFor` | `[]PasswordLedger` | `HoldInv` and `Balanced`: the set of paid resets is finite and grows by exactly the one whose handler writes the password; that reset was not in it before |
| `AuthProofs!SessionsForkOnOverlap` | `[]ForksOnlyOnOverlap` | `OneHeir`: a token no two refreshes overlapped on has one refresh past its check, or one successor, or neither; once that refresh is past its UPDATE, the token is not live |
| `HubProofs!TypeCorrect` | `[]TypeOK` | channel contents never exceed the capacity |
| `HubProofs!HubNeverPanics` | `[]NoPanic` | `SafeInv`: the map holds connected clients under their own IDs; closed channels belong to handlers that are gone; those a delivery has still to serve are in the map, for the lock keeps Unregister out |
| `HubProofs!HubDeliversBestEffort` | `BestEffortBroadcast`, that is `Spec => Broadcast!Spec` | `OrderInv`, see below |
| `HubProofs!HubGivesOnceAtHome` | `[]OnceAtHome` | `HomeOK`, on top of `OrderInv`: a message comes from one instance (`OneSource`), and what its subscription handles has another origin |
| `ItemsProofs!TypeCorrect` | `[]TypeOK` | `Typed`: at each statement a handler holds exactly the copies it will write (`Fits`) |
| `ItemsProofs!NeverScheduledOpen` | `[]ScheduledOnlyIfCompleted` | `SchedulesOK`: rows, copies and rows about to be inserted; `Updated` keeps it whatever it is given, so stale saves cannot hurt |
| `ItemsProofs!CompletedReappear` | `[]CompletedRecurringIsScheduled` | `DuesOK`: the same of copies, with `bornDone` |
| `ItemsProofs!CompletedWereRecorded` | `[]CompletedItemsWereRecorded` | `CompletionsRecorded`: a completed copy past its record step belongs to a recorded item |
| `ItemsProofs!CategoriesStayHome` | `[]CategoryOfOwnHousehold` | `OwnCategories`: copies and pending inserts hold own categories, existing or not; the foreign key settles existence when they are written |
| `GatewayProofs!TypeCorrect` | `[]TypeOK` | the breaker is closed exactly below its threshold, through all transitions |
| `GatewayProofs!RepeatsTakeEffectOnce` | `[]RepeatedOnlyIfExcused` | `OneRun`: while a key is unexcused at most one request with it is past its lookup, none once an answer is stored |
| `GatewayProofs!AnswersAreStable` | `FirstAnswerStays` | a step property from `Types`: the insert leaves a record that is there alone, only the purge removes one |
| `TenancyProofs!TenancyTypes` | `[]TypeOK` | `Tight`: no position, stored or held, exceeds the number of category ids given out (`KnownCats`); what a Delete has locked stays its household's until the commit, and no second Delete of it gets there |
| `TenancyProofs!OwnersStayMembers` | `[]OwnerIsMember` | `Held`: handlers about to save agree on the owner, those about to remove a member spare the owner |
| `TenancyProofs!OrphansAreLate` | `[]OrphansOnlyByRace` | `FoundOrLate`: the categories of a household whose deletion is about to commit are those it found, and late ones |
| `TenancyProofs!PositionsCollideOnlyByRace` | `[]PositionsDistinctUnlessRaced` | `Places`: handlers holding a category agree on its household; a reorder past its check that finds all its ids names every category if the count still stands (`AllMoved`, a pigeonhole argument) |
| `CacheProofs!CacheTypes` | `[]TypeOK` | `Types`, `WriterTypes`: the row a writer holds determines which parents it has checked; a Save after a deletion fails where the foreign key has gone |
| `CacheProofs!CacheStaleness` | `[]StaleOnlyIfExcused` | `CacheInv`: besides, a row whose id is not given out yet has no copy and no reader; for each service, the keys a write makes stale are among those its evictions cover |
| `SyncProofs!TypeCorrect` | `[]TypeOK` | `Typed`: no stamp is ahead of the clock, no version ahead of its row's writes |
| `SyncProofs!MissesOnlyLate` | `[]MissedOnlyIfLate` | `MissInv`: what a request has read is current but for `unread` and `silent` rows, and it asks since the time its client holds |
| `SyncProofs!NeverSetBack` | `AbsentMeansDeleted` | `KeepInv`: versions only grow; a request has read no older copy than its client holds, or the row was deleted |
| `SyncProofs!ToldArrives` | `ToldChangesArrive` | `ReadWhatTold`: a notification is pushed after its commit, so the queries that follow read at least its version |
| `MigrationsProofs!TypeCorrect` | `[]TypeOK` | – |
| `MigrationsProofs!ServesComplete` | `[]ServesOnFullSchema` | `ServeInv`: the files an instance has passed are recorded, and a file is recorded only by one that had passed all before it |
| `MigrationsProofs!OnlyInterruptionsStick` | `[]StuckOnlyIfInterrupted` | `AllAccounted`: a file applied but not recorded is re-runnable, has an instance about to record it, or was interrupted |

**The refinement.** In a step of `Hub` a connection is given at most one message. `OrderInv` is
what makes that step a `Deliver` of `Broadcast` or a stutter. A message is, in this order, in its source's
log, in hand of the instance that accepted it (`InHand`), in the inboxes of the others, in hand of
their subscriptions (`SubHas`), and at connections (`Got`); `Later(m, n)` says that `n` is `m` or follows
it in one log. Each conjunct relates two of these places: what an instance has in hand is the last of its
log and not yet in any inbox, nor at a connection elsewhere (`HandOK`); whom a delivery still has to
serve has not got the message (`DueOK`, `SubOK`) and is addressed (`AimOK`); in an inbox, what comes after
an entry is not earlier in a log, and the connections there, like the message the subscription has in
hand, are behind it (`InboxOK`). A message comes from one instance (`OneSource`) and connections
of that instance get it locally, those of others only from an inbox, because `Foreign` drops the echo:
so nobody gets it twice. A message with an unanswered attempt (`Doubtful`) is exempt: `Later` does not hold of it,
and `DoubtOK` says that it was accepted and that its delivery at home is over, so that nothing that still
follows from it (late copies, repeats) is anything but a `Deliver` of a message in doubt. The lemmas go by
kind of movement: `OrderAccept` (into hand), `Progress` (things only leave places, one connection may gain),
`OrderPublish` (into inboxes, of which any subset may lose it), `OrderTake` (inbox to subscription),
`OrderUnanswered` (a message falls into doubt). Redis' part of the argument is that it keeps, for all
subscriptions, the order in which it executes what is published: `Publish` appends.

**Only model-checked.** Liveness (`ClosedConnectionsGoAway`, `BreakersRecover`,
`ServesInTheEnd`): liveness under fairness is out of the prover's reach. `Recurrence` is arithmetic
over a recursive calendar, and its only property is one the code violates. Every
invariant and every action property of a passing run is proved.

---------------------------------------------------------------------------

## 5. What was learnt about the code

**Four statements of the code that it does not keep** (the violation runs):

1. *A password reset* promises that "other devices must log in again with the new credentials"
   (auth/service.go:236-238) and to "force re-authentication on every device" (line 276). It revokes the
   rows there are: a login that has compared the old password, or a refresh of an old session
   past its UPDATE, inserts a live token afterwards (`auth_reset`). *Reuse detection* has the same
   window, although "all tokens in its family are revoked" (auth/service.go:154, README.md:561): a refresh
   that has revoked its token but not yet inserted the successor adds a live token to the family that was just
   reported as terminated. So has a logout without a token. What does hold of the first two is in
   `ResetRevokesEarlierSessions` and `TerminatedUnlessUnderWay`.
2. *Household broadcast* promises delivery to "all locally connected clients"
   (websocket/hub.go:138-139). A second device of a user replaces the first in the map
   and is removed when the first leaves (`hub_two_devices`).
3. *`base_updated_at`* promises a conflict when the stored value differs
   (shoppingitem/service.go:74-77). The comparison is with the row read, and the Save
   that follows has no condition (`items_lost_update`).
4. *Recurring items* may be `monthly` and reappear once their time has passed (README.md:428). The
   rule adds a year: `AddDate(1, 0, 0)` (shoppingitem/service.go:127; `recurrence`). With
   `AddDate(0, 1, 0)` the run finds no violation.

**Excuses: behaviour the properties have to allow.**

* *Idempotency* (README.md:516-518 promises no second execution): two overlapping
  requests with one key both execute; so does a retry after a failed look-up, a failed or
  missed insert, or a handler that fails after its effect. A handler that answers 400 after its
  effect (`AddMember`, whose last query may fail: household/service.go:276) does not execute
  again, but its 400 is what the key replays for a day, although the change was made.
* *Refresh*: two overlapping refreshes of one token both succeed (`ForksOnlyOnOverlap`).
* *Sessions that outlive their revocation* (`escaped`): those that had a refresh between its read and its
  INSERT, or whose login was between its comparison and its INSERT, when the reset or the reuse detection
  ran, and those whose revocation failed (`revokeFamily` ignores the error).
* *Reset*: a stop between the password change and the revocation leaves the old
  sessions; a stop before the password change spends the token. Two overlapping requests for a reset leave
  two links that work, although "a new reset request invalidates any previous unconsumed tokens"
  (auth/service.go:380).
* *Messages* come to the connections of other instances twice, or after later ones, when the Redis client
  publishes them again (`BestEffortBroadcast` has them in doubt). No document of the repository promises
  otherwise; hub.go:123 is about the instance's own messages, and holds (`OnceAtHome`).
* *Items*: an entry of the history can precede a completion that then fails, so a retry records it
  twice; an item created already completed with a rule is never scheduled.
* *Positions* collide after two concurrent creations, a Save of a row that was
  moved or deleted meanwhile, and a reorder whose count no longer stands. A read of the
  maximum that fails is not noticed and puts the new category at position 1
  (category/service.go:50-53).
* *Households*: `Update`'s Save brings a deleted household back without members; its owner may
  still change or delete it, but no longer read it (GetByID requires membership). A category written after the deletion of its household,
  or between the deletion's look for categories and its commit, stays for ever: nothing
  references it.
* *Cache*: a reader that queried before a write and fills after its eviction leaves
  a stale copy for up to five minutes; so do a failed eviction, and the deletion of a
  category, which sets `category_id` of items to NULL without evicting their copies. If a list is
  deleted between the write of an item and its eviction, the look-up of its
  household yields 0 and the household's listing is left to the deletion's own eviction.

* *Offline sync*: a change whose `updated_at` was taken before an answer's server time
  but which committed after that answer's query is in no later delta; nor is the
  change the deletion of a category makes in its items, which stamps nothing. Only another write
  of the row, or an answer without `since`, repairs the client's copy.
* *Migrations*: a stop between a file's SQL and its record leaves a file that, unless it
  says IF NOT EXISTS, fails at every later start, of every instance, until someone inserts the row
  by hand; so does release mode on a database that AutoMigrate made.

**Seen while reading, stated by no property.** The limiter refuses with 503 when Redis
fails, where README.md:575 says it fails open. `/auth` requests count twice, in the
global and the strict limiter, on one key. The history of notifications, stored so that
concurrent writes "never lose events" (notification/service.go:114-116), is deleted by every
change of the household or its members, as if it were a cached copy (household/service.go:420).
README.md:500-501 tells clients that ask with `since` that items missing from the response
were deleted, while the delta leaves out everything unchanged: deletions can be told only from an
answer without `since`, and the client of `Sync` does so. "Auto-migrations for all models" (database/postgres.go:79)
omits password_reset_tokens, email_verification_tokens and idempotency_keys. The `migrate` CLI
that docs/deployment.md:257 offers keeps its own record, which `RunMigrations` does not read.

---------------------------------------------------------------------------

## 6. What is not modelled

* Access tokens (stateless), hashing, mail, the profile read: no shared state.
* Names and their uniqueness, quantities, units: a refused statement.
* Bodies of messages and responses, formatting, logging, metrics.
* Dates other than those of the recurrence rules: expiry is "may have passed at any time".
* The SQL of the migration files: a file is its effect, there or not.
* The request timeout (`middleware/timeout.go`) cancels a context that nearly no service passes
  to the database; a cancelled statement is an aborted handler in the models.
* Rate-limit keys by user: one client address is modelled; old windows expire in Redis.
* `NotifyClient`, which nothing calls.
* Retries of Redis commands other than PUBLISH: a repeated LPUSH puts a notification into the history
  twice, a repeated INCR counts a request twice (with limits of 1 a request may be refused at any time anyway);
  GET, SET and DEL may be repeated without effect on what the models keep.
* Deployment, seeds, documentation: not program logic.

---------------------------------------------------------------------------

## 7. The plan

Done: `Auth`, `Hub`/`Broadcast`, `ShoppingItems`, `Recurrence`, `Gateway`, `Tenancy`, `Cache`,
`Sync`, `Migrations`, and proofs of all their invariants and action properties, with the
refinement of `Broadcast`. In order:

1. **Proofs about the excuses**: that each excuse is as narrow as the README says, for instance
   that a key becomes excused, or a category raced, only in the steps named in section 5.
2. **Composition** of `ShoppingItems` with the list's and category's life in `Tenancy`.
