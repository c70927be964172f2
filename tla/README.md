# MizuFlow in TLA+

A specification of the core of MizuFlow, a feature-flag control plane: how a
flag gets from a request into MySQL, from there into etcd, from etcd to the
subscribers and the SDK clients, and what a reader makes of it; with the lock of
the reconcilers, the console's sessions and the rate limiter beside it. TLC checks
it on small instances, and TLAPS proves every safety property of it for every value
of the constants.

Source paths below are relative to `src/`.

## 1. The system

| Component | State | Operations | Talks to |
|---|---|---|---|
| Versioned write (`internal/repository/etcd.go`) | etcd keys: revision, logical version, payload | `SaveFeatureIfNewer`: Get, compare versions, Txn that compares the revision, up to 3 retries | etcd; called by the three publishers below |
| Write path (`internal/service/feature.go`) | MySQL tables for masters, audits, outbox | `SaveFeature` (one transaction, then a goroutine `syncToEtcd`), `RollbackFeature` | MySQL, versioned write |
| Outbox worker (`internal/service/worker.go`) | a fetched batch | per tick: up to 10 Pending tasks, publish, write the status | MySQL, versioned write |
| Reconciler (`internal/service/reconciler.go`) | offset and page | per tick, under an etcd lock: list the masters page by page, `checkOne` | MySQL, versioned write |
| Watcher and cache (`feature.go` `Run`, `cache.go`) | cached flags by short key, a revision | first read, then one step each for cache, ring and hub per event | etcd watch, ring, hub |
| Revision buffer (`internal/buffer`) | a ring of messages | `AddMessage`, `GetSince` | watcher, handlers |
| Event hub (`internal/service/hub.go`) | clients, shards, wildcards | one select over Register, Unregister, Broadcast, heartbeat | watcher, handlers |
| Stream handlers (`internal/api/stream_handler.go`) | one client per connection | `WatchFeature`, `DashboardWatch`, `FetchAll` | hub, ring, cache |
| SDK (`client/client.go`) | features, last revision, dirty mark, file | `Start`, watch loop, `handleUpdate`, snapshot loop; evaluation | stream handlers over HTTP, local file |
| Reconciler lock (`reconciler.go` `Run`) | one etcd session per process, a key per waiting Lock | NewSession once, then per tick Lock with a 5 s timeout, a pass, Unlock | etcd leases |
| Sessions (`internal/service/auth.go`, `internal/middleware/jwt.go`, `web/src/lib/axios.ts`) | one refresh token per user in Redis; a pair of tokens per page | Login, Refresh (GET, compare, SET), Logout (DEL); the page's answer to a 401 | Redis |
| Rate limiter (`internal/middleware/ratelimit.go`) | two Redis keys per client IP; a map of local limiters | the Lua bucket; Load, Store, Allow of the fallback; the sweep | Redis |
| SDK keys, console, plumbing | nothing of interest | | see 9 |

What is hard here:

* Every replica runs request goroutines, a worker and a reconciler, and all of
  them publish to the same keys without excluding each other. Versions come
  from a SELECT without a lock. Transactions may have an unknown outcome.
* Status columns are written unconditionally, from values read earlier.
* A process may die between any two of commit, publish and status update.
* A subscriber is fed from three overlapping sources (snapshot, ring, hub), and
  the hub's channels are taken in any order.
* The SDK's memory is shared by two goroutines and saved in two critical
  sections; its connections break all the time.
* A reconciler's session is made once, and its loss is not noticed; keys of the
  mutex stay behind when a Lock or an Unlock fails.
* A refresh compares with one Redis command and stores with another, and a page
  may have several under way; a command may take effect after its caller gave up.
* The limiter's time is read from different clocks before the call, so the bucket
  script sees it stale and out of order.

`PROJECT.json` lists the hazards line by line, with the properties aimed at them.

## 2. The modules

```
VersionedRegister        what a versioned write promises (abstract)
   ^ refined by
FeatureRepository        SaveFeatureIfNewer over etcd         FeatureRepositoryProofs
   ^ EXTENDS
FeatureSync              requests, outbox worker, reconciler  FeatureSyncProofs
   ^ EXTENDS, refined by
ReconcilerLock           the same with sessions and mutex     ReconcilerLockProofs

RevisionBuffer   EventHub
        ^ EXTENDS ^
FlagStream               watcher, cache, handlers             FlagStreamProofs
   ^ EXTENDS
SdkClient                one MizuClient against that server   SdkClientProofs

FlagEval                 what is accepted and what is read    FlagEvalProofs
AuthSession              tokens in Redis and in the pages     AuthSessionProofs
RateLimiter              the bucket and its fallback          RateLimiterProofs
```

**VersionedRegister** is an array of registers. A write replaces a strictly
older version or changes nothing, in one step. A write that failed or whose
caller died may take effect later, but only over an older version.

**FeatureRepository.** `call[c]` is the program counter of a goroutine inside
`SaveFeatureIfNewer`; Get and Txn are separate steps. `GetNewer`, `GetOlder`,
`TxnPut`, `TxnConflict` are the branches of the loop, `GetError` and `TxnError`
its error returns. etcd is external: revisions, linearizable Get, compare and
put. A Txn with an error goes to `late`, from which etcd may apply it at any
time (`LateTxn`), as it may for a process that dies (`Abandon`). An absent key
has revision 0, which makes the CreateRevision compare the same test as the
ModRevision compare.

**FeatureSync.** MySQL tables are sequences of committed rows in id order. A
transaction of `SaveFeature` is two steps: the SELECT (`BeginTx`) and the commit
(`TxCommit`), because under REPEATABLE READ its writes are invisible until then.
The commit starts the goroutine (`SyncOk`, `SyncErr`, `MarkCompleted`).
`MasterSaveError` is the dropped error at `feature.go:107`. The worker's pass is
`FetchPending`, then `NextTask`, `TaskOk`/`TaskErr`, `UpdateTask` per task in id
order. The reconciler's is `StartPass`, `ListByPage`, then `CheckFix`,
`CheckSkip` or `CheckError` per row. `GetFeatureVersion` is 0 because
`GetFeature` never fills in the version. A payload is a type and a raw value, so
a rollback can meet a value that its type refuses. `Crash(R)` ends the
goroutines of a replica. The reconciler's lock is left out here: passes of several
replicas may overlap.

**ReconcilerLock** adds the lock. etcd's `concurrency.Mutex` is external: `keys[s]`
is the set of older keys that the key of session `s` waits for, and a session owns
the lock when its key waits for none. Lock, its timeout, the pass and Unlock are
the steps of `Run`; a key is left behind by `LockError`, `LockTimeoutLate`,
`UnlockError` and by dead processes, whose leases expire. A Delete that failed for
its caller may be carried out later (`DeleteFails`, `LateDelete`): the key is named
after the lease, so it takes the key that the same session has put again, even
under a pass. `robbed` is history: the sessions whose key went that way. Sessions
are numbered per replica. `SessionLost` is a
partition longer than the TTL: `Run` never looks at `session.Done`, so the
replica's later Locks all fail, while a pass under way goes on. The pass itself is
that of FeatureSync, which ReconcilerLock is proved to refine.

**RevisionBuffer** is the ring as the code has it: physical slots, head and the
full flag. `sort.Search` is modelled by its contract.

**EventHub** is the goroutine's state and one action per case of its select.
The fan-out of one message is one step, since it touches each channel once and
nobody else sends. `Garbage` lets the name of a finished connection stand for
the next one, so that any number of connections fits a small set of names.

**FlagStream.** etcd's history is a sequence of events, the index being the
revision, and a payload is identified by its revision. `Run` reads the snapshot
(`RunSnapshot`), caches it flag by flag in key order (`RunLoad`) and begins to
watch (`RunWatch`); `FetchAll` may be served in between, and etcd goes on. It takes
an event in three steps (cache, ring, hub). A handler registers, reads the ring
(`Compensate`), writes what it found there message by message (`SendHistory`),
during which the hub may fill its channel or give it up, then forwards (`Stream`).
`wire[c]` is what it has written. The
fields `early` and `reset` are history: whether the hub knew the client when the
ring was read, and whether the client was told to reset.

**SdkClient** composes one client with the server. `wire` is what it reads. The
server writes `event:reset` (gin puts no space behind the colon) and the scanner
looks for `event: `, so resets and pings have no type and are dropped as data
that is not JSON. `sdkHist` records what the client has been through. `Copies` are
the memory, the file and what the saver has marshalled.
`StartRefused` is a start that the key check refuses: `fetchAll` does not look at
the status, and the JSON of the error decodes to no flags and revision 0.

**FlagEval.** A raw value is a string or the JSON of a strategy. `validatePayload`
is the server's check, `evaluate`, `matchRule` and the typed reads are the
client's. What strconv, encoding/json and the hash make of a string is given by
constants. A rule without values makes `matchRule` index an empty slice; this is
the value `Panic`.

**AuthSession.** Token `n` is the `n`-th pair that `generateTokens` made; pairs
expire in order. `session` is the one refresh token in Redis. A request is in
steps: the access check (`Deny`, `ServeApi`), the comparison (`RefreshCheck`) and
the SET (`RefreshStore`), then the interceptor (`Refresh`, `Renewed`, `Eject`,
`Reject`). A failed SET goes to `late` and may be applied any time. A page that is
reloaded or ejected orphans its requests, which the server may still complete.
The fields `raced`, `dropped` and `resumed` are history.

**RateLimiter.** Ticks are fractions of a second and grains are fractions of a
token, so that the script's arithmetic stays in the integers. `bucket.ends` is the
expiry of the keys by Redis's clock. A request picks a reading of up to `MaxSkew`
ahead when it arrives and uses it whenever Redis gets to it. `setback` adds up by
how much readings came too late. `lims[p]` holds all limiters replica `p` ever
made, `entry[p]` the one in its map.

Operators named `X_Something` next to an operator `X` are mutations: variants
with a plausible bug, used to see that each property can fail.

## 3. Properties

Write path:

* `RepoInv` and `SyncInv`: the inductive invariants (section 6).
* `AckedIsStored`: success of a call means etcd has that version or a newer one.
* `NeverOlder`: a key only changes to a higher version.
* `ImplementsRegister`: the loop implements VersionedRegister.
* `CallsEnd`: every call returns.
* `CompletedIsPublished`: a Completed task is in etcd. Nobody looks at it again,
  so this is what the outbox stands or falls with.
* `PublishedWasCommitted`: nothing of a transaction that failed is published.
* `CompletedConverges`: etcd equals the master row once a key's tasks are
  completed, if its saves did not race to one version and the row is the newest.
* `TasksSettle`: the outbox comes to rest, whoever overwrites whose status.

Reconciler lock:

* `LockInv`: the inductive invariant (section 6).
* `OnePass`: passes of two replicas overlap only if one has lost its session, or
  its key to the late Delete of an earlier Unlock.
* `RepairedWhileAble`: as long as one replica keeps its session, no published flag
  stays older than its master row (`DriftRepaired`), whoever else fails, dies with
  the lock or leaves a key behind. When all sessions are lost nothing is repaired.

Distribution:

* `StreamInv`: the inductive invariant (section 6).
* `BufferExact`: for every resume point the ring returns exactly the later
  events, in order, or says that it does not reach back.
* `SendsAreOpen`: no closed client is in a map that a send goes to.
* `StreamOrdered`: at most once, in order, own scopes only.
* `NoGap`: nothing falls between history and live messages, for a client the
  hub knew in time.
* `SnapshotNotBehind`: what a client can read as an event is in the snapshot.
* `SnapshotComplete`: between two events the snapshot holds the last put of every
  flag whose name is used in one scope, also after a restart.
* `EventsFlow`, `ReadsOrRemoved`: no client holds up distribution, and a client
  that nobody reads is removed, also when its Unregister overtook its Register.

SDK:

* `SdkInv`: the inductive invariant (section 6).
* `OnlyOwnFlags`: isolation of environments and namespaces from end to end.
* `CleanMeansSaved`: not dirty means saved.
* `DrainedIsCurrent`: a client that has read its stream to the end has every
  flag as etcd has it, whatever connections, evictions, crashes and starts from
  the file lie behind it. Excepted are the losses that the code allows: a reset, a
  session that the hub did not know in time, a server that failed, a start that was
  refused, and names that two scopes share.

Evaluation:

* `PublishedReadsTyped`: what the server accepts the client reads as its type.
* `FirstMatchWins`: rules decide in order; a rule without values takes the reader
  down exactly when no rule before it matches.
* `RolloutShare`, `RolloutGrows`: t percent are t of the hundred buckets, at the
  boundaries too, and raising the threshold takes nobody out.

Sessions:

* `AuthInv`: the inductive invariant (section 6).
* `RedeemedIsDead`: an exchanged refresh token is never in Redis again.
* `LogoutHolds`: no session between a logout and the next login, unless the logout
  met an exchange past its comparison or a SET of unknown outcome.
* `SessionIsHeld`: the token in Redis is in a page or on its way there, unless
  requests of one page raced or something was lost.
* `RequestsEnd`: a 401 leads to one refresh and one more attempt, never to a loop.

Rate limiter:

* `LimiterInv`: the inductive invariant (section 6).
* `LimitHolds`: the Redis bucket keeps to burst and rate, over the elapsed time,
  the skew and the time that readings came late by. While none comes late the
  limit is exact; replicas with different clocks that take turns exceed it for as
  long as they do.
* `QuietAllows`: after a second without a grant the burst is back.
* `FallbackHolds`: so does each replica's fallback, up to one more limiter for
  every concurrent miss and every sweep.

## 4. Runs

| Run | Instance | Shows |
|---|---|---|
| `repository` | 2 callers, 1 key, 2 versions, 1 retry, 2 faults | the versioned write, its refinement and its termination |
| `sync` | 1 writer and 1 reconciler on one replica, 1 worker on another, 1 boolean flag, 3 saves, 2 attempts, 2 faults | the three publishers against each other |
| `lock` | 2 replicas, each with a reconciler, 1 writer, 1 boolean flag, 2 saves, 1 fault of the write path and 1 of the lock, 2 sessions per replica | the lock, repair under fairness, rollbacks and refused rollbacks |
| `stream` | subscriber, ring of 2, 3 events of every kind in 2 scopes, 1 restart or lost watch | wrap-around, histories of several messages, eviction, channel orders |
| `stream_live` | subscriber and dashboard, ring of 2, 1 event among heartbeats, 1 restart or lost watch | the hub's books and its progress |
| `sdk` | client, ring of 2, 2 events in 2 scopes, 1 failure, 1 save | the client end to end |
| `auth` | 1 page with 2 requests, 3 pairs of tokens, 1 fault | races of refresh, login and logout |
| `limiter` | 2 requests of one IP, limit 1/s, 2 ticks a second, skew 1, 4 ticks, 2 faults | bucket, expiry, fallback and sweep |
| `eval` | all payloads of 10 strings and 290 strategies, 11 contexts | evaluation |

Bounds and why they are enough. Two actors suffice for every race in this code,
which is between a reader and one writer that comes between its read and its
write; a third is present as the fault budget (a late transaction). One retry
reaches both branches of the retry counter (the code has 3), one or two attempts
both branches of the worker (5). A ring of two with three events wraps, has partly
filled states and returns histories of more than one message; channels of capacity one are full after one message, which
is where eviction and blocking happen (a heartbeat fills one as well as an event does, so
one event is enough in `stream_live`). A ring of one would never return history,
so it is not used. In `sdk` the other scope has a flag with a name of the client's
and one without: the cache is keyed by the short key, and flags of one name in two
scopes replace each other there (listed as a hazard). In `lock` two sessions let each replica be
started anew after a death, and its one fault may be an Unlock whose Delete comes
late, into the next pass. Drift takes a save that neither its goroutine nor a
worker publishes; `lock` has no worker, so that one fault makes it happen. A pass
meets one row, then the empty page that ends it. In
`auth` two requests are every race of a refresh with another command, and a reload
with requests under way is to the server what a second page is. In `limiter` two
ticks a second give half tokens, the time to live ends within the bound, and the
two requests make every pair of out-of-order readings. In `eval` attribute values
lie in the buckets next to the thresholds (0, 49, 50, 51, 99). Deadlock is checked
in `repository` and `eval`; elsewhere the bounds on saves, events, tokens, time and
failures let the system stop.

Runs that expect a violation state something the repository says and the code
does not do:

| Run | Statement | What happens |
|---|---|---|
| `lost_update` | README.md:23, eventual consistency of MySQL and etcd | two saves commit different values under one version; the call that comes second finds that version in etcd and reports success, so both tasks are completed and etcd holds one value, MySQL's newest row perhaps the other |
| `missing_key` | README.md:24, automatic remediation of drift | an absent key is an error to `checkOne`, which returns |
| `reset_ignored` | client.go:194, "re-fetching all features" | the event type is not recognised |

Two more things that the code does and that no run is spent on: `RollbackFeature`
reads the current version "for CAS protection" (feature.go:282 and :300), but
`SaveFeature` never looks at the version it is given; and on a delete event `Run`
asks the cache to delete the full path (feature.go:373), while the cache is keyed
by the short name, so a deleted flag stays in the snapshot. Both are in the model.

## 5. Fairness

* `RepoFairness`: a call under way is scheduled and etcd answers it or fails it.
* `SyncFairness`: goroutines of living replicas are scheduled and tickers tick.
  Requests, failures, crashes and late transactions are never obliged to happen,
  and the fault budget makes them finite.
* `StreamFairness`: the watcher goes on, and the hub takes every case that stays
  ready (Go's select chooses at random among the ready ones), its ticker
  included. Nothing is assumed of the handlers: a write to a slow connection may
  block for ever.

* `LockedFairness`: the same, and a lease that nobody renews expires. A replica
  that has its session gets to try for the lock, not to have it. A late Delete is
  never obliged to happen.
* `AuthFairness`: handlers and callbacks of requests under way run. Nobody has to
  send, reload or fail, and tokens need not expire.

## 6. Proofs

Every safety property that a run checks is a theorem. The theorems hold for all
values of the constants: callers, keys, versions, values, replicas, sessions, pages,
requests, limits, clock skews, connections, scopes, ring and channel sizes, events,
payloads and contexts, and any number of faults. They use the assumptions of the
modules (`RepoConstants`, `SyncConstants`, `LockConstants`, `SizeOK`, `HubConstants`,
`StreamConstants`, `MessagesApart`, `SdkConstants`, `EvalConstants`, `AuthConstants`,
`LimiterConstants`), which TLC evaluates in the runs: versions are positive numbers,
bounds and capacities are numbers, the three kinds of goroutines are disjoint and
make up the callers, every request has its page or its replica, scopes are
numbers (etcd's key order), a heartbeat and an empty slot are no event, an SDK
connection asks for the client's scopes, and the functions that stand for strconv,
encoding/json and the hash have their Go types.

*Repository.* `NeverOlder` is not inductive: a Txn must be known to carry a
version above the one stored at the revision it compares with. `CasGuard` says
so: if the key still has the revision that was seen, its version is smaller than
the flag's, and the seen revision is not above the store's. It holds of the calls
between Get and Txn (`CallsGuarded`) and of late transactions (`LateGuarded`),
and is kept by others' writes because those take fresh revisions. `EntriesOK`
bounds the revisions. From `RepoInv` follow `RepoInvariant`, `NeverOlderAlways`,
`AckedIsStoredAlways` and, with the mapping of a call to a pending, successful or
failed operation and of late transactions to orphans, `RepoRefinesRegister`.

*Write path.* `CompletedIsPublished` needs to know that a goroutine about to
write Completed works on a task that etcd has made up for (`WriterOK`,
`WorkerOK`, with `WaitsFor` tying a call to its task's flag), which is stable
because versions only grow: the repository's step lemmas are reused for every
action. `PublishedWasCommitted` needs every flag on its way to etcd to be a
committed one (`FlagsCommitted`, `ReconcilerOK`). `SyncInvariant` proves the
conjunction, one step per action. `CompletedConvergesAlways` follows from it
without induction. `SyncNeverOlder` and `SyncUsesRegister` carry the repository's
theorems over to the composed specification.

*Lock.* `LockedRefinesSync` shows that every step of ReconcilerLock is a step of
FeatureSync or leaves its variables alone, so `LockedKeepsPromises` has the
promises of the write path for free: none of them rests on the lock. `OnePass`
needs that a pass owns the lock unless its session has ended or a late Delete has
taken its key (`PassHolds`), that two keys are always ordered (`KeysOrdered`, so
that two cannot both wait for nobody) and that a process has the last session of
its replica (`SessionsOwn`, so that a new one has no old key or Delete). Owning is
stable because a new key is put behind all others, and a key is only removed by its
own replica, by its session's end, or by a late Delete, which marks it as robbed
until it is acquired anew.

*Sessions.* `RedeemedIsDead` needs that a token on its way to Redis in a late SET
is in nobody's hands (`TokensSettled`), since otherwise it could be exchanged
before it arrives; `LogoutHolds` that no exchange is past its comparison and no
late SET exists after a clean logout (`AfterLogout`): a comparison cannot succeed
without a session, so none can begin. `SessionIsHeld` needs that only
one request writes a page's tokens (`SoleWriter`) and that an answer which replaces
a page's token replaces none that is the session's (`AnswersFit`).

*Limiter.* `LimitHolds` is not inductive, since time that is filled twice must be
charged to somebody. `TokensAccounted` bounds grants and tokens by the time of the
bucket's own timestamp plus `setback`; `StampsOK` and `ReadingsOK` bound
timestamps and readings by the clock and the skew, also across the expiry of the
keys, by which the bucket has filled up anyway. `QuietAllows` follows from
`StampsOK` alone. `FallbackHolds` bounds a sum over all limiters that a replica
ever made. It is carried as a ledger (`IsLedger`): the running total up to each
limiter, with what each has let through and still has never above what it earned;
the ledger grows by one entry per new limiter and shifts from the entry of the
limiter that is used.

*Distribution* (`FlagStreamProofs`). `StreamInv` follows an event on its way.
`RingOK` says that the slots from the oldest to the newest are the last events Run
has taken (`Ringed`), so the bisection's answer is exact. `HubOK` keeps the maps and
the closed channels apart and needs that a client is registered once. `CacheOK` puts
the cache before the ring; its part `LoadOK` says that while the snapshot is being
cached what is left of it is as it was read and what is cached is part of it, so
the cache is complete when the watch begins. The rest is about one connection: `ConnOK` says that what
it has written, has left of its history and finds in its channel are events in
order; `GapOK` that the three join without a gap for a connection that was early.
It takes the form "every event asked for up to the last one sent is on the wire,
the later ones are in the rest of the history or behind it, and those behind it are
in the channel up to the last that the hub gave", because the hub goes on filling
the channel, or closes it, while the history is still being written. Each action is
a lemma about its own connection and a frame lemma for the others.

*SDK* (`SdkClientProofs`). A step of the composed system is a step of FlagStream, or
leaves the server alone but for the count of failures, so `StreamInv` carries over.
`SdkInv` adds the client's half. `ReadOK`: what has been read of the wire is not
newer than `lastRev`, and a reset is always the first thing on a wire. `SaverOK`:
what is marshalled equals an unmarked memory. `KeptOK` is what `DrainedIsCurrent`
rests on: every copy (memory, file, marshalled data) of a client that is sure of
itself has every live flag up to its own `lastRev`, and `lastRev` is not behind the
server's snapshot. A flag may be newer than `lastRev`, since a put does not raise the
cache's revision: the stream then replays older puts over it and ends at the newest.
So the statement is about live revisions only. `NoSkip` is the heart of the proof: by
`GapOK` no event of the client's scopes lies between `lastRev` and the event that is
read next. `OnlyOwnFlags`, `CleanMeansSaved` and `DrainedIsCurrent` follow.

*Evaluation* (`FlagEvalProofs`). The loop of `evaluate` is a recursive function over
the rules. Its value is found without an induction over data by a least
counterexample: if some position disagrees with the first rule that stops the loop,
a smallest distance from the end does, and one unfolding of the loop contradicts it
(`LoopIs`, `NoStop`, `FirstStop`). `PublishedReadsTyped` and `FirstMatchWins` follow
by cases over the types, `RolloutShare` from the cardinality of an interval, and
`RolloutGrows` since raising one threshold leaves the earlier rules as they are.

## 7. Only model-checked

Liveness (`CallsEnd`, `TasksSettle`, `RepairedWhileAble`, `EventsFlow`,
`ReadsOrRemoved`, `RequestsEnd`) is out of reach of the proof system used here, which
has no rules for fairness and ENABLED. The three statements of section 4 that the
code violates have counterexamples and no theorems.

## 8. Plan

1. Modelled: every component with state of its own: the write path, the lock, the
   distribution path, the SDK's synchronisation and evaluation, sessions, limiter.
2. Proved: the safety properties and action properties of all of them, and the
   refinements FeatureRepository to VersionedRegister and ReconcilerLock to
   FeatureSync.
3. Worth having next: that the ring and the hub alone refine an abstract
   publish-subscribe channel per subscriber, of which `StreamOrdered` and `NoGap`
   are consequences; and the steps of the liveness arguments that are not temporal
   (which action lowers which measure), as lemmas.

## 9. Not modelled

Read-only queries (list, get, audits, health), request validation that changes no
state, logging, metrics, routing, configuration, the web console but for its
handling of tokens, and the load test. The limiter's response headers, and the
dev-mode header that bypasses the access check. Whether an SDK key is valid: the
table is only read. A second SET by which go-redis retries one that Redis had
carried out without its answer: a late SET stands only for one that failed for its
handler. Durations (backoff, jitter, tickers) other than the limiter's. Values that are not the JSON of a flag, which nothing in the repository
writes to the feature prefix. `FeatureRepository.SaveFeature` and
`FeatureMasterRepository.Rollback`, which nobody calls.

Some hazards are in the models, but no property is about their harm, since the
repository says nothing that it would contradict: the dropped error of the master
row's Save (`MasterSaveError`), a message that a client the hub did not know in time
gets by neither way, names that two scopes share, the empty ring after a restart, a
`Run` that has returned (`RunStops`), and the refused start that overwrites a good
file (`StartRefused`). The properties beside them except these cases by name, and
their entries in `PROJECT.json` say so.
