# A TLA+ model of sirius-api-proxy

sirius-api-proxy is a Rust service between HTTP clients and a game's gRPC
upstream. It keeps a pool of game accounts, logs them in, routes calls to
itself or to peer nodes, caches answers, installs and publishes decoded Master
data, and dispatches asset jobs to a remote updater. This directory holds TLA+
models of its concurrent and crash-prone parts, the TLC configurations that
check them on small instances, and TLAPS proofs of the invariants that matter
most.

Paths below are relative to `src/src/` of the repository unless they start
with `docs/`. `PROJECT.json` lists the runs, the source lines every definition
models, the hazards the properties were chosen for, and the theorems.

## 1. The system and its models

| Part | Source | Module | What makes it hard |
|---|---|---|---|
| Path health | `path_health.rs` | `PathHealth` | late results of old calls, probes that never answer |
| Account health | `accounts.rs`, `client.rs` | `PathCharge` | a report is several critical sections; a streak is attributed in between |
| Single flight | `single_flight.rs` | `SingleFlight` | leaders cancelled while others wait |
| Asset dispatch | `asset_dispatch.rs`, `asset_outbox.rs`, `asset_jobs.rs`, `asset_dispatch_admin.rs` | `AssetDispatch`, `AssetRotation` | crashes at every point, lost and late answers |
| Node routing | `node_routing.rs`, `peer.rs`, `peer_transport.rs` | `NodeRouting` | an attempt that may have executed must not be repeated |
| Game call, versions, response cache, reloads | `client.rs`, `response_cache.rs`, `protocol.rs`, `resources.rs` | `GameCall` | five locks in order, answers applied late, reloads that drain calls |
| Global login | `sdk_session.rs`, `global_account.rs`, `client.rs` | `GlobalLogin` | regions and processes share one identity and one file |
| Master registry | `master_registry.rs`, `master.rs` | `MasterRegistry`, `PublicationLog`, `RegistryProperties` | readers without locks and crashes during pruning |
| Registry owner, sync, notifications, database | `registry_owner.rs`, `registry_service.rs`, `master_sync.rs`, `master_notify.rs`, `master_database.rs` | `RegistryOwner`, `MasterDatabase` | requests while the loop is busy, COMMITs of unknown outcome |
| Master updates, Git publication | `master_update.rs`, `master_git.rs`, `master_git_worker.rs` | `MasterOrigin` | passes killed at any command, a second writer on the remote branch |

How they interact. A call enters through the router (`NodeRouting`), which
shares equal reads (`SingleFlight`) and runs the rest here or on a peer. On the
executing node it goes through `GameCall`: cache, permit, reload barrier,
version bootstrap, fill guard, session lock, request. Its account may have to
log in (`GlobalLogin`), its requests pass the path's circuit (`PathHealth`),
and its result is charged to account or path (`PathCharge`, which extends
`PathHealth` and is shown to implement it). A new Master version is installed
by the updater (`MasterOrigin`) as a snapshot of a directory
(`MasterRegistry`), and published from there through Git (`MasterOrigin`) and,
on the registry owner, PostgreSQL (`MasterDatabase`, which `RegistryOwner`
extends with the loops around it). What the asset updater has to fetch goes
through `AssetDispatch`.

## 2. Modules

In every module one critical section, or what the code does between two
awaits, is one action. A crash, a lost answer, a timeout, an operator's or the
environment's action is an action too. Where a run needs a bound on these, it
is a constant (`MaxEvents`, `MaxOriginEvents`, `MaxFaults`, `MaxCrashes`) and a guard.

### PathHealth

One upstream path and the calls that hold tickets of it. The variables are the
fields of `State` plus the tickets. An action is one critical section of the
path's mutex: `Admit` (`PathHealth::admit`), `Release` (`Ticket::drop`),
`RecordHealthy`, `RecordFault`, `RecordNeutral` (`UpstreamAttempt::drop` with
`PathHealth::record`), and `Elapse`, the passing of the probe interval. An
`Instant` is only compared with the present, so `open_until` is `none`,
`waiting` or `due`. `seen` is a history of the sources of a streak.

### PathCharge, MCPathCharge

`call_admitted` as far as it concerns accounts: a call leases an account
(`Select`), takes its session lock (`Enter`), is admitted on the path, sends
attempts, and is reported. Every lock acquisition is a step of its own, because
the hazards are between them: a fault that attributes the streak releases the
path's mutex and then withdraws the streak's charges account by account
(`RevokeNext`); a report asks the path who pays (`Charge`), applies the result
(`Report`), and asks again whether the streak has been attributed meanwhile
(`Settle`, `Withdraw`). `Deadline` is the timeout of the inner block, which
drops session lock and ticket before the report. `Result` keeps the classes of
`Lease::report` and `Account::global_signal`. A late withdrawal of the SDK path
has no accounts to withdraw from and is left out.

The module extends `PathHealth` and keeps its variables, so the refinement
mapping is the identity: `ChargeSpec => PathSpec`.

### SingleFlight

Callers arrive with a key, find or create a cell, and take part in its
`OnceCell::get_or_init`, which is external and modelled from its use: a permit
passed to the waiters in order, handed on when its holder is dropped, and a
value once set. Leaders hold the map entry (`inflight`) until they release it
before publishing, or are dropped. Joiners have a deadline (`Expire`); any
caller may be dropped at an await (`CancelEarly`, `CancelFetch`,
`ReleaseLast`).

### AssetDispatch, AssetRotation

The disk holds the ledger with its cursor and the archive; the worker's memory
is lost in a `Crash`. A cycle observes, selects a batch, works its entries off
one by one and pauses; an operator adopts and archives between cycles, or
offline. A POST travels by itself and may be accepted after the worker has
given up or died. `AssetRotation` adds counters of how often one identity is
worked on while another one waits.

The updater is external: it accepts, refuses (429, 503 or another status only
for what it did not accept), ends and forgets jobs in any order, and answers
correctly, malformed or not at all. That a busy answer means the POST was not
accepted is what `DefinitelyRefused` takes from the code, and `ExecutedOnce`
rests on it.

### NodeRouting

The targets' `Health` and the routed calls of `call_inner`. `Admit` is
`Target::admit`, `Finish` and `Drop` are `Permit::finish` and `Permit::drop`, two
critical sections between which other calls act; `Cancel` is a caller that goes
away. An admitted call hands its query to the target at once, and the query is
from then on by itself: it is executed (`Execute`) or comes to nothing
(`Vanish`), before or after the caller has given up. A result counts as proof
that the query did not execute (`Rejected`) for the errors, outcomes and statuses
that the code takes as one; as the code's comments say, this supposes that no
intermediary invents such a status after forwarding a request. The deadline may
have passed whenever the code looks at it.

### GameCall

The path of a call through one region. A task's `pc` says which of permit,
protocol barrier, bootstrap lock, fill guard and session lock it holds, so a
lock is free when no task is at a stage that holds it. `Begin` and `Lookup` are
`call_selected` up to `cached_before_admission`; `Acquire` is one lock
acquisition of `call_admitted` and what follows it up to the next wait;
`GameReplies` and `GameFails` are the game; `BootstrapAnswer` and `Answer` apply
an answer (`observe`, the VERSION update, `put_with_ttl`) or send a lost anonymous
request again. `RequestReload` and `Activate` are `reload_protocol` and
`reload_accounts` behind the write half of the barrier, `BuildSnapshot` and
`HashFetched` are `ensure_global_snapshot` before and after its await.

Abstractions: the client version and the resource version come from one VERSION
answer and are one number; observing an answer and the update it causes are one
step; an entry of the cache records the protocol and pool it was made with
instead of a payload, and eviction counts entries, not bytes. The path's refusal,
cooling accounts, releases and maintenance are events. The path may also refuse
a call that already holds a ticket, which the code does not do: more behaviours
than the code's. gRPC status 14 counts as a lost answer. The time budget
of cache reads is not modelled.

### GlobalLogin

One SDK identity, the accounts of the regions that use it, their keepalive
workers, and `global-account verify`, a second process. `sdk` is `SdkSession`'s
`State` per process; `file` the state file; `login` the revalidation lock of a
process and `lock` the lock file between processes. `account_auth`, `exclusive`,
`revalidate`, `merge`, `persist`, `mark_stale`, `validated`, `refused`,
`keepalive_due`, `global_signal` and `reload_accounts` carry the names of the
functions they model. `persist` reads and merges the file under the state mutex,
and `Persist` renames the new one into place in a later step, because another
process may come between.

Abstractions: a token is the time it was obtained at; times are the order of the
results of `cache.login`. The login interval and the daily cap are one limit over
a window. Hours and days pass between calls, whose deadlines are seconds. A
player mismatch is the `denied` signal. A refusal by the SDK path is an event.
That the service goes on without a lock file it cannot open is not modelled, nor
is the keepalive's own skip at its deadline. Accounts with static credentials
are `PathCharge`'s.

### MasterRegistry, RegistryProperties, PublicationLog

The directory of snapshots as processes see it (`view`) and as it is durable
(`disk`): `sync_directory` carries one over into the other, and a power loss keeps
any subset of what lies between. A writer's pass (`PreparedImport::publish`,
`prune_within`) ends a step at each change another process can see: the rename of
the snapshot, CURRENT, `retention.json`, and the rename of every pruned directory.
A reader takes no lock; its walk (`history_walk`, `by_hash_walk`, a read of a table)
reads one file per step, and `CrossedBoundary` explains a directory that is gone.
Snapshots are numbered in the order they are installed, and `published` keeps
their immutable publication records; a legacy snapshot has none.

`PublicationLog` says what the directory promises: a log of publications to which
writers append, whose settled part survives a power loss, and from which only the
oldest entries are retired. `RegistryProperties` states the properties and the
refinement mapping: the log is the chain below CURRENT, its settled part the
chain below the durable CURRENT, the retired entries those without a directory.

### MasterDatabase, RegistryOwner

`MasterDatabase` has the tables of one scope and the transactions on them. A
transaction holds the advisory lock until the server ends it, and its client may
be gone by then: a COMMIT whose answer nobody waits for takes effect or not.
`upto`, the installation last published or migrated, is not stored; it says what
"older" means.
The history table is its sequence of hashes.

`RegistryOwner` extends it with the owner's loop, from `update` through the
comparison, preparation and installation of `master_sync.rs` to the publication,
the requests of the service (a pending bit, then a notification: two steps), the
notifier with its deliveries, the operator's import, the migration command, and
the source that changes or is lost. A fault (a failed request, a timeout at an
await, a restart) may come anywhere. Retention of the directory after a pass
is `MasterRegistry`'s.

What the model shows beside its properties: while the source is unreachable an
interval's pull fails before it publishes, so an import needs a publish request;
a publish request made during a local iteration puts the requested pull off once
more; and when the source goes from A to B and back to A and the acknowledgement of
B is lost, a consumer's last hint may be B's until the next interval.

`ServedForward` has one exception. The owner verifies a snapshot (`master_database.rs:247`)
before it waits for the advisory lock (line 304). A migration that commits a newer head
in between is followed by the older publication, until the next iteration.
`docs/MASTER_DATABASE.md:217-218` has the publisher stopped during a migration; the model
lets both run, and TLC finds this behaviour in the run's instance when the disjunct
`OnlyMigrated` is taken out.

### MasterOrigin

The updater (`MasterUpdater`: `Update`, `PrepareTarget`, `InstallTarget` with the question for
the target that precedes it, `record_master_update`) and the Git worker: a pass
under the state lock, command by command (`PublishBegins`, `check_remote`, `GitCommit`,
`Push`, `VerifyHead`). A commit is the sequence of the entries of its history, so an
ancestor is a prefix. A pass fails or is killed at any command (`Killed`), and its
push may have arrived. `AdoptBegins` and `Adopt` are `master-git-adopt`, another
process; `MoveAside` is the documented recovery from divergence. The game releases
versions, operators import, tables get damaged, strangers push, the state directory
is lost and the service restarts, as events. Strangers append to the remote branch and
never rewrite it: `ReceiptTrue` would not survive a force push of theirs.

An entry of a history is a publication of this scope (`ours`), of another environment or
platform of the region in the same layout (`twin`), of another region or layout
(`other`), or no publication (`foreign`). `recognize` compares the whole scope in the
native layout; `indented_root` records only the region (`master_git.rs:1211-1222`,
`1300-1325`), so adoption continues a twin's history there, as
`docs/MASTER_REGISTRY.md:554-555` says. `LocalOurs` claims for each layout what it records.

A Master version identifies its content. A `git push` that outlives a SIGKILL of
the service and arrives later is not modelled; the remote still takes it only as a
fast forward.

## 3. What TLC checks

| Run | Instance | Shows |
|---|---|---|
| `path_health` | 2 accounts and anonymous calls, 3 calls with 2 attempts each, threshold 2, 3 streaks | one probe at a time (`ProbeExclusive`), an open path is justified (`OpenJustified`), faults are attributed exactly (`AttributionExact`), refusing ends (`RefusalEnds`) |
| `path_charge` | 1 Global account, 2 calls, 2 streaks, no session lock | charges of the latest attributed streak are withdrawn (`LatestStreakSettled`), a threshold cooldown has its failures (`CooldownJustified`), the composition implements `PathSpec` |
| `path_charge_late` | 2 accounts, 2 streaks | a charge of an attributed streak that stays (finding 1) |
| `single_flight` | 3 callers, 2 keys | the map holds the running leaders (`EntriesAreLeaders`), an execution is shared (`SharedExecution`), every caller finishes (`CallersFinish`) |
| `asset_dispatch` | 2 identities, batches of 1, 2 busy answers, 1 crash | no POST is replayed (`ExecutedOnce`), completions are confirmed (`CompletionConfirmed`), the ledger always opens (`LedgerOpens`), work rotates (`BoundedOvertaking`), what is pending is dispatched (`Dispatched`) |
| `node_routing` | 2 calls, a peer and the local node, threshold 2 | an authenticated read runs on one node (`AuthenticatedOnce`), one probe per target (`OneProbe`), targets are asked again (`TargetsReturn`), calls end (`CallsEnd`) |
| `game_call` | a caller, the VERSION poll and a background refresh, 2 permits, cache of 1 entry, 2 events | a cached answer belongs to its key (`CacheScoped`), only a rejected version is suspect (`SuspectJustified`), a fresh snapshot is current (`SnapshotCurrent`), the version recovers (`VersionRecovers`), no call waits in a circle (`CallsComplete`; deadlock is checked) |
| `global_login` | 2 regions, one with keepalive, and the verify process, all 7 signals, failing writes, 2 events | a session is stale exactly when its token was rejected (`StaleExactly`), requests to the SDK are justified (`RequestJustified`), an identity that is due is revalidated (`KeptAlive`) |
| `global_login_refusal` | 1 region and the verify process, 4 events | a refusal that is overwritten (finding 2) |
| `master_registry` | 2 writers, 1 reader, 4 snapshots, window 2, 1 removal per pass, 1 fault | CURRENT is readable (`CurrentReadable`), pages are honest (`HistoryHonest`), failed lookups have a reason (`LookupsExplained`), the directory implements the log (`LogSpec`), a backlog converges (`BacklogConverges`) |
| `registry_owner` | 2 contents, 1 consumer, 2 events | hints announce only what is committed (`AnnouncedServed`), the served content never goes back, but for the first publication after a migration (`ServedForward`), a local publication gets through (`LocalPublished`), the source's content reaches database and consumers (`Delivered`) |
| `master_origin` | indented layout, adoption depth 2, 3 events | receipts are true (`ReceiptTrue`), no history the layout can tell from its own is continued (`LocalOurs`), the managed and the remote branch do not part while nobody else writes (`OneHistory`), what is installed reaches the remote (`GitConverges`; deadlock is checked) |

Bounds. Three calls are a probe, a late call of before, and one that asks now.
Two streaks of one account are what a delayed report needs. Three callers of one
key are a leader, the one that takes over and one that arrives late. Two identities
and one crash reach every state of an entry. A caller, a poll and a refresh are the
three kinds of tasks that overlap in `client.rs`; two events are a release and the
loss of one answer, or a reload and a release. Two regions and a second process are
what shares an identity. Four snapshots with a window of two are a backlog, and a
writer that died leaves the second one to go on. Two events of the owner are a
change and a fault in the middle of it. Three events of the origin are a lost state
directory or a killed pass between two changes of the remote. `MaxCount` is where
the `u32` counters saturate, moved down to the threshold or just above it.

Larger instances, run to the end without error, for the safety properties unless
noted:

| Module | Instance | Distinct states |
|---|---|---|
| `PathCharge` | 2 accounts with the session lock, no Global signals, 1 streak | 1.3 million |
| `SingleFlight` | 4 callers of one key | 153,188 |
| `AssetDispatch` | 2 identities, batches of 1, 2 crashes | 0.8 million |
| `AssetDispatch` | 2 identities, batches of 2, 2 crashes (without `BoundedOvertaking`) | 0.8 million |
| `AssetDispatch` | 3 identities, batches of 2, no crash (without `BoundedOvertaking`) | 31.7 million |
| `NodeRouting` | 2 peers and the local node | 2.7 million |
| `GameCall` | all three kinds of routes | 2.8 million |
| `GameCall` | 3 events | 2.1 million |
| `GlobalLogin` | 4 signals, 3 events, with liveness | 1.0 million |
| `GlobalLogin` | both regions with keepalive, with liveness | 204,106 |
| `MasterRegistry` | windows of 2 and 3, pages of 1 and 2 | 461,117 |
| `MasterRegistry` | 2 faults, kills at synced points only, with `LogSpec` | 423,660 |
| `RegistryOwner` | 2 consumers, 3 events | 4.1 million |
| `MasterOrigin` | native layout, with liveness | 201,713 |
| `MasterOrigin` | 4 events | 4.7 million |

Symmetry is used only for the path charge runs, which check no liveness property.

### Fairness

- `RefusalEnds`: time passes, and a call ends, because every call runs under
  `timeout_at`; nobody is obliged to call.
- `CallersFinish`: a caller that is not dropped is polled, and a fetch ends, because
  it enforces the deadline itself; being dropped is never required.
- `Dispatched`: the worker's task is scheduled and its requests have timeouts (weak
  fairness of `WorkerStep`), and its pause ends even if commands keep arriving,
  because the `select!` is biased and polls the pause before the commands (strong
  fairness of `Wake`). A failed write stops the worker, and the property allows for it.
- `TargetsReturn`, `CallsEnd`: a call is polled and its deadline passes, and cooldowns
  elapse; no peer has to answer.
- `VersionRecovers`, `CallsComplete`: tasks are polled, locks are fair queues, requests
  are answered or lost, a reload that has drained the calls activates, maintenance and
  cooling end, and clocks pass. A deadline is an event and never needed, so
  `CallsComplete` really excludes a circle of waits.
- `KeptAlive`: keepalive workers and callers are polled, the SDK answers or the request
  times out, and cooldowns and login windows pass.
- `BacklogConverges`: a writer that runs goes on, and passes recur at their interval.
- `LocalPublished`, `Delivered`: the loops, their timers, blocking workers and the server
  keep going; requests, imports, changes and faults need not happen.
- `GitConverges`: updater, worker and interval keep going, and the operator does what
  `docs/MASTER_REGISTRY.md` (478-612) asks for when the remote has commits the local
  branch lacks, and tries again when the lock is taken (strong fairness of
  `AdoptBegins` and `MoveAside`). The property allows for a remote that adopt does
  not recognize.

Updater, operators otherwise, crashes, losses and failures are never fair.

Deadlock is not checked where the system may stop: a worker that has stopped stays
stopped until its process is restarted, callers of a single flight are done once they
have their answer, a reader's walk ends, and bounds on streaks and events end the others.

### Findings

1. `client.rs:743`. `settle_charge` withdraws a late charge only if
   `PathHealth::attributed(streak)`, which knows the last attributed streak
   only. If a later streak is attributed first, the charge stays, although the
   streak's "account charges are withdrawn" (`path_health.rs:39`).
2. `sdk_session.rs:190`. `mark_stale` persists without the lock file. Between its read
   of the state file and its rename, the verify process can be refused and write the
   refusal, which the rename removes, against "A newer refusal written by another
   process is kept rather than overwritten." (`sdk_session.rs:292-293`) and
   `docs/ACCOUNTS.md:280`.

Met while modelling, not kept as runs:

- `single_flight.rs:96`. A joiner that gets the permit before the leader polls publishes
  while the entry is in the map; a caller that arrives then gets an outcome that was
  complete when it arrived, against lines 89-90.
- `asset_outbox.rs:276`. The cursor is committed at the end of the selected batch, so a
  batch that holds all open entries starts with the same one after every restart,
  against lines 249-250.
- `asset_dispatch.rs:313`. A job identifier that parses as a UUID but is not canonical
  ends the worker with `asset_outbox_storage`, which `docs/ASSET_DISPATCH.md:192`
  describes as a persistence failure.
- `master_registry.rs:855`. A writer that is killed between a rename and its sync leaves
  changes that are visible and not durable. The next pass finds its boundary in
  `retention.json`, does not write it again and starts to remove; a power loss may then keep
  the removal and lose the boundary, so that a lookup fails unexplained, against "The
  boundary is durable before anything disappears" (line 854). It may also keep a boundary
  and lose the CURRENT it was derived from, and a later pass keeps one snapshot less than
  its window. Each takes a kill at that point and a power loss after it: two faults violate
  `LookupsExplained` and `LogSpec`, the one fault of the run, a kill anywhere or a power
  loss, does not, and neither do two while writers are killed at synced points only
  (`KillUnsynced = FALSE`). `CurrentReadable` is proved for any number of either.
- `global_account.rs:38-41`, `docs/ACCOUNTS.md:130`, `:210`, `:305`. A call checks the login interval
  and the daily cap, waits for the revalidation lock and then counts its attempt. A
  keepalive of the same account may spend what the limits allow during the wait, so one
  attempt more than the limit can happen.
- `accounts.rs:552-554`, `docs/CONFIG_AUDIT.md:293-294`. A keepalive under way during a pool
  reload counts its attempt on the account of the old pool, and the new one does not
  inherit it.

## 4. What is proved

All proofs are for every value of the constants that satisfies the ASSUMEs of
the modules (sources are distinct; thresholds, capacities, windows and limits are
positive naturals, the retention window at least two; the other bounds are naturals).
Each inductive invariant was first checked by TLC on the instance of its run, and some on
larger ones: `BatchOrder` and `TurnsInv` with both orders of the two identities and batches of 1 and 2
(0.4 million states each), `GameInv` with two kinds of routes (1.8 million states), `LoginInv` with 5 events
(2.7 million), `RegistryInv` with 5 snapshots and windows of 2 and 3 (1.4 million) and with two
faults at synced points (0.5 million).

- `PathChargeProofs`, first `PathHealth` by itself: the invariants of `path_health`
  are proved from `PathInv`, their conjunction with the type invariant and with what
  relates `first_source` to `seen`: while a streak is not attributed, its only source
  is `first_source`. Without that conjunct `AttributionExact` is not inductive.
  Then the composition: `ChargeImplementsPath` shows that every step of
  `PathCharge` is a step of `PathHealth` or leaves its variables alone, which
  also carries `PathInv` over. `ChargeInv` adds the types of accounts and calls,
  that whoever reports has leased an account, and the account properties
  themselves. `LatestStreakIsSettled` goes action by action: a fault that
  attributes a streak puts every account on its caller's list, a report that
  charges a streak moves on to settle it, and every other step charges nothing
  new and releases nobody who still owes a withdrawal (`StaysSettled`).
- `RouterProofs`, single flight: `MapHoldsLeaders` and `ExecutionIsShared`. `FlightInv`
  says which leader a caller's cell belongs to, that a cell's permit is with
  exactly the caller whose stage says so, and where a leader stands once it has
  published or was dropped. Two fetches of one key whose leaders are alive are
  then the same one: the leader of an unpublished cell is registered, and a key
  has one entry.
- `AssetDispatchProofs`: `PostsExecuteOnce`, `CompletionIsConfirmed`,
  `LedgerAlwaysOpens`. `DispatchInv` relates disk and updater: no POST of an
  identity that is absent or pending (and not archived) is on its way or was
  ever accepted, and there is at most one otherwise (`EntryInv`). It also says in
  what state the entry in the worker's hands is (`WorkInv`) and that the rest of
  the batch is unfinished work (`BatchInv`). On top of it `OvertakingIsBounded`, for any
  number of identities and any batch limit. Two facts carry it. The keys of a batch come
  last in the rotation from the cursor that was committed with it, in the order of the
  batch, so every other unfinished key comes before what is left of it (`BatchOrder`;
  what comes before a selected key is selected too). And every turn of the favoured
  identity is paid for, by the first one, a restart or a removal of the cursor; with
  nothing left to pay the waiting identity comes first, or the worker has stopped until
  the next restart (`TurnsInv`).
- `RouterProofs`, node routing: `ReadsRunOnce`, `ProbesAreSingle`, `CoolingIsJustified`.
  `RoutingInv` says where an authenticated read may have been executed
  (`QueryShape`): nowhere while the call is between targets or after a result
  that proves it, else only at the target it is at or was at last; and that only
  a call at a target holds a probe.
- `GameCallProofs`: `CacheIsScoped`, `SuspicionIsJustified`, `SnapshotIsCurrent`. `GameInv`
  says of every task that, inside the reload barrier, it has the protocol and the pool in
  use (`Pinned`), that the key it may store under names what it was made with
  (`KeyScoped`), and that a mismatch it is about to observe was the game's word on the
  version it sent (`Explained`).
- `GlobalLoginProofs`: `StaleIsExact` and the action property `RequestsAreJustified`. `LoginInv`
  relates the times of tokens, validations and refusals in memory, in the file and in
  writes under way (`Shapes`, `TimesOK`). What an account remembers of a token is still
  the session's or older (`Remembers`), and every rejected token is no later than the last
  validation, so that what `merge` adopts was never rejected. For requests, no refusal
  comes into the file behind the back of whoever holds the lock file, although
  `mark_stale` writes without it: such a write repeats at most a refusal the file already
  had (`RefusalsOK`).
- `MasterRegistryProofs`, CURRENT: `CurrentIsReadable`, with killed writers at any point.
  `ReadableInv` adds that the durable CURRENT is the visible one or its predecessor
  and that no boundary lies above either (`PointersSound`), and what a pass relies on
  at each stage (`JobSound`): it removes only below a boundary that lies below both.
  That is where the window of two is needed: the durable CURRENT may be one
  installation behind.
- `MasterRegistryProofs`, the log: `LogIsDurable`, the refinement of `PublicationLog`.
  `DirectoryInv` says that the directory, and while a fault is left also what a power loss
  would leave of it, has its boundary on the chain and nothing missing above it (`Sound`),
  that the two differ by one change (`OneChange`), and where on the chain a pass is
  (`JobChained`). The hypothesis `OneUnsyncedFault` (one fault at most if writers may be
  killed before a sync, `KillUnsynced`; any number otherwise) is what the finding at
  `master_registry.rs:855` above makes necessary: TLC violates `LogSpec` without it.
- `RegistryWalkProofs`, the readers: `PagesAreHonest` and `FailuresAreExplained`, under the
  same hypothesis. `WalkInv` says of a walk in progress that its head is on the chain of
  CURRENT, that it has visited all of the pinned chain above its next snapshot and found
  nothing it looked for there, and that a page holds everything between its cursor and the
  next snapshot (`OnTheWay`). A writer's step keeps this because the chain only grows, the
  boundary only rises and no directory comes back (`WalkKept`); a directory that is gone
  when the walk comes to it lies below the boundary, which is what `crossed_boundary` reads.
- `PublicationProofs`, the owner and its database: `ServedGoesForward` and `AnnouncedIsServed`. `OwnerIInv` says that
  a transaction's tables are those of the database or go forward from them, that at most
  one holds the advisory lock, and that a snapshot the owner has verified is at
  least as new as what is served or may still be committed, unless a migration put it
  there. Without the last part a COMMIT of unknown outcome could be followed by an older
  publication. A migration under way has stored exactly the entries before its next one,
  so that nothing else has been published when it commits (`OnlyMigrated`).
- `PublicationProofs`, the Git origin: `ReceiptsAreTrue`, `LocalIsOurs`, `HistoryIsOne`, for both layouts.
  `OriginIInv` adds to the types and the invariants that a head about to be adopted was
  recognized (`AdoptSound`), and that a pass works on the managed branch as it is, with the
  remote branch behind it once checked unless others write there (`LineInv`). Being an
  ancestor is shown reflexive, transitive and kept by appending, and every step takes the
  remote branch forward (`RemoteStep`), so a receipt stays true.

The chain of publications (`ChainIn`) is a recursive function of the snapshot. The library's
induction theorems cannot be used by these provers, so what has to be shown of every snapshot
goes by least counterexample (`LeastNatural`, from the well-foundedness of `<` on the
naturals): each snapshot's predecessor is smaller.

Only model-checked: the liveness properties (fairness and ENABLED are beyond this
prover) and the findings. Every invariant and every action property that a passing run
checks is also the subject of a theorem.

## 5. What is not modelled

- Master table admission (`master_admission.rs`): one semaphore whose permit is shared by the
  response body and the blocking read through an `Arc`; its only transitions are the
  acquisition and the drop of the last clone, which the type system fixes.
- HTTP parsing, authorization, rendering, configuration, logging, codecs and transport: no
  state across requests, or pure I/O.
- Of the game call: the `WHOAMI` check before PLAYER_DATA, the promotion of JP snapshots
  from headers, CDN roots and credentials (comparisons of configured strings within one
  critical section), and the accounting of cached bytes.
- Two offline publishers at once: `master-db-import` (`main.rs:107`) beside the owner, and a
  migration that is followed by an old owner's commit in another scope.
- Decryption, JSON validation, signing and formatting of tables: pure data conversion.
- Clocks that go back, and files damaged other than by a crash, except for the tables of
  `MasterOrigin`.
