------------------------------ MODULE GameCall ------------------------------
(***************************************************************************)
(* The call path of one region (client.rs): the lookup before admission,   *)
(* the inflight permit, the protocol barrier, the Version bootstrap and    *)
(* refresh, the response cache with its background refresh, the session    *)
(* lock, the request to the game and what its answer does to the version   *)
(* state; the reloads of the protocol and of the accounts; and the         *)
(* snapshot of a Global region.                                            *)
(*                                                                         *)
(* Version state and resource version come from one VERSION answer and are *)
(* one number, 0 for none.  A task's pc says which permit, guard or lock   *)
(* it holds.  Path health, account health, shared executions and logins    *)
(* have modules of their own: here the path may refuse, the account may be *)
(* cooling, and a call runs alone.                                         *)
(***************************************************************************)
EXTENDS Integers, FiniteSets

CONSTANTS
    Callers,
    Poller,             \* the scheduled refreshes, which call VERSION
    Refresher,          \* the task of a background refresh
    Routes,             \* what the other callers read
    None,
    MaxInflight,        \* upstream.max_inflight
    MaxAnonymous,       \* upstream.anonymous_max_inflight
    Attempts,           \* upstream.anonymous_attempts
    MaxEntries,         \* response_cache.max_entries
    MaxEvents           \* what the game, the network and operators do

ASSUME CallAssumption ==
    /\ Poller # Refresher /\ {Poller, Refresher} \cap Callers = {}
    /\ Routes \subseteq {"ranking", "announcement", "profile"}
    /\ {MaxInflight, MaxAnonymous, Attempts, MaxEntries} \subseteq Nat \ {0}
    /\ MaxEvents \in Nat

VARIABLES
    game,               \* the game: its version, and whether it is under maintenance
    state,              \* the client's State
    protocol, pool,     \* generations of the protocol and of the accounts
    reload,             \* None, or the reload that waits for the calls to drain
    cooling,            \* whether every account is cooling
    cache,              \* the response cache: keys to entries
    task,
    snapshot, build,    \* the snapshot, and the build under way
    rejected,           \* history: the versions the game called stale
    events

env == <<game, cooling>>
generations == <<protocol, pool, reload>>
snapshots == <<snapshot, build>>
vars == <<env, state, generations, cache, task, snapshots, rejected, events>>

Tasks == Callers \union {Poller, Refresher}

Event == events < MaxEvents /\ events' = events + 1

authenticated(route) == route \in {"ranking", "profile"}
cached(route) == route \in {"ranking", "announcement"}

----------------------------------------------------------------------------
(* The locks, by the pc of those who hold them.                            *)

Admitted == {"barrier", "boot", "asking", "answered", "fill", "session", "sent", "back"}
Guarded == Admitted \ {"barrier"}
Booting == {"asking", "answered"}
Filling == {"session", "sent", "back"}
InSession == {"sent", "back"}

At(x, pc) == task[x].pc = pc
Holding(pcs) == {x \in Tasks : task[x].pc \in pcs}

(* A fill guard belongs to a key; a call without a key takes none. *)
FillFree(k) == \A x \in Holding(Filling) : task[x].key # k

(* An account call takes the account's lock, another call a slot. *)
SessionFree(route) ==
    IF authenticated(route)
    THEN \A x \in Holding(InSession) : ~authenticated(task[x].route)
    ELSE Cardinality({x \in Holding(InSession) : ~authenticated(task[x].route)}) < MaxAnonymous

Idle == [pc |-> "idle", route |-> None, protocol |-> 0, scope |-> 0, key |-> None, checked |-> None,
         refresh |-> None, required |-> FALSE, sent |-> 0, answer |-> None, tries |-> 0]

Unknown == [version |-> 0, suspect |-> FALSE, fresh |-> FALSE, retry |-> FALSE,
            maintenance |-> FALSE, healthy |-> FALSE]

Init ==
    /\ game = [version |-> 1, maintenance |-> FALSE] /\ cooling = FALSE
    /\ state = Unknown
    /\ protocol = 0 /\ pool = 0 /\ reload = None
    /\ cache = <<>>
    /\ task = [x \in Tasks |-> Idle]
    /\ snapshot = [version |-> 0, stale |-> TRUE] /\ build = None
    /\ rejected = {}
    /\ events = 0

----------------------------------------------------------------------------
(* What a route needs before its headers are usable. *)
version_need(route) ==
    IF route = "version" THEN "fresh"
    ELSE IF state.version = 0 THEN IF authenticated(route) THEN "required" ELSE "fresh"
    ELSE IF state.retry THEN "fresh"
    ELSE IF state.suspect THEN "wait"
    ELSE IF state.fresh THEN "fresh" ELSE "age"

(* The key of the task t in the state s; none during known maintenance, or *)
(* for a route that is not cached.  The scope is the account's identity;   *)
(* an anonymous route has none.                                            *)
response_cache_key(t, s) ==
    IF ~cached(t.route) \/ s.maintenance THEN None
    ELSE [protocol |-> t.protocol, pool |-> pool, version |-> s.version,
          route |-> t.route, scope |-> IF authenticated(t.route) THEN t.scope ELSE -1]

Entry(k) == k # None /\ k \in DOMAIN cache
Fresh(k) == Entry(k) /\ ~cache[k].stale

Set(x, t) == task' = [task EXCEPT ![x] = t]
Goto(x, pc) == Set(x, [task[x] EXCEPT !.pc = pc])
Done(x) == Set(x, Idle)

(* spawn_refresh: unless one is under way, a call of the refresher's own,  *)
(* for the account whose entry it is.                                      *)
Spawned(k) == IF At(Refresher, "idle")
              THEN [Idle EXCEPT !.pc = "permit", !.route = k.route, !.refresh = k]
              ELSE task[Refresher]

(* A hit answers x; a stale one has a refresh spawned if it may. *)
Hit(x, k, refreshes) ==
    task' = [task EXCEPT ![x] = Idle,
                         ![Refresher] = IF refreshes /\ cache[k].stale /\ x # Refresher
                                        THEN Spawned(k) ELSE IF x = Refresher THEN Idle ELSE @]

(* call_selected, up to the snapshot the lookup before admission takes. *)
Begin(x) ==
    /\ x \in Callers /\ At(x, "idle")
    /\ \E route \in Routes :
         Set(x, [Idle EXCEPT !.route = route, !.protocol = protocol, !.scope = pool,
                             !.pc = IF cached(route) /\ version_need(route) \in {"fresh", "age"}
                                    THEN "lookup" ELSE "permit"])
    /\ UNCHANGED <<env, state, generations, cache, snapshots, rejected, events>>

(* refresh_master_target and refresh_resource_snapshot call VERSION. *)
Poll ==
    /\ At(Poller, "idle") /\ Event
    /\ Set(Poller, [Idle EXCEPT !.route = "version", !.pc = "permit"])
    /\ UNCHANGED <<env, state, generations, cache, snapshots, rejected>>

(* cached_before_admission: with every account cooling, an entry still     *)
(* retained answers and is not refreshed.                                  *)
Lookup(x) ==
    LET k == response_cache_key(task[x], state)
        quarantined == authenticated(task[x].route) /\ cooling
    IN  /\ At(x, "lookup")
        /\ IF Entry(k) THEN Hit(x, k, ~quarantined)
           ELSE Set(x, [task[x] EXCEPT !.pc = "permit", !.checked = IF quarantined THEN None ELSE k])
        /\ UNCHANGED <<env, state, generations, cache, snapshots, rejected, events>>

----------------------------------------------------------------------------
(* call_admitted.  Once a lock is held, the call goes on to its next wait. *)

(* The key, and the cache under it unless the lookup found it empty; a     *)
(* refresh whose key is another one by now gives up.                       *)
Keyed(x, t, s) ==
    LET k == response_cache_key(t, s)
    IN  IF t.refresh \notin {None, k} THEN Done(x)
        ELSE IF t.checked # k /\ (IF t.refresh = None THEN Entry(k) ELSE Fresh(k)) THEN Hit(x, k, TRUE)
        ELSE Set(x, [t EXCEPT !.pc = IF k = None THEN "session" ELSE "fill", !.key = k, !.checked = None])

AlwaysHeader(route) == state.version
(* The version header of a request that leaves now. *)
Header(route) == IF route = "version" /\ state.suspect THEN 0 ELSE state.version

(* The VERSION call under the bootstrap lock, if it is still needed. *)
Bootstrap(x, t) ==
    LET need == version_need(t.route)
    IN  IF need = "fresh" THEN Keyed(x, t, state)
        ELSE Set(x, [t EXCEPT !.pc = "asking", !.sent = Header("version"), !.required = need = "required"])

(* ensure_version: an age-only refresh is for whoever finds the lock free. *)
ensure_version(x, t) ==
    LET need == version_need(t.route)
    IN  IF need = "fresh" \/ (need = "age" /\ Holding(Booting) # {}) THEN Keyed(x, t, state)
        ELSE IF need = "age" THEN Bootstrap(x, t)
        ELSE Set(x, [t EXCEPT !.pc = "boot"])

(* A permit, and the read half of protocol_calls behind a waiting writer;  *)
(* then a lease.                                                           *)
Admit(x) ==
    /\ At(x, "permit") /\ Cardinality(Holding(Admitted)) < MaxInflight
    /\ Goto(x, "barrier")
EnterBarrier(x) ==
    /\ \/ At(x, "barrier")
       \/ At(x, "permit") /\ Cardinality(Holding(Admitted)) < MaxInflight
    /\ reload = None
    /\ IF authenticated(task[x].route) /\ cooling THEN Done(x)
       ELSE ensure_version(x, [task[x] EXCEPT !.protocol = protocol, !.scope = pool])

(* With the fill guard, the cache is read again. *)
FillUnderBarrier(x) ==
    /\ At(x, "fill") /\ FillFree(task[x].key) /\ reload = None
    /\ IF Fresh(task[x].key) THEN Done(x) ELSE Goto(x, "session")
EnterFill(x) ==
    /\ At(x, "fill") /\ FillFree(task[x].key)
    /\ IF Fresh(task[x].key) THEN Done(x) ELSE Goto(x, "session")

(* With the session lock: the account may be cooling by now, a refresh may *)
(* have another key.  The headers are read as the request leaves.          *)
EnterSession(x) ==
    LET t == task[x]
    IN  /\ At(x, "session") /\ SessionFree(t.route)
        /\ IF \/ authenticated(t.route) /\ cooling
              \/ t.refresh # None /\ response_cache_key(t, state) # t.refresh
           THEN Done(x)
           ELSE Set(x, [t EXCEPT !.pc = "sent", !.sent = Header(t.route)])

Acquire(x) ==
    /\ \/ reload # None /\ Admit(x)
       \/ EnterBarrier(x)
       \/ At(x, "boot") /\ Holding(Booting) = {} /\ Bootstrap(x, task[x])
       \/ EnterFill(x)
       \/ EnterSession(x)
    /\ UNCHANGED <<env, state, generations, cache, snapshots, rejected, events>>

(* An open path refuses the first request of the call; a refresh of the    *)
(* version that is refused leaves the call to go on.                       *)
PathRefuses(x) ==
    LET need == version_need(task[x].route)
    IN  /\ Event
        /\ \/ /\ At(x, "boot") /\ Holding(Booting) = {} /\ need # "fresh"
              /\ IF need = "required" THEN Done(x) ELSE Keyed(x, task[x], state)
           \/ At(x, "session") /\ SessionFree(task[x].route) /\ Done(x)
        /\ UNCHANGED <<env, state, generations, cache, snapshots, rejected>>

----------------------------------------------------------------------------
(* The game.  It serves the version it announces and may reject another;   *)
(* VERSION without a header always answers.                                *)

Requested(x) == IF task[x].pc \in Booting THEN "version" ELSE task[x].route
Reply(x, kind) ==
    Set(x, [task[x] EXCEPT !.pc = IF At(x, "asking") THEN "answered" ELSE "back",
                           !.answer = [kind |-> kind, version |-> IF Requested(x) = "version" /\ kind = "ok"
                                                                  THEN game.version ELSE 0]])

GameReplies(x) ==
    /\ At(x, "asking") \/ At(x, "sent")
    /\ \/ game.maintenance /\ Reply(x, "maintenance") /\ UNCHANGED rejected
       \/ ~game.maintenance /\ Reply(x, "ok") /\ UNCHANGED rejected
       \/ /\ ~game.maintenance /\ task[x].sent \notin {0, game.version}
          /\ Reply(x, "mismatch") /\ rejected' = rejected \union {task[x].sent}
    /\ UNCHANGED <<env, state, generations, cache, snapshots, events>>

(* It fails, or rejects a version it still announces; or nothing comes     *)
(* back.                                                                   *)
GameFails(x) ==
    /\ At(x, "asking") \/ At(x, "sent")
    /\ Event
    /\ \/ \E kind \in {"error", "lost"} : Reply(x, kind) /\ UNCHANGED rejected
       \/ /\ task[x].sent = game.version
          /\ Reply(x, "mismatch") /\ rejected' = rejected \union {task[x].sent}
    /\ UNCHANGED <<env, state, generations, cache, snapshots>>

----------------------------------------------------------------------------
AnyMismatch(t) == t.answer.kind = "mismatch"
(* observe: only a mismatch of the version still in use makes it suspect. *)
Suspected(t) == t.answer.kind = "mismatch" /\ t.sent # 0 /\ t.sent = state.version
observe(t) ==
    [state EXCEPT !.maintenance = t.answer.kind = "maintenance",
                  !.healthy = t.answer.kind = "ok",
                  !.suspect = @ \/ Suspected(t)]

(* A VERSION answer replaces what was known.  One that repeats a version   *)
(* the game called stale is not asked for again at once.                   *)
Announced(s, version) ==
    [s EXCEPT !.version = version, !.suspect = FALSE, !.fresh = TRUE,
              !.retry = s.suspect /\ s.version = version]

Ok(x) == task[x].answer.kind = "ok"
Lost(x) == task[x].answer.kind = "lost"

(* The state after x's answer is applied, and the snapshot: only a good    *)
(* answer that is not VERSION's leaves it.  A lost answer is not observed. *)
Applied(x) ==
    IF Lost(x) THEN state
    ELSE IF Ok(x) /\ Requested(x) = "version" THEN Announced(observe(task[x]), task[x].answer.version)
    ELSE observe(task[x])
Stale == snapshot' = [snapshot EXCEPT !.stale = TRUE]
SnapshotAfter(x) ==
    IF Lost(x) \/ (Ok(x) /\ Requested(x) # "version") THEN UNCHANGED snapshot ELSE Stale

(* A result that is a timeout or a transport failure. *)
Unreachable ==
    /\ state' = [state EXCEPT !.healthy = FALSE]
    /\ Stale

(* execute: an anonymous request that was lost is sent again. *)
Again(x) ==
    /\ Lost(x) /\ ~authenticated(Requested(x))
    /\ task[x].tries + 1 < Attempts /\ ~state.maintenance

(* The end of a bootstrap or refresh under the bootstrap lock.  The key is *)
(* made of the version it brought.                                         *)
BootstrapAnswer(x) ==
    /\ At(x, "answered")
    /\ IF Again(x)
       THEN /\ Set(x, [task[x] EXCEPT !.pc = "asking", !.tries = @ + 1, !.sent = Header("version")])
            /\ UNCHANGED <<state, snapshot>>
       ELSE IF task[x].required /\ ~Ok(x)
       THEN /\ Done(x)
            /\ IF Lost(x) THEN Unreachable ELSE state' = Applied(x) /\ SnapshotAfter(x)
       ELSE LET t == [task[x] EXCEPT !.tries = 0, !.answer = None, !.sent = 0, !.required = FALSE]
            IN  /\ Keyed(x, t, Applied(x))
                /\ state' = [Applied(x) EXCEPT !.retry = @ \/ ~Ok(x)] /\ SnapshotAfter(x)
    /\ UNCHANGED <<env, generations, cache, build, rejected, events>>

(* put_with_ttl makes room and stores the entry.  What made it is the      *)
(* protocol and the pool of the call.                                      *)
Stored(k, entry) ==
    LET others == DOMAIN cache \ {k}
    IN  \E kept \in SUBSET others :
            /\ Cardinality(kept) = IF Cardinality(others) < MaxEntries THEN Cardinality(others)
                                   ELSE MaxEntries - 1
            /\ cache' = [j \in kept \union {k} |-> IF j = k THEN entry ELSE cache[j]]

(* The answer of the call itself. *)
Answer(x) ==
    LET t == task[x]
    IN  /\ At(x, "back")
        /\ IF Again(x)
           THEN Set(x, [t EXCEPT !.pc = "sent", !.tries = @ + 1, !.sent = Header(t.route)])
                /\ UNCHANGED <<state, snapshot, cache>>
           ELSE /\ Done(x)
                /\ IF Lost(x) THEN Unreachable ELSE state' = Applied(x) /\ SnapshotAfter(x)
                /\ IF Ok(x) /\ t.key # None
                   THEN Stored(t.key, [stale |-> FALSE, made |-> <<t.protocol, t.scope>>])
                   ELSE UNCHANGED cache
        /\ UNCHANGED <<env, generations, build, rejected, events>>

(* The deadline of the call, wherever it is. *)
Timeout(x) ==
    /\ task[x].pc \in Admitted \union {"permit"}
    /\ Event
    /\ Done(x) /\ Unreachable
    /\ UNCHANGED <<env, generations, cache, build, rejected>>

----------------------------------------------------------------------------
(* reload_protocol and reload_accounts drain the calls under way.  A new   *)
(* protocol forgets every observation.                                     *)
RequestReload(kind) ==
    /\ reload = None /\ Event
    /\ reload' = kind
    /\ UNCHANGED <<env, state, protocol, pool, cache, task, snapshots, rejected>>

Undrained == TRUE
Drained == Holding(Guarded) = {}
Activate ==
    /\ reload # None /\ Drained
    /\ reload' = None
    /\ \/ /\ reload = "protocol"
          /\ protocol' = protocol + 1 /\ UNCHANGED pool
          /\ state' = Unknown /\ Stale
       \/ /\ reload = "accounts"
          /\ pool' = pool + 1 /\ UNCHANGED <<protocol, state, snapshot>>
    /\ UNCHANGED <<env, cache, task, build, rejected, events>>

----------------------------------------------------------------------------
(* ensure_global_snapshot: the catalog's hash is fetched for the version   *)
(* observed and published if the observation still stands.                 *)
Observed == state.healthy /\ ~state.maintenance /\ state.version # 0

BuildSnapshot ==
    /\ build = None /\ Observed /\ Event
    /\ snapshot.stale \/ snapshot.version # state.version
    /\ build' = state.version
    /\ UNCHANGED <<env, state, generations, cache, task, snapshot, rejected>>

PublishedAnyway(version) == Observed
Published(version) == Observed /\ state.version = version
HashFetched(ok) ==
    /\ build # None
    /\ build' = None
    /\ IF ok /\ Published(build) THEN snapshot' = [version |-> build, stale |-> FALSE]
       ELSE UNCHANGED snapshot
    /\ UNCHANGED <<env, state, generations, cache, task, rejected, events>>

----------------------------------------------------------------------------
(* The game releases a version or goes under maintenance; accounts cool    *)
(* down; time passes.                                                      *)
GameChanges ==
    /\ Event
    /\ \/ game' = [game EXCEPT !.version = @ + 1]
       \/ ~game.maintenance /\ game' = [game EXCEPT !.maintenance = TRUE]
    /\ UNCHANGED <<cooling, state, generations, cache, task, snapshots, rejected>>
MaintenanceEnds ==
    /\ game.maintenance /\ game' = [game EXCEPT !.maintenance = FALSE]
    /\ UNCHANGED <<cooling, state, generations, cache, task, snapshots, rejected, events>>

Cool ==
    /\ ~cooling /\ Event /\ cooling' = TRUE
    /\ UNCHANGED <<game, state, generations, cache, task, snapshots, rejected>>
CoolingEnds ==
    /\ cooling /\ cooling' = FALSE
    /\ UNCHANGED <<game, state, generations, cache, task, snapshots, rejected, events>>

(* version_max_age_seconds, and VERSION_RETRY. *)
VersionAges ==
    /\ state.fresh /\ state' = [state EXCEPT !.fresh = FALSE]
    /\ UNCHANGED <<env, generations, cache, task, snapshots, rejected, events>>
RetryPasses ==
    /\ state.retry /\ state' = [state EXCEPT !.retry = FALSE]
    /\ UNCHANGED <<env, generations, cache, task, snapshots, rejected, events>>

(* The lifetime of an entry and its stale window. *)
EntryAges ==
    /\ \E k \in DOMAIN cache :
         cache' = IF cache[k].stale THEN [j \in DOMAIN cache \ {k} |-> cache[j]]
                  ELSE [cache EXCEPT ![k].stale = TRUE]
    /\ UNCHANGED <<env, state, generations, task, snapshots, rejected, events>>

----------------------------------------------------------------------------
Step(x) == Lookup(x) \/ GameReplies(x) \/ BootstrapAnswer(x) \/ Answer(x)

Next ==
    \/ \E x \in Tasks : Begin(x) \/ Acquire(x) \/ Step(x) \/ PathRefuses(x) \/ GameFails(x) \/ Timeout(x)
    \/ \E kind \in {"protocol", "accounts"} : RequestReload(kind)
    \/ Activate \/ Poll
    \/ BuildSnapshot \/ \E ok \in BOOLEAN : HashFetched(ok)
    \/ GameChanges \/ MaintenanceEnds \/ Cool \/ CoolingEnds
    \/ VersionAges \/ RetryPasses \/ EntryAges

Spec ==
    /\ Init /\ [][Next]_vars
    /\ \A x \in Tasks : WF_vars(Acquire(x) \/ Step(x))
    /\ \A x \in Callers : WF_vars(Begin(x))
    /\ WF_vars(Activate) /\ WF_vars(MaintenanceEnds) /\ WF_vars(CoolingEnds)
    /\ WF_vars(VersionAges) /\ WF_vars(RetryPasses) /\ WF_vars(EntryAges)

----------------------------------------------------------------------------
(* An entry was made under the protocol its key names and, on an account   *)
(* route, with an account of the pool generation its key names: a reload   *)
(* between the lease and the key would store what the old accounts read    *)
(* under the new generation, and a lookup takes no barrier at all          *)
(* (client.rs:966 "a snapshot taken during a reload only yields a key no   *)
(* writer produced").                                                      *)
CacheScoped ==
    \A k \in DOMAIN cache :
        /\ cache[k].made[1] = k.protocol
        /\ k.scope # -1 => cache[k].made[2] = k.scope /\ k.scope = k.pool

(* The version in use is suspect only if the game called that very version *)
(* stale: an answer to a header that was replaced while it was on its way  *)
(* says nothing about the new one (observe).                               *)
SuspectJustified == state.suspect => state.version \in rejected

(* A snapshot not marked stale is that of the latest VERSION answer,       *)
(* whatever was observed or reloaded while its hash was fetched            *)
(* (ensure_global_snapshot).                                               *)
SnapshotCurrent == ~snapshot.stale => snapshot.version = state.version

(* While calls go on, the version in use becomes the game's and is not     *)
(* suspect, after releases, late answers to overlapping VERSION calls,     *)
(* failed refreshes and reloads (ensure_version, observe).                 *)
VersionRecovers ==
    (state.suspect \/ state.version \notin {0, game.version})
        ~> (~state.suspect /\ state.version \in {0, game.version})

(* No deadline is needed for a call to end once the game answers: permit,  *)
(* barrier, bootstrap lock, fill guard and session lock are never waited   *)
(* for in a circle, a draining reload included (call_admitted).            *)
CallsComplete == \A x \in Callers : ~At(x, "idle") ~> At(x, "idle")
=============================================================================
