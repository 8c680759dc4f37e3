--------------------------- MODULE GameCallProofs ---------------------------
(***************************************************************************)
(* The safety properties of GameCall for every set of callers and routes   *)
(* and every capacity: what the cache holds, when the version is suspect,  *)
(* and which snapshot is served.                                           *)
(***************************************************************************)
EXTENDS GameCall, TLAPS

Pcs == {"idle", "lookup", "permit"} \cup Admitted
Names == {"version", "ranking", "announcement", "profile", None}
Kinds == {"ok", "maintenance", "mismatch", "error", "lost"}
Keys == [protocol : Nat, pool : Nat, version : Nat, route : Names, scope : Int]
Answers == [kind : Kinds, version : Nat]
TaskRecords ==
  [pc : Pcs, route : Names, protocol : Nat, scope : Nat, key : Keys \cup {None},
   checked : Keys \cup {None}, refresh : Keys \cup {None}, required : BOOLEAN,
   sent : Nat, answer : Answers \cup {None}, tries : Nat]
Entries == [stale : BOOLEAN, made : Nat \X Nat]
States ==
  [version : Nat, suspect : BOOLEAN, fresh : BOOLEAN, retry : BOOLEAN,
   maintenance : BOOLEAN, healthy : BOOLEAN]

GameTypeOK ==
  /\ game \in [version : Nat, maintenance : BOOLEAN]
  /\ state \in States
  /\ protocol \in Nat /\ pool \in Nat
  /\ snapshot \in [version : Nat, stale : BOOLEAN]
  /\ build \in Nat \cup {None}
  /\ \A k \in DOMAIN cache : cache[k] \in Entries

(* A call that holds the barrier has the protocol and the accounts in use: *)
(* no reload is activated while one does.                                  *)
Pinned(t) == t.pc \in Guarded => t.protocol = protocol /\ t.scope = pool

(* A key a call may store under names what the call was made with. *)
KeyNames(t, k) ==
  k # None => /\ k.protocol = t.protocol
              /\ k.scope # -1 => k.scope = t.scope /\ k.scope = k.pool
KeyScoped(t) == t.pc \in Filling \cup {"fill"} => KeyNames(t, t.key)

(* An answer is at hand where one is read; a mismatch was the game's word  *)
(* on the version that was sent.                                           *)
Explained(t) ==
  t.pc \in {"answered", "back"} =>
    /\ t.answer \in Answers
    /\ t.answer.kind = "mismatch" => t.sent \in rejected

Good(t) == t \in TaskRecords /\ Pinned(t) /\ KeyScoped(t) /\ Explained(t)
GoodTasks(f) == f \in [Tasks -> TaskRecords] /\ \A x \in Tasks : Good(f[x])

GameInv ==
  /\ GameTypeOK
  /\ GoodTasks(task)
  /\ CacheScoped
  /\ SuspectJustified
  /\ SnapshotCurrent

USE CallAssumption DEF Tasks

LEMMA IdleRecord == Idle \in TaskRecords /\ Idle.pc = "idle" /\ Good(Idle)
<1>1. Idle \in TaskRecords /\ Idle.pc = "idle"
  BY DEF Idle, TaskRecords, Names, Pcs
<1> QED BY <1>1 DEF Good, Pinned, KeyScoped, Explained, Guarded, Admitted, Filling

LEMMA SetGood ==
  ASSUME GameInv, NEW x \in Tasks, NEW t, Good(t), Set(x, t)
  PROVE  GoodTasks(task')
BY DEF GameInv, GoodTasks, Set, Good

LEMMA DoneGood ==
  ASSUME GameInv, NEW x \in Tasks, Done(x)
  PROVE  GoodTasks(task')
BY SetGood, IdleRecord DEF Done

(* The key of a call is a key, and names what the call was made with as    *)
(* long as the accounts it was made with are those in use.                 *)
LEMMA KeyIsKey ==
  ASSUME GameTypeOK, NEW t \in TaskRecords, NEW s \in States
  PROVE  /\ response_cache_key(t, s) \in Keys \cup {None}
         /\ t.scope = pool => KeyNames(t, response_cache_key(t, s))
<1> DEFINE k == [protocol |-> t.protocol, pool |-> pool, version |-> s.version,
                 route |-> t.route, scope |-> IF authenticated(t.route) THEN t.scope ELSE -1]
<1>1. t.protocol \in Nat /\ t.scope \in Nat /\ t.route \in Names /\ s.version \in Nat /\ pool \in Nat
  BY DEF TaskRecords, States, GameTypeOK
<1>2. k \in Keys
  BY <1>1 DEF Keys
<1>3. k.protocol = t.protocol /\ k.pool = pool /\ k.scope \in {t.scope, -1}
  OBVIOUS
<1>4. response_cache_key(t, s) \in {None, k}
  BY DEF response_cache_key
<1> HIDE DEF k
<1> QED BY <1>2, <1>3, <1>4 DEF KeyNames

LEMMA SpawnedGood ==
  ASSUME GameInv, NEW k \in Keys
  PROVE  Good(Spawned(k))
<1>1. k.route \in Names
  BY DEF Keys
<1> DEFINE t == [Idle EXCEPT !.pc = "permit", !.route = k.route, !.refresh = k]
<1>2. t \in TaskRecords /\ t.pc = "permit"
  BY <1>1, IdleRecord DEF TaskRecords, Pcs
<1> HIDE DEF t
<1>3. Good(t)
  BY <1>2 DEF Good, Pinned, KeyScoped, Explained, Guarded, Admitted, Filling
<1>4. Good(task[Refresher])
  BY DEF GameInv, GoodTasks
<1>5. Spawned(k) \in {t, task[Refresher]}
  BY DEF Spawned, t
<1> QED BY <1>3, <1>4, <1>5

LEMMA HitGood ==
  ASSUME GameInv, NEW x \in Tasks, NEW k \in Keys, NEW refreshes \in BOOLEAN, Hit(x, k, refreshes)
  PROVE  GoodTasks(task')
<1>1. PICK u \in {Spawned(k), Idle, task[Refresher]} : task' = [task EXCEPT ![x] = Idle, ![Refresher] = u]
  BY DEF Hit, GameInv, GoodTasks
<1>2. Good(u) /\ Good(Idle)
  BY SpawnedGood, IdleRecord DEF GameInv, GoodTasks
<1> QED BY <1>1, <1>2 DEF GameInv, GoodTasks, Good

(* What Keyed leaves of a call that holds the barrier. *)
LEMMA KeyedGood ==
  ASSUME GameInv, NEW x \in Tasks, NEW t \in TaskRecords, NEW s \in States,
         t.protocol = protocol, t.scope = pool, Keyed(x, t, s)
  PROVE  GoodTasks(task')
<1> DEFINE k == response_cache_key(t, s)
           pc == IF k = None THEN "session" ELSE "fill"
           u == [t EXCEPT !.pc = pc, !.key = k, !.checked = None]
<1>1. k \in Keys \cup {None} /\ KeyNames(t, k)
  BY KeyIsKey DEF GameInv
<1>2. Done(x) \/ (k # None /\ Hit(x, k, TRUE)) \/ Set(x, u)
  BY DEF Keyed, Entry, Fresh
<1> HIDE DEF k
<1>3. pc \in {"session", "fill"} /\ pc \in Pcs
  BY DEF Pcs, Admitted
<1> HIDE DEF pc
<1>4. /\ u \in TaskRecords /\ u.pc \in {"session", "fill"} /\ u.key = k
      /\ u.protocol = protocol /\ u.scope = pool
  BY <1>1, <1>3 DEF TaskRecords
<1>5. KeyNames(u, k)
  BY <1>1, <1>4 DEF KeyNames
<1> HIDE DEF u
<1>6. Good(u)
  BY <1>4, <1>5 DEF Good, Pinned, KeyScoped, Explained
<1>7. CASE k # None /\ Hit(x, k, TRUE)
  BY <1>1, <1>7, HitGood
<1> QED BY <1>2, <1>6, <1>7, DoneGood, SetGood

-----------------------------------------------------------------------------
(* A step that only moves calls along. *)
LEMMA TaskStep ==
  ASSUME GameInv, GoodTasks(task'),
         UNCHANGED <<game, state, protocol, pool, cache, snapshot, build, rejected>>
  PROVE  GameInv'
<1>1. GameTypeOK' /\ CacheScoped' /\ SuspectJustified' /\ SnapshotCurrent'
  BY DEF GameInv, GameTypeOK, CacheScoped, SuspectJustified, SnapshotCurrent
<1>2. GoodTasks(task)'
  BY DEF GoodTasks, Good, Pinned, KeyScoped, KeyNames, Explained
<1> QED BY <1>1, <1>2 DEF GameInv

LEMMA HeaderType ==
  ASSUME GameTypeOK, NEW route
  PROVE  Header(route) \in Nat
BY DEF GameTypeOK, States, Header

LEMMA BeginInv ==
  ASSUME GameInv, NEW x \in Tasks, Begin(x)
  PROVE  GameInv'
<1>1. PICK route \in Routes :
        Set(x, [Idle EXCEPT !.route = route, !.protocol = protocol, !.scope = pool,
                            !.pc = IF cached(route) /\ version_need(route) \in {"fresh", "age"}
                                   THEN "lookup" ELSE "permit"])
  BY DEF Begin
<1>2. PICK pc \in {"lookup", "permit"} :
        Set(x, [Idle EXCEPT !.route = route, !.protocol = protocol, !.scope = pool, !.pc = pc])
  BY <1>1
<1> DEFINE t == [Idle EXCEPT !.route = route, !.protocol = protocol, !.scope = pool, !.pc = pc]
<1>3. t \in TaskRecords /\ t.pc \in {"lookup", "permit"}
  BY IdleRecord DEF TaskRecords, Pcs, Names, GameInv, GameTypeOK
<1> HIDE DEF t
<1>4. Good(t)
  BY <1>3 DEF Good, Pinned, KeyScoped, Explained, Guarded, Admitted, Filling
<1>5. GoodTasks(task')
  BY <1>2, <1>4, SetGood DEF t
<1> QED BY <1>5, TaskStep DEF Begin, env, generations, snapshots

LEMMA PollInv ==
  ASSUME GameInv, Poll
  PROVE  GameInv'
<1> DEFINE t == [Idle EXCEPT !.route = "version", !.pc = "permit"]
<1>1. t \in TaskRecords /\ t.pc = "permit"
  BY IdleRecord DEF TaskRecords, Pcs, Names
<1>2. Set(Poller, t)
  BY DEF Poll
<1> HIDE DEF t
<1>3. Good(t)
  BY <1>1 DEF Good, Pinned, KeyScoped, Explained, Guarded, Admitted, Filling
<1>4. GoodTasks(task')
  BY <1>2, <1>3, SetGood
<1> QED BY <1>4, TaskStep DEF Poll, env, generations, snapshots

LEMMA LookupInv ==
  ASSUME GameInv, NEW x \in Tasks, Lookup(x)
  PROVE  GameInv'
<1> DEFINE t == task[x]
           k == response_cache_key(t, state)
           quarantined == authenticated(t.route) /\ cooling
           c == IF quarantined THEN None ELSE k
           u == [t EXCEPT !.pc = "permit", !.checked = c]
<1>1. t \in TaskRecords
  BY DEF GameInv, GoodTasks
<1>2. k \in Keys \cup {None}
  BY <1>1, KeyIsKey DEF GameInv, GameTypeOK
<1>3. (k # None /\ (Hit(x, k, TRUE) \/ Hit(x, k, FALSE))) \/ Set(x, u)
  BY DEF Lookup, Entry, Hit
<1>4. c \in Keys \cup {None}
  BY <1>2
<1> HIDE DEF c
<1>5. u \in TaskRecords /\ u.pc = "permit"
  BY <1>1, <1>4 DEF TaskRecords, Pcs
<1> HIDE DEF t, k, u
<1>6. Good(u)
  BY <1>5 DEF Good, Pinned, KeyScoped, Explained, Guarded, Admitted, Filling
<1>7. ASSUME k # None, Hit(x, k, TRUE) \/ Hit(x, k, FALSE) PROVE GoodTasks(task')
  BY <1>2, <1>7, HitGood
<1>8. GoodTasks(task')
  BY <1>3, <1>6, <1>7, SetGood
<1> QED BY <1>8, TaskStep DEF Lookup, env, generations, snapshots

(* A call that holds the barrier stays good where it waits next. *)
LEMMA AskingGood ==
  ASSUME GameInv, NEW t \in TaskRecords, t.protocol = protocol, t.scope = pool,
         NEW sent \in Nat, NEW b \in BOOLEAN
  PROVE  /\ Good([t EXCEPT !.pc = "asking", !.sent = sent, !.required = b])
         /\ Good([t EXCEPT !.pc = "boot"])
<1> DEFINE u == [t EXCEPT !.pc = "asking", !.sent = sent, !.required = b]
           v == [t EXCEPT !.pc = "boot"]
<1>1. u \in TaskRecords /\ u.pc = "asking" /\ u.protocol = protocol /\ u.scope = pool
  BY DEF TaskRecords, Pcs, Admitted
<1>2. v \in TaskRecords /\ v.pc = "boot" /\ v.protocol = protocol /\ v.scope = pool
  BY DEF TaskRecords, Pcs, Admitted
<1> HIDE DEF u, v
<1>3. Good(u) /\ Good(v)
  BY <1>1, <1>2 DEF Good, Pinned, KeyScoped, Explained, Filling
<1> QED BY <1>3 DEF u, v

LEMMA BootstrapGood ==
  ASSUME GameInv, NEW x \in Tasks, NEW t \in TaskRecords,
         t.protocol = protocol, t.scope = pool, Bootstrap(x, t)
  PROVE  GoodTasks(task')
<1>1. CASE Keyed(x, t, state)
  BY <1>1, KeyedGood DEF GameInv, GameTypeOK
<1>2. CASE ~Keyed(x, t, state)
  <2>1. PICK b \in BOOLEAN : Set(x, [t EXCEPT !.pc = "asking", !.sent = Header("version"), !.required = b])
    BY <1>2 DEF Bootstrap
  <2>2. Header("version") \in Nat
    BY HeaderType DEF GameInv
  <2>3. Good([t EXCEPT !.pc = "asking", !.sent = Header("version"), !.required = b])
    BY <2>2, AskingGood
  <2> QED BY <2>1, <2>3, SetGood
<1> QED BY <1>1, <1>2

LEMMA EnsureGood ==
  ASSUME GameInv, NEW x \in Tasks, NEW t \in TaskRecords,
         t.protocol = protocol, t.scope = pool, ensure_version(x, t)
  PROVE  GoodTasks(task')
<1>1. Keyed(x, t, state) \/ Bootstrap(x, t) \/ Set(x, [t EXCEPT !.pc = "boot"])
  BY DEF ensure_version
<1>2. CASE Set(x, [t EXCEPT !.pc = "boot"])
  <2>1. Good([t EXCEPT !.pc = "boot"])
    BY AskingGood
  <2> QED BY <1>2, <2>1, SetGood
<1>3. CASE Keyed(x, t, state)
  BY <1>3, KeyedGood DEF GameInv, GameTypeOK
<1> QED BY <1>1, <1>2, <1>3, BootstrapGood

(* A call under the barrier has it still when it takes the next lock. *)
LEMMA AcquireGood ==
  ASSUME GameInv, NEW x \in Tasks, Acquire(x)
  PROVE  GoodTasks(task')
<1> DEFINE t == task[x]
<1>1. t \in TaskRecords /\ Good(t)
  BY DEF GameInv, GoodTasks
<1>2. CASE Admit(x)
  <2>1. [t EXCEPT !.pc = "barrier"] \in TaskRecords /\ [t EXCEPT !.pc = "barrier"].pc = "barrier"
    BY <1>1 DEF TaskRecords, Pcs, Admitted
  <2>2. Good([t EXCEPT !.pc = "barrier"])
    BY <2>1 DEF Good, Pinned, KeyScoped, Explained, Guarded, Filling
  <2> QED BY <1>2, <2>2, SetGood DEF Admit, Goto
<1>3. CASE EnterBarrier(x)
  <2> DEFINE u == [t EXCEPT !.protocol = protocol, !.scope = pool]
  <2>1. u \in TaskRecords /\ u.protocol = protocol /\ u.scope = pool
    BY <1>1 DEF TaskRecords, GameInv, GameTypeOK
  <2>2. Done(x) \/ ensure_version(x, u)
    BY <1>3 DEF EnterBarrier
  <2> HIDE DEF u
  <2> QED BY <2>1, <2>2, DoneGood, EnsureGood
<1>4. CASE At(x, "boot") /\ Bootstrap(x, task[x])
  <2>1. t.protocol = protocol /\ t.scope = pool
    BY <1>1, <1>4 DEF At, Good, Pinned, Guarded, Admitted
  <2> QED BY <1>1, <1>4, <2>1, BootstrapGood
<1>5. CASE EnterFill(x)
  <2> DEFINE u == [t EXCEPT !.pc = "session"]
  <2>1. /\ u \in TaskRecords /\ u.pc = "session" /\ u.key = t.key
        /\ u.protocol = t.protocol /\ u.scope = t.scope
    BY <1>1 DEF TaskRecords, Pcs, Admitted
  <2>2. Done(x) \/ Set(x, u)
    BY <1>5 DEF EnterFill, Goto
  <2> HIDE DEF u
  <2>3. Good(u)
    BY <1>1, <1>5, <2>1 DEF EnterFill, At, Good, Pinned, KeyScoped, KeyNames, Explained, Guarded, Admitted, Filling
  <2> QED BY <2>2, <2>3, DoneGood, SetGood
<1>6. CASE EnterSession(x)
  <2> DEFINE u == [t EXCEPT !.pc = "sent", !.sent = Header(t.route)]
  <2>1. Header(t.route) \in Nat
    BY HeaderType DEF GameInv
  <2>2. /\ u \in TaskRecords /\ u.pc = "sent" /\ u.key = t.key
        /\ u.protocol = t.protocol /\ u.scope = t.scope
    BY <1>1, <2>1 DEF TaskRecords, Pcs, Admitted
  <2>3. Done(x) \/ Set(x, u)
    BY <1>6 DEF EnterSession
  <2> HIDE DEF u
  <2>4. Good(u)
    BY <1>1, <1>6, <2>2 DEF EnterSession, At, Good, Pinned, KeyScoped, KeyNames, Explained, Guarded, Admitted, Filling
  <2> QED BY <2>3, <2>4, DoneGood, SetGood
<1> QED BY <1>2, <1>3, <1>4, <1>5, <1>6 DEF Acquire

LEMMA PathRefusesGood ==
  ASSUME GameInv, NEW x \in Tasks, PathRefuses(x)
  PROVE  GoodTasks(task')
<1> DEFINE t == task[x]
<1>1. t \in TaskRecords /\ Good(t)
  BY DEF GameInv, GoodTasks
<1>2. Done(x) \/ (At(x, "boot") /\ Keyed(x, t, state))
  BY DEF PathRefuses
<1>3. CASE At(x, "boot") /\ Keyed(x, t, state)
  <2>1. t.protocol = protocol /\ t.scope = pool
    BY <1>1, <1>3 DEF At, Good, Pinned, Guarded, Admitted
  <2> QED BY <1>1, <1>3, <2>1, KeyedGood DEF GameInv, GameTypeOK
<1> QED BY <1>2, <1>3, DoneGood

-----------------------------------------------------------------------------
(* An answer is recorded: what the game rejects is known as rejected       *)
(* before the call gets to see it.                                         *)
LEMMA ReplyInv ==
  ASSUME GameInv, NEW x \in Tasks, NEW kind \in Kinds, At(x, "asking") \/ At(x, "sent"), Reply(x, kind),
         rejected' = rejected \/ rejected' = rejected \cup {task[x].sent},
         kind = "mismatch" => rejected' = rejected \cup {task[x].sent},
         UNCHANGED <<game, state, protocol, pool, cache, snapshot, build>>
  PROVE  GameInv'
<1> DEFINE t == task[x]
           v == IF Requested(x) = "version" /\ kind = "ok" THEN game.version ELSE 0
           a == [kind |-> kind, version |-> v]
           pc == IF At(x, "asking") THEN "answered" ELSE "back"
<1>1. t \in TaskRecords /\ Good(t)
  BY DEF GameInv, GoodTasks
<1>2. v \in Nat
  BY DEF GameInv, GameTypeOK
<1>3. PICK u : u = [t EXCEPT !.pc = pc, !.answer = a] /\ task' = [task EXCEPT ![x] = u]
  BY DEF Reply, Set
<1> HIDE DEF v
<1>4. a \in Answers /\ a.kind = kind
  BY <1>2 DEF Answers
<1> HIDE DEF a
<1>5. (pc = "answered" /\ t.pc = "asking") \/ (pc = "back" /\ t.pc = "sent")
  BY DEF At
<1> HIDE DEF pc
<1>6. /\ u \in TaskRecords /\ u.pc = pc /\ u.answer = a /\ u.key = t.key
      /\ u.protocol = t.protocol /\ u.scope = t.scope /\ u.sent = t.sent
  BY <1>1, <1>3, <1>4, <1>5 DEF TaskRecords, Pcs, Admitted
<1>7. Good(u)'
  <2>1. Pinned(u)' /\ KeyScoped(u)'
    BY <1>1, <1>5, <1>6 DEF Good, Pinned, KeyScoped, KeyNames, Guarded, Admitted, Filling
  <2>2. Explained(u)'
    BY <1>4, <1>6 DEF Explained
  <2> QED BY <1>6, <2>1, <2>2 DEF Good
<1>8. ASSUME NEW y \in Tasks, y # x PROVE Good(task[y])'
  BY <1>3, <1>8 DEF GameInv, GoodTasks, Good, Pinned, KeyScoped, KeyNames, Explained
<1>9. GoodTasks(task)'
  <2>1. task' \in [Tasks -> TaskRecords] /\ task'[x] = u
    BY <1>3, <1>6 DEF GameInv, GoodTasks
  <2>2. Good(task[x])'
    BY <1>7, <2>1
  <2> QED BY <1>8, <2>1, <2>2 DEF GoodTasks
<1>10. GameTypeOK' /\ CacheScoped' /\ SuspectJustified' /\ SnapshotCurrent'
  BY DEF GameInv, GameTypeOK, CacheScoped, SuspectJustified, SnapshotCurrent
<1> QED BY <1>9, <1>10 DEF GameInv

LEMMA GameAnswersInv ==
  ASSUME GameInv, NEW x \in Tasks, GameReplies(x) \/ GameFails(x)
  PROVE  GameInv'
<1>1. CASE GameReplies(x)
  <2>1. UNCHANGED <<game, state, protocol, pool, cache, snapshot, build>>
    BY <1>1 DEF GameReplies, env, generations, snapshots
  <2>2. PICK kind \in {"maintenance", "ok", "mismatch"} :
          /\ Reply(x, kind)
          /\ rejected' = rejected \/ rejected' = rejected \cup {task[x].sent}
          /\ kind = "mismatch" => rejected' = rejected \cup {task[x].sent}
    BY <1>1 DEF GameReplies
  <2> QED BY <1>1, <2>1, <2>2, ReplyInv DEF Kinds, GameReplies
<1>2. CASE GameFails(x)
  <2>1. UNCHANGED <<game, state, protocol, pool, cache, snapshot, build>>
    BY <1>2 DEF GameFails, env, generations, snapshots
  <2>2. PICK kind \in {"error", "lost", "mismatch"} :
          /\ Reply(x, kind)
          /\ rejected' = rejected \/ rejected' = rejected \cup {task[x].sent}
          /\ kind = "mismatch" => rejected' = rejected \cup {task[x].sent}
    BY <1>2 DEF GameFails
  <2> QED BY <1>2, <2>1, <2>2, ReplyInv DEF Kinds, GameFails
<1> QED BY <1>1, <1>2

-----------------------------------------------------------------------------
(* What an answer makes of the state: another version is never suspect,    *)
(* and the same one only if it was or the game said so.                    *)
LEMMA ObserveState ==
  ASSUME GameTypeOK, NEW t \in TaskRecords, t.answer \in Answers
  PROVE  /\ observe(t) \in States
         /\ observe(t).version = state.version
         /\ observe(t).suspect => state.suspect \/ Suspected(t)
BY DEF GameTypeOK, observe, States

LEMMA AnnouncedState ==
  ASSUME NEW s \in States, NEW version \in Nat
  PROVE  /\ Announced(s, version) \in States
         /\ ~Announced(s, version).suspect
BY DEF Announced, States

(* A step that moves calls along and observes something: a version that    *)
(* changes takes the snapshot with it.                                     *)
Observes ==
  /\ state' \in States
  /\ state'.suspect => state'.version \in rejected
  /\ Stale \/ (UNCHANGED snapshot /\ state'.version = state.version)

LEMMA ObservedStep ==
  ASSUME GameInv, GoodTasks(task'), Observes, UNCHANGED <<game, protocol, pool, build, rejected>>,
         CacheScoped', \A k \in DOMAIN cache' : cache'[k] \in Entries
  PROVE  GameInv'
<1>1. snapshot' \in [version : Nat, stale : BOOLEAN] /\ SnapshotCurrent'
  <2>1. CASE Stale
    BY <2>1 DEF GameInv, GameTypeOK, Stale, SnapshotCurrent
  <2>2. CASE UNCHANGED snapshot /\ state'.version = state.version
    BY <2>2 DEF GameInv, GameTypeOK, SnapshotCurrent
  <2> QED BY <2>1, <2>2 DEF Observes
<1>2. GameTypeOK' /\ SuspectJustified'
  BY <1>1 DEF GameInv, GameTypeOK, Observes, SuspectJustified
<1>3. GoodTasks(task)'
  BY DEF GoodTasks, Good, Pinned, KeyScoped, KeyNames, Explained
<1> QED BY <1>1, <1>2, <1>3 DEF GameInv

LEMMA CacheKept ==
  ASSUME GameInv, UNCHANGED cache
  PROVE  CacheScoped' /\ \A k \in DOMAIN cache' : cache'[k] \in Entries
BY DEF GameInv, GameTypeOK, CacheScoped

LEMMA UnreachableObserves ==
  ASSUME GameInv, Unreachable
  PROVE  Observes
<1>1. state' \in States /\ state'.suspect = state.suspect /\ state'.version = state.version
  BY DEF Unreachable, GameInv, GameTypeOK, States
<1> QED BY <1>1 DEF GameInv, SuspectJustified, Observes, Unreachable

(* The answer of x, applied. *)
LEMMA AppliedSound ==
  ASSUME GameInv, NEW x \in Tasks, task[x].pc \in {"answered", "back"}
  PROVE  /\ Applied(x) \in States
         /\ Applied(x).suspect => Applied(x).version \in rejected
         /\ SnapshotAfter(x) => Stale \/ (UNCHANGED snapshot /\ Applied(x).version = state.version)
<1> DEFINE t == task[x]
<1>1. /\ t \in TaskRecords /\ t.answer \in Answers
      /\ t.answer.kind = "mismatch" => t.sent \in rejected
  BY DEF GameInv, GoodTasks, Good, Explained
<1>2. /\ observe(t) \in States /\ observe(t).version = state.version
      /\ observe(t).suspect => state.suspect \/ Suspected(t)
  BY <1>1, ObserveState DEF GameInv
<1>3. observe(t).suspect => state.version \in rejected
  BY <1>1, <1>2 DEF GameInv, SuspectJustified, Suspected
<1>4. t.answer.version \in Nat
  BY <1>1 DEF Answers
<1>5. /\ Announced(observe(t), t.answer.version) \in States
      /\ ~Announced(observe(t), t.answer.version).suspect
  BY <1>2, <1>4, AnnouncedState
<1>6. CASE Lost(x)
  BY <1>6 DEF Applied, SnapshotAfter, GameInv, GameTypeOK, SuspectJustified
<1>7. CASE ~Lost(x) /\ Ok(x) /\ Requested(x) = "version"
  BY <1>5, <1>7 DEF Applied, SnapshotAfter
<1>8. CASE ~Lost(x) /\ ~(Ok(x) /\ Requested(x) = "version")
  <2>1. Applied(x) = observe(t)
    BY <1>8 DEF Applied
  <2> QED BY <1>2, <1>3, <2>1 DEF SnapshotAfter
<1> QED BY <1>6, <1>7, <1>8

LEMMA TimeoutInv ==
  ASSUME GameInv, NEW x \in Tasks, Timeout(x)
  PROVE  GameInv'
<1>1. GoodTasks(task') /\ Observes
  BY DoneGood, UnreachableObserves DEF Timeout
<1> QED BY <1>1, CacheKept, ObservedStep DEF Timeout, env, generations

LEMMA BootstrapAnswerInv ==
  ASSUME GameInv, NEW x \in Tasks, BootstrapAnswer(x)
  PROVE  GameInv'
<1> DEFINE t == task[x]
<1>1. /\ t \in TaskRecords /\ Good(t) /\ t.pc = "answered"
      /\ t.protocol = protocol /\ t.scope = pool
  BY DEF GameInv, GoodTasks, BootstrapAnswer, At, Good, Pinned, Guarded, Admitted
<1>2. UNCHANGED <<game, protocol, pool, cache, build, rejected>>
  BY DEF BootstrapAnswer, env, generations
<1>3. CASE Again(x)
  <2> DEFINE n == t.tries + 1
             u == [t EXCEPT !.pc = "asking", !.tries = n, !.sent = Header("version")]
  <2>1. n \in Nat /\ Header("version") \in Nat
    BY <1>1, HeaderType DEF GameInv, TaskRecords
  <2>2. Set(x, u)
    BY <1>3 DEF BootstrapAnswer
  <2> HIDE DEF n
  <2>3. u \in TaskRecords /\ u.pc = "asking" /\ u.protocol = protocol /\ u.scope = pool
    BY <1>1, <2>1 DEF TaskRecords, Pcs, Admitted
  <2> HIDE DEF u
  <2>4. Good(u)
    BY <2>3 DEF Good, Pinned, KeyScoped, Explained, Filling
  <2>5. GoodTasks(task')
    BY <2>2, <2>4, SetGood
  <2> QED BY <1>2, <1>3, <2>5, TaskStep DEF BootstrapAnswer
<1>4. CASE ~Again(x) /\ task[x].required /\ ~Ok(x)
  <2>1. Done(x) /\ (Unreachable \/ (state' = Applied(x) /\ SnapshotAfter(x)))
    BY <1>4 DEF BootstrapAnswer
  <2>2. Observes
    BY <1>1, <2>1, UnreachableObserves, AppliedSound DEF Observes
  <2> QED BY <1>2, <2>1, <2>2, DoneGood, CacheKept, ObservedStep
<1>5. CASE ~Again(x) /\ ~(task[x].required /\ ~Ok(x))
  <2> DEFINE u == [t EXCEPT !.tries = 0, !.answer = None, !.sent = 0, !.required = FALSE]
  <2>1. u \in TaskRecords /\ u.protocol = protocol /\ u.scope = pool
    BY <1>1 DEF TaskRecords
  <2>2. /\ Keyed(x, u, Applied(x))
        /\ state' = [Applied(x) EXCEPT !.retry = @ \/ ~Ok(x)] /\ SnapshotAfter(x)
    BY <1>5 DEF BootstrapAnswer
  <2> HIDE DEF u
  <2>3. Applied(x) \in States
    BY <1>1, AppliedSound
  <2>4. GoodTasks(task')
    BY <2>1, <2>2, <2>3, KeyedGood
  <2>5. state' \in States /\ state'.version = Applied(x).version /\ state'.suspect = Applied(x).suspect
    BY <2>2, <2>3 DEF States
  <2>6. Observes
    BY <1>1, <2>2, <2>5, AppliedSound DEF Observes
  <2> QED BY <1>2, <2>4, <2>6, CacheKept, ObservedStep
<1> QED BY <1>3, <1>4, <1>5

(* What a call stores is scoped: its key names what it was made with. *)
LEMMA StoredScoped ==
  ASSUME GameInv, NEW t \in TaskRecords, t.key # None, KeyNames(t, t.key),
         Stored(t.key, [stale |-> FALSE, made |-> <<t.protocol, t.scope>>])
  PROVE  CacheScoped' /\ \A k \in DOMAIN cache' : cache'[k] \in Entries
<1> DEFINE e == [stale |-> FALSE, made |-> <<t.protocol, t.scope>>]
<1>1. t.protocol \in Nat /\ t.scope \in Nat
  BY DEF TaskRecords
<1>2. e \in Entries /\ e.made[1] = t.protocol /\ e.made[2] = t.scope
  BY <1>1 DEF Entries
<1> HIDE DEF e
<1>3. PICK kept \in SUBSET (DOMAIN cache \ {t.key}) :
        cache' = [j \in kept \cup {t.key} |-> IF j = t.key THEN e ELSE cache[j]]
  BY DEF Stored, e
<1>4. ASSUME NEW k \in DOMAIN cache'
      PROVE  /\ cache'[k] \in Entries
             /\ cache'[k].made[1] = k.protocol
             /\ k.scope # -1 => cache'[k].made[2] = k.scope /\ k.scope = k.pool
  <2>1. CASE k = t.key
    BY <1>2, <1>3, <2>1 DEF KeyNames
  <2>2. CASE k # t.key
    BY <1>3, <2>2 DEF GameInv, GameTypeOK, CacheScoped
  <2> QED BY <2>1, <2>2
<1> QED BY <1>4 DEF CacheScoped

LEMMA AnswerInv ==
  ASSUME GameInv, NEW x \in Tasks, Answer(x)
  PROVE  GameInv'
<1> DEFINE t == task[x]
<1>1. /\ t \in TaskRecords /\ Good(t) /\ t.pc = "back"
      /\ t.protocol = protocol /\ t.scope = pool /\ KeyNames(t, t.key)
  BY DEF GameInv, GoodTasks, Answer, At, Good, Pinned, KeyScoped, Guarded, Admitted, Filling
<1>2. UNCHANGED <<game, protocol, pool, build, rejected>>
  BY DEF Answer, env, generations
<1>3. CASE Again(x)
  <2> DEFINE n == t.tries + 1
             u == [t EXCEPT !.pc = "sent", !.tries = n, !.sent = Header(t.route)]
  <2>1. n \in Nat /\ Header(t.route) \in Nat
    BY <1>1, HeaderType DEF GameInv, TaskRecords
  <2>2. Set(x, u)
    BY <1>3 DEF Answer
  <2> HIDE DEF n
  <2>3. u \in TaskRecords /\ u.pc = "sent" /\ u.protocol = protocol /\ u.scope = pool /\ u.key = t.key
    BY <1>1, <2>1 DEF TaskRecords, Pcs, Admitted
  <2> HIDE DEF u
  <2>4. Good(u)
    BY <1>1, <2>3 DEF Good, Pinned, KeyScoped, KeyNames, Explained
  <2>5. GoodTasks(task')
    BY <2>2, <2>4, SetGood
  <2> QED BY <1>2, <1>3, <2>5, TaskStep DEF Answer
<1>4. CASE ~Again(x)
  <2>1. Done(x) /\ (Unreachable \/ (state' = Applied(x) /\ SnapshotAfter(x)))
    BY <1>4 DEF Answer
  <2>2. Observes
    BY <1>1, <2>1, UnreachableObserves, AppliedSound DEF Observes
  <2>3. \/ UNCHANGED cache
        \/ t.key # None /\ Stored(t.key, [stale |-> FALSE, made |-> <<t.protocol, t.scope>>])
    BY <1>4 DEF Answer
  <2>4. CacheScoped' /\ \A k \in DOMAIN cache' : cache'[k] \in Entries
    BY <1>1, <2>3, CacheKept, StoredScoped
  <2> QED BY <1>2, <2>1, <2>2, <2>4, DoneGood, ObservedStep
<1> QED BY <1>3, <1>4

-----------------------------------------------------------------------------
(* A reload is activated when no call holds the barrier: none is left that *)
(* a new generation could contradict.                                      *)
LEMMA ActivateInv ==
  ASSUME GameInv, Activate
  PROVE  GameInv'
<1>1. UNCHANGED <<game, cache, task, build, rejected>>
  BY DEF Activate, env
<1>2. \A x \in Tasks : task[x].pc \notin Guarded
  BY DEF Activate, Drained, Holding
<1>3. GoodTasks(task)'
  BY <1>1, <1>2 DEF GameInv, GoodTasks, Good, Pinned, KeyScoped, KeyNames, Explained
<1>4. CacheScoped'
  BY <1>1 DEF GameInv, CacheScoped
<1>5. Unknown \in States /\ ~Unknown.suspect
  BY DEF Unknown, States
<1>6. CASE state' = Unknown /\ Stale /\ protocol' = protocol + 1 /\ UNCHANGED pool
  <2>1. snapshot' \in [version : Nat, stale : BOOLEAN] /\ SnapshotCurrent'
    BY <1>6 DEF GameInv, GameTypeOK, Stale, SnapshotCurrent
  <2>2. GameTypeOK'
    BY <1>1, <1>5, <1>6, <2>1 DEF GameInv, GameTypeOK
  <2>3. SuspectJustified'
    BY <1>5, <1>6 DEF SuspectJustified
  <2> QED BY <1>3, <1>4, <2>1, <2>2, <2>3 DEF GameInv
<1>7. CASE pool' = pool + 1 /\ UNCHANGED <<protocol, state, snapshot>>
  BY <1>1, <1>3, <1>4, <1>7 DEF GameInv, GameTypeOK, SuspectJustified, SnapshotCurrent
<1> QED BY <1>6, <1>7 DEF Activate

(* A snapshot is published for the version in use only. *)
LEMMA SnapshotInv ==
  ASSUME GameInv, BuildSnapshot \/ \E ok \in BOOLEAN : HashFetched(ok)
  PROVE  GameInv'
<1>1. UNCHANGED <<game, state, protocol, pool, cache, task, rejected>>
  BY DEF BuildSnapshot, HashFetched, env, generations
<1>2. GoodTasks(task)' /\ CacheScoped' /\ SuspectJustified'
  BY <1>1 DEF GameInv, GoodTasks, Good, Pinned, KeyScoped, KeyNames, Explained, CacheScoped, SuspectJustified
<1>3. CASE BuildSnapshot
  BY <1>1, <1>2, <1>3 DEF BuildSnapshot, GameInv, GameTypeOK, States, SnapshotCurrent
<1>4. ASSUME NEW ok \in BOOLEAN, HashFetched(ok) PROVE GameInv'
  <2>1. CASE UNCHANGED snapshot
    BY <1>1, <1>2, <1>4, <2>1 DEF HashFetched, GameInv, GameTypeOK, SnapshotCurrent
  <2>2. CASE Published(build) /\ snapshot' = [version |-> build, stale |-> FALSE]
    <3>1. state.version = build /\ build \in Nat
      BY <2>2 DEF Published, GameInv, GameTypeOK, States
    <3> QED BY <1>1, <1>2, <1>4, <2>2, <3>1 DEF HashFetched, GameInv, GameTypeOK, SnapshotCurrent
  <2> QED BY <1>4, <2>1, <2>2 DEF HashFetched
<1> QED BY <1>3, <1>4

(* The state keeps its version as it ages, and an entry its key. *)
LEMMA AgesInv ==
  ASSUME GameInv, VersionAges \/ RetryPasses \/ EntryAges
  PROVE  GameInv'
<1>1. UNCHANGED <<game, protocol, pool, task, snapshot, build, rejected>>
  BY DEF VersionAges, RetryPasses, EntryAges, env, generations, snapshots
<1>2. GoodTasks(task')
  BY <1>1 DEF GameInv
<1>3. CASE VersionAges \/ RetryPasses
  <2>1. state' \in States /\ state'.version = state.version /\ state'.suspect = state.suspect
    BY <1>3 DEF VersionAges, RetryPasses, GameInv, GameTypeOK, States
  <2>2. Observes
    BY <1>1, <2>1 DEF Observes, GameInv, SuspectJustified
  <2> QED BY <1>1, <1>2, <1>3, <2>2, CacheKept, ObservedStep DEF VersionAges, RetryPasses
<1>4. CASE EntryAges
  <2>1. UNCHANGED state
    BY <1>4 DEF EntryAges
  <2>2. Observes
    BY <1>1, <2>1 DEF Observes, GameInv, GameTypeOK, SuspectJustified
  <2>3. PICK k \in DOMAIN cache :
          cache' = IF cache[k].stale THEN [j \in DOMAIN cache \ {k} |-> cache[j]]
                   ELSE [cache EXCEPT ![k].stale = TRUE]
    BY <1>4 DEF EntryAges
  <2>4. DOMAIN cache' \subseteq DOMAIN cache
    BY <2>3
  <2>5. ASSUME NEW j \in DOMAIN cache'
        PROVE  cache'[j] \in Entries /\ cache'[j].made = cache[j].made
    <3>1. cache[j] \in Entries
      BY <2>4 DEF GameInv, GameTypeOK
    <3>2. [cache[j] EXCEPT !.stale = TRUE] \in Entries /\ [cache[j] EXCEPT !.stale = TRUE].made = cache[j].made
      BY <3>1 DEF Entries
    <3>3. cache'[j] = cache[j] \/ cache'[j] = [cache[j] EXCEPT !.stale = TRUE]
      BY <2>3, <2>4
    <3> QED BY <3>1, <3>2, <3>3
  <2>6. CacheScoped'
    BY <2>4, <2>5 DEF GameInv, CacheScoped
  <2> QED BY <1>1, <1>2, <2>2, <2>5, <2>6, ObservedStep
<1> QED BY <1>3, <1>4

LEMMA GameChangesInv ==
  ASSUME GameInv, GameChanges \/ MaintenanceEnds \/ Cool \/ CoolingEnds
                  \/ \E kind \in {"protocol", "accounts"} : RequestReload(kind)
  PROVE  GameInv'
<1>1. UNCHANGED <<state, protocol, pool, cache, task, snapshot, build, rejected>>
  BY DEF GameChanges, MaintenanceEnds, Cool, CoolingEnds, RequestReload, env, generations, snapshots
<1>2. game' \in [version : Nat, maintenance : BOOLEAN]
  <2>1. \A v \in Nat : [game EXCEPT !.version = v] \in [version : Nat, maintenance : BOOLEAN]
    BY DEF GameInv, GameTypeOK
  <2>2. game.version + 1 \in Nat
    BY DEF GameInv, GameTypeOK
  <2>3. [game EXCEPT !.version = @ + 1] \in [version : Nat, maintenance : BOOLEAN]
    BY <2>1, <2>2
  <2>4. \A b \in BOOLEAN : [game EXCEPT !.maintenance = b] \in [version : Nat, maintenance : BOOLEAN]
    BY DEF GameInv, GameTypeOK
  <2> QED BY <2>3, <2>4 DEF GameChanges, MaintenanceEnds, Cool, CoolingEnds, RequestReload, env, GameInv, GameTypeOK
<1> QED BY <1>1, <1>2 DEF GameInv, GameTypeOK, GoodTasks, Good, Pinned, KeyScoped, KeyNames, Explained,
                          CacheScoped, SuspectJustified, SnapshotCurrent

LEMMA GameInitInv == Init => GameInv
<1> SUFFICES ASSUME Init PROVE GameInv
  OBVIOUS
<1>1. GoodTasks(task)
  BY IdleRecord DEF Init, GoodTasks
<1>2. Unknown \in States /\ ~Unknown.suspect
  BY DEF Unknown, States
<1>3. DOMAIN cache = {}
  BY DEF Init
<1>4. GameTypeOK
  BY <1>2, <1>3 DEF Init, GameTypeOK
<1> QED BY <1>1, <1>2, <1>3, <1>4 DEF Init, GameInv, CacheScoped, SuspectJustified, SnapshotCurrent

LEMMA GameStepInv == GameInv /\ [Next]_vars => GameInv'
<1> SUFFICES ASSUME GameInv, [Next]_vars PROVE GameInv'
  OBVIOUS
<1>1. ASSUME NEW x \in Tasks, Acquire(x) \/ PathRefuses(x) PROVE GameInv'
  BY <1>1, AcquireGood, PathRefusesGood, TaskStep DEF Acquire, PathRefuses, env, generations, snapshots
<1>2. ASSUME NEW x \in Tasks, Step(x) PROVE GameInv'
  BY <1>2, LookupInv, GameAnswersInv, BootstrapAnswerInv, AnswerInv DEF Step
<1>3. CASE UNCHANGED vars
  BY <1>3, TaskStep DEF vars, env, generations, snapshots, GameInv
<1> QED BY <1>1, <1>2, <1>3, BeginInv, GameAnswersInv, TimeoutInv, PollInv, ActivateInv, SnapshotInv,
           AgesInv, GameChangesInv DEF Next

LEMMA GameInvariance == Spec => []GameInv
BY GameInitInv, GameStepInv, PTL DEF Spec

-----------------------------------------------------------------------------
(* Whatever reloads, evictions, refreshes and time-outs interleave with a  *)
(* call, an entry of the response cache was made with the protocol and the *)
(* accounts its key names (call_admitted, put_with_ttl).                   *)
THEOREM CacheIsScoped == Spec => []CacheScoped
BY GameInvariance, PTL DEF GameInv

(* The version in use is suspect only if the game called that very version *)
(* stale (observe).                                                        *)
THEOREM SuspicionIsJustified == Spec => []SuspectJustified
BY GameInvariance, PTL DEF GameInv

(* A snapshot not marked stale is that of the version in use               *)
(* (ensure_global_snapshot).                                               *)
THEOREM SnapshotIsCurrent == Spec => []SnapshotCurrent
BY GameInvariance, PTL DEF GameInv
=============================================================================
