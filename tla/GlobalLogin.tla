---------------------------- MODULE GlobalLogin ----------------------------
(***************************************************************************)
(* Logins of one Global SDK identity: its shared session (sdk_session.rs), *)
(* the account of each region that uses it (global_account.rs, accounts.rs *)
(* and account_auth in client.rs), the keepalive of each region, and the   *)
(* `global-account verify` command, a second process that shares the state *)
(* directory.                                                              *)
(*                                                                         *)
(* A call holds its account's session lock throughout, so an account has   *)
(* one caller at a time.  One critical section of the code, or one answer  *)
(* to a request, is one step.  The session's state file is read under the  *)
(* process's state mutex and renamed into place later under the same       *)
(* mutex; another process may come between.                                *)
(*                                                                         *)
(* Times are the order of the results of cache.login: a token is the time  *)
(* it was obtained at, 0 is none.  Clocks pass by steps of their own.      *)
(***************************************************************************)
EXTENDS Integers, FiniteSets

CONSTANTS
    Service,            \* the regions of the service process
    Keepalive,          \* the regions whose keepalive interval a session reaches
    Verify,             \* the account the verify command logs in
    None,
    Signals,            \* the signals of failed calls to consider
    MaxLogins,          \* attempts the login limits allow in their window
    DeviceLimit,        \* concurrent_device_limit
    WritesFail,         \* whether writing the state file may fail
    MaxEvents           \* signals, failures, restarts, reloads, and clocks passing

ASSUME LoginAssumption ==
    /\ Keepalive \subseteq Service /\ Verify \notin Service
    /\ Signals \subseteq {"ban", "denied", "aegis", "device", "token", "player", "neutral"}
    /\ WritesFail \in BOOLEAN
    /\ MaxLogins \in Nat \ {0} /\ DeviceLimit \in Nat \ {0} /\ MaxEvents \in Nat

(* The state file: a token, the time of the last validation, and of a      *)
(* refusal.                                                                *)
Files == [token : Nat, validated : Nat, refusal : Nat]

(* None is neither a worker nor the content of a file. *)
ASSUME NoneAssumption ==
    None \notin ({"call", "keepalive"} \X (Service \union {Verify})) \union Files

VARIABLES
    sdk,                \* SdkSession's State, per process
    file,               \* the state file
    writing,            \* per process: None, or what it is about to rename into place
    login,              \* per process: who holds the revalidation lock
    lock,               \* who holds the lock file
    actor,              \* the callers and the keepalive workers
    moved,              \* callers that waited while a cache.login completed
    account,            \* LoginState and health, per account
    clock,              \* results of cache.login so far
    lapsed,             \* refusals up to here may be retried
    expired,            \* id_tokens up to here have expired
    aged,               \* sessions up to here are due for a keepalive
    rejected,           \* history: tokens a TOKEN_* signal named, per process
    events

clocks == <<clock, lapsed, expired, aged>>
shared == <<sdk, file, writing, rejected>>
locks == <<login, lock>>
vars == <<shared, locks, actor, moved, account, clocks, events>>

Accounts == Service \union {Verify}
Processes == {"service", "verify"}
Callers == {"call"} \X Accounts
Keepers == {"keepalive"} \X Keepalive
Actors == Callers \union Keepers
ProcessOf(x) == IF x[2] \in Service THEN "service" ELSE "verify"
ActorsOf(p) == {x \in Actors : ProcessOf(x) = p}

Event == events < MaxEvents /\ events' = events + 1

----------------------------------------------------------------------------
(* SdkSession.                                                             *)

NoSession == [token |-> 0, validated |-> 0, generation |-> 0, stale |-> FALSE, refusal |-> 0]
NoFile == [token |-> 0, validated |-> 0, refusal |-> 0]

reusable(s) == ~s.stale /\ s.refusal = 0 /\ s.token > expired

refusal(s) == s.refusal > lapsed

WhileReusable(s) == reusable(s) /\ s.validated \in 1 .. aged

keepalive_due(s) == s.refusal = 0 /\ s.validated \in 1 .. aged

(* read: an expired id_token, or one beside a refusal, is not adopted. *)
Adopted(d) == d.refusal = 0 /\ d.token > expired

Newer(s, at) == at > s.validated /\ at > s.refusal

merge(s, d) ==
    IF Newer(s, d.refusal)
    THEN [s EXCEPT !.token = 0, !.generation = @ + 1, !.stale = FALSE, !.refusal = d.refusal]
    ELSE IF ~Newer(s, d.validated) THEN s
    ELSE IF Adopted(d)
    THEN [s EXCEPT !.token = d.token, !.validated = d.validated, !.generation = @ + 1,
                   !.stale = FALSE, !.refusal = 0]
    ELSE [s EXCEPT !.validated = d.validated]

Persisted(s) ==
    [token |-> IF s.stale THEN 0 ELSE s.token, validated |-> s.validated, refusal |-> s.refusal]

(* persist: the file is merged in, and what results is to be written. *)
persist(p, s) ==
    LET merged == merge(s, file)
    IN  /\ sdk' = [sdk EXCEPT ![p] = merged]
        /\ writing' = [writing EXCEPT ![p] = Persisted(merged)]

AnyGeneration(s, generation) == s.stale

Ignored(s, generation) == s.generation # generation \/ s.stale

mark_stale(p, generation) ==
    IF Ignored(sdk[p], generation) THEN UNCHANGED <<sdk, writing>>
    ELSE IF sdk[p].token = 0
    THEN sdk' = [sdk EXCEPT ![p].stale = TRUE] /\ UNCHANGED writing
    ELSE persist(p, [sdk[p] EXCEPT !.stale = TRUE])

validated(p) ==
    persist(p, [token |-> clock + 1, validated |-> clock + 1,
                generation |-> sdk[p].generation + 1, stale |-> FALSE, refusal |-> 0])

refused(p) ==
    persist(p, [token |-> 0, validated |-> sdk[p].validated,
                generation |-> sdk[p].generation + 1, stale |-> FALSE, refusal |-> clock + 1])

----------------------------------------------------------------------------
(* An account.                                                             *)

NewAccount ==
    [session |-> FALSE, generation |-> 0, token |-> 0, invalidations |-> 0, disabled |-> FALSE,
     cooling |-> FALSE, attempts |-> 0, devices |-> 0]

available(r) == ~r.disabled /\ ~r.cooling

(* next_allowed is None.  The login interval and the daily cap are both a  *)
(* limit on the attempts in a window of time: one, or max_logins_per_day.  *)
allowed(r) == r.attempts < MaxLogins

(* attempts.push_back *)
Spent(r) == [r EXCEPT !.attempts = @ + 1]

Disabled(r) == [r EXCEPT !.disabled = TRUE]

(* invalidate: the session is gone; the second one in a row needs an       *)
(* operator, unless the signal is judged by its own count.                 *)
Invalidated(r) == [r EXCEPT !.session = FALSE, !.invalidations = @ + 1]

(* global_signal, what it does to the account.                             *)
global_signal(r, signal) ==
    LET gone == Invalidated(r)
    IN  CASE signal = "ok" -> [r EXCEPT !.invalidations = 0]
          [] signal = "ban" -> Disabled([r EXCEPT !.session = FALSE])
          [] signal = "denied" -> Disabled(r)
          [] signal = "aegis" -> [r EXCEPT !.cooling = TRUE]
          [] signal = "device" ->
               IF r.devices + 1 >= DeviceLimit
               THEN Disabled([gone EXCEPT !.devices = @ + 1])
               ELSE [gone EXCEPT !.devices = @ + 1, !.cooling = TRUE]
          [] signal \in {"token", "player"} ->
               IF gone.invalidations >= 2 THEN Disabled(gone) ELSE gone
          [] OTHER -> r

----------------------------------------------------------------------------
(* Between two checks a keepalive worker sleeps, and so it does before its *)
(* first; the verify command runs once.                                    *)
Sleeping(x) == [pc |-> IF x \in Keepers THEN "asleep" ELSE "idle", old |-> None]
Rest(x) == IF x[2] = Verify THEN [pc |-> "off", old |-> None] ELSE Sleeping(x)

Init ==
    /\ sdk = [p \in Processes |-> NoSession] /\ file = NoFile
    /\ writing = [p \in Processes |-> None]
    /\ login = [p \in Processes |-> None] /\ lock = None
    /\ actor = [x \in Actors |-> Rest(x)] /\ moved = {}
    /\ account = [a \in Accounts |-> NewAccount]
    /\ clock = 0 /\ lapsed = 0 /\ expired = 0 /\ aged = 0
    /\ rejected = [p \in Processes |-> {}]
    /\ events = 0

----------------------------------------------------------------------------
(* Steps of a caller or a keepalive worker x.                              *)

At(x, pc) == actor[x].pc = pc

(* The state mutex is free. *)
Unlocked(x) == writing[ProcessOf(x)] = None

State(x) == sdk[ProcessOf(x)]

(* The account a worker holds: a reload replaces the pool, and a keepalive *)
(* under way goes on with the old account.                                 *)
Held(x) == IF actor[x].old = None THEN account[x[2]] ELSE actor[x].old

Released(x) ==
    /\ login' = [p \in Processes |-> IF login[p] = x THEN None ELSE login[p]]
    /\ lock' = IF lock = x THEN None ELSE lock

(* x goes to pc holding account r. *)
Go(x, pc, r) ==
    /\ actor' = IF pc = "done" THEN [actor EXCEPT ![x] = Rest(x)]
                ELSE IF actor[x].old = None THEN [actor EXCEPT ![x].pc = pc]
                ELSE [actor EXCEPT ![x].pc = pc, ![x].old = r]
    /\ account' = IF actor[x].old = None THEN [account EXCEPT ![x[2]] = r] ELSE account

(* A login counted against the account's limits, with session s. *)
LoginWith(r, s) == [Spent(r) EXCEPT !.generation = s.generation, !.token = s.token]

(* Hours and days pass between calls, which have a deadline of seconds. *)
BetweenCalls == \A x \in Callers : actor[x].pc \in {"idle", "off"}

(* account_auth without a game session: a refusal in force disables, the   *)
(* login limits defer, a session still valid is used, and otherwise the    *)
(* revalidation lock is waited for.                                        *)
account_auth(x) ==
    /\ At(x, "idle") /\ x \in Callers /\ Unlocked(x)
    /\ available(Held(x)) /\ ~Held(x).session
    /\ \/ /\ refusal(State(x))
          /\ Go(x, "done", Disabled(Held(x)))
       \/ /\ ~refusal(State(x)) /\ ~allowed(Held(x))
          /\ Go(x, "done", [Held(x) EXCEPT !.cooling = TRUE])
       \/ /\ ~refusal(State(x)) /\ allowed(Held(x)) /\ reusable(State(x))
          /\ Go(x, "player", LoginWith(Held(x), State(x)))
       \/ /\ ~refusal(State(x)) /\ allowed(Held(x)) /\ ~reusable(State(x))
          /\ Go(x, "login", Held(x))
    /\ moved' = moved \ {x}
    /\ UNCHANGED <<shared, locks, clocks, events>>

(* sdk_keepalive: a session due for it, if the account is not disabled. *)
sdk_keepalive(x) ==
    /\ At(x, "idle") /\ x \in Keepers /\ Unlocked(x)
    /\ ~Held(x).disabled /\ keepalive_due(State(x))
    /\ Go(x, "login", Held(x))
    /\ UNCHANGED <<shared, locks, moved, clocks, events>>

HourPasses(x) ==
    /\ At(x, "asleep") /\ BetweenCalls
    /\ Go(x, "idle", Held(x))
    /\ UNCHANGED <<shared, locks, moved, clocks, events>>

TakeLogin(x) ==
    /\ At(x, "login") /\ login[ProcessOf(x)] = None
    /\ login' = [login EXCEPT ![ProcessOf(x)] = x]
    /\ Go(x, "lock", Held(x))
    /\ UNCHANGED <<shared, lock, moved, clocks, events>>

(* exclusive: once the lock file is held, the file is merged in. *)
exclusive(x) ==
    /\ At(x, "lock") /\ lock = None /\ Unlocked(x)
    /\ lock' = x
    /\ sdk' = [sdk EXCEPT ![ProcessOf(x)] = merge(@, file)]
    /\ Go(x, "decide", Held(x))
    /\ UNCHANGED <<file, writing, rejected, login, moved, clocks, events>>

(* What a caller that waited finds: the refusal or the session of whoever  *)
(* held the locks before, or a cache.login that failed meanwhile.          *)
SettledUnrefused(x) == reusable(State(x)) \/ x \in moved

Settled(x) == refusal(State(x)) \/ reusable(State(x)) \/ x \in moved

Found(x) ==
    /\ At(x, "decide") /\ x \in Callers /\ Unlocked(x) /\ Settled(x)
    /\ \/ /\ refusal(State(x))
          /\ Go(x, "done", Disabled(Held(x)))
       \/ /\ ~refusal(State(x)) /\ reusable(State(x))
          /\ Go(x, "player", LoginWith(Held(x), State(x)))
       \/ /\ ~refusal(State(x)) /\ ~reusable(State(x))
          /\ Go(x, "done", Held(x))
    /\ Released(x)
    /\ UNCHANGED <<shared, moved, clocks, events>>

(* A keepalive that another region or process made needless, or that the   *)
(* login limits put off.                                                   *)
Skipped(x) == ~keepalive_due(State(x)) \/ ~allowed(Held(x))

KeepaliveSkipped(x) ==
    /\ At(x, "decide") /\ x \in Keepers /\ Unlocked(x) /\ Skipped(x)
    /\ Go(x, "done", Held(x)) /\ Released(x)
    /\ UNCHANGED <<shared, moved, clocks, events>>

(* revalidate: an open SDK path refuses before the attempt is counted. *)
Wanted(x) == IF x \in Callers THEN ~Settled(x) ELSE ~Skipped(x)

revalidate(x) ==
    /\ At(x, "decide") /\ Unlocked(x) /\ Wanted(x)
    /\ \/ Event /\ Go(x, "done", Held(x)) /\ Released(x)
       \/ Go(x, "sdk", Spent(Held(x))) /\ UNCHANGED <<locks, events>>
    /\ UNCHANGED <<shared, moved, clocks>>

(* completed: the waiting callers of the process will not repeat it. *)
completed(x) ==
    moved' = moved \union
        {y \in ActorsOf(ProcessOf(x)) \intersect Callers : actor[y].pc \in {"login", "lock"}}

Validated(x) ==
    /\ At(x, "sdk") /\ Unlocked(x)
    /\ validated(ProcessOf(x)) /\ completed(x)
    /\ clock' = clock + 1
    /\ Go(x, "persist", IF x \in Callers
                        THEN [Held(x) EXCEPT !.generation = sdk'[ProcessOf(x)].generation,
                                             !.token = clock + 1]
                        ELSE Held(x))
    /\ UNCHANGED <<file, rejected, locks, lapsed, expired, aged, events>>

(* A refusal or a captcha is recorded; it, and a failure that is not       *)
(* transient, disable the account.                                         *)
Refused(x) ==
    /\ At(x, "sdk") /\ Unlocked(x) /\ Event
    /\ refused(ProcessOf(x)) /\ completed(x)
    /\ clock' = clock + 1
    /\ Go(x, "persist", Disabled(Held(x)))
    /\ UNCHANGED <<file, rejected, locks, lapsed, expired, aged>>

Failed(x) ==
    /\ At(x, "sdk") /\ Event
    /\ completed(x)
    /\ \E transient \in BOOLEAN : Go(x, "done", IF transient THEN Held(x) ELSE Disabled(Held(x)))
    /\ Released(x)
    /\ UNCHANGED <<shared, clocks>>

(* write_private: the new file is renamed into place, or the write fails   *)
(* and the state stays in memory.  A caller whose cache.login succeeded    *)
(* goes on to PlayerLogin; the locks are released.                         *)
Persist(x) ==
    LET p == ProcessOf(x)
    IN  /\ At(x, "persist")
        /\ \/ file' = writing[p] /\ UNCHANGED events
           \/ WritesFail /\ UNCHANGED file /\ Event
        /\ writing' = [writing EXCEPT ![p] = None]
        /\ IF lock = x /\ x \in Callers /\ ~Held(x).disabled
           THEN Go(x, "player", Held(x))
           ELSE Go(x, "done", Held(x))
        /\ Released(x)
        /\ UNCHANGED <<sdk, rejected, moved, clocks>>

(* The signal of a failed PlayerLogin or of a failed game call. *)
Signal(x) ==
    \E signal \in Signals :
        /\ Event
        /\ IF signal = "token"
           THEN /\ mark_stale(ProcessOf(x), Held(x).generation)
                /\ rejected' = [rejected EXCEPT ![ProcessOf(x)] = @ \union {Held(x).token}]
           ELSE UNCHANGED <<sdk, writing, rejected>>
        /\ Go(x, IF writing' = writing THEN "done" ELSE "persist", global_signal(Held(x), signal))

PlayerLogin(x) ==
    /\ At(x, "player") /\ Unlocked(x)
    /\ \/ /\ Go(x, "done", [Held(x) EXCEPT !.session = TRUE])
          /\ UNCHANGED <<sdk, writing, rejected, events>>
       \/ Signal(x)
    /\ UNCHANGED <<file, locks, moved, clocks>>

(* A game call with a session; one that succeeds clears the invalidations. *)
Call(x) ==
    /\ At(x, "idle") /\ x \in Callers /\ Unlocked(x)
    /\ available(Held(x)) /\ Held(x).session
    /\ \/ Go(x, "done", global_signal(Held(x), "ok")) /\ UNCHANGED <<sdk, writing, rejected, events>>
       \/ Signal(x)
    /\ UNCHANGED <<file, locks, moved, clocks>>

(* The deadline of a call, or its client's leaving, drops it where it      *)
(* waits.                                                                  *)
Cancelled(x) ==
    /\ x \in Callers /\ actor[x].pc \in {"login", "lock", "sdk", "player"} /\ Event
    /\ Go(x, "done", Held(x)) /\ Released(x)
    /\ UNCHANGED <<shared, moved, clocks>>

----------------------------------------------------------------------------
(* reload_accounts: once the region's calls have drained, new accounts     *)
(* take over with the login history.                                       *)
Inherited(r) == [NewAccount EXCEPT !.attempts = r.attempts, !.devices = r.devices]

reload_accounts(a) ==
    LET keeper == <<"keepalive", a>>
    IN  /\ At(<<"call", a>>, "idle") /\ Event
        /\ account' = [account EXCEPT ![a] = Inherited(@)]
        /\ actor' = IF a \notin Keepalive \/ actor[keeper].pc \in {"asleep", "idle"} THEN actor
                    ELSE [actor EXCEPT ![keeper].old = Held(keeper)]
        /\ UNCHANGED <<shared, locks, moved, clocks>>

(* A process starts: memory is gone, and the identity's file is read. *)
Start(p) ==
    /\ Event
    /\ sdk' = [sdk EXCEPT ![p] = merge(NoSession, file)]
    /\ writing' = [writing EXCEPT ![p] = None]
    /\ rejected' = [rejected EXCEPT ![p] = {}]
    /\ login' = [login EXCEPT ![p] = None]
    /\ lock' = IF lock \in ActorsOf(p) THEN None ELSE lock
    /\ actor' = [x \in Actors |-> IF x \in ActorsOf(p) THEN Sleeping(x) ELSE actor[x]]
    /\ account' = [a \in Accounts |-> IF ProcessOf(<<"call", a>>) = p THEN NewAccount ELSE account[a]]
    /\ moved' = moved \ ActorsOf(p)
    /\ UNCHANGED <<file, clocks>>

(* Time passes. *)
TokensExpire ==
    /\ Event /\ expired # clock /\ expired' = clock
    /\ UNCHANGED <<shared, locks, actor, moved, account, clock, lapsed, aged>>

RefusalsLapse ==
    /\ Event /\ BetweenCalls /\ lapsed # clock /\ lapsed' = clock
    /\ UNCHANGED <<shared, locks, actor, moved, account, clock, expired, aged>>

SessionsAge ==
    /\ Event /\ BetweenCalls /\ aged # clock /\ aged' = clock
    /\ UNCHANGED <<shared, locks, actor, moved, account, clock, lapsed, expired>>

CooldownEnds(a) ==
    /\ account[a].cooling
    /\ account' = [account EXCEPT ![a].cooling = FALSE]
    /\ UNCHANGED <<shared, locks, actor, moved, clocks, events>>

WindowPasses(a) ==
    /\ BetweenCalls /\ account[a].attempts + account[a].devices # 0
    /\ account' = [account EXCEPT ![a].cooling = FALSE, ![a].attempts = 0, ![a].devices = 0]
    /\ UNCHANGED <<shared, locks, actor, moved, clocks, events>>

----------------------------------------------------------------------------
Step(x) ==
    \/ account_auth(x) \/ HourPasses(x) \/ sdk_keepalive(x) \/ TakeLogin(x) \/ exclusive(x)
    \/ Found(x) \/ KeepaliveSkipped(x) \/ revalidate(x)
    \/ Validated(x) \/ Refused(x) \/ Failed(x) \/ Persist(x)
    \/ PlayerLogin(x) \/ Call(x)

Next ==
    \/ \E x \in Actors : Step(x) \/ Cancelled(x)
    \/ \E a \in Service : reload_accounts(a)
    \/ \E p \in Processes : Start(p)
    \/ TokensExpire \/ RefusalsLapse \/ SessionsAge
    \/ \E a \in Accounts : CooldownEnds(a) \/ WindowPasses(a)

(* Workers and requests go on, requests are answered or time out, and      *)
(* intervals pass.                                                         *)
Spec ==
    /\ Init /\ [][Next]_vars
    /\ \A x \in Actors : WF_vars(Step(x))
    /\ \A a \in Accounts : WF_vars(CooldownEnds(a)) /\ WF_vars(WindowPasses(a))

----------------------------------------------------------------------------
(* A cache.login is sent for one identity by one worker at a time, never   *)
(* against a refusal in force that the process knows of or that the file   *)
(* holds, by a call only when no token is reusable, and by a keepalive     *)
(* only when it is still due (account_auth, sdk_keepalive, exclusive).     *)
Sent(x) == ~At(x, "sdk") /\ actor'[x].pc = "sdk"

RequestJustified ==
    [][\A x \in Actors : Sent(x) =>
          /\ \A y \in Actors : ~At(y, "sdk")
          /\ ~refusal(State(x))
          /\ file.refusal > lapsed => State(x).validated > file.refusal
          /\ x \in Callers => ~reusable(State(x))
          /\ x \in Keepers => keepalive_due(State(x))]_vars

(* A process's session is stale exactly when a TOKEN_* signal named its    *)
(* token: a late signal about a token already replaced changes nothing,    *)
(* and a token known to be rejected is never used again (mark_stale,       *)
(* merge).                                                                 *)
StaleExactly ==
    \A p \in Processes :
        sdk[p].token # 0 => (sdk[p].stale <=> sdk[p].token \in rejected[p])

(* An identity due for a keepalive is eventually revalidated, or refused,  *)
(* unless every account of it is disabled (sdk_keepalive).                 *)
Overdue == sdk["service"].refusal = 0 /\ sdk["service"].validated \in 1 .. aged

KeptAlive == Overdue ~> (~Overdue \/ \A a \in Keepalive : account[a].disabled)

(* A refusal in the state file is replaced only by a later result of       *)
(* cache.login (persist).                                                  *)
RefusalKept ==
    [][file.refusal # 0 =>
          \/ file'.refusal >= file.refusal
          \/ file'.validated > file.refusal]_vars
=============================================================================
