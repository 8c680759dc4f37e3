----------------------------- MODULE PathCharge -----------------------------
(***************************************************************************)
(* Who pays for a path-class fault: account health (src/src/accounts.rs)   *)
(* composed with the game path's health by GameClient::record_path,        *)
(* report_lease and settle_charge (src/src/client.rs).                     *)
(*                                                                         *)
(* The path and every account have a mutex of their own, so a call's       *)
(* record, the withdrawal of charges account by account, charge(), the     *)
(* report and the settlement are separate steps that other calls' steps    *)
(* come between.  No step of that chain awaits, so none can be cancelled.  *)
(***************************************************************************)
EXTENDS PathHealth

CONSTANTS
  SessionLock,      \* session_lock: one call of an account at a time
  Global            \* the region's family is Global

ASSUME ModeAssumption == SessionLock \in BOOLEAN /\ Global \in BOOLEAN

VARIABLES
  count,            \* Health::failures, per account
  path_failures,    \* the part of it charged during path_streak
  path_streak,
  threshold_until,  \* "waiting": the threshold cooldown is running
  until,            \* "waiting": a signal's cooldown is running
  disabled,
  pc, lease, session,
  outcome,          \* what the attempt leaves for the report to say
  mark,             \* the streak a call withdraws or charges
  todo,             \* accounts revoke_path_failures has still to visit
  blamed            \* history: every streak that was attributed

health  == <<count, path_failures, path_streak, threshold_until, until, disabled>>
control == <<pc, lease, session, outcome, mark, todo>>
chargeVars == <<pathVars, health, control, blamed>>

Path == -1      \* Charge::Path
NoStreak == 0   \* Charge::Account { streak: None }

HealthTypeOK ==
  /\ count \in [Accounts -> 0..MaxCount]
  /\ path_failures \in [Accounts -> 0..MaxCount]
  /\ path_streak \in [Accounts -> 0..MaxEpoch]
  /\ threshold_until \in [Accounts -> {"none", "waiting"}]
  /\ until \in [Accounts -> {"none", "waiting"}]
  /\ disabled \in SUBSET Accounts

ControlTypeOK ==
  /\ pc \in [Calls -> {"idle", "leased", "revoking", "charging", "applying",
                       "settling", "withdrawing", "ending"}]
  /\ lease \in [Calls -> Sources]
  /\ session \in SUBSET Calls
  /\ outcome \in [Calls -> {"none", "fault", "healthy", "neutral"}]
  /\ mark \in [Calls -> Path..MaxEpoch]
  /\ todo \in [Calls -> SUBSET Accounts]
  /\ blamed \in SUBSET (1..MaxEpoch)

(* Only a call that leased an account has a session or something to report. *)
LeaseHeld(c) ==
  \/ c \in session
  \/ outcome[c] # "none"
  \/ pc[c] \in {"charging", "applying", "settling", "withdrawing"}

ChargeTypeOK ==
  /\ PathTypeOK /\ HealthTypeOK /\ ControlTypeOK
  /\ \A c \in Calls : LeaseHeld(c) => lease[c] \in Accounts

ChargeInit ==
  /\ PathInit
  /\ count = [a \in Accounts |-> 0]
  /\ path_failures = [a \in Accounts |-> 0]
  /\ path_streak = [a \in Accounts |-> 0]
  /\ threshold_until = [a \in Accounts |-> "none"]
  /\ until = [a \in Accounts |-> "none"]
  /\ disabled = {}
  /\ pc = [c \in Calls |-> "idle"]
  /\ lease = [c \in Calls |-> Anonymous]
  /\ session = {}
  /\ outcome = [c \in Calls |-> "none"]
  /\ mark = [c \in Calls |-> NoStreak]
  /\ todo = [c \in Calls |-> {}]
  /\ blamed = {}

-----------------------------------------------------------------------------
(* Account health.                                                         *)

(* Account::available: an Instant that has passed is as good as None. *)
Available(a) ==
  a \notin disabled /\ threshold_until[a] = "none" /\ until[a] = "none"

CoolingEnds(a) ==
  /\ \/ /\ threshold_until[a] = "waiting"
        /\ threshold_until' = [threshold_until EXCEPT ![a] = "none"]
        /\ UNCHANGED until
     \/ /\ until[a] = "waiting"
        /\ until' = [until EXCEPT ![a] = "none"]
        /\ UNCHANGED threshold_until
  /\ UNCHANGED <<pathVars, count, path_failures, path_streak, disabled, control, blamed>>

(* Health::succeeded *)
Succeeded(a) ==
  /\ count' = [count EXCEPT ![a] = 0]
  /\ path_failures' = [path_failures EXCEPT ![a] = 0]
  /\ until' = [until EXCEPT ![a] = "none"]
  /\ threshold_until' = [threshold_until EXCEPT ![a] = "none"]
  /\ UNCHANGED <<path_streak, disabled>>

(* Health::transient; the charge k is the streak, or NoStreak. *)
Before(a, k) == IF path_streak[a] = k THEN path_failures[a] ELSE 0

Transient(a, k) ==
  /\ count' = [count EXCEPT ![a] = Increment(@)]
  /\ IF k = NoStreak
       THEN UNCHANGED <<path_streak, path_failures>>
       ELSE /\ path_streak' = [path_streak EXCEPT ![a] = k]
            /\ path_failures' = [path_failures EXCEPT ![a] = Increment(Before(a, k))]
  /\ threshold_until' = [threshold_until EXCEPT ![a] =
                           IF Increment(count[a]) >= Threshold THEN "waiting" ELSE @]
  /\ UNCHANGED <<until, disabled>>

(* Account::revoke_path_failures *)
Remaining(a) == IF count[a] > path_failures[a] THEN count[a] - path_failures[a] ELSE 0

Revocable(a, k) == path_streak[a] = k /\ path_failures[a] > 0

CooldownKept(a) == threshold_until[a]
Cooldown(a) == IF Remaining(a) < Threshold THEN "none" ELSE threshold_until[a]

Revoke(a, k) ==
  /\ IF Revocable(a, k)
       THEN /\ count' = [count EXCEPT ![a] = Remaining(a)]
            /\ path_failures' = [path_failures EXCEPT ![a] = 0]
            /\ threshold_until' = [threshold_until EXCEPT ![a] = Cooldown(a)]
       ELSE UNCHANGED <<count, path_failures, threshold_until>>
  /\ UNCHANGED <<path_streak, until, disabled>>

-----------------------------------------------------------------------------
(* A call.  Select leases an account that is available (an anonymous call  *)
(* leases none); Enter takes the account's session lock and looks again.   *)

(* Call d holds the pool's mutex in the middle of its withdrawal. *)
InLoop(d) == pc[d] = "revoking" /\ todo[d] # Accounts

Select(c) ==
  /\ pc[c] = "idle"
  /\ \A d \in Calls : ~InLoop(d)
  /\ \E s \in Sources :
       /\ s \in Accounts => Available(s)
       /\ lease' = [lease EXCEPT ![c] = s]
  /\ pc' = [pc EXCEPT ![c] = "leased"]
  /\ UNCHANGED <<pathVars, health, session, outcome, mark, todo, blamed>>

Enter(c) ==
  /\ pc[c] = "leased" /\ c \notin session
  /\ lease[c] \in Accounts /\ Available(lease[c])
  /\ SessionLock => \A d \in session : lease[d] # lease[c]
  /\ session' = session \cup {c}
  /\ UNCHANGED <<pathVars, health, pc, lease, outcome, mark, todo, blamed>>

AdmitPath(c) ==
  /\ pc[c] = "leased"
  /\ Admit(c)
  /\ UNCHANGED <<health, control, blamed>>

(* Ticket::drop, if the call got as far as a ticket. *)
TicketLeaked(c) ==
  /\ ticket' = [ticket EXCEPT ![c] = "none"]
  /\ attempts' = [attempts EXCEPT ![c] = 0]
  /\ UNCHANGED <<streak, circuit>>

DropTicket(c) == IF ticket[c] = "none" THEN UNCHANGED pathVars ELSE Release(c)

(* The call is over: refused, cancelled at an await, or answered.  Its     *)
(* session lock, ticket and lease are dropped.                             *)
End(c) ==
  /\ pc[c] \in {"leased", "ending"}
  /\ DropTicket(c)
  /\ pc' = [pc EXCEPT ![c] = "idle"]
  /\ lease' = [lease EXCEPT ![c] = Anonymous]
  /\ session' = session \ {c}
  /\ outcome' = [outcome EXCEPT ![c] = "none"]
  /\ mark' = [mark EXCEPT ![c] = NoStreak]
  /\ UNCHANGED <<health, todo, blamed>>

(* An attempt's source: the account once the call is in its session, before *)
(* that (the Version call) and on anonymous routes nobody.                 *)
SourceOf(c) == IF c \in session THEN lease[c] ELSE Anonymous

(* Where an attempt with the given outcome leaves the call.  An anonymous  *)
(* attempt may be repeated and is never reported.  A call in its session   *)
(* goes on after a good answer that is not its last (Whoami, PlayerLogin), *)
(* ends unreported when it times out inside its login or is cancelled, and *)
(* is reported otherwise.                                                  *)
After(c, said) ==
  IF c \notin session THEN {"leased"}
  ELSE {"charging", "ending"} \cup (IF said = "healthy" THEN {"leased"} ELSE {})

(* UpstreamAttempt::drop and record_path: the streak a fault attributes is *)
(* withdrawn from every account of the pool, after the path's mutex is     *)
(* released.                                                               *)
Sent(c, said, next) ==
  /\ outcome' = [outcome EXCEPT ![c] = IF next = "charging" THEN said ELSE "none"]
  /\ UNCHANGED <<health, lease, session>>

Proceed(c, said) ==
  \E next \in After(c, said) :
    /\ Sent(c, said, next)
    /\ pc' = [pc EXCEPT ![c] = next]
    /\ UNCHANGED <<mark, todo, blamed>>

SendHealthy(c) ==
  /\ pc[c] = "leased"
  /\ RecordHealthy(c)
  /\ Proceed(c, "healthy")

(* A response over the size limit, or nothing sent: not recorded. *)
SendNeutral(c) ==
  /\ pc[c] = "leased"
  /\ RecordNeutral(c)
  /\ Proceed(c, "neutral")

SendFault(c) ==
  /\ pc[c] = "leased"
  /\ RecordFault(c, SourceOf(c))
  /\ IF Attributes(SourceOf(c))
       THEN \E next \in After(c, "fault") :
              /\ Sent(c, "fault", next)
              /\ pc' = [pc EXCEPT ![c] = "revoking"]
              /\ mark' = [mark EXCEPT ![c] = epoch']
              /\ todo' = [todo EXCEPT ![c] = Accounts]
              /\ blamed' = blamed \cup {epoch'}
       ELSE Proceed(c, "fault")

(* Pool::revoke_path_failures, one account's mutex at a time under the     *)
(* pool's.                                                                 *)
Resume(c) ==
  IF outcome[c] = "fault" THEN "charging" ELSE IF c \in session THEN "ending" ELSE "leased"

RevokeNext(c, a) ==
  /\ pc[c] = "revoking" /\ a \in todo[c]
  /\ \A d \in Calls \ {c} : ~InLoop(d)
  /\ Revoke(a, mark[c])
  /\ todo' = [todo EXCEPT ![c] = @ \ {a}]
  /\ pc' = [pc EXCEPT ![c] = IF todo[c] = {a} THEN Resume(c) ELSE "revoking"]
  /\ UNCHANGED <<pathVars, lease, session, outcome, mark, blamed>>

-----------------------------------------------------------------------------
(* report_lease.                                                           *)

(* The deadline ends the timed block: the session lock and the ticket are  *)
(* dropped first and Timeout is reported after that.                       *)
Deadline(c) ==
  /\ pc[c] = "charging" /\ c \in session
  /\ Release(c)
  /\ session' = session \ {c}
  /\ outcome' = [outcome EXCEPT ![c] = "fault"]
  /\ UNCHANGED <<health, pc, lease, mark, todo, blamed>>

(* PathHealth::charge *)
Payer ==
  IF attributed \/ open_until # "none" THEN Path
  ELSE IF failures > 0 THEN epoch ELSE NoStreak

Charge(c) ==
  /\ pc[c] = "charging"
  /\ mark' = [mark EXCEPT ![c] = Payer]
  /\ pc' = [pc EXCEPT ![c] = "applying"]
  /\ UNCHANGED <<pathVars, health, lease, session, outcome, todo, blamed>>

(* Lease::report and Account::global_signal, by the class of the result.   *)
(* An answered attempt can still be a path-class error (an undecodable     *)
(* body); an answer that counts as a fault may carry an application code,  *)
(* which Global accounts look at first.  Maintenance, version signals and  *)
(* errors before anything was sent say nothing about the account.          *)
PathFaultResult(a, k) == IF k = Path THEN UNCHANGED health ELSE Transient(a, k)

Denied(a) ==
  /\ disabled' = disabled \cup {a}
  /\ count' = IF Global THEN count ELSE [count EXCEPT ![a] = Increment(@)]
  /\ UNCHANGED <<path_failures, path_streak, threshold_until, until>>

Signal(a) ==
  /\ Global
  /\ until' = [until EXCEPT ![a] = "waiting"]
  /\ UNCHANGED <<count, path_failures, path_streak, threshold_until, disabled>>

Result(c, a) ==
  \/ PathFaultResult(a, mark[c])
  \/ UNCHANGED health
  \/ outcome[c] = "healthy" /\ (Succeeded(a) \/ Transient(a, NoStreak))
  \/ /\ outcome[c] = "healthy" \/ (Global /\ outcome[c] = "fault")
     /\ Denied(a) \/ Signal(a)

(* settle_charge follows every charge that names a streak. *)
SettlesNever(c) == FALSE
Settles(c) == mark[c] > 0

Report(c) ==
  /\ pc[c] = "applying"
  /\ Result(c, lease[c])
  /\ pc' = [pc EXCEPT ![c] = IF Settles(c) THEN "settling" ELSE "ending"]
  /\ UNCHANGED <<pathVars, lease, session, outcome, mark, todo, blamed>>

(* PathHealth::attributed *)
Settle(c) ==
  /\ pc[c] = "settling"
  /\ pc' = [pc EXCEPT ![c] = IF last_attributed = mark[c] THEN "withdrawing" ELSE "ending"]
  /\ UNCHANGED <<pathVars, health, lease, session, outcome, mark, todo, blamed>>

Withdraw(c) ==
  /\ pc[c] = "withdrawing"
  /\ Revoke(lease[c], mark[c])
  /\ pc' = [pc EXCEPT ![c] = "ending"]
  /\ UNCHANGED <<pathVars, lease, session, outcome, mark, todo, blamed>>

ProbeDue == Elapse /\ UNCHANGED <<health, control, blamed>>

CallNext(c) ==
  \/ Select(c) \/ Enter(c) \/ AdmitPath(c) \/ End(c)
  \/ SendHealthy(c) \/ SendNeutral(c) \/ SendFault(c)
  \/ Deadline(c) \/ Charge(c) \/ Report(c) \/ Settle(c) \/ Withdraw(c)
  \/ \E a \in Accounts : RevokeNext(c, a)

ChargeNext ==
  \/ \E c \in Calls : CallNext(c)
  \/ \E a \in Accounts : CoolingEnds(a)
  \/ ProbeDue

ChargeSpec == ChargeInit /\ [][ChargeNext]_chargeVars

-----------------------------------------------------------------------------
(* Properties.                                                             *)

(* A charge made during the streak last attributed never outlives the      *)
(* calls: as long as an account carries one, some call is on its way to    *)
(* withdraw it, in revoke_path_failures or in settle_charge.               *)
Owes(c, a) ==
  /\ mark[c] = last_attributed
  /\ \/ pc[c] = "revoking" /\ a \in todo[c]
     \/ pc[c] \in {"settling", "withdrawing"} /\ lease[c] = a

LatestStreakSettled ==
  \A a \in Accounts :
    path_failures[a] > 0 /\ path_streak[a] = last_attributed => \E c \in Calls : Owes(c, a)

(* What is withdrawn is never more than was charged: revoke_path_failures' *)
(* saturating subtraction does not saturate.                               *)
ShareBounded == \A a \in Accounts : path_failures[a] <= count[a]

(* An account sits out the threshold cooldown only while it has Threshold  *)
(* failures of its own: withdrawing a streak lifts what it caused.         *)
CooldownJustified ==
  \A a \in Accounts : threshold_until[a] = "waiting" => count[a] >= Threshold

(* "The streak that has just been attributed to the path: its account      *)
(* charges are withdrawn" (Change::attributed): when no call is in the     *)
(* middle of a report, no account carries a charge of a streak that was    *)
(* attributed.                                                             *)
Quiet == \A c \in Calls : pc[c] \in {"idle", "leased", "ending"}

AttributedStreaksWithdrawn ==
  Quiet => \A a \in Accounts : path_failures[a] > 0 => path_streak[a] \notin blamed
=============================================================================
