----------------------------- MODULE PathHealth -----------------------------
(***************************************************************************)
(* The health of one shared upstream path (src/src/path_health.rs) and the *)
(* logical calls that hold admission tickets of it.                        *)
(*                                                                         *)
(* Every action is one critical section of the path's mutex.  An Instant   *)
(* is only ever compared with the present, so open_until is "none",        *)
(* "waiting" (in the future) or "due" (passed), and Elapse is the passing  *)
(* of the probe interval.                                                  *)
(***************************************************************************)
EXTENDS Integers, FiniteSets

CONSTANTS
  Accounts,         \* names of the pool's accounts
  Anonymous,        \* the source of a call made without an account
  NoSource,         \* first_source = None
  Calls,            \* logical calls
  DistinctSources,  \* TRUE for the game path, FALSE for the SDK path
  Threshold,        \* account_pool.failure_threshold
  MaxCount,         \* where the u32 counters saturate
  MaxAttempts,      \* attempts one admitted call may make
  MaxEpoch          \* bound: streaks explored

ASSUME SourceAssumption ==
  /\ Anonymous \notin Accounts
  /\ NoSource \notin Accounts \cup {Anonymous}
  /\ DistinctSources \in BOOLEAN

ASSUME CountAssumption ==
  /\ Threshold \in Nat \ {0}
  /\ MaxCount \in Nat
  /\ Threshold <= MaxCount
  /\ MaxAttempts \in Nat
  /\ MaxEpoch \in Nat

VARIABLES
  failures,         \* consecutive faults of the current streak
  epoch,            \* number of the current (or last) streak
  first_source,     \* the only account seen in an unattributed streak
  attributed,       \* the streak is the path's fault
  last_attributed,  \* the last streak that became the path's fault
  open_until,       \* "none": closed; otherwise the probe interval
  probing,          \* a probe is out
  ticket,           \* per call: "none", "plain" or "probe"
  attempts,         \* per call: attempts made under its ticket
  seen              \* history: sources of the faults of the current streak

streak  == <<failures, epoch, first_source, attributed, last_attributed, seen>>
circuit == <<open_until, probing>>
holders == <<ticket, attempts>>
pathVars == <<streak, circuit, holders>>

Sources == Accounts \cup {Anonymous}

PathTypeOK ==
  /\ failures \in 0..MaxCount
  /\ epoch \in 0..MaxEpoch
  /\ first_source \in Accounts \cup {NoSource}
  /\ attributed \in BOOLEAN
  /\ last_attributed \in 0..MaxEpoch
  /\ open_until \in {"none", "waiting", "due"}
  /\ probing \in BOOLEAN
  /\ ticket \in [Calls -> {"none", "plain", "probe"}]
  /\ attempts \in [Calls -> 0..MaxAttempts]
  /\ seen \in SUBSET Sources

PathInit ==
  /\ failures = 0 /\ epoch = 0 /\ last_attributed = 0
  /\ first_source = NoSource /\ attributed = FALSE
  /\ open_until = "none" /\ probing = FALSE
  /\ ticket = [c \in Calls |-> "none"]
  /\ attempts = [c \in Calls |-> 0]
  /\ seen = {}

-----------------------------------------------------------------------------
(* PathHealth::admit: a closed path admits everyone; an open one admits one *)
(* probe at a time, and only once its interval has passed.                  *)

RefusingUntilDue == open_until = "waiting"

Refusing == open_until = "waiting" \/ (open_until = "due" /\ probing)

Admit(c) ==
  /\ ticket[c] = "none"
  /\ ~Refusing
  /\ LET probe == open_until = "due" IN
       /\ ticket' = [ticket EXCEPT ![c] = IF probe THEN "probe" ELSE "plain"]
       /\ probing' = (probing \/ probe)
  /\ attempts' = [attempts EXCEPT ![c] = 0]
  /\ UNCHANGED <<streak, open_until>>

(* Ticket::drop, at the end, the deadline or the cancellation of the call. *)

StillProbingForEver(c) == probing

StillProbing(c) == probing /\ ticket[c] # "probe"

Release(c) ==
  /\ ticket[c] # "none"
  /\ probing' = StillProbing(c)
  /\ ticket' = [ticket EXCEPT ![c] = "none"]
  /\ attempts' = [attempts EXCEPT ![c] = 0]
  /\ UNCHANGED <<streak, open_until>>

(* The probe interval passes. *)
Elapse ==
  /\ open_until = "waiting"
  /\ open_until' = "due"
  /\ UNCHANGED <<streak, probing, holders>>

-----------------------------------------------------------------------------
(* PathHealth::record.  The attempt is sent under the ticket of call c     *)
(* (UpstreamAttempt); a neutral outcome is not recorded at all.            *)

Attempt(c) ==
  /\ ticket[c] # "none"
  /\ attempts[c] < MaxAttempts
  /\ attempts' = [attempts EXCEPT ![c] = @ + 1]
  /\ UNCHANGED ticket

Healthy ==
  /\ failures' = 0
  /\ attributed' = FALSE
  /\ first_source' = NoSource
  /\ open_until' = "none"
  /\ seen' = {}
  /\ UNCHANGED <<epoch, last_attributed, probing>>

(* The state a fault starts from: a new streak forgets the last one. *)
NewStreak == failures = 0
Known     == ~NewStreak /\ attributed
First     == IF NewStreak THEN NoSource ELSE first_source

StreakNumber == IF NewStreak THEN epoch + 1 ELSE epoch

(* u32::saturating_add(1) *)
Increment(n) == IF n < MaxCount THEN n + 1 ELSE MaxCount

(* The fault of source s makes the streak the path's: it is anonymous, the *)
(* path does not tell its sources apart, or it is a second account's.      *)
OnRepeatedFault(s) == s = Anonymous \/ ~DistinctSources \/ First # NoSource

IsPathFault(s) ==
  s = Anonymous \/ ~DistinctSources \/ First \notin {NoSource, s}

(* Change::attributed is the streak's number exactly when this holds. *)
Attributes(s) == ~Known /\ IsPathFault(s)

OpensOnCount == failures' >= Threshold
Opens == attributed' /\ failures' >= Threshold

Fault(s) ==
  /\ NewStreak => epoch < MaxEpoch
  /\ epoch' = StreakNumber
  /\ failures' = Increment(failures)
  /\ first_source' = IF Known \/ IsPathFault(s) THEN First ELSE s
  /\ attributed' = (Known \/ IsPathFault(s))
  /\ last_attributed' = IF Attributes(s) THEN epoch' ELSE last_attributed
  /\ open_until' = IF Opens THEN "waiting" ELSE open_until
  /\ seen' = IF NewStreak THEN {s} ELSE seen \cup {s}
  /\ UNCHANGED probing

RecordNeutral(c) == Attempt(c) /\ UNCHANGED <<streak, circuit>>
RecordHealthy(c) == Attempt(c) /\ Healthy
RecordFault(c, s) == Attempt(c) /\ Fault(s)

-----------------------------------------------------------------------------
PathNext ==
  \/ \E c \in Calls : Admit(c) \/ Release(c) \/ RecordNeutral(c) \/ RecordHealthy(c)
  \/ \E c \in Calls, s \in Sources : RecordFault(c, s)
  \/ Elapse

(* A call ends by its deadline and time passes; nobody is obliged to call. *)
PathFairness ==
  /\ WF_pathVars(Elapse)
  /\ \A c \in Calls : WF_pathVars(Release(c))

PathSpec == PathInit /\ [][PathNext]_pathVars
FairPathSpec == PathSpec /\ PathFairness

-----------------------------------------------------------------------------
(* Properties.                                                             *)

(* The probing latch is set exactly while a probe ticket is out, and never *)
(* two are: PathHealth::admit lets "one probe at a time" through, also when *)
(* the path recovers and opens again while an old probe is still running.  *)
ProbeExclusive ==
  /\ probing <=> \E c \in Calls : ticket[c] = "probe"
  /\ \A c, d \in Calls : ticket[c] = "probe" /\ ticket[d] = "probe" => c = d

(* An open path always has its justification at hand: an attributed streak *)
(* of at least Threshold faults.  record() never leaves the path open after *)
(* the streak that opened it is gone.                                      *)
OpenJustified ==
  open_until # "none" => attributed /\ failures >= Threshold

(* A streak is the path's exactly when an anonymous call or a second       *)
(* account took part in it (any fault, on the SDK path): one account can   *)
(* fail as often as it likes without taking the path down for the others.  *)
AttributionExact ==
  attributed <=>
    /\ seen # {}
    /\ \/ ~DistinctSources
       \/ Anonymous \in seen
       \/ \E a, b \in seen : a # b

(* attributed(epoch) is asked after the fact by settle_charge: while a     *)
(* streak is attributed it is the one that last_attributed names.          *)
LastAttributedCurrent ==
  /\ last_attributed <= epoch
  /\ attributed => last_attributed = epoch
  /\ failures > 0 /\ ~attributed => last_attributed < epoch

(* A path that refuses calls does not refuse for ever: once time passes    *)
(* and the calls in progress end, it is closed again or ready to let a     *)
(* probe through, whatever late faults pushed its interval out.            *)
RefusalEnds == Refusing ~> ~Refusing
=============================================================================
