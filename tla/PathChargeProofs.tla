-------------------------- MODULE PathChargeProofs --------------------------
(***************************************************************************)
(* The safety properties of PathHealth for every set of accounts and calls *)
(* and every threshold; then, that the composition of path and account     *)
(* health implements the path alone, and that its charges are settled.     *)
(***************************************************************************)
EXTENDS PathCharge, TLAPS

-----------------------------------------------------------------------------
(* The path alone.                                                         *)

(* What record() keeps true of a streak, which the properties alone do not *)
(* say: an unattributed streak has exactly one source, first_source.       *)
StreakShape ==
  /\ failures = 0 <=> seen = {}
  /\ attributed => failures > 0
  /\ failures > 0 /\ ~attributed =>
       DistinctSources /\ first_source \in Accounts /\ seen = {first_source}

PathInv ==
  /\ PathTypeOK
  /\ StreakShape
  /\ ProbeExclusive
  /\ OpenJustified
  /\ AttributionExact
  /\ LastAttributedCurrent

USE SourceAssumption, CountAssumption DEF Sources

(* A saturating increment stays in range and is never zero. *)
LEMMA IncrementRange ==
  ASSUME NEW n \in 0..MaxCount
  PROVE  /\ Increment(n) \in 1..MaxCount
         /\ Increment(n) >= n
BY DEF Increment

LEMMA InitInv == PathInit => PathInv
<1> SUFFICES ASSUME PathInit PROVE PathInv
  OBVIOUS
<1> USE DEF PathInit
<1>1. PathTypeOK
  <2>1. attributed \in BOOLEAN /\ probing \in BOOLEAN
    BY Zenon
  <2>2. failures \in 0..MaxCount /\ epoch \in 0..MaxEpoch /\ last_attributed \in 0..MaxEpoch
    OBVIOUS
  <2>3. /\ first_source \in Accounts \cup {NoSource}
        /\ open_until \in {"none", "waiting", "due"}
        /\ seen \in SUBSET Sources
    OBVIOUS
  <2>4. /\ ticket \in [Calls -> {"none", "plain", "probe"}]
        /\ attempts \in [Calls -> 0..MaxAttempts]
    OBVIOUS
  <2> QED BY <2>1, <2>2, <2>3, <2>4, Zenon DEF PathTypeOK
<1>2. ProbeExclusive
  BY DEF ProbeExclusive
<1>3. StreakShape /\ OpenJustified /\ AttributionExact /\ LastAttributedCurrent
  BY DEF StreakShape, OpenJustified, AttributionExact, LastAttributedCurrent
<1> QED BY <1>1, <1>2, <1>3 DEF PathInv

(* Neither admission, release nor time touch the streak. *)
LEMMA AdmitInv ==
  ASSUME PathInv, NEW c \in Calls, Admit(c)
  PROVE  PathInv'
<1> USE DEF PathInv, Admit, streak
<1>1. PathTypeOK'
  BY DEF PathTypeOK
<1>2. ProbeExclusive'
  BY DEF PathTypeOK, ProbeExclusive, Refusing
<1>3. (StreakShape /\ OpenJustified /\ AttributionExact /\ LastAttributedCurrent)'
  BY DEF StreakShape, OpenJustified, AttributionExact, LastAttributedCurrent
<1> QED BY <1>1, <1>2, <1>3

LEMMA ReleaseInv ==
  ASSUME PathInv, NEW c \in Calls, Release(c)
  PROVE  PathInv'
<1> USE DEF PathInv, Release, streak, StillProbing
<1>1. PathTypeOK'
  BY DEF PathTypeOK
<1>2. ProbeExclusive'
  BY DEF PathTypeOK, ProbeExclusive
<1>3. (StreakShape /\ OpenJustified /\ AttributionExact /\ LastAttributedCurrent)'
  BY DEF StreakShape, OpenJustified, AttributionExact, LastAttributedCurrent
<1> QED BY <1>1, <1>2, <1>3

LEMMA ElapseInv ==
  ASSUME PathInv, Elapse
  PROVE  PathInv'
BY DEF PathInv, Elapse, streak, holders, PathTypeOK, StreakShape, ProbeExclusive,
       OpenJustified, AttributionExact, LastAttributedCurrent

LEMMA NeutralInv ==
  ASSUME PathInv, NEW c \in Calls, RecordNeutral(c)
  PROVE  PathInv'
BY DEF PathInv, RecordNeutral, Attempt, streak, circuit, PathTypeOK, StreakShape,
       ProbeExclusive, OpenJustified, AttributionExact, LastAttributedCurrent

LEMMA HealthyInv ==
  ASSUME PathInv, NEW c \in Calls, RecordHealthy(c)
  PROVE  PathInv'
<1> USE DEF PathInv, RecordHealthy, Attempt, Healthy, PathTypeOK
<1>1. PathTypeOK'
  <2>1. attributed' \in BOOLEAN /\ probing' \in BOOLEAN
    BY Zenon
  <2>2. /\ failures' \in 0..MaxCount
        /\ epoch' \in 0..MaxEpoch
        /\ last_attributed' \in 0..MaxEpoch
    OBVIOUS
  <2>3. /\ first_source' \in Accounts \cup {NoSource}
        /\ open_until' \in {"none", "waiting", "due"}
        /\ seen' \in SUBSET Sources
    OBVIOUS
  <2>4. /\ ticket' \in [Calls -> {"none", "plain", "probe"}]
        /\ attempts' \in [Calls -> 0..MaxAttempts]
    OBVIOUS
  <2> QED BY <2>1, <2>2, <2>3, <2>4, Zenon DEF PathTypeOK
<1>2. ProbeExclusive'
  BY DEF ProbeExclusive
<1>3. (StreakShape /\ OpenJustified /\ AttributionExact /\ LastAttributedCurrent)'
  BY DEF StreakShape, OpenJustified, AttributionExact, LastAttributedCurrent
<1> QED BY <1>1, <1>2, <1>3

LEMMA FaultInv ==
  ASSUME PathInv, NEW c \in Calls, NEW s \in Sources, RecordFault(c, s)
  PROVE  PathInv'
<1> USE DEF PathInv, RecordFault, Attempt, Fault, NewStreak, Known, First,
            StreakNumber, IsPathFault, Attributes, Opens
<1>1. failures' \in 1..MaxCount /\ failures' >= failures
  BY IncrementRange DEF PathTypeOK
<1>2. PathTypeOK'
  BY <1>1 DEF PathTypeOK
<1>3. ProbeExclusive'
  BY DEF ProbeExclusive
<1>4. OpenJustified'
  BY <1>1 DEF OpenJustified, PathTypeOK
<1>5. StreakShape'
  <2>1. failures' > 0 /\ seen' # {}
    BY <1>1
  <2>2. ASSUME ~attributed'
        PROVE  DistinctSources /\ first_source' = s /\ s \in Accounts /\ seen' = {s}
    <3>1. ~Known /\ ~IsPathFault(s)
      BY <2>2, Zenon
    <3>2. CASE NewStreak
      BY <3>1, <3>2
    <3>3. CASE ~NewStreak
      BY <3>1, <3>3 DEF StreakShape, PathTypeOK
    <3> QED BY <3>2, <3>3
  <2> QED BY <1>1, <2>1, <2>2 DEF StreakShape
<1>6. AttributionExact'
  <2>1. CASE Known
    BY <2>1 DEF AttributionExact
  <2>2. CASE NewStreak
    BY <2>2 DEF AttributionExact
  <2>3. CASE ~Known /\ ~NewStreak
    BY <2>3 DEF AttributionExact, StreakShape, PathTypeOK
  <2> QED BY <2>1, <2>2, <2>3
<1>7. LastAttributedCurrent'
  <2>1. attributed' <=> Known \/ IsPathFault(s)
    BY Zenon
  <2>2. CASE Known
    <3>1. epoch' = epoch /\ last_attributed' = last_attributed /\ last_attributed = epoch
      BY <2>2 DEF LastAttributedCurrent
    <3> QED BY <2>1, <2>2, <3>1 DEF LastAttributedCurrent, PathTypeOK
  <2>3. CASE ~Known /\ IsPathFault(s)
    <3>1. last_attributed' = epoch' /\ epoch' \in Int
      BY <2>3 DEF PathTypeOK
    <3> QED BY <2>1, <2>3, <3>1 DEF LastAttributedCurrent
  <2>4. CASE ~Known /\ ~IsPathFault(s)
    <3>1. last_attributed' = last_attributed /\ last_attributed < epoch'
      BY <2>4 DEF LastAttributedCurrent, PathTypeOK
    <3>2. epoch' \in Int /\ last_attributed' \in Int
      BY <1>2 DEF PathTypeOK
    <3> QED BY <2>1, <2>4, <3>1, <3>2 DEF LastAttributedCurrent
  <2> QED BY <2>2, <2>3, <2>4
<1> QED BY <1>2, <1>3, <1>4, <1>5, <1>6, <1>7

(* PathInv is inductive: every critical section of the path's mutex keeps it. *)
LEMMA StepInv == PathInv /\ [PathNext]_pathVars => PathInv'
<1> SUFFICES ASSUME PathInv, [PathNext]_pathVars PROVE PathInv'
  OBVIOUS
<1>1. CASE UNCHANGED pathVars
  BY <1>1 DEF pathVars, streak, circuit, holders, PathInv, PathTypeOK, StreakShape,
              ProbeExclusive, OpenJustified, AttributionExact, LastAttributedCurrent
<1>2. CASE PathNext
  BY <1>2, AdmitInv, ReleaseInv, NeutralInv, HealthyInv, FaultInv, ElapseInv DEF PathNext
<1> QED BY <1>1, <1>2

(* The counters, the circuit and the tickets keep their types under every  *)
(* sequence of admissions, records and drops; the u32 never overflows.     *)
THEOREM PathTypes == PathSpec => []PathTypeOK
<1>1. PathInv => PathTypeOK
  BY DEF PathInv
<1> QED BY <1>1, InitInv, StepInv, PTL DEF PathSpec

(* At most one probe of an open path is ever in flight, for any number of  *)
(* concurrent calls, and the latch is free again when it is dropped.       *)
THEOREM ProbesAreExclusive == PathSpec => []ProbeExclusive
<1>1. PathInv => ProbeExclusive
  BY DEF PathInv
<1> QED BY <1>1, InitInv, StepInv, PTL DEF PathSpec

(* The path is open only during an attributed streak of Threshold faults. *)
THEOREM OpenIsJustified == PathSpec => []OpenJustified
<1>1. PathInv => OpenJustified
  BY DEF PathInv
<1> QED BY <1>1, InitInv, StepInv, PTL DEF PathSpec

(* The path pays for a streak exactly when an anonymous call or two        *)
(* different accounts faulted in it.                                       *)
THEOREM AttributionIsExact == PathSpec => []AttributionExact
<1>1. PathInv => AttributionExact
  BY DEF PathInv
<1> QED BY <1>1, InitInv, StepInv, PTL DEF PathSpec

(* What settle_charge may rely on: an attributed streak is the one that    *)
(* last_attributed names.                                                  *)
THEOREM LastAttributedIsCurrent == PathSpec => []LastAttributedCurrent
<1>1. PathInv => LastAttributedCurrent
  BY DEF PathInv
<1> QED BY <1>1, InitInv, StepInv, PTL DEF PathSpec

-----------------------------------------------------------------------------
(* The path with the accounts.                                             *)

(* Every step of the composition is a step of the path or leaves it alone. *)
LEMMA PathStep == ChargeTypeOK /\ [ChargeNext]_chargeVars => [PathNext]_pathVars
<1> SUFFICES ASSUME ChargeTypeOK, [ChargeNext]_chargeVars PROVE [PathNext]_pathVars
  OBVIOUS
<1>1. CASE UNCHANGED chargeVars
  BY <1>1 DEF chargeVars
<1>2. ASSUME NEW c \in Calls, CallNext(c) PROVE [PathNext]_pathVars
  <2>1. CASE AdmitPath(c) \/ Deadline(c) \/ SendHealthy(c) \/ SendNeutral(c)
    BY <2>1 DEF AdmitPath, Deadline, SendHealthy, SendNeutral, PathNext
  <2>2. CASE End(c)
    BY <2>2 DEF End, DropTicket, PathNext
  <2>3. CASE SendFault(c)
    <3>1. SourceOf(c) \in Sources
      BY DEF SourceOf, ChargeTypeOK, ControlTypeOK, Sources
    <3> QED BY <2>3, <3>1 DEF SendFault, PathNext
  <2>4. CASE Select(c) \/ Enter(c)
    BY <2>4 DEF Select, Enter
  <2>5. CASE Charge(c) \/ Report(c) \/ Settle(c) \/ Withdraw(c)
    BY <2>5 DEF Charge, Report, Settle, Withdraw
  <2>6. CASE \E a \in Accounts : RevokeNext(c, a)
    BY <2>6 DEF RevokeNext
  <2> QED BY <1>2, <2>1, <2>2, <2>3, <2>4, <2>5, <2>6 DEF CallNext
<1>3. CASE \E a \in Accounts : CoolingEnds(a)
  BY <1>3 DEF CoolingEnds
<1>4. CASE ProbeDue
  BY <1>4 DEF ProbeDue, PathNext
<1> QED BY <1>1, <1>2, <1>3, <1>4 DEF ChargeNext

-----------------------------------------------------------------------------
USE ModeAssumption DEF Path, NoStreak

(* What the account invariants say, of one account. *)
Sound(a) ==
  /\ path_failures[a] <= count[a]
  /\ threshold_until[a] = "waiting" => count[a] >= Threshold

HealthOK == HealthTypeOK /\ \A a \in Accounts : Sound(a)

(* The operations of Health keep an account sound.  A charge raises both   *)
(* counters; a revocation lowers the whole by the part and lifts the       *)
(* cooldown if that brings it below the threshold.                         *)
LEMMA RevokeSound ==
  ASSUME HealthOK, NEW a \in Accounts, NEW k, Revoke(a, k)
  PROVE  HealthOK'
<1>1. Remaining(a) \in 0..MaxCount
  BY DEF HealthOK, HealthTypeOK, Remaining
<1>2. HealthTypeOK'
  BY <1>1 DEF HealthOK, HealthTypeOK, Revoke, Cooldown
<1>3. ASSUME NEW b \in Accounts PROVE Sound(b)'
  BY <1>1 DEF HealthOK, HealthTypeOK, Sound, Revoke, Cooldown
<1> QED BY <1>2, <1>3 DEF HealthOK

LEMMA TransientSound ==
  ASSUME HealthOK, NEW a \in Accounts, NEW k \in 0..MaxEpoch, Transient(a, k)
  PROVE  HealthOK'
<1>1. /\ Increment(count[a]) \in 1..MaxCount
      /\ Increment(count[a]) >= count[a]
  BY IncrementRange DEF HealthOK, HealthTypeOK
<1>2. Before(a, k) \in 0..MaxCount /\ Before(a, k) <= count[a]
  BY DEF HealthOK, HealthTypeOK, Sound, Before
<1>3. Increment(Before(a, k)) \in 1..MaxCount
  BY <1>2, IncrementRange
<1>4. Increment(Before(a, k)) <= Increment(count[a])
  BY <1>2 DEF Increment, HealthOK, HealthTypeOK
<1>5. HealthTypeOK'
  BY <1>1, <1>3 DEF HealthOK, HealthTypeOK, Transient
<1>6. ASSUME NEW b \in Accounts PROVE Sound(b)'
  BY <1>1, <1>3, <1>4 DEF HealthOK, HealthTypeOK, Sound, Transient
<1> QED BY <1>5, <1>6 DEF HealthOK

LEMMA SucceededSound ==
  ASSUME HealthOK, NEW a \in Accounts, Succeeded(a)
  PROVE  HealthOK'
BY DEF HealthOK, HealthTypeOK, Sound, Succeeded

LEMMA DeniedSound ==
  ASSUME HealthOK, NEW a \in Accounts, Denied(a)
  PROVE  HealthOK'
<1>1. Increment(count[a]) \in 1..MaxCount /\ Increment(count[a]) >= count[a]
  BY IncrementRange DEF HealthOK, HealthTypeOK
<1>2. HealthTypeOK'
  BY <1>1 DEF HealthOK, HealthTypeOK, Denied
<1>3. ASSUME NEW b \in Accounts PROVE Sound(b)'
  BY <1>1 DEF HealthOK, HealthTypeOK, Sound, Denied
<1> QED BY <1>2, <1>3 DEF HealthOK

LEMMA SignalSound ==
  ASSUME HealthOK, NEW a \in Accounts, Signal(a)
  PROVE  HealthOK'
BY DEF HealthOK, HealthTypeOK, Sound, Signal

-----------------------------------------------------------------------------
(* The control state of the calls; an idle one has left nothing behind. *)
ControlOK ==
  /\ ControlTypeOK
  /\ \A c \in Calls : /\ LeaseHeld(c) => lease[c] \in Accounts
                      /\ pc[c] = "idle" => ~LeaseHeld(c)

LEMMA SendControl ==
  ASSUME PathInv, ControlOK, NEW c \in Calls,
         SendHealthy(c) \/ SendNeutral(c) \/ SendFault(c)
  PROVE  ControlOK'
<1> USE DEF ControlOK, ControlTypeOK, LeaseHeld
<1>1. ASSUME NEW said \in {"healthy", "neutral", "fault"}, pc[c] = "leased", Proceed(c, said)
      PROVE  ControlOK'
  <2>1. PICK next \in {"leased", "charging", "ending"} :
          /\ next # "leased" => c \in session
          /\ Sent(c, said, next) /\ pc' = [pc EXCEPT ![c] = next] /\ UNCHANGED <<mark, todo, blamed>>
    BY <1>1 DEF Proceed, After
  <2>2. /\ outcome' = [outcome EXCEPT ![c] = IF next = "charging" THEN said ELSE "none"]
        /\ UNCHANGED <<lease, session>>
    BY <2>1 DEF Sent
  <2>3. ControlTypeOK'
    BY <2>1, <2>2
  <2>4. ASSUME NEW d \in Calls, LeaseHeld(d)' PROVE lease'[d] \in Accounts
    BY <2>1, <2>2, <2>4
  <2>5. ASSUME NEW d \in Calls, pc'[d] = "idle" PROVE ~LeaseHeld(d)'
    BY <2>1, <2>2, <2>5
  <2> QED BY <2>3, <2>4, <2>5
<1>2. CASE SendHealthy(c) \/ SendNeutral(c)
  BY <1>1, <1>2 DEF SendHealthy, SendNeutral
<1>3. CASE SendFault(c) /\ ~Attributes(SourceOf(c))
  BY <1>1, <1>3 DEF SendFault
<1> USE DEF After, Sent
<1>4. CASE SendFault(c) /\ Attributes(SourceOf(c))
  <2>1. epoch' \in 1..MaxEpoch
    BY <1>4 DEF SendFault, RecordFault, Fault, StreakNumber, NewStreak, PathInv,
                PathTypeOK, LastAttributedCurrent, Attributes, Known
  <2>2. PICK next \in After(c, "fault") :
          /\ Sent(c, "fault", next)
          /\ pc' = [pc EXCEPT ![c] = "revoking"]
          /\ mark' = [mark EXCEPT ![c] = epoch']
          /\ todo' = [todo EXCEPT ![c] = Accounts]
          /\ blamed' = blamed \cup {epoch'}
    BY <1>4 DEF SendFault
  <2>3. ControlTypeOK'
    BY <2>1, <2>2
  <2>4. ASSUME NEW d \in Calls, LeaseHeld(d)' PROVE lease'[d] \in Accounts
    BY <2>2, <2>4
  <2>5. ASSUME NEW d \in Calls, pc'[d] = "idle" PROVE ~LeaseHeld(d)'
    BY <2>2, <2>5
  <2> QED BY <2>3, <2>4, <2>5
<1> QED BY <1>2, <1>3, <1>4

LEMMA CallControl ==
  ASSUME PathInv, ControlOK, NEW c \in Calls, CallNext(c)
  PROVE  ControlOK'
<1> USE DEF ControlOK, ControlTypeOK, LeaseHeld
<1>1. CASE Select(c)
  <2>1. PICK s \in Sources : lease' = [lease EXCEPT ![c] = s]
    BY <1>1 DEF Select
  <2>2. /\ pc' = [pc EXCEPT ![c] = "leased"]
        /\ UNCHANGED <<session, outcome, mark, todo, blamed>>
    BY <1>1 DEF Select
  <2>3. ControlTypeOK'
    BY <2>1, <2>2
  <2>4. ASSUME NEW d \in Calls, LeaseHeld(d)' PROVE d # c /\ lease'[d] \in Accounts
    BY <1>1, <2>1, <2>2, <2>4 DEF Select
  <2>5. ASSUME NEW d \in Calls, pc'[d] = "idle" PROVE ~LeaseHeld(d)'
    BY <2>2, <2>5
  <2> QED BY <2>3, <2>4, <2>5
<1>2. CASE Enter(c) \/ AdmitPath(c)
  BY <1>2 DEF Enter, AdmitPath, control
<1>3. CASE End(c)
  BY <1>3 DEF End, DropTicket
<1>4. CASE SendHealthy(c) \/ SendNeutral(c) \/ SendFault(c)
  BY <1>4, SendControl
<1>5. CASE Deadline(c)
  BY <1>5 DEF Deadline
<1>6. CASE Charge(c)
  <2>1. Payer \in Path..MaxEpoch
    BY DEF Payer, PathInv, PathTypeOK
  <2> QED BY <1>6, <2>1 DEF Charge
<1>7. CASE Report(c)
  BY <1>7 DEF Report
<1>8. CASE Settle(c) \/ Withdraw(c)
  BY <1>8 DEF Settle, Withdraw
<1>9. CASE \E a \in Accounts : RevokeNext(c, a)
  BY <1>9 DEF RevokeNext, Resume
<1> QED BY <1>1, <1>2, <1>3, <1>4, <1>5, <1>6, <1>7, <1>8, <1>9 DEF CallNext

LEMMA CallHealth ==
  ASSUME HealthOK, ControlOK, NEW c \in Calls, CallNext(c)
  PROVE  HealthOK'
<1>1. CASE UNCHANGED health
  BY <1>1 DEF HealthOK, HealthTypeOK, Sound, health
<1>2. CASE Report(c)
  <2> DEFINE a == lease[c]
  <2>1. a \in Accounts /\ mark[c] \in Path..MaxEpoch
    BY <1>2 DEF Report, ControlOK, ControlTypeOK, LeaseHeld
  <2>2. CASE PathFaultResult(a, mark[c]) /\ mark[c] # Path
    <3>1. mark[c] \in 0..MaxEpoch
      BY <2>1, <2>2
    <3> QED BY <2>1, <2>2, <3>1, TransientSound DEF PathFaultResult
  <2>3. CASE Transient(a, NoStreak)
    BY <2>1, <2>3, TransientSound
  <2>4. CASE Succeeded(a) \/ Denied(a) \/ Signal(a)
    BY <2>1, <2>4, SucceededSound, DeniedSound, SignalSound
  <2> QED BY <1>1, <1>2, <2>2, <2>3, <2>4 DEF Report, Result, PathFaultResult
<1>3. CASE Withdraw(c)
  BY <1>3, RevokeSound DEF Withdraw, ControlOK, LeaseHeld
<1>4. CASE \E a \in Accounts : RevokeNext(c, a)
  BY <1>4, RevokeSound DEF RevokeNext
<1>5. CASE SendHealthy(c) \/ SendNeutral(c) \/ SendFault(c)
  BY <1>1, <1>5 DEF SendHealthy, SendNeutral, SendFault, Proceed, Sent
<1>6. CASE Select(c) \/ Enter(c) \/ AdmitPath(c) \/ End(c) \/ Deadline(c) \/ Charge(c) \/ Settle(c)
  BY <1>1, <1>6 DEF Select, Enter, AdmitPath, End, Deadline, Charge, Settle
<1> QED BY <1>2, <1>3, <1>4, <1>5, <1>6 DEF CallNext

-----------------------------------------------------------------------------
(* LatestStreakSettled, one account at a time. *)
Charged(a) == path_failures[a] > 0 /\ path_streak[a] = last_attributed
Settled(a) == Charged(a) => \E c \in Calls : Owes(c, a)

(* A step after which nothing more is charged than before, and after which *)
(* whoever owed a settlement still does, keeps every account settled.      *)
LEMMA StaysSettled ==
  ASSUME NEW a, Settled(a), Charged(a)' => Charged(a),
         \A d \in Calls : Owes(d, a) => Owes(d, a)'
  PROVE  Settled(a)'
BY DEF Settled

LEMMA SendSettled ==
  ASSUME PathInv, HealthOK, ControlOK, NEW a \in Accounts, Settled(a), NEW c \in Calls,
         SendHealthy(c) \/ SendNeutral(c) \/ SendFault(c)
  PROVE  Settled(a)'
<1>1. pc[c] = "leased" /\ UNCHANGED <<path_failures, path_streak, lease>>
  BY DEF SendHealthy, SendNeutral, SendFault, Proceed, Sent, health
<1>2. CASE SendFault(c) /\ Attributes(SourceOf(c))
  <2>1. mark' = [mark EXCEPT ![c] = epoch'] /\ last_attributed' = epoch'
    BY <1>2 DEF SendFault, RecordFault, Fault
  <2>2. /\ pc' = [pc EXCEPT ![c] = "revoking"]
        /\ todo' = [todo EXCEPT ![c] = Accounts]
    BY <1>2 DEF SendFault
  <2> QED BY <2>1, <2>2 DEF Settled, Owes, ControlOK, ControlTypeOK
<1>3. CASE ~(SendFault(c) /\ Attributes(SourceOf(c)))
  <2>1. last_attributed' = last_attributed
    BY <1>3 DEF SendHealthy, SendNeutral, SendFault, RecordHealthy, Healthy,
                RecordNeutral, streak, RecordFault, Fault
  <2>2. \E next : pc' = [pc EXCEPT ![c] = next]
    BY <1>3 DEF SendHealthy, SendNeutral, SendFault, Proceed
  <2>3. UNCHANGED <<mark, todo>>
    BY <1>3 DEF SendHealthy, SendNeutral, SendFault, Proceed
  <2>4. \A d \in Calls : Owes(d, a) => Owes(d, a)'
    BY <1>1, <2>1, <2>2, <2>3 DEF Owes, ControlOK, ControlTypeOK
  <2> QED BY <1>1, <2>1, <2>4, StaysSettled DEF Charged
<1> QED BY <1>2, <1>3

LEMMA ReportSettled ==
  ASSUME PathInv, HealthOK, ControlOK, NEW a \in Accounts, Settled(a), NEW c \in Calls,
         Report(c)
  PROVE  Settled(a)'
<1>1. /\ pc[c] = "applying" /\ lease[c] \in Accounts /\ mark[c] \in Path..MaxEpoch
      /\ pc' = [pc EXCEPT ![c] = IF Settles(c) THEN "settling" ELSE "ending"]
      /\ UNCHANGED <<pathVars, lease, mark, todo>>
  BY DEF Report, ControlOK, ControlTypeOK, LeaseHeld
<1>2. last_attributed' = last_attributed
  BY <1>1 DEF pathVars, streak
<1>3. \A d \in Calls : Owes(d, a) => Owes(d, a)'
  BY <1>1, <1>2 DEF Owes, ControlOK, ControlTypeOK
<1>4. CASE Transient(lease[c], mark[c]) /\ mark[c] > 0 /\ lease[c] = a
  <2>1. path_streak'[a] = mark[c]
    BY <1>4 DEF Transient, HealthOK, HealthTypeOK
  <2>2. pc'[c] = "settling" /\ mark'[c] = mark[c] /\ lease'[c] = a
    BY <1>1, <1>4 DEF Settles, ControlOK, ControlTypeOK
  <2> QED BY <1>2, <2>1, <2>2 DEF Settled, Charged, Owes
<1>5. CASE ~(Transient(lease[c], mark[c]) /\ mark[c] > 0 /\ lease[c] = a)
  <2>1. path_streak'[a] = path_streak[a] /\ (path_failures'[a] > 0 => path_failures[a] > 0)
    <3>1. CASE PathFaultResult(lease[c], mark[c])
      <4>1. CASE mark[c] = Path
        BY <3>1, <4>1 DEF PathFaultResult, health
      <4>2. CASE mark[c] = NoStreak
        BY <3>1, <4>2 DEF PathFaultResult, Transient, health
      <4>3. CASE mark[c] > 0
        <5> HIDE DEF Path, NoStreak
        <5>0. mark[c] # Path /\ mark[c] # NoStreak
          BY <4>3 DEF Path, NoStreak
        <5>1. Transient(lease[c], mark[c]) /\ lease[c] # a
          BY <1>5, <3>1, <4>3, <5>0, Zenon DEF PathFaultResult
        <5>2. PICK x : path_failures' = [path_failures EXCEPT ![lease[c]] = x]
          BY <5>0, <5>1, Zenon DEF Transient
        <5>3. path_streak' = [path_streak EXCEPT ![lease[c]] = mark[c]]
          BY <5>0, <5>1, Zenon DEF Transient
        <5>4. /\ path_failures \in [Accounts -> 0..MaxCount]
              /\ path_streak \in [Accounts -> 0..MaxEpoch]
          BY DEF HealthOK, HealthTypeOK
        <5>5. path_failures'[a] = path_failures[a]
          BY <5>1, <5>2, <5>4, Zenon
        <5>6. path_streak'[a] = path_streak[a]
          BY <5>1, <5>3, <5>4, Zenon
        <5>7. path_failures'[a] > 0 => path_failures[a] > 0
          BY <5>5, Zenon
        <5> QED BY <5>6, <5>7, Zenon
      <4>4. mark[c] = Path \/ mark[c] = NoStreak \/ mark[c] > 0
        <5>1. mark[c] \in Path..MaxEpoch
          BY <1>1
        <5>2. \A n \in Path..MaxEpoch : n = Path \/ n = NoStreak \/ n > 0
          OBVIOUS
        <5> QED BY <5>1, <5>2, Zenon
      <4> QED BY <4>1, <4>2, <4>3, <4>4, Zenon
    <3>2. CASE UNCHANGED health
      BY <3>2 DEF health
    <3>3. CASE Succeeded(lease[c])
      <4>1. path_failures' = [path_failures EXCEPT ![lease[c]] = 0]
        BY <3>3 DEF Succeeded
      <4>2. path_failures \in [Accounts -> 0..MaxCount]
        BY DEF HealthOK, HealthTypeOK
      <4>3. path_streak' = path_streak
        BY <3>3 DEF Succeeded
      <4> QED BY <4>1, <4>2, <4>3
    <3>4. CASE Transient(lease[c], NoStreak)
      BY <3>4 DEF Transient
    <3>5. CASE Denied(lease[c]) \/ Signal(lease[c])
      BY <3>5 DEF Denied, Signal
    <3> QED BY <3>1, <3>2, <3>3, <3>4, <3>5 DEF Report, Result
  <2> QED BY <1>2, <1>3, <2>1, StaysSettled DEF Charged
<1> QED BY <1>4, <1>5

LEMMA RevokeSettled ==
  ASSUME HealthOK, NEW a \in Accounts, NEW b \in Accounts, NEW k, Revoke(b, k),
         last_attributed' = last_attributed
  PROVE  /\ Charged(a)' => Charged(a)
         /\ a = b /\ k = last_attributed => ~Charged(a)'
BY DEF HealthOK, HealthTypeOK, Revoke, Revocable, Charged

LEMMA CallSettled ==
  ASSUME PathInv, HealthOK, ControlOK, NEW a \in Accounts, Settled(a), NEW c \in Calls,
         CallNext(c)
  PROVE  Settled(a)'
<1>1. CASE SendHealthy(c) \/ SendNeutral(c) \/ SendFault(c)
  BY <1>1, SendSettled
<1>2. CASE Report(c)
  BY <1>2, ReportSettled
<1>3. CASE Withdraw(c)
  <2>1. last_attributed' = last_attributed
    BY <1>3 DEF Withdraw, pathVars, streak
  <2>2. lease[c] \in Accounts /\ Revoke(lease[c], mark[c])
    BY <1>3 DEF Withdraw, ControlOK, LeaseHeld
  <2>3. CASE lease[c] = a /\ mark[c] = last_attributed
    BY <2>1, <2>2, <2>3, RevokeSettled DEF Settled
  <2>4. CASE ~(lease[c] = a /\ mark[c] = last_attributed)
    <3>1. \A d \in Calls : Owes(d, a) => Owes(d, a)'
      BY <1>3, <2>1, <2>4 DEF Withdraw, Owes, ControlOK, ControlTypeOK
    <3> QED BY <2>1, <2>2, <3>1, RevokeSettled, StaysSettled
  <2> QED BY <2>3, <2>4
<1>4. ASSUME NEW b \in Accounts, RevokeNext(c, b) PROVE Settled(a)'
  <2>1. last_attributed' = last_attributed
    BY <1>4 DEF RevokeNext, pathVars, streak
  <2>2. Revoke(b, mark[c])
    BY <1>4 DEF RevokeNext
  <2>3. CASE b = a /\ mark[c] = last_attributed
    BY <2>1, <2>2, <2>3, RevokeSettled DEF Settled
  <2>4. CASE ~(b = a /\ mark[c] = last_attributed)
    <3>1. \A d \in Calls : Owes(d, a) => Owes(d, a)'
      BY <1>4, <2>1, <2>4 DEF RevokeNext, Owes, ControlOK, ControlTypeOK
    <3> QED BY <2>1, <2>2, <3>1, RevokeSettled, StaysSettled
  <2> QED BY <2>3, <2>4
<1>5. CASE Settle(c)
  <2>1. last_attributed' = last_attributed
    BY <1>5 DEF Settle, pathVars, streak
  <2>2. \A d \in Calls : Owes(d, a) => Owes(d, a)'
    BY <1>5, <2>1 DEF Settle, Owes, ControlOK, ControlTypeOK
  <2> QED BY <1>5, <2>1, <2>2, StaysSettled DEF Settle, Charged, health
<1>6. CASE Select(c) \/ Enter(c) \/ AdmitPath(c) \/ End(c) \/ Deadline(c) \/ Charge(c)
  <2>1. UNCHANGED <<last_attributed, path_failures, path_streak, todo>>
    BY <1>6 DEF Select, Enter, AdmitPath, Admit, End, DropTicket, Deadline, Release, Charge,
                pathVars, streak, health, control
  <2>2. pc[c] \in {"idle", "leased", "charging", "ending"}
    BY <1>6 DEF Select, Enter, AdmitPath, End, Deadline, Charge
  <2>3. \A d \in Calls \ {c} :
          pc'[d] = pc[d] /\ mark'[d] = mark[d] /\ lease'[d] = lease[d]
    <3>1. CASE Select(c)
      BY <3>1 DEF Select, ControlOK, ControlTypeOK
    <3>2. CASE Enter(c) \/ AdmitPath(c) \/ End(c) \/ Deadline(c) \/ Charge(c)
      BY <3>2 DEF Enter, AdmitPath, End, Deadline, Charge, control, ControlOK, ControlTypeOK
    <3> QED BY <1>6, <3>1, <3>2
  <2>4. \A d \in Calls : Owes(d, a) => Owes(d, a)'
    BY <2>1, <2>2, <2>3 DEF Owes
  <2> QED BY <2>1, <2>4, StaysSettled DEF Charged
<1> QED BY <1>1, <1>2, <1>3, <1>4, <1>5, <1>6 DEF CallNext

-----------------------------------------------------------------------------
(* The inductive invariant: the path's own, and what accounts and calls add. *)
ChargeInv == PathInv /\ HealthOK /\ ControlOK /\ \A a \in Accounts : Settled(a)

LEMMA ChargeInitInv == ChargeInit => ChargeInv
<1> SUFFICES ASSUME ChargeInit PROVE ChargeInv
  OBVIOUS
<1>1. PathInv
  BY InitInv DEF ChargeInit
<1>2. HealthOK
  BY DEF ChargeInit, HealthOK, HealthTypeOK, Sound
<1>3. ControlOK
  BY DEF ChargeInit, ControlOK, ControlTypeOK, LeaseHeld
<1>4. \A a \in Accounts : Settled(a)
  BY DEF ChargeInit, Settled, Charged
<1> QED BY <1>1, <1>2, <1>3, <1>4 DEF ChargeInv

LEMMA InvMeaning ==
  ChargeInv => ChargeTypeOK /\ LatestStreakSettled /\ ShareBounded /\ CooldownJustified
BY DEF ChargeInv, PathInv, HealthOK, Sound, ControlOK, Settled, Charged, ChargeTypeOK,
       LatestStreakSettled, ShareBounded, CooldownJustified

LEMMA ChargeStepInv == ChargeInv /\ [ChargeNext]_chargeVars => ChargeInv'
<1> SUFFICES ASSUME ChargeInv, [ChargeNext]_chargeVars PROVE ChargeInv'
  OBVIOUS
<1>1. PathInv'
  BY InvMeaning, PathStep, StepInv DEF ChargeInv
<1>2. ASSUME NEW c \in Calls, CallNext(c) PROVE ChargeInv'
  BY <1>1, <1>2, CallHealth, CallControl, CallSettled DEF ChargeInv
<1>3. ASSUME NEW b \in Accounts, CoolingEnds(b) PROVE ChargeInv'
  <2> USE <1>3 DEF CoolingEnds, control, pathVars, streak
  <2>1. HealthOK'
    BY DEF ChargeInv, HealthOK, HealthTypeOK, Sound
  <2>2. ControlOK'
    BY DEF ChargeInv, ControlOK, ControlTypeOK, LeaseHeld
  <2>3. ASSUME NEW a \in Accounts PROVE Settled(a)'
    BY DEF ChargeInv, Settled, Charged, Owes
  <2> QED BY <1>1, <2>1, <2>2, <2>3 DEF ChargeInv
<1>4. CASE ProbeDue \/ UNCHANGED chargeVars
  <2>1. UNCHANGED <<health, control, blamed, last_attributed>>
    BY <1>4 DEF ProbeDue, Elapse, chargeVars, pathVars, streak
  <2>2. HealthOK'
    BY <2>1 DEF ChargeInv, HealthOK, HealthTypeOK, Sound, health
  <2>3. ControlOK'
    BY <2>1 DEF ChargeInv, ControlOK, ControlTypeOK, LeaseHeld, control
  <2>4. ASSUME NEW a \in Accounts PROVE Settled(a)'
    BY <2>1 DEF ChargeInv, Settled, Charged, Owes, health, control
  <2> QED BY <1>1, <2>2, <2>3, <2>4 DEF ChargeInv
<1> QED BY <1>2, <1>3, <1>4 DEF ChargeNext

LEMMA ChargeInvariance == ChargeSpec => []ChargeInv
BY ChargeInitInv, ChargeStepInv, PTL DEF ChargeSpec

-----------------------------------------------------------------------------
(* Calls that lease, send, report and settle use the path as PathHealth    *)
(* says, so everything proved of the path holds of it here.                *)
THEOREM ChargeImplementsPath == ChargeSpec => PathSpec
<1>1. ChargeInit => PathInit
  BY DEF ChargeInit
<1>2. ChargeInv => ChargeTypeOK
  BY InvMeaning
<1> QED BY <1>1, <1>2, ChargeInvariance, PathStep, PTL DEF ChargeSpec, PathSpec

(* No charge of the latest attributed streak is forgotten between record,  *)
(* charge(), the report and settle_charge, however calls interleave.       *)
THEOREM LatestStreakIsSettled == ChargeSpec => []LatestStreakSettled
<1>1. ChargeInv => LatestStreakSettled
  BY InvMeaning
<1> QED BY <1>1, ChargeInvariance, PTL

(* revoke_path_failures never withdraws more than was charged. *)
THEOREM ShareIsBounded == ChargeSpec => []ShareBounded
<1>1. ChargeInv => ShareBounded
  BY InvMeaning
<1> QED BY <1>1, ChargeInvariance, PTL

(* The threshold cooldown runs only with Threshold failures on the account. *)
THEOREM CooldownIsJustified == ChargeSpec => []CooldownJustified
<1>1. ChargeInv => CooldownJustified
  BY InvMeaning
<1> QED BY <1>1, ChargeInvariance, PTL
=============================================================================
