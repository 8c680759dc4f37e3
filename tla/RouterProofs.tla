----------------------------- MODULE RouterProofs ---------------------------
(***************************************************************************)
(* Router::call, for any number of callers, keys, calls and targets: the   *)
(* execution that equal reads share (SingleFlight), and the routed         *)
(* execution itself (NodeRouting), which runs an authenticated read on one *)
(* node at most, lets one probe at a time through, and cools a target down *)
(* for a reason.                                                           *)
(***************************************************************************)
EXTENDS NodeRouting, SingleFlight, TLAPS

-----------------------------------------------------------------------------
(* Shared executions.                                                      *)

(* A caller's cell belongs to a leader with the same key. *)
CellShape ==
  \A c \in Callers :
    /\ stage[c] = "new" <=> cell[c] = None
    /\ stage[c] # "new" => /\ key[c] \in Keys
                        /\ cell[c] \in Callers
                        /\ cell[cell[c]] = cell[c]
                        /\ key[cell[c]] = key[c]

(* The permit of a cell is with one of its callers, and nowhere once the   *)
(* cell has a value.                                                       *)
Holding == {"granted", "fetching", "fetched", "publishing", "handing"}

HolderShape ==
  \A x \in Callers :
    /\ \A c \in Callers : holder[x] = c <=> cell[c] = x /\ stage[c] \in Holding
    /\ value[x] # None => holder[x] = None

(* Where a caller stands. *)
StageShape ==
  \A c \in Callers :
    /\ stage[c] = "published" => value[cell[c]] # None
    /\ stage[c] = "fetched" => Leader(c)
    /\ stage[c] = "releasing" => Leader(c)
    /\ stage[c] \in {"releasing", "handing"} => c \in lost
    /\ stage[c] = "done" /\ Leader(c) => c \in lost \/ value[c] # None
    /\ value[c] = c => stage[c] \in {"published", "done"}
    /\ stage[c] = "new" => value[c] = None

FlightInv ==
  /\ FlightTypeOK
  /\ CellShape
  /\ HolderShape
  /\ StageShape
  /\ EntriesAreLeaders

USE NoneAssumption DEF Holding, FlightStages

LEMMA FlightInitInv == FlightInit => FlightInv
BY DEF FlightInit, FlightInv, FlightTypeOK, CellShape, HolderShape, StageShape,
       EntriesAreLeaders, Registered, Leader

(* Two fetches of a key in cells whose leaders are alive are one fetch: an *)
(* unpublished cell's leader is registered, and a key has one entry.       *)
LEMMA InvShared == FlightInv => SharedExecution
<1> SUFFICES ASSUME FlightInv, NEW c \in Callers, NEW d \in Callers,
                    stage[c] = "fetching", stage[d] = "fetching", key[c] = key[d],
                    cell[c] \notin lost, cell[d] \notin lost
             PROVE  c = d
  BY DEF SharedExecution
<1>1. ASSUME NEW e \in Callers, stage[e] = "fetching", cell[e] \notin lost
      PROVE  cell[e] \in Callers /\ holder[cell[e]] = e /\ inflight[key[e]] = cell[e]
  <2>1. cell[e] \in Callers /\ holder[cell[e]] = e /\ value[cell[e]] = None
    BY <1>1 DEF FlightInv, CellShape, HolderShape
  <2>2. Leader(cell[e]) /\ key[cell[e]] = key[e] /\ key[e] \in Keys
    BY <1>1 DEF FlightInv, CellShape, Leader
  <2>3. stage[cell[e]] \notin {"new", "done", "handing", "releasing", "published"}
    BY <1>1, <2>1, <2>2 DEF FlightInv, StageShape, CellShape, Leader
  <2>4. stage[cell[e]] # "publishing"
    BY <1>1, <2>1, <2>2 DEF FlightInv, HolderShape, Leader
  <2>5. Registered(cell[e])
    BY <2>1, <2>2, <2>3, <2>4 DEF Registered, FlightInv, FlightTypeOK
  <2> QED BY <2>1, <2>2, <2>5 DEF FlightInv, EntriesAreLeaders
<1> QED BY <1>1

-----------------------------------------------------------------------------
(* Every step keeps the invariant. *)
LEMMA JoinInv ==
  ASSUME FlightInv, NEW c \in Callers, NEW k \in Keys, Join(c, k)
  PROVE  FlightInv'
<1> DEFINE x == Found(c, k)
<1> USE DEF FlightInv, Join, Enter
<1>1. /\ x \in Callers
      /\ x # c => inflight[k] = x /\ Leader(x) /\ key[x] = k /\ stage[x] # "new"
      /\ x = c => inflight[k] = None
  BY DEF Found, FlightTypeOK, EntriesAreLeaders, Registered, CellShape, Leader
<1>2. FlightTypeOK'
  BY <1>1 DEF FlightTypeOK
<1>3. CellShape'
  BY <1>1 DEF CellShape, FlightTypeOK, Leader
<1>4. HolderShape'
  BY <1>1 DEF HolderShape, FlightTypeOK, CellShape
<1>5. StageShape'
  BY <1>1 DEF StageShape, FlightTypeOK, CellShape, Leader
<1>6. EntriesAreLeaders'
  BY <1>1 DEF EntriesAreLeaders, Registered, Leader, FlightTypeOK, CellShape, StageShape
<1> QED BY <1>2, <1>3, <1>4, <1>5, <1>6

LEMMA PollInv ==
  ASSUME FlightInv, NEW c \in Callers, Poll(c)
  PROVE  FlightInv'
<1> USE DEF FlightInv, Poll, Enter
<1>1. cell[c] \in Callers
  BY DEF CellShape
<1>2. FlightTypeOK'
  BY <1>1 DEF FlightTypeOK
<1>3. CellShape'
  BY DEF CellShape, FlightTypeOK
<1>4. HolderShape'
  BY <1>1 DEF HolderShape, FlightTypeOK
<1>5. StageShape'
  BY <1>1 DEF StageShape, FlightTypeOK, Leader, CellShape
<1>6. EntriesAreLeaders'
  BY <1>1 DEF EntriesAreLeaders, Registered, Leader, FlightTypeOK, StageShape
<1> QED BY <1>2, <1>3, <1>4, <1>5, <1>6

LEMMA FetchInv ==
  ASSUME FlightInv, NEW c \in Callers, Fetch(c) \/ Fetched(c)
  PROVE  FlightInv'
<1> USE DEF FlightInv, Fetch, Fetched, Enter
<1>1. FlightTypeOK'
  BY DEF FlightTypeOK
<1>2. CellShape'
  BY DEF CellShape, FlightTypeOK
<1>3. HolderShape'
  BY DEF HolderShape, FlightTypeOK
<1>4. StageShape'
  BY DEF StageShape, FlightTypeOK, Leader
<1>5. EntriesAreLeaders'
  BY DEF EntriesAreLeaders, Registered, Leader, FlightTypeOK
<1> QED BY <1>1, <1>2, <1>3, <1>4, <1>5

LEMMA ReleaseInv ==
  ASSUME FlightInv, NEW c \in Callers, Release(c) \/ ReleaseLast(c)
  PROVE  FlightInv'
<1> USE DEF FlightInv, Release, ReleaseLast, Without, Enter
<1>1. Leader(c) /\ Registered(c) /\ key[c] \in Keys /\ inflight[key[c]] = c
  BY DEF StageShape, CellShape, Registered, EntriesAreLeaders
<1>2. FlightTypeOK'
  BY <1>1 DEF FlightTypeOK, StageShape
<1>3. CellShape'
  BY DEF CellShape, FlightTypeOK
<1>4. HolderShape'
  BY DEF HolderShape, FlightTypeOK
<1>5. StageShape'
  BY DEF StageShape, FlightTypeOK, Leader
<1>6. EntriesAreLeaders'
  BY <1>1 DEF EntriesAreLeaders, Registered, Leader, FlightTypeOK
<1> QED BY <1>2, <1>3, <1>4, <1>5, <1>6

LEMMA PublishInv ==
  ASSUME FlightInv, NEW c \in Callers, Publish(c)
  PROVE  FlightInv'
<1> USE DEF FlightInv, Publish, Enter
<1>1. cell[c] \in Callers /\ holder[cell[c]] = c
  BY DEF CellShape, HolderShape
<1>2. FlightTypeOK'
  BY <1>1 DEF FlightTypeOK
<1>3. CellShape'
  BY DEF CellShape, FlightTypeOK
<1>4. HolderShape'
  BY <1>1 DEF HolderShape, FlightTypeOK
<1>5. StageShape'
  BY <1>1 DEF StageShape, FlightTypeOK, Leader, CellShape
<1>6. ASSUME NEW d \in Callers PROVE Registered(d)' <=> Registered(d)
  <2>1. value[cell[c]] = None
    BY <1>1 DEF HolderShape
  <2>2. Leader(d) /\ d # c => stage'[d] = stage[d] /\ (stage[d] = "published" => value'[d] = value[d])
    BY <1>1, <2>1 DEF FlightTypeOK, Leader, StageShape
  <2>3. Leader(c) => value'[c] = c
    BY <1>1 DEF FlightTypeOK, Leader
  <2> QED BY <2>2, <2>3 DEF Registered, Leader, FlightTypeOK
<1>7. EntriesAreLeaders'
  BY <1>6 DEF EntriesAreLeaders
<1> QED BY <1>2, <1>3, <1>4, <1>5, <1>7

LEMMA ResolveInv ==
  ASSUME FlightInv, NEW c \in Callers, Resolve(c)
  PROVE  FlightInv'
<1> USE DEF FlightInv, Resolve, Without, Enter
<1>1. cell[c] \in Callers /\ key[c] \in Keys
  BY DEF CellShape
<1>2. FlightTypeOK'
  BY <1>1 DEF FlightTypeOK
<1>3. CellShape'
  BY DEF CellShape, FlightTypeOK
<1>4. HolderShape'
  BY DEF HolderShape, FlightTypeOK
<1>5. StageShape'
  BY <1>1 DEF StageShape, FlightTypeOK, Leader
<1>6. EntriesAreLeaders'
  BY <1>1 DEF EntriesAreLeaders, Registered, Leader, FlightTypeOK
<1> QED BY <1>2, <1>3, <1>4, <1>5, <1>6

(* Passing the permit on makes one waiting caller the holder, or none. *)
PassedOn(c, l) ==
  /\ stage' \in [Callers -> FlightStages]
  /\ holder' \in [Callers -> Callers \cup {None}]
  /\ stage'[c] = l
  /\ \A d \in Callers \ {c} :
       stage'[d] = stage[d] \/ (stage[d] = "waiting" /\ stage'[d] = "granted")
  /\ HolderShape'

LEMMA PassOnShape ==
  ASSUME FlightInv, NEW c \in Callers, NEW l \in {"releasing", "done"},
         stage[c] \in {"granted", "fetching", "handing"}, PassOn(c, l),
         UNCHANGED <<key, cell, value>>
  PROVE  PassedOn(c, l)
<1> USE DEF FlightInv, Enter, PassedOn
<1>1. cell[c] \in Callers /\ holder[cell[c]] = c /\ value[cell[c]] = None
  BY DEF CellShape, HolderShape
<1>2. CASE /\ holder' = [holder EXCEPT ![cell[c]] = None]
           /\ stage' = [stage EXCEPT ![c] = l]
  BY <1>1, <1>2 DEF FlightTypeOK, HolderShape
<1>3. ASSUME NEW n \in Waiting(cell[c]),
             holder' = [holder EXCEPT ![cell[c]] = n],
             stage' = [stage EXCEPT ![c] = l, ![n] = "granted"]
      PROVE  PassedOn(c, l)
  <2>1. n \in Callers /\ n # c /\ cell[n] = cell[c] /\ stage[n] = "waiting"
    BY <1>3 DEF Waiting
  <2> QED BY <1>1, <1>3, <2>1 DEF FlightTypeOK, HolderShape
<1> QED BY <1>2, <1>3 DEF PassOn

(* A drop changes no cell, key or value; what is left is to see that the   *)
(* map follows the leader that goes.                                       *)
LEMMA CancelEarlyInv ==
  ASSUME FlightInv, NEW c \in Callers, CancelEarly(c)
  PROVE  FlightInv'
<1> DEFINE l == IF Leader(c) THEN "releasing" ELSE "done"
<1> USE DEF FlightInv, CancelEarly, PassedOn
<1>1. PassedOn(c, l)
  <2>1. CASE stage[c] \in {"arrived", "waiting"} /\ Enter(c, l) /\ UNCHANGED holder
    BY <2>1 DEF Enter, FlightTypeOK, HolderShape
  <2>2. CASE stage[c] = "granted" /\ PassOn(c, l)
    BY <2>2, PassOnShape
  <2> QED BY <2>1, <2>2 DEF DropEarly
<1>2. stage[c] \in {"arrived", "waiting", "granted"}
  BY DEF DropEarly
<1>3. FlightTypeOK'
  BY <1>1 DEF FlightTypeOK
<1>4. CellShape'
  BY <1>1, <1>2 DEF CellShape
<1>5. StageShape'
  BY <1>1, <1>2 DEF StageShape, Leader
<1>6. ASSUME NEW d \in Callers PROVE Registered(d)' <=> Registered(d)
  BY <1>1, <1>2 DEF Registered, Leader
<1>7. EntriesAreLeaders'
  BY <1>6 DEF EntriesAreLeaders
<1> QED BY <1>1, <1>3, <1>4, <1>5, <1>7

LEMMA CancelFetchInv ==
  ASSUME FlightInv, NEW c \in Callers, CancelFetch(c)
  PROVE  FlightInv'
<1> USE DEF FlightInv, CancelFetch, Without, Enter
<1>1. key[c] \in Keys /\ (Leader(c) => inflight[key[c]] = c)
  BY DEF CellShape, Registered, EntriesAreLeaders
<1>2. FlightTypeOK'
  BY <1>1 DEF FlightTypeOK
<1>3. CellShape'
  BY DEF CellShape, FlightTypeOK
<1>4. HolderShape'
  BY DEF HolderShape, FlightTypeOK
<1>5. StageShape'
  BY DEF StageShape, FlightTypeOK, Leader
<1>6. EntriesAreLeaders'
  BY <1>1 DEF EntriesAreLeaders, Registered, Leader, FlightTypeOK
<1> QED BY <1>2, <1>3, <1>4, <1>5, <1>6

LEMMA HandOverInv ==
  ASSUME FlightInv, NEW c \in Callers, HandOver(c)
  PROVE  FlightInv'
<1> USE DEF FlightInv, HandOver, PassedOn
<1>1. PassedOn(c, "done")
  BY PassOnShape
<1>2. FlightTypeOK'
  BY <1>1 DEF FlightTypeOK, StageShape
<1>3. CellShape'
  BY <1>1 DEF CellShape
<1>4. StageShape'
  BY <1>1 DEF StageShape, Leader
<1>5. ASSUME NEW d \in Callers PROVE Registered(d)' <=> Registered(d)
  BY <1>1 DEF Registered, Leader
<1>6. EntriesAreLeaders'
  BY <1>5 DEF EntriesAreLeaders
<1> QED BY <1>1, <1>2, <1>3, <1>4, <1>6

LEMMA ExpireInv ==
  ASSUME FlightInv, NEW c \in Callers, Expire(c)
  PROVE  FlightInv'
<1> USE DEF FlightInv, Expire, PassedOn
<1>1. PassedOn(c, "done")
  <2>1. CASE stage[c] = "waiting" /\ Enter(c, "done") /\ UNCHANGED holder
    BY <2>1 DEF Enter, FlightTypeOK, HolderShape
  <2>2. CASE stage[c] = "fetching" /\ PassOn(c, "done")
    BY <2>2, PassOnShape
  <2> QED BY <2>1, <2>2
<1>2. FlightTypeOK'
  BY <1>1 DEF FlightTypeOK
<1>3. CellShape'
  BY <1>1 DEF CellShape
<1>4. StageShape'
  BY <1>1 DEF StageShape, Leader
<1>5. ASSUME NEW d \in Callers PROVE Registered(d)' <=> Registered(d)
  BY <1>1 DEF Registered, Leader
<1>6. EntriesAreLeaders'
  BY <1>5 DEF EntriesAreLeaders
<1> QED BY <1>1, <1>2, <1>3, <1>4, <1>6

LEMMA FlightStepInv == FlightInv /\ [FlightNext]_vars => FlightInv'
<1> SUFFICES ASSUME FlightInv, [FlightNext]_vars PROVE FlightInv'
  OBVIOUS
<1>1. CASE UNCHANGED vars
  BY <1>1 DEF vars, FlightInv, FlightTypeOK, CellShape, HolderShape, StageShape,
              EntriesAreLeaders, Registered, Leader
<1>2. ASSUME NEW c \in Callers, Progress(c) PROVE FlightInv'
  BY <1>2, PollInv, FetchInv, ReleaseInv, PublishInv, ResolveInv, HandOverInv DEF Progress
<1>3. ASSUME NEW c \in Callers, GiveUp(c) PROVE FlightInv'
  BY <1>3, CancelEarlyInv, CancelFetchInv, ExpireInv DEF GiveUp
<1> QED BY <1>1, <1>2, <1>3, JoinInv DEF FlightNext

-----------------------------------------------------------------------------
(* The map's entries are the running leaders' and nobody else's: dropped   *)
(* and finished calls leave nothing behind.                                *)
THEOREM MapHoldsLeaders == FlightSpec => []EntriesAreLeaders
<1>1. FlightInv => EntriesAreLeaders
  BY DEF FlightInv
<1> QED BY <1>1, FlightInitInv, FlightStepInv, PTL DEF FlightSpec

(* Two fetches of one key run at once only after a leader was dropped. *)
THEOREM ExecutionIsShared == FlightSpec => []SharedExecution
BY InvShared, FlightInitInv, FlightStepInv, PTL DEF FlightSpec

HIDE NoneAssumption DEF Holding, FlightStages

-----------------------------------------------------------------------------
(* Routed executions.                                                      *)

Touched(c, t) == <<c, t>> \in transit \cup ran

(* A probe is in the hands of a call that is at a target. *)
PermitShape(c) ==
  /\ pc[c] \in Permitted => at[c] \in Targets
  /\ c \in probe => pc[c] \in Permitted

(* Where an authenticated read may have been executed: nowhere before the  *)
(* next target is asked, nor after a safe result; else at the last target. *)
QueryShape(c) ==
  c \in auth =>
    /\ \A t \in Targets : <<c, t>> \in transit => <<c, t>> \notin ran
    /\ pc[c] \in {"queued", "routing"} => \A t \in Targets : ~Touched(c, t)
    /\ pc[c] \in Permitted => \A t \in Targets : Touched(c, t) => t = at[c]
    /\ pc[c] \in {"finishing", "dropping"} /\ result[c] = "safe" =>
         \A t \in Targets : ~Touched(c, t)
    /\ \A t, u \in Targets : Touched(c, t) /\ Touched(c, u) => t = u

RoutingInv ==
  /\ RoutingTypeOK
  /\ \A c \in Calls : PermitShape(c)
  /\ OneProbe
  /\ CoolingJustified
  /\ \A c \in Calls : QueryShape(c)

USE DEF Stages, Permitted

LEMMA Ranges ==
  /\ Targets \subseteq 1..(N + 1)
  /\ \A n \in Targets : n + 1 \in 1..(N + 1)
  /\ 1 \in 1..(N + 1)
  /\ 0 \in 0..MaxCount
BY RoutingAssumption DEF Targets

LEMMA IncrementRange ==
  ASSUME NEW n \in 0..MaxCount
  PROVE  Increment(n) \in 0..MaxCount /\ (n >= Threshold => Increment(n) >= Threshold)
BY RoutingAssumption DEF Increment

LEMMA RoutingInitInv == RoutingInit => RoutingInv
BY Ranges, RoutingAssumption
   DEF RoutingInit, RoutingInv, RoutingTypeOK, PermitShape, OneProbe, CoolingJustified,
       QueryShape, Touched

LEMMA InvMeaning == RoutingInv => AuthenticatedOnce /\ OneProbe /\ CoolingJustified
BY DEF RoutingInv, RoutingTypeOK, QueryShape, Touched, AuthenticatedOnce

-----------------------------------------------------------------------------
(* One lemma per conjunct of the invariant, one step per group of actions. *)

Steps(c) ==
  \/ Arrive(c) \/ Acquire(c) \/ Return(c) \/ Skip(c) \/ Admit(c) \/ Rejected(c)
  \/ Answered(c) \/ Ambiguous(c) \/ Finish(c) \/ Drop(c) \/ Cancel(c)

USE DEF health, position, queries, Goto, End, Query, Receive, Left, ReleaseProbe, Looks,
        NextTarget

LEMMA StepTypes ==
  ASSUME RoutingInv, NEW c \in Calls, Steps(c)
  PROVE  RoutingTypeOK'
<1> USE Ranges DEF RoutingInv, RoutingTypeOK
<1>1. CASE Arrive(c)
  BY <1>1 DEF Arrive
<1>2. CASE Acquire(c) \/ Return(c)
  BY <1>2 DEF Acquire, Return
<1>3. CASE Skip(c)
  BY <1>3 DEF Skip
<1>4. CASE Admit(c)
  <2>1. at[c] \in Targets /\ <<c, at[c]>> \in Calls \X Targets
    BY <1>4 DEF Admit
  <2>2. transit' \in SUBSET (Calls \X Targets)
    BY <1>4, <2>1 DEF Admit
  <2>3. probing' \in SUBSET Targets /\ probe' \in SUBSET Calls
    BY <1>4, <2>1 DEF Admit
  <2> QED BY <1>4, <2>2, <2>3 DEF Admit
<1>5. CASE Rejected(c) \/ Answered(c) \/ Ambiguous(c)
  BY <1>5 DEF Rejected, Answered, Ambiguous
<1>6. CASE Finish(c)
  <2>1. at[c] \in Targets
    BY <1>6 DEF Finish, PermitShape
  <2> QED BY <1>6, <2>1, IncrementRange DEF Finish, Recovered
<1>7. CASE Drop(c)
  <2>1. at[c] \in Targets
    BY <1>7 DEF Drop, PermitShape
  <2> QED BY <1>7, <2>1 DEF Drop
<1>8. CASE Cancel(c)
  BY <1>8 DEF Cancel
<1> QED BY <1>1, <1>2, <1>3, <1>4, <1>5, <1>6, <1>7, <1>8 DEF Steps

LEMMA StepPermits ==
  ASSUME RoutingInv, NEW c \in Calls, Steps(c), NEW d \in Calls
  PROVE  PermitShape(d)'
<1> USE DEF RoutingInv, RoutingTypeOK, PermitShape
<1>1. CASE Arrive(c) \/ Acquire(c) \/ Return(c) \/ Skip(c) \/ Admit(c)
  BY <1>1 DEF Arrive, Acquire, Return, Skip, Admit
<1>2. CASE Rejected(c) \/ Answered(c) \/ Ambiguous(c) \/ Finish(c)
  BY <1>2 DEF Rejected, Answered, Ambiguous, Finish
<1>3. CASE Drop(c) \/ Cancel(c)
  BY <1>3 DEF Drop, Cancel
<1> QED BY <1>1, <1>2, <1>3 DEF Steps

LEMMA StepProbes ==
  ASSUME RoutingInv, NEW c \in Calls, Steps(c)
  PROVE  OneProbe'
<1> USE DEF RoutingInv, RoutingTypeOK, PermitShape, OneProbe
<1>1. CASE Arrive(c) \/ Acquire(c) \/ Return(c) \/ Skip(c)
  BY <1>1 DEF Arrive, Acquire, Return, Skip
<1>2. CASE Admit(c)
  BY <1>2 DEF Admit, Refuses
<1>3. CASE Rejected(c) \/ Answered(c) \/ Ambiguous(c) \/ Finish(c)
  BY <1>3 DEF Rejected, Answered, Ambiguous, Finish
<1>4. CASE Drop(c) \/ Cancel(c)
  BY <1>4 DEF Drop, Cancel
<1> QED BY <1>1, <1>2, <1>3, <1>4 DEF Steps

LEMMA StepCooling ==
  ASSUME RoutingInv, NEW c \in Calls, Steps(c)
  PROVE  CoolingJustified'
<1> USE DEF RoutingInv, RoutingTypeOK, PermitShape, CoolingJustified
<1>1. CASE Finish(c)
  <2>1. at[c] \in Targets
    BY <1>1 DEF Finish
  <2> QED BY <1>1, <2>1, IncrementRange DEF Finish, Recovered
<1>2. CASE ~Finish(c)
  <2>1. UNCHANGED <<failures, open_until>>
    BY <1>2 DEF Steps, Arrive, Acquire, Return, Skip, Admit, Rejected, Answered, Ambiguous,
                Drop, Cancel
  <2> QED BY <2>1
<1> QED BY <1>1, <1>2

LEMMA StepQueries ==
  ASSUME RoutingInv, NEW c \in Calls, Steps(c), NEW d \in Calls
  PROVE  QueryShape(d)'
<1> USE DEF RoutingInv, RoutingTypeOK, PermitShape, QueryShape, Touched
<1>1. CASE Arrive(c)
  BY <1>1 DEF Arrive
<1>2. CASE Acquire(c) \/ Return(c) \/ Skip(c)
  BY <1>2 DEF Acquire, Return, Skip
<1>3. CASE Admit(c)
  BY <1>3 DEF Admit
<1>4. CASE Rejected(c)
  BY <1>4 DEF Rejected
<1>5. CASE Answered(c) \/ Ambiguous(c)
  BY <1>5 DEF Answered, Ambiguous
<1>6. CASE Finish(c)
  BY <1>6 DEF Finish
<1>7. CASE Drop(c)
  BY <1>7 DEF Drop, Stops, TargetFault
<1>8. CASE Cancel(c)
  BY <1>8 DEF Cancel
<1> QED BY <1>1, <1>2, <1>3, <1>4, <1>5, <1>6, <1>7, <1>8 DEF Steps

(* What becomes of a query at its target. *)
LEMMA TargetInv ==
  ASSUME RoutingInv, NEW c \in Calls, NEW t \in Targets, Execute(c, t) \/ Vanish(c, t)
  PROVE  RoutingInv'
<1> USE DEF RoutingInv, RoutingTypeOK, Execute, Vanish
<1>1. RoutingTypeOK' /\ OneProbe' /\ CoolingJustified' /\ \A d \in Calls : PermitShape(d)'
  BY DEF OneProbe, CoolingJustified, PermitShape
<1>2. ASSUME NEW d \in Calls PROVE QueryShape(d)'
  BY DEF QueryShape, Touched
<1> QED BY <1>1, <1>2

LEMMA RoutingStepInv == RoutingInv /\ [RoutingNext]_routingVars => RoutingInv'
<1> SUFFICES ASSUME RoutingInv, [RoutingNext]_routingVars PROVE RoutingInv'
  OBVIOUS
<1>1. ASSUME NEW c \in Calls, Steps(c) PROVE RoutingInv'
  BY <1>1, StepTypes, StepPermits, StepProbes, StepCooling, StepQueries DEF RoutingInv
<1>2. ASSUME NEW c \in Calls, NEW t \in Targets, Execute(c, t) \/ Vanish(c, t)
      PROVE  RoutingInv'
  BY <1>2, TargetInv
<1>3. ASSUME NEW t \in Targets, Elapse(t) PROVE RoutingInv'
  BY <1>3 DEF Elapse, RoutingInv, RoutingTypeOK, OneProbe, CoolingJustified, PermitShape,
              QueryShape, Touched
<1>4. CASE UNCHANGED routingVars
  BY <1>4 DEF routingVars, RoutingInv, RoutingTypeOK, OneProbe, CoolingJustified,
              PermitShape, QueryShape, Touched
<1> QED BY <1>1, <1>2, <1>3, <1>4 DEF RoutingNext, RouterStep, Steps

-----------------------------------------------------------------------------
LEMMA RoutingInvariance == RoutingSpec => []RoutingInv
BY RoutingInitInv, RoutingStepInv, PTL DEF RoutingSpec

(* Type correctness of the router. *)
THEOREM RoutingTypes == RoutingSpec => []RoutingTypeOK
<1>1. RoutingInv => RoutingTypeOK
  BY DEF RoutingInv
<1> QED BY <1>1, RoutingInvariance, PTL

(* call_inner fails an authenticated read over only when it provably did   *)
(* not execute: it runs, now or later, on one node at most.                *)
THEOREM ReadsRunOnce == RoutingSpec => []AuthenticatedOnce
BY InvMeaning, RoutingInvariance, PTL

(* Target::admit and Permit::drop: one probe of a target at a time, and a  *)
(* latch that is set only while that probe is out.                         *)
THEOREM ProbesAreSingle == RoutingSpec => []OneProbe
BY InvMeaning, RoutingInvariance, PTL

(* Permit::finish: a target cools down only with Threshold faults in a row. *)
THEOREM CoolingIsJustified == RoutingSpec => []CoolingJustified
BY InvMeaning, RoutingInvariance, PTL
=============================================================================
