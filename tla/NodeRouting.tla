----------------------------- MODULE NodeRouting -----------------------------
(***************************************************************************)
(* The router of public queries over this node and its peers               *)
(* (src/src/node_routing.rs), with the peer transport and the peer's query *)
(* handler as far as they decide whether a query was executed              *)
(* (peer_transport.rs, peer.rs).                                           *)
(*                                                                         *)
(* Targets are numbered in the order of the sorted list.  A call is one    *)
(* routed execution, call_inner; identical reads that share one are        *)
(* SingleFlight's.  A submitted query travels by itself: a peer may run it *)
(* after the caller has given up.  Results are sorted by what the router   *)
(* does with them: "ok" is an answer or an error that is no target_fault,  *)
(* "safe" a fault that proves the query was not executed, "fault" another. *)
(* The deadline may have passed whenever the code looks at it.             *)
(***************************************************************************)
EXTENDS Naturals, FiniteSets

CONSTANTS
  Calls,
  N,            \* targets
  Local,        \* the number of the local target, 0 for none
  Threshold,    \* failure_threshold
  MaxCount,     \* where the u32 counter saturates
  MaxInflight   \* max_inflight

ASSUME RoutingAssumption ==
  /\ N \in Nat /\ Local \in 0..N
  /\ Threshold \in Nat \ {0} /\ MaxCount \in Nat /\ Threshold <= MaxCount
  /\ MaxInflight \in Nat \ {0}

VARIABLES
  failures,     \* Health, per target
  open_until,   \* "none", "waiting" (in the future) or "due" (passed)
  probing,      \* targets with the probe latch set
  pc,           \* per call
  auth,         \* calls of authenticated routes
  at,           \* per call: the target it is at
  probe,        \* calls whose permit is a probe
  result,       \* per call: the class of the last attempt's result
  transit,      \* queries handed to a target that may still execute them
  ran           \* history: authenticated queries executed by a target

health   == <<failures, open_until, probing>>
position == <<auth, at>>
queries  == <<transit, ran>>
routingVars == <<health, pc, position, probe, result, queries>>

Targets == 1..N
Stages  == {"idle", "queued", "routing", "asking", "finishing", "dropping"}

(* A call holds a permit of the target it is at. *)
Permitted == {"asking", "finishing", "dropping"}

RoutingTypeOK ==
  /\ failures \in [Targets -> 0..MaxCount]
  /\ open_until \in [Targets -> {"none", "waiting", "due"}]
  /\ probing \in SUBSET Targets
  /\ pc \in [Calls -> Stages]
  /\ auth \in SUBSET Calls /\ probe \in SUBSET Calls
  /\ at \in [Calls -> 1..(N + 1)]
  /\ result \in [Calls -> {"none", "ok", "safe", "fault"}]
  /\ transit \in SUBSET (Calls \X Targets)
  /\ ran \in SUBSET (Calls \X Targets)

RoutingInit ==
  /\ failures = [t \in Targets |-> 0]
  /\ open_until = [t \in Targets |-> "none"]
  /\ probing = {}
  /\ pc = [c \in Calls |-> "idle"]
  /\ auth = {} /\ probe = {}
  /\ at = [c \in Calls |-> 1]
  /\ result = [c \in Calls |-> "none"]
  /\ transit = {} /\ ran = {}

Goto(c, stage) == pc' = [pc EXCEPT ![c] = stage]
Query(c) == <<c, at[c]>>

-----------------------------------------------------------------------------
(* Router::call and the admission of call_inner.                           *)

(* A new execution; its request identifier is fresh, so an old query of c  *)
(* must have come to its end.                                              *)
Arrive(c) ==
  /\ pc[c] = "idle"
  /\ \A t \in Targets : <<c, t>> \notin transit
  /\ Goto(c, "queued")
  /\ auth' \in {auth \cup {c}, auth \ {c}}
  /\ ran' = {q \in ran : q[1] # c}
  /\ UNCHANGED <<health, at, probe, result, transit>>

Admitted == {c \in Calls : pc[c] \notin {"idle", "queued"}}

Acquire(c) ==
  /\ pc[c] = "queued"
  /\ Cardinality(Admitted) < MaxInflight
  /\ Goto(c, "routing")
  /\ UNCHANGED <<health, position, probe, result, queries>>

End(c) ==
  /\ Goto(c, "idle")
  /\ at' = [at EXCEPT ![c] = 1]
  /\ result' = [result EXCEPT ![c] = "none"]

(* The call returns between two targets: no permit in time, the deadline   *)
(* has passed, or no target is left.                                       *)
Return(c) ==
  /\ pc[c] \in {"queued", "routing"}
  /\ End(c)
  /\ UNCHANGED <<health, auth, probe, queries>>

-----------------------------------------------------------------------------
(* Target::admit                                                           *)

RefusesUntilDue(t) == open_until[t] = "waiting"
RefusesForEver(t) == open_until[t] # "none"

Refuses(t) ==
  open_until[t] = "waiting" \/ (open_until[t] = "due" /\ t \in probing)

Looks(c) == pc[c] = "routing" /\ at[c] \in Targets

Skip(c) ==
  /\ Looks(c) /\ Refuses(at[c])
  /\ at' = [at EXCEPT ![c] = @ + 1]
  /\ UNCHANGED <<health, pc, auth, probe, result, queries>>

(* An admitted call makes its attempt at once. *)
Admit(c) ==
  /\ Looks(c) /\ ~Refuses(at[c])
  /\ Goto(c, "asking")
  /\ transit' = transit \cup {Query(c)}
  /\ IF open_until[at[c]] = "none"
       THEN UNCHANGED <<probing, probe>>
       ELSE probing' = probing \cup {at[c]} /\ probe' = probe \cup {c}
  /\ UNCHANGED <<failures, open_until, position, result, ran>>

Elapse(t) ==
  /\ open_until[t] = "waiting"
  /\ open_until' = [open_until EXCEPT ![t] = "due"]
  /\ UNCHANGED <<failures, probing, pc, position, probe, result, queries>>

-----------------------------------------------------------------------------
(* The attempt: peer_transport::Client::call, or call_peer on this node.   *)

Receive(c, r) ==
  /\ result' = [result EXCEPT ![c] = r]
  /\ Goto(c, "finishing")
  /\ UNCHANGED <<health, position, probe>>

(* A dropped local call does not go on; a peer does not learn of it. *)
Left(c) == IF at[c] = Local THEN transit \ {Query(c)} ELSE transit

(* The executor makes the game call, or the query comes to nothing.        *)
Execute(c, t) ==
  /\ <<c, t>> \in transit
  /\ transit' = transit \ {<<c, t>>}
  /\ ran' = IF c \in auth THEN ran \cup {<<c, t>>} ELSE ran
  /\ UNCHANGED <<health, pc, position, probe, result>>

Vanish(c, t) ==
  /\ <<c, t>> \in transit
  /\ transit' = transit \ {<<c, t>>}
  /\ UNCHANGED <<health, pc, position, probe, result, ran>>

(* An error of definitely_not_sent, a typed outcome or a status of          *)
(* PRE_DISPATCH_STATUSES: these come only instead of the game call.        *)
Rejected(c) ==
  /\ pc[c] = "asking" /\ Query(c) \in transit
  /\ transit' = transit \ {Query(c)}
  /\ Receive(c, "safe")
  /\ UNCHANGED ran

(* An outcome of the game, or of the executor's response cache. *)
Answered(c) ==
  /\ pc[c] = "asking"
  /\ transit' = transit \ {Query(c)}
  /\ Receive(c, "ok")
  /\ UNCHANGED ran

(* The deadline, a lost or unusable answer, another status, a failure that *)
(* may follow the game call: nothing is known of the query.                *)
Ambiguous(c) ==
  /\ pc[c] = "asking"
  /\ transit' = Left(c)
  /\ Receive(c, "fault")
  /\ UNCHANGED ran

-----------------------------------------------------------------------------
(* Permit::finish, and what call_inner makes of the result.                *)

Increment(n) == IF n < MaxCount THEN n + 1 ELSE MaxCount

TargetFault(c) == result[c] \in {"safe", "fault"}

Recovered(t) == [open_until EXCEPT ![t] = "none"]

Finish(c) ==
  /\ pc[c] = "finishing"
  /\ IF TargetFault(c)
       THEN /\ failures' = [failures EXCEPT ![at[c]] = Increment(@)]
            /\ open_until' = [open_until EXCEPT ![at[c]] =
                                IF failures'[at[c]] >= Threshold THEN "waiting" ELSE @]
       ELSE /\ failures' = [failures EXCEPT ![at[c]] = 0]
            /\ open_until' = Recovered(at[c])
  /\ Goto(c, "dropping")
  /\ UNCHANGED <<probing, position, probe, result, queries>>

(* Permit::drop *)
ReleaseProbe(c) ==
  /\ probing' = IF c \in probe THEN probing \ {at[c]} ELSE probing
  /\ probe' = probe \ {c}

StopsOnSuccess(c) == ~TargetFault(c)

Stops(c) == ~TargetFault(c) \/ (result[c] # "safe" /\ c \in auth)

SameTarget(c) == at[c]
NextTarget(c) == at[c] + 1

(* The end of a round of the loop drops the permit; with the call's end    *)
(* the router's admission is free again.                                   *)
Drop(c) ==
  /\ pc[c] = "dropping"
  /\ ReleaseProbe(c)
  /\ IF Stops(c)
       THEN End(c)
       ELSE Goto(c, "routing") /\ at' = [at EXCEPT ![c] = NextTarget(c)] /\ UNCHANGED result
  /\ UNCHANGED <<failures, open_until, auth, queries>>

(* The caller goes away while the call waits for its permit or an answer.  *)
Cancel(c) ==
  /\ pc[c] \in {"queued", "asking"}
  /\ IF pc[c] = "queued" THEN UNCHANGED <<probing, probe, transit>>
     ELSE ReleaseProbe(c) /\ transit' = Left(c)
  /\ End(c)
  /\ UNCHANGED <<failures, open_until, auth, ran>>

-----------------------------------------------------------------------------
RouterStep(c) ==
  Return(c) \/ Skip(c) \/ Admit(c) \/ Ambiguous(c) \/ Finish(c) \/ Drop(c)

RoutingNext ==
  \/ \E c \in Calls :
       \/ Arrive(c) \/ Acquire(c) \/ RouterStep(c) \/ Cancel(c)
       \/ Rejected(c) \/ Answered(c)
       \/ \E t \in Targets : Execute(c, t) \/ Vanish(c, t)
  \/ \E t \in Targets : Elapse(t)

RoutingSpec == RoutingInit /\ [][RoutingNext]_routingVars

(* Calls are polled, and end by their deadline; no peer and no caller owes *)
(* anything.                                                               *)
RoutingFairness ==
  /\ \A c \in Calls : WF_routingVars(RouterStep(c))
  /\ \A t \in Targets : WF_routingVars(Elapse(t))

FairRoutingSpec == RoutingSpec /\ RoutingFairness

-----------------------------------------------------------------------------
(* Properties.                                                             *)

(* "Authenticated reads fail over only when the attempt provably did not   *)
(* execute" (call_inner): an authenticated read never runs on two nodes,   *)
(* and none is still under way to a second one, however late peers act.    *)
AuthenticatedOnce ==
  \A c \in auth : \A t, u \in Targets :
    <<c, t>> \in transit \cup ran /\ <<c, u>> \in transit \cup ran => t = u

(* A target's latch is set exactly while a call holds a probe permit of it, *)
(* and one call at most does, also when late results of older calls close  *)
(* and open the target while the probe is out.                             *)
OneProbe ==
  \A t \in Targets :
    /\ t \in probing <=> \E c \in probe : at[c] = t
    /\ \A c, d \in probe : at[c] = t /\ at[d] = t => c = d

(* A target cools down only while it has Threshold consecutive faults.     *)
CoolingJustified ==
  \A t \in Targets : open_until[t] # "none" => failures[t] >= Threshold

(* A target that refuses calls is asked again some time: a probe that is   *)
(* cancelled or never answered does not shut it out.                       *)
TargetsReturn == \A t \in Targets : Refuses(t) ~> ~Refuses(t)

(* A routed call ends by its deadline, whatever the peers do.              *)
CallsEnd == \A c \in Calls : pc[c] # "idle" ~> pc[c] = "idle"
=============================================================================
