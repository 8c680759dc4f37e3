---------------------------- MODULE SingleFlight ----------------------------
(***************************************************************************)
(* Shared execution of identical in-flight reads (src/src/single_flight.rs). *)
(*                                                                         *)
(* A caller makes one call.  The caller that creates a cell is its leader  *)
(* and gives the cell its name.  A step is one critical section of the     *)
(* map's mutex or of the cell: tokio's OnceCell::get_or_init takes a       *)
(* semaphore of one permit, runs the closure of the caller that got it,    *)
(* stores the value and closes the semaphore; dropping the future of the   *)
(* permit's holder passes the permit on, here to any caller that waits.    *)
(***************************************************************************)

CONSTANTS
  Callers,
  Keys,
  None,       \* no cell, no value, no key
  TimedOut    \* the `timed_out` argument of run

ASSUME NoneAssumption ==
  None \notin Callers \cup Keys /\ TimedOut \notin Callers \cup {None}

VARIABLES
  inflight,   \* the map: the cell of each key, or None
  key, cell,  \* per caller: its key and the cell it found or created
  stage,
  holder,     \* per cell: the caller with the permit, or None
  value,      \* per cell: the outcome, named by the caller that fetched it
  answer,     \* per caller: the outcome it returned
  lost        \* callers dropped before they returned

vars == <<inflight, key, cell, stage, holder, value, answer, lost>>

Leader(c) == cell[c] = c

FlightStages ==
  {"new", "arrived", "waiting", "granted", "fetching", "fetched", "publishing",
   "published", "releasing", "handing", "done"}

FlightTypeOK ==
  /\ inflight \in [Keys -> Callers \cup {None}]
  /\ key \in [Callers -> Keys \cup {None}]
  /\ cell \in [Callers -> Callers \cup {None}]
  /\ stage \in [Callers -> FlightStages]
  /\ holder \in [Callers -> Callers \cup {None}]
  /\ value \in [Callers -> Callers \cup {None}]
  /\ answer \in [Callers -> Callers \cup {None, TimedOut}]
  /\ lost \in SUBSET Callers
  /\ \A c \in Callers : stage[c] = "done" /\ c \notin lost => answer[c] # None

FlightInit ==
  /\ inflight = [k \in Keys |-> None]
  /\ key = [c \in Callers |-> None]
  /\ cell = [c \in Callers |-> None]
  /\ stage = [c \in Callers |-> "new"]
  /\ holder = [x \in Callers |-> None]
  /\ value = [x \in Callers |-> None]
  /\ answer = [c \in Callers |-> None]
  /\ lost = {}

Enter(c, l) == stage' = [stage EXCEPT ![c] = l]

-----------------------------------------------------------------------------
(* The map lookup of run: join the key's cell or insert a new one. *)
AlwaysNew(c, k) == c
Found(c, k) == IF inflight[k] = None THEN c ELSE inflight[k]

Join(c, k) ==
  /\ stage[c] = "new"
  /\ key' = [key EXCEPT ![c] = k]
  /\ cell' = [cell EXCEPT ![c] = Found(c, k)]
  /\ inflight' = [inflight EXCEPT ![k] = Found(c, k)]
  /\ Enter(c, "arrived")
  /\ UNCHANGED <<holder, value, answer, lost>>

(* The first poll of get_or_init: the value is there, the permit is free,  *)
(* or the caller queues for it.                                            *)
Poll(c) ==
  /\ stage[c] = "arrived"
  /\ LET x == cell[c] IN
       \/ /\ value[x] # None
          /\ Enter(c, "published")
          /\ UNCHANGED holder
       \/ /\ value[x] = None /\ holder[x] = None
          /\ holder' = [holder EXCEPT ![x] = c]
          /\ Enter(c, "granted")
       \/ /\ value[x] = None /\ holder[x] # None
          /\ Enter(c, "waiting")
          /\ UNCHANGED holder
  /\ UNCHANGED <<inflight, key, cell, value, answer, lost>>

(* The holder runs its own fetch, which ends by its deadline. *)
Fetch(c) ==
  /\ stage[c] = "granted"
  /\ Enter(c, "fetching")
  /\ UNCHANGED <<inflight, key, cell, holder, value, answer, lost>>

(* A leader's closure releases its registration before the value is        *)
(* published; a joiner's closure is the bare fetch.                        *)
Fetched(c) ==
  /\ stage[c] = "fetching"
  /\ Enter(c, IF Leader(c) THEN "fetched" ELSE "publishing")
  /\ UNCHANGED <<inflight, key, cell, holder, value, answer, lost>>

(* Registration::release: only the entry this registration inserted. *)
Kept(c) == inflight
Without(c) == [inflight EXCEPT ![key[c]] = IF @ = c THEN None ELSE @]

Release(c) ==
  /\ stage[c] = "fetched"
  /\ inflight' = Without(c)
  /\ Enter(c, "publishing")
  /\ UNCHANGED <<key, cell, holder, value, answer, lost>>

(* OnceCell::set_value closes the semaphore: whoever queues is woken. *)
Publish(c) ==
  /\ stage[c] = "publishing"
  /\ value' = [value EXCEPT ![cell[c]] = c]
  /\ holder' = [holder EXCEPT ![cell[c]] = None]
  /\ Enter(c, "published")
  /\ UNCHANGED <<inflight, key, cell, answer, lost>>

(* get_or_init returns; a leader whose closure did not run drops its       *)
(* registration only now.                                                  *)
Resolve(c) ==
  /\ stage[c] \in {"waiting", "published"} /\ value[cell[c]] # None
  /\ inflight' = IF Leader(c) THEN Without(c) ELSE inflight
  /\ answer' = [answer EXCEPT ![c] = value[cell[c]]]
  /\ Enter(c, "done")
  /\ UNCHANGED <<key, cell, holder, value, lost>>

-----------------------------------------------------------------------------
(* The caller's future is dropped, by its client or (a joiner's) by its    *)
(* deadline.                                                               *)

NobodyWaits(x) == {}
Waiting(x) == {d \in Callers : cell[d] = x /\ stage[d] = "waiting"}

PassOn(c, l) ==
  LET x == cell[c] IN
    \/ /\ Waiting(x) = {}
       /\ holder' = [holder EXCEPT ![x] = None]
       /\ Enter(c, l)
    \/ \E n \in Waiting(x) :
         /\ holder' = [holder EXCEPT ![x] = n]
         /\ stage' = [stage EXCEPT ![c] = l, ![n] = "granted"]

(* Before the closure runs it still owns the registration, which goes last. *)
DropEarly(c, l) ==
  \/ stage[c] \in {"arrived", "waiting"} /\ Enter(c, l) /\ UNCHANGED holder
  \/ stage[c] = "granted" /\ PassOn(c, l)

CancelEarly(c) ==
  /\ DropEarly(c, IF Leader(c) THEN "releasing" ELSE "done")
  /\ lost' = lost \cup {c}
  /\ UNCHANGED <<inflight, key, cell, value, answer>>

ReleaseLast(c) ==
  /\ stage[c] = "releasing"
  /\ inflight' = Without(c)
  /\ Enter(c, "done")
  /\ UNCHANGED <<key, cell, holder, value, answer, lost>>

(* Once it runs, the registration goes first and the permit last. *)
CancelFetch(c) ==
  /\ stage[c] = "fetching"
  /\ inflight' = IF Leader(c) THEN Without(c) ELSE inflight
  /\ Enter(c, "handing")
  /\ lost' = lost \cup {c}
  /\ UNCHANGED <<key, cell, holder, value, answer>>

HandOver(c) ==
  /\ stage[c] = "handing"
  /\ PassOn(c, "done")
  /\ UNCHANGED <<inflight, key, cell, value, answer, lost>>

(* timeout_at polls the call once more before it gives up. *)
Expire(c) ==
  /\ ~Leader(c)
  /\ \/ stage[c] = "waiting" /\ value[cell[c]] = None /\ Enter(c, "done") /\ UNCHANGED holder
     \/ stage[c] = "fetching" /\ PassOn(c, "done")
  /\ answer' = [answer EXCEPT ![c] = TimedOut]
  /\ UNCHANGED <<inflight, key, cell, value, lost>>

Progress(c) ==
  \/ Poll(c) \/ Fetch(c) \/ Fetched(c) \/ Release(c) \/ Publish(c) \/ Resolve(c)
  \/ ReleaseLast(c) \/ HandOver(c)

GiveUp(c) == CancelEarly(c) \/ CancelFetch(c) \/ Expire(c)

FlightNext ==
  \/ \E c \in Callers, k \in Keys : Join(c, k)
  \/ \E c \in Callers : Progress(c) \/ GiveUp(c)

FlightSpec == FlightInit /\ [][FlightNext]_vars

(* The runtime polls every woken task and every fetch ends by its deadline; *)
(* nobody has to arrive, and no caller has to be dropped.                  *)
FairFlightSpec == FlightSpec /\ \A c \in Callers : WF_vars(Progress(c))

-----------------------------------------------------------------------------
(* Properties.                                                             *)

(* The map holds exactly the cells of leaders whose call still runs and    *)
(* has not fetched its outcome: no entry is leaked by a dropped call, and  *)
(* no release removes another call's entry.                                *)
Registered(c) ==
  /\ Leader(c)
  /\ \/ stage[c] \in {"arrived", "waiting", "granted", "releasing"}
     \/ stage[c] \in {"fetching", "fetched"}
     \/ stage[c] = "published" /\ value[c] # c

EntriesAreLeaders ==
  \A k \in Keys, c \in Callers : inflight[k] = c <=> Registered(c) /\ key[c] = k

(* Concurrent callers with a key share one execution: two fetches of one   *)
(* key run at once only after a leader of it was dropped.                  *)
SharedExecution ==
  \A c, d \in Callers :
    stage[c] = "fetching" /\ stage[d] = "fetching" /\ key[c] = key[d] /\ c # d
      => cell[c] \in lost \/ cell[d] \in lost

(* Every caller that arrives ends with an outcome or by being dropped,     *)
(* although leaders vanish while others wait for them.                     *)
CallersFinish == \A c \in Callers : stage[c] # "new" ~> stage[c] = "done"
=============================================================================
