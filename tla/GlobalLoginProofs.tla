------------------------- MODULE GlobalLoginProofs -------------------------
(***************************************************************************)
(* The safety properties of GlobalLogin for every set of regions, every    *)
(* limit and every number of restarts, failed writes and signals: when a   *)
(* session is stale, and when a cache.login may be sent.                   *)
(***************************************************************************)
EXTENDS GlobalLogin, TLAPS

Sessions == [token : Nat, validated : Nat, generation : Nat, stale : BOOLEAN, refusal : Nat]
AccountRecords ==
  [session : BOOLEAN, generation : Nat, token : Nat, invalidations : Nat, disabled : BOOLEAN,
   cooling : BOOLEAN, attempts : Nat, devices : Nat]
Pcs == {"off", "asleep", "idle", "login", "lock", "decide", "sdk", "persist", "player"}
ActorRecords == [pc : Pcs, old : AccountRecords \cup {None}]

LoginTypeOK ==
  /\ sdk \in [Processes -> Sessions]
  /\ file \in Files
  /\ writing \in [Processes -> Files \cup {None}]
  /\ actor \in [Actors -> ActorRecords]
  /\ account \in [Accounts -> AccountRecords]
  /\ clock \in Nat /\ lapsed \in Nat /\ expired \in Nat /\ aged \in Nat
  /\ rejected \in [Processes -> SUBSET Nat]

(* A file holds a token only with the time it was validated at, and either *)
(* no refusal or one later than that time.                                 *)
FileShape(d) ==
  /\ d.token \in {0, d.validated}
  /\ d.refusal = 0 \/ d.validated < d.refusal

(* A session with a token has no refusal, and the token is no later than   *)
(* the last validation.                                                    *)
SessionShape(s) ==
  /\ s.token <= s.validated
  /\ s.token # 0 => s.refusal = 0 /\ s.generation # 0

(* One time is not that of a validation and of a refusal too. *)
Validations == {sdk[p].validated : p \in Processes} \cup {file.validated}
                 \cup {writing[p].validated : p \in {q \in Processes : writing[q] # None}}
Refusals == {sdk[p].refusal : p \in Processes} \cup {file.refusal}
              \cup {writing[p].refusal : p \in {q \in Processes : writing[q] # None}}

TimesOK ==
  /\ Validations \subseteq 0 .. clock /\ Refusals \subseteq 0 .. clock
  /\ Validations \cap Refusals \subseteq {0}

Shapes ==
  /\ \A p \in Processes : SessionShape(sdk[p])
  /\ FileShape(file)
  /\ \A p \in Processes : writing[p] # None => FileShape(writing[p])

(* What an account remembers of the session it logged in with: as long as  *)
(* the generation is the session's, so is the token; an older one had an   *)
(* older token.                                                            *)
Remembers(r, s) ==
  /\ r.token <= s.validated
  /\ r.generation <= s.generation
  /\ r.generation = s.generation => r.token = s.token
  /\ r.generation # s.generation /\ s.token # 0 => r.token < s.token

Home(a) == IF a \in Service THEN "service" ELSE "verify"

RejectedOK ==
  /\ \A p \in Processes : \A t \in rejected[p] : t <= sdk[p].validated
  /\ \A a \in Accounts : Remembers(account[a], sdk[Home(a)])
  /\ \A x \in Actors : actor[x].old # None => Remembers(actor[x].old, sdk[ProcessOf(x)])

(* The locks: whoever decides on or waits for a cache.login holds the lock *)
(* file, and whoever renames is alone in that with its process's state.    *)
LocksOK ==
  /\ \A x \in Actors : actor[x].pc \in {"decide", "sdk"} => lock = x
  /\ \A x \in Actors : At(x, "persist") => writing[ProcessOf(x)] # None
  /\ \A x, y \in Actors : At(x, "persist") /\ At(y, "persist") /\ ProcessOf(x) = ProcessOf(y) => x = y

(* d knows of a refusal at time r, or of a validation after it. *)
Covers(d, r) == r = 0 \/ r < d.validated \/ r <= d.refusal

(* The write of p is that of the result of a cache.login. *)
Locked(p) == \E x \in Actors : lock = x /\ At(x, "persist") /\ ProcessOf(x) = p
Pending(p) == writing[p] # None /\ ~Locked(p)

(* No refusal comes into the file behind the back of whoever holds the     *)
(* lock file: a write of another process repeats at most a refusal that    *)
(* was in the file.                                                        *)
RefusalsOK ==
  /\ \A p \in Processes : writing[p] # None => Covers(sdk[p], writing[p].refusal)
  /\ \A p \in Processes : Pending(p) => Covers(file, writing[p].refusal)
  /\ \A p, q \in Processes :
       p # q /\ writing[p] # None =>
         /\ Pending(q) => Covers(writing[p], writing[q].refusal)
         /\ Covers(writing[p], file.refusal) \/ Covers(sdk[q], file.refusal)
  /\ \A x \in Actors : At(x, "decide") =>
       /\ Covers(State(x), file.refusal)
       /\ \A q \in Processes : writing[q] # None => Covers(State(x), writing[q].refusal)

LoginInv ==
  /\ LoginTypeOK
  /\ Shapes
  /\ TimesOK
  /\ LocksOK
  /\ RejectedOK
  /\ RefusalsOK
  /\ StaleExactly

USE DEF Processes

-----------------------------------------------------------------------------
(* merge, case by case: a refusal of the file that is newer; a file that   *)
(* is not newer; a session that is adopted; one that is not.               *)
LEMMA MergeCases ==
  ASSUME NEW s \in Sessions, NEW d \in Files
  PROVE  LET m == merge(s, d)
         IN  /\ m \in Sessions
             /\ \/ /\ d.refusal > s.validated /\ d.refusal > s.refusal
                   /\ m.token = 0 /\ m.validated = s.validated /\ m.generation = s.generation + 1
                   /\ ~m.stale /\ m.refusal = d.refusal
                \/ /\ ~Newer(s, d.refusal)
                   /\ \/ m = s /\ ~Newer(s, d.validated)
                      \/ /\ Newer(s, d.validated) /\ d.refusal = 0 /\ d.token > expired
                         /\ m.token = d.token /\ m.validated = d.validated
                         /\ m.generation = s.generation + 1 /\ ~m.stale /\ m.refusal = 0
                      \/ /\ Newer(s, d.validated)
                         /\ m.token = s.token /\ m.validated = d.validated
                         /\ m.generation = s.generation /\ m.stale = s.stale /\ m.refusal = s.refusal
<1> DEFINE m == merge(s, d)
           n == s.generation + 1
<1>1. n \in Nat /\ d.refusal \in Nat /\ d.validated \in Nat /\ d.token \in Nat
  BY DEF Sessions, Files
<1>2. CASE Newer(s, d.refusal)
  <2>1. m = [s EXCEPT !.token = 0, !.generation = n, !.stale = FALSE, !.refusal = d.refusal]
    BY <1>2 DEF merge
  <2> HIDE DEF m, n
  <2>2. /\ m \in Sessions /\ m.token = 0 /\ m.validated = s.validated /\ m.generation = n
        /\ ~m.stale /\ m.refusal = d.refusal
    BY <1>1, <2>1, Zenon DEF Sessions
  <2> QED BY <1>2, <2>2 DEF Newer, m, n
<1>3. CASE ~Newer(s, d.refusal) /\ ~Newer(s, d.validated)
  BY <1>3 DEF merge
<1>4. CASE ~Newer(s, d.refusal) /\ Newer(s, d.validated) /\ Adopted(d)
  <2>1. m = [s EXCEPT !.token = d.token, !.validated = d.validated, !.generation = n,
                      !.stale = FALSE, !.refusal = 0]
    BY <1>4 DEF merge
  <2> HIDE DEF m, n
  <2>2. /\ m \in Sessions /\ m.token = d.token /\ m.validated = d.validated /\ m.generation = n
        /\ ~m.stale /\ m.refusal = 0
    BY <1>1, <2>1, Zenon DEF Sessions
  <2> QED BY <1>4, <2>2 DEF Adopted, m, n
<1>5. CASE ~Newer(s, d.refusal) /\ Newer(s, d.validated) /\ ~Adopted(d)
  <2>1. m = [s EXCEPT !.validated = d.validated]
    BY <1>5 DEF merge
  <2> HIDE DEF m
  <2>2. /\ m \in Sessions /\ m.token = s.token /\ m.validated = d.validated /\ m.generation = s.generation
        /\ m.stale = s.stale /\ m.refusal = s.refusal
    BY <1>1, <2>1 DEF Sessions
  <2> QED BY <1>5, <2>2 DEF m
<1> QED BY <1>2, <1>3, <1>4, <1>5

(* What a session knew of refusals it knows after a merge, and what the    *)
(* file knew too.                                                          *)
LEMMA MergeCovers ==
  ASSUME NEW s \in Sessions, NEW d \in Files, FileShape(d), NEW r \in Nat,
         d.refusal = s.validated => d.refusal = 0
  PROVE  /\ Covers(s, r) => Covers(merge(s, d), r)
         /\ Covers(d, r) => Covers(merge(s, d), r)
<1> DEFINE m == merge(s, d)
<1>1. /\ s.validated \in Nat /\ s.refusal \in Nat /\ d.validated \in Nat /\ d.refusal \in Nat
  BY DEF Sessions, Files
<1>2. m \in Sessions
  BY MergeCases
<1>3. m.validated \in Nat /\ m.refusal \in Nat
  BY <1>2 DEF Sessions
<1>4. \/ d.refusal > s.validated /\ d.refusal > s.refusal /\ m.validated = s.validated /\ m.refusal = d.refusal
      \/ /\ ~Newer(s, d.refusal)
         /\ \/ m.validated = s.validated /\ m.refusal = s.refusal /\ ~Newer(s, d.validated)
            \/ Newer(s, d.validated) /\ d.refusal = 0 /\ m.validated = d.validated /\ m.refusal = 0
            \/ Newer(s, d.validated) /\ m.validated = d.validated /\ m.refusal = s.refusal
  BY MergeCases
<1> HIDE DEF m
<1>5. (Covers(s, r) => Covers(m, r)) /\ (Covers(d, r) => Covers(m, r))
  BY <1>1, <1>3, <1>4 DEF Newer, FileShape, Covers
<1> QED BY <1>5 DEF m

LEMMA MergeShape ==
  ASSUME NEW s \in Sessions, NEW d \in Files, FileShape(d), SessionShape(s)
  PROVE  SessionShape(merge(s, d))
<1> DEFINE m == merge(s, d)
<1>1. /\ s.token \in Nat /\ s.validated \in Nat /\ s.refusal \in Nat /\ s.generation \in Nat
      /\ d.token \in Nat /\ d.validated \in Nat /\ d.refusal \in Nat
  BY DEF Sessions, Files
<1>2. \/ m.token = 0 /\ m.validated = s.validated
      \/ m = s
      \/ m.token = d.token /\ m.validated = d.validated /\ m.generation = s.generation + 1 /\ m.refusal = 0
      \/ /\ Newer(s, d.validated) /\ m.token = s.token /\ m.validated = d.validated
         /\ m.generation = s.generation /\ m.refusal = s.refusal
  BY MergeCases
<1> HIDE DEF m
<1>3. SessionShape(m)
  BY <1>1, <1>2 DEF Newer, FileShape, SessionShape
<1> QED BY <1>3 DEF m

(* An account remembers what it did of a session before the merge. *)
LEMMA MergeRemembers ==
  ASSUME NEW s \in Sessions, NEW d \in Files, FileShape(d), expired \in Nat,
         NEW r \in AccountRecords, Remembers(r, s)
  PROVE  Remembers(r, merge(s, d))
<1> DEFINE m == merge(s, d)
<1>1. /\ s.token \in Nat /\ s.validated \in Nat /\ s.refusal \in Nat /\ s.generation \in Nat
      /\ d.token \in Nat /\ d.validated \in Nat /\ d.refusal \in Nat
      /\ r.token \in Nat /\ r.generation \in Nat
  BY DEF Sessions, Files, AccountRecords
<1>2. \/ m.token = 0 /\ m.validated = s.validated /\ m.generation = s.generation + 1
      \/ m = s
      \/ /\ Newer(s, d.validated) /\ d.token > expired /\ m.token = d.token /\ m.validated = d.validated
         /\ m.generation = s.generation + 1
      \/ /\ Newer(s, d.validated) /\ m.token = s.token /\ m.validated = d.validated
         /\ m.generation = s.generation
  BY MergeCases
<1> HIDE DEF m
<1>3. Remembers(r, m)
  BY <1>1, <1>2 DEF Newer, FileShape, Remembers
<1> QED BY <1>3 DEF m

(* A token that a merge adopts is none of those rejected before. *)
StaleIn(s, tokens) == s.token # 0 => (s.stale <=> s.token \in tokens)

LEMMA MergeStale ==
  ASSUME NEW s \in Sessions, NEW d \in Files, FileShape(d), expired \in Nat,
         NEW tokens \in SUBSET Nat, \A t \in tokens : t <= s.validated, StaleIn(s, tokens)
  PROVE  StaleIn(merge(s, d), tokens) /\ \A t \in tokens : t <= merge(s, d).validated
<1> DEFINE m == merge(s, d)
<1>1. s.validated \in Nat /\ d.token \in Nat /\ d.validated \in Nat
  BY DEF Sessions, Files
<1>2. \/ m.token = 0 /\ m.validated = s.validated
      \/ m = s
      \/ Newer(s, d.validated) /\ d.token > expired /\ m.token = d.token /\ m.validated = d.validated /\ ~m.stale
      \/ Newer(s, d.validated) /\ m.token = s.token /\ m.validated = d.validated /\ m.stale = s.stale
  BY MergeCases
<1> HIDE DEF m
<1>3. \A t \in tokens : t <= m.validated
  <2>1. m.validated \in Nat /\ s.validated <= m.validated
    BY <1>1, <1>2 DEF Newer
  <2>2. ASSUME NEW t \in tokens PROVE t <= m.validated
    <3>1. t \in Nat /\ t <= s.validated
      BY Zenon
    <3> QED BY <1>1, <2>1, <3>1
  <2> QED BY <2>2
<1>4. StaleIn(m, tokens)
  BY <1>1, <1>2 DEF Newer, FileShape, StaleIn
<1> QED BY <1>3, <1>4 DEF m

(* What is written of a session. *)
LEMMA PersistedFields ==
  ASSUME NEW m \in Sessions
  PROVE  /\ Persisted(m) \in Files
         /\ Persisted(m).validated = m.validated /\ Persisted(m).refusal = m.refusal
         /\ Persisted(m).token = IF m.stale THEN 0 ELSE m.token
         /\ \A r : Covers(Persisted(m), r) <=> Covers(m, r)
<1> DEFINE t == IF m.stale THEN 0 ELSE m.token
           d == [token |-> t, validated |-> m.validated, refusal |-> m.refusal]
<1>1. t \in Nat /\ m.validated \in Nat /\ m.refusal \in Nat
  BY DEF Sessions
<1>2. Persisted(m) = d
  BY DEF Persisted
<1> HIDE DEF t
<1>3. d \in Files /\ d.validated = m.validated /\ d.refusal = m.refusal /\ d.token = t
  BY <1>1 DEF Files
<1> HIDE DEF d
<1> QED BY <1>2, <1>3 DEF Covers, t

(* A stale session is written without its token; what the merge took from  *)
(* the file goes back as it was.                                           *)
LEMMA StalePersisted ==
  ASSUME NEW s \in Sessions, s.stale, s.refusal = 0, NEW d \in Files, FileShape(d)
  PROVE  LET w == Persisted(merge(s, d))
         IN  /\ w \in Files /\ FileShape(w)
             /\ w.refusal = 0 \/ (w.refusal = d.refusal /\ ~Covers(s, d.refusal))
<1> DEFINE m == merge(s, d)
           w == Persisted(m)
<1>1. /\ s.token \in Nat /\ s.validated \in Nat /\ s.refusal \in Nat
      /\ d.token \in Nat /\ d.validated \in Nat /\ d.refusal \in Nat
  BY DEF Sessions, Files
<1>2. \/ /\ d.refusal > s.validated /\ m.token = 0 /\ m.validated = s.validated /\ m.refusal = d.refusal
      \/ m.stale /\ m.refusal = 0
      \/ m.token = d.token /\ m.validated = d.validated /\ m.refusal = 0
  BY MergeCases
<1>3. m \in Sessions
  BY MergeCases
<1>4. /\ w \in Files /\ w.validated = m.validated /\ w.refusal = m.refusal
      /\ w.token = IF m.stale THEN 0 ELSE m.token
  BY <1>3, PersistedFields
<1> HIDE DEF m, w
<1>5. FileShape(w) /\ (w.refusal = 0 \/ (w.refusal = d.refusal /\ ~Covers(s, d.refusal)))
  BY <1>1, <1>2, <1>4 DEF FileShape, Covers
<1> QED BY <1>4, <1>5 DEF m, w

(* The result of a cache.login is newer than any file. *)
LEMMA FreshMerge ==
  ASSUME NEW s \in Sessions, NEW d \in Files, d.validated < s.validated \/ d.validated < s.refusal,
         d.refusal < s.validated \/ d.refusal < s.refusal
  PROVE  merge(s, d) = s
<1>1. /\ s.validated \in Nat /\ s.refusal \in Nat /\ d.validated \in Nat /\ d.refusal \in Nat
  BY DEF Sessions, Files
<1>2. ~Newer(s, d.refusal) /\ ~Newer(s, d.validated)
  BY <1>1 DEF Newer
<1> QED BY <1>2 DEF merge

-----------------------------------------------------------------------------
(* What is done to an account leaves the session it remembers alone. *)
Keeps(r, h) == r \in AccountRecords /\ r.generation = h.generation /\ r.token = h.token

LEMMA KeepsRemembers ==
  ASSUME NEW r, NEW h, NEW s, Keeps(r, h), Remembers(h, s)
  PROVE  Remembers(r, s)
BY DEF Keeps, Remembers

LEMMA KeptRecords ==
  ASSUME NEW r \in AccountRecords, NEW b \in BOOLEAN
  PROVE  /\ Keeps(r, r)
         /\ Keeps([r EXCEPT !.cooling = b], r)
         /\ Keeps([r EXCEPT !.session = b], r)
         /\ Keeps([r EXCEPT !.disabled = b], r)
         /\ Keeps([r EXCEPT !.invalidations = 0], r)
         /\ Keeps(Disabled(r), r)
BY Zenon DEF Keeps, AccountRecords, Disabled

LEMMA SpentKeeps ==
  ASSUME NEW r \in AccountRecords
  PROVE  Keeps(Spent(r), r)
<1> DEFINE n == r.attempts + 1
<1>1. n \in Nat
  BY DEF AccountRecords
<1>2. Spent(r) = [r EXCEPT !.attempts = n]
  BY DEF Spent
<1> HIDE DEF n
<1> QED BY <1>1, <1>2 DEF Keeps, AccountRecords

LEMMA KeepsTrans ==
  ASSUME NEW r, NEW h, NEW g, Keeps(r, h), Keeps(h, g)
  PROVE  Keeps(r, g)
BY DEF Keeps

LEMMA SignalKeeps ==
  ASSUME NEW r \in AccountRecords, NEW signal
  PROVE  Keeps(global_signal(r, signal), r)
<1> DEFINE gone == Invalidated(r)
           n == r.invalidations + 1
           m == gone.devices + 1
           more == [gone EXCEPT !.devices = @ + 1]
           cool == [gone EXCEPT !.devices = @ + 1, !.cooling = TRUE]
<1>1. Keeps(gone, r)
  <2>1. n \in Nat
    BY DEF AccountRecords
  <2>2. gone = [r EXCEPT !.session = FALSE, !.invalidations = n]
    BY DEF Invalidated
  <2> HIDE DEF n
  <2> QED BY <2>1, <2>2, Zenon DEF Keeps, AccountRecords
<1>2. Keeps(more, r) /\ Keeps(cool, r)
  <2>1. gone \in AccountRecords /\ gone.generation = r.generation /\ gone.token = r.token
    BY <1>1 DEF Keeps
  <2> HIDE DEF gone
  <2>2. m \in Nat
    BY <2>1 DEF AccountRecords
  <2>3. more = [gone EXCEPT !.devices = m] /\ cool = [gone EXCEPT !.devices = m, !.cooling = TRUE]
    OBVIOUS
  <2> HIDE DEF m, more, cool
  <2> QED BY <2>1, <2>2, <2>3, Zenon DEF Keeps, AccountRecords
<1>3. Keeps(Disabled(more), r) /\ Keeps(Disabled(gone), r)
  <2>1. more \in AccountRecords /\ gone \in AccountRecords
    BY <1>1, <1>2 DEF Keeps
  <2>2. Keeps(Disabled(more), more) /\ Keeps(Disabled(gone), gone)
    BY <2>1, KeptRecords, Zenon
  <2> QED BY <1>1, <1>2, <2>2, KeepsTrans
<1>4. Keeps(Disabled([r EXCEPT !.session = FALSE]), r)
  <2>1. Keeps([r EXCEPT !.session = FALSE], r)
    BY KeptRecords, Zenon
  <2>2. [r EXCEPT !.session = FALSE] \in AccountRecords
    BY <2>1 DEF Keeps
  <2>3. Keeps(Disabled([r EXCEPT !.session = FALSE]), [r EXCEPT !.session = FALSE])
    BY <2>2, KeptRecords, Zenon
  <2> QED BY <2>1, <2>3, KeepsTrans
<1>5. /\ Keeps(r, r) /\ Keeps(Disabled(r), r)
      /\ Keeps([r EXCEPT !.invalidations = 0], r) /\ Keeps([r EXCEPT !.cooling = TRUE], r)
  BY KeptRecords, Zenon
<1>6. global_signal(r, signal) \in
        {[r EXCEPT !.invalidations = 0], Disabled([r EXCEPT !.session = FALSE]), Disabled(r),
         [r EXCEPT !.cooling = TRUE], Disabled(more), cool, Disabled(gone), gone, r}
  BY DEF global_signal
<1> HIDE DEF gone, more, cool
<1> QED BY <1>1, <1>2, <1>3, <1>4, <1>5, <1>6, Zenon

-----------------------------------------------------------------------------
LEMMA ActorFacts ==
  ASSUME NEW x \in Actors
  PROVE  /\ x[2] \in Accounts /\ ProcessOf(x) = Home(x[2]) /\ ProcessOf(x) \in Processes
         /\ x # None
<1>1. x \in {"call", "keepalive"} \X Accounts
  BY LoginAssumption DEF Actors, Callers, Keepers, Accounts
<1>2. x # None
  BY <1>1, NoneAssumption, Zenon DEF Accounts
<1>3. x[2] \in Accounts
  BY <1>1
<1> QED BY <1>2, <1>3 DEF ProcessOf, Home

LEMMA HeldFacts ==
  ASSUME LoginInv, NEW x \in Actors
  PROVE  /\ Held(x) \in AccountRecords /\ Remembers(Held(x), State(x))
         /\ State(x) \in Sessions /\ SessionShape(State(x))
<1>1. sdk[ProcessOf(x)] \in Sessions /\ SessionShape(sdk[ProcessOf(x)])
  BY ActorFacts DEF LoginInv, LoginTypeOK, Shapes
<1>2. actor[x] \in ActorRecords
  BY DEF LoginInv, LoginTypeOK
<1>3. CASE actor[x].old = None
  BY <1>1, <1>3, ActorFacts DEF LoginInv, LoginTypeOK, RejectedOK, Held, State
<1>4. CASE actor[x].old # None
  <2>1. actor[x].old \in AccountRecords
    BY <1>2, <1>4 DEF ActorRecords
  <2> QED BY <1>1, <1>4, <2>1 DEF LoginInv, RejectedOK, Held, State
<1> QED BY <1>1, <1>3, <1>4 DEF State

Resting == {"off", "asleep", "idle"}

LEMMA RestRecord ==
  ASSUME NEW x
  PROVE  /\ Rest(x) \in ActorRecords /\ Rest(x).pc \in Resting /\ Rest(x).old = None
         /\ Sleeping(x) \in ActorRecords /\ Sleeping(x).pc \in Resting /\ Sleeping(x).old = None
<1>1. \A pc \in Resting : LET r == [pc |-> pc, old |-> None]
                          IN  r \in ActorRecords /\ r.pc = pc /\ r.old = None
  BY DEF Resting, ActorRecords, Pcs
<1>2. \E pc \in Resting : Sleeping(x) = [pc |-> pc, old |-> None]
  BY DEF Sleeping, Resting
<1>3. \E pc \in Resting : Rest(x) = [pc |-> pc, old |-> None]
  BY <1>2 DEF Rest, Resting
<1> QED BY <1>1, <1>2, <1>3

LEMMA GoFacts ==
  ASSUME LoginTypeOK, NEW x \in Actors, NEW pc \in Pcs \cup {"done"}, NEW r \in AccountRecords, Go(x, pc, r)
  PROVE  /\ actor' \in [Actors -> ActorRecords]
         /\ account' \in [Accounts -> AccountRecords]
         /\ \A y \in Actors : y # x => actor'[y] = actor[y]
         /\ IF pc = "done" THEN actor'[x].pc \in Resting ELSE actor'[x].pc = pc
         /\ actor'[x].old \in {None, r}
         /\ \A a \in Accounts : account'[a] = account[a] \/ (a = x[2] /\ account'[a] = r)
<1>1. actor[x] \in ActorRecords
  BY DEF LoginTypeOK
<1>2. CASE pc = "done"
  BY <1>2, RestRecord, ActorFacts DEF LoginTypeOK, Go
<1>3. CASE pc # "done" /\ actor[x].old = None
  <2>1. [actor[x] EXCEPT !.pc = pc] \in ActorRecords /\ [actor[x] EXCEPT !.pc = pc].pc = pc
        /\ [actor[x] EXCEPT !.pc = pc].old = None
    BY <1>1, <1>3 DEF ActorRecords
  <2>2. actor' = [actor EXCEPT ![x] = [actor[x] EXCEPT !.pc = pc]]
    BY <1>3 DEF Go
  <2>3. account' = [account EXCEPT ![x[2]] = r]
    BY <1>3 DEF Go
  <2> QED BY <1>3, <2>1, <2>2, <2>3, ActorFacts DEF LoginTypeOK
<1>4. CASE pc # "done" /\ actor[x].old # None
  <2> DEFINE u == [actor[x] EXCEPT !.pc = pc, !.old = r]
  <2>1. u \in ActorRecords /\ u.pc = pc /\ u.old = r
    BY <1>1, <1>4, Zenon DEF ActorRecords
  <2>2. actor' = [actor EXCEPT ![x] = u]
    BY <1>4, Zenon DEF Go, LoginTypeOK
  <2> HIDE DEF u
  <2>3. account' = account
    BY <1>4 DEF Go
  <2> QED BY <1>4, <2>1, <2>2, <2>3 DEF LoginTypeOK
<1> QED BY <1>2, <1>3, <1>4

(* The accounts remember their sessions after a step that moves x along    *)
(* with account r, if what it does to a session lets them.                 *)
LEMMA GoRemembers ==
  ASSUME LoginInv, NEW x \in Actors, NEW pc \in Pcs \cup {"done"}, NEW r \in AccountRecords, Go(x, pc, r),
         Remembers(r, sdk'[ProcessOf(x)]),
         \A p \in Processes : \A h \in AccountRecords : Remembers(h, sdk[p]) => Remembers(h, sdk'[p]),
         \A p \in Processes : \A t \in rejected'[p] : t <= sdk'[p].validated
  PROVE  RejectedOK'
<1>1. /\ \A y \in Actors : y # x => actor'[y] = actor[y]
      /\ actor'[x].old \in {None, r}
      /\ \A a \in Accounts : account'[a] = account[a] \/ (a = x[2] /\ account'[a] = r)
  BY GoFacts DEF LoginInv
<1>2. ASSUME NEW a \in Accounts PROVE Remembers(account'[a], sdk'[Home(a)])
  <2>1. Home(a) \in Processes /\ account[a] \in AccountRecords /\ Remembers(account[a], sdk[Home(a)])
    BY DEF LoginInv, LoginTypeOK, RejectedOK, Home
  <2> QED BY <1>1, <2>1, ActorFacts
<1>3. ASSUME NEW y \in Actors, actor'[y].old # None PROVE Remembers(actor'[y].old, sdk'[ProcessOf(y)])
  <2>1. CASE y = x
    BY <1>1, <1>3, <2>1
  <2>2. CASE y # x
    <3>1. actor'[y] = actor[y] /\ actor[y] \in ActorRecords
      BY <1>1, <2>2 DEF LoginInv, LoginTypeOK
    <3>2. actor[y].old \in AccountRecords
      BY <1>3, <3>1 DEF ActorRecords
    <3>3. Remembers(actor[y].old, sdk[ProcessOf(y)])
      BY <1>3, <3>1 DEF LoginInv, RejectedOK
    <3> QED BY <3>1, <3>2, <3>3, ActorFacts
  <2> QED BY <2>1, <2>2
<1> QED BY <1>2, <1>3 DEF RejectedOK, Home, ProcessOf

(* A step that leaves the sessions, the file and the writes alone.  The    *)
(* lock of a worker that decides, waits for its answer or renames stays    *)
(* with it, and nobody comes to decide or to rename.                       *)
Calm(y) ==
  /\ actor'[y].pc = "decide" => actor[y].pc = "decide"
  /\ actor'[y].pc = "sdk" => actor[y].pc \in {"decide", "sdk"}
  /\ actor'[y].pc = "persist" <=> actor[y].pc = "persist"
  /\ actor'[y].pc \in {"decide", "sdk", "persist"} => (lock' = y <=> lock = y)

LEMMA QuietStep ==
  ASSUME LoginInv, UNCHANGED <<file, writing, clock>>, LoginTypeOK', RejectedOK', StaleExactly',
         \A p \in Processes :
           /\ sdk'[p].token = sdk[p].token /\ sdk'[p].validated = sdk[p].validated
           /\ sdk'[p].generation = sdk[p].generation /\ sdk'[p].refusal = sdk[p].refusal,
         \A y \in Actors : Calm(y)
  PROVE  LoginInv'
<1>1. UNCHANGED <<file, writing>>
  OBVIOUS
<1>2. Shapes' /\ TimesOK'
  <2>1. Validations' = Validations /\ Refusals' = Refusals
    BY <1>1 DEF Validations, Refusals
  <2>2. Shapes'
    BY <1>1 DEF LoginInv, Shapes, SessionShape, FileShape
  <2> QED BY <2>1, <2>2 DEF LoginInv, TimesOK
<1>3. LocksOK'
  BY <1>1 DEF LoginInv, LocksOK, Calm, At
<1>4. ASSUME NEW p \in Processes PROVE Locked(p)' <=> Locked(p)
  BY DEF Locked, At, Calm
<1>5. RefusalsOK'
  <2>1. ASSUME NEW p \in Processes PROVE Pending(p)' <=> Pending(p)
    BY <1>1, <1>4 DEF Pending
  <2>2. ASSUME NEW x \in Actors, At(x, "decide")' PROVE At(x, "decide")
    BY <2>2 DEF Calm, At
  <2>3. \A p \in Processes : \A t : Covers(sdk[p], t) => Covers(sdk'[p], t)
    BY DEF Covers
  <2>4. \A x \in Actors : \A t : Covers(State(x), t) => Covers(State(x)', t)
    BY <2>3, ActorFacts DEF State
  <2>5. /\ \A p \in Processes : writing[p] # None => Covers(sdk'[p], writing[p].refusal)
        /\ \A p \in Processes : Pending(p)' => Covers(file, writing[p].refusal)
    BY <2>1, <2>3 DEF LoginInv, RefusalsOK
  <2>6. \A p, q \in Processes :
          p # q /\ writing[p] # None =>
            /\ Pending(q)' => Covers(writing[p], writing[q].refusal)
            /\ Covers(writing[p], file.refusal) \/ Covers(sdk'[q], file.refusal)
    BY <2>1, <2>3 DEF LoginInv, RefusalsOK
  <2>7. \A x \in Actors : At(x, "decide")' =>
          /\ Covers(State(x)', file.refusal)
          /\ \A q \in Processes : writing[q] # None => Covers(State(x)', writing[q].refusal)
    BY <2>2, <2>4 DEF LoginInv, RefusalsOK
  <2> QED BY <1>1, <2>5, <2>6, <2>7 DEF RefusalsOK, Covers
<1> QED BY <1>2, <1>3, <1>5 DEF LoginInv

LEMMA CalmStep ==
  ASSUME LoginInv, UNCHANGED shared, UNCHANGED clock, LoginTypeOK', RejectedOK', \A y \in Actors : Calm(y)
  PROVE  LoginInv'
<1>1. StaleExactly'
  BY DEF LoginInv, StaleExactly, shared
<1> QED BY <1>1, QuietStep DEF shared

(* The same, of a step that moves x along. *)
LEMMA GoCalm ==
  ASSUME LoginInv, NEW x \in Actors, NEW pc \in Pcs \cup {"done"}, NEW r \in AccountRecords, Go(x, pc, r),
         actor[x].pc # "persist",
         pc \notin {"decide", "persist"}, pc = "sdk" => actor[x].pc = "decide",
         UNCHANGED lock \/ (Released(x) /\ pc # "sdk")
  PROVE  \A y \in Actors : Calm(y)
<1>1. /\ \A y \in Actors : y # x => actor'[y] = actor[y]
      /\ IF pc = "done" THEN actor'[x].pc \in Resting ELSE actor'[x].pc = pc
  BY GoFacts DEF LoginInv
<1> SUFFICES ASSUME NEW y \in Actors PROVE Calm(y)
  OBVIOUS
<1>2. CASE y = x
  BY <1>1, <1>2 DEF Calm, Resting
<1>3. CASE y # x
  <2>1. lock' = y <=> lock = y
    BY <1>3, ActorFacts DEF Released
  <2> QED BY <1>1, <1>3, <2>1 DEF Calm
<1> QED BY <1>2, <1>3

LEMMA CalmGo ==
  ASSUME LoginInv, NEW x \in Actors, NEW pc \in Pcs \cup {"done"}, NEW r \in AccountRecords, Go(x, pc, r),
         Remembers(r, State(x)), UNCHANGED shared, UNCHANGED clocks,
         actor[x].pc # "persist",
         pc \notin {"decide", "persist"}, pc = "sdk" => actor[x].pc = "decide",
         UNCHANGED lock \/ (Released(x) /\ pc # "sdk")
  PROVE  LoginInv'
<1>1. /\ actor' \in [Actors -> ActorRecords] /\ account' \in [Accounts -> AccountRecords]
  BY GoFacts DEF LoginInv
<1>2. LoginTypeOK'
  BY <1>1 DEF LoginInv, LoginTypeOK, shared, clocks
<1>3. RejectedOK'
  BY GoRemembers, Zenon DEF State, shared, LoginInv, RejectedOK
<1>4. \A y \in Actors : Calm(y)
  BY GoCalm
<1> QED BY <1>2, <1>3, <1>4, CalmStep DEF clocks

LEMMA LoginWithRecord ==
  ASSUME NEW r \in AccountRecords, NEW s \in Sessions, SessionShape(s)
  PROVE  LoginWith(r, s) \in AccountRecords /\ Remembers(LoginWith(r, s), s)
<1> DEFINE u == Spent(r)
           w == [u EXCEPT !.generation = s.generation, !.token = s.token]
<1>1. u \in AccountRecords
  BY SpentKeeps DEF Keeps
<1> HIDE DEF u
<1>2. s.generation \in Nat /\ s.token \in Nat /\ s.validated \in Nat
  BY DEF Sessions
<1>3. w \in AccountRecords /\ w.generation = s.generation /\ w.token = s.token
  BY <1>1, <1>2, Zenon DEF AccountRecords
<1> HIDE DEF w
<1>4. Remembers(w, s)
  BY <1>2, <1>3 DEF Remembers, SessionShape
<1>5. LoginWith(r, s) = w
  BY DEF LoginWith, w, u
<1> QED BY <1>3, <1>4, <1>5

(* What the steps of x below make of the account it holds. *)
LEMMA HeldKept ==
  ASSUME LoginInv, NEW x \in Actors, NEW r,
         r \in {Held(x), Disabled(Held(x)), [Held(x) EXCEPT !.cooling = TRUE], [Held(x) EXCEPT !.session = TRUE],
                Spent(Held(x)), LoginWith(Held(x), State(x))}
  PROVE  r \in AccountRecords /\ Remembers(r, State(x))
<1> DEFINE h == Held(x)
<1>1. h \in AccountRecords /\ Remembers(h, State(x)) /\ State(x) \in Sessions /\ SessionShape(State(x))
  BY HeldFacts
<1>2. /\ Keeps(h, h) /\ Keeps(Disabled(h), h) /\ Keeps([h EXCEPT !.cooling = TRUE], h)
      /\ Keeps([h EXCEPT !.session = TRUE], h) /\ Keeps(Spent(h), h)
  BY <1>1, KeptRecords, SpentKeeps, Zenon
<1>3. CASE r = LoginWith(h, State(x))
  BY <1>1, <1>3, LoginWithRecord
<1>4. CASE Keeps(r, h)
  BY <1>1, <1>4, KeepsRemembers DEF Keeps
<1> HIDE DEF h
<1> QED BY <1>2, <1>3, <1>4, Zenon DEF h

LEMMA CallerStepsInv ==
  ASSUME LoginInv, NEW x \in Actors,
         \/ account_auth(x) \/ sdk_keepalive(x) \/ HourPasses(x) \/ TakeLogin(x) \/ Found(x)
         \/ KeepaliveSkipped(x) \/ revalidate(x) \/ Failed(x) \/ Cancelled(x)
  PROVE  LoginInv'
<1>1. UNCHANGED shared /\ UNCHANGED clocks
  BY DEF account_auth, sdk_keepalive, HourPasses, TakeLogin, Found, KeepaliveSkipped, revalidate, Failed, Cancelled
<1>2. CASE account_auth(x) \/ sdk_keepalive(x) \/ HourPasses(x) \/ TakeLogin(x)
  <2>1. UNCHANGED lock /\ actor[x].pc # "persist"
    BY <1>2 DEF account_auth, sdk_keepalive, HourPasses, TakeLogin, At, locks
  <2>2. PICK pc \in {"done", "player", "login", "idle", "lock"},
             r \in {Held(x), Disabled(Held(x)), [Held(x) EXCEPT !.cooling = TRUE], LoginWith(Held(x), State(x))} :
               Go(x, pc, r)
    BY <1>2 DEF account_auth, sdk_keepalive, HourPasses, TakeLogin
  <2>3. r \in AccountRecords /\ Remembers(r, State(x))
    BY HeldKept
  <2> QED BY <1>1, <2>1, <2>2, <2>3, CalmGo DEF Pcs
<1>3. CASE Found(x) \/ KeepaliveSkipped(x) \/ Failed(x) \/ Cancelled(x)
  <2>1. Released(x) /\ actor[x].pc # "persist"
    BY <1>3, Zenon DEF Found, KeepaliveSkipped, Failed, Cancelled, At
  <2>2. PICK pc \in {"done", "player"}, r \in {Held(x), Disabled(Held(x)), LoginWith(Held(x), State(x))} :
               Go(x, pc, r)
    BY <1>3, Zenon DEF Found, KeepaliveSkipped, Failed, Cancelled
  <2>3. r \in AccountRecords /\ Remembers(r, State(x))
    BY HeldKept
  <2> QED BY <1>1, <2>1, <2>2, <2>3, CalmGo DEF Pcs
<1>4. CASE revalidate(x)
  <2>1. actor[x].pc = "decide"
    BY <1>4, Zenon DEF revalidate, At
  <2>2. (Go(x, "done", Held(x)) /\ Released(x)) \/ (Go(x, "sdk", Spent(Held(x))) /\ UNCHANGED lock)
    BY <1>4, Zenon DEF revalidate, locks
  <2>3. CASE Go(x, "done", Held(x)) /\ Released(x)
    BY <1>1, <2>1, <2>3, HeldKept, CalmGo
  <2>4. CASE Go(x, "sdk", Spent(Held(x))) /\ UNCHANGED lock
    BY <1>1, <2>1, <2>4, HeldKept, CalmGo DEF Pcs
  <2> QED BY <2>2, <2>3, <2>4, Zenon
<1> QED BY <1>2, <1>3, <1>4

-----------------------------------------------------------------------------
(* Accounts that are replaced, or whose clocks run, remember as they did. *)
LEMMA NewRemembers ==
  ASSUME NEW s \in Sessions, SessionShape(s), NEW r \in AccountRecords
  PROVE  /\ NewAccount \in AccountRecords /\ Remembers(NewAccount, s)
         /\ Inherited(r) \in AccountRecords /\ Remembers(Inherited(r), s)
<1>1. s.token \in Nat /\ s.validated \in Nat /\ s.generation \in Nat /\ r.attempts \in Nat /\ r.devices \in Nat
  BY DEF Sessions, AccountRecords
<1>2. NewAccount \in AccountRecords /\ NewAccount.generation = 0 /\ NewAccount.token = 0
  BY Zenon DEF NewAccount, AccountRecords
<1>3. Inherited(r) \in AccountRecords /\ Inherited(r).generation = 0 /\ Inherited(r).token = 0
  BY <1>1, <1>2, Zenon DEF Inherited, AccountRecords
<1> QED BY <1>1, <1>2, <1>3 DEF Remembers, SessionShape

LEMMA ReloadInv ==
  ASSUME LoginInv, NEW a \in Service, reload_accounts(a)
  PROVE  LoginInv'
<1> DEFINE keeper == <<"keepalive", a>>
           r == Inherited(account[a])
<1>1. UNCHANGED shared /\ UNCHANGED locks /\ UNCHANGED clocks
  BY DEF reload_accounts
<1>2. a \in Accounts /\ Home(a) = "service"
  BY DEF Accounts, Home
<1>3. r \in AccountRecords /\ Remembers(r, sdk["service"])
  BY <1>2, NewRemembers, Zenon DEF LoginInv, LoginTypeOK, Shapes
<1> HIDE DEF r
<1>4. account' = [account EXCEPT ![a] = r]
  BY DEF reload_accounts, r
<1>5. account' \in [Accounts -> AccountRecords] /\ \A b \in Accounts : Remembers(account'[b], sdk[Home(b)])
  BY <1>2, <1>3, <1>4 DEF LoginInv, LoginTypeOK, RejectedOK
<1>6. /\ actor' \in [Actors -> ActorRecords]
      /\ \A y \in Actors : actor'[y].pc = actor[y].pc
      /\ \A y \in Actors : actor'[y].old # None => Remembers(actor'[y].old, sdk[ProcessOf(y)])
  <2>1. CASE actor' = actor
    BY <2>1 DEF LoginInv, LoginTypeOK, RejectedOK
  <2>2. CASE a \in Keepalive /\ actor' = [actor EXCEPT ![keeper].old = Held(keeper)]
    <3>1. keeper \in Actors
      BY <2>2 DEF Actors, Keepers
    <3> HIDE DEF keeper
    <3>2. Held(keeper) \in AccountRecords /\ Remembers(Held(keeper), sdk[ProcessOf(keeper)])
      BY <3>1, HeldFacts DEF State
    <3>3. PICK u : u = [actor[keeper] EXCEPT !.old = Held(keeper)] /\ actor' = [actor EXCEPT ![keeper] = u]
      BY <2>2, Zenon
    <3>4. u \in ActorRecords /\ u.pc = actor[keeper].pc /\ u.old = Held(keeper)
      BY <3>1, <3>2, <3>3 DEF LoginInv, LoginTypeOK, ActorRecords
    <3> QED BY <3>1, <3>2, <3>3, <3>4 DEF LoginInv, LoginTypeOK, RejectedOK
  <2> QED BY <2>1, <2>2, Zenon DEF reload_accounts
<1>7. LoginTypeOK'
  BY <1>1, <1>5, <1>6 DEF LoginInv, LoginTypeOK, shared, clocks
<1>8. RejectedOK'
  BY <1>1, <1>5, <1>6, Zenon DEF LoginInv, RejectedOK, shared, Home, ProcessOf, Remembers
<1>9. \A y \in Actors : Calm(y)
  BY <1>1, <1>6 DEF Calm, locks
<1> QED BY <1>1, <1>7, <1>8, <1>9, CalmStep DEF clocks

LEMMA ClocksInv ==
  ASSUME LoginInv,
         \/ TokensExpire \/ RefusalsLapse \/ SessionsAge
         \/ \E a \in Accounts : CooldownEnds(a) \/ WindowPasses(a)
  PROVE  LoginInv'
<1>1. UNCHANGED shared /\ UNCHANGED locks /\ UNCHANGED actor /\ UNCHANGED clock
  BY Zenon DEF TokensExpire, RefusalsLapse, SessionsAge, CooldownEnds, WindowPasses, clocks
<1>2. lapsed' \in Nat /\ expired' \in Nat /\ aged' \in Nat
  BY Zenon DEF TokensExpire, RefusalsLapse, SessionsAge, CooldownEnds, WindowPasses, clocks, LoginInv, LoginTypeOK
<1>3. /\ account' \in [Accounts -> AccountRecords]
      /\ \A a \in Accounts : account'[a].generation = account[a].generation /\ account'[a].token = account[a].token
  <2>1. CASE UNCHANGED account
    BY <2>1 DEF LoginInv, LoginTypeOK
  <2>2. ASSUME NEW a \in Accounts, CooldownEnds(a) \/ WindowPasses(a)
        PROVE  <1>3!1 /\ <1>3!2
    <3> DEFINE u == [account[a] EXCEPT !.cooling = FALSE]
               w == [account[a] EXCEPT !.cooling = FALSE, !.attempts = 0, !.devices = 0]
    <3>1. account[a] \in AccountRecords
      BY DEF LoginInv, LoginTypeOK
    <3>2. u \in AccountRecords /\ u.generation = account[a].generation /\ u.token = account[a].token
      BY <3>1, Zenon DEF AccountRecords
    <3>3. w \in AccountRecords /\ w.generation = account[a].generation /\ w.token = account[a].token
      BY <3>1, Zenon DEF AccountRecords
    <3>4. CASE CooldownEnds(a)
      <4>1. account' = [account EXCEPT ![a] = u]
        BY <3>4 DEF CooldownEnds
      <4> HIDE DEF u
      <4> QED BY <3>2, <4>1 DEF LoginInv, LoginTypeOK
    <3>5. CASE WindowPasses(a)
      <4>1. account' = [account EXCEPT ![a] = w]
        BY <3>5, Zenon DEF WindowPasses, LoginInv, LoginTypeOK
      <4> HIDE DEF w
      <4> QED BY <3>3, <4>1 DEF LoginInv, LoginTypeOK
    <3> QED BY <2>2, <3>4, <3>5
  <2> QED BY <2>1, <2>2 DEF TokensExpire, RefusalsLapse, SessionsAge
<1>4. LoginTypeOK'
  BY <1>1, <1>2, <1>3 DEF LoginInv, LoginTypeOK, shared
<1>5. RejectedOK'
  BY <1>1, <1>3 DEF LoginInv, RejectedOK, Remembers, shared, Home, ProcessOf
<1>6. \A y \in Actors : Calm(y)
  BY <1>1 DEF Calm, locks
<1> QED BY <1>1, <1>4, <1>5, <1>6, CalmStep

-----------------------------------------------------------------------------
(* Times are of the past, and no validation is a refusal. *)
LEMMA NextNatural == \A n \in Nat : n + 1 \in Nat /\ n + 1 > n /\ n + 1 >= n
OBVIOUS

LEMMA IntervalBound == \A n \in Nat : \A t \in 0 .. n : t <= n
OBVIOUS

LEMMA BelowNext == \A n, t \in Nat : t <= n => t < n + 1
OBVIOUS

LEMMA TimesFacts ==
  ASSUME LoginInv, NEW p \in Processes, NEW q \in Processes
  PROVE  /\ sdk[p].validated \in 0 .. clock /\ sdk[p].refusal \in 0 .. clock
         /\ file.validated \in 0 .. clock /\ file.refusal \in 0 .. clock
         /\ file.refusal = sdk[p].validated => file.refusal = 0
         /\ writing[q] # None => writing[q].refusal \in 0 .. clock /\ writing[q].validated \in 0 .. clock
<1>1. sdk[p].validated \in Validations /\ file.validated \in Validations
  BY DEF Validations
<1>2. sdk[p].refusal \in Refusals /\ file.refusal \in Refusals
  BY DEF Refusals
<1>3. writing[q] # None => writing[q].refusal \in Refusals /\ writing[q].validated \in Validations
  BY DEF Refusals, Validations
<1>4. Validations \subseteq 0 .. clock /\ Refusals \subseteq 0 .. clock /\ Validations \cap Refusals \subseteq {0}
  BY DEF LoginInv, TimesOK
<1> QED BY <1>1, <1>2, <1>3, <1>4, Zenon

(* No step makes up a time, except the result of a cache.login. *)
LEMMA TimesStep ==
  ASSUME LoginInv, clock' \in Nat, clock' >= clock, NEW V, NEW R, Validations' \subseteq V, Refusals' \subseteq R,
         \/ V = Validations \cup {0} /\ R = Refusals \cup {0}
         \/ V = Validations \cup {clock'} /\ R = Refusals \cup {0} /\ clock' > clock
         \/ V = Validations /\ R = Refusals \cup {0, clock'} /\ clock' > clock
  PROVE  TimesOK'
<1>1. /\ \A t \in Validations : t \in Nat /\ t <= clock
      /\ \A t \in Refusals : t \in Nat /\ t <= clock
      /\ \A t \in Validations : t \in Refusals => t = 0
      /\ clock \in Nat
  BY DEF LoginInv, TimesOK, LoginTypeOK
<1>2. ASSUME NEW t \in V PROVE t \in 0 .. clock'
  BY <1>1
<1>3. ASSUME NEW t \in R PROVE t \in 0 .. clock'
  BY <1>1
<1>4. ASSUME NEW t \in V, t \in R PROVE t = 0
  BY <1>1, <1>4
<1> QED BY <1>2, <1>3, <1>4 DEF TimesOK

LEMMA TimesKept ==
  ASSUME LoginInv, UNCHANGED clock, Validations' \subseteq Validations \cup {0}, Refusals' \subseteq Refusals \cup {0}
  PROVE  TimesOK'
<1>1. clock' \in Nat /\ clock' >= clock
  BY DEF LoginInv, LoginTypeOK
<1> QED BY <1>1, TimesStep, Zenon

(* The state file is merged into the session of p. *)
LEMMA MergedTimes ==
  ASSUME NEW s \in Sessions, NEW d \in Files
  PROVE  /\ merge(s, d) \in Sessions
         /\ merge(s, d).validated \in {s.validated, d.validated}
         /\ merge(s, d).refusal \in {s.refusal, d.refusal, 0}
BY MergeCases

LEMMA ExclusiveInv ==
  ASSUME LoginInv, NEW x \in Actors, exclusive(x)
  PROVE  LoginInv'
<1> DEFINE p == ProcessOf(x)
           s == sdk[p]
           m == merge(s, file)
<1>1. p \in Processes /\ s \in Sessions /\ file \in Files /\ FileShape(file) /\ SessionShape(s) /\ expired \in Nat
  BY ActorFacts DEF LoginInv, LoginTypeOK, Shapes
<1>2. /\ UNCHANGED <<file, writing, rejected, clock, lapsed, expired, aged>> /\ sdk' = [sdk EXCEPT ![p] = m]
      /\ lock = None /\ lock' = x /\ writing[p] = None /\ Go(x, "decide", Held(x))
  BY DEF exclusive, Unlocked, clocks
<1> HIDE DEF p
<1>3. m \in Sessions /\ m.validated \in {s.validated, file.validated} /\ m.refusal \in {s.refusal, file.refusal, 0}
  BY <1>1, MergedTimes
<1>4. /\ sdk' \in [Processes -> Sessions] /\ sdk'[p] = m
      /\ \A q \in Processes : q # p => sdk'[q] = sdk[q]
  BY <1>1, <1>2, <1>3 DEF LoginInv, LoginTypeOK
<1>5. Held(x) \in AccountRecords /\ Remembers(Held(x), s)
  BY HeldFacts DEF State, p
<1>6. /\ actor' \in [Actors -> ActorRecords] /\ account' \in [Accounts -> AccountRecords]
      /\ \A y \in Actors : y # x => actor'[y] = actor[y]
      /\ actor'[x].pc = "decide"
  BY <1>2, <1>5, GoFacts DEF LoginInv, Pcs
<1>7. LoginTypeOK'
  BY <1>2, <1>4, <1>6 DEF LoginInv, LoginTypeOK
<1>8. Shapes'
  <2>1. SessionShape(m)
    BY <1>1, MergeShape
  <2> QED BY <1>2, <1>4, <2>1, Zenon DEF LoginInv, Shapes, SessionShape, FileShape
<1>9. TimesOK'
  <2>1. Validations' \subseteq Validations \cup {0}
    BY <1>1, <1>2, <1>3, <1>4, Zenon DEF Validations
  <2>2. Refusals' \subseteq Refusals \cup {0}
    BY <1>1, <1>2, <1>3, <1>4 DEF Refusals
  <2> QED BY <1>2, <2>1, <2>2, TimesKept, Zenon
<1>10. \A h \in AccountRecords : Remembers(h, s) => Remembers(h, m)
  BY <1>1, MergeRemembers
<1>11. StaleIn(m, rejected[p]) /\ \A t \in rejected[p] : t <= m.validated
  <2>1. /\ StaleIn(s, rejected[p]) /\ rejected[p] \in SUBSET Nat
        /\ \A t \in rejected[p] : t <= s.validated
    BY <1>1 DEF LoginInv, LoginTypeOK, StaleExactly, StaleIn, RejectedOK
  <2> QED BY <1>1, <2>1, MergeStale
<1> HIDE DEF m
<1>12. StaleExactly'
  BY <1>2, <1>4, <1>11 DEF LoginInv, StaleExactly, StaleIn
<1>13. RejectedOK'
  <2>1. Remembers(Held(x), sdk'[ProcessOf(x)])
    BY <1>4, <1>5, <1>10 DEF p
  <2>2. \A q \in Processes : \A h \in AccountRecords : Remembers(h, sdk[q]) => Remembers(h, sdk'[q])
    BY <1>4, <1>10
  <2>3. \A q \in Processes : \A t \in rejected'[q] : t <= sdk'[q].validated
    BY <1>2, <1>4, <1>11, Zenon DEF LoginInv, RejectedOK
  <2> QED BY <1>2, <1>5, <2>1, <2>2, <2>3, GoRemembers, Zenon DEF Pcs
<1>14. \A y \in Actors : actor[y].pc \notin {"decide", "sdk"}
  BY <1>2, ActorFacts DEF LoginInv, LocksOK
<1>15. LocksOK'
  BY <1>2, <1>6, <1>14 DEF LoginInv, LocksOK, At
<1>16. ASSUME NEW r \in Nat PROVE (Covers(s, r) => Covers(m, r)) /\ (Covers(file, r) => Covers(m, r))
  BY <1>1, MergeCovers, TimesFacts DEF m
<1>17. RefusalsOK'
  <2>1. \A q \in Processes : ~Locked(q) /\ ~Locked(q)'
    BY <1>2, <1>6, ActorFacts, Zenon DEF Locked, At
  <2>2. file.refusal \in Nat /\ \A q \in Processes : writing[q] # None => writing[q].refusal \in Nat
    BY Zenon DEF LoginInv, LoginTypeOK, Files
  <2>3. Covers(m, file.refusal)
    <3>1. Covers(file, file.refusal)
      BY <2>2 DEF Covers
    <3> QED BY <1>16, <2>2, <3>1, Zenon
  <2>4. ASSUME NEW q \in Processes, writing[q] # None PROVE Covers(m, writing[q].refusal)
    BY <1>16, <2>1, <2>2, <2>4 DEF LoginInv, RefusalsOK, Pending
  <2>5. \A y \in Actors : At(y, "decide")' => y = x
    BY <1>6, <1>14 DEF At
  <2>6. State(x)' = m
    BY <1>4 DEF State, p
  <2>7. \A q \in Processes : Pending(q)' <=> Pending(q)
    BY <1>2, <2>1 DEF Pending
  <2>8. \A q \in Processes : Covers(sdk[q], file.refusal) => Covers(sdk'[q], file.refusal)
    BY <1>4, <1>16, <2>2
  <2>9. \A q \in Processes : writing[q] # None => Covers(sdk'[q], writing[q].refusal)
    BY <1>2, <1>4 DEF LoginInv, RefusalsOK
  <2> QED BY <1>2, <2>3, <2>4, <2>5, <2>6, <2>7, <2>8, <2>9, Zenon DEF LoginInv, RefusalsOK, Covers
<1> QED BY <1>7, <1>8, <1>9, <1>12, <1>13, <1>15, <1>17 DEF LoginInv

-----------------------------------------------------------------------------
(* x has a session m of its process to write.  The times and the refusals  *)
(* are a matter of what m is.                                              *)
LEMMA WriteStep ==
  ASSUME LoginInv, NEW x \in Actors, NEW p, p = ProcessOf(x), writing[p] = None,
         NEW m \in Sessions, NEW r \in AccountRecords, NEW tokens \in SUBSET Nat,
         sdk' = [sdk EXCEPT ![p] = m], writing' = [writing EXCEPT ![p] = Persisted(m)],
         rejected' = [rejected EXCEPT ![p] = tokens], UNCHANGED <<file, lock, lapsed, expired, aged>>,
         clock' \in Nat, Go(x, "persist", r), SessionShape(m), FileShape(Persisted(m)),
         StaleIn(m, tokens), \A t \in tokens : t <= m.validated,
         Remembers(r, m), \A h \in AccountRecords : Remembers(h, sdk[p]) => Remembers(h, m),
         TimesOK', RefusalsOK'
  PROVE  LoginInv'
<1>1. p \in Processes
  BY ActorFacts
<1>2. Persisted(m) \in Files /\ Persisted(m) # None
  <2>1. Persisted(m) \in Files
    BY PersistedFields
  <2> QED BY <2>1, NoneAssumption
<1> DEFINE w == Persisted(m)
<1> HIDE DEF w
<1>3. /\ sdk' \in [Processes -> Sessions] /\ sdk'[p] = m
      /\ \A q \in Processes : q # p => sdk'[q] = sdk[q]
  BY <1>1 DEF LoginInv, LoginTypeOK
<1>4. /\ writing' \in [Processes -> Files \cup {None}] /\ writing'[p] = w
      /\ \A q \in Processes : q # p => writing'[q] = writing[q]
  BY <1>1, <1>2 DEF LoginInv, LoginTypeOK, w
<1>5. /\ rejected' \in [Processes -> SUBSET Nat] /\ rejected'[p] = tokens
      /\ \A q \in Processes : q # p => rejected'[q] = rejected[q]
  BY <1>1 DEF LoginInv, LoginTypeOK
<1>6. /\ actor' \in [Actors -> ActorRecords] /\ account' \in [Accounts -> AccountRecords]
      /\ \A y \in Actors : y # x => actor'[y] = actor[y]
      /\ actor'[x].pc = "persist"
  BY GoFacts, Zenon DEF LoginInv, Pcs
<1>7. LoginTypeOK'
  BY <1>3, <1>4, <1>5, <1>6, Zenon DEF LoginInv, LoginTypeOK
<1>8. Shapes'
  <2>1. \A q \in Processes : SessionShape(sdk'[q])
    BY <1>3, Zenon DEF LoginInv, Shapes
  <2>2. \A q \in Processes : writing'[q] # None => FileShape(writing'[q])
    BY <1>4, Zenon DEF LoginInv, Shapes, w
  <2> QED BY <2>1, <2>2, Zenon DEF LoginInv, Shapes, SessionShape, FileShape
<1>9. StaleExactly'
  BY <1>3, <1>5, Zenon DEF LoginInv, StaleExactly, StaleIn
<1>10. RejectedOK'
  <2>1. Remembers(r, sdk'[ProcessOf(x)])
    BY <1>3
  <2>2. \A q \in Processes : \A h \in AccountRecords : Remembers(h, sdk[q]) => Remembers(h, sdk'[q])
    BY <1>3
  <2>3. \A q \in Processes : \A t \in rejected'[q] : t <= sdk'[q].validated
    BY <1>3, <1>5, Zenon DEF LoginInv, RejectedOK
  <2> QED BY <2>1, <2>2, <2>3, GoRemembers, Zenon DEF Pcs
<1>11. LocksOK'
  <2>1. \A y \in Actors : At(y, "persist") => ProcessOf(y) # p
    BY Zenon DEF LoginInv, LocksOK
  <2>2. \A y \in Actors : ProcessOf(y) \in Processes
    BY ActorFacts
  <2>3. \A y \in Actors : At(y, "persist")' => writing'[ProcessOf(y)] # None
    BY <1>2, <1>4, <1>6, <2>1, <2>2, Zenon DEF LoginInv, LocksOK, At, w
  <2>4. \A y \in Actors : actor'[y].pc \in {"decide", "sdk"} => lock' = y
    BY <1>6, Zenon DEF LoginInv, LocksOK
  <2>5. \A y, z \in Actors : At(y, "persist")' /\ At(z, "persist")' /\ ProcessOf(y) = ProcessOf(z) => y = z
    <3> SUFFICES ASSUME NEW y \in Actors, NEW z \in Actors, At(y, "persist")', At(z, "persist")',
                        ProcessOf(y) = ProcessOf(z)
                 PROVE  y = z
      BY Zenon
    <3>1. y # x /\ z # x => At(y, "persist") /\ At(z, "persist")
      BY <1>6 DEF At
    <3>2. CASE y # x /\ z # x
      BY <3>1, <3>2, Zenon DEF LoginInv, LocksOK
    <3>3. CASE y = x \/ z = x
      BY <1>6, <2>1, <3>3 DEF At
    <3> QED BY <3>2, <3>3
  <2> QED BY <2>3, <2>4, <2>5, Zenon DEF LocksOK, ProcessOf
<1> QED BY <1>7, <1>8, <1>9, <1>10, <1>11 DEF LoginInv

(* The times of a session that x is to write. *)
LEMMA WrittenTimes ==
  ASSUME LoginInv, NEW p \in Processes, NEW m \in Sessions,
         sdk' = [sdk EXCEPT ![p] = m], writing' = [writing EXCEPT ![p] = Persisted(m)], UNCHANGED file
  PROVE  /\ Validations' \subseteq Validations \cup {m.validated}
         /\ Refusals' \subseteq Refusals \cup {m.refusal}
<1>1. Persisted(m).validated = m.validated /\ Persisted(m).refusal = m.refusal
  BY PersistedFields
<1>2. sdk'[p] = m /\ \A q \in Processes : q # p => sdk'[q] = sdk[q]
  BY DEF LoginInv, LoginTypeOK
<1>3. writing'[p] = Persisted(m) /\ \A q \in Processes : q # p => writing'[q] = writing[q]
  BY DEF LoginInv, LoginTypeOK
<1>4. Validations' \subseteq Validations \cup {m.validated}
  BY <1>1, <1>2, <1>3 DEF Validations
<1>5. Refusals' \subseteq Refusals \cup {m.refusal}
  BY <1>1, <1>2, <1>3 DEF Refusals
<1> QED BY <1>4, <1>5

(* The result of a cache.login: later than whatever anyone knows, and      *)
(* written by the holder of the lock file.                                 *)
FreshOf(m, s, now) ==
  /\ m \in Sessions /\ ~m.stale /\ m.generation = s.generation + 1
  /\ \/ m.token = now + 1 /\ m.validated = now + 1 /\ m.refusal = 0
     \/ m.token = 0 /\ m.validated = s.validated /\ m.refusal = now + 1

LEMMA FreshRemembers ==
  ASSUME NEW now \in Nat, NEW s \in Sessions, s.validated <= now, NEW m, FreshOf(m, s, now),
         NEW h \in AccountRecords, Remembers(h, s)
  PROVE  Remembers(h, m)
<1>1. /\ s.validated \in Nat /\ s.generation \in Nat /\ h.token \in Nat /\ h.generation \in Nat
  BY Zenon DEF Sessions, AccountRecords
<1>2. h.token <= s.validated /\ h.generation <= s.generation
  BY Zenon DEF Remembers
<1>3. /\ m.generation = s.generation + 1
      /\ \/ m.token = now + 1 /\ m.validated = now + 1
         \/ m.token = 0 /\ m.validated = s.validated
  BY Zenon DEF FreshOf
<1> QED BY <1>1, <1>2, <1>3 DEF Remembers

LEMMA SameRemembers ==
  ASSUME NEW m \in Sessions, NEW r \in AccountRecords,
         r.token = m.token, r.generation = m.generation, m.token = m.validated
  PROVE  Remembers(r, m)
<1>1. m.validated \in Nat /\ m.generation \in Nat
  BY Zenon DEF Sessions
<1> QED BY <1>1 DEF Remembers

LEMMA FreshFacts ==
  ASSUME NEW now \in Nat, NEW s \in Sessions, SessionShape(s), s.validated <= now,
         NEW m, FreshOf(m, s, now)
  PROVE  /\ m \in Sessions /\ SessionShape(m) /\ FileShape(Persisted(m))
         /\ \A t \in 0 .. now : Covers(m, t) /\ Covers(Persisted(m), t)
         /\ Covers(m, Persisted(m).refusal)
         /\ \A d \in Files : d.validated <= now /\ d.refusal <= now => merge(m, d) = m
         /\ \A h \in AccountRecords : Remembers(h, s) => Remembers(h, m)
         /\ \A tokens \in SUBSET Nat :
              (\A t \in tokens : t <= s.validated) =>
                StaleIn(m, tokens) /\ \A t \in tokens : t <= m.validated
<1>1. /\ m \in Sessions /\ ~m.stale /\ m.generation = s.generation + 1
      /\ \/ m.token = now + 1 /\ m.validated = now + 1 /\ m.refusal = 0
         \/ m.token = 0 /\ m.validated = s.validated /\ m.refusal = now + 1
  BY DEF FreshOf
<1>2. /\ s.token \in Nat /\ s.validated \in Nat /\ s.generation \in Nat /\ s.refusal \in Nat
      /\ s.token <= s.validated
  BY DEF Sessions, SessionShape
<1>3. /\ Persisted(m).validated = m.validated /\ Persisted(m).refusal = m.refusal /\ Persisted(m).token = m.token
  BY <1>1, PersistedFields
<1>4. SessionShape(m) /\ FileShape(Persisted(m))
  BY <1>1, <1>2, <1>3 DEF SessionShape, FileShape
<1>5. ASSUME NEW t \in 0 .. now PROVE Covers(m, t) /\ Covers(Persisted(m), t)
  BY <1>1, <1>2, <1>3 DEF Covers
<1>6. Covers(m, Persisted(m).refusal)
  BY <1>1, <1>3 DEF Covers
<1>7. ASSUME NEW d \in Files, d.validated <= now, d.refusal <= now PROVE merge(m, d) = m
  <2>1. d.validated \in Nat /\ d.refusal \in Nat
    BY DEF Files
  <2> QED BY <1>1, <1>2, <1>7, <2>1, FreshMerge
<1>8. ASSUME NEW h \in AccountRecords, Remembers(h, s) PROVE Remembers(h, m)
  <2>1. h.token \in Nat /\ h.generation \in Nat
    BY DEF AccountRecords
  <2> QED BY <1>1, <1>2, <1>8, <2>1 DEF Remembers
<1>9. ASSUME NEW tokens \in SUBSET Nat, \A t \in tokens : t <= s.validated
      PROVE  StaleIn(m, tokens) /\ \A t \in tokens : t <= m.validated
  BY <1>1, <1>2, <1>9 DEF StaleIn
<1> QED BY <1>1, <1>4, <1>5, <1>6, <1>7, <1>8, <1>9

LEMMA FreshInv ==
  ASSUME LoginInv, NEW x \in Actors, NEW p, p = ProcessOf(x), writing[p] = None, At(x, "sdk"),
         NEW m, FreshOf(m, sdk[p], clock), persist(p, m), clock' = clock + 1,
         NEW r \in AccountRecords, Go(x, "persist", r), Remembers(r, m),
         UNCHANGED <<file, rejected, lock, lapsed, expired, aged>>
  PROVE  LoginInv'
<1>1. p \in Processes /\ sdk[p] \in Sessions /\ SessionShape(sdk[p]) /\ file \in Files /\ clock \in Nat
  BY ActorFacts, Zenon DEF LoginInv, LoginTypeOK, Shapes
<1>2. sdk[p].validated <= clock /\ file.validated <= clock /\ file.refusal <= clock
  <2>1. sdk[p].validated \in 0 .. clock /\ file.validated \in 0 .. clock /\ file.refusal \in 0 .. clock
    BY <1>1, TimesFacts, Zenon
  <2> QED BY <1>1, <2>1, IntervalBound, Zenon
<1>3. /\ m \in Sessions /\ SessionShape(m) /\ FileShape(Persisted(m))
      /\ \A t \in 0 .. clock : Covers(m, t) /\ Covers(Persisted(m), t)
      /\ Covers(m, Persisted(m).refusal)
      /\ \A d \in Files : d.validated <= clock /\ d.refusal <= clock => merge(m, d) = m
      /\ \A h \in AccountRecords : Remembers(h, sdk[p]) => Remembers(h, m)
      /\ \A tokens \in SUBSET Nat :
           (\A t \in tokens : t <= sdk[p].validated) =>
             StaleIn(m, tokens) /\ \A t \in tokens : t <= m.validated
  <2>1. PICK now \in Nat, s \in Sessions : now = clock /\ s = sdk[p]
    BY <1>1, Zenon
  <2> QED BY <1>1, <1>2, <2>1, FreshFacts, Zenon
<1>4. merge(m, file) = m
  BY <1>1, <1>2, <1>3, Zenon
<1>5. sdk' = [sdk EXCEPT ![p] = m] /\ writing' = [writing EXCEPT ![p] = Persisted(m)]
  BY <1>4, Zenon DEF persist
<1>7. lock = x /\ actor'[x].pc = "persist" /\ \A y \in Actors : y # x => actor'[y] = actor[y]
  <2>1. "persist" \in Pcs
    BY DEF Pcs
  <2>2. actor'[x].pc = "persist" /\ \A y \in Actors : y # x => actor'[y] = actor[y]
    BY <2>1, GoFacts, Zenon DEF LoginInv
  <2>3. lock = x
    BY DEF LoginInv, LocksOK, At
  <2> QED BY <2>2, <2>3
<1>9. StaleIn(m, rejected[p]) /\ \A t \in rejected[p] : t <= m.validated
  <2>1. rejected[p] \in SUBSET Nat /\ \A t \in rejected[p] : t <= sdk[p].validated
    BY <1>1, Zenon DEF LoginInv, LoginTypeOK, RejectedOK
  <2> QED BY <1>3, <2>1, Zenon
<1>10. ASSUME NEW h \in AccountRecords, Remembers(h, sdk[p]) PROVE Remembers(h, m)
  BY <1>3, <1>10, Zenon
<1>11. TimesOK'
  <2>1. Validations' \subseteq Validations \cup {m.validated} /\ Refusals' \subseteq Refusals \cup {m.refusal}
    BY <1>1, <1>3, <1>5, WrittenTimes, Zenon
  <2>2. clock' \in Nat /\ clock' > clock /\ clock' >= clock
    <3>1. clock \in Nat /\ clock' = clock + 1
      BY <1>1, Zenon
    <3> QED BY <3>1, NextNatural, Zenon
  <2>3. sdk[p].validated \in Validations
    BY <1>1 DEF Validations
  <2>a. \/ m.validated = clock + 1 /\ m.refusal = 0
        \/ m.validated = sdk[p].validated /\ m.refusal = clock + 1
    BY DEF FreshOf
  <2>4. CASE m.validated = clock + 1 /\ m.refusal = 0
    <3>1. Validations' \subseteq Validations \cup {clock'} /\ Refusals' \subseteq Refusals \cup {0}
      BY <2>1, <2>4
    <3> QED BY <2>2, <3>1, TimesStep, Zenon
  <2>5. CASE m.validated = sdk[p].validated /\ m.refusal = clock + 1
    <3>1. Validations' \subseteq Validations /\ Refusals' \subseteq Refusals \cup {0, clock'}
      BY <2>1, <2>3, <2>5
    <3> QED BY <2>2, <3>1, TimesStep, Zenon
  <2> QED BY <2>a, <2>4, <2>5, Zenon
<1>12. RefusalsOK'
  <2>1. /\ sdk'[p] = m /\ writing'[p] = Persisted(m)
        /\ \A q \in Processes : q # p => sdk'[q] = sdk[q] /\ writing'[q] = writing[q]
    BY <1>1, <1>5, Zenon DEF LoginInv, LoginTypeOK
  <2>2. Locked(p)' /\ \A q \in Processes : q # p => ~Locked(q) /\ ~Locked(q)'
    BY <1>7, Zenon DEF Locked, At, ProcessOf
  <2>3. ~Pending(p)' /\ \A q \in Processes : q # p => (Pending(q)' <=> Pending(q))
    BY <2>1, <2>2 DEF Pending
  <2>4. \A y \in Actors : ~At(y, "decide")'
    BY <1>7 DEF LoginInv, LocksOK, At
  <2>5. Covers(m, file.refusal) /\ Covers(Persisted(m), file.refusal)
    <3>1. file.refusal \in 0 .. clock
      BY <1>1, TimesFacts
    <3> QED BY <1>3, <3>1, Zenon
  <2>6. ASSUME NEW q \in Processes, writing[q] # None PROVE Covers(Persisted(m), writing[q].refusal)
    <3>1. writing[q].refusal \in 0 .. clock
      BY <1>1, <2>6, TimesFacts
    <3> QED BY <1>3, <3>1, Zenon
  <2>7. Covers(m, Persisted(m).refusal)
    BY <1>3, Zenon
  <2>8. /\ \A q \in Processes : writing'[q] # None => Covers(sdk'[q], writing'[q].refusal)
        /\ \A q \in Processes : Pending(q)' => Covers(file, writing'[q].refusal)
    BY <2>1, <2>3, <2>7, Zenon DEF LoginInv, RefusalsOK
  <2>9. ASSUME NEW a \in Processes, NEW b \in Processes, a # b, writing'[a] # None
        PROVE  /\ Pending(b)' => Covers(writing'[a], writing'[b].refusal)
               /\ Covers(writing'[a], file.refusal) \/ Covers(sdk'[b], file.refusal)
    <3>1. CASE a = p
      BY <2>1, <2>3, <2>5, <2>6, <2>9, <3>1, Zenon DEF Pending
    <3>2. CASE b = p
      BY <2>1, <2>3, <2>5, <2>9, <3>2, Zenon
    <3>3. a = p \/ b = p
      BY <1>1, <2>9
    <3> QED BY <3>1, <3>2, <3>3
  <2> QED BY <2>4, <2>8, <2>9, Zenon DEF RefusalsOK, Covers
<1>13. rejected[p] \in SUBSET Nat /\ rejected' = [rejected EXCEPT ![p] = rejected[p]] /\ clock' \in Nat
  <2>1. rejected[p] \in SUBSET Nat /\ rejected \in [Processes -> SUBSET Nat]
    BY <1>1, Zenon DEF LoginInv, LoginTypeOK
  <2>2. rejected' = [rejected EXCEPT ![p] = rejected[p]]
    BY <1>1, <2>1
  <2>3. PICK now \in Nat : now = clock /\ clock' = now + 1
    BY <1>1, Zenon
  <2>4. clock' \in Nat
    BY <2>3
  <2> QED BY <2>1, <2>2, <2>4, Zenon
<1> QED BY <1>3, <1>5, <1>9, <1>10, <1>11, <1>12, <1>13, WriteStep, Zenon

LEMMA ValidatedInv ==
  ASSUME LoginInv, NEW x \in Actors, Validated(x)
  PROVE  LoginInv'
<1> DEFINE p == ProcessOf(x)
           n == sdk[p].generation + 1
           c == clock + 1
           m == [token |-> c, validated |-> c, generation |-> n, stale |-> FALSE, refusal |-> 0]
           h == Held(x)
           u == [h EXCEPT !.generation = n, !.token = c]
<1>1. p \in Processes /\ sdk[p] \in Sessions /\ clock \in Nat /\ h \in AccountRecords /\ Remembers(h, sdk[p])
  BY ActorFacts, HeldFacts DEF LoginInv, LoginTypeOK, State
<1>2. n \in Nat /\ c \in Nat /\ sdk[p].generation \in Nat /\ sdk[p].validated \in Nat
  <2>1. sdk[p].generation \in Nat /\ sdk[p].validated \in Nat
    BY <1>1, Zenon DEF Sessions
  <2> QED BY <1>1, <2>1, NextNatural, Zenon
<1>3. sdk[p].validated <= clock /\ file.validated <= clock /\ file.refusal <= clock
  <2>1. sdk[p].validated \in 0 .. clock /\ file.validated \in 0 .. clock /\ file.refusal \in 0 .. clock
    BY <1>1, TimesFacts
  <2> QED BY <1>1, <2>1, IntervalBound, Zenon
<1>4. /\ UNCHANGED <<file, rejected, lock, lapsed, expired, aged>> /\ clock' = clock + 1
      /\ At(x, "sdk") /\ writing[p] = None /\ persist(p, m)
  BY DEF Validated, Unlocked, validated, locks
<1>5. sdk' = [sdk EXCEPT ![p] = merge(m, file)]
  BY <1>4 DEF persist
<1>6. Go(x, "persist", IF x \in Callers THEN [h EXCEPT !.generation = sdk'[p].generation, !.token = clock + 1] ELSE h)
  BY DEF Validated
<1> HIDE DEF n, c, h, p
<1>7. /\ m \in Sessions /\ m.token = c /\ m.validated = c /\ m.generation = n /\ m.stale = FALSE /\ m.refusal = 0
  BY <1>2, Zenon DEF Sessions
<1>8. u \in AccountRecords /\ u.generation = n /\ u.token = c
  BY <1>1, <1>2, Zenon DEF AccountRecords
<1>9. file \in Files /\ file.validated \in Nat /\ file.refusal \in Nat
  BY DEF LoginInv, LoginTypeOK, Files
<1> HIDE DEF m
<1>10. merge(m, file) = m
  <2>1. file.validated < c /\ file.refusal < c
    BY <1>1, <1>3, <1>9, BelowNext, Zenon DEF c
  <2> QED BY <1>7, <1>9, <2>1, FreshMerge, Zenon
<1>11. sdk'[p].generation = n
  BY <1>1, <1>5, <1>7, <1>10 DEF LoginInv, LoginTypeOK
<1>12. Go(x, "persist", IF x \in Callers THEN u ELSE h)
  BY <1>6, <1>11 DEF c
<1> HIDE DEF u
<1>13. FreshOf(m, sdk[p], clock)
  BY <1>7 DEF FreshOf, n, c
<1>14. Remembers(u, m) /\ Remembers(h, m)
  BY <1>1, <1>3, <1>7, <1>8, <1>13, FreshRemembers, SameRemembers, Zenon
<1>15. CASE x \in Callers
  BY <1>4, <1>8, <1>12, <1>13, <1>14, <1>15, FreshInv, Zenon DEF p
<1>16. CASE x \notin Callers
  BY <1>1, <1>4, <1>12, <1>13, <1>14, <1>16, FreshInv DEF p
<1> QED BY <1>15, <1>16

LEMMA RefusedInv ==
  ASSUME LoginInv, NEW x \in Actors, Refused(x)
  PROVE  LoginInv'
<1> DEFINE p == ProcessOf(x)
           n == sdk[p].generation + 1
           c == clock + 1
           v == sdk[p].validated
           m == [token |-> 0, validated |-> v, generation |-> n, stale |-> FALSE, refusal |-> c]
           h == Held(x)
<1>1. p \in Processes /\ sdk[p] \in Sessions /\ clock \in Nat /\ h \in AccountRecords /\ Remembers(h, sdk[p])
  BY ActorFacts, HeldFacts DEF LoginInv, LoginTypeOK, State
<1>2. n \in Nat /\ c \in Nat /\ v \in Nat /\ sdk[p].generation \in Nat
  <2>1. sdk[p].generation \in Nat /\ v \in Nat
    BY <1>1, Zenon DEF Sessions
  <2> QED BY <1>1, <2>1, NextNatural, Zenon
<1>3. /\ UNCHANGED <<file, rejected, lock, lapsed, expired, aged>> /\ clock' = clock + 1
      /\ At(x, "sdk") /\ writing[p] = None /\ persist(p, m) /\ Go(x, "persist", Disabled(h))
  BY DEF Refused, Unlocked, refused, locks
<1>4. Keeps(Disabled(h), h)
  BY <1>1, KeptRecords, Zenon
<1> HIDE DEF n, c, h, p, v
<1>5. /\ m \in Sessions /\ m.token = 0 /\ m.validated = v /\ m.generation = n /\ m.stale = FALSE /\ m.refusal = c
  BY <1>2, Zenon DEF Sessions
<1> HIDE DEF m
<1>6. FreshOf(m, sdk[p], clock)
  BY <1>5 DEF FreshOf, n, c, v
<1>7. Remembers(h, m)
  <2>1. sdk[p].validated <= clock
    BY <1>1, TimesFacts, IntervalBound, Zenon
  <2> QED BY <1>1, <1>6, <2>1, FreshRemembers, Zenon
<1>8. Disabled(h) \in AccountRecords /\ Remembers(Disabled(h), m)
  BY <1>4, <1>7, KeepsRemembers DEF Keeps
<1> QED BY <1>3, <1>6, <1>8, FreshInv, Zenon DEF p

(* The new file is in place, or it is not; either way its writer is done.  *)
LEMMA PersistInv ==
  ASSUME LoginInv, NEW x \in Actors, Persist(x)
  PROVE  LoginInv'
<1> DEFINE p == ProcessOf(x)
<1>1. /\ p \in Processes /\ At(x, "persist") /\ file' \in {file, writing[p]} /\ Released(x)
      /\ writing' = [writing EXCEPT ![p] = None] /\ UNCHANGED <<sdk, rejected, clock, lapsed, expired, aged>>
  BY ActorFacts DEF Persist, clocks
<1>2. PICK pc \in {"player", "done"} : Go(x, pc, Held(x))
  BY Zenon DEF Persist
<1> HIDE DEF p
<1>3. Held(x) \in AccountRecords /\ Remembers(Held(x), sdk[p])
  BY HeldFacts DEF State, p
<1>4. /\ actor' \in [Actors -> ActorRecords] /\ account' \in [Accounts -> AccountRecords]
      /\ \A y \in Actors : y # x => actor'[y] = actor[y]
      /\ actor'[x].pc \in Resting \cup {"player"}
  BY <1>2, <1>3, GoFacts, Zenon DEF LoginInv, Pcs
<1>5. writing[p] # None /\ writing[p] \in Files /\ FileShape(writing[p])
  BY <1>1 DEF LoginInv, LoginTypeOK, LocksOK, Shapes, p
<1>6. /\ writing' \in [Processes -> Files \cup {None}] /\ writing'[p] = None
      /\ \A q \in Processes : q # p => writing'[q] = writing[q]
  BY <1>1 DEF LoginInv, LoginTypeOK
<1>7. LoginTypeOK'
  BY <1>1, <1>4, <1>5, <1>6, Zenon DEF LoginInv, LoginTypeOK
<1>8. Shapes' /\ StaleExactly'
  <2>1. FileShape(file')
    BY <1>1, <1>5, Zenon DEF LoginInv, Shapes
  <2>2. \A q \in Processes : writing'[q] # None => FileShape(writing'[q])
    BY <1>6 DEF LoginInv, Shapes
  <2> QED BY <1>1, <2>1, <2>2, Zenon DEF LoginInv, Shapes, SessionShape, FileShape, StaleExactly
<1>9. TimesOK'
  <2>1. Validations' \subseteq Validations \cup {0}
    BY <1>1, <1>5, <1>6 DEF Validations
  <2>2. Refusals' \subseteq Refusals \cup {0}
    BY <1>1, <1>5, <1>6 DEF Refusals
  <2> QED BY <1>1, <2>1, <2>2, TimesKept
<1>10. RejectedOK'
  BY <1>1, <1>2, <1>3, GoRemembers, Zenon DEF p, Pcs, LoginInv, RejectedOK
<1>11. \A y \in Actors : y # x => (lock' = y <=> lock = y)
  BY <1>1, ActorFacts DEF Released
<1>12. \A y \in Actors : At(y, "persist")' => ProcessOf(y) # p
  BY <1>1, <1>4 DEF LoginInv, LocksOK, At, Resting, p
<1>13. LocksOK'
  <2>1. \A y \in Actors : ProcessOf(y) \in Processes
    BY ActorFacts
  <2>2. \A y \in Actors : actor'[y].pc \in {"decide", "sdk"} => lock' = y
    BY <1>4, <1>11 DEF LoginInv, LocksOK, Resting
  <2>3. \A y \in Actors : At(y, "persist")' => writing'[ProcessOf(y)] # None
    BY <1>4, <1>6, <1>12, <2>1 DEF LoginInv, LocksOK, At, Resting
  <2>4. \A y, z \in Actors : At(y, "persist")' /\ At(z, "persist")' /\ ProcessOf(y) = ProcessOf(z) => y = z
    BY <1>4 DEF LoginInv, LocksOK, At, Resting
  <2> QED BY <2>2, <2>3, <2>4 DEF LocksOK, ProcessOf
<1>14. RefusalsOK'
  <2>1. \A q \in Processes : q # p => (Locked(q)' <=> Locked(q))
    <3>1. \A y \in Actors : ProcessOf(y) # p => y # x
      BY DEF p
    <3>2. \A y \in Actors : y # x => (At(y, "persist")' <=> At(y, "persist"))
      BY <1>4 DEF At
    <3>3. \A y \in Actors : y # x => (lock' = y <=> lock = y)
      BY <1>11
    <3> QED BY <3>1, <3>2, <3>3, Zenon DEF Locked
  <2>2. ~Pending(p)' /\ \A q \in Processes : q # p => (Pending(q)' <=> Pending(q))
    BY <1>6, <2>1 DEF Pending
  <2>3. ASSUME NEW q \in Processes, writing'[q] # None PROVE Covers(sdk'[q], writing'[q].refusal)
    BY <1>1, <1>6, <2>3, Zenon DEF LoginInv, RefusalsOK
  <2>4. ASSUME NEW q \in Processes, Pending(q)' PROVE Covers(file', writing'[q].refusal)
    <3>1. q # p /\ Pending(q) /\ writing'[q] = writing[q]
      BY <1>6, <2>2, <2>4
    <3>2. Covers(file, writing[q].refusal) /\ Covers(writing[p], writing[q].refusal)
      BY <1>1, <1>5, <3>1 DEF LoginInv, RefusalsOK
    <3> QED BY <1>1, <3>1, <3>2, Zenon
  <2>5. ASSUME NEW a \in Processes, NEW b \in Processes, a # b, writing'[a] # None
        PROVE  /\ Pending(b)' => Covers(writing'[a], writing'[b].refusal)
               /\ Covers(writing'[a], file'.refusal) \/ Covers(sdk'[b], file'.refusal)
    <3>1. a # p /\ b = p /\ writing'[a] = writing[a] /\ ~Pending(b)'
      BY <1>1, <1>6, <2>2, <2>5
    <3>2. Covers(sdk[p], writing[p].refusal)
      BY <1>1, <1>5, Zenon DEF LoginInv, RefusalsOK
    <3>3. Covers(writing[a], file.refusal) \/ Covers(sdk[b], file.refusal)
      BY <2>5, <3>1, Zenon DEF LoginInv, RefusalsOK
    <3> QED BY <1>1, <3>1, <3>2, <3>3
  <2>6. ASSUME NEW y \in Actors, At(y, "decide")'
        PROVE  /\ Covers(State(y)', file'.refusal)
               /\ \A q \in Processes : writing'[q] # None => Covers(State(y)', writing'[q].refusal)
    <3>1. At(y, "decide") /\ State(y)' = State(y)
      BY <1>1, <1>4, <2>6, Zenon DEF At, Resting, State
    <3>2. /\ Covers(State(y), file.refusal)
          /\ \A q \in Processes : writing[q] # None => Covers(State(y), writing[q].refusal)
      BY <3>1, Zenon DEF LoginInv, RefusalsOK
    <3> QED BY <1>1, <1>5, <1>6, <3>1, <3>2
  <2> QED BY <2>3, <2>4, <2>5, <2>6, Zenon DEF RefusalsOK, Covers
<1> QED BY <1>7, <1>8, <1>9, <1>10, <1>13, <1>14 DEF LoginInv

-----------------------------------------------------------------------------
(* A TOKEN_* signal about a token that is gone, or known to be rejected,   *)
(* or when there is none: the session stays as good as it was.             *)
LEMMA LateSignalInv ==
  ASSUME LoginInv, NEW x \in Actors, NEW p, p = ProcessOf(x), actor[x].pc \in {"player", "idle"},
         NEW r \in AccountRecords, Remembers(r, sdk[p]), Go(x, "done", r),
         rejected' = [rejected EXCEPT ![p] = @ \union {Held(x).token}],
         UNCHANGED <<file, writing, lock, clock, lapsed, expired, aged>>,
         \/ Ignored(sdk[p], Held(x).generation) /\ UNCHANGED sdk
         \/ sdk[p].token = 0 /\ sdk' = [sdk EXCEPT ![p].stale = TRUE]
  PROVE  LoginInv'
<1>1. p \in Processes /\ sdk[p] \in Sessions /\ SessionShape(sdk[p])
  BY ActorFacts DEF LoginInv, LoginTypeOK, Shapes
<1>2. Held(x) \in AccountRecords /\ Remembers(Held(x), sdk[p])
  BY HeldFacts DEF State
<1>3. Held(x).token \in Nat
  BY <1>2 DEF AccountRecords
<1>4. /\ rejected' \in [Processes -> SUBSET Nat] /\ rejected'[p] = rejected[p] \cup {Held(x).token}
      /\ \A q \in Processes : q # p => rejected'[q] = rejected[q]
  BY <1>1, <1>3 DEF LoginInv, LoginTypeOK
<1>5. /\ sdk' \in [Processes -> Sessions] /\ \A q \in Processes : q # p => sdk'[q] = sdk[q]
      /\ sdk'[p].token = sdk[p].token /\ sdk'[p].validated = sdk[p].validated
      /\ sdk'[p].generation = sdk[p].generation /\ sdk'[p].refusal = sdk[p].refusal
  <2>1. CASE UNCHANGED sdk
    BY <2>1 DEF LoginInv, LoginTypeOK
  <2>2. CASE sdk' = [sdk EXCEPT ![p].stale = TRUE]
    <3>1. PICK u : u = [sdk[p] EXCEPT !.stale = TRUE] /\ sdk' = [sdk EXCEPT ![p] = u]
      BY <2>2, Zenon
    <3>2. /\ u \in Sessions /\ u.token = sdk[p].token /\ u.validated = sdk[p].validated
          /\ u.generation = sdk[p].generation /\ u.refusal = sdk[p].refusal
      BY <1>1, <3>1, Zenon DEF Sessions
    <3> QED BY <1>1, <3>1, <3>2 DEF LoginInv, LoginTypeOK
  <2> QED BY <2>1, <2>2
<1>6. \A q \in Processes :
        /\ sdk'[q].token = sdk[q].token /\ sdk'[q].validated = sdk[q].validated
        /\ sdk'[q].generation = sdk[q].generation /\ sdk'[q].refusal = sdk[q].refusal
  BY <1>5
<1>7. /\ actor' \in [Actors -> ActorRecords] /\ account' \in [Accounts -> AccountRecords]
  BY GoFacts DEF LoginInv
<1>8. LoginTypeOK'
  BY <1>4, <1>5, <1>7 DEF LoginInv, LoginTypeOK
<1>9. RejectedOK'
  <2>1. \A q \in Processes : \A h : Remembers(h, sdk[q]) => Remembers(h, sdk'[q])
    BY <1>6 DEF Remembers
  <2>2. \A t \in rejected'[p] : t <= sdk'[p].validated
    BY <1>1, <1>2, <1>4, <1>6 DEF LoginInv, RejectedOK, Remembers
  <2>3. \A q \in Processes : \A t \in rejected'[q] : t <= sdk'[q].validated
    BY <1>4, <1>6, <2>2 DEF LoginInv, RejectedOK
  <2> QED BY <1>1, <2>1, <2>3, GoRemembers
<1>10. StaleExactly'
  <2>1. \A q \in Processes : q # p => (sdk'[q].token # 0 => (sdk'[q].stale <=> sdk'[q].token \in rejected'[q]))
    BY <1>4, <1>5 DEF LoginInv, StaleExactly
  <2>2. ASSUME sdk'[p].token # 0 PROVE sdk'[p].stale <=> sdk'[p].token \in rejected'[p]
    <3>1. UNCHANGED sdk /\ (sdk[p].generation # Held(x).generation \/ sdk[p].stale)
      BY <1>5, <2>2 DEF Ignored
    <3>2. sdk[p].stale <=> sdk[p].token \in rejected[p]
      BY <1>1, <2>2, <3>1 DEF LoginInv, StaleExactly
    <3>3. CASE sdk[p].stale
      BY <1>4, <3>1, <3>2, <3>3
    <3>4. CASE sdk[p].generation # Held(x).generation
      <4>1. Held(x).token < sdk[p].token /\ sdk[p].token \in Nat
        BY <1>1, <1>2, <2>2, <3>1, <3>4 DEF Remembers, Sessions
      <4> QED BY <1>3, <1>4, <3>1, <3>2, <4>1
    <3> QED BY <3>1, <3>3, <3>4
  <2> QED BY <2>1, <2>2 DEF StaleExactly
<1>11. \A y \in Actors : Calm(y)
  BY GoCalm
<1> QED BY <1>6, <1>8, <1>9, <1>10, <1>11, QuietStep

(* A TOKEN_* signal about the session's token: the token is given up, and  *)
(* what the file says is taken over before it is written again.            *)
LEMMA StaleSignalInv ==
  ASSUME LoginInv, NEW x \in Actors, NEW p, p = ProcessOf(x), actor[x].pc \in {"player", "idle"}, writing[p] = None,
         NEW r \in AccountRecords, Remembers(r, sdk[p]), Go(x, "persist", r),
         rejected' = [rejected EXCEPT ![p] = @ \union {Held(x).token}],
         UNCHANGED <<file, lock, clock, lapsed, expired, aged>>,
         ~Ignored(sdk[p], Held(x).generation), sdk[p].token # 0,
         persist(p, [sdk[p] EXCEPT !.stale = TRUE])
  PROVE  LoginInv'
<1>1. /\ p \in Processes /\ sdk[p] \in Sessions /\ SessionShape(sdk[p]) /\ file \in Files /\ FileShape(file)
      /\ expired \in Nat /\ clock' \in Nat
  BY ActorFacts DEF LoginInv, LoginTypeOK, Shapes
<1>2. Held(x) \in AccountRecords /\ Remembers(Held(x), sdk[p])
  BY HeldFacts DEF State
<1>3. Held(x).token \in Nat /\ Held(x).token = sdk[p].token
  BY <1>2 DEF AccountRecords, Ignored, Remembers
<1>4. PICK s : s = [sdk[p] EXCEPT !.stale = TRUE]
  OBVIOUS
<1>5. /\ s \in Sessions /\ s.token = sdk[p].token /\ s.validated = sdk[p].validated
      /\ s.generation = sdk[p].generation /\ s.refusal = sdk[p].refusal /\ s.stale
  BY <1>1, <1>4, Zenon DEF Sessions
<1>6. persist(p, s)
  BY <1>4
<1>7. PICK m : m = merge(s, file) /\ sdk' = [sdk EXCEPT ![p] = m] /\ writing' = [writing EXCEPT ![p] = Persisted(m)]
  BY <1>6, Zenon DEF persist
<1>8. PICK tokens : tokens = rejected[p] \cup {Held(x).token}
  BY Zenon
<1>9. s.refusal = 0 /\ SessionShape(s)
  BY <1>1, <1>5 DEF SessionShape
<1>10. /\ m \in Sessions /\ m.validated \in {sdk[p].validated, file.validated}
       /\ m.refusal \in {0, sdk[p].refusal, file.refusal}
  BY <1>1, <1>5, <1>7, MergedTimes
<1>11. SessionShape(m)
  BY <1>1, <1>5, <1>7, <1>9, MergeShape
<1>12. /\ FileShape(Persisted(m)) /\ Persisted(m) \in Files
       /\ Persisted(m).refusal = 0 \/ (Persisted(m).refusal = file.refusal /\ ~Covers(sdk[p], file.refusal))
  <2>1. Covers(s, file.refusal) <=> Covers(sdk[p], file.refusal)
    BY <1>5 DEF Covers
  <2> QED BY <1>1, <1>5, <1>7, <1>9, <2>1, StalePersisted
<1>13. /\ tokens \in SUBSET Nat /\ StaleIn(m, tokens) /\ \A t \in tokens : t <= m.validated
  <2>1. tokens \in SUBSET Nat
    BY <1>1, <1>3, <1>8 DEF LoginInv, LoginTypeOK
  <2>2. \A t \in tokens : t <= s.validated
    BY <1>1, <1>2, <1>5, <1>8 DEF LoginInv, RejectedOK, Remembers
  <2>3. StaleIn(s, tokens)
    BY <1>3, <1>5, <1>8 DEF StaleIn
  <2> QED BY <1>1, <1>5, <1>7, <2>1, <2>2, <2>3, MergeStale
<1>14. ASSUME NEW h \in AccountRecords, Remembers(h, sdk[p]) PROVE Remembers(h, m)
  <2>1. Remembers(h, s)
    BY <1>5, <1>14 DEF Remembers
  <2> QED BY <1>1, <1>5, <1>7, <2>1, MergeRemembers
<1>15. TimesOK'
  <2>1. Validations' \subseteq Validations \cup {m.validated} /\ Refusals' \subseteq Refusals \cup {m.refusal}
    BY <1>1, <1>7, <1>10, WrittenTimes, Zenon
  <2>2. m.validated \in Validations /\ m.refusal \in Refusals \cup {0}
    BY <1>1, <1>10 DEF Validations, Refusals
  <2>3. Validations' \subseteq Validations \cup {0} /\ Refusals' \subseteq Refusals \cup {0}
    BY <2>1, <2>2
  <2> QED BY <2>3, TimesKept
<1>16. /\ actor'[x].pc = "persist" /\ \A y \in Actors : y # x => actor'[y] = actor[y]
  BY GoFacts DEF LoginInv, Pcs
<1>17. ASSUME NEW t \in Nat
       PROVE  /\ Covers(sdk[p], t) => Covers(m, t) /\ Covers(Persisted(m), t)
              /\ Covers(file, t) => Covers(m, t) /\ Covers(Persisted(m), t)
  <2>1. file.refusal = s.validated => file.refusal = 0
    BY <1>1, <1>5, TimesFacts
  <2>2. (Covers(s, t) => Covers(m, t)) /\ (Covers(file, t) => Covers(m, t))
    BY <1>1, <1>5, <1>7, <2>1, MergeCovers
  <2>3. Covers(sdk[p], t) => Covers(s, t)
    BY <1>5 DEF Covers
  <2>4. Covers(Persisted(m), t) <=> Covers(m, t)
    BY <1>10, PersistedFields
  <2> QED BY <2>2, <2>3, <2>4
<1>18. RefusalsOK'
  <2>1. /\ sdk'[p] = m /\ writing'[p] = Persisted(m)
        /\ \A q \in Processes : q # p => sdk'[q] = sdk[q] /\ writing'[q] = writing[q]
    BY <1>1, <1>7 DEF LoginInv, LoginTypeOK
  <2>2. ASSUME NEW q \in Processes, q # p PROVE Pending(q)' <=> Pending(q)
    <3>1. Locked(q)' <=> Locked(q)
      BY <1>16, <2>2 DEF Locked, At, ProcessOf
    <3> QED BY <2>1, <2>2, <3>1 DEF Pending
  <2>3. file.refusal \in Nat /\ \A q \in Processes : writing[q] # None => writing[q].refusal \in Nat
    BY DEF LoginInv, LoginTypeOK, Files
  <2>4. Covers(file, file.refusal) /\ \A d : Covers(d, 0)
    BY <2>3 DEF Covers
  <2>5. Covers(m, file.refusal) /\ Covers(Persisted(m), file.refusal)
    BY <1>17, <2>3, <2>4
  <2>6. ASSUME NEW q \in Processes, writing'[q] # None PROVE Covers(sdk'[q], writing'[q].refusal)
    BY <1>12, <2>1, <2>4, <2>5, <2>6 DEF LoginInv, RefusalsOK
  <2>7. ASSUME NEW q \in Processes, Pending(q)' PROVE Covers(file, writing'[q].refusal)
    BY <1>12, <2>1, <2>2, <2>4, <2>7 DEF LoginInv, RefusalsOK
  <2>8. ASSUME NEW a \in Processes, NEW b \in Processes, a # b, writing'[a] # None
        PROVE  /\ Pending(b)' => Covers(writing'[a], writing'[b].refusal)
               /\ Covers(writing'[a], file.refusal) \/ Covers(sdk'[b], file.refusal)
    <3>1. CASE a = p
      <4>1. ASSUME Pending(b)' PROVE Covers(Persisted(m), writing[b].refusal)
        <5>1. Pending(b) /\ writing[b] # None
          BY <2>2, <2>8, <3>1, <4>1 DEF Pending
        <5>2. Covers(file, writing[b].refusal)
          BY <5>1 DEF LoginInv, RefusalsOK
        <5> QED BY <1>17, <2>3, <5>1, <5>2
      <4> QED BY <2>1, <2>5, <2>8, <3>1, <4>1
    <3>2. CASE b = p
      <4>1. writing[a] # None /\ writing'[a] = writing[a]
        BY <2>1, <2>8, <3>2
      <4>2. Covers(writing[a], file.refusal) \/ Covers(sdk[p], file.refusal)
        BY <2>8, <3>2, <4>1 DEF LoginInv, RefusalsOK
      <4> QED BY <1>12, <2>1, <2>4, <2>5, <3>2, <4>1, <4>2
    <3> QED BY <1>1, <2>8, <3>1, <3>2
  <2>9. ASSUME NEW y \in Actors, At(y, "decide")'
        PROVE  /\ Covers(State(y)', file.refusal)
               /\ \A q \in Processes : writing'[q] # None => Covers(State(y)', writing'[q].refusal)
    <3>1. At(y, "decide") /\ ProcessOf(y) \in Processes
      BY <1>16, <2>9, ActorFacts DEF At
    <3>2. /\ Covers(State(y), file.refusal)
          /\ \A q \in Processes : writing[q] # None => Covers(State(y), writing[q].refusal)
      BY <3>1 DEF LoginInv, RefusalsOK
    <3>3. \A t \in Nat : Covers(State(y), t) => Covers(State(y)', t)
      BY <1>17, <2>1, <3>1 DEF State, ProcessOf
    <3> QED BY <1>12, <2>1, <2>3, <2>4, <3>2, <3>3
  <2> QED BY <2>6, <2>7, <2>8, <2>9 DEF RefusalsOK, Covers
<1>19. Remembers(r, m)
  BY <1>14
<1>20. rejected' = [rejected EXCEPT ![p] = tokens]
  BY <1>8
<1> QED BY <1>1, <1>7, <1>10, <1>11, <1>12, <1>13, <1>14, <1>15, <1>18, <1>19, <1>20, WriteStep, Zenon

LEMMA SignalInv ==
  ASSUME LoginInv, NEW x \in Actors, actor[x].pc \in {"player", "idle"}, Unlocked(x), Signal(x),
         UNCHANGED <<file, lock>>, UNCHANGED clocks
  PROVE  LoginInv'
<1> DEFINE p == ProcessOf(x)
<1>1. PICK signal \in Signals :
        /\ IF signal = "token"
           THEN /\ mark_stale(p, Held(x).generation)
                /\ rejected' = [rejected EXCEPT ![p] = @ \union {Held(x).token}]
           ELSE UNCHANGED <<sdk, writing, rejected>>
        /\ Go(x, IF writing' = writing THEN "done" ELSE "persist", global_signal(Held(x), signal))
  BY Zenon DEF Signal
<1>2. Held(x) \in AccountRecords /\ Remembers(Held(x), sdk[p]) /\ p \in Processes
  BY HeldFacts, ActorFacts, Zenon DEF State
<1>3. PICK r : r = global_signal(Held(x), signal)
  BY Zenon
<1>4. r \in AccountRecords /\ Remembers(r, sdk[p])
  BY <1>2, <1>3, SignalKeeps, KeepsRemembers DEF Keeps
<1>5. writing[p] = None /\ UNCHANGED <<clock, lapsed, expired, aged>>
  BY DEF Unlocked, clocks
<1> HIDE DEF p
<1>6. CASE signal # "token"
  <2>1. UNCHANGED shared /\ Go(x, "done", r)
    BY <1>1, <1>3, <1>6, Zenon DEF shared
  <2> QED BY <1>4, <2>1, CalmGo DEF State, p
<1>7. CASE /\ signal = "token"
           /\ Ignored(sdk[p], Held(x).generation) \/ sdk[p].token = 0
  <2>1. /\ UNCHANGED writing
        /\ \/ Ignored(sdk[p], Held(x).generation) /\ UNCHANGED sdk
           \/ sdk[p].token = 0 /\ sdk' = [sdk EXCEPT ![p].stale = TRUE]
    BY <1>1, <1>7 DEF mark_stale
  <2>2. Go(x, "done", r) /\ rejected' = [rejected EXCEPT ![p] = @ \union {Held(x).token}]
    BY <1>1, <1>3, <1>7, <2>1
  <2> QED BY <1>4, <1>5, <2>1, <2>2, LateSignalInv, Zenon DEF p
<1>8. CASE signal = "token" /\ ~Ignored(sdk[p], Held(x).generation) /\ sdk[p].token # 0
  <2>1. PICK s : s = [sdk[p] EXCEPT !.stale = TRUE] /\ persist(p, s)
    BY <1>1, <1>8 DEF mark_stale
  <2>2. s \in Sessions /\ file \in Files
    <3>1. sdk[p] \in Sessions /\ file \in Files
      BY <1>2, Zenon DEF LoginInv, LoginTypeOK
    <3> QED BY <2>1, <3>1, Zenon DEF Sessions
  <2>3. writing' = [writing EXCEPT ![p] = Persisted(merge(s, file))] /\ Persisted(merge(s, file)) \in Files
    BY <2>1, <2>2, MergeCases, PersistedFields DEF persist
  <2>4. writing' # writing
    <3>1. writing'[p] = Persisted(merge(s, file))
      BY <1>2, <2>3 DEF LoginInv, LoginTypeOK
    <3>2. writing'[p] # None
      BY <2>3, <3>1, NoneAssumption
    <3> QED BY <1>5, <3>2, Zenon
  <2>5. Go(x, "persist", r) /\ rejected' = [rejected EXCEPT ![p] = @ \union {Held(x).token}]
    BY <1>1, <1>3, <1>8, <2>4, Zenon
  <2> QED BY <1>4, <1>5, <1>8, <2>1, <2>5, StaleSignalInv, Zenon DEF p
<1> QED BY <1>6, <1>7, <1>8

LEMMA GameStepsInv ==
  ASSUME LoginInv, NEW x \in Actors, PlayerLogin(x) \/ Call(x)
  PROVE  LoginInv'
<1>1. /\ actor[x].pc \in {"player", "idle"} /\ Unlocked(x) /\ UNCHANGED <<file, lock>> /\ UNCHANGED clocks
  BY DEF PlayerLogin, Call, At, locks
<1>2. CASE Signal(x)
  BY <1>1, <1>2, SignalInv, Zenon
<1>3. ASSUME NEW r, r = [Held(x) EXCEPT !.session = TRUE] \/ r = global_signal(Held(x), "ok"),
             Go(x, "done", r), UNCHANGED <<sdk, writing, rejected>>
      PROVE  LoginInv'
  <2>1. Held(x) \in AccountRecords /\ Remembers(Held(x), State(x))
    BY HeldFacts, Zenon
  <2>2. Keeps(r, Held(x))
    BY <1>3, <2>1, KeptRecords, SignalKeeps, Zenon
  <2>3. r \in AccountRecords /\ Remembers(r, State(x))
    BY <2>1, <2>2, KeepsRemembers DEF Keeps
  <2>4. UNCHANGED shared
    BY <1>1, <1>3 DEF shared
  <2> QED BY <1>1, <1>3, <2>3, <2>4, CalmGo
<1> QED BY <1>2, <1>3 DEF PlayerLogin, Call

-----------------------------------------------------------------------------
(* A process that starts knows what the file says and nothing else. *)
LEMMA StartInv ==
  ASSUME LoginInv, NEW p \in Processes, Start(p)
  PROVE  LoginInv'
<1>1. file \in Files /\ FileShape(file) /\ expired \in Nat
  BY DEF LoginInv, LoginTypeOK, Shapes
<1>2. NoSession \in Sessions /\ SessionShape(NoSession) /\ NoSession.validated = 0 /\ NoSession.refusal = 0 /\ NoSession.token = 0
  BY DEF NoSession, Sessions, SessionShape
<1>3. PICK m : m = merge(NoSession, file) /\ sdk' = [sdk EXCEPT ![p] = m]
  BY Zenon DEF Start
<1>4. m \in Sessions /\ m.validated \in {0, file.validated} /\ m.refusal \in {0, file.refusal} /\ SessionShape(m)
  <2>1. m \in Sessions /\ m.validated \in {0, file.validated} /\ m.refusal \in {0, file.refusal}
    BY <1>1, <1>2, <1>3, MergedTimes
  <2> QED BY <1>1, <1>2, <1>3, <2>1, MergeShape
<1>5. StaleIn(m, {})
  <2>1. PICK tokens \in SUBSET Nat : tokens = {}
    BY Zenon
  <2>2. StaleIn(NoSession, tokens) /\ \A t \in tokens : t <= NoSession.validated
    BY <1>2, <2>1 DEF StaleIn
  <2>3. StaleIn(m, tokens)
    BY <1>1, <1>2, <1>3, <2>2, MergeStale
  <2> QED BY <2>1, <2>3
<1>6. Covers(m, file.refusal)
  <2>1. file.refusal \in Nat
    BY <1>1 DEF Files
  <2>2. Covers(file, file.refusal) /\ (file.refusal = NoSession.validated => file.refusal = 0)
    BY <1>2, <2>1 DEF Covers
  <2> QED BY <1>1, <1>2, <1>3, <2>1, <2>2, MergeCovers
<1>7. /\ UNCHANGED <<file, clock, lapsed, expired, aged>>
      /\ lock' = IF lock \in ActorsOf(p) THEN None ELSE lock
  BY Zenon DEF Start, clocks
<1>8. /\ sdk' \in [Processes -> Sessions] /\ sdk'[p] = m
      /\ \A q \in Processes : q # p => sdk'[q] = sdk[q]
  BY <1>3, <1>4 DEF LoginInv, LoginTypeOK
<1>9. /\ writing' \in [Processes -> Files \cup {None}] /\ writing'[p] = None
      /\ \A q \in Processes : q # p => writing'[q] = writing[q]
  BY DEF LoginInv, LoginTypeOK, Start
<1>10. /\ rejected' \in [Processes -> SUBSET Nat] /\ rejected'[p] = {}
       /\ \A q \in Processes : q # p => rejected'[q] = rejected[q]
  BY DEF LoginInv, LoginTypeOK, Start
<1>11. /\ actor' \in [Actors -> ActorRecords]
       /\ \A y \in Actors : IF ProcessOf(y) = p THEN actor'[y].pc \in Resting /\ actor'[y].old = None
                            ELSE actor'[y] = actor[y]
  <2>1. actor' = [y \in Actors |-> IF ProcessOf(y) = p THEN Sleeping(y) ELSE actor[y]]
    BY DEF Start, ActorsOf
  <2> QED BY <2>1, RestRecord DEF LoginInv, LoginTypeOK
<1>12. /\ account' \in [Accounts -> AccountRecords]
       /\ \A a \in Accounts : IF Home(a) = p THEN account'[a] = NewAccount ELSE account'[a] = account[a]
  <2>1. \A a \in Accounts : ProcessOf(<<"call", a>>) = Home(a)
    BY DEF ProcessOf, Home
  <2>2. account' = [a \in Accounts |-> IF Home(a) = p THEN NewAccount ELSE account[a]]
    BY <2>1 DEF Start
  <2>3. NewAccount \in AccountRecords
    BY DEF NewAccount, AccountRecords
  <2> QED BY <2>2, <2>3 DEF LoginInv, LoginTypeOK
<1>13. LoginTypeOK'
  BY <1>7, <1>8, <1>9, <1>10, <1>11, <1>12, Zenon DEF LoginInv, LoginTypeOK
<1>14. Shapes' /\ StaleExactly'
  <2>1. \A q \in Processes : SessionShape(sdk'[q])
    BY <1>4, <1>8 DEF LoginInv, Shapes
  <2>2. \A q \in Processes : writing'[q] # None => FileShape(writing'[q])
    BY <1>9, Zenon DEF LoginInv, Shapes
  <2>3. StaleExactly'
    BY <1>5, <1>8, <1>10, Zenon DEF LoginInv, StaleExactly, StaleIn
  <2> QED BY <1>1, <1>7, <2>1, <2>2, <2>3 DEF Shapes, SessionShape, FileShape
<1>15. TimesOK'
  <2>1. Validations' \subseteq Validations \cup {0}
    <3>1. file'.validated \in Validations
      BY <1>7, Zenon DEF Validations
    <3>2. ASSUME NEW q \in Processes PROVE sdk'[q].validated \in Validations \cup {0}
      <4>1. CASE q = p
        BY <1>4, <1>8, <4>1 DEF Validations
      <4>2. CASE q # p
        BY <1>8, <4>2, Zenon DEF Validations
      <4> QED BY <4>1, <4>2
    <3>3. ASSUME NEW q \in Processes, writing'[q] # None PROVE writing'[q].validated \in Validations
      BY <1>9, <3>3, Zenon DEF Validations
    <3> QED BY <3>1, <3>2, <3>3, Zenon DEF Validations
  <2>2. Refusals' \subseteq Refusals \cup {0}
    <3>1. file'.refusal \in Refusals
      BY <1>7, Zenon DEF Refusals
    <3>2. ASSUME NEW q \in Processes PROVE sdk'[q].refusal \in Refusals \cup {0}
      <4>1. CASE q = p
        BY <1>4, <1>8, <4>1 DEF Refusals
      <4>2. CASE q # p
        BY <1>8, <4>2, Zenon DEF Refusals
      <4> QED BY <4>1, <4>2
    <3>3. ASSUME NEW q \in Processes, writing'[q] # None PROVE writing'[q].refusal \in Refusals
      BY <1>9, <3>3, Zenon DEF Refusals
    <3> QED BY <3>1, <3>2, <3>3, Zenon DEF Refusals
  <2> QED BY <1>7, <2>1, <2>2, TimesKept
<1>16. RejectedOK'
  <2>1. \A q \in Processes : \A t \in rejected'[q] : t <= sdk'[q].validated
    BY <1>8, <1>10 DEF LoginInv, RejectedOK
  <2>2. ASSUME NEW a \in Accounts PROVE Remembers(account'[a], sdk'[Home(a)])
    <3>1. CASE Home(a) = p
      BY <1>4, <1>8, <1>12, <3>1, NewRemembers DEF LoginInv, LoginTypeOK
    <3>2. CASE Home(a) # p
      BY <1>8, <1>12, <3>2 DEF LoginInv, RejectedOK, Home
    <3> QED BY <3>1, <3>2
  <2>3. ASSUME NEW y \in Actors, actor'[y].old # None PROVE Remembers(actor'[y].old, sdk'[ProcessOf(y)])
    <3>1. ProcessOf(y) # p /\ ProcessOf(y) \in Processes /\ actor'[y] = actor[y]
      BY <1>11, <2>3, ActorFacts
    <3> QED BY <1>8, <2>3, <3>1 DEF LoginInv, RejectedOK
  <2> QED BY <2>1, <2>2, <2>3 DEF RejectedOK, Home, ProcessOf
<1>17. \A y \in Actors : actor'[y].pc \notin Resting => ProcessOf(y) # p /\ actor'[y] = actor[y]
  BY <1>11
<1>18. \A y \in Actors : ProcessOf(y) # p => (lock' = y <=> lock = y)
  BY <1>7, ActorFacts DEF ActorsOf
<1>19. LocksOK'
  <2>1. \A y \in Actors : ProcessOf(y) \in Processes
    BY ActorFacts
  <2>2. \A y \in Actors : actor'[y].pc \in {"decide", "sdk"} => lock' = y
    BY <1>17, <1>18 DEF LoginInv, LocksOK, Resting
  <2>3. \A y \in Actors : At(y, "persist")' => writing'[ProcessOf(y)] # None
    BY <1>9, <1>17, <2>1 DEF LoginInv, LocksOK, At, Resting
  <2>4. \A y, z \in Actors : At(y, "persist")' /\ At(z, "persist")' /\ ProcessOf(y) = ProcessOf(z) => y = z
    BY <1>17 DEF LoginInv, LocksOK, At, Resting
  <2> QED BY <2>2, <2>3, <2>4 DEF LocksOK, ProcessOf
<1>20. RefusalsOK'
  <2>1. ASSUME NEW q \in Processes, q # p PROVE Pending(q)' <=> Pending(q)
    <3>1. \A y \in Actors : ProcessOf(y) = q => actor'[y] = actor[y] /\ (lock' = y <=> lock = y)
      BY <1>11, <1>18, <2>1
    <3>2. Locked(q)' <=> Locked(q)
      BY <3>1, Zenon DEF Locked, At, ProcessOf
    <3> QED BY <1>9, <2>1, <3>2 DEF Pending
  <2>2. ASSUME NEW q \in Processes, writing'[q] # None PROVE Covers(sdk'[q], writing'[q].refusal)
    BY <1>8, <1>9, <2>2, Zenon DEF LoginInv, RefusalsOK
  <2>3. ASSUME NEW q \in Processes, Pending(q)' PROVE Covers(file, writing'[q].refusal)
    BY <1>9, <2>1, <2>3, Zenon DEF LoginInv, RefusalsOK, Pending
  <2>4. ASSUME NEW a \in Processes, NEW b \in Processes, a # b, writing'[a] # None
        PROVE  /\ Pending(b)' => Covers(writing'[a], writing'[b].refusal)
               /\ Covers(writing'[a], file.refusal) \/ Covers(sdk'[b], file.refusal)
    <3>1. b = p
      BY <1>9, <2>4
    <3> QED BY <1>6, <1>8, <1>9, <3>1 DEF Pending
  <2>5. ASSUME NEW y \in Actors, At(y, "decide")'
        PROVE  /\ Covers(State(y)', file.refusal)
               /\ \A q \in Processes : writing'[q] # None => Covers(State(y)', writing'[q].refusal)
    <3>1. At(y, "decide") /\ ProcessOf(y) # p /\ ProcessOf(y) \in Processes
      BY <1>17, <2>5, ActorFacts DEF At, Resting
    <3>2. State(y)' = State(y)
      BY <1>8, <3>1 DEF State, ProcessOf
    <3> QED BY <1>9, <3>1, <3>2, Zenon DEF LoginInv, RefusalsOK
  <2> QED BY <1>7, <2>2, <2>3, <2>4, <2>5, Zenon DEF RefusalsOK, Covers
<1> QED BY <1>13, <1>14, <1>15, <1>16, <1>19, <1>20 DEF LoginInv

-----------------------------------------------------------------------------
LEMMA LoginInitInv == Init => LoginInv
<1> SUFFICES ASSUME Init PROVE LoginInv
  OBVIOUS
<1>1. NoSession \in Sessions /\ SessionShape(NoSession) /\ NoSession.validated = 0 /\ NoSession.refusal = 0 /\ NoSession.token = 0
  BY DEF NoSession, Sessions, SessionShape
<1>2. NoFile \in Files /\ FileShape(NoFile) /\ NoFile.validated = 0 /\ NoFile.refusal = 0
  BY DEF NoFile, Files, FileShape
<1>3. NewAccount \in AccountRecords /\ Remembers(NewAccount, NoSession)
  <2>1. NewAccount \in AccountRecords
    BY DEF NewAccount, AccountRecords
  <2> QED BY <1>1, <2>1, NewRemembers
<1>4. /\ \A p \in Processes : sdk[p] = NoSession /\ writing[p] = None /\ rejected[p] = {}
      /\ file = NoFile /\ clock = 0
      /\ \A x \in Actors : actor[x].pc \in Resting /\ actor[x].old = None
      /\ \A a \in Accounts : account[a] = NewAccount
  BY RestRecord DEF Init
<1>5. LoginTypeOK
  BY <1>1, <1>2, <1>3, RestRecord DEF Init, LoginTypeOK
<1>6. Shapes /\ LocksOK /\ StaleExactly
  <2>1. Shapes
    BY <1>1, <1>2, <1>4 DEF Shapes
  <2>2. LocksOK
    BY <1>4 DEF LocksOK, At, Resting
  <2>3. StaleExactly
    BY <1>1, <1>4 DEF StaleExactly
  <2> QED BY <2>1, <2>2, <2>3
<1>7. TimesOK
  <2>1. Validations \subseteq {0} /\ Refusals \subseteq {0}
    BY <1>1, <1>2, <1>4 DEF Validations, Refusals
  <2> QED BY <1>4, <2>1 DEF TimesOK
<1>8. RejectedOK
  BY <1>3, <1>4 DEF RejectedOK, Home
<1>9. RefusalsOK
  BY <1>4, Zenon DEF RefusalsOK, Pending, At, Resting
<1> QED BY <1>5, <1>6, <1>7, <1>8, <1>9 DEF LoginInv

LEMMA LoginStepInv == LoginInv /\ [Next]_vars => LoginInv'
<1> SUFFICES ASSUME LoginInv, [Next]_vars PROVE LoginInv'
  OBVIOUS
<1>1. ASSUME NEW x \in Actors, Step(x) \/ Cancelled(x) PROVE LoginInv'
  BY <1>1, CallerStepsInv, ExclusiveInv, ValidatedInv, RefusedInv, PersistInv, GameStepsInv, Zenon DEF Step
<1>2. ASSUME NEW a \in Service, reload_accounts(a) PROVE LoginInv'
  BY <1>2, ReloadInv
<1>3. ASSUME NEW p \in Processes, Start(p) PROVE LoginInv'
  BY <1>3, StartInv
<1>4. CASE \/ TokensExpire \/ RefusalsLapse \/ SessionsAge
           \/ \E a \in Accounts : CooldownEnds(a) \/ WindowPasses(a)
  BY <1>4, ClocksInv
<1>5. CASE UNCHANGED vars
  <2>1. UNCHANGED <<shared, lock, actor, account, clock, lapsed, expired, aged>>
    BY <1>5, Zenon DEF vars, locks, clocks
  <2>2. LoginTypeOK'
    BY <2>1 DEF LoginInv, LoginTypeOK, shared
  <2>3. RejectedOK'
    BY <2>1, Zenon DEF LoginInv, RejectedOK, Remembers, shared, Home, ProcessOf
  <2>4. \A y \in Actors : Calm(y)
    BY <2>1 DEF Calm
  <2> QED BY <2>1, <2>2, <2>3, <2>4, CalmStep, Zenon
<1> QED BY <1>1, <1>2, <1>3, <1>4, <1>5, Zenon DEF Next

LEMMA LoginInvariance == Spec => []LoginInv
BY LoginInitInv, LoginStepInv, PTL DEF Spec

(* A process's session is stale exactly when a TOKEN_* signal named its    *)
(* token (mark_stale, merge).                                              *)
THEOREM StaleIsExact == Spec => []StaleExactly
<1>1. LoginInv => StaleExactly
  BY DEF LoginInv
<1> QED BY <1>1, LoginInvariance, PTL

-----------------------------------------------------------------------------
(* Only revalidate sends a cache.login. *)
LEMMA GoSends ==
  ASSUME LoginInv, NEW x \in Actors, NEW pc \in Pcs \cup {"done"}, NEW r, Go(x, pc, r), pc # "sdk",
         NEW y \in Actors
  PROVE  ~Sent(y)
<1>1. actor \in [Actors -> ActorRecords] /\ actor[x] \in ActorRecords
  BY DEF LoginInv, LoginTypeOK
<1>2. y # x => actor'[y] = actor[y]
  BY <1>1 DEF Go
<1>3. actor'[x].pc # "sdk"
  <2>1. CASE pc = "done"
    BY <1>1, <2>1, RestRecord DEF Go, Resting
  <2>2. CASE pc # "done" /\ actor[x].old = None
    BY <1>1, <2>2 DEF Go, ActorRecords
  <2>3. CASE pc # "done" /\ actor[x].old # None
    <3>1. actor' = [actor EXCEPT ![x] = [actor[x] EXCEPT !.pc = pc, !.old = r]]
      BY <1>1, <2>3, Zenon DEF Go
    <3>2. [actor[x] EXCEPT !.pc = pc, !.old = r].pc = pc
      BY <1>1 DEF ActorRecords
    <3> QED BY <1>1, <3>1, <3>2
  <2> QED BY <2>1, <2>2, <2>3
<1> QED BY <1>2, <1>3, Zenon DEF Sent, At

LEMMA SentByRevalidate ==
  ASSUME LoginInv, [Next]_vars, NEW y \in Actors, Sent(y)
  PROVE  revalidate(y) /\ UNCHANGED <<shared, clocks>>
<1>1. ASSUME NEW x \in Actors, Step(x) \/ Cancelled(x), ~revalidate(x) PROVE FALSE
  <2>1. PICK pc \in (Pcs \cup {"done"}) \ {"sdk"} : \E r : Go(x, pc, r)
    <3>1. CASE account_auth(x) \/ HourPasses(x) \/ sdk_keepalive(x) \/ TakeLogin(x) \/ exclusive(x) \/ Found(x)
      BY <3>1 DEF account_auth, HourPasses, sdk_keepalive, TakeLogin, exclusive, Found, Pcs
    <3>2. CASE KeepaliveSkipped(x) \/ Validated(x) \/ Refused(x) \/ Failed(x) \/ Persist(x) \/ Cancelled(x)
      BY <3>2 DEF KeepaliveSkipped, Validated, Refused, Failed, Persist, Cancelled, Pcs
    <3>3. CASE PlayerLogin(x) \/ Call(x)
      BY <3>3 DEF PlayerLogin, Call, Signal, Pcs
    <3> QED BY <1>1, <3>1, <3>2, <3>3, Zenon DEF Step
  <2> QED BY <2>1, GoSends
<1>2. ASSUME NEW x \in Actors, revalidate(x) PROVE revalidate(y) /\ UNCHANGED <<shared, clocks>>
  <2>1. CASE x = y
    BY <1>2, <2>1, Zenon DEF revalidate
  <2>2. CASE x # y
    <3>1. actor'[y] = actor[y]
      <4>1. actor \in [Actors -> ActorRecords]
        BY Zenon DEF LoginInv, LoginTypeOK
      <4> QED BY <1>2, <2>2, <4>1 DEF revalidate, Go
    <3> QED BY <3>1 DEF Sent, At
  <2> QED BY <2>1, <2>2, Zenon
<1>3. ASSUME NEW a \in Service, reload_accounts(a) PROVE FALSE
  <2>1. actor'[y].pc = actor[y].pc
    BY <1>3 DEF reload_accounts, LoginInv, LoginTypeOK, ActorRecords
  <2> QED BY <2>1 DEF Sent, At
<1>4. ASSUME NEW p \in Processes, Start(p) PROVE FALSE
  BY <1>4, RestRecord DEF Start, Sent, At, Resting
<1>5. CASE \/ TokensExpire \/ RefusalsLapse \/ SessionsAge \/ UNCHANGED vars
           \/ \E a \in Accounts : CooldownEnds(a) \/ WindowPasses(a)
  BY <1>5, Zenon DEF TokensExpire, RefusalsLapse, SessionsAge, CooldownEnds, WindowPasses, vars, Sent, At
<1> QED BY <1>1, <1>2, <1>3, <1>4, <1>5 DEF Next

(* A cache.login is sent for one identity by one worker at a time, never   *)
(* against a refusal in force that the process knows of or that the file   *)
(* holds, by a call only when no token is reusable, and by a keepalive     *)
(* only when it is still due (account_auth, sdk_keepalive, exclusive).     *)
THEOREM RequestsAreJustified == Spec => RequestJustified
<1>1. ASSUME LoginInv, [Next]_vars, NEW x \in Actors, Sent(x)
      PROVE  /\ \A y \in Actors : ~At(y, "sdk")
             /\ ~refusal(State(x))
             /\ file.refusal > lapsed => State(x).validated > file.refusal
             /\ x \in Callers => ~reusable(State(x))
             /\ x \in Keepers => keepalive_due(State(x))
  <2>1. At(x, "decide") /\ Wanted(x)
    BY <1>1, SentByRevalidate DEF revalidate
  <2>2. \A y \in Actors : ~At(y, "sdk")
    BY <1>1, <2>1 DEF LoginInv, LocksOK, At, Sent
  <2>3. Covers(State(x), file.refusal)
    BY <1>1, <2>1, Zenon DEF LoginInv, RefusalsOK
  <2>4. /\ State(x).refusal \in Nat /\ State(x).validated \in Nat /\ file.refusal \in Nat /\ lapsed \in Nat
        /\ aged \in Nat
    BY <1>1, HeldFacts DEF LoginInv, LoginTypeOK, Sessions, Files
  <2>5. x \in Callers \/ x \in Keepers
    BY DEF Actors
  <2>6. x \in Callers => x \notin Keepers
    BY DEF Callers, Keepers
  <2>7. x \in Callers => ~refusal(State(x)) /\ ~reusable(State(x))
    BY <2>1, Zenon DEF Wanted, Settled
  <2>8. x \in Keepers => keepalive_due(State(x))
    BY <2>1, <2>6 DEF Wanted, Skipped
  <2>9. ~refusal(State(x))
    BY <2>4, <2>5, <2>7, <2>8 DEF refusal, keepalive_due
  <2>10. file.refusal > lapsed => State(x).validated > file.refusal
    BY <2>3, <2>4, <2>9 DEF refusal, Covers
  <2> QED BY <2>2, <2>7, <2>8, <2>9, <2>10
<1>2. LoginInv /\ [Next]_vars =>
        [\A x \in Actors : Sent(x) =>
            /\ \A y \in Actors : ~At(y, "sdk")
            /\ ~refusal(State(x))
            /\ file.refusal > lapsed => State(x).validated > file.refusal
            /\ x \in Callers => ~reusable(State(x))
            /\ x \in Keepers => keepalive_due(State(x))]_vars
  BY <1>1
<1> QED BY <1>2, LoginInvariance, PTL DEF Spec, RequestJustified
=============================================================================
