---------------------------- MODULE AssetDispatch ----------------------------
(***************************************************************************)
(* The durable outbox of asset jobs (src/src/asset_outbox.rs), the worker  *)
(* that reconciles it with a remote updater (src/src/asset_dispatch.rs),   *)
(* its administration (asset_dispatch_admin.rs) and the updater's answers  *)
(* as asset_jobs.rs sorts them.                                            *)
(*                                                                         *)
(* The ledger with its cursor, and the archive, are on disk and survive a  *)
(* crash; the rest of the worker is lost.  A commit replaces the file      *)
(* atomically and memory follows, so one variable stands for both.         *)
(*                                                                         *)
(* An identity is its place in key order, 1..N, and the updater names the  *)
(* job it creates for identity k job k.  "doubtful" is Failed without a    *)
(* job and with a code that may be adopted (submission_ambiguous,          *)
(* invalid_job_response); "failed" is every other Failed.                  *)
(***************************************************************************)
EXTENDS Naturals, FiniteSets

CONSTANTS
  N,            \* identities
  Capacity,     \* history_capacity
  Limit,        \* entries per reconciliation batch (16)
  MaxRefusals,  \* busy answers before an entry fails (10)
  MaxCrashes    \* bound: crashes explored

ASSUME DispatchAssumption ==
  /\ N \in Nat
  /\ Capacity \in Nat \ {0}
  /\ Limit \in Nat \ {0}
  /\ MaxRefusals \in Nat \ {0}
  /\ MaxCrashes \in Nat

VARIABLES
  state,        \* per identity: the State of its entry, "absent" without one
  job,          \* per identity: the job_id of its entry, 0 for none
  cursor,       \* reconciliation_cursor, 0 for none
  archived,     \* identities with a file in completed/
  configured,   \* identities whose target is in the configuration
  pc,           \* what the worker does
  batch,        \* the selected identities still to be worked on
  head,         \* the identity in work, 0 for none
  reply,        \* what the request for head returned
  refusals,     \* busy answers per identity since the process started
  crashes,
  transit,      \* POSTs the updater has not seen yet
  jobs,         \* per identity: the updater's job
  forgotten,    \* jobs the updater no longer knows
  accepted      \* history: per identity, POSTs the updater accepted

disk   == <<state, job, cursor, archived>>
memory == <<pc, batch, head, reply, refusals>>
remote == <<transit, jobs, forgotten, accepted>>
dispatchVars == <<disk, memory, remote, configured, crashes>>

Keys == 1..N
Terminal == {"completed", "failed", "doubtful"}
Entries == {k \in Keys : state[k] # "absent"}
NonTerminal == {k \in Entries : state[k] \notin Terminal}

(* What submit() and get() return.  "cancelled" stands for both kinds of   *)
(* unsuccessful job, "rejected" for every definite refusal but busy,       *)
(* "foreign" for a job of another identity, "mismatch" for a completed job *)
(* with another outcome; "oddjob" and "oddpublication" carry an identifier *)
(* that parses as a UUID but is not in the form the outbox stores.         *)
Outcomes == {"running", "cancelled", "completed", "mismatch", "oddpublication"}
Replies == Outcomes \cup
  {"none", "lost", "busy", "rejected", "malformed", "missing", "foreign", "oddjob"}

DispatchTypeOK ==
  /\ state \in [Keys -> {"absent", "pending", "sending", "submitted"} \cup Terminal]
  /\ job \in [Keys -> 0..N]
  /\ cursor \in 0..N
  /\ archived \in SUBSET Keys /\ configured \in SUBSET Keys
  /\ pc \in {"observing", "selecting", "working", "posting", "waiting", "polling",
             "deciding", "idle", "archiving", "stopped", "down"}
  /\ batch \in SUBSET Keys
  /\ head \in 0..N
  /\ reply \in Replies
  /\ refusals \in [Keys -> 0..(MaxRefusals - 1)]
  /\ crashes \in 0..MaxCrashes
  /\ transit \in SUBSET Keys /\ forgotten \in SUBSET Keys
  /\ jobs \in [Keys -> {"none", "running", "cancelled", "completed"}]
  /\ accepted \in [Keys -> Nat]

DispatchInit ==
  /\ state = [k \in Keys |-> "absent"] /\ job = [k \in Keys |-> 0]
  /\ cursor = 0 /\ archived = {} /\ configured = Keys
  /\ pc = "observing" /\ batch = {} /\ head = 0 /\ reply = "none"
  /\ refusals = [k \in Keys |-> 0] /\ crashes = 0
  /\ transit = {} /\ forgotten = {}
  /\ jobs = [k \in Keys |-> "none"] /\ accepted = [k \in Keys |-> 0]

Set(k, s) == state' = [state EXCEPT ![k] = s]

-----------------------------------------------------------------------------
(* Worker::observe and Outbox::observe, for an identity of the snapshot in *)
(* force.  The phase ends early when the ledger is full, a commit fails or *)
(* no snapshot is to be had.                                               *)

NotInLedger(k) == state[k] = "absent"
Unknown(k) == state[k] = "absent" /\ k \notin archived

RoomForOneMore == Cardinality(Entries) <= Capacity
Room == Cardinality(Entries) < Capacity

Observe(k) ==
  /\ pc = "observing"
  /\ k \in configured /\ Unknown(k) /\ Room
  /\ Set(k, "pending")
  /\ UNCHANGED <<job, cursor, archived, memory, remote, configured, crashes>>

ObservedUnlessFull ==
  /\ pc = "observing"
  /\ pc' = IF Room THEN "selecting" ELSE "idle"
  /\ UNCHANGED <<disk, batch, head, reply, refusals, remote, configured, crashes>>

Observed ==
  /\ pc = "observing"
  /\ pc' = "selecting"
  /\ UNCHANGED <<disk, batch, head, reply, refusals, remote, configured, crashes>>

(* Outbox::next_batch.  Keys after the cursor come before keys up to it;   *)
(* the cursor is committed at the last key selected, and in that rotation  *)
(* the batch has the same order.                                           *)
ByKey(j, k) == j < k
Before(j, k) == IF (j > cursor) = (k > cursor) THEN j < k ELSE j > cursor

Selected ==
  {k \in NonTerminal : Cardinality({j \in NonTerminal : Before(j, k)}) < Limit}

NextCursor(k) ==
  IF Selected = {} THEN k = cursor
  ELSE k \in Selected /\ \A j \in Selected : j = k \/ Before(j, k)

NextBatch ==
  /\ pc = "selecting"
  /\ batch' = Selected
  /\ \E k \in 0..N : NextCursor(k) /\ cursor' = k
  /\ pc' = "working"
  /\ UNCHANGED <<state, job, archived, head, reply, refusals, remote, configured,
                 crashes>>

-----------------------------------------------------------------------------
(* Worker::reconcile_batch: the head of the batch.  A pending entry is     *)
(* recorded as sending before the POST leaves.                             *)

First(k) == k \in batch /\ \A j \in batch : j = k \/ Before(k, j)

Begin(k) ==
  /\ pc = "working"
  /\ First(k)
  /\ batch' = batch \ {k}
  /\ UNCHANGED <<job, cursor, archived, reply, remote, configured, crashes>>

Forget(k) == refusals' = [refusals EXCEPT ![k] = 0]

TargetRemoved(k) ==
  /\ Begin(k)
  /\ k \notin configured
  /\ Set(k, "failed") /\ Forget(k)
  /\ UNCHANGED <<pc, head>>

BeginSend(k) ==
  /\ Begin(k)
  /\ k \in configured /\ state[k] = "pending"
  /\ Set(k, "sending")
  /\ pc' = "posting" /\ head' = k
  /\ UNCHANGED refusals

Ambiguous(k) ==
  /\ Begin(k)
  /\ k \in configured /\ state[k] = "sending"
  /\ Set(k, "doubtful") /\ Forget(k)
  /\ UNCHANGED <<pc, head>>

BeginPoll(k) ==
  /\ Begin(k)
  /\ k \in configured /\ state[k] = "submitted"
  /\ pc' = "polling" /\ head' = k
  /\ UNCHANGED <<state, refusals>>

EndBatch ==
  /\ pc = "working" /\ batch = {}
  /\ pc' = "idle"
  /\ UNCHANGED <<disk, batch, head, reply, refusals, remote, configured, crashes>>

-----------------------------------------------------------------------------
(* Client::submit and Client::get, with the updater they talk to.  A POST  *)
(* travels on its own: it may arrive after the worker has given up on it,  *)
(* or after the worker's process is gone.  The updater refuses with 429 or *)
(* 503 only what it has not accepted.                                      *)

Receive(r) == reply' = r /\ pc' = "deciding"

Post ==
  /\ pc = "posting"
  /\ transit' = transit \cup {head}
  /\ pc' = "waiting"
  /\ UNCHANGED <<disk, batch, head, reply, refusals, jobs, forgotten, accepted,
                 configured, crashes>>

(* Raised by submit() before anything is sent. *)
InvalidRequest ==
  /\ pc = "posting"
  /\ Receive("rejected")
  /\ UNCHANGED <<disk, batch, head, refusals, remote, configured, crashes>>

Awaited(k) == pc = "waiting" /\ head = k

(* The replies that show job k as it stands. *)
Shown(s) == IF s = "completed" THEN {"completed", "mismatch", "oddpublication"} ELSE {s}

Accept(k) ==
  /\ k \in transit
  /\ transit' = transit \ {k}
  /\ accepted' = [accepted EXCEPT ![k] = @ + 1]
  /\ jobs' = [jobs EXCEPT ![k] = IF @ = "none" \/ k \in forgotten THEN "running" ELSE @]
  /\ forgotten' = forgotten \ {k}
  /\ IF Awaited(k)
       THEN \E r \in Shown(jobs'[k]) \cup {"malformed", "oddjob", "lost"} : Receive(r)
       ELSE UNCHANGED <<pc, reply>>
  /\ UNCHANGED <<disk, batch, head, refusals, configured, crashes>>

Refuse(k) ==
  /\ k \in transit
  /\ transit' = transit \ {k}
  /\ IF Awaited(k)
       THEN \E r \in {"busy", "rejected", "malformed", "lost"} : Receive(r)
       ELSE UNCHANGED <<pc, reply>>
  /\ UNCHANGED <<disk, batch, head, refusals, jobs, forgotten, accepted,
                 configured, crashes>>

TimeOut ==
  /\ pc = "waiting"
  /\ Receive("lost")
  /\ UNCHANGED <<disk, batch, head, refusals, remote, configured, crashes>>

(* get() asks for the job the entry names, which an operator may have      *)
(* adopted by mistake.                                                     *)
Known(j) == j \in Keys /\ jobs[j] # "none" /\ j \notin forgotten

Found(k, j) ==
  IF ~Known(j) THEN {"missing"}
  ELSE IF j # k THEN {"foreign"} ELSE Shown(jobs[j])

Poll ==
  /\ pc = "polling"
  /\ \E r \in Found(head, job[head]) \cup {"malformed", "lost"} : Receive(r)
  /\ UNCHANGED <<disk, batch, head, refusals, remote, configured, crashes>>

JobEnds(k) ==
  /\ jobs[k] = "running"
  /\ \E s \in {"completed", "cancelled"} : jobs' = [jobs EXCEPT ![k] = s]
  /\ UNCHANGED <<disk, memory, transit, forgotten, accepted, configured, crashes>>

JobForgotten(k) ==
  /\ jobs[k] \in {"completed", "cancelled"} /\ k \notin forgotten
  /\ forgotten' = forgotten \cup {k}
  /\ UNCHANGED <<disk, memory, transit, jobs, accepted, configured, crashes>>

-----------------------------------------------------------------------------
(* reconcile_batch: what the reply makes of the entry.                     *)

Decided ==
  /\ pc = "deciding"
  /\ pc' = "working" /\ head' = 0 /\ reply' = "none"
  /\ UNCHANGED <<cursor, archived, batch, remote, configured, crashes>>

(* The POST was answered with this identity's job; a job that has ended    *)
(* already is concluded by a second commit.                                *)
Acknowledge ==
  /\ pc = "deciding" /\ state[head] = "sending" /\ reply \in Outcomes
  /\ Set(head, "submitted") /\ job' = [job EXCEPT ![head] = head] /\ Forget(head)
  /\ UNCHANGED <<cursor, archived, pc, batch, head, reply, remote, configured, crashes>>

(* Nothing is known, or nothing is new: the persisted state stays. *)
Retain ==
  /\ Decided
  /\ reply = "lost" \/ (reply = "running" /\ state[head] = "submitted")
  /\ UNCHANGED <<state, job, refusals>>

ConfirmsAny(r) == r \in {"completed", "foreign"}
Confirms(r) == r = "completed"

Complete ==
  /\ Decided
  /\ state[head] = "submitted" /\ Confirms(reply)
  /\ Set(head, "completed")
  /\ UNCHANGED <<job, refusals>>

(* Outbox::fail keeps the job a submitted entry has. *)
FailJob ==
  /\ Decided
  /\ state[head] = "submitted"
  /\ reply \in {"cancelled", "mismatch", "foreign", "missing", "malformed"}
  /\ Set(head, "failed") /\ Forget(head)
  /\ UNCHANGED job

FailPost ==
  /\ Decided
  /\ state[head] = "sending" /\ reply \in {"rejected", "malformed"}
  /\ Set(head, IF reply = "malformed" THEN "doubtful" ELSE "failed") /\ Forget(head)
  /\ UNCHANGED job

(* Only a definite refusal makes the entry pending again. *)
Retryable(r) == r \in {"busy", "lost"}
DefinitelyRefused(r) == r = "busy"

LastChance(k) == refusals[k] + 1 >= MaxRefusals

Busy ==
  /\ Decided
  /\ state[head] = "sending" /\ DefinitelyRefused(reply)
  /\ Set(head, IF LastChance(head) THEN "failed" ELSE "pending")
  /\ refusals' = [refusals EXCEPT ![head] = IF LastChance(head) THEN 0 ELSE @ + 1]
  /\ UNCHANGED job

-----------------------------------------------------------------------------
(* The end of the worker: an error of the outbox, whatever its kind, stops *)
(* it with asset_outbox_storage.                                           *)

Stop ==
  /\ pc' = "stopped" /\ batch' = {} /\ head' = 0 /\ reply' = "none"
  /\ UNCHANGED <<disk, refusals, remote, configured, crashes>>

(* acknowledge() or complete() does not take the identifier: Invalid. *)
Unstorable ==
  /\ pc = "deciding"
  /\ \/ state[head] = "sending" /\ reply = "oddjob"
     \/ state[head] = "submitted" /\ reply = "oddpublication"
  /\ Stop

Commits ==
  \/ pc = "selecting" /\ Selected # {}
  \/ pc = "working" /\ \E k \in Keys : First(k) /\ (k \notin configured \/ state[k] # "submitted")
  \/ /\ pc = "deciding" /\ reply \notin {"lost", "oddjob", "oddpublication"}
     /\ reply = "running" => state[head] = "sending"

CommitFails ==
  /\ Commits
  /\ Stop

-----------------------------------------------------------------------------
(* Between two cycles: asset_dispatch_admin::handle.  The archive is       *)
(* written first; the ledger forgets the entry in a second write.          *)

Archive(k) ==
  /\ pc = "idle"
  /\ state[k] = "completed"
  /\ archived' = archived \cup {k}
  /\ pc' = "archiving" /\ head' = k
  /\ UNCHANGED <<state, job, cursor, batch, reply, refusals, remote, configured, crashes>>

CursorKept(k) == cursor
CursorWithout(k) == IF cursor = k THEN 0 ELSE cursor

Remove(k) ==
  /\ Set(k, "absent")
  /\ job' = [job EXCEPT ![k] = 0]
  /\ cursor' = CursorWithout(k)

ArchiveForget ==
  /\ pc = "archiving"
  /\ Remove(head)
  /\ pc' = "idle" /\ head' = 0
  /\ UNCHANGED <<archived, batch, reply, refusals, remote, configured, crashes>>

ArchiveFails ==
  /\ pc = "archiving"
  /\ pc' = "idle" /\ head' = 0
  /\ UNCHANGED <<disk, batch, reply, refusals, remote, configured, crashes>>

(* The offline command, which needs the worker gone, may end between the   *)
(* two writes as well.                                                     *)
ArchiveOffline(k) ==
  /\ pc = "down"
  /\ state[k] = "completed"
  /\ archived' = archived \cup {k}
  /\ Remove(k) \/ UNCHANGED <<state, job, cursor>>
  /\ UNCHANGED <<memory, remote, configured, crashes>>

(* Outbox::adopt, by the route or by the offline command. *)
Adopt(k, j) ==
  /\ pc \in {"idle", "down"}
  /\ state[k] \in {"sending", "doubtful"}
  /\ Set(k, "submitted") /\ job' = [job EXCEPT ![k] = j]
  /\ UNCHANGED <<cursor, archived, memory, remote, configured, crashes>>

Wake ==
  /\ pc = "idle"
  /\ pc' = "observing"
  /\ UNCHANGED <<disk, batch, head, reply, refusals, remote, configured, crashes>>

(* The process ends, by shutdown or by a crash, and another one opens the  *)
(* outbox with whatever configuration it finds.                            *)
Crash ==
  /\ pc # "down" /\ crashes < MaxCrashes
  /\ crashes' = crashes + 1
  /\ pc' = "down" /\ batch' = {} /\ head' = 0 /\ reply' = "none"
  /\ refusals' = [k \in Keys |-> 0]
  /\ UNCHANGED <<disk, remote, configured>>

(* The checks of Outbox::open. *)
Opens == Cardinality(Entries) <= Capacity /\ cursor \in Entries \cup {0}

Restart ==
  /\ pc = "down" /\ Opens
  /\ pc' = "observing"
  /\ configured' \in SUBSET Keys
  /\ UNCHANGED <<disk, batch, head, reply, refusals, remote, crashes>>

-----------------------------------------------------------------------------
(* The steps of the worker, in the order of Worker::cycles. *)
Take(k) == TargetRemoved(k) \/ BeginSend(k) \/ Ambiguous(k) \/ BeginPoll(k)
Decide == Acknowledge \/ Retain \/ Complete \/ FailJob \/ FailPost \/ Busy \/ Unstorable

WorkerStep ==
  \/ \E k \in Keys : Observe(k) \/ Take(k)
  \/ Observed \/ NextBatch \/ EndBatch \/ Post \/ InvalidRequest \/ TimeOut \/ Poll
  \/ Decide \/ ArchiveForget \/ ArchiveFails \/ Wake \/ Restart

UpdaterStep ==
  \E k \in Keys : Accept(k) \/ Refuse(k) \/ JobEnds(k) \/ JobForgotten(k)

OperatorStep ==
  \E k \in Keys : Archive(k) \/ ArchiveOffline(k) \/ \E j \in Keys : Adopt(k, j)

DispatchNext == WorkerStep \/ UpdaterStep \/ OperatorStep \/ CommitFails \/ Crash

DispatchSpec == DispatchInit /\ [][DispatchNext]_dispatchVars

(* The worker task keeps being scheduled and requests have a deadline.  The *)
(* pause ends even if commands keep coming: the select is biased and polls *)
(* the pause first.  Updater, operator and failures owe nothing.           *)
WorkerFairness == WF_dispatchVars(WorkerStep) /\ SF_dispatchVars(Wake)

-----------------------------------------------------------------------------
(* Properties.                                                             *)

(* The updater is never asked twice for what it may have accepted once,    *)
(* over any sequence of crashes, restarts, lost or late answers, busy      *)
(* retries, adoptions and archivals: an ambiguous POST is not replayed.    *)
ExecutedOnce ==
  \A k \in Keys : accepted[k] + (IF k \in transit THEN 1 ELSE 0) <= 1

(* What the ledger or the archive shows as completed is the updater's own  *)
(* completed job for that identity, also when an operator adopted a wrong  *)
(* job; and an archived identity is never taken up again.                  *)
CompletionConfirmed ==
  \A k \in Keys :
    /\ state[k] = "completed" => job[k] = k
    /\ k \in archived => state[k] \in {"absent", "completed"}
    /\ state[k] = "completed" \/ k \in archived => jobs[k] = "completed"

(* Whatever is on disk at any moment, Outbox::open accepts it: a crash     *)
(* never leaves a ledger that the next process refuses.                    *)
LedgerOpens == Opens

(* A pending entry does not stay so for ever while the worker runs: it is  *)
(* acknowledged or fails, after finitely many refusals, losses and crashes. *)
Dispatched ==
  \A k \in Keys :
    state[k] = "pending" ~> state[k] \in {"submitted"} \cup Terminal \/ pc = "stopped"
=============================================================================
