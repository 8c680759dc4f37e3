--------------------------- MODULE RegistryOwner ---------------------------
(***************************************************************************)
(* The registry owner (registry_owner.rs): one loop that pulls the source  *)
(* registry into the directory (master_sync.rs), publishes the directory   *)
(* to the database (MasterDatabase) and wakes the notifier, which          *)
(* announces the served hash to the consumers (registry_service.rs,        *)
(* master_notify.rs).  Beside it: callers of the owner's endpoints, an     *)
(* operator who imports locally, the migration command, and the source.    *)
(*                                                                         *)
(* One request or one blocking call of a loop is a step of its own; what   *)
(* the code does between two awaits is one step.  A failed request, a      *)
(* timeout and a restart are faults; an unreachable source is none.        *)
(***************************************************************************)
EXTENDS MasterDatabase

CONSTANTS
    Targets,        \* the consumers to notify
    Resource,       \* a recorded asset version
    MaxHash,        \* the source publishes the hashes 1 .. MaxHash in turn
    MaxEvents       \* changes, requests, imports, migrations and faults in all

ASSUME BoundsAssumption ==
    /\ MaxHash \in Nat \ {0} /\ MaxEvents \in Nat /\ Resource # NoResource

VARIABLES
    source,         \* the content the source registry serves
    up,             \* whether the source is reachable
    writer,         \* who holds the directory's writer lock
    owner,          \* the owner's loop: step, kind of iteration, its pass
    pending,        \* the kinds of work requested (the atomic bits)
    calls,          \* callers between setting their bit and notifying
    wake,           \* the permit of `wake`
    published,      \* the permit of `published`
    notifier,       \* the notifier's loop: step, hash read, targets left
    accepted,       \* the hash each target acknowledged, as the notifier knows
    migration,      \* the migration command: 0, or the plan it read
    events,         \* what happened so far, bounded by MaxEvents
    faulted         \* whether a request failed or a process stopped

budget == <<events, faulted>>
ownerVars == <<source, up, writer, owner, pending, calls, wake, published>>
notifierVars == <<notifier, accepted>>
vars == <<installed, database, transactions, ownerVars, notifierVars, migration, events, faulted>>

Contents == [hash : 1 .. MaxHash, resource : {NoResource, Resource}]

Spend == events < MaxEvents /\ events' = events + 1

Event == Spend /\ UNCHANGED faulted

Fault == Spend /\ faulted' = TRUE

NoContent == [hash |-> 0, resource |-> NoResource]

Loop(pc, pull) == [pc |-> pc, pull |-> pull, target |-> NoContent, upto |-> 0]

Delivering(hash, left) == [pc |-> "deliver", hash |-> hash, left |-> left]

Reconciling(pc) == [pc |-> pc, hash |-> 0, left |-> {}]

Init ==
    /\ source = [hash |-> 1, resource |-> NoResource] /\ up \in BOOLEAN
    /\ installed \in {<<>>, <<source>>}
    /\ database = EmptyDatabase /\ transactions = {}
    /\ writer = "free" /\ owner = Loop("update", TRUE)
    /\ pending = {} /\ calls = 0 /\ wake = FALSE /\ published = FALSE
    /\ notifier = Reconciling("reconcile")
    /\ accepted = [t \in Targets |-> 0]
    /\ migration = 0
    /\ events = 0 /\ faulted = FALSE

----------------------------------------------------------------------------
(* The source, as the owner meets it.                                      *)

(* The source registry publishes the next content, or records an asset     *)
(* version for the one it serves.                                          *)
SourceChanges ==
    /\ Event
    /\ \/ /\ source.hash < MaxHash
          /\ source' = [hash |-> source.hash + 1, resource |-> NoResource]
       \/ source.resource = NoResource /\ source' = [source EXCEPT !.resource = Resource]
    /\ UNCHANGED <<installed, database, transactions, up, writer, owner, pending, calls,
                   wake, published, notifierVars, migration>>

(* It may become unreachable for good.                                     *)
SourceLost ==
    /\ up /\ up' = FALSE /\ Event
    /\ UNCHANGED <<installed, database, transactions, source, writer, owner, pending, calls,
                   wake, published, notifierVars, migration>>

----------------------------------------------------------------------------
(* The owner's endpoints: refresh and hint ask for a pull, publish for a   *)
(* local publication.  The bit and the permit are two steps.               *)

Request(kind) ==
    /\ Event
    /\ pending' = pending \union {kind} /\ calls' = calls + 1
    /\ UNCHANGED <<installed, database, transactions, source, up, writer, owner, wake,
                   published, notifierVars, migration>>

NotifyOwner ==
    /\ calls > 0 /\ calls' = calls - 1 /\ wake' = TRUE
    /\ UNCHANGED <<installed, database, transactions, source, up, writer, owner, pending,
                   published, notifierVars, migration, budget>>

----------------------------------------------------------------------------
(* One iteration of the owner: update(pull).                               *)

idleOfOwner == <<source, up, pending, calls, wake, notifierVars, migration>>

At(pc) == owner.pc = pc

Goto(pc) == owner' = [owner EXCEPT !.pc = pc]

(* update fails: the iteration ends, what is published stays.              *)
Failed == owner' = Loop("wait", owner.pull)

HasCurrent == installed # <<>>

SameHash(c) == HasCurrent /\ installed[Len(installed)].hash = c.hash

IsCurrent(c) == HasCurrent /\ installed[Len(installed)] = c

(* A local iteration skips the pull.  A pull takes the writer lock and     *)
(* reads the manifest; the lock is released when that fails.               *)
StartUpdate ==
    /\ At("update")
    /\ \/ ~owner.pull /\ Goto("verify") /\ UNCHANGED writer
       \/ /\ owner.pull /\ writer = "free" /\ up
          /\ writer' = "pass"
          /\ owner' = [owner EXCEPT !.pc = "compare", !.target = source]
       \/ owner.pull /\ (writer # "free" \/ ~up) /\ Failed /\ UNCHANGED writer
    /\ UNCHANGED <<installed, database, transactions, published, budget, idleOfOwner>>

(* The blocking comparison with CURRENT: hash and asset version.           *)
Compare ==
    /\ At("compare")
    /\ \/ IsCurrent(owner.target) /\ Goto("verify") /\ writer' = "free"
       \/ ~IsCurrent(owner.target) /\ Goto("prepare") /\ UNCHANGED writer
    /\ UNCHANGED <<installed, database, transactions, published, budget, idleOfOwner>>

(* Tables are reused or downloaded into staging, then prepared; a lost     *)
(* source fails the downloads.                                             *)
Prepare ==
    /\ At("prepare")
    /\ \/ (up \/ SameHash(owner.target)) /\ Goto("check") /\ UNCHANGED writer
       \/ ~(up \/ SameHash(owner.target)) /\ Failed /\ writer' = "free"
    /\ UNCHANGED <<installed, database, transactions, published, budget, idleOfOwner>>

(* The final check of the source and, without another await, publish.      *)
Install ==
    /\ At("check") /\ writer' = "free"
    /\ \/ /\ up /\ source.hash = owner.target.hash
          /\ installed' = Append(installed, owner.target)
          /\ Goto("verify")
       \/ /\ ~up \/ source.hash # owner.target.hash
          /\ Failed /\ UNCHANGED installed
    /\ UNCHANGED <<database, transactions, published, budget, idleOfOwner>>

(* db::publish verifies CURRENT before it connects.                        *)
Verify ==
    /\ At("verify")
    /\ \/ HasCurrent /\ owner' = [owner EXCEPT !.pc = "connect", !.upto = Len(installed)]
       \/ ~HasCurrent /\ Failed
    /\ UNCHANGED <<installed, database, transactions, writer, published, budget, idleOfOwner>>

Store ==
    /\ At("connect")
    /\ publish_snapshot("owner", owner.upto)
    /\ Goto("commit")
    /\ UNCHANGED <<writer, published, budget, idleOfOwner>>

Committed ==
    /\ At("commit")
    /\ \E tx \in transactions : tx.client = "owner" /\ Commit(tx)
    /\ owner' = Loop("wait", owner.pull) /\ published' = TRUE
    /\ UNCHANGED <<writer, budget, idleOfOwner>>

(* A request fails or the deadline passes.  A blocking worker keeps the    *)
(* writer lock until it ends; a transaction may still commit.              *)
IterationFails ==
    /\ owner.pc # "wait" /\ Fault
    /\ writer' \in CASE owner.pc = "compare" -> {"orphan"}
                     [] owner.pc = "prepare" -> {"free", "orphan"}
                     [] owner.pc = "check" -> {"free"}
                     [] OTHER -> {writer}
    /\ Failed
    /\ Abandon("owner")
    /\ UNCHANGED <<installed, database, published, idleOfOwner>>

OrphanEnds ==
    /\ writer = "orphan" /\ writer' = "free"
    /\ UNCHANGED <<installed, database, transactions, owner, published, budget, idleOfOwner>>

----------------------------------------------------------------------------
(* Between two iterations: select over the permit, first, and the interval.*)

(* The permit is taken, then the bits.  A local publication goes first;    *)
(* the pull requested with it is requested again.                          *)
PullsFirst(work) == "pull" \in work

TakesPull(work) == "local" \notin work

Requeued(work) == IF TakesPull(work) THEN {} ELSE work \ {"local"}

Woken ==
    /\ At("wait") /\ wake
    /\ owner' = Loop("update", TakesPull(pending))
    /\ pending' = Requeued(pending) /\ wake' = (Requeued(pending) # {})
    /\ UNCHANGED <<installed, database, transactions, source, up, writer, calls, published,
                   notifierVars, migration, budget>>

Interval ==
    /\ At("wait") /\ ~wake
    /\ owner' = Loop("update", TRUE)
    /\ UNCHANGED <<installed, database, transactions, source, up, writer, pending, calls,
                   wake, published, notifierVars, migration, budget>>

----------------------------------------------------------------------------
(* The notifier: read the served hash, tell every target that has not      *)
(* acknowledged it, wait for a publication or the interval.                *)

idleOfNotifier == <<installed, database, transactions, source, up, writer, owner, pending,
                    calls, wake, migration>>

(* The backend's current document; for this deployment the database.       *)
AnnouncesDirectory ==
    IF HasCurrent THEN {installed[Len(installed)].hash} ELSE {}

served_hash == {database.current} \ {0}

Reconcile ==
    /\ notifier.pc = "reconcile"
    /\ \/ /\ \E hash \in served_hash :
                notifier' = Delivering(hash, Targets)
          /\ UNCHANGED budget
       \/ served_hash = {} /\ notifier' = Reconciling("wait") /\ UNCHANGED budget
       \/ notifier' = Reconciling("wait") /\ Fault
    /\ UNCHANGED <<idleOfNotifier, published, accepted>>

(* Every target is tried, whatever came of the others.  A target that      *)
(* acknowledged this hash is skipped; only an acknowledgement is recorded: *)
(* after a lost request or answer the hint is due again.                   *)
Deliver(t) ==
    /\ notifier.pc = "deliver" /\ t \in notifier.left
    /\ notifier' = IF notifier.left = {t} THEN Reconciling("wait")
                   ELSE Delivering(notifier.hash, notifier.left \ {t})
    /\ \/ /\ accepted' = [accepted EXCEPT ![t] = notifier.hash]
          /\ UNCHANGED budget
       \/ accepted[t] # notifier.hash /\ Fault /\ UNCHANGED accepted
    /\ UNCHANGED <<idleOfNotifier, published>>

(* publication_notified, or the interval when no permit is there.          *)
NotifierWakes ==
    /\ notifier.pc = "wait"
    /\ notifier' = Reconciling("reconcile") /\ published' = FALSE
    /\ UNCHANGED <<idleOfNotifier, accepted, budget>>

----------------------------------------------------------------------------
(* The server, the operator, the migration command, and a restart.         *)

idleOfServer == <<ownerVars, notifierVars, migration, budget>>

(* A COMMIT nobody waits for any more.                                     *)
LateEnd ==
    /\ \E tx \in transactions :
          tx.client = "gone" /\ (Commit(tx) \/ RollBack(tx))
    /\ UNCHANGED idleOfServer

(* A local import holds the writer lock, then publishes its content.       *)
BeginImport ==
    /\ writer = "free" /\ Event /\ writer' = "import"
    /\ UNCHANGED <<installed, database, transactions, source, up, owner, pending, calls,
                   wake, published, notifierVars, migration>>

EndImport ==
    /\ writer = "import" /\ writer' = "free"
    /\ \E c \in Contents : installed' = Append(installed, c)
    /\ UNCHANGED <<database, transactions, source, up, owner, pending, calls, wake,
                   published, notifierVars, migration, budget>>

(* migrate_history: the plan is CURRENT's history, read once; the          *)
(* transaction follows; the command ends with it or gives up.              *)
ReadPlan ==
    /\ migration = 0 /\ HasCurrent /\ Event
    /\ migration' = Len(installed)
    /\ UNCHANGED <<installed, database, transactions, ownerVars, notifierVars>>

Migrate ==
    /\ migration # 0
    /\ migrate_transaction("migrate", migration)
    /\ UNCHANGED idleOfServer

MigrateNext ==
    /\ \E tx \in transactions : tx.client = "migrate" /\ StoreNext(tx)
    /\ UNCHANGED idleOfServer

MigrationEnds ==
    /\ migration # 0 /\ migration' = 0
    /\ \E tx \in transactions : tx.client = "migrate" /\ Commit(tx)
    /\ UNCHANGED <<ownerVars, notifierVars, budget>>

MigrationFails ==
    /\ migration # 0 /\ migration' = 0 /\ Fault
    /\ Abandon("migrate")
    /\ UNCHANGED <<installed, database, ownerVars, notifierVars>>

(* The service stops and starts again: files and tables stay, memory and   *)
(* the locks of the process go.                                            *)
Restart ==
    /\ Fault
    /\ writer' = (IF writer = "import" THEN writer ELSE "free")
    /\ owner' = Loop("update", TRUE)
    /\ pending' = {} /\ calls' = 0 /\ wake' = FALSE /\ published' = FALSE
    /\ notifier' = Reconciling("reconcile")
    /\ accepted' = [t \in Targets |-> 0]
    /\ Abandon("owner")
    /\ UNCHANGED <<installed, database, source, up, migration>>

----------------------------------------------------------------------------
Iteration ==
    \/ StartUpdate \/ Compare \/ Prepare \/ Install
    \/ Verify \/ Store \/ Committed \/ Woken \/ Interval

Notification ==
    \/ Reconcile \/ NotifierWakes
    \/ \E t \in Targets : Deliver(t)

Next ==
    \/ Iteration \/ Notification \/ NotifyOwner \/ LateEnd \/ OrphanEnds
    \/ \E kind \in {"pull", "local"} : Request(kind)
    \/ SourceChanges \/ SourceLost \/ BeginImport \/ EndImport
    \/ ReadPlan \/ Migrate \/ MigrateNext \/ MigrationEnds
    \/ IterationFails \/ MigrationFails \/ Restart

(* The loops, their timers, a caller's second step, blocking workers, the  *)
(* server and the commands all keep going; requests, imports, changes of   *)
(* the source and faults need not happen.                                  *)
Fairness ==
    /\ WF_vars(Iteration) /\ WF_vars(Notification)
    /\ WF_vars(NotifyOwner) /\ WF_vars(LateEnd) /\ WF_vars(OrphanEnds)
    /\ WF_vars(EndImport) /\ WF_vars(MigrateNext) /\ WF_vars(MigrationEnds)

OwnerSpec == Init /\ [][Next]_vars /\ Fairness

----------------------------------------------------------------------------
Hashes(history) == {history[i] : i \in 1 .. Len(history)}

(* A hint only ever announces content the database committed: a staged     *)
(* snapshot whose database publication failed, was rolled back or is       *)
(* still uncertain is never announced (registry_service.rs:605).           *)
AnnouncedServed ==
    notifier.pc = "deliver" => notifier.hash \in Hashes(database.history)

(* All that was published is what the migration published.                 *)
OnlyMigrated(db) == db.receipt # 0 /\ db.upto = db.receipt /\ Len(db.history) = db.receipt

(* The served content never goes back to an older installation: not by a   *)
(* COMMIT that lands after its iteration timed out or its process died,    *)
(* and not by a migration whose plan was read before a publication         *)
(* (master_database.rs:302, 562).  Only a migration's own head may be      *)
(* replaced by an older installation: the first publication after it may   *)
(* have been verified (line 247) before the migration committed, and is    *)
(* stored once the lock (line 304) is free.                                *)
ServedForward ==
    [][\/ database'.upto > database.upto
       \/ /\ database'.upto = database.upto
          /\ database.current # 0 => database'.current = database.current
       \/ OnlyMigrated(database) /\ database'.receipt = database.receipt]_database

(* A requested local publication reaches the database whatever the source  *)
(* does and whatever else was requested with it, unless something failed   *)
(* (registry_owner.rs:178).                                                *)
LocalPublished ==
    \A i \in 1 .. 1 + MaxEvents :
        (Len(installed) = i /\ "local" \in pending) ~> (database.upto >= i \/ faulted)

(* Once the source no longer changes and stays reachable, the directory    *)
(* and the database come to serve its content, with its asset version, and *)
(* every consumer acknowledges it: after timeouts, lost answers, restarts, *)
(* a busy writer lock and local imports alike (registry_owner.rs:149).     *)
Delivered ==
    <>[](up => /\ IsCurrent(source)
               /\ served_hash = {source.hash}
               /\ \E r \in RowsOf(database, source.hash) : source.resource \in {NoResource, r.resource}
               /\ \A t \in Targets : accepted[t] = source.hash)

=============================================================================
