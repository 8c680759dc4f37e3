---------------------------- MODULE MasterOrigin ----------------------------
(***************************************************************************)
(* The node a region's Master data originates from: the updater that       *)
(* installs what the game announces (master_update.rs), and the Git        *)
(* publication of what is installed (master_git.rs, master_git_worker.rs): *)
(* local branch, remote branch, push, and adoption of remote history.      *)
(*                                                                         *)
(* A commit is the sequence of the entries of its history, so an ancestor  *)
(* is a prefix.  An entry is a publication of this scope ("ours"), of      *)
(* another environment or platform of the region ("twin"), of another      *)
(* region or layout ("other"), or no publication at all ("foreign").  Two  *)
(* histories of equal trees are equal only if the same state directory     *)
(* made them, which `era` tells.                                           *)
(* What is installed is a Master version and the asset version recorded    *)
(* with it, 0 for none; the registry's files are MasterRegistry's.         *)
(***************************************************************************)
EXTENDS Integers, Sequences

CONSTANTS
    None,
    Layout,             \* "native" or "indented_root"
    AdoptDepth,         \* ADOPT_DEPTH
    MaxOriginEvents     \* what the game, the network, operators and strangers do

ASSUME OriginAssumption ==
    /\ Layout \in {"native", "indented_root"}
    /\ AdoptDepth \in Nat \ {0} /\ MaxOriginEvents \in Nat

VARIABLES
    game,               \* what VERSION announces
    current, intact,    \* what CURRENT names, and whether its tables are whole
    updater,            \* the pass of the updater
    git_wake,           \* the pending permit of master_git_wake
    local, era,         \* the managed branch, and the state directory it is in
    remote,             \* the remote branch
    worker,             \* whether the worker is due
    pass,               \* the operation that holds the state lock
    last,               \* last_success: the commit of the last verified receipt
    happened

install == <<game, current, intact, updater>>
branches == <<local, era, remote>>
originVars == <<install, git_wake, branches, worker, pass, last, happened>>

OriginEvent == happened < MaxOriginEvents /\ happened' = happened + 1

(* merge-base --is-ancestor *)
ancestor(older, newer) ==
    Len(older) <= Len(newer) /\ \A i \in 1..Len(older) : older[i] = newer[i]

Resting == [pc |-> "idle", target |-> None]

OriginInit ==
    /\ game = [version |-> 1, asset |-> 1]
    /\ current = None /\ intact = TRUE /\ updater = Resting
    /\ git_wake = FALSE
    /\ local = <<>> /\ era = 0 /\ remote = <<>>
    /\ worker = "due" /\ pass = None /\ last = None
    /\ happened = 0

----------------------------------------------------------------------------
(* MasterUpdater.  A pass holds the writer lock up to the publication; the *)
(* wakes follow once the pass is recorded.                                 *)

(* Provenance that is missing is worth a reinstallation, and so is a table *)
(* that is damaged.                                                        *)
Unchanged(target) ==
    /\ current # None /\ intact /\ current.version = target.version
    /\ target.asset # 0 => current.asset # 0

Update ==
    /\ updater.pc = "idle" /\ ~Unchanged(game)
    /\ updater' = [pc |-> "download", target |-> game]
    /\ UNCHANGED <<game, current, intact, git_wake, branches, worker, pass, last, happened>>

PrepareTarget ==
    /\ updater.pc = "download"
    /\ updater' = [updater EXCEPT !.pc = "prepared"]
    /\ UNCHANGED <<game, current, intact, git_wake, branches, worker, pass, last, happened>>

(* The target is asked for again; nothing is awaited after that. *)
InstallTarget ==
    /\ updater.pc = "prepared"
    /\ IF game = updater.target
       THEN /\ current' = game /\ intact' = TRUE
            /\ updater' = [updater EXCEPT !.pc = "installed"]
       ELSE /\ updater' = Resting /\ UNCHANGED <<current, intact>>
    /\ UNCHANGED <<game, git_wake, branches, worker, pass, last, happened>>

(* A download, VERSION, or the deadline. *)
UpdateFails ==
    /\ updater.pc \in {"download", "prepared"} /\ OriginEvent
    /\ updater' = Resting
    /\ UNCHANGED <<game, current, intact, git_wake, branches, worker, pass, last>>

record_master_update ==
    /\ updater.pc = "installed"
    /\ updater' = Resting /\ git_wake' = TRUE
    /\ UNCHANGED <<game, current, intact, branches, worker, pass, last, happened>>

----------------------------------------------------------------------------
(* The worker: due at the start, on a wake and after the interval.         *)

Running(pc) == pass # None /\ pass.pc = pc

(* Its own pass is over; an adoption is another process's. *)
Waiting == worker = "waiting" /\ (pass = None \/ Running("adopt"))

GitWoken ==
    /\ Waiting /\ git_wake
    /\ git_wake' = FALSE /\ worker' = "due"
    /\ UNCHANGED <<install, branches, pass, last, happened>>

WakesOnly == FALSE
IntervalOver == Waiting
GitInterval ==
    /\ IntervalOver
    /\ worker' = "due"
    /\ UNCHANGED <<install, git_wake, branches, pass, last, happened>>

(* The tree a layout publishes: the native one leaves the asset version    *)
(* out, the indented one cannot do without.                                *)
Tree(content) == IF Layout = "native" THEN <<content.version>>
                 ELSE <<content.version, content.asset>>
Publishable(content) ==
    content # None /\ intact /\ (Layout = "indented_root" => content.asset # 0)

(* prepare and initialize, under the state lock. *)
PublishBegins ==
    /\ worker = "due"
    /\ worker' = "waiting"
    /\ pass' = IF pass = None /\ Publishable(current)
               THEN [pc |-> "check", tree |-> Tree(current), parent |-> local]
               ELSE pass
    /\ UNCHANGED <<install, git_wake, branches, last, happened>>

(* check_remote: a remote that has what the local branch lacks is not      *)
(* touched.                                                                *)
EmptyAccepted ==
    /\ Running("check")
    /\ pass' = IF pass.parent = <<>> \/ ancestor(remote, pass.parent)
               THEN [pass EXCEPT !.pc = "commit"] ELSE None
    /\ UNCHANGED <<install, git_wake, branches, worker, last, happened>>
check_remote ==
    /\ Running("check")
    /\ pass' = IF ancestor(remote, pass.parent) THEN [pass EXCEPT !.pc = "commit"] ELSE None
    /\ UNCHANGED <<install, git_wake, branches, worker, last, happened>>

(* A tree that is the parent's needs no commit; it is pushed all the same, *)
(* for an earlier pass may have ended between its commit and its push.     *)
CommittedTree == pass.parent # <<>> /\ pass.parent[Len(pass.parent)].tree = pass.tree
CommitUnpushed ==
    /\ Running("commit")
    /\ IF CommittedTree THEN local' = local /\ last' = local /\ pass' = None
       ELSE /\ local' = Append(pass.parent, [kind |-> "ours", tree |-> pass.tree, id |-> era])
            /\ pass' = [pass EXCEPT !.pc = "push", !.parent = local'] /\ last' = last
    /\ UNCHANGED <<install, git_wake, era, remote, worker, happened>>
GitCommit ==
    /\ Running("commit")
    /\ local' = IF CommittedTree THEN local
                ELSE Append(pass.parent, [kind |-> "ours", tree |-> pass.tree, id |-> era])
    /\ pass' = [pass EXCEPT !.pc = "push", !.parent = local']
    /\ UNCHANGED <<install, git_wake, era, remote, worker, last, happened>>

(* finish: a push the remote takes only forward, then a look at its head. *)
FastForward == ancestor(remote, pass.parent)
Push ==
    /\ Running("push")
    /\ IF FastForward THEN remote' = pass.parent /\ pass' = [pass EXCEPT !.pc = "verify"]
       ELSE UNCHANGED remote /\ pass' = None
    /\ UNCHANGED <<install, git_wake, local, era, worker, last, happened>>

VerifyHead ==
    /\ Running("verify")
    /\ last' = IF remote = pass.parent THEN pass.parent ELSE last
    /\ pass' = None
    /\ UNCHANGED <<install, git_wake, branches, worker, happened>>

(* The process group is killed and the lock released; a push may already   *)
(* have arrived.                                                           *)
Killed ==
    /\ pass' = None
    /\ \/ UNCHANGED remote
       \/ Running("push") /\ FastForward /\ remote' = pass.parent

(* A command fails or the budget is spent. *)
PassFails ==
    /\ pass # None /\ OriginEvent /\ Killed
    /\ UNCHANGED <<install, git_wake, local, era, worker, last>>

----------------------------------------------------------------------------
(* master-git-adopt, run by an operator when no pass holds the lock.       *)

(* The newest publication among the latest commits decides.  The native    *)
(* layout records the whole scope, the indented one the region only.       *)
Sirius(commit) == {i \in DOMAIN commit : commit[i].kind # "foreign"}
Newest(commit) == CHOOSE i \in Sirius(commit) : \A j \in Sirius(commit) : j <= i
AnySubject(head) ==
    Sirius(head) # {} /\ Newest(head) > Len(head) - AdoptDepth
recognize(head) ==
    /\ Sirius(head) # {} /\ Newest(head) > Len(head) - AdoptDepth
    /\ head[Newest(head)].kind \in IF Layout = "native" THEN {"ours"} ELSE {"ours", "twin"}

(* The remote has commits the local branch lacks; or each has some. *)
Obstructed == ~ancestor(remote, local)
Diverged == Obstructed /\ ~ancestor(local, remote)

AdoptBegins ==
    /\ pass = None /\ Obstructed /\ ~Diverged /\ recognize(remote)
    /\ pass' = [pc |-> "adopt", head |-> remote]
    /\ UNCHANGED <<install, git_wake, branches, worker, last, happened>>

(* advance compares and swaps; the lock was held since local was read. *)
Adopt ==
    /\ Running("adopt")
    /\ local' = pass.head /\ pass' = None
    /\ UNCHANGED <<install, git_wake, era, remote, worker, last, happened>>

(* To recover from divergence, the state directory is moved aside. *)
MoveAside ==
    /\ pass = None /\ Diverged
    /\ local' = <<>> /\ era' = era + 1
    /\ UNCHANGED <<install, git_wake, remote, worker, pass, last, happened>>

----------------------------------------------------------------------------
(* The environment. *)

GameChanges ==
    /\ OriginEvent
    /\ \/ \E asset \in {0, 1} : game' = [version |-> game.version + 1, asset |-> asset]
       \/ game.asset = 0 /\ game' = [game EXCEPT !.asset = 1]
    /\ UNCHANGED <<current, intact, updater, git_wake, branches, worker, pass, last>>

(* master-import takes the writer lock and wakes nobody. *)
Import ==
    /\ updater.pc \in {"idle", "installed"} /\ OriginEvent
    /\ \E asset \in {0, 1} : current' = [version |-> game.version, asset |-> asset]
    /\ intact' = TRUE
    /\ UNCHANGED <<game, updater, git_wake, branches, worker, pass, last>>

TableDamaged ==
    /\ current # None /\ intact /\ OriginEvent
    /\ intact' = FALSE
    /\ UNCHANGED <<game, current, updater, git_wake, branches, worker, pass, last>>

(* Another writer on the remote branch.  It only appends. *)
Stranger ==
    /\ OriginEvent
    /\ \E kind \in {"foreign", "other", "twin"} :
         remote' = Append(remote, [kind |-> kind, tree |-> <<>>, id |-> happened])
    /\ UNCHANGED <<install, git_wake, local, era, worker, pass, last>>

StateLost ==
    /\ pass = None /\ local # <<>> /\ OriginEvent
    /\ local' = <<>> /\ era' = era + 1
    /\ UNCHANGED <<install, git_wake, remote, worker, pass, last>>

(* What the process held in memory is gone: passes, permits, status.  An   *)
(* adoption is another process.                                            *)
OriginRestarts ==
    /\ OriginEvent
    /\ updater' = Resting /\ git_wake' = FALSE /\ worker' = "due" /\ last' = None
    /\ IF Running("adopt") THEN UNCHANGED <<pass, remote>> ELSE Killed
    /\ UNCHANGED <<game, current, intact, local, era>>

----------------------------------------------------------------------------
Updating == Update \/ PrepareTarget \/ InstallTarget \/ record_master_update
Publishing == PublishBegins \/ check_remote \/ GitCommit \/ Push \/ VerifyHead

OriginNext ==
    \/ Updating \/ UpdateFails \/ GitWoken \/ GitInterval
    \/ Publishing \/ PassFails \/ AdoptBegins \/ Adopt \/ MoveAside
    \/ GameChanges \/ Import \/ TableDamaged \/ Stranger \/ StateLost \/ OriginRestarts

(* The worker, the updater and an adoption are separate activities.  The   *)
(* operator does what docs/MASTER_REGISTRY.md asks for, and tries again    *)
(* when the lock is taken.                                                 *)
OriginSpec ==
    /\ OriginInit /\ [][OriginNext]_originVars
    /\ WF_originVars(Updating) /\ WF_originVars(Publishing)
    /\ WF_originVars(GitWoken) /\ WF_originVars(GitInterval)
    /\ SF_originVars(AdoptBegins) /\ WF_originVars(Adopt) /\ SF_originVars(MoveAside)

----------------------------------------------------------------------------
(* While nobody else writes to the remote branch, it and the managed       *)
(* branch are one history, the one an ancestor of the other: no pass       *)
(* starts a second history beside the published one, although the state    *)
(* directory is lost, a pass is killed between its commit and its push, a  *)
(* push arrives of which nobody hears, or an adoption is under way         *)
(* (check_remote, adopt_with_options).                                     *)
OneHistory == (\A i \in DOMAIN remote : remote[i].kind = "ours") => ~Diverged

(* The commit of last_success is on the remote branch, also when a pass    *)
(* finds nothing to commit because an earlier one ended between its commit *)
(* and its push.                                                           *)
ReceiptTrue == last # None => ancestor(last, remote)

(* The newest publication on the managed branch, whatever adopt took over  *)
(* from a remote that others write to, is one of this region and layout,   *)
(* and in the native layout one of this very scope: the next pass          *)
(* continues no other history.  The indented layout cannot tell two        *)
(* environments of a region apart (docs/MASTER_REGISTRY.md:554-555).       *)
LocalOurs ==
    Sirius(local) # {} =>
        /\ local[Newest(local)].kind # "other"
        /\ Layout = "native" => local[Newest(local)].kind # "twin"

(* What is installed gets to the tip of the remote branch: after lost      *)
(* wakes, imports that wake nobody, failed or killed passes, restarts, a   *)
(* lost state directory, and commits of others that adopt recognizes.      *)
Settled == updater.pc = "idle" /\ Unchanged(game)
Unrecognized == Obstructed /\ ~recognize(remote)
GitConverges ==
    (Settled /\ Publishable(current))
        ~> \/ ~(Settled /\ Publishable(current))
           \/ remote # <<>> /\ remote[Len(remote)].tree = Tree(current)
           \/ Unrecognized
=============================================================================
