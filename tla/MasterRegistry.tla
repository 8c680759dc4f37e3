--------------------------- MODULE MasterRegistry ---------------------------
(***************************************************************************)
(* The directory of installed Master snapshots (src/src/master.rs,         *)
(* src/src/master_registry.rs): publication, retention and the walks of    *)
(* readers, with power losses and killed writers.                          *)
(*                                                                         *)
(* A snapshot is named by the order of its rename into place; 0 is "none". *)
(* Writers take .writer.lock or fail; readers take no lock.  A writer's    *)
(* step ends at each change of the directory that another process can see. *)
(* `view` is what processes see, `disk` what sync_directory made durable:  *)
(* a power loss keeps any subset of the changes in between.                *)
(***************************************************************************)
EXTENDS Integers, Sequences

CONSTANTS
  Writers,       \* processes that import, sync, update or prune
  Readers,       \* history pages, lookups by content, reads of a table: one each
  Keeps,         \* the configured values of keep_snapshots
  Budget,        \* MAX_PRUNED_PER_PASS
  Limits,        \* page sizes
  MaxSnapshots,  \* bound on the snapshots ever installed
  MaxFaults,     \* bound on killed writers and power losses
  KillUnsynced,  \* a writer may die between a rename and its sync
  None           \* no writer

ASSUME RegistryAssumption ==
  /\ MaxSnapshots \in Nat \ {0} /\ MaxFaults \in Nat /\ Budget \in Nat \ {0}
  /\ Keeps \subseteq Nat \ {0, 1}        \* Retention::valid
  /\ Limits \subseteq Nat \ {0}
  /\ KillUnsynced \in BOOLEAN
  /\ None \notin Writers

VARIABLES
  published,   \* per snapshot ever renamed into place: its immutable records
  view, disk,  \* CURRENT, the boundary of retention.json, the directories
  lock,        \* the holder of .writer.lock
  job,         \* per writer: its pass
  walk,        \* per reader: its walk
  faults

vars == <<published, view, disk, lock, job, walk, faults>>

Snapshots == 1..MaxSnapshots
Directory == [CURRENT : 0..MaxSnapshots, boundary : 0..MaxSnapshots, dirs : SUBSET Snapshots]

(* Publication.  A legacy snapshot has no publication.json. *)
Published == [previous : 0..MaxSnapshots, legacy : BOOLEAN]

Previous(s) == published[s].previous
Legacy(s) == published[s].legacy

(* publication: the directory is there and holds a publication record. *)
Recorded(s) == s \in view.dirs /\ ~Legacy(s)

(* What a pass of a writer keeps between two steps. *)
Jobs ==
  [pc : {"idle", "prepared", "chained", "installed", "pointing", "pointed",
         "window", "candidates", "retaining", "bounded", "removing", "removed"},
   previous : 0..MaxSnapshots, snapshot : 0..MaxSnapshots, keep : Keeps \cup {0},
   next : 0..MaxSnapshots, kept : Nat, boundary : 0..MaxSnapshots,
   candidates : Seq(Snapshots), pruned : 0..Budget]

NoJob ==
  [pc |-> "idle", previous |-> 0, snapshot |-> 0, keep |-> 0,
   next |-> 0, kept |-> 0, boundary |-> 0, candidates |-> <<>>, pruned |-> 0]

NoWalk ==
  [pc |-> "new", before |-> 0, limit |-> 0, kind |-> "none", same |-> {}, boundary |-> 0, head |-> 0,
   next |-> 0, visited |-> {}, found |-> FALSE, entries |-> <<>>, more |-> FALSE,
   retained |-> FALSE, legacy |-> FALSE, result |-> "none"]

RegistryTypeOK ==
  /\ published \in Seq(Published) /\ Len(published) <= MaxSnapshots
  /\ \A s \in DOMAIN published : Previous(s) < s
  /\ view \in Directory /\ disk \in Directory
  /\ lock \in Writers \cup {None}
  /\ job \in [Writers -> Jobs]
  /\ \A x \in Writers : job[x].pc # "idle" => lock = x
  /\ faults \in 0..MaxFaults

(* An empty directory, or one whose only snapshot an early release left    *)
(* without a publication record.                                           *)
RegistryInit ==
  /\ published \in {<<>>, <<[previous |-> 0, legacy |-> TRUE]>>}
  /\ view = [CURRENT |-> Len(published), boundary |-> 0, dirs |-> DOMAIN published]
  /\ disk = view
  /\ lock = None
  /\ job = [x \in Writers |-> NoJob]
  /\ walk = [r \in Readers |-> NoWalk]
  /\ faults = 0

-----------------------------------------------------------------------------
(* Writers.  WriterLock::acquire fails at once when the lock is taken. *)
Unlocked == lock = None

Start(x, j) ==
  /\ job[x] = NoJob /\ Unlocked
  /\ lock' = x
  /\ job' = [job EXCEPT ![x] = j]
  /\ UNCHANGED <<published, view, disk, walk, faults>>

Become(x, j) == job' = [job EXCEPT ![x] = j] /\ UNCHANGED lock
Finish(x) == job' = [job EXCEPT ![x] = NoJob] /\ lock' = None

(* prepare_directory or prepare_registry: everything but the publication   *)
(* record is written and synced in a staging directory.                    *)
Prepare(x) ==
  /\ Len(published) < MaxSnapshots
  /\ Start(x, [NoJob EXCEPT !.pc = "prepared"])

(* PreparedImport::publish reads the predecessor and records it. *)
ReadPredecessor(x) ==
  /\ job[x].pc = "prepared"
  /\ \/ /\ view.CURRENT \in view.dirs \cup {0}
        /\ Become(x, [job[x] EXCEPT !.pc = "chained", !.previous = view.CURRENT])
     \/ /\ view.CURRENT \notin view.dirs \cup {0}
        /\ Finish(x)
  /\ UNCHANGED <<published, view, disk, walk, faults>>

InstallUnsynced(x) ==
  LET s == Len(published) + 1 IN
  /\ job[x].pc = "chained" /\ s \in Snapshots
  /\ published' = Append(published,
       [previous |-> job[x].previous, legacy |-> FALSE])
  /\ view' = [view EXCEPT !.dirs = @ \cup {s}]
  /\ Become(x, [job[x] EXCEPT !.pc = "pointing", !.snapshot = s])
  /\ UNCHANGED <<disk, walk, faults>>

Install(x) ==
  LET s == Len(published) + 1 IN
  /\ job[x].pc = "chained" /\ s \in Snapshots
  /\ published' = Append(published,
       [previous |-> job[x].previous, legacy |-> FALSE])
  /\ view' = [view EXCEPT !.dirs = @ \cup {s}]
  /\ Become(x, [job[x] EXCEPT !.pc = "installed", !.snapshot = s])
  /\ UNCHANGED <<disk, walk, faults>>

Point(x) ==
  /\ job[x].pc = "pointing"
  /\ view' = [view EXCEPT !.CURRENT = job[x].snapshot]
  /\ Become(x, [job[x] EXCEPT !.pc = "pointed"])
  /\ UNCHANGED <<published, disk, walk, faults>>

(* sync_directory, after each rename into or out of the directory. *)
Sync(x) ==
  /\ \/ job[x].pc = "installed" /\ Become(x, [job[x] EXCEPT !.pc = "pointing"])
     \/ job[x].pc = "pointed" /\ Finish(x)
     \/ job[x].pc \in {"bounded", "removed"} /\ Become(x, [job[x] EXCEPT !.pc = "removing"])
  /\ disk' = view
  /\ UNCHANGED <<published, view, walk, faults>>

-----------------------------------------------------------------------------
(* retain and prune_within: the window of `keep` installations, or the     *)
(* boundary an earlier pass recorded.                                      *)
Retain(x, k) ==
  /\ view.CURRENT \in view.dirs
  /\ Start(x, [NoJob EXCEPT !.pc = "window", !.keep = k, !.next = view.CURRENT])

KeepsOneMore(x, s) == job[x].kept = job[x].keep \/ s = view.boundary
KeepsOneLess(x, s) == job[x].kept + 2 >= job[x].keep \/ s = view.boundary
LastKept(x, s) == job[x].kept + 1 = job[x].keep \/ s = view.boundary

Window(x) ==
  LET s == job[x].next IN
  /\ job[x].pc = "window"
  /\ IF ~Recorded(s)
     THEN Finish(x)
     ELSE Become(x,
            IF LastKept(x, s)
            THEN [job[x] EXCEPT !.pc = "candidates", !.kept = @ + 1,
                                !.boundary = s, !.next = Previous(s)]
            ELSE [job[x] EXCEPT !.kept = @ + 1, !.next = Previous(s)])
  /\ UNCHANGED <<published, view, disk, walk, faults>>

(* What lies below the boundary, down to the first directory that is gone  *)
(* or has no record.                                                       *)
Candidates(x) ==
  LET s == job[x].next IN
  /\ job[x].pc = "candidates"
  /\ \/ /\ Recorded(s)
        /\ Become(x, [job[x] EXCEPT !.candidates = Append(@, s), !.next = Previous(s)])
     \/ /\ ~Recorded(s)
        /\ IF job[x].candidates = <<>> THEN Finish(x)
           ELSE Become(x, [job[x] EXCEPT !.pc = "retaining"])
  /\ UNCHANGED <<published, view, disk, walk, faults>>

(* write_retention, skipped when the record already says so. *)
WriteRetention(x) ==
  /\ job[x].pc = "retaining"
  /\ view' = [view EXCEPT !.boundary = job[x].boundary]
  /\ Become(x, [job[x] EXCEPT !.pc = IF view' = view THEN "removing" ELSE "bounded"])
  /\ UNCHANGED <<published, disk, walk, faults>>

(* Oldest first, at most Budget of them; each leaves by one rename. *)
OldestFirst(c) == [snapshot |-> c[Len(c)], rest |-> SubSeq(c, 1, Len(c) - 1)]

RenameAway(x) ==
  LET next == OldestFirst(job[x].candidates) IN
  /\ job[x].pc = "removing"
  /\ \/ /\ job[x].candidates # <<>> /\ job[x].pruned < Budget
        /\ view' = [view EXCEPT !.dirs = @ \ {next.snapshot}]
        /\ Become(x, [job[x] EXCEPT !.pc = "removed", !.candidates = next.rest, !.pruned = @ + 1])
     \/ /\ job[x].candidates = <<>> \/ job[x].pruned = Budget
        /\ Finish(x) /\ UNCHANGED view
  /\ UNCHANGED <<published, disk, walk, faults>>

-----------------------------------------------------------------------------
(* Faults.  A writer dies, or returns an error, between two steps: the     *)
(* operating system releases its lock.                                     *)
Kill(x) ==
  /\ job[x].pc # "idle" /\ faults < MaxFaults
  /\ KillUnsynced \/ view = disk
  /\ faults' = faults + 1
  /\ Finish(x)
  /\ UNCHANGED <<published, view, disk, walk>>

(* Any subset of the changes not yet synced survives; every process ends. *)
PowerLoss ==
  /\ view # disk /\ faults < MaxFaults
  /\ faults' = faults + 1
  /\ \E c \in {view.CURRENT, disk.CURRENT}, b \in {view.boundary, disk.boundary},
        kept \in SUBSET ((view.dirs \cup disk.dirs) \ (view.dirs \cap disk.dirs)) :
       view' = [CURRENT |-> c, boundary |-> b, dirs |-> (view.dirs \cap disk.dirs) \cup kept]
  /\ disk' = view'
  /\ job' = [x \in Writers |-> NoJob] /\ lock' = None
  /\ walk' = [r \in Readers |-> IF walk[r].pc = "new" THEN NoWalk
                                ELSE [NoWalk EXCEPT !.pc = "done"]]
  /\ UNCHANGED published

-----------------------------------------------------------------------------
(* Readers.  history_page and manifest_by_hash read the boundary first. *)
Step(r, w) == walk' = [walk EXCEPT ![r] = w] /\ UNCHANGED <<published, view, disk, lock, job, faults>>

(* The fields a caller sees; the rest of the walk is forgotten. *)
Answer(w, result) ==
  [NoWalk EXCEPT !.pc = "done", !.result = result, !.before = w.before, !.limit = w.limit,
     !.kind = w.kind, !.same = w.same, !.head = w.head, !.entries = w.entries, !.more = w.next # 0,
     !.retained = w.retained, !.legacy = w.legacy]

Fail(w, result) == Answer([w EXCEPT !.entries = <<>>, !.next = 0, !.retained = FALSE,
                                    !.legacy = FALSE], result)

HistoryPage(r, before, limit) ==
  /\ walk[r].pc = "new"
  /\ Step(r, [NoWalk EXCEPT !.pc = "head", !.kind = "history", !.before = before,
                            !.limit = limit, !.boundary = view.boundary, !.found = before = 0])

ManifestByHash(r) ==
  /\ walk[r].pc = "new"
  /\ Step(r, [NoWalk EXCEPT !.pc = "head", !.kind = "by_hash", !.boundary = view.boundary])

(* read_current_inner: a table of the snapshot CURRENT names. *)
ReadTable(r) ==
  /\ walk[r].pc = "new"
  /\ Step(r, [NoWalk EXCEPT !.pc = "head", !.kind = "table"])

(* predecessor: the pointer, then the directory it names. *)
ReadCurrent(r) ==
  /\ walk[r].pc = "head"
  /\ Step(r, IF view.CURRENT = 0 THEN Fail(walk[r], "not_found")
             ELSE [walk[r] EXCEPT !.pc = "pinned", !.head = view.CURRENT])

(* Only a lookup tells contents apart: `same`, the snapshots that have the *)
(* identity it asks for, is any set of them.                               *)
PinHead(r) ==
  /\ walk[r].pc = "pinned"
  /\ \E same \in IF walk[r].kind = "by_hash" THEN SUBSET (1..walk[r].head) ELSE {{}} :
       Step(r, IF walk[r].head \in view.dirs
               THEN [walk[r] EXCEPT !.pc = "manifest", !.next = walk[r].head, !.same = same]
               ELSE Fail(walk[r], "missing"))

(* chain_step reads the manifest, then the publication record; a record    *)
(* that is not there makes it look at the directory again.                 *)
ReadManifest(r) ==
  LET s == walk[r].next IN
  /\ walk[r].pc = "manifest"
  /\ Step(r, [walk[r] EXCEPT !.visited = @ \cup {s},
                             !.pc = IF s \in view.dirs THEN "record" ELSE "crossed"])

NoRecheck(s) == [ok |-> TRUE, previous |-> IF s \in view.dirs THEN Previous(s) ELSE 0,
                 legacy |-> s \notin view.dirs \/ Legacy(s)]
Record(s) == [ok |-> s \in view.dirs, previous |-> Previous(s), legacy |-> Legacy(s)]

(* One turn of history_walk's loop, after its chain_step. *)
HistoryStep(w, s, record) ==
  LET stop == record.previous # 0 /\ w.boundary = s
      seen == [w EXCEPT !.next = IF stop THEN 0 ELSE record.previous,
                        !.retained = @ \/ stop, !.legacy = @ \/ record.legacy,
                        !.found = w.found \/ w.before = s,
                        !.entries = IF w.found THEN Append(@, s) ELSE @,
                        !.pc = "manifest"]
  IN  IF seen.next # 0 /\ Len(seen.entries) < w.limit THEN seen
      ELSE IF seen.found THEN Answer(seen, "page") ELSE Fail(seen, "not_found")

(* table_read and read_current_inner: the bytes of the table. *)
TableStep(w, s) == Answer([w EXCEPT !.entries = <<s>>, !.next = 0], "page")

(* One turn of by_hash_walk's loop. *)
HashStep(w, s, record) ==
  IF s \in w.same THEN Answer([w EXCEPT !.entries = <<s>>, !.next = 0], "page")
  ELSE IF s = w.boundary \/ record.previous = 0 THEN Fail(w, "not_found")
  ELSE [w EXCEPT !.next = record.previous, !.pc = "manifest"]

ReadRecord(r) ==
  LET w == walk[r]
      s == w.next
      record == Record(s)
  IN  /\ w.pc = "record"
      /\ Step(r, IF ~record.ok THEN [w EXCEPT !.pc = "crossed"]
                 ELSE CASE w.kind = "history" -> HistoryStep(w, s, record)
                        [] w.kind = "by_hash" -> HashStep(w, s, record)
                        [] w.kind = "table"   -> TableStep(w, s))

(* A missing directory is explained by a boundary the walk has passed. *)
StaleBoundary(w, b) == w.boundary # 0 /\ w.boundary # w.next /\ w.boundary \in w.visited
Explains(w, b) == b # 0 /\ b # w.next /\ b \in w.visited

(* The boundary's place on the page; 0 when it is the cursor itself. *)
Position(w, b) ==
  IF w.before = b THEN 0 ELSE CHOOSE i \in DOMAIN w.entries : w.entries[i] = b

Truncated(w, n) == [w EXCEPT !.next = 0, !.retained = TRUE, !.entries = SubSeq(@, 1, n)]

CrossedBoundary(r) ==
  LET w == walk[r]
      b == view.boundary
  IN  /\ w.pc = "crossed"
      /\ Step(r,
           IF w.kind = "table" \/ ~Explains(w, b) THEN Fail(w, "missing")
           ELSE IF w.kind = "history" /\ (w.before = b \/ \E i \in DOMAIN w.entries : w.entries[i] = b)
                THEN Answer(Truncated(w, Position(w, b)), "page")
           ELSE Fail(w, "not_found"))

-----------------------------------------------------------------------------
WriterStep(x) ==
  \/ ReadPredecessor(x) \/ Install(x) \/ Point(x) \/ Sync(x)
  \/ Window(x) \/ Candidates(x) \/ WriteRetention(x) \/ RenameAway(x)

RetentionPass == \E x \in Writers, k \in Keeps : Retain(x, k)

RegistryNext ==
  \/ RetentionPass
  \/ \E x \in Writers : Prepare(x) \/ WriterStep(x) \/ Kill(x)
  \/ PowerLoss
  \/ \E r \in Readers :
       \/ \E before \in 0..Len(published), limit \in Limits : HistoryPage(r, before, limit)
       \/ ManifestByHash(r) \/ ReadTable(r) \/ ReadCurrent(r) \/ PinHead(r)
       \/ ReadManifest(r) \/ ReadRecord(r) \/ CrossedBoundary(r)

RegistrySpec == RegistryInit /\ [][RegistryNext]_vars

(* A writer that runs goes on, and retention follows every settled pass of *)
(* the update and sync loops, which recur at their interval.               *)
FairRegistrySpec ==
  RegistrySpec /\ (\A x \in Writers : WF_vars(WriterStep(x))) /\ WF_vars(RetentionPass)

-----------------------------------------------------------------------------
(* CURRENT always names a directory that is there (PreparedImport::publish *)
(* and prune_within): now, after a power loss, and whatever a killed       *)
(* writer left behind.                                                     *)
CurrentReadable ==
  \A d \in {view, disk} : d.CURRENT # 0 => d.CURRENT \in view.dirs \cap disk.dirs

=============================================================================
