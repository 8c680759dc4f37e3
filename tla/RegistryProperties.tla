------------------------- MODULE RegistryProperties -------------------------
(***************************************************************************)
(* What publication, retention and the readers' walks of the Master        *)
(* registry promise of the chain of publications (MasterRegistry).         *)
(***************************************************************************)
EXTENDS MasterRegistry, FiniteSets

(* The committed chain below a snapshot, itself included. *)
ChainIn(records, h) ==
  LET below[s \in 0..Len(records)] ==
        IF s = 0 THEN {} ELSE {s} \cup below[records[s].previous]
  IN  below[h]

Chain(h) == ChainIn(published, h)

(* The snapshot a page begins with, the last one it has walked over, and   *)
(* the one that comes next in the chain; 0 when there is none.             *)
First(w) == IF w.before = 0 THEN w.head ELSE Previous(w.before)
LastSeen(w) == IF w.entries = <<>> THEN w.before ELSE w.entries[Len(w.entries)]
Rest(w) == IF LastSeen(w) = 0 THEN w.head ELSE Previous(LastSeen(w))

(* A page in full; a full page that has more; one cut at the boundary; one *)
(* that ends at a snapshot without a record.                               *)
PageHonest(w) ==
  /\ w.before \in Chain(w.head) \cup {0}
  /\ \A i \in DOMAIN w.entries :
       /\ w.entries[i] = IF i = 1 THEN First(w) ELSE Previous(w.entries[i - 1])
       /\ w.entries[i] # 0
  /\ w.more => Len(w.entries) = w.limit /\ Rest(w) # 0
  /\ Rest(w) # 0 => w.more \/ w.retained
  /\ w.retained => Rest(w) # 0 /\ Rest(w) < view.boundary
  /\ w.legacy => Rest(w) = 0 /\ Legacy(LastSeen(w))

(* A history page (history_walk) is a contiguous part of the committed     *)
(* chain, from the head it pinned or from its cursor, and it never ends    *)
(* early without saying so: has_more if the page is full, the retention    *)
(* flag only when all the rest lies below the recorded boundary, and the   *)
(* legacy flag only at a snapshot that really has no record.               *)
HistoryHonest ==
  \A r \in Readers :
    walk[r].result = "page" /\ walk[r].kind = "history" => PageHonest(walk[r])

CursorRetired(w) == w.before # 0 /\ (w.before \notin Chain(w.head) \/ w.before < view.boundary)
ContentRetired(w) == \A s \in Chain(w.head) \cap w.same : s < view.boundary
NewestFound(w) ==
  \E s \in Chain(w.head) \cap w.same :
    w.entries = <<s>> /\ \A t \in Chain(w.head) \cap w.same : t <= s

(* A walk fails only for a reason (crossed_boundary): an unexplained       *)
(* missing directory only when the pinned head itself has been retired; an *)
(* unknown cursor only when it is not on the chain or was retired; a       *)
(* content identity (by_hash_walk) only when no retained installation has  *)
(* it, and a found one is the newest that has it.                          *)
LookupsExplained ==
  \A r \in Readers : LET w == walk[r] IN
    /\ w.result = "missing" => w.head < view.boundary
    /\ w.result = "not_found" /\ w.kind = "history" /\ w.head # 0 => CursorRetired(w)
    /\ w.result = "not_found" /\ w.kind = "by_hash" => ContentRetired(w)
    /\ w.result = "page" /\ w.kind = "by_hash" => NewestFound(w)

(* The directory implements a durable log of publications with retention   *)
(* (PublicationLog): no acknowledged publication is lost, none is skipped, *)
(* and the two newest settled snapshots are never removed.                 *)
Log == INSTANCE PublicationLog WITH
  log <- Chain(view.CURRENT),
  settled <- Chain(disk.CURRENT),
  gone <- Chain(view.CURRENT) \ view.dirs

LogSpec == Log!LogSpec

(* A backlog converges over later passes (MAX_PRUNED_PER_PASS): a          *)
(* committed snapshot beyond every configured window is removed in the     *)
(* end, or a power loss takes back what outdated it.  A window has two     *)
(* snapshots at least, so the two last ones are never beyond it.           *)
Overdue(s) ==
  LET chain == Chain(view.CURRENT) IN
  /\ s \in chain /\ Recorded(s)
  /\ \A k \in Keeps : Cardinality({t \in chain : t > s}) >= k

BacklogConverges == \A s \in 1..(MaxSnapshots - 2) : Overdue(s) ~> ~Overdue(s)

=============================================================================
