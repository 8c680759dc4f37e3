------------------------- MODULE RegistryWalkProofs -------------------------
(***************************************************************************)
(* What the readers of the Master registry are told, for any number of     *)
(* readers, writers, snapshots and page sizes: pages of the history and    *)
(* lookups of a content, while writers publish and prune.                  *)
(***************************************************************************)
EXTENDS MasterRegistryProofs

-----------------------------------------------------------------------------
(* The walks of readers. *)
WalkPcs == {"new", "head", "pinned", "manifest", "record", "crossed", "done"}
Walks ==
  [pc : WalkPcs, before : Nat, limit : Nat, kind : {"none", "history", "by_hash", "table"},
   same : SUBSET Nat, boundary : Nat, head : Nat, next : Nat, visited : SUBSET Nat,
   found : BOOLEAN, entries : Seq(Nat), more : BOOLEAN, retained : BOOLEAN, legacy : BOOLEAN,
   result : {"none", "page", "missing", "not_found"}]

(* What HistoryHonest and LookupsExplained say of one answer. *)
Answered(w) ==
  /\ w.result = "page" /\ w.kind = "history" => PageHonest(w)
  /\ w.result = "missing" => w.head < view.boundary
  /\ w.result = "not_found" /\ w.kind = "history" /\ w.head # 0 => CursorRetired(w)
  /\ w.result = "not_found" /\ w.kind = "by_hash" => ContentRetired(w)
  /\ w.result = "page" /\ w.kind = "by_hash" => NewestFound(w)

(* The part of the pinned chain that a walk has passed. *)
Walked(w) == {t \in Chain(w.head) : t > w.next}

(* A walk between its head and its end: it has looked at all it passed,    *)
(* and a page holds what lies between its cursor and the next snapshot.    *)
OnTheWay(w) ==
  /\ w.kind # "none"
  /\ w.next \in Chain(w.head)
  /\ w.visited = IF w.pc = "manifest" THEN Walked(w) ELSE Walked(w) \cup {w.next}
  /\ w.pc = "crossed" => w.next \notin view.dirs
  /\ w.kind = "table" => w.next = w.head
  /\ w.kind = "by_hash" => Walked(w) \cap w.same = {}
  /\ w.kind = "history" => Len(w.entries) < w.limit
  /\ w.kind = "history" /\ ~w.found =>
       w.before # 0 /\ w.before \notin Walked(w) /\ w.entries = <<>>
  /\ w.kind = "history" /\ w.found =>
       /\ w.before \in Walked(w) \cup {0}
       /\ w.next = Rest(w)
       /\ \A i \in 1..Len(w.entries) :
            w.entries[i] = IF i = 1 THEN First(w) ELSE Previous(w.entries[i - 1])
       /\ \A t \in Walked(w) : w.before = 0 \/ t < w.before =>
            \E i \in 1..Len(w.entries) : w.entries[i] = t

(* A walk pins a head on the chain and a boundary that only rises after it. *)
WalkSound(w) ==
  /\ w.head \in 0..Len(published) /\ w.boundary <= view.boundary
  /\ \A i \in 1..Len(w.entries) : w.entries[i] \in Chain(w.head)
  /\ w.legacy => LastSeen(w) # 0
  /\ Answered(w)
  /\ w.pc # "done" => w.result = "none" /\ ~w.retained /\ ~w.legacy
  /\ w.pc \in {"head", "pinned"} =>
       /\ w.entries = <<>> /\ w.visited = {} /\ w.kind # "none"
       /\ w.pc = "head" => w.head = 0
       /\ w.kind = "history" => w.limit # 0 /\ w.found = (w.before = 0)
  /\ w.pc \in {"pinned", "manifest", "record", "crossed"} => w.head \in Chain(view.CURRENT)
  /\ w.pc \in {"manifest", "record", "crossed"} => OnTheWay(w)

WalkInv == walk \in [Readers -> Walks] /\ \A r \in Readers : WalkSound(walk[r])

(* history_walk, entries.push: the page keeps what it has and ends with the new snapshot. *)
LEMMA AppendNat ==
  ASSUME NEW s \in Seq(Nat), NEW t \in Nat
  PROVE  /\ Append(s, t) # <<>> /\ Len(Append(s, t)) = Len(s) + 1 /\ Len(s) \in Nat
         /\ Append(s, t)[Len(s) + 1] = t /\ \A i \in 1..Len(s) : Append(s, t)[i] = s[i]
OBVIOUS

(* history_walk, entries.truncate: a page cut at a boundary keeps its first entries. *)
LEMMA PrefixNat ==
  ASSUME NEW s \in Seq(Nat), NEW n \in 0..Len(s)
  PROVE  /\ SubSeq(s, 1, n) \in Seq(Nat) /\ Len(SubSeq(s, 1, n)) = n
         /\ \A i \in 1..n : SubSeq(s, 1, n)[i] = s[i]
OBVIOUS

(* What a step of a writer may do to a walk in progress: the chain of its  *)
(* head stays, no directory on it comes back, and the boundary only rises. *)
LEMMA WalkKept ==
  ASSUME ReadableInv, ReadableInv', NEW w \in Walks, WalkSound(w),
         Len(published) <= Len(published'),
         \A s \in 1..Len(published) : published'[s] = published[s],
         Chain(view.CURRENT) \subseteq Chain(view.CURRENT)',
         view.boundary <= view'.boundary,
         \A s \in Chain(view.CURRENT) : s \in view'.dirs => s \in view.dirs
  PROVE  WalkSound(w)'
<1> DEFINE H == Chain(w.head)
<1>1. /\ Chained(published) /\ Chained(published') /\ w.head \in 0..Len(published)
      /\ Len(published) \in Nat /\ Len(published') \in Nat /\ w.head \in 0..Len(published')
      /\ view.boundary \in Nat /\ view'.boundary \in Nat
  <2>1. Chained(published) /\ Len(published) \in Nat /\ view.boundary \in Nat
    BY RegistryChained, DirectoryTypes
  <2>2. Chained(published') /\ Len(published') \in Nat /\ view'.boundary \in Nat
    <3>1. RegistryTypeOK' /\ MaxSnapshots \in Nat
      BY RegistryAssumption, Zenon DEF ReadableInv
    <3>2. published' \in Seq(Published) /\ view' \in Directory /\ \A s \in DOMAIN published' : published'[s].previous < s
      BY <3>1, Zenon DEF RegistryTypeOK, Previous
    <3> QED
      BY <3>1, <3>2 DEF Chained, Directory, Published
  <2>3. w.head \in 0..Len(published)
    BY Zenon DEF WalkSound
  <2> QED
    BY <2>1, <2>2, <2>3
<1>2. Chain(w.head)' = H
  BY <1>1, ChainKept, Zenon DEF Chain
<1>3. \A s \in H : s \in 1..Len(published) /\ s \in Nat
  BY <1>1, ChainBelow DEF Chain
<1>4. \A s \in H : Previous(s)' = Previous(s) /\ Legacy(s)' = Legacy(s)
  BY <1>3, Zenon DEF Previous, Legacy
<1>5. /\ w.entries \in Seq(Nat) /\ Len(w.entries) \in Nat /\ w.before \in Nat /\ w.boundary \in Nat
      /\ w.next \in Nat /\ w.head \in Nat /\ \A i \in 1..Len(w.entries) : w.entries[i] \in H
  BY DEF Walks, WalkSound
<1> HIDE DEF H
<1>6. LastSeen(w)' = LastSeen(w) /\ (w.entries # <<>> => LastSeen(w) \in H) /\ (w.entries = <<>> => LastSeen(w) = w.before)
  BY <1>5 DEF LastSeen
<1>7. w.before \in H \cup {0} => First(w)' = First(w) /\ Rest(w)' = Rest(w)
  BY <1>4, <1>6, Zenon DEF First, Rest
<1>8. Answered(w)'
  <2>1. w.result = "page" /\ w.kind = "history" => PageHonest(w)'
    <3> SUFFICES ASSUME w.result = "page" /\ w.kind = "history" PROVE PageHonest(w)'
      BY Zenon
    <3>1. PageHonest(w)
      BY Zenon DEF WalkSound, Answered
    <3>2. w.before \in H \cup {0} /\ First(w)' = First(w) /\ Rest(w)' = Rest(w)
      BY <1>7, <3>1, Zenon DEF PageHonest, H
    <3>3. ASSUME NEW i \in DOMAIN w.entries
          PROVE  /\ w.entries[i] = IF i = 1 THEN First(w)' ELSE Previous(w.entries[i - 1])'
                 /\ w.entries[i] # 0
      <4>1. i \in 1..Len(w.entries) /\ (i # 1 => i - 1 \in 1..Len(w.entries))
        <5>1. DOMAIN w.entries = 1..Len(w.entries)
          BY <1>5
        <5> QED
          BY <1>5, <5>1
      <4>2. w.entries[i] # 0 /\ w.entries[i] = IF i = 1 THEN First(w) ELSE Previous(w.entries[i - 1])
        BY <3>1, Zenon DEF PageHonest
      <4> QED
        BY <1>4, <1>5, <3>2, <4>1, <4>2, Zenon
    <3>4. w.legacy => Rest(w)' = 0 /\ Legacy(LastSeen(w))'
      <4>1. w.legacy => Rest(w) = 0 /\ Legacy(LastSeen(w)) /\ LastSeen(w) # 0
        BY <3>1, Zenon DEF PageHonest, WalkSound
      <4>2. LastSeen(w) # 0 => LastSeen(w) \in H
        BY <1>6, <3>2, Zenon
      <4> QED
        BY <1>4, <1>6, <3>2, <4>1, <4>2 DEF Legacy
    <3>5. w.retained => Rest(w)' # 0 /\ Rest(w)' < view'.boundary
      <4>1. w.retained => Rest(w) # 0 /\ Rest(w) < view.boundary
        BY <3>1, Zenon DEF PageHonest
      <4>2. Rest(w) \in Nat
        <5>1. LastSeen(w) = 0 => Rest(w) = w.head
          BY Zenon DEF Rest
        <5>2. LastSeen(w) # 0 => LastSeen(w) \in H /\ Rest(w) = Previous(LastSeen(w))
          BY <1>6, <3>2, Zenon DEF Rest
        <5>3. \A s \in H : Previous(s) \in Nat
          BY <1>1, ChainBelow DEF H, Chain, Previous
        <5> QED
          BY <1>5, <5>1, <5>2, <5>3, Zenon
      <4> QED
        BY <1>1, <3>2, <4>1, <4>2
    <3>6. /\ w.more => Len(w.entries) = w.limit /\ Rest(w)' # 0
          /\ Rest(w)' # 0 => w.more \/ w.retained
      BY <3>1, <3>2, Zenon DEF PageHonest
    <3> QED
      BY <1>2, <3>2, <3>3, <3>4, <3>5, <3>6, Zenon DEF PageHonest
  <2>2. w.result = "missing" => w.head < view'.boundary
    BY <1>1, <1>5 DEF WalkSound, Answered
  <2>3. w.result = "not_found" /\ w.kind = "history" /\ w.head # 0 => CursorRetired(w)'
    <3>1. CursorRetired(w) => CursorRetired(w)'
      BY <1>1, <1>2, <1>5 DEF CursorRetired, H
    <3> QED
      BY <3>1, Zenon DEF WalkSound, Answered
  <2>4. w.result = "not_found" /\ w.kind = "by_hash" => ContentRetired(w)'
    <3>1. ContentRetired(w) => ContentRetired(w)'
      BY <1>1, <1>2, <1>3 DEF ContentRetired, H
    <3> QED
      BY <3>1, Zenon DEF WalkSound, Answered
  <2>5. w.result = "page" /\ w.kind = "by_hash" => NewestFound(w)'
    <3>1. NewestFound(w) => NewestFound(w)'
      BY <1>2, Zenon DEF NewestFound, H
    <3> QED
      BY <3>1, Zenon DEF WalkSound, Answered
  <2> QED
    BY <2>1, <2>2, <2>3, <2>4, <2>5, Zenon DEF Answered
<1>9. w.pc \in {"manifest", "record", "crossed"} => OnTheWay(w)'
  <2> SUFFICES ASSUME w.pc \in {"manifest", "record", "crossed"} PROVE OnTheWay(w)'
    BY Zenon
  <2>1. OnTheWay(w) /\ w.head \in Chain(view.CURRENT)
    BY Zenon DEF WalkSound
  <2>2. H \subseteq Chain(view.CURRENT)
    BY <1>1, <2>1, RegistryChained, ChainWithin, Zenon DEF Chain, H
  <2>3. Walked(w)' = Walked(w)
    BY <1>2, Zenon DEF Walked, H
  <2>4. w.pc = "crossed" => w.next \notin view'.dirs
    BY <2>1, <2>2, Zenon DEF OnTheWay, H
  <2>5. w.kind = "history" /\ w.found =>
       /\ w.next = Rest(w)'
       /\ \A i \in 1..Len(w.entries) :
            w.entries[i] = IF i = 1 THEN First(w)' ELSE Previous(w.entries[i - 1])'
    <3> SUFFICES ASSUME w.kind = "history" /\ w.found PROVE <2>5!2
      BY Zenon
    <3>1. w.before \in H \cup {0}
      BY <2>1, Zenon DEF OnTheWay, Walked, H
    <3>2. w.next = Rest(w)'
      BY <1>7, <2>1, <3>1, Zenon DEF OnTheWay
    <3>3. ASSUME NEW i \in 1..Len(w.entries)
          PROVE  w.entries[i] = IF i = 1 THEN First(w)' ELSE Previous(w.entries[i - 1])'
      <4>1. i # 1 => i - 1 \in 1..Len(w.entries)
        BY <1>5
      <4>2. w.entries[i] = IF i = 1 THEN First(w) ELSE Previous(w.entries[i - 1])
        BY <2>1, Zenon DEF OnTheWay
      <4> QED
        BY <1>4, <1>5, <1>7, <3>1, <4>1, <4>2, Zenon
    <3> QED
      BY <3>2, <3>3, Zenon
  <2> QED
    BY <1>2, <2>1, <2>3, <2>4, <2>5 DEF OnTheWay, H
<1>10. w.boundary <= view'.boundary
  BY <1>1, <1>5 DEF WalkSound
<1>11. \A i \in 1..Len(w.entries) : w.entries[i] \in Chain(w.head)'
  BY <1>2, <1>5, Zenon
<1>12. w.pc \in {"pinned", "manifest", "record", "crossed"} => w.head \in Chain(view.CURRENT)'
  BY Zenon DEF WalkSound
<1> QED
  BY <1>1, <1>6, <1>8, <1>9, <1>10, <1>11, <1>12 DEF WalkSound

-----------------------------------------------------------------------------
(* A step that touches no walk. *)
LEMMA WalksStay ==
  ASSUME ReadableInv, ReadableInv', WalkInv, UNCHANGED walk,
         Len(published) <= Len(published'),
         \A s \in 1..Len(published) : published'[s] = published[s],
         Chain(view.CURRENT) \subseteq Chain(view.CURRENT)',
         view.boundary <= view'.boundary,
         \A s \in Chain(view.CURRENT) : s \in view'.dirs => s \in view.dirs
  PROVE  WalkInv'
<1>1. walk' \in [Readers -> Walks]
  BY Zenon DEF WalkInv
<1>2. ASSUME NEW r \in Readers PROVE WalkSound(walk[r])'
  <2>1. PICK w \in Walks : w = walk[r] /\ w = walk'[r] /\ WalkSound(w)
    BY Zenon DEF WalkInv
  <2>2. WalkSound(w)'
    BY <2>1, WalkKept, Zenon
  <2> QED
    BY <2>1, <2>2, Zenon
<1> QED
  BY <1>1, <1>2, Zenon DEF WalkInv

(* A step of one reader. *)
LEMMA StepWalks ==
  ASSUME ReadableInv, ReadableInv', WalkInv, NEW r \in Readers, NEW u \in Walks, WalkSound(u), Step(r, u)
  PROVE  WalkInv'
<1>1. UNCHANGED <<published, view>> /\ walk' = [walk EXCEPT ![r] = u]
  BY Zenon DEF Step
<1>2. walk' \in [Readers -> Walks]
  BY <1>1, Zenon DEF WalkInv
<1>3. ASSUME NEW q \in Readers PROVE WalkSound(walk[q])'
  <2>1. PICK w \in Walks : w = walk'[q] /\ WalkSound(w)
    BY <1>1, Zenon DEF WalkInv
  <2>2. Chain(view.CURRENT)' = Chain(view.CURRENT) /\ view.boundary \in Nat /\ Len(published) \in Nat
    BY <1>1, DirectoryTypes, RegistryChained DEF Chain
  <2>3. WalkSound(w)'
    BY <1>1, <2>1, <2>2, WalkKept
  <2> QED
    BY <2>1, <2>3, Zenon
<1> QED
  BY <1>2, <1>3, Zenon DEF WalkInv

-----------------------------------------------------------------------------
LEMMA EmptyPage == <<>> \in Seq(Nat) /\ 0 \in Nat /\ Len(<<>>) = 0 /\ 1..Len(<<>>) = {}
OBVIOUS

LEMMA NoWalkFields ==
  /\ NoWalk \in Walks /\ NoWalk.pc = "new" /\ NoWalk.result = "none" /\ NoWalk.head = 0 /\ NoWalk.boundary = 0
  /\ NoWalk.entries = <<>> /\ ~NoWalk.retained /\ ~NoWalk.legacy /\ NoWalk.visited = {}
BY DEF NoWalk, Walks, WalkPcs

LEMMA AnswerFields ==
  ASSUME NEW w \in Walks, NEW result \in {"page", "missing", "not_found"}, NEW u, u = Answer(w, result)
  PROVE  /\ u \in Walks /\ u.pc = "done" /\ u.result = result /\ u.before = w.before /\ u.limit = w.limit
         /\ u.kind = w.kind /\ u.same = w.same /\ u.head = w.head /\ u.entries = w.entries /\ u.boundary = 0
<1>1. /\ u.pc = "done" /\ u.result = result /\ u.before = w.before /\ u.limit = w.limit
      /\ u.kind = w.kind /\ u.same = w.same /\ u.head = w.head /\ u.entries = w.entries /\ u.boundary = 0
  BY Zenon DEF Answer, NoWalk
<1>2. /\ w.before \in Nat /\ w.limit \in Nat /\ w.kind \in {"none", "history", "by_hash", "table"}
      /\ w.same \in SUBSET Nat /\ w.head \in Nat /\ w.entries \in Seq(Nat)
      /\ (w.next # 0) \in BOOLEAN /\ w.retained \in BOOLEAN /\ w.legacy \in BOOLEAN
      /\ result \in {"none", "page", "missing", "not_found"} /\ "done" \in WalkPcs
  BY Zenon DEF Walks, WalkPcs
<1>3. u \in Walks
  <2>1. u = [pc |-> "done", before |-> w.before, limit |-> w.limit, kind |-> w.kind, same |-> w.same,
             boundary |-> 0, head |-> w.head, next |-> 0, visited |-> {}, found |-> FALSE,
             entries |-> w.entries, more |-> w.next # 0, retained |-> w.retained, legacy |-> w.legacy,
             result |-> result]
    BY Zenon DEF Answer, NoWalk
  <2> QED
    BY <1>2, <2>1 DEF Walks
<1> QED
  BY <1>1, <1>3, Zenon

LEMMA AnswerFlags ==
  ASSUME NEW w \in Walks, NEW result, NEW u, u = Answer(w, result)
  PROVE  (u.more <=> w.next # 0) /\ (u.retained <=> w.retained) /\ (u.legacy <=> w.legacy)
BY Zenon DEF Answer, NoWalk

LEMMA FailFields ==
  ASSUME NEW w \in Walks, NEW result \in {"missing", "not_found"}, NEW u, u = Fail(w, result)
  PROVE  /\ u \in Walks /\ u.pc = "done" /\ u.result = result /\ u.before = w.before
         /\ u.kind = w.kind /\ u.same = w.same /\ u.head = w.head /\ u.entries = <<>>
         /\ ~u.retained /\ ~u.legacy /\ u.boundary = 0
<1>1. PICK v : v = [w EXCEPT !.entries = <<>>, !.next = 0, !.retained = FALSE, !.legacy = FALSE]
  BY Zenon
<1>2. /\ v \in Walks /\ v.entries = <<>> /\ ~v.retained /\ ~v.legacy
      /\ v.before = w.before /\ v.kind = w.kind /\ v.same = w.same /\ v.head = w.head
  BY <1>1, EmptyPage, Zenon DEF Walks
<1>3. u = Answer(v, result) /\ result \in {"page", "missing", "not_found"}
  BY <1>1, Zenon DEF Fail
<1>4. /\ u \in Walks /\ u.pc = "done" /\ u.result = result /\ u.before = v.before
      /\ u.kind = v.kind /\ u.same = v.same /\ u.head = v.head /\ u.entries = v.entries /\ u.boundary = 0
  BY <1>2, <1>3, AnswerFields
<1>5. (u.retained <=> v.retained) /\ (u.legacy <=> v.legacy)
  BY <1>2, <1>3, AnswerFlags, Zenon
<1> QED
  BY <1>2, <1>4, <1>5, Zenon

(* What a walk may answer. *)
LEMMA AnswerSound ==
  ASSUME ReadableInv, NEW u \in Walks, u.pc = "done", u.boundary = 0, u.head \in 0..Len(published),
         \A i \in 1..Len(u.entries) : u.entries[i] \in Chain(u.head),
         u.legacy => LastSeen(u) # 0, Answered(u)
  PROVE  WalkSound(u)
BY DirectoryTypes DEF WalkSound

LEMMA FailSound ==
  ASSUME ReadableInv, NEW w \in Walks, w.head \in 0..Len(published),
         NEW result \in {"missing", "not_found"}, NEW u, u = Fail(w, result),
         result = "missing" => w.head < view.boundary,
         result = "not_found" /\ w.kind = "history" /\ w.head # 0 => CursorRetired(w),
         result = "not_found" /\ w.kind = "by_hash" => ContentRetired(w)
  PROVE  u \in Walks /\ WalkSound(u)
<1>1. /\ u \in Walks /\ u.pc = "done" /\ u.result = result /\ u.before = w.before
      /\ u.kind = w.kind /\ u.same = w.same /\ u.head = w.head /\ u.entries = <<>>
      /\ ~u.retained /\ ~u.legacy /\ u.boundary = 0
  BY FailFields
<1>2. (CursorRetired(w) => CursorRetired(u)) /\ (ContentRetired(w) => ContentRetired(u))
  BY <1>1, Zenon DEF CursorRetired, ContentRetired
<1>3. Answered(u)
  BY <1>1, <1>2, Zenon DEF Answered
<1>4. \A i \in 1..Len(u.entries) : u.entries[i] \in Chain(u.head)
  BY <1>1
<1> QED
  BY <1>1, <1>3, <1>4, AnswerSound, Zenon

(* A walk that has not begun, or that a power loss has ended. *)
LEMMA RestingSound ==
  ASSUME ReadableInv, NEW w \in Walks, w.pc \in {"new", "done"}, w.result = "none", w.head = 0,
         w.boundary = 0, w.entries = <<>>, ~w.retained, ~w.legacy
  PROVE  WalkSound(w)
BY DirectoryTypes, RegistryChained DEF WalkSound, Answered

-----------------------------------------------------------------------------
LEMMA BegunSound ==
  ASSUME ReadableInv, NEW u \in Walks, u.pc = "head", u.head = 0, u.entries = <<>>, u.visited = {},
         u.result = "none", ~u.retained, ~u.legacy, u.kind # "none", u.boundary <= view.boundary,
         u.kind = "history" => u.limit # 0 /\ u.found = (u.before = 0)
  PROVE  WalkSound(u)
BY RegistryChained DEF WalkSound, Answered

LEMMA BeginWalks ==
  ASSUME ReadableInv, ReadableInv', WalkInv, NEW r \in Readers,
         \/ \E before \in 0..Len(published), limit \in Limits : HistoryPage(r, before, limit)
         \/ ManifestByHash(r) \/ ReadTable(r)
  PROVE  WalkInv'
<1>1. view.boundary \in Nat /\ Len(published) \in Nat
  BY DirectoryTypes, RegistryChained
<1>2. ASSUME NEW before \in 0..Len(published), NEW limit \in Limits, HistoryPage(r, before, limit)
      PROVE  WalkInv'
  <2>1. PICK u : u = [NoWalk EXCEPT !.pc = "head", !.kind = "history", !.before = before,
                            !.limit = limit, !.boundary = view.boundary, !.found = before = 0] /\ Step(r, u)
    BY <1>2, Zenon DEF HistoryPage
  <2>2. before \in Nat /\ limit \in Nat \ {0}
    BY <1>1, RegistryAssumption
  <2>3. /\ u \in Walks /\ u.pc = "head" /\ u.head = 0 /\ u.entries = <<>> /\ u.visited = {}
        /\ u.result = "none" /\ ~u.retained /\ ~u.legacy /\ u.kind = "history"
        /\ u.boundary = view.boundary /\ u.limit = limit /\ u.found = (before = 0) /\ u.before = before
    <3>1. u \in Walks
      BY <1>1, <2>1, <2>2, NoWalkFields, Zenon DEF Walks, WalkPcs
    <3> QED
      BY <2>1, <3>1, Zenon DEF NoWalk
  <2>4. WalkSound(u)
    BY <1>1, <2>2, <2>3, BegunSound
  <2> QED
    BY <2>1, <2>3, <2>4, StepWalks, Zenon
<1>3. ASSUME ManifestByHash(r) PROVE WalkInv'
  <2>1. PICK u : u = [NoWalk EXCEPT !.pc = "head", !.kind = "by_hash", !.boundary = view.boundary] /\ Step(r, u)
    BY <1>3, Zenon DEF ManifestByHash
  <2>3. /\ u \in Walks /\ u.pc = "head" /\ u.head = 0 /\ u.entries = <<>> /\ u.visited = {}
        /\ u.result = "none" /\ ~u.retained /\ ~u.legacy /\ u.kind = "by_hash" /\ u.boundary = view.boundary
    BY <1>1, <2>1, NoWalkFields, Zenon DEF NoWalk, Walks, WalkPcs
  <2>4. WalkSound(u)
    BY <1>1, <2>3, BegunSound
  <2> QED
    BY <2>1, <2>3, <2>4, StepWalks, Zenon
<1>4. ASSUME ReadTable(r) PROVE WalkInv'
  <2>1. PICK u : u = [NoWalk EXCEPT !.pc = "head", !.kind = "table"] /\ Step(r, u)
    BY <1>4, Zenon DEF ReadTable
  <2>3. /\ u \in Walks /\ u.pc = "head" /\ u.head = 0 /\ u.entries = <<>> /\ u.visited = {}
        /\ u.result = "none" /\ ~u.retained /\ ~u.legacy /\ u.kind = "table" /\ u.boundary = 0
    BY <2>1, NoWalkFields, Zenon DEF NoWalk, Walks, WalkPcs
  <2>4. WalkSound(u)
    BY <1>1, <2>3, BegunSound
  <2> QED
    BY <2>1, <2>3, <2>4, StepWalks, Zenon
<1> QED
  BY <1>2, <1>3, <1>4, Zenon

-----------------------------------------------------------------------------
(* The chain a walk goes down. *)
LEMMA PinnedChain ==
  ASSUME ReadableInv, NEW h \in Chain(view.CURRENT)
  PROVE  /\ h \in 1..Len(published) /\ h \in 0..Len(published) /\ h \in Nat
         /\ h \in Chain(h) /\ Chain(h) \subseteq Chain(view.CURRENT)
         /\ Descends(published, Chain(h)) /\ \A s \in Chain(h) : s \in Nat \ {0} /\ s <= h
         /\ \A s \in Chain(view.CURRENT) : s <= h => s \in Chain(h)
<1>1. Chained(published) /\ view.CURRENT \in 0..Len(published) /\ Len(published) \in Nat
  BY RegistryChained, Zenon
<1>2. h \in 1..Len(published)
  BY <1>1, ChainBelow, Zenon DEF Chain
<1>3. h \in 0..Len(published) /\ h \in Nat
  BY <1>1, <1>2
<1>4. h \in Chain(h) /\ Chain(h) \subseteq Chain(view.CURRENT)
  BY <1>1, ChainWithin, Zenon DEF Chain
<1>5. Descends(published, Chain(h)) /\ \A s \in Chain(h) : s <= h
  BY <1>1, <1>3, ChainDescends, Zenon DEF Chain
<1>6. \A s \in Chain(h) : s \in Nat \ {0}
  BY <1>5, Zenon DEF Descends
<1>7. \A s \in Chain(view.CURRENT) : s <= h => s \in Chain(h)
  BY <1>1, ChainLinear, Zenon DEF Chain
<1> QED
  BY <1>2, <1>3, <1>4, <1>5, <1>6, <1>7, Zenon

LEMMA ReadCurrentWalks ==
  ASSUME RegistryInv, ReadableInv', WalkInv, NEW r \in Readers, ReadCurrent(r)
  PROVE  WalkInv'
<1> DEFINE w == walk[r]
<1>1. w \in Walks /\ WalkSound(w) /\ w.pc = "head" /\ ReadableInv
  BY Zenon DEF WalkInv, ReadCurrent, RegistryInv
<1>2. Step(r, IF view.CURRENT = 0 THEN Fail(w, "not_found")
              ELSE [w EXCEPT !.pc = "pinned", !.head = view.CURRENT])
  BY Zenon DEF ReadCurrent
<1> HIDE DEF w
<1>3. w.head = 0 /\ 0 \in 0..Len(published) /\ Chained(published) /\ view.CURRENT \in 0..Len(published)
  BY <1>1, RegistryChained, Zenon DEF WalkSound
<1>4. CASE view.CURRENT = 0
  <2>1. PICK u : u = Fail(w, "not_found") /\ Step(r, u)
    BY <1>2, <1>4, Zenon
  <2>2. ContentRetired(w)
    BY <1>3, ChainStep, Zenon DEF ContentRetired, Chain
  <2>3. u \in Walks /\ WalkSound(u)
    BY <1>1, <1>3, <2>1, <2>2, FailSound, Zenon
  <2> QED
    BY <1>1, <2>1, <2>3, StepWalks, Zenon
<1>5. CASE view.CURRENT # 0
  <2>1. PICK u : u = [w EXCEPT !.pc = "pinned", !.head = view.CURRENT] /\ Step(r, u)
    BY <1>2, <1>5, Zenon
  <2>2. view.CURRENT \in Chain(view.CURRENT) /\ view.CURRENT \in Nat
    BY <1>1, <1>3, <1>5, RegistryChained, ChainDescends DEF Chain
  <2>3. /\ u \in Walks /\ u.pc = "pinned" /\ u.head = view.CURRENT /\ u.entries = w.entries
        /\ u.boundary = w.boundary /\ u.result = w.result /\ (u.retained <=> w.retained) /\ (u.legacy <=> w.legacy)
        /\ u.visited = w.visited /\ u.kind = w.kind /\ u.limit = w.limit /\ u.found = w.found /\ u.before = w.before
    BY <1>1, <2>1, <2>2, Zenon DEF Walks, WalkPcs
  <2>4. /\ w.result = "none" /\ ~w.retained /\ ~w.legacy /\ w.entries = <<>> /\ w.visited = {} /\ w.kind # "none"
        /\ w.kind = "history" => w.limit # 0 /\ w.found = (w.before = 0)
        /\ w.boundary <= view.boundary
    BY <1>1, Zenon DEF WalkSound
  <2>5. WalkSound(u)
    BY <1>3, <2>2, <2>3, <2>4 DEF WalkSound, Answered
  <2> QED
    BY <1>1, <2>1, <2>3, <2>5, StepWalks, Zenon
<1> QED
  BY <1>4, <1>5, Zenon

LEMMA PinHeadWalks ==
  ASSUME RegistryInv, ReadableInv', WalkInv, NEW r \in Readers, PinHead(r)
  PROVE  WalkInv'
<1> DEFINE w == walk[r]
<1>1. w \in Walks /\ WalkSound(w) /\ w.pc = "pinned" /\ ReadableInv
  BY Zenon DEF WalkInv, PinHead, RegistryInv
<1>2. PICK same \in SUBSET (1..w.head) :
        Step(r, IF w.head \in view.dirs
                THEN [w EXCEPT !.pc = "manifest", !.next = w.head, !.same = same]
                ELSE Fail(w, "missing"))
  BY Zenon DEF PinHead
<1> HIDE DEF w
<1>3. /\ w.result = "none" /\ ~w.retained /\ ~w.legacy /\ w.entries = <<>> /\ w.visited = {} /\ w.kind # "none"
      /\ w.kind = "history" => w.limit # 0 /\ w.found = (w.before = 0)
      /\ w.boundary <= view.boundary /\ w.head \in Chain(view.CURRENT)
  BY <1>1, Zenon DEF WalkSound
<1>4. /\ w.head \in 0..Len(published) /\ w.head \in Nat /\ w.head \in Chain(w.head)
      /\ \A s \in Chain(w.head) : s \in Nat \ {0} /\ s <= w.head
  BY <1>1, <1>3, PinnedChain, Zenon
<1>5. CASE w.head \in view.dirs
  <2>1. PICK u : u = [w EXCEPT !.pc = "manifest", !.next = w.head, !.same = same] /\ Step(r, u)
    BY <1>2, <1>5, Zenon
  <2>2. same \in SUBSET Nat
    BY <1>2, <1>4
  <2>3. /\ u \in Walks /\ u.pc = "manifest" /\ u.head = w.head /\ u.entries = w.entries /\ u.next = w.head
        /\ u.boundary = w.boundary /\ u.result = w.result /\ (u.retained <=> w.retained) /\ (u.legacy <=> w.legacy)
        /\ u.visited = w.visited /\ u.kind = w.kind /\ u.limit = w.limit /\ u.found = w.found /\ u.before = w.before
    BY <1>1, <1>4, <2>1, <2>2, Zenon DEF Walks, WalkPcs
  <2>4. Walked(u) = {}
    BY <1>4, <2>3 DEF Walked
  <2>5. u.before = 0 => Rest(u) = w.head
    BY <1>3, <2>3, Zenon DEF Rest, LastSeen
  <2>6. OnTheWay(u)
    <3>1. u.limit \in Nat
      BY <2>3, Zenon DEF Walks
    <3>2. u.kind = "history" => Len(u.entries) < u.limit
      BY <1>3, <2>3, <3>1
    <3>3. u.kind = "history" /\ ~u.found => u.before # 0
      BY <1>3, <2>3, Zenon
    <3>4. u.kind = "history" /\ u.found => u.before = 0
      BY <1>3, <2>3, Zenon
    <3>5. 1..Len(u.entries) = {}
      BY <1>3, <2>3
    <3> QED
      BY <1>3, <1>4, <2>3, <2>4, <2>5, <3>2, <3>3, <3>4, <3>5, Zenon DEF OnTheWay
  <2>7. WalkSound(u)
    BY <1>3, <1>4, <2>3, <2>6 DEF WalkSound, Answered
  <2> QED
    BY <1>1, <2>1, <2>3, <2>7, StepWalks, Zenon
<1>6. CASE w.head \notin view.dirs
  <2>1. PICK u : u = Fail(w, "missing") /\ Step(r, u)
    BY <1>2, <1>6, Zenon
  <2>2. w.head < view.boundary
    BY <1>3, <1>6, Zenon DEF RegistryInv, DirectoryInv, Sound
  <2>3. u \in Walks /\ WalkSound(u)
    BY <1>1, <1>4, <2>1, <2>2, FailSound, Zenon
  <2> QED
    BY <1>1, <2>1, <2>3, StepWalks, Zenon
<1> QED
  BY <1>5, <1>6, Zenon

LEMMA ReadManifestWalks ==
  ASSUME RegistryInv, ReadableInv', WalkInv, NEW r \in Readers, ReadManifest(r)
  PROVE  WalkInv'
<1> DEFINE w == walk[r]
<1>1. w \in Walks /\ WalkSound(w) /\ w.pc = "manifest" /\ ReadableInv
  BY Zenon DEF WalkInv, ReadManifest, RegistryInv
<1>2. PICK pc : pc = (IF w.next \in view.dirs THEN "record" ELSE "crossed")
  BY Zenon
<1>3. PICK u : u = [w EXCEPT !.visited = @ \cup {w.next}, !.pc = pc] /\ Step(r, u)
  BY <1>2, Zenon DEF ReadManifest
<1> HIDE DEF w
<1>4. pc \in WalkPcs /\ w.next \in Nat /\ w.visited \in SUBSET Nat
  BY <1>1, <1>2, Zenon DEF Walks, WalkPcs
<1>5. PICK visited \in SUBSET Nat : visited = w.visited \cup {w.next}
  BY <1>4, Zenon
<1>6. /\ u \in Walks /\ u.pc = pc /\ u.head = w.head /\ u.entries = w.entries /\ u.next = w.next
      /\ u.boundary = w.boundary /\ u.result = w.result /\ (u.retained <=> w.retained) /\ (u.legacy <=> w.legacy)
      /\ u.visited = visited /\ u.kind = w.kind /\ u.limit = w.limit /\ u.found = w.found /\ u.before = w.before
      /\ u.same = w.same
  <2>1. u = [w EXCEPT !.visited = visited, !.pc = pc]
    BY <1>3, <1>5, Zenon
  <2> QED
    BY <1>1, <1>4, <2>1, Zenon DEF Walks
<1>7. /\ w.result = "none" /\ ~w.retained /\ ~w.legacy /\ w.boundary <= view.boundary
      /\ w.head \in Chain(view.CURRENT) /\ w.head \in 0..Len(published) /\ OnTheWay(w)
      /\ \A i \in 1..Len(w.entries) : w.entries[i] \in Chain(w.head)
  BY <1>1, Zenon DEF WalkSound
<1>8. Walked(u) = Walked(w) /\ Rest(u) = Rest(w) /\ First(u) = First(w)
  BY <1>6, Zenon DEF Walked, Rest, First, LastSeen
<1>9. OnTheWay(u)
  BY <1>1, <1>2, <1>5, <1>6, <1>7, <1>8 DEF OnTheWay
<1>10. WalkSound(u)
  BY <1>2, <1>6, <1>7, <1>9, Zenon DEF WalkSound, Answered
<1> QED
  BY <1>1, <1>3, <1>6, <1>10, StepWalks, Zenon

-----------------------------------------------------------------------------
(* One snapshot further down. *)
LEMMA OneDown ==
  ASSUME ReadableInv, NEW w \in Walks, w.head \in Chain(view.CURRENT), w.next \in Chain(w.head)
  PROVE  /\ w.next \in Nat \ {0} /\ Previous(w.next) \in Nat /\ Previous(w.next) < w.next
         /\ Previous(w.next) \in Chain(w.head) \cup {0}
         /\ {t \in Chain(w.head) : t > Previous(w.next)} = Walked(w) \cup {w.next}
         /\ \A t \in Chain(w.head) : t \in Nat \ {0} /\ (t \notin Walked(w) => t <= w.next)
         /\ \A t \in Chain(w.head) : t \notin Walked(w) \cup {w.next} => t <= Previous(w.next)
         /\ w.next \in 1..Len(published)
<1>1. Descends(published, Chain(w.head)) /\ \A s \in Chain(w.head) : s \in Nat \ {0}
  BY PinnedChain, Zenon
<1>2. /\ w.next \in Nat \ {0} /\ Previous(w.next) \in Nat /\ Previous(w.next) < w.next
      /\ Previous(w.next) \in Chain(w.head) \cup {0}
      /\ \A t \in Chain(w.head) : t < w.next => t <= Previous(w.next)
  BY <1>1, Zenon DEF Descends, Previous
<1>3. ASSUME NEW t \in Chain(w.head) PROVE t > Previous(w.next) <=> t > w.next \/ t = w.next
  BY <1>1, <1>2
<1>4. {t \in Chain(w.head) : t > Previous(w.next)} = Walked(w) \cup {w.next}
  BY <1>2, <1>3, Zenon DEF Walked
<1>5. \A t \in Chain(w.head) : t \notin Walked(w) => t <= w.next
  BY <1>1, <1>2 DEF Walked
<1>6. \A t \in Chain(w.head) : t \notin Walked(w) \cup {w.next} => t <= Previous(w.next)
  BY <1>1, <1>2 DEF Walked
<1>7. w.next \in 1..Len(published)
  BY PinnedChain, Zenon
<1> QED
  BY <1>1, <1>2, <1>4, <1>5, <1>6, <1>7, Zenon

(* What a walk knows after the record of a snapshot. *)
LEMMA RecordFacts ==
  ASSUME RegistryInv, NEW w \in Walks, WalkSound(w), w.pc \in {"record", "crossed"}
  PROVE  /\ ReadableInv /\ w.result = "none" /\ ~w.retained /\ ~w.legacy /\ w.boundary <= view.boundary
         /\ w.head \in Chain(view.CURRENT) /\ w.head \in 0..Len(published) /\ OnTheWay(w)
         /\ \A i \in 1..Len(w.entries) : w.entries[i] \in Chain(w.head)
         /\ w.next \in Chain(w.head) /\ w.visited = Walked(w) \cup {w.next}
         /\ w.boundary \in Nat /\ view.boundary \in Nat /\ w.entries \in Seq(Nat) /\ w.limit \in Nat /\ w.before \in Nat
         /\ w.head \in Nat /\ w.next \in Nat
<1>1. /\ ReadableInv /\ w.result = "none" /\ ~w.retained /\ ~w.legacy /\ w.boundary <= view.boundary
      /\ w.head \in Chain(view.CURRENT) /\ w.head \in 0..Len(published) /\ OnTheWay(w)
      /\ \A i \in 1..Len(w.entries) : w.entries[i] \in Chain(w.head)
  BY Zenon DEF WalkSound, RegistryInv
<1>2. w.next \in Chain(w.head) /\ w.visited = Walked(w) \cup {w.next}
  BY <1>1, Zenon DEF OnTheWay
<1>3. /\ w.boundary \in Nat /\ w.entries \in Seq(Nat) /\ w.limit \in Nat /\ w.before \in Nat /\ w.head \in Nat /\ w.next \in Nat
  BY Zenon DEF Walks
<1>4. view.boundary \in Nat
  BY <1>1, DirectoryTypes
<1> QED
  BY <1>1, <1>2, <1>3, <1>4, Zenon

(* history_walk: the page, once it has this snapshot. *)
LEMMA PageGrows ==
  ASSUME RegistryInv, NEW w \in Walks, WalkSound(w), w.pc = "record", w.kind = "history",
         w.found \/ w.before = w.next,
         NEW v \in Walks, v.before = w.before, v.head = w.head,
         v.entries = IF w.found THEN Append(w.entries, w.next) ELSE w.entries
  PROVE  /\ v.before \in Walked(w) \cup {w.next, 0}
         /\ LastSeen(v) = w.next /\ Rest(v) = Previous(w.next)
         /\ \A i \in 1..Len(v.entries) :
              /\ v.entries[i] \in Chain(v.head)
              /\ v.entries[i] = IF i = 1 THEN First(v) ELSE Previous(v.entries[i - 1])
         /\ \A t \in Walked(w) \cup {w.next} : v.before = 0 \/ t < v.before =>
              \E i \in 1..Len(v.entries) : v.entries[i] = t
         /\ Len(v.entries) <= w.limit /\ (~w.found => v.entries = <<>>)
<1>1. /\ OnTheWay(w) /\ w.next \in Chain(w.head) /\ w.head \in Chain(view.CURRENT) /\ ReadableInv
      /\ w.entries \in Seq(Nat) /\ w.limit \in Nat /\ w.before \in Nat /\ Len(w.entries) \in Nat
      /\ \A i \in 1..Len(w.entries) : w.entries[i] \in Chain(w.head)
  BY RecordFacts
<1>2. /\ w.next \in Nat \ {0} /\ \A t \in Chain(w.head) : t \in Nat \ {0}
  BY <1>1, OneDown, Zenon
<1>3. Len(w.entries) < w.limit
  BY <1>1, Zenon DEF OnTheWay
<1>4. CASE w.found
  <2>1. /\ w.before \in Walked(w) \cup {0} /\ w.next = Rest(w)
        /\ \A i \in 1..Len(w.entries) :
             w.entries[i] = IF i = 1 THEN First(w) ELSE Previous(w.entries[i - 1])
        /\ \A t \in Walked(w) : w.before = 0 \/ t < w.before =>
             \E i \in 1..Len(w.entries) : w.entries[i] = t
    BY <1>1, <1>4, Zenon DEF OnTheWay
  <2> DEFINE n == Len(w.entries)
  <2>2. /\ v.entries = Append(w.entries, w.next) /\ Len(v.entries) = n + 1 /\ n \in Nat
        /\ v.entries[n + 1] = w.next /\ \A i \in 1..n : v.entries[i] = w.entries[i]
        /\ v.entries # <<>>
    <3>1. w.entries \in Seq(Nat) /\ w.next \in Nat
      BY <1>1, <1>2
    <3>2. v.entries = Append(w.entries, w.next)
      BY <1>4, Zenon
    <3> DEFINE e == Append(w.entries, w.next)
    <3>3. /\ e # <<>> /\ Len(e) = n + 1 /\ n \in Nat
          /\ e[n + 1] = w.next /\ \A i \in 1..n : e[i] = w.entries[i]
      BY <3>1, AppendNat, Zenon
    <3> HIDE DEF e
    <3>4. v.entries = e
      BY <3>2 DEF e
    <3> QED
      BY <3>2, <3>3, <3>4, Zenon
  <2>3. LastSeen(v) = w.next /\ Rest(v) = Previous(w.next)
    BY <1>2, <2>2, Zenon DEF LastSeen, Rest
  <2>4. First(v) = First(w)
    BY Zenon DEF First
  <2>5. w.next = IF n = 0 THEN First(w) ELSE Previous(w.entries[n])
    <3>1. CASE n = 0
      BY <1>1, <2>1, <3>1 DEF Rest, LastSeen, First
    <3>2. CASE n # 0
      <4>1. w.entries # <<>> /\ n \in 1..n
        BY <1>1, <3>2
      <4>2. w.entries[n] # 0
        BY <1>1, <1>2, <4>1, Zenon
      <4> QED
        BY <2>1, <3>2, <4>1, <4>2, Zenon DEF Rest, LastSeen
    <3> QED
      BY <3>1, <3>2, Zenon
  <2> HIDE DEF n
  <2>6. ASSUME NEW i \in 1..Len(v.entries)
        PROVE  /\ v.entries[i] \in Chain(v.head)
               /\ v.entries[i] = IF i = 1 THEN First(v) ELSE Previous(v.entries[i - 1])
    <3>1. CASE i \in 1..n
      <4>1. i # 1 => i - 1 \in 1..n
        BY <2>2, <3>1
      <4> QED
        BY <1>1, <2>1, <2>2, <2>4, <3>1, <4>1, Zenon DEF n
    <3>2. CASE i = n + 1
      <4>1. n # 0 => n \in 1..n /\ i - 1 = n /\ i # 1
        BY <2>2, <3>2
      <4>2. n = 0 => i = 1
        BY <3>2
      <4> QED
        BY <1>1, <2>2, <2>4, <2>5, <3>2, <4>1, <4>2
    <3> QED
      BY <2>2, <3>1, <3>2
  <2>7. ASSUME NEW t \in Walked(w) \cup {w.next}, v.before = 0 \/ t < v.before
        PROVE  \E i \in 1..Len(v.entries) : v.entries[i] = t
    <3>1. CASE t = w.next
      <4>1. n + 1 \in 1..Len(v.entries)
        BY <2>2
      <4> QED
        BY <2>2, <3>1, <4>1, Zenon
    <3>2. CASE t \in Walked(w)
      <4>1. PICK i \in 1..n : w.entries[i] = t
        BY <2>1, <2>7, <3>2, Zenon DEF n
      <4>2. i \in 1..Len(v.entries)
        BY <2>2
      <4> QED
        BY <2>2, <4>1, <4>2, Zenon
    <3> QED
      BY <3>1, <3>2, Zenon
  <2>8. Len(v.entries) <= w.limit
    BY <1>1, <1>3, <2>2 DEF n
  <2> QED
    BY <1>4, <2>1, <2>3, <2>6, <2>7, <2>8, Zenon
<1>5. CASE ~w.found
  <2>1. w.entries = <<>> /\ w.before = w.next /\ v.entries = <<>>
    BY <1>1, <1>5, Zenon DEF OnTheWay
  <2>2. LastSeen(v) = w.next /\ Rest(v) = Previous(w.next)
    BY <1>2, <2>1, Zenon DEF LastSeen, Rest
  <2>3. \A t \in Walked(w) \cup {w.next} : t \in Nat /\ t >= w.next
    BY <1>2 DEF Walked
  <2>4. \A t \in Walked(w) \cup {w.next} : ~(v.before = 0 \/ t < v.before)
    BY <1>2, <2>1, <2>3
  <2>5. 1..Len(v.entries) = {} /\ Len(v.entries) = 0
    BY <2>1, EmptyPage, Zenon
  <2> QED
    BY <1>1, <2>1, <2>2, <2>4, <2>5
<1> QED
  BY <1>4, <1>5, Zenon

-----------------------------------------------------------------------------
(* A walk after it has seen the record of s.                               *)
Seen(w, s, record) ==
  LET stop == record.previous # 0 /\ w.boundary = s IN
  [w EXCEPT !.next = IF stop THEN 0 ELSE record.previous,
            !.retained = @ \/ stop, !.legacy = @ \/ record.legacy,
            !.found = w.found \/ w.before = s,
            !.entries = IF w.found THEN Append(@, s) ELSE @,
            !.pc = "manifest"]

LEMMA HistoryStepIs ==
  ASSUME NEW w, NEW s, NEW record
  PROVE  HistoryStep(w, s, record) =
           IF Seen(w, s, record).next # 0 /\ Len(Seen(w, s, record).entries) < w.limit
           THEN Seen(w, s, record)
           ELSE IF Seen(w, s, record).found THEN Answer(Seen(w, s, record), "page")
           ELSE Fail(Seen(w, s, record), "not_found")
BY Zenon DEF HistoryStep, Seen

LEMMA HistoryStepSound ==
  ASSUME RegistryInv, NEW w \in Walks, WalkSound(w), w.pc = "record", w.kind = "history",
         NEW u, u = HistoryStep(w, w.next, Record(w.next))
  PROVE  u \in Walks /\ WalkSound(u)
<1> DEFINE s == w.next
<1>1. /\ ReadableInv /\ w.result = "none" /\ ~w.retained /\ ~w.legacy /\ w.boundary <= view.boundary
      /\ w.head \in Chain(view.CURRENT) /\ w.head \in 0..Len(published) /\ OnTheWay(w)
      /\ s \in Chain(w.head) /\ w.visited = Walked(w) \cup {s}
      /\ w.boundary \in Nat /\ view.boundary \in Nat /\ w.entries \in Seq(Nat) /\ w.limit \in Nat /\ w.before \in Nat
  BY RecordFacts, Zenon
<1>2. /\ s \in Nat \ {0} /\ Previous(s) \in Nat /\ Previous(s) < s /\ Previous(s) \in Chain(w.head) \cup {0}
      /\ {t \in Chain(w.head) : t > Previous(s)} = Walked(w) \cup {s}
      /\ \A t \in Chain(w.head) : t \in Nat \ {0} /\ (t \notin Walked(w) \cup {s} => t <= Previous(s))
      /\ s \in 1..Len(published)
  BY <1>1, OneDown, Zenon
<1>3. Legacy(s) \in BOOLEAN /\ (Legacy(s) => Previous(s) = 0)
  <2>1. published \in Seq(Published) /\ LegacyFirst(published)
    BY <1>1, Zenon DEF RegistryInv, DirectoryInv, ReadableInv, RegistryTypeOK
  <2>2. s \in DOMAIN published /\ published[s] \in Published
    BY <1>2, <2>1
  <2> QED
    BY <2>1, <2>2, Zenon DEF LegacyFirst, Legacy, Previous, Published
<1>4. PICK stop \in BOOLEAN : stop = (Previous(s) # 0 /\ w.boundary = s)
  BY Zenon
<1>5. PICK n \in Nat : n = IF stop THEN 0 ELSE Previous(s)
  BY <1>2, Zenon
<1>6. PICK e \in Seq(Nat) : e = IF w.found THEN Append(w.entries, s) ELSE w.entries
  <2>1. Append(w.entries, s) \in Seq(Nat)
    BY <1>1, <1>2
  <2> QED
    BY <1>1, <2>1, Zenon
<1>7. PICK found \in BOOLEAN : found = (w.found \/ w.before = s)
  BY Zenon
<1>8. PICK retained \in BOOLEAN : retained = (w.retained \/ stop)
  BY Zenon
<1>9. PICK legacy \in BOOLEAN : legacy = (w.legacy \/ Legacy(s))
  BY Zenon
<1>10. PICK v : v = [w EXCEPT !.next = n, !.retained = retained, !.legacy = legacy, !.found = found,
                              !.entries = e, !.pc = "manifest"]
  BY Zenon
<1>11. /\ v \in Walks /\ v.next = n /\ v.found = found /\ v.entries = e /\ v.pc = "manifest"
       /\ v.head = w.head /\ v.before = w.before /\ v.limit = w.limit /\ v.kind = w.kind /\ v.visited = w.visited
       /\ v.boundary = w.boundary /\ v.result = w.result /\ v.retained = retained /\ v.legacy = legacy
  <2>1. "manifest" \in WalkPcs
    BY Zenon DEF WalkPcs
  <2> QED
    BY <1>10, <2>1, Zenon DEF Walks
<1>12. u = IF v.next # 0 /\ Len(v.entries) < w.limit THEN v
           ELSE IF v.found THEN Answer(v, "page") ELSE Fail(v, "not_found")
  <2>1. PICK record : record = Record(s)
    BY Zenon
  <2>2. record.previous = Previous(s) /\ record.legacy = Legacy(s)
    BY <2>1, Zenon DEF Record
  <2>3. v = Seen(w, s, record)
    BY <1>4, <1>5, <1>6, <1>7, <1>8, <1>9, <1>10, <2>2, Zenon DEF Seen
  <2>4. u = HistoryStep(w, s, record)
    BY <2>1, Zenon
  <2> QED
    BY <2>3, <2>4, HistoryStepIs, Zenon
<1> HIDE DEF s
<1>13. (v.retained <=> stop) /\ (v.legacy <=> Legacy(s)) /\ (v.found <=> w.found \/ w.before = s)
  BY <1>1, <1>7, <1>8, <1>9, <1>11, Zenon
<1>14. v.found =>
         /\ v.before \in Walked(w) \cup {s, 0}
         /\ LastSeen(v) = s /\ Rest(v) = Previous(s)
         /\ \A i \in 1..Len(v.entries) :
              /\ v.entries[i] \in Chain(v.head)
              /\ v.entries[i] = IF i = 1 THEN First(v) ELSE Previous(v.entries[i - 1])
         /\ \A t \in Walked(w) \cup {s} : v.before = 0 \/ t < v.before =>
              \E i \in 1..Len(v.entries) : v.entries[i] = t
         /\ Len(v.entries) <= w.limit /\ (~w.found => v.entries = <<>>)
  <2>1. v.entries = IF w.found THEN Append(w.entries, w.next) ELSE w.entries
    BY <1>6, <1>11, Zenon DEF s
  <2>2. v.found => w.found \/ w.before = w.next
    BY <1>13, Zenon DEF s
  <2> QED
    BY <1>11, <2>1, <2>2, PageGrows, Zenon DEF s
<1>15. /\ Len(w.entries) < w.limit
       /\ ~v.found => v.entries = <<>> /\ v.before # 0 /\ v.before \notin Walked(w) \cup {s}
  BY <1>1, <1>6, <1>11, <1>13, Zenon DEF OnTheWay
<1>16. \A i \in 1..Len(v.entries) : v.entries[i] \in Chain(v.head)
  BY <1>14, <1>15, EmptyPage
<1>17. CASE v.next # 0 /\ Len(v.entries) < w.limit
  <2>1. u = v /\ ~stop /\ n = Previous(s) /\ n # 0
    BY <1>5, <1>11, <1>12, <1>17, Zenon
  <2>2. ~v.retained /\ ~v.legacy
    BY <1>3, <1>13, <2>1, Zenon
  <2>3. Walked(v) = Walked(w) \cup {s} /\ v.next \in Chain(v.head)
    BY <1>2, <1>11, <2>1, Zenon DEF Walked
  <2>4. v.found => v.next = Rest(v) /\ v.before \in Walked(v) \cup {0}
    BY <1>11, <1>14, <2>1, <2>3
  <2>5. OnTheWay(v)
    BY <1>1, <1>11, <1>14, <1>15, <1>17, <2>3, <2>4, Zenon DEF OnTheWay
  <2>6. WalkSound(v)
    BY <1>1, <1>11, <1>16, <2>2, <2>5, Zenon DEF WalkSound, Answered
  <2> QED
    BY <1>11, <2>1, <2>6, Zenon
<1>18. CASE ~(v.next # 0 /\ Len(v.entries) < w.limit) /\ v.found
  <2>1. u = Answer(v, "page")
    BY <1>12, <1>18, Zenon
  <2>2. /\ u \in Walks /\ u.pc = "done" /\ u.result = "page" /\ u.before = v.before /\ u.limit = v.limit
        /\ u.kind = v.kind /\ u.head = v.head /\ u.entries = v.entries /\ u.boundary = 0
    BY <1>11, <2>1, AnswerFields
  <2>3. (u.more <=> v.next # 0) /\ (u.retained <=> v.retained) /\ (u.legacy <=> v.legacy)
    BY <1>11, <2>1, AnswerFlags, Zenon
  <2>4. LastSeen(u) = s /\ Rest(u) = Previous(s) /\ First(u) = First(v)
    BY <1>14, <1>18, <2>2 DEF LastSeen, Rest, First
  <2>5. u.before \in Chain(u.head) \cup {0}
    BY <1>1, <1>11, <1>14, <1>18, <2>2 DEF Walked
  <2>6. ASSUME NEW i \in DOMAIN u.entries
        PROVE  /\ u.entries[i] = IF i = 1 THEN First(u) ELSE Previous(u.entries[i - 1])
               /\ u.entries[i] # 0
    <3>1. DOMAIN u.entries = 1..Len(v.entries)
      BY <1>11, <2>2
    <3>2. /\ v.entries[i] \in Chain(v.head)
          /\ v.entries[i] = IF i = 1 THEN First(v) ELSE Previous(v.entries[i - 1])
      BY <1>14, <1>18, <3>1, Zenon
    <3> QED
      BY <1>2, <1>11, <2>2, <2>4, <3>2
  <2>7. u.more => Len(u.entries) = u.limit /\ Rest(u) # 0
    <3> SUFFICES ASSUME u.more PROVE Len(u.entries) = u.limit /\ Rest(u) # 0
      BY Zenon
    <3>1. v.next # 0 /\ ~(Len(v.entries) < w.limit) /\ Len(v.entries) <= w.limit
      BY <1>14, <1>18, <2>3, Zenon
    <3>2. Rest(u) # 0
      BY <1>5, <1>11, <2>4, <3>1, Zenon
    <3>3. Len(v.entries) \in Nat
      BY <1>11
    <3> QED
      BY <1>1, <1>11, <2>2, <3>1, <3>2, <3>3
  <2>8. Rest(u) # 0 => u.more \/ u.retained
    BY <1>5, <1>11, <1>13, <2>3, <2>4
  <2>9. u.retained => Rest(u) # 0 /\ Rest(u) < view.boundary
    <3>1. u.retained => Previous(s) # 0 /\ w.boundary = s
      BY <1>4, <1>13, <2>3, Zenon
    <3> QED
      BY <1>1, <1>2, <2>4, <3>1
  <2>10. u.legacy => Rest(u) = 0 /\ Legacy(LastSeen(u))
    BY <1>3, <1>13, <2>3, <2>4
  <2>11. Answered(u)
    BY <1>11, <2>2, <2>5, <2>6, <2>7, <2>8, <2>9, <2>10, Zenon DEF Answered, PageHonest
  <2> QED
    BY <1>1, <1>2, <1>11, <1>16, <2>2, <2>4, <2>11, AnswerSound, Zenon
<1>19. CASE ~(v.next # 0 /\ Len(v.entries) < w.limit) /\ ~v.found
  <2>1. u = Fail(v, "not_found")
    BY <1>12, <1>19, Zenon
  <2>2. v.next = 0
    BY <1>1, <1>11, <1>15, <1>19, EmptyPage
  <2>3. Previous(s) = 0 \/ s <= view.boundary
    BY <1>1, <1>2, <1>4, <1>5, <1>11, <2>2, Zenon
  <2>4. CursorRetired(v)
    <3>1. v.before \in Chain(w.head) => v.before \in Nat \ {0} /\ v.before <= Previous(s)
      BY <1>2, <1>15, <1>19, Zenon
    <3> QED
      BY <1>1, <1>2, <1>11, <1>15, <1>19, <2>3, <3>1, SMTT(30) DEF CursorRetired
  <2> QED
    BY <1>1, <1>11, <2>1, <2>4, FailSound, Zenon
<1> QED
  BY <1>17, <1>18, <1>19, Zenon

-----------------------------------------------------------------------------
(* A lookup's answer, a table's or a found identity. *)
Found(w, s) == Answer([w EXCEPT !.entries = <<s>>, !.next = 0], "page")

LEMMA FoundFields ==
  ASSUME NEW w \in Walks, ~w.legacy, NEW s \in Nat, NEW u, u = Found(w, s)
  PROVE  /\ u \in Walks /\ u.pc = "done" /\ u.result = "page" /\ u.kind = w.kind /\ u.same = w.same
         /\ u.head = w.head /\ u.entries = <<s>> /\ u.boundary = 0 /\ ~u.legacy
<1>1. PICK v : v = [w EXCEPT !.entries = <<s>>, !.next = 0]
  BY Zenon
<1>2. <<s>> \in Seq(Nat) /\ 0 \in Nat
  OBVIOUS
<1>3. v \in Walks /\ v.entries = <<s>> /\ v.kind = w.kind /\ v.same = w.same /\ v.head = w.head /\ ~v.legacy
  BY <1>1, <1>2, Zenon DEF Walks
<1>4. u = Answer(v, "page")
  BY <1>1, Zenon DEF Found
<1>5. /\ u \in Walks /\ u.pc = "done" /\ u.result = "page" /\ u.kind = v.kind /\ u.same = v.same
      /\ u.head = v.head /\ u.entries = v.entries /\ u.boundary = 0
  BY <1>3, <1>4, AnswerFields
<1>6. u.legacy <=> v.legacy
  BY <1>3, <1>4, AnswerFlags, Zenon
<1> QED
  BY <1>3, <1>5, <1>6, Zenon

LEMMA TableStepSound ==
  ASSUME RegistryInv, NEW w \in Walks, WalkSound(w), w.pc = "record", w.kind = "table",
         NEW u, u = TableStep(w, w.next)
  PROVE  u \in Walks /\ WalkSound(u)
<1> DEFINE s == w.next
<1>1. ReadableInv /\ ~w.legacy /\ s \in Nat /\ s \in Chain(w.head) /\ w.head \in 0..Len(published)
  BY RecordFacts, Zenon
<1>2. u = Found(w, s)
  BY Zenon DEF TableStep, Found
<1> HIDE DEF s
<1>3. /\ u \in Walks /\ u.pc = "done" /\ u.result = "page" /\ u.kind = w.kind /\ u.same = w.same
      /\ u.head = w.head /\ u.entries = <<s>> /\ u.boundary = 0 /\ ~u.legacy
  BY <1>1, <1>2, FoundFields, Zenon
<1>4. Answered(u)
  BY <1>3, Zenon DEF Answered
<1>5. \A i \in 1..Len(u.entries) : u.entries[i] \in Chain(u.head)
  BY <1>1, <1>2, <1>3
<1> QED
  BY <1>1, <1>3, <1>4, <1>5, AnswerSound

LEMMA HashStepSound ==
  ASSUME RegistryInv, NEW w \in Walks, WalkSound(w), w.pc = "record", w.kind = "by_hash",
         NEW u, u = HashStep(w, w.next, Record(w.next))
  PROVE  u \in Walks /\ WalkSound(u)
<1> DEFINE s == w.next
<1>1. /\ ReadableInv /\ w.result = "none" /\ ~w.retained /\ ~w.legacy /\ w.boundary <= view.boundary
      /\ w.head \in Chain(view.CURRENT) /\ w.head \in 0..Len(published) /\ OnTheWay(w)
      /\ s \in Chain(w.head) /\ w.visited = Walked(w) \cup {s}
      /\ w.boundary \in Nat /\ view.boundary \in Nat
      /\ \A i \in 1..Len(w.entries) : w.entries[i] \in Chain(w.head)
  BY RecordFacts, Zenon
<1>2. /\ s \in Nat \ {0} /\ Previous(s) \in Nat /\ Previous(s) < s /\ Previous(s) \in Chain(w.head) \cup {0}
      /\ {t \in Chain(w.head) : t > Previous(s)} = Walked(w) \cup {s}
      /\ \A t \in Chain(w.head) : t \in Nat \ {0} /\ (t \notin Walked(w) => t <= s)
      /\ \A t \in Chain(w.head) : t \notin Walked(w) \cup {s} => t <= Previous(s)
  BY <1>1, OneDown, Zenon
<1>3. Walked(w) \cap w.same = {}
  BY <1>1, Zenon DEF OnTheWay
<1>4. u = IF s \in w.same THEN Found(w, s)
          ELSE IF s = w.boundary \/ Previous(s) = 0 THEN Fail(w, "not_found")
          ELSE [w EXCEPT !.next = Previous(s), !.pc = "manifest"]
  <2>1. PICK record : record = Record(s)
    BY Zenon
  <2>2. record.previous = Previous(s)
    BY <2>1, Zenon DEF Record
  <2>3. u = HashStep(w, s, record)
    BY <2>1, Zenon
  <2> QED
    BY <2>2, <2>3, Zenon DEF HashStep, Found
<1> HIDE DEF s
<1>5. CASE s \in w.same
  <2>1. /\ u \in Walks /\ u.pc = "done" /\ u.result = "page" /\ u.kind = w.kind /\ u.same = w.same
        /\ u.head = w.head /\ u.entries = <<s>> /\ u.boundary = 0 /\ ~u.legacy
    BY <1>1, <1>2, <1>4, <1>5, FoundFields, Zenon
  <2>2. NewestFound(u)
    <3>1. s \in Chain(u.head) \cap u.same /\ \A t \in Chain(u.head) \cap u.same : t <= s
      BY <1>1, <1>2, <1>3, <1>5, <2>1, Zenon
    <3> QED
      BY <2>1, <3>1, Zenon DEF NewestFound
  <2>3. Answered(u)
    BY <2>1, <2>2, Zenon DEF Answered
  <2>4. \A i \in 1..Len(u.entries) : u.entries[i] \in Chain(u.head)
    BY <1>1, <2>1
  <2> QED
    BY <1>1, <2>1, <2>3, <2>4, AnswerSound, Zenon
<1>6. CASE s \notin w.same /\ (s = w.boundary \/ Previous(s) = 0)
  <2>1. u = Fail(w, "not_found")
    BY <1>4, <1>6, Zenon
  <2>2. ASSUME NEW t \in Chain(w.head) \cap w.same PROVE t < view.boundary
    <3>1. t \in Nat \ {0} /\ t <= Previous(s)
      BY <1>2, <1>3, <1>6, Zenon
    <3> QED
      BY <1>1, <1>2, <1>6, <3>1
  <2>3. ContentRetired(w)
    BY <2>2, Zenon DEF ContentRetired
  <2> QED
    BY <1>1, <2>1, <2>3, FailSound, Zenon
<1>7. CASE s \notin w.same /\ ~(s = w.boundary \/ Previous(s) = 0)
  <2>1. u = [w EXCEPT !.next = Previous(s), !.pc = "manifest"]
    BY <1>4, <1>7, Zenon
  <2>2. /\ u \in Walks /\ u.pc = "manifest" /\ u.head = w.head /\ u.entries = w.entries /\ u.next = Previous(s)
        /\ u.boundary = w.boundary /\ u.result = w.result /\ (u.retained <=> w.retained) /\ (u.legacy <=> w.legacy)
        /\ u.visited = w.visited /\ u.kind = w.kind /\ u.same = w.same
    BY <1>2, <2>1, Zenon DEF Walks, WalkPcs
  <2>3. Walked(u) = Walked(w) \cup {s} /\ u.next \in Chain(u.head)
    BY <1>2, <1>7, <2>2, Zenon DEF Walked
  <2>4. OnTheWay(u)
    BY <1>1, <1>3, <1>7, <2>2, <2>3, Zenon DEF OnTheWay
  <2>5. WalkSound(u)
    BY <1>1, <2>2, <2>4, Zenon DEF WalkSound, Answered
  <2> QED
    BY <2>2, <2>5, Zenon
<1> QED
  BY <1>5, <1>6, <1>7, Zenon

LEMMA ReadRecordWalks ==
  ASSUME RegistryInv, ReadableInv', WalkInv, NEW r \in Readers, ReadRecord(r)
  PROVE  WalkInv'
<1>1. PICK w : w = walk[r]
  BY Zenon
<1>2. w \in Walks /\ WalkSound(w) /\ w.pc = "record" /\ ReadableInv
  BY <1>1, Zenon DEF WalkInv, ReadRecord, RegistryInv
<1>3. Record(w.next).ok = (w.next \in view.dirs)
  BY Zenon DEF Record
<1>4. Step(r, IF ~Record(w.next).ok THEN [w EXCEPT !.pc = "crossed"]
              ELSE CASE w.kind = "history" -> HistoryStep(w, w.next, Record(w.next))
                     [] w.kind = "by_hash" -> HashStep(w, w.next, Record(w.next))
                     [] w.kind = "table"   -> TableStep(w, w.next))
  BY <1>1, Zenon DEF ReadRecord
<1>5. w.kind \in {"history", "by_hash", "table"}
  BY <1>2, Zenon DEF WalkSound, OnTheWay, Walks
<1>6. CASE w.next \in view.dirs
  <2>1. Record(w.next).ok
    BY <1>3, <1>6, Zenon
  <2>2. CASE w.kind = "history"
    <3>1. PICK u : u = HistoryStep(w, w.next, Record(w.next)) /\ Step(r, u)
      BY <1>4, <2>1, <2>2, Zenon
    <3>2. u \in Walks /\ WalkSound(u)
      BY <1>2, <2>2, <3>1, HistoryStepSound, Zenon
    <3> QED
      BY <1>2, <3>1, <3>2, StepWalks, Zenon
  <2>3. CASE w.kind = "by_hash"
    <3>1. PICK u : u = HashStep(w, w.next, Record(w.next)) /\ Step(r, u)
      BY <1>4, <2>1, <2>3, Zenon
    <3>2. u \in Walks /\ WalkSound(u)
      BY <1>2, <2>3, <3>1, HashStepSound, Zenon
    <3> QED
      BY <1>2, <3>1, <3>2, StepWalks, Zenon
  <2>4. CASE w.kind = "table"
    <3>1. PICK u : u = TableStep(w, w.next) /\ Step(r, u)
      BY <1>4, <2>1, <2>4, Zenon
    <3>2. u \in Walks /\ WalkSound(u)
      BY <1>2, <2>4, <3>1, TableStepSound, Zenon
    <3> QED
      BY <1>2, <3>1, <3>2, StepWalks, Zenon
  <2> QED
    BY <1>5, <2>2, <2>3, <2>4, Zenon
<1>7. CASE w.next \notin view.dirs
  <2>1. PICK u : u = [w EXCEPT !.pc = "crossed"] /\ Step(r, u)
    <3>1. ~Record(w.next).ok
      BY <1>3, <1>7, Zenon
    <3> QED
      BY <1>4, <3>1, Zenon
  <2>2. /\ u \in Walks /\ u.pc = "crossed" /\ u.head = w.head /\ u.entries = w.entries /\ u.next = w.next
        /\ u.boundary = w.boundary /\ u.result = w.result /\ (u.retained <=> w.retained) /\ (u.legacy <=> w.legacy)
        /\ u.visited = w.visited /\ u.kind = w.kind /\ u.limit = w.limit /\ u.found = w.found /\ u.before = w.before
        /\ u.same = w.same
    BY <1>2, <2>1, Zenon DEF Walks, WalkPcs
  <2>3. /\ w.result = "none" /\ ~w.retained /\ ~w.legacy /\ w.boundary <= view.boundary
        /\ w.head \in Chain(view.CURRENT) /\ w.head \in 0..Len(published) /\ OnTheWay(w)
        /\ \A i \in 1..Len(w.entries) : w.entries[i] \in Chain(w.head)
    BY <1>2, Zenon DEF WalkSound
  <2>4. Walked(u) = Walked(w) /\ Rest(u) = Rest(w) /\ First(u) = First(w)
    BY <2>2, Zenon DEF Walked, Rest, First, LastSeen
  <2>5. OnTheWay(u)
    BY <1>2, <1>7, <2>2, <2>3, <2>4 DEF OnTheWay
  <2>6. WalkSound(u)
    BY <2>2, <2>3, <2>5, Zenon DEF WalkSound, Answered
  <2> QED
    BY <1>2, <2>1, <2>2, <2>6, StepWalks, Zenon
<1> QED
  BY <1>6, <1>7, Zenon

-----------------------------------------------------------------------------
(* crossed_boundary: where the boundary lies when a directory is missing. *)
LEMMA CrossedFacts ==
  ASSUME RegistryInv, NEW w \in Walks, WalkSound(w), w.pc = "crossed", NEW b, b = view.boundary
  PROVE  /\ w.next \in Nat \ {0} /\ b \in Nat /\ w.next < b
         /\ b \in Walked(w) => b \in Chain(w.head) /\ Previous(b) \in Nat \ {0} /\ Previous(b) < b
         /\ b \notin Walked(w) => w.head < b
         /\ Explains(w, b) <=> b \in Walked(w)
         /\ \A t \in Chain(w.head) : t \in Nat \ {0} /\ (t \notin Walked(w) => t < b)
<1>1. /\ ReadableInv /\ w.head \in Chain(view.CURRENT) /\ OnTheWay(w) /\ b \in Nat
      /\ w.next \in Chain(w.head) /\ w.visited = Walked(w) \cup {w.next} /\ w.head \in Nat
  BY RecordFacts, Zenon
<1>2. /\ Chain(w.head) \subseteq Chain(view.CURRENT) /\ Descends(published, Chain(w.head))
      /\ \A s \in Chain(w.head) : s \in Nat \ {0} /\ s <= w.head
      /\ \A s \in Chain(view.CURRENT) : s <= w.head => s \in Chain(w.head)
  BY <1>1, PinnedChain, Zenon
<1>3. w.next \notin view.dirs
  BY <1>1, Zenon DEF OnTheWay
<1>4. w.next < b /\ w.next \in Nat \ {0} /\ b # 0
  BY <1>1, <1>2, <1>3 DEF RegistryInv, DirectoryInv, Sound
<1>5. b \in Chain(view.CURRENT)
  BY <1>4, Zenon DEF RegistryInv, DirectoryInv, Sound
<1>6. b \in Walked(w) => b \in Chain(w.head) /\ Previous(b) \in Nat \ {0} /\ Previous(b) < b
  BY <1>1, <1>2, <1>4 DEF Walked, Descends, Previous
<1>7. b \notin Walked(w) => w.head < b
  BY <1>1, <1>2, <1>4, <1>5 DEF Walked
<1>8. Explains(w, b) <=> b \in Walked(w)
  BY <1>1, <1>4 DEF Explains
<1>9. ASSUME NEW t \in Chain(w.head), t \notin Walked(w) PROVE t < b
  BY <1>1, <1>2, <1>4, <1>9 DEF Walked
<1> QED
  BY <1>1, <1>2, <1>4, <1>6, <1>7, <1>8, <1>9

(* The page is cut at the boundary. *)
LEMMA TruncatedSound ==
  ASSUME RegistryInv, NEW w \in Walks, WalkSound(w), w.pc = "crossed", w.kind = "history",
         NEW b, b = view.boundary, b \in Walked(w),
         w.before = b \/ \E i \in DOMAIN w.entries : w.entries[i] = b,
         NEW u, u = Answer(Truncated(w, Position(w, b)), "page")
  PROVE  u \in Walks /\ WalkSound(u)
<1>1. /\ ReadableInv /\ ~w.legacy /\ w.head \in 0..Len(published) /\ OnTheWay(w)
      /\ \A i \in 1..Len(w.entries) : w.entries[i] \in Chain(w.head)
      /\ w.entries \in Seq(Nat) /\ w.before \in Nat
  BY RecordFacts, Zenon
<1>2. /\ b \in Nat /\ b \in Chain(w.head) /\ Previous(b) \in Nat \ {0} /\ Previous(b) < b /\ b # 0
      /\ \A t \in Chain(w.head) : t \in Nat \ {0}
  BY CrossedFacts, Zenon
<1>3. PICK n : n = Position(w, b)
  BY Zenon
<1>4. /\ w.before = b => n = 0
      /\ w.before # b => n \in DOMAIN w.entries /\ w.entries[n] = b
  BY <1>3, Zenon DEF Position
<1>5. DOMAIN w.entries = 1..Len(w.entries) /\ Len(w.entries) \in Nat
  BY <1>1
<1>6. n \in 0..Len(w.entries) /\ (n = 0 => w.before = b) /\ (n # 0 => w.entries[n] = b /\ w.before # b)
  BY <1>4, <1>5
<1>7. PICK e : e = SubSeq(w.entries, 1, n)
  BY Zenon
<1>8. e \in Seq(Nat) /\ Len(e) = n /\ \A i \in 1..n : e[i] = w.entries[i]
  BY <1>1, <1>6, <1>7, PrefixNat, Zenon
<1>9. PICK v : v = [w EXCEPT !.next = 0, !.retained = TRUE, !.entries = e]
  BY Zenon
<1>10. /\ v \in Walks /\ v.next = 0 /\ v.retained /\ v.entries = e /\ ~v.legacy
       /\ v.head = w.head /\ v.before = w.before /\ v.limit = w.limit /\ v.kind = w.kind
  BY <1>1, <1>8, <1>9, EmptyPage, Zenon DEF Walks
<1>11. u = Answer(v, "page")
  BY <1>3, <1>7, <1>9, Zenon DEF Truncated
<1>12. /\ u \in Walks /\ u.pc = "done" /\ u.result = "page" /\ u.before = v.before
       /\ u.kind = v.kind /\ u.head = v.head /\ u.entries = v.entries /\ u.boundary = 0
  BY <1>10, <1>11, AnswerFields
<1>13. ~u.more /\ u.retained /\ ~u.legacy
  <2>1. (u.more <=> v.next # 0) /\ (u.retained <=> v.retained) /\ (u.legacy <=> v.legacy)
    BY <1>10, <1>11, AnswerFlags, Zenon
  <2> QED
    BY <1>10, <2>1, Zenon
<1>14. LastSeen(u) = b /\ Rest(u) = Previous(b)
  <2>1. LastSeen(u) = IF u.entries = <<>> THEN u.before ELSE u.entries[Len(u.entries)]
    BY Zenon DEF LastSeen
  <2>2. CASE n = 0
    <3>1. u.entries = <<>>
      BY <1>8, <1>10, <1>12, <2>2
    <3> QED
      BY <1>2, <1>6, <1>10, <1>12, <2>1, <2>2, <3>1 DEF Rest
  <2>3. CASE n # 0
    <3>1. u.entries = e /\ e # <<>> /\ Len(e) = n /\ e[n] = b
      BY <1>6, <1>8, <1>10, <1>12, <2>3
    <3> QED
      BY <1>2, <2>1, <3>1, Zenon DEF Rest
  <2> QED
    BY <2>2, <2>3, Zenon
<1>15. u.before \in Chain(u.head) \cup {0} /\ First(u) = First(w)
  <2>1. w.before \in Chain(w.head) \cup {0}
    <3>1. CASE w.before = b
      BY <1>2, <3>1, Zenon
    <3>2. CASE w.before # b
      <4>1. w.entries # <<>>
        BY <1>4, <1>5, <3>2, EmptyPage, Zenon
      <4> QED
        BY <1>1, <4>1, Zenon DEF OnTheWay, Walked
    <3> QED
      BY <3>1, <3>2, Zenon
  <2> QED
    BY <1>10, <1>12, <2>1 DEF First
<1>16. ASSUME NEW i \in DOMAIN u.entries
       PROVE  /\ u.entries[i] = IF i = 1 THEN First(u) ELSE Previous(u.entries[i - 1])
              /\ u.entries[i] # 0 /\ u.entries[i] \in Chain(u.head)
  <2>1. i \in 1..n /\ u.entries = e
    BY <1>8, <1>10, <1>12
  <2>2. i \in 1..Len(w.entries) /\ n # 0 /\ (i # 1 => i - 1 \in 1..n)
    BY <1>5, <1>6, <2>1
  <2>3. w.entries # <<>>
    BY <2>2, EmptyPage, Zenon
  <2>4. w.entries[i] = IF i = 1 THEN First(w) ELSE Previous(w.entries[i - 1])
    BY <1>1, <2>2, <2>3, Zenon DEF OnTheWay
  <2>5. u.entries[i] = w.entries[i] /\ (i # 1 => u.entries[i - 1] = w.entries[i - 1])
    BY <1>8, <2>1, <2>2, Zenon
  <2> QED
    BY <1>1, <1>2, <1>10, <1>12, <1>15, <2>2, <2>4, <2>5, Zenon
<1>17. PageHonest(u)
  BY <1>2, <1>13, <1>14, <1>15, <1>16, Zenon DEF PageHonest
<1>18. Answered(u)
  BY <1>10, <1>12, <1>17, Zenon DEF Answered
<1>19. \A i \in 1..Len(u.entries) : u.entries[i] \in Chain(u.head)
  <2>1. DOMAIN u.entries = 1..Len(u.entries)
    BY <1>8, <1>10, <1>12
  <2> QED
    BY <1>16, <2>1, Zenon
<1> QED
  BY <1>1, <1>10, <1>12, <1>13, <1>18, <1>19, AnswerSound, Zenon

LEMMA CrossedWalks ==
  ASSUME RegistryInv, ReadableInv', WalkInv, NEW r \in Readers, CrossedBoundary(r)
  PROVE  WalkInv'
<1>1. PICK w : w = walk[r]
  BY Zenon
<1>2. w \in Walks /\ WalkSound(w) /\ w.pc = "crossed" /\ ReadableInv
  BY <1>1, Zenon DEF WalkInv, CrossedBoundary, RegistryInv
<1>3. PICK b : b = view.boundary
  BY Zenon
<1> DEFINE onPage == w.before = b \/ \E i \in DOMAIN w.entries : w.entries[i] = b
<1>4. Step(r, IF w.kind = "table" \/ ~Explains(w, b) THEN Fail(w, "missing")
              ELSE IF w.kind = "history" /\ onPage THEN Answer(Truncated(w, Position(w, b)), "page")
              ELSE Fail(w, "not_found"))
  BY <1>1, <1>3, Zenon DEF CrossedBoundary
<1>5. /\ w.head \in 0..Len(published) /\ OnTheWay(w) /\ w.head \in Nat
      /\ w.entries \in Seq(Nat) /\ w.before \in Nat
  BY <1>2, RecordFacts, Zenon
<1>6. /\ w.next \in Nat \ {0} /\ b \in Nat /\ w.next < b
      /\ b \notin Walked(w) => w.head < b
      /\ Explains(w, b) <=> b \in Walked(w)
      /\ \A t \in Chain(w.head) : t \in Nat \ {0} /\ (t \notin Walked(w) => t < b)
  BY <1>2, <1>3, CrossedFacts, Zenon
<1>7. CASE w.kind = "table" \/ b \notin Walked(w)
  <2>1. PICK u : u = Fail(w, "missing") /\ Step(r, u)
    BY <1>4, <1>6, <1>7, Zenon
  <2>2. w.head < view.boundary
    BY <1>3, <1>5, <1>6, <1>7, Zenon DEF OnTheWay
  <2>3. u \in Walks /\ WalkSound(u)
    BY <1>2, <1>5, <2>1, <2>2, FailSound
  <2> QED
    BY <1>2, <2>1, <2>3, StepWalks, Zenon
<1>8. CASE w.kind # "table" /\ b \in Walked(w) /\ w.kind = "history" /\ onPage
  <2>1. PICK u : u = Answer(Truncated(w, Position(w, b)), "page") /\ Step(r, u)
    BY <1>4, <1>6, <1>8, Zenon
  <2>2. u \in Walks /\ WalkSound(u)
    BY <1>2, <1>3, <1>8, <2>1, TruncatedSound, Zenon
  <2> QED
    BY <1>2, <2>1, <2>2, StepWalks, Zenon
<1>9. CASE w.kind # "table" /\ b \in Walked(w) /\ ~(w.kind = "history" /\ onPage)
  <2>1. PICK u : u = Fail(w, "not_found") /\ Step(r, u)
    BY <1>4, <1>6, <1>9, Zenon
  <2>2. w.kind = "by_hash" => ContentRetired(w)
    BY <1>3, <1>5, <1>6, Zenon DEF OnTheWay, ContentRetired
  <2>3. w.kind = "history" => CursorRetired(w)
    <3> SUFFICES ASSUME w.kind = "history" PROVE CursorRetired(w)
      BY Zenon
    <3>1. w.before # b /\ ~\E i \in 1..Len(w.entries) : w.entries[i] = b
      <4>1. DOMAIN w.entries = 1..Len(w.entries)
        BY <1>5
      <4> QED
        BY <1>9, <4>1, Zenon
    <3>2. CASE w.found
      <4>1. ~(w.before = 0 \/ b < w.before)
        BY <1>5, <1>9, <3>1, <3>2 DEF OnTheWay
      <4> QED
        BY <1>3, <1>5, <1>6, <3>1, <4>1 DEF CursorRetired
    <3>3. CASE ~w.found
      <4>1. w.before # 0 /\ w.before \notin Walked(w)
        BY <1>5, <3>3, Zenon DEF OnTheWay
      <4> QED
        BY <1>3, <1>6, <4>1, Zenon DEF CursorRetired
    <3> QED
      BY <3>2, <3>3, Zenon
  <2>4. u \in Walks /\ WalkSound(u)
    BY <1>2, <1>5, <2>1, <2>2, <2>3, FailSound, Zenon
  <2> QED
    BY <1>2, <2>1, <2>4, StepWalks, Zenon
<1> QED
  BY <1>7, <1>8, <1>9, Zenon

-----------------------------------------------------------------------------
LEMMA RegistryReadable == RegistryInv => ReadableInv
BY Zenon DEF RegistryInv

(* A step that changes neither the chain nor the directory. *)
LEMMA QuietWalks ==
  ASSUME RegistryInv, ReadableInv', WalkInv, UNCHANGED <<published, view, walk>>
  PROVE  WalkInv'
<1>1. Chain(view.CURRENT)' = Chain(view.CURRENT) /\ view.boundary \in Nat /\ Len(published) \in Nat
  BY RegistryReadable, DirectoryTypes, RegistryChained DEF Chain
<1> QED
  BY <1>1, RegistryReadable, WalksStay

LEMMA InstallWalks ==
  ASSUME RegistryInv, ReadableInv', WalkInv, NEW x \in Writers, Install(x)
  PROVE  WalkInv'
<1> DEFINE s == Len(published) + 1
           record == [previous |-> job[x].previous, legacy |-> FALSE]
<1>1. /\ published' = Append(published, record) /\ view' = [view EXCEPT !.dirs = @ \cup {s}] /\ UNCHANGED walk
  BY Zenon DEF Install
<1>2. ReadableInv /\ published \in Seq(Published) /\ view \in Directory /\ Len(published) \in Nat
  BY DEF RegistryInv, ReadableInv, RegistryTypeOK
<1>3. /\ view'.CURRENT = view.CURRENT /\ view'.boundary = view.boundary /\ view'.dirs = view.dirs \cup {s}
  BY <1>1, <1>2, Zenon DEF Directory
<1>4. record \in Published
  <2>1. job[x] \in Jobs
    BY Zenon DEF RegistryInv, ReadableInv, RegistryTypeOK
  <2> QED
    BY <2>1, Zenon DEF Jobs, Published
<1> HIDE DEF record
<1>5. Len(published') = s /\ \A t \in 1..Len(published) : published'[t] = published[t]
  BY <1>1, <1>2, <1>4
<1>6. Chained(published) /\ Chained(published') /\ view.CURRENT \in 0..Len(published)
  <2>1. published' \in Seq(Published) /\ \A t \in DOMAIN published' : published'[t].previous < t
    BY Zenon DEF ReadableInv, RegistryTypeOK, Previous
  <2> QED
    BY <1>2, <2>1, RegistryChained DEF Chained
<1>7. Len(published) <= Len(published')
  BY <1>2, <1>5
<1>8. Chain(view.CURRENT)' = Chain(view.CURRENT)
  BY <1>3, <1>5, <1>6, <1>7, ChainKept DEF Chain
<1>9. \A t \in Chain(view.CURRENT) : t \in view'.dirs => t \in view.dirs
  <2>1. \A t \in Chain(view.CURRENT) : t \in 1..Len(published)
    BY <1>6, ChainBelow, Zenon DEF Chain
  <2>2. \A t \in Chain(view.CURRENT) : t # s
    BY <1>2, <2>1
  <2> QED
    BY <1>3, <2>2, Zenon
<1>10. view.boundary <= view'.boundary
  BY <1>2, <1>3, DirectoryTypes
<1> QED
  BY <1>1, <1>2, <1>5, <1>7, <1>8, <1>9, <1>10, WalksStay

LEMMA PointWalks ==
  ASSUME RegistryInv, ReadableInv', WalkInv, NEW x \in Writers, Point(x)
  PROVE  WalkInv'
<1> DEFINE s == job[x].snapshot
<1>1. /\ view' = [view EXCEPT !.CURRENT = s] /\ UNCHANGED <<published, walk>> /\ job[x].pc = "pointing"
  BY Zenon DEF Point
<1>2. ReadableInv /\ view \in Directory /\ Len(published) \in Nat
  BY DEF RegistryInv, ReadableInv, RegistryTypeOK
<1>3. /\ view'.CURRENT = s /\ view'.boundary = view.boundary /\ view'.dirs = view.dirs /\ view.boundary \in Nat
  BY <1>1, <1>2, DirectoryTypes DEF Directory
<1>4. s \in 1..Len(published) /\ Previous(s) = view.CURRENT
  BY <1>1, <1>2, Zenon DEF ReadableInv, JobSound, PointersSound
<1>5. Chain(view.CURRENT)' = {s} \cup Chain(view.CURRENT)
  BY <1>1, <1>2, <1>3, <1>4, RegistryChained, ChainStep DEF Chain, Previous
<1> QED
  BY <1>1, <1>2, <1>3, <1>5, WalksStay

LEMMA WriteRetentionWalks ==
  ASSUME RegistryInv, ReadableInv', WalkInv, NEW x \in Writers, WriteRetention(x)
  PROVE  WalkInv'
<1>1. /\ view' = [view EXCEPT !.boundary = job[x].boundary] /\ UNCHANGED <<published, walk>> /\ job[x].pc = "retaining"
  BY Zenon DEF WriteRetention
<1>2. ReadableInv /\ view \in Directory /\ Len(published) \in Nat
  BY DEF RegistryInv, ReadableInv, RegistryTypeOK
<1>3. view'.CURRENT = view.CURRENT /\ view'.dirs = view.dirs /\ view'.boundary = job[x].boundary
  BY <1>1, <1>2, Zenon DEF Directory
<1>4. Chain(view.CURRENT)' = Chain(view.CURRENT)
  BY <1>1, <1>3, Zenon DEF Chain
<1>5. view.boundary <= view'.boundary
  BY <1>1, <1>3, Zenon DEF RegistryInv, DirectoryInv, JobChained, Pruning
<1> QED
  BY <1>1, <1>2, <1>3, <1>4, <1>5, WalksStay

LEMMA RenameAwayWalks ==
  ASSUME RegistryInv, ReadableInv', WalkInv, NEW x \in Writers, RenameAway(x)
  PROVE  WalkInv'
<1>1. UNCHANGED <<published, walk>> /\ (view' = view \/ \E d : view' = [view EXCEPT !.dirs = @ \ {d}])
  BY Zenon DEF RenameAway
<1>2. ReadableInv /\ view \in Directory /\ Len(published) \in Nat
  BY DEF RegistryInv, ReadableInv, RegistryTypeOK
<1>3. view'.CURRENT = view.CURRENT /\ view'.dirs \subseteq view.dirs /\ view'.boundary = view.boundary
  BY <1>1, <1>2, Zenon DEF Directory
<1>4. Chain(view.CURRENT)' = Chain(view.CURRENT) /\ view.boundary \in Nat
  BY <1>1, <1>2, <1>3, DirectoryTypes DEF Chain
<1> QED
  BY <1>1, <1>2, <1>3, <1>4, WalksStay

(* A power loss ends every walk. *)
LEMMA PowerLossWalks ==
  ASSUME RegistryInv, ReadableInv', PowerLoss
  PROVE  WalkInv'
<1> DEFINE ended == [NoWalk EXCEPT !.pc = "done"]
<1>1. walk' = [r \in Readers |-> IF walk[r].pc = "new" THEN NoWalk ELSE ended]
  BY Zenon DEF PowerLoss
<1>2. /\ ended \in Walks /\ ended.pc = "done" /\ ended.result = "none" /\ ended.head = 0 /\ ended.boundary = 0
      /\ ended.entries = <<>> /\ ~ended.retained /\ ~ended.legacy
  BY NoWalkFields, Zenon DEF NoWalk, Walks, WalkPcs
<1> HIDE DEF ended
<1>3. walk' \in [Readers -> Walks]
  BY <1>1, <1>2, NoWalkFields, Zenon
<1>4. 0 \in 0..Len(published') /\ 0 <= view'.boundary
  BY DEF ReadableInv, RegistryTypeOK, Directory
<1>5. ASSUME NEW r \in Readers PROVE WalkSound(walk[r])'
  <2>1. PICK w \in Walks : /\ w = walk'[r] /\ w.pc \in {"new", "done"} /\ w.result = "none" /\ w.head = 0
                           /\ w.boundary = 0 /\ w.entries = <<>> /\ ~w.retained /\ ~w.legacy
    BY <1>1, <1>2, <1>3, NoWalkFields, Zenon
  <2>2. \A i \in 1..Len(w.entries) : FALSE
    BY <2>1, EmptyPage, Zenon
  <2>3. WalkSound(w)'
    BY <1>4, <2>1, <2>2, Zenon DEF WalkSound, Answered
  <2> QED
    BY <2>1, <2>3, Zenon
<1> QED
  BY <1>3, <1>5, Zenon DEF WalkInv

-----------------------------------------------------------------------------
LEMMA WalkInit == RegistryInit => WalkInv
<1> SUFFICES ASSUME RegistryInit PROVE WalkInv
  BY Zenon
<1>1. ReadableInv /\ walk = [r \in Readers |-> NoWalk]
  BY InitInv, Zenon DEF RegistryInit
<1>2. WalkSound(NoWalk)
  BY <1>1, NoWalkFields, RestingSound, Zenon
<1> QED
  BY <1>1, <1>2, NoWalkFields, Zenon DEF WalkInv

LEMMA WalkNext ==
  ASSUME RegistryInv, ReadableInv', WalkInv, [RegistryNext]_vars
  PROVE  WalkInv'
<1>1. CASE RetentionPass
  BY <1>1, QuietWalks, Zenon DEF RetentionPass, Retain, Start
<1>2. ASSUME NEW x \in Writers, Prepare(x) \/ WriterStep(x) \/ Kill(x) PROVE WalkInv'
  <2>1. CASE Prepare(x)
    BY <2>1, QuietWalks, Zenon DEF Prepare, Start
  <2>2. CASE ReadPredecessor(x) \/ Sync(x) \/ Window(x) \/ Candidates(x) \/ Kill(x)
    <3>1. UNCHANGED <<published, view, walk>>
      BY <2>2, Zenon DEF ReadPredecessor, Sync, Window, Candidates, Kill
    <3> QED
      BY <3>1, QuietWalks, Zenon
  <2> QED
    BY <1>2, <2>1, <2>2, InstallWalks, PointWalks, WriteRetentionWalks, RenameAwayWalks DEF WriterStep
<1>3. CASE PowerLoss
  BY <1>3, PowerLossWalks, Zenon
<1>4. ASSUME NEW r \in Readers,
             \/ \E before \in 0..Len(published), limit \in Limits : HistoryPage(r, before, limit)
             \/ ManifestByHash(r) \/ ReadTable(r) \/ ReadCurrent(r) \/ PinHead(r)
             \/ ReadManifest(r) \/ ReadRecord(r) \/ CrossedBoundary(r)
      PROVE  WalkInv'
  BY <1>4, RegistryReadable, BeginWalks, ReadCurrentWalks, PinHeadWalks, ReadManifestWalks,
     ReadRecordWalks, CrossedWalks
<1>5. CASE UNCHANGED vars
  BY <1>5, QuietWalks, Zenon DEF vars
<1> QED
  BY <1>1, <1>2, <1>3, <1>4, <1>5 DEF RegistryNext

LEMMA WalksStaySound == OneUnsyncedFault /\ RegistrySpec => [](RegistryInv /\ WalkInv)
<1>1. RegistryInit => WalkInv
  BY WalkInit, Zenon
<1>2. RegistryInv /\ RegistryInv' /\ WalkInv /\ [RegistryNext]_vars => WalkInv'
  BY WalkNext, Zenon DEF RegistryInv
<1> QED
  BY <1>1, <1>2, RegistryStays, PTL DEF RegistrySpec

(* Whatever a writer, a fault or retention does between two reads of a     *)
(* history_walk, the page it returns is a contiguous part of the committed *)
(* chain from its cursor or its head, and it says so when it ends early.   *)
THEOREM PagesAreHonest == OneUnsyncedFault /\ RegistrySpec => []HistoryHonest
<1>1. RegistryInv /\ WalkInv => HistoryHonest
  BY Zenon DEF WalkInv, WalkSound, Answered, HistoryHonest
<1> QED
  BY <1>1, WalksStaySound, PTL

(* Every failed walk has a reason in the directory (crossed_boundary): a   *)
(* head, a cursor or a content identity that retention has retired, and a  *)
(* lookup that succeeds (by_hash_walk) finds the newest installation.      *)
THEOREM FailuresAreExplained == OneUnsyncedFault /\ RegistrySpec => []LookupsExplained
<1>1. RegistryInv /\ WalkInv => LookupsExplained
  BY Zenon DEF WalkInv, WalkSound, Answered, LookupsExplained
<1> QED
  BY <1>1, WalksStaySound, PTL

=============================================================================
