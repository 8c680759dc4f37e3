------------------------ MODULE MasterRegistryProofs ------------------------
(***************************************************************************)
(* CURRENT names a directory that is there, for any number of writers,     *)
(* readers, snapshots and faults, killed writers included; and the         *)
(* directory implements the durable log of publications.                   *)
(***************************************************************************)
EXTENDS RegistryProperties, WellFoundedInduction, TLAPS

(* The stages of a prune after its window is known.                        *)
Pruning == {"candidates", "retaining", "bounded", "removing", "removed"}

(* What a pass may rely on at its stage.  A removal stays below a boundary *)
(* that lies below both the CURRENT processes see and the durable one: the *)
(* window has two installations at least, and the durable CURRENT is at    *)
(* most one installation behind.                                           *)
JobSound(j) ==
  /\ j.pc \in {"chained", "installed", "pointing"} => j.previous = view.CURRENT
  /\ j.pc \in {"installed", "pointing"} =>
       /\ j.snapshot \in view.dirs
       /\ Previous(j.snapshot) = view.CURRENT
  /\ j.pc = "pointing" => j.snapshot \in disk.dirs /\ disk.CURRENT = view.CURRENT
  /\ j.pc = "window" =>
       /\ j.keep \in Keeps /\ j.candidates = <<>>
       /\ j.kept = 0 => j.next = view.CURRENT
       /\ j.kept # 0 => j.next <= view.CURRENT /\ j.next <= disk.CURRENT
  /\ j.pc \in Pruning => j.boundary <= view.CURRENT /\ j.boundary <= disk.CURRENT
  /\ j.pc = "candidates" => j.next < j.boundary
  /\ j.pc \in Pruning => \A i \in 1..Len(j.candidates) : j.candidates[i] < j.boundary

(* The durable CURRENT is the visible one or its predecessor, and no       *)
(* boundary lies above either.                                             *)
PointersSound ==
  /\ view.dirs \subseteq 1..Len(published) /\ disk.dirs \subseteq 1..Len(published)
  /\ view.CURRENT <= Len(published)
  /\ \/ disk.CURRENT = view.CURRENT
     \/ view.CURRENT # 0 /\ disk.CURRENT = Previous(view.CURRENT)
  /\ view.boundary <= view.CURRENT /\ view.boundary <= disk.CURRENT
  /\ disk.boundary <= view.CURRENT /\ disk.boundary <= disk.CURRENT

ReadableInv ==
  /\ RegistryTypeOK
  /\ CurrentReadable
  /\ PointersSound
  /\ \A x \in Writers : JobSound(job[x])

-----------------------------------------------------------------------------
LEMMA NoJobType == NoJob \in Jobs /\ NoJob.pc = "idle"
BY RegistryAssumption DEF NoJob, Jobs, Snapshots

LEMMA IdleSound ==
  ASSUME NEW j, j.pc = "idle"
  PROVE  JobSound(j)
BY Zenon DEF JobSound, Pruning

LEMMA InitInv == RegistryInit => ReadableInv
<1> SUFFICES ASSUME RegistryInit PROVE ReadableInv
  BY Zenon
<1>1. RegistryTypeOK
  <2>1. /\ published \in Seq(Published) /\ Len(published) <= 1
        /\ \A s \in DOMAIN published : Previous(s) < s
    <3> DEFINE first == [previous |-> 0, legacy |-> TRUE]
    <3>1. first \in Published /\ first.previous = 0
      BY RegistryAssumption DEF Published
    <3> HIDE DEF first
    <3>2. published = <<>> \/ published = <<first>>
      BY Zenon DEF RegistryInit, first
    <3>3. CASE published = <<>>
      BY <3>3 DEF Previous
    <3>4. CASE published = <<first>>
      BY <3>1, <3>4 DEF Previous
    <3> QED
      BY <3>2, <3>3, <3>4, Zenon
  <2>2. view \in Directory
    BY <2>1, RegistryAssumption DEF RegistryInit, Directory, Snapshots
  <2> QED
    BY <2>1, <2>2, NoJobType, RegistryAssumption DEF RegistryInit, RegistryTypeOK
<1>2. CurrentReadable /\ PointersSound
  BY DEF RegistryInit, CurrentReadable, PointersSound, Previous
<1>3. ASSUME NEW x \in Writers PROVE JobSound(job[x])
  BY NoJobType, IdleSound, Zenon DEF RegistryInit
<1> QED
  BY <1>1, <1>2, <1>3, Zenon DEF ReadableInv

(* Only the holder of the lock has a pass, so only its pass matters. *)
Alone(x, j) ==
  /\ job' = [job EXCEPT ![x] = j]
  /\ lock' \in Writers \cup {None}
  /\ j.pc # "idle" => lock' = x
  /\ \A y \in Writers : y # x => job[y].pc = "idle"
  /\ faults' \in 0..MaxFaults

LEMMA Moved ==
  ASSUME ReadableInv, NEW x \in Writers, NEW j \in Jobs, Alone(x, j),
         (/\ published \in Seq(Published) /\ Len(published) <= MaxSnapshots
          /\ \A s \in DOMAIN published : Previous(s) < s
          /\ view \in Directory /\ disk \in Directory)',
         CurrentReadable', PointersSound', JobSound(j)'
  PROVE  ReadableInv'
<1>1. /\ job' \in [Writers -> Jobs] /\ job'[x] = j
      /\ \A y \in Writers : y # x => job'[y] = job[y]
  BY Zenon DEF ReadableInv, RegistryTypeOK, Alone
<1>2. RegistryTypeOK'
  BY <1>1, Zenon DEF RegistryTypeOK, Alone
<1>3. ASSUME NEW y \in Writers PROVE JobSound(job[y])'
  <2>1. CASE y = x
    BY <1>1, <2>1, Zenon DEF JobSound
  <2>2. CASE y # x
    BY <1>1, <2>2, Zenon DEF JobSound, Alone, Pruning
  <2> QED
    BY <2>1, <2>2, Zenon
<1> QED
  BY <1>2, <1>3, Zenon DEF ReadableInv

(* Steps that leave the directory alone. *)
LEMMA Quiet ==
  ASSUME ReadableInv, NEW x \in Writers, NEW j \in Jobs, Alone(x, j), JobSound(j),
         UNCHANGED <<published, view, disk>>
  PROVE  ReadableInv'
<1>1. (/\ published \in Seq(Published) /\ Len(published) <= MaxSnapshots
       /\ \A s \in DOMAIN published : Previous(s) < s
       /\ view \in Directory /\ disk \in Directory)'
  BY Zenon DEF ReadableInv, RegistryTypeOK, Previous
<1>2. CurrentReadable' /\ PointersSound'
  BY Zenon DEF ReadableInv, CurrentReadable, PointersSound, Previous
<1>3. JobSound(j)'
  BY Zenon DEF JobSound, Previous
<1> QED
  BY <1>1, <1>2, <1>3, Moved, Zenon

LEMMA OthersIdle ==
  ASSUME ReadableInv, NEW x \in Writers, job[x].pc # "idle" \/ Unlocked
  PROVE  /\ \A y \in Writers : y # x => job[y].pc = "idle"
         /\ job[x].pc # "idle" => lock = x
BY RegistryAssumption, Zenon DEF ReadableInv, RegistryTypeOK, Unlocked

LEMMA Finishes ==
  ASSUME ReadableInv, NEW x \in Writers, Finish(x), job[x].pc # "idle",
         faults' \in 0..MaxFaults, UNCHANGED <<published, view, disk>>
  PROVE  ReadableInv'
<1>1. Alone(x, NoJob)
  BY OthersIdle, NoJobType, Zenon DEF Finish, Alone
<1> QED
  BY <1>1, NoJobType, IdleSound, Quiet, Zenon

LEMMA Starts ==
  ASSUME ReadableInv, NEW x \in Writers, NEW j \in Jobs, Start(x, j), JobSound(j)
  PROVE  ReadableInv'
<1>1. Alone(x, j)
  BY OthersIdle, Zenon DEF Start, Alone, ReadableInv, RegistryTypeOK
<1> QED
  BY <1>1, Quiet, Zenon DEF Start

(* The record of the pass after a step of it. *)
LEMMA Becomes ==
  ASSUME ReadableInv, NEW x \in Writers, NEW j \in Jobs, Become(x, j), job[x].pc # "idle",
         UNCHANGED faults
  PROVE  Alone(x, j)
BY OthersIdle, Zenon DEF Become, Alone, ReadableInv, RegistryTypeOK

-----------------------------------------------------------------------------
(* One lemma per action of a writer. *)

LEMMA JobType ==
  ASSUME ReadableInv, NEW x \in Writers
  PROVE  job[x] \in Jobs /\ JobSound(job[x])
BY Zenon DEF ReadableInv, RegistryTypeOK

LEMMA DirectoryTypes ==
  ASSUME ReadableInv
  PROVE  /\ view.CURRENT \in 0..MaxSnapshots /\ disk.CURRENT \in 0..MaxSnapshots
         /\ view.boundary \in 0..MaxSnapshots /\ disk.boundary \in 0..MaxSnapshots
         /\ \A s \in view.dirs : Previous(s) \in 0..MaxSnapshots /\ Previous(s) < s
<1>1. view \in Directory /\ disk \in Directory
  BY Zenon DEF ReadableInv, RegistryTypeOK
<1>2. ASSUME NEW s \in view.dirs
      PROVE  Previous(s) \in 0..MaxSnapshots /\ Previous(s) < s
  <2>1. s \in DOMAIN published /\ published \in Seq(Published)
    BY DEF ReadableInv, RegistryTypeOK, PointersSound
  <2>2. published[s] \in Published
    BY <2>1
  <2> QED
    BY <2>1, <2>2, Zenon DEF ReadableInv, RegistryTypeOK, Published, Previous
<1> QED
  BY <1>1, <1>2, Zenon DEF Directory

LEMMA PrepareInv ==
  ASSUME ReadableInv, NEW x \in Writers, Prepare(x)
  PROVE  ReadableInv'
<1> DEFINE j == [NoJob EXCEPT !.pc = "prepared"]
<1>1. j \in Jobs
  BY NoJobType, Zenon DEF Jobs
<1>2. j.pc = "prepared"
  BY Zenon DEF NoJob
<1>3. Start(x, j)
  BY Zenon DEF Prepare
<1> HIDE DEF j
<1>4. JobSound(j)
  BY <1>2, Zenon DEF JobSound, Pruning
<1> QED
  BY <1>1, <1>3, <1>4, Starts, Zenon

LEMMA RetainInv ==
  ASSUME ReadableInv, NEW x \in Writers, NEW k \in Keeps, Retain(x, k)
  PROVE  ReadableInv'
<1> DEFINE j == [NoJob EXCEPT !.pc = "window", !.keep = k, !.next = view.CURRENT]
<1>1. j \in Jobs
  BY NoJobType, DirectoryTypes, Zenon DEF Jobs
<1>2. /\ j.pc = "window" /\ j.keep = k /\ j.next = view.CURRENT
      /\ j.kept = 0 /\ j.candidates = <<>>
  BY Zenon DEF NoJob
<1>3. Start(x, j)
  BY Zenon DEF Retain
<1> HIDE DEF j
<1>4. JobSound(j)
  BY <1>2, Zenon DEF JobSound, Pruning
<1> QED
  BY <1>1, <1>3, <1>4, Starts, Zenon

LEMMA PredecessorInv ==
  ASSUME ReadableInv, NEW x \in Writers, ReadPredecessor(x)
  PROVE  ReadableInv'
<1> DEFINE j == [job[x] EXCEPT !.pc = "chained", !.previous = view.CURRENT]
<1>1. j \in Jobs /\ j.pc = "chained" /\ j.previous = view.CURRENT
  BY JobType, DirectoryTypes, Zenon DEF Jobs
<1>2. Become(x, j) \/ Finish(x)
  BY Zenon DEF ReadPredecessor
<1> HIDE DEF j
<1>3. JobSound(j)
  BY <1>1, Zenon DEF JobSound, Pruning
<1>4. CASE Become(x, j)
  BY <1>1, <1>3, <1>4, Becomes, Quiet, Zenon DEF ReadPredecessor
<1>5. CASE Finish(x)
  BY <1>5, Finishes, Zenon DEF ReadPredecessor, ReadableInv, RegistryTypeOK
<1> QED
  BY <1>2, <1>4, <1>5, Zenon

(* The two records Window may leave behind. *)
Closed(j, s, n) == [j EXCEPT !.pc = "candidates", !.kept = @ + 1, !.boundary = s, !.next = n]
Wider(j, n) == [j EXCEPT !.kept = @ + 1, !.next = n]

LEMMA ClosedType ==
  ASSUME NEW j \in Jobs, NEW s \in 0..MaxSnapshots, NEW n \in 0..MaxSnapshots
  PROVE  /\ Closed(j, s, n) \in Jobs /\ Closed(j, s, n).pc = "candidates"
         /\ Closed(j, s, n).boundary = s /\ Closed(j, s, n).next = n
         /\ Closed(j, s, n).candidates = j.candidates
<1> DEFINE k == j.kept + 1
           c == [j EXCEPT !.pc = "candidates", !.kept = k, !.boundary = s, !.next = n]
<1>1. k \in Nat
  BY DEF Jobs
<1> HIDE DEF k
<1>2. c \in Jobs
  BY <1>1, Zenon DEF Jobs
<1>3. c.pc = "candidates" /\ c.boundary = s /\ c.next = n /\ c.candidates = j.candidates
  BY Zenon DEF Jobs
<1>4. c = Closed(j, s, n)
  BY Zenon DEF Closed, k
<1> QED
  BY <1>2, <1>3, <1>4, Zenon

LEMMA WiderType ==
  ASSUME NEW j \in Jobs, NEW n \in 0..MaxSnapshots
  PROVE  /\ Wider(j, n) \in Jobs /\ Wider(j, n).pc = j.pc /\ Wider(j, n).keep = j.keep
         /\ Wider(j, n).kept = j.kept + 1 /\ Wider(j, n).next = n
         /\ Wider(j, n).candidates = j.candidates
<1> DEFINE k == j.kept + 1
           c == [j EXCEPT !.kept = k, !.next = n]
<1>1. k \in Nat
  BY DEF Jobs
<1> HIDE DEF k
<1>2. c \in Jobs
  BY <1>1, Zenon DEF Jobs
<1>3. /\ c.pc = j.pc /\ c.keep = j.keep /\ c.kept = k /\ c.next = n
      /\ c.candidates = j.candidates
  BY Zenon DEF Jobs
<1>4. c = Wider(j, n)
  BY Zenon DEF Wider, k
<1> QED
  BY <1>2, <1>3, <1>4, Zenon DEF k

LEMMA WindowInv ==
  ASSUME ReadableInv, NEW x \in Writers, Window(x)
  PROVE  ReadableInv'
<1> DEFINE s == job[x].next
           last == Closed(job[x], s, Previous(s))
           more == Wider(job[x], Previous(s))
<1>1. job[x] \in Jobs /\ JobSound(job[x]) /\ job[x].pc = "window"
  BY JobType, Zenon DEF Window
<1>2. CASE ~Recorded(s)
  BY <1>1, <1>2, Finishes, Zenon DEF Window, ReadableInv, RegistryTypeOK
<1>3. CASE Recorded(s)
  <2>1. s \in view.dirs /\ Previous(s) \in 0..MaxSnapshots /\ Previous(s) < s
    BY <1>3, DirectoryTypes, Zenon DEF Recorded
  <2>2. /\ job[x].keep \in Nat \ {0, 1} /\ job[x].kept \in Nat /\ s \in 0..MaxSnapshots
        /\ job[x].candidates = <<>>
        /\ job[x].kept = 0 => s = view.CURRENT
        /\ job[x].kept # 0 => s <= view.CURRENT /\ s <= disk.CURRENT
    BY <1>1, RegistryAssumption, Zenon DEF JobSound, Jobs
  <2>3. /\ last \in Jobs /\ last.pc = "candidates" /\ last.boundary = s
        /\ last.next = Previous(s) /\ last.candidates = job[x].candidates
    <3>1. job[x] \in Jobs /\ s \in 0..MaxSnapshots /\ Previous(s) \in 0..MaxSnapshots
      BY <1>1, <2>1, <2>2, Zenon
    <3> DEFINE j == job[x]
               n == Previous(s)
    <3>2. /\ Closed(j, s, n) \in Jobs /\ Closed(j, s, n).pc = "candidates"
          /\ Closed(j, s, n).boundary = s /\ Closed(j, s, n).next = n
          /\ Closed(j, s, n).candidates = j.candidates
      <4> HIDE DEF s, n, j
      <4>1. j \in Jobs /\ s \in 0..MaxSnapshots /\ n \in 0..MaxSnapshots
        BY <3>1, Zenon DEF j, n
      <4> QED
        BY <4>1, ClosedType
    <3> QED
      BY <3>2, Zenon
  <2>3a. /\ more \in Jobs /\ more.pc = job[x].pc /\ more.keep = job[x].keep
        /\ more.kept = job[x].kept + 1 /\ more.next = Previous(s)
        /\ more.candidates = job[x].candidates
    BY <1>1, <2>1, <2>2, WiderType, Zenon
  <2>4. IF LastKept(x, s) THEN Become(x, last) ELSE Become(x, more)
    BY <1>3, Zenon DEF Window, Closed, Wider
  <2> HIDE DEF last, more, s
  <2>5. /\ view.boundary <= view.CURRENT /\ view.boundary <= disk.CURRENT
        /\ disk.CURRENT = view.CURRENT \/ disk.CURRENT = Previous(view.CURRENT)
    BY Zenon DEF ReadableInv, PointersSound
  <2>6. CASE LastKept(x, s)
    <3>1. s <= view.CURRENT /\ s <= disk.CURRENT
      BY <2>2, <2>5, <2>6, DirectoryTypes DEF LastKept
    <3>2. JobSound(last)
      BY <2>1, <2>2, <2>3, <3>1 DEF JobSound, Pruning
    <3> QED
      BY <1>1, <2>3, <2>4, <2>6, <3>2, Becomes, Quiet, Zenon DEF Window
  <2>7. CASE ~LastKept(x, s)
    <3>1. Previous(s) <= view.CURRENT /\ Previous(s) <= disk.CURRENT
      BY <2>1, <2>2, <2>5, DirectoryTypes
    <3>2. job[x].keep \in Keeps /\ job[x].kept + 1 # 0
      BY <1>1, <2>2 DEF JobSound
    <3>3. JobSound(more)
      BY <1>1, <2>2, <2>3a, <3>1, <3>2, Zenon DEF JobSound, Pruning
    <3> QED
      BY <1>1, <2>4, <2>7, <2>3a, <3>3, Becomes, Quiet, Zenon DEF Window
  <2> QED
    BY <2>6, <2>7, Zenon
<1> QED
  BY <1>2, <1>3, Zenon

(* The records the other steps of a pass leave behind. *)
Moving(j, pc) == [j EXCEPT !.pc = pc]
Longer(j, s, n) == [j EXCEPT !.candidates = Append(@, s), !.next = n]
Shorter(j) == [j EXCEPT !.pc = "removed", !.candidates = SubSeq(@, 1, Len(@) - 1), !.pruned = @ + 1]

LEMMA MovingType ==
  ASSUME NEW j \in Jobs,
         NEW pc \in {"pointing", "pointed", "retaining", "bounded", "removing"}
  PROVE  /\ Moving(j, pc) \in Jobs /\ Moving(j, pc).pc = pc
         /\ Moving(j, pc).previous = j.previous /\ Moving(j, pc).snapshot = j.snapshot
         /\ Moving(j, pc).boundary = j.boundary /\ Moving(j, pc).candidates = j.candidates
<1>1. Moving(j, pc) \in Jobs
  BY Zenon DEF Moving, Jobs
<1>2. /\ Moving(j, pc).pc = pc
      /\ Moving(j, pc).previous = j.previous /\ Moving(j, pc).snapshot = j.snapshot
      /\ Moving(j, pc).boundary = j.boundary /\ Moving(j, pc).candidates = j.candidates
  BY Zenon DEF Moving, Jobs
<1> QED
  BY <1>1, <1>2, Zenon

LEMMA LongerType ==
  ASSUME NEW j \in Jobs, NEW s \in Snapshots, NEW n \in 0..MaxSnapshots
  PROVE  /\ Longer(j, s, n) \in Jobs /\ Longer(j, s, n).pc = j.pc
         /\ Longer(j, s, n).boundary = j.boundary /\ Longer(j, s, n).next = n
         /\ Longer(j, s, n).candidates = Append(j.candidates, s)
<1> DEFINE c == Append(j.candidates, s)
           k == [j EXCEPT !.candidates = c, !.next = n]
<1>1. c \in Seq(Snapshots)
  BY DEF Jobs
<1> HIDE DEF c
<1>2. k \in Jobs
  BY <1>1, Zenon DEF Jobs
<1>3. k.pc = j.pc /\ k.boundary = j.boundary /\ k.next = n /\ k.candidates = c
  BY Zenon DEF Jobs
<1>4. k = Longer(j, s, n)
  BY Zenon DEF Longer, c
<1> QED
  BY <1>2, <1>3, <1>4, Zenon DEF c

LEMMA ShorterType ==
  ASSUME NEW j \in Jobs, j.candidates # <<>>, j.pruned < Budget
  PROVE  /\ Shorter(j) \in Jobs /\ Shorter(j).pc = "removed"
         /\ Shorter(j).boundary = j.boundary
         /\ Shorter(j).candidates \in Seq(Snapshots)
         /\ Len(Shorter(j).candidates) = Len(j.candidates) - 1
         /\ \A i \in 1..Len(Shorter(j).candidates) : Shorter(j).candidates[i] = j.candidates[i]
         /\ Len(j.candidates) \in Nat \ {0}
<1> DEFINE c == SubSeq(j.candidates, 1, Len(j.candidates) - 1)
           m == j.pruned + 1
           k == [j EXCEPT !.pc = "removed", !.candidates = c, !.pruned = m]
<1>1. j.candidates \in Seq(Snapshots) /\ j.pruned \in 0..Budget
  BY Zenon DEF Jobs
<1>2. Len(j.candidates) \in Nat \ {0}
  BY <1>1
<1>3. /\ c \in Seq(Snapshots) /\ Len(c) = Len(j.candidates) - 1
      /\ \A i \in 1..Len(c) : c[i] = j.candidates[i]
  BY <1>1, <1>2
<1>4. m \in 0..Budget
  BY <1>1, RegistryAssumption
<1> HIDE DEF c, m
<1>5. k \in Jobs
  BY <1>3, <1>4, Zenon DEF Jobs
<1>6. k.pc = "removed" /\ k.boundary = j.boundary /\ k.candidates = c
  BY Zenon DEF Jobs
<1>7. k = Shorter(j)
  BY Zenon DEF Shorter, c, m
<1> QED
  BY <1>2, <1>3, <1>5, <1>6, <1>7, Zenon

LEMMA CandidatesInv ==
  ASSUME ReadableInv, NEW x \in Writers, Candidates(x)
  PROVE  ReadableInv'
<1> DEFINE s == job[x].next
           found == Longer(job[x], s, Previous(s))
           ready == Moving(job[x], "retaining")
<1>1. job[x] \in Jobs /\ JobSound(job[x]) /\ job[x].pc = "candidates"
  BY JobType, Zenon DEF Candidates
<1>2. CASE Recorded(s)
  <2>1. /\ s \in Snapshots /\ Previous(s) \in 0..MaxSnapshots /\ Previous(s) < s
        /\ job[x].candidates \in Seq(Snapshots)
    BY <1>1, <1>2, DirectoryTypes, Zenon DEF Recorded, ReadableInv, RegistryTypeOK, Directory, Jobs
  <2>2. /\ found \in Jobs /\ found.pc = "candidates" /\ found.boundary = job[x].boundary
        /\ found.next = Previous(s) /\ found.candidates = Append(job[x].candidates, s)
    <3> HIDE DEF s
    <3> QED BY <1>1, <2>1, LongerType, Zenon
  <2>3. Become(x, found)
    BY <1>2, Zenon DEF Candidates, Longer
  <2> HIDE DEF found, s
  <2>4. /\ job[x].boundary \in 0..MaxSnapshots /\ s < job[x].boundary
        /\ job[x].boundary <= view.CURRENT /\ job[x].boundary <= disk.CURRENT
        /\ \A i \in 1..Len(job[x].candidates) : job[x].candidates[i] < job[x].boundary
    BY <1>1, Zenon DEF JobSound, Pruning, Jobs, s
  <2>5. \A i \in 1..Len(found.candidates) : found.candidates[i] < found.boundary
    BY <2>1, <2>2, <2>4
  <2>6. found.next < found.boundary
    BY <2>1, <2>2, <2>4 DEF Snapshots
  <2>7. JobSound(found)
    BY <2>2, <2>4, <2>5, <2>6, Zenon DEF JobSound, Pruning
  <2> QED
    BY <1>1, <2>2, <2>3, <2>7, Becomes, Quiet, Zenon DEF Candidates
<1>3. CASE Become(x, ready)
  <2>1. /\ ready \in Jobs /\ ready.pc = "retaining" /\ ready.boundary = job[x].boundary
        /\ ready.candidates = job[x].candidates
    BY <1>1, MovingType, Zenon
  <2> HIDE DEF ready
  <2>2. JobSound(ready)
    BY <1>1, <2>1, Zenon DEF JobSound, Pruning
  <2> QED
    BY <1>1, <1>3, <2>1, <2>2, Becomes, Quiet, Zenon DEF Candidates
<1>4. CASE Finish(x)
  BY <1>1, <1>4, Finishes, Zenon DEF Candidates, ReadableInv, RegistryTypeOK
<1>5. Recorded(s) \/ Become(x, ready) \/ Finish(x)
  BY Zenon DEF Candidates, Moving
<1> QED
  BY <1>2, <1>3, <1>4, <1>5, Zenon

LEMMA WriteRetentionInv ==
  ASSUME ReadableInv, NEW x \in Writers, WriteRetention(x)
  PROVE  ReadableInv'
<1>1. job[x] \in Jobs /\ JobSound(job[x]) /\ job[x].pc = "retaining"
  BY JobType, Zenon DEF WriteRetention
<1>2. PICK j \in Jobs : /\ j.pc \in {"removing", "bounded"} /\ j.boundary = job[x].boundary
                        /\ j.candidates = job[x].candidates /\ Become(x, j)
  <2>1. \E pc \in {"removing", "bounded"} : Become(x, Moving(job[x], pc))
    BY Zenon DEF WriteRetention, Moving
  <2> QED
    BY <1>1, <2>1, MovingType
<1>4. /\ view' \in Directory /\ view'.boundary = job[x].boundary
      /\ view'.CURRENT = view.CURRENT /\ view'.dirs = view.dirs
  <2>1. view \in Directory /\ job[x].boundary \in 0..MaxSnapshots
    BY <1>1, Zenon DEF ReadableInv, RegistryTypeOK, Jobs
  <2> QED
    BY <2>1, Zenon DEF WriteRetention, Directory
<1>5. UNCHANGED <<published, disk, faults>>
  BY Zenon DEF WriteRetention
<1>6. (/\ published \in Seq(Published) /\ Len(published) <= MaxSnapshots
       /\ \A s \in DOMAIN published : Previous(s) < s
       /\ view \in Directory /\ disk \in Directory)'
  BY <1>4, <1>5, Zenon DEF ReadableInv, RegistryTypeOK, Previous
<1>7. CurrentReadable'
  BY <1>4, <1>5, Zenon DEF ReadableInv, CurrentReadable
<1>8. job[x].boundary <= view.CURRENT /\ job[x].boundary <= disk.CURRENT
  BY <1>1, Zenon DEF JobSound, Pruning
<1>9. PointersSound'
  BY <1>4, <1>5, <1>8, Zenon DEF ReadableInv, PointersSound, Previous
<1>10. \A i \in 1..Len(j.candidates) : j.candidates[i] < j.boundary
  BY <1>1, <1>2, Zenon DEF JobSound, Pruning
<1>11. JobSound(j)'
  BY <1>2, <1>4, <1>5, <1>8, <1>10, Zenon DEF JobSound, Pruning
<1>12. Alone(x, j)
  BY <1>1, <1>2, <1>5, Becomes, Zenon
<1> QED
  BY <1>6, <1>7, <1>9, <1>11, <1>12, Moved, Zenon

LEMMA RenameAwayInv ==
  ASSUME ReadableInv, NEW x \in Writers, RenameAway(x)
  PROVE  ReadableInv'
<1>1. job[x] \in Jobs /\ JobSound(job[x]) /\ job[x].pc = "removing"
  BY JobType, Zenon DEF RenameAway
<1>2. CASE job[x].candidates # <<>> /\ job[x].pruned < Budget
  <2> DEFINE c == job[x].candidates
             s == c[Len(c)]
  <2>1. /\ Become(x, Shorter(job[x])) /\ view' = [view EXCEPT !.dirs = @ \ {s}]
        /\ UNCHANGED <<published, disk, faults>>
    BY <1>1, <1>2 DEF RenameAway, OldestFirst, Shorter, Jobs
  <2>2. PICK j \in Jobs : /\ j = Shorter(job[x]) /\ Become(x, j)
    BY <1>1, <1>2, <2>1, ShorterType, Zenon
  <2>3. /\ j.pc = "removed" /\ j.boundary = job[x].boundary
        /\ j.candidates \in Seq(Snapshots) /\ Len(j.candidates) = Len(c) - 1
        /\ \A i \in 1..Len(j.candidates) : j.candidates[i] = c[i]
        /\ Len(c) \in Nat \ {0}
    BY <1>1, <1>2, <2>2, ShorterType, Zenon
  <2>4. /\ \A i \in 1..Len(c) : c[i] < job[x].boundary
        /\ job[x].boundary <= view.CURRENT /\ job[x].boundary <= disk.CURRENT
        /\ job[x].boundary \in 0..MaxSnapshots /\ c \in Seq(Snapshots)
    BY <1>1, Zenon DEF JobSound, Pruning, Jobs
  <2>5. s \in Snapshots /\ s < job[x].boundary
    BY <2>3, <2>4
  <2> HIDE DEF c, s
  <2>6. s # view.CURRENT /\ s # disk.CURRENT
    BY <2>4, <2>5, DirectoryTypes DEF Snapshots
  <2>7. /\ view' \in Directory /\ view'.CURRENT = view.CURRENT
        /\ view'.boundary = view.boundary /\ view'.dirs = view.dirs \ {s}
    BY <2>1, Zenon DEF ReadableInv, RegistryTypeOK, Directory
  <2>8. (/\ published \in Seq(Published) /\ Len(published) <= MaxSnapshots
         /\ \A t \in DOMAIN published : Previous(t) < t
         /\ view \in Directory /\ disk \in Directory)'
    BY <2>1, <2>7, Zenon DEF ReadableInv, RegistryTypeOK, Previous
  <2>9. CurrentReadable'
    BY <2>1, <2>6, <2>7, Zenon DEF ReadableInv, CurrentReadable
  <2>10. PointersSound'
    BY <2>1, <2>7, Zenon DEF ReadableInv, PointersSound, Previous
  <2>11. \A i \in 1..Len(j.candidates) : j.candidates[i] < j.boundary
    BY <2>3, <2>4
  <2>12. JobSound(j)'
    BY <2>1, <2>3, <2>4, <2>7, <2>11, Zenon DEF JobSound, Pruning
  <2>13. Alone(x, j)
    BY <1>1, <2>1, <2>2, Becomes, Zenon
  <2> QED
    BY <2>8, <2>9, <2>10, <2>12, <2>13, Moved, Zenon
<1>3. CASE Finish(x) /\ UNCHANGED view
  BY <1>1, <1>3, Finishes, Zenon DEF RenameAway, ReadableInv, RegistryTypeOK
<1> QED
  BY <1>1, <1>2, <1>3, Zenon DEF RenameAway, Jobs

LEMMA PointInv ==
  ASSUME ReadableInv, NEW x \in Writers, Point(x)
  PROVE  ReadableInv'
<1>1. job[x] \in Jobs /\ JobSound(job[x]) /\ job[x].pc = "pointing"
  BY JobType, Zenon DEF Point
<1>2. PICK j \in Jobs : j.pc = "pointed" /\ Become(x, j)
  <2>1. Become(x, Moving(job[x], "pointed"))
    BY Zenon DEF Point, Moving
  <2> QED
    BY <1>1, <2>1, MovingType, Zenon
<1>3. UNCHANGED <<published, disk, faults>>
  BY Zenon DEF Point
<1> DEFINE s == job[x].snapshot
<1>4. /\ s \in view.dirs /\ s \in disk.dirs /\ Previous(s) = view.CURRENT
      /\ disk.CURRENT = view.CURRENT /\ s \in 0..MaxSnapshots
  BY <1>1, Zenon DEF JobSound, Jobs
<1>5. /\ view' \in Directory /\ view'.CURRENT = s
      /\ view'.boundary = view.boundary /\ view'.dirs = view.dirs
  BY <1>4, Zenon DEF Point, ReadableInv, RegistryTypeOK, Directory
<1> HIDE DEF s
<1>6. s \in 1..Len(published) /\ view.CURRENT < s
  BY <1>4, DirectoryTypes, Zenon DEF ReadableInv, PointersSound
<1>7. (/\ published \in Seq(Published) /\ Len(published) <= MaxSnapshots
       /\ \A t \in DOMAIN published : Previous(t) < t
       /\ view \in Directory /\ disk \in Directory)'
  BY <1>3, <1>5, Zenon DEF ReadableInv, RegistryTypeOK, Previous
<1>8. CurrentReadable'
  BY <1>3, <1>4, <1>5, Zenon DEF ReadableInv, CurrentReadable
<1>9. PointersSound'
  <2>1. Len(published) \in Nat
    BY DEF ReadableInv, RegistryTypeOK
  <2> QED
    BY <1>3, <1>4, <1>5, <1>6, <2>1, DirectoryTypes, SMTT(30)
    DEF ReadableInv, PointersSound, Previous
<1>10. JobSound(j)'
  BY <1>2, Zenon DEF JobSound, Pruning
<1>11. Alone(x, j)
  BY <1>1, <1>2, <1>3, Becomes, Zenon
<1> QED
  BY <1>7, <1>8, <1>9, <1>10, <1>11, Moved, Zenon

LEMMA InstallInv ==
  ASSUME ReadableInv, NEW x \in Writers, Install(x)
  PROVE  ReadableInv'
<1>0. PICK s \in Snapshots : s = Len(published) + 1
  BY Zenon DEF Install
<1> DEFINE r == [previous |-> job[x].previous, legacy |-> FALSE]
           k == [job[x] EXCEPT !.pc = "installed", !.snapshot = s]
<1>1. job[x] \in Jobs /\ JobSound(job[x]) /\ job[x].pc = "chained"
  BY JobType, Zenon DEF Install
<1>2. job[x].previous = view.CURRENT
  BY <1>1, Zenon DEF JobSound
<1>3. r \in Published /\ r.previous = view.CURRENT
  BY <1>2, DirectoryTypes, Zenon DEF Published
<1>4. k \in Jobs /\ k.pc = "installed" /\ k.snapshot = s /\ k.previous = view.CURRENT
  <2>1. s \in 0..MaxSnapshots
    BY RegistryAssumption DEF Snapshots
  <2>2. k \in Jobs
    BY <1>1, <2>1, Zenon DEF Jobs
  <2>3. k.pc = "installed" /\ k.snapshot = s /\ k.previous = job[x].previous
    BY <1>1, Zenon DEF Jobs
  <2> QED
    BY <1>2, <2>2, <2>3, Zenon
<1>5. Become(x, k) /\ published' = Append(published, r) /\ UNCHANGED <<disk, faults>>
  BY <1>0, Zenon DEF Install
<1>6. view' = [view EXCEPT !.dirs = @ \cup {s}]
  BY <1>0, Zenon DEF Install
<1>7. view \in Directory /\ published \in Seq(Published) /\ Len(published) \in Nat
  BY DEF ReadableInv, RegistryTypeOK
<1>8. PICK j \in Jobs : /\ j.pc = "installed" /\ j.snapshot = s /\ j.previous = view.CURRENT
                        /\ Become(x, j)
  BY <1>4, <1>5, Zenon
<1> HIDE DEF k, r
<1>9. /\ view' \in Directory /\ view'.CURRENT = view.CURRENT
      /\ view'.boundary = view.boundary /\ view'.dirs = view.dirs \cup {s}
  BY <1>6, <1>7, Zenon DEF Directory
<1>10. /\ published' \in Seq(Published) /\ Len(published') = s
       /\ published'[s] = r /\ \A t \in 1..Len(published) : published'[t] = published[t]
  BY <1>0, <1>3, <1>5, <1>7
<1>11. /\ \A t \in 1..Len(published) : Previous(t)' = Previous(t)
       /\ Previous(s)' = view.CURRENT
  BY <1>3, <1>10, Zenon DEF Previous
<1>12. view.CURRENT \in Nat /\ s \in Nat /\ view.CURRENT < s /\ s = Len(published) + 1
  BY <1>0, <1>7, DirectoryTypes DEF ReadableInv, PointersSound, Snapshots
<1>13. (/\ published \in Seq(Published) /\ Len(published) <= MaxSnapshots
        /\ \A t \in DOMAIN published : Previous(t) < t
        /\ view \in Directory /\ disk \in Directory)'
  <2>1. ASSUME NEW t \in 1..s PROVE Previous(t)' < t
    <3>1. CASE t = s
      BY <1>11, <1>12, <3>1, Zenon
    <3>2. CASE t # s
      <4>1. t \in 1..Len(published) /\ t \in DOMAIN published
        BY <1>7, <1>12, <3>2
      <4> QED
        BY <1>11, <4>1, Zenon DEF ReadableInv, RegistryTypeOK
    <3> QED
      BY <3>1, <3>2, Zenon
  <2>2. s <= MaxSnapshots /\ disk' \in Directory
    BY <1>5 DEF Snapshots, ReadableInv, RegistryTypeOK
  <2>3. DOMAIN published' = 1..s
    BY <1>10
  <2> QED
    BY <1>9, <1>10, <2>1, <2>2, <2>3, Zenon
<1>14. CurrentReadable'
  BY <1>5, <1>9, Zenon DEF ReadableInv, CurrentReadable
<1>15. PointersSound'
  <2>1. /\ (view.dirs \subseteq 1..Len(published) /\ disk.dirs \subseteq 1..Len(published))'
        /\ (view.CURRENT <= Len(published))'
    BY <1>5, <1>7, <1>9, <1>10, <1>12 DEF ReadableInv, PointersSound
  <2>2. view.CURRENT # 0 => view.CURRENT \in 1..Len(published)
    BY <1>7, <1>12 DEF ReadableInv, PointersSound
  <2>3. (\/ disk.CURRENT = view.CURRENT
         \/ view.CURRENT # 0 /\ disk.CURRENT = Previous(view.CURRENT))'
    BY <1>5, <1>9, <1>11, <2>2, Zenon DEF ReadableInv, PointersSound, Previous
  <2> QED
    BY <1>5, <1>9, <2>1, <2>3, Zenon DEF ReadableInv, PointersSound
<1>16. JobSound(j)'
  BY <1>8, <1>9, <1>11, Zenon DEF JobSound, Pruning, Previous
<1>17. Alone(x, j)
  BY <1>1, <1>5, <1>8, Becomes, Zenon
<1> QED
  BY <1>13, <1>14, <1>15, <1>16, <1>17, Moved, Zenon

LEMMA SyncInv ==
  ASSUME ReadableInv, NEW x \in Writers, Sync(x)
  PROVE  ReadableInv'
<1>1. job[x] \in Jobs /\ JobSound(job[x])
  BY JobType, Zenon
<1>2. UNCHANGED <<published, view, faults>> /\ disk' = view /\ job[x].pc # "idle"
  BY Zenon DEF Sync
<1>3. (/\ published \in Seq(Published) /\ Len(published) <= MaxSnapshots
       /\ \A t \in DOMAIN published : Previous(t) < t
       /\ view \in Directory /\ disk \in Directory)'
  BY <1>2, Zenon DEF ReadableInv, RegistryTypeOK, Previous
<1>4. CurrentReadable' /\ PointersSound'
  BY <1>2, Zenon DEF ReadableInv, CurrentReadable, PointersSound
<1>5. PICK j \in Jobs : Alone(x, j) /\ JobSound(j)'
  <2>1. CASE job[x].pc = "installed"
    <3> DEFINE k == Moving(job[x], "pointing")
    <3>1. /\ k \in Jobs /\ k.pc = "pointing" /\ k.previous = job[x].previous
          /\ k.snapshot = job[x].snapshot /\ Become(x, k)
      BY <1>1, <2>1, MovingType, Zenon DEF Sync, Moving
    <3>2. /\ job[x].previous = view.CURRENT /\ job[x].snapshot \in view.dirs
          /\ Previous(job[x].snapshot) = view.CURRENT
      BY <1>1, <2>1, Zenon DEF JobSound
    <3> HIDE DEF k
    <3>3. PICK j \in Jobs : /\ j.pc = "pointing" /\ j.previous = view.CURRENT
                            /\ j.snapshot \in view.dirs /\ Previous(j.snapshot) = view.CURRENT
                            /\ Become(x, j)
      BY <3>1, <3>2, Zenon
    <3>4. JobSound(j)'
      BY <1>2, <3>3, Zenon DEF JobSound, Pruning, Previous
    <3> QED
      BY <1>2, <3>3, <3>4, Becomes, Zenon
  <2>2. CASE job[x].pc = "pointed"
    <3>1. Alone(x, NoJob)
      BY <1>2, <2>2, OthersIdle, NoJobType, Zenon
      DEF Sync, Finish, Alone, ReadableInv, RegistryTypeOK
    <3>2. JobSound(NoJob)'
      BY NoJobType, Zenon DEF JobSound, Pruning, NoJob
    <3> QED
      BY <3>1, <3>2, NoJobType, Zenon
  <2>3. CASE job[x].pc \in {"bounded", "removed"}
    <3> DEFINE k == Moving(job[x], "removing")
    <3>1. /\ k \in Jobs /\ k.pc = "removing" /\ k.boundary = job[x].boundary
          /\ k.candidates = job[x].candidates /\ Become(x, k)
      BY <1>1, <2>3, MovingType, Zenon DEF Sync, Moving
    <3>2. /\ job[x].boundary <= view.CURRENT
          /\ \A i \in 1..Len(job[x].candidates) : job[x].candidates[i] < job[x].boundary
      BY <1>1, <2>3, Zenon DEF JobSound, Pruning
    <3> HIDE DEF k
    <3>3. PICK j \in Jobs : /\ j.pc = "removing" /\ j.boundary <= view.CURRENT
                            /\ \A i \in 1..Len(j.candidates) : j.candidates[i] < j.boundary
                            /\ Become(x, j)
      BY <3>1, <3>2, Zenon
    <3>4. JobSound(j)'
      BY <1>2, <3>3, Zenon DEF JobSound, Pruning
    <3> QED
      BY <1>2, <3>3, <3>4, Becomes, Zenon
  <2> QED
    BY <2>1, <2>2, <2>3, Zenon DEF Sync
<1> QED
  BY <1>3, <1>4, <1>5, Moved, Zenon

LEMMA KillInv ==
  ASSUME ReadableInv, NEW x \in Writers, Kill(x)
  PROVE  ReadableInv'
<1>1. faults' \in 0..MaxFaults
  BY RegistryAssumption DEF Kill, ReadableInv, RegistryTypeOK
<1> QED
  BY <1>1, Finishes, Zenon DEF Kill

LEMMA PowerLossInv ==
  ASSUME ReadableInv, PowerLoss
  PROVE  ReadableInv'
<1>1. PICK c \in {view.CURRENT, disk.CURRENT}, b \in {view.boundary, disk.boundary},
           kept \in SUBSET ((view.dirs \cup disk.dirs) \ (view.dirs \cap disk.dirs)) :
        view' = [CURRENT |-> c, boundary |-> b, dirs |-> (view.dirs \cap disk.dirs) \cup kept]
  BY Zenon DEF PowerLoss
<1>2. view \in Directory /\ disk \in Directory
  BY Zenon DEF ReadableInv, RegistryTypeOK
<1>3. /\ view' \in Directory /\ view'.CURRENT = c /\ view'.boundary = b
      /\ view'.dirs = (view.dirs \cap disk.dirs) \cup kept
  BY <1>1, <1>2, Zenon DEF Directory
<1>4. /\ disk' = view' /\ UNCHANGED published /\ lock' = None
      /\ job' = [x \in Writers |-> NoJob]
  BY Zenon DEF PowerLoss
<1>5. faults' \in 0..MaxFaults
  BY RegistryAssumption DEF PowerLoss, ReadableInv, RegistryTypeOK
<1>6. RegistryTypeOK'
  BY <1>3, <1>4, <1>5, NoJobType, Zenon DEF ReadableInv, RegistryTypeOK, Previous
<1>7. CurrentReadable'
  BY <1>1, <1>3, <1>4, Zenon DEF ReadableInv, CurrentReadable
<1>8. PointersSound'
  <2>1. c <= Len(published) /\ b <= c
    <3>1. disk.CURRENT <= Len(published)
      <4>1. Len(published) \in Nat
        BY DEF ReadableInv, RegistryTypeOK
      <4> QED
        BY <4>1, DirectoryTypes DEF ReadableInv, CurrentReadable, PointersSound
    <3> QED
      BY <1>1, <3>1, Zenon DEF ReadableInv, PointersSound
  <2> QED
    BY <1>1, <1>3, <1>4, <2>1, Zenon DEF ReadableInv, PointersSound
<1>9. ASSUME NEW x \in Writers PROVE JobSound(job[x])'
  BY <1>4, NoJobType, Zenon DEF JobSound, Pruning
<1> QED
  BY <1>6, <1>7, <1>8, <1>9, Zenon DEF ReadableInv

LEMMA UntouchedInv ==
  ASSUME ReadableInv, UNCHANGED <<published, view, disk, lock, job, faults>>
  PROVE  ReadableInv'
<1>1. RegistryTypeOK'
  BY Zenon DEF ReadableInv, RegistryTypeOK, Previous
<1>2. CurrentReadable' /\ PointersSound'
  BY Zenon DEF ReadableInv, CurrentReadable, PointersSound, Previous
<1>3. ASSUME NEW x \in Writers PROVE JobSound(job[x])'
  BY Zenon DEF ReadableInv, JobSound, Previous
<1> QED
  BY <1>1, <1>2, <1>3, Zenon DEF ReadableInv

-----------------------------------------------------------------------------
LEMMA NextInv == ReadableInv /\ [RegistryNext]_vars => ReadableInv'
<1> SUFFICES ASSUME ReadableInv, [RegistryNext]_vars PROVE ReadableInv'
  BY Zenon
<1>1. CASE RetentionPass
  BY <1>1, RetainInv, Zenon DEF RetentionPass
<1>2. ASSUME NEW x \in Writers, Prepare(x) \/ WriterStep(x) \/ Kill(x) PROVE ReadableInv'
  BY <1>2, PrepareInv, PredecessorInv, InstallInv, PointInv, SyncInv, WindowInv,
     CandidatesInv, WriteRetentionInv, RenameAwayInv, KillInv, Zenon DEF WriterStep
<1>3. CASE PowerLoss
  BY <1>3, PowerLossInv, Zenon
<1>4. ASSUME NEW r \in Readers, NEW w, Step(r, w) PROVE ReadableInv'
  BY <1>4, UntouchedInv, Zenon DEF Step
<1>5. CASE \E r \in Readers :
       \/ \E before \in 0..Len(published), limit \in Limits : HistoryPage(r, before, limit)
       \/ ManifestByHash(r) \/ ReadTable(r) \/ ReadCurrent(r) \/ PinHead(r)
       \/ ReadManifest(r) \/ ReadRecord(r) \/ CrossedBoundary(r)
  <2>1. PICK r \in Readers : \E w : Step(r, w)
    BY <1>5, Zenon DEF HistoryPage, ManifestByHash, ReadTable, ReadCurrent, PinHead, ReadManifest,
                ReadRecord, CrossedBoundary
  <2> QED
    BY <1>4, <2>1, Zenon
<1>6. CASE UNCHANGED vars
  BY <1>6, UntouchedInv, Zenon DEF vars
<1> QED
  BY <1>1, <1>2, <1>3, <1>5, <1>6, Zenon DEF RegistryNext

(* CURRENT, as processes see it and as a power loss would leave it, always *)
(* names a directory that is there in both (PreparedImport::publish and    *)
(* prune_within), for any number of writers, any keep_snapshots of at      *)
(* least two, and writers killed between a rename and its sync.            *)
THEOREM CurrentIsReadable == RegistrySpec => []CurrentReadable
<1>1. RegistrySpec => []ReadableInv
  BY InitInv, NextInv, PTL DEF RegistrySpec
<1>2. ReadableInv => CurrentReadable
  BY Zenon DEF ReadableInv
<1> QED
  BY <1>1, <1>2, PTL

-----------------------------------------------------------------------------
(* The records of a sequence of publications.  `Least` says what the chain *)
(* below a snapshot is without recursion: what every set that holds the    *)
(* snapshot and, with a snapshot, its predecessor, must hold.              *)
Chained(p) == p \in Seq(Published) /\ \A s \in 1..Len(p) : p[s].previous < s
Follows(p, C) == \A s \in C \ {0} : p[s].previous \in C
Least(p, h) ==
  {s \in 1..Len(p) : \A C \in SUBSET (0..Len(p)) : h \in C /\ Follows(p, C) => s \in C}

(* A set of naturals has a least element. *)
LEMMA LeastNatural ==
  ASSUME NEW T \in SUBSET Nat, T # {}
  PROVE  \E s \in T : \A t \in T : ~(t < s)
<1> DEFINE R == OpToRel(<, Nat)
<1>1. IsWellFoundedOn(R, Nat)
  BY NatLessThanWellFounded, Zenon
<1>2. ASSUME NEW s \in Nat, NEW t \in Nat, t < s PROVE <<t, s>> \in R
  BY <1>2, Zenon DEF OpToRel
<1> HIDE DEF R
<1>3. PICK s \in T : \A t \in T : ~(<<t, s>> \in R)
  BY <1>1, WFMin, Zenon
<1>4. ASSUME NEW t \in T PROVE ~(t < s)
  BY <1>2, <1>3, Zenon
<1> QED
  BY <1>4, Zenon

LEMMA PreviousType ==
  ASSUME NEW p, Chained(p), NEW s \in 1..Len(p)
  PROVE  p[s].previous \in 0..(s - 1) /\ p[s].previous \in 0..Len(p) /\ Len(p) \in Nat
<1>1. p[s] \in Published /\ Len(p) \in Nat
  BY DEF Chained
<1> QED
  BY <1>1, RegistryAssumption DEF Chained, Published

LEMMA LeastOfNone ==
  ASSUME NEW p, Chained(p)
  PROVE  Least(p, 0) = {}
<1>1. {0} \in SUBSET (0..Len(p)) /\ Follows(p, {0})
  BY DEF Chained, Follows
<1> QED
  BY <1>1 DEF Least

LEMMA LeastStep ==
  ASSUME NEW p, Chained(p), NEW h \in 1..Len(p)
  PROVE  Least(p, h) = {h} \cup Least(p, p[h].previous)
<1> DEFINE n == p[h].previous
           D == {h} \cup Least(p, n) \cup {0}
<1>1. ASSUME NEW s \in Least(p, n) PROVE s \in Least(p, h)
  <2>1. ASSUME NEW C \in SUBSET (0..Len(p)), h \in C, Follows(p, C) PROVE s \in C
    <3>1. n \in C
      BY <2>1 DEF Follows
    <3> QED
      BY <2>1, <3>1, Zenon DEF Least
  <2> QED
    BY <2>1, Zenon DEF Least
<1>2. h \in Least(p, h)
  BY Zenon DEF Least
<1>3. n \in 0..Len(p) /\ (n # 0 => n \in Least(p, n))
  BY PreviousType DEF Least
<1>4. ASSUME NEW s \in Least(p, n) PROVE p[s].previous \in D
  <2>1. s \in 1..Len(p) /\ p[s].previous \in 0..Len(p)
    BY PreviousType, Zenon DEF Least
  <2>2. ASSUME NEW C \in SUBSET (0..Len(p)), n \in C, Follows(p, C)
        PROVE  p[s].previous \in C
    BY <2>1, <2>2 DEF Least, Follows
  <2>3. p[s].previous # 0 => p[s].previous \in Least(p, n)
    BY <2>1, <2>2 DEF Least
  <2> QED
    BY <2>3, Zenon
<1>5. D \in SUBSET (0..Len(p)) /\ Follows(p, D)
  <2>1. D \in SUBSET (0..Len(p))
    BY DEF Least, Chained
  <2>2. ASSUME NEW s \in D, s # 0 PROVE p[s].previous \in D
    BY <1>3, <1>4, <2>2, Zenon
  <2> QED
    BY <2>1, <2>2, Zenon DEF Follows
<1>6. ASSUME NEW s \in Least(p, h) PROVE s \in {h} \cup Least(p, n)
  <2>1. s \in D /\ s # 0
    BY <1>5 DEF Least
  <2> QED
    BY <2>1, Zenon
<1> QED
  BY <1>1, <1>2, <1>6, Zenon

(* The recursive definition of the chain has a solution, `Least`, and it   *)
(* has no other: two would differ first at some least snapshot.            *)
LEMMA ChainIsLeast ==
  ASSUME NEW p, Chained(p), NEW h \in 0..Len(p)
  PROVE  ChainIn(p, h) = Least(p, h)
<1> DEFINE Solves(f) ==
             f = [s \in 0..Len(p) |-> IF s = 0 THEN {} ELSE {s} \cup f[p[s].previous]]
           g == CHOOSE f : Solves(f)
           l == [s \in 0..Len(p) |-> Least(p, s)]
<1>1. ChainIn(p, h) = g[h]
  BY Zenon DEF ChainIn
<1>2. Solves(l)
  <2>1. ASSUME NEW s \in 0..Len(p)
        PROVE  Least(p, s) = IF s = 0 THEN {} ELSE {s} \cup l[p[s].previous]
    <3>1. CASE s = 0
      BY <3>1, LeastOfNone, Zenon
    <3>2. CASE s # 0
      <4>1. s \in 1..Len(p)
        BY <3>2 DEF Chained
      <4>2. p[s].previous \in 0..Len(p)
        BY <4>1, PreviousType, Zenon
      <4> QED
        BY <3>2, <4>1, <4>2, LeastStep, Zenon
    <3> QED
      BY <3>1, <3>2, Zenon
  <2> QED
    BY <2>1, Zenon
<1>3. Solves(g)
  <2>1. \E f : Solves(f)
    BY <1>2, Zenon
  <2> HIDE DEF Solves
  <2> QED
    BY <2>1, Zenon
<1> HIDE DEF g
<1> DEFINE T == {s \in 0..Len(p) : g[s] # Least(p, s)}
<1>4. T = {}
  <2> SUFFICES ASSUME T # {} PROVE FALSE
    BY Zenon
  <2>1. T \subseteq Nat
    BY DEF Chained
  <2> HIDE DEF T
  <2>2. PICK s \in T : \A t \in T : ~(t < s)
    BY <2>1, LeastNatural, Zenon
  <2> USE DEF T
  <2>4. s \in 0..Len(p) /\ g[s] # Least(p, s)
    BY Zenon
  <2>5. g[s] = IF s = 0 THEN {} ELSE {s} \cup g[p[s].previous]
    BY <1>3, <2>4, Zenon
  <2>6. CASE s = 0
    BY <2>4, <2>5, <2>6, LeastOfNone, Zenon
  <2>7. CASE s # 0
    <3>1. s \in 1..Len(p)
      BY <2>4, <2>7 DEF Chained
    <3>2. p[s].previous \in 0..Len(p) /\ p[s].previous < s
      BY <3>1, PreviousType, Zenon DEF Chained
    <3>3. g[p[s].previous] = Least(p, p[s].previous)
      BY <2>2, <3>2, Zenon
    <3> QED
      BY <2>4, <2>5, <2>7, <3>1, <3>3, LeastStep
  <2> QED
    BY <2>6, <2>7, Zenon
<1> QED
  BY <1>1, <1>4, Zenon


(* What the proofs below use of a chain: its recursion, that it is the     *)
(* least such set, that it descends and that it is linear.                 *)
LEMMA ChainStep ==
  ASSUME NEW p, Chained(p)
  PROVE  /\ ChainIn(p, 0) = {}
         /\ \A h \in 1..Len(p) : ChainIn(p, h) = {h} \cup ChainIn(p, p[h].previous)
<1>1. ChainIn(p, 0) = {}
  <2>1. 0 \in 0..Len(p)
    BY DEF Chained
  <2> QED
    BY <2>1, ChainIsLeast, LeastOfNone, Zenon
<1>2. ASSUME NEW h \in 1..Len(p)
      PROVE  ChainIn(p, h) = {h} \cup ChainIn(p, p[h].previous)
  <2>1. h \in 0..Len(p) /\ p[h].previous \in 0..Len(p)
    BY PreviousType
  <2>2. ChainIn(p, h) = Least(p, h) /\ ChainIn(p, p[h].previous) = Least(p, p[h].previous)
    BY <2>1, ChainIsLeast, Zenon
  <2> QED
    BY <2>2, LeastStep
<1> QED
  BY <1>1, <1>2, Zenon

LEMMA ChainLeast ==
  ASSUME NEW p, Chained(p), NEW h \in 0..Len(p), NEW C \in SUBSET (0..Len(p)),
         h \in C, \A s \in C : s # 0 => p[s].previous \in C
  PROVE  ChainIn(p, h) \subseteq C
<1>1. Follows(p, C)
  BY Zenon DEF Follows
<1>2. ChainIn(p, h) = Least(p, h)
  BY ChainIsLeast, Zenon
<1> QED
  BY <1>1, <1>2, Zenon DEF Least

LEMMA ChainBelow ==
  ASSUME NEW p, Chained(p), NEW h \in 0..Len(p), NEW s \in ChainIn(p, h)
  PROVE  s \in 1..h /\ s \in 1..Len(p) /\ p[s].previous \in 0..(s - 1) /\ p[s].previous \in 0..Len(p)
<1>1. Len(p) \in Nat /\ h \in Nat
  BY DEF Chained
<1>2. ASSUME NEW t \in 0..h, t # 0 PROVE p[t].previous \in 0..h
  <2>1. t \in 1..Len(p)
    BY <1>1, <1>2
  <2>2. p[t].previous \in 0..(t - 1)
    BY <2>1, PreviousType, Zenon
  <2> QED
    BY <1>1, <2>2
<1>3. ChainIn(p, h) \subseteq 0..h
  <2>1. 0..h \in SUBSET (0..Len(p)) /\ h \in 0..h
    BY <1>1
  <2> QED
    BY <1>2, <2>1, ChainLeast, Zenon
<1>4. s \in 1..Len(p)
  BY ChainIsLeast, Zenon DEF Least
<1>5. p[s].previous \in 0..(s - 1) /\ p[s].previous \in 0..Len(p)
  BY <1>4, PreviousType, Zenon
<1> QED
  BY <1>1, <1>3, <1>4, <1>5

LEMMA ChainWithin ==
  ASSUME NEW p, Chained(p), NEW h \in 0..Len(p), NEW s \in ChainIn(p, h)
  PROVE  /\ s \in ChainIn(p, s) /\ ChainIn(p, s) \subseteq ChainIn(p, h)
         /\ p[s].previous # 0 => p[s].previous \in ChainIn(p, h)
<1> DEFINE C == ChainIn(p, h) \cup {0}
<1>1. s \in 1..Len(p) /\ s \in 0..Len(p)
  BY ChainBelow
<1>2. s \in ChainIn(p, s)
  BY <1>1, ChainStep
<1>3. ASSUME NEW t \in ChainIn(p, h) PROVE p[t].previous \in C
  <2>1. t \in 1..Len(p) /\ p[t].previous \in 0..Len(p)
    BY ChainBelow, Zenon
  <2>2. ASSUME NEW D \in SUBSET (0..Len(p)), h \in D, Follows(p, D) PROVE p[t].previous \in D
    <3>1. t \in D
      BY <2>2, ChainIsLeast DEF Least
    <3> QED
      BY <2>1, <2>2, <3>1 DEF Follows
  <2>3. p[t].previous # 0 => p[t].previous \in Least(p, h)
    BY <2>1, <2>2 DEF Least
  <2> QED
    BY <2>3, ChainIsLeast, Zenon
<1>4. C \in SUBSET (0..Len(p))
  <2>1. Len(p) \in Nat
    BY DEF Chained
  <2> QED
    BY <2>1, ChainBelow
<1>5. ChainIn(p, s) \subseteq C
  BY <1>1, <1>3, <1>4, ChainLeast, Zenon
<1>6. 0 \notin ChainIn(p, s)
  BY <1>1, ChainBelow
<1> QED
  BY <1>2, <1>3, <1>5, <1>6, Zenon

LEMMA ChainLinear ==
  ASSUME NEW p, Chained(p), NEW h \in 0..Len(p), NEW s \in ChainIn(p, h),
         NEW t \in ChainIn(p, h), t <= s
  PROVE  t \in ChainIn(p, s)
<1> DEFINE Above == {u \in 1..Len(p) : s \in ChainIn(p, u)}
           C == ChainIn(p, s) \cup Above \cup {0}
<1>1. s \in 1..Len(p) /\ t \in 1..Len(p) /\ s \in ChainIn(p, s) /\ Len(p) \in Nat
  BY ChainBelow, ChainWithin, SMTT(30) DEF Chained
<1>2. ASSUME NEW u \in Above PROVE p[u].previous \in C
  <2>1. CASE u = s
    <3>1. p[s].previous # 0 => p[s].previous \in ChainIn(p, s)
      BY <1>1, ChainWithin
    <3> QED
      BY <2>1, <3>1, Zenon
  <2>2. CASE u # s
    <3>1. s \in ChainIn(p, p[u].previous)
      BY <2>2, ChainStep
    <3>2. p[u].previous \in 0..Len(p)
      BY PreviousType, Zenon
    <3>3. p[u].previous # 0
      BY <3>1, ChainStep, Zenon
    <3> QED
      BY <1>1, <3>1, <3>2, <3>3
  <2> QED
    BY <2>1, <2>2, Zenon
<1>3. ASSUME NEW u \in ChainIn(p, s) PROVE p[u].previous \in C
  BY <1>1, ChainWithin
<1>4. C \in SUBSET (0..Len(p))
  <2>1. s \in 0..Len(p)
    BY <1>1
  <2>2. ASSUME NEW u \in ChainIn(p, s) PROVE u \in 0..Len(p)
    <3>1. u \in 1..Len(p)
      BY <2>1, ChainBelow, Zenon
    <3> QED
      BY <1>1, <3>1
  <2>3. Above \subseteq 0..Len(p) /\ 0 \in 0..Len(p)
    BY <1>1
  <2> HIDE DEF Above
  <2> QED
    BY <2>2, <2>3, Zenon
<1>5. h \in C
  BY <1>1
<1>6. t \in C
  <2>1. \A u \in C : u # 0 => p[u].previous \in C
    BY <1>2, <1>3, Zenon
  <2> HIDE DEF C
  <2>2. ChainIn(p, h) \subseteq C
    BY <1>4, <1>5, <2>1, ChainLeast, Zenon
  <2> QED
    BY <2>2, Zenon
<1>7. CASE s \in ChainIn(p, t)
  <2>1. s \in 1..t
    BY <1>1, <1>7, ChainBelow
  <2>2. s = t
    BY <1>1, <2>1
  <2> QED
    BY <1>1, <2>2, Zenon
<1> QED
  BY <1>1, <1>6, <1>7

LEMMA ChainNext ==
  ASSUME NEW p, Chained(p), NEW h \in 0..Len(p), NEW s \in ChainIn(p, h),
         NEW t \in ChainIn(p, h), t < s
  PROVE  p[s].previous # 0 /\ t <= p[s].previous /\ t \in ChainIn(p, p[s].previous)
<1>1. s \in 1..Len(p) /\ t \in 1..Len(p) /\ p[s].previous \in 0..Len(p)
  BY ChainBelow, Zenon
<1>2. t \in ChainIn(p, s) /\ t # s
  BY <1>1, ChainLinear
<1>3. t \in ChainIn(p, p[s].previous)
  BY <1>1, <1>2, ChainStep
<1>4. t \in 1..p[s].previous
  BY <1>1, <1>3, ChainBelow, Zenon
<1> QED
  BY <1>1, <1>3, <1>4

(* Later publications leave the chains of earlier ones alone. *)
LEMMA ChainKept ==
  ASSUME NEW p, Chained(p), NEW q, Chained(q), Len(p) <= Len(q),
         \A s \in 1..Len(p) : q[s] = p[s], NEW h \in 0..Len(p)
  PROVE  ChainIn(q, h) = ChainIn(p, h)
<1>1. Len(p) \in Nat /\ Len(q) \in Nat /\ h \in 0..Len(q)
  BY DEF Chained
<1>2. ChainIn(q, h) \subseteq ChainIn(p, h)
  <2> DEFINE C == ChainIn(p, h) \cup {0}
  <2>1. C \in SUBSET (0..Len(q)) /\ C \in SUBSET (0..Len(p))
    BY <1>1, ChainBelow
  <2>2. ASSUME NEW s \in C, s # 0 PROVE q[s].previous \in C
    <3>1. s \in 1..Len(p) /\ (p[s].previous # 0 => p[s].previous \in ChainIn(p, h))
      BY <2>2, ChainBelow, ChainWithin, Zenon
    <3> QED
      BY <3>1, Zenon
  <2>3. h \in C
    BY <1>1, ChainStep
  <2>4. ChainIn(q, h) \subseteq C
    BY <1>1, <2>1, <2>2, <2>3, ChainLeast, Zenon
  <2>5. 0 \notin ChainIn(q, h)
    BY <1>1, ChainBelow
  <2> QED
    BY <2>4, <2>5, Zenon
<1>3. ChainIn(p, h) \subseteq ChainIn(q, h)
  <2> DEFINE C == {s \in ChainIn(q, h) : s <= Len(p)} \cup {0}
  <2>1. C \in SUBSET (0..Len(p))
    BY <1>1, ChainBelow
  <2>2. ASSUME NEW s \in C, s # 0 PROVE p[s].previous \in C
    <3>1. s \in ChainIn(q, h) /\ s \in 1..Len(p)
      BY <1>1, <2>1, <2>2
    <3>2. /\ q[s].previous # 0 => q[s].previous \in ChainIn(q, h)
          /\ q[s].previous \in 0..(s - 1)
      BY <1>1, <3>1, ChainBelow, ChainWithin, Zenon
    <3> QED
      BY <1>1, <3>1, <3>2
  <2>3. h \in C
    BY <1>1, ChainStep
  <2>4. ChainIn(p, h) \subseteq C
    <3> HIDE DEF C
    <3> QED
      BY <2>1, <2>2, <2>3, ChainLeast, Zenon
  <2>5. 0 \notin ChainIn(p, h)
    BY ChainBelow
  <2> QED
    BY <2>4, <2>5, Zenon
<1> QED
  BY <1>2, <1>3, Zenon

-----------------------------------------------------------------------------
(* What the proofs below use of a chain C: it holds, with a snapshot, its  *)
(* predecessor, and nothing in between.                                    *)
Descends(p, C) ==
  \A s \in C :
    /\ s \in Nat \ {0} /\ p[s].previous \in Nat /\ p[s].previous < s
    /\ p[s].previous \in C \cup {0}
    /\ \A t \in C : t < s => t <= p[s].previous

LEMMA ChainDescends ==
  ASSUME NEW p, Chained(p), NEW h \in 0..Len(p)
  PROVE  /\ Descends(p, ChainIn(p, h))
         /\ \A s \in ChainIn(p, h) : s <= h
         /\ h # 0 => h \in ChainIn(p, h) /\ ChainIn(p, h) = {h} \cup ChainIn(p, p[h].previous)
         /\ h = 0 => ChainIn(p, h) = {}
<1>1. ASSUME NEW s \in ChainIn(p, h)
      PROVE  /\ s \in Nat \ {0} /\ p[s].previous \in Nat /\ p[s].previous < s /\ s <= h
             /\ p[s].previous \in ChainIn(p, h) \cup {0}
  BY ChainBelow, ChainWithin
<1>2. ASSUME NEW s \in ChainIn(p, h), NEW t \in ChainIn(p, h), t < s
      PROVE  t <= p[s].previous
  BY <1>2, ChainNext, Zenon
<1>3. h # 0 => h \in ChainIn(p, h) /\ ChainIn(p, h) = {h} \cup ChainIn(p, p[h].previous)
  <2>1. h # 0 => h \in 1..Len(p)
    BY DEF Chained
  <2> QED
    BY <2>1, ChainStep
<1>4. h = 0 => ChainIn(p, h) = {}
  BY ChainStep, Zenon
<1> QED
  BY <1>1, <1>2, <1>3, <1>4, Zenon DEF Descends

-----------------------------------------------------------------------------
(* Once a writer may be killed before its sync, only the first fault is    *)
(* covered: a power loss after it can take back two changes.               *)
OneUnsyncedFault == KillUnsynced => MaxFaults <= 1

(* The stages in which a pass has changed the directory and not synced it; *)
(* and whether a fault is still to come, so that the change may be lost.   *)
Unsynced == {"installed", "pointed", "bounded", "removed"}
Losable == faults < MaxFaults

(* A directory that readers can make sense of: the boundary lies on the    *)
(* chain, below its head; what is gone lies below the boundary, and with a *)
(* snapshot all but the first of the older ones are gone.                  *)
Sound(p, C, d) ==
  /\ d.boundary # 0 => d.boundary \in C /\ d.boundary < d.CURRENT
  /\ \A s \in C \ d.dirs :
       /\ s < d.boundary
       /\ \A t \in C : t < s => t \notin d.dirs \/ p[t].previous = 0

(* The directory and what a power loss would leave of it differ by one     *)
(* change at most.                                                         *)
OneChange(d, e) ==
  \/ d.dirs = e.dirs /\ (d.CURRENT = e.CURRENT \/ d.boundary = e.boundary)
  \/ /\ d.CURRENT = e.CURRENT /\ d.boundary = e.boundary
     /\ \E s \in Snapshots : \/ e.dirs = d.dirs \cup {s}
                             \/ s > d.CURRENT /\ d.dirs = e.dirs \cup {s}

(* The lowest snapshot a prune has reached.                                *)
Lowest(j) == IF j.candidates = <<>> THEN j.boundary ELSE j.candidates[Len(j.candidates)]

(* A pass walks down the chain: first its window, then the candidates.     *)
(* Below the last candidate nothing is left but, maybe, a first snapshot.  *)
JobChained(p, C, d, j) ==
  /\ j.pc = "window" =>
       /\ j.next \in C \cup {0} /\ d.boundary <= j.next
       /\ j.kept # 0 => j.next < d.CURRENT
  /\ j.pc \in Pruning =>
       /\ j.boundary \in C /\ j.boundary < d.CURRENT /\ d.boundary <= j.boundary
       /\ \A i \in 1..Len(j.candidates) :
            /\ j.candidates[i] \in C
            /\ j.candidates[i] = p[IF i = 1 THEN j.boundary ELSE j.candidates[i - 1]].previous
  /\ j.pc = "candidates" => j.next = p[Lowest(j)].previous
  /\ j.pc \in Pruning \ {"candidates"} =>
       \A t \in C : t < Lowest(j) => t \notin d.dirs \/ p[t].previous = 0
  /\ j.pc \in {"bounded", "removing", "removed"} => d.boundary = j.boundary

(* A legacy record has no predecessor.                                     *)
LegacyFirst(p) == \A s \in DOMAIN p : p[s].legacy => p[s].previous = 0

(* The visible boundary lies below the durable CURRENT.                    *)
Settled(d, e) == d.boundary = 0 \/ d.boundary < e.CURRENT

(* Both directories are sound, one change apart while a fault may come and *)
(* equal between two passes; and every pass is on the chain.               *)
DirectoryInv ==
  /\ LegacyFirst(published)
  /\ Sound(published, Chain(view.CURRENT), view)
  /\ Losable => Sound(published, Chain(disk.CURRENT), disk) /\ OneChange(view, disk)
  /\ Losable /\ (\A x \in Writers : job[x].pc \notin Unsynced) => view = disk
  /\ Losable \/ (\A x \in Writers : job[x].pc # "bounded") => Settled(view, disk)
  /\ \A x \in Writers : JobChained(published, Chain(view.CURRENT), view, job[x])

RegistryInv == ReadableInv /\ DirectoryInv

-----------------------------------------------------------------------------
LEMMA RegistryChained ==
  ASSUME ReadableInv
  PROVE  /\ Chained(published) /\ view.CURRENT \in 0..Len(published)
         /\ disk.CURRENT \in 0..Len(published) /\ Len(published) \in Nat
         /\ Descends(published, Chain(view.CURRENT)) /\ Descends(published, Chain(disk.CURRENT))
<1>1. published \in Seq(Published) /\ Len(published) \in Nat
  BY DEF ReadableInv, RegistryTypeOK
<1>2. Chained(published)
  BY <1>1 DEF ReadableInv, RegistryTypeOK, Chained, Previous
<1>3. view.CURRENT \in 0..Len(published)
  BY <1>1, DirectoryTypes DEF ReadableInv, PointersSound
<1>4. disk.CURRENT \in 0..Len(published)
  <2>1. disk.CURRENT # 0 => disk.CURRENT \in view.dirs
    BY Zenon DEF ReadableInv, CurrentReadable
  <2> QED
    BY <1>1, <2>1, DirectoryTypes DEF ReadableInv, PointersSound
<1> QED
  BY <1>1, <1>2, <1>3, <1>4, ChainDescends, Zenon DEF Chain

LEMMA IdleChained ==
  ASSUME NEW p, NEW C, NEW d, NEW j, j.pc \notin {"window"} \cup Pruning
  PROVE  JobChained(p, C, d, j)
BY Zenon DEF JobChained, Pruning

LEMMA DirectoryMoved ==
  ASSUME ReadableInv, NEW x \in Writers, NEW j \in Jobs, Alone(x, j),
         LegacyFirst(published)', Sound(published, Chain(view.CURRENT), view)',
         (Losable => Sound(published, Chain(disk.CURRENT), disk) /\ OneChange(view, disk))',
         Losable' /\ j.pc \notin Unsynced => view' = disk',
         Losable' \/ j.pc # "bounded" => Settled(view, disk)',
         JobChained(published', Chain(view.CURRENT)', view', j)
  PROVE  DirectoryInv'
<1>1. /\ job' \in [Writers -> Jobs] /\ job'[x] = j
      /\ \A y \in Writers : y # x => job'[y] = job[y] /\ job'[y].pc = "idle"
  BY Zenon DEF ReadableInv, RegistryTypeOK, Alone
<1>2. ASSUME NEW y \in Writers
      PROVE  JobChained(published', Chain(view.CURRENT)', view', job'[y])
  <2>1. CASE y = x
    BY <1>1, <2>1, Zenon
  <2>2. CASE y # x
    BY <1>1, <2>2, IdleChained, Zenon DEF Pruning
  <2> QED
    BY <2>1, <2>2, Zenon
<1>3. Losable' /\ (\A y \in Writers : job'[y].pc \notin Unsynced) => view' = disk'
  BY <1>1, Zenon
<1>4. Losable' \/ (\A y \in Writers : job'[y].pc # "bounded") => Settled(view, disk)'
  BY <1>1, Zenon
<1> QED
  BY <1>2, <1>3, <1>4, Zenon DEF DirectoryInv

LEMMA DirectoryNow ==
  ASSUME RegistryInv, NEW x \in Writers, job[x].pc # "idle" \/ Unlocked
  PROVE  /\ Losable /\ job[x].pc \notin Unsynced => view = disk
         /\ Losable \/ job[x].pc # "bounded" => Settled(view, disk)
         /\ JobChained(published, Chain(view.CURRENT), view, job[x])
         /\ Losable => Sound(published, Chain(disk.CURRENT), disk) /\ OneChange(view, disk)
         /\ LegacyFirst(published) /\ Sound(published, Chain(view.CURRENT), view)
<1>1. \A y \in Writers : y # x => job[y].pc = "idle"
  BY OthersIdle, Zenon DEF RegistryInv
<1>2. (\A y \in Writers : job[y].pc \notin Unsynced) <=> job[x].pc \notin Unsynced
  BY <1>1, Zenon DEF Unsynced
<1>3. (\A y \in Writers : job[y].pc # "bounded") <=> job[x].pc # "bounded"
  BY <1>1, Zenon
<1> QED
  BY <1>2, <1>3, Zenon DEF RegistryInv, DirectoryInv

(* Steps that leave the directory alone. *)
LEMMA DirectoryQuiet ==
  ASSUME RegistryInv, NEW x \in Writers, NEW j \in Jobs, Alone(x, j),
         job[x].pc # "idle" \/ Unlocked, UNCHANGED <<published, view, disk>>,
         Losable' => Losable /\ (job[x].pc \notin Unsynced \/ view = disk),
         Losable \/ job[x].pc # "bounded",
         JobChained(published, Chain(view.CURRENT), view, j)
  PROVE  DirectoryInv'
<1>1. ReadableInv
  BY Zenon DEF RegistryInv
<1>2. /\ Losable /\ job[x].pc \notin Unsynced => view = disk
      /\ Losable \/ job[x].pc # "bounded" => Settled(view, disk)
      /\ Losable => Sound(published, Chain(disk.CURRENT), disk) /\ OneChange(view, disk)
      /\ LegacyFirst(published) /\ Sound(published, Chain(view.CURRENT), view)
  BY DirectoryNow, Zenon
<1>3. /\ Chain(view.CURRENT)' = Chain(view.CURRENT)
      /\ Chain(disk.CURRENT)' = Chain(disk.CURRENT)
  BY Zenon DEF Chain
<1>4. LegacyFirst(published)' /\ Sound(published, Chain(view.CURRENT), view)'
  BY <1>2, <1>3, SMTT(30) DEF LegacyFirst, Sound
<1>5. (Losable => Sound(published, Chain(disk.CURRENT), disk) /\ OneChange(view, disk))'
  BY <1>2, <1>3, Zenon DEF Sound, OneChange
<1>6. Losable' /\ j.pc \notin Unsynced => view' = disk'
  BY <1>2, Zenon
<1>7. Settled(view, disk)'
  BY <1>2, Zenon DEF Settled
<1>8. JobChained(published', Chain(view.CURRENT)', view', j)
  BY <1>3, Zenon
<1> QED
  BY <1>1, <1>4, <1>5, <1>6, <1>7, <1>8, DirectoryMoved, Zenon

LEMMA DirectoryStarts ==
  ASSUME RegistryInv, NEW x \in Writers, NEW j \in Jobs, Start(x, j),
         JobChained(published, Chain(view.CURRENT), view, j)
  PROVE  DirectoryInv'
<1>1. Alone(x, j)
  BY OthersIdle, Zenon DEF Start, Alone, RegistryInv, ReadableInv, RegistryTypeOK
<1>2. job[x].pc = "idle" /\ Unlocked /\ UNCHANGED <<published, view, disk, faults>>
  BY NoJobType, Zenon DEF Start
<1> QED
  BY <1>1, <1>2, DirectoryQuiet, Zenon DEF Losable, Unsynced

LEMMA DirectoryBecomes ==
  ASSUME RegistryInv, NEW x \in Writers, NEW j \in Jobs, Become(x, j),
         job[x].pc \notin {"idle"} \cup Unsynced, UNCHANGED <<published, view, disk, faults>>,
         JobChained(published, Chain(view.CURRENT), view, j)
  PROVE  DirectoryInv'
<1>1. Alone(x, j)
  BY Becomes, Zenon DEF RegistryInv
<1> QED
  BY <1>1, DirectoryQuiet, Zenon DEF Losable, Unsynced

LEMMA DirectoryFinishes ==
  ASSUME RegistryInv, NEW x \in Writers, Finish(x), UNCHANGED <<published, view, disk, faults>>,
         job[x].pc \notin {"idle"} \cup Unsynced
  PROVE  DirectoryInv'
<1>1. Alone(x, NoJob)
  BY OthersIdle, NoJobType, Zenon DEF Finish, Alone, RegistryInv, ReadableInv, RegistryTypeOK
<1>2. JobChained(published, Chain(view.CURRENT), view, NoJob)
  BY NoJobType, IdleChained, Zenon DEF Pruning
<1> QED
  BY <1>1, <1>2, NoJobType, DirectoryQuiet, Zenon DEF Losable, Unsynced

-----------------------------------------------------------------------------
LEMMA PrepareDirectory ==
  ASSUME RegistryInv, NEW x \in Writers, Prepare(x)
  PROVE  DirectoryInv'
<1> DEFINE j == [NoJob EXCEPT !.pc = "prepared"]
<1>1. j \in Jobs
  BY NoJobType, Zenon DEF Jobs
<1>2. j.pc = "prepared"
  BY Zenon DEF NoJob
<1>3. Start(x, j)
  BY Zenon DEF Prepare
<1> HIDE DEF j
<1>4. JobChained(published, Chain(view.CURRENT), view, j)
  BY <1>2, IdleChained, Zenon DEF Pruning
<1> QED
  BY <1>1, <1>3, <1>4, DirectoryStarts, Zenon

LEMMA RetainDirectory ==
  ASSUME RegistryInv, NEW x \in Writers, NEW k \in Keeps, Retain(x, k)
  PROVE  DirectoryInv'
<1> DEFINE j == [NoJob EXCEPT !.pc = "window", !.keep = k, !.next = view.CURRENT]
<1>1. j \in Jobs
  BY NoJobType, DirectoryTypes, Zenon DEF Jobs, RegistryInv
<1>2. j.pc = "window" /\ j.next = view.CURRENT /\ j.kept = 0
  BY Zenon DEF NoJob
<1>3. Start(x, j)
  BY Zenon DEF Retain
<1> HIDE DEF j
<1>4. view.CURRENT \in Chain(view.CURRENT) \cup {0} /\ view.boundary <= view.CURRENT
  BY RegistryChained, ChainDescends, Zenon DEF Chain, RegistryInv, ReadableInv, PointersSound
<1>5. JobChained(published, Chain(view.CURRENT), view, j)
  BY <1>2, <1>4, Zenon DEF JobChained, Pruning
<1> QED
  BY <1>1, <1>3, <1>5, DirectoryStarts, Zenon

LEMMA PredecessorDirectory ==
  ASSUME RegistryInv, NEW x \in Writers, ReadPredecessor(x)
  PROVE  DirectoryInv'
<1> DEFINE j == [job[x] EXCEPT !.pc = "chained", !.previous = view.CURRENT]
<1>1. j \in Jobs /\ j.pc = "chained"
  BY JobType, DirectoryTypes, Zenon DEF Jobs, RegistryInv
<1>2. Become(x, j) \/ Finish(x)
  BY Zenon DEF ReadPredecessor
<1> HIDE DEF j
<1>3. JobChained(published, Chain(view.CURRENT), view, j)
  BY <1>1, IdleChained, Zenon DEF Pruning
<1>4. job[x].pc \notin {"idle"} \cup Unsynced /\ UNCHANGED <<published, view, disk, faults>>
  BY Zenon DEF ReadPredecessor, Unsynced
<1> QED
  BY <1>1, <1>2, <1>3, <1>4, DirectoryBecomes, DirectoryFinishes, Zenon
-----------------------------------------------------------------------------
(* A pass on its way down a chain C, one lemma per step. *)
LEMMA WindowCloses ==
  ASSUME NEW p, NEW C, Descends(p, C), NEW d \in Directory, NEW j, NEW k, Sound(p, C, d),
         JobChained(p, C, d, j), j.pc = "window", j.next # 0,
         j.kept # 0 \/ j.next = d.boundary,
         k.pc = "candidates", k.boundary = j.next, k.next = p[j.next].previous, k.candidates = <<>>
  PROVE  JobChained(p, C, d, k)
<1>1. j.next \in C /\ d.boundary <= j.next /\ j.next < d.CURRENT
  BY Zenon DEF JobChained, Sound
<1>2. Lowest(k) = j.next
  BY Zenon DEF Lowest
<1> QED
  BY <1>1, <1>2, SMTT(30) DEF JobChained, Pruning

LEMMA WindowWidens ==
  ASSUME NEW p, NEW C, Descends(p, C), NEW d \in Directory, NEW j, NEW k, Sound(p, C, d),
         JobChained(p, C, d, j), j.pc = "window", j.next # 0, j.next # d.boundary,
         \A s \in C : s <= d.CURRENT,
         k.pc = "window", k.next = p[j.next].previous
  PROVE  JobChained(p, C, d, k)
<1>1. /\ j.next \in C /\ d.boundary <= j.next /\ j.next <= d.CURRENT
      /\ d.boundary \in Nat /\ d.CURRENT \in Nat /\ d.boundary \in C \cup {0}
  BY RegistryAssumption, SMTT(30) DEF JobChained, Sound, Directory
<1>2. /\ k.next \in C \cup {0} /\ k.next \in Nat /\ k.next < j.next /\ j.next \in Nat
      /\ \A t \in C : t < j.next => t <= k.next
  BY <1>1, Zenon DEF Descends
<1>3. d.boundary <= k.next
  BY <1>1, <1>2
<1> QED
  BY <1>1, <1>2, <1>3, SMTT(30) DEF JobChained, Pruning

LEMMA JobCandidates ==
  ASSUME NEW j \in Jobs
  PROVE  j.candidates \in Seq(Snapshots) /\ Len(j.candidates) \in Nat
BY DEF Jobs

LEMMA CandidateFound ==
  ASSUME NEW p, NEW C, Descends(p, C), NEW d, NEW j \in Jobs, NEW k,
         JobChained(p, C, d, j), j.pc = "candidates", j.next \in Snapshots,
         k.pc = "candidates", k.boundary = j.boundary, k.next = p[j.next].previous,
         k.candidates = Append(j.candidates, j.next)
  PROVE  JobChained(p, C, d, k)
<1> DEFINE c == j.candidates
           n == Len(c)
<1>1. /\ c \in Seq(Snapshots) /\ n \in Nat /\ j.boundary \in C /\ j.boundary < d.CURRENT
      /\ d.boundary <= j.boundary /\ j.next = p[Lowest(j)].previous
      /\ \A i \in 1..n : c[i] \in C /\ c[i] = p[IF i = 1 THEN j.boundary ELSE c[i - 1]].previous
  <2>1. c \in Seq(Snapshots) /\ n \in Nat
    BY JobCandidates, Zenon
  <2> QED
    BY <2>1, Zenon DEF JobChained, Pruning
<1>2. Lowest(j) \in C /\ Lowest(j) = IF n = 0 THEN j.boundary ELSE c[n]
  BY <1>1, SMTT(30) DEF Lowest
<1>3. j.next \in C
  <2>1. j.next \in C \cup {0}
    BY <1>1, <1>2, Zenon DEF Descends
  <2>2. j.next # 0
    BY RegistryAssumption DEF Snapshots
  <2> QED
    BY <2>1, <2>2, Zenon
<1>4. /\ Len(k.candidates) = n + 1 /\ k.candidates[n + 1] = j.next
      /\ \A i \in 1..n : k.candidates[i] = c[i]
  BY <1>1
<1>5. Lowest(k) = j.next
  <2>1. k.candidates # <<>>
    <3>1. Len(k.candidates) = n + 1 /\ n \in Nat
      BY <1>1, <1>4, Zenon
    <3> HIDE DEF c, n
    <3> QED
      BY <3>1
  <2> QED
    BY <1>4, <2>1, Zenon DEF Lowest
<1> HIDE DEF c, n
<1>6. ASSUME NEW i \in 1..(n + 1)
      PROVE  /\ k.candidates[i] \in C
             /\ k.candidates[i] = p[IF i = 1 THEN k.boundary ELSE k.candidates[i - 1]].previous
  <2>1. CASE i \in 1..n
    <3>1. i = 1 \/ i - 1 \in 1..n
      BY <1>1, <2>1
    <3> QED
      BY <1>1, <1>4, <2>1, <3>1, Zenon
  <2>2. CASE i = n + 1
    <3>1. i = 1 <=> n = 0
      BY <1>1, <2>2
    <3>2. n # 0 => i - 1 = n /\ n \in 1..n
      BY <1>1, <2>2
    <3> QED
      BY <1>1, <1>2, <1>3, <1>4, <2>2, <3>1, <3>2, Zenon
  <2>3. i \in 1..n \/ i = n + 1
    BY <1>1
  <2> QED
    BY <2>1, <2>2, <2>3, Zenon
<1> QED
  BY <1>1, <1>4, <1>5, <1>6, Zenon DEF JobChained, Pruning

(* Below a snapshot that is gone, or has no record, all but a first one    *)
(* are gone.                                                               *)
LEMMA CandidatesEnd ==
  ASSUME NEW p, NEW C, Descends(p, C), NEW d, NEW j \in Jobs, NEW k, Sound(p, C, d),
         JobChained(p, C, d, j), j.pc = "candidates",
         j.next \notin d.dirs \/ (j.next # 0 => p[j.next].previous = 0),
         k.pc = "retaining", k.boundary = j.boundary, k.candidates = j.candidates
  PROVE  JobChained(p, C, d, k)
<1> DEFINE c == j.candidates
           n == Len(c)
           l == Lowest(j)
           s == j.next
<1>1. /\ c \in Seq(Snapshots) /\ n \in Nat /\ j.boundary \in C /\ s = p[l].previous
      /\ \A i \in 1..n : c[i] \in C
  <2>1. c \in Seq(Snapshots) /\ n \in Nat
    BY JobCandidates, Zenon
  <2> QED
    BY <2>1, Zenon DEF JobChained, Pruning
<1>2. l \in C /\ Lowest(k) = l
  BY <1>1, SMTT(30) DEF Lowest
<1> HIDE DEF c, n, l, s
<1>3. /\ s \in C \cup {0} /\ s \in Nat
      /\ \A t \in C : t < l => t <= s /\ t \in Nat \ {0}
  BY <1>1, <1>2, Zenon DEF Descends
<1>4. ASSUME NEW t \in C, t < l PROVE t \notin d.dirs \/ p[t].previous = 0
  <2>1. t <= s /\ t \in Nat \ {0} /\ s \in C
    <3>1. t <= s /\ t \in Nat \ {0} /\ s \in Nat /\ s \in C \cup {0}
      BY <1>3, <1>4, Zenon
    <3> QED
      BY <3>1
  <2>2. CASE s \notin d.dirs
    <3>1. t < s => t \notin d.dirs \/ p[t].previous = 0
      BY <2>1, <2>2, Zenon DEF Sound
    <3> QED
      BY <1>3, <2>1, <2>2, <3>1
  <2>3. CASE p[s].previous = 0
    <3>1. t < s => t <= p[s].previous
      BY <2>1, Zenon DEF Descends
    <3>2. t = s
      BY <1>3, <2>1, <2>3, <3>1
    <3> QED
      BY <2>3, <3>2, Zenon
  <2> QED
    BY <2>1, <2>2, <2>3 DEF s
<1>5. /\ k.boundary \in C /\ k.boundary < d.CURRENT /\ d.boundary <= k.boundary
      /\ \A i \in 1..Len(k.candidates) :
            /\ k.candidates[i] \in C
            /\ k.candidates[i] = p[IF i = 1 THEN k.boundary ELSE k.candidates[i - 1]].previous
  BY Zenon DEF JobChained, Pruning
<1> QED
  BY <1>2, <1>4, <1>5, Zenon DEF JobChained, Pruning
LEMMA WindowDirectory ==
  ASSUME RegistryInv, NEW x \in Writers, Window(x)
  PROVE  DirectoryInv'
<1> DEFINE s == job[x].next
           last == Closed(job[x], s, Previous(s))
           more == Wider(job[x], Previous(s))
           C == Chain(view.CURRENT)
<1>1. /\ job[x] \in Jobs /\ JobSound(job[x]) /\ job[x].pc = "window" /\ view \in Directory
      /\ job[x].pc \notin {"idle"} \cup Unsynced /\ UNCHANGED <<published, view, disk, faults>>
      /\ job[x].candidates = <<>> /\ job[x].keep \in Keeps /\ job[x].kept \in Nat
  BY JobType, Zenon DEF Window, RegistryInv, ReadableInv, RegistryTypeOK, Unsynced, JobSound, Jobs
<1>2. CASE ~Recorded(s)
  BY <1>1, <1>2, DirectoryFinishes, Zenon DEF Window
<1>3. CASE Recorded(s)
  <2>1. s \in view.dirs /\ Previous(s) \in 0..MaxSnapshots /\ s \in 0..MaxSnapshots /\ s # 0
    BY <1>1, <1>3, DirectoryTypes DEF Recorded, RegistryInv, Directory, Snapshots
  <2>2. /\ last \in Jobs /\ last.pc = "candidates" /\ last.boundary = s
        /\ last.next = Previous(s) /\ last.candidates = <<>>
    <3>1. PICK j \in Jobs, t \in 0..MaxSnapshots, n \in 0..MaxSnapshots :
            j = job[x] /\ t = s /\ n = Previous(s)
      BY <1>1, <2>1, Zenon
    <3>2. /\ Closed(j, t, n) \in Jobs /\ Closed(j, t, n).pc = "candidates"
          /\ Closed(j, t, n).boundary = t /\ Closed(j, t, n).next = n
          /\ Closed(j, t, n).candidates = j.candidates
      BY ClosedType
    <3> QED
      BY <1>1, <3>1, <3>2, Zenon
  <2>3. more \in Jobs /\ more.pc = "window" /\ more.next = Previous(s)
    BY <1>1, <2>1, WiderType, Zenon
  <2>4. IF LastKept(x, s) THEN Become(x, last) ELSE Become(x, more)
    BY <1>3, Zenon DEF Window, Closed, Wider
  <2>5. /\ JobChained(published, C, view, job[x]) /\ Sound(published, C, view)
        /\ Descends(published, C) /\ \A t \in C : t <= view.CURRENT
    BY <1>1, DirectoryNow, RegistryChained, ChainDescends, Zenon DEF RegistryInv, Chain
  <2> HIDE DEF last, more, C
  <2>6. CASE LastKept(x, s)
    <3>1. job[x].kept # 0 \/ s = view.boundary
      BY <1>1, <2>6, RegistryAssumption DEF LastKept
    <3>2. JobChained(published, C, view, last)
      BY <1>1, <2>1, <2>2, <2>5, <3>1, WindowCloses, Zenon DEF Previous
    <3> QED
      BY <1>1, <2>2, <2>4, <2>6, <3>2, DirectoryBecomes, Zenon DEF C
  <2>7. CASE ~LastKept(x, s)
    <3>1. JobChained(published, C, view, more)
      BY <1>1, <2>1, <2>3, <2>5, <2>7, WindowWidens, Zenon DEF Previous, LastKept
    <3> QED
      BY <1>1, <2>3, <2>4, <2>7, <3>1, DirectoryBecomes, Zenon DEF C
  <2> QED
    BY <2>6, <2>7, Zenon
<1> QED
  BY <1>2, <1>3, Zenon

LEMMA CandidatesDirectory ==
  ASSUME RegistryInv, NEW x \in Writers, Candidates(x)
  PROVE  DirectoryInv'
<1> DEFINE s == job[x].next
           found == Longer(job[x], s, Previous(s))
           ready == Moving(job[x], "retaining")
           C == Chain(view.CURRENT)
<1>1. /\ job[x] \in Jobs /\ job[x].pc = "candidates" /\ view \in Directory
      /\ job[x].pc \notin {"idle"} \cup Unsynced /\ UNCHANGED <<published, view, disk, faults>>
  BY JobType, Zenon DEF Candidates, RegistryInv, ReadableInv, RegistryTypeOK, Unsynced
<1>2. /\ JobChained(published, C, view, job[x]) /\ Sound(published, C, view)
      /\ Descends(published, C) /\ LegacyFirst(published)
  BY <1>1, DirectoryNow, RegistryChained, Zenon DEF RegistryInv
<1>3. CASE Recorded(s)
  <2>1. s \in Snapshots /\ Previous(s) \in 0..MaxSnapshots
    BY <1>1, <1>3, DirectoryTypes, Zenon DEF Recorded, RegistryInv, Directory
  <2>2. /\ found \in Jobs /\ found.pc = "candidates" /\ found.boundary = job[x].boundary
        /\ found.next = Previous(s) /\ found.candidates = Append(job[x].candidates, s)
    BY <1>1, <2>1, LongerType
  <2>3. Become(x, found)
    BY <1>3, Zenon DEF Candidates, Longer
  <2> HIDE DEF found, C
  <2>4. JobChained(published, C, view, found)
    BY <1>1, <1>2, <2>1, <2>2, CandidateFound, Zenon DEF Previous
  <2> QED
    BY <1>1, <2>2, <2>3, <2>4, DirectoryBecomes, Zenon DEF C
<1>4. CASE ~Recorded(s) /\ Become(x, ready)
  <2>1. /\ ready \in Jobs /\ ready.pc = "retaining" /\ ready.boundary = job[x].boundary
        /\ ready.candidates = job[x].candidates
    BY <1>1, MovingType, Zenon
  <2>2. s \notin view.dirs \/ (s # 0 => published[s].previous = 0)
    <3>1. s \in view.dirs => s \in DOMAIN published
      BY DEF RegistryInv, ReadableInv, RegistryTypeOK, PointersSound
    <3> QED
      BY <1>2, <1>4, <3>1, Zenon DEF Recorded, Legacy, LegacyFirst
  <2> HIDE DEF ready, C
  <2>3. JobChained(published, C, view, ready)
    BY <1>1, <1>2, <2>1, <2>2, CandidatesEnd, Zenon
  <2> QED
    BY <1>1, <1>4, <2>1, <2>3, DirectoryBecomes, Zenon DEF C
<1>5. CASE Finish(x)
  BY <1>1, <1>5, DirectoryFinishes, Zenon
<1>6. Recorded(s) \/ (~Recorded(s) /\ Become(x, ready)) \/ Finish(x)
  BY Zenon DEF Candidates, Moving
<1> QED
  BY <1>3, <1>4, <1>5, <1>6, Zenon

-----------------------------------------------------------------------------
LEMMA WriteRetentionDirectory ==
  ASSUME RegistryInv, NEW x \in Writers, WriteRetention(x)
  PROVE  DirectoryInv'
<1> DEFINE C == Chain(view.CURRENT)
<1>1. job[x] \in Jobs /\ job[x].pc = "retaining" /\ view \in Directory /\ ReadableInv
  BY JobType, Zenon DEF WriteRetention, RegistryInv, ReadableInv, RegistryTypeOK
<1>2. PICK j \in Jobs : /\ j.pc = IF view' = view THEN "removing" ELSE "bounded"
                        /\ j.boundary = job[x].boundary
                        /\ j.candidates = job[x].candidates /\ Become(x, j)
  <2>1. PICK pc \in {"removing", "bounded"} :
          pc = (IF view' = view THEN "removing" ELSE "bounded") /\ Become(x, Moving(job[x], pc))
    BY Zenon DEF WriteRetention, Moving
  <2> QED
    BY <1>1, <2>1, MovingType, Zenon
<1>3. /\ view'.boundary = job[x].boundary /\ view'.CURRENT = view.CURRENT
      /\ view'.dirs = view.dirs /\ UNCHANGED <<published, disk, faults>>
  BY <1>1, Zenon DEF WriteRetention, Directory
<1>4. /\ JobChained(published, C, view, job[x]) /\ Sound(published, C, view)
      /\ Losable => view = disk /\ Sound(published, Chain(disk.CURRENT), disk)
      /\ Settled(view, disk) /\ LegacyFirst(published) /\ Descends(published, C)
  BY <1>1, DirectoryNow, RegistryChained, Zenon DEF RegistryInv, Unsynced
<1>5. Chain(view.CURRENT)' = C /\ Chain(disk.CURRENT)' = Chain(disk.CURRENT)
  BY <1>3, Zenon DEF Chain
<1> HIDE DEF C
<1>6. /\ job[x].boundary \in C /\ job[x].boundary < view.CURRENT
      /\ view.boundary <= job[x].boundary
  BY <1>1, <1>4, Zenon DEF JobChained, Pruning
<1>7. Sound(published, Chain(view.CURRENT), view)'
  <2>1. ASSUME NEW s \in C, s \notin view.dirs PROVE s < job[x].boundary
    <3>1. s < view.boundary /\ s \in Nat
      BY <1>4, <2>1, Zenon DEF Sound, Descends
    <3>2. view.boundary \in Nat /\ job[x].boundary \in Nat
      BY <1>1, RegistryAssumption DEF Directory, Jobs
    <3> QED
      BY <1>6, <3>1, <3>2
  <2> QED
    BY <1>3, <1>4, <1>5, <1>6, <2>1, Zenon DEF Sound
<1>8. (Losable => Sound(published, Chain(disk.CURRENT), disk) /\ OneChange(view, disk))'
  BY <1>3, <1>4, <1>5, Zenon DEF Losable, Sound, OneChange
<1>9. Losable' /\ j.pc \notin Unsynced => view' = disk'
  BY <1>2, <1>3, <1>4, Zenon DEF Losable, Unsynced
<1>10. Losable' \/ j.pc # "bounded" => Settled(view, disk)'
  BY <1>2, <1>3, <1>4, <1>6, Zenon DEF Losable, Settled
<1>11. JobChained(published', Chain(view.CURRENT)', view', j)
  <2>1. Lowest(j) = Lowest(job[x])
    BY <1>2, Zenon DEF Lowest
  <2>2. \A t \in C : t < Lowest(j) => t \notin view.dirs \/ published[t].previous = 0
    BY <1>1, <1>4, <2>1, Zenon DEF JobChained, Pruning
  <2>3. \A i \in 1..Len(j.candidates) :
          /\ j.candidates[i] \in C
          /\ j.candidates[i] = published[IF i = 1 THEN j.boundary ELSE j.candidates[i - 1]].previous
    BY <1>1, <1>2, <1>4, Zenon DEF JobChained, Pruning
  <2>4. j.boundary <= j.boundary
    BY RegistryAssumption DEF Jobs
  <2>5. published' = published /\ j.pc \in {"bounded", "removing"} /\ view'.boundary = j.boundary
    BY <1>2, <1>3, Zenon
  <2>6. j.boundary \in C /\ j.boundary < view'.CURRENT
    BY <1>2, <1>3, <1>6, Zenon
  <2> QED
    BY <1>3, <1>5, <2>2, <2>3, <2>4, <2>5, <2>6, Zenon DEF JobChained, Pruning
<1>12. Alone(x, j)
  BY <1>1, <1>2, <1>3, Becomes, Zenon
<1>13. LegacyFirst(published)'
  BY <1>3, <1>4, Zenon DEF LegacyFirst
<1> QED
  BY <1>1, <1>7, <1>8, <1>9, <1>10, <1>11, <1>12, <1>13, DirectoryMoved

(* A removal takes the lowest candidate.  The pass goes on with the next   *)
(* one up, below which the removed one was.                                *)
LEMMA Removal ==
  ASSUME NEW p, NEW C, Descends(p, C), NEW d, NEW j \in Jobs, Sound(p, C, d),
         JobChained(p, C, d, j), j.pc = "removing", j.candidates # <<>>, j.pruned < Budget,
         Lowest(j) < j.boundary,
         NEW e, e.CURRENT = d.CURRENT, e.boundary = d.boundary, e.dirs = d.dirs \ {Lowest(j)}
  PROVE  /\ Sound(p, C, e) /\ JobChained(p, C, e, Shorter(j))
         /\ Lowest(j) \in C /\ Lowest(j) < d.boundary
         /\ \A t \in C : t < Lowest(j) => t \notin d.dirs \/ p[t].previous = 0
<1> DEFINE c == j.candidates
           n == Len(c)
           s == Lowest(j)
           k == Shorter(j)
<1>1. /\ c \in Seq(Snapshots) /\ n \in Nat \ {0} /\ s = c[n]
  BY DEF Jobs, Lowest
<1>2. /\ j.boundary \in C /\ j.boundary < d.CURRENT /\ d.boundary = j.boundary
      /\ \A i \in 1..n : c[i] \in C /\ c[i] = p[IF i = 1 THEN j.boundary ELSE c[i - 1]].previous
      /\ \A t \in C : t < s => t \notin d.dirs \/ p[t].previous = 0
  BY Zenon DEF JobChained, Pruning
<1>3. /\ k.pc = "removed" /\ k.boundary = j.boundary /\ k.candidates \in Seq(Snapshots)
      /\ Len(k.candidates) = n - 1 /\ \A i \in 1..(n - 1) : k.candidates[i] = c[i]
  BY ShorterType, Zenon
<1> HIDE DEF c, n, s, k
<1>4. s \in C /\ s = p[Lowest(k)].previous /\ Lowest(k) \in C
  <2>1. n \in 1..n
    BY <1>1
  <2>2. CASE n = 1
    <3>1. Lowest(k) = j.boundary
      BY <1>3, <2>2 DEF Lowest
    <3> QED
      BY <1>1, <1>2, <2>1, <2>2, <3>1, Zenon
  <2>3. CASE n # 1
    <3>1. n - 1 \in 1..n /\ n - 1 \in 1..(n - 1)
      BY <1>1, <2>3
    <3>2. Lowest(k) = c[n - 1]
      BY <1>3, <3>1 DEF Lowest
    <3> QED
      BY <1>1, <1>2, <2>1, <2>3, <3>1, <3>2
  <2> QED
    BY <2>2, <2>3, Zenon
<1>5. ASSUME NEW t \in C, t < Lowest(k) PROVE t \notin e.dirs \/ p[t].previous = 0
  <2>1. t <= s /\ t \in Nat /\ s \in Nat
    BY <1>4, <1>5, Zenon DEF Descends
  <2> QED
    BY <1>2, <2>1 DEF s
<1>6. s < d.boundary
  BY <1>2, Zenon DEF s
<1>7. Sound(p, C, e)
  <2>1. ASSUME NEW t \in C, t \notin e.dirs
        PROVE  /\ t < e.boundary
               /\ \A u \in C : u < t => u \notin e.dirs \/ p[u].previous = 0
    <3>1. CASE t = s
      BY <1>2, <1>6, <3>1, Zenon DEF s
    <3>2. CASE t # s
      BY <2>1, <3>2, Zenon DEF Sound, s
    <3> QED
      BY <3>1, <3>2, Zenon
  <2>2. e.boundary # 0 => e.boundary \in C /\ e.boundary < e.CURRENT
    BY Zenon DEF Sound
  <2> QED
    BY <2>1, <2>2, Zenon DEF Sound
<1>8. JobChained(p, C, e, k)
  <2>1. ASSUME NEW i \in 1..(n - 1)
        PROVE  /\ k.candidates[i] \in C
               /\ k.candidates[i] = p[IF i = 1 THEN k.boundary ELSE k.candidates[i - 1]].previous
    <3>1. i \in 1..n /\ (i # 1 => i - 1 \in 1..(n - 1))
      BY <1>1
    <3> QED
      BY <1>2, <1>3, <3>1
  <2>2. k.boundary \in C /\ k.boundary < e.CURRENT /\ e.boundary = k.boundary
    BY <1>2, <1>3, Zenon
  <2>3. e.boundary <= k.boundary
    <3>1. k.boundary \in Nat
      BY <2>2, Zenon DEF Descends
    <3> QED
      BY <2>2, <3>1
  <2> QED
    BY <1>3, <1>5, <2>1, <2>2, <2>3, Zenon DEF JobChained, Pruning
<1> QED
  BY <1>2, <1>4, <1>6, <1>7, <1>8, Zenon DEF s, k

-----------------------------------------------------------------------------
LEMMA RenameAwayDirectory ==
  ASSUME RegistryInv, NEW x \in Writers, RenameAway(x)
  PROVE  DirectoryInv'
<1> DEFINE C == Chain(view.CURRENT)
           s == Lowest(job[x])
<1>1. /\ job[x] \in Jobs /\ JobSound(job[x]) /\ job[x].pc = "removing" /\ ReadableInv
      /\ job[x].pc \notin {"idle"} \cup Unsynced /\ UNCHANGED <<published, disk, faults>>
  BY JobType, Zenon DEF RenameAway, RegistryInv, Unsynced
<1>2. CASE job[x].candidates # <<>> /\ job[x].pruned < Budget
  <2>1. Become(x, Shorter(job[x])) /\ view' = [view EXCEPT !.dirs = @ \ {s}]
    BY <1>1, <1>2 DEF RenameAway, OldestFirst, Shorter, Jobs, Lowest
  <2>2. PICK j \in Jobs : j = Shorter(job[x]) /\ Become(x, j) /\ j.pc = "removed"
    BY <1>1, <1>2, <2>1, ShorterType, Zenon
  <2>3. s < job[x].boundary
    <3>1. job[x].candidates \in Seq(Snapshots)
      BY <1>1, Zenon DEF Jobs
    <3>2. Len(job[x].candidates) \in 1..Len(job[x].candidates)
      BY <1>2, <3>1
    <3> QED
      BY <1>1, <1>2, <3>2, Zenon DEF JobSound, Pruning, Lowest
  <2>4. /\ JobChained(published, C, view, job[x]) /\ Sound(published, C, view)
        /\ Losable => view = disk /\ Sound(published, Chain(disk.CURRENT), disk)
        /\ Settled(view, disk) /\ LegacyFirst(published) /\ Descends(published, C)
    BY <1>1, DirectoryNow, RegistryChained, Zenon DEF RegistryInv
  <2>5. /\ view'.CURRENT = view.CURRENT /\ view'.boundary = view.boundary
        /\ view'.dirs = view.dirs \ {s}
    BY <2>1, Zenon DEF RegistryInv, ReadableInv, RegistryTypeOK, Directory
  <2>6. Chain(view.CURRENT)' = C /\ Chain(disk.CURRENT)' = Chain(disk.CURRENT)
    BY <1>1, <2>5, Zenon DEF Chain
  <2> HIDE DEF C, s
  <2>7. Sound(published, C, view') /\ JobChained(published, C, view', j) /\ s \in C
    <3>1. PICK d : d = view'
      BY Zenon
    <3>2. Sound(published, C, d) /\ JobChained(published, C, d, Shorter(job[x])) /\ s \in C
      BY <1>1, <1>2, <2>3, <2>4, <2>5, <3>1, Removal, SMTT(30) DEF s
    <3> QED
      BY <2>2, <3>1, <3>2, Zenon
  <2>8. (Losable => Sound(published, Chain(disk.CURRENT), disk) /\ OneChange(view, disk))'
    <3>1. s \in Snapshots
      <4>1. Lowest(job[x]) \in Snapshots
        <5>1. job[x].candidates \in Seq(Snapshots)
          BY <1>1, Zenon DEF Jobs
        <5>2. Len(job[x].candidates) \in 1..Len(job[x].candidates)
          BY <1>2, <5>1
        <5> QED
          BY <1>2, <5>1, <5>2 DEF Lowest
      <4> QED
        BY <4>1, Zenon DEF s
    <3>2. Losable => disk'.dirs = view'.dirs \/ disk'.dirs = view'.dirs \cup {s}
      BY <1>1, <2>4, <2>5, Zenon
    <3>3. Losable => OneChange(view, disk)'
      BY <1>1, <2>4, <2>5, <3>1, <3>2, Zenon DEF OneChange
    <3>4. Losable' <=> Losable
      BY <1>1, Zenon DEF Losable
    <3> QED
      BY <1>1, <2>4, <2>6, <3>3, <3>4, Zenon
  <2>9. Settled(view, disk)'
    BY <1>1, <2>4, <2>5, Zenon DEF Settled
  <2>10. Alone(x, j)
    BY <1>1, <2>2, Becomes, Zenon
  <2>11. LegacyFirst(published)' /\ Sound(published, Chain(view.CURRENT), view)'
    BY <1>1, <2>4, <2>6, <2>7, Zenon
  <2>12. JobChained(published', Chain(view.CURRENT)', view', j)
    BY <1>1, <2>6, <2>7, Zenon
  <2>13. j.pc \in Unsynced
    BY <2>2, Zenon DEF Unsynced
  <2> QED
    BY <1>1, <2>8, <2>9, <2>10, <2>11, <2>12, <2>13, DirectoryMoved, Zenon
<1>3. CASE Finish(x) /\ UNCHANGED view
  BY <1>1, <1>3, DirectoryFinishes, Zenon
<1> QED
  BY <1>1, <1>2, <1>3, Zenon DEF RenameAway, Jobs

LEMMA PointDirectory ==
  ASSUME RegistryInv, NEW x \in Writers, Point(x)
  PROVE  DirectoryInv'
<1> DEFINE C == Chain(view.CURRENT)
           s == job[x].snapshot
<1>1. /\ job[x] \in Jobs /\ JobSound(job[x]) /\ job[x].pc = "pointing" /\ ReadableInv
      /\ UNCHANGED <<published, disk, faults>>
  BY JobType, Zenon DEF Point, RegistryInv
<1>2. PICK j \in Jobs : j.pc = "pointed" /\ Become(x, j)
  <2>1. Become(x, Moving(job[x], "pointed"))
    BY Zenon DEF Point, Moving
  <2> QED
    BY <1>1, <2>1, MovingType, Zenon
<1>3. /\ s \in view.dirs /\ Previous(s) = view.CURRENT /\ disk.CURRENT = view.CURRENT
      /\ s \in 1..Len(published)
  BY <1>1, Zenon DEF JobSound, ReadableInv, PointersSound
<1>4. view'.CURRENT = s /\ view'.boundary = view.boundary /\ view'.dirs = view.dirs
  BY <1>1, Zenon DEF Point, RegistryInv, ReadableInv, RegistryTypeOK, Directory
<1>5. /\ Sound(published, C, view) /\ Settled(view, disk) /\ LegacyFirst(published)
      /\ Losable => view = disk /\ Sound(published, Chain(disk.CURRENT), disk)
  BY <1>1, DirectoryNow, Zenon DEF Unsynced
<1>6. Chain(view.CURRENT)' = {s} \cup C /\ Chain(disk.CURRENT)' = Chain(disk.CURRENT)
  BY <1>1, <1>3, <1>4, RegistryChained, ChainStep, SMTT(30) DEF Chain, Previous
<1>7. \A t \in C : t < s
  <2>1. s \in Nat /\ view.CURRENT \in Nat /\ view.CURRENT < s
    BY <1>1, <1>3, RegistryChained, DirectoryTypes, SMTT(30)
  <2>2. \A t \in C : t <= view.CURRENT
    BY <1>1, RegistryChained, ChainDescends, Zenon DEF Chain
  <2>3. \A t \in C : t \in Nat
    BY <1>1, RegistryChained, Zenon DEF Descends
  <2> HIDE DEF C, s
  <2> QED
    BY <2>1, <2>2, <2>3
<1> HIDE DEF C, s
<1>8. Sound(published, Chain(view.CURRENT), view)'
  <2>1. Sound(published, {s} \cup C, view')
    BY <1>3, <1>4, <1>5, <1>7 DEF Sound
  <2> QED
    BY <1>1, <1>6, <2>1, Zenon
<1>9. (Losable => Sound(published, Chain(disk.CURRENT), disk) /\ OneChange(view, disk))'
  BY <1>1, <1>4, <1>5, <1>6, Zenon DEF Losable, OneChange
<1>10. Settled(view, disk)'
  BY <1>1, <1>4, <1>5, Zenon DEF Settled
<1>11. JobChained(published', Chain(view.CURRENT)', view', j)
  BY <1>2, IdleChained, Zenon DEF Pruning
<1>12. Alone(x, j) /\ LegacyFirst(published)' /\ j.pc \in Unsynced
  BY <1>1, <1>2, <1>5, Becomes, Zenon DEF Unsynced
<1> QED
  BY <1>1, <1>8, <1>9, <1>10, <1>11, <1>12, DirectoryMoved, Zenon

(* A snapshot installed above the chain changes nothing for readers. *)
LEMMA SoundKept ==
  ASSUME NEW p, NEW q, NEW C, NEW d, Sound(p, C, d), \A s \in C : q[s] = p[s],
         NEW e, e.CURRENT = d.CURRENT, e.boundary = d.boundary, e.dirs \cap C = d.dirs \cap C
  PROVE  Sound(q, C, e)
<1>1. e.boundary # 0 => e.boundary \in C /\ e.boundary < e.CURRENT
  BY Zenon DEF Sound
<1>2. ASSUME NEW s \in C, s \notin e.dirs
      PROVE  /\ s < e.boundary
             /\ \A t \in C : t < s => t \notin e.dirs \/ q[t].previous = 0
  <2>1. s \in C \ d.dirs
    BY <1>2, Zenon
  <2> QED
    BY <2>1, Zenon DEF Sound
<1> QED
  BY <1>1, <1>2, Zenon DEF Sound

LEMMA Extended ==
  ASSUME NEW p, Chained(p), NEW r \in Published, r.previous <= Len(p)
  PROVE  /\ Chained(Append(p, r)) /\ Len(Append(p, r)) = Len(p) + 1
         /\ \A s \in 1..Len(p) : Append(p, r)[s] = p[s]
         /\ \A h \in 0..Len(p) : ChainIn(Append(p, r), h) = ChainIn(p, h)
<1> DEFINE q == Append(p, r)
<1>1. p \in Seq(Published) /\ Len(p) \in Nat /\ r.previous \in Nat
  BY RegistryAssumption DEF Chained, Published
<1>2. /\ q \in Seq(Published) /\ Len(q) = Len(p) + 1 /\ q[Len(p) + 1] = r
      /\ \A s \in 1..Len(p) : q[s] = p[s]
  BY <1>1
<1>3. ASSUME NEW s \in 1..Len(q) PROVE q[s].previous < s
  <2>1. CASE s \in 1..Len(p)
    BY <1>2, <2>1, Zenon DEF Chained
  <2>2. CASE s = Len(p) + 1
    BY <1>1, <1>2, <2>2
  <2> QED
    BY <1>1, <1>2, <2>1, <2>2
<1> HIDE DEF q
<1>4. Chained(q) /\ Len(p) <= Len(q)
  BY <1>1, <1>2, <1>3 DEF Chained
<1>5. \A h \in 0..Len(p) : ChainIn(q, h) = ChainIn(p, h)
  BY <1>2, <1>4, ChainKept, Zenon
<1> QED
  BY <1>2, <1>4, <1>5, Zenon DEF q

LEMMA InstallChains ==
  ASSUME ReadableInv, NEW x \in Writers, Install(x)
  PROVE  /\ Chained(published') /\ Len(published') = Len(published) + 1
         /\ \A s \in 1..Len(published) : published'[s] = published[s]
         /\ \A h \in 0..Len(published) : ChainIn(published', h) = ChainIn(published, h)
         /\ published'[Len(published) + 1] = [previous |-> job[x].previous, legacy |-> FALSE]
<1> DEFINE r == [previous |-> job[x].previous, legacy |-> FALSE]
<1>1. JobSound(job[x]) /\ job[x].pc = "chained" /\ published' = Append(published, r)
  BY JobType, Zenon DEF Install
<1>2. Chained(published) /\ Len(published) \in Nat /\ view.CURRENT \in 0..Len(published)
  BY RegistryChained, Zenon
<1>3. job[x].previous = view.CURRENT
  BY <1>1, Zenon DEF JobSound
<1>4. r \in Published /\ r.previous <= Len(published)
  BY <1>2, <1>3, DirectoryTypes DEF Published
<1> HIDE DEF r
<1>5. published'[Len(published) + 1] = r
  BY <1>1, <1>2 DEF Chained
<1> QED
  BY <1>1, <1>2, <1>4, <1>5, Extended, Zenon DEF r

LEMMA InstallDirectory ==
  ASSUME RegistryInv, NEW x \in Writers, Install(x)
  PROVE  DirectoryInv'
<1> DEFINE C == Chain(view.CURRENT)
           D == Chain(disk.CURRENT)
<1>0. PICK s \in Snapshots : s = Len(published) + 1
  BY Zenon DEF Install
<1>1. /\ job[x] \in Jobs /\ job[x].pc = "chained" /\ ReadableInv /\ UNCHANGED <<disk, faults>>
  BY JobType, Zenon DEF Install, RegistryInv
<1>2. PICK j \in Jobs : j.pc = "installed" /\ Become(x, j)
  <2> DEFINE k == [job[x] EXCEPT !.pc = "installed", !.snapshot = s]
  <2>1. s \in 0..MaxSnapshots
    BY RegistryAssumption DEF Snapshots
  <2>2. k \in Jobs
    BY <1>1, <2>1, Zenon DEF Jobs
  <2>3. k.pc = "installed"
    BY <1>1, Zenon DEF Jobs
  <2>4. Become(x, k)
    BY <1>0, Zenon DEF Install
  <2> QED
    BY <2>2, <2>3, <2>4, Zenon
<1>3. /\ view'.CURRENT = view.CURRENT /\ view'.boundary = view.boundary
      /\ view'.dirs = view.dirs \cup {s}
  BY <1>0, Zenon DEF Install, RegistryInv, ReadableInv, RegistryTypeOK, Directory
<1>4. /\ Sound(published, C, view) /\ Settled(view, disk) /\ LegacyFirst(published)
      /\ Losable => view = disk /\ Sound(published, D, disk)
  BY <1>1, DirectoryNow, Zenon DEF Unsynced
<1>5. /\ Chained(published') /\ \A t \in 1..Len(published) : published'[t] = published[t]
      /\ Chain(view.CURRENT)' = C /\ Chain(disk.CURRENT)' = D
  <2>1. view.CURRENT \in 0..Len(published) /\ disk.CURRENT \in 0..Len(published)
    BY <1>1, RegistryChained, Zenon
  <2>2. \A h \in 0..Len(published) : ChainIn(published', h) = ChainIn(published, h)
    BY <1>1, InstallChains, Zenon
  <2> QED
    BY <1>1, <1>3, <2>1, <2>2, InstallChains, Zenon DEF Chain
<1>6. \A t \in C \cup D : t \in 1..Len(published)
  BY <1>1, RegistryChained, ChainBelow, Zenon DEF Chain
<1>7. s \notin C \cup D /\ s > view.CURRENT
  BY <1>0, <1>1, <1>6, RegistryChained
<1> HIDE DEF C, D
<1>8. Sound(published, Chain(view.CURRENT), view)'
  <2>1. Sound(published', C, view')
    BY <1>3, <1>4, <1>5, <1>6, <1>7, SoundKept, Zenon
  <2> QED
    BY <1>5, <2>1, Zenon
<1>9. (Losable => Sound(published, Chain(disk.CURRENT), disk) /\ OneChange(view, disk))'
  <2>1. Losable => Sound(published', D, disk)
    BY <1>4, <1>5, <1>6, SoundKept, Zenon
  <2>2. Losable => OneChange(view', disk)
    BY <1>3, <1>4, <1>7, Zenon DEF OneChange
  <2> QED
    BY <1>1, <1>5, <2>1, <2>2, Zenon DEF Losable
<1>10. Settled(view, disk)'
  BY <1>1, <1>3, <1>4, Zenon DEF Settled
<1>11. JobChained(published', Chain(view.CURRENT)', view', j)
  BY <1>2, IdleChained, Zenon DEF Pruning
<1>12. Alone(x, j) /\ j.pc \in Unsynced
  BY <1>1, <1>2, Becomes, Zenon DEF Unsynced
<1>13. LegacyFirst(published)'
  <2>1. /\ Len(published) \in Nat /\ Len(published') = Len(published) + 1
        /\ DOMAIN published' = 1..Len(published') /\ DOMAIN published = 1..Len(published)
    <3>1. Chained(published) /\ Len(published') = Len(published) + 1
      BY <1>1, InstallChains, RegistryChained, Zenon
    <3> QED
      BY <1>5, <3>1 DEF Chained
  <2>2. ~published'[Len(published) + 1].legacy
    <3>1. published'[Len(published) + 1] = [previous |-> job[x].previous, legacy |-> FALSE]
      BY <1>1, InstallChains, Zenon
    <3> QED
      BY <3>1
  <2>3. ASSUME NEW t \in DOMAIN published', published'[t].legacy PROVE published'[t].previous = 0
    <3>1. t \in 1..Len(published)
      BY <2>1, <2>2, <2>3
    <3> QED
      BY <1>4, <1>5, <2>1, <2>3, <3>1, Zenon DEF LegacyFirst
  <2> QED
    BY <2>3, Zenon DEF LegacyFirst
<1> QED
  BY <1>1, <1>8, <1>9, <1>10, <1>11, <1>12, <1>13, DirectoryMoved, Zenon

-----------------------------------------------------------------------------
LEMMA SyncDirectory ==
  ASSUME RegistryInv, NEW x \in Writers, Sync(x)
  PROVE  DirectoryInv'
<1> DEFINE C == Chain(view.CURRENT)
<1>1. /\ job[x] \in Jobs /\ ReadableInv /\ UNCHANGED <<published, view, faults>> /\ disk' = view
      /\ job[x].pc \in Unsynced
  BY JobType, Zenon DEF Sync, RegistryInv, Unsynced
<1>2. /\ Sound(published, C, view) /\ LegacyFirst(published)
      /\ JobChained(published, C, view, job[x])
  BY <1>1, DirectoryNow, Zenon DEF Unsynced
<1>3. Chain(view.CURRENT)' = C /\ Chain(disk.CURRENT)' = C
  BY <1>1, Zenon DEF Chain
<1>4. PICK j \in Jobs : Alone(x, j) /\ JobChained(published, C, view, j)
  <2>1. CASE job[x].pc = "pointed"
    <3>1. Alone(x, NoJob)
      BY <1>1, <2>1, OthersIdle, NoJobType, Zenon DEF Sync, Finish, Alone, ReadableInv, RegistryTypeOK
    <3> QED
      BY <3>1, NoJobType, IdleChained, Zenon DEF Pruning
  <2>2. CASE job[x].pc = "installed"
    <3> DEFINE k == Moving(job[x], "pointing")
    <3>1. k \in Jobs /\ k.pc = "pointing" /\ Become(x, k)
      BY <1>1, <2>2, MovingType, Zenon DEF Sync, Moving
    <3> HIDE DEF k
    <3>2. Alone(x, k)
      BY <1>1, <2>2, <3>1, Becomes, Zenon
    <3> QED
      BY <3>1, <3>2, IdleChained, Zenon DEF Pruning
  <2>3. CASE job[x].pc \in {"bounded", "removed"}
    <3> DEFINE k == Moving(job[x], "removing")
    <3>1. /\ k \in Jobs /\ k.pc = "removing" /\ k.boundary = job[x].boundary
          /\ k.candidates = job[x].candidates /\ Become(x, k)
      BY <1>1, <2>3, MovingType, Zenon DEF Sync, Moving
    <3> HIDE DEF k, C
    <3>2. Alone(x, k)
      BY <1>1, <2>3, <3>1, Becomes, Zenon
    <3>3. Lowest(k) = Lowest(job[x])
      BY <3>1, Zenon DEF Lowest
    <3>4. JobChained(published, C, view, k)
      BY <1>2, <2>3, <3>1, <3>3, Zenon DEF JobChained, Pruning
    <3> QED
      BY <3>1, <3>2, <3>4, Zenon
  <2> QED
    BY <1>1, <2>1, <2>2, <2>3, Zenon DEF Unsynced
<1> HIDE DEF C
<1>5. LegacyFirst(published)' /\ Sound(published, Chain(view.CURRENT), view)'
  BY <1>1, <1>2, <1>3, Zenon
<1>6. (Losable => Sound(published, Chain(disk.CURRENT), disk) /\ OneChange(view, disk))'
  BY <1>1, <1>2, <1>3, Zenon DEF OneChange
<1>7. Settled(view, disk)'
  BY <1>1, <1>2, Zenon DEF Settled, Sound
<1>8. JobChained(published', Chain(view.CURRENT)', view', j) /\ view' = disk'
  BY <1>1, <1>3, <1>4, Zenon
<1> QED
  BY <1>1, <1>4, <1>5, <1>6, <1>7, <1>8, DirectoryMoved, Zenon

(* A writer killed before its sync uses up the one fault: no power loss    *)
(* follows.                                                                *)
LEMMA KillDirectory ==
  ASSUME OneUnsyncedFault, RegistryInv, NEW x \in Writers, Kill(x)
  PROVE  DirectoryInv'
<1>1. /\ job[x].pc # "idle" /\ Losable /\ (KillUnsynced \/ view = disk) /\ faults' = faults + 1
      /\ Finish(x) /\ UNCHANGED <<published, view, disk>>
  BY Zenon DEF Kill, Losable
<1>2. faults \in 0..MaxFaults /\ faults' \in 0..MaxFaults
  BY <1>1, RegistryAssumption DEF RegistryInv, ReadableInv, RegistryTypeOK, Losable
<1>3. Losable' => Losable /\ view = disk
  BY <1>1, <1>2, RegistryAssumption DEF Losable, OneUnsyncedFault
<1>4. Alone(x, NoJob)
  BY <1>1, <1>2, OthersIdle, NoJobType, Zenon DEF Finish, Alone, RegistryInv
<1>5. JobChained(published, Chain(view.CURRENT), view, NoJob)
  BY NoJobType, IdleChained, Zenon DEF Pruning
<1> QED
  BY <1>1, <1>3, <1>4, <1>5, NoJobType, DirectoryQuiet, Zenon

(* What a power loss leaves is the directory that processes saw or the one *)
(* that was durable, as only one change is ever between the two.           *)
LEMMA PowerLossLeaves ==
  ASSUME RegistryInv, PowerLoss
  PROVE  /\ Losable /\ disk' = view' /\ UNCHANGED published
         /\ Sound(published, Chain(view.CURRENT), view)
         /\ Sound(published, Chain(disk.CURRENT), disk) /\ OneChange(view, disk)
         /\ view' = view \/ view' = disk
<1>1. PICK c \in {view.CURRENT, disk.CURRENT}, b \in {view.boundary, disk.boundary},
           kept \in SUBSET ((view.dirs \cup disk.dirs) \ (view.dirs \cap disk.dirs)) :
        view' = [CURRENT |-> c, boundary |-> b, dirs |-> (view.dirs \cap disk.dirs) \cup kept]
  BY Zenon DEF PowerLoss
<1>2. Losable /\ disk' = view' /\ UNCHANGED published
  BY Zenon DEF PowerLoss, Losable
<1>3. /\ Sound(published, Chain(view.CURRENT), view)
      /\ Sound(published, Chain(disk.CURRENT), disk) /\ OneChange(view, disk)
  BY <1>2, Zenon DEF RegistryInv, DirectoryInv
<1>4. view \in Directory /\ disk \in Directory
  BY Zenon DEF RegistryInv, ReadableInv, RegistryTypeOK
<1>5. /\ view = [CURRENT |-> view.CURRENT, boundary |-> view.boundary, dirs |-> view.dirs]
      /\ disk = [CURRENT |-> disk.CURRENT, boundary |-> disk.boundary, dirs |-> disk.dirs]
  BY <1>4, Zenon DEF Directory
<1> DEFINE both == (view.dirs \cap disk.dirs) \cup kept
<1>6. CASE view.dirs = disk.dirs /\ (view.CURRENT = disk.CURRENT \/ view.boundary = disk.boundary)
  <2>1. both = view.dirs
    BY <1>6, Zenon
  <2> QED
    BY <1>1, <1>2, <1>3, <1>5, <1>6, <2>1, Zenon
<1>7. CASE /\ view.CURRENT = disk.CURRENT /\ view.boundary = disk.boundary
           /\ \E s \in Snapshots : \/ disk.dirs = view.dirs \cup {s}
                                   \/ view.dirs = disk.dirs \cup {s}
  <2>1. both = view.dirs \/ both = disk.dirs
    BY <1>7, Zenon
  <2> QED
    BY <1>1, <1>2, <1>3, <1>5, <1>7, <2>1, Zenon
<1> QED
  BY <1>3, <1>6, <1>7, Zenon DEF OneChange

LEMMA PowerLossDirectory ==
  ASSUME RegistryInv, PowerLoss
  PROVE  DirectoryInv'
<1>1. /\ disk' = view' /\ UNCHANGED published /\ (view' = view \/ view' = disk)
      /\ Sound(published, Chain(view.CURRENT), view) /\ Sound(published, Chain(disk.CURRENT), disk)
  BY PowerLossLeaves, Zenon
<1>2. Sound(published, Chain(view.CURRENT), view)' /\ Chain(disk.CURRENT)' = Chain(view.CURRENT)'
  BY <1>1, Zenon DEF Chain
<1>3. LegacyFirst(published)'
  BY <1>1, Zenon DEF RegistryInv, DirectoryInv
<1>4. OneChange(view, disk)' /\ Settled(view, disk)'
  BY <1>1, <1>2, Zenon DEF OneChange, Settled, Sound
<1>5. ASSUME NEW x \in Writers
      PROVE  JobChained(published', Chain(view.CURRENT)', view', job'[x])
  <2>1. job'[x].pc = "idle"
    BY NoJobType, Zenon DEF PowerLoss
  <2> QED
    BY <2>1, IdleChained, Zenon DEF Pruning
<1>6. Sound(published, Chain(disk.CURRENT), disk)' /\ view' = disk'
  BY <1>1, <1>2, Zenon
<1> QED
  BY <1>2, <1>3, <1>4, <1>5, <1>6, Zenon DEF DirectoryInv

-----------------------------------------------------------------------------
LEMMA UntouchedDirectory ==
  ASSUME RegistryInv, UNCHANGED <<published, view, disk, lock, job, faults>>
  PROVE  DirectoryInv'
<1>1. Chain(view.CURRENT)' = Chain(view.CURRENT) /\ Chain(disk.CURRENT)' = Chain(disk.CURRENT)
  BY Zenon DEF Chain
<1>2. Losable' <=> Losable
  BY Zenon DEF Losable
<1> QED
  BY <1>1, <1>2, Zenon DEF RegistryInv, DirectoryInv

LEMMA DirectoryInit == RegistryInit => DirectoryInv
<1> SUFFICES ASSUME RegistryInit PROVE DirectoryInv
  BY Zenon
<1>1. ReadableInv
  BY InitInv, Zenon
<1>2. LegacyFirst(published)
  BY DEF RegistryInit, LegacyFirst
<1>3. /\ view.boundary = 0 /\ disk = view /\ Chain(view.CURRENT) \subseteq view.dirs
  <2>1. view.boundary = 0 /\ disk = view /\ view.dirs = 1..Len(published)
    BY <1>1 DEF RegistryInit, ReadableInv, RegistryTypeOK
  <2> QED
    BY <1>1, <2>1, RegistryChained, ChainBelow, Zenon DEF Chain
<1>4. Sound(published, Chain(view.CURRENT), view)
  BY <1>3, Zenon DEF Sound
<1>5. OneChange(view, disk) /\ Settled(view, disk)
  BY <1>3, Zenon DEF OneChange, Settled
<1>6. ASSUME NEW x \in Writers
      PROVE  JobChained(published, Chain(view.CURRENT), view, job[x])
  BY NoJobType, IdleChained, Zenon DEF RegistryInit, Pruning
<1> QED
  BY <1>2, <1>3, <1>4, <1>5, <1>6, Zenon DEF DirectoryInv

LEMMA DirectoryNext ==
  ASSUME OneUnsyncedFault, RegistryInv, [RegistryNext]_vars
  PROVE  DirectoryInv'
<1>1. CASE RetentionPass
  BY <1>1, RetainDirectory, Zenon DEF RetentionPass
<1>2. ASSUME NEW x \in Writers, Prepare(x) \/ WriterStep(x) \/ Kill(x) PROVE DirectoryInv'
  BY <1>2, PrepareDirectory, PredecessorDirectory, InstallDirectory, PointDirectory, SyncDirectory,
     WindowDirectory, CandidatesDirectory, WriteRetentionDirectory, RenameAwayDirectory,
     KillDirectory, Zenon DEF WriterStep
<1>3. CASE PowerLoss
  BY <1>3, PowerLossDirectory, Zenon
<1>4. ASSUME NEW r \in Readers, NEW w, Step(r, w) PROVE DirectoryInv'
  BY <1>4, UntouchedDirectory, Zenon DEF Step
<1>5. CASE \E r \in Readers :
       \/ \E before \in 0..Len(published), limit \in Limits : HistoryPage(r, before, limit)
       \/ ManifestByHash(r) \/ ReadTable(r) \/ ReadCurrent(r) \/ PinHead(r)
       \/ ReadManifest(r) \/ ReadRecord(r) \/ CrossedBoundary(r)
  <2>1. PICK r \in Readers : \E w : Step(r, w)
    BY <1>5, Zenon DEF HistoryPage, ManifestByHash, ReadTable, ReadCurrent, PinHead, ReadManifest,
                ReadRecord, CrossedBoundary
  <2> QED
    BY <1>4, <2>1, Zenon
<1>6. CASE UNCHANGED vars
  BY <1>6, UntouchedDirectory, Zenon DEF vars
<1> QED
  BY <1>1, <1>2, <1>3, <1>5, <1>6, Zenon DEF RegistryNext

LEMMA RegistryStays == OneUnsyncedFault /\ RegistrySpec => []RegistryInv
<1>1. RegistryInit => RegistryInv
  BY InitInv, DirectoryInit, Zenon DEF RegistryInv
<1>2. OneUnsyncedFault /\ RegistryInv /\ [RegistryNext]_vars => RegistryInv'
  BY NextInv, DirectoryNext, Zenon DEF RegistryInv
<1>3. OneUnsyncedFault => OneUnsyncedFault'
  BY Zenon
<1> QED
  BY <1>1, <1>2, <1>3, PTL DEF RegistrySpec

-----------------------------------------------------------------------------
(* The registry implements the log of publications: one lemma per step     *)
(* that changes it.                                                        *)
Logged == <<Chain(view.CURRENT), Chain(disk.CURRENT), Chain(view.CURRENT) \ view.dirs>>

LEMMA LogInits == RegistryInit => Log!LogInit
<1> SUFFICES ASSUME RegistryInit PROVE Log!LogInit
  BY Zenon
<1>1. Chained(published) /\ view.CURRENT = Len(published) /\ disk = view
  BY InitInv, RegistryChained, Zenon DEF RegistryInit
<1>2. Chain(view.CURRENT) \subseteq view.dirs
  <2>1. view.dirs = 1..Len(published) /\ Len(published) \in 0..Len(published)
    BY <1>1 DEF RegistryInit, Chained
  <2> QED
    BY <1>1, <2>1, ChainBelow, Zenon DEF Chain
<1>3. Chain(view.CURRENT) \in {{}, {1}}
  <2>1. CASE published = <<>>
    <3>1. view.CURRENT = 0
      BY <1>1, <2>1, Zenon
    <3> QED
      BY <1>1, <3>1, ChainStep, Zenon DEF Chain
  <2>2. CASE Len(published) = 1 /\ published[1].previous = 0
    <3>1. ChainIn(published, 1) = {1} \cup ChainIn(published, 0) /\ ChainIn(published, 0) = {}
      BY <1>1, <2>2, ChainStep
    <3> QED
      BY <1>1, <2>2, <3>1, Zenon DEF Chain
  <2>3. published = <<>> \/ (Len(published) = 1 /\ published[1].previous = 0)
    BY DEF RegistryInit
  <2> QED
    BY <2>1, <2>2, <2>3, Zenon
<1> QED
  BY <1>1, <1>2, <1>3, Zenon DEF Log!LogInit

LEMMA PointLogs ==
  ASSUME RegistryInv, NEW x \in Writers, Point(x)
  PROVE  Log!Publish
<1> DEFINE s == job[x].snapshot
<1>1. ReadableInv /\ JobSound(job[x]) /\ job[x].pc = "pointing" /\ UNCHANGED <<published, disk>>
  BY JobType, Zenon DEF Point, RegistryInv
<1>2. /\ s \in view.dirs /\ Previous(s) = view.CURRENT /\ disk.CURRENT = view.CURRENT
      /\ s \in 1..Len(published)
  BY <1>1, Zenon DEF JobSound, ReadableInv, PointersSound
<1>3. view'.CURRENT = s /\ view'.dirs = view.dirs
  BY <1>1, Zenon DEF Point, RegistryInv, ReadableInv, RegistryTypeOK, Directory
<1>4. Chain(view.CURRENT)' = Chain(view.CURRENT) \cup {s} /\ UNCHANGED Chain(disk.CURRENT)
  BY <1>1, <1>2, <1>3, RegistryChained, ChainStep, SMTT(30) DEF Chain, Previous
<1>5. ASSUME NEW t \in Chain(view.CURRENT) PROVE t < s
  <2>1. t \in 1..view.CURRENT
    BY <1>1, RegistryChained, ChainBelow, Zenon DEF Chain
  <2>2. view.CURRENT \in Nat /\ s \in Nat /\ view.CURRENT < s
    BY <1>1, <1>2, DirectoryTypes
  <2> QED
    BY <2>1, <2>2
<1> HIDE DEF s
<1>6. UNCHANGED (Chain(view.CURRENT) \ view.dirs)
  BY <1>2, <1>3, <1>4, Zenon
<1>7. Chain(disk.CURRENT) = Chain(view.CURRENT)
  BY <1>2, Zenon
<1>8. s \in Chain(view.CURRENT)'
  BY <1>4, Zenon
<1> QED
  BY <1>4, <1>5, <1>6, <1>7, <1>8, Zenon DEF Log!Publish

LEMMA SyncLogs ==
  ASSUME RegistryInv, NEW x \in Writers, Sync(x)
  PROVE  Log!Settle
<1>1. UNCHANGED <<published, view>> /\ disk' = view
  BY Zenon DEF Sync
<1> QED
  BY <1>1, Zenon DEF Log!Settle, Chain

LEMMA InstallLogs ==
  ASSUME RegistryInv, NEW x \in Writers, Install(x)
  PROVE  UNCHANGED Logged
<1>1. ReadableInv /\ UNCHANGED disk
  BY Zenon DEF Install, RegistryInv
<1>2. view'.CURRENT = view.CURRENT /\ view'.dirs = view.dirs \cup {Len(published) + 1}
  BY Zenon DEF Install, RegistryInv, ReadableInv, RegistryTypeOK, Directory
<1>3. /\ Chained(published) /\ view.CURRENT \in 0..Len(published) /\ Len(published) \in Nat
      /\ disk.CURRENT \in 0..Len(published)
  BY <1>1, RegistryChained, Zenon
<1>4. \A h \in 0..Len(published) : ChainIn(published', h) = ChainIn(published, h)
  BY <1>1, InstallChains, Zenon
<1>5. UNCHANGED Chain(view.CURRENT) /\ UNCHANGED Chain(disk.CURRENT)
  BY <1>1, <1>2, <1>3, <1>4, Zenon DEF Chain
<1>6. Len(published) + 1 \notin Chain(view.CURRENT)
  <2>1. \A s \in Chain(view.CURRENT) : s \in 1..Len(published)
    BY <1>3, ChainBelow, Zenon DEF Chain
  <2> QED
    BY <1>3, <2>1
<1> QED
  BY <1>2, <1>5, <1>6, Zenon DEF Logged

(* Above what a pass removes there are two settled snapshots: its boundary *)
(* and the durable CURRENT.                                                *)
LEMMA RenameAwayLogs ==
  ASSUME RegistryInv, NEW x \in Writers, RenameAway(x)
  PROVE  Log!Retire \/ UNCHANGED Logged
<1> DEFINE C == Chain(view.CURRENT)
           D == Chain(disk.CURRENT)
           s == Lowest(job[x])
<1>1. /\ job[x] \in Jobs /\ JobSound(job[x]) /\ job[x].pc = "removing" /\ ReadableInv
      /\ UNCHANGED <<published, disk>>
  BY JobType, Zenon DEF RenameAway, RegistryInv
<1>2. CASE job[x].candidates # <<>> /\ job[x].pruned < Budget
  <2>1. /\ view'.CURRENT = view.CURRENT /\ view'.boundary = view.boundary
        /\ view'.dirs = view.dirs \ {s}
    <3>1. view' = [view EXCEPT !.dirs = @ \ {s}]
      BY <1>1, <1>2 DEF RenameAway, OldestFirst, Jobs, Lowest
    <3> QED
      BY <3>1, Zenon DEF RegistryInv, ReadableInv, RegistryTypeOK, Directory
  <2>2. s < job[x].boundary
    <3>1. job[x].candidates \in Seq(Snapshots)
      BY <1>1, Zenon DEF Jobs
    <3>2. Len(job[x].candidates) \in 1..Len(job[x].candidates)
      BY <1>2, <3>1
    <3> QED
      BY <1>1, <1>2, <3>2, Zenon DEF JobSound, Pruning, Lowest
  <2>3. /\ JobChained(published, C, view, job[x]) /\ Sound(published, C, view)
        /\ Settled(view, disk) /\ Descends(published, C) /\ Descends(published, D)
    BY <1>1, DirectoryNow, RegistryChained, Zenon
  <2>4. /\ s \in C /\ s < view.boundary
        /\ \A t \in C : t < s => t \notin view.dirs \/ published[t].previous = 0
    <3>1. PICK d : d = view'
      BY Zenon
    <3> HIDE DEF C
    <3> QED
      BY <1>1, <1>2, <2>1, <2>2, <2>3, <3>1, Removal, SMTT(30)
  <2>5. UNCHANGED C /\ UNCHANGED D
    BY <1>1, <2>1, Zenon DEF Chain
  <2>6. view.boundary \in C /\ view.boundary < disk.CURRENT /\ view.boundary \in Nat \ {0}
    <3>1. view.boundary \in Nat /\ s \in Nat \ {0} /\ disk.CURRENT \in Nat
      BY <1>1, <2>3, <2>4, DirectoryTypes, SMTT(30) DEF Descends
    <3> HIDE DEF C, s
    <3> QED
      BY <2>3, <2>4, <3>1 DEF Sound, Settled
  <2>7. view.boundary \in D /\ disk.CURRENT \in D
    <3>1. CASE disk.CURRENT = view.CURRENT
      BY <1>1, <2>6, <3>1, RegistryChained, ChainDescends, Zenon DEF Chain
    <3>2. CASE view.CURRENT # 0 /\ disk.CURRENT = Previous(view.CURRENT)
      <4>1. view.CURRENT \in C /\ disk.CURRENT \in Nat
        BY <1>1, <3>2, RegistryChained, ChainDescends DEF Chain
      <4>2. C = {view.CURRENT} \cup D
        BY <1>1, <3>2, RegistryChained, ChainDescends DEF Chain, Previous
      <4>3. view.boundary < view.CURRENT /\ view.CURRENT \in Nat
        BY <1>1, <2>3, <2>6, RegistryChained, SMTT(30) DEF Sound
      <4>4. disk.CURRENT # 0
        BY <2>6, <4>1
      <4>5. disk.CURRENT \in D
        BY <1>1, <4>4, RegistryChained, ChainDescends, Zenon DEF Chain
      <4> HIDE DEF C, D
      <4> QED
        BY <2>6, <4>2, <4>3, <4>5
    <3> QED
      BY <1>1, <3>1, <3>2, Zenon DEF ReadableInv, PointersSound
  <2>8. \E t, u \in D : s < t /\ t < u
    <3>1. s \in Nat /\ view.boundary \in Nat /\ disk.CURRENT \in Nat
      BY <1>1, <2>3, <2>4, DirectoryTypes, SMTT(30) DEF Descends
    <3> HIDE DEF C, D, s
    <3> QED
      BY <2>4, <2>6, <2>7, <3>1, Zenon
  <2>9. ASSUME NEW t \in C, t < s PROVE t \in C \ view.dirs \/ \A u \in C : t <= u
    <3> HIDE DEF C, s
    <3>1. CASE published[t].previous = 0
      <4>1. ASSUME NEW u \in C PROVE t <= u
        <5>1. t \in Nat /\ u \in Nat \ {0} /\ (u < t => u <= 0)
          BY <2>3, <3>1, Zenon DEF Descends
        <5> QED
          BY <5>1
      <4> QED
        BY <4>1, Zenon
    <3> QED
      BY <2>4, <2>9, <3>1, Zenon
  <2>10. s \notin view.dirs => UNCHANGED Logged
    BY <2>1, <2>5, Zenon DEF Logged
  <2>11. s \in view.dirs => Log!Retire
    <3>1. (C \ view.dirs)' = (C \ view.dirs) \cup {s}
      BY <2>1, <2>4, <2>5, Zenon
    <3>2. s \in view.dirs => s \in C \ (C \ view.dirs)
      BY <2>4, Zenon
    <3> HIDE DEF s
    <3> QED
      BY <2>5, <2>8, <2>9, <3>1, <3>2, Zenon DEF Log!Retire
  <2> QED
    BY <2>10, <2>11, Zenon
<1>3. CASE UNCHANGED view
  BY <1>1, <1>3, Zenon DEF Logged, Chain
<1> QED
  BY <1>1, <1>2, <1>3, Zenon DEF RenameAway, Jobs

-----------------------------------------------------------------------------
LEMMA PowerLossLogs ==
  ASSUME RegistryInv, PowerLoss
  PROVE  Log!LosePower
<1> DEFINE C == Chain(view.CURRENT)
           D == Chain(disk.CURRENT)
<1>1. /\ ReadableInv /\ disk' = view' /\ UNCHANGED published /\ OneChange(view, disk)
      /\ view' = view \/ view' = disk
  BY PowerLossLeaves, Zenon DEF RegistryInv
<1>2. Chain(disk.CURRENT)' = Chain(view.CURRENT)'
  BY <1>1, Zenon
<1>3. CASE view' = view
  <2>1. UNCHANGED C /\ UNCHANGED (C \ view.dirs)
    BY <1>1, <1>3, Zenon DEF Chain
  <2> QED
    BY <1>2, <2>1, Zenon DEF Log!LosePower
<1>4. CASE view' = disk
  <2>1. C' = D /\ (C \ view.dirs)' = D \ disk.dirs
    BY <1>1, <1>4, Zenon DEF Chain
  <2>2. \/ D \ disk.dirs = C \ view.dirs
        \/ \E s \in C \ view.dirs : D \ disk.dirs = (C \ view.dirs) \ {s}
    <3>1. CASE view.dirs = disk.dirs
      <4>1. CASE disk.CURRENT = view.CURRENT
        BY <3>1, <4>1, Zenon
      <4>2. CASE view.CURRENT # 0 /\ disk.CURRENT = Previous(view.CURRENT)
        <5>1. C = {view.CURRENT} \cup D
          BY <1>1, <4>2, RegistryChained, ChainDescends DEF Chain, Previous
        <5>2. view.CURRENT \in view.dirs
          BY <1>1, <4>2, Zenon DEF ReadableInv, CurrentReadable
        <5> HIDE DEF C, D
        <5> QED
          BY <3>1, <5>1, <5>2, Zenon
      <4> QED
        BY <1>1, <4>1, <4>2, Zenon DEF ReadableInv, PointersSound
    <3>2. ASSUME NEW s \in Snapshots, view.CURRENT = disk.CURRENT, disk.dirs = view.dirs \cup {s}
          PROVE  \/ D \ disk.dirs = C \ view.dirs
                 \/ \E t \in C \ view.dirs : D \ disk.dirs = (C \ view.dirs) \ {t}
      <4>1. C = D
        BY <3>2, Zenon
      <4> HIDE DEF C, D
      <4> QED
        BY <3>2, <4>1, Zenon
    <3>3. ASSUME NEW s \in Snapshots, view.CURRENT = disk.CURRENT, s > view.CURRENT,
                 view.dirs = disk.dirs \cup {s}
          PROVE  D \ disk.dirs = C \ view.dirs
      <4>1. C = D
        BY <3>3, Zenon
      <4>2. s \notin C
        <5>1. \A t \in C : t \in 1..view.CURRENT
          BY <1>1, RegistryChained, ChainBelow, Zenon DEF Chain
        <5>2. view.CURRENT \in Nat /\ s \in Nat
          BY <1>1, DirectoryTypes DEF Snapshots
        <5> HIDE DEF C
        <5> QED
          BY <3>3, <5>1, <5>2
      <4> HIDE DEF C, D
      <4> QED
        BY <3>3, <4>1, <4>2, Zenon
    <3> QED
      BY <1>1, <3>1, <3>2, <3>3, Zenon DEF OneChange
  <2> QED
    BY <1>2, <2>1, <2>2, Zenon DEF Log!LosePower
<1> QED
  BY <1>1, <1>3, <1>4, Zenon

(* Every other step leaves the pointers and the directories alone. *)
LEMMA LogNexts ==
  ASSUME RegistryInv, [RegistryNext]_vars
  PROVE  [Log!LogNext]_Logged
<1>1. ASSUME UNCHANGED <<published, view, disk>> PROVE UNCHANGED Logged
  BY <1>1, Zenon DEF Logged, Chain
<1>2. ASSUME NEW x \in Writers, WriteRetention(x) PROVE UNCHANGED Logged
  <2>1. view'.CURRENT = view.CURRENT /\ view'.dirs = view.dirs /\ UNCHANGED <<published, disk>>
    BY <1>2, Zenon DEF WriteRetention, RegistryInv, ReadableInv, RegistryTypeOK, Directory
  <2> QED
    BY <2>1, Zenon DEF Logged, Chain
<1>3. ASSUME NEW x \in Writers, Prepare(x) \/ WriterStep(x) \/ Kill(x)
      PROVE  [Log!LogNext]_Logged
  <2>1. CASE Point(x) \/ Sync(x) \/ Install(x) \/ RenameAway(x) \/ WriteRetention(x)
    BY <1>2, <2>1, PointLogs, SyncLogs, InstallLogs, RenameAwayLogs, Zenon DEF Log!LogNext
  <2>2. CASE Prepare(x) \/ ReadPredecessor(x) \/ Window(x) \/ Candidates(x) \/ Kill(x)
    BY <1>1, <2>2, Zenon DEF Prepare, Start, ReadPredecessor, Window, Candidates, Kill
  <2> QED
    BY <1>3, <2>1, <2>2, Zenon DEF WriterStep
<1>4. CASE RetentionPass
  BY <1>1, <1>4, Zenon DEF RetentionPass, Retain, Start
<1>5. CASE PowerLoss
  BY <1>5, PowerLossLogs, Zenon DEF Log!LogNext
<1>6. CASE \E r \in Readers :
       \/ \E before \in 0..Len(published), limit \in Limits : HistoryPage(r, before, limit)
       \/ ManifestByHash(r) \/ ReadTable(r) \/ ReadCurrent(r) \/ PinHead(r)
       \/ ReadManifest(r) \/ ReadRecord(r) \/ CrossedBoundary(r)
  <2>1. UNCHANGED <<published, view, disk>>
    BY <1>6, Zenon DEF HistoryPage, ManifestByHash, ReadTable, ReadCurrent, PinHead, ReadManifest,
                ReadRecord, CrossedBoundary, Step
  <2> QED
    BY <1>1, <2>1, Zenon
<1>7. CASE UNCHANGED vars
  BY <1>1, <1>7, Zenon DEF vars
<1> QED
  BY <1>3, <1>4, <1>5, <1>6, <1>7, Zenon DEF RegistryNext

(* The directory implements the durable log with retention                 *)
(* (PublicationLog), for any number of writers, snapshots and readers and  *)
(* any keep_snapshots of at least two: a power loss takes back one         *)
(* publication at most and only one that was never acknowledged, and what  *)
(* prune_within removes always has two newer settled snapshots.  Writers   *)
(* are killed after a sync any number of times, or once at any step.       *)
THEOREM LogIsDurable == OneUnsyncedFault /\ RegistrySpec => LogSpec
<1>1. RegistryInit => Log!LogInit
  BY LogInits, Zenon
<1>2. RegistryInv /\ [RegistryNext]_vars => [Log!LogNext]_Logged
  BY LogNexts, Zenon
<1> QED
  BY <1>1, <1>2, RegistryStays, PTL DEF RegistrySpec, LogSpec, Log!LogSpec, Logged

=============================================================================
