------------------------- MODULE AssetDispatchProofs -------------------------
(***************************************************************************)
(* Proofs that the asset dispatcher never asks twice for one execution,    *)
(* shows as completed only what the updater completed, always leaves a     *)
(* ledger that opens again, and lets no identity be overtaken for long:    *)
(* for any number of identities and crashes, any capacity and batch limit. *)
(***************************************************************************)
EXTENDS AssetRotation, FiniteSetTheorems, TLAPS

(* No POST of k is on its way and none was ever accepted. *)
Clean(k) == accepted[k] = 0 /\ k \notin transit

(* What the disk says of k against what the updater may have seen. *)
EntryInv(k) ==
  /\ accepted[k] \in {0, 1}
  /\ k \in transit => accepted[k] = 0
  /\ state[k] \in {"absent", "pending"} /\ k \notin archived => Clean(k)
  /\ k \in archived => state[k] \in {"absent", "completed"}
  /\ jobs[k] # "none" => accepted[k] = 1
  /\ state[k] = "completed" => job[k] = k
  /\ state[k] = "completed" \/ k \in archived => jobs[k] = "completed"

Open == {"pending", "sending", "submitted"}

(* What the worker relies on for the entry in work. *)
WorkInv ==
  /\ pc \in {"posting", "waiting", "polling", "deciding", "archiving"} => head \in Keys
  /\ pc = "posting" => state[head] = "sending" /\ Clean(head)
  /\ pc = "waiting" => state[head] = "sending"
  /\ pc = "polling" => state[head] = "submitted"
  /\ pc = "archiving" => state[head] = "completed" /\ head \in archived
  /\ pc = "deciding" =>
       /\ state[head] \in {"sending", "submitted"}
       /\ reply = "busy" => Clean(head)
       /\ reply = "completed" => jobs[head] = "completed"
       /\ reply = "completed" /\ state[head] = "submitted" => job[head] = head

(* The rest of the batch is unfinished work, disjoint from the head. *)
BatchInv ==
  /\ batch # {} => pc \in {"working", "posting", "waiting", "polling", "deciding"}
  /\ \A k \in batch : state[k] \in Open /\ (pc # "working" => k # head)

DispatchInv ==
  /\ DispatchTypeOK
  /\ \A k \in Keys : EntryInv(k)
  /\ WorkInv
  /\ BatchInv
  /\ LedgerOpens
-----------------------------------------------------------------------------
(* Facts about the operators. *)

LEMMA Ranges ==
  /\ \A k \in Keys : k \in 0..N
  /\ 0 \in 0..N
  /\ 0 \in 0..(MaxRefusals - 1)
BY DispatchAssumption DEF Keys

LEMMA EntriesFinite == IsFiniteSet(Entries)
<1>1. IsFiniteSet(Keys)
  BY DispatchAssumption, FS_Interval DEF Keys
<1> QED BY <1>1, FS_Subset DEF Entries

(* A step that neither adds nor removes an entry leaves a ledger that opens. *)
LEMMA SameEntries ==
  ASSUME LedgerOpens, cursor' = cursor,
         \A k \in Keys : state'[k] = "absent" <=> state[k] = "absent"
  PROVE  LedgerOpens'
<1>1. Entries' = Entries
  BY DEF Entries
<1> QED BY <1>1 DEF LedgerOpens, Opens

-----------------------------------------------------------------------------
(* Every action preserves the invariant: one lemma per action, one step    *)
(* per conjunct.                                                           *)

LEMMA ObserveInv ==
  ASSUME DispatchInv, NEW k \in Keys, Observe(k)
  PROVE  DispatchInv'
<1> USE DispatchAssumption DEF DispatchInv, disk, memory, remote
<1>1. DispatchTypeOK'
  BY Ranges DEF DispatchTypeOK, WorkInv, Observe, Set, Unknown, Room, Replies, Outcomes,
     Terminal
<1>2. ASSUME NEW i \in Keys PROVE EntryInv(i)'
  BY DEF DispatchTypeOK, EntryInv, Clean, WorkInv, BatchInv, Observe, Set, Unknown, Room,
     Open, Terminal
<1>3. WorkInv'
  BY DEF DispatchTypeOK, EntryInv, Clean, WorkInv, BatchInv, Observe, Set, Unknown, Room,
     Open
<1>4. BatchInv'
  BY DEF DispatchTypeOK, WorkInv, BatchInv, Observe, Set, Unknown, Room, Open
<1>5. LedgerOpens'
  <2>1. Entries' = Entries \cup {k}
    BY DEF DispatchTypeOK, Entries, Observe, Set
  <2>2. IsFiniteSet(Entries) /\ k \notin Entries
    BY EntriesFinite DEF Entries, Observe, Unknown
  <2>3. Cardinality(Entries') = Cardinality(Entries) + 1
    BY <2>1, <2>2, FS_AddElement
  <2>4. Cardinality(Entries) \in Nat
    BY <2>2, FS_CardinalityType
  <2> QED BY <2>1, <2>3, <2>4 DEF LedgerOpens, Opens, Observe, Room
<1> QED BY <1>1, <1>2, <1>3, <1>4, <1>5

LEMMA ObservedInv ==
  ASSUME DispatchInv, Observed
  PROVE  DispatchInv'
<1> USE DispatchAssumption DEF DispatchInv, disk, memory, remote
<1>1. DispatchTypeOK'
  BY Ranges DEF DispatchTypeOK, WorkInv, Observed, Replies, Outcomes, Terminal
<1>2. ASSUME NEW i \in Keys PROVE EntryInv(i)'
  BY DEF DispatchTypeOK, EntryInv, Clean, WorkInv, BatchInv, Observed, Open, Terminal
<1>3. WorkInv'
  BY DEF DispatchTypeOK, EntryInv, Clean, WorkInv, BatchInv, Observed, Open
<1>4. BatchInv'
  BY DEF DispatchTypeOK, WorkInv, BatchInv, Observed, Open
<1>5. LedgerOpens'
  BY SameEntries DEF DispatchTypeOK, WorkInv, BatchInv, Observed, Open
<1> QED BY <1>1, <1>2, <1>3, <1>4, <1>5

LEMMA NextBatchInv ==
  ASSUME DispatchInv, NextBatch
  PROVE  DispatchInv'
<1> USE DispatchAssumption DEF DispatchInv, disk, memory, remote
<1>1. DispatchTypeOK'
  BY Ranges DEF DispatchTypeOK, WorkInv, NextBatch, NextCursor, Selected, NonTerminal,
     Entries, Terminal, Replies, Outcomes, Terminal
<1>2. ASSUME NEW i \in Keys PROVE EntryInv(i)'
  BY DEF DispatchTypeOK, EntryInv, Clean, WorkInv, BatchInv, NextBatch, NextCursor,
     Selected, NonTerminal, Entries, Terminal, Open, Terminal
<1>3. WorkInv'
  BY DEF DispatchTypeOK, EntryInv, Clean, WorkInv, BatchInv, NextBatch, NextCursor,
     Selected, NonTerminal, Entries, Terminal, Open
<1>4. BatchInv'
  BY DEF DispatchTypeOK, WorkInv, BatchInv, NextBatch, NextCursor, Selected, NonTerminal,
     Entries, Terminal, Open
<1>5. LedgerOpens'
  <2>1. Entries' = Entries
    BY DEF Entries, NextBatch
  <2>2. cursor' \in Entries \cup {0}
    BY DEF LedgerOpens, Opens, NextBatch, NextCursor, Selected, NonTerminal
  <2> QED BY <2>1, <2>2 DEF LedgerOpens, Opens
<1> QED BY <1>1, <1>2, <1>3, <1>4, <1>5

LEMMA TargetRemovedInv ==
  ASSUME DispatchInv, NEW k \in Keys, TargetRemoved(k)
  PROVE  DispatchInv'
<1> USE DispatchAssumption DEF DispatchInv, disk, memory, remote
<1>1. DispatchTypeOK'
  BY Ranges DEF DispatchTypeOK, WorkInv, TargetRemoved, Begin, First, Set, Forget, Replies,
     Outcomes, Terminal
<1>2. ASSUME NEW i \in Keys PROVE EntryInv(i)'
  BY DEF DispatchTypeOK, EntryInv, Clean, WorkInv, BatchInv, TargetRemoved, Begin, First,
     Set, Forget, Open, Terminal
<1>3. WorkInv'
  BY DEF DispatchTypeOK, EntryInv, Clean, WorkInv, BatchInv, TargetRemoved, Begin, First,
     Set, Forget, Open
<1>4. BatchInv'
  BY DEF DispatchTypeOK, WorkInv, BatchInv, TargetRemoved, Begin, First, Set, Forget, Open
<1>5. LedgerOpens'
  BY SameEntries DEF DispatchTypeOK, WorkInv, BatchInv, TargetRemoved, Begin, First, Set,
     Forget, Open
<1> QED BY <1>1, <1>2, <1>3, <1>4, <1>5

LEMMA BeginSendInv ==
  ASSUME DispatchInv, NEW k \in Keys, BeginSend(k)
  PROVE  DispatchInv'
<1> USE DispatchAssumption DEF DispatchInv, disk, memory, remote
<1>1. DispatchTypeOK'
  BY Ranges DEF DispatchTypeOK, WorkInv, BeginSend, Begin, First, Set, Replies, Outcomes,
     Terminal
<1>2. ASSUME NEW i \in Keys PROVE EntryInv(i)'
  BY DEF DispatchTypeOK, EntryInv, Clean, WorkInv, BatchInv, BeginSend, Begin, First, Set,
     Open, Terminal
<1>3. WorkInv'
  BY DEF DispatchTypeOK, EntryInv, Clean, WorkInv, BatchInv, BeginSend, Begin, First, Set,
     Open
<1>4. BatchInv'
  BY DEF DispatchTypeOK, WorkInv, BatchInv, BeginSend, Begin, First, Set, Open
<1>5. LedgerOpens'
  BY SameEntries DEF DispatchTypeOK, WorkInv, BatchInv, BeginSend, Begin, First, Set, Open
<1> QED BY <1>1, <1>2, <1>3, <1>4, <1>5

LEMMA AmbiguousInv ==
  ASSUME DispatchInv, NEW k \in Keys, Ambiguous(k)
  PROVE  DispatchInv'
<1> USE DispatchAssumption DEF DispatchInv, disk, memory, remote
<1>1. DispatchTypeOK'
  BY Ranges DEF DispatchTypeOK, WorkInv, Ambiguous, Begin, First, Set, Forget, Replies,
     Outcomes, Terminal
<1>2. ASSUME NEW i \in Keys PROVE EntryInv(i)'
  BY DEF DispatchTypeOK, EntryInv, Clean, WorkInv, BatchInv, Ambiguous, Begin, First, Set,
     Forget, Open, Terminal
<1>3. WorkInv'
  BY DEF DispatchTypeOK, EntryInv, Clean, WorkInv, BatchInv, Ambiguous, Begin, First, Set,
     Forget, Open
<1>4. BatchInv'
  BY DEF DispatchTypeOK, WorkInv, BatchInv, Ambiguous, Begin, First, Set, Forget, Open
<1>5. LedgerOpens'
  BY SameEntries DEF DispatchTypeOK, WorkInv, BatchInv, Ambiguous, Begin, First, Set,
     Forget, Open
<1> QED BY <1>1, <1>2, <1>3, <1>4, <1>5

LEMMA BeginPollInv ==
  ASSUME DispatchInv, NEW k \in Keys, BeginPoll(k)
  PROVE  DispatchInv'
<1> USE DispatchAssumption DEF DispatchInv, disk, memory, remote
<1>1. DispatchTypeOK'
  BY Ranges DEF DispatchTypeOK, WorkInv, BeginPoll, Begin, First, Replies, Outcomes,
     Terminal
<1>2. ASSUME NEW i \in Keys PROVE EntryInv(i)'
  BY DEF DispatchTypeOK, EntryInv, Clean, WorkInv, BatchInv, BeginPoll, Begin, First, Open,
     Terminal
<1>3. WorkInv'
  BY DEF DispatchTypeOK, EntryInv, Clean, WorkInv, BatchInv, BeginPoll, Begin, First, Open
<1>4. BatchInv'
  BY DEF DispatchTypeOK, WorkInv, BatchInv, BeginPoll, Begin, First, Open
<1>5. LedgerOpens'
  BY SameEntries DEF DispatchTypeOK, WorkInv, BatchInv, BeginPoll, Begin, First, Open
<1> QED BY <1>1, <1>2, <1>3, <1>4, <1>5

LEMMA EndBatchInv ==
  ASSUME DispatchInv, EndBatch
  PROVE  DispatchInv'
<1> USE DispatchAssumption DEF DispatchInv, disk, memory, remote
<1>1. DispatchTypeOK'
  BY Ranges DEF DispatchTypeOK, WorkInv, EndBatch, Replies, Outcomes, Terminal
<1>2. ASSUME NEW i \in Keys PROVE EntryInv(i)'
  BY DEF DispatchTypeOK, EntryInv, Clean, WorkInv, BatchInv, EndBatch, Open, Terminal
<1>3. WorkInv'
  BY DEF DispatchTypeOK, EntryInv, Clean, WorkInv, BatchInv, EndBatch, Open
<1>4. BatchInv'
  BY DEF DispatchTypeOK, WorkInv, BatchInv, EndBatch, Open
<1>5. LedgerOpens'
  BY SameEntries DEF DispatchTypeOK, WorkInv, BatchInv, EndBatch, Open
<1> QED BY <1>1, <1>2, <1>3, <1>4, <1>5

LEMMA PostInv ==
  ASSUME DispatchInv, Post
  PROVE  DispatchInv'
<1> USE DispatchAssumption DEF DispatchInv, disk, memory, remote
<1>1. DispatchTypeOK'
  BY Ranges DEF DispatchTypeOK, WorkInv, Post, Replies, Outcomes, Terminal
<1>2. ASSUME NEW i \in Keys PROVE EntryInv(i)'
  BY DEF DispatchTypeOK, EntryInv, Clean, WorkInv, BatchInv, Post, Open, Terminal
<1>3. WorkInv'
  BY DEF DispatchTypeOK, EntryInv, Clean, WorkInv, BatchInv, Post, Open
<1>4. BatchInv'
  BY DEF DispatchTypeOK, WorkInv, BatchInv, Post, Open
<1>5. LedgerOpens'
  BY SameEntries DEF DispatchTypeOK, WorkInv, BatchInv, Post, Open
<1> QED BY <1>1, <1>2, <1>3, <1>4, <1>5

LEMMA InvalidRequestInv ==
  ASSUME DispatchInv, InvalidRequest
  PROVE  DispatchInv'
<1> USE DispatchAssumption DEF DispatchInv, disk, memory, remote
<1>1. DispatchTypeOK'
  BY Ranges DEF DispatchTypeOK, WorkInv, InvalidRequest, Receive, Replies, Outcomes,
     Terminal
<1>2. ASSUME NEW i \in Keys PROVE EntryInv(i)'
  BY DEF DispatchTypeOK, EntryInv, Clean, WorkInv, BatchInv, InvalidRequest, Receive, Open,
     Terminal
<1>3. WorkInv'
  BY DEF DispatchTypeOK, EntryInv, Clean, WorkInv, BatchInv, InvalidRequest, Receive, Open
<1>4. BatchInv'
  BY DEF DispatchTypeOK, WorkInv, BatchInv, InvalidRequest, Receive, Open
<1>5. LedgerOpens'
  BY SameEntries DEF DispatchTypeOK, WorkInv, BatchInv, InvalidRequest, Receive, Open
<1> QED BY <1>1, <1>2, <1>3, <1>4, <1>5

LEMMA AcceptInv ==
  ASSUME DispatchInv, NEW k \in Keys, Accept(k)
  PROVE  DispatchInv'
<1> USE DispatchAssumption DEF DispatchInv, disk, memory, remote
<1>1. DispatchTypeOK'
  BY Ranges DEF DispatchTypeOK, WorkInv, Accept, Receive, Awaited, Shown, Replies, Outcomes,
     Terminal
<1>2. ASSUME NEW i \in Keys PROVE EntryInv(i)'
  BY DEF DispatchTypeOK, EntryInv, Clean, WorkInv, BatchInv, Accept, Receive, Awaited,
     Shown, Open, Terminal
<1>3. WorkInv'
  BY DEF DispatchTypeOK, EntryInv, Clean, WorkInv, BatchInv, Accept, Receive, Awaited,
     Shown, Open
<1>4. BatchInv'
  BY DEF DispatchTypeOK, WorkInv, BatchInv, Accept, Receive, Awaited, Shown, Open
<1>5. LedgerOpens'
  BY SameEntries DEF DispatchTypeOK, WorkInv, BatchInv, Accept, Receive, Awaited, Shown,
     Open
<1> QED BY <1>1, <1>2, <1>3, <1>4, <1>5

LEMMA RefuseInv ==
  ASSUME DispatchInv, NEW k \in Keys, Refuse(k)
  PROVE  DispatchInv'
<1> USE DispatchAssumption DEF DispatchInv, disk, memory, remote
<1>1. DispatchTypeOK'
  BY Ranges DEF DispatchTypeOK, WorkInv, Refuse, Receive, Awaited, Replies, Outcomes,
     Terminal
<1>2. ASSUME NEW i \in Keys PROVE EntryInv(i)'
  BY DEF DispatchTypeOK, EntryInv, Clean, WorkInv, BatchInv, Refuse, Receive, Awaited, Open,
     Terminal
<1>3. WorkInv'
  BY DEF DispatchTypeOK, EntryInv, Clean, WorkInv, BatchInv, Refuse, Receive, Awaited, Open
<1>4. BatchInv'
  BY DEF DispatchTypeOK, WorkInv, BatchInv, Refuse, Receive, Awaited, Open
<1>5. LedgerOpens'
  BY SameEntries DEF DispatchTypeOK, WorkInv, BatchInv, Refuse, Receive, Awaited, Open
<1> QED BY <1>1, <1>2, <1>3, <1>4, <1>5

LEMMA TimeOutInv ==
  ASSUME DispatchInv, TimeOut
  PROVE  DispatchInv'
<1> USE DispatchAssumption DEF DispatchInv, disk, memory, remote
<1>1. DispatchTypeOK'
  BY Ranges DEF DispatchTypeOK, WorkInv, TimeOut, Receive, Replies, Outcomes, Terminal
<1>2. ASSUME NEW i \in Keys PROVE EntryInv(i)'
  BY DEF DispatchTypeOK, EntryInv, Clean, WorkInv, BatchInv, TimeOut, Receive, Open,
     Terminal
<1>3. WorkInv'
  BY DEF DispatchTypeOK, EntryInv, Clean, WorkInv, BatchInv, TimeOut, Receive, Open
<1>4. BatchInv'
  BY DEF DispatchTypeOK, WorkInv, BatchInv, TimeOut, Receive, Open
<1>5. LedgerOpens'
  BY SameEntries DEF DispatchTypeOK, WorkInv, BatchInv, TimeOut, Receive, Open
<1> QED BY <1>1, <1>2, <1>3, <1>4, <1>5

LEMMA PollInv ==
  ASSUME DispatchInv, Poll
  PROVE  DispatchInv'
<1> USE DispatchAssumption DEF DispatchInv, disk, memory, remote
<1>1. DispatchTypeOK'
  BY Ranges DEF DispatchTypeOK, WorkInv, Poll, Receive, Found, Known, Shown, Replies,
     Outcomes, Terminal
<1>2. ASSUME NEW i \in Keys PROVE EntryInv(i)'
  BY DEF DispatchTypeOK, EntryInv, Clean, WorkInv, BatchInv, Poll, Receive, Found, Known,
     Shown, Open, Terminal
<1>3. WorkInv'
  BY DEF DispatchTypeOK, EntryInv, Clean, WorkInv, BatchInv, Poll, Receive, Found, Known,
     Shown, Open
<1>4. BatchInv'
  BY DEF DispatchTypeOK, WorkInv, BatchInv, Poll, Receive, Found, Known, Shown, Open
<1>5. LedgerOpens'
  BY SameEntries DEF DispatchTypeOK, WorkInv, BatchInv, Poll, Receive, Found, Known, Shown,
     Open
<1> QED BY <1>1, <1>2, <1>3, <1>4, <1>5

LEMMA JobEndsInv ==
  ASSUME DispatchInv, NEW k \in Keys, JobEnds(k)
  PROVE  DispatchInv'
<1> USE DispatchAssumption DEF DispatchInv, disk, memory, remote
<1>1. DispatchTypeOK'
  BY Ranges DEF DispatchTypeOK, WorkInv, JobEnds, Replies, Outcomes, Terminal
<1>2. ASSUME NEW i \in Keys PROVE EntryInv(i)'
  BY DEF DispatchTypeOK, EntryInv, Clean, WorkInv, BatchInv, JobEnds, Open, Terminal
<1>3. WorkInv'
  BY DEF DispatchTypeOK, EntryInv, Clean, WorkInv, BatchInv, JobEnds, Open
<1>4. BatchInv'
  BY DEF DispatchTypeOK, WorkInv, BatchInv, JobEnds, Open
<1>5. LedgerOpens'
  BY SameEntries DEF DispatchTypeOK, WorkInv, BatchInv, JobEnds, Open
<1> QED BY <1>1, <1>2, <1>3, <1>4, <1>5

LEMMA JobForgottenInv ==
  ASSUME DispatchInv, NEW k \in Keys, JobForgotten(k)
  PROVE  DispatchInv'
<1> USE DispatchAssumption DEF DispatchInv, disk, memory, remote
<1>1. DispatchTypeOK'
  BY Ranges DEF DispatchTypeOK, WorkInv, JobForgotten, Replies, Outcomes, Terminal
<1>2. ASSUME NEW i \in Keys PROVE EntryInv(i)'
  BY DEF DispatchTypeOK, EntryInv, Clean, WorkInv, BatchInv, JobForgotten, Open, Terminal
<1>3. WorkInv'
  BY DEF DispatchTypeOK, EntryInv, Clean, WorkInv, BatchInv, JobForgotten, Open
<1>4. BatchInv'
  BY DEF DispatchTypeOK, WorkInv, BatchInv, JobForgotten, Open
<1>5. LedgerOpens'
  BY SameEntries DEF DispatchTypeOK, WorkInv, BatchInv, JobForgotten, Open
<1> QED BY <1>1, <1>2, <1>3, <1>4, <1>5

LEMMA AcknowledgeInv ==
  ASSUME DispatchInv, Acknowledge
  PROVE  DispatchInv'
<1> USE DispatchAssumption DEF DispatchInv, disk, memory, remote
<1>1. DispatchTypeOK'
  BY Ranges DEF DispatchTypeOK, WorkInv, Acknowledge, Set, Forget, Replies, Outcomes,
     Terminal
<1>2. ASSUME NEW i \in Keys PROVE EntryInv(i)'
  BY DEF DispatchTypeOK, EntryInv, Clean, WorkInv, BatchInv, Acknowledge, Set, Forget, Open,
     Terminal
<1>3. WorkInv'
  BY DEF DispatchTypeOK, EntryInv, Clean, WorkInv, BatchInv, Acknowledge, Set, Forget, Open
<1>4. BatchInv'
  BY DEF DispatchTypeOK, WorkInv, BatchInv, Acknowledge, Set, Forget, Open
<1>5. LedgerOpens'
  BY SameEntries DEF DispatchTypeOK, WorkInv, BatchInv, Acknowledge, Set, Forget, Open
<1> QED BY <1>1, <1>2, <1>3, <1>4, <1>5

LEMMA RetainInv ==
  ASSUME DispatchInv, Retain
  PROVE  DispatchInv'
<1> USE DispatchAssumption DEF DispatchInv, disk, memory, remote
<1>1. DispatchTypeOK'
  BY Ranges DEF DispatchTypeOK, WorkInv, Retain, Decided, Replies, Outcomes, Terminal
<1>2. ASSUME NEW i \in Keys PROVE EntryInv(i)'
  BY DEF DispatchTypeOK, EntryInv, Clean, WorkInv, BatchInv, Retain, Decided, Open, Terminal
<1>3. WorkInv'
  BY DEF DispatchTypeOK, EntryInv, Clean, WorkInv, BatchInv, Retain, Decided, Open
<1>4. BatchInv'
  BY DEF DispatchTypeOK, WorkInv, BatchInv, Retain, Decided, Open
<1>5. LedgerOpens'
  BY SameEntries DEF DispatchTypeOK, WorkInv, BatchInv, Retain, Decided, Open
<1> QED BY <1>1, <1>2, <1>3, <1>4, <1>5

LEMMA CompleteInv ==
  ASSUME DispatchInv, Complete
  PROVE  DispatchInv'
<1> USE DispatchAssumption DEF DispatchInv, disk, memory, remote
<1>1. DispatchTypeOK'
  BY Ranges DEF DispatchTypeOK, WorkInv, Complete, Decided, Set, Confirms, Replies,
     Outcomes, Terminal
<1>2. ASSUME NEW i \in Keys PROVE EntryInv(i)'
  BY DEF DispatchTypeOK, EntryInv, Clean, WorkInv, BatchInv, Complete, Decided, Set,
     Confirms, Open, Terminal
<1>3. WorkInv'
  BY DEF DispatchTypeOK, EntryInv, Clean, WorkInv, BatchInv, Complete, Decided, Set,
     Confirms, Open
<1>4. BatchInv'
  BY DEF DispatchTypeOK, WorkInv, BatchInv, Complete, Decided, Set, Confirms, Open
<1>5. LedgerOpens'
  BY SameEntries DEF DispatchTypeOK, WorkInv, BatchInv, Complete, Decided, Set, Confirms,
     Open
<1> QED BY <1>1, <1>2, <1>3, <1>4, <1>5

LEMMA FailJobInv ==
  ASSUME DispatchInv, FailJob
  PROVE  DispatchInv'
<1> USE DispatchAssumption DEF DispatchInv, disk, memory, remote
<1>1. DispatchTypeOK'
  BY Ranges DEF DispatchTypeOK, WorkInv, FailJob, Decided, Set, Forget, Replies, Outcomes,
     Terminal
<1>2. ASSUME NEW i \in Keys PROVE EntryInv(i)'
  BY DEF DispatchTypeOK, EntryInv, Clean, WorkInv, BatchInv, FailJob, Decided, Set, Forget,
     Open, Terminal
<1>3. WorkInv'
  BY DEF DispatchTypeOK, EntryInv, Clean, WorkInv, BatchInv, FailJob, Decided, Set, Forget,
     Open
<1>4. BatchInv'
  BY DEF DispatchTypeOK, WorkInv, BatchInv, FailJob, Decided, Set, Forget, Open
<1>5. LedgerOpens'
  BY SameEntries DEF DispatchTypeOK, WorkInv, BatchInv, FailJob, Decided, Set, Forget, Open
<1> QED BY <1>1, <1>2, <1>3, <1>4, <1>5

LEMMA FailPostInv ==
  ASSUME DispatchInv, FailPost
  PROVE  DispatchInv'
<1> USE DispatchAssumption DEF DispatchInv, disk, memory, remote
<1>1. DispatchTypeOK'
  BY Ranges DEF DispatchTypeOK, WorkInv, FailPost, Decided, Set, Forget, Replies, Outcomes,
     Terminal
<1>2. ASSUME NEW i \in Keys PROVE EntryInv(i)'
  BY DEF DispatchTypeOK, EntryInv, Clean, WorkInv, BatchInv, FailPost, Decided, Set, Forget,
     Open, Terminal
<1>3. WorkInv'
  BY DEF DispatchTypeOK, EntryInv, Clean, WorkInv, BatchInv, FailPost, Decided, Set, Forget,
     Open
<1>4. BatchInv'
  BY DEF DispatchTypeOK, WorkInv, BatchInv, FailPost, Decided, Set, Forget, Open
<1>5. LedgerOpens'
  BY SameEntries DEF DispatchTypeOK, WorkInv, BatchInv, FailPost, Decided, Set, Forget, Open
<1> QED BY <1>1, <1>2, <1>3, <1>4, <1>5

LEMMA BusyInv ==
  ASSUME DispatchInv, Busy
  PROVE  DispatchInv'
<1> USE DispatchAssumption DEF DispatchInv, disk, memory, remote
<1>1. DispatchTypeOK'
  BY Ranges DEF DispatchTypeOK, WorkInv, Busy, Decided, Set, DefinitelyRefused, LastChance,
     Replies, Outcomes, Terminal
<1>2. ASSUME NEW i \in Keys PROVE EntryInv(i)'
  BY DEF DispatchTypeOK, EntryInv, Clean, WorkInv, BatchInv, Busy, Decided, Set,
     DefinitelyRefused, LastChance, Open, Terminal
<1>3. WorkInv'
  BY DEF DispatchTypeOK, EntryInv, Clean, WorkInv, BatchInv, Busy, Decided, Set,
     DefinitelyRefused, LastChance, Open
<1>4. BatchInv'
  BY DEF DispatchTypeOK, WorkInv, BatchInv, Busy, Decided, Set, DefinitelyRefused,
     LastChance, Open
<1>5. LedgerOpens'
  BY SameEntries DEF DispatchTypeOK, WorkInv, BatchInv, Busy, Decided, Set,
     DefinitelyRefused, LastChance, Open
<1> QED BY <1>1, <1>2, <1>3, <1>4, <1>5

LEMMA UnstorableInv ==
  ASSUME DispatchInv, Unstorable
  PROVE  DispatchInv'
<1> USE DispatchAssumption DEF DispatchInv, disk, memory, remote
<1>1. DispatchTypeOK'
  BY Ranges DEF DispatchTypeOK, WorkInv, Unstorable, Stop, Replies, Outcomes, Terminal
<1>2. ASSUME NEW i \in Keys PROVE EntryInv(i)'
  BY DEF DispatchTypeOK, EntryInv, Clean, WorkInv, BatchInv, Unstorable, Stop, Open,
     Terminal
<1>3. WorkInv'
  BY DEF DispatchTypeOK, EntryInv, Clean, WorkInv, BatchInv, Unstorable, Stop, Open
<1>4. BatchInv'
  BY DEF DispatchTypeOK, WorkInv, BatchInv, Unstorable, Stop, Open
<1>5. LedgerOpens'
  BY SameEntries DEF DispatchTypeOK, WorkInv, BatchInv, Unstorable, Stop, Open
<1> QED BY <1>1, <1>2, <1>3, <1>4, <1>5

LEMMA CommitFailsInv ==
  ASSUME DispatchInv, CommitFails
  PROVE  DispatchInv'
<1> USE DispatchAssumption DEF DispatchInv, disk, memory, remote
<1>1. DispatchTypeOK'
  BY Ranges DEF DispatchTypeOK, WorkInv, CommitFails, Stop, Replies, Outcomes, Terminal
<1>2. ASSUME NEW i \in Keys PROVE EntryInv(i)'
  BY DEF DispatchTypeOK, EntryInv, Clean, WorkInv, BatchInv, CommitFails, Stop, Open,
     Terminal
<1>3. WorkInv'
  BY DEF DispatchTypeOK, EntryInv, Clean, WorkInv, BatchInv, CommitFails, Stop, Open
<1>4. BatchInv'
  BY DEF DispatchTypeOK, WorkInv, BatchInv, CommitFails, Stop, Open
<1>5. LedgerOpens'
  BY SameEntries DEF DispatchTypeOK, WorkInv, BatchInv, CommitFails, Stop, Open
<1> QED BY <1>1, <1>2, <1>3, <1>4, <1>5

LEMMA ArchiveInv ==
  ASSUME DispatchInv, NEW k \in Keys, Archive(k)
  PROVE  DispatchInv'
<1> USE DispatchAssumption DEF DispatchInv, disk, memory, remote
<1>1. DispatchTypeOK'
  BY Ranges DEF DispatchTypeOK, WorkInv, Archive, Replies, Outcomes, Terminal
<1>2. ASSUME NEW i \in Keys PROVE EntryInv(i)'
  BY DEF DispatchTypeOK, EntryInv, Clean, WorkInv, BatchInv, Archive, Open, Terminal
<1>3. WorkInv'
  BY DEF DispatchTypeOK, EntryInv, Clean, WorkInv, BatchInv, Archive, Open
<1>4. BatchInv'
  BY DEF DispatchTypeOK, WorkInv, BatchInv, Archive, Open
<1>5. LedgerOpens'
  BY SameEntries DEF DispatchTypeOK, WorkInv, BatchInv, Archive, Open
<1> QED BY <1>1, <1>2, <1>3, <1>4, <1>5

LEMMA ArchiveForgetInv ==
  ASSUME DispatchInv, ArchiveForget
  PROVE  DispatchInv'
<1> USE DispatchAssumption DEF DispatchInv, disk, memory, remote
<1>1. DispatchTypeOK'
  BY Ranges DEF DispatchTypeOK, WorkInv, ArchiveForget, Remove, Set, CursorWithout, Replies,
     Outcomes, Terminal
<1>2. ASSUME NEW i \in Keys PROVE EntryInv(i)'
  BY DEF DispatchTypeOK, EntryInv, Clean, WorkInv, BatchInv, ArchiveForget, Remove, Set,
     CursorWithout, Open, Terminal
<1>3. WorkInv'
  BY DEF DispatchTypeOK, EntryInv, Clean, WorkInv, BatchInv, ArchiveForget, Remove, Set,
     CursorWithout, Open
<1>4. BatchInv'
  BY DEF DispatchTypeOK, WorkInv, BatchInv, ArchiveForget, Remove, Set, CursorWithout, Open
<1>5. LedgerOpens'
  <2>1. Entries' = Entries \ {head} /\ head \in Entries
    BY DEF DispatchTypeOK, WorkInv, Entries, ArchiveForget, Remove, Set
  <2>2. Cardinality(Entries') = Cardinality(Entries) - 1 /\ Cardinality(Entries) \in Nat
    BY <2>1, EntriesFinite, FS_RemoveElement, FS_CardinalityType
  <2>3. cursor' \in Entries' \cup {0}
    BY <2>1 DEF LedgerOpens, Opens, ArchiveForget, Remove, CursorWithout
  <2> QED BY <2>2, <2>3 DEF LedgerOpens, Opens
<1> QED BY <1>1, <1>2, <1>3, <1>4, <1>5

LEMMA ArchiveOfflineInv ==
  ASSUME DispatchInv, NEW k \in Keys, ArchiveOffline(k)
  PROVE  DispatchInv'
<1> USE DispatchAssumption DEF DispatchInv, disk, memory, remote
<1>1. DispatchTypeOK'
  BY Ranges DEF DispatchTypeOK, WorkInv, ArchiveOffline, Remove, Set, CursorWithout,
     Replies, Outcomes, Terminal
<1>2. ASSUME NEW i \in Keys PROVE EntryInv(i)'
  BY DEF DispatchTypeOK, EntryInv, Clean, WorkInv, BatchInv, ArchiveOffline, Remove, Set,
     CursorWithout, Open, Terminal
<1>3. WorkInv'
  BY DEF DispatchTypeOK, EntryInv, Clean, WorkInv, BatchInv, ArchiveOffline, Remove, Set,
     CursorWithout, Open
<1>4. BatchInv'
  BY DEF DispatchTypeOK, WorkInv, BatchInv, ArchiveOffline, Remove, Set, CursorWithout, Open
<1>5. CASE UNCHANGED <<state, job, cursor>>
  BY <1>5, SameEntries, <1>1, <1>2, <1>3, <1>4
<1>6. CASE Remove(k)
  <2>1. Entries' = Entries \ {k} /\ k \in Entries
    BY <1>6 DEF DispatchTypeOK, Entries, ArchiveOffline, Remove, Set
  <2>2. Cardinality(Entries') = Cardinality(Entries) - 1 /\ Cardinality(Entries) \in Nat
    BY <2>1, EntriesFinite, FS_RemoveElement, FS_CardinalityType
  <2>3. cursor' \in Entries' \cup {0}
    BY <1>6, <2>1 DEF LedgerOpens, Opens, Remove, CursorWithout
  <2>4. LedgerOpens'
    BY <2>2, <2>3 DEF LedgerOpens, Opens
  <2> QED BY <2>4, <1>1, <1>2, <1>3, <1>4
<1> QED BY <1>5, <1>6 DEF ArchiveOffline

LEMMA ArchiveFailsInv ==
  ASSUME DispatchInv, ArchiveFails
  PROVE  DispatchInv'
<1> USE DispatchAssumption DEF DispatchInv, disk, memory, remote
<1>1. DispatchTypeOK'
  BY Ranges DEF DispatchTypeOK, WorkInv, ArchiveFails, Replies, Outcomes, Terminal
<1>2. ASSUME NEW i \in Keys PROVE EntryInv(i)'
  BY DEF DispatchTypeOK, EntryInv, Clean, WorkInv, BatchInv, ArchiveFails, Open, Terminal
<1>3. WorkInv'
  BY DEF DispatchTypeOK, EntryInv, Clean, WorkInv, BatchInv, ArchiveFails, Open
<1>4. BatchInv'
  BY DEF DispatchTypeOK, WorkInv, BatchInv, ArchiveFails, Open
<1>5. LedgerOpens'
  BY SameEntries DEF DispatchTypeOK, WorkInv, BatchInv, ArchiveFails, Open
<1> QED BY <1>1, <1>2, <1>3, <1>4, <1>5

LEMMA AdoptInv ==
  ASSUME DispatchInv, NEW k \in Keys, NEW j \in Keys, Adopt(k, j)
  PROVE  DispatchInv'
<1> USE DispatchAssumption DEF DispatchInv, disk, memory, remote
<1>1. DispatchTypeOK'
  BY Ranges DEF DispatchTypeOK, WorkInv, Adopt, Set, Replies, Outcomes, Terminal
<1>2. ASSUME NEW i \in Keys PROVE EntryInv(i)'
  BY DEF DispatchTypeOK, EntryInv, Clean, WorkInv, BatchInv, Adopt, Set, Open, Terminal
<1>3. WorkInv'
  BY DEF DispatchTypeOK, EntryInv, Clean, WorkInv, BatchInv, Adopt, Set, Open
<1>4. BatchInv'
  BY DEF DispatchTypeOK, WorkInv, BatchInv, Adopt, Set, Open
<1>5. LedgerOpens'
  BY SameEntries DEF DispatchTypeOK, WorkInv, BatchInv, Adopt, Set, Open
<1> QED BY <1>1, <1>2, <1>3, <1>4, <1>5

LEMMA WakeInv ==
  ASSUME DispatchInv, Wake
  PROVE  DispatchInv'
<1> USE DispatchAssumption DEF DispatchInv, disk, memory, remote
<1>1. DispatchTypeOK'
  BY Ranges DEF DispatchTypeOK, WorkInv, Wake, Replies, Outcomes, Terminal
<1>2. ASSUME NEW i \in Keys PROVE EntryInv(i)'
  BY DEF DispatchTypeOK, EntryInv, Clean, WorkInv, BatchInv, Wake, Open, Terminal
<1>3. WorkInv'
  BY DEF DispatchTypeOK, EntryInv, Clean, WorkInv, BatchInv, Wake, Open
<1>4. BatchInv'
  BY DEF DispatchTypeOK, WorkInv, BatchInv, Wake, Open
<1>5. LedgerOpens'
  BY SameEntries DEF DispatchTypeOK, WorkInv, BatchInv, Wake, Open
<1> QED BY <1>1, <1>2, <1>3, <1>4, <1>5

LEMMA CrashInv ==
  ASSUME DispatchInv, Crash
  PROVE  DispatchInv'
<1> USE DispatchAssumption DEF DispatchInv, disk, memory, remote
<1>1. DispatchTypeOK'
  <2>1. crashes' \in 0..MaxCrashes
    BY DEF DispatchTypeOK, Crash
  <2>2. refusals' \in [Keys -> 0..(MaxRefusals - 1)]
    BY Ranges DEF Crash
  <2> QED BY <2>1, <2>2, Ranges DEF DispatchTypeOK, Crash, Replies, Outcomes
<1>2. ASSUME NEW i \in Keys PROVE EntryInv(i)'
  BY DEF DispatchTypeOK, EntryInv, Clean, WorkInv, BatchInv, Crash, Open, Terminal
<1>3. WorkInv'
  BY DEF DispatchTypeOK, EntryInv, Clean, WorkInv, BatchInv, Crash, Open
<1>4. BatchInv'
  BY DEF DispatchTypeOK, WorkInv, BatchInv, Crash, Open
<1>5. LedgerOpens'
  BY SameEntries DEF DispatchTypeOK, WorkInv, BatchInv, Crash, Open
<1> QED BY <1>1, <1>2, <1>3, <1>4, <1>5

LEMMA RestartInv ==
  ASSUME DispatchInv, Restart
  PROVE  DispatchInv'
<1> USE DispatchAssumption DEF DispatchInv, disk, memory, remote
<1>1. DispatchTypeOK'
  BY Ranges DEF DispatchTypeOK, WorkInv, Restart, Replies, Outcomes, Terminal
<1>2. ASSUME NEW i \in Keys PROVE EntryInv(i)'
  BY DEF DispatchTypeOK, EntryInv, Clean, WorkInv, BatchInv, Restart, Open, Terminal
<1>3. WorkInv'
  BY DEF DispatchTypeOK, EntryInv, Clean, WorkInv, BatchInv, Restart, Open
<1>4. BatchInv'
  BY DEF DispatchTypeOK, WorkInv, BatchInv, Restart, Open
<1>5. LedgerOpens'
  BY SameEntries DEF DispatchTypeOK, WorkInv, BatchInv, Restart, Open
<1> QED BY <1>1, <1>2, <1>3, <1>4, <1>5

-----------------------------------------------------------------------------
LEMMA InitInv == DispatchInit => DispatchInv
<1> SUFFICES ASSUME DispatchInit PROVE DispatchInv
  OBVIOUS
<1> USE DispatchAssumption
<1>1. DispatchTypeOK
  <2>1. crashes \in 0..MaxCrashes /\ refusals \in [Keys -> 0..(MaxRefusals - 1)]
    BY Ranges DEF DispatchInit
  <2>2. job \in [Keys -> 0..N] /\ accepted \in [Keys -> Nat]
    BY Ranges DEF DispatchInit
  <2> QED BY <2>1, <2>2, Ranges DEF DispatchInit, DispatchTypeOK, Replies
<1>2. \A k \in Keys : EntryInv(k)
  BY DEF DispatchInit, EntryInv, Clean
<1>3. WorkInv /\ BatchInv
  BY DEF DispatchInit, WorkInv, BatchInv
<1>4. LedgerOpens
  <2>1. Entries = {}
    BY DEF DispatchInit, Entries
  <2> QED BY <2>1, FS_EmptySet DEF DispatchInit, LedgerOpens, Opens
<1> QED BY <1>1, <1>2, <1>3, <1>4 DEF DispatchInv

LEMMA StutterInv == DispatchInv /\ UNCHANGED dispatchVars => DispatchInv'
BY SameEntries DEF DispatchInv, dispatchVars, disk, memory, remote, DispatchTypeOK,
   EntryInv,
   Clean, WorkInv, BatchInv

LEMMA NextInv == DispatchInv /\ DispatchNext => DispatchInv'
<1> SUFFICES ASSUME DispatchInv, DispatchNext PROVE DispatchInv'
  OBVIOUS
<1>1. CASE WorkerStep
  <2>1. ASSUME NEW k \in Keys, Observe(k) \/ Take(k) PROVE DispatchInv'
    BY <2>1, ObserveInv, TargetRemovedInv, BeginSendInv, AmbiguousInv, BeginPollInv DEF Take
  <2>2. CASE Observed \/ NextBatch \/ EndBatch \/ Post \/ InvalidRequest \/ TimeOut \/ Poll
    BY <2>2, ObservedInv, NextBatchInv, EndBatchInv, PostInv, InvalidRequestInv, TimeOutInv,
       PollInv
  <2>3. CASE Decide
    BY <2>3, AcknowledgeInv, RetainInv, CompleteInv, FailJobInv, FailPostInv, BusyInv,
       UnstorableInv DEF Decide
  <2>4. CASE ArchiveForget \/ ArchiveFails \/ Wake \/ Restart
    BY <2>4, ArchiveForgetInv, ArchiveFailsInv, WakeInv, RestartInv
  <2> QED BY <1>1, <2>1, <2>2, <2>3, <2>4 DEF WorkerStep
<1>2. CASE UpdaterStep
  BY <1>2, AcceptInv, RefuseInv, JobEndsInv, JobForgottenInv DEF UpdaterStep
<1>3. CASE OperatorStep
  BY <1>3, ArchiveInv, ArchiveOfflineInv, AdoptInv DEF OperatorStep
<1>4. CASE CommitFails \/ Crash
  BY <1>4, CommitFailsInv, CrashInv
<1> QED BY <1>1, <1>2, <1>3, <1>4 DEF DispatchNext

LEMMA DispatchInvariant == DispatchSpec => []DispatchInv
<1>1. DispatchInv /\ [DispatchNext]_dispatchVars => DispatchInv'
  BY NextInv, StutterInv
<1> QED BY <1>1, InitInv, PTL DEF DispatchSpec

(* No identity is executed twice: an ambiguous POST is never replayed,     *)
(* however crashes, late answers, adoptions and archivals interleave.      *)
THEOREM PostsExecuteOnce == DispatchSpec => []ExecutedOnce
<1>1. DispatchInv => ExecutedOnce
  BY DEF DispatchInv, EntryInv, ExecutedOnce
<1> QED BY <1>1, DispatchInvariant, PTL

(* A completed or archived identity has its own completed job, and an      *)
(* archived identity is never taken up again.                              *)
THEOREM CompletionIsConfirmed == DispatchSpec => []CompletionConfirmed
<1>1. DispatchInv => CompletionConfirmed
  BY DEF DispatchInv, EntryInv, CompletionConfirmed
<1> QED BY <1>1, DispatchInvariant, PTL

(* The ledger on disk always passes the checks of Outbox::open. *)
THEOREM LedgerAlwaysOpens == DispatchSpec => []LedgerOpens
<1>1. DispatchInv => LedgerOpens
  BY DEF DispatchInv
<1> QED BY <1>1, DispatchInvariant, PTL

-----------------------------------------------------------------------------
(* The rotation.  Keys after the cursor come first, keys up to it last:    *)
(* the keys of a batch come last, in the order of the batch, and so every  *)
(* other unfinished key comes before what is left of it.                   *)
BatchOrder == \A k \in NonTerminal \ batch, b \in batch : Before(k, b)

(* The turn of Passed comes before the next one of Favored. *)
PassedFirst ==
  IF Passed \in batch THEN Favored \in batch => Before(Passed, Favored)
  ELSE Favored \notin batch /\ Before(Passed, Favored)

(* Every turn of Favored is paid for: by the first one, by a restart or by *)
(* the removal of the cursor.  With nothing left to pay it is the turn of  *)
(* Passed, or the worker has stopped until the next restart.               *)
TurnsInv ==
  /\ turns \in 0..MaxTurns /\ archivals \in 0..MaxTurns
  /\ turns <= 1 + crashes + archivals
  /\ Passed \in NonTerminal =>
       turns <= crashes + archivals \/ pc = "stopped" \/ PassedFirst

RotationInv == DispatchInv /\ BatchOrder /\ TurnsInv

LEMMA BeforeOrder ==
  ASSUME cursor \in 0..N
  PROVE  /\ \A j, k \in Keys : j = k \/ Before(j, k) \/ Before(k, j)
         /\ \A j, k \in Keys : ~(Before(j, k) /\ Before(k, j))
         /\ \A i, j, k \in Keys : Before(i, j) /\ Before(j, k) => Before(i, k)
BY DispatchAssumption DEF Before, Keys

(* When the cursor moves to m, the keys up to m go to the end of the       *)
(* rotation and nothing else changes places.                               *)
LEMMA CursorMoves ==
  ASSUME cursor \in 0..N, NEW m \in Keys, cursor' = m, NEW j \in Keys, NEW k \in Keys
  PROVE  /\ (j = m \/ Before(j, m)) /\ Before(m, k) => Before(k, j)'
         /\ Before(j, k) /\ (k = m \/ Before(k, m)) => Before(j, k)'
         /\ Before(m, j) /\ Before(j, k) => Before(j, k)'
BY DispatchAssumption DEF Before, Keys

(* What comes before a selected key is selected too. *)
LEMMA SelectedClosed ==
  ASSUME cursor \in 0..N, NEW j \in NonTerminal, NEW k \in Selected, Before(j, k)
  PROVE  j \in Selected
<1> DEFINE Ahead(i) == {u \in NonTerminal : Before(u, i)}
<1>1. NonTerminal \subseteq Keys /\ k \in NonTerminal /\ Cardinality(Ahead(k)) < Limit
  BY DEF NonTerminal, Entries, Selected
<1>2. IsFiniteSet(Ahead(k))
  BY EntriesFinite, FS_Subset DEF NonTerminal
<1>3. Ahead(j) \subseteq Ahead(k)
  BY <1>1, BeforeOrder
<1>4. Cardinality(Ahead(j)) <= Cardinality(Ahead(k)) /\ IsFiniteSet(Ahead(j))
  BY <1>2, <1>3, FS_Subset
<1>5. Cardinality(Ahead(j)) \in Nat /\ Cardinality(Ahead(k)) \in Nat
  BY <1>2, <1>4, FS_CardinalityType
<1>6. Cardinality(Ahead(j)) < Limit
  <2> HIDE DEF Ahead
  <2> QED BY <1>1, <1>4, <1>5, DispatchAssumption
<1> QED BY <1>6 DEF Selected

(* The counters of a step that is no turn of Favored. *)
LEMMA Counting ==
  ASSUME RotationInv, RotationNext, ~Take(Favored)
  PROVE  /\ turns' \in {0, turns} /\ turns' \in 0..MaxTurns
         /\ Passed \notin NonTerminal => turns' = 0
         /\ archivals' \in 0..MaxTurns /\ archivals <= archivals'
         /\ cursor # 0 /\ cursor' = 0 => turns <= crashes + archivals'
         /\ crashes \in Nat
<1>1. crashes \in Nat
  BY DispatchAssumption DEF RotationInv, DispatchInv, DispatchTypeOK
<1> QED
  BY <1>1, RotationAssumption DEF RotationInv, TurnsInv, RotationNext, NextTurns, Capped

(* A step that leaves the batch and the cursor alone. *)
LEMMA SamePlaces ==
  ASSUME RotationInv, RotationNext, ~Take(Favored),
         batch' = batch, cursor' = cursor, crashes' = crashes,
         pc = "stopped" => pc' = "stopped",
         batch # {} => NonTerminal' \subseteq NonTerminal
  PROVE  BatchOrder' /\ TurnsInv'
<1>1. BatchOrder'
  BY DEF RotationInv, BatchOrder, Before
<1>2. PassedFirst' <=> PassedFirst
  BY DEF PassedFirst, Before
<1>3. turns' = 0 \/ turns' = turns
  BY Counting
<1>4. CASE turns' = 0
  BY <1>1, <1>4, Counting, RotationAssumption DEF TurnsInv
<1>5. CASE turns' = turns /\ turns # 0
  BY <1>1, <1>2, <1>5, Counting DEF RotationInv, TurnsInv
<1> QED BY <1>3, <1>4, <1>5

(* The turn of another key: Passed and Favored keep their places. *)
LEMMA TakeRotates ==
  ASSUME RotationInv, RotationNext, NEW k \in Keys, Take(k)
  PROVE  BatchOrder' /\ TurnsInv'
<1>1. /\ k \in batch /\ batch' = batch \ {k} /\ cursor' = cursor /\ crashes' = crashes
      /\ \A j \in batch : j = k \/ Before(k, j)
      /\ pc = "working" /\ pc' # "stopped"
  BY DEF Take, TargetRemoved, BeginSend, Ambiguous, BeginPoll, Begin, First
<1>2. batch \subseteq Keys /\ cursor \in 0..N /\ crashes \in Nat
  BY DispatchAssumption DEF RotationInv, DispatchInv, DispatchTypeOK
<1>3. NonTerminal' \subseteq NonTerminal /\ NonTerminal \subseteq Keys
  <2>1. \A j \in Keys : state'[j] = state[j] \/ (j = k /\ state[k] \in Open)
    BY <1>1 DEF RotationInv, DispatchInv, DispatchTypeOK, BatchInv, Take, TargetRemoved,
       BeginSend, Ambiguous, BeginPoll, Set
  <2> QED BY <2>1 DEF NonTerminal, Entries, Open, Terminal
<1>4. BatchOrder'
  <2> SUFFICES ASSUME NEW i \in NonTerminal' \ batch', NEW b \in batch'
               PROVE  Before(i, b)'
    BY DEF BatchOrder
  <2>1. Before(i, b)
    BY <1>1, <1>3 DEF RotationInv, BatchOrder
  <2> QED BY <1>1, <2>1 DEF Before
<1>5. CASE Take(Favored)
  <2>1. Favored \in batch /\ (Passed \in batch => Before(Favored, Passed))
    BY <1>5, RotationAssumption DEF Take, TargetRemoved, BeginSend, Ambiguous, BeginPoll,
       Begin, First
  <2>2. Passed \in Keys /\ Favored \in Keys /\ Passed # Favored /\ MaxTurns \in Nat
    BY RotationAssumption
  <2>3. ~PassedFirst
    BY <1>2, <2>1, <2>2, BeforeOrder DEF PassedFirst
  <2>4. batch' = batch \ {Favored} /\ cursor' = cursor
    BY <1>1, <1>5 DEF Take, TargetRemoved, BeginSend, Ambiguous, BeginPoll, Begin
  <2>5. Passed \in NonTerminal => PassedFirst'
    <3>1. CASE Passed \in batch
      BY <2>2, <2>4, <3>1 DEF PassedFirst
    <3>2. CASE Passed \notin batch /\ Passed \in NonTerminal
      BY <2>1, <2>2, <2>4, <3>2 DEF PassedFirst, Before, RotationInv, BatchOrder
    <3> QED BY <3>1, <3>2
  <2>6. /\ turns' \in 0..MaxTurns /\ archivals' \in 0..MaxTurns /\ archivals <= archivals'
        /\ Passed \notin NonTerminal => turns' = 0
        /\ turns' <= turns + 1
    BY <2>2 DEF RotationInv, TurnsInv, RotationNext, NextTurns, Capped
  <2>7. crashes' = crashes /\ pc # "stopped"
    BY <1>1
  <2>8. Passed \in NonTerminal => turns <= crashes + archivals
    BY <2>3, <2>7 DEF RotationInv, TurnsInv
  <2>9. turns' <= 1 + crashes + archivals'
    <3>1. PICK u \in Nat : turns' = u
      BY <2>2, <2>6
    <3>2. PICK v \in Nat : archivals' = v
      BY <2>2, <2>6
    <3>3. turns \in Nat /\ archivals \in Nat
      BY <2>2 DEF RotationInv, TurnsInv
    <3> QED BY <1>2, <2>6, <2>8, <3>1, <3>2, <3>3
  <2> QED BY <1>3, <1>4, <2>5, <2>6, <2>7, <2>9 DEF TurnsInv
<1>6. CASE ~Take(Favored)
  <2>1. CASE k = Favored
    BY <1>6, <2>1
  <2>2. CASE k = Passed
    <3>1. turns' = 0
      BY <2>2 DEF RotationNext, NextTurns
    <3> QED BY <1>1, <1>2, <1>4, <1>6, <3>1, Counting DEF TurnsInv
  <2>3. CASE k # Favored /\ k # Passed
    <3>1. PassedFirst' <=> PassedFirst
      BY <1>1, <2>3 DEF PassedFirst, Before
    <3>2. turns' = 0 \/ turns' = turns
      BY <1>6, Counting
    <3>3. CASE turns' = 0
      BY <1>1, <1>2, <1>4, <1>6, <3>3, Counting DEF TurnsInv
    <3>4. CASE turns' = turns
      BY <1>1, <1>2, <1>3, <1>4, <1>6, <3>1, <3>4, Counting DEF RotationInv, TurnsInv
    <3> QED BY <3>2, <3>3, <3>4
  <2> QED BY <2>1, <2>2, <2>3
<1> QED BY <1>5, <1>6

(* A new batch: the rotation goes on where the last one ended. *)
LEMMA NextBatchRotates ==
  ASSUME RotationInv, RotationNext, ~Take(Favored), NextBatch
  PROVE  BatchOrder' /\ TurnsInv'
<1>1. /\ batch = {} /\ batch' = Selected /\ NonTerminal' = NonTerminal /\ crashes' = crashes
      /\ cursor \in 0..N /\ NonTerminal \subseteq Keys /\ Selected \subseteq NonTerminal
      /\ pc # "stopped"
  BY DEF RotationInv, DispatchInv, DispatchTypeOK, BatchInv, NextBatch, NonTerminal, Entries,
     Selected
<1>2. Passed \in Keys /\ Favored \in Keys
  BY RotationAssumption
<1>3. CASE Selected = {}
  BY <1>1, <1>3, SamePlaces DEF NextBatch, NextCursor
<1>4. CASE Selected # {}
  <2>1. /\ cursor' \in Selected
        /\ \A j \in Selected : j = cursor' \/ Before(j, cursor')
    BY <1>4 DEF NextBatch, NextCursor
  <2>2. PICK m \in Keys : m = cursor'
    BY <1>1, <2>1
  <2>3. ASSUME NEW j \in NonTerminal \ Selected PROVE Before(m, j)
    BY <1>1, <2>1, <2>2, BeforeOrder, SelectedClosed
  <2>4. BatchOrder'
    BY <1>1, <2>1, <2>2, <2>3, CursorMoves DEF BatchOrder
  <2>5. Passed \in NonTerminal /\ PassedFirst => PassedFirst'
    <3> SUFFICES ASSUME Passed \in NonTerminal, Before(Passed, Favored)
                 PROVE  PassedFirst'
      BY <1>1 DEF PassedFirst
    <3>1. CASE Passed \in Selected /\ Favored \in Selected
      <4>1. Before(Passed, Favored)'
        BY <1>1, <1>2, <2>1, <2>2, <3>1, CursorMoves
      <4> QED BY <1>1, <3>1, <4>1 DEF PassedFirst
    <3>2. CASE Passed \in Selected /\ Favored \notin Selected
      BY <1>1, <3>2 DEF PassedFirst
    <3>3. CASE Passed \notin Selected
      <4>1. Favored \notin Selected
        BY <1>1, <3>3, SelectedClosed
      <4>2. Before(Passed, Favored)'
        BY <1>1, <1>2, <2>2, <2>3, <3>3, CursorMoves
      <4> QED BY <1>1, <3>3, <4>1, <4>2 DEF PassedFirst
    <3> QED BY <3>1, <3>2, <3>3
  <2>6. turns' = 0 \/ turns' = turns
    BY Counting
  <2>7. CASE turns' = 0
    BY <1>1, <2>4, <2>7, Counting DEF TurnsInv
  <2>8. CASE turns' = turns
    BY <1>1, <2>4, <2>5, <2>8, Counting DEF RotationInv, TurnsInv
  <2> QED BY <2>6, <2>7, <2>8
<1> QED BY <1>3, <1>4

(* The worker stops: its batch is lost, and it takes no turn before the    *)
(* next restart.                                                           *)
LEMMA StopRotates ==
  ASSUME RotationInv, RotationNext, ~Take(Favored), Stop
  PROVE  BatchOrder' /\ TurnsInv'
<1>1. batch' = {} /\ pc' = "stopped" /\ crashes' = crashes
  BY DEF Stop
<1> QED BY <1>1, Counting DEF RotationInv, BatchOrder, TurnsInv

(* A restart pays for one more turn. *)
LEMMA CrashRotates ==
  ASSUME RotationInv, RotationNext, ~Take(Favored), Crash
  PROVE  BatchOrder' /\ TurnsInv'
<1>1. batch' = {} /\ crashes' = crashes + 1
  BY DEF Crash
<1> QED BY <1>1, Counting DEF RotationInv, BatchOrder, TurnsInv

(* So does an archival that takes the cursor with it. *)
LEMMA RemoveRotates ==
  ASSUME RotationInv, RotationNext, ~Take(Favored), batch = {}, batch' = {},
         crashes' = crashes, cursor' = cursor \/ (cursor # 0 /\ cursor' = 0),
         pc # "stopped"
  PROVE  BatchOrder' /\ TurnsInv'
<1>1. CASE cursor' = cursor
  BY <1>1, SamePlaces
<1>2. CASE cursor # 0 /\ cursor' = 0
  BY <1>2, Counting DEF RotationInv, BatchOrder, TurnsInv
<1> QED BY <1>1, <1>2

(* The other steps of the worker and the updater move neither the batch    *)
(* nor the cursor, and finish work or leave it as it is.                   *)
LEMMA OthersRotate ==
  ASSUME RotationInv, RotationNext, ~Take(Favored)
  PROVE  /\ \A k \in Keys : Observe(k) => BatchOrder' /\ TurnsInv'
         /\ Observed \/ EndBatch \/ Post \/ InvalidRequest \/ TimeOut \/ Poll =>
              BatchOrder' /\ TurnsInv'
         /\ Acknowledge \/ Retain \/ Complete \/ FailJob \/ FailPost \/ Busy =>
              BatchOrder' /\ TurnsInv'
         /\ ArchiveFails \/ Wake \/ Restart => BatchOrder' /\ TurnsInv'
         /\ UpdaterStep => BatchOrder' /\ TurnsInv'
         /\ \A k \in Keys : Archive(k) => BatchOrder' /\ TurnsInv'
         /\ \A k, j \in Keys : Adopt(k, j) => BatchOrder' /\ TurnsInv'
<1>1. batch # {} => pc \in {"working", "posting", "waiting", "polling", "deciding"}
  BY DEF RotationInv, DispatchInv, BatchInv
<1>2. ASSUME NEW k \in Keys, Observe(k) PROVE BatchOrder' /\ TurnsInv'
  BY <1>1, <1>2, SamePlaces DEF Observe, memory
<1>3. CASE Observed \/ EndBatch \/ Post \/ InvalidRequest \/ TimeOut \/ Poll
  <2>1. /\ batch' = batch /\ cursor' = cursor /\ crashes' = crashes /\ state' = state
        /\ pc # "stopped"
    BY <1>3 DEF Observed, EndBatch, Post, InvalidRequest, TimeOut, Poll, disk
  <2>2. NonTerminal' = NonTerminal
    BY <2>1 DEF NonTerminal, Entries
  <2> QED BY <2>1, <2>2, SamePlaces
<1>4. CASE Acknowledge \/ Retain \/ Complete \/ FailJob \/ FailPost \/ Busy
  <2>1. /\ batch' = batch /\ cursor' = cursor /\ crashes' = crashes /\ pc = "deciding"
    BY <1>4 DEF Acknowledge, Retain, Complete, FailJob, FailPost, Busy, Decided
  <2>2. head \in Keys /\ state[head] \in {"sending", "submitted"}
    BY <2>1 DEF RotationInv, DispatchInv, WorkInv
  <2>3. \A j \in Keys : j # head => state'[j] = state[j]
    BY <1>4 DEF Acknowledge, Retain, Complete, FailJob, FailPost, Busy, Set, RotationInv,
       DispatchInv, DispatchTypeOK
  <2>4. NonTerminal' \subseteq NonTerminal
    BY <2>2, <2>3 DEF NonTerminal, Entries, Terminal
  <2> QED BY <2>1, <2>4, SamePlaces
<1>5. CASE ArchiveFails \/ Wake \/ Restart
  <2>1. /\ batch' = batch /\ cursor' = cursor /\ crashes' = crashes /\ state' = state
        /\ pc # "stopped"
    BY <1>5 DEF ArchiveFails, Wake, Restart, disk
  <2>2. NonTerminal' = NonTerminal
    BY <2>1 DEF NonTerminal, Entries
  <2> QED BY <2>1, <2>2, SamePlaces
<1>6. CASE UpdaterStep
  <2>1. /\ batch' = batch /\ cursor' = cursor /\ crashes' = crashes /\ state' = state
        /\ pc = "stopped" => pc' = "stopped"
    BY <1>6 DEF UpdaterStep, Accept, Refuse, JobEnds, JobForgotten, Awaited, Receive, disk,
       memory
  <2>2. NonTerminal' = NonTerminal
    BY <2>1 DEF NonTerminal, Entries
  <2> QED BY <2>1, <2>2, SamePlaces
<1>7. ASSUME NEW k \in Keys, Archive(k) PROVE BatchOrder' /\ TurnsInv'
  BY <1>1, <1>7, SamePlaces DEF Archive
<1>8. ASSUME NEW k \in Keys, NEW j \in Keys, Adopt(k, j) PROVE BatchOrder' /\ TurnsInv'
  BY <1>1, <1>8, SamePlaces DEF Adopt, memory
<1> QED BY <1>2, <1>3, <1>4, <1>5, <1>6, <1>7, <1>8

LEMMA RotationStep == RotationInv /\ RotationNext => RotationInv'
<1> SUFFICES ASSUME RotationInv, RotationNext PROVE RotationInv'
  OBVIOUS
<1>1. DispatchNext
  BY DEF RotationNext
<1>2. DispatchInv'
  BY <1>1, NextInv DEF RotationInv
<1> SUFFICES BatchOrder' /\ TurnsInv'
  BY <1>2 DEF RotationInv
<1>3. ASSUME NEW k \in Keys, Take(k) PROVE BatchOrder' /\ TurnsInv'
  BY <1>3, TakeRotates
<1>4. CASE Take(Favored)
  BY <1>4, RotationAssumption, TakeRotates
<1>5. CASE ~Take(Favored)
  <2>1. CASE WorkerStep
    <3>1. CASE NextBatch
      BY <1>5, <3>1, NextBatchRotates
    <3>2. CASE Unstorable
      BY <1>5, <3>2, StopRotates DEF Unstorable
    <3>3. CASE ArchiveForget
      <4>1. /\ batch = {} /\ batch' = {} /\ crashes' = crashes /\ pc # "stopped"
            /\ head \in Keys /\ cursor' = CursorWithout(head)
        BY <3>3 DEF ArchiveForget, Remove, RotationInv, DispatchInv, BatchInv, WorkInv
      <4>2. cursor' = cursor \/ (cursor # 0 /\ cursor' = 0)
        BY <4>1, DispatchAssumption DEF CursorWithout, Keys
      <4> QED BY <1>5, <4>1, <4>2, RemoveRotates
    <3> QED BY <1>3, <1>5, <2>1, <3>1, <3>2, <3>3, OthersRotate DEF WorkerStep, Decide
  <2>2. CASE OperatorStep
    <3>1. ASSUME NEW k \in Keys, ArchiveOffline(k) PROVE BatchOrder' /\ TurnsInv'
      <4>1. /\ batch = {} /\ batch' = {} /\ crashes' = crashes /\ pc # "stopped"
            /\ cursor' = CursorWithout(k) \/ cursor' = cursor
        BY <3>1 DEF ArchiveOffline, Remove, memory, RotationInv, DispatchInv, BatchInv
      <4>2. cursor' = cursor \/ (cursor # 0 /\ cursor' = 0)
        BY <4>1, DispatchAssumption DEF CursorWithout, Keys
      <4> QED BY <1>5, <4>1, <4>2, RemoveRotates
    <3> QED BY <1>5, <2>2, <3>1, OthersRotate DEF OperatorStep
  <2>3. CASE CommitFails
    BY <1>5, <2>3, StopRotates DEF CommitFails
  <2>4. CASE Crash
    BY <1>5, <2>4, CrashRotates
  <2> QED BY <1>1, <1>5, <2>1, <2>2, <2>3, <2>4, OthersRotate DEF DispatchNext
<1> QED BY <1>4, <1>5

LEMMA RotationStutter == RotationInv /\ UNCHANGED rotationVars => RotationInv'
<1> SUFFICES ASSUME RotationInv, UNCHANGED rotationVars PROVE RotationInv'
  OBVIOUS
<1>1. DispatchInv'
  BY StutterInv DEF RotationInv, rotationVars
<1>2. BatchOrder'
  BY DEF RotationInv, rotationVars, dispatchVars, disk, memory, BatchOrder, Before,
     NonTerminal, Entries
<1>3. TurnsInv'
  BY DEF RotationInv, rotationVars, dispatchVars, disk, memory, TurnsInv, PassedFirst,
     Before, NonTerminal, Entries
<1> QED BY <1>1, <1>2, <1>3 DEF RotationInv

(* The rotation of next_batch is fair: whatever the batch limit, and       *)
(* however jobs come and go, an identity that waits is overtaken by any    *)
(* other at most once, and once more per restart and per archival that     *)
(* removes the cursor.                                                     *)
THEOREM OvertakingIsBounded == RotationSpec => []BoundedOvertaking
<1>1. RotationInit => RotationInv
  <2> SUFFICES ASSUME RotationInit PROVE RotationInv
    OBVIOUS
  <2>1. DispatchInv /\ batch = {} /\ crashes = 0
    BY InitInv DEF RotationInit, DispatchInit
  <2> QED
    BY <2>1, RotationAssumption DEF RotationInit, RotationInv, BatchOrder, TurnsInv
<1>2. RotationInv /\ [RotationNext]_rotationVars => RotationInv'
  BY RotationStep, RotationStutter
<1>3. RotationInv => BoundedOvertaking
  BY DEF RotationInv, TurnsInv, BoundedOvertaking
<1> QED BY <1>1, <1>2, <1>3, PTL DEF RotationSpec
=============================================================================
