--------------------------- MODULE PublicationLog ---------------------------
(***************************************************************************)
(* What a directory of Master snapshots promises its readers: a log of     *)
(* publications to which writers append, whose settled part survives a     *)
(* power loss and whose oldest entries may be retired, oldest first, but   *)
(* never one of the two newest of the settled part.  An entry that has no  *)
(* record of its predecessor can only be the first and is never retired.   *)
(* Publications are numbered in their order.                               *)
(***************************************************************************)
EXTENDS Integers

VARIABLES
  log,      \* the publications
  settled,  \* those that no power loss can take back
  gone      \* the retired ones

LogInit ==
  /\ log \in {{}, {1}}
  /\ settled = log
  /\ gone = {}

Publish ==
  /\ settled = log
  /\ \E new \in log' : (\A s \in log : s < new) /\ log' = log \cup {new}
  /\ UNCHANGED <<settled, gone>>

Settle ==
  /\ settled' = log
  /\ UNCHANGED <<log, gone>>

Retire ==
  /\ \E s \in log \ gone :
       /\ \E t, u \in settled : s < t /\ t < u
       /\ \A t \in log : t < s => t \in gone \/ \A u \in log : t <= u
       /\ gone' = gone \cup {s}
  /\ UNCHANGED <<log, settled>>

(* The last change that was not settled may be undone. *)
LosePower ==
  /\ log' \in {log, settled}
  /\ settled' = log'
  /\ \/ UNCHANGED gone
     \/ \E s \in gone : gone' = gone \ {s}

LogNext == Publish \/ Settle \/ Retire \/ LosePower

LogSpec == LogInit /\ [][LogNext]_<<log, settled, gone>>

=============================================================================
