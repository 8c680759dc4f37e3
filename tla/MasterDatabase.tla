--------------------------- MODULE MasterDatabase ---------------------------
(***************************************************************************)
(* The PostgreSQL backend of the master registry (master_database.rs) for  *)
(* one scope: publication of the directory's CURRENT snapshot, and the     *)
(* one-time migration of its history.                                      *)
(*                                                                         *)
(* `installed` is the directory: the contents installed so far, oldest     *)
(* first; the last one is CURRENT.  A content is its hash and the asset    *)
(* version recorded with it (NoResource when none is).  Snapshots are      *)
(* immutable, so a verified snapshot is its index in `installed`.          *)
(*                                                                         *)
(* A transaction is in `transactions` from the moment it holds the         *)
(* advisory lock until the server ends it, with the tables as it left      *)
(* them.  Its client may be gone by then: a COMMIT whose answer nobody     *)
(* waits for takes effect or not.                                          *)
(***************************************************************************)
EXTENDS Integers, Sequences, FiniteSets

CONSTANTS
    Keep,          \* keep_snapshots
    NoResource

ASSUME KeepAssumption == Keep \in Nat \ {0}

VARIABLES
    installed,     \* the directory's contents, oldest first
    database,      \* the committed tables
    transactions   \* the transactions that hold the advisory lock

(* sirius_master_snapshots, _current, _history (its hashes; the id is the  *)
(* position) and _migrations.  `upto` is not stored: it is the             *)
(* installation last published or migrated, 0 before the first.            *)
EmptyDatabase == [rows |-> {}, current |-> 0, history |-> <<>>, receipt |-> 0, upto |-> 0]

RowsOf(db, hash) == {r \in db.rows : r.hash = hash}

(* The asset version is outside content identity: a recorded one replaces  *)
(* the saved one, and a known one is not lost.                             *)
KeptResource(db, s) ==
    IF s.resource = NoResource /\ RowsOf(db, s.hash) # {}
    THEN (CHOOSE r \in RowsOf(db, s.hash) : TRUE).resource
    ELSE s.resource

(* A row that becomes current is touched by the new event.                 *)
Touched(db, hash, event) ==
    IF event THEN Len(db.history) + 1
    ELSE (CHOOSE r \in RowsOf(db, hash) : TRUE).touched

(* Retention: all but the published row and the `Keep` newest go.          *)
Retained(rows, hash) ==
    {r \in rows : \/ r.hash = hash
                  \/ Cardinality({q \in rows : q.touched > r.touched}) < Keep}

(* `migrates` is set for a migrated publication, which is always an event. *)
store_snapshot(db, s, migrates) ==
    LET changed == migrates \/ db.current # s.hash
        row == [hash |-> s.hash, resource |-> KeptResource(db, s),
                touched |-> Touched(db, s.hash, changed)]
    IN  [rows |-> Retained((db.rows \ RowsOf(db, s.hash)) \union {row}, s.hash),
         current |-> s.hash,
         history |-> IF changed THEN Append(db.history, s.hash) ELSE db.history,
         receipt |-> db.receipt, upto |-> db.upto]

Occupied(db) == db.rows # {} \/ db.current # 0 \/ db.history # <<>>

----------------------------------------------------------------------------
(* pg_advisory_xact_lock: shared database writers serialise.               *)
Unserialised == TRUE

Serialised == transactions = {}

(* `next` is the history entry a migration stores next.                    *)
Transaction(client, next, upto, tables) ==
    [client |-> client, next |-> next, upto |-> upto, tables |-> tables]

Begin(tx) ==
    /\ Serialised
    /\ transactions' = transactions \union {tx}
    /\ UNCHANGED <<installed, database>>

(* publish_snapshot: lock, schema, store.                                  *)
publish_snapshot(client, upto) ==
    Begin(Transaction(client, upto + 1, upto,
                      [store_snapshot(database, installed[upto], FALSE) EXCEPT !.upto = upto]))

(* migrate_transaction: a receipt acknowledges the original migration and  *)
(* nothing is rewound; an occupied scope is refused; otherwise the history *)
(* up to the plan's head is stored, oldest first, and then the receipt.    *)
migrate_transaction(client, upto) ==
    Begin(Transaction(client,
                      IF database.receipt # 0 \/ Occupied(database) THEN upto + 1 ELSE 1,
                      upto, database))

StoreNext(tx) ==
    /\ tx \in transactions /\ tx.next <= tx.upto
    /\ LET stored == store_snapshot(tx.tables, installed[tx.next], TRUE)
           receipt == IF tx.next = tx.upto THEN tx.upto ELSE 0
       IN  transactions' = (transactions \ {tx}) \union
             {Transaction(tx.client, tx.next + 1, tx.upto,
                          [stored EXCEPT !.receipt = receipt, !.upto = tx.next])}
    /\ UNCHANGED <<installed, database>>

Commit(tx) ==
    /\ tx \in transactions /\ tx.next > tx.upto
    /\ transactions' = transactions \ {tx}
    /\ database' = tx.tables
    /\ UNCHANGED installed

RollBack(tx) ==
    /\ tx \in transactions
    /\ transactions' = transactions \ {tx}
    /\ UNCHANGED <<installed, database>>

(* A client stops waiting: timeout, lost connection, exit.                 *)
Abandon(client) ==
    transactions' = {Transaction(IF tx.client = client THEN "gone" ELSE tx.client,
                                 tx.next, tx.upto, tx.tables) : tx \in transactions}

=============================================================================
