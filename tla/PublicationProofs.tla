-------------------------- MODULE PublicationProofs --------------------------
(***************************************************************************)
(* Proofs about the two places where an installed master becomes public.   *)
(* For any number of consumers, contents and events: the database never    *)
(* serves an older installation again (but for the first publication after *)
(* a migration), and only committed content is announced.  For either      *)
(* layout, any depth of adoption and any number of events: receipts are    *)
(* true, the managed branch continues no history its layout can tell from  *)
(* its own, and does not part from a remote branch nobody else writes to.  *)
(***************************************************************************)
EXTENDS RegistryOwner, MasterOrigin, TLAPS

-----------------------------------------------------------------------------
(* The registry's owner and its database.                                  *)

(* Tables a transaction may leave behind: what is current was recorded in  *)
(* the history, and is the content of the installation last published.     *)
TablesOK(db) ==
    /\ db.current \in Nat /\ db.history \in Seq(Nat) /\ db.upto \in 0 .. Len(installed)
    /\ db.current # 0 => db.current \in Hashes(db.history)
    /\ db.upto # 0 => db.current = installed[db.upto].hash

(* `to` serves the same installation as `from` or a later one, or is the   *)
(* first publication after a migration.                                    *)
Forward(from, to) ==
    /\ Hashes(from.history) \subseteq Hashes(to.history)
    /\ \/ to.upto > from.upto
       \/ to.upto = from.upto /\ (from.current # 0 => to.current = from.current)
       \/ OnlyMigrated(from) /\ to.receipt = from.receipt

(* A migration that still stores entries found the scope unoccupied, and   *)
(* has stored those before the next one.                                   *)
TransactionOK(tx) ==
    /\ tx.next \in Nat \ {0} /\ tx.upto \in 0 .. Len(installed)
    /\ TablesOK(tx.tables) /\ Forward(database, tx.tables)
    /\ tx.next <= tx.upto =>
         /\ database.current = 0 /\ database.upto = 0
         /\ tx.tables.upto = tx.next - 1 /\ Len(tx.tables.history) = tx.next - 1

DataInv ==
    /\ installed \in Seq(Contents)
    /\ TablesOK(database)
    /\ \A tx \in transactions : TransactionOK(tx)
    /\ \A tx, other \in transactions : tx = other

(* A pass pins a content of the source.                                    *)
LoopOK(loop) ==
    /\ loop = [pc |-> loop.pc, pull |-> loop.pull, target |-> loop.target, upto |-> loop.upto]
    /\ loop.pc \in {"compare", "prepare", "check"} => loop.target \in Contents

(* Nothing newer than installation n is served or waits to be committed,   *)
(* other than by a migration.                                              *)
UpToBound(n) ==
    /\ database.upto <= n \/ OnlyMigrated(database)
    /\ \A tx \in transactions :
         tx.next > tx.upto => tx.tables.upto <= n \/ OnlyMigrated(tx.tables)

(* A verified snapshot is at least as new as what is or may become served. *)
OwnerInv ==
    /\ source \in Contents
    /\ LoopOK(owner)
    /\ owner.pc = "connect" =>
         owner.upto \in 1 .. Len(installed) /\ UpToBound(owner.upto)
    /\ migration \in 0 .. Len(installed)

OwnerIInv == DataInv /\ OwnerInv /\ AnnouncedServed

LEMMA ContentHash == \A c \in Contents : c.hash \in Nat /\ c.hash # 0
BY DEF Contents

LEMMA InitIInv == Init => OwnerIInv
<1> SUFFICES ASSUME Init PROVE OwnerIInv
  OBVIOUS
<1>1. source \in Contents
  BY BoundsAssumption DEF Init, Contents
<1>2. installed \in Seq(Contents)
  <2>1. \A c \in Contents : <<>> \in Seq(Contents) /\ <<c>> \in Seq(Contents)
    OBVIOUS
  <2> QED BY <1>1, <2>1 DEF Init
<1>3. TablesOK(database)
  BY <1>2 DEF Init, EmptyDatabase, TablesOK
<1>4. DataInv
  BY <1>2, <1>3 DEF Init, DataInv
<1>5. LoopOK(owner) /\ owner.pc = "update"
  BY DEF Init, LoopOK, Loop
<1>6. notifier.pc = "reconcile" /\ migration \in 0 .. Len(installed)
  BY <1>2 DEF Init, Reconciling
<1>7. OwnerInv /\ AnnouncedServed
  BY <1>1, <1>5, <1>6 DEF OwnerInv, AnnouncedServed
<1> QED BY <1>4, <1>7 DEF OwnerIInv

----------------------------------------------------------------------------
(* Facts about the tables.                                                 *)

LEMMA HistoryGrows ==
    ASSUME NEW h \in Seq(Nat), NEW n \in Nat
    PROVE  /\ Append(h, n) \in Seq(Nat)
           /\ Hashes(h) \subseteq Hashes(Append(h, n)) /\ n \in Hashes(Append(h, n))
           /\ Len(Append(h, n)) = Len(h) + 1
<1>1. Len(Append(h, n)) = Len(h) + 1 /\ Append(h, n)[Len(h) + 1] = n
  OBVIOUS
<1>2. \A i \in 1 .. Len(h) : Append(h, n)[i] = h[i]
  OBVIOUS
<1>3. n \in Hashes(Append(h, n))
  <2>1. Len(h) + 1 \in 1 .. Len(Append(h, n))
    BY <1>1
  <2> QED BY <1>1, <2>1 DEF Hashes
<1>4. ASSUME NEW x \in Hashes(h) PROVE x \in Hashes(Append(h, n))
  <2>1. PICK i \in 1 .. Len(h) : h[i] = x
    BY <1>4 DEF Hashes
  <2>2. i \in 1 .. Len(Append(h, n)) /\ Append(h, n)[i] = x
    BY <1>1, <1>2, <2>1
  <2> QED BY <2>2 DEF Hashes
<1> QED BY <1>1, <1>3, <1>4

LEMMA Stores ==
    ASSUME installed \in Seq(Contents), NEW db, TablesOK(db), NEW i \in 1 .. Len(installed),
           NEW migrates \in BOOLEAN
    PROVE  LET stored == store_snapshot(db, installed[i], migrates)
           IN  /\ stored.current = installed[i].hash /\ stored.current \in Nat \ {0}
               /\ stored.history \in Seq(Nat)
               /\ stored.current \in Hashes(stored.history)
               /\ Hashes(db.history) \subseteq Hashes(stored.history)
               /\ stored.receipt = db.receipt
               /\ migrates => Len(stored.history) = Len(db.history) + 1
<1> DEFINE s == installed[i]
           stored == store_snapshot(db, s, migrates)
<1>1. s.hash \in Nat /\ s.hash # 0
  <2>1. s \in Contents
    OBVIOUS
  <2> HIDE DEF s
  <2> QED BY <2>1, ContentHash
<1>2. /\ stored.current = s.hash /\ stored.receipt = db.receipt
      /\ stored.history = IF migrates \/ db.current # s.hash THEN Append(db.history, s.hash)
                          ELSE db.history
  BY DEF store_snapshot
<1> HIDE DEF s, stored
<1>3. db.history \in Seq(Nat) /\ (db.current # 0 => db.current \in Hashes(db.history))
  BY DEF TablesOK
<1>4. /\ stored.history \in Seq(Nat) /\ s.hash \in Hashes(stored.history)
      /\ Hashes(db.history) \subseteq Hashes(stored.history)
      /\ migrates => Len(stored.history) = Len(db.history) + 1
  <2>1. CASE migrates \/ db.current # s.hash
    BY <2>1, <1>1, <1>2, <1>3, HistoryGrows
  <2>2. CASE ~(migrates \/ db.current # s.hash)
    BY <2>2, <1>1, <1>2, <1>3
  <2> QED BY <2>1, <2>2
<1>5. stored.current = s.hash /\ stored.current \in Nat \ {0} /\ stored.receipt = db.receipt
  BY <1>1, <1>2
<1> QED BY <1>2, <1>4, <1>5 DEF s, stored

----------------------------------------------------------------------------
(* The directory only grows: what held of the tables still holds.          *)

LEMMA TablesKept ==
    ASSUME installed \in Seq(Contents), NEW c \in Contents, installed' = Append(installed, c),
           NEW db, TablesOK(db), NEW after, after = db
    PROVE  /\ after.current \in Nat /\ after.history \in Seq(Nat)
           /\ after.upto \in 0 .. Len(installed')
           /\ after.current # 0 => after.current \in Hashes(after.history)
           /\ after.upto # 0 => after.current = installed'[after.upto].hash
<1>1. Len(installed') = Len(installed) + 1
  OBVIOUS
<1>2. \A i \in 1 .. Len(installed) : installed'[i] = installed[i]
  OBVIOUS
<1>3. db.upto # 0 => db.upto \in 1 .. Len(installed)
  BY DEF TablesOK
<1>4. 0 .. Len(installed) \subseteq 0 .. Len(installed')
  BY <1>1
<1> QED BY <1>2, <1>3, <1>4 DEF TablesOK

LEMMA InstalledData ==
    ASSUME DataInv, NEW c \in Contents, installed' = Append(installed, c),
           UNCHANGED <<database, transactions>>
    PROVE  DataInv' /\ Len(installed') = Len(installed) + 1
<1>1. installed' \in Seq(Contents) /\ Len(installed') = Len(installed) + 1
  BY DEF DataInv
<1>2. TablesOK(database)'
  BY TablesKept DEF DataInv, TablesOK
<1>3. ASSUME NEW tx \in transactions PROVE TransactionOK(tx)'
  <2>1. TransactionOK(tx)
    BY DEF DataInv
  <2>2. /\ tx.tables.current \in Nat /\ tx.tables.history \in Seq(Nat)
        /\ tx.tables.upto \in 0 .. Len(installed')
        /\ tx.tables.current # 0 => tx.tables.current \in Hashes(tx.tables.history)
        /\ tx.tables.upto # 0 => tx.tables.current = installed'[tx.tables.upto].hash
    BY <2>1, TablesKept DEF DataInv, TransactionOK
  <2>3. tx.upto \in 0 .. Len(installed')
    BY <2>1, <1>1 DEF TransactionOK, DataInv
  <2> QED BY <2>1, <2>2, <2>3 DEF TransactionOK, TablesOK, Forward
<1> QED BY <1>1, <1>2, <1>3 DEF DataInv

LEMMA SameData ==
    ASSUME DataInv, UNCHANGED <<installed, database, transactions>>
    PROVE  DataInv'
BY DEF DataInv, TablesOK, TransactionOK, Forward

(* A transaction begins alone, on top of the committed tables.             *)
LEMMA BegunData ==
    ASSUME DataInv, NEW tx, Begin(tx), TransactionOK(tx)
    PROVE  DataInv' /\ transactions' = {tx}
<1>1. transactions' = {tx} /\ UNCHANGED <<installed, database>>
  BY DEF Begin, Serialised
<1>2. TransactionOK(tx)'
  BY <1>1 DEF TransactionOK, TablesOK, Forward
<1>3. TablesOK(database)'
  BY <1>1 DEF DataInv, TablesOK
<1> QED BY <1>1, <1>2, <1>3 DEF DataInv

LEMMA PublishedData ==
    ASSUME DataInv, NEW upto \in 1 .. Len(installed),
           database.upto <= upto \/ OnlyMigrated(database), publish_snapshot("owner", upto)
    PROVE  DataInv'
<1> DEFINE stored == store_snapshot(database, installed[upto], FALSE)
           tables == [stored EXCEPT !.upto = upto]
           tx == Transaction("owner", upto + 1, upto, tables)
<1>0. upto \in Nat \ {0} /\ installed \in Seq(Contents) /\ TablesOK(database)
  BY DEF DataInv
<1>1. /\ stored.current = installed[upto].hash /\ stored.current \in Nat \ {0}
      /\ stored.history \in Seq(Nat)
      /\ stored.current \in Hashes(stored.history)
      /\ Hashes(database.history) \subseteq Hashes(stored.history)
      /\ stored.receipt = database.receipt
  BY <1>0, Stores
<1>2. /\ tables.current = stored.current /\ tables.history = stored.history /\ tables.upto = upto
      /\ tables.receipt = stored.receipt
  BY DEF store_snapshot
<1>3. tx.next = upto + 1 /\ tx.upto = upto /\ tx.tables = tables
  BY DEF Transaction
<1>4. Begin(tx)
  BY DEF publish_snapshot
<1> HIDE DEF stored, tables, tx
<1>5. TablesOK(tables)
  BY <1>0, <1>1, <1>2 DEF TablesOK
<1>6. Forward(database, tables)
  <2>1. database.upto \in Nat /\ (database.upto # 0 => database.current = installed[database.upto].hash)
    BY <1>0 DEF TablesOK, DataInv
  <2>2. tables.upto > database.upto \/ tables.upto = database.upto \/ OnlyMigrated(database)
    BY <2>1, <1>0, <1>2
  <2>3. tables.upto = database.upto => tables.current = database.current
    BY <2>1, <1>0, <1>1, <1>2
  <2> QED BY <1>1, <1>2, <2>2, <2>3 DEF Forward
<1>7. TransactionOK(tx)
  BY <1>0, <1>3, <1>5, <1>6 DEF TransactionOK
<1> QED BY <1>4, <1>7, BegunData

LEMMA MigratingData ==
    ASSUME DataInv, NEW upto \in 1 .. Len(installed), migrate_transaction("migrate", upto)
    PROVE  DataInv' /\ \A tx \in transactions' : tx.tables = database
<1>1. PICK next \in {1, upto + 1} :
        /\ next = 1 => ~Occupied(database)
        /\ Begin(Transaction("migrate", next, upto, database))
  BY DEF migrate_transaction
<1> DEFINE tx == Transaction("migrate", next, upto, database)
<1>2. tx.next = next /\ tx.upto = upto /\ tx.tables = database
  BY DEF Transaction
<1>3. Begin(tx)
  BY <1>1
<1> HIDE DEF tx
<1>4. upto \in Nat \ {0} /\ next \in Nat \ {0} /\ upto \in 0 .. Len(installed)
  BY <1>1 DEF DataInv
<1>5. next <= upto => /\ next = 1 /\ database.current = 0 /\ database.upto = 0
                      /\ Len(database.history) = 0
  <2> SUFFICES ASSUME next <= upto
               PROVE  next = 1 /\ database.current = 0 /\ database.upto = 0 /\ Len(database.history) = 0
    OBVIOUS
  <2>1. next = 1
    BY <1>1, <1>4
  <2>2. database.current = 0 /\ database.history = <<>>
    BY <1>1, <2>1 DEF Occupied
  <2>3. database.upto \in 0 .. Len(installed) /\ installed \in Seq(Contents)
        /\ (database.upto # 0 => database.current = installed[database.upto].hash)
    BY DEF DataInv, TablesOK
  <2>4. database.upto # 0 => installed[database.upto] \in Contents
    BY <2>3
  <2> QED BY <2>1, <2>2, <2>3, <2>4, ContentHash
<1>6. TransactionOK(tx)
  BY <1>2, <1>4, <1>5 DEF TransactionOK, DataInv, Forward
<1>7. DataInv' /\ transactions' = {tx}
  BY <1>3, <1>6, BegunData
<1> QED BY <1>2, <1>7

LEMMA StoredNextData ==
    ASSUME DataInv, NEW tx \in transactions, StoreNext(tx)
    PROVE  DataInv' /\ \A new \in transactions' : new.next > new.upto => OnlyMigrated(new.tables)
<1> DEFINE stored == store_snapshot(tx.tables, installed[tx.next], TRUE)
<1>1. PICK receipt :
        /\ tx.next = tx.upto => receipt = tx.upto
        /\ transactions' = (transactions \ {tx}) \union
             {Transaction(tx.client, tx.next + 1, tx.upto,
                          [stored EXCEPT !.receipt = receipt, !.upto = tx.next])}
  BY DEF StoreNext
<1> DEFINE tables == [stored EXCEPT !.receipt = receipt, !.upto = tx.next]
           new == Transaction(tx.client, tx.next + 1, tx.upto, tables)
<1>2. transactions' = {new} /\ UNCHANGED <<installed, database>> /\ tx.next <= tx.upto
  BY <1>1 DEF StoreNext, DataInv
<1>3. TransactionOK(tx) /\ installed \in Seq(Contents)
  BY DEF DataInv
<1>4. /\ tx.next \in 1 .. Len(installed) /\ TablesOK(tx.tables)
      /\ database.current = 0 /\ database.upto = 0 /\ Len(tx.tables.history) = tx.next - 1
  BY <1>2, <1>3 DEF TransactionOK
<1>5. /\ stored.current = installed[tx.next].hash /\ stored.current \in Nat
      /\ stored.history \in Seq(Nat) /\ Len(stored.history) = Len(tx.tables.history) + 1
      /\ stored.current \in Hashes(stored.history)
      /\ Hashes(tx.tables.history) \subseteq Hashes(stored.history)
  BY <1>3, <1>4, Stores
<1>6. /\ tables.current = stored.current /\ tables.history = stored.history
      /\ tables.upto = tx.next /\ tables.receipt = receipt
  BY DEF store_snapshot
<1>7. new.next = tx.next + 1 /\ new.upto = tx.upto /\ new.tables = tables
  BY DEF Transaction
<1> HIDE DEF stored, tables, new
<1>8. TablesOK(tables) /\ tx.next \in Nat \ {0} /\ tx.upto \in Nat /\ Len(tables.history) = tx.next
  BY <1>3, <1>4, <1>5, <1>6 DEF TablesOK, TransactionOK
<1>9. Forward(database, tables)
  <2>1. Hashes(database.history) \subseteq Hashes(tx.tables.history)
    BY <1>3 DEF TransactionOK, Forward
  <2> QED BY <2>1, <1>4, <1>5, <1>6, <1>8 DEF Forward
<1>10. TransactionOK(new)
  BY <1>3, <1>4, <1>6, <1>7, <1>8, <1>9 DEF TransactionOK
<1>11. PICK t : t = new
  OBVIOUS
<1>12. TransactionOK(t)'
  BY <1>2, <1>10, <1>11 DEF TransactionOK, TablesOK, Forward
<1>13. TablesOK(database)' /\ installed' \in Seq(Contents)
  BY <1>2, <1>3 DEF DataInv, TablesOK
<1>14. DataInv'
  BY <1>2, <1>11, <1>12, <1>13 DEF DataInv
<1>15. new.next > new.upto => OnlyMigrated(new.tables)
  BY <1>1, <1>2, <1>6, <1>7, <1>8 DEF OnlyMigrated
<1> QED BY <1>2, <1>14, <1>15

LEMMA EndedData ==
    ASSUME DataInv, NEW tx \in transactions, Commit(tx) \/ RollBack(tx)
    PROVE  /\ DataInv' /\ transactions' = {} /\ installed' = installed
           /\ database' = database \/ (database' = tx.tables /\ tx.next > tx.upto)
           /\ Forward(database, database')
<1>1. /\ transactions' = {} /\ UNCHANGED installed
      /\ database' = database \/ (database' = tx.tables /\ tx.next > tx.upto)
  BY DEF Commit, RollBack, DataInv
<1>2. TransactionOK(tx) /\ TablesOK(database)
  BY DEF DataInv
<1>3. Forward(database, database')
  <2>1. Forward(database, database)
    BY DEF Forward
  <2> QED BY <1>1, <1>2, <2>1 DEF TransactionOK
<1>4. TablesOK(database)'
  BY <1>1, <1>2 DEF TransactionOK, TablesOK
<1> QED BY <1>1, <1>3, <1>4 DEF DataInv

LEMMA AbandonedData ==
    ASSUME DataInv, NEW client, Abandon(client), UNCHANGED <<installed, database>>
    PROVE  /\ DataInv'
           /\ \A new \in transactions' : \E tx \in transactions :
                new.tables = tx.tables /\ new.next = tx.next /\ new.upto = tx.upto
<1> DEFINE left(tx) == Transaction(IF tx.client = client THEN "gone" ELSE tx.client,
                                   tx.next, tx.upto, tx.tables)
<1>1. transactions' = {left(tx) : tx \in transactions}
  BY DEF Abandon
<1>2. \A tx : left(tx).next = tx.next /\ left(tx).upto = tx.upto /\ left(tx).tables = tx.tables
  BY DEF Transaction
<1> HIDE DEF left
<1>3. ASSUME NEW new \in transactions' PROVE TransactionOK(new)'
  <2>1. PICK tx \in transactions : new = left(tx)
    BY <1>1
  <2>2. TransactionOK(tx)
    BY DEF DataInv
  <2> QED BY <1>2, <2>1, <2>2 DEF TransactionOK, TablesOK, Forward
<1>4. \A new, other \in transactions' : new = other
  BY <1>1 DEF DataInv
<1>5. TablesOK(database)'
  BY DEF DataInv, TablesOK
<1> QED BY <1>1, <1>2, <1>3, <1>4, <1>5 DEF DataInv

----------------------------------------------------------------------------
(* What a step does to the tables, by the kind of step.                    *)

(* Steps that touch neither the directory nor the database.                *)
Aside ==
    \/ StartUpdate \/ Compare \/ Prepare \/ Verify \/ Woken \/ Interval
    \/ Notification \/ NotifyOwner \/ OrphanEnds
    \/ \E kind \in {"pull", "local"} : Request(kind)
    \/ SourceChanges \/ SourceLost \/ BeginImport \/ ReadPlan

Ends == Committed \/ LateEnd \/ MigrationEnds

Gives == IterationFails \/ MigrationFails \/ Restart

LEMMA Kinds ==
    Next <=> (Aside \/ Install \/ EndImport \/ Store \/ Migrate \/ MigrateNext \/ Ends \/ Gives)
BY DEF Next, Iteration, Aside, Ends, Gives

LEMMA AsideUnchanged == Aside => UNCHANGED <<installed, database, transactions>>
BY DEF Aside, StartUpdate, Compare, Prepare, Verify, Woken, Interval, Notification, Reconcile,
       Deliver, NotifierWakes, NotifyOwner, OrphanEnds, Request, SourceChanges, SourceLost,
       BeginImport, ReadPlan, idleOfNotifier

(* A step of the database or of the directory, and what it guarantees.     *)
DataStep ==
    /\ DataInv' /\ Len(installed) <= Len(installed')
    /\ Forward(database, database')

LEMMA StepData ==
    ASSUME OwnerIInv, [Next]_vars
    PROVE  DataStep
<1> USE DEF OwnerIInv
<1>0. /\ Len(installed) \in Nat /\ Forward(database, database)
  BY DEF DataInv, Forward
<1>1. ASSUME UNCHANGED <<installed, database, transactions>> PROVE DataStep
  BY <1>0, <1>1, SameData DEF DataStep
<1>2. CASE Aside
  BY <1>1, <1>2, AsideUnchanged
<1>3. CASE Install
  <2>1. CASE UNCHANGED installed
    BY <1>1, <1>3, <2>1 DEF Install
  <2>2. CASE installed' = Append(installed, owner.target)
    <3>1. owner.target \in Contents /\ UNCHANGED <<database, transactions>>
      BY <1>3 DEF Install, At, OwnerInv, LoopOK
    <3> QED BY <1>0, <2>2, <3>1, InstalledData DEF DataStep
  <2> QED BY <1>3, <2>1, <2>2 DEF Install
<1>4. CASE EndImport
  <2>1. PICK c \in Contents : installed' = Append(installed, c)
    BY <1>4 DEF EndImport
  <2> QED BY <1>0, <1>4, <2>1, InstalledData DEF DataStep, EndImport
<1>5. CASE Store
  <2>1. /\ owner.upto \in 1 .. Len(installed)
        /\ database.upto <= owner.upto \/ OnlyMigrated(database)
    BY <1>5 DEF Store, At, OwnerInv, UpToBound
  <2>2. publish_snapshot("owner", owner.upto) /\ UNCHANGED <<installed, database>>
    BY <1>5 DEF Store, publish_snapshot, Begin
  <2> QED BY <1>0, <2>1, <2>2, PublishedData DEF DataStep
<1>6. CASE Migrate
  <2>1. migration \in 1 .. Len(installed)
    BY <1>6 DEF Migrate, OwnerInv, DataInv
  <2>2. migrate_transaction("migrate", migration) /\ UNCHANGED <<installed, database>>
    BY <1>6 DEF Migrate, migrate_transaction, Begin
  <2> QED BY <1>0, <2>1, <2>2, MigratingData DEF DataStep
<1>7. CASE MigrateNext
  <2>1. PICK tx \in transactions : StoreNext(tx)
    BY <1>7 DEF MigrateNext
  <2>2. UNCHANGED <<installed, database>>
    BY <2>1 DEF StoreNext
  <2> QED BY <1>0, <2>1, <2>2, StoredNextData DEF DataStep
<1>8. CASE Ends
  <2>1. PICK tx \in transactions : Commit(tx) \/ RollBack(tx)
    BY <1>8 DEF Ends, Committed, LateEnd, MigrationEnds
  <2> QED BY <1>0, <2>1, EndedData DEF DataStep
<1>9. CASE Gives
  <2>1. PICK client \in {"owner", "migrate"} : Abandon(client)
    BY <1>9 DEF Gives, IterationFails, MigrationFails, Restart
  <2>2. UNCHANGED <<installed, database>>
    BY <1>9 DEF Gives, IterationFails, MigrationFails, Restart
  <2> QED BY <1>0, <2>1, <2>2, AbandonedData DEF DataStep
<1>10. CASE UNCHANGED vars
  BY <1>1, <1>10 DEF vars
<1> QED BY <1>2, <1>3, <1>4, <1>5, <1>6, <1>7, <1>8, <1>9, <1>10, Kinds

(* Only the owner's own transaction can raise the bound.                   *)
LEMMA StepBound ==
    ASSUME OwnerIInv, [Next]_vars, ~Store, NEW n \in Nat, UpToBound(n)
    PROVE  UpToBound(n)'
<1> USE DEF OwnerIInv, UpToBound
<1>1. ASSUME UNCHANGED <<database, transactions>> PROVE UpToBound(n)'
  BY <1>1
<1>2. CASE Aside \/ Install \/ EndImport
  BY <1>1, <1>2, AsideUnchanged DEF Install, EndImport
<1>3. CASE Migrate
  <2>1. migration \in 1 .. Len(installed)
    BY <1>3 DEF Migrate, OwnerInv, DataInv
  <2>2. migrate_transaction("migrate", migration) /\ UNCHANGED <<installed, database>>
    BY <1>3 DEF Migrate, migrate_transaction, Begin
  <2>3. \A tx \in transactions' : tx.tables = database
    BY <2>1, <2>2, MigratingData
  <2> QED BY <2>2, <2>3
<1>4. CASE MigrateNext
  <2>1. PICK tx \in transactions : StoreNext(tx)
    BY <1>4 DEF MigrateNext
  <2>2. UNCHANGED <<installed, database>>
    BY <2>1 DEF StoreNext
  <2>3. \A new \in transactions' : new.next > new.upto => OnlyMigrated(new.tables)
    BY <2>1, StoredNextData
  <2> QED BY <2>2, <2>3
<1>5. CASE Ends
  <2>1. PICK tx \in transactions : Commit(tx) \/ RollBack(tx)
    BY <1>5 DEF Ends, Committed, LateEnd, MigrationEnds
  <2>2. /\ transactions' = {}
        /\ database' = database \/ (database' = tx.tables /\ tx.next > tx.upto)
    BY <2>1, EndedData
  <2> QED BY <2>2
<1>6. CASE Gives
  <2>1. PICK client \in {"owner", "migrate"} : Abandon(client)
    BY <1>6 DEF Gives, IterationFails, MigrationFails, Restart
  <2>2. UNCHANGED <<installed, database>>
    BY <1>6 DEF Gives, IterationFails, MigrationFails, Restart
  <2>3. \A new \in transactions' : \E tx \in transactions :
          new.tables = tx.tables /\ new.next = tx.next /\ new.upto = tx.upto
    BY <2>1, <2>2, AbandonedData
  <2> QED BY <2>2, <2>3
<1>7. CASE UNCHANGED vars
  BY <1>1, <1>7 DEF vars
<1> QED BY <1>2, <1>3, <1>4, <1>5, <1>6, <1>7, Kinds

----------------------------------------------------------------------------
(* The owner's loop.                                                       *)

LEMMA SourceType ==
    ASSUME source \in Contents, [Next]_vars
    PROVE  source' \in Contents
<1>1. CASE SourceChanges
  BY <1>1, BoundsAssumption DEF SourceChanges, Contents
<1>2. CASE ~SourceChanges
  <2>1. UNCHANGED source
    BY <1>2 DEF Next, Iteration, Notification, StartUpdate, Compare, Prepare, Install, Verify,
         Store, Committed, Woken, Interval, Reconcile, Deliver, NotifierWakes, NotifyOwner,
         LateEnd, OrphanEnds, Request, SourceLost, BeginImport, EndImport, ReadPlan, Migrate,
         MigrateNext, MigrationEnds, IterationFails, MigrationFails, Restart, vars, ownerVars,
         idleOfOwner, idleOfNotifier, idleOfServer
  <2> QED BY <2>1
<1> QED BY <1>1, <1>2

LEMMA Went ==
    ASSUME LoopOK(owner), NEW pc, owner' = [owner EXCEPT !.pc = pc],
           pc \notin {"compare", "prepare", "check"} \/ owner.pc \in {"compare", "prepare", "check"}
    PROVE  LoopOK(owner') /\ owner'.pc = pc
BY DEF LoopOK

LEMMA Restarted ==
    ASSUME NEW pc, NEW pull, owner' = Loop(pc, pull), pc \notin {"compare", "prepare", "check"}
    PROVE  LoopOK(owner') /\ owner'.pc = pc
BY DEF LoopOK, Loop

(* Only Verify takes the loop to "connect".                                *)
LEMMA LoopStep ==
    ASSUME OwnerIInv, [Next]_vars
    PROVE  /\ LoopOK(owner')
           /\ owner'.pc = "connect" =>
                \/ owner' = owner /\ ~Store
                \/ Verify /\ HasCurrent /\ owner'.upto = Len(installed)
<1> USE DEF At, Goto, Failed
<1>0. LoopOK(owner) /\ source \in Contents
  BY DEF OwnerIInv, OwnerInv
<1>1. CASE UNCHANGED owner /\ ~Store
  BY <1>0, <1>1
<1>2. CASE Failed
  BY <1>2, Restarted
<1>3. CASE StartUpdate
  <2>1. CASE owner' = [owner EXCEPT !.pc = "compare", !.target = source]
    BY <1>0, <2>1 DEF LoopOK
  <2>2. CASE Goto("verify")
    BY <1>0, <2>2, Went
  <2> QED BY <1>2, <1>3, <2>1, <2>2 DEF StartUpdate
<1>4. CASE Compare \/ Prepare \/ Install
  <2>1. owner.pc \in {"compare", "prepare", "check"}
    BY <1>4 DEF Compare, Prepare, Install
  <2>2. CASE Goto("verify")
    BY <1>0, <2>2, Went
  <2>3. CASE Goto("prepare")
    BY <1>0, <2>1, <2>3, Went
  <2>4. CASE Goto("check")
    BY <1>0, <2>1, <2>4, Went
  <2> QED BY <1>2, <1>4, <2>2, <2>3, <2>4 DEF Compare, Prepare, Install
<1>5. CASE Verify
  <2>1. CASE HasCurrent /\ owner' = [owner EXCEPT !.pc = "connect", !.upto = Len(installed)]
    BY <1>0, <1>5, <2>1 DEF LoopOK
  <2> QED BY <1>2, <1>5, <2>1 DEF Verify
<1>6. CASE Store \/ Committed \/ IterationFails
  <2>1. CASE Goto("commit")
    BY <1>0, <2>1, Went
  <2> QED BY <1>2, <1>6, <2>1 DEF Store, Committed, IterationFails
<1>7. CASE Woken \/ Interval \/ Restart
  <2>1. PICK pull : owner' = Loop("update", pull)
    BY <1>7 DEF Woken, Interval, Restart
  <2> QED BY <2>1, Restarted
<1>8. CASE ~Store /\ (\/ Notification \/ NotifyOwner \/ LateEnd \/ OrphanEnds
                     \/ \E kind \in {"pull", "local"} : Request(kind)
                     \/ SourceChanges \/ SourceLost \/ BeginImport \/ EndImport
                     \/ ReadPlan \/ Migrate \/ MigrateNext \/ MigrationEnds
                     \/ MigrationFails \/ UNCHANGED vars)
  <2>1. UNCHANGED owner
    BY <1>8 DEF Notification, Reconcile, Deliver, NotifierWakes, NotifyOwner, LateEnd,
         OrphanEnds, Request, SourceChanges, SourceLost, BeginImport, EndImport, ReadPlan,
         Migrate, MigrateNext, MigrationEnds, MigrationFails, vars, ownerVars,
         idleOfNotifier, idleOfServer
  <2> QED BY <1>1, <1>8, <2>1
<1> QED BY <1>3, <1>4, <1>5, <1>6, <1>7, <1>8 DEF Next, Iteration

LEMMA MigrationStep ==
    ASSUME OwnerIInv, [Next]_vars
    PROVE  migration' \in 0 .. Len(installed')
<1>1. DataStep
  BY StepData
<1>2. /\ migration \in 0 .. Len(installed) /\ Len(installed) \in Nat
      /\ Len(installed') \in Nat /\ Len(installed) <= Len(installed')
  BY <1>1 DEF DataStep, OwnerIInv, OwnerInv, DataInv
<1>3. migration' \in {migration, 0, Len(installed)}
  BY DEF Next, Iteration, Notification, StartUpdate, Compare, Prepare, Install, Verify,
       Store, Committed, Woken, Interval, Reconcile, Deliver, NotifierWakes, NotifyOwner,
       LateEnd, OrphanEnds, Request, SourceChanges, SourceLost, BeginImport, EndImport,
       ReadPlan, Migrate, MigrateNext, MigrationEnds, IterationFails, MigrationFails, Restart,
       vars, idleOfOwner, idleOfNotifier, idleOfServer
<1> QED BY <1>2, <1>3

LEMMA StepOwner ==
    ASSUME OwnerIInv, [Next]_vars
    PROVE  OwnerInv'
<1>1. DataStep
  BY StepData
<1>2. source' \in Contents /\ migration' \in 0 .. Len(installed')
  BY SourceType, MigrationStep DEF OwnerIInv, OwnerInv
<1>3. /\ LoopOK(owner')
      /\ owner'.pc = "connect" =>
           \/ owner' = owner /\ ~Store
           \/ Verify /\ HasCurrent /\ owner'.upto = Len(installed)
  BY LoopStep
<1>4. ASSUME owner'.pc = "connect", owner' = owner, ~Store
      PROVE  owner'.upto \in 1 .. Len(installed') /\ UpToBound(owner.upto)'
  <2>1. owner.upto \in 1 .. Len(installed) /\ UpToBound(owner.upto)
    BY <1>4 DEF OwnerIInv, OwnerInv
  <2>2. PICK n \in Nat : n = owner.upto
    BY <2>1 DEF OwnerIInv, DataInv
  <2>3. UpToBound(n)'
    BY <1>4, <2>1, <2>2, StepBound
  <2>4. Len(installed) \in Nat /\ Len(installed') \in Nat /\ Len(installed) <= Len(installed')
    BY <1>1 DEF DataStep, OwnerIInv, DataInv
  <2> QED BY <1>4, <2>1, <2>2, <2>3, <2>4 DEF UpToBound
<1>5. ASSUME Verify, HasCurrent, owner'.upto = Len(installed)
      PROVE  owner'.upto \in 1 .. Len(installed') /\ UpToBound(owner.upto)'
  <2>1. UNCHANGED <<installed, database, transactions>>
    BY <1>5 DEF Verify
  <2>2. installed \in Seq(Contents) /\ TablesOK(database)
        /\ \A tx \in transactions : TablesOK(tx.tables)
    BY DEF OwnerIInv, DataInv, TransactionOK
  <2>3. Len(installed) \in 1 .. Len(installed)
    BY <1>5, <2>2 DEF HasCurrent
  <2>4. UpToBound(Len(installed))
    BY <2>2 DEF UpToBound, TablesOK
  <2> QED BY <1>5, <2>1, <2>3, <2>4 DEF UpToBound
<1> QED BY <1>2, <1>3, <1>4, <1>5 DEF OwnerInv, LoopOK

(* A hash that is read is current, so the history lists it; the history    *)
(* only grows.                                                             *)
LEMMA StepAnnounced ==
    ASSUME OwnerIInv, [Next]_vars
    PROVE  AnnouncedServed'
<1>1. Hashes(database.history) \subseteq Hashes(database'.history)
  BY StepData DEF DataStep, Forward
<1>2. ASSUME UNCHANGED notifier PROVE AnnouncedServed'
  BY <1>1, <1>2 DEF OwnerIInv, AnnouncedServed
<1>3. ASSUME NEW pc, notifier' = Reconciling(pc), pc # "deliver" PROVE AnnouncedServed'
  BY <1>3 DEF Reconciling, AnnouncedServed
<1>4. CASE Reconcile
  <2>1. CASE notifier' = Reconciling("wait")
    BY <1>3, <2>1
  <2>2. ASSUME NEW hash \in served_hash, notifier' = Delivering(hash, Targets)
        PROVE  AnnouncedServed'
    <3>1. hash \in Hashes(database.history)
      BY <2>2 DEF served_hash, OwnerIInv, DataInv, TablesOK
    <3>2. notifier'.hash = hash
      BY <2>2 DEF Delivering
    <3> QED BY <1>1, <3>1, <3>2 DEF AnnouncedServed
  <2> QED BY <1>4, <2>1, <2>2 DEF Reconcile
<1>5. ASSUME NEW t \in Targets, Deliver(t) PROVE AnnouncedServed'
  <2>1. CASE notifier' = Reconciling("wait")
    BY <1>3, <2>1
  <2>2. CASE notifier' = Delivering(notifier.hash, notifier.left \ {t})
    BY <1>1, <1>5, <2>2 DEF OwnerIInv, AnnouncedServed, Deliver, Delivering
  <2> QED BY <1>5, <2>1, <2>2 DEF Deliver
<1>6. CASE NotifierWakes \/ Restart
  BY <1>3, <1>6 DEF NotifierWakes, Restart
<1>7. CASE ~Notification /\ ~Restart
  <2>1. UNCHANGED notifier
    BY <1>7 DEF Next, Iteration, StartUpdate, Compare, Prepare, Install, Verify, Store,
         Committed, Woken, Interval, NotifyOwner, LateEnd, OrphanEnds, Request, SourceChanges,
         SourceLost, BeginImport, EndImport, ReadPlan, Migrate, MigrateNext, MigrationEnds,
         IterationFails, MigrationFails, vars, notifierVars, idleOfOwner, idleOfServer
  <2> QED BY <1>2, <2>1
<1> QED BY <1>4, <1>5, <1>6, <1>7 DEF Notification

LEMMA StepIInv == OwnerIInv /\ [Next]_vars => OwnerIInv'
BY StepData, StepOwner, StepAnnounced DEF OwnerIInv, DataStep

(* Whatever fails, lands late or is migrated, the database never serves an *)
(* older installation than one it served (master_database.rs), with the    *)
(* one exception of the first publication after a migration.               *)
THEOREM ServedGoesForward == OwnerSpec => ServedForward
<1>1. OwnerIInv /\ [Next]_vars =>
        [\/ database'.upto > database.upto
         \/ /\ database'.upto = database.upto
            /\ database.current # 0 => database'.current = database.current
         \/ OnlyMigrated(database) /\ database'.receipt = database.receipt]_database
  BY StepData DEF DataStep, Forward
<1> QED BY <1>1, InitIInv, StepIInv, PTL DEF OwnerSpec, ServedForward

(* Only a hash the database committed is announced (registry_service.rs).  *)
THEOREM AnnouncedIsServed == OwnerSpec => []AnnouncedServed
<1>1. OwnerIInv => AnnouncedServed
  BY DEF OwnerIInv
<1> QED BY <1>1, InitIInv, StepIInv, PTL DEF OwnerSpec

-----------------------------------------------------------------------------
(* The Git origin.                                                         *)

GameTargets == [version : Nat, asset : {0, 1}]
Trees == Seq(Nat)
Entries == [kind : {"ours", "twin", "other", "foreign"}, tree : Trees, id : Nat]
Histories == Seq(Entries)

(* The newest publication of a history is one this layout continues.       *)
Ours(history) ==
    Sirius(history) # {} =>
        /\ history[Newest(history)].kind # "other"
        /\ Layout = "native" => history[Newest(history)].kind # "twin"

Publications == [pc : {"check", "commit", "push", "verify"}, tree : Trees, parent : Histories]
Adoptions == [pc : {"adopt"}, head : Histories]

TypesInv ==
    /\ game \in GameTargets
    /\ current # None => current \in GameTargets
    /\ era \in Nat /\ happened \in Nat
    /\ local \in Histories /\ remote \in Histories
    /\ last # None => last \in Histories
    /\ pass # None => pass \in Publications \/ pass \in Adoptions

(* What is about to be adopted was recognized.                             *)
AdoptSound == Running("adopt") => Ours(pass.head)

(* A publication works on the managed branch as it is, and has checked     *)
(* that the remote branch is behind it, unless others write there too; an  *)
(* adoption works on a head that the remote branch has had.                *)
Pure(history) == \A i \in DOMAIN history : history[i].kind = "ours"
PassInLine(p, here, there) ==
    /\ p.pc # "adopt" => p.parent = here
    /\ p.pc \in {"commit", "push"} => (Pure(there) => ancestor(there, here))
    /\ p.pc = "adopt" => ancestor(p.head, there)
InLine(here, there) == Pure(there) => ancestor(there, here) \/ ancestor(here, there)
LineInv == InLine(local, remote) /\ (pass # None => PassInLine(pass, local, remote))

OriginIInv == TypesInv /\ ReceiptTrue /\ LocalOurs /\ AdoptSound /\ LineInv

----------------------------------------------------------------------------
(* Histories as prefixes.                                                  *)

LEMMA AncestorReflexive ==
    ASSUME NEW h \in Histories
    PROVE  ancestor(h, h)
BY DEF ancestor, Histories

LEMMA AncestorTransitive ==
    ASSUME NEW f \in Histories, NEW g \in Histories, NEW h \in Histories,
           ancestor(f, g), ancestor(g, h)
    PROVE  ancestor(f, h)
BY DEF ancestor, Histories

LEMMA AncestorAppend ==
    ASSUME NEW h \in Histories, NEW e \in Entries
    PROVE  Append(h, e) \in Histories /\ ancestor(h, Append(h, e))
BY DEF ancestor, Histories

(* A commit of this scope on top of any history is its newest publication. *)
LEMMA OursOnTop ==
    ASSUME NEW h \in Histories, NEW e \in Entries, e.kind = "ours"
    PROVE  Ours(Append(h, e))
<1> DEFINE top == Append(h, e)
           n == Len(h) + 1
<1>1. n \in Nat /\ DOMAIN top = 1 .. n /\ top[n] = e
  BY DEF Histories
<1>2. n \in Sirius(top) /\ \A j \in Sirius(top) : j \in 1 .. n
  BY <1>1 DEF Sirius
<1>3. \A j \in Sirius(top) : j <= n
  BY <1>1, <1>2
<1>4. Newest(top) \in Sirius(top) /\ \A j \in Sirius(top) : j <= Newest(top)
  BY <1>2, <1>3 DEF Newest
<1>5. Newest(top) = n
  BY <1>1, <1>2, <1>4
<1> QED BY <1>1, <1>5 DEF Ours

LEMMA OursEmpty == Ours(<<>>)
BY DEF Ours, Sirius

LEMMA TreeType ==
    ASSUME NEW content \in GameTargets
    PROVE  Tree(content) \in Trees
BY DEF Tree, Trees, GameTargets

LEMMA InitOrigin == OriginInit => OriginIInv
<1> SUFFICES ASSUME OriginInit PROVE OriginIInv
  OBVIOUS
<1>1. <<>> \in Histories
  BY DEF Histories
<1>2. TypesInv
  BY <1>1 DEF OriginInit, TypesInv, GameTargets
<1>3. LocalOurs
  BY OursEmpty DEF OriginInit, LocalOurs, Ours
<1>4. LineInv
  BY <1>1, AncestorReflexive DEF OriginInit, LineInv, InLine
<1> QED BY <1>2, <1>3, <1>4 DEF OriginInit, OriginIInv, ReceiptTrue, AdoptSound, Running

----------------------------------------------------------------------------
(* Every step takes the remote branch forward or leaves it.                *)
LEMMA RemoteStep ==
    ASSUME TypesInv, OriginNext
    PROVE  /\ remote' \in Histories /\ ancestor(remote, remote')
<1>0. remote \in Histories /\ ancestor(remote, remote)
  BY AncestorReflexive DEF TypesInv
<1>1. CASE UNCHANGED remote
  BY <1>0, <1>1
<1>2. CASE /\ pass # None /\ pass.pc = "push" /\ FastForward /\ remote' = pass.parent
  BY <1>2 DEF TypesInv, Publications, Adoptions, FastForward
<1>3. CASE Stranger
  <2>1. PICK kind \in {"foreign", "other", "twin"} :
          remote' = Append(remote, [kind |-> kind, tree |-> <<>>, id |-> happened])
    BY <1>3 DEF Stranger
  <2>2. [kind |-> kind, tree |-> <<>>, id |-> happened] \in Entries
    BY DEF Entries, Trees, TypesInv
  <2> QED BY <1>0, <2>1, <2>2, AncestorAppend
<1>4. CASE Push
  BY <1>1, <1>2, <1>4 DEF Push, Running
<1>5. CASE PassFails
  BY <1>1, <1>2, <1>5 DEF PassFails, Killed, Running
<1>6. CASE OriginRestarts
  BY <1>1, <1>2, <1>6 DEF OriginRestarts, Killed, Running
<1>7. CASE Updating \/ UpdateFails \/ GitWoken \/ GitInterval
  BY <1>1, <1>7 DEF Updating, Update, PrepareTarget, InstallTarget, record_master_update, UpdateFails,
                    GitWoken, GitInterval, branches
<1>8. CASE PublishBegins \/ check_remote \/ GitCommit \/ VerifyHead
  BY <1>1, <1>8 DEF PublishBegins, check_remote, GitCommit, VerifyHead, branches
<1>9. CASE AdoptBegins \/ Adopt \/ MoveAside
  BY <1>1, <1>9 DEF AdoptBegins, Adopt, MoveAside, branches
<1>10. CASE GameChanges \/ Import \/ TableDamaged \/ StateLost
  BY <1>1, <1>10 DEF GameChanges, Import, TableDamaged, StateLost, branches
<1> QED BY <1>3, <1>4, <1>5, <1>6, <1>7, <1>8, <1>9, <1>10 DEF OriginNext, Publishing

(* The history the local branch is at, and what a pass carries.            *)
LEMMA LocalStep ==
    ASSUME TypesInv, LocalOurs, AdoptSound, OriginNext
    PROVE  local' \in Histories /\ era' \in Nat /\ LocalOurs'
<1>0. local \in Histories /\ era \in Nat /\ Ours(local) /\ <<>> \in Histories
  BY DEF TypesInv, LocalOurs, Ours, Histories
<1> SUFFICES local' \in Histories /\ era' \in Nat /\ Ours(local')
  BY DEF LocalOurs, Ours, Sirius, Newest
<1>1. CASE UNCHANGED <<local, era>>
  BY <1>0, <1>1
<1>2. CASE GitCommit
  <2>1. pass \in Publications /\ UNCHANGED era
    BY <1>2 DEF GitCommit, Running, TypesInv, Adoptions
  <2> DEFINE e == [kind |-> "ours", tree |-> pass.tree, id |-> era]
  <2>2. e \in Entries /\ e.kind = "ours" /\ pass.parent \in Histories
    BY <1>0, <2>1 DEF Publications, Entries
  <2>3. local' = local \/ local' = Append(pass.parent, e)
    BY <1>2 DEF GitCommit
  <2> HIDE DEF e
  <2> QED BY <1>0, <2>1, <2>2, <2>3, AncestorAppend, OursOnTop, Zenon
<1>3. CASE Adopt
  BY <1>0, <1>3 DEF Adopt, AdoptSound, Running, TypesInv, Publications, Adoptions
<1>4. CASE MoveAside \/ StateLost
  BY <1>0, <1>4, OursEmpty DEF MoveAside, StateLost
<1>5. CASE Updating \/ UpdateFails \/ GitWoken \/ GitInterval
  BY <1>1, <1>5 DEF Updating, Update, PrepareTarget, InstallTarget, record_master_update, UpdateFails,
                    GitWoken, GitInterval, branches
<1>6. CASE PublishBegins \/ check_remote \/ Push \/ VerifyHead \/ PassFails \/ AdoptBegins
  BY <1>1, <1>6 DEF PublishBegins, check_remote, Push, VerifyHead, PassFails, AdoptBegins, branches
<1>7. CASE GameChanges \/ Import \/ TableDamaged \/ Stranger \/ OriginRestarts
  BY <1>1, <1>7 DEF GameChanges, Import, TableDamaged, Stranger, OriginRestarts, branches
<1> QED BY <1>2, <1>3, <1>4, <1>5, <1>6, <1>7 DEF OriginNext, Publishing

LEMMA PassStep ==
    ASSUME TypesInv, AdoptSound, OriginNext
    PROVE  (pass' # None => pass' \in Publications \/ pass' \in Adoptions) /\ AdoptSound'
<1> DEFINE Sound(p) == p # None => p \in Publications \/ (p \in Adoptions /\ Ours(p.head))
<1>0. Sound(pass)
  BY DEF TypesInv, AdoptSound, Running, Adoptions
<1> SUFFICES Sound(pass')
  BY DEF AdoptSound, Running, Publications, Adoptions, Ours, Sirius, Newest
<1>1. CASE UNCHANGED pass \/ pass' = None
  BY <1>0, <1>1
<1>2. CASE PublishBegins
  <2>1. pass' = pass \/ (Publishable(current)
                         /\ pass' = [pc |-> "check", tree |-> Tree(current), parent |-> local])
    BY <1>2 DEF PublishBegins
  <2>2. CASE Publishable(current) /\ pass' = [pc |-> "check", tree |-> Tree(current), parent |-> local]
    <3>1. Tree(current) \in Trees /\ local \in Histories
      BY <2>2, TreeType DEF Publishable, TypesInv
    <3> QED BY <2>2, <3>1 DEF Publications
  <2> QED BY <1>1, <2>1, <2>2
<1>3. CASE check_remote
  BY <1>1, <1>3 DEF check_remote, Running, TypesInv, Publications, Adoptions
<1>4. CASE GitCommit
  <2>1. pass \in Publications /\ pass' = [pass EXCEPT !.pc = "push", !.parent = local']
    BY <1>4 DEF GitCommit, Running, TypesInv, Adoptions
  <2>2. local' \in Histories
    <3> DEFINE e == [kind |-> "ours", tree |-> pass.tree, id |-> era]
    <3>1. e \in Entries /\ pass.parent \in Histories /\ local \in Histories
      BY <2>1 DEF Publications, Entries, TypesInv
    <3>2. local' = local \/ local' = Append(pass.parent, e)
      BY <1>4 DEF GitCommit
    <3> HIDE DEF e
    <3> QED BY <3>1, <3>2, AncestorAppend, Zenon
  <2> QED BY <2>1, <2>2, Zenon DEF Publications
<1>5. CASE Push
  BY <1>1, <1>5 DEF Push, Running, TypesInv, Publications, Adoptions
<1>6. CASE AdoptBegins
  <2>1. pass' = [pc |-> "adopt", head |-> remote] /\ remote \in Histories /\ Ours(remote)
    BY <1>6 DEF AdoptBegins, recognize, TypesInv, Ours
  <2> QED BY <2>1 DEF Adoptions
<1>7. CASE VerifyHead \/ PassFails \/ Adopt \/ MoveAside \/ StateLost \/ OriginRestarts
  BY <1>1, <1>7 DEF VerifyHead, PassFails, Killed, Adopt, MoveAside, StateLost, OriginRestarts
<1>8. CASE Updating \/ UpdateFails \/ GitWoken \/ GitInterval
  BY <1>1, <1>8 DEF Updating, Update, PrepareTarget, InstallTarget, record_master_update, UpdateFails,
                    GitWoken, GitInterval
<1>9. CASE GameChanges \/ Import \/ TableDamaged \/ Stranger
  BY <1>1, <1>9 DEF GameChanges, Import, TableDamaged, Stranger
<1> QED BY <1>2, <1>3, <1>4, <1>5, <1>6, <1>7, <1>8, <1>9 DEF OriginNext, Publishing

LEMMA InstallStep ==
    ASSUME TypesInv, OriginNext
    PROVE  /\ game' \in GameTargets /\ (current' # None => current' \in GameTargets)
           /\ happened' \in Nat
<1>0. /\ game \in GameTargets /\ (current # None => current \in GameTargets)
      /\ happened \in Nat
  BY DEF TypesInv
<1>1. happened' \in Nat
  <2>1. CASE UNCHANGED happened \/ OriginEvent
    BY <1>0, <2>1 DEF OriginEvent
  <2>2. CASE Updating \/ UpdateFails \/ GitWoken \/ GitInterval
    BY <2>1, <2>2 DEF Updating, Update, PrepareTarget, InstallTarget, record_master_update, UpdateFails,
                      GitWoken, GitInterval
  <2>3. CASE Publishing
    BY <2>1, <2>3 DEF Publishing, PublishBegins, check_remote, GitCommit, Push, VerifyHead
  <2>4. CASE PassFails \/ AdoptBegins \/ Adopt \/ MoveAside
    BY <2>1, <2>4 DEF PassFails, AdoptBegins, Adopt, MoveAside
  <2>5. CASE GameChanges \/ Import \/ TableDamaged \/ Stranger \/ StateLost \/ OriginRestarts
    BY <2>1, <2>5 DEF GameChanges, Import, TableDamaged, Stranger, StateLost, OriginRestarts
  <2> QED BY <2>2, <2>3, <2>4, <2>5 DEF OriginNext
<1>2. game' \in GameTargets /\ (current' # None => current' \in GameTargets)
  <2>1. CASE UNCHANGED <<game, current>>
    BY <1>0, <2>1
  <2>2. CASE Updating
    BY <1>0, <2>2 DEF Updating, Update, PrepareTarget, InstallTarget, record_master_update
  <2>3. CASE GameChanges
    <3>1. CASE \E asset \in {0, 1} : game' = [version |-> game.version + 1, asset |-> asset]
      BY <1>0, <2>3, <3>1 DEF GameChanges, GameTargets
    <3>2. CASE game' = [game EXCEPT !.asset = 1]
      BY <1>0, <2>3, <3>2 DEF GameChanges, GameTargets
    <3> QED BY <2>3, <3>1, <3>2 DEF GameChanges
  <2>4. CASE Import
    BY <1>0, <2>4 DEF Import, GameTargets
  <2>5. CASE UpdateFails \/ GitWoken \/ GitInterval \/ TableDamaged
    BY <2>1, <2>5 DEF UpdateFails, GitWoken, GitInterval, install, TableDamaged
  <2>6. CASE Publishing
    BY <2>1, <2>6 DEF Publishing, PublishBegins, check_remote, GitCommit, Push, VerifyHead, install
  <2>7. CASE PassFails \/ AdoptBegins \/ Adopt \/ MoveAside
    BY <2>1, <2>7 DEF PassFails, AdoptBegins, Adopt, MoveAside, install
  <2>8. CASE Stranger \/ StateLost \/ OriginRestarts
    BY <2>1, <2>8 DEF Stranger, StateLost, OriginRestarts, install
  <2> QED BY <2>2, <2>3, <2>4, <2>5, <2>6, <2>7, <2>8 DEF OriginNext
<1> QED BY <1>1, <1>2

(* A receipt names the head the remote branch was just seen at; later the  *)
(* branch has gone forward from there.                                     *)
LEMMA ReceiptStep ==
    ASSUME TypesInv, ReceiptTrue, OriginNext
    PROVE  (last' # None => last' \in Histories) /\ ReceiptTrue'
<1>0. /\ remote \in Histories /\ remote' \in Histories /\ ancestor(remote, remote')
      /\ last # None => last \in Histories /\ ancestor(last, remote)
  BY RemoteStep DEF TypesInv, ReceiptTrue
<1> SUFFICES last' # None => last' \in Histories /\ ancestor(last', remote')
  BY DEF ReceiptTrue, ancestor
<1>1. CASE UNCHANGED last
  <2>1. last # None => ancestor(last, remote')
    BY <1>0, AncestorTransitive
  <2> QED BY <1>0, <1>1, <2>1
<1>2. CASE VerifyHead
  <2>1. UNCHANGED remote
    BY <1>2 DEF VerifyHead, branches
  <2>2. CASE remote = pass.parent
    BY <1>0, <1>2, <2>1, <2>2, AncestorReflexive DEF VerifyHead
  <2> QED BY <1>1, <1>2, <2>2 DEF VerifyHead
<1>3. CASE OriginRestarts
  BY <1>3 DEF OriginRestarts
<1>4. CASE Updating \/ UpdateFails \/ GitWoken \/ GitInterval
  BY <1>1, <1>4 DEF Updating, Update, PrepareTarget, InstallTarget, record_master_update, UpdateFails,
                    GitWoken, GitInterval
<1>5. CASE PublishBegins \/ check_remote \/ GitCommit \/ Push
  BY <1>1, <1>5 DEF PublishBegins, check_remote, GitCommit, Push
<1>6. CASE PassFails \/ AdoptBegins \/ Adopt \/ MoveAside
  BY <1>1, <1>6 DEF PassFails, AdoptBegins, Adopt, MoveAside
<1>7. CASE GameChanges \/ Import \/ TableDamaged \/ Stranger \/ StateLost
  BY <1>1, <1>7 DEF GameChanges, Import, TableDamaged, Stranger, StateLost
<1> QED BY <1>2, <1>3, <1>4, <1>5, <1>6, <1>7 DEF OriginNext, Publishing

(* The managed and the remote branch stay in line: check_remote finds the  *)
(* remote branch behind before a commit is made, and it is still behind    *)
(* when the push arrives unless others wrote to it.                        *)
LEMMA LineStep ==
    ASSUME TypesInv, LineInv, OriginNext
    PROVE  LineInv'
<1>0. /\ local \in Histories /\ remote \in Histories /\ remote' \in Histories
      /\ ancestor(remote, remote') /\ InLine(local, remote)
      /\ pass # None => PassInLine(pass, local, remote)
  BY RemoteStep DEF TypesInv, LineInv
<1> SUFFICES InLine(local', remote') /\ (pass' # None => PassInLine(pass', local', remote'))
  BY DEF LineInv
<1>1. CASE UNCHANGED <<local, remote>> /\ (UNCHANGED pass \/ pass' = None)
  BY <1>0, <1>1
<1>2. CASE /\ Running("push") /\ remote' = pass.parent /\ UNCHANGED local
           /\ pass' = None \/ pass' = [pass EXCEPT !.pc = "verify"]
  <2>1. pass \in Publications /\ remote' = local /\ pass.parent = local
    BY <1>0, <1>2 DEF Running, PassInLine, TypesInv, Adoptions
  <2>2. InLine(local', remote')
    BY <1>0, <1>2, <2>1, AncestorReflexive DEF InLine
  <2>3. pass' # None => pass'.pc = "verify" /\ pass'.parent = local
    BY <1>2, <2>1 DEF Publications
  <2> QED BY <1>2, <2>2, <2>3 DEF PassInLine
<1>3. CASE Stranger
  <2>1. PICK kind \in {"foreign", "other", "twin"} :
          remote' = Append(remote, [kind |-> kind, tree |-> <<>>, id |-> happened])
    BY <1>3 DEF Stranger
  <2>2. ~Pure(remote')
    <3>1. Len(remote) + 1 \in DOMAIN remote' /\ remote'[Len(remote) + 1].kind = kind
      BY <1>0, <2>1 DEF Histories
    <3> QED BY <3>1 DEF Pure
  <2>3. UNCHANGED <<local, pass>>
    BY <1>3 DEF Stranger
  <2>4. pass # None /\ pass.pc = "adopt" => pass.head \in Histories /\ ancestor(pass.head, remote)
    BY <1>0 DEF TypesInv, Publications, Adoptions, PassInLine
  <2>5. pass # None /\ pass.pc = "adopt" => ancestor(pass.head, remote')
    BY <1>0, <2>4, AncestorTransitive
  <2> QED BY <1>0, <2>2, <2>3, <2>5 DEF InLine, PassInLine
<1>4. CASE PublishBegins
  <2>1. /\ UNCHANGED <<local, remote>>
        /\ pass' = pass \/ pass' = [pc |-> "check", tree |-> Tree(current), parent |-> local]
    BY <1>4 DEF PublishBegins, branches
  <2>2. CASE pass' = [pc |-> "check", tree |-> Tree(current), parent |-> local]
    BY <1>0, <2>1, <2>2 DEF PassInLine
  <2> QED BY <1>1, <2>1, <2>2
<1>5. CASE check_remote
  <2>1. UNCHANGED <<local, remote>> /\ pass \in Publications /\ pass.parent = local
    BY <1>0, <1>5 DEF check_remote, branches, Running, PassInLine, TypesInv, Adoptions
  <2>2. CASE ancestor(remote, local) /\ pass' = [pass EXCEPT !.pc = "commit"]
    <3>1. pass'.pc = "commit" /\ pass'.parent = local
      BY <2>1, <2>2 DEF Publications
    <3> QED BY <1>0, <2>1, <2>2, <3>1 DEF PassInLine
  <2> QED BY <1>1, <1>5, <2>1, <2>2 DEF check_remote
<1>6. CASE GitCommit
  <2>1. /\ pass \in Publications /\ pass.parent = local /\ UNCHANGED remote
        /\ Pure(remote) => ancestor(remote, local)
        /\ pass' = [pass EXCEPT !.pc = "push", !.parent = local']
    BY <1>0, <1>6 DEF GitCommit, Running, PassInLine, TypesInv, Adoptions
  <2>2. local' \in Histories /\ ancestor(local, local')
    <3> DEFINE e == [kind |-> "ours", tree |-> pass.tree, id |-> era]
    <3>1. e \in Entries
      BY <2>1 DEF Publications, Entries, TypesInv
    <3>2. local' = local \/ local' = Append(local, e)
      BY <1>6, <2>1 DEF GitCommit
    <3> HIDE DEF e
    <3> QED BY <1>0, <3>1, <3>2, AncestorAppend, AncestorReflexive, Zenon
  <2>3. Pure(remote) => ancestor(remote, local')
    BY <1>0, <2>1, <2>2, AncestorTransitive
  <2>4. pass'.pc = "push" /\ pass'.parent = local'
    BY <2>1 DEF Publications
  <2> QED BY <2>1, <2>3, <2>4 DEF InLine, PassInLine
<1>7. CASE AdoptBegins
  <2>1. UNCHANGED <<local, remote>> /\ pass' = [pc |-> "adopt", head |-> remote]
    BY <1>7 DEF AdoptBegins, branches
  <2> QED BY <1>0, <2>1, AncestorReflexive DEF PassInLine
<1>8. CASE Adopt
  <2>1. ancestor(pass.head, remote)
    BY <1>0, <1>8 DEF Adopt, Running, PassInLine
  <2> QED BY <1>8, <2>1 DEF Adopt, InLine
<1>9. CASE MoveAside \/ StateLost
  <2>1. local' = <<>> /\ UNCHANGED remote /\ pass' = None
    BY <1>9 DEF MoveAside, StateLost
  <2>2. ancestor(<<>>, remote)
    BY <1>0 DEF ancestor, Histories
  <2> QED BY <2>1, <2>2 DEF InLine
<1>10. CASE Push
  BY <1>1, <1>2, <1>10 DEF Push
<1>11. CASE PassFails \/ OriginRestarts
  BY <1>1, <1>2, <1>11 DEF PassFails, OriginRestarts, Killed
<1>12. CASE Updating \/ UpdateFails \/ GitWoken \/ GitInterval
  BY <1>1, <1>12 DEF Updating, Update, PrepareTarget, InstallTarget, record_master_update,
                     UpdateFails, GitWoken, GitInterval, branches
<1>13. CASE VerifyHead \/ GameChanges \/ Import \/ TableDamaged
  BY <1>1, <1>13 DEF VerifyHead, GameChanges, Import, TableDamaged, branches
<1> QED BY <1>3, <1>4, <1>5, <1>6, <1>7, <1>8, <1>9, <1>10, <1>11, <1>12, <1>13
        DEF OriginNext, Publishing

LEMMA OriginStep == OriginIInv /\ [OriginNext]_originVars => OriginIInv'
<1> SUFFICES ASSUME OriginIInv, [OriginNext]_originVars PROVE OriginIInv'
  OBVIOUS
<1>1. CASE OriginNext
  <2>1. TypesInv /\ ReceiptTrue /\ LocalOurs /\ AdoptSound /\ LineInv
    BY DEF OriginIInv
  <2>2. /\ remote' \in Histories
        /\ local' \in Histories /\ era' \in Nat /\ LocalOurs'
    BY <1>1, <2>1, RemoteStep, LocalStep
  <2>3. (pass' # None => pass' \in Publications \/ pass' \in Adoptions) /\ AdoptSound'
    BY <1>1, <2>1, PassStep
  <2>4. /\ game' \in GameTargets /\ (current' # None => current' \in GameTargets)
        /\ happened' \in Nat
    BY <1>1, <2>1, InstallStep
  <2>5. (last' # None => last' \in Histories) /\ ReceiptTrue'
    BY <1>1, <2>1, ReceiptStep
  <2>6. TypesInv'
    BY <2>2, <2>3, <2>4, <2>5 DEF TypesInv
  <2>7. LineInv'
    BY <1>1, <2>1, LineStep
  <2> QED BY <2>2, <2>3, <2>5, <2>6, <2>7 DEF OriginIInv
<1>2. CASE UNCHANGED originVars
  BY <1>2 DEF originVars, install, branches, OriginIInv, TypesInv, ReceiptTrue, LocalOurs,
              AdoptSound, LineInv, Running, Sirius, Newest, Ours, ancestor
<1> QED BY <1>1, <1>2

----------------------------------------------------------------------------
(* Receipts are true: the commit of last_success is an ancestor of the     *)
(* remote head, however passes of publish fail, restart or find nothing to *)
(* commit, and whatever others push.                                       *)
THEOREM ReceiptsAreTrue == OriginSpec => []ReceiptTrue
<1>1. OriginIInv => ReceiptTrue
  BY DEF OriginIInv
<1> QED BY <1>1, InitOrigin, OriginStep, PTL DEF OriginSpec

(* The newest publication on the managed branch is of this region and      *)
(* layout, and of this scope where the layout records it (recognize),      *)
(* through commits, adoptions of any depth and losses of the state         *)
(* directory.                                                              *)
THEOREM LocalIsOurs == OriginSpec => []LocalOurs
<1>1. OriginIInv => LocalOurs
  BY DEF OriginIInv
<1> QED BY <1>1, InitOrigin, OriginStep, PTL DEF OriginSpec

(* While only this program writes to the remote branch, no loss of the     *)
(* state directory, killed pass or push that arrives late makes the        *)
(* managed and the remote branch diverge (check_remote, finish).           *)
THEOREM HistoryIsOne == OriginSpec => []OneHistory
<1>1. OriginIInv => OneHistory
  BY DEF OriginIInv, LineInv, InLine, Pure, OneHistory, Diverged, Obstructed
<1> QED BY <1>1, InitOrigin, OriginStep, PTL DEF OriginSpec
=============================================================================
