---------------------------- MODULE AriesRecovery ----------------------------
(***************************************************************************)
(* Transactions that log what they do, crashes, and the redo of the log by *)
(* logging/loggers/aries_frontend_logger.cpp.                              *)
(*                                                                         *)
(* One table.  Its tuples are at locations <<tile group, slot>>, with      *)
(* headers as in TileGroup.  The log gets a record at a time from the      *)
(* queue of any backend: DurableLog, which WriteAheadLog implements,       *)
(* orders the records of one backend and no others.  A crash loses         *)
(* everything but the log file.                                            *)
(*                                                                         *)
(* A commit is installed and published in one step, as CommitOrder and     *)
(* TileGroup justify.  A transaction logs from a thread of its own.        *)
(***************************************************************************)
EXTENDS Naturals, Sequences, FiniteSets

CONSTANTS
  Txns,
  MaxOid,           \* bound: tile groups
  Capacity,         \* tuple slots of a tile group
  MaxOperations,    \* bound: inserts, deletes and updates of a transaction
  MaxCrashes,       \* bound: crashes
  MaxRecords,       \* bound: records in the log file
  MaxUnlogged       \* bound: inserts of the rows of another plan

ASSUME AriesRecoveryAssumption ==
  /\ IsFiniteSet(Txns)
  /\ MaxOid \in Nat \ {0} /\ Capacity \in Nat \ {0}
  /\ MaxOperations \in Nat /\ MaxCrashes \in Nat /\ MaxRecords \in Nat
  /\ MaxUnlogged \in Nat

INVALID_TXN_ID == 0
INITIAL_TXN_ID == 1
START_TXN_ID == 2
START_CID == 1

\* Bound: above every commit id, as there is one for each transaction and
\* one for recovery.
MAX_CID == START_CID + Cardinality(Txns) + 2

VARIABLES
  file,             \* the log file
  \* The table and the catalog.
  txn_id,           \* the latch word at each location
  begin_cid, end_cid,
  next_tuple_slot,  \* of each tile group
  tile_groups,      \* the table's tile groups, in order
  oid,              \* the last object id given out
  next_txn_id, last_cid,
  \* Transactions, and the queues of their threads.
  status, id, snapshot, inserted_tuples, deleted_tuples, operations, queue,
  \* Recovery.
  mode,
  position,         \* of the record to be read next
  recovery_txn,     \* the tuples that recovery will commit
  active,           \* the keys of recovery_txn_table
  redone,           \* what its transactions have inserted and deleted
  max_oid,
  crashes,
  unlogged          \* inserts that were not logged

headerVars == <<txn_id, begin_cid, end_cid>>
groupVars == <<next_tuple_slot, tile_groups, oid>>
txnVars == <<next_txn_id, last_cid, status, id, snapshot, inserted_tuples, deleted_tuples, operations>>
recoveryVars == <<position, recovery_txn, active, redone, max_oid>>
vars == <<file, headerVars, groupVars, txnVars, queue, mode, recoveryVars, crashes, unlogged>>

Oids == 1 .. MaxOid
Locations == Oids \X (0 .. Capacity - 1)
Ids == START_TXN_ID .. START_TXN_ID + Cardinality(Txns)

\* The id of the transaction that recovery runs in, the first after a restart.
RecoveryId == START_TXN_ID

NoLocation == <<0, 0>>
Nothing == [inserted |-> {}, deleted |-> {}]
TransactionRecord(type, x) == [type |-> type, txn |-> x, insert |-> NoLocation, delete |-> NoLocation]
TupleRecord(type, x, ins, del) == [type |-> type, txn |-> x, insert |-> ins, delete |-> del]

-----------------------------------------------------------------------------
Unset == [l \in Locations |-> MAX_CID]
NoLatches == [l \in Locations |-> INVALID_TXN_ID]
NoSlots == [g \in Oids |-> 0]
NothingRedone == [x \in Ids |-> Nothing]

(* The table is empty and has one tile group, which the constructor of     *)
(* DataTable adds.                                                         *)
Init ==
  /\ file = <<>>
  /\ txn_id = NoLatches /\ begin_cid = Unset /\ end_cid = Unset
  /\ next_tuple_slot = NoSlots /\ tile_groups = <<1>> /\ oid = 1
  /\ last_cid = START_CID /\ next_txn_id = START_TXN_ID
  /\ status = [t \in Txns |-> "idle"]
  /\ id = [t \in Txns |-> INVALID_TXN_ID]
  /\ snapshot = [t \in Txns |-> 0]
  /\ inserted_tuples = [t \in Txns |-> {}]
  /\ deleted_tuples = [t \in Txns |-> {}]
  /\ operations = [t \in Txns |-> 0]
  /\ queue = [t \in Txns |-> <<>>]
  /\ mode = "logging"
  /\ position = 1 /\ recovery_txn = Nothing
  /\ active = {} /\ redone = NothingRedone /\ max_oid = 0
  /\ crashes = 0 /\ unlogged = 0

-----------------------------------------------------------------------------
(* What an operation of transaction id x does to the headers: latches is   *)
(* the latch words before it.                                              *)

\* TileGroup::DeleteTuple succeeds.
CanDelete(x, l) == txn_id[l] = x \/ (txn_id[l] = INITIAL_TXN_ID /\ end_cid[l] = MAX_CID)

\* Faulty variant: a tuple of the transaction's own stays latched.
FaultyLatchesAfterDeleteKeeps(x, l) == [txn_id EXCEPT ![l] = x]

\* A tuple of the transaction's own is dropped, another one latched.
LatchesAfterDelete(x, l) ==
  [txn_id EXCEPT ![l] = IF @ = x THEN INVALID_TXN_ID ELSE x]

\* TileGroup::InsertTuple at l, in a tile group that is new if wanted.
WriteTuple(x, l, latches, new) ==
  LET cleared == {k \in Locations : k = l \/ (new /\ k[1] = l[1])}
  IN /\ txn_id' = [k \in Locations |-> IF k = l THEN x
                                       ELSE IF k \in cleared THEN INVALID_TXN_ID
                                       ELSE latches[k]]
     /\ begin_cid' = [k \in Locations |-> IF k \in cleared THEN MAX_CID ELSE begin_cid[k]]
     /\ end_cid' = [k \in Locations |-> IF k \in cleared THEN MAX_CID ELSE end_cid[k]]

\* TransactionManager::CommitModifications: inserts, then deletes.  A tuple
\* that is no longer latched by x is passed over.
Mine(x, ls) == {l \in ls : txn_id[l] = x}

LatchesAfterCommit(x, ins, del) ==
  [l \in Locations |-> IF l \in Mine(x, ins \cup del) THEN INITIAL_TXN_ID ELSE txn_id[l]]

CommitModifications(x, ins, del) ==
  /\ begin_cid' = [l \in Locations |-> IF l \in Mine(x, ins) THEN last_cid + 1 ELSE begin_cid[l]]
  /\ end_cid' = [l \in Locations |-> IF l \in Mine(x, del \ ins) THEN last_cid + 1 ELSE end_cid[l]]
  /\ last_cid' = last_cid + 1

\* TileGroupHeader::IsVisible to transaction x with snapshot at.
IsVisible(x, at, l) ==
  LET own == txn_id[l] = x
      activated == at >= begin_cid[l]
      invalidated == at >= end_cid[l]
  IN /\ txn_id[l] # INVALID_TXN_ID
     /\ own <=> ~activated
     /\ ~invalidated

-----------------------------------------------------------------------------
(* Transactions.                                                           *)
Logged(t, records) == queue' = [queue EXCEPT ![t] = @ \o records]

BeginTransaction(t) ==
  /\ mode = "logging" /\ status[t] = "idle"
  /\ status' = [status EXCEPT ![t] = "running"]
  /\ id' = [id EXCEPT ![t] = next_txn_id]
  /\ next_txn_id' = next_txn_id + 1
  /\ snapshot' = [snapshot EXCEPT ![t] = last_cid]
  /\ Logged(t, <<TransactionRecord("BEGIN", next_txn_id)>>)
  /\ UNCHANGED <<file, headerVars, groupVars, last_cid, inserted_tuples, deleted_tuples, operations,
                 mode, recoveryVars, crashes, unlogged>>

Operation(t) ==
  /\ mode = "logging" /\ status[t] = "running"
  /\ operations[t] < MaxOperations
  /\ operations' = [operations EXCEPT ![t] = @ + 1]
  /\ UNCHANGED <<file, next_txn_id, last_cid, status, id, snapshot, mode, recoveryVars, crashes>>

\* DataTable::InsertTuple: a slot of the last tile group, of a new one if
\* that is full.
LastGroup == tile_groups[Len(tile_groups)]
Full == next_tuple_slot[LastGroup] = Capacity
TargetLocation == IF Full THEN <<oid + 1, 0>> ELSE <<LastGroup, next_tuple_slot[LastGroup]>>

InsertTuple(t, latches) ==
  LET l == TargetLocation
  IN /\ l \in Locations
     /\ next_tuple_slot' = [next_tuple_slot EXCEPT ![l[1]] = l[2] + 1]
     /\ \/ Full /\ tile_groups' = Append(tile_groups, l[1]) /\ oid' = l[1]
        \/ ~Full /\ UNCHANGED <<tile_groups, oid>>
     /\ WriteTuple(id[t], l, latches, Full)
     /\ inserted_tuples' = [inserted_tuples EXCEPT ![t] = @ \cup {l}]

\* The loop over the rows of a child plan writes no log record.
InsertExecutor(t) ==
  /\ Operation(t)
  /\ InsertTuple(t, txn_id)
  /\ \/ /\ Logged(t, <<TupleRecord("INSERT", id[t], TargetLocation, NoLocation)>>)
        /\ UNCHANGED unlogged
     \/ /\ unlogged < MaxUnlogged
        /\ unlogged' = unlogged + 1
        /\ UNCHANGED queue
  /\ UNCHANGED deleted_tuples

\* The record is written before the attempt.  After a failure the block
\* that the statement is part of goes on, or aborts.
DeleteExecutor(t, l) ==
  /\ Operation(t)
  /\ IsVisible(id[t], snapshot[t], l)
  /\ Logged(t, <<TupleRecord("DELETE", id[t], NoLocation, l)>>)
  /\ \/ /\ CanDelete(id[t], l)
        /\ txn_id' = LatchesAfterDelete(id[t], l)
        /\ deleted_tuples' = [deleted_tuples EXCEPT ![t] = @ \cup {l}]
     \/ ~CanDelete(id[t], l) /\ UNCHANGED <<txn_id, deleted_tuples>>
  /\ UNCHANGED <<begin_cid, end_cid, groupVars, inserted_tuples, unlogged>>

UpdateExecutor(t, l) ==
  /\ Operation(t) /\ UNCHANGED unlogged
  /\ IsVisible(id[t], snapshot[t], l)
  /\ \/ /\ CanDelete(id[t], l)
        /\ deleted_tuples' = [deleted_tuples EXCEPT ![t] = @ \cup {l}]
        /\ InsertTuple(t, LatchesAfterDelete(id[t], l))
        /\ Logged(t, <<TupleRecord("UPDATE", id[t], TargetLocation, l)>>)
     \/ /\ ~CanDelete(id[t], l)
        /\ UNCHANGED <<headerVars, groupVars, inserted_tuples, deleted_tuples, queue>>

CommitTransaction(t) ==
  /\ mode = "logging" /\ status[t] = "running"
  /\ status' = [status EXCEPT ![t] = "committed"]
  /\ CommitModifications(id[t], inserted_tuples[t], deleted_tuples[t])
  /\ txn_id' = LatchesAfterCommit(id[t], inserted_tuples[t], deleted_tuples[t])
  /\ Logged(t, <<TransactionRecord("COMMIT", id[t]), TransactionRecord("END", id[t])>>)
  /\ UNCHANGED <<file, groupVars, next_txn_id, id, snapshot, inserted_tuples, deleted_tuples,
                 operations, mode, recoveryVars, crashes, unlogged>>

AbortTransaction(t) ==
  /\ mode = "logging" /\ status[t] = "running"
  /\ status' = [status EXCEPT ![t] = "aborted"]
  /\ txn_id' = [l \in Locations |->
                  IF l \in inserted_tuples[t] THEN INVALID_TXN_ID
                  ELSE IF l \in deleted_tuples[t] /\ txn_id[l] = id[t] THEN INITIAL_TXN_ID
                  ELSE txn_id[l]]
  /\ Logged(t, <<TransactionRecord("ABORT", id[t]), TransactionRecord("END", id[t])>>)
  /\ UNCHANGED <<file, begin_cid, end_cid, groupVars, next_txn_id, last_cid, id, snapshot,
                 inserted_tuples, deleted_tuples, operations, mode, recoveryVars, crashes, unlogged>>

\* WaitForFlushing returns to the committed transaction.
Acknowledge(t) ==
  /\ mode = "logging" /\ status[t] = "committed" /\ queue[t] = <<>>
  /\ status' = [status EXCEPT ![t] = "acknowledged"]
  /\ UNCHANGED <<file, headerVars, groupVars, next_txn_id, last_cid, id, snapshot,
                 inserted_tuples, deleted_tuples, operations, queue, mode, recoveryVars, crashes, unlogged>>

\* The frontend logger: DurableLog!Flush, a record at a time.
FlushLogRecords(t) ==
  /\ mode = "logging" /\ queue[t] # <<>>
  /\ Len(file) < MaxRecords
  /\ file' = Append(file, Head(queue[t]))
  /\ queue' = [queue EXCEPT ![t] = Tail(@)]
  /\ UNCHANGED <<headerVars, groupVars, txnVars, mode, recoveryVars, crashes, unlogged>>

-----------------------------------------------------------------------------
(* A crash, and the start of DoRecovery if there is something in the log.  *)
(* Ids start again.                                                        *)
Crash ==
  /\ mode # "failed"
  /\ crashes < MaxCrashes
  /\ crashes' = crashes + 1
  /\ txn_id' = NoLatches /\ begin_cid' = Unset /\ end_cid' = Unset
  /\ next_tuple_slot' = NoSlots /\ tile_groups' = <<1>> /\ oid' = 1
  /\ last_cid' = START_CID
  /\ position' = 1 /\ recovery_txn' = Nothing
  /\ active' = {} /\ redone' = NothingRedone /\ max_oid' = 0
  /\ queue' = [t \in Txns |-> <<>>]
  /\ status' = [t \in Txns |-> CASE status[t] = "running" -> "lost"
                              [] status[t] = "committed" -> "unacknowledged"
                              [] OTHER -> status[t]]
  /\ \/ file = <<>> /\ mode' = "logging" /\ next_txn_id' = START_TXN_ID
     \/ file # <<>> /\ mode' = "recovery" /\ next_txn_id' = START_TXN_ID + 1
  /\ UNCHANGED <<file, id, snapshot, inserted_tuples, deleted_tuples, operations, unlogged>>

Record == file[position]

\* GetNextLogRecordType.
Read(types) ==
  /\ mode = "recovery"
  /\ position <= Len(file)
  /\ Record.type \in types
  /\ position' = position + 1
  /\ UNCHANGED <<file, txnVars, queue, crashes, unlogged>>

\* A transaction id that is in recovery_txn_table already stays as it is.
AddTransactionToRecoveryTable ==
  /\ Read({"BEGIN"})
  /\ active' = active \cup {Record.txn}
  /\ UNCHANGED <<headerVars, groupVars, mode, recovery_txn, redone, max_oid>>

RemoveTransactionFromRecoveryTable ==
  /\ Read({"END"})
  /\ active' = active \ {Record.txn}
  /\ redone' = [redone EXCEPT ![Record.txn] = Nothing]
  /\ UNCHANGED <<headerVars, groupVars, mode, recovery_txn, max_oid>>

MoveCommittedTuplesToRecoveryTxn ==
  /\ Read({"COMMIT"})
  /\ recovery_txn' = [inserted |-> recovery_txn.inserted \cup redone[Record.txn].inserted,
                      deleted |-> recovery_txn.deleted \cup redone[Record.txn].deleted]
  /\ redone' = [redone EXCEPT ![Record.txn] = Nothing]
  /\ UNCHANGED <<headerVars, groupVars, mode, active, max_oid>>

\* AbortTuples of the transactions xs on the given latch words.  The release
\* of a deleted tuple names the id from the log.
LatchesAfterAbort(xs, latches) ==
  [l \in Locations |->
     IF \E x \in xs : l \in redone[x].inserted THEN INVALID_TXN_ID
     ELSE IF \E x \in xs : l \in redone[x].deleted /\ latches[l] = x THEN INITIAL_TXN_ID
     ELSE latches[l]]

AbortTuplesFromRecoveryTable ==
  /\ Read({"ABORT"})
  /\ txn_id' = LatchesAfterAbort({Record.txn}, txn_id)
  /\ redone' = [redone EXCEPT ![Record.txn] = Nothing]
  /\ UNCHANGED <<begin_cid, end_cid, groupVars, mode, recovery_txn, active, max_oid>>

HasTileGroup(g) == \E i \in 1 .. Len(tile_groups) : tile_groups[i] = g

\* The tile group is created if the table does not have it; the slot is
\* taken whatever was in it.
RedoInsert(l, latches) ==
  LET new == ~HasTileGroup(l[1])
  IN /\ tile_groups' = IF new THEN Append(tile_groups, l[1]) ELSE tile_groups
     /\ max_oid' = IF new /\ max_oid < l[1] THEN l[1] ELSE max_oid
     /\ next_tuple_slot' = [next_tuple_slot EXCEPT ![l[1]] = IF @ <= l[2] THEN l[2] + 1 ELSE @]
     /\ WriteTuple(RecoveryId, l, latches, new)

\* Faulty variant: the insert is recorded in the recovery transaction.
FaultyRecoverInsertEager ==
  /\ Read({"INSERT"})
  /\ Record.txn \in active
  /\ RedoInsert(Record.insert, txn_id)
  /\ recovery_txn' = [recovery_txn EXCEPT !.inserted = @ \cup {Record.insert}]
  /\ UNCHANGED <<oid, mode, active, redone>>

RecoverInsert ==
  /\ Read({"INSERT"})
  /\ Record.txn \in active
  /\ RedoInsert(Record.insert, txn_id)
  /\ redone' = [redone EXCEPT ![Record.txn].inserted = @ \cup {Record.insert}]
  /\ UNCHANGED <<oid, mode, recovery_txn, active>>

RecoverDelete ==
  /\ Read({"DELETE"})
  /\ Record.txn \in active /\ HasTileGroup(Record.delete[1])
  /\ \/ /\ CanDelete(RecoveryId, Record.delete)
        /\ txn_id' = LatchesAfterDelete(RecoveryId, Record.delete)
        /\ redone' = [redone EXCEPT ![Record.txn].deleted = @ \cup {Record.delete}]
     \/ ~CanDelete(RecoveryId, Record.delete) /\ UNCHANGED <<txn_id, redone>>
  /\ UNCHANGED <<begin_cid, end_cid, groupVars, mode, recovery_txn, active, max_oid>>

\* Faulty variant: only the delete half of an update is recorded.
FaultyRecoverUpdateForgets ==
  /\ Read({"UPDATE"})
  /\ Record.txn \in active /\ HasTileGroup(Record.delete[1])
  /\ \/ /\ CanDelete(RecoveryId, Record.delete)
        /\ RedoInsert(Record.insert, LatchesAfterDelete(RecoveryId, Record.delete))
        /\ redone' = [redone EXCEPT ![Record.txn].deleted = @ \cup {Record.delete}]
     \/ /\ ~CanDelete(RecoveryId, Record.delete)
        /\ UNCHANGED <<headerVars, next_tuple_slot, tile_groups, redone, max_oid>>
  /\ UNCHANGED <<oid, mode, recovery_txn, active>>

RecoverUpdate ==
  /\ Read({"UPDATE"})
  /\ Record.txn \in active /\ HasTileGroup(Record.delete[1])
  /\ \/ /\ CanDelete(RecoveryId, Record.delete)
        /\ RedoInsert(Record.insert, LatchesAfterDelete(RecoveryId, Record.delete))
        /\ redone' = [redone EXCEPT ![Record.txn] =
                        [inserted |-> @.inserted \cup {Record.insert},
                         deleted |-> @.deleted \cup {Record.delete}]]
     \/ /\ ~CanDelete(RecoveryId, Record.delete)
        /\ UNCHANGED <<headerVars, next_tuple_slot, tile_groups, redone, max_oid>>
  /\ UNCHANGED <<oid, mode, recovery_txn, active>>

\* DataTable::DeleteTuple dereferences the tile group it looked up.
DeleteInMissingTileGroup ==
  /\ Read({"DELETE", "UPDATE"})
  /\ Record.txn \in active /\ ~HasTileGroup(Record.delete[1])
  /\ mode' = "failed"
  /\ UNCHANGED <<headerVars, groupVars, recovery_txn, active, redone, max_oid>>

\* The end of DoRecovery: CommitTransaction, AbortActiveTransactions,
\* SetNextOid.
FinishRecovery ==
  /\ mode = "recovery" /\ position > Len(file)
  /\ CommitModifications(RecoveryId, recovery_txn.inserted, recovery_txn.deleted)
  /\ txn_id' = LatchesAfterAbort(active, LatchesAfterCommit(RecoveryId, recovery_txn.inserted,
                                                            recovery_txn.deleted))
  /\ active' = {} /\ redone' = NothingRedone
  /\ oid' = max_oid
  /\ mode' = "logging"
  /\ UNCHANGED <<file, next_tuple_slot, tile_groups, next_txn_id, status, id, snapshot, inserted_tuples,
                 deleted_tuples, operations, queue, position, recovery_txn, max_oid, crashes, unlogged>>

-----------------------------------------------------------------------------
Transaction(t) ==
  \/ BeginTransaction(t) \/ InsertExecutor(t)
  \/ \E l \in Locations : DeleteExecutor(t, l) \/ UpdateExecutor(t, l)
  \/ CommitTransaction(t) \/ AbortTransaction(t) \/ Acknowledge(t) \/ FlushLogRecords(t)

DoRecovery ==
  \/ AddTransactionToRecoveryTable \/ RemoveTransactionFromRecoveryTable
  \/ MoveCommittedTuplesToRecoveryTxn \/ AbortTuplesFromRecoveryTable
  \/ RecoverInsert \/ RecoverDelete \/ RecoverUpdate \/ DeleteInMissingTileGroup
  \/ FinishRecovery

\* Transactions may come to an end; recovery must not get stuck.
Stopped == mode # "recovery" /\ UNCHANGED vars

Next == (\E t \in Txns : Transaction(t)) \/ Crash \/ DoRecovery \/ Stopped

Spec == Init /\ [][Next]_vars

-----------------------------------------------------------------------------
RecordType == [type : {"BEGIN", "END", "COMMIT", "ABORT", "INSERT", "DELETE", "UPDATE"},
               txn : Ids, insert : Locations \cup {NoLocation}, delete : Locations \cup {NoLocation}]
TupleSets == [inserted : SUBSET Locations, deleted : SUBSET Locations]

(* Types of the variables.  A tuple record that recovery reads belongs to  *)
(* a transaction in recovery_txn_table: InsertTuple would otherwise leave  *)
(* its body behind to be read as the next record.                          *)
TypeOK ==
  /\ file \in Seq(RecordType) /\ queue \in [Txns -> Seq(RecordType)]
  /\ txn_id \in [Locations -> Ids \cup {INVALID_TXN_ID, INITIAL_TXN_ID}]
  /\ begin_cid \in [Locations -> Nat] /\ end_cid \in [Locations -> Nat]
  /\ next_tuple_slot \in [Oids -> 0 .. Capacity]
  /\ tile_groups \in Seq(Oids) /\ tile_groups # <<>>
  /\ oid \in Oids \cup {0} /\ max_oid \in Oids \cup {0}
  /\ next_txn_id \in Nat /\ last_cid \in Nat /\ last_cid < MAX_CID
  /\ status \in [Txns -> {"idle", "running", "committed", "acknowledged", "aborted", "lost",
                          "unacknowledged"}]
  /\ id \in [Txns -> Ids \cup {INVALID_TXN_ID}] /\ snapshot \in [Txns -> Nat]
  /\ inserted_tuples \in [Txns -> SUBSET Locations]
  /\ deleted_tuples \in [Txns -> SUBSET Locations]
  /\ operations \in [Txns -> 0 .. MaxOperations]
  /\ mode \in {"logging", "recovery", "failed"}
  /\ position \in Nat \ {0} /\ crashes \in 0 .. MaxCrashes /\ unlogged \in 0 .. MaxUnlogged
  /\ recovery_txn \in TupleSets /\ active \subseteq Ids /\ redone \in [Ids -> TupleSets]
  /\ mode = "recovery" /\ position <= Len(file) =>
       (Record.type \in {"INSERT", "DELETE", "UPDATE"} => Record.txn \in active)

Visible(l) == IsVisible(next_txn_id, last_cid, l)

\* Recovery has finished and no transaction has begun since.
Recovered ==
  /\ mode = "logging" /\ file # <<>>
  /\ position = Len(file) + 1
  /\ next_txn_id = RecoveryId + 1

Committed(t) == status[t] \in {"committed", "acknowledged", "unacknowledged"}

\* No transaction id, and no location in the log, was used twice: both are
\* given out again after a crash.
FreshIds == \A t, u \in Txns : id[t] # INVALID_TXN_ID /\ id[t] = id[u] => t = u
FreshLocations ==
  \A i, j \in 1 .. Len(file) :
    file[i].insert # NoLocation /\ file[i].insert = file[j].insert => i = j

(* A tuple that is visible was inserted by a transaction that committed,   *)
(* after a recovery as before: what AbortActiveTransactions calls "to      *)
(* ignore active transactions".                                            *)
AllCommitted ==
  mode = "logging" =>
    \A l \in Locations : Visible(l) => \E t \in Txns : Committed(t) /\ l \in inserted_tuples[t]

(* The same as long as ids are not used again.                             *)
NothingUncommitted == FreshIds => AllCommitted

InFile(type, x) == \E i \in 1 .. Len(file) : file[i].type = type /\ file[i].txn = x

(* A tuple does not come back if a transaction with a COMMIT record in the *)
(* log deleted it and the deletion follows the insertion in the log.       *)
DeletedStaysDeleted ==
  Recovered /\ FreshLocations =>
    \A i, j \in 1 .. Len(file) :
      /\ i < j /\ file[i].insert # NoLocation /\ file[i].insert = file[j].delete
      /\ InFile("COMMIT", file[j].txn)
      => ~Visible(file[i].insert)

\* Every deletion in the log comes after the insertion of the tuple.
InsertionsFirst ==
  \A j \in 1 .. Len(file) : file[j].delete # NoLocation =>
    \E i \in 1 .. j - 1 : file[i].insert = file[j].delete

\* Every deletion in the log was done, not refused.
DeletionsDone ==
  \A j \in 1 .. Len(file) : file[j].delete # NoLocation =>
    \E t \in Txns : id[t] = file[j].txn /\ file[j].delete \in deleted_tuples[t]

DeletionsCommitted ==
  \A j \in 1 .. Len(file) : file[j].delete # NoLocation => InFile("COMMIT", file[j].txn)

(* Redo of a log of which all of this is true, and from which no insert is *)
(* missing, makes visible exactly the tuples that transactions with a      *)
(* COMMIT record inserted and none deleted.                                *)
RecoveredExactly ==
  /\ Recovered /\ FreshIds /\ FreshLocations
  /\ InsertionsFirst /\ DeletionsDone /\ DeletionsCommitted /\ unlogged = 0
  =>
    \A l \in Locations :
      Visible(l) <=> /\ \E i \in 1 .. Len(file) : file[i].insert = l /\ InFile("COMMIT", file[i].txn)
                     /\ \A j \in 1 .. Len(file) : file[j].delete # l

InsertionInFile(l) == \E i \in 1 .. Len(file) : file[i].insert = l

(* What an acknowledged transaction inserted is in the log.                *)
InsertsLogged ==
  \A t \in Txns : status[t] = "acknowledged" => \A l \in inserted_tuples[t] : InsertionInFile(l)

\* What an acknowledged transaction inserted, with a record in the log, is
\* there unless a committed transaction deleted it.
InsertsSurvive ==
  \A t \in Txns : status[t] = "acknowledged" =>
    \A l \in inserted_tuples[t] :
      /\ InsertionInFile(l)
      /\ \A u \in Txns : l \in deleted_tuples[u] => ~Committed(u)
      => Visible(l)

(* A deletion that was not committed is undone, as AbortDeletedTuple says. *)
UndoneDeletes ==
  Recovered /\ FreshIds /\ FreshLocations /\ InsertionsFirst /\ DeletionsDone => InsertsSurvive

(* A transaction whose commit was acknowledged is in the log with all that *)
(* its redo needs, in whatever order the records of several backends were  *)
(* flushed.  This does not hold: last_cid is published before the flush,   *)
(* so another transaction can update a tuple and be acknowledged while the *)
(* INSERT of the tuple is still in the queue of its backend.               *)
AcknowledgedRecovered ==
  Recovered /\ FreshIds /\ FreshLocations /\ DeletionsDone /\ DeletionsCommitted => InsertsSurvive

(* The table has no tile group that the catalog will give out again.       *)
NextOidFresh == mode = "logging" => \A i \in 1 .. Len(tile_groups) : tile_groups[i] <= oid

(* Recovery gets through every log that a crash leaves.                    *)
RecoverySurvives == mode # "failed"
=============================================================================
