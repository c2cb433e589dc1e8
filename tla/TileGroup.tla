------------------------------ MODULE TileGroup ------------------------------
(***************************************************************************)
(* Multi-version tuples: storage/tile_group.cpp and tile_group_header.h,   *)
(* as the executors and the transaction manager use them.                  *)
(*                                                                         *)
(* A tuple slot has a header of three words: the id of the transaction     *)
(* that latched it, and the commit ids that began and ended its life.      *)
(* Readers take no latch: IsVisible reads the three words one after the    *)
(* other while committing transactions write them, each in a step of its   *)
(* own.  An update is a delete followed by an insert in the same           *)
(* transaction.                                                            *)
(*                                                                         *)
(* When a transaction gets its commit id and when it is published is       *)
(* CommitOrder, which TransactionManager implements; installing the        *)
(* modifications, one step there, is the two loops of CommitModifications  *)
(* here.                                                                   *)
(***************************************************************************)
EXTENDS Naturals

CONSTANTS
  Txns,             \* the transactions
  Loader,           \* the one that filled the table before the others began
  num_tuple_slots,  \* capacity of the tile group
  loaded,           \* how many slots Loader has filled
  INVALID_TXN_ID, INITIAL_TXN_ID,
  MAX_CID           \* the bound of commit ids, which none reaches

ASSUME TileGroupAssumption ==
  /\ Loader \in Txns
  /\ num_tuple_slots \in Nat /\ loaded \in 0 .. num_tuple_slots
  /\ INVALID_TXN_ID \notin Txns /\ INITIAL_TXN_ID \notin Txns
  /\ INVALID_TXN_ID # INITIAL_TXN_ID
  /\ MAX_CID \in Nat /\ MAX_CID > 2

VARIABLES
  phase, commitId, lastId, published, snapshot,    \* CommitOrder
  next_tuple_slot,  \* first slot not handed out yet
  txn_id,           \* the latch word of each slot
  begin_cid, end_cid,
  inserted_tuples,  \* Transaction::inserted_tuples
  deleted_tuples,   \* Transaction::deleted_tuples
  pc,               \* where the thread of each transaction is
  slot,             \* the slot it is working on
  read_txn_id,      \* IsVisible's copies of the header words
  read_begin_cid,
  read_end_cid,
  todo              \* slots that a commit or abort loop has yet to visit

CO == INSTANCE CommitOrder

coVars == <<phase, commitId, lastId, published, snapshot>>
headerVars == <<next_tuple_slot, txn_id, begin_cid, end_cid>>
setVars == <<inserted_tuples, deleted_tuples>>
readVars == <<read_txn_id, read_begin_cid, read_end_cid>>
vars == <<coVars, headerVars, setVars, pc, slot, readVars, todo>>

Slots == 0 .. num_tuple_slots - 1

\* No slot: what `slot` is between operations.
NoSlot == num_tuple_slots

PCs == {"idle", "running", "read_begin", "read_end", "decide", "latched",
        "commit_inserts", "set_begin", "commit_deletes", "set_end",
        "abort_inserts", "abort_deletes", "done"}

LoaderCid == CO!FirstId + 1

-----------------------------------------------------------------------------
(* The table once Loader has inserted its tuples, committed and been       *)
(* published.  All other slots are as the constructor of TileGroupHeader   *)
(* leaves them.                                                            *)
Init ==
  /\ phase = [t \in Txns |-> IF t = Loader THEN "installed" ELSE "idle"]
  /\ commitId = [t \in Txns |-> IF t = Loader THEN LoaderCid ELSE 0]
  /\ lastId = LoaderCid
  /\ published = LoaderCid
  /\ snapshot = [t \in Txns |-> IF t = Loader THEN CO!FirstId ELSE 0]
  /\ next_tuple_slot = loaded
  /\ txn_id = [s \in Slots |-> IF s < loaded THEN INITIAL_TXN_ID ELSE INVALID_TXN_ID]
  /\ begin_cid = [s \in Slots |-> IF s < loaded THEN LoaderCid ELSE MAX_CID]
  /\ end_cid = [s \in Slots |-> MAX_CID]
  /\ inserted_tuples = [t \in Txns |-> IF t = Loader THEN 0 .. loaded - 1 ELSE {}]
  /\ deleted_tuples = [t \in Txns |-> {}]
  /\ pc = [t \in Txns |-> IF t = Loader THEN "done" ELSE "idle"]
  /\ slot = [t \in Txns |-> NoSlot]
  /\ read_txn_id = [t \in Txns |-> INVALID_TXN_ID]
  /\ read_begin_cid = [t \in Txns |-> MAX_CID]
  /\ read_end_cid = [t \in Txns |-> MAX_CID]
  /\ todo = [t \in Txns |-> {}]

Goto(t, from, to) ==
  /\ pc[t] = from
  /\ pc' = [pc EXCEPT ![t] = to]

Begin(t) ==
  /\ Goto(t, "idle", "running")
  /\ CO!Begin(t)
  /\ UNCHANGED <<headerVars, setVars, slot, readVars, todo>>

(* TileGroup::InsertTuple: takes the next slot under the header's mutex    *)
(* and writes the header.  Until the latch word is written the slot is     *)
(* invisible to all, so this is one step.                                  *)
InsertTuple(t) ==
  /\ pc[t] = "running"
  /\ next_tuple_slot < num_tuple_slots
  /\ next_tuple_slot' = next_tuple_slot + 1
  /\ txn_id' = [txn_id EXCEPT ![next_tuple_slot] = t]
  /\ begin_cid' = [begin_cid EXCEPT ![next_tuple_slot] = MAX_CID]
  /\ end_cid' = [end_cid EXCEPT ![next_tuple_slot] = MAX_CID]
  /\ UNCHANGED <<coVars, deleted_tuples, pc, slot, readVars, todo>>

(* InsertExecutor, UpdateExecutor: an insert that passes the index checks  *)
(* is recorded in the transaction ...                                      *)
RecordInsert(t) ==
  /\ InsertTuple(t)
  /\ inserted_tuples' = [inserted_tuples EXCEPT ![t] = @ \cup {next_tuple_slot}]

(* ... one that does not (DataTable::InsertTuple returns                   *)
(* INVALID_ITEMPOINTER) leaves its slot behind.                            *)
InsertRejected(t) ==
  /\ InsertTuple(t)
  /\ UNCHANGED inserted_tuples

-----------------------------------------------------------------------------
(* TileGroupHeader::IsVisible on behalf of a scan: three reads, then the   *)
(* verdict.                                                                *)
ReadTransactionId(t) ==
  /\ Goto(t, "running", "read_begin")
  /\ \E s \in 0 .. next_tuple_slot - 1 :
       /\ slot' = [slot EXCEPT ![t] = s]
       /\ read_txn_id' = [read_txn_id EXCEPT ![t] = txn_id[s]]
  /\ UNCHANGED <<coVars, headerVars, setVars, read_begin_cid, read_end_cid, todo>>

ReadBeginCommitId(t) ==
  /\ Goto(t, "read_begin", "read_end")
  /\ read_begin_cid' = [read_begin_cid EXCEPT ![t] = begin_cid[slot[t]]]
  /\ UNCHANGED <<coVars, headerVars, setVars, slot, read_txn_id, read_end_cid, todo>>

ReadEndCommitId(t) ==
  /\ Goto(t, "read_end", "decide")
  /\ read_end_cid' = [read_end_cid EXCEPT ![t] = end_cid[slot[t]]]
  /\ UNCHANGED <<coVars, headerVars, setVars, slot, read_txn_id, read_begin_cid, todo>>

(* Faulty variant: the tuples deleted by the last transaction of the       *)
(* snapshot are still taken as valid.                                      *)
FaultyIsVisibleOffByOne(t) ==
  LET own == read_txn_id[t] = t
      activated == snapshot[t] >= read_begin_cid[t]
      invalidated == snapshot[t] > read_end_cid[t]
  IN /\ read_txn_id[t] # INVALID_TXN_ID
     /\ own <=> ~activated
     /\ ~invalidated

IsVisible(t) ==
  LET own == read_txn_id[t] = t
      activated == snapshot[t] >= read_begin_cid[t]
      invalidated == snapshot[t] >= read_end_cid[t]
  IN /\ read_txn_id[t] # INVALID_TXN_ID
     /\ own <=> ~activated
     /\ ~invalidated

ForgetRead(t) ==
  /\ slot' = [slot EXCEPT ![t] = NoSlot]
  /\ read_txn_id' = [read_txn_id EXCEPT ![t] = INVALID_TXN_ID]
  /\ read_begin_cid' = [read_begin_cid EXCEPT ![t] = MAX_CID]
  /\ read_end_cid' = [read_end_cid EXCEPT ![t] = MAX_CID]

(* The scan goes on.                                                       *)
ScanOn(t) ==
  /\ Goto(t, "decide", "running")
  /\ ForgetRead(t)
  /\ UNCHANGED <<coVars, headerVars, setVars, todo>>

(* Faulty variant: the latch is written without comparing it first.        *)
FaultyLatchTupleSlotBlind(t) ==
  /\ Goto(t, "decide", "latched")
  /\ IsVisible(t)
  /\ txn_id' = [txn_id EXCEPT ![slot[t]] = t]
  /\ UNCHANGED <<coVars, next_tuple_slot, begin_cid, end_cid, setVars, slot, readVars, todo>>

(* TileGroup::DeleteTuple on a tuple the scan found visible.  The slot is  *)
(* latched if it is free; a tuple of the transaction's own is dropped at   *)
(* once; a tuple that somebody else has latched makes the statement fail.  *)
LatchTupleSlot(t) ==
  /\ Goto(t, "decide", "latched")
  /\ IsVisible(t)
  /\ txn_id[slot[t]] = INITIAL_TXN_ID
  /\ txn_id' = [txn_id EXCEPT ![slot[t]] = t]
  /\ UNCHANGED <<coVars, next_tuple_slot, begin_cid, end_cid, setVars, slot, readVars, todo>>

DeleteOwnInsert(t) ==
  /\ Goto(t, "decide", "running")
  /\ IsVisible(t)
  /\ txn_id[slot[t]] = t
  /\ txn_id' = [txn_id EXCEPT ![slot[t]] = INVALID_TXN_ID]
  /\ deleted_tuples' = [deleted_tuples EXCEPT ![t] = @ \cup {slot[t]}]
  /\ ForgetRead(t)
  /\ UNCHANGED <<coVars, next_tuple_slot, begin_cid, end_cid, inserted_tuples, todo>>

DeleteFailed(t) ==
  /\ Goto(t, "decide", "running")
  /\ IsVisible(t)
  /\ txn_id[slot[t]] \notin {t, INITIAL_TXN_ID}
  /\ ForgetRead(t)
  /\ UNCHANGED <<coVars, headerVars, setVars, todo>>

IsDeletable(s) == end_cid[s] = MAX_CID

(* With the latch: the delete is recorded, or the latch given back.        *)
RecordDelete(t) ==
  /\ Goto(t, "latched", "running")
  /\ IsDeletable(slot[t])
  /\ deleted_tuples' = [deleted_tuples EXCEPT ![t] = @ \cup {slot[t]}]
  /\ ForgetRead(t)
  /\ UNCHANGED <<coVars, headerVars, inserted_tuples, todo>>

(* Faulty variant: the latch is kept.                                      *)
FaultyNotDeletableKeepsLatch(t) ==
  /\ Goto(t, "latched", "running")
  /\ ~IsDeletable(slot[t])
  /\ ForgetRead(t)
  /\ UNCHANGED <<coVars, headerVars, setVars, todo>>

NotDeletable(t) ==
  /\ Goto(t, "latched", "running")
  /\ ~IsDeletable(slot[t])
  /\ txn_id' = [txn_id EXCEPT ![slot[t]] = INITIAL_TXN_ID]
  /\ ForgetRead(t)
  /\ UNCHANGED <<coVars, next_tuple_slot, begin_cid, end_cid, setVars, todo>>

-----------------------------------------------------------------------------
(* TransactionManager::CommitModifications.                                *)
BeginCommitPhase(t) ==
  /\ Goto(t, "running", "commit_inserts")
  /\ lastId + 1 < MAX_CID
  /\ CO!GetCommitId(t)
  /\ todo' = [todo EXCEPT ![t] = inserted_tuples[t]]
  /\ UNCHANGED <<headerVars, setVars, slot, readVars>>

(* ReleaseTupleSlot(s, t): a CAS of the latch word, which fails on a       *)
(* tuple of the transaction's own that it also deleted.                    *)
ReleaseTupleSlot(t, s) ==
  txn_id' = [txn_id EXCEPT ![s] = IF @ = t THEN INITIAL_TXN_ID ELSE @]

(* The first half of CommitInsertedTuple and CommitDeletedTuple: release,  *)
(* then go on to write the commit id if the release succeeded.             *)
CommitTuple(t, from, to) ==
  /\ pc[t] = from
  /\ \E s \in todo[t] :
       /\ ReleaseTupleSlot(t, s)
       /\ todo' = [todo EXCEPT ![t] = @ \ {s}]
       /\ \/ txn_id[s] = t /\ Goto(t, from, to) /\ slot' = [slot EXCEPT ![t] = s]
          \/ txn_id[s] # t /\ UNCHANGED <<pc, slot>>
  /\ UNCHANGED <<coVars, next_tuple_slot, begin_cid, end_cid, setVars, readVars>>

CommitInsertedTuple(t) == CommitTuple(t, "commit_inserts", "set_begin")

SetBeginCommitId(t) ==
  /\ Goto(t, "set_begin", "commit_inserts")
  /\ begin_cid' = [begin_cid EXCEPT ![slot[t]] = commitId[t]]
  /\ slot' = [slot EXCEPT ![t] = NoSlot]
  /\ UNCHANGED <<coVars, next_tuple_slot, txn_id, end_cid, setVars, readVars, todo>>

(* Faulty variant: the second loop is forgotten.                           *)
FaultyInsertsCommittedOnly(t) ==
  /\ Goto(t, "commit_inserts", "commit_deletes")
  /\ todo[t] = {}
  /\ UNCHANGED <<coVars, headerVars, setVars, slot, readVars, todo>>

InsertsCommitted(t) ==
  /\ Goto(t, "commit_inserts", "commit_deletes")
  /\ todo[t] = {}
  /\ todo' = [todo EXCEPT ![t] = deleted_tuples[t]]
  /\ UNCHANGED <<coVars, headerVars, setVars, slot, readVars>>

CommitDeletedTuple(t) == CommitTuple(t, "commit_deletes", "set_end")

SetEndCommitId(t) ==
  /\ Goto(t, "set_end", "commit_deletes")
  /\ end_cid' = [end_cid EXCEPT ![slot[t]] = commitId[t]]
  /\ slot' = [slot EXCEPT ![t] = NoSlot]
  /\ UNCHANGED <<coVars, next_tuple_slot, txn_id, begin_cid, setVars, readVars, todo>>

Install(t) ==
  /\ Goto(t, "commit_deletes", "done")
  /\ todo[t] = {}
  /\ CO!Install(t)
  /\ UNCHANGED <<headerVars, setVars, slot, readVars, todo>>

Publish(t) ==
  /\ CO!Publish(t)
  /\ UNCHANGED <<headerVars, setVars, pc, slot, readVars, todo>>

-----------------------------------------------------------------------------
(* TransactionManager::AbortTransaction.                                   *)
AbortTransaction(t) ==
  /\ Goto(t, "running", "abort_inserts")
  /\ CO!Abort(t)
  /\ todo' = [todo EXCEPT ![t] = inserted_tuples[t]]
  /\ UNCHANGED <<headerVars, setVars, slot, readVars>>

AbortInsertedTuple(t) ==
  /\ pc[t] = "abort_inserts"
  /\ \E s \in todo[t] :
       /\ txn_id' = [txn_id EXCEPT ![s] = INVALID_TXN_ID]
       /\ todo' = [todo EXCEPT ![t] = @ \ {s}]
  /\ UNCHANGED <<coVars, next_tuple_slot, begin_cid, end_cid, setVars, pc, slot, readVars>>

InsertsAborted(t) ==
  /\ Goto(t, "abort_inserts", "abort_deletes")
  /\ todo[t] = {}
  /\ todo' = [todo EXCEPT ![t] = deleted_tuples[t]]
  /\ UNCHANGED <<coVars, headerVars, setVars, slot, readVars>>

AbortDeletedTuple(t) ==
  /\ pc[t] = "abort_deletes"
  /\ \E s \in todo[t] :
       /\ ReleaseTupleSlot(t, s)
       /\ todo' = [todo EXCEPT ![t] = @ \ {s}]
  /\ UNCHANGED <<coVars, next_tuple_slot, begin_cid, end_cid, setVars, pc, slot, readVars>>

Aborted(t) ==
  /\ Goto(t, "abort_deletes", "done")
  /\ todo[t] = {}
  /\ UNCHANGED <<coVars, headerVars, setVars, slot, readVars, todo>>

-----------------------------------------------------------------------------
Scan(t) ==
  ReadTransactionId(t) \/ ReadBeginCommitId(t) \/ ReadEndCommitId(t) \/ ScanOn(t)

DeleteTuple(t) ==
  \/ LatchTupleSlot(t) \/ DeleteOwnInsert(t) \/ DeleteFailed(t)
  \/ RecordDelete(t) \/ NotDeletable(t)

CommitModifications(t) ==
  \/ CommitInsertedTuple(t) \/ SetBeginCommitId(t) \/ InsertsCommitted(t)
  \/ CommitDeletedTuple(t) \/ SetEndCommitId(t) \/ Install(t)

Rollback(t) ==
  \/ AbortInsertedTuple(t) \/ InsertsAborted(t) \/ AbortDeletedTuple(t) \/ Aborted(t)

Step(t) ==
  \/ Begin(t) \/ RecordInsert(t) \/ InsertRejected(t) \/ Scan(t) \/ DeleteTuple(t)
  \/ BeginCommitPhase(t) \/ CommitModifications(t) \/ Publish(t)
  \/ AbortTransaction(t) \/ Rollback(t)

AllDone ==
  /\ \A t \in Txns : pc[t] = "done"
  /\ published = lastId
  /\ UNCHANGED vars

Next == (\E t \in Txns : Step(t)) \/ AllDone

Spec == Init /\ [][Next]_vars

-----------------------------------------------------------------------------
(* Types of the variables.                                                 *)
TypeOK ==
  /\ phase \in [Txns -> CO!Phases]
  /\ commitId \in [Txns -> Nat] /\ lastId \in Nat /\ published \in Nat
  /\ snapshot \in [Txns -> Nat]
  /\ next_tuple_slot \in 0 .. num_tuple_slots
  /\ txn_id \in [Slots -> Txns \cup {INVALID_TXN_ID, INITIAL_TXN_ID}]
  /\ begin_cid \in [Slots -> Nat] /\ end_cid \in [Slots -> Nat]
  /\ inserted_tuples \in [Txns -> SUBSET Slots]
  /\ deleted_tuples \in [Txns -> SUBSET Slots]
  /\ pc \in [Txns -> PCs]
  /\ slot \in [Txns -> Slots \cup {NoSlot}]
  /\ read_txn_id \in [Txns -> Txns \cup {INVALID_TXN_ID, INITIAL_TXN_ID}]
  /\ read_begin_cid \in [Txns -> Nat] /\ read_end_cid \in [Txns -> Nat]
  /\ todo \in [Txns -> SUBSET Slots]

Committing(t) == commitId[t] # 0

(* The effects of w are part of the snapshot of t.                         *)
InSnapshot(w, t) == Committing(w) /\ commitId[w] <= snapshot[t]

(* What a reader should see of slot s: its own insert, or a tuple of its   *)
(* snapshot, unless it or a transaction of the snapshot deleted it.  Slots *)
(* of rejected inserts are nobody's.                                       *)
InSnapshotOf(t, s) ==
  /\ \E w \in Txns : s \in inserted_tuples[w] /\ (w = t \/ InSnapshot(w, t))
  /\ ~\E w \in Txns : s \in deleted_tuples[w] /\ (w = t \/ InSnapshot(w, t))

(* DeleteTuple deletes a tuple only "if it is neither already locked nor   *)
(* deleted in future": no tuple is deleted by two committed transactions.  *)
OneDeleter ==
  \A s \in Slots : \A t, u \in Txns :
    /\ s \in deleted_tuples[t] /\ Committing(t)
    /\ s \in deleted_tuples[u] /\ Committing(u)
    => t = u

Rejected(s) == s < next_tuple_slot /\ \A t \in Txns : s \notin inserted_tuples[t]

(* IsVisible takes no latch and reads a header that is being written, and  *)
(* yet decides as if it looked at the snapshot, as long as no tuple was    *)
(* deleted twice.                                                          *)
ReadsSnapshot ==
  OneDeleter =>
    \A t \in Txns : pc[t] = "decide" /\ ~Rejected(slot[t]) =>
      (IsVisible(t) <=> InSnapshotOf(t, slot[t]))

(* When last_cid covers a transaction its inserts and deletes are all in   *)
(* the headers, its latches gone or taken by a later transaction.          *)
PublishedInPlace ==
  OneDeleter =>
    \A t \in Txns : Committing(t) /\ commitId[t] <= published =>
      /\ \A s \in inserted_tuples[t] :
           IF s \in deleted_tuples[t] THEN txn_id[s] = INVALID_TXN_ID
                                      ELSE begin_cid[s] = commitId[t]
      /\ \A s \in deleted_tuples[t] \ inserted_tuples[t] :
           ~Rejected(s) => end_cid[s] = commitId[t]

(* The assertion of ReleaseTupleSlot: when the transaction that has a      *)
(* tuple on its lists comes to release it, nobody else has the latch; the  *)
(* CAS can only fail because the transaction dropped a tuple of its own.   *)
ReleaseAssertion ==
  \A t \in Txns : \A s \in todo[t] :
    pc[t] \in {"commit_inserts", "commit_deletes", "abort_deletes"} =>
      txn_id[s] \in {t, INVALID_TXN_ID}

(* A transaction that has finished, either way, holds no latch, except on  *)
(* the slots of its rejected inserts.                                      *)
NoLatchLeft ==
  \A t \in Txns : pc[t] = "done" => \A s \in Slots : txn_id[s] = t => Rejected(s)
=============================================================================
