-------------------------- MODULE TileGroupProofs ---------------------------
(***************************************************************************)
(* Proofs, for any number of transactions and slots, that lock-free        *)
(* visibility checks decide as if on a snapshot, that published            *)
(* transactions are entirely in the headers, that releases meet the        *)
(* assertion in the code and that no latch is left behind.  First comes    *)
(* the part of the invariant on latch words, for the steps of a running    *)
(* transaction, of commit and of abort.                                    *)
(***************************************************************************)
EXTENDS TileGroupInvariant

-----------------------------------------------------------------------------
(* A transaction drops a tuple at once only if it inserted it and did not  *)
(* delete it before: a tuple that it deleted is not visible to it.         *)
LEMMA OwnDelete ==
  ASSUME IInv, NEW t \in Txns, DeleteOwnInsert(t)
  PROVE  /\ slot[t] \in Slots /\ slot[t] \notin deleted_tuples[t]
         /\ slot[t] \in inserted_tuples[t] \/ Rejected(slot[t])
<1> USE DEF IInv
<1>1. /\ pc[t] = "decide" /\ IsVisible(t) /\ txn_id[slot[t]] = t
  BY DEF DeleteOwnInsert, Goto
<1>2. slot[t] \in Slots
  BY <1>1, SlotFacts, TileGroupAssumption DEF TypeOK, Sets, SetsOf, Reading, NoSlot
<1>3. read_begin_cid[t] <= snapshot[t] <=> SawInsert(t, slot[t])
  BY <1>1 DEF Reads, Reading
<1>4. ~SawInsert(t, slot[t])
  <2>1. read_txn_id[t] = t
    BY <1>1 DEF Reads, Reading
  <2>2. ~(snapshot[t] >= read_begin_cid[t])
    BY <1>1, <2>1 DEF IsVisible
  <2> QED
    BY <1>3, <2>2 DEF TypeOK
<1>5. ~HoldsDelete(t, slot[t])
  BY <1>4 DEF Deletes, HoldsDelete
<1>6. HoldsInsert(t, slot[t]) \/ Rejected(slot[t])
  BY <1>1, <1>2, <1>5 DEF Latches, LatchOf, HoldsLatch
<1>7. INVALID_TXN_ID # t
  BY TileGroupAssumption
<1> QED
  BY <1>1, <1>2, <1>6, <1>7 DEF HoldsInsert, Latches, LatchOf

(* A transaction latches a tuple that it has not touched before.           *)
LEMMA FreshLatch ==
  ASSUME IInv, NEW t \in Txns, LatchTupleSlot(t)
  PROVE  /\ slot[t] \in Slots /\ ~Rejected(slot[t])
         /\ slot[t] \notin inserted_tuples[t] /\ slot[t] \notin deleted_tuples[t]
<1> USE TileGroupAssumption, SlotFacts DEF IInv
<1>1. pc[t] = "decide" /\ txn_id[slot[t]] = INITIAL_TXN_ID
  BY DEF LatchTupleSlot, Goto
<1>2. slot[t] \in Slots
  BY <1>1 DEF TypeOK, Reading, Sets, SetsOf, NoSlot
<1>3. ~Rejected(slot[t])
  BY <1>1, <1>2 DEF Sets, Unused
<1>4. LatchOf(t, slot[t])
  BY <1>2 DEF Latches
<1> QED
  BY <1>1, <1>2, <1>3, <1>4 DEF LatchOf, HoldsInsert, HoldsDelete, Running

(* A step of t disturbs nobody else's latches if it takes only the free    *)
(* ones and gives up only its own.                                         *)
LEMMA OthersLatches ==
  ASSUME TypeOK, NEW t \in Txns, NEW u \in Txns, u # t, NEW s \in Slots, LatchOf(u, s),
         pc'[u] = pc[u], slot'[u] = slot[u], todo'[u] = todo[u],
         inserted_tuples'[u] = inserted_tuples[u], deleted_tuples'[u] = deleted_tuples[u],
         UNCHANGED <<next_tuple_slot, inserted_tuples>>,
         \/ txn_id'[s] = txn_id[s]
         \/ txn_id[s] = INITIAL_TXN_ID /\ txn_id'[s] = t
         \/ txn_id[s] = t /\ txn_id'[s] \in {INITIAL_TXN_ID, INVALID_TXN_ID}
         \/ txn_id[s] # u /\ txn_id'[s] = INVALID_TXN_ID
  PROVE  LatchOf(u, s)'
<1>1. /\ HoldsInsert(u, s)' <=> HoldsInsert(u, s)
      /\ HoldsDelete(u, s)' <=> HoldsDelete(u, s)
      /\ HoldsLatch(u, s)' <=> HoldsLatch(u, s)
      /\ Rejected(s)' <=> Rejected(s)
  BY RejectedSame, ZenonT(60) DEF HoldsInsert, HoldsDelete, HoldsLatch
<1> QED
  BY <1>1, TileGroupAssumption DEF LatchOf

(* Every step keeps the latch words right: inserts ...                     *)
LEMMA LatchOfInsert ==
  ASSUME IInv, NEW t \in Txns, RecordInsert(t) \/ InsertRejected(t), NEW u \in Txns, NEW s \in Slots
  PROVE  LatchOf(u, s)'
<1> USE DEF IInv
<1>0. LatchOf(u, s)
  BY DEF Latches
<1>1. PICK n : n = next_tuple_slot
  OBVIOUS
<1>2. /\ UNCHANGED <<deleted_tuples, pc, slot, todo>> /\ pc[t] = "running"
      /\ n \in Slots /\ n \notin deleted_tuples[u] /\ n \notin inserted_tuples[u]
      /\ txn_id'[n] = t
      /\ u # t => inserted_tuples'[u] = inserted_tuples[u]
      /\ s # n => txn_id'[s] = txn_id[s]
      /\ s # n => (s \in inserted_tuples'[u] <=> s \in inserted_tuples[u])
      /\ s # n => (Rejected(s)' <=> Rejected(s))
      /\ n \in inserted_tuples'[t] <=> ~Rejected(n)'
  BY <1>1, InsertEffect
<1>3. CASE s # n
  <2>1. /\ HoldsInsert(u, s)' <=> HoldsInsert(u, s)
        /\ HoldsDelete(u, s)' <=> HoldsDelete(u, s)
        /\ HoldsLatch(u, s)' <=> HoldsLatch(u, s)
    BY <1>2, <1>3, ZenonT(60) DEF HoldsInsert, HoldsDelete, HoldsLatch
  <2> QED
    BY <1>0, <1>2, <1>3, <2>1 DEF LatchOf
<1>4. CASE s = n
  <2>1. CASE u = t
    BY <1>2, <1>4, <2>1 DEF LatchOf, HoldsInsert, HoldsDelete, HoldsLatch, Running
  <2>2. CASE u # t
    <3>1. pc[u] = "latched" => slot[u] < n
      BY <1>1 DEF Sets, SetsOf
    <3>2. pc[u] = "latched" => slot[u] # n
      BY <3>1, <1>2, SlotFacts
    <3> QED
      BY <1>2, <1>4, <2>2, <3>2 DEF LatchOf, HoldsInsert, HoldsDelete, HoldsLatch
  <2> QED
    BY <2>1, <2>2
<1> QED
  BY <1>3, <1>4

(* ... the steps of scans, which leave the latch words alone ...           *)
LEMMA LatchOfScan ==
  ASSUME IInv, NEW t \in Txns, NEW u \in Txns, NEW s \in Slots,
         \/ Begin(t) \/ ReadTransactionId(t) \/ ReadBeginCommitId(t) \/ ReadEndCommitId(t)
         \/ ScanOn(t) \/ DeleteFailed(t)
  PROVE  LatchOf(u, s)'
<1>1. TypeOK /\ Sets /\ LatchOf(u, s) /\ LatchOf(t, s)
  BY Zenon DEF IInv, Latches
<1>2. /\ UNCHANGED <<next_tuple_slot, inserted_tuples, deleted_tuples, todo, txn_id>>
      /\ \A v \in Txns : v # t => pc'[v] = pc[v] /\ slot'[v] = slot[v]
      /\ pc[t] \in (Running \cup {"idle"}) \ {"latched"}
      /\ pc'[t] \in Running \ {"latched"}
      /\ pc[t] = "idle" => inserted_tuples[t] = {} /\ deleted_tuples[t] = {}
  BY <1>1, ZenonT(60) DEF TypeOK, Begin, ReadTransactionId, ReadBeginCommitId, ReadEndCommitId, ScanOn,
       DeleteFailed, ForgetRead, Goto, Running, headerVars, setVars, Sets, SetsOf
<1>3. CASE u = t
  <2>1. /\ HoldsInsert(t, s)' <=> HoldsInsert(t, s)
        /\ HoldsDelete(t, s)' <=> HoldsDelete(t, s)
        /\ ~HoldsLatch(t, s)' /\ ~HoldsLatch(t, s)
        /\ Rejected(s)' <=> Rejected(s)
    BY <1>2, RejectedSame, Zenon DEF HoldsInsert, HoldsDelete, HoldsLatch, Running, InsertLoop, DeleteLoop
  <2> QED
    BY <1>1, <1>2, <1>3, <2>1, Zenon DEF LatchOf
<1>4. CASE u # t
  BY <1>1, <1>2, <1>4, OthersLatches
<1> QED
  BY <1>3, <1>4

(* ... and the steps of deletes, which change one latch word at most: that *)
(* of the tuple to delete.                                                 *)
LEMMA DeleteFrame ==
  ASSUME TypeOK, Sets, NEW t \in Txns,
         LatchTupleSlot(t) \/ DeleteOwnInsert(t) \/ RecordDelete(t) \/ NotDeletable(t)
  PROVE  /\ UNCHANGED <<next_tuple_slot, inserted_tuples, todo>>
         /\ \A v \in Txns : v # t => pc'[v] = pc[v] /\ slot'[v] = slot[v]
         /\ \A v \in Txns : v # t => deleted_tuples'[v] = deleted_tuples[v]
         /\ pc[t] \in Running /\ pc'[t] \in Running
         /\ slot[t] \in Slots
         /\ \A s : Rejected(s)' <=> Rejected(s)
<1>1. /\ UNCHANGED <<next_tuple_slot, inserted_tuples, todo>>
      /\ \A v \in Txns : v # t => pc'[v] = pc[v] /\ slot'[v] = slot[v]
      /\ \A v \in Txns : v # t => deleted_tuples'[v] = deleted_tuples[v]
      /\ pc[t] \in Running /\ pc'[t] \in Running
  BY DEF TypeOK, LatchTupleSlot, DeleteOwnInsert, RecordDelete, NotDeletable, ForgetRead,
       Goto, Running, headerVars, setVars
<1>2. slot[t] \in Slots
  BY SlotFacts, TileGroupAssumption
     DEF TypeOK, LatchTupleSlot, DeleteOwnInsert, RecordDelete, NotDeletable,
       Goto, Reading, Sets, SetsOf, NoSlot
<1> QED
  BY <1>1, <1>2, RejectedSame

(* The latch is taken.                                                     *)
LEMMA LatchOfLatching ==
  ASSUME IInv, NEW t \in Txns, NEW u \in Txns, NEW s \in Slots, NEW x, x = slot[t],
         LatchTupleSlot(t)
  PROVE  LatchOf(u, s)'
<1>1. TypeOK /\ Sets /\ LatchOf(u, s)
  BY DEF IInv, Latches
<1>2. /\ UNCHANGED <<next_tuple_slot, inserted_tuples, todo>>
      /\ \A v \in Txns : v # t => pc'[v] = pc[v] /\ slot'[v] = slot[v]
      /\ pc[t] \in Running /\ pc'[t] \in Running
      /\ Rejected(s)' <=> Rejected(s)
  BY <1>1, DeleteFrame
<1>3. /\ txn_id[x] = INITIAL_TXN_ID /\ txn_id' = [txn_id EXCEPT ![x] = t]
      /\ pc[t] = "decide" /\ pc'[t] = "latched" /\ slot' = slot
      /\ deleted_tuples' = deleted_tuples
  BY <1>1 DEF LatchTupleSlot, Goto, TypeOK, setVars
<1>4. txn_id'[s] = IF s = x THEN t ELSE txn_id[s]
  BY <1>1, <1>3, Zenon DEF TypeOK
<1>5. CASE u = t
  <2>1. ~Rejected(x) /\ x \notin inserted_tuples[t] /\ x \notin deleted_tuples[t]
    BY FreshLatch
  <2>2. s = x => HoldsLatch(t, s)'
    BY <1>2, <1>3, <2>1 DEF HoldsLatch
  <2>3. s # x => ~HoldsLatch(t, s) /\ ~HoldsLatch(t, s)'
    BY <1>3 DEF HoldsLatch
  <2>4. /\ HoldsInsert(t, s)' <=> HoldsInsert(t, s)
        /\ HoldsDelete(t, s)' <=> HoldsDelete(t, s)
    BY <1>2, <1>3 DEF HoldsInsert, HoldsDelete
  <2> QED
    BY <1>1, <1>2, <1>3, <1>4, <1>5, <2>1, <2>2, <2>3, <2>4, Zenon DEF LatchOf
<1>6. CASE u # t
  <2>1. txn_id'[s] = txn_id[s] \/ (txn_id[s] = INITIAL_TXN_ID /\ txn_id'[s] = t)
    BY <1>3, <1>4, Zenon
  <2> QED
    BY <1>1, <1>2, <1>3, <1>6, <2>1, OthersLatches
<1> QED
  BY <1>5, <1>6

(* A tuple of the transaction's own is dropped.                            *)
LEMMA LatchOfOwnDelete ==
  ASSUME IInv, NEW t \in Txns, NEW u \in Txns, NEW s \in Slots, NEW x, x = slot[t],
         DeleteOwnInsert(t)
  PROVE  LatchOf(u, s)'
<1>1. TypeOK /\ Sets /\ LatchOf(u, s)
  BY DEF IInv, Latches
<1>2. /\ UNCHANGED <<next_tuple_slot, inserted_tuples, todo>>
      /\ \A v \in Txns : v # t => pc'[v] = pc[v] /\ slot'[v] = slot[v]
      /\ \A v \in Txns : v # t => deleted_tuples'[v] = deleted_tuples[v]
      /\ pc[t] \in Running /\ pc'[t] \in Running
      /\ Rejected(s)' <=> Rejected(s)
  BY <1>1, DeleteFrame
<1>3. /\ txn_id[x] = t /\ txn_id' = [txn_id EXCEPT ![x] = INVALID_TXN_ID]
      /\ pc[t] = "decide" /\ pc'[t] = "running"
      /\ deleted_tuples'[t] = deleted_tuples[t] \cup {x}
  BY <1>1 DEF DeleteOwnInsert, Goto, TypeOK
<1>4. txn_id'[s] = IF s = x THEN INVALID_TXN_ID ELSE txn_id[s]
  BY <1>1, <1>3, Zenon DEF TypeOK
<1>5. CASE u = t
  <2>1. x \in inserted_tuples[t] \/ Rejected(x)
    BY OwnDelete, Zenon
  <2>2. s = x => ~HoldsInsert(t, s)' /\ ~HoldsDelete(t, s)'
    BY <1>2, <1>3, <2>1 DEF HoldsInsert, HoldsDelete
  <2>3. ~HoldsLatch(t, s) /\ ~HoldsLatch(t, s)'
    BY <1>3 DEF HoldsLatch
  <2>4. s # x => /\ HoldsInsert(t, s)' <=> HoldsInsert(t, s)
                 /\ HoldsDelete(t, s)' <=> HoldsDelete(t, s)
    BY <1>2, <1>3 DEF HoldsInsert, HoldsDelete
  <2> QED
    BY <1>1, <1>2, <1>3, <1>4, <1>5, <2>2, <2>3, <2>4, TileGroupAssumption DEF LatchOf
<1>6. CASE u # t
  <2>1. txn_id'[s] = txn_id[s] \/ (txn_id[s] = t /\ txn_id'[s] = INVALID_TXN_ID)
    BY <1>3, <1>4, Zenon
  <2> QED
    BY <1>1, <1>2, <1>6, <2>1, OthersLatches
<1> QED
  BY <1>5, <1>6

(* The delete is recorded, and the latch kept.                             *)
LEMMA LatchOfRecordDelete ==
  ASSUME IInv, NEW t \in Txns, NEW u \in Txns, NEW s \in Slots, NEW x, x = slot[t],
         RecordDelete(t)
  PROVE  LatchOf(u, s)'
<1>1. TypeOK /\ Sets /\ LatchOf(u, s)
  BY DEF IInv, Latches
<1>2. /\ UNCHANGED <<next_tuple_slot, inserted_tuples, todo>>
      /\ \A v \in Txns : v # t => pc'[v] = pc[v] /\ slot'[v] = slot[v]
      /\ \A v \in Txns : v # t => deleted_tuples'[v] = deleted_tuples[v]
      /\ pc[t] \in Running /\ pc'[t] \in Running
      /\ Rejected(s)' <=> Rejected(s)
  BY <1>1, DeleteFrame
<1>3. /\ txn_id' = txn_id
      /\ pc[t] = "latched" /\ pc'[t] = "running"
      /\ deleted_tuples'[t] = deleted_tuples[t] \cup {x}
  BY <1>1, Zenon DEF RecordDelete, Goto, TypeOK, headerVars
<1>4. CASE u = t
  <2>1. HoldsLatch(t, x)
    BY <1>3 DEF IInv, Latches
  <2>2. s = x => ~HoldsInsert(t, s) /\ ~HoldsInsert(t, s)' /\ HoldsDelete(t, s)' /\ HoldsLatch(t, s)
    BY <1>2, <1>3, <2>1, Zenon DEF HoldsInsert, HoldsDelete, HoldsLatch
  <2>3. (s # x => ~HoldsLatch(t, s)) /\ ~HoldsLatch(t, s)'
    BY <1>3 DEF HoldsLatch
  <2>4. s # x => /\ HoldsInsert(t, s)' <=> HoldsInsert(t, s)
                 /\ HoldsDelete(t, s)' <=> HoldsDelete(t, s)
    BY <1>2, <1>3 DEF HoldsInsert, HoldsDelete
  <2>5. s = x => s \notin inserted_tuples[t] /\ ~Rejected(s)
    BY <2>1, Zenon DEF HoldsLatch
  <2> QED
    BY <1>1, <1>2, <1>3, <1>4, <2>2, <2>3, <2>4, <2>5 DEF LatchOf
<1>5. CASE u # t
  BY <1>1, <1>2, <1>3, <1>5, OthersLatches
<1> QED
  BY <1>4, <1>5

(* The delete is refused, and the latch given back.                        *)
LEMMA LatchOfRefusal ==
  ASSUME IInv, NEW t \in Txns, NEW u \in Txns, NEW s \in Slots, NEW x, x = slot[t],
         NotDeletable(t)
  PROVE  LatchOf(u, s)'
<1>1. TypeOK /\ Sets /\ LatchOf(u, s)
  BY DEF IInv, Latches
<1>2. /\ UNCHANGED <<next_tuple_slot, inserted_tuples, todo>>
      /\ \A v \in Txns : v # t => pc'[v] = pc[v] /\ slot'[v] = slot[v]
      /\ pc[t] \in Running /\ pc'[t] \in Running /\ x \in Slots
      /\ Rejected(s)' <=> Rejected(s)
  BY <1>1, DeleteFrame
<1>3. /\ txn_id' = [txn_id EXCEPT ![x] = INITIAL_TXN_ID]
      /\ pc[t] = "latched" /\ pc'[t] = "running"
      /\ deleted_tuples' = deleted_tuples
  BY <1>1, Zenon DEF NotDeletable, Goto, TypeOK, setVars
<1>4. HoldsLatch(t, x) /\ LatchOf(t, x)
  BY <1>2, <1>3 DEF IInv, Latches
<1>5. txn_id[x] = t
  BY <1>4 DEF LatchOf
<1>6. txn_id'[s] = IF s = x THEN INITIAL_TXN_ID ELSE txn_id[s]
  BY <1>1, <1>3, Zenon DEF TypeOK
<1>7. CASE u = t
  <2>1. (s # x => ~HoldsLatch(t, s)) /\ ~HoldsLatch(t, s)'
    BY <1>3 DEF HoldsLatch
  <2>2. /\ HoldsInsert(t, s)' <=> HoldsInsert(t, s)
        /\ HoldsDelete(t, s)' <=> HoldsDelete(t, s)
    BY <1>2, <1>3 DEF HoldsInsert, HoldsDelete
  <2>3. s = x => s \notin inserted_tuples[t] /\ s \notin deleted_tuples[t] /\ ~Rejected(s)
    BY <1>4 DEF HoldsLatch
  <2>4. s = x => ~HoldsInsert(t, s) /\ ~HoldsDelete(t, s)
    BY <2>3, Zenon DEF HoldsInsert, HoldsDelete
  <2> QED
    BY <1>1, <1>2, <1>3, <1>6, <1>7, <2>1, <2>2, <2>3, <2>4, TileGroupAssumption, Zenon DEF LatchOf
<1>8. CASE u # t
  <2>1. txn_id'[s] = txn_id[s] \/ (txn_id[s] = t /\ txn_id'[s] = INITIAL_TXN_ID)
    BY <1>5, <1>6
  <2> QED
    BY <1>1, <1>2, <1>3, <1>8, <2>1, OthersLatches
<1> QED
  BY <1>7, <1>8

(* So every step of a scan or a delete keeps the latch words right.        *)
LEMMA LatchOfRunning ==
  ASSUME IInv, NEW t \in Txns, NEW u \in Txns, NEW s \in Slots,
         \/ Begin(t) \/ ReadTransactionId(t) \/ ReadBeginCommitId(t) \/ ReadEndCommitId(t)
         \/ ScanOn(t) \/ LatchTupleSlot(t) \/ DeleteOwnInsert(t) \/ DeleteFailed(t)
         \/ RecordDelete(t) \/ NotDeletable(t)
  PROVE  LatchOf(u, s)'
  BY LatchOfScan, LatchOfLatching, LatchOfOwnDelete, LatchOfRecordDelete, LatchOfRefusal, Zenon

-----------------------------------------------------------------------------
(* Nobody else has the latch of a tuple whose inserter aborts.             *)
LEMMA AbortedInsert ==
  ASSUME IInv, NEW t \in Txns, pc[t] = "abort_inserts", NEW x \in todo[t], NEW u \in Txns, u # t
  PROVE  txn_id[x] # u
<1> USE DEF IInv
<1>1. x \in inserted_tuples[t] /\ x \in Slots /\ ~Rejected(x)
  BY DEF Sets, SetsOf, InsertLoop, TypeOK, Rejected
<1>2. ~SawInsert(u, x)
  <2>1. commitId[t] = 0
    BY DEF Order
  <2>2. \A w \in Txns : x \in inserted_tuples[w] => w = t
    BY <1>1 DEF Sets, OneInserter
  <2> QED
    BY <2>1, <2>2 DEF SawInsert, InSnapshot, Committing
<1>3. ~HoldsDelete(u, x) /\ ~HoldsLatch(u, x)
  BY <1>2 DEF Deletes, HoldsDelete, HoldsLatch
<1>4. ~HoldsInsert(u, x)
  BY <1>1 DEF HoldsInsert, Sets, OneInserter
<1> QED
  BY <1>1, <1>3, <1>4 DEF Latches, LatchOf

(* ... and the loops of commit and abort.                                  *)
LEMMA LatchOfEnding ==
  ASSUME IInv, NEW t \in Txns, NEW u \in Txns, NEW s \in Slots,
         \/ BeginCommitPhase(t) \/ CommitInsertedTuple(t) \/ SetBeginCommitId(t)
         \/ InsertsCommitted(t) \/ CommitDeletedTuple(t) \/ SetEndCommitId(t) \/ Install(t)
         \/ AbortTransaction(t) \/ AbortInsertedTuple(t) \/ InsertsAborted(t)
         \/ AbortDeletedTuple(t) \/ Aborted(t)
  PROVE  LatchOf(u, s)'
<1> USE TileGroupAssumption
<1>0. LatchOf(u, s) /\ LatchOf(t, s)
  BY DEF IInv, Latches
<1>t. TypeOK
  BY Zenon DEF IInv
<1>1. /\ UNCHANGED <<next_tuple_slot, inserted_tuples, deleted_tuples>>
      /\ \A v \in Txns : v # t => pc'[v] = pc[v] /\ slot'[v] = slot[v] /\ todo'[v] = todo[v]
      /\ pc[t] # "latched" /\ pc'[t] # "latched"
  BY <1>t, SMTT(60) DEF TypeOK, Goto, BeginCommitPhase, CommitInsertedTuple, CommitDeletedTuple, CommitTuple,
       SetBeginCommitId, InsertsCommitted, SetEndCommitId, Install, AbortTransaction,
       AbortInsertedTuple, InsertsAborted, AbortDeletedTuple, Aborted, headerVars, setVars
<1>2. /\ Rejected(s)' <=> Rejected(s)
      /\ ~HoldsLatch(t, s) /\ ~HoldsLatch(t, s)'
  BY <1>1, RejectedSame, ZenonT(60) DEF HoldsLatch
<1>3. ASSUME \/ BeginCommitPhase(t) \/ SetBeginCommitId(t) \/ InsertsCommitted(t)
             \/ SetEndCommitId(t) \/ Install(t)
             \/ AbortTransaction(t) \/ InsertsAborted(t) \/ Aborted(t)
      PROVE LatchOf(u, s)'
  <2>1. txn_id' = txn_id
    BY <1>3, ZenonT(60) DEF BeginCommitPhase, SetBeginCommitId, InsertsCommitted, SetEndCommitId, Install,
         AbortTransaction, InsertsAborted, Aborted, headerVars
  <2>2. CASE u = t
    <3>1. /\ HoldsInsert(t, s)' <=> HoldsInsert(t, s)
          /\ HoldsDelete(t, s)' <=> HoldsDelete(t, s)
      BY <1>t, <1>1, <1>2, <1>3, SMTT(60) DEF TypeOK, HoldsInsert, HoldsDelete, Running, InsertLoop, DeleteLoop, Goto,
           BeginCommitPhase, SetBeginCommitId, InsertsCommitted, SetEndCommitId, Install,
           AbortTransaction, InsertsAborted, Aborted
    <3> QED
      BY <1>0, <1>1, <1>2, <2>1, <2>2, <3>1, ZenonT(60) DEF LatchOf
  <2>3. CASE u # t
    BY <1>0, <1>t, <1>1, <2>1, <2>3, OthersLatches, ZenonT(60)
  <2> QED
    BY <2>2, <2>3, SMTT(60)
<1>4. ASSUME CommitInsertedTuple(t) \/ AbortInsertedTuple(t)
      PROVE LatchOf(u, s)'
  <2>1. PICK x \in todo[t] :
          /\ todo' = [todo EXCEPT ![t] = @ \ {x}]
          /\ \/ /\ pc[t] = "commit_inserts"
                /\ txn_id' = [txn_id EXCEPT ![x] = IF @ = t THEN INITIAL_TXN_ID ELSE @]
             \/ /\ pc[t] = "abort_inserts"
                /\ txn_id' = [txn_id EXCEPT ![x] = INVALID_TXN_ID]
    BY <1>4, Zenon DEF CommitInsertedTuple, CommitTuple, AbortInsertedTuple, ReleaseTupleSlot
  <2>2. pc[t] \in InsertLoop /\ pc'[t] \in InsertLoop
    BY <1>4, <1>t, SMTT(60) DEF CommitInsertedTuple, CommitTuple, AbortInsertedTuple, Goto, InsertLoop, TypeOK
  <2>3. x \in inserted_tuples[t] /\ x \in Slots
    BY <1>t, <2>1, <2>2, ZenonT(60) DEF IInv, Sets, SetsOf, TypeOK
  <2>4. s # x => txn_id'[s] = txn_id[s]
    BY <1>t, <2>1 DEF TypeOK
  <2>5. s = x => \/ pc[t] = "commit_inserts" /\ txn_id'[s] = IF txn_id[s] = t THEN INITIAL_TXN_ID ELSE txn_id[s]
                 \/ pc[t] = "abort_inserts" /\ txn_id'[s] = INVALID_TXN_ID
    BY <1>t, <2>1, Zenon DEF TypeOK
  <2>6. CASE u = t
    <3>1. HoldsDelete(t, s)' <=> HoldsDelete(t, s)
      BY <1>1, <1>2, <2>2, Zenon DEF HoldsDelete
    <3>2. /\ s = x => ~HoldsInsert(t, s)' /\ ~HoldsDelete(t, s)
          /\ s # x => (HoldsInsert(t, s)' <=> HoldsInsert(t, s))
      BY <1>1, <1>t, <2>1, <2>2, <2>3, ZenonT(60) DEF HoldsInsert, HoldsDelete, TypeOK, Running, InsertLoop
    <3> QED
      BY <1>0, <1>1, <1>2, <2>4, <2>5, <2>6, <3>1, <3>2, Zenon DEF LatchOf
  <2>7. CASE u # t
    <3>1. pc[t] = "abort_inserts" => txn_id[x] # u
      BY <2>1, <2>7, AbortedInsert, Zenon
    <3>2. \/ txn_id'[s] = txn_id[s]
          \/ txn_id[s] = t /\ txn_id'[s] \in {INITIAL_TXN_ID, INVALID_TXN_ID}
          \/ txn_id[s] # u /\ txn_id'[s] = INVALID_TXN_ID
      BY <2>4, <2>5, <3>1, Zenon
    <3> QED
      BY <1>0, <1>t, <1>1, <2>7, <3>2, OthersLatches, ZenonT(60)
  <2> QED
    BY <2>6, <2>7, ZenonT(60)
<1>5. ASSUME CommitDeletedTuple(t) \/ AbortDeletedTuple(t)
      PROVE LatchOf(u, s)'
  <2>1. PICK x \in todo[t] :
          /\ todo' = [todo EXCEPT ![t] = @ \ {x}]
          /\ txn_id' = [txn_id EXCEPT ![x] = IF @ = t THEN INITIAL_TXN_ID ELSE @]
    BY <1>5, ZenonT(60) DEF CommitDeletedTuple, CommitTuple, AbortDeletedTuple, ReleaseTupleSlot
  <2>2. pc[t] \in DeleteLoop /\ pc'[t] \in DeleteLoop
    BY <1>5, <1>t, SMTT(60) DEF CommitDeletedTuple, CommitTuple, AbortDeletedTuple, Goto, DeleteLoop, TypeOK
  <2>3. x \in deleted_tuples[t] /\ x \in Slots
    BY <1>t, <2>1, <2>2, ZenonT(60) DEF IInv, Sets, SetsOf, TypeOK
  <2>4. txn_id'[s] = IF s = x /\ txn_id[s] = t THEN INITIAL_TXN_ID ELSE txn_id[s]
    BY <1>t, <2>1, SMTT(60) DEF TypeOK
  <2>5. CASE u = t
    <3>1. ~HoldsInsert(t, s)' /\ ~HoldsInsert(t, s)
      BY <2>2, ZenonT(60) DEF HoldsInsert, Running, InsertLoop, DeleteLoop
    <3>2. /\ s = x => ~HoldsDelete(t, s)'
          /\ s # x => (HoldsDelete(t, s)' <=> HoldsDelete(t, s))
      BY <1>1, <1>2, <1>t, <2>1, <2>2, <2>3, ZenonT(60) DEF HoldsDelete, TypeOK, Running, InsertLoop, DeleteLoop
    <3> QED
      BY <1>0, <1>1, <1>2, <2>4, <2>5, <3>1, <3>2, ZenonT(60) DEF LatchOf
  <2>6. CASE u # t
    <3>1. txn_id'[s] = txn_id[s] \/ (txn_id[s] = t /\ txn_id'[s] = INITIAL_TXN_ID)
      BY <2>4, ZenonT(60)
    <3> QED
      BY <1>0, <1>t, <1>1, <2>6, <3>1, OthersLatches, ZenonT(60)
  <2> QED
    BY <2>5, <2>6, Zenon
<1> QED
  BY <1>3, <1>4, <1>5, Zenon

(* Only these steps turn a latch word into INVALID_TXN_ID.                 *)
LEMMA Invalidated ==
  ASSUME TypeOK, Sets, [Next]_vars, NEW s \in Slots, txn_id'[s] = INVALID_TXN_ID, txn_id[s] # INVALID_TXN_ID
  PROVE  \/ \E t \in Txns : DeleteOwnInsert(t) /\ s = slot[t]
         \/ \E t \in Txns : pc[t] = "abort_inserts" /\ s \in todo[t] /\ UNCHANGED <<phase, setVars, next_tuple_slot>>
<1> USE TileGroupAssumption, SlotFacts
<1>1. ASSUME NEW t \in Txns, RecordInsert(t) \/ InsertRejected(t)
      PROVE FALSE
  BY <1>1, Zenon DEF RecordInsert, InsertRejected, InsertTuple, TypeOK
<1>2. ASSUME NEW t \in Txns, DeleteOwnInsert(t)
      PROVE s = slot[t]
  BY <1>2, Zenon DEF DeleteOwnInsert, TypeOK
<1>3. ASSUME NEW t \in Txns, AbortInsertedTuple(t)
      PROVE pc[t] = "abort_inserts" /\ s \in todo[t] /\ UNCHANGED <<phase, setVars, next_tuple_slot>>
  BY <1>3, Zenon DEF AbortInsertedTuple, TypeOK, coVars
<1>4. ASSUME NEW t \in Txns, CommitInsertedTuple(t) \/ CommitDeletedTuple(t) \/ AbortDeletedTuple(t)
      PROVE FALSE
  BY <1>4 DEF CommitInsertedTuple, CommitDeletedTuple, CommitTuple, AbortDeletedTuple, ReleaseTupleSlot, TypeOK
<1>5. ASSUME NEW t \in Txns, LatchTupleSlot(t) \/ NotDeletable(t)
      PROVE FALSE
  BY <1>5 DEF LatchTupleSlot, NotDeletable, TypeOK
<1>6. ASSUME UNCHANGED txn_id
      PROVE FALSE
  BY <1>6, SMTT(60)
<1> QED
  BY <1>1, <1>2, <1>3, <1>4, <1>5, <1>6, Cases, ZenonT(60)
     DEF Begin, ReadTransactionId, ReadBeginCommitId, ReadEndCommitId, ScanOn, DeleteFailed,
       RecordDelete, BeginCommitPhase, SetBeginCommitId, InsertsCommitted, SetEndCommitId,
       Install, Publish, AbortTransaction, InsertsAborted, Aborted, headerVars, vars

(* An aborted transaction stays aborted.                                   *)
LEMMA PhaseStep ==
  ASSUME TypeOK, [Next]_vars, NEW w \in Txns, phase[w] = "aborted"
  PROVE  phase'[w] = "aborted"
<1> USE DEF TypeOK
<1>1. ASSUME NEW t \in Txns,
             Begin(t) \/ BeginCommitPhase(t) \/ Install(t) \/ Publish(t) \/ AbortTransaction(t)
      PROVE phase'[w] = "aborted"
  BY <1>1 DEF Begin, BeginCommitPhase, Install, Publish, AbortTransaction,
       CO!Begin, CO!GetCommitId, CO!Install, CO!Publish, CO!Abort
<1>2. CASE UNCHANGED coVars
  BY <1>2 DEF coVars
<1> QED
  BY <1>1, <1>2, Cases, ZenonT(60)
     DEF RecordInsert, InsertRejected, InsertTuple, ReadTransactionId, ReadBeginCommitId,
       ReadEndCommitId, ScanOn, LatchTupleSlot, DeleteOwnInsert, DeleteFailed, RecordDelete,
       NotDeletable, CommitInsertedTuple, CommitDeletedTuple, CommitTuple, SetBeginCommitId,
       InsertsCommitted, SetEndCommitId, AbortInsertedTuple, InsertsAborted,
       AbortDeletedTuple, Aborted, vars

(* Lists grow, and rejected inserts stay rejected.                         *)
LEMMA Growing ==
  ASSUME TypeOK, Sets, [Next]_vars
  PROVE  /\ \A w \in Txns : inserted_tuples[w] \subseteq inserted_tuples'[w]
         /\ \A w \in Txns : deleted_tuples[w] \subseteq deleted_tuples'[w]
         /\ \A s \in Slots : s < next_tuple_slot => (Rejected(s)' <=> Rejected(s))
         /\ next_tuple_slot <= next_tuple_slot'
<1> USE SlotFacts, TileGroupAssumption
<1>1. \A w \in Txns : deleted_tuples[w] \subseteq deleted_tuples'[w]
  <2>1. ASSUME NEW t \in Txns, DeleteOwnInsert(t) \/ RecordDelete(t)
        PROVE \A w \in Txns : deleted_tuples[w] \subseteq deleted_tuples'[w]
    BY <2>1, SMTT(60) DEF DeleteOwnInsert, RecordDelete, TypeOK
  <2> QED
    BY <2>1, NoDelete, Zenon
<1>2. ASSUME NEW t \in Txns, RecordInsert(t) \/ InsertRejected(t)
      PROVE /\ \A w \in Txns : inserted_tuples[w] \subseteq inserted_tuples'[w]
            /\ \A s \in Slots : s < next_tuple_slot => (Rejected(s)' <=> Rejected(s))
            /\ next_tuple_slot <= next_tuple_slot'
  <2>1. PICK n : n = next_tuple_slot
    OBVIOUS
  <2>2. \A w \in Txns : inserted_tuples[w] \subseteq inserted_tuples'[w]
    BY <1>2 DEF RecordInsert, InsertRejected, TypeOK
  <2>3. /\ next_tuple_slot' = n + 1
        /\ \A s \in Slots : s # n => (Rejected(s)' <=> Rejected(s))
    BY <1>2, <2>1, InsertEffect, Zenon
  <2> QED
    BY <2>1, <2>2, <2>3 DEF TypeOK
<1>3. CASE UNCHANGED <<next_tuple_slot, inserted_tuples>>
  BY <1>1, <1>3, RejectedSame DEF TypeOK
<1> QED
  BY <1>1, <1>2, <1>3, NoInsert, Zenon

(* Every step keeps the latch words right.                                 *)
LEMMA LatchesStep ==
  ASSUME IInv, [Next]_vars
  PROVE  Latches'
<1> USE TileGroupAssumption, SlotFacts
<1>t. TypeOK /\ Sets /\ Order /\ Latches
  BY Zenon DEF IInv
<1>1. ASSUME NEW u \in Txns, NEW s \in Slots
      PROVE LatchOf(u, s)'
  <2>1. ASSUME UNCHANGED <<headerVars, setVars, pc, slot, todo>>
        PROVE LatchOf(u, s)'
    <3>1. LatchOf(u, s)
      BY <1>t, Zenon DEF Latches
    <3> QED
      BY <2>1, <3>1, Zenon DEF LatchOf, HoldsInsert, HoldsDelete, HoldsLatch, Rejected, headerVars, setVars
  <2>2. \/ \E t \in Txns : RecordInsert(t) \/ InsertRejected(t)
        \/ \E t \in Txns :
             \/ Begin(t) \/ ReadTransactionId(t) \/ ReadBeginCommitId(t) \/ ReadEndCommitId(t)
             \/ ScanOn(t) \/ LatchTupleSlot(t) \/ DeleteOwnInsert(t) \/ DeleteFailed(t)
             \/ RecordDelete(t) \/ NotDeletable(t)
        \/ \E t \in Txns :
             \/ BeginCommitPhase(t) \/ CommitInsertedTuple(t) \/ SetBeginCommitId(t)
             \/ InsertsCommitted(t) \/ CommitDeletedTuple(t) \/ SetEndCommitId(t) \/ Install(t)
             \/ AbortTransaction(t) \/ AbortInsertedTuple(t) \/ InsertsAborted(t)
             \/ AbortDeletedTuple(t) \/ Aborted(t)
        \/ UNCHANGED <<headerVars, setVars, pc, slot, todo>>
    BY Cases DEF Publish, vars
  <2> QED
    BY <2>1, <2>2, LatchOfInsert, LatchOfRunning, LatchOfEnding, Zenon
<1>2. ASSUME NEW t \in Txns, pc'[t] = "latched"
      PROVE HoldsLatch(t, slot[t])'
  <2>1. slot'[t] = slot[t] /\ (LatchTupleSlot(t) \/ pc[t] = "latched")
    BY <1>2, <1>t, LatchedSince
  <2>2. PICK x : x = slot[t]
    OBVIOUS
  <2>3. x \in Slots /\ ~Rejected(x) /\ x \notin inserted_tuples[t] /\ x \notin deleted_tuples[t]
    <3>1. ASSUME pc[t] = "latched"
          PROVE x \in Slots /\ HoldsLatch(t, x)
      BY <1>t, <2>2, <3>1, SMTT(60) DEF TypeOK, Latches, Sets, SetsOf, NoSlot
    <3> QED
      BY <2>1, <2>2, <3>1, FreshLatch, Zenon DEF HoldsLatch
  <2>4. x < next_tuple_slot /\ pc[t] # "running"
    BY <1>t, <2>1, <2>2, ZenonT(60) DEF LatchTupleSlot, Goto, Sets, SetsOf, Reading
  <2>5. ~Rejected(x)'
    BY <1>t, <2>3, <2>4, Growing
  <2>6. inserted_tuples'[t] = inserted_tuples[t]
    <3>1. ASSUME NEW u \in Txns, RecordInsert(u) \/ InsertRejected(u)
          PROVE inserted_tuples'[t] = inserted_tuples[t]
      <4>1. PICK n : n = next_tuple_slot
        OBVIOUS
      <4> QED
        BY <1>t, <2>4, <3>1, <4>1, InsertEffect
    <3> QED
      BY <3>1, NoInsert, Zenon
  <2>7. deleted_tuples'[t] = deleted_tuples[t]
    <3>1. ASSUME NEW u \in Txns, DeleteOwnInsert(u) \/ RecordDelete(u)
          PROVE deleted_tuples'[t] = deleted_tuples[t]
      BY <1>t, <1>2, <3>1, Zenon DEF DeleteOwnInsert, RecordDelete, Goto, TypeOK
    <3> QED
      BY <3>1, NoDelete, Zenon
  <2> QED
    BY <1>2, <2>1, <2>2, <2>3, <2>5, <2>6, <2>7, Zenon DEF HoldsLatch
<1>3. ASSUME NEW s \in Slots, txn_id'[s] = INVALID_TXN_ID, s < next_tuple_slot', ~Rejected(s)'
      PROVE Dropped(s)'
  <2>1. s < next_tuple_slot
    <3>1. ASSUME NEW t \in Txns, RecordInsert(t) \/ InsertRejected(t)
          PROVE s < next_tuple_slot
      <4>1. PICK n : n = next_tuple_slot
        BY Zenon
      <4>2. n \in Slots /\ next_tuple_slot' = n + 1 /\ txn_id'[n] = t
        BY <1>t, <3>1, <4>1, InsertEffect
      <4> QED
        BY <1>3, <4>1, <4>2
    <3> QED
      BY <1>3, <3>1, NoInsert
  <2>2. ~Rejected(s)
    BY <1>3, <1>t, <2>1, Growing
  <2>3. CASE txn_id[s] = INVALID_TXN_ID
    <3>1. PICK w \in Txns : s \in inserted_tuples[w] /\ (s \in deleted_tuples[w] \/ phase[w] = "aborted")
      BY <1>t, <2>1, <2>2, <2>3 DEF Latches, Dropped
    <3>2. phase[w] = "aborted" => phase'[w] = "aborted"
      BY <1>t, PhaseStep
    <3> QED
      BY <1>t, <3>1, <3>2, Growing, Zenon DEF Dropped
  <2>4. ASSUME NEW t \in Txns, DeleteOwnInsert(t), s = slot[t]
        PROVE Dropped(s)'
    <3>1. s \in inserted_tuples[t]
      BY <2>2, <2>4, OwnDelete, Zenon
    <3>2. s \in inserted_tuples'[t] /\ s \in deleted_tuples'[t]
      BY <1>t, <2>4, <3>1, SMTT(60) DEF DeleteOwnInsert, TypeOK
    <3> QED
      BY <3>2, Zenon DEF Dropped
  <2>5. ASSUME NEW t \in Txns, pc[t] = "abort_inserts", s \in todo[t], UNCHANGED <<phase, setVars, next_tuple_slot>>
        PROVE Dropped(s)'
    BY <1>t, <2>5, ZenonT(60) DEF Sets, SetsOf, InsertLoop, Order, Dropped, setVars
  <2> QED
    BY <1>3, <1>t, <2>3, <2>4, <2>5, Invalidated
<1> QED
  BY <1>1, <1>2, <1>3, ZenonT(60) DEF Latches

-----------------------------------------------------------------------------
(* Readers.                                                                *)

(* A latch word in use changes only in a step of somebody who is not in    *)
(* the middle of a read, from free or that transaction's to free, invalid  *)
(* or that transaction's.                                                  *)
LEMMA WordStep ==
  ASSUME IInv, [Next]_vars, NEW s \in Slots, s < next_tuple_slot
  PROVE  \/ txn_id'[s] = txn_id[s]
         \/ \E u \in Txns : /\ pc'[u] \notin Reading
                            /\ txn_id[s] \in {u, INITIAL_TXN_ID}
                            /\ txn_id'[s] \in {u, INITIAL_TXN_ID, INVALID_TXN_ID}
<1> USE TileGroupAssumption, SlotFacts
<1>t. TypeOK /\ Sets /\ Latches
  BY Zenon DEF IInv
<1> DEFINE Taken(u) == /\ pc'[u] \notin Reading
                       /\ txn_id[s] \in {u, INITIAL_TXN_ID}
                       /\ txn_id'[s] \in {u, INITIAL_TXN_ID, INVALID_TXN_ID}
<1>1. ASSUME NEW t \in Txns, RecordInsert(t) \/ InsertRejected(t)
      PROVE txn_id'[s] = txn_id[s]
  <2>1. PICK n : n = next_tuple_slot
    OBVIOUS
  <2>2. s # n
    BY <2>1
  <2> QED
    BY <1>t, <1>1, <2>1, <2>2, InsertEffect
<1>2. ASSUME NEW t \in Txns, LatchTupleSlot(t) \/ DeleteOwnInsert(t)
      PROVE txn_id'[s] = txn_id[s] \/ Taken(t)
  BY <1>t, <1>2 DEF LatchTupleSlot, DeleteOwnInsert, Goto, TypeOK, Reading
<1>3. ASSUME NEW t \in Txns, NotDeletable(t)
      PROVE txn_id'[s] = txn_id[s] \/ Taken(t)
  <2>1. s = slot[t] => txn_id[s] = t
    BY <1>t, <1>3 DEF NotDeletable, Goto, Latches, LatchOf
  <2> QED
    BY <1>t, <1>3, <2>1, ZenonT(60) DEF NotDeletable, Goto, TypeOK, Reading
<1>4. ASSUME NEW t \in Txns, CommitInsertedTuple(t) \/ CommitDeletedTuple(t) \/ AbortDeletedTuple(t)
      PROVE txn_id'[s] = txn_id[s] \/ Taken(t)
  <2>1. pc'[t] \notin Reading
    BY <1>t, <1>4, Zenon DEF CommitInsertedTuple, CommitDeletedTuple, CommitTuple, AbortDeletedTuple, Goto, TypeOK, Reading
  <2>2. txn_id'[s] = txn_id[s] \/ (txn_id[s] = t /\ txn_id'[s] = INITIAL_TXN_ID)
    BY <1>t, <1>4, Zenon DEF CommitInsertedTuple, CommitDeletedTuple, CommitTuple, AbortDeletedTuple,
         ReleaseTupleSlot, TypeOK
  <2> QED
    BY <2>1, <2>2, Zenon
<1>5. ASSUME NEW t \in Txns, AbortInsertedTuple(t)
      PROVE txn_id'[s] = txn_id[s] \/ Taken(t)
  <2>1. PICK x \in todo[t] : txn_id' = [txn_id EXCEPT ![x] = INVALID_TXN_ID]
    BY <1>5, ZenonT(60) DEF AbortInsertedTuple
  <2>2. pc[t] = "abort_inserts" /\ pc'[t] \notin Reading
    BY <1>5 DEF AbortInsertedTuple, Reading
  <2>3. \A u \in Txns : u # t => txn_id[x] # u
    BY <2>1, <2>2, AbortedInsert, Zenon
  <2>4. s # x => txn_id'[s] = txn_id[s]
    BY <1>t, <2>1, Zenon DEF TypeOK
  <2>5. s = x => txn_id'[s] = INVALID_TXN_ID /\ txn_id[s] \in {t, INITIAL_TXN_ID, INVALID_TXN_ID}
    BY <1>t, <2>1, <2>3, Zenon DEF TypeOK
  <2> QED
    BY <2>2, <2>4, <2>5
<1>6. CASE UNCHANGED txn_id
  BY <1>6, Zenon
<1> QED
  BY <1>1, <1>2, <1>3, <1>4, <1>5, <1>6, Cases, Zenon
     DEF Begin, ReadTransactionId, ReadBeginCommitId, ReadEndCommitId, ScanOn, DeleteFailed,
       RecordDelete, BeginCommitPhase, SetBeginCommitId, InsertsCommitted, SetEndCommitId,
       Install, Publish, AbortTransaction, InsertsAborted, Aborted, headerVars, vars

(* In a published transaction no commit id is left to be written.          *)
LEMMA SnapshotInPlace ==
  ASSUME TypeOK, Order, NEW t \in Txns, NEW w \in Txns, InSnapshot(w, t), NEW s
  PROVE  ~BeginPending(w, s) /\ ~EndPending(w, s) /\ commitId[w] <= snapshot[t] /\ commitId[w] # 0
<1>1. phase[w] = "installed" /\ commitId[w] <= snapshot[t] /\ commitId[w] # 0
  BY DEF TypeOK, Order, InSnapshot, Committing
<1> QED
  BY <1>1, Zenon DEF Order, BeginPending, EndPending

(* The begin commit id that a reader copies tells whether the insert is in *)
(* its snapshot, whenever it is read.                                      *)
LEMMA BeginRead ==
  ASSUME IInv, NEW t \in Txns, pc[t] = "read_begin"
  PROVE  begin_cid[slot[t]] <= snapshot[t] <=> SawInsert(t, slot[t])
<1> USE TileGroupAssumption, SlotFacts
<1>t. TypeOK /\ Sets /\ Order /\ Begins
  BY DEF IInv
<1>1. slot[t] \in Slots /\ slot[t] < next_tuple_slot /\ commitId[t] = 0 /\ snapshot[t] < MAX_CID
  <2>1. slot[t] \in Slots /\ slot[t] < next_tuple_slot
    BY <1>t DEF TypeOK, Sets, SetsOf, Reading, NoSlot
  <2>2. commitId[t] = 0 /\ snapshot[t] < MAX_CID
    BY <1>t DEF TypeOK, Order, Running
  <2> QED
    BY <2>1, <2>2, Zenon
<1>2. ASSUME SawInsert(t, slot[t])
      PROVE begin_cid[slot[t]] <= snapshot[t]
  <2>1. PICK w \in Txns : slot[t] \in inserted_tuples[w] /\ slot[t] \notin deleted_tuples[w] /\ InSnapshot(w, t)
    BY <1>2, Zenon DEF SawInsert
  <2>2. ~BeginPending(w, slot[t]) /\ commitId[w] <= snapshot[t] /\ commitId[w] # 0
    BY <1>t, <2>1, SnapshotInPlace, Zenon
  <2> QED
    BY <1>t, <2>1, <2>2, Zenon DEF Begins
<1>3. ASSUME begin_cid[slot[t]] <= snapshot[t]
      PROVE SawInsert(t, slot[t])
  <2>1. begin_cid[slot[t]] # MAX_CID
    BY <1>t, <1>1, <1>3 DEF TypeOK
  <2>2. PICK w \in Txns : slot[t] \in inserted_tuples[w]
    BY <1>t, <1>1, <2>1, Zenon DEF Sets, Unused, Rejected
  <2>3. commitId[w] # 0 /\ begin_cid[slot[t]] = commitId[w] /\ slot[t] \notin deleted_tuples[w]
    BY <1>t, <2>1, <2>2, Zenon DEF Begins
  <2> QED
    BY <1>1, <1>3, <2>2, <2>3, Zenon DEF SawInsert, InSnapshot, Committing
<1> QED
  BY <1>2, <1>3

(* Likewise the end commit id.                                             *)
LEMMA EndRead ==
  ASSUME IInv, OneDeleter, NEW t \in Txns, pc[t] = "read_end", ~Rejected(slot[t])
  PROVE  end_cid[slot[t]] <= snapshot[t] <=> SawDelete(t, slot[t])
<1> USE TileGroupAssumption, SlotFacts
<1>t. TypeOK /\ Sets /\ Order /\ Deletes /\ Ends
  BY Zenon DEF IInv
<1>1. slot[t] \in Slots /\ snapshot[t] < MAX_CID
  BY <1>t DEF TypeOK, Sets, SetsOf, Reading, NoSlot, Order
<1>2. ASSUME SawDelete(t, slot[t])
      PROVE end_cid[slot[t]] <= snapshot[t]
  <2>1. PICK d \in Txns : slot[t] \in deleted_tuples[d] /\ slot[t] \notin inserted_tuples[d] /\ InSnapshot(d, t)
    BY <1>2, Zenon DEF SawDelete
  <2>2. ~EndPending(d, slot[t]) /\ commitId[d] <= snapshot[t] /\ commitId[d] # 0
    BY <1>t, <2>1, SnapshotInPlace, Zenon
  <2> QED
    BY <1>t, <2>1, <2>2, Zenon DEF Ends
<1>3. ASSUME end_cid[slot[t]] <= snapshot[t]
      PROVE SawDelete(t, slot[t])
  <2>1. end_cid[slot[t]] # MAX_CID
    BY <1>t, <1>1, <1>3 DEF TypeOK
  <2>2. PICK d \in Txns : /\ slot[t] \in deleted_tuples[d] /\ slot[t] \notin inserted_tuples[d]
                          /\ commitId[d] # 0 /\ end_cid[slot[t]] = commitId[d]
    BY <1>t, <1>1, <2>1, SMTT(60) DEF Deletes
  <2> QED
    BY <1>3, <2>2, Zenon DEF SawDelete, InSnapshot, Committing
<1> QED
  BY <1>2, <1>3, Zenon

(* How a transaction comes to be where it is in IsVisible.                 *)
LEMMA ReadSince ==
  ASSUME TypeOK, [Next]_vars, NEW t \in Txns, pc'[t] \in Reading
  PROVE  \/ ReadTransactionId(t)
         \/ /\ pc[t] \in Reading /\ slot'[t] = slot[t] /\ read_txn_id'[t] = read_txn_id[t]
            /\ ReadBeginCommitId(t) \/ ReadEndCommitId(t) \/ pc'[t] = pc[t]
            /\ ReadBeginCommitId(t) \/ read_begin_cid'[t] = read_begin_cid[t]
            /\ ReadEndCommitId(t) \/ read_end_cid'[t] = read_end_cid[t]
<1> DEFINE Goal ==
      /\ pc[t] \in Reading /\ slot'[t] = slot[t] /\ read_txn_id'[t] = read_txn_id[t]
      /\ ReadBeginCommitId(t) \/ ReadEndCommitId(t) \/ pc'[t] = pc[t]
      /\ ReadBeginCommitId(t) \/ read_begin_cid'[t] = read_begin_cid[t]
      /\ ReadEndCommitId(t) \/ read_end_cid'[t] = read_end_cid[t]
<1> USE DEF TypeOK, Goto, Reading, readVars
<1>1. ASSUME NEW u \in Txns, ReadTransactionId(u)
      PROVE ReadTransactionId(t) \/ Goal
  BY <1>1, ZenonT(60) DEF ReadTransactionId
<1>2. ASSUME NEW u \in Txns, ReadBeginCommitId(u)
      PROVE Goal
  BY <1>2, ZenonT(60) DEF ReadBeginCommitId
<1>3. ASSUME NEW u \in Txns, ReadEndCommitId(u)
      PROVE Goal
  BY <1>3, ZenonT(60) DEF ReadEndCommitId
<1>4. ASSUME NEW u \in Txns,
             ScanOn(u) \/ DeleteOwnInsert(u) \/ DeleteFailed(u) \/ RecordDelete(u) \/ NotDeletable(u)
      PROVE Goal
  BY <1>4, Zenon DEF ScanOn, DeleteOwnInsert, DeleteFailed, RecordDelete, NotDeletable, ForgetRead
<1>5. ASSUME NEW u \in Txns,
             \/ Begin(u) \/ RecordInsert(u) \/ InsertRejected(u) \/ LatchTupleSlot(u)
             \/ BeginCommitPhase(u) \/ AbortTransaction(u)
      PROVE Goal
  BY <1>5, Zenon DEF Begin, RecordInsert, InsertRejected, InsertTuple, LatchTupleSlot,
       BeginCommitPhase, AbortTransaction
<1>6. ASSUME NEW u \in Txns,
             \/ CommitInsertedTuple(u) \/ SetBeginCommitId(u) \/ InsertsCommitted(u)
             \/ CommitDeletedTuple(u) \/ SetEndCommitId(u) \/ Install(u)
      PROVE Goal
  BY <1>6, Zenon DEF CommitInsertedTuple, CommitDeletedTuple, CommitTuple, SetBeginCommitId,
       InsertsCommitted, SetEndCommitId, Install
<1>7. ASSUME NEW u \in Txns,
             Publish(u) \/ AbortInsertedTuple(u) \/ InsertsAborted(u) \/ AbortDeletedTuple(u) \/ Aborted(u)
      PROVE Goal
  BY <1>7, Zenon DEF Publish, AbortInsertedTuple, InsertsAborted, AbortDeletedTuple, Aborted
<1>8. ASSUME UNCHANGED vars
      PROVE Goal
  BY <1>8, Zenon DEF vars
<1> QED
  BY <1>1, <1>2, <1>3, <1>4, <1>5, <1>6, <1>7, <1>8, Cases, ZenonT(60)
(* Every step keeps what the readers have copied true.                     *)
LEMMA ReadsStep ==
  ASSUME IInv, [Next]_vars
  PROVE  Reads'
<1> USE TileGroupAssumption, SlotFacts
<1>t. TypeOK /\ Sets /\ Order /\ Reads
  BY Zenon DEF IInv
<1> SUFFICES ASSUME NEW t \in Txns, pc'[t] \in Reading
             PROVE /\ read_txn_id'[t] = t <=> txn_id'[slot'[t]] = t
                   /\ read_txn_id'[t] = INVALID_TXN_ID => txn_id'[slot'[t]] = INVALID_TXN_ID
                   /\ pc'[t] # "read_begin" => (read_begin_cid'[t] <= snapshot'[t] <=> SawInsert(t, slot[t])')
  BY Zenon DEF Reads
<1>1. CASE ReadTransactionId(t)
  <2>1. txn_id' = txn_id /\ pc'[t] = "read_begin" /\ read_txn_id'[t] = txn_id[slot'[t]]
    BY <1>1, <1>t, Zenon DEF ReadTransactionId, Goto, TypeOK, headerVars
  <2> QED
    BY <2>1, Zenon
<1>2. CASE /\ pc[t] \in Reading /\ slot'[t] = slot[t] /\ read_txn_id'[t] = read_txn_id[t]
           /\ ReadBeginCommitId(t) \/ ReadEndCommitId(t) \/ pc'[t] = pc[t]
           /\ ReadBeginCommitId(t) \/ read_begin_cid'[t] = read_begin_cid[t]
  <2>1. PICK x : x = slot[t]
    BY Zenon
  <2>2. x \in Slots /\ x < next_tuple_slot /\ slot'[t] = x
    BY <1>2, <1>t, <2>1 DEF TypeOK, Sets, SetsOf, NoSlot
  <2>3. (txn_id'[x] = t <=> txn_id[x] = t) /\ (txn_id[x] = INVALID_TXN_ID => txn_id'[x] = INVALID_TXN_ID)
    BY <2>2, WordStep, Zenon
  <2>4. /\ read_txn_id[t] = t <=> txn_id[x] = t
        /\ read_txn_id[t] = INVALID_TXN_ID => txn_id[x] = INVALID_TXN_ID
        /\ pc[t] # "read_begin" => (read_begin_cid[t] <= snapshot[t] <=> SawInsert(t, x))
    BY <1>2, <1>t, <2>1, Zenon DEF Reads
  <2>5. pc[t] # "idle"
    BY <1>2, Zenon DEF Reading
  <2>6. (SawInsert(t, x)' <=> SawInsert(t, x)) /\ snapshot'[t] = snapshot[t]
    BY <1>t, <2>5, SawStable, SnapshotFrame, Zenon
  <2>7. pc'[t] # "read_begin" => (read_begin_cid'[t] <= snapshot[t] <=> SawInsert(t, x))
    <3>1. ASSUME ReadBeginCommitId(t)
          PROVE read_begin_cid'[t] <= snapshot[t] <=> SawInsert(t, x)
      <4>1. pc[t] = "read_begin" /\ read_begin_cid'[t] = begin_cid[x]
        BY <3>1, <1>t, <2>1, Zenon DEF ReadBeginCommitId, Goto, TypeOK
      <4> QED
        BY <4>1, <2>1, BeginRead, Zenon
    <3>2. ASSUME ~ReadBeginCommitId(t), pc'[t] # "read_begin"
          PROVE pc[t] # "read_begin" /\ read_begin_cid'[t] = read_begin_cid[t]
      BY <1>2, <3>2, Zenon DEF ReadEndCommitId, Goto
    <3> QED
      BY <2>4, <3>1, <3>2, Zenon
  <2>8. SawInsert(t, slot[t])' <=> SawInsert(t, x)
    BY <2>2, <2>6, Zenon
  <2> QED
    BY <1>2, <2>2, <2>3, <2>4, <2>6, <2>7, <2>8, Zenon
<1> QED
  BY <1>t, <1>1, <1>2, ReadSince

(* ... the end commit ids included.                                        *)
LEMMA ReadEndsStep ==
  ASSUME IInv, [Next]_vars, OneDeleter, ReadEnds
  PROVE  ReadEnds'
<1> USE TileGroupAssumption, SlotFacts
<1>t. TypeOK /\ Sets /\ Order
  BY Zenon DEF IInv
<1> SUFFICES ASSUME NEW t \in Txns, pc'[t] = "decide", ~Rejected(slot[t])'
             PROVE read_end_cid'[t] <= snapshot'[t] <=> SawDelete(t, slot[t])'
  BY Zenon DEF ReadEnds
<1>1. /\ pc[t] \in Reading /\ slot'[t] = slot[t]
      /\ ReadBeginCommitId(t) \/ ReadEndCommitId(t) \/ pc'[t] = pc[t]
      /\ ReadEndCommitId(t) \/ read_end_cid'[t] = read_end_cid[t]
  <2>1. ~ReadTransactionId(t)
    BY <1>t, Zenon DEF ReadTransactionId, Goto, TypeOK
  <2> QED
    BY <1>t, <2>1, ReadSince, Zenon DEF Reading
<1>2. PICK x : x = slot[t]
  BY Zenon
<1>3. x \in Slots /\ x < next_tuple_slot /\ slot'[t] = x
  BY <1>1, <1>2, <1>t DEF TypeOK, Sets, SetsOf, NoSlot
<1>4. ~Rejected(x)
  BY <1>3, <1>t, Growing, Zenon
<1>5. pc[t] # "idle"
  BY <1>1, Zenon DEF Reading
<1>6. (SawDelete(t, x)' <=> SawDelete(t, x)) /\ snapshot'[t] = snapshot[t]
  BY <1>t, <1>5, SawStable, SnapshotFrame, Zenon
<1>7. read_end_cid'[t] <= snapshot[t] <=> SawDelete(t, x)
  <2>1. ASSUME ReadEndCommitId(t)
        PROVE read_end_cid'[t] <= snapshot[t] <=> SawDelete(t, x)
    <3>1. pc[t] = "read_end" /\ read_end_cid'[t] = end_cid[x]
      BY <2>1, <1>t, <1>2, Zenon DEF ReadEndCommitId, Goto, TypeOK
    <3> QED
      BY <3>1, <1>2, <1>4, EndRead, Zenon
  <2>2. ASSUME ~ReadEndCommitId(t)
        PROVE pc[t] = "decide" /\ read_end_cid'[t] = read_end_cid[t]
    <3>1. ~ReadBeginCommitId(t)
      BY <1>t, Zenon DEF ReadBeginCommitId, Goto, TypeOK
    <3> QED
      BY <1>1, <2>2, <3>1, Zenon
  <2> QED
    BY <2>1, <2>2, <1>2, <1>4, Zenon DEF ReadEnds
<1> QED
  BY <1>3, <1>6, <1>7

-----------------------------------------------------------------------------
(* The initial states satisfy the invariant.                               *)
LEMMA InitIInv ==
  ASSUME Init
  PROVE  IInv
<1> USE TileGroupAssumption, SlotFacts DEF Init, LoaderCid, CO!FirstId
<1>1. TypeOK
  BY SMTT(60) DEF TypeOK, CO!Phases, PCs
<1>2. Order
  BY DEF Order, Running
<1>3. \A s \in Slots : ~Rejected(s)
  BY DEF Rejected
<1>4. Sets
  <2>1. \A t \in Txns : SetsOf(t)
    BY ZenonT(60) DEF SetsOf, InsertLoop, DeleteLoop, Reading
  <2>2. OneInserter /\ Unused
    BY <1>3 DEF OneInserter, Unused
  <2> QED
    BY <2>1, <2>2 DEF Sets
<1>5. Latches
  <2>1. \A t \in Txns : pc[t] \in {"idle", "done"} /\ todo[t] = {} /\ deleted_tuples[t] = {}
    BY ZenonT(60)
  <2>2. \A t \in Txns : \A s \in Slots : ~HoldsInsert(t, s) /\ ~HoldsDelete(t, s) /\ ~HoldsLatch(t, s)
    BY <2>1, Zenon DEF HoldsInsert, HoldsDelete, HoldsLatch, Running, InsertLoop, DeleteLoop
  <2>3. \A s \in Slots : txn_id[s] \notin Txns /\ (s < next_tuple_slot => txn_id[s] = INITIAL_TXN_ID)
    BY Zenon
  <2> QED
    BY <2>1, <2>2, <2>3 DEF Latches, LatchOf
<1>6. Begins
  BY DEF Begins
<1>7. Deletes /\ Reads /\ Ends /\ ReadEnds
  BY DEF Deletes, Reads, Ends, ReadEnds, Reading
<1> QED
  BY <1>1, <1>2, <1>4, <1>5, <1>6, <1>7, Zenon DEF IInv

(* Every step preserves it.                                                *)
LEMMA NextIInv ==
  ASSUME IInv, [Next]_vars
  PROVE  IInv'
<1>t. TypeOK /\ Sets /\ Order /\ Latches /\ Begins
  BY DEF IInv
<1>1. TypeOK' /\ Order'
  BY <1>t, TypeStep, OrderStep
<1>2. Sets'
  BY <1>t, SetsOfStep, OneInserterStep, UnusedStep DEF Sets
<1>3. Latches' /\ Begins' /\ Deletes' /\ Reads'
  BY <1>t, LatchesStep, BeginsStep, DeletesStep, ReadsStep
<1>4. ASSUME OneDeleter'
      PROVE Ends' /\ ReadEnds'
  <2>1. OneDeleter
    BY <1>t, <1>4, OneDeleterBefore
  <2>2. Ends /\ ReadEnds
    BY <2>1 DEF IInv
  <2> QED
    BY <1>t, <1>4, <2>1, <2>2, EndsStep, ReadEndsStep
<1> QED
  BY <1>1, <1>2, <1>3, <1>4 DEF IInv

(* The inductive invariant holds in every reachable state.                 *)
THEOREM Invariance == Spec => []IInv
  BY InitIInv, NextIInv, PTL DEF Spec
(* The variables of TileGroup keep their types: in particular no insert    *)
(* goes beyond the capacity of the tile group (GetNextEmptyTupleSlot).     *)
THEOREM TypeCorrect == Spec => []TypeOK
<1>1. IInv => TypeOK
  BY Zenon DEF IInv
<1> QED
  BY <1>1, Invariance, PTL

(* IsVisible decides as on a snapshot.  A latch word of the reader's own   *)
(* decides between its inserts and its deletes; for the others the copies  *)
(* of the commit ids say what they would say at any other moment.          *)
LEMMA VisibleIffInSnapshot ==
  ASSUME IInv, OneDeleter, NEW t \in Txns, pc[t] = "decide", ~Rejected(slot[t])
  PROVE  IsVisible(t) <=> InSnapshotOf(t, slot[t])
<1> USE TileGroupAssumption, SlotFacts
<1>t. TypeOK /\ Sets /\ Order /\ Latches /\ Deletes /\ Reads /\ ReadEnds
  BY DEF IInv
<1>1. PICK s : s = slot[t]
  BY Zenon
<1>2. s \in Slots /\ s < next_tuple_slot /\ pc[t] \in Running /\ commitId[t] = 0
  BY <1>t, <1>1, SMTT(60) DEF TypeOK, Sets, SetsOf, NoSlot, Reading, Running, Order
<1>3. PICK w \in Txns : s \in inserted_tuples[w]
  BY <1>1, <1>2 DEF Rejected
<1>4. \A v \in Txns : s \in inserted_tuples[v] => v = w
  BY <1>t, <1>2, <1>3, Zenon DEF Sets, OneInserter
<1>5. /\ read_txn_id[t] = t <=> txn_id[s] = t
      /\ read_txn_id[t] = INVALID_TXN_ID => txn_id[s] = INVALID_TXN_ID
      /\ read_begin_cid[t] <= snapshot[t] <=> SawInsert(t, s)
      /\ read_end_cid[t] <= snapshot[t] <=> SawDelete(t, s)
  BY <1>t, <1>1, Zenon DEF Reads, ReadEnds, Reading
<1>6. LatchOf(t, s) /\ LatchOf(w, s)
  BY <1>t, <1>2, Zenon DEF Latches
<1>7. IsVisible(t) <=> /\ read_txn_id[t] # INVALID_TXN_ID
                       /\ read_txn_id[t] = t <=> ~SawInsert(t, s)
                       /\ ~SawDelete(t, s)
  BY <1>t, <1>5, Zenon DEF IsVisible, TypeOK
<1>8. SawInsert(t, s) <=> w # t /\ s \notin deleted_tuples[w] /\ InSnapshot(w, t)
  BY <1>3, <1>4, Zenon DEF SawInsert
<1>9. SawDelete(t, s) <=> \E d \in Txns : d # w /\ s \in deleted_tuples[d] /\ InSnapshot(d, t)
  BY <1>3, <1>4, Zenon DEF SawDelete
<1>10. ~InSnapshot(t, t)
  BY <1>2, Zenon DEF InSnapshot, Committing
<1>11. InSnapshotOf(t, s) <=> /\ w = t \/ InSnapshot(w, t)
                              /\ s \notin deleted_tuples[t]
                              /\ InSnapshot(w, t) => s \notin deleted_tuples[w]
                              /\ ~SawDelete(t, s)
  BY <1>3, <1>4, <1>9, Zenon DEF InSnapshotOf
<1>12. CASE w = t
  <2>1. ~SawDelete(t, s)
    <3> SUFFICES ASSUME NEW d \in Txns, d # w, s \in deleted_tuples[d], InSnapshot(d, t) PROVE FALSE
      BY <1>9, Zenon
    <3>1. SawInsert(d, s)
      BY <1>t, <1>1, <1>4, Zenon DEF Deletes
    <3> QED
      BY <3>1, <1>4, <1>2, <1>12, Zenon DEF SawInsert, InSnapshot, Committing
  <2>2. ~SawInsert(t, s)
    BY <1>8, <1>12, Zenon
  <2>3. txn_id[s] = IF s \in deleted_tuples[t] THEN INVALID_TXN_ID ELSE t
    BY <1>2, <1>3, <1>6, <1>12, Zenon DEF LatchOf, HoldsInsert
  <2>4. IsVisible(t) <=> txn_id[s] = t
    BY <1>5, <1>7, <2>1, <2>2, Zenon
  <2> QED
    BY <1>1, <1>10, <1>11, <1>12, <2>1, <2>3, <2>4, Zenon
<1>13. CASE w # t /\ s \in deleted_tuples[t]
  <2>1. SawInsert(t, s)
    BY <1>t, <1>1, <1>4, <1>13, Zenon DEF Deletes
  <2>2. txn_id[s] = t
    BY <1>1, <1>2, <1>4, <1>6, <1>13, Zenon DEF LatchOf, HoldsDelete
  <2> QED
    BY <1>1, <1>5, <1>7, <1>11, <1>13, <2>1, <2>2, Zenon
<1>14. CASE w # t /\ s \notin deleted_tuples[t]
  <2>1. txn_id[s] # t
    BY <1>1, <1>4, <1>6, <1>14, Zenon DEF LatchOf, HoldsInsert, HoldsDelete, HoldsLatch
  <2>2. txn_id[s] = INVALID_TXN_ID => ~SawInsert(t, s)
    <3> SUFFICES ASSUME txn_id[s] = INVALID_TXN_ID, SawInsert(t, s) PROVE FALSE
      BY Zenon
    <3>1. Dropped(s)
      BY <1>t, <1>1, <1>2, Zenon DEF Latches
    <3>2. phase[w] = "aborted"
      BY <3>1, <1>4, <1>8, Zenon DEF Dropped
    <3> QED
      BY <1>t, <1>8, <3>2, Zenon DEF Order, InSnapshot, Committing
  <2>3. IsVisible(t) <=> SawInsert(t, s) /\ ~SawDelete(t, s)
    BY <1>5, <1>7, <2>1, <2>2, Zenon
  <2> QED
    BY <1>1, <1>8, <1>11, <1>14, <2>3, Zenon
<1> QED
  BY <1>12, <1>13, <1>14

(* Scans that take no latch read snapshots (TileGroupHeader::IsVisible).   *)
THEOREM ScansReadSnapshots == Spec => []ReadsSnapshot
<1>1. IInv => ReadsSnapshot
  BY VisibleIffInSnapshot, Zenon DEF ReadsSnapshot
<1> QED
  BY <1>1, Invariance, PTL

(* CommitModifications is complete when last_cid covers the transaction.   *)
THEOREM PublishedIsInPlace == Spec => []PublishedInPlace
<1>1. IInv => PublishedInPlace
  <2> SUFFICES ASSUME IInv, OneDeleter, NEW t \in Txns, Committing(t), commitId[t] <= published
               PROVE /\ \A s \in inserted_tuples[t] :
                          IF s \in deleted_tuples[t] THEN txn_id[s] = INVALID_TXN_ID
                                                     ELSE begin_cid[s] = commitId[t]
                     /\ \A s \in deleted_tuples[t] \ inserted_tuples[t] :
                          ~Rejected(s) => end_cid[s] = commitId[t]
    BY DEF PublishedInPlace
  <2>t. TypeOK /\ Order /\ Latches /\ Begins /\ Ends
    BY Zenon DEF IInv
  <2>1. phase[t] = "installed" /\ commitId[t] # 0
    BY <2>t, Zenon DEF Order, Committing
  <2>2. \A s : ~BeginPending(t, s) /\ ~EndPending(t, s)
    BY <2>t, <2>1, Zenon DEF Order, BeginPending, EndPending
  <2>3. \A s \in inserted_tuples[t] \cap deleted_tuples[t] : txn_id[s] = INVALID_TXN_ID
    BY <2>t, Zenon DEF Latches, LatchOf, TypeOK
  <2>4. \A s \in inserted_tuples[t] \ deleted_tuples[t] : begin_cid[s] = commitId[t]
    BY <2>t, <2>1, <2>2, Zenon DEF Begins
  <2>5. \A s \in deleted_tuples[t] \ inserted_tuples[t] : ~Rejected(s) => end_cid[s] = commitId[t]
    BY <2>t, <2>1, <2>2, Zenon DEF Ends
  <2> QED
    BY <2>3, <2>4, <2>5, Zenon
<1> QED
  BY <1>1, Invariance, PTL

(* The assertion in TileGroupHeader::ReleaseTupleSlot never fails.         *)
THEOREM ReleasesOwnLatch == Spec => []ReleaseAssertion
<1>1. IInv => ReleaseAssertion
  <2> SUFFICES ASSUME IInv, NEW t \in Txns, NEW s \in todo[t],
                      pc[t] \in {"commit_inserts", "commit_deletes", "abort_deletes"}
               PROVE txn_id[s] \in {t, INVALID_TXN_ID}
    BY Zenon DEF ReleaseAssertion
  <2>1. s \in Slots /\ LatchOf(t, s) /\ SetsOf(t)
    BY Zenon DEF IInv, TypeOK, Latches, Sets
  <2> QED
    BY <2>1, Zenon DEF SetsOf, LatchOf, HoldsInsert, HoldsDelete, InsertLoop, DeleteLoop
<1> QED
  BY <1>1, Invariance, PTL

(* Commit and abort leave no latch behind.                                 *)
THEOREM LatchesAreReleased == Spec => []NoLatchLeft
<1>1. IInv => NoLatchLeft
  BY Zenon DEF IInv, Latches, LatchOf, NoLatchLeft, HoldsInsert, HoldsDelete, HoldsLatch,
       Running, InsertLoop, DeleteLoop
<1> QED
  BY <1>1, Invariance, PTL
=============================================================================
