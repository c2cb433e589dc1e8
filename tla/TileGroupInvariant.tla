------------------------- MODULE TileGroupInvariant -------------------------
(***************************************************************************)
(* The inductive invariant of TileGroup, and that steps preserve the       *)
(* types and its parts on the order of commits, on the lists of the        *)
(* transactions, on the commit ids in the headers and on the snapshots     *)
(* that deleters had.                                                      *)
(***************************************************************************)
EXTENDS TileGroup, TLAPS

-----------------------------------------------------------------------------
(* The inductive invariant.                                                *)

Running == {"running", "read_begin", "read_end", "decide", "latched"}
Reading == {"read_begin", "read_end", "decide"}
InsertLoop == {"commit_inserts", "set_begin", "abort_inserts"}
DeleteLoop == {"commit_deletes", "set_end", "abort_deletes"}

(* Commit ids, publication and snapshots; the phases as the pc has them.   *)
Order ==
  /\ \A t \in Txns :
       /\ pc[t] = "idle" => phase[t] = "idle" /\ snapshot[t] = 0
       /\ pc[t] \in Running => phase[t] = "running"
       /\ pc[t] \in {"commit_inserts", "set_begin", "commit_deletes", "set_end"} =>
            phase[t] = "installing"
       /\ pc[t] \in {"abort_inserts", "abort_deletes"} => phase[t] = "aborted"
       /\ pc[t] = "done" => phase[t] \in {"installed", "aborted"}
       /\ commitId[t] # 0 <=> phase[t] \in {"installing", "installed"}
       /\ commitId[t] <= lastId
       /\ commitId[t] # 0 /\ commitId[t] <= published => phase[t] = "installed"
       /\ snapshot[t] <= published
  /\ \A t, u \in Txns : commitId[t] # 0 /\ commitId[t] = commitId[u] => t = u
  /\ published <= lastId /\ lastId < MAX_CID

(* Which slots the sets and the locals of a thread may name.               *)
SetsOf(t) ==
  /\ inserted_tuples[t] \subseteq 0 .. next_tuple_slot - 1
  /\ deleted_tuples[t] \subseteq 0 .. next_tuple_slot - 1
  /\ pc[t] = "idle" => inserted_tuples[t] = {} /\ deleted_tuples[t] = {}
  /\ pc[t] \in InsertLoop => todo[t] \subseteq inserted_tuples[t]
  /\ pc[t] \in DeleteLoop => todo[t] \subseteq deleted_tuples[t]
  /\ pc[t] \in Reading \cup {"latched", "set_begin", "set_end"} => slot[t] < next_tuple_slot
  /\ pc[t] = "set_begin" => slot[t] \in inserted_tuples[t] /\ slot[t] \notin deleted_tuples[t]
  /\ pc[t] = "set_end" => /\ slot[t] \in deleted_tuples[t] /\ slot[t] \notin inserted_tuples[t]
                          /\ ~Rejected(slot[t])

OneInserter ==
  \A t, u \in Txns : \A s \in Slots : s \in inserted_tuples[t] /\ s \in inserted_tuples[u] => t = u

(* Slots that were never used, and those of rejected inserts.              *)
Unused ==
  \A s \in Slots :
    /\ s >= next_tuple_slot =>
         txn_id[s] = INVALID_TXN_ID /\ begin_cid[s] = MAX_CID /\ end_cid[s] = MAX_CID
    /\ Rejected(s) =>
         txn_id[s] # INITIAL_TXN_ID /\ begin_cid[s] = MAX_CID /\ end_cid[s] = MAX_CID

Sets == (\A t \in Txns : SetsOf(t)) /\ OneInserter /\ Unused

(* t still has to release the latch it holds on a tuple it inserted,       *)
(* respectively deleted.                                                   *)
HoldsInsert(t, s) ==
  /\ s \in inserted_tuples[t] /\ s \notin deleted_tuples[t]
  /\ pc[t] \in Running \/ (pc[t] \in InsertLoop /\ s \in todo[t])

HoldsDelete(t, s) ==
  /\ s \in deleted_tuples[t] /\ s \notin inserted_tuples[t] /\ ~Rejected(s)
  /\ pc[t] \in Running \cup InsertLoop \/ (pc[t] \in DeleteLoop /\ s \in todo[t])

HoldsLatch(t, s) ==
  /\ pc[t] = "latched" /\ slot[t] = s /\ ~Rejected(s)
  /\ s \notin inserted_tuples[t] /\ s \notin deleted_tuples[t]

(* The latch words say exactly that.                                       *)
LatchOf(t, s) ==
  /\ txn_id[s] = t => HoldsInsert(t, s) \/ HoldsDelete(t, s) \/ HoldsLatch(t, s) \/ Rejected(s)
  /\ HoldsInsert(t, s) \/ HoldsDelete(t, s) \/ HoldsLatch(t, s) => txn_id[s] = t
  /\ s \in deleted_tuples[t] /\ (s \in inserted_tuples[t] \/ Rejected(s)) =>
       txn_id[s] = INVALID_TXN_ID

Dropped(s) ==
  \E w \in Txns : s \in inserted_tuples[w] /\ (s \in deleted_tuples[w] \/ phase[w] = "aborted")

Latches ==
  /\ \A t \in Txns : \A s \in Slots : LatchOf(t, s)
  /\ \A t \in Txns : pc[t] = "latched" => HoldsLatch(t, slot[t])
  /\ \A s \in Slots :
       txn_id[s] = INVALID_TXN_ID /\ s < next_tuple_slot /\ ~Rejected(s) => Dropped(s)

(* The begin commit id of a tuple is that of its inserter, once written.   *)
BeginPending(w, s) ==
  pc[w] \in {"commit_inserts", "set_begin"} /\ (s \in todo[w] \/ (pc[w] = "set_begin" /\ slot[w] = s))

Begins ==
  \A w \in Txns : \A s \in inserted_tuples[w] :
    /\ begin_cid[s] = MAX_CID \/ (commitId[w] # 0 /\ begin_cid[s] = commitId[w])
    /\ s \in deleted_tuples[w] => begin_cid[s] = MAX_CID
    /\ s \notin deleted_tuples[w] /\ commitId[w] # 0 /\ ~BeginPending(w, s) =>
         begin_cid[s] = commitId[w]

(* The end commit id is that of a deleter that saw the tuple in its        *)
(* snapshot, and is there once that deleter is done.                       *)
SawInsert(t, s) ==
  \E w \in Txns : w # t /\ s \in inserted_tuples[w] /\ s \notin deleted_tuples[w] /\ InSnapshot(w, t)

Deletes ==
  /\ \A t \in Txns : pc[t] = "latched" => SawInsert(t, slot[t])
  /\ \A t \in Txns : \A s \in deleted_tuples[t] :
       s \notin inserted_tuples[t] /\ ~Rejected(s) => SawInsert(t, s)
  /\ \A s \in Slots : end_cid[s] # MAX_CID =>
       \E d \in Txns : /\ s \in deleted_tuples[d] /\ s \notin inserted_tuples[d]
                       /\ commitId[d] # 0 /\ end_cid[s] = commitId[d]

EndPending(d, s) ==
  \/ pc[d] \in {"commit_inserts", "set_begin"}
  \/ pc[d] \in {"commit_deletes", "set_end"} /\ (s \in todo[d] \/ (pc[d] = "set_end" /\ slot[d] = s))

Ends ==
  \A d \in Txns : \A s \in deleted_tuples[d] :
    s \notin inserted_tuples[d] /\ ~Rejected(s) /\ commitId[d] # 0 /\ ~EndPending(d, s) =>
      end_cid[s] = commitId[d]

(* What the copies in IsVisible say.                                       *)
SawDelete(t, s) ==
  \E d \in Txns : s \in deleted_tuples[d] /\ s \notin inserted_tuples[d] /\ InSnapshot(d, t)

Reads ==
  \A t \in Txns : pc[t] \in Reading =>
    /\ read_txn_id[t] = t <=> txn_id[slot[t]] = t
    /\ read_txn_id[t] = INVALID_TXN_ID => txn_id[slot[t]] = INVALID_TXN_ID
    /\ pc[t] # "read_begin" => (read_begin_cid[t] <= snapshot[t] <=> SawInsert(t, slot[t]))

ReadEnds ==
  \A t \in Txns : pc[t] = "decide" /\ ~Rejected(slot[t]) =>
    (read_end_cid[t] <= snapshot[t] <=> SawDelete(t, slot[t]))

IInv ==
  /\ TypeOK /\ Order /\ Sets /\ Latches /\ Begins /\ Deletes /\ Reads
  /\ OneDeleter => Ends /\ ReadEnds

-----------------------------------------------------------------------------
(* The disjuncts of Next, to split on in the proofs below.                 *)
LEMMA Cases ==
  ASSUME [Next]_vars
  PROVE  \/ \E t \in Txns :
              \/ Begin(t) \/ RecordInsert(t) \/ InsertRejected(t)
              \/ ReadTransactionId(t) \/ ReadBeginCommitId(t) \/ ReadEndCommitId(t) \/ ScanOn(t)
              \/ LatchTupleSlot(t) \/ DeleteOwnInsert(t) \/ DeleteFailed(t)
              \/ RecordDelete(t) \/ NotDeletable(t)
              \/ BeginCommitPhase(t) \/ CommitInsertedTuple(t) \/ SetBeginCommitId(t)
              \/ InsertsCommitted(t) \/ CommitDeletedTuple(t) \/ SetEndCommitId(t)
              \/ Install(t) \/ Publish(t)
              \/ AbortTransaction(t) \/ AbortInsertedTuple(t) \/ InsertsAborted(t)
              \/ AbortDeletedTuple(t) \/ Aborted(t)
         \/ UNCHANGED vars
  BY DEF Next, Step, Scan, DeleteTuple, CommitModifications, Rollback, AllDone

(* Slots are the numbers below the capacity.                               *)
LEMMA SlotFacts ==
  /\ \A s : s \in Slots <=> s \in Nat /\ s < num_tuple_slots
  /\ Slots \subseteq Nat /\ NoSlot \in Nat /\ NoSlot \notin Slots
  /\ \A n \in 0 .. num_tuple_slots : 0 .. n - 1 \subseteq Slots
  BY TileGroupAssumption DEF Slots, NoSlot

(* The types in four parts.                                                *)
TypeOrder ==
  /\ phase \in [Txns -> CO!Phases]
  /\ commitId \in [Txns -> Nat] /\ lastId \in Nat /\ published \in Nat
  /\ snapshot \in [Txns -> Nat]

TypeHeaders ==
  /\ next_tuple_slot \in 0 .. num_tuple_slots
  /\ txn_id \in [Slots -> Txns \cup {INVALID_TXN_ID, INITIAL_TXN_ID}]
  /\ begin_cid \in [Slots -> Nat] /\ end_cid \in [Slots -> Nat]

TypeSets ==
  /\ inserted_tuples \in [Txns -> SUBSET Slots]
  /\ deleted_tuples \in [Txns -> SUBSET Slots]
  /\ todo \in [Txns -> SUBSET Slots]

TypeThreads ==
  /\ pc \in [Txns -> PCs]
  /\ slot \in [Txns -> Slots \cup {NoSlot}]
  /\ read_txn_id \in [Txns -> Txns \cup {INVALID_TXN_ID, INITIAL_TXN_ID}]
  /\ read_begin_cid \in [Txns -> Nat] /\ read_end_cid \in [Txns -> Nat]

(* The parts are the whole.                                                *)
LEMMA TypeParts ==
  TypeOK <=> TypeOrder /\ TypeHeaders /\ TypeSets /\ TypeThreads
  BY DEF TypeOK, TypeOrder, TypeHeaders, TypeSets, TypeThreads

(* Every step keeps the variables in their types.                          *)
LEMMA TypeStep ==
  ASSUME TypeOK, Sets, [Next]_vars
  PROVE  TypeOK'
<1> USE TileGroupAssumption, SlotFacts, TypeParts
<1>1. TypeOrder'
  <2> USE DEF TypeOrder, coVars
  <2>1. ASSUME NEW t \in Txns,
               Begin(t) \/ BeginCommitPhase(t) \/ Install(t) \/ Publish(t) \/ AbortTransaction(t)
        PROVE TypeOrder'
    BY <2>1 DEF Begin, BeginCommitPhase, Install, Publish, AbortTransaction,
         CO!Begin, CO!GetCommitId, CO!Install, CO!Publish, CO!Abort, CO!Phases
  <2>2. CASE UNCHANGED coVars
    BY <2>2
  <2> QED
    BY <2>1, <2>2, Cases, ZenonT(60)
       DEF RecordInsert, InsertRejected, InsertTuple, ReadTransactionId, ReadBeginCommitId,
         ReadEndCommitId, ScanOn, LatchTupleSlot, DeleteOwnInsert, DeleteFailed, RecordDelete,
         NotDeletable, CommitInsertedTuple, CommitDeletedTuple, CommitTuple, SetBeginCommitId,
         InsertsCommitted, SetEndCommitId, AbortInsertedTuple, InsertsAborted,
         AbortDeletedTuple, Aborted, vars
<1>2. TypeHeaders'
  <2> USE DEF TypeHeaders, headerVars
  <2>1. ASSUME NEW t \in Txns, RecordInsert(t) \/ InsertRejected(t)
        PROVE TypeHeaders'
    BY <2>1 DEF RecordInsert, InsertRejected, InsertTuple
  <2>2. ASSUME NEW t \in Txns, LatchTupleSlot(t) \/ DeleteOwnInsert(t) \/ NotDeletable(t)
        PROVE TypeHeaders'
    BY <2>2 DEF LatchTupleSlot, DeleteOwnInsert, NotDeletable
  <2>3. ASSUME NEW t \in Txns, CommitInsertedTuple(t) \/ CommitDeletedTuple(t)
                               \/ AbortInsertedTuple(t) \/ AbortDeletedTuple(t)
        PROVE TypeHeaders'
    BY <2>3 DEF CommitInsertedTuple, CommitDeletedTuple, CommitTuple, AbortInsertedTuple,
         AbortDeletedTuple, ReleaseTupleSlot
  <2>4. ASSUME NEW t \in Txns, SetBeginCommitId(t) \/ SetEndCommitId(t)
        PROVE TypeHeaders'
    BY <2>4 DEF SetBeginCommitId, SetEndCommitId, TypeOrder
  <2>5. CASE UNCHANGED headerVars
    BY <2>5
  <2> QED
    BY <2>1, <2>2, <2>3, <2>4, <2>5, Cases
       DEF Begin, ReadTransactionId, ReadBeginCommitId, ReadEndCommitId, ScanOn, DeleteFailed,
         RecordDelete, BeginCommitPhase, InsertsCommitted, Install, Publish, AbortTransaction,
         InsertsAborted, Aborted, vars
<1>3. TypeSets'
  <2> USE DEF TypeSets, setVars
  <2>1. ASSUME NEW t \in Txns, RecordInsert(t)
        PROVE TypeSets'
    BY <2>1 DEF RecordInsert, InsertTuple, TypeHeaders
  <2>2. ASSUME NEW t \in Txns, DeleteOwnInsert(t) \/ RecordDelete(t)
        PROVE TypeSets'
    <3>1. slot[t] \in Slots
      BY <2>2 DEF DeleteOwnInsert, RecordDelete, Goto, Sets, SetsOf, Reading, TypeThreads, TypeHeaders, NoSlot
    <3> QED
      BY <2>2, <3>1 DEF DeleteOwnInsert, RecordDelete
  <2>3. ASSUME NEW t \in Txns, CommitInsertedTuple(t) \/ CommitDeletedTuple(t)
                               \/ AbortInsertedTuple(t) \/ AbortDeletedTuple(t)
        PROVE TypeSets'
    BY <2>3 DEF CommitInsertedTuple, CommitDeletedTuple, CommitTuple, AbortInsertedTuple,
         AbortDeletedTuple
  <2>4. ASSUME NEW t \in Txns, BeginCommitPhase(t) \/ InsertsCommitted(t)
                               \/ AbortTransaction(t) \/ InsertsAborted(t)
        PROVE TypeSets'
    BY <2>4 DEF BeginCommitPhase, InsertsCommitted, AbortTransaction, InsertsAborted
  <2>5. CASE UNCHANGED <<setVars, todo>>
    BY <2>5, Zenon
  <2> QED
    BY <2>1, <2>2, <2>3, <2>4, <2>5, Cases
       DEF Begin, InsertRejected, InsertTuple, ReadTransactionId, ReadBeginCommitId,
         ReadEndCommitId, ScanOn, LatchTupleSlot, DeleteFailed, NotDeletable, SetBeginCommitId,
         SetEndCommitId, Install, Publish, Aborted, vars
<1>4. TypeThreads'
  <2> USE DEF TypeThreads, PCs, Goto, readVars
  <2>1. ASSUME NEW t \in Txns, ReadTransactionId(t)
        PROVE TypeThreads'
    BY <2>1 DEF ReadTransactionId, TypeHeaders
  <2>2. ASSUME NEW t \in Txns, ReadBeginCommitId(t) \/ ReadEndCommitId(t)
        PROVE TypeThreads'
    <3>1. slot[t] \in Slots
      BY <2>2 DEF ReadBeginCommitId, ReadEndCommitId, Sets, SetsOf, Reading, TypeHeaders, NoSlot
    <3> QED
      BY <2>2, <3>1 DEF ReadBeginCommitId, ReadEndCommitId, TypeHeaders
  <2>3. ASSUME NEW t \in Txns,
               ScanOn(t) \/ DeleteOwnInsert(t) \/ DeleteFailed(t) \/ RecordDelete(t) \/ NotDeletable(t)
        PROVE TypeThreads'
    BY <2>3 DEF ScanOn, DeleteOwnInsert, DeleteFailed, RecordDelete, NotDeletable, ForgetRead
  <2>4. ASSUME NEW t \in Txns, CommitInsertedTuple(t) \/ CommitDeletedTuple(t)
        PROVE TypeThreads'
    BY <2>4 DEF CommitInsertedTuple, CommitDeletedTuple, CommitTuple, TypeSets
  <2>5. ASSUME NEW t \in Txns, SetBeginCommitId(t) \/ SetEndCommitId(t)
        PROVE TypeThreads'
    BY <2>5 DEF SetBeginCommitId, SetEndCommitId
  <2>6. ASSUME NEW t \in Txns,
               \/ Begin(t) \/ LatchTupleSlot(t) \/ BeginCommitPhase(t) \/ InsertsCommitted(t)
               \/ Install(t) \/ AbortTransaction(t) \/ InsertsAborted(t) \/ Aborted(t)
        PROVE TypeThreads'
    BY <2>6 DEF Begin, LatchTupleSlot, BeginCommitPhase, InsertsCommitted, Install,
         AbortTransaction, InsertsAborted, Aborted
  <2>7. CASE UNCHANGED <<pc, slot, readVars>>
    BY <2>7, SMTT(60)
  <2> QED
    BY <2>1, <2>2, <2>3, <2>4, <2>5, <2>6, <2>7, Cases
       DEF RecordInsert, InsertRejected, InsertTuple, AbortInsertedTuple, AbortDeletedTuple,
         Publish, vars
<1> QED
  BY <1>1, <1>2, <1>3, <1>4, SMTT(60) DEF TypeOK, TypeOrder, TypeHeaders, TypeSets, TypeThreads

(* Every step keeps commit ids, publication and snapshots in order.        *)
LEMMA OrderStep ==
  ASSUME TypeOK, Order, [Next]_vars
  PROVE  Order'
<1> USE TileGroupAssumption DEF TypeOK, Order, Running, Goto, coVars
<1>1. ASSUME NEW t \in Txns, Begin(t)
      PROVE Order'
  BY <1>1 DEF Begin, CO!Begin
<1>2. ASSUME NEW t \in Txns, BeginCommitPhase(t)
      PROVE Order'
  <2>1. /\ pc[t] = "running" /\ phase[t] = "running" /\ lastId + 1 < MAX_CID
        /\ pc' = [pc EXCEPT ![t] = "commit_inserts"]
        /\ phase' = [phase EXCEPT ![t] = "installing"]
        /\ lastId' = lastId + 1 /\ commitId' = [commitId EXCEPT ![t] = lastId + 1]
        /\ published' = published /\ snapshot' = snapshot
    BY <1>2 DEF BeginCommitPhase, CO!GetCommitId
  <2>2. \A u \in Txns : u # t => pc'[u] = pc[u] /\ phase'[u] = phase[u] /\ commitId'[u] = commitId[u]
    BY <2>1
  <2>3. pc'[t] = "commit_inserts" /\ phase'[t] = "installing" /\ commitId'[t] = lastId + 1
    BY <2>1
  <2> QED
    BY <2>1, <2>2, <2>3
<1>3. ASSUME NEW t \in Txns, Install(t) \/ AbortTransaction(t)
      PROVE Order'
  BY <1>3 DEF Install, AbortTransaction, CO!Install, CO!Abort
<1>4. ASSUME NEW t \in Txns, Publish(t)
      PROVE Order'
  <2>1. /\ phase[t] = "installed" /\ commitId[t] = published + 1 /\ published' = published + 1
        /\ UNCHANGED <<phase, commitId, lastId, snapshot, pc>>
    BY <1>4 DEF Publish, CO!Publish
  <2>2. \A u \in Txns : commitId[u] # 0 /\ commitId[u] <= published + 1 => phase[u] = "installed"
    BY <2>1
  <2> QED
    BY <2>1, <2>2
<1>5. ASSUME NEW t \in Txns,
             \/ ReadTransactionId(t) \/ ReadBeginCommitId(t) \/ ReadEndCommitId(t) \/ ScanOn(t)
             \/ LatchTupleSlot(t) \/ DeleteOwnInsert(t) \/ DeleteFailed(t)
             \/ RecordDelete(t) \/ NotDeletable(t)
      PROVE Order'
  BY <1>5 DEF ReadTransactionId, ReadBeginCommitId, ReadEndCommitId, ScanOn, LatchTupleSlot,
       DeleteOwnInsert, DeleteFailed, RecordDelete, NotDeletable
<1>6. ASSUME NEW t \in Txns,
             \/ CommitInsertedTuple(t) \/ SetBeginCommitId(t) \/ InsertsCommitted(t)
             \/ CommitDeletedTuple(t) \/ SetEndCommitId(t) \/ InsertsAborted(t) \/ Aborted(t)
      PROVE Order'
  BY <1>6 DEF CommitInsertedTuple, CommitDeletedTuple, CommitTuple, SetBeginCommitId,
       SetEndCommitId, InsertsCommitted, InsertsAborted, Aborted
<1>7. CASE UNCHANGED <<coVars, pc>>
  BY <1>7
<1> QED
  BY <1>1, <1>2, <1>3, <1>4, <1>5, <1>6, <1>7, Cases, ZenonT(60)
     DEF RecordInsert, InsertRejected, InsertTuple, AbortInsertedTuple, AbortDeletedTuple, vars

(* Which slots are those of rejected inserts changes with an insert only.  *)
LEMMA RejectedSame ==
  ASSUME UNCHANGED <<next_tuple_slot, inserted_tuples>>
  PROVE  \A s : Rejected(s)' <=> Rejected(s)
  BY SMTT(60) DEF Rejected

(* The steps other than inserts change neither.                            *)
LEMMA NoInsert ==
  ASSUME [Next]_vars
  PROVE  \/ \E t \in Txns : RecordInsert(t) \/ InsertRejected(t)
         \/ UNCHANGED <<next_tuple_slot, inserted_tuples>>
  BY Cases, ZenonT(60) DEF Begin, ReadTransactionId, ReadBeginCommitId, ReadEndCommitId, ScanOn,
       LatchTupleSlot, DeleteOwnInsert, DeleteFailed, RecordDelete, NotDeletable,
       BeginCommitPhase, CommitInsertedTuple, CommitDeletedTuple, CommitTuple,
       SetBeginCommitId, InsertsCommitted, SetEndCommitId, Install, Publish,
       AbortTransaction, AbortInsertedTuple, InsertsAborted, AbortDeletedTuple, Aborted,
       headerVars, setVars, vars

(* The steps other than deletes leave the lists of deletes alone.          *)
LEMMA NoDelete ==
  ASSUME [Next]_vars
  PROVE  \/ \E t \in Txns : DeleteOwnInsert(t) \/ RecordDelete(t)
         \/ UNCHANGED deleted_tuples
  BY Cases, ZenonT(60) DEF Begin, RecordInsert, InsertRejected, InsertTuple, ReadTransactionId,
       ReadBeginCommitId, ReadEndCommitId, ScanOn, LatchTupleSlot, DeleteFailed, NotDeletable,
       BeginCommitPhase, CommitInsertedTuple, CommitDeletedTuple, CommitTuple,
       SetBeginCommitId, InsertsCommitted, SetEndCommitId, Install, Publish,
       AbortTransaction, AbortInsertedTuple, InsertsAborted, AbortDeletedTuple, Aborted,
       setVars, vars

(* An insert takes the slot next_tuple_slot, and either records it or      *)
(* leaves it as that of a rejected insert; other slots stay what they are. *)
LEMMA InsertEffect ==
  ASSUME TypeOK, Sets, NEW t \in Txns, RecordInsert(t) \/ InsertRejected(t), NEW n, n = next_tuple_slot
  PROVE  /\ n \in Slots /\ next_tuple_slot' = n + 1
         /\ \A u \in Txns : n \notin inserted_tuples[u]
         /\ \A u \in Txns : n \notin deleted_tuples[u]
         /\ \A u \in Txns : u # t => inserted_tuples'[u] = inserted_tuples[u]
         /\ \A s \in Slots : s # n =>
              /\ s \in inserted_tuples'[t] <=> s \in inserted_tuples[t]
              /\ Rejected(s)' <=> Rejected(s)
              /\ txn_id'[s] = txn_id[s] /\ begin_cid'[s] = begin_cid[s] /\ end_cid'[s] = end_cid[s]
         /\ n \in inserted_tuples'[t] <=> ~Rejected(n)'
         /\ n \in inserted_tuples'[t] <=> RecordInsert(t)
         /\ txn_id'[n] = t
         /\ begin_cid'[n] = MAX_CID /\ end_cid'[n] = MAX_CID
         /\ pc[t] = "running"
         /\ UNCHANGED <<coVars, deleted_tuples, pc, slot, readVars, todo>>
<1> USE TileGroupAssumption, SlotFacts DEF TypeOK
<1>1. /\ pc[t] = "running" /\ n < num_tuple_slots
      /\ next_tuple_slot' = n + 1
      /\ txn_id' = [txn_id EXCEPT ![n] = t]
      /\ begin_cid' = [begin_cid EXCEPT ![n] = MAX_CID]
      /\ end_cid' = [end_cid EXCEPT ![n] = MAX_CID]
      /\ UNCHANGED <<coVars, deleted_tuples, pc, slot, readVars, todo>>
  BY DEF RecordInsert, InsertRejected, InsertTuple
<1>2. n \in Slots
  BY <1>1, SMTT(60)
<1>3. \A u \in Txns : n \notin inserted_tuples[u] /\ n \notin deleted_tuples[u]
  BY <1>2 DEF Sets, SetsOf
<1>4. CASE RecordInsert(t)
  <2>1. inserted_tuples' = [inserted_tuples EXCEPT ![t] = @ \cup {n}]
    BY <1>4 DEF RecordInsert
  <2>2. /\ \A u \in Txns : u # t => inserted_tuples'[u] = inserted_tuples[u]
        /\ inserted_tuples'[t] = inserted_tuples[t] \cup {n}
    BY <2>1
  <2>3. \A s \in Slots : s # n => (Rejected(s)' <=> Rejected(s))
    <3> SUFFICES ASSUME NEW s \in Slots, s # n
                 PROVE Rejected(s)' <=> Rejected(s)
      OBVIOUS
    <3>1. s < next_tuple_slot' <=> s < next_tuple_slot
      BY <1>1
    <3>2. \A u \in Txns : s \in inserted_tuples'[u] <=> s \in inserted_tuples[u]
      BY <2>2
    <3> QED
      BY <3>1, <3>2, ZenonT(60) DEF Rejected
  <2>4. ~Rejected(n)'
    BY <2>2, Zenon DEF Rejected
  <2> QED
    BY <1>1, <1>2, <1>3, <2>2, <2>3, <2>4, <1>4, ZenonT(60)
<1>5. CASE InsertRejected(t)
  <2>1. inserted_tuples' = inserted_tuples
    BY <1>5 DEF InsertRejected
  <2>2. \A s \in Slots : s # n => (Rejected(s)' <=> Rejected(s))
    BY <1>1, <2>1 DEF Rejected
  <2>3. Rejected(n)'
    BY <1>1, <1>3, <2>1 DEF Rejected
  <2>4. ~RecordInsert(t)
    BY <1>3, <2>1 DEF RecordInsert
  <2> QED
    BY <1>1, <1>2, <1>3, <2>1, <2>2, <2>3, <2>4
<1> QED
  BY <1>4, <1>5, ZenonT(60)

(* A transaction has a latch for a delete only since LatchTupleSlot.       *)
LEMMA LatchedSince ==
  ASSUME TypeOK, [Next]_vars, NEW t \in Txns, pc'[t] = "latched"
  PROVE  slot'[t] = slot[t] /\ (LatchTupleSlot(t) \/ pc[t] = "latched")
<1> USE DEF TypeOK, Goto
<1>1. ASSUME NEW u \in Txns,
             \/ Begin(u) \/ RecordInsert(u) \/ InsertRejected(u) \/ ReadTransactionId(u)
             \/ ReadBeginCommitId(u) \/ ReadEndCommitId(u) \/ LatchTupleSlot(u)
      PROVE slot'[t] = slot[t] /\ (LatchTupleSlot(t) \/ pc[t] = "latched")
  BY <1>1 DEF Begin, RecordInsert, InsertRejected, InsertTuple,
     ReadTransactionId, ReadBeginCommitId, ReadEndCommitId, LatchTupleSlot
<1>2. ASSUME NEW u \in Txns,
             ScanOn(u) \/ DeleteOwnInsert(u) \/ DeleteFailed(u) \/ RecordDelete(u) \/ NotDeletable(u)
      PROVE slot'[t] = slot[t] /\ (LatchTupleSlot(t) \/ pc[t] = "latched")
  BY <1>2 DEF ScanOn, DeleteOwnInsert, DeleteFailed, RecordDelete, NotDeletable, ForgetRead
<1>3. ASSUME NEW u \in Txns,
             \/ BeginCommitPhase(u) \/ CommitInsertedTuple(u) \/ SetBeginCommitId(u)
             \/ InsertsCommitted(u) \/ CommitDeletedTuple(u) \/ SetEndCommitId(u) \/ Install(u)
      PROVE slot'[t] = slot[t] /\ (LatchTupleSlot(t) \/ pc[t] = "latched")
  BY <1>3 DEF BeginCommitPhase, CommitInsertedTuple, CommitDeletedTuple, CommitTuple,
     SetBeginCommitId, InsertsCommitted, SetEndCommitId, Install
<1>4. ASSUME NEW u \in Txns,
             \/ Publish(u) \/ AbortTransaction(u) \/ AbortInsertedTuple(u)
             \/ InsertsAborted(u) \/ AbortDeletedTuple(u) \/ Aborted(u)
      PROVE slot'[t] = slot[t] /\ (LatchTupleSlot(t) \/ pc[t] = "latched")
  BY <1>4 DEF Publish, AbortTransaction, AbortInsertedTuple, InsertsAborted, AbortDeletedTuple, Aborted
<1>5. CASE UNCHANGED vars
  BY <1>5 DEF vars
<1> QED
  BY <1>1, <1>2, <1>3, <1>4, <1>5, Cases, ZenonT(60)

(* Every step keeps the sets and the locals on slots that they may name.   *)
LEMMA SetsOfStep ==
  ASSUME TypeOK, Order, Sets, Latches, [Next]_vars, NEW u \in Txns
  PROVE  SetsOf(u)'
<1> USE TileGroupAssumption, SlotFacts DEF TypeOK, Goto, Reading, InsertLoop, DeleteLoop
<1>0. SetsOf(u)
  BY Zenon DEF Sets
<1>1. ASSUME NEW t \in Txns, RecordInsert(t) \/ InsertRejected(t)
      PROVE SetsOf(u)'
  <2>1. PICK n : n = next_tuple_slot
    OBVIOUS
  <2>2. /\ pc' = pc /\ slot' = slot /\ todo' = todo /\ deleted_tuples' = deleted_tuples
        /\ next_tuple_slot' = n + 1
        /\ \A s \in Slots : s # n => (s \in inserted_tuples'[u] <=> s \in inserted_tuples[u])
        /\ \A s \in Slots : s # n => (Rejected(s)' <=> Rejected(s))
        /\ n \notin inserted_tuples[u] /\ n \notin deleted_tuples[u]
        /\ pc[u] = "idle" => inserted_tuples'[u] = inserted_tuples[u]
    <3> HIDE DEF TypeOK
    <3> QED
      BY <1>1, <2>1, InsertEffect, SMTT(30)
  <2>3. inserted_tuples'[u] \in SUBSET Slots
    BY <1>1, TypeStep, Zenon
  <2>4. inserted_tuples'[u] \subseteq 0 .. n /\ deleted_tuples[u] \subseteq 0 .. n
    BY <1>0, <2>1, <2>2, <2>3 DEF SetsOf
  <2>5. inserted_tuples[u] \subseteq inserted_tuples'[u]
    BY <2>2
  <2>6. slot[u] < n => slot[u] \in Slots /\ slot[u] # n /\ slot[u] < n + 1
    BY <2>1, SMTT(60)
  <2> QED
    BY <1>0, <2>1, <2>2, <2>4, <2>5, <2>6 DEF SetsOf
<1>2. ASSUME UNCHANGED <<next_tuple_slot, inserted_tuples>>
      PROVE SetsOf(u)'
  <2> USE <1>0, <1>2, RejectedSame DEF SetsOf, headerVars, setVars
  <2>1. ASSUME NEW t \in Txns,
               \/ Begin(t) \/ ScanOn(t) \/ DeleteFailed(t) \/ RecordDelete(t) \/ NotDeletable(t)
        PROVE SetsOf(u)'
    BY <2>1 DEF Begin, ScanOn, DeleteFailed, RecordDelete, NotDeletable, ForgetRead
  <2>2. ASSUME NEW t \in Txns, ReadTransactionId(t) \/ ReadBeginCommitId(t) \/ ReadEndCommitId(t)
        PROVE SetsOf(u)'
    BY <2>2 DEF ReadTransactionId, ReadBeginCommitId, ReadEndCommitId
  <2>3. ASSUME NEW t \in Txns, LatchTupleSlot(t) \/ DeleteOwnInsert(t)
        PROVE SetsOf(u)'
    BY <2>3 DEF LatchTupleSlot, DeleteOwnInsert, ForgetRead
  <2>4. ASSUME NEW t \in Txns,
               \/ BeginCommitPhase(t) \/ InsertsCommitted(t) \/ Install(t)
               \/ AbortTransaction(t) \/ InsertsAborted(t) \/ Aborted(t)
        PROVE SetsOf(u)'
    BY <2>4 DEF BeginCommitPhase, InsertsCommitted, Install, AbortTransaction,
         InsertsAborted, Aborted
  <2>5. ASSUME NEW t \in Txns, CommitInsertedTuple(t)
        PROVE SetsOf(u)'
    BY <2>5 DEF Latches, LatchOf, CommitInsertedTuple, CommitTuple
  <2>6. ASSUME NEW t \in Txns, CommitDeletedTuple(t)
        PROVE SetsOf(u)'
    BY <2>6 DEF Latches, LatchOf, CommitDeletedTuple, CommitTuple
  <2>7. ASSUME NEW t \in Txns, SetBeginCommitId(t) \/ SetEndCommitId(t)
        PROVE SetsOf(u)'
    BY <2>7 DEF SetBeginCommitId, SetEndCommitId
  <2>8. ASSUME NEW t \in Txns, AbortInsertedTuple(t) \/ AbortDeletedTuple(t)
        PROVE SetsOf(u)'
    <3>1. PICK s \in todo[t] : todo' = [todo EXCEPT ![t] = @ \ {s}]
      BY <2>8, Zenon DEF AbortInsertedTuple, AbortDeletedTuple
    <3>2. UNCHANGED <<deleted_tuples, pc, slot>>
      BY <2>8, Zenon DEF AbortInsertedTuple, AbortDeletedTuple
    <3> QED
      BY <3>1, <3>2
  <2>9. CASE UNCHANGED <<setVars, pc, slot, todo>>
    BY <2>9
  <2> QED
    BY <2>1, <2>2, <2>3, <2>4, <2>5, <2>6, <2>7, <2>8, <2>9, <1>1, Cases, ZenonT(60) DEF Publish, vars
<1> QED
  BY <1>1, <1>2, NoInsert

(* A slot is inserted into by one transaction.                             *)
LEMMA OneInserterStep ==
  ASSUME TypeOK, Sets, [Next]_vars
  PROVE  OneInserter'
<1>1. ASSUME NEW t \in Txns, RecordInsert(t) \/ InsertRejected(t)
      PROVE OneInserter'
  <2>1. PICK n : n = next_tuple_slot
    OBVIOUS
  <2> QED
    BY <1>1, <2>1, InsertEffect DEF Sets, OneInserter
<1>2. CASE UNCHANGED inserted_tuples
  BY <1>2 DEF Sets, OneInserter
<1> QED
  BY <1>1, <1>2, NoInsert

(* Unused slots stay as they are until they are used.                      *)
LEMMA UnusedStep ==
  ASSUME TypeOK, Sets, Latches, [Next]_vars
  PROVE  Unused'
<1> USE TileGroupAssumption, SlotFacts
<1> SUFFICES ASSUME NEW s \in Slots
             PROVE /\ s >= next_tuple_slot' =>
                        txn_id'[s] = INVALID_TXN_ID /\ begin_cid'[s] = MAX_CID /\ end_cid'[s] = MAX_CID
                   /\ Rejected(s)' =>
                        txn_id'[s] # INITIAL_TXN_ID /\ begin_cid'[s] = MAX_CID /\ end_cid'[s] = MAX_CID
  BY DEF Unused
<1> DEFINE Goal == (s >= next_tuple_slot \/ Rejected(s)) =>
      txn_id'[s] # INITIAL_TXN_ID /\ begin_cid'[s] = MAX_CID /\ end_cid'[s] = MAX_CID
<1> DEFINE GoalNew == s >= next_tuple_slot => txn_id'[s] = INVALID_TXN_ID
<1>0. /\ s >= next_tuple_slot =>
           txn_id[s] = INVALID_TXN_ID /\ begin_cid[s] = MAX_CID /\ end_cid[s] = MAX_CID
      /\ Rejected(s) =>
           txn_id[s] # INITIAL_TXN_ID /\ begin_cid[s] = MAX_CID /\ end_cid[s] = MAX_CID
  BY Zenon DEF Sets, Unused
<1>1. ASSUME NEW t \in Txns, RecordInsert(t) \/ InsertRejected(t)
      PROVE /\ s >= next_tuple_slot' =>
                 txn_id'[s] = INVALID_TXN_ID /\ begin_cid'[s] = MAX_CID /\ end_cid'[s] = MAX_CID
            /\ Rejected(s)' =>
                 txn_id'[s] # INITIAL_TXN_ID /\ begin_cid'[s] = MAX_CID /\ end_cid'[s] = MAX_CID
  <2>1. PICK n : n = next_tuple_slot
    OBVIOUS
  <2> QED
    BY <1>0, <1>1, <2>1, InsertEffect DEF TypeOK
<1>2. ASSUME UNCHANGED <<next_tuple_slot, inserted_tuples>>, Goal, GoalNew
      PROVE /\ s >= next_tuple_slot' =>
                 txn_id'[s] = INVALID_TXN_ID /\ begin_cid'[s] = MAX_CID /\ end_cid'[s] = MAX_CID
            /\ Rejected(s)' =>
                 txn_id'[s] # INITIAL_TXN_ID /\ begin_cid'[s] = MAX_CID /\ end_cid'[s] = MAX_CID
  BY <1>2, RejectedSame, Zenon
<1>3. ASSUME NEW t \in Txns, LatchTupleSlot(t) \/ DeleteOwnInsert(t) \/ NotDeletable(t)
      PROVE Goal /\ GoalNew
  <2>1. slot[t] < next_tuple_slot
    BY <1>3, Zenon DEF LatchTupleSlot, DeleteOwnInsert, NotDeletable, Goto, Sets, SetsOf, Reading
  <2>2. NotDeletable(t) => ~Rejected(slot[t])
    BY DEF NotDeletable, Goto, Latches, HoldsLatch
  <2> QED
    BY <1>0, <1>3, <2>1, <2>2, SMTT(60) DEF TypeOK, LatchTupleSlot, DeleteOwnInsert, NotDeletable
<1>4. ASSUME NEW t \in Txns, CommitInsertedTuple(t) \/ CommitDeletedTuple(t)
                             \/ AbortInsertedTuple(t) \/ AbortDeletedTuple(t)
      PROVE Goal /\ GoalNew
  <2>1. PICK x \in todo[t] :
          txn_id' = [txn_id EXCEPT ![x] = IF @ = t THEN INITIAL_TXN_ID ELSE @]
            \/ txn_id' = [txn_id EXCEPT ![x] = INVALID_TXN_ID]
    BY <1>4, ZenonT(60) DEF CommitInsertedTuple, CommitDeletedTuple, CommitTuple, AbortInsertedTuple,
         AbortDeletedTuple, ReleaseTupleSlot
  <2>2. x < next_tuple_slot /\ (Rejected(x) => txn_id[x] # t)
    <3>1. pc[t] \in InsertLoop \cup DeleteLoop
      BY <1>4, Zenon DEF CommitInsertedTuple, CommitDeletedTuple, CommitTuple, AbortInsertedTuple,
           AbortDeletedTuple, InsertLoop, DeleteLoop
    <3>2. x \in inserted_tuples[t] \cup deleted_tuples[t]
      BY <3>1, <2>1 DEF Sets, SetsOf
    <3>3. x \in Slots /\ x < next_tuple_slot
      BY <3>2 DEF Sets, SetsOf, TypeOK
    <3>4. Rejected(x) => x \in deleted_tuples[t]
      BY <3>2, Zenon DEF Rejected
    <3> QED
      BY <3>3, <3>4 DEF Latches, LatchOf
  <2>3. UNCHANGED <<begin_cid, end_cid>>
    BY <1>4, Zenon DEF CommitInsertedTuple, CommitDeletedTuple, CommitTuple, AbortInsertedTuple,
         AbortDeletedTuple
  <2> QED
    BY <1>0, <2>1, <2>2, <2>3 DEF TypeOK
<1>5. ASSUME NEW t \in Txns, SetBeginCommitId(t) \/ SetEndCommitId(t)
      PROVE Goal /\ GoalNew
  <2>1. slot[t] < next_tuple_slot /\ ~Rejected(slot[t])
    BY <1>5 DEF SetBeginCommitId, SetEndCommitId, Goto, Sets, SetsOf, Rejected
  <2> QED
    BY <1>0, <1>5, <2>1, SMTT(60) DEF TypeOK, SetBeginCommitId, SetEndCommitId
<1>6. ASSUME UNCHANGED headerVars
      PROVE Goal /\ GoalNew
  BY <1>0, <1>6, SMTT(60) DEF headerVars
<1>7. ASSUME UNCHANGED <<next_tuple_slot, inserted_tuples>>
      PROVE \/ Goal /\ GoalNew
            \/ \E t \in Txns : RecordInsert(t) \/ InsertRejected(t)
  BY <1>3, <1>4, <1>5, <1>6, Cases, ZenonT(60)
     DEF Begin, ReadTransactionId, ReadBeginCommitId, ReadEndCommitId, ScanOn, DeleteFailed,
       RecordDelete, BeginCommitPhase, InsertsCommitted, Install, Publish, AbortTransaction,
       InsertsAborted, Aborted, vars
<1> QED
  BY <1>1, <1>2, <1>7, NoInsert

-----------------------------------------------------------------------------
(* A transaction that has its commit id changes its lists no more.         *)
LEMMA CommittedFixed ==
  ASSUME TypeOK, Order, [Next]_vars, NEW w \in Txns, commitId[w] # 0
  PROVE  inserted_tuples'[w] = inserted_tuples[w] /\ deleted_tuples'[w] = deleted_tuples[w]
<1> USE DEF TypeOK
<1>0. pc[w] \notin Running
  BY DEF Order
<1>1. ASSUME NEW t \in Txns, RecordInsert(t) \/ DeleteOwnInsert(t) \/ RecordDelete(t)
      PROVE inserted_tuples'[w] = inserted_tuples[w] /\ deleted_tuples'[w] = deleted_tuples[w]
  <2>1. pc[t] \in Running
    BY <1>1 DEF RecordInsert, InsertTuple, DeleteOwnInsert, RecordDelete, Goto, Running
  <2> QED
    BY <1>0, <1>1, <2>1 DEF RecordInsert, InsertTuple, DeleteOwnInsert, RecordDelete
<1>2. CASE UNCHANGED setVars
  BY <1>2, SMTT(60) DEF setVars
<1> QED
  BY <1>1, <1>2, Cases, ZenonT(60)
     DEF Begin, InsertRejected, InsertTuple, ReadTransactionId, ReadBeginCommitId,
       ReadEndCommitId, ScanOn, LatchTupleSlot, DeleteFailed, NotDeletable, BeginCommitPhase,
       CommitInsertedTuple, CommitDeletedTuple, CommitTuple, SetBeginCommitId,
       InsertsCommitted, SetEndCommitId, Install, Publish, AbortTransaction,
       AbortInsertedTuple, InsertsAborted, AbortDeletedTuple, Aborted, setVars, vars

(* A transaction keeps the snapshot that it began with.                    *)
LEMMA SnapshotFrame ==
  ASSUME TypeOK, [Next]_vars, NEW t \in Txns, pc[t] # "idle"
  PROVE  snapshot'[t] = snapshot[t]
<1>1. ASSUME NEW u \in Txns, Begin(u)
      PROVE snapshot'[t] = snapshot[t]
  BY <1>1 DEF Begin, Goto, CO!Begin, TypeOK
<1>2. CASE UNCHANGED snapshot
  BY <1>2
<1> QED
  BY <1>1, <1>2, Cases, ZenonT(60)
     DEF RecordInsert, InsertRejected, InsertTuple, ReadTransactionId, ReadBeginCommitId,
       ReadEndCommitId, ScanOn, LatchTupleSlot, DeleteOwnInsert, DeleteFailed, RecordDelete,
       NotDeletable, BeginCommitPhase, CommitInsertedTuple, CommitDeletedTuple, CommitTuple,
       SetBeginCommitId, InsertsCommitted, SetEndCommitId, Install, Publish, AbortTransaction,
       AbortInsertedTuple, InsertsAborted, AbortDeletedTuple, Aborted, coVars, vars,
       CO!GetCommitId, CO!Install, CO!Publish, CO!Abort

(* The transactions in the snapshot of a running transaction stay the      *)
(* same: commit ids given out later lie beyond it.                         *)
LEMMA SnapshotStable ==
  ASSUME TypeOK, Order, [Next]_vars, NEW t \in Txns, pc[t] # "idle"
  PROVE  \A w \in Txns : InSnapshot(w, t)' <=> InSnapshot(w, t)
<1> USE DEF TypeOK, InSnapshot, Committing
<1>1. ASSUME NEW u \in Txns, Begin(u)
      PROVE \A w \in Txns : InSnapshot(w, t)' <=> InSnapshot(w, t)
  BY <1>1 DEF Begin, Goto, CO!Begin
<1>2. ASSUME NEW u \in Txns, BeginCommitPhase(u)
      PROVE \A w \in Txns : InSnapshot(w, t)' <=> InSnapshot(w, t)
  <2>1. /\ commitId' = [commitId EXCEPT ![u] = lastId + 1] /\ snapshot' = snapshot
        /\ phase[u] = "running"
    BY <1>2 DEF BeginCommitPhase, CO!GetCommitId
  <2>2. commitId[u] = 0 /\ snapshot[t] < lastId + 1
    BY <2>1 DEF Order
  <2> QED
    BY <2>1, <2>2
<1>3. CASE UNCHANGED <<commitId, snapshot>>
  BY <1>3
<1> QED
  BY <1>1, <1>2, <1>3, Cases, ZenonT(60)
     DEF RecordInsert, InsertRejected, InsertTuple, ReadTransactionId, ReadBeginCommitId,
       ReadEndCommitId, ScanOn, LatchTupleSlot, DeleteOwnInsert, DeleteFailed, RecordDelete,
       NotDeletable, CommitInsertedTuple, CommitDeletedTuple, CommitTuple, SetBeginCommitId,
       InsertsCommitted, SetEndCommitId, Install, Publish, AbortTransaction,
       AbortInsertedTuple, InsertsAborted, AbortDeletedTuple, Aborted, coVars, vars,
       CO!Install, CO!Publish, CO!Abort

(* So do the inserts and the deletes in it.                                *)
LEMMA SawStable ==
  ASSUME TypeOK, Order, [Next]_vars, NEW t \in Txns, pc[t] # "idle", NEW s
  PROVE  (SawInsert(t, s)' <=> SawInsert(t, s)) /\ (SawDelete(t, s)' <=> SawDelete(t, s))
<1>1. \A w \in Txns : InSnapshot(w, t)' <=> InSnapshot(w, t)
  BY SnapshotStable
<1>2. \A w \in Txns : InSnapshot(w, t) =>
        inserted_tuples'[w] = inserted_tuples[w] /\ deleted_tuples'[w] = deleted_tuples[w]
  BY CommittedFixed, SMTT(60) DEF InSnapshot, Committing
<1> QED
  BY <1>1, <1>2, ZenonT(60) DEF SawInsert, SawDelete

(* Only GetCommitId gives out commit ids.                                  *)
LEMMA CommitIdFrame ==
  ASSUME [Next]_vars
  PROVE  (\E t \in Txns : BeginCommitPhase(t)) \/ UNCHANGED commitId
  BY Cases, ZenonT(60) DEF Begin, RecordInsert, InsertRejected, InsertTuple, ReadTransactionId,
       ReadBeginCommitId, ReadEndCommitId, ScanOn, LatchTupleSlot, DeleteOwnInsert,
       DeleteFailed, RecordDelete, NotDeletable, CommitInsertedTuple, CommitDeletedTuple,
       CommitTuple, SetBeginCommitId, InsertsCommitted, SetEndCommitId, Install, Publish,
       AbortTransaction, AbortInsertedTuple, InsertsAborted, AbortDeletedTuple, Aborted,
       CO!Begin, CO!Install, CO!Publish, CO!Abort, coVars, vars

(* Only SetEndCommitId and inserts write end commit ids.                   *)
LEMMA EndFrame ==
  ASSUME [Next]_vars
  PROVE  \/ \E t \in Txns : SetEndCommitId(t) \/ RecordInsert(t) \/ InsertRejected(t)
         \/ UNCHANGED end_cid
  BY Cases, ZenonT(60) DEF Begin, ReadTransactionId, ReadBeginCommitId, ReadEndCommitId, ScanOn,
       LatchTupleSlot, DeleteOwnInsert, DeleteFailed, RecordDelete, NotDeletable,
       BeginCommitPhase, CommitInsertedTuple, CommitDeletedTuple, CommitTuple,
       SetBeginCommitId, InsertsCommitted, Install, Publish, AbortTransaction,
       AbortInsertedTuple, InsertsAborted, AbortDeletedTuple, Aborted, headerVars, vars

(* What a reader that finds a tuple visible and not its own has seen.      *)
LEMMA VisibleSaw ==
  ASSUME Reads, NEW t \in Txns, pc[t] = "decide", IsVisible(t), txn_id[slot[t]] # t, TypeOK
  PROVE  SawInsert(t, slot[t])
<1>1. read_txn_id[t] # t /\ (read_begin_cid[t] <= snapshot[t] <=> SawInsert(t, slot[t]))
  BY Zenon DEF Reads, Reading
<1>2. snapshot[t] >= read_begin_cid[t]
  BY <1>1 DEF IsVisible
<1> QED
  BY <1>1, <1>2 DEF TypeOK

(* Deletes were of tuples that the deleter saw; end commit ids are those   *)
(* of deleters.                                                            *)
LEMMA DeletesStep ==
  ASSUME IInv, [Next]_vars
  PROVE  Deletes'
<1> USE TileGroupAssumption, SlotFacts DEF IInv
<1>1. ASSUME NEW t \in Txns, pc'[t] = "latched"
      PROVE SawInsert(t, slot[t])'
  <2>1. ASSUME LatchTupleSlot(t)
        PROVE SawInsert(t, slot[t])
    BY <2>1, VisibleSaw DEF LatchTupleSlot, Goto
  <2>2. slot'[t] = slot[t] /\ (LatchTupleSlot(t) \/ pc[t] = "latched")
    BY <1>1, LatchedSince
  <2>3. PICK s : s = slot[t]
    BY Zenon
  <2>4. SawInsert(t, s) /\ slot'[t] = s /\ pc[t] # "idle"
    BY <2>1, <2>2, <2>3, Zenon DEF Deletes, LatchTupleSlot, Goto
  <2>5. SawInsert(t, s)'
    BY <2>4, SawStable
  <2> QED
    BY <2>4, <2>5
<1>2. ASSUME NEW t \in Txns, NEW s \in deleted_tuples'[t], s \notin inserted_tuples'[t], ~Rejected(s)'
      PROVE SawInsert(t, s)'
  <2>1. CASE s \in deleted_tuples[t]
    <3>1. s \in Slots
      BY <2>1 DEF TypeOK
    <3>2. s \notin inserted_tuples[t] /\ ~Rejected(s)
      <4>1. ASSUME NEW u \in Txns, RecordInsert(u) \/ InsertRejected(u)
            PROVE s \notin inserted_tuples[t] /\ ~Rejected(s)
        <5>1. PICK n : n = next_tuple_slot
          BY Zenon
        <5>2. n \notin deleted_tuples[t] /\ s # n
          BY <4>1, <5>1, <2>1, InsertEffect, Zenon
        <5>3. \A x \in Slots : x # n =>
                 /\ x \in inserted_tuples'[u] <=> x \in inserted_tuples[u]
                 /\ Rejected(x)' <=> Rejected(x)
          BY <4>1, <5>1, InsertEffect, Zenon
        <5>4. t # u => inserted_tuples'[t] = inserted_tuples[t]
          BY <4>1, <5>1, InsertEffect
        <5> QED
          BY <1>2, <3>1, <5>2, <5>3, <5>4
      <4>2. CASE UNCHANGED <<next_tuple_slot, inserted_tuples>>
        BY <1>2, <4>2, RejectedSame, Zenon
      <4> QED
        BY <4>1, <4>2, NoInsert
    <3>3. SawInsert(t, s)
      BY <2>1, <3>2, Zenon DEF Deletes
    <3>4. pc[t] # "idle"
      BY <3>3 DEF SawInsert, InSnapshot, Committing, Order, TypeOK
    <3> QED
      BY <3>3, <3>4, SawStable
  <2>2. CASE s \notin deleted_tuples[t]
    <3>1. PICK x : x = slot[t]
      BY Zenon
    <3>2. s = x /\ (DeleteOwnInsert(t) \/ RecordDelete(t))
      <4>1. PICK v \in Txns : DeleteOwnInsert(v) \/ RecordDelete(v)
        BY <1>2, <2>2, NoDelete, Zenon
      <4>2. deleted_tuples' = [deleted_tuples EXCEPT ![v] = @ \cup {slot[v]}]
        BY <4>1, Zenon DEF DeleteOwnInsert, RecordDelete
      <4>3. v = t /\ s = slot[t]
        BY <1>2, <2>2, <4>2 DEF TypeOK, TypeSets
      <4> QED
        BY <3>1, <4>1, <4>3, Zenon
    <3>3. UNCHANGED <<next_tuple_slot, inserted_tuples>>
      BY <3>2, ZenonT(60) DEF DeleteOwnInsert, RecordDelete, headerVars
    <3>4. s \notin inserted_tuples[t] /\ ~Rejected(s)
      BY <1>2, <3>3, RejectedSame, ZenonT(60)
    <3>5. CASE RecordDelete(t)
      <4>1. SawInsert(t, s) /\ pc[t] # "idle"
        BY <3>1, <3>2, <3>5, SMTT(60) DEF Deletes, RecordDelete, Goto
      <4> QED
        BY <4>1, SawStable, Zenon
    <3>6. ~DeleteOwnInsert(t)
      <4> SUFFICES ASSUME DeleteOwnInsert(t) PROVE FALSE
        BY Zenon
      <4>1. txn_id[s] = t /\ pc[t] = "decide" /\ s \in Slots
        BY <3>1, <3>2, SMTT(60) DEF DeleteOwnInsert, Goto, Sets, SetsOf, Reading, TypeOK, NoSlot
      <4> QED
        BY <4>1, <3>4, <2>2, ZenonT(60) DEF Latches, LatchOf, HoldsInsert, HoldsDelete, HoldsLatch
    <3> QED
      BY <3>2, <3>5, <3>6
  <2> QED
    BY <2>1, <2>2
<1>3. ASSUME NEW s \in Slots, end_cid'[s] # MAX_CID
      PROVE \E d \in Txns : /\ s \in deleted_tuples'[d] /\ s \notin inserted_tuples'[d]
                            /\ commitId'[d] # 0 /\ end_cid'[s] = commitId'[d]
  <2>1. ASSUME NEW d \in Txns, commitId[d] # 0
        PROVE /\ inserted_tuples'[d] = inserted_tuples[d] /\ deleted_tuples'[d] = deleted_tuples[d]
              /\ commitId'[d] = commitId[d]
    <3>1. commitId'[d] = commitId[d]
      <4>1. ASSUME NEW u \in Txns, BeginCommitPhase(u)
            PROVE commitId'[d] = commitId[d]
        BY <4>1, <2>1, Zenon DEF BeginCommitPhase, CO!GetCommitId, TypeOK, Order
      <4>2. CASE UNCHANGED commitId
        BY <4>2
      <4> QED
        BY <4>1, <4>2, CommitIdFrame, Zenon
    <3> QED
      BY <2>1, <3>1, CommittedFixed
  <2>2. CASE end_cid'[s] = end_cid[s]
    <3>1. PICK d \in Txns : /\ s \in deleted_tuples[d] /\ s \notin inserted_tuples[d]
                            /\ commitId[d] # 0 /\ end_cid[s] = commitId[d]
      BY <1>3, <2>2 DEF Deletes
    <3> QED
      BY <2>1, <2>2, <3>1, ZenonT(60)
  <2>3. CASE end_cid'[s] # end_cid[s]
    <3>1. PICK d \in Txns : SetEndCommitId(d) \/ RecordInsert(d) \/ InsertRejected(d)
      BY <2>3, EndFrame, Zenon
    <3>2. ~(RecordInsert(d) \/ InsertRejected(d))
      <4> SUFFICES ASSUME RecordInsert(d) \/ InsertRejected(d) PROVE FALSE
        OBVIOUS
      <4>1. PICK n : n = next_tuple_slot
        BY Zenon
      <4> QED
        BY <4>1, <1>3, <2>3, InsertEffect
    <3>3. /\ pc[d] = "set_end" /\ end_cid' = [end_cid EXCEPT ![slot[d]] = commitId[d]]
          /\ UNCHANGED <<commitId, inserted_tuples, deleted_tuples>>
      BY <3>1, <3>2, Zenon DEF SetEndCommitId, Goto, coVars, setVars
    <3>4. s = slot[d] /\ end_cid'[s] = commitId[d]
      BY <2>3, <3>3, Zenon DEF TypeOK
    <3>5. s \in deleted_tuples[d] /\ s \notin inserted_tuples[d] /\ commitId[d] # 0
      BY <3>3, <3>4, SMTT(60) DEF Sets, SetsOf, Order
    <3> QED
      BY <3>3, <3>4, <3>5
  <2> QED
    BY <2>2, <2>3
<1> QED
  BY <1>1, <1>2, <1>3, ZenonT(60) DEF Deletes
(* Begin commit ids are those of the inserters.                            *)
BeginOf(w, s) ==
  /\ begin_cid[s] = MAX_CID \/ (commitId[w] # 0 /\ begin_cid[s] = commitId[w])
  /\ s \in deleted_tuples[w] => begin_cid[s] = MAX_CID
  /\ s \notin deleted_tuples[w] /\ commitId[w] # 0 /\ ~BeginPending(w, s) =>
       begin_cid[s] = commitId[w]

(* Every step keeps them so.                                               *)
LEMMA BeginsStep ==
  ASSUME TypeOK, Order, Sets, Latches, Begins, [Next]_vars
  PROVE  Begins'
<1> USE TileGroupAssumption, SlotFacts DEF TypeOK, Goto
<1> SUFFICES ASSUME NEW w \in Txns, NEW s \in inserted_tuples'[w]
             PROVE BeginOf(w, s)'
  BY ZenonT(60) DEF Begins, BeginOf
<1>0. s \in inserted_tuples[w] => BeginOf(w, s)
  BY Zenon DEF Begins, BeginOf
<1>a. s \in Slots
  BY TypeStep, Zenon
<1>1. ASSUME NEW t \in Txns, RecordInsert(t) \/ InsertRejected(t)
      PROVE BeginOf(w, s)'
  <2>1. PICK n : n = next_tuple_slot
    BY Zenon
  <2>2. /\ UNCHANGED <<commitId, deleted_tuples, pc, todo, slot>>
        /\ n \notin deleted_tuples[w] /\ pc[t] = "running" /\ begin_cid'[n] = MAX_CID
        /\ s # n => s \in inserted_tuples[w] /\ begin_cid'[s] = begin_cid[s]
        /\ s = n => w = t
    <3> HIDE DEF TypeOK
    <3> QED
      BY <1>1, <1>a, <2>1, InsertEffect, SMTT(60) DEF coVars
  <2>3. commitId[t] = 0
    BY <2>2, Zenon DEF Order, Running
  <2> QED
    BY <1>0, <2>2, <2>3, Zenon DEF BeginOf, BeginPending
<1>2. ASSUME UNCHANGED inserted_tuples
      PROVE s \in inserted_tuples[w] /\ BeginOf(w, s)
  BY <1>2, <1>0
<1>3. ASSUME NEW t \in Txns, SetBeginCommitId(t)
      PROVE BeginOf(w, s)'
  <2>1. /\ pc[t] = "set_begin" /\ pc' = [pc EXCEPT ![t] = "commit_inserts"]
        /\ begin_cid' = [begin_cid EXCEPT ![slot[t]] = commitId[t]]
        /\ slot' = [slot EXCEPT ![t] = NoSlot]
        /\ UNCHANGED <<commitId, inserted_tuples, deleted_tuples, todo>>
    BY <1>3, Zenon DEF SetBeginCommitId, coVars, setVars
  <2>2. slot[t] \in inserted_tuples[t] /\ slot[t] \notin deleted_tuples[t] /\ commitId[t] # 0
    BY <2>1, Zenon DEF Sets, SetsOf, Order
  <2>3. CASE s = slot[t]
    <3>1. w = t
      BY <2>1, <2>2, <2>3, <1>a, Zenon DEF Sets, OneInserter
    <3> QED
      BY <2>1, <2>2, <2>3, <3>1, <1>a, Zenon DEF BeginOf
  <2>4. CASE s # slot[t]
    <3>1. begin_cid'[s] = begin_cid[s] /\ BeginOf(w, s)
      BY <2>1, <2>4, <1>2, Zenon
    <3>2. BeginPending(w, s) => BeginPending(w, s)'
      BY <2>1, <2>4, Zenon DEF BeginPending
    <3> QED
      BY <2>1, <3>1, <3>2, Zenon DEF BeginOf
  <2> QED
    BY <2>3, <2>4, Zenon
<1>4. ASSUME NEW t \in Txns, BeginCommitPhase(t)
      PROVE BeginOf(w, s)'
  <2>1. /\ pc[t] = "running" /\ pc' = [pc EXCEPT ![t] = "commit_inserts"]
        /\ commitId' = [commitId EXCEPT ![t] = lastId + 1]
        /\ todo' = [todo EXCEPT ![t] = inserted_tuples[t]]
        /\ UNCHANGED <<begin_cid, inserted_tuples, deleted_tuples, slot>>
    BY <1>4, Zenon DEF BeginCommitPhase, CO!GetCommitId, headerVars, setVars
  <2>2. commitId[t] = 0 /\ BeginOf(w, s) /\ s \in inserted_tuples[w]
    BY <2>1, <1>2, Zenon DEF Order, Running
  <2>3. CASE w = t
    <3>1. BeginPending(w, s)'
      BY <2>1, <2>2, <2>3, Zenon DEF BeginPending
    <3> QED
      BY <2>1, <2>2, <2>3, <3>1, Zenon DEF BeginOf
  <2>4. CASE w # t
    BY <2>1, <2>2, <2>4, Zenon DEF BeginOf, BeginPending
  <2> QED
    BY <2>3, <2>4, Zenon
<1>5. ASSUME NEW t \in Txns, CommitInsertedTuple(t)
      PROVE BeginOf(w, s)'
  <2>1. PICK x \in todo[t] :
          /\ todo' = [todo EXCEPT ![t] = @ \ {x}]
          /\ \/ /\ txn_id[x] = t /\ pc' = [pc EXCEPT ![t] = "set_begin"]
                /\ slot' = [slot EXCEPT ![t] = x]
             \/ txn_id[x] # t /\ UNCHANGED <<pc, slot>>
    BY <1>5, ZenonT(60) DEF CommitInsertedTuple, CommitTuple
  <2>2. pc[t] = "commit_inserts" /\ UNCHANGED <<commitId, begin_cid, inserted_tuples, deleted_tuples>>
    BY <1>5, Zenon DEF CommitInsertedTuple, CommitTuple, coVars, setVars
  <2>3. x \in inserted_tuples[t] /\ (txn_id[x] # t => x \in deleted_tuples[t])
    BY <2>1, <2>2, Zenon DEF Sets, SetsOf, InsertLoop, Latches, LatchOf, HoldsInsert
  <2>4. s \in inserted_tuples[w] /\ BeginOf(w, s)
    BY <1>2, <2>2, Zenon
  <2>5. s \notin deleted_tuples[w] /\ BeginPending(w, s) => BeginPending(w, s)'
    BY <2>1, <2>2, <2>3, SMTT(60) DEF BeginPending
  <2> QED
    BY <2>2, <2>4, <2>5, SMTT(60) DEF BeginOf
<1>6. ASSUME NEW t \in Txns, DeleteOwnInsert(t) \/ RecordDelete(t)
      PROVE BeginOf(w, s)'
  <2>1. /\ pc[t] \in Running /\ pc' = [pc EXCEPT ![t] = "running"]
        /\ \A u \in Txns : u # t => deleted_tuples'[u] = deleted_tuples[u]
        /\ slot' = [slot EXCEPT ![t] = NoSlot]
        /\ UNCHANGED <<commitId, begin_cid, inserted_tuples, todo>>
    BY <1>6, SMTT(60) DEF DeleteOwnInsert, RecordDelete, ForgetRead, Running, coVars, headerVars
  <2>2. s \in inserted_tuples[w] /\ BeginOf(w, s) /\ commitId[t] = 0
    BY <1>2, <2>1, ZenonT(60) DEF Order
  <2> QED
    BY <2>1, <2>2, Zenon DEF BeginOf, BeginPending
<1>7. ASSUME NEW t \in Txns,
             \/ Begin(t) \/ ReadTransactionId(t) \/ ReadBeginCommitId(t) \/ ReadEndCommitId(t)
             \/ ScanOn(t) \/ LatchTupleSlot(t) \/ DeleteFailed(t) \/ NotDeletable(t)
             \/ AbortTransaction(t)
      PROVE BeginOf(w, s)'
  <2>1. /\ pc[t] \in Running \cup {"idle"} /\ \A u \in Txns : u # t => pc'[u] = pc[u] /\ slot'[u] = slot[u]
        /\ \A u \in Txns : u # t => todo'[u] = todo[u]
        /\ UNCHANGED <<commitId, begin_cid, inserted_tuples, deleted_tuples>>
    BY <1>7, ZenonT(60) DEF Begin, ReadTransactionId, ReadBeginCommitId, ReadEndCommitId, ScanOn,
         LatchTupleSlot, DeleteFailed, NotDeletable, AbortTransaction, ForgetRead, Running,
         CO!Begin, CO!Abort, coVars, headerVars, setVars
  <2>2. s \in inserted_tuples[w] /\ BeginOf(w, s) /\ commitId[t] = 0
    BY <1>2, <2>1, ZenonT(60) DEF Order
  <2> HIDE DEF TypeOK, Goto
  <2>3. CASE w = t
    BY <2>1, <2>2, <2>3, Zenon DEF BeginOf
  <2>4. CASE w # t
    BY <2>1, <2>2, <2>4, SMTT(60) DEF BeginOf, BeginPending
  <2> QED
    BY <2>3, <2>4
<1>8. ASSUME NEW t \in Txns,
             \/ InsertsCommitted(t) \/ CommitDeletedTuple(t) \/ SetEndCommitId(t) \/ Install(t)
             \/ AbortInsertedTuple(t) \/ InsertsAborted(t) \/ AbortDeletedTuple(t) \/ Aborted(t)
      PROVE BeginOf(w, s)'
  <2>1. /\ ~BeginPending(t, s)
        /\ \A u \in Txns : u # t => pc'[u] = pc[u] /\ slot'[u] = slot[u] /\ todo'[u] = todo[u]
        /\ UNCHANGED <<commitId, begin_cid, inserted_tuples, deleted_tuples>>
    BY <1>8, ZenonT(60) DEF InsertsCommitted, CommitDeletedTuple, CommitTuple, SetEndCommitId, Install,
         AbortInsertedTuple, InsertsAborted, AbortDeletedTuple, Aborted, BeginPending,
         CO!Install, coVars, headerVars, setVars
  <2>2. s \in inserted_tuples[w] /\ BeginOf(w, s)
    BY <1>2, <2>1, ZenonT(60)
  <2>3. CASE w = t
    BY <2>1, <2>2, <2>3, ZenonT(60) DEF BeginOf
  <2>4. CASE w # t
    BY <2>1, <2>2, <2>4 DEF BeginOf, BeginPending
  <2> QED
    BY <2>3, <2>4
<1>9. CASE UNCHANGED <<commitId, begin_cid, setVars, pc, slot, todo>>
  BY <1>9, <1>2 DEF setVars, BeginOf, BeginPending
<1> QED
  BY <1>1, <1>3, <1>4, <1>5, <1>6, <1>7, <1>8, <1>9, Cases, ZenonT(60)
     DEF Publish, CO!Publish, vars, coVars, headerVars

(* Lists of deletes grow and commit ids stay: two committed deleters of a  *)
(* tuple are there for good.                                               *)
LEMMA OneDeleterBefore ==
  ASSUME TypeOK, Order, [Next]_vars, OneDeleter'
  PROVE  OneDeleter
<1>1. ASSUME NEW t \in Txns, commitId[t] # 0
      PROVE commitId'[t] # 0 /\ deleted_tuples'[t] = deleted_tuples[t]
  <2>1. ASSUME NEW u \in Txns, BeginCommitPhase(u)
        PROVE commitId'[t] # 0
    BY <1>1, <2>1, SMTT(60) DEF BeginCommitPhase, CO!GetCommitId, TypeOK
  <2> QED
    BY <1>1, <2>1, CommitIdFrame, CommittedFixed, Zenon
<1> QED
  BY <1>1 DEF OneDeleter, Committing

(* The end commit id of a tuple is that of its committed deleter.          *)
EndOf(d, s) ==
  s \notin inserted_tuples[d] /\ ~Rejected(s) /\ commitId[d] # 0 /\ ~EndPending(d, s) =>
    end_cid[s] = commitId[d]

(* Every step keeps it so, as long as no tuple was deleted twice.          *)
LEMMA EndsStep ==
  ASSUME TypeOK, Order, Sets, Latches, Ends, [Next]_vars, OneDeleter'
  PROVE  Ends'
<1> USE TileGroupAssumption, SlotFacts DEF TypeOK, Goto
<1> SUFFICES ASSUME NEW d \in Txns, NEW s \in deleted_tuples'[d]
             PROVE EndOf(d, s)'
  BY ZenonT(60) DEF Ends, EndOf
<1>0. s \in deleted_tuples[d] => EndOf(d, s)
  BY ZenonT(60) DEF Ends, EndOf
<1>a. s \in Slots
  BY TypeStep, Zenon
<1>1. ASSUME NEW t \in Txns, RecordInsert(t) \/ InsertRejected(t)
      PROVE EndOf(d, s)'
  <2>1. PICK n : n = next_tuple_slot
    BY Zenon
  <2>2. /\ UNCHANGED <<commitId, deleted_tuples, pc, todo, slot>>
        /\ n \notin deleted_tuples[d]
        /\ s # n => /\ s \in inserted_tuples'[d] <=> s \in inserted_tuples[d]
                    /\ Rejected(s)' <=> Rejected(s)
                    /\ end_cid'[s] = end_cid[s]
    <3> HIDE DEF TypeOK
    <3> QED
      BY <1>1, <1>a, <2>1, InsertEffect, Zenon DEF coVars
  <2> QED
    BY <1>0, <2>2, Zenon DEF EndOf, EndPending
<1>2. ASSUME UNCHANGED <<next_tuple_slot, inserted_tuples>>
      PROVE Rejected(s)' <=> Rejected(s)
  BY <1>2, RejectedSame, Zenon
<1>3. ASSUME NEW t \in Txns, SetEndCommitId(t)
      PROVE EndOf(d, s)'
  <2>1. /\ pc[t] = "set_end" /\ pc' = [pc EXCEPT ![t] = "commit_deletes"]
        /\ end_cid' = [end_cid EXCEPT ![slot[t]] = commitId[t]]
        /\ slot' = [slot EXCEPT ![t] = NoSlot]
        /\ UNCHANGED <<commitId, next_tuple_slot, inserted_tuples, deleted_tuples, todo>>
    BY <1>3, Zenon DEF SetEndCommitId, coVars, setVars
  <2>2. slot[t] \in deleted_tuples[t] /\ commitId[t] # 0
    BY <2>1, Zenon DEF Sets, SetsOf, Order
  <2>3. CASE s = slot[t]
    <3>1. commitId[d] # 0 => d = t
      BY <2>1, <2>2, <2>3, <1>a, Zenon DEF OneDeleter, Committing
    <3> QED
      BY <2>1, <2>3, <3>1, <1>a, Zenon DEF EndOf
  <2>4. CASE s # slot[t]
    <3>1. end_cid'[s] = end_cid[s] /\ EndOf(d, s)
      BY <2>1, <2>4, <1>0, Zenon
    <3>2. EndPending(d, s) => EndPending(d, s)'
      BY <2>1, <2>4, Zenon DEF EndPending
    <3> QED
      BY <2>1, <3>1, <3>2, <1>2, Zenon DEF EndOf
  <2> QED
    BY <2>3, <2>4, Zenon
<1>4. ASSUME NEW t \in Txns, BeginCommitPhase(t)
      PROVE EndOf(d, s)'
  <2>1. /\ pc' = [pc EXCEPT ![t] = "commit_inserts"]
        /\ commitId' = [commitId EXCEPT ![t] = lastId + 1]
        /\ todo' = [todo EXCEPT ![t] = inserted_tuples[t]]
        /\ UNCHANGED <<end_cid, next_tuple_slot, inserted_tuples, deleted_tuples, slot>>
    BY <1>4, Zenon DEF BeginCommitPhase, CO!GetCommitId, headerVars, setVars
  <2>2. CASE d = t
    BY <2>1, <2>2, Zenon DEF EndOf, EndPending
  <2>3. CASE d # t
    BY <2>1, <2>3, <1>0, <1>2, Zenon DEF EndOf, EndPending
  <2> QED
    BY <2>2, <2>3, Zenon
<1>5. ASSUME NEW t \in Txns, CommitDeletedTuple(t)
      PROVE EndOf(d, s)'
  <2>1. PICK x \in todo[t] :
          /\ todo' = [todo EXCEPT ![t] = @ \ {x}]
          /\ \/ /\ txn_id[x] = t /\ pc' = [pc EXCEPT ![t] = "set_end"]
                /\ slot' = [slot EXCEPT ![t] = x]
             \/ txn_id[x] # t /\ UNCHANGED <<pc, slot>>
    BY <1>5, ZenonT(60) DEF CommitDeletedTuple, CommitTuple
  <2>2. /\ pc[t] = "commit_deletes"
        /\ UNCHANGED <<commitId, end_cid, next_tuple_slot, inserted_tuples, deleted_tuples>>
    BY <1>5 DEF CommitDeletedTuple, CommitTuple, coVars, setVars
  <2>3. x \in deleted_tuples[t] /\ (txn_id[x] # t => x \in inserted_tuples[t] \/ Rejected(x))
    BY <2>1, <2>2, ZenonT(60) DEF Sets, SetsOf, DeleteLoop, Latches, LatchOf, HoldsDelete
  <2>4. EndOf(d, s)
    BY <1>0, <2>2, Zenon
  <2>5. s \notin inserted_tuples[d] /\ ~Rejected(s) /\ EndPending(d, s) => EndPending(d, s)'
    BY <2>1, <2>2, <2>3, SMTT(60) DEF EndPending
  <2> QED
    BY <2>2, <2>4, <2>5, <1>2, SMTT(60) DEF EndOf
<1>6. ASSUME NEW t \in Txns, DeleteOwnInsert(t) \/ RecordDelete(t)
      PROVE EndOf(d, s)'
  <2>1. /\ pc[t] \in Running /\ pc' = [pc EXCEPT ![t] = "running"]
        /\ \A u \in Txns : u # t => deleted_tuples'[u] = deleted_tuples[u]
        /\ slot' = [slot EXCEPT ![t] = NoSlot]
        /\ UNCHANGED <<commitId, end_cid, next_tuple_slot, inserted_tuples, todo>>
    BY <1>6, Zenon DEF DeleteOwnInsert, RecordDelete, ForgetRead, Running, coVars, headerVars
  <2>2. commitId[t] = 0
    BY <2>1, Zenon DEF Order
  <2> QED
    BY <2>1, <2>2, <1>0, <1>2, Zenon DEF EndOf, EndPending
<1>7. ASSUME NEW t \in Txns,
             \/ Begin(t) \/ ReadTransactionId(t) \/ ReadBeginCommitId(t) \/ ReadEndCommitId(t)
             \/ ScanOn(t) \/ LatchTupleSlot(t) \/ DeleteFailed(t) \/ NotDeletable(t)
             \/ AbortTransaction(t)
      PROVE EndOf(d, s)'
  <2>1. /\ pc[t] \in Running \cup {"idle"} /\ \A u \in Txns : u # t => pc'[u] = pc[u] /\ slot'[u] = slot[u]
        /\ \A u \in Txns : u # t => todo'[u] = todo[u]
        /\ UNCHANGED <<commitId, end_cid, next_tuple_slot, inserted_tuples, deleted_tuples>>
    BY <1>7, ZenonT(60) DEF Begin, ReadTransactionId, ReadBeginCommitId, ReadEndCommitId, ScanOn,
         LatchTupleSlot, DeleteFailed, NotDeletable, AbortTransaction, ForgetRead, Running,
         CO!Begin, CO!Abort, coVars, headerVars, setVars
  <2>2. commitId[t] = 0
    BY <2>1, ZenonT(60) DEF Order
  <2> QED
    BY <2>1, <2>2, <1>0, <1>2, SMTT(60) DEF EndOf, EndPending
<1>8. ASSUME NEW t \in Txns,
             \/ CommitInsertedTuple(t) \/ SetBeginCommitId(t) \/ InsertsCommitted(t) \/ Install(t)
             \/ AbortInsertedTuple(t) \/ InsertsAborted(t) \/ AbortDeletedTuple(t) \/ Aborted(t)
      PROVE EndOf(d, s)'
  <2>1. /\ \A u \in Txns : u # t => pc'[u] = pc[u] /\ slot'[u] = slot[u] /\ todo'[u] = todo[u]
        /\ UNCHANGED <<commitId, end_cid, next_tuple_slot, inserted_tuples, deleted_tuples>>
    BY <1>8, ZenonT(60) DEF CommitInsertedTuple, CommitTuple, SetBeginCommitId, InsertsCommitted, Install,
         AbortInsertedTuple, InsertsAborted, AbortDeletedTuple, Aborted,
         CO!Install, coVars, headerVars, setVars
  <2>2. ~EndPending(t, s) \/ EndPending(t, s)' \/ s \notin deleted_tuples[t]
    BY <1>8, ZenonT(60) DEF CommitInsertedTuple, CommitTuple, SetBeginCommitId, InsertsCommitted, Install,
         AbortInsertedTuple, InsertsAborted, AbortDeletedTuple, Aborted, EndPending
  <2>3. CASE d = t
    BY <2>1, <2>2, <2>3, <1>0, <1>2, ZenonT(60) DEF EndOf
  <2>4. CASE d # t
    BY <2>1, <2>4, <1>0, <1>2, ZenonT(60) DEF EndOf, EndPending
  <2> QED
    BY <2>3, <2>4
<1>9. CASE UNCHANGED <<commitId, end_cid, next_tuple_slot, setVars, pc, slot, todo>>
  BY <1>9, <1>0, <1>2 DEF setVars, EndOf, EndPending
<1> QED
  BY <1>1, <1>3, <1>4, <1>5, <1>6, <1>7, <1>8, <1>9, Cases, ZenonT(60)
     DEF Publish, CO!Publish, vars, coVars, headerVars
=============================================================================
