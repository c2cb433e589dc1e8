------------------------------ MODULE DataTable ------------------------------
(***************************************************************************)
(* A table: storage/data_table.cpp, with the directory of tile groups of   *)
(* catalog/manager.cpp and the executors that insert and delete.           *)
(*                                                                         *)
(* A table is a vector of tile group ids, a directory from ids to tile     *)
(* group objects that all tables share, and indexes.  Threads insert and   *)
(* delete on behalf of transactions; a table grows when its last tile      *)
(* group is full; a tile group is rewritten in another layout by replacing *)
(* its object in the directory.                                            *)
(*                                                                         *)
(* Commit, abort and the visibility test are one step each here, their     *)
(* steps are those of TileGroup.  The indexes are B-Tree indexes, whose    *)
(* every operation holds the lock of the index.                            *)
(***************************************************************************)
EXTENDS Integers, Sequences, FiniteSets

CONSTANTS
  Txns,
  Tuples,               \* tuples: the key in each index, by position
  index_count,
  Unique,               \* the indexes that are primary or unique
  tuples_per_tilegroup,
  Loaded,               \* the tuple that the table holds at first
  Overlap,              \* may tile groups be transformed while transactions run?
  INVALID_TXN_ID, INITIAL_TXN_ID,
  MAX_CID,              \* the bound of commit ids, which none reaches
  MaxOps,               \* bound: operations of one transaction
  MaxTransforms,        \* bound: transformations
  MaxOid                \* bound: tile group ids

ASSUME DataTableAssumption ==
  /\ index_count \in Nat \ {0} /\ Unique \subseteq 1 .. index_count
  /\ tuples_per_tilegroup \in Nat \ {0}
  /\ Loaded \in Tuples /\ \A tuple \in Tuples : Len(tuple) = index_count
  /\ Overlap \in BOOLEAN
  /\ {INVALID_TXN_ID, INITIAL_TXN_ID} \cap Txns = {}
  /\ INVALID_TXN_ID # INITIAL_TXN_ID
  /\ IsFiniteSet(Txns) /\ MAX_CID \in Nat /\ Cardinality(Txns) + 1 < MAX_CID
  /\ MaxOps \in Nat
  /\ MaxTransforms \in Nat /\ MaxOid \in Nat

VARIABLES
  oid,              \* Manager::oid, the last one given out
  tile_groups,      \* the ids of the table's tile groups
  locator,          \* Manager::locator: the place in heap of each id's object
  heap,             \* the tile group objects
  index,            \* for each index its entries, a key and a location
  last_cid,         \* the last commit id
  pc,               \* where the thread of each transaction is
  frame,            \* the local variables of its call of InsertTuple, 0 when
                    \* not in use
  ops,              \* the operations it has begun
  snapshot,         \* Transaction::last_cid
  cid,              \* its commit id, or 0
  inserted_tuples, deleted_tuples,
  transform,        \* the call of TransformTileGroup
  crashed           \* has a null tile group been dereferenced?

txnVars == <<last_cid, ops, snapshot, cid, inserted_tuples, deleted_tuples>>
vars == <<oid, tile_groups, locator, heap, index, pc, frame, txnVars,
          transform, crashed>>

Slots == 0 .. tuples_per_tilegroup - 1

EmptySlot == [txn_id |-> INVALID_TXN_ID, begin |-> MAX_CID, end |-> MAX_CID]

NoTuple == <<>>

\* A tile group as TileGroupFactory makes it.
NewTileGroup(id) ==
  [id |-> id, next |-> 0, tuple |-> [s \in Slots |-> NoTuple],
   header |-> [s \in Slots |-> EmptySlot]]

\* A tile group once a tuple with header h has been put into slot s.
Fill(group, s, tuple, h) ==
  [id |-> group.id, next |-> s + 1, tuple |-> [group.tuple EXCEPT ![s] = tuple],
   header |-> [group.header EXCEPT ![s] = h]]

NoFrame == [tuple |-> NoTuple, offset |-> 0, storage |-> 0, group |-> 0,
            oid |-> 0, location |-> <<>>, itr |-> 0]

NoTransform == [phase |-> "idle", group |-> 0, copy |-> NewTileGroup(0), count |-> 0]

-----------------------------------------------------------------------------
(* The table once its constructor has added the first tile group and a     *)
(* transaction has inserted Loaded and committed with id 1.                *)
Init ==
  /\ oid = 1 /\ tile_groups = <<1>> /\ locator = <<1>>
  /\ heap = <<Fill(NewTileGroup(1), 0, Loaded,
                   [txn_id |-> INITIAL_TXN_ID, begin |-> 1, end |-> MAX_CID])>>
  /\ index = [i \in 1 .. index_count |-> {<<Loaded[i], <<1, 0>>>>}]
  /\ last_cid = 1
  /\ pc = [t \in Txns |-> "idle"]
  /\ frame = [t \in Txns |-> NoFrame]
  /\ ops = [t \in Txns |-> 0]
  /\ snapshot = [t \in Txns |-> 0]
  /\ cid = [t \in Txns |-> 0]
  /\ inserted_tuples = [t \in Txns |-> {}]
  /\ deleted_tuples = [t \in Txns |-> {}]
  /\ transform = NoTransform
  /\ crashed = FALSE

(* GetTileGroupById: the object that the directory has for an id.          *)
GetTileGroup(id) == heap[locator[id]]

(* TileGroupHeader::IsVisible, with the three words read at once.          *)
IsVisible(h, t) ==
  LET own == h.txn_id = t
      activated == snapshot[t] >= h.begin
      invalidated == snapshot[t] >= h.end
  IN h.txn_id # INVALID_TXN_ID /\ own # activated /\ ~invalidated

Header(location) == GetTileGroup(location[1]).header[location[2]]

(* The headers of some locations get new words, each in the object that    *)
(* the directory has.                                                      *)
UpdateHeaders(new) ==
  heap' = [g \in DOMAIN heap |->
            IF locator[heap[g].id] # g THEN heap[g]
            ELSE [heap[g] EXCEPT !.header = [s \in Slots |->
                   IF <<heap[g].id, s>> \in DOMAIN new THEN new[<<heap[g].id, s>>] ELSE @[s]]]]

Idle == \A t \in Txns : pc[t] \in {"idle", "done"}

Begin(t) ==
  /\ pc[t] = "idle"
  /\ Overlap \/ transform.phase = "idle"
  /\ pc' = [pc EXCEPT ![t] = "running"]
  /\ snapshot' = [snapshot EXCEPT ![t] = last_cid]
  /\ UNCHANGED <<oid, tile_groups, locator, heap, index, frame, last_cid, ops,
                 cid, inserted_tuples, deleted_tuples, transform, crashed>>

-----------------------------------------------------------------------------
(* DataTable::InsertTuple, called by the insert and update executors.      *)
InsertTuple(t) ==
  /\ pc[t] = "running" /\ ops[t] < MaxOps
  /\ \E tuple \in Tuples : frame' = [frame EXCEPT ![t] = [NoFrame EXCEPT !.tuple = tuple]]
  /\ pc' = [pc EXCEPT ![t] = "count"]
  /\ ops' = [ops EXCEPT ![t] = @ + 1]
  /\ UNCHANGED <<oid, tile_groups, locator, heap, index, last_cid, snapshot, cid,
                 inserted_tuples, deleted_tuples, transform, crashed>>

(* GetTupleSlot: the offset of the last tile group, under table_mutex.     *)
LastTileGroup(t) ==
  /\ pc[t] = "count"
  /\ frame' = [frame EXCEPT ![t].offset = Len(tile_groups) - 1]
  /\ pc' = [pc EXCEPT ![t] = "load"]
  /\ UNCHANGED <<oid, tile_groups, locator, heap, index, txnVars, transform, crashed>>

(* How many ids fit into the storage of a std::vector that has grown to    *)
(* n by push_back: libstdc++ doubles it.                                   *)
Capacity(n) == CHOOSE c \in {1, 2, 4, 8, 16, 32} : c >= n /\ c < 2 * n

(* GetTileGroup, outside table_mutex: tile_groups[offset] loads where the  *)
(* vector has its ids ...                                                  *)
LoadStorage(t) ==
  /\ pc[t] = "load"
  /\ frame' = [frame EXCEPT ![t].storage = Capacity(Len(tile_groups))]
  /\ pc' = [pc EXCEPT ![t] = "element"]
  /\ UNCHANGED <<oid, tile_groups, locator, heap, index, txnVars, transform, crashed>>

(* ... and then the id, which is looked up in the directory.  When a       *)
(* push_back has moved the vector between the two loads the second one     *)
(* reads freed memory: it yields any id that the directory has, or one     *)
(* that it has not, for which GetTileGroup returns null.                   *)
LoadElement(t) ==
  /\ pc[t] = "element"
  /\ \/ \E id \in IF frame[t].storage = Capacity(Len(tile_groups))
                    THEN {tile_groups[frame[t].offset + 1]}
                    ELSE DOMAIN locator :
          /\ frame' = [frame EXCEPT ![t].group = locator[id], ![t].offset = 0, ![t].storage = 0]
          /\ pc' = [pc EXCEPT ![t] = "claim"]
          /\ UNCHANGED crashed
     \/ /\ frame[t].storage # Capacity(Len(tile_groups))
        /\ crashed' = TRUE
        /\ UNCHANGED <<frame, pc>>
  /\ UNCHANGED <<oid, tile_groups, locator, heap, index, txnVars, transform>>

(* Faulty variant: the capacity of the tile group is not tested.           *)
FaultyTileGroupInsertTuple(t) ==
  LET g == frame[t].group
      s == heap[g].next IN
  /\ pc[t] = "claim"
  /\ heap' = [heap EXCEPT ![g] =
                Fill(heap[g], s, frame[t].tuple, [EmptySlot EXCEPT !.txn_id = t])]
  /\ frame' = [frame EXCEPT ![t].location = <<heap[g].id, s>>,
                            ![t].itr = index_count]
  /\ pc' = [pc EXCEPT ![t] = "check"]
  /\ UNCHANGED <<oid, tile_groups, locator, index, txnVars, transform, crashed>>

(* TileGroup::InsertTuple on the object at hand: claims the next slot and  *)
(* fills it in, if there is one.                                           *)
TileGroupInsertTuple(t) ==
  LET g == frame[t].group
      s == heap[g].next IN
  /\ pc[t] = "claim"
  /\ \/ /\ s < tuples_per_tilegroup
        /\ heap' = [heap EXCEPT ![g] =
                      Fill(heap[g], s, frame[t].tuple, [EmptySlot EXCEPT !.txn_id = t])]
        /\ frame' = [frame EXCEPT ![t].location = <<heap[g].id, s>>,
                                  ![t].group = 0, ![t].itr = index_count]
        /\ pc' = [pc EXCEPT ![t] = "check"]
     \/ /\ s = tuples_per_tilegroup
        /\ frame' = [frame EXCEPT ![t].group = 0]
        /\ pc' = [pc EXCEPT ![t] = "full"]
        /\ UNCHANGED heap
  /\ UNCHANGED <<oid, tile_groups, locator, index, txnVars, transform, crashed>>

(* AddDefaultTileGroup: makes a tile group with a new id ...               *)
GetTileGroupWithLayout(t) ==
  /\ pc[t] = "full" /\ oid < MaxOid
  /\ oid' = oid + 1
  /\ frame' = [frame EXCEPT ![t].oid = oid + 1]
  /\ pc' = [pc EXCEPT ![t] = "add"]
  /\ UNCHANGED <<tile_groups, locator, heap, index, txnVars, transform, crashed>>

LastIsFull ==
  LET last == GetTileGroup(tile_groups[Len(tile_groups)])
  IN last.next >= tuples_per_tilegroup

AddTileGroup(id) ==
  /\ tile_groups' = Append(tile_groups, id)
  /\ heap' = Append(heap, NewTileGroup(id))
  /\ locator' = [i \in DOMAIN locator \cup {id} |->
                   IF i = id THEN Len(heap) + 1 ELSE locator[i]]

(* Faulty variant: the tile group is added without a second look at the    *)
(* last one.                                                               *)
FaultyAddWithoutCheck(t) ==
  /\ pc[t] = "add"
  /\ AddTileGroup(frame[t].oid)
  /\ pc' = [pc EXCEPT ![t] = "count"]
  /\ UNCHANGED <<oid, index, frame, txnVars, transform, crashed>>

(* Faulty variant: <= for < when the last tile group is looked at, so that *)
(* a full one counts as one with a slot.                                   *)
FaultyAddNever(t) ==
  /\ pc[t] = "add"
  /\ pc' = [pc EXCEPT ![t] = "count"]
  /\ UNCHANGED <<oid, tile_groups, locator, heap, index, frame, txnVars,
                 transform, crashed>>

(* ... and, under table_mutex, adds it to the table and the directory if   *)
(* the last tile group still is full.  Either way GetTupleSlot goes round  *)
(* its loop again.                                                         *)
AddDefaultTileGroup(t) ==
  /\ pc[t] = "add"
  /\ \/ LastIsFull /\ AddTileGroup(frame[t].oid)
     \/ ~LastIsFull /\ UNCHANGED <<tile_groups, locator, heap>>
  /\ frame' = [frame EXCEPT ![t].oid = 0]
  /\ pc' = [pc EXCEPT ![t] = "count"]
  /\ UNCHANGED <<oid, index, txnVars, transform, crashed>>

-----------------------------------------------------------------------------
ScanKey(i, key) == {entry[2] : entry \in {e \in index[i] : e[1] = key}}

(* Faulty variant: only the oldest entry is looked at.                     *)
FaultyContainsVisibleEntry(locations, t) ==
  \E l \in locations :
    /\ \A other \in locations : l[1] < other[1] \/ (l[1] = other[1] /\ l[2] <= other[2])
    /\ IsVisible(Header(l), t)

ContainsVisibleEntry(locations, t) ==
  \E l \in locations : IsVisible(Header(l), t)

(* InsertInIndexes (A), one index: a visible entry with the key fails the  *)
(* transaction, and leaves the slot latched and unrecorded.  What is       *)
(* visible to a transaction does not change while it runs, so the scan and *)
(* the test are one step.                                                  *)
CheckIndex(t) ==
  LET i == frame[t].itr
      exist_visible == /\ i \in Unique
                       /\ ContainsVisibleEntry(ScanKey(i, frame[t].tuple[i]), t) IN
  /\ pc[t] = "check"
  /\ \/ /\ exist_visible
        /\ pc' = [pc EXCEPT ![t] = "failed"]
        /\ frame' = [frame EXCEPT ![t] = NoFrame]
     \/ /\ ~exist_visible /\ i > 1
        /\ frame' = [frame EXCEPT ![t].itr = i - 1]
        /\ UNCHANGED pc
     \/ /\ ~exist_visible /\ i = 1
        /\ frame' = [frame EXCEPT ![t].itr = index_count]
        /\ pc' = [pc EXCEPT ![t] = "enter"]
  /\ UNCHANGED <<oid, tile_groups, locator, heap, index, txnVars, transform, crashed>>

RecordInsert(t) ==
  /\ inserted_tuples' = [inserted_tuples EXCEPT ![t] = @ \cup {frame[t].location}]
  /\ pc' = [pc EXCEPT ![t] = "running"]
  /\ frame' = [frame EXCEPT ![t] = NoFrame]

(* Faulty variant: the loop stops before the first index.                  *)
FaultyInsertEntry(t) ==
  LET i == frame[t].itr IN
  /\ pc[t] = "enter"
  /\ index' = [index EXCEPT ![i] = @ \cup {<<frame[t].tuple[i], frame[t].location>>}]
  /\ \/ /\ i > 2
        /\ frame' = [frame EXCEPT ![t].itr = i - 1]
        /\ UNCHANGED <<pc, inserted_tuples>>
     \/ i <= 2 /\ RecordInsert(t)
  /\ UNCHANGED <<oid, tile_groups, locator, heap, last_cid, ops, snapshot, cid,
                 deleted_tuples, transform, crashed>>

(* InsertInIndexes (B), one index.  After the last one the executor        *)
(* records the insert in the transaction.                                  *)
InsertEntry(t) ==
  LET i == frame[t].itr IN
  /\ pc[t] = "enter"
  /\ index' = [index EXCEPT ![i] = @ \cup {<<frame[t].tuple[i], frame[t].location>>}]
  /\ \/ /\ i > 1
        /\ frame' = [frame EXCEPT ![t].itr = i - 1]
        /\ UNCHANGED <<pc, inserted_tuples>>
     \/ i = 1 /\ RecordInsert(t)
  /\ UNCHANGED <<oid, tile_groups, locator, heap, last_cid, ops, snapshot, cid,
                 deleted_tuples, transform, crashed>>

-----------------------------------------------------------------------------
Locations ==
  {<<tile_groups[n], s>> : n \in DOMAIN tile_groups, s \in Slots}

(* DataTable::DeleteTuple, called by the delete and update executors for a *)
(* tuple that their scan returned, so one that is visible: it latches the  *)
(* tuple, or marks an own insert invalid, or fails the transaction.        *)
DeleteTuple(t) ==
  /\ pc[t] = "running" /\ ops[t] < MaxOps
  /\ ops' = [ops EXCEPT ![t] = @ + 1]
  /\ \E l \in Locations :
       LET h == Header(l)
           latched == h.txn_id = INITIAL_TXN_ID /\ h.end = MAX_CID
           own == h.txn_id = t IN
       /\ IsVisible(h, t)
       /\ \/ /\ latched \/ own
             /\ UpdateHeaders([x \in {l} |-> [h EXCEPT !.txn_id = IF own THEN INVALID_TXN_ID ELSE t]])
             /\ deleted_tuples' = [deleted_tuples EXCEPT ![t] = @ \cup {l}]
             /\ UNCHANGED pc
          \/ /\ ~latched /\ ~own
             /\ pc' = [pc EXCEPT ![t] = "failed"]
             /\ UNCHANGED <<heap, deleted_tuples>>
  /\ UNCHANGED <<oid, tile_groups, locator, index, frame, last_cid, snapshot,
                 cid, inserted_tuples, transform, crashed>>

(* CommitModifications: each recorded slot that still is latched by the    *)
(* transaction gets its commit id, as the begin of an insert or the end of *)
(* a delete.                                                               *)
Commit(t) ==
  LET id == last_cid + 1 IN
  /\ pc[t] = "running"
  /\ pc' = [pc EXCEPT ![t] = "done"]
  /\ last_cid' = id
  /\ cid' = [cid EXCEPT ![t] = id]
  /\ UpdateHeaders([l \in inserted_tuples[t] \cup deleted_tuples[t] |->
       LET h == Header(l) IN
       IF h.txn_id # t THEN h
       ELSE IF h.begin = MAX_CID THEN [h EXCEPT !.txn_id = INITIAL_TXN_ID, !.begin = id]
       ELSE [h EXCEPT !.txn_id = INITIAL_TXN_ID, !.end = id]])
  /\ UNCHANGED <<oid, tile_groups, locator, index, frame, ops, snapshot,
                 inserted_tuples, deleted_tuples, transform, crashed>>

(* AbortTransaction: inserts become invalid, deletes are unlatched.        *)
Abort(t) ==
  /\ pc[t] \in {"running", "failed"}
  /\ pc' = [pc EXCEPT ![t] = "done"]
  /\ UpdateHeaders([l \in inserted_tuples[t] \cup deleted_tuples[t] |->
       LET h == Header(l) IN
       IF h.begin = MAX_CID THEN [h EXCEPT !.txn_id = INVALID_TXN_ID]
       ELSE IF h.txn_id = t THEN [h EXCEPT !.txn_id = INITIAL_TXN_ID]
       ELSE h])
  /\ UNCHANGED <<oid, tile_groups, locator, index, frame, txnVars, transform, crashed>>

-----------------------------------------------------------------------------
(* TransformTileGroup: copies the columns of a tile group into a new       *)
(* object with another layout ...                                          *)
TransformTileGroup ==
  /\ transform.phase = "idle" /\ transform.count < MaxTransforms
  /\ Overlap \/ Idle
  /\ \E n \in DOMAIN tile_groups :
       LET g == locator[tile_groups[n]] IN
       transform' = [phase |-> "header", group |-> g, count |-> transform.count + 1,
                     copy |-> [NewTileGroup(tile_groups[n]) EXCEPT !.tuple = heap[g].tuple]]
  /\ UNCHANGED <<oid, tile_groups, locator, heap, index, pc, frame, txnVars, crashed>>

(* Faulty variant: the last slot of the header is not copied.              *)
FaultyCopyHeader ==
  /\ transform.phase = "header"
  /\ transform' = [transform EXCEPT
       !.phase = "install",
       !.copy.next = heap[transform.group].next,
       !.copy.header = [s \in Slots |-> IF s = tuples_per_tilegroup - 1 THEN @[s]
                                        ELSE heap[transform.group].header[s]]]
  /\ UNCHANGED <<oid, tile_groups, locator, heap, index, pc, frame, txnVars, crashed>>

(* ... then the header ...                                                 *)
CopyHeader ==
  /\ transform.phase = "header"
  /\ transform' = [transform EXCEPT
       !.phase = "install",
       !.copy.next = heap[transform.group].next,
       !.copy.header = heap[transform.group].header]
  /\ UNCHANGED <<oid, tile_groups, locator, heap, index, pc, frame, txnVars, crashed>>

(* ... and puts the new object in the place of the old one in the          *)
(* directory.                                                              *)
InstallTransformed ==
  /\ transform.phase = "install"
  /\ heap' = Append(heap, transform.copy)
  /\ locator' = [locator EXCEPT ![transform.copy.id] = Len(heap) + 1]
  /\ transform' = [NoTransform EXCEPT !.count = transform.count]
  /\ UNCHANGED <<oid, tile_groups, index, pc, frame, txnVars, crashed>>

-----------------------------------------------------------------------------
\* The steps of a thread that is inside InsertTuple.
InsertStep(t) ==
  \/ LastTileGroup(t) \/ LoadStorage(t) \/ LoadElement(t)
  \/ TileGroupInsertTuple(t) \/ GetTileGroupWithLayout(t) \/ AddDefaultTileGroup(t)
  \/ CheckIndex(t) \/ InsertEntry(t)

TxnStep(t) ==
  \/ Begin(t) \/ InsertTuple(t) \/ InsertStep(t) \/ DeleteTuple(t)
  \/ Commit(t) \/ Abort(t)

Transform == TransformTileGroup \/ CopyHeader \/ InstallTransformed

\* A null dereference ends the process.
Next == ~crashed /\ (Transform \/ \E t \in Txns : TxnStep(t))

Spec == Init /\ [][Next]_vars

(* The operating system runs every thread that can run.                    *)
FairSpec == Spec /\ \A t \in Txns : WF_vars(~crashed /\ InsertStep(t))

-----------------------------------------------------------------------------
PCs == {"idle", "running", "count", "load", "element", "claim", "full", "add",
        "check", "enter", "failed", "done"}

(* Every variable has the values that the code can give it; no tile group  *)
(* hands out more slots than it has (TileGroupHeader::next_tuple_slot), and *)
(* the table has no tile group that the directory does not know.           *)
TypeOK ==
  /\ pc \in [Txns -> PCs]
  /\ \A g \in DOMAIN heap : heap[g].next \in 0 .. tuples_per_tilegroup
  /\ \A n \in DOMAIN tile_groups : tile_groups[n] \in DOMAIN locator
  /\ \A id \in DOMAIN locator : id \in 1 .. oid /\ GetTileGroup(id).id = id
  /\ last_cid < MAX_CID

(* Tile groups are filled one after the other, however many threads run    *)
(* into the end of the same one: all but the last one of a table are full, *)
(* so no slot is lost behind it (AddDefaultTileGroup).                     *)
GroupsFull ==
  \A n \in 1 .. Len(tile_groups) - 1 :
    GetTileGroup(tile_groups[n]).next = tuples_per_tilegroup

(* What a transaction inserted is found, through the directory, at the     *)
(* location that InsertTuple returned, and its header says what became of  *)
(* the transaction, whatever tile groups were added or transformed since.  *)
Kept ==
  \A t \in Txns : \A l \in inserted_tuples[t] :
    LET h == Header(l) IN
    IF l \in deleted_tuples[t] \/ (pc[t] = "done" /\ cid[t] = 0)
      THEN h.begin = MAX_CID /\ h.txn_id = INVALID_TXN_ID
      ELSE IF cid[t] # 0 THEN h.begin = cid[t]
      ELSE h.begin = MAX_CID /\ h.txn_id = t

TupleAt(location) == GetTileGroup(location[1]).tuple[location[2]]

(* Index and table agree: an entry points to a tuple that has the key of   *)
(* the entry, and a recorded insert has its entry in every index           *)
(* (InsertInIndexes (B)).                                                  *)
Indexed ==
  /\ \A i \in 1 .. index_count : \A entry \in index[i] :
       LET tuple == TupleAt(entry[2]) IN tuple # NoTuple /\ tuple[i] = entry[1]
  /\ \A t \in Txns : \A l \in inserted_tuples[t] : \A i \in 1 .. index_count :
       l \in ScanKey(i, TupleAt(l)[i])

(* The check of unique keys (InsertInIndexes (A)) is not atomic with the   *)
(* insertion of the entry, but only transactions that ran at the same time *)
(* can slip past each other: when two live tuples have the same unique     *)
(* key, neither inserter's snapshot has the other's commit.                *)
UniqueUnlessConcurrent ==
  \A i \in Unique : \A e, f \in index[i] :
    LET a == Header(e[2])
        b == Header(f[2]) IN
    e[1] = f[1] /\ e # f
    /\ a.begin # MAX_CID /\ b.begin # MAX_CID /\ a.end = MAX_CID /\ b.end = MAX_CID
    => \E t, u \in Txns : /\ cid[t] = a.begin /\ cid[u] = b.begin /\ t # u
                          /\ snapshot[t] < cid[u] /\ snapshot[u] < cid[t]

Inserting(t) == pc[t] \notin {"idle", "running", "failed", "done"}

(* The loop of GetTupleSlot ends: a thread that found the last tile group  *)
(* full, and may find the next one full again, gets its slot in the end,   *)
(* unless the process dies.  A thread that the bound MaxOid holds back     *)
(* would not end, so the bound is not reached.                             *)
InsertEnds == \A t \in Txns : Inserting(t) ~> ~Inserting(t) \/ crashed

(* No thread reads the vector of tile groups while another one moves it.   *)
(* This does not hold: GetTileGroup reads it outside table_mutex.          *)
NeverCrashes == ~crashed
=============================================================================
