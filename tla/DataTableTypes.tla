--------------------------- MODULE DataTableTypes ---------------------------
(***************************************************************************)
(* Types of DataTable: which locations, oids and objects the threads       *)
(* inside InsertTuple hold while other threads extend the table, and that  *)
(* commit ids stay below the one that stands for none. TypeInv is          *)
(* inductive whether or not transformations overlap with transactions.     *)
(***************************************************************************)
EXTENDS DataTableInvariant, FiniteSetTheorems, TLAPS

-----------------------------------------------------------------------------
(* Initial states.                                                         *)

(* The types hold at first.                                                *)
LEMMA InitType == Init => TypeInv
<1> SUFFICES ASSUME Init PROVE TypeInv
  OBVIOUS
<1>1. Loaded \in Tuples /\ 0 \in Slots /\ MAX_CID \in Nat
  BY DataTableAssumption DEF Slots
<1>2. EmptySlot \in Headers /\ [txn_id |-> INITIAL_TXN_ID, begin |-> 1, end |-> MAX_CID] \in Headers
  BY <1>1 DEF Headers, EmptySlot
<1>3. NewTileGroup(0) \in TileGroups
  BY <1>2, DataTableAssumption DEF NewTileGroup, TileGroups, Rows
<1>4. heap = << [id |-> 1, next |-> 1, tuple |-> [[s \in Slots |-> NoTuple] EXCEPT ![0] = Loaded],
                 header |-> [[s \in Slots |-> EmptySlot] EXCEPT ![0] =
                    [txn_id |-> INITIAL_TXN_ID, begin |-> 1, end |-> MAX_CID]]] >>
  BY DEF Init, NewTileGroup, Fill
<1>5. heap[1] \in TileGroups /\ heap[1].id = 1
  <2>1. [[s \in Slots |-> NoTuple] EXCEPT ![0] = Loaded] \in [Slots -> Rows]
    BY <1>1 DEF Rows
  <2>2. [[s \in Slots |-> EmptySlot] EXCEPT ![0] =
           [txn_id |-> INITIAL_TXN_ID, begin |-> 1, end |-> MAX_CID]] \in [Slots -> Headers]
    BY <1>1, <1>2
  <2> QED
    BY <1>1, <1>4, <2>1, <2>2, DataTableAssumption DEF TileGroups
<1>6. Directory
  BY <1>4, <1>5 DEF Init, Directory
<1>7. /\ Locs = {1} \X Slots /\ <<1, 0>> \in Locs
  BY <1>1 DEF Locs, Init
<1>8. Threads
  <2>1. NoFrame \in Frames
    BY DEF NoFrame, Frames, Rows, Places, Storages
  <2> QED
    BY <2>1 DEF Init, Threads, PCs
<1>9. Recorded
  <2>1. \A i \in 1 .. index_count : Loaded[i] \in Keys
    BY <1>1 DEF Keys
  <2>2. index = [i \in 1 .. index_count |-> {<<Loaded[i], <<1, 0>>>>}]
    BY DEF Init
  <2>3. index \in [1 .. index_count -> SUBSET (Keys \X Locs)]
    BY <1>7, <2>1, <2>2
  <2> QED
    BY <2>3 DEF Init, Recorded
<1>10. Registers
  BY DEF Init, Registers
<1>11. \A t \in Txns : FrameOK(t)
  BY DEF Init, FrameOK, Inside
<1>12. Transforming
  <2>1. NoTransform \in Transforms /\ NoTransform.phase = "idle"
    BY <1>3 DEF NoTransform, Transforms
  <2> QED
    BY <2>1 DEF Init, Transforming
<1>13. Counted
  <2>1. Committed = {}
    BY DEF Init, Committed
  <2> QED
    BY <2>1, FS_EmptySet DEF Counted, Init
<1> QED
  BY <1>6, <1>8, <1>9, <1>10, <1>11, <1>12, <1>13 DEF TypeInv

-----------------------------------------------------------------------------
(* Facts that several actions need.                                        *)

(* An update of headers leaves all but the headers as it is.               *)
LEMMA UpdateHeadersType ==
  ASSUME Directory, NEW new, UpdateHeaders(new),
         \A l \in DOMAIN new : new[l] \in Headers
  PROVE  /\ heap' \in Seq(TileGroups) /\ Len(heap') = Len(heap)
         /\ \A g \in 1 .. Len(heap) :
              /\ heap'[g].id = heap[g].id /\ heap'[g].next = heap[g].next
              /\ heap'[g].tuple = heap[g].tuple
              /\ \A s \in Slots : heap'[g].header[s] =
                   IF locator[heap[g].id] = g /\ <<heap[g].id, s>> \in DOMAIN new
                     THEN new[<<heap[g].id, s>>] ELSE heap[g].header[s]
<1> DEFINE Words(g) == [s \in Slots |-> IF <<heap[g].id, s>> \in DOMAIN new
                          THEN new[<<heap[g].id, s>>] ELSE heap[g].header[s]]
           Group(g) == IF locator[heap[g].id] # g THEN heap[g]
                       ELSE [heap[g] EXCEPT !.header = Words(g)]
<1>1. heap \in Seq(TileGroups) /\ DOMAIN heap = 1 .. Len(heap) /\ Len(heap) \in Nat
  BY DEF Directory
<1>2. heap' = [g \in 1 .. Len(heap) |-> Group(g)]
  BY <1>1 DEF UpdateHeaders
<1>3. ASSUME NEW g \in 1 .. Len(heap)
      PROVE  Group(g) \in TileGroups /\ Words(g) \in [Slots -> Headers]
  <2>1. heap[g] \in TileGroups
    BY <1>1
  <2>2. Words(g) \in [Slots -> Headers]
    BY <2>1 DEF TileGroups
  <2> QED
    BY <2>1, <2>2, Zenon DEF TileGroups
<1> HIDE DEF Words
<1>4. ASSUME NEW g \in 1 .. Len(heap)
      PROVE  /\ heap'[g].id = heap[g].id /\ heap'[g].next = heap[g].next
             /\ heap'[g].tuple = heap[g].tuple
             /\ heap'[g].header = IF locator[heap[g].id] = g THEN Words(g) ELSE heap[g].header
  <2>1. heap[g] \in TileGroups
    BY <1>1
  <2> QED
    BY <1>2, <2>1 DEF TileGroups
<1> HIDE DEF Group
<1>5. heap' \in [1 .. Len(heap) -> TileGroups]
  BY <1>2, <1>3
<1>6. heap' \in Seq(TileGroups) /\ Len(heap') = Len(heap)
  BY <1>1, <1>5
<1>7. ASSUME NEW g \in 1 .. Len(heap), NEW s \in Slots
      PROVE  heap'[g].header[s] = IF locator[heap[g].id] = g /\ <<heap[g].id, s>> \in DOMAIN new
                                    THEN new[<<heap[g].id, s>>] ELSE heap[g].header[s]
  <2>1. Words(g)[s] = IF <<heap[g].id, s>> \in DOMAIN new
                        THEN new[<<heap[g].id, s>>] ELSE heap[g].header[s]
    BY DEF Words
  <2> QED
    BY <1>4, <2>1
<1> QED
  BY <1>4, <1>6, <1>7

(* Sets of types only grow with the directory.                             *)
LEMMA TypesGrow ==
  ASSUME DOMAIN locator \subseteq DOMAIN locator'
  PROVE  Locs \subseteq Locs' /\ Frames \subseteq Frames'
<1>1. Locs \subseteq Locs'
  BY DEF Locs
<1>2. Places \subseteq Places'
  BY <1>1 DEF Places
<1> QED
  BY <1>1, <1>2 DEF Frames

(* The lengths of the directory's sequences and the last oid are numbers,  *)
(* before a step and after it.                                             *)
LEMMA Lengths ==
  /\ Directory => Len(heap) \in Nat /\ Len(tile_groups) \in Nat /\ oid \in Nat
  /\ Directory' => Len(heap') \in Nat /\ Len(tile_groups') \in Nat /\ oid' \in Nat
<1>1. Directory => Len(heap) \in Nat /\ Len(tile_groups) \in Nat /\ oid \in Nat
  BY DEF Directory
<1>2. Directory' => Len(heap') \in Nat /\ Len(tile_groups') \in Nat /\ oid' \in Nat
  BY DEF Directory
<1> QED
  BY <1>1, <1>2

(* A thread that takes no step keeps its local variables right while the   *)
(* table grows.                                                            *)
LEMMA FrameKept ==
  ASSUME TypeInv, NEW u \in Txns, pc'[u] = pc[u], frame'[u] = frame[u],
         Directory', Len(tile_groups) <= Len(tile_groups'), Len(heap) <= Len(heap'),
         oid <= oid', Locs \subseteq Locs'
  PROVE  FrameOK(u)'
<1>1. /\ Len(tile_groups) \in Nat /\ Len(tile_groups') \in Nat
      /\ Len(heap) \in Nat /\ Len(heap') \in Nat /\ oid \in Nat /\ oid' \in Nat
  BY Lengths DEF TypeInv
<1>2. frame[u].offset \in Nat
  BY DEF TypeInv, Threads, Frames
<1>3. FrameOK(u)
  BY DEF TypeInv
<1> QED
  BY <1>1, <1>2, <1>3 DEF FrameOK, Inside

(* One local variable of a thread changes, or several at once.             *)
LEMMA FrameOffset ==
  ASSUME frame \in [Txns -> Frames], NEW t \in Txns, NEW n \in Nat,
         frame' = [frame EXCEPT ![t].offset = n]
  PROVE  /\ frame' \in [Txns -> Frames] /\ \A u \in Txns \ {t} : frame'[u] = frame[u]
         /\ frame'[t].offset = n
         /\ frame'[t].tuple = frame[t].tuple /\ frame'[t].location = frame[t].location
<1>1. 0 \in Storages /\ \A x \in Locs : x \in Places
  BY DEF Storages, Places
<1>2. frame' \in [Txns -> Frames]
  BY <1>1, Zenon DEF Frames
<1> QED
  BY <1>2 DEF Frames

(* LoadStorage keeps the storage it read.                                  *)
LEMMA FrameStorage ==
  ASSUME frame \in [Txns -> Frames], NEW t \in Txns, NEW n \in Storages,
         frame' = [frame EXCEPT ![t].storage = n]
  PROVE  /\ frame' \in [Txns -> Frames] /\ \A u \in Txns \ {t} : frame'[u] = frame[u]
         /\ frame'[t].storage = n
         /\ frame'[t].tuple = frame[t].tuple /\ frame'[t].offset = frame[t].offset /\ frame'[t].location = frame[t].location
<1>1. 0 \in Storages /\ \A x \in Locs : x \in Places
  BY DEF Storages, Places
<1>2. frame' \in [Txns -> Frames]
  BY <1>1, Zenon DEF Frames
<1> QED
  BY <1>2 DEF Frames

(* LoadElement keeps the object it found and forgets what it read before.  *)
LEMMA FrameLoad ==
  ASSUME frame \in [Txns -> Frames], NEW t \in Txns, NEW n \in Nat,
         frame' = [frame EXCEPT ![t].group = n, ![t].offset = 0, ![t].storage = 0]
  PROVE  /\ frame' \in [Txns -> Frames] /\ \A u \in Txns \ {t} : frame'[u] = frame[u]
         /\ frame'[t].group = n
         /\ frame'[t].tuple = frame[t].tuple /\ frame'[t].location = frame[t].location
<1>1. 0 \in Storages /\ \A x \in Locs : x \in Places
  BY DEF Storages, Places
<1>2. frame' \in [Txns -> Frames]
  BY <1>1, ZenonT(60) DEF Frames
<1> QED
  BY <1>2 DEF Frames

(* A claimed slot becomes the location whose keys are checked, from the    *)
(* last index on.                                                          *)
LEMMA FrameClaim ==
  ASSUME frame \in [Txns -> Frames], NEW t \in Txns, NEW l \in Locs, index_count \in Nat,
         frame' = [frame EXCEPT ![t].location = l, ![t].group = 0, ![t].itr = index_count]
  PROVE  /\ frame' \in [Txns -> Frames] /\ \A u \in Txns \ {t} : frame'[u] = frame[u]
         /\ frame'[t].location = l /\ frame'[t].group = 0 /\ frame'[t].itr = index_count
         /\ frame'[t].tuple = frame[t].tuple
<1>1. 0 \in Storages /\ \A x \in Locs : x \in Places
  BY DEF Storages, Places
<1>2. frame' \in [Txns -> Frames]
  BY <1>1, Zenon DEF Frames
<1> QED
  BY <1>2 DEF Frames

(* A thread keeps which object it works on.                                *)
LEMMA FrameGroup ==
  ASSUME frame \in [Txns -> Frames], NEW t \in Txns, NEW n \in Nat,
         frame' = [frame EXCEPT ![t].group = n]
  PROVE  /\ frame' \in [Txns -> Frames] /\ \A u \in Txns \ {t} : frame'[u] = frame[u]
         /\ frame'[t].group = n
         /\ frame'[t].tuple = frame[t].tuple /\ frame'[t].location = frame[t].location
<1>1. 0 \in Storages /\ \A x \in Locs : x \in Places
  BY DEF Storages, Places
<1>2. frame' \in [Txns -> Frames]
  BY <1>1, Zenon DEF Frames
<1> QED
  BY <1>2 DEF Frames

(* A thread keeps the oid that it took.                                    *)
LEMMA FrameOid ==
  ASSUME frame \in [Txns -> Frames], NEW t \in Txns, NEW n \in Nat,
         frame' = [frame EXCEPT ![t].oid = n]
  PROVE  /\ frame' \in [Txns -> Frames] /\ \A u \in Txns \ {t} : frame'[u] = frame[u]
         /\ frame'[t].oid = n
         /\ frame'[t].tuple = frame[t].tuple /\ frame'[t].location = frame[t].location
<1>1. 0 \in Storages /\ \A x \in Locs : x \in Places
  BY DEF Storages, Places
<1>2. frame' \in [Txns -> Frames]
  BY <1>1, Zenon DEF Frames
<1> QED
  BY <1>2 DEF Frames

(* A thread goes on to another index.                                      *)
LEMMA FrameItr ==
  ASSUME frame \in [Txns -> Frames], NEW t \in Txns, NEW n \in Nat,
         frame' = [frame EXCEPT ![t].itr = n]
  PROVE  /\ frame' \in [Txns -> Frames] /\ \A u \in Txns \ {t} : frame'[u] = frame[u]
         /\ frame'[t].itr = n
         /\ frame'[t].tuple = frame[t].tuple /\ frame'[t].location = frame[t].location
<1>1. 0 \in Storages /\ \A x \in Locs : x \in Places
  BY DEF Storages, Places
<1>2. frame' \in [Txns -> Frames]
  BY <1>1, Zenon DEF Frames
<1> QED
  BY <1>2 DEF Frames

(* A step of a thread that leaves the table alone.                         *)
LEMMA TableKept ==
  ASSUME TypeInv, NEW t \in Txns, Alone(t), UNCHANGED <<oid, tile_groups, locator, heap>>,
         pc' \in [Txns -> PCs], frame' \in [Txns -> Frames], FrameOK(t)'
  PROVE  /\ Directory' /\ Threads' /\ Locs' = Locs
         /\ \A u \in Txns : FrameOK(u)'
<1>1. Directory'
  BY Zenon DEF TypeInv, Directory
<1>2. Locs' = Locs /\ Frames' = Frames
  BY DEF Locs, Frames, Places
<1>3. Threads'
  BY <1>2 DEF Threads
<1>4. Len(heap) \in Nat /\ Len(tile_groups) \in Nat /\ oid \in Nat
  BY Lengths DEF TypeInv
<1>5. ASSUME NEW u \in Txns \ {t} PROVE FrameOK(u)'
  BY <1>1, <1>2, <1>4, FrameKept DEF Alone
<1> QED
  BY <1>1, <1>2, <1>3, <1>5

(* A step that changes nothing but the thread.                             *)
LEMMA ThreadStep ==
  ASSUME TypeInv, NEW t \in Txns, Alone(t), UNCHANGED <<oid, tile_groups, locator, heap>>,
         pc' \in [Txns -> PCs], frame' \in [Txns -> Frames], FrameOK(t)',
         pc[t] # "done", UNCHANGED <<index, txnVars, transform>>
  PROVE  TypeInv'
<1>1. Directory' /\ Threads' /\ Locs' = Locs /\ \A u \in Txns : FrameOK(u)'
  BY TableKept
<1>2. Registers' /\ Recorded' /\ Transforming'
  BY <1>1, Zenon DEF TypeInv, Registers, Recorded, Transforming, txnVars
<1>3. Counted'
  BY DEF TypeInv, Counted, Committed, Alone, txnVars
<1> QED
  BY <1>1, <1>2, <1>3 DEF TypeInv

-----------------------------------------------------------------------------
(* The actions of a thread that write no tile group.                       *)

(* Begin keeps the types.                                                  *)
LEMMA BeginType ==
  ASSUME TypeInv, NEW t \in Txns, Begin(t)
  PROVE  TypeInv'
<1>1. /\ UNCHANGED <<oid, tile_groups, locator, heap>> /\ Alone(t)
      /\ pc' \in [Txns -> PCs] /\ frame' \in [Txns -> Frames]
      /\ pc[t] = "idle" /\ pc'[t] = "running"
  BY DEF Begin, TypeInv, Threads, Alone, PCs
<1>2. FrameOK(t)'
  BY <1>1 DEF FrameOK, Inside
<1>3. Directory' /\ Threads' /\ Locs' = Locs /\ \A u \in Txns : FrameOK(u)'
  BY <1>1, <1>2, TableKept
<1>4. Registers'
  BY DEF Begin, TypeInv, Registers
<1>5. Recorded' /\ Transforming'
  BY <1>3, Zenon DEF Begin, TypeInv, Recorded, Transforming
<1>6. Counted'
  BY <1>1 DEF Begin, TypeInv, Counted, Committed, Alone
<1> QED
  BY <1>3, <1>4, <1>5, <1>6 DEF TypeInv

(* The call of InsertTuple keeps the types.                                *)
LEMMA InsertTupleType ==
  ASSUME TypeInv, NEW t \in Txns, InsertTuple(t)
  PROVE  TypeInv'
<1>1. PICK tuple \in Tuples : frame' = [frame EXCEPT ![t] = [NoFrame EXCEPT !.tuple = tuple]]
  BY Zenon DEF InsertTuple
<1>2. [NoFrame EXCEPT !.tuple = tuple] \in Frames /\ [NoFrame EXCEPT !.tuple = tuple].tuple = tuple
  BY DEF NoFrame, Frames, Rows, Places, Storages
<1>3. /\ UNCHANGED <<oid, tile_groups, locator, heap>> /\ Alone(t)
      /\ pc' \in [Txns -> PCs] /\ frame' \in [Txns -> Frames]
      /\ pc[t] = "running" /\ pc'[t] = "count" /\ frame'[t].tuple = tuple
  BY <1>1, <1>2, Zenon DEF InsertTuple, TypeInv, Threads, Alone, PCs
<1>4. FrameOK(t)'
  BY <1>3 DEF FrameOK, Inside
<1>5. Directory' /\ Threads' /\ Locs' = Locs /\ \A u \in Txns : FrameOK(u)'
  BY <1>3, <1>4, TableKept
<1>6. Registers'
  BY DEF InsertTuple, TypeInv, Registers
<1>7. Recorded' /\ Transforming'
  BY <1>5, Zenon DEF InsertTuple, TypeInv, Recorded, Transforming
<1>8. Counted'
  BY <1>3 DEF InsertTuple, TypeInv, Counted, Committed, Alone
<1> QED
  BY <1>5, <1>6, <1>7, <1>8 DEF TypeInv

(* Reading the number of tile groups keeps the types: there is always one. *)
LEMMA LastTileGroupType ==
  ASSUME TypeInv, NEW t \in Txns, LastTileGroup(t)
  PROVE  TypeInv'
<1>1. Len(tile_groups) \in Nat /\ Len(tile_groups) > 0
  BY DEF TypeInv, Directory
<1>2. /\ UNCHANGED <<oid, tile_groups, locator, heap, index, txnVars, transform>>
      /\ pc' \in [Txns -> PCs] /\ pc[t] = "count" /\ pc'[t] = "load"
      /\ \A u \in Txns \ {t} : pc'[u] = pc[u]
  BY DEF LastTileGroup, TypeInv, Threads, PCs
<1>3. frame \in [Txns -> Frames] /\ Len(tile_groups) - 1 \in Nat
      /\ frame' = [frame EXCEPT ![t].offset = Len(tile_groups) - 1]
  BY <1>1 DEF LastTileGroup, TypeInv, Threads
<1>4. /\ frame' \in [Txns -> Frames] /\ frame'[t].offset = Len(tile_groups) - 1
      /\ frame'[t].tuple = frame[t].tuple /\ Alone(t)
  BY <1>2, <1>3, FrameOffset, Zenon DEF Alone
<1>5. FrameOK(t)'
  BY <1>1, <1>2, <1>4 DEF FrameOK, Inside, TypeInv
<1> QED
  BY <1>2, <1>4, <1>5, ThreadStep

(* Reading where the vector of tile groups is stored keeps the types.      *)
LEMMA LoadStorageType ==
  ASSUME TypeInv, NEW t \in Txns, LoadStorage(t)
  PROVE  TypeInv'
<1>1. Capacity(Len(tile_groups)) \in Storages
  BY Lengths DEF TypeInv, Storages
<1>2. /\ UNCHANGED <<oid, tile_groups, locator, heap, index, txnVars, transform>>
      /\ pc' \in [Txns -> PCs] /\ pc[t] = "load" /\ pc'[t] = "element"
      /\ \A u \in Txns \ {t} : pc'[u] = pc[u]
  BY DEF LoadStorage, TypeInv, Threads, PCs
<1>3. frame \in [Txns -> Frames]
      /\ frame' = [frame EXCEPT ![t].storage = Capacity(Len(tile_groups))]
  BY DEF LoadStorage, TypeInv, Threads
<1>4. /\ frame' \in [Txns -> Frames] /\ frame'[t].offset = frame[t].offset
      /\ frame'[t].tuple = frame[t].tuple /\ Alone(t)
  BY <1>1, <1>2, <1>3, FrameStorage, Zenon DEF Alone
<1>5. FrameOK(t)'
  BY <1>2, <1>4 DEF FrameOK, Inside, TypeInv
<1> QED
  BY <1>2, <1>4, <1>5, ThreadStep

(* Whatever the load yields, the object is one that the directory has.     *)
LEMMA LoadElementType ==
  ASSUME TypeInv, NEW t \in Txns, LoadElement(t)
  PROVE  TypeInv'
<1>1. /\ UNCHANGED <<oid, tile_groups, locator, heap, index, txnVars, transform>>
      /\ pc \in [Txns -> PCs] /\ frame \in [Txns -> Frames] /\ pc[t] = "element"
  BY Zenon DEF LoadElement, TypeInv, Threads
<1>2. CASE UNCHANGED <<frame, pc>>
  <2>1. FrameOK(t)'
    BY <1>1, <1>2, Zenon DEF FrameOK, TypeInv, Locs
  <2> QED
    BY <1>1, <1>2, <2>1, ThreadStep DEF Alone
<1>3. ASSUME NEW id \in DOMAIN locator, pc' = [pc EXCEPT ![t] = "claim"],
             frame' = [frame EXCEPT ![t].group = locator[id], ![t].offset = 0, ![t].storage = 0]
      PROVE  TypeInv'
  <2>1. locator[id] \in 1 .. Len(heap) /\ locator[id] \in Nat
    BY Lengths DEF TypeInv, Directory
  <2>2. pc' \in [Txns -> PCs] /\ pc'[t] = "claim" /\ \A u \in Txns \ {t} : pc'[u] = pc[u]
    BY <1>1, <1>3, Zenon DEF PCs
  <2>3. /\ frame' \in [Txns -> Frames] /\ frame'[t].group = locator[id]
        /\ frame'[t].tuple = frame[t].tuple /\ Alone(t)
    BY <1>1, <1>3, <2>1, <2>2, FrameLoad, ZenonT(60) DEF Alone
  <2>4. FrameOK(t)'
    BY <1>1, <2>1, <2>2, <2>3, Zenon DEF FrameOK, Inside, TypeInv
  <2> QED
    BY <1>1, <2>2, <2>3, <2>4, ThreadStep, Zenon
<1>4. tile_groups[frame[t].offset + 1] \in DOMAIN locator
  <2>1. frame[t].offset \in Nat /\ frame[t].offset < Len(tile_groups)
    BY <1>1 DEF Frames, TypeInv, FrameOK
  <2>2. tile_groups \in Seq(DOMAIN locator) /\ Len(tile_groups) \in Nat
    BY DEF TypeInv, Directory
  <2> QED
    BY <2>1, <2>2
<1> QED
  BY <1>2, <1>3, <1>4, Zenon DEF LoadElement

(* The check of a key keeps the types: the index it goes on to exists.     *)
LEMMA CheckIndexType ==
  ASSUME TypeInv, NEW t \in Txns, CheckIndex(t)
  PROVE  TypeInv'
<1>1. /\ UNCHANGED <<oid, tile_groups, locator, heap, index, txnVars, transform>>
      /\ pc \in [Txns -> PCs] /\ frame \in [Txns -> Frames] /\ pc[t] = "check"
  BY Zenon DEF CheckIndex, TypeInv, Threads
<1>2. /\ frame[t].itr \in 1 .. index_count /\ frame[t].location \in Locs
      /\ frame[t].tuple \in Tuples /\ Locs' = Locs /\ index_count \in Nat \ {0}
  BY <1>1, DataTableAssumption DEF TypeInv, FrameOK, Inside, Locs
<1>3. CASE pc' = [pc EXCEPT ![t] = "failed"] /\ frame' = [frame EXCEPT ![t] = NoFrame]
  <2>1. NoFrame \in Frames
    BY DEF NoFrame, Frames, Rows, Places, Storages
  <2>2. /\ pc' \in [Txns -> PCs] /\ frame' \in [Txns -> Frames] /\ Alone(t)
        /\ pc'[t] = "failed"
    BY <1>1, <1>3, <2>1 DEF PCs, Alone
  <2>3. FrameOK(t)'
    BY <2>2 DEF FrameOK, Inside
  <2> QED
    BY <1>1, <2>2, <2>3, ThreadStep
<1>4. CASE frame[t].itr > 1 /\ frame' = [frame EXCEPT ![t].itr = frame[t].itr - 1] /\ pc' = pc
  <2>1. frame[t].itr - 1 \in 1 .. index_count /\ frame[t].itr - 1 \in Nat
    BY <1>2, <1>4
  <2>2. /\ frame' \in [Txns -> Frames] /\ frame'[t].itr = frame[t].itr - 1
        /\ frame'[t].tuple = frame[t].tuple /\ frame'[t].location = frame[t].location
        /\ Alone(t)
    BY <1>1, <1>4, <2>1, FrameItr, Zenon DEF Alone
  <2>3. FrameOK(t)'
    BY <1>1, <1>2, <1>4, <2>1, <2>2 DEF FrameOK
  <2> QED
    BY <1>1, <1>4, <2>2, <2>3, ThreadStep
<1>5. CASE pc' = [pc EXCEPT ![t] = "enter"] /\ frame' = [frame EXCEPT ![t].itr = index_count]
  <2>1. pc' \in [Txns -> PCs] /\ pc'[t] = "enter" /\ \A u \in Txns \ {t} : pc'[u] = pc[u]
    BY <1>1, <1>5, Zenon DEF PCs
  <2>2. /\ frame' \in [Txns -> Frames] /\ frame'[t].itr = index_count
        /\ frame'[t].tuple = frame[t].tuple /\ frame'[t].location = frame[t].location
        /\ Alone(t)
    BY <1>1, <1>2, <1>5, <2>1, FrameItr, Zenon DEF Alone
  <2>3. FrameOK(t)'
    BY <1>2, <2>1, <2>2 DEF FrameOK
  <2> QED
    BY <1>1, <2>1, <2>2, <2>3, ThreadStep
<1> QED
  BY <1>3, <1>4, <1>5, Zenon DEF CheckIndex

(* Entering a key keeps the types: the entry leads to a location of the    *)
(* directory.                                                              *)
LEMMA InsertEntryType ==
  ASSUME TypeInv, NEW t \in Txns, InsertEntry(t)
  PROVE  TypeInv'
<1> DEFINE i == frame[t].itr
           e == <<frame[t].tuple[i], frame[t].location>>
<1>1. /\ UNCHANGED <<oid, tile_groups, locator, heap, last_cid, ops, snapshot, cid,
                     deleted_tuples, transform>>
      /\ pc \in [Txns -> PCs] /\ frame \in [Txns -> Frames] /\ pc[t] = "enter"
      /\ index' = [index EXCEPT ![i] = @ \cup {e}]
  BY DEF InsertEntry, TypeInv, Threads
<1>2. /\ i \in 1 .. index_count /\ frame[t].location \in Locs /\ Locs' = Locs
      /\ frame[t].tuple \in Tuples
  BY <1>1 DEF TypeInv, FrameOK, Inside, Locs
<1>3. e \in Keys \X Locs
  BY <1>2 DEF Keys
<1>4. index' \in [1 .. index_count -> SUBSET (Keys \X Locs)]
  <2>1. index \in [1 .. index_count -> SUBSET (Keys \X Locs)]
    BY DEF TypeInv, Recorded
  <2> HIDE DEF e, i
  <2> QED
    BY <1>1, <1>2, <1>3, <2>1
<1>5. inserted_tuples' \in [Txns -> SUBSET Locs]
  <2>1. inserted_tuples \in [Txns -> SUBSET Locs]
    BY DEF TypeInv, Recorded
  <2>2. \/ inserted_tuples' = inserted_tuples
        \/ inserted_tuples' = [inserted_tuples EXCEPT ![t] = @ \cup {frame[t].location}]
    BY DEF InsertEntry, RecordInsert
  <2> QED
    BY <1>2, <2>1, <2>2
<1>6. Recorded' /\ Registers' /\ Transforming'
  BY <1>1, <1>2, <1>4, <1>5, Zenon DEF TypeInv, Recorded, Registers, Transforming
<1>7. /\ pc' \in [Txns -> PCs] /\ frame' \in [Txns -> Frames] /\ Alone(t) /\ FrameOK(t)'
  <2>1. CASE i > 1 /\ frame' = [frame EXCEPT ![t].itr = i - 1] /\ pc' = pc
    <3>1. i - 1 \in 1 .. index_count /\ i - 1 \in Nat
      BY <1>2, <2>1, DataTableAssumption
    <3>2. /\ frame' \in [Txns -> Frames] /\ frame'[t].itr = i - 1
          /\ frame'[t].tuple = frame[t].tuple /\ frame'[t].location = frame[t].location
          /\ Alone(t)
      BY <1>1, <2>1, <3>1, FrameItr, Zenon DEF Alone
    <3> QED
      BY <1>1, <1>2, <2>1, <3>1, <3>2 DEF FrameOK
  <2>2. CASE pc' = [pc EXCEPT ![t] = "running"] /\ frame' = [frame EXCEPT ![t] = NoFrame]
    <3>1. NoFrame \in Frames
      BY DEF NoFrame, Frames, Rows, Places, Storages
    <3> QED
      BY <1>1, <2>2, <3>1, Zenon DEF PCs, Alone, FrameOK, Inside
  <2> QED
    BY <2>1, <2>2, Zenon DEF InsertEntry, RecordInsert
<1>8. Directory' /\ Threads' /\ \A u \in Txns : FrameOK(u)'
  BY <1>1, <1>7, TableKept, Zenon
<1>9. Counted'
  BY <1>1, <1>7, Zenon DEF TypeInv, Counted, Committed, Alone
<1> QED
  BY <1>6, <1>8, <1>9 DEF TypeInv

-----------------------------------------------------------------------------
(* The actions that write tile groups.                                     *)

(* A step of a thread that changes tile groups, but not which ones there   *)
(* are.                                                                    *)
LEMMA ShapeKept ==
  ASSUME TypeInv, NEW t \in Txns, Alone(t), UNCHANGED <<oid, tile_groups, locator, transform>>,
         heap' \in Seq(TileGroups), Len(heap') = Len(heap),
         \A g \in 1 .. Len(heap) : heap'[g].id = heap[g].id,
         pc' \in [Txns -> PCs], frame' \in [Txns -> Frames], FrameOK(t)'
  PROVE  /\ Directory' /\ Threads' /\ Transforming' /\ Locs' = Locs
         /\ \A u \in Txns : FrameOK(u)'
<1>1. Directory'
  BY Zenon DEF TypeInv, Directory
<1>2. Locs' = Locs /\ Frames' = Frames
  BY DEF Locs, Frames, Places
<1>3. Threads'
  BY <1>2 DEF Threads
<1>4. Len(heap) \in Nat /\ Len(tile_groups) \in Nat /\ oid \in Nat
  BY Lengths, Zenon DEF TypeInv
<1>5. ASSUME NEW u \in Txns \ {t} PROVE FrameOK(u)'
  BY <1>1, <1>2, <1>4, FrameKept DEF Alone
<1>6. Transforming'
  BY DEF TypeInv, Transforming
<1> QED
  BY <1>1, <1>2, <1>3, <1>5, <1>6

(* An object of the heap is written, the others stay.                      *)
LEMMA Replaced ==
  ASSUME heap \in Seq(TileGroups), NEW g \in 1 .. Len(heap), NEW new \in TileGroups,
         heap' = [heap EXCEPT ![g] = new]
  PROVE  /\ heap' \in Seq(TileGroups) /\ Len(heap') = Len(heap)
         /\ \A x \in 1 .. Len(heap) : heap'[x] = IF x = g THEN new ELSE heap[x]
  OBVIOUS

(* Claiming a slot keeps the types: the location it yields is one that the *)
(* directory has, and the next slot stays within the tile group.           *)
LEMMA TileGroupInsertTupleType ==
  ASSUME TypeInv, NEW t \in Txns, TileGroupInsertTuple(t)
  PROVE  TypeInv'
<1> DEFINE g == frame[t].group
           s == heap[g].next
           h == [EmptySlot EXCEPT !.txn_id = t]
<1>1. /\ UNCHANGED <<oid, tile_groups, locator, index, txnVars, transform>>
      /\ pc \in [Txns -> PCs] /\ frame \in [Txns -> Frames] /\ pc[t] = "claim"
  BY DEF TileGroupInsertTuple, TypeInv, Threads
<1>2. /\ g \in 1 .. Len(heap) /\ frame[t].tuple \in Tuples /\ heap \in Seq(TileGroups)
      /\ heap[g] \in TileGroups /\ heap[g].id \in DOMAIN locator
  <2>1. g \in 1 .. Len(heap) /\ frame[t].tuple \in Tuples
    BY <1>1 DEF TypeInv, FrameOK, Inside
  <2>2. heap \in Seq(TileGroups) /\ \A x \in 1 .. Len(heap) : heap[x].id \in DOMAIN locator
    BY DEF TypeInv, Directory
  <2> QED
    BY <2>1, <2>2
<1>3. CASE UNCHANGED heap /\ pc' = [pc EXCEPT ![t] = "full"]
           /\ frame' = [frame EXCEPT ![t].group = 0]
  <2>1. pc' \in [Txns -> PCs] /\ pc'[t] = "full" /\ \A u \in Txns \ {t} : pc'[u] = pc[u]
    BY <1>1, <1>3, Zenon DEF PCs
  <2>2. frame' \in [Txns -> Frames] /\ frame'[t].tuple = frame[t].tuple /\ Alone(t)
    BY <1>1, <1>3, <2>1, FrameGroup, Zenon DEF Alone
  <2>3. FrameOK(t)'
    BY <1>2, <2>1, <2>2 DEF FrameOK
  <2> QED
    BY <1>1, <1>3, <2>1, <2>2, <2>3, ThreadStep, Zenon
<1>4. CASE /\ s < tuples_per_tilegroup /\ pc' = [pc EXCEPT ![t] = "check"]
           /\ heap' = [heap EXCEPT ![g] = Fill(heap[g], s, frame[t].tuple, h)]
           /\ frame' = [frame EXCEPT ![t].location = <<heap[g].id, s>>,
                                     ![t].group = 0, ![t].itr = index_count]
  <2>1. s \in Slots /\ s + 1 \in 0 .. tuples_per_tilegroup /\ index_count \in Nat \ {0}
    <3>1. s \in 0 .. tuples_per_tilegroup
      BY <1>2 DEF TileGroups
    <3>2. s < tuples_per_tilegroup
      BY <1>4, Zenon
    <3> QED
      BY <3>1, <3>2, DataTableAssumption DEF Slots
  <2>2. h \in Headers
    BY DataTableAssumption DEF EmptySlot, Headers
  <2>3. Fill(heap[g], s, frame[t].tuple, h) \in TileGroups
        /\ Fill(heap[g], s, frame[t].tuple, h).id = heap[g].id
    <3>1. [heap[g].tuple EXCEPT ![s] = frame[t].tuple] \in [Slots -> Rows]
      BY <1>2, <2>1, Zenon DEF TileGroups, Rows
    <3>2. [heap[g].header EXCEPT ![s] = h] \in [Slots -> Headers]
      BY <1>2, <2>1, <2>2, Zenon DEF TileGroups
    <3>3. heap[g].id \in Nat
      BY <1>2, Zenon DEF TileGroups
    <3> HIDE DEF h, s, g
    <3> QED
      BY <2>1, <3>1, <3>2, <3>3 DEF Fill, TileGroups
  <2>4. /\ heap' \in Seq(TileGroups) /\ Len(heap') = Len(heap)
        /\ \A x \in 1 .. Len(heap) : heap'[x].id = heap[x].id
    <3> DEFINE new == Fill(heap[g], s, frame[t].tuple, h)
    <3>1. /\ heap' = [heap EXCEPT ![g] = new] /\ new \in TileGroups /\ new.id = heap[g].id
          /\ g \in 1 .. Len(heap) /\ heap \in Seq(TileGroups)
      BY <1>2, <1>4, <2>3, Zenon
    <3> HIDE DEF new, g
    <3>2. /\ heap' \in Seq(TileGroups) /\ Len(heap') = Len(heap)
          /\ \A x \in 1 .. Len(heap) : heap'[x] = IF x = g THEN new ELSE heap[x]
      BY <3>1, Replaced, Zenon
    <3> QED
      BY <3>1, <3>2, Zenon
  <2>5. <<heap[g].id, s>> \in Locs
    BY <1>2, <2>1 DEF Locs
  <2>6. pc' \in [Txns -> PCs] /\ pc'[t] = "check" /\ \A u \in Txns \ {t} : pc'[u] = pc[u]
    BY <1>1, <1>4, Zenon DEF PCs
  <2>7. /\ frame' \in [Txns -> Frames] /\ frame'[t].location = <<heap[g].id, s>>
        /\ frame'[t].itr = index_count /\ frame'[t].tuple = frame[t].tuple /\ Alone(t)
    <3> DEFINE l == <<heap[g].id, s>>
    <3>1. /\ frame' = [frame EXCEPT ![t].location = l, ![t].group = 0, ![t].itr = index_count]
          /\ index_count \in Nat /\ l \in Locs /\ frame \in [Txns -> Frames]
      BY <1>1, <1>4, <2>1, <2>5
    <3> HIDE DEF l
    <3>2. /\ frame' \in [Txns -> Frames] /\ frame'[t].location = l /\ frame'[t].itr = index_count
          /\ frame'[t].tuple = frame[t].tuple /\ \A u \in Txns \ {t} : frame'[u] = frame[u]
      BY <3>1, FrameClaim, Zenon
    <3> QED
      BY <2>6, <3>2, Zenon DEF Alone, l
  <2>8. FrameOK(t)'
    <3>1. Locs' = Locs
      BY <1>1, Zenon DEF Locs
    <3> HIDE DEF g, s
    <3> QED
      BY <1>2, <2>1, <2>5, <2>6, <2>7, <3>1 DEF FrameOK
  <2>9. Directory' /\ Threads' /\ Transforming' /\ Locs' = Locs /\ \A u \in Txns : FrameOK(u)'
    BY <1>1, <2>4, <2>6, <2>7, <2>8, ShapeKept, Zenon
  <2>10. Registers' /\ Recorded'
    BY <1>1, <2>9, Zenon DEF TypeInv, Registers, Recorded, txnVars
  <2>11. Counted'
    BY <1>1, <2>6 DEF TypeInv, Counted, Committed, txnVars
  <2> QED
    BY <2>9, <2>10, <2>11, Zenon DEF TypeInv
<1> QED
  BY <1>3, <1>4, Zenon DEF TileGroupInsertTuple

(* Taking an oid keeps the types.                                          *)
LEMMA GetTileGroupWithLayoutType ==
  ASSUME TypeInv, NEW t \in Txns, GetTileGroupWithLayout(t)
  PROVE  TypeInv'
<1>1. /\ UNCHANGED <<tile_groups, locator, heap, index, txnVars, transform>>
      /\ frame' = [frame EXCEPT ![t].oid = oid + 1] /\ pc[t] = "full"
      /\ frame \in [Txns -> Frames] /\ oid \in Nat /\ oid' = oid + 1
      /\ pc' = [pc EXCEPT ![t] = "add"] /\ pc \in [Txns -> PCs]
  BY Lengths DEF GetTileGroupWithLayout, TypeInv, Threads
<1>2. pc' \in [Txns -> PCs] /\ pc'[t] = "add" /\ \A u \in Txns \ {t} : pc'[u] = pc[u]
  BY <1>1, Zenon DEF PCs
<1>3. /\ frame' \in [Txns -> Frames] /\ frame'[t].oid = oid + 1
      /\ frame'[t].tuple = frame[t].tuple /\ Alone(t)
  <2>1. oid + 1 \in Nat
    BY <1>1
  <2>2. /\ frame' \in [Txns -> Frames] /\ frame'[t].oid = oid + 1
        /\ frame'[t].tuple = frame[t].tuple /\ \A u \in Txns \ {t} : frame'[u] = frame[u]
    BY <1>1, <2>1, FrameOid, Zenon
  <2> QED
    BY <1>2, <2>2 DEF Alone
<1>4. Directory'
  <2>1. oid' \in Nat /\ DOMAIN locator' \subseteq 1 .. oid'
    <3>1. DOMAIN locator \subseteq 1 .. oid
      BY DEF TypeInv, Directory
    <3> QED
      BY <1>1, <3>1
  <2> QED
    BY <1>1, <2>1, Zenon DEF TypeInv, Directory
<1>5. Locs' = Locs /\ Frames' = Frames
  BY <1>1 DEF Locs, Frames, Places
<1>6. FrameOK(t)'
  BY <1>1, <1>2, <1>3 DEF FrameOK, Inside, TypeInv
<1>7. Len(heap) \in Nat /\ Len(tile_groups) \in Nat
  BY Lengths DEF TypeInv
<1>8. ASSUME NEW u \in Txns \ {t} PROVE FrameOK(u)'
  BY <1>1, <1>3, <1>4, <1>5, <1>7, FrameKept DEF Alone
<1>9. Threads' /\ Registers' /\ Recorded' /\ Transforming'
  BY <1>1, <1>2, <1>3, <1>5, Zenon DEF Threads, TypeInv, Registers, Recorded, Transforming, txnVars
<1>10. Counted'
  BY <1>1, <1>2 DEF TypeInv, Counted, Committed, txnVars
<1> QED
  BY <1>4, <1>6, <1>8, <1>9, <1>10, Zenon DEF TypeInv

(* A tile group is appended to the heap, and its id leads to it.           *)
LEMMA Appended ==
  ASSUME Directory, NEW id \in 1 .. oid, NEW group \in TileGroups, group.id = id,
         heap' = Append(heap, group), oid' = oid,
         locator' = [i \in DOMAIN locator \cup {id} |->
                       IF i = id THEN Len(heap) + 1 ELSE locator[i]],
         tile_groups' \in {tile_groups, Append(tile_groups, id)}
  PROVE  /\ Directory' /\ Len(heap') = Len(heap) + 1
         /\ \A g \in 1 .. Len(heap) : heap'[g] = heap[g]
         /\ heap'[Len(heap) + 1] = group
         /\ Len(tile_groups) <= Len(tile_groups')
         /\ DOMAIN locator' = DOMAIN locator \cup {id}
<1>1. Len(heap) \in Nat /\ heap \in Seq(TileGroups)
  BY DEF Directory
<1>2. /\ heap' \in Seq(TileGroups) /\ Len(heap') = Len(heap) + 1
      /\ \A g \in 1 .. Len(heap) : heap'[g] = heap[g]
      /\ heap'[Len(heap) + 1] = group
  BY <1>1
<1>3. DOMAIN locator' = DOMAIN locator \cup {id}
  OBVIOUS
<1>4. tile_groups \in Seq(DOMAIN locator) /\ Len(tile_groups) \in Nat /\ Len(tile_groups) > 0
  BY DEF Directory
<1>5. /\ tile_groups' \in Seq(DOMAIN locator') /\ Len(tile_groups') > 0
      /\ Len(tile_groups) <= Len(tile_groups')
  <2>1. tile_groups \in Seq(DOMAIN locator')
    BY <1>3, <1>4
  <2>2. Append(tile_groups, id) \in Seq(DOMAIN locator')
        /\ Len(Append(tile_groups, id)) = Len(tile_groups) + 1
    BY <1>3, <2>1
  <2> QED
    BY <1>4, <2>1, <2>2
<1>6. locator \in [DOMAIN locator -> 1 .. Len(heap)]
      /\ \A i \in DOMAIN locator : heap[locator[i]].id = i
  BY Zenon DEF Directory
<1>7. locator' \in [DOMAIN locator' -> 1 .. Len(heap')]
  <2>1. ASSUME NEW i \in DOMAIN locator'
        PROVE  locator'[i] = IF i = id THEN Len(heap) + 1 ELSE locator[i]
    BY <1>3, Zenon
  <2>2. ASSUME NEW i \in DOMAIN locator' PROVE locator'[i] \in 1 .. Len(heap) + 1
    BY <1>1, <1>3, <1>6, <2>1
  <2> QED
    BY <1>2, <2>2, Zenon
<1>8. \A i \in DOMAIN locator' : heap'[locator'[i]].id = i
  BY <1>1, <1>2, <1>3, <1>6
<1>9. \A g \in 1 .. Len(heap') : heap'[g].id \in DOMAIN locator'
  <2>1. \A g \in 1 .. Len(heap) : heap[g].id \in DOMAIN locator
    BY DEF Directory
  <2> QED
    BY <1>1, <1>2, <1>3, <2>1
<1>10. oid' \in Nat /\ DOMAIN locator' \subseteq 1 .. oid'
  BY <1>3, Zenon DEF Directory
<1>11. Directory'
  BY <1>2, <1>5, <1>7, <1>8, <1>9, <1>10, Zenon DEF Directory
<1> QED
  BY <1>2, <1>3, <1>5, <1>11, Zenon

(* What the threads and transactions have stays of the right type while    *)
(* the directory grows.                                                    *)
LEMMA RecordedKept ==
  ASSUME Recorded, UNCHANGED <<inserted_tuples, deleted_tuples, index>>, Locs \subseteq Locs'
  PROVE  Recorded'
<1>1. /\ inserted_tuples' \in [Txns -> SUBSET Locs'] /\ deleted_tuples' \in [Txns -> SUBSET Locs']
  BY DEF Recorded
<1>2. index' \in [1 .. index_count -> SUBSET (Keys \X Locs')]
  BY DEF Recorded
<1> QED
  BY <1>1, <1>2 DEF Recorded

(* What a new tile group is made of.                                       *)
LEMMA NewTileGroupType ==
  ASSUME NEW id \in Nat
  PROVE  /\ NewTileGroup(id) \in TileGroups /\ NewTileGroup(id).id = id
         /\ NewTileGroup(id).next = 0
         /\ NewTileGroup(id).tuple = [s \in Slots |-> NoTuple]
         /\ NewTileGroup(id).header = [s \in Slots |-> EmptySlot]
<1>1. EmptySlot \in Headers /\ 0 \in 0 .. tuples_per_tilegroup
  BY DataTableAssumption DEF EmptySlot, Headers
<1>2. [s \in Slots |-> NoTuple] \in [Slots -> Rows] /\ [s \in Slots |-> EmptySlot] \in [Slots -> Headers]
  BY <1>1 DEF Rows
<1> QED
  BY <1>1, <1>2 DEF NewTileGroup, TileGroups

(* Adding a tile group, or finding that another thread has added one,      *)
(* keeps the types.                                                        *)
LEMMA AddDefaultTileGroupType ==
  ASSUME TypeInv, NEW t \in Txns, AddDefaultTileGroup(t)
  PROVE  TypeInv'
<1>1. /\ UNCHANGED <<oid, index, txnVars, transform>> /\ pc[t] = "add"
      /\ frame' = [frame EXCEPT ![t].oid = 0] /\ frame \in [Txns -> Frames]
      /\ pc' = [pc EXCEPT ![t] = "count"] /\ pc \in [Txns -> PCs]
  BY DEF AddDefaultTileGroup, TypeInv, Threads
<1>2. pc' \in [Txns -> PCs] /\ pc'[t] = "count" /\ \A u \in Txns \ {t} : pc'[u] = pc[u]
  BY <1>1, Zenon DEF PCs
<1>3. frame' \in [Txns -> Frames] /\ frame'[t].tuple = frame[t].tuple /\ Alone(t)
  BY <1>1, <1>2, FrameOid, Zenon DEF Alone
<1>4. /\ frame[t].oid \in 1 .. oid /\ frame[t].tuple \in Tuples
      /\ Len(heap) \in Nat /\ Len(tile_groups) \in Nat /\ oid \in Nat
  BY <1>1, Lengths, Zenon DEF TypeInv, FrameOK, Inside
<1>5. FrameOK(t)'
  BY <1>2, <1>3, <1>4 DEF FrameOK
<1>6. CASE UNCHANGED <<tile_groups, locator, heap>>
  BY <1>1, <1>2, <1>3, <1>5, <1>6, ThreadStep, Zenon
<1>7. CASE AddTileGroup(frame[t].oid)
  <2>1. /\ NewTileGroup(frame[t].oid) \in TileGroups
        /\ NewTileGroup(frame[t].oid).id = frame[t].oid
    BY <1>4, NewTileGroupType
  <2>2. /\ Directory' /\ Len(heap') = Len(heap) + 1 /\ Len(tile_groups) <= Len(tile_groups')
        /\ DOMAIN locator' = DOMAIN locator \cup {frame[t].oid}
    BY <1>1, <1>4, <1>7, <2>1, Appended, ZenonT(60) DEF AddTileGroup, TypeInv
  <2>3. Locs \subseteq Locs' /\ Frames \subseteq Frames'
    BY <2>2, TypesGrow
  <2>4. ASSUME NEW u \in Txns \ {t} PROVE FrameOK(u)'
    BY <1>1, <1>3, <1>4, <2>2, <2>3, FrameKept DEF Alone
  <2>5. Threads'
    BY <1>2, <1>3, <2>3 DEF Threads
  <2>6. Recorded' /\ Registers'
    BY <1>1, <2>3, RecordedKept, Zenon DEF TypeInv, Registers, txnVars
  <2>7. Transforming'
    BY <1>1, <1>4, <2>2 DEF TypeInv, Transforming
  <2>8. Counted'
    BY <1>1, <1>2 DEF TypeInv, Counted, Committed, txnVars
  <2> QED
    BY <1>5, <2>2, <2>4, <2>5, <2>6, <2>7, <2>8, ZenonT(60) DEF TypeInv
<1> QED
  BY <1>6, <1>7 DEF AddDefaultTileGroup

(* What the directory has at a location.                                   *)
LEMMA LocationType ==
  ASSUME Directory, NEW l \in Locs
  PROVE  /\ l = <<l[1], l[2]>> /\ l[1] \in DOMAIN locator /\ l[2] \in Slots
         /\ locator[l[1]] \in 1 .. Len(heap) /\ heap[locator[l[1]]] \in TileGroups
         /\ heap[locator[l[1]]].id = l[1]
         /\ Header(l) \in Headers /\ TupleAt(l) \in Rows
<1>1. l = <<l[1], l[2]>> /\ l[1] \in DOMAIN locator /\ l[2] \in Slots
  BY DEF Locs
<1>2. /\ locator[l[1]] \in 1 .. Len(heap) /\ heap[locator[l[1]]] \in TileGroups
      /\ heap[locator[l[1]]].id = l[1]
  <2>1. /\ locator \in [DOMAIN locator -> 1 .. Len(heap)] /\ heap \in Seq(TileGroups)
        /\ \A id \in DOMAIN locator : heap[locator[id]].id = id
    BY DEF Directory
  <2> QED
    BY <1>1, <2>1
<1>3. Header(l) \in Headers /\ TupleAt(l) \in Rows
  BY <1>1, <1>2, Zenon DEF Header, TupleAt, GetTileGroup, TileGroups
<1> QED
  BY <1>1, <1>2, <1>3

(* A step of a thread that writes headers.                                 *)
LEMMA HeadersStep ==
  ASSUME TypeInv, NEW t \in Txns, NEW new, UpdateHeaders(new),
         \A l \in DOMAIN new : new[l] \in Headers,
         UNCHANGED <<oid, tile_groups, locator, transform, frame>>,
         \A u \in Txns \ {t} : pc'[u] = pc[u],
         pc' \in [Txns -> PCs], pc'[t] \notin Inside
  PROVE  /\ Directory' /\ Threads' /\ Transforming' /\ Locs' = Locs
         /\ \A u \in Txns : FrameOK(u)'
<1>1. /\ heap' \in Seq(TileGroups) /\ Len(heap') = Len(heap)
      /\ \A g \in 1 .. Len(heap) : heap'[g].id = heap[g].id
  BY UpdateHeadersType DEF TypeInv
<1>2. Alone(t) /\ frame' \in [Txns -> Frames]
  BY Zenon DEF Alone, TypeInv, Threads
<1>3. FrameOK(t)'
  BY DEF FrameOK, Inside
<1> QED
  BY <1>1, <1>2, <1>3, ShapeKept, Zenon

(* A delete keeps the types.                                               *)
LEMMA DeleteTupleType ==
  ASSUME TypeInv, NEW t \in Txns, DeleteTuple(t)
  PROVE  TypeInv'
<1>1. /\ UNCHANGED <<oid, tile_groups, locator, index, frame, last_cid, snapshot, cid,
                     inserted_tuples, transform>>
      /\ pc \in [Txns -> PCs] /\ frame \in [Txns -> Frames] /\ pc[t] = "running"
      /\ ops' = [ops EXCEPT ![t] = @ + 1]
  BY DEF DeleteTuple, TypeInv, Threads
<1>2. Registers'
  BY <1>1 DEF TypeInv, Registers
<1>3. PICK l \in Locations :
        \/ /\ UpdateHeaders([x \in {l} |-> [Header(l) EXCEPT !.txn_id =
                              IF Header(l).txn_id = t THEN INVALID_TXN_ID ELSE t]])
           /\ deleted_tuples' = [deleted_tuples EXCEPT ![t] = @ \cup {l}]
           /\ UNCHANGED pc
        \/ /\ pc' = [pc EXCEPT ![t] = "failed"]
           /\ UNCHANGED <<heap, deleted_tuples>>
  BY Zenon DEF DeleteTuple
<1>4. l \in Locs
  BY DEF Locations, Locs, TypeInv, Directory
<1>5. CASE /\ UpdateHeaders([x \in {l} |-> [Header(l) EXCEPT !.txn_id =
                              IF Header(l).txn_id = t THEN INVALID_TXN_ID ELSE t]])
           /\ deleted_tuples' = [deleted_tuples EXCEPT ![t] = @ \cup {l}]
           /\ UNCHANGED pc
  <2> DEFINE h == [Header(l) EXCEPT !.txn_id = IF Header(l).txn_id = t THEN INVALID_TXN_ID ELSE t]
             new == [x \in {l} |-> h]
  <2>1. h \in Headers
    BY <1>4, LocationType DEF Headers, TypeInv
  <2>2. \A x \in DOMAIN new : new[x] \in Headers
    BY <2>1
  <2>3. UpdateHeaders(new)
    BY <1>5
  <2>4. pc'[t] \notin Inside /\ pc' \in [Txns -> PCs] /\ \A u \in Txns \ {t} : pc'[u] = pc[u]
    BY <1>1, <1>5, Zenon DEF Inside
  <2> HIDE DEF new
  <2>5. Directory' /\ Threads' /\ Transforming' /\ Locs' = Locs /\ \A u \in Txns : FrameOK(u)'
    BY <1>1, <2>2, <2>3, <2>4, HeadersStep, Zenon
  <2>6. deleted_tuples' \in [Txns -> SUBSET Locs]
    BY <1>4, <1>5 DEF TypeInv, Recorded
  <2>7. Recorded'
    BY <1>1, <2>5, <2>6, Zenon DEF TypeInv, Recorded
  <2>8. Counted'
    BY <1>1, <1>5 DEF TypeInv, Counted, Committed
  <2> QED
    BY <1>2, <2>5, <2>7, <2>8 DEF TypeInv
<1>6. CASE pc' = [pc EXCEPT ![t] = "failed"] /\ UNCHANGED <<heap, deleted_tuples>>
  <2>1. pc'[t] = "failed" /\ pc' \in [Txns -> PCs] /\ Alone(t)
    BY <1>1, <1>6, Zenon DEF PCs, Alone
  <2>2. FrameOK(t)'
    BY <2>1, Zenon DEF FrameOK, Inside
  <2>3. Directory' /\ Threads' /\ Locs' = Locs /\ \A u \in Txns : FrameOK(u)'
    BY <1>1, <1>6, <2>1, <2>2, TableKept, Zenon
  <2>4. Recorded' /\ Transforming'
    BY <1>1, <1>6, <2>3, Zenon DEF TypeInv, Recorded, Transforming
  <2>5. Counted'
    BY <1>1, <2>1 DEF TypeInv, Counted, Committed, Alone
  <2> QED
    BY <1>2, <2>3, <2>4, <2>5, Zenon DEF TypeInv
<1> QED
  BY <1>3, <1>5, <1>6

(* A commit takes the next commit id for its transaction.                  *)
LEMMA CommitCounted ==
  ASSUME TypeInv, NEW t \in Txns, pc[t] = "running", pc' = [pc EXCEPT ![t] = "done"],
         last_cid' = last_cid + 1, cid' = [cid EXCEPT ![t] = last_cid + 1]
  PROVE  Counted'
<1>1. last_cid \in Nat /\ cid \in [Txns -> Nat] /\ pc \in [Txns -> PCs]
  BY DEF TypeInv, Registers, Threads
<1>2. t \notin Committed
  BY DEF TypeInv, Counted
<1>3. Committed' = Committed \cup {t}
  BY <1>1 DEF Committed
<1>4. IsFiniteSet(Committed)
  BY DataTableAssumption, FS_Subset, Zenon DEF Committed
<1>5. Cardinality(Committed') = Cardinality(Committed) + 1 /\ Cardinality(Committed) \in Nat
  BY <1>2, <1>3, <1>4, FS_AddElement, FS_CardinalityType, Zenon
<1>6. last_cid' <= 1 + Cardinality(Committed')
  BY <1>1, <1>5 DEF TypeInv, Counted
<1>7. \A u \in Committed' : pc'[u] = "done"
  BY <1>1, <1>3 DEF TypeInv, Counted
<1> QED
  BY <1>6, <1>7 DEF Counted

(* A commit keeps the types.                                               *)
LEMMA CommitType ==
  ASSUME TypeInv, NEW t \in Txns, Commit(t)
  PROVE  TypeInv'
<1> DEFINE word(l) == LET h == Header(l) IN
             IF h.txn_id # t THEN h
             ELSE IF h.begin = MAX_CID
               THEN [h EXCEPT !.txn_id = INITIAL_TXN_ID, !.begin = last_cid + 1]
             ELSE [h EXCEPT !.txn_id = INITIAL_TXN_ID, !.end = last_cid + 1]
           new == [l \in inserted_tuples[t] \cup deleted_tuples[t] |-> word(l)]
<1>1. /\ UNCHANGED <<oid, tile_groups, locator, index, frame, ops, snapshot,
                     inserted_tuples, deleted_tuples, transform>>
      /\ pc[t] = "running" /\ pc' = [pc EXCEPT ![t] = "done"]
      /\ last_cid' = last_cid + 1 /\ cid' = [cid EXCEPT ![t] = last_cid + 1]
      /\ pc \in [Txns -> PCs]
  BY Zenon DEF Commit, TypeInv, Threads
<1>2. UpdateHeaders(new)
  BY Zenon DEF Commit
<1>3. Registers'
  <2>1. last_cid \in Nat /\ cid \in [Txns -> Nat] /\ Registers
    BY DEF TypeInv, Registers
  <2>2. last_cid' \in Nat /\ cid' \in [Txns -> Nat]
    BY <1>1, <2>1
  <2> QED
    BY <1>1, <2>1, <2>2, Zenon DEF Registers
<1>4. ASSUME NEW l \in DOMAIN new PROVE new[l] \in Headers
  <2>1. l \in Locs
    BY DEF TypeInv, Recorded
  <2>2. Header(l) \in Headers /\ last_cid + 1 \in Nat
    BY <2>1, LocationType DEF TypeInv, Registers
  <2>3. word(l) \in Headers
    BY <2>2, Zenon DEF Headers
  <2> QED
    BY <2>3, Zenon
<1>5. pc' \in [Txns -> PCs] /\ pc'[t] \notin Inside /\ \A u \in Txns \ {t} : pc'[u] = pc[u]
  BY <1>1, Zenon DEF PCs, Inside
<1> HIDE DEF new
<1>6. Directory' /\ Threads' /\ Transforming' /\ Locs' = Locs /\ \A u \in Txns : FrameOK(u)'
  BY <1>1, <1>2, <1>4, <1>5, HeadersStep, Zenon
<1>7. Recorded'
  BY <1>1, <1>6, Zenon DEF TypeInv, Recorded
<1>8. Counted'
  BY <1>1, CommitCounted, Zenon
<1> QED
  BY <1>3, <1>6, <1>7, <1>8 DEF TypeInv

(* An abort keeps the types.                                               *)
LEMMA AbortType ==
  ASSUME TypeInv, NEW t \in Txns, Abort(t)
  PROVE  TypeInv'
<1> DEFINE word(l) == LET h == Header(l) IN
             IF h.begin = MAX_CID THEN [h EXCEPT !.txn_id = INVALID_TXN_ID]
             ELSE IF h.txn_id = t THEN [h EXCEPT !.txn_id = INITIAL_TXN_ID]
             ELSE h
           new == [l \in inserted_tuples[t] \cup deleted_tuples[t] |-> word(l)]
<1>1. /\ UNCHANGED <<oid, tile_groups, locator, index, frame, txnVars, transform>>
      /\ pc[t] # "done" /\ pc' = [pc EXCEPT ![t] = "done"]
      /\ UpdateHeaders(new) /\ pc \in [Txns -> PCs]
  BY DEF Abort, TypeInv, Threads
<1>2. Registers'
  BY <1>1, Zenon DEF TypeInv, Registers, txnVars
<1>3. ASSUME NEW l \in DOMAIN new PROVE new[l] \in Headers
  <2>1. l \in Locs
    BY DEF TypeInv, Recorded
  <2>2. Header(l) \in Headers
    BY <2>1, LocationType DEF TypeInv
  <2>3. word(l) \in Headers
    BY <2>2 DEF Headers
  <2> QED
    BY <2>3
<1>4. pc' \in [Txns -> PCs] /\ pc'[t] \notin Inside /\ \A u \in Txns \ {t} : pc'[u] = pc[u]
  BY <1>1, Zenon DEF PCs, Inside
<1> HIDE DEF new
<1>5. Directory' /\ Threads' /\ Transforming' /\ Locs' = Locs /\ \A u \in Txns : FrameOK(u)'
  BY <1>1, <1>3, <1>4, HeadersStep, Zenon
<1>6. Recorded'
  BY <1>1, <1>5, Zenon DEF TypeInv, Recorded, txnVars
<1>7. Counted'
  BY <1>1 DEF TypeInv, Counted, Committed, txnVars
<1> QED
  BY <1>2, <1>5, <1>6, <1>7 DEF TypeInv

-----------------------------------------------------------------------------
(* The transformation, and all steps.                                      *)

(* The steps of TransformTileGroup change no thread.                       *)
LEMMA TransformTileGroupType ==
  ASSUME TypeInv, TransformTileGroup
  PROVE  TypeInv'
<1>1. UNCHANGED <<oid, tile_groups, locator, heap, index, pc, frame, txnVars>>
  BY DEF TransformTileGroup
<1>2. PICK n \in DOMAIN tile_groups :
        transform' = [phase |-> "header", group |-> locator[tile_groups[n]],
                      count |-> transform.count + 1,
                      copy |-> [NewTileGroup(tile_groups[n]) EXCEPT
                                 !.tuple = heap[locator[tile_groups[n]]].tuple]]
  BY DEF TransformTileGroup
<1>3. /\ tile_groups[n] \in DOMAIN locator /\ tile_groups[n] \in Nat
      /\ locator[tile_groups[n]] \in 1 .. Len(heap) /\ Len(heap) \in Nat
      /\ heap[locator[tile_groups[n]]].tuple \in [Slots -> Rows]
  <2>1. /\ tile_groups \in Seq(DOMAIN locator) /\ heap \in Seq(TileGroups)
        /\ locator \in [DOMAIN locator -> 1 .. Len(heap)]
        /\ DOMAIN locator \subseteq 1 .. oid /\ oid \in Nat /\ Len(heap) \in Nat
    BY Lengths, Zenon DEF TypeInv, Directory
  <2>2. tile_groups[n] \in DOMAIN locator /\ tile_groups[n] \in Nat
    BY <2>1
  <2>3. /\ locator[tile_groups[n]] \in 1 .. Len(heap)
        /\ heap[locator[tile_groups[n]]] \in TileGroups
    BY <2>1, <2>2
  <2> QED
    BY <2>1, <2>2, <2>3, Zenon DEF TileGroups
<1> DEFINE copy == [NewTileGroup(tile_groups[n]) EXCEPT
                      !.tuple = heap[locator[tile_groups[n]]].tuple]
<1>4. copy \in TileGroups /\ copy.id = tile_groups[n]
  BY <1>3, NewTileGroupType DEF TileGroups
<1>5. transform.count \in Nat
  BY Zenon DEF TypeInv, Transforming, Transforms
<1> HIDE DEF copy
<1>6. transform' \in Transforms /\ transform'.group \in 1 .. Len(heap) /\ transform'.copy.id \in DOMAIN locator
  <2>1. transform' = [phase |-> "header", group |-> locator[tile_groups[n]],
                      count |-> transform.count + 1, copy |-> copy]
    BY <1>2, Zenon DEF copy
  <2>2. locator[tile_groups[n]] \in Nat /\ transform.count + 1 \in Nat
    BY <1>3, <1>5
  <2> QED
    BY <1>3, <1>4, <2>1, <2>2 DEF Transforms
<1>7. Transforming'
  BY <1>1, <1>6, Zenon DEF Transforming
<1>8. Directory' /\ Threads' /\ Registers' /\ Recorded' /\ Counted' /\ \A t \in Txns : FrameOK(t)'
  BY <1>1, Zenon DEF TypeInv, Directory, Threads, Registers, Recorded, Counted, Committed, FrameOK,
     Locs, Frames, Places, txnVars
<1> QED
  BY <1>7, <1>8 DEF TypeInv

(* Copying the headers keeps the types.                                    *)
LEMMA CopyHeaderType ==
  ASSUME TypeInv, CopyHeader
  PROVE  TypeInv'
<1>1. UNCHANGED <<oid, tile_groups, locator, heap, index, pc, frame, txnVars>>
  BY DEF CopyHeader
<1>2. /\ transform.group \in 1 .. Len(heap) /\ transform.copy.id \in DOMAIN locator
      /\ transform \in Transforms
  <2>1. transform.phase = "header"
    BY DEF CopyHeader
  <2> QED
    BY <2>1 DEF TypeInv, Transforming
<1>3. heap[transform.group] \in TileGroups
  <2>1. heap \in Seq(TileGroups)
    BY DEF TypeInv, Directory
  <2> QED
    BY <1>2, <2>1
<1>4. /\ transform' \in Transforms /\ transform'.group = transform.group
      /\ transform'.copy.id = transform.copy.id
  <2> DEFINE next == heap[transform.group].next
             header == heap[transform.group].header
  <2>1. next \in 0 .. tuples_per_tilegroup /\ header \in [Slots -> Headers]
    BY <1>3 DEF TileGroups
  <2>2. transform' = [transform EXCEPT !.phase = "install", !.copy.next = next, !.copy.header = header]
    BY DEF CopyHeader
  <2>3. transform.copy \in TileGroups
    BY <1>2 DEF Transforms
  <2> DEFINE copy == [transform.copy EXCEPT !.next = next, !.header = header]
  <2> HIDE DEF next, header
  <2>4. copy \in TileGroups /\ copy.id = transform.copy.id
    BY <2>1, <2>3, Zenon DEF TileGroups
  <2>5. transform' = [transform EXCEPT !.phase = "install", !.copy = copy]
    BY <1>2, <2>2, <2>3, Zenon DEF Transforms, TileGroups
  <2> HIDE DEF copy
  <2> QED
    BY <1>2, <2>4, <2>5, Zenon DEF Transforms
<1>5. Transforming'
  BY <1>1, <1>2, <1>4, Zenon DEF Transforming
<1>6. Directory' /\ Threads' /\ Registers' /\ Recorded' /\ Counted' /\ \A t \in Txns : FrameOK(t)'
  BY <1>1, Zenon DEF TypeInv, Directory, Threads, Registers, Recorded, Counted, Committed, FrameOK,
     Locs, Frames, Places, txnVars
<1> QED
  BY <1>5, <1>6 DEF TypeInv

(* Installing the copy keeps the types, and puts the copy behind the       *)
(* objects that the heap has.                                              *)
LEMMA InstallTransformedType ==
  ASSUME TypeInv, InstallTransformed
  PROVE  /\ TypeInv' /\ DOMAIN locator' = DOMAIN locator
         /\ \A g \in 1 .. Len(heap) : heap'[g] = heap[g]
         /\ heap'[Len(heap) + 1] = transform.copy
<1>1. /\ UNCHANGED <<oid, tile_groups, index, pc, frame, txnVars>>
      /\ heap' = Append(heap, transform.copy)
      /\ locator' = [locator EXCEPT ![transform.copy.id] = Len(heap) + 1]
      /\ transform' = [NoTransform EXCEPT !.count = transform.count]
  BY DEF InstallTransformed
<1>2. /\ transform.copy.id \in DOMAIN locator /\ transform.copy.id \in 1 .. oid
      /\ transform.copy \in TileGroups /\ transform.count \in Nat
  BY Zenon DEF TypeInv, Transforming, Transforms, InstallTransformed, Directory
<1>3. locator' = [i \in DOMAIN locator \cup {transform.copy.id} |->
                    IF i = transform.copy.id THEN Len(heap) + 1 ELSE locator[i]]
  BY <1>1, <1>2, Zenon DEF TypeInv, Directory
<1>4. /\ Directory' /\ Len(heap') = Len(heap) + 1 /\ Len(tile_groups) <= Len(tile_groups')
      /\ DOMAIN locator' = DOMAIN locator \cup {transform.copy.id}
      /\ \A g \in 1 .. Len(heap) : heap'[g] = heap[g]
      /\ heap'[Len(heap) + 1] = transform.copy
  BY <1>1, <1>2, <1>3, Appended, Zenon DEF TypeInv
<1>5. DOMAIN locator' = DOMAIN locator
  BY <1>2, <1>4, Zenon
<1>6. Locs' = Locs /\ Frames' = Frames
  BY <1>5 DEF Locs, Frames, Places
<1>7. Len(heap) \in Nat /\ Len(tile_groups) \in Nat /\ oid \in Nat
  BY Lengths DEF TypeInv
<1>8. ASSUME NEW u \in Txns PROVE FrameOK(u)'
  BY <1>1, <1>4, <1>6, <1>7, FrameKept
<1>9. transform' \in Transforms /\ transform'.phase = "idle"
  BY <1>1, <1>2, NewTileGroupType, Zenon DEF NoTransform, Transforms
<1>10. Transforming'
  BY <1>9 DEF Transforming
<1>11. Threads' /\ Registers' /\ Recorded' /\ Counted'
  BY <1>1, <1>6, Zenon DEF TypeInv, Threads, Registers, Recorded, Counted, Committed, txnVars
<1> QED
  BY <1>4, <1>5, <1>8, <1>10, <1>11, Zenon DEF TypeInv

(* Every step keeps the types.                                             *)
LEMMA TypeStep ==
  ASSUME TypeInv, [Next]_vars
  PROVE  TypeInv'
<1>1. CASE UNCHANGED vars
  BY <1>1, ZenonT(60) DEF vars, TypeInv, Directory, Threads, Registers, Recorded, Counted, Committed,
     FrameOK, Transforming, Locs, Frames, Places, txnVars
<1>2. ASSUME NEW t \in Txns, TxnStep(t) PROVE TypeInv'
  BY <1>2, BeginType, InsertTupleType, LastTileGroupType, LoadStorageType, LoadElementType,
     TileGroupInsertTupleType, GetTileGroupWithLayoutType, AddDefaultTileGroupType,
     CheckIndexType, InsertEntryType, DeleteTupleType, CommitType, AbortType, ZenonT(60)
     DEF TxnStep, InsertStep
<1>3. CASE Transform
  BY <1>3, TransformTileGroupType, CopyHeaderType, InstallTransformedType, Zenon DEF Transform
<1> QED
  BY <1>1, <1>2, <1>3, Zenon DEF Next

(* The next free slot of a tile group is within its capacity.              *)
LEMMA NextType ==
  ASSUME heap \in Seq(TileGroups)
  PROVE  \A g \in DOMAIN heap : heap[g].next \in 0 .. tuples_per_tilegroup
<1>1. \A g \in DOMAIN heap : heap[g] \in TileGroups
  OBVIOUS
<1>2. \A group \in TileGroups : group.next \in 0 .. tuples_per_tilegroup
  BY DEF TileGroups
<1> QED
  BY <1>1, <1>2

(* With finitely many transactions commit ids stay below MAX_CID, since    *)
(* each takes one at most.                                                 *)
LEMMA Bounds ==
  (TypeInv => Bounded) /\ (TypeInv' => Bounded')
<1>1. IsFiniteSet(Committed) /\ Cardinality(Committed) <= Cardinality(Txns)
  BY DataTableAssumption, FS_Subset, Zenon DEF Committed
<1>2. IsFiniteSet(Committed') /\ Cardinality(Committed') <= Cardinality(Txns)
  BY DataTableAssumption, FS_Subset DEF Committed
<1>3. Cardinality(Committed) \in Nat /\ Cardinality(Txns) \in Nat /\ Cardinality(Committed') \in Nat
  BY <1>1, <1>2, DataTableAssumption, FS_CardinalityType, Zenon
<1>4. MAX_CID \in Nat /\ Cardinality(Txns) + 1 < MAX_CID
  BY DataTableAssumption
<1>5. TypeInv => last_cid \in Nat /\ last_cid <= 1 + Cardinality(Committed)
  BY DEF TypeInv, Counted, Registers
<1>6. TypeInv' => last_cid' \in Nat /\ last_cid' <= 1 + Cardinality(Committed')
  BY DEF TypeInv, Counted, Registers
<1> QED
  BY <1>1, <1>2, <1>3, <1>4, <1>5, <1>6 DEF Bounded

(* Commit ids stay below MAX_CID, tile groups within their capacity and    *)
(* the table within the directory, for any number of transactions, tuples, *)
(* slots and transformations, overlapping or not.                          *)
THEOREM TypeCorrect == Spec => []TypeOK
<1>1. TypeInv => TypeOK
  <2> SUFFICES ASSUME TypeInv PROVE TypeOK
    OBVIOUS
  <2>1. last_cid < MAX_CID
    <3>1. IsFiniteSet(Committed) /\ Cardinality(Committed) <= Cardinality(Txns)
      BY DataTableAssumption, FS_Subset, Zenon DEF Committed
    <3>2. Cardinality(Committed) \in Nat /\ Cardinality(Txns) \in Nat
      BY <3>1, DataTableAssumption, FS_CardinalityType, Zenon
    <3> QED
      BY <3>1, <3>2, DataTableAssumption DEF TypeInv, Counted, Registers
  <2>2. \A g \in DOMAIN heap : heap[g].next \in 0 .. tuples_per_tilegroup
    <3>1. heap \in Seq(TileGroups)
      BY DEF TypeInv, Directory
    <3> QED
      BY <3>1, NextType, Zenon
  <2>3. \A n \in DOMAIN tile_groups : tile_groups[n] \in DOMAIN locator
    BY DEF TypeInv, Directory
  <2>4. \A id \in DOMAIN locator : id \in 1 .. oid /\ GetTileGroup(id).id = id
    BY DEF TypeInv, Directory, GetTileGroup
  <2> QED
    BY <2>1, <2>2, <2>3, <2>4, Zenon DEF TypeOK, TypeInv, Threads
<1>2. TypeInv /\ [Next]_vars => TypeInv'
  BY TypeStep
<1> QED
  BY <1>1, <1>2, InitType, PTL DEF Spec
=============================================================================
