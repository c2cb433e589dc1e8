-------------------------- MODULE DataTableProofs --------------------------
(***************************************************************************)
(* Safety of DataTable when tile groups are transformed only between       *)
(* transactions (Overlap = FALSE). Structure says that the directory leads *)
(* every thread to the objects that the others use. With it every step has *)
(* one of the effects of ViewNext, of which DataTableHeaders and           *)
(* DataTableKeys show what they preserve; the theorems combine the three.  *)
(***************************************************************************)
EXTENDS DataTableTypes, DataTableKeys

-----------------------------------------------------------------------------
(* What actions do to locations.                                           *)

(* A step that leaves the directory and the objects alone.                 *)
LEMMA SameUntouched ==
  ASSUME UNCHANGED <<locator, heap>>
  PROVE  Untouched
  BY DEF Untouched, Locs, Used, Header, TupleAt, NextSlot, GetTileGroup

(* An update of headers writes the headers that it names, at the objects   *)
(* that the directory has.                                                 *)
LEMMA UpdateWritten ==
  ASSUME TypeInv, UNCHANGED locator, NEW new, UpdateHeaders(new),
         \A l \in DOMAIN new : new[l] \in Headers
  PROVE  Written(new)
<1>1. /\ \A g \in 1 .. Len(heap) :
              /\ heap'[g].id = heap[g].id /\ heap'[g].next = heap[g].next
              /\ heap'[g].tuple = heap[g].tuple
              /\ \A s \in Slots : heap'[g].header[s] =
                   IF locator[heap[g].id] = g /\ <<heap[g].id, s>> \in DOMAIN new
                     THEN new[<<heap[g].id, s>>] ELSE heap[g].header[s]
  BY UpdateHeadersType DEF TypeInv
<1>2. Locs' = Locs
  BY DEF Locs
<1>3. ASSUME NEW id \in DOMAIN locator PROVE NextSlot(id)' = NextSlot(id)
  <2>1. locator[id] \in 1 .. Len(heap)
    BY DEF TypeInv, Directory
  <2> QED
    BY <1>1, <2>1, Zenon DEF NextSlot, GetTileGroup
<1>4. ASSUME NEW l \in Locs
      PROVE  /\ TupleAt(l)' = TupleAt(l)
             /\ Header(l)' = IF l \in DOMAIN new THEN new[l] ELSE Header(l)
  <2>1. /\ l = <<l[1], l[2]>> /\ l[2] \in Slots
        /\ locator[l[1]] \in 1 .. Len(heap) /\ heap[locator[l[1]]].id = l[1]
    BY LocationType DEF TypeInv
  <2>2. heap'[locator[l[1]]].tuple = heap[locator[l[1]]].tuple
    BY <1>1, <2>1, Zenon
  <2>3. heap'[locator[l[1]]].header[l[2]] =
          IF l \in DOMAIN new THEN new[l] ELSE heap[locator[l[1]]].header[l[2]]
    BY <1>1, <2>1
  <2> QED
    BY <2>2, <2>3 DEF Header, TupleAt, GetTileGroup
<1>5. Used' = Used
  <2>1. \A l \in Locs : l[1] \in DOMAIN locator
    BY DEF Locs
  <2> QED
    BY <1>2, <1>3, <2>1, Zenon DEF Used
<1> QED
  BY <1>2, <1>3, <1>4, <1>5, Zenon DEF Written

(* A tile group with an oid that the directory does not have adds empty    *)
(* locations.                                                              *)
LEMMA AddUntouched ==
  ASSUME TypeInv, NEW id \in 1 .. oid \ DOMAIN locator, AddTileGroup(id), UNCHANGED oid
  PROVE  /\ Untouched /\ DOMAIN locator' = DOMAIN locator \cup {id}
         /\ \A i \in DOMAIN locator : locator'[i] = locator[i]
         /\ \A g \in 1 .. Len(heap) : heap'[g] = heap[g]
<1>1. NewTileGroup(id) \in TileGroups /\ NewTileGroup(id).id = id /\ NewTileGroup(id).next = 0
      /\ NewTileGroup(id).header = [s \in Slots |-> EmptySlot] /\ id \in Nat
  BY NewTileGroupType, Lengths DEF TypeInv
<1>2. /\ Len(heap') = Len(heap) + 1 /\ DOMAIN locator' = DOMAIN locator \cup {id}
      /\ \A g \in 1 .. Len(heap) : heap'[g] = heap[g]
      /\ heap'[Len(heap) + 1] = NewTileGroup(id)
  BY <1>1, Appended DEF AddTileGroup, TypeInv
<1>3. locator'[id] = Len(heap) + 1 /\ \A i \in DOMAIN locator : locator'[i] = locator[i]
  BY DEF AddTileGroup
<1>4. \A i \in DOMAIN locator : locator[i] \in 1 .. Len(heap)
  BY DEF TypeInv, Directory
<1>5. \A i \in DOMAIN locator : GetTileGroup(i)' = GetTileGroup(i)
  BY <1>2, <1>3, <1>4, Zenon DEF GetTileGroup
<1>6. \A l \in Locs : l[1] \in DOMAIN locator
  BY DEF Locs
<1>7. \A l \in Locs : Header(l)' = Header(l) /\ TupleAt(l)' = TupleAt(l)
  BY <1>5, <1>6 DEF Header, TupleAt
<1>8. \A i \in DOMAIN locator : NextSlot(i)' = NextSlot(i)
  BY <1>5 DEF NextSlot
<1>9. Locs \subseteq Locs' /\ \A l \in Locs' \ Locs : l[1] = id /\ l[2] \in Slots
  BY <1>2 DEF Locs
<1>10. GetTileGroup(id)' = NewTileGroup(id)
  BY <1>2, <1>3, Zenon DEF GetTileGroup
<1>11. \A l \in Locs' \ Locs : Header(l)' = EmptySlot
  BY <1>1, <1>9, <1>10, Zenon DEF Header
<1>12. Used' = Used
  <2>1. ASSUME NEW l \in Locs' \ Locs PROVE ~(l[2] < NextSlot(l[1])')
    BY <1>1, <1>9, <1>10 DEF NextSlot, Slots
  <2> QED
    BY <1>6, <1>8, <1>9, <2>1, Zenon DEF Used
<1> QED
  BY <1>2, <1>3, <1>7, <1>8, <1>9, <1>11, <1>12, Zenon DEF Untouched

(* A complete copy takes the place of its original: no location sees it.   *)
LEMMA InstallUntouched ==
  ASSUME TypeInv, Copied, InstallTransformed
  PROVE  Untouched
<1>1. /\ DOMAIN locator' = DOMAIN locator /\ \A g \in 1 .. Len(heap) : heap'[g] = heap[g]
      /\ heap'[Len(heap) + 1] = transform.copy
  BY InstallTransformedType
<1>2. /\ transform.copy = heap[locator[transform.copy.id]] /\ transform.copy.id \in DOMAIN locator
      /\ locator' = [locator EXCEPT ![transform.copy.id] = Len(heap) + 1]
  BY DEF InstallTransformed, Copied, TypeInv, Transforming
<1>3. \A i \in DOMAIN locator : locator[i] \in 1 .. Len(heap)
  BY DEF TypeInv, Directory
<1>4. \A i \in DOMAIN locator : GetTileGroup(i)' = GetTileGroup(i)
  BY <1>1, <1>2, <1>3, Zenon DEF GetTileGroup
<1>5. Locs' = Locs /\ \A l \in Locs : l[1] \in DOMAIN locator
  BY <1>1 DEF Locs
<1>6. \A l \in Locs : Header(l)' = Header(l) /\ TupleAt(l)' = TupleAt(l)
  BY <1>4, <1>5 DEF Header, TupleAt
<1>7. \A i \in DOMAIN locator : NextSlot(i)' = NextSlot(i)
  BY <1>4 DEF NextSlot
<1>8. Used' = Used
  BY <1>5, <1>7, Zenon DEF Used
<1> QED
  BY <1>5, <1>6, <1>7, <1>8, Zenon DEF Untouched

(* A thread that the directory leads to the same object claims a slot that *)
(* was unused, and writes its tuple there.                                 *)
LEMMA ClaimClaimed ==
  ASSUME TypeInv, Current, NEW t \in Txns, TileGroupInsertTuple(t), pc'[t] = "check",
         NEW l, l = frame'[t].location
  PROVE  /\ Claimed(l, frame[t].tuple, t)
         /\ frame'[t].tuple = frame[t].tuple
         /\ \A u \in Txns \ {t} : frame'[u] = frame[u]
         /\ \A g \in 1 .. Len(heap) : heap'[g].id = heap[g].id
<1> DEFINE g == frame[t].group
           s == heap[g].next
           h == [EmptySlot EXCEPT !.txn_id = t]
           k == <<heap[g].id, s>>
           new == Fill(heap[g], s, frame[t].tuple, h)
<1>1. /\ pc[t] = "claim" /\ UNCHANGED locator /\ s < tuples_per_tilegroup
      /\ heap' = [heap EXCEPT ![g] = new]
      /\ frame' = [frame EXCEPT ![t].location = k, ![t].group = 0, ![t].itr = index_count]
  <2>1. pc \in [Txns -> PCs]
    BY DEF TypeInv, Threads
  <2> QED
    BY <2>1, Zenon DEF TileGroupInsertTuple
<1>2. /\ g \in 1 .. Len(heap) /\ heap \in Seq(TileGroups) /\ heap[g] \in TileGroups
      /\ heap[g].id \in DOMAIN locator /\ locator[heap[g].id] = g
  <2>1. g \in 1 .. Len(heap) /\ locator[heap[g].id] = g
    BY <1>1, Zenon DEF TypeInv, FrameOK, Current
  <2>2. heap \in Seq(TileGroups) /\ \A x \in 1 .. Len(heap) : heap[x].id \in DOMAIN locator
    BY Zenon DEF TypeInv, Directory
  <2> QED
    BY <2>1, <2>2
<1>3. s \in Slots /\ s \in Nat /\ s + 1 \in Nat
  <2>1. s \in 0 .. tuples_per_tilegroup
    BY <1>2 DEF TileGroups
  <2> QED
    BY <1>1, <2>1, DataTableAssumption DEF Slots
<1>4. /\ new.id = heap[g].id /\ new.next = s + 1
      /\ new.tuple = [heap[g].tuple EXCEPT ![s] = frame[t].tuple]
      /\ new.header = [heap[g].header EXCEPT ![s] = h]
  BY Zenon DEF Fill
<1>5. k \in Locs /\ Locs' = Locs
  BY <1>1, <1>2, <1>3, Zenon DEF Locs
<1>6. /\ frame'[t].location = k /\ frame'[t].tuple = frame[t].tuple
      /\ \A u \in Txns \ {t} : frame'[u] = frame[u]
  <2>1. frame \in [Txns -> Frames] /\ index_count \in Nat
    BY DataTableAssumption, Zenon DEF TypeInv, Threads
  <2> HIDE DEF k
  <2> QED
    BY <1>1, <1>5, <2>1, FrameClaim, Zenon
<1>7. /\ heap[g].tuple \in [Slots -> Rows] /\ heap[g].header \in [Slots -> Headers]
  BY <1>2 DEF TileGroups
<1>20. /\ l = <<l[1], l[2]>> /\ l[1] = heap[g].id /\ l[2] = s
       /\ l[1] \in DOMAIN locator /\ locator[l[1]] = g /\ g \in 1 .. Len(heap)
       /\ locator' = locator /\ l \in Locs /\ Locs' = Locs
  <2>1. l = k /\ k \in Locs /\ Locs' = Locs
    <3> HIDE DEF k
    <3> QED
      BY <1>5, <1>6, Zenon
  <2>2. locator' = locator
    BY <1>1
  <2>3. k = <<k[1], k[2]>> /\ k[1] = heap[g].id /\ k[2] = s
    BY Zenon
  <2> HIDE DEF k, g, s
  <2> QED
    BY <1>2, <2>1, <2>2, <2>3, Zenon
<1>21. heap' = [heap EXCEPT ![g] = new] /\ heap \in Seq(TileGroups)
  BY <1>1, <1>2, Zenon
<1>22. s < tuples_per_tilegroup
  BY <1>1, Zenon
<1> HIDE DEF new, s, g, h, k
<1>8. heap'[g] = new /\ \A x \in 1 .. Len(heap) : x # g => heap'[x] = heap[x]
  BY <1>20, <1>21
<1>9. GetTileGroup(l[1])' = new /\ GetTileGroup(l[1]) = heap[g]
  BY <1>8, <1>20, Zenon DEF GetTileGroup
<1>10. \A id \in DOMAIN locator : id # l[1] => GetTileGroup(id)' = GetTileGroup(id)
  <2>1. \A id \in DOMAIN locator : locator[id] \in 1 .. Len(heap) /\ heap[locator[id]].id = id
    BY DEF TypeInv, Directory
  <2>2. ASSUME NEW id \in DOMAIN locator, id # l[1] PROVE GetTileGroup(id)' = GetTileGroup(id)
    <3>1. locator[id] # g
      BY <1>20, <2>1, <2>2, Zenon
    <3> QED
      BY <1>8, <1>20, <2>1, <3>1, Zenon DEF GetTileGroup
  <2> QED
    BY <2>2, Zenon
<1>11. Header(l)' = h /\ TupleAt(l)' = frame[t].tuple
  BY <1>3, <1>4, <1>7, <1>9, <1>20, Zenon DEF Header, TupleAt
<1>12. ASSUME NEW m \in Locs \ {l}
       PROVE  Header(m)' = Header(m) /\ TupleAt(m)' = TupleAt(m)
  <2>1. m = <<m[1], m[2]>> /\ m[1] \in DOMAIN locator /\ m[2] \in Slots
    BY DEF Locs
  <2>2. CASE m[1] # l[1]
    BY <1>10, <2>1, <2>2, ZenonT(60) DEF Header, TupleAt
  <2>3. CASE m[1] = l[1]
    <3>1. m[2] # s
      BY <1>20, <2>1, <2>3, Zenon
    <3> QED
      BY <1>4, <1>7, <1>9, <2>1, <2>3, <3>1 DEF Header, TupleAt
  <2> QED
    BY <2>2, <2>3, Zenon
<1>13. NextSlot(l[1])' = s + 1 /\ NextSlot(l[1]) = s
  BY <1>4, <1>9, Zenon DEF NextSlot, s
<1>14. \A id \in DOMAIN locator : id # l[1] => NextSlot(id)' = NextSlot(id)
  BY <1>10, Zenon DEF NextSlot
<1>15. l \notin Used /\ Used' = Used \cup {l}
  <2>1. l \notin Used
    BY <1>3, <1>13, <1>20 DEF Used
  <2>2. ASSUME NEW m \in Locs PROVE m[2] < NextSlot(m[1])' <=> m[2] < NextSlot(m[1]) \/ m = l
    <3>1. m = <<m[1], m[2]>> /\ m[1] \in DOMAIN locator /\ m[2] \in Nat
      BY DataTableAssumption DEF Locs, Slots
    <3>2. CASE m[1] = l[1]
      BY <1>3, <1>13, <1>20, <3>1, <3>2
    <3>3. CASE m[1] # l[1]
      BY <1>14, <3>1, <3>3, Zenon
    <3> QED
      BY <3>2, <3>3, Zenon
  <2> QED
    BY <1>20, <2>1, <2>2, Zenon DEF Used
<1>16. \A id \in DOMAIN locator : NextSlot(id) = tuples_per_tilegroup => NextSlot(id)' = NextSlot(id)
  BY <1>3, <1>13, <1>14, <1>22, DataTableAssumption
<1>17. Claimed(l, frame[t].tuple, t)
  BY <1>20, <1>11, <1>12, <1>15, <1>16, Zenon DEF Claimed, h
<1>18. \A x \in 1 .. Len(heap) : heap'[x].id = heap[x].id
  BY <1>4, <1>8, Zenon
<1> QED
  BY <1>6, <1>17, <1>18, Zenon DEF g

-----------------------------------------------------------------------------
(* Structure is inductive.                                                 *)

(* While a tile group is being transformed no transaction takes a step.    *)
LEMMA TransformAlone ==
  ASSUME Overlap = FALSE, Copied, NEW t \in Txns, TxnStep(t)
  PROVE  transform.phase = "idle"
<1>1. CASE Begin(t)
  BY <1>1, Zenon DEF Begin
<1>2. CASE ~Begin(t)
  <2>1. pc[t] \notin {"idle", "done"}
    BY <1>2, Zenon DEF TxnStep, InsertStep, InsertTuple, LastTileGroup, LoadStorage, LoadElement, TileGroupInsertTuple,
       GetTileGroupWithLayout, AddDefaultTileGroup, CheckIndex, InsertEntry, DeleteTuple, Commit, Abort
  <2> QED
    BY <2>1, Zenon DEF Copied, Idle
<1> QED
  BY <1>1, <1>2, Zenon

(* There is one tile group and nothing is being transformed.               *)
LEMMA StructureInit ==
  ASSUME Init
  PROVE  Structure
  BY DEF Init, Structure, Fresh, Current, Copied, GroupsFull, NoTransform

(* A step that leaves the directory, its objects and the vector alone and  *)
(* after which no other thread is about to add a tile group or to claim a  *)
(* slot than before.                                                       *)
LEMMA StructureKept ==
  ASSUME Structure, UNCHANGED <<tile_groups, locator, transform>>,
         transform.phase = "idle",
         \A t \in Txns : pc'[t] = "add" => pc[t] = "add" /\ frame'[t].oid = frame[t].oid,
         \A t \in Txns : pc'[t] = "claim" => pc[t] = "claim" /\ frame'[t].group = frame[t].group,
         \A t \in Txns : pc[t] = "claim" => heap'[frame[t].group].id = heap[frame[t].group].id,
         \A n \in 1 .. Len(tile_groups) - 1 :
           NextSlot(tile_groups[n]) = tuples_per_tilegroup => NextSlot(tile_groups[n])' = tuples_per_tilegroup
  PROVE  Structure'
<1>1. Fresh'
  BY ZenonT(60) DEF Structure, Fresh
<1>2. Current'
  BY ZenonT(60) DEF Structure, Current
<1>3. Copied'
  BY Zenon DEF Structure, Copied
<1>4. GroupsFull'
  BY Zenon DEF Structure, GroupsFull, NextSlot
<1> QED
  BY <1>1, <1>2, <1>3, <1>4, Zenon DEF Structure

(* The steps of a thread that neither begin to claim nor to add.           *)
LEMMA StructureAlone ==
  ASSUME TypeInv, Structure, NEW t \in Txns, Alone(t), UNCHANGED <<tile_groups, locator, transform>>,
         transform.phase = "idle", pc'[t] \notin {"add", "claim"},
         \A g \in 1 .. Len(heap) : heap'[g].id = heap[g].id,
         \A id \in DOMAIN locator : NextSlot(id) = tuples_per_tilegroup => NextSlot(id)' = NextSlot(id)
  PROVE  Structure'
<1>1. \A u \in Txns : pc'[u] \in {"add", "claim"} => pc[u] = pc'[u] /\ frame'[u] = frame[u]
  BY Zenon DEF Alone
<1>2. \A u \in Txns : pc[u] = "claim" => frame[u].group \in 1 .. Len(heap)
  BY DEF TypeInv, FrameOK
<1>3. \A n \in 1 .. Len(tile_groups) - 1 : tile_groups[n] \in DOMAIN locator
  <2>1. tile_groups \in Seq(DOMAIN locator) /\ Len(tile_groups) \in Nat
    BY Lengths, Zenon DEF TypeInv, Directory
  <2> QED
    BY <2>1
<1>4. \A n \in 1 .. Len(tile_groups) - 1 :
        NextSlot(tile_groups[n]) = tuples_per_tilegroup => NextSlot(tile_groups[n])' = tuples_per_tilegroup
  BY <1>3, Zenon
<1> QED
  BY <1>1, <1>2, <1>4, StructureKept, Zenon

(* What the actions of a thread that write no tile group leave alone.      *)
LEMMA ReadingAlone ==
  ASSUME TypeInv, NEW t \in Txns, Reading(t)
  PROVE  /\ Alone(t) /\ UNCHANGED <<tile_groups, locator, transform, heap>>
         /\ pc'[t] \notin {"add", "claim"}
<1>1. /\ pc \in [Txns -> PCs] /\ frame \in [Txns -> Frames]
  BY DEF TypeInv, Threads
<1>2. CASE Begin(t)
  BY <1>1, <1>2, Zenon DEF Begin, Alone
<1>3. CASE InsertTuple(t)
  BY <1>1, <1>3, Zenon DEF InsertTuple, Alone
<1>4. CASE LastTileGroup(t)
  BY <1>1, <1>4, Zenon DEF LastTileGroup, Alone
<1>5. CASE LoadStorage(t)
  BY <1>1, <1>5, Zenon DEF LoadStorage, Alone
<1>6. CASE CheckIndex(t)
  <2> USE <1>1, <1>6
  <2>1. UNCHANGED <<tile_groups, locator, transform, heap>> /\ pc[t] = "check"
    BY Zenon DEF CheckIndex
  <2>2. Alone(t) /\ (pc' = pc \/ pc'[t] \in {"failed", "enter"})
    BY DEF CheckIndex, Alone
  <2> QED
    BY <2>1, <2>2, Zenon
<1>7. CASE InsertEntry(t)
  <2> USE <1>1, <1>7
  <2>1. UNCHANGED <<tile_groups, locator, transform, heap>> /\ pc[t] = "enter"
    BY DEF InsertEntry
  <2>2. Alone(t) /\ (pc' = pc \/ pc'[t] = "running")
    BY DEF InsertEntry, RecordInsert, Alone
  <2> QED
    BY <2>1, <2>2, Zenon
<1> QED
  BY <1>2, <1>3, <1>4, <1>5, <1>6, <1>7, Zenon DEF Reading

(* The object that a thread loads is the one that the directory has.       *)
LEMMA LoadElementStructure ==
  ASSUME TypeInv, Structure, transform.phase = "idle", NEW t \in Txns, LoadElement(t)
  PROVE  Structure'
<1>1. /\ pc \in [Txns -> PCs] /\ frame \in [Txns -> Frames] /\ pc[t] = "element"
      /\ UNCHANGED <<tile_groups, locator, transform, heap>>
  BY Zenon DEF LoadElement, TypeInv, Threads
<1>2. Untouched
  BY <1>1, SameUntouched, Zenon
<1>3. CASE UNCHANGED <<frame, pc>>
  <2>1. Alone(t)
    BY <1>3, Zenon DEF Alone
  <2> QED
    BY <1>1, <1>2, <1>3, <2>1, StructureAlone, Zenon DEF Untouched
<1>4. CASE \E id \in DOMAIN locator : frame' = [frame EXCEPT ![t].group = locator[id], ![t].offset = 0, ![t].storage = 0]
                                      /\ pc' = [pc EXCEPT ![t] = "claim"]
  <2>1. PICK id \in DOMAIN locator :
          frame' = [frame EXCEPT ![t].group = locator[id], ![t].offset = 0, ![t].storage = 0]
    BY <1>4, Zenon
  <2>2. locator[id] \in Nat /\ heap[locator[id]].id = id
    BY Lengths DEF TypeInv, Directory
  <2>3. frame'[t].group = locator[id] /\ \A u \in Txns \ {t} : frame'[u] = frame[u]
    BY <1>1, <2>1, <2>2, FrameLoad, Zenon
  <2>4. pc'[t] = "claim" /\ \A u \in Txns \ {t} : pc'[u] = pc[u]
    BY <1>1, <1>4, Zenon
  <2>5. Fresh'
    BY <1>1, <2>3, <2>4, Zenon DEF Structure, Fresh
  <2>6. Current'
    BY <1>1, <2>2, <2>3, <2>4, ZenonT(60) DEF Structure, Current
  <2>7. Copied' /\ GroupsFull'
    BY <1>1, Zenon DEF Structure, Copied, GroupsFull, GetTileGroup
  <2> QED
    BY <2>5, <2>6, <2>7, Zenon DEF Structure
<1>5. frame[t].storage = Capacity(Len(tile_groups)) => tile_groups[frame[t].offset + 1] \in DOMAIN locator
  <2>1. frame[t].offset < Len(tile_groups) /\ tile_groups \in Seq(DOMAIN locator) /\ Len(tile_groups) \in Nat
    BY <1>1, Lengths, ZenonT(60) DEF TypeInv, FrameOK, Directory
  <2>2. frame[t].offset \in Nat
    BY <1>1, Zenon DEF Frames
  <2> QED
    BY <2>1, <2>2
<1> QED
  BY <1>3, <1>4, <1>5, Zenon DEF LoadElement

(* Claiming a slot fills a tile group up, never empties it.                *)
LEMMA ClaimStructure ==
  ASSUME TypeInv, Structure, transform.phase = "idle", NEW t \in Txns, TileGroupInsertTuple(t)
  PROVE  Structure'
<1>1. /\ pc \in [Txns -> PCs] /\ frame \in [Txns -> Frames]
      /\ UNCHANGED <<tile_groups, locator, transform>>
  BY DEF TileGroupInsertTuple, TypeInv, Threads
<1>2. CASE pc'[t] = "check"
  <2>1. PICK l : l = frame'[t].location
    BY Zenon
  <2>2. /\ Claimed(l, frame[t].tuple, t) /\ \A u \in Txns \ {t} : frame'[u] = frame[u]
        /\ \A g \in 1 .. Len(heap) : heap'[g].id = heap[g].id
    BY <1>2, <2>1, ClaimClaimed, Zenon DEF Structure
  <2>3. Alone(t)
    BY <1>1, <2>2, Zenon DEF Alone, TileGroupInsertTuple
  <2> QED
    BY <1>1, <1>2, <2>2, <2>3, StructureAlone, Zenon DEF Claimed
<1>3. CASE pc' = [pc EXCEPT ![t] = "full"] /\ UNCHANGED heap /\ frame' = [frame EXCEPT ![t].group = 0]
  <2>1. Alone(t) /\ pc'[t] = "full"
    BY <1>1, <1>3, Zenon DEF Alone
  <2>2. Untouched
    BY <1>1, <1>3, SameUntouched, Zenon
  <2> QED
    BY <1>1, <1>3, <2>1, <2>2, StructureAlone, Zenon DEF Untouched
<1> QED
  BY <1>1, <1>2, <1>3, Zenon DEF TileGroupInsertTuple

(* A new oid is nobody else's.                                             *)
LEMMA NewOidStructure ==
  ASSUME TypeInv, Structure, transform.phase = "idle", NEW t \in Txns, GetTileGroupWithLayout(t)
  PROVE  Structure'
<1>1. /\ pc \in [Txns -> PCs] /\ frame \in [Txns -> Frames] /\ oid \in Nat
      /\ UNCHANGED <<tile_groups, locator, transform, heap>> /\ pc[t] = "full"
      /\ frame' = [frame EXCEPT ![t].oid = oid + 1] /\ pc' = [pc EXCEPT ![t] = "add"]
  BY Zenon DEF GetTileGroupWithLayout, TypeInv, Threads, Directory
<1>2. frame'[t].oid = oid + 1 /\ \A u \in Txns \ {t} : frame'[u] = frame[u]
  BY <1>1, FrameOid
<1>3. \A u \in Txns \ {t} : pc'[u] = pc[u]
  BY <1>1
<1>4. oid + 1 \notin DOMAIN locator /\ \A u \in Txns : pc[u] = "add" => frame[u].oid # oid + 1
  BY <1>1 DEF TypeInv, Directory, FrameOK
<1>5. Fresh'
  BY <1>1, <1>2, <1>3, <1>4 DEF Structure, Fresh
<1>6. Current'
  BY <1>1, <1>2, <1>3, Zenon DEF Structure, Current
<1>7. Copied' /\ GroupsFull'
  BY <1>1 DEF Structure, Copied, GroupsFull, GetTileGroup
<1> QED
  BY <1>5, <1>6, <1>7, Zenon DEF Structure

(* A tile group is added only when the last one is full.                   *)
LEMMA AddStructure ==
  ASSUME TypeInv, Structure, transform.phase = "idle", NEW t \in Txns, AddDefaultTileGroup(t)
  PROVE  Structure' /\ Untouched
<1>1. /\ pc \in [Txns -> PCs] /\ frame \in [Txns -> Frames] /\ UNCHANGED <<oid, transform>>
      /\ pc[t] = "add" /\ frame' = [frame EXCEPT ![t].oid = 0] /\ pc' = [pc EXCEPT ![t] = "count"]
  BY DEF AddDefaultTileGroup, TypeInv, Threads
<1>2. Alone(t) /\ pc'[t] = "count"
  BY <1>1, Zenon DEF Alone
<1>3. CASE UNCHANGED <<tile_groups, locator, heap>>
  <2>1. Untouched
    BY <1>3, SameUntouched, Zenon
  <2> QED
    BY <1>1, <1>2, <1>3, <2>1, StructureAlone, Zenon DEF Untouched
<1>4. CASE LastIsFull /\ AddTileGroup(frame[t].oid)
  <2>1. PICK id : id = frame[t].oid
    BY Zenon
  <2>2. id \in 1 .. oid \ DOMAIN locator /\ AddTileGroup(id)
    BY <1>1, <1>4, <2>1, ZenonT(60) DEF TypeInv, FrameOK, Structure, Fresh
  <2>3. /\ Untouched /\ DOMAIN locator' = DOMAIN locator \cup {id}
        /\ \A i \in DOMAIN locator : locator'[i] = locator[i]
        /\ \A g \in 1 .. Len(heap) : heap'[g] = heap[g]
    BY <1>1, <2>2, AddUntouched, Zenon
  <2>4. Fresh'
    <3>1. \A u \in Txns \ {t} : pc[u] = "add" => frame[u].oid # id
      BY <1>1, <2>1, Zenon DEF Structure, Fresh
    <3> QED
      BY <1>2, <2>3, <3>1 DEF Structure, Fresh, Alone
  <2>5. Current'
    <3>1. ASSUME NEW u \in Txns, pc'[u] = "claim"
          PROVE  locator'[heap'[frame'[u].group].id] = frame'[u].group
      <4>1. pc[u] = "claim" /\ frame'[u] = frame[u]
        BY <1>2, <3>1, Zenon DEF Alone
      <4>2. frame[u].group \in 1 .. Len(heap) /\ locator[heap[frame[u].group].id] = frame[u].group
            /\ heap[frame[u].group].id \in DOMAIN locator
        BY <4>1, ZenonT(60) DEF TypeInv, Directory, FrameOK, Structure, Current
      <4> QED
        BY <2>3, <4>1, <4>2, Zenon
    <3> QED
      BY <3>1, Zenon DEF Current
  <2>6. Copied'
    BY <1>1, Zenon DEF Copied
  <2>7. GroupsFull'
    <3>1. /\ tile_groups \in Seq(DOMAIN locator) /\ Len(tile_groups) \in Nat \ {0}
          /\ tile_groups' = Append(tile_groups, id)
      BY <2>2, Lengths DEF TypeInv, Directory, AddTileGroup
    <3>2. \A i \in DOMAIN locator : NextSlot(i) \in 0 .. tuples_per_tilegroup
      <4>1. \A g \in DOMAIN heap : heap[g].next \in 0 .. tuples_per_tilegroup
        BY NextType, ZenonT(60) DEF TypeInv, Directory
      <4>2. \A i \in DOMAIN locator : locator[i] \in DOMAIN heap
        BY DEF TypeInv, Directory
      <4> QED
        BY <4>1, <4>2, Zenon DEF NextSlot, GetTileGroup
    <3>3. \A n \in 1 .. Len(tile_groups) : NextSlot(tile_groups[n]) = tuples_per_tilegroup
      <4>1. NextSlot(tile_groups[Len(tile_groups)]) >= tuples_per_tilegroup
        BY <1>4, Zenon DEF LastIsFull, NextSlot
      <4>2. NextSlot(tile_groups[Len(tile_groups)]) = tuples_per_tilegroup
        BY <3>1, <3>2, <4>1, DataTableAssumption
      <4> QED
        BY <3>1, <4>2 DEF Structure, GroupsFull, NextSlot
    <3>4. ASSUME NEW n \in 1 .. Len(tile_groups') - 1
          PROVE  heap'[locator'[tile_groups'[n]]].next = tuples_per_tilegroup
      <4>1. n \in 1 .. Len(tile_groups) /\ tile_groups'[n] = tile_groups[n]
        BY <3>1
      <4>2. PICK i \in DOMAIN locator : i = tile_groups[n]
        BY <3>1, <4>1
      <4>3. NextSlot(i)' = tuples_per_tilegroup
        BY <2>3, <3>3, <4>1, <4>2, Zenon DEF Untouched
      <4> QED
        BY <4>1, <4>2, <4>3, Zenon DEF NextSlot, GetTileGroup
    <3> QED
      BY <3>4, Zenon DEF GroupsFull, GetTileGroup
  <2> QED
    BY <2>3, <2>4, <2>5, <2>6, <2>7, Zenon DEF Structure
<1> QED
  BY <1>3, <1>4, Zenon DEF AddDefaultTileGroup

(* What the three actions write is a header.                               *)
LEMMA WordsType ==
  ASSUME TypeInv, NEW t \in Txns, NEW l \in Locs
  PROVE  DeleteWord(l, t) \in Headers /\ CommitWord(l, t) \in Headers /\ AbortWord(l, t) \in Headers
<1>1. Header(l) \in Headers /\ last_cid + 1 \in Nat
  BY LocationType DEF TypeInv, Registers
<1> QED
  BY <1>1, Zenon DEF Headers, DeleteWord, CommitWord, AbortWord

(* What the three actions write, at which locations.                       *)
LEMMA DeleteWritten ==
  ASSUME TypeInv, NEW t \in Txns, DeleteTuple(t)
  PROVE  \E l \in Locs :
           /\ IsVisible(Header(l), t)
           /\ \/ /\ \/ Header(l).txn_id = INITIAL_TXN_ID /\ Header(l).end = MAX_CID
                    \/ Header(l).txn_id = t
                 /\ Written([x \in {l} |-> DeleteWord(l, t)])
                 /\ deleted_tuples' = [deleted_tuples EXCEPT ![t] = @ \cup {l}]
                 /\ UNCHANGED pc
              \/ pc' = [pc EXCEPT ![t] = "failed"] /\ UNCHANGED <<heap, deleted_tuples>>
<1>1. PICK l \in Locations :
        /\ IsVisible(Header(l), t)
        /\ \/ /\ \/ Header(l).txn_id = INITIAL_TXN_ID /\ Header(l).end = MAX_CID
                 \/ Header(l).txn_id = t
              /\ UpdateHeaders([x \in {l} |-> DeleteWord(l, t)])
              /\ deleted_tuples' = [deleted_tuples EXCEPT ![t] = @ \cup {l}]
              /\ UNCHANGED pc
           \/ pc' = [pc EXCEPT ![t] = "failed"] /\ UNCHANGED <<heap, deleted_tuples>>
  BY Zenon DEF DeleteTuple, DeleteWord
<1>2. l \in Locs
  BY DEF Locations, Locs, TypeInv, Directory
<1>3. UpdateHeaders([x \in {l} |-> DeleteWord(l, t)]) => Written([x \in {l} |-> DeleteWord(l, t)])
  <2> DEFINE new == [x \in {l} |-> DeleteWord(l, t)]
  <2>1. \A x \in DOMAIN new : new[x] \in Headers
    BY <1>2, WordsType, Zenon
  <2>2. UNCHANGED locator
    BY DEF DeleteTuple
  <2> HIDE DEF new
  <2>3. UpdateHeaders(new) => Written(new)
    BY <2>1, <2>2, UpdateWritten, Zenon
  <2> QED
    BY <2>3, Zenon DEF new
<1> QED
  BY <1>1, <1>2, <1>3, Zenon

(* A commit writes the words of everything that the transaction inserted   *)
(* or deleted.                                                             *)
LEMMA CommitWritten ==
  ASSUME TypeInv, NEW t \in Txns, Commit(t)
  PROVE  Written([l \in inserted_tuples[t] \cup deleted_tuples[t] |-> CommitWord(l, t)])
<1> DEFINE new == [l \in inserted_tuples[t] \cup deleted_tuples[t] |-> CommitWord(l, t)]
<1>1. UpdateHeaders(new) /\ UNCHANGED locator
  BY Zenon DEF Commit, CommitWord
<1>2. \A l \in DOMAIN new : new[l] \in Headers
  BY WordsType, Zenon DEF TypeInv, Recorded
<1> HIDE DEF new
<1>3. Written(new)
  BY <1>1, <1>2, UpdateWritten, Zenon
<1> QED
  BY <1>3, Zenon DEF new

(* So does an abort.                                                       *)
LEMMA AbortWritten ==
  ASSUME TypeInv, NEW t \in Txns, Abort(t)
  PROVE  Written([l \in inserted_tuples[t] \cup deleted_tuples[t] |-> AbortWord(l, t)])
<1> DEFINE new == [l \in inserted_tuples[t] \cup deleted_tuples[t] |-> AbortWord(l, t)]
<1>1. UpdateHeaders(new) /\ UNCHANGED locator
  BY Zenon DEF Abort, AbortWord
<1>2. \A l \in DOMAIN new : new[l] \in Headers
  BY WordsType DEF TypeInv, Recorded
<1> HIDE DEF new
<1>3. Written(new)
  BY <1>1, <1>2, UpdateWritten
<1> QED
  BY <1>3, Zenon DEF new

(* What the actions that write headers leave alone.                        *)
LEMMA WritingAlone ==
  ASSUME TypeInv, NEW t \in Txns, Writing(t)
  PROVE  /\ Alone(t) /\ UNCHANGED <<tile_groups, locator, transform>>
         /\ pc'[t] \notin {"add", "claim"}
         /\ \A g \in 1 .. Len(heap) : heap'[g].id = heap[g].id
         /\ \A id \in DOMAIN locator : NextSlot(id)' = NextSlot(id)
<1>1. pc \in [Txns -> PCs] /\ frame' = frame /\ UNCHANGED <<tile_groups, locator, transform>>
      /\ pc[t] \in {"running", "failed"}
  BY Zenon DEF TypeInv, Threads, Writing, DeleteTuple, Commit, Abort
<1>2. \/ pc' = pc \/ pc' = [pc EXCEPT ![t] = "failed"] \/ pc' = [pc EXCEPT ![t] = "done"]
  BY Zenon DEF Writing, DeleteTuple, Commit, Abort
<1>3. Alone(t) /\ pc'[t] \notin {"add", "claim"}
  BY <1>1, <1>2, Zenon DEF Alone
<1>4. heap' = heap \/ \E new : UpdateHeaders(new) /\ \A l \in DOMAIN new : new[l] \in Headers
  <2>1. CASE DeleteTuple(t)
    <3>1. PICK l \in Locations : heap' = heap \/ UpdateHeaders([x \in {l} |-> DeleteWord(l, t)])
      BY <2>1, Zenon DEF DeleteTuple, DeleteWord
    <3>2. l \in Locs
      BY DEF Locations, Locs, TypeInv, Directory
    <3>3. \A x \in {l} : [y \in {l} |-> DeleteWord(l, t)][x] \in Headers
      BY <3>2, WordsType, Zenon
    <3> QED
      BY <3>1, <3>3
  <2>2. CASE Commit(t)
    <3>1. UpdateHeaders([l \in inserted_tuples[t] \cup deleted_tuples[t] |-> CommitWord(l, t)])
      BY <2>2, Zenon DEF Commit, CommitWord
    <3> QED
      BY <3>1, WordsType DEF TypeInv, Recorded
  <2>3. CASE Abort(t)
    <3>1. UpdateHeaders([l \in inserted_tuples[t] \cup deleted_tuples[t] |-> AbortWord(l, t)])
      BY <2>3, Zenon DEF Abort, AbortWord
    <3> QED
      BY <3>1, WordsType DEF TypeInv, Recorded
  <2> QED
    BY <2>1, <2>2, <2>3, Zenon DEF Writing
<1>5. CASE heap' = heap
  BY <1>1, <1>3, <1>5, Zenon DEF NextSlot, GetTileGroup
<1>6. ASSUME NEW new, UpdateHeaders(new), \A l \in DOMAIN new : new[l] \in Headers
      PROVE  /\ \A g \in 1 .. Len(heap) : heap'[g].id = heap[g].id
             /\ \A id \in DOMAIN locator : NextSlot(id)' = NextSlot(id)
  <2>1. \A g \in 1 .. Len(heap) : heap'[g].id = heap[g].id
    BY <1>6, UpdateHeadersType, Zenon DEF TypeInv
  <2>2. Written(new)
    BY <1>1, <1>6, UpdateWritten, Zenon
  <2> QED
    BY <2>1, <2>2, Zenon DEF Written
<1> QED
  BY <1>1, <1>3, <1>4, <1>5, <1>6, ZenonT(60)

(* A transformation between transactions copies a tile group that nobody   *)
(* writes, and replaces it by an equal one.                                *)
LEMMA TransformStructure ==
  ASSUME TypeInv, Structure, Overlap = FALSE, Transform
  PROVE  Structure' /\ Untouched
<1>1. UNCHANGED <<tile_groups, pc, frame>> /\ Idle
  BY DEF Transform, TransformTileGroup, CopyHeader, InstallTransformed, Structure, Copied
<1>2. Fresh' /\ Current'
  BY <1>1, Zenon DEF Idle, Fresh, Current
<1>3. Untouched
  <2>1. CASE InstallTransformed
    BY <2>1, InstallUntouched, Zenon DEF Structure
  <2>2. CASE ~InstallTransformed
    BY <2>2, SameUntouched, Zenon DEF Transform, TransformTileGroup, CopyHeader
  <2> QED
    BY <2>1, <2>2, Zenon
<1>4. GroupsFull'
  <2>1. tile_groups \in Seq(DOMAIN locator) /\ Len(tile_groups) \in Nat
    BY Lengths, Zenon DEF TypeInv, Directory
  <2>2. ASSUME NEW n \in 1 .. Len(tile_groups) - 1
        PROVE  heap'[locator'[tile_groups'[n]]].next = tuples_per_tilegroup
    <3>1. PICK i \in DOMAIN locator : i = tile_groups[n]
      BY <2>1
    <3>2. NextSlot(i)' = tuples_per_tilegroup
      BY <1>3, <3>1, Zenon DEF Untouched, Structure, GroupsFull, NextSlot
    <3> QED
      BY <1>1, <3>1, <3>2, Zenon DEF NextSlot, GetTileGroup
  <2> QED
    BY <1>1, <2>2, Zenon DEF GroupsFull, GetTileGroup
<1>5. Idle'
  BY <1>1 DEF Idle
<1>6. Copied'
  <2>1. CASE TransformTileGroup
    <3>1. /\ UNCHANGED <<heap, locator>> /\ tile_groups \in Seq(DOMAIN locator)
          /\ DOMAIN locator \subseteq 1 .. oid /\ oid \in Nat
      BY <2>1, Zenon DEF TransformTileGroup, TypeInv, Directory
    <3>2. PICK n \in DOMAIN tile_groups :
            transform' = [phase |-> "header", group |-> locator[tile_groups[n]],
                          count |-> transform.count + 1,
                          copy |-> [NewTileGroup(tile_groups[n]) EXCEPT
                                     !.tuple = heap[locator[tile_groups[n]]].tuple]]
      BY <2>1 DEF TransformTileGroup
    <3>3. /\ transform'.phase = "header" /\ transform'.group = locator[tile_groups[n]]
          /\ transform'.copy = [NewTileGroup(tile_groups[n]) EXCEPT
                                 !.tuple = heap[locator[tile_groups[n]]].tuple]
      BY <3>2, Zenon
    <3>4. /\ transform'.copy.id = tile_groups[n]
          /\ transform'.copy.tuple = heap[transform'.group].tuple
      BY <3>3, Zenon DEF NewTileGroup
    <3> QED
      BY <1>5, <3>1, <3>3, <3>4, Zenon DEF Copied
  <2>2. CASE CopyHeader
    <3>1. UNCHANGED <<heap, locator>> /\ transform.phase = "header"
      BY <2>2, Zenon DEF CopyHeader
    <3>2. /\ transform \in Transforms /\ transform.group \in 1 .. Len(heap)
          /\ heap \in Seq(TileGroups)
          /\ \A id \in DOMAIN locator : heap[locator[id]].id = id
          /\ transform.copy.id \in DOMAIN locator
      BY <3>1, Zenon DEF TypeInv, Transforming, Directory
    <3>3. /\ transform.group = locator[transform.copy.id]
          /\ transform.copy.tuple = heap[transform.group].tuple
      BY <3>1, Zenon DEF Structure, Copied
    <3>4. transform.copy \in TileGroups /\ heap[transform.group] \in TileGroups
      BY <3>2 DEF Transforms
    <3>5. transform.copy.id = heap[transform.group].id
      BY <3>2, <3>3, Zenon
    <3> DEFINE g == heap[transform.group]
               copy == [transform.copy EXCEPT !.next = g.next, !.header = g.header]
    <3>6. copy = g
      BY <3>3, <3>4, <3>5, Zenon DEF TileGroups
    <3>7. transform' = [transform EXCEPT !.phase = "install", !.copy = copy]
      BY <2>2, <3>2, <3>4, Zenon DEF CopyHeader, Transforms, TileGroups
    <3> HIDE DEF copy
    <3>8. transform'.group = transform.group /\ transform'.copy = heap[transform.group]
      BY <3>2, <3>6, <3>7 DEF Transforms
    <3> QED
      BY <1>5, <3>1, <3>3, <3>5, <3>8, Zenon DEF Copied
  <2>3. CASE InstallTransformed
    <3>1. transform'.phase = "idle"
      BY <2>3 DEF InstallTransformed, NoTransform
    <3> QED
      BY <3>1 DEF Copied
  <2> QED
    BY <2>1, <2>2, <2>3, Zenon DEF Transform
<1> QED
  BY <1>2, <1>3, <1>4, <1>6, Zenon DEF Structure

(* Every step preserves Structure.                                         *)
LEMMA StructureStep ==
  ASSUME TypeInv, Structure, Overlap = FALSE, [Next]_vars
  PROVE  Structure'
<1>1. CASE UNCHANGED vars
  BY <1>1, Zenon DEF vars, Structure, Fresh, Current, Copied, GroupsFull, Idle, GetTileGroup
<1>2. CASE Transform
  BY <1>2, TransformStructure, Zenon
<1>3. ASSUME NEW t \in Txns, TxnStep(t) PROVE Structure'
  <2>1. transform.phase = "idle"
    BY <1>3, TransformAlone, Zenon DEF Structure
  <2>2. CASE Reading(t)
    <3>1. /\ Alone(t) /\ UNCHANGED <<tile_groups, locator, transform, heap>>
          /\ pc'[t] \notin {"add", "claim"}
      BY <2>2, ReadingAlone
    <3>2. Untouched
      BY <3>1, SameUntouched
    <3> QED
      BY <2>1, <3>1, <3>2, StructureAlone DEF Untouched
  <2>3. CASE Writing(t)
    <3>1. /\ Alone(t) /\ UNCHANGED <<tile_groups, locator, transform>>
          /\ pc'[t] \notin {"add", "claim"}
          /\ \A g \in 1 .. Len(heap) : heap'[g].id = heap[g].id
          /\ \A id \in DOMAIN locator : NextSlot(id)' = NextSlot(id)
      BY <2>3, WritingAlone, Zenon
    <3> QED
      BY <2>1, <3>1, StructureAlone, Zenon
  <2> QED
    BY <1>3, <2>1, <2>2, <2>3, LoadElementStructure, ClaimStructure, NewOidStructure, AddStructure
       DEF TxnStep, InsertStep, Reading, Writing
<1> QED
  BY <1>1, <1>2, <1>3, Zenon DEF Next

(* However many threads find the same tile group full, all tile groups of  *)
(* a table but the last one are full: AddDefaultTileGroup looks again      *)
(* under table_mutex before it adds one, so no slot is lost.               *)
THEOREM TableFilled ==
  ASSUME Overlap = FALSE
  PROVE  Spec => []GroupsFull
<1>1. Init => TypeInv /\ Structure
  BY InitType, StructureInit, Zenon
<1>2. TypeInv /\ Structure /\ [Next]_vars => (TypeInv /\ Structure)'
  BY TypeStep, StructureStep, Zenon
<1>3. Structure => GroupsFull
  BY DEF Structure
<1> QED
  BY <1>1, <1>2, <1>3, PTL DEF Spec

-----------------------------------------------------------------------------
(* Steps as views.                                                         *)

(* Before it claims a slot an insert changes nothing that others see.      *)
LEMMA EarlySteps ==
  ASSUME TypeInv, NEW t \in Txns, UNCHANGED <<locator, heap>>,
         InsertTuple(t) \/ LastTileGroup(t) \/ LoadStorage(t) \/ LoadElement(t) \/ GetTileGroupWithLayout(t)
  PROVE  Quiet
<1>1. pc \in [Txns -> PCs] /\ frame \in [Txns -> Frames]
  BY DEF TypeInv, Threads
<1>2. Same
  BY Zenon DEF InsertTuple, LastTileGroup, LoadStorage, LoadElement, GetTileGroupWithLayout, Same, txnVars
<1>3. /\ pc[t] \in {"running", "count", "load", "element", "full"}
      /\ \E p \in {"count", "load", "claim", "element", "add"} :
           pc' = [pc EXCEPT ![t] = p] \/ UNCHANGED <<pc, frame>>
  BY Zenon DEF InsertTuple, LastTileGroup, LoadStorage, LoadElement, GetTileGroupWithLayout
<1>4. \A u \in Txns \ {t} : frame'[u] = frame[u]
  <2>1. CASE InsertTuple(t)
    BY <1>1, <2>1, Zenon DEF InsertTuple
  <2>2. CASE LastTileGroup(t)
    BY <1>1, <2>2, Zenon DEF LastTileGroup
  <2>3. CASE LoadStorage(t)
    BY <1>1, <2>3, Zenon DEF LoadStorage
  <2>4. CASE LoadElement(t)
    BY <1>1, <2>4, Zenon DEF LoadElement
  <2>5. CASE GetTileGroupWithLayout(t)
    BY <1>1, <2>5, Zenon DEF GetTileGroupWithLayout
  <2> QED
    BY <2>1, <2>2, <2>3, <2>4, <2>5, Zenon
<1>5. Untouched
  BY SameUntouched, Zenon
<1>6. \A u \in Txns : \/ pc'[u] = pc[u] /\ frame'[u] = frame[u]
                      \/ pc[u] \in Early /\ pc'[u] \in Early \cup {"failed"}
  BY <1>1, <1>3, <1>4, Zenon DEF Early
<1> QED
  BY <1>2, <1>5, <1>6, Zenon DEF Quiet

(* TileGroupInsertTuple claims a slot or finds the tile group full.        *)
LEMMA ClaimView ==
  ASSUME TypeInv, Structure, NEW t \in Txns, TileGroupInsertTuple(t)
  PROVE  Quiet \/ Claims(t)
<1>1. /\ pc \in [Txns -> PCs] /\ frame \in [Txns -> Frames] /\ pc[t] = "claim" /\ Same
      /\ UNCHANGED locator
  BY Zenon DEF TypeInv, Threads, TileGroupInsertTuple, Same, txnVars
<1>2. CASE pc' = [pc EXCEPT ![t] = "check"] /\ frame' = [frame EXCEPT
             ![t].location = <<heap[frame[t].group].id, heap[frame[t].group].next>>,
             ![t].group = 0, ![t].itr = index_count]
  <2>1. pc'[t] = "check" /\ \A u \in Txns \ {t} : pc'[u] = pc[u] /\ frame'[u] = frame[u]
    BY <1>1, <1>2, Zenon
  <2>2. PICK l : l = frame'[t].location
    BY Zenon
  <2>3. Claimed(l, frame[t].tuple, t) /\ frame'[t].tuple = frame[t].tuple
    BY <2>1, <2>2, ClaimClaimed, Zenon DEF Structure
  <2>4. frame'[t].itr = index_count
    <3>1. frame[t] \in Frames /\ index_count \in Nat
      BY <1>1, DataTableAssumption, Zenon
    <3> QED
      BY <1>1, <1>2, <3>1, Zenon DEF Frames
  <2> QED
    BY <1>1, <2>1, <2>2, <2>3, <2>4, Zenon DEF Claims, Claimed, Alone
<1>3. CASE pc' = [pc EXCEPT ![t] = "full"] /\ UNCHANGED heap /\ frame' = [frame EXCEPT ![t].group = 0]
  <2>1. Untouched
    BY <1>1, <1>3, SameUntouched, Zenon
  <2> QED
    BY <1>1, <1>3, <2>1, Zenon DEF Quiet, Early
<1> QED
  BY <1>2, <1>3, Zenon DEF TileGroupInsertTuple

(* CheckIndex passes, or fails the insert.                                 *)
LEMMA CheckView ==
  ASSUME TypeInv, NEW t \in Txns, CheckIndex(t)
  PROVE  Checks(t) \/ Fails(t)
<1>1. /\ pc \in [Txns -> PCs] /\ frame \in [Txns -> Frames] /\ pc[t] = "check" /\ Same
      /\ UNCHANGED <<locator, heap>>
  BY Zenon DEF TypeInv, Threads, CheckIndex, Same, txnVars
<1>2. Untouched
  BY <1>1, SameUntouched, Zenon
<1>3. (/\ frame[t].itr \in Unique
       /\ ContainsVisibleEntry(ScanKey(frame[t].itr, frame[t].tuple[frame[t].itr]), t)) <=> Conflict(t)
  BY DEF Conflict, ContainsVisibleEntry, ScanKey
<1>4. \/ pc' = [pc EXCEPT ![t] = "failed"] /\ frame' = [frame EXCEPT ![t] = NoFrame]
      \/ /\ ~Conflict(t) /\ frame[t].itr > 1 /\ UNCHANGED pc
         /\ frame' = [frame EXCEPT ![t].itr = frame[t].itr - 1]
      \/ /\ ~Conflict(t) /\ frame[t].itr = 1 /\ pc' = [pc EXCEPT ![t] = "enter"]
         /\ frame' = [frame EXCEPT ![t].itr = index_count]
  BY <1>3, Zenon DEF CheckIndex
<1>5. frame[t].itr \in 1 .. index_count /\ index_count \in Nat
  BY <1>1, DataTableAssumption, ZenonT(60) DEF TypeInv, FrameOK
<1>6. Alone(t)
  BY <1>1, <1>4, Zenon DEF Alone
<1>7. CASE pc' = [pc EXCEPT ![t] = "failed"]
  BY <1>1, <1>2, <1>6, <1>7, Zenon DEF Fails
<1>8. CASE /\ ~Conflict(t) /\ frame[t].itr > 1 /\ UNCHANGED pc
           /\ frame' = [frame EXCEPT ![t].itr = frame[t].itr - 1]
  <2>1. /\ frame'[t].itr = frame[t].itr - 1 /\ frame'[t].tuple = frame[t].tuple
        /\ frame'[t].location = frame[t].location
    <3>1. frame[t].itr - 1 \in Nat
      BY <1>5
    <3> QED
      BY <1>1, <1>8, <3>1, FrameItr, Zenon
  <2> QED
    BY <1>1, <1>2, <1>6, <1>8, <2>1, Zenon DEF Checks
<1>9. CASE /\ ~Conflict(t) /\ frame[t].itr = 1 /\ pc' = [pc EXCEPT ![t] = "enter"]
           /\ frame' = [frame EXCEPT ![t].itr = index_count]
  <2>1. /\ frame'[t].itr = index_count /\ frame'[t].tuple = frame[t].tuple
        /\ frame'[t].location = frame[t].location
    BY <1>1, <1>5, <1>9, FrameItr, Zenon
  <2> QED
    BY <1>1, <1>2, <1>6, <1>9, <2>1, Zenon DEF Checks
<1> QED
  BY <1>4, <1>7, <1>8, <1>9, Zenon

(* InsertEntry makes one entry.                                            *)
LEMMA EnterView ==
  ASSUME TypeInv, NEW t \in Txns, InsertEntry(t)
  PROVE  Enters(t)
<1> DEFINE i == frame[t].itr
           l == frame[t].location
<1>1. /\ pc \in [Txns -> PCs] /\ frame \in [Txns -> Frames] /\ pc[t] = "enter"
      /\ UNCHANGED <<locator, heap, last_cid, snapshot, cid, deleted_tuples>>
      /\ index' = [index EXCEPT ![i] = @ \cup {<<frame[t].tuple[i], l>>}]
  BY Zenon DEF TypeInv, Threads, InsertEntry
<1>2. i \in 1 .. index_count /\ index \in [1 .. index_count -> SUBSET (Keys \X Locs)]
      /\ inserted_tuples \in [Txns -> SUBSET Locs]
  BY <1>1, Zenon DEF TypeInv, FrameOK, Recorded
<1>3. Untouched
  BY <1>1, SameUntouched, Zenon
<1>4. /\ index'[i] = index[i] \cup {<<frame[t].tuple[i], l>>}
      /\ \A j \in 1 .. index_count \ {i} : index'[j] = index[j]
  BY <1>1, <1>2, Zenon
<1>5. \/ /\ i > 1 /\ UNCHANGED <<pc, inserted_tuples>> /\ frame' = [frame EXCEPT ![t].itr = i - 1]
      \/ /\ i = 1 /\ pc' = [pc EXCEPT ![t] = "running"]
         /\ inserted_tuples' = [inserted_tuples EXCEPT ![t] = @ \cup {l}]
         /\ frame' = [frame EXCEPT ![t] = NoFrame]
  BY Zenon DEF InsertEntry, RecordInsert
<1>6. Alone(t)
  BY <1>1, <1>5, Zenon DEF Alone
<1>7. CASE i > 1 /\ UNCHANGED <<pc, inserted_tuples>> /\ frame' = [frame EXCEPT ![t].itr = i - 1]
  <2>1. i - 1 \in Nat
    BY <1>2, <1>7, DataTableAssumption
  <2>2. /\ frame'[t].itr = i - 1 /\ frame'[t].tuple = frame[t].tuple /\ frame'[t].location = l
    BY <1>1, <1>7, <2>1, FrameItr, Zenon
  <2> QED
    BY <1>1, <1>3, <1>4, <1>6, <1>7, <2>2, ZenonT(60) DEF Enters
<1>8. CASE /\ i = 1 /\ pc' = [pc EXCEPT ![t] = "running"]
           /\ inserted_tuples' = [inserted_tuples EXCEPT ![t] = @ \cup {l}]
  <2>1. /\ pc'[t] = "running" /\ inserted_tuples'[t] = inserted_tuples[t] \cup {l}
        /\ \A u \in Txns \ {t} : inserted_tuples'[u] = inserted_tuples[u]
    BY <1>1, <1>2, <1>8, Zenon
  <2> QED
    BY <1>1, <1>3, <1>4, <1>6, <1>8, <2>1, ZenonT(60) DEF Enters
<1> QED
  BY <1>5, <1>7, <1>8, Zenon

(* DeleteTuple deletes or fails.                                           *)
LEMMA DeleteView ==
  ASSUME TypeInv, NEW t \in Txns, DeleteTuple(t)
  PROVE  Quiet \/ Deletes(t)
<1>1. /\ pc \in [Txns -> PCs] /\ frame \in [Txns -> Frames] /\ pc[t] = "running"
      /\ deleted_tuples \in [Txns -> SUBSET Locs]
      /\ UNCHANGED <<locator, index, frame, last_cid, snapshot, cid, inserted_tuples>>
  BY Zenon DEF TypeInv, Threads, Recorded, DeleteTuple
<1>2. PICK l \in Locs :
           /\ IsVisible(Header(l), t)
           /\ \/ /\ \/ Header(l).txn_id = INITIAL_TXN_ID /\ Header(l).end = MAX_CID
                    \/ Header(l).txn_id = t
                 /\ Written([x \in {l} |-> DeleteWord(l, t)])
                 /\ deleted_tuples' = [deleted_tuples EXCEPT ![t] = @ \cup {l}]
                 /\ UNCHANGED pc
              \/ pc' = [pc EXCEPT ![t] = "failed"] /\ UNCHANGED <<heap, deleted_tuples>>
  BY DeleteWritten, Zenon
<1>3. CASE /\ deleted_tuples' = [deleted_tuples EXCEPT ![t] = @ \cup {l}] /\ UNCHANGED pc
           /\ (Header(l).txn_id = INITIAL_TXN_ID /\ Header(l).end = MAX_CID) \/ Header(l).txn_id = t
           /\ Written([x \in {l} |-> DeleteWord(l, t)])
  <2>1. /\ deleted_tuples'[t] = deleted_tuples[t] \cup {l}
        /\ \A u \in Txns \ {t} : deleted_tuples'[u] = deleted_tuples[u]
    BY <1>1, <1>3, Zenon
  <2> QED
    BY <1>1, <1>2, <1>3, <2>1, Zenon DEF Deletes
<1>4. CASE pc' = [pc EXCEPT ![t] = "failed"] /\ UNCHANGED <<heap, deleted_tuples>>
  <2>1. Untouched /\ Same
    BY <1>1, <1>4, SameUntouched, Zenon DEF Same
  <2> QED
    BY <1>1, <1>4, <2>1, Zenon DEF Quiet, Early
<1> QED
  BY <1>2, <1>3, <1>4, Zenon

(* Begin, Commit and Abort as views.                                       *)
LEMMA EndView ==
  ASSUME TypeInv, NEW t \in Txns
  PROVE  (Commit(t) => Commits(t)) /\ (Abort(t) => Aborts(t)) /\ (Begin(t) => Begins(t))
<1>1. /\ pc \in [Txns -> PCs] /\ cid \in [Txns -> Nat] /\ snapshot \in [Txns -> Nat]
  BY DEF TypeInv, Threads, Registers
<1>2. ASSUME Commit(t) PROVE Commits(t)
  <2>1. /\ pc[t] = "running" /\ pc' = [pc EXCEPT ![t] = "done"] /\ last_cid' = last_cid + 1
        /\ cid' = [cid EXCEPT ![t] = last_cid + 1]
        /\ UNCHANGED <<index, snapshot, inserted_tuples, deleted_tuples, frame>>
    BY <1>2, Zenon DEF Commit
  <2>2. pc'[t] = "done" /\ Alone(t) /\ cid'[t] = last_cid + 1 /\ \A u \in Txns \ {t} : cid'[u] = cid[u]
    BY <1>1, <2>1, Zenon DEF Alone
  <2>3. Written([l \in inserted_tuples[t] \cup deleted_tuples[t] |-> CommitWord(l, t)])
    BY <1>2, CommitWritten, Zenon
  <2> QED
    BY <2>1, <2>2, <2>3, Zenon DEF Commits
<1>3. ASSUME Abort(t) PROVE Aborts(t)
  <2>1. /\ pc[t] \in {"running", "failed"} /\ pc' = [pc EXCEPT ![t] = "done"] /\ UNCHANGED frame /\ Same
    BY <1>3, Zenon DEF Abort, Same, txnVars
  <2>2. pc'[t] = "done" /\ Alone(t)
    BY <1>1, <2>1, Zenon DEF Alone
  <2>3. Written([l \in inserted_tuples[t] \cup deleted_tuples[t] |-> AbortWord(l, t)])
    BY <1>3, AbortWritten
  <2> QED
    BY <2>1, <2>2, <2>3, Zenon DEF Aborts
<1>4. ASSUME Begin(t) PROVE Begins(t)
  <2>1. UNCHANGED <<locator, heap>>
    BY <1>4 DEF Begin
  <2>2. Untouched
    BY <2>1, SameUntouched, Zenon
  <2> QED
    BY <1>1, <1>4, <2>2, Zenon DEF Begin, Begins, Alone
<1> QED
  BY <1>2, <1>3, <1>4, Zenon

(* Every step of the specification has one of these effects.               *)
LEMMA Viewed ==
  ASSUME TypeInv, Structure, Overlap = FALSE, [Next]_vars
  PROVE  ViewNext
<1>1. CASE UNCHANGED vars
  <2>1. Untouched
    BY <1>1, SameUntouched DEF vars
  <2> QED
    BY <1>1, <2>1, Zenon DEF vars, txnVars, Quiet, Same, ViewNext
<1>2. CASE Transform
  <2>1. Untouched
    BY <1>2, TransformStructure, Zenon
  <2>2. UNCHANGED <<pc, frame>> /\ Same
    BY <1>2, Zenon DEF Transform, TransformTileGroup, CopyHeader, InstallTransformed, Same, txnVars
  <2> QED
    BY <2>1, <2>2, Zenon DEF Quiet, ViewNext
<1>3. ASSUME NEW t \in Txns, TxnStep(t) PROVE Quiet \/ View(t)
  <2>1. transform.phase = "idle"
    BY <1>3, TransformAlone, Zenon DEF Structure
  <2>2. CASE InsertTuple(t) \/ LastTileGroup(t) \/ LoadStorage(t) \/ LoadElement(t) \/ GetTileGroupWithLayout(t)
    <3>1. UNCHANGED <<locator, heap>>
      BY <2>2, Zenon DEF InsertTuple, LastTileGroup, LoadStorage, LoadElement, GetTileGroupWithLayout
    <3> QED
      BY <2>2, <3>1, EarlySteps, Zenon
  <2>3. CASE AddDefaultTileGroup(t)
    <3>1. Untouched
      BY <2>1, <2>3, AddStructure, Zenon
    <3>2. /\ pc \in [Txns -> PCs] /\ frame \in [Txns -> Frames] /\ pc[t] = "add" /\ Same
          /\ pc' = [pc EXCEPT ![t] = "count"] /\ frame' = [frame EXCEPT ![t].oid = 0]
      BY <2>3, Zenon DEF TypeInv, Threads, AddDefaultTileGroup, Same, txnVars
    <3> QED
      BY <3>1, <3>2, Zenon DEF Quiet, Early
  <2> QED
    BY <1>3, <2>2, <2>3, ClaimView, CheckView, EnterView, DeleteView, EndView, ZenonT(60)
       DEF TxnStep, InsertStep, View
<1> QED
  BY <1>1, <1>2, <1>3, Zenon DEF Next, ViewNext

-----------------------------------------------------------------------------
(* The theorems.                                                           *)

(* What a transaction inserted stays where InsertTuple put it, with the    *)
(* header that says what became of the transaction, for any number of      *)
(* transactions that insert, delete, commit and abort and tile groups that *)
(* are added or, between transactions, transformed.                        *)
THEOREM InsertsKept ==
  ASSUME Overlap = FALSE
  PROVE  Spec => []Kept
<1>1. Init => TypeInv /\ Structure /\ Tracked
  BY InitType, Bounds, StructureInit, TrackedInit, Zenon
<1>2. TypeInv /\ Structure /\ Tracked /\ [Next]_vars => (TypeInv /\ Structure /\ Tracked)'
  BY TypeStep, Bounds, StructureStep, Viewed, TrackedStep, ZenonT(60)
<1>3. Tracked => Kept
  BY DEF Tracked, Kept, KeptOK, Used
<1> QED
  BY <1>1, <1>2, <1>3, PTL DEF Spec

(* Indexes and table agree, whatever the threads of an insert, a delete,   *)
(* a commit and a growing table do in between.                             *)
THEOREM IndexesAgree ==
  ASSUME Overlap = FALSE
  PROVE  Spec => []Indexed
<1>1. Init => TypeInv /\ Structure /\ Tracked /\ EntriesOK
  BY InitType, Bounds, StructureInit, TrackedInit, EntriesInit, Zenon
<1>2. TypeInv /\ Structure /\ Tracked /\ EntriesOK /\ [Next]_vars
        => (TypeInv /\ Structure /\ Tracked /\ EntriesOK)'
  BY TypeStep, Bounds, StructureStep, Viewed, TrackedStep, EntriesStep, Zenon
<1>3. EntriesOK => Indexed
  <2> SUFFICES ASSUME EntriesOK PROVE Indexed
    OBVIOUS
  <2>1. NoTuple \notin Tuples
    BY DataTableAssumption, Zenon DEF NoTuple
  <2>2. \A i \in 1 .. index_count : \A e \in index[i] :
          TupleAt(e[2]) # NoTuple /\ TupleAt(e[2])[i] = e[1]
    BY <2>1 DEF EntriesOK, Entry
  <2>3. ASSUME NEW t \in Txns, NEW l \in inserted_tuples[t], NEW i \in 1 .. index_count
        PROVE  l \in ScanKey(i, TupleAt(l)[i])
    <3>1. PICK e \in index[i] : e = <<TupleAt(l)[i], l>>
      BY Zenon DEF EntriesOK, Entry
    <3> QED
      BY <3>1 DEF ScanKey
  <2> QED
    BY <2>2, <2>3, Zenon DEF Indexed
<1> QED
  BY <1>1, <1>2, <1>3, PTL DEF Spec

(* The check of unique keys lets two live tuples with the same key in only *)
(* when their inserters ran at the same time, for any number of            *)
(* transactions, indexes and tuples.                                       *)
THEOREM KeysUnique ==
  ASSUME Overlap = FALSE
  PROVE  Spec => []UniqueUnlessConcurrent
<1> DEFINE IInv == TypeInv /\ Structure /\ Tracked /\ EntriesOK /\ Uniqueness
<1>1. Init => IInv
  BY InitType, Bounds, StructureInit, TrackedInit, EntriesInit, UniquenessInit, Zenon
<1>2. ASSUME IInv, [Next]_vars PROVE IInv'
  <2>1. Bounded /\ Bounded' /\ ViewNext
    BY <1>2, TypeStep, Bounds, Viewed, Zenon
  <2>2. TypeInv' /\ Structure' /\ Tracked' /\ EntriesOK'
    BY <1>2, <2>1, TypeStep, StructureStep, TrackedStep, EntriesStep, Zenon
  <2>3. Evolves
    BY <1>2, <2>1, EvolvesStep, Zenon
  <2>4. Owned'
    BY <1>2, <2>1, OwnedStep, Zenon DEF Uniqueness
  <2>5. Origin'
    BY <1>2, <2>1, <2>3, OriginStep, Zenon DEF Uniqueness
  <2>6. ChecksOK'
    BY <1>2, <2>1, <2>3, ChecksStep, Zenon DEF Uniqueness
  <2>7. Distinct'
    BY <1>2, <2>1, <2>2, <2>3, DistinctStep, Zenon DEF Uniqueness
  <2> QED
    BY <2>2, <2>4, <2>5, <2>6, <2>7, Zenon DEF Uniqueness
<1>3. IInv => UniqueUnlessConcurrent
  BY UniqueCorrect
<1> QED
  BY <1>1, <1>2, <1>3, PTL DEF Spec
=============================================================================
