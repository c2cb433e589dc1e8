-------------------------- MODULE DataTableHeaders --------------------------
(***************************************************************************)
(* The header of every slot says what the transactions that hold or held   *)
(* it did: Tracked is preserved by every step, seen as ViewNext describes  *)
(* it.                                                                     *)
(***************************************************************************)
EXTENDS DataTableInvariant, TLAPS

-----------------------------------------------------------------------------
(* Headers and what is written into them.                                  *)

(* The header of a location.                                               *)
LEMMA HeaderType ==
  ASSUME Directory, NEW l \in Locs
  PROVE  l = <<l[1], l[2]>> /\ Header(l) \in Headers
<1>1. l = <<l[1], l[2]>> /\ l[1] \in DOMAIN locator /\ l[2] \in Slots
  BY DEF Locs
<1>2. locator[l[1]] \in 1 .. Len(heap) /\ heap \in Seq(TileGroups)
  BY <1>1 DEF Directory
<1>3. heap[locator[l[1]]] \in TileGroups
  BY <1>2
<1> QED
  BY <1>1, <1>3 DEF Header, GetTileGroup, TileGroups

(* The words of an empty slot, and of one that a transaction has claimed.  *)
LEMMA EmptyOK ==
  /\ EmptySlot.txn_id = INVALID_TXN_ID /\ EmptySlot.begin = MAX_CID /\ EmptySlot.end = MAX_CID
  /\ EmptySlot.txn_id \notin Txns /\ HeaderOK(EmptySlot)
  /\ \A t : /\ [EmptySlot EXCEPT !.txn_id = t].txn_id = t
            /\ [EmptySlot EXCEPT !.txn_id = t].begin = MAX_CID
            /\ [EmptySlot EXCEPT !.txn_id = t].end = MAX_CID
<1>1. /\ EmptySlot.txn_id = INVALID_TXN_ID /\ EmptySlot.begin = MAX_CID /\ EmptySlot.end = MAX_CID
  BY DEF EmptySlot
<1>2. INVALID_TXN_ID \notin Txns /\ INVALID_TXN_ID # INITIAL_TXN_ID
  BY DataTableAssumption
<1> QED
  BY <1>1, <1>2 DEF HeaderOK, EmptySlot

(* A snapshot is a commit id.                                              *)
LEMMA SnapshotBound ==
  ASSUME TypeInv, Bounded, Tracked, NEW t \in Txns
  PROVE  /\ snapshot[t] \in Nat /\ snapshot[t] <= last_cid /\ snapshot[t] < MAX_CID
         /\ last_cid \in Nat /\ MAX_CID \in Nat
<1>1. SnapshotOK(t) /\ snapshot[t] \in Nat
  BY DEF Tracked, TypeInv, Registers
<1> QED
  BY <1>1 DEF SnapshotOK, Bounded

-----------------------------------------------------------------------------
(* Tracked is inductive.                                                   *)

(* Initially one tuple is loaded and all other slots are empty.            *)
LEMMA TrackedInit ==
  ASSUME Init, Bounded
  PROVE  Tracked
<1>2. /\ Locs = {1} \X Slots /\ 0 \in Slots
  BY DataTableAssumption DEF Init, Locs, Slots
<1>3. /\ GetTileGroup(1) = Fill(NewTileGroup(1), 0, Loaded,
                 [txn_id |-> INITIAL_TXN_ID, begin |-> 1, end |-> MAX_CID])
  BY DEF Init, GetTileGroup
<1>4. /\ Header(<<1, 0>>) = [txn_id |-> INITIAL_TXN_ID, begin |-> 1, end |-> MAX_CID]
      /\ \A s \in Slots \ {0} : Header(<<1, s>>) = EmptySlot
      /\ NextSlot(1) = 1
  BY <1>2, <1>3 DEF Header, NextSlot, Fill, NewTileGroup
<1>5. Used = {<<1, 0>>}
  BY <1>2, <1>4, DataTableAssumption DEF Used, Slots
<1>6. last_cid = 1 /\ \A t \in Txns : /\ inserted_tuples[t] = {} /\ deleted_tuples[t] = {} /\ pc[t] = "idle"
                                      /\ snapshot[t] = 0 /\ cid[t] = 0
  BY DEF Init
<1>7. \A l \in Locs : l = <<1, 0>> \/ (Header(l) = EmptySlot /\ l \notin Used)
  BY <1>2, <1>4, <1>5
<1>8. Unused
  BY <1>5, <1>7 DEF Unused
<1>9. HeaderOK(Header(<<1, 0>>)) /\ Header(<<1, 0>>).txn_id \notin Txns
  <2>1. /\ Header(<<1, 0>>).txn_id = INITIAL_TXN_ID
        /\ Header(<<1, 0>>).begin = 1 /\ Header(<<1, 0>>).end = MAX_CID
    BY <1>4
  <2>2. INITIAL_TXN_ID \notin Txns /\ INVALID_TXN_ID # INITIAL_TXN_ID /\ MAX_CID # 1
    BY DataTableAssumption DEF Bounded
  <2> QED
    BY <1>6, <2>1, <2>2 DEF HeaderOK
<1>10. \A l \in Locs : HeaderOK(Header(l)) /\ Header(l).txn_id \notin Txns
  BY <1>7, <1>9, EmptyOK
<1>11. \A t \in Txns : SnapshotOK(t) /\ ClaimOK(t)
  BY <1>6 DEF SnapshotOK, ClaimOK, Entering
<1>12. \A t \in Txns : \A l \in Locs : LatchOK(t, l) /\ DeletedOK(t, l) /\ KeptOK(t, l)
  BY <1>6, <1>10 DEF LatchOK, DeletedOK, KeptOK
<1> QED
  BY <1>6, <1>8, <1>10, <1>11, <1>12 DEF Tracked

(* A step that leaves the contents of the table and the transactions       *)
(* alone.                                                                  *)
LEMMA TrackedQuiet ==
  ASSUME TypeInv, Tracked, Quiet
  PROVE  Tracked'
<1>1. /\ Locs \subseteq Locs' /\ Used' = Used /\ Used \subseteq Locs
      /\ \A l \in Locs : Header(l)' = Header(l) /\ TupleAt(l)' = TupleAt(l)
      /\ \A l \in Locs' \ Locs : Header(l)' = EmptySlot
  BY DEF Quiet, Untouched, Used
<1>2. /\ UNCHANGED <<last_cid, snapshot, cid, inserted_tuples, deleted_tuples>>
  BY DEF Quiet, Same
<1>3. \A t \in Txns : \/ pc'[t] = pc[t] /\ frame'[t] = frame[t]
                      \/ pc[t] \in Early /\ pc'[t] \in Early \cup {"failed"}
  BY DEF Quiet
<1>4. \A t \in Txns : inserted_tuples'[t] \cup deleted_tuples'[t] \subseteq Used'
  BY <1>1, <1>2 DEF Tracked
<1>5. Unused'
  BY <1>1 DEF Tracked, Unused
<1>6. \A l \in Locs' : HeaderOK(Header(l))'
  BY <1>1, <1>2, EmptyOK DEF Tracked, HeaderOK
<1>7. \A t \in Txns : SnapshotOK(t)'
  BY <1>2, <1>3 DEF Tracked, SnapshotOK, Early
<1>8. \A t \in Txns : ClaimOK(t)'
  <2>1. ASSUME NEW t \in Txns, Entering(t)' PROVE ClaimOK(t)'
    <3>1. pc'[t] = pc[t] /\ frame'[t] = frame[t] /\ Entering(t)
      BY <1>3, <2>1 DEF Early, Entering
    <3> QED
      BY <1>1, <1>2, <3>1 DEF Tracked, ClaimOK
  <2> QED
    BY <2>1 DEF ClaimOK
<1>9. ASSUME NEW t \in Txns, NEW l \in Locs'
      PROVE  LatchOK(t, l)' /\ DeletedOK(t, l)' /\ KeptOK(t, l)'
  <2>1. CASE l \in Locs
    <3>1. LatchOK(t, l) /\ DeletedOK(t, l) /\ KeptOK(t, l) /\ Header(l)' = Header(l)
      BY <1>1, <2>1 DEF Tracked
    <3>2. /\ (pc[t] = "idle" <=> pc'[t] = "idle") /\ (pc[t] = "done" <=> pc'[t] = "done")
          /\ (pc[t] \in {"failed", "done"} => pc'[t] \in {"failed", "done"})
          /\ (Entering(t) => Entering(t)' /\ frame'[t] = frame[t])
      BY <1>3 DEF Early, Entering
    <3> QED
      BY <1>2, <3>1, <3>2 DEF LatchOK, DeletedOK, KeptOK
  <2>2. CASE l \notin Locs
    <3>1. l \notin inserted_tuples'[t] /\ l \notin deleted_tuples'[t] /\ Header(l)'.txn_id # t
      BY <1>1, <1>2, <2>2, EmptyOK DEF Tracked
    <3> QED
      BY <3>1 DEF LatchOK, DeletedOK, KeptOK
  <2> QED
    BY <2>1, <2>2
<1> QED
  BY <1>2, <1>4, <1>5, <1>6, <1>7, <1>8, <1>9 DEF Tracked

(* A new transaction has claimed, inserted and deleted nothing.            *)
LEMMA TrackedBegins ==
  ASSUME TypeInv, Tracked, NEW t \in Txns, Begins(t)
  PROVE  Tracked'
<1>1. /\ Locs \subseteq Locs' /\ Used' = Used /\ Used \subseteq Locs
      /\ \A l \in Locs : Header(l)' = Header(l) /\ TupleAt(l)' = TupleAt(l)
      /\ \A l \in Locs' \ Locs : Header(l)' = EmptySlot
  BY DEF Begins, Untouched, Used
<1>2. /\ UNCHANGED <<last_cid, cid, inserted_tuples, deleted_tuples>>
      /\ pc[t] = "idle" /\ pc'[t] = "running" /\ snapshot'[t] = last_cid
      /\ \A u \in Txns \ {t} : pc'[u] = pc[u] /\ frame'[u] = frame[u] /\ snapshot'[u] = snapshot[u]
  BY DEF Begins, Alone
<1>3. \A u \in Txns : inserted_tuples'[u] \cup deleted_tuples'[u] \subseteq Used'
  BY <1>1, <1>2 DEF Tracked
<1>4. Unused'
  BY <1>1 DEF Tracked, Unused
<1>5. \A l \in Locs' : HeaderOK(Header(l))'
  BY <1>1, <1>2, EmptyOK DEF Tracked, HeaderOK
<1>6. last_cid \in Nat /\ last_cid > 0 /\ last_cid' > 0
  BY <1>2 DEF TypeInv, Registers, Tracked
<1>7. \A u \in Txns : SnapshotOK(u)'
  BY <1>2, <1>6 DEF Tracked, SnapshotOK
<1>8. \A u \in Txns : ClaimOK(u)'
  BY <1>1, <1>2 DEF Tracked, ClaimOK, Entering
<1>9. inserted_tuples[t] = {} /\ deleted_tuples[t] = {}
  BY <1>2 DEF Tracked, SnapshotOK
<1>10. ASSUME NEW u \in Txns, NEW l \in Locs'
      PROVE  LatchOK(u, l)' /\ DeletedOK(u, l)' /\ KeptOK(u, l)'
  <2>1. CASE l \in Locs
    <3>1. LatchOK(u, l) /\ DeletedOK(u, l) /\ KeptOK(u, l) /\ Header(l)' = Header(l)
      BY <1>1, <2>1 DEF Tracked
    <3>2. CASE u = t
      <4>1. Header(l).txn_id # t
        BY <1>2, <1>9, <3>1, <3>2 DEF LatchOK
      <4> QED
        BY <1>2, <1>9, <3>1, <3>2, <4>1 DEF LatchOK, DeletedOK, KeptOK
    <3>3. CASE u # t
      BY <1>2, <3>1, <3>3 DEF LatchOK, DeletedOK, KeptOK, Entering
    <3> QED
      BY <3>2, <3>3
  <2>2. CASE l \notin Locs
    <3>1. l \notin inserted_tuples'[u] /\ l \notin deleted_tuples'[u] /\ Header(l)'.txn_id # u
      BY <1>1, <1>2, <2>2, EmptyOK DEF Tracked
    <3> QED
      BY <3>1 DEF LatchOK, DeletedOK, KeptOK
  <2> QED
    BY <2>1, <2>2
<1> QED
  BY <1>3, <1>4, <1>5, <1>6, <1>7, <1>8, <1>10 DEF Tracked

(* The slot that is claimed was nobody's.                                  *)
LEMMA TrackedClaims ==
  ASSUME TypeInv, Tracked, NEW t \in Txns, Claims(t)
  PROVE  Tracked'
<1>1. PICK l \in Locs : l = frame'[t].location /\ Claimed(l, frame[t].tuple, t)
  BY DEF Claims
<1>2. /\ Locs' = Locs /\ l \notin Used /\ Used' = Used \cup {l} /\ Used \subseteq Locs
      /\ Header(l)' = [EmptySlot EXCEPT !.txn_id = t] /\ TupleAt(l)' = frame[t].tuple
      /\ \A m \in Locs \ {l} : Header(m)' = Header(m) /\ TupleAt(m)' = TupleAt(m)
  BY <1>1 DEF Claimed, Used
<1>3. /\ UNCHANGED <<last_cid, snapshot, cid, inserted_tuples, deleted_tuples>>
      /\ pc[t] = "claim" /\ pc'[t] = "check" /\ frame'[t].tuple = frame[t].tuple
      /\ \A u \in Txns \ {t} : pc'[u] = pc[u] /\ frame'[u] = frame[u]
  BY DEF Claims, Same, Alone
<1>4. Header(l)'.txn_id = t /\ Header(l)'.begin = MAX_CID /\ Header(l)'.end = MAX_CID
  BY <1>2, EmptyOK
<1>5. \A u \in Txns : l \notin inserted_tuples[u] \cup deleted_tuples[u]
  BY <1>2 DEF Tracked
<1>6. last_cid' > 0 /\ \A u \in Txns : inserted_tuples'[u] \cup deleted_tuples'[u] \subseteq Used'
  BY <1>2, <1>3 DEF Tracked
<1>7. Unused'
  BY <1>2 DEF Tracked, Unused
<1>8. t \notin {INVALID_TXN_ID, INITIAL_TXN_ID}
  BY DataTableAssumption
<1>9. ASSUME NEW m \in Locs' PROVE HeaderOK(Header(m))'
  <2>1. CASE m = l
    BY <1>4, <1>8, <2>1 DEF HeaderOK
  <2>2. CASE m # l
    <3>1. HeaderOK(Header(m)) /\ Header(m)' = Header(m)
      BY <1>2, <2>2, Zenon DEF Tracked
    <3> QED
      BY <1>3, <3>1 DEF HeaderOK
  <2> QED
    BY <2>1, <2>2
<1>10. \A u \in Txns : SnapshotOK(u)'
  BY <1>3 DEF Tracked, SnapshotOK
<1>11. ASSUME NEW u \in Txns PROVE ClaimOK(u)'
  <2>1. CASE u = t
    BY <1>1, <1>2, <1>3, <1>5, <2>1, Zenon DEF ClaimOK
  <2>2. CASE u # t
    <3>1. ClaimOK(u)
      BY DEF Tracked
    <3> QED
      BY <1>2, <1>3, <2>2, <3>1 DEF ClaimOK, Entering
  <2> QED
    BY <2>1, <2>2
<1>12. ASSUME NEW u \in Txns, NEW m \in Locs'
       PROVE  LatchOK(u, m)' /\ DeletedOK(u, m)' /\ KeptOK(u, m)'
  <2>1. CASE m = l
    <3>1. m \notin inserted_tuples'[u] /\ m \notin deleted_tuples'[u]
      BY <1>3, <1>5, <2>1, Zenon
    <3>2. LatchOK(u, m)'
      BY <1>1, <1>3, <1>4, <2>1, Zenon DEF LatchOK, Entering
    <3> QED
      BY <3>1, <3>2 DEF DeletedOK, KeptOK
  <2>2. CASE m # l
    <3>1. LatchOK(u, m) /\ DeletedOK(u, m) /\ KeptOK(u, m) /\ Header(m)' = Header(m)
      BY <1>2, <2>2, Zenon DEF Tracked
    <3> QED
      BY <1>3, <3>1 DEF LatchOK, DeletedOK, KeptOK, Entering
  <2> QED
    BY <2>1, <2>2
<1> QED
  BY <1>6, <1>7, <1>9, <1>10, <1>11, <1>12 DEF Tracked

(* A check of keys writes nothing; a slot claimed by an insert that fails  *)
(* stays latched, as LatchOK allows.                                       *)
LEMMA TrackedChecks ==
  ASSUME TypeInv, Tracked, NEW t \in Txns, Checks(t) \/ Fails(t)
  PROVE  Tracked'
<1>1. /\ Locs \subseteq Locs' /\ Used' = Used /\ Used \subseteq Locs
      /\ \A l \in Locs : Header(l)' = Header(l) /\ TupleAt(l)' = TupleAt(l)
      /\ \A l \in Locs' \ Locs : Header(l)' = EmptySlot
  BY Zenon DEF Checks, Fails, Untouched, Used
<1>2. /\ UNCHANGED <<last_cid, snapshot, cid, inserted_tuples, deleted_tuples>>
      /\ \A u \in Txns \ {t} : pc'[u] = pc[u] /\ frame'[u] = frame[u]
  BY DEF Checks, Fails, Same, Alone
<1>3. /\ pc[t] = "check"
      /\ \/ pc'[t] = "failed"
         \/ /\ pc'[t] \in {"check", "enter"} /\ frame'[t].tuple = frame[t].tuple
            /\ frame'[t].location = frame[t].location
  BY Zenon DEF Checks, Fails
<1>4. last_cid' > 0 /\ \A u \in Txns : inserted_tuples'[u] \cup deleted_tuples'[u] \subseteq Used'
  BY <1>1, <1>2 DEF Tracked
<1>5. Unused'
  BY <1>1 DEF Tracked, Unused
<1>6. \A l \in Locs' : HeaderOK(Header(l))'
  BY <1>1, <1>2, EmptyOK DEF Tracked, HeaderOK
<1>7. \A u \in Txns : SnapshotOK(u)'
  BY <1>2, <1>3 DEF Tracked, SnapshotOK
<1>8. ASSUME NEW u \in Txns PROVE ClaimOK(u)'
  <2>1. ClaimOK(u)
    BY DEF Tracked
  <2> QED
    BY <1>1, <1>2, <1>3, <2>1 DEF ClaimOK, Entering
<1>9. ASSUME NEW u \in Txns, NEW l \in Locs'
      PROVE  LatchOK(u, l)' /\ DeletedOK(u, l)' /\ KeptOK(u, l)'
  <2>1. CASE l \in Locs
    <3>1. LatchOK(u, l) /\ DeletedOK(u, l) /\ KeptOK(u, l) /\ Header(l)' = Header(l)
      BY <1>1, <2>1, Zenon DEF Tracked
    <3>2. /\ (pc[u] = "idle" <=> pc'[u] = "idle") /\ (pc[u] = "done" <=> pc'[u] = "done")
          /\ (pc[u] \in {"failed", "done"} => pc'[u] \in {"failed", "done"})
          /\ (Entering(u) => (Entering(u)' /\ frame'[u].location = frame[u].location) \/ pc'[u] = "failed")
      BY <1>2, <1>3, Zenon DEF Entering
    <3> QED
      BY <1>2, <3>1, <3>2, Zenon DEF LatchOK, DeletedOK, KeptOK
  <2>2. CASE l \notin Locs
    <3>1. l \notin inserted_tuples'[u] /\ l \notin deleted_tuples'[u] /\ Header(l)'.txn_id # u
      BY <1>1, <1>2, <2>2, EmptyOK, Zenon DEF Tracked
    <3> QED
      BY <3>1 DEF LatchOK, DeletedOK, KeptOK
  <2> QED
    BY <2>1, <2>2, Zenon
<1> QED
  BY <1>4, <1>5, <1>6, <1>7, <1>8, <1>9, Zenon DEF Tracked

(* The slot whose last key has been entered is recorded as inserted.       *)
LEMMA TrackedEnters ==
  ASSUME TypeInv, Tracked, NEW t \in Txns, Enters(t)
  PROVE  Tracked'
<1> DEFINE l == frame[t].location
<1>1. /\ Locs \subseteq Locs' /\ Used' = Used /\ Used \subseteq Locs
      /\ \A m \in Locs : Header(m)' = Header(m) /\ TupleAt(m)' = TupleAt(m)
      /\ \A m \in Locs' \ Locs : Header(m)' = EmptySlot
  BY DEF Enters, Untouched, Used
<1>2. /\ UNCHANGED <<last_cid, snapshot, cid, deleted_tuples>> /\ pc[t] = "enter"
      /\ \A u \in Txns \ {t} : pc'[u] = pc[u] /\ frame'[u] = frame[u] /\ inserted_tuples'[u] = inserted_tuples[u]
  BY DEF Enters, Alone
<1>3. \/ /\ pc'[t] = "enter" /\ inserted_tuples'[t] = inserted_tuples[t]
         /\ frame'[t].tuple = frame[t].tuple /\ frame'[t].location = l
      \/ /\ pc'[t] = "running" /\ inserted_tuples'[t] = inserted_tuples[t] \cup {l}
  BY <1>2 DEF Enters
<1>4. PICK k \in Used : k = l
  BY <1>2, Zenon DEF Tracked, ClaimOK, Entering
<1>5. /\ Header(k).txn_id = t /\ Header(k).begin = MAX_CID
      /\ \A u \in Txns : k \notin inserted_tuples[u] \cup deleted_tuples[u]
  <2>1. ClaimOK(t) /\ Entering(t)
    BY <1>2 DEF Tracked, Entering
  <2>2. /\ Header(k) = [EmptySlot EXCEPT !.txn_id = t]
        /\ \A u \in Txns : k \notin inserted_tuples[u] \cup deleted_tuples[u]
    BY <1>4, <2>1, Zenon DEF ClaimOK
  <2> QED
    BY <2>2, EmptyOK, Zenon
<1>6. last_cid' > 0 /\ \A u \in Txns : inserted_tuples'[u] \cup deleted_tuples'[u] \subseteq Used'
  BY <1>1, <1>2, <1>3, <1>4, Zenon DEF Tracked
<1>7. Unused'
  BY <1>1 DEF Tracked, Unused
<1>8. \A m \in Locs' : HeaderOK(Header(m))'
  BY <1>1, <1>2, EmptyOK DEF Tracked, HeaderOK
<1>9. \A u \in Txns : SnapshotOK(u)'
  BY <1>2, <1>3 DEF Tracked, SnapshotOK
<1>10. ASSUME NEW u \in Txns PROVE ClaimOK(u)'
  <2>1. ClaimOK(u)
    BY DEF Tracked
  <2>2. CASE u = t
    BY <1>1, <1>2, <1>3, <1>4, <2>1, <2>2 DEF ClaimOK, Entering
  <2>3. CASE u # t
    <3>1. SUFFICES ASSUME Entering(u)' PROVE ClaimOK(u)'
      BY DEF ClaimOK
    <3>2. Entering(u) /\ frame'[u] = frame[u]
      BY <1>2, <2>3, <3>1 DEF Entering
    <3>3. frame[u].location # k
      BY <1>5, <2>1, <2>3, <3>2, EmptyOK, Zenon DEF ClaimOK
    <3> QED
      BY <1>1, <1>2, <1>3, <1>4, <2>1, <2>3, <3>2, <3>3 DEF ClaimOK
  <2> QED
    BY <2>2, <2>3, Zenon
<1> HIDE DEF l
<1>11. ASSUME NEW u \in Txns, NEW m \in Locs'
       PROVE  LatchOK(u, m)' /\ DeletedOK(u, m)' /\ KeptOK(u, m)'
  <2>1. CASE m \in Locs
    <3>1. LatchOK(u, m) /\ DeletedOK(u, m) /\ KeptOK(u, m) /\ Header(m)' = Header(m)
      BY <1>1, <2>1, Zenon DEF Tracked
    <3>2. LatchOK(u, m)'
      BY <1>2, <1>3, <1>4, <1>5, <3>1, ZenonT(40) DEF LatchOK, Entering, l
    <3>3. DeletedOK(u, m)'
      BY <1>2, <1>3, <3>1 DEF DeletedOK
    <3>4. KeptOK(u, m)'
      <4>1. CASE m = k /\ u = t
        <5>1. cid[t] = 0
          BY <1>2 DEF Tracked, SnapshotOK
        <5> QED
          BY <1>2, <1>3, <1>5, <3>1, <4>1, <5>1, Zenon DEF KeptOK
      <4>2. CASE m = k /\ u # t
        BY <1>2, <1>5, <4>2, Zenon DEF KeptOK
      <4>3. CASE m # k
        BY <1>2, <1>3, <1>4, <3>1, <4>3 DEF KeptOK
      <4> QED
        BY <4>1, <4>2, <4>3
    <3> QED
      BY <3>2, <3>3, <3>4, Zenon
  <2>2. CASE m \notin Locs
    <3>1. m \notin inserted_tuples'[u] /\ m \notin deleted_tuples'[u] /\ Header(m)'.txn_id # u
      BY <1>1, <1>2, <1>3, <1>4, <2>2, EmptyOK DEF Tracked
    <3> QED
      BY <3>1 DEF LatchOK, DeletedOK, KeptOK
  <2> QED
    BY <2>1, <2>2
<1> QED
  BY <1>6, <1>7, <1>8, <1>9, <1>10, <1>11, Zenon DEF Tracked

(* The words of the header that a delete writes, one by one.               *)
LEMMA DeleteWords ==
  ASSUME TypeInv, NEW t \in Txns, NEW l \in Locs, NEW d, d = DeleteWord(l, t)
  PROVE  /\ d.txn_id = (IF Header(l).txn_id = t THEN INVALID_TXN_ID ELSE t)
         /\ d.begin = Header(l).begin /\ d.end = Header(l).end
<1>1. Header(l) \in Headers
  BY HeaderType DEF TypeInv
<1> QED
  BY <1>1 DEF Headers, DeleteWord

(* Those that a commit writes.                                             *)
LEMMA CommitWords ==
  ASSUME TypeInv, NEW t \in Txns, NEW l \in Locs, NEW c, c = CommitWord(l, t)
  PROVE  /\ Header(l).txn_id # t => c = Header(l)
         /\ Header(l).txn_id = t =>
              /\ c.txn_id = INITIAL_TXN_ID
              /\ c.begin = (IF Header(l).begin = MAX_CID THEN last_cid + 1 ELSE Header(l).begin)
              /\ c.end = (IF Header(l).begin = MAX_CID THEN Header(l).end ELSE last_cid + 1)
<1>1. Header(l) \in Headers
  BY HeaderType DEF TypeInv
<1> QED
  BY <1>1 DEF Headers, CommitWord

(* Those that an abort writes.                                             *)
LEMMA AbortWords ==
  ASSUME TypeInv, NEW t \in Txns, NEW l \in Locs, NEW a, a = AbortWord(l, t)
  PROVE  /\ a.begin = Header(l).begin /\ a.end = Header(l).end
         /\ a.txn_id = (IF Header(l).begin = MAX_CID THEN INVALID_TXN_ID
                        ELSE IF Header(l).txn_id = t THEN INITIAL_TXN_ID ELSE Header(l).txn_id)
         /\ Header(l).begin # MAX_CID /\ Header(l).txn_id # t => a = Header(l)
<1>1. Header(l) \in Headers
  BY HeaderType DEF TypeInv
<1> QED
  BY <1>1 DEF Headers, AbortWord

(* A deleter latches a tuple that nobody holds, or invalidates its own     *)
(* insert.                                                                 *)
LEMMA TrackedDeletes ==
  ASSUME TypeInv, Tracked, NEW t \in Txns, Deletes(t)
  PROVE  Tracked'
<1>1. PICK l \in Locs :
        /\ IsVisible(Header(l), t)
        /\ \/ Header(l).txn_id = INITIAL_TXN_ID /\ Header(l).end = MAX_CID
           \/ Header(l).txn_id = t
        /\ Written([x \in {l} |-> DeleteWord(l, t)])
        /\ deleted_tuples'[t] = deleted_tuples[t] \cup {l}
  BY Zenon DEF Deletes
<1>2. /\ UNCHANGED <<pc, frame, last_cid, snapshot, cid, inserted_tuples>> /\ pc[t] = "running"
      /\ \A u \in Txns \ {t} : deleted_tuples'[u] = deleted_tuples[u]
  BY Zenon DEF Deletes
<1>3. /\ Locs' = Locs /\ Used' = Used /\ Header(l)' = DeleteWord(l, t)
      /\ \A m \in Locs \ {l} : Header(m)' = Header(m)
      /\ \A m \in Locs : TupleAt(m)' = TupleAt(m)
  BY <1>1 DEF Written
<1> DEFINE h == Header(l)
<1>4. /\ Header(l)'.txn_id = (IF h.txn_id = t THEN INVALID_TXN_ID ELSE t)
      /\ Header(l)'.begin = h.begin /\ Header(l)'.end = h.end
  BY <1>3, DeleteWords
<1>5. /\ t \notin {INVALID_TXN_ID, INITIAL_TXN_ID} /\ INVALID_TXN_ID # INITIAL_TXN_ID
      /\ {INVALID_TXN_ID, INITIAL_TXN_ID} \cap Txns = {}
  BY DataTableAssumption
<1>6. /\ h.txn_id # INVALID_TXN_ID /\ (h.txn_id = t) # (snapshot[t] >= h.begin)
  BY <1>1 DEF IsVisible
<1>7. l \in Used
  BY <1>6, EmptyOK DEF Tracked, Unused
<1>8. HeaderOK(h) /\ \A u \in Txns : LatchOK(u, l) /\ DeletedOK(u, l) /\ KeptOK(u, l)
  BY Zenon DEF Tracked
<1>9. /\ snapshot[t] \in Nat /\ cid[t] = 0 /\ h.begin \in Nat
  <2>1. h \in Headers /\ snapshot \in [Txns -> Nat]
    BY HeaderType, Zenon DEF TypeInv, Registers
  <2> QED
    BY <1>2, <2>1 DEF Tracked, SnapshotOK, Headers
<1>10. h.txn_id = t => h.begin = MAX_CID /\ l \in inserted_tuples[t] /\ l \notin deleted_tuples[t]
  BY <1>2, <1>6, <1>8, <1>9, Zenon DEF LatchOK, Entering
<1>11. h.txn_id # t => /\ h.txn_id = INITIAL_TXN_ID /\ h.end = MAX_CID /\ h.begin # MAX_CID
                       /\ h.begin <= snapshot[t] /\ l \notin inserted_tuples[t]
  <2>1. SUFFICES ASSUME h.txn_id # t
                 PROVE  /\ h.txn_id = INITIAL_TXN_ID /\ h.end = MAX_CID /\ h.begin # MAX_CID
                        /\ h.begin <= snapshot[t] /\ l \notin inserted_tuples[t]
    BY Zenon
  <2>2. h.txn_id = INITIAL_TXN_ID /\ h.end = MAX_CID /\ h.begin <= snapshot[t]
    BY <1>1, <1>6, <1>9, <2>1
  <2>3. h.begin # MAX_CID
    BY <1>8, <2>2, Zenon DEF HeaderOK
  <2> QED
    BY <1>5, <1>8, <1>9, <2>1, <2>2, <2>3 DEF KeptOK
<1> HIDE DEF h
<1>12. last_cid' > 0 /\ \A u \in Txns : inserted_tuples'[u] \cup deleted_tuples'[u] \subseteq Used'
  BY <1>1, <1>2, <1>3, <1>7, Zenon DEF Tracked
<1>13. Unused'
  BY <1>3, <1>7, Zenon DEF Tracked, Unused
<1>14. ASSUME NEW m \in Locs' PROVE HeaderOK(Header(m))'
  <2>1. CASE m = l
    BY <1>2, <1>4, <1>5, <1>8, <1>10, <1>11, <2>1, Zenon DEF HeaderOK
  <2>2. CASE m # l
    <3>1. HeaderOK(Header(m)) /\ Header(m)' = Header(m)
      BY <1>3, <2>2, Zenon DEF Tracked
    <3> QED
      BY <1>2, <3>1 DEF HeaderOK
  <2> QED
    BY <2>1, <2>2
<1>15. \A u \in Txns : SnapshotOK(u)'
  BY <1>2 DEF Tracked, SnapshotOK
<1>16. ASSUME NEW u \in Txns PROVE ClaimOK(u)'
  <2>1. ClaimOK(u)
    BY DEF Tracked
  <2>2. SUFFICES ASSUME Entering(u)' PROVE ClaimOK(u)'
    BY DEF ClaimOK
  <2>3. Entering(u) /\ u # t
    BY <1>2, <2>2 DEF Entering
  <2>4. PICK k \in Used : k = frame[u].location
    BY <2>1, <2>3 DEF ClaimOK
  <2>5. Header(k) = [EmptySlot EXCEPT !.txn_id = u] /\ TupleAt(k) = frame[u].tuple
        /\ \A v \in Txns : k \notin inserted_tuples[v] \cup deleted_tuples[v]
    BY <2>1, <2>3, <2>4, Zenon DEF ClaimOK
  <2>6. Header(k).txn_id = u /\ Header(k).begin = MAX_CID
    BY <2>5, EmptyOK, Zenon
  <2>7. k # l
    BY <1>5, <1>10, <1>11, <2>3, <2>6 DEF h
  <2>8. k \in Locs
    BY DEF Used
  <2>9. \A v \in Txns : k \notin inserted_tuples'[v] \cup deleted_tuples'[v]
    BY <1>1, <1>2, <2>5, <2>7
  <2>10. Header(k)' = [EmptySlot EXCEPT !.txn_id = u] /\ TupleAt(k)' = frame'[u].tuple /\ k = frame'[u].location
    BY <1>2, <1>3, <2>4, <2>5, <2>7, <2>8, Zenon
  <2> QED
    BY <1>3, <2>9, <2>10, Zenon DEF ClaimOK
<1>17. ASSUME NEW u \in Txns, NEW m \in Locs'
       PROVE  LatchOK(u, m)' /\ DeletedOK(u, m)' /\ KeptOK(u, m)'
  <2>1. CASE m # l
    <3>1. LatchOK(u, m) /\ DeletedOK(u, m) /\ KeptOK(u, m) /\ Header(m)' = Header(m)
      BY <1>3, <2>1, Zenon DEF Tracked
    <3>2. m \in deleted_tuples'[u] <=> m \in deleted_tuples[u]
      BY <1>1, <1>2, <2>1
    <3> QED
      BY <1>2, <3>1, <3>2, Zenon DEF LatchOK, DeletedOK, KeptOK, Entering
  <2>2. CASE m = l
    <3>1. LatchOK(u, l)'
      BY <1>1, <1>2, <1>4, <1>5, <1>11 DEF LatchOK
    <3>2. DeletedOK(u, l)'
      <4>1. CASE u = t
        BY <1>2, <1>4, <1>5, <1>10, <1>11, <4>1, Zenon DEF DeletedOK
      <4>2. CASE u # t
        <5>1. l \notin inserted_tuples[u] \/ h.txn_id # t
          BY <1>8, <1>10, <4>2 DEF KeptOK
        <5> QED
          BY <1>2, <1>4, <1>5, <1>8, <1>10, <1>11, <4>2, <5>1, Zenon DEF DeletedOK, h
      <4> QED
        BY <4>1, <4>2, Zenon
    <3>3. KeptOK(u, l)'
      <4>1. CASE u = t
        BY <1>1, <1>2, <1>4, <1>5, <1>8, <1>10, <1>11, <4>1, ZenonT(40) DEF KeptOK
      <4>2. CASE u # t
        <5>1. l \notin inserted_tuples[u] \/ h.txn_id # t
          BY <1>8, <1>10, <4>2 DEF KeptOK
        <5> QED
          BY <1>2, <1>4, <1>5, <1>8, <1>10, <1>11, <4>2, <5>1 DEF KeptOK, h
      <4> QED
        BY <4>1, <4>2
    <3> QED
      BY <2>2, <3>1, <3>2, <3>3, ZenonT(60)
  <2> QED
    BY <2>1, <2>2
<1> QED
  BY <1>12, <1>13, <1>14, <1>15, <1>16, <1>17 DEF Tracked

(* A commit writes its commit id into what the transaction has latched,    *)
(* and nothing else has that id.                                           *)
LEMMA TrackedCommits ==
  ASSUME TypeInv, Bounded', Tracked, NEW t \in Txns, Commits(t)
  PROVE  Tracked'
<1> DEFINE R == inserted_tuples[t] \cup deleted_tuples[t]
<1>1. /\ UNCHANGED <<frame, snapshot, inserted_tuples, deleted_tuples>> /\ pc[t] = "running"
      /\ pc'[t] = "done" /\ last_cid' = last_cid + 1 /\ cid'[t] = last_cid + 1
      /\ \A u \in Txns \ {t} : pc'[u] = pc[u] /\ cid'[u] = cid[u]
  BY Zenon DEF Commits, Alone
<1>2. /\ Locs' = Locs /\ Used' = Used
      /\ \A m \in Locs : /\ TupleAt(m)' = TupleAt(m)
                         /\ Header(m)' = IF m \in R THEN CommitWord(m, t) ELSE Header(m)
  BY Zenon DEF Commits, Written
<1>3. /\ t \notin {INVALID_TXN_ID, INITIAL_TXN_ID} /\ INVALID_TXN_ID # INITIAL_TXN_ID
      /\ {INVALID_TXN_ID, INITIAL_TXN_ID} \cap Txns = {}
  BY DataTableAssumption
<1>4. last_cid \in Nat /\ MAX_CID \in Nat /\ last_cid + 1 < MAX_CID /\ cid[t] = 0
  BY <1>1, Zenon DEF Bounded, Tracked, SnapshotOK, TypeInv, Registers
<1>5. ASSUME NEW m \in Locs
      PROVE  /\ HeaderOK(Header(m))
             /\ \A u \in Txns : LatchOK(u, m) /\ DeletedOK(u, m) /\ KeptOK(u, m)
             /\ Header(m).txn_id = t => m \in R
             /\ Header(m).txn_id # t => Header(m)' = Header(m)
             /\ Header(m).txn_id = t /\ Header(m).begin = MAX_CID =>
                  /\ Header(m)'.txn_id = INITIAL_TXN_ID /\ Header(m)'.begin = last_cid + 1
                  /\ Header(m)'.end = Header(m).end /\ m \in inserted_tuples[t] /\ m \notin deleted_tuples[t]
             /\ Header(m).txn_id = t /\ Header(m).begin # MAX_CID =>
                  /\ Header(m)'.txn_id = INITIAL_TXN_ID /\ Header(m)'.begin = Header(m).begin
                  /\ Header(m)'.end = last_cid + 1 /\ m \in deleted_tuples[t]
  <2>1. /\ HeaderOK(Header(m)) /\ \A u \in Txns : LatchOK(u, m) /\ DeletedOK(u, m) /\ KeptOK(u, m)
    BY Zenon DEF Tracked
  <2>2. Header(m).txn_id = t => m \in R
    BY <1>1, <2>1, Zenon DEF LatchOK, Entering
  <2>3. Header(m).txn_id = t => IF Header(m).begin = MAX_CID
                                THEN m \in inserted_tuples[t] /\ m \notin deleted_tuples[t]
                                ELSE m \in deleted_tuples[t]
    BY <1>1, <2>1 DEF LatchOK, Entering
  <2> HIDE DEF R
  <2>4. Header(m)' = IF m \in R THEN CommitWord(m, t) ELSE Header(m)
    BY <1>2, Zenon
  <2> QED
    BY <2>1, <2>2, <2>3, <2>4, CommitWords
<1> HIDE DEF R
<1>6. last_cid' > 0 /\ \A u \in Txns : inserted_tuples'[u] \cup deleted_tuples'[u] \subseteq Used'
  BY <1>1, <1>2, <1>4 DEF Tracked
<1>7. Unused'
  BY <1>2, <1>3, <1>5, EmptyOK, Zenon DEF Tracked, Unused
<1>8. ASSUME NEW m \in Locs' PROVE HeaderOK(Header(m))'
  <2>1. m \in Locs /\ HeaderOK(Header(m))
    BY <1>2, <1>5, Zenon
  <2>2. CASE Header(m).txn_id # t
    <3>1. Header(m)' = Header(m)
      BY <1>5, <2>1, <2>2, Zenon
    <3> QED
      BY <1>1, <1>4, <2>1, <3>1 DEF HeaderOK
  <2>3. CASE Header(m).txn_id = t
    <3>1. /\ Header(m)'.txn_id = INITIAL_TXN_ID
          /\ \/ Header(m)'.begin = last_cid + 1 /\ Header(m)'.end = Header(m).end
             \/ /\ Header(m)'.begin = Header(m).begin /\ Header(m).begin # MAX_CID
                /\ Header(m)'.end = last_cid + 1
      BY <1>5, <2>1, <2>3, Zenon
    <3> QED
      BY <1>1, <1>3, <1>4, <2>1, <3>1 DEF HeaderOK
  <2> QED
    BY <2>2, <2>3, Zenon
<1>9. \A u \in Txns : SnapshotOK(u)'
  <2>1. /\ \A u \in Txns : SnapshotOK(u) /\ snapshot[u] \in Nat /\ cid[u] \in Nat
    BY Zenon DEF Tracked, TypeInv, Registers
  <2>2. SnapshotOK(t)'
    BY <1>1, <1>4, <2>1 DEF SnapshotOK
  <2>3. ASSUME NEW u \in Txns \ {t} PROVE SnapshotOK(u)'
    BY <1>1, <1>4, <2>1 DEF SnapshotOK
  <2> QED
    BY <2>2, <2>3, Zenon
<1>10. ASSUME NEW u \in Txns PROVE ClaimOK(u)'
  <2>1. ClaimOK(u)
    BY DEF Tracked
  <2>2. SUFFICES ASSUME Entering(u)' PROVE ClaimOK(u)'
    BY Zenon DEF ClaimOK
  <2>3. Entering(u) /\ u # t
    BY <1>1, <2>2 DEF Entering
  <2>4. PICK k \in Used : k = frame[u].location
    BY <2>1, <2>3 DEF ClaimOK
  <2>5. Header(k) = [EmptySlot EXCEPT !.txn_id = u] /\ TupleAt(k) = frame[u].tuple
        /\ \A v \in Txns : k \notin inserted_tuples[v] \cup deleted_tuples[v]
    BY <2>1, <2>3, <2>4, Zenon DEF ClaimOK
  <2>6. Header(k).txn_id = u
    BY <2>5, EmptyOK
  <2>7. k \in Locs
    BY DEF Used
  <2>8. Header(k)' = Header(k) /\ TupleAt(k)' = TupleAt(k)
    BY <1>2, <1>5, <2>3, <2>6, <2>7
  <2> QED
    BY <1>1, <1>2, <2>4, <2>5, <2>8, Zenon DEF ClaimOK
<1>11. ASSUME NEW u \in Txns, NEW m \in Locs'
       PROVE  LatchOK(u, m)' /\ DeletedOK(u, m)' /\ KeptOK(u, m)'
  <2>1. LatchOK(u, m)'
    <3>1. LatchOK(u, m) /\ m \in Locs
      BY <1>2, <1>5, Zenon
    <3>2. CASE u = t
      BY <1>3, <1>5, <3>1, <3>2, Zenon DEF LatchOK
    <3>3. CASE u # t
      <4>1. Header(m)'.txn_id = u => Header(m)' = Header(m)
        BY <1>3, <1>5, <3>1, <3>3, ZenonT(60)
      <4> QED
        BY <1>1, <3>1, <3>3, <4>1 DEF LatchOK, Entering
    <3> QED
      BY <3>2, <3>3, Zenon
  <2>2. DeletedOK(u, m)'
    BY <1>1, <1>2, <1>3, <1>5 DEF DeletedOK
  <2>3. KeptOK(u, m)'
    <3>1. KeptOK(u, m) /\ m \in Locs
      BY <1>2, <1>5, Zenon
    <3>2. CASE u = t
      <4>1. CASE m \in inserted_tuples[t] /\ m \in deleted_tuples[t]
        <5>1. Header(m).begin = MAX_CID /\ Header(m).txn_id = INVALID_TXN_ID
          BY <3>1, <3>2, <4>1, Zenon DEF KeptOK
        <5>2. Header(m)' = Header(m)
          BY <1>3, <1>5, <3>1, <5>1, Zenon
        <5> QED
          BY <1>1, <3>1, <3>2, <4>1, <5>1, <5>2, Zenon DEF KeptOK
      <4>2. CASE m \in inserted_tuples[t] /\ m \notin deleted_tuples[t]
        <5>1. Header(m).begin = MAX_CID /\ Header(m).txn_id = t
          BY <1>1, <1>4, <3>1, <3>2, <4>2, Zenon DEF KeptOK
        <5>2. Header(m)'.begin = cid'[t]
          BY <1>1, <1>5, <3>1, <5>1, Zenon
        <5>3. cid'[t] # 0
          BY <1>1, <1>4
        <5> QED
          BY <1>1, <3>1, <3>2, <4>2, <5>2, <5>3, Zenon DEF KeptOK
      <4> QED
        BY <1>1, <3>2, <4>1, <4>2, Zenon DEF KeptOK
    <3>3. CASE u # t
      <4>1. cid[u] \in Nat /\ cid[u] <= last_cid
        BY Zenon DEF Tracked, SnapshotOK, TypeInv, Registers
      <4> QED
        BY <1>1, <1>3, <1>4, <1>5, <3>1, <3>3, <4>1, ZenonT(60) DEF KeptOK
    <3> QED
      BY <3>2, <3>3, Zenon
  <2> QED
    BY <2>1, <2>2, <2>3, Zenon
<1> QED
  BY <1>6, <1>7, <1>8, <1>9, <1>10, <1>11, Zenon DEF Tracked

(* An abort invalidates inserts and releases the latches of deletes.       *)
LEMMA TrackedAborts ==
  ASSUME TypeInv, Tracked, NEW t \in Txns, Aborts(t)
  PROVE  Tracked'
<1> DEFINE R == inserted_tuples[t] \cup deleted_tuples[t]
<1>1. /\ UNCHANGED <<frame, last_cid, cid, snapshot, inserted_tuples, deleted_tuples>>
      /\ pc[t] \in {"running", "failed"} /\ pc'[t] = "done"
      /\ \A u \in Txns \ {t} : pc'[u] = pc[u]
  BY Zenon DEF Aborts, Alone, Same
<1>2. /\ Locs' = Locs /\ Used' = Used
      /\ \A m \in Locs : /\ TupleAt(m)' = TupleAt(m)
                         /\ Header(m)' = IF m \in R THEN AbortWord(m, t) ELSE Header(m)
  BY Zenon DEF Aborts, Written
<1>3. /\ t \notin {INVALID_TXN_ID, INITIAL_TXN_ID} /\ INVALID_TXN_ID # INITIAL_TXN_ID
      /\ {INVALID_TXN_ID, INITIAL_TXN_ID} \cap Txns = {}
  BY DataTableAssumption, Zenon
<1>4. cid[t] = 0
  BY <1>1, Zenon DEF Tracked, SnapshotOK
<1>5. ASSUME NEW m \in Locs
      PROVE  /\ HeaderOK(Header(m))
             /\ \A u \in Txns : LatchOK(u, m) /\ DeletedOK(u, m) /\ KeptOK(u, m)
             /\ Header(m)'.begin = Header(m).begin /\ Header(m)'.end = Header(m).end
             /\ Header(m)'.txn_id = IF m \in R /\ Header(m).begin = MAX_CID THEN INVALID_TXN_ID
                                    ELSE IF m \in R /\ Header(m).txn_id = t THEN INITIAL_TXN_ID
                                    ELSE Header(m).txn_id
             /\ m \notin R => Header(m)' = Header(m)
             /\ m \in R /\ Header(m).begin = MAX_CID => m \in inserted_tuples[t]
  <2>1. /\ HeaderOK(Header(m)) /\ \A u \in Txns : LatchOK(u, m) /\ DeletedOK(u, m) /\ KeptOK(u, m)
    BY Zenon DEF Tracked
  <2>2. m \in R /\ Header(m).begin = MAX_CID => m \in inserted_tuples[t]
    BY <1>1, <2>1, Zenon DEF DeletedOK
  <2> HIDE DEF R
  <2>3. Header(m)' = IF m \in R THEN AbortWord(m, t) ELSE Header(m)
    BY <1>2
  <2> QED
    BY <2>1, <2>2, <2>3, AbortWords
<1>6. last_cid' > 0 /\ \A u \in Txns : inserted_tuples'[u] \cup deleted_tuples'[u] \subseteq Used'
  BY <1>1, <1>2, <1>4, Zenon DEF Tracked
<1>7. Unused'
  <2>1. R \subseteq Used
    BY Zenon DEF Tracked
  <2> QED
    BY <1>2, <1>5, <2>1, Zenon DEF Tracked, Unused
<1>8. ASSUME NEW m \in Locs' PROVE HeaderOK(Header(m))'
  <2> HIDE DEF R
  <2> QED
    BY <1>1, <1>2, <1>3, <1>5, Zenon DEF HeaderOK
<1>9. \A u \in Txns : SnapshotOK(u)'
  BY <1>1, <1>4, Zenon DEF Tracked, SnapshotOK
<1>10. ASSUME NEW u \in Txns PROVE ClaimOK(u)'
  <2>1. ClaimOK(u)
    BY DEF Tracked
  <2>2. SUFFICES ASSUME Entering(u)' PROVE ClaimOK(u)'
    BY DEF ClaimOK
  <2>3. Entering(u) /\ u # t
    BY <1>1, <2>2 DEF Entering
  <2>4. PICK k \in Used : k = frame[u].location
    BY <2>1, <2>3 DEF ClaimOK
  <2>5. Header(k) = [EmptySlot EXCEPT !.txn_id = u] /\ TupleAt(k) = frame[u].tuple
        /\ \A v \in Txns : k \notin inserted_tuples[v] \cup deleted_tuples[v]
    BY <2>1, <2>3, <2>4, Zenon DEF ClaimOK
  <2>6. k \notin R /\ k \in Locs
    BY <2>5, Zenon DEF Used
  <2>7. Header(k)' = Header(k) /\ TupleAt(k)' = TupleAt(k)
    BY <1>2, <1>5, <2>6
  <2> QED
    BY <1>1, <1>2, <2>4, <2>5, <2>7, Zenon DEF ClaimOK
<1>11. ASSUME NEW u \in Txns, NEW m \in Locs'
       PROVE  LatchOK(u, m)' /\ DeletedOK(u, m)' /\ KeptOK(u, m)'
  <2>1. LatchOK(u, m)'
    <3>1. LatchOK(u, m) /\ m \in Locs
      BY <1>2, <1>5, Zenon
    <3>2. Header(m)'.txn_id = u => Header(m).txn_id = u
      BY <1>3, <1>5, <3>1, Zenon
    <3>3. CASE u = t
      <4>1. Header(m)'.txn_id = t => Header(m)'.begin = MAX_CID
        BY <1>3, <1>5, <3>1, <3>2, <3>3, ZenonT(60) DEF LatchOK
      <4> QED
        BY <1>1, <3>3, <4>1, Zenon DEF LatchOK
    <3>4. CASE u # t
      <4>1. Header(m)'.begin = Header(m).begin
        BY <1>5, <3>1, ZenonT(60)
      <4> QED
        BY <1>1, <3>1, <3>2, <3>4, <4>1 DEF LatchOK, Entering
    <3> QED
      BY <3>3, <3>4, Zenon
  <2>2. DeletedOK(u, m)'
    BY <1>1, <1>2, <1>3, <1>5 DEF DeletedOK
  <2>3. KeptOK(u, m)'
    <3>1. KeptOK(u, m) /\ KeptOK(t, m) /\ m \in Locs
      BY <1>2, <1>5
    <3>2. CASE u = t
      BY <1>1, <1>3, <1>4, <1>5, <3>1, <3>2, ZenonT(40) DEF KeptOK
    <3>3. CASE u # t
      BY <1>1, <1>3, <1>4, <1>5, <3>1, <3>3, Zenon DEF KeptOK
    <3> QED
      BY <3>2, <3>3, Zenon
  <2> QED
    BY <2>1, <2>2, <2>3, Zenon
<1> QED
  BY <1>6, <1>7, <1>8, <1>9, <1>10, <1>11, Zenon DEF Tracked

(* Every step keeps headers and the lists of the transactions together.    *)
LEMMA TrackedStep ==
  ASSUME TypeInv, Bounded', Tracked, ViewNext
  PROVE  Tracked'
<1>1. Quiet \/ \E t \in Txns : View(t)
  BY Zenon DEF ViewNext
<1>2. ASSUME NEW t \in Txns, View(t) PROVE Tracked'
  BY <1>2, TrackedBegins, TrackedClaims, TrackedChecks, TrackedEnters, TrackedDeletes,
     TrackedCommits, TrackedAborts DEF View
<1> QED
  BY <1>1, <1>2, TrackedQuiet
=============================================================================
