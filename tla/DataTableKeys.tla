--------------------------- MODULE DataTableKeys ---------------------------
(***************************************************************************)
(* Indexes and unique keys of DataTable. EntriesOK relates the entries of  *)
(* the indexes to the tuples. Uniqueness is the argument for unique keys:  *)
(* an inserter checks each unique index before it enters its keys, what it *)
(* did not see then it cannot come to see (Evolves), so two live tuples    *)
(* with the same key have inserters that ran at the same time.             *)
(***************************************************************************)
EXTENDS DataTableHeaders

-----------------------------------------------------------------------------
(* Entries and tuples.                                                     *)

(* The loaded tuple is in every index.                                     *)
LEMMA EntriesInit ==
  ASSUME Init
  PROVE  EntriesOK
<1>1. TupleAt(<<1, 0>>) = Loaded /\ <<1, 0>> \in Used
  <2>1. GetTileGroup(1) = Fill(NewTileGroup(1), 0, Loaded,
                 [txn_id |-> INITIAL_TXN_ID, begin |-> 1, end |-> MAX_CID])
    BY DEF Init, GetTileGroup
  <2>2. 0 \in Slots /\ <<1, 0>> \in Locs
    BY DataTableAssumption DEF Init, Locs, Slots
  <2>3. GetTileGroup(1).next = 1 /\ GetTileGroup(1).tuple[0] = Loaded
    BY <2>1, <2>2 DEF Fill, NewTileGroup
  <2> QED
    BY <2>2, <2>3 DEF TupleAt, Used, NextSlot
<1>2. \A i \in 1 .. index_count : index[i] = {<<Loaded[i], <<1, 0>>>>}
  BY DEF Init
<1>3. \A t \in Txns : inserted_tuples[t] = {} /\ pc[t] = "idle"
  BY DEF Init
<1>4. ASSUME NEW i \in 1 .. index_count, NEW e \in index[i]
      PROVE  e[2] \in Used /\ TupleAt(e[2]) \in Tuples /\ e = Entry(i, e[2])
  <2>1. e = <<Loaded[i], <<1, 0>>>>
    BY <1>2
  <2> QED
    BY <1>1, <2>1, DataTableAssumption DEF Entry
<1> QED
  BY <1>3, <1>4 DEF EntriesOK

(* Tuples of used slots never change, so entries stay right when neither   *)
(* the indexes nor the recorded inserts change.                            *)
LEMMA EntriesKept ==
  ASSUME TypeInv, Tracked, EntriesOK, Used \subseteq Used', \A l \in Used : TupleAt(l)' = TupleAt(l),
         UNCHANGED <<index, inserted_tuples>>,
         \A t \in Txns : pc'[t] = "enter" =>
           (pc[t] = "enter" /\ frame'[t] = frame[t]) \/ frame'[t].itr = index_count
  PROVE  EntriesOK'
<1>1. ASSUME NEW i \in 1 .. index_count, NEW e \in index'[i]
      PROVE  e[2] \in Used' /\ TupleAt(e[2])' \in Tuples /\ e = Entry(i, e[2])'
  <2>1. PICK l \in Used : l = e[2]
    BY DEF EntriesOK
  <2>2. TupleAt(l) \in Tuples /\ e = <<TupleAt(l)[i], l>> /\ TupleAt(l)' = TupleAt(l)
    BY <2>1 DEF EntriesOK, Entry
  <2> QED
    BY <2>1, <2>2 DEF Entry
<1>2. ASSUME NEW t \in Txns, NEW l \in inserted_tuples'[t]
      PROVE  TupleAt(l)' \in Tuples /\ \A i \in 1 .. index_count : Entry(i, l)' \in index'[i]
  <2>1. l \in Used
    BY DEF Tracked
  <2> QED
    BY <2>1 DEF EntriesOK, Entry
<1>3. ASSUME NEW t \in Txns, pc'[t] = "enter", NEW i \in frame'[t].itr + 1 .. index_count
      PROVE  <<TupleAt(frame[t].location)'[i], frame'[t].location>> \in index'[i]
  <2>1. CASE frame'[t].itr = index_count
    BY <2>1, DataTableAssumption
  <2>2. CASE pc[t] = "enter" /\ frame'[t] = frame[t]
    <3>1. PICK l \in Used : l = frame[t].location
      BY <2>2, Zenon DEF Tracked, ClaimOK, Entering
    <3>2. Entry(i, l) \in index[i]
      BY <2>2, <3>1 DEF EntriesOK
    <3>3. frame[t].location' = l
      BY <2>2, <3>1
    <3> QED
      BY <2>2, <3>1, <3>2, <3>3 DEF Entry
  <2> QED
    BY <1>3, <2>1, <2>2
<1> QED
  BY <1>1, <1>2, <1>3 DEF EntriesOK, Entry

(* The entry that is made is the one of the claimed slot, and the last one *)
(* makes the slot an inserted one.                                         *)
LEMMA EntriesEnters ==
  ASSUME TypeInv, Tracked, EntriesOK, NEW t \in Txns, Enters(t)
  PROVE  EntriesOK'
<1>1. PICK l \in Used : l = frame[t].location /\ TupleAt(l) = frame[t].tuple
  BY Zenon DEF Enters, Tracked, ClaimOK, Entering
<1>2. PICK i \in 1 .. index_count : i = frame[t].itr
  BY DEF Enters, TypeInv, FrameOK
<1>3. frame[t].tuple \in Tuples
  BY DEF Enters, TypeInv, FrameOK, Inside
<1>4. /\ index'[i] = index[i] \cup {Entry(i, l)}
      /\ \A j \in 1 .. index_count \ {i} : index'[j] = index[j]
  BY <1>1, <1>2 DEF Enters, Entry
<1>5. Used' = Used /\ \A k \in Used : TupleAt(k)' = TupleAt(k)
  BY DEF Enters, Untouched, Used
<1>6. \A k \in Used : \A j \in 1 .. index_count : Entry(j, k)' = Entry(j, k)
  BY <1>5 DEF Entry
<1>7. ASSUME NEW j \in 1 .. index_count, NEW e \in index'[j]
      PROVE  e[2] \in Used' /\ TupleAt(e[2])' \in Tuples /\ e = Entry(j, e[2])'
  <2>1. PICK k : k = e[2]
    OBVIOUS
  <2>2. CASE e \in index[j]
    <3>1. k \in Used /\ TupleAt(k) \in Tuples /\ e = Entry(j, k)
      BY <2>1, <2>2 DEF EntriesOK
    <3> QED
      BY <1>5, <1>6, <2>1, <3>1
  <2>3. CASE e \notin index[j]
    <3>1. j = i /\ e = Entry(i, l)
      BY <1>4, <2>3
    <3>2. k = l
      BY <2>1, <3>1 DEF Entry
    <3> QED
      BY <1>1, <1>3, <1>5, <1>6, <2>1, <3>1, <3>2
  <2> QED
    BY <2>2, <2>3
<1>8. \A j \in 1 .. index_count : index[j] \subseteq index'[j]
  BY <1>4
<1>9. \A j \in i + 1 .. index_count : Entry(j, l) \in index[j]
  BY <1>1, <1>2 DEF EntriesOK, Enters
<1>10. \A j \in i .. index_count : Entry(j, l) \in index'[j]
  BY <1>2, <1>4, <1>8, <1>9, DataTableAssumption
<1>11. \A u \in Txns \ {t} : pc'[u] = pc[u] /\ frame'[u] = frame[u] /\ inserted_tuples'[u] = inserted_tuples[u]
  BY DEF Enters, Alone
<1>12. \/ i > 1 /\ frame'[t].itr = i - 1 /\ frame'[t].location = l /\ inserted_tuples'[t] = inserted_tuples[t]
       \/ i = 1 /\ pc'[t] = "running" /\ inserted_tuples'[t] = inserted_tuples[t] \cup {l}
  BY <1>1, <1>2 DEF Enters
<1>13. ASSUME NEW u \in Txns, NEW k \in inserted_tuples'[u]
       PROVE  TupleAt(k)' \in Tuples /\ \A j \in 1 .. index_count : Entry(j, k)' \in index'[j]
  <2>1. CASE k \in inserted_tuples[u]
    <3>1. k \in Used /\ TupleAt(k) \in Tuples /\ \A j \in 1 .. index_count : Entry(j, k) \in index[j]
      BY <2>1 DEF EntriesOK, Tracked
    <3> QED
      BY <1>5, <1>6, <1>8, <3>1
  <2>2. CASE k \notin inserted_tuples[u]
    <3>1. k = l /\ i = 1
      BY <1>11, <1>12, <2>2
    <3> QED
      BY <1>1, <1>3, <1>5, <1>6, <1>10, <3>1
  <2> QED
    BY <2>1, <2>2
<1>14. ASSUME NEW u \in Txns, pc'[u] = "enter", NEW j \in frame'[u].itr + 1 .. index_count
       PROVE  <<TupleAt(frame[u].location)'[j], frame'[u].location>> \in index'[j]
  <2>1. CASE u = t
    <3>1. frame'[t].location = l /\ j \in i .. index_count
      BY <1>2, <1>12, <1>14, <2>1, DataTableAssumption
    <3>2. Entry(j, l)' \in index'[j]
      BY <1>6, <1>10, <3>1, <1>2, DataTableAssumption
    <3> QED
      BY <2>1, <3>1, <3>2 DEF Entry
  <2>2. CASE u # t
    <3>1. pc[u] = "enter" /\ frame'[u] = frame[u]
      BY <1>11, <1>14, <2>2
    <3>2. PICK k \in Used : k = frame[u].location
      BY <3>1, Zenon DEF Tracked, ClaimOK, Entering
    <3>3. Entry(j, k) \in index[j] /\ j \in 1 .. index_count
      <4>1. frame[u].itr \in 1 .. index_count
        BY <3>1 DEF TypeInv, FrameOK
      <4> QED
        BY <3>1, <3>2, <4>1, DataTableAssumption DEF EntriesOK
    <3>4. Entry(j, k)' \in index'[j] /\ frame'[u].location = k
      BY <1>6, <1>8, <3>1, <3>2, <3>3
    <3> QED
      BY <3>4 DEF Entry
  <2> QED
    BY <2>1, <2>2
<1> QED
  BY <1>7, <1>13, <1>14 DEF EntriesOK, Entry

(* Every step keeps entries and tuples together.                           *)
LEMMA EntriesStep ==
  ASSUME TypeInv, Tracked, EntriesOK, ViewNext
  PROVE  EntriesOK'
<1>1. Quiet \/ \E t \in Txns : View(t)
  BY Zenon DEF ViewNext
<1>2. CASE Quiet
  <2>1. Used' = Used /\ (\A l \in Used : TupleAt(l)' = TupleAt(l)) /\ UNCHANGED <<index, inserted_tuples>>
    BY <1>2 DEF Quiet, Untouched, Used, Same
  <2>2. \A t \in Txns : pc'[t] = "enter" => pc[t] = "enter" /\ frame'[t] = frame[t]
    BY <1>2 DEF Quiet, Early
  <2> QED
    BY <2>1, <2>2, EntriesKept
<1>3. ASSUME NEW t \in Txns, Begins(t) \/ Checks(t) \/ Fails(t) PROVE EntriesOK'
  <2>1. Used' = Used /\ (\A l \in Used : TupleAt(l)' = TupleAt(l)) /\ UNCHANGED <<index, inserted_tuples>>
    BY <1>3 DEF Begins, Checks, Fails, Untouched, Used, Same
  <2>2. \A u \in Txns : pc'[u] = "enter" =>
           (pc[u] = "enter" /\ frame'[u] = frame[u]) \/ frame'[u].itr = index_count
    BY <1>3 DEF Begins, Checks, Fails, Alone
  <2> QED
    BY <2>1, <2>2, EntriesKept
<1>4. ASSUME NEW t \in Txns, Claims(t) PROVE EntriesOK'
  <2>1. Used \subseteq Used' /\ (\A l \in Used : TupleAt(l)' = TupleAt(l)) /\ UNCHANGED <<index, inserted_tuples>>
    BY <1>4 DEF Claims, Claimed, Used, Same
  <2>2. \A u \in Txns : pc'[u] = "enter" => pc[u] = "enter" /\ frame'[u] = frame[u]
    BY <1>4 DEF Claims, Alone
  <2> QED
    BY <2>1, <2>2, EntriesKept
<1>5. ASSUME NEW t \in Txns, Deletes(t) \/ Commits(t) \/ Aborts(t) PROVE EntriesOK'
  <2>1. Used' = Used /\ (\A l \in Used : TupleAt(l)' = TupleAt(l)) /\ UNCHANGED <<index, inserted_tuples>>
    BY <1>5, Zenon DEF Deletes, Commits, Aborts, Written, Used, Same
  <2>2. \A u \in Txns : pc'[u] = "enter" => pc[u] = "enter" /\ frame'[u] = frame[u]
    BY <1>5, Zenon DEF Deletes, Commits, Aborts, Alone
  <2> QED
    BY <2>1, <2>2, EntriesKept
<1> QED
  BY <1>1, <1>2, <1>3, <1>4, <1>5, EntriesEnters DEF View

-----------------------------------------------------------------------------
(* How headers evolve.                                                     *)

(* A header that stays as it is.                                           *)
LEMMA EvolvesSame ==
  ASSUME NEW l, Header(l)' = Header(l), \A t \in Txns : Entering(t)' => snapshot'[t] = snapshot[t]
  PROVE  HeaderEvolves(l)
<1>1. \A t \in Txns : Entering(t)' => (IsVisible(Header(l), t)' <=> IsVisible(Header(l), t))
  BY DEF IsVisible
<1> QED
  BY <1>1 DEF HeaderEvolves, Invalid

(* The steps that write no header of a used slot.                          *)
LEMMA EvolvesReading ==
  ASSUME TypeInv, Tracked, Quiet \/ \E t \in Txns : Begins(t) \/ Claims(t) \/ Checks(t) \/ Fails(t) \/ Enters(t)
  PROVE  Evolves
<1>1. CASE Quiet
  <2>1. Used' = Used /\ \A l \in Used : Header(l)' = Header(l)
    BY <1>1 DEF Quiet, Untouched, Used
  <2>2. snapshot' = snapshot /\ \A t \in Txns : Mine(t)' = Mine(t)
    BY <1>1 DEF Quiet, Same, Mine, Entering, Early
  <2> QED
    BY <2>1, <2>2, EvolvesSame DEF Evolves
<1>2. ASSUME NEW t \in Txns, Begins(t) PROVE Evolves
  <2>1. Used' = Used /\ \A l \in Used : Header(l)' = Header(l)
    BY <1>2, Zenon DEF Begins, Untouched, Used
  <2>2. /\ Mine(t)' = {} /\ ~Entering(t)'
        /\ \A u \in Txns \ {t} : Mine(u)' = Mine(u) /\ snapshot'[u] = snapshot[u]
    BY <1>2 DEF Begins, Alone, Mine, Entering, Tracked, SnapshotOK
  <2>3. \A u \in Txns : Entering(u)' => snapshot'[u] = snapshot[u]
    BY <2>2
  <2> QED
    BY <2>1, <2>2, <2>3, EvolvesSame, Zenon DEF Evolves
<1>3. ASSUME NEW t \in Txns, Claims(t) PROVE Evolves
  <2>1. PICK k \in Locs : k = frame'[t].location /\ Claimed(k, frame[t].tuple, t)
    BY <1>3 DEF Claims
  <2>2. k \notin Used /\ Used \subseteq Used' /\ \A l \in Used : Header(l)' = Header(l)
    BY <2>1, Zenon DEF Claimed, Used
  <2>3. /\ snapshot' = snapshot /\ Mine(t)' = Mine(t) \cup {k}
        /\ \A u \in Txns \ {t} : Mine(u)' = Mine(u)
    BY <1>3, <2>1 DEF Claims, Same, Alone, Mine, Entering
  <2> QED
    BY <2>2, <2>3, EvolvesSame, Zenon DEF Evolves
<1>4. ASSUME NEW t \in Txns, Checks(t) \/ Fails(t) PROVE Evolves
  <2>1. Used' = Used /\ \A l \in Used : Header(l)' = Header(l)
    BY <1>4, Zenon DEF Checks, Fails, Untouched, Used
  <2>2. snapshot' = snapshot /\ \A u \in Txns : Mine(u)' \subseteq Mine(u)
    BY <1>4 DEF Checks, Fails, Same, Alone, Mine, Entering
  <2> QED
    BY <2>1, <2>2, EvolvesSame DEF Evolves
<1>5. ASSUME NEW t \in Txns, Enters(t) PROVE Evolves
  <2>1. Used' = Used /\ \A l \in Used : Header(l)' = Header(l)
    BY <1>5, ZenonT(40) DEF Enters, Untouched, Used
  <2>2. snapshot' = snapshot /\ \A u \in Txns : Mine(u)' = Mine(u)
    BY <1>5, Zenon DEF Enters, Alone, Mine, Entering
  <2> QED
    BY <2>1, <2>2, EvolvesSame DEF Evolves
<1> QED
  BY <1>1, <1>2, <1>3, <1>4, <1>5

(* A delete never makes visible to an inserter what was not.               *)
LEMMA EvolvesDeletes ==
  ASSUME TypeInv, Tracked, NEW t \in Txns, Deletes(t)
  PROVE  Evolves
<1>1. PICK l \in Locs :
        /\ IsVisible(Header(l), t)
        /\ \/ Header(l).txn_id = INITIAL_TXN_ID /\ Header(l).end = MAX_CID
           \/ Header(l).txn_id = t
        /\ Written([x \in {l} |-> DeleteWord(l, t)])
  BY Zenon DEF Deletes
<1>2. /\ UNCHANGED <<pc, frame, last_cid, snapshot, cid, inserted_tuples>> /\ pc[t] = "running"
  BY Zenon DEF Deletes
<1>3. /\ Used' = Used /\ Header(l)' = DeleteWord(l, t)
      /\ \A m \in Used \ {l} : Header(m)' = Header(m)
  BY <1>1 DEF Written, Used
<1>4. /\ Header(l)'.txn_id = (IF Header(l).txn_id = t THEN INVALID_TXN_ID ELSE t)
      /\ Header(l)'.begin = Header(l).begin /\ Header(l)'.end = Header(l).end
  BY <1>3, DeleteWords
<1>5. \A u \in Txns : Mine(u)' = Mine(u) /\ (Entering(u) => u # t)
  BY <1>2 DEF Mine, Entering
<1>6. Header(l).txn_id # INVALID_TXN_ID /\ (Header(l).txn_id = t) # (snapshot[t] >= Header(l).begin)
  BY <1>1 DEF IsVisible
<1>7. t # INITIAL_TXN_ID /\ INITIAL_TXN_ID \notin Txns /\ INVALID_TXN_ID \notin Txns
  BY DataTableAssumption, Zenon
<1>8. Header(l).txn_id = t => Header(l).begin = MAX_CID
  <2>1. snapshot[t] \in Nat /\ Header(l).begin \in Nat
    <3>1. Header(l) \in Headers /\ snapshot \in [Txns -> Nat]
      BY HeaderType DEF TypeInv, Registers
    <3> QED
      BY <3>1 DEF Headers
  <2> QED
    BY <1>6, <2>1 DEF Tracked, LatchOK
<1>9. ASSUME NEW u \in Txns \ {t}, ~IsVisible(Header(l), u) PROVE ~IsVisible(Header(l), u)'
  <2>1. CASE Header(l).txn_id = t
    BY <1>4, <2>1 DEF IsVisible
  <2>2. CASE Header(l).txn_id # t
    <3>1. Header(l).txn_id = INITIAL_TXN_ID /\ Header(l)'.txn_id = t
      BY <1>1, <1>4, <2>2, Zenon
    <3> QED
      BY <1>2, <1>4, <1>6, <1>7, <1>9, <3>1, Zenon DEF IsVisible
  <2> QED
    BY <2>1, <2>2
<1>10. HeaderEvolves(l)
  BY <1>1, <1>4, <1>5, <1>6, <1>7, <1>8, <1>9, Zenon DEF HeaderEvolves, Invalid
<1> QED
  BY <1>2, <1>3, <1>5, <1>10, EvolvesSame DEF Evolves

(* What a commit publishes has a commit id later than the snapshot of      *)
(* every inserter, so it stays hidden from them.                           *)
LEMMA EvolvesCommits ==
  ASSUME TypeInv, Bounded', Tracked, NEW t \in Txns, Commits(t)
  PROVE  Evolves
<1> DEFINE R == inserted_tuples[t] \cup deleted_tuples[t]
<1>1. /\ UNCHANGED <<frame, snapshot, inserted_tuples>> /\ pc[t] = "running" /\ pc'[t] = "done"
      /\ last_cid' = last_cid + 1 /\ \A u \in Txns \ {t} : pc'[u] = pc[u]
  BY Zenon DEF Commits, Alone
<1>2. /\ Used' = Used /\ \A m \in Used : Header(m)' = IF m \in R THEN CommitWord(m, t) ELSE Header(m)
  BY Zenon DEF Commits, Written, Used
<1>3. \A u \in Txns : Mine(u)' = Mine(u) /\ (Entering(u) => u # t)
  BY <1>1 DEF Mine, Entering
<1>4. last_cid \in Nat /\ MAX_CID \in Nat /\ last_cid + 1 < MAX_CID
  BY <1>1 DEF Bounded, TypeInv, Registers
<1>5. INITIAL_TXN_ID \notin Txns /\ INVALID_TXN_ID \notin Txns /\ INITIAL_TXN_ID # INVALID_TXN_ID
  BY DataTableAssumption
<1> HIDE DEF R
<1>6. ASSUME NEW l \in Used PROVE HeaderEvolves(l)
  <2>1. CASE Header(l)' = Header(l)
    BY <1>1, <2>1, EvolvesSame, ZenonT(60)
  <2>2. CASE Header(l)' # Header(l)
    <3>1. l \in Locs /\ Header(l)' = CommitWord(l, t) /\ Header(l).txn_id = t
      BY <1>2, <2>2, CommitWords, Zenon DEF Used
    <3>2. /\ Header(l)'.txn_id = INITIAL_TXN_ID
          /\ Header(l)'.begin = (IF Header(l).begin = MAX_CID THEN last_cid + 1 ELSE Header(l).begin)
          /\ Header(l)'.end = (IF Header(l).begin # MAX_CID THEN last_cid + 1 ELSE Header(l).end)
      BY <3>1, CommitWords
    <3>3. Header(l).end = MAX_CID
      BY <3>1, Zenon DEF Tracked, HeaderOK
    <3>4. ASSUME NEW u \in Txns \ {t}, ~IsVisible(Header(l), u) PROVE ~IsVisible(Header(l), u)'
      <4>1. snapshot[u] \in Nat /\ snapshot[u] <= last_cid
        BY DEF TypeInv, Registers, Tracked, SnapshotOK
      <4> QED
        BY <1>1, <1>4, <1>5, <3>1, <3>2, <3>3, <3>4, <4>1 DEF IsVisible
    <3> QED
      BY <1>3, <1>4, <1>5, <3>1, <3>2, <3>3, <3>4 DEF HeaderEvolves, Invalid
  <2> QED
    BY <2>1, <2>2
<1> QED
  BY <1>1, <1>2, <1>3, <1>6 DEF Evolves

(* An abort restores a tuple only for the transaction that had deleted it, *)
(* and that one inserts no more.                                           *)
LEMMA EvolvesAborts ==
  ASSUME TypeInv, Tracked, NEW t \in Txns, Aborts(t)
  PROVE  Evolves
<1> DEFINE R == inserted_tuples[t] \cup deleted_tuples[t]
<1>1. /\ UNCHANGED <<frame, snapshot, cid, last_cid, inserted_tuples>> /\ pc[t] \in {"running", "failed"}
      /\ pc'[t] = "done" /\ \A u \in Txns \ {t} : pc'[u] = pc[u]
  BY Zenon DEF Aborts, Alone, Same
<1>2. /\ Used' = Used /\ \A m \in Used : Header(m)' = IF m \in R THEN AbortWord(m, t) ELSE Header(m)
  BY Zenon DEF Aborts, Written, Used
<1>3. /\ \A u \in Txns : Mine(u)' = Mine(u) /\ (Entering(u) => u # t)
      /\ cid'[t] = 0
  BY <1>1 DEF Mine, Entering, Tracked, SnapshotOK
<1>5. INITIAL_TXN_ID \notin Txns /\ INVALID_TXN_ID \notin Txns /\ INITIAL_TXN_ID # INVALID_TXN_ID
  BY DataTableAssumption
<1> HIDE DEF R
<1>6. ASSUME NEW l \in Used PROVE HeaderEvolves(l)
  <2>1. CASE Header(l)' = Header(l)
    BY <1>1, <2>1, EvolvesSame, ZenonT(60)
  <2>2. CASE Header(l)' # Header(l)
    <3>1. l \in Locs /\ Header(l)' = AbortWord(l, t)
      BY <1>2, <2>2, Zenon DEF Used
    <3>2. /\ Header(l)'.begin = Header(l).begin /\ Header(l)'.end = Header(l).end
          /\ \/ Header(l).begin = MAX_CID /\ Header(l)'.txn_id = INVALID_TXN_ID
             \/ /\ Header(l).begin # MAX_CID /\ Header(l).txn_id = t
                /\ Header(l)'.txn_id = INITIAL_TXN_ID
      BY <2>2, <3>1, AbortWords
    <3>3. ASSUME NEW u \in Txns \ {t}, ~IsVisible(Header(l), u) PROVE ~IsVisible(Header(l), u)'
      BY <1>1, <1>5, <3>2, <3>3 DEF IsVisible
    <3> QED
      BY <1>1, <1>3, <1>5, <3>2, <3>3 DEF HeaderEvolves, Invalid
  <2> QED
    BY <2>1, <2>2
<1> QED
  BY <1>1, <1>2, <1>3, <1>6 DEF Evolves

(* Every step changes headers of used slots only as HeaderEvolves allows.  *)
LEMMA EvolvesStep ==
  ASSUME TypeInv, Bounded', Tracked, ViewNext
  PROVE  Evolves
<1>1. Quiet \/ \E t \in Txns : View(t)
  BY Zenon DEF ViewNext
<1> QED
  BY <1>1, EvolvesReading, EvolvesDeletes, EvolvesCommits, EvolvesAborts DEF View

-----------------------------------------------------------------------------
(* Uniqueness is inductive.                                                *)

(* One tuple has no double.                                                *)
LEMMA UniquenessInit ==
  ASSUME Init
  PROVE  Uniqueness
<1>1. \A i \in 1 .. index_count : index[i] = {<<Loaded[i], <<1, 0>>>>}
  BY DEF Init
<1>2. Unique \subseteq 1 .. index_count
  BY DataTableAssumption
<1>3. \A t \in Txns : Mine(t) = {} /\ pc[t] = "idle"
  BY DEF Init, Mine, Entering
<1>4. Owned
  BY <1>1 DEF Owned
<1>5. Origin
  <2>1. GetTileGroup(1) = Fill(NewTileGroup(1), 0, Loaded,
                 [txn_id |-> INITIAL_TXN_ID, begin |-> 1, end |-> MAX_CID])
    BY DEF Init, GetTileGroup
  <2>2. 0 \in Slots /\ <<1, 0>> \in Locs
    BY DataTableAssumption DEF Init, Locs, Slots
  <2>3. /\ GetTileGroup(1).next = 1
        /\ GetTileGroup(1).header[0] = [txn_id |-> INITIAL_TXN_ID, begin |-> 1, end |-> MAX_CID]
    BY <2>1, <2>2 DEF Fill, NewTileGroup
  <2> QED
    BY <1>3, <2>2, <2>3 DEF Origin, Header, Used, NextSlot
<1>6. ChecksOK
  BY <1>3 DEF ChecksOK
<1>7. Distinct
  BY <1>3, Zenon DEF Distinct
<1> QED
  BY <1>4, <1>5, <1>6, <1>7 DEF Uniqueness

(* An index changes only when a thread enters the slot that it has claimed.*)
LEMMA IndexSteps ==
  ASSUME TypeInv, Tracked, ViewNext
  PROVE  \/ index' = index
         \/ \E t \in Txns : \E i \in 1 .. index_count : \E l \in Used :
              /\ Enters(t) /\ i = frame[t].itr /\ l = frame[t].location
              /\ index'[i] = index[i] \cup {<<frame[t].tuple[i], l>>}
              /\ \A j \in 1 .. index_count \ {i} : index'[j] = index[j]
<1>1. Quiet \/ \E t \in Txns : View(t)
  BY Zenon DEF ViewNext
<1>2. CASE Quiet
  BY <1>2 DEF Quiet, Same
<1>3. ASSUME NEW t \in Txns, View(t), ~Enters(t) PROVE index' = index
  BY <1>3, ZenonT(60) DEF View, Begins, Claims, Checks, Fails, Deletes, Commits, Aborts, Same
<1>4. ASSUME NEW t \in Txns, Enters(t)
      PROVE  \E i \in 1 .. index_count : \E l \in Used :
              /\ i = frame[t].itr /\ l = frame[t].location
              /\ index'[i] = index[i] \cup {<<frame[t].tuple[i], l>>}
              /\ \A j \in 1 .. index_count \ {i} : index'[j] = index[j]
  <2>1. PICK l \in Used : l = frame[t].location
    BY <1>4, Zenon DEF Enters, Tracked, ClaimOK, Entering
  <2>2. PICK i \in 1 .. index_count : i = frame[t].itr
    BY <1>4, Zenon DEF Enters, TypeInv, FrameOK
  <2> QED
    BY <1>4, <2>1, <2>2 DEF Enters
<1> QED
  BY <1>1, <1>2, <1>3, <1>4

(* An entry is that of the loaded tuple or of an insert.                   *)
LEMMA OwnedStep ==
  ASSUME TypeInv, Tracked, Owned, ViewNext
  PROVE  Owned'
<1> DEFINE Has(t, l) == l \in inserted_tuples[t] \/ (pc[t] = "enter" /\ l = frame[t].location)
<1>1. ASSUME NEW t \in Txns, NEW l, Has(t, l) PROVE Has(t, l)'
  <2>1. Quiet \/ \E u \in Txns : View(u)
    BY Zenon DEF ViewNext
  <2>2. CASE Quiet
    BY <1>1, <2>2, Zenon DEF Quiet, Early, Same
  <2>3. ASSUME NEW u \in Txns, Begins(u) \/ Claims(u) \/ Checks(u) \/ Fails(u) PROVE Has(t, l)'
    BY <1>1, <2>3, Zenon DEF Begins, Claims, Checks, Fails, Same, Alone
  <2>4. ASSUME NEW u \in Txns, Enters(u) PROVE Has(t, l)'
    BY <1>1, <2>4 DEF Enters, Alone
  <2>5. ASSUME NEW u \in Txns, Deletes(u) \/ Commits(u) \/ Aborts(u) PROVE Has(t, l)'
    <3>1. UNCHANGED <<inserted_tuples, frame>> /\ (pc[t] = "enter" => pc'[t] = "enter")
      BY <2>5, Zenon DEF Deletes, Commits, Aborts, Same, Alone
    <3> QED
      BY <1>1, <3>1
  <2> QED
    BY <2>1, <2>2, <2>3, <2>4, <2>5 DEF View
<1>2. \A i \in 1 .. index_count : \A e \in index[i] : e[2] = <<1, 0>> \/ \E t \in Txns : Has(t, e[2])
  BY Zenon DEF Owned
<1>3. ASSUME NEW i \in 1 .. index_count, NEW e \in index'[i], NEW k, k = e[2]
      PROVE  k = <<1, 0>> \/ \E t \in Txns : Has(t, k)'
  <2>1. CASE e \in index[i]
    BY <1>1, <1>2, <1>3, <2>1
  <2>2. CASE e \notin index[i]
    <3>1. PICK t \in Txns : Enters(t) /\ e = <<frame[t].tuple[i], frame[t].location>>
      BY <2>2, IndexSteps, Zenon
    <3>2. k = frame[t].location /\ pc[t] = "enter"
      BY <1>3, <3>1 DEF Enters
    <3> QED
      BY <1>1, <3>2
  <2> QED
    BY <2>1, <2>2
<1> QED
  BY <1>3, Zenon DEF Owned

(* The loaded tuple stays the one with the first commit id.                *)
LEMMA OriginStep ==
  ASSUME Bounded, Evolves, Origin
  PROVE  Origin'
<1>1. /\ <<1, 0>> \in Used /\ Header(<<1, 0>>).begin = 1 /\ \A t \in Txns : <<1, 0>> \notin Mine(t)
  BY DEF Origin
<1>2. 1 # MAX_CID
  BY DEF Bounded
<1>3. Header(<<1, 0>>)'.begin = 1
  BY <1>1, <1>2 DEF Evolves, HeaderEvolves
<1> QED
  BY <1>1, <1>3 DEF Origin, Evolves

(* The slots that two transactions have inserted at are different ones.    *)
LEMMA MineApart ==
  ASSUME Tracked, NEW t \in Txns, NEW l, Entering(t), l = frame[t].location
  PROVE  /\ l \in Used /\ Header(l).txn_id = t /\ Header(l).begin = MAX_CID /\ Header(l).end = MAX_CID
         /\ l \notin inserted_tuples[t]
         /\ \A u \in Txns \ {t} : l \notin Mine(u)
<1>1. ClaimOK(t)
  BY DEF Tracked
<1>2. /\ l \in Used /\ Header(l) = [EmptySlot EXCEPT !.txn_id = t]
      /\ \A u \in Txns : l \notin inserted_tuples[u]
  BY <1>1 DEF ClaimOK
<1>3. Header(l).txn_id = t /\ Header(l).begin = MAX_CID /\ Header(l).end = MAX_CID
  BY <1>2, EmptyOK, Zenon
<1>4. ASSUME NEW u \in Txns \ {t}, Entering(u) PROVE frame[u].location # l
  <2>1. ClaimOK(u)
    BY DEF Tracked
  <2>2. Header(frame[u].location) = [EmptySlot EXCEPT !.txn_id = u]
    BY <1>4, <2>1 DEF ClaimOK
  <2>3. Header(frame[u].location).txn_id = u
    BY <2>2, EmptyOK, Zenon
  <2> QED
    BY <1>3, <2>3, Zenon
<1> QED
  BY <1>2, <1>3, <1>4, Zenon DEF Mine

(* What an inserter has found hidden for a key stays hidden from it until  *)
(* its insert ends, and so does what others enter meanwhile.               *)
LEMMA ChecksStep ==
  ASSUME TypeInv, Bounded, Tracked, EntriesOK, ChecksOK, Evolves, ViewNext
  PROVE  ChecksOK'
<1> SUFFICES ASSUME NEW t \in Txns, NEW i \in Unique,
                    (pc'[t] = "check" /\ i > frame'[t].itr) \/ pc'[t] = "enter"
             PROVE  Checked(t, i)'
  BY DEF ChecksOK
<1>1. i \in 1 .. index_count /\ index_count \in Nat
  BY DataTableAssumption, ZenonT(60)
<1>2. /\ Entering(t) /\ frame'[t].tuple = frame[t].tuple /\ frame'[t].location = frame[t].location
      /\ \/ (pc[t] = "check" /\ i > frame[t].itr) \/ pc[t] = "enter"
         \/ Checks(t) /\ i = frame[t].itr
  <2>1. Quiet \/ \E u \in Txns : View(u)
    BY Zenon DEF ViewNext
  <2>2. CASE pc'[t] = pc[t] /\ frame'[t] = frame[t]
    BY <2>2, Zenon DEF Entering
  <2>3. CASE Quiet
    BY <2>2, <2>3 DEF Quiet, Early
  <2>4. ASSUME NEW u \in Txns, View(u), u # t PROVE pc'[t] = pc[t] /\ frame'[t] = frame[t]
    BY <2>4, Zenon DEF View, Begins, Claims, Checks, Fails, Enters, Deletes, Commits, Aborts, Alone
  <2>5. CASE Checks(t)
    <3>1. frame[t].itr \in 1 .. index_count
      BY <2>5, Zenon DEF Checks, TypeInv, FrameOK
    <3> QED
      BY <1>1, <2>5, <3>1 DEF Checks, Entering
  <2>6. CASE Claims(t)
    BY <1>1, <2>6 DEF Claims
  <2>7. CASE Enters(t)
    BY <2>7 DEF Enters, Entering
  <2>8. CASE Begins(t) \/ Fails(t) \/ Deletes(t) \/ Commits(t) \/ Aborts(t)
    BY <2>8, Zenon DEF Begins, Fails, Deletes, Commits, Aborts
  <2> QED
    BY <2>1, <2>2, <2>3, <2>4, <2>5, <2>6, <2>7, <2>8 DEF View
<1>3. Entering(t)'
  BY Zenon DEF Entering
<1>4. Checked(t, i)
  <2>1. CASE Checks(t) /\ i = frame[t].itr
    BY <2>1 DEF Checks, Conflict, Checked
  <2> QED
    BY <1>2, <2>1, ZenonT(60) DEF ChecksOK
<1>5. ASSUME NEW e \in index'[i], NEW k, k = e[2],
             e[1] = frame[t].tuple[i], k # frame[t].location
      PROVE  ~IsVisible(Header(k), t)'
  <2>1. CASE e \in index[i]
    <3>1. k \in Used /\ ~IsVisible(Header(k), t)
      BY <1>1, <1>4, <1>5, <2>1, ZenonT(60) DEF EntriesOK, Checked
    <3> QED
      BY <1>2, <1>3, <3>1, Zenon DEF Evolves, HeaderEvolves
  <2>2. CASE e \notin index[i]
    <3>1. PICK u \in Txns : Enters(u) /\ e = <<frame[u].tuple[i], frame[u].location>>
      BY <1>1, <2>2, IndexSteps, ZenonT(40)
    <3>2. k = frame[u].location /\ u # t /\ Entering(u)
      BY <1>5, <3>1, ZenonT(60) DEF Enters, Entering
    <3>3. k \in Used /\ Header(k).txn_id = u /\ Header(k).begin = MAX_CID
      BY <3>2, MineApart
    <3>4. snapshot[t] \in Nat /\ snapshot[t] < MAX_CID /\ MAX_CID \in Nat
      BY SnapshotBound, Zenon
    <3>5. ~IsVisible(Header(k), t)
      BY <3>2, <3>3, <3>4 DEF IsVisible
    <3> QED
      BY <1>2, <1>3, <3>3, <3>5 DEF Evolves, HeaderEvolves
  <2> QED
    BY <2>1, <2>2, Zenon
<1> QED
  BY <1>2, <1>5, Zenon DEF Checked

(* Two entries that were apart stay apart.                                 *)
LEMMA ApartKept ==
  ASSUME TypeInv, Bounded, Tracked, Tracked', Evolves, NEW u \in Txns, NEW k \in Used, NEW l \in Used,
         l \in Mine(u)', Apart(k, u) \/ Invalid(l)
  PROVE  Apart(k, u)' \/ Invalid(l)'
<1>1. HeaderEvolves(k) /\ HeaderEvolves(l) /\ snapshot'[u] = snapshot[u] /\ (k \in Mine(u)' => k \in Mine(u))
  BY Zenon DEF Evolves
<1>2. CASE Invalid(l)
  BY <1>1, <1>2, Zenon DEF HeaderEvolves
<1>3. CASE Invalid(k)
  BY <1>1, <1>3, Zenon DEF HeaderEvolves, Apart
<1>4. CASE Header(k).end # MAX_CID
  BY <1>1, <1>4, Zenon DEF HeaderEvolves, Apart
<1>5. CASE Header(k).begin > snapshot[u] /\ k \notin Mine(u)
  <2>1. snapshot[u] \in Nat /\ snapshot[u] <= last_cid /\ last_cid \in Nat
    BY SnapshotBound, Zenon
  <2>2. Header(k)'.begin > snapshot'[u]
    <3>1. Header(k)'.begin \in {Header(k).begin, last_cid + 1}
      BY <1>1, ZenonT(40) DEF HeaderEvolves
    <3> QED
      BY <1>1, <1>5, <2>1, <3>1
  <2> QED
    BY <1>1, <1>5, <2>2 DEF Apart
<1>6. CASE Header(k).txn_id = u /\ Header(k).begin # MAX_CID
  <2>1. Header(k)'.begin # MAX_CID
    BY <1>1, <1>6, Zenon DEF HeaderEvolves
  <2>2. CASE Header(k)'.txn_id = u \/ Header(k)'.end # MAX_CID
    BY <2>1, <2>2 DEF Apart
  <2>3. CASE pc'[u] = "done" /\ cid'[u] = 0
    <3>1. l \in inserted_tuples'[u] /\ l \in Locs'
      BY <2>3 DEF Mine, Entering, Evolves, Used
    <3>2. KeptOK(u, l)'
      BY <3>1, Zenon DEF Tracked
    <3> QED
      BY <2>3, <3>1, <3>2, Zenon DEF KeptOK, Invalid
  <2> QED
    BY <1>1, <1>6, <2>2, <2>3, ZenonT(40) DEF HeaderEvolves
<1> QED
  BY <1>2, <1>3, <1>4, <1>5, <1>6, Zenon DEF Apart

(* A slot of the transaction's own that is not visible to it is invalid.   *)
LEMMA OwnHidden ==
  ASSUME TypeInv, Bounded, Tracked, NEW t \in Txns, Entering(t), NEW k \in inserted_tuples[t], ~IsVisible(Header(k), t)
  PROVE  Invalid(k)
<1>1. k \in Locs /\ KeptOK(t, k) /\ HeaderOK(Header(k)) /\ cid[t] = 0 /\ pc[t] # "done"
  BY DEF Tracked, Used, Entering, SnapshotOK
<1>2. snapshot[t] \in Nat /\ snapshot[t] < MAX_CID /\ MAX_CID \in Nat
  BY SnapshotBound, Zenon
<1>3. CASE Header(k).txn_id = t /\ Header(k).begin = MAX_CID
  <2>1. Header(k).end = MAX_CID /\ t # INVALID_TXN_ID
    BY <1>1, <1>3, DataTableAssumption, Zenon DEF HeaderOK
  <2> QED
    BY <1>2, <1>3, <2>1 DEF IsVisible
<1> QED
  BY <1>1, <1>3, ZenonT(60) DEF KeptOK, Invalid

(* What is not visible to an inserter is apart from what it inserts.       *)
LEMMA HiddenApart ==
  ASSUME TypeInv, Bounded, Tracked, NEW t \in Txns, Entering(t), NEW k \in Used, k # frame[t].location,
         ~IsVisible(Header(k), t)
  PROVE  Apart(k, t)
<1>1. snapshot[t] \in Nat /\ snapshot[t] < MAX_CID /\ MAX_CID \in Nat
  BY SnapshotBound
<1>2. Header(k).begin \in Nat /\ Header(k).end \in Nat
  <2>1. Header(k) \in Headers
    BY HeaderType, Zenon DEF TypeInv, Used
  <2> QED
    BY <2>1 DEF Headers
<1>3. CASE Header(k).txn_id = INVALID_TXN_ID
  BY <1>3, Zenon DEF Apart, Invalid
<1>4. CASE snapshot[t] >= Header(k).end
  BY <1>1, <1>2, <1>4 DEF Apart
<1>5. CASE Header(k).txn_id = t /\ snapshot[t] >= Header(k).begin
  BY <1>1, <1>2, <1>5 DEF Apart
<1>6. CASE Header(k).txn_id # t /\ ~(snapshot[t] >= Header(k).begin)
  <2>1. CASE k \in inserted_tuples[t]
    BY <2>1, OwnHidden, Zenon DEF Apart
  <2>2. CASE k \notin inserted_tuples[t]
    BY <1>1, <1>2, <1>6, <2>2 DEF Apart, Mine
  <2> QED
    BY <2>1, <2>2, Zenon
<1> QED
  BY <1>3, <1>4, <1>5, <1>6, Zenon DEF IsVisible

(* A pair of entries with the same unique key consists of one entry made   *)
(* after the key had been checked by its inserter, for which the other     *)
(* entry was hidden.                                                       *)
LEMMA DistinctStep ==
  ASSUME TypeInv, Bounded, Tracked, Tracked', EntriesOK, ChecksOK, Distinct, Evolves, ViewNext
  PROVE  Distinct'
<1> SUFFICES ASSUME NEW i \in Unique, NEW e \in index'[i], NEW f \in index'[i], NEW u \in Txns,
                    NEW k, NEW l, k = e[2], l = f[2], e[1] = f[1], e # f, l \in Mine(u)'
             PROVE  Apart(k, u)' \/ Invalid(l)'
  BY DEF Distinct
<1>1. i \in 1 .. index_count
  BY DataTableAssumption, Zenon
<1>2. CASE e \in index[i] /\ f \in index[i]
  <2>1. k \in Used /\ l \in Used
    BY <1>1, <1>2, Zenon DEF EntriesOK
  <2>2. l \in Mine(u)
    BY <2>1 DEF Evolves
  <2>3. Apart(k, u) \/ Invalid(l)
    BY <1>2, <2>2, ZenonT(60) DEF Distinct
  <2> QED
    BY <2>1, <2>3, ApartKept, Zenon
<1>3. CASE ~(e \in index[i] /\ f \in index[i])
  <2>1. PICK t \in Txns : /\ Enters(t) /\ i = frame[t].itr
                          /\ index'[i] = index[i] \cup {<<frame[t].tuple[i], frame[t].location>>}
    BY <1>1, <1>3, IndexSteps, Zenon
  <2>2. PICK m : m = frame[t].location
    BY Zenon
  <2>3. Entering(t) /\ pc[t] = "enter"
    BY <2>1, Zenon DEF Enters, Entering
  <2>4. /\ m \in Used /\ Header(m).txn_id = t /\ Header(m).begin = MAX_CID /\ Header(m).end = MAX_CID
        /\ m \notin inserted_tuples[t] /\ \A v \in Txns \ {t} : m \notin Mine(v)
    BY <2>2, <2>3, MineApart, Zenon
  <2>5. Checked(t, i)
    BY <2>3, Zenon DEF ChecksOK
  <2>6. ASSUME NEW g \in index[i] PROVE g[2] \in Used /\ g = <<g[1], g[2]>>
    BY <1>1 DEF EntriesOK, Entry
  <2>7. CASE e \in index[i] /\ f = <<frame[t].tuple[i], m>>
    <3>1. l = m /\ k \in Used /\ k # m /\ e[1] = frame[t].tuple[i]
      BY <2>6, <2>7
    <3>2. u = t
      BY <2>4, <3>1, Zenon DEF Evolves
    <3>3. Apart(k, t)
      BY <2>2, <2>3, <2>5, <2>7, <3>1, HiddenApart, Zenon DEF Checked
    <3> QED
      BY <2>4, <3>1, <3>2, <3>3, ApartKept, Zenon
  <2>8. CASE f \in index[i] /\ e = <<frame[t].tuple[i], m>>
    <3>1. k = m /\ l \in Used /\ l # m /\ f[1] = frame[t].tuple[i]
      BY <2>6, <2>8, Zenon
    <3>2. l \in Mine(u)
      BY <3>1, Zenon DEF Evolves
    <3>3. CASE u = t
      <4>1. l \in inserted_tuples[t]
        BY <2>2, <3>1, <3>2, <3>3, Zenon DEF Mine
      <4>2. Invalid(l)
        BY <2>2, <2>3, <2>5, <2>8, <3>1, <4>1, OwnHidden, Zenon DEF Checked
      <4> QED
        BY <2>4, <3>1, <4>2, ApartKept, Zenon
    <3>4. CASE u # t
      <4>1. Header(m).begin > snapshot[u]
        BY <2>4, SnapshotBound, Zenon
      <4>2. Apart(k, u)
        BY <2>4, <3>1, <3>4, <4>1, Zenon DEF Apart
      <4> QED
        BY <2>4, <3>1, <4>2, ApartKept, Zenon
    <3> QED
      BY <3>3, <3>4
  <2> QED
    BY <1>3, <2>1, <2>2, <2>7, <2>8
<1> QED
  BY <1>2, <1>3, Zenon

-----------------------------------------------------------------------------
(* What the invariant says of live tuples.                                 *)

(* A live tuple was put there by a transaction that has committed, unless  *)
(* it was loaded.                                                          *)
LEMMA LiveCommitted ==
  ASSUME TypeInv, Tracked, NEW u \in Txns, NEW l \in Mine(u), Header(l).begin # MAX_CID
  PROVE  /\ cid[u] = Header(l).begin /\ cid[u] # 0 /\ pc[u] = "done"
         /\ ~Invalid(l) /\ snapshot[u] > 0 /\ l \in Used
<1>1. l \in inserted_tuples[u]
  BY MineApart, Zenon DEF Mine
<1>2. l \in Used /\ l \in Locs /\ KeptOK(u, l) /\ HeaderOK(Header(l)) /\ SnapshotOK(u)
  BY <1>1, Zenon DEF Tracked, Used
<1>3. cid[u] = Header(l).begin /\ cid[u] # 0
  BY <1>1, <1>2, Zenon DEF KeptOK
<1>4. pc[u] = "done" /\ snapshot[u] > 0
  BY <1>2, <1>3, Zenon DEF SnapshotOK
<1>5. ~Invalid(l)
  BY <1>2, Zenon DEF HeaderOK, Invalid
<1> QED
  BY <1>2, <1>3, <1>4, <1>5, Zenon

(* Of two live tuples with the same key, the one began after the snapshot  *)
(* of the inserter of the other.                                           *)
LEMMA LateBegin ==
  ASSUME TypeInv, Tracked, Uniqueness, NEW i \in Unique, NEW e \in index[i], NEW f \in index[i],
         e[1] = f[1], e # f, NEW u \in Txns, f[2] \in Mine(u),
         Header(e[2]).begin # MAX_CID, Header(f[2]).begin # MAX_CID, Header(e[2]).end = MAX_CID,
         ~Invalid(e[2]), e[2] \in Used
  PROVE  Header(e[2]).begin > snapshot[u] /\ e[2] \notin Mine(u)
<1>1. ~Invalid(f[2]) /\ pc[u] = "done"
  BY LiveCommitted
<1>2. Apart(e[2], u)
  BY <1>1, Zenon DEF Uniqueness, Distinct
<1>3. Header(e[2]).txn_id # u
  BY <1>1, Zenon DEF Tracked, LatchOK, Used
<1> QED
  BY <1>2, <1>3, Zenon DEF Apart

(* The inductive invariant gives the uniqueness of keys.                   *)
LEMMA UniqueCorrect ==
  ASSUME TypeInv, Tracked, EntriesOK, Uniqueness
  PROVE  UniqueUnlessConcurrent
<1> SUFFICES ASSUME NEW i \in Unique, NEW e \in index[i], NEW f \in index[i], e[1] = f[1], e # f,
                    Header(e[2]).begin # MAX_CID, Header(f[2]).begin # MAX_CID,
                    Header(e[2]).end = MAX_CID, Header(f[2]).end = MAX_CID
             PROVE  \E t, u \in Txns : /\ cid[t] = Header(e[2]).begin /\ cid[u] = Header(f[2]).begin /\ t # u
                                       /\ snapshot[t] < cid[u] /\ snapshot[u] < cid[t]
  BY DEF UniqueUnlessConcurrent
<1>1. i \in 1 .. index_count
  BY DataTableAssumption, Zenon
<1>2. /\ e[2] \in Used /\ f[2] \in Used /\ e[2] # f[2]
  BY <1>1 DEF EntriesOK, Entry
<1>3. ~Invalid(e[2]) /\ ~Invalid(f[2])
  BY <1>2, Zenon DEF Tracked, HeaderOK, Invalid, Used
<1>4. /\ e[2] = <<1, 0>> \/ \E t \in Txns : e[2] \in Mine(t)
      /\ f[2] = <<1, 0>> \/ \E t \in Txns : f[2] \in Mine(t)
  BY <1>1, Zenon DEF Uniqueness, Owned, Mine, Entering
<1>5. \A u \in Txns : snapshot[u] \in Nat
  BY Zenon DEF TypeInv, Registers
<1>6. ASSUME NEW u \in Txns, f[2] \in Mine(u)
      PROVE  /\ e[2] # <<1, 0>> /\ Header(e[2]).begin > snapshot[u] /\ e[2] \notin Mine(u)
             /\ cid[u] = Header(f[2]).begin
  <2>1. Header(e[2]).begin > snapshot[u] /\ e[2] \notin Mine(u)
    BY <1>2, <1>3, <1>6, LateBegin, Zenon
  <2>2. cid[u] = Header(f[2]).begin /\ snapshot[u] > 0
    BY <1>6, LiveCommitted, Zenon
  <2>3. e[2] # <<1, 0>>
    BY <1>5, <2>1, <2>2 DEF Uniqueness, Origin
  <2> QED
    BY <2>1, <2>2, <2>3
<1>7. ASSUME NEW t \in Txns, e[2] \in Mine(t)
      PROVE  /\ f[2] # <<1, 0>> /\ Header(f[2]).begin > snapshot[t]
             /\ cid[t] = Header(e[2]).begin
  <2>1. Header(f[2]).begin > snapshot[t]
    BY <1>2, <1>3, <1>7, LateBegin, Zenon
  <2>2. cid[t] = Header(e[2]).begin /\ snapshot[t] > 0
    BY <1>7, LiveCommitted, Zenon
  <2>3. f[2] # <<1, 0>>
    BY <1>5, <2>1, <2>2 DEF Uniqueness, Origin
  <2> QED
    BY <2>1, <2>2, <2>3, Zenon
<1>8. PICK t \in Txns, u \in Txns : e[2] \in Mine(t) /\ f[2] \in Mine(u)
  BY <1>2, <1>4, <1>6, <1>7, Zenon
<1>9. t # u
  BY <1>6, <1>8, Zenon
<1>10. \A n, m : n > m <=> m < n
  OBVIOUS
<1> QED
  BY <1>6, <1>7, <1>8, <1>9, <1>10, Zenon
=============================================================================
