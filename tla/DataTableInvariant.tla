------------------------- MODULE DataTableInvariant -------------------------
(***************************************************************************)
(* The inductive invariant of DataTable, and the terms in which its steps  *)
(* are described for the proofs: locations instead of tile groups.         *)
(* DataTableTypes proves TypeInv inductive, DataTableHeaders Tracked,      *)
(* DataTableKeys EntriesOK and Uniqueness, DataTableProofs Structure.      *)
(***************************************************************************)
EXTENDS DataTable

-----------------------------------------------------------------------------
(* Types.                                                                  *)

(* What a slot may hold, and the keys that tuples have.                    *)
Rows == Tuples \cup {NoTuple}

Keys == {tuple[i] : tuple \in Tuples, i \in 1 .. index_count}

Headers == [txn_id : Txns \cup {INITIAL_TXN_ID, INVALID_TXN_ID}, begin : Nat, end : Nat]

TileGroups == [id : Nat, next : 0 .. tuples_per_tilegroup,
               tuple : [Slots -> Rows], header : [Slots -> Headers]]

(* The locations that the directory has.                                   *)
Locs == (DOMAIN locator) \X Slots

(* What a thread may have as location, and what it may have read as        *)
(* storage.                                                                *)
Places == Locs \cup {<<>>}

Storages == {0} \cup {Capacity(n) : n \in Nat}

Frames == [tuple : Rows, offset : Nat, storage : Storages, group : Nat, oid : Nat,
           location : Places, itr : Nat]

Transforms == [phase : {"idle", "header", "install"}, group : Nat,
               copy : TileGroups, count : Nat]

(* The table and its directory.                                            *)
Directory ==
  /\ oid \in Nat /\ DOMAIN locator \subseteq 1 .. oid
  /\ heap \in Seq(TileGroups)
  /\ locator \in [DOMAIN locator -> 1 .. Len(heap)]
  /\ \A id \in DOMAIN locator : heap[locator[id]].id = id
  /\ \A g \in 1 .. Len(heap) : heap[g].id \in DOMAIN locator
  /\ tile_groups \in Seq(DOMAIN locator) /\ Len(tile_groups) > 0

(* The program counters and local variables of the threads.                *)
Threads == pc \in [Txns -> PCs] /\ frame \in [Txns -> Frames]

(* Commit ids and snapshots.                                               *)
Registers ==
  /\ last_cid \in Nat /\ ops \in [Txns -> Nat]
  /\ snapshot \in [Txns -> Nat] /\ cid \in [Txns -> Nat]

(* What transactions have recorded, and what the indexes lead to.          *)
Recorded ==
  /\ inserted_tuples \in [Txns -> SUBSET Locs] /\ deleted_tuples \in [Txns -> SUBSET Locs]
  /\ index \in [1 .. index_count -> SUBSET (Keys \X Locs)]

(* The steps of InsertTuple.                                               *)
Inside == {"count", "load", "element", "claim", "full", "add", "check", "enter"}

(* What a thread inside InsertTuple has in its local variables.            *)
FrameOK(t) ==
  /\ pc[t] \in Inside => frame[t].tuple \in Tuples
  /\ pc[t] \in {"load", "element"} => frame[t].offset < Len(tile_groups)
  /\ pc[t] = "claim" => frame[t].group \in 1 .. Len(heap)
  /\ pc[t] = "add" => frame[t].oid \in 1 .. oid
  /\ pc[t] \in {"check", "enter"} => frame[t].location \in Locs /\ frame[t].itr \in 1 .. index_count

(* A transformation works on an object of the heap that has an id.         *)
Transforming ==
  /\ transform \in Transforms
  /\ transform.phase # "idle" =>
       transform.group \in 1 .. Len(heap) /\ transform.copy.id \in DOMAIN locator

Committed == {t \in Txns : cid[t] # 0}

(* A transaction commits once, and takes one commit id.                    *)
Counted ==
  /\ last_cid <= 1 + Cardinality(Committed)
  /\ \A t \in Committed : pc[t] = "done"

(* The inductive type invariant.                                           *)
TypeInv ==
  /\ Directory /\ Threads /\ Registers /\ Recorded
  /\ (\A t \in Txns : FrameOK(t)) /\ Transforming /\ Counted

(* A step of t changes no other thread.                                    *)
Alone(t) == \A u \in Txns \ {t} : pc'[u] = pc[u] /\ frame'[u] = frame[u]

-----------------------------------------------------------------------------
(* The structure of the table, while tile groups are transformed only when *)
(* no transaction runs.                                                    *)

(* The oid of a tile group that a thread is about to add is nobody else's. *)
Fresh ==
  \A t \in Txns : pc[t] = "add" =>
    /\ frame[t].oid \notin DOMAIN locator
    /\ \A u \in Txns \ {t} : pc[u] = "add" => frame[u].oid # frame[t].oid

(* The object that a thread claims a slot of is the one that the directory *)
(* has.                                                                    *)
Current == \A t \in Txns : pc[t] = "claim" => locator[heap[frame[t].group].id] = frame[t].group

(* A transformation copies what the directory has, and its copy is up to   *)
(* date: no transaction runs.                                              *)
Copied ==
  transform.phase # "idle" =>
    /\ Idle
    /\ transform.group = locator[transform.copy.id]
    /\ transform.copy.tuple = heap[transform.group].tuple
    /\ transform.phase = "install" => transform.copy = heap[transform.group]

Structure == Fresh /\ Current /\ Copied /\ GroupsFull

(* The used slots are those before the next free one.                      *)
NextSlot(id) == GetTileGroup(id).next

Used == {l \in Locs : l[2] < NextSlot(l[1])}

(* Unused slots are as they were made.                                     *)
Unused == \A l \in Locs \ Used : Header(l) = EmptySlot

(* What the three words of a header can be.                                *)
HeaderOK(h) ==
  /\ h.begin \in 1 .. last_cid \cup {MAX_CID} /\ h.end \in 1 .. last_cid \cup {MAX_CID}
  /\ h.txn_id = INVALID_TXN_ID => h.begin = MAX_CID
  /\ h.txn_id = INITIAL_TXN_ID => h.begin # MAX_CID
  /\ h.txn_id \in Txns => h.end = MAX_CID

(* The snapshot and the commit id of a transaction, and its lists before   *)
(* it begins.                                                              *)
SnapshotOK(t) ==
  /\ snapshot[t] <= last_cid /\ (pc[t] # "idle" => snapshot[t] > 0)
  /\ cid[t] <= last_cid /\ (cid[t] # 0 => pc[t] = "done")
  /\ pc[t] = "idle" => inserted_tuples[t] = {} /\ deleted_tuples[t] = {}

Entering(t) == pc[t] \in {"check", "enter"}

(* The slot that a thread inside InsertTuple has claimed.                  *)
ClaimOK(t) ==
  Entering(t) =>
    LET l == frame[t].location IN
    /\ l \in Used /\ TupleAt(l) = frame[t].tuple
    /\ Header(l) = [EmptySlot EXCEPT !.txn_id = t]
    /\ \A u \in Txns : l \notin inserted_tuples[u] \cup deleted_tuples[u]

(* Who has latched a location, and what for.                               *)
LatchOK(t, l) ==
  Header(l).txn_id = t =>
    IF Header(l).begin = MAX_CID
    THEN /\ pc[t] # "idle"
         /\ \/ l \in inserted_tuples[t] \ deleted_tuples[t]
            \/ Entering(t) /\ l = frame[t].location
            \/ pc[t] \in {"failed", "done"}
    ELSE /\ Header(l).begin <= snapshot[t]
         /\ l \in deleted_tuples[t] /\ pc[t] # "done"

(* What a running transaction has deleted it has latched, unless it had    *)
(* inserted it too.                                                        *)
DeletedOK(t, l) ==
  l \in deleted_tuples[t] /\ pc[t] # "done" =>
    \/ Header(l).begin # MAX_CID /\ Header(l).txn_id = t
    \/ l \in inserted_tuples[t]

(* What a transaction has inserted only it has inserted, and the header    *)
(* has its fate: invalid when it was deleted again or aborted, the commit  *)
(* id when it was committed, latched until then.                           *)
KeptOK(t, l) ==
  l \in inserted_tuples[t] =>
    LET h == Header(l) IN
    /\ \A u \in Txns \ {t} : l \notin inserted_tuples[u]
    /\ IF l \in deleted_tuples[t] \/ (pc[t] = "done" /\ cid[t] = 0)
      THEN h.begin = MAX_CID /\ h.txn_id = INVALID_TXN_ID
      ELSE IF cid[t] # 0 THEN h.begin = cid[t]
      ELSE h.begin = MAX_CID /\ h.txn_id = t

(* The headers and the transactions together.                              *)
Tracked ==
  /\ last_cid > 0
  /\ \A t \in Txns : inserted_tuples[t] \cup deleted_tuples[t] \subseteq Used
  /\ Unused
  /\ \A l \in Locs : HeaderOK(Header(l))
  /\ \A t \in Txns : SnapshotOK(t) /\ ClaimOK(t)
  /\ \A t \in Txns : \A l \in Locs : LatchOK(t, l) /\ DeletedOK(t, l) /\ KeptOK(t, l)

(* The entry of index i for the tuple at l.                                *)
Entry(i, l) == <<TupleAt(l)[i], l>>

(* Entries are those of the tuples they lead to; a recorded insert is in   *)
(* every index, one being entered in those done so far.                    *)
EntriesOK ==
  /\ \A i \in 1 .. index_count : \A e \in index[i] :
       e[2] \in Used /\ TupleAt(e[2]) \in Tuples /\ e = Entry(i, e[2])
  /\ \A t \in Txns : \A l \in inserted_tuples[t] :
       TupleAt(l) \in Tuples /\ \A i \in 1 .. index_count : Entry(i, l) \in index[i]
  /\ \A t \in Txns : pc[t] = "enter" =>
       \A i \in frame[t].itr + 1 .. index_count : Entry(i, frame[t].location) \in index[i]

(* The locations that a transaction has inserted at.                       *)
Mine(t) == inserted_tuples[t] \cup (IF Entering(t) THEN {frame[t].location} ELSE {})

(* Every entry leads to the loaded tuple or to an insert.                  *)
Owned == \A i \in 1 .. index_count : \A e \in index[i] :
  \/ e[2] = <<1, 0>>
  \/ \E t \in Txns : e[2] \in inserted_tuples[t] \/ (pc[t] = "enter" /\ e[2] = frame[t].location)

(* The loaded tuple is nobody's insert.                                    *)
Origin == <<1, 0>> \in Used /\ Header(<<1, 0>>).begin = 1
          /\ \A t \in Txns : <<1, 0>> \notin Mine(t)

(* A slot whose tuple nobody will ever see.                                *)
Invalid(l) == Header(l).txn_id = INVALID_TXN_ID

(* The tuple at l is no live tuple for an inserter u.                      *)
Apart(l, u) ==
  \/ Header(l).begin > snapshot[u] /\ l \notin Mine(u)
  \/ Header(l).end # MAX_CID
  \/ Header(l).txn_id = u /\ Header(l).begin # MAX_CID
  \/ Invalid(l)

(* Nothing with the key of t is visible to t in index i, but its own slot. *)
Checked(t, i) ==
  \A e \in index[i] :
    e[1] = frame[t].tuple[i] /\ e[2] # frame[t].location => ~IsVisible(Header(e[2]), t)

(* An inserter has checked the indexes behind the one it is at, and once   *)
(* it enters keys all of them.                                             *)
ChecksOK ==
  \A t \in Txns : \A i \in Unique :
    (pc[t] = "check" /\ i > frame[t].itr) \/ pc[t] = "enter" => Checked(t, i)

(* Of two entries with the same unique key, the one that is not u's is     *)
(* apart from u.                                                           *)
Distinct ==
  \A i \in Unique : \A e, f \in index[i] : \A u \in Txns :
    e[1] = f[1] /\ e # f /\ f[2] \in Mine(u) => Apart(e[2], u) \/ Invalid(f[2])

(* The inductive invariant for unique keys.                                *)
Uniqueness == Owned /\ Origin /\ ChecksOK /\ Distinct

-----------------------------------------------------------------------------
(* Steps in terms of locations.                                            *)

(* Tile groups that are added, replaced by a copy or left alone: what the  *)
(* directory has at its locations stays, and new locations are empty.      *)
Untouched ==
  /\ Locs \subseteq Locs' /\ Used' = Used
  /\ \A l \in Locs : Header(l)' = Header(l) /\ TupleAt(l)' = TupleAt(l)
  /\ \A l \in Locs' \ Locs : Header(l)' = EmptySlot
  /\ \A id \in DOMAIN locator : NextSlot(id)' = NextSlot(id)

(* A slot is claimed.                                                      *)
Claimed(l, tuple, t) ==
  /\ Locs' = Locs /\ l \in Locs \ Used /\ Used' = Used \cup {l}
  /\ Header(l)' = [EmptySlot EXCEPT !.txn_id = t] /\ TupleAt(l)' = tuple
  /\ \A m \in Locs \ {l} : Header(m)' = Header(m) /\ TupleAt(m)' = TupleAt(m)
  /\ \A id \in DOMAIN locator : NextSlot(id) = tuples_per_tilegroup => NextSlot(id)' = NextSlot(id)

(* Headers get new words.                                                  *)
Written(new) ==
  /\ Locs' = Locs /\ Used' = Used
  /\ \A l \in Locs : /\ TupleAt(l)' = TupleAt(l)
                     /\ Header(l)' = IF l \in DOMAIN new THEN new[l] ELSE Header(l)
  /\ \A id \in DOMAIN locator : NextSlot(id)' = NextSlot(id)

(* The actions of a thread that leave the directory and its objects alone. *)
Reading(t) ==
  Begin(t) \/ InsertTuple(t) \/ LastTileGroup(t) \/ LoadStorage(t) \/ CheckIndex(t) \/ InsertEntry(t)

(* The actions of a thread that write headers.                             *)
Writing(t) == DeleteTuple(t) \/ Commit(t) \/ Abort(t)

(* The header that a delete, a commit and an abort write.                  *)
DeleteWord(l, t) == [Header(l) EXCEPT !.txn_id = IF Header(l).txn_id = t THEN INVALID_TXN_ID ELSE t]

CommitWord(l, t) ==
  LET h == Header(l) IN
  IF h.txn_id # t THEN h
  ELSE IF h.begin = MAX_CID THEN [h EXCEPT !.txn_id = INITIAL_TXN_ID, !.begin = last_cid + 1]
  ELSE [h EXCEPT !.txn_id = INITIAL_TXN_ID, !.end = last_cid + 1]

AbortWord(l, t) ==
  LET h == Header(l) IN
  IF h.begin = MAX_CID THEN [h EXCEPT !.txn_id = INVALID_TXN_ID]
  ELSE IF h.txn_id = t THEN [h EXCEPT !.txn_id = INITIAL_TXN_ID]
  ELSE h

(* What the steps do to locations, entries and transactions, without the   *)
(* tile groups.                                                            *)
Early == {"running", "count", "load", "element", "claim", "full", "add"}

(* What no step of InsertTuple changes before it enters keys.              *)
Same == UNCHANGED <<index, last_cid, snapshot, cid, inserted_tuples, deleted_tuples>>

(* A step that others cannot see.                                          *)
Quiet ==
  /\ Untouched /\ Same
  /\ \A t \in Txns : \/ pc'[t] = pc[t] /\ frame'[t] = frame[t]
                     \/ pc[t] \in Early /\ pc'[t] \in Early \cup {"failed"}

(* A transaction begins.                                                   *)
Begins(t) ==
  /\ Untouched /\ Alone(t) /\ pc[t] = "idle" /\ pc'[t] = "running"
  /\ snapshot'[t] = last_cid /\ \A u \in Txns \ {t} : snapshot'[u] = snapshot[u]
  /\ UNCHANGED <<index, last_cid, cid, inserted_tuples, deleted_tuples>>

(* An insert claims a slot.                                                *)
Claims(t) ==
  /\ Alone(t) /\ Same /\ pc[t] = "claim" /\ pc'[t] = "check"
  /\ frame'[t].tuple = frame[t].tuple /\ frame'[t].itr = index_count
  /\ \E l \in Locs : l = frame'[t].location /\ Claimed(l, frame[t].tuple, t)

(* The key is that of a tuple which is visible to the inserter.            *)
Conflict(t) ==
  LET i == frame[t].itr IN
  /\ i \in Unique
  /\ \E e \in index[i] : e[1] = frame[t].tuple[i] /\ IsVisible(Header(e[2]), t)

(* A key passes the check of an index.                                     *)
Checks(t) ==
  /\ Untouched /\ Alone(t) /\ Same /\ pc[t] = "check" /\ ~Conflict(t)
  /\ frame'[t].tuple = frame[t].tuple /\ frame'[t].location = frame[t].location
  /\ \/ frame[t].itr > 1 /\ frame'[t].itr = frame[t].itr - 1 /\ pc'[t] = "check"
     \/ frame[t].itr = 1 /\ frame'[t].itr = index_count /\ pc'[t] = "enter"

(* A key does not pass it.                                                 *)
Fails(t) == Untouched /\ Alone(t) /\ Same /\ pc[t] = "check" /\ pc'[t] = "failed"

(* A key is entered into an index; after the last one the insert is        *)
(* recorded.                                                               *)
Enters(t) ==
  LET i == frame[t].itr
      l == frame[t].location IN
  /\ Untouched /\ Alone(t) /\ pc[t] = "enter"
  /\ index'[i] = index[i] \cup {<<frame[t].tuple[i], l>>}
  /\ \A j \in 1 .. index_count \ {i} : index'[j] = index[j]
  /\ \/ /\ i > 1 /\ frame'[t].itr = i - 1 /\ UNCHANGED <<pc, inserted_tuples>>
        /\ frame'[t].tuple = frame[t].tuple /\ frame'[t].location = l
     \/ /\ i = 1 /\ pc'[t] = "running" /\ inserted_tuples'[t] = inserted_tuples[t] \cup {l}
        /\ \A u \in Txns \ {t} : inserted_tuples'[u] = inserted_tuples[u]
  /\ UNCHANGED <<last_cid, snapshot, cid, deleted_tuples>>

(* A visible tuple that nobody holds, or an insert of its own, is deleted. *)
Deletes(t) ==
  /\ pc[t] = "running"
  /\ \E l \in Locs :
       /\ IsVisible(Header(l), t)
       /\ \/ Header(l).txn_id = INITIAL_TXN_ID /\ Header(l).end = MAX_CID
          \/ Header(l).txn_id = t
       /\ Written([x \in {l} |-> DeleteWord(l, t)])
       /\ deleted_tuples'[t] = deleted_tuples[t] \cup {l}
  /\ \A u \in Txns \ {t} : deleted_tuples'[u] = deleted_tuples[u]
  /\ UNCHANGED <<index, pc, frame, last_cid, snapshot, cid, inserted_tuples>>

(* A commit, and an abort, of what the transaction inserted and deleted.   *)
Commits(t) ==
  /\ pc[t] = "running" /\ pc'[t] = "done" /\ Alone(t)
  /\ last_cid' = last_cid + 1 /\ cid'[t] = last_cid + 1
  /\ \A u \in Txns \ {t} : cid'[u] = cid[u]
  /\ Written([l \in inserted_tuples[t] \cup deleted_tuples[t] |-> CommitWord(l, t)])
  /\ UNCHANGED <<index, frame, snapshot, inserted_tuples, deleted_tuples>>

Aborts(t) ==
  /\ pc[t] \in {"running", "failed"} /\ pc'[t] = "done" /\ Alone(t) /\ Same
  /\ UNCHANGED frame
  /\ Written([l \in inserted_tuples[t] \cup deleted_tuples[t] |-> AbortWord(l, t)])

(* What a step of a thread can be.                                         *)
View(t) == \/ Begins(t) \/ Claims(t) \/ Checks(t) \/ Fails(t) \/ Enters(t)
           \/ Deletes(t) \/ Commits(t) \/ Aborts(t)

(* The steps as the headers and the entries of the indexes see them.       *)
ViewNext == Quiet \/ \E t \in Txns : View(t)

(* Commit ids stay below the one that stands for none.                     *)
Bounded == last_cid \in Nat /\ MAX_CID \in Nat /\ last_cid < MAX_CID /\ 1 < MAX_CID

(* How the header of a used slot, and whose slot it is, may change.        *)
HeaderEvolves(l) ==
  /\ Invalid(l) => Invalid(l)'
  /\ \/ Header(l)'.begin = Header(l).begin
     \/ Header(l).begin = MAX_CID /\ Header(l)'.begin = last_cid + 1
  /\ Header(l).end # MAX_CID => Header(l)'.end # MAX_CID
  /\ \A t \in Txns :
       /\ Header(l).txn_id = t /\ Header(l).begin # MAX_CID =>
            \/ Header(l)'.txn_id = t \/ Header(l)'.end # MAX_CID
            \/ pc'[t] = "done" /\ cid'[t] = 0
       /\ Entering(t) /\ Entering(t)' /\ ~IsVisible(Header(l), t) => ~IsVisible(Header(l), t)'

(* How the table may change for inserters.                                 *)
Evolves ==
  /\ Used \subseteq Used'
  /\ \A l \in Used : HeaderEvolves(l)
  /\ \A t \in Txns : \A l \in Used : l \in Mine(t)' => l \in Mine(t)
  /\ \A t \in Txns : snapshot'[t] = snapshot[t] \/ Mine(t)' = {}
=============================================================================
