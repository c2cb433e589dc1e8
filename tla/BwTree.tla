-------------------------------- MODULE BwTree --------------------------------
(***************************************************************************)
(* The lock-free index, index/bwtree.h.                                    *)
(*                                                                         *)
(* A logical node is a page identifier; the mapping table gives the head   *)
(* of its chain: a base node (leaf or inner) under the deltas prepended to *)
(* it.  Chains are immutable: every change builds a new head and installs  *)
(* it with a compare-and-swap of the table's entry.  A replaced chain goes *)
(* to the garbage table and is freed with the tree, so an address is never *)
(* seen again; "addr" stands for it and makes two heads differ whenever    *)
(* their addresses do.                                                     *)
(*                                                                         *)
(* A step of a thread is one access to the mapping table or to the root,   *)
(* with the local work on the chain it read.  Asserts are compiled out, as *)
(* in the default build (configure.ac); what they claim is stated below as *)
(* properties.  Merging of nodes is not implemented in the code.           *)
(***************************************************************************)
EXTENDS Integers, FiniteSets, Sequences, SequencesExt, FiniteSetsExt, TLC

CONSTANTS Threads, Keys, Values, unique,
  leafslotmax, innerslotmax,
  MAX_DELTA_CHAIN_LEN,
  Load,             \* the calls one thread makes before the others begin
  MaxCalls          \* bound: calls made after that

ASSUME BwTreeAssumption ==
  /\ Keys \subseteq Nat \ {0} /\ IsFiniteSet(Keys)
  /\ leafslotmax \in Nat /\ leafslotmax >= 2
  /\ innerslotmax \in Nat /\ innerslotmax >= 2
  /\ MAX_DELTA_CHAIN_LEN \in Nat /\ MaxCalls \in Nat
  /\ unique \in BOOLEAN

VARIABLES
  mapping_table,    \* page identifier -> head of its chain
  root,
  frame,            \* the local variables of each thread
  least, most,      \* fewest and most copies of each entry since a read began
  calls

vars == <<mapping_table, root, frame, least, most, calls>>

NULL_PID == -1
Infinite == Max(Keys) + 1         \* inf_highkey; inf_lowkey is the key 0
headleaf == 0

NoValues == [v \in Values |-> 0]
Nothing == [k \in Keys |-> NoValues]

-----------------------------------------------------------------------------
(* Chains.  base is, for a leaf, the number of copies of each entry; for   *)
(* an inner node, the sequence of its children, each with the separator on *)
(* its left (0 for the leftmost child).  deltas are listed oldest first.   *)

LeafNode(content, low, high, next_leaf, use) ==
  [leaf |-> TRUE, base |-> content, deltas |-> <<>>, low |-> low, high |-> high,
   next_leafnode |-> next_leaf, slotuse |-> use, addr |-> 0]

InnerNode(children, low, high, use) ==
  [leaf |-> FALSE, base |-> children, deltas |-> <<>>, low |-> low, high |-> high,
   next_leafnode |-> NULL_PID, slotuse |-> use, addr |-> 0]

Freed == [addr |-> -1]            \* the null pointer

need_split(n) == n.slotuse >= (IF n.leaf THEN leafslotmax ELSE innerslotmax)

FaultyKeyInNode(key, n) == n.low < key /\ key < n.high  \* greater, not greaterequal

key_in_node(key, n) == n.low <= key /\ key < n.high

prepend(n, d, use) == [n EXCEPT !.deltas = Append(@, d), !.slotuse = use]

Record(op, key, value) == [op |-> op, key |-> key, value |-> value]
SplitDelta(Kp, pQ) == [op |-> "split", Kp |-> Kp, pQ |-> pQ]
IndexEntryDelta(Kp, Kq, pQ) == [op |-> "index", Kp |-> Kp, Kq |-> Kq, pQ |-> pQ]

KeysOf(content) == {k \in Keys : content[k] # NoValues}

ApplyToLeaf(content, d) ==
  CASE d.op = "insert" -> [content EXCEPT ![d.key][d.value] = @ + 1]
    [] d.op = "delete" -> [content EXCEPT ![d.key][d.value] = 0]
    [] d.op = "split"  -> [k \in Keys |-> IF k >= d.Kp THEN NoValues ELSE content[k]]

leaf_fake_consolidate(n) == FoldLeft(ApplyToLeaf, n.base, n.deltas)

(* Is the key in the chain; and how many values it has, and copies of one. *)
key_is_in(key, n) == leaf_fake_consolidate(n)[key] # NoValues

count_pair(key, value, n) ==
  LET copies == leaf_fake_consolidate(n)[key] IN
  <<FoldFunction(+, 0, copies), copies[value]>>

Child(sep, pid) == [sep |-> sep, pid |-> pid]

(* The position of the child that covers the key.                          *)
ChildOf(children, key) == Max({i \in DOMAIN children : children[i].sep <= key})

FaultyApplyToInner(children, d) ==     \* the child to the left of its separator
  CASE d.op = "index" -> InsertAt(children, ChildOf(children, d.Kp), Child(d.Kp, d.pQ))
    [] d.op = "split" -> SelectSeq(children, LAMBDA c : c.sep < d.Kp)

ApplyToInner(children, d) ==
  CASE d.op = "index" -> InsertAt(children, ChildOf(children, d.Kp) + 1, Child(d.Kp, d.pQ))
    [] d.op = "split" -> SelectSeq(children, LAMBDA c : c.sep < d.Kp)

inner_fake_consolidate(n) == FoldLeft(ApplyToInner, n.base, n.deltas)

(* The node that consolidate installs in place of the chain.               *)
Consolidated(n) ==
  IF n.leaf
  THEN LET c == leaf_fake_consolidate(n) IN
       LeafNode(c, n.low, n.high, n.next_leafnode, Cardinality(KeysOf(c)))
  ELSE LET c == inner_fake_consolidate(n) IN
       InnerNode(c, n.low, n.high, Len(c) - 1)

(* The new right sibling of a full node gets the upper half of its keys.   *)
create_leaf(n) ==
  LET c == leaf_fake_consolidate(n)
      sorted == SetToSortSeq(KeysOf(c), <)
      upper == {sorted[i] : i \in n.slotuse \div 2 + 1 .. n.slotuse}
  IN  LeafNode([k \in Keys |-> IF k \in upper THEN c[k] ELSE NoValues],
               Min(upper), n.high, n.next_leafnode, (n.slotuse + 1) \div 2)

create_inner(n) ==
  LET c == inner_fake_consolidate(n)
      upper == SubSeq(c, n.slotuse \div 2 + 2, n.slotuse + 1)
  IN  InnerNode(<<Child(0, NULL_PID)>> \o upper, upper[1].sep, n.high, (n.slotuse + 1) \div 2)

(* One level of search: the newest delta that decides where the key is, or *)
(* the base.  A record delta ends the search without a look at the deltas  *)
(* below it.                                                               *)
Decides(d, key) ==
  \/ d.op \in {"insert", "delete"}
  \/ d.op = "index" /\ d.Kp <= key /\ key < d.Kq
  \/ d.op = "split" /\ d.Kp <= key

SearchStep(n, key) ==
  LET hits == {i \in DOMAIN n.deltas : Decides(n.deltas[i], key)}
      d == n.deltas[Max(hits)]
  IN  IF hits = {}
      THEN IF n.leaf THEN [to |-> "here", pid |-> NULL_PID]
           ELSE [to |-> "down", pid |-> n.base[ChildOf(n.base, key)].pid]
      ELSE CASE d.op = "index" -> [to |-> "down", pid |-> d.pQ]
             [] d.op = "split" -> [to |-> "right", pid |-> d.pQ]
             [] OTHER          -> [to |-> "here", pid |-> NULL_PID]

-----------------------------------------------------------------------------
(* Threads.  at: where the thread is; then: what it searches for; after:   *)
(* what consolidate returns to; depth: visited_nodes.size().               *)

Blank ==
  [at |-> "idle", kind |-> "none", key |-> 0, value |-> 0,
   then |-> "none", after |-> "none", path |-> <<>>, depth |-> 0,
   pid |-> NULL_PID, node |-> Freed, new |-> NULL_PID, Kp |-> 0, Kq |-> 0,
   cur_root |-> NULL_PID, result |-> Nothing]

Update(t, fields) == frame' = [frame EXCEPT ![t] = fields @@ @]

Return(t) == frame' = [frame EXCEPT ![t] = Blank]

SearchFor(what) == [at |-> "root", then |-> what]

(* insert_entry and delete_entry begin every round with a split.           *)
Again == SearchFor("split") @@ [depth |-> 0, node |-> Freed, new |-> NULL_PID,
                               Kp |-> 0, Kq |-> 0, after |-> "none",
                               cur_root |-> NULL_PID, path |-> <<>>, pid |-> NULL_PID]

(* ... and go on, after it, with a second search.                          *)
SplitDone == SearchFor("consolidate") @@ [after |-> "apply"] @@ Again

(* The compare-and-swap of MappingTable::set.                              *)
CanSet(pid, expected) == mapping_table[pid] = expected
Set(pid, n) ==
  mapping_table' = [mapping_table EXCEPT ![pid] = [n EXCEPT !.addr = mapping_table[pid].addr + 1]]

(* MappingTable::add.                                                      *)
NextPid == Cardinality(DOMAIN mapping_table)
Add(n) == mapping_table' = (NextPid :> n) @@ mapping_table

untouched == <<least, most, calls>>

-----------------------------------------------------------------------------
(* What the index holds: the leaves, from the first one on.                *)

Leaves ==
  LET first[i \in 0 .. NextPid] ==
        IF i = 0 THEN {headleaf}
        ELSE UNION {{p, mapping_table[p].next_leafnode} \ {NULL_PID} : p \in first[i - 1]}
  IN  first[NextPid]

(* A key is held by the leaf whose range it is in (see LeavesOrdered).     *)
Content ==
  [k \in Keys |->
     LET leaf == CHOOSE p \in Leaves : key_in_node(k, mapping_table[p]) IN
     leaf_fake_consolidate(mapping_table[leaf])[k]]

Plus(c, d) == [k \in Keys |-> [v \in Values |-> c[k][v] + d[k][v]]]

-----------------------------------------------------------------------------
(* Calls.                                                                  *)

Requests ==
  [kind : {"insert", "delete"}, key : Keys, value : Values]
    \cup [kind : {"get"}, key : Keys, value : {0}]
    \cup [kind : {"scan"}, key : {0}, value : {0}]

Loader == CHOOSE t \in Threads : TRUE

(* While the index is loaded, the others wait.                             *)
Callable(t) ==
  CASE calls >= Len(Load) -> Requests
    [] t = Loader         -> {Load[calls + 1]}
    [] OTHER              -> {}

Call(t) ==
  /\ frame[t].at = "idle"
  /\ calls < Len(Load) + MaxCalls /\ calls' = calls + 1
  /\ \E r \in Callable(t) :
       /\ Update(t, r @@ (CASE r.kind = "scan" -> [at |-> "scan", pid |-> headleaf]
                            [] r.kind = "get"  -> SearchFor("get")
                            [] OTHER           -> SearchFor("split")))
       /\ IF r.kind \in {"get", "scan"}
          THEN LET now == Content IN
               /\ least' = [least EXCEPT ![t] = now]
               /\ most' = [most EXCEPT ![t] = now]
          ELSE UNCHANGED <<least, most>>
  /\ UNCHANGED <<mapping_table, root>>

(* search(root, key): the root is read, ...                                *)
SearchRoot(t) ==
  /\ frame[t].at = "root"
  /\ Update(t, [at |-> "search", path |-> <<root>>])
  /\ UNCHANGED <<mapping_table, root, untouched>>

(* ... then one node after the other.  find_parent leaves the nodes it has *)
(* visited out of the path it finds.                                       *)
Found(f) ==
  IF f.then = "parent"
  THEN IF Len(f.path) > f.depth
       THEN [at |-> "parent", path |-> SubSeq(f.path, 1, Len(f.path) - f.depth)]
       ELSE [at |-> "undefined"]
  ELSE [at |-> f.then, pid |-> Last(f.path), path |-> Front(f.path)]

Search(t) ==
  LET f == frame[t]
      step == SearchStep(mapping_table[Last(f.path)], f.key)
  IN
  /\ f.at = "search"
  /\ CASE step.to = "here"        -> Update(t, Found(f))
       [] step.pid = NULL_PID     -> Update(t, [at |-> "undefined"])
       [] step.to = "down"        -> Update(t, [path |-> Append(f.path, step.pid)])
       [] step.to = "right"       -> Update(t, [path |-> Append(Front(f.path), step.pid)])
  /\ UNCHANGED <<mapping_table, root, untouched>>

-----------------------------------------------------------------------------
(* split.                                                                  *)

(* check_split_node is read; when it is full, its new sibling is made.     *)
MakeSibling(t, n) ==
  LET q == IF n.leaf THEN create_leaf(n) ELSE create_inner(n) IN
  /\ Add(q)
  /\ Update(t, [at |-> "split_cas", node |-> n, new |-> NextPid, Kp |-> q.low, Kq |-> q.high])

Split(t) ==
  LET n == mapping_table[frame[t].pid] IN
  /\ frame[t].at = "split"
  /\ IF need_split(n)
     THEN MakeSibling(t, n)
     ELSE Update(t, SplitDone) /\ UNCHANGED mapping_table
  /\ UNCHANGED <<root, untouched>>

(* The split delta is installed, or the sibling thrown away.               *)
InstallSplit(t) ==
  LET f == frame[t] IN
  /\ f.at = "split_cas"
  /\ IF CanSet(f.pid, f.node)
     THEN /\ Set(f.pid, [prepend(f.node, SplitDelta(f.Kp, f.new), f.node.slotuse \div 2)
                           EXCEPT !.high = f.Kp, !.next_leafnode = f.new])
          /\ Update(t, [at |-> "consolidate", after |-> "split", node |-> Freed,
                        depth |-> f.depth + 1])
     ELSE /\ mapping_table' = [mapping_table EXCEPT ![f.new] = Freed]
          /\ Update(t, [at |-> "split", node |-> Freed, new |-> NULL_PID, Kp |-> 0, Kq |-> 0])
  /\ UNCHANGED <<root, untouched>>

(* create_root: the new root is stored first, and then swapped in against  *)
(* whatever the root is by then.                                           *)
create_root(t) ==
  LET f == frame[t] IN
  /\ f.at = "create_root"
  /\ Add(InnerNode(<<Child(0, f.pid), Child(f.Kp, f.new)>>, 0, Infinite, 1))
  /\ root' = NextPid
  /\ Update(t, [at |-> "swap_root", cur_root |-> f.pid, new |-> NextPid, Kp |-> 0, Kq |-> 0])
  /\ UNCHANGED untouched

SwapRoot(t) ==
  LET f == frame[t] IN
  /\ f.at = "swap_root"
  /\ IF root = f.cur_root
     THEN root' = f.new /\ Update(t, SplitDone)
     ELSE UNCHANGED root /\ Update(t, [cur_root |-> root])
  /\ UNCHANGED <<mapping_table, untouched>>

(* find_parent: the parent on the path, unless the key has left it.        *)
find_parent(t) ==
  LET f == frame[t]
      n == mapping_table[Last(f.path)]
  IN
  /\ f.at = "parent"
  /\ IF key_in_node(f.key, n)
     THEN Update(t, [at |-> "index_cas", pid |-> Last(f.path), node |-> n])
     ELSE Update(t, SearchFor("parent"))
  /\ UNCHANGED <<mapping_table, root, untouched>>

InstallIndexEntry(t) ==
  LET f == frame[t] IN
  /\ f.at = "index_cas"
  /\ IF CanSet(f.pid, f.node)
     THEN /\ Set(f.pid, prepend(f.node, IndexEntryDelta(f.Kp, f.Kq, f.new), f.node.slotuse + 1))
          /\ Update(t, [at |-> "split_up", path |-> Front(f.path), node |-> Freed,
                        new |-> NULL_PID, Kp |-> 0, Kq |-> 0])
     ELSE /\ Update(t, [at |-> "parent", node |-> Freed])
          /\ UNCHANGED mapping_table
  /\ UNCHANGED <<root, untouched>>

(* The parent, in its turn, is split or consolidated.                      *)
SplitParent(t) ==
  LET n == mapping_table[frame[t].pid] IN
  /\ frame[t].at = "split_up"
  /\ IF need_split(n)
     THEN MakeSibling(t, n)
     ELSE Update(t, [at |-> "consolidate", after |-> "parent"]) /\ UNCHANGED mapping_table
  /\ UNCHANGED <<root, untouched>>

-----------------------------------------------------------------------------
(* consolidate, and what its callers do with the node it returns.          *)

(* insert_entry and delete_entry, with basic_node.                         *)
FaultyApply(f, n) ==                   \* no look at the range of the node
  CASE f.kind = "insert" /\ unique /\ key_is_in(f.key, n)            -> Blank
    [] f.kind = "delete" /\ count_pair(f.key, f.value, n)[2] = 0     -> Blank
    [] OTHER                            -> [at |-> "append", node |-> n]

Apply(f, n) ==
  CASE ~key_in_node(f.key, n)                                        -> Again
    [] f.kind = "insert" /\ unique /\ key_is_in(f.key, n)            -> Blank
    [] f.kind = "delete" /\ count_pair(f.key, f.value, n)[2] = 0     -> Blank
    [] OTHER                            -> [at |-> "append", node |-> n]

Consolidate(f, n) ==
  CASE f.after = "split"  -> [at |-> IF f.path = <<>> THEN "create_root" ELSE "parent",
                              node |-> Freed]
    [] f.after = "parent" -> SplitDone
    [] f.after = "apply"  -> Apply(f, n)

(* A null result: insert_entry begins again, delete_entry dereferences it. *)
ConsolidateNull(f) ==
  CASE f.after = "apply" /\ f.kind = "insert" -> Again
    [] f.after = "apply" /\ f.kind = "delete" -> [at |-> "undefined"]
    [] OTHER                                  -> Consolidate(f, Freed)

(* A short chain is returned, a long one is to be replaced.                *)
Examine(t, n) ==
  IF Len(n.deltas) > MAX_DELTA_CHAIN_LEN
  THEN Update(t, [at |-> "consolidate_cas", node |-> n])
  ELSE Update(t, Consolidate(frame[t], n))

consolidate(t) ==
  /\ frame[t].at = "consolidate"
  /\ Examine(t, mapping_table[frame[t].pid])
  /\ UNCHANGED <<mapping_table, root, untouched>>

InstallConsolidated(t) ==
  LET f == frame[t]
      n == Consolidated(f.node)
  IN
  /\ f.at = "consolidate_cas"
  /\ IF CanSet(f.pid, f.node)
     THEN /\ Set(f.pid, n)
          /\ Update(t, Consolidate(f, [n EXCEPT !.addr = f.node.addr + 1]))
     ELSE /\ Update(t, [at |-> "consolidate_again", node |-> Freed])
          /\ UNCHANGED mapping_table
  /\ UNCHANGED <<root, untouched>>

ConsolidateAgain(t) ==
  LET n == mapping_table[frame[t].pid] IN
  /\ frame[t].at = "consolidate_again"
  /\ IF need_split(n) THEN Update(t, ConsolidateNull(frame[t])) ELSE Examine(t, n)
  /\ UNCHANGED <<mapping_table, root, untouched>>

-----------------------------------------------------------------------------
(* The record delta is installed: the entry is inserted or deleted.        *)

(* The bounds of those who read follow the number of copies of the entry.  *)
Count(k, v, copies) ==
  LET Follow(bound, to(_)) ==
        [t \in Threads |-> IF frame[t].kind \in {"get", "scan"}
                           THEN [bound[t] EXCEPT ![k][v] = to({@, copies})]
                           ELSE bound[t]]
  IN  least' = Follow(least, Min) /\ most' = Follow(most, Max)

(* slotuse counts the keys: one more for a new key, one less for the last  *)
(* value of a key.                                                         *)
FaultyRecordDelta(f) ==                \* deletekey is not looked at
  LET new_key == f.kind = "insert" /\ ~key_is_in(f.key, f.node) IN
  prepend(f.node, Record(f.kind, f.key, f.value), f.node.slotuse + (IF new_key THEN 1 ELSE 0))

RecordDelta(f) ==
  LET n == f.node
      count == count_pair(f.key, f.value, n)
      new_key == f.kind = "insert" /\ ~key_is_in(f.key, n)
      deletekey == f.kind = "delete" /\ count[2] = count[1]
  IN  prepend(n, Record(f.kind, f.key, f.value),
              CASE new_key -> n.slotuse + 1 [] deletekey -> n.slotuse - 1 [] OTHER -> n.slotuse)

InstallRecord(t) ==
  LET f == frame[t]
      n == RecordDelta(f)
  IN
  /\ f.at = "append"
  /\ IF CanSet(f.pid, f.node)
     THEN /\ Set(f.pid, n)
          /\ Return(t)
          /\ Count(f.key, f.value, leaf_fake_consolidate(n)[f.key][f.value])
     ELSE /\ Update(t, Again)
          /\ UNCHANGED <<mapping_table, least, most>>
  /\ UNCHANGED <<root, calls>>

-----------------------------------------------------------------------------
(* Reads.                                                                  *)

(* get_value, from the leaf the search found; it follows split deltas.     *)
FaultyGetValue(t) ==                   \* without delset
  LET f == frame[t]
      n == mapping_table[f.pid]
      splits == {i \in DOMAIN n.deltas : n.deltas[i].op = "split" /\ n.deltas[i].Kp <= f.key}
      inserts == SelectSeq(n.deltas, LAMBDA d : d.op = "insert")
  IN
  /\ f.at = "get"
  /\ IF splits # {}
     THEN Update(t, [pid |-> n.deltas[Max(splits)].pQ])
     ELSE Update(t, [at |-> "read",
                     result |-> [Nothing EXCEPT
                                   ![f.key] = FoldLeft(ApplyToLeaf, n.base, inserts)[f.key]]])
  /\ UNCHANGED <<mapping_table, root, untouched>>

FaultyDelset(t) ==                     \* a deletion hides all values of its key
  LET f == frame[t]
      n == mapping_table[f.pid]
      splits == {i \in DOMAIN n.deltas : n.deltas[i].op = "split" /\ n.deltas[i].Kp <= f.key}
      hidden == \E i \in DOMAIN n.deltas : n.deltas[i].op = "delete" /\ n.deltas[i].key = f.key
  IN
  /\ f.at = "get"
  /\ IF splits # {}
     THEN Update(t, [pid |-> n.deltas[Max(splits)].pQ])
     ELSE Update(t, [at |-> "read",
                     result |-> [Nothing EXCEPT
                                   ![f.key] = IF hidden THEN NoValues
                                              ELSE leaf_fake_consolidate(n)[f.key]]])
  /\ UNCHANGED <<mapping_table, root, untouched>>

get_value(t) ==
  LET f == frame[t]
      n == mapping_table[f.pid]
      splits == {i \in DOMAIN n.deltas : n.deltas[i].op = "split" /\ n.deltas[i].Kp <= f.key}
  IN
  /\ f.at = "get"
  /\ IF splits # {}
     THEN Update(t, [pid |-> n.deltas[Max(splits)].pQ])
     ELSE Update(t, [at |-> "read",
                     result |-> [Nothing EXCEPT ![f.key] = leaf_fake_consolidate(n)[f.key]]])
  /\ UNCHANGED <<mapping_table, root, untouched>>

(* scan_all and scan, one leaf at a time.                                  *)
FaultyScan(t) ==                       \* an empty leaf is taken for the end
  LET f == frame[t]
      n == mapping_table[f.pid]
      end == n.next_leafnode = NULL_PID \/ KeysOf(leaf_fake_consolidate(n)) = {}
  IN
  /\ f.at = "scan"
  /\ Update(t, [at |-> IF end THEN "read" ELSE "scan",
                pid |-> n.next_leafnode,
                result |-> Plus(f.result, leaf_fake_consolidate(n))])
  /\ UNCHANGED <<mapping_table, root, untouched>>

scan(t) ==
  LET f == frame[t]
      n == mapping_table[f.pid]
  IN
  /\ f.at = "scan"
  /\ Update(t, [at |-> IF n.next_leafnode = NULL_PID THEN "read" ELSE "scan",
                pid |-> n.next_leafnode,
                result |-> Plus(f.result, leaf_fake_consolidate(n))])
  /\ UNCHANGED <<mapping_table, root, untouched>>

EndRead(t) ==
  /\ frame[t].at = "read"
  /\ Return(t)
  /\ least' = [least EXCEPT ![t] = Nothing]
  /\ most' = [most EXCEPT ![t] = Nothing]
  /\ UNCHANGED <<mapping_table, root, calls>>

-----------------------------------------------------------------------------
Init ==
  /\ mapping_table = (0 :> LeafNode(Nothing, 0, Infinite, NULL_PID, 0))
  /\ root = 0
  /\ frame = [t \in Threads |-> Blank]
  /\ least = [t \in Threads |-> Nothing]
  /\ most = [t \in Threads |-> Nothing]
  /\ calls = 0

Step(t) ==
  \/ SearchRoot(t) \/ Search(t)
  \/ Split(t) \/ InstallSplit(t) \/ create_root(t) \/ SwapRoot(t)
  \/ find_parent(t) \/ InstallIndexEntry(t) \/ SplitParent(t)
  \/ consolidate(t) \/ InstallConsolidated(t) \/ ConsolidateAgain(t)
  \/ InstallRecord(t)
  \/ get_value(t) \/ scan(t) \/ EndRead(t)

(* Undefined behaviour ends the process.                                   *)
Running == \A t \in Threads : frame[t].at # "undefined"

Idle == \A t \in Threads : frame[t].at = "idle"

(* The calls of the instance have been made.                               *)
AllDone == Idle /\ calls = Len(Load) + MaxCalls /\ UNCHANGED vars

Next == Running /\ ((\E t \in Threads : Call(t) \/ Step(t)) \/ AllDone)

Spec == Init /\ [][Next]_vars

FairSpec == Spec /\ \A t \in Threads : WF_vars(Running /\ Step(t))
-----------------------------------------------------------------------------
(* The state has its type: pages are numbered without gaps, every page has *)
(* a range, and root, siblings and the pages threads work on exist.        *)
TypeOK ==
  /\ DOMAIN mapping_table = 0 .. NextPid - 1
  /\ \A p \in DOMAIN mapping_table :
       mapping_table[p] # Freed =>
         /\ mapping_table[p].next_leafnode \in DOMAIN mapping_table \cup {NULL_PID}
         /\ mapping_table[p].slotuse \in Nat
         /\ 0 <= mapping_table[p].low /\ mapping_table[p].low < mapping_table[p].high
  /\ root \in DOMAIN mapping_table
  /\ \A t \in Threads : frame[t].pid \in DOMAIN mapping_table \cup {NULL_PID}
  /\ calls \in 0 .. Len(Load) + MaxCalls

(* insert_entry and delete_entry take effect at one instant, whatever      *)
(* splits, consolidations and other calls they interleave with: the leaves *)
(* hold a multimap, and a call returns false only if, at an instant        *)
(* between its begin and its end, a unique index had the key or there was  *)
(* nothing to delete.                                                      *)
request ==
  [t \in Threads |-> [kind |-> frame[t].kind, key |-> frame[t].key, value |-> frame[t].value]]

M == INSTANCE Multimap WITH content <- Content, request <- request

ImplementsMultimap == M!Spec

(* What the asserts of leaf_fake_consolidate and create_leaf rely on: the  *)
(* list of leaves covers the keys without gap or overlap, every leaf holds *)
(* keys of its range only, and slotuse, which is carried from delta to     *)
(* delta and never recounted in between, is their number.                  *)
LeavesOrdered ==
  \A p \in Leaves :
    LET n == mapping_table[p]
        held == KeysOf(leaf_fake_consolidate(n))
    IN  /\ n.slotuse = Cardinality(held)
        /\ \A k \in held : key_in_node(k, n)
        /\ IF n.next_leafnode = NULL_PID THEN n.high = Infinite
           ELSE mapping_table[n.next_leafnode].low = n.high

(* get_value, scan_all and scan return no more copies of an entry than the *)
(* index held at some instant since the call: no deleted entry comes back, *)
(* and none is read twice because a split moved it.                        *)
ReadsWhatWasThere ==
  \A t \in Threads : frame[t].at = "read" =>
    \A k \in Keys, v \in Values : frame[t].result[k][v] <= most[t][k][v]

(* scan_all and scan miss no entry that the index held all along, although *)
(* leaves split and are consolidated while they go from leaf to leaf.      *)
ScanComplete ==
  \A t \in Threads : frame[t].at = "read" /\ frame[t].kind = "scan" =>
    \A k \in Keys, v \in Values : least[t][k][v] <= frame[t].result[k][v]

(* Nor does get_value.  It holds when calls do not overlap; a look-up      *)
(* between the consolidation of a split leaf, which drops the split delta, *)
(* and the entry in the parent misses the keys that moved.                 *)
LookupComplete ==
  \A t \in Threads : frame[t].at = "read" /\ frame[t].kind = "get" =>
    \A v \in Values : least[t][frame[t].key][v] <= frame[t].result[frame[t].key][v]

(* Where a search for the key ends.                                        *)
Target(key) ==
  LET at[i \in 0 .. 2 * NextPid] ==
        IF i = 0 THEN root
        ELSE LET p == at[i - 1]
                 step == SearchStep(mapping_table[p], key)
             IN  IF p = NULL_PID \/ step.to = "here" THEN p ELSE step.pid
  IN  at[2 * NextPid]

(* When no call is under way, the search for any key ends in the leaf of   *)
(* the list whose range the key is in: splits of leaves, of inner nodes    *)
(* and of the root leave every leaf within reach.  It holds when calls do  *)
(* not overlap.  A thread that searched while the root was a leaf splits   *)
(* that leaf again, later, under a new root, and puts a second root over   *)
(* it (create_root): the rest of the tree is out of reach for good.        *)
Routed ==
  Idle =>
    \A k \in Keys : Target(k) \in Leaves /\ key_in_node(k, mapping_table[Target(k)])

(* Every call returns: the retries of insert_entry, delete_entry, split    *)
(* and consolidate end.  It holds when calls do not overlap; once Routed   *)
(* is lost, an insertion of a key out of reach is retried for ever.        *)
Returns ==
  \A t \in Threads : frame[t].at # "idle" ~> frame[t].at = "idle" \/ ~Running

(* The arrays of a node have one slot more than the size at which it is    *)
(* split ("we plus one so as to avoid overflow when consolidation").       *)
(* Between the split and the consolidation of a call others may insert     *)
(* into the same leaf, each of which has made its check for a split: with  *)
(* three threads it is violated.                                           *)
SlotsFit ==
  \A p \in DOMAIN mapping_table : mapping_table[p] # Freed =>
    mapping_table[p].slotuse <= (IF mapping_table[p].leaf THEN leafslotmax ELSE innerslotmax) + 1
=============================================================================
