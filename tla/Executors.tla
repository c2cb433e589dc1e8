------------------------------ MODULE Executors ------------------------------
(***************************************************************************)
(* The executors with two inputs: nested-loop, merge and hash join         *)
(* (executor/*_join_executor.cpp on abstract_join_executor.cpp) and the    *)
(* hashed set operations (hash_set_op_executor.cpp), under the loop of     *)
(* PlanExecutor that asks the root for tiles until it has no more.         *)
(*                                                                         *)
(* An executor works a tile at a time: each call of DExecute takes tiles   *)
(* from the children as it needs them and returns at most one tile.  What  *)
(* it returns over all the calls should not depend on how the rows of the  *)
(* inputs are cut into tiles.                                              *)
(*                                                                         *)
(* A row is known by its place <<tile, row>> and has a key; a row of a     *)
(* join is a pair of places.  A child is a scan: its tiles are dense and   *)
(* not empty.                                                              *)
(***************************************************************************)
EXTENDS Integers, Sequences, FiniteSets, FiniteSetsExt, SequencesExt

CONSTANTS
  Keys, SortedKeys,    \* keys of the rows, and of those of a merge join
  MaxTiles, MaxRows,   \* bounds: tiles of an input, rows of a tile
  Excluded             \* keys for which the predicate beside the join keys is false

ASSUME ExecutorsAssumption ==
  /\ Keys \subseteq Nat /\ SortedKeys \subseteq Nat
  /\ MaxRows \in Nat \ {0} /\ MaxTiles \in Nat \ {0}

VARIABLES
  kind, join_type,            \* the plan
  left, right,                \* the tiles of the children
  left_tiles, right_tiles,    \* how many of them have been buffered
  left_child_done_, right_child_done_,
  right_result_itr_,          \* nested loop
  rows,                       \* merge: the runs [start, end) of both tiles
  buffered_output_tiles,      \* hash
  no_matching_left, no_matching_right, left_matching_idx, right_matching_idx,
  pc,                         \* "call", or what a call does next
  retried,                    \* merge: this is a call from line 221
  status,
  output, emitted, nulls      \* rows returned, how many, and tiles that were null

inputVars == <<kind, join_type, left, right>>
childVars == <<left_tiles, right_tiles, left_child_done_, right_child_done_>>
matchVars == <<no_matching_left, no_matching_right, left_matching_idx, right_matching_idx>>
resultVars == <<retried, status, output, emitted, nulls>>
vars == <<inputVars, childVars, right_result_itr_, rows, buffered_output_tiles,
          matchVars, pc, resultVars>>

Joins == {"nested_loop", "merge", "hash"}
JoinTypes == {"INNER", "LEFT", "RIGHT", "OUTER"}
SetOps == {"INTERSECT", "INTERSECT_ALL", "EXCEPT", "EXCEPT_ALL"}

TileSeqs(keys) ==
  LET tiles == UNION {[1 .. n -> keys] : n \in 1 .. MaxRows}
  IN  UNION {[1 .. n -> tiles] : n \in 0 .. MaxTiles}

\* The children of a merge join are sorted.
Inputs(k) ==
  IF k = "merge"
    THEN {t \in TileSeqs(SortedKeys) : IsSorted(FlattenSeq(t), LAMBDA a, b : a <= b)}
    ELSE TileSeqs(Keys)

\* The rows of the first n tiles, of one tile.
RowsOf(tiles, n) == {<<i, j>> \in (1 .. n) \X (1 .. MaxRows) : j <= Len(tiles[i])}
TileRows(tiles, i) == {i} \X DOMAIN tiles[i]

Null == <<0, 0>>
NoRows == [ls |-> 0, le |-> 0, rs |-> 0, re |-> 0]

(* The executors after Init().                                             *)
Init ==
  /\ \/ kind \in Joins /\ join_type \in JoinTypes
     \/ kind = "set_op" /\ join_type \in SetOps
  /\ left \in Inputs(kind) /\ right \in Inputs(kind)
  /\ left_tiles = 0 /\ right_tiles = 0
  /\ left_child_done_ = FALSE /\ right_child_done_ = FALSE
  /\ right_result_itr_ = 0
  /\ rows = NoRows
  /\ buffered_output_tiles = {}
  /\ no_matching_left = {} /\ no_matching_right = {}
  /\ left_matching_idx = 1 /\ right_matching_idx = 1
  /\ pc = "call"
  /\ retried = FALSE /\ status = "running"
  /\ output = {} /\ emitted = 0 /\ nulls = 0

LeftKey(l) == left[l[1]][l[2]]
RightKey(r) == right[r[1]][r[2]]

Predicate(l, r) == LeftKey(l) = RightKey(r) /\ LeftKey(l) \notin Excluded

-----------------------------------------------------------------------------
\* SetOutput, return true: PlanExecutor takes the tile and calls again.
ReturnTile(tile) ==
  /\ output' = output \cup tile
  /\ emitted' = emitted + Cardinality(tile)
  /\ retried' = FALSE
  /\ pc' = "call"
  /\ UNCHANGED <<status, nulls>>

(* Return false.  If the call was made by line 221 of                      *)
(* merge_join_executor.cpp, the outer call returns true, without a tile.   *)
ReturnFalse ==
  /\ IF retried THEN nulls' = nulls + 1 /\ UNCHANGED status
                ELSE status' = "closed" /\ UNCHANGED nulls
  /\ retried' = FALSE
  /\ pc' = "call"
  /\ UNCHANGED <<output, emitted>>

Crash ==
  /\ status' = "crashed"
  /\ UNCHANGED <<pc, retried, output, emitted, nulls>>

KeepsLeft == join_type \in {"LEFT", "OUTER"}
KeepsRight == join_type \in {"RIGHT", "OUTER"}

(* BufferLeftTile, BufferRightTile for the tiles after `from` up to `to`.  *)
BufferLeftTile(from, to) ==
  /\ left_tiles' = to
  /\ no_matching_left' = IF KeepsLeft
       THEN no_matching_left \cup (RowsOf(left, to) \ RowsOf(left, from)) ELSE {}

BufferRightTile(from, to) ==
  /\ right_tiles' = to
  /\ no_matching_right' = IF KeepsRight
       THEN no_matching_right \cup (RowsOf(right, to) \ RowsOf(right, from)) ELSE {}

(* RecordMatchedLeftRow and RecordMatchedRightRow for the pairs of a tile. *)
RecordMatched(pairs) ==
  /\ no_matching_left' = no_matching_left \ {p[1] : p \in pairs}
  /\ no_matching_right' = no_matching_right \ {p[2] : p \in pairs}

\* The next of the sets of rows without a match that is not empty.
Unmatched(set, idx) == {p \in set : p[1] >= idx}
NextSet(set, idx) == LET i == Min({p[1] : p \in Unmatched(set, idx)}) IN
                     {p \in set : p[1] = i}

(* BuildOuterJoinOutput: a tile of rows that have no match, with nulls for *)
(* the other side; the first tile of that side has to be there.            *)
BuildOuterJoinOutput ==
  IF KeepsLeft /\ Unmatched(no_matching_left, left_matching_idx) # {}
    THEN LET set == NextSet(no_matching_left, left_matching_idx) IN
         /\ left_matching_idx' = (CHOOSE p \in set : TRUE)[1] + 1
         /\ IF right_tiles = 0 THEN Crash ELSE ReturnTile(set \X {Null})
         /\ UNCHANGED right_matching_idx
  ELSE IF KeepsRight /\ Unmatched(no_matching_right, right_matching_idx) # {}
    THEN LET set == NextSet(no_matching_right, right_matching_idx) IN
         /\ right_matching_idx' = (CHOOSE p \in set : TRUE)[1] + 1
         /\ IF left_tiles = 0 THEN Crash ELSE ReturnTile({Null} \X set)
         /\ UNCHANGED left_matching_idx
  ELSE ReturnFalse /\ UNCHANGED <<left_matching_idx, right_matching_idx>>

\* A tile of pairs is returned, or the executor goes on if there are none.
JoinTile(pairs, again) ==
  /\ RecordMatched(pairs)
  /\ IF pairs # {}
       THEN ReturnTile(pairs)
       ELSE /\ pc' = "call" /\ retried' = (retried \/ again)
            /\ UNCHANGED <<status, output, emitted, nulls>>
  /\ UNCHANGED <<left_matching_idx, right_matching_idx>>

Running(k, p) == kind = k /\ pc = p /\ status = "running"

-----------------------------------------------------------------------------
\* There is another tile in the buffer of the right.
MoreRight == right_result_itr_ < right_tiles

(* Nested-loop join.  The first tile of the left goes with each tile of    *)
(* the right as it comes, the others with the buffered ones.               *)
NestedLoopPickRight ==
  /\ Running("nested_loop", "call")
  /\ \/ /\ left_child_done_ /\ right_child_done_
        /\ BuildOuterJoinOutput
        /\ UNCHANGED <<childVars, right_result_itr_, no_matching_left, no_matching_right>>
     \/ /\ right_child_done_ /\ ~left_child_done_
        /\ IF MoreRight
             THEN right_result_itr_' = right_result_itr_ + 1 /\ pc' = "join"
             ELSE right_result_itr_' = 1 /\ pc' = "left"
        /\ UNCHANGED <<childVars, matchVars, resultVars>>
     \/ /\ ~right_child_done_ /\ right_tiles < Len(right)
        /\ BufferRightTile(right_tiles, right_tiles + 1)
        /\ right_result_itr_' = right_tiles + 1
        /\ pc' = IF left_tiles = 0 THEN "left" ELSE "join"
        /\ UNCHANGED <<left_tiles, left_child_done_, right_child_done_, no_matching_left,
                       left_matching_idx, right_matching_idx, resultVars>>
     \/ /\ ~right_child_done_ /\ right_tiles = Len(right)
        /\ IF right_tiles = 0
             THEN ReturnFalse /\ UNCHANGED <<right_child_done_, right_result_itr_>>
             ELSE /\ right_child_done_' = TRUE /\ right_result_itr_' = 1 /\ pc' = "left"
                  /\ UNCHANGED resultVars
        /\ UNCHANGED <<left_tiles, right_tiles, left_child_done_, matchVars>>
  /\ UNCHANGED <<inputVars, rows, buffered_output_tiles>>

NestedLoopPickLeft ==
  /\ Running("nested_loop", "left")
  /\ IF left_tiles < Len(left)
       THEN /\ BufferLeftTile(left_tiles, left_tiles + 1)
            /\ pc' = "join"
            /\ UNCHANGED <<left_child_done_, no_matching_right, left_matching_idx,
                           right_matching_idx, resultVars>>
       ELSE /\ left_child_done_' = TRUE
            /\ BuildOuterJoinOutput
            /\ UNCHANGED <<left_tiles, no_matching_left, no_matching_right>>
  /\ UNCHANGED <<inputVars, right_tiles, right_child_done_, right_result_itr_, rows,
                 buffered_output_tiles>>

NestedLoopJoin ==
  /\ Running("nested_loop", "join")
  /\ JoinTile({p \in TileRows(left, left_tiles) \X TileRows(right, right_result_itr_) :
                 Predicate(p[1], p[2])}, FALSE)
  /\ UNCHANGED <<inputVars, childVars, right_result_itr_, rows, buffered_output_tiles>>

-----------------------------------------------------------------------------
(* Hash join.  The first call takes all the tiles of the right; HashExecutor
   has put their rows in a table.  A tile of the left gives a tile of pairs
   for each tile of the right that has matches, in any order.             *)
HashTiles(l) ==
  {{p \in TileRows(left, l) \X TileRows(right, r) : LeftKey(p[1]) = RightKey(p[2])}
     : r \in 1 .. Len(right)} \ {{}}

\* Faulty variant: the tile that is returned stays in the buffer.
FaultyHashReturn(tiles) ==
  \E tile \in tiles : ReturnTile(tile) /\ buffered_output_tiles' = tiles

\* The first of the output tiles is returned and the others wait.
HashReturn(tiles) ==
  \E tile \in tiles : ReturnTile(tile) /\ buffered_output_tiles' = tiles \ {tile}

HashJoin ==
  /\ Running("hash", "call")
  /\ \/ /\ buffered_output_tiles # {}
        /\ HashReturn(buffered_output_tiles)
        /\ UNCHANGED <<childVars, matchVars>>
     \/ /\ buffered_output_tiles = {} /\ ~right_child_done_
        /\ right_child_done_' = TRUE
        /\ BufferRightTile(0, Len(right))
        /\ UNCHANGED <<left_tiles, left_child_done_, no_matching_left, left_matching_idx,
                       right_matching_idx, buffered_output_tiles, pc, resultVars>>
     \/ /\ right_child_done_ /\ right_tiles = 0
        /\ ReturnFalse
        /\ UNCHANGED <<childVars, matchVars, buffered_output_tiles>>
     \/ /\ buffered_output_tiles = {} /\ right_child_done_ /\ right_tiles > 0
        /\ left_child_done_ \/ left_tiles = Len(left)
        /\ left_child_done_' = TRUE
        /\ BuildOuterJoinOutput
        /\ UNCHANGED <<left_tiles, right_tiles, right_child_done_, no_matching_left,
                       no_matching_right, buffered_output_tiles>>
     \/ /\ buffered_output_tiles = {} /\ right_child_done_ /\ right_tiles > 0
        /\ ~left_child_done_ /\ left_tiles < Len(left)
        /\ BufferLeftTile(left_tiles, left_tiles + 1)
        /\ pc' = "join"
        /\ UNCHANGED <<right_tiles, left_child_done_, right_child_done_, no_matching_right,
                       left_matching_idx, right_matching_idx, buffered_output_tiles, resultVars>>
  /\ UNCHANGED <<inputVars, right_result_itr_, rows>>

HashProbe ==
  /\ Running("hash", "join")
  /\ LET tiles == HashTiles(left_tiles) IN
     /\ RecordMatched(UNION tiles)
     /\ IF tiles = {}
          THEN pc' = "call" /\ UNCHANGED <<buffered_output_tiles, resultVars>>
          ELSE HashReturn(tiles)
  /\ UNCHANGED <<inputVars, childVars, right_result_itr_, rows,
                 left_matching_idx, right_matching_idx>>

-----------------------------------------------------------------------------
(* Merge join.  The end of the run of equal keys that starts at `start`    *)
(* (rows are counted from 0).                                              *)
Advance(tile, start) ==
  IF start >= Len(tile) THEN start
  ELSE Max({n \in start + 1 .. Len(tile) : \A i \in start + 1 .. n : tile[i] = tile[start + 1]})

AdvanceLeft(b) == [b EXCEPT !.ls = b.le, !.le = Advance(left[left_tiles], b.le)]
AdvanceRight(b) == [b EXCEPT !.rs = b.re, !.re = Advance(right[right_tiles], b.re)]

RunPairs(b) ==
  ({left_tiles} \X (b.ls + 1 .. b.le)) \X ({right_tiles} \X (b.rs + 1 .. b.re))

(* Faulty variant: one pair of rows for a pair of runs.                    *)
FaultyMatchedRuns(b) ==
  [pairs |-> RunPairs([b EXCEPT !.re = b.rs + 1]), next |-> AdvanceLeft(AdvanceRight(b))]

(* Two runs with the same key.  If the predicate is false both are         *)
(* advanced, and then the product of what they are at is taken.            *)
MatchedRuns(b) ==
  LET at == IF LeftKey(<<left_tiles, b.ls + 1>>) \in Excluded
              THEN AdvanceLeft(AdvanceRight(b)) ELSE b
  IN  [pairs |-> RunPairs(at), next |-> AdvanceLeft(AdvanceRight(at))]

\* The while loop over the runs of the two tiles.
RECURSIVE MergeRuns(_, _)
MergeRuns(b, pairs) ==
  IF b.ls >= b.le \/ b.rs >= b.re THEN [pairs |-> pairs, next |-> b]
  ELSE LET l == LeftKey(<<left_tiles, b.ls + 1>>)
           r == RightKey(<<right_tiles, b.rs + 1>>)
       IN  IF l < r THEN MergeRuns(AdvanceLeft(b), pairs)
           ELSE IF l > r THEN MergeRuns(AdvanceRight(b), pairs)
           ELSE LET m == MatchedRuns(b) IN MergeRuns(m.next, pairs \cup m.pairs)

MergePickRight ==
  /\ Running("merge", "call")
  /\ \/ /\ left_child_done_ /\ right_child_done_
        /\ BuildOuterJoinOutput
        /\ UNCHANGED <<childVars, no_matching_left, no_matching_right, rows>>
     \/ /\ ~(left_child_done_ /\ right_child_done_)
        /\ IF (~right_child_done_ /\ rows.rs = rows.re) \/ left_child_done_
             THEN IF right_tiles < Len(right)
                    THEN /\ BufferRightTile(right_tiles, right_tiles + 1)
                         /\ rows' = [rows EXCEPT !.rs = 0, !.re = Advance(right[right_tiles + 1], 0)]
                         /\ pc' = "left"
                         /\ UNCHANGED right_child_done_
                    ELSE /\ right_child_done_' = TRUE
                         /\ UNCHANGED <<right_tiles, no_matching_right, rows, pc>>
             ELSE pc' = "left" /\ UNCHANGED <<right_tiles, right_child_done_, no_matching_right, rows>>
        /\ UNCHANGED <<left_tiles, left_child_done_, no_matching_left, left_matching_idx,
                       right_matching_idx, resultVars>>
  /\ UNCHANGED <<inputVars, right_result_itr_, buffered_output_tiles>>

(* Faulty variant: the end of the left child is not remembered.            *)
FaultyMergePickLeft ==
  /\ Running("merge", "left")
  /\ IF (~left_child_done_ /\ rows.ls = rows.le) \/ right_child_done_
       THEN IF left_tiles < Len(left)
              THEN /\ BufferLeftTile(left_tiles, left_tiles + 1)
                   /\ rows' = [rows EXCEPT !.ls = 0, !.le = Advance(left[left_tiles + 1], 0)]
                   /\ pc' = "join"
              ELSE pc' = "call" /\ UNCHANGED <<left_tiles, no_matching_left, rows>>
       ELSE pc' = "join" /\ UNCHANGED <<left_tiles, no_matching_left, rows>>
  /\ UNCHANGED <<inputVars, right_tiles, left_child_done_, right_child_done_, right_result_itr_,
                 buffered_output_tiles, no_matching_right, left_matching_idx,
                 right_matching_idx, resultVars>>

MergePickLeft ==
  /\ Running("merge", "left")
  /\ IF (~left_child_done_ /\ rows.ls = rows.le) \/ right_child_done_
       THEN IF left_tiles < Len(left)
              THEN /\ BufferLeftTile(left_tiles, left_tiles + 1)
                   /\ rows' = [rows EXCEPT !.ls = 0, !.le = Advance(left[left_tiles + 1], 0)]
                   /\ pc' = "join"
                   /\ UNCHANGED left_child_done_
              ELSE /\ left_child_done_' = TRUE
                   /\ pc' = "call"
                   /\ UNCHANGED <<left_tiles, no_matching_left, rows>>
       ELSE pc' = "join" /\ UNCHANGED <<left_tiles, left_child_done_, no_matching_left, rows>>
  /\ UNCHANGED <<inputVars, right_tiles, right_child_done_, right_result_itr_,
                 buffered_output_tiles, no_matching_right, left_matching_idx,
                 right_matching_idx, resultVars>>

MergeJoin ==
  /\ Running("merge", "join")
  /\ IF left_tiles = 0 \/ right_tiles = 0
       THEN ReturnFalse /\ UNCHANGED <<matchVars, rows>>
       ELSE \E merged \in {MergeRuns(rows, {})} :
              rows' = merged.next /\ JoinTile(merged.pairs, TRUE)
  /\ UNCHANGED <<inputVars, childVars, right_result_itr_, buffered_output_tiles>>

-----------------------------------------------------------------------------
(* Set operations.  Rows of the left in order, and the first with its key. *)
LeftRows == FlattenSeq([i \in DOMAIN left |-> [j \in DOMAIN left[i] |-> <<i, j>>]])
Representative(k) == SelectSeq(LeftRows, LAMBDA row : LeftKey(row) = k)[1]

Copies(tiles, k) == Cardinality({n \in DOMAIN FlattenSeq(tiles) : FlattenSeq(tiles)[n] = k})

(* Faulty variant: EXCEPT ALL subtracts without a look at what there is.   *)
FaultyCalculateCopies(k) ==
  LET l == Copies(left, k)
      r == Copies(right, k)
  IN  CASE join_type = "INTERSECT" -> IF r > 0 THEN 1 ELSE 0
        [] join_type = "INTERSECT_ALL" -> Min({l, r})
        [] join_type = "EXCEPT" -> IF r > 0 THEN 0 ELSE 1
        [] join_type = "EXCEPT_ALL" -> (l - r) % 16

CalculateCopies(k) ==
  LET l == Copies(left, k)
      r == Copies(right, k)
  IN  CASE join_type = "INTERSECT" -> IF r > 0 THEN 1 ELSE 0
        [] join_type = "INTERSECT_ALL" -> Min({l, r})
        [] join_type = "EXCEPT" -> IF r > 0 THEN 0 ELSE 1
        [] join_type = "EXCEPT_ALL" -> IF l > r THEN l - r ELSE 0

(* The first round: a row that is not the first with its key uses up one   *)
(* of the copies, or is hidden.                                            *)
FirstRound(first, copies) ==
  LET Take(a, row) ==
        IF first[LeftKey(row)] = row THEN a
        ELSE IF a.copies[LeftKey(row)] > 0
          THEN [a EXCEPT !.copies[LeftKey(row)] = @ - 1]
          ELSE [a EXCEPT !.hidden = @ \cup {row}]
  IN  FoldLeft(Take, [copies |-> copies, hidden |-> {}], LeftRows)

(* ExecuteHelper, in the first call.  In the second round the first rows   *)
(* are hidden whose keys have no copy left.  An empty left input ends      *)
(* before hash_done_ is set, which DExecute asserts.  What is buffered are *)
(* the rows that are left of the tiles, to be returned one after another.  *)
SetOpExecuteHelper ==
  /\ Running("set_op", "call")
  /\ left_tiles = 0
  /\ left_tiles' = Len(left)
  /\ LET keys == ToSet(FlattenSeq(left)) IN
     \E first \in {[k \in keys |-> Representative(k)]} :
     \E round \in {FirstRound(first, [k \in keys |-> CalculateCopies(k)])} :
       LET hidden == round.hidden \cup {first[k] : k \in {c \in keys : round.copies[c] = 0}}
       IN  /\ buffered_output_tiles' =
                {TileRows(left, i) \ hidden : i \in DOMAIN left} \ {{}}
           /\ IF keys = {} \/ \E k \in keys : round.copies[k] \notin {0, 1}
                THEN Crash ELSE pc' = "join" /\ UNCHANGED resultVars
  /\ UNCHANGED <<inputVars, right_tiles, left_child_done_, right_child_done_,
                 right_result_itr_, rows, matchVars>>

SetOpReturn ==
  /\ kind = "set_op" /\ status = "running" /\ left_tiles > 0
  /\ IF buffered_output_tiles = {}
       THEN ReturnFalse /\ UNCHANGED buffered_output_tiles
       ELSE LET first == CHOOSE tile \in buffered_output_tiles :
                           \A other \in buffered_output_tiles :
                             \E p \in tile : \A q \in other : p[1] <= q[1]
            IN  ReturnTile(first) /\ buffered_output_tiles' = buffered_output_tiles \ {first}
  /\ UNCHANGED <<inputVars, childVars, right_result_itr_, rows, matchVars>>

-----------------------------------------------------------------------------
Next ==
  \/ NestedLoopPickRight \/ NestedLoopPickLeft \/ NestedLoopJoin
  \/ HashJoin \/ HashProbe
  \/ MergePickRight \/ MergePickLeft \/ MergeJoin
  \/ SetOpExecuteHelper \/ SetOpReturn

(* PlanExecutor calls until it is told that there is no more.              *)
Spec == Init /\ [][Next]_vars /\ WF_vars(Next)

-----------------------------------------------------------------------------
(* Types of the variables.                                                 *)
TypeOK ==
  /\ left_tiles \in 0 .. Len(left) /\ right_tiles \in 0 .. Len(right)
  /\ right_result_itr_ \in 0 .. Len(right)
  /\ no_matching_left \subseteq RowsOf(left, left_tiles)
  /\ no_matching_right \subseteq RowsOf(right, right_tiles)
  /\ pc \in {"call", "left", "join"} /\ status \in {"running", "closed", "crashed"}
  /\ nulls \in 0 .. 1

Matches ==
  {p \in RowsOf(left, Len(left)) \X RowsOf(right, Len(right)) : Predicate(p[1], p[2])}

(* The join of SQL.                                                        *)
Joined ==
  Matches
    \cup (IF KeepsLeft THEN (RowsOf(left, Len(left)) \ {p[1] : p \in Matches}) \X {Null} ELSE {})
    \cup (IF KeepsRight THEN {Null} \X (RowsOf(right, Len(right)) \ {p[2] : p \in Matches}) ELSE {})

\* No run of equal keys goes from one tile to the next.
NotCut(tiles) == \A i \in 1 .. Len(tiles) - 1 : Last(tiles[i]) # tiles[i + 1][1]

(* Each join returns the rows of the SQL join of its type, each once,      *)
(* however its inputs come in tiles.  For a merge join, if the tiles do    *)
(* not cut runs of equal keys; for an outer join, if no input is empty.    *)
JoinCorrect ==
  status = "closed" /\ kind \in Joins
    /\ (kind = "merge" => NotCut(left) /\ NotCut(right))
    /\ (join_type # "INNER" => left # <<>> /\ right # <<>>)
  => output = Joined /\ emitted = Cardinality(Joined)

(* No join ever returns a pair that does not match, or a row twice.        *)
JoinSound ==
  kind \in Joins =>
    /\ \A p \in output : p[1] # Null /\ p[2] # Null => p \in Matches
    /\ emitted = Cardinality(output)

(* The rows that a set operation returns are as many copies of each key as *)
(* that of SQL has, and the number of copies is 0 or 1 after the first     *)
(* round, as is asserted before the second.                                *)
SetOpCorrect ==
  kind = "set_op" =>
    /\ left # <<>> => status # "crashed"
    /\ status = "closed" => \A k \in Keys :
         LET l == Copies(left, k)
             r == Copies(right, k)
         IN  Cardinality({p \in output : LeftKey(p) = k}) =
               CASE join_type = "INTERSECT" -> IF l > 0 /\ r > 0 THEN 1 ELSE 0
                 [] join_type = "INTERSECT_ALL" -> Min({l, r})
                 [] join_type = "EXCEPT" -> IF l > 0 /\ r = 0 THEN 1 ELSE 0
                 [] join_type = "EXCEPT_ALL" -> Max({l - r, 0})

(* An executor comes to its end: after finitely many calls, and steps in a *)
(* call, it says that it has no more tiles (or an assertion has failed).   *)
Ends == <>(status # "running")

(* A merge join of any inputs.  This does not hold: a run of equal keys    *)
(* that goes on in the next tile of one side has lost its partners.        *)
MergeJoinComplete ==
  status = "closed" /\ kind = "merge" => output = Joined

(* "If we are out of any more pairs of child tiles to examine, then we     *)
(* will return false earlier in this function": no call returns true       *)
(* without a tile.  This does not hold: the result of the inner call is    *)
(* dropped and the outer one returns true.                                 *)
TrueHasTile == nulls = 0

(* No execution ends in a failed assertion, and an outer join with an      *)
(* empty input has the rows of the other.  Neither holds:                  *)
(* BuildRightJoinOutput needs a tile of the left for its columns, the set  *)
(* operations end before hash_done_ is set, and the joins end at once if   *)
(* the right is empty.                                                     *)
NeverCrashes == status # "crashed"

OuterJoinComplete ==
  status = "closed" /\ kind \in {"nested_loop", "hash"} => output = Joined
=============================================================================
