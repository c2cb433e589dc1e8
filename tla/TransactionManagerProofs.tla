---------------------- MODULE TransactionManagerProofs ----------------------
(***************************************************************************)
(* The inductive invariant of TransactionManager, and proofs, for any set  *)
(* of transactions, that the commit protocol publishes only installed      *)
(* transactions, in commit order, that no transaction is left behind in    *)
(* the waiting list, that the reference counts are exact, and that no      *)
(* object leaks.  Everything but the types is claimed only while no object *)
(* has been reused under a running thread (NoReuse): see OwnTxnAlive.      *)
(***************************************************************************)
EXTENDS TransactionManager, WellFoundedInduction, TLAPS

-----------------------------------------------------------------------------
(* The inductive invariant.                                                *)

Early == {"modify", "first_cas", "set_waiting"}
Walk == {"clear_waiting", "read_next", "check_waiting", "pending_cas"}
Late == {"end_txn", "drop_refs", "read_result", "done"}

(* The position of the walk is an object where the code dereferences it.   *)
WalkInv ==
  \A t \in Txns : pc[t] \in {"clear_waiting", "read_next", "pending_cas"} => next_txn[t] \in Txns

(* The list: commit ids are dense, unique, and consecutive along next.     *)
Chain ==
  /\ START_CID <= last_cid /\ last_cid <= cid[last_txn]
  /\ cid[Base] = START_CID
  /\ next[last_txn] = NoTxn
  /\ \A x \in Objects : cid[x] <= cid[last_txn]
  /\ \A x, y \in Objects : cid[x] # 0 /\ cid[x] = cid[y] => x = y
  /\ \A x \in Objects : cid[x] # 0 /\ x # last_txn => 
       next[x] \in Txns /\ cid[next[x]] = cid[x] + 1
  /\ \A x \in Objects : cid[x] = 0 => next[x] = NoTxn
  /\ \A c \in START_CID .. cid[last_txn] : \E x \in Objects : cid[x] = c

(* Who has a commit id, who is published, who waits.                       *)
Progress ==
  /\ \A t \in Txns : pc[t] \in {"idle", "running"} => cid[t] = 0
  /\ \A t \in Txns : pc[t] \in Early => cid[t] > last_cid /\ t \notin waiting_to_commit
  /\ \A t \in Txns : pc[t] = "second_cas" => cid[t] # 0
  /\ \A t \in Txns : pc[t] \in Walk => cid[t] # 0 /\ cid[t] <= last_cid
  /\ \A x \in waiting_to_commit : x \in Txns /\ cid[x] # 0
  /\ \A t \in Txns : pc[t] \in Late \cup {"second_cas"} /\ cid[t] > last_cid => t \in waiting_to_commit
  /\ \A t \in Txns : pc[t] = "pending_cas" =>
       cid[next_txn[t]] # 0 /\ pc[next_txn[t]] \notin Early

(* What the local variables of CommitTransaction hold.                     *)
Locals ==
  /\ \A t \in Txns : \A x \in txn_list[t] :
       \/ cid[x] # 0 /\ cid[x] <= last_cid
       \/ x = t /\ cid[t] = 0 /\ pc[t] \in {"end_txn", "drop_refs"}
  /\ \A t, u \in Txns : \A x \in txn_list[t] : x \in txn_list[u] => t = u
  /\ \A t \in Txns : pc[t] \in {"idle", "running"} => txn_list[t] = {}
  /\ \A t \in Txns : pc[t] \in {"clear_waiting", "read_next"} => next_txn[t] \in txn_list[t]
  /\ \A t \in Txns : pc[t] \in {"check_waiting", "pending_cas"} /\ next_txn[t] # NoTxn =>
       \E p \in txn_list[t] : next[p] = next_txn[t]
  /\ \A t \in Txns : dropping[t] # NoTxn =>
       /\ pc[t] = "drop_refs"
       /\ cid[dropping[t]] # 0
       /\ \A p \in alive : next[p] # dropping[t]
       /\ \A u \in Txns : dropping[u] = dropping[t] => u = t

Counts ==
  \A x \in Objects :
    /\ ref_count[x] = One(OwnRef(x)) + One(LastRef(x)) + One(PredecessorRef(x))
    /\ x \in alive <=> ref_count[x] > 0

(* The transaction next in line is either still working towards its CAS or *)
(* about to be found by a walk.                                            *)
Line ==
  \A u \in Txns : cid[u] = last_cid + 1 /\ pc[u] \in Late =>
    \E t \in Txns :
      \/ pc[t] \in {"clear_waiting", "read_next"} /\ cid[next_txn[t]] = last_cid
      \/ pc[t] \in {"check_waiting", "pending_cas"} /\ next_txn[t] = u

Core == Chain /\ Progress /\ Locals /\ Counts /\ Line

IInv == TypeOK /\ WalkInv /\ (NoReuse => Core)

-----------------------------------------------------------------------------
(* The disjuncts of Next, to split on in the proofs below.                 *)
LEMMA Cases ==
  ASSUME [Next]_vars
  PROVE  \/ \E t \in Txns :
              \/ BeginTransaction(t) \/ BeginCommitPhase(t) \/ AbortTransaction(t)
              \/ CommitModifications(t) \/ FirstCas(t) \/ SetWaiting(t)
              \/ SecondCas(t) \/ ClearWaiting(t) \/ ReadNext(t)
              \/ CheckWaiting(t) \/ PendingCas(t) \/ EndTransaction(t)
              \/ DropReference(t) \/ ExecTransactionStmt(t)
              \/ ExecutePlan(t) \/ ReadResult(t)
         \/ UNCHANGED vars
  BY Zenon DEF Next, Step, EndCommitPhase, Finish, AllDone

(* Every step keeps the variables in their types.                          *)
LEMMA TypeStep ==
  ASSUME TypeOK, WalkInv, [Next]_vars
  PROVE  TypeOK' /\ WalkInv'
<1> USE TxnAssumption DEF TypeOK, WalkInv, Objects, PCs, Goto, objVars
<1>1. ASSUME NEW t \in Txns, BeginTransaction(t)
      PROVE TypeOK' /\ WalkInv'
  BY <1>1 DEF BeginTransaction, BASE_REF_COUNT
<1>2. ASSUME NEW t \in Txns, BeginCommitPhase(t)
      PROVE TypeOK' /\ WalkInv'
  BY <1>2 DEF BeginCommitPhase
<1>3. ASSUME NEW t \in Txns, AbortTransaction(t) \/ CommitModifications(t) \/ EndTransaction(t)
                             \/ ExecTransactionStmt(t) \/ ExecutePlan(t) \/ ReadResult(t)
      PROVE TypeOK' /\ WalkInv'
  BY <1>3 DEF AbortTransaction, CommitModifications, EndTransaction, ExecTransactionStmt, ExecutePlan,
              ReadResult, Returns
<1>4. ASSUME NEW t \in Txns, FirstCas(t) \/ SecondCas(t) \/ PendingCas(t)
      PROVE TypeOK' /\ WalkInv'
  BY <1>4 DEF FirstCas, SecondCas, PendingCas, Publish
<1>5. ASSUME NEW t \in Txns, SetWaiting(t) \/ ClearWaiting(t)
      PROVE TypeOK' /\ WalkInv'
  BY <1>5 DEF SetWaiting, ClearWaiting
<1>6. ASSUME NEW t \in Txns, ReadNext(t) \/ CheckWaiting(t)
      PROVE TypeOK' /\ WalkInv'
  BY <1>6 DEF ReadNext, CheckWaiting, NextIsWaiting
<1>7. ASSUME NEW t \in Txns, DropReference(t)
      PROVE TypeOK' /\ WalkInv'
  BY <1>7 DEF DropReference, DecrementRefCount
<1>8. CASE UNCHANGED vars
  BY <1>8 DEF vars
<1> QED
  BY <1>1, <1>2, <1>3, <1>4, <1>5, <1>6, <1>7, <1>8, Cases

(* Once a thread works on another transaction's object it always will.     *)
LEMMA ReuseStable ==
  ASSUME TypeOK, [Next]_vars, NoReuse'
  PROVE  NoReuse
<1>1. ASSUME NEW t \in Txns, BeginTransaction(t)
      PROVE NoReuse
  BY <1>1 DEF BeginTransaction, NoReuse, TypeOK
<1>2. CASE UNCHANGED current_txn
  BY <1>2, Zenon DEF NoReuse
<1> QED
  BY <1>1, <1>2, Cases DEF BeginCommitPhase, AbortTransaction, CommitModifications, FirstCas, SetWaiting,
     SecondCas, ClearWaiting, ReadNext, CheckWaiting, PendingCas, EndTransaction,
     DropReference, ExecTransactionStmt, ExecutePlan, ReadResult, Returns, vars

(* Every step keeps the list well formed.                                  *)
LEMMA ChainStep ==
  ASSUME TypeOK, WalkInv, NoReuse, Core, [Next]_vars
  PROVE  Chain'
<1> USE TxnAssumption DEF TypeOK, Core, Chain, Objects, START_CID, Goto, objVars, NoReuse
<1>1. ASSUME NEW t \in Txns, BeginCommitPhase(t)
      PROVE Chain'
  <2>1. cid[t] = 0 /\ t # last_txn /\ t # Base
    BY <1>1 DEF BeginCommitPhase, Progress
  <2>2. /\ cid' = [cid EXCEPT ![t] = cid[last_txn] + 1]
        /\ next' = [next EXCEPT ![last_txn] = t]
        /\ last_txn' = t /\ last_cid' = last_cid
    BY <1>1 DEF BeginCommitPhase
  <2>3. cid'[last_txn'] = cid[last_txn] + 1 /\ \A x \in Objects : x # t => cid'[x] = cid[x]
    BY <2>2
  <2>4. \A x \in Objects : x # last_txn => next'[x] = next[x]
    BY <2>2
  <2>5. next'[last_txn] = t
    BY <2>2
  <2>6. \A c \in START_CID .. cid'[last_txn'] : \E x \in Objects : cid'[x] = c
    <3> SUFFICES ASSUME NEW c \in START_CID .. cid'[last_txn']
                 PROVE \E x \in Objects : cid'[x] = c
      OBVIOUS
    <3>1. CASE c = cid[last_txn] + 1
      BY <3>1, <2>3, <2>2
    <3>2. CASE c \in START_CID .. cid[last_txn]
      <4>1. PICK x \in Objects : cid[x] = c
        BY <3>2
      <4>2. x # t
        BY <4>1, <2>1, <3>2
      <4> QED
        BY <4>1, <4>2, <2>3
    <3> QED
      BY <3>1, <3>2, <2>3
  <2>7. \A x, y \in Objects : cid'[x] # 0 /\ cid'[x] = cid'[y] => x = y
    BY <2>1, <2>2, <2>3
  <2>8. \A x \in Objects : cid'[x] # 0 /\ x # last_txn' => 
          next'[x] \in Txns /\ cid'[next'[x]] = cid'[x] + 1
    <3> SUFFICES ASSUME NEW x \in Objects, cid'[x] # 0, x # t
                 PROVE next'[x] \in Txns /\ cid'[next'[x]] = cid'[x] + 1
      BY <2>2
    <3>1. CASE x = last_txn
      BY <3>1, <2>2, <2>3, <2>5
    <3>2. CASE x # last_txn
      <4>1. next'[x] = next[x] /\ next[x] \in Txns /\ cid[next[x]] = cid[x] + 1
        BY <3>2, <2>3, <2>4
      <4>2. next[x] # t
        BY <4>1, <2>1
      <4> QED
        BY <4>1, <4>2, <2>3
    <3> QED
      BY <3>1, <3>2
  <2> QED
    BY <2>1, <2>2, <2>3, <2>4, <2>5, <2>6, <2>7, <2>8
<1>2. ASSUME NEW t \in Txns, FirstCas(t) \/ SecondCas(t) \/ PendingCas(t)
      PROVE Chain'
  BY <1>2 DEF FirstCas, SecondCas, PendingCas, Publish, CasLastCid, WalkInv
<1>3. CASE UNCHANGED <<cid, next, last_txn, last_cid>>
  BY <1>3, SMTT(30)
<1> QED
  BY <1>1, <1>2, <1>3, Cases DEF BeginTransaction, AbortTransaction, CommitModifications, SetWaiting,
     ClearWaiting, ReadNext, CheckWaiting, EndTransaction,
     DropReference, ExecTransactionStmt, ExecutePlan, ReadResult, Returns, vars

(* Every step keeps the transactions where their commit ids say they are.  *)
LEMMA ProgressStep ==
  ASSUME TypeOK, WalkInv, NoReuse, Core, [Next]_vars
  PROVE  Progress'
<1> USE TxnAssumption DEF TypeOK, Objects, PCs, START_CID, Goto, objVars, NoReuse,
                          Early, Walk, Late
<1> USE DEF Core, Progress
<1>1. ASSUME NEW t \in Txns, BeginTransaction(t)
      PROVE Progress'
  BY <1>1 DEF BeginTransaction, WalkInv
<1>2. ASSUME NEW t \in Txns, BeginCommitPhase(t)
      PROVE Progress'
  <2>1. cid[t] = 0 /\ t # last_txn /\ cid[last_txn] >= last_cid
    BY <1>2 DEF BeginCommitPhase, Chain
  <2> QED
    BY <1>2, <2>1 DEF BeginCommitPhase, WalkInv
<1>3. ASSUME NEW t \in Txns, AbortTransaction(t) \/ CommitModifications(t) \/ EndTransaction(t)
                             \/ ExecTransactionStmt(t) \/ ExecutePlan(t) \/ ReadResult(t)
      PROVE Progress'
  <2>1. last_cid >= 1 
    BY DEF Chain
  <2> QED
    BY <1>3, <2>1 DEF AbortTransaction, CommitModifications, EndTransaction,
        ExecTransactionStmt, ExecutePlan, ReadResult, Returns, WalkInv
<1>4. ASSUME NEW t \in Txns, NEW x \in Txns, last_cid' = cid[x], CasLastCid(x),
             x = t \/ (pc[t] = "pending_cas" /\ x = next_txn[t]),
             pc[t] \in {"first_cas", "second_cas", "pending_cas"},
             \E to \in {"clear_waiting", "read_next"} : pc' = [pc EXCEPT ![t] = to],
             UNCHANGED <<cid, waiting_to_commit>>, next_txn' = [next_txn EXCEPT ![t] = x]
      PROVE Progress'
  <2>1. last_cid' = last_cid + 1 /\ last_cid >= 1
    BY <1>4 DEF CasLastCid, Chain
  <2>2. \A y \in Txns : pc[y] \in Early /\ y # t => cid[y] # cid[x]
    BY <1>4 DEF Chain
  <2>3. \A y \in Txns : pc[y] \in Early /\ y # t => cid[y] > last_cid'
    BY <2>1, <2>2, <1>4
  <2>4. cid[t] # 0 /\ cid[t] <= last_cid'
    BY <2>1, <1>4
  <2> QED
    BY <1>4, <2>1, <2>3, <2>4, WalkInv DEF WalkInv
<1>5. ASSUME NEW t \in Txns, FirstCas(t)
      PROVE Progress'
  <2>1. CASE CasLastCid(t)
    BY <1>4, <1>5, <2>1 DEF FirstCas, Publish
  <2>2. CASE ~CasLastCid(t)
    BY <1>5, <2>2, WalkInv DEF FirstCas, WalkInv
  <2> QED
    BY <2>1, <2>2
<1>6. ASSUME NEW t \in Txns, SecondCas(t)
      PROVE Progress'
  <2>1. CASE t \in alive /\ CasLastCid(t)
    BY <1>4, <1>6, <2>1 DEF SecondCas, Publish
  <2>2. CASE ~(t \in alive /\ CasLastCid(t))
    BY <1>6, <2>2, WalkInv DEF SecondCas, WalkInv
  <2> QED
    BY <2>1, <2>2, Zenon
<1>7. ASSUME NEW t \in Txns, PendingCas(t)
      PROVE Progress'
  <2>1. CASE CasLastCid(next_txn[t])
    BY <1>4, <1>7, <2>1, WalkInv DEF PendingCas, Publish, WalkInv
  <2>2. CASE ~CasLastCid(next_txn[t])
    BY <1>7, <2>2, WalkInv DEF PendingCas, WalkInv
  <2> QED
    BY <2>1, <2>2, Zenon
<1>8. ASSUME NEW t \in Txns, SetWaiting(t)
      PROVE Progress'
  <2>1. last_cid >= 1 
    BY DEF Chain
  <2> QED
    BY <1>8, <2>1 DEF SetWaiting, WalkInv
<1>9. ASSUME NEW t \in Txns, ClearWaiting(t)
      PROVE Progress'
  BY <1>9 DEF ClearWaiting, WalkInv
<1>10. ASSUME NEW t \in Txns, ReadNext(t) \/ CheckWaiting(t)
       PROVE Progress'
  BY <1>10 DEF ReadNext, CheckWaiting, NextIsWaiting, WalkInv
<1>11. ASSUME NEW t \in Txns, DropReference(t)
       PROVE Progress'
  BY <1>11 DEF DropReference, WalkInv
<1>12. CASE UNCHANGED vars
  BY <1>12 DEF vars
<1> QED
  BY <1>1, <1>2, <1>3, <1>5, <1>6, <1>7, <1>8, <1>9, <1>10, <1>11, <1>12, Cases, ZenonT(60)

(* No object that is not yet published is in a committed list, and links   *)
(* lead from different objects to different ones.                          *)
LEMMA Links ==
  ASSUME TypeOK, Core
  PROVE  /\ \A x, y \in Objects : next[x] # NoTxn /\ next[x] = next[y] => x = y
         /\ \A x \in Objects : next[x] # NoTxn =>
              next[x] \in Txns /\ cid[x] # 0 /\ cid[next[x]] = cid[x] + 1
         /\ \A x \in Objects : next[x] # x
         /\ \A u, t \in Txns : t \in txn_list[u] /\ cid[t] = 0 => t = u
         /\ \A u, x \in Txns : x \in txn_list[u] /\ cid[x] # 0 => cid[x] <= last_cid
<1> USE TxnAssumption DEF TypeOK, Core, Objects
<1>1. \A x \in Objects : next[x] # NoTxn =>
              next[x] \in Txns /\ cid[x] # 0 /\ cid[next[x]] = cid[x] + 1
  BY DEF Chain
<1>2. \A x, y \in Objects : next[x] # NoTxn /\ next[x] = next[y] => x = y
  <2> TAKE x, y \in Objects
  <2> HAVE next[x] # NoTxn /\ next[x] = next[y]
  <2>1. cid[x] # 0 /\ cid[x] + 1 = cid[next[x]] /\ cid[y] + 1 = cid[next[x]]
    BY <1>1
  <2>2. cid[x] = cid[y]
    BY <2>1
  <2> QED
    BY <2>1, <2>2 DEF Chain
<1>3. \A x \in Objects : next[x] # x
  BY <1>1, SMTT(30)
<1> QED
  BY <1>1, <1>2, <1>3 DEF Locals

(* A compare-and-swap step either leaves last_cid and the list of published *)
(* transactions alone, or it publishes: the thread's own transaction in the *)
(* first two places, the next pending one in the third.                     *)
LEMMA CasOutcome ==
  ASSUME NoReuse, NEW t \in Txns, FirstCas(t) \/ SecondCas(t) \/ PendingCas(t)
  PROVE  \/ UNCHANGED last_cid /\ UNCHANGED txn_list
         \/ FirstCas(t) /\ CasLastCid(t)
         \/ SecondCas(t) /\ CasLastCid(t) /\ t \in alive
         \/ PendingCas(t) /\ CasLastCid(next_txn[t])
<1>1. current_txn[t] = t
  BY DEF NoReuse
<1>2. CASE FirstCas(t)
  BY <1>1, <1>2, Zenon DEF FirstCas
<1>3. CASE SecondCas(t)
  BY <1>1, <1>3, Zenon DEF SecondCas
<1>4. CASE PendingCas(t)
  BY <1>4, Zenon DEF PendingCas
<1> QED
  BY <1>2, <1>3, <1>4, Zenon

(* Every step keeps what is known of the local variables.                  *)
LEMMA LocalsStep ==
  ASSUME TypeOK, WalkInv, NoReuse, Core, [Next]_vars
  PROVE  Locals'
<1> USE TxnAssumption DEF TypeOK, Objects, PCs, START_CID, Goto, objVars, NoReuse
<1> USE DEF Core, Locals
<1>0. last_cid >= 1 /\ cid[last_txn] # 0
  BY DEF Chain
<1>1. ASSUME NEW t \in Txns, BeginTransaction(t)
      PROVE Locals'
  <2>1. cid[t] = 0 /\ next[t] = NoTxn
    BY <1>1, Zenon DEF BeginTransaction, Progress, Chain
  <2> QED
    BY <1>1, <2>1 DEF BeginTransaction
<1>2. ASSUME NEW t \in Txns, BeginCommitPhase(t)
      PROVE Locals'
  <2>1. cid[t] = 0 /\ t # last_txn /\ next[last_txn] = NoTxn
    BY <1>2, <1>0, SMTT(30) DEF BeginCommitPhase, Progress, Chain
  <2>2. \A u \in Txns : t \notin txn_list[u]
    BY <1>2, <2>1, Links DEF BeginCommitPhase
  <2>3. \A u \in Txns : dropping[u] # t
    BY <2>1
  <2> QED
    BY <1>2, <2>1, <2>2, <2>3 DEF BeginCommitPhase
<1>3. ASSUME NEW t \in Txns, AbortTransaction(t)
      PROVE Locals'
  <2>1. cid[t] = 0 /\ \A u \in Txns : t \notin txn_list[u]
    BY <1>3, Links, Zenon DEF AbortTransaction, Progress
  <2> QED
    BY <1>3, <2>1, SMTT(30) DEF AbortTransaction
<1>4. ASSUME NEW t \in Txns, CommitModifications(t) \/ EndTransaction(t) \/ ExecTransactionStmt(t)
                             \/ ExecutePlan(t) \/ ReadResult(t) \/ SetWaiting(t) \/ ClearWaiting(t)
      PROVE Locals'
  BY <1>4, SMTT(60) DEF CommitModifications, EndTransaction, ExecTransactionStmt, ExecutePlan, ReadResult,
              Returns, SetWaiting, ClearWaiting
<1>5. ASSUME NEW t \in Txns, NEW x \in Txns, Publish(t, x), CasLastCid(x),
             pc[t] \in {"first_cas", "second_cas", "pending_cas"},
             \E to \in {"clear_waiting", "read_next"} : pc' = [pc EXCEPT ![t] = to],
             UNCHANGED <<cid, next, alive, dropping>>
      PROVE Locals'
  <2>1. cid[x] = last_cid + 1 /\ last_cid' = last_cid + 1
    BY <1>5 DEF CasLastCid, Publish
  <2>2. \A u \in Txns : x \notin txn_list[u]
    BY <2>1, <1>0, Links, SMTT(60)
  <2> QED
    BY <1>5, <1>0, <2>1, <2>2 DEF Publish
<1>6. ASSUME NEW t \in Txns, FirstCas(t) \/ SecondCas(t) \/ PendingCas(t)
      PROVE Locals'
  <2>1. CASE UNCHANGED last_cid /\ UNCHANGED txn_list
    <3>1. CASE FirstCas(t)
      BY <2>1, <3>1 DEF FirstCas, Publish, CasLastCid
    <3>2. CASE SecondCas(t)
      BY <2>1, <3>2 DEF SecondCas, Publish, CasLastCid
    <3>3. CASE PendingCas(t)
      BY <2>1, <3>3 DEF PendingCas, Publish, CasLastCid
    <3> QED
      BY <1>6, <3>1, <3>2, <3>3, Zenon
  <2>2. CASE FirstCas(t) /\ CasLastCid(t)
    BY <1>5, <2>2 DEF FirstCas
  <2>3. CASE SecondCas(t) /\ CasLastCid(t) /\ t \in alive
    BY <1>5, <2>3, SMTT(60) DEF SecondCas
  <2>4. CASE PendingCas(t) /\ CasLastCid(next_txn[t])
    BY <1>5, <2>4, Zenon DEF PendingCas, WalkInv
  <2> HIDE DEF TypeOK, Core, Locals, Objects, Goto, objVars
  <2> QED
    BY <1>6, <2>1, <2>2, <2>3, <2>4, CasOutcome, Zenon
<1>7. ASSUME NEW t \in Txns, ReadNext(t) \/ CheckWaiting(t)
      PROVE Locals'
  BY <1>7, SMTT(60) DEF ReadNext, CheckWaiting, NextIsWaiting
<1>8. ASSUME NEW t \in Txns, NEW x \in Txns, pc[t] = "drop_refs", DecrementRefCount(t, x),
             txn_list' = [txn_list EXCEPT ![t] = @ \ {x}] \/ UNCHANGED txn_list,
             UNCHANGED <<pc, last_cid, cid, next, next_txn>>
      PROVE Locals'
  <2>0. /\ \A u \in Txns : txn_list'[u] \subseteq txn_list[u]
        /\ \A u \in Txns : u # t => txn_list'[u] = txn_list[u]
        /\ UNCHANGED <<pc, last_cid, cid, next, next_txn>> /\ pc[t] = "drop_refs"
    BY <1>8
  <2>1. CASE ref_count[x] = 1
    <3>1. x \in alive /\ alive' = alive \ {x} /\ dropping' = [dropping EXCEPT ![t] = next[x]]
      BY <1>8, <2>1 DEF DecrementRefCount, Counts
    <3>2. next[x] # NoTxn => /\ cid[next[x]] # 0
                             /\ \A p \in alive' : next[p] # next[x]
                             /\ \A u \in Txns : dropping[u] # next[x]
      BY <3>1, Links
    <3>3. \A u \in Txns : dropping'[u] # NoTxn =>
            /\ pc'[u] = "drop_refs"
            /\ cid'[dropping'[u]] # 0
            /\ \A p \in alive' : next'[p] # dropping'[u]
            /\ \A v \in Txns : dropping'[v] = dropping'[u] => v = u
      BY <1>8, <3>1, <3>2
    <3> QED
      BY <3>3, <2>0, SMTT(60)
  <2>2. CASE ref_count[x] # 1
    <3>1. UNCHANGED alive /\ dropping' = [dropping EXCEPT ![t] = NoTxn]
      BY <1>8, <2>2 DEF DecrementRefCount
    <3>2. \A u \in Txns : dropping'[u] # NoTxn =>
            /\ pc'[u] = "drop_refs"
            /\ cid'[dropping'[u]] # 0
            /\ \A p \in alive' : next'[p] # dropping'[u]
            /\ \A v \in Txns : dropping'[v] = dropping'[u] => v = u
      BY <1>8, <3>1, SMTT(60)
    <3> QED
      BY <3>2, <2>0
  <2> QED
    BY <2>1, <2>2
<1>9. ASSUME NEW t \in Txns, DropReference(t)
      PROVE Locals'
  BY <1>9, <1>8 DEF DropReference
<1>10. CASE UNCHANGED vars
  BY <1>10, Zenon DEF vars
<1> QED
  BY <1>1, <1>2, <1>3, <1>4, <1>6, <1>7, <1>9, <1>10, Cases, ZenonT(60)

-----------------------------------------------------------------------------
(* The count of an object whose holders are the same as before.            *)
LEMMA SameHolders ==
  ASSUME Counts, NEW x \in Objects,
         OwnRef(x)' <=> OwnRef(x), LastRef(x)' <=> LastRef(x),
         PredecessorRef(x)' <=> PredecessorRef(x),
         ref_count'[x] = ref_count[x], x \in alive' <=> x \in alive
  PROVE  /\ ref_count'[x] = One(OwnRef(x)') + One(LastRef(x)') + One(PredecessorRef(x)')
         /\ x \in alive' <=> ref_count'[x] > 0
  BY DEF Counts, One

(* The count of an object that loses one holder.                           *)
LEMMA OneHolderLess ==
  ASSUME Counts, NEW x \in Objects, x \in alive, LastRef(x)' <=> LastRef(x),
         \/ OwnRef(x) /\ ~OwnRef(x)' /\ (PredecessorRef(x)' <=> PredecessorRef(x))
         \/ PredecessorRef(x) /\ ~PredecessorRef(x)' /\ (OwnRef(x)' <=> OwnRef(x)),
         ref_count'[x] = ref_count[x] - 1, x \in alive' <=> ref_count[x] # 1
  PROVE  /\ ref_count'[x] = One(OwnRef(x)') + One(LastRef(x)') + One(PredecessorRef(x)')
         /\ x \in alive' <=> ref_count'[x] > 0
  BY DEF Counts, One

(* Giving one reference to x back changes who refers to no other object:   *)
(* what the deletion of x leaves to drop, x itself referred to before.     *)
LEMMA OtherPredecessors ==
  ASSUME dropping \in [Txns -> Objects \cup {NoTxn}], NEW t \in Txns, NEW x \in alive,
         NEW y \in Objects, y # x, y # NoTxn, next' = next, dropping[t] \in {x, NoTxn},
         dropping' = [dropping EXCEPT ![t] = IF alive' = alive THEN NoTxn ELSE next[x]],
         alive' = alive \/ alive' = alive \ {x}
  PROVE  PredecessorRef(y)' <=> PredecessorRef(y)
<1>1. \A u \in Txns : dropping'[u] = (IF u # t THEN dropping[u]
                                     ELSE IF alive' = alive THEN NoTxn ELSE next[x])
  OBVIOUS
<1>2. dropping[t] # y
  OBVIOUS
<1>3. ASSUME PredecessorRef(y) PROVE PredecessorRef(y)'
  <2>1. CASE \E u \in Txns : dropping[u] = y
    <3>1. PICK u \in Txns : dropping[u] = y
      BY <2>1
    <3>2. u # t
      BY <1>2, <3>1
    <3>3. dropping'[u] = y
      BY <1>1, <3>1, <3>2
    <3> QED
      BY <3>3, Zenon DEF PredecessorRef
  <2>2. CASE \E p \in alive : next[p] = y
    <3>1. PICK p \in alive : next[p] = y
      BY <2>2
    <3>2. CASE p \in alive'
      <4>1. next'[p] = y
        BY <3>1
      <4> QED
        BY <3>2, <4>1, Zenon DEF PredecessorRef
    <3>3. CASE p \notin alive'
      <4>1. p = x /\ alive' # alive
        BY <3>3
      <4>2. dropping'[t] = y
        BY <1>1, <3>1, <4>1
      <4> QED
        BY <4>2, Zenon DEF PredecessorRef
    <3> QED
      BY <3>2, <3>3
  <2> QED
    BY <1>3, <2>1, <2>2, Zenon DEF PredecessorRef
<1>4. ASSUME PredecessorRef(y)' PROVE PredecessorRef(y)
  <2>1. CASE \E u \in Txns : dropping'[u] = y
    <3>1. PICK u \in Txns : dropping'[u] = y
      BY <2>1
    <3>2. dropping[u] = y \/ next[x] = y
      BY <1>1, <3>1
    <3> QED
      BY <3>2, Zenon DEF PredecessorRef
  <2>2. CASE \E p \in alive' : next'[p] = y
    <3>1. PICK p \in alive' : next'[p] = y
      BY <2>2
    <3>2. p \in alive /\ next[p] = y
      BY <3>1
    <3> QED
      BY <3>2, Zenon DEF PredecessorRef
  <2> QED
    BY <1>4, <2>1, <2>2, Zenon DEF PredecessorRef
<1> QED
  BY <1>3, <1>4

(* Every step keeps the reference counts exact.                            *)
LEMMA CountsStep ==
  ASSUME TypeOK, WalkInv, NoReuse, Core, [Next]_vars
  PROVE  Counts'
<1> USE TxnAssumption DEF TypeOK, Objects, PCs, START_CID, Goto, objVars, NoReuse
<1> USE DEF Core
<1>0. /\ last_cid >= 1 /\ cid[last_txn] >= last_cid /\ next[last_txn] = NoTxn
      /\ \A t \in Txns : cid[t] = 0 => ~LastRef(t) /\ ~PredecessorRef(t)
  <2>1. last_cid >= 1 /\ cid[last_txn] >= last_cid /\ next[last_txn] = NoTxn
    BY Zenon DEF Chain
  <2>2. \A t \in Txns : cid[t] = 0 => ~PredecessorRef(t)
    BY Links DEF PredecessorRef, Locals
  <2> QED
    BY <2>1, <2>2 DEF LastRef
<1>1. ASSUME NEW t \in Txns, BeginTransaction(t)
      PROVE Counts'
  <2>1. cid[t] = 0 /\ next[t] = NoTxn /\ t # last_txn
    BY <1>1, <1>0 DEF BeginTransaction, Progress, Chain
  <2>2. UNCHANGED <<last_cid, last_txn, cid, next, txn_list, dropping>>
        /\ pc' = [pc EXCEPT ![t] = "running"] /\ alive' = alive \cup {t}
        /\ ref_count' = [ref_count EXCEPT ![t] = 1]
    BY <1>1 DEF BeginTransaction, BASE_REF_COUNT
  <2>3. \A x \in Objects : PredecessorRef(x)' <=> PredecessorRef(x)
    BY <2>1, <2>2 DEF PredecessorRef
  <2>4. \A x \in Objects : LastRef(x)' <=> LastRef(x)
    BY <2>2 DEF LastRef
  <2>5. \A x \in Objects : x # t => (OwnRef(x)' <=> OwnRef(x))
    BY <2>2 DEF OwnRef
  <2>6. OwnRef(t)'
    BY <2>2 DEF OwnRef
  <2>7. /\ ref_count'[t] = One(OwnRef(t)') + One(LastRef(t)') + One(PredecessorRef(t)')
        /\ t \in alive' <=> ref_count'[t] > 0
    BY <1>0, <2>1, <2>2, <2>3, <2>4, <2>6, SMTT(30) DEF One
  <2> QED
    BY <2>2, <2>3, <2>4, <2>5, <2>7, SameHolders, Zenon DEF Counts
<1>2. ASSUME NEW t \in Txns, BeginCommitPhase(t)
      PROVE Counts'
  <2>0. PICK tmp \in Objects : tmp = last_txn
    BY Zenon
  <2>1. cid[t] = 0 /\ next[t] = NoTxn /\ t # tmp /\ pc[t] = "running"
    BY <2>0, <1>2, <1>0 DEF BeginCommitPhase, Progress, Chain
  <2>2. /\ UNCHANGED <<last_cid, txn_list, dropping>> /\ last_txn' = t
        /\ pc' = [pc EXCEPT ![t] = "modify"]
        /\ next' = [next EXCEPT ![tmp] = t]
        /\ cid' = [cid EXCEPT ![t] = cid[tmp] + 1]
        /\ ref_count' = [ref_count EXCEPT ![tmp] = @ - 1,
                                          ![t] = @ + (IF ref_count[tmp] = 1 THEN 1 ELSE 2)]
        /\ alive' = IF ref_count[tmp] = 1 THEN alive \ {tmp} ELSE alive
    BY <2>0, <1>2, Zenon DEF BeginCommitPhase
  <2>3. \A x \in Objects : x # t => (PredecessorRef(x)' <=> PredecessorRef(x))
    BY <2>0, <1>0, <2>1, <2>2 DEF PredecessorRef
  <2>4. \A x \in Objects : x # t => (OwnRef(x)' <=> OwnRef(x))
    BY <2>1, <2>2 DEF OwnRef
  <2>5. LastRef(tmp) /\ ~LastRef(tmp)' /\ LastRef(t)'
    BY <2>0, <2>1, <2>2 DEF LastRef
  <2>6. \A x \in Objects : x # t /\ x # tmp => (LastRef(x)' <=> LastRef(x))
    BY <2>0, <2>2, Zenon DEF LastRef
  <2>7. OwnRef(t) /\ OwnRef(t)'
    BY <2>0, <1>0, <2>1, <2>2 DEF OwnRef
  <2>8. PredecessorRef(t)' <=> ref_count[tmp] # 1
    <3>1. \A p \in Objects : next'[p] = t => p = tmp
      BY <2>0, <2>1, <2>2, Links
    <3>2. \A u \in Txns : dropping[u] # t
      BY <2>1 DEF Locals
    <3>3. tmp \in alive
      BY <2>5 DEF Counts, One
    <3> QED
      BY <2>2, <3>1, <3>2, <3>3, Zenon DEF PredecessorRef
  <2>9. /\ ref_count'[t] = One(OwnRef(t)') + One(LastRef(t)') + One(PredecessorRef(t)')
        /\ t \in alive' <=> ref_count'[t] > 0
    <3>1. ref_count[t] = 1 /\ t \in alive
      BY <1>0, <2>1, <2>7 DEF Counts, One
    <3> QED
      BY <2>1, <2>2, <2>5, <2>7, <2>8, <3>1 DEF One
  <2>10. /\ ref_count'[tmp] = One(OwnRef(tmp)') + One(LastRef(tmp)') + One(PredecessorRef(tmp)')
         /\ tmp \in alive' <=> ref_count'[tmp] > 0
    <3>1. ref_count'[tmp] = ref_count[tmp] - 1
      BY <2>1, <2>2
    <3> QED
      BY <2>1, <2>2, <2>3, <2>4, <2>5, <3>1 DEF Counts, One
  <2>11. \A x \in Objects : x # t /\ x # tmp => ref_count'[x] = ref_count[x]
                                               /\ (x \in alive' <=> x \in alive)
    BY <2>2, Zenon
  <2> QED
    BY <2>3, <2>4, <2>6, <2>9, <2>10, <2>11, SameHolders DEF Counts
<1>3. ASSUME UNCHANGED <<ref_count, alive, last_txn, next, dropping>>,
             \A x \in Objects : OwnRef(x)' <=> OwnRef(x)
      PROVE Counts'
  <2>1. \A x \in Objects : /\ LastRef(x)' <=> LastRef(x)
                           /\ PredecessorRef(x)' <=> PredecessorRef(x)
    BY <1>3 DEF LastRef, PredecessorRef
  <2> QED
    BY <1>3, <2>1, SameHolders DEF Counts
<1>4. ASSUME NEW t \in Txns, AbortTransaction(t)
      PROVE Counts'
  <2>1. \A x \in Objects : OwnRef(x)' <=> OwnRef(x)
    BY <1>4, SMTT(60) DEF AbortTransaction, OwnRef, Locals
  <2> QED
    BY <1>3, <1>4, <2>1, Zenon DEF AbortTransaction
<1>5. ASSUME NEW t \in Txns, CommitModifications(t) \/ EndTransaction(t) \/ ExecTransactionStmt(t)
                             \/ ExecutePlan(t) \/ ReadResult(t) \/ SetWaiting(t) \/ ClearWaiting(t)
                             \/ ReadNext(t) \/ CheckWaiting(t)
      PROVE Counts'
  <2> USE DEF CommitModifications, EndTransaction, ExecTransactionStmt, ExecutePlan, ReadResult,
              Returns, SetWaiting, ClearWaiting, ReadNext, CheckWaiting
  <2>1. \A x \in Objects : OwnRef(x)' <=> OwnRef(x)
    BY <1>5 DEF OwnRef
  <2> QED
    BY <1>3, <1>5, <2>1, Zenon
<1>6. ASSUME NEW t \in Txns, NEW x \in Txns, Publish(t, x), CasLastCid(x), pc[t] # "running",
             NEW to \in PCs \ {"running"}, pc' = [pc EXCEPT ![t] = to],
             UNCHANGED <<cid, next, alive, dropping, ref_count, last_txn>>
      PROVE Counts'
  <2>1. cid[x] = last_cid + 1 /\ last_cid' = last_cid + 1
        /\ txn_list' = [txn_list EXCEPT ![t] = @ \cup {x}]
    BY <1>6 DEF CasLastCid, Publish
  <2>2. \A y \in Objects : cid[y] = cid[x] => y = x
    BY <2>1 DEF Chain
  <2>3. OwnRef(x) /\ OwnRef(x)'
    BY <2>1 DEF OwnRef
  <2>4. \A y \in Objects : y # x => (OwnRef(y)' <=> OwnRef(y))
    BY <1>6, <2>1, <2>2, SMTT(60) DEF OwnRef
  <2> QED
    BY <1>3, <1>6, <2>3, <2>4, Zenon
<1>7. ASSUME NEW t \in Txns, FirstCas(t) \/ SecondCas(t) \/ PendingCas(t)
      PROVE Counts'
  <2>1. CASE UNCHANGED last_cid /\ UNCHANGED txn_list
    <3> USE DEF FirstCas, SecondCas, PendingCas, Publish, CasLastCid
    <3>1. \A x \in Objects : OwnRef(x)' <=> OwnRef(x)
      BY <1>7, <2>1 DEF OwnRef
    <3> QED
      BY <1>3, <1>7, <3>1, Zenon
  <2>2. CASE FirstCas(t) /\ CasLastCid(t)
    BY <1>6, <2>2, Zenon DEF FirstCas
  <2>3. CASE SecondCas(t) /\ CasLastCid(t) /\ t \in alive
    BY <1>6, <2>3, Zenon DEF SecondCas
  <2>4. CASE PendingCas(t) /\ CasLastCid(next_txn[t])
    BY <1>6, <2>4, Zenon DEF PendingCas, WalkInv
  <2> HIDE DEF TypeOK, Core, Counts, Objects, Goto, objVars
  <2> QED
    BY <1>7, <2>1, <2>2, <2>3, <2>4, CasOutcome, Zenon
<1>8. ASSUME NEW t \in Txns, NEW x \in Txns, DecrementRefCount(t, x), x \in alive,
             UNCHANGED last_txn, UNCHANGED next,
             dropping[t] \in {x, NoTxn},
             \A y \in Objects : y # x => (OwnRef(y)' <=> OwnRef(y)),
             \/ OwnRef(x) /\ ~OwnRef(x)' /\ (PredecessorRef(x)' <=> PredecessorRef(x))
             \/ PredecessorRef(x) /\ ~PredecessorRef(x)' /\ (OwnRef(x)' <=> OwnRef(x))
      PROVE Counts'
  <2>1. \A y \in Objects : LastRef(y)' <=> LastRef(y)
    BY <1>8, Zenon DEF LastRef
  <2>2. \A y \in Objects : y # x => (PredecessorRef(y)' <=> PredecessorRef(y))
    <3>1. /\ next' = next /\ dropping[t] \in {x, NoTxn} /\ dropping \in [Txns -> Txns \cup {NoTxn}]
          /\ dropping' = [dropping EXCEPT ![t] = IF alive' = alive THEN NoTxn ELSE next[x]]
          /\ alive' = alive \/ alive' = alive \ {x}
      BY <1>8, Zenon DEF DecrementRefCount
    <3>2. dropping \in [Txns -> Objects \cup {NoTxn}] /\ NoTxn \notin Objects
      BY <3>1
    <3> HIDE DEF TypeOK, Core, Counts, PCs, Goto, objVars, Objects
    <3> QED
      BY <1>8, <3>1, <3>2, OtherPredecessors, Zenon
  <2>3. /\ ref_count'[x] = One(OwnRef(x)') + One(LastRef(x)') + One(PredecessorRef(x)')
        /\ x \in alive' <=> ref_count'[x] > 0
    <3>1. ref_count'[x] = ref_count[x] - 1 /\ (x \in alive' <=> ref_count[x] # 1)
      BY <1>8, Zenon DEF DecrementRefCount
    <3>2. \/ OwnRef(x) /\ ~OwnRef(x)' /\ (PredecessorRef(x)' <=> PredecessorRef(x))
          \/ PredecessorRef(x) /\ ~PredecessorRef(x)' /\ (OwnRef(x)' <=> OwnRef(x))
      BY <1>8, Zenon
    <3>3. (LastRef(x)' <=> LastRef(x)) /\ x \in Objects /\ x \in alive
      BY <1>8, <2>1, Zenon
    <3> QED
      BY <3>1, <3>2, <3>3, OneHolderLess, Zenon
  <2>4. \A y \in Objects : y # x => ref_count'[y] = ref_count[y] /\ (y \in alive' <=> y \in alive)
    BY <1>8 DEF DecrementRefCount
  <2> QED
    BY <1>8, <2>1, <2>2, <2>3, <2>4, SameHolders, ZenonT(60) DEF Counts
<1>9. ASSUME NEW t \in Txns, DropReference(t)
      PROVE Counts'
  <2>0. UNCHANGED <<pc, last_cid, last_txn, cid, next>> /\ pc[t] = "drop_refs"
    BY <1>9, Zenon DEF DropReference
  <2>1. CASE dropping[t] # NoTxn
    <3>0. PICK x \in Txns : x = dropping[t]
      BY <2>1
    <3>1. x \in Txns /\ DecrementRefCount(t, x) /\ UNCHANGED txn_list
      BY <1>9, <2>1, <3>0 DEF DropReference
    <3>2. PredecessorRef(x)
      BY <3>0 DEF PredecessorRef
    <3>3. x \in alive
      BY <3>1, <3>2 DEF Counts, One
    <3>4. \A y \in Objects : OwnRef(y)' <=> OwnRef(y)
      BY <2>0, <3>1, Zenon DEF OwnRef
    <3>5. ~PredecessorRef(x)'
      <4>1. \A p \in alive' : next'[p] # x
        BY <2>0, <2>1, <3>0, <3>1, Zenon DEF Locals, DecrementRefCount
      <4>2. \A u \in Txns : dropping'[u] # x
        BY <2>0, <2>1, <3>0, <3>1, Links DEF Locals, DecrementRefCount
      <4> QED
        BY <4>1, <4>2, Zenon DEF PredecessorRef
    <3>6. dropping[t] \in {x, NoTxn}
      BY <3>0, Zenon
    <3> QED
      BY <1>8, <2>0, <3>1, <3>2, <3>3, <3>4, <3>5, <3>6
  <2>2. CASE dropping[t] = NoTxn
    <3>1. PICK x \in Txns : /\ x \in txn_list[t] /\ DecrementRefCount(t, x)
                            /\ txn_list' = [txn_list EXCEPT ![t] = @ \ {x}]
      BY <1>9, <2>2 DEF DropReference
    <3>2. OwnRef(x)
      BY <3>1 DEF OwnRef
    <3>3. x \in alive
      BY <3>1, <3>2 DEF Counts, One
    <3>4. ~OwnRef(x)'
      <4>1. pc[x] # "running" /\ ~(cid[x] > last_cid)
        BY <2>0, <3>1, <1>0 DEF Locals, Progress
      <4>2. \A u \in Txns : x \notin txn_list'[u]
        BY <3>1 DEF Locals
      <4> QED
        BY <2>0, <4>1, <4>2, Zenon DEF OwnRef
    <3>5. \A y \in Objects : y # x => (OwnRef(y)' <=> OwnRef(y))
      BY <2>0, <3>1, ZenonT(60) DEF OwnRef
    <3>6. PredecessorRef(x)' <=> PredecessorRef(x)
      BY <2>0, <2>2, <3>1, Links DEF PredecessorRef, DecrementRefCount
    <3> QED
      BY <1>8, <2>0, <2>2, <3>1, <3>2, <3>3, <3>4, <3>5, <3>6, Zenon
  <2> QED
    BY <2>1, <2>2
<1>10. CASE UNCHANGED vars
  <2>1. \A x \in Objects : OwnRef(x)' <=> OwnRef(x)
    BY <1>10, SMTT(30) DEF OwnRef, vars
  <2> QED
    BY <1>3, <1>10, <2>1, Zenon DEF vars
<1> QED
  BY <1>1, <1>2, <1>4, <1>5, <1>7, <1>9, <1>10, Cases

(* Every step keeps the next transaction in line within reach of a walk.   *)
LEMMA LineStep ==
  ASSUME TypeOK, WalkInv, NoReuse, Core, [Next]_vars
  PROVE  Line'
<1> USE TxnAssumption DEF TypeOK, Objects, PCs, START_CID, Goto, objVars, NoReuse
<1> USE DEF Core, Line, Early, Walk, Late
<1>0. last_cid >= 1 /\ cid[last_txn] >= last_cid
  BY Zenon DEF Chain
<1>1. ASSUME NEW t \in Txns, BeginTransaction(t)
      PROVE Line'
  BY <1>1, ZenonT(60) DEF BeginTransaction
<1>2. ASSUME NEW t \in Txns, BeginCommitPhase(t)
      PROVE Line'
  <2>1. cid[t] = 0 
    BY <1>2, Zenon DEF BeginCommitPhase, Progress
  <2> QED
    BY <1>0, <1>2, <2>1 DEF BeginCommitPhase, WalkInv
<1>3. ASSUME NEW t \in Txns, AbortTransaction(t)
      PROVE Line'
  <2>1. cid[t] = 0
    BY <1>3, Zenon DEF AbortTransaction, Progress
  <2> QED
    BY <1>3, <1>0, <2>1, SMTT(60) DEF AbortTransaction
<1>4. ASSUME NEW t \in Txns, CommitModifications(t) \/ EndTransaction(t) \/ ExecTransactionStmt(t)
                             \/ ExecutePlan(t) \/ ReadResult(t) \/ SetWaiting(t) \/ ClearWaiting(t)
                             \/ DropReference(t)
      PROVE Line'
  BY <1>4, SMTT(60) DEF CommitModifications, EndTransaction, ExecTransactionStmt, ExecutePlan, ReadResult,
              Returns, SetWaiting, ClearWaiting, DropReference
<1>5. ASSUME NEW t \in Txns, NEW x \in Txns, Publish(t, x), UNCHANGED cid,
             \E to \in {"clear_waiting", "read_next"} : pc' = [pc EXCEPT ![t] = to]
      PROVE Line'
  <2>1. pc'[t] \in {"clear_waiting", "read_next"} /\ cid'[next_txn'[t]] = last_cid'
    BY <1>5, Zenon DEF Publish
  <2> QED
    BY <2>1, Zenon
<1>6. ASSUME NEW t \in Txns, FirstCas(t) \/ SecondCas(t) \/ PendingCas(t)
      PROVE Line'
  <2>1. CASE FirstCas(t)
    BY <1>5, <2>1, SMTT(60) DEF FirstCas
  <2>2. CASE SecondCas(t)
    <3>1. CASE t \in alive /\ CasLastCid(t)
      BY <1>5, <2>2, <3>1, ZenonT(60) DEF SecondCas
    <3>2. CASE ~(t \in alive /\ CasLastCid(t))
      <4>1. cid[t] > last_cid => t \in alive
        BY DEF Counts, OwnRef, One
      <4>2. cid[t] # last_cid + 1
        BY <3>2, <4>1, SMTT(30) DEF CasLastCid
      <4> QED
        BY <2>2, <3>2, <4>2 DEF SecondCas
    <3> QED
      BY <3>1, <3>2, Zenon
  <2>3. CASE PendingCas(t)
    <3>1. CASE CasLastCid(next_txn[t])
      BY <1>5, <2>3, <3>1, Zenon DEF PendingCas, WalkInv
    <3>2. CASE ~CasLastCid(next_txn[t])
      <4>1. cid[next_txn[t]] # last_cid + 1 /\ cid[t] <= last_cid
        BY <2>3, <3>2 DEF CasLastCid, WalkInv, PendingCas, Progress
      <4> QED
        BY <2>3, <3>2, <4>1, SMTT(30) DEF PendingCas
    <3> QED
      BY <3>1, <3>2, Zenon
  <2> QED
    BY <1>6, <2>1, <2>2, <2>3, Zenon
<1>7. ASSUME NEW t \in Txns, ReadNext(t)
      PROVE Line'
  <2>1. \A u \in Txns : cid[u] = last_cid + 1 /\ cid[next_txn[t]] = last_cid => next[next_txn[t]] = u
    <3> SUFFICES ASSUME NEW u \in Txns, cid[u] = last_cid + 1, cid[next_txn[t]] = last_cid
                 PROVE  next[next_txn[t]] = u
      BY Zenon
    <3>1. next_txn[t] \in Txns /\ next_txn[t] # last_txn
      BY <1>7 DEF ReadNext, WalkInv, Chain
    <3>2. next[next_txn[t]] \in Txns /\ cid[next[next_txn[t]]] = last_cid + 1
      BY <1>0, <3>1 DEF Chain
    <3> QED
      BY <3>2 DEF Chain
  <2> QED
    BY <1>7, <2>1, ZenonT(60) DEF ReadNext
<1>8. ASSUME NEW t \in Txns, CheckWaiting(t)
      PROVE Line'
  <2>1. \A u \in Txns : cid[u] = last_cid + 1 /\ pc[u] \in Late => u \in waiting_to_commit
    BY SMTT(60) DEF Progress
  <2>2. cid[t] <= last_cid
    BY <1>8, Zenon DEF CheckWaiting, Progress
  <2> QED
    BY <1>8, <2>1, <2>2 DEF CheckWaiting, NextIsWaiting
<1>9. CASE UNCHANGED vars
  BY <1>9 DEF vars
<1> QED
  BY <1>1, <1>2, <1>3, <1>4, <1>6, <1>7, <1>8, <1>9, Cases, ZenonT(60)

-----------------------------------------------------------------------------
(* Initial states satisfy the invariant.                                   *)
LEMMA InitIInv ==
  ASSUME Init
  PROVE  IInv
<1> USE TxnAssumption DEF Init, Objects, START_CID, INVALID_CID, BASE_REF_COUNT
<1>1. TypeOK
  BY DEF TypeOK, PCs
<1>2. WalkInv
  BY DEF WalkInv
<1>3. Chain
  <2>1. \A c \in START_CID .. cid[last_txn] : c = cid[Base]
    OBVIOUS
  <2>2. \A c \in START_CID .. cid[last_txn] : \E x \in Objects : cid[x] = c
    BY <2>1, ZenonT(60)
  <2>3. \A x \in Objects : (cid[x] # 0 <=> x = Base) /\ next[x] = NoTxn
    OBVIOUS
  <2>4. last_txn = Base /\ last_cid = 1 /\ cid[Base] = 1
    OBVIOUS
  <2>5. \A x \in Objects : cid[x] \in {0, 1}
    BY Zenon
  <2> HIDE DEF Init
  <2> QED
    BY <2>2, <2>3, <2>4, <2>5 DEF Chain
<1>4. Progress
  BY Zenon DEF Progress, Early, Walk, Late
<1>5. Locals
  BY DEF Locals
<1>6. Counts
  BY DEF Counts, OwnRef, LastRef, PredecessorRef, One
<1>7. Line
  BY DEF Line, Late
<1> QED
  BY <1>1, <1>2, <1>3, <1>4, <1>5, <1>6, <1>7, Zenon DEF IInv, Core

(* Every step preserves it.                                                *)
LEMMA NextIInv ==
  ASSUME IInv, [Next]_vars
  PROVE  IInv'
<1>1. TypeOK' /\ WalkInv'
  BY TypeStep DEF IInv
<1>2. ASSUME NoReuse'
      PROVE Core'
  <2>1. NoReuse
    BY <1>2, ReuseStable DEF IInv
  <2> QED
    BY <2>1, ChainStep, ProgressStep, LocalsStep, CountsStep, LineStep DEF IInv, Core
<1> QED
  BY <1>1, <1>2 DEF IInv

(* The inductive invariant holds in every reachable state.                 *)
THEOREM Invariance == Spec => []IInv
<1>1. Init => IInv
  BY InitIInv
<1>2. IInv /\ [Next]_vars => IInv'
  BY NextIInv
<1> QED
  BY <1>1, <1>2, PTL DEF Spec

(* The variables of TransactionManager and its transactions keep their     *)
(* types, the pointers of the walk included.                               *)
THEOREM TypeCorrect == Spec => []TypeOK
<1>1. IInv => TypeOK
  BY Zenon DEF IInv
<1> QED
  BY <1>1, Invariance, PTL

(* EndCommitPhase and CommitPendingTransactions advance last_cid only over *)
(* transactions whose modifications are installed.                         *)
THEOREM PublishedIsInstalled == Spec => []PublishedInstalled
<1>1. IInv => PublishedInstalled
  BY DEF IInv, Core, Progress, Early, PublishedInstalled, AllPublishedInstalled,
         Installed, Committing, INVALID_CID, TypeOK, Objects
<1> QED
  BY <1>1, Invariance, PTL

(* A transaction that EndCommitPhase left waiting, and whose turn it is,   *)
(* is about to be found by some thread in CommitPendingTransactions.       *)
THEOREM NobodyStranded == Spec => []NotStranded
<1>1. IInv => NotStranded
  BY DEF IInv, Core, Progress, Late, Line, NotStranded, TypeOK, Objects
<1> QED
  BY <1>1, Invariance, PTL

(* ref_count counts exactly the references there are.                      *)
THEOREM CountsAreExact == Spec => []RefCountExact
<1>1. IInv => RefCountExact
  BY DEF IInv, Core, Counts, RefCountExact
<1> QED
  BY <1>1, Invariance, PTL

(* The walk and the final loop of CommitTransaction use no deleted object. *)
THEOREM WalkIsSafe == Spec => []WalkAlive
<1>1. IInv => WalkAlive
  <2> SUFFICES ASSUME IInv, NoReuse
               PROVE \A t \in Txns :
                       /\ txn_list[t] \subseteq alive
                       /\ pc[t] \in {"read_next", "pending_cas"} => next_txn[t] \in alive
                       /\ pc[t] = "check_waiting" => next_txn[t] \in alive \cup {NoTxn}
    BY ZenonT(60) DEF WalkAlive
  <2> USE TxnAssumption DEF IInv, Core, TypeOK, Objects
  <2>1. \A t \in Txns : txn_list[t] \subseteq alive
    BY DEF Counts, OwnRef, One
  <2>2. \A p \in alive : next[p] # NoTxn => next[p] \in alive
    BY DEF Counts, PredecessorRef, One
  <2>3. \A t \in Txns : pc[t] \in {"clear_waiting", "read_next"} => next_txn[t] \in alive
    BY <2>1, Zenon DEF Locals
  <2>4. \A t \in Txns : pc[t] \in {"check_waiting", "pending_cas"} =>
                          next_txn[t] \in alive \cup {NoTxn}
    BY <2>1, <2>2 DEF Locals
  <2>5. \A t \in Txns : pc[t] = "pending_cas" => next_txn[t] \in alive
    BY <2>4 DEF WalkInv
  <2> QED
    BY <2>1, <2>3, <2>4, <2>5, ZenonT(60)
<1> QED
  BY <1>1, Invariance, PTL

-----------------------------------------------------------------------------
(* Refinement: every step of the protocol is a step of CommitOrder or      *)
(* leaves its variables alone.                                             *)
LEMMA InitRefines ==
  ASSUME Init
  PROVE  Abstract!Init
  BY TxnAssumption, Zenon DEF Init, Abstract!Init, Abstract!FirstId, phaseBar, Objects, START_CID,
                       INVALID_CID

(* A step of the protocol is a step of CommitOrder, or none.               *)
LEMMA StepRefines ==
  ASSUME TypeOK, WalkInv, NoReuse, Core, FreshNext
  PROVE  [Abstract!Next]_Abstract!vars
<1> USE TxnAssumption DEF TypeOK, Objects, PCs, START_CID, INVALID_CID, Goto, objVars, NoReuse,
                          Committing
<1> USE DEF Core
<1>0. [Next]_vars
  BY SMTT(30) DEF FreshNext
<1>1. ASSUME NEW t \in Txns, BeginTransaction(t)
      PROVE Abstract!Begin(t)
  <2>1. phaseBar' = [phaseBar EXCEPT ![t] = "running"] /\ phaseBar[t] = "idle"
    BY <1>1, ZenonT(60) DEF BeginTransaction, phaseBar
  <2> QED
    BY <1>1, <2>1, ZenonT(60) DEF BeginTransaction, Abstract!Begin
<1>2. ASSUME NEW t \in Txns, BeginCommitPhase(t)
      PROVE Abstract!GetCommitId(t)
  <2>1. phaseBar' = [phaseBar EXCEPT ![t] = "installing"] /\ phaseBar[t] = "running"
    BY <1>2, ZenonT(60) DEF BeginCommitPhase, phaseBar
  <2>2. cid[t] = 0
    BY <1>2, Zenon DEF BeginCommitPhase, Progress
  <2>3. cid' = [cid EXCEPT ![t] = cid[last_txn] + 1] /\ last_txn' = t
    BY <1>2 DEF BeginCommitPhase
  <2>4. cid'[last_txn'] = cid[last_txn] + 1
    BY <2>3, Zenon
  <2> QED
    BY <1>2, <2>1, <2>3, <2>4, ZenonT(60) DEF BeginCommitPhase, Abstract!GetCommitId
<1>3. ASSUME NEW t \in Txns, CommitModifications(t)
      PROVE Abstract!Install(t)
  <2>1. cid[t] # 0
    BY <1>3 DEF CommitModifications, Progress, Early
  <2>2. phaseBar' = [phaseBar EXCEPT ![t] = "installed"] /\ phaseBar[t] = "installing"
    <3>1. pc[t] = "modify" /\ pc' = [pc EXCEPT ![t] = "first_cas"] /\ cid' = cid
      BY <1>3 DEF CommitModifications
    <3>2. phaseBar[t] = "installing" /\ phaseBar'[t] = "installed"
      BY <2>1, <3>1 DEF phaseBar
    <3>3. \A u \in Txns : u # t => phaseBar'[u] = phaseBar[u]
      BY <3>1 DEF phaseBar
    <3>4. /\ phaseBar = [u \in Txns |-> phaseBar[u]]
          /\ phaseBar' = [u \in Txns |-> phaseBar'[u]]
      BY Zenon DEF phaseBar
    <3> QED
      BY <3>2, <3>3, <3>4
  <2> QED
    BY <1>3, <2>2, Zenon DEF CommitModifications, Abstract!Install
<1>4. ASSUME NEW t \in Txns, AbortTransaction(t)
      PROVE Abstract!Abort(t)
  <2>1. cid[t] = 0
    BY <1>4 DEF AbortTransaction, Progress
  <2>2. phaseBar' = [phaseBar EXCEPT ![t] = "aborted"] /\ phaseBar[t] = "running"
    BY <1>4, <2>1, ZenonT(60) DEF AbortTransaction, phaseBar
  <2> QED
    BY <1>4, <2>2, Zenon DEF AbortTransaction, Abstract!Abort
<1>5. ASSUME NEW t \in Txns, NEW x \in Txns, Publish(t, x), CasLastCid(x),
             x = t \/ (pc[t] = "pending_cas" /\ x = next_txn[t]),
             pc[t] \in {"first_cas", "second_cas", "pending_cas"},
             NEW to \in {"clear_waiting", "read_next"}, pc' = [pc EXCEPT ![t] = to],
             UNCHANGED <<cid, last_txn, snapshot>>
      PROVE Abstract!Publish(x)
  <2>1. phaseBar' = phaseBar
    BY <1>5, Zenon DEF phaseBar
  <2>2. pc[x] \notin {"idle", "running", "modify"} /\ cid[x] # 0
    BY <1>5 DEF Progress, Early, Walk, CasLastCid
  <2>3. phaseBar[x] = "installed"
    BY <2>2, Zenon DEF phaseBar
  <2>4. cid[x] = last_cid + 1 /\ last_cid' = last_cid + 1
    BY <1>5 DEF CasLastCid, Publish
  <2> QED
    BY <1>5, <2>1, <2>3, <2>4 DEF Abstract!Publish
<1>6. ASSUME UNCHANGED <<last_cid, last_txn, cid, snapshot>>, UNCHANGED phaseBar
      PROVE UNCHANGED Abstract!vars
  BY <1>6, SMTT(60) DEF Abstract!vars
<1>7. ASSUME NEW t \in Txns, FirstCas(t) \/ SecondCas(t) \/ PendingCas(t)
      PROVE (\E x \in Txns : Abstract!Publish(x)) \/ UNCHANGED Abstract!vars
  <2>1. CASE UNCHANGED last_cid
    <3> USE DEF FirstCas, SecondCas, PendingCas, Publish, CasLastCid
    <3>1. UNCHANGED phaseBar
      BY <1>7, <2>1, ZenonT(60) DEF phaseBar
    <3> QED
      BY <1>6, <1>7, <2>1, <3>1
  <2>2. CASE FirstCas(t) /\ CasLastCid(t)
    BY <1>5, <2>2, Zenon DEF FirstCas
  <2>3. CASE SecondCas(t) /\ CasLastCid(t) /\ t \in alive
    BY <1>5, <2>3, Zenon DEF SecondCas
  <2>4. CASE PendingCas(t) /\ CasLastCid(next_txn[t])
    BY <1>5, <2>4, Zenon DEF PendingCas, WalkInv
  <2> QED
    BY <1>7, <2>1, <2>2, <2>3, <2>4, CasOutcome, Zenon
<1>8. ASSUME NEW t \in Txns, SetWaiting(t) \/ ClearWaiting(t) \/ ReadNext(t) \/ CheckWaiting(t)
                             \/ EndTransaction(t) \/ DropReference(t) \/ ExecTransactionStmt(t)
                             \/ ExecutePlan(t) \/ ReadResult(t)
      PROVE UNCHANGED Abstract!vars
  <2> USE DEF SetWaiting, ClearWaiting, ReadNext, CheckWaiting, EndTransaction, DropReference,
              ExecTransactionStmt, ExecutePlan, ReadResult, Returns
  <2>1. UNCHANGED phaseBar
    BY <1>8 DEF phaseBar
  <2> QED
    BY <1>6, <1>8, <2>1, Zenon
<1>9. CASE UNCHANGED vars
  BY <1>6, <1>9 DEF vars, phaseBar
<1> QED
  BY <1>0, <1>1, <1>2, <1>3, <1>4, <1>7, <1>8, <1>9, Cases, Zenon DEF Abstract!Next

(* The protocol implements CommitOrder as long as no object is reused      *)
(* under a running thread: ids in sequence, publication in their order and *)
(* only once installed, snapshots of what is published.                    *)
THEOREM Refinement == FreshSpec => ImplementsCommitOrder
<1>1. Init => Abstract!Init
  BY InitRefines
<1>2. Init => IInv /\ NoReuse
  BY InitIInv, Zenon DEF Init, NoReuse
<1>3. IInv /\ NoReuse /\ [FreshNext]_vars => (IInv /\ NoReuse)'
  BY NextIInv DEF FreshNext, NoReuse, vars
<1>4. IInv /\ NoReuse /\ [FreshNext]_vars => [Abstract!Next]_Abstract!vars
  <2>1. CASE FreshNext
    BY <2>1, StepRefines DEF IInv
  <2>2. CASE UNCHANGED vars
    BY <2>2 DEF vars, Abstract!vars, phaseBar, Committing
  <2> QED
    BY <2>1, <2>2
<1> QED
  BY <1>1, <1>2, <1>3, <1>4, PTL DEF FreshSpec, ImplementsCommitOrder, Abstract!Spec

-----------------------------------------------------------------------------
(* What is left when all threads have returned.                            *)

(* A thread that has returned from CommitTransaction or AbortTransaction   *)
(* has dropped all references it had collected.                            *)
Emptied == \A t \in Txns : pc[t] \in {"read_result", "done"} => txn_list[t] = {}

(* A thread adds to its own list only, and before it drops references.     *)
LEMMA EmptiedStep ==
  ASSUME TypeOK, Emptied, [Next]_vars
  PROVE  Emptied'
<1> USE DEF Emptied, TypeOK, Goto
<1>1. ASSUME NEW t \in Txns, BeginTransaction(t) \/ BeginCommitPhase(t) \/ CommitModifications(t)
                             \/ SetWaiting(t) \/ ClearWaiting(t) \/ ReadNext(t) \/ CheckWaiting(t)
                             \/ EndTransaction(t)
      PROVE Emptied'
  <2>1. UNCHANGED txn_list /\ \E p \in PCs \ {"read_result", "done"} : pc' = [pc EXCEPT ![t] = p]
    BY <1>1 DEF BeginTransaction, BeginCommitPhase, CommitModifications, SetWaiting, ClearWaiting,
                ReadNext, CheckWaiting, EndTransaction, PCs
  <2> QED
    BY <2>1
<1>2. ASSUME NEW t \in Txns, AbortTransaction(t) \/ FirstCas(t) \/ SecondCas(t) \/ PendingCas(t)
      PROVE Emptied'
  <2>1. /\ \A u \in Txns \ {t} : txn_list'[u] = txn_list[u]
        /\ \E p \in PCs \ {"read_result", "done"} : pc' = [pc EXCEPT ![t] = p]
    BY <1>2 DEF AbortTransaction, FirstCas, SecondCas, PendingCas, Publish, PCs
  <2> QED
    BY <2>1
<1>3. ASSUME NEW t \in Txns, DropReference(t)
      PROVE Emptied'
  <2>1. pc' = pc /\ pc[t] = "drop_refs" /\ \A u \in Txns \ {t} : txn_list'[u] = txn_list[u]
    BY <1>3 DEF DropReference
  <2> QED
    BY <2>1
<1>4. ASSUME NEW t \in Txns, ExecTransactionStmt(t) \/ ExecutePlan(t) \/ ReadResult(t)
      PROVE Emptied'
  BY <1>4 DEF ExecTransactionStmt, ExecutePlan, ReadResult, Returns
<1>5. CASE UNCHANGED vars
  BY <1>5 DEF vars
<1> QED
  BY <1>1, <1>2, <1>3, <1>4, <1>5, Cases, Zenon

(* A set of numbers has a least one.                                       *)
LEMMA LeastNumber ==
  ASSUME NEW T, T \subseteq Nat, T # {}
  PROVE  \E x \in T : \A y \in T : ~(y < x)
<1>1. PICK R : R = OpToRel(<, Nat)
  BY Zenon
<1>2. IsWellFoundedOn(R, Nat)
  BY <1>1, NatLessThanWellFounded, Zenon
<1>3. PICK x \in T : \A y \in T : ~(<<y, x>> \in R)
  BY <1>2, WFMin, Zenon
<1>4. \A n, m \in Nat : m < n => <<m, n>> \in R
  BY <1>1 DEF OpToRel
<1>5. ASSUME NEW y \in T PROVE ~(y < x)
  BY <1>3, <1>4, Zenon
<1> QED
  BY <1>5, Zenon

(* Once all have returned every commit is published: the next one in line  *)
(* would be in reach of a walk.                                            *)
LEMMA AllPublished ==
  ASSUME TypeOK, Core, \A t \in Txns : pc[t] = "done"
  PROVE  \A x \in Txns : cid[x] <= last_cid
<1> USE TxnAssumption DEF TypeOK, Objects
<1>1. cid[last_txn] \in Nat /\ last_cid \in Nat /\ START_CID <= last_cid /\ cid[Base] = START_CID
      /\ \A x \in Txns : cid[x] \in Nat /\ cid[x] <= cid[last_txn]
  BY DEF Core, Chain
<1>2. CASE last_cid < cid[last_txn]
  <2>1. last_cid + 1 \in START_CID .. cid[last_txn]
    BY <1>1, <1>2 DEF START_CID
  <2>2. PICK u \in Objects : cid[u] = last_cid + 1
    BY <2>1, Zenon DEF Core, Chain
  <2>3. u \in Txns
    BY <1>1, <2>2 DEF START_CID
  <2>4. pc[u] \in Late /\ \A t \in Txns : pc[t] \notin {"clear_waiting", "read_next", "check_waiting", "pending_cas"}
    BY <2>3 DEF Late
  <2> QED
    BY <2>2, <2>3, <2>4, Zenon DEF Core, Line
<1>3. ASSUME NEW x \in Txns, ~(last_cid < cid[last_txn])
      PROVE  cid[x] <= last_cid
  <2>1. cid[x] \in Nat /\ cid[x] <= cid[last_txn]
    BY <1>1, Zenon
  <2> HIDE DEF TypeOK, Objects
  <2> QED
    BY <1>1, <1>3, <2>1
<1> QED
  BY <1>2, <1>3, Zenon

(* Then the only references left are those along the list.  An object that *)
(* is left, other than the tail, has a predecessor that is left and has a  *)
(* smaller commit id, so that none is the first.                           *)
LEMMA OnlyTail ==
  ASSUME TypeOK, Core, Emptied, \A t \in Txns : pc[t] = "done"
  PROVE  alive = {last_txn}
<1> USE TxnAssumption DEF TypeOK, Objects
<1>1. last_txn \in alive
  BY DEF Core, Counts, LastRef, One, OwnRef, PredecessorRef
<1>2. ASSUME NEW x \in Txns PROVE ~OwnRef(x)
  <2>1. cid[x] <= last_cid /\ cid[x] \in Nat /\ last_cid \in Nat
    BY AllPublished
  <2>2. ~(cid[x] > last_cid) /\ pc[x] # "running"
    BY <2>1
  <2>3. \A t \in Txns : txn_list[t] = {}
    BY DEF Emptied
  <2> QED
    BY <2>2, <2>3, Zenon DEF OwnRef
<1>3. \A t \in Txns : dropping[t] = NoTxn
  BY DEF Core, Locals
<1>4. ASSUME NEW x \in alive \ {last_txn}
      PROVE  \E p \in alive \ {last_txn} : cid[p] < cid[x]
  <2>1. x \in Objects /\ x # NoTxn
    OBVIOUS
  <2>2. PredecessorRef(x)
    <3>1. ~OwnRef(x) /\ ~LastRef(x)
      BY <1>2, Zenon DEF OwnRef, LastRef
    <3>2. ref_count[x] = One(OwnRef(x)) + One(LastRef(x)) + One(PredecessorRef(x)) /\ ref_count[x] > 0
      BY <2>1, Zenon DEF Core, Counts
    <3> QED
      BY <3>1, <3>2 DEF One
  <2>3. PICK p \in alive : next[p] = x
    BY <1>3, <2>1, <2>2 DEF PredecessorRef
  <2>4. p \in Objects /\ p # last_txn /\ cid[p] # 0
    BY <2>1, <2>3 DEF Core, Chain
  <2>5. cid[x] = cid[p] + 1 /\ cid[p] \in Nat
    BY <2>3, <2>4 DEF Core, Chain
  <2> QED
    BY <2>3, <2>4, <2>5
<1>5. PICK A, T : A = alive \ {last_txn} /\ T = {cid[x] : x \in A}
  BY Zenon
<1>6. T \subseteq Nat
  BY <1>5
<1>7. T = {}
  <2>1. ASSUME NEW n \in T PROVE \E m \in T : m < n
    <3>1. PICK x \in A : n = cid[x]
      BY <1>5, Zenon
    <3>2. PICK q \in A : cid[q] < cid[x]
      BY <1>4, <1>5, Zenon
    <3> QED
      BY <1>5, <3>1, <3>2, Zenon
  <2> QED
    BY <1>6, <2>1, LeastNumber, Zenon
<1>8. ASSUME NEW x \in A PROVE FALSE
  <2>1. cid[x] \in T
    BY <1>5, Zenon
  <2> QED
    BY <1>7, <2>1, Zenon
<1> QED
  BY <1>1, <1>5, <1>8, Zenon

(* When every thread has returned the tail of the list is the only         *)
(* Transaction object left, however many there were and whoever published  *)
(* them.                                                                   *)
THEOREM NothingLeaks == Spec => []NoLeak
<1>1. Init => Emptied
  BY DEF Init, Emptied
<1>2. IInv /\ Emptied /\ [Next]_vars => Emptied'
  BY EmptiedStep DEF IInv
<1>3. IInv /\ Emptied => NoLeak
  BY OnlyTail DEF IInv, NoLeak
<1> QED
  BY <1>1, <1>2, <1>3, Invariance, PTL DEF Spec
=============================================================================
