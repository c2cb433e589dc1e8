-------------------------- MODULE TransactionManager --------------------------
(***************************************************************************)
(* The commit protocol of concurrency/transaction_manager.cpp and the      *)
(* reference counting of concurrency/transaction.h.                        *)
(*                                                                         *)
(* Transactions that commit are appended, under txn_table_mutex, to a list *)
(* linked by `next`, which gives them consecutive commit ids.  Once its    *)
(* modifications are installed a transaction tries to advance last_cid     *)
(* from cid-1 to cid; if a transaction with a lower id is not there yet,   *)
(* it raises waiting_to_commit, tries once more, and leaves: the           *)
(* transaction it waits for publishes it while walking the list.  No lock  *)
(* protects last_cid, waiting_to_commit or the walk; every shared access   *)
(* is a step of its own here.  A Transaction object is reference counted   *)
(* and deleted when the count drops to zero.                               *)
(*                                                                         *)
(* Each t in Txns is one transaction together with the backend thread that *)
(* runs it; the element t stands for its txn id, which the atomic counter  *)
(* next_txn_id makes unique.  Log records (EndTransaction waiting for a    *)
(* flush) are the business of the logging modules.                         *)
(***************************************************************************)
EXTENDS Integers

CONSTANTS
  Txns,            \* the transactions
  Base,            \* the BASE transaction, the first last_txn
  NoTxn            \* nullptr

ASSUME TxnAssumption == /\ Base \notin Txns
                        /\ NoTxn \notin Txns \cup {Base}

VARIABLES
  pc,              \* where the thread of each transaction is
  current_txn,     \* the Transaction object its code works on
  last_cid,        \* TransactionManager::last_cid
  last_txn,        \* TransactionManager::last_txn
  snapshot,        \* Transaction::last_cid of each object
  cid,             \* Transaction::cid
  ref_count,       \* Transaction::ref_count
  waiting_to_commit,  \* the objects whose flag of this name is set
  next,            \* Transaction::next
  alive,           \* the objects that are allocated
  txn_list,        \* local to CommitTransaction: the txns it has published
  next_txn,        \* local to CommitPendingTransactions: the walk's position
  dropping         \* object a destructor on this thread has yet to release

vars == <<pc, current_txn, last_cid, last_txn, snapshot, cid, ref_count,
          waiting_to_commit, next, alive, txn_list, next_txn, dropping>>

objVars == <<snapshot, cid, ref_count, waiting_to_commit, next, alive>>

INVALID_CID == 0
START_CID == 1
BASE_REF_COUNT == 1

Objects == Txns \cup {Base}

PCs == {"idle", "running", "modify", "first_cas", "set_waiting", "second_cas",
        "clear_waiting", "read_next", "check_waiting", "pending_cas",
        "end_txn", "drop_refs", "read_result", "done"}

-----------------------------------------------------------------------------
(* TransactionManager::TransactionManager: the BASE transaction, with the  *)
(* reference last_txn holds to it.                                         *)
Init ==
  /\ pc = [t \in Txns |-> "idle"]
  /\ current_txn = [t \in Txns |-> t]
  /\ last_cid = START_CID
  /\ last_txn = Base
  /\ snapshot = [x \in Objects |-> IF x = Base THEN START_CID ELSE INVALID_CID]
  /\ cid = [x \in Objects |-> IF x = Base THEN START_CID ELSE INVALID_CID]
  /\ ref_count = [x \in Objects |-> IF x = Base THEN BASE_REF_COUNT ELSE 0]
  /\ waiting_to_commit = {}
  /\ next = [x \in Objects |-> NoTxn]
  /\ alive = {Base}
  /\ txn_list = [t \in Txns |-> {}]
  /\ next_txn = [t \in Txns |-> NoTxn]
  /\ dropping = [t \in Txns |-> NoTxn]

Goto(t, from, to) ==
  /\ pc[t] = from
  /\ pc' = [pc EXCEPT ![t] = to]

(* Deleted objects that the code of some thread still points to.           *)
Stale == {current_txn[t] : t \in {u \in Txns : pc[u] \notin {"idle", "done"}}} \ alive

(* BeginTransaction takes the next txn id and the last published commit id *)
(* into a new object.  The allocator may place it where a deleted object   *)
(* was (r): a pointer to that one then points to the new transaction.      *)
BeginTransaction(t) ==
  /\ Goto(t, "idle", "running")
  /\ snapshot' = [snapshot EXCEPT ![t] = last_cid]
  /\ ref_count' = [ref_count EXCEPT ![t] = BASE_REF_COUNT]
  /\ alive' = alive \cup {t}
  /\ \E r \in Stale \cup {NoTxn} :
       current_txn' = [u \in Txns |-> IF current_txn[u] = r /\ u # t
                                        THEN t ELSE current_txn[u]]
  /\ UNCHANGED <<last_cid, last_txn, cid, waiting_to_commit, next, txn_list,
                 next_txn, dropping>>

(* Faulty variant: no reference is taken for the predecessor's next.       *)
FaultyBeginCommitPhaseOneRef(t) ==
  LET tmp == last_txn
      deleted == ref_count[tmp] = 1
  IN /\ Goto(t, "running", "modify")
     /\ next' = [next EXCEPT ![tmp] = t]
     /\ cid' = [cid EXCEPT ![t] = cid[tmp] + 1]
     /\ last_txn' = t
     /\ ref_count' = [ref_count EXCEPT ![tmp] = @ - 1,
                                       ![t] = @ + (IF deleted THEN 0 ELSE 1)]
     /\ alive' = IF deleted THEN alive \ {tmp} ELSE alive
     /\ UNCHANGED <<current_txn, last_cid, snapshot, waiting_to_commit,
                    txn_list, next_txn, dropping>>

(* BeginCommitPhase, atomic under txn_table_mutex.  The new tail gets one  *)
(* reference for its predecessor's next, one for last_txn; the old tail    *)
(* loses the one of last_txn, and if that was its last its destructor      *)
(* gives back the reference of its next, which is the new tail.            *)
BeginCommitPhase(t) ==
  LET tmp == last_txn
      deleted == ref_count[tmp] = 1
  IN /\ Goto(t, "running", "modify")
     /\ next' = [next EXCEPT ![tmp] = t]
     /\ cid' = [cid EXCEPT ![t] = cid[tmp] + 1]
     /\ last_txn' = t
     /\ ref_count' = [ref_count EXCEPT ![tmp] = @ - 1,
                                       ![t] = @ + (IF deleted THEN 1 ELSE 2)]
     /\ alive' = IF deleted THEN alive \ {tmp} ELSE alive
     /\ UNCHANGED <<current_txn, last_cid, snapshot, waiting_to_commit,
                    txn_list, next_txn, dropping>>

(* CommitModifications: the commit ids are written to the tuples (module   *)
(* TileGroup), then the txn is ready to be published.                      *)
CommitModifications(t) ==
  /\ Goto(t, "modify", "first_cas")
  /\ UNCHANGED <<current_txn, last_cid, last_txn, objVars, txn_list,
                 next_txn, dropping>>

(* atomic_cas(&last_cid, x->cid - 1, x->cid), true when it succeeds.       *)
CasLastCid(x) == last_cid = cid[x] - 1

(* A publication: x joins the committed list of the thread of t, and the   *)
(* walk goes on from x.                                                    *)
Publish(t, x) ==
  /\ last_cid' = cid[x]
  /\ txn_list' = [txn_list EXCEPT ![t] = @ \cup {x}]
  /\ next_txn' = [next_txn EXCEPT ![t] = x]

(* Faulty variant: last_cid is overwritten without comparing it first.     *)
FaultyFirstCasBlindStore(t) ==
  /\ Goto(t, "first_cas", "read_next")
  /\ Publish(t, current_txn[t])
  /\ UNCHANGED <<current_txn, last_txn, objVars, dropping>>

(* EndCommitPhase, first attempt.                                          *)
FirstCas(t) ==
  /\ \/ /\ Goto(t, "first_cas", "read_next")
        /\ CasLastCid(current_txn[t])
        /\ Publish(t, current_txn[t])
     \/ /\ Goto(t, "first_cas", "set_waiting")
        /\ ~CasLastCid(current_txn[t])
        /\ UNCHANGED <<last_cid, txn_list, next_txn>>
  /\ UNCHANGED <<current_txn, last_txn, objVars, dropping>>

(* Faulty variant: the transaction leaves without raising its flag.        *)
FaultySetWaitingNoFlag(t) ==
  /\ Goto(t, "set_waiting", "second_cas")
  /\ UNCHANGED <<current_txn, last_cid, last_txn, objVars, txn_list,
                 next_txn, dropping>>

SetWaiting(t) ==
  /\ Goto(t, "set_waiting", "second_cas")
  /\ waiting_to_commit' = waiting_to_commit \cup {current_txn[t]}
  /\ UNCHANGED <<current_txn, last_cid, last_txn, snapshot, cid, ref_count,
                 next, alive, txn_list, next_txn, dropping>>

(* Faulty variant: no second attempt after the flag is up.                 *)
FaultySecondCasSkipped(t) ==
  /\ Goto(t, "second_cas", "end_txn")
  /\ UNCHANGED <<current_txn, last_cid, last_txn, objVars, txn_list,
                 next_txn, dropping>>

(* EndCommitPhase, second attempt.  It reads txn->cid again.  A deleted    *)
(* object holds its old cid or what the allocator left there, and neither  *)
(* is last_cid + 1; an object placed at its address holds that one's cid.  *)
SecondCas(t) ==
  LET txn == current_txn[t]
      succeeds == txn \in alive /\ CasLastCid(txn)
  IN /\ \/ /\ Goto(t, "second_cas", "clear_waiting")
           /\ succeeds
           /\ Publish(t, txn)
        \/ /\ Goto(t, "second_cas", "end_txn")
           /\ ~succeeds
           /\ UNCHANGED <<last_cid, txn_list, next_txn>>
     /\ UNCHANGED <<current_txn, last_txn, objVars, dropping>>

ClearWaiting(t) ==
  /\ Goto(t, "clear_waiting", "read_next")
  /\ waiting_to_commit' = waiting_to_commit \ {current_txn[t]}
  /\ UNCHANGED <<current_txn, last_cid, last_txn, snapshot, cid, ref_count,
                 next, alive, txn_list, next_txn, dropping>>

(* CommitPendingTransactions: read the link, test the flag, try the CAS.   *)
ReadNext(t) ==
  /\ Goto(t, "read_next", "check_waiting")
  /\ next_txn' = [next_txn EXCEPT ![t] = next[next_txn[t]]]
  /\ UNCHANGED <<current_txn, last_cid, last_txn, objVars, txn_list, dropping>>

(* Faulty variant: the walk does not look at waiting_to_commit.            *)
FaultyNextIsWaitingNoFlag(t) == next_txn[t] # NoTxn

NextIsWaiting(t) == next_txn[t] # NoTxn /\ next_txn[t] \in waiting_to_commit

CheckWaiting(t) ==
  /\ \/ /\ Goto(t, "check_waiting", "pending_cas")
        /\ NextIsWaiting(t)
        /\ UNCHANGED next_txn
     \/ /\ Goto(t, "check_waiting", "end_txn")
        /\ ~NextIsWaiting(t)
        /\ next_txn' = [next_txn EXCEPT ![t] = NoTxn]
  /\ UNCHANGED <<current_txn, last_cid, last_txn, objVars, txn_list, dropping>>

PendingCas(t) ==
  /\ \/ /\ Goto(t, "pending_cas", "read_next")
        /\ CasLastCid(next_txn[t])
        /\ Publish(t, next_txn[t])
     \/ /\ Goto(t, "pending_cas", "end_txn")
        /\ ~CasLastCid(next_txn[t])
        /\ next_txn' = [next_txn EXCEPT ![t] = NoTxn]
        /\ UNCHANGED <<last_cid, txn_list>>
  /\ UNCHANGED <<current_txn, last_txn, objVars, dropping>>

(* AbortTransaction: the modifications are rolled back (TileGroup) and     *)
(* the thread's own reference is dropped after EndTransaction.             *)
AbortTransaction(t) ==
  /\ Goto(t, "running", "end_txn")
  /\ txn_list' = [txn_list EXCEPT ![t] = {t}]
  /\ UNCHANGED <<current_txn, last_cid, last_txn, objVars, next_txn, dropping>>

(* EndTransaction reads txn->txn_id for the END record.                    *)
EndTransaction(t) ==
  /\ Goto(t, "end_txn", "drop_refs")
  /\ UNCHANGED <<current_txn, last_cid, last_txn, objVars, txn_list,
                 next_txn, dropping>>

(* Faulty variant: the destructor does not release next.                   *)
FaultyDecrementRefCountNoChain(t, x) ==
  /\ ref_count' = [ref_count EXCEPT ![x] = @ - 1]
  /\ alive' = IF ref_count[x] = 1 THEN alive \ {x} ELSE alive
  /\ dropping' = [dropping EXCEPT ![t] = NoTxn]

(* DecrementRefCount on x by the thread of t.  At zero the object is       *)
(* deleted and its destructor goes on to the object x->next.               *)
DecrementRefCount(t, x) ==
  /\ ref_count' = [ref_count EXCEPT ![x] = @ - 1]
  /\ alive' = IF ref_count[x] = 1 THEN alive \ {x} ELSE alive
  /\ dropping' = [dropping EXCEPT ![t] = IF ref_count[x] = 1 THEN next[x] ELSE NoTxn]

(* The loop at the end of CommitTransaction, in commit order, and the      *)
(* chain of destructors it sets off; or the single drop of an abort.       *)
DropReference(t) ==
  /\ pc[t] = "drop_refs"
  /\ \/ /\ dropping[t] # NoTxn
        /\ DecrementRefCount(t, dropping[t])
        /\ UNCHANGED txn_list
     \/ /\ dropping[t] = NoTxn
        /\ \E x \in txn_list[t] :
             /\ \A y \in txn_list[t] : cid[x] <= cid[y]
             /\ DecrementRefCount(t, x)
             /\ txn_list' = [txn_list EXCEPT ![t] = @ \ {x}]
  /\ UNCHANGED <<pc, current_txn, last_cid, last_txn, snapshot, cid,
                 waiting_to_commit, next, next_txn>>

(* CommitTransaction or AbortTransaction returns ...                       *)
Returns(t, to) ==
  /\ Goto(t, "drop_refs", to)
  /\ dropping[t] = NoTxn
  /\ txn_list[t] = {}
  /\ UNCHANGED <<current_txn, last_cid, last_txn, objVars, txn_list,
                 next_txn, dropping>>

(* ... to DDLTransaction::ExecTransactionStmt: a COMMIT or ROLLBACK ...    *)
ExecTransactionStmt(t) == Returns(t, "done")

(* ... or to PlanExecutor::ExecutePlan, for a statement that is not in a   *)
(* transaction block, which then reads the transaction's result.           *)
ExecutePlan(t) == Returns(t, "read_result")

ReadResult(t) ==
  /\ Goto(t, "read_result", "done")
  /\ UNCHANGED <<current_txn, last_cid, last_txn, objVars, txn_list,
                 next_txn, dropping>>

-----------------------------------------------------------------------------
(* The steps of CommitTransaction after it has a commit id.                *)
EndCommitPhase(t) ==
  \/ FirstCas(t) \/ SetWaiting(t) \/ SecondCas(t) \/ ClearWaiting(t)
  \/ ReadNext(t) \/ CheckWaiting(t) \/ PendingCas(t)

Finish(t) ==
  \/ EndTransaction(t) \/ DropReference(t)
  \/ ExecTransactionStmt(t) \/ ExecutePlan(t) \/ ReadResult(t)

Step(t) ==
  \/ BeginTransaction(t) \/ BeginCommitPhase(t) \/ AbortTransaction(t)
  \/ CommitModifications(t) \/ EndCommitPhase(t) \/ Finish(t)

AllDone == (\A t \in Txns : pc[t] = "done") /\ UNCHANGED vars

Next == (\E t \in Txns : Step(t)) \/ AllDone

Spec == Init /\ [][Next]_vars

(* A thread that is inside CommitTransaction or AbortTransaction runs on:  *)
(* nothing in there waits for another thread.                              *)
Fairness ==
  \A t \in Txns : WF_vars(CommitModifications(t) \/ EndCommitPhase(t) \/ Finish(t))

-----------------------------------------------------------------------------
(* Types of the variables.                                                 *)
TypeOK ==
  /\ pc \in [Txns -> PCs]
  /\ current_txn \in [Txns -> Txns]
  /\ last_cid \in Nat
  /\ last_txn \in Objects
  /\ snapshot \in [Objects -> Nat]
  /\ cid \in [Objects -> Nat]
  /\ ref_count \in [Objects -> Int]
  /\ waiting_to_commit \in SUBSET Objects
  /\ next \in [Objects -> Txns \cup {NoTxn}]
  /\ alive \in SUBSET Objects
  /\ txn_list \in [Txns -> SUBSET Txns]
  /\ next_txn \in [Txns -> Txns \cup {NoTxn}]
  /\ dropping \in [Txns -> Txns \cup {NoTxn}]

(* No thread has come to work on another transaction's object because its  *)
(* own was deleted under it and the memory was given out again.            *)
NoReuse == \A t \in Txns : current_txn[t] = t

(* The behaviours in which it never happens, which are all behaviours of a *)
(* program that kept the object alive while its thread runs.               *)
FreshNext == Next /\ NoReuse'

FreshSpec == Init /\ [][FreshNext]_vars

FairFreshSpec == FreshSpec /\ Fairness

Committing(t) == cid[t] # INVALID_CID

(* The thread of t has finished CommitModifications.                       *)
Installed(t) == Committing(t) /\ pc[t] # "modify"

(* Every commit id that last_cid covers, and that snapshots taken by       *)
(* BeginTransaction therefore include, belongs to a transaction whose      *)
(* modifications are all in place.                                         *)
AllPublishedInstalled ==
  \A t \in Txns : Committing(t) /\ cid[t] <= last_cid => Installed(t)

(* The same as long as no object was reused under a thread (see            *)
(* OwnTxnAlive for what goes wrong then).                                  *)
PublishedInstalled == NoReuse => AllPublishedInstalled

(* A transaction that gave up publishing itself (EndCommitPhase's waiting  *)
(* list) and is next in line is not forgotten: its flag is up and some     *)
(* thread's walk of the list is about to look at it.                       *)
NotStranded ==
  NoReuse =>
    \A u \in Txns :
      ( /\ cid[u] = last_cid + 1
        /\ pc[u] \in {"end_txn", "drop_refs", "read_result", "done"} )
      => /\ u \in waiting_to_commit
         /\ \E t \in Txns :
              \/ pc[t] \in {"clear_waiting", "read_next"} /\ cid[next_txn[t]] = last_cid
              \/ pc[t] \in {"check_waiting", "pending_cas"} /\ next_txn[t] = u

(* The references to an object that ref_count is there to count.           *)
OwnRef(x) ==
  /\ x \in Txns
  /\ pc[x] = "running" \/ cid[x] > last_cid \/ \E t \in Txns : x \in txn_list[t]
LastRef(x) == x = last_txn
PredecessorRef(x) ==
  (\E p \in alive : next[p] = x) \/ (\E t \in Txns : dropping[t] = x)

One(b) == IF b THEN 1 ELSE 0

(* ref_count is exactly the number of holders of a reference (the commit   *)
(* in progress, last_txn, the predecessor in the list), and an object is   *)
(* deleted when and only when nobody holds one.                            *)
RefCountExact ==
  NoReuse =>
    \A x \in Objects :
      /\ ref_count[x] = One(OwnRef(x)) + One(LastRef(x)) + One(PredecessorRef(x))
      /\ x \in alive <=> ref_count[x] > 0

(* CommitPendingTransactions and the final loop of CommitTransaction only  *)
(* ever touch objects that are not deleted, whoever else commits meanwhile.*)
WalkAlive ==
  NoReuse =>
    \A t \in Txns :
      /\ txn_list[t] \subseteq alive
      /\ pc[t] \in {"read_next", "pending_cas"} => next_txn[t] \in alive
      /\ pc[t] = "check_waiting" => next_txn[t] \in alive \cup {NoTxn}

(* Once every thread has returned only the tail of the list is left: no    *)
(* Transaction object leaks, whichever thread published whom.              *)
NoLeak ==
  (NoReuse /\ \A t \in Txns : pc[t] = "done") => alive = {last_txn}

(* A thread that still dereferences its own transaction (the second CAS    *)
(* reads txn->cid, EndTransaction reads txn->txn_id) holds a reference     *)
(* that keeps the object from being deleted.  This does not hold: from the *)
(* moment its waiting flag is up another thread may publish it and drop    *)
(* its last reference.                                                     *)
OwnTxnAlive ==
  \A t \in Txns : pc[t] \in {"second_cas", "end_txn"} => current_txn[t] = t /\ t \in alive

(* PlanExecutor::ExecutePlan reads txn->GetResult() from a live object.    *)
(* This does not hold: the commit has dropped the reference before.        *)
ResultAlive ==
  \A t \in Txns : pc[t] = "read_result" => current_txn[t] = t /\ t \in alive

(* Every transaction that took a commit id is eventually covered by        *)
(* last_cid, even if its own thread gave up and left it to another one.    *)
EventuallyPublished ==
  \A t \in Txns : Committing(t) ~> cid[t] <= last_cid

(* How the state of the protocol is read in terms of CommitOrder.          *)
phaseBar ==
  [t \in Txns |-> CASE pc[t] \in {"idle", "running"} -> pc[t]
                    [] pc[t] = "modify" -> "installing"
                    [] OTHER -> IF Committing(t) THEN "installed" ELSE "aborted"]

Abstract == INSTANCE CommitOrder
              WITH phase <- phaseBar, commitId <- [t \in Txns |-> cid[t]],
                   lastId <- cid[last_txn], published <- last_cid,
                   snapshot <- [t \in Txns |-> snapshot[t]]

(* Commit ids are handed out in sequence, a transaction is published only  *)
(* after it is installed and only in the order of the ids, and a snapshot  *)
(* is what was published when the transaction began.                       *)
ImplementsCommitOrder == Abstract!Spec
=============================================================================
