----------------------------- MODULE PelotonLog -----------------------------
(***************************************************************************)
(* Write-behind logging: the flush and the recovery of                     *)
(* logging/loggers/peloton_frontend_logger.cpp, with the pool of records   *)
(* of logging/records/log_record_pool.cpp.                                 *)
(*                                                                         *)
(* Tuples and their headers are in non-volatile memory; a header has two   *)
(* commit marks, for the insert and for the delete of the tuple.  The log  *)
(* has only the locations that the transactions of a batch touched.  A     *)
(* batch is flushed in four syncs: the tuples, the records with a COMMIT   *)
(* record, the marks, a DONE record.  After a crash a log that ends with   *)
(* COMMIT has the locations whose marks may be missing.                    *)
(*                                                                         *)
(* A memory word that has not been synced may or may not survive a crash.  *)
(* A transaction logs from a thread of its own and waits for its records;  *)
(* the waiting itself is WriteAheadLog's.  A tile group has one slot, so a *)
(* location is the id of its tile group.                                   *)
(***************************************************************************)
EXTENDS Naturals, Sequences, SequencesExt

CONSTANTS
  Txns,
  MaxOps,           \* bound: operations of a transaction
  MaxOid,           \* bound: tile groups
  INVALID_OID,      \* the greatest oid_t
  MaxCrashes        \* bound: crashes

ASSUME PelotonLogAssumption ==
  /\ MaxOps \in Nat /\ MaxCrashes \in Nat
  /\ INVALID_OID \in Nat /\ MaxOid \in 1 .. INVALID_OID - 1

VARIABLES
  oid, max_oid,
  tuples,           \* locations that hold a tuple
  synced_tuples,    \* those that are known to survive a crash
  insert_commit, delete_commit,   \* locations with the mark
  synced_marks,     \* <<"insert" or "delete", location>> known to survive
  status, inserted, deleted, operations,
  ended, acked,     \* transactions that have logged END, that need not wait
  queue,            \* the local queue of each transaction's backend
  wait_for_flushing,
  global_queue,
  pool,             \* LogRecordPool: the records of each transaction
  listed,           \* the transactions that have a list in the pool
  frontend,         \* where the frontend thread is
  todo,             \* backends that it has not been to in this round
  committed_txn_list, not_committed_txn_list, modified_tile_group_set,
  tile_group_headers,   \* locations whose headers SYNC 3 is about
  file, buffer,     \* the log, and what is written and not yet synced
  mode, crashes

nvmVars == <<tuples, synced_tuples, insert_commit, delete_commit, synced_marks>>
txnVars == <<status, inserted, deleted, operations, ended, acked>>
queueVars == <<queue, wait_for_flushing>>
batchVars == <<global_queue, pool, listed, todo, committed_txn_list,
               not_committed_txn_list, modified_tile_group_set, tile_group_headers>>
fileVars == <<file, buffer>>
vars == <<oid, max_oid, nvmVars, txnVars, queueVars, batchVars, frontend,
          fileVars, mode, crashes>>

\* The tuple that is there, committed and synced, at first.
Loaded == 1

Locations == 1 .. MaxOid

TransactionRecord(type, x) == [type |-> type, txn |-> x, insert |-> INVALID_OID, delete |-> INVALID_OID]
TupleRecord(type, t, ins, del) == [type |-> type, txn |-> t, insert |-> ins, delete |-> del]

IsTuple(r) == r.type \in {"INSERT", "DELETE", "UPDATE"}

(* A running system in LOGGING mode; nothing has been logged.              *)
Init ==
  /\ oid = Loaded /\ max_oid = INVALID_OID
  /\ tuples = {Loaded} /\ synced_tuples = {Loaded}
  /\ insert_commit = {Loaded} /\ delete_commit = {}
  /\ synced_marks = {<<"insert", Loaded>>}
  /\ status = [t \in Txns |-> "idle"]
  /\ inserted = [t \in Txns |-> {}] /\ deleted = [t \in Txns |-> {}]
  /\ operations = [t \in Txns |-> 0]
  /\ ended = {} /\ acked = {}
  /\ queue = [t \in Txns |-> <<>>] /\ wait_for_flushing = {}
  /\ global_queue = <<>> /\ pool = [t \in Txns |-> <<>>] /\ listed = {}
  /\ todo = Txns
  /\ committed_txn_list = <<>> /\ not_committed_txn_list = {}
  /\ modified_tile_group_set = {} /\ tile_group_headers = {}
  /\ frontend = "collect"
  /\ file = <<>> /\ buffer = <<>>
  /\ mode = "logging" /\ crashes = 0

-----------------------------------------------------------------------------
(* Transactions: what they do to the tuples is TileGroup's and             *)
(* DataTable's, here are the records they log on the way.                  *)
Log(t, r) == queue' = [queue EXCEPT ![t] = Append(@, r)]

\* In this model transactions do not go on after a crash.
BeginTransaction(t) ==
  /\ status[t] = "idle" /\ crashes = 0
  /\ status' = [status EXCEPT ![t] = "active"]
  /\ Log(t, TransactionRecord("BEGIN", t))
  /\ UNCHANGED <<oid, max_oid, nvmVars, inserted, deleted, operations, ended, acked,
                 wait_for_flushing, batchVars, frontend, fileVars, mode, crashes>>

Committed == {t \in Txns : status[t] = "committed"}
Unfinished == {t \in Txns : status[t] \in {"active", "failed"}}

\* Tuples that t may find: committed ones and its own.
Found(t) ==
  ({Loaded} \cup UNION {inserted[u] : u \in Committed \cup {t}})
    \ UNION {deleted[u] : u \in Committed \cup {t}}

Latched(t) == UNION {deleted[u] : u \in Unfinished \ {t}}

Operation(t) ==
  /\ status[t] = "active" /\ mode = "logging" /\ operations[t] < MaxOps
  /\ operations' = [operations EXCEPT ![t] = @ + 1]
  /\ UNCHANGED <<max_oid, synced_tuples, insert_commit, delete_commit, synced_marks,
                 ended, acked, wait_for_flushing, batchVars, frontend, fileVars, mode, crashes>>

\* A tuple in a tile group of its own.
NewTuple(t) ==
  /\ oid < MaxOid
  /\ oid' = oid + 1
  /\ tuples' = tuples \cup {oid + 1}
  /\ inserted' = [inserted EXCEPT ![t] = @ \cup {oid + 1}]

(* InsertExecutor without a child, one tuple: an insert that an index      *)
(* refuses fails the transaction.  (With a child it logs nothing, see      *)
(* InsertsLogged in AriesRecovery; such inserts are left out here.)        *)
Insert(t) ==
  /\ Operation(t)
  /\ \/ /\ NewTuple(t)
        /\ Log(t, TupleRecord("INSERT", t, oid + 1, INVALID_OID))
        /\ UNCHANGED status
     \/ /\ status' = [status EXCEPT ![t] = "failed"]
        /\ UNCHANGED <<oid, tuples, inserted, queue>>
  /\ UNCHANGED deleted

(* DeleteExecutor logs the record before it tries; an attempt that fails   *)
(* fails the transaction.                                                  *)
Delete(t) ==
  /\ Operation(t)
  /\ \E l \in Found(t) :
       /\ Log(t, TupleRecord("DELETE", t, INVALID_OID, l))
       /\ IF l \in Latched(t)
            THEN status' = [status EXCEPT ![t] = "failed"] /\ UNCHANGED deleted
            ELSE deleted' = [deleted EXCEPT ![t] = @ \cup {l}] /\ UNCHANGED status
  /\ UNCHANGED <<oid, tuples, inserted>>

(* UpdateExecutor logs one record, after the delete and the insert, each   *)
(* of which may fail.                                                      *)
Update(t) ==
  /\ Operation(t)
  /\ \E l \in Found(t) :
       \/ /\ l \notin Latched(t) /\ NewTuple(t)
          /\ deleted' = [deleted EXCEPT ![t] = @ \cup {l}]
          /\ Log(t, TupleRecord("UPDATE", t, oid + 1, l))
          /\ UNCHANGED status
       \/ /\ deleted' = IF l \in Latched(t) THEN deleted
                                            ELSE [deleted EXCEPT ![t] = @ \cup {l}]
          /\ status' = [status EXCEPT ![t] = "failed"]
          /\ UNCHANGED <<oid, tuples, inserted, queue>>

\* CommitModifications or AbortTransaction.
Finish(t, from, to, type) ==
  /\ status[t] \in from /\ mode = "logging"
  /\ status' = [status EXCEPT ![t] = to]
  /\ Log(t, TransactionRecord(type, t))
  /\ operations' = [operations EXCEPT ![t] = 0]
  /\ UNCHANGED <<oid, max_oid, nvmVars, inserted, deleted, ended, acked,
                 wait_for_flushing, batchVars, frontend, fileVars, mode, crashes>>

CommitTransaction(t) == Finish(t, {"active"}, "committed", "COMMIT")

AbortTransaction(t) == Finish(t, {"active", "failed"}, "aborted", "ABORT")

EndTransaction(t) ==
  /\ status[t] \in {"committed", "aborted"} /\ t \notin ended /\ mode = "logging"
  /\ ended' = ended \cup {t}
  /\ Log(t, TransactionRecord("END", t))
  /\ UNCHANGED <<oid, max_oid, nvmVars, status, inserted, deleted, operations, acked,
                 wait_for_flushing, batchVars, frontend, fileVars, mode, crashes>>

WaitForFlushing(t) ==
  /\ t \in ended \ acked /\ mode = "logging"
  /\ t \notin wait_for_flushing /\ queue[t] = <<>>
  /\ acked' = acked \cup {t}
  /\ UNCHANGED <<oid, max_oid, nvmVars, status, inserted, deleted, operations, ended,
                 queueVars, batchVars, frontend, fileVars, mode, crashes>>

-----------------------------------------------------------------------------
(* Faulty variant: the backend is not made to wait for the flush of what   *)
(* has been taken from it.                                                 *)
FaultyCollectLogRecords(t) ==
  /\ frontend = "collect" /\ mode = "logging"
  /\ t \in todo
  /\ todo' = todo \ {t}
  /\ global_queue' = global_queue \o queue[t]
  /\ queue' = [queue EXCEPT ![t] = <<>>]
  /\ UNCHANGED <<oid, max_oid, nvmVars, txnVars, wait_for_flushing, pool, listed,
                 committed_txn_list, not_committed_txn_list, modified_tile_group_set,
                 tile_group_headers, frontend, fileVars, mode, crashes>>

(* The frontend.  CollectLogRecordsFromBackendLoggers, one backend.        *)
CollectLogRecords(t) ==
  /\ frontend = "collect" /\ mode = "logging"
  /\ t \in todo
  /\ todo' = todo \ {t}
  /\ global_queue' = global_queue \o queue[t]
  /\ queue' = [queue EXCEPT ![t] = <<>>]
  /\ wait_for_flushing' = IF queue[t] = <<>> THEN wait_for_flushing
                                             ELSE wait_for_flushing \cup {t}
  /\ UNCHANGED <<oid, max_oid, nvmVars, txnVars, pool, listed, committed_txn_list,
                 not_committed_txn_list, modified_tile_group_set, tile_group_headers,
                 frontend, fileVars, mode, crashes>>

TxnsOf(type) == [i \in DOMAIN SelectSeq(global_queue, LAMBDA r : r.type = type) |->
                   SelectSeq(global_queue, LAMBDA r : r.type = type)[i].txn]

FrontendStep(from) ==
  /\ frontend = from /\ mode = "logging"
  /\ UNCHANGED <<oid, txnVars, queue, mode, crashes>>

(* FlushLogRecords sorts the records: BEGIN makes a list in the pool, a    *)
(* tuple record goes to the list of its transaction.  If nothing has been  *)
(* committed, that is all.                                                 *)
SortLogRecords ==
  /\ FrontendStep("collect")
  /\ todo = {}
  /\ listed' = listed \cup ToSet(TxnsOf("BEGIN"))
  /\ pool' = [t \in Txns |-> IF t \in listed'
                THEN pool[t] \o SelectSeq(global_queue, LAMBDA r : IsTuple(r) /\ r.txn = t)
                ELSE <<>>]
  /\ committed_txn_list' = TxnsOf("COMMIT")
  /\ not_committed_txn_list' = ToSet(TxnsOf("END"))
  /\ modified_tile_group_set' =
       {r.insert : r \in {q \in ToSet(global_queue) : IsTuple(q) /\ q.txn \in listed'}}
         \ {INVALID_OID}
  /\ global_queue' = <<>>
  /\ frontend' = IF TxnsOf("COMMIT") = <<>> THEN "notify" ELSE "sync_tuples"
  /\ UNCHANGED <<max_oid, nvmVars, wait_for_flushing, todo, tile_group_headers, fileVars>>

\* SYNC 1.
SyncTileGroups ==
  /\ FrontendStep("sync_tuples")
  /\ synced_tuples' = synced_tuples \cup modified_tile_group_set
  /\ frontend' = "write"
  /\ UNCHANGED <<max_oid, tuples, insert_commit, delete_commit, synced_marks,
                 wait_for_flushing, batchVars, fileVars>>

BatchRecords == FlattenSeq([i \in DOMAIN committed_txn_list |-> pool[committed_txn_list[i]]])

(* SYNC 2: the records of the committed transactions, and a COMMIT record  *)
(* that has their number in the place of a transaction id ...              *)
WriteLogRecords ==
  /\ FrontendStep("write")
  /\ buffer' = Append(BatchRecords, TransactionRecord("COMMIT", Len(BatchRecords)))
  /\ frontend' = "sync_log"
  /\ UNCHANGED <<max_oid, nvmVars, wait_for_flushing, batchVars, file>>

(* Faulty variant: the file is not flushed before the marks are set.       *)
FaultySyncLog ==
  /\ FrontendStep("sync_log")
  /\ frontend' = "toggle"
  /\ UNCHANGED <<max_oid, nvmVars, wait_for_flushing, batchVars, fileVars>>

\* ... are flushed and synced.
SyncLog ==
  /\ FrontendStep("sync_log")
  /\ file' = file \o buffer
  /\ buffer' = <<>>
  /\ frontend' = "toggle"
  /\ UNCHANGED <<max_oid, nvmVars, wait_for_flushing, batchVars>>

InsertLocations(records) == {r.insert : r \in ToSet(records)} \ {INVALID_OID}
DeleteLocations(records) == {r.delete : r \in ToSet(records)} \ {INVALID_OID}

(* SetInsertCommitMark and SetDeleteCommitMark for the locations that each *)
(* type of record has.  max_oid is meant to become the greatest id of a    *)
(* tile group.                                                             *)
SetCommitMarks(records) ==
  LET blocks == InsertLocations(records) \cup DeleteLocations(records) IN
  /\ insert_commit' = insert_commit \cup InsertLocations(records)
  /\ delete_commit' = delete_commit \cup DeleteLocations(records)
  /\ max_oid' = Max({max_oid} \cup blocks)

\* SYNC 3: ToggleCommitMarks, which also drops the lists ...
ToggleCommitMarks ==
  /\ FrontendStep("toggle")
  /\ SetCommitMarks(BatchRecords)
  /\ tile_group_headers' = InsertLocations(BatchRecords) \cup DeleteLocations(BatchRecords)
  /\ listed' = listed \ ToSet(committed_txn_list)
  /\ pool' = [t \in Txns |-> IF t \in listed' THEN pool[t] ELSE <<>>]
  /\ frontend' = "sync_headers"
  /\ UNCHANGED <<tuples, synced_tuples, synced_marks, wait_for_flushing, global_queue, todo,
                 committed_txn_list, not_committed_txn_list, modified_tile_group_set, fileVars>>

Marks == ({"insert"} \X insert_commit) \cup ({"delete"} \X delete_commit)

(* Faulty variant: the headers are left to the caches.                     *)
FaultySyncTileGroupHeaders ==
  /\ FrontendStep("sync_headers")
  /\ frontend' = "done"
  /\ UNCHANGED <<max_oid, nvmVars, wait_for_flushing, batchVars, fileVars>>

\* ... and then the sync of the headers.
SyncTileGroupHeaders ==
  /\ FrontendStep("sync_headers")
  /\ synced_marks' = synced_marks \cup {m \in Marks : m[2] \in tile_group_headers}
  /\ frontend' = "done"
  /\ UNCHANGED <<max_oid, tuples, synced_tuples, insert_commit, delete_commit,
                 wait_for_flushing, batchVars, fileVars>>

\* SYNC 4.
WriteDone ==
  /\ FrontendStep("done")
  /\ file' = Append(file, TransactionRecord("DONE", 0))
  /\ frontend' = "notify"
  /\ UNCHANGED <<max_oid, nvmVars, wait_for_flushing, batchVars, buffer>>

(* Faulty variant: the lists of aborted transactions stay.                 *)
FaultyNotify ==
  /\ FrontendStep("notify")
  /\ wait_for_flushing' = {}
  /\ todo' = Txns
  /\ committed_txn_list' = <<>> /\ not_committed_txn_list' = {}
  /\ modified_tile_group_set' = {} /\ tile_group_headers' = {}
  /\ frontend' = "collect"
  /\ UNCHANGED <<max_oid, nvmVars, global_queue, pool, listed, fileVars>>

\* The lists of transactions that have ended are dropped and the backends
\* notified.
Notify ==
  /\ FrontendStep("notify")
  /\ listed' = listed \ not_committed_txn_list
  /\ pool' = [t \in Txns |-> IF t \in listed' THEN pool[t] ELSE <<>>]
  /\ wait_for_flushing' = {}
  /\ todo' = Txns
  /\ committed_txn_list' = <<>> /\ not_committed_txn_list' = {}
  /\ modified_tile_group_set' = {} /\ tile_group_headers' = {}
  /\ frontend' = "collect"
  /\ UNCHANGED <<max_oid, nvmVars, global_queue, fileVars>>

-----------------------------------------------------------------------------
\* What is left of a set of written words of which `synced` are safe.
Surviving(written, synced) == {synced \cup s : s \in SUBSET (written \ synced)}

(* The machine stops.  The log keeps what was synced and some of what was  *)
(* written after it.                                                       *)
Crash ==
  /\ mode # "down" /\ crashes < MaxCrashes
  /\ crashes' = crashes + 1
  /\ mode' = "down"
  /\ \E n \in 0 .. Len(buffer) : file' = file \o SubSeq(buffer, 1, n)
  /\ buffer' = <<>>
  /\ \E survivors \in Surviving(tuples, synced_tuples) :
       tuples' = survivors /\ synced_tuples' = survivors
  /\ \E survivors \in Surviving(Marks, synced_marks) :
       /\ synced_marks' = survivors
       /\ insert_commit' = {m[2] : m \in {s \in survivors : s[1] = "insert"}}
       /\ delete_commit' = {m[2] : m \in {s \in survivors : s[1] = "delete"}}
  /\ status' = [t \in Txns |-> IF t \in Unfinished THEN "lost" ELSE status[t]]
  /\ queue' = [t \in Txns |-> <<>>] /\ wait_for_flushing' = {}
  /\ global_queue' = <<>> /\ pool' = [t \in Txns |-> <<>>] /\ listed' = {}
  /\ todo' = Txns
  /\ committed_txn_list' = <<>> /\ not_committed_txn_list' = {}
  /\ modified_tile_group_set' = {} /\ tile_group_headers' = {}
  /\ frontend' = "recover"
  /\ oid' = 0 /\ max_oid' = INVALID_OID
  /\ UNCHANGED <<inserted, deleted, operations, ended, acked>>

NeedRecovery == file # <<>> /\ Last(file).type = "COMMIT"

(* Faulty variant: the COMMIT record itself is not counted when the file   *)
(* is rewound.                                                             *)
FaultyReplayed ==
  LET n == Last(file).txn IN SubSeq(file, Len(file) - n + 1, Len(file))

(* The records that DoRecovery reads: NeedRecovery rewinds the file by the *)
(* COMMIT record and as many tuple records as it says.                     *)
Replayed ==
  LET n == Last(file).txn IN SubSeq(file, Len(file) - n, Len(file))

(* DoRecovery sets the marks again ...                                     *)
DoRecovery ==
  /\ mode = "down" /\ frontend = "recover"
  /\ \/ /\ NeedRecovery
        /\ SetCommitMarks(SelectSeq(Replayed, IsTuple))
        /\ frontend' = "recovery_done"
        /\ UNCHANGED <<oid, mode>>
     \/ /\ ~NeedRecovery
        /\ mode' = "recovered"
        /\ oid' = IF file = <<>> THEN oid ELSE max_oid
        /\ UNCHANGED <<insert_commit, delete_commit, max_oid, frontend>>
  /\ UNCHANGED <<tuples, synced_tuples, synced_marks, txnVars, queueVars, batchVars,
                 fileVars, crashes>>

(* ... and says so in the log; SetNextOid.                                 *)
RecoveryDone ==
  /\ mode = "down" /\ frontend = "recovery_done"
  /\ file' = Append(file, TransactionRecord("DONE", 0))
  /\ mode' = "recovered"
  /\ oid' = max_oid
  /\ UNCHANGED <<max_oid, nvmVars, txnVars, queueVars, batchVars, frontend, buffer, crashes>>

-----------------------------------------------------------------------------
Txn(t) ==
  \/ BeginTransaction(t) \/ Insert(t) \/ Delete(t) \/ Update(t)
  \/ CommitTransaction(t) \/ AbortTransaction(t) \/ EndTransaction(t) \/ WaitForFlushing(t)

Frontend ==
  \/ (\E t \in Txns : CollectLogRecords(t)) \/ SortLogRecords
  \/ SyncTileGroups \/ WriteLogRecords \/ SyncLog
  \/ ToggleCommitMarks \/ SyncTileGroupHeaders \/ WriteDone \/ Notify
  \/ DoRecovery \/ RecoveryDone

Next == (\E t \in Txns : Txn(t)) \/ Frontend \/ Crash

Spec == Init /\ [][Next]_vars

-----------------------------------------------------------------------------
(* Types of the variables; marks are set on tuples of the table only.      *)
TypeOK ==
  /\ oid \in 0 .. INVALID_OID /\ max_oid \in 0 .. INVALID_OID
  /\ synced_tuples \subseteq tuples /\ tuples \subseteq Locations
  /\ insert_commit \subseteq Locations /\ delete_commit \subseteq Locations
  /\ synced_marks \subseteq Marks
  /\ status \in [Txns -> {"idle", "active", "failed", "committed", "aborted", "lost"}]
  /\ acked \subseteq ended /\ ended \subseteq Txns
  /\ listed \subseteq Txns /\ \A t \in Txns \ listed : pool[t] = <<>>

MarksOf(t) == ({"insert"} \X inserted[t]) \cup ({"delete"} \X deleted[t])

\* The batch that ends with the COMMIT record at c.
BatchAt(c) == SubSeq(file, c - file[c].txn, c - 1)

(* A transaction is in the log when a batch that has its COMMIT record has *)
(* all its locations.                                                      *)
InBatch(t, c) ==
  /\ file[c].type = "COMMIT"
  /\ inserted[t] \subseteq InsertLocations(BatchAt(c))
  /\ deleted[t] \subseteq DeleteLocations(BatchAt(c))

InLog == {t \in Committed : \E c \in DOMAIN file : InBatch(t, c)}

LoggedMarks == {<<"insert", Loaded>>} \cup UNION {MarksOf(t) : t \in InLog}

(* No tuple is marked before the log says so: a mark that a reader, or the *)
(* system after a crash, may see is that of a committed transaction all of *)
(* whose locations are in the log (SYNC 2 before SYNC 3).                  *)
MarkedLogged == Marks \subseteq LoggedMarks

Safe(t) ==
  MarksOf(t) \subseteq synced_marks \/ (NeedRecovery /\ InBatch(t, Len(file)))

(* At any time before recovery has ended, the marks of a transaction in    *)
(* the log are safe, or the log ends with the COMMIT record of its batch,  *)
(* so that recovery will set them (SYNC 3 before SYNC 4).                  *)
LoggedRecoverable == mode # "recovered" => \A t \in InLog : Safe(t)

(* Synchronous commit: when the wait of a committed transaction is over,   *)
(* it is in the log and its marks are safe, for ever.                      *)
AckedSynced ==
  \A t \in acked \cap Committed :
    MarksOf(t) # {} => t \in InLog /\ MarksOf(t) \subseteq synced_marks

(* Recovery is exact: once it is over, the marks are those of the         *)
(* transactions in the log, wherever the machine stopped and whatever was  *)
(* left of the caches.                                                     *)
Recovered == mode = "recovered" => Marks = LoggedMarks

(* The pool does not grow: a transaction whose END record the frontend has *)
(* dealt with has no list there.                                           *)
ListsDropped ==
  frontend = "collect" /\ mode = "logging" =>
    \A t \in ended \cap listed :
      queue[t] # <<>> \/ \E r \in ToSet(global_queue) : r.txn = t

(* What SYNC 1 is for: the tuples of a transaction that is in the log are  *)
(* safe.  This does not hold: a tuple whose record came in an earlier      *)
(* batch than its COMMIT is not synced, as modified_tile_group_set is      *)
(* local to a call of FlushLogRecords.                                     *)
CommittedSynced ==
  \A t \in InLog : inserted[t] \subseteq synced_tuples

(* LoggedRecoverable after recovery.  This does not hold: DoRecovery       *)
(* writes the DONE record without a sync of the headers, and a second      *)
(* crash may lose marks that have been seen.                               *)
RecoveredSafe == \A t \in InLog : Safe(t)

(* "After finishing recovery, set the next oid with maximum oid observed   *)
(* during the recovery": the next id is that of no tile group.  This does  *)
(* not hold: max_oid begins at INVALID_OID, the greatest oid_t.            *)
NextOidRestored ==
  mode = "recovered" => (oid + 1) % (INVALID_OID + 1) \notin tuples
=============================================================================
