---------------------------- MODULE WriteAheadLog ----------------------------
(***************************************************************************)
(* The loggers: logging/backend_logger.cpp, logging/frontend_logger.cpp,   *)
(* the flush of logging/loggers/aries_frontend_logger.cpp and the status   *)
(* of logging/log_manager.cpp that steers them.                            *)
(*                                                                         *)
(* A backend thread appends records to its local queue.  The frontend      *)
(* thread goes round the registered backends, moves what it finds in their *)
(* queues to the global queue, writes and syncs the file, and notifies the *)
(* backends.  With synchronous commit a backend waits, after the last      *)
(* record of a transaction, until its records are flushed.                 *)
(*                                                                         *)
(* A record is <<backend, number>>: what is in it does not matter here.    *)
(* Records are appended to and removed from a local queue in order, so the *)
(* queue of b is the records truncated[b] + 1 .. logged[b].                *)
(***************************************************************************)
EXTENDS Naturals, Sequences

CONSTANTS
  Backends,
  MaxRecords,       \* bound: records that a backend logs
  MayTerminate,     \* whether EndLogging is called
  MayFail           \* whether the file system may fail

ASSUME WriteAheadLogAssumption ==
  /\ MaxRecords \in Nat
  /\ MayTerminate \in BOOLEAN /\ MayFail \in BOOLEAN

VARIABLES
  logging_status,
  logged,
  truncated,
  wait_for_flushing,  \* backends whose flag is up
  backend_loggers,    \* the registered backends, in the order of registration
  pc,                 \* where each backend thread is
  frontend,           \* where the frontend thread is
  round,              \* whether this is the last round, in TERMINATE mode
  visit,              \* its position in backend_loggers
  local_queue_size,   \* the size it has read there
  global_queue,
  file,
  lost                \* records dropped by a failed write

backendVars == <<logged, pc>>
queueVars == <<truncated, wait_for_flushing>>
frontendVars == <<frontend, round, visit, local_queue_size>>
fileVars == <<global_queue, file, lost>>
vars == <<logging_status, backend_loggers, backendVars, queueVars, frontendVars, fileVars>>

GetLocalQueueSize(b) == logged[b] - truncated[b]

Connected(b) == \E i \in 1 .. Len(backend_loggers) : backend_loggers[i] = b

\* backend_logger_mutex is held for a whole round of collecting or notifying.
BackendLoggerMutexFree == frontend \notin {"collect", "truncate", "notify"}

Init ==
  /\ logging_status = "LOGGING"
  /\ logged = [b \in Backends |-> 0]
  /\ truncated = [b \in Backends |-> 0]
  /\ wait_for_flushing = {}
  /\ backend_loggers = <<>>
  /\ pc = [b \in Backends |-> "running"]
  /\ frontend = "loop"
  /\ round = "logging"
  /\ visit = 1
  /\ local_queue_size = 0
  /\ global_queue = <<>>
  /\ file = <<>>
  /\ lost = {}

Goto(b, from, to) ==
  /\ pc[b] = from
  /\ pc' = [pc EXCEPT ![b] = to]

-----------------------------------------------------------------------------
(* Backends.  The transaction manager and the executors check the mode,    *)
(* get their logger, which registers it, and log a record.                 *)
IsInLoggingMode(b) ==
  /\ logging_status = "LOGGING"
  /\ logged[b] < MaxRecords
  /\ pc[b] \in {"running", "flushed"}
  /\ pc' = [pc EXCEPT ![b] = "get_logger"]
  /\ UNCHANGED <<logging_status, backend_loggers, logged, queueVars, frontendVars, fileVars>>

GetBackendLogger(b) ==
  /\ Goto(b, "get_logger", "log")
  /\ \/ Connected(b) /\ UNCHANGED backend_loggers
     \/ /\ ~Connected(b) /\ BackendLoggerMutexFree
        /\ backend_loggers' = Append(backend_loggers, b)
  /\ UNCHANGED <<logging_status, logged, queueVars, frontendVars, fileVars>>

Log(b, to) ==
  /\ Goto(b, "log", to)
  /\ logged' = [logged EXCEPT ![b] = @ + 1]
  /\ UNCHANGED <<logging_status, backend_loggers, queueVars, frontendVars, fileVars>>

\* A record in the middle of a transaction, or any with asynchronous commit.
LogRecord(b) == Log(b, "running")

\* TransactionManager::EndTransaction: the last record, then WaitForFlushing.
EndTransaction(b) == Log(b, "check")

IsWaitingForFlushing(b) == b \in wait_for_flushing \/ GetLocalQueueSize(b) > 0

\* The check and the wait are under flush_notify_mutex, which the frontend
\* takes to change what is checked.
WaitForFlushing(b) ==
  /\ \/ IsWaitingForFlushing(b) /\ Goto(b, "check", "asleep")
     \/ ~IsWaitingForFlushing(b) /\ Goto(b, "check", "flushed")
  /\ UNCHANGED <<logging_status, backend_loggers, logged, queueVars, frontendVars, fileVars>>

EraseBackendLogger(b) ==
  \E offset \in 1 .. Len(backend_loggers) :
    /\ backend_loggers[offset] = b
    /\ backend_loggers' = SubSeq(backend_loggers, 1, offset - 1)
                           \o SubSeq(backend_loggers, offset + 1, Len(backend_loggers))

\* Called by a thread that has waited for its records and leaves.
RemoveBackendLogger(b) ==
  /\ pc[b] = "flushed"
  /\ BackendLoggerMutexFree
  /\ EraseBackendLogger(b)
  /\ UNCHANGED <<logging_status, backendVars, queueVars, frontendVars, fileVars>>

-----------------------------------------------------------------------------
(* The frontend's main loop.                                               *)
FrontendGoto(from, to) ==
  /\ frontend = from
  /\ frontend' = to

\* The head of the loop: one more round, the last one unless in LOGGING mode.
MainLoop ==
  /\ FrontendGoto("loop", "collect")
  /\ round' = IF logging_status = "LOGGING" THEN "logging" ELSE "last"
  /\ visit' = 1
  /\ UNCHANGED <<logging_status, backend_loggers, backendVars, queueVars, local_queue_size, fileVars>>

ReadLocalQueueSize ==
  /\ FrontendGoto("collect", "truncate")
  /\ visit <= Len(backend_loggers)
  /\ local_queue_size' = GetLocalQueueSize(backend_loggers[visit])
  /\ UNCHANGED <<logging_status, backend_loggers, backendVars, queueVars, round, visit, fileVars>>

LocalQueue(b, n) == [i \in 1 .. n |-> <<b, truncated[b] + i>>]

\* Faulty variant: the flag stays down while the records are on their way.
FaultyTruncateLocalQueueNoFlag ==
  LET b == backend_loggers[visit]
  IN /\ FrontendGoto("truncate", "collect")
     /\ local_queue_size > 0
     /\ global_queue' = global_queue \o LocalQueue(b, local_queue_size)
     /\ truncated' = [truncated EXCEPT ![b] = @ + local_queue_size]
     /\ visit' = visit + 1
     /\ UNCHANGED <<logging_status, backend_loggers, backendVars, wait_for_flushing, round,
                    local_queue_size, file, lost>>

\* Faulty variant: one record of the copied ones stays in the local queue.
FaultyTruncateLocalQueueOffByOne ==
  LET b == backend_loggers[visit]
  IN /\ FrontendGoto("truncate", "collect")
     /\ local_queue_size > 0
     /\ global_queue' = global_queue \o LocalQueue(b, local_queue_size)
     /\ truncated' = [truncated EXCEPT ![b] = @ + local_queue_size - 1]
     /\ wait_for_flushing' = wait_for_flushing \cup {b}
     /\ visit' = visit + 1
     /\ UNCHANGED <<logging_status, backend_loggers, backendVars, round, local_queue_size, file, lost>>

\* Copy the records and truncate the queue.  Only the frontend removes
\* records, so that it makes no difference when each of them is copied.
TruncateLocalQueue ==
  LET b == backend_loggers[visit]
  IN /\ FrontendGoto("truncate", "collect")
     /\ local_queue_size > 0
     /\ global_queue' = global_queue \o LocalQueue(b, local_queue_size)
     /\ truncated' = [truncated EXCEPT ![b] = @ + local_queue_size]
     /\ wait_for_flushing' = wait_for_flushing \cup {b}
     /\ visit' = visit + 1
     /\ UNCHANGED <<logging_status, backend_loggers, backendVars, round, local_queue_size, file, lost>>

SkipBackend ==
  /\ FrontendGoto("truncate", "collect")
  /\ local_queue_size = 0
  /\ visit' = visit + 1
  /\ UNCHANGED <<logging_status, backend_loggers, backendVars, queueVars, round, local_queue_size, fileVars>>

Collected ==
  /\ FrontendGoto("collect", "flush")
  /\ visit > Len(backend_loggers)
  /\ UNCHANGED <<logging_status, backend_loggers, backendVars, queueVars, round, visit,
                 local_queue_size, fileVars>>

\* Faulty variant: the file is not written in append mode.
FaultyFlushLogRecordsOverwrites ==
  /\ FrontendGoto("flush", "notify")
  /\ file' = global_queue
  /\ global_queue' = <<>>
  /\ visit' = 1
  /\ UNCHANGED <<logging_status, backend_loggers, backendVars, queueVars, round, local_queue_size, lost>>

\* FlushLogRecords writes, flushes and syncs, and deletes the records.  An
\* error is reported on the console and otherwise ignored: the file then
\* ends with some of the records.
FlushLogRecords ==
  /\ FrontendGoto("flush", "notify")
  /\ \E n \in 0 .. Len(global_queue) :
       /\ n = Len(global_queue) \/ MayFail
       /\ file' = file \o SubSeq(global_queue, 1, n)
       /\ lost' = lost \cup {global_queue[i] : i \in n + 1 .. Len(global_queue)}
  /\ global_queue' = <<>>
  /\ visit' = 1
  /\ UNCHANGED <<logging_status, backend_loggers, backendVars, queueVars, round, local_queue_size>>

\* Faulty variant: the flag is lowered and nobody is told.
FaultyCommitNoNotify ==
  /\ frontend = "notify"
  /\ visit <= Len(backend_loggers)
  /\ wait_for_flushing' = wait_for_flushing \ {backend_loggers[visit]}
  /\ visit' = visit + 1
  /\ UNCHANGED <<logging_status, backend_loggers, backendVars, truncated, frontend, round,
                 local_queue_size, fileVars>>

\* BackendLogger::Commit for each backend.
Commit ==
  /\ frontend = "notify"
  /\ visit <= Len(backend_loggers)
  /\ LET b == backend_loggers[visit]
     IN /\ wait_for_flushing' = wait_for_flushing \ {b}
        /\ pc' = [pc EXCEPT ![b] = IF @ = "asleep" /\ b \in wait_for_flushing THEN "check" ELSE @]
  /\ visit' = visit + 1
  /\ UNCHANGED <<logging_status, backend_loggers, logged, truncated, frontend, round,
                 local_queue_size, fileVars>>

Notified ==
  /\ frontend = "notify"
  /\ visit > Len(backend_loggers)
  /\ \/ round = "logging" /\ frontend' = "loop" /\ UNCHANGED logging_status
     \/ round = "last" /\ frontend' = "done" /\ logging_status' = "SLEEP"
  /\ UNCHANGED <<backend_loggers, backendVars, queueVars, round, visit, local_queue_size, fileVars>>

\* LogManager::EndLogging, by the main thread.
TerminateLoggingMode ==
  /\ MayTerminate
  /\ logging_status = "LOGGING"
  /\ logging_status' = "TERMINATE"
  /\ UNCHANGED <<backend_loggers, backendVars, queueVars, frontendVars, fileVars>>

-----------------------------------------------------------------------------
Backend(b) ==
  \/ IsInLoggingMode(b) \/ GetBackendLogger(b) \/ LogRecord(b) \/ EndTransaction(b)
  \/ WaitForFlushing(b) \/ RemoveBackendLogger(b)

Frontend ==
  \/ MainLoop \/ ReadLocalQueueSize \/ TruncateLocalQueue \/ SkipBackend \/ Collected
  \/ FlushLogRecords \/ Commit \/ Notified

Next == (\E b \in Backends : Backend(b)) \/ Frontend \/ TerminateLoggingMode

Spec == Init /\ [][Next]_vars

(* The frontend runs in a thread of its own and never waits for a backend; *)
(* a backend that waits checks again when it is woken.                     *)
Fairness ==
  /\ WF_vars(Frontend)
  /\ \A b \in Backends : WF_vars(WaitForFlushing(b))

FairSpec == Spec /\ Fairness

-----------------------------------------------------------------------------
PCs == {"running", "get_logger", "log", "check", "asleep", "flushed"}

(* Types of the variables.                                                 *)
TypeOK ==
  /\ logging_status \in {"LOGGING", "TERMINATE", "SLEEP"}
  /\ logged \in [Backends -> Nat] /\ truncated \in [Backends -> Nat]
  /\ wait_for_flushing \subseteq Backends
  /\ backend_loggers \in Seq(Backends)
  /\ pc \in [Backends -> PCs]
  /\ frontend \in {"loop", "collect", "truncate", "flush", "notify", "done"}
  /\ round \in {"logging", "last"}
  /\ visit \in Nat \ {0}
  /\ ~BackendLoggerMutexFree => visit <= Len(backend_loggers) + 1
  /\ frontend = "truncate" => visit <= Len(backend_loggers)
  /\ local_queue_size \in Nat
  /\ global_queue \in Seq(Backends \X Nat) /\ file \in Seq(Backends \X Nat)
  /\ lost \subseteq Backends \X Nat

waiting == {b \in Backends : pc[b] \in {"check", "asleep"}}

DL == INSTANCE DurableLog

(* What the comment on wait_for_flushing calls "need to ensure synchronous *)
(* commit": a thread that has come back from WaitForFlushing has all its   *)
(* records in the file, unless a write to the file failed.                 *)
AckedDurable ==
  \A b \in Backends : pc[b] = "flushed" => DL!Flushed(b, logged[b])

(* The same, failed writes or not.                                         *)
AckedOnDisk ==
  \A b \in Backends : pc[b] = "flushed" =>
    \A k \in 1 .. logged[b] : DL!InSeq(<<b, k>>, file)

(* The two queues and the file together hold each record once, those of a  *)
(* backend in the order in which it logged them.                           *)
InOrder == DL!Ordered(file \o global_queue)

(* The loggers keep their promise.                                         *)
ImplementsDurableLog == DL!Spec

(* A thread in WaitForFlushing comes back.                                 *)
WaitEnds ==
  \A b \in Backends : pc[b] \in {"check", "asleep"} ~> pc[b] = "flushed"
=============================================================================
