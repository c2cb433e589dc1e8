------------------------- MODULE WriteAheadLogProofs -------------------------
(***************************************************************************)
(* Proofs about WriteAheadLog, for any number of backends, records and     *)
(* failures of the file system: a thread that comes back from              *)
(* WaitForFlushing has its records in the file, or they were lost in a     *)
(* failed write; records of a backend stay in order; and the loggers       *)
(* implement DurableLog.                                                   *)
(***************************************************************************)
EXTENDS WriteAheadLog, TLAPS

Dealt(b, k) == DL!InSeq(<<b, k>>, file) \/ <<b, k>> \in lost

(* Only the frontend takes records from a queue, so that the size it read  *)
(* is a lower bound of the size when it truncates.                         *)
Sizes ==
  /\ \A b \in Backends : truncated[b] <= logged[b]
  /\ frontend = "truncate" =>
       local_queue_size <= logged[backend_loggers[visit]] - truncated[backend_loggers[visit]]

(* Between the flush and the next collection the global queue is empty.    *)
Drained == frontend \in {"notify", "loop", "done"} => global_queue = <<>>

(* A record that left its local queue is on its way or has been dealt      *)
(* with; it has been dealt with when the flag of its backend is down.      *)
Placed ==
  \A b \in Backends : \A k \in 1 .. truncated[b] :
    /\ Dealt(b, k) \/ DL!InSeq(<<b, k>>, global_queue)
    /\ b \notin wait_for_flushing => Dealt(b, k)

(* A thread that came back has nothing in its queue and its flag down.     *)
Idle ==
  \A b \in Backends : pc[b] = "flushed" =>
    truncated[b] = logged[b] /\ b \notin wait_for_flushing

(* The numbers in the global queue and the file are of truncated records,  *)
(* and go up for each backend.                                             *)
Numbered ==
  /\ \A i \in 1 .. Len(file) : file[i][2] \in 1 .. truncated[file[i][1]]
  /\ \A i \in 1 .. Len(global_queue) :
       global_queue[i][2] \in 1 .. truncated[global_queue[i][1]]
  /\ DL!Ordered(file) /\ DL!Ordered(global_queue)
  /\ \A i \in 1 .. Len(file), j \in 1 .. Len(global_queue) :
       file[i][1] = global_queue[j][1] => file[i][2] < global_queue[j][2]

IInv == TypeOK /\ Sizes /\ Drained /\ Placed /\ Idle /\ Numbered

-----------------------------------------------------------------------------
(* The actions by what they leave alone.                                   *)
QueueFrame == UNCHANGED <<global_queue, file, lost, truncated, wait_for_flushing>>

(* The queues, the flags and the file are changed by three steps of the    *)
(* frontend only.                                                          *)
LEMMA QueueSteps ==
  ASSUME [Next]_vars
  PROVE  QueueFrame \/ TruncateLocalQueue \/ FlushLogRecords \/ Commit
<1>1. ASSUME NEW b \in Backends, Backend(b)
      PROVE QueueFrame
  BY <1>1, ZenonT(60) DEF Backend, IsInLoggingMode, GetBackendLogger, LogRecord, EndTransaction, Log,
       WaitForFlushing, RemoveBackendLogger, QueueFrame, queueVars, fileVars
<1>2. ASSUME MainLoop \/ ReadLocalQueueSize \/ SkipBackend \/ Collected \/ Notified
             \/ TerminateLoggingMode \/ UNCHANGED vars
      PROVE QueueFrame
  BY <1>2, ZenonT(60) DEF MainLoop, ReadLocalQueueSize, SkipBackend, Collected, Notified,
       TerminateLoggingMode, QueueFrame, queueVars, fileVars, vars
<1> QED
  BY <1>1, <1>2, ZenonT(60) DEF Next, Frontend

(* The copy of a local queue.                                              *)
LEMMA LocalQueueFacts ==
  ASSUME TypeOK, NEW b \in Backends, NEW n \in Nat
  PROVE  /\ LocalQueue(b, n) \in Seq(Backends \X Nat)
         /\ Len(LocalQueue(b, n)) = n
         /\ \A i \in 1 .. n : LocalQueue(b, n)[i] = <<b, truncated[b] + i>>
<1>1. \A i \in 1 .. n : <<b, truncated[b] + i>> \in Backends \X Nat
  BY DEF TypeOK
<1> QED
  BY <1>1 DEF LocalQueue

(* The backend that the frontend visits.                                   *)
LEMMA Visited ==
  ASSUME TypeOK, visit <= Len(backend_loggers)
  PROVE  backend_loggers[visit] \in Backends
BY DEF TypeOK

(* Types after a step of the frontend that moves no records.               *)
LEMMA FrontendType ==
  ASSUME TypeOK,
         UNCHANGED <<logging_status, logged, truncated, wait_for_flushing, backend_loggers, pc,
                     global_queue, file, lost>>,
         frontend' \in {"loop", "collect", "truncate", "flush", "notify", "done"},
         round' \in {"logging", "last"},
         visit' \in Nat \ {0},
         visit' <= Len(backend_loggers) + 1 \/ frontend' \in {"loop", "flush", "done"},
         frontend' = "truncate" => visit' <= Len(backend_loggers),
         local_queue_size' \in Nat
  PROVE  TypeOK'
BY SMTT(60) DEF TypeOK, BackendLoggerMutexFree

(* Every step keeps the types.                                             *)
LEMMA TypeStep ==
  ASSUME TypeOK, Sizes, [Next]_vars
  PROVE  TypeOK'
<1> USE DEF Goto, FrontendGoto, PCs
<1>l. Len(backend_loggers) \in Nat
  BY DEF TypeOK
<1>1. ASSUME NEW b \in Backends,
             \/ IsInLoggingMode(b) \/ GetBackendLogger(b) \/ LogRecord(b) \/ EndTransaction(b)
             \/ WaitForFlushing(b)
      PROVE TypeOK'
  <2>1. CASE IsInLoggingMode(b)
    BY <2>1, SMTT(60) DEF IsInLoggingMode, queueVars, frontendVars, fileVars, TypeOK,
         BackendLoggerMutexFree
  <2>2. CASE GetBackendLogger(b)
    <3>1. pc' \in [Backends -> PCs]
      BY <2>2 DEF GetBackendLogger, TypeOK
    <3>2. \/ UNCHANGED backend_loggers
          \/ backend_loggers' = Append(backend_loggers, b) /\ BackendLoggerMutexFree
      BY <2>2 DEF GetBackendLogger
    <3>3. UNCHANGED <<logging_status, logged, truncated, wait_for_flushing, frontend, round, visit,
                      local_queue_size, global_queue, file, lost>>
      BY <2>2, ZenonT(60) DEF GetBackendLogger, queueVars, frontendVars, fileVars
    <3>4. CASE UNCHANGED backend_loggers
      BY <3>1, <3>3, <3>4, SMTT(60) DEF TypeOK, BackendLoggerMutexFree
    <3>5. CASE backend_loggers' = Append(backend_loggers, b) /\ BackendLoggerMutexFree
      <4>1. backend_loggers' \in Seq(Backends)
        BY <3>5 DEF TypeOK
      <4> QED
        BY <3>1, <3>3, <3>5, <4>1, SMTT(60) DEF TypeOK, BackendLoggerMutexFree
    <3> QED
      BY <3>2, <3>4, <3>5, ZenonT(60)
  <2>3. CASE LogRecord(b) \/ EndTransaction(b)
    <3>1. PICK to \in PCs : Log(b, to)
      BY <2>3 DEF LogRecord, EndTransaction
    <3>2. pc' \in [Backends -> PCs]
      BY <3>1 DEF Log, TypeOK
    <3>3. logged' \in [Backends -> Nat]
      BY <3>1 DEF Log, TypeOK
    <3>4. UNCHANGED <<logging_status, backend_loggers, truncated, wait_for_flushing, frontend, round,
                      visit, local_queue_size, global_queue, file, lost>>
      BY <3>1, ZenonT(60) DEF Log, queueVars, frontendVars, fileVars
    <3> QED
      BY <3>2, <3>3, <3>4, SMTT(60) DEF TypeOK, BackendLoggerMutexFree
  <2>4. CASE WaitForFlushing(b)
    <3>1. pc' \in [Backends -> PCs]
      BY <2>4, ZenonT(60) DEF WaitForFlushing, TypeOK
    <3>2. UNCHANGED <<logging_status, backend_loggers, logged, truncated, wait_for_flushing, frontend,
                      round, visit, local_queue_size, global_queue, file, lost>>
      BY <2>4, ZenonT(60) DEF WaitForFlushing, queueVars, frontendVars, fileVars
    <3> QED
      BY <3>1, <3>2, SMTT(60) DEF TypeOK, BackendLoggerMutexFree
  <2> QED
    BY <1>1, <2>1, <2>2, <2>3, <2>4, ZenonT(60)
<1>2. ASSUME NEW b \in Backends, RemoveBackendLogger(b)
      PROVE TypeOK'
  <2>1. PICK offset \in 1 .. Len(backend_loggers) :
          backend_loggers' = SubSeq(backend_loggers, 1, offset - 1)
                             \o SubSeq(backend_loggers, offset + 1, Len(backend_loggers))
    BY <1>2, ZenonT(60) DEF RemoveBackendLogger, EraseBackendLogger
  <2>2. backend_loggers' \in Seq(Backends)
    BY <2>1, SMTT(60) DEF TypeOK
  <2>3. BackendLoggerMutexFree /\ UNCHANGED <<logging_status, logged, pc, truncated, wait_for_flushing,
          frontend, round, visit, local_queue_size, global_queue, file, lost>>
    BY <1>2, ZenonT(60) DEF RemoveBackendLogger, backendVars, queueVars, frontendVars, fileVars
  <2> QED
    BY <2>2, <2>3, SMTT(60) DEF TypeOK, BackendLoggerMutexFree
<1>3. CASE MainLoop \/ SkipBackend \/ Collected \/ ReadLocalQueueSize \/ Notified
  <2>1. UNCHANGED <<logged, truncated, wait_for_flushing, backend_loggers, pc, global_queue, file, lost>>
    BY <1>3, ZenonT(60) DEF MainLoop, SkipBackend, Collected, ReadLocalQueueSize, Notified, backendVars,
         queueVars, fileVars
  <2>2. CASE MainLoop
    <3>1. /\ UNCHANGED <<logging_status, local_queue_size>> /\ frontend' = "collect" /\ visit' = 1
          /\ round' \in {"logging", "last"}
      BY <2>2 DEF MainLoop
    <3> QED
      BY <1>l, <2>1, <3>1, FrontendType, SMTT(60) DEF TypeOK
  <2>3. CASE SkipBackend
    <3>1. /\ UNCHANGED <<logging_status, local_queue_size, round>> /\ frontend' = "collect"
          /\ visit' = visit + 1 /\ frontend = "truncate"
      BY <2>3 DEF SkipBackend
    <3> QED
      BY <1>l, <2>1, <3>1, FrontendType, SMTT(60) DEF TypeOK
  <2>4. CASE Collected
    <3>1. UNCHANGED <<logging_status, local_queue_size, round, visit>> /\ frontend' = "flush"
      BY <2>4 DEF Collected
    <3> QED
      BY <1>l, <2>1, <3>1, FrontendType, SMTT(60) DEF TypeOK
  <2>5. CASE ReadLocalQueueSize
    <3> DEFINE c == backend_loggers[visit]
    <3>1. /\ UNCHANGED <<logging_status, round, visit>> /\ frontend' = "truncate"
          /\ visit <= Len(backend_loggers) /\ local_queue_size' = logged[c] - truncated[c]
      BY <2>5 DEF ReadLocalQueueSize, GetLocalQueueSize
    <3>2. c \in Backends
      BY <3>1, Visited
    <3>3. logged[c] \in Nat /\ truncated[c] \in Nat /\ truncated[c] <= logged[c]
      BY <3>2 DEF TypeOK, Sizes
    <3>4. local_queue_size' \in Nat
      BY <3>1, <3>3
    <3>5. visit \in Nat \ {0} /\ round \in {"logging", "last"}
      BY DEF TypeOK
    <3> QED
      BY <1>l, <2>1, <3>1, <3>4, <3>5, FrontendType, SMTT(60)
  <2>6. CASE Notified
    <3>1. UNCHANGED <<local_queue_size, round, visit>> /\ frontend' \in {"loop", "done"}
      BY <2>6 DEF Notified
    <3>2. logging_status' \in {"LOGGING", "TERMINATE", "SLEEP"}
      BY <2>6 DEF Notified, TypeOK
    <3> QED
      BY <2>1, <3>1, <3>2, SMTT(60) DEF TypeOK, BackendLoggerMutexFree
  <2> QED
    BY <1>3, <2>2, <2>3, <2>4, <2>5, <2>6, ZenonT(60)
<1>4. CASE TruncateLocalQueue
  <2> DEFINE c == backend_loggers[visit]
  <2>1. c \in Backends /\ local_queue_size \in Nat
    BY <1>4, Visited DEF TruncateLocalQueue, TypeOK
  <2>2. /\ UNCHANGED <<logging_status, backend_loggers, logged, pc, round, local_queue_size, file, lost>>
        /\ frontend = "truncate" /\ frontend' = "collect" /\ visit' = visit + 1
        /\ global_queue' = global_queue \o LocalQueue(c, local_queue_size)
        /\ truncated' = [truncated EXCEPT ![c] = @ + local_queue_size]
        /\ wait_for_flushing' = wait_for_flushing \cup {c}
    BY <1>4, ZenonT(60) DEF TruncateLocalQueue, backendVars
  <2>3. LocalQueue(c, local_queue_size) \in Seq(Backends \X Nat)
    BY <2>1, LocalQueueFacts, ZenonT(60)
  <2>4. global_queue' \in Seq(Backends \X Nat)
    BY <2>2, <2>3 DEF TypeOK
  <2>5. truncated' \in [Backends -> Nat] /\ wait_for_flushing' \subseteq Backends
    BY <2>1, <2>2, SMTT(60) DEF TypeOK
  <2>6. visit' \in Nat \ {0} /\ visit' <= Len(backend_loggers) + 1
    BY <1>l, <2>2 DEF TypeOK
  <2>7. UNCHANGED <<logging_status, backend_loggers, logged, pc, round, local_queue_size, file, lost>>
        /\ frontend' = "collect"
    BY <2>2, ZenonT(60)
  <2> HIDE DEF c
  <2> QED
    BY <2>4, <2>5, <2>6, <2>7, SMTT(60) DEF TypeOK, BackendLoggerMutexFree
<1>5. CASE FlushLogRecords
  <2>1. PICK n \in 0 .. Len(global_queue) :
          /\ file' = file \o SubSeq(global_queue, 1, n)
          /\ lost' = lost \cup {global_queue[i] : i \in n + 1 .. Len(global_queue)}
    BY <1>5 DEF FlushLogRecords
  <2>2. file' \in Seq(Backends \X Nat)
    BY <2>1 DEF TypeOK
  <2>3. lost' \subseteq Backends \X Nat
    <3>1. \A i \in n + 1 .. Len(global_queue) : global_queue[i] \in Backends \X Nat
      BY DEF TypeOK
    <3>2. {global_queue[i] : i \in n + 1 .. Len(global_queue)} \subseteq Backends \X Nat
      BY <3>1, ZenonT(60)
    <3>3. lost \subseteq Backends \X Nat
      BY DEF TypeOK
    <3> QED
      BY <2>1, <3>2, <3>3, ZenonT(60)
  <2>4. /\ UNCHANGED <<logging_status, backend_loggers, logged, pc, truncated, wait_for_flushing, round,
                       local_queue_size>>
        /\ frontend' = "notify" /\ visit' = 1 /\ global_queue' = <<>>
    BY <1>5, ZenonT(60) DEF FlushLogRecords, backendVars, queueVars
  <2> QED
    BY <1>l, <2>2, <2>3, <2>4, SMTT(60) DEF TypeOK, BackendLoggerMutexFree
<1>6. CASE Commit
  <2> DEFINE c == backend_loggers[visit]
  <2>1. /\ UNCHANGED <<logging_status, backend_loggers, logged, truncated, frontend, round,
                       local_queue_size, global_queue, file, lost>>
        /\ frontend = "notify" /\ visit <= Len(backend_loggers) /\ visit' = visit + 1
        /\ wait_for_flushing' \subseteq wait_for_flushing
    BY <1>6 DEF Commit, fileVars
  <2>2. pc' \in [Backends -> PCs]
    BY <1>6 DEF Commit, TypeOK
  <2> QED
    BY <1>l, <2>1, <2>2, SMTT(60) DEF TypeOK, BackendLoggerMutexFree
<1>7. CASE TerminateLoggingMode \/ UNCHANGED vars
  <2>1. /\ UNCHANGED <<backend_loggers, logged, pc, truncated, wait_for_flushing, frontend, round, visit,
                       local_queue_size, global_queue, file, lost>>
        /\ logging_status' \in {logging_status, "TERMINATE"}
    BY <1>7 DEF TerminateLoggingMode, vars, backendVars, queueVars, frontendVars, fileVars
  <2> QED
    BY <2>1, SMTT(60) DEF TypeOK, BackendLoggerMutexFree
<1> QED
  BY <1>1, <1>2, <1>3, <1>4, <1>5, <1>6, <1>7, ZenonT(60) DEF Next, Backend, Frontend

(* The first n elements of a sequence.                                     *)
LEMMA PrefixFacts ==
  ASSUME NEW S, NEW q \in Seq(S), NEW n \in 0 .. Len(q)
  PROVE  /\ SubSeq(q, 1, n) \in Seq(S)
         /\ Len(SubSeq(q, 1, n)) = n
         /\ \A i \in 1 .. n : SubSeq(q, 1, n)[i] = q[i]
BY SMTT(60)

(* Each index of a concatenation is one of the first or of the second.     *)
LEMMA ConcatIndex ==
  ASSUME NEW S, NEW q \in Seq(S), NEW r \in Seq(S), NEW i \in 1 .. Len(q \o r)
  PROVE  \/ i \in 1 .. Len(q) /\ (q \o r)[i] = q[i]
         \/ i - Len(q) \in 1 .. Len(r) /\ (q \o r)[i] = r[i - Len(q)]
<1>1. CASE i <= Len(q)
  BY <1>1, SMTT(60)
<1>2. CASE i > Len(q)
  BY <1>2, SMTT(60)
<1> QED
  BY <1>1, <1>2, SMTT(60)

(* What is in a concatenation.                                             *)
LEMMA InConcat ==
  ASSUME NEW S, NEW q \in Seq(S), NEW r \in Seq(S), NEW e
  PROVE  DL!InSeq(e, q \o r) <=> DL!InSeq(e, q) \/ DL!InSeq(e, r)
<1>1. ASSUME DL!InSeq(e, q)
      PROVE DL!InSeq(e, q \o r)
  BY <1>1 DEF DL!InSeq
<1>2. ASSUME DL!InSeq(e, r)
      PROVE DL!InSeq(e, q \o r)
  <2>1. PICK j \in 1 .. Len(r) : r[j] = e
    BY <1>2 DEF DL!InSeq
  <2>2. Len(q) + j \in 1 .. Len(q \o r) /\ (q \o r)[Len(q) + j] = e
    BY <2>1
  <2> QED
    BY <2>2 DEF DL!InSeq
<1>3. ASSUME DL!InSeq(e, q \o r)
      PROVE DL!InSeq(e, q) \/ DL!InSeq(e, r)
  <2>1. PICK j \in 1 .. Len(q \o r) : (q \o r)[j] = e
    BY <1>3 DEF DL!InSeq
  <2>2. CASE j <= Len(q)
    BY <2>1, <2>2 DEF DL!InSeq
  <2>3. CASE j > Len(q)
    <3>1. j - Len(q) \in 1 .. Len(r) /\ r[j - Len(q)] = e
      BY <2>1, <2>3
    <3> QED
      BY <3>1 DEF DL!InSeq
  <2> QED
    BY <2>1, <2>2, <2>3
<1> QED
  BY <1>1, <1>2, <1>3

(* Two ordered sequences, all numbers of the second above those of the     *)
(* first for each backend, give an ordered one.                            *)
LEMMA OrderedConcat ==
  ASSUME NEW S, NEW q \in Seq(S \X Nat), NEW r \in Seq(S \X Nat),
         DL!Ordered(q), DL!Ordered(r),
         \A i \in 1 .. Len(q), j \in 1 .. Len(r) : q[i][1] = r[j][1] => q[i][2] < r[j][2]
  PROVE  DL!Ordered(q \o r)
<1> SUFFICES ASSUME NEW i \in 1 .. Len(q \o r), NEW j \in 1 .. Len(q \o r), i < j,
                    (q \o r)[i][1] = (q \o r)[j][1]
             PROVE (q \o r)[i][2] < (q \o r)[j][2]
  BY ZenonT(60) DEF DL!Ordered
<1>1. CASE j <= Len(q)
  <2>1. i \in 1 .. Len(q) /\ j \in 1 .. Len(q) /\ (q \o r)[i] = q[i] /\ (q \o r)[j] = q[j]
    BY <1>1
  <2> QED
    BY <2>1 DEF DL!Ordered
<1>2. CASE i > Len(q)
  <2>1. i - Len(q) \in 1 .. Len(r) /\ j - Len(q) \in 1 .. Len(r) /\ i - Len(q) < j - Len(q)
        /\ (q \o r)[i] = r[i - Len(q)] /\ (q \o r)[j] = r[j - Len(q)]
    BY <1>2, SMTT(60)
  <2> QED
    BY <2>1, ZenonT(60) DEF DL!Ordered
<1>3. CASE i <= Len(q) /\ j > Len(q)
  <2>1. i \in 1 .. Len(q) /\ j - Len(q) \in 1 .. Len(r)
        /\ (q \o r)[i] = q[i] /\ (q \o r)[j] = r[j - Len(q)]
    BY <1>3
  <2> QED
    BY <2>1
<1> QED
  BY <1>1, <1>2, <1>3, SMTT(60)

-----------------------------------------------------------------------------
(* Every step keeps the sizes consistent: a backend only adds records to   *)
(* its queue between the frontend's look at it and the truncation.         *)
LEMMA SizesStep ==
  ASSUME TypeOK, Sizes, [Next]_vars
  PROVE  Sizes'
<1> USE DEF Sizes
<1>1. ASSUME NEW b \in Backends, NEW to \in PCs, Log(b, to)
      PROVE Sizes'
  <2>1. UNCHANGED <<truncated, backend_loggers, frontend, visit, local_queue_size>>
    BY <1>1, ZenonT(60) DEF Log, queueVars, frontendVars
  <2>2. \A c \in Backends : logged[c] <= logged'[c] /\ logged'[c] \in Nat
    BY <1>1 DEF Log, TypeOK
  <2>3. \A c \in Backends : truncated[c] <= logged'[c]
    BY <2>2 DEF TypeOK
  <2>4. ASSUME frontend = "truncate"
        PROVE local_queue_size <= logged'[backend_loggers[visit]] - truncated[backend_loggers[visit]]
    <3> DEFINE c == backend_loggers[visit]
    <3>1. c \in Backends
      BY <2>4, Visited DEF TypeOK
    <3>2. local_queue_size <= logged[c] - truncated[c] /\ local_queue_size \in Nat
          /\ logged[c] \in Nat /\ truncated[c] \in Nat
      BY <2>4, <3>1 DEF TypeOK
    <3> HIDE DEF c
    <3>3. local_queue_size <= logged'[c] - truncated[c]
      BY <2>2, <3>1, <3>2
    <3> QED
      BY <3>3 DEF c
  <2> QED
    BY <2>1, <2>3, <2>4
<1>2. ASSUME NEW b \in Backends,
             \/ IsInLoggingMode(b) \/ GetBackendLogger(b) \/ WaitForFlushing(b)
             \/ RemoveBackendLogger(b)
      PROVE Sizes'
  <2>1. /\ UNCHANGED <<logged, truncated, frontend, visit, local_queue_size>>
        /\ UNCHANGED backend_loggers \/ BackendLoggerMutexFree
    BY <1>2, ZenonT(60) DEF IsInLoggingMode, GetBackendLogger, WaitForFlushing, RemoveBackendLogger,
         backendVars, queueVars, frontendVars
  <2> QED
    BY <2>1, SMTT(30) DEF BackendLoggerMutexFree
<1>3. CASE ReadLocalQueueSize
  BY <1>3, SMTT(30) DEF ReadLocalQueueSize, GetLocalQueueSize, FrontendGoto, backendVars, queueVars
<1>4. CASE TruncateLocalQueue
  <2> DEFINE c == backend_loggers[visit]
  <2>1. /\ frontend = "truncate" /\ frontend' = "collect" /\ UNCHANGED logged
        /\ truncated' = [truncated EXCEPT ![c] = @ + local_queue_size]
    BY <1>4 DEF TruncateLocalQueue, FrontendGoto, backendVars
  <2>2. c \in Backends /\ local_queue_size <= logged[c] - truncated[c] /\ local_queue_size \in Nat
    BY <2>1, Visited DEF TypeOK
  <2> HIDE DEF c
  <2>3. \A b \in Backends : truncated'[b] <= logged[b]
    BY <2>1, <2>2 DEF TypeOK
  <2> QED
    BY <2>1, <2>3
<1>5. CASE MainLoop \/ SkipBackend \/ Collected \/ FlushLogRecords \/ Commit \/ Notified
  <2>1. UNCHANGED <<logged, truncated>> /\ frontend' # "truncate"
    BY <1>5 DEF MainLoop, SkipBackend, Collected, FlushLogRecords, Commit, Notified, FrontendGoto,
         backendVars, queueVars
  <2> QED
    BY <2>1
<1>6. CASE TerminateLoggingMode \/ UNCHANGED vars
  <2>1. UNCHANGED <<logged, truncated, backend_loggers, frontend, visit, local_queue_size>>
    BY <1>6, ZenonT(60) DEF TerminateLoggingMode, vars, backendVars, queueVars, frontendVars
  <2> QED
    BY <2>1
<1> HIDE DEF Sizes
<1>7. ASSUME NEW b \in Backends, LogRecord(b) \/ EndTransaction(b)
      PROVE Sizes'
  BY <1>1, <1>7 DEF LogRecord, EndTransaction, PCs
<1> QED
  BY <1>2, <1>3, <1>4, <1>5, <1>6, <1>7, ZenonT(60) DEF Next, Backend, Frontend

(* The global queue is empty after a flush, and filled only by a           *)
(* collection, which another flush follows.                                *)
LEMMA DrainedStep ==
  ASSUME TypeOK, Drained, [Next]_vars
  PROVE  Drained'
<1> USE DEF Drained, FrontendGoto
<1>1. ASSUME NEW b \in Backends, Backend(b)
      PROVE Drained'
  <2>1. UNCHANGED <<frontend, global_queue>>
    BY <1>1, ZenonT(60) DEF Backend, IsInLoggingMode, GetBackendLogger, LogRecord, EndTransaction, Log,
         WaitForFlushing, RemoveBackendLogger, frontendVars, fileVars
  <2> QED
    BY <2>1
<1>2. CASE Frontend
  BY <1>2 DEF Frontend, MainLoop, ReadLocalQueueSize, TruncateLocalQueue, SkipBackend, Collected,
       FlushLogRecords, Commit, Notified, fileVars
<1>3. CASE TerminateLoggingMode \/ UNCHANGED vars
  BY <1>3 DEF TerminateLoggingMode, vars, frontendVars, fileVars
<1> QED
  BY <1>1, <1>2, <1>3, ZenonT(60) DEF Next

(* A record is copied to the global queue before it leaves the local one,  *)
(* with the flag up, and the flag goes down only after a flush.            *)
LEMMA PlacedStep ==
  ASSUME TypeOK, Sizes, Drained, Placed, [Next]_vars
  PROVE  Placed'
<1>1. CASE QueueFrame
  BY <1>1, ZenonT(60) DEF QueueFrame, Placed, Dealt, DL!InSeq
<1>2. CASE TruncateLocalQueue
  <2> DEFINE c == backend_loggers[visit]
             copy == LocalQueue(c, local_queue_size)
  <2>1. c \in Backends /\ local_queue_size \in Nat
    BY <1>2, Visited DEF TypeOK, TruncateLocalQueue, FrontendGoto
  <2>2. /\ global_queue' = global_queue \o copy
        /\ truncated' = [truncated EXCEPT ![c] = @ + local_queue_size]
        /\ wait_for_flushing' = wait_for_flushing \cup {c}
        /\ UNCHANGED <<file, lost>>
    BY <1>2 DEF TruncateLocalQueue
  <2>3. /\ copy \in Seq(Backends \X Nat) /\ Len(copy) = local_queue_size
        /\ \A i \in 1 .. local_queue_size : copy[i] = <<c, truncated[c] + i>>
    BY <2>1, LocalQueueFacts, ZenonT(60)
  <2> HIDE DEF copy, c
  <2>4. \A e : DL!InSeq(e, global_queue)' <=> DL!InSeq(e, global_queue) \/ DL!InSeq(e, copy)
    <3>1. \A e : DL!InSeq(e, global_queue \o copy)
                   <=> DL!InSeq(e, global_queue) \/ DL!InSeq(e, copy)
      BY <2>3, InConcat DEF TypeOK
    <3> QED
      BY <2>2, <3>1, ZenonT(60) DEF DL!InSeq
  <2>5. \A b, k : Dealt(b, k)' <=> Dealt(b, k)
    BY <2>2, ZenonT(60) DEF Dealt, DL!InSeq
  <2> SUFFICES ASSUME NEW b \in Backends, NEW k \in 1 .. truncated'[b]
               PROVE /\ Dealt(b, k)' \/ DL!InSeq(<<b, k>>, global_queue)'
                     /\ b \notin wait_for_flushing' => Dealt(b, k)'
    BY ZenonT(60) DEF Placed
  <2>6. CASE k \in 1 .. truncated[b]
    BY <2>2, <2>4, <2>5, <2>6 DEF Placed
  <2>7. CASE k \notin 1 .. truncated[b]
    <3>1. b = c /\ k - truncated[c] \in 1 .. local_queue_size
      BY <2>1, <2>2, <2>7 DEF TypeOK
    <3>2. copy[k - truncated[c]] = <<b, k>>
      BY <2>1, <2>3, <3>1 DEF TypeOK
    <3>3. DL!InSeq(<<b, k>>, copy)
      BY <2>3, <3>1, <3>2, ZenonT(60) DEF DL!InSeq
    <3> QED
      BY <2>2, <2>4, <3>1, <3>3
  <2> QED
    BY <2>6, <2>7
<1>3. CASE FlushLogRecords
  <2>1. PICK n \in 0 .. Len(global_queue) :
          /\ file' = file \o SubSeq(global_queue, 1, n)
          /\ lost' = lost \cup {global_queue[i] : i \in n + 1 .. Len(global_queue)}
    BY <1>3 DEF FlushLogRecords
  <2>2. UNCHANGED <<truncated, wait_for_flushing>>
    BY <1>3 DEF FlushLogRecords, queueVars
  <2> DEFINE part == SubSeq(global_queue, 1, n)
  <2>3. part \in Seq(Backends \X Nat) /\ Len(part) = n /\ \A i \in 1 .. n : part[i] = global_queue[i]
    <3>1. global_queue \in Seq(Backends \X Nat)
      BY DEF TypeOK
    <3> QED
      BY <3>1, PrefixFacts, ZenonT(60)
  <2>4. \A b, k : Dealt(b, k) => Dealt(b, k)'
    <3> SUFFICES ASSUME NEW b, NEW k, Dealt(b, k)
                 PROVE DL!InSeq(<<b, k>>, file \o part) \/ <<b, k>> \in lost'
      BY <2>1, ZenonT(60) DEF Dealt, DL!InSeq
    <3> QED
      BY <2>1, <2>3, InConcat, ZenonT(60) DEF Dealt, TypeOK
  <2>5. \A b, k : DL!InSeq(<<b, k>>, global_queue) => Dealt(b, k)'
    <3> SUFFICES ASSUME NEW b, NEW k, DL!InSeq(<<b, k>>, global_queue)
                 PROVE DL!InSeq(<<b, k>>, file \o part) \/ <<b, k>> \in lost'
      BY <2>1, ZenonT(60) DEF Dealt, DL!InSeq
    <3>1. PICK i \in 1 .. Len(global_queue) : global_queue[i] = <<b, k>>
      BY DEF DL!InSeq
    <3>2. CASE i <= n
      <4>1. DL!InSeq(<<b, k>>, part)
        BY <2>3, <3>1, <3>2 DEF DL!InSeq
      <4> QED
        BY <2>3, <4>1, InConcat, ZenonT(60) DEF TypeOK
    <3>3. CASE i > n
      BY <2>1, <3>1, <3>3
    <3> QED
      BY <3>2, <3>3
  <2> QED
    BY <2>2, <2>4, <2>5, ZenonT(60) DEF Placed
<1>4. CASE Commit
  <2>1. global_queue = <<>> /\ UNCHANGED <<file, lost, truncated>> /\ global_queue' = global_queue
    BY <1>4 DEF Commit, Drained, fileVars
  <2>2. \A b \in Backends : \A k \in 1 .. truncated[b] : Dealt(b, k)
    BY <2>1 DEF Placed, DL!InSeq
  <2> QED
    BY <2>1, <2>2, ZenonT(60) DEF Placed, Dealt, DL!InSeq
<1> QED
  BY <1>1, <1>2, <1>3, <1>4, QueueSteps

(* A thread comes back only with its queue empty and its flag down, and    *)
(* while it does not log, the frontend finds nothing to take.              *)
LEMMA IdleStep ==
  ASSUME TypeOK, Sizes, Idle, [Next]_vars
  PROVE  Idle'
<1> USE DEF Goto
<1>1. ASSUME NEW b \in Backends, IsInLoggingMode(b) \/ GetBackendLogger(b) \/ LogRecord(b)
                                 \/ EndTransaction(b)
      PROVE Idle'
  <2>1. /\ \A c \in Backends : c # b => pc'[c] = pc[c] /\ logged'[c] = logged[c]
        /\ pc'[b] # "flushed" /\ UNCHANGED <<truncated, wait_for_flushing>>
    BY <1>1 DEF TypeOK, IsInLoggingMode, GetBackendLogger, LogRecord, EndTransaction, Log, queueVars
  <2> QED
    BY <2>1 DEF Idle
<1>2. ASSUME NEW b \in Backends, WaitForFlushing(b)
      PROVE Idle'
  <2>1. /\ \A c \in Backends : c # b => pc'[c] = pc[c]
        /\ UNCHANGED <<logged, truncated, wait_for_flushing>>
    BY <1>2 DEF TypeOK, WaitForFlushing, queueVars
  <2>2. pc'[b] = "flushed" => b \notin wait_for_flushing /\ ~(logged[b] - truncated[b] > 0)
    BY <1>2 DEF TypeOK, WaitForFlushing, IsWaitingForFlushing, GetLocalQueueSize
  <2>3. pc'[b] = "flushed" => truncated[b] = logged[b]
    BY <2>2 DEF TypeOK, Sizes
  <2> QED
    BY <2>1, <2>2, <2>3 DEF Idle
<1>3. CASE TruncateLocalQueue
  <2> DEFINE c == backend_loggers[visit]
  <2>1. c \in Backends /\ local_queue_size > 0 /\ local_queue_size <= logged[c] - truncated[c]
    BY <1>3, Visited DEF TypeOK, Sizes, TruncateLocalQueue, FrontendGoto
  <2>2. pc[c] # "flushed"
    BY <2>1 DEF TypeOK, Idle
  <2>3. /\ UNCHANGED <<pc, logged>>
        /\ \A b \in Backends : b # c => truncated'[b] = truncated[b]
        /\ wait_for_flushing' = wait_for_flushing \cup {c}
    BY <1>3 DEF TypeOK, TruncateLocalQueue, backendVars
  <2> QED
    BY <2>2, <2>3 DEF Idle
<1>4. CASE Commit
  <2>1. /\ UNCHANGED <<logged, truncated>> /\ wait_for_flushing' \subseteq wait_for_flushing
        /\ \A b \in Backends : pc'[b] = "flushed" => pc[b] = "flushed"
    BY <1>4, Visited, SMTT(60) DEF TypeOK, Commit
  <2> QED
    BY <2>1 DEF Idle
<1>5. CASE UNCHANGED <<logged, pc, truncated, wait_for_flushing>>
  BY <1>5 DEF Idle
<1>6. ASSUME NEW b \in Backends, RemoveBackendLogger(b)
      PROVE UNCHANGED <<logged, pc, truncated, wait_for_flushing>>
  BY <1>6, ZenonT(60) DEF RemoveBackendLogger, backendVars, queueVars
<1>7. ASSUME \/ MainLoop \/ ReadLocalQueueSize \/ SkipBackend \/ Collected \/ FlushLogRecords \/ Notified
             \/ TerminateLoggingMode \/ UNCHANGED vars
      PROVE UNCHANGED <<logged, pc, truncated, wait_for_flushing>>
  BY <1>7, ZenonT(60) DEF MainLoop, ReadLocalQueueSize, SkipBackend, Collected, FlushLogRecords, Notified,
       TerminateLoggingMode, vars, backendVars, queueVars
<1> QED
  BY <1>1, <1>2, <1>3, <1>4, <1>5, <1>6, <1>7, ZenonT(60) DEF Next, Backend, Frontend

(* The records of a backend are copied in the order of their numbers.      *)
LEMMA NumberedStep ==
  ASSUME TypeOK, Sizes, Drained, Numbered, [Next]_vars
  PROVE  Numbered'
<1>1. CASE UNCHANGED <<global_queue, file, truncated>>
  BY <1>1, ZenonT(60) DEF Numbered, DL!Ordered
<1>2. CASE TruncateLocalQueue
  <2> DEFINE c == backend_loggers[visit]
             copy == LocalQueue(c, local_queue_size)
  <2>1. c \in Backends /\ local_queue_size \in Nat
    BY <1>2, Visited DEF TypeOK, TruncateLocalQueue, FrontendGoto
  <2>2. /\ global_queue' = global_queue \o copy
        /\ truncated' = [truncated EXCEPT ![c] = @ + local_queue_size]
        /\ UNCHANGED file
    BY <1>2 DEF TruncateLocalQueue
  <2>3. /\ copy \in Seq(Backends \X Nat) /\ Len(copy) = local_queue_size
        /\ \A i \in 1 .. local_queue_size : copy[i] = <<c, truncated[c] + i>>
    BY <2>1, LocalQueueFacts, ZenonT(60)
  <2> HIDE DEF copy, c
  <2>4. \A b \in Backends : truncated[b] \in Nat /\ truncated'[b] \in Nat /\ truncated[b] <= truncated'[b]
    BY <2>1, <2>2 DEF TypeOK
  <2>5. truncated'[c] = truncated[c] + local_queue_size
    BY <2>1, <2>2 DEF TypeOK
  <2>6. /\ \A i \in 1 .. Len(file) : file[i] \in Backends \X Nat
        /\ \A i \in 1 .. Len(global_queue) : global_queue[i] \in Backends \X Nat
    BY SMTT(60) DEF TypeOK
  <2>7. \A i \in 1 .. Len(file) : file[i][2] \in 1 .. truncated'[file[i][1]]
    <3> SUFFICES ASSUME NEW i \in 1 .. Len(file)
                 PROVE file[i][2] \in 1 .. truncated'[file[i][1]]
      OBVIOUS
    <3>1. file[i][1] \in Backends /\ file[i][2] \in 1 .. truncated[file[i][1]]
      BY <2>6 DEF Numbered
    <3> QED
      BY <2>4, <3>1
  <2>8. \A i \in 1 .. Len(global_queue) : global_queue[i][2] \in 1 .. truncated'[global_queue[i][1]]
    <3> SUFFICES ASSUME NEW i \in 1 .. Len(global_queue)
                 PROVE global_queue[i][2] \in 1 .. truncated'[global_queue[i][1]]
      OBVIOUS
    <3>1. global_queue[i][1] \in Backends /\ global_queue[i][2] \in 1 .. truncated[global_queue[i][1]]
      BY <2>6 DEF Numbered
    <3> QED
      BY <2>4, <3>1
  <2>9. \A j \in 1 .. local_queue_size :
          copy[j][1] = c /\ copy[j][2] = truncated[c] + j /\ copy[j][2] \in 1 .. truncated'[c]
    BY <2>1, <2>3, <2>4, <2>5
  <2>10. \A i \in 1 .. Len(global_queue \o copy) :
           \/ /\ i \in 1 .. Len(global_queue)
              /\ (global_queue \o copy)[i] = global_queue[i]
           \/ /\ i - Len(global_queue) \in 1 .. local_queue_size
              /\ (global_queue \o copy)[i] = copy[i - Len(global_queue)]
    <3>1. global_queue \in Seq(Backends \X Nat)
      BY DEF TypeOK
    <3> QED
      BY <2>3, <3>1, ConcatIndex, ZenonT(60)
  <2>11. \A i \in 1 .. Len(global_queue') :
           global_queue'[i][2] \in 1 .. truncated'[global_queue'[i][1]]
    BY <2>2, <2>8, <2>9, <2>10
  <2>12. DL!Ordered(copy)
    <3> SUFFICES ASSUME NEW i \in 1 .. local_queue_size, NEW j \in 1 .. local_queue_size, i < j
                 PROVE copy[i][2] < copy[j][2]
      BY <2>3, ZenonT(60) DEF DL!Ordered
    <3>1. truncated[c] \in Nat
      BY <2>1, <2>4
    <3> QED
      BY <2>1, <2>9, <3>1
  <2>13. \A i \in 1 .. Len(global_queue), j \in 1 .. Len(copy) :
           global_queue[i][1] = copy[j][1] => global_queue[i][2] < copy[j][2]
    <3> SUFFICES ASSUME NEW i \in 1 .. Len(global_queue), NEW j \in 1 .. local_queue_size,
                        global_queue[i][1] = c
                 PROVE global_queue[i][2] < copy[j][2]
      BY <2>3, <2>9, ZenonT(60)
    <3>1. global_queue[i][2] \in 1 .. truncated[c]
      BY DEF Numbered
    <3> QED
      BY <2>1, <2>4, <2>9, <3>1, SMTT(60)
  <2>14. DL!Ordered(global_queue \o copy)
    BY <2>3, <2>12, <2>13, OrderedConcat, ZenonT(60) DEF TypeOK, Numbered
  <2>15. \A i \in 1 .. Len(file), j \in 1 .. Len(copy) :
           file[i][1] = copy[j][1] => file[i][2] < copy[j][2]
    <3> SUFFICES ASSUME NEW i \in 1 .. Len(file), NEW j \in 1 .. local_queue_size, file[i][1] = c
                 PROVE file[i][2] < copy[j][2]
      BY <2>3, <2>9
    <3>1. file[i][2] \in 1 .. truncated[c]
      BY DEF Numbered
    <3> QED
      BY <2>1, <2>4, <2>9, <3>1
  <2>16. \A i \in 1 .. Len(file), j \in 1 .. Len(global_queue \o copy) :
           file[i][1] = (global_queue \o copy)[j][1] => file[i][2] < (global_queue \o copy)[j][2]
    BY <2>3, <2>10, <2>15 DEF Numbered
  <2> QED
    BY <2>2, <2>7, <2>11, <2>14, <2>16, ZenonT(60) DEF Numbered, DL!Ordered
<1>3. CASE FlushLogRecords
  <2>1. PICK n \in 0 .. Len(global_queue) : file' = file \o SubSeq(global_queue, 1, n)
    BY <1>3 DEF FlushLogRecords
  <2> DEFINE part == SubSeq(global_queue, 1, n)
  <2>2. UNCHANGED truncated /\ global_queue' = <<>>
    BY <1>3 DEF FlushLogRecords, queueVars
  <2>3. part \in Seq(Backends \X Nat) /\ Len(part) = n /\ \A i \in 1 .. n : part[i] = global_queue[i]
    <3>1. global_queue \in Seq(Backends \X Nat)
      BY DEF TypeOK
    <3> QED
      BY <3>1, PrefixFacts, ZenonT(60)
  <2> HIDE DEF part
  <2>4. DL!Ordered(part)
    <3> SUFFICES ASSUME NEW i \in 1 .. n, NEW j \in 1 .. n, i < j,
                        global_queue[i][1] = global_queue[j][1]
                 PROVE global_queue[i][2] < global_queue[j][2]
      BY <2>3, ZenonT(60) DEF DL!Ordered
    <3>0. Len(global_queue) \in Nat
      BY DEF TypeOK
    <3>1. i \in 1 .. Len(global_queue) /\ j \in 1 .. Len(global_queue)
      BY <3>0
    <3> QED
      BY <3>1, ZenonT(60) DEF Numbered, DL!Ordered
  <2>5. DL!Ordered(file \o part)
    <3>1. \A i \in 1 .. Len(file), j \in 1 .. Len(part) :
            file[i][1] = part[j][1] => file[i][2] < part[j][2]
      BY <2>3, SMTT(60) DEF Numbered
    <3> QED
      BY <2>3, <2>4, <3>1, OrderedConcat, ZenonT(60) DEF TypeOK, Numbered
  <2>6. \A i \in 1 .. Len(file \o part) :
          \/ i \in 1 .. Len(file) /\ (file \o part)[i] = file[i]
          \/ i - Len(file) \in 1 .. n /\ (file \o part)[i] = global_queue[i - Len(file)]
    <3>1. file \in Seq(Backends \X Nat)
      BY DEF TypeOK
    <3>2. \A i \in 1 .. Len(file \o part) :
            \/ i \in 1 .. Len(file) /\ (file \o part)[i] = file[i]
            \/ i - Len(file) \in 1 .. Len(part) /\ (file \o part)[i] = part[i - Len(file)]
      BY <2>3, <3>1, ConcatIndex, ZenonT(60)
    <3> QED
      BY <2>3, <3>2, ZenonT(60)
  <2>7. \A i \in 1 .. Len(file \o part) :
          (file \o part)[i][2] \in 1 .. truncated[(file \o part)[i][1]]
    <3> SUFFICES ASSUME NEW i \in 1 .. Len(file \o part)
                 PROVE (file \o part)[i][2] \in 1 .. truncated[(file \o part)[i][1]]
      OBVIOUS
    <3>1. CASE i \in 1 .. Len(file) /\ (file \o part)[i] = file[i]
      BY <3>1 DEF Numbered
    <3>2. CASE i - Len(file) \in 1 .. n /\ (file \o part)[i] = global_queue[i - Len(file)]
      <4>1. i - Len(file) \in 1 .. Len(global_queue)
        BY <3>2 DEF TypeOK
      <4> QED
        BY <3>2, <4>1 DEF Numbered
    <3> QED
      BY <2>6, <3>1, <3>2
  <2>8. file' = file \o part
    BY <2>1 DEF part
  <2>9. 1 .. Len(global_queue') = {}
    BY <2>2
  <2>10. DL!Ordered(file)'
    BY <2>5, <2>8, ZenonT(60) DEF DL!Ordered
  <2> QED
    BY <2>2, <2>7, <2>8, <2>9, <2>10, ZenonT(60) DEF Numbered, DL!Ordered
<1>4. ASSUME QueueFrame \/ Commit
      PROVE UNCHANGED <<global_queue, file, truncated>>
  BY <1>4, ZenonT(60) DEF QueueFrame, Commit, fileVars
<1> QED
  BY <1>1, <1>2, <1>3, <1>4, QueueSteps

-----------------------------------------------------------------------------
(* The invariant holds initially.                                          *)
LEMMA InitIInv ==
  Init => IInv
<1> SUFFICES ASSUME Init
             PROVE IInv
  OBVIOUS
<1>1. TypeOK
  BY DEF Init, TypeOK, PCs, BackendLoggerMutexFree
<1>2. Sizes /\ Drained /\ Idle
  BY DEF Init, Sizes, Drained, Idle
<1>3. Placed
  BY DEF Init, Placed
<1>4. Numbered
  BY DEF Init, Numbered, DL!Ordered
<1> QED
  BY <1>1, <1>2, <1>3, <1>4 DEF IInv

(* Every step keeps it.                                                    *)
LEMMA NextIInv ==
  IInv /\ [Next]_vars => IInv'
BY TypeStep, SizesStep, DrainedStep, PlacedStep, IdleStep, NumberedStep, ZenonT(60) DEF IInv

(* The inductive invariant of the loggers.                                 *)
THEOREM Invariance == Spec => []IInv
BY InitIInv, NextIInv, PTL DEF Spec

(* Types.                                                                  *)
THEOREM TypeCorrect == Spec => []TypeOK
<1>1. IInv => TypeOK
  BY DEF IInv
<1> QED
  BY <1>1, Invariance, PTL

(* Synchronous commit: WaitForFlushing of backend_logger.cpp returns only  *)
(* when every record that the thread has logged was written to the file,   *)
(* or lost in a write whose error the frontend ignored.                    *)
THEOREM SynchronousCommit == Spec => []AckedDurable
<1>1. IInv => AckedDurable
  <2> SUFFICES ASSUME IInv, NEW b \in Backends, pc[b] = "flushed", NEW k \in 1 .. logged[b]
               PROVE DL!InSeq(<<b, k>>, file) \/ <<b, k>> \in lost
    BY DEF AckedDurable, DL!Flushed
  <2>1. truncated[b] = logged[b] /\ b \notin wait_for_flushing
    BY DEF IInv, Idle
  <2> QED
    BY <2>1 DEF IInv, Placed, Dealt
<1> QED
  BY <1>1, Invariance, PTL

(* The file holds the records of each backend in the order of logging,     *)
(* each at most once.                                                      *)
THEOREM RecordsInOrder == Spec => []InOrder
<1>1. IInv => InOrder
  BY OrderedConcat, ZenonT(60) DEF IInv, TypeOK, Numbered, InOrder
<1> QED
  BY <1>1, Invariance, PTL

-----------------------------------------------------------------------------
(* Each step of the loggers is a step of DurableLog or changes nothing     *)
(* that DurableLog speaks of.                                              *)
LEMMA StepImplements ==
  ASSUME IInv, [Next]_vars
  PROVE  [DL!Next]_DL!vars
<1>t. TypeOK
  BY DEF IInv
<1> USE DEF Goto
<1>1. ASSUME UNCHANGED <<logged, file, lost>>, waiting' = waiting
      PROVE UNCHANGED DL!vars
  BY <1>1 DEF DL!vars
<1>2. ASSUME NEW b \in Backends, LogRecord(b) \/ EndTransaction(b)
      PROVE DL!LogOnly(b) \/ DL!LogAndWait(b)
  <2>1. DL!Log(b)
    BY <1>t, <1>2 DEF TypeOK, LogRecord, EndTransaction, Log, DL!Log, waiting, fileVars
  <2>2. CASE LogRecord(b)
    <3>1. waiting' = waiting
      BY <1>t, <2>2 DEF TypeOK, LogRecord, Log, waiting
    <3> QED
      BY <2>1, <3>1 DEF DL!LogOnly
  <2>3. CASE EndTransaction(b)
    <3>1. waiting' = waiting \cup {b}
      BY <1>t, <2>3 DEF TypeOK, EndTransaction, Log, waiting
    <3> QED
      BY <2>1, <3>1 DEF DL!LogAndWait
  <2> QED
    BY <1>2, <2>2, <2>3
<1>3. ASSUME NEW b \in Backends, WaitForFlushing(b)
      PROVE DL!Return(b) \/ UNCHANGED DL!vars
  <2>1. UNCHANGED <<logged, file, lost>> /\ pc[b] = "check"
    BY <1>3 DEF WaitForFlushing, fileVars
  <2>2. CASE pc' = [pc EXCEPT ![b] = "asleep"]
    <3>1. waiting' = waiting
      BY <1>t, <2>1, <2>2 DEF TypeOK, waiting
    <3> QED
      BY <1>1, <2>1, <3>1
  <2>3. CASE pc' = [pc EXCEPT ![b] = "flushed"]
    <3>1. pc'[b] = "flushed"
      BY <1>t, <2>3 DEF TypeOK
    <3>2. IInv'
      BY NextIInv
    <3>3. truncated'[b] = logged'[b] /\ b \notin wait_for_flushing'
      BY <3>1, <3>2 DEF IInv, Idle
    <3>4. \A k \in 1 .. logged'[b] : DL!InSeq(<<b, k>>, file') \/ <<b, k>> \in lost'
      BY <3>2, <3>3, ZenonT(60) DEF IInv, Placed, Dealt, DL!InSeq
    <3>5. DL!Flushed(b, logged[b])
      BY <2>1, <3>4 DEF DL!Flushed
    <3>6. b \in waiting /\ waiting' = waiting \ {b}
      BY <1>t, <2>1, <2>3 DEF TypeOK, waiting
    <3> QED
      BY <2>1, <3>5, <3>6 DEF DL!Return
  <2> QED
    BY <1>3, <2>2, <2>3 DEF WaitForFlushing
<1>4. ASSUME NEW b \in Backends, IsInLoggingMode(b) \/ GetBackendLogger(b) \/ RemoveBackendLogger(b)
      PROVE UNCHANGED DL!vars
  <2>1. UNCHANGED <<logged, file, lost>>
    BY <1>4, ZenonT(60) DEF IsInLoggingMode, GetBackendLogger, RemoveBackendLogger, backendVars, fileVars
  <2>2. waiting' = waiting
    <3>1. CASE IsInLoggingMode(b)
      BY <1>t, <3>1 DEF TypeOK, IsInLoggingMode, waiting
    <3>2. CASE GetBackendLogger(b)
      <4>1. pc[b] = "get_logger" /\ pc' = [pc EXCEPT ![b] = "log"]
        BY <3>2 DEF GetBackendLogger
      <4> QED
        BY <1>t, <4>1 DEF TypeOK, waiting
    <3>3. CASE RemoveBackendLogger(b)
      BY <3>3 DEF RemoveBackendLogger, backendVars, waiting
    <3> QED
      BY <1>4, <3>1, <3>2, <3>3
  <2> QED
    BY <1>1, <2>1, <2>2
<1>5. CASE FlushLogRecords
  <2>1. PICK n \in 0 .. Len(global_queue) : file' = file \o SubSeq(global_queue, 1, n)
    BY <1>5, SMTT(60) DEF FlushLogRecords
  <2>2. lost \subseteq lost' /\ UNCHANGED <<logged, pc, truncated>>
    BY <1>5 DEF FlushLogRecords, backendVars, queueVars
  <2>3. waiting' = waiting
    BY <2>2 DEF waiting
  <2>4. Len(file) <= Len(file') /\ \A i \in 1 .. Len(file) : file'[i] = file[i]
    BY <1>t, <2>1 DEF TypeOK
  <2>5. IInv'
    BY NextIInv
  <2>6. \A i \in 1 .. Len(file') : \E b \in Backends : \E k \in 1 .. logged[b] : file'[i] = <<b, k>>
    <3> SUFFICES ASSUME NEW i \in 1 .. Len(file')
                 PROVE \E b \in Backends : \E k \in 1 .. logged[b] : file'[i] = <<b, k>>
      OBVIOUS
    <3>1. file'[i] \in Backends \X Nat
      BY <2>5 DEF IInv, TypeOK
    <3>2. file'[i][2] \in 1 .. truncated'[file'[i][1]]
      BY <2>5 DEF IInv, Numbered
    <3>3. PICK b \in Backends, k \in Nat : file'[i] = <<b, k>>
      BY <3>1
    <3>4. k \in 1 .. truncated[b] /\ truncated[b] <= logged[b]
      BY <2>2, <3>2, <3>3 DEF IInv, Sizes
    <3>5. k \in 1 .. logged[b]
      BY <1>t, <3>4 DEF TypeOK
    <3> QED
      BY <3>3, <3>5
  <2>7. DL!Ordered(file')
    BY <2>5 DEF IInv, Numbered, DL!Ordered
  <2> QED
    BY <2>2, <2>3, <2>4, <2>6, <2>7 DEF DL!Next, DL!Flush
<1>6. CASE Commit
  <2>1. UNCHANGED <<logged, file, lost>>
    BY <1>6 DEF Commit, fileVars
  <2>2. waiting' = waiting
    BY <1>t, <1>6, Visited, SMTT(60) DEF TypeOK, Commit, waiting
  <2> QED
    BY <1>1, <2>1, <2>2
<1>7. ASSUME \/ MainLoop \/ ReadLocalQueueSize \/ TruncateLocalQueue \/ SkipBackend \/ Collected
             \/ Notified \/ TerminateLoggingMode \/ UNCHANGED vars
      PROVE UNCHANGED DL!vars
  <2>1. UNCHANGED <<logged, pc, file, lost>>
    BY <1>7, ZenonT(60) DEF MainLoop, ReadLocalQueueSize, TruncateLocalQueue, SkipBackend, Collected,
         Notified, TerminateLoggingMode, vars, backendVars, fileVars
  <2>2. waiting' = waiting
    BY <2>1 DEF waiting
  <2> QED
    BY <1>1, <2>1, <2>2
<1> QED
  BY <1>2, <1>3, <1>4, <1>5, <1>6, <1>7, ZenonT(60) DEF Next, Backend, Frontend, DL!Next

(* The queues, the flush and the handshake implement the promise of        *)
(* DurableLog.                                                             *)
THEOREM Refinement == Spec => ImplementsDurableLog
<1>1. Init => DL!Init
  BY DEF Init, DL!Init, waiting
<1> QED
  BY <1>1, StepImplements, Invariance, PTL DEF Spec, ImplementsDurableLog, DL!Spec

=============================================================================
