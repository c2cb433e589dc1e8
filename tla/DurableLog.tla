----------------------------- MODULE DurableLog -----------------------------
(***************************************************************************)
(* What the loggers promise: each backend appends records to a log of its  *)
(* own, the records reach one file, those of a backend in the order it     *)
(* logged them, and a backend that asked to wait goes on only when all its *)
(* records are in the file, or were lost when a write to it failed.        *)
(* Nothing is said about the order of records of different backends.       *)
(***************************************************************************)
EXTENDS Naturals, Sequences

CONSTANT Backends

VARIABLES
  logged,   \* how many records each backend has logged
  file,     \* the records on disk, <<backend, number>>
  waiting,  \* backends that wait for their records to be flushed
  lost      \* records that a failed write has dropped

vars == <<logged, file, waiting, lost>>

InSeq(r, q) == \E i \in 1 .. Len(q) : q[i] = r

\* The records 1 .. n of b have been dealt with.
Flushed(b, n) == \A k \in 1 .. n : InSeq(<<b, k>>, file) \/ <<b, k>> \in lost

\* Records of one backend are in order, none twice.
Ordered(q) ==
  \A i, j \in 1 .. Len(q) : i < j /\ q[i][1] = q[j][1] => q[i][2] < q[j][2]

Init ==
  /\ logged = [b \in Backends |-> 0]
  /\ file = <<>>
  /\ waiting = {}
  /\ lost = {}

Log(b) ==
  /\ b \notin waiting
  /\ logged' = [logged EXCEPT ![b] = @ + 1]
  /\ UNCHANGED <<file, lost>>

\* A backend logs its last record and waits.
LogAndWait(b) == Log(b) /\ waiting' = waiting \cup {b}

LogOnly(b) == Log(b) /\ UNCHANGED waiting

Flush ==
  /\ Len(file) <= Len(file')
  /\ \A i \in 1 .. Len(file) : file'[i] = file[i]
  /\ \A i \in 1 .. Len(file') : \E b \in Backends : \E n \in 1 .. logged[b] : file'[i] = <<b, n>>
  /\ Ordered(file')
  /\ lost \subseteq lost'
  /\ UNCHANGED <<logged, waiting>>

Return(b) ==
  /\ b \in waiting
  /\ Flushed(b, logged[b])
  /\ waiting' = waiting \ {b}
  /\ UNCHANGED <<logged, file, lost>>

Next ==
  \/ \E b \in Backends : LogAndWait(b) \/ LogOnly(b) \/ Return(b)
  \/ Flush

Spec == Init /\ [][Next]_vars
=============================================================================
