----------------------------- MODULE CommitOrder -----------------------------
(***************************************************************************)
(* What the transaction manager promises to the rest of the system, with   *)
(* no word on how: commit ids are handed out one after the other, a        *)
(* transaction is published only when its modifications are installed, and *)
(* publication follows the order of the commit ids, so that a snapshot     *)
(* (the last published id) names a prefix of the committed transactions    *)
(* whose effects are all in place.                                         *)
(***************************************************************************)
EXTENDS Naturals

CONSTANT Txns      \* the transactions

VARIABLES
  phase,           \* what each transaction is doing
  commitId,        \* the commit id of each transaction, 0 before it has one
  lastId,          \* the commit id handed out last
  published,       \* the commit ids up to this one are published
  snapshot         \* what was published when the transaction began

vars == <<phase, commitId, lastId, published, snapshot>>

Phases == {"idle", "running", "installing", "installed", "aborted"}

FirstId == 1

Init ==
  /\ phase = [t \in Txns |-> "idle"]
  /\ commitId = [t \in Txns |-> 0]
  /\ lastId = FirstId
  /\ published = FirstId
  /\ snapshot = [t \in Txns |-> 0]

Begin(t) ==
  /\ phase[t] = "idle"
  /\ phase' = [phase EXCEPT ![t] = "running"]
  /\ snapshot' = [snapshot EXCEPT ![t] = published]
  /\ UNCHANGED <<commitId, lastId, published>>

GetCommitId(t) ==
  /\ phase[t] = "running"
  /\ phase' = [phase EXCEPT ![t] = "installing"]
  /\ lastId' = lastId + 1
  /\ commitId' = [commitId EXCEPT ![t] = lastId + 1]
  /\ UNCHANGED <<published, snapshot>>

Install(t) ==
  /\ phase[t] = "installing"
  /\ phase' = [phase EXCEPT ![t] = "installed"]
  /\ UNCHANGED <<commitId, lastId, published, snapshot>>

\* Any thread may publish t; the promise is only about when it may happen.
Publish(t) ==
  /\ phase[t] = "installed"
  /\ commitId[t] = published + 1
  /\ published' = published + 1
  /\ UNCHANGED <<phase, commitId, lastId, snapshot>>

Abort(t) ==
  /\ phase[t] = "running"
  /\ phase' = [phase EXCEPT ![t] = "aborted"]
  /\ UNCHANGED <<commitId, lastId, published, snapshot>>

Next ==
  \E t \in Txns : Begin(t) \/ GetCommitId(t) \/ Install(t) \/ Publish(t) \/ Abort(t)

Spec == Init /\ [][Next]_vars
=============================================================================
