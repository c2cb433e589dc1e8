------------------------------- MODULE Multimap -------------------------------
(***************************************************************************)
(* What an index promises its callers, index/index.h: a multimap from keys *)
(* to tuple locations in which every insertion and every deletion takes    *)
(* effect at one instant between its call and its return.                  *)
(*                                                                         *)
(* index/btree_index.cpp is this specification with unique = FALSE: a      *)
(* readers-writer lock is held for the whole of every operation, insertion *)
(* adds a copy of the entry and deletion erases all its copies.  BwTree    *)
(* implements it without a lock.                                           *)
(***************************************************************************)
EXTENDS Naturals

CONSTANTS Threads, Keys, Values,
  unique            \* HasUniqueKeys(): an insertion of a present key is refused

VARIABLES
  content,          \* how many copies of each <key, value> the index holds
  request           \* the call each thread is in

vars == <<content, request>>

NoValues == [v \in Values |-> 0]

NoRequest == [kind |-> "none", key |-> 0, value |-> 0]
Requests ==
  [kind : {"insert", "delete"}, key : Keys, value : Values]
    \cup [kind : {"get"}, key : Keys, value : {0}]
    \cup [kind : {"scan"}, key : {0}, value : {0}]

Init ==
  /\ content = [k \in Keys |-> NoValues]
  /\ request = [t \in Threads |-> NoRequest]

(* A thread enters the index.                                              *)
Call(t) ==
  /\ request[t] = NoRequest
  /\ \E r \in Requests : request' = [request EXCEPT ![t] = r]
  /\ UNCHANGED content

Leave(t) == request' = [request EXCEPT ![t] = NoRequest]

(* The insertion takes effect, and the call will answer true.              *)
InsertEntry(t) ==
  LET r == request[t] IN
  /\ r.kind = "insert" /\ Leave(t)
  /\ unique => content[r.key] = NoValues
  /\ content' = [content EXCEPT ![r.key][r.value] = @ + 1]

(* The insertion is refused: the index is unique and has the key.          *)
InsertRefused(t) ==
  /\ request[t].kind = "insert" /\ Leave(t)
  /\ unique /\ content[request[t].key] # NoValues
  /\ UNCHANGED content

(* The deletion takes effect: no copy of the entry is left.                *)
DeleteEntry(t) ==
  LET r == request[t] IN
  /\ r.kind = "delete" /\ Leave(t)
  /\ content[r.key][r.value] > 0
  /\ content' = [content EXCEPT ![r.key][r.value] = 0]

(* There is nothing to delete.                                             *)
DeleteRefused(t) ==
  LET r == request[t] IN
  /\ r.kind = "delete" /\ Leave(t)
  /\ content[r.key][r.value] = 0
  /\ UNCHANGED content

(* A look-up or a scan changes nothing; what it may return is stated of    *)
(* the implementation, which does not read at one instant.                 *)
Read(t) ==
  /\ request[t].kind \in {"get", "scan"} /\ Leave(t)
  /\ UNCHANGED content

Next ==
  \E t \in Threads :
    \/ Call(t)
    \/ InsertEntry(t) \/ InsertRefused(t)
    \/ DeleteEntry(t) \/ DeleteRefused(t)
    \/ Read(t)

Spec == Init /\ [][Next]_vars
=============================================================================
