---------------------------- MODULE LRUReplacer ----------------------------
(***************************************************************************)
(* The LRU replacer of scudb (src/Homework2/scudb/src/buffer/             *)
(* lru_replacer.cpp): a doubly linked list of DLinkedNode (head = most    *)
(* recent) with an index from value to node.  Every public method holds   *)
(* latch for its whole body, so each is one step.                         *)
(*                                                                         *)
(* The state is one record lru with the fields of the class: head, tail,  *)
(* size, index, and the nodes' pre, next and value.  Nodes are the        *)
(* objects make_shared can return; a node is live while index holds it   *)
(* (erase and Victim drop the last shared_ptr to it), and a new node      *)
(* takes the lowest id not live.  Nil is nullptr, and index[v] = Nil is   *)
(* index.find(v) == index.end().                                          *)
(***************************************************************************)
EXTENDS Integers, Sequences, FiniteSets, FiniteSetsExt, Functions

CONSTANTS
    Values,     \* the values T held (page pointers, or ints in the tests)
    Nodes       \* identities of DLinkedNode objects

Nil == 0
NoVal == 0

ASSUME Nil \notin Nodes /\ NoVal \notin Values

VARIABLES
    lru,        \* [head, tail, size, index, pre, next, value]
    result      \* the last call and what it returned

vars == <<lru, result>>

Ret(o, v, ok, n) == [op |-> o, val |-> v, ok |-> ok, n |-> n]

Live(s) == Range(s.index) \ {Nil}

-----------------------------------------------------------------------------
(* The private helpers, as functions from a state to a state.             *)

\* erase(value), lines 123-142: unlink ptr from the list, in one of four
\* cases.
UnlinkHeadKeepPre(s, ptr) ==
    CASE ptr = s.head /\ ptr = s.tail -> [s EXCEPT !.head = Nil, !.tail = Nil]
      [] ptr = s.head -> [s EXCEPT !.head = s.next[ptr]]
      [] ptr = s.tail -> [s EXCEPT !.next[s.pre[ptr]] = Nil, !.tail = s.pre[ptr]]
      [] OTHER -> [s EXCEPT !.next[s.pre[ptr]] = s.next[ptr], !.pre[s.next[ptr]] = s.pre[ptr]]

Unlink(s, ptr) ==
    CASE ptr = s.head /\ ptr = s.tail -> [s EXCEPT !.head = Nil, !.tail = Nil]
      [] ptr = s.head -> [s EXCEPT !.pre[s.next[ptr]] = Nil, !.head = s.next[ptr]]
      [] ptr = s.tail -> [s EXCEPT !.next[s.pre[ptr]] = Nil, !.tail = s.pre[ptr]]
      [] OTHER -> [s EXCEPT !.next[s.pre[ptr]] = s.next[ptr], !.pre[s.next[ptr]] = s.pre[ptr]]

\* erase(value), lines 143-147: clear ptr's links, drop it from index.
Drop(s, ptr, v) ==
    [s EXCEPT !.pre[ptr] = Nil, !.next[ptr] = Nil, !.index[v] = Nil, !.size = @ - 1]

\* erase(value), lines 114-149: nothing happens if value is not indexed.
erase(s, v) ==
    LET ptr == s.index[v] IN
    IF ptr = Nil THEN s ELSE Drop(Unlink(s, ptr), ptr, v)

\* insertAtHead(node), lines 33-52 (node is never nullptr here).
insertAtHead(s, node) ==
    LET linked == [s EXCEPT !.pre[node] = Nil, !.next[node] = s.head]
        back == IF s.head # Nil THEN [linked EXCEPT !.pre[s.head] = node] ELSE linked
    IN [back EXCEPT !.head = node,
                    !.tail = IF s.tail = Nil THEN node ELSE @,
                    !.index[s.value[node]] = node,
                    !.size = @ + 1]

-----------------------------------------------------------------------------

Init ==
    /\ lru = [head |-> Nil, tail |-> Nil, size |-> 0,
              index |-> [v \in Values |-> Nil],
              pre |-> [n \in Nodes |-> Nil], next |-> [n \in Nodes |-> Nil],
              value |-> [n \in Nodes |-> NoVal]]
    /\ result = Ret("none", NoVal, FALSE, 0)

\* Insert(value), lines 57-63: erase it, then put a new node at the head.
Insert(v) ==
    LET s == erase(lru, v)
        node == Min(Nodes \ Live(s))
    IN
    /\ Live(s) # Nodes
    /\ lru' = insertAtHead([s EXCEPT !.value[node] = v], node)
    /\ result' = Ret("Insert", v, TRUE, 0)

\* Victim, lines 92-93: index.erase(value); size--.
Forget(s, v) == [s EXCEPT !.index[v] = Nil, !.size = @ - 1]

\* Victim(value), lines 68-96.
VictimHead ==
    \/ /\ lru.size = 0
       /\ result' = Ret("Victim", NoVal, FALSE, 0)
       /\ UNCHANGED lru
    \/ /\ lru.size # 0
       /\ lru' = erase(lru, lru.value[lru.head])
       /\ result' = Ret("Victim", lru.value[lru.head], TRUE, 0)

\* Victim, lines 78-83 and 84-91: the tail leaves the list, which is
\* either its only node or has a predecessor.
PopOnlyKeepHead(s) == [s EXCEPT !.tail = Nil]
PopOnly(s) == [s EXCEPT !.head = Nil, !.tail = Nil]

PopTail(s) ==
    LET discard == s.tail IN
    [s EXCEPT !.next[s.pre[discard]] = Nil, !.tail = s.pre[discard], !.pre[discard] = Nil]

Victim ==
    \/ /\ lru.size = 0
       /\ result' = Ret("Victim", NoVal, FALSE, 0)
       /\ UNCHANGED lru
    \/ /\ lru.size # 0
       /\ \/ lru.head = lru.tail /\ lru' = PopOnly(Forget(lru, lru.value[lru.head]))
          \/ lru.head # lru.tail /\ lru' = PopTail(Forget(lru, lru.value[lru.tail]))
       /\ result' = Ret("Victim", lru.value[lru.tail], TRUE, 0)

\* Erase(value), lines 102-106.
Erase(v) ==
    /\ lru' = erase(lru, v)
    /\ result' = Ret("Erase", v, lru.index[v] # Nil, 0)

\* Size(), lines 108-112.
Size ==
    /\ UNCHANGED lru
    /\ result' = Ret("Size", NoVal, TRUE, lru.size)

Next == Victim \/ Size \/ \E v \in Values : Insert(v) \/ Erase(v)

Spec == Init /\ [][Next]_vars

-----------------------------------------------------------------------------
(* Properties.                                                              *)

\* The values met walking next from n, at most fuel nodes.
RECURSIVE Chain(_, _, _)
Chain(s, n, fuel) ==
    IF n = Nil \/ fuel = 0 THEN <<>> ELSE <<n>> \o Chain(s, s.next[n], fuel - 1)

List == Chain(lru, lru.head, Cardinality(Nodes) + 1)

\* A pointer is nullptr or to a live node.
TypeOK ==
    /\ lru.head \in Live(lru) \cup {Nil} /\ lru.tail \in Live(lru) \cup {Nil}
    /\ lru.size \in 0 .. Cardinality(Values)
    /\ lru.index \in [Values -> Nodes \cup {Nil}]
    /\ lru.pre \in [Nodes -> Nodes \cup {Nil}] /\ lru.next \in [Nodes -> Nodes \cup {Nil}]
    /\ lru.value \in [Nodes -> Values \cup {NoVal}]

\* The list is well formed whatever sequence of calls came before: the
\* walk from head along next meets size distinct nodes and stops at tail;
\* pre is next reversed; and index maps each value to the one list node
\* that holds it, and nothing else.  Each of erase's four cases and both of
\* Victim's must rewire exactly the right pointers for this to hold.
ListWellFormed ==
    LET l == List IN
    /\ Len(l) = lru.size
    /\ Cardinality(Range(l)) = lru.size
    /\ lru.tail = IF l = <<>> THEN Nil ELSE l[Len(l)]
    /\ lru.head = Nil \/ lru.pre[lru.head] = Nil
    /\ \A i \in 1 .. Len(l) - 1 : lru.pre[l[i + 1]] = l[i]
    /\ \A v \in Values :
          lru.index[v] = IF \E i \in 1 .. Len(l) : lru.value[l[i]] = v
                         THEN CHOOSE n \in Range(l) : lru.value[n] = v
                         ELSE Nil

\* The linked list implements the recency list of the spec: the values
\* from head to tail are the abstract list, and every call returns what
\* the abstract call returns.
Abstract == INSTANCE LRUSpec WITH
    list <- [i \in 1 .. Len(List) |-> lru.value[List[i]]]

LRURefinement == Abstract!Spec

=============================================================================
