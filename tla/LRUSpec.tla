------------------------------ MODULE LRUSpec -------------------------------
(***************************************************************************)
(* What the LRU victim selector promises (spec section 4.1): the values   *)
(* it holds form a recency list, most recent first.  Insert moves or adds *)
(* a value at the front, Victim takes the last one, Erase removes one.    *)
(* result records the last call and what it returned.                     *)
(***************************************************************************)
EXTENDS Integers, Sequences

CONSTANTS Values, NoVal

VARIABLES list, result

vars == <<list, result>>

Without(s, v) == SelectSeq(s, LAMBDA x : x # v)
Holds(v) == \E i \in 1 .. Len(list) : list[i] = v

Init ==
    /\ list = <<>>
    /\ result = [op |-> "none", val |-> NoVal, ok |-> FALSE, n |-> 0]

Insert(v) ==
    /\ list' = <<v>> \o Without(list, v)
    /\ result' = [op |-> "Insert", val |-> v, ok |-> TRUE, n |-> 0]

Victim ==
    \/ /\ list = <<>>
       /\ result' = [op |-> "Victim", val |-> NoVal, ok |-> FALSE, n |-> 0]
       /\ UNCHANGED list
    \/ /\ list # <<>>
       /\ list' = SubSeq(list, 1, Len(list) - 1)
       /\ result' = [op |-> "Victim", val |-> list[Len(list)], ok |-> TRUE, n |-> 0]

Erase(v) ==
    /\ list' = Without(list, v)
    /\ result' = [op |-> "Erase", val |-> v, ok |-> Holds(v), n |-> 0]

Size ==
    /\ UNCHANGED list
    /\ result' = [op |-> "Size", val |-> NoVal, ok |-> TRUE, n |-> Len(list)]

Next == Victim \/ Size \/ \E v \in Values : Insert(v) \/ Erase(v)

Spec == Init /\ [][Next]_vars

=============================================================================
