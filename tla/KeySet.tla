------------------------------- MODULE KeySet -------------------------------
(***************************************************************************)
(* What the B+-tree index promises its callers (b_plus_tree.cpp public     *)
(* contract): a set of unique keys; Insert succeeds iff the key is absent, *)
(* Remove deletes it if present, GetValue reports whether it is present.   *)
(* Each operation records <<operation, key, returned value>> in result    *)
(* (FALSE for Remove, which returns nothing).                            *)
(***************************************************************************)
EXTENDS FiniteSets

CONSTANTS Keys

VARIABLES keys, result

vars == <<keys, result>>

NoResult == <<"none", 0, FALSE>>

Init ==
    /\ keys = {}
    /\ result = NoResult

Insert(k) ==
    /\ keys' = keys \cup {k}
    /\ result' = <<"Insert", k, k \notin keys>>

Remove(k) ==
    /\ keys' = keys \ {k}
    /\ result' = <<"Remove", k, FALSE>>

GetValue(k) ==
    /\ UNCHANGED keys
    /\ result' = <<"GetValue", k, k \in keys>>

Next == \E k \in Keys : Insert(k) \/ Remove(k) \/ GetValue(k)

Spec == Init /\ [][Next]_vars
=============================================================================
