---------------------------- MODULE HashTableSpec ----------------------------
(***************************************************************************)
(* What the hash table promises its callers (the HashTable<K, V> interface *)
(* of the buffer pool's page table, spec sections 4.2 and 8): a map from  *)
(* keys to values.  Each call takes effect at once.  Insert overwrites    *)
(* the value of a present key, Find returns the value of the latest       *)
(* Insert of its key or false, and Remove reports whether the key was     *)
(* there.  ret[t] is what thread t's latest call returned.                *)
(***************************************************************************)
EXTENDS FiniteSets, Functions, TLC

CONSTANTS Threads, Keys, Values, NoValue

VARIABLES table, ret

vars == <<table, ret>>

Answer(t, r) == ret' = [ret EXCEPT ![t] = r]

Init ==
    /\ table = <<>>
    /\ ret = [t \in Threads |-> NoValue]

Insert(t, k, v) ==
    /\ table' = (k :> v) @@ table
    /\ Answer(t, NoValue)

Find(t, k) ==
    /\ Answer(t, IF k \in DOMAIN table THEN table[k] ELSE "false")
    /\ UNCHANGED table

Remove(t, k) ==
    /\ table' = Restrict(table, DOMAIN table \ {k})
    /\ Answer(t, IF k \in DOMAIN table THEN "true" ELSE "false")

Next ==
    \E t \in Threads, k \in Keys :
        \/ \E v \in Values : Insert(t, k, v)
        \/ Find(t, k)
        \/ Remove(t, k)

Spec == Init /\ [][Next]_vars

=============================================================================
