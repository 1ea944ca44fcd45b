----------------------- MODULE MC_BPlusTreeConcurrent -----------------------
EXTENDS BPlusTreeConcurrent, TLC

CONSTANTS t1, t2

MCThreadsOne == {t1}
MCThreadsTwo == {t1, t2}
MCKeys == 1 .. 4
MCPageIds == 1 .. 8
\* Key 1 is never removed, so the tree never becomes empty.
MCInitKeys == {1, 2, 3}
MCRemoveKeys == 2 .. 4
\* A full root over four leaves: inserting 5 splits it.
MCKeysDeep == 1 .. 5
MCPageIdsDeep == 1 .. 12
MCInitKeysDeep == 1 .. 4
MCRemoveKeysDeep == 2 .. 5
\* Every key may be removed: the tree can become empty.
MCRemoveKeysAll == 1 .. 4
\* Three keys, every one removable, two preloaded: the tree grows to two
\* levels, merges back, empties and restarts.
MCKeysTiny == 1 .. 3
MCInitKeysTiny == {1, 2}
MCPageIdsTiny == 1 .. 6
\* Callers that take no iterators, and ones that call Begin() and
\* Begin(key) for keys on either side of the preloaded leaves' splits.
MCBeginKeysNone == {}
MCBeginKeysDeep == {2, 5}
MCSymmetry == Permutations(MCThreadsTwo)
=============================================================================
