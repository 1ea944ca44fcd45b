------------------------- MODULE MC_ExtendibleHash -------------------------
EXTENDS ExtendibleHash

CONSTANTS t1, t2, v1, v2

MCThreadsOne == {t1}
MCThreadsTwo == {t1, t2}
MCValues == {v1, v2}
\* The directory's shape does not depend on the values stored.
MCValuesOne == {v1}
MCKeys == 0 .. 3
MCBucketIds == 0 .. 4
MCKeysSmall == 0 .. 2
MCBucketIdsSmall == 0 .. 3
MCSymmetry == Permutations(MCValues) \cup Permutations(MCThreadsTwo)
=============================================================================
