--------------------------- MODULE MC_LRUReplacer ---------------------------
EXTENDS LRUReplacer

MCValues == 1 .. 4
MCNodes == 1 .. 4
=============================================================================
