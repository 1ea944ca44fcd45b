---------------------------- MODULE MC_BPlusTree ----------------------------
EXTENDS BPlusTree

MCKeys == 1 .. 6
MCPageIds == 1 .. 12
=============================================================================
