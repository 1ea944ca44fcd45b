----------------------------- MODULE BPlusTree -----------------------------
(***************************************************************************)
(* The B+-tree of scudb (src/Homework3/scudb/src/index/b_plus_tree.cpp,    *)
(* page/b_plus_tree_internal_page.cpp, page/b_plus_tree_page.cpp) as a     *)
(* sequential state machine: each public operation (Insert, Remove,       *)
(* GetValue) is one atomic step including its split / coalesce /          *)
(* redistribute propagation and the page deletions done when the          *)
(* transaction's page set is released.                                    *)
(*                                                                         *)
(* A page is a record: type ("leaf", "internal" or "free"), arr (the pair  *)
(* array, 0-based slot i of the code is arr[i+1]), parent and next page    *)
(* ids.  The operators take and return a tree value t = [node, root,       *)
(* deleted] so that BPlusTreeConcurrent can apply the same code.           *)
(*                                                                         *)
(* The leaf page (b_plus_tree_leaf_page.cpp) is not part of the sources;   *)
(* its operators (prefix Leaf) follow spec.md section 4.3.                 *)
(***************************************************************************)
EXTENDS Integers, Sequences, FiniteSets, FiniteSetsExt

LOCAL SE == INSTANCE SequencesExt

CONSTANTS
    Keys,             \* keys that callers insert, a set of positive integers
    PageIds,          \* page ids the buffer pool can hand out
    LeafMaxSize,      \* leaf max_size_
    InternalMaxSize   \* internal max_size_

ASSUME Keys \subseteq Nat \ {0} /\ LeafMaxSize >= 2 /\ InternalMaxSize >= 3

VARIABLES
    node,    \* node[p]: the B+-tree page held in frame p
    root,    \* root_page_id_
    result   \* <<operation, key, returned value>> of the last operation

vars == <<node, root, result>>

INVALID_PAGE_ID == -1
ZeroKey == 0           \* key of a pair slot that NewPage left zeroed
NoResult == <<"none", 0, FALSE>>

Pair(k, v) == [key |-> k, val |-> v]
FreeFrame == [type |-> "free", arr |-> <<>>, parent |-> INVALID_PAGE_ID,
              next |-> INVALID_PAGE_ID]
Page == [type : {"leaf", "internal", "free"},
         arr : Seq([key : Keys \cup {ZeroKey}, val : Keys \cup PageIds]),
         parent : PageIds \cup {INVALID_PAGE_ID},
         next : PageIds \cup {INVALID_PAGE_ID}]

\* The tree as seen at the start of an operation.
Tree == [node |-> node, root |-> root, deleted |-> {}]

-----------------------------------------------------------------------------
(* BPlusTreePage accessors (b_plus_tree_page.cpp).                         *)

IsLeafPage(t, p) == t.node[p].type = "leaf"
IsRootPage(t, p) == t.node[p].parent = INVALID_PAGE_ID
GetSize(t, p) == Len(t.node[p].arr)
GetMaxSize(t, p) == IF IsLeafPage(t, p) THEN LeafMaxSize ELSE InternalMaxSize

GetMinSize(t, p) ==
    IF ~IsRootPage(t, p) THEN GetMaxSize(t, p) \div 2
    ELSE IF IsLeafPage(t, p) THEN 1 ELSE 2

\* Mutant: an internal page at min size + 1 counts as safe for a delete.
IsSafeInternalAtMinPlusOne(t, p, op) ==
    IF op = "INSERT" THEN GetSize(t, p) < GetMaxSize(t, p)
    ELSE IF IsLeafPage(t, p) THEN GetSize(t, p) >= GetMinSize(t, p) + 1
    ELSE GetSize(t, p) >= GetMinSize(t, p) + 1

\* IsSafe(op): the page will not split (INSERT) or underflow (DELETE).
IsSafe(t, p, op) ==
    IF op = "INSERT" THEN GetSize(t, p) < GetMaxSize(t, p)
    ELSE IF IsLeafPage(t, p) THEN GetSize(t, p) >= GetMinSize(t, p) + 1
    ELSE GetSize(t, p) > GetMinSize(t, p) + 1

KeyAt(t, p, i) == t.node[p].arr[i + 1].key
ValueAt(t, p, i) == t.node[p].arr[i + 1].val

SetParentPageId(t, ps, par) ==
    [t EXCEPT !.node = [q \in PageIds |->
                          IF q \in ps THEN [t.node[q] EXCEPT !.parent = par]
                          ELSE t.node[q]]]

Children(t, p) ==
    IF IsLeafPage(t, p) THEN {} ELSE {ValueAt(t, p, i) : i \in 0 .. GetSize(t, p) - 1}

\* The buffer pool's NewPage: some frame not in use (the lowest id).
FreePages(t) == {p \in PageIds : t.node[p].type = "free"}
NewPageId(t) == Min(FreePages(t))

-----------------------------------------------------------------------------
(* BPlusTreeInternalPage (b_plus_tree_internal_page.cpp).                  *)

ValueIndex(t, p, v) ==
    LET is == {i \in 0 .. GetSize(t, p) - 1 : ValueAt(t, p, i) = v}
    IN IF is = {} THEN -1 ELSE Min(is)

\* Mutant: the search treats a key equal to a separator as left of it.
LookupStrict(t, p, k) ==
    ValueAt(t, p, Max({0} \cup {i \in 1 .. GetSize(t, p) - 1 : KeyAt(t, p, i) < k}))

\* Binary search over slots 1..size-1: the child of the last separator <= k.
Lookup(t, p, k) ==
    ValueAt(t, p, Max({0} \cup {i \in 1 .. GetSize(t, p) - 1 : KeyAt(t, p, i) <= k}))

\* Init(page_id, parent_id) of a fresh internal page: size 0, that parent.
InternalInit(t, p, parentId) ==
    [t EXCEPT !.node[p] = [FreeFrame EXCEPT !.type = "internal", !.parent = parentId]]

\* Remove(index): the pairs after index shift down by one.
InternalRemove(t, p, index) == [t EXCEPT !.node[p].arr = SE!RemoveAt(@, index + 1)]

\* RemoveAndReturnOnlyChild: size drops to 0; the caller has read ValueAt(0).
RemoveAndReturnOnlyChild(t, p) == [t EXCEPT !.node[p].arr = <<>>]

PopulateNewRoot(oldValue, newKey, newValue) ==
    <<Pair(ZeroKey, oldValue), Pair(newKey, newValue)>>

InsertNodeAfter(t, p, oldValue, newKey, newValue) ==
    [t EXCEPT !.node[p].arr =
        SE!InsertAt(@, ValueIndex(t, p, oldValue) + 2, Pair(newKey, newValue))]

\* Mutant: an off-by-one split point leaves the new page one child.
MoveHalfToLastOnly(t, p, r) ==
    LET total == GetSize(t, p)
        moved == SubSeq(t.node[p].arr, total, total)
        t1 == [t EXCEPT !.node[r].arr = moved,
                        !.node[p].arr = SubSeq(@, 1, total - 1)]
    IN SetParentPageId(t1, {e.val : e \in SE!ToSet(moved)}, r)

\* Moves slots total/2 .. total-1 to recipient r and re-parents their children.
MoveHalfTo(t, p, r) ==
    LET total == GetSize(t, p)
        copyIdx == total \div 2
        moved == SubSeq(t.node[p].arr, copyIdx + 1, total)
        t1 == [t EXCEPT !.node[r].arr = moved,
                        !.node[p].arr = SubSeq(@, 1, copyIdx)]
    IN SetParentPageId(t1, {e.val : e \in SE!ToSet(moved)}, r)

\* Mutant: merged children keep their old parent_page_id_.
MoveAllToNoReparent(t, p, r, indexInParent) ==
    LET moved == [t.node[p].arr EXCEPT ![1].key =
                     KeyAt(t, t.node[p].parent, indexInParent)]
    IN [t EXCEPT !.node[r].arr = @ \o moved, !.node[p].arr = <<>>]

\* The separator from the parent descends into slot 0, then all pairs move.
MoveAllTo(t, p, r, indexInParent) ==
    LET moved == [t.node[p].arr EXCEPT ![1].key =
                     KeyAt(t, t.node[p].parent, indexInParent)]
        t1 == [t EXCEPT !.node[r].arr = @ \o moved, !.node[p].arr = <<>>]
    IN SetParentPageId(t1, {e.val : e \in SE!ToSet(moved)}, r)

\* Mutant: the donor's separator is set to the key that moved away.
MoveFirstToEndOfStaleSeparator(t, d, r) ==
    LET pair == t.node[d].arr[1]
        par == t.node[d].parent
        t1 == [t EXCEPT !.node[d].arr = Tail(@),
                        !.node[r].arr = Append(@, pair),
                        !.node[pair.val].parent = r]
    IN [t1 EXCEPT !.node[par].arr[ValueIndex(t1, par, d) + 1].key = pair.key]

\* Donor d gives its slot 0 to the end of r; d's separator becomes its new
\* slot-0 key.
MoveFirstToEndOf(t, d, r) ==
    LET pair == t.node[d].arr[1]
        par == t.node[d].parent
        t1 == [t EXCEPT !.node[d].arr = Tail(@),
                        !.node[r].arr = Append(@, pair),
                        !.node[pair.val].parent = r]
    IN [t1 EXCEPT !.node[par].arr[ValueIndex(t1, par, d) + 1].key = KeyAt(t1, d, 0)]

\* Donor d gives its last slot to the front of r; r's separator (slot
\* parentIndex of the parent) becomes the moved key.
MoveLastToFrontOf(t, d, r, parentIndex) ==
    LET pair == SE!Last(t.node[d].arr)
        par == t.node[r].parent
        t1 == [t EXCEPT !.node[d].arr = SE!Front(@),
                        !.node[r].arr = <<pair>> \o @,
                        !.node[pair.val].parent = r]
    IN [t1 EXCEPT !.node[par].arr[parentIndex + 1].key = pair.key]

-----------------------------------------------------------------------------
(* BPlusTreeLeafPage, modelled from spec.md 4.3 (source not available).    *)

LeafInit(t, p, parentId) ==
    [t EXCEPT !.node[p] = [FreeFrame EXCEPT !.type = "leaf", !.parent = parentId]]

LeafLookup(t, p, k) == \E i \in 0 .. GetSize(t, p) - 1 : KeyAt(t, p, i) = k

LeafInsert(t, p, k) ==
    LET pos == Cardinality({i \in 0 .. GetSize(t, p) - 1 : KeyAt(t, p, i) < k})
    IN [t EXCEPT !.node[p].arr = SE!InsertAt(@, pos + 1, Pair(k, k))]

LeafRemoveAndDeleteRecord(t, p, k) ==
    [t EXCEPT !.node[p].arr = SelectSeq(@, LAMBDA e : e.key # k)]

LeafMoveHalfTo(t, p, r) ==
    LET total == GetSize(t, p)
        copyIdx == total \div 2
    IN [t EXCEPT !.node[r].arr = SubSeq(t.node[p].arr, copyIdx + 1, total),
                 !.node[r].next = t.node[p].next,
                 !.node[p].arr = SubSeq(@, 1, copyIdx),
                 !.node[p].next = r]

\* Mutant: the merged leaf does not take over next_page_id.
LeafMoveAllToKeepNext(t, p, r) ==
    [t EXCEPT !.node[r].arr = @ \o t.node[p].arr, !.node[p].arr = <<>>]

LeafMoveAllTo(t, p, r) ==
    [t EXCEPT !.node[r].arr = @ \o t.node[p].arr,
              !.node[r].next = t.node[p].next,
              !.node[p].arr = <<>>]

LeafMoveFirstToEndOf(t, d, r) ==
    LET par == t.node[d].parent
        t1 == [t EXCEPT !.node[d].arr = Tail(@),
                        !.node[r].arr = Append(@, t.node[d].arr[1])]
    IN [t1 EXCEPT !.node[par].arr[ValueIndex(t1, par, d) + 1].key = KeyAt(t1, d, 0)]

LeafMoveLastToFrontOf(t, d, r, parentIndex) ==
    LET pair == SE!Last(t.node[d].arr)
        par == t.node[r].parent
        t1 == [t EXCEPT !.node[d].arr = SE!Front(@), !.node[r].arr = <<pair>> \o @]
    IN [t1 EXCEPT !.node[par].arr[parentIndex + 1].key = pair.key]

-----------------------------------------------------------------------------
(* BPlusTree (b_plus_tree.cpp).                                            *)

\* FindLeafPage: descend from the root by Lookup, or along slot 0.
RECURSIVE DescendFrom(_, _, _, _)
DescendFrom(t, p, k, leftMost) ==
    IF IsLeafPage(t, p) THEN p
    ELSE DescendFrom(t, IF leftMost THEN ValueAt(t, p, 0) ELSE Lookup(t, p, k),
                     k, leftMost)

FindLeafPage(t, k, leftMost) == DescendFrom(t, t.root, k, leftMost)

StartNewTree(t, k) ==
    LET r == NewPageId(t)
    IN LeafInsert([LeafInit(t, r, INVALID_PAGE_ID) EXCEPT !.root = r], r, k)

\* Split(node): a new page n with the same type and parent takes the upper half.
Split(t, p, n) ==
    IF IsLeafPage(t, p) THEN LeafMoveHalfTo(LeafInit(t, n, t.node[p].parent), p, n)
    ELSE MoveHalfTo(InternalInit(t, n, t.node[p].parent), p, n)

RECURSIVE InsertIntoParent(_, _, _, _)
InsertIntoParent(t, old, k, new) ==
    IF IsRootPage(t, old)
    THEN LET r == NewPageId(t)
         IN [InternalInit(t, r, INVALID_PAGE_ID)
               EXCEPT !.node[r].arr = PopulateNewRoot(old, k, new),
                      !.node[old].parent = r,
                      !.node[new].parent = r,
                      !.root = r]
    ELSE LET par == t.node[old].parent
             t1 == InsertNodeAfter([t EXCEPT !.node[new].parent = par],
                                   par, old, k, new)
             n == NewPageId(t1)
             t2 == Split(t1, par, n)
         IN IF GetSize(t1, par) > GetMaxSize(t1, par)
            THEN InsertIntoParent(t2, par, KeyAt(t2, n, 0), n)
            ELSE t1

\* InsertIntoLeaf once FindLeafPage has returned leaf.
InsertIntoLeafAt(t, leaf, k) ==
    LET t1 == LeafInsert(t, leaf, k)
        n == NewPageId(t1)
        t2 == Split(t1, leaf, n)
    IN IF LeafLookup(t, leaf, k) THEN t
       ELSE IF GetSize(t1, leaf) > GetMaxSize(t1, leaf)
            THEN InsertIntoParent(t2, leaf, KeyAt(t2, n, 0), n)
            ELSE t1

InsertIntoLeaf(t, k) == InsertIntoLeafAt(t, FindLeafPage(t, k, FALSE), k)

\* Mutant: the promoted root's parent is set to the header page id.
AdjustRootHeaderParent(t, old) ==
    IF IsLeafPage(t, old)
    THEN [t EXCEPT !.root = INVALID_PAGE_ID]
    ELSE IF GetSize(t, old) = 1
         THEN LET c == ValueAt(t, old, 0)
              IN [t EXCEPT !.node[old].arr = <<>>, !.root = c, !.node[c].parent = 0]
         ELSE t

\* AdjustRoot: an empty root leaf empties the tree; a root with one child
\* is replaced by that child.
AdjustRoot(t, old) ==
    IF IsLeafPage(t, old)
    THEN [t EXCEPT !.root = INVALID_PAGE_ID]
    ELSE IF GetSize(t, old) = 1
         THEN LET c == ValueAt(t, old, 0)
              IN [RemoveAndReturnOnlyChild(t, old) EXCEPT !.root = c,
                           !.node[c].parent = INVALID_PAGE_ID]
         ELSE t

\* FindLeftSibling: the left sibling, or the right one for child 0.
FindLeftSibling(t, p) ==
    LET par == t.node[p].parent
        index == ValueIndex(t, par, p)
    IN ValueAt(t, par, IF index = 0 THEN index + 1 ELSE index - 1)

Redistribute(t, neighbor, p, index) ==
    CASE index = 0 /\ IsLeafPage(t, p)  -> LeafMoveFirstToEndOf(t, neighbor, p)
      [] index = 0                      -> MoveFirstToEndOf(t, neighbor, p)
      [] IsLeafPage(t, p)               -> LeafMoveLastToFrontOf(t, neighbor, p, index)
      [] OTHER                          -> MoveLastToFrontOf(t, neighbor, p, index)

RECURSIVE CoalesceOrRedistribute(_, _)

\* Coalesce, one level: p moves into its left neighbour, its separator leaves
\* the parent and p is marked for deletion.
CoalesceOnce(t, neighbor, p, par, index) ==
    LET t1 == IF IsLeafPage(t, p) THEN LeafMoveAllTo(t, p, neighbor)
              ELSE MoveAllTo(t, p, neighbor, index)
    IN [InternalRemove(t1, par, index) EXCEPT !.deleted = @ \cup {p}]

\* Coalesce recurses when the parent is left at or below its min size.
CoalesceRecurses(t, par) == GetSize(t, par) <= GetMinSize(t, par)

\* CoalesceOrRedistribute of the root: AdjustRoot, and the old root is
\* marked for deletion when it was replaced.
AdjustRootAndDelete(t, p) ==
    LET t1 == AdjustRoot(t, p)
    IN IF t1.root # t.root THEN [t1 EXCEPT !.deleted = @ \cup {p}] ELSE t1

\* p and its sibling fit in one page.
Merges(t, p, sib) == GetSize(t, p) + GetSize(t, sib) <= GetMaxSize(t, p)

\* One level of CoalesceOrRedistribute below the root: merge the right one
\* of p and sib into the left one, or move one pair from sib to p.
MergeOrBorrowOnce(t, p, sib) ==
    LET par == t.node[p].parent
        index == ValueIndex(t, par, p)
    IN IF Merges(t, p, sib)
       THEN IF index = 0
            THEN CoalesceOnce(t, p, sib, par, ValueIndex(t, par, sib))
            ELSE CoalesceOnce(t, sib, p, par, index)
       ELSE Redistribute(t, sib, p, index)

CoalesceOrRedistribute(t, p) ==
    IF IsRootPage(t, p) THEN AdjustRootAndDelete(t, p)
    ELSE LET sib == FindLeftSibling(t, p)
             par == t.node[p].parent
             t1 == MergeOrBorrowOnce(t, p, sib)
         IN IF Merges(t, p, sib) /\ CoalesceRecurses(t1, par)
            THEN CoalesceOrRedistribute(t1, par)
            ELSE t1

\* Mutant: the deleted page set is dropped without DeletePage.
FreePagesInTransactionNoDelete(t) == [t EXCEPT !.deleted = {}]

\* FreePagesInTransaction: pages in the deleted set go back to the pool.
FreePagesInTransaction(t) ==
    [t EXCEPT !.node = [q \in PageIds |->
                          IF q \in t.deleted THEN FreeFrame ELSE t.node[q]],
              !.deleted = {}]

\* Remove's test after RemoveAndDeleteRecord.
Underflows(t, leaf) == GetSize(t, leaf) < GetMinSize(t, leaf)

RemoveFromLeaf(t, k) ==
    LET leaf == FindLeafPage(t, k, FALSE)
        t1 == LeafRemoveAndDeleteRecord(t, leaf, k)
    IN FreePagesInTransaction(
         IF Underflows(t1, leaf) THEN CoalesceOrRedistribute(t1, leaf) ELSE t1)

Begin(t) == FindLeafPage(t, ZeroKey, TRUE)

-----------------------------------------------------------------------------
(* The sequential specification.                                           *)

\* Height of the tree: pages on a root-to-leaf path.
RECURSIVE HeightFrom(_, _)
HeightFrom(t, p) == IF IsLeafPage(t, p) THEN 1 ELSE 1 + HeightFrom(t, ValueAt(t, p, 0))

\* isBalanced (lines 577-606): 0 for a leaf, the children's common depth
\* plus one for an internal page, -1 as soon as a child disagrees with the
\* first non-negative one; "true" (1) on an empty tree.
RECURSIVE isBalanced(_, _), BalancedLoop(_, _, _, _, _)
\* Mutant: the first child's depth is kept without the +1 for this level.
BalancedLoopNoIncrement(t, p, i, last, res) ==
    IF i >= GetSize(t, p) THEN res
    ELSE LET cur == isBalanced(t, ValueAt(t, p, i)) IN
         IF cur >= 0 /\ last = -2 THEN BalancedLoop(t, p, i + 1, cur, cur)
         ELSE IF last # cur THEN -1
         ELSE BalancedLoop(t, p, i + 1, last, res)

BalancedLoop(t, p, i, last, res) ==
    IF i >= GetSize(t, p) THEN res
    ELSE LET cur == isBalanced(t, ValueAt(t, p, i)) IN
         IF cur >= 0 /\ last = -2 THEN BalancedLoop(t, p, i + 1, cur, cur + 1)
         ELSE IF last # cur THEN -1
         ELSE BalancedLoop(t, p, i + 1, last, res)

isBalanced(t, p) ==
    IF t.root = INVALID_PAGE_ID THEN 1
    ELSE IF IsLeafPage(t, p) THEN 0
    ELSE BalancedLoop(t, p, 0, -2, 0)

\* isPageCorr (lines 609-654): res and out = (KeyAt(0), KeyAt(size-1)).  A
\* page is within [GetMinSize, GetMaxSize]; leaf keys do not decrease; each
\* separator i of an internal page exceeds out.second of child i-1, is at
\* most out.first of child i (KeyAt(0) also for an internal child), and
\* exceeds separator i-1.  The && chain stops at the first false, so a
\* child is visited only while everything before it held.  On an empty
\* tree out is left as it was; ZeroKey stands for that.
RECURSIVE isPageCorr(_, _), CorrLoop(_, _, _, _)
CorrLoop(t, p, i, left) ==
    IF i >= GetSize(t, p) THEN TRUE
    ELSE LET right == isPageCorr(t, ValueAt(t, p, i)) IN
         /\ right.res
         /\ KeyAt(t, p, i) > left.out[2] /\ KeyAt(t, p, i) <= right.out[1]
         /\ i = 1 \/ KeyAt(t, p, i - 1) < KeyAt(t, p, i)
         /\ CorrLoop(t, p, i + 1, right)

isPageCorr(t, p) ==
    LET size == GetSize(t, p)
        sizeOk == size >= GetMinSize(t, p) /\ size <= GetMaxSize(t, p)
    IN
    IF t.root = INVALID_PAGE_ID THEN [res |-> TRUE, out |-> <<ZeroKey, ZeroKey>>]
    ELSE [out |-> <<KeyAt(t, p, 0), KeyAt(t, p, size - 1)>>,
          res |-> /\ sizeOk
                  /\ IF IsLeafPage(t, p)
                     THEN \A i \in 1 .. size - 1 : KeyAt(t, p, i - 1) <= KeyAt(t, p, i)
                     ELSE size > 1 => LET left == isPageCorr(t, ValueAt(t, p, 0))
                                      IN left.res /\ CorrLoop(t, p, 1, left)]

\* Model bound: Insert needs a free frame per level plus one for a new root.
CanAllocate(t) ==
    Cardinality(FreePages(t)) >= IF t.root = INVALID_PAGE_ID THEN 1
                                 ELSE HeightFrom(t, t.root) + 1

SetTree(t) == node' = t.node /\ root' = t.root

Init ==
    /\ node = [p \in PageIds |-> FreeFrame]
    /\ root = INVALID_PAGE_ID
    /\ result = NoResult

Insert(k) ==
    /\ CanAllocate(Tree)
    /\ IF root = INVALID_PAGE_ID
       THEN /\ SetTree(StartNewTree(Tree, k))
            /\ result' = <<"Insert", k, TRUE>>
       ELSE /\ SetTree(InsertIntoLeaf(Tree, k))
            /\ result' = <<"Insert", k, ~LeafLookup(Tree, FindLeafPage(Tree, k, FALSE), k)>>

Remove(k) ==
    /\ IF root = INVALID_PAGE_ID THEN UNCHANGED <<node, root>>
       ELSE SetTree(RemoveFromLeaf(Tree, k))
    /\ result' = <<"Remove", k, FALSE>>

GetValue(k) ==
    /\ result' = <<"GetValue", k, root # INVALID_PAGE_ID
                                  /\ LeafLookup(Tree, FindLeafPage(Tree, k, FALSE), k)>>
    /\ UNCHANGED <<node, root>>

Next == \E k \in Keys : Insert(k) \/ Remove(k) \/ GetValue(k)

Spec == Init /\ [][Next]_vars

-----------------------------------------------------------------------------
(* Properties.  Recursive walks carry a fuel bound so that a malformed      *)
(* (cyclic) page graph is reported as a violation, not a stack overflow.   *)

Fuel == Cardinality(PageIds) + 1
KeyLimit == Max(Keys) + 1

RECURSIVE SubtreePages(_, _, _)
SubtreePages(t, p, fuel) ==
    IF fuel = 0 \/ t.node[p].type # "internal" THEN {p}
    ELSE {p} \cup UNION {SubtreePages(t, c, fuel - 1) : c \in Children(t, p)}

TreePages == IF root = INVALID_PAGE_ID THEN {} ELSE SubtreePages(Tree, root, Fuel)
LeafPages == {p \in TreePages : IsLeafPage(Tree, p)}
TreeKeys == UNION {{KeyAt(Tree, p, i) : i \in 0 .. GetSize(Tree, p) - 1} : p \in LeafPages}

TypeOK ==
    /\ node \in [PageIds -> Page]
    /\ root \in PageIds \cup {INVALID_PAGE_ID}
    /\ result \in {NoResult} \cup ({"Insert", "Remove", "GetValue"} \X Keys
                                   \X BOOLEAN)

\* Every subtree lies in the key range its parent's separators give it: the
\* keys of child i are in [K_i, K_i+1), and keys within a page increase.
\* Redistribution and coalescing must carry the right separators.
RECURSIVE Ordered(_, _, _, _, _)
Ordered(t, p, lo, hi, fuel) ==
    /\ fuel > 0
    /\ IF IsLeafPage(t, p)
       THEN \A i \in 0 .. GetSize(t, p) - 1 :
               /\ lo <= KeyAt(t, p, i) /\ KeyAt(t, p, i) < hi
               /\ i > 0 => KeyAt(t, p, i - 1) < KeyAt(t, p, i)
       ELSE \A i \in 0 .. GetSize(t, p) - 1 :
               LET l == IF i = 0 THEN lo ELSE KeyAt(t, p, i)
                   h == IF i = GetSize(t, p) - 1 THEN hi ELSE KeyAt(t, p, i + 1)
               IN l < h /\ Ordered(t, ValueAt(t, p, i), l, h, fuel - 1)

SearchTreeOrder == root # INVALID_PAGE_ID => Ordered(Tree, root, ZeroKey, KeyLimit, Fuel)

\* After every operation each page is within its size bounds (GetMinSize
\* for the page's role, max_size_), and an internal page has at least two
\* children, which internal Lookup asserts.
NodeSizeBounds ==
    \A p \in TreePages :
        /\ GetMinSize(Tree, p) <= GetSize(Tree, p)
        /\ GetSize(Tree, p) <= GetMaxSize(Tree, p)
        /\ ~IsLeafPage(Tree, p) => GetSize(Tree, p) >= 2

\* spec.md section 3: a non-root page holds at least ceil(max_size/2)
\* pairs.  The code's GetMinSize uses max_size_ / 2 rounded down.
SpecMinOccupancy ==
    \A p \in TreePages :
        ~IsRootPage(Tree, p) =>
            GetSize(Tree, p) >= (GetMaxSize(Tree, p) + 1) \div 2

\* The tree's own checkers accept every tree the operations build:
\* isBalanced reports the depth of the leaves below the root (every leaf at
\* the same depth), and isPageCorr passes, which needs slot 0 of every
\* internal child to still hold the separator above it after splits
\* (MoveHalfTo), merges (MoveAllTo's SetKeyAt(0)) and borrows.
CheckersAcceptTree ==
    root # INVALID_PAGE_ID =>
        /\ isBalanced(Tree, root) = HeightFrom(Tree, root) - 1
        /\ isPageCorr(Tree, root).res

\* parent_page_id_ of every page names the internal page that holds it, and
\* the root has none: splits, merges and redistribution re-parent the
\* children they move.
ParentPointersConsistent ==
    /\ root # INVALID_PAGE_ID => IsRootPage(Tree, root)
    /\ \A p \in TreePages : \A c \in Children(Tree, p) : node[c].parent = p

\* The frames in use are exactly the pages reachable from the root: every
\* page emptied by a coalesce or by AdjustRoot is deleted, and no page of the
\* tree has been given back to the buffer pool.
PagesAccountedFor ==
    {p \in PageIds : node[p].type # "free"} = TreePages

\* An iterator from Begin() follows next_page_id and yields every key of
\* the tree exactly once, in ascending order.
RECURSIVE ChainKeys(_, _, _)
ChainKeys(t, p, fuel) ==
    IF p = INVALID_PAGE_ID \/ fuel = 0 THEN <<>>
    ELSE [i \in 1 .. GetSize(t, p) |-> KeyAt(t, p, i - 1)]
         \o ChainKeys(t, t.node[p].next, fuel - 1)

LeafChainInOrder ==
    root # INVALID_PAGE_ID =>
        ChainKeys(Tree, Begin(Tree), Fuel) = SE!SetToSortSeq(TreeKeys, <)

\* The tree implements the key-set contract of KeySet: the keys reachable
\* from the root are the abstract set, and Insert / GetValue return what
\* the abstract set says.
KS == INSTANCE KeySet WITH keys <- TreeKeys

KeySetRefinement == KS!Spec

=============================================================================
