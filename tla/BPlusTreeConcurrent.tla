------------------------- MODULE BPlusTreeConcurrent -------------------------
(***************************************************************************)
(* The scudb B+-tree (src/Homework3/scudb/src/index/b_plus_tree.cpp) under *)
(* concurrent callers: latch crabbing down the tree, the root-id latch,    *)
(* and the sibling latches taken while coalescing.                         *)
(*                                                                         *)
(* Each thread's step is one latch acquisition and what the code does      *)
(* after it until the next one: a page's contents are only ever changed    *)
(* by code between two latch calls, so finer steps add no behaviour.      *)
(* The tree is changed with the operators of BPlusTree.                    *)
(*                                                                         *)
(* held[t] is the transaction's page set: the pages t has latched, each in *)
(* the mode of its operation (shared for READ, exclusive otherwise).      *)
(* rootLockedCnt[t] is the thread-local counter of the root-id latch; t    *)
(* holds that latch while the counter is positive.  LockRootPageId,        *)
(* TryUnlockRootPageId, Lock and Unlock are declared in b_plus_tree.h,     *)
(* which is not among the sources; they follow spec.md 4.3.2 and 5.        *)
(***************************************************************************)
EXTENDS Integers, FiniteSets, FiniteSetsExt

CONSTANTS
    Threads,          \* threads calling the index
    Keys,             \* keys passed to Insert and GetValue
    RemoveKeys,       \* keys passed to Remove
    BeginKeys,        \* keys passed to Begin(key); Begin() too unless empty
    InitKeys,         \* keys inserted before the threads start
    PageIds,
    LeafMaxSize,
    InternalMaxSize

ASSUME RemoveKeys \subseteq Keys /\ InitKeys \subseteq Keys /\ BeginKeys \subseteq Keys

VARIABLES
    node, root,       \* the pages and root_page_id_, shared by all threads
    pc,               \* where each thread is in its operation
    op,               \* its OpType: "READ", "INSERT" or "DELETE"; "BEGIN" and
                      \* "BEGINKEY" (Begin() and Begin(key)) descend as READ
    key,              \* its key
    cur,              \* the page it latches or works on next
    prev,             \* FindLeafPage's previous page (INVALID_PAGE_ID at the root)
    held,             \* its transaction's page set
    rootLockedCnt,    \* its rootLockedCnt
    del,              \* its transaction's deleted page set
    lin               \* ghost: <<operation, key, result>> of the last call to take effect

vars == <<node, root, pc, op, key, cur, prev, held, rootLockedCnt, del, lin>>

BT == INSTANCE BPlusTree WITH result <- lin

INVALID_PAGE_ID == BT!INVALID_PAGE_ID
Pcs == {"idle", "insLock", "insBody", "findRoot", "fetch", "leaf", "sibling",
        "merge", "iter", "insertNull", "removeNull"}

\* The tree as thread t sees it, with t's deleted page set.
Tr(t) == [node |-> node, root |-> root, deleted |-> del[t]]

Exclusive(t) == op[t] \in {"INSERT", "DELETE"}

-----------------------------------------------------------------------------
(* Latches.                                                                *)

\* Mutant: a reader does not wait for a writer that holds the page.
LatchFreeReaderIgnoresWriter(t, p) ==
    \A u \in Threads : p \in held[u] /\ Exclusive(t) => ~Exclusive(u)

\* Lock(exclusive, page): no thread holds p in a conflicting mode.  Page
\* latches are not reentrant: a writer that asks again for a page it holds
\* waits on itself.
LatchFree(t, p) ==
    \A u \in Threads : p \in held[u] => ~Exclusive(u) /\ ~Exclusive(t)

\* LockRootPageId(exclusive) likewise for the root-id latch.
RootLatchFree(t, exclusive) ==
    \A u \in Threads \ {t} : rootLockedCnt[u] > 0 => ~Exclusive(u) /\ ~exclusive

\* Mutant: the counter is never decremented.
TryUnlockKeep(c) == c

\* TryUnlockRootPageId: decrement, releasing the latch when it reaches zero.
TryUnlock(c) == IF c > 0 THEN c - 1 ELSE c

\* FreePagesInTransaction on tree tr: unlatch every page of the page set,
\* delete those that are in the deleted set, release the root-id latch.
Released(tr, hs) ==
    [tr EXCEPT !.node = [q \in PageIds |->
                           IF q \in tr.deleted \cap hs THEN BT!FreeFrame
                           ELSE tr.node[q]],
               !.deleted = @ \ hs]

\* The call returns: its locals are gone.
Return(t) ==
    /\ pc' = [pc EXCEPT ![t] = "idle"]
    /\ op' = [op EXCEPT ![t] = "READ"]
    /\ key' = [key EXCEPT ![t] = Min(Keys)]
    /\ cur' = [cur EXCEPT ![t] = INVALID_PAGE_ID]
    /\ prev' = [prev EXCEPT ![t] = INVALID_PAGE_ID]

\* Mutant: the page set is not unlatched.
FreePagesInTransactionKeepLatches(t, tr, hs) ==
    \E r \in {Released(tr, hs)} :
        /\ node' = r.node
        /\ root' = r.root
        /\ del' = [del EXCEPT ![t] = r.deleted]
        /\ UNCHANGED held
        /\ rootLockedCnt' = [rootLockedCnt EXCEPT ![t] = TryUnlock(@)]
        /\ Return(t)

\* (r is bound by \E over a singleton so that the tree is computed once,
\* also when TLC evaluates ENABLED for fairness.)
FreePagesInTransaction(t, tr, hs) ==
    \E r \in {Released(tr, hs)} :
        /\ node' = r.node
        /\ root' = r.root
        /\ del' = [del EXCEPT ![t] = r.deleted]
        /\ held' = [held EXCEPT ![t] = {}]
        /\ rootLockedCnt' = [rootLockedCnt EXCEPT ![t] = TryUnlock(@)]
        /\ Return(t)

-----------------------------------------------------------------------------
(* Initial tree: InitKeys inserted one by one, in ascending order.         *)

EmptyTree == [node |-> [p \in PageIds |-> BT!FreeFrame],
              root |-> INVALID_PAGE_ID, deleted |-> {}]

InsertSequential(t, k) ==
    IF t.root = INVALID_PAGE_ID THEN BT!StartNewTree(t, k)
    ELSE BT!InsertIntoLeaf(t, k)

RECURSIVE Preload(_, _)
Preload(t, ks) ==
    IF ks = {} THEN t ELSE Preload(InsertSequential(t, Min(ks)), ks \ {Min(ks)})

InitTree == Preload(EmptyTree, InitKeys)

Init ==
    /\ node = InitTree.node
    /\ root = InitTree.root
    /\ pc = [t \in Threads |-> "idle"]
    /\ op = [t \in Threads |-> "READ"]
    /\ key = [t \in Threads |-> Min(Keys)]
    /\ cur = [t \in Threads |-> INVALID_PAGE_ID]
    /\ prev = [t \in Threads |-> INVALID_PAGE_ID]
    /\ held = [t \in Threads |-> {}]
    /\ rootLockedCnt = [t \in Threads |-> 0]
    /\ del = [t \in Threads |-> {}]
    /\ lin = BT!NoResult

-----------------------------------------------------------------------------
(* Actions of thread t.                                                    *)

\* A call begins.  Remove first tests IsEmpty() without any latch and
\* returns at once on an empty tree (Remove, lines 212-214).
Call(t) ==
    /\ pc[t] = "idle"
    /\ \/ \E k \in Keys :
            /\ op' = [op EXCEPT ![t] = "INSERT"]
            /\ key' = [key EXCEPT ![t] = k]
            /\ pc' = [pc EXCEPT ![t] = "insLock"]
            /\ UNCHANGED lin
       \/ \E k \in Keys :
            /\ op' = [op EXCEPT ![t] = "READ"]
            /\ key' = [key EXCEPT ![t] = k]
            /\ pc' = [pc EXCEPT ![t] = "findRoot"]
            /\ UNCHANGED lin
       \/ \E k \in BeginKeys :
            /\ op' = [op EXCEPT ![t] = "BEGINKEY"]
            /\ key' = [key EXCEPT ![t] = k]
            /\ pc' = [pc EXCEPT ![t] = "findRoot"]
            /\ UNCHANGED lin
       \/ /\ BeginKeys # {}
          /\ op' = [op EXCEPT ![t] = "BEGIN"]
          /\ key' = [key EXCEPT ![t] = Min(Keys)]
          /\ pc' = [pc EXCEPT ![t] = "findRoot"]
          /\ UNCHANGED lin
       \/ \E k \in RemoveKeys :
            IF root = INVALID_PAGE_ID
            THEN /\ lin' = <<"Remove", k, FALSE>>
                 /\ UNCHANGED <<pc, op, key>>
            ELSE /\ op' = [op EXCEPT ![t] = "DELETE"]
                 /\ key' = [key EXCEPT ![t] = k]
                 /\ pc' = [pc EXCEPT ![t] = "findRoot"]
                 /\ UNCHANGED lin
    /\ UNCHANGED <<node, root, cur, prev, held, rootLockedCnt, del>>

\* Insert: LockRootPageId(true) (line 72).
InsLock(t) ==
    /\ pc[t] = "insLock"
    /\ RootLatchFree(t, TRUE)
    /\ rootLockedCnt' = [rootLockedCnt EXCEPT ![t] = @ + 1]
    /\ pc' = [pc EXCEPT ![t] = "insBody"]
    /\ UNCHANGED <<node, root, op, key, cur, prev, held, del, lin>>

\* Insert, lines 73-84: StartNewTree on an empty tree, else release the
\* root-id latch and go on to InsertIntoLeaf, which descends afresh.
InsBody(t) ==
    /\ pc[t] = "insBody"
    /\ rootLockedCnt' = [rootLockedCnt EXCEPT ![t] = TryUnlock(@)]
    /\ IF root = INVALID_PAGE_ID
       THEN LET tr == BT!StartNewTree(Tr(t), key[t])
            IN /\ BT!FreePages(Tr(t)) # {}
               /\ node' = tr.node
               /\ root' = tr.root
               /\ lin' = <<"Insert", key[t], TRUE>>
               /\ Return(t)
       ELSE /\ pc' = [pc EXCEPT ![t] = "findRoot"]
            /\ UNCHANGED <<node, root, lin, op, key, cur, prev>>
    /\ UNCHANGED <<held, del>>

\* FindLeafPage, lines 412-419: LockRootPageId(exclusive); on an empty tree
\* unlock and return nullptr, which GetValue reports as absent and Begin
\* turns into an end iterator (lines 391-395), while InsertIntoLeaf (line
\* 123) and Remove (line 216) dereference it.
FindRoot(t) ==
    /\ pc[t] = "findRoot"
    /\ RootLatchFree(t, Exclusive(t))
    /\ IF root = INVALID_PAGE_ID
       THEN /\ UNCHANGED rootLockedCnt
            /\ CASE op[t] = "READ" -> /\ lin' = <<"GetValue", key[t], FALSE>>
                                      /\ Return(t)
                 [] ~Exclusive(t) -> /\ UNCHANGED lin
                                      /\ Return(t)
                 [] OTHER ->
                      /\ pc' = [pc EXCEPT ![t] = IF op[t] = "INSERT" THEN "insertNull"
                                                 ELSE "removeNull"]
                      /\ UNCHANGED <<lin, op, key, cur, prev>>
       ELSE /\ rootLockedCnt' = [rootLockedCnt EXCEPT ![t] = @ + 1]
            /\ cur' = [cur EXCEPT ![t] = root]
            /\ prev' = [prev EXCEPT ![t] = INVALID_PAGE_ID]
            /\ pc' = [pc EXCEPT ![t] = "fetch"]
            /\ UNCHANGED <<lin, op, key>>
    /\ UNCHANGED <<node, root, held, del>>

\* CrabingProtocalFetchPage (lines 441-452) and one turn of FindLeafPage's
\* loop (lines 421-432): latch cur; below the root, if the operation is a
\* READ or cur is safe for it, release the root-id latch and every page of
\* the page set; add cur to the page set; then descend by Lookup.
ReleasesAncestors(t, p) ==
    prev[t] # INVALID_PAGE_ID /\ (~Exclusive(t) \/ BT!IsSafe(Tr(t), p, op[t]))

Fetch(t) ==
    /\ pc[t] = "fetch"
    /\ LatchFree(t, cur[t])
    /\ LET p == cur[t]
           rel == ReleasesAncestors(t, p)
       IN /\ held' = [held EXCEPT ![t] = (IF rel THEN {} ELSE @) \cup {p}]
          /\ rootLockedCnt' = [rootLockedCnt EXCEPT ![t] = IF rel THEN TryUnlock(@) ELSE @]
          /\ IF BT!IsLeafPage(Tr(t), p)
             THEN /\ pc' = [pc EXCEPT ![t] = "leaf"]
                  /\ prev' = [prev EXCEPT ![t] = INVALID_PAGE_ID]
                  /\ UNCHANGED cur
             ELSE /\ cur' = [cur EXCEPT ![t] = IF op[t] = "BEGIN" THEN BT!ValueAt(Tr(t), p, 0)
                                                ELSE BT!Lookup(Tr(t), p, key[t])]
                  /\ prev' = [prev EXCEPT ![t] = p]
                  /\ UNCHANGED pc
    /\ UNCHANGED <<node, root, op, key, del, lin>>

\* GetValue, lines 52-54: look the key up in the latched leaf, then release.
GetValueLeaf(t) ==
    /\ pc[t] = "leaf" /\ op[t] = "READ"
    /\ lin' = <<"GetValue", key[t], BT!LeafLookup(Tr(t), cur[t], key[t])>>
    /\ FreePagesInTransaction(t, Tr(t), held[t])

\* Mutant: Begin unlatches the leaf instead of leaving it to the iterator.
BeginLeafUnlatched(t) ==
    /\ pc[t] = "leaf" /\ op[t] \in {"BEGIN", "BEGINKEY"}
    /\ rootLockedCnt' = [rootLockedCnt EXCEPT ![t] = TryUnlock(@)]
    /\ held' = [held EXCEPT ![t] = {}]
    /\ pc' = [pc EXCEPT ![t] = "iter"]
    /\ UNCHANGED <<node, root, op, key, cur, prev, del, lin>>

\* Begin() and Begin(key), lines 376-398: with the leaf latched by
\* FindLeafPage, TryUnlockRootPageId(false) releases the root-id latch that
\* FindLeafPage still holds when the root is the leaf, and the iterator is
\* built on the leaf, which stays latched and pinned while it lives.  The
\* slot KeyIndex picks is not kept: operator++ is not among the sources.
BeginLeaf(t) ==
    /\ pc[t] = "leaf" /\ op[t] \in {"BEGIN", "BEGINKEY"}
    /\ rootLockedCnt' = [rootLockedCnt EXCEPT ![t] = TryUnlock(@)]
    /\ pc' = [pc EXCEPT ![t] = "iter"]
    /\ UNCHANGED <<node, root, op, key, cur, prev, held, del, lin>>

\* ~IndexIterator (index_iterator.cpp lines 19-24): a live leaf is
\* unlatched and unpinned.
IterDestroy(t) ==
    /\ pc[t] = "iter"
    /\ held' = [held EXCEPT ![t] = {}]
    /\ Return(t)
    /\ UNCHANGED <<node, root, rootLockedCnt, del, lin>>

\* InsertIntoLeaf, lines 123-136, on the latched leaf: a duplicate returns
\* false; otherwise insert, split and InsertIntoParent as far as needed
\* (the new pages are latched and join the page set), then release.
InsertLeaf(t) ==
    /\ pc[t] = "leaf" /\ op[t] = "INSERT"
    /\ IF BT!LeafLookup(Tr(t), cur[t], key[t])
       THEN /\ lin' = <<"Insert", key[t], FALSE>>
            /\ FreePagesInTransaction(t, Tr(t), held[t])
       ELSE /\ BT!CanAllocate(Tr(t))
            /\ lin' = <<"Insert", key[t], TRUE>>
            /\ \E tr \in {BT!InsertIntoLeafAt(Tr(t), cur[t], key[t])} :
                   FreePagesInTransaction(t, tr, held[t])

\* Remove, lines 216-221: delete from the latched leaf; an underflowing root
\* goes to AdjustRoot, another underflowing leaf to its sibling.
RemoveLeaf(t) ==
    /\ pc[t] = "leaf" /\ op[t] = "DELETE"
    /\ lin' = <<"Remove", key[t], FALSE>>
    /\ LET p == cur[t]
       IN \E t1 \in {BT!LeafRemoveAndDeleteRecord(Tr(t), p, key[t])} :
          IF BT!Underflows(t1, p) /\ ~BT!IsRootPage(t1, p)
          THEN /\ node' = t1.node
               /\ pc' = [pc EXCEPT ![t] = "sibling"]
               /\ UNCHANGED <<root, held, rootLockedCnt, del, op, key, cur, prev>>
          ELSE FreePagesInTransaction(t, IF BT!Underflows(t1, p)
                                         THEN BT!AdjustRootAndDelete(t1, p) ELSE t1,
                                      held[t])

\* Mutant: the sibling is latched but not added to the page set.
SiblingLatchUnlisted(t) ==
    /\ pc[t] = "sibling"
    /\ LatchFree(t, BT!FindLeftSibling(Tr(t), cur[t]))
    /\ pc' = [pc EXCEPT ![t] = "merge"]
    /\ UNCHANGED <<node, root, op, key, cur, prev, held, rootLockedCnt, del, lin>>

\* FindLeftSibling (lines 268-276): read the sibling from the latched parent
\* and latch it, without releasing anything; it joins the page set.
SiblingLatch(t) ==
    /\ pc[t] = "sibling"
    /\ LET s == BT!FindLeftSibling(Tr(t), cur[t])
       IN /\ LatchFree(t, s)
          /\ held' = [held EXCEPT ![t] = @ \cup {s}]
    /\ pc' = [pc EXCEPT ![t] = "merge"]
    /\ UNCHANGED <<node, root, op, key, cur, prev, rootLockedCnt, del, lin>>

\* CoalesceOrRedistribute below the root (lines 248-262) with the latched
\* sibling: merge or borrow; a merge that leaves the parent at or below its
\* min size goes on with the parent (Coalesce, lines 302-306), which at the
\* root is AdjustRoot.  The last level ends the operation (line 221).
MergeOrBorrow(t) ==
    /\ pc[t] = "merge"
    /\ LET p == cur[t]
           s == BT!FindLeftSibling(Tr(t), p)
           par == node[p].parent
       IN \E t1 \in {BT!MergeOrBorrowOnce(Tr(t), p, s)} :
          LET up == BT!Merges(Tr(t), p, s) /\ BT!CoalesceRecurses(t1, par)
          IN IF up /\ ~BT!IsRootPage(t1, par)
             THEN /\ node' = t1.node
                  /\ del' = [del EXCEPT ![t] = t1.deleted]
                  /\ cur' = [cur EXCEPT ![t] = par]
                  /\ pc' = [pc EXCEPT ![t] = "sibling"]
                  /\ UNCHANGED <<root, held, rootLockedCnt, op, key, prev>>
             ELSE FreePagesInTransaction(t,
                      IF up THEN BT!AdjustRootAndDelete(t1, par) ELSE t1, held[t])
    /\ UNCHANGED lin

Step(t) ==
    \/ Call(t)
    \/ InsLock(t)
    \/ InsBody(t)
    \/ FindRoot(t)
    \/ Fetch(t)
    \/ GetValueLeaf(t)
    \/ BeginLeaf(t)
    \/ IterDestroy(t)
    \/ InsertLeaf(t)
    \/ RemoveLeaf(t)
    \/ SiblingLatch(t)
    \/ MergeOrBorrow(t)

\* A null dereference ends the process: no thread moves after it.
Crashed == \E t \in Threads : pc[t] \in {"insertNull", "removeNull"}

Next == ~Crashed /\ \E t \in Threads : Step(t)

Spec == Init /\ [][Next]_vars

\* The OS scheduler runs every runnable thread: a thread that can take its
\* next step keeps being able to until it does.  A thread waiting on a latch
\* that other threads keep retaking may starve (the latches are not fair), so
\* nothing stronger is assumed.
FairSpec == Spec /\ \A t \in Threads : WF_vars(Step(t))

\* No action reads lin.
ConcView == <<node, root, pc, op, key, cur, prev, held, rootLockedCnt, del>>

-----------------------------------------------------------------------------
(* Properties.                                                             *)

Result == {BT!NoResult} \cup ({"Insert", "Remove", "GetValue"} \X Keys \X BOOLEAN)

\* Types; a thread's rootLockedCnt never exceeds 1, so LockRootPageId is
\* never called by a thread that already holds the root-id latch.
TypeOK ==
    /\ node \in [PageIds -> BT!Page]
    /\ root \in PageIds \cup {INVALID_PAGE_ID}
    /\ pc \in [Threads -> Pcs]
    /\ op \in [Threads -> {"READ", "BEGIN", "BEGINKEY", "INSERT", "DELETE"}]
    /\ key \in [Threads -> Keys]
    /\ cur \in [Threads -> PageIds \cup {INVALID_PAGE_ID}]
    /\ prev \in [Threads -> PageIds \cup {INVALID_PAGE_ID}]
    /\ held \in [Threads -> SUBSET PageIds]
    /\ rootLockedCnt \in [Threads -> 0 .. 1]
    /\ del \in [Threads -> SUBSET PageIds]
    /\ lin \in Result

\* Latch crabbing protects every write: whenever a thread's step changes
\* the pairs, the type or the next page of a page in use, the thread holds
\* that page's latch exclusively, and it changes root_page_id_ only while
\* it holds the root-id latch exclusively.  This is what IsSafe's release of
\* the ancestors (line 446) and the sibling latch (line 276) must ensure.
WritesLatched(t) ==
    /\ \A p \in PageIds :
          /\ node[p].type # "free"
          /\ \/ node'[p].arr # node[p].arr
             \/ node'[p].type # node[p].type
             \/ node'[p].next # node[p].next
          => p \in held[t] /\ Exclusive(t)
    /\ root' # root => rootLockedCnt[t] > 0 /\ Exclusive(t)

PairsWrittenUnderLatch == [][\A t \in Threads : Step(t) => WritesLatched(t)]_vars

\* No step writes any field of a page that another thread holds latched
\* exclusively: that thread may read the page's fields at any time, e.g.
\* parent_page_id_ through GetMinSize when Remove tests its leaf (line 217).
NoWriteToPageHeldByOther ==
    [][\A t \in Threads : Step(t) =>
          \A p \in PageIds : node'[p] # node[p] =>
             \A u \in Threads \ {t} : p \in held[u] => ~Exclusive(u)]_vars

\* Every page a thread has marked for deletion is in its page set, so that
\* FreePagesInTransaction deletes it (the assert at line 472).
DeletedPagesInPageSet == \A t \in Threads : del[t] \subseteq held[t]

\* Whenever no thread holds a page latch, the tree is a well-formed
\* B+-tree: the multi-step Remove (leaf, then one sibling per level) and
\* the other threads' steps between them leave what the sequential
\* algorithm leaves.
QuiescentTreeWellFormed ==
    (\A t \in Threads : held[t] = {}) =>
        /\ BT!SearchTreeOrder
        /\ BT!NodeSizeBounds
        /\ BT!ParentPointersConsistent
        /\ BT!PagesAccountedFor

\* Linearisability (spec.md 5): each call takes effect at one step, and the
\* keys reachable from the root with the results of the calls behave as
\* the set of KeySet, starting from the preloaded keys.
KS == INSTANCE KeySet WITH keys <- BT!TreeKeys, result <- lin

KeySetRefinement == [][KS!Next]_<<BT!TreeKeys, lin>>

\* Progress: whenever both threads are inside a call, one of them eventually
\* returns, unless a null dereference has ended the process (the crash runs
\* show that it can).  Latches are taken top to bottom and a sibling only
\* while its parent is held exclusively, so no cycle of latch waits can form.
\* Assumes weak fairness of each thread (FairSpec).
BusyThreadsProgress ==
    (\A t \in Threads : pc[t] # "idle")
        ~> (Crashed \/ \E t \in Threads : pc[t] = "idle")

\* Neither caller that dereferences FindLeafPage's result receives nullptr:
\* InsertIntoLeaf (line 123) after Insert's latched IsEmpty test (line 79),
\* nor Remove (line 216) after its unlatched one (line 213).
FindLeafPageNonNull == \A t \in Threads : pc[t] \notin {"insertNull", "removeNull"}

\* An iterator stays on the right leaf: while it lives, its leaf is the
\* one FindLeafPage reaches now for its key (the leftmost leaf for
\* Begin()), whatever splits, merges and borrows other threads have done
\* since.  This holds only if crabbing latched the leaf before releasing
\* its parent and no writer restructures around a leaf a reader holds.
IteratorOnItsLeaf ==
    \A t \in Threads :
        pc[t] = "iter" => cur[t] = BT!FindLeafPage(BT!Tree, key[t], op[t] = "BEGIN")

====
