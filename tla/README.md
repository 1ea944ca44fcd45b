# TLA+ models of scudb (DatabaseHomework)

This directory holds TLA+ models of the three data structures in
`src/` that carry the system's hard logic, and the TLC configurations that
check them:

- the LRU victim selector of the buffer pool (`src/Homework2/.../lru_replacer.cpp`);
- the extendible hash table used as the buffer pool's page table
  (`src/Homework3/.../hash/extendible_hash.cpp`);
- the B+-tree index with its pages (`src/Homework3/.../index/b_plus_tree.cpp`,
  `page/b_plus_tree_internal_page.cpp`, `page/b_plus_tree_page.cpp`).

`PROJECT.json` lists every component, run, mutant, finding and hazard, and
maps every definition to the source lines it models.

## Inventory

| Part | State | Operations | Concurrency |
|------|-------|------------|-------------|
| LRU replacer | doubly linked list `head`, `tail`, node `pre`/`next`/`value`, `index` map, `size` | `Insert`, `Victim`, `Erase`, `Size`; private `erase`, `insertAtHead` | one latch around every public method |
| Extendible hash | `globalDepth`, `directories` (vector of bucket pointers), `bucketNum`; per bucket `kmap`, `localDepth`, `latch` | `Find`, `Remove`, `Insert` (a loop that splits a full bucket and may double the directory), `GetGlobalDepth`, `GetLocalDepth`, `GetNumBuckets` | directory latch in `getIdx` and around the split; a latch per bucket; `directories[idx]` is read without the directory latch |
| B+-tree pages | page type, size, max size, parent id, pair array; leaves also hold next id | lookup, insert after, move half/all/first/last with child re-parenting | page latches, held by the tree |
| B+-tree | `root_page_id_`, pages in the buffer pool, the transaction's page set and deleted set | `Insert` (split and propagate), `Remove` (coalesce or redistribute, recursively; adjust root), `GetValue`, `Begin` | latch crabbing under a reentrant root-id latch; `Remove` tests `IsEmpty` without a latch |

The buffer pool, the leaf page, the header page, the transaction and the
root-latch helpers are not under `src/`. Where the tree needs them, the leaf page
and `NewPage` are modelled from `spec.md` and marked `spec_modelled` in the map.

## Modules

### `LRUSpec` and `LRUReplacer` (+ `MC_LRUReplacer`)

`LRUSpec` is the promise of spec section 4.1: a recency list (most recent
first), where `Insert` moves a value to the front, `Victim` removes the last one
and `Erase` removes a value.

`LRUReplacer` models the class at pointer level. It has one record variable
`lru` with the class's fields, plus the nodes' `pre`, `next` and `value`:
- Nodes are ids; a node is live while `index` refers to it.
- `make_shared` returns the lowest id that is not live.
- `erase` is composed of `Unlink` (its four pointer cases) and `Drop`.
- `Victim` has three disjuncts: empty, only node (`PopOnly`) and tail with a
  predecessor (`PopTail`).
- Each public method is one step, because it holds the latch throughout.

The refinement mapping reads the list by walking `next` from `head`.

### `HashTableSpec` and `ExtendibleHash` (+ `MC_ExtendibleHash`)

`HashTableSpec` is what the table promises (spec sections 4.2 and 8): a map
`table` and, per thread, the result `ret` of its latest call. `Insert`
overwrites, `Find` returns the latest value or false, and `Remove` reports
whether the key was there. Each call is one atomic step.

Threads run `Insert`, `Find` and `Remove` concurrently. Each thread has a `pc`,
and its steps are the code's latch sections and unlatched reads:

- `GetIdx`: `getIdx`, under the directory latch.
- `ReadSlot`: the unlatched read of `directories[idx]`. In Insert's loop this
  step also releases the previous iteration's bucket latch, because `lck`
  lives to the end of the loop body.
- `LockBucket`: takes the bucket latch.
- `InsertWrite`: the branch where the key is present or the bucket has room.
- `InsertSplit`: `localDepth++` and the whole directory-latch section as one
  step, built from `Double`, `Moved` and `Repoint`, then back to `GetIdx`.
- `FindCheck` / `FindRead`: Find's second and third reads of
  `directories[index]`. `kmap[key]` inserts a null value when the key is
  missing.
- `RemoveBody`: re-reads the slot and erases.
- `GetGlobalDepth` and `GetNumBuckets`: one step each under the directory
  latch.
- `GetLocalDepth(i)`: `Call` picks a slot `i`; the thread reads
  `directories[i]` without a latch (`readSlot`), locks that bucket, and
  `LocalDepthBody` re-reads the slot and returns its `localDepth`.

The getters' int results go to a separate per-thread variable `num`, so that
`ret` holds only values and the strings `"true"`/`"false"`.

`ghost` is the map that the calls define in the order they take effect. It is
used only by the properties.

The refinement mapping takes `table` to `Contents`, the entries of all
allocated buckets, and `ret` to `ret`. A call takes effect at:
- `InsertWrite`, the write of line 121;
- `FindCheck` / `FindRead`, Find's test of line 67 or its read;
- `RemoveBody`, the erase of line 102.

Splits and the getters are stuttering steps of the abstract map.

`MaxLocalDepth` bounds the split loop, which the code does not bound.
`BucketIds` bounds the number of `Bucket` objects.

### `KeySet` and `BPlusTree` (+ `MC_BPlusTree`)

`KeySet` is the abstract contract: a set of keys, where `Insert` returns
whether the key was new and `GetValue` returns whether it is present.

`BPlusTree` is the tree as a sequential machine:
- Each `Insert`, `Remove` and `GetValue` is one step. The step includes all
  recursion: `InsertIntoParent`, `CoalesceOrRedistribute` and `Coalesce`,
  `AdjustRoot`, and the deletion of pages in the transaction's deleted set at
  `FreePagesInTransaction`.
- Operators map a tree value `[node, root, deleted]` to a new one, so that
  `BPlusTreeConcurrent` can reuse them one level at a time.
- Pages are records with `type`, `arr` (the pair array), `parent` and `next`.
- The buffer pool's `NewPage` returns the lowest free frame.
- Values in leaves are the keys themselves, because no property distinguishes
  them.

`Insert` is enabled only when enough frames are free for a split at every
level plus a new root (`CanAllocate`). This is a model bound, not code.

The tree checkers of `b_plus_tree.cpp` are recursive operators translated
loop for loop: `isBalanced` with its loop `BalancedLoop`, and `isPageCorr`
with `CorrLoop`, which returns the result and the page's first and last keys.
`isPageCorr` compares separators with `KeyAt(0)` of internal children, a slot
the code never sets on purpose, so whether the checker accepts correct trees
is a real question.

Page constructors and edits used by several operations are named operators:
`LeafInit`, `InternalInit`, `InternalRemove`, `RemoveAndReturnOnlyChild`.

### `BPlusTreeConcurrent` (+ `MC_BPlusTreeConcurrent`)

`GetValue`, `Insert` and `Remove` of several threads, cut at every latch
operation. The tree operators come from `BPlusTree` (`BT == INSTANCE
BPlusTree`).

- **State.** The shared state is `node`, `root` and `rootLockedCnt` (the
  thread-local counter of the root-id latch, one per thread). Each thread also
  has:
  - `pc`, `op` and `key`;
  - `cur` and `prev` (the `cur` and `previous` of `FindLeafPage`'s loop);
  - `held` (the transaction's page set, i.e. the page latches it holds);
  - `del` (its deleted-page set).

  `lin` records the result of the call that took effect last.
- **Actions.**
  - `Call` begins a call. `Remove`'s unlatched `IsEmpty` test (line 213) is
    part of `Call`.
  - `InsLock` and `InsBody` are `Insert`'s latched `IsEmpty` test (lines 72-84).
  - `FindRoot` is `FindLeafPage`'s root-id latch and empty check (lines
    409-419).
  - `Fetch` is one `CrabingProtocalFetchPage`: latch the page, then, if the
    page is safe (or the call is a read), release the ancestors and the root-id
    latch.
  - `GetValueLeaf`, `InsertLeaf` and `RemoveLeaf` are the leaf work. A split
    and its propagation, inside the latched subtree, is one step.
  - `SiblingLatch` is `FindLeftSibling`'s crab-fetch.
  - `MergeOrBorrow` is one level of `CoalesceOrRedistribute`. If the merge
    leaves the parent at its min size, the thread goes on with the parent.
  - `FreePagesInTransaction` ends every call: it unlatches the page set,
    deletes its deleted pages and decrements the counter.
  - `Begin()` and `Begin(key)` (`op` `BEGIN` and `BEGINKEY`) descend like a
    read and stop at the leaf (`BeginLeaf`). `Begin()` follows the first
    child at every level. The leaf stays latched: the iterator holds it from
    construction (`pc` = `iter`) until `IterDestroy`, the destructor, which
    unlatches it. On an empty tree both return an end iterator. The set of
    keys `Begin(key)` is called with is the constant `BeginKeys`; when it is
    empty, no thread calls `Begin`.
- **Latches.** A page latch is free for `t` when no thread holds it in a
  conflicting mode. Page latches are not reentrant, but the root-id latch is
  (spec.md 5). The latch code lives in `b_plus_tree.h`, which is not in the
  repository, so these definitions are `spec_modelled`.
- **Crashes.** A `nullptr` from `FindLeafPage` that the caller dereferences
  moves the thread to `insertNull` or `removeNull`. No thread moves after that, because the
  process has crashed.

## Runs

| Run | Config | Expect | What it shows |
|-----|--------|--------|---------------|
| `bptree_structure` | `MC_BPlusTree.cfg` | pass | 6 keys, 12 frames, leaf max 2, internal max 3 (trees of height 3, internal redistribution and coalescing reached). Search-tree order, size bounds, parent pointers, page accounting and the leaf chain hold, the code's own `isBalanced` and `isPageCorr` accept every reachable tree, and the tree implements `KeySet`. |
| `bptree_spec_min_occupancy` | `MC_BPlusTree_specmin.cfg` | violation | With max size 3, a non-root leaf holds 1 pair, fewer than spec.md's ceil(3/2) = 2. `GetMinSize` rounds down. |
| `hash_sequential` | `MC_ExtendibleHash_seq.cfg` | pass | 1 thread, keys 0..2, bucket size 1 (splits to depth 2, doubling twice). The directory keeps its shape, every key stays in its bucket, and the table implements `HashTableSpec` with its results (`HashTableRefinement`). Every call returns, so Insert's split loop ends (`EveryCallReturns`). |
| `hash_concurrent_directory` | `MC_ExtendibleHash_conc.cfg` | pass | 2 threads, keys 0..2, one value. The directory stays well formed under every interleaving. |
| `hash_stale_insert` | `MC_ExtendibleHash_stale_insert.cfg` | violation | A key is stored in a bucket its hash no longer leads to (index computed before a concurrent split). |
| `hash_stale_read` | `MC_ExtendibleHash_stale_read.cfg` | violation | `Find` reports a stored key absent (stale index). |
| `hash_directory_race` | `MC_ExtendibleHash_race.cfg` | violation | `HashDataRaceFree` fails. TLC's shortest trace: a split writes `directories` (`push_back` at line 137, slot assignment at line 162) while another thread has an unlatched read of `directories[idx]` pending, e.g. `GetLocalDepth`. The property also requires that a bucket's map be written only under its latch. |
| `bptc_crabbing` | `MC_BPlusTreeConcurrent.cfg` | pass | 2 threads, keys 1..5 with 1..4 preloaded, key 1 never removed, 12 frames. `Begin(2)`, `Begin(5)` and `Begin()` also run. Writes happen only under exclusive latches, deleted pages are in the page set, the tree is well formed whenever no latch is held, a live iterator's leaf is the leaf `FindLeafPage` picks for its key in the current tree, and no deadlock occurs (root splits, three levels, multi-level merges). |
| `bptc_keyset_progress` | `MC_BPlusTreeConcurrent_refine.cfg` | pass | 2 threads, keys 1..3, all removable. Each call takes effect at one step as a `KeySet` operation, through merges, the tree emptying and `StartNewTree`. Under weak fairness of each thread, whenever both threads are inside a call one of them returns, unless a null dereference has ended the process. |
| `bptc_null_leaf` | `MC_BPlusTreeConcurrent_null_leaf.cfg` | violation | A caller dereferences a `nullptr` leaf. `Remove`'s unlatched `IsEmpty` passes, the tree empties, and line 216 dereferences `nullptr`; `Insert`, which drops the root-id latch after its `IsEmpty` test, reaches line 123 the same way. |
| `bptc_parent_race` | `MC_BPlusTreeConcurrent_parent_race.cfg` | violation | An internal `MoveAllTo` rewrites `parent_page_id_` of a leaf that another thread holds exclusively and reads. |
| `lru_list` | `MC_LRUReplacer.cfg` | pass | 4 values. The list, its back pointers and the index stay consistent, and the replacer refines `LRUSpec`. |

Each property of a passing run has a mutant in `PROJECT.json`: a plausible
bug in the code's definition (a dropped re-parent, an off-by-one mask, a
missing pointer reset, popping the head instead of the tail) that TLC catches
under the same config.

### Bounds

- **B+-tree.** With leaf max 2 and internal max 3, splits happen at the third
  key and the tree reaches height 3 with 6 keys. That brings in internal
  splits, internal `MoveFirstToEndOf` / `MoveLastToFrontOf`, coalescing that
  recurses into the parent, and `AdjustRoot` of an internal root. 12 frames
  leave room for every tree of 6 keys. `result` stays in the state,
  because the refinement compares it.
- **Hash, one thread.** Bucket size 1 with keys 0..2 forces splits up to depth
  2 and a doubling at each level: keys 0 and 2 differ only in bit 1.
  `MaxLocalDepth` = 2 is the depth those keys need, so it never stops a
  correct Insert. The run is this small because the liveness check keeps the
  whole state graph: with keys 0..3 it takes 3.5 minutes.
- **Hash, two threads.** Keys 0..2 and 4 buckets. `hash_concurrent_directory`
  stores a single value, because the directory's shape does not depend on
  values. With two values it takes over 3 minutes. Symmetry over threads and
  values is sound because neither is compared with anything but itself.
  `VIEW HashView` drops `ret`, `num` and `ghost`, which no action reads.
- **LRU.** 4 values and 4 nodes is enough for every erase case (only, head,
  tail, middle) on lists of up to 4.

- **Concurrent B+-tree.** Two threads, leaf max 2, internal max 3.
  - **Deep** (`bptc_crabbing`): 5 keys, 4 preloaded. Inserting 5 splits the
    root, and removes merge across two levels.
  - **Crash run**: 4 keys, 3 preloaded, every key removable.
  - **Iterators**: only in `bptc_crabbing`, with `BeginKeys` = {2, 5} (a key
    of the leftmost leaf and one of the rightmost). The other runs set it
    empty: their questions are about writers, and an iterator that keeps a
    leaf latched only adds states.
  - **Race run** (`bptc_parent_race`): the deep configuration.
  - **Refinement and progress**: 3 keys, 2 preloaded, every key removable.
    That is still enough for a two-level tree, merges, emptying and
    `StartNewTree`. The run is small for three reasons:
    - `lin` must stay in the state for the refinement;
    - symmetry is unsound with liveness, so the run does not use it;
    - weak fairness makes TLC evaluate `ENABLED` of every action.
  - In `bptc_crabbing`, key 1 is never removed, so the tree never empties.
  - The safety runs use `SYMMETRY` over the two threads.
  - They also use `VIEW ConcView`, which drops `lin`. No action reads `lin`,
    and none of those runs' properties does.
  - A root is safe for a delete only when it has four children, which needs
    internal max 4. Internal max 3 leaves that case out: internal max 4 with keys 1..6 (1..5 preloaded) passes too, but it has 4.2 million states and takes 5.5 minutes, beyond the time budget of a run. The mutant that
    releases an internal page at min size + 1 reaches the same code paths, and
    `DeletedPagesInPageSet` catches it.

### Fairness and deadlock

The only liveness property is `BusyThreadsProgress`, checked under `FairSpec`:
weak fairness of every thread's `Step`. OS threads get scheduled, so this is
justified. Nothing stronger is assumed: a thread whose latch other threads keep
retaking may starve, because the rwlatches are not fair. For this reason the
property says that some thread returns, not that each one does. The progress
run disables TLC's deadlock check for two reasons. A stuck state is then
reported as a violation of the property. And a crash, which ends the
process, is a state without successors. `bptc_crabbing` keeps TLC's deadlock
check on.

The crash run also disables the deadlock check, because after a null
dereference the process stops.

`ExtendibleHash`'s `Spec` includes weak fairness of each busy thread's step.
This holds because the threads are OS threads. Lock acquisition gets no
stronger fairness, because `std::mutex` promises none. With one thread no lock
is ever contended, so the fairness is enough for `EveryCallReturns`.
`hash_sequential` disables TLC's deadlock check: an idle thread can always
call, so a stuck state is a busy thread that never returns, and the property
reports it. The other runs use only the safety part.

`hash_concurrent_directory` disables deadlock checking for one reason. After a
stale Insert (see `hash_stale_insert`), a full bucket can hold keys that no
split separates. The code then loops forever, and the model stops that thread
at `MaxLocalDepth`. The hash violation runs disable it for the same reason.
The B+-tree and LRU runs check deadlock, except the two named above.

## Findings

- **Stale directory index (code bug).** `getIdx` releases the directory latch
  before the caller reads `directories[idx]` and locks the bucket. A split in
  between:
  - makes `Insert` store the key in a bucket its hash no longer selects
    (`hash_stale_insert`);
  - makes `Find` and `Remove` miss a present key (`hash_stale_read`).

  Once a key is misplaced, the split loop may never terminate.
- **Min occupancy (divergence).** `GetMinSize` is `max_size / 2` rounded down.
  spec.md section 3 asks for ceil(max_size/2) (`bptree_spec_min_occupancy`).
- **Lock order (not checked).** spec.md section 5 says the split releases the
  bucket latch before taking the directory latch. In the code, `lck` is held
  across the directory section (lines 118-168). This is harmless, because no
  holder of the directory latch waits for a bucket latch. The model follows the
  code.

- **Null dereference after an unlatched `IsEmpty` (code bug, twice).** See
  `bptc_null_leaf`. `Insert` checks emptiness under
  the root-id latch, then releases the latch before `InsertIntoLeaf` descends
  again. `Remove` checks emptiness with no latch at all.
- **Unlatched re-parenting (code bug).** The internal page's `MoveAllTo`,
  `MoveHalfTo`, `MoveFirstToEndOf` and `MoveLastToFrontOf` write
  `parent_page_id_` of children without latching them. A thread holding such
  a child reads that field in `GetMinSize` (`b_plus_tree.cpp:217`), so this is
  a data race (`bptc_parent_race`). spec.md 4.3.4 describes this
  re-parenting and does not latch the children. Section 5 has a writer
  latch the pages on its own path, and these children are not on it. The value read leads to the same
  `IsRootPage` answer either way, so the model sees no further damage.
- **Directory data race (code bug).** `push_back` (line 137) may reallocate
  the vector, and line 162 rewrites slots, while other threads read
  `directories[idx]` without the directory latch (`Find`, `Remove`,
  `GetLocalDepth`, and `Insert`'s first read). The only ordering is a bucket
  latch, and only for a reader waiting on the bucket the splitter holds
  (`hash_directory_race`). The model reads a slot atomically, so it says
  nothing about what a torn read returns.
- **Bucket written without its latch (code bug, not shown by a run).**
  `Remove` locks the bucket it read at line 95, reads `directories[index]`
  again at line 96, and erases from that bucket at line 102. `Find`'s
  `operator[]` at line 69 likewise writes through a third read. If a split
  re-pointed the slot while the thread waited for the latch, the write goes
  to a bucket whose latch another thread may hold. Remove's result is still
  right, so only the lock discipline shows this. It is the second conjunct of
  `HashDataRaceFree`, `BucketWrittenUnderLatch`. Checked alone with keys
  0..3, TLC reports a 31-step trace in about 2 minutes: Remove(3) locks
  bucket 1, a split moves key 3 to bucket 3, and Remove erases it there. The
  run cap leaves no run for this trace on its own.
- **Tree checkers (hold).** `isBalanced` returns the height below the root and
  `isPageCorr` accepts every reachable tree, although it reads `KeyAt(0)` of
  internal pages (`bptree_structure`).
- **Sibling deadlock (holds).** A thread fetches the sibling while holding its
  page. It holds the parent exclusively whenever the page can underflow,
  because an unsafe page keeps its ancestors. So two threads never wait on
  each other's leaves (`bptc_crabbing`'s deadlock check,
  `bptc_keyset_progress`).

## Not modelled, and the plan

- **Iteration.** `index_iterator.cpp` holds only the constructor, the
  destructor and `isEnd`, which are modelled. `operator++` and
  `UnlockAndUnPin` are in a header that is not in the repository, so moving
  an iterator, and the slot it starts at, are not modelled.
- **Unpinning and the buffer pool.** `UnpinPage` and `FetchPage` pins are not
  modelled. Frames are allocated by `NewPage` and freed by `DeletePage`
  without limits beyond the frame set.
- **Debug and file helpers, `UpdateRootPageId`.** Not modelled: `ToString`,
  `InsertFromFile`/`RemoveFromFile`, and `UpdateRootPageId`. They are output, test harness, or header-page I/O.
- **LRU destructor.** Not modelled; it only frees memory.
