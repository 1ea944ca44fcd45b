--------------------------- MODULE ExtendibleHash ---------------------------
(***************************************************************************)
(* The extendible hash table of scudb                                      *)
(* (src/Homework3/scudb/src/hash/extendible_hash.cpp), used by the buffer  *)
(* pool as its page table, with several threads calling Insert, Find and  *)
(* Remove.                                                                 *)
(*                                                                         *)
(* Every critical section under the directory latch (getIdx, the split of *)
(* Insert) is one step: no thread waits for anything while holding it.    *)
(* What the code does outside it is split into the steps the code takes:  *)
(* getIdx, the unlatched read of directories[idx], the bucket lock, and   *)
(* the body under the bucket lock (which re-reads directories[index] in   *)
(* Find and Remove).                                                       *)
(***************************************************************************)
EXTENDS Integers, Sequences, FiniteSets, FiniteSetsExt, Functions, Bitwise, TLC

CONSTANTS
    Threads,        \* threads using the table
    Keys,           \* keys (int), hashed by std::hash<int>, the identity
    Values,         \* values
    BucketSize,     \* bucketSize
    BucketIds,      \* identities of Bucket objects (make_shared)
    MaxLocalDepth   \* model bound on a bucket's localDepth

ASSUME Keys \subseteq Nat /\ BucketSize >= 1

VARIABLES
    globalDepth, directories, bucketNum,  \* guarded by latch
    bucket,     \* bucket[b]: [alloc, kmap, localDepth]
    owner,      \* owner[b]: the thread holding bucket b's latch, or NoThread
    pc, op, key, val,     \* per thread: program point and call arguments
    idx, cur,   \* per thread: the directory index and the Bucket pointer
    ret,        \* per thread: what the last call returned
    num,        \* per thread: what the last int getter returned
    ghost       \* the map the calls so far define, in the order they took effect

hashVars == <<globalDepth, directories, bucketNum, bucket, owner>>
threadVars == <<pc, op, key, val, idx, cur, ret, num>>
vars == <<hashVars, threadVars, ghost>>

NoThread == "none"
NoValue == "absent"
NoBucket == -1
Null == "null"      \* V(): nullptr for the page table

HashKey(k) == k

\* directories is a vector: slot i of the code is directories[i + 1].
Slot(i) == directories[i + 1]

EmptyBucket(depth) == [alloc |-> TRUE, kmap |-> <<>>, localDepth |-> depth]
Unused == [alloc |-> FALSE, kmap |-> <<>>, localDepth |-> 0]

Put(m, k, v) == (k :> v) @@ m
Erase(m, k) == Restrict(m, DOMAIN m \ {k})

-----------------------------------------------------------------------------

Init ==
    /\ globalDepth = 0
    /\ bucketNum = 1
    /\ directories = <<Min(BucketIds)>>
    /\ bucket = [b \in BucketIds |-> IF b = Min(BucketIds) THEN EmptyBucket(0) ELSE Unused]
    /\ owner = [b \in BucketIds |-> NoThread]
    /\ pc = [t \in Threads |-> "idle"]
    /\ op = [t \in Threads |-> "none"]
    /\ key = [t \in Threads |-> Min(Keys)]
    /\ val = [t \in Threads |-> NoValue]
    /\ idx = [t \in Threads |-> 0]
    /\ cur = [t \in Threads |-> NoBucket]
    /\ ret = [t \in Threads |-> NoValue]
    /\ num = [t \in Threads |-> 0]
    /\ ghost = <<>>

\* A thread calls Insert(k, v), Find(k) or Remove(k), or GetLocalDepth(i)
\* for a slot i of the directory, which reads directories[i] without any
\* getIdx (lines 42-47).
Call(t) ==
    /\ pc[t] = "idle"
    /\ \/ \E o \in {"Insert", "Find", "Remove"}, k \in Keys, v \in Values :
             /\ op' = [op EXCEPT ![t] = o]
             /\ key' = [key EXCEPT ![t] = k]
             /\ val' = [val EXCEPT ![t] = IF o = "Insert" THEN v ELSE NoValue]
             /\ pc' = [pc EXCEPT ![t] = "getIdx"]
             /\ UNCHANGED idx
       \/ \E i \in 0 .. Len(directories) - 1 :
             /\ op' = [op EXCEPT ![t] = "GetLocalDepth"]
             /\ idx' = [idx EXCEPT ![t] = i]
             /\ pc' = [pc EXCEPT ![t] = "readSlot"]
             /\ UNCHANGED <<key, val>>
    /\ UNCHANGED <<num, hashVars, cur, ret, ghost>>

\* GetGlobalDepth and GetNumBuckets (lines 31-36, 52-57): one read under
\* the directory latch.
GetGlobalDepth(t) ==
    /\ pc[t] = "idle"
    /\ num' = [num EXCEPT ![t] = globalDepth]
    /\ UNCHANGED <<hashVars, pc, op, key, val, idx, cur, ret, ghost>>

GetNumBuckets(t) ==
    /\ pc[t] = "idle"
    /\ num' = [num EXCEPT ![t] = bucketNum]
    /\ UNCHANGED <<hashVars, pc, op, key, val, idx, cur, ret, ghost>>

\* getIdx: under the directory latch, the low globalDepth bits of the hash.
getIdxFullMask(k) == HashKey(k) & 2^globalDepth
getIdx(k) == HashKey(k) & (2^globalDepth - 1)

GetIdx(t) ==
    /\ pc[t] = "getIdx"
    /\ idx' = [idx EXCEPT ![t] = getIdx(key[t])]
    /\ pc' = [pc EXCEPT ![t] = "readSlot"]
    /\ UNCHANGED <<num, hashVars, op, key, val, cur, ret, ghost>>

\* directories[idx] read without the directory latch.  In Insert's loop
\* (line 167) the lock_guard of the bucket just split goes out of scope
\* only after this read: the latch a thread holds is released here.
ReadSlot(t) ==
    /\ pc[t] = "readSlot"
    /\ cur' = [cur EXCEPT ![t] = Slot(idx[t])]
    /\ owner' = [b \in BucketIds |-> IF owner[b] = t THEN NoThread ELSE owner[b]]
    /\ pc' = [pc EXCEPT ![t] = "lock"]
    /\ UNCHANGED <<num, globalDepth, directories, bucketNum, bucket, op, key, val,
                   idx, ret, ghost>>

\* lock_guard on the bucket read above.
LockBucket(t) ==
    /\ pc[t] = "lock"
    /\ owner[cur[t]] = NoThread
    /\ owner' = [owner EXCEPT ![cur[t]] = t]
    /\ pc' = [pc EXCEPT ![t] = "body"]
    /\ UNCHANGED <<num, globalDepth, directories, bucketNum, bucket, op, key, val,
                   idx, cur, ret, ghost>>

Unlock(t) == owner' = [owner EXCEPT ![cur[t]] = NoThread]

Return(t, r) ==
    /\ pc' = [pc EXCEPT ![t] = "idle"]
    /\ ret' = [ret EXCEPT ![t] = r]

InsertWriteNoOverwrite(t) ==
    LET b == cur[t] IN
    /\ pc[t] = "body" /\ op[t] = "Insert"
    /\ Cardinality(DOMAIN bucket[b].kmap) < BucketSize
    /\ bucket' = [bucket EXCEPT ![b].kmap = Put(@, key[t], val[t])]
    /\ ghost' = Put(ghost, key[t], val[t])
    /\ Unlock(t)
    /\ Return(t, NoValue)
    /\ UNCHANGED <<num, globalDepth, directories, bucketNum, op, key, val, idx, cur>>

\* Insert, first branch: the key is present or the bucket has room.
InsertWrite(t) ==
    LET b == cur[t] IN
    /\ pc[t] = "body" /\ op[t] = "Insert"
    /\ key[t] \in DOMAIN bucket[b].kmap \/ Cardinality(DOMAIN bucket[b].kmap) < BucketSize
    /\ bucket' = [bucket EXCEPT ![b].kmap = Put(@, key[t], val[t])]
    /\ ghost' = Put(ghost, key[t], val[t])
    /\ Unlock(t)
    /\ Return(t, NoValue)
    /\ UNCHANGED <<num, globalDepth, directories, bucketNum, op, key, val, idx, cur>>

\* The split, lines 132-164: the directory doubles by appending a copy of
\* itself; the entries of kmap whose bit mask is set move to the new
\* bucket, and so do the slots i with i & mask that pointed to the old one.
Double(dir) == dir \o dir

MovedNextBit(m, mask) == {k \in DOMAIN m : (HashKey(k) & (2 * mask)) # 0}
Moved(m, mask) == {k \in DOMAIN m : (HashKey(k) & mask) # 0}

RepointAnySlot(dir, b, nb, mask) ==
    [i \in DOMAIN dir |-> IF ((i - 1) & mask) # 0 THEN nb ELSE dir[i]]
Repoint(dir, b, nb, mask) ==
    [i \in DOMAIN dir |-> IF dir[i] = b /\ ((i - 1) & mask) # 0 THEN nb ELSE dir[i]]

\* Insert, second branch: the bucket is full.  localDepth grows, then the
\* whole directory-latch section runs as one step, and the loop starts
\* over from getIdx with the bucket latch still held (lck lives to the end
\* of the iteration).  New Bucket objects take the lowest unused id.
InsertSplit(t) ==
    LET b == cur[t]
        mask == 2^bucket[b].localDepth
        depth == bucket[b].localDepth + 1
        grown == IF depth > globalDepth THEN Double(directories) ELSE directories
        nb == Min({c \in BucketIds : ~bucket[c].alloc})
        moved == Moved(bucket[b].kmap, mask)
    IN
    /\ pc[t] = "body" /\ op[t] = "Insert"
    /\ key[t] \notin DOMAIN bucket[b].kmap
    /\ Cardinality(DOMAIN bucket[b].kmap) >= BucketSize
    /\ depth <= MaxLocalDepth
    /\ \E c \in BucketIds : ~bucket[c].alloc
    /\ globalDepth' = IF depth > globalDepth THEN globalDepth + 1 ELSE globalDepth
    /\ bucketNum' = bucketNum + 1
    /\ bucket' = [bucket EXCEPT
                    ![b] = [@ EXCEPT !.kmap = Restrict(@, DOMAIN @ \ moved),
                                     !.localDepth = depth],
                    ![nb] = [alloc |-> TRUE, localDepth |-> depth,
                             kmap |-> Restrict(bucket[b].kmap, moved)]]
    /\ directories' = Repoint(grown, b, nb, mask)
    /\ pc' = [pc EXCEPT ![t] = "getIdx"]
    /\ UNCHANGED <<num, owner, op, key, val, idx, cur, ret, ghost>>

\* Find, line 67: under the latch of the bucket locked, directories[index]
\* is read again and the key looked up there; if absent, Find returns false.
FindCheck(t) ==
    LET found == key[t] \in DOMAIN bucket[Slot(idx[t])].kmap IN
    /\ pc[t] = "body" /\ op[t] = "Find"
    /\ \/ /\ found
          /\ pc' = [pc EXCEPT ![t] = "findRead"]
          /\ UNCHANGED <<owner, ret>>
       \/ /\ ~found
          /\ Unlock(t)
          /\ Return(t, "false")
    /\ UNCHANGED <<num, globalDepth, directories, bucketNum, bucket, op, key, val,
                   idx, cur, ghost>>

\* Find, line 69: directories[index] is read a third time and
\* kmap[key] taken from it; operator[] inserts a V() (Null) when the key
\* is not there.
FindRead(t) ==
    LET b == Slot(idx[t])
        m == bucket[b].kmap
    IN
    /\ pc[t] = "findRead"
    /\ bucket' = IF key[t] \in DOMAIN m THEN bucket
                 ELSE [bucket EXCEPT ![b].kmap = Put(@, key[t], Null)]
    /\ Unlock(t)
    /\ Return(t, IF key[t] \in DOMAIN m THEN m[key[t]] ELSE Null)
    /\ UNCHANGED <<num, globalDepth, directories, bucketNum, op, key, val, idx, cur, ghost>>

RemoveBodyNoErase(t) ==
    LET b == Slot(idx[t])
        found == key[t] \in DOMAIN bucket[b].kmap
    IN
    /\ pc[t] = "body" /\ op[t] = "Remove"
    /\ ghost' = Erase(ghost, key[t])
    /\ Unlock(t)
    /\ Return(t, IF found THEN "true" ELSE "false")
    /\ UNCHANGED <<num, globalDepth, directories, bucketNum, bucket, op, key, val, idx, cur>>

\* Remove: cur = directories[index] is read again after locking, and the key
\* erased from it.  Returns "true" iff it was there.
RemoveBody(t) ==
    LET b == Slot(idx[t])
        found == key[t] \in DOMAIN bucket[b].kmap
    IN
    /\ pc[t] = "body" /\ op[t] = "Remove"
    /\ bucket' = IF found THEN [bucket EXCEPT ![b].kmap = Erase(@, key[t])] ELSE bucket
    /\ ghost' = Erase(ghost, key[t])
    /\ Unlock(t)
    /\ Return(t, IF found THEN "true" ELSE "false")
    /\ UNCHANGED <<num, globalDepth, directories, bucketNum, op, key, val, idx, cur>>

\* GetLocalDepth, line 46: under the latch of the bucket read first,
\* directories[bucket_id] is read again and its localDepth returned.
LocalDepthBody(t) ==
    /\ pc[t] = "body" /\ op[t] = "GetLocalDepth"
    /\ Unlock(t)
    /\ pc' = [pc EXCEPT ![t] = "idle"]
    /\ num' = [num EXCEPT ![t] = bucket[Slot(idx[t])].localDepth]
    /\ UNCHANGED <<globalDepth, directories, bucketNum, bucket, op, key, val, idx, cur,
                   ret, ghost>>

Step(t) ==
    \/ Call(t)
    \/ GetGlobalDepth(t)
    \/ GetNumBuckets(t)
    \/ GetIdx(t)
    \/ ReadSlot(t)
    \/ LockBucket(t)
    \/ InsertWrite(t)
    \/ InsertSplit(t)
    \/ FindCheck(t)
    \/ FindRead(t)
    \/ RemoveBody(t)
    \/ LocalDepthBody(t)

Next == \E t \in Threads : Step(t)

\* Every step of a thread that can go on is taken eventually (the threads
\* are OS threads); lock acquisition gets no stronger fairness, as
\* std::mutex promises none.
Spec == Init /\ [][Next]_vars /\ \A t \in Threads : WF_vars(Step(t) /\ pc[t] # "idle")

\* ret and ghost are written, never read by an action: a run checking only
\* the table's own state may leave them out of the state it compares.
HashView == <<hashVars, pc, op, key, val, idx, cur>>

-----------------------------------------------------------------------------
(* Properties.                                                              *)

Allocated == {b \in BucketIds : bucket[b].alloc}
Map == UNION {[D -> Values \cup {Null}] : D \in SUBSET Keys}

TypeOK ==
    /\ globalDepth \in 0 .. MaxLocalDepth
    /\ directories \in Seq(Allocated)
    /\ bucketNum \in Nat
    /\ idx \in [Threads -> 0 .. Len(directories) - 1]
    /\ \A b \in BucketIds : bucket[b].kmap \in Map /\ bucket[b].localDepth \in 0 .. MaxLocalDepth
    /\ owner \in [BucketIds -> Threads \cup {NoThread}]
    /\ pc \in [Threads -> {"idle", "getIdx", "readSlot", "lock", "body", "findRead"}]
    /\ ret \in [Threads -> Values \cup {Null, NoValue, "true", "false"}]
    /\ num \in [Threads -> Nat]
    /\ ghost \in Map

\* The directory has 2^globalDepth slots; each bucket's localDepth is at
\* most globalDepth, and the slots pointing to a bucket are exactly those
\* that agree with each other in their low localDepth bits; bucketNum
\* counts the buckets.  The doubling and slot reassignment of the split
\* keep this whatever the threads do.
DirectoryWellFormed ==
    /\ Len(directories) = 2^globalDepth
    /\ \A i, j \in 0 .. Len(directories) - 1 :
          LET d == bucket[Slot(i)].localDepth IN
          /\ d <= globalDepth
          /\ (Slot(j) = Slot(i)) <=> (i % 2^d = j % 2^d)
    /\ bucketNum = Cardinality(Allocated)
    /\ Allocated = {Slot(i) : i \in 0 .. Len(directories) - 1}

\* Every stored key is in the bucket its hash leads to: a key written
\* through a stale Bucket pointer is invisible to Find.
KeysInTheirBucket ==
    \A b \in Allocated : \A k \in DOMAIN bucket[b].kmap :
        Slot(HashKey(k) & (2^globalDepth - 1)) = b

\* Find returns the value of the last Insert of its key that took effect
\* (false if there is none or a Remove came after it), and Remove reports
\* the key present iff it was, at the moment they return.
Expected(t) ==
    IF op[t] = "Find"
    THEN IF key[t] \in DOMAIN ghost THEN ghost[key[t]] ELSE "false"
    ELSE IF key[t] \in DOMAIN ghost THEN "true" ELSE "false"

FindRemoveSeeLatest ==
    [][\A t \in Threads :
         (op[t] \in {"Find", "Remove"} /\ pc[t] # "idle" /\ pc'[t] = "idle")
             => ret'[t] = Expected(t)]_vars


\* Thread u has taken its index from getIdx, dropped the directory latch,
\* and has a read of directories[index] still to do without it: the read
\* of line 45 / 65 / 94 / 115 / 167 (readSlot), and for Find, Remove and
\* GetLocalDepth the re-reads of lines 66, 68, 95 and 46 after the bucket
\* latch.  While u waits
\* for the latch of the bucket t holds, t's unlock will order t's writes
\* before u's read, so that case is excluded.
PendingDirectoryRead(u, t) ==
    \/ pc[u] = "readSlot"
    \/ /\ op[u] \in {"Find", "Remove", "GetLocalDepth"}
       /\ \/ pc[u] \in {"body", "findRead"}
          \/ pc[u] = "lock" /\ cur[u] # cur[t]

\* No split writes the directory (push_back at line 137, which may
\* reallocate the vector, and the slot assignment at line 162, under the
\* directory latch only) while another thread has an unlatched read of a
\* slot pending: the two accesses would be unordered, a data race on
\* std::vector and on the shared_ptr it holds.
DirectoryWriteExcludesReaders ==
    [][\A t \in Threads :
         InsertSplit(t) => \A u \in Threads \ {t} : ~PendingDirectoryRead(u, t)]_vars


\* A thread writes a bucket's kmap only while it holds that bucket's
\* latch.  Remove erases from cur = directories[index], read again at
\* line 96 after locking the bucket read at line 95, and Find's
\* operator[] at line 69 inserts into directories[index] read a third
\* time: after a split those are another bucket than the one locked.
\* (Buckets allocated by the step itself are not yet shared.)
BucketWrittenUnderLatch ==
    [][\A t \in Threads, b \in Allocated :
         (pc'[t] # pc[t] /\ bucket'[b].kmap # bucket[b].kmap) => owner[b] = t]_vars

\* No data race on the table's shared state: neither on the directory
\* vector nor on a bucket's map.
HashDataRaceFree == DirectoryWriteExcludesReaders /\ BucketWrittenUnderLatch

\* The map the table holds: the entries of every bucket the directory
\* reaches, wherever a split has moved them.
Contents ==
    LET present == UNION {DOMAIN bucket[b].kmap : b \in Allocated}
        holder(k) == CHOOSE b \in Allocated : k \in DOMAIN bucket[b].kmap
    IN [k \in present |-> bucket[holder(k)].kmap[k]]

Abstract == INSTANCE HashTableSpec WITH table <- Contents

\* Used by one thread, the table implements HashTableSpec: each call takes
\* effect at one step (the write of line 121, the tests of lines 67 and 97
\* and the erase of line 102), where the entries held by all buckets
\* change as the abstract map does and the call's result is the abstract
\* one; a split (lines 125-164) and the getters change no entry.
HashTableRefinement == Abstract!Spec

\* Every call returns: Insert's loop of lines 116-168 ends, each split
\* separating the full bucket's keys by one more bit until the key's
\* bucket has room.
EveryCallReturns == \A t \in Threads : pc[t] # "idle" ~> pc[t] = "idle"

=============================================================================
