----------------------------- MODULE MemoryPool -----------------------------
(***************************************************************************)
(* The allocator (memory_new.c): two pools of equal blocks with a free     *)
(* list each, the system's heap for what does not fit, and statistics.     *)
(* Every access to a free list is under its pool's lock and every access   *)
(* to the statistics under theirs, so each critical section is one step;   *)
(* a call takes several of them.                                           *)
(*                                                                         *)
(* An address is a block of a pool or of the heap, and the content of a    *)
(* block a single value: that of the bytes its caller asked for.           *)
(***************************************************************************)
EXTENDS Integers

CONSTANTS Threads,
          SmallCount, MediumCount,  \* MEC_MEM_POOL_SMALL_COUNT and _MEDIUM_
          SmallSize, MediumSize,    \* MEC_MEM_POOL_SMALL_SIZE and _MEDIUM_
          Sizes,                    \* the sizes asked for
          Word,                     \* the values of a size_t
          HeapBlocks,               \* bound: blocks of the system's heap
          Values,                   \* what callers write
          Junk,                     \* what nobody has written
          Null

ASSUME PoolAssumption ==
  /\ {SmallCount, MediumCount} \subseteq Nat \ {0}
  /\ SmallSize \in Nat \ {0}
  /\ MediumSize \in Nat /\ MediumSize > SmallSize
  /\ Sizes \subseteq Nat \ {0}
  /\ Word \in Nat \ {0}
  /\ HeapBlocks \in Nat
  /\ Junk \notin Values

VARIABLES ready,     \* the pools that mec_memory_init could set up
          stale,     \* those whose blocks it gave back and still points to
          freeList,  \* free_list of each pool
          freeCount, \* free_count
          memory,    \* the content of each block
          asked,     \* history: the size each live block was asked for
          hands,     \* the addresses in callers' hands, and in no call
          pc,        \* where each thread is
          size,      \* its argument size
          ptr,       \* its argument ptr, of mec_free or mec_realloc
          new,       \* what mec_malloc has found for it
          used,      \* current_allocated
          peak,      \* peak_allocated
          phase      \* of mec_memory_init and mec_memory_cleanup

lists == <<freeList, freeCount>>
stats == <<used, peak>>
call == <<pc, size, ptr, new>>
vars == <<ready, stale, lists, memory, asked, hands, call, stats, phase>>

Pools == {"small", "medium"}
Total == [p \in Pools |-> IF p = "small" THEN SmallCount ELSE MediumCount]
BlockSize == [p \in Pools |-> IF p = "small" THEN SmallSize ELSE MediumSize]
Indices(p) == 0 .. Total[p] - 1
PoolAddresses == UNION {{p} \X Indices(p) : p \in Pools}
HeapAddresses == {"heap"} \X (1 .. HeapBlocks)
Addresses == PoolAddresses \cup HeapAddresses

ASSUME NullAssumption == Null \notin Addresses

-----------------------------------------------------------------------------
(* mec_memory_init; a pool that cannot be set up stays empty.  If it was   *)
(* the free list that found no memory, blocks keeps the address of what    *)
(* was given back.                                                         *)
Init == /\ ready \in SUBSET Pools
        /\ stale \in SUBSET (Pools \ ready)
        /\ freeList = [p \in Pools |-> [k \in Indices(p) |-> k]]
        /\ freeCount = [p \in Pools |-> IF p \in ready THEN Total[p] ELSE 0]
        /\ memory = [a \in Addresses |-> Junk]
        /\ asked = [a \in Addresses |-> 0]
        /\ hands = {}
        /\ pc = [t \in Threads |-> "idle"]
        /\ size = [t \in Threads |-> 0]
        /\ ptr = [t \in Threads |-> Null]
        /\ new = [t \in Threads |-> Null]
        /\ used = 0
        /\ peak = 0
        /\ phase = "up"

(* The addresses that are somebody's.                                      *)
Taken == hands \cup {ptr[t] : t \in Threads} \cup {new[t] : t \in Threads}

Go(t, place) == pc' = [pc EXCEPT ![t] = place]

-----------------------------------------------------------------------------
(* The callers                                                             *)

(* mec_malloc and mec_calloc; mec_realloc without a pointer is the former. *)
Malloc(t, s) == /\ phase = "up"
                /\ pc[t] = "idle"
                /\ Go(t, "take")
                /\ size' = [size EXCEPT ![t] = s]
                /\ UNCHANGED <<ready, stale, lists, memory, asked, hands, ptr,
                               new, stats, phase>>

(* The owner of a block writes to it.                                      *)
Write(a, v) == /\ a \in hands
               /\ memory' = [memory EXCEPT ![a] = v]
               /\ UNCHANGED <<ready, stale, lists, asked, hands, call, stats,
                              phase>>

(* mec_free, of a block of a pool.                                         *)
Free(t, a) == /\ pc[t] = "idle"
              /\ a \in hands \cap PoolAddresses
              /\ hands' = hands \ {a}
              /\ asked' = [asked EXCEPT ![a] = 0]
              /\ ptr' = [ptr EXCEPT ![t] = a]
              /\ Go(t, "give")
              /\ UNCHANGED <<ready, stale, lists, memory, size, new, stats,
                             phase>>

(* mec_free, of anything else; the statistics are not told.                *)
FreeHeap(t, a) == /\ pc[t] = "idle"
                  /\ a \in hands \cap HeapAddresses
                  /\ hands' = hands \ {a}
                  /\ asked' = [asked EXCEPT ![a] = 0]
                  /\ memory' = [memory EXCEPT ![a] = Junk]
                  /\ UNCHANGED <<ready, stale, lists, call, stats, phase>>

(* mec_realloc, of a block of a pool: it always moves.                     *)
Realloc(t, a, s) == /\ pc[t] = "idle"
                    /\ a \in hands \cap PoolAddresses
                    /\ hands' = hands \ {a}
                    /\ size' = [size EXCEPT ![t] = s]
                    /\ ptr' = [ptr EXCEPT ![t] = a]
                    /\ Go(t, "take")
                    /\ UNCHANGED <<ready, stale, lists, memory, asked, new,
                                   stats, phase>>

(* realloc of the C library: in place or elsewhere.  If it fails it        *)
(* changes nothing.  The statistics are not told.                          *)
ReallocHeap(t, a, b, s) ==
  /\ pc[t] = "idle"
  /\ a \in hands \cap HeapAddresses
  /\ b = a \/ b \in HeapAddresses \ Taken
  /\ hands' = (hands \ {a}) \cup {b}
  /\ memory' = [memory EXCEPT ![a] = Junk, ![b] = memory[a]]
  /\ asked' = [asked EXCEPT ![a] = 0, ![b] = s]
  /\ UNCHANGED <<ready, stale, lists, call, stats, phase>>

-----------------------------------------------------------------------------
(* mec_malloc                                                              *)

(* The pool that a size is taken from.                                     *)
Fits(p, s) == \/ p = "small" /\ s <= SmallSize
              \/ p = "medium" /\ SmallSize < s /\ s <= MediumSize

Top(p) == <<p, freeList[p][freeCount[p] - 1]>>

(* Variants named "... Bug" are plausible mistakes in the definition that   *)
(* follows; no specification uses them.                                    *)
TakeBug(t, p) == /\ pc[t] = "take"
                 /\ Fits(p, size[t])
                 /\ freeCount[p] > 0
                 /\ new' = [new EXCEPT ![t] = Top(p)]  \* no --free_count
                 /\ memory' = [memory EXCEPT ![Top(p)] = Junk]
                 /\ Go(t, "count")
                 /\ UNCHANGED <<ready, stale, lists, asked, hands, size, ptr,
                                stats, phase>>

(* The first bytes of the block are set to -1.                             *)
Take(t, p) == /\ pc[t] = "take"
              /\ Fits(p, size[t])
              /\ freeCount[p] > 0
              /\ freeCount' = [freeCount EXCEPT ![p] = @ - 1]
              /\ new' = [new EXCEPT ![t] = Top(p)]
              /\ memory' = [memory EXCEPT ![Top(p)] = Junk]
              /\ Go(t, "count")
              /\ UNCHANGED <<ready, stale, freeList, asked, hands, size, ptr,
                             stats, phase>>

(* The pool is exhausted, or the size is for no pool.                      *)
TakeNothing(t) == /\ pc[t] = "take"
                  /\ \A p \in Pools : Fits(p, size[t]) => freeCount[p] = 0
                  /\ Go(t, "fallback")
                  /\ UNCHANGED <<ready, stale, lists, memory, asked, hands,
                                 size, ptr, new, stats, phase>>

Fallback(t, a) == /\ pc[t] = "fallback"
                  /\ a \in HeapAddresses \ Taken
                  /\ new' = [new EXCEPT ![t] = a]
                  /\ Go(t, "count")
                  /\ UNCHANGED <<ready, stale, lists, memory, asked, hands,
                                 size, ptr, stats, phase>>

(* The end of a call, with r in its caller's hands.                        *)
Return(t, r) == /\ hands' = hands \cup r
                /\ Go(t, "idle")
                /\ size' = [size EXCEPT ![t] = 0]
                /\ ptr' = [ptr EXCEPT ![t] = Null]
                /\ new' = [new EXCEPT ![t] = Null]

FallbackFailsBug(t) ==
  /\ pc[t] = "fallback"
  /\ Go(t, "count")  \* counted although there is nothing
  /\ UNCHANGED <<ready, stale, lists, memory, asked, hands, size, ptr, new,
                 stats, phase>>

(* There is no memory at all: NULL.  mec_realloc leaves the old block.     *)
FallbackFails(t) ==
  /\ pc[t] = "fallback"
  /\ Return(t, {ptr[t]} \ {Null})
  /\ UNCHANGED <<ready, stale, lists, memory, asked, stats, phase>>

Counted(t) == /\ used' = (used + size[t]) % Word
              /\ peak' = IF used' > peak THEN used' ELSE peak
              /\ asked' = [asked EXCEPT ![new[t]] = size[t]]

(* mec_malloc returns to its caller,                                       *)
Count(t) == /\ pc[t] = "count"
            /\ ptr[t] = Null
            /\ Counted(t)
            /\ Return(t, {new[t]})
            /\ UNCHANGED <<ready, stale, lists, memory, phase>>

(* or to mec_realloc.                                                      *)
CountMoved(t) == /\ pc[t] = "count"
                 /\ ptr[t] # Null
                 /\ Counted(t)
                 /\ Go(t, "copy")
                 /\ UNCHANGED <<ready, stale, lists, memory, hands, size, ptr,
                                new, phase>>

-----------------------------------------------------------------------------
(* The rest of mec_realloc and mec_free, of a block of a pool              *)

Least(m, n) == IF m <= n THEN m ELSE n

CopyBug(t) ==
  LET copied == Least(size[t], SmallSize)  \* whatever the pool
      wanted == Least(size[t], asked[ptr[t]])
  IN  /\ pc[t] = "copy"
      /\ memory' = [memory EXCEPT ![new[t]] =
                      IF copied >= wanted THEN memory[ptr[t]] ELSE Junk]
      /\ asked' = [asked EXCEPT ![ptr[t]] = 0]
      /\ Go(t, "give")
      /\ UNCHANGED <<ready, stale, lists, hands, size, ptr, new, stats, phase>>

(* Nobody knows the size the block was asked for: the copy is of the new   *)
(* size or of the whole block, and keeps the content if that is no less    *)
(* than what the caller had and still wants.                               *)
Copy(t) ==
  LET copied == Least(size[t], BlockSize[ptr[t][1]])
      wanted == Least(size[t], asked[ptr[t]])
  IN  /\ pc[t] = "copy"
      /\ memory' = [memory EXCEPT ![new[t]] =
                      IF copied >= wanted THEN memory[ptr[t]] ELSE Junk]
      /\ asked' = [asked EXCEPT ![ptr[t]] = 0]
      /\ Go(t, "give")
      /\ UNCHANGED <<ready, stale, lists, hands, size, ptr, new, stats, phase>>

GiveBug(t) ==
  LET p == ptr[t][1]
  IN  /\ pc[t] = "give"
      /\ IF freeCount[p] < Total[p] - 1  \* one block short
         THEN /\ freeList' = [freeList EXCEPT ![p][freeCount[p]] = ptr[t][2]]
              /\ freeCount' = [freeCount EXCEPT ![p] = @ + 1]
              /\ memory' = [memory EXCEPT ![ptr[t]] = Junk]
              /\ Go(t, "uncount")
         ELSE /\ Go(t, "abort")
              /\ UNCHANGED <<lists, memory>>
      /\ UNCHANGED <<ready, stale, asked, hands, size, ptr, new, stats, phase>>

(* The block is the last of its pool's free list, and its content nobody's *)
(* any more.  If the list is full, the pointer goes to free of the C       *)
(* library, which ends the process.                                        *)
Give(t) ==
  LET p == ptr[t][1]
  IN  /\ pc[t] = "give"
      /\ IF freeCount[p] < Total[p]
         THEN /\ freeList' = [freeList EXCEPT ![p][freeCount[p]] = ptr[t][2]]
              /\ freeCount' = [freeCount EXCEPT ![p] = @ + 1]
              /\ memory' = [memory EXCEPT ![ptr[t]] = Junk]
              /\ Go(t, "uncount")
         ELSE /\ Go(t, "abort")
              /\ UNCHANGED <<lists, memory>>
      /\ UNCHANGED <<ready, stale, asked, hands, size, ptr, new, stats, phase>>

(* The size of the block goes off the statistics, whatever was asked for.  *)
Uncount(t) == /\ pc[t] = "uncount"
              /\ used' = (used - BlockSize[ptr[t][1]]) % Word
              /\ Return(t, {new[t]} \ {Null})
              /\ UNCHANGED <<ready, stale, lists, memory, asked, peak, phase>>

-----------------------------------------------------------------------------
(* mec_memory_cleanup: main calls it when all threads have ended and every *)
(* object has been freed.  Blocks that were given back are freed again:    *)
(* the C library notices and aborts the process, or it does not.           *)
Cleanup == /\ phase = "up"
           /\ hands = {}
           /\ \A t \in Threads : pc[t] = "idle"
           /\ phase' \in {"down"} \cup IF stale = {} THEN {} ELSE {"aborted"}
           /\ UNCHANGED <<ready, stale, lists, memory, asked, hands, call,
                          stats>>

Gone == phase # "up" /\ UNCHANGED vars

-----------------------------------------------------------------------------
Call(t) == \/ \E s \in Sizes : Malloc(t, s)
           \/ \E a \in hands : \/ Free(t, a)
                               \/ FreeHeap(t, a)
           \/ \E a \in hands, s \in Sizes :
                \/ Realloc(t, a, s)
                \/ \E b \in HeapAddresses : ReallocHeap(t, a, b, s)

Step(t) == \/ \E p \in Pools : Take(t, p)
           \/ TakeNothing(t)
           \/ \E a \in HeapAddresses : Fallback(t, a)
           \/ FallbackFails(t)
           \/ Count(t)
           \/ CountMoved(t)
           \/ Copy(t)
           \/ Give(t)
           \/ Uncount(t)

Next == \/ \E t \in Threads : Call(t) \/ Step(t)
        \/ \E a \in hands, v \in Values : Write(a, v)
        \/ Cleanup
        \/ Gone

Spec == Init /\ [][Next]_vars

-----------------------------------------------------------------------------
(* Types; a call that looks at a pointer has one.                          *)
TypeOK == /\ ready \subseteq Pools
          /\ stale \subseteq Pools \ ready
          /\ DOMAIN freeList = Pools
          /\ freeCount \in [Pools -> Nat]
          /\ \A p \in Pools : /\ freeList[p] \in [Indices(p) -> Indices(p)]
                              /\ freeCount[p] <= Total[p]
          /\ memory \in [Addresses -> Values \cup {Junk}]
          /\ asked \in [Addresses -> Sizes \cup {0}]
          /\ hands \subseteq Addresses
          /\ pc \in [Threads -> {"idle", "take", "fallback", "count", "copy",
                                 "give", "uncount", "abort"}]
          /\ size \in [Threads -> Sizes \cup {0}]
          /\ ptr \in [Threads -> PoolAddresses \cup {Null}]
          /\ new \in [Threads -> Addresses \cup {Null}]
          /\ \A t \in Threads :
               /\ pc[t] \in {"count", "copy"} => new[t] # Null
               /\ pc[t] \in {"copy", "give", "uncount"} => ptr[t] # Null
          /\ used \in 0 .. Word - 1
          /\ peak \in 0 .. Word - 1
          /\ phase \in {"up", "down", "aborted"}

Listed(a) == \E k \in 0 .. freeCount[a[1]] - 1 : a[2] = freeList[a[1]][k]

(* The call of t has address a: the block that it has found, and the one   *)
(* it was called with until that is on its free list.                      *)
Has(t, a) == a # Null /\ (a = new[t] \/ (a = ptr[t] /\ pc[t] # "uncount"))

Nobodys(a) == a \notin hands /\ \A t \in Threads : ~Has(t, a)

(* Every block of a pool is either on its free list, once, or one caller's *)
(* or one call's: none is handed out twice and none is lost, however the   *)
(* calls of the threads interleave and wherever they fail.  A pool that    *)
(* was not set up has no blocks.                                           *)
BlocksAccounted ==
  /\ \A p \in Pools : \A j, k \in 0 .. freeCount[p] - 1 :
       freeList[p][j] = freeList[p][k] => j = k
  /\ \A a \in PoolAddresses : Listed(a) <=> a[1] \in ready /\ Nobodys(a)
  /\ \A a \in PoolAddresses : a[1] \notin ready => Nobodys(a)
  /\ \A t \in Threads, a \in hands : ~Has(t, a)
  /\ \A t, u \in Threads, a \in Addresses : Has(t, a) /\ Has(u, a) => t = u

(* A block of a pool never goes to the C library's free: there is always   *)
(* room for it on the list, although only counters and a division decide.  *)
PoolPointersStay == \A t \in Threads : pc[t] # "abort"

(* To its callers this is an allocator: a block is theirs alone and keeps  *)
(* its content, also while it moves and its old place is given to others.  *)
(* It moves when the old block is given back.                              *)
Visible == hands \cup {ptr[t] : t \in {u \in Threads :
                                         \/ pc[u] \in {"take", "fallback",
                                                       "count", "copy"}
                                         \/ pc[u] = "give" /\ new[u] # Null}}
                 \cup {new[t] : t \in {u \in Threads : pc[u] = "uncount"}}

Abstract == INSTANCE Allocator WITH
              Values <- Values \cup {Junk},
              content <- [a \in Visible \ {Null} |-> memory[a]]

ImplementsAllocator == Abstract!Spec
=============================================================================
