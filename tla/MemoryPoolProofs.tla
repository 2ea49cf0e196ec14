-------------------------- MODULE MemoryPoolProofs --------------------------
(***************************************************************************)
(* Proofs about MemoryPool for every number of threads, blocks and sizes.  *)
(***************************************************************************)
EXTENDS MemoryPool, FiniteSetTheorems, TLAPS

(* What a thread has at each place of its call.                            *)
CallInv ==
  \A t \in Threads :
    /\ pc[t] = "idle" => ptr[t] = Null
    /\ pc[t] \in {"idle", "take", "fallback"} => new[t] = Null
    /\ pc[t] \in {"take", "fallback", "count", "copy"} => size[t] \in Sizes
    /\ pc[t] \in {"count", "copy", "give"} /\ new[t] # Null => new[t] # ptr[t]

PoolInv == TypeOK /\ CallInv /\ BlocksAccounted /\ PoolPointersStay

-----------------------------------------------------------------------------
LEMMA PoolFacts ==
  /\ \A p \in Pools : Total[p] \in Nat \ {0} /\ BlockSize[p] \in Nat \ {0}
  /\ \A a \in PoolAddresses : /\ a[1] \in Pools
                              /\ a[2] \in Indices(a[1])
                              /\ a = <<a[1], a[2]>>
  /\ \A p \in Pools : \A n \in Indices(p) : <<p, n>> \in PoolAddresses
  /\ \A a \in HeapAddresses : a \notin PoolAddresses
  /\ PoolAddresses \subseteq Addresses /\ HeapAddresses \subseteq Addresses
<1>1. \A p \in Pools : Total[p] \in Nat \ {0} /\ BlockSize[p] \in Nat \ {0}
  BY PoolAssumption DEF Pools, Total, BlockSize
<1>2. \A a \in PoolAddresses : /\ a[1] \in Pools
                               /\ a[2] \in Indices(a[1])
                               /\ a = <<a[1], a[2]>>
  BY DEF PoolAddresses
<1>3. \A p \in Pools : \A n \in Indices(p) : <<p, n>> \in PoolAddresses
  BY DEF PoolAddresses
<1>4. \A a \in HeapAddresses : a \notin PoolAddresses
  BY <1>2 DEF HeapAddresses, Pools
<1>5. PoolAddresses \subseteq Addresses /\ HeapAddresses \subseteq Addresses
  BY DEF Addresses
<1>6. QED
  BY <1>1, <1>2, <1>3, <1>4, <1>5

LEMMA PoolInvInit == Init => PoolInv
<1> SUFFICES ASSUME Init PROVE PoolInv
  OBVIOUS
<1>1. TypeOK
  BY PoolAssumption, PoolFacts DEF Init, TypeOK, Indices
<1>2. CallInv /\ PoolPointersStay
  BY DEF Init, CallInv, PoolPointersStay
<1>3. \A a \in PoolAddresses : Nobodys(a)
  BY NullAssumption, PoolFacts DEF Init, Nobodys, Has
<1>4. ASSUME NEW a \in PoolAddresses
      PROVE  Listed(a) <=> a[1] \in ready
  <2>1. a[1] \in Pools /\ a[2] \in 0 .. Total[a[1]] - 1
    BY PoolFacts DEF Indices
  <2>2. \A k \in 0 .. Total[a[1]] - 1 : freeList[a[1]][k] = k
    BY <2>1 DEF Init, Indices
  <2>3. freeCount[a[1]] = IF a[1] \in ready THEN Total[a[1]] ELSE 0
    BY <2>1 DEF Init
  <2>4. QED
    BY <2>1, <2>2, <2>3, PoolFacts DEF Listed
<1>5. BlocksAccounted
  BY <1>3, <1>4, PoolFacts, NullAssumption
  DEF Init, BlocksAccounted, Has, Indices
<1>6. QED
  BY <1>1, <1>2, <1>5 DEF PoolInv

-----------------------------------------------------------------------------
(* Types and the places of a call                                          *)

LEMMA TopListed ==
  ASSUME TypeOK, NEW p \in Pools, freeCount[p] > 0
  PROVE  Top(p) \in PoolAddresses /\ Top(p)[1] = p /\ Listed(Top(p))
<1>1. freeCount[p] \in Nat /\ freeCount[p] - 1 \in Indices(p)
  BY PoolFacts DEF TypeOK, Indices
<1>2. freeList[p][freeCount[p] - 1] \in Indices(p)
  BY <1>1 DEF TypeOK
<1>3. QED
  BY <1>1, <1>2, PoolFacts DEF Top, Listed

LEMMA TopFree ==
  ASSUME PoolInv, NEW p \in Pools, freeCount[p] > 0
  PROVE  /\ Top(p) \in PoolAddresses
         /\ Top(p) # Null
         /\ p \in ready
         /\ Nobodys(Top(p))
<1>1. Top(p) \in PoolAddresses /\ Top(p)[1] = p /\ Listed(Top(p))
  BY TopListed DEF PoolInv
<1>2. QED
  BY <1>1, PoolFacts, NullAssumption DEF PoolInv, BlocksAccounted

(* The statistics stay within a size_t (memory_new.c:132, 161).            *)
LEMMA WordRange ==
  ASSUME NEW n \in Int
  PROVE  n % Word \in 0 .. Word - 1
  BY PoolAssumption

LEMMA CountedRange ==
  ASSUME NEW t \in Threads, size[t] \in Nat, Counted(t),
         used \in 0 .. Word - 1, peak \in 0 .. Word - 1
  PROVE  used' \in 0 .. Word - 1 /\ peak' \in 0 .. Word - 1
<1>1. used + size[t] \in Int
  BY PoolAssumption
<1>2. used' \in 0 .. Word - 1
  BY <1>1, WordRange DEF Counted
<1>3. QED
  BY <1>2 DEF Counted

LEMMA StateCall ==
  ASSUME PoolInv, NEW t \in Threads, Call(t)
  PROVE  TypeOK' /\ CallInv'
<1> USE DEF PoolInv, TypeOK, CallInv, Go, lists, stats, call
<1>1. ASSUME NEW s \in Sizes, Malloc(t, s)
      PROVE  TypeOK' /\ CallInv'
  BY <1>1 DEF Malloc
<1>2. ASSUME NEW a \in hands, Free(t, a)
      PROVE  TypeOK' /\ CallInv'
  BY <1>2, PoolFacts, NullAssumption DEF Free
<1>3. ASSUME NEW a \in hands, FreeHeap(t, a)
      PROVE  TypeOK' /\ CallInv'
  BY <1>3, PoolFacts DEF FreeHeap
<1>4. ASSUME NEW a \in hands, NEW s \in Sizes, Realloc(t, a, s)
      PROVE  TypeOK' /\ CallInv'
  BY <1>4, PoolFacts DEF Realloc
<1>5. ASSUME NEW a \in hands, NEW s \in Sizes, NEW b \in HeapAddresses,
             ReallocHeap(t, a, b, s)
      PROVE  TypeOK' /\ CallInv'
  BY <1>5, PoolFacts DEF ReallocHeap
<1>6. QED
  BY <1>1, <1>2, <1>3, <1>4, <1>5 DEF Call

LEMMA StateStep ==
  ASSUME PoolInv, NEW t \in Threads, Step(t)
  PROVE  TypeOK' /\ CallInv'
<1> USE DEF PoolInv, TypeOK, CallInv, Go, lists, stats, call
<1>1. ASSUME NEW p \in Pools, Take(t, p)
      PROVE  TypeOK' /\ CallInv'
  <2>1. /\ Top(p) \in PoolAddresses
        /\ Top(p) # Null
        /\ Nobodys(Top(p))
    BY <1>1, TopFree DEF Take
  <2>2. Top(p) # ptr[t]
    BY <1>1, <2>1 DEF Take, Nobodys, Has
  <2>3. TypeOK'
    BY <1>1, <2>1, PoolFacts DEF Take
  <2>4. CallInv'
    BY <1>1, <2>1, <2>2 DEF Take
  <2>5. QED
    BY <2>3, <2>4
<1>2. CASE TakeNothing(t)
  BY <1>2 DEF TakeNothing
<1>3. ASSUME NEW a \in HeapAddresses, Fallback(t, a)
      PROVE  TypeOK' /\ CallInv'
  <2>1. a \in Addresses /\ a # Null /\ a # ptr[t]
    BY <1>3, PoolFacts, NullAssumption DEF Fallback
  <2>2. TypeOK'
    BY <1>3, <2>1 DEF Fallback
  <2>3. CallInv'
    BY <1>3, <2>1 DEF Fallback
  <2>4. QED
    BY <2>2, <2>3
<1>4. CASE FallbackFails(t)
  BY <1>4, PoolFacts, NullAssumption DEF FallbackFails, Return
<1>5. CASE Count(t)
  <2>1. size[t] \in Sizes /\ new[t] \in Addresses
    BY <1>5 DEF Count
  <2>2. used' \in 0 .. Word - 1 /\ peak' \in 0 .. Word - 1
    BY <1>5, <2>1, CountedRange, PoolAssumption DEF Count
  <2>3. asked' \in [Addresses -> Sizes \cup {0}]
    BY <1>5, <2>1 DEF Count, Counted
  <2>4. TypeOK'
    BY <1>5, <2>1, <2>2, <2>3 DEF Count, Return
  <2>5. CallInv'
    BY <1>5 DEF Count, Return
  <2>6. QED
    BY <2>4, <2>5
<1>6. CASE CountMoved(t)
  <2>1. size[t] \in Sizes /\ new[t] \in Addresses
    BY <1>6 DEF CountMoved
  <2>2. used' \in 0 .. Word - 1 /\ peak' \in 0 .. Word - 1
    BY <1>6, <2>1, CountedRange, PoolAssumption DEF CountMoved
  <2>3. asked' \in [Addresses -> Sizes \cup {0}]
    BY <1>6, <2>1 DEF CountMoved, Counted
  <2>4. TypeOK'
    BY <1>6, <2>1, <2>2, <2>3 DEF CountMoved
  <2>5. CallInv'
    BY <1>6 DEF CountMoved
  <2>6. QED
    BY <2>4, <2>5
<1>7. CASE Copy(t)
  BY <1>7, PoolFacts, NullAssumption DEF Copy
<1>8. CASE Give(t)
  <2> DEFINE p == ptr[t][1]
  <2>1. /\ ptr[t] \in PoolAddresses /\ p \in Pools
        /\ ptr[t][2] \in Indices(p) /\ ptr[t] \in Addresses
    BY <1>8, PoolFacts DEF Give
  <2>2. CASE freeCount[p] < Total[p]
    <3>1. freeCount[p] \in Indices(p)
      BY <2>1, <2>2, PoolFacts DEF Indices
    <3>2. /\ DOMAIN freeList' = Pools
          /\ \A q \in Pools : freeList'[q] \in [Indices(q) -> Indices(q)]
      BY <1>8, <2>1, <2>2, <3>1 DEF Give
    <3>3. /\ freeCount' \in [Pools -> Nat]
          /\ \A q \in Pools : freeCount'[q] <= Total[q]
      <4>1. freeCount' = [freeCount EXCEPT ![p] = freeCount[p] + 1]
        BY <1>8, <2>2 DEF Give
      <4>2. freeCount[p] \in Nat /\ Total[p] \in Nat
        BY <2>1, PoolFacts
      <4>3. QED
        BY <2>1, <2>2, <4>1, <4>2
    <3>4. pc' = [pc EXCEPT ![t] = "uncount"]
      BY <1>8, <2>2 DEF Give
    <3>5. memory' \in [Addresses -> Values \cup {Junk}]
      BY <1>8, <2>1, <2>2 DEF Give
    <3>6. QED
      BY <1>8, <3>2, <3>3, <3>4, <3>5 DEF Give
  <2>3. CASE ~(freeCount[p] < Total[p])
    <3>1. pc' = [pc EXCEPT ![t] = "abort"] /\ UNCHANGED <<lists, memory>>
      BY <1>8, <2>3 DEF Give
    <3>2. QED
      BY <1>8, <3>1 DEF Give
  <2>4. QED
    BY <2>2, <2>3
<1>9. CASE Uncount(t)
  <2>1. ptr[t] \in PoolAddresses /\ new[t] \in Addresses \cup {Null}
    BY <1>9 DEF Uncount
  <2>2. used' \in 0 .. Word - 1
    BY <1>9, <2>1, WordRange, PoolAssumption, PoolFacts DEF Uncount
  <2>3. TypeOK'
    BY <1>9, <2>1, <2>2 DEF Uncount, Return
  <2>4. CallInv'
    BY <1>9 DEF Uncount, Return
  <2>5. QED
    BY <2>3, <2>4
<1>10. QED
  BY <1>1, <1>2, <1>3, <1>4, <1>5, <1>6, <1>7, <1>8, <1>9 DEF Step

-----------------------------------------------------------------------------
(* The accounting of the blocks                                            *)

(* A step that moves no address from one place to another.                 *)
LEMMA AccountedFrame ==
  ASSUME BlocksAccounted, UNCHANGED <<ready, lists, hands, ptr, new>>,
         \A t \in Threads : (pc[t] = "uncount") <=> (pc'[t] = "uncount")
  PROVE  BlocksAccounted'
<1>1. \A t \in Threads : \A a : Has(t, a)' <=> Has(t, a)
  BY DEF Has
<1>2. \A a : Nobodys(a)' <=> Nobodys(a)
  BY <1>1 DEF Nobodys
<1>3. \A a : Listed(a)' <=> Listed(a)
  BY DEF Listed, lists
<1>4. QED
  BY <1>1, <1>2, <1>3 DEF BlocksAccounted, lists

(* An address passes from a caller's hands into a call.                    *)
LEMMA AccountedEnter ==
  ASSUME PoolInv, NEW t \in Threads, NEW a \in hands \cap PoolAddresses,
         UNCHANGED <<ready, lists, new>>, pc[t] = "idle",
         hands' = hands \ {a}, ptr' = [ptr EXCEPT ![t] = a],
         pc'[t] # "uncount",
         \A u \in Threads \ {t} : pc'[u] = pc[u]
  PROVE  BlocksAccounted'
<1> USE DEF PoolInv
<1>1. \A u \in Threads : \A b : Has(u, b)' <=> Has(u, b) \/ (u = t /\ b = a)
  BY PoolFacts, NullAssumption DEF Has, TypeOK, CallInv
<1>2. \A b : Nobodys(b)' <=> Nobodys(b)
  BY <1>1 DEF Nobodys
<1>3. \A b : Listed(b)' <=> Listed(b)
  BY DEF Listed, lists
<1>4. QED
  BY <1>1, <1>2, <1>3 DEF BlocksAccounted, lists

(* An address passes from a call into its caller's hands, at its end.      *)
LEMMA AccountedReturn ==
  ASSUME PoolInv, NEW t \in Threads, NEW r \in SUBSET Addresses, Return(t, r),
         UNCHANGED <<ready, lists>>,
         \A a : Has(t, a) <=> a \in r
  PROVE  BlocksAccounted'
<1> USE DEF PoolInv
<1>1. \A u \in Threads : \A a : Has(u, a)' <=> Has(u, a) /\ u # t
  BY DEF Has, TypeOK, Return, Go
<1>2. \A a : Nobodys(a)' <=> Nobodys(a)
  BY <1>1 DEF Nobodys, Return
<1>3. \A a : Listed(a)' <=> Listed(a)
  BY DEF Listed, lists
<1>4. \A p \in Pools : \A j, k \in 0 .. freeCount'[p] - 1 :
        freeList'[p][j] = freeList'[p][k] => j = k
  BY DEF BlocksAccounted, lists
<1>5. \A u \in Threads, a \in hands' : ~Has(u, a)'
  BY <1>1 DEF BlocksAccounted, Return
<1>6. QED
  BY <1>1, <1>2, <1>3, <1>4, <1>5 DEF BlocksAccounted

LEMMA AccountedTake ==
  ASSUME PoolInv, NEW t \in Threads, NEW p \in Pools, Take(t, p)
  PROVE  BlocksAccounted'
<1> DEFINE a == Top(p)
           last == freeCount[p] - 1
<1> USE DEF PoolInv
<1>1. a \in PoolAddresses /\ a # Null /\ p \in ready /\ Nobodys(a)
  BY TopFree DEF Take
<1>2. a[1] = p /\ a[2] = freeList[p][last] /\ last \in Nat
  BY DEF Top, Take, TypeOK
<1>3. \A u \in Threads : \A b : Has(u, b)' <=> Has(u, b) \/ (u = t /\ b = a)
  BY <1>1 DEF Has, Take, TypeOK, CallInv, Go
<1>4. \A b : Nobodys(b)' <=> Nobodys(b) /\ b # a
  BY <1>3 DEF Nobodys, Take
<1>5. freeCount' = [freeCount EXCEPT ![p] = last] /\ freeList' = freeList
  BY DEF Take
<1>6. ASSUME NEW b \in PoolAddresses
      PROVE  Listed(b)' <=> Listed(b) /\ b # a
  <2>1. CASE b[1] # p
    BY <1>2, <1>5, <2>1, PoolFacts DEF Listed, TypeOK
  <2>2. CASE b[1] = p
    <3>1. Listed(b)' <=> \E k \in 0 .. last - 1 : b[2] = freeList[p][k]
      BY <1>5, <2>2 DEF Listed, TypeOK
    <3>2. Listed(b) <=> \E k \in 0 .. last : b[2] = freeList[p][k]
      BY <2>2 DEF Listed
    <3>3. b = a <=> b[2] = freeList[p][last]
      BY <1>1, <1>2, <2>2, PoolFacts
    <3>4. \A k \in 0 .. last - 1 : freeList[p][k] # freeList[p][last]
      BY <1>2 DEF BlocksAccounted
    <3>5. QED
      BY <1>2, <3>1, <3>2, <3>3, <3>4
  <2>3. QED
    BY <2>1, <2>2
<1>7. \A q \in Pools : \A j, k \in 0 .. freeCount'[q] - 1 :
        freeList'[q][j] = freeList'[q][k] => j = k
  <2> SUFFICES ASSUME NEW q \in Pools
               PROVE  \A j, k \in 0 .. freeCount'[q] - 1 :
                        freeList[q][j] = freeList[q][k] => j = k
    BY <1>5
  <2>1. freeCount'[q] <= freeCount[q] /\ freeCount'[q] \in Nat
    BY <1>2, <1>5 DEF TypeOK
  <2>2. QED
    BY <2>1 DEF BlocksAccounted, TypeOK
<1>8. ready' = ready /\ hands' = hands
  BY DEF Take
<1>9. QED
  BY <1>1, <1>2, <1>3, <1>4, <1>6, <1>7, <1>8 DEF BlocksAccounted, Nobodys

LEMMA AccountedFallback ==
  ASSUME PoolInv, NEW t \in Threads, NEW a \in HeapAddresses, Fallback(t, a)
  PROVE  BlocksAccounted'
<1> USE DEF PoolInv
<1>1. a # Null /\ a \notin PoolAddresses /\ Nobodys(a)
  BY PoolFacts, NullAssumption DEF Fallback, Taken, Nobodys, Has
<1>2. \A u \in Threads : \A b : Has(u, b)' <=> Has(u, b) \/ (u = t /\ b = a)
  BY <1>1 DEF Has, Fallback, TypeOK, CallInv, Go
<1>3. \A b \in PoolAddresses : Nobodys(b)' <=> Nobodys(b)
  BY <1>1, <1>2 DEF Nobodys, Fallback
<1>4. \A b : Listed(b)' <=> Listed(b)
  BY DEF Listed, Fallback, lists
<1>5. QED
  BY <1>1, <1>2, <1>3, <1>4 DEF BlocksAccounted, Nobodys, Fallback, lists

(* A free list is never full while a call still has a block of its pool:   *)
(* Total indices cannot all be listed without listing that block's too.    *)
LEMMA RoomToGive ==
  ASSUME PoolInv, NEW t \in Threads, pc[t] = "give"
  PROVE  freeCount[ptr[t][1]] < Total[ptr[t][1]]
<1> DEFINE p == ptr[t][1]
           n == ptr[t][2]
<1> USE DEF PoolInv
<1>1. /\ ptr[t] \in PoolAddresses /\ p \in Pools /\ n \in Indices(p)
      /\ Total[p] \in Nat /\ freeCount[p] \in Nat /\ freeCount[p] <= Total[p]
  BY PoolFacts DEF TypeOK
<1>2. Has(t, ptr[t])
  BY <1>1 DEF Has, TypeOK
<1>3. ~Listed(ptr[t])
  BY <1>1, <1>2 DEF BlocksAccounted, Nobodys
<1>4. SUFFICES ASSUME freeCount[p] = Total[p]
               PROVE  FALSE
  BY <1>1
<1>5. freeList[p] \in [Indices(p) -> Indices(p) \ {n}]
  <2>1. freeList[p] \in [Indices(p) -> Indices(p)]
    BY <1>1 DEF TypeOK
  <2>2. \A k \in Indices(p) : freeList[p][k] # n
    BY <1>3, <1>4 DEF Listed, Indices
  <2>3. QED
    BY <2>1, <2>2
<1>6. /\ IsFiniteSet(Indices(p)) /\ IsFiniteSet(Indices(p) \ {n})
      /\ Cardinality(Indices(p) \ {n}) < Cardinality(Indices(p))
  <2>1. IsFiniteSet(Indices(p))
    <3>1. 0 \in Int /\ Total[p] - 1 \in Int
      BY <1>1
    <3>2. QED
      BY <3>1, FS_Interval DEF Indices
  <2>2. Cardinality(Indices(p)) \in Nat
    BY <2>1, FS_CardinalityType
  <2>3. /\ IsFiniteSet(Indices(p) \ {n})
        /\ Cardinality(Indices(p) \ {n}) = Cardinality(Indices(p)) - 1
    BY <1>1, <2>1, FS_RemoveElement
  <2>4. QED
    BY <2>1, <2>2, <2>3
<1>7. \E j, k \in Indices(p) : j # k /\ freeList[p][j] = freeList[p][k]
  BY <1>5, <1>6, FS_PigeonHole
<1>8. QED
  BY <1>1, <1>4, <1>7 DEF BlocksAccounted, Indices

LEMMA AccountedGive ==
  ASSUME PoolInv, NEW t \in Threads, Give(t)
  PROVE  BlocksAccounted'
<1> DEFINE a == ptr[t]
           p == a[1]
           c == freeCount[p]
<1> USE DEF PoolInv
<1>1. /\ a \in PoolAddresses /\ p \in Pools /\ a[2] \in Indices(p)
      /\ c \in Nat /\ c < Total[p] /\ c \in Indices(p) /\ a # Null
  BY PoolFacts, RoomToGive, NullAssumption DEF Give, TypeOK, Indices
<1>2. Has(t, a)
  BY <1>1 DEF Has, Give
<1>3. ~Listed(a) /\ p \in ready /\ a \notin hands
  BY <1>1, <1>2 DEF BlocksAccounted, Nobodys
<1>4. /\ freeList' = [freeList EXCEPT ![p][c] = a[2]]
      /\ freeCount' = [freeCount EXCEPT ![p] = c + 1]
      /\ pc' = [pc EXCEPT ![t] = "uncount"]
      /\ UNCHANGED <<ready, hands, ptr, new>>
  BY <1>1 DEF Give, Go
<1>5. a # new[t]
  BY <1>1 DEF CallInv, Give
<1>6. \A u \in Threads : \A b : Has(u, b)' <=> Has(u, b) /\ ~(u = t /\ b = a)
  BY <1>4, <1>5 DEF Has, TypeOK, Give
<1>7. \A u \in Threads \ {t} : ~Has(u, a)
  BY <1>1, <1>2, PoolFacts DEF BlocksAccounted
<1>8. \A b : Nobodys(b)' <=> Nobodys(b) \/ b = a
  BY <1>3, <1>4, <1>6, <1>7 DEF Nobodys
<1>9. /\ freeList'[p][c] = a[2]
      /\ \A k \in 0 .. c - 1 : freeList'[p][k] = freeList[p][k]
      /\ \A q \in Pools : q # p => freeList'[q] = freeList[q]
      /\ freeCount'[p] = c + 1
      /\ \A q \in Pools : q # p => freeCount'[q] = freeCount[q]
  <2>1. /\ DOMAIN freeList = Pools
        /\ freeList[p] \in [Indices(p) -> Indices(p)]
        /\ freeCount \in [Pools -> Nat]
    BY <1>1 DEF TypeOK
  <2>2. freeList'[p] = [freeList[p] EXCEPT ![c] = a[2]]
    BY <1>1, <1>4, <2>1
  <2>3. \A k \in 0 .. c - 1 : k \in Indices(p) /\ k # c
    BY <1>1, PoolFacts DEF Indices
  <2>4. freeList'[p][c] = a[2]
    BY <1>1, <2>1, <2>2
  <2>5. \A k \in 0 .. c - 1 : freeList'[p][k] = freeList[p][k]
    BY <2>1, <2>2, <2>3
  <2>6. \A q \in Pools : q # p => freeList'[q] = freeList[q]
    BY <1>4, <2>1
  <2>7. /\ freeCount'[p] = c + 1
        /\ \A q \in Pools : q # p => freeCount'[q] = freeCount[q]
    BY <1>1, <1>4, <2>1
  <2>8. QED
    BY <2>4, <2>5, <2>6, <2>7
<1>10. ASSUME NEW b \in PoolAddresses
       PROVE  Listed(b)' <=> Listed(b) \/ b = a
  <2>1. CASE b[1] # p
    BY <1>9, <2>1, PoolFacts DEF Listed
  <2>2. CASE b[1] = p
    <3>1. Listed(b)' <=> \E k \in 0 .. c : b[2] = freeList'[p][k]
      BY <1>9, <1>1, <2>2 DEF Listed
    <3>2. Listed(b) <=> \E k \in 0 .. c - 1 : b[2] = freeList[p][k]
      BY <2>2 DEF Listed
    <3>3. b = a <=> b[2] = a[2]
      BY <1>1, <2>2, PoolFacts
    <3>4. QED
      BY <1>1, <1>9, <3>1, <3>2, <3>3
  <2>3. QED
    BY <2>1, <2>2
<1>11. \A q \in Pools : \A j, k \in 0 .. freeCount'[q] - 1 :
         freeList'[q][j] = freeList'[q][k] => j = k
  <2> SUFFICES ASSUME NEW q \in Pools,
                      NEW j \in 0 .. freeCount'[q] - 1,
                      NEW k \in 0 .. freeCount'[q] - 1,
                      freeList'[q][j] = freeList'[q][k]
               PROVE  j = k
    OBVIOUS
  <2>1. CASE q # p
    BY <1>9, <2>1 DEF BlocksAccounted
  <2>2. CASE q = p
    <3>1. \A l \in 0 .. c - 1 : freeList[p][l] # a[2]
      BY <1>3 DEF Listed
    <3>2. QED
      BY <1>1, <1>9, <2>2, <3>1 DEF BlocksAccounted
  <2>3. QED
    BY <2>1, <2>2
<1>12. QED
  BY <1>1, <1>3, <1>4, <1>6, <1>8, <1>10, <1>11 DEF BlocksAccounted

-----------------------------------------------------------------------------
(* The theorems                                                            *)

LEMMA AccountedCall ==
  ASSUME PoolInv, NEW t \in Threads, Call(t)
  PROVE  BlocksAccounted'
<1> USE DEF PoolInv
<1>1. ASSUME NEW s \in Sizes, Malloc(t, s)
      PROVE  BlocksAccounted'
  BY <1>1, AccountedFrame DEF Malloc, Go, TypeOK
<1>2. ASSUME NEW a \in hands, Free(t, a)
      PROVE  BlocksAccounted'
  BY <1>2, AccountedEnter DEF Free, Go, TypeOK
<1>3. ASSUME NEW a \in hands, FreeHeap(t, a)
      PROVE  BlocksAccounted'
  <2>1. a \notin PoolAddresses /\ hands' = hands \ {a}
        /\ UNCHANGED <<ready, lists, call>>
    BY <1>3, PoolFacts DEF FreeHeap
  <2>2. \A u \in Threads : \A b : Has(u, b)' <=> Has(u, b)
    BY <2>1 DEF Has, call
  <2>3. \A b \in PoolAddresses : Nobodys(b)' <=> Nobodys(b)
    BY <2>1, <2>2 DEF Nobodys
  <2>4. \A b : Listed(b)' <=> Listed(b)
    BY <2>1 DEF Listed, lists
  <2>5. QED
    BY <2>1, <2>2, <2>3, <2>4 DEF BlocksAccounted, lists
<1>4. ASSUME NEW a \in hands, NEW s \in Sizes, Realloc(t, a, s)
      PROVE  BlocksAccounted'
  BY <1>4, AccountedEnter DEF Realloc, Go, TypeOK
<1>5. ASSUME NEW a \in hands, NEW s \in Sizes, NEW b \in HeapAddresses,
             ReallocHeap(t, a, b, s)
      PROVE  BlocksAccounted'
  <2>1. /\ a \notin PoolAddresses /\ b \notin PoolAddresses
        /\ hands' = (hands \ {a}) \cup {b}
        /\ UNCHANGED <<ready, lists, call>>
    BY <1>5, PoolFacts DEF ReallocHeap
  <2>2. \A u \in Threads : \A c : Has(u, c)' <=> Has(u, c)
    BY <2>1 DEF Has, call
  <2>3. \A u \in Threads : ~Has(u, b)
    <3>1. CASE b = a
      BY <3>1 DEF BlocksAccounted
    <3>2. CASE b # a
      BY <1>5, <3>2 DEF ReallocHeap, Taken, Has
    <3>3. QED
      BY <3>1, <3>2
  <2>4. \A c \in PoolAddresses : Nobodys(c)' <=> Nobodys(c)
    BY <2>1, <2>2 DEF Nobodys
  <2>5. \A c : Listed(c)' <=> Listed(c)
    BY <2>1 DEF Listed, lists
  <2>6. QED
    BY <2>1, <2>2, <2>3, <2>4, <2>5 DEF BlocksAccounted, lists
<1>6. QED
  BY <1>1, <1>2, <1>3, <1>4, <1>5 DEF Call

LEMMA AccountedStep ==
  ASSUME PoolInv, NEW t \in Threads, Step(t)
  PROVE  BlocksAccounted'
<1> USE DEF PoolInv
<1>1. ASSUME NEW p \in Pools, Take(t, p)
      PROVE  BlocksAccounted'
  BY <1>1, AccountedTake
<1>2. CASE TakeNothing(t) \/ CountMoved(t) \/ Copy(t)
  BY <1>2, AccountedFrame
  DEF TakeNothing, CountMoved, Copy, Go, TypeOK, lists
<1>3. ASSUME NEW a \in HeapAddresses, Fallback(t, a)
      PROVE  BlocksAccounted'
  BY <1>3, AccountedFallback
<1>4. CASE FallbackFails(t)
  <2>1. {ptr[t]} \ {Null} \in SUBSET Addresses
    BY PoolFacts DEF TypeOK
  <2>2. \A a : Has(t, a) <=> a \in {ptr[t]} \ {Null}
    BY <1>4 DEF FallbackFails, Has, CallInv
  <2>3. QED
    BY <1>4, <2>1, <2>2, AccountedReturn DEF FallbackFails, lists
<1>5. CASE Count(t)
  <2>1. {new[t]} \in SUBSET Addresses
    BY <1>5 DEF Count, TypeOK
  <2>2. \A a : Has(t, a) <=> a \in {new[t]}
    BY <1>5 DEF Count, Has, TypeOK
  <2>3. QED
    BY <1>5, <2>1, <2>2, AccountedReturn DEF Count, lists
<1>6. CASE Give(t)
  BY <1>6, AccountedGive
<1>7. CASE Uncount(t)
  <2>1. {new[t]} \ {Null} \in SUBSET Addresses
    BY DEF TypeOK
  <2>2. \A a : Has(t, a) <=> a \in {new[t]} \ {Null}
    BY <1>7 DEF Uncount, Has
  <2>3. QED
    BY <1>7, <2>1, <2>2, AccountedReturn DEF Uncount, lists
<1>8. QED
  BY <1>1, <1>2, <1>3, <1>4, <1>5, <1>6, <1>7 DEF Step

LEMMA StayStep ==
  ASSUME PoolInv, NEW t \in Threads, Call(t) \/ Step(t)
  PROVE  PoolPointersStay'
<1>1. pc'[t] # "abort" /\ \A u \in Threads \ {t} : pc'[u] = pc[u]
  <2> USE DEF PoolInv, TypeOK, PoolPointersStay, Go
  <2>1. CASE Call(t)
    BY <2>1 DEF Call, Malloc, Free, FreeHeap, Realloc, ReallocHeap, call
  <2>2. CASE Give(t)
    BY <2>2, RoomToGive DEF Give
  <2>3. CASE Step(t) /\ ~Give(t)
    BY <2>3 DEF Step, Take, TakeNothing, Fallback, FallbackFails, Count,
                CountMoved, Copy, Uncount, Return
  <2>4. QED
    BY <2>1, <2>2, <2>3
<1>2. QED
  BY <1>1 DEF PoolInv, PoolPointersStay

LEMMA PoolInvStep == PoolInv /\ [Next]_vars => PoolInv'
<1> SUFFICES ASSUME PoolInv, [Next]_vars
             PROVE  PoolInv'
  OBVIOUS
<1>1. ASSUME NEW t \in Threads, Call(t)
      PROVE  PoolInv'
  BY <1>1, StateCall, AccountedCall, StayStep DEF PoolInv
<1>2. ASSUME NEW t \in Threads, Step(t)
      PROVE  PoolInv'
  BY <1>2, StateStep, AccountedStep, StayStep DEF PoolInv
<1>3. ASSUME NEW a \in hands, NEW v \in Values, Write(a, v)
      PROVE  PoolInv'
  <2>1. BlocksAccounted'
    BY <1>3, AccountedFrame DEF PoolInv, Write, call
  <2>2. QED
    BY <1>3, <2>1
    DEF PoolInv, Write, TypeOK, CallInv, PoolPointersStay, call, lists, stats
<1>4. CASE Cleanup
  <2>1. BlocksAccounted'
    BY <1>4, AccountedFrame DEF PoolInv, Cleanup, call
  <2>2. QED
    BY <1>4, <2>1
    DEF PoolInv, Cleanup, TypeOK, CallInv, PoolPointersStay, call, lists, stats
<1>5. CASE UNCHANGED vars
  <2>1. BlocksAccounted'
    BY <1>5, AccountedFrame DEF PoolInv, vars, call
  <2>2. QED
    BY <1>5, <2>1
    DEF PoolInv, vars, TypeOK, CallInv, PoolPointersStay, call, lists, stats
<1>6. QED
  BY <1>1, <1>2, <1>3, <1>4, <1>5 DEF Next, Gone

(* The types of memory_new.c's state: indices stay within the pools and    *)
(* the counts within 0 and the total.                                      *)
THEOREM PoolTypeCorrect == Spec => []TypeOK
<1>1. PoolInv => TypeOK
  BY DEF PoolInv
<1>2. QED
  BY <1>1, PoolInvInit, PoolInvStep, PTL DEF Spec

(* No block of a pool is ever on its free list twice, handed to two        *)
(* callers, or lost, for any number of threads, blocks and sizes.          *)
THEOREM AccountingCorrect == Spec => []BlocksAccounted
<1>1. PoolInv => BlocksAccounted
  BY DEF PoolInv
<1>2. QED
  BY <1>1, PoolInvInit, PoolInvStep, PTL DEF Spec

(* mec_free finds room for every block of a pool, and so never hands one   *)
(* to the C library.                                                       *)
THEOREM StayCorrect == Spec => []PoolPointersStay
<1>1. PoolInv => PoolPointersStay
  BY DEF PoolInv
<1>2. QED
  BY <1>1, PoolInvInit, PoolInvStep, PTL DEF Spec

-----------------------------------------------------------------------------
(* memory_new.c implements Allocator                                       *)

(* A block of a pool is at least as large as what it was asked for, so the *)
(* copy of mec_realloc loses nothing; until the old block is given back,   *)
(* both hold the same.                                                     *)
Copied ==
  /\ \A a \in PoolAddresses : asked[a] <= BlockSize[a[1]]
  /\ \A t \in Threads :
       pc[t] = "count" /\ new[t] \in PoolAddresses =>
         size[t] <= BlockSize[new[t][1]]
  /\ \A t \in Threads :
       pc[t] = "give" /\ new[t] # Null => memory[new[t]] = memory[ptr[t]]

AllocInv == PoolInv /\ Copied

-----------------------------------------------------------------------------
LEMMA SizeFacts ==
  /\ \A a \in PoolAddresses : BlockSize[a[1]] \in Nat
  /\ \A s \in Sizes : s \in Nat
  /\ SmallSize \in Nat /\ MediumSize \in Nat
  BY PoolAssumption, PoolFacts

(* What one thread has is not another's, nor in any caller's hands.        *)
LEMMA Apart ==
  ASSUME PoolInv, NEW t \in Threads, NEW a \in Addresses, Has(t, a)
  PROVE  /\ a \notin hands
         /\ \A u \in Threads \ {t} : ~Has(u, a)
  BY DEF PoolInv, BlocksAccounted

LEMMA CopiedInit == Init => Copied
<1> SUFFICES ASSUME Init PROVE Copied
  OBVIOUS
<1>1. \A a \in PoolAddresses : asked[a] = 0 /\ BlockSize[a[1]] \in Nat
  BY PoolFacts, SizeFacts DEF Init
<1>2. QED
  BY <1>1 DEF Init, Copied

(* A step that changes the content of one address, which no call that has  *)
(* copied has, keeps the copies equal.                                     *)
LEMMA CopiedFrame ==
  ASSUME PoolInv, Copied, NEW t \in Threads, NEW S \in SUBSET Addresses,
         \A a \in S : a \in hands \/ Nobodys(a) \/ Has(t, a),
         memory' \in [Addresses -> Values \cup {Junk}],
         \A a \in Addresses \ S : memory'[a] = memory[a],
         \A u \in Threads \ {t} :
           pc'[u] = pc[u] /\ new'[u] = new[u] /\ ptr'[u] = ptr[u]
  PROVE  \A u \in Threads \ {t} :
           pc'[u] = "give" /\ new'[u] # Null =>
             memory'[new'[u]] = memory'[ptr'[u]]
<1> SUFFICES ASSUME NEW u \in Threads \ {t}, pc'[u] = "give", new'[u] # Null
             PROVE  memory'[new'[u]] = memory'[ptr'[u]]
  OBVIOUS
<1>1. pc[u] = "give" /\ new'[u] = new[u] /\ ptr'[u] = ptr[u]
  OBVIOUS
<1>2. /\ ptr[u] \in Addresses /\ new[u] \in Addresses
      /\ ptr[u] # Null /\ new[u] # Null
  BY <1>1, PoolFacts, NullAssumption DEF PoolInv, TypeOK
<1>3. Has(u, ptr[u]) /\ Has(u, new[u])
  BY <1>1, <1>2 DEF Has
<1>4. ptr[u] \notin S /\ new[u] \notin S
  BY <1>1, <1>2, <1>3, Apart DEF Nobodys
<1>5. QED
  BY <1>1, <1>2, <1>4 DEF Copied

LEMMA CopiedCall ==
  ASSUME AllocInv, NEW t \in Threads, Call(t)
  PROVE  Copied'
<1> USE DEF AllocInv
<1>0. TypeOK'
  BY StateCall
<1>1. ASSUME NEW s \in Sizes, Malloc(t, s)
      PROVE  Copied'
  BY <1>1 DEF Malloc, Copied, Go, PoolInv, TypeOK
<1>2. ASSUME NEW a \in hands, Free(t, a)
      PROVE  Copied'
  <2>1. \A b \in PoolAddresses : asked'[b] <= BlockSize[b[1]]
    BY <1>2, SizeFacts, PoolFacts DEF Free, Copied, PoolInv, TypeOK
  <2>2. new[t] = Null
    BY <1>2 DEF Free, PoolInv, CallInv
  <2>3. QED
    BY <1>2, <2>1, <2>2 DEF Free, Copied, Go, PoolInv, TypeOK
<1>3. ASSUME NEW a \in hands, FreeHeap(t, a)
      PROVE  Copied'
  <2>1. \A b \in PoolAddresses : asked'[b] <= BlockSize[b[1]]
    BY <1>3, SizeFacts, PoolFacts DEF FreeHeap, Copied, PoolInv, TypeOK
  <2>2. \A b \in Addresses \ {a} : memory'[b] = memory[b]
    BY <1>3 DEF FreeHeap, PoolInv, TypeOK
  <2>3. pc'[t] # "give" /\ a \in Addresses /\ UNCHANGED call
    BY <1>3 DEF FreeHeap, PoolInv, TypeOK, call
  <2>4. \A u \in Threads \ {t} : pc'[u] = "give" /\ new'[u] # Null =>
          memory'[new'[u]] = memory'[ptr'[u]]
    <3> DEFINE S == {a}
    <3>1. S \in SUBSET Addresses /\ \A c \in S : c \in hands
      BY <2>3
    <3>2. \A c \in Addresses \ S : memory'[c] = memory[c]
      BY <2>2
    <3>3. /\ memory' \in [Addresses -> Values \cup {Junk}]
          /\ \A u \in Threads \ {t} :
               pc'[u] = pc[u] /\ new'[u] = new[u] /\ ptr'[u] = ptr[u]
      BY <1>0, <2>3 DEF TypeOK, call
    <3> HIDE DEF S
    <3>4. QED
      BY <3>1, <3>2, <3>3, CopiedFrame
  <2>5. QED
    BY <2>1, <2>3, <2>4 DEF Copied, call
<1>4. ASSUME NEW a \in hands, NEW s \in Sizes, Realloc(t, a, s)
      PROVE  Copied'
  BY <1>4 DEF Realloc, Copied, Go, PoolInv, TypeOK
<1>5. ASSUME NEW a \in hands, NEW s \in Sizes, NEW b \in HeapAddresses,
             ReallocHeap(t, a, b, s)
      PROVE  Copied'
  <2>1. a \in Addresses /\ b \in Addresses /\ a \notin PoolAddresses
        /\ b \notin PoolAddresses
    BY <1>5, PoolFacts DEF ReallocHeap
  <2>2. \A c \in PoolAddresses : asked'[c] <= BlockSize[c[1]]
    BY <1>5, <2>1, PoolFacts DEF ReallocHeap, Copied, PoolInv, TypeOK
  <2>3. \A c \in Addresses \ {a, b} : memory'[c] = memory[c]
    BY <1>5 DEF ReallocHeap, PoolInv, TypeOK
  <2>4. pc'[t] # "give" /\ UNCHANGED call
    BY <1>5 DEF ReallocHeap, PoolInv, TypeOK, call
  <2>5. b \in hands \/ Nobodys(b)
    BY <1>5 DEF ReallocHeap, Taken, Nobodys, Has
  <2>6. \A u \in Threads \ {t} : pc'[u] = "give" /\ new'[u] # Null =>
          memory'[new'[u]] = memory'[ptr'[u]]
    <3> DEFINE S == {a, b}
    <3>1. S \in SUBSET Addresses
      BY <2>1
    <3>2. \A c \in S : c \in hands \/ Nobodys(c) \/ Has(t, c)
      BY <2>5
    <3>3. \A c \in Addresses \ S : memory'[c] = memory[c]
      BY <2>3
    <3>4. /\ memory' \in [Addresses -> Values \cup {Junk}]
          /\ \A u \in Threads \ {t} :
               pc'[u] = pc[u] /\ new'[u] = new[u] /\ ptr'[u] = ptr[u]
      BY <1>0, <2>4 DEF TypeOK, call
    <3> HIDE DEF S
    <3>5. QED
      BY <3>1, <3>2, <3>3, <3>4, CopiedFrame
  <2>7. QED
    BY <2>2, <2>4, <2>6 DEF Copied, call
<1>6. QED
  BY <1>1, <1>2, <1>3, <1>4, <1>5 DEF Call

LEMMA CopiedStep ==
  ASSUME AllocInv, NEW t \in Threads, Step(t)
  PROVE  Copied'
<1> USE DEF AllocInv
<1>0. TypeOK'
  BY StateStep
<1>1. ASSUME NEW p \in Pools, Take(t, p)
      PROVE  Copied'
  <2>1. Top(p) \in PoolAddresses /\ Top(p)[1] = p /\ Nobodys(Top(p))
    BY <1>1, TopFree, TopListed DEF Take, PoolInv
  <2>2. size[t] <= BlockSize[p]
    BY <1>1 DEF Take, Fits, BlockSize, Pools
  <2>3. \A u \in Threads \ {t} : pc'[u] = "give" /\ new'[u] # Null =>
          memory'[new'[u]] = memory'[ptr'[u]]
    <3>1. {Top(p)} \in SUBSET Addresses
      BY <2>1, PoolFacts
    <3>2. \A a \in Addresses \ {Top(p)} : memory'[a] = memory[a]
      BY <1>1 DEF Take, PoolInv, TypeOK
    <3>3. \A u \in Threads \ {t} :
            pc'[u] = pc[u] /\ new'[u] = new[u] /\ ptr'[u] = ptr[u]
      BY <1>1 DEF Take, Go, PoolInv, TypeOK
    <3>4. memory' \in [Addresses -> Values \cup {Junk}]
      BY <1>0 DEF TypeOK
    <3>5. QED
      BY <2>1, <3>1, <3>2, <3>3, <3>4, CopiedFrame
  <2>4. pc'[t] = "count" /\ new'[t] = Top(p) /\ size' = size /\ asked' = asked
        /\ \A u \in Threads \ {t} : pc'[u] = pc[u] /\ new'[u] = new[u]
    BY <1>1 DEF Take, Go, PoolInv, TypeOK
  <2>5. QED
    BY <2>1, <2>2, <2>3, <2>4 DEF Copied
<1>2. CASE TakeNothing(t)
  BY <1>2 DEF TakeNothing, Copied, Go, PoolInv, TypeOK, lists
<1>3. ASSUME NEW a \in HeapAddresses, Fallback(t, a)
      PROVE  Copied'
  BY <1>3, PoolFacts DEF Fallback, Copied, Go, PoolInv, TypeOK
<1>4. CASE FallbackFails(t)
  BY <1>4 DEF FallbackFails, Return, Copied, Go, PoolInv, TypeOK
<1>5. CASE Count(t) \/ CountMoved(t)
  <2>1. /\ asked' = [asked EXCEPT ![new[t]] = size[t]]
        /\ new[t] \in PoolAddresses => size[t] <= BlockSize[new[t][1]]
    BY <1>5 DEF Count, CountMoved, Counted, Copied
  <2>2. \A a \in PoolAddresses : asked'[a] <= BlockSize[a[1]]
    BY <2>1, PoolFacts DEF Copied, PoolInv, TypeOK
  <2>3. /\ pc'[t] \notin {"count", "give"}
        /\ memory' = memory
        /\ \A u \in Threads \ {t} : /\ pc'[u] = pc[u] /\ new'[u] = new[u]
                                    /\ ptr'[u] = ptr[u] /\ size'[u] = size[u]
    BY <1>5 DEF Count, CountMoved, Return, Go, PoolInv, TypeOK
  <2>4. QED
    BY <2>2, <2>3 DEF Copied
<1>6. CASE Copy(t)
  <2>1. /\ ptr[t] \in PoolAddresses /\ ptr[t] \in Addresses
        /\ new[t] \in Addresses /\ new[t] # ptr[t]
        /\ new[t] # Null
        /\ Has(t, new[t])
    BY <1>6, PoolFacts DEF Copy, PoolInv, TypeOK, CallInv, Has
  <2>2. Least(size[t], BlockSize[ptr[t][1]]) >= Least(size[t], asked[ptr[t]])
    <3>1. /\ size[t] \in Nat /\ asked[ptr[t]] \in Nat
          /\ BlockSize[ptr[t][1]] \in Nat
          /\ asked[ptr[t]] <= BlockSize[ptr[t][1]]
      BY <2>1, SizeFacts DEF Copied, PoolInv, TypeOK
    <3>2. QED
      BY <3>1 DEF Least
  <2>3. memory' = [memory EXCEPT ![new[t]] = memory[ptr[t]]]
    BY <1>6, <2>2 DEF Copy
  <2>4. memory'[new[t]] = memory'[ptr[t]]
    BY <2>1, <2>3 DEF PoolInv, TypeOK
  <2>5. \A a \in PoolAddresses : asked'[a] <= BlockSize[a[1]]
    BY <1>6, <2>1, SizeFacts, PoolFacts DEF Copy, Copied, PoolInv, TypeOK
  <2>6. pc' = [pc EXCEPT ![t] = "give"] /\ UNCHANGED <<new, ptr, size>>
    BY <1>6 DEF Copy, Go
  <2>7. \A u \in Threads \ {t} : pc'[u] = "give" /\ new'[u] # Null =>
          memory'[new'[u]] = memory'[ptr'[u]]
    <3>1. {new[t]} \in SUBSET Addresses
      BY <2>1
    <3>2. \A a \in Addresses \ {new[t]} : memory'[a] = memory[a]
      BY <2>3 DEF PoolInv, TypeOK
    <3>3. \A u \in Threads \ {t} :
            pc'[u] = pc[u] /\ new'[u] = new[u] /\ ptr'[u] = ptr[u]
      BY <2>6 DEF PoolInv, TypeOK
    <3>4. memory' \in [Addresses -> Values \cup {Junk}]
      BY <1>0 DEF TypeOK
    <3>5. QED
      BY <2>1, <3>1, <3>2, <3>3, <3>4, CopiedFrame
  <2>8. QED
    BY <2>4, <2>5, <2>6, <2>7 DEF Copied, PoolInv, TypeOK
<1>7. CASE Give(t)
  <2>1. /\ ptr[t] \in Addresses /\ ptr[t] # Null /\ Has(t, ptr[t])
    BY <1>7, PoolFacts, NullAssumption DEF Give, PoolInv, TypeOK, Has
  <2>2. /\ memory' = [memory EXCEPT ![ptr[t]] = Junk]
        /\ pc' = [pc EXCEPT ![t] = "uncount"]
        /\ UNCHANGED <<asked, new, ptr, size>>
    BY <1>7, RoomToGive DEF Give, Go
  <2>3. \A u \in Threads \ {t} : pc'[u] = "give" /\ new'[u] # Null =>
          memory'[new'[u]] = memory'[ptr'[u]]
    <3>1. {ptr[t]} \in SUBSET Addresses
      BY <2>1
    <3>2. \A a \in Addresses \ {ptr[t]} : memory'[a] = memory[a]
      BY <2>2 DEF PoolInv, TypeOK
    <3>3. \A u \in Threads \ {t} :
            pc'[u] = pc[u] /\ new'[u] = new[u] /\ ptr'[u] = ptr[u]
      BY <2>2 DEF PoolInv, TypeOK
    <3>4. memory' \in [Addresses -> Values \cup {Junk}]
      BY <1>0 DEF TypeOK
    <3>5. QED
      BY <2>1, <3>1, <3>2, <3>3, <3>4, CopiedFrame
  <2>4. QED
    BY <2>2, <2>3 DEF Copied, PoolInv, TypeOK
<1>8. CASE Uncount(t)
  BY <1>8 DEF Uncount, Return, Copied, Go, PoolInv, TypeOK
<1>9. QED
  BY <1>1, <1>2, <1>3, <1>4, <1>5, <1>6, <1>7, <1>8 DEF Step

LEMMA AllocInvStep == AllocInv /\ [Next]_vars => AllocInv'
<1> SUFFICES ASSUME AllocInv, [Next]_vars
             PROVE  AllocInv'
  OBVIOUS
<1>0. PoolInv'
  BY PoolInvStep DEF AllocInv
<1>1. ASSUME NEW t \in Threads, Call(t) \/ Step(t)
      PROVE  Copied'
  BY <1>1, CopiedCall, CopiedStep
<1>2. ASSUME NEW a \in hands, NEW v \in Values, Write(a, v)
      PROVE  Copied'
  <2>1. \A u \in Threads : pc[u] = "give" => ptr[u] # a /\ new[u] # a
    BY <1>2, NullAssumption
    DEF AllocInv, PoolInv, BlocksAccounted, TypeOK, Has
  <2>2. QED
    BY <1>2, <2>1 DEF Write, AllocInv, PoolInv, TypeOK, Copied, call
<1>3. CASE Cleanup \/ UNCHANGED vars
  <2>1. UNCHANGED <<memory, asked, pc, new, ptr, size>>
    BY <1>3 DEF Cleanup, vars, call
  <2>2. QED
    BY <1>0, <2>1 DEF AllocInv, Copied
<1>4. QED
  BY <1>0, <1>1, <1>2, <1>3 DEF Next, Gone, AllocInv

-----------------------------------------------------------------------------
(* What the callers see                                                    *)

Seen == Visible \ {Null}

(* The call of t still shows its caller address a.                         *)
Shows(t, a) ==
  \/ /\ a = ptr[t]
     /\ \/ pc[t] \in {"take", "fallback", "count", "copy"}
        \/ pc[t] = "give" /\ new[t] # Null
  \/ a = new[t] /\ pc[t] = "uncount"

Sees(t, a) == a \in hands \/ Shows(t, a)

LEMMA SeenFacts ==
  /\ \A a : a \in Seen <=>
       a # Null /\ (a \in hands \/ \E t \in Threads : Shows(t, a))
  /\ \A a : (a \in Seen)' <=>
       a # Null /\ (a \in hands' \/ \E t \in Threads : Shows(t, a)')
<1>1. \A a : a \in Seen <=>
        a # Null /\ (a \in hands \/ \E t \in Threads : Shows(t, a))
  BY DEF Seen, Visible, Shows
<1>2. \A a : (a \in Seen)' <=>
        a # Null /\ (a \in hands' \/ \E t \in Threads : Shows(t, a)')
  BY DEF Seen, Visible, Shows
<1>3. QED
  BY <1>1, <1>2

(* What a call shows it has, and so nobody else sees it.                   *)
LEMMA ShowsHas ==
  ASSUME PoolInv, NEW t \in Threads, NEW a, Shows(t, a), a # Null
  PROVE  Has(t, a) /\ a \in Addresses
  BY PoolFacts DEF PoolInv, TypeOK, Shows, Has

LEMMA Unseen ==
  ASSUME PoolInv, NEW t \in Threads, NEW a \in Addresses, Has(t, a)
  PROVE  a \in Seen <=> Shows(t, a)
<1>1. a # Null
  BY DEF Has
<1>2. QED
  BY <1>1, Apart, SeenFacts, ShowsHas

LEMMA NobodySees ==
  ASSUME PoolInv, NEW a, Nobodys(a)
  PROVE  a \notin Seen
  BY SeenFacts, ShowsHas DEF Nobodys

LEMMA SeenAddresses == PoolInv => Seen \subseteq Addresses
  BY SeenFacts, ShowsHas DEF PoolInv, TypeOK

(* A step of one thread changes only what that thread sees.                *)
OthersStand(t) ==
  \A u \in Threads \ {t} : pc'[u] = pc[u] /\ ptr'[u] = ptr[u] /\ new'[u] = new[u]

LEMMA SeenStep ==
  ASSUME NEW t \in Threads, OthersStand(t)
  PROVE  \E Rest :
           /\ \A a : a \in Rest <=> a # Null /\ \E u \in Threads \ {t} : Shows(u, a)
           /\ \A a : a \in Seen <=> a # Null /\ (Sees(t, a) \/ a \in Rest)
           /\ \A a : a \in Seen' <=> a # Null /\ (Sees(t, a)' \/ a \in Rest)
<1> DEFINE Rest == {a \in Seen : \E u \in Threads \ {t} : Shows(u, a)}
<1>1. \A a : a \in Rest <=> a # Null /\ \E u \in Threads \ {t} : Shows(u, a)
  BY SeenFacts
<1>2. \A a : \A u \in Threads \ {t} : Shows(u, a)' <=> Shows(u, a)
  BY DEF OthersStand, Shows
<1>3. \A a : a \in Seen <=> a # Null /\ (Sees(t, a) \/ a \in Rest)
  BY <1>1, SeenFacts DEF Sees
<1>4. \A a : a \in Seen' <=> a # Null /\ (Sees(t, a)' \/ a \in Rest)
  <2> HIDE DEF Rest
  <2>1. QED
    BY <1>1, <1>2, SeenFacts DEF Sees
<1>5. QED
  BY <1>1, <1>3, <1>4

Content == [a \in Seen |-> memory[a]]

LEMMA Stutters ==
  ASSUME NEW t \in Threads, OthersStand(t),
         \A a : a # Null => (Sees(t, a)' <=> Sees(t, a)),
         \A a \in Seen : memory'[a] = memory[a]
  PROVE  Content' = Content
<1>1. Seen' = Seen
  BY SeenStep
<1>2. QED
  BY <1>1 DEF Content

LEMMA Appears ==
  ASSUME NEW t \in Threads, OthersStand(t), NEW b \in Addresses \ Seen,
         b # Null,
         \A a : a # Null => (Sees(t, a)' <=> Sees(t, a) \/ a = b),
         memory' = memory, NEW v, v = memory[b]
  PROVE  Abstract!Allocate(b, v)
<1>1. Seen' = Seen \cup {b}
  BY SeenStep
<1>2. QED
  BY <1>1 DEF Seen, Abstract!Allocate, Abstract!Live

LEMMA Vanishes ==
  ASSUME NEW t \in Threads, OthersStand(t), NEW b \in Seen,
         \A u \in Threads \ {t} : ~Shows(u, b),
         \A a : a # Null => (Sees(t, a)' <=> Sees(t, a) /\ a # b),
         \A a \in Seen \ {b} : memory'[a] = memory[a]
  PROVE  Abstract!Release(b)
<1>1. Seen' = Seen \ {b}
  BY SeenStep
<1>2. QED
  BY <1>1 DEF Seen, Abstract!Release, Abstract!Live

LEMMA Moves ==
  ASSUME NEW t \in Threads, OthersStand(t), NEW b \in Seen, NEW c, c \notin Seen,
         c # Null,
         \A u \in Threads \ {t} : ~Shows(u, b),
         \A a : a # Null => (Sees(t, a)' <=> (Sees(t, a) /\ a # b) \/ a = c),
         \A a \in Seen \ {b} : memory'[a] = memory[a],
         memory'[c] = memory[b]
  PROVE  Abstract!Resize(b, c)
<1>1. Seen' = (Seen \ {b}) \cup {c}
  BY SeenStep
<1>2. QED
  BY <1>1 DEF Seen, Abstract!Resize, Abstract!Live

-----------------------------------------------------------------------------
(* The refinement                                                          *)

LEMMA MapCall ==
  ASSUME AllocInv, NEW t \in Threads, Call(t)
  PROVE  Abstract!Next \/ Content' = Content
<1>0. /\ pc[t] = "idle" /\ ptr[t] = Null /\ new[t] = Null
      /\ hands \subseteq Addresses /\ memory \in [Addresses -> Values \cup {Junk}]
      /\ PoolInv
      /\ \A a : a # Null => (Sees(t, a) <=> a \in hands)
  BY DEF Call, Malloc, Free, FreeHeap, Realloc, ReallocHeap, Sees, Shows,
         AllocInv, PoolInv, TypeOK, CallInv
<1>1. OthersStand(t)
  BY <1>0 DEF Call, Malloc, Free, FreeHeap, Realloc, ReallocHeap, Go, call,
              OthersStand, PoolInv, TypeOK
<1>2. \A a \in hands : /\ a \in Seen /\ a # Null
                      /\ \A u \in Threads : ~Shows(u, a)
  BY <1>0, NullAssumption, SeenFacts, ShowsHas, Apart
<1>3. ASSUME NEW s \in Sizes, Malloc(t, s)
      PROVE  Content' = Content
  <2>1. \A a : a # Null => (Sees(t, a)' <=> Sees(t, a))
    BY <1>0, <1>3 DEF Malloc, Sees, Shows, Go, PoolInv, TypeOK
  <2>2. memory' = memory
    BY <1>3 DEF Malloc
  <2>3. QED
    BY <1>1, <2>1, <2>2, Stutters
<1>4. ASSUME NEW a \in hands, Free(t, a)
      PROVE  Abstract!Next
  <2>1. \A b : b # Null => (Sees(t, b)' <=> Sees(t, b) /\ b # a)
    BY <1>0, <1>4 DEF Free, Sees, Shows, Go, PoolInv, TypeOK
  <2>2. Abstract!Release(a)
    BY <1>1, <1>2, <1>4, <2>1, Vanishes DEF Free
  <2>3. QED
    BY <1>0, <2>2 DEF Abstract!Next
<1>5. ASSUME NEW a \in hands, FreeHeap(t, a)
      PROVE  Abstract!Next
  <2>1. \A b : b # Null => (Sees(t, b)' <=> Sees(t, b) /\ b # a)
    BY <1>0, <1>5 DEF FreeHeap, Sees, Shows, call
  <2>2. \A b \in Seen \ {a} : memory'[b] = memory[b]
    BY <1>0, <1>5 DEF FreeHeap
  <2>3. Abstract!Release(a)
    BY <1>1, <1>2, <2>1, <2>2, Vanishes
  <2>4. QED
    BY <1>0, <2>3 DEF Abstract!Next
<1>6. ASSUME NEW a \in hands, NEW s \in Sizes, Realloc(t, a, s)
      PROVE  Content' = Content
  <2>1. \A b : b # Null => (Sees(t, b)' <=> Sees(t, b))
    BY <1>0, <1>2, <1>6 DEF Realloc, Sees, Shows, Go, PoolInv, TypeOK
  <2>2. memory' = memory
    BY <1>6 DEF Realloc
  <2>3. QED
    BY <1>1, <2>1, <2>2, Stutters
<1>7. ASSUME NEW a \in hands, NEW s \in Sizes, NEW b \in HeapAddresses,
             ReallocHeap(t, a, b, s)
      PROVE  Abstract!Next \/ Content' = Content
  <2>0. /\ b \in Addresses /\ a \in Addresses /\ b # Null
        /\ memory' = [memory EXCEPT ![a] = Junk, ![b] = memory[a]]
        /\ hands' = (hands \ {a}) \cup {b} /\ UNCHANGED call
    BY <1>0, <1>7, PoolFacts, NullAssumption DEF ReallocHeap
  <2>1. \A c : c # Null =>
               (Sees(t, c)' <=> (Sees(t, c) /\ c # a) \/ c = b)
    BY <1>0, <2>0 DEF Sees, Shows, call
  <2>2. CASE b = a
    <3>1. \A c \in Seen : memory'[c] = memory[c]
      BY <1>0, <2>0, <2>2
    <3>2. \A c : c # Null => (Sees(t, c)' <=> Sees(t, c))
      BY <1>0, <2>1, <2>2
    <3>3. QED
      BY <1>1, <3>1, <3>2, Stutters
  <2>3. CASE b # a
    <3>1. Nobodys(b)
      BY <1>7, <2>3 DEF ReallocHeap, Taken, Nobodys, Has
    <3>2. b \notin Seen
      BY <1>0, <3>1, NobodySees
    <3>3. /\ \A c \in Seen \ {a} : memory'[c] = memory[c]
          /\ memory'[b] = memory[a]
      BY <1>0, <2>0, <2>3, <3>2, SeenAddresses
    <3>4. Abstract!Resize(a, b)
      BY <1>1, <1>2, <2>0, <2>1, <3>2, <3>3, Moves
    <3>5. QED
      BY <2>0, <3>4 DEF Abstract!Next
  <2>4. QED
    BY <2>2, <2>3
<1>8. QED
  BY <1>3, <1>4, <1>5, <1>6, <1>7 DEF Call

LEMMA MapStep ==
  ASSUME AllocInv, NEW t \in Threads, Step(t)
  PROVE  Abstract!Next \/ Content' = Content
<1>0. /\ PoolInv /\ Copied /\ Seen \subseteq Addresses
      /\ hands \subseteq Addresses
      /\ memory \in [Addresses -> Values \cup {Junk}]
      /\ pc \in [Threads -> {"idle", "take", "fallback", "count", "copy",
                             "give", "uncount", "abort"}]
      /\ ptr \in [Threads -> PoolAddresses \cup {Null}]
      /\ new \in [Threads -> Addresses \cup {Null}]
      /\ \A a \in Addresses : a # Null
  BY SeenAddresses, NullAssumption DEF AllocInv, PoolInv, TypeOK
<1>1. OthersStand(t)
  BY <1>0 DEF Step, Take, TakeNothing, Fallback, FallbackFails, Count,
              CountMoved, Copy, Give, Uncount, Return, Go, OthersStand
<1>2. pc[t] \in {"take", "fallback"} => new[t] = Null
  BY <1>0 DEF PoolInv, CallInv
<1>3. ASSUME NEW p \in Pools, Take(t, p)
      PROVE  Content' = Content
  <2>1. \A a : a # Null => (Sees(t, a)' <=> Sees(t, a))
    BY <1>0, <1>3 DEF Take, Sees, Shows, Go
  <2>2. Top(p) \notin Seen
    BY <1>0, <1>3, TopFree, NobodySees DEF Take
  <2>3. \A a \in Seen : memory'[a] = memory[a]
    BY <1>0, <1>3, <2>2 DEF Take
  <2>4. QED
    BY <1>1, <2>1, <2>3, Stutters
<1>4. CASE TakeNothing(t) \/ CountMoved(t) \/ \E a \in HeapAddresses : Fallback(t, a)
  <2>1. \A a : a # Null => (Sees(t, a)' <=> Sees(t, a))
    BY <1>0, <1>4 DEF TakeNothing, CountMoved, Fallback, Sees, Shows, Go
  <2>2. memory' = memory
    BY <1>4 DEF TakeNothing, CountMoved, Fallback
  <2>3. QED
    BY <1>1, <2>1, <2>2, Stutters
<1>5. CASE FallbackFails(t)
  <2>1. \A a : a # Null => (Sees(t, a)' <=> Sees(t, a))
    BY <1>0, <1>5 DEF FallbackFails, Return, Sees, Shows, Go
  <2>2. memory' = memory
    BY <1>5 DEF FallbackFails
  <2>3. QED
    BY <1>1, <2>1, <2>2, Stutters
<1>6. CASE Count(t)
  <2>1. /\ new[t] \in Addresses /\ new[t] # Null /\ ptr[t] = Null
        /\ Has(t, new[t]) /\ memory' = memory
    BY <1>0, <1>6 DEF Count, PoolInv, TypeOK, Has
  <2>2. new[t] \notin Seen
    BY <1>0, <1>6, <2>1, Unseen DEF Shows, Count
  <2>3. \A a : a # Null => (Sees(t, a)' <=> Sees(t, a) \/ a = new[t])
    BY <1>0, <1>6, <2>1 DEF Count, Return, Sees, Shows, Go
  <2>4. PICK b \in Addresses, v \in Values \cup {Junk} :
          b = new[t] /\ v = memory[b]
    BY <1>0, <2>1
  <2>5. Abstract!Allocate(b, v)
    BY <1>1, <2>1, <2>2, <2>3, <2>4, Appears
  <2>6. QED
    BY <1>0, <2>4, <2>5 DEF Abstract!Next
<1>7. CASE Copy(t)
  <2>1. /\ new[t] \in Addresses /\ new[t] # Null /\ new[t] # ptr[t]
        /\ Has(t, new[t])
    BY <1>0, <1>7 DEF Copy, PoolInv, TypeOK, CallInv, Has
  <2>2. new[t] \notin Seen
    BY <1>0, <1>7, <2>1, Unseen DEF Shows, Copy
  <2>3. \A a \in Seen : memory'[a] = memory[a]
    BY <1>0, <1>7, <2>2 DEF Copy
  <2>4. \A a : a # Null => (Sees(t, a)' <=> Sees(t, a))
    BY <1>0, <1>7, <2>1 DEF Copy, Sees, Shows, Go
  <2>5. QED
    BY <1>1, <2>3, <2>4, Stutters
<1>8. CASE Give(t)
  <2>1. /\ memory' = [memory EXCEPT ![ptr[t]] = Junk]
        /\ pc[t] = "give" /\ pc' = [pc EXCEPT ![t] = "uncount"]
        /\ UNCHANGED <<hands, ptr, new>>
    BY <1>0, <1>8, RoomToGive DEF Give, Go
  <2>2. /\ ptr[t] \in Addresses /\ ptr[t] # Null /\ Has(t, ptr[t])
    BY <1>0, <1>8, PoolFacts DEF Give, PoolInv, TypeOK, Has
  <2>3. CASE new[t] = Null
    <3>1. ptr[t] \notin Seen
      BY <1>0, <2>1, <2>2, <2>3, Unseen DEF Shows
    <3>2. \A a \in Seen : memory'[a] = memory[a]
      BY <1>0, <2>1, <3>1
    <3>3. \A a : a # Null => (Sees(t, a)' <=> Sees(t, a))
      BY <1>0, <2>1, <2>3 DEF Sees, Shows
    <3>4. QED
      BY <1>1, <3>2, <3>3, Stutters
  <2>4. CASE new[t] # Null
    <3>1. /\ new[t] \in Addresses /\ new[t] # ptr[t] /\ Has(t, new[t])
      BY <1>0, <2>1, <2>4 DEF PoolInv, CallInv, Has
    <3>2. ptr[t] \in Seen /\ new[t] \notin Seen
      BY <1>0, <2>1, <2>2, <2>4, <3>1, Unseen DEF Shows
    <3>3. \A u \in Threads \ {t} : ~Shows(u, ptr[t])
      BY <1>0, <2>2, Apart, ShowsHas
    <3>4. \A a : a # Null =>
                 (Sees(t, a)' <=> (Sees(t, a) /\ a # ptr[t]) \/ a = new[t])
      <4>1. ptr[t] \notin hands
        BY <1>0, <2>2, Apart
      <4>2. QED
        BY <1>0, <2>1, <2>4, <3>1, <4>1 DEF Sees, Shows
    <3>5. /\ \A a \in Seen \ {ptr[t]} : memory'[a] = memory[a]
          /\ memory'[new[t]] = memory[ptr[t]]
      BY <1>0, <2>1, <2>4, <3>1 DEF Copied
    <3>6. PICK a \in Addresses, b \in Addresses : a = ptr[t] /\ b = new[t]
      BY <2>2, <3>1
    <3>7. Abstract!Resize(a, b)
      BY <1>1, <2>4, <3>2, <3>3, <3>4, <3>5, <3>6, Moves
    <3>8. QED
      BY <3>6, <3>7 DEF Abstract!Next
  <2>5. QED
    BY <2>3, <2>4
<1>9. CASE Uncount(t)
  <2>1. \A a : a # Null => (Sees(t, a)' <=> Sees(t, a))
    BY <1>0, <1>9 DEF Uncount, Return, Sees, Shows, Go
  <2>2. memory' = memory
    BY <1>9 DEF Uncount
  <2>3. QED
    BY <1>1, <2>1, <2>2, Stutters
<1>10. QED
  BY <1>3, <1>4, <1>5, <1>6, <1>7, <1>8, <1>9 DEF Step

LEMMA AllocatorStep == AllocInv /\ [Next]_vars => Abstract!Next \/ Content' = Content
<1> SUFFICES ASSUME AllocInv, [Next]_vars
             PROVE  Abstract!Next \/ Content' = Content
  OBVIOUS
<1>1. ASSUME NEW a \in hands, NEW v \in Values, Write(a, v)
      PROVE  Abstract!Next
  <2>1. a \in Addresses /\ a # Null /\ Seen \subseteq Addresses
        /\ memory \in [Addresses -> Values \cup {Junk}]
    BY NullAssumption, SeenAddresses DEF AllocInv, PoolInv, TypeOK
  <2>2. a \in Seen
    BY <2>1, SeenFacts
  <2>3. Seen' = Seen /\ memory' = [memory EXCEPT ![a] = v]
    BY <1>1 DEF Write, Seen, Visible, call
  <2>4. Abstract!Write(a, v)
    BY <2>1, <2>2, <2>3 DEF Seen, Abstract!Write, Abstract!Live
  <2>5. QED
    BY <2>1, <2>4 DEF Abstract!Next
<1>2. CASE Cleanup \/ UNCHANGED vars
  <2>1. UNCHANGED <<memory, hands, pc, ptr, new>>
    BY <1>2 DEF Cleanup, vars, call
  <2>2. QED
    BY <2>1 DEF Content, Seen, Visible
<1>3. QED
  BY <1>1, <1>2, MapCall, MapStep DEF Next, Gone

(* The callers of mec_memory.h see an allocator: for any number of threads *)
(* and any pools, memory is one caller's alone and keeps what was written, *)
(* also when it moves.                                                     *)
THEOREM AllocatorCorrect == Spec => ImplementsAllocator
<1>1. Init => AllocInv
  BY PoolInvInit, CopiedInit DEF AllocInv
<1>2. Init => Abstract!Init
  BY DEF Init, Visible, Abstract!Init
<1>3. AllocInv /\ [Next]_vars => [Abstract!Next]_Content
  BY AllocatorStep
<1>4. Content = [a \in Visible \ {Null} |-> memory[a]]
  BY DEF Content, Seen
<1>5. QED
  BY <1>1, <1>2, <1>3, <1>4, AllocInvStep, PTL
  DEF Spec, ImplementsAllocator, Abstract!Spec, Content, Seen
=============================================================================
