--------------------------- MODULE Memory_proofs ----------------------------
(***************************************************************************)
(* Proofs about frames, paging and the heap, for every memory map, size of *)
(* table and place of the heap, and any number of calls.  The first part   *)
(* is about one instance of BootInfoFrameAllocator, the second about page  *)
(* tables T as such, the third about the machine.                          *)
(***************************************************************************)
EXTENDS Memory, FiniteSetTheorems, SequenceTheorems, TLAPS

-----------------------------------------------------------------------------
(* The inductive invariant.                                                *)

(* The call in progress stands at the table its page's way leads to, for a *)
(* page that somebody asked for.                                           *)
JobOnItsWay ==
    job # Idle =>
        /\ job.table = TableOf(tables, job.page, job.level)
        /\ job.page \in HeapPages \cup ClientPages
        /\ boot = "mapping" => job.page = HeapFirst + heap
        /\ boot # "panicked"

(* The frame it has taken for the page, and the frames it and the boot may *)
(* still take, are in use by nobody.                                       *)
FrameInHand ==
    job # Idle => job.frame \notin Linked /\ \E n \in 0 .. next - 1 : job.frame = Frame(n)

FutureFramesFree ==
    boot = "mapping" \/ job # Idle =>
        \A n \in next .. Cardinality(UsableFrames(memory_map)) : Frame(n) \notin Linked

(* The heap as far as it is mapped. *)
HeapSoFar ==
    /\ \A p \in HeapFirst .. HeapFirst + heap - 1 : TranslateAddr(p) # None
    /\ boot = "ready" => HeapFirst + heap > HeapLast
    /\ TranslateAddr(PageBehindHeap) = None

Inv ==
    /\ TypeOK
    /\ IsTree(tables)
    /\ JobOnItsWay
    /\ FrameInHand
    /\ FutureFramesFree
    /\ HeapSoFar

-----------------------------------------------------------------------------
(* One instance of the frame allocator.                                    *)

(* A region is a record of its two borders and its type. *)
LEMMA RegionType ==
  ASSUME NEW map, IsMemoryMap(map), NEW r \in DOMAIN map
  PROVE  /\ r \in Nat
         /\ map[r].start \in Nat /\ map[r].end \in Nat
         /\ DOMAIN map = 1 .. Len(map) /\ Len(map) \in Nat
<1>. DEFINE Region == [start : Nat, end : Nat, usable : BOOLEAN]
<1>1. map \in Seq(Region)
  BY DEF IsMemoryMap
<1>2. DOMAIN map = 1 .. Len(map) /\ Len(map) \in Nat
  <2>. HIDE DEF Region
  <2>. QED  BY <1>1, LenProperties
<1>3. map[r] \in Region
  <2>. HIDE DEF Region
  <2>. QED  BY <1>1, <1>2, ElementOfSeq
<1>. QED  BY <1>2, <1>3

(* The image of a finite set under a function is finite. *)
LEMMA ImageFinite ==
  ASSUME NEW S, IsFiniteSet(S), NEW f, DOMAIN f = S, f = [x \in S |-> f[x]]
  PROVE  IsFiniteSet({f[x] : x \in S})
<1>1. f \in Surjection(S, {f[x] : x \in S})
  BY DEF Surjection
<1>. QED  BY <1>1, FS_Surjection

(* A usable frame lies in its region, and its number in Nat. *)
LEMMA UsableFrameType ==
  ASSUME NEW map, IsMemoryMap(map), NEW u \in UsableFrames(map)
  PROVE  /\ u = <<u[1], u[2]>>
         /\ u[1] \in DOMAIN map /\ u[1] \in Nat /\ map[u[1]].usable
         /\ map[u[1]].start \in Nat /\ map[u[1]].end \in Nat
         /\ u[2] \in map[u[1]].start .. map[u[1]].end - 1
         /\ u[2] \in Nat
<1>1. PICK r \in {q \in DOMAIN map : map[q].usable} :
         u \in {<<r, f>> : f \in map[r].start .. map[r].end - 1}
  BY DEF UsableFrames
<1>2. PICK f \in map[r].start .. map[r].end - 1 : u = <<r, f>>
  BY <1>1
<1>3. r \in DOMAIN map /\ map[r].usable
  BY <1>1
<1>4. r \in Nat /\ map[r].start \in Nat /\ map[r].end \in Nat
  BY <1>3, RegionType
<1>5. f \in Nat
  BY <1>2, <1>4
<1>. QED  BY <1>1, <1>2, <1>3, <1>4, <1>5

(* Each frame belongs to one region, so the pairs are told apart by their  *)
(* frames alone.                                                           *)
LEMMA FrameDeterminesRegion ==
  ASSUME NEW map, IsMemoryMap(map),
         NEW u \in UsableFrames(map), NEW v \in UsableFrames(map),
         u[2] = v[2]
  PROVE  u = v
<1>1. /\ u = <<u[1], u[2]>> /\ v = <<v[1], v[2]>>
      /\ u[1] \in DOMAIN map /\ v[1] \in DOMAIN map
      /\ map[u[1]].start \in Nat /\ map[u[1]].end \in Nat
      /\ map[v[1]].start \in Nat /\ map[v[1]].end \in Nat
      /\ u[2] \in map[u[1]].start .. map[u[1]].end - 1
      /\ v[2] \in map[v[1]].start .. map[v[1]].end - 1
  BY UsableFrameType
<1>2. u[1] = v[1]
  <2>1. SUFFICES ASSUME u[1] # v[1] PROVE FALSE
    OBVIOUS
  <2>2. map[u[1]].end <= map[v[1]].start \/ map[v[1]].end <= map[u[1]].start
    BY <1>1, <2>1 DEF IsMemoryMap
  <2>. QED  BY <1>1, <2>2
<1>. QED  BY <1>1, <1>2

(* A map has finitely many usable frames. *)
LEMMA UsableFramesFinite ==
  ASSUME NEW map, IsMemoryMap(map)
  PROVE  IsFiniteSet(UsableFrames(map))
<1>. DEFINE Rs == {q \in DOMAIN map : map[q].usable}
            Numbers(r) == map[r].start .. map[r].end - 1
            part == [r \in Rs |-> {<<r, f>> : f \in Numbers(r)}]
<1>1. IsFiniteSet(Rs)
  <2>1. CASE DOMAIN map = {}
    BY <2>1, FS_EmptySet
  <2>2. CASE DOMAIN map # {}
    <3>1. DOMAIN map = 1 .. Len(map) /\ Len(map) \in Nat
      BY <2>2, RegionType
    <3>2. IsFiniteSet(1 .. Len(map))
      BY <3>1, FS_Interval
    <3>. QED  BY <3>1, <3>2, FS_Subset
  <2>. QED  BY <2>1, <2>2
<1>2. IsFiniteSet({part[r] : r \in Rs})
  <2>1. DOMAIN part = Rs /\ part = [r \in Rs |-> part[r]]
    OBVIOUS
  <2>. HIDE DEF part, Rs
  <2>. QED  BY <1>1, <2>1, ImageFinite
<1>3. ASSUME NEW r \in Rs PROVE IsFiniteSet(part[r])
  <2>1. map[r].start \in Nat /\ map[r].end \in Nat
    BY RegionType
  <2>2. map[r].start \in Int /\ map[r].end - 1 \in Int
    BY <2>1
  <2>3. IsFiniteSet(Numbers(r))
    BY <2>2, FS_Interval
  <2>. DEFINE pair == [f \in Numbers(r) |-> <<r, f>>]
  <2>4. DOMAIN pair = Numbers(r) /\ pair = [f \in Numbers(r) |-> pair[f]]
    OBVIOUS
  <2>5. part[r] = {pair[f] : f \in Numbers(r)}
    OBVIOUS
  <2>. HIDE DEF pair, Numbers
  <2>6. IsFiniteSet({pair[f] : f \in Numbers(r)})
    BY <2>3, <2>4, ImageFinite
  <2>. QED  BY <2>5, <2>6
<1>4. IsFiniteSet(UNION {part[r] : r \in Rs})
  <2>. HIDE DEF part, Rs
  <2>. QED  BY <1>2, <1>3, FS_UNION
<1>5. ASSUME NEW u \in UsableFrames(map) PROVE u \in UNION {part[r] : r \in Rs}
  <2>1. PICK r \in Rs : u \in {<<r, f>> : f \in Numbers(r)}
    BY DEF UsableFrames
  <2>2. u \in part[r]
    BY <2>1
  <2>. QED  BY <2>1, <2>2
<1>. QED  BY <1>4, <1>5, FS_Subset

(* Of two usable frames one comes first, and fewer frames come before it. *)
LEMMA BeforeGrows ==
  ASSUME NEW map, IsMemoryMap(map),
         NEW u \in UsableFrames(map), NEW v \in UsableFrames(map),
         u \in Before(map, v)
  PROVE  Cardinality(Before(map, u)) < Cardinality(Before(map, v))
<1>1. /\ u[1] \in Nat /\ u[2] \in Nat /\ v[1] \in Nat /\ v[2] \in Nat
  BY UsableFrameType
<1>2. ASSUME NEW x \in Before(map, u) PROVE x \in Before(map, v)
  <2>1. x \in UsableFrames(map) /\ x[1] \in Nat /\ x[2] \in Nat
    BY UsableFrameType DEF Before
  <2>. QED  BY <1>1, <1>2, <2>1 DEF Before
<1>3. u \notin Before(map, u)
  BY <1>1 DEF Before
<1>4. IsFiniteSet(Before(map, v))
  <2>1. Before(map, v) \subseteq UsableFrames(map)
    BY DEF Before
  <2>. QED  BY <2>1, UsableFramesFinite, FS_Subset
<1>5. Before(map, u) \subseteq Before(map, v) /\ Before(map, u) # Before(map, v)
  BY <1>2, <1>3
<1>6. /\ IsFiniteSet(Before(map, u))
      /\ Cardinality(Before(map, u)) <= Cardinality(Before(map, v))
      /\ Cardinality(Before(map, u)) # Cardinality(Before(map, v))
  BY <1>4, <1>5, FS_Subset
<1>. QED  BY <1>4, <1>6, FS_CardinalityType

(* usable_frames yields every frame at one place only. *)
LEMMA OneFramePerPlace ==
  ASSUME NEW map, IsMemoryMap(map), NEW n \in Nat,
         NEW u \in Nth(map, n), NEW v \in Nth(map, n)
  PROVE  u = v
<1>1. /\ u \in UsableFrames(map) /\ v \in UsableFrames(map)
      /\ Cardinality(Before(map, u)) = n /\ Cardinality(Before(map, v)) = n
  BY DEF Nth
<1>2. ~(u \in Before(map, v)) /\ ~(v \in Before(map, u))
  BY <1>1, BeforeGrows
<1>3. /\ u = <<u[1], u[2]>> /\ v = <<v[1], v[2]>>
      /\ u[1] \in Nat /\ u[2] \in Nat /\ v[1] \in Nat /\ v[2] \in Nat
  BY <1>1, UsableFrameType
<1>. QED  BY <1>1, <1>2, <1>3 DEF Before

(* What allocate_frame returns is a frame of a usable region, or None. *)
THEOREM AllocateFrameIsUsable ==
  ASSUME NEW map, IsMemoryMap(map), NEW n \in Nat, AllocateFrame(map, n) # None
  PROVE  /\ AllocateFrame(map, n) \in Nat
         /\ \E r \in DOMAIN map :
               map[r].usable /\ AllocateFrame(map, n) \in map[r].start .. map[r].end - 1
<1>. DEFINE u == CHOOSE x \in Nth(map, n) : TRUE
<1>1. Nth(map, n) # {} /\ AllocateFrame(map, n) = u[2]
  BY DEF AllocateFrame
<1>2. u \in Nth(map, n)
  BY <1>1
<1>. HIDE DEF u
<1>3. u \in UsableFrames(map)
  BY <1>2 DEF Nth
<1>. QED  BY <1>1, <1>3, UsableFrameType

(* Two calls of one instance never return the same frame ("allocate_frame  *)
(* nunca devolve o mesmo índice `next` duas vezes numa mesma instância",   *)
(* src/memory.rs), however the bootloader cuts memory into regions.        *)
THEOREM NeverTheSameFrame ==
  ASSUME NEW map, IsMemoryMap(map),
         NEW m \in Nat, NEW n \in Nat, m # n,
         AllocateFrame(map, m) # None
  PROVE  AllocateFrame(map, m) # AllocateFrame(map, n)
<1>1. SUFFICES ASSUME AllocateFrame(map, m) = AllocateFrame(map, n) PROVE FALSE
  OBVIOUS
<1>. DEFINE u == CHOOSE x \in Nth(map, m) : TRUE
            v == CHOOSE x \in Nth(map, n) : TRUE
<1>2. /\ Nth(map, m) # {} /\ AllocateFrame(map, m) = u[2]
      /\ Nth(map, n) # {} /\ AllocateFrame(map, n) = v[2]
  BY <1>1 DEF AllocateFrame
<1>3. u \in Nth(map, m) /\ v \in Nth(map, n)
  BY <1>2
<1>. HIDE DEF u, v
<1>4. /\ u \in UsableFrames(map) /\ Cardinality(Before(map, u)) = m
      /\ v \in UsableFrames(map) /\ Cardinality(Before(map, v)) = n
  BY <1>3 DEF Nth
<1>5. u = v
  BY <1>1, <1>2, <1>4, FrameDeterminesRegion
<1>. QED  BY <1>4, <1>5

(* A set of numbers that is not empty has a least one: what induction over *)
(* the regions of a map rests on.                                          *)
LEMMA LeastNumber ==
  ASSUME NEW S \in SUBSET Nat, S # {}
  PROVE  \E m \in S : \A k \in S : m <= k
<1>. DEFINE R == OpToRel(<, Nat)
<1>1. IsWellFoundedOn(R, Nat)
  BY NatLessThanWellFounded, Zenon
<1>2. \A x, y \in Nat : x < y => <<x, y>> \in R
  BY DEF OpToRel
<1>. HIDE DEF R
<1>3. PICK m \in S : \A k \in S : ~(<<k, m>> \in R)
  BY <1>1, WFMin
<1>4. ASSUME NEW k \in S PROVE m <= k
  <2>1. k \in Nat /\ m \in Nat
    OBVIOUS
  <2>2. ~(k < m)
    BY <1>2, <1>3, <2>1
  <2>. QED  BY <2>1, <2>2
<1>. QED  BY <1>4

(* The usable frames of the first n regions, and of region n alone. *)
FramesUpTo(map, n) == {u \in UsableFrames(map) : u[1] <= n}
FramesOf(map, n) == {u \in UsableFrames(map) : u[1] = n}

(* What a region adds to the sum. *)
SizeOf(map, n) == IF map[n].usable THEN map[n].end - map[n].start ELSE 0

(* A region has as many usable frames as it adds to the sum. *)
LEMMA RegionSize ==
  ASSUME NEW map, IsMemoryMap(map), NEW n \in DOMAIN map
  PROVE  IsFiniteSet(FramesOf(map, n)) /\ Cardinality(FramesOf(map, n)) = SizeOf(map, n)
<1>1. /\ map[n].start \in Nat /\ map[n].end \in Nat
      /\ map[n].start <= map[n].end
  BY RegionType DEF IsMemoryMap
<1>2. CASE ~map[n].usable
  <2>1. FramesOf(map, n) = {}
    BY <1>2, UsableFrameType DEF FramesOf
  <2>. QED  BY <1>2, <2>1, FS_EmptySet DEF SizeOf
<1>3. CASE map[n].usable
  <2>. DEFINE Numbers == map[n].start .. map[n].end - 1
              pair == [f \in Numbers |-> <<n, f>>]
  <2>1. FramesOf(map, n) = {<<n, f>> : f \in Numbers}
    <3>1. ASSUME NEW u \in FramesOf(map, n) PROVE u \in {<<n, f>> : f \in Numbers}
      BY UsableFrameType DEF FramesOf
    <3>2. ASSUME NEW f \in Numbers PROVE <<n, f>> \in FramesOf(map, n)
      <4>1. <<n, f>> \in {<<n, g>> : g \in map[n].start .. map[n].end - 1}
        OBVIOUS
      <4>2. <<n, f>> \in UsableFrames(map)
        BY <1>3, <4>1 DEF UsableFrames
      <4>. QED  BY <4>2 DEF FramesOf
    <3>. QED  BY <3>1, <3>2
  <2>2. pair \in Bijection(Numbers, FramesOf(map, n))
    <3>1. pair \in [Numbers -> FramesOf(map, n)]
      BY <2>1
    <3>2. \A f, g \in Numbers : pair[f] = pair[g] => f = g
      OBVIOUS
    <3>3. \A u \in FramesOf(map, n) : \E f \in Numbers : pair[f] = u
      BY <2>1
    <3>. HIDE DEF pair, Numbers
    <3>. QED  BY <3>1, <3>2, <3>3 DEF Bijection, Injection, Surjection, IsInjective
  <2>3. map[n].start \in Int /\ map[n].end - 1 \in Int
    BY <1>1
  <2>4. /\ IsFiniteSet(Numbers)
        /\ Cardinality(Numbers) = IF map[n].start > map[n].end - 1 THEN 0
                                  ELSE (map[n].end - 1) - map[n].start + 1
    BY <2>3, FS_Interval
  <2>5. Cardinality(Numbers) = map[n].end - map[n].start
    BY <1>1, <2>4
  <2>. HIDE DEF pair, Numbers
  <2>6. ExistsBijection(Numbers, FramesOf(map, n))
    BY <2>2 DEF ExistsBijection
  <2>. QED  BY <1>3, <2>4, <2>5, <2>6, FS_Bijection DEF SizeOf
<1>. QED  BY <1>2, <1>3

(* Each region adds its frames to those of the regions before it. *)
LEMMA SizeGrows ==
  ASSUME NEW map, IsMemoryMap(map), NEW n \in DOMAIN map
  PROVE  /\ Cardinality(FramesUpTo(map, n))
               = Cardinality(FramesUpTo(map, n - 1)) + SizeOf(map, n)
         /\ Cardinality(FramesUpTo(map, n - 1)) \in Nat /\ SizeOf(map, n) \in Nat
<1>1. n \in Nat
  BY RegionType
<1>2. \A u \in UsableFrames(map) : u[1] \in Nat
  BY UsableFrameType
<1>3. FramesUpTo(map, n) = FramesUpTo(map, n - 1) \cup FramesOf(map, n)
  BY <1>1, <1>2 DEF FramesUpTo, FramesOf
<1>4. FramesUpTo(map, n - 1) \cap FramesOf(map, n) = {}
  BY <1>1, <1>2 DEF FramesUpTo, FramesOf
<1>5. IsFiniteSet(FramesUpTo(map, n - 1))
  <2>1. FramesUpTo(map, n - 1) \subseteq UsableFrames(map)
    BY DEF FramesUpTo
  <2>. QED  BY <2>1, UsableFramesFinite, FS_Subset
<1>6. IsFiniteSet(FramesOf(map, n)) /\ Cardinality(FramesOf(map, n)) = SizeOf(map, n)
  BY RegionSize
<1>7. /\ Cardinality(FramesUpTo(map, n - 1)) \in Nat
      /\ Cardinality(FramesOf(map, n)) \in Nat
  BY <1>5, <1>6, FS_CardinalityType
<1>8. Cardinality({}) = 0
  BY FS_EmptySet
<1>9. Cardinality(FramesUpTo(map, n - 1) \cup FramesOf(map, n))
        = Cardinality(FramesUpTo(map, n - 1)) + Cardinality(FramesOf(map, n))
             - Cardinality(FramesUpTo(map, n - 1) \cap FramesOf(map, n))
  BY <1>5, <1>6, FS_Union
<1>10. Cardinality(FramesUpTo(map, n))
         = Cardinality(FramesUpTo(map, n - 1)) + Cardinality(FramesOf(map, n)) - 0
  BY <1>3, <1>4, <1>8, <1>9
<1>. QED  BY <1>6, <1>7, <1>10

(* The sum of memory::init is the number of usable frames, however memory  *)
(* is cut into regions.                                                    *)
THEOREM SizeIsNumberOfFrames ==
  ASSUME NEW map, IsMemoryMap(map)
  PROVE  UsableSize(map) = Cardinality(UsableFrames(map)) /\ UsableSize(map) \in Nat
<1>. DEFINE Sum(s) == s = [n \in 0 .. Len(map) |->
                              IF n = 0 THEN 0
                              ELSE s[n - 1] + (IF map[n].usable
                                               THEN map[n].end - map[n].start ELSE 0)]
            count == [n \in 0 .. Len(map) |-> Cardinality(FramesUpTo(map, n))]
<1>1. DOMAIN map = 1 .. Len(map) /\ Len(map) \in Nat
  <2>. DEFINE Region == [start : Nat, end : Nat, usable : BOOLEAN]
  <2>1. map \in Seq(Region)
    BY DEF IsMemoryMap
  <2>. HIDE DEF Region
  <2>. QED  BY <2>1, LenProperties
<1>2. Cardinality(FramesUpTo(map, 0)) = 0
  <2>1. \A u \in UsableFrames(map) : u[1] \in 1 .. Len(map)
    BY <1>1, UsableFrameType
  <2>2. FramesUpTo(map, 0) = {}
    BY <1>1, <2>1 DEF FramesUpTo
  <2>. QED  BY <2>2, FS_EmptySet
<1>3. ASSUME NEW n \in 0 .. Len(map), n # 0
      PROVE  /\ n \in DOMAIN map /\ n - 1 \in 0 .. Len(map)
             /\ Cardinality(FramesUpTo(map, n))
                  = Cardinality(FramesUpTo(map, n - 1)) + SizeOf(map, n)
  <2>1. n \in DOMAIN map /\ n - 1 \in 0 .. Len(map)
    BY <1>1, <1>3
  <2>. QED  BY <2>1, SizeGrows
<1>4. Sum(count)
  <2>1. ASSUME NEW n \in 0 .. Len(map)
        PROVE  count[n] = IF n = 0 THEN 0 ELSE count[n - 1] + SizeOf(map, n)
    <3>1. CASE n = 0
      BY <1>2, <3>1
    <3>2. CASE n # 0
      BY <1>3, <3>2
    <3>. QED  BY <3>1, <3>2
  <2>. QED  BY <2>1 DEF SizeOf
<1>5. PICK s : Sum(s) /\ UsableSize(map) = s[Len(map)]
  <2>1. UsableSize(map) = (CHOOSE s : Sum(s))[Len(map)]
    BY DEF UsableSize
  <2>. HIDE DEF Sum
  <2>. QED  BY <1>4, <2>1
<1>6. ASSUME NEW n \in 0 .. Len(map)
      PROVE  s[n] = IF n = 0 THEN 0 ELSE s[n - 1] + SizeOf(map, n)
  BY <1>5 DEF SizeOf
<1>7. \A n \in 0 .. Len(map) : s[n] = Cardinality(FramesUpTo(map, n))
  <2>. DEFINE Wrong == {n \in 0 .. Len(map) : s[n] # Cardinality(FramesUpTo(map, n))}
  <2>1. SUFFICES ASSUME Wrong # {} PROVE FALSE
    OBVIOUS
  <2>2. Wrong \in SUBSET Nat
    BY <1>1
  <2>3. PICK m \in Wrong : \A k \in Wrong : m <= k
    <3>. HIDE DEF Wrong
    <3>. QED  BY <2>1, <2>2, LeastNumber
  <2>4. m # 0
    BY <1>2, <1>6, <2>3
  <2>5. m - 1 \in 0 .. Len(map) /\ m - 1 \notin Wrong
    BY <1>1, <2>3, <2>4
  <2>6. s[m - 1] = Cardinality(FramesUpTo(map, m - 1))
    BY <2>5
  <2>. QED  BY <1>3, <1>6, <2>3, <2>4, <2>6
<1>8. FramesUpTo(map, Len(map)) = UsableFrames(map)
  <2>1. \A u \in UsableFrames(map) : u[1] \in 1 .. Len(map)
    BY <1>1, UsableFrameType
  <2>. QED  BY <1>1, <2>1 DEF FramesUpTo
<1>9. Len(map) \in 0 .. Len(map)
  BY <1>1
<1>. QED  BY <1>5, <1>7, <1>8, <1>9, UsableFramesFinite, FS_CardinalityType

(* Every usable frame has its place, below their number, and the call that *)
(* reaches it gets it.                                                     *)
LEMMA EveryFrameHasAPlace ==
  ASSUME NEW map, IsMemoryMap(map), NEW u \in UsableFrames(map)
  PROVE  /\ Cardinality(Before(map, u)) \in 0 .. Cardinality(UsableFrames(map)) - 1
         /\ AllocateFrame(map, Cardinality(Before(map, u))) = u[2]
<1>. DEFINE place == Cardinality(Before(map, u))
<1>1. IsFiniteSet(UsableFrames(map)) /\ Cardinality(UsableFrames(map)) \in Nat
  BY UsableFramesFinite, FS_CardinalityType
<1>2. Before(map, u) \in SUBSET UsableFrames(map) /\ u \notin Before(map, u)
  BY UsableFrameType DEF Before
<1>3. /\ place <= Cardinality(UsableFrames(map))
      /\ place # Cardinality(UsableFrames(map))
      /\ place \in Nat
  BY <1>1, <1>2, FS_Subset, FS_CardinalityType
<1>4. u \in Nth(map, place)
  BY DEF Nth
<1>5. (CHOOSE x \in Nth(map, place) : TRUE) \in Nth(map, place)
  BY <1>4
<1>6. (CHOOSE x \in Nth(map, place) : TRUE) = u
  BY <1>3, <1>4, <1>5, OneFramePerPlace
<1>7. AllocateFrame(map, place) = u[2]
  BY <1>4, <1>6 DEF AllocateFrame
<1>. QED  BY <1>1, <1>3, <1>7

(* A call that gets a frame gets the one whose place it has reached. *)
LEMMA FrameAtPlace ==
  ASSUME NEW map, IsMemoryMap(map), NEW n \in Nat, AllocateFrame(map, n) # None
  PROVE  /\ \E u \in UsableFrames(map) :
               AllocateFrame(map, n) = u[2] /\ n = Cardinality(Before(map, u))
         /\ n < Cardinality(UsableFrames(map))
<1>. DEFINE u == CHOOSE x \in Nth(map, n) : TRUE
<1>1. Nth(map, n) # {} /\ AllocateFrame(map, n) = u[2]
  BY DEF AllocateFrame
<1>2. u \in Nth(map, n)
  BY <1>1
<1>. HIDE DEF u
<1>3. u \in UsableFrames(map) /\ n = Cardinality(Before(map, u))
  BY <1>2 DEF Nth
<1>4. n \in 0 .. Cardinality(UsableFrames(map)) - 1 /\ Cardinality(UsableFrames(map)) \in Nat
  BY <1>3, EveryFrameHasAPlace, UsableFramesFinite, FS_CardinalityType
<1>. QED  BY <1>1, <1>3, <1>4

(* An instance called often enough hands out all usable frames, each once: *)
(* as many as the sum of memory::init says.                                *)
THEOREM AllFramesAreHandedOut ==
  ASSUME NEW map, IsMemoryMap(map), NEW n \in Nat, n >= Cardinality(UsableFrames(map))
  PROVE  /\ {AllocateFrame(map, k) : k \in 0 .. n} \ {None} = {u[2] : u \in UsableFrames(map)}
         /\ IsFiniteSet({u[2] : u \in UsableFrames(map)})
         /\ Cardinality({u[2] : u \in UsableFrames(map)}) = UsableSize(map)
<1>. DEFINE Numbers == {u[2] : u \in UsableFrames(map)}
            number == [u \in UsableFrames(map) |-> u[2]]
<1>1. ASSUME NEW f \in Numbers PROVE f \in {AllocateFrame(map, k) : k \in 0 .. n} \ {None}
  <2>1. PICK u \in UsableFrames(map) : f = u[2]
    OBVIOUS
  <2>2. /\ Cardinality(Before(map, u)) \in 0 .. Cardinality(UsableFrames(map)) - 1
        /\ AllocateFrame(map, Cardinality(Before(map, u))) = f
        /\ f \in Nat
    BY <2>1, EveryFrameHasAPlace, UsableFrameType
  <2>3. Cardinality(UsableFrames(map)) \in Nat
    BY UsableFramesFinite, FS_CardinalityType
  <2>4. Cardinality(Before(map, u)) \in 0 .. n
    BY <2>2, <2>3
  <2>. QED  BY <2>2, <2>4, NoneIsNoFrame
<1>2. ASSUME NEW k \in 0 .. n, AllocateFrame(map, k) # None PROVE AllocateFrame(map, k) \in Numbers
  BY <1>2, FrameAtPlace
<1>3. number \in Bijection(UsableFrames(map), Numbers)
  <2>1. number \in [UsableFrames(map) -> Numbers]
    OBVIOUS
  <2>2. \A u, v \in UsableFrames(map) : number[u] = number[v] => u = v
    BY FrameDeterminesRegion
  <2>3. \A f \in Numbers : \E u \in UsableFrames(map) : number[u] = f
    OBVIOUS
  <2>. HIDE DEF number, Numbers
  <2>. QED  BY <2>1, <2>2, <2>3 DEF Bijection, Injection, Surjection, IsInjective
<1>4. {AllocateFrame(map, k) : k \in 0 .. n} \ {None} = Numbers
  BY <1>1, <1>2
<1>. HIDE DEF number, Numbers
<1>5. IsFiniteSet(Numbers) /\ Cardinality(Numbers) = Cardinality(UsableFrames(map))
  BY <1>3, UsableFramesFinite, FS_Bijection DEF ExistsBijection
<1>6. IsFiniteSet(Numbers) /\ Cardinality(Numbers) = UsableSize(map)
  BY <1>5, SizeIsNumberOfFrames
<1>. QED  BY <1>4, <1>6 DEF Numbers

-----------------------------------------------------------------------------
(* The order of the frames.                                                *)

(* The frames of one region in a row. *)
RowOf(map, n) ==
    IF map[n].usable
    THEN [k \in 1 .. map[n].end - map[n].start |-> map[n].start + k - 1]
    ELSE << >>

(* What the first calls of an instance return, as many as the first n      *)
(* regions have frames.                                                    *)
CallsUpTo(map, n) ==
    [k \in 1 .. Cardinality(FramesUpTo(map, n)) |-> AllocateFrame(map, k - 1)]

(* A function on 1 .. n is a sequence. *)
LEMMA FunctionIsSequence ==
  ASSUME NEW S, NEW n \in Nat, NEW f \in [1 .. n -> S]
  PROVE  f \in Seq(S) /\ Len(f) = n
OBVIOUS

(* Before the k-th frame of a region come the frames of the regions before *)
(* it and the k - 1 frames before it in its own.                           *)
LEMMA PlaceInRegion ==
  ASSUME NEW map, IsMemoryMap(map), NEW n \in DOMAIN map, map[n].usable,
         NEW k \in 1 .. map[n].end - map[n].start
  PROVE  AllocateFrame(map, Cardinality(FramesUpTo(map, n - 1)) + k - 1)
            = map[n].start + k - 1
<1>. DEFINE f == map[n].start + k - 1
            u == <<n, f>>
            Numbers == map[n].start .. f - 1
            Own == {<<n, g>> : g \in Numbers}
            pair == [g \in Numbers |-> <<n, g>>]
            Earlier == FramesUpTo(map, n - 1)
<1>1. /\ n \in Nat /\ map[n].start \in Nat /\ map[n].end \in Nat /\ k \in Nat
      /\ 1 <= k /\ k <= map[n].end - map[n].start
  BY RegionType
<1>2. f \in map[n].start .. map[n].end - 1 /\ f \in Nat
  BY <1>1
<1>3. ASSUME NEW g \in map[n].start .. map[n].end - 1 PROVE <<n, g>> \in UsableFrames(map)
  <2>1. <<n, g>> \in {<<n, h>> : h \in map[n].start .. map[n].end - 1}
    OBVIOUS
  <2>. QED  BY <2>1 DEF UsableFrames
<1>4. u \in UsableFrames(map)
  BY <1>2, <1>3
<1>5. Before(map, u) = Earlier \cup Own
  <2>1. ASSUME NEW v \in Before(map, u) PROVE v \in Earlier \cup Own
    <3>1. v \in UsableFrames(map) /\ (v[1] < n \/ (v[1] = n /\ v[2] < f))
      BY DEF Before
    <3>2. /\ v = <<v[1], v[2]>> /\ v[1] \in Nat /\ v[2] \in Nat
          /\ v[2] \in map[v[1]].start .. map[v[1]].end - 1
      BY <3>1, UsableFrameType
    <3>3. CASE v[1] < n
      BY <1>1, <3>1, <3>2, <3>3 DEF FramesUpTo
    <3>4. CASE v[1] = n /\ v[2] < f
      <4>1. v[2] \in Numbers
        BY <1>1, <1>2, <3>2, <3>4
      <4>. QED  BY <3>2, <3>4, <4>1
    <3>. QED  BY <3>1, <3>3, <3>4
  <2>2. ASSUME NEW v \in Earlier PROVE v \in Before(map, u)
    <3>1. v \in UsableFrames(map) /\ v[1] <= n - 1
      BY DEF FramesUpTo
    <3>2. v[1] \in Nat
      BY <3>1, UsableFrameType
    <3>. QED  BY <1>1, <3>1, <3>2 DEF Before
  <2>3. ASSUME NEW g \in Numbers PROVE <<n, g>> \in Before(map, u)
    <3>1. g \in map[n].start .. map[n].end - 1 /\ g < f
      BY <1>1, <1>2
    <3>2. <<n, g>> \in UsableFrames(map)
      BY <1>3, <3>1
    <3>. QED  BY <3>1, <3>2 DEF Before
  <2>. QED  BY <2>1, <2>2, <2>3
<1>6. Earlier \cap Own = {}
  BY <1>1 DEF FramesUpTo
<1>7. IsFiniteSet(Own) /\ Cardinality(Own) = k - 1
  <2>1. map[n].start \in Int /\ f - 1 \in Int
    BY <1>1, <1>2
  <2>2. /\ IsFiniteSet(Numbers)
        /\ Cardinality(Numbers) = IF map[n].start > f - 1 THEN 0
                                  ELSE (f - 1) - map[n].start + 1
    BY <2>1, FS_Interval
  <2>3. Cardinality(Numbers) = k - 1
    BY <1>1, <2>2
  <2>4. pair \in Bijection(Numbers, Own)
    <3>1. pair \in [Numbers -> Own]
      OBVIOUS
    <3>2. \A g, h \in Numbers : pair[g] = pair[h] => g = h
      OBVIOUS
    <3>3. \A v \in Own : \E g \in Numbers : pair[g] = v
      OBVIOUS
    <3>. HIDE DEF pair, Numbers, Own
    <3>. QED  BY <3>1, <3>2, <3>3 DEF Bijection, Injection, Surjection, IsInjective
  <2>. HIDE DEF pair, Numbers, Own
  <2>. QED  BY <2>2, <2>3, <2>4, FS_Bijection DEF ExistsBijection
<1>8. IsFiniteSet(Earlier) /\ Cardinality(Earlier) \in Nat
  <2>1. Earlier \subseteq UsableFrames(map)
    BY DEF FramesUpTo
  <2>2. IsFiniteSet(Earlier)
    BY <2>1, UsableFramesFinite, FS_Subset
  <2>. QED  BY <2>2, FS_CardinalityType
<1>9. Cardinality(Before(map, u)) = Cardinality(Earlier) + k - 1
  <2>. HIDE DEF Earlier, Own, u
  <2>1. Cardinality(Earlier \cup Own)
           = Cardinality(Earlier) + Cardinality(Own) - Cardinality(Earlier \cap Own)
    BY <1>7, <1>8, FS_Union
  <2>2. Cardinality(Earlier \cap Own) = 0
    BY <1>6, FS_EmptySet
  <2>. QED  BY <1>1, <1>5, <1>7, <1>8, <2>1, <2>2
<1>10. AllocateFrame(map, Cardinality(Before(map, u))) = u[2]
  <2>. HIDE DEF u
  <2>. QED  BY <1>4, EveryFrameHasAPlace
<1>11. u[2] = f
  OBVIOUS
<1>. HIDE DEF u
<1>. QED  BY <1>9, <1>10, <1>11

(* Each region adds its row to the calls. *)
LEMMA CallsGrow ==
  ASSUME NEW map, IsMemoryMap(map), NEW n \in DOMAIN map
  PROVE  CallsUpTo(map, n) = CallsUpTo(map, n - 1) \o RowOf(map, n)
<1>. DEFINE S == Nat \cup {None}
            c == Cardinality(FramesUpTo(map, n - 1))
            s == CallsUpTo(map, n - 1)
            t == RowOf(map, n)
            both == CallsUpTo(map, n)
<1>1. /\ Cardinality(FramesUpTo(map, n)) = c + SizeOf(map, n)
      /\ c \in Nat /\ SizeOf(map, n) \in Nat /\ c + SizeOf(map, n) \in Nat
  BY SizeGrows
<1>2. \A k \in Nat : AllocateFrame(map, k) \in S
  BY AllocateFrameIsUsable
<1>3. s \in Seq(S) /\ Len(s) = c
  <2>1. s \in [1 .. c -> S]
    BY <1>1, <1>2 DEF CallsUpTo
  <2>. HIDE DEF s, c, S
  <2>. QED  BY <1>1, <2>1, FunctionIsSequence
<1>4. both \in Seq(S) /\ Len(both) = c + SizeOf(map, n)
  <2>1. both \in [1 .. c + SizeOf(map, n) -> S]
    BY <1>1, <1>2 DEF CallsUpTo
  <2>. HIDE DEF both, c, S
  <2>. QED  BY <1>1, <2>1, FunctionIsSequence
<1>5. t \in Seq(S) /\ Len(t) = SizeOf(map, n)
  <2>1. map[n].start \in Nat /\ map[n].end \in Nat
    BY RegionType
  <2>2. CASE map[n].usable
    <3>1. t \in [1 .. SizeOf(map, n) -> S]
      BY <2>1, <2>2 DEF RowOf, SizeOf
    <3>. HIDE DEF t, S
    <3>. QED  BY <1>1, <3>1, FunctionIsSequence
  <2>3. CASE ~map[n].usable
    BY <2>3 DEF RowOf, SizeOf
  <2>. QED  BY <2>2, <2>3
<1>6. /\ s \o t \in Seq(S)
      /\ Len(s \o t) = c + SizeOf(map, n)
      /\ \A i \in 1 .. c + SizeOf(map, n) : (s \o t)[i] = IF i <= c THEN s[i] ELSE t[i - c]
  <2>. HIDE DEF s, t, c, S
  <2>1. /\ s \o t \in Seq(S)
        /\ Len(s \o t) = Len(s) + Len(t)
        /\ \A i \in 1 .. Len(s) + Len(t) :
              (s \o t)[i] = IF i <= Len(s) THEN s[i] ELSE t[i - Len(s)]
    BY <1>3, <1>5, ConcatProperties
  <2>. QED  BY <1>3, <1>5, <2>1
<1>7. ASSUME NEW i \in 1 .. c + SizeOf(map, n) PROVE both[i] = (s \o t)[i]
  <2>1. i \in Nat /\ i >= 1 /\ i <= c + SizeOf(map, n)
    BY <1>1
  <2>2. both[i] = AllocateFrame(map, i - 1)
    BY <1>1 DEF CallsUpTo
  <2>3. CASE i <= c
    <3>1. i \in 1 .. c
      BY <1>1, <2>1, <2>3
    <3>2. s[i] = AllocateFrame(map, i - 1)
      BY <3>1 DEF CallsUpTo
    <3>. HIDE DEF s, t, c, both
    <3>. QED  BY <1>6, <2>2, <2>3, <3>2
  <2>4. CASE i > c
    <3>1. i - c \in 1 .. SizeOf(map, n) /\ ~(i <= c)
      BY <1>1, <2>1, <2>4
    <3>2. map[n].usable /\ SizeOf(map, n) = map[n].end - map[n].start
      BY <3>1 DEF SizeOf
    <3>3. t[i - c] = map[n].start + (i - c) - 1
      BY <3>1, <3>2 DEF RowOf
    <3>4. AllocateFrame(map, c + (i - c) - 1) = map[n].start + (i - c) - 1
      <4>1. i - c \in 1 .. map[n].end - map[n].start
        BY <3>1, <3>2
      <4>. HIDE DEF c
      <4>. QED  BY <3>2, <4>1, PlaceInRegion DEF c
    <3>5. c + (i - c) - 1 = i - 1
      BY <1>1, <2>1
    <3>. HIDE DEF s, t, c, both
    <3>. QED  BY <1>6, <2>2, <3>1, <3>3, <3>4, <3>5
  <2>. HIDE DEF s, t, c, both
  <2>5. i <= c \/ i > c
    BY <1>1, <2>1
  <2>. QED  BY <2>3, <2>4, <2>5
<1>. HIDE DEF s, t, c, both, S
<1>8. both = s \o t
  BY <1>4, <1>6, <1>7, SeqEqual
<1>. QED  BY <1>8 DEF both, s, t

-----------------------------------------------------------------------------
(* Page tables.                                                            *)

(* What is a child of some of the tables. *)
LEMMA ChildIn ==
  ASSUME NEW T, NEW S, NEW f
  PROVE  f \in Children(T, S) <=> f # None /\ \E t \in S, i \in Index : f = T[t][i]
BY DEF Children

(* The levels of the tables, each from the one above. *)
LEMMA LevelStep ==
  ASSUME NEW T
  PROVE  /\ Level(T, 4) = {P4}
         /\ \A l \in 1 .. 4 : Level(T, l - 1) = Children(T, Level(T, l))
<1>1. Level(T, 4) = {P4}
  BY DEF Level
<1>2. Level(T, 3) = Children(T, Level(T, 4))
  BY DEF Level
<1>3. Level(T, 2) = Children(T, Level(T, 3))
  BY DEF Level
<1>4. Level(T, 1) = Children(T, Level(T, 2))
  BY DEF Level
<1>5. Level(T, 0) = Children(T, Level(T, 1))
  BY DEF Level
<1>6. ASSUME NEW l \in 1 .. 4 PROVE Level(T, l - 1) = Children(T, Level(T, l))
  <2>1. l = 1 \/ l = 2 \/ l = 3 \/ l = 4
    OBVIOUS
  <2>. QED  BY <1>2, <1>3, <1>4, <1>5, <2>1
<1>. QED  BY <1>1, <1>6

(* The way of a page, each step from the one above. *)
LEMMA TableStep ==
  ASSUME NEW T, NEW p
  PROVE  /\ TableOf(T, p, 4) = P4
         /\ \A l \in 1 .. 4 : TableOf(T, p, l - 1) = Walk(T, TableOf(T, p, l), p, l)
<1>1. TableOf(T, p, 4) = P4
  BY DEF TableOf
<1>2. TableOf(T, p, 3) = Walk(T, TableOf(T, p, 4), p, 4)
  BY DEF TableOf
<1>3. TableOf(T, p, 2) = Walk(T, TableOf(T, p, 3), p, 3)
  BY DEF TableOf
<1>4. TableOf(T, p, 1) = Walk(T, TableOf(T, p, 2), p, 2)
  BY DEF TableOf
<1>5. TableOf(T, p, 0) = Walk(T, TableOf(T, p, 1), p, 1)
  BY DEF TableOf
<1>6. ASSUME NEW l \in 1 .. 4
      PROVE  TableOf(T, p, l - 1) = Walk(T, TableOf(T, p, l), p, l)
  <2>1. l = 1 \/ l = 2 \/ l = 3 \/ l = 4
    OBVIOUS
  <2>. QED  BY <1>2, <1>3, <1>4, <1>5, <2>1
<1>. QED  BY <1>1, <1>6

(* The levels are the tables in force and the frames they lead to. *)
LEMMA LevelsLinked ==
  ASSUME NEW T
  PROVE  /\ \A l \in 1 .. 4 : Level(T, l) \subseteq TablesIn(T)
         /\ \A l \in 0 .. 4 : Level(T, l) \subseteq LinkedIn(T)
         /\ TablesIn(T) \subseteq LinkedIn(T)
         /\ \A t \in TablesIn(T) : \E l \in 1 .. 4 : t \in Level(T, l)
         /\ \A t \in LinkedIn(T) : \E l \in 0 .. 4 : t \in Level(T, l)
         /\ P4 \in TablesIn(T)
<1>1. \A l \in 1 .. 4 : l \in 0 .. 4
  OBVIOUS
<1>2. P4 \in Level(T, 4) /\ 4 \in 1 .. 4
  BY LevelStep
<1>. QED  BY <1>1, <1>2 DEF TablesIn, LinkedIn

(* The index of a page at a level is one of a table. *)
LEMMA PageIndexType ==
  ASSUME NEW p, IsPage(p), NEW l \in 1 .. 4
  PROVE  PageIndex(p, l) \in Index /\ Prefix(p, l) \in Nat
<1>1. Entries \in Nat /\ Entries > 0
  BY BootAssumption
<1>2. \A x \in Nat : x \div Entries \in Nat /\ x % Entries \in 0 .. Entries - 1
  BY <1>1
<1>3. Prefix(p, l) \in Nat
  <2>1. p \in Nat /\ p \div Entries \in Nat
    BY <1>2 DEF IsPage
  <2>2. (p \div Entries) \div Entries \in Nat
    BY <1>2, <2>1
  <2>3. ((p \div Entries) \div Entries) \div Entries \in Nat
    BY <1>2, <2>2
  <2>4. l = 1 \/ l = 2 \/ l = 3 \/ l = 4
    OBVIOUS
  <2>. QED  BY <2>1, <2>2, <2>3, <2>4 DEF Prefix
<1>. QED  BY <1>2, <1>3 DEF PageIndex, Index

(* The way of a page leads through the levels. *)
LEMMA TableInLevel ==
  ASSUME NEW T, NEW p, IsPage(p), NEW l \in 0 .. 4
  PROVE  TableOf(T, p, l) \in Level(T, l) \cup {None}
<1>1. TableOf(T, p, 4) \in Level(T, 4) \cup {None}
  BY TableStep, LevelStep
<1>2. ASSUME NEW m \in 1 .. 4, TableOf(T, p, m) \in Level(T, m) \cup {None}
      PROVE  TableOf(T, p, m - 1) \in Level(T, m - 1) \cup {None}
  <2>1. PageIndex(p, m) \in Index
    BY PageIndexType
  <2>2. TableOf(T, p, m - 1) = Walk(T, TableOf(T, p, m), p, m)
    BY TableStep
  <2>3. Level(T, m - 1) = Children(T, Level(T, m))
    BY LevelStep
  <2>. QED  BY <1>2, <2>1, <2>2, <2>3 DEF Walk, Children
<1>3. TableOf(T, p, 3) \in Level(T, 3) \cup {None}
  BY <1>1, <1>2
<1>4. TableOf(T, p, 2) \in Level(T, 2) \cup {None}
  BY <1>3, <1>2
<1>5. TableOf(T, p, 1) \in Level(T, 1) \cup {None}
  BY <1>4, <1>2
<1>6. TableOf(T, p, 0) \in Level(T, 0) \cup {None}
  BY <1>5, <1>2
<1>7. l = 0 \/ l = 1 \/ l = 2 \/ l = 3 \/ l = 4
  OBVIOUS
<1>. QED  BY <1>1, <1>3, <1>4, <1>5, <1>6, <1>7

(* In a tree no frame is at two levels. *)
LEMMA LevelsDisjoint ==
  ASSUME NEW T, IsTree(T), NEW k \in 0 .. 4, NEW l \in 0 .. 4, k < l
  PROVE  Level(T, k) \cap Level(T, l) = {}
<1>1. ASSUME NEW m \in 0 .. 3 PROVE Level(T, m) \cap Level(T, 4) = {}
  <2>1. m + 1 \in 1 .. 4 /\ (m + 1) - 1 = m
    OBVIOUS
  <2>2. Level(T, m) = Children(T, Level(T, m + 1)) /\ Level(T, m + 1) \subseteq TablesIn(T)
    BY <2>1, LevelStep, LevelsLinked
  <2>3. P4 \notin Level(T, m)
    BY <2>2 DEF Children, IsTree
  <2>. QED  BY <2>3, LevelStep
<1>2. ASSUME NEW m \in 1 .. 4, NEW n \in 1 .. 4, Level(T, m) \cap Level(T, n) = {}
      PROVE  Level(T, m - 1) \cap Level(T, n - 1) = {}
  <2>1. /\ Level(T, m - 1) = Children(T, Level(T, m)) /\ Level(T, m) \subseteq TablesIn(T)
        /\ Level(T, n - 1) = Children(T, Level(T, n)) /\ Level(T, n) \subseteq TablesIn(T)
    BY LevelStep, LevelsLinked
  <2>2. SUFFICES ASSUME NEW f \in Level(T, m - 1), f \in Level(T, n - 1) PROVE FALSE
    OBVIOUS
  <2>3. PICK t \in Level(T, m), i \in Index : f = T[t][i] /\ f # None
    BY <2>1 DEF Children
  <2>4. PICK u \in Level(T, n), j \in Index : f = T[u][j]
    BY <2>1, <2>2 DEF Children
  <2>5. t \in TablesIn(T) /\ u \in TablesIn(T) /\ T[t][i] # None /\ T[t][i] = T[u][j]
    BY <2>1, <2>3, <2>4
  <2>6. t = u
    BY <2>5 DEF IsTree
  <2>. QED  BY <1>2, <2>6
<1>3. \A m \in 0 .. 2 : Level(T, m) \cap Level(T, 3) = {}
  <2>1. ASSUME NEW m \in 0 .. 2 PROVE Level(T, m) \cap Level(T, 3) = {}
    <3>1. m + 1 \in 0 .. 3 /\ m + 1 \in 1 .. 4 /\ (m + 1) - 1 = m /\ 4 - 1 = 3 /\ 4 \in 1 .. 4
      OBVIOUS
    <3>. QED  BY <1>1, <1>2, <3>1
  <2>. QED  BY <2>1
<1>4. \A m \in 0 .. 1 : Level(T, m) \cap Level(T, 2) = {}
  <2>1. ASSUME NEW m \in 0 .. 1 PROVE Level(T, m) \cap Level(T, 2) = {}
    <3>1. m + 1 \in 0 .. 2 /\ m + 1 \in 1 .. 4 /\ (m + 1) - 1 = m /\ 3 - 1 = 2 /\ 3 \in 1 .. 4
      OBVIOUS
    <3>. QED  BY <1>3, <1>2, <3>1
  <2>. QED  BY <2>1
<1>5. Level(T, 0) \cap Level(T, 1) = {}
  <2>1. 1 \in 0 .. 1 /\ 1 \in 1 .. 4 /\ 2 \in 1 .. 4 /\ 1 - 1 = 0 /\ 2 - 1 = 1
    OBVIOUS
  <2>. QED  BY <1>4, <1>2, <2>1
<1>6. \/ l = 4 /\ k \in 0 .. 3
      \/ l = 3 /\ k \in 0 .. 2
      \/ l = 2 /\ k \in 0 .. 1
      \/ l = 1 /\ k = 0
  OBVIOUS
<1>. QED  BY <1>1, <1>3, <1>4, <1>5, <1>6

(* Frames that are not tables may change their contents. *)
LEMMA SameTables ==
  ASSUME NEW T, NEW U, \A t \in TablesIn(T) : U[t] = T[t]
  PROVE  /\ \A l \in 0 .. 4 : Level(U, l) = Level(T, l)
         /\ TablesIn(U) = TablesIn(T) /\ LinkedIn(U) = LinkedIn(T)
         /\ IsTree(T) => IsTree(U)
         /\ \A p, l : IsPage(p) /\ l \in 0 .. 4 => TableOf(U, p, l) = TableOf(T, p, l)
<1>1. ASSUME NEW l \in 1 .. 4, Level(U, l) = Level(T, l)
      PROVE  Level(U, l - 1) = Level(T, l - 1)
  <2>1. /\ Level(U, l - 1) = Children(U, Level(T, l))
        /\ Level(T, l - 1) = Children(T, Level(T, l))
    BY <1>1, LevelStep
  <2>2. Level(T, l) \subseteq TablesIn(T)
    BY LevelsLinked
  <2>3. \A t \in Level(T, l) : U[t] = T[t]
    BY <2>2
  <2>4. \A f : f \in Level(U, l - 1) <=> f \in Level(T, l - 1)
    BY <2>1, <2>3, ChildIn
  <2>. QED  BY <2>4
<1>2. Level(U, 4) = Level(T, 4)
  BY LevelStep
<1>3. Level(U, 3) = Level(T, 3)
  BY <1>1, <1>2
<1>4. Level(U, 2) = Level(T, 2)
  BY <1>1, <1>3
<1>5. Level(U, 1) = Level(T, 1)
  BY <1>1, <1>4
<1>6. Level(U, 0) = Level(T, 0)
  BY <1>1, <1>5
<1>7. ASSUME NEW l \in 0 .. 4 PROVE Level(U, l) = Level(T, l)
  <2>1. l = 0 \/ l = 1 \/ l = 2 \/ l = 3 \/ l = 4
    OBVIOUS
  <2>. QED  BY <1>2, <1>3, <1>4, <1>5, <1>6, <2>1
<1>8. \A l \in 1 .. 4 : Level(U, l) = Level(T, l)
  BY <1>7
<1>9. TablesIn(U) = TablesIn(T) /\ LinkedIn(U) = LinkedIn(T)
  BY <1>7, <1>8 DEF TablesIn, LinkedIn
<1>10. IsTree(T) => IsTree(U)
  BY <1>9 DEF IsTree
<1>11. ASSUME NEW p, IsPage(p), NEW l \in 1 .. 4, TableOf(U, p, l) = TableOf(T, p, l)
       PROVE  TableOf(U, p, l - 1) = TableOf(T, p, l - 1)
  <2>1. /\ TableOf(U, p, l - 1) = Walk(U, TableOf(T, p, l), p, l)
        /\ TableOf(T, p, l - 1) = Walk(T, TableOf(T, p, l), p, l)
    BY <1>11, TableStep
  <2>2. l \in 0 .. 4
    OBVIOUS
  <2>3. TableOf(T, p, l) \in TablesIn(T) \cup {None}
    BY <1>11, <2>2, TableInLevel, LevelsLinked
  <2>. QED  BY <2>1, <2>3 DEF Walk
<1>12. ASSUME NEW p, IsPage(p), NEW l \in 0 .. 4 PROVE TableOf(U, p, l) = TableOf(T, p, l)
  <2>1. TableOf(U, p, 4) = TableOf(T, p, 4)
    BY TableStep
  <2>2. TableOf(U, p, 3) = TableOf(T, p, 3)
    BY <1>11, <1>12, <2>1
  <2>3. TableOf(U, p, 2) = TableOf(T, p, 2)
    BY <1>11, <1>12, <2>2
  <2>4. TableOf(U, p, 1) = TableOf(T, p, 1)
    BY <1>11, <1>12, <2>3
  <2>5. TableOf(U, p, 0) = TableOf(T, p, 0)
    BY <1>11, <1>12, <2>4
  <2>6. l = 0 \/ l = 1 \/ l = 2 \/ l = 3 \/ l = 4
    OBVIOUS
  <2>. QED  BY <2>1, <2>2, <2>3, <2>4, <2>5, <2>6
<1>. QED  BY <1>7, <1>9, <1>10, <1>12

(* A page is given by its four digits. *)
LEMMA DigitsGivePage ==
  ASSUME NEW p, NEW q, IsPage(p), IsPage(q),
         \A l \in 1 .. 4 : PageIndex(p, l) = PageIndex(q, l)
  PROVE  p = q
<1>1. Entries \in Nat /\ Entries > 0
  BY BootAssumption
<1>2. ASSUME NEW x \in Nat, NEW y \in Nat,
             x \div Entries = y \div Entries, x % Entries = y % Entries
      PROVE  x = y
  BY <1>1, <1>2, SMTT(30)
<1>3. /\ Prefix(p, 1) = p /\ Prefix(q, 1) = q
      /\ Prefix(p, 2) = p \div Entries /\ Prefix(q, 2) = q \div Entries
      /\ Prefix(p, 3) = Prefix(p, 2) \div Entries /\ Prefix(q, 3) = Prefix(q, 2) \div Entries
      /\ Prefix(p, 4) = Prefix(p, 3) \div Entries /\ Prefix(q, 4) = Prefix(q, 3) \div Entries
  BY DEF Prefix
<1>4. \A l \in 1 .. 4 : Prefix(p, l) \in Nat /\ Prefix(q, l) \in Nat
  BY PageIndexType
<1>5. \A l \in 1 .. 4 : Prefix(p, l) % Entries = Prefix(q, l) % Entries
  BY DEF PageIndex
<1>6. Prefix(p, 4) = Prefix(q, 4)
  <2>1. Prefix(p, 4) \in 0 .. Entries - 1 /\ Prefix(q, 4) \in 0 .. Entries - 1
    BY DEF IsPage, Index
  <2>2. Prefix(p, 4) % Entries = Prefix(p, 4) /\ Prefix(q, 4) % Entries = Prefix(q, 4)
    BY <1>1, <2>1
  <2>. QED  BY <1>5, <2>2
<1>7. Prefix(p, 3) = Prefix(q, 3)
  BY <1>2, <1>3, <1>4, <1>5, <1>6
<1>8. Prefix(p, 2) = Prefix(q, 2)
  BY <1>2, <1>3, <1>4, <1>5, <1>7
<1>9. Prefix(p, 1) = Prefix(q, 1)
  BY <1>2, <1>3, <1>4, <1>5, <1>8
<1>. QED  BY <1>3, <1>9

(* In a tree two pages that meet have had the same indexes before. *)
LEMMA OneWayToTable ==
  ASSUME NEW T, IsTree(T), NEW p, NEW q, IsPage(p), IsPage(q), NEW l \in 0 .. 4,
         TableOf(T, p, l) # None, TableOf(T, p, l) = TableOf(T, q, l)
  PROVE  \A m \in l + 1 .. 4 : PageIndex(p, m) = PageIndex(q, m)
<1>. DEFINE Meet(k) == TableOf(T, p, k) # None /\ TableOf(T, p, k) = TableOf(T, q, k)
<1>1. ASSUME NEW k \in 0 .. 3, Meet(k)
      PROVE  Meet(k + 1) /\ PageIndex(p, k + 1) = PageIndex(q, k + 1)
  <2>. DEFINE t == TableOf(T, p, k + 1)
              u == TableOf(T, q, k + 1)
              i == PageIndex(p, k + 1)
              j == PageIndex(q, k + 1)
  <2>1. k + 1 \in 1 .. 4 /\ k + 1 \in 0 .. 4 /\ (k + 1) - 1 = k
    OBVIOUS
  <2>2. TableOf(T, p, k) = Walk(T, t, p, k + 1) /\ TableOf(T, q, k) = Walk(T, u, q, k + 1)
    BY <2>1, TableStep
  <2>3. i \in Index /\ j \in Index
    BY <2>1, PageIndexType
  <2>4. t \in Level(T, k + 1) \cup {None} /\ u \in Level(T, k + 1) \cup {None}
    BY <2>1, TableInLevel
  <2>5. Level(T, k + 1) \subseteq TablesIn(T)
    BY <2>1, LevelsLinked
  <2>. HIDE DEF t, u, i, j
  <2>6. /\ t # None /\ u # None
        /\ TableOf(T, p, k) = T[t][i] /\ TableOf(T, q, k) = T[u][j]
    BY <1>1, <2>2 DEF Walk, i, j
  <2>7. t \in TablesIn(T) /\ u \in TablesIn(T) /\ T[t][i] # None /\ T[t][i] = T[u][j]
    BY <1>1, <2>4, <2>5, <2>6
  <2>8. t = u /\ i = j
    BY <2>3, <2>7 DEF IsTree
  <2>. QED  BY <2>6, <2>8 DEF t, u, i, j
<1>2. Meet(l)
  OBVIOUS
<1>. HIDE DEF Meet
<1>3. CASE l = 4
  BY <1>3
<1>4. CASE l = 3
  <2>1. PageIndex(p, 4) = PageIndex(q, 4)
    BY <1>1, <1>2, <1>4
  <2>. QED  BY <1>4, <2>1
<1>5. CASE l = 2
  <2>1. Meet(3) /\ PageIndex(p, 3) = PageIndex(q, 3)
    BY <1>1, <1>2, <1>5
  <2>2. PageIndex(p, 4) = PageIndex(q, 4)
    BY <1>1, <2>1
  <2>3. \A m \in l + 1 .. 4 : m = 3 \/ m = 4
    BY <1>5
  <2>. QED  BY <2>1, <2>2, <2>3
<1>6. CASE l = 1
  <2>1. Meet(2) /\ PageIndex(p, 2) = PageIndex(q, 2)
    BY <1>1, <1>2, <1>6
  <2>2. Meet(3) /\ PageIndex(p, 3) = PageIndex(q, 3)
    BY <1>1, <2>1
  <2>3. PageIndex(p, 4) = PageIndex(q, 4)
    BY <1>1, <2>2
  <2>4. \A m \in l + 1 .. 4 : m = 2 \/ m = 3 \/ m = 4
    BY <1>6
  <2>. QED  BY <2>1, <2>2, <2>3, <2>4
<1>7. CASE l = 0
  <2>1. Meet(1) /\ PageIndex(p, 1) = PageIndex(q, 1)
    BY <1>1, <1>2, <1>7
  <2>2. Meet(2) /\ PageIndex(p, 2) = PageIndex(q, 2)
    BY <1>1, <2>1
  <2>3. Meet(3) /\ PageIndex(p, 3) = PageIndex(q, 3)
    BY <1>1, <2>2
  <2>4. PageIndex(p, 4) = PageIndex(q, 4)
    BY <1>1, <2>3
  <2>5. \A m \in l + 1 .. 4 : m = 1 \/ m = 2 \/ m = 3 \/ m = 4
    BY <1>7
  <2>. QED  BY <2>1, <2>2, <2>3, <2>4, <2>5
<1>8. l = 0 \/ l = 1 \/ l = 2 \/ l = 3 \/ l = 4
  OBVIOUS
<1>. QED  BY <1>3, <1>4, <1>5, <1>6, <1>7, <1>8

(* No two pages have the same frame. *)
LEMMA OnePagePerFrame ==
  ASSUME NEW T, IsTree(T), NEW p, NEW q, IsPage(p), IsPage(q),
         TableOf(T, p, 0) # None, TableOf(T, p, 0) = TableOf(T, q, 0)
  PROVE  p = q
<1>1. \A m \in 0 + 1 .. 4 : PageIndex(p, m) = PageIndex(q, m)
  BY OneWayToTable
<1>. QED  BY <1>1, DigitsGivePage

(* T grows into U: the empty entry i of table t, at level l, gets frame g, *)
(* which is empty if it is a table.                                        *)
Grown(T, U, l, t, i, g) ==
    /\ t \in Level(T, l) /\ i \in Index /\ T[t][i] = None
    /\ g # None /\ g \notin LinkedIn(T)
    /\ U[t][i] = g
    /\ \A s \in TablesIn(T), j \in Index : s # t \/ j # i => U[s][j] = T[s][j]
    /\ l > 1 => \A j \in Index : U[g][j] = None

(* What then happens to level n, and to the way of page p at level n. *)
LevelGrown(T, U, l, g, n) ==
    Level(U, n) = IF n = l - 1 THEN Level(T, n) \cup {g} ELSE Level(T, n)
WayGrown(T, U, l, t, i, g, p, n) ==
    TableOf(U, p, n) = IF n = l - 1 /\ TableOf(T, p, l) = t /\ PageIndex(p, l) = i
                       THEN g ELSE TableOf(T, p, n)

(* A table has one level. *)
LEMMA OneLevel ==
  ASSUME NEW T, IsTree(T), NEW k \in 0 .. 4, NEW l \in 0 .. 4, k # l,
         NEW t \in Level(T, l), NEW s \in Level(T, k)
  PROVE  s # t
<1>1. CASE k < l
  BY <1>1, LevelsDisjoint
<1>2. CASE l < k
  BY <1>2, LevelsDisjoint
<1>. QED  BY <1>1, <1>2

(* The new frame is a child of t, and no other level changes. *)
LEMMA GrownLevels ==
  ASSUME NEW T, NEW U, IsTree(T), NEW l \in 1 .. 4, NEW t, NEW i, NEW g,
         Grown(T, U, l, t, i, g), NEW n \in 0 .. 4
  PROVE  LevelGrown(T, U, l, g, n)
<1>. DEFINE Good(m) == Level(U, m) = IF m = l - 1 THEN Level(T, m) \cup {g} ELSE Level(T, m)
<1>1. ASSUME NEW m \in 1 .. 4, Good(m) PROVE Good(m - 1)
  <2>1. /\ Level(U, m - 1) = Children(U, Level(U, m))
        /\ Level(T, m - 1) = Children(T, Level(T, m))
        /\ Level(T, m) \subseteq TablesIn(T)
    BY LevelStep, LevelsLinked
  <2>2. m \in 0 .. 4 /\ l \in 0 .. 4 /\ t \in Level(T, l)
    BY DEF Grown
  <2>3. ASSUME m # l PROVE \A s \in Level(T, m), j \in Index : U[s][j] = T[s][j]
    <3>1. \A s \in Level(T, m) : s # t
      BY <2>2, <2>3, OneLevel
    <3>. QED  BY <2>1, <3>1 DEF Grown
  <2>4. CASE m = l
    <3>1. Level(U, m) = Level(T, m)
      BY <1>1, <2>4
    <3>2. \A f : f \in Level(U, m - 1) <=> f \in Level(T, m - 1) \/ f = g
      <4>1. ASSUME NEW f \in Level(U, m - 1) PROVE f \in Level(T, m - 1) \/ f = g
        <5>1. PICK s \in Level(T, m), j \in Index : f = U[s][j] /\ f # None
          BY <2>1, <3>1, ChildIn
        <5>2. CASE s = t /\ j = i
          BY <5>1, <5>2 DEF Grown
        <5>3. CASE s # t \/ j # i
          <6>1. U[s][j] = T[s][j]
            BY <2>1, <5>3 DEF Grown
          <6>. QED  BY <2>1, <5>1, <6>1, ChildIn
        <5>. QED  BY <5>2, <5>3
      <4>2. ASSUME NEW f \in Level(T, m - 1) PROVE f \in Level(U, m - 1)
        <5>1. PICK s \in Level(T, m), j \in Index : f = T[s][j] /\ f # None
          BY <2>1, ChildIn
        <5>2. s # t \/ j # i
          BY <5>1 DEF Grown
        <5>3. U[s][j] = T[s][j]
          BY <2>1, <5>2 DEF Grown
        <5>. QED  BY <2>1, <3>1, <5>1, <5>3, ChildIn
      <4>3. g \in Level(U, m - 1)
        BY <2>1, <2>4, <3>1, ChildIn DEF Grown
      <4>. QED  BY <4>1, <4>2, <4>3
    <3>3. Level(U, m - 1) = Level(T, m - 1) \cup {g}
      BY <3>2
    <3>. QED  BY <2>4, <3>3
  <2>5. CASE m = l - 1
    <3>1. Level(U, m) = Level(T, m) \cup {g} /\ l > 1 /\ m # l /\ m - 1 # l - 1
      BY <1>1, <2>5
    <3>2. \A j \in Index : U[g][j] = None
      BY <3>1 DEF Grown
    <3>3. \A f : f \in Level(U, m - 1) <=> f \in Level(T, m - 1)
      BY <2>1, <2>3, <3>1, <3>2, ChildIn
    <3>4. Level(U, m - 1) = Level(T, m - 1)
      BY <3>3
    <3>. QED  BY <3>1, <3>4
  <2>6. CASE m # l /\ m # l - 1
    <3>1. Level(U, m) = Level(T, m) /\ m - 1 # l - 1
      BY <1>1, <2>6
    <3>2. \A f : f \in Level(U, m - 1) <=> f \in Level(T, m - 1)
      BY <2>1, <2>3, <2>6, <3>1, ChildIn
    <3>3. Level(U, m - 1) = Level(T, m - 1)
      BY <3>2
    <3>. QED  BY <3>1, <3>3
  <2>. QED  BY <2>4, <2>5, <2>6
<1>2. Good(4)
  BY LevelStep
<1>. HIDE DEF Good
<1>3. Good(3)
  BY <1>1, <1>2
<1>4. Good(2)
  BY <1>1, <1>3
<1>5. Good(1)
  BY <1>1, <1>4
<1>6. Good(0)
  BY <1>1, <1>5
<1>7. n = 0 \/ n = 1 \/ n = 2 \/ n = 3 \/ n = 4
  OBVIOUS
<1>8. Good(n)
  BY <1>2, <1>3, <1>4, <1>5, <1>6, <1>7
<1>. QED  BY <1>8 DEF Good, LevelGrown

(* What is in force after T has grown is what was, and the new frame; a    *)
(* tree stays a tree.                                                      *)
LEMMA GrownTree ==
  ASSUME NEW T, NEW U, IsTree(T), NEW l \in 1 .. 4, NEW t, NEW i, NEW g,
         Grown(T, U, l, t, i, g)
  PROVE  LinkedIn(U) = LinkedIn(T) \cup {g} /\ IsTree(U)
<1>1. ASSUME NEW m \in 0 .. 4, NEW f
      PROVE  f \in Level(U, m) <=> f \in Level(T, m) \/ (m = l - 1 /\ f = g)
  <2>1. LevelGrown(T, U, l, g, m)
    BY GrownLevels
  <2>. QED  BY <2>1 DEF LevelGrown
<1>2. l - 1 \in 0 .. 4 /\ \A m \in 1 .. 4 : m \in 0 .. 4
  OBVIOUS
<1>3. ASSUME NEW f PROVE f \in LinkedIn(U) <=> f \in LinkedIn(T) \/ f = g
  BY <1>1, <1>2 DEF LinkedIn
<1>4. ASSUME NEW s \in TablesIn(U) PROVE s \in TablesIn(T) \/ (s = g /\ l > 1)
  <2>1. PICK m \in 1 .. 4 : s \in Level(U, m)
    BY LevelsLinked
  <2>2. s \in Level(T, m) \/ (m = l - 1 /\ s = g)
    BY <1>1, <1>2, <2>1
  <2>. QED  BY <2>2, LevelsLinked
<1>5. ASSUME NEW s \in TablesIn(T), NEW j \in Index, T[s][j] # None PROVE T[s][j] \in LinkedIn(T)
  <2>1. PICK m \in 1 .. 4 : s \in Level(T, m)
    BY LevelsLinked
  <2>2. T[s][j] \in Level(T, m - 1) /\ m - 1 \in 0 .. 4
    BY <1>5, <2>1, LevelStep, ChildIn
  <2>. QED  BY <2>2, LevelsLinked
<1>6. P4 # None /\ P4 # g
  <2>1. P4 \in LinkedIn(T)
    BY LevelsLinked
  <2>. QED  BY <2>1, BootAssumption DEF Grown
<1>7. ASSUME NEW s \in TablesIn(U), NEW j \in Index, U[s][j] # None
      PROVE  \/ s = t /\ j = i /\ U[s][j] = g
             \/ s \in TablesIn(T) /\ U[s][j] = T[s][j] /\ U[s][j] # g
  <2>1. s \in TablesIn(T)
    BY <1>4, <1>7 DEF Grown
  <2>2. CASE s = t /\ j = i
    BY <2>2 DEF Grown
  <2>3. CASE s # t \/ j # i
    <3>1. U[s][j] = T[s][j]
      BY <2>1, <2>3 DEF Grown
    <3>. QED  BY <1>5, <1>7, <2>1, <3>1 DEF Grown
  <2>. QED  BY <2>2, <2>3
<1>8. ASSUME NEW s \in TablesIn(U), NEW r \in TablesIn(U), NEW j \in Index, NEW k \in Index,
             U[s][j] # None, U[s][j] = U[r][k]
      PROVE  s = r /\ j = k
  BY <1>7, <1>8 DEF IsTree
<1>9. ASSUME NEW s \in TablesIn(U), NEW j \in Index PROVE U[s][j] # P4
  BY <1>6, <1>7 DEF IsTree
<1>10. IsTree(U)
  BY <1>8, <1>9 DEF IsTree
<1>. QED  BY <1>3, <1>10

(* The ways of the pages stay what they are, but for the step through the  *)
(* new entry; what is below it leads nowhere yet.                          *)
LEMMA GrownWays ==
  ASSUME NEW T, NEW U, IsTree(T), NEW l \in 1 .. 4, NEW t, NEW i, NEW g,
         Grown(T, U, l, t, i, g), NEW p, IsPage(p), NEW m \in 0 .. 4
  PROVE  WayGrown(T, U, l, t, i, g, p, m)
<1>. DEFINE Through == TableOf(T, p, l) = t /\ PageIndex(p, l) = i
            Good(n) == TableOf(U, p, n) = IF n = l - 1 /\ Through THEN g ELSE TableOf(T, p, n)
<1>0. l \in 0 .. 4 /\ t \in Level(T, l)
  BY DEF Grown
<1>1. ASSUME NEW n \in 1 .. 4, Good(n) PROVE Good(n - 1)
  <2>1. /\ TableOf(U, p, n - 1) = Walk(U, TableOf(U, p, n), p, n)
        /\ TableOf(T, p, n - 1) = Walk(T, TableOf(T, p, n), p, n)
    BY TableStep
  <2>2. PageIndex(p, n) \in Index
    BY PageIndexType
  <2>3. n \in 0 .. 4 /\ TableOf(T, p, n) \in Level(T, n) \cup {None}
    BY TableInLevel
  <2>4. Level(T, n) \subseteq TablesIn(T)
    BY LevelsLinked
  <2>5. CASE n = l /\ Through
    <3>1. t # None
      <4>1. t \in TablesIn(T) /\ None \notin Level(T, l)
        <5>1. CASE l = 4
          BY <1>0, <5>1, LevelStep, LevelsLinked, BootAssumption
        <5>2. CASE l < 4
          <6>1. l + 1 \in 1 .. 4 /\ (l + 1) - 1 = l
            BY <5>2
          <6>. QED  BY <1>0, <6>1, LevelStep, LevelsLinked, ChildIn
        <5>. QED  BY <5>1, <5>2
      <4>. QED  BY <1>0, <4>1
    <3>2. TableOf(U, p, n) = t
      BY <1>1, <2>5
    <3>. QED  BY <2>1, <2>5, <3>1, <3>2 DEF Walk, Grown
  <2>6. CASE n = l /\ ~Through
    <3>1. TableOf(U, p, n) = TableOf(T, p, n)
      BY <1>1, <2>6
    <3>2. TableOf(T, p, n) # t \/ PageIndex(p, n) # i
      BY <2>6
    <3>3. Walk(U, TableOf(T, p, n), p, n) = Walk(T, TableOf(T, p, n), p, n)
      BY <2>2, <2>3, <2>4, <3>2 DEF Walk, Grown
    <3>. QED  BY <2>1, <2>6, <3>1, <3>3
  <2>7. CASE n = l - 1 /\ Through
    <3>1. TableOf(U, p, n) = g /\ l > 1 /\ n - 1 # l - 1
      BY <1>1, <2>7
    <3>2. TableOf(U, p, n - 1) = None
      BY <2>1, <2>2, <3>1 DEF Walk, Grown
    <3>3. TableOf(T, p, n) = Walk(T, t, p, l)
      BY <2>7, TableStep
    <3>4. TableOf(T, p, n) = None
      BY <2>7, <3>3 DEF Walk, Grown
    <3>. QED  BY <2>1, <3>1, <3>2, <3>4 DEF Walk
  <2>8. CASE n # l /\ ~(n = l - 1 /\ Through)
    <3>1. TableOf(U, p, n) = TableOf(T, p, n) /\ n - 1 # l - 1
      BY <1>1, <2>8
    <3>2. TableOf(T, p, n) # None => TableOf(T, p, n) # t
      BY <1>0, <2>3, <2>8, OneLevel
    <3>3. Walk(U, TableOf(T, p, n), p, n) = Walk(T, TableOf(T, p, n), p, n)
      BY <2>2, <2>3, <2>4, <3>2 DEF Walk, Grown
    <3>. QED  BY <2>1, <3>1, <3>3
  <2>. QED  BY <2>5, <2>6, <2>7, <2>8
<1>2. Good(4)
  BY TableStep
<1>. HIDE DEF Good
<1>3. Good(3)
  BY <1>1, <1>2
<1>4. Good(2)
  BY <1>1, <1>3
<1>5. Good(1)
  BY <1>1, <1>4
<1>6. Good(0)
  BY <1>1, <1>5
<1>7. m = 0 \/ m = 1 \/ m = 2 \/ m = 3 \/ m = 4
  OBVIOUS
<1>8. Good(m)
  BY <1>2, <1>3, <1>4, <1>5, <1>6, <1>7
<1>. QED  BY <1>8 DEF Good, WayGrown

(* No frame in force is None, in tables that hold frames. *)
LEMMA NoneNotLinked ==
  ASSUME NEW T
  PROVE  None \notin LinkedIn(T)
<1>1. ASSUME NEW l \in 0 .. 4 PROVE None \notin Level(T, l)
  <2>1. CASE l = 4
    BY <2>1, LevelStep, BootAssumption
  <2>2. CASE l < 4
    <3>1. l + 1 \in 1 .. 4 /\ (l + 1) - 1 = l
      BY <2>2
    <3>2. Level(T, l) = Children(T, Level(T, l + 1))
      BY <3>1, LevelStep
    <3>. QED  BY <3>2, ChildIn
  <2>. QED  BY <2>1, <2>2
<1>. QED  BY <1>1, LevelsLinked

(* What is in force are frames of the machine. *)
LEMMA LinkedAreFrames ==
  ASSUME NEW T \in [Frames -> [Index -> Frames \cup {None}]]
  PROVE  LinkedIn(T) \subseteq Frames
<1>1. Level(T, 4) \subseteq Frames
  BY LevelStep, BootAssumption
<1>2. ASSUME NEW l \in 1 .. 4, Level(T, l) \subseteq Frames
      PROVE  Level(T, l - 1) \subseteq Frames
  <2>1. Level(T, l - 1) = Children(T, Level(T, l))
    BY LevelStep
  <2>2. ASSUME NEW f \in Level(T, l - 1) PROVE f \in Frames
    <3>1. PICK t \in Level(T, l), i \in Index : f = T[t][i] /\ f # None
      BY <2>1, ChildIn
    <3>2. T[t] \in [Index -> Frames \cup {None}]
      BY <1>2
    <3>. QED  BY <3>1, <3>2
  <2>. QED  BY <2>2
<1>3. Level(T, 3) \subseteq Frames
  BY <1>1, <1>2
<1>4. Level(T, 2) \subseteq Frames
  BY <1>2, <1>3
<1>5. Level(T, 1) \subseteq Frames
  BY <1>2, <1>4
<1>6. Level(T, 0) \subseteq Frames
  BY <1>2, <1>5
<1>7. ASSUME NEW l \in 0 .. 4 PROVE Level(T, l) \subseteq Frames
  <2>1. l = 0 \/ l = 1 \/ l = 2 \/ l = 3 \/ l = 4
    OBVIOUS
  <2>. QED  BY <1>1, <1>3, <1>4, <1>5, <1>6, <2>1
<1>. QED  BY <1>7 DEF LinkedIn

(* The frame of a page is not a table. *)
LEMMA FrameIsNoTable ==
  ASSUME NEW T, IsTree(T), NEW p, IsPage(p)
  PROVE  TableOf(T, p, 0) \notin TablesIn(T)
<1>1. SUFFICES ASSUME TableOf(T, p, 0) \in TablesIn(T) PROVE FALSE
  OBVIOUS
<1>2. PICK l \in 1 .. 4 : TableOf(T, p, 0) \in Level(T, l)
  BY <1>1, LevelsLinked
<1>3. l \in 0 .. 4 /\ 0 \in 0 .. 4 /\ 0 # l
  OBVIOUS
<1>4. TableOf(T, p, 0) # None
  BY <1>2, <1>3, NoneNotLinked, LevelsLinked
<1>5. TableOf(T, p, 0) \in Level(T, 0)
  BY <1>3, <1>4, TableInLevel
<1>. QED  BY <1>2, <1>3, <1>5, OneLevel

(* A table linked on the way of a page changes the translation of no page. *)
LEMMA TableMapsNothing ==
  ASSUME NEW T, NEW U, IsTree(T), NEW l \in 2 .. 4, NEW t, NEW i, NEW g,
         Grown(T, U, l, t, i, g), NEW p, IsPage(p)
  PROVE  TableOf(U, p, 0) = TableOf(T, p, 0)
<1>1. l \in 1 .. 4 /\ 0 \in 0 .. 4 /\ 0 # l - 1
  OBVIOUS
<1>2. WayGrown(T, U, l, t, i, g, p, 0)
  BY <1>1, GrownWays
<1>. QED  BY <1>1, <1>2 DEF WayGrown

(* A frame linked in the level-1 table of page q is the frame of q, and of *)
(* no other page.                                                          *)
LEMMA FrameMapsOnePage ==
  ASSUME NEW T, NEW U, IsTree(T), NEW q, IsPage(q), NEW g,
         Grown(T, U, 1, TableOf(T, q, 1), PageIndex(q, 1), g), NEW p, IsPage(p)
  PROVE  /\ TableOf(U, p, 0) = IF p = q THEN g ELSE TableOf(T, p, 0)
         /\ TableOf(T, q, 0) = None
<1>. DEFINE t == TableOf(T, q, 1)
            i == PageIndex(q, 1)
<1>1. 1 \in 1 .. 4 /\ 1 \in 0 .. 4 /\ 0 \in 0 .. 4 /\ 0 = 1 - 1
  OBVIOUS
<1>2. WayGrown(T, U, 1, t, i, g, p, 0)
  BY <1>1, GrownWays
<1>3. t # None /\ T[t][i] = None
  <2>1. t \in Level(T, 1) /\ T[t][i] = None
    BY DEF Grown
  <2>. QED  BY <1>1, <2>1, NoneNotLinked, LevelsLinked
<1>4. TableOf(T, q, 0) = Walk(T, t, q, 1)
  BY <1>1, TableStep
<1>5. TableOf(T, q, 0) = None
  BY <1>3, <1>4 DEF Walk
<1>6. TableOf(T, p, 1) = t /\ PageIndex(p, 1) = i => p = q
  <2>. SUFFICES ASSUME TableOf(T, p, 1) = t, PageIndex(p, 1) = i PROVE p = q
    OBVIOUS
  <2>1. \A m \in 1 + 1 .. 4 : PageIndex(p, m) = PageIndex(q, m)
    BY <1>1, <1>3, OneWayToTable
  <2>2. \A m \in 1 .. 4 : m = 1 \/ m \in 1 + 1 .. 4
    OBVIOUS
  <2>3. \A m \in 1 .. 4 : PageIndex(p, m) = PageIndex(q, m)
    BY <2>1, <2>2
  <2>. QED  BY <2>3, DigitsGivePage
<1>7. TableOf(U, p, 0) = IF TableOf(T, p, 1) = t /\ PageIndex(p, 1) = i
                         THEN g ELSE TableOf(T, p, 0)
  BY <1>1, <1>2 DEF WayGrown
<1>. HIDE DEF t, i
<1>8. CASE p = q
  <2>1. TableOf(T, p, 1) = t /\ PageIndex(p, 1) = i
    BY <1>8 DEF t, i
  <2>. QED  BY <1>5, <1>7, <1>8, <2>1
<1>9. CASE p # q
  BY <1>5, <1>6, <1>7, <1>9
<1>. QED  BY <1>8, <1>9

-----------------------------------------------------------------------------
(* The place of the heap: whole pages, and the page behind it the next. *)
LEMMA HeapPlace ==
  /\ HeapFirst \in Nat /\ HeapLast \in Nat /\ HeapFirst <= HeapLast
  /\ PageBehindHeap = HeapLast + 1
<1>. DEFINE a == HEAP_START \div PageSize
            b == HEAP_SIZE \div PageSize
<1>1. /\ PageSize \in Nat /\ PageSize > 0 /\ HEAP_START \in Nat
      /\ HEAP_SIZE \in Nat /\ HEAP_SIZE > 0
      /\ HEAP_START % PageSize = 0 /\ HEAP_SIZE % PageSize = 0
  BY HeapAssumption
<1>2. a \in Nat /\ b \in Nat
  BY <1>1
<1>3. HEAP_START = PageSize * a /\ HEAP_SIZE = PageSize * b
  BY <1>1
<1>. HIDE DEF a, b
<1>4. b > 0
  BY <1>1, <1>2, <1>3
<1>5. HEAP_START + HEAP_SIZE = PageSize * (a + b)
  BY <1>1, <1>2, <1>3
<1>6. (HEAP_START + HEAP_SIZE) \div PageSize = a + b
  <2>1. \A q \in Nat, d \in Nat : d > 0 => (d * q) \div d = q
    BY SMTT(30)
  <2>. QED  BY <1>1, <1>2, <1>5, <2>1
<1>7. (HEAP_START + HEAP_SIZE - 1) \div PageSize = a + b - 1
  <2>1. ASSUME NEW q \in Nat, NEW d \in Nat, NEW r \in Nat, r < d,
               NEW x \in Nat, x = d * q + r
        PROVE  x \div d = q
    BY <2>1, SMTT(30)
  <2>. DEFINE c == a + b - 1
              r == PageSize - 1
              x == HEAP_START + HEAP_SIZE - 1
  <2>2. c \in Nat /\ r \in Nat /\ r < PageSize /\ x \in Nat
    BY <1>1, <1>2, <1>4
  <2>3. x = PageSize * c + r
    BY <1>1, <1>2, <1>5
  <2>. HIDE DEF c, r, x
  <2>4. x \div PageSize = c
    BY <1>1, <2>1, <2>2, <2>3
  <2>. QED  BY <2>4 DEF x, c
<1>8. HeapFirst = a /\ HeapLast = a + b - 1 /\ PageBehindHeap = a + b
  BY <1>6, <1>7 DEF HeapFirst, HeapLast, PageBehindHeap, a
<1>. QED  BY <1>2, <1>4, <1>8

(* What an instance of the allocator hands out. *)
LEMMA FrameType ==
  ASSUME memory_map \in MemoryMaps, NEW n \in Nat, Frame(n) # None
  PROVE  /\ Frame(n) \in Usable /\ Frame(n) \in Frames
         /\ n \in 0 .. Cardinality(UsableFrames(memory_map))
         /\ \A m \in Nat : m # n => Frame(m) # Frame(n)
<1>1. IsMemoryMap(memory_map) /\ UsableIn(memory_map) \subseteq Frames
  BY BootAssumption
<1>2. AllocateFrame(memory_map, n) # None
  BY DEF Frame
<1>3. PICK u \in UsableFrames(memory_map) : AllocateFrame(memory_map, n) = u[2]
  BY <1>1, <1>2, FrameAtPlace
<1>4. n < Cardinality(UsableFrames(memory_map)) /\ Cardinality(UsableFrames(memory_map)) \in Nat
  BY <1>1, <1>2, FrameAtPlace, UsableFramesFinite, FS_CardinalityType
<1>5. AllocateFrame(memory_map, n) \in UsableIn(memory_map)
  BY <1>3 DEF UsableIn
<1>6. \A m \in Nat : m # n => AllocateFrame(memory_map, m) # AllocateFrame(memory_map, n)
  BY <1>1, <1>2, NeverTheSameFrame
<1>. QED  BY <1>1, <1>4, <1>5, <1>6 DEF Frame, Usable

(* Everybody asks for pages. *)
LEMMA PagesArePages ==
  ASSUME NEW p \in HeapPages \cup ClientPages \cup {PageBehindHeap}
  PROVE  IsPage(p) /\ p \in Nat
BY HeapAssumption DEF IsPage

(* No call in progress has the page None. *)
LEMMA JobIsNotIdle ==
  ASSUME NEW j, j.page \in Nat
  PROVE  j # Idle
BY NoneIsNoFrame DEF Idle

LEMMA InvInit == Init => Inv
<1>. SUFFICES ASSUME Init PROVE Inv
  OBVIOUS
<1>1. PICK garbage \in {None, P4} :
         tables = [f \in Frames |-> IF f \in DOMAIN BootTables THEN BootTables[f] ELSE Fill(garbage)]
  BY DEF Init
<1>2. TypeOK
  <2>1. garbage \in Frames \cup {None}
    BY BootAssumption
  <2>2. Fill(garbage) \in [Index -> Frames \cup {None}]
    BY <2>1 DEF Fill
  <2>3. \A f \in DOMAIN BootTables : BootTables[f] \in [Index -> Frames \cup {None}]
    BY BootAssumption
  <2>4. tables \in [Frames -> [Index -> Frames \cup {None}]]
    BY <1>1, <2>2, <2>3
  <2>5. 0 \in 0 .. HeapLast + 1 - HeapFirst
    BY HeapPlace
  <2>. QED  BY <2>4, <2>5, CallsAssumption DEF Init, TypeOK
<1>3. \A t \in TablesIn(BootTables) : tables[t] = BootTables[t]
  BY <1>1, BootAssumption
<1>4. /\ LinkedIn(tables) = LinkedIn(BootTables)
      /\ IsTree(tables)
      /\ \A p, l : IsPage(p) /\ l \in 0 .. 4 => TableOf(tables, p, l) = TableOf(BootTables, p, l)
  BY <1>3, SameTables, BootAssumption
<1>5. FutureFramesFree
  <2>1. ASSUME NEW n \in next .. Cardinality(UsableFrames(memory_map)) PROVE Frame(n) \notin Linked
    <3>1. memory_map \in MemoryMaps /\ n \in Nat
      BY UsableFramesFinite, FS_CardinalityType, BootAssumption DEF Init
    <3>2. CASE Frame(n) = None
      BY <3>2, NoneNotLinked DEF Linked
    <3>3. CASE Frame(n) # None
      <4>1. Frame(n) \in UsableIn(memory_map)
        BY <3>1, <3>3, FrameType DEF Usable
      <4>. QED  BY <1>4, <3>1, <4>1, BootAssumption DEF Linked
    <3>. QED  BY <3>2, <3>3
  <2>. QED  BY <2>1 DEF FutureFramesFree
<1>6. HeapSoFar
  <2>1. TranslateAddr(PageBehindHeap) = None
    BY <1>4, PagesArePages, HeapAssumption DEF TranslateAddr
  <2>2. HeapFirst .. HeapFirst + heap - 1 = {}
    BY HeapPlace DEF Init
  <2>. QED  BY <2>1, <2>2 DEF HeapSoFar, Init
<1>. QED  BY <1>2, <1>4, <1>5, <1>6 DEF Inv, Init, JobOnItsWay, FrameInHand

(* The parts of the invariant that only look at the tables stay true when  *)
(* no table changes.                                                       *)
LEMMA SameWays ==
  ASSUME Inv, \A t \in TablesIn(tables) : tables'[t] = tables[t]
  PROVE  /\ IsTree(tables') /\ LinkedIn(tables') = Linked
         /\ \A p, l : IsPage(p) /\ l \in 0 .. 4 => TableOf(tables', p, l) = TableOf(tables, p, l)
BY SameTables DEF Inv, Linked

(* allocate_frame and the start of map_to: a page not yet mapped, and      *)
(* nobody uses the frames to come.                                         *)
LEMMA BeginKeepsInv ==
  ASSUME Inv, NEW page \in HeapPages \cup ClientPages, Begin(page), job = Idle,
         boot \in {"mapping", "ready"}, boot = "mapping" => page = HeapFirst + heap,
         \A n \in next .. Cardinality(UsableFrames(memory_map)) : Frame(n) \notin Linked,
         calls' \in 0 .. MaxCalls
  PROVE  Inv'
<1>1. /\ memory_map' = memory_map /\ tables' = tables /\ heap' = heap
      /\ MEMORY_INFO' = MEMORY_INFO /\ lost' = lost /\ next' = next + 1
      /\ memory_map \in MemoryMaps /\ next \in Nat
  BY DEF Begin, Inv, TypeOK
<1>2. page \in Nat /\ IsPage(page)
  BY PagesArePages
<1>3. CASE Frame(next) = None
  <2>1. job' = Idle /\ boot' = (IF boot = "mapping" THEN "panicked" ELSE boot) /\ taken' = taken
    BY <1>3 DEF Begin, Fails
  <2>2. TypeOK'
    BY <1>1, <2>1 DEF Inv, TypeOK
  <2>3. HeapSoFar'
    BY <1>1, <2>1 DEF Inv, HeapSoFar, TranslateAddr
  <2>. QED  BY <1>1, <2>1, <2>2, <2>3 DEF Inv, JobOnItsWay, FrameInHand, FutureFramesFree
<1>4. CASE Frame(next) # None
  <2>1. /\ job' = [page |-> page, frame |-> Frame(next), level |-> 4, table |-> P4]
        /\ boot' = boot /\ taken' = taken + 1
    BY <1>4 DEF Begin
  <2>2. /\ Frame(next) \in Usable
        /\ next \in 0 .. Cardinality(UsableFrames(memory_map))
    BY <1>1, <1>4, FrameType
  <2>3. TypeOK'
    <3>1. P4 \in Frames
      BY BootAssumption
    <3>2. job' \in [page : Nat, frame : Usable, level : 1 .. 4, table : Frames]
      BY <1>2, <2>1, <2>2, <3>1
    <3>3. Usable' = Usable
      BY <1>1 DEF Usable
    <3>. QED  BY <1>1, <2>1, <3>2, <3>3 DEF Inv, TypeOK
  <2>4. JobOnItsWay'
    <3>1. TableOf(tables, page, 4) = P4
      BY TableStep
    <3>. QED  BY <1>1, <2>1, <3>1 DEF JobOnItsWay
  <2>5. FrameInHand'
    <3>1. Frame(next) \notin Linked
      BY <1>1, <2>2
    <3>2. next \in 0 .. next' - 1
      BY <1>1
    <3>3. Linked' = Linked /\ Frame(next) = AllocateFrame(memory_map', next)
      BY <1>1 DEF Linked, Frame
    <3>. QED  BY <2>1, <3>1, <3>2, <3>3 DEF FrameInHand, Frame
  <2>6. FutureFramesFree'
    <3>1. ASSUME NEW n \in next + 1 .. Cardinality(UsableFrames(memory_map))
          PROVE  AllocateFrame(memory_map, n) \notin LinkedIn(tables)
      BY <1>1 DEF Frame, Linked
    <3>. QED  BY <1>1, <3>1 DEF FutureFramesFree, Frame, Linked
  <2>7. HeapSoFar'
    BY <1>1, <2>1 DEF Inv, HeapSoFar, TranslateAddr
  <2>. QED  BY <1>1, <2>3, <2>4, <2>5, <2>6, <2>7 DEF Inv
<1>. QED  BY <1>3, <1>4

(* Where a call in progress stands. *)
LEMMA JobType ==
  ASSUME Inv, job # Idle
  PROVE  /\ job \in [page : Nat, frame : Usable, level : 1 .. 4, table : Frames]
         /\ IsPage(job.page) /\ PageIndex(job.page, job.level) \in Index
         /\ job.table = TableOf(tables, job.page, job.level)
         /\ job.table \in Level(tables, job.level) /\ job.table \in Linked
         /\ Entry \in Frames \cup {None}
         /\ Entry = TableOf(tables, job.page, job.level - 1)
<1>1. job \in [page : Nat, frame : Usable, level : 1 .. 4, table : Frames]
  BY DEF Inv, TypeOK
<1>2. job.level \in 1 .. 4 /\ job.level \in 0 .. 4 /\ job.table \in Frames /\ job.table # None
  BY <1>1, BootAssumption
<1>3. job.page \in HeapPages \cup ClientPages /\ job.table = TableOf(tables, job.page, job.level)
  BY DEF Inv, JobOnItsWay
<1>4. IsPage(job.page)
  BY <1>3, PagesArePages
<1>5. PageIndex(job.page, job.level) \in Index
  BY <1>2, <1>4, PageIndexType
<1>6. job.table \in Level(tables, job.level)
  BY <1>2, <1>3, <1>4, TableInLevel
<1>7. job.table \in Linked
  BY <1>2, <1>6, LevelsLinked DEF Linked
<1>8. tables[job.table] \in [Index -> Frames \cup {None}]
  BY <1>2 DEF Inv, TypeOK
<1>9. Entry = TableOf(tables, job.page, job.level - 1)
  <2>1. TableOf(tables, job.page, job.level - 1)
          = Walk(tables, TableOf(tables, job.page, job.level), job.page, job.level)
    BY <1>2, TableStep
  <2>. QED  BY <1>2, <1>3, <2>1 DEF Walk, Entry
<1>. QED  BY <1>1, <1>3, <1>4, <1>5, <1>6, <1>7, <1>8, <1>9 DEF Entry

(* create_next_table with a new table. *)
LEMMA CreateTableGrows ==
  ASSUME Inv, CreateTable
  PROVE  /\ Grown(tables, tables', job.level, job.table, PageIndex(job.page, job.level), Frame(next))
         /\ Frame(next) \in Usable /\ Frame(next) \in Frames
         /\ Frame(next) # job.frame
         /\ tables' \in [Frames -> [Index -> Frames \cup {None}]]
<1>. DEFINE g == Frame(next)
            t == job.table
            i == PageIndex(job.page, job.level)
<1>1. /\ job # Idle /\ job.level > 1 /\ tables[t][i] = None /\ g # None
      /\ tables' = [[tables EXCEPT ![t][i] = g] EXCEPT ![g] = Fill(None)]
  BY DEF CreateTable, Entry, SetEntry
<1>2. /\ job \in [page : Nat, frame : Usable, level : 1 .. 4, table : Frames]
      /\ i \in Index /\ t \in Level(tables, job.level) /\ t \in Linked /\ t \in Frames
  BY <1>1, JobType
<1>3. memory_map \in MemoryMaps /\ next \in Nat
  BY DEF Inv, TypeOK
<1>4. /\ g \in Usable /\ g \in Frames
      /\ next \in 0 .. Cardinality(UsableFrames(memory_map))
      /\ \A m \in Nat : m # next => Frame(m) # g
  BY <1>1, <1>3, FrameType
<1>5. g \notin Linked
  <2>1. next \in next .. Cardinality(UsableFrames(memory_map))
    BY <1>3, <1>4
  <2>. QED  BY <1>1, <2>1 DEF Inv, FutureFramesFree
<1>6. g # job.frame
  <2>1. PICK n \in 0 .. next - 1 : job.frame = Frame(n)
    BY <1>1 DEF Inv, FrameInHand
  <2>2. n \in Nat /\ n # next
    BY <1>3
  <2>. QED  BY <1>4, <2>1, <2>2
<1>7. tables \in [Frames -> [Index -> Frames \cup {None}]]
  BY DEF Inv, TypeOK
<1>8. Fill(None) \in [Index -> Frames \cup {None}] /\ \A j \in Index : Fill(None)[j] = None
  BY DEF Fill
<1>9. TablesIn(tables) \subseteq Linked /\ Linked \subseteq Frames
  BY <1>7, LevelsLinked, LinkedAreFrames DEF Linked
<1>. HIDE DEF g, t, i
<1>10. tables' \in [Frames -> [Index -> Frames \cup {None}]]
  BY <1>1, <1>2, <1>4, <1>7, <1>8
<1>11. tables'[t][i] = g /\ \A j \in Index : tables'[g][j] = None
  BY <1>1, <1>2, <1>4, <1>5, <1>7, <1>8
<1>12. ASSUME NEW s \in TablesIn(tables), NEW j \in Index, s # t \/ j # i
       PROVE  tables'[s][j] = tables[s][j]
  <2>1. s # g /\ s \in Frames
    BY <1>5, <1>9
  <2>. DEFINE V == [tables EXCEPT ![t][i] = g]
  <2>2. V[s][j] = tables[s][j]
    BY <1>2, <1>7, <1>12, <2>1
  <2>3. DOMAIN V = Frames /\ tables' = [V EXCEPT ![g] = Fill(None)]
    BY <1>1, <1>7
  <2>. HIDE DEF V
  <2>4. tables'[s] = V[s]
    BY <2>1, <2>3
  <2>. QED  BY <2>2, <2>4
<1>13. Grown(tables, tables', job.level, t, i, g)
  BY <1>1, <1>2, <1>5, <1>11, <1>12 DEF Grown, Linked
<1>. QED  BY <1>4, <1>6, <1>10, <1>13 DEF g, t, i

(* The entry of the page is set. *)
LEMMA MapFrameGrows ==
  ASSUME Inv, MapFrame
  PROVE  /\ Grown(tables, tables', 1, TableOf(tables, job.page, 1), PageIndex(job.page, 1), job.frame)
         /\ job.frame \in Usable /\ job.frame \in Frames
         /\ tables' \in [Frames -> [Index -> Frames \cup {None}]]
<1>. DEFINE g == job.frame
            t == job.table
            i == PageIndex(job.page, 1)
<1>1. /\ job # Idle /\ job.level = 1 /\ tables[t][i] = None
      /\ tables' = [tables EXCEPT ![t][i] = g]
  BY DEF MapFrame, Entry, SetEntry
<1>2. /\ job \in [page : Nat, frame : Usable, level : 1 .. 4, table : Frames]
      /\ i \in Index /\ t \in Level(tables, 1) /\ t \in Frames
      /\ t = TableOf(tables, job.page, 1)
  BY <1>1, JobType
<1>3. g \in Usable /\ g \in Frames /\ g # None
  <2>1. UsableIn(memory_map) \subseteq Frames
    BY BootAssumption DEF Inv, TypeOK
  <2>. QED  BY <1>2, <2>1, BootAssumption DEF Usable
<1>4. g \notin Linked
  BY <1>1 DEF Inv, FrameInHand
<1>5. tables \in [Frames -> [Index -> Frames \cup {None}]]
  BY DEF Inv, TypeOK
<1>. HIDE DEF g, t, i
<1>6. /\ tables' \in [Frames -> [Index -> Frames \cup {None}]]
      /\ tables'[t][i] = g
  BY <1>1, <1>2, <1>3, <1>5
<1>7. ASSUME NEW s \in TablesIn(tables), NEW j \in Index, s # t \/ j # i
      PROVE  tables'[s][j] = tables[s][j]
  <2>1. s \in Frames
    BY <1>5, LevelsLinked, LinkedAreFrames
  <2>. QED  BY <1>1, <1>2, <1>5, <1>7, <2>1
<1>8. Grown(tables, tables', 1, t, i, g)
  BY <1>1, <1>2, <1>3, <1>4, <1>6, <1>7 DEF Grown, Linked
<1>. QED  BY <1>2, <1>3, <1>6, <1>8 DEF g, t, i

(* One level down. *)
LEMMA JobStep ==
  ASSUME NEW F, NEW j \in [page : Nat, frame : F, level : 1 .. 4, table : Frames], j.level > 1,
         NEW t \in Frames, NEW k, k = [j EXCEPT !.level = j.level - 1, !.table = t]
  PROVE  /\ k \in [page : Nat, frame : F, level : 1 .. 4, table : Frames]
         /\ k.page = j.page /\ k.frame = j.frame /\ k.level = j.level - 1 /\ k.table = t
<1>1. j.level - 1 \in 1 .. 4
  OBVIOUS
<1>. QED  BY <1>1

(* The table of the next level is there. *)
LEMMA DescendKeepsInv ==
  ASSUME Inv, Descend
  PROVE  Inv'
<1>1. /\ job # Idle /\ job.level > 1 /\ Entry # None
      /\ job' = [job EXCEPT !.level = job.level - 1, !.table = Entry]
      /\ UNCHANGED <<memory_map, tables, next, heap, boot, MEMORY_INFO, calls, taken, lost>>
  BY DEF Descend
<1>2. /\ job \in [page : Nat, frame : Usable, level : 1 .. 4, table : Frames]
      /\ Entry \in Frames /\ Entry = TableOf(tables, job.page, job.level - 1)
  BY <1>1, JobType
<1>3. /\ job' \in [page : Nat, frame : Usable, level : 1 .. 4, table : Frames]
      /\ job'.page = job.page /\ job'.frame = job.frame
      /\ job'.level = job.level - 1 /\ job'.table = Entry
  BY <1>1, <1>2, JobStep
<1>4. job' # Idle
  BY <1>3, JobIsNotIdle
<1>5. TypeOK'
  BY <1>1, <1>3 DEF Inv, TypeOK, Usable
<1>6. JobOnItsWay'
  BY <1>1, <1>2, <1>3 DEF Inv, JobOnItsWay
<1>7. FrameInHand' /\ FutureFramesFree'
  BY <1>1, <1>3 DEF Inv, FrameInHand, FutureFramesFree, Frame, Linked
<1>8. HeapSoFar'
  BY <1>1 DEF Inv, HeapSoFar, TranslateAddr
<1>. QED  BY <1>1, <1>5, <1>6, <1>7, <1>8 DEF Inv

(* A new table on the way. *)
LEMMA CreateTableKeepsInv ==
  ASSUME Inv, CreateTable
  PROVE  Inv'
<1>. DEFINE g == Frame(next)
            t == job.table
            i == PageIndex(job.page, job.level)
            l == job.level
<1>1. /\ job # Idle /\ l > 1 /\ g # None
      /\ next' = next + 1 /\ taken' = taken + 1
      /\ job' = [job EXCEPT !.level = l - 1, !.table = g]
      /\ UNCHANGED <<memory_map, heap, boot, MEMORY_INFO, calls, lost>>
  BY DEF CreateTable
<1>2. /\ job \in [page : Nat, frame : Usable, level : 1 .. 4, table : Frames]
      /\ IsPage(job.page) /\ t = TableOf(tables, job.page, l)
  BY <1>1, JobType
<1>3. /\ Grown(tables, tables', l, t, i, g) /\ g \in Frames /\ g # job.frame
      /\ tables' \in [Frames -> [Index -> Frames \cup {None}]]
  BY CreateTableGrows
<1>4. IsTree(tables) /\ memory_map \in MemoryMaps /\ next \in Nat
  BY DEF Inv, TypeOK
<1>5. l \in 1 .. 4 /\ l \in 2 .. 4 /\ l - 1 \in 0 .. 4
  BY <1>1, <1>2
<1>6. IsTree(tables') /\ LinkedIn(tables') = LinkedIn(tables) \cup {g}
  <2>. HIDE DEF g, t, i, l
  <2>. QED  BY <1>3, <1>4, <1>5, GrownTree
<1>7. \A p : IsPage(p) => TableOf(tables', p, 0) = TableOf(tables, p, 0)
  BY <1>3, <1>4, <1>5, TableMapsNothing
<1>8. TableOf(tables', job.page, l - 1) = g
  <2>1. WayGrown(tables, tables', l, t, i, g, job.page, l - 1)
    BY <1>2, <1>3, <1>4, <1>5, GrownWays
  <2>. QED  BY <1>2, <2>1 DEF WayGrown
<1>9. /\ job' \in [page : Nat, frame : Usable, level : 1 .. 4, table : Frames]
      /\ job'.page = job.page /\ job'.frame = job.frame
      /\ job'.level = l - 1 /\ job'.table = g
  BY <1>1, <1>2, <1>3, JobStep
<1>10. TypeOK'
  BY <1>1, <1>3, <1>9 DEF Inv, TypeOK, Usable
<1>11. JobOnItsWay'
  BY <1>1, <1>8, <1>9 DEF Inv, JobOnItsWay
<1>12. FrameInHand'
  <2>1. job.frame \notin LinkedIn(tables) /\ \E n \in 0 .. next - 1 : job.frame = Frame(n)
    BY <1>1 DEF Inv, FrameInHand, Linked
  <2>2. \E n \in 0 .. next' - 1 : job.frame = Frame(n)
    BY <1>1, <1>4, <2>1
  <2>. QED  BY <1>1, <1>3, <1>6, <1>9, <2>1, <2>2 DEF FrameInHand, Frame, Linked
<1>13. FutureFramesFree'
  <2>1. Cardinality(UsableFrames(memory_map)) \in Nat
    BY <1>4, BootAssumption, UsableFramesFinite, FS_CardinalityType
  <2>2. ASSUME NEW n \in next + 1 .. Cardinality(UsableFrames(memory_map))
        PROVE  Frame(n) \notin LinkedIn(tables')
    <3>1. n \in next .. Cardinality(UsableFrames(memory_map)) /\ n \in Nat /\ n # next
      BY <1>4, <2>1
    <3>2. Frame(n) \notin LinkedIn(tables)
      BY <1>1, <3>1 DEF Inv, FutureFramesFree, Linked
    <3>3. Frame(n) # g
      BY <1>1, <1>4, <3>1, FrameType
    <3>. QED  BY <1>6, <3>2, <3>3
  <2>. QED  BY <1>1, <2>2 DEF FutureFramesFree, Frame, Linked
<1>14. HeapSoFar'
  <2>1. ASSUME NEW p \in HeapFirst .. HeapFirst + heap - 1 PROVE TableOf(tables', p, 0) # None
    <3>1. p \in HeapPages
      BY HeapPlace DEF Inv, TypeOK, HeapPages
    <3>2. IsPage(p)
      BY <3>1, PagesArePages
    <3>. QED  BY <1>7, <3>2 DEF Inv, HeapSoFar, TranslateAddr
  <2>2. TableOf(tables', PageBehindHeap, 0) = None
    BY <1>7, PagesArePages DEF Inv, HeapSoFar, TranslateAddr
  <2>. QED  BY <1>1, <2>1, <2>2 DEF Inv, HeapSoFar, TranslateAddr
<1>. QED  BY <1>6, <1>10, <1>11, <1>12, <1>13, <1>14 DEF Inv

(* The page gets its frame. *)
LEMMA MapFrameKeepsInv ==
  ASSUME Inv, MapFrame
  PROVE  Inv'
<1>. DEFINE g == job.frame
            q == job.page
<1>1. /\ job # Idle /\ job.level = 1 /\ job' = Idle
      /\ heap' = (IF boot = "mapping" THEN heap + 1 ELSE heap)
      /\ UNCHANGED <<memory_map, next, boot, MEMORY_INFO, calls, taken, lost>>
  BY DEF MapFrame
<1>2. job \in [page : Nat, frame : Usable, level : 1 .. 4, table : Frames] /\ IsPage(q)
  BY <1>1, JobType
<1>3. /\ Grown(tables, tables', 1, TableOf(tables, q, 1), PageIndex(q, 1), g) /\ g \in Frames
      /\ tables' \in [Frames -> [Index -> Frames \cup {None}]]
  BY MapFrameGrows
<1>4. IsTree(tables) /\ memory_map \in MemoryMaps /\ next \in Nat /\ 1 \in 1 .. 4
  BY DEF Inv, TypeOK
<1>5. IsTree(tables') /\ LinkedIn(tables') = LinkedIn(tables) \cup {g}
  BY <1>3, <1>4, GrownTree
<1>6. \A p : IsPage(p) => TableOf(tables', p, 0) = IF p = q THEN g ELSE TableOf(tables, p, 0)
  BY <1>2, <1>3, <1>4, FrameMapsOnePage
<1>7. q \in HeapPages \cup ClientPages /\ (boot = "mapping" => q = HeapFirst + heap)
  BY <1>1 DEF Inv, JobOnItsWay
<1>8. g # None
  BY <1>3, BootAssumption
<1>9. q # PageBehindHeap
  BY <1>7, HeapPlace, HeapAssumption DEF HeapPages
<1>10. heap \in 0 .. HeapLast + 1 - HeapFirst /\ heap' \in 0 .. HeapLast + 1 - HeapFirst
  <2>1. heap \in 0 .. HeapLast + 1 - HeapFirst
    BY DEF Inv, TypeOK
  <2>2. boot = "mapping" => heap # HeapLast + 1 - HeapFirst
    BY <1>7, <1>9, HeapPlace
  <2>. QED  BY <1>1, <2>1, <2>2, HeapPlace
<1>11. TypeOK'
  BY <1>1, <1>3, <1>10 DEF Inv, TypeOK, Usable
<1>12. FutureFramesFree'
  <2>1. Cardinality(UsableFrames(memory_map)) \in Nat
    BY <1>4, BootAssumption, UsableFramesFinite, FS_CardinalityType
  <2>2. PICK k \in 0 .. next - 1 : g = Frame(k)
    BY <1>1 DEF Inv, FrameInHand
  <2>3. ASSUME NEW n \in next .. Cardinality(UsableFrames(memory_map))
        PROVE  Frame(n) \notin LinkedIn(tables')
    <3>1. n \in Nat /\ k \in Nat /\ n # k
      BY <1>4, <2>1
    <3>2. Frame(n) # g
      BY <1>4, <1>8, <2>2, <3>1, FrameType
    <3>3. Frame(n) \notin LinkedIn(tables)
      BY <1>1 DEF Inv, FutureFramesFree, Linked
    <3>. QED  BY <1>5, <3>2, <3>3
  <2>. QED  BY <1>1, <2>3 DEF FutureFramesFree, Frame, Linked
<1>13. HeapSoFar'
  <2>. DEFINE h == heap'
  <2>0. h \in 0 .. HeapLast + 1 - HeapFirst
    BY <1>10
  <2>1. ASSUME NEW p \in HeapFirst .. HeapFirst + h - 1 PROVE TableOf(tables', p, 0) # None
    <3>1. p \in HeapPages
      <4>. HIDE DEF h
      <4>. QED  BY <2>0, HeapPlace DEF HeapPages
    <3>2. IsPage(p) /\ p \in Nat
      BY <3>1, PagesArePages
    <3>3. p = q \/ p \in HeapFirst .. HeapFirst + heap - 1
      <4>1. h = heap \/ (h = heap + 1 /\ q = HeapFirst + heap)
        BY <1>1, <1>7
      <4>. HIDE DEF h
      <4>. QED  BY <1>10, <2>0, <3>2, <4>1, HeapPlace
    <3>4. p \in HeapFirst .. HeapFirst + heap - 1 => TableOf(tables, p, 0) # None
      BY DEF Inv, HeapSoFar, TranslateAddr
    <3>. QED  BY <1>6, <1>8, <3>2, <3>3, <3>4
  <2>2. TableOf(tables', PageBehindHeap, 0) = None
    BY <1>6, <1>9, PagesArePages DEF Inv, HeapSoFar, TranslateAddr
  <2>. QED  BY <1>1, <1>10, <2>1, <2>2 DEF Inv, HeapSoFar, TranslateAddr
<1>. QED  BY <1>1, <1>5, <1>11, <1>12, <1>13 DEF Inv, JobOnItsWay, FrameInHand

(* A call that fails leaves everything as far as it is. *)
LEMMA FailureKeepsInv ==
  ASSUME Inv, NoFrameForTable \/ HugeParent \/ AlreadyMapped
  PROVE  Inv'
<1>1. /\ job' = Idle /\ boot' = (IF boot = "mapping" THEN "panicked" ELSE boot)
      /\ UNCHANGED <<memory_map, tables, heap, MEMORY_INFO, calls, taken>>
      /\ next' \in {next, next + 1} /\ lost' = lost + 1
  BY DEF NoFrameForTable, HugeParent, AlreadyMapped, Fails
<1>2. TypeOK'
  BY <1>1 DEF Inv, TypeOK
<1>3. HeapSoFar'
  BY <1>1 DEF Inv, HeapSoFar, TranslateAddr
<1>. QED  BY <1>1, <1>2, <1>3 DEF Inv, JobOnItsWay, FrameInHand, FutureFramesFree

(* Writing to a mapped page touches no table. *)
LEMMA WriteKeepsInv ==
  ASSUME Inv, NEW page \in HeapPages \cup ClientPages, job = Idle, job' = Idle, boot' = "ready",
         tables' = [tables EXCEPT ![TranslateAddr(page)] = Fill(P4)],
         HeapFirst + heap > HeapLast,
         memory_map' = memory_map, heap' = heap, calls' = calls, taken' = taken, lost' = lost,
         next' \in Nat, MEMORY_INFO' \in Nat \cup {None}
  PROVE  Inv'
<1>1. IsPage(page)
  BY PagesArePages
<1>2. tables \in [Frames -> [Index -> Frames \cup {None}]] /\ IsTree(tables)
  BY DEF Inv, TypeOK
<1>3. Fill(P4) \in [Index -> Frames \cup {None}]
  BY BootAssumption DEF Fill
<1>4. TypeOK'
  BY <1>2, <1>3 DEF Inv, TypeOK
<1>5. ASSUME NEW t \in TablesIn(tables) PROVE tables'[t] = tables[t]
  <2>1. t \in Frames
    BY <1>2, LevelsLinked, LinkedAreFrames
  <2>2. t # TranslateAddr(page)
    BY <1>1, <1>2, FrameIsNoTable DEF TranslateAddr
  <2>. QED  BY <1>2, <2>1, <2>2
<1>6. /\ IsTree(tables')
      /\ \A p : IsPage(p) => TableOf(tables', p, 0) = TableOf(tables, p, 0)
  <2>1. 0 \in 0 .. 4
    OBVIOUS
  <2>. QED  BY <1>5, <2>1, SameWays
<1>7. HeapSoFar'
  <2>1. ASSUME NEW p \in HeapFirst .. HeapFirst + heap - 1 PROVE TableOf(tables', p, 0) # None
    <3>1. p \in HeapPages
      BY HeapPlace DEF Inv, TypeOK, HeapPages
    <3>2. IsPage(p)
      BY <3>1, PagesArePages
    <3>. QED  BY <1>6, <3>2 DEF Inv, HeapSoFar, TranslateAddr
  <2>2. TableOf(tables', PageBehindHeap, 0) = None
    BY <1>6, PagesArePages DEF Inv, HeapSoFar, TranslateAddr
  <2>. QED  BY <2>1, <2>2 DEF HeapSoFar, TranslateAddr
<1>. QED  BY <1>4, <1>6, <1>7 DEF Inv, JobOnItsWay, FrameInHand, FutureFramesFree

(* Every step preserves the invariant: those of the boot by themselves,    *)
(* the later ones when the callers of map_page keep what its contract asks *)
(* of them.                                                                *)
LEMMA InvStep ==
  ASSUME Inv, [Next]_vars, KeepsContract \/ boot = "mapping"
  PROVE  Inv'
<1>1. CASE MapHeapPage
  <2>1. /\ boot = "mapping" /\ job = Idle /\ HeapFirst + heap <= HeapLast
        /\ Begin(HeapFirst + heap) /\ calls' = calls
    BY <1>1 DEF MapHeapPage
  <2>2. HeapFirst + heap \in HeapPages
    <3>1. heap \in 0 .. HeapLast + 1 - HeapFirst
      BY DEF Inv, TypeOK
    <3>. QED  BY <2>1, <3>1, HeapPlace DEF HeapPages
  <2>3. \A n \in next .. Cardinality(UsableFrames(memory_map)) : Frame(n) \notin Linked
    BY <2>1 DEF Inv, FutureFramesFree
  <2>4. calls' \in 0 .. MaxCalls
    BY <2>1 DEF Inv, TypeOK
  <2>. QED  BY <2>1, <2>2, <2>3, <2>4, BeginKeepsInv
<1>2. ASSUME NEW p \in ClientPages, MapPage(p) PROVE Inv'
  <2>1. /\ boot = "ready" /\ job = Idle /\ Begin(p)
        /\ \A n \in next .. Cardinality(UsableFrames(memory_map)) : Frame(n) \notin Linked
    <3>1. boot = "ready" /\ job = Idle /\ Begin(p)
      BY <1>2 DEF MapPage
    <3>2. KeepsContract
      BY <3>1
    <3>. QED  BY <1>2, <3>1, <3>2 DEF MapPage
  <2>2. calls' \in 0 .. MaxCalls
    BY <1>2, CallsAssumption DEF MapPage, Inv, TypeOK
  <2>. QED  BY <2>1, <2>2, BeginKeepsInv
<1>3. CASE MapTo
  BY <1>3, DescendKeepsInv, CreateTableKeepsInv, FailureKeepsInv, MapFrameKeepsInv DEF MapTo
<1>4. CASE HeapReady
  <2>1. /\ job = Idle /\ job' = Idle /\ boot' = "ready" /\ HeapFirst + heap > HeapLast
        /\ tables' = [tables EXCEPT ![TranslateAddr(HeapFirst)] = Fill(P4)]
        /\ memory_map' = memory_map /\ heap' = heap /\ calls' = calls
        /\ taken' = taken /\ lost' = lost /\ next' = 0
        /\ MEMORY_INFO' = UsableSize(memory_map)
    BY <1>4 DEF HeapReady
  <2>2. UsableSize(memory_map) \in Nat
    BY SizeIsNumberOfFrames, BootAssumption DEF Inv, TypeOK
  <2>3. HeapFirst \in HeapPages
    BY HeapPlace DEF HeapPages
  <2>. QED  BY <2>1, <2>2, <2>3, WriteKeepsInv
<1>5. ASSUME NEW p \in ClientPages, Write(p) PROVE Inv'
  <2>1. /\ boot = "ready" /\ boot' = boot /\ job = Idle /\ job' = Idle
        /\ tables' = [tables EXCEPT ![TranslateAddr(p)] = Fill(P4)]
        /\ memory_map' = memory_map /\ heap' = heap /\ calls' = calls
        /\ taken' = taken /\ lost' = lost /\ next' = next /\ MEMORY_INFO' = MEMORY_INFO
    BY <1>5 DEF Write
  <2>2. HeapFirst + heap > HeapLast
    BY <2>1 DEF Inv, HeapSoFar
  <2>3. next \in Nat /\ MEMORY_INFO \in Nat \cup {None}
    BY DEF Inv, TypeOK
  <2>. QED  BY <2>1, <2>2, <2>3, WriteKeepsInv
<1>6. CASE NewAllocator \/ TakeFrame
  <2>1. /\ boot = "ready" /\ job = Idle /\ next' \in {0, next + 1}
        /\ UNCHANGED <<memory_map, tables, job, heap, boot, MEMORY_INFO, calls, taken, lost>>
    BY <1>6 DEF NewAllocator, TakeFrame
  <2>2. TypeOK' /\ HeapSoFar'
    BY <2>1 DEF Inv, TypeOK, HeapSoFar, TranslateAddr
  <2>. QED  BY <2>1, <2>2 DEF Inv, JobOnItsWay, FrameInHand, FutureFramesFree
<1>7. CASE UNCHANGED vars
  <2>1. TypeOK' /\ HeapSoFar'
    BY <1>7 DEF vars, Inv, TypeOK, HeapSoFar, TranslateAddr, Usable
  <2>2. JobOnItsWay' /\ FrameInHand' /\ FutureFramesFree'
    BY <1>7 DEF vars, Inv, JobOnItsWay, FrameInHand, FutureFramesFree, Linked, Frame
  <2>. QED  BY <1>7, <2>1, <2>2 DEF vars, Inv
<1>. QED  BY <1>1, <1>2, <1>3, <1>4, <1>5, <1>6, <1>7 DEF Next

(* The invariant behind all that follows holds throughout, from whatever   *)
(* the bootloader handed over (init_heap, map_page).                       *)
THEOREM MemoryInvariant ==
  ASSUME KeepsContract
  PROVE  Spec => []Inv
<1>1. Inv /\ [Next]_vars => Inv'
  BY InvStep
<1>. QED  BY <1>1, InvInit, PTL DEF Spec

(* Type correctness of the machine (TypeOK). *)
THEOREM MemoryTypeOK ==
  ASSUME KeepsContract
  PROVE  Spec => []TypeOK
<1>1. Inv => TypeOK
  BY DEF Inv
<1>. QED  BY <1>1, MemoryInvariant, PTL

(* No frame has two uses (NoFrameShared): init_heap and map_page build     *)
(* page tables that are a tree, for every memory map and whatever the      *)
(* frames held before, as long as every caller of map_page brings an       *)
(* allocator of unused frames.                                             *)
THEOREM MemoryNoFrameShared ==
  ASSUME KeepsContract
  PROVE  Spec => []NoFrameShared
<1>1. Inv => NoFrameShared
  BY DEF Inv, NoFrameShared
<1>. QED  BY <1>1, MemoryInvariant, PTL

(* The heap ALLOCATOR is given is mapped from its first to its last page,  *)
(* and not beyond (HeapIsWhole), for every place and size of the heap.     *)
THEOREM MemoryHeapIsWhole ==
  ASSUME KeepsContract
  PROVE  Spec => []HeapIsWhole
<1>1. Inv => HeapIsWhole
  <2>. SUFFICES ASSUME Inv, boot = "ready" PROVE HeapIsWhole
    BY DEF HeapIsWhole
  <2>1. heap \in 0 .. HeapLast + 1 - HeapFirst /\ HeapFirst + heap > HeapLast
    BY DEF Inv, TypeOK, HeapSoFar
  <2>2. \A p \in HeapPages : p \in HeapFirst .. HeapFirst + heap - 1
    BY <2>1, HeapPlace DEF HeapPages
  <2>. QED  BY <2>2 DEF Inv, HeapSoFar, HeapIsWhole
<1>. QED  BY <1>1, MemoryInvariant, PTL

(* The SAFETY comment of init_heap is right, whatever callers of map_page  *)
(* do afterwards: the frame that map_to is given for a page of the heap is *)
(* linked nowhere when it is taken and until its entry is written, for     *)
(* every memory map and whatever its frames held (FreshFrameIsUnused while *)
(* the boot maps the heap).                                                *)
THEOREM InitHeapFrameIsUnused ==
  Spec => [](boot = "mapping" => FreshFrameIsUnused)
<1>1. Init => (boot = "mapping" => Inv)
  BY InvInit
<1>2. (boot = "mapping" => Inv) /\ [Next]_vars => (boot = "mapping" => Inv)'
  <2>. SUFFICES ASSUME boot = "mapping" => Inv, [Next]_vars, boot' = "mapping"
                PROVE  Inv'
    OBVIOUS
  <2>1. boot = "mapping"
    <3>1. CASE UNCHANGED vars
      BY <3>1 DEF vars
    <3>2. CASE Next
      BY <3>2 DEF Next, MapHeapPage, MapTo, HeapReady, NewAllocator, TakeFrame, MapPage, Write,
         Begin, Fails, Descend, CreateTable, NoFrameForTable, HugeParent, MapFrame, AlreadyMapped
    <3>. QED  BY <3>1, <3>2
  <2>. QED  BY <2>1, InvStep
<1>3. (boot = "mapping" => Inv) => (boot = "mapping" => FreshFrameIsUnused)
  BY DEF Inv, FrameInHand, FreshFrameIsUnused
<1>. QED  BY <1>1, <1>2, <1>3, PTL DEF Spec

(* A frame that is linked for the first time is counted. *)
LEMMA LinkedCount ==
  ASSUME Inv, NEW g \in Usable, g \notin LinkedIn(tables),
         LinkedIn(tables') = LinkedIn(tables) \cup {g}, memory_map' = memory_map
  PROVE  /\ Cardinality(Linked' \cap Usable') = Cardinality(Linked \cap Usable) + 1
         /\ Cardinality(Linked \cap Usable) \in Nat
<1>1. IsFiniteSet(Linked \cap Usable)
  <2>1. Usable \subseteq Frames /\ IsFiniteSet(Frames)
    BY BootAssumption DEF Inv, TypeOK, Usable
  <2>2. Linked \cap Usable \in SUBSET Frames
    BY <2>1
  <2>. QED  BY <2>1, <2>2, FS_Subset
<1>2. Linked' \cap Usable' = (Linked \cap Usable) \cup {g} /\ g \notin Linked \cap Usable
  BY DEF Linked, Usable
<1>. QED  BY <1>1, <1>2, FS_AddElement, FS_CardinalityType

(* Frames are never lost but by a call that fails, one each                *)
(* (FramesAccounted): every table made on the way of a failed call stays   *)
(* in force and is used by the next one.                                   *)
THEOREM MemoryFramesAccounted ==
  ASSUME KeepsContract
  PROVE  Spec => []FramesAccounted
<1>1. Init => FramesAccounted
  <2>. SUFFICES ASSUME Init PROVE FramesAccounted
    OBVIOUS
  <2>1. \A t \in TablesIn(BootTables) : tables[t] = BootTables[t]
    BY BootAssumption DEF Init
  <2>2. LinkedIn(tables) = LinkedIn(BootTables)
    BY <2>1, SameTables
  <2>3. Linked \cap Usable = {}
    BY <2>2, BootAssumption DEF Init, Linked, Usable
  <2>. QED  BY <2>3, FS_EmptySet DEF Init, FramesAccounted
<1>2. Inv /\ FramesAccounted /\ [Next]_vars => FramesAccounted'
  <2>. SUFFICES ASSUME Inv, FramesAccounted, [Next]_vars PROVE FramesAccounted'
    OBVIOUS
  <2>. DEFINE count == Cardinality(Linked \cap Usable)
  <2>0. /\ taken = count + lost + (IF job = Idle THEN 0 ELSE 1)
        /\ lost \in Nat /\ taken \in Nat /\ memory_map \in MemoryMaps /\ next \in Nat
        /\ count \in Nat
    <3>1. IsFiniteSet(Linked \cap Usable)
      <4>1. Usable \subseteq Frames /\ IsFiniteSet(Frames)
        BY BootAssumption DEF Inv, TypeOK, Usable
      <4>2. Linked \cap Usable \in SUBSET Frames
        BY <4>1
      <4>. QED  BY <4>1, <4>2, FS_Subset
    <3>. QED  BY <3>1, FS_CardinalityType DEF FramesAccounted, Inv, TypeOK
  <2>1. ASSUME NEW p \in HeapPages \cup ClientPages, job = Idle, Begin(p) PROVE FramesAccounted'
    <3>1. /\ lost' = lost /\ Linked' = Linked /\ Usable' = Usable
      BY <2>1 DEF Begin, Linked, Usable
    <3>2. CASE Frame(next) = None
      <4>1. job' = Idle /\ taken' = taken
        BY <2>1, <3>2 DEF Begin, Fails
      <4>. QED  BY <2>0, <2>1, <3>1, <4>1 DEF FramesAccounted
    <3>3. CASE Frame(next) # None
      <4>1. job'.page = p /\ taken' = taken + 1
        BY <2>1, <3>3 DEF Begin
      <4>2. job' # Idle
        BY <4>1, PagesArePages, JobIsNotIdle
      <4>. QED  BY <2>0, <2>1, <3>1, <4>1, <4>2 DEF FramesAccounted
    <3>. QED  BY <3>2, <3>3
  <2>2. CASE MapHeapPage
    <3>1. heap \in 0 .. HeapLast + 1 - HeapFirst /\ HeapFirst + heap <= HeapLast
      BY <2>2 DEF Inv, TypeOK, MapHeapPage
    <3>2. HeapFirst + heap \in HeapPages
      BY <3>1, HeapPlace DEF HeapPages
    <3>. QED  BY <2>1, <2>2, <3>2 DEF MapHeapPage
  <2>3. ASSUME NEW p \in ClientPages, MapPage(p) PROVE FramesAccounted'
    BY <2>1, <2>3 DEF MapPage
  <2>4. CASE Descend
    <3>1. /\ job # Idle /\ job.level > 1 /\ Entry # None
          /\ job' = [job EXCEPT !.level = job.level - 1, !.table = Entry]
          /\ taken' = taken /\ lost' = lost /\ Linked' = Linked /\ Usable' = Usable
      BY <2>4 DEF Descend, Linked, Usable
    <3>2. /\ job \in [page : Nat, frame : Usable, level : 1 .. 4, table : Frames]
          /\ Entry \in Frames
      BY <3>1, JobType
    <3>3. job'.page \in Nat
      BY <3>1, <3>2, JobStep
    <3>4. job' # Idle
      BY <3>3, JobIsNotIdle
    <3>. QED  BY <2>0, <3>1, <3>4 DEF FramesAccounted
  <2>5. CASE CreateTable
    <3>. DEFINE g == Frame(next)
                t == job.table
                i == PageIndex(job.page, job.level)
                l == job.level
    <3>1. /\ job # Idle /\ l > 1 /\ job' = [job EXCEPT !.level = l - 1, !.table = g]
          /\ taken' = taken + 1 /\ lost' = lost /\ memory_map' = memory_map
      BY <2>5 DEF CreateTable
    <3>2. /\ Grown(tables, tables', l, t, i, g) /\ g \in Usable /\ g \in Frames
      BY <2>5, CreateTableGrows
    <3>3. job \in [page : Nat, frame : Usable, level : 1 .. 4, table : Frames]
      BY <3>1, JobType
    <3>4. job'.page \in Nat
      BY <3>1, <3>2, <3>3, JobStep
    <3>5. job' # Idle
      BY <3>4, JobIsNotIdle
    <3>6. LinkedIn(tables') = LinkedIn(tables) \cup {g} /\ g \notin LinkedIn(tables)
      <4>1. l \in 1 .. 4 /\ IsTree(tables)
        BY <3>3 DEF Inv
      <4>. HIDE DEF g, t, i, l
      <4>. QED  BY <3>2, <4>1, GrownTree DEF Grown
    <3>7. Cardinality(Linked' \cap Usable') = count + 1
      BY <3>1, <3>2, <3>6, LinkedCount
    <3>. QED  BY <2>0, <3>1, <3>5, <3>7 DEF FramesAccounted
  <2>6. CASE MapFrame
    <3>. DEFINE g == job.frame
    <3>1. /\ job # Idle /\ job' = Idle /\ taken' = taken /\ lost' = lost
          /\ memory_map' = memory_map
      BY <2>6 DEF MapFrame
    <3>2. /\ Grown(tables, tables', 1, TableOf(tables, job.page, 1), PageIndex(job.page, 1), g)
          /\ g \in Usable
      BY <2>6, MapFrameGrows
    <3>3. LinkedIn(tables') = LinkedIn(tables) \cup {g} /\ g \notin LinkedIn(tables)
      <4>1. 1 \in 1 .. 4 /\ IsTree(tables)
        BY DEF Inv
      <4>. QED  BY <3>2, <4>1, GrownTree DEF Grown
    <3>4. Cardinality(Linked' \cap Usable') = count + 1
      BY <3>1, <3>2, <3>3, LinkedCount
    <3>. QED  BY <2>0, <3>1, <3>4 DEF FramesAccounted
  <2>7. CASE NoFrameForTable \/ HugeParent \/ AlreadyMapped
    <3>1. /\ job # Idle /\ job' = Idle /\ taken' = taken /\ lost' = lost + 1
          /\ Linked' = Linked /\ Usable' = Usable
      BY <2>7 DEF NoFrameForTable, HugeParent, AlreadyMapped, Fails, Linked, Usable
    <3>. QED  BY <2>0, <3>1 DEF FramesAccounted
  <2>8. ASSUME NEW p \in HeapPages \cup ClientPages, job' = job, taken' = taken, lost' = lost,
               memory_map' = memory_map,
               tables' = [tables EXCEPT ![TranslateAddr(p)] = Fill(P4)]
        PROVE  FramesAccounted'
    <3>1. ASSUME NEW t \in TablesIn(tables) PROVE tables'[t] = tables[t]
      <4>1. tables \in [Frames -> [Index -> Frames \cup {None}]] /\ IsTree(tables)
        BY DEF Inv, TypeOK
      <4>2. t \in Frames
        BY <4>1, LevelsLinked, LinkedAreFrames
      <4>3. t # TranslateAddr(p)
        BY <4>1, PagesArePages, FrameIsNoTable DEF TranslateAddr
      <4>. QED  BY <2>8, <4>1, <4>2, <4>3
    <3>2. LinkedIn(tables') = Linked
      BY <3>1, SameWays
    <3>. QED  BY <2>0, <2>8, <3>2 DEF FramesAccounted, Linked, Usable
  <2>9. CASE HeapReady
    <3>1. HeapFirst \in HeapPages
      BY HeapPlace DEF HeapPages
    <3>. QED  BY <2>8, <2>9, <3>1 DEF HeapReady
  <2>10. ASSUME NEW p \in ClientPages, Write(p) PROVE FramesAccounted'
    BY <2>8, <2>10 DEF Write
  <2>11. CASE NewAllocator \/ TakeFrame \/ UNCHANGED vars
    <3>1. UNCHANGED <<memory_map, tables, job, taken, lost>>
      BY <2>11 DEF NewAllocator, TakeFrame, vars
    <3>. QED  BY <3>1 DEF FramesAccounted, Linked, Usable
  <2>. QED  BY <2>2, <2>3, <2>4, <2>5, <2>6, <2>7, <2>9, <2>10, <2>11 DEF Next, MapTo
<1>. QED  BY <1>1, <1>2, MemoryInvariant, PTL DEF Spec

(* The frames in a row, as the code chains its iterators, are what the     *)
(* calls of one instance return, for every memory map.                     *)
LEMMA FlattenedIsCalls ==
  ASSUME IsMemoryMap(memory_map)
  PROVE  Flattened = CallsUpTo(memory_map, Len(memory_map))
<1>. DEFINE map == memory_map
            Row(s) == s = [n \in 0 .. Len(memory_map) |->
                              IF n = 0 THEN << >>
                              ELSE s[n - 1] \o
                                   (IF memory_map[n].usable
                                    THEN [k \in 1 .. memory_map[n].end - memory_map[n].start |->
                                             memory_map[n].start + k - 1]
                                    ELSE << >>)]
            given == [n \in 0 .. Len(map) |-> CallsUpTo(map, n)]
<1>1. DOMAIN map = 1 .. Len(map) /\ Len(map) \in Nat
  <2>. DEFINE Region == [start : Nat, end : Nat, usable : BOOLEAN]
  <2>1. map \in Seq(Region)
    BY DEF IsMemoryMap
  <2>. HIDE DEF Region
  <2>. QED  BY <2>1, LenProperties
<1>2. CallsUpTo(map, 0) = << >>
  <2>1. \A u \in UsableFrames(map) : u[1] \in 1 .. Len(map)
    BY <1>1, UsableFrameType
  <2>2. FramesUpTo(map, 0) = {}
    BY <1>1, <2>1 DEF FramesUpTo
  <2>3. Cardinality(FramesUpTo(map, 0)) = 0
    BY <2>2, FS_EmptySet
  <2>4. 1 .. 0 = {}
    OBVIOUS
  <2>. QED  BY <2>3, <2>4 DEF CallsUpTo
<1>3. ASSUME NEW n \in 0 .. Len(map), n # 0
      PROVE  /\ n - 1 \in 0 .. Len(map)
             /\ CallsUpTo(map, n) = CallsUpTo(map, n - 1) \o RowOf(map, n)
  <2>1. n \in DOMAIN map /\ n - 1 \in 0 .. Len(map)
    BY <1>1, <1>3
  <2>. QED  BY <2>1, CallsGrow
<1>4. Row(given)
  <2>1. ASSUME NEW n \in 0 .. Len(map)
        PROVE  given[n] = IF n = 0 THEN << >> ELSE given[n - 1] \o RowOf(map, n)
    <3>1. CASE n = 0
      BY <1>2, <3>1
    <3>2. CASE n # 0
      BY <1>3, <3>2
    <3>. QED  BY <3>1, <3>2
  <2>2. given = [n \in 0 .. Len(map) |->
                    IF n = 0 THEN << >> ELSE given[n - 1] \o RowOf(map, n)]
    <3>1. given = [n \in 0 .. Len(map) |-> given[n]]
      OBVIOUS
    <3>. HIDE DEF given
    <3>. QED  BY <2>1, <3>1
  <2>. HIDE DEF given
  <2>. QED  BY <2>2 DEF RowOf
<1>5. PICK s : Row(s) /\ Flattened = s[Len(map)]
  <2>1. Flattened = (CHOOSE s : Row(s))[Len(map)]
    BY DEF Flattened
  <2>. HIDE DEF Row
  <2>. QED  BY <1>4, <2>1
<1>6. ASSUME NEW n \in 0 .. Len(map)
      PROVE  s[n] = IF n = 0 THEN << >> ELSE s[n - 1] \o RowOf(map, n)
  BY <1>5 DEF RowOf
<1>7. \A n \in 0 .. Len(map) : s[n] = CallsUpTo(map, n)
  <2>. DEFINE Wrong == {n \in 0 .. Len(map) : s[n] # CallsUpTo(map, n)}
  <2>1. SUFFICES ASSUME Wrong # {} PROVE FALSE
    OBVIOUS
  <2>2. Wrong \in SUBSET Nat
    BY <1>1
  <2>3. PICK m \in Wrong : \A k \in Wrong : m <= k
    <3>. HIDE DEF Wrong
    <3>. QED  BY <2>1, <2>2, LeastNumber
  <2>4. m # 0
    BY <1>2, <1>6, <2>3
  <2>5. m - 1 \in 0 .. Len(map) /\ m - 1 \notin Wrong
    BY <1>1, <2>3, <2>4
  <2>6. s[m - 1] = CallsUpTo(map, m - 1)
    BY <2>5
  <2>. QED  BY <1>3, <1>6, <2>3, <2>4, <2>6
<1>8. Len(map) \in 0 .. Len(map)
  BY <1>1
<1>. QED  BY <1>5, <1>7, <1>8

(* The n-th call of an instance gets the n-th frame of the usable regions, *)
(* in the order of the memory map, across its borders and over empty ones, *)
(* and None from the end on (AllocateFrameIsNth), for every memory map.    *)
THEOREM MemoryAllocateFrameIsNth == Spec => []AllocateFrameIsNth
<1>. DEFINE Given == memory_map \in MemoryMaps
<1>1. Init => Given
  BY DEF Init
<1>2. Given /\ [Next]_vars => Given'
  BY DEF Next, MapHeapPage, MapPage, Begin, MapTo, Descend, CreateTable, NoFrameForTable,
     HugeParent, MapFrame, AlreadyMapped, HeapReady, NewAllocator, TakeFrame, Write, vars
<1>3. Given => AllocateFrameIsNth
  <2>. SUFFICES ASSUME Given, NEW n \in 0 .. Cardinality(Frames)
                PROVE  Frame(n) = IF n < Len(Flattened) THEN Flattened[n + 1] ELSE None
    BY DEF AllocateFrameIsNth
  <2>. DEFINE all == Cardinality(UsableFrames(memory_map))
              S == Nat \cup {None}
  <2>1. IsMemoryMap(memory_map) /\ IsFiniteSet(Frames)
    BY BootAssumption
  <2>2. n \in Nat /\ all \in Nat
    BY <2>1, UsableFramesFinite, FS_CardinalityType
  <2>3. FramesUpTo(memory_map, Len(memory_map)) = UsableFrames(memory_map)
    <3>1. \A u \in UsableFrames(memory_map) :
             u[1] \in Nat /\ u[1] <= Len(memory_map)
      <4>1. SUFFICES ASSUME NEW u \in UsableFrames(memory_map)
                     PROVE  u[1] \in Nat /\ u[1] <= Len(memory_map)
        OBVIOUS
      <4>2. u[1] \in DOMAIN memory_map /\ u[1] \in Nat
        BY <2>1, UsableFrameType
      <4>3. DOMAIN memory_map = 1 .. Len(memory_map) /\ Len(memory_map) \in Nat
        BY <2>1, <4>2, RegionType
      <4>. QED  BY <4>2, <4>3
    <3>. QED  BY <3>1 DEF FramesUpTo
  <2>4. Flattened = [k \in 1 .. all |-> AllocateFrame(memory_map, k - 1)]
    BY <2>1, <2>3, FlattenedIsCalls DEF CallsUpTo
  <2>5. Len(Flattened) = all
    <3>1. Flattened \in [1 .. all -> S]
      BY <2>1, <2>4, AllocateFrameIsUsable
    <3>. HIDE DEF all, S
    <3>. QED  BY <2>2, <3>1, FunctionIsSequence
  <2>6. CASE n < all
    <3>1. n + 1 \in 1 .. all /\ (n + 1) - 1 = n
      BY <2>2, <2>6
    <3>2. Flattened[n + 1] = AllocateFrame(memory_map, n)
      BY <2>4, <3>1
    <3>. QED  BY <2>5, <2>6, <3>2 DEF Frame
  <2>7. CASE ~(n < all)
    <3>1. AllocateFrame(memory_map, n) = None
      BY <2>1, <2>2, <2>7, FrameAtPlace
    <3>. QED  BY <2>5, <2>7, <3>1 DEF Frame
  <2>. QED  BY <2>6, <2>7
<1>. QED  BY <1>1, <1>2, <1>3, PTL DEF Spec

(* `mem` prints the number of frames there are to hand out                 *)
(* (MemReportsWhatExists), for every memory map: the filter and the sum in *)
(* memory::init agree with the iterator of usable_frames.                  *)
THEOREM MemoryMemReportsWhatExists == Spec => []MemReportsWhatExists
<1>. DEFINE Reported == memory_map \in MemoryMaps /\
                        (boot = "ready" => MEMORY_INFO = UsableSize(memory_map))
<1>1. Init => Reported
  BY DEF Init
<1>2. Reported /\ [Next]_vars => Reported'
  <2>. SUFFICES ASSUME Reported, [Next]_vars PROVE Reported'
    OBVIOUS
  <2>1. CASE HeapReady
    BY <2>1 DEF HeapReady
  <2>2. CASE MapHeapPage \/ (\E p \in ClientPages : MapPage(p))
    BY <2>2 DEF MapHeapPage, MapPage, Begin, Fails
  <2>3. CASE MapTo
    BY <2>3 DEF MapTo, Descend, CreateTable, NoFrameForTable, HugeParent, MapFrame,
       AlreadyMapped, Fails
  <2>4. CASE NewAllocator \/ TakeFrame \/ (\E p \in ClientPages : Write(p))
    BY <2>4 DEF NewAllocator, TakeFrame, Write
  <2>5. CASE UNCHANGED vars
    BY <2>5 DEF vars
  <2>. QED  BY <2>1, <2>2, <2>3, <2>4, <2>5 DEF Next
<1>3. Reported => MemReportsWhatExists
  <2>. SUFFICES ASSUME Reported, boot = "ready" PROVE MemReportsWhatExists
    BY DEF MemReportsWhatExists
  <2>. DEFINE n == Cardinality(Frames)
  <2>1. /\ IsMemoryMap(memory_map) /\ UsableIn(memory_map) \subseteq Frames /\ IsFiniteSet(Frames)
    BY BootAssumption
  <2>2. /\ Cardinality(UsableIn(memory_map)) = Cardinality(UsableFrames(memory_map))
        /\ Cardinality(UsableFrames(memory_map)) \in Nat
    <3>1. Cardinality(UsableFrames(memory_map)) \in Nat
      BY <2>1, UsableFramesFinite, FS_CardinalityType
    <3>2. Cardinality(UsableFrames(memory_map)) >= Cardinality(UsableFrames(memory_map))
      BY <3>1
    <3>. QED  BY <2>1, <3>1, <3>2, AllFramesAreHandedOut, SizeIsNumberOfFrames DEF UsableIn
  <2>3. n \in Nat /\ n >= Cardinality(UsableFrames(memory_map))
    BY <2>1, <2>2, FS_Subset, FS_CardinalityType
  <2>. HIDE DEF n
  <2>4. /\ {AllocateFrame(memory_map, k) : k \in 0 .. n} \ {None} = UsableIn(memory_map)
        /\ Cardinality(UsableIn(memory_map)) = UsableSize(memory_map)
    BY <2>1, <2>3, AllFramesAreHandedOut DEF UsableIn
  <2>5. {Frame(k) : k \in 0 .. n} = {AllocateFrame(memory_map, k) : k \in 0 .. n}
    BY DEF Frame
  <2>. QED  BY <2>4, <2>5 DEF MemReportsWhatExists, n
<1>. QED  BY <1>1, <1>2, <1>3, PTL DEF Spec

(* Only the step that sets the entry of a page changes the translation of  *)
(* a page, and only of that page.                                          *)
LEMMA OnlyMapFrameMaps ==
  ASSUME Inv, [Next]_vars, ~MapFrame, NEW p \in HeapPages \cup ClientPages
  PROVE  TableOf(tables', p, 0) = TableOf(tables, p, 0)
<1>0. IsPage(p) /\ IsTree(tables) /\ tables \in [Frames -> [Index -> Frames \cup {None}]]
  BY PagesArePages DEF Inv, TypeOK
<1>1. CASE tables' = tables
  BY <1>1
<1>2. CASE CreateTable
  <2>. DEFINE g == Frame(next)
              t == job.table
              i == PageIndex(job.page, job.level)
              l == job.level
  <2>1. Grown(tables, tables', l, t, i, g)
    BY <1>2, CreateTableGrows
  <2>2. l \in 2 .. 4
    <3>1. job # Idle /\ l > 1
      BY <1>2 DEF CreateTable
    <3>2. job \in [page : Nat, frame : Usable, level : 1 .. 4, table : Frames]
      BY <3>1, JobType
    <3>. QED  BY <3>1, <3>2
  <2>. HIDE DEF g, t, i, l
  <2>. QED  BY <1>0, <2>1, <2>2, TableMapsNothing
<1>3. ASSUME NEW q \in HeapPages \cup ClientPages,
             tables' = [tables EXCEPT ![TranslateAddr(q)] = Fill(P4)]
      PROVE  TableOf(tables', p, 0) = TableOf(tables, p, 0)
  <2>1. ASSUME NEW t \in TablesIn(tables) PROVE tables'[t] = tables[t]
    <3>1. t \in Frames
      BY <1>0, LevelsLinked, LinkedAreFrames
    <3>2. t # TranslateAddr(q)
      BY <1>0, PagesArePages, FrameIsNoTable DEF TranslateAddr
    <3>. QED  BY <1>0, <1>3, <3>1, <3>2
  <2>2. 0 \in 0 .. 4
    OBVIOUS
  <2>. QED  BY <1>0, <2>1, <2>2, SameWays
<1>4. CASE HeapReady
  <2>1. HeapFirst \in HeapPages
    BY HeapPlace DEF HeapPages
  <2>. QED  BY <1>3, <1>4, <2>1 DEF HeapReady
<1>5. CASE \E q \in ClientPages : Write(q)
  BY <1>3, <1>5 DEF Write
<1>6. tables' = tables \/ CreateTable \/ HeapReady \/ \E q \in ClientPages : Write(q)
  BY DEF Next, MapTo, MapHeapPage, MapPage, Begin, Descend, NoFrameForTable, HugeParent, AlreadyMapped,
         NewAllocator, TakeFrame, vars
<1>. QED  BY <1>1, <1>2, <1>4, <1>5, <1>6

(* map_page and init_heap implement the address space                      *)
(* (ImplementsAddressSpace): of all steps of a call only the last maps a   *)
(* page, the one asked for, to a frame no other page has, and no call ever *)
(* takes a mapping back.                                                   *)
THEOREM MemoryImplementsAddressSpace ==
  ASSUME KeepsContract
  PROVE  Spec => ImplementsAddressSpace
<1>. DEFINE Pages == HeapPages \cup ClientPages
            S == [p \in Pages |-> TranslateAddr(p)]
<1>1. Inv => S \in [Pages -> Frames \cup {None}]
  <2>. SUFFICES ASSUME Inv, NEW p \in Pages PROVE TranslateAddr(p) \in Frames \cup {None}
    OBVIOUS
  <2>1. IsPage(p) /\ 0 \in 0 .. 4 /\ tables \in [Frames -> [Index -> Frames \cup {None}]]
    BY PagesArePages DEF Inv, TypeOK
  <2>. QED  BY <2>1, TableInLevel, LevelsLinked, LinkedAreFrames DEF TranslateAddr
<1>2. Inv => \A p, q \in Pages : p # q /\ S[p] # None => S[p] # S[q]
  <2>. SUFFICES ASSUME Inv, NEW p \in Pages, NEW q \in Pages, p # q, TranslateAddr(p) # None
                PROVE  TranslateAddr(p) # TranslateAddr(q)
    OBVIOUS
  <2>1. IsPage(p) /\ IsPage(q) /\ IsTree(tables)
    BY PagesArePages DEF Inv
  <2>. QED  BY <2>1, OnePagePerFrame DEF TranslateAddr
<1>3. Inv => Space!Init
  BY <1>1, <1>2 DEF Space!Init
<1>4. Inv /\ [Next]_vars => [Space!Next]_S
  <2>. SUFFICES ASSUME Inv, [Next]_vars PROVE [Space!Next]_S
    OBVIOUS
  <2>1. CASE ~MapFrame
    <3>1. \A p \in Pages : TranslateAddr(p)' = TranslateAddr(p)
      BY <2>1, OnlyMapFrameMaps DEF TranslateAddr
    <3>2. S' = S
      BY <3>1
    <3>. QED  BY <3>2
  <2>2. CASE MapFrame
    <3>. DEFINE g == job.frame
                q == job.page
    <3>1. job # Idle
      BY <2>2 DEF MapFrame
    <3>2. IsPage(q) /\ q \in Pages /\ IsTree(tables)
      BY <3>1, JobType DEF Inv, JobOnItsWay
    <3>3. /\ Grown(tables, tables', 1, TableOf(tables, q, 1), PageIndex(q, 1), g)
          /\ g \in Frames
      BY <2>2, MapFrameGrows
    <3>4. ASSUME NEW p \in Pages
          PROVE  TableOf(tables', p, 0) = IF p = q THEN g ELSE TableOf(tables, p, 0)
      <4>1. IsPage(p)
        BY PagesArePages
      <4>. QED  BY <3>2, <3>3, <4>1, FrameMapsOnePage
    <3>5. TableOf(tables, q, 0) = None
      BY <3>2, <3>3, FrameMapsOnePage
    <3>6. S[q] = None
      BY <3>2, <3>5 DEF TranslateAddr
    <3>7. \A p \in Pages : S[p] # g
      <4>1. ASSUME NEW p \in Pages PROVE TableOf(tables, p, 0) # g
        <5>1. IsPage(p) /\ 0 \in 0 .. 4
          BY PagesArePages
        <5>2. TableOf(tables, p, 0) \in LinkedIn(tables) \cup {None}
          BY <5>1, TableInLevel, LevelsLinked
        <5>. QED  BY <3>3, <5>2 DEF Grown
      <4>. QED  BY <4>1 DEF TranslateAddr
    <3>8. S' = [S EXCEPT ![q] = g]
      BY <3>2, <3>4 DEF TranslateAddr
    <3>9. Space!MapPage(q, g)
      BY <3>6, <3>7, <3>8 DEF Space!MapPage
    <3>. QED  BY <3>2, <3>3, <3>9 DEF Space!Next
  <2>. QED  BY <2>1, <2>2
<1>. QED  BY <1>3, <1>4, MemoryInvariant, PTL DEF Spec, ImplementsAddressSpace, Space!Spec
=============================================================================
