--------------------------- MODULE FrameAllocator ---------------------------
(***************************************************************************)
(* BootInfoFrameAllocator of src/memory.rs: the n-th call of one instance  *)
(* returns the n-th frame of the usable regions, in the order in which the *)
(* bootloader's memory map lists them.  An instance has no state but the   *)
(* number of its calls, `next`.                                            *)
(***************************************************************************)
EXTENDS Integers, Sequences, FiniteSets

CONSTANT None           \* Option::None

ASSUME NoneIsNoFrame == None \notin Nat

(* A memory map: regions of frame numbers start .. end - 1.  The regions   *)
(* of a map do not overlap (external: the bootloader builds it).           *)
IsMemoryMap(map) ==
    /\ map \in Seq([start : Nat, end : Nat, usable : BOOLEAN])
    /\ \A r \in DOMAIN map : map[r].start <= map[r].end
    /\ \A q, r \in DOMAIN map :
          q # r => map[q].end <= map[r].start \/ map[r].end <= map[q].start

(* usable_frames: each frame with the position of its region in the map. *)
UsableFrames(map) ==
    UNION {{<<r, f>> : f \in map[r].start .. map[r].end - 1} :
              r \in {q \in DOMAIN map : map[q].usable}}

(* The frames the iterator yields before u. *)
Before(map, u) ==
    {v \in UsableFrames(map) : v[1] < u[1] \/ (v[1] = u[1] /\ v[2] < u[2])}

(* usable_frames().nth(n), as a set of one frame or none. *)
Nth(map, n) == {u \in UsableFrames(map) : Cardinality(Before(map, u)) = n}

(* Mutant: the filter on the type of the region is missing. *)
AllocateFrameAnyRegion(map, n) ==
    LET all == [r \in DOMAIN map |-> [map[r] EXCEPT !.usable = TRUE]]
    IN  IF Nth(all, n) = {} THEN None ELSE (CHOOSE u \in Nth(all, n) : TRUE)[2]

(* Mutant: an exhausted allocator starts again at the first frame. *)
AllocateFrameWraps(map, n) ==
    (CHOOSE u \in Nth(map, n % Cardinality(UsableFrames(map))) : TRUE)[2]

(* Mutant: `next` is counted up before it is used. *)
AllocateFrameSkips(map, n) ==
    IF Nth(map, n + 1) = {} THEN None ELSE (CHOOSE u \in Nth(map, n + 1) : TRUE)[2]

(* allocate_frame by an instance that has been called n times before. *)
AllocateFrame(map, n) ==
    IF Nth(map, n) = {} THEN None ELSE (CHOOSE u \in Nth(map, n) : TRUE)[2]

(* Mutant: the filter is missing in the sum. *)
EverySize(map) ==
    LET size[n \in 0 .. Len(map)] ==
            IF n = 0 THEN 0 ELSE size[n - 1] + (map[n].end - map[n].start)
    IN  size[Len(map)]

(* The sum memory::init computes for `mem`: end - start over the usable    *)
(* regions, in units of a frame (4096 bytes).                              *)
UsableSize(map) ==
    LET size[n \in 0 .. Len(map)] ==
            IF n = 0 THEN 0
            ELSE size[n - 1] + (IF map[n].usable THEN map[n].end - map[n].start ELSE 0)
    IN  size[Len(map)]
=============================================================================
