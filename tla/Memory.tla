------------------------------- MODULE Memory -------------------------------
(***************************************************************************)
(* Paging and the heap: memory::init and map_page of src/memory.rs,        *)
(* init_heap of src/allocator.rs, and the four-level page tables they      *)
(* build with OffsetPageTable::map_to of the x86_64 crate (external).      *)
(*                                                                         *)
(* A page is its number; a table has Entries entries (512), so the four    *)
(* indexes of a page are its digits in that base.  A frame used as a table *)
(* holds its entries; the contents of any other frame are garbage read as  *)
(* entries, which is what a table that was not zeroed would show.          *)
(***************************************************************************)
EXTENDS FrameAllocator

CONSTANTS
    MemoryMaps,     \* the maps a bootloader may hand over
    Frames,         \* the frames of the machine
    BootTables,     \* frame -> entries: the tables the bootloader built
    P4,             \* frame of the active level-4 table, in CR3
    HugeEntries,    \* <<level, prefix>> of the entries that map a huge page
    Entries,        \* entries of a table
    PageSize,       \* bytes of a page
    HEAP_START,     \* virtual address
    HEAP_SIZE,      \* bytes
    ClientPages,    \* pages that callers of map_page ask for
    MaxCalls,       \* bound: calls of map_page after the boot
    KeepsContract   \* callers of map_page bring an allocator of unused frames

Index == 0 .. Entries - 1

(* The pages of the range are the ones of its first and its last byte and  *)
(* all between.                                                            *)
HeapFirst == HEAP_START \div PageSize

(* Mutant: the end of the range is the first byte behind the heap. *)
HeapLastTooFar == (HEAP_START + HEAP_SIZE) \div PageSize

HeapLast == (HEAP_START + HEAP_SIZE - 1) \div PageSize

HeapPages == HeapFirst .. HeapLast
PageBehindHeap == (HEAP_START + HEAP_SIZE) \div PageSize

(* The number of a page without its last 4 - level digits, as p4_index to  *)
(* p1_index shift it, and the last digit of what is left (external).       *)
Prefix(page, level) ==
    CASE level = 4 -> ((page \div Entries) \div Entries) \div Entries
      [] level = 3 -> (page \div Entries) \div Entries
      [] level = 2 -> page \div Entries
      [] level = 1 -> page
PageIndex(page, level) == Prefix(page, level) % Entries

(* The page's entry in its table of the level maps a huge page: there is   *)
(* no table below it (external).                                           *)
Huge(page, level) == <<level, Prefix(page, level)>> \in HugeEntries

(* One step of the walk in the tables T: the frame that the entry for the  *)
(* page in table t of the level holds.                                     *)
Walk(T, t, page, level) == IF t = None THEN None ELSE T[t][PageIndex(page, level)]

(* The table of the level on the page's way down from CR3; level 0 is the  *)
(* page's own frame.                                                       *)
TableOf(T, page, level) ==
    LET t3 == Walk(T, P4, page, 4)
        t2 == Walk(T, t3, page, 3)
        t1 == Walk(T, t2, page, 2)
    IN  CASE level = 4 -> P4
          [] level = 3 -> t3
          [] level = 2 -> t2
          [] level = 1 -> t1
          [] level = 0 -> Walk(T, t1, page, 1)

(* The tables of a level that are in force, and at level 0 the frames they *)
(* lead to.                                                                *)
Children(T, ts) == {T[t][i] : t \in ts, i \in Index} \ {None}
Level(T, level) ==
    LET l3 == Children(T, {P4})
        l2 == Children(T, l3)
        l1 == Children(T, l2)
    IN  CASE level = 4 -> {P4}
          [] level = 3 -> l3
          [] level = 2 -> l2
          [] level = 1 -> l1
          [] level = 0 -> Children(T, l1)
TablesIn(T) == UNION {Level(T, level) : level \in 1 .. 4}
LinkedIn(T) == UNION {Level(T, level) : level \in 0 .. 4}

(* The entries in force lead to different frames, none of them back to the *)
(* level-4 table.                                                          *)
IsTree(T) ==
    /\ \A t, u \in TablesIn(T), i, j \in Index :
          T[t][i] # None /\ T[t][i] = T[u][j] => t = u /\ i = j
    /\ \A t \in TablesIn(T), i \in Index : T[t][i] # P4

UsableIn(map) == {u[2] : u \in UsableFrames(map)}

(* Numbers a page can have: four digits. *)
IsPage(page) == page \in Nat /\ Prefix(page, 4) \in Index

(* What the bootloader hands over (external): tables that form a tree, in  *)
(* frames its map does not list as usable.  The window on all of physical  *)
(* memory is made of huge pages; what those lead to is left out.           *)
ASSUME BootAssumption ==
    /\ \A map \in MemoryMaps : IsMemoryMap(map) /\ UsableIn(map) \subseteq Frames
    /\ None \notin Frames /\ IsFiniteSet(Frames)
    /\ Entries \in Nat \ {0}
    /\ P4 \in DOMAIN BootTables /\ DOMAIN BootTables \subseteq Frames
    /\ BootTables \in [DOMAIN BootTables -> [Index -> Frames \cup {None}]]
    /\ TablesIn(BootTables) \subseteq DOMAIN BootTables
    /\ IsTree(BootTables)
    /\ \A map \in MemoryMaps : LinkedIn(BootTables) \cap UsableIn(map) = {}
    /\ HugeEntries \subseteq {2, 3} \X Nat

(* The heap is made of whole pages, outside everything the bootloader      *)
(* mapped (HEAP_START, HEAP_SIZE); nobody asks for the page behind it.     *)
ASSUME HeapAssumption ==
    /\ PageSize \in Nat \ {0} /\ HEAP_START \in Nat /\ HEAP_SIZE \in Nat \ {0}
    /\ HEAP_START % PageSize = 0 /\ HEAP_SIZE % PageSize = 0
    /\ \A p \in HeapPages \cup ClientPages \cup {PageBehindHeap} : IsPage(p)
    /\ BootTables[P4][PageIndex(HeapFirst, 4)] = None
    /\ TableOf(BootTables, PageBehindHeap, 0) = None
    /\ PageBehindHeap \notin ClientPages
    /\ \A p \in HeapPages, level \in {2, 3} : ~Huge(p, level)

ASSUME CallsAssumption == MaxCalls \in Nat /\ KeepsContract \in BOOLEAN

VARIABLES
    memory_map,     \* BootInfo::memory_map
    tables,         \* frame -> contents read as table entries
    next,           \* calls of the allocator instance in use
    job,            \* the map_to in progress, or Idle
    heap,           \* pages init_heap has mapped
    boot,           \* "mapping", "ready" or "panicked"
    MEMORY_INFO,    \* usable size in frames, None before memory::init ends
    calls,          \* calls of map_page
    taken,          \* history: frames taken for pages and tables
    lost            \* history: calls that failed after taking their frame

vars == <<memory_map, tables, next, job, heap, boot, MEMORY_INFO, calls, taken, lost>>

Idle == [page |-> None]

(* translate_addr: from the table in CR3 down the four levels. *)
TranslateAddr(page) == TableOf(tables, page, 0)

Linked == LinkedIn(tables)

Fill(entry) == [i \in Index |-> entry]

Frame(n) == AllocateFrame(memory_map, n)

Usable == UsableIn(memory_map)

TypeOK ==
    /\ memory_map \in MemoryMaps
    /\ tables \in [Frames -> [Index -> Frames \cup {None}]]
    /\ next \in Nat /\ calls \in 0 .. MaxCalls /\ taken \in Nat /\ lost \in Nat
    /\ job = Idle \/ job \in [page : Nat, frame : Usable, level : 1 .. 4, table : Frames]
    /\ heap \in 0 .. HeapLast + 1 - HeapFirst
    /\ boot \in {"mapping", "ready", "panicked"}
    /\ MEMORY_INFO \in Nat \cup {None}

(* The kernel starts with the bootloader's tables; what the other frames   *)
(* hold is whatever was there before.                                      *)
Init ==
    /\ memory_map \in MemoryMaps
    /\ \E garbage \in {None, P4} :
          tables = [f \in Frames |-> IF f \in DOMAIN BootTables THEN BootTables[f]
                                     ELSE Fill(garbage)]
    /\ next = 0
    /\ job = Idle
    /\ heap = 0
    /\ boot = "mapping"
    /\ MEMORY_INFO = None
    /\ calls = 0 /\ taken = 0 /\ lost = 0

(* init_heap's `?` and the expect of memory::init end the boot; a caller   *)
(* of map_page gets the error back.                                        *)
Fails ==
    /\ job' = Idle
    /\ boot' = IF boot = "mapping" THEN "panicked" ELSE boot

(* Mutant: allocate_frame does not count its call. *)
BeginUncounted(page) ==
    /\ next' = next
    /\ \/ /\ Frame(next) = None
          /\ Fails
          /\ UNCHANGED taken
       \/ /\ Frame(next) # None
          /\ job' = [page |-> page, frame |-> Frame(next), level |-> 4, table |-> P4]
          /\ taken' = taken + 1
          /\ UNCHANGED boot
    /\ UNCHANGED <<memory_map, tables, heap, MEMORY_INFO, lost>>

(* A frame for the page, then map_to from the level-4 table down. *)
Begin(page) ==
    /\ next' = next + 1
    /\ \/ /\ Frame(next) = None
          /\ Fails
          /\ UNCHANGED taken
       \/ /\ Frame(next) # None
          /\ job' = [page |-> page, frame |-> Frame(next), level |-> 4, table |-> P4]
          /\ taken' = taken + 1
          /\ UNCHANGED boot
    /\ UNCHANGED <<memory_map, tables, heap, MEMORY_INFO, lost>>

(* init_heap: the next page of the range *)
MapHeapPage ==
    /\ boot = "mapping" /\ job = Idle
    /\ HeapFirst + heap <= HeapLast
    /\ Begin(HeapFirst + heap)
    /\ UNCHANGED calls

(* map_page.  Its caller owes map_to what the trait FrameAllocator asks:   *)
(* an allocator whose frames nobody uses.                                  *)
MapPage(page) ==
    /\ boot = "ready" /\ job = Idle
    /\ calls < MaxCalls
    /\ KeepsContract =>
          \A n \in next .. Cardinality(UsableFrames(memory_map)) : Frame(n) \notin Linked
    /\ calls' = calls + 1
    /\ Begin(page)

Entry == tables[job.table][PageIndex(job.page, job.level)]

SetEntry(frame) == [tables EXCEPT ![job.table][PageIndex(job.page, job.level)] = frame]

(* map_to: the table of the next level is there (create_next_table). *)
Descend ==
    /\ job # Idle /\ job.level > 1 /\ ~Huge(job.page, job.level)
    /\ Entry # None
    /\ job' = [job EXCEPT !.level = @ - 1, !.table = Entry]
    /\ UNCHANGED <<memory_map, tables, next, heap, boot, MEMORY_INFO, calls, taken, lost>>

(* map_to: the table is missing; it is allocated, linked and zeroed. *)
CreateTable ==
    /\ job # Idle /\ job.level > 1 /\ ~Huge(job.page, job.level)
    /\ Entry = None
    /\ Frame(next) # None
    /\ next' = next + 1
    /\ taken' = taken + 1
    /\ tables' = [SetEntry(Frame(next)) EXCEPT ![Frame(next)] = Fill(None)]
    /\ job' = [job EXCEPT !.level = @ - 1, !.table = Frame(next)]
    /\ UNCHANGED <<memory_map, heap, boot, MEMORY_INFO, calls, lost>>

(* map_to: FrameAllocationFailed; the page's own frame is not given back,  *)
(* and neither are the tables made on the way.                             *)
NoFrameForTable ==
    /\ job # Idle /\ job.level > 1 /\ ~Huge(job.page, job.level)
    /\ Entry = None
    /\ Frame(next) = None
    /\ next' = next + 1
    /\ lost' = lost + 1
    /\ Fails
    /\ UNCHANGED <<memory_map, tables, heap, MEMORY_INFO, calls, taken>>

(* map_to: ParentEntryHugePage; the page lies in the window.  The frame is *)
(* not given back.                                                         *)
HugeParent ==
    /\ job # Idle /\ job.level > 1 /\ Huge(job.page, job.level)
    /\ lost' = lost + 1
    /\ Fails
    /\ UNCHANGED <<memory_map, tables, next, heap, MEMORY_INFO, calls, taken>>

(* Mutant: a mapped page gets the new frame. *)
MapFrameOverwrites ==
    /\ job # Idle /\ job.level = 1
    /\ tables' = SetEntry(job.frame)
    /\ job' = Idle
    /\ heap' = IF boot = "mapping" THEN heap + 1 ELSE heap
    /\ UNCHANGED <<memory_map, next, boot, MEMORY_INFO, calls, taken, lost>>

(* map_to: the entry of the page is free. *)
MapFrame ==
    /\ job # Idle /\ job.level = 1
    /\ Entry = None
    /\ tables' = SetEntry(job.frame)
    /\ job' = Idle
    /\ heap' = IF boot = "mapping" THEN heap + 1 ELSE heap
    /\ UNCHANGED <<memory_map, next, boot, MEMORY_INFO, calls, taken, lost>>

(* map_to: PageAlreadyMapped; the frame is not given back. *)
AlreadyMapped ==
    /\ job # Idle /\ job.level = 1
    /\ Entry # None
    /\ lost' = lost + 1
    /\ Fails
    /\ UNCHANGED <<memory_map, tables, next, heap, MEMORY_INFO, calls, taken>>

(* The end of init_heap, where ALLOCATOR writes its first free block, and  *)
(* of memory::init, where `mem` gets its size and the instance is dropped: *)
(* whoever wants frames from now on starts with an instance of its own.    *)
HeapReady ==
    /\ boot = "mapping" /\ job = Idle
    /\ HeapFirst + heap > HeapLast
    /\ boot' = "ready"
    /\ tables' = [tables EXCEPT ![TranslateAddr(HeapFirst)] = Fill(P4)]
    /\ MEMORY_INFO' = UsableSize(memory_map)
    /\ next' = 0
    /\ UNCHANGED <<memory_map, job, heap, calls, taken, lost>>

(* BootInfoFrameAllocator::init: a caller makes another instance. *)
NewAllocator ==
    /\ boot = "ready" /\ job = Idle
    /\ next' = 0
    /\ UNCHANGED <<memory_map, tables, job, heap, boot, MEMORY_INFO, calls, taken, lost>>

(* allocate_frame by a caller that only wants the frame. *)
TakeFrame ==
    /\ boot = "ready" /\ job = Idle
    /\ next <= Cardinality(Usable)
    /\ next' = next + 1
    /\ UNCHANGED <<memory_map, tables, job, heap, boot, MEMORY_INFO, calls, taken, lost>>

(* A write to a mapped page. *)
Write(page) ==
    /\ boot = "ready" /\ job = Idle
    /\ TranslateAddr(page) # None
    /\ tables' = [tables EXCEPT ![TranslateAddr(page)] = Fill(P4)]
    /\ UNCHANGED <<memory_map, next, job, heap, boot, MEMORY_INFO, calls, taken, lost>>

MapTo == Descend \/ CreateTable \/ NoFrameForTable \/ HugeParent \/ MapFrame \/ AlreadyMapped

Next ==
    \/ MapHeapPage \/ MapTo \/ HeapReady
    \/ NewAllocator \/ TakeFrame
    \/ \E p \in ClientPages : MapPage(p) \/ Write(p)

Spec == Init /\ [][Next]_vars

(* The boot runs with nothing to wait for; callers come or do not. *)
FairSpec == Spec /\ WF_vars(MapHeapPage \/ MapTo \/ HeapReady)

-----------------------------------------------------------------------------
(* Properties.                                                             *)

(* No frame has two uses: never two entries of the page tables lead to the *)
(* same frame, as a page or as a table, and none leads back to the         *)
(* level-4 table (map_page, init_heap; "frames únicos" of                  *)
(* BootInfoFrameAllocator), whatever the frames held before.               *)
NoFrameShared == IsTree(tables)

(* ALLOCATOR is given exactly what is mapped: once it owns the heap every  *)
(* page of it is there, and the page behind it is not, whoever maps or     *)
(* writes pages later (init_heap; `falha pagina` reads just behind it).    *)
HeapIsWhole ==
    boot = "ready" =>
        /\ \A p \in HeapPages : TranslateAddr(p) # None
        /\ TranslateAddr(PageBehindHeap) = None

(* A call that fails loses one frame, the page's own, and no other: all    *)
(* frames taken are in force, in the hands of the running call, or lost by *)
(* a failed one (map_page, which takes the frame before map_to can fail).  *)
FramesAccounted ==
    taken = Cardinality(Linked \cap Usable) + lost + (IF job = Idle THEN 0 ELSE 1)

(* The size `mem` prints is the number of frames an instance can hand out: *)
(* the sum in memory::init and the iterator of usable_frames filter and    *)
(* count the same regions.                                                 *)
MemReportsWhatExists ==
    boot = "ready" =>
        MEMORY_INFO = Cardinality({Frame(n) : n \in 0 .. Cardinality(Frames)} \ {None})

(* The frames of the map in a row, as the code chains its iterators. *)
Flattened ==
    LET row[n \in 0 .. Len(memory_map)] ==
            IF n = 0 THEN << >>
            ELSE row[n - 1] \o
                 (IF memory_map[n].usable
                  THEN [k \in 1 .. memory_map[n].end - memory_map[n].start |->
                           memory_map[n].start + k - 1]
                  ELSE << >>)
    IN  row[Len(memory_map)]

(* The n-th call of an instance gets the n-th frame of the usable regions, *)
(* across their borders and over empty ones, and None from the end on      *)
(* (allocate_frame).                                                       *)
AllocateFrameIsNth ==
    \A n \in 0 .. Cardinality(Frames) :
        Frame(n) = IF n < Len(Flattened) THEN Flattened[n + 1] ELSE None

(* Tables the heap needs: one for every prefix of its pages. *)
TablesForHeap ==
    LET prefixes(size) == Cardinality({p \div size : p \in HeapPages})
    IN  prefixes(Entries * Entries * Entries) + prefixes(Entries * Entries) + prefixes(Entries)

Enough == Cardinality(Usable) >= Cardinality(HeapPages) + TablesForHeap

(* The boot comes to its end, with a heap if and only if the machine has a *)
(* frame for every page of it and every table those need: "falha ao mapear *)
(* o heap: memoria fisica insuficiente" (memory::init) says nothing else.  *)
BootOutcome ==
    /\ Enough => <>(boot = "ready")
    /\ ~Enough => <>(boot = "panicked")

(* map_page and init_heap implement the address space: a page is mapped    *)
(* once and for good, to a frame no other page has, and a call that fails, *)
(* however far map_to got, maps nothing ("nunca mapeia parcialmente").     *)
Space == INSTANCE AddressSpace WITH
    Pages <- HeapPages \cup ClientPages,
    space <- [p \in HeapPages \cup ClientPages |-> TranslateAddr(p)]

ImplementsAddressSpace == Space!Spec

(* What the SAFETY comments of map_page and init_heap claim: the frame     *)
(* just obtained from the allocator is in use by nobody.                   *)
FreshFrameIsUnused == job # Idle => job.frame \notin Linked
=============================================================================
