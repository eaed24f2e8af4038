# A TLA+ model of ProtoOS

ProtoOS is a small x86_64 kernel in Rust: it boots, shows a prompt on the VGA
text screen, reads the PS/2 keyboard by interrupt and runs a handful of shell
commands, among them ones that panic or raise CPU exceptions on purpose. There
is one CPU and one flow of control, interrupted by the keyboard's IRQ1 and by
exceptions; the shared state sits behind spin locks (`spin::Mutex`). This
directory models the parts in which those interruptions, locks and bounded
buffers meet, checks them with TLC and proves the most important facts with
TLAPS. Paths below are relative to the repository's root.

## Inventory

| component | state | operations | interacts with |
|---|---|---|---|
| scancode queue (`src/interrupts.rs`) | ring of 16 bytes, `head`, `tail`, `len`, a lock | `push`, `pop` | filled by the IRQ1 handler, emptied by the idle loop |
| IRQ1 handler (`src/interrupts.rs`) | port 0x60, the PIC's in-service bit | read, push, EOI | interrupts the idle loop anywhere its flag is set |
| idle loop (`src/main.rs`) | interrupt flag | drain the queue inside `without_interrupts`, then `enable_and_hlt` | calls `translate` and `feed` |
| keyboard translation (`src/keyboard.rs`) | `SHIFT` | `translate` | called once per code, later than the key was pressed |
| VGA writer (`src/vga_buffer.rs`) | 80x25 cells, column, cursor registers, `WRITER` | write, scroll, clear, backspace | shell, panic, exceptions |
| shell (`src/shell.rs`) | `LINE` | `feed`, `execute`, seven commands | holds `LINE` while a command runs |
| serial port (`src/serial.rs`) | `SERIAL1` | print | boot, panic, exceptions |
| panic (`src/panic.rs`) | `PANICKING` | `enter_fatal_handler`, `handle`, `halt_loop` | takes `SERIAL1` and `WRITER` on top of any holder |
| exceptions (`src/interrupts.rs`) | IDT | breakpoint returns, the others end in `fatal_exception` | share `PANICKING` with panic |
| GDT, TSS, IDT, PIC set-up (`src/gdt.rs`, `src/interrupts.rs`, `src/lib.rs`) | loaded tables | `init`, in a fixed order | decide whether an exception is handled or resets |
| frame allocator, paging (`src/memory.rs`) | `next` index per allocator instance, page tables | `allocate_frame`, `map_page`, `translate_addr`, `init` | heap set-up |
| heap (`src/allocator.rs`) | `ALLOCATOR` | `init_heap` | `mem` command |
| test harness (`src/lib.rs`, `tests/`) | QEMU exit code | `test_runner`, panic handlers of the tests | |

What is hard: an interrupt between any two instructions of the idle loop; a
lock taken again by code that interrupts its holder; the sleep at the end of
the loop racing the next key; a full queue, line or row; a fatal event inside
the handling of another; an exception before its table is loaded; a mapping
that fails half way down the page tables; a second frame allocator over the
memory map of the first; a test that fails with a lock held. What would
make each component correct is listed as hazards in `PROJECT.json` and stated
as the properties below.

## Modules

| module | models |
|---|---|
| `ScancodeRing` | the ring as operators on a record: `Push`, `Pop`, `Contents` |
| `DropOldestFifo` | abstract: a bounded FIFO in which a put on a full queue drops the oldest |
| `ScancodeQueue` | the ring under any order of push and pop; implements `DropOldestFifo` |
| `Keyboard` | `translate`, the Shift state and the whole scancode table |
| `InputPath` | composes `ScancodeRing` and `Keyboard` with the controller, the PIC, the IRQ1 handler, the queue's lock and the idle loop |
| `VgaBuffer` | the `Writer` as operators on a record: cells, column, cursor |
| `VgaWriter` | the writer under any sequence of calls |
| `Shell` | line buffer, prompt, `feed` and `execute` over `VgaBuffer` |
| `KernelPrograms` | boot, commands, handlers and test binaries as short programs over locks, tables, the interrupt flag and the exit to the host |
| `FatalPath` | the machine that runs those programs: stack, locks, exceptions, panics and their nesting, exit codes |
| `FrameAllocator` | `usable_frames` and `allocate_frame` as operators on a memory map, and the sum `mem` shows |
| `AddressSpace` | abstract: pages get frames, once and for good, no frame twice |
| `Memory` | `memory::init`, `init_heap`, `map_page`, `translate_addr` over four-level tables; implements `AddressSpace` |
| `MC*` | constants for TLC |
| `*_proofs` | the inductive invariant, lemmas and theorems about the module of that name; `InputPath_proofs` also has those about `Keyboard`, `Memory_proofs` those about `FrameAllocator`, `FatalPath_proofs` those about the programs of `KernelPrograms` |

**ScancodeRing, ScancodeQueue.** The record has the fields of the struct.
`NextIndex` is the `% SCANCODE_QUEUE_CAPACITY` of both methods. `len` is kept
apart from the indexes as in the code. `Pop` and `Peek` are the two halves of
`pop`: the ring it leaves and the value it returns.

**Keyboard.** Bytes and ASCII codes are numbers. The 47 character keys are five
runs of consecutive make codes, each with its lower and upper half; `KeyboardSpec`
feeds `translate` all 256 bytes in any order. The two statements about it are
proved outright and have no run; TLC runs the same actions within `InputPath`.

**InputPath.** One step per instruction that another actor can observe. `main`
is the idle loop's program counter: `guard` (cli), `lock`, `pop`, `translate`,
`feed`, `restore` (the end of `without_interrupts`), `sti`, `hlt`; `handler` is
that of the IRQ1 handler. `Interrupt` may fire wherever the flag is set. `sti`
delays interrupts until after the next instruction only when the flag was
clear, so `enable_and_hlt` is one step from `sti` to `hlt`, but with the flag
already set `Interrupt` may come before it. The controller holds one byte and
sends the next only when port 0x60 has been read (external, from the way the
handler uses it). `held`, `typed`, `text`, `taken`, `fed`,
`evicted` and `due` are history: they say what the user meant, what arrived,
which codes a full queue pushed out, and how many codes had been sent when an
interrupt last found the loop asleep or not yet masked. Boot is over: `Init` is
the top of the loop with interrupts still off.

**VgaBuffer, VgaWriter, Shell.** Everything is written on the last row and a
new line scrolls, as in the code. Colour is left out. Bytes are one-character
strings; a byte outside printable ASCII becomes `UnknownChar`, as in
`write_string`, whose loop is a recursive function of the number of bytes
written. `rows` in `VgaWriter` records the printed rows without any
scrolling: the reference for the screen. `ScreenContains` and `ScreenIsBlank`
are the queries that the code's own tests use, and the shell's properties use
them too. In `Shell` the names of commands, the
kinds of `falha` and the replies (texts, newlines included) are constants; trimming, the split at the
first blank and the dispatch are those of `execute`. A byte is one step: `feed`
runs with interrupts off and no handler touches `LINE` or `WRITER`.

**KernelPrograms, FatalPath.** Each function is a sequence of operations (lock,
unlock, load a table, cli, sti, raise, call a test, halt, exit, return), and
`frames` the stack of activations. A fault in a handler pushes another frame.
`binary` is the image: the kernel, a test suite, an empty suite (what
`src/main.rs` is under test), or one of the three binaries of `tests/` that wait
for one event, with their own handlers and, two of them, their own IDT
(`TEST_IDT`, which has one entry: any other exception becomes a double fault).
Each may also meet an `init` that finds no memory for the heap and panics. A
test body returns, raises a breakpoint, fails, fails under `WRITER`'s lock or
for want of heap, or faults. In the binaries
that wait for one event the attempt of `main` raises it (`RaiseEvent`), goes
through (`Survive`) or, in `page_fault`, faults at another address
(`FaultElsewhere`), where `test_page_fault_handler` compares CR2 and takes its
`Failed` branch; the history variable `awaited` says whether it was `main`'s own
attempt, as it should be, that raised the event. `exit` is what the host sees for the value
`exit_qemu` writes: `2 * value + 1`, so 33 is success. `FormatBug` is the second
event that the comments in `panic::handle` and `fatal_exception` speak of: it
strikes while a fatal message is being written, under the device's lock.
Interrupts are left out here because the IRQ1 handler takes none of these locks.
So are the locks of `PICS` and `MEMORY_INFO`: the first belongs to boot and to
the IRQ1 handler, which never run at the same time (boot has interrupts off),
the second is held for one assignment or one copy, within which nothing can
fail.

**FrameAllocator, Memory.** A memory map is a sequence of regions that do not
overlap; `AllocateFrame(map, n)` is what an instance with `next = n` returns.
`map_to` of the x86_64 crate is external and modelled from its use, one step a
level: `Descend` where the table exists, `CreateTable` where it does not,
`NoFrameForTable` where there is no frame for it, `HugeParent` where the entry
maps a huge page, then `MapFrame` or `AlreadyMapped`. `MapHeapPage` is the body of `init_heap`'s loop, `HeapReady` its
end together with that of `memory::init`. The four indexes of a page are the
last digits of its `Prefix`es; `TableOf` is the walk from CR3 down to a level,
`Level` the set of tables in force at one, and `IsTree` says that no two of
their entries lead to the same frame. What the bootloader owes the kernel is
`BootAssumption`: tables that are a tree, in frames the map does not offer. The
window on all of physical memory, through which the kernel reaches the tables,
is mapped with huge pages: `HugeEntries` are its entries, at which `map_to` gives
up. What lies behind them is left out, since the window maps every frame a
second time by design. `HeapAssumption` has what the code fixes in `HEAP_START` and
`HEAP_SIZE` (whole pages, outside the bootloader's mappings and the window) and that nobody
asks `map_page` for the page behind the heap, which `falha pagina` relies on.
What a frame held before it became a table is garbage (`Init` chooses empty entries or entries that lead to the
level-4 table), so a table that was not cleared would show. After the boot
callers may make another allocator, take frames, map pages and write to mapped
ones. The contract of the trait `FrameAllocator` (its frames are unused) is the
guard of `MapPage` when `KeepsContract` is true; with it false the callers are
those of `tests/paging.rs`.

## Runs

| run | what it checks | size |
|---|---|---|
| `scancode_queue` | `TypeOK`, `IndexesAgree`, `ImplementsFifo` | ring of 3, three codes; 865 states |
| `input_path` | `TypeOK`, `QueueLockUncontended`, `PendingIsNewest`, `TypedTextArrives`, `ShiftWrongOnlyAfterLoss`, `LossOnlyWhenFull`, `PortIsServed`, `SleepsOnlyWhenWorkedOff`, `WakeDrainsQueue` | queue of 2, A and both Shifts, 5 codes; 272,195 states |
| `vga_writer` | `TypeOK`, `CursorFollows`, `ScreenShowsNewestRows` | 3 by 3 cells; 65,640 states |
| `shell` | `TypeOK`, `LineIsWhatIsShown`, `BackspaceHitsTheLine`, `EchoIsSeen`, `ClearLeavesThePrompt` | rows of 4, two rows, lines of 5; 27,489 states |
| `fatal_path` | `TypeOK`, `NoSelfDeadlock`, `HaltIsReported`, `HaltIsFinal`, `NeverResets`, `GreenMeansPassed`, `FatalEventHalts`, `BreakpointReturns`, `PanicAgainHalts`, `TestRunIsJudged` | all six binaries, every command, two tests in a suite, up to two events inside a fatal message; 902 states |
| `memory` | `TypeOK`, `NoFrameShared`, `HeapIsWhole`, `FramesAccounted`, `MemReportsWhatExists`, `AllocateFrameIsNth`, `BootOutcome`, `ImplementsAddressSpace` | tables of 3 entries, a heap of 2 pages, 4 memory maps, 3 calls of `map_page`; 8,557 states |
| `input_asleep`, `vga_cursor`, `shell_backspace`, `fatal_reentrant`, `fatal_should_panic`, `memory_alias` | one violated claim each, see below | |

What the less obvious ones show. `ShiftWrongOnlyAfterLoss`: `SHIFT` repairs
itself; once everything typed is worked off it can be wrong about a key only if
the very last code of that key was pushed out of the full queue. `EchoIsSeen`
and `ClearLeavesThePrompt`: what a command leaves on the screen once the prompt
is back. `GreenMeansPassed`: a binary that exits with success has run all of its
tests and met nothing fatal, or has met the kind of event it is about and no
other; for `page_fault` and `double_fault` it was `main`'s own attempt that
raised it. For `should_panic` that part is false, see `fatal_should_panic` below.
`SleepsOnlyWhenWorkedOff` and `WakeDrainsQueue`: a code whose interrupt comes
while the CPU sleeps, or before the loop masks interrupts, has been through
`translate` and `feed` (or was pushed out of the full queue) when the loop next
reaches `sti`, and it does reach it without another key; what remains is the
window of `input_asleep`. `CursorFollows`: as long as the row has room, the
cursor is the cell behind what the history says was written on the newest row.
`TestRunIsJudged`: every
test binary exits by itself, also when the test that fails holds `WRITER`,
except for a fault inside a suite. `FramesAccounted`: a failing `map_page` loses
the page's own frame, which it cannot give back, and nothing else.
`BootOutcome`: the boot ends with a heap exactly if there is a frame for every
page of it and every table those need, and panics otherwise.

Why the bounds are enough. A ring of 3 has every relation of `head` to `tail`
that a larger one has, and is checked together with a proof for all capacities.
A queue of 2 overflows within the five codes typed, in every state of handler
and loop, and both Shift keys can overlap. Three rows of three cells are enough
for a row that scrolls through the middle of the screen, and full, empty and
partly filled rows. The shell's line wraps once after the prompt, as 138 bytes
do on a row of 80, and some replies are longer than a row. `fatal_path` has
one more event than the code distinguishes (first, reentrant). In `memory` the
heap's pages, 40 and 41, are the last of their level-1 table, so that the page
behind the heap needs another one; the four maps have too few frames, exactly
enough for the heap, and enough for some or most of the later calls, in regions
that are out of order, split and empty; the callers ask for a page the
bootloader mapped, a page of its window, a page of the heap, and pages that share some or none of the
heap's tables. Frames 0 to 4 belong to the bootloader.

Deadlock checking is off where the system may stop: the user may stop typing
(`MaxTyped`), a fatal command ends the shell, a halted CPU and a QEMU that was
left do nothing, a boot that panicked is over and the callers of `map_page` may
be done (`MaxCalls`).

Fairness. `input_path` and `fatal_path` assume that the CPU keeps executing
(weak fairness of the running flow), `input_path` also that an interrupt which
stays requested and acceptable is accepted; both are properties of the hardware.
`memory` assumes it of the boot, which waits for nothing. No fairness is assumed
of the user, of the callers of `map_page` or of formatting bugs.

`HaltIsReported`, `NoSelfDeadlock` and `FatalEventHalts` speak of the case in
which no formatting bug struck: with one, the kernel may wait for `SERIAL1` for
ever, which is the subject of `fatal_reentrant`.

### Disagreements between text and code

* `input_asleep` violates `NoKeyLeftAsleep`. The comment in `src/main.rs:34-37`
  claims that no key can slip in between enabling interrupts and sleeping. That
  holds only for the first turn: afterwards interrupts are already on when
  `without_interrupts` begins, so it switches them on again at its end, and
  a key handled between there and `hlt` waits in the queue for the next key.
* `vga_cursor` violates `CursorOnLastRow`. The comment in
  `src/vga_buffer.rs:164-166` says that the hardware cursor is always on the
  last visible row. A byte in the last column leaves the column at the width and
  wraps only with the next byte, so the position sent meanwhile is
  `BUFFER_HEIGHT * BUFFER_WIDTH`, 2000, one behind the last cell of the screen.
* `shell_backspace` violates `BackspaceErases`. At column 0 of a wrapped row
  `Writer::backspace` returns, while the byte has left `LINE`.
* `fatal_reentrant` violates `SecondEventNeverWaits`. The reentrant branch of
  `fatal_exception` prints on the serial port and so locks `SERIAL1`, which the
  comment in `src/panic.rs:17-20` says it must not; if the first event was
  interrupted while it wrote there, the CPU spins.
* `fatal_should_panic` violates `GreenMeansOwnPanic`. `tests/should_panic.rs:39`
  calls the panic that brought the handler about exactly the expected one, and
  `WALKTHROUGH.md:288-296` says that the binary proves it. The handler looks at
  nothing: when it was `init` that panicked (`src/memory.rs:195-196`), the check
  under test never ran and the binary is green all the same.
* `memory_alias` violates `FreshFrameIsUnused`. The SAFETY comments in
  `src/memory.rs:59-61` and `140-141` say that the frame just obtained is used
  by nobody. `memory::init` drops its allocator, and an instance made afterwards
  starts at frame 0 of the same map: what it hands out first are the heap's
  frames and page tables. `tests/paging.rs:82` makes one and line 87 maps with
  it.

Smaller observations, without a run of their own: after `clear` the prompt is on
the bottom row, as `ClearLeavesThePrompt` says, where `README.md:261` has "no
topo"; a fault inside a test suite halts in `fatal_exception` and is left to the
host's 60 s timeout; `test_panic_handler` does not call `enter_fatal_handler`,
so a panic while it prints waits for `SERIAL1` for ever.

## Proofs

Every theorem holds for all values of the constants, under the named ASSUMEs of
the modules: the capacity is a positive natural, scancodes are bytes, `None` is
no byte and no frame, keys are make codes and the codes sent are theirs, the
screen is not empty, the newline is neither a visible nor a foreign byte, the
blank is not a visible one, the prompt fits on a row and every reply ends its
last line, the number of formatting bugs is a natural, and what `Memory` assumes of the bootloader and of the heap's
place (above). The theorems about `Memory` have one more hypothesis,
`KeepsContract`, except for `MemoryMemReportsWhatExists`,
`MemoryAllocateFrameIsNth` and `InitHeapFrameIsUnused`; without it the tables
need not be a tree, as the trace of `memory_alias` shows.
`ShellEchoIsSeen` has the hypothesis `Height > 1`: on a screen of one row the prompt would push the text out.

| theorems | of the runs' properties |
|---|---|
| `ScancodeQueue_proofs` | `TypeOK`, `IndexesAgree`, `ImplementsFifo` |
| `InputPath_proofs` | `TypeOK`, `QueueLockUncontended`, `PendingIsNewest`, `LossOnlyWhenFull`, `ShiftWrongOnlyAfterLoss`, `TypedTextArrives`, `SleepsOnlyWhenWorkedOff`; and `ShellKnowsEveryByte`, `EveryCharacterHasOneKey` of `Keyboard`, which no run checks |
| `VgaWriter_proofs` | `TypeOK`, `CursorFollows`, `ScreenShowsNewestRows` |
| `Shell_proofs` | `TypeOK`, `LineIsWhatIsShown`, `BackspaceHitsTheLine`, `EchoIsSeen`, `ClearLeavesThePrompt` |
| `Memory_proofs` | `TypeOK`, `NoFrameShared`, `HeapIsWhole`, `FramesAccounted`, `MemReportsWhatExists`, `AllocateFrameIsNth`, `ImplementsAddressSpace`, and `FreshFrameIsUnused` for as long as the boot maps the heap |
| `FatalPath_proofs` | `TypeOK`, `NoSelfDeadlock`, `HaltIsReported`, `HaltIsFinal`, `NeverResets`, `GreenMeansPassed` |

* `ScancodeRing_proofs` shows what `Push` and `Pop` do to `Contents`: append
  (after dropping the oldest when full) and tail. The argument is modular
  arithmetic on slots: slot `i` is `(head + i - 1) % Capacity`, two different
  positions are different slots, and the tail is the first slot behind the
  contents. `WellFormed` is needed for the last of these.
* `ScancodeQueue_proofs`: `QueueIndexesAgree` (`WellFormed` is inductive as it
  stands) and, from it, `QueueTypeOK` and, step by step, the refinement
  `QueueImplementsFifo`.
* `InputPath_proofs`: the inductive invariant `Inv` adds to `TypeOK` and
  `WellFormed(queue)` that no handler runs inside `without_interrupts`
  (`Masked`), that the lock is held between `lock` and `pop` and nowhere else
  (`LockHeldInPop`), that a requested interrupt has a byte behind it
  (`ByteBehindInterrupt`) and that the locals are set where they are used
  (`LocalsSet`). `QueueLockUncontended` needs the first two: the handler can
  only be at `push` when the loop is not at `pop`. `PendingIsNewest` is then
  preserved because each action moves codes along one sequence: it appends at
  the end, or drops the head; `LossOnlyWhenFull` comes from the lengths of the
  parts of that sequence. `ShiftInv` carries `ShiftWrongOnlyAfterLoss`: the last
  code sent by a Shift key says whether it is held, and `SHIFT` is what the last
  code taken from the queue made it, so they differ only if a later code of the
  same key was lost. `TextInv` carries `TypedTextArrives`: there are two
  functions on the positions of the typed codes, the Shift state and the length
  of the text after each, that agree with `translate` code by code; the loop,
  having taken `n` codes and lost none, stands at their `n`-th values.
  `DueInv` carries `SleepsOnlyWhenWorkedOff`: the codes an interrupt announced
  are gone, in the queue or in the handler's hands, and all gone once the loop has
  found the queue empty, where no handler can be half-way because the loop had
  masked interrupts before it looked.
  `EveryCharacterHasOneKey` is proved with the table read backwards
  (`MakeCodes`, `NeedsShift`): each row of the table agrees with it key by key
  (`RowsFit`), so two keys that typed the same character would be one, and
  every character from 33 to 126 stands in some row (`CharacterInRows`).
* `VgaBuffer_proofs` has the facts about the writer's operations that the next
  two share. `WriteString` is a recursive function; `WriteStringIn` is the
  induction over it: if a family of sets is such that each byte leads from one
  set to the next, the string leads from the first to the last. It rests on
  `CountingUp`, which is proved with the least element of a non-empty set of
  naturals. `LineFresh`: a text that ends its last line leaves the writer at the
  start of a blank row; `WriteOnRow`: what is written on such a row stands there.
* `VgaWriter_proofs`: the invariant for the cursor is `Placed`, type correctness
  together with the position of the cursor as `move_hardware_cursor` computes it;
  `CursorFollows` compares that with the history, whose newest row is as long as
  the column says; type correctness is what keeps
  `chars[row][col]` in bounds: an out-of-bounds panic there would find `WRITER`
  locked. `WriterShowsNewestRows` follows writer and history row by row from the
  bottom of the screen: scrolling moves the row `k` above the last to `k + 1`.
* `Shell_proofs`: the invariant `ShellInv` has two parts besides `TypeOK`.
  `Wraps(writer, PROMPT \o line, F)`: the text stands at the bottom, wrapped,
  with `F` full rows above the cursor's; a byte fills the first free cell, or
  scrolls and starts row `F + 1`, a Backspace within the row frees the last
  cell. It is lost with the first swallowed Backspace. `Behind(writer, line)`
  survives that one: counted back from the cursor, the cells of the row are the
  end of the line. `ExecuteFresh` shows that every command that returns, whatever
  it prints, ends at the start of a blank row, where the prompt re-establishes
  both; the two theorems about `echo` and `clear` follow the same path.
* `Memory_proofs`, about one allocator: `AllocateFrameIsUsable`, `NeverTheSameFrame`,
  `SizeIsNumberOfFrames` and `AllFramesAreHandedOut`, for every map whose regions
  do not overlap (`IsMemoryMap`, a hypothesis). Disjoint regions make a frame
  determine its region (`FrameDeterminesRegion`); the set of frames the iterator
  yields before one grows strictly from each to the next (`BeforeGrows`), and is
  finite, so there is at most one frame at each place (`OneFramePerPlace`) and
  different calls get different frames; every place lies below the number of
  frames (`EveryFrameHasAPlace`), so that many calls reach all of them. The sum of
  `memory::init`, a recursive function of the number of regions, is compared
  with the frames of the first regions, one region at a time. So is the row of
  frames behind `AllocateFrameIsNth`: before the `k`-th frame of a region come
  all frames of the regions before it and `k - 1` of its own (`PlaceInRegion`),
  so each region appends its row to what the calls have returned (`CallsGrow`).
* `Memory_proofs`, about the machine: `Inv` is inductive under the contract.
  Besides `IsTree(tables)` it says that the call in progress stands
  where its page's way leads (`JobOnItsWay`), that the frame in its hands and
  those still to come are linked nowhere (`FrameInHand`, `FutureFramesFree`) and
  how far the heap is mapped (`HeapSoFar`). In a tree the levels are disjoint and
  a table is reached by one prefix only, so linking an unused, cleared frame at
  one entry adds exactly that frame to one level and changes the way of exactly
  the pages with that prefix; what a page's own frame holds is on nobody's way,
  so writing to it, however, changes nothing. `NeverTheSameFrame` keeps the
  frames to come apart from the ones taken. The refinement of `AddressSpace` then
  has one mapping step, `MapFrame`; all others are stutters. `InvStep`, the
  inductive step, needs the contract only after the boot, where an allocator
  starts again at frame 0; while `init_heap` runs, its one instance keeps it by
  `NeverTheSameFrame`. `InitHeapFrameIsUnused` is that case by itself: the frame
  init_heap hands to `map_to` is unused, whatever callers do later.
* `FatalPath_proofs`: `IInv` has two phases. In `Normal` nothing fatal has
  happened; the stack is one of six shapes (idle, a boot, a command, a test in a
  suite, a breakpoint in either), and the position in the bottom program says
  which tables are in force (`TablesByPosition`), that interrupts are off
  (`FlagByPosition`) and how many tests have passed (`PassedByPosition`). A lock
  that is held is released by the very next operation, but for `LINE` during a
  command and `WRITER` in the test that fails while it reads the screen
  (`LocksAccounted`): that, and not the order of locks alone, is why a command
  never waits for itself. `Fatal` begins with the first panic or fault. Its top
  is a handler that never returns, so what lies below no longer matters;
  interrupts stay off, the tables stay loaded, and as long as no message failed
  the locks the handler still wants are free (`FatalLocks`) and its position
  says what it has reported (`FatalReports`). A failing message only pushes
  another handler, hence any number of them. Both phases rest on lemmas about
  what each kind of program does at each position (`BootOps`, `TurnOps`,
  `TestBodyOps`, `FatalTop`). `NeverResets` needs the tables where something is
  raised, `HaltIsFinal` the flag there, and `GreenMeansPassed` the count of
  passed tests at the position of the exit and, for a handler of a `TEST_IDT`
  that ends in success, that only `main`'s own attempt leads to it.

Only model-checked. Everything about liveness (`PortIsServed`,
`WakeDrainsQueue`, `FatalEventHalts`, `BreakpointReturns`, `PanicAgainHalts`,
`TestRunIsJudged`, `BootOutcome`): TLAPS has no rules for fairness and ENABLED.
Every invariant and every action property of the passing runs is proved.

## Not modelled

The contents of descriptors and IDT entries, page flags and the TLB, the PIC's
initialisation words and masks, the UART's set-up and transmission, colours and
the wording of messages: device set-up and data no property is about. The
allocation of blocks inside the heap is the `linked_list_allocator` crate; its
failure is a test body of `KernelPrograms`. Extended keys (prefix 0xE0) are
bytes like any other to `translate`, and `KeyboardSpec` feeds it all of
them; which keys send fake Shift codes, and when, is a matter of the device that
no source of the repository settles, so the keyboard of `InputPath` has none.
Build files have no behaviour.

## Plan

Left to do: `Kernel`, the input path feeding the shell, composed, and an abstract
terminal that it implements as long as no key is lost. Its two halves meet in
the bytes that `TypedTextArrives` and `LineIsWhatIsShown` speak of.
