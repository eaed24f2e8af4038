--------------------------- MODULE KernelPrograms ---------------------------
(***************************************************************************)
(* The functions that run, fail and stop, as programs of the operations    *)
(* that matter to FatalPath: locks, table loads, the interrupt flag,       *)
(* raising, halting and leaving QEMU.  A run of prints on one device is    *)
(* one use of its lock.  A name stands for a program: `Program` below.     *)
(***************************************************************************)
EXTENDS Integers, Sequences

Locks == {"SERIAL1", "WRITER", "LINE", "ALLOCATOR"}

(* The operations of the programs. *)
Lock(l) == <<"lock", l>>
Unlock(l) == <<"unlock", l>>
Hold(l) == <<Lock(l), Unlock(l)>>
Raise(e) == <<"raise", e>>
Load(t) == <<"load", t>>
Cli == <<"cli", "">>
Sti == <<"sti", "">>
Enter(e) == <<"enter", e>>
Call(f) == <<"call", f>>
Exit(code) == <<"exit", code>>
Halt == <<"halt", "">>
Return == <<"return", "">>

Faults == {"#PF", "#GP", "#UD", "#DF"}

-----------------------------------------------------------------------------
(* Boot and the turns of the idle loop.                                    *)

(* Mutant: gdt::init is left out, so there is no TSS and no IST. *)
InitTablesWithoutGdt ==
    Hold("SERIAL1") \o Hold("SERIAL1") \o <<Load("IDT")>> \o Hold("SERIAL1")

(* proto_os::init up to memory::init *)
InitTables ==
    Hold("SERIAL1") \o <<Load("GDT")>> \o Hold("SERIAL1")
    \o <<Load("IDT")>> \o Hold("SERIAL1")

(* The rest of it: init_heap, and the line with what info() returns. *)
InitKernel == InitTables \o Hold("ALLOCATOR") \o Hold("SERIAL1")

(* memory::init finds no memory for the heap and its expect panics. *)
InitOutOfMemory == InitTables \o <<Raise("panic")>>

(* After it kernel_main's clear_screen, print_welcome, print_prompt and    *)
(* last serial line, up to the first enable_and_hlt.                       *)
KernelMain == InitKernel \o Hold("WRITER") \o Hold("SERIAL1") \o <<Sti, Return>>

(* Mutant: the line is executed with interrupts enabled. *)
FeedEnterUnmasked(body) ==
    Hold("WRITER") \o <<Lock("LINE")>> \o body
    \o <<Unlock("LINE")>> \o Hold("WRITER") \o <<Sti, Return>>

(* One turn of the idle loop in which shell::feed gets Enter: all of it    *)
(* inside without_interrupts, and execute with LINE locked.                *)
FeedEnter(body) ==
    <<Cli>> \o Hold("WRITER") \o <<Lock("LINE")>> \o body
    \o <<Unlock("LINE")>> \o Hold("WRITER") \o <<Sti, Return>>

(* cmd_mem: prints, a Box and a Vec, both freed at the end. *)
CmdMem ==
    Hold("WRITER") \o Hold("ALLOCATOR") \o Hold("WRITER") \o Hold("ALLOCATOR")
    \o Hold("WRITER") \o Hold("ALLOCATOR")

(* What a line can make execute do. *)
Turn ==
    [print |-> FeedEnter(Hold("WRITER")),
     mem |-> FeedEnter(CmdMem),
     panic |-> FeedEnter(<<Raise("panic")>>),
     pagina |-> FeedEnter(<<Raise("#PF")>>),
     pilha |-> FeedEnter(<<Raise("#DF")>>),
     opcode |-> FeedEnter(<<Raise("#UD")>>),
     protecao |-> FeedEnter(<<Raise("#GP")>>),
     breakpoint |-> FeedEnter(<<Raise("#BP")>>)]

-----------------------------------------------------------------------------
(* The handlers.                                                           *)

(* Mutant: the breakpoint handler keeps the screen locked over the serial  *)
(* line and forgets to let go.                                             *)
BreakpointHandlerKeepsWriter == <<Lock("WRITER")>> \o Hold("SERIAL1") \o <<Return>>

(* breakpoint_handler *)
BreakpointHandler == Hold("SERIAL1") \o Hold("WRITER") \o <<Return>>

(* Mutant: the screen is locked before the message is formatted and again  *)
(* to write it.                                                            *)
PanicHandleLocksTwice ==
    Hold("SERIAL1") \o <<Lock("WRITER")>> \o Hold("WRITER") \o <<Halt>>

(* Mutant: only the serial line is written. *)
PanicHandleSerialOnly == Hold("SERIAL1") \o <<Halt>>

(* panic::handle after enter_fatal_handler() said false. *)
PanicHandle == Hold("SERIAL1") \o Hold("WRITER") \o <<Halt>>

(* Mutant: a panic within a panic tries to say so on the serial port. *)
PanicAgainReports == Hold("SERIAL1") \o <<Halt>>

(* panic::handle after it said true: straight to halt_loop. *)
PanicAgain == <<Halt>>

(* Mutant: the handler returns to the instruction that failed. *)
FatalExceptionReturns == Hold("SERIAL1") \o Hold("WRITER") \o <<Return>>

(* fatal_exception after enter_fatal_handler() said false. *)
FatalException == Hold("SERIAL1") \o Hold("WRITER") \o <<Halt>>

(* fatal_exception after it said true: a line on the serial port first. *)
FatalExceptionAgain == Hold("SERIAL1") \o <<Halt>>

(* The programs enter_fatal_handler chooses between. *)
First == [panic |-> "panic_first", fault |-> "fault_first"]
Again == [panic |-> "panic_again", fault |-> "fault_again"]

-----------------------------------------------------------------------------
(* The test binaries: a suite of test_cases (src/lib.rs, src/main.rs and   *)
(* most of tests/), and the three that wait for one event.                 *)

Binaries == {"kernel", "suite", "empty_suite", "page_fault", "double_fault", "should_panic"}

(* QemuExitCode, and what QEMU returns for a value written to its          *)
(* isa-debug-exit device; Cargo.toml's test-success-exit-code is 33.       *)
QemuExitCode == [Success |-> 16, Failed |-> 17]
HostSees(code) == 2 * QemuExitCode[code] + 1
TestSuccessExitCode == 33

(* Testable::run *)
RunTest == Hold("SERIAL1") \o <<Call("test")>> \o Hold("SERIAL1")

(* test_runner on two tests, and on none (the binary of src/main.rs) *)
Suite == Hold("SERIAL1") \o RunTest \o RunTest \o <<Exit("Success")>>
EmptySuite == Hold("SERIAL1") \o <<Exit("Success")>>
TestsOf(b) == IF b = "suite" THEN 2 ELSE 0

(* What the body of a test does: it returns, after some printing,          *)
(* allocating or a breakpoint; an assertion fails, or one fails while the  *)
(* test looks at the screen under WRITER's lock (the tests of              *)
(* src/vga_buffer.rs), or an allocation fails (alloc_error_handler); or    *)
(* the code under test faults.                                             *)
TestBody ==
    [returns |-> Hold("WRITER") \o Hold("ALLOCATOR") \o <<Return>>,
     int3 |-> <<Raise("#BP"), Return>>,
     assertion |-> <<Raise("panic")>>,
     assertion_on_screen |-> <<Lock("WRITER"), Raise("panic")>>,
     heap_exhausted |-> Hold("ALLOCATOR") \o <<Raise("panic")>>,
     fault |-> <<Raise("#PF"), Return>>]

(* main of tests/page_fault.rs and of tests/double_fault.rs; the overflow  *)
(* of the stack is a page fault whose frame cannot be pushed.              *)
AwaitFault(e) ==
    <<Load("TEST_IDT"), Raise(e)>> \o Hold("SERIAL1") \o <<Exit("Failed")>>

(* main of tests/should_panic.rs *)
AwaitPanic ==
    Hold("SERIAL1") \o <<Raise("panic")>> \o Hold("SERIAL1") \o <<Exit("Failed")>>

(* Mutant: a failed test is also shown on the screen. *)
TestPanicHandlerOnScreen ==
    Hold("SERIAL1") \o Hold("WRITER") \o <<Exit("Failed")>>

(* test_panic_handler *)
TestPanicHandler == Hold("SERIAL1") \o Hold("SERIAL1") \o <<Exit("Failed")>>

(* The panic handler of tests/should_panic.rs *)
ShouldPanicHandler == Hold("SERIAL1") \o <<Exit("Success")>>

(* The handlers of the two TEST_IDTs, that of page_fault when CR2 holds    *)
(* endereco_esperado(), and its other branch.                              *)
TestFaultHandler == <<Exit("Success")>>
WrongAddress == Hold("SERIAL1") \o <<Exit("Failed")>>

(* The binaries that wait for one event. *)
Awaiting == {"page_fault", "double_fault", "should_panic"}

(* What a binary runs after a successful init. *)
Main(b) ==
    CASE b = "suite" -> Suite
      [] b = "empty_suite" -> EmptySuite
      [] b = "page_fault" -> AwaitFault("#PF")
      [] b = "double_fault" -> AwaitFault("#DF")
      [] b = "should_panic" -> AwaitPanic

(* The #[panic_handler] of a binary *)
PanicHandlerOf(b) ==
    CASE b = "kernel" -> "panic_handler"
      [] b = "should_panic" -> "should_panic_handler"
      [] OTHER -> "test_panic_handler"

(* The exceptions a table has an entry for. *)
Gates(b, table) ==
    CASE table = "IDT" -> Faults \cup {"#BP"}
      [] table = "TEST_IDT" -> {IF b = "page_fault" THEN "#PF" ELSE "#DF"}
      [] table = "none" -> {}

(* Mutant: test_page_fault_handler does not look at CR2. *)
HandlerOfAnyAddress(table, e, own) == IF table = "TEST_IDT" THEN "test_fault_handler" ELSE e

(* The program behind an entry.  A page fault of main's own access leaves  *)
(* the expected address in CR2, any other leaves another.                  *)
HandlerOf(table, e, own) ==
    CASE table # "TEST_IDT" -> e
      [] table = "TEST_IDT" /\ (e = "#PF" => own) -> "test_fault_handler"
      [] table = "TEST_IDT" /\ e = "#PF" /\ ~own -> "wrong_address"

Program(name) ==
    CASE name = "kernel" -> KernelMain
      [] name \in Binaries \ {"kernel"} -> InitKernel \o Main(name)
      [] name = "out_of_memory" -> InitOutOfMemory
      [] name \in DOMAIN Turn -> Turn[name]
      [] name \in DOMAIN TestBody -> TestBody[name]
      [] name = "#BP" -> BreakpointHandler
      [] name = "panic_handler" -> <<Enter("panic")>>
      [] name = "panic_first" -> PanicHandle
      [] name = "panic_again" -> PanicAgain
      [] name \in Faults -> <<Enter("fault")>>
      [] name = "fault_first" -> FatalException
      [] name = "fault_again" -> FatalExceptionAgain
      [] name = "test_panic_handler" -> TestPanicHandler
      [] name = "should_panic_handler" -> ShouldPanicHandler
      [] name = "test_fault_handler" -> TestFaultHandler
      [] name = "wrong_address" -> WrongAddress
=============================================================================
