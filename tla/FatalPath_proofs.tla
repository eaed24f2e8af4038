-------------------------- MODULE FatalPath_proofs --------------------------
(***************************************************************************)
(* The safety invariants of FatalPath, proved for any number of formatting *)
(* bugs.  The inductive invariant has two phases.  In the normal one the   *)
(* stack is one of six shapes, and the position in its bottom program      *)
(* says which tables are loaded, whether interrupts are off and how many   *)
(* tests have passed.  In the fatal one the top is a handler that never    *)
(* returns; what lies below it no longer matters.                          *)
(***************************************************************************)
EXTENDS FatalPath, SequenceTheorems, TLAPS

OpAt(p, n) == Program(p)[n]
Size(p) == Len(Program(p))

Inits == Binaries \cup {"out_of_memory"}
FaultTests == {"page_fault", "double_fault"}
Turns == {"print", "mem", "panic", "pagina", "pilha", "opcode", "protecao", "breakpoint"}
Tests == {"returns", "int3", "assertion", "assertion_on_screen", "heap_exhausted", "fault"}
Entries == {"panic_handler"} \cup Faults
Firsts == {"panic_first", "fault_first"}
Agains == {"panic_again", "fault_again"}
Judges == {"should_panic_handler", "test_fault_handler", "wrong_address"}
Fatals == Entries \cup Firsts \cup Agains \cup Judges \cup {"test_panic_handler"}
Names == Inits \cup Turns \cup Tests \cup {"#BP"} \cup Fatals

Frames == [program : Names, next : Nat, flag : BOOLEAN]

-----------------------------------------------------------------------------
(* The inductive invariant.                                                *)

StackTyped ==
    /\ frames \in Seq(Frames)
    /\ \A i \in 1 .. Depth : frames[i].next \in 1 .. Size(frames[i].program) + 1

LocksTyped ==
    /\ owner \in [Locks -> Nat]
    /\ \A l \in Locks : owner[l] <= Depth

RestTyped ==
    /\ PANICKING \in BOOLEAN /\ intr_flag \in BOOLEAN
    /\ binary \in Binaries /\ tss \in BOOLEAN /\ idt \in {"none", "IDT", "TEST_IDT"}
    /\ cpu \in {"running", "halted", "exited"}
    /\ exit \in {0, 33, 35}
    /\ passed \in 0 .. TestsOf(binary)
    /\ raised \subseteq Faults \cup {"#BP", "panic"} /\ awaited \in BOOLEAN
    /\ reported \subseteq {"SERIAL1", "WRITER"}
    /\ bugs \in 0 .. MaxFormatBugs

Typed == StackTyped /\ LocksTyped /\ RestTyped

(* Where the running frame stands, and what that says of the lock l. *)
TopProgram == frames[Depth].program
TopNext == frames[Depth].next
AboutToUnlock(l) == OpAt(TopProgram, TopNext) = Unlock(l)

(* The bottom frame has just called a test. *)
AfterCall == frames[1].program = "suite" /\ frames[1].next \in {18, 23}

(* The shapes of the stack while nothing fatal has happened. *)
Idle == Depth = 0 /\ binary = "kernel"
Boots == Depth = 1 /\ frames[1].program \in {binary, "out_of_memory"}
Commands == Depth = 1 /\ frames[1].program \in Turns /\ binary = "kernel"
TestRuns == Depth = 2 /\ AfterCall /\ binary = "suite" /\ frames[2].program \in Tests
BreakInCommand ==
    /\ Depth = 2 /\ binary = "kernel"
    /\ frames[1].program = "breakpoint" /\ frames[1].next = 6
    /\ frames[2].program = "#BP"
BreakInTest ==
    /\ Depth = 3 /\ AfterCall /\ binary = "suite"
    /\ frames[2].program = "int3" /\ frames[2].next = 2
    /\ frames[3].program = "#BP"
Shape == Idle \/ Boots \/ Commands \/ TestRuns \/ BreakInCommand \/ BreakInTest

Booting == Depth > 0 /\ frames[1].program \in Inits

(* What the position n in the bottom program p says: the table in force,   *)
(* whether interrupts are surely off, how many tests have passed.          *)
IdtAt(p, n) ==
    IF n <= 6 THEN "none" ELSE IF p \in FaultTests /\ n > 13 THEN "TEST_IDT" ELSE "IDT"
MaskedAt(p, n) ==
    \/ p \in Inits /\ (p = "kernel" => n <= 17)
    \/ p \in Turns /\ n > 1 /\ n < Size(p)
PassedAt(p, n) ==
    IF p # "suite" \/ n <= 17 THEN 0 ELSE IF n <= 22 THEN 1 ELSE 2

TablesByPosition ==
    IF Booting
    THEN /\ frames[1].next > 3 => tss = TRUE
         /\ idt = IdtAt(frames[1].program, frames[1].next)
    ELSE tss = TRUE /\ idt = "IDT"

FlagByPosition ==
    /\ Depth > 0 /\ MaskedAt(frames[1].program, frames[1].next) => intr_flag = FALSE
    /\ \A i \in 2 .. Depth : frames[i].flag = FALSE

(* A test that runs was called one position before. *)
PassedByPosition ==
    /\ Depth = 0 => passed = 0
    /\ Depth = 1 => passed = PassedAt(frames[1].program, frames[1].next)
    /\ Depth > 1 => passed = PassedAt(frames[1].program, frames[1].next - 1)

(* A lock that is held is about to be released, or it is LINE during a     *)
(* command, or WRITER in the test that fails while it looks at the screen. *)
InCommand ==
    Depth > 0 /\ frames[1].program \in Turns /\ frames[1].next > 4
        /\ frames[1].next <= Size(frames[1].program) - 4
LocksAccounted ==
    /\ owner["LINE"] \in {0, 1}
    /\ \A l \in Locks : owner[l] # 0 =>
          \/ Depth > 0 /\ AboutToUnlock(l)
          \/ l = "LINE" /\ InCommand
          \/ l = "WRITER" /\ Depth > 0 /\ TopProgram = "assertion_on_screen" /\ TopNext = 2

Normal ==
    /\ bugs = 0 /\ PANICKING = FALSE /\ reported = {}
    /\ raised \subseteq {"#BP"}
    /\ exit = 0
    /\ Depth > 0 => TopNext <= Size(TopProgram)
    /\ Shape
    /\ TablesByPosition
    /\ FlagByPosition
    /\ PassedByPosition
    /\ LocksAccounted

(* The locks that a handler could wait for are free, if no message failed. *)
FatalLocks ==
    \A l \in Locks : owner[l] # 0 =>
        \/ l \in {"LINE", "ALLOCATOR"}
        \/ AboutToUnlock(l)
        \/ l = "WRITER" /\ TopProgram = "test_panic_handler"

FatalReports ==
    TopProgram \in Firsts =>
        /\ TopNext > 2 => "SERIAL1" \in reported
        /\ TopNext > 4 => "WRITER" \in reported

Fatal ==
    /\ Depth > 0 /\ TopProgram \in Fatals
    /\ TopNext <= Size(TopProgram)
    /\ exit = 0
    /\ intr_flag = FALSE /\ tss = TRUE
    /\ TopProgram \in Judges =>
          /\ PANICKING = FALSE /\ bugs = 0
          /\ passed = 0 /\ TestsOf(binary) = 0
          /\ raised \ {"#BP"} = Expected(binary)
    /\ TopProgram = "test_fault_handler" => awaited = TRUE
    /\ TopProgram = "should_panic_handler" => binary = "should_panic"
    /\ TopProgram \notin Judges => binary # "should_panic" /\ idt = "IDT"
    /\ bugs = 0 =>
          /\ TopProgram \in Entries => PANICKING = FALSE
          /\ TopProgram \notin Agains
          /\ FatalLocks
          /\ FatalReports

Stopped ==
    /\ HaltIsReported
    /\ HaltIsFinal
    /\ GreenMeansPassed

IInv ==
    /\ Typed
    /\ cpu = "running" => Normal \/ Fatal
    /\ cpu # "running" => Stopped

-----------------------------------------------------------------------------
(* The programs, operation by operation.                                   *)

(* What every image runs before its own main. *)
StartsWithTables(p) ==
    /\ OpAt(p, 1) = Lock("SERIAL1") /\ OpAt(p, 2) = Unlock("SERIAL1")
    /\ OpAt(p, 3) = Load("GDT")
    /\ OpAt(p, 4) = Lock("SERIAL1") /\ OpAt(p, 5) = Unlock("SERIAL1")
    /\ OpAt(p, 6) = Load("IDT")
    /\ OpAt(p, 7) = Lock("SERIAL1") /\ OpAt(p, 8) = Unlock("SERIAL1")
StartsWithInit(p) ==
    /\ StartsWithTables(p)
    /\ OpAt(p, 9) = Lock("ALLOCATOR") /\ OpAt(p, 10) = Unlock("ALLOCATOR")
    /\ OpAt(p, 11) = Lock("SERIAL1") /\ OpAt(p, 12) = Unlock("SERIAL1")

LEMMA KernelOps ==
    /\ StartsWithInit("kernel") /\ Size("kernel") = 18
    /\ OpAt("kernel", 13) = Lock("WRITER") /\ OpAt("kernel", 14) = Unlock("WRITER")
    /\ OpAt("kernel", 15) = Lock("SERIAL1") /\ OpAt("kernel", 16) = Unlock("SERIAL1")
    /\ OpAt("kernel", 17) = Sti /\ OpAt("kernel", 18) = Return
<1>1. Program("kernel") = KernelMain
  BY DEF Program, Binaries, Turn, TestBody, Faults
<1> QED
  BY <1>1 DEF OpAt, Size, StartsWithInit, StartsWithTables,
             InitKernel, InitTables, KernelMain, Hold

LEMMA SuiteOps ==
    /\ StartsWithInit("suite") /\ Size("suite") = 25
    /\ OpAt("suite", 13) = Lock("SERIAL1") /\ OpAt("suite", 14) = Unlock("SERIAL1")
    /\ OpAt("suite", 15) = Lock("SERIAL1") /\ OpAt("suite", 16) = Unlock("SERIAL1")
    /\ OpAt("suite", 17) = Call("test")
    /\ OpAt("suite", 18) = Lock("SERIAL1") /\ OpAt("suite", 19) = Unlock("SERIAL1")
    /\ OpAt("suite", 20) = Lock("SERIAL1") /\ OpAt("suite", 21) = Unlock("SERIAL1")
    /\ OpAt("suite", 22) = Call("test")
    /\ OpAt("suite", 23) = Lock("SERIAL1") /\ OpAt("suite", 24) = Unlock("SERIAL1")
    /\ OpAt("suite", 25) = Exit("Success")
<1>1. Program("suite") = InitKernel \o Suite
  BY DEF Program, Main, Binaries, Turn, TestBody, Faults
<1> QED
  BY <1>1 DEF OpAt, Size, StartsWithInit, StartsWithTables,
             InitKernel, InitTables, Suite, RunTest, Hold

LEMMA EmptySuiteOps ==
    /\ StartsWithInit("empty_suite") /\ Size("empty_suite") = 15
    /\ OpAt("empty_suite", 13) = Lock("SERIAL1") /\ OpAt("empty_suite", 14) = Unlock("SERIAL1")
    /\ OpAt("empty_suite", 15) = Exit("Success")
<1>1. Program("empty_suite") = InitKernel \o EmptySuite
  BY DEF Program, Main, Binaries, Turn, TestBody, Faults
<1> QED
  BY <1>1 DEF OpAt, Size, StartsWithInit, StartsWithTables,
             InitKernel, InitTables, EmptySuite, Hold

LEMMA FaultTestOps ==
    ASSUME NEW b \in FaultTests
    PROVE  /\ StartsWithInit(b) /\ Size(b) = 17
           /\ OpAt(b, 13) = Load("TEST_IDT")
           /\ OpAt(b, 14) = Raise(IF b = "page_fault" THEN "#PF" ELSE "#DF")
           /\ OpAt(b, 15) = Lock("SERIAL1") /\ OpAt(b, 16) = Unlock("SERIAL1")
           /\ OpAt(b, 17) = Exit("Failed")
<1> DEFINE e == IF b = "page_fault" THEN "#PF" ELSE "#DF"
<1>1. Program(b) = InitKernel \o AwaitFault(e)
  BY DEF Program, Main, Binaries, Turn, TestBody, Faults, FaultTests
<1> HIDE DEF e
<1>3. /\ StartsWithInit(b) /\ Size(b) = 17
      /\ OpAt(b, 13) = Load("TEST_IDT") /\ OpAt(b, 14) = Raise(e)
      /\ OpAt(b, 15) = Lock("SERIAL1") /\ OpAt(b, 16) = Unlock("SERIAL1")
      /\ OpAt(b, 17) = Exit("Failed")
  BY <1>1 DEF OpAt, Size, StartsWithInit, StartsWithTables,
             InitKernel, InitTables, AwaitFault, Hold
<1> QED
  BY <1>3 DEF e

LEMMA ShouldPanicOps ==
    /\ StartsWithInit("should_panic") /\ Size("should_panic") = 18
    /\ OpAt("should_panic", 13) = Lock("SERIAL1") /\ OpAt("should_panic", 14) = Unlock("SERIAL1")
    /\ OpAt("should_panic", 15) = Raise("panic")
    /\ OpAt("should_panic", 16) = Lock("SERIAL1") /\ OpAt("should_panic", 17) = Unlock("SERIAL1")
    /\ OpAt("should_panic", 18) = Exit("Failed")
<1>1. Program("should_panic") = InitKernel \o AwaitPanic
  BY DEF Program, Main, Binaries, Turn, TestBody, Faults
<1> QED
  BY <1>1 DEF OpAt, Size, StartsWithInit, StartsWithTables,
             InitKernel, InitTables, AwaitPanic, Hold

LEMMA OutOfMemoryOps ==
    /\ Size("out_of_memory") = 9
    /\ StartsWithTables("out_of_memory")
    /\ OpAt("out_of_memory", 9) = Raise("panic")
<1>1. Program("out_of_memory") = InitOutOfMemory
  BY DEF Program, Binaries, Turn, TestBody, Faults
<1> QED
  BY <1>1 DEF OpAt, Size, StartsWithTables, InitOutOfMemory, InitTables, Hold

(* The ends of every turn of the idle loop. *)
IsTurn(p) ==
    /\ Size(p) \in {10, 11, 21}
    /\ OpAt(p, 1) = Cli
    /\ OpAt(p, 2) = Lock("WRITER") /\ OpAt(p, 3) = Unlock("WRITER")
    /\ OpAt(p, 4) = Lock("LINE")
    /\ OpAt(p, Size(p) - 4) = Unlock("LINE")
    /\ OpAt(p, Size(p) - 3) = Lock("WRITER") /\ OpAt(p, Size(p) - 2) = Unlock("WRITER")
    /\ OpAt(p, Size(p) - 1) = Sti
    /\ OpAt(p, Size(p)) = Return

LEMMA PrintOps ==
    /\ IsTurn("print") /\ Size("print") = 11
    /\ OpAt("print", 5) = Lock("WRITER") /\ OpAt("print", 6) = Unlock("WRITER")
<1>1. Program("print") = FeedEnter(Hold("WRITER"))
  BY DEF Program, Binaries, Turn, TestBody, Faults
<1>2. /\ Size("print") = 11
      /\ OpAt("print", 1) = Cli
      /\ OpAt("print", 2) = Lock("WRITER") /\ OpAt("print", 3) = Unlock("WRITER")
      /\ OpAt("print", 4) = Lock("LINE") /\ OpAt("print", 7) = Unlock("LINE")
      /\ OpAt("print", 8) = Lock("WRITER") /\ OpAt("print", 9) = Unlock("WRITER")
      /\ OpAt("print", 10) = Sti
      /\ OpAt("print", 11) = Return
      /\ OpAt("print", 5) = Lock("WRITER") /\ OpAt("print", 6) = Unlock("WRITER")
  BY <1>1 DEF OpAt, Size, FeedEnter, Hold
<1> QED
  BY <1>2 DEF IsTurn

LEMMA MemOps ==
    /\ IsTurn("mem") /\ Size("mem") = 21
    /\ OpAt("mem", 5) = Lock("WRITER") /\ OpAt("mem", 6) = Unlock("WRITER")
    /\ OpAt("mem", 7) = Lock("ALLOCATOR") /\ OpAt("mem", 8) = Unlock("ALLOCATOR")
    /\ OpAt("mem", 9) = Lock("WRITER") /\ OpAt("mem", 10) = Unlock("WRITER")
    /\ OpAt("mem", 11) = Lock("ALLOCATOR") /\ OpAt("mem", 12) = Unlock("ALLOCATOR")
    /\ OpAt("mem", 13) = Lock("WRITER") /\ OpAt("mem", 14) = Unlock("WRITER")
    /\ OpAt("mem", 15) = Lock("ALLOCATOR") /\ OpAt("mem", 16) = Unlock("ALLOCATOR")
<1>1. Program("mem") = FeedEnter(CmdMem)
  BY DEF Program, Binaries, Turn, TestBody, Faults
<1>2. /\ Size("mem") = 21
      /\ OpAt("mem", 1) = Cli
      /\ OpAt("mem", 2) = Lock("WRITER") /\ OpAt("mem", 3) = Unlock("WRITER")
      /\ OpAt("mem", 4) = Lock("LINE") /\ OpAt("mem", 17) = Unlock("LINE")
      /\ OpAt("mem", 18) = Lock("WRITER") /\ OpAt("mem", 19) = Unlock("WRITER")
      /\ OpAt("mem", 20) = Sti
      /\ OpAt("mem", 21) = Return
      /\ OpAt("mem", 5) = Lock("WRITER") /\ OpAt("mem", 6) = Unlock("WRITER")
      /\ OpAt("mem", 7) = Lock("ALLOCATOR") /\ OpAt("mem", 8) = Unlock("ALLOCATOR")
      /\ OpAt("mem", 9) = Lock("WRITER") /\ OpAt("mem", 10) = Unlock("WRITER")
      /\ OpAt("mem", 11) = Lock("ALLOCATOR") /\ OpAt("mem", 12) = Unlock("ALLOCATOR")
      /\ OpAt("mem", 13) = Lock("WRITER") /\ OpAt("mem", 14) = Unlock("WRITER")
      /\ OpAt("mem", 15) = Lock("ALLOCATOR") /\ OpAt("mem", 16) = Unlock("ALLOCATOR")
  BY <1>1 DEF OpAt, Size, FeedEnter, CmdMem, Hold
<1> QED
  BY <1>2 DEF IsTurn

(* The event a command raises. *)
EventOf(c) ==
    CASE c = "panic" -> "panic"
      [] c = "pagina" -> "#PF"
      [] c = "pilha" -> "#DF"
      [] c = "opcode" -> "#UD"
      [] c = "protecao" -> "#GP"
      [] OTHER -> "#BP"

LEMMA FeedEnterOps ==
    ASSUME NEW op
    PROVE  LET q == FeedEnter(<<op>>)
           IN  /\ Len(q) = 10
               /\ q[1] = Cli /\ q[2] = Lock("WRITER") /\ q[3] = Unlock("WRITER")
               /\ q[4] = Lock("LINE") /\ q[5] = op /\ q[6] = Unlock("LINE")
               /\ q[7] = Lock("WRITER") /\ q[8] = Unlock("WRITER")
               /\ q[9] = Sti /\ q[10] = Return
BY DEF FeedEnter, Hold

LEMMA RaisingOps ==
    ASSUME NEW c \in Turns \ {"print", "mem"}
    PROVE  IsTurn(c) /\ Size(c) = 10 /\ OpAt(c, 5) = Raise(EventOf(c))
<1> DEFINE e == EventOf(c)
<1>1. Program(c) = FeedEnter(<<Raise(e)>>)
  <2>1. CASE c = "panic"
    BY <2>1 DEF Program, Binaries, Turn, TestBody, Faults, EventOf
  <2>2. CASE c = "pagina"
    BY <2>2 DEF Program, Binaries, Turn, TestBody, Faults, EventOf
  <2>3. CASE c = "pilha"
    BY <2>3 DEF Program, Binaries, Turn, TestBody, Faults, EventOf
  <2>4. CASE c = "opcode"
    BY <2>4 DEF Program, Binaries, Turn, TestBody, Faults, EventOf
  <2>5. CASE c = "protecao"
    BY <2>5 DEF Program, Binaries, Turn, TestBody, Faults, EventOf
  <2>6. CASE c = "breakpoint"
    BY <2>6 DEF Program, Binaries, Turn, TestBody, Faults, EventOf
  <2> QED
    BY <2>1, <2>2, <2>3, <2>4, <2>5, <2>6 DEF Turns
<1> HIDE DEF e
<1>2. /\ Size(c) = 10
      /\ OpAt(c, 1) = Cli
      /\ OpAt(c, 2) = Lock("WRITER") /\ OpAt(c, 3) = Unlock("WRITER")
      /\ OpAt(c, 4) = Lock("LINE") /\ OpAt(c, 6) = Unlock("LINE")
      /\ OpAt(c, 7) = Lock("WRITER") /\ OpAt(c, 8) = Unlock("WRITER")
      /\ OpAt(c, 9) = Sti
      /\ OpAt(c, 10) = Return
      /\ OpAt(c, 5) = Raise(e)
  BY <1>1, FeedEnterOps DEF OpAt, Size
<1>3. /\ Size(c) - 4 = 6 /\ Size(c) - 3 = 7 /\ Size(c) - 2 = 8 /\ Size(c) - 1 = 9
      /\ Size(c) \in {10, 11, 21}
  BY <1>2
<1>4. IsTurn(c)
  BY <1>2, <1>3, Zenon DEF IsTurn
<1> QED
  BY <1>2, <1>4 DEF e

LEMMA TestOps ==
    /\ Size("returns") = 5
    /\ OpAt("returns", 1) = Lock("WRITER") /\ OpAt("returns", 2) = Unlock("WRITER")
    /\ OpAt("returns", 3) = Lock("ALLOCATOR") /\ OpAt("returns", 4) = Unlock("ALLOCATOR")
    /\ OpAt("returns", 5) = Return
    /\ Size("int3") = 2 /\ OpAt("int3", 1) = Raise("#BP") /\ OpAt("int3", 2) = Return
    /\ Size("assertion") = 1 /\ OpAt("assertion", 1) = Raise("panic")
    /\ Size("assertion_on_screen") = 2
    /\ OpAt("assertion_on_screen", 1) = Lock("WRITER")
    /\ OpAt("assertion_on_screen", 2) = Raise("panic")
    /\ Size("heap_exhausted") = 3
    /\ OpAt("heap_exhausted", 1) = Lock("ALLOCATOR")
    /\ OpAt("heap_exhausted", 2) = Unlock("ALLOCATOR")
    /\ OpAt("heap_exhausted", 3) = Raise("panic")
    /\ Size("fault") = 2 /\ OpAt("fault", 1) = Raise("#PF") /\ OpAt("fault", 2) = Return
<1>1. Program("returns") = Hold("WRITER") \o Hold("ALLOCATOR") \o <<Return>>
  BY DEF Program, Binaries, Turn, TestBody, Faults
<1>2. Program("int3") = <<Raise("#BP"), Return>>
  BY DEF Program, Binaries, Turn, TestBody, Faults
<1>3. Program("assertion") = <<Raise("panic")>>
  BY DEF Program, Binaries, Turn, TestBody, Faults
<1>4. Program("assertion_on_screen") = <<Lock("WRITER"), Raise("panic")>>
  BY DEF Program, Binaries, Turn, TestBody, Faults
<1>5. Program("heap_exhausted") = Hold("ALLOCATOR") \o <<Raise("panic")>>
  BY DEF Program, Binaries, Turn, TestBody, Faults
<1>6. Program("fault") = <<Raise("#PF"), Return>>
  BY DEF Program, Binaries, Turn, TestBody, Faults
<1> QED
  BY <1>1, <1>2, <1>3, <1>4, <1>5, <1>6 DEF OpAt, Size, Hold

LEMMA BreakpointOps ==
    /\ Size("#BP") = 5
    /\ OpAt("#BP", 1) = Lock("SERIAL1") /\ OpAt("#BP", 2) = Unlock("SERIAL1")
    /\ OpAt("#BP", 3) = Lock("WRITER") /\ OpAt("#BP", 4) = Unlock("WRITER")
    /\ OpAt("#BP", 5) = Return
<1>1. Program("#BP") = BreakpointHandler
  BY DEF Program, Binaries, Turn, TestBody, Faults
<1> QED
  BY <1>1 DEF OpAt, Size, BreakpointHandler, Hold

LEMMA EntryOps ==
    ASSUME NEW p \in Entries
    PROVE  Size(p) = 1 /\ OpAt(p, 1) = Enter(IF p = "panic_handler" THEN "panic" ELSE "fault")
<1>1. CASE p = "panic_handler"
  <2>1. Program(p) = <<Enter("panic")>>
    BY <1>1 DEF Program, Binaries, Turn, TestBody, Faults
  <2> QED
    BY <1>1, <2>1 DEF OpAt, Size
<1>2. CASE p \in Faults
  <2>1. Program(p) = <<Enter("fault")>>
    BY <1>2 DEF Program, Binaries, Turn, TestBody, Faults
  <2> QED
    BY <1>2, <2>1 DEF OpAt, Size, Faults
<1> QED
  BY <1>1, <1>2 DEF Entries

LEMMA FirstOps ==
    ASSUME NEW p \in Firsts
    PROVE  /\ Size(p) = 5
           /\ OpAt(p, 1) = Lock("SERIAL1") /\ OpAt(p, 2) = Unlock("SERIAL1")
           /\ OpAt(p, 3) = Lock("WRITER") /\ OpAt(p, 4) = Unlock("WRITER")
           /\ OpAt(p, 5) = Halt
<1>1. CASE p = "panic_first"
  <2>1. Program(p) = PanicHandle
    BY <1>1 DEF Program, Binaries, Turn, TestBody, Faults
  <2> QED
    BY <2>1 DEF OpAt, Size, PanicHandle, Hold
<1>2. CASE p = "fault_first"
  <2>1. Program(p) = FatalException
    BY <1>2 DEF Program, Binaries, Turn, TestBody, Faults
  <2> QED
    BY <2>1 DEF OpAt, Size, FatalException, Hold
<1> QED
  BY <1>1, <1>2 DEF Firsts

LEMMA AgainOps ==
    /\ Size("panic_again") = 1 /\ OpAt("panic_again", 1) = Halt
    /\ Size("fault_again") = 3
    /\ OpAt("fault_again", 1) = Lock("SERIAL1") /\ OpAt("fault_again", 2) = Unlock("SERIAL1")
    /\ OpAt("fault_again", 3) = Halt
<1>1. Program("panic_again") = PanicAgain
  BY DEF Program, Binaries, Turn, TestBody, Faults
<1>2. Program("fault_again") = FatalExceptionAgain
  BY DEF Program, Binaries, Turn, TestBody, Faults
<1> QED
  BY <1>1, <1>2 DEF OpAt, Size, PanicAgain, FatalExceptionAgain, Hold

LEMMA TestHandlerOps ==
    /\ Size("test_panic_handler") = 5
    /\ OpAt("test_panic_handler", 1) = Lock("SERIAL1")
    /\ OpAt("test_panic_handler", 2) = Unlock("SERIAL1")
    /\ OpAt("test_panic_handler", 3) = Lock("SERIAL1")
    /\ OpAt("test_panic_handler", 4) = Unlock("SERIAL1")
    /\ OpAt("test_panic_handler", 5) = Exit("Failed")
    /\ Size("should_panic_handler") = 3
    /\ OpAt("should_panic_handler", 1) = Lock("SERIAL1")
    /\ OpAt("should_panic_handler", 2) = Unlock("SERIAL1")
    /\ OpAt("should_panic_handler", 3) = Exit("Success")
    /\ Size("test_fault_handler") = 1 /\ OpAt("test_fault_handler", 1) = Exit("Success")
    /\ Size("wrong_address") = 3
    /\ OpAt("wrong_address", 1) = Lock("SERIAL1")
    /\ OpAt("wrong_address", 2) = Unlock("SERIAL1")
    /\ OpAt("wrong_address", 3) = Exit("Failed")
<1>1. Program("test_panic_handler") = TestPanicHandler
  BY DEF Program, Binaries, Turn, TestBody, Faults
<1>2. Program("should_panic_handler") = ShouldPanicHandler
  BY DEF Program, Binaries, Turn, TestBody, Faults
<1>3. Program("test_fault_handler") = TestFaultHandler
  BY DEF Program, Binaries, Turn, TestBody, Faults
<1>4. Program("wrong_address") = WrongAddress
  BY DEF Program, Binaries, Turn, TestBody, Faults
<1> QED
  BY <1>1, <1>2, <1>3, <1>4
     DEF OpAt, Size, TestPanicHandler, ShouldPanicHandler, TestFaultHandler, WrongAddress, Hold

-----------------------------------------------------------------------------
(* What the operations of each kind of program can be.                     *)

KindAt(p, n) == OpAt(p, n)[1]
ArgAt(p, n) == OpAt(p, n)[2]

(* A program of the boot: what it raises and how it ends. *)
BootRaises(p, n, e) ==
    \/ p = "out_of_memory" /\ n = 9 /\ e = "panic"
    \/ p = "page_fault" /\ n = 14 /\ e = "#PF"
    \/ p = "double_fault" /\ n = 14 /\ e = "#DF"
    \/ p = "should_panic" /\ n = 15 /\ e = "panic"
BootLoads(p, n, t) ==
    \/ n = 3 /\ t = "GDT"
    \/ n = 6 /\ t = "IDT"
    \/ n = 13 /\ p \in FaultTests /\ t = "TEST_IDT"
BootExits(p, n, code) ==
    \/ p = "suite" /\ n = 25 /\ code = "Success"
    \/ p = "empty_suite" /\ code = "Success"
    \/ p \in FaultTests \cup {"should_panic"} /\ code = "Failed"

BootOp(p, n) ==
    LET k == KindAt(p, n)
        a == ArgAt(p, n)
    IN  /\ k \in {"lock", "unlock", "load", "sti", "call", "raise", "exit", "return"}
        /\ k \in {"lock", "unlock", "load", "sti", "call"} => n < Size(p)
        /\ k = "lock" => a \in Locks \ {"LINE"} /\ OpAt(p, n + 1) = Unlock(a)
        /\ k = "unlock" => a \in Locks \ {"LINE"} /\ OpAt(p, n) = Unlock(a)
        /\ k = "load" => BootLoads(p, n, a)
        /\ k # "load" => n \notin {3, 6} /\ ~(n = 13 /\ p \in FaultTests)
        /\ k = "sti" => p = "kernel" /\ n = 17
        /\ p = "kernel" /\ n = 17 => k = "sti"
        /\ k = "call" => p = "suite" /\ n \in {17, 22}
        /\ p = "suite" /\ n \in {17, 22} => k = "call"
        /\ k = "raise" => BootRaises(p, n, a)
        /\ k = "exit" => BootExits(p, n, a)
        /\ k = "return" => p = "kernel" /\ n = 18

LEMMA OpKinds ==
    /\ \A l : Lock(l)[1] = "lock" /\ Lock(l)[2] = l
    /\ \A l : Unlock(l)[1] = "unlock" /\ Unlock(l)[2] = l
    /\ \A t : Load(t)[1] = "load" /\ Load(t)[2] = t
    /\ \A e : Raise(e)[1] = "raise" /\ Raise(e)[2] = e
    /\ \A e : Enter(e)[1] = "enter" /\ Enter(e)[2] = e
    /\ \A f : Call(f)[1] = "call"
    /\ \A c : Exit(c)[1] = "exit" /\ Exit(c)[2] = c
    /\ Cli[1] = "cli" /\ Sti[1] = "sti" /\ Halt[1] = "halt" /\ Return[1] = "return"
BY DEF Lock, Unlock, Load, Raise, Enter, Call, Exit, Cli, Sti, Halt, Return

LEMMA BootOps ==
    ASSUME NEW p \in Inits, NEW n \in 1 .. Size(p)
    PROVE  BootOp(p, n)
<1>1. CASE p = "kernel"
  BY <1>1, KernelOps, OpKinds
     DEF BootOp, KindAt, ArgAt, StartsWithInit, StartsWithTables, Locks, FaultTests,
         BootLoads, BootRaises, BootExits
<1>2. CASE p = "suite"
  BY <1>2, SuiteOps, OpKinds
     DEF BootOp, KindAt, ArgAt, StartsWithInit, StartsWithTables, Locks, FaultTests,
         BootLoads, BootRaises, BootExits
<1>3. CASE p = "empty_suite"
  BY <1>3, EmptySuiteOps, OpKinds
     DEF BootOp, KindAt, ArgAt, StartsWithInit, StartsWithTables, Locks, FaultTests,
         BootLoads, BootRaises, BootExits
<1>4. CASE p \in FaultTests
  BY <1>4, FaultTestOps, OpKinds
     DEF BootOp, KindAt, ArgAt, StartsWithInit, StartsWithTables, Locks, FaultTests,
         BootLoads, BootRaises, BootExits
<1>5. CASE p = "should_panic"
  BY <1>5, ShouldPanicOps, OpKinds
     DEF BootOp, KindAt, ArgAt, StartsWithInit, StartsWithTables, Locks, FaultTests,
         BootLoads, BootRaises, BootExits
<1>6. CASE p = "out_of_memory"
  BY <1>6, OutOfMemoryOps, OpKinds
     DEF BootOp, KindAt, ArgAt, StartsWithTables, Locks, FaultTests,
         BootLoads, BootRaises, BootExits
<1> QED
  BY <1>1, <1>2, <1>3, <1>4, <1>5, <1>6 DEF Inits, Binaries, FaultTests

(* A turn of the idle loop *)
TurnOp(p, n) ==
    LET k == KindAt(p, n)
        a == ArgAt(p, n)
    IN  /\ Size(p) \in {10, 11, 21}
        /\ k \in {"cli", "lock", "unlock", "raise", "sti", "return"}
        /\ k = "cli" <=> n = 1
        /\ k = "sti" <=> n = Size(p) - 1
        /\ k = "return" <=> n = Size(p)
        /\ k = "lock" =>
              \/ a = "LINE" /\ n = 4
              \/ a \in {"WRITER", "ALLOCATOR"} /\ n # 4 /\ OpAt(p, n + 1) = Unlock(a)
        /\ k = "unlock" => a \in Locks /\ OpAt(p, n) = Unlock(a)
        /\ OpAt(p, n) = Unlock("LINE") <=> n = Size(p) - 4
        /\ n = 4 => k = "lock"
        /\ k = "raise" => n = 5 /\ Size(p) = 10 /\ a = EventOf(p)

LEMMA TurnOps ==
    ASSUME NEW p \in Turns, NEW n \in 1 .. Size(p)
    PROVE  TurnOp(p, n)
<1>1. CASE p = "print"
  BY <1>1, PrintOps, OpKinds DEF TurnOp, IsTurn, KindAt, ArgAt, Locks
<1>2. CASE p = "mem"
  BY <1>2, MemOps, OpKinds DEF TurnOp, IsTurn, KindAt, ArgAt, Locks
<1>3. CASE p \in Turns \ {"print", "mem"}
  BY <1>3, RaisingOps, OpKinds DEF TurnOp, IsTurn, KindAt, ArgAt, Locks
<1> QED
  BY <1>1, <1>2, <1>3 DEF Turns

(* The body of a test *)
TestOp(p, n) ==
    LET k == KindAt(p, n)
        a == ArgAt(p, n)
    IN  /\ k \in {"lock", "unlock", "raise", "return"}
        /\ k \in {"lock", "unlock"} => n < Size(p)
        /\ k = "lock" =>
              /\ a \in {"WRITER", "ALLOCATOR"}
              /\ OpAt(p, n + 1) = Unlock(a)
                    \/ (p = "assertion_on_screen" /\ n = 1 /\ a = "WRITER")
        /\ k = "unlock" => a \in Locks \ {"LINE"} /\ OpAt(p, n) = Unlock(a)
        /\ k = "raise" =>
              \/ a = "#BP" /\ p = "int3" /\ n = 1
              \/ a = "panic"
              \/ a = "#PF" /\ p = "fault"
        /\ p = "assertion_on_screen" => k = (IF n = 1 THEN "lock" ELSE "raise")

LEMMA TestBodyOps ==
    ASSUME NEW p \in Tests, NEW n \in 1 .. Size(p)
    PROVE  TestOp(p, n)
BY TestOps, OpKinds DEF Tests, TestOp, KindAt, ArgAt, Locks

(* breakpoint_handler *)
BreakpointOp(n) ==
    LET k == KindAt("#BP", n)
        a == ArgAt("#BP", n)
    IN  /\ k \in {"lock", "unlock", "return"}
        /\ k \in {"lock", "unlock"} => n < Size("#BP")
        /\ k = "lock" => a \in {"SERIAL1", "WRITER"} /\ OpAt("#BP", n + 1) = Unlock(a)
        /\ k = "unlock" => a \in {"SERIAL1", "WRITER"} /\ OpAt("#BP", n) = Unlock(a)

LEMMA BreakpointHandlerOps ==
    ASSUME NEW n \in 1 .. Size("#BP")
    PROVE  BreakpointOp(n)
BY BreakpointOps, OpKinds DEF BreakpointOp, KindAt, ArgAt

(* A handler that never returns *)
FatalOp(p, n) ==
    LET k == KindAt(p, n)
        a == ArgAt(p, n)
    IN  /\ k \in {"lock", "unlock", "enter", "halt", "exit"}
        /\ k \in {"lock", "unlock"} => n < Size(p)
        /\ k = "lock" =>
              /\ a \in {"SERIAL1", "WRITER"} /\ OpAt(p, n + 1) = Unlock(a)
              /\ a = "WRITER" => p \in Firsts
        /\ k = "unlock" => a \in {"SERIAL1", "WRITER"} /\ OpAt(p, n) = Unlock(a)
        /\ k = "unlock" /\ p \in Firsts =>
              (n = 2 /\ a = "SERIAL1") \/ (n = 4 /\ a = "WRITER")
        /\ p \in Firsts /\ n \in {2, 4} => k = "unlock"
        /\ k = "enter" <=> p \in Entries
        /\ k = "enter" => a = (IF p = "panic_handler" THEN "panic" ELSE "fault")
        /\ k = "halt" => p \in Agains \/ (p \in Firsts /\ n = 5)
        /\ k = "exit" =>
              \/ p \in Judges \ {"wrong_address"} /\ a = "Success"
              \/ p \in {"test_panic_handler", "wrong_address"} /\ a = "Failed"

LEMMA FatalOps ==
    ASSUME NEW p \in Fatals, NEW n \in 1 .. Size(p)
    PROVE  FatalOp(p, n)
<1>1. CASE p \in Entries
  BY <1>1, EntryOps, OpKinds
     DEF FatalOp, KindAt, ArgAt, Entries, Firsts, Agains, Judges, Faults
<1>2. CASE p \in Firsts
  BY <1>2, FirstOps, OpKinds
     DEF FatalOp, KindAt, ArgAt, Entries, Firsts, Agains, Judges, Faults
<1>3. CASE p \in Agains
  BY <1>3, AgainOps, OpKinds
     DEF FatalOp, KindAt, ArgAt, Entries, Firsts, Agains, Judges, Faults
<1>4. CASE p \in Judges \cup {"test_panic_handler"}
  BY <1>4, TestHandlerOps, OpKinds
     DEF FatalOp, KindAt, ArgAt, Entries, Firsts, Agains, Judges, Faults
<1> QED
  BY <1>1, <1>2, <1>3, <1>4 DEF Fatals

LEMMA Sizes == \A p \in Names : Size(p) \in Nat /\ Size(p) >= 1
<1> SUFFICES ASSUME NEW p \in Names PROVE Size(p) \in Nat /\ Size(p) >= 1
  OBVIOUS
<1>1. CASE p \in Inits
  BY <1>1, KernelOps, SuiteOps, EmptySuiteOps, FaultTestOps, ShouldPanicOps, OutOfMemoryOps
     DEF Inits, Binaries, FaultTests
<1>2. CASE p \in Turns
  BY <1>2, PrintOps, MemOps, RaisingOps DEF Turns
<1>3. CASE p \in Tests \cup {"#BP"}
  BY <1>3, TestOps, BreakpointOps DEF Tests
<1>4. CASE p \in Fatals
  BY <1>4, EntryOps, FirstOps, AgainOps, TestHandlerOps DEF Fatals, Agains, Judges
<1> QED
  BY <1>1, <1>2, <1>3, <1>4 DEF Names

(* The names KernelPrograms gives its tables, and those of the classes. *)
LEMMA NamesOfPrograms ==
    /\ DOMAIN Turn = Turns /\ DOMAIN TestBody = Tests
    /\ Turns \cap Inits = {} /\ Turns \cap Tests = {} /\ Inits \cap Tests = {}
    /\ "#BP" \notin Turns \cup Inits \cup Tests \cup Fatals
    /\ (Turns \cup Inits \cup Tests) \cap Fatals = {}
    /\ Entries \cap (Firsts \cup Agains \cup Judges) = {}
    /\ Firsts \cap (Agains \cup Judges) = {} /\ Agains \cap Judges = {}
    /\ "test_panic_handler" \notin Entries \cup Firsts \cup Agains \cup Judges
BY DEF Turn, TestBody, Turns, Tests, Inits, Binaries, Fatals, Entries, Faults, Firsts,
       Agains, Judges

-----------------------------------------------------------------------------
(* The stack.                                                              *)

(* The top of s is the frame of the stack, one operation further. *)
OneFurther(s) ==
    /\ s \in Seq(Frames) /\ Len(s) = Depth
    /\ \A i \in 1 .. Depth - 1 : s[i] = frames[i]
    /\ s[Depth].program = TopProgram /\ s[Depth].flag = frames[Depth].flag
    /\ s[Depth].next = TopNext + 1

LEMMA AdvancedFrames ==
    ASSUME Typed, Depth > 0
    PROVE  OneFurther(Advanced)
<1>1. Depth \in 1 .. Len(frames) /\ frames \in Seq(Frames)
  BY DEF Typed, StackTyped, Depth
<1>2. frames[Depth] \in Frames
  BY <1>1, ElementOfSeq
<1>3. [frames[Depth] EXCEPT !.next = @ + 1] \in Frames
  BY <1>2 DEF Frames
<1> QED
  BY <1>1, <1>2, <1>3 DEF Advanced, OneFurther, TopProgram, TopNext, Frames, Depth

(* A step that moves the top one operation further. *)
Advances ==
    /\ StackTyped' /\ Depth' = Depth
    /\ \A i \in 1 .. Depth :
          frames'[i].program = frames[i].program /\ frames'[i].flag = frames[i].flag
    /\ \A i \in 1 .. Depth - 1 : frames'[i].next = frames[i].next
    /\ frames'[Depth].next = frames[Depth].next + 1
    /\ TopProgram' = TopProgram /\ TopNext' = TopNext + 1

LEMMA AdvancedStack ==
    ASSUME Typed, Depth > 0, TopNext <= Size(TopProgram), frames' = Advanced
    PROVE  Advances
<1>1. /\ frames' \in Seq(Frames) /\ Len(frames') = Depth
      /\ \A i \in 1 .. Depth - 1 : frames'[i] = frames[i]
      /\ frames'[Depth].program = TopProgram /\ frames'[Depth].flag = frames[Depth].flag
      /\ frames'[Depth].next = TopNext + 1
  <2>1. OneFurther(Advanced)
    BY AdvancedFrames
  <2> QED
    BY <2>1 DEF OneFurther
<1>2. Depth \in Nat /\ frames \in Seq(Frames)
  BY DEF Typed, StackTyped, Depth
<1>3. frames[Depth] \in Frames /\ TopProgram \in Names /\ TopNext \in Nat
  <2>1. Depth \in 1 .. Len(frames)
    BY <1>2 DEF Depth
  <2>2. frames[Depth] \in Frames
    BY <1>2, <2>1, ElementOfSeq
  <2> QED
    BY <2>2 DEF Frames, TopProgram, TopNext
<1>4. Size(TopProgram) \in Nat
  BY <1>3, Sizes
<1>5. Depth' = Depth
  BY <1>1 DEF Depth
<1>6. /\ \A i \in 1 .. Depth :
            frames'[i].program = frames[i].program /\ frames'[i].flag = frames[i].flag
      /\ \A i \in 1 .. Depth - 1 : frames'[i].next = frames[i].next
      /\ frames'[Depth].next = frames[Depth].next + 1
  BY <1>1, <1>2 DEF TopProgram, TopNext
<1>7. TopProgram' = TopProgram /\ TopNext' = TopNext + 1
  BY <1>2, <1>5, <1>6 DEF TopProgram, TopNext
<1>8. StackTyped'
  <2>1. frames' \in Seq(Frames)
    BY <1>1
  <2>2. ASSUME NEW i \in 1 .. Depth
        PROVE  frames'[i].next \in 1 .. Size(frames'[i].program) + 1
    <3>1. CASE i = Depth
      <4>1. frames'[i].next = TopNext + 1 /\ frames'[i].program = TopProgram
        BY <1>6, <3>1 DEF TopProgram, TopNext
      <4> QED
        BY <1>3, <1>4, <4>1
    <3>2. CASE i # Depth
      <4>1. frames'[i].next = frames[i].next /\ frames'[i].program = frames[i].program
        BY <1>2, <1>6, <3>2
      <4> QED
        BY <4>1 DEF Typed, StackTyped
    <3> QED
      BY <3>1, <3>2
  <2> QED
    BY <1>5, <2>1, <2>2 DEF StackTyped
<1> QED
  BY <1>5, <1>6, <1>7, <1>8 DEF Advances

(* A frame on top of s. *)
OnTop(t, s, p, fl) ==
    /\ t \in Seq(Frames) /\ Len(t) = Len(s) + 1
    /\ \A i \in 1 .. Len(s) : t[i] = s[i]
    /\ t[Len(s) + 1].program = p /\ t[Len(s) + 1].next = 1 /\ t[Len(s) + 1].flag = fl

LEMMA AppendFrame ==
    ASSUME NEW s \in Seq(Frames), NEW p \in Names, NEW fl \in BOOLEAN
    PROVE  OnTop(Append(s, Frame(p, fl)), s, p, fl)
<1>1. Frame(p, fl) \in Frames
  BY DEF Frame, Frames
<1>2. Frame(p, fl).program = p /\ Frame(p, fl).next = 1 /\ Frame(p, fl).flag = fl
  BY DEF Frame
<1> QED
  BY <1>1, <1>2, AppendProperties DEF OnTop

(* The operation the top stands at. *)
LEMMA TopOperation ==
    ASSUME NEW k, At(k), Typed
    PROVE  /\ cpu = "running" /\ Depth > 0
           /\ KindAt(TopProgram, TopNext) = k
           /\ Op = OpAt(TopProgram, TopNext) /\ Op[2] = ArgAt(TopProgram, TopNext)
           /\ TopProgram \in Names /\ TopNext \in Nat /\ TopNext >= 1
           /\ frames[Depth] = Top /\ TopProgram = Top.program /\ frames[Depth].flag \in BOOLEAN
<1>1. frames # << >> /\ frames \in Seq(Frames)
  BY DEF At, Typed, StackTyped
<1>2. Depth \in Nat /\ Depth > 0
  BY <1>1, EmptySeq DEF Depth
<1>3. frames[Depth] \in Frames
  BY <1>1, <1>2, ElementOfSeq DEF Depth
<1>4. TopNext >= 1
  BY <1>2 DEF Typed, StackTyped, TopNext
<1> QED
  BY <1>2, <1>3, <1>4
     DEF At, Op, Top, KindAt, ArgAt, OpAt, TopProgram, TopNext, Frames

-----------------------------------------------------------------------------
(* The initial states.                                                     *)

LEMMA InitIInv == Init => IInv
<1> SUFFICES ASSUME Init PROVE IInv
  OBVIOUS
<1>1. PICK p \in {binary, "out_of_memory"} : frames = <<Frame(p, FALSE)>>
  BY DEF Init
<1>2. p \in Inits /\ binary \in Binaries
  BY DEF Init, Inits
<1>3. /\ frames \in Seq(Frames) /\ Depth = 1
      /\ frames[1].program = p /\ frames[1].next = 1 /\ frames[1].flag = FALSE
  <2>1. Frame(p, FALSE) \in Frames
    BY <1>2 DEF Frame, Frames, Names
  <2> QED
    BY <1>1, <2>1 DEF Frame, Depth
<1>4. Size(p) \in Nat /\ Size(p) >= 1
  BY <1>2, Sizes DEF Names
<1>5. Typed
  <2>1. \A l \in Locks : owner[l] = 0
    BY DEF Init
  <2>2. owner \in [Locks -> Nat]
    BY DEF Init
  <2>3. \A i \in 1 .. Depth : frames[i].next \in 1 .. Size(frames[i].program) + 1
    BY <1>3, <1>4
  <2>4. passed \in 0 .. TestsOf(binary)
    BY DEF Init, TestsOf
  <2>5. bugs \in 0 .. MaxFormatBugs
    BY MaxFormatBugsAssumption DEF Init
  <2>6. PANICKING \in BOOLEAN /\ intr_flag \in BOOLEAN /\ tss \in BOOLEAN /\ awaited \in BOOLEAN
    <3>1. PANICKING = FALSE /\ intr_flag = FALSE /\ tss = FALSE /\ awaited = FALSE
      BY DEF Init
    <3> QED
      BY <3>1, Zenon
  <2>7. \A l \in Locks : owner[l] <= Depth
    <3>1. Depth = 1
      BY <1>3
    <3> SUFFICES ASSUME NEW l \in Locks PROVE owner[l] <= Depth
      OBVIOUS
    <3>2. owner[l] = 0
      BY <2>1
    <3> QED
      BY <3>1, <3>2
  <2>8. /\ idt \in {"none", "IDT", "TEST_IDT"} /\ cpu \in {"running", "halted", "exited"}
        /\ exit \in {0, 33, 35}
    BY DEF Init
  <2>9. raised \subseteq Faults \cup {"#BP", "panic"} /\ reported \subseteq {"SERIAL1", "WRITER"}
    BY DEF Init
  <2> QED
    BY <1>2, <1>3, <2>2, <2>3, <2>4, <2>5, <2>6, <2>7, <2>8, <2>9
       DEF Typed, StackTyped, LocksTyped, RestTyped
<1>6. Normal
  <2>1. Shape
    BY <1>3 DEF Shape, Boots
  <2>2. Booting
    BY <1>2, <1>3 DEF Booting
  <2>3. TablesByPosition
    BY <1>3, <2>2 DEF TablesByPosition, IdtAt, Init
  <2>4. FlagByPosition
    BY <1>3, NamesOfPrograms DEF FlagByPosition, Init
  <2>5. PassedByPosition
    BY <1>3 DEF PassedByPosition, PassedAt, Init
  <2>6. LocksAccounted
    BY DEF LocksAccounted, Init, Locks
  <2> QED
    BY <1>3, <1>4, <2>1, <2>3, <2>4, <2>5, <2>6 DEF Normal, Init, TopNext, TopProgram
<1> QED
  BY <1>5, <1>6 DEF IInv, Init

-----------------------------------------------------------------------------
(* Steps of the normal phase.                                              *)

LEMMA NormalTop ==
    ASSUME Typed, Normal, Depth > 0
    PROVE  /\ Depth \in {1, 2, 3}
           /\ frames[1].next \in Nat /\ frames[1].next >= 1
           /\ TopNext \in 1 .. Size(TopProgram)
           /\ binary \in Inits /\ binary \in Binaries
           /\ TopProgram \in Names /\ Size(TopProgram) \in Nat
           /\ \A i \in 1 .. Depth : frames[i] \in Frames
<1>1. Depth \in {1, 2, 3}
  BY DEF Normal, Shape, Idle, Boots, Commands, TestRuns, BreakInCommand, BreakInTest
<1>2. frames \in Seq(Frames)
  BY DEF Typed, StackTyped
<1>3. \A i \in 1 .. Depth : frames[i] \in Frames
  BY <1>2, ElementOfSeq DEF Depth
<1>4. \A i \in 1 .. Depth : frames[i].next \in Nat /\ frames[i].next >= 1 /\ frames[i].program \in Names
  BY <1>3 DEF Typed, StackTyped, Frames
<1>5. frames[1].next \in Nat /\ frames[1].next >= 1
  BY <1>1, <1>4
<1>6. TopNext \in Nat /\ TopNext >= 1 /\ TopProgram \in Names
  BY <1>1, <1>4 DEF TopNext, TopProgram
<1>7. Size(TopProgram) \in Nat /\ TopNext <= Size(TopProgram)
  BY <1>6, Sizes DEF Normal
<1>8. binary \in Binaries /\ binary \in Inits
  BY DEF Typed, RestTyped, Inits
<1> QED
  BY <1>1, <1>3, <1>5, <1>6, <1>7, <1>8

(* Locks change nothing that depends on the position. *)
SamePosition(p, n) ==
    /\ p \in Inits => IdtAt(p, n + 1) = IdtAt(p, n) /\ n # 3
    /\ MaskedAt(p, n + 1) => MaskedAt(p, n)
    /\ PassedAt(p, n + 1) = PassedAt(p, n)

LEMMA LockPosition ==
    ASSUME NEW p \in Inits \cup Turns, NEW n \in 1 .. Size(p), Size(p) \in Nat,
           KindAt(p, n) \in {"lock", "unlock"}
    PROVE  SamePosition(p, n)
<1>1. CASE p \in Inits
  <2>1. BootOp(p, n)
    BY <1>1, BootOps
  <2>2. n \notin {3, 6} /\ ~(n = 13 /\ p \in FaultTests) /\ ~(p = "suite" /\ n \in {17, 22})
    BY <2>1 DEF BootOp
  <2> QED
    BY <1>1, <2>2, NamesOfPrograms DEF SamePosition, IdtAt, MaskedAt, PassedAt
<1>2. CASE p \in Turns
  <2>1. n # 1
    BY <1>2, TurnOps DEF TurnOp
  <2>2. p \notin Inits /\ p # "suite"
    BY <1>2, NamesOfPrograms DEF Turns
  <2> QED
    BY <1>2, <2>1, <2>2 DEF SamePosition, MaskedAt, PassedAt
<1> QED
  BY <1>1, <1>2

(* A lock is taken or released: only the locks change. *)
LockStep ==
    /\ Depth > 0 /\ frames' = Advanced
    /\ KindAt(TopProgram, TopNext) \in {"lock", "unlock"}
    /\ UNCHANGED <<intr_flag, binary, tss, idt, passed>>

ByPosition == Shape /\ TablesByPosition /\ FlagByPosition /\ PassedByPosition

LEMMA NormalLockStep ==
    ASSUME Typed, Normal, LockStep
    PROVE  /\ Advances
           /\ TopNext' <= Size(TopProgram')
           /\ ByPosition'
<1>1. Advances
  BY AdvancedStack DEF LockStep, Normal
<1> USE NormalTop DEF LockStep
<1>2. CASE Boots \/ Commands
  <2>1. /\ frames[1].program \in Inits \cup Turns
        /\ TopProgram = frames[1].program /\ TopNext = frames[1].next
    BY <1>2 DEF Boots, Commands, Inits, TopProgram, TopNext
  <2>2. SamePosition(frames[1].program, frames[1].next)
    BY <2>1, LockPosition
  <2>3. /\ Depth' = 1 /\ Depth = 1 /\ frames'[1].program = frames[1].program
        /\ frames'[1].next = frames[1].next + 1
    BY <1>1, <1>2 DEF Advances, Boots, Commands
  <2>4. Shape'
    BY <1>2, <2>3 DEF Shape, Boots, Commands
  <2>5. TablesByPosition'
    <3>1. tss' = tss /\ idt' = idt /\ TablesByPosition
      BY DEF Normal
    <3>2. CASE frames[1].program \in Inits
      <4>1. Booting /\ Booting'
        BY <2>3, <3>2 DEF Booting
      <4>2. frames'[1].next > 3 => frames[1].next > 3
        BY <2>2, <2>3, <3>2 DEF SamePosition
      <4>3. idt = IdtAt(frames'[1].program, frames'[1].next)
        BY <2>2, <2>3, <3>1, <3>2, <4>1 DEF SamePosition, TablesByPosition
      <4> QED
        BY <3>1, <4>1, <4>2, <4>3 DEF TablesByPosition
    <3>3. CASE frames[1].program \notin Inits
      BY <2>3, <3>1, <3>3 DEF TablesByPosition, Booting
    <3> QED
      BY <3>2, <3>3
  <2>6. FlagByPosition'
    BY <2>1, <2>2, <2>3 DEF FlagByPosition, Normal, SamePosition
  <2>7. PassedByPosition'
    BY <2>1, <2>2, <2>3 DEF PassedByPosition, Normal, SamePosition
  <2>8. TopNext < Size(TopProgram)
    BY <2>1, BootOps, TurnOps DEF BootOp, TurnOp
  <2>9. TopNext' <= Size(TopProgram')
    BY <1>1, <2>8 DEF Advances
  <2> QED
    BY <1>1, <2>4, <2>5, <2>6, <2>7, <2>9 DEF ByPosition
<1>3. CASE TestRuns \/ BreakInCommand \/ BreakInTest
  <2>1. Depth > 1
    BY <1>3 DEF TestRuns, BreakInCommand, BreakInTest
  <2>2. /\ Depth' = Depth
        /\ \A i \in 1 .. Depth :
              frames'[i].program = frames[i].program /\ frames'[i].flag = frames[i].flag
        /\ \A i \in 1 .. Depth - 1 : frames'[i].next = frames[i].next
    BY <1>1 DEF Advances
  <2>3. frames'[1].program = frames[1].program /\ frames'[1].next = frames[1].next
    BY <2>1, <2>2
  <2>4. Shape'
    BY <1>3, <2>2, <2>3 DEF Shape, TestRuns, BreakInCommand, BreakInTest, AfterCall
  <2>5. TablesByPosition'
    BY <2>1, <2>2, <2>3 DEF TablesByPosition, Booting, Normal
  <2>6. FlagByPosition'
    BY <2>1, <2>2, <2>3 DEF FlagByPosition, Booting, Normal
  <2>7. PassedByPosition'
    BY <2>1, <2>2, <2>3 DEF PassedByPosition, Booting, Normal
  <2>8. TopNext < Size(TopProgram)
    <3>1. CASE TestRuns
      <4>1. TopProgram \in Tests
        BY <3>1 DEF TestRuns, TopProgram
      <4> QED
        BY <4>1, TestBodyOps DEF TestOp
    <3>2. CASE BreakInCommand \/ BreakInTest
      <4>1. TopProgram = "#BP"
        BY <3>2 DEF BreakInCommand, BreakInTest, TopProgram
      <4> QED
        BY <4>1, BreakpointHandlerOps DEF BreakpointOp
    <3> QED
      BY <1>3, <3>1, <3>2
  <2>9. TopNext' <= Size(TopProgram')
    BY <1>1, <2>8 DEF Advances
  <2> QED
    BY <1>1, <2>4, <2>5, <2>6, <2>7, <2>9 DEF ByPosition
<1> QED
  BY <1>2, <1>3 DEF Normal, Shape, Idle

(* The lock that the top is about to take or release. *)
LEMMA NormalLockOps ==
    ASSUME Typed, Normal, Depth > 0, NEW a, a = ArgAt(TopProgram, TopNext)
    PROVE  /\ KindAt(TopProgram, TopNext) = "lock" =>
                 /\ a \in Locks
                 /\ \/ a # "LINE" /\ OpAt(TopProgram, TopNext + 1) = Unlock(a)
                    \/ a = "LINE" /\ Commands /\ TopNext = 4
                    \/ a = "WRITER" /\ TopProgram = "assertion_on_screen" /\ TopNext = 1
           /\ KindAt(TopProgram, TopNext) = "unlock" =>
                 a \in Locks /\ OpAt(TopProgram, TopNext) = Unlock(a)
<1> USE NormalTop
<1>1. CASE Boots
  <2>1. TopProgram \in Inits
    BY <1>1 DEF Boots, TopProgram, Inits
  <2> QED
    BY <2>1, BootOps DEF BootOp
<1>2. CASE Commands
  <2>1. TopProgram \in Turns
    BY <1>2 DEF Commands, TopProgram
  <2> QED
    BY <1>2, <2>1, TurnOps DEF TurnOp, Locks
<1>3. CASE TestRuns
  <2>1. TopProgram \in Tests
    BY <1>3 DEF TestRuns, TopProgram
  <2> QED
    BY <2>1, TestBodyOps DEF TestOp, Locks
<1>4. CASE BreakInCommand \/ BreakInTest
  <2>1. TopProgram = "#BP"
    BY <1>4 DEF BreakInCommand, BreakInTest, TopProgram
  <2> QED
    BY <2>1, BreakpointHandlerOps DEF BreakpointOp, Locks
<1> QED
  BY <1>1, <1>2, <1>3, <1>4 DEF Normal, Shape, Idle

LEMMA StillInCommand ==
    ASSUME Typed, Normal, LockStep, InCommand,
           OpAt(TopProgram, TopNext) # Unlock("LINE")
    PROVE  InCommand'
<1>1. Advances
  BY NormalLockStep
<1>2. frames[1].program \in Turns /\ Depth > 0
  BY DEF InCommand
<1>3. Depth \in {1, 2, 3}
  BY <1>2, NormalTop
<1>4. CASE Depth = 1
  <2>1. TopProgram = frames[1].program /\ TopNext = frames[1].next
    BY <1>4 DEF TopProgram, TopNext
  <2>2. TurnOp(TopProgram, TopNext) /\ TopNext \in Nat
    BY <1>2, <2>1, NormalTop, TurnOps
  <2>3. TopNext # Size(TopProgram) - 4 /\ Size(TopProgram) \in Nat
    BY <1>2, <2>2, NormalTop DEF TurnOp
  <2>4. Depth' = 1 /\ frames'[1].program = TopProgram /\ frames'[1].next = TopNext + 1
    BY <1>1, <1>4, <2>1 DEF Advances
  <2> QED
    BY <1>2, <2>1, <2>2, <2>3, <2>4 DEF InCommand
<1>5. CASE Depth > 1
  <2>1. Depth' = Depth /\ frames'[1].program = frames[1].program /\ frames'[1].next = frames[1].next
    BY <1>1, <1>3, <1>5 DEF Advances
  <2> QED
    BY <2>1 DEF InCommand
<1> QED
  BY <1>3, <1>4, <1>5

LEMMA NormalTakeLock ==
    ASSUME Typed, Normal, TakeLock
    PROVE  Typed' /\ Normal'
<1> DEFINE a == ArgAt(TopProgram, TopNext)
<1>1. /\ Depth > 0 /\ KindAt(TopProgram, TopNext) = "lock" /\ Op[2] = a
      /\ TopNext \in Nat
  BY TopOperation DEF TakeLock
<1> HIDE DEF a
<1>2. LockStep
  BY <1>1 DEF TakeLock, LockStep, tables, history
<1>3. Advances /\ TopNext' <= Size(TopProgram') /\ ByPosition'
  BY <1>2, NormalLockStep
<1>4. owner[a] = 0 /\ owner' = [owner EXCEPT ![a] = Depth]
  BY <1>1 DEF TakeLock
<1>5. /\ a \in Locks
      /\ \/ a # "LINE" /\ OpAt(TopProgram, TopNext + 1) = Unlock(a)
         \/ a = "LINE" /\ Commands /\ TopNext = 4
         \/ a = "WRITER" /\ TopProgram = "assertion_on_screen" /\ TopNext = 1
  BY <1>1, NormalLockOps DEF a
<1>6. /\ owner \in [Locks -> Nat] /\ Depth \in Nat
      /\ \A l \in Locks : owner[l] <= Depth
  BY DEF Typed, LocksTyped, StackTyped, Depth
<1>7. /\ owner'[a] = Depth
      /\ \A l \in Locks \ {a} : owner'[l] = owner[l]
      /\ owner' \in [Locks -> Nat]
  BY <1>4, <1>5, <1>6
<1>8. LocksTyped'
  BY <1>3, <1>6, <1>7 DEF LocksTyped, Advances
<1>9. RestTyped'
  BY DEF Typed, RestTyped, TakeLock, tables, history
<1>10. OpAt(TopProgram, TopNext) # Unlock("LINE")
  BY <1>1, OpKinds DEF KindAt
<1>11. LocksAccounted'
  <2>1. TopProgram' = TopProgram /\ TopNext' = TopNext + 1 /\ Depth' > 0 /\ Depth' = Depth
    BY <1>1, <1>3 DEF Advances
  <2>2. ASSUME NEW l \in Locks, owner'[l] # 0
        PROVE  \/ AboutToUnlock(l)'
               \/ l = "LINE" /\ InCommand'
               \/ l = "WRITER" /\ TopProgram' = "assertion_on_screen" /\ TopNext' = 2
    <3>1. CASE l = a
      <4>1. CASE a # "LINE" /\ OpAt(TopProgram, TopNext + 1) = Unlock(a)
        BY <2>1, <3>1, <4>1 DEF AboutToUnlock
      <4>2. CASE a = "LINE" /\ Commands /\ TopNext = 4
        <5>1. frames'[1].program \in Turns /\ frames'[1].next = 5 /\ Depth = 1
          BY <1>3, <4>2 DEF Commands, Advances, TopNext
        <5>2. Size(frames'[1].program) >= 10 /\ Size(frames'[1].program) \in Nat
          BY <5>1, PrintOps, MemOps, RaisingOps DEF Turns
        <5> QED
          BY <2>1, <3>1, <4>2, <5>1, <5>2 DEF InCommand
      <4>3. CASE a = "WRITER" /\ TopProgram = "assertion_on_screen" /\ TopNext = 1
        BY <2>1, <3>1, <4>3
      <4> QED
        BY <1>5, <4>1, <4>2, <4>3
    <3>2. CASE l # a
      <4>1. owner[l] # 0
        BY <1>7, <2>2, <3>2
      <4>2. OpAt(TopProgram, TopNext) # Unlock(l)
        BY <1>1, OpKinds DEF KindAt
      <4>3. ~(TopProgram = "assertion_on_screen" /\ TopNext = 2)
        BY <1>1, TestOps, OpKinds DEF KindAt
      <4>4. l = "LINE" /\ InCommand
        BY <4>1, <4>2, <4>3 DEF Normal, LocksAccounted, AboutToUnlock
      <4> QED
        BY <1>2, <1>10, <4>4, StillInCommand
    <3> QED
      BY <3>1, <3>2
  <2>3. owner'["LINE"] \in {0, 1}
    <3>1. CASE a = "LINE"
      <4>1. Depth = 1
        BY <1>5, <3>1 DEF Commands
      <4> QED
        BY <1>7, <3>1, <4>1
    <3>2. CASE a # "LINE"
      <4>1. owner'["LINE"] = owner["LINE"]
        BY <1>7, <3>2 DEF Locks
      <4> QED
        BY <4>1 DEF Normal, LocksAccounted
    <3> QED
      BY <3>1, <3>2
  <2> QED
    BY <2>1, <2>2, <2>3 DEF LocksAccounted
<1>12. bugs' = 0 /\ PANICKING' = FALSE /\ reported' = {} /\ raised' \subseteq {"#BP"} /\ exit' = 0
  BY DEF Normal, TakeLock, history
<1> QED
  BY <1>3, <1>8, <1>9, <1>11, <1>12 DEF Typed, Normal, ByPosition, Advances

LEMMA NormalTopNotFatal ==
    ASSUME Typed, Normal, Depth > 0
    PROVE  TopProgram \in Inits \cup Turns \cup Tests \cup {"#BP"} /\ TopProgram \notin Fatals
<1>1. TopProgram \in Inits \cup Turns \cup Tests \cup {"#BP"}
  <2>1. CASE Boots
    BY <2>1, NormalTop DEF Boots, TopProgram, Inits
  <2>2. CASE Commands \/ TestRuns
    BY <2>2 DEF Commands, TestRuns, TopProgram
  <2>3. CASE BreakInCommand \/ BreakInTest
    BY <2>3 DEF BreakInCommand, BreakInTest, TopProgram
  <2> QED
    BY <2>1, <2>2, <2>3 DEF Normal, Shape, Idle
<1> QED
  BY <1>1, NamesOfPrograms

LEMMA NormalReleaseLock ==
    ASSUME Typed, Normal, ReleaseLock
    PROVE  Typed' /\ Normal'
<1> DEFINE a == ArgAt(TopProgram, TopNext)
<1>1. /\ Depth > 0 /\ KindAt(TopProgram, TopNext) = "unlock" /\ Op[2] = a
      /\ TopNext \in Nat /\ Top.program = TopProgram
  BY TopOperation DEF ReleaseLock
<1> HIDE DEF a
<1>2. LockStep
  BY <1>1 DEF ReleaseLock, LockStep, tables
<1>3. Advances /\ TopNext' <= Size(TopProgram') /\ ByPosition'
  BY <1>2, NormalLockStep
<1>4. owner' = [owner EXCEPT ![a] = 0]
  BY <1>1 DEF ReleaseLock
<1>5. a \in Locks /\ OpAt(TopProgram, TopNext) = Unlock(a)
  BY <1>1, NormalLockOps DEF a
<1>6. /\ owner \in [Locks -> Nat] /\ Depth \in Nat
      /\ \A l \in Locks : owner[l] <= Depth
  BY DEF Typed, LocksTyped, StackTyped, Depth
<1>7. /\ owner'[a] = 0
      /\ \A l \in Locks \ {a} : owner'[l] = owner[l]
      /\ owner' \in [Locks -> Nat]
  BY <1>4, <1>5, <1>6
<1>8. LocksTyped'
  BY <1>3, <1>6, <1>7 DEF LocksTyped, Advances
<1>9. reported' = {} /\ reported = {}
  <2>1. TopProgram \notin Firsts
    BY <1>1, NormalTopNotFatal DEF Fatals
  <2> QED
    BY <1>1, <2>1 DEF ReleaseLock, Normal, Firsts
<1>10. RestTyped'
  BY <1>9 DEF Typed, RestTyped, ReleaseLock, tables
<1>11. LocksAccounted'
  <2>1. Depth' > 0
    BY <1>1, <1>3 DEF Advances
  <2>2. ASSUME NEW l \in Locks, owner'[l] # 0
        PROVE  l = "LINE" /\ InCommand'
    <3>1. l # a /\ owner[l] # 0
      BY <1>7, <2>2
    <3>2. OpAt(TopProgram, TopNext) # Unlock(l)
      BY <1>5, <3>1 DEF Unlock
    <3>3. ~(TopProgram = "assertion_on_screen" /\ TopNext = 2)
      BY <1>1, TestOps, OpKinds DEF KindAt
    <3>4. l = "LINE" /\ InCommand
      BY <3>1, <3>2, <3>3 DEF Normal, LocksAccounted, AboutToUnlock
    <3> QED
      BY <1>2, <3>2, <3>4, StillInCommand
  <2>3. owner'["LINE"] \in {0, 1}
    <3>1. "LINE" \in Locks /\ owner["LINE"] \in {0, 1}
      BY DEF Normal, LocksAccounted, Locks
    <3> QED
      BY <1>7, <3>1
  <2> QED
    BY <2>1, <2>2, <2>3 DEF LocksAccounted
<1>12. bugs' = 0 /\ PANICKING' = FALSE /\ raised' \subseteq {"#BP"} /\ exit' = 0
  BY DEF Normal, ReleaseLock
<1> QED
  BY <1>3, <1>8, <1>9, <1>10, <1>11, <1>12 DEF Typed, Normal, ByPosition, Advances

(* Outside commands and at any operation but a release no lock is held. *)
LEMMA NoLockHeld ==
    ASSUME Typed, Normal, Depth > 0, KindAt(TopProgram, TopNext) # "unlock",
           ~InCommand, TopProgram # "assertion_on_screen"
    PROVE  \A l \in Locks : owner[l] = 0
<1> SUFFICES ASSUME NEW l \in Locks, owner[l] # 0 PROVE FALSE
  OBVIOUS
<1>1. OpAt(TopProgram, TopNext) # Unlock(l)
  BY OpKinds DEF KindAt
<1> QED
  BY <1>1 DEF Normal, LocksAccounted, AboutToUnlock

LEMMA FreeLocksAccounted ==
    ASSUME \A l \in Locks : owner[l] = 0, owner' = owner
    PROVE  LocksAccounted'
BY DEF LocksAccounted, Locks

(* In the normal phase only the boot loads tables. *)
LEMMA NormalLoadTable ==
    ASSUME Typed, Normal, LoadTable
    PROVE  Typed' /\ Normal'
<1>1. /\ Depth > 0 /\ KindAt(TopProgram, TopNext) = "load"
      /\ Op[2] = ArgAt(TopProgram, TopNext) /\ TopNext \in Nat
  BY TopOperation DEF LoadTable
<1>2. TopNext \in 1 .. Size(TopProgram) /\ Size(TopProgram) \in Nat
  BY <1>1, NormalTop
<1>3. Boots
  BY <1>1, <1>2, TurnOps, TestBodyOps, BreakpointHandlerOps
     DEF Normal, Shape, Idle, Boots, Commands, TestRuns, BreakInCommand, BreakInTest,
         TopProgram, TurnOp, TestOp, BreakpointOp
<1> DEFINE p == frames[1].program
           n == frames[1].next
<1>4. p \in Inits /\ TopProgram = p /\ TopNext = n /\ Depth = 1
  BY <1>1, <1>3, NormalTop DEF Boots, TopProgram, TopNext, Inits
<1> HIDE DEF p, n
<1>5. BootOp(p, n)
  BY <1>2, <1>4, BootOps
<1>6. n < Size(p) /\ BootLoads(p, n, Op[2]) /\ n \in Nat
  BY <1>1, <1>4, <1>5 DEF BootOp
<1>7. Advances
  <2>1. TopNext <= Size(TopProgram)
    BY <1>2
  <2> QED
    BY <1>1, <2>1, AdvancedStack DEF LoadTable
<1>8. Depth' = 1 /\ frames'[1].program = p /\ frames'[1].next = n + 1
  BY <1>4, <1>7 DEF Advances, p, n
<1>9. tss' = TRUE \/ n # 3
  <2>1. n = 3 => Op[2] = "GDT"
    BY <1>6 DEF BootLoads
  <2>2. Op[2] = "GDT" => tss' = TRUE
    BY DEF LoadTable
  <2> QED
    BY <2>1, <2>2
<1>10. idt = IdtAt(p, n) /\ (n > 3 => tss = TRUE)
  BY <1>4 DEF Normal, TablesByPosition, Booting, p, n
<1>11. idt' = IdtAt(p, n + 1)
  BY <1>6, <1>10 DEF LoadTable, BootLoads, IdtAt
<1>12. n + 1 > 3 => tss' = TRUE
  <2>1. CASE n = 3
    BY <1>9, <2>1
  <2>2. CASE n # 3
    <3>1. n + 1 > 3 => tss = TRUE
      BY <1>6, <1>10, <2>2
    <3>2. tss = TRUE => tss' = TRUE
      BY DEF LoadTable
    <3> QED
      BY <3>1, <3>2
  <2> QED
    BY <2>1, <2>2
<1>13. TablesByPosition'
  <2>1. Booting'
    BY <1>4, <1>8 DEF Booting
  <2> QED
    BY <1>8, <1>11, <1>12, <2>1 DEF TablesByPosition
<1>14. Shape'
  BY <1>3, <1>8 DEF Shape, Boots, LoadTable, p
<1>15. FlagByPosition'
  <2>1. ~(p = "kernel" /\ n >= 17)
    BY <1>6 DEF BootLoads, FaultTests
  <2>2. MaskedAt(p, n)
    BY <1>4, <1>6, <2>1 DEF MaskedAt
  <2>3. intr_flag = FALSE
    BY <1>4, <2>2 DEF Normal, FlagByPosition, p, n
  <2> QED
    BY <1>8, <2>3 DEF FlagByPosition, LoadTable
<1>16. PassedByPosition'
  <2>1. PassedAt(p, n + 1) = PassedAt(p, n)
    BY <1>6 DEF PassedAt, BootLoads
  <2>2. passed = PassedAt(p, n)
    BY <1>4 DEF Normal, PassedByPosition, p, n
  <2> QED
    BY <1>8, <2>1, <2>2 DEF PassedByPosition, LoadTable, history
<1>17. LocksAccounted'
  <2>1. ~InCommand
    BY <1>4, NamesOfPrograms DEF InCommand, p
  <2>2. TopProgram # "assertion_on_screen"
    BY <1>4, NamesOfPrograms DEF Tests
  <2>3. \A l \in Locks : owner[l] = 0
    BY <1>1, <2>1, <2>2, NoLockHeld
  <2> QED
    BY <2>3, FreeLocksAccounted DEF LoadTable
<1>18. LocksTyped'
  BY <1>7 DEF Typed, LocksTyped, LoadTable, Advances
<1>19. RestTyped'
  <2>1. tss' \in BOOLEAN
    BY DEF LoadTable
  <2>2. idt' \in {"none", "IDT", "TEST_IDT"}
    BY <1>11 DEF IdtAt
  <2> QED
    BY <2>1, <2>2 DEF Typed, RestTyped, LoadTable, history
<1>20. TopNext' <= Size(TopProgram')
  BY <1>2, <1>4, <1>6, <1>7 DEF Advances
<1>21. bugs' = 0 /\ PANICKING' = FALSE /\ reported' = {} /\ raised' \subseteq {"#BP"} /\ exit' = 0
  BY DEF Normal, LoadTable, history
<1> QED
  BY <1>7, <1>13, <1>14, <1>15, <1>16, <1>17, <1>18, <1>19, <1>20, <1>21
     DEF Typed, Normal, Advances

LEMMA NormalSetFlag ==
    ASSUME Typed, Normal, SetFlag
    PROVE  Typed' /\ Normal'
<1> DEFINE p == frames[1].program
           n == frames[1].next
<1>1. /\ Depth > 0 /\ TopNext \in Nat
      /\ Op = OpAt(TopProgram, TopNext)
      /\ KindAt(TopProgram, TopNext) \in {"cli", "sti"}
  <2>1. CASE At("cli")
    BY <2>1, TopOperation
  <2>2. CASE At("sti")
    BY <2>2, TopOperation
  <2> QED
    BY <2>1, <2>2 DEF SetFlag
<1>2. TopNext \in 1 .. Size(TopProgram) /\ Size(TopProgram) \in Nat
  BY <1>1, NormalTop
<1>3. Boots \/ Commands
  <2>1. CASE TestRuns
    <3>1. TopProgram \in Tests
      BY <2>1 DEF TestRuns, TopProgram
    <3> QED
      BY <1>1, <1>2, <3>1, TestBodyOps DEF TestOp
  <2>2. CASE BreakInCommand \/ BreakInTest
    <3>1. TopProgram = "#BP"
      BY <2>2 DEF BreakInCommand, BreakInTest, TopProgram
    <3> QED
      BY <1>1, <1>2, <3>1, BreakpointHandlerOps DEF BreakpointOp
  <2> QED
    BY <1>1, <2>1, <2>2 DEF Normal, Shape, Idle
<1>4. TopProgram = p /\ TopNext = n /\ Depth = 1
  BY <1>3 DEF Boots, Commands, TopProgram, TopNext
<1>5. \/ p = "kernel" /\ n = 17 /\ KindAt(p, n) = "sti" /\ Size(p) = 18
      \/ p \in Turns /\ n = 1 /\ KindAt(p, n) = "cli" /\ Size(p) > 1
      \/ p \in Turns /\ n = Size(p) - 1 /\ KindAt(p, n) = "sti" /\ n > 1
  <2>1. CASE Boots
    <3>1. p \in Inits
      BY <1>1, <2>1, NormalTop DEF Boots, Inits
    <3> QED
      BY <1>1, <1>2, <1>4, <3>1, BootOps, KernelOps DEF BootOp
  <2>2. CASE Commands
    <3>1. p \in Turns
      BY <2>2 DEF Commands
    <3> QED
      BY <1>1, <1>2, <1>4, <3>1, TurnOps DEF TurnOp
  <2> QED
    BY <1>3, <2>1, <2>2
<1>6. Advances
  <2>1. TopNext <= Size(TopProgram)
    BY <1>2
  <2> QED
    BY <1>1, <2>1, AdvancedStack DEF SetFlag
<1> HIDE DEF p, n
<1>7. Depth' = 1 /\ frames'[1].program = p /\ frames'[1].next = n + 1
  BY <1>4, <1>6 DEF Advances, p, n
<1>8. Shape'
  BY <1>3, <1>7 DEF Shape, Boots, Commands, SetFlag, tables, p
<1>9. TablesByPosition'
  <2>1. tss' = tss /\ idt' = idt
    BY DEF SetFlag, tables
  <2>2. CASE p = "kernel"
    <3>1. Booting /\ Booting' /\ n = 17
      BY <1>4, <1>5, <1>7, <2>2, NamesOfPrograms DEF Booting, Inits, Binaries, p
    <3>2. tss = TRUE /\ idt = IdtAt(p, n)
      BY <1>4, <3>1 DEF Normal, TablesByPosition, p, n
    <3>3. IdtAt(p, n) = IdtAt(p, n + 1)
      BY <2>2, <3>1 DEF IdtAt, FaultTests
    <3> QED
      BY <1>7, <2>1, <3>1, <3>2, <3>3 DEF TablesByPosition
  <2>3. CASE p \in Turns
    <3>1. ~Booting /\ ~Booting'
      BY <1>7, <2>3, NamesOfPrograms DEF Booting, p
    <3> QED
      BY <2>1, <3>1 DEF Normal, TablesByPosition
  <2> QED
    BY <1>5, <2>2, <2>3
<1>10. FlagByPosition'
  <2>1. CASE KindAt(p, n) = "cli"
    <3>1. intr_flag' = FALSE
      BY <1>1, <1>4, <2>1 DEF SetFlag, KindAt
    <3> QED
      BY <1>7, <3>1 DEF FlagByPosition
  <2>2. CASE KindAt(p, n) = "sti"
    <3>1. ~MaskedAt(p, n + 1)
      BY <1>2, <1>4, <1>5, <2>2, NamesOfPrograms DEF MaskedAt, Inits, Binaries, Turns
    <3> QED
      BY <1>7, <3>1 DEF FlagByPosition
  <2> QED
    BY <1>1, <1>4, <2>1, <2>2
<1>11. PassedByPosition'
  <2>1. p # "suite"
    BY <1>5 DEF Turns
  <2>2. passed = 0
    BY <1>4, <2>1 DEF Normal, PassedByPosition, PassedAt, p
  <2> QED
    BY <1>7, <2>1, <2>2 DEF PassedByPosition, PassedAt, SetFlag, history
<1>12. LocksAccounted'
  <2>1. ~InCommand
    BY <1>2, <1>4, <1>5 DEF InCommand, p, n, Turns
  <2>2. TopProgram # "assertion_on_screen"
    BY <1>4, <1>5 DEF Turns
  <2>3. \A l \in Locks : owner[l] = 0
    BY <1>1, <2>1, <2>2, NoLockHeld
  <2> QED
    BY <2>3, FreeLocksAccounted DEF SetFlag
<1>13. LocksTyped'
  BY <1>6 DEF Typed, LocksTyped, SetFlag, Advances
<1>14. RestTyped'
  <2>1. intr_flag' \in BOOLEAN
    BY DEF SetFlag
  <2> QED
    BY <2>1 DEF Typed, RestTyped, SetFlag, tables, history
<1>15. TopNext' <= Size(TopProgram')
  BY <1>2, <1>4, <1>5, <1>6 DEF Advances
<1>16. bugs' = 0 /\ PANICKING' = FALSE /\ reported' = {} /\ raised' \subseteq {"#BP"} /\ exit' = 0
  BY DEF Normal, SetFlag, history
<1> QED
  BY <1>6, <1>8, <1>9, <1>10, <1>11, <1>12, <1>13, <1>14, <1>15, <1>16
     DEF Typed, Normal, Advances

(* A frame pushed on a well-formed stack s. *)
FramesTyped(s) ==
    /\ s \in Seq(Frames)
    /\ \A i \in 1 .. Len(s) : s[i].next \in 1 .. Size(s[i].program) + 1

Pushed(s, p, fl) ==
    /\ StackTyped' /\ Depth' = Len(s) + 1
    /\ \A i \in 1 .. Len(s) : frames'[i] = s[i]
    /\ TopProgram' = p /\ TopNext' = 1 /\ frames'[Len(s) + 1].flag = fl
    /\ frames'[Len(s) + 1].program = p
    /\ TopNext' <= Size(TopProgram')

LEMMA PushedStack ==
    ASSUME NEW s, FramesTyped(s), NEW p \in Names, NEW fl \in BOOLEAN,
           frames' = Append(s, Frame(p, fl))
    PROVE  Pushed(s, p, fl)
<1>1. s \in Seq(Frames)
  BY DEF FramesTyped
<1>2. OnTop(frames', s, p, fl)
  BY <1>1, AppendFrame
<1>3. /\ frames' \in Seq(Frames) /\ Len(frames') = Len(s) + 1
      /\ \A i \in 1 .. Len(s) : frames'[i] = s[i]
      /\ frames'[Len(s) + 1].program = p /\ frames'[Len(s) + 1].next = 1
      /\ frames'[Len(s) + 1].flag = fl
  BY <1>2 DEF OnTop
<1>4. Size(p) \in Nat /\ Size(p) >= 1
  BY Sizes
<1>5. Depth' = Len(s) + 1 /\ Len(s) \in Nat
  BY <1>1, <1>3, LenProperties DEF Depth
<1>6. TopProgram' = p /\ TopNext' = 1
  BY <1>3, <1>5 DEF TopProgram, TopNext
<1>7. StackTyped'
  <2>1. ASSUME NEW i \in 1 .. Depth'
        PROVE  frames'[i].next \in 1 .. Size(frames'[i].program) + 1
    <3>1. CASE i = Len(s) + 1
      BY <1>3, <1>4, <3>1
    <3>2. CASE i \in 1 .. Len(s)
      <4>1. frames'[i] = s[i]
        BY <1>3, <3>2
      <4> QED
        BY <3>2, <4>1 DEF FramesTyped
    <3> QED
      BY <1>5, <3>1, <3>2
  <2> QED
    BY <1>3, <2>1 DEF StackTyped
<1> QED
  BY <1>3, <1>4, <1>5, <1>6, <1>7 DEF Pushed

LEMMA AdvancedTyped ==
    ASSUME Typed, Depth > 0, TopNext <= Size(TopProgram)
    PROVE  FramesTyped(Advanced) /\ OneFurther(Advanced)
<1>1. OneFurther(Advanced)
  BY AdvancedFrames
<1> DEFINE s == Advanced
<1>2. OneFurther(s)
  BY <1>1
<1> HIDE DEF s
<1>3. Depth \in Nat /\ frames \in Seq(Frames)
  BY DEF Typed, StackTyped, Depth
<1>4. TopProgram \in Names /\ TopNext \in Nat
  <2>1. Depth \in 1 .. Len(frames)
    BY <1>3 DEF Depth
  <2>2. frames[Depth] \in Frames
    BY <1>3, <2>1, ElementOfSeq
  <2> QED
    BY <2>2 DEF Frames, TopProgram, TopNext
<1>5. Size(TopProgram) \in Nat
  BY <1>4, Sizes
<1>6. ASSUME NEW i \in 1 .. Depth
      PROVE  s[i].next \in 1 .. Size(s[i].program) + 1
  <2>1. CASE i = Depth
    BY <1>2, <1>4, <1>5, <2>1 DEF OneFurther
  <2>2. CASE i # Depth
    <3>1. s[i] = frames[i]
      BY <1>2, <1>3, <2>2 DEF OneFurther
    <3> QED
      BY <3>1 DEF Typed, StackTyped
  <2> QED
    BY <2>1, <2>2
<1>7. FramesTyped(s)
  BY <1>2, <1>6 DEF FramesTyped, OneFurther
<1> QED
  BY <1>2, <1>7 DEF s

LEMMA NormalCallTest ==
    ASSUME Typed, Normal, NEW body \in DOMAIN TestBody, CallTest(body)
    PROVE  Typed' /\ Normal'
<1> DEFINE n == frames[1].next
<1>1. /\ Depth > 0 /\ KindAt(TopProgram, TopNext) = "call" /\ TopNext \in Nat
  BY TopOperation DEF CallTest
<1>2. TopNext \in 1 .. Size(TopProgram) /\ Size(TopProgram) \in Nat
  BY <1>1, NormalTop
<1>3. Boots
  BY <1>1, <1>2, TurnOps, TestBodyOps, BreakpointHandlerOps
     DEF Normal, Shape, Idle, Boots, Commands, TestRuns, BreakInCommand, BreakInTest,
         TopProgram, TurnOp, TestOp, BreakpointOp
<1>4. /\ TopProgram = frames[1].program /\ TopNext = n /\ Depth = 1
      /\ frames[1].program \in Inits
  BY <1>1, <1>3, NormalTop DEF Boots, TopProgram, TopNext, Inits
<1>5. frames[1].program = "suite" /\ n \in {17, 22}
  BY <1>1, <1>2, <1>4, BootOps DEF BootOp
<1>6. binary = "suite"
  BY <1>3, <1>5 DEF Boots
<1>7. intr_flag = FALSE
  BY <1>4, <1>5 DEF Normal, FlagByPosition, MaskedAt, Inits, Binaries
<1> HIDE DEF n
<1>8. body \in Tests /\ body \in Names
  BY NamesOfPrograms DEF Names
<1>9. FramesTyped(Advanced) /\ OneFurther(Advanced)
  BY <1>1, <1>2, AdvancedTyped
<1>10. frames' = Append(Advanced, Frame(body, FALSE))
  BY <1>7 DEF CallTest
<1> DEFINE s == Advanced
<1>11. Pushed(s, body, FALSE)
  BY <1>8, <1>9, <1>10, PushedStack
<1>12. Len(s) = 1 /\ s[1].program = "suite" /\ s[1].next = n + 1
  BY <1>4, <1>5, <1>9 DEF OneFurther
<1> HIDE DEF s
<1>13. /\ Depth' = 2 /\ frames'[1].program = "suite" /\ frames'[1].next = n + 1
       /\ frames'[2].program = body /\ frames'[2].flag = FALSE
  BY <1>11, <1>12 DEF Pushed
<1>14. Shape'
  BY <1>5, <1>6, <1>8, <1>13 DEF Shape, TestRuns, AfterCall, CallTest, tables
<1>15. TablesByPosition'
  <2>1. Booting /\ Booting' /\ tss' = tss /\ idt' = idt
    BY <1>4, <1>5, <1>13 DEF Booting, CallTest, tables
  <2>2. tss = TRUE /\ idt = IdtAt("suite", n)
    BY <1>5, <2>1 DEF Normal, TablesByPosition, n
  <2>3. IdtAt("suite", n) = IdtAt("suite", n + 1)
    BY <1>5 DEF IdtAt, FaultTests
  <2> QED
    BY <1>13, <2>1, <2>2, <2>3 DEF TablesByPosition
<1>16. FlagByPosition'
  <2>1. intr_flag' = FALSE
    BY <1>7 DEF CallTest
  <2>2. \A i \in 2 .. Depth' : i = 2
    BY <1>13
  <2>3. \A i \in 2 .. Depth' : frames'[i].flag = FALSE
    BY <1>13, <2>2
  <2> QED
    BY <2>1, <2>3 DEF FlagByPosition
<1>17. PassedByPosition'
  <2>1. passed = PassedAt("suite", n)
    BY <1>4, <1>5 DEF Normal, PassedByPosition, n
  <2>2. n = (n + 1) - 1
    BY <1>5
  <2> QED
    BY <1>13, <2>1, <2>2 DEF PassedByPosition, CallTest, history
<1>18. \A l \in Locks : owner[l] = 0
  BY <1>1, <1>4, <1>5, NoLockHeld DEF InCommand, Turns
<1>19. LocksAccounted'
  BY <1>18, FreeLocksAccounted DEF CallTest
<1>20. LocksTyped'
  BY <1>4, <1>13 DEF Typed, LocksTyped, CallTest
<1>21. RestTyped'
  BY DEF Typed, RestTyped, CallTest, tables, history
<1>22. bugs' = 0 /\ PANICKING' = FALSE /\ reported' = {} /\ raised' \subseteq {"#BP"} /\ exit' = 0
  BY DEF Normal, CallTest, history
<1> QED
  BY <1>11, <1>14, <1>15, <1>16, <1>17, <1>19, <1>20, <1>21, <1>22
     DEF Typed, Normal, Pushed

LEMMA NormalStartTurn ==
    ASSUME Typed, Normal, NEW c \in DOMAIN Turn, StartTurn(c)
    PROVE  Typed' /\ Normal'
<1>1. frames = << >> /\ frames' = <<Frame(c, FALSE)>>
  BY DEF StartTurn
<1>2. Depth = 0
  BY <1>1 DEF Depth
<1>3. c \in Turns /\ c \in Names
  BY NamesOfPrograms DEF Names
<1>4. /\ frames' \in Seq(Frames) /\ Depth' = 1
      /\ frames'[1].program = c /\ frames'[1].next = 1
  <2>1. Frame(c, FALSE) \in Frames
    BY <1>3 DEF Frame, Frames
  <2> QED
    BY <1>1, <2>1 DEF Frame, Depth
<1>5. Size(c) \in Nat /\ Size(c) >= 1
  BY <1>3, Sizes
<1>6. Idle
  BY <1>2 DEF Normal, Shape, Idle, Boots, Commands, TestRuns, BreakInCommand, BreakInTest
<1>7. Shape'
  BY <1>3, <1>4, <1>6 DEF Shape, Commands, Idle, StartTurn, tables
<1>8. TablesByPosition'
  <2>1. ~Booting /\ ~Booting' /\ tss' = tss /\ idt' = idt
    <3>1. ~Booting
      BY <1>2 DEF Booting
    <3>2. ~Booting'
      BY <1>3, <1>4, NamesOfPrograms DEF Booting
    <3> QED
      BY <3>1, <3>2 DEF StartTurn, tables
  <2> QED
    BY <2>1 DEF Normal, TablesByPosition
<1>9. FlagByPosition'
  <2>1. ~MaskedAt(c, 1)
    BY <1>3, NamesOfPrograms DEF MaskedAt
  <2> QED
    BY <1>4, <2>1 DEF FlagByPosition
<1>10. PassedByPosition'
  <2>1. c # "suite" /\ passed = 0
    BY <1>2, <1>3 DEF Turns, Normal, PassedByPosition
  <2> QED
    BY <1>4, <2>1 DEF PassedByPosition, PassedAt, StartTurn, history
<1>11. \A l \in Locks : owner[l] = 0
  <2>1. ~(Depth > 0)
    BY <1>2
  <2> QED
    BY <2>1 DEF Normal, LocksAccounted, InCommand
<1>12. LocksAccounted'
  BY <1>11, FreeLocksAccounted DEF StartTurn
<1>13. LocksTyped'
  BY <1>2, <1>4 DEF Typed, LocksTyped, StartTurn
<1>14. RestTyped'
  BY DEF Typed, RestTyped, StartTurn, tables, history
<1>15. bugs' = 0 /\ PANICKING' = FALSE /\ reported' = {} /\ raised' \subseteq {"#BP"} /\ exit' = 0
  BY DEF Normal, StartTurn, history
<1>16. StackTyped'
  BY <1>4, <1>5 DEF StackTyped
<1>17. TopNext' <= Size(TopProgram')
  BY <1>4, <1>5 DEF TopNext, TopProgram
<1> QED
  BY <1>7, <1>8, <1>9, <1>10, <1>12, <1>13, <1>14, <1>15, <1>16, <1>17 DEF Typed, Normal

LEMMA ExitCodes == HostSees("Success") = 33 /\ HostSees("Failed") = 35
BY DEF HostSees, QemuExitCode

(* The end of a suite, and the end of a test that did not see its event. *)
LEMMA NormalExitQemu ==
    ASSUME Typed, Normal, ExitQemu
    PROVE  IInv'
<1> DEFINE p == frames[1].program
           n == frames[1].next
           code == ArgAt(TopProgram, TopNext)
<1>1. /\ Depth > 0 /\ KindAt(TopProgram, TopNext) = "exit" /\ TopNext \in Nat
      /\ Op[2] = code
  BY TopOperation DEF ExitQemu
<1>2. TopNext \in 1 .. Size(TopProgram) /\ Size(TopProgram) \in Nat
  BY <1>1, NormalTop
<1>3. Boots
  BY <1>1, <1>2, TurnOps, TestBodyOps, BreakpointHandlerOps
     DEF Normal, Shape, Idle, Boots, Commands, TestRuns, BreakInCommand, BreakInTest,
         TopProgram, TurnOp, TestOp, BreakpointOp
<1>4. TopProgram = p /\ TopNext = n /\ Depth = 1 /\ p \in Inits
  BY <1>1, <1>3, NormalTop DEF Boots, TopProgram, TopNext, Inits
<1>5. BootExits(p, n, code)
  BY <1>1, <1>2, <1>4, BootOps DEF BootOp
<1>6. p = binary
  BY <1>3, <1>5 DEF Boots, BootExits, FaultTests
<1>7. passed = PassedAt(p, n)
  BY <1>4 DEF Normal, PassedByPosition
<1>8. raised \ {"#BP"} = {}
  BY DEF Normal
<1> HIDE DEF p, n, code
<1>9. \/ code = "Failed"
      \/ /\ code = "Success" /\ passed = TestsOf(binary) /\ Expected(binary) = {}
         /\ binary \notin FaultTests
  BY <1>5, <1>6, <1>7 DEF BootExits, PassedAt, TestsOf, Expected, FaultTests
<1>10. exit' \in {0, 33, 35}
  BY <1>1, <1>9, ExitCodes DEF ExitQemu
<1>11. cpu' = "exited"
  BY DEF ExitQemu
<1>12. GreenMeansPassed'
  <2>1. exit' = TestSuccessExitCode => code = "Success"
    <3>1. exit' = HostSees(code)
      BY <1>1 DEF ExitQemu
    <3>2. CASE code = "Failed"
      BY <3>1, <3>2, ExitCodes DEF TestSuccessExitCode
    <3> QED
      BY <1>9, <3>2
  <2> QED
    BY <1>8, <1>9, <2>1 DEF GreenMeansPassed, FaultTests, ExitQemu, tables
<1>13. Stopped'
  BY <1>11, <1>12 DEF Stopped, HaltIsReported, HaltIsFinal
<1>14. StackTyped' /\ LocksTyped'
  BY DEF Typed, StackTyped, LocksTyped, ExitQemu, Depth
<1>15. RestTyped'
  BY <1>10, <1>11 DEF Typed, RestTyped, ExitQemu, tables
<1> QED
  BY <1>11, <1>13, <1>14, <1>15 DEF IInv, Typed

(* The stack without its top. *)
LEMMA PoppedStack ==
    ASSUME Typed, Depth > 0, frames' = Front(frames)
    PROVE  /\ StackTyped' /\ Depth' = Depth - 1
           /\ \A i \in 1 .. Depth - 1 : frames'[i] = frames[i]
<1>1. frames \in Seq(Frames) /\ Depth \in Nat
  BY DEF Typed, StackTyped, Depth
<1>2. /\ frames' \in Seq(Frames) /\ Len(frames') = Depth - 1
      /\ \A i \in 1 .. Depth - 1 : frames'[i] = frames[i]
  <2> DEFINE m == Depth - 1
  <2>1. frames' = SubSeq(frames, 1, m)
    BY DEF Front, Depth
  <2>2. m \in Nat /\ m \in Int
    BY <1>1
  <2>3. \A i \in 1 .. m : frames[i] \in Frames
    BY <1>1, ElementOfSeq DEF Depth
  <2> HIDE DEF m
  <2>4. /\ SubSeq(frames, 1, m) \in Seq(Frames)
        /\ Len(SubSeq(frames, 1, m)) = IF 1 <= m THEN m - 1 + 1 ELSE 0
        /\ \A i \in 1 .. m - 1 + 1 : SubSeq(frames, 1, m)[i] = frames[1 + i - 1]
    BY <2>2, <2>3, SubSeqProperties
  <2>5. /\ frames' \in Seq(Frames) /\ Len(frames') = m
        /\ \A i \in 1 .. m : frames'[i] = frames[i]
    BY <2>1, <2>2, <2>4
  <2> QED
    BY <2>5 DEF m
<1>3. Depth' = Depth - 1
  BY <1>2 DEF Depth
<1>4. ASSUME NEW i \in 1 .. Depth - 1
      PROVE  frames'[i].next \in 1 .. Size(frames'[i].program) + 1
  <2>1. frames'[i] = frames[i] /\ i \in 1 .. Depth
    BY <1>1, <1>2
  <2> QED
    BY <2>1 DEF Typed, StackTyped
<1> QED
  BY <1>2, <1>3, <1>4 DEF StackTyped

(* What the frame left behind says, once the top has returned. *)
LEMMA NormalReturn ==
    ASSUME Typed, Normal, ReturnFromFrame
    PROVE  Typed' /\ Normal'
<1> DEFINE p == frames[1].program
           n == frames[1].next
<1>1. /\ Depth > 0 /\ KindAt(TopProgram, TopNext) = "return" /\ TopNext \in Nat
      /\ Top.program = TopProgram /\ Top = frames[Depth]
  BY TopOperation DEF ReturnFromFrame
<1>2. TopNext \in 1 .. Size(TopProgram) /\ Size(TopProgram) \in Nat /\ Depth \in {1, 2, 3}
  BY <1>1, NormalTop
<1>3. /\ StackTyped' /\ Depth' = Depth - 1
      /\ \A i \in 1 .. Depth - 1 : frames'[i] = frames[i]
  BY <1>1, PoppedStack DEF ReturnFromFrame
<1>4. TopProgram # "assertion_on_screen"
  BY <1>1, <1>2, TestBodyOps DEF TestOp, Tests
<1>5. tss' = tss /\ idt' = idt /\ binary' = binary /\ owner' = owner
  BY DEF ReturnFromFrame, tables
<1>6. bugs' = 0 /\ PANICKING' = FALSE /\ reported' = {} /\ raised' \subseteq {"#BP"} /\ exit' = 0
  BY DEF Normal, ReturnFromFrame
<1>7. CASE Depth = 1
  <2>1. Depth' = 0
    BY <1>3, <1>7
  <2>2. TopProgram = p /\ TopNext = n
    BY <1>7 DEF TopProgram, TopNext
  <2>3. (p = "kernel" /\ n = 18 /\ binary = "kernel") \/ (p \in Turns /\ n = Size(p) /\ binary = "kernel")
    <3>1. CASE Boots
      <4>1. p \in Inits
        BY <1>1, <3>1, NormalTop DEF Boots, Inits
      <4>2. p = "kernel" /\ n = 18
        BY <1>1, <1>2, <2>2, <4>1, BootOps DEF BootOp
      <4> QED
        BY <3>1, <4>2 DEF Boots
    <3>2. CASE Commands
      <4>1. p \in Turns /\ binary = "kernel"
        BY <3>2 DEF Commands
      <4> QED
        BY <1>1, <1>2, <2>2, <4>1, TurnOps DEF TurnOp
    <3> QED
      BY <1>7, <3>1, <3>2 DEF Normal, Shape, Idle, TestRuns, BreakInCommand, BreakInTest
  <2> HIDE DEF p, n
  <2>4. Shape'
    BY <1>5, <2>1, <2>3 DEF Shape, Idle
  <2>5. p # "suite" /\ p \notin Tests
    BY <2>3 DEF Turns, Tests
  <2>6. passed = 0 /\ passed' = 0
    <3>1. passed = 0
      BY <1>7, <2>5 DEF Normal, PassedByPosition, PassedAt, p
    <3> QED
      BY <1>1, <2>2, <2>5, <3>1, NamesOfPrograms DEF ReturnFromFrame
  <2>7. tss = TRUE /\ idt = "IDT"
    <3>1. CASE p = "kernel"
      <4>1. Booting /\ n = 18
        BY <1>7, <2>3, <3>1 DEF Booting, Inits, Binaries, p, Turns
      <4> QED
        BY <3>1, <4>1 DEF Normal, TablesByPosition, IdtAt, FaultTests, p, n
    <3>2. CASE p \in Turns
      BY <3>2, NamesOfPrograms DEF Normal, TablesByPosition, Booting, p
    <3> QED
      BY <2>3, <3>1, <3>2
  <2>8. ~(Depth' > 0)
    BY <2>1
  <2>9. TablesByPosition'
    BY <1>5, <2>7, <2>8 DEF TablesByPosition, Booting
  <2>10. FlagByPosition'
    <3>1. \A i \in 2 .. Depth' : FALSE
      BY <2>1
    <3> QED
      BY <2>8, <3>1 DEF FlagByPosition
  <2>11. PassedByPosition'
    BY <2>1, <2>6 DEF PassedByPosition
  <2>12. \A l \in Locks : owner[l] = 0
    <3>1. ~InCommand
      BY <1>2, <2>2, <2>3 DEF InCommand, p, n, Turns
    <3> QED
      BY <1>1, <1>4, <3>1, NoLockHeld
  <2>13. LocksAccounted'
    BY <1>5, <2>12, FreeLocksAccounted
  <2>14. LocksTyped'
    BY <1>5, <2>1, <2>12 DEF Typed, LocksTyped
  <2>15. RestTyped'
    <3>1. intr_flag' = intr_flag
      BY <1>7 DEF ReturnFromFrame
    <3>2. passed' \in 0 .. TestsOf(binary)
      BY <2>6 DEF TestsOf
    <3> QED
      BY <1>5, <3>1, <3>2 DEF Typed, RestTyped, ReturnFromFrame
  <2> QED
    BY <1>3, <1>6, <2>4, <2>8, <2>9, <2>10, <2>11, <2>13, <2>14, <2>15 DEF Typed, Normal
<1>8. CASE Depth > 1
  <2>1. intr_flag' = FALSE
    <3>1. Top.flag = FALSE
      BY <1>1, <1>2, <1>8 DEF Normal, FlagByPosition
    <3> QED
      BY <1>8, <3>1 DEF ReturnFromFrame
  <2>2. frames'[1].program = p /\ frames'[1].next = n /\ Depth' > 0
    BY <1>2, <1>3, <1>8
  <2>3. TablesByPosition'
    <3>1. Booting' <=> Booting
      BY <1>1, <2>2 DEF Booting
    <3> QED
      BY <1>5, <2>2, <3>1 DEF Normal, TablesByPosition
  <2>4. FlagByPosition'
    <3>1. \A i \in 2 .. Depth' : frames'[i] = frames[i] /\ i \in 2 .. Depth
      BY <1>2, <1>3
    <3>2. \A i \in 2 .. Depth' : frames'[i].flag = FALSE
      BY <3>1 DEF Normal, FlagByPosition
    <3> QED
      BY <2>1, <3>2 DEF FlagByPosition
  <2>5. /\ Shape' /\ PassedByPosition' /\ TopNext' <= Size(TopProgram')
        /\ LocksAccounted' /\ LocksTyped' /\ passed' \in 0 .. TestsOf(binary)
    <3>1. CASE TestRuns
      <4>1. TopProgram \in Tests
        BY <3>1 DEF TestRuns, TopProgram
      <4>2. p = "suite" /\ n \in {18, 23} /\ binary = "suite" /\ Depth = 2 /\ Depth' = 1
        BY <1>3, <3>1 DEF TestRuns, AfterCall
      <4> HIDE DEF p, n
      <4>3. Shape'
        BY <1>5, <2>2, <4>2 DEF Shape, Boots
      <4>4. passed' = PassedAt(p, n) /\ passed' \in 0 .. 2
        <5>1. passed' = passed + 1
          BY <1>1, <4>1, NamesOfPrograms DEF ReturnFromFrame
        <5>2. passed = PassedAt(p, n - 1)
          BY <4>2 DEF Normal, PassedByPosition, p, n
        <5> QED
          BY <4>2, <5>1, <5>2 DEF PassedAt
      <4>5. PassedByPosition'
        BY <2>2, <4>2, <4>4 DEF PassedByPosition
      <4>6. \A l \in Locks : owner[l] = 0
        BY <1>1, <1>4, <4>2, NoLockHeld DEF InCommand, Turns, p
      <4>7. TopProgram' = p /\ TopNext' = n
        BY <2>2, <4>2 DEF TopProgram, TopNext
      <4>8. TopNext' <= Size(TopProgram')
        BY <4>2, <4>7, SuiteOps
      <4>9. LocksAccounted'
        BY <1>5, <4>6, FreeLocksAccounted
      <4>10. LocksTyped'
        BY <1>5, <4>2, <4>6 DEF Typed, LocksTyped
      <4>11. passed' \in 0 .. TestsOf(binary)
        BY <4>2, <4>4 DEF TestsOf
      <4> QED
        BY <4>3, <4>5, <4>8, <4>9, <4>10, <4>11
    <3>2. CASE BreakInCommand
      <4>1. /\ p = "breakpoint" /\ n = 6 /\ binary = "kernel" /\ Depth = 2 /\ Depth' = 1
            /\ TopProgram = "#BP"
        BY <1>3, <3>2 DEF BreakInCommand, TopProgram
      <4> HIDE DEF p, n
      <4>2. Shape'
        BY <1>5, <2>2, <4>1 DEF Shape, Commands, Turns
      <4>3. passed = 0 /\ passed' = 0
        <5>1. passed = 0
          BY <4>1 DEF Normal, PassedByPosition, PassedAt, p, n
        <5> QED
          BY <1>1, <4>1, <5>1, NamesOfPrograms DEF ReturnFromFrame
      <4>4. PassedByPosition'
        BY <2>2, <4>1, <4>3 DEF PassedByPosition, PassedAt
      <4>5. TopProgram' = p /\ TopNext' = n
        BY <2>2, <4>1 DEF TopProgram, TopNext
      <4>6. Size(p) = 10
        BY <4>1, RaisingOps DEF Turns
      <4>7. InCommand'
        BY <2>2, <4>1, <4>6 DEF InCommand, Turns
      <4>8. \A l \in Locks : owner[l] # 0 => l = "LINE"
        <5> SUFFICES ASSUME NEW l \in Locks, owner[l] # 0 PROVE l = "LINE"
          OBVIOUS
        <5>1. OpAt(TopProgram, TopNext) # Unlock(l)
          BY <1>1, OpKinds DEF KindAt
        <5> QED
          BY <1>4, <5>1 DEF Normal, LocksAccounted, AboutToUnlock
      <4>9. LocksAccounted'
        <5>1. owner'["LINE"] \in {0, 1}
          BY <1>5 DEF Normal, LocksAccounted
        <5> QED
          BY <1>5, <4>7, <4>8, <5>1 DEF LocksAccounted
      <4>10. LocksTyped'
        <5>1. owner["LINE"] \in {0, 1}
          BY DEF Normal, LocksAccounted
        <5>2. \A l \in Locks : owner[l] \in {0, 1}
          BY <4>8, <5>1 DEF Typed, LocksTyped
        <5> QED
          BY <1>5, <4>1, <5>2 DEF Typed, LocksTyped
      <4>11. passed' \in 0 .. TestsOf(binary)
        BY <4>3 DEF TestsOf
      <4> QED
        BY <4>1, <4>2, <4>4, <4>5, <4>6, <4>9, <4>10, <4>11
    <3>3. CASE BreakInTest
      <4>1. /\ p = "suite" /\ n \in {18, 23} /\ binary = "suite" /\ Depth = 3 /\ Depth' = 2
            /\ frames'[2].program = "int3" /\ frames'[2].next = 2 /\ TopProgram = "#BP"
        BY <1>3, <3>3 DEF BreakInTest, AfterCall, TopProgram
      <4> HIDE DEF p, n
      <4>2. Shape'
        BY <1>5, <2>2, <4>1 DEF Shape, TestRuns, AfterCall, Tests
      <4>3. passed' = passed /\ passed = PassedAt(p, n - 1)
        <5>1. passed = PassedAt(p, n - 1)
          BY <4>1 DEF Normal, PassedByPosition, p, n
        <5> QED
          BY <1>1, <4>1, <5>1, NamesOfPrograms DEF ReturnFromFrame
      <4>4. PassedByPosition'
        BY <2>2, <4>1, <4>3 DEF PassedByPosition
      <4>5. TopProgram' = "int3" /\ TopNext' = 2
        BY <4>1 DEF TopProgram, TopNext
      <4>6. TopNext' <= Size(TopProgram')
        BY <4>5, TestOps
      <4>7. \A l \in Locks : owner[l] = 0
        BY <1>1, <1>4, <4>1, NoLockHeld DEF InCommand, Turns, p
      <4>8. LocksAccounted'
        BY <1>5, <4>7, FreeLocksAccounted
      <4>9. LocksTyped'
        BY <1>5, <4>1, <4>7 DEF Typed, LocksTyped
      <4>10. passed' \in 0 .. TestsOf(binary)
        BY <4>3 DEF Typed, RestTyped
      <4> QED
        BY <4>2, <4>4, <4>6, <4>8, <4>9, <4>10
    <3> QED
      BY <1>8, <3>1, <3>2, <3>3 DEF Normal, Shape, Idle, Boots, Commands
  <2>6. RestTyped'
    <3>1. intr_flag' \in BOOLEAN
      BY <2>1
    <3> QED
      BY <1>5, <2>5, <3>1 DEF Typed, RestTyped, ReturnFromFrame
  <2> QED
    BY <1>3, <1>6, <2>3, <2>4, <2>5, <2>6 DEF Typed, Normal
<1> QED
  BY <1>2, <1>7, <1>8

-----------------------------------------------------------------------------
(* Raising an event.                                                       *)

LEMMA DeliverPanic ==
    ASSUME NEW s, NEW own, Deliver("panic", own, s)
    PROVE  /\ frames' = Append(s, Frame(PanicHandlerOf(binary), intr_flag))
           /\ intr_flag' = intr_flag /\ cpu' = cpu
           /\ raised' = raised \cup {"panic"}
           /\ awaited' = (awaited \/ own)
BY DEF Deliver

LEMMA DeliverException ==
    ASSUME NEW s, NEW own, NEW e \in Faults \cup {"#BP"}, Deliver(e, own, s), tss = TRUE,
           e \in Gates(binary, idt)
    PROVE  /\ frames' = Append(s, Frame(HandlerOf(idt, e, own), intr_flag))
           /\ intr_flag' = FALSE /\ cpu' = cpu
           /\ raised' = raised \cup {e}
           /\ awaited' = (awaited \/ own)
<1>1. Deliverable(e)
  BY DEF Deliverable
<1>2. e # "panic"
  BY DEF Faults
<1> QED
  BY <1>1, <1>2 DEF Deliver

LEMMA GatesOf ==
    /\ \A b : Gates(b, "IDT") = Faults \cup {"#BP"}
    /\ Gates("page_fault", "TEST_IDT") = {"#PF"}
    /\ Gates("double_fault", "TEST_IDT") = {"#DF"}
    /\ \A e, own : HandlerOf("IDT", e, own) = e
    /\ \A own : HandlerOf("TEST_IDT", "#DF", own) = "test_fault_handler"
    /\ \A own : HandlerOf("TEST_IDT", "#PF", own) \in {"test_fault_handler", "wrong_address"}
    /\ \A own \in BOOLEAN : HandlerOf("TEST_IDT", "#PF", own) = "test_fault_handler" => own = TRUE
BY DEF Gates, HandlerOf

LEMMA PanicHandlers ==
    ASSUME NEW b \in Binaries
    PROVE  /\ b = "kernel" => PanicHandlerOf(b) = "panic_handler"
           /\ b = "should_panic" => PanicHandlerOf(b) = "should_panic_handler"
           /\ b \notin {"kernel", "should_panic"} => PanicHandlerOf(b) = "test_panic_handler"
           /\ PanicHandlerOf(b) \in Fatals
BY DEF PanicHandlerOf, Fatals, Entries, Judges

(* What holds wherever the event e is raised in the normal phase. *)
RaiseContext(e) ==
    /\ intr_flag = FALSE /\ tss = TRUE
    /\ \/ /\ e = "#BP" /\ idt = "IDT"
          /\ \/ Commands /\ TopProgram = "breakpoint" /\ TopNext = 5
             \/ TestRuns /\ TopProgram = "int3" /\ TopNext = 1
       \/ e = "panic" /\ idt = "IDT"
       \/ e \in Faults /\ idt = "IDT" /\ binary \in {"kernel", "suite"}
       \/ e = "#PF" /\ idt = "TEST_IDT" /\ binary = "page_fault"
       \/ /\ e = "#DF" /\ idt = "TEST_IDT" /\ binary = "double_fault"
          /\ TopProgram = "double_fault"
    /\ \A l \in Locks : owner[l] # 0 =>
          l = "LINE" \/ (l = "WRITER" /\ binary = "suite" /\ e = "panic")
    /\ binary # "suite" => passed = 0

LEMMA NormalRaise ==
    ASSUME Typed, Normal, Depth > 0, KindAt(TopProgram, TopNext) = "raise",
           NEW e, e = ArgAt(TopProgram, TopNext)
    PROVE  RaiseContext(e)
<1> DEFINE p == frames[1].program
           n == frames[1].next
<1>1. TopNext \in 1 .. Size(TopProgram) /\ Size(TopProgram) \in Nat /\ Depth \in {1, 2, 3}
  BY NormalTop
<1>2. \A l \in Locks : owner[l] # 0 =>
          l = "LINE" \/ (l = "WRITER" /\ TopProgram = "assertion_on_screen")
  <2> SUFFICES ASSUME NEW l \in Locks, owner[l] # 0
               PROVE  l = "LINE" \/ (l = "WRITER" /\ TopProgram = "assertion_on_screen")
    OBVIOUS
  <2>1. OpAt(TopProgram, TopNext) # Unlock(l)
    BY OpKinds DEF KindAt
  <2> QED
    BY <2>1 DEF Normal, LocksAccounted, AboutToUnlock
<1>3. CASE Boots
  <2>1. TopProgram = p /\ TopNext = n /\ p \in Inits /\ Depth = 1 /\ p \in {binary, "out_of_memory"}
    BY <1>3, NormalTop DEF Boots, TopProgram, TopNext, Inits
  <2> HIDE DEF p, n
  <2>2. BootRaises(p, n, e)
    BY <1>1, <2>1, BootOps DEF BootOp
  <2>3. MaskedAt(p, n)
    BY <2>1, <2>2 DEF MaskedAt, BootRaises
  <2>4. intr_flag = FALSE
    BY <2>1, <2>3 DEF Normal, FlagByPosition, p, n
  <2>5. Booting /\ n > 3
    BY <2>1, <2>2 DEF Booting, p, BootRaises
  <2>6. tss = TRUE /\ idt = IdtAt(p, n)
    BY <2>5 DEF Normal, TablesByPosition, p, n
  <2>7. passed = 0
    BY <2>1, <2>2 DEF Normal, PassedByPosition, PassedAt, BootRaises, p, n
  <2>8. TopProgram # "assertion_on_screen"
    BY <2>1, <2>2 DEF BootRaises
  <2>9. \/ e = "panic" /\ idt = "IDT"
        \/ e = "#PF" /\ idt = "TEST_IDT" /\ binary = "page_fault"
        \/ /\ e = "#DF" /\ idt = "TEST_IDT" /\ binary = "double_fault"
           /\ TopProgram = "double_fault"
    BY <2>1, <2>2, <2>6 DEF BootRaises, IdtAt, FaultTests
  <2> QED
    BY <1>2, <2>4, <2>6, <2>7, <2>8, <2>9 DEF RaiseContext
<1>4. CASE Commands
  <2>1. TopProgram = p /\ TopNext = n /\ p \in Turns /\ Depth = 1 /\ binary = "kernel"
    BY <1>4 DEF Commands, TopProgram, TopNext
  <2> HIDE DEF p, n
  <2>2. n = 5 /\ Size(p) = 10 /\ e = EventOf(p)
    BY <1>1, <2>1, TurnOps DEF TurnOp
  <2>3. MaskedAt(p, n)
    BY <2>1, <2>2 DEF MaskedAt
  <2>4. intr_flag = FALSE
    BY <2>1, <2>3 DEF Normal, FlagByPosition, p, n
  <2>5. ~Booting
    BY <2>1, NamesOfPrograms DEF Booting, p
  <2>6. tss = TRUE /\ idt = "IDT"
    BY <2>5 DEF Normal, TablesByPosition
  <2>7. passed = 0
    BY <2>1 DEF Normal, PassedByPosition, PassedAt, p, Turns
  <2>8. TopProgram # "assertion_on_screen"
    BY <2>1 DEF Turns
  <2>9. p \notin {"print", "mem"}
    BY <2>2, PrintOps, MemOps
  <2>10. (e = "#BP" /\ p = "breakpoint") \/ e = "panic" \/ e \in Faults
    BY <2>1, <2>2, <2>9 DEF EventOf, Turns, Faults
  <2> QED
    BY <1>2, <1>4, <2>1, <2>2, <2>4, <2>6, <2>7, <2>8, <2>10 DEF RaiseContext
<1>5. CASE TestRuns
  <2>1. p = "suite" /\ n \in {18, 23} /\ binary = "suite" /\ TopProgram \in Tests
    BY <1>5 DEF TestRuns, AfterCall, TopProgram
  <2> HIDE DEF p, n
  <2>2. MaskedAt(p, n) /\ p \in Inits
    BY <2>1 DEF MaskedAt, Inits, Binaries
  <2>3. intr_flag = FALSE
    BY <2>2 DEF Normal, FlagByPosition, p, n
  <2>4. Booting
    BY <2>2 DEF Booting, p
  <2>5. tss = TRUE /\ idt = IdtAt(p, n)
    BY <2>1, <2>4 DEF Normal, TablesByPosition, p, n
  <2>6. idt = "IDT"
    BY <2>1, <2>5 DEF IdtAt, FaultTests
  <2>7. \/ e = "#BP" /\ TopProgram = "int3" /\ TopNext = 1
        \/ e = "panic"
        \/ e = "#PF" /\ TopProgram = "fault"
    BY <1>1, <2>1, TestBodyOps DEF TestOp
  <2>8. \A l \in Locks : owner[l] # 0 => l = "LINE" \/ (l = "WRITER" /\ e = "panic")
    BY <1>2, <2>7, TestOps, OpKinds DEF KindAt
  <2> QED
    BY <1>5, <2>1, <2>3, <2>5, <2>6, <2>7, <2>8 DEF RaiseContext, Faults
<1>6. CASE BreakInCommand \/ BreakInTest
  <2>1. TopProgram = "#BP"
    BY <1>6 DEF BreakInCommand, BreakInTest, TopProgram
  <2> QED
    BY <1>1, <2>1, BreakpointHandlerOps DEF BreakpointOp
<1> QED
  BY <1>3, <1>4, <1>5, <1>6 DEF Normal, Shape, Idle

(* The running code raises e, as the event its binary waits for or not. *)
Raises(e, own) ==
    /\ Deliver(e, own, Advanced)
    /\ UNCHANGED <<owner, PANICKING, tables, exit, passed, reported, bugs>>

(* An event other than a breakpoint starts the fatal phase. *)
LEMMA RaiseFatal ==
    ASSUME Typed, Normal, cpu = "running", Depth > 0,
           NEW e, NEW own \in BOOLEAN, Raises(e, own), RaiseContext(e), e # "#BP",
           e = "#DF" /\ idt = "TEST_IDT" => own = TRUE
    PROVE  Typed' /\ Fatal' /\ cpu' = "running"
<1>1. Deliver(e, own, Advanced)
  BY DEF Raises
<1>2. TopNext <= Size(TopProgram)
  BY DEF Normal
<1>3. FramesTyped(Advanced) /\ OneFurther(Advanced)
  BY <1>2, AdvancedTyped
<1>4. intr_flag = FALSE /\ tss = TRUE /\ binary \in Binaries
  BY DEF RaiseContext, Typed, RestTyped
<1>5. e \in Faults \cup {"panic"}
  BY DEF RaiseContext, Faults
<1> DEFINE h == IF e = "panic" THEN PanicHandlerOf(binary) ELSE HandlerOf(idt, e, own)
<1>6. /\ frames' = Append(Advanced, Frame(h, FALSE))
      /\ intr_flag' = FALSE /\ cpu' = "running"
      /\ raised' = raised \cup {e} /\ awaited' = (awaited \/ own)
  <2>1. CASE e = "panic"
    BY <1>1, <1>4, <2>1, DeliverPanic
  <2>2. CASE e # "panic"
    <3>1. e \in Gates(binary, idt)
      BY <1>5, <2>2, GatesOf DEF RaiseContext
    <3> QED
      BY <1>1, <1>4, <1>5, <2>2, <3>1, DeliverException
  <2> QED
    BY <2>1, <2>2
<1>7. h \in Fatals
  BY <1>4, <1>5, PanicHandlers, GatesOf DEF RaiseContext, Fatals, Entries, Judges
<1>8. h \in Judges =>
          /\ passed = 0 /\ TestsOf(binary) = 0
          /\ Expected(binary) = {e}
  BY <1>4, <1>5, PanicHandlers, GatesOf
     DEF RaiseContext, TestsOf, Expected, Judges, Faults
<1>9. /\ h = "test_fault_handler" => own = TRUE
      /\ h = "should_panic_handler" => binary = "should_panic"
  BY <1>4, <1>5, PanicHandlers, GatesOf DEF RaiseContext, Faults
<1>10. h \notin Judges => binary # "should_panic" /\ idt = "IDT"
  BY <1>4, <1>5, PanicHandlers, GatesOf DEF RaiseContext, Judges
<1>11. \A l \in Locks : owner[l] # 0 =>
           l = "LINE" \/ (l = "WRITER" /\ h = "test_panic_handler")
  BY <1>4, <1>5, PanicHandlers DEF RaiseContext
<1>12. h \notin Agains /\ h \notin Firsts
  BY <1>4, <1>5, PanicHandlers, GatesOf DEF RaiseContext, Agains, Firsts, Faults
<1> HIDE DEF h
<1>13. h \in Names
  BY <1>7 DEF Names
<1> DEFINE s == Advanced
<1>14. Pushed(s, h, FALSE)
  BY <1>3, <1>6, <1>13, PushedStack
<1>15. Len(s) = Depth
  BY <1>3 DEF OneFurther
<1> HIDE DEF s
<1>16. /\ Depth' = Depth + 1 /\ TopProgram' = h /\ TopNext' = 1 /\ StackTyped'
       /\ TopNext' <= Size(TopProgram') /\ Depth \in Nat /\ Depth' > 0
  BY <1>14, <1>15 DEF Pushed, Typed, StackTyped, Depth
<1>17. LocksTyped' /\ owner' = owner
  BY <1>16 DEF Typed, LocksTyped, Raises
<1>18. RestTyped'
  <2>1. raised' \subseteq Faults \cup {"#BP", "panic"}
    BY <1>5, <1>6 DEF Typed, RestTyped
  <2>2. intr_flag' \in BOOLEAN
    BY <1>6
  <2>3. awaited' \in BOOLEAN
    BY <1>6
  <2> QED
    BY <1>6, <2>1, <2>2, <2>3 DEF Typed, RestTyped, Raises, tables
<1>19. raised' \ {"#BP"} = {e}
  BY <1>5, <1>6 DEF Normal, Faults
<1>20. /\ binary' = binary /\ tss' = TRUE /\ idt' = idt /\ passed' = passed
       /\ bugs' = 0 /\ PANICKING' = FALSE /\ exit' = 0
  BY <1>4 DEF Raises, Normal, tables
<1>21. FatalLocks'
  BY <1>11, <1>16, <1>17 DEF FatalLocks, Locks
<1>22. FatalReports'
  BY <1>12, <1>16 DEF FatalReports
<1>23. TopProgram' \in Judges =>
          /\ passed' = 0 /\ TestsOf(binary)' = 0
          /\ raised' \ {"#BP"} = Expected(binary)'
  BY <1>8, <1>16, <1>19, <1>20 DEF TestsOf, Expected
<1>24. /\ TopProgram' = "test_fault_handler" => awaited' = TRUE
       /\ TopProgram' = "should_panic_handler" => binary' = "should_panic"
  BY <1>6, <1>9, <1>16, <1>20
<1>25. Fatal'
  BY <1>6, <1>7, <1>10, <1>12, <1>16, <1>20, <1>21, <1>22, <1>23, <1>24 DEF Fatal
<1> QED
  BY <1>6, <1>16, <1>17, <1>18, <1>25 DEF Typed

LEMMA RaiseOwnEvent ==
    ASSUME Typed, Normal, cpu = "running", RaiseEvent, ArgAt(TopProgram, TopNext) # "#BP"
    PROVE  Typed' /\ Fatal' /\ cpu' = "running"
<1> DEFINE e == ArgAt(TopProgram, TopNext)
           own == TopProgram \in Awaiting
<1>1. /\ Depth > 0 /\ KindAt(TopProgram, TopNext) = "raise" /\ Op[2] = e
      /\ Top.program = TopProgram
  BY TopOperation DEF RaiseEvent
<1>2. RaiseContext(e)
  BY <1>1, NormalRaise
<1>3. Raises(e, own)
  BY <1>1 DEF RaiseEvent, Raises
<1>4. e = "#DF" /\ idt = "TEST_IDT" => own = TRUE
  BY <1>2 DEF RaiseContext, Awaiting
<1>5. own \in BOOLEAN
  OBVIOUS
<1> HIDE DEF e, own
<1>6. e # "#BP"
  BY DEF e
<1> QED
  BY <1>1, <1>2, <1>3, <1>4, <1>5, <1>6, RaiseFatal

(* What stands at the raise of a test's main. *)
LEMMA MainsRaise ==
    ASSUME Typed, Normal, Depth > 0, KindAt(TopProgram, TopNext) = "raise",
           TopProgram \in Awaiting
    PROVE  /\ Boots /\ Depth = 1 /\ binary = TopProgram
           /\ frames[1].program = TopProgram /\ frames[1].next = TopNext
           /\ TopNext = (IF binary = "should_panic" THEN 15 ELSE 14)
           /\ TopNext < Size(TopProgram)
           /\ binary = "page_fault" => ArgAt(TopProgram, TopNext) = "#PF"
<1>1. TopNext \in 1 .. Size(TopProgram) /\ Size(TopProgram) \in Nat
  BY NormalTop
<1>2. TopProgram \in Inits
  BY DEF Awaiting, Inits, Binaries
<1>3. TopProgram \notin Turns \cup Tests \cup {"#BP"}
  BY <1>2, NamesOfPrograms
<1>4. Boots
  BY <1>3 DEF Normal, Shape, Idle, Boots, Commands, TestRuns, BreakInCommand, BreakInTest,
         TopProgram
<1>5. /\ Depth = 1 /\ binary = TopProgram
      /\ frames[1].program = TopProgram /\ frames[1].next = TopNext
  BY <1>4 DEF Boots, TopProgram, TopNext, Awaiting
<1>6. BootRaises(TopProgram, TopNext, ArgAt(TopProgram, TopNext))
  BY <1>1, <1>2, BootOps DEF BootOp
<1>7. /\ TopNext = (IF binary = "should_panic" THEN 15 ELSE 14)
      /\ binary = "page_fault" => ArgAt(TopProgram, TopNext) = "#PF"
  BY <1>5, <1>6 DEF BootRaises, Awaiting
<1>8. TopNext < Size(TopProgram)
  BY <1>5, <1>7, FaultTestOps, ShouldPanicOps DEF Awaiting, FaultTests
<1> QED
  BY <1>4, <1>5, <1>7, <1>8

(* The test that meets a page fault at another address ends as failed. *)
LEMMA RaiseElsewhere ==
    ASSUME Typed, Normal, cpu = "running", FaultElsewhere
    PROVE  Typed' /\ Fatal' /\ cpu' = "running"
<1>1. /\ Depth > 0 /\ KindAt(TopProgram, TopNext) = "raise"
      /\ TopProgram = "page_fault"
  BY TopOperation DEF FaultElsewhere
<1>2. binary = "page_fault" /\ ArgAt(TopProgram, TopNext) = "#PF"
  BY <1>1, MainsRaise DEF Awaiting
<1>3. RaiseContext("#PF")
  BY <1>1, <1>2, NormalRaise
<1>4. Raises("#PF", FALSE)
  BY DEF FaultElsewhere, Raises
<1> QED
  BY <1>1, <1>3, <1>4, RaiseFatal

(* A main whose attempt goes through is still in the normal phase. *)
LEMMA NormalSurvive ==
    ASSUME Typed, Normal, Survive
    PROVE  Typed' /\ Normal'
<1> DEFINE p == frames[1].program
           n == frames[1].next
<1>1. /\ Depth > 0 /\ KindAt(TopProgram, TopNext) = "raise"
      /\ TopProgram \in Awaiting
  BY TopOperation DEF Survive
<1>2. /\ Boots /\ Depth = 1 /\ binary = TopProgram /\ p = TopProgram /\ n = TopNext
      /\ TopNext = (IF binary = "should_panic" THEN 15 ELSE 14)
      /\ TopNext < Size(TopProgram)
  BY <1>1, MainsRaise
<1>3. Advances
  BY <1>1, AdvancedStack DEF Survive, Normal
<1>4. p \in Inits /\ p \in Awaiting
  BY <1>1, <1>2 DEF Awaiting, Inits, Binaries
<1> HIDE DEF p, n
<1>5. Depth' = 1 /\ frames'[1].program = p /\ frames'[1].next = n + 1
  BY <1>2, <1>3 DEF Advances, p, n
<1>6. n \in {14, 15} /\ (p \in FaultTests => n = 14)
  BY <1>2, <1>4 DEF Awaiting, FaultTests
<1>7. /\ binary' = binary /\ tss' = tss /\ idt' = idt /\ intr_flag' = intr_flag
      /\ passed' = passed /\ owner' = owner
  BY DEF Survive, tables, history
<1>8. Shape'
  BY <1>2, <1>5, <1>7 DEF Shape, Boots
<1>9. TablesByPosition'
  <2>1. Booting /\ Booting'
    BY <1>2, <1>4, <1>5 DEF Booting, p
  <2>2. tss = TRUE /\ idt = IdtAt(p, n)
    BY <1>6, <2>1 DEF Normal, TablesByPosition, p, n
  <2>3. IdtAt(p, n + 1) = IdtAt(p, n)
    BY <1>6 DEF IdtAt
  <2> QED
    BY <1>5, <1>7, <2>1, <2>2, <2>3 DEF TablesByPosition
<1>10. FlagByPosition'
  <2>1. MaskedAt(p, n)
    BY <1>4 DEF MaskedAt, Awaiting
  <2>2. intr_flag = FALSE
    BY <1>2, <2>1 DEF Normal, FlagByPosition, p, n
  <2> QED
    BY <1>5, <1>7, <2>2 DEF FlagByPosition
<1>11. PassedByPosition'
  <2>1. PassedAt(p, n + 1) = PassedAt(p, n)
    BY <1>4 DEF PassedAt, Awaiting
  <2>2. passed = PassedAt(p, n)
    BY <1>2 DEF Normal, PassedByPosition, p, n
  <2> QED
    BY <1>5, <1>7, <2>1, <2>2 DEF PassedByPosition
<1>12. LocksAccounted'
  <2>1. ~InCommand
    BY <1>4, NamesOfPrograms DEF InCommand, p
  <2>2. TopProgram # "assertion_on_screen"
    BY <1>1 DEF Awaiting
  <2>3. \A l \in Locks : owner[l] = 0
    BY <1>1, <2>1, <2>2, NoLockHeld
  <2> QED
    BY <1>7, <2>3, FreeLocksAccounted
<1>13. LocksTyped'
  BY <1>3, <1>7 DEF Typed, LocksTyped, Advances
<1>14. RestTyped'
  BY DEF Typed, RestTyped, Survive, tables, history
<1>15. TopNext' <= Size(TopProgram')
  BY <1>2, <1>3, NormalTop DEF Advances
<1>16. bugs' = 0 /\ PANICKING' = FALSE /\ reported' = {} /\ raised' \subseteq {"#BP"} /\ exit' = 0
  BY DEF Normal, Survive, history
<1> QED
  BY <1>3, <1>8, <1>9, <1>10, <1>11, <1>12, <1>13, <1>14, <1>15, <1>16
     DEF Typed, Normal, Advances

(* A breakpoint comes back: the phase stays normal. *)
LEMMA RaiseBreakpoint ==
    ASSUME Typed, Normal, cpu = "running", RaiseEvent, ArgAt(TopProgram, TopNext) = "#BP"
    PROVE  Typed' /\ Normal' /\ cpu' = "running"
<1> DEFINE p == frames[1].program
           n == frames[1].next
           own == TopProgram \in Awaiting
<1>1. Depth > 0 /\ KindAt(TopProgram, TopNext) = "raise" /\ Op[2] = "#BP"
  BY TopOperation DEF RaiseEvent
<1>2. RaiseContext("#BP")
  BY <1>1, NormalRaise
<1>3. Deliver("#BP", own, Advanced)
  BY <1>1, TopOperation DEF RaiseEvent
<1> HIDE DEF own
<1>4. TopNext <= Size(TopProgram)
  BY <1>1 DEF Normal
<1>5. FramesTyped(Advanced) /\ OneFurther(Advanced)
  BY <1>1, <1>4, AdvancedTyped
<1>6. intr_flag = FALSE /\ tss = TRUE /\ idt = "IDT"
  BY <1>2 DEF RaiseContext, Faults
<1>7. \/ Commands /\ TopProgram = "breakpoint" /\ TopNext = 5
      \/ TestRuns /\ TopProgram = "int3" /\ TopNext = 1
  BY <1>2 DEF RaiseContext, Faults
<1>8. /\ frames' = Append(Advanced, Frame("#BP", FALSE))
      /\ intr_flag' = FALSE /\ cpu' = "running"
      /\ raised' = raised \cup {"#BP"} /\ awaited' = (awaited \/ own)
  <2>1. "#BP" \in Gates(binary, idt) /\ "#BP" \in Faults \cup {"#BP"}
    BY <1>6, GatesOf
  <2>2. /\ frames' = Append(Advanced, Frame(HandlerOf(idt, "#BP", own), intr_flag))
        /\ intr_flag' = FALSE /\ cpu' = cpu /\ raised' = raised \cup {"#BP"}
        /\ awaited' = (awaited \/ own)
    BY <1>3, <1>6, <2>1 DEF Deliver, Deliverable
  <2>3. HandlerOf(idt, "#BP", own) = "#BP"
    BY <1>6, GatesOf
  <2> QED
    BY <1>6, <2>2, <2>3
<1> DEFINE s == Advanced
<1>9. "#BP" \in Names
  BY DEF Names
<1>10. Pushed(s, "#BP", FALSE)
  BY <1>5, <1>8, <1>9, PushedStack
<1>11. /\ Len(s) = Depth /\ s[Depth].program = TopProgram /\ s[Depth].next = TopNext + 1
       /\ s[Depth].flag = frames[Depth].flag
       /\ \A i \in 1 .. Depth - 1 : s[i] = frames[i]
  BY <1>5 DEF OneFurther
<1> HIDE DEF s
<1>12. /\ Depth' = Depth + 1 /\ StackTyped' /\ TopNext' <= Size(TopProgram')
       /\ \A i \in 1 .. Depth : frames'[i] = s[i]
       /\ frames'[Depth + 1].program = "#BP" /\ frames'[Depth + 1].flag = FALSE
       /\ TopProgram' = "#BP" /\ TopNext' = 1
  BY <1>10, <1>11 DEF Pushed
<1>13. /\ binary' = binary /\ tss' = TRUE /\ idt' = "IDT" /\ passed' = passed /\ owner' = owner
       /\ bugs' = 0 /\ PANICKING' = FALSE /\ exit' = 0 /\ reported' = {}
  BY <1>6 DEF RaiseEvent, Normal, tables
<1>14. raised' \subseteq {"#BP"}
  BY <1>8 DEF Normal
<1>15. \A l \in Locks : owner[l] # 0 => l = "LINE"
  BY <1>2 DEF RaiseContext
<1>16. RestTyped'
  <2>1. raised' \subseteq Faults \cup {"#BP", "panic"}
    BY <1>14
  <2>2. intr_flag' \in BOOLEAN
    BY <1>8
  <2>3. awaited' \in BOOLEAN
    BY <1>8
  <2> QED
    BY <1>8, <2>1, <2>2, <2>3 DEF Typed, RestTyped, RaiseEvent, tables
<1>17. LocksTyped'
  BY <1>12, <1>13 DEF Typed, LocksTyped, StackTyped, Depth
<1>18. owner["LINE"] \in {0, 1}
  BY DEF Normal, LocksAccounted
<1>19. CASE Commands /\ TopProgram = "breakpoint" /\ TopNext = 5
  <2>1. Depth = 1 /\ p = "breakpoint" /\ n = 5 /\ binary = "kernel"
    BY <1>19 DEF Commands, TopProgram, TopNext
  <2>2. /\ Depth' = 2 /\ frames'[1].program = "breakpoint" /\ frames'[1].next = 6
        /\ frames'[2].program = "#BP" /\ frames'[2].flag = FALSE
    BY <1>11, <1>12, <1>19, <2>1
  <2>3. Shape'
    BY <1>13, <2>1, <2>2 DEF Shape, BreakInCommand
  <2>4. TablesByPosition'
    <3>1. ~Booting'
      BY <2>2 DEF Booting, Inits, Binaries
    <3> QED
      BY <1>13, <3>1 DEF TablesByPosition
  <2>5. FlagByPosition'
    <3>1. \A i \in 2 .. Depth' : i = 2
      BY <2>2
    <3>2. \A i \in 2 .. Depth' : frames'[i].flag = FALSE
      BY <2>2, <3>1
    <3> QED
      BY <1>8, <3>2 DEF FlagByPosition
  <2>6. PassedByPosition'
    <3>1. passed = 0
      BY <2>1 DEF Normal, PassedByPosition, PassedAt
    <3> QED
      BY <1>13, <2>2, <3>1 DEF PassedByPosition, PassedAt
  <2>7. LocksAccounted'
    <3>1. Size("breakpoint") = 10
      BY RaisingOps DEF Turns
    <3>2. InCommand'
      BY <2>2, <3>1 DEF InCommand, Turns
    <3> QED
      BY <1>13, <1>15, <1>18, <3>2 DEF LocksAccounted
  <2>8. Normal'
    BY <1>12, <1>13, <1>14, <2>3, <2>4, <2>5, <2>6, <2>7 DEF Normal
  <2> QED
    BY <1>8, <1>12, <1>16, <1>17, <2>8 DEF Typed
<1>20. CASE TestRuns /\ TopProgram = "int3" /\ TopNext = 1
  <2>1. Depth = 2 /\ p = "suite" /\ n \in {18, 23} /\ binary = "suite"
    BY <1>20 DEF TestRuns, AfterCall
  <2>2. s[1] = frames[1] /\ s[2].flag = frames[2].flag
    BY <1>11, <2>1
  <2>3. /\ Depth' = 3 /\ frames'[1] = frames[1]
        /\ frames'[2].program = "int3" /\ frames'[2].next = 2 /\ frames'[2].flag = frames[2].flag
        /\ frames'[3].program = "#BP" /\ frames'[3].flag = FALSE
    BY <1>11, <1>12, <1>20, <2>1, <2>2
  <2>4. Shape'
    BY <1>13, <2>1, <2>3 DEF Shape, BreakInTest, AfterCall
  <2>5. TablesByPosition'
    <3>1. IdtAt(p, n) = "IDT"
      BY <2>1 DEF IdtAt, FaultTests
    <3> QED
      BY <1>13, <2>3, <3>1 DEF TablesByPosition
  <2>6. FlagByPosition'
    <3>1. \A i \in 2 .. Depth' : i = 2 \/ i = 3
      BY <2>3
    <3>2. frames[2].flag = FALSE
      BY <2>1 DEF Normal, FlagByPosition
    <3>3. \A i \in 2 .. Depth' : frames'[i].flag = FALSE
      BY <2>3, <3>1, <3>2
    <3> QED
      BY <1>8, <3>3 DEF FlagByPosition
  <2>7. PassedByPosition'
    <3>1. passed = PassedAt(p, n - 1)
      BY <2>1 DEF Normal, PassedByPosition
    <3> QED
      BY <1>13, <2>3, <3>1 DEF PassedByPosition
  <2>8. \A l \in Locks : owner[l] = 0
    BY <1>1, <1>20, <2>1, NoLockHeld DEF InCommand, Turns
  <2>9. LocksAccounted'
    BY <1>13, <2>8, FreeLocksAccounted
  <2>10. Normal'
    BY <1>12, <1>13, <1>14, <2>4, <2>5, <2>6, <2>7, <2>9 DEF Normal
  <2> QED
    BY <1>8, <1>12, <1>16, <1>17, <2>10 DEF Typed
<1> QED
  BY <1>7, <1>19, <1>20

-----------------------------------------------------------------------------
(* Steps of the fatal phase.                                               *)

LEMMA FatalTop ==
    ASSUME Typed, Fatal
    PROVE  /\ FatalOp(TopProgram, TopNext)
           /\ TopNext \in Nat /\ TopNext >= 1 /\ Size(TopProgram) \in Nat /\ Depth \in Nat
           /\ TopProgram \in Fatals /\ frames[Depth].flag \in BOOLEAN
<1>1. frames \in Seq(Frames) /\ Depth \in 1 .. Len(frames) /\ Depth \in Nat
  BY DEF Typed, StackTyped, Fatal, Depth
<1>2. frames[Depth] \in Frames
  BY <1>1, ElementOfSeq
<1>3. TopNext \in Nat /\ TopNext >= 1 /\ TopProgram \in Names /\ frames[Depth].flag \in BOOLEAN
  <2>1. frames[Depth].next \in 1 .. Size(frames[Depth].program) + 1
    BY <1>1 DEF Typed, StackTyped
  <2> QED
    BY <1>2, <2>1 DEF Frames, TopNext, TopProgram
<1>4. TopProgram \in Fatals /\ TopNext <= Size(TopProgram)
  BY DEF Fatal
<1>5. Size(TopProgram) \in Nat
  BY <1>3, Sizes
<1>6. TopNext \in 1 .. Size(TopProgram)
  BY <1>3, <1>4, <1>5
<1> QED
  BY <1>1, <1>3, <1>4, <1>5, <1>6, FatalOps

(* A step of a handler that leaves everything but the locks and the        *)
(* reports alone.                                                          *)
FatalLockStep ==
    /\ frames' = Advanced
    /\ KindAt(TopProgram, TopNext) \in {"lock", "unlock"}
    /\ UNCHANGED <<PANICKING, intr_flag, binary, tss, idt, exit, passed, raised, awaited, bugs>>

LEMMA FatalAdvance ==
    ASSUME Typed, Fatal, FatalLockStep, bugs = 0 => FatalLocks' /\ FatalReports'
    PROVE  Fatal' /\ Advances
<1>1. Advances
  BY AdvancedStack DEF Fatal, FatalLockStep
<1>2. Depth' = Depth /\ TopProgram' = TopProgram /\ TopNext' = TopNext + 1
  BY <1>1 DEF Advances
<1>3. TopProgram \notin Entries /\ TopNext < Size(TopProgram)
  BY FatalTop DEF FatalOp, FatalLockStep
<1>4. TopNext' <= Size(TopProgram')
  BY <1>2, <1>3, FatalTop
<1>5. /\ PANICKING' = PANICKING /\ intr_flag' = FALSE /\ binary' = binary /\ tss' = TRUE
      /\ idt' = idt /\ exit' = 0 /\ passed' = passed /\ raised' = raised /\ bugs' = bugs
      /\ awaited' = awaited
  BY DEF FatalLockStep, Fatal
<1>6. TestsOf(binary)' = TestsOf(binary) /\ Expected(binary)' = Expected(binary)
  BY <1>5 DEF TestsOf, Expected
<1> QED
  BY <1>1, <1>2, <1>3, <1>4, <1>5, <1>6 DEF Fatal

LEMMA FatalTakeLock ==
    ASSUME Typed, Fatal, TakeLock
    PROVE  Typed' /\ Fatal' /\ cpu' = "running"
<1> DEFINE a == ArgAt(TopProgram, TopNext)
<1>1. /\ Depth > 0 /\ KindAt(TopProgram, TopNext) = "lock" /\ Op[2] = a /\ cpu = "running"
  BY TopOperation DEF TakeLock
<1> HIDE DEF a
<1>2. FatalLockStep
  BY <1>1 DEF TakeLock, FatalLockStep, tables, history
<1>3. owner[a] = 0 /\ owner' = [owner EXCEPT ![a] = Depth] /\ reported' = reported
  BY <1>1 DEF TakeLock, history
<1>4. a \in {"SERIAL1", "WRITER"} /\ OpAt(TopProgram, TopNext + 1) = Unlock(a)
  BY <1>1, FatalTop DEF FatalOp, a
<1>5. a \in Locks
  BY <1>4 DEF Locks
<1>6. /\ owner \in [Locks -> Nat] /\ Depth \in Nat
      /\ \A l \in Locks : owner[l] <= Depth
  BY DEF Typed, LocksTyped, StackTyped, Depth
<1>7. /\ owner'[a] = Depth
      /\ \A l \in Locks \ {a} : owner'[l] = owner[l]
      /\ owner' \in [Locks -> Nat]
  BY <1>3, <1>5, <1>6
<1>8. Advances
  BY <1>2, AdvancedStack DEF Fatal, FatalLockStep
<1>9. Depth' = Depth /\ TopProgram' = TopProgram /\ TopNext' = TopNext + 1
  BY <1>8 DEF Advances
<1>10. ASSUME bugs = 0 PROVE FatalLocks' /\ FatalReports'
  <2>1. FatalLocks /\ FatalReports
    BY <1>10 DEF Fatal
  <2>2. FatalLocks'
    <3> SUFFICES ASSUME NEW l \in Locks, owner'[l] # 0
                 PROVE  \/ l \in {"LINE", "ALLOCATOR"}
                        \/ AboutToUnlock(l)'
                        \/ l = "WRITER" /\ TopProgram' = "test_panic_handler"
      BY DEF FatalLocks
    <3>1. CASE l = a
      BY <1>4, <1>9, <3>1 DEF AboutToUnlock
    <3>2. CASE l # a
      <4>1. owner[l] # 0
        BY <1>7, <3>2
      <4>2. ~AboutToUnlock(l)
        BY <1>1, OpKinds DEF KindAt, AboutToUnlock
      <4> QED
        BY <1>9, <2>1, <4>1, <4>2 DEF FatalLocks
    <3> QED
      BY <3>1, <3>2
  <2>3. FatalReports'
    <3>1. TopProgram \in Firsts => TopNext \notin {2, 4}
      BY <1>1, FatalTop DEF FatalOp
    <3> QED
      BY <1>3, <1>9, <2>1, <3>1, FatalTop DEF FatalReports
  <2> QED
    BY <2>2, <2>3
<1>11. Fatal'
  BY <1>2, <1>10, FatalAdvance
<1>12. LocksTyped'
  BY <1>6, <1>7, <1>9 DEF LocksTyped
<1>13. RestTyped' /\ cpu' = "running"
  BY <1>1 DEF Typed, RestTyped, TakeLock, tables, history
<1> QED
  BY <1>8, <1>11, <1>12, <1>13 DEF Typed, Advances

LEMMA FatalReleaseLock ==
    ASSUME Typed, Fatal, ReleaseLock
    PROVE  Typed' /\ Fatal' /\ cpu' = "running"
<1> DEFINE a == ArgAt(TopProgram, TopNext)
<1>1. /\ Depth > 0 /\ KindAt(TopProgram, TopNext) = "unlock" /\ Op[2] = a /\ cpu = "running"
      /\ Top.program = TopProgram
  BY TopOperation DEF ReleaseLock
<1> HIDE DEF a
<1>2. FatalLockStep
  BY <1>1 DEF ReleaseLock, FatalLockStep, tables
<1>3. /\ owner' = [owner EXCEPT ![a] = 0]
      /\ reported' = IF TopProgram \in Firsts THEN reported \cup {a} ELSE reported
  BY <1>1 DEF ReleaseLock, Firsts
<1>4. /\ a \in {"SERIAL1", "WRITER"} /\ OpAt(TopProgram, TopNext) = Unlock(a)
      /\ TopProgram \in Firsts =>
            (TopNext = 2 /\ a = "SERIAL1") \/ (TopNext = 4 /\ a = "WRITER")
  BY <1>1, FatalTop DEF FatalOp, a
<1>5. a \in Locks
  BY <1>4 DEF Locks
<1>6. /\ owner \in [Locks -> Nat] /\ Depth \in Nat
      /\ \A l \in Locks : owner[l] <= Depth
  BY DEF Typed, LocksTyped, StackTyped, Depth
<1>7. /\ owner'[a] = 0
      /\ \A l \in Locks \ {a} : owner'[l] = owner[l]
      /\ owner' \in [Locks -> Nat]
  BY <1>3, <1>5, <1>6
<1>8. Advances
  BY <1>2, AdvancedStack DEF Fatal, FatalLockStep
<1>9. Depth' = Depth /\ TopProgram' = TopProgram /\ TopNext' = TopNext + 1
  BY <1>8 DEF Advances
<1>10. ASSUME bugs = 0 PROVE FatalLocks' /\ FatalReports'
  <2>1. FatalLocks /\ FatalReports
    BY <1>10 DEF Fatal
  <2>2. FatalLocks'
    <3> SUFFICES ASSUME NEW l \in Locks, owner'[l] # 0
                 PROVE  \/ l \in {"LINE", "ALLOCATOR"}
                        \/ l = "WRITER" /\ TopProgram' = "test_panic_handler"
      BY DEF FatalLocks
    <3>1. l # a /\ owner[l] # 0
      BY <1>7
    <3>2. ~AboutToUnlock(l)
      BY <1>4, <3>1 DEF AboutToUnlock, Unlock
    <3> QED
      BY <1>9, <2>1, <3>1, <3>2 DEF FatalLocks
  <2>3. FatalReports'
    BY <1>3, <1>4, <1>9, <2>1, FatalTop DEF FatalReports
  <2> QED
    BY <2>2, <2>3
<1>11. Fatal'
  BY <1>2, <1>10, FatalAdvance
<1>12. LocksTyped'
  BY <1>6, <1>7, <1>9 DEF LocksTyped
<1>13. RestTyped' /\ cpu' = "running"
  <2>1. reported' \subseteq {"SERIAL1", "WRITER"}
    BY <1>3, <1>4 DEF Typed, RestTyped
  <2> QED
    BY <1>1, <2>1 DEF Typed, RestTyped, ReleaseLock, tables
<1> QED
  BY <1>8, <1>11, <1>12, <1>13 DEF Typed, Advances

LEMMA FatalEnter ==
    ASSUME Typed, Fatal, EnterFatalHandler
    PROVE  Typed' /\ Fatal' /\ cpu' = "running"
<1> DEFINE a == ArgAt(TopProgram, TopNext)
           q == IF PANICKING THEN Again[a] ELSE First[a]
           f == Frame(q, frames[Depth].flag)
<1>1. /\ Depth > 0 /\ KindAt(TopProgram, TopNext) = "enter" /\ Op[2] = a /\ cpu = "running"
  BY TopOperation DEF EnterFatalHandler
<1>2. TopProgram \in Entries /\ a \in {"panic", "fault"}
  BY <1>1, FatalTop DEF FatalOp
<1>3. frames' = [frames EXCEPT ![Depth] = f] /\ PANICKING' = TRUE
  BY <1>1 DEF EnterFatalHandler
<1>4. q \in Firsts \cup Agains /\ (PANICKING = FALSE => q \in Firsts)
  BY <1>2 DEF First, Again, Firsts, Agains
<1> HIDE DEF a, q
<1>5. q \in Names /\ q \in Fatals /\ q \notin Entries /\ q \notin Judges
  BY <1>4, NamesOfPrograms DEF Names, Fatals
<1>6. f \in Frames /\ f.program = q /\ f.next = 1
  BY <1>5, FatalTop DEF Frame, Frames
<1> HIDE DEF f
<1>7. frames \in Seq(Frames) /\ Depth \in Nat /\ Depth = Len(frames)
  BY DEF Typed, StackTyped, Depth
<1>8. /\ frames' \in Seq(Frames) /\ Len(frames') = Depth
      /\ \A i \in 1 .. Depth - 1 : frames'[i] = frames[i]
      /\ frames'[Depth] = f
  BY <1>1, <1>3, <1>6, <1>7
<1>9. Size(q) \in Nat /\ Size(q) >= 1
  BY <1>5, Sizes
<1>10. Depth' = Depth /\ TopProgram' = q /\ TopNext' = 1
  BY <1>6, <1>8 DEF Depth, TopProgram, TopNext
<1>11. StackTyped'
  <2>1. ASSUME NEW i \in 1 .. Depth
        PROVE  frames'[i].next \in 1 .. Size(frames'[i].program) + 1
    <3>1. CASE i = Depth
      BY <1>6, <1>8, <1>9, <3>1
    <3>2. CASE i # Depth
      <4>1. frames'[i] = frames[i]
        BY <1>7, <1>8, <3>2
      <4> QED
        BY <4>1 DEF Typed, StackTyped
    <3> QED
      BY <3>1, <3>2
  <2> QED
    BY <1>8, <1>10, <2>1 DEF StackTyped
<1>12. /\ owner' = owner /\ intr_flag' = FALSE /\ binary' = binary /\ tss' = TRUE /\ idt' = idt
       /\ exit' = 0 /\ bugs' = bugs /\ reported' = reported /\ cpu' = "running"
  BY <1>1 DEF EnterFatalHandler, Fatal, tables, history
<1>13. ASSUME bugs = 0
       PROVE  q \notin Agains /\ FatalLocks' /\ FatalReports'
  <2>1. q \in Firsts /\ q \notin Agains
    BY <1>2, <1>4, <1>13, NamesOfPrograms DEF Fatal
  <2>2. FatalLocks'
    <3> SUFFICES ASSUME NEW l \in Locks, owner'[l] # 0
                 PROVE  l \in {"LINE", "ALLOCATOR"}
      BY DEF FatalLocks
    <3>1. ~AboutToUnlock(l)
      BY <1>1, OpKinds DEF KindAt, AboutToUnlock
    <3>2. TopProgram # "test_panic_handler"
      BY <1>2, NamesOfPrograms
    <3> QED
      BY <1>12, <1>13, <3>1, <3>2 DEF Fatal, FatalLocks
  <2>3. FatalReports'
    BY <1>10 DEF FatalReports
  <2> QED
    BY <2>1, <2>2, <2>3
<1>14. binary # "should_panic" /\ idt = "IDT"
  BY <1>2, NamesOfPrograms DEF Fatal
<1>15. Fatal'
  BY <1>1, <1>5, <1>9, <1>10, <1>12, <1>13, <1>14 DEF Fatal, Judges
<1>16. LocksTyped'
  BY <1>10, <1>12 DEF Typed, LocksTyped
<1>17. RestTyped'
  <2>1. PANICKING' \in BOOLEAN
    BY <1>3
  <2> QED
    BY <2>1 DEF Typed, RestTyped, EnterFatalHandler, tables, history
<1> QED
  BY <1>11, <1>12, <1>15, <1>16, <1>17 DEF Typed

LEMMA FatalHalt ==
    ASSUME Typed, Fatal, HaltLoop
    PROVE  IInv'
<1>1. KindAt(TopProgram, TopNext) = "halt"
  BY TopOperation DEF HaltLoop
<1>2. TopProgram \in Agains \/ (TopProgram \in Firsts /\ TopNext = 5)
  BY <1>1, FatalTop DEF FatalOp
<1>3. bugs = 0 => reported = {"SERIAL1", "WRITER"}
  <2>1. ASSUME bugs = 0 PROVE "SERIAL1" \in reported /\ "WRITER" \in reported
    BY <1>2, <2>1 DEF Fatal, FatalReports
  <2> QED
    BY <2>1 DEF Typed, RestTyped
<1>4. /\ cpu' = "halted" /\ reported' = reported /\ bugs' = bugs /\ intr_flag' = FALSE /\ exit' = 0
  BY DEF HaltLoop, Fatal, history
<1>5. Stopped'
  BY <1>3, <1>4 DEF Stopped, HaltIsReported, HaltIsFinal, GreenMeansPassed, TestSuccessExitCode
<1>6. StackTyped' /\ LocksTyped'
  BY DEF Typed, StackTyped, LocksTyped, HaltLoop, Depth
<1>7. RestTyped'
  BY <1>4 DEF Typed, RestTyped, HaltLoop, tables, history
<1> QED
  BY <1>4, <1>5, <1>6, <1>7 DEF IInv, Typed

LEMMA FatalExit ==
    ASSUME Typed, Fatal, ExitQemu
    PROVE  IInv'
<1> DEFINE code == ArgAt(TopProgram, TopNext)
<1>1. KindAt(TopProgram, TopNext) = "exit" /\ Op[2] = code
  BY TopOperation DEF ExitQemu
<1>2. (TopProgram \in Judges \ {"wrong_address"} /\ code = "Success") \/ code = "Failed"
  BY <1>1, FatalTop DEF FatalOp
<1> HIDE DEF code
<1>3. exit' = HostSees(code) /\ cpu' = "exited"
  BY <1>1 DEF ExitQemu
<1>4. GreenMeansPassed'
  <2>1. CASE code = "Failed"
    <3>1. exit' # TestSuccessExitCode
      BY <1>3, <2>1, ExitCodes DEF TestSuccessExitCode
    <3> QED
      BY <3>1 DEF GreenMeansPassed, TestSuccessExitCode
  <2>2. CASE TopProgram \in Judges \ {"wrong_address"}
    <3>1. /\ passed = TestsOf(binary) /\ raised \ {"#BP"} = Expected(binary)
          /\ awaited = TRUE \/ binary = "should_panic"
      BY <2>2 DEF Fatal, Judges
    <3>2. passed' = passed /\ raised' = raised /\ binary' = binary /\ awaited' = awaited
      BY DEF ExitQemu, tables
    <3> QED
      BY <3>1, <3>2 DEF GreenMeansPassed, TestsOf, Expected
  <2> QED
    BY <1>2, <2>1, <2>2
<1>5. Stopped'
  BY <1>3, <1>4 DEF Stopped, HaltIsReported, HaltIsFinal
<1>6. StackTyped' /\ LocksTyped'
  BY DEF Typed, StackTyped, LocksTyped, ExitQemu, Depth
<1>7. exit' \in {0, 33, 35}
  BY <1>2, <1>3, ExitCodes
<1>8. RestTyped'
  BY <1>3, <1>7 DEF Typed, RestTyped, ExitQemu, tables
<1> QED
  BY <1>3, <1>5, <1>6, <1>8 DEF IInv, Typed

(* A message that fails starts another handler, which ends as well. *)
LEMMA FatalFormatBug ==
    ASSUME Typed, Fatal, NEW e \in {"panic", "#PF"}, FormatBug(e)
    PROVE  Typed' /\ Fatal' /\ cpu' = "running"
<1> DEFINE h == IF e = "panic" THEN PanicHandlerOf(binary) ELSE "#PF"
<1>1. /\ cpu = "running" /\ Depth > 0 /\ Top.program = TopProgram
  BY TopOperation DEF FormatBug
<1>2. TopProgram \notin Judges
  <2>1. PANICKING \/ TopProgram = "test_panic_handler"
    BY <1>1 DEF FormatBug
  <2> QED
    BY <2>1, NamesOfPrograms DEF Fatal
<1>3. binary # "should_panic" /\ idt = "IDT" /\ tss = TRUE /\ intr_flag = FALSE
  BY <1>2 DEF Fatal
<1>4. binary \in Binaries /\ bugs \in Nat /\ bugs + 1 <= MaxFormatBugs
  BY MaxFormatBugsAssumption DEF Typed, RestTyped, FormatBug
<1>5. /\ frames' = Append(frames, Frame(h, FALSE))
      /\ intr_flag' = FALSE /\ cpu' = "running"
      /\ raised' = raised \cup {e} /\ awaited' = (awaited \/ FALSE)
  <2>1. Deliver(e, FALSE, frames)
    BY DEF FormatBug
  <2>2. CASE e = "panic"
    BY <1>1, <1>3, <2>1, <2>2, DeliverPanic
  <2>3. CASE e = "#PF"
    <3>1. e \in Faults /\ e \in Faults \cup {"#BP"} /\ e \in Gates(binary, idt)
      BY <1>3, <2>3, GatesOf DEF Faults
    <3>2. /\ frames' = Append(frames, Frame(HandlerOf(idt, e, FALSE), intr_flag))
          /\ intr_flag' = FALSE /\ cpu' = cpu /\ raised' = raised \cup {e}
          /\ awaited' = (awaited \/ FALSE)
      BY <1>3, <2>1, <3>1, DeliverException
    <3>3. HandlerOf(idt, e, FALSE) = "#PF"
      BY <1>3, <2>3, GatesOf
    <3> QED
      BY <1>1, <1>3, <2>3, <3>2, <3>3
  <2> QED
    BY <2>2, <2>3
<1>6. h \in Fatals /\ h \notin Judges
  BY <1>3, <1>4, PanicHandlers DEF Fatals, Entries, Faults, Judges
<1> HIDE DEF h
<1>7. h \in Names
  BY <1>6 DEF Names
<1>8. FramesTyped(frames)
  BY DEF Typed, StackTyped, FramesTyped, Depth
<1>9. Pushed(frames, h, FALSE)
  BY <1>5, <1>7, <1>8, PushedStack
<1>10. /\ Depth' = Depth + 1 /\ TopProgram' = h /\ TopNext' = 1 /\ StackTyped'
       /\ TopNext' <= Size(TopProgram') /\ Depth \in Nat /\ Depth' > 0
  BY <1>9 DEF Pushed, Typed, StackTyped, Depth
<1>11. /\ owner' = owner /\ binary' = binary /\ tss' = TRUE /\ idt' = "IDT"
       /\ exit' = 0 /\ bugs' = bugs + 1
  BY <1>3 DEF FormatBug, Fatal, tables
<1>12. bugs' # 0
  BY <1>4, <1>11
<1>13. Fatal'
  BY <1>3, <1>5, <1>6, <1>10, <1>11, <1>12 DEF Fatal, Judges
<1>14. LocksTyped'
  BY <1>10, <1>11 DEF Typed, LocksTyped
<1>15. RestTyped'
  <2>1. raised' \subseteq Faults \cup {"#BP", "panic"}
    BY <1>5 DEF Typed, RestTyped, Faults
  <2>2. intr_flag' \in BOOLEAN
    BY <1>5
  <2>3. bugs' \in 0 .. MaxFormatBugs
    BY <1>4, <1>11, MaxFormatBugsAssumption
  <2>4. awaited' \in BOOLEAN
    BY <1>5
  <2> QED
    BY <1>5, <2>1, <2>2, <2>3, <2>4 DEF Typed, RestTyped, FormatBug, tables
<1> QED
  BY <1>5, <1>10, <1>13, <1>14, <1>15 DEF Typed

-----------------------------------------------------------------------------
(* The inductive invariant is preserved by every step.                     *)

LEMMA NormalStep ==
    ASSUME Typed, Normal, cpu = "running", Next
    PROVE  IInv'
<1>1. ASSUME NEW c \in DOMAIN Turn, StartTurn(c) PROVE IInv'
  BY <1>1, NormalStartTurn DEF IInv, StartTurn
<1>2. CASE TakeLock
  BY <1>2, NormalTakeLock DEF IInv, TakeLock
<1>3. CASE ReleaseLock
  BY <1>3, NormalReleaseLock DEF IInv, ReleaseLock
<1>4. CASE LoadTable
  BY <1>4, NormalLoadTable DEF IInv, LoadTable
<1>5. CASE SetFlag
  BY <1>5, NormalSetFlag DEF IInv, SetFlag
<1>6. CASE RaiseEvent
  <2>1. CASE ArgAt(TopProgram, TopNext) = "#BP"
    BY <1>6, <2>1, RaiseBreakpoint DEF IInv
  <2>2. CASE ArgAt(TopProgram, TopNext) # "#BP"
    BY <1>6, <2>2, RaiseOwnEvent DEF IInv
  <2> QED
    BY <2>1, <2>2
<1>7. CASE Survive
  BY <1>7, NormalSurvive DEF IInv, Survive
<1>8. CASE FaultElsewhere
  BY <1>8, RaiseElsewhere DEF IInv
<1>9. ASSUME NEW k \in {"enter", "halt"}, At(k) PROVE FALSE
  <2>1. Depth > 0 /\ KindAt(TopProgram, TopNext) = k
    BY <1>9, TopOperation
  <2>2. TopNext \in 1 .. Size(TopProgram)
    BY <2>1, NormalTop
  <2>3. TopProgram \in Inits \cup Turns \cup Tests \cup {"#BP"}
    BY <2>1, NormalTopNotFatal
  <2> QED
    BY <2>1, <2>2, <2>3, BootOps, TurnOps, TestBodyOps, BreakpointHandlerOps
       DEF BootOp, TurnOp, TestOp, BreakpointOp
<1>10. CASE EnterFatalHandler \/ HaltLoop
  BY <1>9, <1>10 DEF EnterFatalHandler, HaltLoop
<1>11. CASE ExitQemu
  BY <1>11, NormalExitQemu
<1>12. CASE ReturnFromFrame
  BY <1>12, NormalReturn DEF IInv, ReturnFromFrame
<1>13. ASSUME NEW body \in DOMAIN TestBody, CallTest(body) PROVE IInv'
  BY <1>13, NormalCallTest DEF IInv, CallTest
<1>14. ASSUME NEW e \in {"panic", "#PF"}, FormatBug(e) PROVE FALSE
  <2>1. Depth > 0 /\ Top.program = TopProgram
    BY <1>14, TopOperation DEF FormatBug
  <2>2. TopProgram \notin Fatals
    BY <2>1, NormalTopNotFatal
  <2> QED
    BY <1>14, <2>1, <2>2 DEF FormatBug, Normal, Fatals
<1> QED
  BY <1>1, <1>2, <1>3, <1>4, <1>5, <1>6, <1>7, <1>8, <1>10, <1>11, <1>12, <1>13, <1>14 DEF Next, Step

LEMMA FatalStep ==
    ASSUME Typed, Fatal, cpu = "running", Next
    PROVE  IInv'
<1>1. ASSUME NEW c \in DOMAIN Turn, StartTurn(c) PROVE FALSE
  BY <1>1 DEF StartTurn, Fatal, Depth
<1>2. CASE TakeLock
  BY <1>2, FatalTakeLock DEF IInv
<1>3. CASE ReleaseLock
  BY <1>3, FatalReleaseLock DEF IInv
<1>4. CASE EnterFatalHandler
  BY <1>4, FatalEnter DEF IInv
<1>5. CASE HaltLoop
  BY <1>5, FatalHalt
<1>6. CASE ExitQemu
  BY <1>6, FatalExit
<1>7. ASSUME NEW k \in {"load", "cli", "sti", "raise", "return", "call"}, At(k) PROVE FALSE
  BY <1>7, TopOperation, FatalTop DEF FatalOp
<1>8. CASE \/ LoadTable \/ SetFlag \/ RaiseEvent \/ Survive \/ FaultElsewhere
           \/ ReturnFromFrame
  BY <1>7, <1>8 DEF LoadTable, SetFlag, RaiseEvent, Survive, FaultElsewhere, ReturnFromFrame
<1>9. ASSUME NEW body \in DOMAIN TestBody, CallTest(body) PROVE FALSE
  BY <1>7, <1>9 DEF CallTest
<1>10. ASSUME NEW e \in {"panic", "#PF"}, FormatBug(e) PROVE IInv'
  BY <1>10, FatalFormatBug DEF IInv
<1> QED
  BY <1>1, <1>2, <1>3, <1>4, <1>5, <1>6, <1>8, <1>9, <1>10 DEF Next, Step

LEMMA IInvStep == IInv /\ [Next]_vars => IInv'
<1> SUFFICES ASSUME IInv, [Next]_vars PROVE IInv'
  OBVIOUS
<1>1. CASE Next
  <2>1. cpu = "running"
    BY <1>1 DEF Next, Step, StartTurn, TakeLock, ReleaseLock, LoadTable, SetFlag, RaiseEvent,
       Survive, FaultElsewhere, EnterFatalHandler, HaltLoop, ExitQemu, ReturnFromFrame, CallTest, FormatBug, At
  <2> QED
    BY <1>1, <2>1, NormalStep, FatalStep DEF IInv
<1>2. CASE UNCHANGED vars
  BY <1>2 DEF vars, tables, history, IInv, Typed, StackTyped, LocksTyped, RestTyped, Normal,
     Fatal, Stopped, HaltIsReported, HaltIsFinal, GreenMeansPassed, Shape, Idle, Boots,
     Commands, TestRuns, BreakInCommand, BreakInTest, AfterCall, TablesByPosition, Booting,
     FlagByPosition, PassedByPosition, LocksAccounted, InCommand, AboutToUnlock, FatalLocks,
     FatalReports, TopProgram, TopNext, Depth
<1> QED
  BY <1>1, <1>2

LEMMA Inductive == Spec => []IInv
BY InitIInv, IInvStep, PTL DEF Spec

-----------------------------------------------------------------------------
(* Theorems.                                                               *)

LEMMA IInvTypeOK == IInv => TypeOK
<1> SUFFICES ASSUME IInv PROVE TypeOK
  OBVIOUS
<1>1. owner \in [Locks -> 0 .. Depth]
  <2>1. owner \in [Locks -> Nat] /\ Depth \in Nat
    BY DEF IInv, Typed, LocksTyped, StackTyped, Depth
  <2>2. ASSUME NEW l \in Locks PROVE owner[l] \in 0 .. Depth
    <3>1. owner[l] \in Nat /\ owner[l] <= Depth
      BY <2>1 DEF IInv, Typed, LocksTyped
    <3> QED
      BY <2>1, <3>1
  <2> QED
    BY <2>1, <2>2
<1>2. \A i \in 1 .. Depth : frames[i].next \in 1 .. Len(Program(frames[i].program)) + 1
  BY DEF IInv, Typed, StackTyped, Size
<1>3. exit \in {0, HostSees("Success"), HostSees("Failed")}
  BY ExitCodes DEF IInv, Typed, RestTyped
<1> QED
  BY <1>1, <1>2, <1>3 DEF TypeOK, IInv, Typed, RestTyped

LEMMA IInvNoSelfDeadlock == IInv => NoSelfDeadlock
<1> SUFFICES ASSUME IInv, bugs = 0, Blocked PROVE FALSE
  BY DEF NoSelfDeadlock
<1> DEFINE a == ArgAt(TopProgram, TopNext)
<1>1. Typed
  BY DEF IInv
<1>2. /\ cpu = "running" /\ Depth > 0 /\ KindAt(TopProgram, TopNext) = "lock"
      /\ owner[a] # 0
  BY <1>1, TopOperation DEF Blocked
<1>3. \A l : ~AboutToUnlock(l)
  BY <1>2, OpKinds DEF KindAt, AboutToUnlock
<1> HIDE DEF a
<1>4. CASE Normal
  <2>1. /\ a \in Locks
        /\ \/ a # "LINE" /\ OpAt(TopProgram, TopNext + 1) = Unlock(a)
           \/ a = "LINE" /\ Commands /\ TopNext = 4
           \/ a = "WRITER" /\ TopProgram = "assertion_on_screen" /\ TopNext = 1
    BY <1>1, <1>2, <1>4, NormalLockOps DEF a
  <2>2. ~(TopProgram = "assertion_on_screen" /\ TopNext = 2)
    BY <1>2, TestOps, OpKinds DEF KindAt
  <2>3. a = "LINE" /\ InCommand
    BY <1>2, <1>3, <1>4, <2>1, <2>2 DEF Normal, LocksAccounted
  <2>4. Commands /\ TopNext = 4
    BY <2>1, <2>3
  <2> QED
    BY <2>3, <2>4 DEF Commands, InCommand, TopNext
<1>5. CASE Fatal
  <2>1. a \in {"SERIAL1", "WRITER"} /\ (a = "WRITER" => TopProgram \in Firsts)
    BY <1>1, <1>2, <1>5, FatalTop DEF FatalOp, a
  <2>2. a = "WRITER" /\ TopProgram = "test_panic_handler"
    BY <1>2, <1>3, <1>5, <2>1 DEF Fatal, FatalLocks, Locks
  <2> QED
    BY <2>1, <2>2 DEF Firsts
<1> QED
  BY <1>2, <1>4, <1>5 DEF IInv

LEMMA IInvStopped ==
    IInv => HaltIsReported /\ HaltIsFinal /\ NeverResets /\ GreenMeansPassed
<1> SUFFICES ASSUME IInv
             PROVE  HaltIsReported /\ HaltIsFinal /\ NeverResets /\ GreenMeansPassed
  OBVIOUS
<1>1. NeverResets
  BY DEF IInv, Typed, RestTyped, NeverResets
<1>2. CASE cpu = "running"
  <2>1. exit = 0
    BY <1>2 DEF IInv, Normal, Fatal
  <2> QED
    BY <1>1, <1>2, <2>1
       DEF HaltIsReported, HaltIsFinal, GreenMeansPassed, TestSuccessExitCode
<1>3. CASE cpu # "running"
  BY <1>1, <1>3 DEF IInv, Stopped
<1> QED
  BY <1>2, <1>3

(* The model is well typed, whatever events its messages raise: no frame   *)
(* runs past the end of its program, no lock belongs to a frame that is    *)
(* gone, no test counts twice (all of FatalPath).                          *)
THEOREM FatalPathTypeCorrect == Spec => []TypeOK
BY Inductive, IInvTypeOK, PTL

(* For every command, every test and every way a boot can fail: as long as *)
(* no fatal message fails in its turn, the CPU never waits for a lock that *)
(* its own stack holds (feed, breakpoint_handler, panic::handle,           *)
(* fatal_exception, test_panic_handler).                                   *)
THEOREM CommandsNeverSelfDeadlock == Spec => []NoSelfDeadlock
BY Inductive, IInvNoSelfDeadlock, PTL

(* A kernel in halt_loop has written its message on the serial port and on *)
(* the screen, unless the writing itself failed (panic::handle,            *)
(* fatal_exception).                                                       *)
THEOREM EveryHaltIsReported == Spec => []HaltIsReported
BY Inductive, IInvStopped, PTL

(* Interrupts are off in halt_loop, although it does not mask them: every  *)
(* panic and every exception starts with the flag clear, after any number  *)
(* of failed messages too (without_interrupts in kernel_main, interrupt    *)
(* gates).                                                                 *)
THEOREM EveryHaltIsFinal == Spec => []HaltIsFinal
BY Inductive, IInvStopped, PTL

(* No exception is ever undeliverable: the IDT and the TSS are in force    *)
(* wherever anything can be raised (proto_os::init, gdt::init), after any  *)
(* number of failed messages too.                                          *)
THEOREM KernelNeverResets == Spec => []NeverResets
BY Inductive, IInvStopped, PTL

(* QEMU's success code means that every test of the suite returned and     *)
(* nothing fatal happened; of page_fault and double_fault, that main's own *)
(* attempt raised the event, the page fault at the expected address; of    *)
(* should_panic, that there was a panic and nothing else (test_runner,     *)
(* test_panic_handler, the handlers of tests/*.rs).                        *)
THEOREM SuccessMeansPassed == Spec => []GreenMeansPassed
BY Inductive, IInvStopped, PTL
=============================================================================
