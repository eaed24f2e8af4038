----------------------------- MODULE FatalPath ------------------------------
(***************************************************************************)
(* What stops the kernel and its test binaries: panic (src/panic.rs), the  *)
(* exception handlers and fatal_exception (src/interrupts.rs), the exit to *)
(* the host (src/lib.rs), and the locks they share with the code they      *)
(* interrupt.  There is one CPU and the locks are spin locks: a frame that *)
(* waits for a lock held further down its own stack waits for ever.        *)
(*                                                                         *)
(* `frames` is the stack of activations of the programs of KernelPrograms. *)
(* Interrupts cannot reach these locks (the IRQ1 handler takes only        *)
(* SCANCODE_QUEUE and PICS), so exceptions and panics are the only         *)
(* interruptions.                                                          *)
(***************************************************************************)
EXTENDS KernelPrograms, SequencesExt

CONSTANT MaxFormatBugs      \* bound: events raised by a message's formatting

ASSUME MaxFormatBugsAssumption == MaxFormatBugs \in Nat

VARIABLES
    binary,         \* the image that runs
    frames,         \* activations, the running one last: program, next
                    \* operation, and the flag that iretq restores
    owner,          \* lock -> depth of the frame that holds it, 0 when free
    PANICKING,      \* the flag of src/panic.rs
    tss,            \* gdt::init has loaded the TSS, with its IST stack
    idt,            \* the table in force: "none", "IDT" or "TEST_IDT"
    intr_flag,
    cpu,            \* "running", "halted" (halt_loop), "reset" or "exited"
    exit,           \* exit code of QEMU, 0 while it runs
    passed,         \* history: test bodies that returned
    raised,         \* history: the events raised
    awaited,        \* history: the event a test's main waits for was raised by
                    \* main itself, where it should be
    reported,       \* devices on which a fatal message was completed
    bugs            \* formatting bugs that happened

tables == <<binary, tss, idt>>
history == <<exit, passed, raised, awaited, reported, bugs>>
vars == <<frames, owner, PANICKING, intr_flag, cpu, tables, history>>

Depth == Len(frames)
Top == frames[Depth]
Op == Program(Top.program)[Top.next]

TypeOK ==
    /\ \A i \in 1 .. Depth : frames[i].next \in 1 .. Len(Program(frames[i].program)) + 1
    /\ owner \in [Locks -> 0 .. Depth]
    /\ PANICKING \in BOOLEAN /\ intr_flag \in BOOLEAN
    /\ binary \in Binaries /\ tss \in BOOLEAN /\ idt \in {"none", "IDT", "TEST_IDT"}
    /\ cpu \in {"running", "halted", "reset", "exited"}
    /\ exit \in {0, HostSees("Success"), HostSees("Failed")}
    /\ passed \in 0 .. TestsOf(binary)
    /\ raised \subseteq Faults \cup {"#BP", "panic"} /\ awaited \in BOOLEAN
    /\ reported \subseteq {"SERIAL1", "WRITER"}
    /\ bugs \in 0 .. MaxFormatBugs

Frame(p, flag) == [program |-> p, next |-> 1, flag |-> flag]

Init ==
    /\ binary \in Binaries
    /\ frames \in {<<Frame(binary, FALSE)>>, <<Frame("out_of_memory", FALSE)>>}
    /\ owner = [l \in Locks |-> 0]
    /\ PANICKING = FALSE
    /\ tss = FALSE /\ idt = "none"
    /\ intr_flag = FALSE
    /\ cpu = "running"
    /\ exit = 0 /\ passed = 0 /\ raised = {} /\ awaited = FALSE
    /\ reported = {}
    /\ bugs = 0

(* The running frame is at an operation of the given kind. *)
At(kind) == cpu = "running" /\ frames # << >> /\ Op[1] = kind

Advanced == [frames EXCEPT ![Depth].next = @ + 1]

(* kernel_main wakes up and finds a complete line. *)
StartTurn(c) ==
    /\ cpu = "running" /\ frames = << >>
    /\ frames' = <<Frame(c, FALSE)>>
    /\ UNCHANGED <<owner, PANICKING, intr_flag, cpu, tables, history>>

(* spin::Mutex::lock, once the lock is free *)
TakeLock ==
    /\ At("lock")
    /\ owner[Op[2]] = 0
    /\ owner' = [owner EXCEPT ![Op[2]] = Depth]
    /\ frames' = Advanced
    /\ UNCHANGED <<PANICKING, intr_flag, cpu, tables, history>>

(* The guard is dropped; a fatal handler has now written its message. *)
ReleaseLock ==
    /\ At("unlock")
    /\ owner' = [owner EXCEPT ![Op[2]] = 0]
    /\ reported' = IF Top.program \in {"panic_first", "fault_first"}
                   THEN reported \cup {Op[2]} ELSE reported
    /\ frames' = Advanced
    /\ UNCHANGED <<PANICKING, intr_flag, cpu, tables, exit, passed, raised, awaited, bugs>>

(* gdt::init; the load of interrupts::init and that of a test's main *)
LoadTable ==
    /\ At("load")
    /\ tss' = (tss \/ Op[2] = "GDT")
    /\ idt' = IF Op[2] = "GDT" THEN idt ELSE Op[2]
    /\ frames' = Advanced
    /\ UNCHANGED <<binary, owner, PANICKING, intr_flag, cpu, history>>

SetFlag ==
    /\ At("cli") \/ At("sti")
    /\ intr_flag' = (Op[1] = "sti")
    /\ frames' = Advanced
    /\ UNCHANGED <<owner, PANICKING, cpu, tables, history>>

(* test_runner calls a test. *)
CallTest(body) ==
    /\ At("call")
    /\ frames' = Append(Advanced, Frame(body, intr_flag))
    /\ UNCHANGED <<owner, PANICKING, intr_flag, cpu, tables, history>>

(* The CPU can enter the table's handler for e: a double fault comes on    *)
(* the IST stack, which needs the TSS.                                     *)
Deliverable(e) == e \in Gates(binary, idt) /\ (e = "#DF" => tss)

(* An exception is delivered through the table, with interrupts off; one   *)
(* that has no entry becomes a double fault, and a double fault that       *)
(* cannot be delivered resets the CPU.  A panic is a call and leaves the   *)
(* flag alone.  `own`: it is the event that a test's main waits for.       *)
Deliver(e, own, stack) ==
    LET gate == IF Deliverable(e) THEN e ELSE "#DF"
    IN  /\ raised' = raised \cup {e}
        /\ awaited' = (awaited \/ own)
        /\ CASE e = "panic" ->
                  /\ frames' = Append(stack, Frame(PanicHandlerOf(binary), intr_flag))
                  /\ UNCHANGED <<intr_flag, cpu>>
             [] e # "panic" /\ Deliverable(gate) ->
                  /\ frames' = Append(stack, Frame(HandlerOf(idt, gate, own), intr_flag))
                  /\ intr_flag' = FALSE
                  /\ UNCHANGED cpu
             [] OTHER ->
                  /\ cpu' = "reset"
                  /\ UNCHANGED <<frames, intr_flag>>

(* cmd_panic, the cmd_falha_* commands, the expect of memory::init, what a *)
(* test does                                                               *)
RaiseEvent ==
    /\ At("raise")
    /\ Deliver(Op[2], Top.program \in Awaiting, Advanced)
    /\ UNCHANGED <<owner, PANICKING, tables, exit, passed, reported, bugs>>

(* What is under test in tests/page_fault.rs, double_fault.rs and          *)
(* should_panic.rs may be broken: main's attempt goes through, and the     *)
(* line that says so and exit_qemu(Failed) come next.                      *)
Survive ==
    /\ At("raise") /\ Top.program \in Awaiting
    /\ frames' = Advanced
    /\ UNCHANGED <<owner, PANICKING, intr_flag, cpu, tables, history>>

(* Or the access of tests/page_fault.rs faults at another address, which   *)
(* test_page_fault_handler sees in CR2.                                    *)
FaultElsewhere ==
    /\ At("raise") /\ Top.program = "page_fault"
    /\ Deliver("#PF", FALSE, Advanced)
    /\ UNCHANGED <<owner, PANICKING, tables, exit, passed, reported, bugs>>

(* A bug in the formatting of a message, the case the comment in           *)
(* panic::handle gives: it strikes while a fatal message is being written, *)
(* with the device's lock held, as a panic or as an exception.             *)
FormatBug(e) ==
    /\ bugs < MaxFormatBugs
    /\ At("unlock") /\ Op[2] \in {"SERIAL1", "WRITER"}
    /\ PANICKING \/ Top.program = "test_panic_handler"
    /\ bugs' = bugs + 1
    /\ Deliver(e, FALSE, frames)
    /\ UNCHANGED <<owner, PANICKING, tables, exit, passed, reported>>

(* enter_fatal_handler: PANICKING.swap(true), and the branch it decides. *)
EnterFatalHandler ==
    /\ At("enter")
    /\ frames' = [frames EXCEPT ![Depth] =
                      Frame(IF PANICKING THEN Again[Op[2]] ELSE First[Op[2]], @.flag)]
    /\ PANICKING' = TRUE
    /\ UNCHANGED <<owner, intr_flag, cpu, tables, history>>

(* halt_loop: hlt for ever, the flag as it is. *)
HaltLoop ==
    /\ At("halt")
    /\ cpu' = "halted"
    /\ UNCHANGED <<frames, owner, PANICKING, intr_flag, tables, history>>

(* exit_qemu: the device ends QEMU within the write. *)
ExitQemu ==
    /\ At("exit")
    /\ cpu' = "exited"
    /\ exit' = HostSees(Op[2])
    /\ UNCHANGED <<frames, owner, PANICKING, intr_flag, tables, passed, raised, awaited, reported, bugs>>

(* iretq of a handler restores the flag, a test returns to its runner; the *)
(* end of a turn is the idle loop's hlt.                                   *)
ReturnFromFrame ==
    /\ At("return")
    /\ frames' = Front(frames)
    /\ intr_flag' = IF Depth > 1 THEN Top.flag ELSE intr_flag
    /\ passed' = IF Top.program \in DOMAIN TestBody THEN passed + 1 ELSE passed
    /\ UNCHANGED <<owner, PANICKING, cpu, tables, exit, raised, awaited, reported, bugs>>

Step ==
    \/ TakeLock \/ ReleaseLock \/ LoadTable \/ SetFlag
    \/ RaiseEvent \/ Survive \/ FaultElsewhere
    \/ EnterFatalHandler \/ HaltLoop \/ ExitQemu \/ ReturnFromFrame
    \/ \E body \in DOMAIN TestBody : CallTest(body)

Next ==
    \/ \E c \in DOMAIN Turn : StartTurn(c)
    \/ Step
    \/ \E e \in {"panic", "#PF"} : FormatBug(e)

Spec == Init /\ [][Next]_vars

(* The CPU keeps executing; nobody promises that a line is ever entered or *)
(* that a bug strikes.                                                     *)
FairSpec == Spec /\ WF_vars(Step)

-----------------------------------------------------------------------------
(* Properties.                                                             *)

(* The running frame spins on a lock that only a frame below it could      *)
(* release.                                                                *)
Blocked == At("lock") /\ owner[Op[2]] # 0

(* No command, not even one that panics or faults with LINE locked, makes  *)
(* the kernel wait for a lock it holds itself (feed, breakpoint_handler,   *)
(* fatal_exception, panic::handle), unless the writing of a fatal message  *)
(* failed in its turn.                                                     *)
NoSelfDeadlock == bugs = 0 => ~Blocked

(* A kernel that stopped has said why, on the serial port and on the       *)
(* screen (panic::handle and fatal_exception), unless the saying itself    *)
(* failed.                                                                 *)
HaltIsReported ==
    (cpu = "halted" /\ bugs = 0) => reported = {"SERIAL1", "WRITER"}

(* A kernel that stopped stays stopped: halt_loop does not clear the       *)
(* interrupt flag, so it must be clear wherever a panic or an exception    *)
(* can start; otherwise IRQ1 would go on filling the queue.                *)
HaltIsFinal == cpu = "halted" => ~intr_flag

(* No fatal command ever resets the machine silently: the IDT, and the     *)
(* IST stack for the overflow of `falha pilha`, are in force before        *)
(* anything can fail (proto_os::init, gdt::init).                          *)
NeverResets == cpu # "reset"

(* Every panic and every fatal exception ends with the CPU halted          *)
(* (fatal_exception: "Nunca retorna"; halt_loop), or another event strikes *)
(* inside its message.                                                     *)
FatalEventHalts ==
    (frames # << >> /\ Top.program \in Faults \cup {"panic_handler"})
        ~> (cpu = "halted" \/ bugs > 0)

(* After a breakpoint the interrupted code goes on where it was: the       *)
(* command finishes and the prompt comes back, the test returns to its     *)
(* runner (breakpoint_handler returns).                                    *)
BreakpointReturns ==
    (frames # << >> /\ Top.program = "#BP")
        ~> (Depth <= 1 /\ (binary = "kernel" => frames = << >> /\ intr_flag))

(* A panic while a fatal event is being handled always halts, whatever the *)
(* first event holds (panic::handle's first branch).                       *)
PanicAgainHalts ==
    (frames # << >> /\ PANICKING /\ Top.program = "panic_handler") ~> (cpu = "halted")

(* What an honest success of a binary rests on: the events it is about. *)
Expected(b) ==
    CASE b = "page_fault" -> {"#PF"}
      [] b = "double_fault" -> {"#DF"}
      [] b = "should_panic" -> {"panic"}
      [] OTHER -> {}

(* The host counts a binary as passed only if every test of its suite      *)
(* returned and nothing fatal happened, or nothing but the event the       *)
(* binary is about, and in page_fault and double_fault only if main's own  *)
(* attempt raised it, the page fault at the expected address: through      *)
(* test_runner, test_panic_handler, the handlers of tests/*.rs and the     *)
(* value exit_qemu writes.  should_panic takes any panic.                  *)
GreenMeansPassed ==
    exit = TestSuccessExitCode =>
        /\ passed = TestsOf(binary)
        /\ raised \ {"#BP"} = Expected(binary)
        /\ binary \in {"page_fault", "double_fault"} => awaited

(* A green should_panic means that the check under test panicked: "o       *)
(* panic era exatamente o resultado esperado" (tests/should_panic.rs) and  *)
(* "provar que, quando o kernel deveria entrar em panic numa certa         *)
(* situacao, ele realmente entra" (WALKTHROUGH.md).                        *)
GreenMeansOwnPanic ==
    (binary = "should_panic" /\ exit = TestSuccessExitCode) => awaited

(* Every test binary ends by itself, a failing test and an init that       *)
(* panics included ("reportado ao host como falha, imediatamente",         *)
(* test_panic_handler), whatever lock the failing test holds.  Only a      *)
(* fault inside a suite is left to the host's timeout.                     *)
TestRunIsJudged ==
    (binary # "kernel")
        ~> (exit # 0 \/ bugs > 0 \/ (binary = "suite" /\ "#PF" \in raised))

(* An event that finds another in progress does not wait for WRITER or     *)
(* SERIAL1: the comment on enter_fatal_handler in src/panic.rs.            *)
SecondEventNeverWaits ==
    Blocked => Top.program \notin {"panic_again", "fault_again"}
=============================================================================
