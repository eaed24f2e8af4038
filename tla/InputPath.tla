----------------------------- MODULE InputPath ------------------------------
(***************************************************************************)
(* From a key to shell::feed: the keyboard and its controller, the PIC,    *)
(* the IRQ1 handler and the scancode queue of src/interrupts.rs, the idle  *)
(* loop of kernel_main in src/main.rs and translate() of src/keyboard.rs.  *)
(*                                                                         *)
(* There is one CPU.  `main` is the next step of the idle loop, `handler`  *)
(* that of the interrupt handler; while the handler is active the idle     *)
(* loop stands still.  The keyboard is the only other actor: it may send a *)
(* byte between any two instructions.                                      *)
(***************************************************************************)
EXTENDS ScancodeRing, Keyboard, SequencesExt

CONSTANTS
    Keys,           \* make codes of the keys of the instance
    MaxTyped        \* bound: codes the keyboard sends in a behaviour

ASSUME KeysAssumption ==
    /\ Keys \subseteq 0 .. 127
    /\ Scancodes = Keys \cup {k + 128 : k \in Keys}

ASSUME MaxTypedAssumption == MaxTyped \in Nat

VARIABLES
    \* the keyboard and its user
    held,           \* the keys that are down
    typed,          \* every code sent, in order
    text,           \* the bytes those keys stand for, as they were pressed
    \* the controller and the PIC
    port60,         \* the byte waiting in port 0x60, or None
    irr,            \* IRQ1 is requested and not yet accepted
    isr,            \* IRQ1 is in service: accepted and without its EOI
    \* the CPU
    intr_flag,      \* the interrupt flag of RFLAGS
    handler,        \* keyboard_interrupt_handler: "none" or its next step
    main,           \* the next step of the idle loop
    saved,          \* the flag that without_interrupts puts back
    code,           \* the handler's local `scancode`
    scancode,       \* the idle loop's local `scancode`
    \* the kernel's statics
    queue,          \* the ring inside SCANCODE_QUEUE
    qlock,          \* the spin lock around it: "free" or "main"
    \* history
    taken,          \* the codes the idle loop has popped
    fed,            \* the bytes shell::feed was called with
    evicted,        \* the positions in `typed` of the codes pushed out of the queue
    due             \* how many codes had been sent when an interrupt last found
                    \* the idle loop asleep or at its top

keyboard == <<held, typed, text>>
devices == <<port60, irr, isr>>
translator == <<shift, byte>>
statics == <<queue, qlock>>
history == <<taken, fed, evicted, due>>
locals == <<code, scancode>>

vars == <<keyboard, devices, intr_flag, handler, main, saved, locals,
          statics, translator, history>>

TypeOK ==
    /\ held \subseteq Keys
    /\ typed \in Seq(Scancodes)
    /\ text \in Seq(0 .. 255)
    /\ port60 \in Scancodes \cup {None}
    /\ irr \in BOOLEAN /\ isr \in BOOLEAN
    /\ intr_flag \in BOOLEAN /\ saved \in BOOLEAN
    /\ handler \in {"none", "read", "push", "eoi"}
    /\ main \in {"guard", "lock", "pop", "translate", "feed", "restore", "sti", "hlt"}
    /\ code \in Scancodes \cup {None}
    /\ scancode \in Byte \cup {None}
    /\ queue \in QueueType
    /\ qlock \in {"free", "main"}
    /\ shift \in ShiftState
    /\ ShellKnowsEveryByte
    /\ taken \in Seq(Byte)
    /\ fed \in Seq(0 .. 255)
    /\ evicted \in Seq(Nat)
    /\ due \in Nat

(* kernel_main enters its loop with interrupts still disabled: nothing     *)
(* before the first enable_and_hlt enables them.                           *)
Init ==
    /\ KeyboardInit
    /\ held = {} /\ typed = << >> /\ text = << >>
    /\ port60 = None /\ irr = FALSE /\ isr = FALSE
    /\ intr_flag = FALSE /\ saved = FALSE
    /\ handler = "none" /\ main = "guard"
    /\ code = None /\ scancode = None
    /\ queue = NewQueue /\ qlock = "free"
    /\ taken = << >> /\ fed = << >> /\ evicted = << >> /\ due = 0

-----------------------------------------------------------------------------
(* The keyboard (external).                                                *)

ShiftDown == held \cap {LEFT_SHIFT_MAKE, RIGHT_SHIFT_MAKE} # {}

(* The controller takes a code when its output buffer is empty and raises  *)
(* IRQ1; until then the code waits in the keyboard.                        *)
Send(sc) ==
    /\ Len(typed) < MaxTyped
    /\ port60 = None
    /\ port60' = sc
    /\ irr' = TRUE
    /\ typed' = Append(typed, sc)
    /\ UNCHANGED <<isr, intr_flag, handler, main, saved, locals, statics, translator, history>>

(* A key goes down, or repeats because it is held: its make code. *)
Press(k) ==
    /\ Send(k)
    /\ held' = held \cup {k}
    /\ LET b == IF k \in {LEFT_SHIFT_MAKE, RIGHT_SHIFT_MAKE} THEN None
                ELSE AsciiForMakeCode(k, ShiftDown)
       IN  text' = IF b = None THEN text ELSE Append(text, b)

(* A key goes up: its make code with bit 7 set. *)
Release(k) ==
    /\ k \in held
    /\ Send(k + 128)
    /\ held' = held \ {k}
    /\ UNCHANGED text

-----------------------------------------------------------------------------
(* The interrupt.                                                          *)

(* The CPU accepts IRQ1 (external): the interrupt gate clears the flag,    *)
(* and a CPU stopped in hlt will go on after it.                           *)
Interrupt ==
    /\ intr_flag /\ irr /\ ~isr
    /\ handler = "none"
    /\ irr' = FALSE /\ isr' = TRUE
    /\ intr_flag' = FALSE
    /\ handler' = "read"
    /\ main' = IF main = "hlt" THEN "guard" ELSE main
    /\ due' = IF main \in {"guard", "hlt"} THEN Len(typed) ELSE due
    /\ UNCHANGED <<keyboard, port60, saved, locals, statics, translator, taken, fed, evicted>>

(* port.read() of port 0x60 *)
HandlerRead ==
    /\ handler = "read"
    /\ code' = port60
    /\ port60' = None
    /\ handler' = "push"
    /\ UNCHANGED <<keyboard, irr, isr, intr_flag, main, saved, scancode, statics, translator, history>>

(* Mutant: a full queue refuses the new code and nobody is told. *)
HandlerPushRefuses ==
    /\ handler = "push"
    /\ qlock = "free"
    /\ queue' = IF queue.len + 1 >= Capacity THEN queue ELSE Push(queue, code)
    /\ code' = None
    /\ handler' = "eoi"
    /\ UNCHANGED <<keyboard, devices, intr_flag, main, saved, scancode, qlock, translator, history>>

(* SCANCODE_QUEUE.lock().push(scancode): the spin lock is taken, used and  *)
(* released; with the lock held elsewhere the handler spins for ever.      *)
HandlerPush ==
    /\ handler = "push"
    /\ qlock = "free"
    /\ queue' = Push(queue, code)
    /\ evicted' = IF IsFull(queue) THEN Append(evicted, Len(taken) + Len(evicted) + 1)
                  ELSE evicted
    /\ code' = None
    /\ handler' = "eoi"
    /\ UNCHANGED <<keyboard, devices, intr_flag, main, saved, scancode, qlock, translator,
                   taken, fed, due>>

(* Mutant: the end of interrupt is not sent. *)
HandlerReturnsWithoutEoi ==
    /\ handler = "eoi"
    /\ intr_flag' = TRUE
    /\ handler' = "none"
    /\ UNCHANGED <<keyboard, devices, main, saved, locals, statics, translator, history>>

(* notify_end_of_interrupt, then iretq: the flag comes back as it was,     *)
(* which is set, or the interrupt had not been accepted.                   *)
HandlerEoi ==
    /\ handler = "eoi"
    /\ isr' = FALSE
    /\ intr_flag' = TRUE
    /\ handler' = "none"
    /\ UNCHANGED <<keyboard, port60, irr, main, saved, locals, statics, translator, history>>

-----------------------------------------------------------------------------
(* The idle loop of kernel_main.                                           *)

(* Mutant: the queue is read with interrupts left as they were. *)
EnterGuardUnmasked ==
    /\ handler = "none" /\ main = "guard"
    /\ saved' = intr_flag
    /\ main' = "lock"
    /\ UNCHANGED <<keyboard, devices, intr_flag, handler, locals, statics, translator, history>>

(* without_interrupts: remember the flag and clear it. *)
EnterGuard ==
    /\ handler = "none" /\ main = "guard"
    /\ saved' = intr_flag
    /\ intr_flag' = FALSE
    /\ main' = "lock"
    /\ UNCHANGED <<keyboard, devices, handler, locals, statics, translator, history>>

(* next_scancode: SCANCODE_QUEUE.lock() *)
LockQueue ==
    /\ handler = "none" /\ main = "lock"
    /\ qlock = "free"
    /\ qlock' = "main"
    /\ main' = "pop"
    /\ UNCHANGED <<keyboard, devices, intr_flag, handler, saved, locals, queue, translator, history>>

(* next_scancode: pop, and the lock is released; None ends the loop. *)
PopQueue ==
    /\ handler = "none" /\ main = "pop"
    /\ qlock' = "free"
    /\ queue' = Pop(queue)
    /\ IF queue.len = 0
       THEN /\ main' = "restore"
            /\ UNCHANGED <<scancode, taken>>
       ELSE /\ main' = "translate"
            /\ scancode' = Peek(queue)
            /\ taken' = Append(taken, Peek(queue))
    /\ UNCHANGED <<keyboard, devices, intr_flag, handler, saved, code, translator, fed, evicted, due>>

(* Mutant: a code that types nothing ends the loop (`while let Some(byte)` *)
(* over next_scancode().and_then(translate)).                              *)
TranslateEndsLoop ==
    /\ handler = "none" /\ main = "translate"
    /\ Translate(scancode)
    /\ main' = IF byte' = None THEN "restore" ELSE "feed"
    /\ scancode' = None
    /\ UNCHANGED <<keyboard, devices, intr_flag, handler, saved, code, statics, history>>

(* keyboard::translate(scancode): a code that types nothing goes back to   *)
(* the top of the loop.                                                    *)
TranslateCode ==
    /\ handler = "none" /\ main = "translate"
    /\ Translate(scancode)
    /\ main' = IF byte' = None THEN "lock" ELSE "feed"
    /\ scancode' = None
    /\ UNCHANGED <<keyboard, devices, intr_flag, handler, saved, code, statics, history>>

(* Mutant: one code per turn of the loop (`if let` for `while let`). *)
FeedOnce ==
    /\ handler = "none" /\ main = "feed"
    /\ fed' = Append(fed, byte)
    /\ main' = "restore"
    /\ UNCHANGED <<keyboard, devices, intr_flag, handler, saved, locals, statics, translator, taken, evicted, due>>

(* shell::feed(byte); what the shell does with it is Shell.tla. *)
FeedByte ==
    /\ handler = "none" /\ main = "feed"
    /\ fed' = Append(fed, byte)
    /\ main' = "lock"
    /\ UNCHANGED <<keyboard, devices, intr_flag, handler, saved, locals, statics, translator, taken, evicted, due>>

(* The end of without_interrupts: interrupts are enabled again only if     *)
(* they were enabled at its start.                                         *)
LeaveGuard ==
    /\ handler = "none" /\ main = "restore"
    /\ intr_flag' = saved
    /\ main' = "sti"
    /\ UNCHANGED <<keyboard, devices, handler, saved, locals, statics, translator, history>>

(* enable_and_hlt: with the flag clear, sti holds interrupts off until hlt *)
(* has begun, so the two are one step.  With the flag already set they     *)
(* are two, and Interrupt may come first.                                  *)
EnableAndHlt ==
    /\ handler = "none" /\ main = "sti"
    /\ intr_flag' = TRUE
    /\ main' = "hlt"
    /\ UNCHANGED <<keyboard, devices, handler, saved, locals, statics, translator, history>>

-----------------------------------------------------------------------------

HandlerStep == HandlerRead \/ HandlerPush \/ HandlerEoi

MainStep ==
    \/ EnterGuard \/ LockQueue \/ PopQueue \/ TranslateCode
    \/ FeedByte \/ LeaveGuard \/ EnableAndHlt

Next ==
    \/ \E k \in Keys : Press(k) \/ Release(k)
    \/ Interrupt
    \/ HandlerStep
    \/ MainStep

Spec == Init /\ [][Next]_vars

(* The CPU does not stop executing, and a requested interrupt that stays   *)
(* acceptable is accepted.  Nobody promises that a key is ever pressed.    *)
Fairness == WF_vars(Interrupt) /\ WF_vars(HandlerStep) /\ WF_vars(MainStep)

FairSpec == Spec /\ Fairness

-----------------------------------------------------------------------------
(* Properties.                                                             *)

(* The codes between the keyboard and the idle loop, oldest first: in the  *)
(* queue, in the handler's hands, in the port.                             *)
Pending ==
    Contents(queue) \o (IF handler = "push" THEN <<code>> ELSE << >>)
                    \o (IF port60 = None THEN << >> ELSE <<port60>>)

(* How many codes will never reach the idle loop. *)
Lost == Len(typed) - Len(taken) - Len(Pending)

(* The queue's spin lock is never contended: the handler finds it free     *)
(* although it interrupts the very code that takes it, and so does the     *)
(* idle loop (the comment on next_scancode in src/interrupts.rs).  On one  *)
(* CPU a contended spin lock is a dead machine.                            *)
QueueLockUncontended ==
    (handler = "push" \/ main = "lock") => qlock = "free"

(* Whatever was lost is older than everything still on its way: the codes  *)
(* in the queue, the handler and the port are the last ones typed, in      *)
(* order, with nothing missing between them (ScancodeQueue::push).         *)
PendingIsNewest ==
    LET older == Len(typed) - Len(Pending)
    IN  /\ older >= 0
        /\ \A i \in 1 .. Len(Pending) : Pending[i] = typed[older + i]

(* A code is lost only when the handler pushes into a full queue, and then *)
(* exactly one (ScancodeQueue::push, the only place that may drop).        *)
LossOnlyWhenFull ==
    [][Lost' # Lost => /\ Lost' = Lost + 1
                       /\ IsFull(queue)
                       /\ handler = "push"]_vars

(* The codes are on their way nowhere and the idle loop holds none. *)
Quiet == Pending = << >> /\ main \notin {"translate", "feed"}

(* What the shell receives is what the user meant: as long as nothing was  *)
(* lost, the bytes fed are the first of the text, each in the letter case  *)
(* of the moment its key was pressed although it is translated later, and  *)
(* once everything has arrived the text is complete (kernel_main's loop,   *)
(* translate() and ShiftState).                                            *)
TypedTextArrives ==
    Lost = 0 => /\ IsPrefix(fed, text)
                /\ Quiet => fed = text

(* The position in `typed` of the last code of a key, 0 before the first. *)
LastCodeOf(k) ==
    LET at == {i \in DOMAIN typed : typed[i] \in {k, k + 128}}
    IN  IF at = {} THEN 0 ELSE CHOOSE i \in at : \A j \in at : j <= i

(* SHIFT heals: once everything typed has been worked off it shows a Shift *)
(* key as it really is, unless the very last code of that key was pushed   *)
(* out of the full queue (ScancodeQueue::push drops releases like any      *)
(* other code).  The loss of an older code, of that key or another, leaves *)
(* no trace, and the next press or release of the key repairs it.          *)
ShiftWrongOnlyAfterLoss ==
    Quiet =>
        /\ shift.left_held # (LEFT_SHIFT_MAKE \in held) =>
              Contains(evicted, LastCodeOf(LEFT_SHIFT_MAKE))
        /\ shift.right_held # (RIGHT_SHIFT_MAKE \in held) =>
              Contains(evicted, LastCodeOf(RIGHT_SHIFT_MAKE))

(* The controller's byte is always collected: no interleaving leaves the   *)
(* keyboard waiting behind a full port (the EOI of the handler).           *)
PortIsServed == (port60 # None) ~> (port60 = None)

(* The first n codes sent are dealt with: popped by the idle loop, which   *)
(* has none of them in hand any more, or pushed out of the full queue.     *)
WorkedOff(n) ==
    Len(taken) + Len(evicted) >= n /\ main \notin {"translate", "feed"}

(* The CPU goes to sleep only when every code is worked off whose          *)
(* interrupt came while it slept or before the loop masked interrupts, and *)
(* everything queued before it: nothing but a key that strikes between the *)
(* end of without_interrupts and hlt is ever slept on (`while let` of      *)
(* kernel_main around next_scancode).                                      *)
SleepsOnlyWhenWorkedOff == main \in {"sti", "hlt"} => WorkedOff(due)

(* A key that finds the CPU asleep is worked off, with everything queued   *)
(* before it, without the help of a further key: the loop comes to its end *)
(* with that code dealt with (Interrupt ends hlt, and kernel_main's loop   *)
(* empties the queue).                                                     *)
WakeDrainsQueue ==
    \A n \in 1 .. MaxTyped :
        (main = "hlt" /\ irr /\ Len(typed) = n) ~> (main = "sti" /\ WorkedOff(n))

(* No key is left in the queue while the CPU sleeps and nothing is about   *)
(* to wake it: the claim of the comment before enable_and_hlt in           *)
(* src/main.rs.                                                            *)
NoKeyLeftAsleep ==
    (main = "hlt" /\ handler = "none" /\ ~irr) => queue.len = 0
=============================================================================
