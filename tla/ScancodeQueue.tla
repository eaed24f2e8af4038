--------------------------- MODULE ScancodeQueue ----------------------------
(***************************************************************************)
(* The scancode queue on its own: the ring, the handler's push and the     *)
(* main flow's pop, in any order.  The lock around the ring and the        *)
(* interrupt discipline that keeps it free are in InputPath.tla; here each *)
(* call is one step.  The ring is shown to implement DropOldestFifo.       *)
(***************************************************************************)
EXTENDS ScancodeRing

CONSTANT None

ASSUME NoneAssumption == None \notin Byte

VARIABLES
    queue,      \* SCANCODE_QUEUE
    returned    \* the Option<u8> of the last next_scancode()

vars == <<queue, returned>>

TypeOK ==
    /\ queue \in QueueType
    /\ returned \in Byte \cup {None}

Init == queue = NewQueue /\ returned = None

(* keyboard_interrupt_handler's SCANCODE_QUEUE.lock().push(scancode) *)
Enqueue(sc) ==
    /\ queue' = Push(queue, sc)
    /\ UNCHANGED returned

(* next_scancode *)
Dequeue ==
    /\ returned' = IF queue.len = 0 THEN None ELSE Peek(queue)
    /\ queue' = Pop(queue)

Next == Dequeue \/ \E sc \in Scancodes : Enqueue(sc)

Spec == Init /\ [][Next]_vars

-----------------------------------------------------------------------------

(* `head`, `tail` and `len` of the struct never disagree, whatever the     *)
(* order of push and pop and however often the indexes wrap.               *)
IndexesAgree == WellFormed(queue)

Fifo == INSTANCE DropOldestFifo WITH fifo <- Contents(queue)

(* The ring implements the drop-oldest FIFO: every push and pop of the     *)
(* struct is a put or take of the abstract queue, so codes come out in the *)
(* order they went in and only a push on a full ring loses one, the oldest *)
(* (ScancodeQueue::push and ::pop).                                        *)
ImplementsFifo == Fifo!Spec
=============================================================================
