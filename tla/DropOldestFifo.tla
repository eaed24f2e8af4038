--------------------------- MODULE DropOldestFifo ---------------------------
(***************************************************************************)
(* What the scancode queue promises, without indexes: a first-in first-out *)
(* queue of at most Capacity codes in which a new code is never refused    *)
(* and, when there is no room, the oldest one is given up                  *)
(* (src/interrupts.rs, the comment on ScancodeQueue::push).                *)
(***************************************************************************)
EXTENDS Integers, Sequences

CONSTANTS Capacity, Scancodes, None

VARIABLES
    fifo,       \* the codes waiting, oldest first
    returned    \* what the last take returned, None when it found nothing

vars == <<fifo, returned>>

Init == fifo = << >> /\ returned = None

Put(sc) ==
    /\ fifo' = Append(IF Len(fifo) = Capacity THEN Tail(fifo) ELSE fifo, sc)
    /\ UNCHANGED returned

Take ==
    /\ IF fifo = << >>
       THEN returned' = None /\ UNCHANGED fifo
       ELSE returned' = Head(fifo) /\ fifo' = Tail(fifo)

Next == Take \/ \E sc \in Scancodes : Put(sc)

Spec == Init /\ [][Next]_vars
=============================================================================
