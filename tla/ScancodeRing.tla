---------------------------- MODULE ScancodeRing ----------------------------
(***************************************************************************)
(* The fixed-size ring of src/interrupts.rs (struct ScancodeQueue) as      *)
(* operators on a record: `buffer`, `head`, `tail` and `len` are the       *)
(* fields of the struct, Push and Pop its two methods.  The module has no  *)
(* variable: ScancodeQueue.tla and InputPath.tla both hold such a record.  *)
(***************************************************************************)
EXTENDS Integers, Sequences

CONSTANTS
    \* SCANCODE_QUEUE_CAPACITY, 16 in the code
    Capacity,
    \* the bytes the keyboard of the instance sends
    Scancodes

ASSUME CapacityAssumption == Capacity \in Nat /\ Capacity > 0

ASSUME ScancodesAssumption == Scancodes \subseteq 0 .. 255

(* The array index that follows i. *)
NextIndex(i) == (i + 1) % Capacity

(* What `self.buffer[i] = ...` may hold: u8. *)
Byte == 0 .. 255

QueueType ==
    [buffer : [0 .. Capacity - 1 -> Byte],
     head   : 0 .. Capacity - 1,
     tail   : 0 .. Capacity - 1,
     len    : 0 .. Capacity]

-----------------------------------------------------------------------------

(* ScancodeQueue::new *)
NewQueue ==
    [buffer |-> [i \in 0 .. Capacity - 1 |-> 0], head |-> 0, tail |-> 0, len |-> 0]

IsFull(q) == q.len = Capacity

(* Mutants: the eviction forgets to advance `head`; it happens one slot    *)
(* early.                                                                  *)
PushKeepsHead(q, sc) ==
    [buffer |-> [q.buffer EXCEPT ![q.tail] = sc],
     head   |-> q.head,
     tail   |-> NextIndex(q.tail),
     len    |-> IF IsFull(q) THEN Capacity ELSE q.len + 1]

PushEvictsEarly(q, sc) ==
    LET full == q.len >= Capacity - 1
    IN  [buffer |-> [q.buffer EXCEPT ![q.tail] = sc],
         head   |-> IF full THEN NextIndex(q.head) ELSE q.head,
         tail   |-> NextIndex(q.tail),
         len    |-> IF full THEN q.len ELSE q.len + 1]

(* ScancodeQueue::push: a full ring gives up its oldest code and then      *)
(* stores the new one at the tail.                                         *)
Push(q, sc) ==
    LET full == IsFull(q)
    IN  [buffer |-> [q.buffer EXCEPT ![q.tail] = sc],
         head   |-> IF full THEN NextIndex(q.head) ELSE q.head,
         tail   |-> NextIndex(q.tail),
         len    |-> (IF full THEN q.len - 1 ELSE q.len) + 1]

(* ScancodeQueue::pop, split into the value it returns and the ring it     *)
(* leaves; an empty ring returns None and stays as it was (Peek is only    *)
(* asked of a ring that is not empty).                                     *)
Peek(q) == q.buffer[q.head]

(* Mutant: `head` advances without the modulus. *)
PopNoWrap(q) ==
    IF q.len = 0 THEN q
    ELSE [q EXCEPT !.head = q.head + 1, !.len = q.len - 1]

Pop(q) ==
    IF q.len = 0 THEN q
    ELSE [q EXCEPT !.head = NextIndex(q.head), !.len = q.len - 1]

-----------------------------------------------------------------------------

(* The codes the ring holds, oldest first: the view of the ring that the   *)
(* refinement and the invariants speak of.                                 *)
Contents(q) == [i \in 1 .. q.len |-> q.buffer[(q.head + (i - 1)) % Capacity]]

(* The struct's representation invariant: `tail` is where the contents     *)
(* end, so `len` and the two indexes never disagree.                       *)
WellFormed(q) ==
    /\ q \in QueueType
    /\ q.tail = (q.head + q.len) % Capacity
=============================================================================
