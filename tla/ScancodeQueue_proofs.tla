------------------------ MODULE ScancodeQueue_proofs ------------------------
(***************************************************************************)
(* Proofs about the scancode queue, for every capacity: its indexes always *)
(* agree, and it implements the drop-oldest FIFO.                          *)
(***************************************************************************)
EXTENDS ScancodeQueue, ScancodeRing_proofs

(* The indexes of the ring always agree (IndexesAgree), for every          *)
(* capacity: the representation invariant of ScancodeQueue in              *)
(* src/interrupts.rs is inductive under push and pop.                      *)
THEOREM QueueIndexesAgree == Spec => []IndexesAgree
<1>1. Init => IndexesAgree
  <2>. SUFFICES ASSUME Init PROVE IndexesAgree
    OBVIOUS
  <2>1. NewQueue \in QueueType
    BY CapacityAssumption DEF NewQueue, QueueType, Byte
  <2>2. (0 + 0) % Capacity = 0
    BY SlotValue, CapacityAssumption
  <2>. QED  BY <2>1, <2>2 DEF Init, IndexesAgree, WellFormed, NewQueue
<1>2. IndexesAgree /\ [Next]_vars => IndexesAgree'
  <2>. SUFFICES ASSUME IndexesAgree, [Next]_vars PROVE IndexesAgree'
    OBVIOUS
  <2>1. CASE Dequeue
    BY <2>1, PopWellFormed DEF Dequeue, IndexesAgree
  <2>2. ASSUME NEW sc \in Scancodes, Enqueue(sc) PROVE IndexesAgree'
    <3>1. sc \in Byte
      BY ScancodesAssumption DEF Byte
    <3>. QED  BY <2>2, <3>1, PushWellFormed DEF Enqueue, IndexesAgree
  <2>3. CASE UNCHANGED vars
    BY <2>3 DEF vars, IndexesAgree, WellFormed
  <2>. QED  BY <2>1, <2>2, <2>3 DEF Next
<1>. QED  BY <1>1, <1>2, PTL DEF Spec

(* The ring implements the drop-oldest FIFO (ImplementsFifo) for every     *)
(* capacity and every set of codes: each push is a put, each pop a take.   *)
THEOREM QueueImplementsFifo == Spec => ImplementsFifo
<1>1. Init => Fifo!Init
  <2>. SUFFICES ASSUME Init PROVE Fifo!Init
    OBVIOUS
  <2>1. Contents(NewQueue) = << >>
    BY DEF Contents, NewQueue
  <2>. QED  BY <2>1 DEF Init, Fifo!Init
<1>2. IndexesAgree /\ [Next]_vars => [Fifo!Next]_(Fifo!vars)
  <2>. SUFFICES ASSUME IndexesAgree, [Next]_vars
                PROVE  [Fifo!Next]_(Fifo!vars)
    OBVIOUS
  <2>1. CASE Dequeue
    <3>1. CASE queue.len = 0
      <4>1. Contents(queue) = << >>
        BY <3>1, ContentsSeq DEF IndexesAgree
      <4>2. queue' = queue /\ returned' = None
        BY <2>1, <3>1 DEF Dequeue, Pop
      <4>. QED  BY <4>1, <4>2 DEF Fifo!Next, Fifo!Take
    <3>2. CASE queue.len # 0
      <4>1. /\ Contents(queue) # << >>
            /\ Peek(queue) = Head(Contents(queue))
            /\ Contents(Pop(queue)) = Tail(Contents(queue))
        BY <3>2, PopContents DEF IndexesAgree
      <4>2. queue' = Pop(queue) /\ returned' = Peek(queue)
        BY <2>1, <3>2 DEF Dequeue
      <4>. QED  BY <4>1, <4>2 DEF Fifo!Next, Fifo!Take
    <3>. QED  BY <3>1, <3>2
  <2>2. ASSUME NEW sc \in Scancodes, Enqueue(sc) PROVE Fifo!Put(sc)
    <3>1. sc \in Byte
      BY ScancodesAssumption DEF Byte
    <3>. QED  BY <2>2, <3>1, PushContents DEF Enqueue, IndexesAgree, Fifo!Put
  <2>3. CASE UNCHANGED vars
    BY <2>3 DEF vars, Fifo!vars, Contents
  <2>. QED  BY <2>1, <2>2, <2>3 DEF Next, Fifo!Next
<1>. QED  BY <1>1, <1>2, QueueIndexesAgree, PTL DEF Spec, ImplementsFifo, Fifo!Spec

(* What next_scancode returned is a byte or None, and the ring has its     *)
(* type (TypeOK): `Peek` never reads outside the buffer.                   *)
THEOREM QueueTypeOK == Spec => []TypeOK
<1>1. Init => TypeOK
  BY CapacityAssumption DEF Init, TypeOK, NewQueue, QueueType, Byte
<1>2. TypeOK /\ IndexesAgree' /\ [Next]_vars => TypeOK'
  <2>. SUFFICES ASSUME TypeOK, IndexesAgree', [Next]_vars PROVE TypeOK'
    OBVIOUS
  <2>1. queue' \in QueueType
    BY DEF IndexesAgree, WellFormed
  <2>2. CASE Dequeue
    <3>1. Peek(queue) \in Byte
      BY DEF TypeOK, QueueType, Peek
    <3>. QED  BY <2>1, <2>2, <3>1 DEF Dequeue, TypeOK
  <2>3. CASE \E sc \in Scancodes : Enqueue(sc)
    BY <2>1, <2>3 DEF Enqueue, TypeOK
  <2>4. CASE UNCHANGED vars
    BY <2>1, <2>4 DEF vars, TypeOK
  <2>. QED  BY <2>2, <2>3, <2>4 DEF Next
<1>. QED  BY <1>1, <1>2, QueueIndexesAgree, PTL DEF Spec
=============================================================================
