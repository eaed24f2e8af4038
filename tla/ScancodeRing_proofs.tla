------------------------- MODULE ScancodeRing_proofs ------------------------
(***************************************************************************)
(* Lemmas about the scancode ring, for every capacity: push and pop keep   *)
(* the representation invariant, and act on the contents as on a queue     *)
(* that drops its oldest element.                                          *)
(***************************************************************************)
EXTENDS ScancodeRing, SequenceTheorems, TLAPS

(* An index below the capacity is its own residue. *)
LEMMA ModSmall ==
  ASSUME NEW x \in 0 .. Capacity - 1
  PROVE  x % Capacity = x
BY CapacityAssumption, SMT

(* An index in the second lap is brought back by one subtraction. *)
LEMMA ModWrap ==
  ASSUME NEW x \in Capacity .. 2 * Capacity - 1
  PROVE  x % Capacity = x - Capacity
BY CapacityAssumption, SMT

(* NextIndex steps through 0 .. Capacity - 1 and wraps at the end. *)
LEMMA NextIndexValue ==
  ASSUME NEW i \in 0 .. Capacity - 1
  PROVE  /\ NextIndex(i) = IF i = Capacity - 1 THEN 0 ELSE i + 1
         /\ NextIndex(i) \in 0 .. Capacity - 1
BY ModSmall, ModWrap, CapacityAssumption DEF NextIndex

(* The place `k` slots after `h`, without the modulus. *)
LEMMA SlotValue ==
  ASSUME NEW h \in 0 .. Capacity - 1, NEW k \in 0 .. Capacity
  PROVE  /\ (h + k) % Capacity = IF h + k < Capacity THEN h + k ELSE h + k - Capacity
         /\ (h + k) % Capacity \in 0 .. Capacity - 1
<1>1. CASE h + k < Capacity
  BY <1>1, ModSmall, CapacityAssumption
<1>2. CASE h + k >= Capacity
  BY <1>2, ModWrap, CapacityAssumption
<1>. QED  BY <1>1, <1>2, CapacityAssumption

(* Two slots less than a lap apart are different slots. *)
LEMMA SlotsDiffer ==
  ASSUME NEW h \in 0 .. Capacity - 1, NEW k \in 0 .. Capacity, NEW j \in 0 .. Capacity,
         j # k, j - k < Capacity, k - j < Capacity
  PROVE  /\ (IF h + j < Capacity THEN h + j ELSE h + j - Capacity)
                # (IF h + k < Capacity THEN h + k ELSE h + k - Capacity)
         /\ (IF h + j < Capacity THEN h + j ELSE h + j - Capacity) \in 0 .. Capacity - 1
BY CapacityAssumption, SMT

-----------------------------------------------------------------------------

(* The fields of the ring after a push. *)
LEMMA PushFields ==
  ASSUME NEW q, WellFormed(q), NEW sc \in Byte
  PROVE  /\ Push(q, sc) \in QueueType
         /\ Push(q, sc).buffer = [q.buffer EXCEPT ![q.tail] = sc]
         /\ Push(q, sc).tail = NextIndex(q.tail)
         /\ q.len = Capacity => /\ Push(q, sc).head = NextIndex(q.head)
                                /\ Push(q, sc).len = Capacity
         /\ q.len < Capacity => /\ Push(q, sc).head = q.head
                                /\ Push(q, sc).len = q.len + 1
<1>1. /\ q \in QueueType
      /\ NextIndex(q.tail) \in 0 .. Capacity - 1
      /\ NextIndex(q.head) \in 0 .. Capacity - 1
  BY NextIndexValue DEF WellFormed, QueueType
<1>. QED  BY <1>1, CapacityAssumption DEF Push, IsFull, QueueType

(* push keeps the representation invariant. *)
LEMMA PushWellFormed ==
  ASSUME NEW q, WellFormed(q), NEW sc \in Byte
  PROVE  WellFormed(Push(q, sc))
<1>. DEFINE r == Push(q, sc)
<1>1. q \in QueueType /\ q.tail = (q.head + q.len) % Capacity
  BY DEF WellFormed
<1>2. /\ q.head \in 0 .. Capacity - 1
      /\ q.tail \in 0 .. Capacity - 1
      /\ q.len \in 0 .. Capacity
  BY <1>1 DEF QueueType
<1>3. r.tail = (r.head + r.len) % Capacity
  <2>1. CASE q.len = Capacity
    <3>1. q.tail = q.head
      BY <1>1, <1>2, <2>1, SlotValue, CapacityAssumption
    <3>2. r.tail = NextIndex(q.tail) /\ r.head = NextIndex(q.head) /\ r.len = Capacity
      BY <2>1, PushFields
    <3>3. NextIndex(q.head) \in 0 .. Capacity - 1
      BY <1>2, NextIndexValue
    <3>4. (NextIndex(q.head) + Capacity) % Capacity = NextIndex(q.head)
      BY <3>3, SlotValue, CapacityAssumption
    <3>. QED  BY <3>1, <3>2, <3>4
  <2>2. CASE q.len < Capacity
    <3>1. r.tail = NextIndex(q.tail) /\ r.head = q.head /\ r.len = q.len + 1
      BY <2>2, PushFields
    <3>2. q.tail = IF q.head + q.len < Capacity
                   THEN q.head + q.len ELSE q.head + q.len - Capacity
      BY <1>1, <1>2, SlotValue
    <3>3. (q.head + (q.len + 1)) % Capacity =
             IF q.head + (q.len + 1) < Capacity
             THEN q.head + (q.len + 1) ELSE q.head + (q.len + 1) - Capacity
      <4>1. q.len + 1 \in 0 .. Capacity
        BY <1>2, <2>2, CapacityAssumption
      <4>. QED  BY <1>2, <4>1, SlotValue
    <3>4. NextIndex(q.tail) = IF q.tail = Capacity - 1 THEN 0 ELSE q.tail + 1
      BY <1>2, NextIndexValue
    <3>. QED  BY <1>2, <2>2, <3>1, <3>2, <3>3, <3>4, CapacityAssumption
  <2>. QED  BY <1>2, <2>1, <2>2, CapacityAssumption
<1>. QED  BY <1>3, PushFields DEF WellFormed

(* pop keeps the representation invariant. *)
LEMMA PopWellFormed ==
  ASSUME NEW q, WellFormed(q)
  PROVE  WellFormed(Pop(q))
<1>1. q \in QueueType /\ q.tail = (q.head + q.len) % Capacity
  BY DEF WellFormed
<1>2. /\ q.head \in 0 .. Capacity - 1
      /\ q.tail \in 0 .. Capacity - 1
      /\ q.len \in 0 .. Capacity
  BY <1>1 DEF QueueType
<1>3. CASE q.len = 0
  BY <1>3 DEF Pop
<1>4. CASE q.len > 0
  <2>. DEFINE r == Pop(q)
  <2>1. NextIndex(q.head) = IF q.head = Capacity - 1 THEN 0 ELSE q.head + 1
    BY <1>2, NextIndexValue
  <2>2. /\ r \in QueueType
        /\ r.head = NextIndex(q.head)
        /\ r.tail = q.tail
        /\ r.len = q.len - 1
    <3>1. NextIndex(q.head) \in 0 .. Capacity - 1
      BY <1>2, NextIndexValue
    <3>2. q.len - 1 \in 0 .. Capacity /\ q.len # 0
      BY <1>2, <1>4, CapacityAssumption
    <3>3. r = [q EXCEPT !.head = NextIndex(q.head), !.len = q.len - 1]
      BY <3>2 DEF Pop
    <3>. QED  BY <1>1, <3>1, <3>2, <3>3 DEF QueueType
  <2>3. q.tail = IF q.head + q.len < Capacity
                 THEN q.head + q.len ELSE q.head + q.len - Capacity
    BY <1>1, <1>2, SlotValue
  <2>4. (r.head + r.len) % Capacity =
           IF r.head + r.len < Capacity
           THEN r.head + r.len ELSE r.head + r.len - Capacity
    <3>1. r.head \in 0 .. Capacity - 1 /\ r.len \in 0 .. Capacity
      BY <2>2 DEF QueueType
    <3>. QED  BY <3>1, SlotValue
  <2>5. r.tail = (r.head + r.len) % Capacity
    BY <1>2, <1>4, <2>1, <2>2, <2>3, <2>4, CapacityAssumption
  <2>. QED  BY <2>2, <2>5 DEF WellFormed
<1>. QED  BY <1>2, <1>3, <1>4, CapacityAssumption

-----------------------------------------------------------------------------

(* Contents is a sequence of len bytes, read from the slots after head. *)
LEMMA ContentsSeq ==
  ASSUME NEW q, WellFormed(q)
  PROVE  /\ Contents(q) \in Seq(Byte)
         /\ Len(Contents(q)) = q.len
         /\ \A i \in 1 .. q.len :
               Contents(q)[i] = q.buffer[IF q.head + (i - 1) < Capacity
                                         THEN q.head + (i - 1)
                                         ELSE q.head + (i - 1) - Capacity]
<1>1. /\ q.head \in 0 .. Capacity - 1
      /\ q.len \in 0 .. Capacity
      /\ q.buffer \in [0 .. Capacity - 1 -> Byte]
  BY DEF WellFormed, QueueType
<1>2. ASSUME NEW i \in 1 .. q.len
      PROVE  /\ (q.head + (i - 1)) % Capacity \in 0 .. Capacity - 1
             /\ (q.head + (i - 1)) % Capacity =
                   IF q.head + (i - 1) < Capacity
                   THEN q.head + (i - 1) ELSE q.head + (i - 1) - Capacity
  <2>1. i - 1 \in 0 .. Capacity
    BY <1>1, <1>2, CapacityAssumption
  <2>. QED  BY <1>1, <2>1, SlotValue
<1>3. Contents(q) \in [1 .. q.len -> Byte]
  BY <1>1, <1>2 DEF Contents
<1>4. q.len \in Nat
  BY <1>1, CapacityAssumption
<1>5. Contents(q) \in Seq(Byte) /\ Len(Contents(q)) = q.len
  BY <1>3, <1>4
<1>. QED  BY <1>2, <1>5 DEF Contents

(* A push appends to the contents, after giving up the oldest code when    *)
(* the ring is full.                                                       *)
LEMMA PushContents ==
  ASSUME NEW q, WellFormed(q), NEW sc \in Byte
  PROVE  Contents(Push(q, sc)) =
           Append(IF Len(Contents(q)) = Capacity THEN Tail(Contents(q)) ELSE Contents(q), sc)
<1>. DEFINE r == Push(q, sc)
            c == Contents(q)
            d == Contents(r)
<1>1. /\ q.head \in 0 .. Capacity - 1
      /\ q.len \in 0 .. Capacity
      /\ q.buffer \in [0 .. Capacity - 1 -> Byte]
      /\ q.tail = IF q.head + q.len < Capacity
                  THEN q.head + q.len ELSE q.head + q.len - Capacity
      /\ q.tail \in 0 .. Capacity - 1
  BY SlotValue DEF WellFormed, QueueType
<1>2. WellFormed(r)
  BY PushWellFormed
<1>3. /\ c \in Seq(Byte)
      /\ Len(c) = q.len
      /\ \A i \in 1 .. q.len :
            c[i] = q.buffer[IF q.head + (i - 1) < Capacity
                            THEN q.head + (i - 1) ELSE q.head + (i - 1) - Capacity]
  BY ContentsSeq
<1>4. /\ d \in Seq(Byte)
      /\ Len(d) = r.len
      /\ \A i \in 1 .. r.len :
            d[i] = r.buffer[IF r.head + (i - 1) < Capacity
                            THEN r.head + (i - 1) ELSE r.head + (i - 1) - Capacity]
  BY <1>2, ContentsSeq
<1>5. r.buffer = [q.buffer EXCEPT ![q.tail] = sc]
  BY PushFields
<1>6. CASE q.len < Capacity
  <2>1. r.head = q.head /\ r.len = q.len + 1
    BY <1>6, PushFields
  <2>2. /\ Append(c, sc) \in Seq(Byte)
        /\ Len(Append(c, sc)) = q.len + 1
        /\ \A i \in 1 .. q.len + 1 :
              Append(c, sc)[i] = IF i = q.len + 1 THEN sc ELSE c[i]
    BY <1>1, <1>3, CapacityAssumption
  <2>3. ASSUME NEW i \in 1 .. q.len + 1
        PROVE  d[i] = Append(c, sc)[i]
    <3>1. CASE i = q.len + 1
      BY <1>1, <1>4, <1>5, <1>6, <2>1, <2>2, <3>1, CapacityAssumption
    <3>2. CASE i # q.len + 1
      <4>1. i \in 1 .. q.len
        BY <1>1, <3>2, <2>3, CapacityAssumption
      <4>. DEFINE k == IF q.head + (i - 1) < Capacity
                       THEN q.head + (i - 1) ELSE q.head + (i - 1) - Capacity
      <4>2. k # q.tail /\ k \in 0 .. Capacity - 1
        <5>1. /\ i - 1 \in 0 .. Capacity
              /\ i - 1 # q.len
              /\ (i - 1) - q.len < Capacity
              /\ q.len - (i - 1) < Capacity
          BY <1>1, <1>6, <4>1, CapacityAssumption
        <5>. QED  BY <1>1, <5>1, SlotsDiffer
      <4>3. d[i] = r.buffer[k] /\ c[i] = q.buffer[k]
        BY <1>3, <1>4, <2>1, <4>1
      <4>4. r.buffer[k] = q.buffer[k]
        BY <1>1, <1>5, <4>2
      <4>. QED  BY <2>2, <3>2, <4>3, <4>4
    <3>. QED  BY <3>1, <3>2
  <2>4. d = Append(c, sc)
    BY <1>1, <1>4, <2>1, <2>2, <2>3, SeqEqual, CapacityAssumption
  <2>. QED  BY <1>1, <1>3, <1>6, <2>4, CapacityAssumption
<1>7. CASE q.len = Capacity
  <2>1. r.head = NextIndex(q.head) /\ r.len = Capacity
    BY <1>7, PushFields
  <2>2. r.head = IF q.head = Capacity - 1 THEN 0 ELSE q.head + 1
    BY <1>1, <2>1, NextIndexValue
  <2>3. q.tail = q.head
    BY <1>1, <1>7, CapacityAssumption
  <2>4. /\ Tail(c) \in Seq(Byte)
        /\ Len(Tail(c)) = Capacity - 1
        /\ \A i \in 1 .. Capacity - 1 : Tail(c)[i] = c[i + 1]
    BY <1>3, <1>7, CapacityAssumption
  <2>5. /\ Append(Tail(c), sc) \in Seq(Byte)
        /\ Len(Append(Tail(c), sc)) = Capacity
        /\ \A i \in 1 .. Capacity :
              Append(Tail(c), sc)[i] = IF i = Capacity THEN sc ELSE c[i + 1]
    BY <2>4, CapacityAssumption
  <2>6. ASSUME NEW i \in 1 .. Capacity
        PROVE  d[i] = Append(Tail(c), sc)[i]
    <3>. DEFINE k == IF r.head + (i - 1) < Capacity
                     THEN r.head + (i - 1) ELSE r.head + (i - 1) - Capacity
    <3>1. d[i] = r.buffer[k]
      BY <1>4, <2>1
    <3>2. CASE i = Capacity
      <4>1. k = q.tail
        BY <1>1, <2>2, <2>3, <3>2, CapacityAssumption
      <4>. QED  BY <1>1, <1>5, <2>5, <3>1, <3>2, <4>1
    <3>3. CASE i # Capacity
      <4>1. i + 1 \in 1 .. q.len /\ i \in 1 .. Capacity - 1
        BY <1>7, <3>3, CapacityAssumption
      <4>2. k = IF q.head + ((i + 1) - 1) < Capacity
                THEN q.head + ((i + 1) - 1) ELSE q.head + ((i + 1) - 1) - Capacity
        BY <1>1, <2>2, <4>1, CapacityAssumption
      <4>3. k # q.tail /\ k \in 0 .. Capacity - 1
        <5>1. /\ (i + 1) - 1 \in 0 .. Capacity
              /\ (i + 1) - 1 # 0
              /\ ((i + 1) - 1) - 0 < Capacity
              /\ 0 - ((i + 1) - 1) < Capacity
              /\ 0 \in 0 .. Capacity
              /\ q.head = IF q.head + 0 < Capacity THEN q.head + 0 ELSE q.head + 0 - Capacity
          BY <1>1, <4>1, CapacityAssumption
        <5>. QED  BY <1>1, <2>3, <4>2, <5>1, SlotsDiffer
      <4>4. c[i + 1] = q.buffer[k]
        BY <1>3, <4>1, <4>2
      <4>5. r.buffer[k] = q.buffer[k]
        BY <1>1, <1>5, <4>3
      <4>. QED  BY <2>5, <3>1, <3>3, <4>4, <4>5
    <3>. QED  BY <3>2, <3>3
  <2>7. d = Append(Tail(c), sc)
    BY <1>4, <2>1, <2>5, <2>6, SeqEqual, CapacityAssumption
  <2>. QED  BY <1>3, <1>7, <2>7
<1>. QED  BY <1>1, <1>6, <1>7, CapacityAssumption

(* A pop of a ring that is not empty returns and removes the head of the   *)
(* contents.                                                               *)
LEMMA PopContents ==
  ASSUME NEW q, WellFormed(q), q.len # 0
  PROVE  /\ Contents(q) # << >>
         /\ Peek(q) = Head(Contents(q))
         /\ Contents(Pop(q)) = Tail(Contents(q))
<1>. DEFINE r == Pop(q)
            c == Contents(q)
            d == Contents(r)
<1>1. /\ q \in QueueType
      /\ q.head \in 0 .. Capacity - 1
      /\ q.len \in 1 .. Capacity
  BY CapacityAssumption DEF WellFormed, QueueType
<1>2. /\ r.head = NextIndex(q.head)
      /\ r.len = q.len - 1
      /\ r.buffer = q.buffer
  <2>1. r = [q EXCEPT !.head = NextIndex(q.head), !.len = q.len - 1]
    BY DEF Pop
  <2>. QED  BY <1>1, <2>1 DEF QueueType
<1>3. r.head = IF q.head = Capacity - 1 THEN 0 ELSE q.head + 1
  BY <1>1, <1>2, NextIndexValue
<1>4. /\ c \in Seq(Byte)
      /\ Len(c) = q.len
      /\ \A i \in 1 .. q.len :
            c[i] = q.buffer[IF q.head + (i - 1) < Capacity
                            THEN q.head + (i - 1) ELSE q.head + (i - 1) - Capacity]
  BY ContentsSeq
<1>5. /\ d \in Seq(Byte)
      /\ Len(d) = q.len - 1
      /\ \A i \in 1 .. q.len - 1 :
            d[i] = q.buffer[IF r.head + (i - 1) < Capacity
                            THEN r.head + (i - 1) ELSE r.head + (i - 1) - Capacity]
  BY <1>2, PopWellFormed, ContentsSeq
<1>6. c # << >> /\ Head(c) = c[1]
  BY <1>1, <1>4, CapacityAssumption
<1>7. c[1] = Peek(q)
  BY <1>1, <1>4, CapacityAssumption DEF Peek
<1>8. /\ Tail(c) \in Seq(Byte)
      /\ Len(Tail(c)) = q.len - 1
      /\ \A i \in 1 .. q.len - 1 : Tail(c)[i] = c[i + 1]
  BY <1>1, <1>4, <1>6, CapacityAssumption
<1>9. ASSUME NEW i \in 1 .. q.len - 1
      PROVE  d[i] = Tail(c)[i]
  <2>1. i + 1 \in 1 .. q.len
    BY <1>1, <1>9, CapacityAssumption
  <2>2. (IF r.head + (i - 1) < Capacity
         THEN r.head + (i - 1) ELSE r.head + (i - 1) - Capacity)
        = (IF q.head + ((i + 1) - 1) < Capacity
           THEN q.head + ((i + 1) - 1) ELSE q.head + ((i + 1) - 1) - Capacity)
    BY <1>1, <1>3, <2>1, CapacityAssumption
  <2>. QED  BY <1>4, <1>5, <1>8, <2>1, <2>2
<1>10. d = Tail(c)
  BY <1>5, <1>8, <1>9, SeqEqual
<1>. QED  BY <1>6, <1>7, <1>10
=============================================================================
