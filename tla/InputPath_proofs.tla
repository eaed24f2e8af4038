-------------------------- MODULE InputPath_proofs --------------------------
(***************************************************************************)
(* Proofs about the input path, for every capacity of the queue, every set *)
(* of keys and any number of key strokes.                                  *)
(***************************************************************************)
EXTENDS InputPath, ScancodeRing_proofs, FiniteSetTheorems

-----------------------------------------------------------------------------
(* The inductive invariant.                                                *)

(* Between cli and the end of without_interrupts no handler runs. *)
Masked ==
    main \in {"lock", "pop", "translate", "feed", "restore"} =>
        ~intr_flag /\ handler = "none"

(* Only the step between lock and pop holds the queue's lock. *)
LockHeldInPop == qlock = IF main = "pop" THEN "main" ELSE "free"

(* A requested or just accepted interrupt has its byte in the port, and    *)
(* the handler pushes a byte it has read.                                  *)
ByteBehindInterrupt ==
    /\ irr \/ handler = "read" => port60 # None
    /\ handler = "read" => ~irr
    /\ handler = "push" => code # None

(* The idle loop works on a code it has popped and a byte it has got. *)
LocalsSet ==
    /\ main = "translate" => scancode # None
    /\ main = "feed" => byte # None

Inv ==
    /\ TypeOK
    /\ WellFormed(queue)
    /\ Masked
    /\ LockHeldInPop
    /\ ByteBehindInterrupt
    /\ LocalsSet

-----------------------------------------------------------------------------
(* Lemmas.                                                                 *)

(* The table's rows hold visible ASCII only, and as many shifted bytes as  *)
(* unshifted ones.                                                         *)
LEMMA RowsType ==
  ASSUME NEW i \in DOMAIN Rows
  PROVE  /\ Rows[i].first \in Nat
         /\ Rows[i].lower \in Seq(Printable)
         /\ Rows[i].upper \in Seq(Printable)
         /\ Len(Rows[i].lower) = Len(Rows[i].upper)
<1>1. DOMAIN Rows = 1 .. 5
  BY DEF Rows
<1>2. /\ NumberLower \in Seq(Printable) /\ Len(NumberLower) = 12
      /\ NumberUpper \in Seq(Printable) /\ Len(NumberUpper) = 12
  BY DEF NumberLower, NumberUpper, Printable
<1>3. /\ TopLower \in Seq(Printable) /\ Len(TopLower) = 12
      /\ TopUpper \in Seq(Printable) /\ Len(TopUpper) = 12
  BY DEF TopLower, TopUpper, Printable
<1>4. /\ HomeLower \in Seq(Printable) /\ Len(HomeLower) = 12
      /\ HomeUpper \in Seq(Printable) /\ Len(HomeUpper) = 12
  BY DEF HomeLower, HomeUpper, Printable
<1>5. /\ <<92>> \in Seq(Printable) /\ Len(<<92>>) = 1
      /\ <<124>> \in Seq(Printable) /\ Len(<<124>>) = 1
  BY DEF Printable
<1>6. /\ BottomLower \in Seq(Printable) /\ Len(BottomLower) = 10
      /\ BottomUpper \in Seq(Printable) /\ Len(BottomUpper) = 10
  BY DEF BottomLower, BottomUpper, Printable
<1>7. CASE i = 1
  BY <1>2, <1>7 DEF Rows
<1>8. CASE i = 2
  BY <1>3, <1>8 DEF Rows
<1>9. CASE i = 3
  BY <1>4, <1>9 DEF Rows
<1>10. CASE i = 4
  BY <1>5, <1>10 DEF Rows
<1>11. CASE i = 5
  BY <1>6, <1>11 DEF Rows
<1>. QED  BY <1>1, <1>7, <1>8, <1>9, <1>10, <1>11

(* What ascii_for_make_code can return. *)
LEMMA AsciiType ==
  ASSUME NEW c \in 0 .. 127, NEW h \in BOOLEAN
  PROVE  AsciiForMakeCode(c, h) \in Printable \cup {BACKSPACE, ENTER, None}
<1>1. RowByte(c, h) \in Printable \cup {None}
  <2>1. CASE \E i \in DOMAIN Rows : RowHas(Rows[i], c)
    <3>. DEFINE j == CHOOSE i \in DOMAIN Rows : RowHas(Rows[i], c)
    <3>1. j \in DOMAIN Rows /\ RowHas(Rows[j], c)
      BY <2>1
    <3>. HIDE DEF j
    <3>2. c - Rows[j].first + 1 \in 1 .. Len(Rows[j].lower)
      BY <3>1, RowsType DEF RowHas
    <3>3. /\ Rows[j].lower[c - Rows[j].first + 1] \in Printable
          /\ Rows[j].upper[c - Rows[j].first + 1] \in Printable
      BY <3>1, <3>2, RowsType, ElementOfSeq
    <3>4. RowByte(c, h) = (IF h THEN Rows[j].upper ELSE Rows[j].lower)[c - Rows[j].first + 1]
      BY <2>1 DEF RowByte, j
    <3>. QED  BY <3>3, <3>4
  <2>2. CASE ~ \E i \in DOMAIN Rows : RowHas(Rows[i], c)
    BY <2>2 DEF RowByte
  <2>. QED  BY <2>1, <2>2
<1>. QED  BY <1>1 DEF AsciiForMakeCode, SPACE, Printable

(* What translate() returns, and the Shift state it leaves. *)
LEMMA TranslateType ==
  ASSUME NEW s \in ShiftState, NEW sc \in Byte
  PROVE  /\ ByteFor(s, sc) \in Printable \cup {BACKSPACE, ENTER, None}
         /\ ShiftAfter(s, sc) \in ShiftState
<1>1. ByteFor(s, sc) \in Printable \cup {BACKSPACE, ENTER, None}
  <2>1. IsActive(s) \in BOOLEAN
    BY DEF IsActive, ShiftState
  <2>2. CASE sc \in {LEFT_SHIFT_MAKE, LEFT_SHIFT_BREAK, RIGHT_SHIFT_MAKE, RIGHT_SHIFT_BREAK}
    BY <2>2 DEF ByteFor
  <2>3. CASE /\ sc \notin {LEFT_SHIFT_MAKE, LEFT_SHIFT_BREAK, RIGHT_SHIFT_MAKE, RIGHT_SHIFT_BREAK}
             /\ sc >= 128
    BY <2>3 DEF ByteFor
  <2>4. CASE /\ sc \notin {LEFT_SHIFT_MAKE, LEFT_SHIFT_BREAK, RIGHT_SHIFT_MAKE, RIGHT_SHIFT_BREAK}
             /\ ~(sc >= 128)
    <3>1. sc \in 0 .. 127
      BY <2>4 DEF Byte
    <3>2. ByteFor(s, sc) = AsciiForMakeCode(sc, IsActive(s))
      BY <2>4 DEF ByteFor
    <3>. QED  BY <2>1, <3>1, <3>2, AsciiType
  <2>. QED  BY <2>2, <2>3, <2>4
<1>2. ShiftAfter(s, sc) \in ShiftState
  BY DEF ShiftAfter, ShiftState, LEFT_SHIFT_MAKE, LEFT_SHIFT_BREAK, RIGHT_SHIFT_MAKE, RIGHT_SHIFT_BREAK
<1>. QED  BY <1>1, <1>2

-----------------------------------------------------------------------------

(* Codes are bytes and None is not one. *)
LEMMA CodesAreBytes ==
  /\ Scancodes \subseteq Byte
  /\ None \notin Byte
  /\ None \notin Scancodes
  /\ \A k \in Keys : k \in Scancodes /\ k + 128 \in Scancodes /\ k \in 0 .. 127
BY ScancodesAssumption, NoneIsNoByte, KeysAssumption DEF Byte

(* kernel_main enters its loop with everything empty and nothing locked. *)
LEMMA InitInv == Init => Inv
<1>. SUFFICES ASSUME Init PROVE Inv
  OBVIOUS
<1>1. NewQueue \in QueueType
  BY CapacityAssumption DEF NewQueue, QueueType, Byte
<1>2. WellFormed(NewQueue)
  <2>1. (0 + 0) % Capacity = 0
    BY SlotValue, CapacityAssumption
  <2>. QED  BY <1>1, <2>1 DEF WellFormed, NewQueue
<1>3. TypeOK
  <2>1. irr \in BOOLEAN /\ isr \in BOOLEAN /\ intr_flag \in BOOLEAN /\ saved \in BOOLEAN
    BY DEF Init
  <2>2. shift \in ShiftState /\ ShellKnowsEveryByte
    BY DEF Init, KeyboardInit, ShiftState, ShellKnowsEveryByte
  <2>3. /\ typed \in Seq(Scancodes) /\ text \in Seq(0 .. 255)
        /\ taken \in Seq(Byte) /\ fed \in Seq(0 .. 255) /\ evicted \in Seq(Nat)
    BY DEF Init
  <2>. QED  BY <1>1, <2>1, <2>2, <2>3 DEF Init, TypeOK
<1>. QED
  BY <1>2, <1>3 DEF Init, Inv, Masked, LockHeldInPop, ByteBehindInterrupt, LocalsSet

(* A key stroke: the code goes into an empty port, the text may grow. *)
LEMMA SendInv ==
  ASSUME Inv, NEW sc \in Scancodes, Send(sc),
         held' \subseteq Keys, text' \in Seq(0 .. 255)
  PROVE  Inv'
<1>. USE DEF Inv, Send, locals, statics, translator, history
<1>1. sc # None
  BY CodesAreBytes
<1>2. TypeOK'
  <2>1. typed' \in Seq(Scancodes)
    BY AppendProperties DEF TypeOK
  <2>. QED  BY <2>1 DEF TypeOK, ShellKnowsEveryByte
<1>3. WellFormed(queue)'
  BY DEF WellFormed
<1>4. Masked' /\ LockHeldInPop' /\ LocalsSet'
  BY DEF Masked, LockHeldInPop, LocalsSet
<1>5. ByteBehindInterrupt'
  BY <1>1 DEF ByteBehindInterrupt
<1>. QED  BY <1>2, <1>3, <1>4, <1>5

(* Every step of the keyboard, the handler and the idle loop keeps the     *)
(* invariant.                                                              *)
LEMMA NextInv == Inv /\ [Next]_vars => Inv'
<1>. SUFFICES ASSUME Inv, [Next]_vars PROVE Inv'
  OBVIOUS
<1>. USE DEF keyboard, devices, locals, statics, translator, history
<1>1. ASSUME NEW k \in Keys, Press(k) PROVE Inv'
  <2>1. Send(k) /\ held' \subseteq Keys /\ k \in Scancodes /\ k \in 0 .. 127
    BY <1>1, CodesAreBytes DEF Press, Inv, TypeOK
  <2>2. text' \in Seq(0 .. 255)
    <3>1. text \in Seq(0 .. 255)
      BY DEF Inv, TypeOK
    <3>2. ShiftDown \in BOOLEAN
      BY DEF ShiftDown
    <3>. DEFINE b == IF k \in {LEFT_SHIFT_MAKE, RIGHT_SHIFT_MAKE} THEN None
                     ELSE AsciiForMakeCode(k, ShiftDown)
    <3>3. b \in 0 .. 255 \cup {None}
      <4>1. AsciiForMakeCode(k, ShiftDown) \in Printable \cup {BACKSPACE, ENTER, None}
        BY <2>1, <3>2, AsciiType
      <4>. QED  BY <4>1 DEF Printable, BACKSPACE, ENTER
    <3>4. text' = IF b = None THEN text ELSE Append(text, b)
      BY <1>1 DEF Press
    <3>. HIDE DEF b
    <3>. QED  BY <3>1, <3>3, <3>4, AppendProperties
  <2>. QED  BY <2>1, <2>2, SendInv
<1>2. ASSUME NEW k \in Keys, Release(k) PROVE Inv'
  <2>1. /\ Send(k + 128) /\ held' \subseteq Keys /\ k + 128 \in Scancodes
        /\ text' \in Seq(0 .. 255)
    BY <1>2, CodesAreBytes DEF Release, Inv, TypeOK
  <2>. QED  BY <2>1, SendInv
<1>3. CASE Interrupt
  <2>1. main \notin {"lock", "pop", "translate", "feed", "restore"}
    BY <1>3 DEF Interrupt, Inv, Masked
  <2>2. TypeOK'
    <3>1. due' \in Nat
      BY <1>3, LenProperties DEF Interrupt, Inv, TypeOK
    <3>. QED  BY <1>3, <3>1 DEF Interrupt, Inv, TypeOK, ShellKnowsEveryByte
  <2>3. WellFormed(queue)'
    BY <1>3 DEF Interrupt, Inv, WellFormed
  <2>4. Masked' /\ LockHeldInPop' /\ ByteBehindInterrupt' /\ LocalsSet'
    BY <1>3, <2>1 DEF Interrupt, Inv, Masked, LockHeldInPop, ByteBehindInterrupt, LocalsSet
  <2>. QED  BY <2>2, <2>3, <2>4 DEF Inv
<1>4. CASE HandlerRead
  <2>1. TypeOK'
    BY <1>4 DEF HandlerRead, Inv, TypeOK, ShellKnowsEveryByte
  <2>2. WellFormed(queue)'
    BY <1>4 DEF HandlerRead, Inv, WellFormed
  <2>3. Masked' /\ LockHeldInPop' /\ ByteBehindInterrupt' /\ LocalsSet'
    BY <1>4 DEF HandlerRead, Inv, Masked, LockHeldInPop, ByteBehindInterrupt, LocalsSet
  <2>. QED  BY <2>1, <2>2, <2>3 DEF Inv
<1>5. CASE HandlerPush
  <2>1. code \in Byte
    BY <1>5, CodesAreBytes DEF HandlerPush, Inv, TypeOK, ByteBehindInterrupt
  <2>2. WellFormed(queue)'
    BY <1>5, <2>1, PushWellFormed DEF HandlerPush, Inv
  <2>3. TypeOK'
    <3>1. Len(taken) + Len(evicted) + 1 \in Nat
      BY DEF Inv, TypeOK
    <3>2. evicted' \in Seq(Nat)
      BY <1>5, <3>1, AppendProperties DEF HandlerPush, Inv, TypeOK
    <3>. QED
      BY <1>5, <2>2, <3>2 DEF HandlerPush, Inv, TypeOK, ShellKnowsEveryByte, WellFormed
  <2>4. Masked' /\ LockHeldInPop' /\ ByteBehindInterrupt' /\ LocalsSet'
    BY <1>5 DEF HandlerPush, Inv, Masked, LockHeldInPop, ByteBehindInterrupt, LocalsSet
  <2>. QED  BY <2>2, <2>3, <2>4 DEF Inv
<1>6. CASE HandlerEoi
  <2>1. TypeOK'
    <3>1. isr' \in BOOLEAN /\ intr_flag' \in BOOLEAN
      BY <1>6 DEF HandlerEoi
    <3>2. /\ handler' = "none"
          /\ UNCHANGED <<held, typed, text, port60, irr, main, saved, code, scancode,
                         queue, qlock, shift, byte, taken, fed, evicted, due>>
      BY <1>6 DEF HandlerEoi
    <3>. QED  BY <3>1, <3>2 DEF Inv, TypeOK, ShellKnowsEveryByte
  <2>2. WellFormed(queue)'
    BY <1>6 DEF HandlerEoi, Inv, WellFormed
  <2>3. Masked' /\ LockHeldInPop' /\ ByteBehindInterrupt' /\ LocalsSet'
    BY <1>6 DEF HandlerEoi, Inv, Masked, LockHeldInPop, ByteBehindInterrupt, LocalsSet
  <2>. QED  BY <2>1, <2>2, <2>3 DEF Inv
<1>7. CASE EnterGuard
  <2>1. TypeOK'
    BY <1>7 DEF EnterGuard, Inv, TypeOK, ShellKnowsEveryByte
  <2>2. WellFormed(queue)'
    BY <1>7 DEF EnterGuard, Inv, WellFormed
  <2>3. Masked' /\ LockHeldInPop' /\ ByteBehindInterrupt' /\ LocalsSet'
    BY <1>7 DEF EnterGuard, Inv, Masked, LockHeldInPop, ByteBehindInterrupt, LocalsSet
  <2>. QED  BY <2>1, <2>2, <2>3 DEF Inv
<1>8. CASE LockQueue
  <2>1. TypeOK'
    BY <1>8 DEF LockQueue, Inv, TypeOK, ShellKnowsEveryByte
  <2>2. WellFormed(queue)'
    BY <1>8 DEF LockQueue, Inv, WellFormed
  <2>3. Masked' /\ LockHeldInPop' /\ ByteBehindInterrupt' /\ LocalsSet'
    BY <1>8 DEF LockQueue, Inv, Masked, LockHeldInPop, ByteBehindInterrupt, LocalsSet
  <2>. QED  BY <2>1, <2>2, <2>3 DEF Inv
<1>9. CASE PopQueue
  <2>1. WellFormed(queue)'
    BY <1>9, PopWellFormed DEF PopQueue, Inv
  <2>2. Peek(queue) \in Byte
    BY DEF Inv, WellFormed, QueueType, Peek
  <2>3. Append(taken, Peek(queue)) \in Seq(Byte)
    BY <2>2, AppendProperties DEF Inv, TypeOK
  <2>4. TypeOK'
    BY <1>9, <2>1, <2>2, <2>3 DEF PopQueue, Inv, TypeOK, ShellKnowsEveryByte, WellFormed
  <2>5. Masked' /\ LockHeldInPop' /\ ByteBehindInterrupt'
    BY <1>9 DEF PopQueue, Inv, Masked, LockHeldInPop, ByteBehindInterrupt
  <2>6. LocalsSet'
    BY <1>9, <2>2, CodesAreBytes DEF PopQueue, Inv, LocalsSet
  <2>. QED  BY <2>1, <2>4, <2>5, <2>6 DEF Inv
<1>10. CASE TranslateCode
  <2>1. scancode \in Byte /\ shift \in ShiftState
    BY <1>10 DEF TranslateCode, Inv, TypeOK, LocalsSet
  <2>2. /\ shift' \in ShiftState
        /\ byte' \in Printable \cup {BACKSPACE, ENTER, None}
    BY <1>10, <2>1, TranslateType DEF TranslateCode, Translate
  <2>3. main' = IF byte' = None THEN "lock" ELSE "feed"
    BY <1>10 DEF TranslateCode
  <2>4. TypeOK'
    BY <1>10, <2>2, <2>3 DEF TranslateCode, Inv, TypeOK, ShellKnowsEveryByte
  <2>5. WellFormed(queue)'
    BY <1>10 DEF TranslateCode, Inv, WellFormed
  <2>6. Masked' /\ LockHeldInPop' /\ ByteBehindInterrupt' /\ LocalsSet'
    BY <1>10, <2>3 DEF TranslateCode, Inv, Masked, LockHeldInPop, ByteBehindInterrupt, LocalsSet
  <2>. QED  BY <2>4, <2>5, <2>6 DEF Inv
<1>11. CASE FeedByte
  <2>1. byte \in 0 .. 255
    BY <1>11 DEF FeedByte, Inv, TypeOK, ShellKnowsEveryByte, LocalsSet, Printable, BACKSPACE, ENTER
  <2>2. fed' \in Seq(0 .. 255)
    BY <1>11, <2>1, AppendProperties DEF FeedByte, Inv, TypeOK
  <2>3. TypeOK'
    BY <1>11, <2>2 DEF FeedByte, Inv, TypeOK, ShellKnowsEveryByte
  <2>4. WellFormed(queue)'
    BY <1>11 DEF FeedByte, Inv, WellFormed
  <2>5. Masked' /\ LockHeldInPop' /\ ByteBehindInterrupt' /\ LocalsSet'
    BY <1>11 DEF FeedByte, Inv, Masked, LockHeldInPop, ByteBehindInterrupt, LocalsSet
  <2>. QED  BY <2>3, <2>4, <2>5 DEF Inv
<1>12. CASE LeaveGuard
  <2>1. TypeOK'
    BY <1>12 DEF LeaveGuard, Inv, TypeOK, ShellKnowsEveryByte
  <2>2. WellFormed(queue)'
    BY <1>12 DEF LeaveGuard, Inv, WellFormed
  <2>3. Masked' /\ LockHeldInPop' /\ ByteBehindInterrupt' /\ LocalsSet'
    BY <1>12 DEF LeaveGuard, Inv, Masked, LockHeldInPop, ByteBehindInterrupt, LocalsSet
  <2>. QED  BY <2>1, <2>2, <2>3 DEF Inv
<1>13. CASE EnableAndHlt
  <2>1. TypeOK'
    BY <1>13 DEF EnableAndHlt, Inv, TypeOK, ShellKnowsEveryByte
  <2>2. WellFormed(queue)'
    BY <1>13 DEF EnableAndHlt, Inv, WellFormed
  <2>3. Masked' /\ LockHeldInPop' /\ ByteBehindInterrupt' /\ LocalsSet'
    BY <1>13 DEF EnableAndHlt, Inv, Masked, LockHeldInPop, ByteBehindInterrupt, LocalsSet
  <2>. QED  BY <2>1, <2>2, <2>3 DEF Inv
<1>14. CASE UNCHANGED vars
  BY <1>14 DEF vars, Inv, TypeOK, ShellKnowsEveryByte, WellFormed, Masked, LockHeldInPop,
               ByteBehindInterrupt, LocalsSet
<1>. QED
  BY <1>1, <1>2, <1>3, <1>4, <1>5, <1>6, <1>7, <1>8, <1>9, <1>10, <1>11, <1>12, <1>13, <1>14
  DEF Next, HandlerStep, MainStep

(* The inductive invariant holds throughout. *)
THEOREM InputPathInv == Spec => []Inv
BY InitInv, NextInv, PTL DEF Spec

(* Type correctness (TypeOK): in particular every byte handed to           *)
(* shell::feed is printable, Enter or Backspace.                           *)
THEOREM InputPathTypeOK == Spec => []TypeOK
<1>1. Inv => TypeOK
  BY DEF Inv
<1>. QED  BY <1>1, InputPathInv, PTL

(* The spin lock of SCANCODE_QUEUE is never contended                      *)
(* (QueueLockUncontended), whatever the queue's capacity and however many  *)
(* keys are typed at whatever moments: the argument in the comment on      *)
(* next_scancode is right.                                                 *)
THEOREM InputPathLockUncontended == Spec => []QueueLockUncontended
<1>1. Inv => QueueLockUncontended
  BY DEF Inv, Masked, LockHeldInPop, QueueLockUncontended
<1>. QED  BY <1>1, InputPathInv, PTL

-----------------------------------------------------------------------------
(* The codes on their way are the newest ones.                             *)

(* p is what t ends with; PendingIsNewest says it of Pending and typed. *)
EndsWith(t, p) ==
    /\ Len(t) - Len(p) >= 0
    /\ \A i \in 1 .. Len(p) : p[i] = t[Len(t) - Len(p) + i]

(* Both sequences grow by the same element. *)
LEMMA EndsWithAppend ==
  ASSUME NEW S, NEW t \in Seq(S), NEW p \in Seq(S), NEW e \in S, EndsWith(t, p)
  PROVE  EndsWith(Append(t, e), p \o <<e>>)
<1>. DEFINE u == Append(t, e)
            q == p \o <<e>>
<1>1. /\ Len(q) = Len(p) + 1
      /\ \A i \in 1 .. Len(p) + 1 : q[i] = IF i <= Len(p) THEN p[i] ELSE e
  BY ConcatProperties
<1>2. /\ Len(u) = Len(t) + 1
      /\ \A i \in 1 .. Len(t) : u[i] = t[i]
      /\ u[Len(t) + 1] = e
  BY AppendProperties
<1>3. Len(t) \in Nat /\ Len(p) \in Nat
  BY LenProperties
<1>. HIDE DEF u, q
<1>4. ASSUME NEW i \in 1 .. Len(q)
      PROVE  q[i] = u[Len(u) - Len(q) + i]
  <2>1. i \in 1 .. Len(p) + 1 /\ Len(u) - Len(q) + i = Len(t) - Len(p) + i
    BY <1>1, <1>2, <1>3
  <2>2. CASE i <= Len(p)
    <3>1. Len(t) - Len(p) + i \in 1 .. Len(t) /\ i \in 1 .. Len(p)
      BY <1>3, <2>1, <2>2 DEF EndsWith
    <3>. QED  BY <1>1, <1>2, <2>1, <2>2, <3>1 DEF EndsWith
  <2>3. CASE i = Len(p) + 1
    <3>1. Len(t) - Len(p) + i = Len(t) + 1 /\ ~(i <= Len(p))
      BY <1>3, <2>3
    <3>. QED  BY <1>1, <1>2, <2>1, <3>1
  <2>4. i <= Len(p) \/ i = Len(p) + 1
    BY <1>3, <2>1
  <2>. QED  BY <2>2, <2>3, <2>4
<1>5. Len(u) - Len(q) >= 0
  BY <1>1, <1>2, <1>3 DEF EndsWith
<1>6. EndsWith(u, q)
  BY <1>4, <1>5 DEF EndsWith
<1>. QED  BY <1>6 DEF u, q

(* The shorter one loses its first element. *)
LEMMA EndsWithTail ==
  ASSUME NEW S, NEW t \in Seq(S), NEW p \in Seq(S), p # << >>, EndsWith(t, p)
  PROVE  EndsWith(t, Tail(p))
<1>1. /\ Len(Tail(p)) = Len(p) - 1
      /\ \A i \in 1 .. Len(p) - 1 : Tail(p)[i] = p[i + 1]
  BY HeadTailProperties
<1>2. Len(t) \in Nat /\ Len(p) \in Nat
  BY LenProperties
<1>3. ASSUME NEW i \in 1 .. Len(p) - 1
      PROVE  Tail(p)[i] = t[Len(t) - (Len(p) - 1) + i]
  <2>1. i + 1 \in 1 .. Len(p) /\ Len(t) - Len(p) + (i + 1) = Len(t) - (Len(p) - 1) + i
    BY <1>2
  <2>. QED  BY <1>1, <2>1 DEF EndsWith
<1>. QED  BY <1>1, <1>2, <1>3 DEF EndsWith

(* The tail of a concatenation. *)
LEMMA TailOfConcat ==
  ASSUME NEW S, NEW c \in Seq(S), NEW d \in Seq(S), c # << >>
  PROVE  /\ Tail(c \o d) = Tail(c) \o d
         /\ c \o d # << >>
<1>1. /\ c \o d \in Seq(S)
      /\ Len(c \o d) = Len(c) + Len(d)
      /\ \A i \in 1 .. Len(c) + Len(d) : (c \o d)[i] = IF i <= Len(c) THEN c[i] ELSE d[i - Len(c)]
  BY ConcatProperties
<1>2. Len(c) \in Nat /\ Len(d) \in Nat /\ Len(c) > 0
  BY LenProperties, EmptySeq
<1>3. c \o d # << >>
  BY <1>1, <1>2
<1>4. /\ Tail(c) \in Seq(S)
      /\ Len(Tail(c)) = Len(c) - 1
      /\ \A i \in 1 .. Len(c) - 1 : Tail(c)[i] = c[i + 1]
  BY HeadTailProperties
<1>5. /\ Tail(c \o d) \in Seq(S)
      /\ Len(Tail(c \o d)) = Len(c) + Len(d) - 1
      /\ \A i \in 1 .. Len(c) + Len(d) - 1 : Tail(c \o d)[i] = (c \o d)[i + 1]
  BY <1>1, <1>3, HeadTailProperties
<1>6. /\ Tail(c) \o d \in Seq(S)
      /\ Len(Tail(c) \o d) = Len(c) - 1 + Len(d)
      /\ \A i \in 1 .. Len(c) - 1 + Len(d) :
            (Tail(c) \o d)[i] = IF i <= Len(c) - 1 THEN Tail(c)[i] ELSE d[i - (Len(c) - 1)]
  BY <1>4, ConcatProperties
<1>7. ASSUME NEW i \in 1 .. Len(c) + Len(d) - 1
      PROVE  Tail(c \o d)[i] = (Tail(c) \o d)[i]
  <2>1. i + 1 \in 1 .. Len(c) + Len(d) /\ i \in 1 .. Len(c) - 1 + Len(d)
    BY <1>2
  <2>2. CASE i <= Len(c) - 1
    BY <1>1, <1>2, <1>4, <1>5, <1>6, <2>1, <2>2
  <2>3. CASE ~(i <= Len(c) - 1)
    <3>1. (i + 1) - Len(c) = i - (Len(c) - 1) /\ ~(i + 1 <= Len(c))
      BY <1>2, <2>3
    <3>. QED  BY <1>1, <1>5, <1>6, <2>1, <2>3, <3>1
  <2>. QED  BY <2>2, <2>3
<1>8. Len(c) + Len(d) - 1 = Len(c) - 1 + Len(d)
  BY <1>2
<1>. QED  BY <1>3, <1>5, <1>6, <1>7, <1>8, SeqEqual

(* Pending and its three parts are sequences of bytes. *)
LEMMA PendingParts ==
  ASSUME Inv
  PROVE  /\ Contents(queue) \in Seq(Byte)
         /\ (IF handler = "push" THEN <<code>> ELSE << >>) \in Seq(Byte)
         /\ (IF port60 = None THEN << >> ELSE <<port60>>) \in Seq(Byte)
         /\ Pending \in Seq(Byte)
         /\ typed \in Seq(Byte)
<1>1. Contents(queue) \in Seq(Byte)
  BY ContentsSeq DEF Inv
<1>2. (IF handler = "push" THEN <<code>> ELSE << >>) \in Seq(Byte)
  BY CodesAreBytes DEF Inv, TypeOK, ByteBehindInterrupt
<1>3. (IF port60 = None THEN << >> ELSE <<port60>>) \in Seq(Byte)
  BY CodesAreBytes DEF Inv, TypeOK
<1>4. Pending \in Seq(Byte)
  BY <1>1, <1>2, <1>3, ConcatProperties DEF Pending
<1>5. typed \in Seq(Byte)
  BY CodesAreBytes, SeqMonotonic DEF Inv, TypeOK
<1>. QED  BY <1>1, <1>2, <1>3, <1>4, <1>5

(* Every step keeps Pending the end of what was typed. *)
LEMMA NextNewest ==
  ASSUME Inv, EndsWith(typed, Pending), [Next]_vars
  PROVE  EndsWith(typed, Pending)'
<1>. DEFINE c == Contents(queue)
            h == IF handler = "push" THEN <<code>> ELSE << >>
            p == IF port60 = None THEN << >> ELSE <<port60>>
<1>0. /\ c \in Seq(Byte) /\ h \in Seq(Byte) /\ p \in Seq(Byte)
      /\ Pending \in Seq(Byte) /\ typed \in Seq(Byte)
      /\ Pending = (c \o h) \o p
  BY PendingParts DEF Pending
<1>. USE DEF keyboard, devices, locals, statics, translator, history
<1>1. ASSUME NEW sc \in Scancodes, Send(sc) PROVE EndsWith(typed, Pending)'
  <2>1. sc \in Byte /\ sc # None
    BY CodesAreBytes
  <2>2. typed' = Append(typed, sc) /\ p = << >> /\ Pending' = (c \o h) \o <<sc>>
    BY <1>1, <2>1 DEF Send, Pending
  <2>3. c \o h \in Seq(Byte)
    BY <1>0, ConcatProperties
  <2>4. Pending = c \o h
    BY <1>0, <2>2, <2>3, ConcatEmptySeq
  <2>. QED  BY <1>0, <2>1, <2>2, <2>4, EndsWithAppend
<1>2. CASE HandlerRead
  <2>1. port60 # None /\ port60 \in Byte
    BY <1>2, CodesAreBytes DEF HandlerRead, Inv, ByteBehindInterrupt, TypeOK
  <2>2. h = << >> /\ p = <<port60>> /\ Pending' = (c \o <<port60>>) \o << >> /\ typed' = typed
    BY <1>2, <2>1 DEF HandlerRead, Pending
  <2>3. <<port60>> \in Seq(Byte)
    BY <2>1
  <2>4. c \o <<port60>> \in Seq(Byte) /\ c \o << >> = c
    BY <1>0, <2>3, ConcatProperties, ConcatEmptySeq
  <2>5. Pending' = c \o <<port60>>
    BY <2>2, <2>4, ConcatEmptySeq
  <2>6. Pending = c \o <<port60>>
    BY <1>0, <2>2, <2>4
  <2>. QED  BY <2>2, <2>5, <2>6 DEF EndsWith
<1>3. CASE HandlerPush
  <2>1. code \in Byte
    BY <1>3, CodesAreBytes DEF HandlerPush, Inv, TypeOK, ByteBehindInterrupt
  <2>2. h = <<code>> /\ typed' = typed /\ Pending' = (Contents(Push(queue, code)) \o << >>) \o p
    BY <1>3 DEF HandlerPush, Pending
  <2>. DEFINE d == IF Len(c) = Capacity THEN Tail(c) ELSE c
  <2>3. Contents(Push(queue, code)) = Append(d, code)
    BY <2>1, PushContents DEF Inv
  <2>4. Len(c) = Capacity => c # << >>
    BY CapacityAssumption
  <2>5. d \in Seq(Byte)
    BY <1>0, <2>4, HeadTailProperties
  <2>6. Append(d, code) = d \o <<code>> /\ Append(d, code) \in Seq(Byte)
    BY <2>1, <2>5, AppendIsConcat, AppendProperties
  <2>7. Pending' = (d \o <<code>>) \o p
    BY <2>2, <2>3, <2>6, ConcatEmptySeq
  <2>8. CASE Len(c) # Capacity
    <3>1. Pending' = Pending
      BY <1>0, <2>2, <2>7, <2>8
    <3>. QED  BY <2>2, <3>1 DEF EndsWith
  <2>9. CASE Len(c) = Capacity
    <3>1. c # << >> /\ d = Tail(c) /\ <<code>> \in Seq(Byte)
      BY <2>1, <2>4, <2>9
    <3>2. Tail(c \o <<code>>) = Tail(c) \o <<code>> /\ c \o <<code>> # << >>
      BY <1>0, <3>1, TailOfConcat
    <3>3. c \o <<code>> \in Seq(Byte)
      BY <1>0, <3>1, ConcatProperties
    <3>4. Tail((c \o <<code>>) \o p) = Tail(c \o <<code>>) \o p /\ (c \o <<code>>) \o p # << >>
      BY <1>0, <3>2, <3>3, TailOfConcat
    <3>5. Pending' = Tail(Pending) /\ Pending # << >>
      BY <1>0, <2>2, <2>7, <3>1, <3>2, <3>4
    <3>6. EndsWith(typed, Tail(Pending))
      BY <1>0, <3>5, EndsWithTail
    <3>. QED  BY <2>2, <3>5, <3>6 DEF EndsWith
  <2>. QED  BY <2>8, <2>9
<1>4. CASE PopQueue
  <2>1. /\ typed' = typed
        /\ Pending' = (Contents(Pop(queue)) \o h) \o p
    BY <1>4 DEF PopQueue, Pending
  <2>2. CASE queue.len = 0
    <3>1. Pending' = Pending
      BY <1>0, <2>1, <2>2 DEF Pop
    <3>. QED  BY <2>1, <3>1 DEF EndsWith
  <2>3. CASE queue.len # 0
    <3>1. c # << >> /\ Contents(Pop(queue)) = Tail(c)
      BY <2>3, PopContents DEF Inv
    <3>. HIDE DEF c, h, p
    <3>2. Tail(c \o h) = Tail(c) \o h /\ c \o h # << >> /\ c \o h \in Seq(Byte)
      BY <1>0, <3>1, TailOfConcat, ConcatProperties
    <3>3. Tail((c \o h) \o p) = Tail(c \o h) \o p /\ (c \o h) \o p # << >>
      BY <1>0, <3>2, TailOfConcat
    <3>4. Pending' = Tail(Pending) /\ Pending # << >>
      BY <1>0, <2>1, <3>1, <3>2, <3>3
    <3>5. EndsWith(typed, Tail(Pending))
      BY <1>0, <3>4, EndsWithTail
    <3>. QED  BY <2>1, <3>4, <3>5 DEF EndsWith
  <2>. QED  BY <2>2, <2>3
<1>5. ASSUME /\ UNCHANGED <<typed, queue, code, port60>>
             /\ handler' = "push" <=> handler = "push"
      PROVE  EndsWith(typed, Pending)'
  <2>1. Pending' = Pending
    BY <1>5 DEF Pending
  <2>. QED  BY <1>5, <2>1 DEF EndsWith
<1>6. ASSUME NEW k \in Keys, Press(k) \/ Release(k) PROVE EndsWith(typed, Pending)'
  BY <1>1, <1>6, CodesAreBytes DEF Press, Release
<1>7. CASE \/ Interrupt \/ HandlerEoi \/ EnterGuard \/ LockQueue \/ TranslateCode
           \/ FeedByte \/ LeaveGuard \/ EnableAndHlt \/ UNCHANGED vars
  BY <1>5, <1>7
  DEF Interrupt, HandlerEoi, EnterGuard, LockQueue, TranslateCode, FeedByte, LeaveGuard,
      EnableAndHlt, vars
<1>. QED  BY <1>2, <1>3, <1>4, <1>6, <1>7 DEF Next, HandlerStep, MainStep

(* The codes in the queue, the handler and the port are always the newest  *)
(* ones, in order and without a gap (PendingIsNewest): the ring drops only *)
(* its oldest code and nothing else on the way loses or reorders one, for  *)
(* every capacity and any number of key strokes.                           *)
THEOREM InputPathPendingIsNewest == Spec => []PendingIsNewest
<1>1. Init => EndsWith(typed, Pending)
  <2>. SUFFICES ASSUME Init PROVE EndsWith(typed, Pending)
    OBVIOUS
  <2>1. Contents(NewQueue) = << >>
    BY DEF Contents, NewQueue
  <2>2. Pending = << >> /\ typed = << >>
    BY <2>1 DEF Init, Pending
  <2>. QED  BY <2>2 DEF EndsWith
<1>2. EndsWith(typed, Pending) => PendingIsNewest
  BY DEF EndsWith, PendingIsNewest
<1>. QED  BY <1>1, <1>2, NextNewest, InputPathInv, PTL DEF Spec

-----------------------------------------------------------------------------
(* The key of every character.                                             *)

(* The table of ascii_for_make_code read backwards: the make code of each  *)
(* visible ASCII character, from 33 on, and those that need Shift.         *)
MakeCodes ==
    << 2, 40, 4, 5, 6, 8, 40, 10, 11, 9, 13, 51, 12, 52, 53, 11,
       2, 3, 4, 5, 6, 7, 8, 9, 10, 39, 39, 51, 13, 52, 53, 3,
       30, 48, 46, 32, 18, 33, 34, 35, 23, 36, 37, 38, 50, 49, 24, 25,
       16, 19, 31, 20, 22, 47, 17, 45, 21, 44, 26, 43, 27, 7, 12, 41,
       30, 48, 46, 32, 18, 33, 34, 35, 23, 36, 37, 38, 50, 49, 24, 25,
       16, 19, 31, 20, 22, 47, 17, 45, 21, 44, 26, 43, 27, 41 >>
KeyOf(b) == MakeCodes[b - 32]
NeedsShift(b) ==
    \/ b \in 33 .. 38 \/ b \in 40 .. 43 \/ b = 58 \/ b = 60
    \/ b \in 62 .. 90 \/ b \in 94 .. 95 \/ b \in 123 .. 126

(* The keys of a row from the code `first` on are those of its characters. *)
LowerFits(row, first) ==
    \A k \in 1 .. Len(row) :
        row[k] \in 33 .. 126 /\ ~NeedsShift(row[k]) /\ KeyOf(row[k]) = first + k - 1
UpperFits(row, first) ==
    \A k \in 1 .. Len(row) :
        row[k] \in 33 .. 126 /\ NeedsShift(row[k]) /\ KeyOf(row[k]) = first + k - 1

(* Row by row. *)
LEMMA NumberRow ==
  /\ Len(NumberLower) = 12 /\ LowerFits(NumberLower, 2)
  /\ Len(NumberUpper) = 12 /\ UpperFits(NumberUpper, 2)
BY DEF NumberLower, NumberUpper, LowerFits, UpperFits, NeedsShift, KeyOf, MakeCodes

LEMMA TopRow ==
  /\ Len(TopLower) = 12 /\ LowerFits(TopLower, 16)
  /\ Len(TopUpper) = 12 /\ UpperFits(TopUpper, 16)
BY DEF TopLower, TopUpper, LowerFits, UpperFits, NeedsShift, KeyOf, MakeCodes

LEMMA HomeRow ==
  /\ Len(HomeLower) = 12 /\ LowerFits(HomeLower, 30)
  /\ Len(HomeUpper) = 12 /\ UpperFits(HomeUpper, 30)
BY DEF HomeLower, HomeUpper, LowerFits, UpperFits, NeedsShift, KeyOf, MakeCodes

LEMMA BackslashKey ==
  /\ Len(<<92>>) = 1 /\ LowerFits(<<92>>, 43)
  /\ Len(<<124>>) = 1 /\ UpperFits(<<124>>, 43)
BY DEF LowerFits, UpperFits, NeedsShift, KeyOf, MakeCodes

LEMMA BottomRow ==
  /\ Len(BottomLower) = 10 /\ LowerFits(BottomLower, 44)
  /\ Len(BottomUpper) = 10 /\ UpperFits(BottomUpper, 44)
BY DEF BottomLower, BottomUpper, LowerFits, UpperFits, NeedsShift, KeyOf, MakeCodes

(* The rows of the table, each with the keys of its characters. *)
LEMMA RowsFit ==
  ASSUME NEW i \in DOMAIN Rows
  PROVE  /\ Rows[i].first \in 2 .. 44 /\ Len(Rows[i].lower) \in 1 .. 12
         /\ Len(Rows[i].upper) = Len(Rows[i].lower)
         /\ LowerFits(Rows[i].lower, Rows[i].first)
         /\ UpperFits(Rows[i].upper, Rows[i].first)
<1>1. DOMAIN Rows = 1 .. 5
  BY DEF Rows
<1>2. CASE i = 1
  BY <1>2, NumberRow DEF Rows
<1>3. CASE i = 2
  BY <1>3, TopRow DEF Rows
<1>4. CASE i = 3
  BY <1>4, HomeRow DEF Rows
<1>5. CASE i = 4
  BY <1>5, BackslashKey DEF Rows
<1>6. CASE i = 5
  BY <1>6, BottomRow DEF Rows
<1>. QED  BY <1>1, <1>2, <1>3, <1>4, <1>5, <1>6

(* Rows do not overlap, and none has the key of Backspace, Enter or Space. *)
LEMMA RowsApart ==
  /\ \A i, j \in DOMAIN Rows, c \in 0 .. 127 :
        RowHas(Rows[i], c) /\ RowHas(Rows[j], c) => i = j
  /\ \A i \in DOMAIN Rows, c \in 0 .. 127 : RowHas(Rows[i], c) => c \notin {14, 28, 57}
<1>1. DOMAIN Rows = 1 .. 5
  BY DEF Rows
<1>2. /\ Rows[1].first = 2 /\ Len(Rows[1].lower) = 12
      /\ Rows[2].first = 16 /\ Len(Rows[2].lower) = 12
      /\ Rows[3].first = 30 /\ Len(Rows[3].lower) = 12
      /\ Rows[4].first = 43 /\ Len(Rows[4].lower) = 1
      /\ Rows[5].first = 44 /\ Len(Rows[5].lower) = 10
  BY NumberRow, TopRow, HomeRow, BackslashKey, BottomRow DEF Rows
<1>3. ASSUME NEW c \in 0 .. 127
      PROVE  /\ RowHas(Rows[1], c) => 2 <= c /\ c <= 13
             /\ RowHas(Rows[2], c) => 16 <= c /\ c <= 27
             /\ RowHas(Rows[3], c) => 30 <= c /\ c <= 41
             /\ RowHas(Rows[4], c) => c = 43
             /\ RowHas(Rows[5], c) => 44 <= c /\ c <= 53
  BY <1>2 DEF RowHas
<1>4. ASSUME NEW i \in 1 .. 5, NEW j \in 1 .. 5, NEW c \in 0 .. 127,
             RowHas(Rows[i], c), RowHas(Rows[j], c)
      PROVE  i = j /\ c \notin {14, 28, 57}
  <2>1. i \in {1, 2, 3, 4, 5} /\ j \in {1, 2, 3, 4, 5}
    OBVIOUS
  <2>. QED  BY <1>3, <1>4, <2>1
<1>. QED  BY <1>1, <1>4

(* The key in row i types the row's characters. *)
LEMMA RowTypes ==
  ASSUME NEW i \in DOMAIN Rows, NEW c \in 0 .. 127, RowHas(Rows[i], c)
  PROVE  /\ c - Rows[i].first + 1 \in 1 .. Len(Rows[i].lower)
         /\ AsciiForMakeCode(c, FALSE) = Rows[i].lower[c - Rows[i].first + 1]
         /\ AsciiForMakeCode(c, TRUE) = Rows[i].upper[c - Rows[i].first + 1]
<1>. DEFINE j == CHOOSE k \in DOMAIN Rows : RowHas(Rows[k], c)
<1>1. j \in DOMAIN Rows /\ RowHas(Rows[j], c)
  OBVIOUS
<1>2. /\ RowByte(c, FALSE) = Rows[j].lower[c - Rows[j].first + 1]
      /\ RowByte(c, TRUE) = Rows[j].upper[c - Rows[j].first + 1]
  BY DEF RowByte
<1>. HIDE DEF j
<1>3. j = i
  BY <1>1, RowsApart
<1>4. c # 14 /\ c # 28 /\ c # 57
  BY RowsApart
<1>5. c - Rows[i].first + 1 \in 1 .. Len(Rows[i].lower)
  <2>. DEFINE f == Rows[i].first
              l == Len(Rows[i].lower)
  <2>1. f \in 2 .. 44 /\ l \in 1 .. 12 /\ c \in f .. f + l - 1
    BY RowsFit DEF RowHas
  <2>. HIDE DEF f, l
  <2>2. c - f + 1 \in 1 .. l
    BY <2>1
  <2>. QED  BY <2>2 DEF f, l
<1>. QED  BY <1>2, <1>3, <1>4, <1>5 DEF AsciiForMakeCode

(* A key outside the rows types no visible character. *)
LEMMA OutsideRows ==
  ASSUME NEW c \in 0 .. 127, NEW h \in BOOLEAN, ~ \E i \in DOMAIN Rows : RowHas(Rows[i], c)
  PROVE  AsciiForMakeCode(c, h) = IF c = 14 THEN 8 ELSE IF c = 28 THEN 10
                                  ELSE IF c = 57 THEN 32 ELSE None
<1>1. RowByte(c, h) = None
  BY DEF RowByte
<1>. QED  BY <1>1 DEF AsciiForMakeCode, BACKSPACE, ENTER, SPACE

(* A key types a visible character only if it is that character's key, and *)
(* Shift is as the character needs it.                                     *)
LEMMA TypedByItsKey ==
  ASSUME NEW b \in 33 .. 126, NEW c \in 0 .. 127
  PROVE  /\ AsciiForMakeCode(c, FALSE) = b => c = KeyOf(b) /\ ~NeedsShift(b)
         /\ AsciiForMakeCode(c, TRUE) = b => c = KeyOf(b) /\ NeedsShift(b)
<1>1. CASE \E i \in DOMAIN Rows : RowHas(Rows[i], c)
  <2>1. PICK i \in DOMAIN Rows : RowHas(Rows[i], c)
    BY <1>1
  <2>. DEFINE k == c - Rows[i].first + 1
              first == Rows[i].first
              lower == Rows[i].lower
              upper == Rows[i].upper
  <2>2. /\ k \in 1 .. Len(lower) /\ Len(upper) = Len(lower)
        /\ AsciiForMakeCode(c, FALSE) = lower[k]
        /\ AsciiForMakeCode(c, TRUE) = upper[k]
    BY <2>1, RowTypes, RowsFit
  <2>3. first + k - 1 = c
    <3>1. first \in 2 .. 44
      BY RowsFit
    <3>. HIDE DEF first
    <3>2. first + (c - first + 1) - 1 = c
      BY <3>1
    <3>. QED  BY <3>2 DEF first
  <2>4. LowerFits(lower, first) /\ UpperFits(upper, first)
    BY RowsFit
  <2>. HIDE DEF k, first, lower, upper
  <2>5. ~NeedsShift(lower[k]) /\ KeyOf(lower[k]) = c
    BY <2>2, <2>3, <2>4 DEF LowerFits
  <2>6. NeedsShift(upper[k]) /\ KeyOf(upper[k]) = c
    BY <2>2, <2>3, <2>4 DEF UpperFits
  <2>. QED  BY <2>2, <2>5, <2>6
<1>2. CASE ~ \E i \in DOMAIN Rows : RowHas(Rows[i], c)
  <2>1. AsciiForMakeCode(c, FALSE) # b /\ AsciiForMakeCode(c, TRUE) # b
    <3>1. /\ AsciiForMakeCode(c, FALSE) \in {8, 10, 32, None}
          /\ AsciiForMakeCode(c, TRUE) \in {8, 10, 32, None}
      BY <1>2, OutsideRows
    <3>2. b # 8 /\ b # 10 /\ b # 32 /\ b # None
      BY NoneIsNoByte
    <3>. QED  BY <3>1, <3>2
  <2>. QED  BY <2>1
<1>. QED  BY <1>1, <1>2

(* Every visible character stands in the rows. *)
LEMMA CharacterInRows ==
  ASSUME NEW b \in 33 .. 126
  PROVE  \E i \in DOMAIN Rows : \E k \in 1 .. Len(Rows[i].lower) :
            b = Rows[i].lower[k] \/ b = Rows[i].upper[k]
<1>1. DOMAIN Rows = 1 .. 5
  BY DEF Rows
<1>2. /\ Rows[1].lower = NumberLower /\ Rows[1].upper = NumberUpper
      /\ Rows[2].lower = TopLower /\ Rows[2].upper = TopUpper
      /\ Rows[3].lower = HomeLower /\ Rows[3].upper = HomeUpper
      /\ Rows[4].lower = <<92>> /\ Rows[4].upper = <<124>>
      /\ Rows[5].lower = BottomLower /\ Rows[5].upper = BottomUpper
  BY DEF Rows
<1>3. \/ \E k \in 1 .. 12 : b = NumberLower[k] \/ b = NumberUpper[k]
      \/ \E k \in 1 .. 12 : b = TopLower[k] \/ b = TopUpper[k]
      \/ \E k \in 1 .. 12 : b = HomeLower[k] \/ b = HomeUpper[k]
      \/ b = 92 \/ b = 124
      \/ \E k \in 1 .. 10 : b = BottomLower[k] \/ b = BottomUpper[k]
  BY DEF NumberLower, NumberUpper, TopLower, TopUpper, HomeLower, HomeUpper, BottomLower,
     BottomUpper
<1>4. CASE \E k \in 1 .. 12 : b = NumberLower[k] \/ b = NumberUpper[k]
  <2>1. 1 \in DOMAIN Rows /\ Len(Rows[1].lower) = 12
    BY <1>1, <1>2, NumberRow
  <2>. QED  BY <1>2, <1>4, <2>1
<1>5. CASE \E k \in 1 .. 12 : b = TopLower[k] \/ b = TopUpper[k]
  <2>1. 2 \in DOMAIN Rows /\ Len(Rows[2].lower) = 12
    BY <1>1, <1>2, TopRow
  <2>. QED  BY <1>2, <1>5, <2>1
<1>6. CASE \E k \in 1 .. 12 : b = HomeLower[k] \/ b = HomeUpper[k]
  <2>1. 3 \in DOMAIN Rows /\ Len(Rows[3].lower) = 12
    BY <1>1, <1>2, HomeRow
  <2>. QED  BY <1>2, <1>6, <2>1
<1>7. CASE b = 92 \/ b = 124
  BY <1>1, <1>2, <1>7
<1>8. CASE \E k \in 1 .. 10 : b = BottomLower[k] \/ b = BottomUpper[k]
  <2>1. 5 \in DOMAIN Rows /\ Len(Rows[5].lower) = 10
    BY <1>1, <1>2, BottomRow
  <2>. QED  BY <1>2, <1>8, <2>1
<1>. QED  BY <1>3, <1>4, <1>5, <1>6, <1>7, <1>8

(* The key of a visible character types it, with Shift as it needs it. *)
LEMMA KeyTypesIt ==
  ASSUME NEW b \in 33 .. 126
  PROVE  /\ KeyOf(b) \in 0 .. 127
         /\ NeedsShift(b) => AsciiForMakeCode(KeyOf(b), TRUE) = b
         /\ ~NeedsShift(b) => AsciiForMakeCode(KeyOf(b), FALSE) = b
<1>1. PICK i \in DOMAIN Rows : \E k \in 1 .. Len(Rows[i].lower) :
         b = Rows[i].lower[k] \/ b = Rows[i].upper[k]
  BY CharacterInRows
<1>2. PICK k \in 1 .. Len(Rows[i].lower) : b = Rows[i].lower[k] \/ b = Rows[i].upper[k]
  BY <1>1
<1>. DEFINE first == Rows[i].first
            lower == Rows[i].lower
            upper == Rows[i].upper
            c == first + k - 1
<1>3. /\ first \in 2 .. 44 /\ Len(lower) \in 1 .. 12 /\ Len(upper) = Len(lower)
      /\ LowerFits(lower, first) /\ UpperFits(upper, first)
  BY RowsFit
<1>4. c \in 0 .. 127 /\ RowHas(Rows[i], c) /\ c - first + 1 = k
  <2>. DEFINE l == Len(lower)
  <2>1. first \in 2 .. 44 /\ l \in 1 .. 12 /\ k \in 1 .. l
    BY <1>2, <1>3
  <2>. HIDE DEF first, l
  <2>2. /\ first + k - 1 \in 0 .. 127 /\ first + k - 1 \in first .. first + l - 1
        /\ (first + k - 1) - first + 1 = k
    BY <2>1
  <2>. QED  BY <2>2 DEF RowHas, first, l
<1>5. AsciiForMakeCode(c, FALSE) = lower[k] /\ AsciiForMakeCode(c, TRUE) = upper[k]
  <2>. HIDE DEF c
  <2>. QED  BY <1>4, RowTypes
<1>. HIDE DEF lower, upper, first
<1>6. ~NeedsShift(lower[k]) /\ KeyOf(lower[k]) = c
  BY <1>2, <1>3 DEF LowerFits, lower
<1>7. NeedsShift(upper[k]) /\ KeyOf(upper[k]) = c
  BY <1>2, <1>3 DEF UpperFits, lower
<1>8. b = lower[k] \/ b = upper[k]
  BY <1>2 DEF lower, upper
<1>. HIDE DEF c
<1>. QED  BY <1>4, <1>5, <1>6, <1>7, <1>8

(* The keys that type a visible character: its own, with Shift as it needs *)
(* it, and none with the other position of Shift.                          *)
LEMMA KeysForVisible ==
  ASSUME NEW b \in 33 .. 126
  PROVE  /\ NeedsShift(b) => KeysFor(b, TRUE) = {KeyOf(b)} /\ KeysFor(b, FALSE) = {}
         /\ ~NeedsShift(b) => KeysFor(b, TRUE) = {} /\ KeysFor(b, FALSE) = {KeyOf(b)}
<1>1. CASE NeedsShift(b)
  <2>1. /\ \A c \in 0 .. 127 : AsciiForMakeCode(c, FALSE) # b
        /\ \A c \in 0 .. 127 : AsciiForMakeCode(c, TRUE) = b => c = KeyOf(b)
    BY <1>1, TypedByItsKey
  <2>2. KeyOf(b) \in 0 .. 127 /\ AsciiForMakeCode(KeyOf(b), TRUE) = b
    BY <1>1, KeyTypesIt
  <2>. QED  BY <1>1, <2>1, <2>2 DEF KeysFor
<1>2. CASE ~NeedsShift(b)
  <2>1. /\ \A c \in 0 .. 127 : AsciiForMakeCode(c, TRUE) # b
        /\ \A c \in 0 .. 127 : AsciiForMakeCode(c, FALSE) = b => c = KeyOf(b)
    BY <1>2, TypedByItsKey
  <2>2. KeyOf(b) \in 0 .. 127 /\ AsciiForMakeCode(KeyOf(b), FALSE) = b
    BY <1>2, KeyTypesIt
  <2>. QED  BY <1>2, <2>1, <2>2 DEF KeysFor
<1>. QED  BY <1>1, <1>2

(* Space, Enter and Backspace have their keys whatever Shift is. *)
LEMMA KeysForOthers ==
  ASSUME NEW h \in BOOLEAN
  PROVE  KeysFor(32, h) = {57} /\ KeysFor(10, h) = {28} /\ KeysFor(8, h) = {14}
<1>1. ASSUME NEW c \in 0 .. 127, NEW i \in DOMAIN Rows, RowHas(Rows[i], c)
      PROVE  AsciiForMakeCode(c, h) \in 33 .. 126 /\ c \notin {14, 28, 57}
  <2>. DEFINE k == c - Rows[i].first + 1
  <2>1. /\ k \in 1 .. Len(Rows[i].lower)
        /\ AsciiForMakeCode(c, FALSE) = Rows[i].lower[k]
        /\ AsciiForMakeCode(c, TRUE) = Rows[i].upper[k]
    BY <1>1, RowTypes
  <2>. HIDE DEF k
  <2>2. Rows[i].lower[k] \in 33 .. 126 /\ Rows[i].upper[k] \in 33 .. 126
    BY <2>1, RowsFit DEF LowerFits, UpperFits
  <2>3. c \notin {14, 28, 57}
    BY <1>1, RowsApart
  <2>. QED  BY <2>1, <2>2, <2>3
<1>2. ASSUME NEW c \in 0 .. 127
      PROVE  /\ AsciiForMakeCode(c, h) = 32 <=> c = 57
             /\ AsciiForMakeCode(c, h) = 10 <=> c = 28
             /\ AsciiForMakeCode(c, h) = 8 <=> c = 14
  <2>1. CASE \E i \in DOMAIN Rows : RowHas(Rows[i], c)
    <3>1. AsciiForMakeCode(c, h) \in 33 .. 126 /\ c \notin {14, 28, 57}
      BY <1>1, <2>1
    <3>. QED  BY <3>1
  <2>2. CASE ~ \E i \in DOMAIN Rows : RowHas(Rows[i], c)
    <3>1. AsciiForMakeCode(c, h) = IF c = 14 THEN 8 ELSE IF c = 28 THEN 10
                                   ELSE IF c = 57 THEN 32 ELSE None
      BY <2>2, OutsideRows
    <3>. QED  BY <3>1, NoneIsNoByte
  <2>. QED  BY <2>1, <2>2
<1>. QED  BY <1>2 DEF KeysFor

(* The keyboard is complete and unambiguous (EveryCharacterHasOneKey):     *)
(* each visible character has exactly one key and one position of Shift,   *)
(* Space, Enter and Backspace one key in both, whatever was typed before   *)
(* (ascii_for_make_code).                                                  *)
THEOREM KeyboardEveryCharacterHasOneKey == KeyboardSpec => []EveryCharacterHasOneKey
<1>1. KeyboardInit => shift \in ShiftState
  BY DEF KeyboardInit, ShiftState
<1>2. shift \in ShiftState /\ [KeyboardNext]_<<shift, byte>> => (shift \in ShiftState)'
  <2>. SUFFICES ASSUME shift \in ShiftState, [KeyboardNext]_<<shift, byte>>
                PROVE  shift' \in ShiftState
    OBVIOUS
  <2>1. ASSUME NEW sc \in 0 .. 255, Translate(sc) PROVE shift' \in ShiftState
    <3>1. sc \in Byte
      BY DEF Byte
    <3>. QED  BY <2>1, <3>1, TranslateType DEF Translate
  <2>2. CASE UNCHANGED <<shift, byte>>
    BY <2>2
  <2>. QED  BY <2>1, <2>2 DEF KeyboardNext
<1>3. shift \in ShiftState => EveryCharacterHasOneKey
  <2>. SUFFICES ASSUME shift \in ShiftState PROVE EveryCharacterHasOneKey
    OBVIOUS
  <2>. DEFINE now == IsActive(shift)
  <2>1. now = TRUE \/ now = FALSE
    BY DEF IsActive, ShiftState
  <2>2. Cardinality({}) = 0 /\ \A k : Cardinality({k}) = 1
    BY FS_EmptySet, FS_Singleton
  <2>3. ASSUME NEW b \in Printable \ {SPACE}
        PROVE  Cardinality(KeysFor(b, now)) + Cardinality(KeysFor(b, ~now)) = 1
    <3>1. b \in 33 .. 126
      BY DEF Printable, SPACE
    <3>. DEFINE with == Cardinality(KeysFor(b, TRUE))
                without == Cardinality(KeysFor(b, FALSE))
    <3>2. (with = 1 /\ without = 0) \/ (with = 0 /\ without = 1)
      <4>1. \/ KeysFor(b, TRUE) = {KeyOf(b)} /\ KeysFor(b, FALSE) = {}
            \/ KeysFor(b, TRUE) = {} /\ KeysFor(b, FALSE) = {KeyOf(b)}
        BY <3>1, KeysForVisible
      <4>2. Cardinality({KeyOf(b)}) = 1
        BY <2>2
      <4>3. CASE KeysFor(b, TRUE) = {KeyOf(b)} /\ KeysFor(b, FALSE) = {}
        BY <2>2, <4>2, <4>3
      <4>4. CASE KeysFor(b, TRUE) = {} /\ KeysFor(b, FALSE) = {KeyOf(b)}
        BY <2>2, <4>2, <4>4
      <4>. QED  BY <4>1, <4>3, <4>4
    <3>. HIDE DEF now, with, without
    <3>3. with + without = 1 /\ without + with = 1
      BY <3>2
    <3>4. CASE now = TRUE
      BY <3>3, <3>4 DEF with, without
    <3>5. CASE now = FALSE
      BY <3>3, <3>5 DEF with, without
    <3>. QED  BY <2>1, <3>4, <3>5
  <2>4. ASSUME NEW b \in {SPACE, ENTER, BACKSPACE}
        PROVE  Cardinality(KeysFor(b, now)) = 1 /\ KeysFor(b, now) = KeysFor(b, ~now)
    <3>1. b \in {32, 10, 8}
      BY DEF SPACE, ENTER, BACKSPACE
    <3>2. \E k : KeysFor(b, TRUE) = {k} /\ KeysFor(b, FALSE) = {k}
      BY <3>1, KeysForOthers
    <3>. HIDE DEF now
    <3>3. CASE now = TRUE
      BY <2>2, <3>2, <3>3
    <3>4. CASE now = FALSE
      BY <2>2, <3>2, <3>4
    <3>. QED  BY <2>1, <3>3, <3>4
  <2>. QED  BY <2>3, <2>4 DEF EveryCharacterHasOneKey
<1>. QED  BY <1>1, <1>2, <1>3, PTL DEF KeyboardSpec

-----------------------------------------------------------------------------
(* What reaches the shell, and what is lost on the way.                    *)

(* Every byte translate() returns is one shell::feed acts on               *)
(* (ShellKnowsEveryByte), for any sequence of scancodes at all: the table  *)
(* of ascii_for_make_code has no byte outside them.                        *)
THEOREM KeyboardShellKnowsEveryByte == KeyboardSpec => []ShellKnowsEveryByte
<1>. DEFINE Typed == shift \in ShiftState /\ ShellKnowsEveryByte
<1>1. KeyboardInit => Typed
  BY DEF KeyboardInit, ShiftState, ShellKnowsEveryByte
<1>2. Typed /\ [KeyboardNext]_<<shift, byte>> => Typed'
  <2>. SUFFICES ASSUME Typed, [KeyboardNext]_<<shift, byte>> PROVE Typed'
    OBVIOUS
  <2>1. ASSUME NEW sc \in 0 .. 255, Translate(sc) PROVE Typed'
    <3>1. sc \in Byte
      BY DEF Byte
    <3>. QED  BY <2>1, <3>1, TranslateType DEF Translate, ShellKnowsEveryByte
  <2>2. CASE UNCHANGED <<shift, byte>>
    BY <2>2 DEF ShellKnowsEveryByte
  <2>. QED  BY <2>1, <2>2 DEF KeyboardNext
<1>. QED  BY <1>1, <1>2, PTL DEF KeyboardSpec

(* How many codes are on their way. *)
LEMMA PartsLength ==
  ASSUME NEW q, WellFormed(q), NEW hand, NEW c \in Byte, NEW port \in Byte \cup {None}
  PROVE  /\ Len(Contents(q) \o (IF hand THEN <<c>> ELSE << >>)
                            \o (IF port = None THEN << >> ELSE <<port>>))
              = q.len + (IF hand THEN 1 ELSE 0) + (IF port = None THEN 0 ELSE 1)
         /\ q.len \in 0 .. Capacity
<1>. DEFINE h == IF hand THEN <<c>> ELSE << >>
            p == IF port = None THEN << >> ELSE <<port>>
<1>1. Contents(q) \in Seq(Byte) /\ h \in Seq(Byte) /\ p \in Seq(Byte)
  BY ContentsSeq
<1>2. Len(Contents(q)) = q.len /\ q.len \in 0 .. Capacity
  BY ContentsSeq DEF WellFormed, QueueType
<1>3. /\ Len(h) = IF hand THEN 1 ELSE 0
      /\ Len(p) = IF port = None THEN 0 ELSE 1
  OBVIOUS
<1>. HIDE DEF h, p
<1>4. Len((Contents(q) \o h) \o p) = Len(Contents(q)) + Len(h) + Len(p)
  BY <1>1, ConcatProperties
<1>5. Len((Contents(q) \o h) \o p)
        = q.len + (IF hand THEN 1 ELSE 0) + (IF port = None THEN 0 ELSE 1)
  BY <1>2, <1>3, <1>4
<1>. QED  BY <1>2, <1>5 DEF h, p

(* The length of Pending, before a step and after it. *)
LEMMA PendingLength ==
  ASSUME Inv, Inv'
  PROVE  /\ Len(Pending) = queue.len + (IF handler = "push" THEN 1 ELSE 0)
                                     + (IF port60 = None THEN 0 ELSE 1)
         /\ Len(Pending') = queue'.len + (IF handler' = "push" THEN 1 ELSE 0)
                                       + (IF port60' = None THEN 0 ELSE 1)
         /\ queue.len \in 0 .. Capacity /\ queue'.len \in 0 .. Capacity
<1>1. /\ WellFormed(queue) /\ port60 \in Byte \cup {None}
      /\ handler = "push" => code \in Byte
  BY CodesAreBytes DEF Inv, TypeOK, ByteBehindInterrupt
<1>2. /\ WellFormed(queue') /\ port60' \in Byte \cup {None}
      /\ handler' = "push" => code' \in Byte
  BY CodesAreBytes DEF Inv, TypeOK, ByteBehindInterrupt
<1>3. PICK c \in Byte : handler = "push" => c = code
  BY <1>1 DEF Byte
<1>4. PICK d \in Byte : handler' = "push" => d = code'
  BY <1>2 DEF Byte
<1>5. Pending = Contents(queue) \o (IF handler = "push" THEN <<c>> ELSE << >>)
                                \o (IF port60 = None THEN << >> ELSE <<port60>>)
  BY <1>3 DEF Pending
<1>6. Pending' = Contents(queue') \o (IF handler' = "push" THEN <<d>> ELSE << >>)
                                  \o (IF port60' = None THEN << >> ELSE <<port60'>>)
  BY <1>4 DEF Pending
<1>. DEFINE hand == handler = "push"
            handn == handler' = "push"
<1>. HIDE DEF hand, handn
<1>7. /\ Len(Contents(queue) \o (IF hand THEN <<c>> ELSE << >>)
                             \o (IF port60 = None THEN << >> ELSE <<port60>>))
           = queue.len + (IF hand THEN 1 ELSE 0) + (IF port60 = None THEN 0 ELSE 1)
      /\ queue.len \in 0 .. Capacity
  BY <1>1, PartsLength
<1>8. /\ Len(Contents(queue') \o (IF handn THEN <<d>> ELSE << >>)
                              \o (IF port60' = None THEN << >> ELSE <<port60'>>))
           = queue'.len + (IF handn THEN 1 ELSE 0) + (IF port60' = None THEN 0 ELSE 1)
      /\ queue'.len \in 0 .. Capacity
  BY <1>2, PartsLength
<1>. QED  BY <1>5, <1>6, <1>7, <1>8 DEF hand, handn

(* How many codes are no longer on their way: taken or pushed out. *)
Gone == Len(typed) - Len(Pending)

(* The steps of the handler and the idle loop that move no code. *)
Elsewhere ==
    \/ Interrupt \/ HandlerRead \/ HandlerEoi \/ EnterGuard \/ LockQueue \/ TranslateCode
    \/ FeedByte \/ LeaveGuard \/ EnableAndHlt \/ UNCHANGED vars

(* A code is gone by a pop that finds one, or by a push on a full ring;    *)
(* no other step takes a code away, and sending one adds to both sides.    *)
LEMMA GoneStep ==
  ASSUME Inv, Inv'
  PROVE  /\ Gone \in Int /\ Len(typed) \in Nat /\ Len(Pending) \in Nat
         /\ \A sc \in Scancodes : Send(sc) => Gone' = Gone
         /\ HandlerPush => Gone' = IF IsFull(queue) THEN Gone + 1 ELSE Gone
         /\ PopQueue => Gone' = IF queue.len = 0 THEN Gone ELSE Gone + 1
         /\ Elsewhere => Gone' = Gone
<1>0. /\ Len(Pending) = queue.len + (IF handler = "push" THEN 1 ELSE 0)
                                  + (IF port60 = None THEN 0 ELSE 1)
      /\ Len(Pending') = queue'.len + (IF handler' = "push" THEN 1 ELSE 0)
                                    + (IF port60' = None THEN 0 ELSE 1)
      /\ queue.len \in 0 .. Capacity /\ queue'.len \in 0 .. Capacity
  BY PendingLength
<1>. DEFINE m == Len(Pending)
            n == Len(Pending')
            t == Len(typed)
            u == Len(typed')
            k == queue.len
            l == queue'.len
<1>1. m \in Nat /\ n \in Nat /\ k \in Nat /\ l \in Nat
  BY <1>0, CapacityAssumption
<1>2. t \in Nat /\ u \in Nat
  BY LenProperties DEF Inv, TypeOK
<1>3. Gone = t - m /\ Gone' = u - n
  BY DEF Gone
<1>. USE DEF keyboard, devices, locals, statics, translator, history
<1>4. ASSUME NEW sc \in Scancodes, Send(sc) PROVE Gone' = Gone
  <2>1. u = t + 1 /\ n = m + 1
    <3>1. sc # None
      BY CodesAreBytes
    <3>2. u = t + 1
      BY <1>4, AppendProperties DEF Send, Inv, TypeOK
    <3>3. n = m + 1
      BY <1>0, <1>1, <1>4, <3>1 DEF Send
    <3>. QED  BY <3>2, <3>3
  <2>. HIDE DEF m, n, t, u
  <2>. QED  BY <1>1, <1>2, <1>3, <2>1
<1>5. ASSUME HandlerPush PROVE Gone' = IF IsFull(queue) THEN Gone + 1 ELSE Gone
  <2>1. u = t /\ l = IF IsFull(queue) THEN k ELSE k + 1
    BY <1>1, <1>5 DEF HandlerPush, Push
  <2>2. n = IF IsFull(queue) THEN m - 1 ELSE m
    BY <1>0, <1>1, <1>5, <2>1 DEF HandlerPush
  <2>. HIDE DEF m, n, t, u
  <2>. QED  BY <1>1, <1>2, <1>3, <2>1, <2>2
<1>6. ASSUME PopQueue PROVE Gone' = IF queue.len = 0 THEN Gone ELSE Gone + 1
  <2>0. Inv => queue \in QueueType
    BY DEF Inv, WellFormed
  <2>1. u = t /\ l = IF k = 0 THEN k ELSE k - 1
    BY <1>6, <2>0 DEF PopQueue, Pop, QueueType
  <2>2. n = IF k = 0 THEN m ELSE m - 1
    BY <1>0, <1>1, <1>6, <2>1 DEF PopQueue
  <2>. HIDE DEF m, n, t, u
  <2>. QED  BY <1>1, <1>2, <1>3, <2>1, <2>2
<1>7. ASSUME Elsewhere PROVE Gone' = Gone
  <2>1. u = t /\ n = m
    <3>1. CASE HandlerRead
      <4>1. port60 # None
        BY <3>1 DEF HandlerRead, Inv, ByteBehindInterrupt
      <4>. QED  BY <1>0, <1>1, <3>1, <4>1 DEF HandlerRead
    <3>2. CASE ~HandlerRead
      <4>1. UNCHANGED <<typed, queue, port60>> /\ (handler' = "push" <=> handler = "push")
        BY <1>7, <3>2 DEF Elsewhere, Interrupt, HandlerEoi, EnterGuard, LockQueue,
              TranslateCode, FeedByte, LeaveGuard, EnableAndHlt, vars
      <4>. QED  BY <1>0, <4>1
    <3>. QED  BY <3>1, <3>2
  <2>. QED  BY <1>3, <2>1
<1>8. Gone \in Int
  <2>. HIDE DEF m, t
  <2>. QED  BY <1>1, <1>2, <1>3
<1>. QED  BY <1>1, <1>2, <1>4, <1>5, <1>6, <1>7, <1>8

(* Every step is one of those. *)
LEMMA StepKinds ==
  ASSUME Inv, [Next]_vars
  PROVE  \/ \E k \in Keys : Press(k) \/ Release(k)
         \/ HandlerPush \/ PopQueue \/ Elsewhere
BY DEF Next, HandlerStep, MainStep, Elsewhere

(* The codes typed, taken and pushed out account for each other: a code is *)
(* lost only when the handler pushes into a full queue, and then exactly   *)
(* one (LossOnlyWhenFull), for every capacity and any number of keys.      *)
THEOREM InputPathLossOnlyWhenFull == Spec => LossOnlyWhenFull
<1>1. Inv /\ Inv' /\ [Next]_vars =>
        [Lost' # Lost => /\ Lost' = Lost + 1
                         /\ IsFull(queue)
                         /\ handler = "push"]_vars
  <2>. SUFFICES ASSUME Inv, Inv', [Next]_vars, Lost' # Lost
                PROVE  Lost' = Lost + 1 /\ IsFull(queue) /\ handler = "push"
    OBVIOUS
  <2>1. /\ Lost = Gone - Len(taken) /\ Lost' = Gone' - Len(taken')
        /\ Len(taken) \in Nat /\ Gone \in Int
    <3>1. Len(taken) \in Nat /\ Len(taken') \in Nat
      BY LenProperties DEF Inv, TypeOK
    <3>. DEFINE a == Len(typed)
                b == Len(taken)
                c == Len(Pending)
                d == Len(typed')
                e == Len(taken')
                f == Len(Pending')
    <3>2. a \in Nat /\ c \in Nat
      BY GoneStep
    <3>3. d \in Nat /\ f \in Nat
      BY PendingLength, CapacityAssumption, LenProperties DEF Inv, TypeOK
    <3>4. Lost = a - b - c /\ Gone = a - c /\ Lost' = d - e - f /\ Gone' = d - f
      BY DEF Lost, Gone
    <3>. HIDE DEF a, b, c, d, e, f
    <3>5. Lost = Gone - b /\ Lost' = Gone' - e
      BY <3>1, <3>2, <3>3, <3>4 DEF b, e
    <3>. QED  BY <3>1, <3>5, GoneStep DEF b, e
  <2>. USE DEF keyboard, devices, locals, statics, translator, history
  <2>2. ASSUME NEW k \in Keys, Press(k) \/ Release(k) PROVE FALSE
    <3>1. PICK sc \in Scancodes : Send(sc)
      BY <2>2, CodesAreBytes DEF Press, Release
    <3>2. taken' = taken /\ Gone' = Gone
      BY <3>1, GoneStep DEF Send
    <3>. QED  BY <2>1, <3>2
  <2>3. CASE HandlerPush
    <3>1. taken' = taken
      BY <2>3 DEF HandlerPush
    <3>. QED  BY <2>1, <2>3, <3>1, GoneStep DEF HandlerPush
  <2>4. CASE PopQueue
    <3>1. CASE queue.len = 0
      <4>1. taken' = taken /\ Gone' = Gone
        BY <2>4, <3>1, GoneStep DEF PopQueue
      <4>. QED  BY <2>1, <4>1
    <3>2. CASE queue.len # 0
      <4>1. taken' = Append(taken, Peek(queue)) /\ Gone' = Gone + 1
        BY <2>4, <3>2, GoneStep DEF PopQueue
      <4>2. Peek(queue) \in Byte /\ taken \in Seq(Byte)
        BY DEF Inv, TypeOK, QueueType, Peek
      <4>3. Len(taken') = Len(taken) + 1
        BY <4>1, <4>2, AppendProperties
      <4>. QED  BY <2>1, <4>1, <4>3
    <3>. QED  BY <3>1, <3>2
  <2>5. CASE Elsewhere
    <3>1. taken' = taken
      BY <2>5 DEF Elsewhere, Interrupt, HandlerRead, HandlerEoi, EnterGuard, LockQueue,
            TranslateCode, FeedByte, LeaveGuard, EnableAndHlt, vars
    <3>. QED  BY <2>1, <2>5, <3>1, GoneStep
  <2>. QED  BY <2>2, <2>3, <2>4, <2>5, StepKinds
<1>. QED  BY <1>1, InputPathInv, PTL DEF Spec, LossOnlyWhenFull

-----------------------------------------------------------------------------
(* SHIFT and the Shift keys.                                               *)

ShiftKeys == {LEFT_SHIFT_MAKE, RIGHT_SHIFT_MAKE}

(* What a state of SHIFT says of a key. *)
HeldIn(s, k) == IF k = LEFT_SHIFT_MAKE THEN s.left_held ELSE s.right_held

(* SHIFT once the code in hand has been translated. *)
Effective == IF main = "translate" THEN ShiftAfter(shift, scancode) ELSE shift

(* n is the position in t of the last code of k, or 0. *)
LastIs(t, k, n) ==
    /\ n \in 0 .. Len(t)
    /\ n # 0 => t[n] \in {k, k + 128}
    /\ \A j \in n + 1 .. Len(t) : t[j] \notin {k, k + 128}

(* The last code of k tells whether k is down, and so does SHIFT if that   *)
(* code was translated.                                                    *)
KeyAt(k, n) ==
    /\ LastIs(typed, k, n)
    /\ k \in held <=> (n # 0 /\ typed[n] = k)
    /\ (n <= Gone /\ ~Contains(evicted, n)) => (HeldIn(Effective, k) <=> k \in held)

ShiftInv ==
    /\ Gone = Len(taken) + Len(evicted)
    /\ \A k \in ShiftKeys : \E n \in Nat : KeyAt(k, n)

(* translate() follows the codes of a Shift key and no others. *)
LEMMA ShiftFollows ==
  ASSUME NEW s \in ShiftState, NEW sc \in Byte, NEW k \in ShiftKeys
  PROVE  /\ sc = k => HeldIn(ShiftAfter(s, sc), k)
         /\ sc = k + 128 => ~HeldIn(ShiftAfter(s, sc), k)
         /\ sc \notin {k, k + 128} => (HeldIn(ShiftAfter(s, sc), k) <=> HeldIn(s, k))
BY DEF ShiftKeys, HeldIn, ShiftAfter, ShiftState, LEFT_SHIFT_MAKE,
       LEFT_SHIFT_BREAK, RIGHT_SHIFT_MAKE, RIGHT_SHIFT_BREAK

(* The last code of a key as the specification writes it. *)
LEMMA LastIsLastCode ==
  ASSUME NEW k, NEW n \in Nat, Len(typed) \in Nat, DOMAIN typed = 1 .. Len(typed),
         LastIs(typed, k, n)
  PROVE  LastCodeOf(k) = n
<1>. DEFINE at == {i \in DOMAIN typed : typed[i] \in {k, k + 128}}
<1>1. \A i \in at : i \in 1 .. Len(typed) /\ i <= n
  BY DEF LastIs
<1>2. CASE n = 0
  <2>1. at = {}
    BY <1>1, <1>2
  <2>. QED  BY <1>2, <2>1 DEF LastCodeOf
<1>3. CASE n # 0
  <2>1. n \in at
    BY <1>3 DEF LastIs
  <2>. HIDE DEF at
  <2>2. \A i \in at : (\A j \in at : j <= i) <=> i = n
    BY <1>1, <2>1
  <2>3. (CHOOSE i \in at : \A j \in at : j <= i) = n
    BY <2>1, <2>2
  <2>4. LastCodeOf(k) = IF at = {} THEN 0 ELSE CHOOSE i \in at : \A j \in at : j <= i
    BY DEF LastCodeOf, at
  <2>. QED  BY <2>1, <2>3, <2>4
<1>. QED  BY <1>2, <1>3

(* A code of another key does not change which was the last of k. *)
LEMMA LastIsAppend ==
  ASSUME NEW t \in Seq(Byte), NEW sc \in Byte, NEW k, NEW n \in Nat, LastIs(t, k, n)
  PROVE  /\ sc \notin {k, k + 128} =>
              /\ LastIs(Append(t, sc), k, n)
              /\ n # 0 => Append(t, sc)[n] = t[n]
         /\ sc \in {k, k + 128} =>
              /\ LastIs(Append(t, sc), k, Len(t) + 1)
              /\ Append(t, sc)[Len(t) + 1] = sc
<1>. DEFINE u == Append(t, sc)
<1>1. /\ Len(u) = Len(t) + 1 /\ Len(t) \in Nat
      /\ \A i \in 1 .. Len(t) : u[i] = t[i]
      /\ u[Len(t) + 1] = sc
  BY AppendProperties, LenProperties
<1>. HIDE DEF u
<1>2. ASSUME sc \notin {k, k + 128}
      PROVE  LastIs(u, k, n) /\ (n # 0 => u[n] = t[n])
  <2>1. n # 0 => u[n] = t[n]
    BY <1>1 DEF LastIs
  <2>2. ASSUME NEW j \in n + 1 .. Len(t) + 1 PROVE u[j] \notin {k, k + 128}
    <3>1. CASE j = Len(t) + 1
      BY <1>1, <1>2, <3>1
    <3>2. CASE j # Len(t) + 1
      <4>1. j \in n + 1 .. Len(t) /\ j \in 1 .. Len(t)
        BY <1>1, <2>2, <3>2
      <4>. QED  BY <1>1, <4>1 DEF LastIs
    <3>. QED  BY <3>1, <3>2
  <2>3. n \in 0 .. Len(t) + 1
    BY <1>1 DEF LastIs
  <2>. QED  BY <1>1, <2>1, <2>2, <2>3 DEF LastIs
<1>3. ASSUME sc \in {k, k + 128}
      PROVE  LastIs(u, k, Len(t) + 1)
  BY <1>1, <1>3 DEF LastIs
<1>. QED  BY <1>1, <1>2, <1>3 DEF u

(* The code a pop takes is the oldest one that was on its way. *)
LEMMA PeekIsTyped ==
  ASSUME Inv, EndsWith(typed, Pending), queue.len # 0
  PROVE  /\ Peek(queue) = typed[Gone + 1]
         /\ Gone \in Nat /\ Gone + 1 \in 1 .. Len(typed)
         /\ Peek(queue) \in Byte
<1>. DEFINE c == Contents(queue)
            h == IF handler = "push" THEN <<code>> ELSE << >>
            p == IF port60 = None THEN << >> ELSE <<port60>>
<1>1. /\ c \in Seq(Byte) /\ h \in Seq(Byte) /\ p \in Seq(Byte)
      /\ Pending \in Seq(Byte) /\ typed \in Seq(Byte)
      /\ Pending = (c \o h) \o p
  BY PendingParts DEF Pending
<1>2. c # << >> /\ Peek(queue) = Head(c)
  BY PopContents DEF Inv
<1>. HIDE DEF c, h, p
<1>3. Len(c) \in Nat /\ Len(c) > 0 /\ Len(h) \in Nat /\ Len(p) \in Nat /\ Head(c) = c[1]
  BY <1>1, <1>2, LenProperties, EmptySeq, HeadTailProperties
<1>4. /\ c \o h \in Seq(Byte) /\ Len(c \o h) = Len(c) + Len(h)
      /\ (c \o h)[1] = c[1]
  BY <1>1, <1>3, ConcatProperties
<1>5. /\ Len(Pending) = Len(c) + Len(h) + Len(p)
      /\ Pending[1] = c[1]
  BY <1>1, <1>3, <1>4, ConcatProperties
<1>6. Len(typed) \in Nat /\ Len(Pending) \in Nat /\ 1 \in 1 .. Len(Pending)
  BY <1>1, <1>3, <1>5, LenProperties
<1>7. Pending[1] = typed[Len(typed) - Len(Pending) + 1] /\ Len(typed) - Len(Pending) >= 0
  BY <1>6 DEF EndsWith
<1>8. Peek(queue) \in Byte
  BY DEF Inv, TypeOK, QueueType, Peek
<1>. QED  BY <1>2, <1>3, <1>5, <1>6, <1>7, <1>8 DEF Gone

(* What was pushed out stays on record. *)
LEMMA ContainsAppend ==
  ASSUME NEW s \in Seq(Nat), NEW e \in Nat
  PROVE  /\ Contains(Append(s, e), e)
         /\ \A n : Contains(s, n) => Contains(Append(s, e), n)
<1>1. /\ Len(Append(s, e)) = Len(s) + 1 /\ Len(s) \in Nat
      /\ \A i \in 1 .. Len(s) : Append(s, e)[i] = s[i]
      /\ Append(s, e)[Len(s) + 1] = e
  BY AppendProperties, LenProperties
<1>. QED  BY <1>1 DEF Contains

(* A step that changes neither the codes nor what SHIFT amounts to. *)
LEMMA KeyAtKept ==
  ASSUME NEW k, NEW n, KeyAt(k, n), Gone' = Gone, Effective' = Effective,
         UNCHANGED <<typed, held, evicted>>
  PROVE  KeyAt(k, n)'
BY DEF KeyAt, LastIs, Contains, HeldIn

(* Every step keeps the account of the codes and of the Shift keys. *)
LEMMA ShiftInvNext ==
  ASSUME Inv, Inv', EndsWith(typed, Pending), ShiftInv, [Next]_vars
  PROVE  ShiftInv'
<1>0. /\ typed \in Seq(Byte) /\ typed' \in Seq(Byte) /\ evicted \in Seq(Nat)
      /\ Len(typed) \in Nat /\ Len(taken) \in Nat /\ Len(evicted) \in Nat
      /\ Gone \in Nat
  <2>1. typed \in Seq(Byte) /\ typed' \in Seq(Byte)
    BY CodesAreBytes, SeqMonotonic DEF Inv, TypeOK
  <2>2. Len(typed) \in Nat /\ Len(taken) \in Nat /\ Len(evicted) \in Nat
    BY LenProperties DEF Inv, TypeOK
  <2>. QED  BY <2>1, <2>2 DEF Inv, TypeOK, ShiftInv
<1>. USE DEF keyboard, devices, locals, statics, translator, history
<1>1. ASSUME NEW key \in Keys, Press(key) \/ Release(key) PROVE ShiftInv'
  <2>1. PICK sc \in Byte : /\ Send(sc) /\ sc \in Scancodes
                           /\ \/ sc = key /\ held' = held \cup {key}
                              \/ sc = key + 128 /\ held' = held \ {key}
    BY <1>1, CodesAreBytes DEF Press, Release
  <2>2. /\ typed' = Append(typed, sc) /\ UNCHANGED <<main, shift, scancode, taken, evicted>>
        /\ Gone' = Gone
    BY <2>1, GoneStep DEF Send
  <2>3. Effective' = Effective
    BY <2>2 DEF Effective
  <2>4. key \in 0 .. 127
    BY CodesAreBytes
  <2>5. ASSUME NEW k \in ShiftKeys PROVE \E n \in Nat : KeyAt(k, n)'
    <3>1. PICK n \in Nat : KeyAt(k, n)
      BY DEF ShiftInv
    <3>2. k \in {42, 54}
      BY DEF ShiftKeys, LEFT_SHIFT_MAKE, RIGHT_SHIFT_MAKE
    <3>3. LastIs(typed, k, n)
      BY <3>1 DEF KeyAt
    <3>4. CASE sc \notin {k, k + 128}
      <4>0. /\ LastIs(Append(typed, sc), k, n)
            /\ n # 0 => Append(typed, sc)[n] = typed[n]
        BY <1>0, <3>3, <3>4, LastIsAppend
      <4>1. LastIs(typed', k, n) /\ (n # 0 => typed'[n] = typed[n])
        BY <2>2, <4>0
      <4>2. k \in held' <=> k \in held
        BY <2>1, <3>4
      <4>3. KeyAt(k, n)'
        BY <2>2, <2>3, <3>1, <4>1, <4>2 DEF KeyAt, HeldIn, Contains, LastIs
      <4>. QED  BY <4>3
    <3>5. CASE sc \in {k, k + 128}
      <4>1. LastIs(typed', k, Len(typed) + 1) /\ typed'[Len(typed) + 1] = sc
        BY <1>0, <2>1, <2>2, <3>3, <3>5, LastIsAppend
      <4>2. k \in held' <=> sc = k
        BY <2>1, <2>4, <3>2, <3>5
      <4>3. ~(Len(typed) + 1 <= Gone)
        BY <1>0, GoneStep DEF Gone
      <4>4. PICK m \in Nat : m = Len(typed) + 1
        BY <1>0
      <4>5. KeyAt(k, m)'
        BY <1>0, <2>2, <4>1, <4>2, <4>3, <4>4 DEF KeyAt, LastIs
      <4>. QED  BY <4>5
    <3>. QED  BY <3>4, <3>5
  <2>. QED  BY <2>2, <2>5 DEF ShiftInv
<1>2. CASE HandlerPush
  <2>1. Effective' = Effective /\ UNCHANGED <<typed, held, taken>>
    BY <1>2 DEF HandlerPush, Effective
  <2>2. CASE ~IsFull(queue)
    <3>1. evicted' = evicted /\ Gone' = Gone
      BY <1>2, <2>2, GoneStep DEF HandlerPush
    <3>. QED  BY <2>1, <3>1, KeyAtKept DEF ShiftInv
  <2>3. CASE IsFull(queue)
    <3>1. evicted' = Append(evicted, Gone + 1) /\ Gone' = Gone + 1
      BY <1>2, <2>3, GoneStep DEF HandlerPush, ShiftInv
    <3>2. /\ Len(evicted') = Len(evicted) + 1
          /\ Contains(evicted', Gone + 1)
          /\ \A n : Contains(evicted, n) => Contains(evicted', n)
      BY <1>0, <3>1, ContainsAppend, AppendProperties
    <3>3. ASSUME NEW k \in ShiftKeys, NEW n \in Nat, KeyAt(k, n) PROVE KeyAt(k, n)'
      <4>1. (n <= Gone' /\ ~Contains(evicted', n)) => n <= Gone /\ ~Contains(evicted, n)
        BY <1>0, <3>1, <3>2
      <4>. QED  BY <2>1, <3>3, <4>1 DEF KeyAt, LastIs, HeldIn
    <3>. QED  BY <1>0, <2>1, <3>1, <3>2, <3>3 DEF ShiftInv
  <2>. QED  BY <2>2, <2>3
<1>3. CASE PopQueue
  <2>1. UNCHANGED <<typed, held, evicted, shift>> /\ main = "pop" /\ Effective = shift
    BY <1>3 DEF PopQueue, Effective
  <2>2. CASE queue.len = 0
    <3>1. taken' = taken /\ Gone' = Gone /\ Effective' = Effective
      BY <1>3, <2>1, <2>2, GoneStep DEF PopQueue, Effective
    <3>. QED  BY <2>1, <3>1, KeyAtKept DEF ShiftInv
  <2>3. CASE queue.len # 0
    <3>. DEFINE sc == Peek(queue)
    <3>1. /\ sc = typed[Gone + 1] /\ Gone + 1 \in 1 .. Len(typed) /\ sc \in Byte
      BY <2>3, PeekIsTyped
    <3>2. /\ taken' = Append(taken, sc) /\ Gone' = Gone + 1
          /\ Effective' = ShiftAfter(shift, sc)
      BY <1>3, <2>1, <2>3, GoneStep DEF PopQueue, Effective
    <3>. HIDE DEF sc
    <3>3. Len(taken') = Len(taken) + 1
      BY <3>1, <3>2, AppendProperties DEF Inv, TypeOK
    <3>4. shift \in ShiftState
      BY DEF Inv, TypeOK
    <3>5. ASSUME NEW k \in ShiftKeys, NEW n \in Nat, KeyAt(k, n) PROVE KeyAt(k, n)'
      <4>1. k \in {42, 54}
        BY DEF ShiftKeys, LEFT_SHIFT_MAKE, RIGHT_SHIFT_MAKE
      <4>2. ASSUME n <= Gone + 1, ~Contains(evicted, n)
            PROVE  HeldIn(Effective', k) <=> k \in held
        <5>1. CASE n = Gone + 1
          <6>1. sc \in {k, k + 128} /\ (k \in held <=> sc = k)
            BY <1>0, <3>1, <3>5, <5>1 DEF KeyAt, LastIs
          <6>2. k # k + 128
            BY <4>1
          <6>. QED  BY <3>1, <3>2, <3>4, <6>1, <6>2, ShiftFollows
        <5>2. CASE n # Gone + 1
          <6>1. n <= Gone /\ Gone + 1 \in n + 1 .. Len(typed)
            BY <1>0, <3>1, <4>2, <5>2
          <6>2. sc \notin {k, k + 128}
            BY <3>1, <3>5, <6>1 DEF KeyAt, LastIs
          <6>3. HeldIn(shift, k) <=> k \in held
            BY <2>1, <3>5, <4>2, <6>1 DEF KeyAt
          <6>. QED  BY <3>1, <3>2, <3>4, <6>2, <6>3, ShiftFollows
        <5>. QED  BY <5>1, <5>2
      <4>. QED  BY <2>1, <3>2, <3>5, <4>2 DEF KeyAt, LastIs, Contains, HeldIn
    <3>. QED  BY <1>0, <2>1, <3>2, <3>3, <3>5 DEF ShiftInv
  <2>. QED  BY <2>2, <2>3
<1>4. CASE Elsewhere
  <2>1. Gone' = Gone
    BY <1>4, GoneStep
  <2>2. UNCHANGED <<typed, held, evicted, taken>>
    BY <1>4 DEF Elsewhere, Interrupt, HandlerRead, HandlerEoi, EnterGuard, LockQueue,
          TranslateCode, FeedByte, LeaveGuard, EnableAndHlt, vars
  <2>3. Effective' = Effective
    <3>1. CASE TranslateCode
      BY <3>1 DEF TranslateCode, Translate, Effective
    <3>2. CASE ~TranslateCode
      BY <1>4, <3>2 DEF Elsewhere, Interrupt, HandlerRead, HandlerEoi, EnterGuard, LockQueue,
            FeedByte, LeaveGuard, EnableAndHlt, vars, Effective
    <3>. QED  BY <3>1, <3>2
  <2>. QED  BY <2>1, <2>2, <2>3, KeyAtKept DEF ShiftInv
<1>. QED  BY <1>1, <1>2, <1>3, <1>4, StepKinds

(* The account of the codes and of the Shift keys holds throughout. *)
LEMMA InputPathShiftInv == Spec => []ShiftInv
<1>1. Init => ShiftInv
  <2>. SUFFICES ASSUME Init PROVE ShiftInv
    OBVIOUS
  <2>1. Contents(NewQueue) = << >>
    BY DEF Contents, NewQueue
  <2>2. Pending = << >> /\ typed = << >> /\ evicted = << >> /\ taken = << >> /\ held = {}
    BY <2>1 DEF Init, Pending
  <2>3. Effective = [left_held |-> FALSE, right_held |-> FALSE]
    BY DEF Init, KeyboardInit, Effective
  <2>4. Gone = 0
    BY <2>2 DEF Gone
  <2>5. \A k \in ShiftKeys : KeyAt(k, 0)
    BY <2>2, <2>3, <2>4 DEF KeyAt, LastIs, HeldIn
  <2>. QED  BY <2>2, <2>4, <2>5 DEF ShiftInv
<1>2. PendingIsNewest => EndsWith(typed, Pending)
  BY DEF EndsWith, PendingIsNewest
<1>. QED  BY <1>1, <1>2, ShiftInvNext, InputPathInv, InputPathPendingIsNewest, PTL DEF Spec

(* SHIFT heals (ShiftWrongOnlyAfterLoss), for every capacity of the queue  *)
(* and any number of key strokes: when all is worked off, SHIFT is wrong   *)
(* about a Shift key only if the last code of that very key was pushed     *)
(* out.  The invariant says where the last code of each Shift key is and   *)
(* what SHIFT will be once the code in hand has been translated.           *)
THEOREM InputPathShiftWrongOnlyAfterLoss == Spec => []ShiftWrongOnlyAfterLoss
<1>1. Inv /\ ShiftInv => ShiftWrongOnlyAfterLoss
  <2>. SUFFICES ASSUME Inv, ShiftInv, Quiet PROVE ShiftWrongOnlyAfterLoss
    BY DEF ShiftWrongOnlyAfterLoss
  <2>1. Effective = shift /\ Pending = << >>
    BY DEF Quiet, Effective
  <2>2. Len(typed) \in Nat /\ DOMAIN typed = 1 .. Len(typed)
    BY LenProperties DEF Inv, TypeOK
  <2>3. Gone = Len(typed)
    BY <2>1, <2>2 DEF Gone
  <2>4. ASSUME NEW k \in ShiftKeys
        PROVE  (HeldIn(shift, k) <=> k \in held) \/ Contains(evicted, LastCodeOf(k))
    <3>1. PICK n \in Nat : KeyAt(k, n)
      BY DEF ShiftInv
    <3>2. LastIs(typed, k, n) /\ n <= Gone
      BY <2>2, <2>3, <3>1 DEF KeyAt, LastIs
    <3>3. LastCodeOf(k) = n
      BY <2>2, <3>2, LastIsLastCode
    <3>. QED  BY <2>1, <3>1, <3>2, <3>3 DEF KeyAt
  <2>5. /\ HeldIn(shift, LEFT_SHIFT_MAKE) = shift.left_held
        /\ HeldIn(shift, RIGHT_SHIFT_MAKE) = shift.right_held
    BY DEF HeldIn, LEFT_SHIFT_MAKE, RIGHT_SHIFT_MAKE
  <2>6. shift.left_held \in BOOLEAN /\ shift.right_held \in BOOLEAN
    BY DEF Inv, TypeOK, ShiftState
  <2>. QED  BY <2>4, <2>5, <2>6 DEF ShiftKeys, ShiftWrongOnlyAfterLoss
<1>. QED  BY <1>1, InputPathShiftInv, InputPathInv, PTL

-----------------------------------------------------------------------------
(* Sleep.                                                                  *)

(* The codes an interrupt announced to the idle loop are gone, queued or   *)
(* in the handler's hands, and gone once the loop has found its queue      *)
(* empty.                                                                  *)
InHand == IF handler \in {"read", "push"} THEN 1 ELSE 0

DueInv ==
    /\ due <= Gone + queue.len + InHand
    /\ main \in {"restore", "sti", "hlt"} => due <= Gone

LEMMA DueInvNext ==
  ASSUME Inv, Inv', [Next]_vars, DueInv
  PROVE  DueInv'
<1>0. /\ queue.len \in Nat /\ queue'.len \in Nat /\ Gone \in Int
      /\ due \in Nat /\ due' \in Nat
      /\ InHand \in {0, 1} /\ InHand' \in {0, 1}
  <2>1. queue.len \in Nat /\ queue'.len \in Nat
    BY PendingLength, CapacityAssumption
  <2>2. due \in Nat /\ due' \in Nat
    BY DEF Inv, TypeOK
  <2>. QED  BY <2>1, <2>2, GoneStep DEF InHand
<1>. USE DEF keyboard, devices, locals, statics, translator, history
<1>1. ASSUME NEW sc \in Scancodes, Send(sc) PROVE DueInv'
  <2>1. Gone' = Gone /\ UNCHANGED <<due, queue, handler, main>>
    BY <1>1, GoneStep DEF Send
  <2>. QED  BY <2>1 DEF DueInv, InHand
<1>2. CASE Interrupt
  <2>1. Gone' = Gone /\ queue' = queue /\ handler = "none" /\ InHand' = 1
    BY <1>2, GoneStep DEF Interrupt, Elsewhere, InHand
  <2>2. Len(typed) = Gone + queue.len + 1
    <3>1. port60 # None
      BY <1>2 DEF Interrupt, Inv, ByteBehindInterrupt
    <3>2. Len(Pending) = queue.len + 1
      BY <1>0, <2>1, <3>1, PendingLength
    <3>. DEFINE t == Len(typed)
                m == Len(Pending)
    <3>3. t \in Nat /\ m \in Nat /\ Gone = t - m /\ m = queue.len + 1
      BY <3>2, GoneStep DEF Gone
    <3>. HIDE DEF t, m
    <3>4. t = Gone + queue.len + 1
      BY <1>0, <3>3
    <3>. QED  BY <3>4 DEF t
  <2>3. CASE main \in {"guard", "hlt"}
    <3>1. due' = Len(typed) /\ main' = "guard"
      BY <1>2, <2>3 DEF Interrupt
    <3>. QED  BY <1>0, <2>1, <2>2, <3>1 DEF DueInv
  <2>4. CASE main \notin {"guard", "hlt"}
    <3>1. due' = due /\ main' = main
      BY <1>2, <2>4 DEF Interrupt
    <3>2. due <= Gone + queue.len + InHand /\ InHand = 0
      BY <2>1 DEF DueInv, InHand
    <3>. QED  BY <1>0, <2>1, <3>1, <3>2 DEF DueInv
  <2>. QED  BY <2>3, <2>4
<1>3. CASE HandlerPush
  <2>1. /\ InHand = 1 /\ InHand' = 0 /\ due' = due /\ main' = main
        /\ Gone' = IF IsFull(queue) THEN Gone + 1 ELSE Gone
        /\ queue'.len = IF IsFull(queue) THEN queue.len ELSE queue.len + 1
    <3>1. queue'.len = IF IsFull(queue) THEN queue.len ELSE queue.len + 1
      BY <1>0, <1>3 DEF HandlerPush, Push
    <3>. QED  BY <1>3, <3>1, GoneStep DEF HandlerPush, InHand
  <2>2. Gone' + queue'.len = Gone + queue.len + 1 /\ Gone' >= Gone /\ Gone' \in Int
    BY <1>0, <2>1
  <2>. QED  BY <1>0, <2>1, <2>2 DEF DueInv
<1>4. CASE PopQueue
  <2>1. InHand = 0 /\ InHand' = 0 /\ due' = due
    BY <1>4 DEF PopQueue, InHand
  <2>2. CASE queue.len = 0
    <3>1. Gone' = Gone /\ queue'.len = 0
      BY <1>4, <2>2, GoneStep DEF PopQueue, Pop
    <3>. QED  BY <1>0, <2>1, <2>2, <3>1 DEF DueInv
  <2>3. CASE queue.len # 0
    <3>1. Gone' = Gone + 1 /\ main' = "translate"
      BY <1>4, <2>3, GoneStep DEF PopQueue
    <3>2. queue'.len = queue.len - 1
      BY <1>4, <2>3 DEF PopQueue, Pop
    <3>. QED  BY <1>0, <2>1, <3>1, <3>2 DEF DueInv
  <2>. QED  BY <2>2, <2>3
<1>5. CASE Elsewhere /\ ~Interrupt
  <2>1. Gone' = Gone /\ due' = due /\ queue' = queue
    BY <1>5, GoneStep DEF Elsewhere, HandlerRead, HandlerEoi, EnterGuard, LockQueue,
          TranslateCode, FeedByte, LeaveGuard, EnableAndHlt, vars
  <2>2. InHand' = InHand
    BY <1>5 DEF Elsewhere, HandlerRead, HandlerEoi, EnterGuard, LockQueue,
          TranslateCode, FeedByte, LeaveGuard, EnableAndHlt, vars, InHand
  <2>3. main' \in {"restore", "sti", "hlt"} => main \in {"restore", "sti", "hlt"}
    BY <1>5 DEF Elsewhere, HandlerRead, HandlerEoi, EnterGuard, LockQueue,
          TranslateCode, FeedByte, LeaveGuard, EnableAndHlt, vars
  <2>. QED  BY <2>1, <2>2, <2>3 DEF DueInv
<1>6. ASSUME NEW k \in Keys, Press(k) \/ Release(k) PROVE DueInv'
  <2>1. PICK sc \in Scancodes : Send(sc)
    BY <1>6, CodesAreBytes DEF Press, Release
  <2>. QED  BY <1>1, <2>1
<1>. QED  BY <1>2, <1>3, <1>4, <1>5, <1>6, StepKinds

(* The CPU sleeps only when every code is worked off whose interrupt came  *)
(* while it slept or before the loop masked interrupts                     *)
(* (SleepsOnlyWhenWorkedOff), for every capacity and any number of keys:   *)
(* the only key ever slept on is one that strikes between the end of       *)
(* without_interrupts and hlt.                                             *)
THEOREM InputPathSleepsOnlyWhenWorkedOff == Spec => []SleepsOnlyWhenWorkedOff
<1>1. Init => DueInv
  <2>. SUFFICES ASSUME Init PROVE DueInv
    OBVIOUS
  <2>1. Inv /\ due = 0 /\ main = "guard" /\ handler = "none" /\ queue.len = 0
    BY InitInv DEF Init, NewQueue
  <2>2. Contents(NewQueue) = << >>
    BY DEF Contents, NewQueue
  <2>4. Pending = << >> /\ typed = << >>
    BY <2>2 DEF Init, Pending
  <2>3. Gone = 0
    BY <2>4 DEF Gone
  <2>. QED  BY <2>1, <2>3 DEF DueInv, InHand
<1>2. Inv /\ Inv' /\ [Next]_vars /\ DueInv => DueInv'
  BY DueInvNext
<1>3. Spec => []DueInv
  BY <1>1, <1>2, InputPathInv, PTL DEF Spec
<1>4. DueInv /\ ShiftInv => SleepsOnlyWhenWorkedOff
  BY DEF DueInv, ShiftInv, SleepsOnlyWhenWorkedOff, WorkedOff
<1>. QED  BY <1>3, <1>4, InputPathShiftInv, PTL

-----------------------------------------------------------------------------
(* The text the user means and the bytes the shell gets.                   *)

NoShift == [left_held |-> FALSE, right_held |-> FALSE]

(* t types the text x: sh[i] is the state of the Shift keys after i codes, *)
(* f[i] the length of the text by then.                                    *)
Types(t, x, sh, f) ==
    /\ sh \in [0 .. Len(t) -> ShiftState] /\ sh[0] = NoShift
    /\ f \in [0 .. Len(t) -> 0 .. Len(x)] /\ f[0] = 0 /\ f[Len(t)] = Len(x)
    /\ \A i \in 1 .. Len(t) :
          /\ sh[i] = ShiftAfter(sh[i - 1], t[i])
          /\ ByteFor(sh[i - 1], t[i]) = None => f[i] = f[i - 1]
          /\ ByteFor(sh[i - 1], t[i]) # None =>
                f[i] = f[i - 1] + 1 /\ x[f[i]] = ByteFor(sh[i - 1], t[i])

(* The codes the idle loop has translated. *)
Translated == IF main = "translate" THEN Gone - 1 ELSE Gone

(* The idle loop has done with the codes it has translated what the user   *)
(* meant by them.                                                          *)
Follows(sh, f) ==
    /\ Translated \in 0 .. Len(typed)
    /\ shift = sh[Translated]
    /\ main = "translate" => scancode = typed[Gone]
    /\ Len(fed) = IF main = "feed" THEN f[Translated] - 1 ELSE f[Translated]
    /\ main = "feed" => byte = text[f[Translated]]
    /\ \A i \in 1 .. Len(fed) : fed[i] = text[i]

TextInv ==
    \E sh, f :
        /\ Types(typed, text, sh, f)
        /\ \A k \in ShiftKeys : HeldIn(sh[Len(typed)], k) <=> k \in held
        /\ evicted = << >> => Follows(sh, f)

(* The text x with the byte b, if there is one. *)
With(x, b) == IF b = None THEN x ELSE Append(x, b)

(* sh2 and f2 say of n + 1 codes what sh and f say of the first n. *)
TypesMore(sh, f, n, sc, sh2, f2) ==
    /\ sh2[n + 1] = ShiftAfter(sh[n], sc)
    /\ \A i \in 0 .. n : sh2[i] = sh[i] /\ f2[i] = f[i]

(* One more code and its byte, if it has one. *)
LEMMA TypesAppend ==
  ASSUME NEW t \in Seq(Byte), NEW x \in Seq(0 .. 255), NEW sh, NEW f, Types(t, x, sh, f),
         NEW sc \in Byte, NEW y \in Seq(0 .. 255), NEW n \in Nat, n = Len(t),
         y = With(x, ByteFor(sh[n], sc))
  PROVE  /\ \E sh2, f2 : Types(Append(t, sc), y, sh2, f2) /\ TypesMore(sh, f, n, sc, sh2, f2)
         /\ \A i \in 1 .. Len(x) : y[i] = x[i]
         /\ Len(x) <= Len(y)
<1>. DEFINE u == Append(t, sc)
            b == ByteFor(sh[n], sc)
<1>1. /\ Len(u) = n + 1 /\ u[n + 1] = sc
      /\ \A i \in 1 .. n : u[i] = t[i]
  BY AppendProperties
<1>2. /\ sh \in [0 .. n -> ShiftState] /\ sh[0] = NoShift
      /\ f \in [0 .. n -> 0 .. Len(x)] /\ f[0] = 0 /\ f[n] = Len(x)
      /\ \A i \in 1 .. n :
            /\ sh[i] = ShiftAfter(sh[i - 1], t[i])
            /\ ByteFor(sh[i - 1], t[i]) = None => f[i] = f[i - 1]
            /\ ByteFor(sh[i - 1], t[i]) # None =>
                  f[i] = f[i - 1] + 1 /\ x[f[i]] = ByteFor(sh[i - 1], t[i])
  BY DEF Types
<1>3. Len(x) \in Nat /\ n \in 0 .. n /\ 0 \in 0 .. n
  BY LenProperties
<1>4. sh[n] \in ShiftState
  BY <1>2, <1>3
<1>5. /\ b \in Printable \cup {BACKSPACE, ENTER, None}
      /\ ShiftAfter(sh[n], sc) \in ShiftState
  BY <1>4, TranslateType
<1>6. b # None => b \in 0 .. 255
  BY <1>5 DEF Printable, BACKSPACE, ENTER
<1>7. y = IF b = None THEN x ELSE Append(x, b)
  BY DEF With
<1>. HIDE DEF b, u
<1>8. /\ Len(y) = IF b = None THEN Len(x) ELSE Len(x) + 1
      /\ \A i \in 1 .. Len(x) : y[i] = x[i]
      /\ b # None => y[Len(x) + 1] = b
  BY <1>3, <1>6, <1>7, AppendProperties
<1>9. Len(y) \in Nat /\ Len(x) <= Len(y)
  BY <1>3, <1>8
<1>. DEFINE sh2 == [i \in 0 .. n + 1 |-> IF i <= n THEN sh[i] ELSE ShiftAfter(sh[n], sc)]
            f2 == [i \in 0 .. n + 1 |-> IF i <= n THEN f[i] ELSE Len(y)]
<1>10. /\ sh2 \in [0 .. n + 1 -> ShiftState]
       /\ \A i \in 0 .. n : sh2[i] = sh[i]
       /\ sh2[n + 1] = ShiftAfter(sh[n], sc)
  BY <1>2, <1>5
<1>11. f2 \in [0 .. n + 1 -> 0 .. Len(y)]
  <2>1. ASSUME NEW i \in 0 .. n + 1 PROVE (IF i <= n THEN f[i] ELSE Len(y)) \in 0 .. Len(y)
    <3>1. CASE i <= n
      <4>1. i \in 0 .. n
        BY <3>1
      <4>2. f[i] \in 0 .. Len(x)
        BY <1>2, <4>1
      <4>. QED  BY <1>3, <1>9, <3>1, <4>2
    <3>2. CASE ~(i <= n)
      BY <1>9, <3>2
    <3>. QED  BY <3>1, <3>2
  <2>. QED  BY <2>1
<1>12. /\ \A i \in 0 .. n : f2[i] = f[i]
       /\ f2[n + 1] = Len(y)
  OBVIOUS
<1>. HIDE DEF sh2, f2
<1>13. ASSUME NEW i \in 1 .. n + 1
       PROVE  /\ sh2[i] = ShiftAfter(sh2[i - 1], u[i])
              /\ ByteFor(sh2[i - 1], u[i]) = None => f2[i] = f2[i - 1]
              /\ ByteFor(sh2[i - 1], u[i]) # None =>
                    f2[i] = f2[i - 1] + 1 /\ y[f2[i]] = ByteFor(sh2[i - 1], u[i])
  <2>1. CASE i = n + 1
    <3>1. i - 1 = n
      BY <2>1
    <3>2. /\ sh2[i - 1] = sh[n] /\ f2[i - 1] = Len(x) /\ u[i] = sc
          /\ f2[i] = Len(y) /\ sh2[i] = ShiftAfter(sh[n], sc)
      BY <1>1, <1>2, <1>3, <1>10, <1>12, <2>1, <3>1
    <3>3. ByteFor(sh2[i - 1], u[i]) = b
      BY <3>2 DEF b
    <3>4. b = None => f2[i] = f2[i - 1]
      BY <1>8, <3>2
    <3>5. b # None => f2[i] = f2[i - 1] + 1 /\ y[f2[i]] = b
      BY <1>8, <3>2
    <3>. QED  BY <3>2, <3>3, <3>4, <3>5
  <2>2. CASE i # n + 1
    <3>1. i \in 1 .. n /\ i \in 0 .. n /\ i - 1 \in 0 .. n
      BY <2>2
    <3>2. sh2[i - 1] = sh[i - 1] /\ f2[i - 1] = f[i - 1] /\ u[i] = t[i] /\ f2[i] = f[i] /\ sh2[i] = sh[i]
      BY <1>1, <1>10, <1>12, <3>1
    <3>3. /\ sh[i] = ShiftAfter(sh[i - 1], t[i])
          /\ ByteFor(sh[i - 1], t[i]) = None => f[i] = f[i - 1]
          /\ ByteFor(sh[i - 1], t[i]) # None =>
                f[i] = f[i - 1] + 1 /\ x[f[i]] = ByteFor(sh[i - 1], t[i])
      BY <1>2, <3>1
    <3>4. f[i] \in 0 .. Len(x) /\ f[i - 1] \in 0 .. Len(x)
      BY <1>2, <3>1
    <3>5. f[i] = f[i - 1] + 1 => y[f[i]] = x[f[i]]
      BY <1>3, <1>8, <3>4
    <3>. QED  BY <3>2, <3>3, <3>5
  <2>. QED  BY <2>1, <2>2
<1>14. Types(u, y, sh2, f2)
  BY <1>1, <1>2, <1>3, <1>10, <1>11, <1>12, <1>13 DEF Types
<1>15. Types(Append(t, sc), y, sh2, f2)
  BY <1>14 DEF u
<1>16. TypesMore(sh, f, n, sc, sh2, f2)
  BY <1>10, <1>12 DEF TypesMore
<1>. QED  BY <1>8, <1>9, <1>15, <1>16

(* The byte a key stands for when it goes down is the one translate() will *)
(* give, if SHIFT is then what the Shift keys are now.                     *)
LEMMA KeyStrokeByte ==
  ASSUME NEW s \in ShiftState, \A k \in ShiftKeys : HeldIn(s, k) <=> k \in held,
         NEW key \in Keys
  PROVE  /\ ByteFor(s, key) = IF key \in ShiftKeys THEN None
                              ELSE AsciiForMakeCode(key, ShiftDown)
         /\ ByteFor(s, key + 128) = None
<1>1. key \in 0 .. 127
  BY CodesAreBytes
<1>2. ShiftDown <=> IsActive(s)
  BY DEF ShiftDown, IsActive, ShiftKeys, HeldIn, LEFT_SHIFT_MAKE, RIGHT_SHIFT_MAKE
<1>3. IsActive(s) \in BOOLEAN /\ ShiftDown \in BOOLEAN
  BY DEF ShiftDown, IsActive, ShiftState
<1>4. ShiftDown = IsActive(s)
  BY <1>2, <1>3
<1>5. ByteFor(s, key + 128) = None
  BY <1>1 DEF ByteFor
<1>6. CASE key \in ShiftKeys
  BY <1>5, <1>6 DEF ShiftKeys, ByteFor
<1>7. CASE key \notin ShiftKeys
  <2>1. key \notin {LEFT_SHIFT_MAKE, LEFT_SHIFT_BREAK, RIGHT_SHIFT_MAKE, RIGHT_SHIFT_BREAK}
    BY <1>1, <1>7 DEF ShiftKeys, LEFT_SHIFT_BREAK, RIGHT_SHIFT_BREAK
  <2>2. ~(key >= 128)
    BY <1>1
  <2>3. ByteFor(s, key) = AsciiForMakeCode(key, IsActive(s))
    BY <2>1, <2>2 DEF ByteFor
  <2>. QED  BY <1>4, <1>5, <1>7, <2>3
<1>. QED  BY <1>5, <1>6, <1>7

(* A key stroke adds the same to the codes and to the text; what the idle  *)
(* loop has done so far remains right.                                     *)
LEMMA TextInvKey ==
  ASSUME Inv, Inv', ShiftInv, TextInv, NEW key \in Keys, Press(key) \/ Release(key)
  PROVE  TextInv'
<1>1. PICK sh, f : /\ Types(typed, text, sh, f)
                   /\ \A k \in ShiftKeys : HeldIn(sh[Len(typed)], k) <=> k \in held
                   /\ evicted = << >> => Follows(sh, f)
  BY DEF TextInv
<1>2. PICK n \in Nat : n = Len(typed)
  BY LenProperties DEF Inv, TypeOK
<1>3. /\ typed \in Seq(Byte) /\ text \in Seq(0 .. 255) /\ text' \in Seq(0 .. 255)
      /\ Len(text) \in Nat
  BY CodesAreBytes, SeqMonotonic, LenProperties DEF Inv, TypeOK
<1>4. /\ sh[n] \in ShiftState
      /\ f \in [0 .. n -> 0 .. Len(text)]
  BY <1>1, <1>2 DEF Types
<1>5. /\ ByteFor(sh[n], key) = IF key \in ShiftKeys THEN None
                               ELSE AsciiForMakeCode(key, ShiftDown)
      /\ ByteFor(sh[n], key + 128) = None
  BY <1>1, <1>2, <1>4, KeyStrokeByte
<1>6. PICK sc \in Byte : /\ sc \in Scancodes /\ Send(sc)
                         /\ \/ sc = key /\ held' = held \cup {key}
                            \/ sc = key + 128 /\ held' = held \ {key}
                         /\ text' = IF ByteFor(sh[n], sc) = None THEN text
                                    ELSE Append(text, ByteFor(sh[n], sc))
  <2>1. CASE Press(key)
    BY <1>5, <2>1, CodesAreBytes DEF Press, ShiftKeys
  <2>2. CASE Release(key)
    BY <1>5, <2>2, CodesAreBytes DEF Release
  <2>. QED  BY <2>1, <2>2
<1>. USE DEF keyboard, devices, locals, statics, translator, history
<1>7. /\ typed' = Append(typed, sc)
      /\ UNCHANGED <<main, scancode, shift, byte, fed, evicted>>
      /\ Gone' = Gone
  BY <1>6, GoneStep DEF Send
<1>. DEFINE y == text'
<1>8. /\ y \in Seq(0 .. 255)
      /\ y = With(text, ByteFor(sh[n], sc))
  BY <1>3, <1>6 DEF With
<1>. HIDE DEF y
<1>13. Types(typed, text, sh, f) /\ typed \in Seq(Byte) /\ text \in Seq(0 .. 255)
  BY <1>1, <1>3
<1>14. /\ \E sh2, f2 : Types(Append(typed, sc), y, sh2, f2) /\ TypesMore(sh, f, n, sc, sh2, f2)
       /\ \A i \in 1 .. Len(text) : y[i] = text[i]
       /\ Len(text) <= Len(y)
  BY ONLY <1>2, <1>8, <1>13, sc \in Byte, TypesAppend
<1>15. PICK sh2, f2 : Types(Append(typed, sc), y, sh2, f2) /\ TypesMore(sh, f, n, sc, sh2, f2)
  BY <1>14
<1>9. /\ Types(Append(typed, sc), y, sh2, f2)
      /\ sh2[n + 1] = ShiftAfter(sh[n], sc)
      /\ \A i \in 0 .. n : sh2[i] = sh[i] /\ f2[i] = f[i]
      /\ \A i \in 1 .. Len(text) : y[i] = text[i]
      /\ Len(text) <= Len(y)
  BY <1>14, <1>15 DEF TypesMore
<1>10. Types(typed', text', sh2, f2)
  BY <1>7, <1>9 DEF y
<1>11. Len(typed') = n + 1
  BY <1>2, <1>3, <1>7, AppendProperties
<1>12. ASSUME NEW k \in ShiftKeys PROVE HeldIn(sh2[n + 1], k) <=> k \in held'
  <2>1. /\ sc = k => HeldIn(sh2[n + 1], k)
        /\ sc = k + 128 => ~HeldIn(sh2[n + 1], k)
        /\ sc \notin {k, k + 128} => (HeldIn(sh2[n + 1], k) <=> HeldIn(sh[n], k))
    BY <1>4, <1>9, ShiftFollows
  <2>2. k \in {42, 54} /\ key \in 0 .. 127
    BY CodesAreBytes DEF ShiftKeys, LEFT_SHIFT_MAKE, RIGHT_SHIFT_MAKE
  <2>3. HeldIn(sh[n], k) <=> k \in held
    BY <1>1, <1>2
  <2>. QED  BY <1>6, <2>1, <2>2, <2>3
<1>16. ASSUME evicted = << >> PROVE Follows(sh2, f2)'
  <2>1. Follows(sh, f)
    BY <1>1, <1>16
  <2>2. PICK d \in 0 .. n : d = Translated
    BY <1>2, <2>1 DEF Follows
  <2>3. Translated' = d
    BY <1>7, <2>2 DEF Translated
  <2>4. sh2[d] = sh[d] /\ f2[d] = f[d] /\ f[d] \in 0 .. Len(text)
    BY <1>4, <1>9
  <2>5. d \in 0 .. Len(typed')
    BY <1>11
  <2>6. main = "translate" => typed'[Gone] = typed[Gone]
    <3>1. SUFFICES ASSUME main = "translate" PROVE typed'[Gone] = typed[Gone]
      OBVIOUS
    <3>2. d = Gone - 1 /\ Gone \in Int /\ Gone <= n
      BY <1>2, <2>2, <3>1, GoneStep DEF Translated, Gone
    <3>3. Gone \in 1 .. Len(typed)
      BY <1>2, <3>2
    <3>. QED  BY <1>3, <1>7, <3>3, AppendProperties
  <2>7. /\ Len(fed) = IF main = "feed" THEN f[d] - 1 ELSE f[d]
        /\ main = "feed" => byte = text[f[d]]
        /\ \A i \in 1 .. Len(fed) : fed[i] = text[i]
        /\ main = "translate" => scancode = typed[Gone]
        /\ shift = sh[d]
    BY <2>1, <2>2 DEF Follows
  <2>8. Len(fed) \in Nat
    BY LenProperties DEF Inv, TypeOK
  <2>9. /\ Len(fed) <= Len(text)
        /\ main = "feed" => f[d] \in 1 .. Len(text)
    BY <1>3, <2>4, <2>7, <2>8
  <2>10. /\ \A i \in 1 .. Len(fed) : text'[i] = text[i]
         /\ main = "feed" => text'[f[d]] = text[f[d]]
    <3>1. \A i \in 1 .. Len(fed) : i \in 1 .. Len(text)
      BY <1>3, <2>8, <2>9
    <3>. QED  BY <1>9, <2>9, <3>1 DEF y
  <2>11. /\ Translated' \in 0 .. Len(typed')
         /\ shift' = sh2[Translated']
         /\ main' = "translate" => scancode' = typed'[Gone']
         /\ Len(fed') = IF main' = "feed" THEN f2[Translated'] - 1 ELSE f2[Translated']
         /\ main' = "feed" => byte' = text'[f2[Translated']]
         /\ \A i \in 1 .. Len(fed') : fed'[i] = text'[i]
    BY <1>7, <2>3, <2>4, <2>5, <2>6, <2>7, <2>10
  <2>. QED  BY <2>11 DEF Follows
<1>. QED  BY <1>7, <1>10, <1>11, <1>12, <1>16 DEF TextInv, HeldIn

(* The idle loop keeps following: one lemma for what it has to show. *)
LEMMA TextInvFollow ==
  ASSUME TextInv, UNCHANGED <<typed, text, held>>,
         \A sh, f : (/\ Types(typed, text, sh, f) /\ Follows(sh, f)
                     /\ evicted = << >> /\ evicted' = << >>) => Follows(sh, f)',
         evicted' = << >> => evicted = << >>
  PROVE  TextInv'
<1>1. PICK sh, f : /\ Types(typed, text, sh, f)
                   /\ \A k \in ShiftKeys : HeldIn(sh[Len(typed)], k) <=> k \in held
                   /\ evicted = << >> => Follows(sh, f)
  BY DEF TextInv
<1>2. Types(typed', text', sh, f)
  BY <1>1
<1>3. evicted' = << >> => Follows(sh, f)'
  BY <1>1
<1>. QED  BY <1>1, <1>2, <1>3 DEF TextInv, HeldIn

(* Every step keeps what is fed in agreement with what is meant. *)
LEMMA TextInvNext ==
  ASSUME Inv, Inv', EndsWith(typed, Pending), ShiftInv, TextInv, [Next]_vars
  PROVE  TextInv'
<1>. USE DEF keyboard, devices, locals, statics, translator, history
<1>0. Gone \in Int /\ Gone <= Len(typed) /\ Len(typed) \in Nat
  BY GoneStep DEF Gone
<1>1. ASSUME NEW key \in Keys, Press(key) \/ Release(key) PROVE TextInv'
  BY <1>1, TextInvKey
<1>2. CASE HandlerPush
  <2>1. UNCHANGED <<typed, text, held, main, scancode, shift, byte, fed>>
    BY <1>2 DEF HandlerPush
  <2>2. evicted \in Seq(Nat) /\ Len(taken) + Len(evicted) + 1 \in Nat
    BY LenProperties DEF Inv, TypeOK
  <2>3. evicted' = << >> => evicted = << >> /\ Gone' = Gone
    <3>1. Append(evicted, Len(taken) + Len(evicted) + 1) # << >>
      BY <2>2, AppendProperties
    <3>. QED  BY <1>2, <3>1, GoneStep DEF HandlerPush
  <2>4. ASSUME NEW sh, NEW f, Follows(sh, f), evicted' = << >> PROVE Follows(sh, f)'
    <3>1. Translated' = Translated /\ Gone' = Gone
      BY <2>1, <2>3, <2>4 DEF Translated
    <3>. QED  BY <2>1, <2>4, <3>1 DEF Follows
  <2>. QED  BY <2>1, <2>3, <2>4, TextInvFollow
<1>3. CASE PopQueue
  <2>1. /\ UNCHANGED <<typed, text, held, shift, byte, fed, evicted>>
        /\ main = "pop" /\ main' = IF queue.len = 0 THEN "restore" ELSE "translate"
    BY <1>3 DEF PopQueue
  <2>2. Translated' = Translated
    BY <1>0, <1>3, <2>1, GoneStep DEF Translated
  <2>3. main' = "translate" => scancode' = typed'[Gone']
    <3>1. SUFFICES ASSUME queue.len # 0 PROVE scancode' = typed[Gone']
      BY <2>1
    <3>2. scancode' = Peek(queue) /\ Gone' = Gone + 1
      BY <1>3, <3>1, GoneStep DEF PopQueue
    <3>. QED  BY <3>1, <3>2, PeekIsTyped
  <2>4. ASSUME NEW sh, NEW f, Follows(sh, f) PROVE Follows(sh, f)'
    BY <2>1, <2>2, <2>3, <2>4 DEF Follows
  <2>. QED  BY <2>1, <2>4, TextInvFollow
<1>4. CASE TranslateCode
  <2>1. /\ UNCHANGED <<typed, text, held, fed, evicted>> /\ main = "translate"
        /\ shift' = ShiftAfter(shift, scancode) /\ byte' = ByteFor(shift, scancode)
        /\ main' = IF byte' = None THEN "lock" ELSE "feed"
    BY <1>4 DEF TranslateCode, Translate
  <2>2. Gone' = Gone /\ Translated = Gone - 1 /\ Translated' = Gone
    BY <1>4, <2>1, GoneStep DEF Translated, Elsewhere
  <2>3. ASSUME NEW sh, NEW f, Types(typed, text, sh, f), Follows(sh, f) PROVE Follows(sh, f)'
    <3>1. /\ Gone - 1 \in 0 .. Len(typed) /\ shift = sh[Gone - 1] /\ scancode = typed[Gone]
          /\ Len(fed) = f[Gone - 1] /\ \A i \in 1 .. Len(fed) : fed[i] = text[i]
      BY <2>1, <2>2, <2>3 DEF Follows
    <3>2. Gone \in 1 .. Len(typed) /\ Gone \in 0 .. Len(typed)
      BY <1>0, <3>1
    <3>3. /\ sh[Gone] = ShiftAfter(sh[Gone - 1], typed[Gone])
          /\ ByteFor(sh[Gone - 1], typed[Gone]) = None => f[Gone] = f[Gone - 1]
          /\ ByteFor(sh[Gone - 1], typed[Gone]) # None =>
                /\ f[Gone] = f[Gone - 1] + 1
                /\ text[f[Gone]] = ByteFor(sh[Gone - 1], typed[Gone])
          /\ f[Gone - 1] \in 0 .. Len(text) /\ f[Gone] \in 0 .. Len(text)
      BY <2>3, <3>1, <3>2 DEF Types
    <3>4. shift' = sh[Gone] /\ byte' = ByteFor(sh[Gone - 1], typed[Gone])
      BY <2>1, <3>1, <3>3
    <3>5. Len(fed') = IF main' = "feed" THEN f[Gone] - 1 ELSE f[Gone]
      <4>1. CASE byte' = None
        BY <2>1, <3>1, <3>3, <3>4, <4>1
      <4>2. CASE byte' # None
        <5>1. main' = "feed" /\ f[Gone] = f[Gone - 1] + 1 /\ f[Gone - 1] \in Nat
          BY <2>1, <3>3, <3>4, <4>2
        <5>. HIDE DEF Gone
        <5>2. f[Gone] - 1 = f[Gone - 1]
          BY <5>1
        <5>. QED  BY <2>1, <3>1, <5>1, <5>2
      <4>. QED  BY <4>1, <4>2
    <3>6. main' = "feed" => byte' = text'[f[Gone]]
      BY <2>1, <3>3, <3>4
    <3>7. main' # "translate"
      BY <2>1
    <3>. QED  BY <2>1, <2>2, <3>1, <3>2, <3>4, <3>5, <3>6, <3>7 DEF Follows
  <2>. QED  BY <2>1, <2>3, TextInvFollow
<1>5. CASE FeedByte
  <2>1. /\ UNCHANGED <<typed, text, held, shift, byte, evicted>> /\ main = "feed"
        /\ fed' = Append(fed, byte) /\ main' = "lock"
    BY <1>5 DEF FeedByte
  <2>2. Gone' = Gone /\ Translated = Gone /\ Translated' = Gone
    BY <1>5, <2>1, GoneStep DEF Translated, Elsewhere
  <2>3. byte \in 0 .. 255 /\ fed \in Seq(0 .. 255)
    BY <2>1 DEF Inv, TypeOK, ShellKnowsEveryByte, LocalsSet, Printable, BACKSPACE, ENTER
  <2>4. /\ Len(fed') = Len(fed) + 1 /\ Len(fed) \in Nat
        /\ \A i \in 1 .. Len(fed) : fed'[i] = fed[i]
        /\ fed'[Len(fed) + 1] = byte
    BY <2>1, <2>3, AppendProperties, LenProperties
  <2>5. ASSUME NEW sh, NEW f, Types(typed, text, sh, f), Follows(sh, f) PROVE Follows(sh, f)'
    <3>1. /\ Gone \in 0 .. Len(typed) /\ shift = sh[Gone]
          /\ Len(fed) = f[Gone] - 1 /\ byte = text[f[Gone]]
          /\ \A i \in 1 .. Len(fed) : fed[i] = text[i]
      BY <2>1, <2>2, <2>5 DEF Follows
    <3>2. f[Gone] \in 0 .. Len(text)
      BY <2>5, <3>1 DEF Types
    <3>3. Len(fed') = f[Gone] /\ Len(fed) + 1 = f[Gone]
      BY <2>4, <3>1, <3>2
    <3>4. ASSUME NEW i \in 1 .. Len(fed') PROVE fed'[i] = text[i]
      <4>1. i \in 1 .. Len(fed) \/ i = Len(fed) + 1
        BY <2>4
      <4>2. CASE i \in 1 .. Len(fed)
        BY <2>4, <3>1, <4>2
      <4>3. CASE i = Len(fed) + 1
        BY <2>4, <3>1, <3>3, <4>3
      <4>. QED  BY <4>1, <4>2, <4>3
    <3>. QED  BY <2>1, <2>2, <3>1, <3>3, <3>4 DEF Follows
  <2>. QED  BY <2>1, <2>5, TextInvFollow
<1>6. CASE Elsewhere /\ ~TranslateCode /\ ~FeedByte
  <2>1. UNCHANGED <<typed, text, held, shift, byte, fed, evicted, scancode>>
    BY <1>6 DEF Elsewhere, Interrupt, HandlerRead, HandlerEoi, EnterGuard, LockQueue,
          LeaveGuard, EnableAndHlt, vars
  <2>2. main' = main \/ (main' \notin {"translate", "feed"} /\ main \notin {"translate", "feed"})
    BY <1>6 DEF Elsewhere, Interrupt, HandlerRead, HandlerEoi, EnterGuard, LockQueue,
          LeaveGuard, EnableAndHlt, vars
  <2>3. Gone' = Gone
    BY <1>6, GoneStep
  <2>4. Translated' = Translated
    BY <2>2, <2>3 DEF Translated
  <2>5. ASSUME NEW sh, NEW f, Follows(sh, f) PROVE Follows(sh, f)'
    BY <2>1, <2>2, <2>3, <2>4, <2>5 DEF Follows
  <2>. QED  BY <2>1, <2>5, TextInvFollow
<1>. QED  BY <1>1, <1>2, <1>3, <1>4, <1>5, <1>6, StepKinds

(* What the shell receives is what the user meant (TypedTextArrives), for  *)
(* every capacity and any number of key strokes: without a loss the bytes  *)
(* fed are the first of the text, in the letter case of the moment each    *)
(* key went down, and all of it once nothing is on its way.  The invariant *)
(* names, for each code, the Shift state and the length of the text after  *)
(* it; the idle loop runs through the same states later.                   *)
THEOREM InputPathTypedTextArrives == Spec => []TypedTextArrives
<1>1. Init => TextInv
  <2>. SUFFICES ASSUME Init PROVE TextInv
    OBVIOUS
  <2>1. Contents(NewQueue) = << >>
    BY DEF Contents, NewQueue
  <2>2. /\ Pending = << >> /\ typed = << >> /\ text = << >> /\ fed = << >>
        /\ evicted = << >> /\ taken = << >> /\ held = {} /\ main = "guard" /\ shift = NoShift
    BY <2>1 DEF Init, Pending, KeyboardInit, NoShift
  <2>3. Translated = 0
    BY <2>2 DEF Gone, Translated
  <2>. DEFINE sh == [i \in 0 .. 0 |-> NoShift]
              f == [i \in 0 .. 0 |-> 0]
  <2>4. sh[0] = NoShift /\ f[0] = 0 /\ NoShift \in ShiftState
    BY DEF NoShift, ShiftState
  <2>5. Types(typed, text, sh, f)
    BY <2>2, <2>4 DEF Types
  <2>6. Follows(sh, f)
    BY <2>2, <2>3, <2>4 DEF Follows
  <2>7. \A k \in ShiftKeys : HeldIn(sh[Len(typed)], k) <=> k \in held
    BY <2>2, <2>4 DEF HeldIn, NoShift
  <2>. HIDE DEF sh, f
  <2>. QED  BY <2>5, <2>6, <2>7 DEF TextInv
<1>2. PendingIsNewest => EndsWith(typed, Pending)
  BY DEF EndsWith, PendingIsNewest
<1>3. Inv /\ ShiftInv /\ TextInv => TypedTextArrives
  <2>. SUFFICES ASSUME Inv, ShiftInv, TextInv, Lost = 0
                PROVE  IsPrefix(fed, text) /\ (Quiet => fed = text)
    BY DEF TypedTextArrives
  <2>1. PICK sh, f : /\ Types(typed, text, sh, f)
                     /\ evicted = << >> => Follows(sh, f)
    BY DEF TextInv
  <2>2. /\ Len(typed) \in Nat /\ Len(taken) \in Nat /\ Len(evicted) \in Nat
        /\ fed \in Seq(0 .. 255) /\ text \in Seq(0 .. 255)
        /\ Len(fed) \in Nat /\ Len(text) \in Nat
    BY LenProperties DEF Inv, TypeOK
  <2>3. Len(Pending) \in Nat
    BY PendingParts, LenProperties
  <2>4. Len(evicted) = 0
    BY <2>2, <2>3 DEF Lost, ShiftInv, Gone
  <2>5. evicted = << >>
    BY <2>4, EmptySeq DEF Inv, TypeOK
  <2>6. Follows(sh, f)
    BY <2>1, <2>5
  <2>. DEFINE d == Translated
  <2>7. /\ d \in 0 .. Len(typed)
        /\ Len(fed) = IF main = "feed" THEN f[d] - 1 ELSE f[d]
        /\ \A i \in 1 .. Len(fed) : fed[i] = text[i]
    BY <2>6 DEF Follows
  <2>. HIDE DEF d
  <2>8. f[d] \in 0 .. Len(text) /\ f[Len(typed)] = Len(text)
    BY <2>1, <2>7 DEF Types
  <2>9. Len(fed) <= Len(text)
    BY <2>2, <2>7, <2>8
  <2>10. IsPrefix(fed, text)
    <3>1. \A i \in 1 .. Len(fed) : fed[i] \in 0 .. 255 /\ text[i] \in 0 .. 255
      BY <2>2, <2>7, ElementOfSeq
    <3>2. /\ SubSeq(fed, 1, Len(fed)) \in Seq(0 .. 255)
          /\ Len(SubSeq(fed, 1, Len(fed))) = IF 1 <= Len(fed) THEN Len(fed) - 1 + 1 ELSE 0
          /\ \A i \in 1 .. Len(fed) - 1 + 1 : SubSeq(fed, 1, Len(fed))[i] = fed[1 + i - 1]
      BY <2>2, <3>1, SubSeqProperties
    <3>3. /\ SubSeq(text, 1, Len(fed)) \in Seq(0 .. 255)
          /\ Len(SubSeq(text, 1, Len(fed))) = IF 1 <= Len(fed) THEN Len(fed) - 1 + 1 ELSE 0
          /\ \A i \in 1 .. Len(fed) - 1 + 1 : SubSeq(text, 1, Len(fed))[i] = text[1 + i - 1]
      BY <2>2, <3>1, SubSeqProperties
    <3>4. Len(SubSeq(fed, 1, Len(fed))) = Len(fed) /\ Len(SubSeq(text, 1, Len(fed))) = Len(fed)
      BY <2>2, <3>2, <3>3
    <3>5. ASSUME NEW i \in 1 .. Len(fed)
          PROVE  SubSeq(fed, 1, Len(fed))[i] = SubSeq(text, 1, Len(fed))[i]
      <4>1. i \in 1 .. Len(fed) - 1 + 1 /\ 1 + i - 1 = i
        BY <2>2
      <4>. QED  BY <2>7, <3>2, <3>3, <4>1
    <3>6. SubSeq(fed, 1, Len(fed)) = SubSeq(text, 1, Len(fed))
      BY <3>2, <3>3, <3>4, <3>5, SeqEqual
    <3>. QED  BY <2>9, <3>6 DEF IsPrefix
  <2>11. ASSUME Quiet PROVE fed = text
    <3>1. Pending = << >> /\ main \notin {"translate", "feed"}
      BY <2>11 DEF Quiet
    <3>2. d = Len(typed)
      BY <2>2, <3>1 DEF d, Translated, Gone
    <3>3. Len(fed) = Len(text)
      BY <2>7, <2>8, <3>1, <3>2
    <3>. QED  BY <2>2, <2>7, <3>3, SeqEqual
  <2>. QED  BY <2>10, <2>11
<1>. QED  BY <1>1, <1>2, <1>3, InputPathShiftInv, TextInvNext, InputPathInv, InputPathPendingIsNewest,
             PTL DEF Spec
=============================================================================
