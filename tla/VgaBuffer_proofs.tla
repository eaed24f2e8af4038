-------------------------- MODULE VgaBuffer_proofs --------------------------
(***************************************************************************)
(* Lemmas about the operators of VgaBuffer.tla, for every screen size and  *)
(* alphabet; VgaWriter_proofs.tla and Shell_proofs.tla build on them.      *)
(***************************************************************************)
EXTENDS VgaBuffer, SequenceTheorems, NaturalsInduction, WellFoundedInduction, TLAPS

(* A sequence without its last element. *)
LEMMA FrontProperties ==
    ASSUME NEW S, NEW r \in Seq(S), Len(r) > 0
    PROVE  /\ Front(r) \in Seq(S) /\ Len(Front(r)) = Len(r) - 1
           /\ \A i \in 1 .. Len(r) - 1 : Front(r)[i] = r[i]
<1>1. PICK n \in Nat : n = Len(r) - 1
  BY LenProperties
<1>2. \A i \in 1 .. n : r[i] \in S
  BY <1>1, ElementOfSeq
<1> DEFINE p == SubSeq(r, 1, n)
<1>3. /\ p \in Seq(S)
      /\ Len(p) = IF 1 <= n THEN n - 1 + 1 ELSE 0
      /\ \A i \in 1 .. n - 1 + 1 : p[i] = r[1 + i - 1]
  BY <1>2, SubSeqProperties
<1>4. p = Front(r)
  BY <1>1 DEF Front
<1> HIDE DEF p
<1>5. Len(p) = n
  BY <1>3
<1>6. ASSUME NEW i \in 1 .. n PROVE p[i] = r[i]
  <2>1. i \in 1 .. n - 1 + 1 /\ 1 + i - 1 = i
    OBVIOUS
  <2> QED BY <1>3, <2>1
<1> QED BY <1>1, <1>3, <1>4, <1>5, <1>6

(* The position move_hardware_cursor computes fits its registers.          *)
LEMMA MoveCursorType ==
    ASSUME NEW w \in WriterType
    PROVE  LET v == MoveHardwareCursor(w)
           IN  /\ v \in WriterType
               /\ v.chars = w.chars
               /\ v.column_position = w.column_position
               /\ v.cursor = ((Height - 1) * Width + v.column_position) % 65536
<1> DEFINE p == (Height - 1) * Width + w.column_position
<1>1. w.column_position \in Int /\ p \in Int
  BY SizeAssumption DEF WriterType
<1>2. p % 65536 \in Nat
  <2> HIDE DEF p
  <2> QED BY <1>1
<1> QED BY <1>2 DEF MoveHardwareCursor, WriterType

(* new_line leaves a screen of the same shape and an empty last row.       *)
LEMMA ScrollUpType ==
    ASSUME NEW w \in WriterType
    PROVE  ScrollUp(w) \in WriterType /\ ScrollUp(w).column_position = 0
<1>1. BlankRow \in [0 .. Width - 1 -> Cell]
  BY DEF BlankRow, Cell
<1>2. \A row \in 0 .. Height - 1 : row # LastRow => row + 1 \in 0 .. Height - 1
  BY SizeAssumption DEF LastRow
<1>3. [row \in 0 .. Height - 1 |-> IF row = LastRow THEN BlankRow ELSE w.chars[row + 1]]
          \in [0 .. Height - 1 -> [0 .. Width - 1 -> Cell]]
  BY <1>1, <1>2 DEF WriterType
<1>4. 0 \in 0 .. Width
  BY SizeAssumption
<1> QED BY <1>3, <1>4 DEF ScrollUp, WriterType

(* Writing a cell of the last row and moving to a column of the row.       *)
LEMMA PutCellType ==
    ASSUME NEW w \in WriterType, NEW col \in 0 .. Width - 1, NEW c \in Cell,
           NEW next \in 0 .. Width
    PROVE  [PutCell(w, col, c) EXCEPT !.column_position = next] \in WriterType
<1>1. LastRow \in 0 .. Height - 1
  BY SizeAssumption DEF LastRow
<1>2. [w.chars EXCEPT ![LastRow] = [w.chars[LastRow] EXCEPT ![col] = c]]
          \in [0 .. Height - 1 -> [0 .. Width - 1 -> Cell]]
  BY <1>1 DEF WriterType
<1> QED BY <1>2 DEF PutCell, WriterType

(* A writer whose cursor registers follow its column. *)
Placed(w) ==
    /\ w \in WriterType
    /\ w.cursor = ((Height - 1) * Width + w.column_position) % 65536

(* write_byte, behind write_string's filter, leaves the cursor on the     *)
(* column after the byte.                                                  *)
LEMMA WriteBytePlaced ==
    ASSUME NEW w \in WriterType, NEW b \in Text
    PROVE  Placed(WriteByte(w, Sanitize(b)))
<1>1. CASE b = NewLine
  <2>1. Sanitize(b) = NewLine
    BY <1>1, BytesAssumption DEF Sanitize
  <2> QED BY <2>1, ScrollUpType, MoveCursorType DEF WriteByte, Placed
<1>2. CASE b # NewLine
  <2> DEFINE c == Sanitize(b)
             v == IF w.column_position >= Width THEN ScrollUp(w) ELSE w
             u == PutCell(v, v.column_position, c)
             x == [u EXCEPT !.column_position = v.column_position + 1]
  <2>1. c \in Cell /\ c # NewLine
    BY <1>2 DEF Text, Sanitize, Cell, UnknownChar, NewLine
  <2>2. v \in WriterType /\ v.column_position \in 0 .. Width - 1
    BY ScrollUpType, SizeAssumption DEF WriterType
  <2>3. v.column_position + 1 \in 0 .. Width
    BY <2>2, SizeAssumption
  <2>4. x \in WriterType
    <3> HIDE DEF v, c
    <3> QED BY <2>1, <2>2, <2>3, PutCellType
  <2>5. WriteByte(w, c) = MoveHardwareCursor(x)
    BY <2>1 DEF WriteByte
  <2> HIDE DEF x, c
  <2>6. Placed(MoveHardwareCursor(x))
    BY <2>4, MoveCursorType DEF Placed
  <2> QED BY <2>5, <2>6 DEF c
<1> QED BY <1>1, <1>2

(* clear_screen leaves the cursor at the start of the last row.            *)
LEMMA ClearScreenPlaced ==
    ASSUME NEW w \in WriterType
    PROVE  Placed(ClearScreen(w))
<1> DEFINE v == [w EXCEPT !.chars = [row \in 0 .. Height - 1 |-> BlankRow],
                          !.column_position = 0]
<1>0. /\ [row \in 0 .. Height - 1 |-> BlankRow] \in [0 .. Height - 1 -> [0 .. Width - 1 -> Cell]]
      /\ 0 \in 0 .. Width
  BY SizeAssumption DEF BlankRow, Cell
<1>1. v \in WriterType
  BY <1>0 DEF WriterType
<1> HIDE DEF v
<1>2. Placed(MoveHardwareCursor(v))
  BY <1>1, MoveCursorType DEF Placed
<1> QED BY <1>2 DEF ClearScreen, v

(* backspace keeps the cursor where the column is, also when it does       *)
(* nothing.                                                                *)
LEMMA BackspacePlaced ==
    ASSUME NEW w, Placed(w)
    PROVE  Placed(Backspace(w))
<1>1. CASE w.column_position = 0
  BY <1>1 DEF Backspace
<1>2. CASE w.column_position # 0
  <2> DEFINE col == w.column_position - 1
             x == [PutCell(w, col, Blank) EXCEPT !.column_position = col]
  <2>1. w \in WriterType
    BY DEF Placed
  <2>2. col \in 0 .. Width - 1 /\ col \in 0 .. Width /\ Blank \in Cell
    BY <1>2, <2>1, SizeAssumption DEF WriterType, Cell
  <2>3. x \in WriterType
    <3> HIDE DEF col
    <3> QED BY <2>1, <2>2, PutCellType
  <2>4. Backspace(w) = MoveHardwareCursor(x)
    BY <1>2 DEF Backspace
  <2> HIDE DEF x
  <2> QED BY <2>3, <2>4, MoveCursorType DEF Placed
<1> QED BY <1>1, <1>2

-----------------------------------------------------------------------------
(* write_string over a string of any length.                               *)

(* A set of numbers that is not empty has a least one. *)
LEMMA LeastNumber ==
    ASSUME NEW S \in SUBSET Nat, S # {}
    PROVE  \E m \in S : \A k \in S : m <= k
<1> DEFINE R == OpToRel(<, Nat)
<1>1. IsWellFoundedOn(R, Nat)
  BY NatLessThanWellFounded, Zenon
<1>2. \A x, y \in Nat : x < y => <<x, y>> \in R
  BY DEF OpToRel
<1> HIDE DEF R
<1>3. PICK m \in S : \A k \in S : ~(<<k, m>> \in R)
  BY <1>1, WFMin
<1>4. ASSUME NEW k \in S PROVE m <= k
  <2>1. k \in Nat /\ m \in Nat
    OBVIOUS
  <2>2. ~(k < m)
    BY <1>2, <1>3, <2>1
  <2> QED BY <2>1, <2>2
<1> QED BY <1>4

(* Counting up: a set with 0 and with the successor of each of its numbers *)
(* below N has all numbers up to N.                                        *)
LEMMA CountingUp ==
    ASSUME NEW N \in Nat, NEW S, 0 \in S, \A n \in 0 .. N - 1 : n \in S => n + 1 \in S
    PROVE  \A n \in 0 .. N : n \in S
<1> DEFINE Missing == {n \in 0 .. N : n \notin S}
<1> SUFFICES ASSUME Missing # {} PROVE FALSE
  OBVIOUS
<1>1. Missing \in SUBSET Nat
  OBVIOUS
<1>2. PICK m \in Missing : \A k \in Missing : m <= k
  <2> HIDE DEF Missing
  <2> QED BY <1>1, LeastNumber
<1>3. m \in Nat /\ m \in 0 .. N /\ m # 0 /\ m \notin S
  BY <1>2
<1>4. m - 1 \in 0 .. N - 1 /\ m - 1 \in 0 .. N /\ ~(m <= m - 1) /\ (m - 1) + 1 = m
  BY <1>3
<1>5. m - 1 \in S
  BY <1>2, <1>4
<1> QED BY <1>3, <1>4, <1>5

(* The writers after each byte of the first n of s. *)
Bytewise(w, s, n, out) ==
    out = [i \in 0 .. n |-> IF i = 0 THEN w ELSE WriteByte(out[i - 1], Sanitize(s[i]))]

(* The recursion of write_string has a result for every string. *)
LEMMA BytewiseExists ==
    ASSUME NEW w, NEW s, NEW N \in Nat
    PROVE  \E out : Bytewise(w, s, N, out)
<1> DEFINE S == {n \in Nat : \E out : Bytewise(w, s, n, out)}
<1>1. 0 \in S
  <2> DEFINE f == [i \in 0 .. 0 |-> w]
  <2>1. f = [i \in 0 .. 0 |-> IF i = 0 THEN w ELSE WriteByte(f[i - 1], Sanitize(s[i]))]
    OBVIOUS
  <2> HIDE DEF f
  <2>2. Bytewise(w, s, 0, f)
    BY <2>1 DEF Bytewise
  <2> QED BY <2>2
<1>2. ASSUME NEW n \in 0 .. N - 1, n \in S PROVE n + 1 \in S
  <2>1. PICK f : Bytewise(w, s, n, f)
    BY <1>2
  <2>2. n \in Nat
    OBVIOUS
  <2> DEFINE g == [i \in 0 .. n + 1 |-> IF i <= n THEN f[i] ELSE WriteByte(f[n], Sanitize(s[n + 1]))]
  <2>3. ASSUME NEW i \in 0 .. n + 1
        PROVE  g[i] = IF i = 0 THEN w ELSE WriteByte(g[i - 1], Sanitize(s[i]))
    <3>1. CASE i = 0
      <4>1. f[0] = w
        BY <2>1, <2>2 DEF Bytewise
      <4> QED BY <2>2, <3>1, <4>1
    <3>2. CASE i \in 1 .. n
      <4>1. f[i] = WriteByte(f[i - 1], Sanitize(s[i]))
        BY <2>1, <2>2, <3>2 DEF Bytewise
      <4>2. g[i] = f[i] /\ g[i - 1] = f[i - 1] /\ i # 0
        BY <2>2, <3>2
      <4> QED BY <4>1, <4>2
    <3>3. CASE i = n + 1
      <4>1. g[i] = WriteByte(f[n], Sanitize(s[n + 1])) /\ g[i - 1] = f[n] /\ i # 0
        BY <2>2, <3>3
      <4> QED BY <3>3, <4>1
    <3> QED BY <2>2, <3>1, <3>2, <3>3
  <2>4. DOMAIN g = 0 .. n + 1 /\ g = [i \in 0 .. n + 1 |-> g[i]]
    OBVIOUS
  <2> HIDE DEF g
  <2>5. g = [i \in 0 .. n + 1 |-> IF i = 0 THEN w ELSE WriteByte(g[i - 1], Sanitize(s[i]))]
    BY <2>3, <2>4
  <2>6. Bytewise(w, s, n + 1, g)
    BY <2>5 DEF Bytewise
  <2> QED BY <2>2, <2>6
<1> HIDE DEF S
<1>3. \A n \in 0 .. N : n \in S
  BY <1>1, <1>2, CountingUp
<1>4. N \in S
  BY <1>3
<1> QED BY <1>4 DEF S

(* What holds before the first byte, and after each byte if it held before *)
(* it, holds after the string; W[i] is what holds after i bytes.           *)
LEMMA WriteStringIn ==
    ASSUME NEW w, NEW s, NEW N \in Nat, Len(s) = N, NEW W, w \in W[0],
           \A i \in 1 .. N : \A v \in W[i - 1] : WriteByte(v, Sanitize(s[i])) \in W[i]
    PROVE  WriteString(w, s) \in W[N]
<1> DEFINE f == CHOOSE out : Bytewise(w, s, N, out)
<1>1. WriteString(w, s) = f[N]
  BY DEF WriteString, Bytewise
<1>2. Bytewise(w, s, N, f)
  BY BytewiseExists
<1> HIDE DEF f
<1> DEFINE S == {n \in 0 .. N : f[n] \in W[n]}
<1>3. 0 \in S
  BY <1>2 DEF Bytewise
<1>4. ASSUME NEW n \in 0 .. N - 1, n \in S PROVE n + 1 \in S
  <2>1. n + 1 \in 1 .. N /\ n + 1 \in 0 .. N /\ (n + 1) - 1 = n /\ n + 1 # 0
    OBVIOUS
  <2>2. f[n + 1] = WriteByte(f[n], Sanitize(s[n + 1]))
    BY <1>2, <2>1 DEF Bytewise
  <2>3. f[n] \in W[(n + 1) - 1]
    BY <1>4, <2>1
  <2>4. WriteByte(f[n], Sanitize(s[n + 1])) \in W[n + 1]
    BY <2>1, <2>3
  <2> QED BY <2>1, <2>2, <2>4
<1> HIDE DEF S
<1>5. \A n \in 0 .. N : n \in S
  BY <1>3, <1>4, CountingUp
<1> QED BY <1>1, <1>5 DEF S

(* Any string leaves a writer. *)
LEMMA WriteStringType ==
    ASSUME NEW w \in WriterType, NEW s \in Seq(Text)
    PROVE  WriteString(w, s) \in WriterType
<1>1. PICK N \in Nat : N = Len(s)
  BY LenProperties
<1> DEFINE W == [i \in 0 .. N |-> WriterType]
<1>2. w \in W[0] /\ W[N] = WriterType
  OBVIOUS
<1>3. ASSUME NEW i \in 1 .. N, NEW v \in W[i - 1] PROVE WriteByte(v, Sanitize(s[i])) \in W[i]
  <2>1. v \in WriterType /\ W[i] = WriterType
    OBVIOUS
  <2>2. s[i] \in Text
    BY <1>1, ElementOfSeq
  <2> HIDE DEF W
  <2> QED BY <2>1, <2>2, WriteBytePlaced DEF Placed
<1> HIDE DEF W
<1>4. WriteString(w, s) \in W[N]
  BY <1>1, <1>2, <1>3, WriteStringIn
<1> QED BY <1>2, <1>4

(* The writers at the start of an empty row. *)
Fresh == {v \in WriterType : v.column_position = 0 /\ v.chars[LastRow] = BlankRow}

(* A newline leaves one. *)
LEMMA NewLineFresh ==
    ASSUME NEW w \in WriterType
    PROVE  /\ WriteByte(w, Sanitize(NewLine)) \in Fresh
           /\ WriteByte(w, Sanitize(NewLine)).chars = ScrollUp(w).chars
<1> DEFINE v == ScrollUp(w)
<1>1. Sanitize(NewLine) = NewLine
  BY BytesAssumption DEF Sanitize
<1>2. WriteByte(w, Sanitize(NewLine)) = MoveHardwareCursor(v)
  BY <1>1 DEF WriteByte
<1>3. v \in WriterType /\ v.column_position = 0
  BY ScrollUpType
<1>4. v.chars[LastRow] = BlankRow
  BY SizeAssumption DEF ScrollUp, WriterType, LastRow
<1> HIDE DEF v
<1>5. LET z == MoveHardwareCursor(v)
      IN  z \in WriterType /\ z.chars = v.chars /\ z.column_position = v.column_position
  BY <1>3, MoveCursorType
<1>6. MoveHardwareCursor(v) \in Fresh /\ MoveHardwareCursor(v).chars = v.chars
  BY <1>3, <1>4, <1>5 DEF Fresh
<1> QED BY <1>2, <1>6 DEF v

(* So does a string that ends with one. *)
LEMMA LineFresh ==
    ASSUME NEW w \in WriterType, NEW s \in Seq(Text), s # << >>, Last(s) = NewLine
    PROVE  WriteString(w, s) \in Fresh
<1>1. PICK N \in Nat : N = Len(s) /\ N # 0
  BY EmptySeq
<1> DEFINE W == [i \in 0 .. N |-> IF i = N THEN Fresh ELSE WriterType]
<1>2. w \in W[0] /\ W[N] = Fresh
  BY <1>1
<1>3. ASSUME NEW i \in 1 .. N, NEW v \in W[i - 1] PROVE WriteByte(v, Sanitize(s[i])) \in W[i]
  <2>1. v \in WriterType /\ W[i] = IF i = N THEN Fresh ELSE WriterType
    OBVIOUS
  <2>2. s[i] \in Text
    BY <1>1, ElementOfSeq
  <2>3. i = N => s[i] = NewLine
    BY <1>1 DEF Last
  <2> HIDE DEF W
  <2>4. CASE i = N
    BY <2>1, <2>3, <2>4, NewLineFresh
  <2>5. CASE i # N
    BY <2>1, <2>2, <2>5, WriteBytePlaced DEF Placed
  <2> QED BY <2>4, <2>5
<1> HIDE DEF W
<1>4. WriteString(w, s) \in W[N]
  BY <1>1, <1>2, <1>3, WriteStringIn
<1> QED BY <1>2, <1>4

(* A byte on a row with room for it goes to the column, and nowhere else. *)
LEMMA WriteByteCell ==
    ASSUME NEW w \in WriterType, NEW b \in Visible \cup {Blank}, w.column_position < Width
    PROVE  LET v == WriteByte(w, Sanitize(b))
           IN  /\ v \in WriterType
               /\ v.column_position = w.column_position + 1
               /\ v.chars = [w.chars EXCEPT ![LastRow] =
                                [w.chars[LastRow] EXCEPT ![w.column_position] = b]]
<1> DEFINE col == w.column_position
           u == PutCell(w, col, b)
           x == [u EXCEPT !.column_position = col + 1]
<1>1. Sanitize(b) = b /\ b # NewLine /\ b \in Cell
  BY BytesAssumption DEF Sanitize, Cell, Blank, NewLine
<1>2. col \in 0 .. Width - 1 /\ col + 1 \in 0 .. Width /\ ~(col >= Width)
  BY SizeAssumption DEF WriterType
<1>3. WriteByte(w, Sanitize(b)) = MoveHardwareCursor(x)
  BY <1>1, <1>2 DEF WriteByte
<1>4. /\ x.chars = [w.chars EXCEPT ![LastRow] = [w.chars[LastRow] EXCEPT ![col] = b]]
      /\ x.column_position = col + 1
  BY DEF PutCell, WriterType
<1>5. x \in WriterType
  <2> HIDE DEF col
  <2> QED BY <1>1, <1>2, PutCellType
<1> HIDE DEF x
<1>6. LET z == MoveHardwareCursor(x)
      IN  z \in WriterType /\ z.chars = x.chars /\ z.column_position = x.column_position
  BY <1>5, MoveCursorType
<1> QED BY <1>3, <1>4, <1>6

(* v is w with the first n bytes of s on its last row. *)
OnRow(v, w, s, n) ==
    /\ v \in WriterType
    /\ v.column_position = n
    /\ \A row \in 0 .. Height - 1 : row # LastRow => v.chars[row] = w.chars[row]
    /\ \A col \in 0 .. Width - 1 :
          v.chars[LastRow][col] = IF col < n THEN s[col + 1] ELSE Blank

(* One byte more. *)
LEMMA OnRowMore ==
    ASSUME NEW w, NEW s, NEW i \in Nat, i > 0, i <= Width, s[i] \in Visible \cup {Blank},
           NEW v, OnRow(v, w, s, i - 1)
    PROVE  OnRow(WriteByte(v, Sanitize(s[i])), w, s, i)
<1>1. v \in WriterType /\ v.column_position = i - 1 /\ i - 1 < Width /\ i - 1 \in 0 .. Width - 1
  BY SizeAssumption DEF OnRow
<1> DEFINE u == WriteByte(v, Sanitize(s[i]))
<1>2. /\ u \in WriterType
      /\ u.column_position = (i - 1) + 1
      /\ u.chars = [v.chars EXCEPT ![LastRow] = [v.chars[LastRow] EXCEPT ![i - 1] = s[i]]]
  BY <1>1, WriteByteCell
<1> HIDE DEF u
<1>3. LastRow \in 0 .. Height - 1
  BY SizeAssumption DEF LastRow
<1>4. ASSUME NEW row \in 0 .. Height - 1, row # LastRow PROVE u.chars[row] = w.chars[row]
  <2>1. u.chars[row] = v.chars[row]
    BY <1>1, <1>2, <1>4 DEF WriterType
  <2> QED BY <1>4, <2>1 DEF OnRow
<1>5. ASSUME NEW col \in 0 .. Width - 1
      PROVE  u.chars[LastRow][col] = IF col < i THEN s[col + 1] ELSE Blank
  <2>1. u.chars[LastRow] = [v.chars[LastRow] EXCEPT ![i - 1] = s[i]]
    BY <1>1, <1>2, <1>3 DEF WriterType
  <2>2. v.chars[LastRow] \in [0 .. Width - 1 -> Cell]
    BY <1>1, <1>3 DEF WriterType
  <2>3. v.chars[LastRow][col] = IF col < i - 1 THEN s[col + 1] ELSE Blank
    BY DEF OnRow
  <2>4. CASE col = i - 1
    <3>1. u.chars[LastRow][col] = s[i] /\ col + 1 = i /\ col < i
      BY <2>1, <2>2, <2>4, SizeAssumption
    <3> QED BY <3>1
  <2>5. CASE col # i - 1
    <3>1. u.chars[LastRow][col] = v.chars[LastRow][col]
      BY <2>1, <2>2, <2>5
    <3>2. col < i <=> col < i - 1
      BY <2>5, SizeAssumption
    <3> QED BY <2>3, <3>1, <3>2
  <2> QED BY <2>4, <2>5
<1>6. (i - 1) + 1 = i
  OBVIOUS
<1>7. OnRow(u, w, s, i)
  BY <1>2, <1>4, <1>5, <1>6 DEF OnRow
<1> QED BY <1>7 DEF u

(* A text of one row, written at the start of an empty one. *)
LEMMA WriteOnRow ==
    ASSUME NEW w \in Fresh, NEW s \in Seq(Visible \cup {Blank}), Len(s) <= Width
    PROVE  OnRow(WriteString(w, s), w, s, Len(s))
<1>1. PICK N \in Nat : N = Len(s)
  BY LenProperties
<1> DEFINE W == [i \in 0 .. N |-> {v \in WriterType : OnRow(v, w, s, i)}]
<1>2. OnRow(w, w, s, 0)
  <2>1. ASSUME NEW col \in 0 .. Width - 1 PROVE w.chars[LastRow][col] = Blank /\ ~(col < 0)
    BY SizeAssumption DEF Fresh, BlankRow
  <2> QED BY <2>1 DEF OnRow, Fresh
<1>3. w \in W[0] /\ \A v \in W[N] : OnRow(v, w, s, N)
  BY <1>2 DEF Fresh
<1>4. ASSUME NEW i \in 1 .. N, NEW v \in W[i - 1] PROVE WriteByte(v, Sanitize(s[i])) \in W[i]
  <2>1. OnRow(v, w, s, i - 1)
    OBVIOUS
  <2>2. s[i] \in Visible \cup {Blank} /\ i \in Nat /\ i > 0 /\ i <= Width
    BY <1>1, ElementOfSeq, SizeAssumption
  <2>3. OnRow(WriteByte(v, Sanitize(s[i])), w, s, i)
    BY <2>1, <2>2, OnRowMore
  <2>4. WriteByte(v, Sanitize(s[i])) \in WriterType
    BY <2>3 DEF OnRow
  <2> QED BY <2>3, <2>4
<1> HIDE DEF W
<1>5. WriteString(w, s) \in W[N]
  BY <1>1, <1>3, <1>4, WriteStringIn
<1> QED BY <1>1, <1>3, <1>5
=============================================================================
