-------------------------- MODULE VgaWriter_proofs --------------------------
(***************************************************************************)
(* Proofs for VgaWriter.tla, for every screen size and alphabet.           *)
(***************************************************************************)
EXTENDS VgaWriter, VgaBuffer_proofs

(* The induction behind the theorems: Placed holds of the writer that  *)
(* clear_screen leaves at boot and after every call on it.                 *)
LEMMA WriterPlaced == Spec => []Placed(writer)
<1>1. Init => Placed(writer)
  <2> DEFINE w == [chars |-> [row \in 0 .. Height - 1 |-> BlankRow],
                   column_position |-> 0, cursor |-> 0]
  <2>1. w \in WriterType
    BY SizeAssumption DEF WriterType, BlankRow, Cell
  <2> HIDE DEF w
  <2>2. Placed(ClearScreen(w))
    BY <2>1, ClearScreenPlaced
  <2> QED BY <2>2 DEF Init, ClearedWriter, w
<1>2. Placed(writer) /\ [Next]_vars => Placed(writer)'
  <2> SUFFICES ASSUME Placed(writer), [Next]_vars
               PROVE  Placed(writer')
    BY DEF Placed, WriterType, Cell
  <2>0. writer \in WriterType
    BY DEF Placed
  <2>1. ASSUME NEW b \in Text, PrintByte(b)
        PROVE  Placed(writer')
    BY <2>0, <2>1, WriteBytePlaced DEF PrintByte
  <2>2. CASE Clear
    BY <2>0, <2>2, ClearScreenPlaced DEF Clear
  <2>3. CASE EraseLast
    BY <2>3, BackspacePlaced DEF EraseLast
  <2>4. CASE UNCHANGED vars
    BY <2>4 DEF vars
  <2> QED BY <2>1, <2>2, <2>3, <2>4 DEF Next
<1> QED BY <1>1, <1>2, PTL DEF Spec

(* Whatever is printed, cleared and erased, and in whatever order, the     *)
(* screen keeps its shape and the column never leaves 0 .. Width: the      *)
(* indexing of write_byte, new_line and backspace is always in bounds, on  *)
(* a screen of any size.                                                   *)
THEOREM WriterTypeOK == Spec => []TypeOK
<1>1. Placed(writer) => TypeOK
  BY DEF Placed, TypeOK
<1> QED BY <1>1, WriterPlaced, PTL

-----------------------------------------------------------------------------
(* The screen and the rows that were printed.                              *)

(* A row that fits, and a history of them that fits. *)
Row == {row \in Seq(Cell) : Len(row) <= Width}
RowsOK(r) == r \in Seq(Row) /\ Len(r) \in 1 .. Height

(* What the screen shows k rows above the last one. *)
RowShown(r, k) == IF k < Len(r) THEN Padded(r[Len(r) - k]) ELSE BlankRow

Shows(chars, r) == \A k \in 0 .. Height - 1 : chars[LastRow - k] = RowShown(r, k)

(* m ends with the row x; above it stands what r shows above its last row. *)
EndsIn(m, x, r) ==
    /\ RowsOK(m) /\ Last(m) = x /\ RowShown(m, 0) = Padded(x)
    /\ \A k \in 1 .. Height - 1 : RowShown(m, k) = RowShown(r, k)

(* The same with what r shows one row lower. *)
PushesUp(m, x, r) ==
    /\ RowsOK(m) /\ Last(m) = x /\ RowShown(m, 0) = Padded(x)
    /\ \A k \in 1 .. Height - 1 : RowShown(m, k) = RowShown(r, k - 1)

(* A new row at the end pushes the others up, the oldest out. *)
LEMMA NewestAppend ==
    ASSUME NEW r, RowsOK(r), NEW x \in Row
    PROVE  PushesUp(Newest(Append(r, x)), x, r)
<1> DEFINE q == Append(r, x)
           m == Newest(q)
<1>1. r \in Seq(Row) /\ Len(r) \in 1 .. Height /\ Len(r) \in Nat /\ Height \in Nat
  BY SizeAssumption DEF RowsOK
<1>2. /\ q \in Seq(Row) /\ Len(q) = Len(r) + 1 /\ q[Len(r) + 1] = x
      /\ \A i \in 1 .. Len(r) : q[i] = r[i]
  BY <1>1, AppendProperties
<1>3. q # << >>
  BY <1>1, <1>2
<1> HIDE DEF q
<1>4. /\ Tail(q) \in Seq(Row) /\ Len(Tail(q)) = Len(r)
      /\ \A i \in 1 .. Len(r) : Tail(q)[i] = q[i + 1]
  BY <1>1, <1>2, <1>3, HeadTailProperties
<1>5. CASE Len(q) > Height
  <2>1. m = Tail(q) /\ Len(r) = Height
    BY <1>1, <1>2, <1>5 DEF Newest
  <2>2. Len(m) = Height /\ m \in Seq(Row)
    BY <1>4, <2>1
  <2> HIDE DEF m
  <2>3. RowsOK(m)
    BY <1>1, <2>1, <2>2 DEF RowsOK
  <2>4. m[Height] = x
    BY <1>1, <1>2, <1>4, <2>1
  <2>5. Last(m) = x /\ RowShown(m, 0) = Padded(x)
    BY <1>1, <2>1, <2>2, <2>4 DEF Last, RowShown
  <2>6. ASSUME NEW k \in 1 .. Height - 1 PROVE RowShown(m, k) = RowShown(r, k - 1)
    <3>1. /\ Height - k \in 1 .. Len(r) /\ (Height - k) + 1 \in 1 .. Len(r)
          /\ (Height - k) + 1 = Len(r) - (k - 1) /\ k < Len(m) /\ k - 1 < Len(r)
      BY <1>1, <2>1, <2>2
    <3>2. m[Height - k] = r[Len(r) - (k - 1)]
      BY <1>2, <1>4, <2>1, <3>1
    <3> QED BY <2>2, <3>1, <3>2 DEF RowShown
  <2> QED BY <2>3, <2>5, <2>6 DEF PushesUp, m, q
<1>6. CASE ~(Len(q) > Height)
  <2>1. m = q
    BY <1>6 DEF Newest
  <2>2. Len(m) = Len(r) + 1 /\ m \in Seq(Row) /\ Len(r) + 1 \in 1 .. Height
    BY <1>1, <1>2, <1>6, <2>1
  <2> HIDE DEF m
  <2>3. RowsOK(m)
    BY <1>1, <2>2 DEF RowsOK
  <2>4. m[Len(r) + 1] = x
    BY <1>2, <2>1
  <2>5. Last(m) = x /\ RowShown(m, 0) = Padded(x)
    BY <1>1, <2>2, <2>4 DEF Last, RowShown
  <2>6. ASSUME NEW k \in 1 .. Height - 1 PROVE RowShown(m, k) = RowShown(r, k - 1)
    <3>1. CASE k < Len(m)
      <4>1. /\ Len(m) - k \in 1 .. Len(r) /\ Len(m) - k = Len(r) - (k - 1) /\ k - 1 < Len(r)
        BY <1>1, <2>2, <3>1
      <4>2. m[Len(m) - k] = r[Len(r) - (k - 1)]
        BY <1>2, <2>1, <4>1
      <4> QED BY <3>1, <4>1, <4>2 DEF RowShown
    <3>2. CASE ~(k < Len(m))
      <4>1. ~(k - 1 < Len(r))
        BY <1>1, <2>2, <3>2
      <4> QED BY <3>2, <4>1 DEF RowShown
    <3> QED BY <3>1, <3>2
  <2> QED BY <2>3, <2>5, <2>6 DEF PushesUp, m, q
<1> QED BY <1>5, <1>6

(* Writing on the last row or erasing from it replaces that row alone. *)
LEMMA ReplaceLast ==
    ASSUME NEW r, RowsOK(r), NEW x \in Row
    PROVE  EndsIn(Append(Front(r), x), x, r)
<1> DEFINE p == Front(r)
           m == Append(p, x)
<1>1. r \in Seq(Row) /\ Len(r) \in 1 .. Height /\ Len(r) \in Nat /\ Height \in Nat
  BY SizeAssumption DEF RowsOK
<1>4. p \in Seq(Row) /\ Len(p) = Len(r) - 1 /\ \A i \in 1 .. Len(r) - 1 : p[i] = r[i]
  BY <1>1, FrontProperties
<1> HIDE DEF p
<1>6. /\ m \in Seq(Row) /\ Len(m) = Len(p) + 1 /\ m[Len(p) + 1] = x
      /\ \A i \in 1 .. Len(p) : m[i] = p[i]
  BY <1>4, AppendProperties
<1>7. Len(m) = Len(r) /\ m[Len(r)] = x
  BY <1>1, <1>4, <1>6
<1> HIDE DEF m
<1>8. RowsOK(m) /\ Last(m) = x /\ RowShown(m, 0) = Padded(x)
  BY <1>1, <1>6, <1>7 DEF RowsOK, Last, RowShown
<1>9. ASSUME NEW k \in 1 .. Height - 1 PROVE RowShown(m, k) = RowShown(r, k)
  <2>1. CASE k < Len(r)
    <3>1. Len(r) - k \in 1 .. Len(r) - 1 /\ Len(r) - k \in 1 .. Len(p)
      BY <1>1, <1>4, <2>1
    <3>2. m[Len(r) - k] = r[Len(r) - k]
      BY <1>4, <1>6, <3>1
    <3> QED BY <1>7, <2>1, <3>2 DEF RowShown
  <2>2. CASE ~(k < Len(r))
    BY <1>7, <2>2 DEF RowShown
  <2> QED BY <2>1, <2>2
<1> QED BY <1>8, <1>9 DEF EndsIn, m, p

(* An empty row is shown blank. *)
LEMMA PaddedEmpty == Padded(<< >>) = BlankRow /\ << >> \in Row
BY SizeAssumption DEF Padded, BlankRow, Row

(* The cell after the end of a row, written. *)
LEMMA PaddedAppend ==
    ASSUME NEW x \in Row, NEW c \in Cell, Len(x) < Width
    PROVE  /\ Append(x, c) \in Row /\ Len(Append(x, c)) = Len(x) + 1
           /\ [Padded(x) EXCEPT ![Len(x)] = c] = Padded(Append(x, c))
<1>1. x \in Seq(Cell) /\ Len(x) \in Nat /\ Width \in Nat
  BY SizeAssumption, LenProperties DEF Row
<1> DEFINE y == Append(x, c)
<1>2. /\ y \in Seq(Cell) /\ Len(y) = Len(x) + 1 /\ y[Len(x) + 1] = c
      /\ \A i \in 1 .. Len(x) : y[i] = x[i]
  BY <1>1, AppendProperties
<1> HIDE DEF y
<1>3. y \in Row
  BY <1>1, <1>2 DEF Row
<1>4. ASSUME NEW col \in 0 .. Width - 1
      PROVE  [Padded(x) EXCEPT ![Len(x)] = c][col] = Padded(y)[col]
  <2>1. CASE col = Len(x)
    BY <1>1, <1>2, <2>1 DEF Padded
  <2>2. CASE col < Len(x)
    <3>1. y[col + 1] = x[col + 1]
      BY <1>1, <1>2, <2>2
    <3> QED BY <1>1, <1>2, <2>2, <3>1 DEF Padded
  <2>3. CASE col > Len(x)
    BY <1>1, <1>2, <2>3 DEF Padded
  <2> QED BY <1>1, <2>1, <2>2, <2>3
<1>5. [Padded(x) EXCEPT ![Len(x)] = c] = Padded(y)
  BY <1>4 DEF Padded
<1> QED BY <1>2, <1>3, <1>5 DEF y

(* The last cell of a row, erased. *)
LEMMA PaddedFront ==
    ASSUME NEW x \in Row, Len(x) > 0
    PROVE  /\ Front(x) \in Row /\ Len(Front(x)) = Len(x) - 1
           /\ [Padded(x) EXCEPT ![Len(x) - 1] = Blank] = Padded(Front(x))
<1>1. x \in Seq(Cell) /\ Len(x) \in Nat /\ Width \in Nat /\ Len(x) <= Width
  BY SizeAssumption, LenProperties DEF Row
<1> DEFINE y == Front(x)
<1>2. y \in Seq(Cell) /\ Len(y) = Len(x) - 1 /\ \A i \in 1 .. Len(x) - 1 : y[i] = x[i]
  BY <1>1, FrontProperties
<1> HIDE DEF y
<1>3. y \in Row
  BY <1>1, <1>2 DEF Row
<1>4. ASSUME NEW col \in 0 .. Width - 1
      PROVE  [Padded(x) EXCEPT ![Len(x) - 1] = Blank][col] = Padded(y)[col]
  <2>1. CASE col = Len(x) - 1
    BY <1>1, <1>2, <2>1 DEF Padded
  <2>2. CASE col < Len(x) - 1
    <3>1. y[col + 1] = x[col + 1]
      BY <1>1, <1>2, <2>2
    <3> QED BY <1>1, <1>2, <2>2, <3>1 DEF Padded
  <2>3. CASE col > Len(x) - 1
    BY <1>1, <1>2, <2>3 DEF Padded
  <2> QED BY <1>1, <2>1, <2>2, <2>3
<1>5. [Padded(x) EXCEPT ![Len(x) - 1] = Blank] = Padded(y)
  BY <1>4 DEF Padded
<1> QED BY <1>2, <1>3, <1>5 DEF y

(* new_line shows the rows pushed up by an empty one. *)
LEMMA ScrollShows ==
    ASSUME NEW w \in WriterType, NEW r, RowsOK(r), Shows(w.chars, r), NEW m,
           PushesUp(m, << >>, r)
    PROVE  Shows(ScrollUp(w).chars, m)
<1> DEFINE chars == [row \in 0 .. Height - 1 |->
                        IF row = LastRow THEN BlankRow ELSE w.chars[row + 1]]
<1>1. ScrollUp(w).chars = chars
  BY DEF ScrollUp, WriterType
<1>2. ASSUME NEW k \in 0 .. Height - 1 PROVE chars[LastRow - k] = RowShown(m, k)
  <2>1. LastRow - k \in 0 .. Height - 1
    BY SizeAssumption DEF LastRow
  <2>2. CASE k = 0
    <3>1. chars[LastRow - k] = BlankRow
      BY <2>1, <2>2, SizeAssumption DEF LastRow
    <3> QED BY <2>2, <3>1, PaddedEmpty DEF PushesUp
  <2>3. CASE k # 0
    <3>1. LastRow - k # LastRow /\ LastRow - k + 1 = LastRow - (k - 1)
          /\ k - 1 \in 0 .. Height - 1 /\ k \in 1 .. Height - 1
      BY <2>3, SizeAssumption DEF LastRow
    <3>2. chars[LastRow - k] = w.chars[LastRow - (k - 1)]
      BY <2>1, <3>1
    <3>3. w.chars[LastRow - (k - 1)] = RowShown(r, k - 1)
      BY <3>1 DEF Shows
    <3>4. RowShown(m, k) = RowShown(r, k - 1)
      BY <3>1 DEF PushesUp
    <3> QED BY <3>2, <3>3, <3>4
  <2> QED BY <2>2, <2>3
<1> QED BY <1>1, <1>2 DEF Shows

(* A cell of the last row, written: the last row of the history changes    *)
(* from x to y.                                                            *)
LEMMA PutCellShows ==
    ASSUME NEW w \in WriterType, NEW r, Shows(w.chars, r), NEW x, NEW y, NEW m,
           RowShown(r, 0) = Padded(x), EndsIn(m, y, r),
           NEW col \in 0 .. Width - 1, NEW c \in Cell,
           [Padded(x) EXCEPT ![col] = c] = Padded(y)
    PROVE  Shows(PutCell(w, col, c).chars, m)
<1> DEFINE chars == [w.chars EXCEPT ![LastRow] = [w.chars[LastRow] EXCEPT ![col] = c]]
<1>1. PutCell(w, col, c).chars = chars
  BY DEF PutCell, WriterType
<1>2. ASSUME NEW k \in 0 .. Height - 1 PROVE chars[LastRow - k] = RowShown(m, k)
  <2>1. LastRow - k \in 0 .. Height - 1 /\ LastRow \in 0 .. Height - 1
    BY SizeAssumption DEF LastRow
  <2>2. w.chars \in [0 .. Height - 1 -> [0 .. Width - 1 -> Cell]]
    BY DEF WriterType
  <2>3. CASE k = 0
    <3>1. LastRow - k = LastRow
      BY <2>1, <2>3
    <3>2. w.chars[LastRow] = Padded(x)
      BY <2>3, <3>1 DEF Shows
    <3> QED BY <2>1, <2>2, <2>3, <3>1, <3>2 DEF EndsIn
  <2>4. CASE k # 0
    <3>1. LastRow - k # LastRow /\ k \in 1 .. Height - 1
      BY <2>1, <2>4
    <3>2. chars[LastRow - k] = w.chars[LastRow - k]
      BY <2>1, <2>2, <3>1
    <3>3. w.chars[LastRow - k] = RowShown(r, k) /\ RowShown(m, k) = RowShown(r, k)
      BY <3>1 DEF Shows, EndsIn
    <3> QED BY <3>2, <3>3
  <2> QED BY <2>3, <2>4
<1> QED BY <1>1, <1>2 DEF Shows

(* The writer w shows the rows r and writes on after the last of them. *)
Correct(w, r) ==
    /\ w \in WriterType
    /\ RowsOK(r)
    /\ w.column_position = Len(Last(r))
    /\ Shows(w.chars, r)

(* The last row of a history that is shown. *)
LEMMA LastShown ==
    ASSUME NEW r, RowsOK(r)
    PROVE  /\ Last(r) \in Row /\ Len(Last(r)) \in 0 .. Width
           /\ RowShown(r, 0) = Padded(Last(r))
<1>1. r \in Seq(Row) /\ Len(r) \in Nat /\ Len(r) \in 1 .. Len(r)
  BY SizeAssumption DEF RowsOK
<1>2. Last(r) \in Row
  BY <1>1, ElementOfSeq DEF Last
<1>3. Len(Last(r)) \in 0 .. Width
  BY <1>2, LenProperties, SizeAssumption DEF Row
<1>4. RowShown(r, 0) = Padded(Last(r))
  BY <1>1 DEF RowShown, Last
<1> QED BY <1>2, <1>3, <1>4

(* A byte on a row with room for it. *)
LEMMA WriteCellCorrect ==
    ASSUME NEW w, NEW r, Correct(w, r), NEW c \in Cell, w.column_position < Width, NEW m,
           EndsIn(m, Append(Last(r), c), r)
    PROVE  Correct(MoveHardwareCursor([PutCell(w, w.column_position, c)
                                          EXCEPT !.column_position = w.column_position + 1]), m)
<1> DEFINE x == Last(r)
           col == w.column_position
           u == PutCell(w, col, c)
           v == [u EXCEPT !.column_position = col + 1]
<1>1. x \in Row /\ col = Len(x) /\ RowShown(r, 0) = Padded(x) /\ w \in WriterType
  BY LastShown DEF Correct
<1>2. col \in 0 .. Width - 1 /\ col + 1 \in 0 .. Width
  BY SizeAssumption DEF Correct, WriterType
<1>3. /\ Len(Append(x, c)) = col + 1
      /\ [Padded(x) EXCEPT ![col] = c] = Padded(Append(x, c))
  BY <1>1, <1>2, SizeAssumption, PaddedAppend
<1> HIDE DEF x
<1>4. EndsIn(m, Append(x, c), r)
  BY DEF x
<1>5. Shows(u.chars, m)
  <2> HIDE DEF col
  <2>1. Shows(w.chars, r)
    BY DEF Correct
  <2> QED BY <1>1, <1>2, <1>3, <1>4, <2>1, PutCellShows
<1>6. v \in WriterType /\ v.chars = u.chars /\ v.column_position = col + 1
  <2>1. v \in WriterType
    <3> HIDE DEF col
    <3> QED BY <1>1, <1>2, PutCellType
  <2>2. v.chars = u.chars /\ v.column_position = col + 1
    BY <1>1 DEF PutCell, WriterType
  <2> QED BY <2>1, <2>2
<1> HIDE DEF v, u
<1>7. LET z == MoveHardwareCursor(v)
      IN  z \in WriterType /\ z.chars = v.chars /\ z.column_position = v.column_position
  BY <1>6, MoveCursorType
<1>8. RowsOK(m) /\ Last(m) = Append(x, c)
  BY <1>4 DEF EndsIn
<1>9. Correct(MoveHardwareCursor(v), m)
  BY <1>3, <1>5, <1>6, <1>7, <1>8 DEF Correct
<1> QED BY <1>9 DEF v, u

(* A new line. *)
LEMMA ScrollCorrect ==
    ASSUME NEW w, NEW r, Correct(w, r)
    PROVE  Correct(ScrollUp(w), Newest(Append(r, << >>)))
<1>1. PushesUp(Newest(Append(r, << >>)), << >>, r)
  BY PaddedEmpty, NewestAppend DEF Correct
<1>2. ScrollUp(w) \in WriterType /\ ScrollUp(w).column_position = 0
  BY ScrollUpType DEF Correct
<1> DEFINE m == Newest(Append(r, << >>))
<1> HIDE DEF m
<1>3. PushesUp(m, << >>, r)
  BY <1>1 DEF m
<1>4. Shows(ScrollUp(w).chars, m)
  BY <1>3, ScrollShows DEF Correct
<1>5. RowsOK(m) /\ Len(Last(m)) = 0
  BY <1>3 DEF PushesUp
<1>6. Correct(ScrollUp(w), m)
  BY <1>2, <1>4, <1>5 DEF Correct
<1> QED BY <1>6 DEF m

(* Moving the hardware cursor leaves the text alone. *)
LEMMA MoveCorrect ==
    ASSUME NEW w, NEW r, Correct(w, r)
    PROVE  Correct(MoveHardwareCursor(w), r)
<1>1. LET z == MoveHardwareCursor(w)
      IN  z \in WriterType /\ z.chars = w.chars /\ z.column_position = w.column_position
  BY MoveCursorType DEF Correct
<1> QED BY <1>1 DEF Correct

(* One byte of a print!. *)
LEMMA PrintByteCorrect ==
    ASSUME Correct(writer, rows), NEW b \in Text,
           PrintByte(b)
    PROVE  Correct(writer', rows')
<1> DEFINE c == Sanitize(b)
           row == Last(rows)
<1>0. row \in Row /\ Len(row) \in 0 .. Width /\ writer.column_position = Len(row)
  BY LastShown DEF Correct
<1>1. CASE b = NewLine
  <2>1. c = NewLine
    BY <1>1, BytesAssumption DEF Sanitize
  <2>2. writer' = MoveHardwareCursor(ScrollUp(writer)) /\ rows' = Newest(Append(rows, << >>))
    BY <1>1, <2>1 DEF PrintByte, WriteByte, RowsAfter
  <2> QED BY <2>2, ScrollCorrect, MoveCorrect
<1>2. CASE b # NewLine
  <2>1. c \in Cell /\ c # NewLine
    BY <1>2 DEF Text, Sanitize, Cell, UnknownChar, NewLine
  <2>2. CASE Len(row) = Width
    <3> DEFINE v == ScrollUp(writer)
               m0 == Newest(Append(rows, << >>))
               m == Newest(Append(rows, <<c>>))
    <3>1. writer.column_position >= Width
      BY <1>0, <2>2, SizeAssumption
    <3>2. writer' = MoveHardwareCursor([PutCell(v, v.column_position, c)
                                          EXCEPT !.column_position = v.column_position + 1])
      BY <2>1, <3>1 DEF PrintByte, WriteByte
    <3>3. rows' = m
      BY <1>2, <2>2 DEF PrintByte, RowsAfter
    <3>4. Correct(v, m0) /\ v.column_position = 0
      BY ScrollCorrect, ScrollUpType DEF Correct
    <3>5. <<c>> \in Row
      BY <2>1, SizeAssumption DEF Row
    <3>6. PushesUp(m, <<c>>, rows) /\ PushesUp(m0, << >>, rows)
      BY <3>5, PaddedEmpty, NewestAppend DEF Correct
    <3> HIDE DEF m, m0, v
    <3>7. Last(m0) = << >>
      BY <3>6 DEF PushesUp
    <3>8. Append(Last(m0), c) = <<c>>
      BY <3>7
    <3>9. EndsIn(m, Append(Last(m0), c), m0)
      BY <3>6, <3>8 DEF PushesUp, EndsIn
    <3>10. v.column_position < Width
      BY <3>4, SizeAssumption
    <3> HIDE DEF c
    <3>11. Correct(MoveHardwareCursor([PutCell(v, v.column_position, c)
                                          EXCEPT !.column_position = v.column_position + 1]), m)
      BY <2>1, <3>4, <3>9, <3>10, WriteCellCorrect
    <3> QED BY <3>2, <3>3, <3>11
  <2>3. CASE Len(row) # Width
    <3>1. writer.column_position < Width /\ ~(writer.column_position >= Width)
      BY <1>0, <2>3, SizeAssumption
    <3>2. writer' = MoveHardwareCursor([PutCell(writer, writer.column_position, c)
                                 EXCEPT !.column_position = writer.column_position + 1])
      BY <2>1, <3>1 DEF PrintByte, WriteByte
    <3>3. rows' = Append(Front(rows), Append(row, c))
      BY <1>2, <2>3 DEF PrintByte, RowsAfter
    <3>4. Append(row, c) \in Row
      BY <1>0, <2>1, <3>1, PaddedAppend
    <3> DEFINE m == Append(Front(rows), Append(row, c))
    <3>5. EndsIn(m, Append(Last(rows), c), rows)
      BY <3>4, ReplaceLast DEF Correct
    <3> HIDE DEF m, c
    <3>6. Correct(MoveHardwareCursor([PutCell(writer, writer.column_position, c)
                                 EXCEPT !.column_position = writer.column_position + 1]), m)
      BY <2>1, <3>1, <3>5, WriteCellCorrect
    <3> QED BY <3>2, <3>3, <3>6 DEF m
  <2> QED BY <2>2, <2>3
<1> QED BY <1>1, <1>2

(* clear_screen shows one empty row. *)
LEMMA ClearCorrect ==
    ASSUME NEW w \in WriterType
    PROVE  Correct(ClearScreen(w), << << >> >>)
<1> DEFINE chars == [row \in 0 .. Height - 1 |-> BlankRow]
           v == [w EXCEPT !.chars = chars, !.column_position = 0]
           r == << << >> >>
<1>1. chars \in [0 .. Height - 1 -> [0 .. Width - 1 -> Cell]] /\ 0 \in 0 .. Width
  BY SizeAssumption DEF BlankRow, Cell
<1>2. v \in WriterType /\ v.chars = chars /\ v.column_position = 0
  BY <1>1 DEF WriterType
<1>3. RowsOK(r) /\ Last(r) = << >> /\ Len(r) = 1 /\ r[1] = << >>
  BY PaddedEmpty, SizeAssumption DEF RowsOK, Last
<1>4. \A k \in 0 .. Height - 1 : RowShown(r, k) = BlankRow
  <2> HIDE DEF r
  <2> QED BY <1>3, PaddedEmpty DEF RowShown
<1>5. \A k \in 0 .. Height - 1 : chars[LastRow - k] = BlankRow
  BY SizeAssumption DEF LastRow
<1> HIDE DEF v, r, chars
<1>6. Correct(v, r)
  BY <1>2, <1>3, <1>4, <1>5 DEF Correct, Shows
<1>7. ClearScreen(w) = MoveHardwareCursor(v)
  BY DEF ClearScreen, v, chars
<1>8. Correct(ClearScreen(w), r)
  BY <1>6, <1>7, MoveCorrect
<1> QED BY <1>8 DEF r

(* backspace takes the last byte of the last row, or nothing. *)
LEMMA EraseCorrect ==
    ASSUME Correct(writer, rows), EraseLast
    PROVE  Correct(writer', rows')
<1> DEFINE x == Last(rows)
           col == writer.column_position - 1
           u == PutCell(writer, col, Blank)
           v == [u EXCEPT !.column_position = col]
           m == Append(Front(rows), Front(x))
<1>0. /\ x \in Row /\ Len(x) \in 0 .. Width /\ writer.column_position = Len(x)
      /\ RowShown(rows, 0) = Padded(x) /\ writer \in WriterType /\ x \in Seq(Cell)
  BY LastShown DEF Correct, Row
<1>1. CASE x = << >>
  <2>1. Len(x) = 0
    BY <1>1
  <2>2. writer' = writer /\ rows' = rows
    BY <1>0, <1>1, <2>1 DEF EraseLast, Backspace
  <2> QED BY <2>2
<1>2. CASE x # << >>
  <2>1. Len(x) \in 1 .. Width /\ Len(x) > 0
    BY <1>0, <1>2, EmptySeq
  <2>2. /\ col = Len(x) - 1 /\ col \in 0 .. Width - 1 /\ col \in 0 .. Width
        /\ writer.column_position # 0 /\ Blank \in Cell
    BY <1>0, <2>1, SizeAssumption DEF Cell
  <2>3. writer' = MoveHardwareCursor(v) /\ rows' = m
    BY <1>2, <2>2 DEF EraseLast, Backspace
  <2>4. /\ Front(x) \in Row /\ Len(Front(x)) = col
        /\ [Padded(x) EXCEPT ![col] = Blank] = Padded(Front(x))
    BY <1>0, <2>1, <2>2, PaddedFront
  <2>5. EndsIn(m, Front(x), rows)
    BY <2>4, ReplaceLast DEF Correct
  <2>6. v.chars = u.chars /\ v.column_position = col
    BY <1>0 DEF PutCell, WriterType
  <2>7. v \in WriterType
    <3> HIDE DEF col
    <3> QED BY <1>0, <2>2, PutCellType
  <2>8. Shows(u.chars, m)
    <3> HIDE DEF col, m, x
    <3>1. Shows(writer.chars, rows)
      BY DEF Correct
    <3> QED BY <1>0, <2>2, <2>4, <2>5, <3>1, PutCellShows
  <2>9. RowsOK(m) /\ Last(m) = Front(x)
    BY <2>5 DEF EndsIn
  <2> HIDE DEF u, v, m, col, x
  <2>10. Correct(v, m)
    BY <2>4, <2>6, <2>7, <2>8, <2>9 DEF Correct
  <2> QED BY <2>3, <2>10, MoveCorrect
<1> QED BY <1>1, <1>2

(* The screen shows the newest rows of what was printed                    *)
(* (ScreenShowsNewestRows), for a screen of any size and any sequence of   *)
(* calls: write_byte, new_line, backspace and clear_screen neither lose,   *)
(* smear nor reorder text.                                                 *)
THEOREM WriterShowsNewestRows == Spec => []ScreenShowsNewestRows
<1>1. Init => Correct(writer, rows)
  <2> DEFINE w == [chars |-> [row \in 0 .. Height - 1 |-> BlankRow],
                   column_position |-> 0, cursor |-> 0]
  <2>1. w \in WriterType
    BY SizeAssumption DEF WriterType, BlankRow, Cell
  <2> HIDE DEF w
  <2>2. Correct(ClearScreen(w), << << >> >>)
    BY <2>1, ClearCorrect
  <2> QED BY <2>2 DEF Init, ClearedWriter, w
<1>2. Correct(writer, rows) /\ [Next]_vars => Correct(writer, rows)'
  <2> SUFFICES ASSUME Correct(writer, rows), [Next]_vars
               PROVE  Correct(writer', rows')
    BY DEF Correct, WriterType, RowsOK, Row, Shows, RowShown, Last, Padded, Cell
  <2>1. ASSUME NEW b \in Text, PrintByte(b)
        PROVE  Correct(writer', rows')
    BY <2>1, PrintByteCorrect
  <2>2. CASE Clear
    BY <2>2, ClearCorrect DEF Clear, Correct
  <2>3. CASE EraseLast
    BY <2>3, EraseCorrect
  <2>4. CASE UNCHANGED vars
    BY <2>4 DEF vars
  <2> QED BY <2>1, <2>2, <2>3, <2>4 DEF Next
<1>3. Correct(writer, rows) => ScreenShowsNewestRows
  BY DEF Correct, Shows, RowShown, ScreenShowsNewestRows
<1> QED BY <1>1, <1>2, <1>3, PTL DEF Spec

-----------------------------------------------------------------------------
(* The cursor.                                                             *)

(* 16 bits number the cells of a screen of h rows of w cells, and the      *)
(* number of a cell of its last row tells the row and the column.          *)
Fits(w, h) == h * w <= 65536
Tells(w, h, col) ==
    /\ (((h - 1) * w + col) % 65536) \div w = h - 1
    /\ (((h - 1) * w + col) % 65536) % w = col

LEMMA CursorTells ==
    ASSUME NEW w \in Nat \ {0}, NEW h \in Nat \ {0}, NEW col \in 0 .. w - 1, Fits(w, h)
    PROVE  Tells(w, h, col)
<1> DEFINE n == (h - 1) * w + col
           size == h * w
<1>1. n \in 0 .. size - 1
  <2>1. (h - 1) * w = h * w - w /\ (h - 1) * w \in Nat /\ h * w \in Nat
    OBVIOUS
  <2> QED BY <2>1
<1>2. n \div w = h - 1
  OBVIOUS
<1>3. n % w = col
  OBVIOUS
<1>4. size \in Nat /\ size <= 65536
  BY DEF Fits
<1> HIDE DEF n, size
<1>5. n % 65536 = n
  BY <1>1, <1>4
<1>6. (n % 65536) \div w = h - 1 /\ (n % 65536) % w = col
  BY <1>2, <1>3, <1>5
<1> QED BY <1>6 DEF n, Tells

(* As long as the newest row has room the cursor stands on the last row,   *)
(* right behind what was written on it (CursorFollows), on a screen of any *)
(* size whose cells the 16 bits of the cursor registers can number and     *)
(* after any sequence of print, clear_screen and backspace.                *)
THEOREM WriterCursorFollows == Spec => []CursorFollows
<1>1. Placed(writer) /\ ScreenShowsNewestRows => CursorFollows
  <2> SUFFICES ASSUME Placed(writer), ScreenShowsNewestRows,
                      Len(Last(rows)) < Width, Height * Width <= 65536
               PROVE  /\ writer.cursor \div Width = LastRow
                      /\ writer.cursor % Width = Len(Last(rows))
    BY DEF CursorFollows
  <2> DEFINE col == writer.column_position
  <2>1. col = Len(Last(rows)) /\ col \in 0 .. Width - 1
    BY SizeAssumption DEF Placed, WriterType, ScreenShowsNewestRows
  <2>2. writer.cursor = ((Height - 1) * Width + col) % 65536
    BY DEF Placed
  <2>3. Width \in Nat \ {0} /\ Height \in Nat \ {0}
    BY SizeAssumption
  <2> HIDE DEF col
  <2>4. Tells(Width, Height, col)
    <3>1. Fits(Width, Height)
      BY DEF Fits
    <3> QED BY <2>1, <2>3, <3>1, CursorTells
  <2> QED BY <2>1, <2>2, <2>4 DEF LastRow, Tells
<1> QED BY <1>1, WriterPlaced, WriterShowsNewestRows, PTL
=============================================================================
