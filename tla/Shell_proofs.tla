---------------------------- MODULE Shell_proofs ----------------------------
(***************************************************************************)
(* Proofs about the shell, for every screen size, prompt, line capacity,   *)
(* set of words and replies.                                               *)
(***************************************************************************)
EXTENDS Shell, VgaBuffer_proofs

(* What a line holds and an echo prints. *)
Plain == Visible \cup {Blank}

(* The first and the last of some positions of a sequence. *)
LEMMA MinMaxOf ==
    ASSUME NEW N \in Nat, NEW S \in SUBSET (1 .. N), S # {}
    PROVE  Min(S) \in S /\ Max(S) \in S
<1>1. S \in SUBSET Nat
  OBVIOUS
<1>2. PICK m \in S : \A k \in S : m <= k
  BY <1>1, LeastNumber
<1>3. Min(S) \in S
  BY <1>2 DEF Min
<1> DEFINE B == {b \in Nat : \A k \in S : k <= b}
<1>4. B \in SUBSET Nat /\ N \in B
  OBVIOUS
<1>5. PICK b \in B : \A c \in B : b <= c
  <2> HIDE DEF B
  <2> QED BY <1>4, LeastNumber
<1>6. b \in S
  <2> SUFFICES ASSUME b \notin S PROVE FALSE
    OBVIOUS
  <2>1. \A k \in S : k \in Nat /\ k < b /\ k <= b - 1
    BY <1>5
  <2>2. b - 1 \in Nat
    BY <1>2, <1>5, <2>1
  <2>3. b - 1 \in B
    BY <2>1, <2>2
  <2> QED BY <1>5, <2>2, <2>3
<1>7. \A k \in S : b >= k
  BY <1>5
<1>8. Max(S) \in S
  BY <1>6, <1>7 DEF Max
<1> QED BY <1>3, <1>8

(* A piece of a line is made of the line's bytes. *)
LEMMA PieceType ==
    ASSUME NEW S, NEW s \in Seq(S), NEW m \in Int, m >= 1, NEW n \in Int, n <= Len(s)
    PROVE  SubSeq(s, m, n) \in Seq(S)
<1>1. \A i \in m .. n : s[i] \in S
  BY ElementOfSeq, LenProperties
<1> QED BY <1>1, SubSeqProperties

(* trim and split_once give words over the same bytes. *)
LEMMA WordTypes ==
    ASSUME NEW s \in Seq(Plain)
    PROVE  Trim(s) \in Seq(Plain) /\ FirstWord(s) \in Seq(Plain) /\ Rest(s) \in Seq(Plain)
<1>1. Len(s) \in Nat
  BY LenProperties
<1>2. Trim(s) \in Seq(Plain)
  <2> DEFINE inside == {i \in 1 .. Len(s) : s[i] # Blank}
  <2>1. CASE inside = {}
    BY <2>1, EmptySeq DEF Trim
  <2>2. CASE inside # {}
    <3>1. Trim(s) = SubSeq(s, Min(inside), Max(inside))
      BY <2>2 DEF Trim
    <3>2. inside \in SUBSET (1 .. Len(s))
      OBVIOUS
    <3> HIDE DEF inside
    <3>3. Min(inside) \in 1 .. Len(s) /\ Max(inside) \in 1 .. Len(s)
      BY <1>1, <2>2, <3>2, MinMaxOf
    <3> DEFINE a == Min(inside)
               b == Max(inside)
    <3>4. a \in Int /\ b \in Int /\ a >= 1 /\ b <= Len(s)
      BY <1>1, <3>3
    <3> HIDE DEF a, b
    <3>5. SubSeq(s, a, b) \in Seq(Plain)
      BY <3>4, PieceType
    <3> QED BY <3>1, <3>5 DEF a, b
  <2> QED BY <2>1, <2>2
<1> DEFINE gaps == Gaps(s)
           g == Min(gaps)
<1>3. gaps \in SUBSET (1 .. Len(s))
  BY DEF Gaps
<1>4. CASE gaps = {}
  BY <1>2, <1>4, EmptySeq DEF FirstWord, Rest
<1>5. CASE gaps # {}
  <2>1. FirstWord(s) = SubSeq(s, 1, g - 1) /\ Rest(s) = SubSeq(s, g + 1, Len(s))
    BY <1>5 DEF FirstWord, Rest
  <2> HIDE DEF gaps
  <2>2. g \in 1 .. Len(s)
    BY <1>1, <1>3, <1>5, MinMaxOf
  <2> HIDE DEF g
  <2>3. /\ g - 1 \in Int /\ g - 1 <= Len(s) /\ g + 1 \in Int /\ g + 1 >= 1
        /\ Len(s) \in Int /\ Len(s) <= Len(s) /\ 1 \in Int /\ 1 >= 1
    BY <1>1, <2>2
  <2>4. SubSeq(s, 1, g - 1) \in Seq(Plain)
    BY <2>3, PieceType
  <2>5. SubSeq(s, g + 1, Len(s)) \in Seq(Plain)
    BY <2>3, PieceType
  <2> QED BY <1>2, <2>1, <2>4, <2>5
<1> QED BY <1>4, <1>5

(* println! of a word leaves an empty row. *)
LEMMA PrintlnFresh ==
    ASSUME NEW w \in WriterType, NEW s \in Seq(Plain)
    PROVE  Println(w, s) \in Fresh
<1>1. s \in Seq(Text) /\ NewLine \in Text
  BY SeqMonotonic DEF Plain, Text
<1> DEFINE t == Append(s, NewLine)
<1>2. t \in Seq(Text) /\ Len(t) = Len(s) + 1 /\ t[Len(s) + 1] = NewLine /\ Len(s) \in Nat
  BY <1>1, AppendProperties, LenProperties
<1>3. t # << >>
  BY <1>2, EmptySeq
<1>4. Last(t) = NewLine
  <2> HIDE DEF t
  <2> QED BY <1>2 DEF Last
<1> HIDE DEF t
<1>5. WriteString(w, t) \in Fresh
  BY <1>2, <1>3, <1>4, LineFresh
<1> QED BY <1>5 DEF Println, t

(* clear_screen leaves an empty screen. *)
LEMMA ClearFresh ==
    ASSUME NEW w \in WriterType
    PROVE  ClearScreen(w) \in Fresh /\ ScreenIsBlank(ClearScreen(w))
<1> DEFINE chars == [row \in 0 .. Height - 1 |-> BlankRow]
           v == [w EXCEPT !.chars = chars, !.column_position = 0]
<1>1. /\ chars \in [0 .. Height - 1 -> [0 .. Width - 1 -> Cell]] /\ 0 \in 0 .. Width
      /\ LastRow \in 0 .. Height - 1
  BY SizeAssumption DEF BlankRow, Cell, LastRow
<1>2. v \in WriterType /\ v.chars = chars /\ v.column_position = 0
  BY <1>1 DEF WriterType
<1>3. \A row \in 0 .. Height - 1 : chars[row] = BlankRow
  OBVIOUS
<1> HIDE DEF v, chars
<1>4. LET z == MoveHardwareCursor(v)
      IN  z \in WriterType /\ z.chars = v.chars /\ z.column_position = v.column_position
  BY <1>2, MoveCursorType
<1>5. ClearScreen(w) = MoveHardwareCursor(v)
  BY DEF ClearScreen, v, chars
<1> QED BY <1>1, <1>2, <1>3, <1>4, <1>5 DEF Fresh, ScreenIsBlank

(* Whatever a line that returns asks for, execute leaves the writer at the *)
(* start of an empty row, where the prompt goes.                           *)
LEMMA ExecuteFresh ==
    ASSUME NEW w \in Fresh, NEW s \in Seq(Plain), ~IsFatal(s)
    PROVE  Execute(w, s) \in Fresh
<1> DEFINE command == CommandOf(s)
<1>1. command \in Commands \cup {"unknown"} /\ command # "panic"
  BY DEF CommandOf, IsFatal
<1>2. w \in WriterType
  BY DEF Fresh
<1>3. FirstWord(s) \in Seq(Plain) /\ Rest(s) \in Seq(Plain)
  BY WordTypes
<1>4. ASSUME NEW t \in Topics PROVE WriteString(w, Reply[t]) \in Fresh
  BY <1>2, <1>4, ShellAssumption, LineFresh
<1>5. command = "falha" => KindOf(s) \in Topics
  BY DEF KindOf, IsFatal, Topics, Kinds
<1>6. CASE s = << >>
  BY <1>6 DEF Execute
<1>7. CASE s # << >> /\ command \in {"help", "sobre", "mem"}
  <2>1. Execute(w, s) = WriteString(w, Reply[command])
    BY <1>7 DEF Execute
  <2>2. command \in Topics
    BY <1>7 DEF Topics
  <2> QED BY <1>4, <2>1, <2>2
<1>8. CASE s # << >> /\ command = "clear"
  BY <1>2, <1>8, ClearFresh DEF Execute
<1>9. CASE s # << >> /\ command = "echo"
  BY <1>2, <1>3, <1>9, PrintlnFresh DEF Execute
<1>10. CASE s # << >> /\ command = "falha"
  BY <1>4, <1>5, <1>10 DEF Execute
<1>11. CASE s # << >> /\ command = "unknown"
  BY <1>2, <1>3, <1>11, PrintlnFresh DEF Execute
<1> QED BY <1>1, <1>6, <1>7, <1>8, <1>9, <1>10, <1>11 DEF Commands

-----------------------------------------------------------------------------
(* The line as it is wrapped on the screen.                                *)

(* Rows further up hold smaller positions. *)
LEMMA RowsApart ==
    ASSUME NEW a \in Int, NEW j \in Nat
    PROVE  /\ (a + (j + 1)) * Width = a * Width + j * Width + Width
           /\ a * Width \in Int /\ j * Width \in Nat
BY SizeAssumption

(* The number of full rows, computed back from a length. *)
LEMMA FullRowsOf ==
    ASSUME NEW F \in Nat
    PROVE  (F * Width) \div Width = F
<1>1. Width \in Nat /\ Width > 0 /\ F * Width \in Nat
  BY SizeAssumption
<1> DEFINE q == (F * Width) \div Width
           r == (F * Width) % Width
<1>2. q \in Int /\ r \in 0 .. Width - 1 /\ F * Width = Width * q + r
  BY <1>1
<1> SUFFICES q = F
  OBVIOUS
<1> HIDE DEF q, r
<1>3. CASE q > F
  <2>1. PICK j \in Nat : q = F + (j + 1)
    BY <1>2, <1>3
  <2>2. q * Width = F * Width + j * Width + Width /\ j * Width \in Nat
    BY <2>1, RowsApart
  <2>3. Width * q = q * Width
    BY <1>1, <1>2
  <2> QED BY <1>1, <1>2, <2>2, <2>3
<1>4. CASE q < F
  <2>1. PICK j \in Nat : F = q + (j + 1)
    BY <1>2, <1>4
  <2>2. F * Width = q * Width + j * Width + Width /\ j * Width \in Nat /\ q * Width \in Int
    BY <1>2, <2>1, RowsApart
  <2>3. Width * q = q * Width
    BY <1>1, <1>2
  <2> QED BY <1>1, <1>2, <2>2, <2>3
<1> QED BY <1>2, <1>3, <1>4

(* What cell (row, col) of the wrapped text t holds. *)
CellOf(t, row, col) ==
    IF row * Width + col + 1 <= Len(t) THEN t[row * Width + col + 1] ELSE Blank

(* The bottom of the screen shows t from the start of a row, wrapped, with *)
(* F rows full, and writing goes on right after it.                        *)
Wraps(w, t, F) ==
    /\ F \in Nat
    /\ Len(t) = F * Width + w.column_position
    /\ \A k \in 0 .. Height - 1 : k <= F =>
          \A col \in 0 .. Width - 1 : w.chars[LastRow - k][col] = CellOf(t, F - k, col)

(* A prompt on an empty row. *)
LEMMA WrapsPrompt ==
    ASSUME NEW w, NEW v, NEW t \in Seq(Plain), OnRow(v, w, t, Len(t))
    PROVE  Wraps(v, t, 0)
<1>1. Len(t) \in Nat /\ Width \in Nat /\ Height \in Nat /\ LastRow \in Nat
  BY LenProperties, SizeAssumption DEF LastRow
<1>2. 0 * Width = 0
  BY <1>1
<1>3. ASSUME NEW k \in 0 .. Height - 1, k <= 0, NEW col \in 0 .. Width - 1
      PROVE  v.chars[LastRow - k][col] = CellOf(t, 0 - k, col)
  <2>1. k = 0 /\ LastRow - k = LastRow /\ 0 - k = 0
    BY <1>1, <1>3
  <2>2. v.chars[LastRow][col] = IF col < Len(t) THEN t[col + 1] ELSE Blank
    BY DEF OnRow
  <2>3. CellOf(t, 0, col) = IF col + 1 <= Len(t) THEN t[col + 1] ELSE Blank
    <3>1. 0 * Width + col + 1 = col + 1
      BY <1>1, <1>2
    <3> QED BY <3>1 DEF CellOf
  <2>4. col < Len(t) <=> col + 1 <= Len(t)
    BY <1>1
  <2> QED BY <2>1, <2>2, <2>3, <2>4
<1> QED BY <1>1, <1>2, <1>3 DEF Wraps, OnRow

(* Append changes one cell of the wrapped text, the first free one. *)
LEMMA CellOfAppend ==
    ASSUME NEW t \in Seq(Plain), NEW b \in Plain, NEW row \in Nat, NEW col \in Nat
    PROVE  CellOf(Append(t, b), row, col) =
              IF row * Width + col = Len(t) THEN b ELSE CellOf(t, row, col)
<1> DEFINE u == Append(t, b)
           p == row * Width + col
<1>1. p \in Nat /\ Len(t) \in Nat
  BY SizeAssumption, LenProperties
<1>2. /\ Len(u) = Len(t) + 1 /\ u[Len(t) + 1] = b
      /\ \A i \in 1 .. Len(t) : u[i] = t[i]
  BY AppendProperties
<1>3. /\ CellOf(u, row, col) = IF p + 1 <= Len(u) THEN u[p + 1] ELSE Blank
      /\ CellOf(t, row, col) = IF p + 1 <= Len(t) THEN t[p + 1] ELSE Blank
  BY DEF CellOf
<1> HIDE DEF u, p
<1>4. CASE p = Len(t)
  BY <1>1, <1>2, <1>3, <1>4 DEF u, p
<1>5. CASE p < Len(t)
  <2>1. p + 1 \in 1 .. Len(t)
    BY <1>1, <1>5
  <2>2. CellOf(u, row, col) = CellOf(t, row, col)
    BY <1>1, <1>2, <1>3, <2>1
  <2> QED BY <1>1, <1>5, <2>2 DEF u, p
<1>6. CASE p > Len(t)
  <2>1. CellOf(u, row, col) = CellOf(t, row, col)
    BY <1>1, <1>2, <1>3, <1>6
  <2> QED BY <1>1, <1>6, <2>1 DEF u, p
<1> QED BY <1>1, <1>4, <1>5, <1>6

(* Of the rows above row F and of its own cells, only one is cell c of F. *)
OnlyCell(F, k, c, col) ==
    (F - k) * Width + col = F * Width + c <=> k = 0 /\ col = c

LEMMA OneCell ==
    ASSUME NEW F \in Nat, NEW k \in 0 .. F, NEW c \in 0 .. Width - 1,
           NEW col \in 0 .. Width - 1
    PROVE  OnlyCell(F, k, c, col)
<1> USE DEF OnlyCell
<1>1. Width \in Nat /\ F * Width \in Nat
  BY SizeAssumption
<1>2. CASE k = 0
  <2>1. F - k = F
    BY <1>2
  <2> QED BY <1>1, <1>2, <2>1
<1>3. CASE k > 0
  <2>1. k - 1 \in Nat /\ F - k \in Int /\ F = (F - k) + ((k - 1) + 1)
    BY <1>3
  <2>2. /\ F * Width = (F - k) * Width + (k - 1) * Width + Width
        /\ (F - k) * Width \in Int /\ (k - 1) * Width \in Nat
    BY <2>1, RowsApart
  <2> QED BY <1>1, <1>3, <2>2
<1> QED BY <1>2, <1>3

(* One cell of the last row that changes. *)
WithCell(chars, c, b) == [chars EXCEPT ![LastRow] = [chars[LastRow] EXCEPT ![c] = b]]

ChangedAt(chars, c, b, row, col) ==
    WithCell(chars, c, b)[row][col] =
        IF row = LastRow /\ col = c THEN b ELSE chars[row][col]

LEMMA CellChanged ==
    ASSUME NEW chars \in [0 .. Height - 1 -> [0 .. Width - 1 -> Cell]], NEW c, NEW b,
           NEW row \in 0 .. Height - 1, NEW col \in 0 .. Width - 1
    PROVE  ChangedAt(chars, c, b, row, col)
<1> USE DEF ChangedAt
<1> DEFINE new == [chars[LastRow] EXCEPT ![c] = b]
<1>1. CASE row = LastRow
  <2>1. chars[LastRow] \in [0 .. Width - 1 -> Cell]
    BY <1>1
  <2>2. new[col] = IF col = c THEN b ELSE chars[row][col]
    BY <1>1, <2>1
  <2> HIDE DEF new
  <2>3. [chars EXCEPT ![LastRow] = new][row] = new
    BY <1>1
  <2> QED BY <1>1, <2>2, <2>3 DEF new, WithCell
<1>2. CASE row # LastRow
  <2> HIDE DEF new
  <2>1. [chars EXCEPT ![LastRow] = new][row] = chars[row]
    BY <1>2
  <2> QED BY <1>2, <2>1 DEF new, WithCell
<1> QED BY <1>1, <1>2

(* A byte written where the row has room. *)
LEMMA WrapsMore ==
    ASSUME NEW w \in WriterType, NEW t \in Seq(Plain), NEW b \in Plain, NEW F,
           Wraps(w, t, F), w.column_position < Width
    PROVE  Wraps(WriteByte(w, Sanitize(b)), Append(t, b), F)
<1> DEFINE v == WriteByte(w, Sanitize(b))
           u == Append(t, b)
           c == w.column_position
<1>1. /\ v.column_position = c + 1
      /\ v.chars = [w.chars EXCEPT ![LastRow] = [w.chars[LastRow] EXCEPT ![c] = b]]
  BY WriteByteCell DEF Plain
<1>2. c \in 0 .. Width - 1 /\ LastRow \in 0 .. Height - 1 /\ LastRow \in Nat
  BY SizeAssumption DEF WriterType, LastRow
<1>3. F \in Nat /\ Len(t) = F * Width + c /\ F * Width \in Nat
  BY SizeAssumption DEF Wraps
<1>4. Len(u) = Len(t) + 1
  BY AppendProperties
<1>5. w.chars \in [0 .. Height - 1 -> [0 .. Width - 1 -> Cell]]
  BY DEF WriterType
<1> HIDE DEF v, u, c
<1>6. ASSUME NEW k \in 0 .. Height - 1, k <= F, NEW col \in 0 .. Width - 1
      PROVE  v.chars[LastRow - k][col] = CellOf(u, F - k, col)
  <2>1. F - k \in Nat /\ col \in Nat /\ k \in 0 .. F /\ LastRow - k \in 0 .. Height - 1
    BY <1>3, <1>6, SizeAssumption DEF LastRow
  <2>2. w.chars[LastRow - k][col] = CellOf(t, F - k, col)
    BY <1>6 DEF Wraps
  <2>3. CellOf(u, F - k, col) =
           IF (F - k) * Width + col = Len(t) THEN b ELSE CellOf(t, F - k, col)
    BY <2>1, CellOfAppend DEF u
  <2>4. (F - k) * Width + col = Len(t) <=> k = 0 /\ col = c
    <3>1. OnlyCell(F, k, c, col)
      BY <1>2, <1>3, <2>1, OneCell
    <3> QED BY <1>3, <3>1 DEF OnlyCell
  <2>5. v.chars[LastRow - k][col] = IF k = 0 /\ col = c THEN b ELSE w.chars[LastRow - k][col]
    <3>1. LastRow - k = LastRow <=> k = 0
      BY <1>2
    <3> DEFINE row == LastRow - k
               chars == w.chars
    <3>2. row \in 0 .. Height - 1 /\ chars \in [0 .. Height - 1 -> [0 .. Width - 1 -> Cell]]
      BY <1>5, <2>1
    <3>3. v.chars = WithCell(chars, c, b)
      BY <1>1 DEF WithCell
    <3> HIDE DEF row, chars
    <3>4. ChangedAt(chars, c, b, row, col)
      BY <3>2, CellChanged
    <3> QED BY <3>1, <3>3, <3>4 DEF row, chars, ChangedAt
  <2> QED BY <2>2, <2>3, <2>4, <2>5
<1>7. Len(u) = F * Width + v.column_position
  BY <1>1, <1>2, <1>3, <1>4
<1> QED BY <1>3, <1>6, <1>7 DEF Wraps, u, v

(* A full row that moves up. *)
LEMMA WrapsScroll ==
    ASSUME NEW w \in WriterType, NEW t \in Seq(Plain), NEW F,
           Wraps(w, t, F), w.column_position = Width
    PROVE  Wraps(ScrollUp(w), t, F + 1)
<1> DEFINE v == ScrollUp(w)
<1>1. /\ v.column_position = 0
      /\ \A row \in 0 .. Height - 1 :
            v.chars[row] = IF row = LastRow THEN BlankRow ELSE w.chars[row + 1]
  BY ScrollUpType DEF ScrollUp, WriterType
<1>2. Width \in Nat /\ LastRow \in 0 .. Height - 1 /\ LastRow \in Nat /\ Height \in Nat
  BY SizeAssumption DEF LastRow
<1>3. F \in Nat /\ Len(t) = F * Width + Width /\ F * Width \in Nat
  BY SizeAssumption DEF Wraps
<1>4. (F + 1) * Width = F * Width + Width
  BY <1>2, <1>3
<1> HIDE DEF v
<1>5. ASSUME NEW k \in 0 .. Height - 1, k <= F + 1, NEW col \in 0 .. Width - 1
      PROVE  v.chars[LastRow - k][col] = CellOf(t, (F + 1) - k, col)
  <2>1. LastRow - k \in 0 .. Height - 1
    BY <1>2 DEF LastRow
  <2>2. CASE k = 0
    <3>1. v.chars[LastRow - k][col] = Blank
      BY <1>1, <1>2, <2>1, <2>2 DEF BlankRow
    <3>2. (F + 1) - k = F + 1
      BY <1>3, <2>2
    <3>3. ~((F + 1) * Width + col + 1 <= Len(t))
      BY <1>2, <1>3, <1>4
    <3>4. CellOf(t, F + 1, col) = Blank
      BY <3>3 DEF CellOf
    <3> QED BY <3>1, <3>2, <3>4
  <2>3. CASE k > 0
    <3>1. /\ k - 1 \in 0 .. Height - 1 /\ k - 1 <= F /\ LastRow - k # LastRow
          /\ (LastRow - k) + 1 = LastRow - (k - 1) /\ (F + 1) - k = F - (k - 1)
      BY <1>2, <1>3, <1>5, <2>3
    <3>2. w.chars[LastRow - (k - 1)][col] = CellOf(t, F - (k - 1), col)
      BY <3>1 DEF Wraps
    <3>3. v.chars[LastRow - k] = w.chars[(LastRow - k) + 1]
      BY <1>1, <2>1, <3>1
    <3> QED BY <3>1, <3>2, <3>3
  <2> QED BY <2>2, <2>3
<1>6. Len(t) = (F + 1) * Width + v.column_position
  BY <1>1, <1>2, <1>3, <1>4
<1> QED BY <1>3, <1>5, <1>6 DEF Wraps, v

(* A byte that finds its row full is a byte on the row after it. *)
LEMMA WriteAfterScroll ==
    ASSUME NEW w \in WriterType, NEW b \in Plain, w.column_position = Width
    PROVE  WriteByte(w, Sanitize(b)) = WriteByte(ScrollUp(w), Sanitize(b))
<1>1. Sanitize(b) # NewLine
  BY BytesAssumption DEF Sanitize, Plain, UnknownChar, NewLine, Blank
<1>2. ScrollUp(w).column_position = 0 /\ ~(0 >= Width) /\ Width >= Width
  BY ScrollUpType, SizeAssumption
<1> QED BY <1>1, <1>2 DEF WriteByte

(* The echo of a byte continues the wrapped text. *)
LEMMA WrapsWrite ==
    ASSUME NEW w \in WriterType, NEW t \in Seq(Plain), NEW b \in Plain,
           \E F : Wraps(w, t, F)
    PROVE  \E F : Wraps(WriteByte(w, Sanitize(b)), Append(t, b), F)
<1>1. PICK F : Wraps(w, t, F)
  OBVIOUS
<1>2. CASE w.column_position < Width
  BY <1>1, <1>2, WrapsMore
<1>3. CASE w.column_position = Width
  <2>1. Wraps(ScrollUp(w), t, F + 1)
    BY <1>1, <1>3, WrapsScroll
  <2>2. ScrollUp(w) \in WriterType /\ ScrollUp(w).column_position < Width
    BY ScrollUpType, SizeAssumption
  <2>3. Wraps(WriteByte(ScrollUp(w), Sanitize(b)), Append(t, b), F + 1)
    BY <2>1, <2>2, WrapsMore
  <2> QED BY <1>3, <2>3, WriteAfterScroll
<1>4. w.column_position < Width \/ w.column_position = Width
  BY SizeAssumption DEF WriterType
<1> QED BY <1>2, <1>3, <1>4

(* What Backspace does to the screen within a row. *)
LEMMA BackspaceCell ==
    ASSUME NEW w \in WriterType, w.column_position > 0
    PROVE  LET v == Backspace(w)
           IN  /\ v \in WriterType
               /\ v.column_position = w.column_position - 1
               /\ v.chars = WithCell(w.chars, w.column_position - 1, Blank)
<1> DEFINE col == w.column_position - 1
           u == PutCell(w, col, Blank)
           x == [u EXCEPT !.column_position = col]
<1>1. col \in 0 .. Width - 1 /\ col \in 0 .. Width /\ Blank \in Cell
  BY SizeAssumption DEF WriterType, Cell
<1>2. x \in WriterType
  BY <1>1, PutCellType
<1>3. x.column_position = col /\ x.chars = WithCell(w.chars, col, Blank)
  BY DEF PutCell, WriterType, WithCell
<1>4. Backspace(w) = MoveHardwareCursor(x)
  BY SizeAssumption DEF Backspace, WriterType
<1> HIDE DEF x, u
<1> QED BY <1>2, <1>3, <1>4, MoveCursorType

(* Front changes one cell of the wrapped text, the last one. *)
ErasedAt(t, row, col) ==
    CellOf(Front(t), row, col) =
        IF row * Width + col = Len(t) - 1 THEN Blank ELSE CellOf(t, row, col)

LEMMA CellOfFront ==
    ASSUME NEW t \in Seq(Plain), Len(t) > 0, NEW row \in Nat, NEW col \in Nat
    PROVE  ErasedAt(t, row, col)
<1> USE DEF ErasedAt
<1> DEFINE u == Front(t)
           p == row * Width + col
<1>1. p \in Nat /\ Len(t) \in Nat
  BY SizeAssumption, LenProperties
<1>2. Len(u) = Len(t) - 1 /\ \A i \in 1 .. Len(t) - 1 : u[i] = t[i]
  BY FrontProperties
<1>3. /\ CellOf(u, row, col) = IF p + 1 <= Len(u) THEN u[p + 1] ELSE Blank
      /\ CellOf(t, row, col) = IF p + 1 <= Len(t) THEN t[p + 1] ELSE Blank
  BY DEF CellOf
<1> SUFFICES CellOf(u, row, col) = IF p = Len(t) - 1 THEN Blank ELSE CellOf(t, row, col)
  OBVIOUS
<1> HIDE DEF u, p
<1>4. CASE p = Len(t) - 1
  BY <1>1, <1>2, <1>3, <1>4
<1>5. CASE p < Len(t) - 1
  <2>1. p + 1 \in 1 .. Len(t) - 1
    BY <1>1, <1>5
  <2> QED BY <1>1, <1>2, <1>3, <1>5, <2>1
<1>6. CASE p > Len(t) - 1
  BY <1>1, <1>2, <1>3, <1>6
<1> QED BY <1>1, <1>4, <1>5, <1>6

(* A byte erased within its row. *)
LEMMA WrapsErase ==
    ASSUME NEW w \in WriterType, NEW t \in Seq(Plain), Len(t) > 0, w.column_position > 0,
           NEW F, Wraps(w, t, F)
    PROVE  Wraps(Backspace(w), Front(t), F)
<1> DEFINE v == Backspace(w)
           u == Front(t)
           c == w.column_position - 1
<1>1. v.column_position = c /\ v.chars = WithCell(w.chars, c, Blank)
  BY BackspaceCell
<1>2. /\ c \in 0 .. Width - 1 /\ LastRow \in 0 .. Height - 1 /\ LastRow \in Nat
      /\ w.column_position = c + 1
  BY SizeAssumption DEF WriterType, LastRow
<1>3. F \in Nat /\ Len(t) = F * Width + (c + 1) /\ F * Width \in Nat
  BY <1>2, SizeAssumption DEF Wraps
<1>4. Len(u) = Len(t) - 1
  BY FrontProperties
<1>5. w.chars \in [0 .. Height - 1 -> [0 .. Width - 1 -> Cell]]
  BY DEF WriterType
<1> HIDE DEF v, u, c
<1>6. ASSUME NEW k \in 0 .. Height - 1, k <= F, NEW col \in 0 .. Width - 1
      PROVE  v.chars[LastRow - k][col] = CellOf(u, F - k, col)
  <2>1. F - k \in Nat /\ col \in Nat /\ k \in 0 .. F /\ LastRow - k \in 0 .. Height - 1
    BY <1>3, <1>6, SizeAssumption DEF LastRow
  <2>2. w.chars[LastRow - k][col] = CellOf(t, F - k, col)
    BY <1>6 DEF Wraps
  <2>3. ErasedAt(t, F - k, col)
    BY <2>1, CellOfFront
  <2>4. (F - k) * Width + col = Len(t) - 1 <=> k = 0 /\ col = c
    <3>1. OnlyCell(F, k, c, col)
      BY <1>2, <1>3, <2>1, OneCell
    <3>2. Len(t) - 1 = F * Width + c
      BY <1>2, <1>3
    <3> QED BY <3>1, <3>2 DEF OnlyCell
  <2>5. v.chars[LastRow - k][col] = IF k = 0 /\ col = c THEN Blank ELSE w.chars[LastRow - k][col]
    <3>1. LastRow - k = LastRow <=> k = 0
      BY <1>2
    <3> DEFINE row == LastRow - k
               chars == w.chars
    <3>2. row \in 0 .. Height - 1 /\ chars \in [0 .. Height - 1 -> [0 .. Width - 1 -> Cell]]
      BY <1>5, <2>1
    <3>3. v.chars = WithCell(chars, c, Blank)
      BY <1>1
    <3> HIDE DEF row, chars
    <3>4. ChangedAt(chars, c, Blank, row, col)
      BY <3>2, CellChanged
    <3> QED BY <3>1, <3>3, <3>4 DEF row, chars, ChangedAt
  <2>6. CellOf(u, F - k, col) = IF k = 0 /\ col = c THEN Blank ELSE CellOf(t, F - k, col)
    BY <2>3, <2>4 DEF ErasedAt, u
  <2> QED BY <2>2, <2>5, <2>6
<1>7. Len(u) = F * Width + v.column_position
  BY <1>1, <1>2, <1>3, <1>4
<1> QED BY <1>3, <1>6, <1>7 DEF Wraps, u, v

-----------------------------------------------------------------------------
(* The end of the line, left of the cursor, also after a swallowed         *)
(* Backspace.                                                              *)

(* The cells left of the cursor hold the end of l, as far as both reach. *)
Behind(w, l) ==
    \A i \in 0 .. w.column_position - 1 :
        i < Len(l) => w.chars[LastRow][w.column_position - 1 - i] = l[Len(l) - i]

(* One byte more, on a row with room. *)
LEMMA BehindMore ==
    ASSUME NEW w \in WriterType, NEW l \in Seq(Plain), NEW b \in Plain,
           Behind(w, l), w.column_position < Width
    PROVE  Behind(WriteByte(w, Sanitize(b)), Append(l, b))
<1> DEFINE v == WriteByte(w, Sanitize(b))
           u == Append(l, b)
           c == w.column_position
           row == w.chars[LastRow]
<1>1. /\ v.column_position = c + 1
      /\ v.chars = [w.chars EXCEPT ![LastRow] = [w.chars[LastRow] EXCEPT ![c] = b]]
  BY WriteByteCell DEF Plain
<1>2. c \in 0 .. Width - 1 /\ LastRow \in 0 .. Height - 1 /\ Len(l) \in Nat
  BY SizeAssumption, LenProperties DEF WriterType, LastRow
<1>3. /\ Len(u) = Len(l) + 1 /\ u[Len(l) + 1] = b
      /\ \A i \in 1 .. Len(l) : u[i] = l[i]
  BY AppendProperties
<1>4. row \in [0 .. Width - 1 -> Cell] /\ DOMAIN w.chars = 0 .. Height - 1
  BY <1>2 DEF WriterType
<1>5. v.chars[LastRow] = [row EXCEPT ![c] = b]
  BY <1>1, <1>2, <1>4
<1>6. \A i \in 0 .. c - 1 : i < Len(l) => row[c - 1 - i] = l[Len(l) - i]
  BY DEF Behind
<1> HIDE DEF v, u, c, row
<1>7. ASSUME NEW i \in 0 .. (c + 1) - 1, i < Len(l) + 1
      PROVE  v.chars[LastRow][(c + 1) - 1 - i] = u[(Len(l) + 1) - i]
  <2>1. CASE i = 0
    <3>1. (c + 1) - 1 - i = c /\ (Len(l) + 1) - i = Len(l) + 1
      BY <1>2, <2>1
    <3> QED BY <1>2, <1>3, <1>4, <1>5, <3>1
  <2>2. CASE i > 0
    <3>1. /\ i - 1 \in 0 .. c - 1 /\ i - 1 < Len(l)
          /\ (c + 1) - 1 - i = c - 1 - (i - 1) /\ (Len(l) + 1) - i = Len(l) - (i - 1)
          /\ c - 1 - (i - 1) \in 0 .. Width - 1 /\ c - 1 - (i - 1) # c
          /\ Len(l) - (i - 1) \in 1 .. Len(l)
      BY <1>2, <1>7, <2>2, SizeAssumption
    <3>2. row[c - 1 - (i - 1)] = l[Len(l) - (i - 1)]
      <4>1. PICK j \in 0 .. c - 1 : j = i - 1
        BY <3>1
      <4>2. j < Len(l)
        BY <3>1, <4>1
      <4>3. row[c - 1 - j] = l[Len(l) - j]
        BY <1>6, <4>2
      <4> QED BY <4>1, <4>3
    <3>3. v.chars[LastRow][c - 1 - (i - 1)] = row[c - 1 - (i - 1)]
      BY <1>4, <1>5, <3>1
    <3>4. u[Len(l) - (i - 1)] = l[Len(l) - (i - 1)]
      BY <1>3, <3>1
    <3> QED BY <3>1, <3>2, <3>3, <3>4
  <2> QED BY <1>2, <2>1, <2>2
<1> QED BY <1>1, <1>3, <1>7 DEF Behind, u, v

(* The echo of a byte. *)
LEMMA BehindWrite ==
    ASSUME NEW w \in WriterType, NEW l \in Seq(Plain), NEW b \in Plain, Behind(w, l)
    PROVE  Behind(WriteByte(w, Sanitize(b)), Append(l, b))
<1>1. CASE w.column_position < Width
  BY <1>1, BehindMore
<1>2. CASE w.column_position = Width
  <2>1. ScrollUp(w) \in WriterType /\ ScrollUp(w).column_position = 0
    BY ScrollUpType
  <2>2. Behind(ScrollUp(w), l) /\ ScrollUp(w).column_position < Width
    BY <2>1, SizeAssumption DEF Behind
  <2>3. Behind(WriteByte(ScrollUp(w), Sanitize(b)), Append(l, b))
    BY <2>1, <2>2, BehindMore
  <2> QED BY <1>2, <2>3, WriteAfterScroll
<1>3. w.column_position < Width \/ w.column_position = Width
  BY SizeAssumption DEF WriterType
<1> QED BY <1>1, <1>2, <1>3

(* A byte taken back, on the screen too or swallowed. *)
LEMMA BehindErase ==
    ASSUME NEW w \in WriterType, NEW l \in Seq(Plain), Len(l) > 0, Behind(w, l)
    PROVE  Backspace(w) \in WriterType /\ Behind(Backspace(w), Front(l))
<1>1. CASE w.column_position = 0
  BY <1>1 DEF Backspace, Behind
<1>2. CASE w.column_position > 0
  <2> DEFINE v == Backspace(w)
             u == Front(l)
             c == w.column_position
             row == w.chars[LastRow]
  <2>1. v \in WriterType /\ v.column_position = c - 1 /\ v.chars = WithCell(w.chars, c - 1, Blank)
    BY <1>2, BackspaceCell
  <2>2. c \in 1 .. Width /\ LastRow \in 0 .. Height - 1 /\ Len(l) \in Nat
    BY <1>2, SizeAssumption, LenProperties DEF WriterType, LastRow
  <2>3. Len(u) = Len(l) - 1 /\ \A i \in 1 .. Len(l) - 1 : u[i] = l[i]
    BY FrontProperties
  <2>4. row \in [0 .. Width - 1 -> Cell] /\ DOMAIN w.chars = 0 .. Height - 1
    BY <2>2 DEF WriterType
  <2>5. v.chars[LastRow] = [row EXCEPT ![c - 1] = Blank]
    BY <2>1, <2>2, <2>4 DEF WithCell
  <2>6. \A i \in 0 .. c - 1 : i < Len(l) => row[c - 1 - i] = l[Len(l) - i]
    BY DEF Behind
  <2> HIDE DEF v, u, c, row
  <2>7. ASSUME NEW i \in 0 .. (c - 1) - 1, i < Len(l) - 1
        PROVE  v.chars[LastRow][(c - 1) - 1 - i] = u[(Len(l) - 1) - i]
    <3>1. /\ i + 1 \in 0 .. c - 1 /\ i + 1 < Len(l)
          /\ (c - 1) - 1 - i = c - 1 - (i + 1) /\ (Len(l) - 1) - i = Len(l) - (i + 1)
          /\ c - 1 - (i + 1) \in 0 .. Width - 1 /\ c - 1 - (i + 1) # c - 1
          /\ Len(l) - (i + 1) \in 1 .. Len(l) - 1
      BY <2>2, <2>7, SizeAssumption
    <3>2. row[c - 1 - (i + 1)] = l[Len(l) - (i + 1)]
      <4>1. PICK j \in 0 .. c - 1 : j = i + 1
        BY <3>1
      <4>2. j < Len(l)
        BY <3>1, <4>1
      <4>3. row[c - 1 - j] = l[Len(l) - j]
        BY <2>6, <4>2
      <4> QED BY <4>1, <4>3
    <3>3. v.chars[LastRow][c - 1 - (i + 1)] = row[c - 1 - (i + 1)]
      BY <2>4, <2>5, <3>1
    <3>4. u[Len(l) - (i + 1)] = l[Len(l) - (i + 1)]
      BY <2>3, <3>1
    <3> QED BY <3>1, <3>2, <3>3, <3>4
  <2> QED BY <2>1, <2>3, <2>7 DEF Behind, u, v
<1>3. w.column_position = 0 \/ w.column_position > 0
  BY SizeAssumption DEF WriterType
<1> QED BY <1>1, <1>2, <1>3

-----------------------------------------------------------------------------
(* The steps of feed.                                                      *)

(* print! of one byte is write_byte of it. *)
LEMMA WriteOne ==
    ASSUME NEW w, NEW b
    PROVE  WriteString(w, <<b>>) = WriteByte(w, Sanitize(b))
<1> DEFINE s == <<b>>
           W == [i \in 0 .. 1 |-> IF i = 0 THEN {w} ELSE {WriteByte(w, Sanitize(b))}]
<1>1. Len(s) = 1 /\ 1 \in Nat /\ s[1] = b
  OBVIOUS
<1>2. w \in W[0] /\ W[1] = {WriteByte(w, Sanitize(b))} /\ W[0] = {w}
  OBVIOUS
<1> HIDE DEF W, s
<1>3. ASSUME NEW i \in 1 .. 1, NEW v \in W[i - 1]
      PROVE  WriteByte(v, Sanitize(s[i])) \in W[i]
  <2>1. i = 1 /\ i - 1 = 0
    OBVIOUS
  <2>2. v = w
    BY <1>2, <2>1
  <2> QED BY <1>1, <1>2, <2>1, <2>2
<1>4. WriteString(w, s) \in W[1]
  BY <1>1, <1>2, <1>3, WriteStringIn
<1> QED BY <1>2, <1>4 DEF s

(* A line is plain text, and so are the prompt and what follows it. *)
LEMMA PlainText ==
    ASSUME NEW l \in Seq(Typable)
    PROVE  /\ l \in Seq(Plain) /\ PROMPT \in Seq(Plain) /\ PROMPT \o l \in Seq(Plain)
           /\ Typable \subseteq Plain
<1>1. Typable \subseteq Plain /\ Visible \cup {Blank} \subseteq Plain
  BY ShellAssumption DEF Plain
<1>2. l \in Seq(Plain) /\ PROMPT \in Seq(Plain)
  BY <1>1, ShellAssumption, SeqMonotonic
<1> QED BY <1>1, <1>2, ConcatProperties

(* What holds at every prompt: the screen shows the line if no Backspace   *)
(* was swallowed, and its end left of the cursor in any case.              *)
ShellInv ==
    /\ TypeOK
    /\ Behind(writer, line)
    /\ (status = "ready" /\ ~swallowed) => \E F : Wraps(writer, PROMPT \o line, F)

(* print_prompt on an empty row. *)
LEMMA PromptShown ==
    ASSUME NEW w \in Fresh
    PROVE  LET v == WriteString(w, PROMPT)
           IN  /\ OnRow(v, w, PROMPT, Len(PROMPT))
               /\ v \in WriterType
               /\ Behind(v, << >>)
               /\ Wraps(v, PROMPT \o << >>, 0)
<1> DEFINE v == WriteString(w, PROMPT)
<1>1. << >> \in Seq(Typable)
  BY EmptySeq
<1>2. PROMPT \in Seq(Plain) /\ Len(PROMPT) <= Width /\ PROMPT \o << >> = PROMPT
  <2>1. PROMPT \in Seq(Plain)
    BY <1>1, PlainText
  <2>2. Len(PROMPT) <= Width
    BY ShellAssumption, SizeAssumption
  <2> QED BY <2>1, <2>2, ConcatEmptySeq
<1>3. OnRow(v, w, PROMPT, Len(PROMPT))
  BY <1>2, WriteOnRow DEF Plain
<1> HIDE DEF v
<1>4. v \in WriterType
  BY <1>3 DEF OnRow
<1>5. Behind(v, << >>)
  BY <1>4, EmptySeq DEF Behind, WriterType
<1>6. Wraps(v, PROMPT, 0)
  BY <1>2, <1>3, WrapsPrompt
<1> QED BY <1>2, <1>3, <1>4, <1>5, <1>6 DEF v

LEMMA ShellInvInit == Init => ShellInv
<1> SUFFICES ASSUME Init PROVE ShellInv
  OBVIOUS
<1> DEFINE blank == [chars |-> [row \in 0 .. Height - 1 |-> BlankRow],
                     column_position |-> 0, cursor |-> 0]
           w == WriteString(ClearedWriter, Reply["welcome"])
<1>1. blank \in WriterType
  BY SizeAssumption DEF WriterType, BlankRow, Cell
<1> HIDE DEF blank
<1>2. ClearedWriter \in WriterType
  <2>1. ClearScreen(blank) \in WriterType
    BY <1>1, ClearFresh DEF Fresh
  <2> QED BY <2>1 DEF ClearedWriter, blank
<1>3. Reply["welcome"] \in Seq(Text) \ {<< >>} /\ Last(Reply["welcome"]) = NewLine
  BY ShellAssumption DEF Topics
<1>4. w \in Fresh
  BY <1>2, <1>3, LineFresh
<1> HIDE DEF w
<1>5. writer = WriteString(w, PROMPT) /\ line = << >> /\ status = "ready" /\ swallowed = FALSE
  BY DEF Init, PrintWelcome, w
<1>6. line \in Seq(Typable) /\ Len(line) <= LINE_CAPACITY
  BY <1>5, EmptySeq, ShellAssumption
<1> QED BY <1>4, <1>5, <1>6, PromptShown DEF ShellInv, TypeOK

(* push and the echo. *)
LEMMA ShellInvChar ==
    ASSUME ShellInv, NEW c \in Typable, FeedChar(c)
    PROVE  ShellInv'
<1>1. CASE LineFull
  <2>1. UNCHANGED vars
    BY <1>1 DEF FeedChar, vars
  <2> QED BY <2>1 DEF vars, ShellInv, TypeOK, Behind, Wraps, CellOf
<1>2. CASE ~LineFull
  <2> DEFINE v == WriteByte(writer, Sanitize(c))
             l == Append(line, c)
  <2>1. /\ line' = l /\ writer' = v /\ status' = status /\ swallowed' = swallowed
    BY <1>2, WriteOne DEF FeedChar
  <2>2. /\ line \in Seq(Typable) /\ line \in Seq(Plain) /\ PROMPT \in Seq(Plain)
        /\ PROMPT \o line \in Seq(Plain) /\ c \in Plain /\ writer \in WriterType
        /\ Len(line) \in Nat /\ Len(line) <= LINE_CAPACITY /\ status \in {"ready", "fatal"}
        /\ swallowed \in BOOLEAN
    BY PlainText, LenProperties DEF ShellInv, TypeOK
  <2>3. l \in Seq(Typable) /\ Len(l) = Len(line) + 1 /\ Len(l) <= LINE_CAPACITY
    BY <1>2, <2>2, AppendProperties, ShellAssumption DEF LineFull
  <2>4. v \in WriterType
    BY <2>2, WriteBytePlaced DEF Placed, Plain, Text
  <2>5. Behind(v, l)
    BY <2>2, BehindWrite DEF ShellInv
  <2>6. PROMPT \o l = Append(PROMPT \o line, c)
    BY <2>2, AppendIsConcat, ConcatAssociative, ConcatProperties
  <2>7. ASSUME status = "ready", ~swallowed PROVE \E F : Wraps(v, PROMPT \o l, F)
    BY <2>2, <2>6, <2>7, WrapsWrite DEF ShellInv
  <2> HIDE DEF v, l
  <2>8. TypeOK'
    BY <2>1, <2>2, <2>3, <2>4 DEF TypeOK
  <2>9. Behind(writer, line)'
    BY <2>1, <2>5 DEF Behind
  <2>10. ((status = "ready" /\ ~swallowed) => \E F : Wraps(writer, PROMPT \o line, F))'
    BY <2>1, <2>7
  <2> QED BY <2>8, <2>9, <2>10 DEF ShellInv
<1> QED BY <1>1, <1>2

(* The prompt and a line that loses its last byte. *)
LEMMA FrontOfShown ==
    ASSUME NEW p \in Seq(Plain), NEW l \in Seq(Plain), Len(l) > 0
    PROVE  p \o Front(l) = Front(p \o l) /\ Len(p \o l) > 0
<1> DEFINE q == p \o l
           a == p \o Front(l)
           b == Front(q)
<1>1. Len(p) \in Nat /\ Len(l) \in Nat
  BY LenProperties
<1>2. /\ Front(l) \in Seq(Plain) /\ Len(Front(l)) = Len(l) - 1
      /\ \A i \in 1 .. Len(l) - 1 : Front(l)[i] = l[i]
  BY FrontProperties
<1>3. /\ q \in Seq(Plain) /\ Len(q) = Len(p) + Len(l)
      /\ \A i \in 1 .. Len(p) + Len(l) : q[i] = IF i <= Len(p) THEN p[i] ELSE l[i - Len(p)]
  BY ConcatProperties
<1> DEFINE f == Front(l)
<1>4. /\ a \in Seq(Plain) /\ Len(a) = Len(p) + Len(f)
      /\ \A i \in 1 .. Len(p) + Len(f) : a[i] = IF i <= Len(p) THEN p[i] ELSE f[i - Len(p)]
  <2>1. f \in Seq(Plain) /\ a = p \o f
    BY <1>2
  <2> HIDE DEF f, a
  <2> QED BY <2>1, ConcatProperties
<1>5. Len(q) > 0
  <2> HIDE DEF q
  <2> QED BY <1>1, <1>3
<1> HIDE DEF q
<1>6. /\ b \in Seq(Plain) /\ Len(b) = Len(q) - 1
      /\ \A i \in 1 .. Len(q) - 1 : b[i] = q[i]
  BY <1>3, <1>5, FrontProperties
<1> HIDE DEF a, b, f
<1>7. Len(a) = Len(b)
  BY <1>1, <1>2, <1>3, <1>4, <1>6 DEF f
<1>8. ASSUME NEW i \in 1 .. Len(a) PROVE a[i] = b[i]
  <2>1. /\ i \in 1 .. Len(p) + Len(f) /\ i \in 1 .. Len(q) - 1 /\ i \in 1 .. Len(p) + Len(l)
        /\ Len(f) = Len(l) - 1
    BY <1>1, <1>2, <1>3, <1>4 DEF f
  <2>2. CASE i <= Len(p)
    BY <1>3, <1>4, <1>6, <2>1, <2>2
  <2>3. CASE i > Len(p)
    <3>1. i - Len(p) \in 1 .. Len(l) - 1 /\ ~(i <= Len(p))
      BY <1>1, <2>1, <2>3
    <3>2. f[i - Len(p)] = l[i - Len(p)]
      BY <1>2, <3>1 DEF f
    <3> QED BY <1>3, <1>4, <1>6, <2>1, <3>1, <3>2
  <2> QED BY <1>1, <2>2, <2>3
<1>9. a = b
  BY <1>4, <1>6, <1>7, <1>8, SeqEqual
<1> QED BY <1>5, <1>9 DEF a, b, q

(* pop and backspace. *)
LEMMA ShellInvBackspace ==
    ASSUME ShellInv, FeedBackspace
    PROVE  ShellInv'
<1>1. CASE LineEmpty
  <2>1. UNCHANGED vars
    BY <1>1 DEF FeedBackspace, vars
  <2> QED BY <2>1 DEF vars, ShellInv, TypeOK, Behind, Wraps, CellOf
<1>2. CASE ~LineEmpty
  <2> DEFINE v == Backspace(writer)
             l == Front(line)
  <2>1. /\ line' = l /\ writer' = v /\ status' = status
        /\ swallowed' = (swallowed \/ writer.column_position = 0)
    BY <1>2 DEF FeedBackspace
  <2>2. /\ line \in Seq(Typable) /\ line \in Seq(Plain) /\ PROMPT \in Seq(Plain)
        /\ PROMPT \o line \in Seq(Plain) /\ writer \in WriterType
        /\ Len(line) \in Nat /\ Len(line) <= LINE_CAPACITY /\ status \in {"ready", "fatal"}
        /\ swallowed \in BOOLEAN
    BY PlainText, LenProperties DEF ShellInv, TypeOK
  <2>3. Len(line) > 0
    BY <1>2, <2>2, EmptySeq DEF LineEmpty
  <2>4. l \in Seq(Typable) /\ Len(l) <= LINE_CAPACITY
    <3>1. l \in Seq(Typable) /\ Len(l) = Len(line) - 1
      BY <2>2, <2>3, FrontProperties
    <3> QED BY <2>2, <3>1, ShellAssumption
  <2>5. v \in WriterType /\ Behind(v, l)
    BY <2>2, <2>3, BehindErase DEF ShellInv
  <2>6. PROMPT \o l = Front(PROMPT \o line) /\ Len(PROMPT \o line) > 0
    BY <2>2, <2>3, FrontOfShown
  <2>7. ASSUME status = "ready", ~swallowed, writer.column_position # 0
        PROVE  \E F : Wraps(v, PROMPT \o l, F)
    <3>1. writer.column_position > 0
      BY <2>2, <2>7, SizeAssumption DEF WriterType
    <3>2. PICK F : Wraps(writer, PROMPT \o line, F)
      BY <2>7 DEF ShellInv
    <3> DEFINE t == PROMPT \o line
    <3>3. t \in Seq(Plain) /\ Len(t) > 0 /\ Wraps(writer, t, F) /\ PROMPT \o l = Front(t)
      BY <2>2, <2>6, <3>2
    <3> HIDE DEF t
    <3>4. Wraps(v, Front(t), F)
      BY <2>2, <3>1, <3>3, WrapsErase
    <3> QED BY <3>3, <3>4
  <2> HIDE DEF v, l
  <2>8. TypeOK'
    BY <2>1, <2>2, <2>4, <2>5 DEF TypeOK
  <2>9. Behind(writer, line)'
    BY <2>1, <2>5 DEF Behind
  <2>10. ((status = "ready" /\ ~swallowed) => \E F : Wraps(writer, PROMPT \o line, F))'
    BY <2>1, <2>7
  <2> QED BY <2>8, <2>9, <2>10 DEF ShellInv
<1> QED BY <1>1, <1>2

(* println! after the line: an empty row. *)
LEMMA EnterFresh ==
    ASSUME NEW w \in WriterType
    PROVE  WriteString(w, <<NewLine>>) \in Fresh
BY WriteOne, NewLineFresh

(* Enter. *)
LEMMA ShellInvEnter ==
    ASSUME ShellInv, FeedEnter
    PROVE  ShellInv'
<1> DEFINE w == WriteString(writer, <<NewLine>>)
           s == Trim(line)
<1>1. /\ line \in Seq(Typable) /\ Len(line) <= LINE_CAPACITY /\ writer \in WriterType
      /\ line \in Seq(Plain) /\ swallowed \in BOOLEAN
  BY PlainText DEF ShellInv, TypeOK
<1>2. w \in Fresh
  BY <1>1, EnterFresh
<1>3. s \in Seq(Plain)
  BY <1>1, WordTypes
<1>4. CASE IsFatal(s)
  <2>1. writer' = w /\ status' = "fatal" /\ line' = line /\ swallowed' = swallowed
    BY <1>4 DEF FeedEnter
  <2> HIDE DEF w, s
  <2>2. w \in WriterType /\ w.column_position = 0
    BY <1>2 DEF Fresh
  <2>3. TypeOK'
    BY <1>1, <2>1, <2>2 DEF TypeOK
  <2>4. Behind(writer, line)'
    BY <2>1, <2>2 DEF Behind
  <2> QED BY <2>1, <2>3, <2>4 DEF ShellInv
<1>5. CASE ~IsFatal(s)
  <2> DEFINE x == Execute(w, s)
             v == WriteString(x, PROMPT)
  <2>1. writer' = v /\ line' = << >> /\ swallowed' = FALSE /\ status' = "ready"
    BY <1>5 DEF FeedEnter
  <2> HIDE DEF w, s
  <2>2. x \in Fresh
    BY <1>2, <1>3, <1>5, ExecuteFresh
  <2> HIDE DEF x
  <2>3. v \in WriterType /\ Behind(v, << >>) /\ Wraps(v, PROMPT \o << >>, 0)
    BY <2>2, PromptShown
  <2> HIDE DEF v
  <2>4. TypeOK'
    <3>1. << >> \in Seq(Typable) /\ Len(<< >>) = 0 /\ 0 <= LINE_CAPACITY
      BY EmptySeq, ShellAssumption
    <3> QED BY <2>1, <2>3, <3>1 DEF TypeOK
  <2>5. Behind(writer, line)'
    BY <2>1, <2>3 DEF Behind
  <2>6. (\E F : Wraps(writer, PROMPT \o line, F))'
    BY <2>1, <2>3
  <2> QED BY <2>4, <2>5, <2>6 DEF ShellInv
<1> QED BY <1>4, <1>5

(* The invariant of the shell. *)
LEMMA ShellInvariant == Spec => []ShellInv
<1>1. ASSUME ShellInv, [Next]_vars PROVE ShellInv'
  <2>1. CASE \E c \in Typable : FeedChar(c)
    BY <1>1, <2>1, ShellInvChar
  <2>2. CASE FeedBackspace
    BY <1>1, <2>2, ShellInvBackspace
  <2>3. CASE FeedEnter
    BY <1>1, <2>3, ShellInvEnter
  <2>4. CASE UNCHANGED vars
    BY <1>1, <2>4 DEF vars, ShellInv, TypeOK, Behind, Wraps, CellOf
  <2> QED BY <1>1, <2>1, <2>2, <2>3, <2>4 DEF Next
<1> QED BY <1>1, ShellInvInit, PTL DEF Spec

-----------------------------------------------------------------------------
(* The theorems.                                                           *)

(* For every screen size, prompt, capacity and set of words, the line      *)
(* never outgrows its buffer and the writer stays within the screen (push, *)
(* write_byte).                                                            *)
THEOREM ShellTypeOK == Spec => []TypeOK
<1>1. ShellInv => TypeOK
  BY DEF ShellInv
<1> QED BY <1>1, ShellInvariant, PTL

(* Backspace never wipes a byte of the prompt or of a reply: what stands   *)
(* left of the cursor is the last byte of the line, after any number of    *)
(* swallowed Backspaces and wrapped rows (LineBuffer::pop,                 *)
(* Writer::backspace).                                                     *)
THEOREM ShellBackspaceHitsTheLine == Spec => []BackspaceHitsTheLine
<1>1. ASSUME ShellInv PROVE BackspaceHitsTheLine
  <2> SUFFICES ASSUME line # << >>, writer.column_position > 0
               PROVE  writer.chars[LastRow][writer.column_position - 1] = Last(line)
    BY DEF BackspaceHitsTheLine
  <2>1. line \in Seq(Typable) /\ Len(line) \in Nat /\ writer.column_position \in 0 .. Width
    BY <1>1, LenProperties DEF ShellInv, TypeOK, WriterType
  <2>2. Len(line) > 0
    BY <2>1, EmptySeq
  <2>3. 0 \in 0 .. writer.column_position - 1 /\ 0 < Len(line)
    BY <2>1, <2>2, SizeAssumption
  <2>4. writer.chars[LastRow][writer.column_position - 1 - 0] = line[Len(line) - 0]
    BY <1>1, <2>3 DEF ShellInv, Behind
  <2>5. writer.column_position - 1 - 0 = writer.column_position - 1 /\ Len(line) - 0 = Len(line)
    BY <2>1, SizeAssumption
  <2> QED BY <2>4, <2>5 DEF Last
<1> QED BY <1>1, ShellInvariant, PTL

(* At every prompt the screen shows the prompt and the line that Enter     *)
(* will run, wrapped at the width, unless a Backspace was swallowed at the *)
(* start of a row (feed, write_byte, new_line).                            *)
THEOREM ShellLineIsWhatIsShown == Spec => []LineIsWhatIsShown
<1>1. ASSUME ShellInv PROVE LineIsWhatIsShown
  <2> SUFFICES ASSUME status = "ready", ~swallowed
               PROVE  /\ Len(Shown) = FullRows * Width + writer.column_position
                      /\ \A row \in 0 .. FullRows :
                            FullRows - row < Height =>
                              \A col \in 0 .. Width - 1 :
                                 writer.chars[LastRow - (FullRows - row)][col] =
                                    ShownCell(row, col)
    BY DEF LineIsWhatIsShown
  <2>1. PICK F : Wraps(writer, Shown, F)
    BY <1>1 DEF ShellInv, Shown
  <2>2. /\ F \in Nat /\ F * Width \in Nat /\ Len(Shown) = F * Width + writer.column_position
        /\ writer.column_position \in Int
    BY <1>1, <2>1, SizeAssumption DEF Wraps, ShellInv, TypeOK, WriterType
  <2>3. FullRows = F
    <3>1. Len(Shown) - writer.column_position = F * Width
      BY <2>2
    <3> QED BY <2>2, <3>1, FullRowsOf DEF FullRows
  <2>4. ASSUME NEW row \in 0 .. F, F - row < Height, NEW col \in 0 .. Width - 1
        PROVE  writer.chars[LastRow - (F - row)][col] = ShownCell(row, col)
    <3>1. PICK k \in 0 .. Height - 1 : k = F - row
      BY <2>2, <2>4, SizeAssumption
    <3>2. k <= F /\ F - k = row
      BY <2>2, <3>1
    <3>3. writer.chars[LastRow - k][col] = CellOf(Shown, F - k, col)
      BY <2>1, <3>2 DEF Wraps
    <3>4. ShownCell(row, col) = CellOf(Shown, row, col)
      BY DEF ShownCell, CellOf
    <3> QED BY <3>1, <3>2, <3>3, <3>4
  <2> QED BY <2>2, <2>3, <2>4
<1> QED BY <1>1, ShellInvariant, PTL

(* A line that names a command is not empty. *)
LEMMA CommandOfEmpty ==
    ASSUME NEW s, CommandOf(s) \in Commands
    PROVE  s # << >> /\ Name[CommandOf(s)] = FirstWord(s)
<1> DEFINE named == {c \in Commands : Name[c] = FirstWord(s)}
<1>1. "unknown" \notin Commands
  BY DEF Commands
<1>2. named # {}
  BY <1>1 DEF CommandOf
<1>3. CommandOf(s) \in named
  BY <1>2 DEF CommandOf
<1>4. FirstWord(s) # << >>
  BY <1>3, ShellAssumption
<1>5. FirstWord(<< >>) = << >>
  <2>1. Gaps(<< >>) = {}
    BY DEF Gaps
  <2> QED BY <2>1 DEF FirstWord
<1> QED BY <1>3, <1>4, <1>5

(* Enter with a line that returns, in a state of the right type. *)
LEMMA EnterReturns ==
    ASSUME TypeOK, FeedEnter, ~IsFatal(Trim(line))
    PROVE  \E w \in Fresh : /\ writer' = WriteString(Execute(w, Trim(line)), PROMPT)
                            /\ Execute(w, Trim(line)) \in Fresh
<1> DEFINE w == WriteString(writer, <<NewLine>>)
           s == Trim(line)
<1>1. line \in Seq(Plain) /\ writer \in WriterType
  BY PlainText DEF TypeOK
<1>2. w \in Fresh /\ s \in Seq(Plain)
  BY <1>1, EnterFresh, WordTypes
<1>3. writer' = WriteString(Execute(w, s), PROMPT)
  BY DEF FeedEnter
<1> HIDE DEF w
<1>4. Execute(w, s) \in Fresh
  <2> HIDE DEF s
  <2>1. ~IsFatal(s)
    BY DEF s
  <2> QED BY <1>2, <2>1, ExecuteFresh
<1> QED BY <1>2, <1>3, <1>4

(* The prompt stands at the start of the last row, the rest is as before. *)
LEMMA PromptOnLastRow ==
    ASSUME NEW x \in Fresh
    PROVE  LET v == WriteString(x, PROMPT)
           IN  /\ v \in WriterType /\ ScreenContains(v, PROMPT)
               /\ \A row \in 0 .. Height - 1 : row # LastRow => v.chars[row] = x.chars[row]
<1> DEFINE v == WriteString(x, PROMPT)
<1>1. OnRow(v, x, PROMPT, Len(PROMPT))
  BY PromptShown
<1> HIDE DEF v
<1>2. Len(PROMPT) \in 1 .. Width /\ Len(PROMPT) \in Nat
  BY ShellAssumption, SizeAssumption
<1>3. LastRow \in 0 .. Height - 1 /\ 0 \in 0 .. Width - Len(PROMPT)
  BY <1>2, SizeAssumption DEF LastRow
<1>4. ASSUME NEW i \in 1 .. Len(PROMPT) PROVE v.chars[LastRow][0 + i - 1] = PROMPT[i]
  <2>1. PICK col \in 0 .. Width - 1 : col = i - 1
    BY <1>2, SizeAssumption
  <2>2. col < Len(PROMPT) /\ col + 1 = i /\ 0 + i - 1 = col
    BY <1>2, <2>1
  <2>3. v.chars[LastRow][col] = IF col < Len(PROMPT) THEN PROMPT[col + 1] ELSE Blank
    BY <1>1 DEF OnRow
  <2> QED BY <2>2, <2>3
<1>5. ScreenContains(v, PROMPT)
  BY <1>2, <1>3, <1>4 DEF ScreenContains
<1> QED BY <1>1, <1>5 DEF OnRow, v

(* After clear only the prompt is on the screen, whatever was typed,       *)
(* printed or scrolled before (clear_screen, print_prompt).                *)
THEOREM ShellClearLeavesThePrompt == Spec => ClearLeavesThePrompt
<1>1. ASSUME TypeOK, Runs("clear")
      PROVE  /\ ScreenIsBlank([writer' EXCEPT !.chars[LastRow] = BlankRow])
             /\ ScreenContains(writer', PROMPT)
  <2> DEFINE s == Trim(line)
  <2>1. FeedEnter /\ CommandOf(s) = "clear"
    BY <1>1 DEF Runs
  <2>2. s # << >> /\ ~IsFatal(s)
    <3> HIDE DEF s
    <3> QED BY <2>1, CommandOfEmpty DEF Commands, IsFatal
  <2>3. PICK w \in Fresh : writer' = WriteString(Execute(w, s), PROMPT)
    BY <1>1, <2>1, <2>2, EnterReturns
  <2>4. Execute(w, s) = ClearScreen(w)
    <3> HIDE DEF s
    <3> QED BY <2>1, <2>2 DEF Execute
  <2> DEFINE x == ClearScreen(w)
             v == WriteString(x, PROMPT)
  <2>5. x \in Fresh /\ ScreenIsBlank(x)
    BY ClearFresh DEF Fresh
  <2>6. writer' = v
    BY <2>3, <2>4
  <2> HIDE DEF x
  <2>7. /\ v \in WriterType /\ ScreenContains(v, PROMPT)
        /\ \A row \in 0 .. Height - 1 : row # LastRow => v.chars[row] = x.chars[row]
    BY <2>5, PromptOnLastRow
  <2> HIDE DEF v
  <2>8. ScreenIsBlank([v EXCEPT !.chars[LastRow] = BlankRow])
    <3> DEFINE u == [v EXCEPT !.chars[LastRow] = BlankRow]
    <3>1. ASSUME NEW row \in 0 .. Height - 1 PROVE u.chars[row] = BlankRow
      <4>1. u.chars[row] = IF row = LastRow THEN BlankRow ELSE v.chars[row]
        BY <2>7 DEF WriterType
      <4>2. row # LastRow => v.chars[row] = BlankRow
        BY <2>5, <2>7 DEF ScreenIsBlank
      <4> QED BY <4>1, <4>2
    <3> HIDE DEF u
    <3>2. ScreenIsBlank(u)
      BY <3>1 DEF ScreenIsBlank
    <3> QED BY <3>2 DEF u
  <2> QED BY <2>6, <2>7, <2>8
<1>2. ASSUME TypeOK
      PROVE  [Runs("clear") =>
                 /\ ScreenIsBlank([writer' EXCEPT !.chars[LastRow] = BlankRow])
                 /\ ScreenContains(writer', PROMPT)]_vars
  BY <1>1, <1>2
<1> QED BY <1>2, ShellTypeOK, PTL DEF ClearLeavesThePrompt

(* println! of a word that fits leaves it on the row above the last. *)
LEMMA PrintlnSeen ==
    ASSUME Height > 1, NEW w \in Fresh, NEW r \in Seq(Plain), Len(r) \in 1 .. Width
    PROVE  \A i \in 1 .. Len(r) : Println(w, r).chars[LastRow - 1][i - 1] = r[i]
<1> DEFINE s == Append(r, NewLine)
           Seen(v) == \A i \in 1 .. Len(r) : v.chars[LastRow - 1][i - 1] = r[i]
<1>1. PICK n \in Nat : n = Len(r)
  BY LenProperties
<1>2. n \in 1 .. Width /\ r \in Seq(Text) /\ NewLine \in Text
  BY <1>1, SeqMonotonic DEF Plain, Text
<1>3. Len(s) = n + 1 /\ s[n + 1] = NewLine /\ \A i \in 1 .. n : s[i] = r[i]
  BY <1>1, <1>2, AppendProperties
<1> HIDE DEF s
<1> DEFINE W == [i \in 0 .. n + 1 |-> IF i <= n THEN {v \in WriterType : OnRow(v, w, s, i)}
                                              ELSE {v \in WriterType : Seen(v)}]
<1>4. OnRow(w, w, s, 0) /\ w \in WriterType
  <2>1. ASSUME NEW col \in 0 .. Width - 1 PROVE w.chars[LastRow][col] = Blank /\ ~(col < 0)
    BY SizeAssumption DEF Fresh, BlankRow
  <2> QED BY <2>1 DEF OnRow, Fresh
<1>5. w \in W[0] /\ \A v \in W[n + 1] : Seen(v)
  <2> HIDE DEF Seen
  <2> QED BY <1>1, <1>4
<1>6. ASSUME NEW i \in 1 .. n + 1, NEW v \in W[i - 1] PROVE WriteByte(v, Sanitize(s[i])) \in W[i]
  <2>1. OnRow(v, w, s, i - 1) /\ v \in WriterType
    <3> HIDE DEF Seen
    <3>1. i - 1 \in 0 .. n + 1 /\ i - 1 <= n
      BY <1>1
    <3> QED BY <3>1
  <2> DEFINE u == WriteByte(v, Sanitize(s[i]))
  <2>2. CASE i <= n
    <3>1. i \in Nat /\ i > 0 /\ i <= Width /\ i \in 1 .. n /\ i \in 1 .. Len(r)
      BY <1>1, <1>2, <2>2, SizeAssumption
    <3>2. s[i] \in Visible \cup {Blank}
      BY <1>3, <3>1, ElementOfSeq DEF Plain
    <3>3. OnRow(u, w, s, i)
      BY <2>1, <3>1, <3>2, OnRowMore
    <3>4. u \in WriterType
      BY <3>3 DEF OnRow
    <3> HIDE DEF u, Seen
    <3>5. u \in W[i]
      BY <2>2, <3>3, <3>4
    <3> QED BY <3>5 DEF u
  <2>3. CASE i = n + 1
    <3>1. u \in WriterType /\ u.chars = ScrollUp(v).chars
      BY <1>3, <2>1, <2>3, NewLineFresh DEF Fresh
    <3>2. LastRow - 1 \in 0 .. Height - 1 /\ LastRow - 1 # LastRow /\ (LastRow - 1) + 1 = LastRow
      BY SizeAssumption DEF LastRow
    <3>3. u.chars[LastRow - 1] = v.chars[LastRow]
      BY <2>1, <3>1, <3>2 DEF ScrollUp, WriterType
    <3>4. Seen(u)
      <4> SUFFICES ASSUME NEW j \in 1 .. Len(r)
                   PROVE  u.chars[LastRow - 1][j - 1] = r[j]
        OBVIOUS
      <4>1. PICK col \in 0 .. Width - 1 : col = j - 1
        BY <1>1, <1>2, SizeAssumption
      <4>2. col < n /\ col + 1 = j /\ j \in 1 .. n /\ i - 1 = n
        BY <1>1, <2>3, <4>1
      <4>3. v.chars[LastRow][col] = IF col < i - 1 THEN s[col + 1] ELSE Blank
        BY <2>1 DEF OnRow
      <4> QED BY <1>3, <3>3, <4>1, <4>2, <4>3
    <3> HIDE DEF u, Seen
    <3>5. u \in W[i]
      BY <1>1, <2>3, <3>1, <3>4
    <3> QED BY <3>5 DEF u
  <2> HIDE DEF W, u
  <2> QED BY <1>1, <2>2, <2>3 DEF u
<1> HIDE DEF W
<1>7. WriteString(w, s) \in W[n + 1]
  <2>1. PICK N \in Nat : N = n + 1
    OBVIOUS
  <2>2. Len(s) = N /\ \A i \in 1 .. N : \A v \in W[i - 1] : WriteByte(v, Sanitize(s[i])) \in W[i]
    BY <1>3, <1>6, <2>1
  <2>3. WriteString(w, s) \in W[N]
    BY <1>5, <2>2, WriteStringIn
  <2> QED BY <2>1, <2>3
<1> HIDE DEF Seen
<1>8. Seen(Println(w, r))
  BY <1>5, <1>7 DEF Println, s
<1> QED BY <1>8 DEF Seen

(* What is given to echo stands on one row when the prompt is back, if it  *)
(* fits there and the screen has a second row (cmd_echo, println!,         *)
(* print_prompt).                                                          *)
THEOREM ShellEchoIsSeen == ASSUME Height > 1 PROVE Spec => EchoIsSeen
<1>1. ASSUME TypeOK, Runs("echo"), Len(Rest(Trim(line))) \in 1 .. Width
      PROVE  ScreenContains(writer', Rest(Trim(line)))
  <2> DEFINE s == Trim(line)
             r == Rest(s)
  <2>1. FeedEnter /\ CommandOf(s) = "echo"
    BY <1>1 DEF Runs
  <2>2. s # << >> /\ ~IsFatal(s)
    <3> HIDE DEF s
    <3> QED BY <2>1, CommandOfEmpty DEF Commands, IsFatal
  <2>3. PICK w \in Fresh : /\ writer' = WriteString(Execute(w, s), PROMPT)
                           /\ Execute(w, s) \in Fresh
    BY <1>1, <2>1, <2>2, EnterReturns
  <2>4. Execute(w, s) = Println(w, r)
    <3> HIDE DEF s
    <3> QED BY <2>1, <2>2 DEF Execute
  <2>5. line \in Seq(Plain)
    BY <1>1, PlainText DEF TypeOK
  <2>6. s \in Seq(Plain)
    BY <2>5, WordTypes
  <2>7. r \in Seq(Plain) /\ Len(r) \in 1 .. Width
    <3>1. Len(r) \in 1 .. Width
      BY <1>1
    <3> HIDE DEF s
    <3> QED BY <2>6, <3>1, WordTypes
  <2> SUFFICES ScreenContains(writer', r)
    OBVIOUS
  <2> HIDE DEF s, r
  <2> DEFINE x == Println(w, r)
             v == WriteString(x, PROMPT)
  <2>8. \A i \in 1 .. Len(r) : x.chars[LastRow - 1][i - 1] = r[i]
    BY <2>7, PrintlnSeen
  <2>9. x \in Fresh /\ writer' = v
    BY <2>3, <2>4
  <2> HIDE DEF x
  <2>10. \A row \in 0 .. Height - 1 : row # LastRow => v.chars[row] = x.chars[row]
    BY <2>9, PromptOnLastRow
  <2> HIDE DEF v
  <2>11. LastRow - 1 \in 0 .. Height - 1 /\ LastRow - 1 # LastRow /\ 0 \in 0 .. Width - Len(r)
    BY <2>7, SizeAssumption DEF LastRow
  <2>12. ASSUME NEW i \in 1 .. Len(r) PROVE v.chars[LastRow - 1][0 + i - 1] = r[i]
    <3>1. 0 + i - 1 = i - 1
      BY <2>7
    <3> QED BY <2>8, <2>10, <2>11, <3>1
  <2>13. ScreenContains(v, r)
    BY <2>7, <2>11, <2>12 DEF ScreenContains
  <2> QED BY <2>9, <2>13
<1>2. ASSUME TypeOK
      PROVE  [(Runs("echo") /\ Len(Rest(Trim(line))) \in 1 .. Width) =>
                 ScreenContains(writer', Rest(Trim(line)))]_vars
  BY <1>1, <1>2
<1> QED BY <1>2, ShellTypeOK, PTL DEF EchoIsSeen
=============================================================================
