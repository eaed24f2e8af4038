----------------------------- MODULE VgaBuffer ------------------------------
(***************************************************************************)
(* The Writer of src/vga_buffer.rs as operators on a record: the cells of  *)
(* the text buffer, `column_position`, and the position last sent to the   *)
(* CRTC's cursor registers.  Everything is written on the last row; a new  *)
(* line scrolls the whole screen.  Colours are left out: one colour is     *)
(* ever used.                                                              *)
(***************************************************************************)
EXTENDS Integers, Sequences, SequencesExt

CONSTANTS
    Width,          \* BUFFER_WIDTH, 80 in the code
    Height,         \* BUFFER_HEIGHT, 25 in the code
    Visible,        \* printable bytes other than the blank
    Foreign         \* bytes outside printable ASCII and the newline

ASSUME SizeAssumption == Width \in Nat \ {0} /\ Height \in Nat \ {0}

Blank == " "
NewLine == "\n"
UnknownChar == "0xfe"

Cell == Visible \cup {Blank, UnknownChar}

(* The bytes that are printed. *)
Text == Visible \cup Foreign \cup {Blank, NewLine}

ASSUME BytesAssumption ==
    /\ NewLine \notin Visible \cup Foreign /\ Blank \notin Visible
    /\ Foreign \cap (Visible \cup {Blank}) = {}

LastRow == Height - 1

WriterType ==
    [chars : [0 .. Height - 1 -> [0 .. Width - 1 -> Cell]],
     column_position : 0 .. Width,
     cursor : Nat]

-----------------------------------------------------------------------------

BlankRow == [col \in 0 .. Width - 1 |-> Blank]

(* move_hardware_cursor: the two CRTC registers hold 16 bits. *)
MoveHardwareCursor(w) ==
    [w EXCEPT !.cursor = ((Height - 1) * Width + w.column_position) % 65536]

(* Mutant: the row that becomes free keeps what it held. *)
ScrollKeepsLastRow(w) ==
    [w EXCEPT !.chars = [row \in 0 .. Height - 1 |->
                            IF row = LastRow THEN w.chars[row] ELSE w.chars[row + 1]],
              !.column_position = 0]

(* new_line with its clear_row: every row moves up, the last is blanked. *)
ScrollUp(w) ==
    [w EXCEPT !.chars = [row \in 0 .. Height - 1 |->
                            IF row = LastRow THEN BlankRow ELSE w.chars[row + 1]],
              !.column_position = 0]

(* One cell of the last row. *)
PutCell(w, col, c) == [w EXCEPT !.chars[LastRow][col] = c]

(* Mutant: the end of the row is noticed one column late. *)
WriteByteLateWrap(w, byte) ==
    IF byte = NewLine THEN MoveHardwareCursor(ScrollUp(w))
    ELSE LET v == IF w.column_position > Width THEN ScrollUp(w) ELSE w
             u == PutCell(v, v.column_position, byte)
         IN  MoveHardwareCursor([u EXCEPT !.column_position = v.column_position + 1])

(* Mutant: the cursor is left behind by a new line. *)
WriteByteLazyCursor(w, byte) ==
    IF byte = NewLine THEN ScrollUp(w)
    ELSE LET v == IF w.column_position >= Width THEN ScrollUp(w) ELSE w
             u == PutCell(v, v.column_position, byte)
         IN  MoveHardwareCursor([u EXCEPT !.column_position = v.column_position + 1])

(* write_byte: a byte that finds the row full goes to a new one. *)
WriteByte(w, byte) ==
    IF byte = NewLine THEN MoveHardwareCursor(ScrollUp(w))
    ELSE LET v == IF w.column_position >= Width THEN ScrollUp(w) ELSE w
             u == PutCell(v, v.column_position, byte)
         IN  MoveHardwareCursor([u EXCEPT !.column_position = v.column_position + 1])

(* The byte write_string hands to write_byte. *)
Sanitize(byte) == IF byte \in Foreign THEN UnknownChar ELSE byte

(* write_string, one byte after the other. *)
WriteString(w, s) ==
    LET out[n \in 0 .. Len(s)] ==
            IF n = 0 THEN w ELSE WriteByte(out[n - 1], Sanitize(s[n]))
    IN  out[Len(s)]

(* Mutant: clear_screen begins at the second row. *)
ClearScreenSkipsTop(w) ==
    MoveHardwareCursor([w EXCEPT !.chars = [row \in 0 .. Height - 1 |->
                                               IF row = 0 THEN w.chars[0] ELSE BlankRow],
                                 !.column_position = 0])

(* clear_screen *)
ClearScreen(w) ==
    MoveHardwareCursor([w EXCEPT !.chars = [row \in 0 .. Height - 1 |-> BlankRow],
                                 !.column_position = 0])

(* backspace: nothing at column 0, not even across a wrapped row. *)
Backspace(w) ==
    IF w.column_position = 0 THEN w
    ELSE LET col == w.column_position - 1
         IN  MoveHardwareCursor([PutCell(w, col, Blank) EXCEPT !.column_position = col])

(* screen_contains: the needle stands on one row, unbroken. *)
ScreenContains(w, needle) ==
    /\ Len(needle) \in 1 .. Width
    /\ \E row \in 0 .. Height - 1, start \in 0 .. Width - Len(needle) :
          \A i \in 1 .. Len(needle) : w.chars[row][start + i - 1] = needle[i]

(* screen_is_blank *)
ScreenIsBlank(w) == \A row \in 0 .. Height - 1 : w.chars[row] = BlankRow

(* A writer over a cleared screen: the state in which kernel_main, having  *)
(* called clear_screen, starts to print.                                   *)
ClearedWriter ==
    ClearScreen([chars |-> [row \in 0 .. Height - 1 |-> BlankRow],
                 column_position |-> 0, cursor |-> 0])
=============================================================================
