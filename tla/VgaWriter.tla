----------------------------- MODULE VgaWriter ------------------------------
(***************************************************************************)
(* The VGA writer under any sequence of calls: write_byte by way of        *)
(* write_string, clear_screen and backspace, one call per step (WRITER is  *)
(* locked for each).  `rows` records, without scrolling or columns, what   *)
(* a reader of the screen should see.                                      *)
(***************************************************************************)
EXTENDS VgaBuffer

VARIABLES
    writer,         \* the Writer inside WRITER
    rows            \* history: the rows printed since the last clear, the
                    \* last Height of them; each is what was written on it

vars == <<writer, rows>>

Init == writer = ClearedWriter /\ rows = << << >> >>

(* The newest Height rows. *)
Newest(s) == IF Len(s) > Height THEN Tail(s) ELSE s

RowsAfter(byte) ==
    LET c == Sanitize(byte)
        row == Last(rows)
    IN  CASE byte = NewLine -> Newest(Append(rows, << >>))
          [] byte # NewLine /\ Len(row) = Width -> Newest(Append(rows, <<c>>))
          [] OTHER -> Append(Front(rows), Append(row, c))

(* One byte of a print!: write_string and write_byte. *)
PrintByte(byte) ==
    /\ writer' = WriteByte(writer, Sanitize(byte))
    /\ rows' = RowsAfter(byte)

(* vga_buffer::clear_screen *)
Clear ==
    /\ writer' = ClearScreen(writer)
    /\ rows' = << << >> >>

(* vga_buffer::backspace *)
EraseLast ==
    /\ writer' = Backspace(writer)
    /\ rows' = IF Last(rows) = << >> THEN rows
               ELSE Append(Front(rows), Front(Last(rows)))

Next ==
    \/ \E byte \in Text : PrintByte(byte)
    \/ Clear
    \/ EraseLast

Spec == Init /\ [][Next]_vars

-----------------------------------------------------------------------------

(* The screen keeps its shape and the column stays within the row or just  *)
(* past its end, so the index `chars[row][col]` of write_byte is always in *)
(* bounds: a failed bounds check there would panic with WRITER locked and  *)
(* hang the panic handler.                                                 *)
TypeOK == writer \in WriterType

(* While the newest row has room, the hardware cursor stands on the screen *)
(* where the next byte will go: on the last row, right behind what was     *)
(* written on it, after every mixture of prints, wraps, erasures and       *)
(* clears (move_hardware_cursor at the end of each).  The cursor registers *)
(* must be able to hold every cell.                                        *)
CursorFollows ==
    (Len(Last(rows)) < Width /\ Height * Width <= 65536) =>
        /\ writer.cursor \div Width = LastRow
        /\ writer.cursor % Width = Len(Last(rows))

(* The cursor is always on the last visible row: the comment on            *)
(* move_hardware_cursor.                                                   *)
CursorOnLastRow == writer.cursor \div Width = LastRow

(* A row padded with blanks to the width of the screen. *)
Padded(row) ==
    [col \in 0 .. Width - 1 |-> IF col < Len(row) THEN row[col + 1] ELSE Blank]

(* The screen shows the last Height rows of what was printed, the newest   *)
(* at the bottom, every byte in its place and everything else blank:       *)
(* scrolling, wrapping, erasing and clearing neither lose, smear nor       *)
(* reorder text (new_line, write_byte, backspace, clear_screen).           *)
ScreenShowsNewestRows ==
    /\ writer.column_position = Len(Last(rows))
    /\ \A k \in 0 .. Height - 1 :
          writer.chars[LastRow - k] =
              IF k < Len(rows) THEN Padded(rows[Len(rows) - k]) ELSE BlankRow
=============================================================================
