------------------------------ MODULE Keyboard ------------------------------
(***************************************************************************)
(* src/keyboard.rs: Scan Code Set 1 to ASCII, US QWERTY, and the state of  *)
(* the two Shift keys.  The table is whole, for all 256 bytes;             *)
(* InputPath.tla extends the module and feeds translate() what the         *)
(* keyboard sends.                                                         *)
(* ASCII codes are numbers, as in the code's u8.                           *)
(***************************************************************************)
EXTENDS Integers, Sequences, FiniteSets

CONSTANT None       \* Option::None

ASSUME NoneIsNoByte == None \notin 0 .. 255

VARIABLES
    shift,          \* SHIFT: a ShiftState
    byte            \* the Option<u8> of the last translate()

LEFT_SHIFT_MAKE == 42       \* 0x2A
LEFT_SHIFT_BREAK == 170     \* 0xAA
RIGHT_SHIFT_MAKE == 54      \* 0x36
RIGHT_SHIFT_BREAK == 182    \* 0xB6

BACKSPACE == 8
ENTER == 10
SPACE == 32
Printable == 32 .. 126

ShiftState == [left_held : BOOLEAN, right_held : BOOLEAN]

IsActive(s) == s.left_held \/ s.right_held

-----------------------------------------------------------------------------

(* The runs of consecutive make codes of the table, without and with       *)
(* Shift: the rows 1..=, q..], a..`, the key \ and the row z../            *)
NumberLower == <<49, 50, 51, 52, 53, 54, 55, 56, 57, 48, 45, 61>>
NumberUpper == <<33, 64, 35, 36, 37, 94, 38, 42, 40, 41, 95, 43>>
TopLower == <<113, 119, 101, 114, 116, 121, 117, 105, 111, 112, 91, 93>>
TopUpper == <<81, 87, 69, 82, 84, 89, 85, 73, 79, 80, 123, 125>>
HomeLower == <<97, 115, 100, 102, 103, 104, 106, 107, 108, 59, 39, 96>>
HomeUpper == <<65, 83, 68, 70, 71, 72, 74, 75, 76, 58, 34, 126>>
BottomLower == <<122, 120, 99, 118, 98, 110, 109, 44, 46, 47>>
BottomUpper == <<90, 88, 67, 86, 66, 78, 77, 60, 62, 63>>

Rows ==
    << [first |-> 2, lower |-> NumberLower, upper |-> NumberUpper],
       [first |-> 16, lower |-> TopLower, upper |-> TopUpper],
       [first |-> 30, lower |-> HomeLower, upper |-> HomeUpper],
       [first |-> 43, lower |-> <<92>>, upper |-> <<124>>],
       [first |-> 44, lower |-> BottomLower, upper |-> BottomUpper] >>

RowHas(r, code) == code \in r.first .. r.first + Len(r.lower) - 1

(* The byte of a key of the rows, None for a code outside them. *)
RowByte(code, held) ==
    IF \E i \in DOMAIN Rows : RowHas(Rows[i], code)
    THEN LET r == Rows[CHOOSE i \in DOMAIN Rows : RowHas(Rows[i], code)]
         IN  (IF held THEN r.upper ELSE r.lower)[code - r.first + 1]
    ELSE None

(* ascii_for_make_code: Backspace, Enter and Space, then the rows. *)
AsciiForMakeCode(code, held) ==
    CASE code = 14 -> BACKSPACE
      [] code = 28 -> ENTER
      [] code = 57 -> SPACE
      [] OTHER -> RowByte(code, held)

-----------------------------------------------------------------------------

(* Mutant: releasing either Shift key releases both. *)
ShiftAfterReleasesBoth(s, sc) ==
    CASE sc = LEFT_SHIFT_MAKE -> [s EXCEPT !.left_held = TRUE]
      [] sc = RIGHT_SHIFT_MAKE -> [s EXCEPT !.right_held = TRUE]
      [] sc \in {LEFT_SHIFT_BREAK, RIGHT_SHIFT_BREAK} ->
            [left_held |-> FALSE, right_held |-> FALSE]
      [] OTHER -> s

(* The Shift state translate() leaves behind. *)
ShiftAfter(s, sc) ==
    CASE sc = LEFT_SHIFT_MAKE -> [s EXCEPT !.left_held = TRUE]
      [] sc = LEFT_SHIFT_BREAK -> [s EXCEPT !.left_held = FALSE]
      [] sc = RIGHT_SHIFT_MAKE -> [s EXCEPT !.right_held = TRUE]
      [] sc = RIGHT_SHIFT_BREAK -> [s EXCEPT !.right_held = FALSE]
      [] OTHER -> s

(* The Option<u8> translate() returns: nothing for a Shift key, nothing    *)
(* for a code with bit 7 set (every release and the prefix 0xE0), the      *)
(* table's byte otherwise.                                                 *)
ByteFor(s, sc) ==
    CASE sc \in {LEFT_SHIFT_MAKE, LEFT_SHIFT_BREAK, RIGHT_SHIFT_MAKE, RIGHT_SHIFT_BREAK} -> None
      [] sc >= 128 -> None
      [] OTHER -> AsciiForMakeCode(sc, IsActive(s))

(* keyboard::translate *)
Translate(sc) ==
    /\ shift' = ShiftAfter(shift, sc)
    /\ byte' = ByteFor(shift, sc)

-----------------------------------------------------------------------------

KeyboardInit ==
    /\ shift = [left_held |-> FALSE, right_held |-> FALSE]
    /\ byte = None

KeyboardNext == \E sc \in 0 .. 255 : Translate(sc)

(* translate() fed any bytes at all, in any order. *)
KeyboardSpec == KeyboardInit /\ [][KeyboardNext]_<<shift, byte>>

(* Every byte that translate() produces is one that shell::feed acts on:   *)
(* Enter, Backspace or a printable character.  The branch of feed that     *)
(* ignores a byte is never taken for what was typed.                       *)
ShellKnowsEveryByte == byte \in Printable \cup {BACKSPACE, ENTER, None}

(* The make codes that type b with the given state of Shift. *)
KeysFor(b, held) == {c \in 0 .. 127 : AsciiForMakeCode(c, held) = b}

(* The table of ascii_for_make_code is a complete US keyboard: whatever    *)
(* Shift is now, each of the 94 visible ASCII characters is typed by       *)
(* exactly one key, either with Shift as it is or with the other position  *)
(* of Shift and never with both; Space, Enter and Backspace each have one  *)
(* key, the same in both positions.                                        *)
EveryCharacterHasOneKey ==
    LET now == IsActive(shift)
    IN  /\ \A b \in Printable \ {SPACE} :
              Cardinality(KeysFor(b, now)) + Cardinality(KeysFor(b, ~now)) = 1
        /\ \A b \in {SPACE, ENTER, BACKSPACE} :
              /\ Cardinality(KeysFor(b, now)) = 1
              /\ KeysFor(b, now) = KeysFor(b, ~now)
=============================================================================
