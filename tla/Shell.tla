------------------------------- MODULE Shell --------------------------------
(***************************************************************************)
(* src/shell.rs over the screen of src/vga_buffer.rs: the line buffer, the *)
(* prompt, and feed() as one step per byte.  feed runs inside the idle     *)
(* loop's without_interrupts and no interrupt handler touches LINE or      *)
(* WRITER, so nothing comes between its parts; what a panic or an          *)
(* exception does after a fatal command is not part of this module.        *)
(*                                                                         *)
(* Command names, kinds of `falha` and replies are words over a small      *)
(* alphabet, given by the constants.                                       *)
(***************************************************************************)
EXTENDS VgaBuffer

CONSTANTS
    Typable,            \* the printable bytes the user types
    PROMPT,             \* the prompt, "proto-os> " in the code
    LINE_CAPACITY,      \* 128 in the code
    Name,               \* the names of COMMANDS: command -> word
    Kind,               \* the arguments of falha: kind -> word
    Reply               \* what the println!s of a topic print: topic -> text

Commands == {"help", "clear", "echo", "sobre", "panic", "mem", "falha"}
Kinds == {"pagina", "pilha", "opcode", "protecao", "breakpoint"}
Topics == {"welcome", "help", "sobre", "mem", "types", "breakpoint"}

(* The prompt fits on a row, as 10 < 80 does in the code, and names are    *)
(* words: not empty and without a blank.  Every reply ends its last line.  *)
ASSUME ShellAssumption ==
    /\ LINE_CAPACITY \in Nat \ {0}
    /\ Typable \subseteq Visible \cup {Blank}
    /\ PROMPT \in Seq(Visible \cup {Blank}) /\ Len(PROMPT) \in 1 .. Width - 1
    /\ DOMAIN Name = Commands /\ DOMAIN Kind = Kinds /\ DOMAIN Reply = Topics
    /\ \A c \in Commands : Name[c] \in Seq(Visible) \ {<< >>}
    /\ \A k \in Kinds : Kind[k] \in Seq(Visible) \ {<< >>}
    /\ \A t \in Topics : Reply[t] \in Seq(Text) \ {<< >>} /\ Last(Reply[t]) = NewLine

VARIABLES
    writer,             \* the Writer inside WRITER
    line,               \* LINE: bytes[..len]
    status,             \* "ready", or "fatal": a command did not return
    swallowed           \* history: since the prompt, a Backspace shortened
                        \* the line and left the screen as it was

vars == <<writer, line, status, swallowed>>

Println(w, text) == WriteString(w, Append(text, NewLine))

PrintWelcome(w) == WriteString(w, Reply["welcome"])

-----------------------------------------------------------------------------
(* execute: what a line asks for.                                          *)

(* str::trim; the blank is the only white space a line can hold. *)
Trim(s) ==
    LET inside == {i \in 1 .. Len(s) : s[i] # Blank}
    IN  IF inside = {} THEN << >> ELSE SubSeq(s, Min(inside), Max(inside))

(* line.split_once(' '): the first word and what follows its blank. *)
Gaps(s) == {i \in 1 .. Len(s) : s[i] = Blank}
FirstWord(s) == IF Gaps(s) = {} THEN s ELSE SubSeq(s, 1, Min(Gaps(s)) - 1)
Rest(s) == IF Gaps(s) = {} THEN << >> ELSE SubSeq(s, Min(Gaps(s)) + 1, Len(s))

(* The command a trimmed line names; "unknown" for any other first word. *)
CommandOf(s) ==
    LET named == {c \in Commands : Name[c] = FirstWord(s)}
    IN  IF named = {} THEN "unknown" ELSE CHOOSE c \in named : TRUE

(* The kind cmd_falha is asked for; it trims its argument again. *)
KindOf(s) ==
    LET named == {k \in Kinds : Kind[k] = Trim(Rest(s))}
    IN  IF named = {} THEN "types" ELSE CHOOSE k \in named : TRUE

(* The line never returns: panic, or an exception that halts. *)
IsFatal(s) ==
    \/ CommandOf(s) = "panic"
    \/ CommandOf(s) = "falha" /\ KindOf(s) \in Kinds \ {"breakpoint"}

(* Mutant: echo prints the word it was called by. *)
ExecuteEchoesName(w, s) ==
    LET command == CommandOf(s)
    IN  CASE s = << >> -> w
          [] s # << >> /\ command \in {"help", "sobre", "mem"} -> WriteString(w, Reply[command])
          [] s # << >> /\ command = "clear" -> ClearScreen(w)
          [] s # << >> /\ command \in {"echo", "unknown"} -> Println(w, FirstWord(s))
          [] s # << >> /\ command = "falha" -> WriteString(w, Reply[KindOf(s)])

(* The screen after execute, for a line that returns. *)
Execute(w, s) ==
    LET command == CommandOf(s)
    IN  CASE s = << >> -> w
          [] s # << >> /\ command \in {"help", "sobre", "mem"} -> WriteString(w, Reply[command])
          [] s # << >> /\ command = "clear" -> ClearScreen(w)
          [] s # << >> /\ command = "echo" -> Println(w, Rest(s))
          [] s # << >> /\ command = "falha" -> WriteString(w, Reply[KindOf(s)])
          [] s # << >> /\ command = "unknown" -> Println(w, FirstWord(s))

-----------------------------------------------------------------------------
(* feed, by kind of byte.                                                  *)

(* LineBuffer::push answers false; LineBuffer::pop answers false. *)
LineFull == Len(line) = LINE_CAPACITY
LineEmpty == line = << >>

(* Mutant: a full line refuses the byte and echoes it nevertheless. *)
FeedCharEchoesAlways(c) ==
    /\ status = "ready"
    /\ line' = IF LineFull THEN line ELSE Append(line, c)
    /\ writer' = WriteString(writer, <<c>>)
    /\ UNCHANGED <<status, swallowed>>

(* Mutant: the test for a full line is one byte late. *)
FeedCharOverruns(c) ==
    /\ status = "ready"
    /\ IF Len(line) = LINE_CAPACITY + 1
       THEN UNCHANGED <<line, writer>>
       ELSE /\ line' = Append(line, c)
            /\ writer' = WriteString(writer, <<c>>)
    /\ UNCHANGED <<status, swallowed>>

(* LineBuffer::push and the echo; a full line refuses the byte. *)
FeedChar(c) ==
    /\ status = "ready"
    /\ IF LineFull
       THEN UNCHANGED <<line, writer>>
       ELSE /\ line' = Append(line, c)
            /\ writer' = WriteString(writer, <<c>>)
    /\ UNCHANGED <<status, swallowed>>

(* Mutant: the screen is erased whether or not the line had a byte. *)
FeedBackspaceAlways ==
    /\ status = "ready"
    /\ line' = IF LineEmpty THEN line ELSE Front(line)
    /\ writer' = Backspace(writer)
    /\ swallowed' = (swallowed \/ (~LineEmpty /\ writer.column_position = 0))
    /\ UNCHANGED status

(* LineBuffer::pop and vga_buffer::backspace; an empty line does nothing. *)
FeedBackspace ==
    /\ status = "ready"
    /\ IF LineEmpty
       THEN UNCHANGED <<line, writer, swallowed>>
       ELSE /\ line' = Front(line)
            /\ writer' = Backspace(writer)
            /\ swallowed' = (swallowed \/ writer.column_position = 0)
    /\ UNCHANGED status

(* Enter: println!, execute, clear the line, print_prompt; a fatal command *)
(* leaves in the middle.                                                   *)
FeedEnter ==
    /\ status = "ready"
    /\ LET w == WriteString(writer, <<NewLine>>)
           s == Trim(line)
       IN  IF IsFatal(s)
           THEN writer' = w /\ status' = "fatal" /\ UNCHANGED <<line, swallowed>>
           ELSE /\ writer' = WriteString(Execute(w, s), PROMPT)
                /\ line' = << >>
                /\ swallowed' = FALSE
                /\ UNCHANGED status

(* kernel_main has cleared the screen, welcomed the user and printed the   *)
(* first prompt.                                                           *)
Init ==
    /\ writer = WriteString(PrintWelcome(ClearedWriter), PROMPT)
    /\ line = << >>
    /\ status = "ready"
    /\ swallowed = FALSE

Next ==
    \/ \E c \in Typable : FeedChar(c)
    \/ FeedBackspace
    \/ FeedEnter

Spec == Init /\ [][Next]_vars

-----------------------------------------------------------------------------
(* Properties.                                                             *)

TypeOK ==
    /\ writer \in WriterType
    /\ line \in Seq(Typable) /\ Len(line) <= LINE_CAPACITY
    /\ status \in {"ready", "fatal"}
    /\ swallowed \in BOOLEAN

(* The prompt and the line, as the screen should show them. *)
Shown == PROMPT \o line

(* The rows above the one being written that they fill. *)
FullRows == (Len(Shown) - writer.column_position) \div Width

ShownCell(row, col) ==
    LET i == row * Width + col + 1
    IN  IF i <= Len(Shown) THEN Shown[i] ELSE Blank

(* The screen and the line buffer agree at the prompt: the bottom rows     *)
(* show exactly the prompt and the bytes of LINE, wrapped at the width,    *)
(* and writing goes on right after them.  Whatever was executed, refused   *)
(* or erased before, the user sees the line that Enter will run, unless a  *)
(* Backspace was swallowed at the start of a row (feed, Writer::backspace  *)
(* and write_byte).                                                        *)
LineIsWhatIsShown ==
    (status = "ready" /\ ~swallowed) =>
        /\ Len(Shown) = FullRows * Width + writer.column_position
        /\ \A row \in 0 .. FullRows :
              FullRows - row < Height =>
                \A col \in 0 .. Width - 1 :
                   writer.chars[LastRow - (FullRows - row)][col] = ShownCell(row, col)

(* What Backspace wipes from the screen is what it takes from the line,    *)
(* never a byte of the prompt or of a reply, even after a Backspace was    *)
(* swallowed: the cell left of the cursor always holds the last byte of a  *)
(* line that is not empty (LineBuffer::pop, "Backspace nao apaga o         *)
(* prompt").                                                               *)
BackspaceHitsTheLine ==
    (status = "ready" /\ line # << >> /\ writer.column_position > 0) =>
        writer.chars[LastRow][writer.column_position - 1] = Last(line)

(* Enter runs the given command. *)
Runs(command) == FeedEnter /\ CommandOf(Trim(line)) = command

(* What the user gives to echo is on the screen when the prompt is back,   *)
(* on one row if it fits, whatever the screen held and however the line    *)
(* was typed (execute, cmd_echo and the scrolling of println).             *)
EchoIsSeen ==
    [][(Runs("echo") /\ Len(Rest(Trim(line))) \in 1 .. Width) =>
            ScreenContains(writer', Rest(Trim(line)))]_vars

(* After clear nothing of the past is left, not even the line that asked   *)
(* for it: the screen is blank but for its last row, which has the prompt  *)
(* (execute, clear_screen), and not at the top, as README.md:261 has it.   *)
ClearLeavesThePrompt ==
    [][Runs("clear") =>
            /\ ScreenIsBlank([writer' EXCEPT !.chars[LastRow] = BlankRow])
            /\ ScreenContains(writer', PROMPT)]_vars

(* Backspace always erases the last character typed, on the screen too     *)
(* (README.md, and the comment on Writer::backspace).                      *)
BackspaceErases == ~swallowed
=============================================================================
