-------------------------------- MODULE Console --------------------------------
(***************************************************************************)
(* The console: the keyboard decoder (src/src/drivers/keyboard.c), the     *)
(* serial input (src/src/drivers/serial.c), the line editor at the end of  *)
(* kernel_main (src/src/kernel.c) and the screen row it echoes to          *)
(* (src/src/drivers/vga.c).  Characters are their codes, keys their scan   *)
(* codes; of the key maps only the keys of normal_map are kept.  The       *)
(* output of a command is left out: it ends with a new row.                *)
(***************************************************************************)
EXTENDS Integers, Sequences, SequencesExt

CONSTANTS
  CommandSize,      \* sizeof(command)
  VGA_WIDTH,
  SerialBytes       \* what arrives on the serial line

VARIABLES
  shift, caps_lock, control,      \* the statics of keyboard_read_char
  command,                        \* the characters up to length
  cells, column,                  \* the row of the cursor
  held,                           \* history: the modifier keys that are down
  overlapped                      \* history: both shift keys have been down at once

console_vars == <<shift, caps_lock, control, command, cells, column, held, overlapped>>

NewLine == 10
Backspace == 8
ControlC == 3
Space == 32
prompt == <<109, 118, 104, 62, 32>>                              \* "mvh> "

ShiftKeys == {42, 54}
normal_map == (1 :> 27) @@ (14 :> 8) @@ (28 :> 10) @@ (35 :> 104) @@ (46 :> 99) @@ (56 :> 0)
shift_map == [normal_map EXCEPT ![35] = 72, ![46] = 67]
Modifiers == ShiftKeys \cup {29}
Keys == Modifiers \cup {58} \cup DOMAIN normal_map

IsLower(c) == c \in 97 .. 122
IsUpper(c) == c \in 65 .. 90

(* keyboard_read_char past the modifier keys; 0 is not returned.           *)
Character(scan) ==
  LET value == IF shift THEN shift_map[scan] ELSE normal_map[scan] IN
  CASE control /\ IsLower(value) -> value - 97 + 1
    [] control /\ IsUpper(value) -> value - 65 + 1
    [] caps_lock /\ ~control /\ IsLower(value) -> value - 32
    [] caps_lock /\ ~control /\ IsUpper(value) -> value + 32
    [] OTHER -> value

(* serial_read: the byte as a signed char, with two of them translated.    *)
serial_read(byte) ==
  IF byte = 13 THEN NewLine ELSE IF byte = 127 THEN Backspace
  ELSE IF byte > 127 THEN byte - 256 ELSE byte

(* vga_put of a printable character, and of a backspace.                   *)
Put(row, at, c) ==
  IF at + 1 = VGA_WIDTH THEN <<[i \in 0 .. VGA_WIDTH - 1 |-> Space], 0>>
  ELSE <<[row EXCEPT ![at] = c], at + 1>>
PutBackspace(row, at) == IF at > 0 THEN <<[row EXCEPT ![at - 1] = Space], at - 1>> ELSE <<row, at>>

Prompted ==
  FoldLeft(LAMBDA screen, c : Put(screen[1], screen[2], c),
           <<[i \in 0 .. VGA_WIDTH - 1 |-> Space], 0>>, prompt)
show_prompt == cells' = Prompted[1] /\ column' = Prompted[2]

(* Mutation of HandleInput: a backspace rubs out the prompt.               *)
HandleInput_rubs_prompt(c) ==
  CASE c \in {NewLine, ControlC} -> command' = <<>> /\ show_prompt
    [] c = Backspace ->
         /\ command' = IF command = <<>> THEN <<>> ELSE Front(command)
         /\ cells' = PutBackspace(cells, column)[1] /\ column' = PutBackspace(cells, column)[2]
    [] c >= Space /\ Len(command) < CommandSize - 1 ->
         /\ command' = Append(command, c)
         /\ cells' = Put(cells, column, c)[1] /\ column' = Put(cells, column, c)[2]
    [] OTHER -> UNCHANGED <<command, cells, column>>

(* One turn of the loop: a line is run or dropped, or edited.              *)
HandleInput(c) ==
  CASE c \in {NewLine, ControlC} -> command' = <<>> /\ show_prompt
    [] c = Backspace /\ command # <<>> ->
         /\ command' = Front(command)
         /\ cells' = PutBackspace(cells, column)[1] /\ column' = PutBackspace(cells, column)[2]
    [] c >= Space /\ Len(command) < CommandSize - 1 ->
         /\ command' = Append(command, c)
         /\ cells' = Put(cells, column, c)[1] /\ column' = Put(cells, column, c)[2]
    [] OTHER -> UNCHANGED <<command, cells, column>>

(* A key goes down or repeats.                                             *)
KeyPressed(scan) ==
  /\ held' = held \cup ({scan} \cap Modifiers)
  /\ overlapped' = (overlapped \/ ShiftKeys \subseteq held')
  /\ shift' = (shift \/ scan \in ShiftKeys)
  /\ control' = (control \/ scan = 29)
  /\ caps_lock' = IF scan = 58 THEN ~caps_lock ELSE caps_lock
  /\ IF scan \in DOMAIN normal_map /\ Character(scan) # 0
     THEN HandleInput(Character(scan)) ELSE UNCHANGED <<command, cells, column>>

(* Either shift key coming up clears the one flag they share; the release  *)
(* of a key that is no modifier is skipped.                                *)
KeyReleased(scan) ==
  /\ scan \in held /\ held' = held \ {scan}
  /\ shift' = (shift /\ scan \notin ShiftKeys)
  /\ control' = (control /\ scan # 29)
  /\ UNCHANGED <<caps_lock, command, cells, column, overlapped>>

SerialInput(byte) ==
  /\ HandleInput(serial_read(byte))
  /\ UNCHANGED <<shift, caps_lock, control, held, overlapped>>

ConsoleInit ==
  /\ shift = FALSE /\ caps_lock = FALSE /\ control = FALSE
  /\ command = <<>> /\ held = {} /\ overlapped = FALSE
  /\ cells = Prompted[1] /\ column = Prompted[2]

ConsoleNext ==
  \/ \E scan \in Keys : KeyPressed(scan)
  \/ \E scan \in Modifiers : KeyReleased(scan)
  \/ \E byte \in SerialBytes : SerialInput(byte)
------------------------------------------------------------------------------
(* The row shows the prompt and the command that Enter would run, nothing  *)
(* else, whatever was typed, rubbed out, dropped or received; the command  *)
(* leaves room for its terminator.                                         *)
EchoAgrees ==
  LET line == prompt \o command IN
  /\ Len(command) < CommandSize
  /\ column = Len(line)
  /\ \A i \in 0 .. VGA_WIDTH - 1 : cells[i] = IF i < Len(line) THEN line[i + 1] ELSE Space

(* As long as the two shift keys are not down together, the decoder knows  *)
(* which modifier keys are down.                                           *)
ModifiersTracked ==
  /\ control <=> 29 \in held
  /\ ~overlapped => (shift <=> held \cap ShiftKeys # {})

=============================================================================
