------------------------------ MODULE Keyboard ------------------------------
(***************************************************************************)
(* device/keyboard.c: intr_keyboard_handler turns scan codes into          *)
(* characters and puts them into kdb_buf, the queue of module IoQueue.     *)
(* The handler is an interrupt handler: it runs to its end, and it drops a *)
(* character rather than wait for room.                                    *)
(*                                                                         *)
(* A character is 2 * index + column, its place in keymap; the keys with   *)
(* the same character in both columns have column 0.                       *)
(***************************************************************************)
EXTENDS IoQueue

CONSTANTS
    Keys,       \* make codes of the keys somebody presses
    MaxPresses  \* bound on how often

prefix == 224                       \* 0xe0
ext == 57344                        \* 0xe000
shift_make == {42, 54}              \* shift_l_make, shift_r_make: 0x2a, 0x36
ctrl_make == {29, ext + 29}         \* ctrl_l_make, ctrl_r_make: 0x1d, 0xe01d
alt_make == {56, ext + 56}          \* alt_l_make, alt_r_make: 0x38, 0xe038
caps_lock_make == 58                \* 0x3a
char_invisible == 0

\* What keymap holds: the keys up to 0x3a in two columns.
KeyChars == 2 .. 2 * caps_lock_make + 1

\* External: a key's make code has 7 bits, and no key has 0x60, whose break code would
\* be 0xe0.
Codes == (1 .. 127) \ {prefix - 128}

ASSUME KeyboardAssumption ==
    /\ Keys \subseteq Codes \cup {ext + code : code \in Codes}
    /\ MaxPresses \in Nat
    /\ KeyChars \subseteq Chars

VARIABLES
    ctrl_status, shift_status, alt_status, ext_scancode,
    wire,       \* external: the bytes the keyboard has sent and nobody has read
    down,       \* external: the keys that are down
    pressed,    \* history: the keys pressed
    typed,      \* history: the characters put into kdb_buf
    dropped     \* history: whether a character was dropped

status == << ctrl_status, shift_status, alt_status >>
keys == << wire, down, pressed >>
kvars == << vars, status, ext_scancode, keys, typed, dropped >>

KInit ==
    /\ Init
    /\ ctrl_status = 0 /\ shift_status = 0 /\ alt_status = 0
    /\ ext_scancode = 0
    /\ wire = << >>
    /\ down = {}
    /\ pressed = << >>
    /\ typed = << >>
    /\ dropped = FALSE

-----------------------------------------------------------------------------
(* The keyboard: a byte for a key, 0xe0 and a byte for an extended one; the *)
(* same with bit 7 set when it is released.                                 *)

scan_bytes(key, bit7) ==
    IF key > ext THEN << prefix, key - ext + bit7 >> ELSE << key + bit7 >>

press(key) ==
    /\ key \notin down
    /\ Len(pressed) < MaxPresses
    /\ down' = down \cup {key}
    /\ pressed' = Append(pressed, key)
    /\ wire' = wire \o scan_bytes(key, 0)
    /\ UNCHANGED << vars, status, ext_scancode, typed, dropped >>

release(key) ==
    /\ key \in down
    /\ down' = down \ {key}
    /\ wire' = wire \o scan_bytes(key, 128)
    /\ UNCHANGED << vars, status, ext_scancode, pressed, typed, dropped >>

-----------------------------------------------------------------------------
(* The handler.                                                            *)

\* Control keys have no character; esc, backspace, tab, enter, * and space have one.
keymap(index, column) ==
    IF index \in {29, 42, 54, 56, caps_lock_make} THEN char_invisible
    ELSE IF index \in {1, 14, 15, 28, 55, 57} THEN 2 * index
    ELSE 2 * index + column

\* Keys that only shift affects, not alt.
shift_only(scancode) ==
    scancode < 14 \/ scancode \in {41, 26, 27, 43, 39, 40, 51, 52, 53}

\* shift, from the status before this key.
shift_column(scancode) ==
    IF shift_only(scancode) THEN shift_status
    ELSE IF shift_status = 1 /\ alt_status = 1 THEN 0
    ELSE IF shift_status = 1 \/ alt_status = 1 THEN 1
    ELSE 0

\* A break code clears the status of a control key.
break_code(make_code) ==
    /\ ctrl_status' = IF make_code \in ctrl_make THEN 0 ELSE ctrl_status
    /\ shift_status' = IF make_code \in shift_make THEN 0 ELSE shift_status
    /\ alt_status' = IF make_code \in alt_make THEN 0 ELSE alt_status
    /\ UNCHANGED << vars, typed, dropped >>

\* A make code up to 0x3a: its character, if it has one and there is room for it.
\* No make code sets a status.
make_code_known(scancode) ==
    LET ch == keymap(scancode, shift_column(scancode))
    IN  /\ UNCHANGED status
        /\ \/ ch = char_invisible /\ UNCHANGED << vars, typed, dropped >>
           \/ /\ ch # char_invisible /\ ioqueue_is_full
              /\ dropped' = TRUE
              /\ UNCHANGED << vars, typed >>
           \/ /\ ch # char_invisible /\ ~ioqueue_is_full
              /\ put(ch)
              /\ typed' = Append(typed, ch)
              /\ UNCHANGED dropped

\* Mutant: ext_scancode stays set.
intr_keyboard_handler_ext ==
    LET byte == Head(wire)
        scancode == IF ext_scancode = 1 THEN ext + byte ELSE byte
    IN  /\ Alive /\ wire # << >>
        /\ wire' = Tail(wire)
        /\ ext_scancode' = IF byte = prefix THEN 1 ELSE ext_scancode
        /\ \/ byte = prefix /\ UNCHANGED << vars, status, typed, dropped >>
           \/ byte # prefix /\ byte >= 128 /\ break_code(scancode - 128)
           \/ byte < 128 /\ scancode < 59 /\ make_code_known(scancode)
           \/ byte < 128 /\ scancode >= 59 /\ UNCHANGED << vars, status, typed, dropped >>
        /\ UNCHANGED << down, pressed >>

intr_keyboard_handler ==
    LET byte == Head(wire)
        scancode == IF ext_scancode = 1 THEN ext + byte ELSE byte
    IN  /\ Alive /\ wire # << >>
        /\ wire' = Tail(wire)
        /\ ext_scancode' = IF byte = prefix THEN 1 ELSE 0
        /\ \/ byte = prefix /\ UNCHANGED << vars, status, typed, dropped >>
           \/ byte # prefix /\ byte >= 128 /\ break_code(scancode - 128)
           \/ byte < 128 /\ scancode < 59 /\ make_code_known(scancode)
           \/ byte < 128 /\ scancode >= 59 /\ UNCHANGED << vars, status, typed, dropped >>
        /\ UNCHANGED << down, pressed >>

\* A reader of kdb_buf.
reader ==
    /\ \E t \in Readers : ioq_getchar(t)
    /\ UNCHANGED << status, ext_scancode, keys, typed, dropped >>

KNext ==
    \/ \E key \in Keys : press(key) \/ release(key)
    \/ intr_keyboard_handler
    \/ reader

KSpec == KInit /\ [][KNext]_kvars

-----------------------------------------------------------------------------
(* Properties.                                                             *)

\* Keys that have a character and whose scan code is not an extended one.
Printable(key) == key < 59 /\ keymap(key, 0) # char_invisible

Settled == wire = << >> /\ ~dropped /\ Alive

\* Once everything sent has been handled, the characters queued are those of the
\* printable keys pressed, in that order and once each: an extended key, a break
\* code or an unknown one in between adds nothing and costs nothing.
TypedInOrder ==
    Settled =>
        \E place \in [DOMAIN typed -> {i \in DOMAIN pressed : Printable(pressed[i])}] :
            /\ \A i, j \in DOMAIN typed : i < j => place[i] < place[j]
            /\ \A i \in DOMAIN pressed :
                Printable(pressed[i]) => \E k \in DOMAIN typed : place[k] = i
            /\ \A i \in DOMAIN typed : typed[i] \div 2 = pressed[place[i]]
=============================================================================
