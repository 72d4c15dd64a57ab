-------------------------------- MODULE Keyboard --------------------------------
(***************************************************************************)
(* From keys to characters (kbd.c and kbd.h of project01).  The keyboard   *)
(* sends a byte when a key is pressed, again and again while it is held,   *)
(* and another when it is released, each after 0xE0 if the key is one of   *)
(* those that a later keyboard added; kbdgetc gets one byte at a time and  *)
(* remembers what is held as flags.                                        *)
(***************************************************************************)
EXTENDS Naturals, Sequences, FiniteSets

CONSTANT Key  \* the keys, as their codes, with E0BIT for a key that has the prefix

E0 == 224
E0BIT == 128
NO == "no character"

Base(k) == k % E0BIT
KeyboardAssumption == Key \subseteq 1 .. 255 /\ \A k \in Key : Base(k) # E0 % E0BIT

VARIABLES
  held,   \* keys held down
  queue,  \* bytes on their way
  shift,  \* the flags
  caps,   \* for the properties: the key for capitals was pressed an odd number of times
  typed   \* the last key that was pressed, what it gave, and what else was held

vars == <<held, queue, shift, caps, typed>>

\* The codes of kbd.h: with E0BIT, after 0xE0.
CTLKEY == 29
CAPSKEY == 58
Shiftcode(d) ==
  CASE d \in {CTLKEY, CTLKEY + E0BIT} -> {"CTL"}
    [] d \in {42, 54} -> {"SHIFT"}
    [] d \in {56, 56 + E0BIT} -> {"ALT"}
    [] OTHER -> {}
Togglecode(d) ==
  CASE d = CAPSKEY -> {"CAPSLOCK"} [] d = 69 -> {"NUMLOCK"} [] d = 70 -> {"SCROLLLOCK"} [] OTHER -> {}
Locks == {"CAPSLOCK", "NUMLOCK", "SCROLLLOCK"}

\* Some keys of each kind: a letter, a digit, one of the number pad and the arrow with its code.
Normalmap(d) == CASE d = 30 -> "a" [] d = 2 -> "1" [] d = 72 -> "8" [] d = 72 + E0BIT -> "up" [] OTHER -> NO
Shiftmap(d) == CASE d = 30 -> "A" [] d = 2 -> "!" [] d = 72 -> "8" [] d = 72 + E0BIT -> "up" [] OTHER -> NO
Ctlmap(d) == CASE d = 30 -> "^A" [] d = 72 + E0BIT -> "up" [] OTHER -> NO
Swapped(c) == CASE c = "a" -> "A" [] c = "A" -> "a" [] OTHER -> c

Charcode(flags, d) ==
  LET c == IF "CTL" \in flags THEN Ctlmap(d) ELSE IF "SHIFT" \in flags THEN Shiftmap(d) ELSE Normalmap(d) IN
  IF "CAPSLOCK" \in flags THEN Swapped(c) ELSE c

Modifiers == {k \in Key : Shiftcode(k) # {}}
Alone == held \cap Modifiers = {}

Init ==
  /\ held = {} /\ queue = <<>> /\ shift = {} /\ caps = FALSE
  /\ typed = [key |-> 0, c |-> NO, alone |-> FALSE, caps |-> FALSE]

-----------------------------------------------------------------------------
(* The keyboard *)

Bytes(k, release) ==
  LET byte == IF release THEN Base(k) + E0BIT ELSE Base(k) IN
  IF k > E0BIT THEN <<E0, byte>> ELSE <<byte>>

Press(k) ==
  /\ queue = <<>>
  /\ held' = held \cup {k} /\ queue' = Bytes(k, FALSE)
  /\ caps' = (caps # (k = CAPSKEY))
  /\ UNCHANGED <<shift, typed>>

Release(k) ==
  /\ queue = <<>> /\ k \in held
  /\ held' = held \ {k} /\ queue' = Bytes(k, TRUE)
  /\ UNCHANGED <<shift, caps, typed>>

-----------------------------------------------------------------------------
(* kbdgetc *)

\* A key with the prefix keeps its bit.
Code(b) == IF b < E0BIT /\ "E0ESC" \in shift THEN b + E0BIT
           ELSE IF b > E0BIT /\ "E0ESC" \notin shift THEN b - E0BIT ELSE b

\* Two mutants: a release is looked up as it is, and leaves the prefix.
ReleasedRaw(b) == shift' = shift \ (Shiftcode(b) \cup {"E0ESC"}) /\ UNCHANGED typed
ReleasedPrefix(b) == shift' = shift \ Shiftcode(Code(b)) /\ UNCHANGED typed

Released(b) == shift' = shift \ (Shiftcode(Code(b)) \cup {"E0ESC"}) /\ UNCHANGED typed

Pressed(b) ==
  LET d == Code(b)
      flags == (shift \ {"E0ESC"}) \cup Shiftcode(d)
      t == Togglecode(d)
      toggled == (flags \ t) \cup (t \ flags)
  IN
  /\ shift' = toggled
  /\ typed' = [key |-> d, c |-> Charcode(toggled, d), alone |-> Alone, caps |-> caps]

Kbdgetc ==
  /\ queue # <<>> /\ queue' = Tail(queue)
  /\ LET b == Head(queue) IN
     IF b = E0 THEN shift' = shift \cup {"E0ESC"} /\ UNCHANGED typed
     ELSE IF b > E0BIT THEN Released(b) ELSE Pressed(b)
  /\ UNCHANGED <<held, caps>>

Next == Kbdgetc \/ \E k \in Key : Press(k) \/ Release(k)

Spec == Init /\ [][Next]_vars

-----------------------------------------------------------------------------
\* No byte is lost here: a key is pressed or released when the bytes of the last one were read.
\* Were the byte of a release lost, kbdgetc would keep its flag (kbd.c:26) until that key was
\* pressed and released once more.

\* No modifier, and no half of a prefix, outlasts the keys that are held, in whatever order they
\* were pressed, held and released: a key that is pressed alone means what is printed on it.
PlainKeysPlain ==
  queue = <<>> =>
    /\ Alone => shift \subseteq Locks
    /\ ("CAPSLOCK" \in shift) = caps
    /\ typed.alone =>
         typed.c = IF typed.caps THEN Swapped(Normalmap(typed.key)) ELSE Normalmap(typed.key)
=============================================================================
