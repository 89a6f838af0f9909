------------------------------- MODULE Keypad -------------------------------
(***************************************************************************)
(* The keys on their way to the guest: the frontend's joypad, which        *)
(* update_input polls at the start of a frame, get_keypad_state, which     *)
(* asks for one button after another and builds the word of the GA330's    *)
(* keypad, and kbd_get_status of minisys.c, which gives it to the guest.   *)
(***************************************************************************)
EXTENDS Integers, FiniteSets

CONSTANT MaxHeld    \* bound: buttons held down at once

ASSUME KeypadAssumption == MaxHeld \in Nat

VARIABLES
  input,        \* the buttons held when input_poll_cb was called last
  outputs       \* what kbd_get_status has stored in this frame, or <<>>

keyVars == <<input, outputs>>

\* The buttons the core asks for.
Buttons == {"A", "B", "X", "UP", "DOWN", "LEFT", "RIGHT", "R", "L", "START"}

\* Mutant: a line that was copied and not changed.
KeyBitsCopied ==
  [A |-> 31, B |-> 15, X |-> 29, UP |-> 20, DOWN |-> 28, LEFT |-> 28, RIGHT |-> 18]

\* The number of the bit that stands for a button; those in Keyless have none.
KeyBits ==
  [A |-> 31, B |-> 15, X |-> 29, UP |-> 20, DOWN |-> 27, LEFT |-> 28, RIGHT |-> 18]

Keyless == {"R", "L", "START"}

Held == {held \in SUBSET Buttons : Cardinality(held) <= MaxHeld}

KeyInit == input = {} /\ outputs = <<>>

\* A word is the set of its bits that are 1.
get_keypad_state == {KeyBits[b] : b \in input \cap DOMAIN KeyBits}

\* update_input; the answer about UP is not used.
UpdateInput ==
  /\ input' \in Held
  /\ outputs' = <<>>

KbdGetStatus ==
  /\ outputs' = <<{}, {}, get_keypad_state>>
  /\ UNCHANGED input

-----------------------------------------------------------------------------
\* Three words for the guest, the first two of them 0.
KeyTypeOK ==
  /\ input \in Held
  /\ outputs \in {<<>>} \cup ({{}} \X {{}} \X SUBSET (0..31))

\* From the word the guest can tell which buttons are held: there is a bit
\* for each of them that the GA330 has a key for, no two share one, and no
\* bit is set by a button that is not held or that has no key.
KeysTellApart ==
  outputs # <<>> =>
    /\ \A b \in Buttons \ Keyless : b \in input <=> KeyBits[b] \in outputs[3]
    /\ Cardinality(outputs[3]) = Cardinality(input \ Keyless)

=============================================================================
