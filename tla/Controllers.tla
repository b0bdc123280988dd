---------------------------- MODULE Controllers ----------------------------
(***************************************************************************)
(* One call of getControllerInput (InputUtils.cpp): the GamePad and the    *)
(* four channels of KPAD merged into one set of GamePad buttons.  A pad    *)
(* answers with the buttons held now and with what changed since the last  *)
(* time it answered, or it does not answer at all.                         *)
(***************************************************************************)

CONSTANTS
  Pads,    \* the controllers: the GamePad, and those connected to a channel
  Kind     \* "gamepad", "core", "nunchuk", "none" (0xFF), or any other extension

VARIABLE last   \* the buttons held on each pad when it last answered

CoreButtons ==
  {"LEFT", "RIGHT", "DOWN", "UP", "PLUS", "2", "1", "B", "A", "MINUS", "HOME"}

\* The Wii Remote has 1 and 2 where the GamePad has X and Y.
remapWiiMoteButtons(buttons) ==
  {CASE b = "2" -> "Y" [] b = "1" -> "X" [] OTHER -> b : b \in buttons \cap CoreButtons}

remapClassicButtons(buttons) ==
  buttons \cap {"LEFT", "RIGHT", "DOWN", "UP", "PLUS", "X", "Y", "B", "A", "MINUS", "HOME",
                "ZR", "ZL", "R", "L"}

Remapped(p, buttons) ==
  CASE Kind[p] = "gamepad" -> buttons
    [] Kind[p] \in {"core", "nunchuk"} -> remapWiiMoteButtons(buttons)
    [] Kind[p] = "none" -> {}
    [] OTHER -> remapClassicButtons(buttons)

\* Nothing was read yet.
Untouched == [p \in Pads |-> {}]

\* Mutant of getControllerInput: what is held counts as pressed.
getControllerInputHeld(now) ==
  [trigger |-> UNION {Remapped(p, now[p]) : p \in DOMAIN now},
   hold    |-> UNION {Remapped(p, now[p]) : p \in DOMAIN now},
   release |-> UNION {Remapped(p, last[p] \ now[p]) : p \in DOMAIN now}]

\* The answers merged: now[p] are the buttons held, for each pad that answers.
getControllerInput(now) ==
  [trigger |-> UNION {Remapped(p, now[p] \ last[p]) : p \in DOMAIN now},
   hold    |-> UNION {Remapped(p, now[p]) : p \in DOMAIN now},
   release |-> UNION {Remapped(p, last[p] \ now[p]) : p \in DOMAIN now}]

\* What the pads remember of the call.
Answered(now) == last' = [p \in Pads |-> IF p \in DOMAIN now THEN now[p] ELSE last[p]]

=============================================================================
