----------------------------- MODULE BootInput -----------------------------
(***************************************************************************)
(* Boot as its user drives it: the commands of the menu are the buttons of *)
(* one or more controllers, read by getControllerInput once a frame, once  *)
(* by main before the menu, and by the pairing screen in its place.        *)
(***************************************************************************)
EXTENDS Boot, Controllers

CONSTANT Answers   \* what the pads may answer together: buttons held, of some of the pads

ASSUME AnswersAssumption == \A now \in Answers : DOMAIN now \subseteq Pads

VARIABLE asked   \* ghost: X, Y, - or + was pressed in this menu

padVars == <<last, asked>>

InputInit == Init /\ last = Untouched /\ asked = FALSE

\* Buttons pressed since the last read that saw the pad.
Pressed(now) == UNION {Remapped(p, now[p] \ last[p]) : p \in DOMAIN now}

\* main's own read: X, pressed or held, opens the menu.
FirstRead ==
  /\ ReadInput
  /\ \E now \in Answers :
       /\ held = ("X" \in getControllerInput(now).trigger \cup getControllerInput(now).hold)
       /\ Answered(now)
  /\ UNCHANGED asked

\* The branches of the menu in their order.
Branches == <<{"UP"}, {"DOWN"}, {"A"}, {"X", "MINUS"}, {"Y", "PLUS"}>>

Takes(k, trigger) ==
  /\ trigger \cap Branches[k] # {}
  /\ \A j \in 1 .. k - 1 : trigger \cap Branches[j] = {}

\* One frame of the menu: at most one of the buttons acts.
Dispatch(trigger) ==
  \/ Takes(1, trigger) /\ (Up \/ (selected = 0 /\ UNCHANGED vars))
  \/ Takes(2, trigger) /\ (Down \/ (selected >= (Len(payloads) - 1) % Word /\ UNCHANGED vars))
  \/ Takes(3, trigger) /\ Choose
  \/ Takes(4, trigger) /\ Clear
  \/ Takes(5, trigger) /\ SetDefault
  \/ (\A k \in DOMAIN Branches : trigger \cap Branches[k] = {}) /\ UNCHANGED vars

MenuFrame ==
  /\ pc = "menu"
  /\ \E now \in Answers :
       /\ Dispatch(getControllerInput(now).trigger)
       /\ Answered(now)
       /\ asked' = (asked \/ Pressed(now) \cap {"X", "Y", "PLUS", "MINUS"} # {})

\* A frame of the pairing screen: its read takes the presses, and the menu sees none.
PairFrame ==
  /\ pc = "menu"
  /\ \E now \in Answers : Answered(now)
  /\ UNCHANGED <<vars, asked>>

\* InputUtils::DeInit, after the menu.
Leave == Pick /\ last' = Untouched /\ asked' = FALSE

Off == PowerOff /\ last' = Untouched /\ asked' = FALSE

InputNext ==
  \/ FirstRead \/ MenuFrame \/ PairFrame \/ Leave \/ Off
  \/ (PowerOn \/ Start \/ ReadConfig \/ Launch \/ SaveOpen \/ SaveWrite) /\ UNCHANGED padVars

InputSpec == InputInit /\ [][InputNext]_<<vars, padVars>>

-----------------------------------------------------------------------------
(* Properties *)

\* default.cfg changes only from a menu with entries, in which the user pressed X, Y, - or
\* +; the menu is left only by a press of A.  Each is a press no earlier read saw: the X
\* that opened the menu, still held, is not taken for "Clear Default", nor the A that
\* closed the pairing screen for "Choose".
OnlyWhenAsked ==
  [][/\ config' # config => payloads # <<>> /\ asked
     /\ pc = "menu" /\ pc' \in {"saveOpen", "pick"} => "A" \in Pressed(last')]_<<vars, padVars>>

\* What it takes: a mark in the menu comes from a press in it, a save from a mark.
AskedInv ==
  /\ pc \in {"off", "start", "readConfig", "readInput"} => pressed = "none"
  /\ pc \in {"menu", "saveOpen", "saveWrite"} /\ pressed # "none" => asked
  /\ pc = "menu" /\ pressed = "none" => autoBoot = autobootIndex
  /\ pc \in {"saveOpen", "saveWrite"} => pressed # "none" /\ payloads # <<>>

=============================================================================
