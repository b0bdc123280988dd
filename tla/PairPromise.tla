---------------------------- MODULE PairPromise ----------------------------
(***************************************************************************)
(* What PairMenu promises the environment selection screen about GamePad   *)
(* pairing, with none of its states, callbacks or requests: pairing begins *)
(* only while ProcessPairScreen keeps the screen, and neither the menu nor *)
(* the code after the menu ever runs while the CCR service still pairs.    *)
(***************************************************************************)

VARIABLES level,    \* who has the screen: "pair", "menu" or "closed"
          pairing   \* the CCR service is pairing a GamePad

vars == <<level, pairing>>

Levels == {"pair", "menu", "closed"}

Init == level = "pair" /\ pairing = FALSE

\* Pairing starts, at most one at a time, while a pairing screen is shown.
Begin == level = "pair" /\ ~pairing /\ pairing' = TRUE /\ UNCHANGED level

\* Pairing succeeds, times out or is stopped.
End == pairing /\ pairing' = FALSE /\ UNCHANGED level

\* ProcessPairScreen returns false: the menu may read input again.
ShowMenu == level = "pair" /\ ~pairing /\ level' = "menu" /\ UNCHANGED pairing

\* The menu loop asks ProcessPairScreen again.
Ask == level = "menu" /\ level' = "pair" /\ UNCHANGED pairing

\* The PairMenu is destroyed.
Close == level = "menu" /\ level' = "closed" /\ UNCHANGED pairing

Next == Begin \/ End \/ ShowMenu \/ Ask \/ Close

Spec == Init /\ [][Next]_vars

=============================================================================
