------------------------------- MODULE MCBoot -------------------------------
(***************************************************************************)
(* The TLC instance of BootInput: three environments, so that one can      *)
(* vanish from below, at and above the default, and words of three bits,   *)
(* wide enough for every index and small enough for the cursor of an empty *)
(* menu to reach the largest word and the negative ints.  The user has the *)
(* GamePad and a Wii Remote, and holds one button of each at a time.       *)
(***************************************************************************)
EXTENDS BootInput, TLC

CONSTANTS e1, e2, e3

MCOrder == <<e1, e2, e3>>
MCLong == {e2}
\* The long name is cut to the name sorted just before it.
MCCutToOther == [name \in MCLong |-> e1]
MCUncut == [name \in {} |-> "empty"]

MCPads == {"drc", "wii"}
MCKind == "drc" :> "gamepad" @@ "wii" :> "core"
\* Any of the pads may not answer.
MCAnswers ==
  LET drc == {{}, {"UP"}, {"DOWN"}, {"A"}, {"X"}, {"Y"}}
      wii == {{}, {"1"}, {"A"}}
  IN  {<<>>} \cup {"drc" :> d : d \in drc} \cup {"wii" :> w : w \in wii}
        \cup {"drc" :> d @@ "wii" :> w : d \in drc, w \in wii}
=============================================================================
