--------------------------- MODULE PairMenuProofs ---------------------------
(***************************************************************************)
(* TLAPS proofs about PairMenu, for every length of the WPAD timer: the    *)
(* inductive invariant, the safety properties it implies, and the          *)
(* refinement of PairPromise.                                              *)
(***************************************************************************)
EXTENDS PairMenu, TLAPS

\* Branch takes each state to the control point of its case.
LEMMA BranchValues ==
  /\ Branch["WAIT"] = "draw"
  /\ Branch["SYNC_WPAD"] = "wpadTimer"
  /\ Branch["SYNC_GAMEPAD"] = "pincode"
  /\ Branch["PAIRING"] = "poll"
  /\ Branch["CANCEL"] = "stop"
BY DEF Branch

\* The control points of the main thread, listed.
LEMMA MainPointsListed ==
  MainPoints =
    {"draw", "wpadTimer", "pincode", "poll", "stop", "cancelNotify", "closeIM",
     "freeRequest", "ccrExit", "closed", "construct", "fatal", "process", "wpadInput",
     "startPairing", "started", "toWait", "menu"}
<1>1. {Branch[s] : s \in States} = {"draw", "wpadTimer", "pincode", "poll", "stop"}
  BY BranchValues DEF States
<1> QED BY <1>1 DEF MainPoints, Closing

\* The initial state satisfies the inductive invariant.
LEMMA InitIInv == Init => IInv
<1> SUFFICES ASSUME Init PROVE IInv
  OBVIOUS
<1>1. TypeOK
  <2>1. raced \in BOOLEAN
    BY DEF Init
  <2> QED
    BY <2>1, RestartAssumption, MainPointsListed DEF Init, TypeOK, States
<1>2. main = "construct" /\ mState = "WAIT" /\ cb = "idle" /\ request = "none"
      /\ ccr = "idle"
  BY DEF Init
<1> QED
  BY <1>1, <1>2 DEF IInv, Closing, PairingOwned, MainSees, PairingAt, CallbackSees,
    ShownSince, OneOwner, NotYetArmed, NotifyArmed, QuietAfterCancel

\* Every step preserves the inductive invariant.
LEMMA NextIInv == IInv /\ [Next]_vars => IInv'
<1> SUFFICES ASSUME IInv, [Next]_vars PROVE IInv'
  OBVIOUS
<1> USE RestartAssumption, MainPointsListed
    DEF IInv, TypeOK, States, Closing, PairingOwned, MainSees, PairingAt, CallbackSees,
        ShownSince, OneOwner, NotYetArmed, NotifyArmed, QuietAfterCancel,
        Goto, CbGoto, objVars, cbVars, imVars
<1>1. CASE Construct
  BY <1>1 DEF Construct
<1>2. CASE Process
  BY <1>2, BranchValues DEF Process
<1>3. CASE WpadTimer
  BY <1>3 DEF WpadTimer
<1>4. CASE WpadInput
  BY <1>4 DEF WpadInput
<1>5. CASE GetPincode
  BY <1>5 DEF GetPincode
<1>6. CASE StartPairing
  BY <1>6 DEF StartPairing
<1>7. CASE StorePairing
  BY <1>7 DEF StorePairing
<1>8. CASE PollPairing
  BY <1>8 DEF PollPairing
<1>9. CASE StopPairing
  BY <1>9 DEF StopPairing
<1>10. CASE StoreWait
  BY <1>10 DEF StoreWait
<1>11. CASE Draw
  BY <1>11 DEF Draw, ScreenOf
<1>12. CASE Menu
  BY <1>12 DEF Menu
<1>13. CASE CancelNotify
  <2>1. raced' \in BOOLEAN /\ (~raced' => request # "completed" /\ cb = "idle")
    BY <1>13 DEF CancelNotify
  <2>2. /\ main = "cancelNotify" /\ main' = "closeIM"
        /\ request' = IF request = "pending" THEN "failed" ELSE request
        /\ UNCHANGED <<mState, timerAge, cb, cbTo, ccr, screen, syncAge>>
    BY <1>13 DEF CancelNotify
  <2> QED
    BY <2>1, <2>2
<1>14. CASE Destruct
  BY <1>14 DEF Destruct
<1>15. CASE CbEnter
  BY <1>15 DEF CbEnter
<1>16. CASE CbTestWait
  BY <1>16 DEF CbTestWait
<1>17. CASE CbTestWpad
  BY <1>17 DEF CbTestWpad
<1>18. CASE CbTestPair
  BY <1>18 DEF CbTestPair
<1>19. CASE CbStore
  BY <1>19 DEF CbStore
<1>20. CASE CbTimer
  BY <1>20 DEF CbTimer
<1>21. CASE CbRearm
  BY <1>21 DEF CbRearm
<1>22. CASE PressSync
  BY <1>22 DEF PressSync
<1>23. CASE PairingTimesOut
  BY <1>23 DEF PairingTimesOut
<1>24. CASE PairingFinishes
  BY <1>24 DEF PairingFinishes
<1>25. CASE Tick
  BY <1>25 DEF Tick, Older
<1>26. CASE UNCHANGED vars
  BY <1>26 DEF vars
<1> QED
  BY <1>1, <1>2, <1>3, <1>4, <1>5, <1>6, <1>7, <1>8, <1>9, <1>10, <1>11, <1>12, <1>13,
     <1>14, <1>15, <1>16, <1>17, <1>18, <1>19, <1>20, <1>21, <1>22, <1>23, <1>24, <1>25,
     <1>26
  DEF Next, MainStep, Callback, Stopped

\* The inductive invariant holds in every reachable state.
LEMMA Invariance == Spec => []IInv
BY InitIInv, NextIInv, PTL DEF Spec

\* The variables of PairMenu keep their types.
THEOREM TypeCorrect == Spec => []TypeOK
<1>1. IInv => TypeOK
  BY DEF IInv
<1> QED BY <1>1, Invariance, PTL

\* A pairing runs only under the states that can end it.
THEOREM PairingIsOwned == Spec => []PairingOwned
<1>1. IInv => PairingOwned
  BY DEF IInv
<1> QED BY <1>1, Invariance, PTL

\* The pairing screen is up whenever ProcessPairScreen starts over during a pairing.
THEOREM PairingIsShown == Spec => []PairingShown
<1>1. IInv => PairingShown
  BY DEF IInv, ShownSince, PairingShown
<1> QED BY <1>1, Invariance, PTL

\* As long as the menu runs, the SYNC button is heard.
THEOREM SyncIsHeard == Spec => []NotifyArmed
<1>1. IInv => NotifyArmed
  BY DEF IInv
<1> QED BY <1>1, Invariance, PTL

\* After an uncontended cancel, no callback touches the object.
THEOREM CancelIsQuiet == Spec => []QuietAfterCancel
<1>1. IInv => QuietAfterCancel
  BY DEF IInv
<1> QED BY <1>1, Invariance, PTL

\* STATE_CANCEL is lost to nothing but the store of line 177.
THEOREM CancelIsKept == Spec => CancelKept
<1>1. ASSUME IInv, [Next]_vars, mState = "CANCEL", mState' # "CANCEL"
      PROVE \/ mState' = "WAIT" /\ ccr # "pairing"
            \/ main = "started"
  BY <1>1 DEF IInv, TypeOK, States, MainSees, PairingAt, CallbackSees, Goto, CbGoto,
    objVars, cbVars, imVars, vars, Next, MainStep, Callback, Construct, Process,
    WpadTimer, WpadInput, GetPincode, StartPairing, StorePairing, PollPairing,
    StopPairing, StoreWait, Draw, Menu, CancelNotify, Destruct, CbEnter, CbTestWait,
    CbTestWpad, CbTestPair, CbStore, CbTimer, CbRearm, PressSync, PairingTimesOut,
    PairingFinishes, Tick, Stopped
<1>2. IInv /\ [Next]_vars =>
        [mState = "CANCEL" /\ mState' # "CANCEL" =>
           \/ mState' = "WAIT" /\ ccr # "pairing"
           \/ main = "started"]_vars
  BY <1>1
<1> QED BY <1>2, Invariance, PTL DEF Spec, CancelKept

\* PairMenu implements PairPromise: the menu is shown, and the PairMenu destroyed,
\* only when no pairing runs.
THEOREM Refinement == Spec => KeepsPromise
<1>1. Init => Promise!Init
  BY DEF Init, Promise!Init, Closing
<1>2. IInv /\ [Next]_vars => [Promise!Next]_Promise!vars
  <2> SUFFICES ASSUME IInv, [Next]_vars PROVE [Promise!Next]_Promise!vars
    OBVIOUS
  <2> USE MainPointsListed
      DEF IInv, TypeOK, States, Closing, PairingOwned, MainSees, PairingAt, Goto, CbGoto,
          objVars, cbVars, imVars, Promise!Next, Promise!vars
  <2>1. CASE Process
    BY <2>1, BranchValues DEF Process
  <2>2. CASE StartPairing
    BY <2>2 DEF StartPairing, Promise!Begin
  <2>3. CASE PollPairing \/ StopPairing
    BY <2>3 DEF PollPairing, StopPairing, Promise!End
  <2>4. CASE Draw
    BY <2>4 DEF Draw, Promise!ShowMenu
  <2>5. CASE Menu
    BY <2>5 DEF Menu, Promise!Ask, Promise!Close
  <2>6. CASE Construct \/ WpadTimer \/ WpadInput \/ GetPincode \/ StorePairing \/ StoreWait
    BY <2>6 DEF Construct, WpadTimer, WpadInput, GetPincode, StorePairing, StoreWait
  <2>7. CASE CancelNotify \/ Destruct
    BY <2>7 DEF CancelNotify, Destruct
  <2>8. CASE Callback
    BY <2>8 DEF Callback, CbEnter, CbTestWait, CbTestWpad, CbTestPair, CbStore, CbTimer,
      CbRearm
  <2>9. CASE PairingTimesOut \/ PairingFinishes
    BY <2>9 DEF PairingTimesOut, PairingFinishes, Promise!End
  <2>10. CASE PressSync \/ Tick \/ UNCHANGED vars
    BY <2>10 DEF PressSync, Tick, vars
  <2> QED
    BY <2>1, <2>2, <2>3, <2>4, <2>5, <2>6, <2>7, <2>8, <2>9, <2>10
    DEF Next, MainStep, Stopped
<1> QED BY <1>1, <1>2, Invariance, PTL DEF Spec, KeepsPromise, Promise!Spec

=============================================================================
