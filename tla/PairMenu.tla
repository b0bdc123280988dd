------------------------------ MODULE PairMenu ------------------------------
(***************************************************************************)
(* The controller pairing part of the selection screen: class PairMenu of  *)
(* utils/PairUtils.cpp and the loop of EnvironmentSelectionScreen that     *)
(* drives it.  Two threads of control share the object without a lock:     *)
(*   - the main thread runs ProcessPairScreen again and again (`main`);    *)
(*   - SyncButtonCallback (`cb`) runs whenever the console's SYNC button   *)
(*     completes the armed IM_GetEventNotify request.                      *)
(* Every read or write of mState, and every call to a system service, is a *)
(* step of its own, so a callback may run between any two of them.         *)
(***************************************************************************)
EXTENDS Naturals

CONSTANT Restart    \* the 18 seconds after which WPAD syncing lapses, in ticks

ASSUME RestartAssumption == Restart \in Nat \ {0}

VARIABLES
  mState,     \* PairMenu::mState
  main,       \* control point of the main thread
  cb,         \* control point of SyncButtonCallback
  cbTo,       \* the state the callback has decided to store
  request,    \* mIMRequest as the IM service sees it
  raced,      \* a callback was already on its way when the request was cancelled
  ccr,        \* the CCR service: what CCRSysGetPairingState would report
  screen,     \* the screen the user sees
  timerAge,   \* ticks since mSyncWPADStartTime, saturating at Restart
  syncAge     \* ticks since the WPAD library last began to sync, saturating

objVars   == <<mState, timerAge>>
cbVars    == <<cb, cbTo>>
imVars    == <<request, raced>>
vars == <<mState, main, cb, cbTo, request, raced, ccr, screen, timerAge, syncAge>>

States == {"WAIT", "SYNC_WPAD", "SYNC_GAMEPAD", "PAIRING", "CANCEL"}

\* The first switch of ProcessPairScreen: where each state takes the main thread.
Branch == [WAIT         |-> "draw",      SYNC_WPAD |-> "wpadTimer",
           SYNC_GAMEPAD |-> "pincode",   PAIRING   |-> "poll",
           CANCEL       |-> "stop"]

\* The destructor, call by call.
Closing == {"cancelNotify", "closeIM", "freeRequest", "ccrExit", "closed"}

MainPoints == {Branch[s] : s \in States} \cup Closing \cup
  {"construct", "fatal", "process", "wpadInput", "startPairing", "started",
   "toWait", "menu"}

TypeOK ==
  /\ mState \in States
  /\ main \in MainPoints
  /\ cb \in {"idle", "testWait", "testWpad", "testPair", "store", "timer", "rearm"}
  /\ cbTo \in States
  /\ request \in {"none", "pending", "completed", "failed"}
  /\ raced \in BOOLEAN
  /\ ccr \in {"idle", "pairing", "finished", "timedOut"}
  /\ screen \in {"menu", "wpad", "pair"}
  /\ timerAge \in 0..Restart
  /\ syncAge \in 0..Restart

\* mSyncWPADStartTime starts at 0, long before OSGetTime() at boot.
Init ==
  /\ mState = "WAIT"
  /\ main = "construct"
  /\ cb = "idle"
  /\ cbTo = "WAIT"
  /\ request = "none"
  /\ raced = FALSE
  /\ ccr = "idle"
  /\ screen = "menu"
  /\ timerAge = Restart
  /\ syncAge = Restart

-----------------------------------------------------------------------------
(* The main thread *)

\* One step of the main thread, from control point `from` to `to`.
Goto(from, to) == main = from /\ main' = to

\* PairMenu::PairMenu: OSFatal without an IM handle or memory for the requests,
\* otherwise the state is reset and the first notification is armed.
Construct ==
  /\ \/ /\ Goto("construct", "process")
        /\ mState' = "WAIT"
        /\ request' = "pending"
     \/ /\ Goto("construct", "fatal")
        /\ UNCHANGED <<mState, request>>
  /\ UNCHANGED <<cbVars, raced, ccr, screen, timerAge, syncAge>>

\* The first switch reads mState.
Process ==
  /\ Goto("process", Branch[mState])
  /\ UNCHANGED <<objVars, cbVars, imVars, ccr, screen, syncAge>>

\* Mutants of WpadTimer: the time of the next restart is stored instead of the time of
\* this one, and the timer restarts without WPADStartSyncDevice.
WpadTimerDue ==
  /\ Goto("wpadTimer", "wpadInput")
  /\ IF timerAge = Restart
       THEN syncAge' = 0 /\ timerAge' = 0 - Restart
       ELSE UNCHANGED <<syncAge, timerAge>>
  /\ UNCHANGED <<mState, cbVars, imVars, ccr, screen>>

WpadTimerNoSync ==
  /\ Goto("wpadTimer", "wpadInput")
  /\ timerAge' = IF timerAge = Restart THEN 0 ELSE timerAge
  /\ UNCHANGED <<mState, cbVars, imVars, ccr, screen, syncAge>>

\* STATE_SYNC_WPAD: start WPAD syncing again once the timer is 18 seconds old.
WpadTimer ==
  /\ Goto("wpadTimer", "wpadInput")
  /\ IF timerAge = Restart
       THEN syncAge' = 0 /\ timerAge' = 0
       ELSE UNCHANGED <<syncAge, timerAge>>
  /\ UNCHANGED <<mState, cbVars, imVars, ccr, screen>>

\* A or B leaves the WPAD screen.
WpadInput ==
  /\ Goto("wpadInput", "draw")
  /\ mState' \in {mState, "WAIT"}
  /\ UNCHANGED <<timerAge, cbVars, imVars, ccr, screen, syncAge>>

\* STATE_SYNC_GAMEPAD: CCRSysGetPincode, which may fail.
GetPincode ==
  /\ Goto("pincode", "startPairing") \/ Goto("pincode", "toWait")
  /\ UNCHANGED <<objVars, cbVars, imVars, ccr, screen, syncAge>>

\* CCRSysStartPairing, which may fail.
StartPairing ==
  /\ \/ Goto("startPairing", "started") /\ ccr' = "pairing"
     \/ Goto("startPairing", "toWait") /\ UNCHANGED ccr
  /\ UNCHANGED <<objVars, cbVars, imVars, screen, syncAge>>

\* mState = STATE_PAIRING, whatever the callback stored since the switch.
StorePairing ==
  /\ Goto("started", "draw")
  /\ mState' = "PAIRING"
  /\ UNCHANGED <<timerAge, cbVars, imVars, ccr, screen, syncAge>>

\* Mutant of PollPairing: only a finished pairing is noticed.
PollPairingNoTimeout ==
  /\ Goto("poll", IF ccr = "finished" THEN "toWait" ELSE "draw")
  /\ UNCHANGED <<objVars, cbVars, imVars, ccr, screen, syncAge>>

\* STATE_PAIRING: CCRSysGetPairingState; a timed out pairing is also stopped.
PollPairing ==
  /\ \/ ccr = "timedOut" /\ Goto("poll", "toWait") /\ ccr' = "idle"
     \/ ccr = "finished" /\ Goto("poll", "toWait") /\ UNCHANGED ccr
     \/ ccr \notin {"timedOut", "finished"} /\ Goto("poll", "draw") /\ UNCHANGED ccr
  /\ UNCHANGED <<objVars, cbVars, imVars, screen, syncAge>>

\* Mutant of StopPairing: the CCR service is not told.
StopPairingForgotten ==
  /\ Goto("stop", "toWait")
  /\ UNCHANGED <<objVars, cbVars, imVars, ccr, screen, syncAge>>

\* STATE_CANCEL: CCRSysStopPairing.
StopPairing ==
  /\ Goto("stop", "toWait")
  /\ ccr' = "idle"
  /\ UNCHANGED <<objVars, cbVars, imVars, screen, syncAge>>

\* mState = STATE_WAIT, the way out of every case above.
StoreWait ==
  /\ Goto("toWait", "draw")
  /\ mState' = "WAIT"
  /\ UNCHANGED <<timerAge, cbVars, imVars, ccr, screen, syncAge>>

\* Mutant of ScreenOf: STATE_CANCEL has no case in the second switch.
ScreenOfNoCancel(s) ==
  CASE s = "SYNC_WPAD" -> "wpad"
    [] s \in {"SYNC_GAMEPAD", "PAIRING"} -> "pair"
    [] OTHER -> screen

\* What the second switch draws for a state: drawPairKPADScreen, drawPairScreen or
\* nothing.
ScreenOf(s) ==
  CASE s = "WAIT" -> screen
    [] s = "SYNC_WPAD" -> "wpad"
    [] s \in {"SYNC_GAMEPAD", "PAIRING", "CANCEL"} -> "pair"

\* The second switch reads mState again: only STATE_WAIT gives the screen back.
Draw ==
  /\ Goto("draw", IF mState = "WAIT" THEN "menu" ELSE "process")
  /\ screen' = ScreenOf(mState)
  /\ UNCHANGED <<objVars, cbVars, imVars, ccr, syncAge>>

\* The menu handles a button and draws itself; A instead leaves the loop and
\* destroys the PairMenu.
Menu ==
  /\ \/ Goto("menu", "process") /\ screen' = "menu"
     \/ Goto("menu", "cancelNotify") /\ UNCHANGED screen
  /\ UNCHANGED <<objVars, cbVars, imVars, ccr, syncAge>>

\* IM_CancelGetEventNotify completes a pending request with an error; it cannot
\* recall one that the SYNC button has completed already.
CancelNotify ==
  /\ Goto("cancelNotify", "closeIM")
  /\ request' = IF request = "pending" THEN "failed" ELSE request
  /\ raced' = (request = "completed" \/ cb # "idle")
  /\ UNCHANGED <<objVars, cbVars, ccr, screen, syncAge>>

\* IM_Close, the two frees, then CCRSysExit.
Destruct ==
  /\ \/ Goto("closeIM", "freeRequest") \/ Goto("freeRequest", "ccrExit")
     \/ Goto("ccrExit", "closed")
  /\ UNCHANGED <<objVars, cbVars, imVars, ccr, screen, syncAge>>

MainStep ==
  \/ Construct \/ Process \/ WpadTimer \/ WpadInput \/ GetPincode \/ StartPairing
  \/ StorePairing \/ PollPairing \/ StopPairing \/ StoreWait \/ Draw \/ Menu
  \/ CancelNotify \/ Destruct

-----------------------------------------------------------------------------
(* SyncButtonCallback *)

\* Control moves to `to`, to store `s` once it gets to "store".
CbGoto(from, to, s) == cb = from /\ cb' = to /\ cbTo' = s

\* The tests of mState, in order: each is a read of its own.
CbTestWait ==
  /\ CbGoto("testWait", IF mState = "WAIT" THEN "store" ELSE "testWpad", "SYNC_WPAD")
  /\ UNCHANGED <<objVars, main, imVars, ccr, screen, syncAge>>

CbTestWpad ==
  /\ CbGoto("testWpad", IF mState = "SYNC_WPAD" THEN "store" ELSE "testPair",
            "SYNC_GAMEPAD")
  /\ UNCHANGED <<objVars, main, imVars, ccr, screen, syncAge>>

\* Mutants of CbTestPair: no re-arm without a match, and a store that skips STATE_CANCEL.
CbTestPairNoRearm ==
  /\ CbGoto("testPair",
            IF mState \in {"SYNC_GAMEPAD", "PAIRING"} THEN "store" ELSE "idle", "CANCEL")
  /\ UNCHANGED <<objVars, main, imVars, ccr, screen, syncAge>>

CbTestPairToWait ==
  /\ CbGoto("testPair",
            IF mState \in {"SYNC_GAMEPAD", "PAIRING"} THEN "store" ELSE "rearm", "WAIT")
  /\ UNCHANGED <<objVars, main, imVars, ccr, screen, syncAge>>

CbTestPair ==
  /\ CbGoto("testPair",
            IF mState \in {"SYNC_GAMEPAD", "PAIRING"} THEN "store" ELSE "rearm", "CANCEL")
  /\ UNCHANGED <<objVars, main, imVars, ccr, screen, syncAge>>

\* The store; entering SYNC_WPAD also has the timer to write.
CbStore ==
  /\ CbGoto("store", IF cbTo = "SYNC_WPAD" THEN "timer" ELSE "rearm", cbTo)
  /\ mState' = cbTo
  /\ UNCHANGED <<timerAge, main, imVars, ccr, screen, syncAge>>

CbTimer ==
  /\ CbGoto("timer", "rearm", cbTo)
  /\ timerAge' = 0
  /\ UNCHANGED <<mState, main, imVars, ccr, screen, syncAge>>

\* IM_GetEventNotify arms the request for the next press.
CbRearm ==
  /\ CbGoto("rearm", "idle", cbTo)
  /\ request' = "pending"
  /\ UNCHANGED <<objVars, main, raced, ccr, screen, syncAge>>

\* Mutant of CbEnter: the error is not looked at.
CbEnterAnyResult ==
  /\ request \in {"completed", "failed"}
  /\ CbGoto("idle", "testWait", cbTo)
  /\ request' = "none"
  /\ UNCHANGED <<objVars, main, raced, ccr, screen, syncAge>>

\* The callback is entered with the result of the request: an error ends it.
CbEnter ==
  /\ request \in {"completed", "failed"}
  /\ CbGoto("idle", IF request = "completed" THEN "testWait" ELSE "idle", cbTo)
  /\ request' = "none"
  /\ UNCHANGED <<objVars, main, raced, ccr, screen, syncAge>>

Callback ==
  \/ CbEnter \/ CbTestWait \/ CbTestWpad \/ CbTestPair \/ CbStore \/ CbTimer \/ CbRearm

-----------------------------------------------------------------------------
(* The services, as the code uses them *)

\* The SYNC button completes an armed request; the console itself begins to sync.
PressSync ==
  /\ request = "pending"
  /\ request' = "completed"
  /\ syncAge' = 0
  /\ UNCHANGED <<objVars, main, cbVars, raced, ccr, screen>>

PairingTimesOut ==
  /\ ccr = "pairing"
  /\ ccr' = "timedOut"
  /\ UNCHANGED <<objVars, main, cbVars, imVars, screen, syncAge>>

PairingFinishes ==
  /\ ccr = "pairing"
  /\ ccr' = "finished"
  /\ UNCHANGED <<objVars, main, cbVars, imVars, screen, syncAge>>

Older(age) == IF age = Restart THEN Restart ELSE age + 1

Tick ==
  /\ timerAge # Restart \/ syncAge # Restart
  /\ timerAge' = Older(timerAge)
  /\ syncAge' = Older(syncAge)
  /\ UNCHANGED <<mState, main, cbVars, imVars, ccr, screen>>

\* The screen is closed, or the console has halted in OSFatal.
Stopped == main \in {"closed", "fatal"} /\ UNCHANGED vars

Next ==
  \/ MainStep \/ Callback \/ PressSync \/ PairingTimesOut \/ PairingFinishes \/ Tick
  \/ Stopped

Spec == Init /\ [][Next]_vars

\* Both threads run, the clock advances and the 120 second pairing timeout fires.
Fairness ==
  /\ WF_vars(MainStep)
  /\ WF_vars(Callback)
  /\ WF_vars(PairingTimesOut)
  /\ WF_vars(Tick)

FairSpec == Spec /\ Fairness
-----------------------------------------------------------------------------
(* Properties *)

\* A pairing runs only under the two states that can end it: once it has started
\* (PairUtils.cpp 169), mState is STATE_PAIRING, whose case polls it, or
\* STATE_CANCEL, whose case stops it, but for the moment before line 177.
PairingOwned == ccr = "pairing" => mState \in {"PAIRING", "CANCEL"} \/ main = "started"

\* Whenever ProcessPairScreen starts over during a pairing, the user sees the
\* pairing screen with its symbols, whatever the callback stored meanwhile.
PairingShown == ccr = "pairing" /\ main = "process" => screen = "pair"

\* The SYNC button never goes dead: as long as the menu runs, the request is armed,
\* or answered, or a callback that will arm it again is on its way.
NotifyArmed ==
  main \notin {"construct", "fatal"} \cup Closing =>
    request \in {"pending", "completed"} \/ cb # "idle"

\* The destructor's cancel is final: unless a press was already being delivered,
\* nothing is armed and no callback touches the object while it is torn down.
QuietAfterCancel ==
  main \in Closing \ {"cancelNotify"} /\ ~raced =>
    request \in {"none", "failed"} /\ cb = "idle"

\* STATE_CANCEL is left for STATE_WAIT only, with no pairing left running, but for
\* the one store that does not look (PairUtils.cpp 177).
CancelKept ==
  [][mState = "CANCEL" /\ mState' # "CANCEL" =>
       \/ mState' = "WAIT" /\ ccr # "pairing"
       \/ main = "started"]_vars

\* What the pairing screen tells its user (PairUtils.cpp 92): a SYNC press there
\* exits, so STATE_CANCEL stored under that screen is never replaced by STATE_PAIRING.
SyncPressExits ==
  [][mState = "CANCEL" /\ screen = "pair" => mState' # "PAIRING"]_vars

\* GamePad pairing ends by itself: from each of its states the object returns to
\* STATE_WAIT, however the presses fall, unless the menu was closed before.
GamepadPairingEnds ==
  mState \in {"SYNC_GAMEPAD", "PAIRING", "CANCEL"} ~>
    mState = "WAIT" \/ main \in Closing

\* While the WPAD screen stays, a sync that lapsed is started again (PairUtils.cpp
\* 146), although the callback stores the state before the time.
WpadSyncRestarts ==
  mState = "SYNC_WPAD" /\ syncAge = Restart ~>
    syncAge = 0 \/ mState # "SYNC_WPAD" \/ main \in Closing

\* The promise to the selection screen, and its refinement mapping.
Promise == INSTANCE PairPromise WITH
  level   <- IF main = "menu" THEN "menu"
             ELSE IF main \in Closing THEN "closed" ELSE "pair",
  pairing <- ccr = "pairing"

\* PairMenu keeps the promise: no menu, and no teardown, during a pairing.
KeepsPromise == Promise!Spec

-----------------------------------------------------------------------------
(* The inductive invariant behind the safety properties *)

\* What mState may hold when the main thread is inside a case of the first switch:
\* the callback can only have moved it along its own cycle since.
MainSees ==
  /\ main \in {"wpadTimer", "wpadInput"} => mState \in {"SYNC_WPAD", "SYNC_GAMEPAD", "CANCEL"}
  /\ main \in {"pincode", "startPairing", "started"} => mState \in {"SYNC_GAMEPAD", "CANCEL"}
  /\ main = "poll" => mState \in {"PAIRING", "CANCEL"}
  /\ main = "stop" => mState = "CANCEL"
  /\ main = "toWait" => mState \in {"SYNC_GAMEPAD", "PAIRING", "CANCEL"}
  /\ main \in {"menu"} \cup Closing => mState # "PAIRING"

\* Where the main thread can be while the CCR service pairs.
PairingAt == ccr = "pairing" => main \in {"started", "draw", "process", "poll", "stop"}

\* A decision of the callback outlives its test of mState, but only by a
\* STATE_WAIT that the main thread stored in between.
CallbackSees ==
  cb = "store" =>
    \/ cbTo = "SYNC_WPAD" /\ mState = "WAIT"
    \/ cbTo = "SYNC_GAMEPAD" /\ mState \in {"SYNC_WPAD", "WAIT"}
    \/ cbTo = "CANCEL" /\ mState \in {"SYNC_GAMEPAD", "PAIRING", "WAIT"}

\* After its first pass through the second switch, a pairing is on the screen.
ShownSince == ccr = "pairing" /\ main \notin {"started", "draw"} => screen = "pair"

\* The request is with the IM service or with the callback, never with both.
OneOwner == cb # "idle" => request = "none"

NotYetArmed == main \in {"construct", "fatal"} => request = "none" /\ cb = "idle"

IInv ==
  /\ TypeOK
  /\ PairingOwned
  /\ MainSees
  /\ PairingAt
  /\ CallbackSees
  /\ ShownSince
  /\ OneOwner
  /\ NotYetArmed
  /\ NotifyArmed
  /\ QuietAfterCancel
  /\ main = "construct" => mState = "WAIT"
=============================================================================
