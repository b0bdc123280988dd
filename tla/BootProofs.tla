----------------------------- MODULE BootProofs -----------------------------
(***************************************************************************)
(* TLAPS proofs about Boot, for every set of environments and every word   *)
(* size: what a boot launches is what was saved, and was listed.  Then     *)
(* about BootInput: whatever controllers there are and whatever they       *)
(* answer, the user can do no more to Boot than Boot allows, so what is    *)
(* proved of Boot holds of the program with its buttons.                   *)
(***************************************************************************)
EXTENDS BootInput, SequenceTheorems, TLAPS

\* The facts about the constants that every step uses.
LEMMA Constants ==
  /\ Len(Order) \in Nat /\ Word \in Nat /\ Word > Len(Order) /\ Word > 0
  /\ "empty" \notin Env /\ "minus1" \notin Env /\ "absent" \notin Env
<1>1. Order \in Seq(Env)
  BY BootAssumption
<1>2. Len(Order) \in Nat
  BY <1>1, LenProperties
<1>3. Word \in Nat /\ Word > 2 * Len(Order)
  BY BootAssumption
<1>4. Env \cap {"empty", "minus1", "absent"} = {}
  BY BootAssumption
<1>5. "empty" \notin Env /\ "minus1" \notin Env /\ "absent" \notin Env
  BY <1>4
<1> QED BY <1>2, <1>3, <1>5

\* A listing is a sequence of names, no longer than all of them.
LEMMA ListingType ==
  ASSUME NEW present \in SUBSET Env, NEW s \in Listings(present)
  PROVE  s \in Seq(Env) /\ Len(s) <= Len(Order)
<1>1. PICK n \in 0 .. Len(Order) : s \in [1..n -> present]
  BY DEF Listings
<1>2. n \in Nat
  BY <1>1, Constants
<1>3. s \in [1..n -> Env]
  BY <1>1
<1>4. s \in Seq(Env)
  BY <1>2, <1>3, SeqDef
<1>5. Len(s) = n
  BY <1>2, <1>3, <1>4, LenProperties
<1> QED BY <1>1, <1>4, <1>5, Constants

\* Below the word size, the unsigned bound of a non-empty menu is its last index; the
\* bound of an empty one is still a word.
LEMMA UnsignedBound ==
  ASSUME NEW n \in 0 .. Len(Order)
  PROVE  /\ (n - 1) % Word \in 0 .. Word - 1
         /\ n > 0 => (n - 1) % Word = n - 1
<1>1. Word \in Nat /\ Word > 0 /\ Len(Order) \in Nat /\ Word > Len(Order)
  BY Constants
<1>2. (n - 1) % Word \in 0 .. Word - 1
  BY <1>1
<1>3. ASSUME n > 0 PROVE (n - 1) % Word = n - 1
  BY <1>1, <1>3
<1> QED BY <1>2, <1>3

\* The initial state satisfies the inductive invariant.
LEMMA InitBootInv == Init => BootInv
<1> SUFFICES ASSUME Init PROVE BootInv
  OBVIOUS
<1>1. payloads \in Seq(Env) /\ Len(payloads) = 0
  BY EmptySeq DEF Init
<1>2. TypeOK
  <2>1. held \in BOOLEAN /\ shownMenu \in BOOLEAN /\ cleared \in BOOLEAN
    BY DEF Init
  <2> QED BY <1>1, <2>1, Constants DEF Init, TypeOK
<1>3. ~shownMenu /\ pc = "off" /\ payloads = <<>> /\ autobootIndex = -1
  BY DEF Init
<1>4. default = "empty" /\ config = "absent"
  BY DEF Init
<1> QED
  BY <1>2, <1>3, <1>4, Constants
  DEF BootInv, DefaultSaved, FromConfig, FromMenu, CursorOnEntry, MenuOnly

\* What the type of payloads says about it.
LEMMA PayloadFacts ==
  ASSUME TypeOK
  PROVE  /\ Len(payloads) \in 0 .. Len(Order)
         /\ DOMAIN payloads = 1 .. Len(payloads)
         /\ \A i \in 1 .. Len(payloads) : payloads[i] \in Env
         /\ payloads = <<>> <=> Len(payloads) = 0
<1>1. payloads \in Seq(Env) /\ Len(payloads) <= Len(Order)
  BY DEF TypeOK
<1> QED BY <1>1, Constants, LenProperties, ElementOfSeq, EmptySeq

\* Every step preserves the types, given what the control point says.
LEMMA NextTypeOK == TypeOK /\ MenuOnly /\ [Next]_vars => TypeOK'
<1> SUFFICES ASSUME TypeOK, MenuOnly, [Next]_vars PROVE TypeOK'
  OBVIOUS
<1> USE Constants, PayloadFacts DEF TypeOK, sdVars, mainVars, menuVars, userVars
<1>1. CASE PowerOn
  <2>1. held' \in BOOLEAN /\ shownMenu' \in BOOLEAN /\ cleared' \in BOOLEAN
    BY <1>1 DEF PowerOn
  <2> QED BY <1>1, <2>1 DEF PowerOn
<1>2. CASE PowerOff
  <2>1. payloads' \in Seq(Env) /\ Len(payloads') = 0
    BY <1>2, EmptySeq DEF PowerOff
  <2>2. held' \in BOOLEAN /\ shownMenu' \in BOOLEAN /\ cleared' \in BOOLEAN
    BY <1>2 DEF PowerOff
  <2> QED BY <1>2, <2>1, <2>2 DEF PowerOff
<1>3. CASE Start
  <2>1. CASE payloads' \in Listings(envs)
    <3>1. payloads' \in Seq(Env) /\ Len(payloads') <= Len(Order) /\ Len(payloads') \in Nat
      BY <2>1, ListingType, LenProperties
    <3>2. autobootIndex = -1
      BY <1>3 DEF Start, MenuOnly
    <3> QED BY <1>3, <2>1, <3>1, <3>2 DEF Start
  <2>2. CASE UNCHANGED payloads
    BY <1>3, <2>2 DEF Start
  <2> QED BY <1>3, <2>1, <2>2 DEF Start
<1>4. CASE ReadConfig
  BY <1>4 DEF ReadConfig
<1>5. CASE ReadInput
  <2>1. shownMenu' \in BOOLEAN /\ held' \in BOOLEAN /\ cleared' \in BOOLEAN
    BY <1>5 DEF ReadInput
  <2>2. pc' \in {"menu", "launch"} /\ selected' \in 0 .. Word - 1 /\ autoBoot' \in -Word .. Word
    BY <1>5 DEF ReadInput, MarkedAtFirst
  <2>3. UNCHANGED <<envs, config, iosu, payloads, autobootIndex, envPath, pressed, default>>
    BY <1>5 DEF ReadInput
  <2> QED BY <2>1, <2>2, <2>3
<1>6. CASE Launch
  <2>1. pc' \in {"modules", "wiiUMenu"} /\ UNCHANGED <<sdVars, mainVars, menuVars, userVars>>
    BY <1>6 DEF Launch
  <2> QED BY <2>1
<1>7. CASE Up
  BY <1>7 DEF Up
<1>8. CASE Down
  <2> DEFINE bound == (Len(payloads) - 1) % Word
  <2>1. selected < bound /\ selected' = selected + 1
        /\ UNCHANGED <<pc, sdVars, mainVars, autoBoot, pressed, userVars>>
    BY <1>8 DEF Down
  <2>2. bound \in 0 .. Word - 1
    BY UnsignedBound
  <2> HIDE DEF bound
  <2> QED BY <2>1, <2>2
<1>9. CASE Clear
  BY <1>9 DEF Clear
<1>10. CASE SetDefault
  <2>1. Signed(selected) \in -Word .. Word
    BY DEF Signed
  <2>2. cleared' \in BOOLEAN
    BY <1>10 DEF SetDefault
  <2> QED BY <1>10, <2>1, <2>2 DEF SetDefault
<1>11. CASE Choose
  <2>1. pc' \in {"saveOpen", "pick"} /\ UNCHANGED <<sdVars, mainVars, menuVars, userVars>>
    BY <1>11 DEF Choose
  <2> QED BY <2>1
<1>12. CASE SaveOpen
  <2>1. cleared' \in BOOLEAN
    BY <1>12 DEF SaveOpen
  <2> QED BY <1>12, <2>1 DEF SaveOpen
<1>13. CASE SaveWrite
  BY <1>13 DEF SaveWrite, SaveContent, MenuOnly, Named
<1>14. CASE Pick
  <2>1. cleared' \in BOOLEAN
    BY <1>14 DEF Pick
  <2> QED BY <1>14, <2>1 DEF Pick
<1>15. CASE UNCHANGED vars
  BY <1>15 DEF vars
<1> QED
  BY <1>1, <1>2, <1>3, <1>4, <1>5, <1>6, <1>7, <1>8, <1>9, <1>10, <1>11, <1>12, <1>13,
     <1>14, <1>15 DEF Next

\* Every step keeps default the name that default.cfg holds.
LEMMA NextDefaultSaved ==
  TypeOK /\ MenuOnly /\ DefaultSaved /\ [Next]_vars => DefaultSaved'
<1> SUFFICES ASSUME TypeOK, MenuOnly, DefaultSaved, [Next]_vars PROVE DefaultSaved'
  OBVIOUS
<1> USE Constants DEF DefaultSaved, sdVars, userVars
<1>1. CASE SaveOpen
  BY <1>1 DEF SaveOpen
<1>2. CASE SaveWrite
  <2>1. CASE UNCHANGED <<config, default>>
    BY <2>1
  <2>2. CASE /\ config' = SaveContent
             /\ default' = IF Named THEN payloads[autoBoot + 1] ELSE "empty"
    <3>1. CASE Named
      <4>1. payloads[autoBoot + 1] \in Env /\ autoBoot # -1
        BY <3>1, PayloadFacts DEF Named
      <4> QED BY <2>2, <3>1, <4>1 DEF SaveContent
    <3>2. CASE ~Named
      <4>1. autoBoot = -1
        BY <1>2, <3>2 DEF SaveWrite, MenuOnly
      <4> QED BY <2>2, <3>2, <4>1 DEF SaveContent
    <3> QED BY <3>1, <3>2
  <2> QED BY <1>2, <2>1, <2>2 DEF SaveWrite
<1>3. CASE ~SaveOpen /\ ~SaveWrite
  <2>1. UNCHANGED <<config, default>>
    BY <1>3 DEF Next, vars, PowerOn, PowerOff, Start, ReadConfig, ReadInput, Launch, Up,
      Down, Clear, SetDefault, Choose, Pick
  <2> QED BY <2>1
<1> QED BY <1>1, <1>2, <1>3

\* Every step keeps the cursor on an entry.
LEMMA NextCursorOnEntry ==
  TypeOK /\ CursorOnEntry /\ [Next]_vars => CursorOnEntry'
<1> SUFFICES ASSUME TypeOK, CursorOnEntry, [Next]_vars PROVE CursorOnEntry'
  OBVIOUS
<1> USE Constants, PayloadFacts DEF CursorOnEntry, mainVars, menuVars
<1>1. CASE PowerOn \/ PowerOff \/ Start \/ ReadConfig \/ Launch \/ Pick
  BY <1>1 DEF PowerOn, PowerOff, Start, ReadConfig, Launch, Pick
<1>2. CASE ReadInput
  <2>1. /\ UNCHANGED payloads
        /\ \/ pc' = "launch"
           \/ selected' = IF autobootIndex > 0 THEN autobootIndex ELSE 0
    BY <1>2 DEF ReadInput
  <2>2. autobootIndex \in -1 .. Len(payloads) - 1
    BY DEF TypeOK
  <2> QED BY <2>1, <2>2
<1>3. CASE Up
  BY <1>3 DEF Up, TypeOK
<1>4. CASE Down
  <2> DEFINE bound == (Len(payloads) - 1) % Word
  <2>1. /\ pc = "menu" /\ selected < bound /\ selected' = selected + 1
        /\ UNCHANGED <<pc, payloads>>
    BY <1>4, Zenon DEF Down
  <2>2. Len(payloads) > 0 => bound = Len(payloads) - 1
    BY UnsignedBound, Zenon
  <2>3. selected \in Nat
    BY DEF TypeOK
  <2> HIDE DEF bound
  <2> QED BY <2>1, <2>2, <2>3
<1>5. CASE Clear \/ SetDefault \/ Choose \/ SaveOpen \/ SaveWrite \/ UNCHANGED vars
  <2>1. /\ UNCHANGED <<selected, payloads>>
        /\ pc' \in {"menu", "saveOpen", "saveWrite", "pick"} =>
             pc' = pc \/ pc \in {"menu", "saveOpen", "saveWrite"}
    BY <1>5 DEF Clear, SetDefault, Choose, SaveOpen, SaveWrite, vars
  <2> QED BY <2>1
<1> QED BY <1>1, <1>2, <1>3, <1>4, <1>5 DEF Next

\* Every step keeps the control points in their order.
LEMMA NextMenuOnly == TypeOK /\ MenuOnly /\ [Next]_vars => MenuOnly'
<1> SUFFICES ASSUME TypeOK, MenuOnly, [Next]_vars PROVE MenuOnly'
  OBVIOUS
<1> USE DEF MenuOnly, Named, mainVars, menuVars
<1>1. CASE PowerOn
  <2>1. pc = "off" /\ pc' = "start" /\ UNCHANGED <<payloads, shownMenu, autobootIndex>>
    BY <1>1 DEF PowerOn
  <2> QED BY <2>1
<1>2. CASE PowerOff
  <2>1. pc' = "off" /\ payloads' = <<>> /\ autobootIndex' = -1 /\ ~shownMenu'
    BY <1>2 DEF PowerOff
  <2> QED BY <2>1
<1>3. CASE Start
  <2>1. pc = "start" /\ pc' \in {"fatal", "launch", "readConfig"}
        /\ UNCHANGED <<shownMenu, autobootIndex>>
    BY <1>3 DEF Start
  <2> QED BY <2>1
<1>4. CASE ReadConfig
  <2>1. pc = "readConfig" /\ pc' = "readInput" /\ UNCHANGED shownMenu
    BY <1>4 DEF ReadConfig
  <2> QED BY <2>1
<1>5. CASE ReadInput
  <2>1. pc' = "launch" \/ (pc' = "menu" /\ shownMenu')
    BY <1>5 DEF ReadInput
  <2> QED BY <2>1
<1>6. CASE Launch \/ Pick
  <2>1. pc' \in {"modules", "wiiUMenu", "launch"}
    BY <1>6 DEF Launch, Pick
  <2> QED BY <2>1
<1>7. CASE Up \/ Down \/ Clear \/ SetDefault
  <2>1. pc = "menu" /\ pc' = "menu" /\ UNCHANGED shownMenu
    BY <1>7 DEF Up, Down, Clear, SetDefault
  <2> QED BY <2>1
<1>8. CASE Choose
  <2>1. pc = "menu" /\ pc' \in {"saveOpen", "pick"}
        /\ UNCHANGED <<shownMenu, payloads, autoBoot>>
        /\ (pc' = "saveOpen" => autoBoot = -1 \/ Named)
    BY <1>8 DEF Choose
  <2> QED BY <2>1
<1>9. CASE SaveOpen \/ SaveWrite
  <2>1. pc \in {"saveOpen", "saveWrite"} /\ pc' \in {"saveWrite", "pick"}
        /\ UNCHANGED <<shownMenu, payloads, autoBoot>>
    BY <1>9 DEF SaveOpen, SaveWrite
  <2> QED BY <2>1
<1>10. CASE UNCHANGED vars
  BY <1>10 DEF vars
<1> QED
  BY <1>1, <1>2, <1>3, <1>4, <1>5, <1>6, <1>7, <1>8, <1>9, <1>10 DEF Next

\* Every step keeps the configured name in the path of a boot without the menu.
LEMMA NextFromConfig ==
  TypeOK /\ MenuOnly /\ FromConfig /\ [Next]_vars => FromConfig'
<1> SUFFICES ASSUME TypeOK, MenuOnly, FromConfig, [Next]_vars PROVE FromConfig'
  OBVIOUS
<1> USE DEF FromConfig, FileContent, Listed, mainVars, menuVars, sdVars
<1>1. CASE Start
  <2>1. pc' # "readInput" /\ (pc' = "launch" => iosu' # "empty") /\ pc' # "modules"
    BY <1>1 DEF Start
  <2> QED BY <2>1
<1>2. CASE ReadConfig
  <2>1. pc' = "readInput" /\ UNCHANGED <<config, payloads>>
    BY <1>2 DEF ReadConfig
  <2>2. CASE UNCHANGED <<autobootIndex, envPath>>
    <3>1. autobootIndex' = -1
      BY <1>2, <2>2 DEF ReadConfig, MenuOnly
    <3> QED BY <2>1, <3>1
  <2>3. ASSUME NEW i \in DOMAIN payloads, payloads[i] = FileContent, envPath' = payloads[i]
        PROVE  FromConfig'
    <3>1. payloads[i] \in Env
      BY PayloadFacts
    <3>2. envPath' = FileContent /\ FileContent' = FileContent
      BY <2>1, <2>3 DEF FileContent
    <3> QED BY <2>1, <2>3, <3>1, <3>2
  <2> QED BY <1>2, <2>2, <2>3 DEF ReadConfig
<1>3. CASE ReadInput
  <2>1. CASE MenuNeeded
    <3>1. pc' = "menu"
      BY <1>3, <2>1 DEF ReadInput
    <3> QED BY <3>1
  <2>2. CASE ~MenuNeeded
    <3>1. pc = "readInput" /\ autobootIndex # -1
      BY <1>3, <2>2 DEF ReadInput, MenuNeeded
    <3>2. UNCHANGED <<config, envPath, payloads>>
      BY <1>3 DEF ReadInput
    <3> QED BY <3>1, <3>2
  <2> QED BY <2>1, <2>2
<1>4. CASE Launch
  <2>1. pc = "launch" /\ pc' \in {"modules", "wiiUMenu"}
        /\ UNCHANGED <<config, envPath, payloads, iosu, shownMenu>>
    BY <1>4 DEF Launch
  <2> QED BY <2>1
<1>5. CASE Pick
  <2>1. pc' = "launch" /\ pc = "pick" /\ UNCHANGED shownMenu
    BY <1>5 DEF Pick
  <2> QED BY <2>1 DEF MenuOnly
<1>6. CASE \/ PowerOn \/ PowerOff \/ Up \/ Down \/ Clear \/ SetDefault \/ Choose \/ SaveOpen
           \/ SaveWrite
  <2>1. pc' \notin {"readInput", "launch", "modules"}
    BY <1>6 DEF PowerOn, PowerOff, Up, Down, Clear, SetDefault, Choose, SaveOpen, SaveWrite
  <2> QED BY <2>1
<1>7. CASE UNCHANGED vars
  BY <1>7 DEF vars
<1> QED BY <1>1, <1>2, <1>3, <1>4, <1>5, <1>6, <1>7 DEF Next

\* Every step keeps what the menu leaves behind.
LEMMA NextFromMenu ==
  TypeOK /\ MenuOnly /\ CursorOnEntry /\ FromMenu /\ [Next]_vars => FromMenu'
<1> SUFFICES ASSUME TypeOK, MenuOnly, CursorOnEntry, FromMenu, [Next]_vars PROVE FromMenu'
  OBVIOUS
<1> USE DEF FromMenu, Listed, mainVars, menuVars
<1>1. CASE Start
  <2>1. pc = "start" /\ UNCHANGED shownMenu
    BY <1>1 DEF Start
  <2> QED BY <2>1 DEF MenuOnly, Start
<1>2. CASE ReadInput
  <2>1. pc = "readInput" /\ (pc' = "menu" \/ (pc' = "launch" /\ UNCHANGED shownMenu))
    BY <1>2 DEF ReadInput
  <2> QED BY <2>1 DEF MenuOnly
<1>3. CASE Launch
  <2>1. pc = "launch" /\ UNCHANGED <<envPath, payloads, shownMenu>>
        /\ (pc' = "wiiUMenu" \/ (pc' = "modules" /\ ~(shownMenu /\ payloads = <<>>)))
    BY <1>3 DEF Launch
  <2> QED BY <2>1
<1>4. CASE Pick
  <2>1. pc = "pick" /\ pc' = "launch" /\ UNCHANGED <<payloads, selected>>
        /\ envPath' = IF selected < Len(payloads) THEN payloads[selected + 1] ELSE "empty"
    BY <1>4 DEF Pick
  <2>2. ASSUME payloads # <<>> PROVE Listed'
    <3>1. selected < Len(payloads) /\ selected \in Nat
      BY <2>1, <2>2 DEF CursorOnEntry, TypeOK
    <3>2. selected + 1 \in DOMAIN payloads /\ envPath' = payloads[selected + 1]
      BY <2>1, <3>1, PayloadFacts, Constants
    <3> QED BY <2>1, <3>2
  <2> QED BY <2>1, <2>2
<1>5. CASE \/ PowerOn \/ PowerOff \/ ReadConfig \/ Up \/ Down \/ Clear \/ SetDefault
           \/ Choose \/ SaveOpen \/ SaveWrite
  <2>1. pc' \notin {"launch", "modules"}
    BY <1>5 DEF PowerOn, PowerOff, ReadConfig, Up, Down, Clear, SetDefault, Choose,
      SaveOpen, SaveWrite
  <2> QED BY <2>1
<1>6. CASE UNCHANGED vars
  BY <1>6 DEF vars
<1> QED BY <1>1, <1>2, <1>3, <1>4, <1>5, <1>6 DEF Next

\* The inductive invariant holds in every reachable state.
LEMMA BootInvariance == Spec => []BootInv
<1>1. BootInv /\ [Next]_vars => BootInv'
  BY NextTypeOK, NextDefaultSaved, NextFromConfig, NextFromMenu, NextCursorOnEntry,
    NextMenuOnly DEF BootInv
<1> QED BY <1>1, InitBootInv, PTL DEF Spec

\* The variables of Boot keep their types.
THEOREM BootTypeCorrect == Spec => []TypeOK
<1>1. BootInv => TypeOK
  BY DEF BootInv
<1> QED BY <1>1, BootInvariance, PTL

\* What a silent boot launches is the configured name as it is read back; if no long name
\* is taken for another, that is the name that was saved.
LEMMA SilentNow == BootInv /\ CutsNameNone => SilentBootIsDefault
<1> SUFFICES ASSUME BootInv, CutsNameNone, Silent PROVE envPath = default
  BY DEF SilentBootIsDefault
<1>1. envPath = FileContent /\ Listed
  BY DEF BootInv, FromConfig, Silent
<1>2. envPath \in Env
  BY <1>1, PayloadFacts DEF Listed, BootInv
<1>3. config \notin LongNames
  BY <1>1, <1>2, Constants DEF FileContent, CutsNameNone
<1>4. config \in Env /\ envPath = config
  BY <1>1, <1>2, <1>3 DEF FileContent
<1> QED BY <1>4 DEF BootInv, DefaultSaved

\* A silent boot launches what the last finished save marked as default, unless the first
\* 127 characters of a longer name are the name of another environment.
THEOREM SilentBootIsTheDefault == CutsNameNone => (Spec => []SilentBootIsDefault)
<1> SUFFICES ASSUME CutsNameNone PROVE Spec => []SilentBootIsDefault
  OBVIOUS
<1>1. BootInv => SilentBootIsDefault
  BY SilentNow
<1> QED BY <1>1, BootInvariance, PTL

\* Unless IOSU names it, an environment is launched only if it was listed.
THEOREM LaunchedIsListed == Spec => []LaunchIsListed
<1>1. BootInv => LaunchIsListed
  BY DEF BootInv, FromConfig, FromMenu, LaunchIsListed
<1> QED BY <1>1, BootInvariance, PTL

\* With no name too long, every step keeps the default found.
LEMMA NextDefaultFound ==
  ASSUME LongNames = {}, BootInv, DefaultFound, [Next]_vars
  PROVE  DefaultFound'
<1> USE DEF DefaultFound, sdVars, mainVars, menuVars, userVars
<1>0. TypeOK /\ DefaultSaved /\ MenuOnly
  BY DEF BootInv
<1>1. CASE PowerOn \/ PowerOff
  <2>1. pc' \in {"off", "start"} /\ ~shownMenu'
    BY <1>0, <1>1 DEF PowerOn, PowerOff, MenuOnly
  <2> QED BY <2>1
<1>2. CASE Start
  <2>1. ~shownMenu' /\ UNCHANGED envs
    BY <1>0, <1>2 DEF Start, MenuOnly
  <2>2. \/ pc' \in {"fatal", "launch"}
        \/ pc' = "readConfig" /\ payloads' \in Listings(envs)
    BY <1>2 DEF Start
  <2>3. ASSUME payloads' \in Listings(envs)
        PROVE  \A name \in envs : \E i \in DOMAIN payloads' : payloads'[i] = name
    BY <2>3 DEF Listings
  <2> QED BY <2>1, <2>2, <2>3
<1>3. CASE ReadConfig
  <2>1. pc = "readConfig" /\ pc' = "readInput" /\ ~shownMenu' /\ UNCHANGED <<envs, default, payloads>>
    BY <1>0, <1>3 DEF ReadConfig, MenuOnly
  <2>2. ASSUME default \in envs PROVE autobootIndex' # -1
    <3>1. default \in Env
      BY <1>0, <2>2 DEF TypeOK
    <3>2. default = config
      BY <1>0, <3>1, Constants DEF DefaultSaved
    <3>3. FileContent = default
      BY <3>2 DEF FileContent
    <3>4. PICK i \in DOMAIN payloads : payloads[i] = FileContent
      BY <2>1, <2>2, <3>3
    <3>5. PICK j \in DOMAIN payloads : autobootIndex' = j - 1
      BY <1>3, <3>4 DEF ReadConfig
    <3>6. j \in Nat /\ j > 0
      BY <1>0, <3>5, PayloadFacts
    <3> QED BY <3>5, <3>6
  <2> QED BY <2>1, <2>2
<1>4. CASE ReadInput
  <2>1. pc = "readInput" /\ UNCHANGED <<envs, default, held, pressed, autobootIndex>>
    BY <1>4 DEF ReadInput
  <2>2. CASE MenuNeeded
    <3>1. pc' = "menu" /\ autoBoot' = autobootIndex
      BY <1>4, <2>2 DEF ReadInput, MarkedAtFirst
    <3>2. ~held => autobootIndex = -1
      BY <2>2 DEF MenuNeeded
    <3> QED BY <2>1, <3>1, <3>2
  <2>3. CASE ~MenuNeeded
    <3>1. pc' = "launch" /\ UNCHANGED shownMenu
      BY <1>4, <2>3 DEF ReadInput
    <3>2. ~shownMenu
      BY <1>0, <2>1 DEF MenuOnly
    <3> QED BY <2>1, <3>1, <3>2
  <2> QED BY <2>2, <2>3
<1>5. CASE Launch \/ Pick
  <2>1. pc' \in {"modules", "wiiUMenu", "launch"}
        /\ UNCHANGED <<envs, default, held, pressed, shownMenu>>
    BY <1>5 DEF Launch, Pick
  <2> QED BY <2>1
<1>6. CASE Up \/ Down
  <2>1. UNCHANGED <<envs, default, held, pressed, shownMenu, autoBoot, autobootIndex, pc, payloads>>
    BY <1>6 DEF Up, Down
  <2> QED BY <2>1
<1>7. CASE Clear \/ SetDefault
  <2>1. pc = "menu" /\ pc' = "menu" /\ pressed' \in {"clear", "set"}
        /\ UNCHANGED <<envs, default, held>>
    BY <1>7 DEF Clear, SetDefault
  <2> QED BY <2>1
<1>8. CASE Choose
  <2>1. pc = "menu" /\ UNCHANGED <<envs, default, held, pressed, shownMenu>>
    BY <1>8 DEF Choose
  <2>2. pc' = "pick" \/ (pc' = "saveOpen" /\ autoBoot # autobootIndex)
    BY <1>8 DEF Choose
  <2> QED BY <2>1, <2>2
<1>9. CASE SaveOpen
  <2>1. pc = "saveOpen" /\ pressed # "none" /\ UNCHANGED <<envs, held, shownMenu>>
    BY <1>9 DEF SaveOpen
  <2>2. "empty" \notin envs
    BY <1>0, Constants DEF TypeOK
  <2>3. \/ pc' = "saveWrite" /\ default' = "empty" /\ UNCHANGED pressed
        \/ pc' = "pick" /\ UNCHANGED default
    BY <1>9 DEF SaveOpen
  <2> QED BY <2>1, <2>2, <2>3
<1>10. CASE SaveWrite
  <2>1. pc = "saveWrite" /\ pc' = "pick" /\ UNCHANGED pressed
    BY <1>10 DEF SaveWrite
  <2> QED BY <2>1
<1>11. CASE UNCHANGED vars
  BY <1>11 DEF vars
<1> QED
  BY <1>1, <1>2, <1>3, <1>4, <1>5, <1>6, <1>7, <1>8, <1>9, <1>10, <1>11 DEF Next

\* A default sticks, in every history of boots, crashes, failed saves and changes to the
\* card, unless an environment has a name of 128 characters or more.
THEOREM DefaultAlwaysSticks == LongNames = {} => (Spec => []DefaultSticks)
<1> SUFFICES ASSUME LongNames = {} PROVE Spec => []DefaultSticks
  OBVIOUS
<1>1. Init => DefaultFound
  BY DEF Init, DefaultFound
<1>2. BootInv /\ DefaultFound /\ [Next]_vars => DefaultFound'
  BY NextDefaultFound
<1>3. BootInv /\ DefaultFound => DefaultSticks
  <2>1. BootInv /\ DefaultFound => (Silent \/ ~(pc \in {"modules", "menu"} /\ iosu = "empty"
          /\ ~held /\ default \in envs /\ pressed = "none"))
    BY DEF BootInv, DefaultFound, MenuOnly, Silent
  <2>2. BootInv => SilentBootIsDefault
    BY SilentNow DEF CutsNameNone
  <2> QED BY <2>1, <2>2 DEF DefaultSticks, SilentBootIsDefault
<1> QED BY <1>1, <1>2, <1>3, BootInvariance, PTL DEF Spec

-----------------------------------------------------------------------------
(* With the controllers *)

\* One frame of the menu is one of its commands, or nothing.
LEMMA FrameIsCommand == MenuFrame => Next \/ UNCHANGED vars
<1> SUFFICES ASSUME MenuFrame PROVE Next \/ UNCHANGED vars
  OBVIOUS
<1>1. PICK now \in Answers : Dispatch(getControllerInput(now).trigger)
  BY DEF MenuFrame
<1>2. Up \/ Down \/ Choose \/ Clear \/ SetDefault \/ UNCHANGED vars
  BY <1>1 DEF Dispatch
<1> QED BY <1>2 DEF Next

\* Every step is a step of Boot or changes only the controllers.
LEMMA StepIsBoots == [InputNext]_<<vars, padVars>> => [Next]_vars
<1> SUFFICES ASSUME [InputNext]_<<vars, padVars>> PROVE [Next]_vars
  OBVIOUS
<1>1. CASE FirstRead
  BY <1>1 DEF FirstRead, Next
<1>2. CASE MenuFrame
  BY <1>2, FrameIsCommand
<1>3. CASE PairFrame
  BY <1>3 DEF PairFrame
<1>4. CASE Leave \/ Off
  BY <1>4 DEF Leave, Off, Next
<1>5. CASE PowerOn \/ Start \/ ReadConfig \/ Launch \/ SaveOpen \/ SaveWrite
  BY <1>5 DEF Next
<1>6. CASE UNCHANGED <<vars, padVars>>
  BY <1>6
<1> QED BY <1>1, <1>2, <1>3, <1>4, <1>5, <1>6 DEF InputNext

\* Boot with its controllers implements Boot.
THEOREM InputImplementsBoot == InputSpec => Spec
<1>1. InputInit => Init
  BY DEF InputInit
<1> QED BY <1>1, StepIsBoots, PTL DEF InputSpec, Spec

\* A silent boot launches what was saved, whatever the controllers answer, again unless a
\* long name is cut to another environment's.
THEOREM SilentWithButtons == CutsNameNone => (InputSpec => []SilentBootIsDefault)
<1> SUFFICES ASSUME CutsNameNone PROVE InputSpec => []SilentBootIsDefault
  OBVIOUS
<1>1. Spec => []SilentBootIsDefault
  BY SilentBootIsTheDefault
<1> QED BY <1>1, InputImplementsBoot, PTL

\* Unless IOSU names it, only a listed environment is launched, whatever they answer.
THEOREM ListedWithButtons == InputSpec => []LaunchIsListed
<1> QED BY InputImplementsBoot, LaunchedIsListed, PTL

\* The buttons of a frame are presses of the pads that answer, and what they answer is
\* what they remember.
LEMMA FrameFacts ==
  ASSUME NEW now \in Answers, Answered(now)
  PROVE  /\ getControllerInput(now).trigger = Pressed(now)
         /\ Pressed(now) \subseteq Pressed(last')
<1>1. getControllerInput(now).trigger = Pressed(now)
  BY DEF getControllerInput, Pressed
<1>2. DOMAIN now \subseteq Pads
  BY AnswersAssumption
<1>3. DOMAIN last' = Pads /\ \A p \in DOMAIN now : last'[p] = now[p]
  BY <1>2 DEF Answered
<1>4. ASSUME NEW b \in Pressed(now) PROVE b \in Pressed(last')
  <2>1. PICK p \in DOMAIN now : b \in Remapped(p, now[p] \ last[p])
    BY DEF Pressed
  <2>2. p \in DOMAIN last' /\ b \in Remapped(p, last'[p] \ last[p])
    BY <1>2, <1>3, <2>1
  <2> QED BY <2>2 DEF Pressed
<1> QED BY <1>1, <1>4

\* What a frame does to the marks, and to the place in the program.
LEMMA FrameEffect ==
  ASSUME MenuFrame
  PROVE  /\ pc = "menu"
         /\ pressed' # pressed => asked'
         /\ autoBoot' # autoBoot => pressed' # "none"
         /\ asked => asked'
         /\ pc' # pc => Choose /\ "A" \in Pressed(last')
         /\ UNCHANGED <<config, autobootIndex, payloads>>
         /\ pressed' = "none" => pressed = "none"
<1>1. PICK now \in Answers :
        /\ Dispatch(getControllerInput(now).trigger)
        /\ Answered(now)
        /\ asked' = (asked \/ Pressed(now) \cap {"X", "Y", "PLUS", "MINUS"} # {})
  BY DEF MenuFrame
<1>2. /\ getControllerInput(now).trigger = Pressed(now)
      /\ Pressed(now) \subseteq Pressed(last')
  BY <1>1, FrameFacts
<1>3. Dispatch(Pressed(now))
  BY <1>1, <1>2
<1>4. pc = "menu"
  BY DEF MenuFrame
<1>5. Branches[3] = {"A"} /\ Branches[4] = {"X", "MINUS"} /\ Branches[5] = {"Y", "PLUS"}
  BY DEF Branches
<1> USE DEF sdVars, mainVars, menuVars
<1>6. CASE Up \/ Down \/ UNCHANGED vars
  BY <1>1, <1>4, <1>6 DEF Up, Down, vars
<1>7. CASE Takes(3, Pressed(now)) /\ Choose
  <2>1. "A" \in Pressed(last')
    BY <1>2, <1>5, <1>7 DEF Takes
  <2> QED BY <1>1, <1>4, <1>7, <2>1 DEF Choose
<1>8. CASE Takes(4, Pressed(now)) /\ Clear
  <2>1. asked'
    BY <1>1, <1>5, <1>8 DEF Takes
  <2> QED BY <1>4, <1>8, <2>1 DEF Clear
<1>9. CASE Takes(5, Pressed(now)) /\ SetDefault
  <2>1. asked'
    BY <1>1, <1>5, <1>9 DEF Takes
  <2> QED BY <1>4, <1>9, <2>1 DEF SetDefault
<1> QED BY <1>3, <1>6, <1>7, <1>8, <1>9 DEF Dispatch

\* Every step keeps marks and saves to what was asked.
LEMMA NextAskedInv ==
  ASSUME TypeOK, AskedInv, [InputNext]_<<vars, padVars>>
  PROVE  AskedInv'
<1> USE DEF AskedInv, sdVars, mainVars, menuVars, userVars, padVars
<1>1. CASE FirstRead
  <2>1. /\ pc = "readInput" /\ UNCHANGED <<pressed, autobootIndex>>
        /\ pc' = "launch" \/ (pc' = "menu" /\ autoBoot' = autobootIndex)
    BY <1>1 DEF FirstRead, ReadInput, MarkedAtFirst
  <2> QED BY <2>1
<1>2. CASE MenuFrame
  <2>1. CASE pc' = pc
    BY <1>2, <2>1, FrameEffect
  <2>2. CASE Choose
    <3>1. /\ pc = "menu" /\ UNCHANGED <<pressed, payloads, autoBoot, autobootIndex>>
          /\ \/ pc' = "pick"
             \/ /\ pc' = "saveOpen" /\ autoBoot # autobootIndex
                /\ autoBoot = -1 \/ Named
      BY <2>2 DEF Choose
    <3>2. ASSUME pc' = "saveOpen" PROVE pressed # "none" /\ payloads # <<>>
      <4>1. Len(payloads) # 0
        BY <3>1, <3>2, PayloadFacts DEF Named, TypeOK
      <4> QED BY <3>1, <3>2, <4>1, PayloadFacts
    <3> QED BY <1>2, FrameEffect, <3>1, <3>2
  <2> QED BY <1>2, <2>1, <2>2, FrameEffect
<1>3. CASE PairFrame
  BY <1>3 DEF PairFrame, vars
<1>4. CASE Leave
  <2>1. pc' = "launch"
    BY <1>4 DEF Leave, Pick
  <2> QED BY <2>1
<1>5. CASE Off
  <2>1. pc' = "off" /\ pressed' = "none"
    BY <1>5 DEF Off, PowerOff
  <2> QED BY <2>1
<1>6. CASE (PowerOn \/ Start \/ ReadConfig \/ Launch) /\ UNCHANGED padVars
  <2>1. UNCHANGED pressed
    BY <1>6 DEF PowerOn, Start, ReadConfig, Launch
  <2>2. pc \in {"off", "start", "readConfig", "launch"}
        /\ pc' \in {"start", "fatal", "launch", "readConfig", "readInput", "modules", "wiiUMenu"}
    BY <1>6 DEF PowerOn, Start, ReadConfig, Launch
  <2>3. pc = "launch" => pc' \in {"modules", "wiiUMenu"}
    BY <1>6 DEF PowerOn, Start, ReadConfig, Launch
  <2> QED BY <2>1, <2>2, <2>3
<1>7. CASE (SaveOpen \/ SaveWrite) /\ UNCHANGED padVars
  <2>1. /\ pc \in {"saveOpen", "saveWrite"} /\ pc' \in {"saveWrite", "pick"}
        /\ UNCHANGED payloads
        /\ pc' = "saveWrite" => UNCHANGED pressed
    BY <1>7 DEF SaveOpen, SaveWrite
  <2> QED BY <1>7, <2>1
<1>8. CASE UNCHANGED <<vars, padVars>>
  BY <1>8 DEF vars
<1> QED BY <1>1, <1>2, <1>3, <1>4, <1>5, <1>6, <1>7, <1>8 DEF InputNext

\* Whatever controllers there are and whatever they answer, default.cfg is written and the
\* menu left only on presses that no earlier read saw.
THEOREM ActsOnlyWhenAsked == InputSpec => OnlyWhenAsked
<1>1. InputInit => AskedInv
  BY DEF InputInit, Init, AskedInv
<1>2. TypeOK /\ AskedInv /\ [InputNext]_<<vars, padVars>> => AskedInv'
  BY NextAskedInv
<1>3. ASSUME AskedInv, [InputNext]_<<vars, padVars>>
      PROVE  [/\ config' # config => payloads # <<>> /\ asked
              /\ pc = "menu" /\ pc' \in {"saveOpen", "pick"} => "A" \in Pressed(last')]_<<vars, padVars>>
  <2>1. CASE MenuFrame
    <3>1. UNCHANGED config /\ (pc' # pc => "A" \in Pressed(last'))
      BY <2>1, FrameEffect
    <3> QED BY <3>1
  <2>2. CASE SaveOpen \/ SaveWrite
    <3>1. pc \in {"saveOpen", "saveWrite"}
      BY <2>2 DEF SaveOpen, SaveWrite
    <3> QED BY <1>3, <3>1 DEF AskedInv
  <2>3. CASE FirstRead \/ PairFrame \/ Leave \/ Off \/ PowerOn \/ Start \/ ReadConfig \/ Launch
    <3>1. UNCHANGED config /\ ~(pc = "menu" /\ pc' \in {"saveOpen", "pick"})
      BY <2>3 DEF FirstRead, PairFrame, Leave, Off, PowerOn, PowerOff, Start, ReadConfig,
        ReadInput, Launch, Pick, sdVars, vars
    <3> QED BY <3>1
  <2>4. CASE UNCHANGED <<vars, padVars>>
    BY <2>4
  <2> QED BY <1>3, <2>1, <2>2, <2>3, <2>4 DEF InputNext
<1>4. InputSpec => []TypeOK
  BY InputImplementsBoot, BootTypeCorrect, PTL
<1> QED BY <1>1, <1>2, <1>3, <1>4, PTL DEF InputSpec, OnlyWhenAsked

=============================================================================
