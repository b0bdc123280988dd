-------------------------------- MODULE Boot --------------------------------
(***************************************************************************)
(* Choosing the environment, over any number of boots: main() of main.cpp  *)
(* up to the launch, EnvironmentSelectionScreen, and the configuration     *)
(* file default.cfg that carries the default from one boot to the next.    *)
(* Between boots the user may add or remove environments; power may fail   *)
(* at any step, also between the truncation of the file and its write.     *)
(***************************************************************************)
EXTENDS Integers, Sequences

CONSTANTS
  Order,      \* every environment name that may ever exist, sorted as std::map sorts
  LongNames,  \* those of 128 characters or more
  Cut,        \* the environment named by their first 127 characters, or "empty" for none
  Word        \* number of values of a uint32_t, scaled down

Env == {Order[i] : i \in DOMAIN Order}

\* "empty" stands for the empty string and "minus1" for "-1", the mark of a cleared
\* default; neither is the name of an environment, and "absent" is no file at all.
ASSUME BootAssumption ==
  /\ \A i, j \in DOMAIN Order : Order[i] = Order[j] => i = j
  /\ Env \cap {"empty", "minus1", "absent"} = {}
  /\ LongNames \subseteq Env
  /\ Cut \in [LongNames -> (Env \ LongNames) \cup {"empty"}]
  /\ Word \in Nat /\ Word > 2 * Len(Order)
  /\ Order \in Seq(Env)

VARIABLES
  envs,           \* directories under sd:/wiiu/environments
  config,         \* content of default.cfg, or "absent"
  pc,             \* control point of this boot
  iosu,           \* environment path kept in IOSU, "empty" if empty or unexpected
  held,           \* the user holds X during this boot
  payloads,       \* environmentPaths: the names found, in the order of the map
  autobootIndex,  \* index of the configured default in payloads, or -1
  selected,       \* uint32_t: the entry under the cursor
  autoBoot,       \* int: the entry marked as default, or -1
  envPath,        \* environmentPath
  shownMenu,
  pressed,        \* ghost: the last of X ("clear") and Y ("set") in this menu, or "none"
  default,        \* ghost: the entry marked at the last finished save, "empty" after any other
  cleared         \* ghost: a menu with entries was left after X, no save failed in it, no Y since

sdVars   == <<envs, config>>
mainVars == <<iosu, held, payloads, autobootIndex, envPath, shownMenu>>
menuVars == <<selected, autoBoot, pressed>>
userVars == <<default, cleared>>
vars     == <<sdVars, pc, mainVars, menuVars, userVars>>

TypeOK ==
  /\ envs \subseteq Env
  /\ config \in Env \cup {"absent", "empty", "minus1"}
  /\ pc \in {"off", "start", "readConfig", "readInput", "menu", "saveOpen", "saveWrite",
             "pick", "launch", "modules", "wiiUMenu", "fatal"}
  /\ iosu \in Env \cup {"empty"}
  /\ held \in BOOLEAN
  /\ payloads \in Seq(Env) /\ Len(payloads) <= Len(Order)
  /\ autobootIndex \in -1 .. Len(payloads) - 1
  /\ selected \in 0 .. Word - 1
  /\ autoBoot \in -Word .. Word
  /\ envPath \in Env \cup {"empty"}
  /\ shownMenu \in BOOLEAN
  /\ pressed \in {"none", "clear", "set"}
  /\ default \in Env \cup {"empty"}
  /\ cleared \in BOOLEAN

Init ==
  /\ envs = {} /\ config = "absent"
  /\ pc = "off" /\ iosu = "empty" /\ held = FALSE
  /\ payloads = <<>> /\ autobootIndex = -1 /\ envPath = "empty" /\ shownMenu = FALSE
  /\ selected = 0 /\ autoBoot = -1 /\ pressed = "none"
  /\ default = "empty" /\ cleared = FALSE

-----------------------------------------------------------------------------
(* The user and the console *)

\* Between boots the card may be edited; IOSU may remember an environment.
PowerOn ==
  /\ pc = "off" /\ pc' = "start"
  /\ envs' \in SUBSET Env
  /\ iosu' \in Env \cup {"empty"}
  /\ held' \in BOOLEAN
  /\ UNCHANGED <<config, payloads, autobootIndex, envPath, shownMenu, menuVars, userVars>>

\* The console is turned off, or fails, at any point; what is in memory is lost.
PowerOff ==
  /\ pc # "off" /\ pc' = "off"
  /\ iosu' = "empty" /\ held' = FALSE
  /\ payloads' = <<>> /\ autobootIndex' = -1 /\ envPath' = "empty" /\ shownMenu' = FALSE
  /\ selected' = 0 /\ autoBoot' = -1 /\ pressed' = "none"
  /\ UNCHANGED <<sdVars, userVars>>

-----------------------------------------------------------------------------
(* main *)

\* environmentPaths, a sorted map: the names in `present`, each once, in order.  There
\* is exactly one such listing.
Listings(present) ==
  {s \in UNION {[1..n -> present] : n \in 0 .. Len(Order)} :
     /\ \A name \in present : \E i \in DOMAIN s : s[i] = name
     /\ \A i, j \in DOMAIN s : i < j =>
          \E k, l \in DOMAIN Order : k < l /\ s[i] = Order[k] /\ s[j] = Order[l]}

\* OSFatal if an environment already runs.  A path from IOSU is launched as it is;
\* otherwise the directories are listed.
Start ==
  /\ pc = "start"
  /\ \/ /\ pc' = "fatal"
        /\ UNCHANGED <<envPath, payloads>>
     \/ /\ iosu # "empty"
        /\ envPath' = iosu /\ pc' = "launch"
        /\ UNCHANGED payloads
     \/ /\ iosu = "empty"
        /\ payloads' \in Listings(envs)
        /\ pc' = "readConfig"
        /\ UNCHANGED envPath
  /\ UNCHANGED <<sdVars, iosu, held, autobootIndex, shownMenu, menuVars, userVars>>

\* getFileContent: the first 127 characters of the file.
FileContent == IF config \in LongNames THEN Cut[config] ELSE config

\* The default, if the configured name is among the directories.
ReadConfig ==
  /\ pc = "readConfig" /\ pc' = "readInput"
  /\ \/ /\ \A i \in DOMAIN payloads : payloads[i] # FileContent
        /\ UNCHANGED <<autobootIndex, envPath>>
     \/ \E i \in DOMAIN payloads :
          /\ payloads[i] = FileContent
          /\ autobootIndex' = i - 1
          /\ envPath' = payloads[i]
  /\ UNCHANGED <<sdVars, iosu, held, payloads, shownMenu, menuVars, userVars>>

\* Mutant of MenuNeeded: an off-by-one counts the first entry as no default.
MenuNeededForFirst == autobootIndex <= 0 \/ held

\* forceMenu, or X pressed or held.
MenuNeeded == autobootIndex = -1 \/ held

\* Mutant of MarkedAtFirst: the entry under the cursor.
MarkedAtFirstSelected == IF autobootIndex > 0 THEN autobootIndex ELSE 0

\* The entry marked as default when the menu opens.
MarkedAtFirst == autobootIndex

\* The menu opens, its cursor on the default, or the default is launched.
ReadInput ==
  /\ pc = "readInput"
  /\ IF MenuNeeded
       THEN /\ pc' = "menu" /\ shownMenu' = TRUE
            /\ selected' = IF autobootIndex > 0 THEN autobootIndex ELSE 0
            /\ autoBoot' = MarkedAtFirst
       ELSE /\ pc' = "launch"
            /\ UNCHANGED <<shownMenu, selected, autoBoot>>
  /\ UNCHANGED <<sdVars, iosu, held, payloads, autobootIndex, envPath, pressed, userVars>>

\* The modules of the environment run, or the Wii U Menu if there was none to choose.
Launch ==
  /\ pc = "launch"
  /\ pc' = IF shownMenu /\ payloads = <<>> THEN "wiiUMenu" ELSE "modules"
  /\ UNCHANGED <<sdVars, mainVars, menuVars, userVars>>

-----------------------------------------------------------------------------
(* EnvironmentSelectionScreen *)

\* A uint32_t stored in an int.
Signed(n) == IF n < Word \div 2 THEN n ELSE n - Word

Up ==
  /\ pc = "menu"
  /\ selected > 0 /\ selected' = selected - 1
  /\ UNCHANGED <<pc, sdVars, mainVars, autoBoot, pressed, userVars>>

\* Mutant of Down: the cursor may move past the last entry.
DownPastEnd ==
  /\ pc = "menu"
  /\ selected < Len(payloads) /\ selected' = selected + 1
  /\ UNCHANGED <<pc, sdVars, mainVars, autoBoot, pressed, userVars>>

\* Mutant of Down: no bound.
DownUnbounded ==
  /\ pc = "menu"
  /\ selected' = selected + 1
  /\ UNCHANGED <<pc, sdVars, mainVars, autoBoot, pressed, userVars>>

\* payloads.size() - 1 is unsigned: without entries the bound is the largest word.
Down ==
  /\ pc = "menu"
  /\ selected < (Len(payloads) - 1) % Word /\ selected' = selected + 1
  /\ UNCHANGED <<pc, sdVars, mainVars, autoBoot, pressed, userVars>>

\* X: no default.
Clear ==
  /\ pc = "menu"
  /\ autoBoot' = -1 /\ pressed' = "clear"
  /\ UNCHANGED <<pc, sdVars, mainVars, selected, userVars>>

\* Y: the entry under the cursor becomes the default.
SetDefault ==
  /\ pc = "menu"
  /\ autoBoot' = Signed(selected) /\ pressed' = "set" /\ cleared' = FALSE
  /\ UNCHANGED <<pc, sdVars, mainVars, selected, default>>

\* The entries the loop that saves the default looks through.
Named == autoBoot \in 0 .. Len(payloads) - 1

\* Mutant of Choose: the file is opened before the entry is looked up.
ChooseOpens ==
  /\ pc = "menu"
  /\ pc' = IF autoBoot # autobootIndex THEN "saveOpen" ELSE "pick"
  /\ UNCHANGED <<sdVars, mainVars, menuVars, userVars>>

\* A: the default is saved if it differs from the one this boot found.
Choose ==
  /\ pc = "menu"
  /\ pc' = IF autoBoot # autobootIndex /\ (autoBoot = -1 \/ Named) THEN "saveOpen" ELSE "pick"
  /\ UNCHANGED <<sdVars, mainVars, menuVars, userVars>>

\* writeFileContent: fopen with "w" truncates the file, or fails and is forgotten.
SaveOpen ==
  /\ pc = "saveOpen"
  /\ \/ /\ pc' = "saveWrite" /\ config' = "empty" /\ default' = "empty"
        /\ UNCHANGED <<pressed, cleared>>
     \/ /\ pc' = "pick" /\ UNCHANGED <<config, default>>
        /\ pressed' = "none" /\ cleared' = FALSE
  /\ UNCHANGED <<envs, mainVars, selected, autoBoot>>

\* Mutant of SaveContent: the entry under the cursor instead of the marked one.
SaveContentSelected == IF autoBoot = -1 THEN "minus1" ELSE payloads[selected + 1]

SaveContent == IF autoBoot = -1 THEN "minus1" ELSE payloads[autoBoot + 1]

\* fputs and fclose, whose results are not looked at.
SaveWrite ==
  /\ pc = "saveWrite" /\ pc' = "pick"
  /\ \/ /\ config' = SaveContent
        /\ default' = IF Named THEN payloads[autoBoot + 1] ELSE "empty"
     \/ UNCHANGED <<config, default>>
  /\ UNCHANGED <<envs, mainVars, menuVars, cleared>>

\* The path of the selected entry, or "empty" if there is none.
Pick ==
  /\ pc = "pick" /\ pc' = "launch"
  /\ envPath' = IF selected < Len(payloads) THEN payloads[selected + 1] ELSE "empty"
  /\ cleared' = (cleared \/ (pressed = "clear" /\ payloads # <<>>))
  /\ UNCHANGED <<sdVars, iosu, held, payloads, autobootIndex, shownMenu, menuVars, default>>

Next ==
  \/ PowerOn \/ PowerOff \/ Start \/ ReadConfig \/ ReadInput \/ Launch
  \/ Up \/ Down \/ Clear \/ SetDefault \/ Choose \/ SaveOpen \/ SaveWrite \/ Pick

Spec == Init /\ [][Next]_vars

-----------------------------------------------------------------------------
(* Properties *)

\* A boot that asked nobody: it launches without the menu and without IOSU's word.
Silent == pc = "modules" /\ iosu = "empty" /\ ~shownMenu

\* The path to launch is that of an entry.
Listed == \E i \in DOMAIN payloads : payloads[i] = envPath

\* The modules of an environment run only if it was listed in this boot: an index
\* that outlived its list, or the unsigned bound of an empty one, never gets there.
LaunchIsListed ==
  pc = "modules" /\ iosu = "empty" => Listed

\* A silent boot launches the entry that was marked when the last save finished,
\* whatever was added to or removed from the card since, and whether or not power
\* failed between the truncation and the write of default.cfg.  That takes names that come
\* back whole: cut to 127 characters, one may be the name of another environment.
SilentBootIsDefault == Silent => envPath = default

\* A default sticks (README 19): once saved, every boot that finds the environment
\* launches it without the menu, unless X is held or IOSU names another.
DefaultSticks ==
  pc \in {"modules", "menu"} /\ iosu = "empty" /\ ~held /\ default \in envs /\ pressed = "none" =>
    Silent /\ envPath = default

\* "Clear Default" (main.cpp 569): after a menu left with the default cleared, no boot
\* is silent until a default is set again.
ClearDefaultClears == cleared => ~Silent

-----------------------------------------------------------------------------
(* The inductive invariant behind SilentBootIsDefault and LaunchIsListed *)

\* default is the name in default.cfg, if it holds one.
DefaultSaved == default = IF config \in Env THEN config ELSE "empty"

\* A boot past ReadConfig without the menu has the configured name, as read, in envPath.
FromConfig ==
  \/ pc = "readInput" /\ autobootIndex # -1
  \/ pc \in {"launch", "modules"} /\ ~shownMenu /\ iosu = "empty"
  => envPath = FileContent /\ Listed

\* What the menu leaves behind.
FromMenu ==
  /\ pc \in {"launch", "modules"} /\ shownMenu /\ payloads # <<>> => Listed
  /\ pc = "modules" /\ shownMenu => payloads # <<>>

\* The cursor stays on an entry as long as there is one.
CursorOnEntry ==
  pc \in {"menu", "saveOpen", "saveWrite", "pick"} /\ payloads # <<>> =>
    selected < Len(payloads)

\* No long name is taken for another environment when it is read back.
CutsNameNone == \A name \in LongNames : Cut[name] = "empty"

\* Which control points belong to the menu, and with what.
MenuOnly ==
  /\ pc \in {"menu", "saveOpen", "saveWrite", "pick"} => shownMenu
  /\ pc \in {"off", "start", "readConfig", "readInput"} => ~shownMenu
  /\ pc \in {"off", "start"} => payloads = <<>>
  /\ pc \in {"off", "start", "readConfig"} => autobootIndex = -1
  /\ pc \in {"saveOpen", "saveWrite"} => autoBoot = -1 \/ Named

BootInv ==
  TypeOK /\ DefaultSaved /\ FromConfig /\ FromMenu /\ CursorOnEntry /\ MenuOnly

\* Why a default sticks, if no name is too long to be read back: the list of this boot
\* has every environment, so the default is found when there is one; the menu comes up
\* unasked only without it; and nothing is saved that the user did not press.
DefaultFound ==
  /\ pc = "readConfig" => \A name \in envs : \E i \in DOMAIN payloads : payloads[i] = name
  /\ pc = "readInput" /\ default \in envs => autobootIndex # -1
  /\ pc \in {"menu", "saveOpen"} /\ ~held => default \notin envs
  /\ shownMenu /\ ~held /\ pressed = "none" => default \notin envs
  /\ pc = "menu" /\ pressed = "none" => autoBoot = autobootIndex
  /\ pc \in {"saveOpen", "saveWrite"} => pressed # "none"

=============================================================================
