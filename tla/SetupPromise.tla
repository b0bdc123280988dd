---------------------------- MODULE SetupPromise ----------------------------
(***************************************************************************)
(* What the loader promises the setup modules of an environment, with none *)
(* of their memory: the visible ones run one at a time, each once and in   *)
(* the order of the list, until all have run or the console stops.         *)
(***************************************************************************)
EXTENDS Naturals

VARIABLES
  visible,  \* positions in the list of files that are modules to run
  ran,      \* those started so far
  state     \* "idle", "running", "complete" or "stopped"

vars == <<visible, ran, state>>

Waiting == visible \ ran

Init == visible \subseteq Nat /\ ran = {} /\ state = "idle"

\* The first module not run yet is called.
Start ==
  /\ state = "idle" /\ state' = "running"
  /\ \E m \in Waiting : (\A n \in Waiting : m <= n) /\ ran' = ran \cup {m}
  /\ UNCHANGED visible

Becomes(from, to) == state = from /\ state' = to /\ UNCHANGED <<visible, ran>>

\* The module returns.
Return == Becomes("running", "idle")

Complete == Waiting = {} /\ Becomes("idle", "complete")

\* OSFatal, but never while a module runs.
Stop == Becomes("idle", "stopped")

Next == Start \/ Return \/ Complete \/ Stop

\* As long as modules return, the loader gets to an end.
Spec == Init /\ [][Next]_vars /\ WF_vars(Next)

=============================================================================
