------------------------------ MODULE MCSetup ------------------------------
(***************************************************************************)
(* Folders of up to three entries in any order: modules that fit the       *)
(* static region many times, fill most of it, or make the start of their   *)
(* heap wrap; a hidden one, a file that is none and a directory.           *)
(***************************************************************************)
EXTENDS SetupCard

\* "A.RPX" and the like.
Named(c, ext, isDir, need, size) ==
  [name |-> <<c>> \o ext, isDir |-> isDir, need |-> need, size |-> size]

rpx == <<Dot, 114, 112, 120>>
RPX == <<Dot, 82, 80, 88>>

MCEntries ==
  {Named(66, RPX, FALSE, 3, 3),       \* B.RPX
   Named(97, rpx, FALSE, 13, 5),      \* a.rpx
   Named(67, rpx, FALSE, 40, 2),      \* C.rpx
   Named(100, rpx, FALSE, 13, 1),      \* d.rpx
   Named(Underscore, rpx, FALSE, 3, 1),
   Named(110, <<Dot, 120>>, FALSE, 3, 1),
   Named(115, rpx, TRUE, 3, 1)}

MCFolders ==
  {d \in UNION {[1 .. n -> MCEntries] : n \in 0 .. 3} :
     \A j, k \in DOMAIN d : d[j] = d[k] => j = k}

MCFiles == {[hidden |-> FALSE, need |-> n] : n \in {3, 13, 40}} \cup {[hidden |-> TRUE, need |-> 3]}

MCLists == UNION {[1 .. n -> MCFiles] : n \in 0 .. 3}

=============================================================================
