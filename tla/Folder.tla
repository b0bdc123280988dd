------------------------------- MODULE Folder -------------------------------
(***************************************************************************)
(* Listing a directory: DirList and the string helpers it uses.  A name is *)
(* a sequence of character codes, since the order of the modules and the   *)
(* choice of files both depend on their letters.  readdir gives entries    *)
(* [name, isDir, ...] in the order of the card; what the listing does not  *)
(* look at travels with them.                                              *)
(***************************************************************************)
EXTENDS Integers, Sequences, FiniteSets

Dot == 46
Slash == 47
Underscore == 95
Comma == 44

-----------------------------------------------------------------------------
(* Characters and strings *)

ToLower(c) == IF c \in 65 .. 90 THEN c + 32 ELSE c

Lower(s) == [k \in DOMAIN s |-> ToLower(s[k])]

\* strcasecmp(a, b) > 0: at the first difference a has the larger character, or is longer.
Greater(a, b) ==
  LET x == Append(Lower(a), 0)
      y == Append(Lower(b), 0)
  IN  \E k \in DOMAIN x \cap DOMAIN y :
        x[k] > y[k] /\ \A j \in 1 .. k - 1 : x[j] = y[j]

SameIgnoringCase(a, b) == Lower(a) = Lower(b)

\* strrchr: from the last c on, or nothing.
FromLast(s, c) ==
  LET at == {k \in DOMAIN s : s[k] = c}
  IN  IF at = {} THEN <<>> ELSE SubSeq(s, CHOOSE k \in at : \A j \in at : j <= k, Len(s))

\* A part between separators that is not empty, one that strtok gives again and again.
Token(s, separator, a, b) ==
  /\ a <= b /\ \A k \in a .. b : s[k] # separator
  /\ a = 1 \/ s[a - 1] = separator
  /\ b = Len(s) \/ s[b + 1] = separator

\* Mutant of strtokcmp: the case of the letters counts.
strtokcmpExact(string, compare, separator) ==
  \E a, b \in DOMAIN compare : Token(compare, separator, a, b) /\ string = SubSeq(compare, a, b)

\* Whether `string` is one of the parts of `compare` (the C function's 0).
strtokcmp(string, compare, separator) ==
  \E a, b \in DOMAIN compare :
    Token(compare, separator, a, b) /\ SameIgnoringCase(string, SubSeq(compare, a, b))

\* What follows the last slash that is not the end of the path.
FullpathToFilename(path) ==
  LET at == {k \in 1 .. Len(path) - 1 : path[k] = Slash}
  IN  IF at = {} THEN path
      ELSE SubSeq(path, (CHOOSE k \in at : \A j \in at : j <= k) + 1, Len(path))

\* Of slashes in a row the first is kept.
RemoveDoubleSlashs(str) ==
  LET kept[n \in 0 .. Len(str)] ==
        IF n = 0 THEN <<>>
        ELSE IF n > 1 /\ str[n - 1] = Slash /\ str[n] = Slash THEN kept[n - 1]
        ELSE Append(kept[n - 1], str[n])
  IN  kept[Len(str)]

-----------------------------------------------------------------------------
(* DirList *)

\* The path that is opened.  The last slash is looked for at the length before double
\* slashes went: after one went it is the terminator that is looked at; no caller has more.
FolderPath(folder) ==
  LET single == RemoveDoubleSlashs(folder)
      last == Len(single)
      bare == IF last = Len(folder) /\ single[last] = Slash THEN SubSeq(single, 1, last - 1)
              ELSE single
  IN  IF \E k \in DOMAIN bare : bare[k] = Slash THEN bare ELSE Append(bare, Slash)

\* A file list (flag Files) or a list of directories (flag Dirs), filtered by extension
\* unless the filter is empty.  Neither caller asks for subfolders.
Accepted(e, dirs, filter) ==
  /\ e.isDir = dirs
  /\ e.isDir => e.name \notin {<<Dot>>, <<Dot, Dot>>}
  /\ filter # <<>> =>
       /\ FromLast(e.name, Dot) # <<>>
       /\ strtokcmp(FromLast(e.name, Dot), filter, Comma)

\* AddEntrie prepends the folder.
Entry(path, e) == [file |-> e, FilePath |-> path \o <<Slash>> \o e.name]

\* A path of less than three characters is not opened; `dir` is what readdir gives, in turn.
InternalLoadPath(path, dir, dirs, filter) ==
  LET listed[n \in 0 .. Len(dir)] ==
        IF n = 0 THEN <<>>
        ELSE IF Accepted(dir[n], dirs, filter) THEN Append(listed[n - 1], Entry(path, dir[n]))
        ELSE listed[n - 1]
  IN  IF Len(path) < 3 THEN <<>> ELSE listed[Len(dir)]

LoadPath(folder, dir, dirs, filter) ==
  IF folder = <<>> THEN <<>> ELSE InternalLoadPath(FolderPath(folder), dir, dirs, filter)

\* Mutant of SortCallback: capital letters first.
SortCallbackBytes(f1, f2) ==
  \E k \in DOMAIN f1.FilePath \cap DOMAIN f2.FilePath :
    /\ f1.FilePath[k] < f2.FilePath[k]
    /\ \A j \in 1 .. k - 1 : f1.FilePath[j] = f2.FilePath[j]

\* Directories first, then by path; equal paths, which a card cannot have, would be true
\* both ways, which std::sort does not allow.
SortCallback(f1, f2) ==
  \/ f1.file.isDir /\ ~f2.file.isDir
  \/ f1.file.isDir = f2.file.isDir /\ ~Greater(f1.FilePath, f2.FilePath)

\* The elements of a list that come before the one at k.
Before(s, k) == {j \in DOMAIN s : j # k /\ SortCallback(s[j], s[k])}

\* std::sort: at each place the element with as many before it.
SortList(s) == [n \in DOMAIN s |-> s[CHOOSE k \in DOMAIN s : Cardinality(Before(s, k)) = n - 1]]

\* The constructor: load and sort.
DirList(folder, dir, dirs, filter) == SortList(LoadPath(folder, dir, dirs, filter))

GetFilename(e) == FullpathToFilename(e.FilePath)

=============================================================================
