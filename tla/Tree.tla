-------------------------------- MODULE Tree --------------------------------
(***************************************************************************)
(* The tree of paths one version shows, and the statements that change it. *)
(* A version has rows of its own; a path without one shows what the        *)
(* nearest ancestor with a row says (Inherited, which never changes here). *)
(* A path is the sequence of its names, "/" the empty one.                 *)
(***************************************************************************)
EXTENDS Naturals, FiniteSets, SequencesExt

CONSTANTS
  Names,        \* names of files and directories
  PathBound,    \* bound: no path of the model has more names
  Tokens,       \* pieces of file content
  MaxFileSize,  \* maxFileSize, in tokens
  Modes,        \* permission bits chmod may set
  Inherited,    \* row of each path that the ancestors of the version show
  Absent        \* no row

ASSUME PathBoundAssumption == PathBound \in Nat
ASSUME NamesAssumption == IsFiniteSet(Names)
ASSUME SizeAssumption == MaxFileSize \in Nat \ {0}

Root == <<>>
Paths == UNION {[1..n -> Names] : n \in 0..PathBound}
Parent(p) == IF p = Root THEN Root ELSE Front(p)

\* path <@ root, and the directories of a path
Under(root) == {p \in Paths : IsPrefix(root, p)}
Segments(p) == Prefixes(p) \ {Root}

File(content, mode) == [type |-> "file", data |-> content, mode |-> mode]
Directory(mode) == [type |-> "directory", data |-> <<>>, mode |-> mode]
Symlink(target) == [type |-> "symlink", data |-> target, mode |-> "0777"]
Tombstone == [type |-> "tombstone", data |-> <<>>, mode |-> "0"]

AllModes == Modes \cup {"0", "0644", "0755", "0777"}
Contents == UNION {[1..n -> Tokens] : n \in 0..MaxFileSize}
Row == {File(c, m) : c \in Contents, m \in AllModes}
       \cup {Directory(m) : m \in AllModes}
       \cup {[Symlink(t) EXCEPT !.mode = m] : t \in Paths, m \in AllModes}
       \cup {Tombstone}
ASSUME AbsentAssumption == Absent \notin Row
ASSUME InheritedAssumption == Inherited \in [Paths -> Row \cup {Absent}]

\* What a version with rows own shows at p: its nearest row, unless that is
\* a tombstone.
Entry(own, p) ==
  LET row == IF own[p] # Absent THEN own[p] ELSE Inherited[p]
  IN IF row = Tombstone THEN Absent ELSE row
View(own) == [p \in Paths |-> Entry(own, p)]
Shows(own, p) == Entry(own, p) # Absent
ShowsDirectory(own, p) == Shows(own, p) /\ Entry(own, p).type = "directory"
ShowsOther(own, p) == Shows(own, p) /\ Entry(own, p).type # "directory"

Children(own, p) == {q \in Under(p) : Len(q) = Len(p) + 1 /\ Shows(own, q)}
Walk(own, p) == {q \in Under(p) \ {p} : Shows(own, q)}
NodeCount(own) == Cardinality({p \in Paths : Shows(own, p)})

\* Every path shown has a directory above it.
TreeShaped(own) == \A p \in Paths : Shows(own, p) => ShowsDirectory(own, Parent(p))

-----------------------------------------------------------------------------
\* Statements: the rows they leave.
Upserted(own, p, row) == [own EXCEPT ![p] = row]

TombstonedSubtree(own, p) ==
  [q \in Paths |-> IF q \in Under(p) /\ Shows(own, q) THEN Tombstone ELSE own[q]]

Image(q, src, dest) == dest \o SubSeq(q, Len(src) + 1, Len(q))
\* Mutant: copies the rows of the version only.
CopiedOwnRows(own, src, dest, includeRoot) ==
  [q \in Paths |->
     LET from == Image(q, dest, src)
     IN IF /\ q \in Under(dest) /\ from \in Paths /\ own[from] # Absent
           /\ includeRoot \/ from # src
        THEN own[from] ELSE own[q]]

CopiedSubtree(own, src, dest, includeRoot) ==
  [q \in Paths |->
     LET from == Image(q, dest, src)
     IN IF /\ q \in Under(dest) /\ from \in Paths /\ Shows(own, from)
           /\ includeRoot \/ from # src
        THEN Entry(own, from) ELSE own[q]]
\* bound: the copy stays within the paths of the model
CopyFits(own, src, dest) ==
  \A q \in Under(src) : Shows(own, q) => Image(q, src, dest) \in Paths

\* mkdir -p: every missing directory of the path, unless something else is in the way
MkdirPossible(own, p) == \A q \in Segments(p) : ~ShowsOther(own, q)
WithDirectories(own, p) ==
  [q \in Paths |-> IF q \in Segments(p) /\ ~ShowsDirectory(own, q)
                   THEN Directory("0755") ELSE own[q]]

\* The fused statement of writeFile validates parent and target by itself.
WriteStatus(own, p) ==
  CASE ~Shows(own, Parent(p)) -> "enoent"
    [] ShowsOther(own, Parent(p)) -> "enotdir"
    [] ShowsDirectory(own, Parent(p)) /\ ShowsDirectory(own, p) -> "eisdir"
    [] OTHER -> "ok"
=============================================================================
