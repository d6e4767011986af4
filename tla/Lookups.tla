------------------------------ MODULE Lookups ------------------------------
(***************************************************************************)
(* The queries about paths: exists, stat, lstat, realpath, readlink,       *)
(* readdir, walk and glob, on the tree a version shows. An instance with   *)
(* excludes or mounts hides some paths: a hidden one is not found, and is  *)
(* left out of listings. Listings come from one statement that looks the   *)
(* directory up as well; only a link makes them take a second one.         *)
(***************************************************************************)
EXTENDS Tree

CONSTANTS
  MaxLinks,     \* maxSymlinkDepth
  Hidings       \* what instances hide: paths with all that is below them, whether by mounts

ASSUME LinksAssumption == MaxLinks \in Nat
ASSUME HidingsAssumption ==
  \A hidden \in Hidings : \A p \in hidden.paths : Under(p) \subseteq hidden.paths
NothingHidden == [paths |-> {}, mounts |-> FALSE]

Found(at) == [error |-> "none", at |-> at]
Failed(error) == [error |-> error, at |-> Absent]

\* lookupEntry, resolveEntry: nothing is looked up for a hidden path.
Visible(own, hidden, p) == p \notin hidden.paths /\ Shows(own, p)
IsLink(own, p) == Entry(own, p).type = "symlink"

\* followSymlinkFrom: the row at the end of a chain of links.
Followed(own, hidden, p) ==
  LET reached[n \in 0..MaxLinks] == [q \in Paths |->
        IF ~Visible(own, hidden, q) THEN Failed("ENOENT")
        ELSE IF ~IsLink(own, q) THEN Found(q)
        ELSE IF n = 0 THEN Failed("ELOOP")
        ELSE IF hidden.mounts /\ Entry(own, q).data \in hidden.paths THEN Failed("EACCES")
        ELSE reached[n - 1][Entry(own, q).data]]
  IN reached[MaxLinks][p]

Exists(own, hidden, p) == Visible(own, hidden, p)
Lstat(own, hidden, p) == IF Visible(own, hidden, p) THEN Found(p) ELSE Failed("ENOENT")
Stat(own, hidden, p) == Followed(own, hidden, p)
Realpath(own, hidden, p) == Followed(own, hidden, p)
Readlink(own, hidden, p) ==
  IF ~Visible(own, hidden, p) THEN Failed("ENOENT")
  ELSE IF ~IsLink(own, p) THEN Failed("EINVAL") ELSE Found(Entry(own, p).data)

\* listVisibleChildren, listVisibleSubtree
ChildrenOf(own, hidden, p) == Children(own, p) \ hidden.paths
SubtreeOf(own, hidden, p) == Walk(own, p) \ hidden.paths
Listed(own, hidden, p, scope) ==
  IF scope = "children" THEN ChildrenOf(own, hidden, p) ELSE SubtreeOf(own, hidden, p)

\* Mutant: lists what is under the link itself.
ListDirectoryUnfollowed(own, hidden, p, scope) ==
  IF ~Visible(own, hidden, p) THEN Failed("ENOENT")
  ELSE IF Entry(own, p).type = "file" THEN Failed("ENOTDIR")
  ELSE Found(Listed(own, hidden, p, scope))

ListDirectory(own, hidden, p, scope) ==
  IF ~Visible(own, hidden, p) THEN Failed("ENOENT")
  ELSE CASE Entry(own, p).type = "directory" -> Found(Listed(own, hidden, p, scope))
         [] Entry(own, p).type = "file" -> Failed("ENOTDIR")
         [] OTHER ->
              LET real == Followed(own, hidden, p)
              IN IF real.error # "none" THEN real
                 ELSE IF ~ShowsDirectory(own, real.at) THEN Failed("ENOTDIR")
                 ELSE Found(Listed(own, hidden, real.at, scope))

Readdir(own, hidden, p) == ListDirectory(own, hidden, p, "children")
WalkOf(own, hidden, p) == ListDirectory(own, hidden, p, "subtree")

\* glob: a pattern is literal names, then a number of "*" or one "**" (deep). The
\* query covers the subtree of the names, at a fixed depth unless there is a
\* "**"; links are not followed, and cwd itself is not looked up.
Pattern(names, stars, deep) == [names |-> names, stars |-> stars, deep |-> deep]
Glob(own, hidden, cwd, pattern) ==
  LET scope == cwd \o pattern.names
  IN {q \in Paths : /\ IsPrefix(scope, q) /\ Visible(own, hidden, q)
                    /\ Entry(own, q).type = "file"
                    /\ pattern.deep \/ Len(q) = Len(scope) + pattern.stars}

-----------------------------------------------------------------------------
\* What recursive listings from directory p come to.
ListedFrom(own, hidden, p) ==
  LET reach[n \in 0..PathBound] ==
        IF n = 0 THEN {p}
        ELSE reach[n - 1] \cup
             UNION {Readdir(own, hidden, q).at : q \in {q \in reach[n - 1] : ShowsDirectory(own, q)}}
  IN reach[PathBound] \ {p}
Files(own, paths) == {q \in paths : Entry(own, q).type = "file"}

\* The one-statement listing answers what following the path and listing the
\* directory it leads to answers, with the same error; in a tree, walk finds
\* what listing directory by directory finds, and glob its files.
LookupsAgree(own) ==
  \A hidden \in Hidings, p \in Paths :
    LET real == Realpath(own, hidden, p)
        names == Readdir(own, hidden, p)
        walk == WalkOf(own, hidden, p)
    IN /\ Exists(own, hidden, p) <=> real.error = "none" \/ Readlink(own, hidden, p).error = "none"
       /\ IF real.error = "none"
          THEN IF ShowsDirectory(own, real.at)
               THEN /\ names.at = {q \in Paths : /\ q # Root /\ Front(q) = real.at
                                                 /\ Lstat(own, hidden, q).error = "none"}
                    /\ TreeShaped(own) => walk.at = ListedFrom(own, hidden, real.at)
               ELSE names.error = "ENOTDIR" /\ walk.error = "ENOTDIR"
          ELSE names.error = real.error /\ walk.error = real.error
       /\ real = Found(p) /\ ShowsDirectory(own, p) =>
            /\ Glob(own, hidden, p, Pattern(<<>>, 0, TRUE)) = Files(own, walk.at)
            /\ Glob(own, hidden, p, Pattern(<<>>, 1, FALSE)) = Files(own, names.at)
            /\ \A q \in names.at : Glob(own, hidden, p, Pattern(<<Last(q)>>, 0, FALSE))
                                     = Files(own, {q})
=============================================================================
