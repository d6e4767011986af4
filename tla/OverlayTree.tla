----------------------------- MODULE OverlayTree -----------------------------
(***************************************************************************)
(* What bash-gres promises of its versions, with no closure table, rows,   *)
(* tombstones or blobs: a forest of versions, each showing a tree.  A      *)
(* child shows its base's tree, live, except at the paths it owns; a write *)
(* reaches exactly the versions that see the path through the writer.      *)
(* VersionStore implements this specification (MCVersionStore.tla).        *)
(***************************************************************************)
CONSTANTS VersionIds, VersionRoots, WorkspaceRoot, RootOf, UserLabels,
          DefaultLabel, PrevLabel, Paths, Contents, Dir, Absent, NoVersion

Labels == UserLabels \cup {PrevLabel[v] : v \in VersionIds}
Shapes == Contents \cup {Dir}

VARIABLES
  used,    \* ids handed out so far
  alive,   \* versions that exist
  branch,  \* branch[r][l]: the version label l names in root r
  base,    \* the version a version overlays
  own,     \* the paths at which it does not follow its base
  view     \* what it shows

vars == <<used, alive, branch, base, own, view>>

Init ==
  /\ used = {}
  /\ alive = {}
  /\ branch = [r \in VersionRoots |-> [l \in Labels |-> NoVersion]]
  /\ base = [v \in VersionIds |-> NoVersion]
  /\ own = [v \in VersionIds |-> {}]
  /\ view = [v \in VersionIds |-> [p \in Paths |-> Absent]]

Visible(tree) == {p \in Paths : tree[p] # Absent}

\* The versions that show at p what v shows: the least set that holds v and
\* is closed under overlaying a member without owning p.
Followers(v, p) ==
  {d \in VersionIds : \A S \in SUBSET VersionIds :
     /\ v \in S
     /\ \A e \in alive : base[e] \in S /\ p \notin own[e] => e \in S
     => d \in S}

\* v owns the paths in P and shows there what new says.
Overlaid(v, P, new) ==
  /\ own' = [own EXCEPT ![v] = own[v] \cup P]
  /\ LET reached == [p \in P |-> Followers(v, p)]
     IN  view' = [d \in VersionIds |-> [p \in Paths |->
           IF p \in P /\ d \in reached[p] THEN new[p] ELSE view[d][p]]]

Standalone(S) == base' = [v \in VersionIds |-> IF v \in S THEN NoVersion ELSE base[v]]
OwnAll(S) ==
  own' = [v \in VersionIds |-> IF v \in S THEN Visible(view[v]) ELSE own[v]]

Moved(b, v, l) ==
  [m \in Labels |->
     IF m = l THEN IF v \in alive /\ \E k \in Labels : b[k] = v THEN v ELSE NoVersion
     ELSE IF b[m] = v THEN NoVersion
     ELSE IF b[l] \notin {v, NoVersion} /\ m = PrevLabel[b[l]] THEN b[l]
     ELSE b[m]]
Unnamed(b, S) == [m \in Labels |-> IF b[m] \in S THEN NoVersion ELSE b[m]]
MoveLabel(v, l) ==
  branch' = [branch EXCEPT ![RootOf[v]] = Moved(@, v, l)]
Displaced(v, l) == {branch[RootOf[v]][l]} \ {v, NoVersion}

-----------------------------------------------------------------------------
\* A new version that overlays nothing and shows tree.
New(v, l, tree) ==
  /\ v \notin used
  /\ used' = used \cup {v}
  /\ branch[RootOf[v]][l] = NoVersion
  /\ UNCHANGED base
  /\ alive' = alive \cup {v}
  /\ branch' = [branch EXCEPT ![RootOf[v]][l] = v]
  /\ own' = [own EXCEPT ![v] = Visible(tree)]
  /\ view' = [view EXCEPT ![v] = tree]

NewCopy(src, v) ==
  /\ RootOf[src] = WorkspaceRoot /\ RootOf[v] # WorkspaceRoot
  /\ New(v, DefaultLabel, view[src])

\* A fork shows what v shows, now and until it owns the path.
Branch(v, w, l) ==
  /\ v \in alive
  /\ w \notin used
  /\ used' = used \cup {w}
  /\ RootOf[w] = RootOf[v]
  /\ branch[RootOf[w]][l] = NoVersion
  /\ UNCHANGED own
  /\ alive' = alive \cup {w}
  /\ branch' = [branch EXCEPT ![RootOf[w]][l] = w]
  /\ base' = [base EXCEPT ![w] = v]
  /\ view' = [view EXCEPT ![w] = view[v]]

Put ==
  /\ UNCHANGED <<used, alive, branch, base>>
  /\ \E v \in alive, p \in Paths, x \in Shapes \cup {Absent} :
       Overlaid(v, {p}, [q \in Paths |-> x])

\* Detaching changes what nobody sees.
Detach(v) ==
  /\ v \in alive
  /\ Standalone({v})
  /\ OwnAll({v})
  /\ UNCHANGED <<used, alive, branch, view>>

\* Deleting with retention "retain" hides a name and nothing else; promoting
\* with it also hides the version the name was taken from.
Rename(v, l) == v \in used /\ MoveLabel(v, l)
Hide(v) == branch' = [branch EXCEPT ![RootOf[v]] = Unnamed(@, {v})]
PromoteRetain(v, l) ==
  branch' = [branch EXCEPT ![RootOf[v]] = Unnamed(Moved(@, v, l), Displaced(v, l))]
Names ==
  /\ UNCHANGED <<used, alive, base, own, view>>
  /\ \E v \in VersionIds :
       Hide(v) \/ \E l \in UserLabels : Rename(v, l) \/ PromoteRetain(v, l)

PromoteDetached(v, l) ==
  /\ v \in alive
  /\ Standalone({v})
  /\ MoveLabel(v, l)
  /\ OwnAll({v})
  /\ UNCHANGED <<used, alive, view>>

\* The versions in S go; every other version shows what it showed.
Gone(S) ==
  /\ alive' = alive \ S
  /\ view' = [v \in VersionIds |-> IF v \in S THEN [p \in Paths |-> Absent] ELSE view[v]]

Drop(v) ==
  /\ \A d \in alive : base[d] # v
  /\ UNCHANGED used
  /\ Gone({v})
  /\ branch' = [branch EXCEPT ![RootOf[v]] = Unnamed(@, {v})]
  /\ Standalone({v})
  /\ own' = [own EXCEPT ![v] = {}]

PromoteDiscard(v, l) ==
  \E t \in alive :
    /\ alive' = alive \ {t}
    /\ t \in Displaced(v, l)
    /\ \A d \in alive : base[d] = t => d = v
    /\ UNCHANGED used
    /\ Gone({t})
    /\ branch' = [branch EXCEPT ![RootOf[v]] = Unnamed(Moved(@, v, l), {t})]
    /\ Standalone({v, t})
    /\ own' = [[own EXCEPT ![v] = Visible(view[v])] EXCEPT ![t] = {}]

\* Sweeping a root keeps its named versions, each on its own.
Sweep(r) ==
  LET mine == {v \in alive : RootOf[v] = r}
      named == {branch[r][l] : l \in Labels} \ {NoVersion}
  IN  /\ Gone(mine \ named)
      /\ UNCHANGED <<used, branch>>
      /\ Standalone(mine)
      /\ own' = [v \in VersionIds |-> IF v \in named THEN Visible(view[v])
                                      ELSE IF v \in mine THEN {} ELSE own[v]]

\* Removing a root also hides its path in version v of "/".
RemoveRoot(v, r) ==
  LET mine == {w \in alive : RootOf[w] = r}
      P == IF v \in alive THEN Visible(view[v]) ELSE {}
  IN  /\ r # WorkspaceRoot /\ RootOf[v] = WorkspaceRoot
      /\ UNCHANGED used
      /\ alive' = alive \ mine
      /\ branch' = [branch EXCEPT ![r] = [l \in Labels |-> NoVersion]]
      /\ Standalone(mine)
      /\ own' = [w \in VersionIds |-> IF w \in mine THEN {}
                                      ELSE IF w = v THEN own[w] \cup P ELSE own[w]]
      /\ view' = [d \in VersionIds |-> [p \in Paths |->
           IF d \in mine \/ (p \in P /\ d \in Followers(v, p)) THEN Absent
           ELSE view[d][p]]]

Next ==
  \/ Put \/ Names
  \/ \E v \in VersionIds :
       \/ Detach(v) \/ Drop(v)
       \/ \E l \in UserLabels :
            \/ New(v, l, [p \in Paths |-> Absent])
            \/ PromoteDetached(v, l) \/ PromoteDiscard(v, l)
            \/ \E w \in VersionIds : Branch(v, w, l)
       \/ \E w \in VersionIds : NewCopy(v, w)
       \/ \E r \in VersionRoots : RemoveRoot(v, r)
  \/ \E r \in VersionRoots : Sweep(r)

Spec == Init /\ [][Next]_vars
=============================================================================
