-------------------------- MODULE StoreRefinement --------------------------
(***************************************************************************)
(* VersionStore implements OverlayTree: what the rows of the four tables   *)
(* mean, as the state of the abstract specification.                       *)
(***************************************************************************)
EXTENDS VersionStore

\* Ids handed out, and versions that exist: those with a row.
UsedIds == {v \in VersionIds : Allocated(v)}
Alive == {v \in VersionIds : HasRow(v)}

\* A label names the active version that carries it.
Branches ==
  [r \in VersionRoots |-> [l \in Labels |->
     IF LiveHolders(r, l) = {} THEN NoVersion
     ELSE CHOOSE v \in LiveHolders(r, l) : TRUE]]

\* A version owns the paths it has rows for, tombstones included, and shows what
\* the nearest-ancestor query finds.
Owned == [v \in VersionIds |-> {p \in Paths : HasRow(v) /\ entries[v][p] # Absent}]
Views == [v \in VersionIds |-> View(v)]

Meaning == INSTANCE OverlayTree WITH
  used <- UsedIds, alive <- Alive, branch <- Branches, base <- parent,
  own <- Owned, view <- Views

\* VersionStore implements OverlayTree: the nearest-ancestor query over the
\* closure table shows every version the overlay the README promises, and
\* detach, promote, deletes and sweeps change no surviving version's tree.
ImplementsOverlay == Meaning!Spec
=============================================================================
