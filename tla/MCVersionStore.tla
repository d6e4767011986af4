--------------------------- MODULE MCVersionStore ---------------------------
(***************************************************************************)
(* Instances of History and StoreRefinement (and so VersionStore) for TLC. *)
(***************************************************************************)
EXTENDS History, StoreRefinement, TLC

CONSTANTS v1, v2, v3, main, dev, c1, c2, r1, r2

\* Ids of one root, or the last one of a second, nested version root.
OneRoot == [v \in VersionIds |-> r1]
LastInSecondRoot == [v \in VersionIds |-> IF v = v3 THEN r2 ELSE r1]
PrevOf == [v \in VersionIds |-> <<"prev", v>>]

\* Sound with one root: nothing but RootOf tells ids apart, nothing but
\* DefaultLabel (the label of a second root's first version) tells labels apart.
Symmetry ==
  Permutations(VersionIds) \cup Permutations(Contents) \cup Permutations(UserLabels)
SymmetryOfRoots == Permutations({v1, v2})
=============================================================================
