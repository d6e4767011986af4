------------------------------- MODULE Merge -------------------------------
(***************************************************************************)
(* merge, cherryPick and revert: what they decide from the views of the    *)
(* two versions and, for merge, of their lowest common ancestor. A view    *)
(* gives the row shown at each path, Absent where nothing is.              *)
(***************************************************************************)
EXTENDS Tree

\* paths matches a path and all below it; pathScope is what was fetched.
Selected(filters, scope) ==
  {p \in Under(scope) : filters = {} \/ \E f \in filters : p \in Under(f)}
Fetched(view, scope) == [p \in Paths |-> IF p \in Under(scope) THEN view[p] ELSE Absent]

IsDirectory(view, p) == view[p] # Absent /\ view[p].type = "directory"

\* Mutant: what the source removed is left alone.
PlanWritesOnly(theirs, taken) == [p \in {q \in taken : theirs[q] # Absent} |-> theirs[p]]

\* What is to be written: a row for each path taken, a tombstone where the
\* source shows nothing.
Plan(theirs, taken) == [p \in taken |-> IF theirs[p] = Absent THEN Tombstone ELSE theirs[p]]
Post(ours, plan) ==
  [p \in Paths |-> IF p \notin DOMAIN plan THEN ours[p]
                   ELSE IF plan[p] = Tombstone THEN Absent ELSE plan[p]]

\* The directories above a file or link to be written that the destination
\* will not show, up to the nearest path it will.
Above(p) == Prefixes(p) \ {p}
Landing(plan) == {p \in DOMAIN plan : plan[p].type \in {"file", "symlink"}}
MissingAbove(post, p) ==
  {q \in Above(p) : \A r \in Above(p) : IsPrefix(q, r) => post[r] = Absent}
Missing(post, plan) == UNION {MissingAbove(post, p) : p \in Landing(plan)}

\* A landing is refused under something that is no directory, or when the
\* source has no directory to put there; parents[q] is what it would put.
Refuses(post, plan, parents) ==
  \/ \E p \in Landing(plan) : \E q \in Above(p) \ MissingAbove(post, p) :
       /\ post[q] # Absent /\ post[q].type # "directory"
       /\ \A r \in Above(p) : IsStrictPrefix(q, r) => r \in MissingAbove(post, p)
  \/ \E q \in Missing(post, plan) : q = Root \/ ~IsDirectory(parents, q)

\* Mutant: only what was taken.
WithoutParents(post, plan, parents) == plan

WithParents(post, plan, parents) ==
  [p \in DOMAIN plan \cup Missing(post, plan) |->
     IF p \in DOMAIN plan THEN plan[p] ELSE parents[p]]

\* The count of nodes after the writes may not exceed maxFiles.
Grows(ours, plan) ==
  LET added == {p \in DOMAIN plan : ours[p] = Absent /\ plan[p] # Tombstone}
      removed == {p \in DOMAIN plan : ours[p] # Absent /\ plan[p] = Tombstone}
  IN [added |-> Cardinality(added), removed |-> Cardinality(removed)]
Exceeds(count, growth, limit) == count + growth.added > limit + growth.removed

\* MergeResult, and the rows it writes.
Result(status, writes, conflicts, skipped) ==
  [status |-> status, writes |-> writes, applied |-> DOMAIN writes,
   conflicts |-> conflicts, skipped |-> skipped]
NoWrites == [p \in {} |-> Absent]
Refusal == Result("refused", NoWrites, {}, {})

Apply(ours, plan, parents, count, limit, conflicts, skipped) ==
  LET post == Post(ours, plan)
      writes == WithParents(post, plan, parents)
  IN IF \/ Refuses(post, plan, parents)
        \/ writes # NoWrites /\ Exceeds(count, Grows(ours, writes), limit)
     THEN Refusal
     ELSE Result("ok", writes, conflicts, skipped)

-----------------------------------------------------------------------------
\* merge classifies each path of the three views.
ShownIn(views) == {p \in Paths : \E v \in views : v[p] # Absent}
Disagree(ours, theirs) == {p \in Paths : ours[p] # theirs[p]}
\* Mutant: whatever differs from the source.
Differing(ours, theirs, base) == Disagree(ours, theirs)

OnlyTheirs(ours, theirs, base) == {p \in Disagree(ours, theirs) : base[p] = ours[p]}
Conflicting(ours, theirs, base) ==
  {p \in Disagree(ours, theirs) : base[p] \notin {ours[p], theirs[p]}}

\* First of the three that shows something, directory or not.
MergeParents(ours, theirs, base) ==
  [p \in Paths |-> IF theirs[p] # Absent THEN theirs[p]
                   ELSE IF ours[p] # Absent THEN ours[p] ELSE base[p]]

\* The source is an ancestor when the common ancestor is the source itself.
MergeOf(allOurs, allTheirs, allBase, ancestor, strategy, filters, scope, limit) ==
  LET ours == Fetched(allOurs, scope)
      theirs == Fetched(allTheirs, scope)
      base == Fetched(allBase, scope)
      candidates == Selected(filters, scope) \cap ShownIn({ours, theirs, base})
      conflicts == candidates \cap Conflicting(ours, theirs, base)
      taken == candidates \cap (OnlyTheirs(ours, theirs, base)
                                \cup IF strategy = "theirs" THEN conflicts ELSE {})
  IN IF ancestor THEN Result("ok", NoWrites, {}, {})
     ELSE IF scope # Root /\ ~IsDirectory(ours, scope) THEN Refusal
     ELSE IF strategy = "fail" /\ conflicts # {} THEN Result("ok", NoWrites, conflicts, {})
     ELSE Apply(ours, Plan(theirs, taken), MergeParents(ours, theirs, base),
                Cardinality(ShownIn({allOurs})), limit, conflicts, candidates \ taken)

\* First of the two that shows a directory.
SourceParents(ours, theirs) ==
  [p \in Paths |-> IF IsDirectory(theirs, p) THEN theirs[p]
                   ELSE IF IsDirectory(ours, p) THEN ours[p] ELSE Absent]

\* cherryPick and revert: the source wins wherever the two differ.
SourceWins(allOurs, allTheirs, filters, scope, limit) ==
  LET ours == Fetched(allOurs, scope)
      theirs == Fetched(allTheirs, scope)
      candidates == Selected(filters, scope) \cap ShownIn({ours, theirs})
      taken == candidates \cap Disagree(ours, theirs)
  IN Apply(ours, Plan(theirs, taken), SourceParents(ours, theirs),
           Cardinality(ShownIn({allOurs})), limit, {}, candidates \ taken)

CherryPickOf(ours, theirs, filters, limit) == SourceWins(ours, theirs, filters, Root, limit)
RevertOf(ours, theirs, filters, scope, limit) == SourceWins(ours, theirs, filters, scope, limit)

\* Mutant: DELETE of the row instead of a tombstone.
MergedDeleting(own, result) ==
  [p \in Paths |-> IF p \notin DOMAIN result.writes THEN own[p]
                   ELSE IF result.writes[p] = Tombstone THEN Absent ELSE result.writes[p]]

\* writeEntryShapes
Merged(own, result) ==
  [p \in Paths |-> IF p \in DOMAIN result.writes THEN result.writes[p] ELSE own[p]]
=============================================================================
