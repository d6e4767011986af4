------------------------------ MODULE MCTreeOps ------------------------------
EXTENDS TreeOps, TLC
CONSTANTS a, b, x

\* The ancestors show the directory /a, the file /a/b and the link /b to /a.
Ancestors == [p \in UNION {[1..n -> {a, b}] : n \in 0..2} |->
  CASE p = <<a>> -> [type |-> "directory", data |-> <<>>, mode |-> "0755"]
    [] p = <<a, b>> -> [type |-> "file", data |-> <<>>, mode |-> "0644"]
    [] p = <<b>> -> [type |-> "symlink", data |-> <<a>>, mode |-> "0777"]
    [] OTHER -> Absent]
LinkTargets == {<<b>>}
InstanceHidings == {[paths |-> h, mounts |-> m] : h \in {{}, Under(<<a>>)}, m \in BOOLEAN}
                   \cup {[paths |-> {<<a, b>>}, mounts |-> FALSE]}

\* Two versions that descend from the same ancestors: one wrote /a/b and made
\* the directory /b/a in place of the link, one removed /a and changed "/".
At(rows) == [p \in Paths |-> IF p \in DOMAIN rows THEN rows[p] ELSE Ancestors[p]]
Fork(rows) == [view |-> At(rows), base |-> At(<<>> :> Directory("0755")), ancestor |-> FALSE]
Built == Fork(<<>> :> Directory("0755") @@ <<a, b>> :> File(<<x>>, "0644")
              @@ <<b>> :> Directory("0755") @@ <<b, a>> :> File(<<x>>, "0644"))
Cleared == Fork(<<>> :> Directory("0700") @@ <<a>> :> Absent @@ <<a, b>> :> Absent)
Grown == Fork(<<>> :> Directory("0755") @@ <<a, a>> :> Directory("0755"))
MergeSources == {Built, Cleared, Grown, [Built EXCEPT !.base = [p \in Paths |-> Absent]]}
MergeSelections == {[filters |-> {}, scope |-> Root], [filters |-> {<<a>>}, scope |-> Root],
                    [filters |-> {<<b, a>>}, scope |-> <<b>>]}
=============================================================================
