----------------------------- MODULE MCDatabase -----------------------------
(***************************************************************************)
(* Database for TLC: one table, one or two keys, two values.               *)
(***************************************************************************)
EXTENDS Database

CONSTANTS tab, a, b, v, w, x1, x2

MCTables == {tab}
MCKeys == {a, b}
MCVals == {v, w}

Create   == [type |-> "create", table |-> tab]
Write(k, u) == [type |-> "write", table |-> tab, key |-> k, val |-> u]
Delete(k) == [type |-> "delete", table |-> tab, key |-> k]
Batch(f) == [type |-> "batch", table |-> tab, records |-> f]
Both(u) == [k \in MCKeys |-> u]

\* Every type of operation, and a second write that conflicts with the first.
AllOps  == {Create, Write(a, v), Write(a, w), Write(b, v), Delete(a), Batch(Both(w))}
SomeOps == {Create, Write(a, v), Delete(a)}
EachOp  == {Create, Write(a, v), Delete(a), Batch(Both(w))}
FewOps  == {Create, Write(a, v)}

Imported == {[s \in MCTables |-> [EmptyTable EXCEPT ![a] = w]]}
NoImports == {}

Update == {<<tab, a>>}
\* Transactions differ in nothing but their name.
Symmetric == Permutations({x1, x2})
MCChanges == {[p \in Update |-> w], [p \in Update |-> Nil]}

=============================================================================
