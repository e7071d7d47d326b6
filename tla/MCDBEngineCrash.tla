-------------------------- MODULE MCDBEngineCrash --------------------------
(* Small instances of the storage engine with kills and restarts. *)
EXTENDS DBEngineCrash, TLC

CONSTANTS free, taken, w1, w2

TwoWorkers == {w1, w2}
Symmetry == Permutations(Workers)
Values == {free, taken}

Whose(v) == {r \in Record : r.val = v}
Ask(o, k, m, r) == [op |-> o, type |-> "tables", key |-> k, match |-> m, rec |-> r]
Rec(i, v) == [id |-> i, val |-> v]

Insert == Ask("insert", 0, {}, Rec(0, free))
DeleteOf(k) == Ask("delete", k, {}, Rec(0, free))

InsertsAndDeletes == {Insert, DeleteOf(0), DeleteOf(1)}
=============================================================================
