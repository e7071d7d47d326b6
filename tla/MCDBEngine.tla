---------------------------- MODULE MCDBEngine ----------------------------
(* Small instances of the storage engine. *)
EXTENDS DBEngine, TLC

CONSTANTS free, taken, w1, w2, w3

TwoWorkers == {w1, w2}
ThreeWorkers == {w1, w2, w3}
Symmetry == Permutations(Workers)
Values == {free, taken}

Whose(v) == {r \in Record : r.val = v}
Ask(o, t, k, m, r) == [op |-> o, type |-> t, key |-> k, match |-> m, rec |-> r]
Rec(i, v) == [id |-> i, val |-> v]

\* Every operation, with the claim of a free table that the guests make.
AllOps(t, keys) ==
  {Ask("insert", t, 0, {}, Rec(0, free)),
   Ask("find", t, 0, Whose(taken), Rec(0, free)),
   Ask("find_and_update", t, 0, Whose(free), Rec(0, taken))}
  \cup {Ask("update", t, k, {}, Rec(k, free)) : k \in keys}
  \cup {Ask(o, t, k, {}, Rec(0, free)) : o \in {"delete", "read"}, k \in keys}

Tables == {"tables"}
OneType == AllOps("tables", Slots)

\* What the three threads contend for: a slot, its record and its entry.
InsertOne == Ask("insert", "tables", 0, {}, Rec(0, free))
ClaimOne == Ask("find_and_update", "tables", 0, Whose(free), Rec(0, taken))
DeleteOf(k) == Ask("delete", "tables", k, {}, Rec(0, free))
ReadOf(k) == Ask("read", "tables", k, {}, Rec(0, free))
Claims == {InsertOne, ClaimOne, DeleteOf(0), ReadOf(0)}
=============================================================================
