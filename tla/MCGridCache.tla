----------------------------- MODULE MCGridCache -----------------------------
(* Bounds and symmetry of GridCache for TLC.                               *)
EXTENDS GridCache, TLC

CONSTANT MaxVersion

\* Two ids, each in a row that has no more.
IdRows == {[filter |-> Absent, limit |-> NoLimit, id |-> id] : id \in {"i1", "i2"}}

Bounded == version <= MaxVersion
Symmetry == Permutations(Task)
=============================================================================
