-------------------------- MODULE MCTimescaleWatch ---------------------------
(* Bounds and symmetry of TimescaleWatch for TLC.                          *)
EXTENDS TimescaleWatch, TLC

CONSTANT MaxVersion

Bounded == \A e \in Entity : entities[e] <= MaxVersion
Symmetry == Permutations(Session) \union Permutations(Entity)
=============================================================================
