-------------------------- MODULE MCWatchPollClient --------------------------
(* Symmetry for WatchPollClient. *)
EXTENDS WatchPollClient, TLC

Symmetry ==
  Permutations(Entity) \union Permutations(Tag) \union Permutations(WatchId)

=============================================================================
