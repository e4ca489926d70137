------------------------------- MODULE MCStores -------------------------------
(* The watches of the TimescaleDB adapter, the users, the points and the      *)
(* reads by filter of all three stores, and the namespace of defs have no     *)
(* state in common: a behaviour picks one of the five and leaves the others   *)
(* as they start.                                                             *)
EXTENDS UserStore, FiniteSetsExt, TLC

CONSTANTS Entity, WatchId, None, MaxChanges,
          Point, Text, Absent, MaxHistory, MaxCalls,
          EntityId, NoLimit, Failure, MaxCache, MaxScan, MaxFt, MaxReloads, Dialect,
          MaxLibs

VARIABLES part,
          rows, parents, flag, txn, shown, unflagged, passed, untold,
          backend, secured, role, history, priority, call, calls, serial, given,
          adapter, past, answered, read,
          byName, supers, loads, compiled

timescaleVars == <<rows, parents, flag, txn, shown, unflagged, passed, untold>>
pointVars == <<backend, secured, role, history, priority, call, calls, serial, given>>
readVars == <<adapter, past, answered, read>>
defVars == <<byName, supers, loads, compiled>>
allVars == <<part, timescaleVars, pointVars, vars, readVars, defVars>>

Timescale == INSTANCE TimescaleWatch WITH Session <- Task, entities <- rows, watches <- parents,
                                          view <- shown, unmarked <- unflagged

\* Two samples of one millisecond of which no history but the memory store's can
\* hold the second; rows out of order, the last before 1970.
Sample(ts, val) == [ts |-> ts, val |-> val]
Samples == {<<Sample(0, 1), Sample(1, Text)>>, <<Sample(2, 1), Sample(-2, 1)>>}
Points == INSTANCE Service WITH store <- backend, WriteBodies <- Samples

\* The reads and the defs with what is proved of them: MCStores_proofs cites it.
TextOrder == {<<"A", "B">>}
Filters == INSTANCE MCFilters
Finding == INSTANCE FilterRead_proofs WITH Stores <- Filters!Stores, Batches <- Filters!Batches,
                                    Queries <- Filters!Queries, Entity <- EntityId,
                                    Reader <- Task, MaxLoads <- MaxReloads, cache <- answered

Ontologies == INSTANCE MCDefs
Defs == INSTANCE Ontology_proofs WITH Libs <- Ontologies!Libs, Entities <- Ontologies!Entities,
                               MaxLoads <- MaxLibs

ASSUME StoresAssumption ==
    /\ Timescale!NoneAssumption /\ Points!ServiceAssumption
    /\ Finding!ReadAssumption /\ Defs!OntologyAssumption

StoresInit ==
    /\ Timescale!Init /\ Points!Init /\ Init /\ Finding!Init /\ Defs!Init
    /\ part \in {"timescale", "points", "users", "reads", "defs"}
    /\ part = "users" \/ (store = "memory" /\ ~environment /\ users = [n \in Name |-> NoUser])
    /\ part = "points" \/ (backend = "memory" /\ ~secured)
    /\ part = "reads" \/ (adapter = "memory" /\ past = <<CHOOSE s \in Filters!Stores : TRUE>>)

\* The requests, calls, reads and libs of a behaviour are bounded: their parts may
\* stop.
StoresNext ==
    \/ /\ part = "timescale" /\ Timescale!Next
       /\ UNCHANGED <<part, pointVars, vars, readVars, defVars>>
    \/ /\ part = "points" /\ Points!Next
       /\ UNCHANGED <<part, timescaleVars, vars, readVars, defVars>>
    \/ /\ part = "users" /\ Next
       /\ UNCHANGED <<part, timescaleVars, pointVars, readVars, defVars>>
    \/ /\ part = "reads" /\ Finding!Next
       /\ UNCHANGED <<part, timescaleVars, pointVars, vars, defVars>>
    \/ /\ part = "defs" /\ Defs!Next
       /\ UNCHANGED <<part, timescaleVars, pointVars, vars, readVars>>

StoresSpec == StoresInit /\ [][StoresNext]_allVars

\* Changes, and the answers about them that get lost.
Bounded ==
    MapThenSumSet(LAMBDA e : rows[e], Entity)
      + MapThenSumSet(LAMBDA w : Cardinality(untold[w]), WatchId) <= MaxChanges
\* Points, servers and entities have the same names in the .cfg: only one of the
\* parts moves, so that one permutation stands for all three.
Symmetry == Permutations(Task) \cup Permutations(Entity)

LostOnlyBetween == Timescale!LostOnlyBetween
NoSilentEffect == Points!NoSilentEffect
LastSampleIsRead == Points!LastSampleIsRead
AnswersAsEvaluated == Finding!AnswersAsEvaluated
FitsIsSubtype == Defs!FitsIsSubtype
CompiledIsSound == Defs!CompiledIsSound
==============================================================================
