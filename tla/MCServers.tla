------------------------------ MODULE MCServers -------------------------------
(* The SCRAM handshakes and tokens of one server, and the watches of the Redis *)
(* adapter that several servers work on, have no state in common: a behaviour  *)
(* picks one of the two and leaves the other as it starts.                     *)
EXTENDS ScramServer, FiniteSetsExt, TLC

CONSTANTS Entity, WatchId, Task, MaxTime, MaxFresh, MaxChanges, MaxLate

VARIABLES part,
          entities, watches, ids, dirty, drawn, told, task, view, unmarked, lost, raced, late

redisVars == <<entities, watches, ids, dirty, drawn, told, task, view, unmarked, lost, raced, late>>
allVars == <<part, vars, redisVars>>

Redis == INSTANCE RedisWatch

ASSUME ServersAssumption == Redis!NoneAssumption

ServersInit ==
  /\ Init /\ Redis!Init
  /\ part \in {"scram", "redis"}
  /\ part = "scram" \/ users = [u \in User |-> None]

ServersNext ==
  \/ part = "scram" /\ Next /\ UNCHANGED <<part, redisVars>>
  \/ part = "redis" /\ Redis!Next /\ UNCHANGED <<part, vars>>

ServersSpec == ServersInit /\ [][ServersNext]_allVars

\* The changes of a behaviour and the commands of it that go unanswered.
Bounded ==
  /\ now <= MaxTime /\ fresh <= MaxFresh /\ Cardinality(late) <= MaxLate
  /\ MapThenSumSet(LAMBDA e : entities[e], Entity) + Cardinality(late) <= MaxChanges
Symmetry == Permutations(Call) \cup Permutations(Task) \cup Permutations(Entity)

NoChangeMissed == Redis!NoChangeMissed
LeftoverOnlyByRace == Redis!LeftoverOnlyByRace
===============================================================================
