------------------------------ MODULE MCAnswers ------------------------------
(* The read caches of the servers and the journey of a grid through the       *)
(* formats have no state in common: a behaviour picks one of the two and      *)
(* leaves the other as it starts.                                             *)
EXTENDS GridCache, TLC

CONSTANTS MaxVersion,
          MaxDecodeDepth, MaxTrioDepth, Instants, Zones, MaxHops

VARIABLES part,
          orig, cur, hop, hops, tzOf

cacheVars == <<version, cache, task, raced, floor>>
journeyVars == <<orig, cur, hop, hops, tzOf>>

Samples == INSTANCE MCGrids
Journey == INSTANCE Interchange WITH Grids <- Samples!AllGrids

\* One filter, without a limit, with the number 10 and with the same text.
Rows == {[filter |-> <<"site">>, limit |-> limit, id |-> None] :
           limit \in {NoLimit} \union {[text |-> <<"10">>, number |-> n] : n \in BOOLEAN}}

ASSUME AnswersAssumption == Journey!DepthAssumption

AnswersInit ==
    /\ Init /\ Journey!Init
    /\ part \in {"cache", "journey"}
    /\ part = "journey" \/ orig = Samples!InCell(Samples!Null)

AnswersNext ==
    \/ part = "cache" /\ Next /\ UNCHANGED <<part, journeyVars>>
    \/ part = "journey" /\ Journey!Next /\ UNCHANGED <<part, cacheVars>>

AnswersSpec == AnswersInit /\ [][AnswersNext]_<<part, cacheVars, journeyVars>>

\* The versions of the data behind the caches are bounded.
Bounded == version <= MaxVersion
Symmetry == Permutations(Task)

KeepsWhatItCan == Journey!KeepsWhatItCan
LossIsAtOnce == Journey!LossIsAtOnce
==============================================================================
