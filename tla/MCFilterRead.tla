----------------------------- MODULE MCFilterRead -----------------------------
(* The stores, loads and filters of MCFilters for FilterRead.                  *)
EXTENDS Integers, Sequences, FiniteSets, TLC

CONSTANTS Entity, Reader, NoLimit, Failure, MaxCache, MaxScan, MaxFt, MaxLoads, Dialect
VARIABLES adapter, past, cache, read

TextOrder == {<<"A", "B">>}
Samples == INSTANCE MCFilters
INSTANCE FilterRead WITH Stores <- Samples!Stores, Batches <- Samples!Batches,
                         Queries <- Samples!Queries
==============================================================================
