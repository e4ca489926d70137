------------------------------- MODULE MCPushes -------------------------------
(* The deltas of a watch, the chunks they travel in and the client that        *)
(* reconnects have no state in common: a behaviour picks one of the three and  *)
(* leaves the others as they start.  Nothing that fairness asks of the client  *)
(* or of a transfer is possible before start() is called or a transfer begins, *)
(* while a server may always push: its fairness is that of its part.           *)
EXTENDS WatchDelta, TLC

CONSTANTS v1, v2, Client, Callback, MinDelay, MaxDelay,
          Pusher, Key, PushKey, Total, Ttl, Period, MaxWire, MaxTransfers

VARIABLES part,
          pc, client, delay, inner, connected, stopping, registered, callbacks,
          receiving, starter, stopper, raised,
          sending, begun, used, wire, buffers, totals, ages, idle, open, assembled,
          delivered, tainted

clientVars == <<pc, client, delay, inner, connected, stopping, registered, callbacks,
                receiving, starter, stopper, raised>>
chunkVars == <<sending, begun, used, wire, buffers, totals, ages, idle, open, assembled,
               delivered, tainted>>
allVars == <<part, vars, clientVars, chunkVars>>

Reconnecting == INSTANCE ReconnectingClient
Chunks == INSTANCE ChunkTransfer

ASSUME PushesAssumption == Reconnecting!ClientAssumption /\ Chunks!ChunkAssumption

GreaterThan == {v2}                \* the filter "t1 > v1"

PushesInit ==
  Init /\ Reconnecting!Init /\ Chunks!Init /\ part \in {"deltas", "client", "chunks"}

OfDeltas(A) == part = "deltas" /\ A /\ UNCHANGED <<part, clientVars, chunkVars>>

PushesNext ==
  \/ OfDeltas(Next)
  \/ part = "client" /\ Reconnecting!Next /\ UNCHANGED <<part, vars, chunkVars>>
  \/ part = "chunks" /\ Chunks!Next /\ UNCHANGED <<part, vars, clientVars>>

PushesSpec ==
  /\ PushesInit /\ [][PushesNext]_allVars
  /\ WF_allVars(OfDeltas(Push)) /\ WF_allVars(OfDeltas(FinishPush)) /\ WF_allVars(OfDeltas(Receive))
  /\ <>[][~Reconnect]_vars
  /\ Reconnecting!Fairness /\ Chunks!Fairness

OneReceiver == Reconnecting!OneReceiver
StopEndsAll == Reconnecting!StopEndsAll
StopReturns == Reconnecting!StopReturns
Reconnects == Reconnecting!Reconnects
Arrives == Chunks!Arrives
==============================================================================
