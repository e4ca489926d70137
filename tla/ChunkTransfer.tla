---------------------------- MODULE ChunkTransfer ----------------------------
(***************************************************************************)
(* Chunked answers and pushes on one binary WebSocket: push_watch and      *)
(* _handle_binary_message of src/hs_py/ws_server.py send the frames of     *)
(* encode_chunked_frames with a wait between them, so that several pushes  *)
(* and one answer at a time interleave; the receive loop of                *)
(* src/hs_py/ws_client.py feeds them to a ChunkAssembler of                *)
(* src/hs_py/ws_codec.py.                                                  *)
(*                                                                         *)
(* A transfer is the number of its beginning; a frame carries its key, its *)
(* index and the total, and as payload only which transfer it is part of.  *)
(* The key is the pair of request id and op: a fresh one for every answer, *)
(* but the same for every push, (0, "watchPoll"), which is also the key of *)
(* the answer to the first request when that is a watchPoll.               *)
(***************************************************************************)
EXTENDS Integers, Sequences, FiniteSets

CONSTANTS
  Pusher,        \* tasks that push, beside the one that answers
  Key, PushKey,  \* keys of transfers
  Total,         \* numbers of chunks
  None,
  Ttl,           \* ChunkAssembler._ttl
  Period,        \* time between two calls of cleanup
  MaxWire,       \* bound: frames on the wire
  MaxTransfers   \* bound: transfers

Loop == "loop"   \* _message_loop of the connection, which answers
Sender == Pusher \union {Loop}
Transfer == 1 .. MaxTransfers

Frame == [transfer : Transfer, key : Key, idx : Nat, total : Total]
Sending == [transfer : Transfer, key : Key, total : Total, idx : Nat]

ChunkAssumption ==
  /\ PushKey \in Key /\ Total \subseteq Nat \ {0} /\ Loop \notin Pusher
  /\ None \notin Sending
  /\ MaxTransfers \in Nat /\ MaxWire \in Nat \ {0} /\ Ttl \in Nat /\ Period \in Nat

VARIABLES
  sending,    \* what each task is sending
  begun,      \* number of transfers begun
  used,       \* keys of answers
  wire,       \* frames on the way
  buffers,    \* ChunkAssembler._pending: the frames of each key in hand,
  totals,     \*   the total its buffer was made with,
  ages,       \*   and how long ago
  idle,       \* time since cleanup was called
  open,       \* the receive loop runs
  assembled,  \* frames of the payload assembled last
  delivered,  \* transfers assembled whole
  tainted     \* keys on which transfers met, or a buffer expired

vars == <<sending, begun, used, wire, buffers, totals, ages, idle, open, assembled, delivered, tainted>>
assembler == <<buffers, totals, ages, idle, open, assembled, delivered>>

TypeOK ==
  /\ sending \in [Sender -> Sending \union {None}]
  /\ \A s \in Sender : sending[s] # None => sending[s].idx < sending[s].total
  /\ begun \in 0 .. MaxTransfers
  /\ used \in SUBSET Key /\ tainted \in SUBSET Key
  /\ wire \in Seq(Frame) /\ Len(wire) <= MaxWire
  /\ \A k \in Key : buffers[k] \subseteq Frame /\ totals[k] \in Total \union {0}
  /\ ages \in [Key -> 0 .. Ttl + 1]
  /\ idle \in 0 .. Period + 1
  /\ open \in BOOLEAN
  /\ assembled \subseteq Frame
  /\ delivered \in SUBSET Transfer

Init ==
  /\ sending = [s \in Sender |-> None]
  /\ begun = 0 /\ used = {} /\ wire = <<>>
  /\ buffers = [k \in Key |-> {}] /\ totals = [k \in Key |-> 0] /\ ages = [k \in Key |-> 0]
  /\ idle = 0 /\ open = TRUE
  /\ assembled = {} /\ delivered = {} /\ tainted = {}

-----------------------------------------------------------------------------
(* The sending side                                                        *)

\* Some task still sends on k, or its frames are on the way.
UnderWay(k) == \/ \E s \in Sender : sending[s] # None /\ sending[s].key = k
               \/ \E i \in DOMAIN wire : wire[i].key = k

\* encode_chunked_frames, and the first of the sends that follow it.
Begin(s, k, total) ==
  /\ sending[s] = None /\ begun < MaxTransfers
  /\ begun' = begun + 1
  /\ sending' = [sending EXCEPT ![s] = [transfer |-> begun + 1, key |-> k, total |-> total, idx |-> 0]]
  /\ tainted' = IF UnderWay(k) THEN tainted \union {k} ELSE tainted
  /\ UNCHANGED <<wire, assembler>>

\* push_watch
BeginPush(p, total) == p \in Pusher /\ Begin(p, PushKey, total) /\ UNCHANGED used

\* _handle_binary_message: the ids of requests on a connection differ.
BeginAnswer(k, total) ==
  /\ k \notin used /\ Begin(Loop, k, total)
  /\ used' = used \union {k}

\* One frame is sent. The chunks of a transfer are numbered from 0.
IdxOf(s) == sending[s].idx

OneShort(s) == sending[s].total - 2    \* mutant: the last chunk is not made
LastIdx(s) == sending[s].total - 1

SendChunk(s) ==
  /\ sending[s] # None /\ Len(wire) < MaxWire
  /\ wire' = Append(wire, [transfer |-> sending[s].transfer, key |-> sending[s].key,
                           idx |-> IdxOf(s), total |-> sending[s].total])
  /\ sending' = [sending EXCEPT ![s] =
       IF @.idx = LastIdx(s) THEN None ELSE [@ EXCEPT !.idx = sending[s].idx + 1]]
  /\ UNCHANGED <<begun, used, assembler, tainted>>

-----------------------------------------------------------------------------
(* The receiving side                                                      *)

\* Time passes; ages are told apart up to their limits only.
Tick ==
  /\ open
  /\ idle' = IF idle <= Period THEN idle + 1 ELSE idle
  /\ ages' = [k \in Key |-> IF buffers[k] # {} /\ ages[k] <= Ttl THEN ages[k] + 1 ELSE ages[k]]
  /\ UNCHANGED <<sending, begun, used, wire, buffers, totals, open, assembled, delivered, tainted>>

\* cleanup, called before a frame is handled when Period is over.
Expired == {k \in Key : buffers[k] # {} /\ idle > Period /\ ages[k] > Ttl}

Kept(k) == IF k \in Expired THEN {} ELSE buffers[k]

\* What is in the buffer of f's key once f is in: a frame with the same index
\* is replaced, and the total is that of the frame the buffer was made for.
Buffered(f) == {g \in Kept(f.key) : g.idx # f.idx} \union {f}
BufferTotal(f) == IF Kept(f.key) = {} THEN f.total ELSE totals[f.key]

\* As many indices as chunks: the buffer is taken out, and gaps are an error.
Complete(f) == Cardinality({g.idx : g \in Buffered(f)}) = BufferTotal(f)
HasGaps(f) == {g.idx : g \in Buffered(f)} # 0 .. BufferTotal(f) - 1

BufferKept(f) == Buffered(f)           \* mutant: not taken out
BufferAfter(f) == IF Complete(f) THEN {} ELSE Buffered(f)

Feed ==
  /\ open /\ wire # <<>>
  /\ LET f == Head(wire) IN
       /\ buffers' = [k \in Key |-> IF k = f.key THEN BufferAfter(f) ELSE Kept(k)]
       /\ totals' = [k \in Key |-> IF buffers'[k] = {} THEN 0
                                  ELSE IF k = f.key THEN BufferTotal(f) ELSE totals[k]]
       /\ ages' = [k \in Key |-> IF buffers'[k] = {} \/ Kept(k) = {} THEN 0 ELSE ages[k]]
       /\ IF Complete(f) /\ HasGaps(f)
          THEN open' = FALSE /\ UNCHANGED <<assembled, delivered>>
          ELSE /\ assembled' = IF Complete(f) THEN Buffered(f) ELSE {}
               /\ delivered' = IF Complete(f) /\ (\A g \in Buffered(f) : g.transfer = f.transfer)
                               THEN delivered \union {f.transfer} ELSE delivered
               /\ UNCHANGED open
  /\ idle' = IF idle > Period THEN 0 ELSE idle
  /\ tainted' = tainted \union Expired
  /\ wire' = Tail(wire)
  /\ UNCHANGED <<sending, begun, used>>

Next ==
  \/ \E p \in Pusher, total \in Total : BeginPush(p, total)
  \/ \E k \in Key, total \in Total : BeginAnswer(k, total)
  \/ \E s \in Sender : SendChunk(s)
  \/ Tick
  \/ Feed

Spec == Init /\ [][Next]_vars

\* The tasks send on while the wire takes frames, and the receive loop reads.
Fairness == WF_vars(Feed) /\ \A s \in Sender : SF_vars(SendChunk(s))

FairSpec == Spec /\ Fairness

-----------------------------------------------------------------------------
(* Properties                                                              *)

\* A payload that is handed over consists of the chunks of one transfer, all of
\* them, whatever else was sent in between, unless two transfers met on its key
\* or a buffer of it expired, ever since the connection began: what such a
\* mixture leaves behind ends up in later payloads of the key (feed and cleanup,
\* and the awaits between the frames of push_watch and _handle_binary_message).
PayloadIsOneTransfer ==
  \A f, g \in assembled :
    \/ f.key \in tainted
    \/ f.transfer = g.transfer /\ Cardinality(assembled) = f.total

\* A transfer that was begun arrives whole, unless transfers met or a buffer
\* expired on the connection (which may end the receive loop too).
Arrives ==
  \A n \in Transfer :
    (begun = n) ~> (n \in delivered \/ tainted # {})

=============================================================================
