----------------------------- MODULE RoutedSession -----------------------------
(***************************************************************************)
(* The downlink queue of one client, routedSession of                      *)
(* cmd/server/tun_router.go: a lane for latency-sensitive packets (prio)   *)
(* and a bulk lane (out), filled by enqueue without ever blocking, emptied *)
(* by the writeLoop goroutine in batches.  Producers are the goroutines    *)
(* that call enqueue: the TUN reader and the relays that answer IPv6       *)
(* packets (clientSink).  Every channel operation is one step; a receive   *)
(* and the send that follows it are one step, since sending touches        *)
(* neither lane.  A packet is its pooled buffer, its class is chosen when  *)
(* it is built; the age check of sendOne only decides between sending and  *)
(* dropping, both of which end the packet's turn.                          *)
(***************************************************************************)
EXTENDS Integers, Sequences, FiniteSets

CONSTANTS Buffers,    \* the buffers of routedPacketPool
          Producers,  \* goroutines calling enqueue
          NoBuf,
          PrioCap,    \* routedPrioQueueSize
          OutCap,     \* routedSessionQueueSize
          BatchCap,   \* size of writeLoop's batch
          PrioBurst   \* routedPrioBurst

ASSUME SizesAssumption ==
    /\ {PrioCap, OutCap, BatchCap, PrioBurst} \subseteq Nat \ {0}
    /\ IsFiniteSet(Buffers) /\ NoBuf \notin Buffers

VARIABLES free,       \* buffers in the pool
          hand,       \* per producer: the packet it is enqueueing
          prio, out,  \* the two channels
          batch,      \* bulk packets sendBulk has taken and not yet sent
          prioRun,    \* latency-sensitive sends since the last bulk send
          done,       \* s.done is closed
          pc,         \* where writeLoop is
          prioAhead,  \* history: latency sends while a bulk packet waits
          bulkAhead   \* history: bulk sends while a latency packet waits

vars == <<free, hand, prio, out, batch, prioRun, done, pc, prioAhead, bulkAhead>>

lanes == <<prio, out, batch>>
turns == <<prioAhead, bulkAhead>>

Hands == [at : {"idle", "prio", "out"}, buf : Buffers \cup {NoBuf}]
Empty == [at |-> "idle", buf |-> NoBuf]

Init ==
    /\ free = Buffers
    /\ hand = [p \in Producers |-> Empty]
    /\ prio = <<>> /\ out = <<>> /\ batch = <<>>
    /\ prioRun = 0
    /\ done = FALSE
    /\ pc = "loop"
    /\ prioAhead = 0 /\ bulkAhead = 0

\* The producer takes a buffer from the pool and fills it; isLatencySensitive
\* decides which lane enqueue tries first.
GetPacket(p, b, at) ==
    /\ hand[p] = Empty
    /\ free' = free \ {b}
    /\ hand' = [hand EXCEPT ![p] = [at |-> at, buf |-> b]]
    /\ UNCHANGED <<lanes, prioRun, done, pc, turns>>

\* enqueue, first select: the latency lane, or on to the bulk lane when full.
TryPrio(p) ==
    /\ hand[p].at = "prio"
    /\ IF Len(prio) < PrioCap
       THEN /\ prio' = Append(prio, hand[p].buf)
            /\ hand' = [hand EXCEPT ![p] = Empty]
       ELSE /\ hand' = [hand EXCEPT ![p] = [at |-> "out", buf |-> hand[p].buf]]
            /\ UNCHANGED prio
    /\ UNCHANGED <<free, out, batch, prioRun, done, pc, turns>>

\* Mutant: enqueue returns the buffer also when it queued the packet.
TryOutFreesQueued(p) ==
    /\ hand[p].at = "out"
    /\ hand' = [hand EXCEPT ![p] = Empty]
    /\ out' = IF Len(out) < OutCap THEN Append(out, hand[p].buf) ELSE out
    /\ free' = free \cup {hand[p].buf}
    /\ UNCHANGED <<prio, batch, prioRun, done, pc, turns>>

\* enqueue, second select: into the bulk lane when it has room.  With done
\* closed as well select may pick either; otherwise the packet is dropped and
\* the caller returns its buffer.
TryOut(p) ==
    /\ hand[p].at = "out"
    /\ hand' = [hand EXCEPT ![p] = Empty]
    /\ \/ /\ Len(out) < OutCap
          /\ out' = Append(out, hand[p].buf)
          /\ UNCHANGED free
       \/ /\ Len(out) = OutCap \/ done
          /\ free' = free \cup {hand[p].buf}
          /\ UNCHANGED out
    /\ UNCHANGED <<prio, batch, prioRun, done, pc, turns>>

\* Close closes done.
Close ==
    /\ ~done
    /\ done' = TRUE
    /\ UNCHANGED <<free, hand, lanes, prioRun, pc, turns>>

-------------------------------------------------------------------------------
BulkWaiting == out # <<>> \/ batch # <<>>

\* Mutant: a latency send is not counted.
SendPrioUncounted ==
    /\ prio # <<>>
    /\ prio' = Tail(prio)
    /\ free' = free \cup {Head(prio)}
    /\ prioAhead' = IF ~BulkWaiting THEN 0
                    ELSE IF prioAhead > PrioBurst THEN prioAhead ELSE prioAhead + 1
    /\ bulkAhead' = 0
    /\ UNCHANGED prioRun

\* Receive the oldest latency packet, count it and send it (or drop it stale);
\* its buffer goes back to the pool.  prioRun is only compared with PrioBurst.
SendPrio ==
    /\ prio # <<>>
    /\ prio' = Tail(prio)
    /\ free' = free \cup {Head(prio)}
    /\ prioRun' = IF prioRun < PrioBurst THEN prioRun + 1 ELSE prioRun
    /\ prioAhead' = IF BulkWaiting THEN prioAhead + 1 ELSE 0
    /\ bulkAhead' = 0

FirstOfBatch ==
    /\ out # <<>>
    /\ batch' = <<Head(out)>>
    /\ out' = Tail(out)
    /\ pc' = "take"

\* writeLoop's bulk turn: after PrioBurst latency sends a waiting bulk packet
\* is taken first; if there is none the loop goes on to its select.
BulkTurn ==
    /\ pc = "loop"
    /\ prioRun >= PrioBurst
    /\ \/ FirstOfBatch
       \/ out = <<>> /\ pc' = "select" /\ UNCHANGED <<out, batch>>
    /\ UNCHANGED <<free, hand, prio, prioRun, done, turns>>

AtSelect == pc = "select" \/ (pc = "loop" /\ prioRun < PrioBurst)

SelectPrio ==
    /\ AtSelect
    /\ SendPrio
    /\ pc' = "loop"
    /\ UNCHANGED <<hand, out, batch, done>>

SelectOut ==
    /\ AtSelect
    /\ FirstOfBatch
    /\ UNCHANGED <<free, hand, prio, prioRun, done, turns>>

\* Mutant: writeLoop leaves only once its lanes are empty.
SelectDoneWhenEmpty ==
    /\ AtSelect
    /\ done /\ prio = <<>> /\ out = <<>>
    /\ pc' = "drain prio"
    /\ UNCHANGED <<free, hand, lanes, prioRun, done, turns>>

SelectDone ==
    /\ AtSelect
    /\ done
    /\ pc' = "drain prio"
    /\ UNCHANGED <<free, hand, lanes, prioRun, done, turns>>

\* takeQueued: bulk packets already waiting join the batch.
TakeQueued ==
    /\ pc = "take"
    /\ IF Len(batch) < BatchCap /\ out # <<>>
       THEN /\ batch' = Append(batch, Head(out))
            /\ out' = Tail(out)
            /\ UNCHANGED pc
       ELSE pc' = "bulk" /\ UNCHANGED <<out, batch>>
    /\ UNCHANGED <<free, hand, prio, prioRun, done, turns>>

\* sendPrioWaiting before each bulk packet: latency packets go first, but no
\* more than PrioBurst in a row.
SendPrioWaiting ==
    /\ pc = "bulk"
    /\ IF prioRun < PrioBurst /\ prio # <<>>
       THEN SendPrio /\ UNCHANGED pc
       ELSE pc' = "bulk send" /\ UNCHANGED <<free, prio, prioRun, turns>>
    /\ UNCHANGED <<hand, out, batch, done>>

BulkSend ==
    /\ pc = "bulk send"
    /\ batch' = Tail(batch)
    /\ free' = free \cup {Head(batch)}
    /\ prioRun' = 0
    /\ pc' = IF Tail(batch) = <<>> THEN "loop" ELSE "bulk"
    /\ prioAhead' = 0
    /\ bulkAhead' = IF prio # <<>> THEN bulkAhead + 1 ELSE 0
    /\ UNCHANGED <<hand, prio, out, done>>

\* drain: first one lane, then the other; then writeLoop returns.
DrainPrio ==
    /\ pc = "drain prio"
    /\ free' = free \cup {prio[i] : i \in DOMAIN prio}
    /\ prio' = <<>>
    /\ pc' = "drain out"
    /\ UNCHANGED <<hand, out, batch, prioRun, done, turns>>

DrainOut ==
    /\ pc = "drain out"
    /\ free' = free \cup {out[i] : i \in DOMAIN out}
    /\ out' = <<>>
    /\ pc' = "exited"
    /\ UNCHANGED <<hand, prio, batch, prioRun, done, turns>>

WriteLoop == \/ BulkTurn \/ SelectPrio \/ SelectOut \/ SelectDone \/ TakeQueued
             \/ SendPrioWaiting \/ BulkSend \/ DrainPrio \/ DrainOut

Next ==
    \/ \E p \in Producers : \/ \E b \in free, at \in {"prio", "out"} : GetPacket(p, b, at)
                            \/ TryPrio(p) \/ TryOut(p)
    \/ Close
    \/ WriteLoop

Spec == Init /\ [][Next]_vars

\* The writeLoop goroutine runs while it can.  Go's select picks among ready
\* cases at random, so done, once closed, is not passed over forever.
FairSpec == Spec /\ WF_vars(WriteLoop) /\ SF_vars(SelectDone)

-------------------------------------------------------------------------------
Places == [free  |-> free,
           hand  |-> {hand[p].buf : p \in {q \in Producers : hand[q] # Empty}},
           prio  |-> {prio[i] : i \in DOMAIN prio},
           out   |-> {out[i] : i \in DOMAIN out},
           batch |-> {batch[i] : i \in DOMAIN batch}]

\* The lanes respect the channels' capacities and hold pool buffers.
TypeOK ==
    /\ free \subseteq Buffers
    /\ hand \in [Producers -> Hands]
    /\ prio \in Seq(Buffers) /\ Len(prio) <= PrioCap
    /\ out \in Seq(Buffers) /\ Len(out) <= OutCap
    /\ batch \in Seq(Buffers) /\ Len(batch) <= BatchCap
    /\ prioRun \in 0 .. PrioBurst
    /\ done \in BOOLEAN
    /\ pc \in {"loop", "select", "take", "bulk", "bulk send",
               "drain prio", "drain out", "exited"}
    /\ prioAhead \in Nat /\ bulkAhead \in Nat

\* A buffer is in exactly one place at any time, in a lane, the batch, a
\* producer's hand or the pool: every enqueue failure, send, stale drop and
\* drain returns it once, so no packet is overwritten while still queued.
BuffersAccounted ==
    /\ UNION {Places[f] : f \in DOMAIN Places} = Buffers
    /\ Cardinality(free) + Len(prio) + Len(out) + Len(batch)
         + Cardinality({p \in Producers : hand[p] # Empty}) = Cardinality(Buffers)

\* While a bulk packet waits, at most routedPrioBurst latency-sensitive packets
\* go out before a bulk packet does, in whatever order packets arrive between
\* the bulk-turn check, the select and the batch.
BulkNotStarved == prioAhead <= PrioBurst

\* While a latency-sensitive packet waits at the head of its lane, at most one
\* bulk packet goes out first: a batch never holds it up.
PrioNotHeldUp == bulkAhead <= 1

\* After Close writeLoop ends although producers may go on filling the lanes.
LoopEnds == done ~> pc = "exited"
================================================================================
