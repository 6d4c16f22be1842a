-------------------------------- MODULE Tunnel --------------------------------
(***************************************************************************)
(* The two ends of a TCP tunnel (Tunnel of obsidian/obfuscation.go and     *)
(* StreamFramer of obsidian/protocol.go) over one connection.  At each end *)
(* SendData callers and the noise and keepalive loops write frames under   *)
(* sendMu, recvLoop parses frames and queues their payloads, a consumer    *)
(* takes them with RecvDataInto, and the owner closes the tunnel when Done *)
(* tells it to.                                                            *)
(*                                                                         *)
(* A frame carries the counter of its masked length and of its nonce,      *)
(* which move together; it parses when the receiver's counter is the same. *)
(* A write may fail, with part of the frame already sent, when the         *)
(* connection is closed or its timeout expires.  PacketClose, which no     *)
(* code sends, is left out.                                                *)
(***************************************************************************)
EXTENDS Integers, Sequences, FiniteSets

CONSTANTS
    MaxSent,      \* bound: frames of each end
    QueueCap,     \* tunnelDataQueueSize
    CheckEvery,   \* sessionExpired looks at every 1024th packet
    MaxPackets    \* MaxSessionPackets

ASSUME TunnelAssumption ==
    /\ QueueCap \in Nat \ {0} /\ CheckEvery \in Nat \ {0} /\ MaxPackets \in Nat
    /\ MaxSent \in [{"A", "B"} -> Nat]

Ends == {"A", "B"}
Peer(e) == IF e = "A" THEN "B" ELSE "A"
Writers == {"data", "noise"}  \* noiseLoop stands for keepaliveLoop also

VARIABLES
    ctx,      \* per end: the tunnel's context is cancelled
    closed,   \* per end: conn.Close has been called
    count,    \* per end: packetCount
    sent,     \* per end and writer: packets begun
    writer,   \* per end and writer: "idle", "framed" (holding sendMu) or "ended"
    encCtr,   \* per end: the framer's counter
    decCtr,
    wire,     \* per end: frames it has written and the peer has not read
    recv,     \* per end: recvLoop
    inHand,   \* per end: the packet recvLoop has parsed
    dataIn,   \* per end: the queue
    dataInClosed,
    owner,    \* per end: the progress of Close
    got,      \* history, per end: payloads the consumer was given
    drained,  \* history, per end: payloads drainDataIn threw away
    broken,   \* history, per end: a write of a frame has failed
    rejected  \* history, per end: recvLoop failed to parse a frame

vars == <<ctx, closed, count, sent, writer, encCtr, decCtr, wire, recv, inHand, dataIn,
          dataInClosed, owner, got, drained, broken, rejected>>
sending   == <<sent, writer, encCtr, broken>>
receiving == <<decCtr, recv, inHand, dataInClosed, rejected>>

None == [kind |-> "none", n |-> 0]

Init ==
    /\ ctx = [e \in Ends |-> FALSE]
    /\ closed = [e \in Ends |-> FALSE]
    /\ count = [e \in Ends |-> 0]
    /\ sent = [e \in Ends |-> [w \in Writers |-> 0]]
    /\ writer = [e \in Ends |-> [w \in Writers |-> "idle"]]
    /\ encCtr = [e \in Ends |-> 0]
    /\ decCtr = [e \in Ends |-> 0]
    /\ wire = [e \in Ends |-> <<>>]
    /\ recv = [e \in Ends |-> "count"]
    /\ inHand = [e \in Ends |-> None]
    /\ dataIn = [e \in Ends |-> <<>>]
    /\ dataInClosed = [e \in Ends |-> FALSE]
    /\ owner = [e \in Ends |-> "using"]
    /\ got = [e \in Ends |-> <<>>]
    /\ drained = [e \in Ends |-> <<>>]
    /\ broken = [e \in Ends |-> FALSE]
    /\ rejected = [e \in Ends |-> FALSE]

-------------------------------------------------------------------------------
\* Mutant: the packet limit must be hit exactly.
ExpiredExactly(n) == IF n % CheckEvery # 0 THEN {FALSE}
                     ELSE IF MaxPackets > 0 /\ n = MaxPackets THEN {TRUE} ELSE BOOLEAN

\* sessionExpired, on the value packetCount.Add(1) returned.  That a session's
\* time is up is a choice, made when the count is looked at.
Expired(n) == IF n % CheckEvery # 0 THEN {FALSE}
              ELSE IF MaxPackets > 0 /\ n >= MaxPackets THEN {TRUE} ELSE BOOLEAN

\* An error ends a loop; SendData may be called again.
AfterError(w) == IF w = "data" THEN "idle" ELSE "ended"

\* Mutant: writers do not take sendMu.
NoLock(e) == TRUE

\* sendMu is free.
Unlocked(e) == \A w \in Writers : writer[e][w] # "framed"

\* writePacket up to the frame: sendMu is taken, the packet counted, an expired
\* session cancelled.  Nothing looks at the context or at an earlier failure.
WriteBegin(e, w) ==
    /\ writer[e][w] = "idle" /\ Unlocked(e)
    /\ sent[e]["data"] + sent[e]["noise"] < MaxSent[e]
    /\ count' = [count EXCEPT ![e] = @ + 1]
    /\ \E expired \in Expired(count[e] + 1) :
         IF expired
         THEN /\ ctx' = [ctx EXCEPT ![e] = TRUE]
              /\ writer' = [writer EXCEPT ![e][w] = AfterError(w)]
              /\ UNCHANGED <<sent, encCtr>>
         ELSE /\ sent' = [sent EXCEPT ![e][w] = @ + 1]
              /\ encCtr' = [encCtr EXCEPT ![e] = @ + 1]
              /\ writer' = [writer EXCEPT ![e][w] = "framed"]
              /\ UNCHANGED ctx
    /\ UNCHANGED <<closed, wire, receiving, dataIn, owner, got, drained, broken>>

Frame(e, w) == [kind |-> w, n |-> sent[e][w], ctr |-> encCtr[e] - 1]

\* The write of the whole frame succeeds, and sendMu is released.
WriteFrame(e, w) ==
    /\ writer[e][w] = "framed"
    /\ ~closed[e] /\ ~closed[Peer(e)]
    /\ wire' = [wire EXCEPT ![e] = Append(@, Frame(e, w))]
    /\ writer' = [writer EXCEPT ![e][w] = "idle"]
    /\ UNCHANGED <<ctx, closed, count, sent, encCtr, receiving, dataIn, owner, got, drained,
                   broken>>

\* The write fails, possibly after part of the frame has left.
WriteFails(e, w) ==
    /\ writer[e][w] = "framed"
    /\ \/ UNCHANGED wire
       \/ /\ ~closed[e]
          /\ wire' = [wire EXCEPT ![e] = Append(@, [Frame(e, w) EXCEPT !.kind = "part"])]
    /\ broken' = [broken EXCEPT ![e] = TRUE]
    /\ ctx' = [ctx EXCEPT ![e] = TRUE]
    /\ writer' = [writer EXCEPT ![e][w] = AfterError(w)]
    /\ UNCHANGED <<closed, count, sent, encCtr, receiving, dataIn, owner, got, drained>>

LoopSeesDone(e, w) ==
    /\ writer[e][w] = "idle" /\ ctx[e] /\ w # "data"
    /\ writer' = [writer EXCEPT ![e][w] = "ended"]
    /\ UNCHANGED <<ctx, closed, count, sent, encCtr, wire, receiving, dataIn, owner, got, drained,
                   broken>>

-------------------------------------------------------------------------------
\* recvLoop counts a packet before it reads one.
RecvCount(e) ==
    /\ recv[e] = "count"
    /\ count' = [count EXCEPT ![e] = @ + 1]
    /\ \E expired \in Expired(count[e] + 1) :
         recv' = [recv EXCEPT ![e] = IF expired THEN "closing" ELSE "read"]
    /\ UNCHANGED <<ctx, closed, sending, decCtr, wire, inHand, dataIn, dataInClosed, owner, got,
                   drained, rejected>>

\* A frame can be read; part of one is completed by the bytes that follow it.
Readable(e) ==
    LET w == wire[Peer(e)] IN w # <<>> /\ (Head(w).kind = "part" => Len(w) > 1)

\* Mutant: the counter is not part of what is authenticated.
ParsesAny(e, f) == f.kind # "part"

\* The length unmasks and the frame authenticates under the next counter.
Parses(e, f) == f.kind # "part" /\ f.ctr = decCtr[e]

\* It reads and parses a frame.  A part with what follows it does not parse, nor
\* does a frame that is not the next one.
RecvFrame(e) ==
    LET p == Peer(e)
        f == Head(wire[p])
        ok == Parses(e, f)
    IN  /\ recv[e] = "read" /\ ~closed[e] /\ Readable(e)
        /\ wire' = [wire EXCEPT ![p] = Tail(@)]
        /\ decCtr' = [decCtr EXCEPT ![e] = @ + 1]
        /\ rejected' = [rejected EXCEPT ![e] = @ \/ ~ok]
        /\ inHand' = [inHand EXCEPT ![e] = IF ok /\ f.kind = "data"
                                           THEN [kind |-> "data", n |-> f.n] ELSE None]
        /\ recv' = [recv EXCEPT ![e] = IF ~ok THEN "closing"
                                       ELSE IF f.kind = "data" THEN "push" ELSE "count"]
        /\ UNCHANGED <<ctx, closed, count, sending, dataIn, dataInClosed, owner, got, drained>>

\* The read fails: the connection was closed here, or by the peer and is drained.
RecvEof(e) ==
    /\ recv[e] = "read"
    /\ closed[e] \/ (closed[Peer(e)] /\ ~Readable(e))
    /\ recv' = [recv EXCEPT ![e] = "closing"]
    /\ UNCHANGED <<ctx, closed, count, sending, decCtr, wire, inHand, dataIn, dataInClosed, owner,
                   got, drained, rejected>>

\* Mutant: recvLoop waits for room in the queue whatever the context does.
RecvPushBlocks(e) ==
    /\ recv[e] = "push"
    /\ Len(dataIn[e]) < QueueCap
    /\ dataIn' = [dataIn EXCEPT ![e] = Append(@, inHand[e].n)]
    /\ recv' = [recv EXCEPT ![e] = "count"]
    /\ inHand' = [inHand EXCEPT ![e] = None]
    /\ UNCHANGED <<ctx, closed, count, sending, decCtr, wire, dataInClosed, owner, got, drained,
                   rejected>>

\* The payload is queued; recvLoop blocks on a full queue until the context ends.
RecvPush(e) ==
    /\ recv[e] = "push"
    /\ \/ /\ Len(dataIn[e]) < QueueCap
          /\ dataIn' = [dataIn EXCEPT ![e] = Append(@, inHand[e].n)]
          /\ recv' = [recv EXCEPT ![e] = "count"]
       \/ /\ ctx[e]
          /\ recv' = [recv EXCEPT ![e] = "closing"]
          /\ UNCHANGED dataIn
    /\ inHand' = [inHand EXCEPT ![e] = None]
    /\ UNCHANGED <<ctx, closed, count, sending, decCtr, wire, dataInClosed, owner, got, drained,
                   rejected>>

\* The deferred calls: close(dataIn), cancel, wg.Done.
RecvReturns(e) ==
    /\ recv[e] = "closing"
    /\ dataInClosed' = [dataInClosed EXCEPT ![e] = TRUE]
    /\ ctx' = [ctx EXCEPT ![e] = TRUE]
    /\ recv' = [recv EXCEPT ![e] = "ended"]
    /\ UNCHANGED <<closed, count, sending, decCtr, wire, inHand, dataIn, owner, got, drained,
                   rejected>>

-------------------------------------------------------------------------------
\* RecvDataInto hands a payload to the consumer.  At the end of the context its
\* select may still prefer the queue, also while drainDataIn empties it, or tell the
\* consumer that the tunnel is over although payloads are queued.
Consume(e) ==
    /\ dataIn[e] # <<>>
    /\ dataIn' = [dataIn EXCEPT ![e] = Tail(@)]
    /\ got' = [got EXCEPT ![e] = Append(@, Head(dataIn[e]))]
    /\ UNCHANGED <<ctx, closed, count, sending, wire, receiving, owner, drained>>

ConsumeBeforeDone(e) == ~ctx[e] /\ Consume(e)

\* The owner closes the tunnel, when Done or the consumer's EOF tells it to or for
\* reasons of its own: cancel, conn.Close, wg.Wait, drainDataIn.
CloseCancel(e) ==
    /\ owner[e] = "using"
    /\ ctx' = [ctx EXCEPT ![e] = TRUE]
    /\ owner' = [owner EXCEPT ![e] = "cancelled"]
    /\ UNCHANGED <<closed, count, sending, wire, receiving, dataIn, got, drained>>

CloseAfterDone(e) == ctx[e] /\ CloseCancel(e)

CloseConn(e) ==
    /\ owner[e] = "cancelled"
    /\ closed' = [closed EXCEPT ![e] = TRUE]
    /\ owner' = [owner EXCEPT ![e] = "waiting"]
    /\ UNCHANGED <<ctx, count, sending, wire, receiving, dataIn, got, drained>>

CloseWait(e) ==
    /\ owner[e] = "waiting"
    /\ recv[e] = "ended" /\ writer[e]["noise"] = "ended"
    /\ owner' = [owner EXCEPT ![e] = "draining"]
    /\ UNCHANGED <<ctx, closed, count, sending, wire, receiving, dataIn, got, drained>>

\* drainDataIn takes one payload after the other until it finds the queue empty.
CloseDrain(e) ==
    /\ owner[e] = "draining"
    /\ \/ /\ dataIn[e] # <<>>
          /\ dataIn' = [dataIn EXCEPT ![e] = Tail(@)]
          /\ drained' = [drained EXCEPT ![e] = Append(@, Head(dataIn[e]))]
          /\ UNCHANGED owner
       \/ /\ dataIn[e] = <<>>
          /\ owner' = [owner EXCEPT ![e] = "closed"]
          /\ UNCHANGED <<dataIn, drained>>
    /\ UNCHANGED <<ctx, closed, count, sending, wire, receiving, got>>

WritePacket(e, w) == WriteBegin(e, w) \/ WriteFrame(e, w) \/ WriteFails(e, w)
RecvLoop(e) == RecvCount(e) \/ RecvFrame(e) \/ RecvEof(e) \/ RecvPush(e) \/ RecvReturns(e)
Close(e) == CloseConn(e) \/ CloseWait(e) \/ CloseDrain(e)

Next == \E e \in Ends :
          \/ \E w \in Writers : WritePacket(e, w) \/ LoopSeesDone(e, w)
          \/ RecvLoop(e) \/ Consume(e) \/ CloseCancel(e) \/ Close(e)

Spec == Init /\ [][Next]_vars

\* What a goroutine does by itself: a write ends (by its timeout at the latest), the
\* loops and recvLoop run, the consumer (tunnelToTUN and its like) takes packets
\* until the context is done, the owner reacts to Done and Close goes on.
Runs(e) == \/ \E w \in Writers : WriteFrame(e, w) \/ WriteFails(e, w) \/ LoopSeesDone(e, w)
           \/ RecvLoop(e) \/ ConsumeBeforeDone(e) \/ CloseAfterDone(e) \/ Close(e)

\* The goroutines do not all stop while one can go on.  Each takes finitely many
\* steps here, so nothing more is needed; nobody need send.
FairSpec == Spec /\ WF_vars(\E e \in Ends : Runs(e))

-------------------------------------------------------------------------------
\* Flags, counters and positions are of their kinds; sendMu has one holder.
TypeOK ==
    /\ {ctx, closed, dataInClosed, broken, rejected} \subseteq [Ends -> BOOLEAN]
    /\ count \in [Ends -> Nat] /\ encCtr \in [Ends -> Nat] /\ decCtr \in [Ends -> Nat]
    /\ recv \in [Ends -> {"count", "read", "push", "closing", "ended"}]
    /\ owner \in [Ends -> {"using", "cancelled", "waiting", "draining", "closed"}]
    /\ \A e \in Ends : /\ Len(dataIn[e]) <= QueueCap
                       /\ Cardinality({w \in Writers : writer[e][w] = "framed"}) <= 1

\* Payload n has left the queue of end e.
Took(e, n) == \/ \E i \in DOMAIN got[e] : got[e][i] = n
              \/ \E i \in DOMAIN drained[e] : drained[e][i] = n

\* The consumer gets the peer's payloads in the order of its SendData calls, none
\* twice.  One before a payload that it got can only be missing because the drain of
\* the consumer's own Close took it, and that drain begins when recvLoop has ended:
\* until then what the consumer has is an initial part of what the peer sent.
InOrder ==
    \A e \in Ends :
        /\ \A i, j \in DOMAIN got[e] : i < j => got[e][i] < got[e][j]
        /\ \A i \in DOMAIN got[e] : \A n \in 1 .. got[e][i] : Took(e, n)
        /\ drained[e] # <<>> => owner[e] \in {"draining", "closed"} /\ recv[e] = "ended"

\* recvLoop fails to parse a frame only after a write of the peer failed: the two
\* framers' counters never part, whatever order the writers come in.
CountersInStep == \A e \in Ends : rejected[e] => broken[Peer(e)]

\* A session that has counted MaxPackets, rounded up to a look, is cancelled or
\* recvLoop is about to cancel it: no concurrent increment skips the look.
LimitHit(n) == MaxPackets > 0 /\ \E m \in MaxPackets .. n : m % CheckEvery = 0
ExpiryNotMissed == \A e \in Ends : LimitHit(count[e]) => ctx[e] \/ recv[e] = "closing"

\* Close returns at both ends once either tunnel is cancelled, though the queue may
\* be full with its consumer gone and a writer may be in the middle of a frame.
BothEndsClose == (\E e \in Ends : ctx[e]) ~> (\A e \in Ends : owner[e] = "closed")
===============================================================================
