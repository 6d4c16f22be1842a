-------------------------------- MODULE UdpMux --------------------------------
(***************************************************************************)
(* The server's side of the UDP data channel, UDPMux and UDPSession of     *)
(* obsidian/udp.go: one goroutine per listening socket (runOnConn) finds   *)
(* the session of a datagram through the most recently used session or the *)
(* tag table, authenticates it, checks it for replay, adopts its source as *)
(* the client's address and queues its payload; Send answers through the   *)
(* adopted address and socket; Close unregisters the session.              *)
(*                                                                         *)
(* Every access to an atomic pointer, to a shard of the table, to a        *)
(* channel or to the replay window is one step.  The replay window is the  *)
(* abstract AntiReplay that ReplayWindow is proved to implement, with      *)
(* counters too few to leave it.  A session stands for its 4-byte tag:     *)
(* tags are taken to be distinct.  Rekeying is modelled in UdpRekey.       *)
(***************************************************************************)
EXTENDS Integers, Sequences, FiniteSets

CONSTANTS Sessions, Listeners, Addrs, Nil,
          Main,       \* m.conn, the socket of the UDP port
          MaxCtr,     \* bound: datagrams a client sends
          MaxSend,    \* bound: datagrams a session of the server sends
          QueueCap    \* udpSessionQueueSize

ASSUME MuxAssumption ==
    /\ Nil \notin Sessions \cup Addrs \cup Listeners
    /\ Sessions \cap Listeners = {} /\ Main \in Listeners
    /\ QueueCap \in Nat \ {0} /\ MaxCtr \in Nat /\ MaxSend \in Nat

Senders == Listeners \cup Sessions  \* the echo of runOnConn, and the downlink
Ctrs    == 0 .. (MaxCtr - 1)

VARIABLES
    table,       \* SessionTable: the registered sessions
    mru,         \* mruSession
    life,        \* per session: "new", "open", then the steps of Close
    clientAddr, activeConn, sendCtr,     \* fields of UDPSession
    seen,        \* counters the replay window has accepted
    dataIn,      \* the session's receive queue
    relay,       \* udpClientToTUN of the session: "off", "running", "ended"
    net,         \* datagrams the clients have sent; any may be lost, repeated
                 \* or overtaken
    rx,          \* per listener: the datagram runOnConn is working on
    snd,         \* per sender: the Send in progress
    adopted,     \* history: counter, address and socket of accepted datagrams
    pushed,      \* history: how often a counter's payload was queued
    emitted      \* history: how often a session sealed a datagram with a counter

vars == <<table, mru, life, clientAddr, activeConn, sendCtr, seen, dataIn, relay,
          net, rx, snd, adopted, pushed, emitted>>

session == <<clientAddr, activeConn, seen>>
history == <<adopted, pushed, emitted>>

NoRx  == [pc |-> "read", sess |-> Nil, ctr |-> 0, kind |-> "junk", addr |-> Nil]
NoSnd == [pc |-> "idle", sess |-> Nil, ctr |-> 0]

Init ==
    /\ table = {} /\ mru = Nil
    /\ life = [s \in Sessions |-> "new"]
    /\ clientAddr = [s \in Sessions |-> Nil]
    /\ activeConn = [s \in Sessions |-> Nil]
    /\ sendCtr = [s \in Sessions |-> 0]
    /\ seen = [s \in Sessions |-> {}]
    /\ dataIn = [s \in Sessions |-> <<>>]
    /\ relay = [s \in Sessions |-> "off"]
    /\ net = {}
    /\ rx = [l \in Listeners |-> NoRx]
    /\ snd = [p \in Senders |-> NoSnd]
    /\ adopted = [s \in Sessions |-> {}]
    /\ pushed = [s \in Sessions |-> [c \in Ctrs |-> 0]]
    /\ emitted = [s \in Sessions |-> [c \in 0 .. (MaxSend - 1) |-> 0]]

\* A client sends its next datagram, a packet or an empty keepalive probe.
ClientSend(s, kind) ==
    /\ life[s] # "new"
    /\ LET ctr == Cardinality({d \in net : d.sess = s})
       IN  ctr < MaxCtr /\ net' = net \cup {[sess |-> s, ctr |-> ctr, kind |-> kind]}
    /\ UNCHANGED <<table, mru, life, session, sendCtr, dataIn, relay, rx, snd, history>>

\* RegisterSession: table.Set, then mruSession.Store; the caller starts the
\* relay.  A datagram cannot have the tag before the handshake has ended, so
\* nobody reads the entry between the two stores.
RegisterSession(s) ==
    /\ life[s] = "new"
    /\ life' = [life EXCEPT ![s] = "open"]
    /\ table' = table \cup {s}
    /\ mru' = s
    /\ activeConn' = [activeConn EXCEPT ![s] = Main]
    /\ relay' = [relay EXCEPT ![s] = "running"]
    /\ UNCHANGED <<clientAddr, seen, sendCtr, dataIn, net, rx, snd, history>>

\* Close, step by step: table.Delete, the MRU test, its Store(nil), close(done).
CloseDelete(s) ==
    /\ life[s] = "open"
    /\ table' = table \ {s}
    /\ life' = [life EXCEPT ![s] = "deleted"]
    /\ UNCHANGED <<mru, session, sendCtr, dataIn, relay, net, rx, snd, history>>

CloseTestMru(s) ==
    /\ life[s] = "deleted"
    /\ life' = [life EXCEPT ![s] = IF mru = s THEN "clear mru" ELSE "unregistered"]
    /\ UNCHANGED <<table, mru, session, sendCtr, dataIn, relay, net, rx, snd, history>>

CloseClearMru(s) ==
    /\ life[s] = "clear mru"
    /\ mru' = Nil
    /\ life' = [life EXCEPT ![s] = "unregistered"]
    /\ UNCHANGED <<table, session, sendCtr, dataIn, relay, net, rx, snd, history>>

CloseDone(s) ==
    /\ life[s] = "unregistered"
    /\ life' = [life EXCEPT ![s] = "done"]
    /\ UNCHANGED <<table, mru, session, sendCtr, dataIn, relay, net, rx, snd, history>>

-------------------------------------------------------------------------------
\* runOnConn reads a datagram and tries the most recently used session.  The
\* source address is whatever the client's NAT maps it to.  A datagram that
\* carries a session's tag without its keys is "junk".
Arrivals == net \cup [sess : Sessions, ctr : {0}, kind : {"junk"}]

Receive(l, d, addr) ==
    /\ rx[l].pc = "read"
    /\ rx' = [rx EXCEPT ![l] = [pc   |-> IF mru = d.sess THEN "open" ELSE "lookup",
                                sess |-> d.sess, ctr |-> d.ctr, kind |-> d.kind,
                                addr |-> addr]]
    /\ UNCHANGED <<table, mru, life, session, sendCtr, dataIn, relay, net, snd, history>>

Lookup(l) ==
    /\ rx[l].pc = "lookup"
    /\ rx' = [rx EXCEPT ![l] = IF rx[l].sess \in table
                               THEN [rx[l] EXCEPT !.pc = "store mru"] ELSE NoRx]
    /\ UNCHANGED <<table, mru, life, session, sendCtr, dataIn, relay, net, snd, history>>

StoreMru(l) ==
    /\ rx[l].pc = "store mru"
    /\ mru' = rx[l].sess
    /\ rx' = [rx EXCEPT ![l].pc = "open"]
    /\ UNCHANGED <<table, life, session, sendCtr, dataIn, relay, net, snd, history>>

\* Mutant: the replay window lets everything pass.
FreshAlways(s, ctr) == TRUE

\* Authenticated decryption, then the replay window's atomic check.
Fresh(s, ctr) == ctr \notin seen[s]

OpenAndCheck(l) ==
    LET d == rx[l]
        ok == d.kind # "junk" /\ Fresh(d.sess, d.ctr)
    IN  /\ d.pc = "open"
        /\ rx' = [rx EXCEPT ![l] = IF ok THEN [d EXCEPT !.pc = "addr"] ELSE NoRx]
        /\ seen' = IF ok THEN [seen EXCEPT ![d.sess] = @ \cup {d.ctr}] ELSE seen
        /\ adopted' = IF ok THEN [adopted EXCEPT ![d.sess] = @ \cup {<<d.ctr, d.addr, l>>}]
                      ELSE adopted
        /\ UNCHANGED <<table, mru, life, clientAddr, activeConn, sendCtr, dataIn, relay,
                       net, snd, pushed, emitted>>

\* The roaming update: two independent atomic stores.
StoreAddr(l) ==
    /\ rx[l].pc = "addr"
    /\ clientAddr' = [clientAddr EXCEPT ![rx[l].sess] = rx[l].addr]
    /\ rx' = [rx EXCEPT ![l].pc = "conn"]
    /\ UNCHANGED <<table, mru, life, activeConn, seen, sendCtr, dataIn, relay, net, snd,
                   history>>

StoreConn(l) ==
    /\ rx[l].pc = "conn"
    /\ activeConn' = [activeConn EXCEPT ![rx[l].sess] = l]
    /\ rx' = [rx EXCEPT ![l].pc = IF rx[l].kind = "probe" THEN "echo" ELSE "push"]
    /\ UNCHANGED <<table, mru, life, clientAddr, seen, sendCtr, dataIn, relay, net, snd,
                   history>>

\* The payload is queued without blocking, or dropped.
Push(l) ==
    LET s == rx[l].sess
    IN  /\ rx[l].pc = "push"
        /\ IF Len(dataIn[s]) < QueueCap
           THEN /\ dataIn' = [dataIn EXCEPT ![s] = Append(@, rx[l].ctr)]
                /\ pushed' = [pushed EXCEPT ![s][rx[l].ctr] = @ + 1]
           ELSE UNCHANGED <<dataIn, pushed>>
        /\ rx' = [rx EXCEPT ![l] = NoRx]
        /\ UNCHANGED <<table, mru, life, session, sendCtr, relay, net, snd, adopted, emitted>>

-------------------------------------------------------------------------------
\* Send, first part: a closed session or an unknown client address ends it.
SendBegin(p, s) ==
    LET ok == life[s] # "done" /\ clientAddr[s] # Nil
    IN  snd' = [snd EXCEPT ![p] = IF ok THEN [pc |-> "ctr", sess |-> s, ctr |-> 0]
                                  ELSE NoSnd]

\* The echo of a probe: runOnConn calls Send and reads on once it returns.
Echo(l) ==
    /\ rx[l].pc = "echo"
    /\ SendBegin(l, rx[l].sess)
    /\ rx' = [rx EXCEPT ![l] = IF snd'[l] = NoSnd THEN NoRx
                               ELSE [rx[l] EXCEPT !.pc = "echoing"]]
    /\ UNCHANGED <<table, mru, life, session, sendCtr, dataIn, relay, net, history>>

\* The routed session's writeLoop sends a downlink packet.
Downlink(s) ==
    /\ life[s] # "new"
    /\ snd[s].pc = "idle"
    /\ SendBegin(s, s)
    /\ UNCHANGED <<table, mru, life, session, sendCtr, dataIn, relay, net, rx, history>>

\* Mutant: the counter is read but not advanced.
TakeCtrLoads(p) ==
    /\ snd[p].pc = "ctr"
    /\ sendCtr[snd[p].sess] < MaxSend
    /\ snd' = [snd EXCEPT ![p] = [@ EXCEPT !.pc = "write", !.ctr = sendCtr[snd[p].sess]]]
    /\ UNCHANGED <<table, mru, life, session, sendCtr, dataIn, relay, net, rx, history>>

\* sendCtr.Add(1) - 1: the datagram's nonce.
TakeCtr(p) ==
    /\ snd[p].pc = "ctr"
    /\ sendCtr[snd[p].sess] < MaxSend
    /\ snd' = [snd EXCEPT ![p] = [@ EXCEPT !.pc = "write", !.ctr = sendCtr[snd[p].sess]]]
    /\ sendCtr' = [sendCtr EXCEPT ![snd[p].sess] = @ + 1]
    /\ UNCHANGED <<table, mru, life, session, dataIn, relay, net, rx, history>>

\* The datagram is sealed and leaves through the socket adopted last.
WriteOut(p) ==
    LET s == snd[p].sess
    IN  /\ snd[p].pc = "write"
        /\ emitted' = [emitted EXCEPT ![s][snd[p].ctr] = @ + 1]
        /\ snd' = [snd EXCEPT ![p] = NoSnd]
        /\ rx' = IF p \in Listeners THEN [rx EXCEPT ![p] = NoRx] ELSE rx
        /\ UNCHANGED <<table, mru, life, session, sendCtr, dataIn, relay, net, adopted, pushed>>

\* udpClientToTUN: RecvBatch takes a payload, or sees done (select may pick
\* either when both are ready).
RelayTake(s) ==
    /\ relay[s] = "running"
    /\ dataIn[s] # <<>>
    /\ dataIn' = [dataIn EXCEPT ![s] = Tail(@)]
    /\ UNCHANGED <<table, mru, life, session, sendCtr, relay, net, rx, snd, history>>

RelayEnd(s) ==
    /\ relay[s] = "running"
    /\ life[s] = "done"
    /\ relay' = [relay EXCEPT ![s] = "ended"]
    /\ UNCHANGED <<table, mru, life, session, sendCtr, dataIn, net, rx, snd, history>>

Close(s) == CloseDelete(s) \/ CloseTestMru(s) \/ CloseClearMru(s) \/ CloseDone(s)

RunOnConn(l) == \/ \E d \in Arrivals, addr \in Addrs : Receive(l, d, addr)
                \/ Lookup(l) \/ StoreMru(l) \/ OpenAndCheck(l)
                \/ StoreAddr(l) \/ StoreConn(l) \/ Push(l) \/ Echo(l)

Next ==
    \/ \E s \in Sessions : \/ \E kind \in {"data", "probe"} : ClientSend(s, kind)
                           \/ RegisterSession(s) \/ Close(s) \/ Downlink(s)
                           \/ RelayTake(s) \/ RelayEnd(s)
    \/ \E l \in Listeners : RunOnConn(l)
    \/ \E p \in Senders : TakeCtr(p) \/ WriteOut(p)

Spec == Init /\ [][Next]_vars

-------------------------------------------------------------------------------
\* The mux, its sessions and its goroutines are in states of their kinds.
TypeOK ==
    /\ table \subseteq Sessions
    /\ mru \in Sessions \cup {Nil}
    /\ life \in [Sessions -> {"new", "open", "deleted", "clear mru", "unregistered", "done"}]
    /\ clientAddr \in [Sessions -> Addrs \cup {Nil}]
    /\ activeConn \in [Sessions -> Listeners \cup {Nil}]
    /\ sendCtr \in [Sessions -> Nat]
    /\ seen \in [Sessions -> SUBSET Ctrs]
    /\ \A s \in Sessions : Len(dataIn[s]) <= QueueCap
    /\ relay \in [Sessions -> {"off", "running", "ended"}]
    /\ \A l \in Listeners :
         /\ rx[l].pc \in {"read", "lookup", "store mru", "open", "addr", "conn", "push",
                          "echo", "echoing"}
         /\ rx[l].pc # "read" => rx[l].sess \in Sessions
    /\ \A p \in Senders : snd[p].pc \in {"idle", "ctr", "write"}

\* A counter's payload is queued for the TUN at most once, although copies of
\* the datagram may be processed by two listeners at the same time.
DeliveredOnce == \A s \in Sessions, c \in Ctrs : pushed[s][c] <= 1

\* The client's address and the socket that answers it are ones an authenticated
\* datagram used, and each datagram moves them at most once: a late copy with
\* another source does not.
AddressAuthentic ==
    \A s \in Sessions :
        /\ clientAddr[s] # Nil => \E t \in adopted[s] : t[2] = clientAddr[s]
        /\ activeConn[s] \notin {Nil, Main} => \E t \in adopted[s] : t[3] = activeConn[s]
        /\ \A t, u \in adopted[s] : t[1] = u[1] => t = u

\* No counter, which is the AEAD nonce, is used twice under a session's key,
\* although echoes of several listeners and the downlink send concurrently.
NonceUnique ==
    \A s \in Sessions : \A c \in DOMAIN emitted[s] : emitted[s][c] <= 1
===============================================================================
