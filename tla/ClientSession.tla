----------------------------- MODULE ClientSession -----------------------------
(***************************************************************************)
(* The life of a client Session (obsidian/client/engine.go): Start's       *)
(* reconnect loop, runConnection, Stop, NetworkChanged and its watcher,    *)
(* and the goroutine of each connection that reads the TUN device, which   *)
(* outlives its connection because only the device's owner can end a       *)
(* blocked Read.                                                           *)
(*                                                                         *)
(* What dialling, the handshake and the data goroutines do is reduced to   *)
(* whether they succeed; the UDP monitor is UdpHealth.  A goroutine parked *)
(* in a select is committed by the first event that wakes it; one that has *)
(* not reached its select picks among the cases that are ready.            *)
(***************************************************************************)
EXTENDS Integers, FiniteSets

CONSTANTS
    MaxConn,        \* bound: connections the session makes
    FailLimit,      \* UDP send errors after which copyTunToData gives up UDP
    Options         \* the configurations to consider, records of
                    \*   auto    AutoReconnect
                    \*   udp     EnableUDPData and a UDP port
                    \*   tls     dialled with DialObsidian, neither REALITY nor NoTLS
                    \*   prompt  a started goroutine reaches its select before the
                    \*           session has dialled its next connection

ASSUME SessionAssumption ==
    /\ MaxConn \in Nat \ {0} /\ FailLimit \in Nat \ {0}
    /\ Options \subseteq [auto : BOOLEAN, udp : BOOLEAN, tls : BOOLEAN, prompt : BOOLEAN]

Conns == 1 .. MaxConn

VARIABLES
    opt,         \* the session's configuration, which never changes
    stopped,     \* stopCh is closed
    done,        \* doneCh is closed
    status,
    main,        \* Start and runConnection: the program counter
    err,         \* what runConnection returns
    cur,         \* the number of the current connection, 0 before the first
    netSig,      \* a signal is buffered in netChangeCh
    netChanged,  \* netChanged
    conn,        \* per connection: "none", "open", or who closed it
    watcher,     \* per connection: the goroutine of watchNetworkChange
    told,        \* connections whose watcher has been told to stop (done closed)
    tunnelDone,  \* per connection: tunnel.Done() is closed
    reader,      \* per connection: copyTunToData ("udp" or, after giving it up,
                 \* "tcp") or copyTunToTunnel ("tcp")
    fails,       \* per connection: udpFailCount
    lost,        \* history, per connection: packets its reader took when the
                 \* connection was over
    called       \* history: connections that were open, and watched, when
                 \* NetworkChanged was called

vars == <<opt, stopped, done, status, main, err, cur, netSig, netChanged, conn, watcher, told, tunnelDone,
          reader, fails, lost, called>>
flags == <<stopped, done, status>>
loop  == <<main, err, cur>>
links == <<conn, watcher, told, tunnelDone>>
tun   == <<reader, fails, lost>>

Init ==
    /\ opt \in Options
    /\ stopped = FALSE /\ done = FALSE /\ status = "Disconnected"
    /\ main = "loop" /\ err = "none" /\ cur = 0
    /\ netSig = FALSE /\ netChanged = FALSE
    /\ conn = [i \in Conns |-> "none"]
    /\ watcher = [i \in Conns |-> "none"]
    /\ told = {}
    /\ tunnelDone = [i \in Conns |-> FALSE]
    /\ reader = [i \in Conns |-> "none"]
    /\ fails = [i \in Conns |-> 0]
    /\ lost = [i \in Conns |-> 0]
    /\ called = {}

-------------------------------------------------------------------------------
\* Stop.  A parked watcher is woken by it.
Stop ==
    /\ ~stopped
    /\ stopped' = TRUE
    /\ watcher' = [i \in Conns |-> IF watcher[i] = "parked" THEN "gone" ELSE watcher[i]]
    /\ UNCHANGED <<done, status, loop, netSig, netChanged, conn, told, tunnelDone, tun, called>>

\* NetworkChanged: handed to a parked watcher, else buffered, else coalesced.
Watched(i) == conn[i] = "open" /\ watcher[i] \in {"starting", "parked"} /\ i \notin told

NetworkChanged ==
    /\ \/ \E i \in Conns : /\ watcher[i] = "parked"
                           /\ watcher' = [watcher EXCEPT ![i] = "fired"]
                           /\ UNCHANGED netSig
       \/ /\ \A i \in Conns : watcher[i] # "parked"
          /\ netSig' = TRUE
          /\ UNCHANGED watcher
    /\ called' = called \cup {i \in Conns : Watched(i)}
    /\ UNCHANGED <<flags, loop, netChanged, conn, told, tunnelDone, tun>>

\* watchNetworkChange's goroutine reaches its select.
WatcherReady(i) == {c \in {"signal", "done", "stop"} : \/ c = "signal" /\ netSig
                                                       \/ c = "done" /\ i \in told
                                                       \/ c = "stop" /\ stopped}

WatcherStart(i) ==
    /\ watcher[i] = "starting"
    /\ IF WatcherReady(i) = {}
       THEN watcher' = [watcher EXCEPT ![i] = "parked"] /\ UNCHANGED netSig
       ELSE \E c \in WatcherReady(i) :
              /\ watcher' = [watcher EXCEPT ![i] = IF c = "signal" THEN "fired" ELSE "gone"]
              /\ netSig' = (netSig /\ c # "signal")
    /\ UNCHANGED <<flags, loop, netChanged, conn, told, tunnelDone, tun, called>>

\* It stores netChanged, then closes the connection.
WatcherStore(i) ==
    /\ watcher[i] = "fired"
    /\ netChanged' = TRUE
    /\ watcher' = [watcher EXCEPT ![i] = "stored"]
    /\ UNCHANGED <<flags, loop, netSig, conn, told, tunnelDone, tun, called>>

\* Mutant: the watcher notes the change and leaves the connection open.
WatcherCloseForgets(i) ==
    /\ watcher[i] = "stored"
    /\ watcher' = [watcher EXCEPT ![i] = "gone"]
    /\ UNCHANGED <<flags, loop, netSig, netChanged, conn, told, tunnelDone, tun, called>>

WatcherClose(i) ==
    /\ watcher[i] = "stored"
    /\ conn' = [conn EXCEPT ![i] = IF @ = "open" THEN "by watcher" ELSE @]
    /\ watcher' = [watcher EXCEPT ![i] = "gone"]
    /\ UNCHANGED <<flags, loop, netSig, netChanged, told, tunnelDone, tun, called>>

-------------------------------------------------------------------------------
\* The top of Start's loop.
LoopTop ==
    /\ main = "loop"
    /\ IF stopped THEN main' = "end" /\ UNCHANGED <<cur, status>>
       ELSE /\ cur < MaxConn
            /\ status' = IF cur = 0 THEN "Connecting" ELSE "Reconnecting"
            /\ cur' = cur + 1
            /\ main' = "drain"
    /\ UNCHANGED <<stopped, done, err, netSig, netChanged, links, tun, called>>

\* runConnection spends a signal that is already there.
Drain ==
    /\ main = "drain"
    /\ netSig' = FALSE
    /\ main' = "dial"
    /\ UNCHANGED <<flags, err, cur, netChanged, links, tun, called>>

\* The dial function returns an error, or a connection for which the watcher is set
\* up.
Refused == main' = "returned" /\ err' = "error" /\ UNCHANGED <<conn, watcher>>

Connected ==
    /\ opt.prompt => \A i \in Conns : watcher[i] # "starting"
    /\ conn' = [conn EXCEPT ![cur] = "open"]
    /\ watcher' = [watcher EXCEPT ![cur] = "starting"]
    /\ main' = "handshake"
    /\ UNCHANGED err

\* Dialling.  The TCP connect and the read of REALITY's ServerHello have timeouts.
Dial ==
    /\ main = "dial"
    /\ \/ Refused
       \/ ~opt.tls /\ Connected
       \/ opt.tls /\ main' = "tls" /\ UNCHANGED <<err, conn, watcher>>
    /\ UNCHANGED <<flags, cur, netSig, netChanged, told, tunnelDone, tun, called>>

\* The TLS handshake and the HTTP/2 preface of DialObsidian have no deadline, and
\* nothing that Stop does reaches this connection.
TlsHandshake ==
    /\ main = "tls"
    /\ Refused \/ Connected
    /\ UNCHANGED <<flags, cur, netSig, netChanged, told, tunnelDone, tun, called>>

\* The handshake, under its six second deadline: an error returns, success
\* starts the tunnel and the goroutines unless the UDP socket cannot be had.
Handshake ==
    /\ main = "handshake"
    /\ \/ main' = "return" /\ err' = "error" /\ UNCHANGED <<status, reader>>
       \/ /\ conn[cur] = "open"
          /\ status' = "Connected"
          /\ \/ /\ reader' = [reader EXCEPT ![cur] = IF opt.udp THEN "udp" ELSE "tcp"]
                /\ main' = "run"
                /\ UNCHANGED err
             \/ /\ opt.udp
                /\ main' = "return" /\ err' = "error"
                /\ UNCHANGED reader
    /\ UNCHANGED <<stopped, done, cur, netSig, netChanged, links, fails, lost, called>>

\* The peer or the network ends the connection; the tunnel's recvLoop notices a
\* closed connection.
PeerCloses ==
    /\ main \in {"handshake", "run"}
    /\ conn[cur] = "open"
    /\ conn' = [conn EXCEPT ![cur] = "by peer"]
    /\ UNCHANGED <<flags, loop, netSig, netChanged, watcher, told, tunnelDone, tun, called>>

TunnelNotices ==
    /\ main = "run"
    /\ conn[cur] # "open" /\ ~tunnelDone[cur]
    /\ tunnelDone' = [tunnelDone EXCEPT ![cur] = TRUE]
    /\ UNCHANGED <<flags, loop, netSig, netChanged, conn, watcher, told, tun, called>>

\* runConnection's last select: an error of one of the goroutines, the end of
\* the tunnel, or Stop.
GoroutineFails ==
    /\ main = "run"
    /\ main' = "return"
    /\ err' \in IF opt.udp THEN {"error", "stalled"} ELSE {"error"}
    /\ UNCHANGED <<flags, cur, netSig, netChanged, links, tun, called>>

\* Mutant: runConnection's select has no case for Stop.
RunEndsIgnoresStop ==
    /\ main = "run"
    /\ tunnelDone[cur] /\ err' = "error"
    /\ main' = "return"
    /\ UNCHANGED <<flags, cur, netSig, netChanged, links, tun, called>>

RunEnds ==
    /\ main = "run"
    /\ \/ tunnelDone[cur] /\ err' = "error"
       \/ stopped /\ err' = "nil"
    /\ main' = "return"
    /\ UNCHANGED <<flags, cur, netSig, netChanged, links, tun, called>>

\* Mutant: the connection is not closed on return.
ReturnLeavesConn ==
    /\ main = "return"
    /\ tunnelDone' = [tunnelDone EXCEPT ![cur] = TRUE]
    /\ told' = told \cup {cur}
    /\ watcher' = [watcher EXCEPT ![cur] = IF @ = "parked" THEN "gone" ELSE @]
    /\ main' = "returned"
    /\ UNCHANGED <<flags, err, cur, netSig, netChanged, conn, tun, called>>

\* The deferred calls: tunnel and connection are closed, the watcher is told.
Return ==
    /\ main = "return"
    /\ conn' = [conn EXCEPT ![cur] = IF @ = "open" THEN "by session" ELSE @]
    /\ tunnelDone' = [tunnelDone EXCEPT ![cur] = TRUE]
    /\ told' = told \cup {cur}
    /\ watcher' = [watcher EXCEPT ![cur] = IF @ = "parked" THEN "gone" ELSE @]
    /\ main' = "returned"
    /\ UNCHANGED <<flags, err, cur, netSig, netChanged, tun, called>>

\* Start looks at the error: a stopped session ends, and so does one that does
\* not reconnect.
AfterRun ==
    /\ main = "returned"
    /\ IF err # "nil" /\ stopped THEN main' = "end" /\ UNCHANGED status
       ELSE IF ~opt.auto THEN main' = "end" /\ status' = "Error"
       ELSE main' = "retry" /\ UNCHANGED status
    /\ UNCHANGED <<stopped, done, err, cur, netSig, netChanged, links, tun, called>>

\* netChanged.Swap(false) and the choice of the delay.
Retry ==
    /\ main = "retry"
    /\ main' = IF netChanged \/ err = "stalled" THEN "no delay" ELSE "delay"
    /\ netChanged' = FALSE
    /\ status' = "Reconnecting"
    /\ UNCHANGED <<stopped, done, err, cur, netSig, links, tun, called>>

Delay ==
    /\ main \in {"delay", "no delay"}
    /\ \/ stopped /\ main' = "end"
       \/ main' = "loop"
    /\ UNCHANGED <<flags, err, cur, netSig, netChanged, links, tun, called>>

\* Start's deferred calls: the status first, then doneCh.
EndStatus ==
    /\ main = "end"
    /\ status' = "Disconnected"
    /\ main' = "over"
    /\ UNCHANGED <<stopped, done, err, cur, netSig, netChanged, links, tun, called>>

EndDone ==
    /\ main = "over" /\ ~done
    /\ done' = TRUE
    /\ UNCHANGED <<stopped, status, loop, netSig, netChanged, links, tun, called>>

-------------------------------------------------------------------------------
\* Mutant: a reader never gives up UDP.
ReadForUdpForever(i) ==
    /\ reader[i] = "udp"
    /\ lost' = [lost EXCEPT ![i] = IF i \in told THEN @ + 1 ELSE @]
    /\ fails' = [fails EXCEPT ![i] = IF i \in told THEN @ + 1 ELSE @]
    /\ reader' = [reader EXCEPT ![i] = IF stopped THEN "ended" ELSE @]
    /\ UNCHANGED <<flags, loop, netSig, netChanged, links, called>>

\* A packet arrives on the TUN device and one of the blocked readers gets it.
\* SendWithBuffer fails once runConnection has closed the UDP channel: the packet
\* is offered to the tunnel, which is closed too, and the error is counted.
ReadForUdp(i) ==
    /\ reader[i] = "udp"
    /\ IF i \in told
       THEN /\ lost' = [lost EXCEPT ![i] = @ + 1]
            /\ fails' = [fails EXCEPT ![i] = @ + 1]
            /\ reader' = [reader EXCEPT ![i] = IF stopped THEN "ended"
                                               ELSE IF fails'[i] >= FailLimit THEN "tcp" ELSE @]
       ELSE /\ reader' = [reader EXCEPT ![i] = IF stopped THEN "ended" ELSE @]
            /\ UNCHANGED <<lost, fails>>
    /\ UNCHANGED <<flags, loop, netSig, netChanged, links, called>>

\* Mutant: a reader goes on after the tunnel's error.
ReadForTunnelForever(i) ==
    /\ reader[i] = "tcp"
    /\ lost' = [lost EXCEPT ![i] = IF tunnelDone[i] THEN @ + 1 ELSE @]
    /\ reader' = [reader EXCEPT ![i] = IF stopped THEN "ended" ELSE @]
    /\ UNCHANGED <<flags, loop, netSig, netChanged, links, fails, called>>

\* On a closed tunnel SendData fails and the goroutine ends.
ReadForTunnel(i) ==
    /\ reader[i] = "tcp"
    /\ IF tunnelDone[i]
       THEN /\ lost' = [lost EXCEPT ![i] = @ + 1]
            /\ reader' = [reader EXCEPT ![i] = "ended"]
       ELSE /\ reader' = [reader EXCEPT ![i] = IF stopped THEN "ended" ELSE @]
            /\ UNCHANGED lost
    /\ UNCHANGED <<flags, loop, netSig, netChanged, links, fails, called>>

ReadPacket(i) == ReadForUdp(i) \/ ReadForTunnel(i)

Watcher(i) == WatcherStart(i) \/ WatcherStore(i) \/ WatcherClose(i)

\* The steps of Start that end by themselves, and the one that needs the peer.
TimedStart == LoopTop \/ Drain \/ Dial \/ Handshake \/ RunEnds \/ Return \/ AfterRun \/ Retry
              \/ Delay \/ EndStatus \/ EndDone
Start == TimedStart \/ TlsHandshake

Next == /\ \/ Stop \/ NetworkChanged \/ PeerCloses \/ TunnelNotices \/ GoroutineFails \/ Start
           \/ \E i \in Conns : Watcher(i) \/ ReadPacket(i)
        /\ UNCHANGED opt

Spec == Init /\ [][Next]_vars

\* Goroutines run: connecting and Obsidian's handshake end within their timeouts,
\* the delay passes and a tunnel notices that its connection is closed.  Each has
\* finitely many steps, so that together they cannot keep one waiting for ever.
\* The host need not send: a reader may stay in Read for ever.  Nor need a TLS peer
\* answer: TlsHandshake may never happen.
Runs == (TimedStart \/ TunnelNotices \/ \E i \in Conns : Watcher(i)) /\ UNCHANGED opt

FairSpec == Spec /\ WF_vars(Runs)

-------------------------------------------------------------------------------
\* Flags, positions and counts are of their kinds.
TypeOK ==
    /\ opt \in Options
    /\ {stopped, done, netSig, netChanged} \subseteq BOOLEAN
    /\ status \in {"Disconnected", "Connecting", "Connected", "Reconnecting", "Error"}
    /\ main \in {"loop", "drain", "dial", "tls", "handshake", "run", "return", "returned", "retry",
                 "delay", "no delay", "end", "over"}
    /\ err \in {"none", "nil", "stalled", "error"}
    /\ cur \in 0 .. MaxConn /\ told \subseteq Conns /\ called \subseteq Conns
    /\ conn \in [Conns -> {"none", "open", "by peer", "by watcher", "by session"}]
    /\ watcher \in [Conns -> {"none", "starting", "parked", "fired", "stored", "gone"}]
    /\ tunnelDone \in [Conns -> BOOLEAN]
    /\ reader \in [Conns -> {"none", "udp", "tcp", "ended"}]
    /\ fails \in [Conns -> 0 .. FailLimit]

\* Whoever Wait releases finds the session shut: status Disconnected, every
\* connection closed; and the session never has two connections.
OverIsOver ==
    /\ done => status = "Disconnected" /\ \A i \in Conns : conn[i] # "open"
    /\ \A i \in Conns : conn[i] = "open" => i = cur

\* A reader that outlives its connection takes a bounded number of the host's
\* packets from its successor: FailLimit errors on UDP, then one on TCP.
StaleReaderBounded == \A i \in Conns : lost[i] <= IF opt.udp THEN FailLimit + 1 ELSE 1

\* Stop ends Start, and so Wait, whatever the session is doing, if no TLS handshake
\* lasts for ever: one with a silent peer is not ended by Stop (transport.go:370).
StopEnds == []<>(main # "tls") => (stopped ~> done)

\* A connection that is up when NetworkChanged is called goes down, if goroutines
\* are prompt: one that is not may take the signal for a connection already gone.
ChangeDropsConnection ==
    (opt.prompt /\ called # {}) ~> (\A i \in called : conn[i] # "open")

\* A call made before a connection exists applies to it: none is waiting in the
\* channel when runConnection empties it.
CallsApply == main = "drain" => ~netSig
===============================================================================
