------------------------------- MODULE UdpHealth -------------------------------
(***************************************************************************)
(* The client's UDP path and its health monitor: the UDP branch of         *)
(* runConnection in obsidian/client/engine.go with DecideUDPHealth, the    *)
(* copyTunToData and copyUDPToTun goroutines, port hopping, and the socket *)
(* of UDPChannel in obsidian/udp.go.                                       *)
(*                                                                         *)
(* Time is counted in units; instants are kept as ages (units since), cut  *)
(* off above the longest delay anything is compared with.  The monitor's   *)
(* ticker is punctual and its handling of a tick takes no time, but its    *)
(* loads and stores interleave with those of copyTunToData.  Data is not   *)
(* answered by the server; an empty probe is echoed.                       *)
(***************************************************************************)
EXTENDS Integers

CONSTANTS
    TickPeriod,   \* the monitor's ticker, 2 s
    ProbeAfter,   \* UDPProbeAfter, 2.5 s
    DeadAfter,    \* UDPDeadAfter, 8 s
    FreshFor,     \* an inactive path heard from this recently is used again, 3 s
    KeepaliveTicks, \* ticks%8
    UdpFailLimit, \* consecutive send errors that end the use of UDP, 15
    MaxRtt,       \* bound: an echo arrives within this many units or never
    PathStates,   \* what the network may be: "up", "down", "noroute"
    LossRun       \* bound: probes an "up" path may lose in a row

ASSUME HealthAssumption ==
    /\ {TickPeriod, ProbeAfter, DeadAfter, FreshFor, KeepaliveTicks, UdpFailLimit}
           \subseteq Nat \ {0}
    /\ ProbeAfter < DeadAfter /\ MaxRtt \in Nat /\ MaxRtt < TickPeriod /\ LossRun \in Nat
    /\ "up" \in PathStates /\ PathStates \subseteq {"up", "down", "noroute"}

Cut   == DeadAfter + 2 * TickPeriod + 1  \* ages from here on are one
Never == -1                              \* a zero timestamp
None  == -1

VARIABLES
    pool,      \* whether a port pool is configured
    busy,      \* whether in every unit a datagram of the host leaves, or a packet goes
               \* to the tunnel because UDP is not in use; otherwise the host sends
               \* when it likes
    active,    \* udpActive
    pending,   \* udpPendingNano, as an age; None for 0
    recv,      \* lastAuthRecvNano, as an age; Never for 0
    answered,  \* lastAuthRecvNano >= udpPendingNano, within a unit also
    proto,     \* activeProto
    udpFailCount, \* send errors in a row
    hopped,    \* destAddr has been set by SetRemotePort
    phase,     \* "run", or "stalled" once ErrUDPStalled is in errCh
    tick,      \* units to the monitor's next tick
    ticks,     \* the tick counter modulo KeepaliveTicks
    mon,       \* the monitor: its position, and what it has loaded
    copy,      \* copyTunToData: its position
    path,      \* the network
    probe,     \* age of the probe whose echo is on its way, or None
    lossRun,   \* probes lost in a row while the path is up
    blind,     \* history: age of the oldest data sent since UDP was taken into use
               \* and since the last authenticated datagram, or None
    steady,    \* history: the path has been up, and the port the same, all the time
    sent,      \* what busy asks for has happened in this unit
    wentTo     \* the last Send: "none", "base" or "error"

host == <<pool, busy>>
healthVars == <<host, active, pending, recv, answered, proto, udpFailCount, hopped, phase,
                tick, ticks, mon, copy, path, probe, lossRun, blind, steady, sent, wentTo>>

Waiting == [pc |-> "wait", active |-> FALSE, recv |-> Never, answered |-> FALSE]
Older(age) == IF age = None \/ age = Cut THEN age ELSE age + 1

\* The channel has been warmed up by five probes: udpStartNano precedes them.
HealthInit ==
    /\ pool \in BOOLEAN /\ busy \in BOOLEAN
    /\ active = TRUE /\ pending = None /\ recv = Never /\ answered = FALSE /\ proto = "UDP"
    /\ udpFailCount = 0 /\ hopped = FALSE /\ phase = "run"
    /\ tick = TickPeriod /\ ticks = 0 /\ mon = Waiting /\ copy = "read"
    /\ path \in PathStates
    /\ probe = IF path = "up" THEN 0 ELSE None
    /\ lossRun = 0 /\ blind = None /\ sent = FALSE /\ wentTo = "none"
    /\ steady = (path = "up")

-------------------------------------------------------------------------------
\* writeProtected: Write to the address dialled, or WriteToUDP once destAddr is
\* set, which Go's net package refuses on a connected socket.
WriteToConnected == "error"
WriteProtected(destAddr) ==
    IF path = "noroute" THEN "error"
    ELSE IF destAddr THEN WriteToConnected ELSE "base"

\* Send(nil): an empty datagram the server echoes.
SendProbe(destAddr) ==
    /\ wentTo' = WriteProtected(destAddr)
    /\ IF wentTo' = "error" \/ probe # None THEN UNCHANGED <<probe, lossRun>>
       ELSE \/ path = "up" /\ probe' = 0 /\ lossRun' = 0
            \/ path = "up" /\ lossRun < LossRun /\ lossRun' = lossRun + 1 /\ UNCHANGED probe
            \/ path = "down" /\ UNCHANGED <<probe, lossRun>>

\* Mutant: a silent path is probed only in the last tick before its end.
DecideProbesLate(silent, everReceived, isActive) ==
    CASE ~isActive            -> "none"
      [] isActive /\ silent >= DeadAfter -> IF everReceived THEN "reconnect" ELSE "failover"
      [] isActive /\ silent >= DeadAfter - TickPeriod /\ silent < DeadAfter -> "probe"
      [] OTHER                -> "none"

\* DecideUDPHealth.
DecideUDPHealth(silent, everReceived, isActive) ==
    CASE ~isActive            -> "none"
      [] isActive /\ silent >= DeadAfter -> IF everReceived THEN "reconnect" ELSE "failover"
      [] isActive /\ silent >= ProbeAfter /\ silent < DeadAfter -> "probe"
      [] OTHER                -> "none"

\* The monitor's tick: it loads udpActive and the last authenticated arrival.
MonitorTick ==
    /\ phase = "run" /\ mon.pc = "wait" /\ tick = 0
    /\ mon' = [pc |-> "decide", active |-> active, recv |-> recv,
               answered |-> answered]
    /\ tick' = TickPeriod
    /\ ticks' = (ticks + 1) % KeepaliveTicks
    /\ UNCHANGED <<host, answered, active, pending, recv, proto, udpFailCount, hopped,
                   phase, copy, path, probe, lossRun, blind, sent, wentTo, steady>>

\* A pending send that an arrival has answered is cleared; only the monitor
\* changes a nonzero pending, so its load and its CompareAndSwap are one step.
Settled == IF mon.answered THEN None ELSE pending

\* Mutant: an inactive path is taken back when it has long been silent.
StalePath == mon.recv # Never /\ mon.recv >= FreshFor

\* An inactive path that was heard from lately.
FreshPath == mon.recv # Never /\ mon.recv < FreshFor

MonitorDecide ==
    /\ mon.pc = "decide"
    /\ LET left   == Settled
           silent == IF mon.active /\ left # None THEN left ELSE 0
           act    == DecideUDPHealth(silent, mon.recv # Never, mon.active)
           fresh  == FreshPath
       IN  \/ /\ act = "probe" /\ SendProbe(hopped)
              /\ pending' = left /\ mon' = Waiting
              /\ UNCHANGED <<active, proto, phase, blind>>
           \/ /\ act = "failover"
              /\ active' = FALSE /\ proto' = "TCP" /\ pending' = left
              /\ mon' = [Waiting EXCEPT !.pc = "clear"]
              /\ UNCHANGED <<phase, probe, lossRun, wentTo, blind>>
           \/ /\ act = "reconnect"
              /\ phase' = "stalled" /\ pending' = left /\ mon' = Waiting
              /\ UNCHANGED <<active, proto, probe, lossRun, wentTo, blind>>
           \/ /\ act = "none" /\ ~mon.active /\ SendProbe(hopped)
              /\ active' = (active \/ fresh) /\ pending' = left
              /\ mon' = IF fresh THEN [Waiting EXCEPT !.pc = "clear", !.active = TRUE]
                        ELSE Waiting
              /\ blind' = IF fresh THEN None ELSE blind
              /\ UNCHANGED <<proto, phase>>
           \/ /\ act = "none" /\ mon.active
              /\ IF ticks = 0 THEN SendProbe(hopped) ELSE UNCHANGED <<probe, lossRun, wentTo>>
              /\ pending' = left /\ mon' = Waiting
              /\ UNCHANGED <<active, proto, phase, blind>>
    /\ UNCHANGED <<host, answered, recv, udpFailCount, hopped, tick, ticks, copy, path,
                   sent, steady>>

\* udpPendingNano.Store(0) follows the store to udpActive; on the way back to
\* UDP the protocol is published last.
MonitorClear ==
    /\ mon.pc = "clear"
    /\ pending' = None
    /\ proto' = IF mon.active THEN "UDP" ELSE proto
    /\ mon' = Waiting
    /\ UNCHANGED <<host, answered, active, recv, udpFailCount, hopped, phase, tick, ticks,
                   copy, path, probe, lossRun, blind, sent, wentTo, steady>>

-------------------------------------------------------------------------------
\* copyTunToData reads a packet and loads udpActive; a packet for an inactive
\* path goes to the TCP tunnel.
CopyRead ==
    /\ phase = "run" /\ copy = "read"
    /\ copy' = IF active THEN "send" ELSE "read"
    /\ sent' = (sent \/ ~active)
    /\ UNCHANGED <<host, answered, active, pending, recv, proto, udpFailCount, hopped,
                   phase, tick, ticks, mon, path, probe, lossRun, blind, wentTo,
                   steady>>

\* SendWithBuffer succeeds; the pending mark follows.
CopySent ==
    /\ copy = "send"
    /\ wentTo' = WriteProtected(hopped) /\ wentTo' # "error"
    /\ udpFailCount' = 0
    /\ blind' = IF blind = None THEN 0 ELSE blind
    /\ copy' = "mark" /\ sent' = TRUE
    /\ UNCHANGED <<host, answered, active, pending, recv, proto, hopped, phase,
                   tick, ticks, mon, path, probe, lossRun, steady>>

\* Mutant: every send moves the mark.
CopyMarkMoves ==
    /\ copy = "mark"
    /\ pending' = 0 /\ answered' = FALSE
    /\ mon' = [mon EXCEPT !.answered = FALSE]
    /\ copy' = "read"
    /\ UNCHANGED <<host, active, recv, proto, udpFailCount, hopped, phase, tick, ticks,
                   path, probe, lossRun, blind, sent, wentTo, steady>>

CopyMark ==
    /\ copy = "mark"
    /\ IF pending = None
       THEN /\ pending' = 0 /\ answered' = FALSE
            /\ mon' = [mon EXCEPT !.answered = FALSE]
       ELSE UNCHANGED <<pending, answered, mon>>
    /\ copy' = "read"
    /\ UNCHANGED <<host, active, recv, proto, udpFailCount, hopped, phase, tick, ticks,
                   path, probe, lossRun, blind, sent, wentTo, steady>>

\* SendWithBuffer fails for good: the packet goes to the TCP tunnel and the
\* UdpFailLimit-th error in a row ends the use of UDP.
CopyFailed ==
    /\ copy = "send"
    /\ wentTo' = WriteProtected(hopped) /\ wentTo' = "error"
    /\ udpFailCount' = IF udpFailCount < UdpFailLimit THEN udpFailCount + 1 ELSE udpFailCount
    /\ IF udpFailCount + 1 >= UdpFailLimit THEN active' = FALSE /\ proto' = "TCP"
       ELSE UNCHANGED <<active, proto>>
    /\ copy' = "read"
    /\ UNCHANGED <<host, answered, pending, recv, hopped, phase, tick, ticks, mon,
                   path, probe, lossRun, blind, sent, steady>>

\* A temporary error (full buffers) drops the packet and counts as nothing.
CopyDropped ==
    /\ copy = "send"
    /\ copy' = "read"
    /\ UNCHANGED <<host, answered, active, pending, recv, proto, udpFailCount, hopped,
                   phase, tick, ticks, mon, path, probe, lossRun, blind, sent,
                   wentTo, steady>>

\* Recv authenticates an echo, or downlink data, and stores the time.
Arrived ==
    /\ recv' = 0 /\ blind' = None /\ answered' = TRUE
    /\ UNCHANGED <<host, active, pending, proto, udpFailCount, hopped, phase, tick, ticks,
                   mon, copy, path, lossRun, sent, wentTo, steady>>

EchoArrives == phase = "run" /\ probe # None /\ path = "up" /\ probe' = None /\ Arrived
DataArrives == phase = "run" /\ recv # 0 /\ path = "up" /\ UNCHANGED probe /\ Arrived

\* The port hopper: SetRemotePort, then warmupUDPAddress.
Hop ==
    /\ phase = "run" /\ pool /\ ~hopped
    /\ hopped' = TRUE /\ steady' = FALSE
    /\ SendProbe(TRUE)
    /\ UNCHANGED <<host, answered, active, pending, recv, proto, udpFailCount, phase, tick,
                   ticks, mon, copy, path, blind, sent>>

-------------------------------------------------------------------------------
\* The network changes its state; an echo on its way is lost.
PathChanges ==
    /\ path' \in PathStates \ {path}
    /\ probe' = None /\ lossRun' = 0 /\ steady' = FALSE
    /\ UNCHANGED <<host, answered, active, pending, recv, proto, udpFailCount, hopped,
                   phase, tick, ticks, mon, copy, blind, sent, wentTo>>

\* A unit passes.
Advance ==
    /\ phase = "run" /\ mon.pc = "wait" /\ tick > 0
    /\ copy = "read" /\ (busy => sent)
    /\ probe # None => probe < MaxRtt
    /\ tick' = tick - 1
    /\ pending' = Older(pending) /\ recv' = Older(recv) /\ blind' = Older(blind)
    /\ probe' = Older(probe)
    /\ sent' = FALSE
    /\ UNCHANGED <<host, answered, active, proto, udpFailCount, hopped, phase, ticks, mon,
                   copy, path, lossRun, wentTo, steady>>

Monitor == MonitorTick \/ MonitorDecide \/ MonitorClear
CopyTunToData == CopySent \/ CopyMark \/ CopyFailed \/ CopyDropped

HealthNext == Monitor \/ CopyRead \/ CopyTunToData \/ EchoArrives \/ DataArrives \/ Hop
        \/ PathChanges \/ Advance

HealthSpec == HealthInit /\ [][HealthNext]_healthVars

\* Time passes, the goroutines run, and echoes on an up path arrive.
HealthFairSpec == /\ HealthSpec
                  /\ WF_healthVars(Monitor) /\ WF_healthVars(CopyTunToData)
                  /\ WF_healthVars(EchoArrives) /\ WF_healthVars(Advance)

-------------------------------------------------------------------------------
\* Flags, ages and positions are of their kinds.
HealthTypeOK ==
    /\ active \in BOOLEAN /\ answered \in BOOLEAN /\ hopped \in BOOLEAN /\ sent \in BOOLEAN
    /\ {pending, recv, blind, probe} \subseteq None .. Cut
    /\ proto \in {"TCP", "UDP"} /\ phase \in {"run", "stalled"}
    /\ udpFailCount \in 0 .. UdpFailLimit
    /\ tick \in 0 .. TickPeriod /\ ticks \in 0 .. (KeepaliveTicks - 1)
    /\ mon.pc \in {"wait", "decide", "clear"} /\ copy \in {"read", "send", "mark"}

\* A path that has been up since the beginning, on the port it began with, is never
\* given up: with probes at the monitor's ticks, an echo within MaxRtt and at most
\* LossRun probes lost in a row, neither failover nor reconnect is decided however
\* long the server sends nothing of its own.
NoFalseAlarm == steady => active /\ phase = "run"

\* A dead path is noticed: while datagrams leave in every unit, data goes
\* unanswered on an active UDP path for less than DeadAfter and two ticks (an
\* answer clears the mark only at a tick, and silence is judged at one).
DeadPathNoticed ==
    busy /\ phase = "run" /\ active /\ copy = "read" /\ mon.pc = "wait" /\ tick > 0
        => blind < DeadAfter + 2 * TickPeriod

\* From some time on the path is up: UDP is then in use for good, or the
\* connection was given up as stalled.  A busy host is left out because time
\* waits for it and nothing obliges it to send, and a hop because no datagram
\* leaves after one (HopReachesPool).
UdpRecovers == ~busy /\ <>[](path = "up") => <>[](active \/ phase = "stalled" \/ hopped)

\* A datagram sent after a hop leaves for a port of the pool.
HopReachesPool == hopped => wentTo # "error"
===============================================================================
