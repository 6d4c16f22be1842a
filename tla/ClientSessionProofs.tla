-------------------------- MODULE ClientSessionProofs --------------------------
(***************************************************************************)
(* The safety of a client session, for any number of connections, any      *)
(* limit of send errors and every configuration: Wait returns only when    *)
(* everything is shut, there is one connection at a time, and a reader     *)
(* that outlives its connection costs the next one few packets.  Then the  *)
(* UDP path within a connection, for every choice of its delays: one that  *)
(* stays up is never given up, and a dead one is noticed in time.          *)
(***************************************************************************)
EXTENDS ClientSession, UdpHealth, TLAPS

-------------------------------------------------------------------------------
\* The inductive invariant: the session's loop, and then the readers.

Before == {"drain", "dial", "tls", "handshake"}
Live   == {"handshake", "run", "return"}

LoopInv ==
    /\ cur \in 0 .. MaxConn /\ conn \in [Conns -> {"none", "open", "by peer", "by watcher", "by session"}]
    /\ main \in {"drain", "dial", "tls"} \cup Live => cur \in Conns
    /\ \A i \in Conns : conn[i] = "open" => i = cur /\ main \in Live

EndInv == (done => main = "over") /\ (main = "over" => status = "Disconnected")

\* What a reader may have cost by the time it gives up UDP, and in the end.
UdpCost(udp) == IF udp THEN FailLimit ELSE 0
Cost(udp)    == IF udp THEN FailLimit + 1 ELSE 1

ReaderAt(udp, r, f, l) ==
    /\ r \in {"none", "udp", "tcp", "ended"} /\ f \in Nat /\ l \in Nat
    /\ r = "none" => f = 0 /\ l = 0
    /\ r = "udp"  => udp /\ f < FailLimit /\ l = f
    /\ r = "tcp"  => l <= UdpCost(udp)
    /\ r = "ended" => l <= Cost(udp)

\* Each connection gets its reader once.
ReaderInv ==
    /\ DOMAIN reader = Conns /\ DOMAIN fails = Conns /\ DOMAIN lost = Conns
    /\ \A i \in Conns : ReaderAt(opt.udp, reader[i], fails[i], lost[i])
    /\ \A i \in Conns : i > cur => reader[i] = "none"
    /\ main \in Before => reader[cur] = "none"

IInv == LoopInv /\ EndInv /\ ReaderInv

LEMMA Limits == MaxConn \in Nat \ {0} /\ FailLimit \in Nat \ {0}
  BY SessionAssumption

LEMMA CurType == LoopInv => cur \in Nat /\ cur <= MaxConn
  <1>1. LoopInv => cur \in 0 .. MaxConn
    BY DEF LoopInv
  <1>2. \A x \in 0 .. MaxConn : x \in Nat /\ x <= MaxConn
    BY Limits
  <1> QED BY <1>1, <1>2

LEMMA NextConn == \A x \in Nat : x < MaxConn => x + 1 \in 0 .. MaxConn /\ x + 1 \in Conns
  BY Limits DEF Conns

LEMMA IInvInit == Init => IInv
  <1> SUFFICES ASSUME Init PROVE IInv
    OBVIOUS
  <1> USE DEF Init
  <1>1. LoopInv
    BY Limits DEF LoopInv, Live, Conns
  <1>2. ReaderInv
    BY DEF ReaderInv, ReaderAt, Before
  <1>3. EndInv
    BY Zenon DEF EndInv
  <1> QED BY <1>1, <1>2, <1>3 DEF IInv

\* Steps that leave the loop, the status and the connections as they are.
LEMMA LoopSame ==
    ASSUME LoopInv, UNCHANGED <<loop, conn>>
    PROVE  LoopInv'
  BY DEF LoopInv, loop, Live

LEMMA ReaderSame ==
    ASSUME ReaderInv, UNCHANGED <<opt, cur, tun>>, main' = main \/ main' \notin Before
    PROVE  ReaderInv'
  BY DEF ReaderInv, ReaderAt, UdpCost, Cost, tun

\* The loop of Start and runConnection.
LEMMA StartLoop ==
    ASSUME LoopInv, Start \/ GoroutineFails
    PROVE  LoopInv'
  <1> USE Limits DEF LoopInv, Live, Conns, links
  <1>1. CASE LoopTop
    <2>1. UNCHANGED conn /\ main = "loop"
      BY <1>1 DEF LoopTop
    <2>2. CASE stopped
      BY <1>1, <2>1, <2>2 DEF LoopTop
    <2>3. CASE ~stopped
      <3>1. cur < MaxConn /\ cur' = cur + 1 /\ main' = "drain"
        BY <1>1, <2>3 DEF LoopTop
      <3>2. cur' \in 0 .. MaxConn /\ cur' \in Conns
        BY <3>1, CurType, NextConn, Zenon
      <3>3. \A i \in Conns : conn[i] # "open"
        BY <2>1
      <3> QED BY <2>1, <3>1, <3>2, <3>3
    <2> QED BY <2>2, <2>3
  <1>2. CASE Drain
    BY <1>2 DEF Drain
  <1>3. CASE Dial \/ TlsHandshake
    BY <1>3 DEF Dial, TlsHandshake, Refused, Connected
  <1>4. CASE Handshake
    BY <1>4 DEF Handshake
  <1>5. CASE RunEnds \/ GoroutineFails
    BY <1>5 DEF RunEnds, GoroutineFails
  <1>6. CASE Return
    BY <1>6 DEF Return
  <1>7. CASE AfterRun
    BY <1>7 DEF AfterRun
  <1>11. CASE Retry
    BY <1>11 DEF Retry
  <1>8. CASE Delay
    BY <1>8 DEF Delay
  <1>9. CASE EndStatus
    BY <1>9 DEF EndStatus
  <1>10. CASE EndDone
    BY <1>10 DEF EndDone, loop
  <1> QED BY <1>1, <1>2, <1>3, <1>4, <1>5, <1>6, <1>7, <1>8, <1>9, <1>10, <1>11 DEF Start, TimedStart

\* Closing a connection, by its peer or by its watcher, opens none.
LEMMA CloseLoop ==
    ASSUME LoopInv, NEW i \in Conns, NEW by \in {"by peer", "by watcher"},
           conn' \in {conn, [conn EXCEPT ![i] = by]},
           UNCHANGED loop
    PROVE  LoopInv'
  BY DEF LoopInv, Live, loop

LEMMA StartReaders ==
    ASSUME LoopInv, ReaderInv, Start \/ GoroutineFails, opt' = opt
    PROVE  ReaderInv'
  <1>1. CASE LoopTop /\ ~stopped
    <2>1. cur' = cur + 1 /\ cur < MaxConn /\ main' = "drain" /\ UNCHANGED tun
      BY <1>1 DEF LoopTop
    <2>2. cur' \in Conns /\ cur' > cur /\ \A i \in Conns : i > cur' => i > cur
      BY <2>1, CurType, Limits DEF Conns
    <2>3. UNCHANGED <<reader, fails, lost>>
      BY <2>1 DEF tun
    <2> QED BY <2>1, <2>2, <2>3 DEF ReaderInv
  <1>2. CASE Drain \/ Dial \/ TlsHandshake
    <2>1. UNCHANGED <<opt, cur, tun>> /\ main \in Before
      BY <1>2 DEF Drain, Dial, TlsHandshake, Before
    <2> QED BY <2>1 DEF ReaderInv, ReaderAt, UdpCost, Cost, tun
  <1>3. CASE Handshake /\ main' = "run"
    <2>1. /\ reader' = [reader EXCEPT ![cur] = IF opt.udp THEN "udp" ELSE "tcp"]
          /\ UNCHANGED <<cur, fails, lost>> /\ cur \in Conns /\ reader[cur] = "none"
      BY <1>3 DEF Handshake, LoopInv, Live, Before, ReaderInv
    <2>2. ReaderAt(opt.udp, reader'[cur], fails'[cur], lost'[cur])
      BY <2>1, Limits DEF ReaderInv, ReaderAt, UdpCost, Cost
    <2>3. \A i \in Conns : ReaderAt(opt.udp, reader[i], fails[i], lost[i])'
      BY <2>1, <2>2 DEF ReaderInv, ReaderAt, UdpCost, Cost
    <2>4. \A i \in Conns : i > cur => reader'[i] = "none"
      <3>1. \A i \in Conns : i > cur => i # cur
        BY CurType, Limits DEF Conns
      <3> QED BY <2>1, <3>1 DEF ReaderInv
    <2>5. DOMAIN reader' = Conns
      BY <2>1 DEF ReaderInv
    <2> QED BY <1>3, <2>1, <2>3, <2>4, <2>5 DEF ReaderInv, Before
  <1>4. CASE ~(LoopTop /\ ~stopped) /\ ~Drain /\ ~Dial /\ ~TlsHandshake
           /\ ~(Handshake /\ main' = "run")
    <2>1. UNCHANGED <<opt, cur, tun>> /\ (main' = main \/ main' \notin Before)
      BY <1>4 DEF Start, TimedStart, Before, LoopTop, Handshake, RunEnds, Return, AfterRun, Retry, Delay, EndStatus,
                  EndDone, GoroutineFails, tun, loop
    <2> QED BY <2>1, ReaderSame
  <1> QED BY <1>1, <1>2, <1>3, <1>4

\* A packet costs its reader at most one more, and only once the connection is over.
LEMMA ReadCosts ==
    ASSUME LoopInv, ReaderInv, NEW i \in Conns, ReadPacket(i), opt' = opt
    PROVE  ReaderInv'
  <1>1. /\ UNCHANGED <<cur, main>> /\ DOMAIN reader' = Conns /\ DOMAIN fails' = Conns
        /\ DOMAIN lost' = Conns
        /\ \A j \in Conns \ {i} : /\ reader'[j] = reader[j] /\ fails'[j] = fails[j]
                                  /\ lost'[j] = lost[j]
    BY DEF ReadPacket, ReadForUdp, ReadForTunnel, ReaderInv, loop
  <1>2. ReaderAt(opt.udp, reader[i], fails[i], lost[i]) /\ reader[i] # "none"
    BY DEF ReaderInv, ReadPacket, ReadForUdp, ReadForTunnel
  <1>3. ReaderAt(opt.udp, reader[i], fails[i], lost[i])'
    <2> USE Limits DEF ReaderInv, ReaderAt, UdpCost, Cost
    <2>1. CASE ReadForUdp(i) /\ i \in told
      BY <1>2, <2>1 DEF ReadForUdp
    <2>2. CASE ReadForUdp(i) /\ i \notin told
      BY <1>2, <2>2 DEF ReadForUdp
    <2>3. CASE ReadForTunnel(i)
      BY <1>2, <2>3 DEF ReadForTunnel
    <2> QED BY <2>1, <2>2, <2>3 DEF ReadPacket
  <1>4. \A j \in Conns : ReaderAt(opt.udp, reader[j], fails[j], lost[j])'
    BY <1>1, <1>3 DEF ReaderInv, ReaderAt, UdpCost, Cost
  <1> QED BY <1>1, <1>2, <1>4 DEF ReaderInv, LoopInv, Live, Before

\* Only Start's deferred calls end the session.
LEMMA EndStep == EndInv /\ [Next]_vars => EndInv'
  <1> SUFFICES ASSUME EndInv, [Next]_vars PROVE EndInv'
    OBVIOUS
  <1>1. CASE EndStatus
    BY <1>1, Zenon DEF EndStatus, EndInv
  <1>2. CASE EndDone
    BY <1>2, Zenon DEF EndDone, EndInv, loop
  <1>3. CASE Start /\ ~EndStatus /\ ~EndDone
    <2>1. main # "over" /\ main' # "over" /\ done' = done
      BY <1>3 DEF Start, TimedStart, LoopTop, Drain, Dial, TlsHandshake, Refused, Connected,
                  Handshake, RunEnds, Return, AfterRun, Retry, Delay, flags
    <2> QED BY <2>1, Zenon DEF EndInv
  <1>4. CASE GoroutineFails
    <2>1. main # "over" /\ main' # "over" /\ done' = done
      BY <1>4 DEF GoroutineFails, flags
    <2> QED BY <2>1, Zenon DEF EndInv
  <1>5. CASE ~Start /\ ~GoroutineFails
    <2>1. UNCHANGED <<main, done, status>>
      BY <1>5, Zenon DEF Next, vars, Stop, NetworkChanged, PeerCloses, TunnelNotices, Watcher,
              WatcherStart, WatcherStore, WatcherClose, ReadPacket, ReadForUdp, ReadForTunnel,
              flags, loop
    <2> QED BY <2>1, Zenon DEF EndInv
  <1> QED BY <1>1, <1>2, <1>3, <1>4, <1>5

LEMMA IInvStep == IInv /\ [Next]_vars => IInv'
  <1> SUFFICES ASSUME LoopInv, ReaderInv, [Next]_vars PROVE LoopInv' /\ ReaderInv'
    BY EndStep DEF IInv
  <1>1. opt' = opt
    BY DEF Next, vars
  <1>2. CASE UNCHANGED vars
    BY <1>2, LoopSame, ReaderSame DEF vars, loop, flags, tun
  <1>3. CASE Stop
    BY <1>1, <1>3 DEF Stop, LoopInv, Live, ReaderInv, ReaderAt, UdpCost, Cost, loop, tun
  <1>4. CASE NetworkChanged \/ TunnelNotices
    BY <1>1, <1>4, LoopSame, ReaderSame DEF NetworkChanged, TunnelNotices, loop
  <1>5. CASE PeerCloses
    <2>1. cur \in Conns /\ conn' = [conn EXCEPT ![cur] = "by peer"] /\ UNCHANGED <<loop, tun>>
      BY <1>5 DEF PeerCloses, LoopInv, Live
    <2> QED BY <1>1, <2>1, CloseLoop, ReaderSame DEF loop
  <1>6. CASE Start \/ GoroutineFails
    BY <1>1, <1>6, StartLoop, StartReaders
  <1>7. ASSUME NEW i \in Conns, Watcher(i) PROVE LoopInv' /\ ReaderInv'
    <2>1. conn' \in {conn, [conn EXCEPT ![i] = "by watcher"]} /\ UNCHANGED <<loop, tun>>
      BY <1>7 DEF Watcher, WatcherStart, WatcherStore, WatcherClose, LoopInv
    <2> QED BY <1>1, <2>1, CloseLoop, ReaderSame DEF loop
  <1>8. ASSUME NEW i \in Conns, ReadPacket(i) PROVE LoopInv' /\ ReaderInv'
    <2>1. UNCHANGED <<loop, conn>>
      BY <1>8 DEF ReadPacket, ReadForUdp, ReadForTunnel, links
    <2> QED BY <1>1, <1>8, <2>1, LoopSame, ReadCosts
  <1> QED BY <1>2, <1>3, <1>4, <1>5, <1>6, <1>7, <1>8 DEF Next

LEMMA IInvAlways == Spec => []IInv
  BY IInvInit, IInvStep, PTL DEF Spec

\* Whatever Stop, network changes, watchers and failing goroutines interleave with
\* Start's loop: when Wait returns the status is Disconnected and no connection is
\* open, and at no time are two open.
THEOREM SessionShut == Spec => []OverIsOver
  <1>1. IInv => OverIsOver
    BY DEF IInv, LoopInv, EndInv, Live, OverIsOver
  <1> QED BY <1>1, IInvAlways, PTL

\* However many connections follow each other and however the readers they leave behind
\* compete for the host's packets, each takes at most FailLimit + 1 of them.
THEOREM ReadersBounded == Spec => []StaleReaderBounded
  <1>1. IInv => StaleReaderBounded
    <2> SUFFICES ASSUME ReaderInv, NEW i \in Conns
                 PROVE  lost[i] <= IF opt.udp THEN FailLimit + 1 ELSE 1
      BY DEF IInv, StaleReaderBounded
    <2>1. ReaderAt(opt.udp, reader[i], fails[i], lost[i])
      BY DEF ReaderInv
    <2> QED BY <2>1, Limits DEF ReaderAt, UdpCost, Cost
  <1> QED BY <1>1, IInvAlways, PTL

-------------------------------------------------------------------------------
\* The UDP path's health (UdpHealth).

\* Units since the monitor's last tick.
Elapsed == TickPeriod - tick

\* An age that an unanswered mark does not reach before the tick that follows n
\* lost probes.
Due(n) == ProbeAfter + (n + 1) * TickPeriod

MonitorRecord == [pc : {"wait", "decide", "clear"}, active : BOOLEAN, recv : None .. Cut,
                  answered : BOOLEAN]

\* The monitor handles a tick before time passes, and what it has loaded is at most
\* as new as what it will find: UDP may have been given up since, and an arrival
\* may have answered the mark since.
HealthShapes ==
    /\ HealthTypeOK
    /\ busy \in BOOLEAN /\ steady \in BOOLEAN /\ lossRun \in 0 .. LossRun
    /\ mon \in MonitorRecord
    /\ mon.pc # "wait" => tick = TickPeriod
    /\ mon.pc = "decide" => (active => mon.active) /\ (mon.answered => answered)
    /\ mon.pc = "clear" => (active => mon.active)

\* On a steady path UDP is in use, an echo is on its way only between two ticks,
\* and a mark stays unanswered only as long as probes are lost.
SteadyPath == steady =>
    /\ path = "up" /\ ~hopped /\ active /\ phase = "run" /\ mon.pc # "clear"
    /\ probe # None => mon.pc = "wait" /\ probe = Elapsed /\ probe <= MaxRtt
    /\ pending # None /\ ~answered /\ mon.pc = "wait" =>
           pending + tick < IF probe = None THEN Due(lossRun) ELSE Due(LossRun + 1)
    /\ pending # None /\ ~mon.answered /\ mon.pc = "decide" => pending < Due(lossRun)

\* Data that nothing has answered is about as old as the mark, or as the last tick
\* while an answered mark stands, or it will be marked by the next datagram.
BlindBound == busy /\ phase = "run" /\ active =>
    /\ mon.pc = "clear" => blind <= 0
    /\ mon.pc # "clear" /\ pending = None =>
           blind <= TickPeriod + 1 /\ (sent /\ copy # "mark" => blind <= TickPeriod)
    /\ mon.pc # "clear" /\ pending # None /\ answered =>
           blind <= IF mon.pc = "decide" /\ mon.answered THEN TickPeriod ELSE Elapsed
    /\ mon.pc # "clear" /\ pending # None /\ ~answered =>
           /\ blind <= pending + TickPeriod + 1
           /\ mon.pc = "wait" => pending + tick < DeadAfter + TickPeriod

\* The delays are positive integers, and an echo arrives before the next tick.
LEMMA Delays ==
    /\ TickPeriod \in Nat /\ TickPeriod > 0 /\ ProbeAfter \in Nat /\ ProbeAfter > 0
    /\ DeadAfter \in Nat /\ ProbeAfter < DeadAfter /\ KeepaliveTicks \in Nat
    /\ KeepaliveTicks > 0 /\ UdpFailLimit \in Nat /\ UdpFailLimit > 0
    /\ MaxRtt \in Nat /\ MaxRtt < TickPeriod /\ LossRun \in Nat
    /\ Cut \in Nat /\ Cut = DeadAfter + TickPeriod + TickPeriod + 1
BY HealthAssumption DEF Cut

\* What the proofs use of Due: every lost probe moves it by a tick.
LEMMA DueGrows ==
    /\ \A n \in Nat : /\ Due(n) \in Nat /\ Due(n + 1) = Due(n) + TickPeriod
                      /\ ProbeAfter + TickPeriod <= Due(n)
    /\ \A m, n \in Nat : m <= n => Due(m) <= Due(n)
<1> USE Delays
<1>1. ASSUME NEW n \in Nat
      PROVE  /\ Due(n) \in Nat /\ Due(n + 1) = Due(n) + TickPeriod
             /\ ProbeAfter + TickPeriod <= Due(n)
  <2>1. n * TickPeriod \in Nat
    OBVIOUS
  <2>2. (n + 1) * TickPeriod = n * TickPeriod + TickPeriod
    OBVIOUS
  <2>3. ((n + 1) + 1) * TickPeriod = (n + 1) * TickPeriod + TickPeriod
    OBVIOUS
  <2> QED BY <2>1, <2>2, <2>3 DEF Due
<1>2. ASSUME NEW m \in Nat, NEW n \in Nat, m <= n PROVE Due(m) <= Due(n)
  <2>1. PICK d \in Nat : n = m + d
    <3>1. n - m \in Nat /\ n = m + (n - m)
      BY <1>2
    <3> QED BY <3>1
  <2>2. (n + 1) * TickPeriod = (m + 1) * TickPeriod + d * TickPeriod
    BY <2>1
  <2>3. d * TickPeriod \in Nat /\ (m + 1) * TickPeriod \in Nat
    OBVIOUS
  <2> QED BY <2>2, <2>3 DEF Due
<1> QED BY <1>1, <1>2

\* A probe is sent, or lost, or another one's echo is still awaited.
LEMMA ProbeOutcome ==
    ASSUME NEW d \in BOOLEAN, HealthShapes, SendProbe(d)
    PROVE  /\ probe' \in None .. Cut /\ lossRun' \in 0 .. LossRun
           /\ path = "up" /\ ~d /\ probe = None =>
                 (probe' = 0 /\ lossRun' = 0) \/ (probe' = None /\ lossRun' = lossRun + 1)
BY Delays DEF SendProbe, HealthShapes, HealthTypeOK, WriteProtected, WriteToConnected, None

LEMMA Ages == 0 \in None .. Cut /\ None \in None .. Cut
  BY Delays DEF None

\* The monitor's record at its next position.
LEMMA MonitorRecords ==
    /\ Waiting \in MonitorRecord /\ Waiting.pc = "wait"
    /\ LET w == [Waiting EXCEPT !.pc = "clear"]
       IN  w \in MonitorRecord /\ w.pc = "clear"
    /\ LET w == [Waiting EXCEPT !.pc = "clear", !.active = TRUE]
       IN  w \in MonitorRecord /\ w.pc = "clear" /\ w.active = TRUE
  BY Ages, Zenon DEF Waiting, MonitorRecord, Never, None

LEMMA HealthBegins == HealthInit => HealthShapes /\ SteadyPath /\ BlindBound
  <1> SUFFICES ASSUME HealthInit PROVE HealthShapes /\ SteadyPath /\ BlindBound
    OBVIOUS
  <1> USE DEF HealthInit
  <1>1. HealthShapes
    <2>1. /\ TickPeriod \in 0 .. TickPeriod /\ 0 \in 0 .. (KeepaliveTicks - 1)
          /\ 0 \in 0 .. UdpFailLimit /\ 0 \in 0 .. LossRun
      BY Delays
    <2>2. {pending, recv, blind, probe} \subseteq None .. Cut
      BY Ages DEF None, Never
    <2> QED BY <2>1, <2>2, MonitorRecords, Zenon DEF HealthShapes, HealthTypeOK
  <1>2. SteadyPath
    <2>1. mon.pc = "wait" /\ pending = None /\ probe \in {0, None}
      BY DEF Waiting
    <2>2. TickPeriod - tick = 0 /\ 0 <= MaxRtt
      BY Delays
    <2> QED BY <2>1, <2>2, Zenon DEF SteadyPath, Elapsed
  <1>3. BlindBound
    BY Delays DEF BlindBound, Waiting, None
  <1> QED BY <1>1, <1>2, <1>3

LEMMA HealthStutters == UNCHANGED healthVars =>
    /\ HealthShapes => HealthShapes'
    /\ SteadyPath => SteadyPath'
    /\ BlindBound => BlindBound'
  BY DEF healthVars, host, HealthShapes, HealthTypeOK, SteadyPath, BlindBound, Elapsed, Due

\* Ages stay ages, and grow by at most one.
LEMMA OlderAge == \A age \in None .. Cut :
    /\ Older(age) \in None .. Cut /\ Older(age) <= age + 1
    /\ Older(age) = None <=> age = None
    /\ age # None /\ age < Cut => Older(age) = age + 1
  BY Delays DEF Older, None

LEMMA ShapesStep == HealthShapes /\ HealthNext => HealthShapes'
  <1> SUFFICES ASSUME HealthShapes, HealthNext PROVE HealthShapes'
    OBVIOUS
  <1> USE DEF HealthShapes, HealthTypeOK, host
  <1>1. CASE MonitorTick
    <2>1. mon' \in MonitorRecord /\ mon'.pc = "decide" /\ mon'.active = active
          /\ mon'.answered = answered
      BY <1>1 DEF MonitorTick, MonitorRecord
    <2>2. ticks' \in 0 .. (KeepaliveTicks - 1) /\ tick' \in 0 .. TickPeriod
      BY <1>1, Delays DEF MonitorTick
    <2> QED BY <1>1, <2>1, <2>2 DEF MonitorTick
  <1>2. CASE MonitorDecide
    <2>1. /\ probe' \in None .. Cut /\ lossRun' \in 0 .. LossRun
      BY <1>2, ProbeOutcome DEF MonitorDecide
    <2>2. /\ mon' \in MonitorRecord /\ mon'.pc \in {"wait", "clear"}
          /\ active' \in BOOLEAN /\ (mon'.pc = "clear" => (active' => mon'.active))
      <3>1. \/ mon' = Waiting /\ active' \in BOOLEAN
            \/ mon' = [Waiting EXCEPT !.pc = "clear"] /\ active' = FALSE
            \/ mon' = [Waiting EXCEPT !.pc = "clear", !.active = TRUE] /\ active' \in BOOLEAN
        BY <1>2, Zenon DEF MonitorDecide
      <3> QED BY <3>1, MonitorRecords, Zenon
    <2>3. pending' \in None .. Cut /\ blind' \in None .. Cut
      <3>1. blind' = blind \/ blind' = None
        BY <1>2 DEF MonitorDecide
      <3>2. pending' = Settled
        BY <1>2 DEF MonitorDecide
      <3> QED BY <3>1, <3>2, Ages DEF Settled
    <2>4. proto' \in {"TCP", "UDP"} /\ phase' \in {"run", "stalled"}
      BY <1>2 DEF MonitorDecide
    <2> QED BY <1>2, <2>1, <2>2, <2>3, <2>4 DEF MonitorDecide
  <1>3. CASE MonitorClear
    BY <1>3, Ages, MonitorRecords DEF MonitorClear
  <1>4. CASE CopyRead
    BY <1>4 DEF CopyRead
  <1>5. CASE CopySent
    <2>1. udpFailCount' \in 0 .. UdpFailLimit
      BY <1>5, Delays DEF CopySent
    <2> QED BY <1>5, <2>1, Ages DEF CopySent
  <1>6. CASE CopyMark
    <2>1. CASE pending = None
      <3>1. mon' \in MonitorRecord /\ mon'.pc = mon.pc /\ mon'.active = mon.active
            /\ mon'.answered = FALSE
        BY <1>6, <2>1, Zenon DEF CopyMark, MonitorRecord
      <3> QED BY <1>6, <2>1, <3>1, Ages, Zenon DEF CopyMark
    <2>2. CASE pending # None
      BY <1>6, <2>2 DEF CopyMark
    <2> QED BY <2>1, <2>2
  <1>7. CASE CopyFailed
    <2>1. udpFailCount' \in 0 .. UdpFailLimit
      BY <1>7, Delays DEF CopyFailed
    <2>2. active' \in BOOLEAN /\ (active' => active) /\ proto' \in {"TCP", "UDP"}
      BY <1>7, Zenon DEF CopyFailed
    <2> QED BY <1>7, <2>1, <2>2 DEF CopyFailed
  <1>8. CASE CopyDropped
    BY <1>8 DEF CopyDropped
  <1>9. CASE EchoArrives \/ DataArrives
    <2>1. {pending', recv', blind', probe'} \subseteq None .. Cut
      BY <1>9, Ages DEF EchoArrives, DataArrives, Arrived
    <2>2. answered' = TRUE /\ UNCHANGED <<host, active, proto, udpFailCount, hopped, phase,
                                        tick, ticks, mon, copy, lossRun, sent, steady>>
      BY <1>9 DEF EchoArrives, DataArrives, Arrived
    <2> QED BY <2>1, <2>2
  <1>10. CASE Hop
    <2>1. /\ probe' \in None .. Cut /\ lossRun' \in 0 .. LossRun
      BY <1>10, ProbeOutcome, Zenon DEF Hop
    <2> QED BY <1>10, <2>1, Zenon DEF Hop
  <1>11. CASE PathChanges
    <2>1. lossRun' \in 0 .. LossRun
      BY <1>11, Delays DEF PathChanges
    <2>2. probe' = None /\ steady' = FALSE
          /\ UNCHANGED <<host, answered, active, pending, recv, proto, udpFailCount, hopped,
                         phase, tick, ticks, mon, copy, blind, sent>>
      BY <1>11 DEF PathChanges
    <2>3. {pending', recv', blind', probe'} \subseteq None .. Cut
      BY <2>2, Ages
    <2>4. HealthTypeOK'
      BY <2>2, <2>3
    <2> QED BY <2>1, <2>2, <2>4, Zenon
  <1>12. CASE Advance
    <2>1. {pending', recv', blind', probe'} \subseteq None .. Cut
      BY <1>12, OlderAge DEF Advance
    <2>2. tick' \in 0 .. TickPeriod
      BY <1>12, Delays DEF Advance
    <2>3. sent' = FALSE /\ UNCHANGED <<host, answered, active, proto, udpFailCount, hopped,
                                      phase, ticks, mon, copy, lossRun, steady>>
          /\ mon.pc = "wait"
      BY <1>12 DEF Advance
    <2> QED BY <2>1, <2>2, <2>3, Zenon
  <1> QED BY <1>1, <1>2, <1>3, <1>4, <1>5, <1>6, <1>7, <1>8, <1>9, <1>10, <1>11, <1>12
          DEF HealthNext, Monitor, CopyTunToData

\* The time that a steady path takes to answer suffices: after LossRun lost probes
\* in a row the mark is younger than DeadAfter at the tick.
Tolerant == Due(LossRun) <= DeadAfter

LEMMA SteadyStep == Tolerant /\ HealthShapes /\ SteadyPath /\ HealthNext => SteadyPath'
  <1> SUFFICES ASSUME Tolerant, HealthShapes, SteadyPath, HealthNext, steady'
               PROVE  SteadyPath'
    BY DEF SteadyPath
  <1>0. CASE Hop \/ PathChanges
    BY <1>0 DEF Hop, PathChanges
  <1>1. CASE MonitorTick
    BY <1>1, Delays DEF MonitorTick, HealthShapes, HealthTypeOK, SteadyPath, Elapsed, None, Due
  <1>2. CASE MonitorDecide
    <2>1. /\ steady /\ path = "up" /\ ~hopped /\ active /\ phase = "run" /\ mon.active
          /\ probe = None /\ mon.pc = "decide" /\ tick = TickPeriod
      BY <1>2 DEF MonitorDecide, SteadyPath, HealthShapes
    <2>2. Settled # None => Settled < Due(lossRun) /\ Settled \in Nat
      BY <2>1, Delays DEF Settled, SteadyPath, HealthShapes, HealthTypeOK, None
    <2>3. lossRun \in Nat /\ lossRun <= LossRun
      BY Delays DEF HealthShapes
    <2>4. Due(lossRun) <= DeadAfter /\ Due(lossRun) \in Nat /\ Due(LossRun) \in Nat
      <3>1. Due(lossRun) <= Due(LossRun) /\ Due(lossRun) \in Nat /\ Due(LossRun) \in Nat
        BY <2>3, DueGrows, Delays
      <3> QED BY <3>1, Delays DEF Tolerant
    <2> DEFINE left == Settled
               silent == IF mon.active /\ left # None THEN left ELSE 0
               act == DecideUDPHealth(silent, mon.recv # Never, mon.active)
    <2>5. act \in {"probe", "none"} /\ (act = "none" /\ left # None => left < ProbeAfter)
      BY <2>1, <2>2, <2>4, Delays DEF DecideUDPHealth
    <2>6. /\ UNCHANGED <<active, phase, path, hopped, tick, steady>> /\ mon' = Waiting
          /\ pending' = Settled
      BY <1>2, <2>1, <2>5, Zenon DEF MonitorDecide
    <2>7. \/ probe' = 0 /\ lossRun' = 0
          \/ probe' = None /\ lossRun' = lossRun + 1
          \/ act = "none" /\ probe' = None /\ lossRun' = lossRun
      <3>1. SendProbe(hopped) \/ (act = "none" /\ UNCHANGED <<probe, lossRun>>)
        BY <1>2, <2>1, <2>5, Zenon DEF MonitorDecide
      <3>2. hopped \in BOOLEAN
        BY DEF HealthShapes, HealthTypeOK
      <3> HIDE DEF act
      <3> QED BY <2>1, <3>1, <3>2, ProbeOutcome
    <2>8. pending' # None => pending' + tick' < IF probe' = None THEN Due(lossRun')
                                                ELSE Due(LossRun + 1)
      <3> SUFFICES ASSUME pending' # None
                   PROVE  pending' + tick' < IF probe' = None THEN Due(lossRun')
                                             ELSE Due(LossRun + 1)
        OBVIOUS
      <3>1. pending' \in Nat /\ pending' < Due(lossRun) /\ tick' = TickPeriod
            /\ (act = "none" => pending' < ProbeAfter)
        BY <2>1, <2>2, <2>5, <2>6, Zenon
      <3>2. Due(lossRun + 1) = Due(lossRun) + TickPeriod /\ ProbeAfter + TickPeriod <= Due(lossRun)
        BY <2>3, DueGrows
      <3>3. Due(lossRun) + TickPeriod <= Due(LossRun + 1) /\ Due(LossRun + 1) \in Nat
        <4>1. Due(LossRun + 1) = Due(LossRun) + TickPeriod /\ Due(lossRun) <= Due(LossRun)
          BY <2>3, Delays, DueGrows
        <4> QED BY <4>1, <2>4, Delays
      <3>4. CASE probe' = 0 /\ lossRun' = 0
        BY <3>1, <3>3, <3>4, <2>4, Delays DEF None
      <3>5. CASE probe' = None /\ lossRun' = lossRun + 1
        BY <3>1, <3>2, <3>5, <2>4, Delays
      <3>6. CASE act = "none" /\ probe' = None /\ lossRun' = lossRun
        BY <3>1, <3>2, <3>6, <2>4, Delays
      <3> QED BY <2>7, <3>4, <3>5, <3>6
    <2>9. mon'.pc = "wait" /\ (probe' # None => probe' = TickPeriod - tick' /\ probe' <= MaxRtt)
      <3>1. mon'.pc = "wait" /\ tick' = TickPeriod
        BY <2>1, <2>6 DEF Waiting
      <3>2. probe' = 0 \/ probe' = None
        BY <2>7
      <3> QED BY <3>1, <3>2, Delays
    <2> QED BY <2>1, <2>6, <2>8, <2>9 DEF SteadyPath, Elapsed
  <1>3. CASE MonitorClear
    BY <1>3 DEF MonitorClear, SteadyPath
  <1>4. CASE CopyRead \/ CopySent \/ CopyDropped
    BY <1>4, Zenon DEF CopyRead, CopySent, CopyDropped, SteadyPath, Elapsed, Due
  <1>5. CASE CopyFailed
    BY <1>5 DEF CopyFailed, SteadyPath, WriteProtected
  <1>6. CASE CopyMark
    <2>1. CASE pending # None
      <3>1. UNCHANGED <<pending, answered, mon, active, phase, path, hopped, tick, steady,
                        probe, lossRun>>
        BY <1>6, <2>1 DEF CopyMark
      <3> QED BY <3>1 DEF SteadyPath, Elapsed, Due
    <2>2. CASE pending = None
      <3>1. lossRun \in Nat /\ LossRun + 1 \in Nat /\ tick \in 0 .. TickPeriod
        BY Delays DEF HealthShapes, HealthTypeOK
      <3>2. /\ TickPeriod < Due(lossRun) /\ TickPeriod < Due(LossRun + 1)
            /\ 0 < Due(lossRun)
        <4>1. /\ ProbeAfter + TickPeriod <= Due(lossRun) /\ Due(lossRun) \in Nat
              /\ ProbeAfter + TickPeriod <= Due(LossRun + 1) /\ Due(LossRun + 1) \in Nat
          BY <3>1, DueGrows
        <4> QED BY <4>1, Delays
      <3>3. /\ mon'.pc = mon.pc /\ pending' = 0
            /\ UNCHANGED <<active, phase, path, hopped, tick, steady, probe, lossRun>>
        BY <1>6, <2>2, Zenon DEF CopyMark, HealthShapes, MonitorRecord
      <3>4. Due(lossRun)' = Due(lossRun) /\ Due(LossRun + 1)' = Due(LossRun + 1)
        BY <3>3 DEF Due
      <3>5. Due(lossRun) \in Nat /\ Due(LossRun + 1) \in Nat
        BY <3>1, DueGrows
      <3> HIDE DEF Due
      <3> QED BY <3>1, <3>2, <3>3, <3>4, <3>5, Delays DEF SteadyPath, Elapsed
    <2> QED BY <2>1, <2>2
  <1>7. CASE EchoArrives \/ DataArrives
    <2>1. answered' = TRUE /\ (probe' = probe \/ probe' = None)
          /\ UNCHANGED <<active, pending, hopped, phase, tick, mon, path, lossRun, steady>>
      BY <1>7 DEF EchoArrives, DataArrives, Arrived
    <2> QED BY <2>1, Zenon DEF SteadyPath, Elapsed, Due
  <1>8. CASE Advance
    <2>1. /\ steady /\ path = "up" /\ ~hopped /\ active /\ phase = "run" /\ mon.pc = "wait"
          /\ UNCHANGED <<active, phase, path, hopped, steady, mon, lossRun, answered>>
          /\ tick' = tick - 1 /\ tick \in 0 .. TickPeriod
          /\ pending' = Older(pending) /\ probe' = Older(probe)
      BY <1>8, Zenon DEF Advance, SteadyPath, HealthShapes, HealthTypeOK
    <2>2. pending \in None .. Cut /\ probe \in None .. Cut
      BY DEF HealthShapes, HealthTypeOK
    <2>3. (probe' = None) <=> (probe = None)
      BY <2>1, <2>2, OlderAge
    <2>4. probe' # None => probe' = TickPeriod - tick' /\ probe' <= MaxRtt
      <3>1. probe # None => probe = TickPeriod - tick /\ probe < MaxRtt /\ probe < Cut
        BY <1>8, <2>1, <2>2, Delays DEF Advance, SteadyPath, Elapsed, None
      <3> QED BY <2>1, <2>2, <2>3, <3>1, OlderAge, Delays DEF None
    <2>5. pending' # None => pending # None /\ pending' + tick' <= pending + tick
          /\ pending' + tick' \in Int /\ pending + tick \in Int
      BY <2>1, <2>2, OlderAge, Delays DEF None
    <2>6. Due(lossRun) \in Nat /\ Due(LossRun + 1) \in Nat
      <3>1. lossRun \in Nat /\ LossRun + 1 \in Nat
        BY Delays DEF HealthShapes
      <3> QED BY <3>1, DueGrows
    <2>7. pending' # None /\ ~answered' =>
              pending' + tick' < IF probe' = None THEN Due(lossRun') ELSE Due(LossRun + 1)
      BY <2>1, <2>3, <2>5, <2>6 DEF SteadyPath
    <2> QED BY <2>1, <2>4, <2>7 DEF SteadyPath, Elapsed
  <1> QED BY <1>0, <1>1, <1>2, <1>3, <1>4, <1>5, <1>6, <1>7, <1>8
          DEF HealthNext, Monitor, CopyTunToData

LEMMA BlindStep == HealthShapes /\ BlindBound /\ HealthNext => BlindBound'
  <1> SUFFICES ASSUME HealthShapes, BlindBound, HealthNext, busy', phase' = "run", active'
               PROVE  BlindBound'
    BY DEF BlindBound
  <1>0. /\ TickPeriod \in Nat /\ TickPeriod > 0 /\ DeadAfter \in Nat /\ DeadAfter > 0
        /\ pending \in Int /\ blind \in Int /\ tick \in Int /\ pending >= None
        /\ tick >= 0 /\ tick <= TickPeriod /\ None = -1
    BY Delays DEF HealthShapes, HealthTypeOK, None
  <1>1. CASE MonitorTick
    BY <1>0, <1>1 DEF MonitorTick, BlindBound, Elapsed, host
  <1>2. CASE MonitorDecide
    <2>1. /\ busy /\ phase = "run" /\ mon.pc = "decide" /\ tick = TickPeriod
          /\ UNCHANGED <<answered, sent, copy, tick>> /\ pending' = Settled
      BY <1>2, Zenon DEF MonitorDecide, host, HealthShapes, HealthTypeOK
    <2>2. CASE mon.active
      <3> DEFINE silent == IF mon.active /\ Settled # None THEN Settled ELSE 0
                 act == DecideUDPHealth(silent, mon.recv # Never, mon.active)
      <3>1. act \in {"probe", "none"}
        BY <1>2, <2>2, Zenon DEF MonitorDecide, DecideUDPHealth
      <3>2. Settled \in Int /\ silent \in Int /\ (act \in {"probe", "none"} => silent < DeadAfter)
        BY <1>0, <2>2 DEF DecideUDPHealth, Settled
      <3>3. /\ active /\ mon' = Waiting /\ blind' = blind
            /\ (Settled # None => Settled < DeadAfter)
        BY <1>2, <2>2, <3>1, <3>2, Zenon DEF MonitorDecide
      <3>4. mon'.pc = "wait"
        BY <3>3 DEF Waiting
      <3> QED BY <1>0, <2>1, <3>3, <3>4 DEF BlindBound, Elapsed, Settled, HealthShapes
    <2>3. CASE ~mon.active
      <3>1. ~active
        BY <2>1, <2>3 DEF HealthShapes
      <3>2. mon' = [Waiting EXCEPT !.pc = "clear", !.active = TRUE] /\ blind' = None
        BY <1>2, <2>3, <3>1, Zenon DEF MonitorDecide, DecideUDPHealth
      <3> QED BY <1>0, <3>2 DEF BlindBound, Waiting
    <2> QED BY <2>2, <2>3
  <1>3. CASE MonitorClear
    BY <1>0, <1>3 DEF MonitorClear, BlindBound, Waiting, Elapsed, host
  <1>4. CASE CopyRead \/ CopyDropped
    BY <1>4, Zenon DEF CopyRead, CopyDropped, BlindBound, Elapsed, host
  <1>5. CASE CopySent
    BY <1>0, <1>5 DEF CopySent, BlindBound, Elapsed, host
  <1>6. CASE CopyMark
    <2>1. CASE pending = None
      <3>1. /\ pending' = 0 /\ ~answered' /\ mon'.pc = mon.pc
            /\ UNCHANGED <<host, active, phase, tick, blind>>
        BY <1>6, <2>1, Zenon DEF CopyMark, HealthShapes, MonitorRecord
      <3> QED BY <1>0, <2>1, <3>1 DEF BlindBound, host
    <2>2. CASE pending # None
      <3>1. /\ copy' = "read"
            /\ UNCHANGED <<host, pending, answered, mon, active, phase, tick, blind, sent>>
        BY <1>6, <2>2 DEF CopyMark
      <3> QED BY <2>2, <3>1 DEF BlindBound, Elapsed, host
    <2> QED BY <2>1, <2>2
  <1>7. CASE CopyFailed
    BY <1>7, Zenon DEF CopyFailed, BlindBound, Elapsed, host
  <1>8. CASE EchoArrives \/ DataArrives
    <2>1. /\ blind' = None /\ answered' = TRUE
          /\ UNCHANGED <<host, active, pending, phase, tick, mon>>
      BY <1>8, Zenon DEF EchoArrives, DataArrives, Arrived
    <2> QED BY <1>0, <2>1 DEF BlindBound, Elapsed, host
  <1>9. CASE Hop \/ PathChanges
    BY <1>9, Zenon DEF Hop, PathChanges, BlindBound, Elapsed, host
  <1>10. CASE Advance
    <2>1. /\ busy /\ phase = "run" /\ active /\ mon.pc = "wait" /\ tick > 0 /\ sent
          /\ copy = "read" /\ ~sent' /\ mon'.pc = "wait" /\ tick' = tick - 1
          /\ answered' = answered /\ pending' = Older(pending) /\ blind' = Older(blind)
      BY <1>10 DEF Advance, host
    <2>2. /\ blind' <= blind + 1 /\ blind' \in Int
          /\ (pending' = None <=> pending = None)
          /\ (pending # None /\ pending < Cut => pending' = pending + 1)
      BY <2>1, OlderAge, Delays DEF HealthShapes, HealthTypeOK, None
    <2>3. CASE pending = None
      BY <1>0, <2>1, <2>2, <2>3 DEF BlindBound
    <2>4. CASE pending # None /\ answered
      BY <1>0, <2>1, <2>2, <2>4 DEF BlindBound, Elapsed
    <2>5. CASE pending # None /\ ~answered
      <3>1. pending < Cut
        BY <1>0, <2>1, <2>5, Delays DEF BlindBound
      <3> QED BY <1>0, <2>1, <2>2, <2>5, <3>1 DEF BlindBound
    <2> QED BY <2>3, <2>4, <2>5
  <1> QED BY <1>1, <1>2, <1>3, <1>4, <1>5, <1>6, <1>7, <1>8, <1>9, <1>10
          DEF HealthNext, Monitor, CopyTunToData

\* If the delays leave room for LossRun lost probes (the first is sent at the first
\* tick at which a mark is ProbeAfter old, the others a tick apart, and the echo of
\* the next arrives before the tick after it), a path that stays up is never given
\* up, for every choice of the delays, of MaxRtt and of LossRun.  The code's 2 s,
\* 2.5 s and 8 s leave room for one lost probe.
THEOREM SteadyPathKept ==
    ProbeAfter + (LossRun + 1) * TickPeriod <= DeadAfter => (HealthSpec => []NoFalseAlarm)
  <1> SUFFICES ASSUME Tolerant PROVE HealthSpec => []NoFalseAlarm
    BY DEF Tolerant, Due
  <1> DEFINE Inv == HealthShapes /\ SteadyPath
  <1>1. HealthInit => Inv
    BY HealthBegins
  <1>2. Inv /\ [HealthNext]_healthVars => Inv'
    BY ShapesStep, SteadyStep, HealthStutters
  <1>3. Inv => NoFalseAlarm
    BY DEF SteadyPath, NoFalseAlarm
  <1> QED BY <1>1, <1>2, <1>3, PTL DEF HealthSpec

\* While datagrams leave in every unit, data goes unanswered on an active UDP path for
\* less than DeadAfter and two ticks, whatever the delays, the network's changes and the
\* interleaving of copyTunToData with the monitor's loads and stores.
THEOREM SilenceBounded == HealthSpec => [](HealthTypeOK /\ DeadPathNoticed)
  <1> DEFINE Inv == HealthShapes /\ BlindBound
  <1>1. HealthInit => Inv
    BY HealthBegins
  <1>2. Inv /\ [HealthNext]_healthVars => Inv'
    BY ShapesStep, BlindStep, HealthStutters
  <1>3. Inv => HealthTypeOK /\ DeadPathNoticed
    <2> SUFFICES ASSUME Inv, busy, phase = "run", active, copy = "read", mon.pc = "wait",
                        tick > 0
                 PROVE  blind < DeadAfter + 2 * TickPeriod
      BY DEF HealthShapes, DeadPathNoticed
    <2> QED BY Delays DEF HealthShapes, HealthTypeOK, BlindBound, Elapsed, None
  <1> QED BY <1>1, <1>2, <1>3, PTL DEF HealthSpec
===============================================================================
