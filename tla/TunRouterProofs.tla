---------------------------- MODULE TunRouterProofs ----------------------------
(***************************************************************************)
(* The server's downlink.  First tunRouter, for any number of sessions and *)
(* addresses: the table's routes are those of sessions that still run, and *)
(* nothing is queued at a removed one.  Then the queue of one session, for *)
(* any number of buffers, producers and any sizes of its lanes: each       *)
(* buffer is at one place, and bulk packets are not starved.               *)
(***************************************************************************)
EXTENDS TunRouter, RoutedSession, FiniteSetTheorems, TLAPS

\* A session that was never registered has left no trace, a removed one is not
\* in the table, and every session run holds was registered.
Lifecycle ==
    \A s \in Sessions :
        /\ loop[s] = "none" => /\ s \notin sessions
                               /\ ips[s] = {}
                               /\ \A ip \in IPs : talker[ip] # s
                               /\ closing[s] = "no"
        /\ closing[s] = "removed" => s \notin sessions

\* A packet looked up before the session's removal is the only late one.
LateReads ==
    \A s \in Sessions :
        /\ late[s] <= 1
        /\ closing[s] # "removed" => late[s] = 0
        /\ reader.pc = "pieces" /\ reader.sess = s => late[s] = 0

ReaderHolds == reader.pc \in {"pieces", "enqueue"} => reader.sess \in Sessions

Leftover == reader.pc = "enqueue" => reader.left # 0

RouterIInv == /\ RouterTypeOK /\ RoutesExact /\ LatestTalkerOwns
        /\ Lifecycle /\ LateReads /\ ReaderHolds /\ Leftover


ReaderRecords == [pc   : {"read", "single", "pieces", "enqueue", "stopped"},
                  dst  : IPs \cup {Unparsed},
                  sess : Sessions \cup {NoSession},
                  left : 0 .. MaxPieces]

\* What RouterTypeOK says of the reader and of the counters.
LEMMA RouterCounters ==
    ASSUME RouterTypeOK
    PROVE  /\ reader \in ReaderRecords
           /\ reader.pc \in {"read", "single", "pieces", "enqueue", "stopped"}
           /\ reader.dst \in IPs \cup {Unparsed}
           /\ reader.sess \in Sessions \cup {NoSession}
           /\ reader.left \in 0 .. MaxPieces
           /\ late \in [Sessions -> Nat]
           /\ queued \in [Sessions -> 0 .. QueueCap]
<1>1. reader \in ReaderRecords
  BY DEF RouterTypeOK, ReaderRecords
<1>2. /\ late \in [Sessions -> Nat]
      /\ queued \in [Sessions -> 0 .. QueueCap]
  BY DEF RouterTypeOK
<1>3. /\ reader.pc \in {"read", "single", "pieces", "enqueue", "stopped"}
      /\ reader.dst \in IPs \cup {Unparsed}
      /\ reader.sess \in Sessions \cup {NoSession}
      /\ reader.left \in 0 .. MaxPieces
  BY <1>1 DEF ReaderRecords
<1> QED BY <1>1, <1>2, <1>3

\* The fields of the record that Reader builds.
LEMMA ReaderFields ==
    ASSUME NEW at \in {"read", "single", "pieces", "enqueue", "stopped"},
           NEW dst \in IPs \cup {Unparsed},
           NEW sess \in Sessions \cup {NoSession},
           NEW left \in 0 .. MaxPieces
    PROVE  LET r == Reader(at, dst, sess, left)
           IN  /\ r \in ReaderRecords
               /\ r.pc = at /\ r.dst = dst /\ r.sess = sess /\ r.left = left
BY DEF Reader, ReaderRecords

\* run going back to its Read, or stopping, holds nothing.
LEMMA IdleFields == /\ Idle \in ReaderRecords /\ Idle.pc = "read"
                    /\ Reader("stopped", Unparsed, NoSession, 0) \in ReaderRecords
                    /\ Reader("stopped", Unparsed, NoSession, 0).pc = "stopped"
BY ReaderFields, ConstantsAssumption DEF Idle

LEMMA RouterInitIInv == RouterInit => RouterIInv
<1> SUFFICES ASSUME RouterInit PROVE RouterIInv
  OBVIOUS
<1>1. reader \in ReaderRecords /\ reader.pc = "read"
  BY IdleFields DEF RouterInit
<1>2. RouterTypeOK
  BY <1>1, ConstantsAssumption DEF RouterInit, RouterTypeOK, ReaderRecords
<1>3. RoutesExact /\ LatestTalkerOwns /\ Lifecycle
  BY ConstantsAssumption DEF RouterInit, RoutesExact, LatestTalkerOwns, Lifecycle
<1>4. LateReads /\ ReaderHolds /\ Leftover
  BY <1>1 DEF RouterInit, LateReads, ReaderHolds, Leftover
<1> QED BY <1>2, <1>3, <1>4 DEF RouterIInv

\* Only Learn and Close touch the routes; everything else keeps them.
LEMMA TableUntouched ==
    ASSUME RouterIInv, UNCHANGED <<sessions, byIP, ips, talker>>
    PROVE  RoutesExact' /\ LatestTalkerOwns'
BY DEF RouterIInv, RoutesExact, LatestTalkerOwns

LEMMA RegisterIInv ==
    ASSUME RouterIInv, NEW s \in Sessions, Register(s)
    PROVE  RouterIInv'
<1> USE DEF RouterIInv
<1>1. RouterTypeOK'
  BY DEF Register, RouterTypeOK
<1>2. RoutesExact'
  BY ConstantsAssumption DEF Register, RoutesExact, Lifecycle, RouterTypeOK
<1>3. LatestTalkerOwns'
  BY ConstantsAssumption DEF Register, LatestTalkerOwns, Lifecycle, RouterTypeOK
<1>4. Lifecycle'
  BY DEF Register, Lifecycle, RouterTypeOK
<1>5. LateReads' /\ ReaderHolds' /\ Leftover'
  BY DEF Register, LateReads, ReaderHolds, Leftover
<1> QED BY <1>1, <1>2, <1>3, <1>4, <1>5

LEMMA LearnIInv ==
    ASSUME RouterIInv, NEW s \in Sessions, NEW src \in IPs, Learn(s, src)
    PROVE  RouterIInv'
<1> USE DEF RouterIInv
<1>0. LateReads' /\ ReaderHolds' /\ Leftover'
  BY DEF Learn, LateReads, ReaderHolds, Leftover
<1>1. CASE s \in sessions /\ src \notin ips[s]
  <2> DEFINE prev == byIP[src]
  <2>0. /\ ips' = [q \in Sessions |-> IF q = s THEN ips[q] \cup {src}
                                      ELSE IF q = prev THEN ips[q] \ {src}
                                      ELSE ips[q]]
        /\ byIP' = [byIP EXCEPT ![src] = s]
        /\ talker' = [talker EXCEPT ![src] = s]
        /\ UNCHANGED <<sessions, closing, loop, queued, reader, late>>
        /\ prev # s
        /\ loop[s] # "none"
    BY <1>1 DEF Learn, RoutesExact
  <2>1. RouterTypeOK'
    BY <2>0 DEF RouterTypeOK
  <2>2. RoutesExact'
    <3> SUFFICES ASSUME NEW ip \in IPs, NEW q \in Sessions
                 PROVE  byIP'[ip] = q <=> q \in sessions' /\ ip \in ips'[q]
      BY DEF RoutesExact
    <3>0. /\ byIP'[ip] = IF ip = src THEN s ELSE byIP[ip]
          /\ ips'[q] = IF q = s THEN ips[q] \cup {src}
                       ELSE IF q = prev THEN ips[q] \ {src} ELSE ips[q]
          /\ sessions' = sessions
      BY <2>0 DEF RouterTypeOK
    <3>1. byIP[ip] = q <=> q \in sessions /\ ip \in ips[q]
      BY DEF RoutesExact
    <3>2. byIP[src] = q <=> q \in sessions /\ src \in ips[q]
      BY DEF RoutesExact
    <3>3. CASE ip = src
      BY <1>1, <3>0, <3>2, <3>3
    <3>4. CASE ip # src
      BY <3>0, <3>1, <3>4
    <3> QED BY <3>3, <3>4
  <2>3. LatestTalkerOwns'
    BY <1>1, <2>0 DEF LatestTalkerOwns, RouterTypeOK
  <2>4. Lifecycle'
    BY <1>1, <2>0 DEF Lifecycle, RouterTypeOK
  <2> QED BY <1>0, <2>1, <2>2, <2>3, <2>4
<1>2. CASE s \in sessions /\ src \in ips[s]
  <2>0. /\ UNCHANGED <<ips, byIP, sessions, closing, loop, queued, reader, late>>
        /\ talker' = [talker EXCEPT ![src] = s]
        /\ byIP[src] = s
        /\ loop[s] # "none"
    BY <1>2 DEF Learn, RoutesExact
  <2>1. RouterTypeOK' /\ RoutesExact'
    BY <2>0 DEF RouterTypeOK, RoutesExact
  <2>3. Lifecycle'
    BY <2>0 DEF RouterTypeOK, Lifecycle
  <2>2. LatestTalkerOwns'
    BY <1>2, <2>0 DEF LatestTalkerOwns, RouterTypeOK
  <2> QED BY <1>0, <2>1, <2>2, <2>3
<1>3. CASE s \notin sessions
  <2>0. UNCHANGED routerVars
    BY <1>3 DEF Learn, routerVars
  <2> QED BY <1>0, <2>0
     DEF routerVars, RouterTypeOK, RoutesExact, LatestTalkerOwns, Lifecycle
<1> QED BY <1>1, <1>2, <1>3

LEMMA CloseRemoveIInv ==
    ASSUME RouterIInv, NEW s \in Sessions, CloseRemove(s)
    PROVE  RouterIInv'
<1> USE DEF RouterIInv
<1>0. /\ byIP' = [ip \in IPs |-> IF byIP[ip] = s THEN NoSession ELSE byIP[ip]]
      /\ sessions' = sessions \ {s}
      /\ UNCHANGED <<ips, talker>>
  BY DEF CloseRemove, RoutesExact
<1>1. RouterTypeOK'
  BY <1>0 DEF CloseRemove, RouterTypeOK
<1>2. RoutesExact'
  BY <1>0, ConstantsAssumption DEF RoutesExact
<1>3. LatestTalkerOwns'
  BY <1>0, ConstantsAssumption DEF LatestTalkerOwns, RouterTypeOK
<1>4. Lifecycle'
  BY DEF CloseRemove, Lifecycle, RouterTypeOK
<1>5. LateReads' /\ ReaderHolds' /\ Leftover'
  BY DEF CloseRemove, LateReads, ReaderHolds, Leftover, RouterTypeOK
<1> QED BY <1>1, <1>2, <1>3, <1>4, <1>5

\* The parts of the invariant that the steps of run can disturb.
ReaderOK == /\ reader \in ReaderRecords
            /\ LateReads /\ ReaderHolds /\ Leftover
            /\ late \in [Sessions -> Nat]
            /\ queued \in [Sessions -> 0 .. QueueCap]

LEMMA ReadPacketOK ==
    ASSUME RouterIInv, NEW dst \in IPs \cup {Unparsed}, ReadPacket(dst)
    PROVE  ReaderOK'
<1> USE DEF RouterIInv
<1>0. /\ UNCHANGED <<closing, late, queued>> /\ 0 \in 0 .. MaxPieces
      /\ late \in [Sessions -> Nat] /\ queued \in [Sessions -> 0 .. QueueCap]
  BY ConstantsAssumption, RouterCounters DEF ReadPacket
<1>1. CASE dst \in IPs /\ byIP[dst] # NoSession
  <2>0. byIP[dst] \in Sessions
    BY <1>1 DEF RouterTypeOK
  <2>1. byIP[dst] \in sessions /\ byIP[dst] \in Sessions
    BY <1>1, <2>0 DEF RoutesExact
  <2>2. reader' = Reader("pieces", dst, byIP[dst], 0)
    BY <1>1 DEF ReadPacket
  <2>3. /\ reader' \in ReaderRecords
        /\ reader'.pc = "pieces" /\ reader'.sess = byIP[dst]
    BY <1>0, <2>1, <2>2 DEF Reader, ReaderRecords
  <2>4. late[byIP[dst]] = 0
    BY <2>1 DEF Lifecycle, LateReads
  <2> QED BY <1>0, <2>1, <2>3, <2>4
          DEF ReaderOK, LateReads, ReaderHolds, Leftover
<1>2. CASE ~(dst \in IPs /\ byIP[dst] # NoSession)
  <2>1. reader' = Reader("single", dst, NoSession, 0)
    BY <1>2 DEF ReadPacket
  <2>2. reader' \in ReaderRecords /\ reader'.pc = "single"
    BY <1>0, <2>1 DEF Reader, ReaderRecords
  <2> QED BY <1>0, <2>2 DEF ReaderOK, LateReads, ReaderHolds, Leftover
<1> QED BY <1>1, <1>2

LEMMA SingleSessionOK ==
    ASSUME RouterIInv, SingleSession
    PROVE  ReaderOK'
<1> USE DEF RouterIInv
<1>0. /\ UNCHANGED <<closing, late, queued>> /\ 0 \in 0 .. MaxPieces
      /\ reader.dst \in IPs \cup {Unparsed}
      /\ late \in [Sessions -> Nat] /\ queued \in [Sessions -> 0 .. QueueCap]
  BY ConstantsAssumption, RouterCounters DEF SingleSession
<1>1. ASSUME NEW s \in sessions, reader' = Reader("pieces", reader.dst, s, 0)
      PROVE  ReaderOK'
  <2>1. s \in Sessions /\ late[s] = 0
    BY DEF RouterTypeOK, Lifecycle, LateReads
  <2>2. reader' \in ReaderRecords /\ reader'.pc = "pieces" /\ reader'.sess = s
    BY <1>0, <1>1, <2>1 DEF Reader, ReaderRecords
  <2> QED BY <1>0, <2>1, <2>2
          DEF ReaderOK, LateReads, ReaderHolds, Leftover
<1>2. CASE reader' = Idle
  BY <1>0, <1>2, IdleFields DEF ReaderOK, LateReads, ReaderHolds, Leftover
<1> QED BY <1>1, <1>2 DEF SingleSession

LEMMA CutPacketOK ==
    ASSUME RouterIInv, NEW n \in 0 .. MaxPieces, CutPacket(n)
    PROVE  ReaderOK'
<1> USE DEF RouterIInv
<1>0. /\ UNCHANGED <<closing, queued>>
      /\ reader.dst \in IPs \cup {Unparsed}
      /\ reader.sess \in Sessions
      /\ late[reader.sess] = 0
      /\ late \in [Sessions -> Nat] /\ queued \in [Sessions -> 0 .. QueueCap]
  BY RouterCounters DEF CutPacket, ReaderHolds, LateReads
<1>1. late' = IF closing[reader.sess] = "removed"
              THEN [late EXCEPT ![reader.sess] = 1] ELSE late
  BY <1>0 DEF CutPacket
<1>2. CASE n = 0
  <2>1. reader' = Idle
    BY <1>2 DEF CutPacket
  <2> QED BY <1>0, <1>1, <2>1, IdleFields
          DEF ReaderOK, LateReads, ReaderHolds, Leftover
<1>3. CASE n # 0
  <2>1. reader' = Reader("enqueue", reader.dst, reader.sess, n)
    BY <1>3 DEF CutPacket
  <2>2. /\ reader' \in ReaderRecords /\ reader'.pc = "enqueue"
        /\ reader'.sess = reader.sess /\ reader'.left = n
    BY <1>0, <2>1 DEF Reader, ReaderRecords
  <2> QED BY <1>0, <1>1, <1>3, <2>2
          DEF ReaderOK, LateReads, ReaderHolds, Leftover
<1> QED BY <1>2, <1>3

LEMMA EnqueueOK ==
    ASSUME RouterIInv, Enqueue
    PROVE  ReaderOK'
<1> USE DEF RouterIInv
<1>0. /\ UNCHANGED <<closing, late>>
      /\ reader.pc = "enqueue"
      /\ reader.dst \in IPs \cup {Unparsed}
      /\ reader.sess \in Sessions
      /\ reader.left \in 0 .. MaxPieces /\ reader.left # 0
      /\ MaxPieces \in Nat /\ QueueCap \in Nat
      /\ late \in [Sessions -> Nat] /\ queued \in [Sessions -> 0 .. QueueCap]
  BY ConstantsAssumption, RouterCounters DEF Enqueue, ReaderHolds, Leftover
<1>1. queued' \in [Sessions -> 0 .. QueueCap]
  <2>1. CASE UNCHANGED queued
    BY <1>0, <2>1
  <2>2. CASE /\ queued[reader.sess] < QueueCap
             /\ queued' = [queued EXCEPT ![reader.sess] = @ + 1]
    <3>1. queued[reader.sess] + 1 \in 0 .. QueueCap
      BY <1>0, <2>2
    <3> QED BY <1>0, <2>2, <3>1
  <2> QED BY <2>1, <2>2 DEF Enqueue
<1>2. CASE reader.left = 1
  <2>1. reader' = Idle
    BY <1>2 DEF Enqueue
  <2> QED BY <1>0, <1>1, <2>1, IdleFields
          DEF ReaderOK, LateReads, ReaderHolds, Leftover
<1>3. CASE reader.left # 1
  <2>1. reader' = Reader("enqueue", reader.dst, reader.sess, reader.left - 1)
    BY <1>3 DEF Enqueue
  <2>2. reader.left - 1 \in 0 .. MaxPieces /\ reader.left - 1 # 0
    BY <1>0, <1>3
  <2>3. /\ reader' \in ReaderRecords /\ reader'.pc = "enqueue"
        /\ reader'.sess = reader.sess /\ reader'.left # 0
    BY <1>0, <2>1, <2>2 DEF Reader, ReaderRecords
  <2> QED BY <1>0, <1>1, <2>3
          DEF ReaderOK, LateReads, ReaderHolds, Leftover
<1> QED BY <1>2, <1>3

LEMMA ReaderIInv ==
    ASSUME RouterIInv,
           \/ \E dst \in IPs \cup {Unparsed} : ReadPacket(dst)
           \/ SingleSession
           \/ \E n \in 0 .. MaxPieces : CutPacket(n)
           \/ Enqueue
           \/ ReadError
    PROVE  RouterIInv'
<1>1. UNCHANGED <<sessions, byIP, ips, closing, loop, talker>>
  BY DEF ReadPacket, SingleSession, CutPacket, Enqueue, ReadError
<1>2. RoutesExact' /\ LatestTalkerOwns' /\ Lifecycle'
  BY <1>1, TableUntouched DEF RouterIInv, Lifecycle
<1>3. ASSUME ReadError PROVE ReaderOK'
  BY <1>3, IdleFields, RouterCounters
     DEF ReadError, RouterIInv, ReaderOK, LateReads, ReaderHolds, Leftover
<1>4. ReaderOK'
  BY <1>3, ReadPacketOK, SingleSessionOK, CutPacketOK, EnqueueOK
<1> QED BY <1>1, <1>2, <1>4 DEF RouterIInv, ReaderOK, ReaderRecords, RouterTypeOK

LEMMA RouterNextIInv == RouterIInv /\ [RouterNext]_routerVars => RouterIInv'
<1> SUFFICES ASSUME RouterIInv, [RouterNext]_routerVars PROVE RouterIInv'
  OBVIOUS
<1>1. CASE UNCHANGED routerVars
  BY <1>1 DEF routerVars, RouterIInv, RouterTypeOK, RoutesExact, LatestTalkerOwns, Lifecycle,
              LateReads, ReaderHolds, Leftover
<1>2. ASSUME NEW s \in Sessions, CloseDone(s) \/ SendOne(s) \/ Drain(s)
      PROVE  RouterIInv'
  <2>1. /\ UNCHANGED <<sessions, byIP, ips, talker, reader, late>>
        /\ loop[s] # "none"
    BY <1>2 DEF CloseDone, SendOne, Drain
  <2>2. RoutesExact' /\ LatestTalkerOwns'
    BY <2>1, TableUntouched
  <2>3. ReaderHolds' /\ Leftover'
    BY <2>1 DEF RouterIInv, ReaderHolds, Leftover
  <2>4. queued \in [Sessions -> 0 .. QueueCap] /\ QueueCap \in Nat
    BY RouterCounters, ConstantsAssumption DEF RouterIInv
  <2>5. queued' \in [Sessions -> 0 .. QueueCap]
    <3>1. CASE SendOne(s)
      <4>1. queued[s] - 1 \in 0 .. QueueCap
        BY <2>4, <3>1 DEF SendOne
      <4> QED BY <2>4, <3>1, <4>1 DEF SendOne
    <3>2. CASE CloseDone(s)
      BY <2>4, <3>2 DEF CloseDone
    <3>3. CASE Drain(s)
      <4>1. 0 \in 0 .. QueueCap
        BY <2>4
      <4> QED BY <2>4, <3>3, <4>1 DEF Drain
    <3> QED BY <1>2, <3>1, <3>2, <3>3
  <2>6. RouterTypeOK'
    <3>1. /\ closing' \in [Sessions -> {"no", "done closed", "removed"}]
          /\ loop' \in [Sessions -> {"none", "running", "exited"}]
      BY <1>2 DEF RouterIInv, RouterTypeOK, CloseDone, SendOne, Drain
    <3> QED BY <2>1, <2>5, <3>1 DEF RouterIInv, RouterTypeOK
  <2>7. Lifecycle'
    <3> SUFFICES ASSUME NEW q \in Sessions
                 PROVE  /\ loop'[q] = "none" => /\ q \notin sessions
                                                /\ ips[q] = {}
                                                /\ \A ip \in IPs : talker[ip] # q
                                                /\ closing'[q] = "no"
                        /\ closing'[q] = "removed" => q \notin sessions
      BY <2>1 DEF Lifecycle
    <3>1. loop'[q] = "none" => loop[q] = "none" /\ q # s
      BY <1>2, <2>1 DEF RouterIInv, RouterTypeOK, CloseDone, SendOne, Drain
    <3>2. q # s => closing'[q] = closing[q]
      BY <1>2 DEF RouterIInv, RouterTypeOK, CloseDone, SendOne, Drain
    <3>3. closing'[q] = "removed" => closing[q] = "removed"
      BY <1>2 DEF RouterIInv, RouterTypeOK, CloseDone, SendOne, Drain
    <3> QED BY <3>1, <3>2, <3>3 DEF RouterIInv, Lifecycle
  <2>8. LateReads'
    BY <1>2, <2>1 DEF RouterIInv, RouterTypeOK, LateReads, CloseDone, SendOne, Drain
  <2> QED BY <2>2, <2>3, <2>6, <2>7, <2>8 DEF RouterIInv
<1> QED
  BY <1>1, <1>2, RegisterIInv, LearnIInv, CloseRemoveIInv, ReaderIInv DEF RouterNext

LEMMA RouterInvariant == RouterSpec => []RouterIInv
BY RouterInitIInv, RouterNextIInv, PTL DEF RouterSpec

\* The router's state stays well formed.
THEOREM RouterTyped == RouterSpec => []RouterTypeOK
BY RouterInvariant, PTL DEF RouterIInv

\* byIP and the ips sets of the registered sessions always agree, for any
\* number of sessions and addresses: no address survives its session and none
\* is lost by a takeover.
THEOREM RoutingTableExact == RouterSpec => []RoutesExact
BY RouterInvariant, PTL DEF RouterIInv

\* learnFromClientPacket and Close keep every address with its last user.
THEOREM AddressFollowsTalker == RouterSpec => []LatestTalkerOwns
BY RouterInvariant, PTL DEF RouterIInv

\* sessionForPacket's two critical sections never route a packet past the
\* session that owns its destination.
THEOREM RoutedToOwner == RouterSpec => NeverMisrouted
<1> DEFINE A == reader'.pc = "pieces" /\ reader.pc # "pieces" /\ reader'.dst \in IPs
                  => byIP[reader'.dst] \in {NoSession, reader'.sess}
<1>1. RouterIInv /\ [RouterNext]_routerVars => [A]_routerVars
  <2> SUFFICES ASSUME RouterIInv, RouterNext, reader'.pc = "pieces", reader.pc # "pieces",
                      reader'.dst \in IPs
               PROVE  byIP[reader'.dst] \in {NoSession, reader'.sess}
    OBVIOUS
  <2>1. ASSUME NEW dst \in IPs \cup {Unparsed}, ReadPacket(dst)
        PROVE  byIP[reader'.dst] \in {NoSession, reader'.sess}
    BY <2>1 DEF ReadPacket, Reader
  <2>2. ASSUME SingleSession
        PROVE  byIP[reader'.dst] \in {NoSession, reader'.sess}
    <3>1. reader' # Idle
      BY IdleFields
    <3>2. PICK s \in sessions : /\ sessions = {s}
                                /\ reader' = Reader("pieces", reader.dst, s, 0)
      BY <2>2, <3>1 DEF SingleSession
    <3>3. reader'.sess = s
      BY <3>2 DEF Reader
    <3>4. byIP[reader'.dst] \in Sessions => byIP[reader'.dst] \in sessions
      BY DEF RouterIInv, RoutesExact
    <3> QED BY <3>2, <3>3, <3>4 DEF RouterIInv, RouterTypeOK
  <2>3. CASE UNCHANGED reader
    BY <2>3
  <2>4. CASE \/ \E n \in 0 .. MaxPieces : CutPacket(n)
             \/ Enqueue
             \/ ReadError
    BY <2>4 DEF CutPacket, Enqueue, ReadError, Idle, Reader
  <2> QED
    BY <2>1, <2>2, <2>3, <2>4
       DEF RouterNext, Register, Learn, CloseDone, CloseRemove, SendOne, Drain
<1> QED BY <1>1, RouterInvariant, PTL DEF RouterSpec, NeverMisrouted

\* After Close has removed a session, run hands it at most the one packet it
\* had already looked up.
THEOREM AtMostOneStaleRead == RouterSpec => []StaleReadBound
<1>1. RouterIInv => StaleReadBound
  BY DEF RouterIInv, LateReads, StaleReadBound
<1> QED BY <1>1, RouterInvariant, PTL

-------------------------------------------------------------------------------
\* The queue of one session.

\* A producer past its Get holds a buffer; sendBulk works on a nonempty batch.
Holding ==
    /\ \A p \in Producers : hand[p].at # "idle" => hand[p].buf \in Buffers
    /\ pc \in {"take", "bulk", "bulk send"} <=> batch # <<>>

Running == pc \in {"loop", "select", "take", "bulk", "bulk send"}

\* Latency sends ahead of waiting bulk are counted by prioRun; with nothing
\* waiting there are none; past the bulk-turn check a fresh count starts.
PrioCounted ==
    /\ prioAhead <= prioRun
    /\ Running /\ ~BulkWaiting => prioAhead = 0
    /\ pc = "select" /\ prioRun >= PrioBurst => prioAhead = 0

\* A bulk packet that went ahead of a waiting latency packet left prioRun at 0,
\* so sendPrioWaiting serves that packet before the next bulk send.
BulkCounted ==
    /\ bulkAhead <= 1
    /\ Running /\ bulkAhead # 0 => prio # <<>> /\ prioRun = 0 /\ pc # "bulk send"

IInv == TypeOK /\ Holding /\ PrioCounted /\ BulkCounted

LEMMA InitIInv == Init => IInv
<1> SUFFICES ASSUME Init PROVE IInv
  OBVIOUS
<1>1. TypeOK
  <2>1. /\ PrioCap \in Nat /\ OutCap \in Nat /\ BatchCap \in Nat /\ PrioBurst \in Nat
        /\ <<>> \in Seq(Buffers) /\ Len(<<>>) = 0
    BY SizesAssumption
  <2>2. hand \in [Producers -> Hands]
    BY DEF Init, Empty, Hands
  <2>3. 0 \in 0 .. PrioBurst /\ 0 \in Nat
    BY <2>1
  <2>4. /\ prio \in Seq(Buffers) /\ Len(prio) <= PrioCap
        /\ out \in Seq(Buffers) /\ Len(out) <= OutCap
        /\ batch \in Seq(Buffers) /\ Len(batch) <= BatchCap
    BY <2>1 DEF Init
  <2>5. /\ free \subseteq Buffers /\ prioRun \in 0 .. PrioBurst
        /\ done \in BOOLEAN /\ pc = "loop"
        /\ prioAhead \in Nat /\ bulkAhead \in Nat
    BY <2>3, Zenon DEF Init
  <2> QED BY <2>2, <2>4, <2>5 DEF TypeOK
<1>2. Holding /\ PrioCounted /\ BulkCounted
  BY SizesAssumption DEF Init, Holding, PrioCounted, BulkCounted, Empty, Running, BulkWaiting
<1> QED BY <1>1, <1>2 DEF IInv

\* Producers only add to the lanes and never touch writeLoop's state.
LEMMA ProducerIInv ==
    ASSUME IInv, NEW p \in Producers,
           \/ \E b \in free, at \in {"prio", "out"} : GetPacket(p, b, at)
           \/ TryPrio(p)
           \/ TryOut(p)
    PROVE  IInv'
<1> USE DEF IInv
<1>0. /\ prio \in Seq(Buffers) /\ out \in Seq(Buffers) /\ batch \in Seq(Buffers)
      /\ Len(prio) \in 0 .. PrioCap /\ Len(out) \in 0 .. OutCap
      /\ PrioCap \in Nat /\ OutCap \in Nat
      /\ hand \in [Producers -> Hands] /\ Empty \in Hands /\ Empty.at = "idle"
      /\ free \subseteq Buffers
  <2>1. PrioCap \in Nat /\ OutCap \in Nat
    BY SizesAssumption
  <2>2. Empty \in Hands /\ Empty.at = "idle"
    BY DEF Empty, Hands
  <2>3. /\ prio \in Seq(Buffers) /\ out \in Seq(Buffers) /\ batch \in Seq(Buffers)
        /\ Len(prio) <= PrioCap /\ Len(out) <= OutCap
        /\ hand \in [Producers -> Hands]
        /\ free \subseteq Buffers
    BY DEF TypeOK
  <2> QED BY <2>1, <2>2, <2>3
<1>1. ASSUME NEW b \in free, NEW at \in {"prio", "out"}, GetPacket(p, b, at)
      PROVE  IInv'
  <2>1. hand' \in [Producers -> Hands]
    BY <1>0, <1>1 DEF GetPacket, Hands
  <2>2. Holding'
    BY <1>0, <1>1 DEF GetPacket, Holding, lanes
  <2>3. TypeOK'
    BY <1>1, <2>1 DEF GetPacket, TypeOK, lanes, turns
  <2>4. PrioCounted' /\ BulkCounted'
    BY <1>1 DEF GetPacket, PrioCounted, BulkCounted, Running, BulkWaiting, lanes, turns
  <2> QED BY <2>2, <2>3, <2>4
<1>2. ASSUME TryPrio(p) PROVE IInv'
  <2>0. hand[p].buf \in Buffers /\ hand[p] \in Hands
    BY <1>0, <1>2 DEF TryPrio, Holding
  <2>1. CASE Len(prio) < PrioCap
    <3>1. prio' = Append(prio, hand[p].buf) /\ hand' = [hand EXCEPT ![p] = Empty]
      BY <1>2, <2>1 DEF TryPrio
    <3>2. prio' \in Seq(Buffers) /\ Len(prio') <= PrioCap /\ prio' # <<>>
      BY <1>0, <2>0, <2>1, <3>1
    <3>3. hand' \in [Producers -> Hands]
      BY <1>0, <3>1
    <3>4. Holding'
      BY <1>0, <1>2, <3>1 DEF TryPrio, Holding
    <3>5. TypeOK'
      BY <1>2, <3>2, <3>3 DEF TryPrio, TypeOK, turns
    <3>6. PrioCounted' /\ BulkCounted'
      BY <1>2, <3>2 DEF TryPrio, PrioCounted, BulkCounted, Running, BulkWaiting, turns
    <3> QED BY <3>4, <3>5, <3>6
  <2>2. CASE ~(Len(prio) < PrioCap)
    <3>1. /\ hand' = [hand EXCEPT ![p] = [at |-> "out", buf |-> hand[p].buf]]
          /\ UNCHANGED prio
      BY <1>2, <2>2 DEF TryPrio
    <3>2. hand' \in [Producers -> Hands]
      BY <1>0, <2>0, <3>1 DEF Hands
    <3>3. Holding'
      BY <1>0, <1>2, <2>0, <3>1 DEF TryPrio, Holding
    <3>4. TypeOK'
      BY <1>2, <3>1, <3>2 DEF TryPrio, TypeOK, turns
    <3>5. PrioCounted' /\ BulkCounted'
      BY <1>2, <3>1 DEF TryPrio, PrioCounted, BulkCounted, Running, BulkWaiting, turns
    <3> QED BY <3>3, <3>4, <3>5
  <2> QED BY <2>1, <2>2
<1>3. ASSUME TryOut(p) PROVE IInv'
  <2>0. hand[p].buf \in Buffers
    BY <1>0, <1>3 DEF TryOut, Holding
  <2>1. hand' \in [Producers -> Hands] /\ hand' = [hand EXCEPT ![p] = Empty]
    BY <1>0, <1>3 DEF TryOut
  <2>2. Holding'
    BY <1>0, <1>3, <2>1 DEF TryOut, Holding
  <2>3. /\ out' \in Seq(Buffers) /\ Len(out') <= OutCap
        /\ free' \subseteq Buffers
        /\ out' = <<>> => out = <<>>
    <3>1. CASE Len(out) < OutCap /\ out' = Append(out, hand[p].buf) /\ UNCHANGED free
      BY <1>0, <2>0, <3>1
    <3>2. CASE UNCHANGED out /\ free' = free \cup {hand[p].buf}
      BY <1>0, <2>0, <3>2
    <3> QED BY <1>3, <3>1, <3>2 DEF TryOut
  <2>4. TypeOK'
    BY <1>3, <2>1, <2>3 DEF TryOut, TypeOK, turns
  <2>5. PrioCounted' /\ BulkCounted'
    BY <1>3, <2>3 DEF TryOut, PrioCounted, BulkCounted, Running, BulkWaiting, turns
  <2> QED BY <2>2, <2>4, <2>5
<1> QED BY <1>1, <1>2, <1>3

\* The sizes are positive, and the counters are numbers.
LEMMA SizeTypes == /\ PrioCap \in Nat \ {0} /\ OutCap \in Nat \ {0}
                   /\ BatchCap \in Nat \ {0} /\ PrioBurst \in Nat \ {0}
BY SizesAssumption

LEMMA CounterTypes ==
    ASSUME TypeOK
    PROVE  /\ prioRun \in Nat /\ prioRun <= PrioBurst
           /\ prioAhead \in Nat /\ bulkAhead \in Nat
           /\ PrioBurst \in Nat \ {0}
<1>1. prioRun \in 0 .. PrioBurst /\ prioAhead \in Nat /\ bulkAhead \in Nat
  BY DEF TypeOK
<1> QED BY <1>1, SizeTypes

LEMMA LaneTypes ==
    ASSUME TypeOK
    PROVE  /\ prio \in Seq(Buffers) /\ Len(prio) <= PrioCap
           /\ out \in Seq(Buffers) /\ Len(out) <= OutCap
           /\ batch \in Seq(Buffers) /\ Len(batch) <= BatchCap
           /\ free \subseteq Buffers
BY DEF TypeOK

\* Taking the head of a nonempty lane.
LEMMA TakeHead ==
    ASSUME NEW q \in Seq(Buffers), q # <<>>
    PROVE  /\ Head(q) \in Buffers
           /\ Tail(q) \in Seq(Buffers)
           /\ Len(Tail(q)) = Len(q) - 1
           /\ Len(q) \in Nat \ {0}
OBVIOUS

\* What one SendPrio does to the counters and to the lane.
LEMMA SendPrioStep ==
    ASSUME TypeOK, SendPrio, prioAhead <= prioRun, prioRun < PrioBurst \/ prioAhead = 0
    PROVE  /\ prio' \in Seq(Buffers) /\ Len(prio') <= PrioCap
           /\ free' \subseteq Buffers
           /\ prioRun' \in 0 .. PrioBurst
           /\ prioAhead' \in Nat /\ bulkAhead' = 0
           /\ prioAhead' <= prioRun'
           /\ ~BulkWaiting => prioAhead' = 0
<1>1. /\ prio' \in Seq(Buffers) /\ Len(prio') <= PrioCap /\ free' \subseteq Buffers
  BY LaneTypes, TakeHead, SizeTypes DEF SendPrio
<1>2. /\ prioRun' \in 0 .. PrioBurst
      /\ prioAhead' \in Nat /\ bulkAhead' = 0
      /\ prioAhead' <= prioRun'
      /\ ~BulkWaiting => prioAhead' = 0
  BY CounterTypes DEF SendPrio
<1> QED BY <1>1, <1>2

LEMMA SelectPrioIInv ==
    ASSUME IInv, SelectPrio
    PROVE  IInv'
<1> USE DEF IInv
<1>1. /\ SendPrio /\ AtSelect /\ pc' = "loop"
      /\ UNCHANGED <<hand, out, batch, done>>
  BY DEF SelectPrio
<1>2. prioRun < PrioBurst \/ prioAhead = 0
  BY <1>1, CounterTypes DEF AtSelect, PrioCounted
<1>3. /\ prio' \in Seq(Buffers) /\ Len(prio') <= PrioCap
      /\ free' \subseteq Buffers
      /\ prioRun' \in 0 .. PrioBurst
      /\ prioAhead' \in Nat /\ bulkAhead' = 0
      /\ prioAhead' <= prioRun'
      /\ ~BulkWaiting => prioAhead' = 0
  BY <1>1, <1>2, SendPrioStep DEF PrioCounted
<1>4. TypeOK'
  BY <1>1, <1>3 DEF TypeOK
<1>5. Holding'
  BY <1>1 DEF Holding, AtSelect
<1>6. BulkWaiting' = BulkWaiting
  BY <1>1 DEF BulkWaiting
<1>7. PrioCounted'
  BY <1>1, <1>3, <1>6 DEF PrioCounted, Running
<1>8. BulkCounted'
  <2>1. bulkAhead' = 0
    BY <1>3
  <2>2. bulkAhead' <= 1
    BY <2>1
  <2> QED BY <2>1, <2>2 DEF BulkCounted
<1> QED BY <1>4, <1>5, <1>7, <1>8

LEMMA SendPrioWaitingIInv ==
    ASSUME IInv, SendPrioWaiting
    PROVE  IInv'
<1> USE DEF IInv
<1>0. pc = "bulk" /\ UNCHANGED <<hand, out, batch, done>>
  BY DEF SendPrioWaiting
<1>1. CASE prioRun < PrioBurst /\ prio # <<>>
  <2>1. SendPrio /\ UNCHANGED pc
    BY <1>1 DEF SendPrioWaiting
  <2>2. /\ prio' \in Seq(Buffers) /\ Len(prio') <= PrioCap
        /\ free' \subseteq Buffers
        /\ prioRun' \in 0 .. PrioBurst
        /\ prioAhead' \in Nat /\ bulkAhead' = 0
        /\ prioAhead' <= prioRun'
        /\ ~BulkWaiting => prioAhead' = 0
    BY <1>1, <2>1, SendPrioStep DEF PrioCounted
  <2>3. TypeOK'
    BY <1>0, <2>1, <2>2 DEF TypeOK
  <2>4. Holding'
    BY <1>0, <2>1 DEF Holding
  <2>5. PrioCounted' /\ BulkCounted'
    BY <1>0, <2>1, <2>2 DEF PrioCounted, BulkCounted, Running, BulkWaiting
  <2> QED BY <2>3, <2>4, <2>5
<1>2. CASE ~(prioRun < PrioBurst /\ prio # <<>>)
  <2>1. pc' = "bulk send" /\ UNCHANGED <<free, prio, prioRun, turns>>
    BY <1>2 DEF SendPrioWaiting
  <2>2. TypeOK' /\ Holding'
    BY <1>0, <2>1 DEF TypeOK, Holding, turns
  <2>3. PrioCounted'
    BY <1>0, <2>1 DEF PrioCounted, Running, BulkWaiting, turns
  <2>4. BulkCounted'
    <3>1. bulkAhead = 0
      BY <1>0, <1>2, CounterTypes DEF BulkCounted, Running
    <3>2. bulkAhead' = 0
      BY <2>1, <3>1 DEF turns
    <3>3. bulkAhead' <= 1
      BY <3>2
    <3> QED BY <3>2, <3>3 DEF BulkCounted
  <2> QED BY <2>2, <2>3, <2>4
<1> QED BY <1>1, <1>2

LEMMA BulkSendIInv ==
    ASSUME IInv, BulkSend
    PROVE  IInv'
<1> USE DEF IInv
<1>0. batch # <<>> /\ pc = "bulk send" /\ batch \in Seq(Buffers) /\ free \subseteq Buffers
  BY LaneTypes DEF BulkSend, Holding
<1>1. /\ batch' \in Seq(Buffers) /\ Len(batch') <= BatchCap
      /\ free' \subseteq Buffers
  <2>1. /\ Head(batch) \in Buffers /\ Tail(batch) \in Seq(Buffers)
        /\ Len(Tail(batch)) = Len(batch) - 1 /\ Len(batch) \in Nat
    BY <1>0, TakeHead
  <2>2. batch' = Tail(batch) /\ free' = free \cup {Head(batch)}
    BY DEF BulkSend
  <2>3. Len(batch) <= BatchCap
    BY LaneTypes
  <2>4. Len(batch') <= BatchCap
    BY <2>1, <2>2, <2>3, SizeTypes
  <2> QED BY <1>0, <2>1, <2>2, <2>4
<1>2. bulkAhead = 0
  BY <1>0, CounterTypes DEF BulkCounted, Running
<1>3. /\ prioRun' = 0 /\ prioAhead' = 0
      /\ bulkAhead' \in {0, 1} /\ (bulkAhead' = 1 => prio' # <<>>)
      /\ pc' \in {"loop", "bulk"} /\ (pc' = "bulk" <=> batch' # <<>>)
      /\ UNCHANGED <<hand, prio, out, done>>
  <2>0. /\ prioRun' = 0 /\ prioAhead' = 0
        /\ UNCHANGED <<hand, prio, out, done>>
        /\ batch' = Tail(batch)
        /\ pc' = IF Tail(batch) = <<>> THEN "loop" ELSE "bulk"
        /\ bulkAhead' = IF prio # <<>> THEN bulkAhead + 1 ELSE 0
    BY DEF BulkSend
  <2>1. bulkAhead' = IF prio # <<>> THEN 1 ELSE 0
    BY <1>2, <2>0
  <2>2. pc' \in {"loop", "bulk"} /\ (pc' = "bulk" <=> batch' # <<>>)
    BY <2>0
  <2>3. bulkAhead' \in {0, 1} /\ (bulkAhead' = 1 => prio' # <<>>)
    BY <2>0, <2>1
  <2> QED BY <2>0, <2>2, <2>3
<1>4. 0 \in 0 .. PrioBurst /\ bulkAhead' \in Nat /\ prioAhead' \in Nat
  BY <1>3, SizeTypes
<1>5. TypeOK'
  BY <1>1, <1>3, <1>4 DEF TypeOK
<1>6. Holding'
  BY <1>3 DEF Holding
<1>7. PrioCounted'
  BY <1>3 DEF PrioCounted
<1>8. BulkCounted'
  <2>1. bulkAhead' <= 1
    BY <1>3
  <2> QED BY <1>3, <2>1 DEF BulkCounted
<1> QED BY <1>5, <1>6, <1>7, <1>8

\* Moving bulk packets into the batch, and draining, send nothing.
LEMMA FirstOfBatchIInv ==
    ASSUME IInv, FirstOfBatch, Running, batch = <<>>,
           UNCHANGED <<free, hand, prio, prioRun, done, turns>>
    PROVE  IInv'
<1> USE DEF IInv
<1>1. /\ out' \in Seq(Buffers) /\ Len(out') <= OutCap
      /\ batch' \in Seq(Buffers) /\ Len(batch') <= BatchCap /\ batch' # <<>>
      /\ pc' = "take" /\ out # <<>>
  BY LaneTypes, TakeHead, SizeTypes DEF FirstOfBatch
<1>2. TypeOK' /\ Holding'
  BY <1>1 DEF TypeOK, Holding, turns
<1>3. PrioCounted'
  BY <1>1 DEF PrioCounted, Running, BulkWaiting, turns
<1>4. BulkCounted'
  BY <1>1 DEF BulkCounted, Running, turns
<1> QED BY <1>2, <1>3, <1>4

LEMMA BulkTurnIInv ==
    ASSUME IInv, BulkTurn
    PROVE  IInv'
<1> USE DEF IInv
<1>0. /\ pc = "loop" /\ Running /\ batch = <<>>
      /\ UNCHANGED <<free, hand, prio, prioRun, done, turns>>
  BY DEF BulkTurn, Running, Holding
<1>1. CASE FirstOfBatch
  BY <1>0, <1>1, FirstOfBatchIInv
<1>2. CASE out = <<>> /\ pc' = "select" /\ UNCHANGED <<out, batch>>
  <2>1. TypeOK' /\ Holding'
    BY <1>0, <1>2 DEF TypeOK, Holding, turns
  <2>2. PrioCounted' /\ BulkCounted'
    BY <1>0, <1>2 DEF PrioCounted, BulkCounted, Running, BulkWaiting, turns
  <2> QED BY <2>1, <2>2
<1> QED BY <1>1, <1>2 DEF BulkTurn

LEMMA TakeQueuedIInv ==
    ASSUME IInv, TakeQueued
    PROVE  IInv'
<1> USE DEF IInv
<1>0. /\ pc = "take" /\ batch # <<>>
      /\ UNCHANGED <<free, hand, prio, prioRun, done, turns>>
  BY DEF TakeQueued, Holding
<1>1. /\ out' \in Seq(Buffers) /\ Len(out') <= OutCap
      /\ batch' \in Seq(Buffers) /\ Len(batch') <= BatchCap /\ batch' # <<>>
      /\ pc' \in {"take", "bulk"}
  <2>1. CASE Len(batch) < BatchCap /\ out # <<>>
    <3>1. /\ batch' = Append(batch, Head(out)) /\ out' = Tail(out) /\ UNCHANGED pc
      BY <2>1 DEF TakeQueued
    <3>2. /\ Head(out) \in Buffers /\ Tail(out) \in Seq(Buffers)
          /\ Len(Tail(out)) = Len(out) - 1 /\ Len(out) \in Nat \ {0}
      BY <2>1, LaneTypes, TakeHead
    <3> QED BY <1>0, <2>1, <3>1, <3>2, LaneTypes, SizeTypes
  <2>2. CASE ~(Len(batch) < BatchCap /\ out # <<>>)
    BY <1>0, <2>2, LaneTypes DEF TakeQueued
  <2> QED BY <2>1, <2>2
<1>2. TypeOK' /\ Holding'
  BY <1>0, <1>1 DEF TypeOK, Holding, turns
<1>3. PrioCounted' /\ BulkCounted'
  BY <1>0, <1>1 DEF PrioCounted, BulkCounted, Running, BulkWaiting, turns
<1> QED BY <1>2, <1>3

\* Choosing done, draining the lanes and Close send nothing.
LEMMA EndIInv ==
    ASSUME IInv, SelectDone \/ DrainPrio \/ DrainOut \/ Close
    PROVE  IInv'
<1> USE DEF IInv
<1>1. CASE Close
  BY <1>1 DEF Close, TypeOK, Holding, PrioCounted, BulkCounted, Running,
              BulkWaiting, lanes, turns
<1>2. CASE SelectDone \/ DrainPrio \/ DrainOut
  <2>1. /\ pc' \in {"drain prio", "drain out", "exited"} /\ batch = <<>>
        /\ UNCHANGED <<hand, batch, prioRun, done, turns>>
    BY <1>2 DEF SelectDone, DrainPrio, DrainOut, AtSelect, Holding, lanes
  <2>2. /\ prio' \in Seq(Buffers) /\ Len(prio') <= PrioCap
        /\ out' \in Seq(Buffers) /\ Len(out') <= OutCap
        /\ free' \subseteq Buffers
    <3>1. <<>> \in Seq(Buffers) /\ Len(<<>>) = 0
      OBVIOUS
    <3>2. /\ \A i \in DOMAIN prio : prio[i] \in Buffers
          /\ \A i \in DOMAIN out : out[i] \in Buffers
      BY LaneTypes
    <3>3. CASE SelectDone
      BY <3>3, LaneTypes DEF SelectDone, lanes
    <3>4. CASE DrainPrio
      <4>1. free' \subseteq Buffers
        BY <3>2, <3>4, LaneTypes DEF DrainPrio
      <4>2. prio' = <<>> /\ UNCHANGED out
        BY <3>4 DEF DrainPrio
      <4>3. prio' \in Seq(Buffers) /\ Len(prio') <= PrioCap
        BY <3>1, <4>2, SizeTypes
      <4> QED BY <4>1, <4>2, <4>3, LaneTypes
    <3>5. CASE DrainOut
      <4>1. free' \subseteq Buffers
        BY <3>2, <3>5, LaneTypes DEF DrainOut
      <4>2. out' = <<>> /\ UNCHANGED prio
        BY <3>5 DEF DrainOut
      <4>3. out' \in Seq(Buffers) /\ Len(out') <= OutCap
        BY <3>1, <4>2, SizeTypes
      <4> QED BY <4>1, <4>2, <4>3, LaneTypes
    <3> QED BY <1>2, <3>3, <3>4, <3>5
  <2>3. TypeOK' /\ Holding'
    BY <2>1, <2>2 DEF TypeOK, Holding, turns
  <2>4. PrioCounted' /\ BulkCounted'
    BY <2>1 DEF PrioCounted, BulkCounted, Running, turns
  <2> QED BY <2>3, <2>4
<1> QED BY <1>1, <1>2

LEMMA NextIInv == IInv /\ [Next]_vars => IInv'
<1> SUFFICES ASSUME IInv, [Next]_vars PROVE IInv'
  OBVIOUS
<1>1. CASE UNCHANGED vars
  BY <1>1 DEF vars, IInv, TypeOK, Holding, PrioCounted, BulkCounted, Running, BulkWaiting
<1>2. ASSUME SelectOut PROVE IInv'
  BY <1>2, FirstOfBatchIInv DEF IInv, SelectOut, AtSelect, Running, Holding
<1>3. CASE WriteLoop
  BY <1>2, <1>3, BulkTurnIInv, SelectPrioIInv, EndIInv, TakeQueuedIInv,
     SendPrioWaitingIInv, BulkSendIInv DEF WriteLoop
<1> QED BY <1>1, <1>3, ProducerIInv, EndIInv DEF Next

LEMMA InductiveInvariant == Spec => []IInv
BY InitIInv, NextIInv, PTL DEF Spec

\* The lanes never exceed the channels' capacities.
THEOREM TypeCorrect == Spec => []TypeOK
BY InductiveInvariant, PTL DEF IInv

\* A waiting bulk packet sees at most routedPrioBurst latency-sensitive packets
\* pass before a bulk packet is sent, for every burst and every lane size.
THEOREM BulkGetsItsTurn == Spec => []BulkNotStarved
<1>1. IInv => BulkNotStarved
  BY CounterTypes DEF IInv, PrioCounted, BulkNotStarved
<1> QED BY <1>1, InductiveInvariant, PTL

\* A waiting latency-sensitive packet sees at most one bulk packet pass, for
\* every batch size.
THEOREM BatchDoesNotHoldUpPrio == Spec => []PrioNotHeldUp
<1>1. IInv => PrioNotHeldUp
  BY DEF IInv, BulkCounted, PrioNotHeldUp
<1> QED BY <1>1, InductiveInvariant, PTL

-------------------------------------------------------------------------------
\* Where the buffers are.

Elems(s) == {s[i] : i \in DOMAIN s}
Distinct(s) == \A i, j \in DOMAIN s : s[i] = s[j] => i = j
Held == {hand[p].buf : p \in {q \in Producers : hand[q] # Empty}}

Parted(F, H, P, O, B) ==
    /\ F \cap H = {} /\ F \cap P = {} /\ F \cap O = {} /\ F \cap B = {}
    /\ H \cap P = {} /\ H \cap O = {} /\ H \cap B = {}
    /\ P \cap O = {} /\ P \cap B = {} /\ O \cap B = {}
    /\ F \cup H \cup P \cup O \cup B = Buffers

\* A buffer is in one place and there once: in the pool, in one producer's hand, at
\* one position of a lane or of the batch.
OnePlace ==
    /\ \A p \in Producers : hand[p].at = "idle" => hand[p] = Empty
    /\ \A p, q \in Producers : hand[p] # Empty /\ hand[p].buf = hand[q].buf => p = q
    /\ Distinct(prio) /\ Distinct(out) /\ Distinct(batch)
    /\ Parted(free, Held, Elems(prio), Elems(out), Elems(batch))

LEMMA ElemsShort ==
    /\ Elems(<<>>) = {} /\ Distinct(<<>>)
    /\ \A x : Elems(<<x>>) = {x} /\ Distinct(<<x>>)
<1>1. Elems(<<>>) = {} /\ Distinct(<<>>)
  BY DEF Elems, Distinct
<1>2. ASSUME NEW x PROVE Elems(<<x>>) = {x} /\ Distinct(<<x>>)
  <2>1. DOMAIN <<x>> = {1} /\ <<x>>[1] = x
    OBVIOUS
  <2> QED BY <2>1 DEF Elems, Distinct
<1> QED BY <1>1, <1>2

LEMMA ElemsAppend ==
    ASSUME NEW s \in Seq(Buffers), NEW x \in Buffers
    PROVE  /\ Elems(Append(s, x)) = Elems(s) \cup {x}
           /\ Distinct(s) /\ x \notin Elems(s) => Distinct(Append(s, x))
<1> DEFINE t == Append(s, x)
<1>1. /\ DOMAIN s = 1 .. Len(s) /\ DOMAIN t = 1 .. Len(s) + 1 /\ Len(s) \in Nat
      /\ \A i \in 1 .. Len(s) : t[i] = s[i]
      /\ t[Len(s) + 1] = x
  OBVIOUS
<1> HIDE DEF t
<1>2. Elems(t) = Elems(s) \cup {x}
  BY <1>1 DEF Elems
<1>3. ASSUME Distinct(s), x \notin Elems(s) PROVE Distinct(t)
  BY <1>1, <1>3 DEF Elems, Distinct
<1> QED BY <1>2, <1>3 DEF t

LEMMA ElemsTail ==
    ASSUME NEW s \in Seq(Buffers), s # <<>>, Distinct(s)
    PROVE  /\ Elems(Tail(s)) = Elems(s) \ {Head(s)} /\ Distinct(Tail(s))
           /\ Head(s) \in Elems(s) /\ Head(s) \in Buffers
<1> DEFINE t == Tail(s)
           n == Len(s)
<1>1. /\ n \in Nat \ {0} /\ Head(s) = s[1] /\ Head(s) \in Buffers
      /\ DOMAIN s = 1 .. n /\ DOMAIN t = 1 .. n - 1
      /\ \A i \in 1 .. n - 1 : t[i] = s[i + 1]
  OBVIOUS
<1> HIDE DEF t, n
<1>2. Head(s) \in Elems(s)
  BY <1>1 DEF Elems
<1>3. Elems(t) = Elems(s) \ {Head(s)}
  <2>1. ASSUME NEW x \in Elems(t) PROVE x \in Elems(s) \ {Head(s)}
    <3>1. PICK i \in 1 .. n - 1 : x = t[i]
      BY <1>1 DEF Elems
    <3>2. i + 1 \in 1 .. n /\ i + 1 # 1 /\ 1 \in 1 .. n /\ x = s[i + 1]
      BY <1>1, <3>1
    <3> QED BY <1>1, <3>2 DEF Elems, Distinct
  <2>2. ASSUME NEW x \in Elems(s) \ {Head(s)} PROVE x \in Elems(t)
    <3>1. PICK i \in 1 .. n : x = s[i]
      BY <1>1 DEF Elems
    <3>2. i - 1 \in 1 .. n - 1 /\ (i - 1) + 1 = i
      BY <1>1, <3>1
    <3>3. t[i - 1] = s[(i - 1) + 1]
      BY <1>1, <3>2
    <3> QED BY <1>1, <3>1, <3>2, <3>3, Zenon DEF Elems
  <2> QED BY <2>1, <2>2
<1>4. Distinct(t)
  <2> SUFFICES ASSUME NEW i \in 1 .. n - 1, NEW j \in 1 .. n - 1, t[i] = t[j]
               PROVE  i = j
    BY <1>1 DEF Distinct
  <2>1. i + 1 \in 1 .. n /\ j + 1 \in 1 .. n /\ s[i + 1] = s[j + 1]
    BY <1>1
  <2>2. i + 1 = j + 1
    BY <1>1, <2>1 DEF Distinct
  <2> QED BY <2>2
<1> QED BY <1>1, <1>2, <1>3, <1>4 DEF t

\* What a producer's hand holds after it takes, passes on or gives up a buffer.
LEMMA HandChange ==
    ASSUME TypeOK, OnePlace, NEW p \in Producers, NEW h \in Hands,
           hand' = [hand EXCEPT ![p] = h]
    PROVE  /\ hand[p] = Empty /\ h # Empty => Held' = Held \cup {h.buf}
           /\ hand[p] # Empty /\ h # Empty /\ h.buf = hand[p].buf => Held' = Held
           /\ hand[p] # Empty /\ h = Empty => Held' = Held \ {hand[p].buf}
           /\ hand[p] # Empty => hand[p].buf \in Held
<1>1. hand'[p] = h /\ \A q \in Producers \ {p} : hand'[q] = hand[q]
  BY DEF TypeOK
<1>2. \A x : x \in Held <=> \E q \in Producers : hand[q] # Empty /\ x = hand[q].buf
  BY DEF Held
<1>3. \A x : x \in Held' <=> \E q \in Producers : hand'[q] # Empty /\ x = hand'[q].buf
  BY DEF Held
<1>4. ASSUME hand[p] = Empty, h # Empty PROVE Held' = Held \cup {h.buf}
  <2>1. \A x : x \in Held' <=> x \in Held \cup {h.buf}
    BY <1>1, <1>2, <1>3, <1>4
  <2> QED BY <2>1
<1>5. ASSUME hand[p] # Empty, h # Empty, h.buf = hand[p].buf PROVE Held' = Held
  <2>1. \A x : x \in Held' <=> x \in Held
    BY <1>1, <1>2, <1>3, <1>5
  <2> QED BY <2>1, Zenon
<1>6. ASSUME hand[p] # Empty, h = Empty PROVE Held' = Held \ {hand[p].buf}
  <2>1. \A q \in Producers : hand[q] # Empty /\ hand[q].buf = hand[p].buf => q = p
    BY DEF OnePlace
  <2>2. \A x : x \in Held' <=> x \in Held \ {hand[p].buf}
    BY <1>1, <1>2, <1>3, <1>6, <2>1
  <2> QED BY <2>2
<1>7. hand[p] # Empty => hand[p].buf \in Held
  BY <1>2
<1> QED BY <1>4, <1>5, <1>6, <1>7

\* The hands stay apart when a producer's hand gets a buffer no hand holds, keeps
\* its buffer or becomes empty.
LEMMA HandsApart ==
    ASSUME TypeOK, OnePlace, NEW p \in Producers, NEW h \in Hands,
           hand' = [hand EXCEPT ![p] = h],
           h.at = "idle" => h = Empty,
           h # Empty => /\ h.buf \in Buffers
                        /\ h.buf \notin Held \/ (hand[p] # Empty /\ h.buf = hand[p].buf)
    PROVE  /\ \A q \in Producers : hand'[q].at = "idle" => hand'[q] = Empty
           /\ \A q, r \in Producers : hand'[q] # Empty /\ hand'[q].buf = hand'[r].buf => q = r
<1>1. hand'[p] = h /\ \A q \in Producers \ {p} : hand'[q] = hand[q]
  BY DEF TypeOK
<1>2. \A q \in Producers : hand'[q].at = "idle" => hand'[q] = Empty
  BY <1>1 DEF OnePlace
<1>3. Empty.buf = NoBuf /\ NoBuf \notin Buffers
  BY SizesAssumption DEF Empty
<1>4. \A q \in Producers : hand[q] # Empty => hand[q].buf \in Held
  BY DEF Held
<1>5. \A q \in Producers : hand[q] # Empty => hand[q].buf \in Buffers
  BY <1>4 DEF OnePlace, Parted
<1>6. ASSUME NEW q \in Producers \ {p}, h # Empty
      PROVE  hand[q].buf # h.buf
  <2>1. CASE hand[q] = Empty
    BY <1>3, <1>6, <2>1
  <2>2. CASE hand[q] # Empty
    BY <1>4, <1>6, <2>2 DEF OnePlace
  <2> QED BY <2>1, <2>2
<1>7. ASSUME NEW q \in Producers, NEW r \in Producers,
             hand'[q] # Empty, hand'[q].buf = hand'[r].buf
      PROVE  q = r
  <2>1. CASE q # p /\ r # p
    BY <1>1, <1>7, <2>1 DEF OnePlace
  <2>2. CASE q = p /\ r # p
    BY <1>1, <1>6, <1>7, <2>2
  <2>3. CASE q # p /\ r = p
    <3>1. hand[q] # Empty /\ hand[q].buf \in Buffers /\ hand[q].buf = h.buf
      BY <1>1, <1>5, <1>7, <2>3
    <3>2. h # Empty
      BY <1>3, <3>1
    <3> QED BY <1>6, <2>3, <3>1, <3>2
  <2> QED BY <2>1, <2>2, <2>3
<1> QED BY <1>2, <1>7

LEMMA ProducerOnePlace ==
    ASSUME IInv, OnePlace, NEW p \in Producers,
           \/ \E b \in free, at \in {"prio", "out"} : GetPacket(p, b, at)
           \/ TryPrio(p)
           \/ TryOut(p)
    PROVE  OnePlace'
<1>0. TypeOK /\ Holding /\ free \subseteq Buffers /\ Empty \in Hands
  BY DEF IInv, TypeOK, Empty, Hands
<1>p. /\ Distinct(prio) /\ Distinct(out) /\ Distinct(batch)
      /\ Parted(free, Held, Elems(prio), Elems(out), Elems(batch))
  BY DEF OnePlace
<1>1. ASSUME NEW b \in free, NEW at \in {"prio", "out"}, GetPacket(p, b, at)
      PROVE  OnePlace'
  <2> DEFINE h == [at |-> at, buf |-> b]
  <2>1. /\ h \in Hands /\ h # Empty /\ h.buf = b /\ h.at # "idle" /\ b \in Buffers
    BY <1>0, SizesAssumption DEF Hands, Empty
  <2>2. /\ hand' = [hand EXCEPT ![p] = h] /\ hand[p] = Empty /\ free' = free \ {b}
        /\ UNCHANGED <<prio, out, batch>>
    BY <1>1 DEF GetPacket, lanes
  <2> HIDE DEF h
  <2>3. Held' = Held \cup {b}
    BY <1>0, <2>1, <2>2, HandChange, Zenon
  <2>4. b \notin Held
    BY <1>p DEF Parted
  <2>5. /\ \A q \in Producers : hand'[q].at = "idle" => hand'[q] = Empty
        /\ \A q, r \in Producers : hand'[q] # Empty /\ hand'[q].buf = hand'[r].buf => q = r
    BY <1>0, <2>1, <2>2, <2>4, HandsApart, Zenon
  <2>6. Parted(free', Held', Elems(prio), Elems(out), Elems(batch))
    BY <1>p, <2>1, <2>2, <2>3 DEF Parted
  <2> QED BY <1>p, <2>2, <2>5, <2>6 DEF OnePlace
<1>2. ASSUME hand[p].at # "idle"
      PROVE  hand[p] # Empty /\ hand[p].buf \in Buffers /\ hand[p].buf \in Held
  <2>1. hand[p] # Empty /\ hand[p].buf \in Buffers
    <3>1. Empty.at = "idle"
      BY DEF Empty
    <3>2. hand[p].buf \in Buffers
      BY <1>0, <1>2 DEF Holding
    <3> QED BY <1>2, <3>1, <3>2
  <2> QED BY <2>1 DEF Held
<1>3. ASSUME hand[p].at # "idle", hand' = [hand EXCEPT ![p] = Empty]
      PROVE  /\ Held' = Held \ {hand[p].buf}
             /\ \A q \in Producers : hand'[q].at = "idle" => hand'[q] = Empty
             /\ \A q, r \in Producers :
                  hand'[q] # Empty /\ hand'[q].buf = hand'[r].buf => q = r
  <2>1. hand[p] # Empty
    BY <1>2, <1>3
  <2>2. Held' = Held \ {hand[p].buf}
    BY <1>0, <1>3, <2>1, HandChange, Zenon
  <2> QED BY <1>0, <1>3, <2>2, HandsApart, Zenon
<1>4. ASSUME TryPrio(p) PROVE OnePlace'
  <2>1. hand[p].at # "idle" /\ UNCHANGED <<free, out, batch>>
    BY <1>4 DEF TryPrio
  <2>2. CASE prio' = Append(prio, hand[p].buf) /\ hand' = [hand EXCEPT ![p] = Empty]
    <3>1. hand[p].buf \notin Elems(prio) /\ prio \in Seq(Buffers)
      BY <1>0, <1>2, <1>p, <2>1, LaneTypes DEF Parted
    <3>2. Elems(prio') = Elems(prio) \cup {hand[p].buf} /\ Distinct(prio')
      BY <1>2, <1>p, <2>1, <2>2, <3>1, ElemsAppend
    <3>3. Held' = Held \ {hand[p].buf}
      BY <1>3, <2>1, <2>2
    <3>4. Parted(free, Held', Elems(prio'), Elems(out), Elems(batch))
      BY <1>2, <1>p, <2>1, <3>2, <3>3 DEF Parted
    <3> QED BY <1>3, <1>p, <2>1, <2>2, <3>2, <3>4 DEF OnePlace
  <2>3. CASE /\ hand' = [hand EXCEPT ![p] = [at |-> "out", buf |-> hand[p].buf]]
             /\ UNCHANGED prio
    <3> DEFINE h == [at |-> "out", buf |-> hand[p].buf]
    <3>1. /\ h \in Hands /\ h # Empty /\ h.buf = hand[p].buf /\ h.at # "idle"
      BY <1>2, <2>1 DEF Hands, Empty
    <3>2. hand' = [hand EXCEPT ![p] = h]
      BY <2>3
    <3> HIDE DEF h
    <3>3. Held' = Held
      BY <1>0, <1>2, <2>1, <3>1, <3>2, HandChange, Zenon
    <3>4. /\ \A q \in Producers : hand'[q].at = "idle" => hand'[q] = Empty
          /\ \A q, r \in Producers : hand'[q] # Empty /\ hand'[q].buf = hand'[r].buf => q = r
      BY <1>0, <1>2, <2>1, <3>1, <3>2, HandsApart, Zenon
    <3> QED BY <1>p, <2>1, <2>3, <3>3, <3>4 DEF OnePlace
  <2> QED BY <1>4, <2>2, <2>3 DEF TryPrio
<1>5. ASSUME TryOut(p) PROVE OnePlace'
  <2>1. /\ hand[p].at # "idle" /\ UNCHANGED <<prio, batch>>
        /\ hand' = [hand EXCEPT ![p] = Empty]
    BY <1>5 DEF TryOut
  <2>2. Held' = Held \ {hand[p].buf}
    BY <1>3, <2>1
  <2>3. CASE out' = Append(out, hand[p].buf) /\ UNCHANGED free
    <3>1. hand[p].buf \notin Elems(out) /\ out \in Seq(Buffers)
      BY <1>0, <1>2, <1>p, <2>1, LaneTypes DEF Parted
    <3>2. Elems(out') = Elems(out) \cup {hand[p].buf} /\ Distinct(out')
      BY <1>2, <1>p, <2>1, <2>3, <3>1, ElemsAppend
    <3>3. Parted(free, Held', Elems(prio), Elems(out'), Elems(batch))
      BY <1>2, <1>p, <2>1, <2>2, <3>2 DEF Parted
    <3> QED BY <1>3, <1>p, <2>1, <2>3, <3>2, <3>3 DEF OnePlace
  <2>4. CASE free' = free \cup {hand[p].buf} /\ UNCHANGED out
    <3>1. Parted(free', Held', Elems(prio), Elems(out), Elems(batch))
      BY <1>2, <1>p, <2>1, <2>2, <2>4 DEF Parted
    <3> QED BY <1>3, <1>p, <2>1, <2>4, <3>1 DEF OnePlace
  <2> QED BY <1>5, <2>3, <2>4 DEF TryOut
<1> QED BY <1>1, <1>4, <1>5

LEMMA WriteLoopOnePlace ==
    ASSUME IInv, OnePlace, WriteLoop \/ Close
    PROVE  OnePlace'
<1>0. /\ TypeOK /\ Holding
      /\ prio \in Seq(Buffers) /\ out \in Seq(Buffers) /\ batch \in Seq(Buffers)
  BY LaneTypes DEF IInv
<1>p. /\ Distinct(prio) /\ Distinct(out) /\ Distinct(batch)
      /\ Parted(free, Held, Elems(prio), Elems(out), Elems(batch))
  BY DEF OnePlace
<1>h. UNCHANGED hand
  BY DEF WriteLoop, BulkTurn, SelectPrio, SelectOut, SelectDone, TakeQueued,
         SendPrioWaiting, BulkSend, DrainPrio, DrainOut, Close
<1>1. ASSUME /\ Distinct(prio') /\ Distinct(out') /\ Distinct(batch')
             /\ Parted(free', Held, Elems(prio'), Elems(out'), Elems(batch'))
      PROVE  OnePlace'
  <2>1. Held' = Held
    BY <1>h DEF Held
  <2> QED BY <1>1, <1>h, <2>1 DEF OnePlace
<1>2. CASE UNCHANGED <<free, prio, out, batch>>
  BY <1>1, <1>2, <1>p
<1>3. CASE SendPrio /\ UNCHANGED <<out, batch>>
  <2>1. /\ prio # <<>> /\ prio' = Tail(prio) /\ free' = free \cup {Head(prio)}
    BY <1>3 DEF SendPrio
  <2>2. /\ Elems(prio') = Elems(prio) \ {Head(prio)} /\ Distinct(prio')
        /\ Head(prio) \in Elems(prio)
    BY <1>0, <1>p, <2>1, ElemsTail
  <2>3. Parted(free', Held, Elems(prio'), Elems(out), Elems(batch))
    BY <1>p, <2>1, <2>2 DEF Parted
  <2> QED BY <1>1, <1>3, <1>p, <2>2, <2>3
<1>4. CASE batch = <<>> /\ FirstOfBatch /\ UNCHANGED <<free, prio>>
  <2>1. out # <<>> /\ batch' = <<Head(out)>> /\ out' = Tail(out)
    BY <1>4 DEF FirstOfBatch
  <2>2. /\ Elems(out') = Elems(out) \ {Head(out)} /\ Distinct(out')
        /\ Head(out) \in Elems(out)
    BY <1>0, <1>p, <2>1, ElemsTail
  <2>3. Elems(batch') = {Head(out)} /\ Distinct(batch') /\ Elems(batch) = {}
    BY <1>4, <2>1, ElemsShort
  <2>4. Parted(free, Held, Elems(prio), Elems(out'), Elems(batch'))
    BY <1>p, <2>2, <2>3 DEF Parted
  <2> QED BY <1>1, <1>4, <1>p, <2>2, <2>3, <2>4
<1>5. CASE /\ out # <<>> /\ batch' = Append(batch, Head(out)) /\ out' = Tail(out)
           /\ UNCHANGED <<free, prio>>
  <2>1. /\ Elems(out') = Elems(out) \ {Head(out)} /\ Distinct(out')
        /\ Head(out) \in Elems(out) /\ Head(out) \in Buffers
    BY <1>0, <1>5, <1>p, ElemsTail
  <2>2. Head(out) \notin Elems(batch)
    BY <1>p, <2>1 DEF Parted
  <2>3. Elems(batch') = Elems(batch) \cup {Head(out)} /\ Distinct(batch')
    BY <1>0, <1>5, <1>p, <2>1, <2>2, ElemsAppend
  <2>4. Parted(free, Held, Elems(prio), Elems(out'), Elems(batch'))
    BY <1>p, <2>1, <2>3 DEF Parted
  <2> QED BY <1>1, <1>5, <1>p, <2>1, <2>3, <2>4
<1>6. CASE BulkSend
  <2>1. /\ batch # <<>> /\ batch' = Tail(batch) /\ free' = free \cup {Head(batch)}
        /\ UNCHANGED <<prio, out>>
    BY <1>0, <1>6 DEF BulkSend, Holding
  <2>2. /\ Elems(batch') = Elems(batch) \ {Head(batch)} /\ Distinct(batch')
        /\ Head(batch) \in Elems(batch)
    BY <1>0, <1>p, <2>1, ElemsTail
  <2>3. Parted(free', Held, Elems(prio), Elems(out), Elems(batch'))
    BY <1>p, <2>1, <2>2 DEF Parted
  <2> QED BY <1>1, <1>p, <2>1, <2>2, <2>3
<1>7. CASE DrainPrio
  <2>1. /\ free' = free \cup Elems(prio) /\ prio' = <<>> /\ UNCHANGED <<out, batch>>
    BY <1>7 DEF DrainPrio, Elems
  <2>2. Elems(prio') = {} /\ Distinct(prio')
    BY <2>1, ElemsShort
  <2>3. Parted(free', Held, Elems(prio'), Elems(out), Elems(batch))
    BY <1>p, <2>1, <2>2 DEF Parted
  <2> QED BY <1>1, <1>p, <2>1, <2>2, <2>3
<1>8. CASE DrainOut
  <2>1. /\ free' = free \cup Elems(out) /\ out' = <<>> /\ UNCHANGED <<prio, batch>>
    BY <1>8 DEF DrainOut, Elems
  <2>2. Elems(out') = {} /\ Distinct(out')
    BY <2>1, ElemsShort
  <2>3. Parted(free', Held, Elems(prio), Elems(out'), Elems(batch))
    BY <1>p, <2>1, <2>2 DEF Parted
  <2> QED BY <1>1, <1>p, <2>1, <2>2, <2>3
<1>9. CASE BulkTurn
  BY <1>0, <1>2, <1>4, <1>9 DEF BulkTurn, Holding
<1>10. CASE SelectPrio
  BY <1>3, <1>10 DEF SelectPrio
<1>11. CASE SelectOut
  BY <1>0, <1>4, <1>11 DEF SelectOut, AtSelect, Holding
<1>12. CASE SelectDone \/ Close
  BY <1>2, <1>12 DEF SelectDone, Close, lanes
<1>13. CASE TakeQueued
  BY <1>2, <1>5, <1>13 DEF TakeQueued
<1>14. CASE SendPrioWaiting
  BY <1>2, <1>3, <1>14 DEF SendPrioWaiting
<1> QED BY <1>6, <1>7, <1>8, <1>9, <1>10, <1>11, <1>12, <1>13, <1>14 DEF WriteLoop

LEMMA OnePlaceAlways == Spec => []OnePlace
<1>1. Init => OnePlace
  <2> SUFFICES ASSUME Init PROVE OnePlace
    OBVIOUS
  <2>1. /\ free = Buffers /\ prio = <<>> /\ out = <<>> /\ batch = <<>>
        /\ \A p \in Producers : hand[p] = Empty
    BY DEF Init
  <2>2. Held = {}
    BY <2>1 DEF Held
  <2>3. Parted(free, Held, Elems(prio), Elems(out), Elems(batch))
    BY <2>1, <2>2, ElemsShort DEF Parted
  <2> QED BY <2>1, <2>3, ElemsShort DEF OnePlace
<1>2. IInv /\ OnePlace /\ [Next]_vars => OnePlace'
  <2> SUFFICES ASSUME IInv, OnePlace, [Next]_vars PROVE OnePlace'
    OBVIOUS
  <2>1. CASE UNCHANGED vars
    BY <2>1 DEF vars, OnePlace, Held
  <2>2. CASE Next
    BY <2>2, ProducerOnePlace, WriteLoopOnePlace DEF Next
  <2> QED BY <2>1, <2>2
<1> QED BY <1>1, <1>2, InductiveInvariant, PTL DEF Spec

-------------------------------------------------------------------------------
\* Counting.

LEMMA ElemsCount ==
    ASSUME NEW s \in Seq(Buffers), Distinct(s)
    PROVE  IsFiniteSet(Elems(s)) /\ Cardinality(Elems(s)) = Len(s)
<1>1. DOMAIN s = 1 .. Len(s) /\ Len(s) \in Nat /\ s \in [1 .. Len(s) -> Buffers]
  OBVIOUS
<1>2. IsFiniteSet(1 .. Len(s)) /\ Cardinality(1 .. Len(s)) = Len(s)
  <2>1. /\ IsFiniteSet(1 .. Len(s))
        /\ Cardinality(1 .. Len(s)) = IF 1 > Len(s) THEN 0 ELSE Len(s) - 1 + 1
    BY <1>1, FS_Interval
  <2> QED BY <1>1, <2>1
<1>3. s \in Surjection(1 .. Len(s), Elems(s)) /\ s \in Injection(1 .. Len(s), Elems(s))
  <2>1. s \in [1 .. Len(s) -> Elems(s)]
    BY <1>1 DEF Elems
  <2>2. \A x \in Elems(s) : \E i \in 1 .. Len(s) : s[i] = x
    BY <1>1 DEF Elems
  <2>3. \A i, j \in 1 .. Len(s) : s[i] = s[j] => i = j
    BY <1>1 DEF Distinct
  <2> QED BY <1>1, <2>1, <2>2, <2>3 DEF Surjection, Injection, IsInjective
<1> QED BY <1>2, <1>3, FS_Surjection

LEMMA HandsCount ==
    ASSUME OnePlace
    PROVE  /\ IsFiniteSet(Held)
           /\ Cardinality({p \in Producers : hand[p] # Empty}) = Cardinality(Held)
<1> DEFINE B == {p \in Producers : hand[p] # Empty}
           f == [p \in B |-> hand[p].buf]
<1>1. IsFiniteSet(Held)
  <2>1. Held \subseteq Buffers /\ IsFiniteSet(Buffers)
    BY SizesAssumption DEF OnePlace, Parted
  <2> QED BY <2>1, FS_Subset
<1>2. f \in [B -> Held]
  BY DEF Held
<1>3. f \in Injection(B, Held) /\ f \in Surjection(B, Held)
  <2>1. \A p, q \in B : f[p] = f[q] => p = q
    BY DEF OnePlace
  <2>2. \A x \in Held : \E p \in B : f[p] = x
    BY DEF Held
  <2> QED BY <1>2, <2>1, <2>2 DEF Surjection, Injection, IsInjective
<1> QED BY <1>1, <1>3, FS_Injection

LEMMA PartsCount ==
    ASSUME NEW F, NEW H, NEW P, NEW O, NEW B, Parted(F, H, P, O, B)
    PROVE  Cardinality(Buffers) = Cardinality(F) + Cardinality(P) + Cardinality(O)
                                    + Cardinality(B) + Cardinality(H)
<1>1. IsFiniteSet(F) /\ IsFiniteSet(H) /\ IsFiniteSet(P) /\ IsFiniteSet(O) /\ IsFiniteSet(B)
  BY SizesAssumption, FS_Subset DEF Parted
<1>2. ASSUME NEW S, NEW T, IsFiniteSet(S), IsFiniteSet(T), S \cap T = {}
      PROVE  /\ IsFiniteSet(S \cup T)
             /\ Cardinality(S \cup T) = Cardinality(S) + Cardinality(T)
             /\ Cardinality(S) \in Nat /\ Cardinality(T) \in Nat
  <2>1. /\ IsFiniteSet(S \cup T)
        /\ Cardinality(S \cup T) = Cardinality(S) + Cardinality(T) - Cardinality(S \cap T)
    BY <1>2, FS_Union
  <2>2. Cardinality(S) \in Nat /\ Cardinality(T) \in Nat /\ Cardinality(S \cap T) = 0
    BY <1>2, FS_CardinalityType, FS_EmptySet, Zenon
  <2> QED BY <2>1, <2>2
<1>3. /\ IsFiniteSet(F \cup P) /\ Cardinality(F \cup P) = Cardinality(F) + Cardinality(P)
  BY <1>1, <1>2, Zenon DEF Parted
<1>4. /\ IsFiniteSet(F \cup P \cup O)
      /\ Cardinality(F \cup P \cup O) = Cardinality(F \cup P) + Cardinality(O)
  <2>1. (F \cup P) \cap O = {}
    BY DEF Parted
  <2> QED BY <1>1, <1>2, <1>3, <2>1, Zenon
<1>5. /\ IsFiniteSet(F \cup P \cup O \cup B)
      /\ Cardinality(F \cup P \cup O \cup B) = Cardinality(F \cup P \cup O) + Cardinality(B)
  <2>1. (F \cup P \cup O) \cap B = {}
    BY DEF Parted
  <2> QED BY <1>1, <1>2, <1>4, <2>1, Zenon
<1>6. Cardinality(F \cup P \cup O \cup B \cup H) =
        Cardinality(F \cup P \cup O \cup B) + Cardinality(H)
  <2>1. (F \cup P \cup O \cup B) \cap H = {}
    BY DEF Parted
  <2> QED BY <1>1, <1>2, <1>5, <2>1, Zenon
<1>7. F \cup P \cup O \cup B \cup H = Buffers
  BY DEF Parted
<1> QED BY <1>3, <1>4, <1>5, <1>6, <1>7

\* Whatever enqueue, the senders, the stale drops and drain do, every buffer of the
\* pool is in exactly one place: none is lost, none is queued or returned twice.
THEOREM BuffersKept == Spec => []BuffersAccounted
<1>1. TypeOK /\ OnePlace => BuffersAccounted
  <2> SUFFICES ASSUME TypeOK, OnePlace PROVE BuffersAccounted
    OBVIOUS
  <2>1. /\ prio \in Seq(Buffers) /\ out \in Seq(Buffers) /\ batch \in Seq(Buffers)
        /\ Distinct(prio) /\ Distinct(out) /\ Distinct(batch)
        /\ Parted(free, Held, Elems(prio), Elems(out), Elems(batch))
    BY LaneTypes DEF OnePlace
  <2>2. UNION {Places[f] : f \in DOMAIN Places} = Buffers
    <3>1. Places = [free |-> free, hand |-> Held, prio |-> Elems(prio), out |-> Elems(out),
                    batch |-> Elems(batch)]
      BY DEF Places, Held, Elems
    <3>2. UNION {Places[f] : f \in DOMAIN Places} =
            free \cup Held \cup Elems(prio) \cup Elems(out) \cup Elems(batch)
      BY <3>1
    <3> QED BY <2>1, <3>2 DEF Parted
  <2>3. /\ Cardinality(Elems(prio)) = Len(prio) /\ Cardinality(Elems(out)) = Len(out)
        /\ Cardinality(Elems(batch)) = Len(batch)
    BY <2>1, ElemsCount
  <2>4. Cardinality(Buffers) = Cardinality(free) + Cardinality(Elems(prio))
          + Cardinality(Elems(out)) + Cardinality(Elems(batch)) + Cardinality(Held)
    BY <2>1, PartsCount
  <2>5. Cardinality({p \in Producers : hand[p] # Empty}) = Cardinality(Held)
    BY HandsCount
  <2> QED BY <2>2, <2>3, <2>4, <2>5 DEF BuffersAccounted
<1> QED BY <1>1, OnePlaceAlways, TypeCorrect, PTL
===============================================================================
