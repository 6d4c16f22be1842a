------------------------------- MODULE TunRouter -------------------------------
(***************************************************************************)
(* tunRouter of cmd/server/tun_router.go: the table from client addresses  *)
(* to sessions that the relay goroutines fill from uplink packets, the     *)
(* reader goroutine (run) that looks a downlink packet's session up and    *)
(* queues it there, each session's writeLoop, and Close, which first       *)
(* closes done and only then takes the session out of the table.           *)
(*                                                                         *)
(* Steps are the critical sections of r.mu and single channel operations.  *)
(* sessionForPacket takes the lock twice, so another goroutine can run     *)
(* between its two lookups, and between the lookup and the enqueue.  A     *)
(* queue is the number of packets in it (RoutedSession models the lanes);  *)
(* the session's MTU only decides how many pieces of a packet are queued.  *)
(***************************************************************************)
EXTENDS Integers, FiniteSets

CONSTANTS Sessions,   \* the sessions ever registered (pointers, never reused)
          IPs,        \* client addresses that can be learned
          NoSession,  \* nil
          Unparsed,   \* a destination packetEndpoints cannot extract
          QueueCap,   \* routedSessionQueueSize
          MaxPieces   \* most pieces sendOversized emits for one packet

ASSUME ConstantsAssumption ==
    /\ NoSession \notin Sessions
    /\ Unparsed \notin IPs
    /\ QueueCap \in Nat \ {0}
    /\ MaxPieces \in Nat \ {0}

VARIABLES sessions,   \* r.sessions: the registered sessions
          byIP,       \* r.byIP
          ips,        \* s.ips of every session
          closing,    \* progress of s.Close: "no", "done closed", "removed"
          loop,       \* writeLoop of every session: "none", "running", "exited"
          queued,     \* packets in the session's lanes
          reader,     \* the goroutine of run and the packet it holds
          talker,     \* history: the active session that last used an address
          late        \* history: packets read that reached s after its removal

routerVars == <<sessions, byIP, ips, closing, loop, queued, reader, talker, late>>

Reader(pc, dst, sess, left) ==
    [pc |-> pc, dst |-> dst, sess |-> sess, left |-> left]

Idle == Reader("read", Unparsed, NoSession, 0)

RouterInit ==
    /\ sessions = {}
    /\ byIP = [ip \in IPs |-> NoSession]
    /\ ips = [s \in Sessions |-> {}]
    /\ closing = [s \in Sessions |-> "no"]
    /\ loop = [s \in Sessions |-> "none"]
    /\ queued = [s \in Sessions |-> 0]
    /\ reader = Idle
    /\ talker = [ip \in IPs |-> NoSession]
    /\ late = [s \in Sessions |-> 0]

\* registerSession: a new session enters the table and its writeLoop starts.
Register(s) ==
    /\ loop[s] = "none"
    /\ sessions' = sessions \cup {s}
    /\ loop' = [loop EXCEPT ![s] = "running"]
    /\ UNCHANGED <<byIP, ips, closing, queued, reader, talker, late>>

\* Mutant: a taken-over address stays in the previous owner's ips.
LearnKeepsOldOwner(s, src) ==
    /\ loop[s] # "none"
    /\ IF s \in sessions /\ src \notin ips[s]
       THEN /\ ips' = [ips EXCEPT ![s] = @ \cup {src}]
            /\ byIP' = [byIP EXCEPT ![src] = s]
       ELSE UNCHANGED <<ips, byIP>>
    /\ talker' = IF s \in sessions THEN [talker EXCEPT ![src] = s] ELSE talker
    /\ UNCHANGED <<sessions, closing, loop, queued, reader, late>>

\* learnFromClientPacket for a source address that may be learned.  A relay
\* goroutine of a closed session can still get here.
Learn(s, src) ==
    /\ loop[s] # "none"
    /\ IF s \in sessions /\ src \notin ips[s]
       THEN LET prev == byIP[src]
            IN  /\ ips' = [q \in Sessions |->
                             IF q = s THEN ips[q] \cup {src}
                             ELSE IF q = prev THEN ips[q] \ {src}
                             ELSE ips[q]]
                /\ byIP' = [byIP EXCEPT ![src] = s]
       ELSE UNCHANGED <<ips, byIP>>
    /\ talker' = IF s \in sessions THEN [talker EXCEPT ![src] = s] ELSE talker
    /\ UNCHANGED <<sessions, closing, loop, queued, reader, late>>

\* Close, first half: close(s.done), before the table's lock is taken.
CloseDone(s) ==
    /\ loop[s] # "none"
    /\ closing[s] = "no"
    /\ closing' = [closing EXCEPT ![s] = "done closed"]
    /\ UNCHANGED <<sessions, byIP, ips, loop, queued, reader, talker, late>>

\* Mutant: Close leaves the session in the table.
CloseForgetsTable(s) ==
    /\ closing[s] = "done closed"
    /\ closing' = [closing EXCEPT ![s] = "removed"]
    /\ UNCHANGED <<sessions, byIP, ips, loop, queued, reader, talker, late>>

\* Close, second half, under r.mu: out of sessions, and out of byIP wherever
\* the session still owns the address.
CloseRemove(s) ==
    /\ closing[s] = "done closed"
    /\ closing' = [closing EXCEPT ![s] = "removed"]
    /\ sessions' = sessions \ {s}
    /\ byIP' = [ip \in IPs |-> IF ip \in ips[s] /\ byIP[ip] = s
                               THEN NoSession ELSE byIP[ip]]
    /\ UNCHANGED <<ips, loop, queued, reader, talker, late>>

-------------------------------------------------------------------------------
\* run: a packet arrives from the TUN; sessionForPacket's first critical
\* section looks its destination up in byIP.
ReadPacket(dst) ==
    /\ reader.pc = "read"
    /\ reader' = IF dst \in IPs /\ byIP[dst] # NoSession
                 THEN Reader("pieces", dst, byIP[dst], 0)
                 ELSE Reader("single", dst, NoSession, 0)
    /\ UNCHANGED <<sessions, byIP, ips, closing, loop, queued, talker, late>>

\* Mutant: the fallback takes some session, not the only one.
AnySession ==
    /\ reader.pc = "single"
    /\ \/ \E s \in sessions : reader' = Reader("pieces", reader.dst, s, 0)
       \/ sessions = {} /\ reader' = Idle
    /\ UNCHANGED <<sessions, byIP, ips, closing, loop, queued, talker, late>>

\* singleSession, the second critical section: the only session there is, or
\* the packet is dropped.
SingleSession ==
    /\ reader.pc = "single"
    /\ \/ \E s \in sessions : /\ sessions = {s}
                              /\ reader' = Reader("pieces", reader.dst, s, 0)
       \/ /\ \A s \in sessions : sessions # {s}
          /\ reader' = Idle
    /\ UNCHANGED <<sessions, byIP, ips, closing, loop, queued, talker, late>>

\* The packet fits, or is split into pieces, or is too large and cannot be.
CutPacket(n) ==
    /\ reader.pc = "pieces"
    /\ reader' = IF n = 0 THEN Idle
                 ELSE Reader("enqueue", reader.dst, reader.sess, n)
    /\ late' = IF closing[reader.sess] = "removed"
               THEN [late EXCEPT ![reader.sess] = @ + 1] ELSE late
    /\ UNCHANGED <<sessions, byIP, ips, closing, loop, queued, talker>>

\* enqueue: into a lane with room, also when done is closed (select may pick
\* either); otherwise the piece is dropped.
Enqueue ==
    LET s == reader.sess
    IN  /\ reader.pc = "enqueue"
        /\ reader' = IF reader.left = 1 THEN Idle
                     ELSE Reader("enqueue", reader.dst, s, reader.left - 1)
        /\ \/ /\ queued[s] < QueueCap
              /\ queued' = [queued EXCEPT ![s] = @ + 1]
           \/ /\ queued[s] = QueueCap \/ closing[s] # "no"
              /\ UNCHANGED queued
        /\ UNCHANGED <<sessions, byIP, ips, closing, loop, talker, late>>

\* A TUN read error ends run.
ReadError ==
    /\ reader.pc = "read"
    /\ reader' = Reader("stopped", Unparsed, NoSession, 0)
    /\ UNCHANGED <<sessions, byIP, ips, closing, loop, queued, talker, late>>

\* writeLoop sends a queued packet.
SendOne(s) ==
    /\ loop[s] = "running"
    /\ queued[s] > 0
    /\ queued' = [queued EXCEPT ![s] = @ - 1]
    /\ UNCHANGED <<sessions, byIP, ips, closing, loop, reader, talker, late>>

\* writeLoop picks done: it drains both lanes and returns.
Drain(s) ==
    /\ loop[s] = "running"
    /\ closing[s] # "no"
    /\ loop' = [loop EXCEPT ![s] = "exited"]
    /\ queued' = [queued EXCEPT ![s] = 0]
    /\ UNCHANGED <<sessions, byIP, ips, closing, reader, talker, late>>

RouterNext ==
    \/ \E s \in Sessions : \/ Register(s)
                           \/ \E src \in IPs : Learn(s, src)
                           \/ CloseDone(s) \/ CloseRemove(s)
                           \/ SendOne(s) \/ Drain(s)
    \/ \E dst \in IPs \cup {Unparsed} : ReadPacket(dst)
    \/ SingleSession
    \/ \E n \in 0 .. MaxPieces : CutPacket(n)
    \/ Enqueue
    \/ ReadError

RouterSpec == RouterInit /\ [][RouterNext]_routerVars

\* Close runs to its end once started (it only waits for r.mu, which nobody
\* holds across a blocking call) and a runnable writeLoop runs.
Fairness == \A s \in Sessions : WF_routerVars(CloseRemove(s)) /\ WF_routerVars(SendOne(s) \/ Drain(s))

RouterFairSpec == RouterSpec /\ Fairness

-------------------------------------------------------------------------------
\* The router's fields, the session's and the reader's state are well formed.
RouterTypeOK ==
    /\ sessions \in SUBSET Sessions
    /\ byIP \in [IPs -> Sessions \cup {NoSession}]
    /\ ips \in [Sessions -> SUBSET IPs]
    /\ closing \in [Sessions -> {"no", "done closed", "removed"}]
    /\ loop \in [Sessions -> {"none", "running", "exited"}]
    /\ queued \in [Sessions -> 0 .. QueueCap]
    /\ reader \in [pc   : {"read", "single", "pieces", "enqueue", "stopped"},
                   dst  : IPs \cup {Unparsed},
                   sess : Sessions \cup {NoSession},
                   left : 0 .. MaxPieces]
    /\ talker \in [IPs -> Sessions \cup {NoSession}]
    /\ late \in [Sessions -> Nat]

\* byIP and the ips sets of the registered sessions are one relation seen from
\* both ends.  learnFromClientPacket's early return (address already in s.ips)
\* and Close's loop over s.ips are only right because of this.
RoutesExact ==
    \A ip \in IPs, s \in Sessions :
        byIP[ip] = s <=> s \in sessions /\ ip \in ips[s]

\* An address belongs to the session that used it last, and to nobody once that
\* session is gone: takeovers between sessions, the early return and Close never
\* leave a stale owner behind.
LatestTalkerOwns ==
    \A ip \in IPs :
        byIP[ip] = IF talker[ip] \in sessions THEN talker[ip] ELSE NoSession

\* When run settles on a session for a packet, no other session owns the
\* packet's destination, although the two lookups are separate critical
\* sections.
NeverMisrouted ==
    [][ reader'.pc = "pieces" /\ reader.pc # "pieces" /\ reader'.dst \in IPs
          => byIP[reader'.dst] \in {NoSession, reader'.sess} ]_routerVars

\* A removed session can be handed at most the one packet that run had looked
\* up before the removal; after it the table can never lead there again.
StaleReadBound == \A s \in Sessions : late[s] <= 1

\* A closed session leaves the table and its writeLoop ends, whatever its queue
\* held and whatever run still puts into it.
ClosedSessionsEnd ==
    \A s \in Sessions :
        closing[s] # "no" ~> s \notin sessions /\ loop[s] = "exited"
===============================================================================
