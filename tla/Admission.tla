------------------------------- MODULE Admission -------------------------------
(***************************************************************************)
(* How a TCP connection becomes a session of the server (cmd/server/       *)
(* main.go, obsidian/reality.go, handshake.go, transport.go): the REALITY  *)
(* demuxer that looks at the first TLS record and hands the connection on  *)
(* or relays it to the masking site, and handleClient with its two         *)
(* limiters, the preface, the hello frame, both replay caches, the         *)
(* handshake and the revocation check.  A connection's bytes are a short   *)
(* sequence of items; an item that is read is named by its position.       *)
(***************************************************************************)
EXTENDS IPRateLimiter, Revocation, Sequences, FiniteSets

CONSTANTS Conns, None,   \* connection attempts, and no connection
          ClientKeys,    \* the static keys clients have
          Allowed,       \* allowed_clients
          MaxSlots,      \* max_handshakes
          Window,        \* replayWindowSec and DefaultAuthWindowSec (30 s), in ticks
          SidTTL,        \* DefaultReplayTTL of session ids (60 s)
          HelloTTL,      \* time to live of replayCache (2 min)
          CacheLimit,    \* size above which a cache purges (8192, 4096)
          Skews          \* how far a client's clock is ahead of the server's

VARIABLES mode,        \* "reality", or "preface" (TLS and plain TCP listeners)
          conn,        \* per connection: see ConnType
          backlog,     \* connections the kernel has accepted, oldest first
          front,       \* the connection processIncoming works on
          sidSeen,     \* RealityReplayCache.seen: session id -> expiry
          helloSeen,   \* handshakeReplayCache.seen: hello -> expiry
          active,      \* HandshakeRateLimiter.active
          opened,      \* history: connections that got a session, with their hello
          slipped      \* history: connections cleared although their key was listed

\* The limits are numbers, and a hello's entry in the replay cache (2 min) outlives
\* its window (30 s) even for a client whose clock is ahead.
ASSUME AdmissionAssumption ==
    /\ IsFiniteSet(Conns) /\ None \notin Conns
    /\ MaxSlots \in Nat /\ Window \in Nat /\ HelloTTL \in Nat /\ Skews \subseteq Int
    /\ Window < HelloTTL /\ \A s \in Skews : s + Window < HelloTTL

admVars == <<mode, conn, backlog, front, sidSeen, helloSeen, active, opened, slipped>>
vars == <<limVars, revVars, admVars>>

KeepFront    == UNCHANGED <<backlog, front, sidSeen>>
KeepLists    == UNCHANGED <<limVars, revVars, mode>>
KeepHandlers == KeepLists /\ UNCHANGED <<helloSeen, active, opened, slipped>>

-------------------------------------------------------------------------------
\* What peers send.  "client" is our client: it waits for the TLS answer before
\* its hello and gives up after its deadlines; "copy" sends again, at once, the
\* bytes an earlier client has sent; "browser" speaks TLS without a token; "other" does not.

RecLen == 2    \* a TLS record arrives in (at most) two reads

ClientBytes == IF mode = "reality" THEN <<"rec1", "rec2", "hello">>
                                   ELSE <<"preface", "junk", "hello">>

Script(kind) ==
    CASE kind = "browser" -> <<"rec1", "rec2">>
      [] kind = "other"   -> <<"data">>
      [] OTHER            -> ClientBytes

Item(c, i) == Script(conn[c].kind)[i]
Upto(a, b) == [i \in 1 .. (IF b < a THEN 0 ELSE b - a + 1) |-> a + i - 1]

PCs == {"idle", "backlog", "front", "fetch", "dialing", "relay", "relayUp",
        "start", "acquire", "swap", "preface", "hello", "seen", "auth", "reply",
        "session", "closed"}

ConnType == [pc    : PCs,
             from  : Addrs, key : ClientKeys,  \* the peer's address, its client's key
             kind  : {"client", "copy", "browser", "other"},
             tok   : Conns,                    \* whose token and hello it carries
             ts    : Int,                      \* the time stamp in them
             sent  : 0 .. 3, taken : 0 .. 3,   \* items sent, and read from the socket
             peek  : Seq(1 .. 3),              \* peekedConn.peeked
             got   : Seq(1 .. 3),              \* what the handler or the site read
             cur   : Nat,                      \* Acquire's loaded value
             tls   : BOOLEAN,                  \* the TLS answer was written
             gone  : BOOLEAN]                  \* the peer closed its end

Idle(c, a, k) ==
    [pc |-> "idle", from |-> a, key |-> k, kind |-> "other", tok |-> c, ts |-> 0,
     sent |-> 0, taken |-> 0, peek |-> << >>, got |-> << >>, cur |-> 0, tls |-> FALSE, gone |-> FALSE]

Init ==
    /\ LimInit /\ RevInit(now)
    /\ mode \in {"reality", "preface"}
    /\ \E from \in [Conns -> Addrs], key \in [Conns -> ClientKeys] :
           conn = [c \in Conns |-> Idle(c, from[c], key[c])]
    /\ backlog = << >> /\ front = None
    /\ sidSeen = << >> /\ helloSeen = << >>
    /\ active = 0
    /\ opened = {} /\ slipped = {}

\* DialObsidian, DialObsidianREALITY, or a stranger's connect.  To a preface
\* listener all strangers look alike.
Dial(c) ==
    /\ conn[c].pc = "idle"
    /\ \/ \E kind \in {"browser", "other"} :
            /\ kind = "browser" => mode = "reality"
            /\ conn' = [conn EXCEPT ![c].pc = "backlog", ![c].kind = kind]
       \/ \E skew \in Skews :
            conn' = [conn EXCEPT ![c].pc = "backlog", ![c].kind = "client",
                                 ![c].ts = now + skew]
       \/ \E d \in Conns \ {c} :
            /\ conn[d].kind = "client" /\ conn[d].sent > 0
            /\ conn' = [conn EXCEPT ![c].pc = "backlog", ![c].kind = "copy",
                                    ![c].tok = d, ![c].ts = conn[d].ts,
                                    ![c].sent = conn[d].sent]
    /\ backlog' = Append(backlog, c)
    /\ UNCHANGED <<front, sidSeen>> /\ KeepHandlers

\* GenerateSessionID and BuildTLSClientHelloRecord, then BuildHello and
\* BuildHelloFrame: in REALITY mode our client sends the hello once it has read
\* the server's TLS record.  Bytes and a close only count once somebody reads or
\* writes, so both happen while the server does.
Reading == {"front", "preface", "hello", "relay"}

PeerSends(c) ==
    LET r == conn[c] IN
    /\ r.pc \in Reading /\ ~r.gone /\ r.kind # "copy" /\ r.sent < Len(Script(r.kind))
    /\ r.kind = "client" /\ mode = "reality" /\ r.sent = RecLen => r.tls
    /\ conn' = [conn EXCEPT ![c].sent = @ + 1]
    /\ KeepFront /\ KeepHandlers

\* A peer closes: our client after a read deadline, others when they like.
PeerCloses(c) ==
    /\ conn[c].pc \in Reading \cup {"fetch", "reply"} /\ ~conn[c].gone
    /\ conn' = [conn EXCEPT ![c].gone = TRUE]
    /\ KeepFront /\ KeepHandlers

Goto(c, l) == conn' = [conn EXCEPT ![c].pc = l]

\* conn.Close; only what others may send again of it is kept.
Shut(c) ==
    LET none  == Idle(c, conn[c].from, conn[c].key)
        again == [none EXCEPT !.kind = "client", !.ts = conn[c].ts, !.sent = conn[c].sent]
        kept  == IF conn[c].kind = "client" THEN again ELSE none
    IN  conn' = [conn EXCEPT ![c] = [kept EXCEPT !.pc = "closed"]]

-------------------------------------------------------------------------------
\* The replay caches: an expired entry counts as unseen, and a table above
\* CacheLimit drops its expired entries before it records a new one.

Replayed(cache, k) == k \in DOMAIN cache /\ now < cache[k]

Recorded(cache, k, ttl) ==
    LET kept == IF Cardinality(DOMAIN cache) > CacheLimit
                THEN {x \in DOMAIN cache : now < cache[x]} ELSE DOMAIN cache
    IN  [x \in kept \cup {k} |-> IF x = k THEN now + ttl ELSE cache[x]]

\* VerifySessionID and ProcessClientHello: within the window on either side.
Fresh(ts) == now - ts <= Window /\ ts - now <= Window

\* ParseTLSClientHello gets a session id and a name out of a whole record, and
\* VerifySessionID accepts what GenerateSessionID made for that name.
IsClientHello(c) == Item(c, 1) = "rec1"
TokenValid(c) == conn[c].kind \in {"client", "copy"} /\ Fresh(conn[c].ts)

-------------------------------------------------------------------------------
\* RealityDemuxer.Accept: one connection at a time goes through processIncoming.

AcceptReality ==
    /\ mode = "reality" /\ front = None /\ backlog # << >>
    /\ front' = Head(backlog) /\ backlog' = Tail(backlog)
    /\ conn' = [conn EXCEPT ![Head(backlog)].pc = "front"]
    /\ UNCHANGED sidSeen /\ KeepHandlers

\* The first read takes whatever has arrived, the later ones stop at the end of
\* the record.
recordRead(c) == conn[c].taken >= RecLen \/ (conn[c].taken > 0 /\ ~IsClientHello(c))

FrontReads(c) ==
    LET r == conn[c]
        most == IF r.taken = 0 \/ r.sent < RecLen THEN r.sent ELSE RecLen
    IN  /\ r.pc = "front" /\ ~recordRead(c)
        /\ \E k \in (r.taken + 1) .. most : conn' = [conn EXCEPT ![c].taken = k]
        /\ KeepFront /\ KeepHandlers

\* Mutant: without a read deadline only the peer's close ends the wait.
FrontFailsOnCloseOnly(c) ==
    /\ conn[c].pc = "front" /\ ~recordRead(c)
    /\ conn[c].gone /\ conn[c].sent = conn[c].taken
    /\ conn' = [conn EXCEPT ![c].pc = "dialing"] /\ front' = None
    /\ UNCHANGED <<backlog, sidSeen>> /\ KeepHandlers

\* A read fails, at the latest when HandshakeTimeout has passed: the bytes read
\* so far go to the masking site.
FrontFails(c) ==
    /\ conn[c].pc = "front" /\ ~recordRead(c)
    /\ conn' = [conn EXCEPT ![c].pc = "dialing"] /\ front' = None
    /\ UNCHANGED <<backlog, sidSeen>> /\ KeepHandlers

\* Parse, verify the token and consult the session-id cache; what is not a
\* fresh token of ours is relayed.
FrontDecides(c) ==
    LET r    == conn[c]
        pass == IsClientHello(c) /\ TokenValid(c) /\ ~Replayed(sidSeen, r.tok)
    IN  /\ r.pc = "front" /\ recordRead(c)
        /\ conn' = [conn EXCEPT ![c].pc = IF pass THEN "fetch" ELSE "dialing"]
        /\ sidSeen' = IF pass THEN Recorded(sidSeen, r.tok, SidTTL) ELSE sidSeen
        /\ front' = IF pass THEN c ELSE None
        /\ UNCHANGED backlog /\ KeepHandlers

\* Mutant: what was read beyond the record is dropped.
FrontAnswersDropsExtra(c) ==
    /\ conn[c].pc = "fetch"
    /\ \/ conn' = [conn EXCEPT ![c].pc = "start", ![c].tls = TRUE]
       \/ conn[c].gone /\ Shut(c)
    /\ front' = None
    /\ UNCHANGED <<backlog, sidSeen>> /\ KeepHandlers

\* The masking site's ServerHello, or one built here when it cannot be had, is
\* written; bytes beyond the record go in front of the stream (peekedConn).
FrontAnswers(c) ==
    /\ conn[c].pc = "fetch"
    /\ \/ conn' = [conn EXCEPT ![c].pc = "start", ![c].tls = TRUE,
                               ![c].peek = Upto(RecLen + 1, conn[c].taken)]
       \/ conn[c].gone /\ Shut(c)
    /\ front' = None
    /\ UNCHANGED <<backlog, sidSeen>> /\ KeepHandlers

\* TransparentSNIProxy: dial, flush the bytes already read, then copy both ways
\* until each direction has ended; the site's answer is a TLS answer, too.
RelayDials(c) ==
    /\ conn[c].pc = "dialing"
    /\ \/ conn' = [conn EXCEPT ![c].pc = "relay", ![c].got = Upto(1, conn[c].taken),
                               ![c].tls = TRUE]
       \/ Shut(c)
    /\ KeepFront /\ KeepHandlers

RelayCopies(c) ==
    /\ conn[c].pc = "relay" /\ conn[c].taken < conn[c].sent
    /\ conn' = [conn EXCEPT ![c].taken = @ + 1,
                            ![c].got = Append(@, conn[c].taken + 1)]
    /\ KeepFront /\ KeepHandlers

\* The peer's direction ends once the peer closed and everything was copied;
\* when the site's has ended, too, before or after, both ends are closed.
RelayEnds(c) ==
    LET r == conn[c] IN
    /\ \/ r.pc = "relay" /\ r.gone /\ r.taken = r.sent /\ Goto(c, "relayUp")
       \/ r.pc = "relayUp" /\ Shut(c)
    /\ KeepFront /\ KeepHandlers

-------------------------------------------------------------------------------
\* handleClient, one goroutine per connection.

AcceptPlain ==
    /\ mode = "preface" /\ backlog # << >>
    /\ backlog' = Tail(backlog)
    /\ conn' = [conn EXCEPT ![Head(backlog)].pc = "start"]
    /\ UNCHANGED <<front, sidSeen>> /\ KeepHandlers

\* Return from the handler: its deferred calls close the connection and, once
\* the slot is held, give it back.
Release(c) == Shut(c) /\ active' = active - 1

\* ipLimiter.Allow on the peer's address.
Gate(c) ==
    /\ conn[c].pc = "start"
    /\ \E ok \in BOOLEAN : /\ Allow(conn[c].from, ok)
                           /\ IF ok THEN Goto(c, "acquire") ELSE Shut(c)
    /\ KeepFront /\ UNCHANGED <<revVars, mode, helloSeen, active, opened, slipped>>

\* HandshakeRateLimiter.Acquire: load the count, then compare and swap.
AcquireLoads(c) ==
    /\ conn[c].pc = "acquire"
    /\ IF active >= MaxSlots THEN Shut(c)
       ELSE conn' = [conn EXCEPT ![c].pc = "swap", ![c].cur = active]
    /\ KeepFront /\ KeepHandlers

\* Mutant: the count is stored without comparing it again.
AcquireStores(c) ==
    /\ conn[c].pc = "swap"
    /\ active' = conn[c].cur + 1
    /\ conn' = [conn EXCEPT ![c].cur = 0,
                            ![c].pc = IF mode = "reality" THEN "hello" ELSE "preface"]
    /\ KeepFront /\ KeepLists /\ UNCHANGED <<helloSeen, opened, slipped>>

AcquireSwaps(c) ==
    LET won == active = conn[c].cur
        first == IF mode = "reality" THEN "hello" ELSE "preface"
    IN  /\ conn[c].pc = "swap"
        /\ active' = IF won THEN active + 1 ELSE active
        /\ conn' = [conn EXCEPT ![c].cur = 0, ![c].pc = IF won THEN first ELSE "acquire"]
        /\ KeepFront /\ KeepLists /\ UNCHANGED <<helloSeen, opened, slipped>>

\* peekedConn.Read: the peeked bytes first, then the socket.
Arrived(c) == conn[c].peek # << >> \/ conn[c].taken < conn[c].sent
NextPos(c) == IF conn[c].peek # << >> THEN Head(conn[c].peek) ELSE conn[c].taken + 1

Read(c, l) ==
    conn' = [conn EXCEPT ![c].pc = l, ![c].got = Append(@, NextPos(c)),
                         ![c].peek  = IF @ # << >> THEN Tail(@) ELSE @,
                         ![c].taken = IF conn[c].peek # << >> THEN @ ELSE @ + 1]

\* RecvHTTP2Preface, before any deadline is set: only bytes or the peer's close
\* end the wait.
Preface(c) ==
    /\ conn[c].pc = "preface"
    /\ \/ /\ Arrived(c) /\ Item(c, NextPos(c)) = "preface"
          /\ Read(c, "hello") /\ UNCHANGED active
       \/ /\ IF Arrived(c) THEN Item(c, NextPos(c)) # "preface" ELSE conn[c].gone
          /\ Release(c)
    /\ KeepFront /\ KeepLists /\ UNCHANGED <<helloSeen, opened, slipped>>

\* ReadHelloFrame slides over what is not a hello frame.
Hello(c) ==
    /\ conn[c].pc = "hello" /\ Arrived(c)
    /\ Read(c, IF Item(c, NextPos(c)) = "hello" THEN "seen" ELSE "hello")
    /\ KeepFront /\ KeepHandlers

\* The 6 s deadline, the end of the stream, or more than 4096 bytes scanned.
HelloFails(c) ==
    /\ conn[c].pc = "hello"
    /\ Release(c)
    /\ KeepFront /\ KeepLists /\ UNCHANGED <<helloSeen, opened, slipped>>

\* Mutant: an entry lives no longer than the clock window.
SeenForWindow(c) ==
    LET k == conn[c].tok IN
    /\ conn[c].pc = "seen"
    /\ IF Replayed(helloSeen, k)
       THEN Release(c) /\ UNCHANGED helloSeen
       ELSE /\ Goto(c, "auth") /\ UNCHANGED active
            /\ helloSeen' = Recorded(helloSeen, k, Window)
    /\ KeepFront /\ KeepLists /\ UNCHANGED <<opened, slipped>>

\* handshakeReplayCache.Seen
Seen(c) ==
    LET k == conn[c].tok IN
    /\ conn[c].pc = "seen"
    /\ IF Replayed(helloSeen, k)
       THEN Release(c) /\ UNCHANGED helloSeen
       ELSE /\ Goto(c, "auth") /\ UNCHANGED active
            /\ helloSeen' = Recorded(helloSeen, k, HelloTTL)
    /\ KeepFront /\ KeepLists /\ UNCHANGED <<opened, slipped>>

\* ProcessClientHello: the time stamp, then the allow list; a hello of ours
\* decrypts and its proofs hold.
HelloValid(c) == Fresh(conn[c].ts) /\ conn[conn[c].tok].key \in Allowed

AuthFails(c) ==
    /\ conn[c].pc = "auth" /\ ~HelloValid(c)
    /\ Release(c)
    /\ KeepFront /\ KeepLists /\ UNCHANGED <<helloSeen, opened, slipped>>

\* A valid hello's key is looked up in the revocation store.
CheckRevoked(c) ==
    LET key == conn[conn[c].tok].key IN
    /\ conn[c].pc = "auth" /\ HelloValid(c)
    /\ \E verdict \in BOOLEAN :
         /\ IsRevoked(key, verdict)
         /\ IF verdict THEN Release(c) ELSE Goto(c, "reply") /\ UNCHANGED active
         /\ slipped' = IF ~verdict /\ key \in listed' THEN slipped \cup {c} ELSE slipped
    /\ KeepFront /\ UNCHANGED <<limVars, mode, helloSeen, opened>>

\* The server hello is written, the tunnel made and the relay of the session
\* started; a write to a peer that is gone may fail.
Reply(c) ==
    /\ conn[c].pc = "reply"
    /\ \/ Goto(c, "session") /\ opened' = opened \cup {<<c, conn[c].tok>>} /\ UNCHANGED active
       \/ conn[c].gone /\ Release(c) /\ UNCHANGED opened
    /\ KeepFront /\ KeepLists /\ UNCHANGED <<helloSeen, slipped>>

\* The relay loops return; the deferred calls close route, UDP session and
\* tunnel and give the slot back.
SessionEnds(c) ==
    /\ conn[c].pc = "session"
    /\ Release(c)
    /\ KeepFront /\ KeepLists /\ UNCHANGED <<helloSeen, opened, slipped>>

-------------------------------------------------------------------------------
Clock == Tick /\ UNCHANGED <<revVars, admVars>>

KeyServer == KeyServerTouches(now) /\ UNCHANGED <<limVars, admVars>>

FrontStep(c) == FrontReads(c) \/ FrontFails(c) \/ FrontDecides(c) \/ FrontAnswers(c)

HandlerStep(c) ==
    \/ Gate(c) \/ AcquireLoads(c) \/ AcquireSwaps(c) \/ Preface(c) \/ Hello(c)
    \/ HelloFails(c) \/ Seen(c) \/ AuthFails(c) \/ CheckRevoked(c) \/ Reply(c)

RelayStep(c) == RelayDials(c) \/ RelayCopies(c)

Next ==
    \/ Clock \/ KeyServer \/ AcceptReality \/ AcceptPlain
    \/ \E c \in Conns : \/ Dial(c) \/ PeerSends(c) \/ PeerCloses(c)
                        \/ FrontStep(c) \/ HandlerStep(c) \/ RelayStep(c)
                        \/ RelayEnds(c) \/ SessionEnds(c)

\* The goroutine that has a connection is scheduled and its deadlines fire; a
\* peer, the masking site and a session's end are not obliged to anything.
Fairness ==
    /\ WF_vars(AcceptReality \/ AcceptPlain)
    /\ \A c \in Conns : WF_vars(FrontStep(c) \/ HandlerStep(c) \/ RelayStep(c))

Spec == Init /\ [][Next]_vars /\ Fairness

-------------------------------------------------------------------------------
TypeOK ==
    /\ LimTypeOK /\ RevTypeOK
    /\ conn \in [Conns -> ConnType]
    /\ front \in Conns \cup {None}
    /\ active \in 0 .. MaxSlots

Holding == {"preface", "hello", "seen", "auth", "reply", "session"}

\* Slots are neither lost nor exceeded: the atomic counter equals the number of
\* handlers between a successful Acquire and their deferred Release, whatever
\* order the compare-and-swap loops and the early returns of handleClient take
\* (obfuscation.go:222-236, main.go:357-412).
SlotsExact ==
    /\ active = Cardinality({c \in Conns : conn[c].pc \in Holding})
    /\ active <= MaxSlots

\* A hello opens at most one session, although it stays valid for a whole clock
\* window on either side of its time stamp, expired entries leave the caches and
\* the same bytes may come in over another connection (main.go:493-513,
\* handshake.go:588-592).
OneSessionPerHello ==
    \A s, t \in opened : s[2] = t[2] => s = t

\* A key that the revocation file lists while it can be read, now or at an
\* earlier look-up, is refused, although the file is only read again when its
\* time has advanced (revocation.go:43-99).  A server whose file did not parse at its
\* start has no store and looks nothing up.
RevokedRefused == slipped = {}

\* Whoever ends up with a connection, the handler or the masking site, has read
\* or still has before it every byte taken from the socket, in order and once,
\* although the demuxer has read ahead: the site all of them, the handler those
\* after the TLS record
\* (reality.go:378-383, 427-437, 635-640).
StreamIntact ==
    \A c \in Conns :
        LET r == conn[c]
            first == IF r.pc \in Holding /\ mode = "reality" THEN RecLen + 1 ELSE 1
        IN  r.pc \in Holding \cup {"relay", "relayUp"} =>
                r.got \o r.peek = Upto(first, r.taken)

\* Every connection to a REALITY listener is decided: silent and slow peers
\* hold up the demuxer and the handler no longer than their deadlines
\* (reality.go:521-570, main.go:376).
EveryConnectionDecided ==
    \A c \in Conns :
        (mode = "reality" /\ conn[c].pc = "backlog")
            ~> conn[c].pc \in {"session", "relay", "relayUp", "closed"}

\* What the store's comment promises of the static deny list: its keys get no
\* session (revocation.go:14-16).
StaticDenyApplies == \A s \in opened : conn[s[2]].key \notin StaticKeys
===============================================================================
