----------------------------- MODULE UdpMuxProofs -----------------------------
(***************************************************************************)
(* Proofs about UdpMux, for any number of sessions, listeners, addresses   *)
(* and datagrams: a payload is delivered once, only authenticated          *)
(* datagrams move a client's address, and no nonce is used twice.          *)
(***************************************************************************)
EXTENDS UdpMux, FiniteSetTheorems, TLAPS

RxType  == [pc : {"read", "lookup", "store mru", "open", "addr", "conn", "push", "echo",
                  "echoing"},
            sess : Sessions \cup {Nil}, ctr : Nat, kind : {"junk", "data", "probe"},
            addr : Addrs \cup {Nil}]
SndType == [pc : {"idle", "ctr", "write"}, sess : Sessions \cup {Nil}, ctr : Nat]

\* What a listener works on is a datagram of some session, and one that it has
\* authenticated came from a client.
Receiving ==
    /\ net \subseteq [sess : Sessions, ctr : Ctrs, kind : {"data", "probe"}] /\ IsFiniteSet(net)
    /\ rx \in [Listeners -> RxType]
    /\ \A l \in Listeners : rx[l].pc # "read" =>
           /\ rx[l].sess \in Sessions /\ rx[l].addr \in Addrs
           /\ rx[l].kind # "junk" => rx[l].ctr \in Ctrs
           /\ rx[l].kind = "junk" => rx[l].pc \in {"lookup", "store mru", "open"}

\* The listener is between the replay window and the queue.
Working(l) == rx[l].pc \in {"addr", "conn", "push"}

\* Each accepted counter is with one listener, or has been queued once, or is gone.
OneCarrier ==
    /\ seen \in [Sessions -> SUBSET Ctrs] /\ pushed \in [Sessions -> [Ctrs -> Nat]]
    /\ \A l \in Listeners : Working(l) =>
           rx[l].ctr \in seen[rx[l].sess] /\ pushed[rx[l].sess][rx[l].ctr] = 0
    /\ \A l, m \in Listeners : Working(l) /\ Working(m)
           /\ rx[l].sess = rx[m].sess /\ rx[l].ctr = rx[m].ctr => l = m
    /\ \A s \in Sessions, c \in Ctrs : pushed[s][c] <= 1 /\ (c \notin seen[s] => pushed[s][c] = 0)

\* The address and socket a listener is about to store are recorded as adopted.
Adopting ==
    /\ adopted \in [Sessions -> SUBSET (Ctrs \X Addrs \X Listeners)]
    /\ clientAddr \in [Sessions -> Addrs \cup {Nil}]
    /\ activeConn \in [Sessions -> Listeners \cup {Nil}]
    /\ \A l \in Listeners : rx[l].pc \in {"addr", "conn"} =>
           <<rx[l].ctr, rx[l].addr, l>> \in adopted[rx[l].sess]
    /\ \A s \in Sessions : \A t \in adopted[s] : t[1] \in seen[s]
    /\ AddressAuthentic

\* A counter is handed out once: to a Send that has not written it yet, or it is written.
OneNonce ==
    /\ sendCtr \in [Sessions -> Nat] /\ snd \in [Senders -> SndType]
    /\ emitted \in [Sessions -> [0 .. (MaxSend - 1) -> Nat]]
    /\ \A p \in Senders : snd[p].pc # "idle" => snd[p].sess \in Sessions
    /\ \A p \in Senders : snd[p].pc = "write" =>
           /\ snd[p].ctr \in 0 .. (MaxSend - 1) /\ snd[p].ctr < sendCtr[snd[p].sess]
           /\ emitted[snd[p].sess][snd[p].ctr] = 0
    /\ \A p, q \in Senders : snd[p].pc = "write" /\ snd[q].pc = "write"
           /\ snd[p].sess = snd[q].sess /\ snd[p].ctr = snd[q].ctr => p = q
    /\ \A s \in Sessions, c \in 0 .. (MaxSend - 1) :
           emitted[s][c] <= 1 /\ (c >= sendCtr[s] => emitted[s][c] = 0)

-------------------------------------------------------------------------------
LEMMA MuxInit == Init => Receiving /\ OneCarrier /\ Adopting /\ OneNonce
  <1> SUFFICES ASSUME Init PROVE Receiving /\ OneCarrier /\ Adopting /\ OneNonce
    OBVIOUS
  <1> USE MuxAssumption DEF Init
  <1>1. Receiving
    BY FS_EmptySet DEF Receiving, RxType, NoRx
  <1>2. OneCarrier
    BY DEF OneCarrier, Working, NoRx, Ctrs
  <1>3. Adopting
    BY DEF Adopting, AddressAuthentic, NoRx
  <1>4. OneNonce
    BY DEF OneNonce, SndType, NoSnd
  <1> QED BY <1>1, <1>2, <1>3, <1>4

\* Nonces.  Only the steps of a Send matter.
LEMMA NonceStep ==
    ASSUME OneNonce, Receiving, [Next]_vars
    PROVE  OneNonce'
  <1> USE MuxAssumption
  <1>1. CASE UNCHANGED <<sendCtr, snd, emitted>>
    BY <1>1 DEF OneNonce
  <1>2. ASSUME NEW p \in Senders, NEW s \in Sessions, SendBegin(p, s),
               UNCHANGED <<sendCtr, emitted>>
        PROVE  OneNonce'
    <2>1. snd' \in [Senders -> SndType]
      BY <1>2 DEF OneNonce, SendBegin, SndType, NoSnd
    <2>2. snd'[p].pc # "write" /\ (snd'[p].pc # "idle" => snd'[p].sess = s)
      BY <1>2 DEF OneNonce, SendBegin, NoSnd
    <2>3. \A q \in Senders \ {p} : snd'[q] = snd[q]
      BY <1>2 DEF OneNonce, SendBegin
    <2>4. \A q \in Senders : snd'[q].pc = "write" => q # p /\ snd'[q] = snd[q]
      BY <2>2, <2>3
    <2>5. \A q \in Senders : snd'[q].pc # "idle" => snd'[q].sess \in Sessions
      BY <1>2, <2>2, <2>3 DEF OneNonce
    <2>6. \A q \in Senders : snd'[q].pc = "write" =>
             /\ snd'[q].ctr \in 0 .. (MaxSend - 1) /\ snd'[q].ctr < sendCtr[snd'[q].sess]
             /\ emitted[snd'[q].sess][snd'[q].ctr] = 0
      BY <2>4 DEF OneNonce
    <2>7. \A q, r \in Senders : snd'[q].pc = "write" /\ snd'[r].pc = "write"
             /\ snd'[q].sess = snd'[r].sess /\ snd'[q].ctr = snd'[r].ctr => q = r
      BY <2>4 DEF OneNonce
    <2> QED BY <1>2, <2>1, <2>5, <2>6, <2>7 DEF OneNonce
  <1>3. ASSUME NEW p \in Senders, TakeCtr(p)
        PROVE  OneNonce'
    <2> DEFINE s == snd[p].sess
    <2>1. s \in Sessions /\ sendCtr[s] \in Nat /\ sendCtr[s] < MaxSend /\ snd[p].pc = "ctr"
          /\ UNCHANGED emitted
      BY <1>3 DEF TakeCtr, OneNonce, history
    <2>2. snd' \in [Senders -> SndType] /\ snd'[p].pc = "write" /\ snd'[p].sess = s
          /\ snd'[p].ctr = sendCtr[s] /\ \A q \in Senders \ {p} : snd'[q] = snd[q]
      <3> DEFINE r == [snd[p] EXCEPT !.pc = "write", !.ctr = sendCtr[s]]
      <3>1. snd \in [Senders -> SndType] /\ snd' = [snd EXCEPT ![p] = r]
        BY <1>3 DEF TakeCtr, OneNonce
      <3>2. r \in SndType /\ r.pc = "write" /\ r.sess = s /\ r.ctr = sendCtr[s]
        <4>1. snd[p] \in SndType
          BY <3>1
        <4> QED BY <2>1, <4>1, Zenon DEF SndType
      <3> HIDE DEF r
      <3> QED BY <3>1, <3>2
    <2>3. sendCtr' \in [Sessions -> Nat] /\ sendCtr'[s] = sendCtr[s] + 1
          /\ \A u \in Sessions \ {s} : sendCtr'[u] = sendCtr[u]
      BY <1>3, <2>1 DEF TakeCtr, OneNonce
    <2>4. emitted[s][sendCtr[s]] = 0
      BY <2>1 DEF OneNonce
    <2>5. \A q \in Senders : snd'[q].pc # "idle" => snd'[q].sess \in Sessions
      BY <2>1, <2>2 DEF OneNonce
    <2>6. \A q \in Senders : snd'[q].pc = "write" =>
             /\ snd'[q].ctr \in 0 .. (MaxSend - 1) /\ snd'[q].ctr < sendCtr'[snd'[q].sess]
             /\ emitted[snd'[q].sess][snd'[q].ctr] = 0
      <3> SUFFICES ASSUME NEW q \in Senders, snd'[q].pc = "write"
                   PROVE  /\ snd'[q].ctr \in 0 .. (MaxSend - 1)
                          /\ snd'[q].ctr < sendCtr'[snd'[q].sess]
                          /\ emitted[snd'[q].sess][snd'[q].ctr] = 0
        OBVIOUS
      <3>1. CASE q = p
        BY <3>1, <2>1, <2>2, <2>3, <2>4
      <3>2. CASE q # p
        <4>1. snd'[q] = snd[q] /\ snd[q].sess \in Sessions
          BY <3>2, <2>2 DEF OneNonce
        <4>2. snd[q].ctr \in 0 .. (MaxSend - 1) /\ snd[q].ctr < sendCtr[snd[q].sess]
              /\ emitted[snd[q].sess][snd[q].ctr] = 0
          BY <4>1 DEF OneNonce
        <4>3. sendCtr[snd[q].sess] \in Nat /\ sendCtr'[snd[q].sess] >= sendCtr[snd[q].sess]
          BY <4>1, <2>1, <2>3 DEF OneNonce
        <4> QED BY <4>1, <4>2, <4>3, <2>3
      <3> QED BY <3>1, <3>2
    <2>7. ASSUME NEW q \in Senders, NEW r \in Senders, snd'[q].pc = "write",
                 snd'[r].pc = "write", snd'[q].sess = snd'[r].sess, snd'[q].ctr = snd'[r].ctr
          PROVE  q = r
      <3>1. \A v \in Senders \ {p} : snd[v].pc = "write" /\ snd[v].sess = s
                                        => snd[v].ctr # sendCtr[s]
        BY <2>1 DEF OneNonce
      <3>2. CASE q # p /\ r # p
        <4>1. snd'[q] = snd[q] /\ snd'[r] = snd[r]
          BY <3>2, <2>2
        <4> QED BY <4>1, <2>7 DEF OneNonce
      <3>3. CASE q = p /\ r # p
        BY <3>1, <3>3, <2>2, <2>7
      <3>4. CASE q # p /\ r = p
        BY <3>1, <3>4, <2>2, <2>7
      <3> QED BY <3>2, <3>3, <3>4
    <2>8. \A u \in Sessions, c \in 0 .. (MaxSend - 1) :
             emitted[u][c] <= 1 /\ (c >= sendCtr'[u] => emitted[u][c] = 0)
      <3> SUFFICES ASSUME NEW u \in Sessions, NEW c \in 0 .. (MaxSend - 1)
                   PROVE  emitted[u][c] <= 1 /\ (c >= sendCtr'[u] => emitted[u][c] = 0)
        OBVIOUS
      <3>1. sendCtr[u] \in Nat /\ sendCtr'[u] \in Nat
        BY <2>3 DEF OneNonce
      <3>2. sendCtr'[u] >= sendCtr[u]
        BY <2>1, <2>3, <3>1
      <3> QED BY <3>1, <3>2 DEF OneNonce
    <2>9. emitted \in [Sessions -> [0 .. (MaxSend - 1) -> Nat]]
      BY DEF OneNonce
    <2> HIDE DEF s
    <2> QED BY <2>1, <2>2, <2>3, <2>5, <2>6, <2>7, <2>8, <2>9 DEF OneNonce
  <1>4. ASSUME NEW p \in Senders, WriteOut(p)
        PROVE  OneNonce'
    <2> DEFINE s == snd[p].sess
               c == snd[p].ctr
    <2>1. /\ s \in Sessions /\ c \in 0 .. (MaxSend - 1) /\ c < sendCtr[s]
          /\ emitted[s][c] = 0 /\ snd[p].pc = "write" /\ UNCHANGED sendCtr
      BY <1>4 DEF WriteOut, OneNonce
    <2>2. snd' \in [Senders -> SndType] /\ snd'[p].pc = "idle"
          /\ \A q \in Senders \ {p} : snd'[q] = snd[q]
      BY <1>4 DEF WriteOut, OneNonce, SndType, NoSnd
    <2>3. emitted' \in [Sessions -> [0 .. (MaxSend - 1) -> Nat]] /\ emitted'[s][c] = 1
          /\ \A u \in Sessions, d \in 0 .. (MaxSend - 1) :
                 (u # s \/ d # c) => emitted'[u][d] = emitted[u][d]
      <3>1. emitted \in [Sessions -> [0 .. (MaxSend - 1) -> Nat]]
            /\ emitted' = [emitted EXCEPT ![s][c] = @ + 1]
        BY <1>4 DEF WriteOut, OneNonce
      <3> HIDE DEF s, c
      <3> QED BY <2>1, <3>1
    <2>4. \A q \in Senders : snd'[q].pc # "idle" => q # p /\ snd'[q] = snd[q]
      BY <2>2
    <2>5. \A q \in Senders : snd'[q].pc = "write" =>
             /\ snd[q].ctr \in 0 .. (MaxSend - 1) /\ snd[q].ctr < sendCtr[snd[q].sess]
             /\ emitted'[snd[q].sess][snd[q].ctr] = 0
      <3> SUFFICES ASSUME NEW q \in Senders, snd'[q].pc = "write"
                   PROVE  /\ snd[q].ctr \in 0 .. (MaxSend - 1)
                          /\ snd[q].ctr < sendCtr[snd[q].sess]
                          /\ emitted'[snd[q].sess][snd[q].ctr] = 0
        OBVIOUS
      <3>1. q # p /\ snd[q].pc = "write" /\ snd[q].sess \in Sessions
            /\ snd[q].ctr \in 0 .. (MaxSend - 1) /\ snd[q].ctr < sendCtr[snd[q].sess]
            /\ emitted[snd[q].sess][snd[q].ctr] = 0
        BY <2>4 DEF OneNonce
      <3>2. snd[q].sess # s \/ snd[q].ctr # c
        BY <2>1, <3>1 DEF OneNonce
      <3> QED BY <2>3, <3>1, <3>2
    <2>6. \A u \in Sessions, d \in 0 .. (MaxSend - 1) :
             emitted'[u][d] <= 1 /\ (d >= sendCtr[u] => emitted'[u][d] = 0)
      <3> SUFFICES ASSUME NEW u \in Sessions, NEW d \in 0 .. (MaxSend - 1)
                   PROVE  emitted'[u][d] <= 1 /\ (d >= sendCtr[u] => emitted'[u][d] = 0)
        OBVIOUS
      <3>1. sendCtr[u] \in Nat /\ emitted[u][d] <= 1 /\ (d >= sendCtr[u] => emitted[u][d] = 0)
        BY DEF OneNonce
      <3>2. CASE u = s /\ d = c
        BY <3>1, <3>2, <2>1, <2>3
      <3>3. CASE u # s \/ d # c
        BY <3>1, <3>3, <2>3
      <3> QED BY <3>2, <3>3
    <2>7. sendCtr \in [Sessions -> Nat]
      BY DEF OneNonce
    <2>8. \A q \in Senders : snd'[q].pc # "idle" => snd'[q].sess \in Sessions
      BY <2>4 DEF OneNonce
    <2>9. \A q, r \in Senders : snd'[q].pc = "write" /\ snd'[r].pc = "write"
             /\ snd'[q].sess = snd'[r].sess /\ snd'[q].ctr = snd'[r].ctr => q = r
      BY <2>4 DEF OneNonce
    <2>10. sendCtr' = sendCtr /\ snd' \in [Senders -> SndType]
           /\ emitted' \in [Sessions -> [0 .. (MaxSend - 1) -> Nat]]
      BY <2>1, <2>2, <2>3
    <2>11. \A q \in Senders : snd'[q].pc = "write" =>
             /\ snd'[q].ctr \in 0 .. (MaxSend - 1) /\ snd'[q].ctr < sendCtr[snd'[q].sess]
             /\ emitted'[snd'[q].sess][snd'[q].ctr] = 0
      BY <2>4, <2>5
    <2> QED BY <2>6, <2>7, <2>8, <2>9, <2>10, <2>11 DEF OneNonce
  <1>5. ASSUME NEW l \in Listeners, Echo(l)
        PROVE  OneNonce'
    BY <1>2, <1>5 DEF Echo, Receiving, Senders, history
  <1>6. ASSUME NEW s \in Sessions, Downlink(s)
        PROVE  OneNonce'
    BY <1>2, <1>6 DEF Downlink, Senders, history
  <1>7. ASSUME NEW s \in Sessions,
               \/ \E kind \in {"data", "probe"} : ClientSend(s, kind)
               \/ RegisterSession(s) \/ Close(s) \/ RelayTake(s) \/ RelayEnd(s)
        PROVE  OneNonce'
    BY <1>1, <1>7 DEF ClientSend, RegisterSession, Close, CloseDelete, CloseTestMru,
                      CloseClearMru, CloseDone, RelayTake, RelayEnd, history
  <1>8. ASSUME NEW l \in Listeners, RunOnConn(l), ~Echo(l)
        PROVE  OneNonce'
    BY <1>1, <1>8 DEF RunOnConn, Receive, Lookup, StoreMru, OpenAndCheck, StoreAddr,
                      StoreConn, Push, history
  <1>9. CASE UNCHANGED vars
    BY <1>1, <1>9 DEF vars
  <1> QED BY <1>3, <1>4, <1>5, <1>6, <1>7, <1>8, <1>9 DEF Next
-------------------------------------------------------------------------------
\* What a listener works on after a step of its own.
Sound(d) ==
    /\ d \in RxType
    /\ d.pc # "read" => /\ d.sess \in Sessions /\ d.addr \in Addrs
                        /\ d.kind # "junk" => d.ctr \in Ctrs
                        /\ d.kind = "junk" => d.pc \in {"lookup", "store mru", "open"}

\* A datagram is one that a client sent, or junk.
LEMMA ArrivalType ==
    ASSUME Receiving, NEW d \in Arrivals
    PROVE  /\ d.sess \in Sessions /\ d.ctr \in Nat /\ d.kind \in {"junk", "data", "probe"}
           /\ d.kind # "junk" => d.ctr \in Ctrs
  <1>1. \A c \in Ctrs : c \in Nat
    BY MuxAssumption DEF Ctrs
  <1>2. CASE d \in net
    <2>1. d \in [sess : Sessions, ctr : Ctrs, kind : {"data", "probe"}]
      BY <1>2 DEF Receiving
    <2> QED BY <1>1, <2>1
  <1>3. CASE d \in [sess : Sessions, ctr : {0}, kind : {"junk"}]
    BY <1>3
  <1> QED BY <1>2, <1>3 DEF Arrivals

LEMMA ReceivingStep ==
    ASSUME Receiving, [Next]_vars
    PROVE  Receiving'
  <1> USE MuxAssumption
  <1>1. CASE UNCHANGED <<net, rx>>
    BY <1>1 DEF Receiving
  <1>2. ASSUME NEW l \in Listeners, NEW d, Sound(d), rx' = [rx EXCEPT ![l] = d], UNCHANGED net
        PROVE  Receiving'
    <2>1. rx' \in [Listeners -> RxType]
      BY <1>2 DEF Receiving, Sound
    <2>2. rx'[l] = d /\ \A m \in Listeners \ {l} : rx'[m] = rx[m]
      BY <1>2 DEF Receiving
    <2> QED BY <1>2, <2>1, <2>2 DEF Receiving, Sound
  <1>3. Sound(NoRx)
    BY DEF Sound, RxType, NoRx
  <1>4. \A l \in Listeners : Sound(rx[l])
    BY DEF Receiving, Sound
  <1>5. ASSUME NEW s \in Sessions, NEW kind \in {"data", "probe"}, ClientSend(s, kind)
        PROVE  Receiving'
    <2> DEFINE ctr == Cardinality({d \in net : d.sess = s})
    <2>1. ctr \in Nat
      BY FS_Subset, FS_CardinalityType DEF Receiving
    <2>2. ctr < MaxCtr /\ net' = net \cup {[sess |-> s, ctr |-> ctr, kind |-> kind]}
          /\ UNCHANGED rx
      BY <1>5 DEF ClientSend
    <2>3. ctr \in Ctrs
      BY <2>1, <2>2 DEF Ctrs
    <2>4. IsFiniteSet(net')
      BY <2>2, FS_AddElement DEF Receiving
    <2>5. net' \subseteq [sess : Sessions, ctr : Ctrs, kind : {"data", "probe"}]
      <3> HIDE DEF ctr
      <3>1. [sess |-> s, ctr |-> ctr, kind |-> kind]
              \in [sess : Sessions, ctr : Ctrs, kind : {"data", "probe"}]
        BY <1>5, <2>3
      <3>2. net \subseteq [sess : Sessions, ctr : Ctrs, kind : {"data", "probe"}]
        BY DEF Receiving
      <3> QED BY <2>2, <3>1, <3>2
    <2> QED BY <2>2, <2>4, <2>5 DEF Receiving
  <1>6. ASSUME NEW l \in Listeners, RunOnConn(l)
        PROVE  Receiving'
    <2>1. ASSUME NEW d \in Arrivals, NEW addr \in Addrs, Receive(l, d, addr)
          PROVE  Receiving'
      <3> DEFINE r == [pc |-> IF mru = d.sess THEN "open" ELSE "lookup", sess |-> d.sess,
                       ctr |-> d.ctr, kind |-> d.kind, addr |-> addr]
      <3>1. /\ d.sess \in Sessions /\ d.ctr \in Nat /\ d.kind \in {"junk", "data", "probe"}
            /\ d.kind # "junk" => d.ctr \in Ctrs
        BY ArrivalType
      <3>2. Sound(r)
        BY <3>1 DEF Sound, RxType
      <3> QED BY <1>2, <2>1, <3>2, Zenon DEF Receive
    <2>2. CASE Lookup(l)
      <3>1. rx[l].pc = "lookup" => Sound([rx[l] EXCEPT !.pc = "store mru"])
        BY <1>4 DEF Sound, RxType
      <3> QED BY <1>2, <1>3, <2>2, <3>1 DEF Lookup
    <2>3. CASE StoreMru(l)
      <3>1. Sound([rx[l] EXCEPT !.pc = "open"])
        BY <1>4, <2>3 DEF Sound, RxType, StoreMru
      <3> QED BY <1>2, <2>3, <3>1 DEF StoreMru
    <2>4. CASE OpenAndCheck(l)
      <3>1. rx[l].kind # "junk" => Sound([rx[l] EXCEPT !.pc = "addr"])
        BY <1>4, <2>4 DEF Sound, RxType, OpenAndCheck
      <3> QED BY <1>2, <1>3, <2>4, <3>1, Zenon DEF OpenAndCheck
    <2>5. CASE StoreAddr(l)
      <3>1. Sound([rx[l] EXCEPT !.pc = "conn"])
        BY <1>4, <2>5 DEF Sound, RxType, StoreAddr
      <3> QED BY <1>2, <2>5, <3>1, Zenon DEF StoreAddr
    <2>6. CASE StoreConn(l)
      <3>1. Sound([rx[l] EXCEPT !.pc = IF rx[l].kind = "probe" THEN "echo" ELSE "push"])
        BY <1>4, <2>6 DEF Sound, RxType, StoreConn
      <3> QED BY <1>2, <2>6, <3>1, Zenon DEF StoreConn
    <2>7. CASE Push(l)
      BY <1>2, <1>3, <2>7, Zenon DEF Push
    <2>8. CASE Echo(l)
      <3>1. Sound([rx[l] EXCEPT !.pc = "echoing"])
        BY <1>4, <2>8 DEF Sound, RxType, Echo
      <3> QED BY <1>2, <1>3, <2>8, <3>1, Zenon DEF Echo
    <2> QED BY <1>6, <2>1, <2>2, <2>3, <2>4, <2>5, <2>6, <2>7, <2>8 DEF RunOnConn
  <1>7. ASSUME NEW p \in Senders, TakeCtr(p) \/ WriteOut(p)
        PROVE  Receiving'
    BY <1>1, <1>2, <1>3, <1>7 DEF TakeCtr, WriteOut
  <1>8. ASSUME NEW s \in Sessions,
               RegisterSession(s) \/ Close(s) \/ Downlink(s) \/ RelayTake(s) \/ RelayEnd(s)
        PROVE  Receiving'
    BY <1>1, <1>8 DEF RegisterSession, Close, CloseDelete, CloseTestMru, CloseClearMru,
                      CloseDone, Downlink, RelayTake, RelayEnd
  <1>9. CASE UNCHANGED vars
    BY <1>1, <1>9 DEF vars
  <1> QED BY <1>5, <1>6, <1>7, <1>8, <1>9 DEF Next

-------------------------------------------------------------------------------
\* Steps that accept and queue nothing: a listener stays where it is, moves on
\* with its datagram, or drops it.
Carries ==
    /\ UNCHANGED <<seen, pushed, adopted>>
    /\ \A l \in Listeners : Working(l)' =>
           Working(l) /\ rx'[l].sess = rx[l].sess /\ rx'[l].ctr = rx[l].ctr

\* The client's address and socket stay, and no listener comes nearer to storing them.
Stays ==
    /\ UNCHANGED clientAddr /\ UNCHANGED adopted /\ UNCHANGED seen
    /\ \A s \in Sessions : activeConn'[s] = activeConn[s] \/ activeConn'[s] = Main
    /\ activeConn' \in [Sessions -> Listeners \cup {Nil}]
    /\ \A l \in Listeners : rx'[l].pc \in {"addr", "conn"} => rx'[l] = rx[l]

\* Every step accepts a datagram, stores its address or socket, queues it, or
\* does none of these.
LEMMA MuxKinds ==
    ASSUME Receiving, OneCarrier, Adopting, [Next]_vars
    PROVE  \/ Carries /\ Stays
           \/ \E l \in Listeners : OpenAndCheck(l) \/ StoreAddr(l) \/ StoreConn(l) \/ Push(l)
  <1> USE MuxAssumption
  <1>1. activeConn \in [Sessions -> Listeners \cup {Nil}] /\ rx \in [Listeners -> RxType]
    BY DEF Adopting, Receiving
  <1>2. ASSUME UNCHANGED <<seen, pushed, adopted, rx, clientAddr, activeConn>>
        PROVE  Carries /\ Stays
    BY <1>1, <1>2 DEF Carries, Stays, Working
  <1>3. ASSUME NEW s \in Sessions, RegisterSession(s)
        PROVE  Carries /\ Stays
    BY <1>1, <1>3 DEF RegisterSession, Carries, Stays, Working, history
  <1>4. ASSUME NEW s \in Sessions,
               \/ \E kind \in {"data", "probe"} : ClientSend(s, kind)
               \/ Close(s) \/ Downlink(s) \/ RelayTake(s) \/ RelayEnd(s)
        PROVE  Carries /\ Stays
    <2>1. UNCHANGED <<session, history, rx>>
      BY <1>4 DEF ClientSend, Close, CloseDelete, CloseTestMru, CloseClearMru, CloseDone,
                  Downlink, RelayTake, RelayEnd
    <2> QED BY <1>2, <2>1 DEF session, history
  <1>5. ASSUME NEW l \in Listeners, NEW d \in RxType, rx' = [rx EXCEPT ![l] = d],
               d.pc \notin {"addr", "conn", "push"},
               UNCHANGED <<seen, pushed, adopted, clientAddr, activeConn>>
        PROVE  Carries /\ Stays
    <2>1. rx'[l] = d /\ \A m \in Listeners \ {l} : rx'[m] = rx[m]
      BY <1>1, <1>5
    <2> QED BY <1>1, <1>5, <2>1 DEF Carries, Stays, Working
  <1>6. NoRx \in RxType
    BY DEF RxType, NoRx
  <1>7. ASSUME NEW l \in Listeners,
               \/ \E d \in Arrivals, addr \in Addrs : Receive(l, d, addr)
               \/ Lookup(l) \/ StoreMru(l) \/ Echo(l)
        PROVE  Carries /\ Stays
    <2>1. ASSUME NEW d \in Arrivals, NEW addr \in Addrs, Receive(l, d, addr)
          PROVE  Carries /\ Stays
      <3> DEFINE r == [pc |-> IF mru = d.sess THEN "open" ELSE "lookup", sess |-> d.sess,
                       ctr |-> d.ctr, kind |-> d.kind, addr |-> addr]
      <3>1. r \in RxType /\ r.pc \notin {"addr", "conn", "push"}
        BY ArrivalType DEF RxType
      <3> QED BY <1>5, <2>1, <3>1, Zenon DEF Receive, session, history
    <2>2. \A pc \in {"store mru", "open", "echoing"} :
              /\ [rx[l] EXCEPT !.pc = pc] \in RxType
              /\ [rx[l] EXCEPT !.pc = pc].pc \notin {"addr", "conn", "push"}
      BY <1>1 DEF RxType
    <2>3. NoRx.pc \notin {"addr", "conn", "push"}
      BY DEF NoRx
    <2>4. CASE Lookup(l)
      BY <1>5, <1>6, <2>2, <2>3, <2>4 DEF Lookup, session, history
    <2>5. CASE StoreMru(l)
      BY <1>5, <2>2, <2>5 DEF StoreMru, session, history
    <2>6. CASE Echo(l)
      BY <1>5, <1>6, <2>2, <2>3, <2>6 DEF Echo, session, history
    <2> QED BY <1>7, <2>1, <2>4, <2>5, <2>6
  <1>8. ASSUME NEW p \in Senders, TakeCtr(p) \/ WriteOut(p)
        PROVE  Carries /\ Stays
    <2>1. NoRx.pc \notin {"addr", "conn", "push"}
      BY DEF NoRx
    <2>2. CASE TakeCtr(p)
      BY <1>2, <2>2 DEF TakeCtr, session, history
    <2>3. CASE WriteOut(p)
      <3>1. UNCHANGED <<seen, pushed, adopted, clientAddr, activeConn>>
        BY <2>3 DEF WriteOut, session
      <3>2. CASE p \in Listeners
        BY <1>5, <1>6, <2>1, <2>3, <3>1, <3>2, Zenon DEF WriteOut
      <3>3. CASE p \notin Listeners
        BY <1>2, <2>3, <3>1, <3>3 DEF WriteOut
      <3> QED BY <3>2, <3>3
    <2> QED BY <1>8, <2>2, <2>3
  <1>9. CASE UNCHANGED vars
    BY <1>2, <1>9 DEF vars
  <1> QED BY <1>3, <1>4, <1>7, <1>8, <1>9 DEF Next, RunOnConn

-------------------------------------------------------------------------------
\* The replay window lets one copy of a datagram through, so one listener carries it.
LEMMA CarrierStep ==
    ASSUME Receiving, OneCarrier, Adopting, [Next]_vars
    PROVE  OneCarrier'
  <1>1. CASE Carries
    BY <1>1 DEF OneCarrier, Carries, Working
  <1>2. ASSUME NEW l \in Listeners, OpenAndCheck(l)
        PROVE  OneCarrier'
    <2> DEFINE s == rx[l].sess
               c == rx[l].ctr
               ok == rx[l].kind # "junk" /\ Fresh(s, c)
    <2>1. rx[l].pc = "open" /\ rx \in [Listeners -> RxType] /\ s \in Sessions
          /\ UNCHANGED pushed
      BY <1>2 DEF OpenAndCheck, Receiving
    <2>2. CASE ok
      <3>1. /\ rx' = [rx EXCEPT ![l] = [rx[l] EXCEPT !.pc = "addr"]]
            /\ seen' = [seen EXCEPT ![s] = @ \cup {c}]
        BY <1>2, <2>2 DEF OpenAndCheck
      <3>2. c \in Ctrs /\ c \notin seen[s]
        BY <2>1, <2>2 DEF Receiving, Fresh
      <3>3. rx'[l].sess = s /\ rx'[l].ctr = c /\ \A m \in Listeners \ {l} : rx'[m] = rx[m]
        BY <2>1, <3>1 DEF RxType
      <3>4. /\ seen' \in [Sessions -> SUBSET Ctrs] /\ c \in seen'[s]
            /\ \A u \in Sessions : seen[u] \subseteq seen'[u]
        BY <2>1, <3>1, <3>2 DEF OneCarrier
      <3>5. pushed[s][c] = 0
        BY <2>1, <3>2 DEF OneCarrier
      <3>6. \A m \in Listeners \ {l} : Working(m)' =>
               /\ Working(m) /\ rx'[m].sess = rx[m].sess /\ rx'[m].ctr = rx[m].ctr
               /\ rx[m].sess \in Sessions
        BY <3>3 DEF Working, Receiving
      <3>7. \A m \in Listeners : Working(m)' =>
               rx'[m].ctr \in seen'[rx'[m].sess] /\ pushed[rx'[m].sess][rx'[m].ctr] = 0
        BY <3>3, <3>4, <3>5, <3>6 DEF OneCarrier
      <3>8. \A m \in Listeners \ {l} : Working(m)' => ~(rx'[m].sess = s /\ rx'[m].ctr = c)
        BY <3>2, <3>6 DEF OneCarrier
      <3>9. \A m, n \in Listeners : Working(m)' /\ Working(n)'
               /\ rx'[m].sess = rx'[n].sess /\ rx'[m].ctr = rx'[n].ctr => m = n
        <4> SUFFICES ASSUME NEW m \in Listeners, NEW n \in Listeners, Working(m)', Working(n)',
                            rx'[m].sess = rx'[n].sess, rx'[m].ctr = rx'[n].ctr
                     PROVE  m = n
          OBVIOUS
        <4>1. CASE m # l /\ n # l
          BY <4>1, <3>6 DEF OneCarrier
        <4>2. CASE m = l /\ n # l
          BY <4>2, <3>3, <3>8
        <4>3. CASE m # l /\ n = l
          BY <4>3, <3>3, <3>8
        <4> QED BY <4>1, <4>2, <4>3
      <3>10. pushed \in [Sessions -> [Ctrs -> Nat]]
             /\ \A u \in Sessions, d \in Ctrs :
                    pushed[u][d] <= 1 /\ (d \notin seen'[u] => pushed[u][d] = 0)
        BY <3>4 DEF OneCarrier
      <3> QED BY <2>1, <3>4, <3>7, <3>9, <3>10 DEF OneCarrier
    <2>3. CASE ~ok
      <3>1. rx' = [rx EXCEPT ![l] = NoRx] /\ seen' = seen
        BY <1>2, <2>3, Zenon DEF OpenAndCheck
      <3>2. \A m \in Listeners : Working(m)' => m # l /\ rx'[m] = rx[m]
        BY <2>1, <3>1 DEF Working, NoRx
      <3> QED BY <2>1, <3>1, <3>2 DEF OneCarrier, Working
    <2> QED BY <2>2, <2>3
  <1>3. ASSUME NEW l \in Listeners, Push(l)
        PROVE  OneCarrier'
    <2> DEFINE s == rx[l].sess
               c == rx[l].ctr
    <2>1. /\ rx[l].pc = "push" /\ rx \in [Listeners -> RxType] /\ s \in Sessions /\ c \in Ctrs
          /\ Working(l) /\ UNCHANGED seen /\ rx' = [rx EXCEPT ![l] = NoRx]
      BY <1>3 DEF Push, Receiving, Working, session
    <2>2. \A m \in Listeners : Working(m)' => m # l /\ rx'[m] = rx[m] /\ Working(m)
      BY <2>1 DEF Working, NoRx
    <2>3. CASE pushed' = pushed
      BY <2>1, <2>2, <2>3 DEF OneCarrier
    <2>4. CASE pushed' = [pushed EXCEPT ![s][c] = @ + 1]
      <3>1. c \in seen[s] /\ pushed[s][c] = 0
        BY <2>1 DEF OneCarrier
      <3>2. pushed' \in [Sessions -> [Ctrs -> Nat]] /\ pushed'[s][c] = 1
            /\ \A u \in Sessions, d \in Ctrs :
                   (u # s \/ d # c) => pushed'[u][d] = pushed[u][d]
        BY <2>1, <2>4, <3>1 DEF OneCarrier
      <3>3. \A m \in Listeners : Working(m)' =>
               /\ rx[m].sess \in Sessions /\ rx[m].ctr \in Ctrs
               /\ (rx[m].sess # s \/ rx[m].ctr # c)
        BY <2>1, <2>2 DEF OneCarrier, Receiving, Working
      <3>4. \A m \in Listeners : Working(m)' =>
               rx'[m].ctr \in seen[rx'[m].sess] /\ pushed'[rx'[m].sess][rx'[m].ctr] = 0
        <4> SUFFICES ASSUME NEW m \in Listeners, Working(m)'
                     PROVE  rx[m].ctr \in seen[rx[m].sess] /\ pushed'[rx[m].sess][rx[m].ctr] = 0
          BY <2>2
        <4>1. rx[m].ctr \in seen[rx[m].sess] /\ pushed[rx[m].sess][rx[m].ctr] = 0
          BY <2>2 DEF OneCarrier
        <4>2. pushed'[rx[m].sess][rx[m].ctr] = pushed[rx[m].sess][rx[m].ctr]
          BY <3>2, <3>3
        <4> QED BY <4>1, <4>2
      <3>5. \A m, n \in Listeners : Working(m)' /\ Working(n)'
               /\ rx'[m].sess = rx'[n].sess /\ rx'[m].ctr = rx'[n].ctr => m = n
        BY <2>2 DEF OneCarrier
      <3>6. \A u \in Sessions, d \in Ctrs :
               pushed'[u][d] <= 1 /\ (d \notin seen[u] => pushed'[u][d] = 0)
        BY <3>1, <3>2 DEF OneCarrier
      <3>7. seen \in [Sessions -> SUBSET Ctrs]
        BY DEF OneCarrier
      <3> QED BY <2>1, <3>2, <3>4, <3>5, <3>6, <3>7 DEF OneCarrier
    <2> QED BY <1>3, <2>3, <2>4 DEF Push
  <1>4. ASSUME NEW l \in Listeners, StoreAddr(l) \/ StoreConn(l)
        PROVE  OneCarrier'
    <2>1. rx \in [Listeners -> RxType]
      BY DEF Receiving
    <2>2. \A m \in Listeners : Working(m)' =>
             Working(m) /\ rx'[m].sess = rx[m].sess /\ rx'[m].ctr = rx[m].ctr
      <3>1. \E pc \in {"conn", "echo", "push"} : rx' = [rx EXCEPT ![l].pc = pc]
        BY <1>4 DEF StoreAddr, StoreConn
      <3>2. rx'[l].sess = rx[l].sess /\ rx'[l].ctr = rx[l].ctr
        <4>1. PICK pc \in {"conn", "echo", "push"} : rx' = [rx EXCEPT ![l].pc = pc]
          BY <3>1, Zenon
        <4>2. rx'[l] = [rx[l] EXCEPT !.pc = pc] /\ rx[l] \in RxType
          BY <2>1, <4>1
        <4> QED BY <4>2 DEF RxType
      <3>3. Working(l)
        BY <1>4 DEF StoreAddr, StoreConn, Working
      <3>4. \A m \in Listeners \ {l} : rx'[m] = rx[m]
        BY <2>1, <3>1
      <3> QED BY <3>2, <3>3, <3>4 DEF Working
    <2> QED BY <1>1, <1>4, <2>2 DEF Carries, StoreAddr, StoreConn, history
  <1> QED BY <1>1, <1>2, <1>3, <1>4, MuxKinds

-------------------------------------------------------------------------------
LEMMA AdoptingStep ==
    ASSUME Receiving, OneCarrier, Adopting, [Next]_vars
    PROVE  Adopting'
  <1> USE MuxAssumption
  <1>1. ASSUME Stays
        PROVE  Adopting'
    <2>1. AddressAuthentic'
      BY <1>1 DEF Stays, Adopting, AddressAuthentic
    <2> QED BY <1>1, <2>1 DEF Stays, Adopting
  <1>2. rx \in [Listeners -> RxType]
    BY DEF Receiving
  <1>3. ASSUME NEW l \in Listeners, rx' = [rx EXCEPT ![l] = NoRx],
               UNCHANGED <<clientAddr, activeConn, adopted, seen>>
        PROVE  Adopting'
    <2>1. \A m \in Listeners : rx'[m].pc \in {"addr", "conn"} => rx'[m] = rx[m]
      BY <1>2, <1>3 DEF NoRx
    <2> QED BY <1>1, <1>3, <2>1 DEF Stays, Adopting
  <1>4. ASSUME NEW l \in Listeners, Push(l)
        PROVE  Adopting'
    BY <1>3, <1>4, Zenon DEF Push, session
  <1>5. ASSUME NEW l \in Listeners, OpenAndCheck(l)
        PROVE  Adopting'
    <2> DEFINE s == rx[l].sess
               c == rx[l].ctr
               a == rx[l].addr
               ok == rx[l].kind # "junk" /\ Fresh(s, c)
    <2>1. CASE ~ok
      BY <1>3, <1>5, <2>1, Zenon DEF OpenAndCheck
    <2>2. CASE ok
      <3>1. /\ rx' = [rx EXCEPT ![l] = [rx[l] EXCEPT !.pc = "addr"]]
            /\ seen' = [seen EXCEPT ![s] = @ \cup {c}]
            /\ adopted' = [adopted EXCEPT ![s] = @ \cup {<<c, a, l>>}]
            /\ UNCHANGED <<clientAddr, activeConn>>
        BY <1>5, <2>2 DEF OpenAndCheck
      <3>2. s \in Sessions /\ a \in Addrs /\ c \in Ctrs /\ c \notin seen[s]
        BY <1>5, <2>2 DEF OpenAndCheck, Receiving, Fresh
      <3>3. rx'[l].sess = s /\ rx'[l].ctr = c /\ rx'[l].addr = a
            /\ \A m \in Listeners \ {l} : rx'[m] = rx[m]
        BY <1>2, <3>1 DEF RxType
      <3>4. /\ adopted' \in [Sessions -> SUBSET (Ctrs \X Addrs \X Listeners)]
            /\ adopted'[s] = adopted[s] \cup {<<c, a, l>>}
            /\ \A u \in Sessions \ {s} : adopted'[u] = adopted[u]
        BY <3>1, <3>2 DEF Adopting
      <3>5. seen'[s] = seen[s] \cup {c} /\ \A u \in Sessions \ {s} : seen'[u] = seen[u]
        BY <3>1, <3>2 DEF OneCarrier
      <3>6. \A m \in Listeners : rx'[m].pc \in {"addr", "conn"} =>
               <<rx'[m].ctr, rx'[m].addr, m>> \in adopted'[rx'[m].sess]
        <4> SUFFICES ASSUME NEW m \in Listeners, rx'[m].pc \in {"addr", "conn"}
                     PROVE  <<rx'[m].ctr, rx'[m].addr, m>> \in adopted'[rx'[m].sess]
          OBVIOUS
        <4>1. CASE m = l
          BY <4>1, <3>3, <3>4
        <4>2. CASE m # l
          <5>1. rx'[m] = rx[m] /\ rx[m].sess \in Sessions
            BY <4>2, <3>3 DEF Receiving
          <5>2. <<rx[m].ctr, rx[m].addr, m>> \in adopted[rx[m].sess]
            BY <5>1 DEF Adopting
          <5> QED BY <5>1, <5>2, <3>4
        <4> QED BY <4>1, <4>2
      <3>7. \A u \in Sessions : \A t \in adopted'[u] : t[1] \in seen'[u]
        <4> SUFFICES ASSUME NEW u \in Sessions, NEW t \in adopted'[u] PROVE t[1] \in seen'[u]
          OBVIOUS
        <4>1. CASE t \in adopted[u]
          BY <4>1, <3>5 DEF Adopting
        <4>2. CASE u = s /\ t = <<c, a, l>>
          BY <4>2, <3>5
        <4> QED BY <4>1, <4>2, <3>4
      <3>8. ASSUME NEW u \in Sessions, NEW t \in adopted'[u], NEW v \in adopted'[u],
                   t[1] = v[1]
            PROVE  t = v
        <4>1. CASE t \in adopted[u] /\ v \in adopted[u]
          BY <4>1, <3>8 DEF Adopting, AddressAuthentic
        <4>2. \A w \in adopted[s] : w[1] # c
          BY <3>2 DEF Adopting
        <4>3. CASE u = s /\ t = <<c, a, l>>
          BY <4>2, <4>3, <3>4, <3>8
        <4>4. CASE u = s /\ v = <<c, a, l>>
          BY <4>2, <4>4, <3>4, <3>8
        <4> QED BY <4>1, <4>3, <4>4, <3>4
      <3>9. \A u \in Sessions : adopted[u] \subseteq adopted'[u]
        BY <3>4
      <3>10. ASSUME NEW u \in Sessions
             PROVE  /\ clientAddr[u] # Nil => \E t \in adopted'[u] : t[2] = clientAddr[u]
                    /\ activeConn[u] \notin {Nil, Main} =>
                           \E t \in adopted'[u] : t[3] = activeConn[u]
        BY <3>9 DEF Adopting, AddressAuthentic
      <3>11. AddressAuthentic'
        BY <3>1, <3>8, <3>10 DEF AddressAuthentic
      <3>12. clientAddr' \in [Sessions -> Addrs \cup {Nil}]
             /\ activeConn' \in [Sessions -> Listeners \cup {Nil}]
        BY <3>1 DEF Adopting
      <3> HIDE DEF s, c, a
      <3> QED BY <3>4, <3>6, <3>7, <3>11, <3>12 DEF Adopting
    <2> QED BY <2>1, <2>2
  <1>6. ASSUME NEW l \in Listeners, StoreAddr(l) \/ StoreConn(l)
        PROVE  Adopting'
    <2> DEFINE s == rx[l].sess
               k == <<rx[l].ctr, rx[l].addr, l>>
    <2>1. s \in Sessions /\ k \in adopted[s] /\ rx[l].addr \in Addrs
          /\ rx[l].pc \in {"addr", "conn"} /\ UNCHANGED <<adopted, seen>>
      BY <1>6 DEF StoreAddr, StoreConn, Receiving, Adopting, history
    <2>2. \E pc \in {"conn", "echo", "push"} : rx' = [rx EXCEPT ![l].pc = pc]
      BY <1>6 DEF StoreAddr, StoreConn
    <2>3. rx'[l].sess = s /\ rx'[l].ctr = rx[l].ctr /\ rx'[l].addr = rx[l].addr
          /\ \A m \in Listeners \ {l} : rx'[m] = rx[m]
      <3>1. PICK pc \in {"conn", "echo", "push"} : rx' = [rx EXCEPT ![l].pc = pc]
        BY <2>2, Zenon
      <3>2. rx'[l] = [rx[l] EXCEPT !.pc = pc] /\ rx[l] \in RxType
            /\ \A m \in Listeners \ {l} : rx'[m] = rx[m]
        BY <1>2, <3>1
      <3> QED BY <3>2 DEF RxType
    <2>4. \A m \in Listeners : rx'[m].pc \in {"addr", "conn"} =>
             <<rx'[m].ctr, rx'[m].addr, m>> \in adopted[rx'[m].sess]
      BY <2>1, <2>3 DEF Adopting
    <2>5. /\ clientAddr' \in [Sessions -> Addrs \cup {Nil}]
          /\ activeConn' \in [Sessions -> Listeners \cup {Nil}]
          /\ \A u \in Sessions \ {s} : clientAddr'[u] = clientAddr[u]
                                       /\ activeConn'[u] = activeConn[u]
          /\ clientAddr'[s] \in {clientAddr[s], rx[l].addr}
          /\ activeConn'[s] \in {activeConn[s], l}
      BY <1>6, <2>1 DEF StoreAddr, StoreConn, Adopting
    <2>6. k[2] = rx[l].addr /\ k[3] = l
      OBVIOUS
    <2>7. AddressAuthentic'
      <3>1. ASSUME NEW u \in Sessions
            PROVE  /\ clientAddr'[u] # Nil => \E t \in adopted[u] : t[2] = clientAddr'[u]
                   /\ activeConn'[u] \notin {Nil, Main} =>
                          \E t \in adopted[u] : t[3] = activeConn'[u]
                   /\ \A t, v \in adopted[u] : t[1] = v[1] => t = v
        <4>1. /\ clientAddr[u] # Nil => \E t \in adopted[u] : t[2] = clientAddr[u]
              /\ activeConn[u] \notin {Nil, Main} => \E t \in adopted[u] : t[3] = activeConn[u]
              /\ \A t, v \in adopted[u] : t[1] = v[1] => t = v
          BY DEF Adopting, AddressAuthentic
        <4>2. \E t \in adopted[s] : t[2] = rx[l].addr /\ t[3] = l
          BY <2>1, <2>6
        <4> HIDE DEF k, s
        <4> QED BY <4>1, <4>2, <2>5
      <3> QED BY <2>1, <3>1 DEF AddressAuthentic
    <2>8. adopted \in [Sessions -> SUBSET (Ctrs \X Addrs \X Listeners)]
          /\ \A u \in Sessions : \A t \in adopted[u] : t[1] \in seen[u]
      BY DEF Adopting
    <2> HIDE DEF k, s
    <2> QED BY <2>1, <2>4, <2>5, <2>7, <2>8 DEF Adopting
  <1> QED BY <1>1, <1>4, <1>5, <1>6, MuxKinds

-------------------------------------------------------------------------------
MuxInv == Receiving /\ OneCarrier /\ Adopting /\ OneNonce

LEMMA MuxInvAlways == Spec => []MuxInv
  <1>1. Init => MuxInv
    BY MuxInit DEF MuxInv
  <1>2. MuxInv /\ [Next]_vars => MuxInv'
    BY ReceivingStep, CarrierStep, AdoptingStep, NonceStep DEF MuxInv
  <1> QED BY <1>1, <1>2, PTL DEF Spec

\* However many listeners work on copies of a datagram, runOnConn queues its
\* payload for the TUN at most once.
THEOREM PayloadDeliveredOnce == Spec => []DeliveredOnce
  <1>1. MuxInv => DeliveredOnce
    BY DEF MuxInv, OneCarrier, DeliveredOnce
  <1> QED BY <1>1, MuxInvAlways, PTL

\* However datagrams, copies and junk interleave on the listeners, the address
\* and socket runOnConn stores are those of an authenticated datagram, and one
\* datagram moves them once.
THEOREM AddressesAuthentic == Spec => []AddressAuthentic
  <1>1. MuxInv => AddressAuthentic
    BY DEF MuxInv, Adopting
  <1> QED BY <1>1, MuxInvAlways, PTL

\* However many Sends run at once, sendCtr gives each datagram of a session a
\* nonce of its own.
THEOREM NoncesUnique == Spec => []NonceUnique
  <1>1. MuxInv => NonceUnique
    BY Zenon DEF MuxInv, OneNonce, NonceUnique
  <1> QED BY <1>1, MuxInvAlways, PTL

===============================================================================
