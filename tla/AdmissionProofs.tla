---------------------------- MODULE AdmissionProofs ---------------------------
(*****************************************************************************)
(* Proofs about Admission, for any number of connections, slots, keys and    *)
(* addresses.  The limiter it passes implements TokenBucket, on its own and  *)
(* inside Admission; slots are counted exactly; a key listed in the          *)
(* revocation file is refused.                                               *)
(*****************************************************************************)
EXTENDS Admission, FiniteSetTheorems, TLAPS

-------------------------------------------------------------------------------
\* The limiter, on its own: every setting of rate, burst, sweep and idle time in
\* which an idle entry has earned a full bucket before it may be dropped.

\* The two facts about products the refill needs.
LEMMA OneMoreTick ==
    ASSUME NEW x \in Int, NEW r \in Int
    PROVE  (x + 1) * r = x * r + r
  BY SMT

LEMMA LongerEarnsMore ==
    ASSUME NEW x \in Nat, NEW y \in Nat, NEW r \in Nat, x <= y
    PROVE  /\ x * r \in Nat /\ y * r \in Nat
           /\ x * r <= y * r /\ r * x = x * r
  BY SMT

LEMMA ConstantsTyped ==
    /\ Second \in Nat \ {0} /\ RatePerSecond \in Nat \ {0}
    /\ maxTokens \in Nat /\ Second <= maxTokens /\ EntryTTL \in Nat
    /\ RatePerSecond * EntryTTL \in Nat
    /\ maxTokens <= RatePerSecond * EntryTTL
  <1>1. ASSUME NEW b \in Nat \ {0}, NEW s \in Nat \ {0}
        PROVE  b * s \in Nat /\ s <= b * s
    BY SMT
  <1>2. ASSUME NEW r \in Nat, NEW t \in Nat
        PROVE  r * t \in Nat
    BY SMT
  <1> QED
    BY <1>1, <1>2, LimiterAssumption DEF maxTokens

\* A refilled entry holds between nothing and a full bucket, and never less
\* than it held.
LEMMA RefillBounds ==
    ASSUME LimTypeOK, NEW a \in DOMAIN entries
    PROVE  /\ (now - entries[a].last) * RatePerSecond \in Nat
           /\ Refilled(entries[a]) \in Nat
           /\ Refilled(entries[a]) <= maxTokens
           /\ entries[a].tokens <= Refilled(entries[a])
  <1>1. /\ entries[a].last \in Nat /\ entries[a].tokens \in Nat
        /\ entries[a].last <= now /\ entries[a].tokens <= maxTokens
        /\ now \in Nat
    BY DEF LimTypeOK
  <1>2. now - entries[a].last \in Nat
    BY <1>1
  <1>3. (now - entries[a].last) * RatePerSecond \in Nat
    BY <1>2, LongerEarnsMore, ConstantsTyped
  <1> QED
    BY <1>1, <1>3, ConstantsTyped DEF Refilled

\* An entry the sweep may drop has refilled to a full bucket.
LEMMA IdleIsFull ==
    ASSUME LimTypeOK, NEW a \in DOMAIN entries, now - entries[a].last > EntryTTL
    PROVE  Refilled(entries[a]) = maxTokens
  <1>1. /\ now - entries[a].last \in Nat /\ EntryTTL \in Nat
        /\ EntryTTL <= now - entries[a].last /\ entries[a].tokens \in Nat
    BY ConstantsTyped DEF LimTypeOK
  <1>2. RatePerSecond * EntryTTL <= (now - entries[a].last) * RatePerSecond
    BY <1>1, LongerEarnsMore, ConstantsTyped
  <1>3. maxTokens <= (now - entries[a].last) * RatePerSecond
    BY <1>2, ConstantsTyped, RefillBounds
  <1> QED
    BY <1>1, <1>3, ConstantsTyped, RefillBounds DEF Refilled

LEMMA KeptSubset == Kept \subseteq DOMAIN entries
  BY DEF Kept

\* A look-up sees the bucket of its address, and every address the sweep
\* forgot has a full one.
LEMMA LookupSeesBucket ==
    ASSUME LimTypeOK, NEW a \in Addrs
    PROVE  /\ a \in Kept => bucket[a] = Refilled(entries[a])
           /\ a \notin Kept => bucket[a] = maxTokens
           /\ bucket[a] \in Nat
  <1>1. ASSUME a \in Kept PROVE bucket[a] = Refilled(entries[a])
    BY <1>1, KeptSubset DEF bucket
  <1>2. ASSUME a \notin Kept PROVE bucket[a] = maxTokens
    <2>1. CASE a \notin DOMAIN entries
      BY <2>1 DEF bucket
    <2>2. CASE a \in DOMAIN entries
      <3>1. now - entries[a].last > EntryTTL
        BY <1>2, <2>2, ConstantsTyped DEF Kept, LimTypeOK
      <3> QED
        BY <2>2, <3>1, IdleIsFull DEF bucket
    <2> QED
      BY <2>1, <2>2
  <1>3. bucket[a] \in Nat
    BY <1>1, <1>2, KeptSubset, RefillBounds, ConstantsTyped
  <1> QED
    BY <1>1, <1>2, <1>3

LEMMA TypeInit == LimInit => LimTypeOK
  <1> SUFFICES ASSUME LimInit PROVE LimTypeOK
    OBVIOUS
  <1>1. DOMAIN entries = {}
    BY DEF LimInit
  <1>2. entries \in [DOMAIN entries -> [last : Nat, tokens : Nat]]
    BY <1>1 DEF LimInit
  <1> QED
    BY <1>1, <1>2 DEF LimInit, LimTypeOK

LEMMA TypeTick == LimTypeOK /\ Tick => LimTypeOK'
  BY DEF LimTypeOK, Tick

LEMMA TypeAllow ==
    ASSUME LimTypeOK, NEW a \in Addrs, NEW ok \in BOOLEAN, Allow(a, ok)
    PROVE  LimTypeOK'
  <1> DEFINE tokens == IF a \in Kept THEN Refilled(entries[a]) ELSE maxTokens
             left   == IF ok THEN tokens - Second ELSE tokens
  <1>1. tokens \in Nat /\ tokens <= maxTokens
    BY RefillBounds, KeptSubset, ConstantsTyped
  <1>2. ok => tokens >= Second
    BY ConstantsTyped DEF Allow
  <1>3. left \in Nat /\ left <= maxTokens
    BY <1>1, <1>2, ConstantsTyped
  <1> HIDE DEF left
  <1>4. entries' = [x \in Kept \cup {a} |->
                       IF x = a THEN [last |-> now, tokens |-> left]
                                ELSE entries[x]]
    BY DEF Allow, left
  <1>5. DOMAIN entries' = Kept \cup {a} /\ DOMAIN entries' \subseteq Addrs
    BY <1>4, KeptSubset DEF LimTypeOK
  <1>6. \A x \in DOMAIN entries' :
           /\ entries'[x] \in [last : Nat, tokens : Nat]
           /\ entries'[x].last <= now /\ entries'[x].tokens <= maxTokens
    <2> TAKE x \in DOMAIN entries'
    <2>1. CASE x = a
      BY <1>3, <1>4, <1>5, <2>1 DEF LimTypeOK
    <2>2. CASE x # a
      BY <1>4, <1>5, <2>2, KeptSubset DEF LimTypeOK
    <2> QED
      BY <2>1, <2>2
  <1>7. now' = now /\ lastCleanup' \in Nat /\ answer' \in [addr : Addrs, ok : BOOLEAN]
    BY DEF Allow, LimTypeOK
  <1>8. entries' \in [DOMAIN entries' -> [last : Nat, tokens : Nat]]
    BY <1>4, <1>5, <1>6
  <1> QED
    BY <1>5, <1>6, <1>7, <1>8 DEF LimTypeOK, maxTokens

\* Every reachable state of the limiter is well typed; no entry holds more
\* than a full bucket or was last used in the future (ip_rate_limiter.go:64-81).
THEOREM LimiterTypeCorrect == LimSpec => []LimTypeOK
  <1>1. LimTypeOK /\ [LimNext]_limVars => LimTypeOK'
    <2> SUFFICES ASSUME LimTypeOK, [LimNext]_limVars PROVE LimTypeOK'
      OBVIOUS
    <2>1. CASE Tick
      BY <2>1, TypeTick
    <2>2. CASE \E a \in Addrs, ok \in BOOLEAN : Allow(a, ok)
      BY <2>2, TypeAllow
    <2>3. CASE UNCHANGED limVars
      BY <2>3 DEF LimTypeOK, limVars
    <2> QED
      BY <2>1, <2>2, <2>3 DEF LimNext
  <1> QED
    BY <1>1, TypeInit, PTL DEF LimSpec

\* The clock's tick is the tick of every bucket: it adds Rate to it and caps it.
LEMMA TickRefines == LimTypeOK /\ Tick => Bucket!AbsTick
  <1> SUFFICES ASSUME LimTypeOK, Tick PROVE Bucket!AbsTick
    OBVIOUS
  <1>1. ASSUME NEW a \in DOMAIN entries
        PROVE  Refilled(entries[a])' = Bucket!Capped(Refilled(entries[a]) + RatePerSecond)
    <2>1. /\ entries[a].last \in Nat /\ entries[a].tokens \in Nat /\ now \in Nat
          /\ now' = now + 1 /\ entries' = entries /\ maxTokens' = maxTokens
      BY DEF LimTypeOK, Tick, maxTokens
    <2>2. (now + 1 - entries[a].last) * RatePerSecond
            = (now - entries[a].last) * RatePerSecond + RatePerSecond
      <3>1. now + 1 - entries[a].last = (now - entries[a].last) + 1
        BY <2>1
      <3> QED
        BY <2>1, <3>1, OneMoreTick, ConstantsTyped
    <2>3. (now - entries[a].last) * RatePerSecond \in Nat
      BY RefillBounds
    <2> QED
      BY <2>1, <2>2, <2>3, ConstantsTyped DEF Refilled, Bucket!Capped
  <1>2. Bucket!Capped(maxTokens + RatePerSecond) = maxTokens
    BY ConstantsTyped DEF Bucket!Capped
  <1>3. entries' = entries /\ answer' = answer /\ maxTokens' = maxTokens
    BY DEF Tick, maxTokens
  <1>4. bucket' = [a \in Addrs |-> Bucket!Capped(bucket[a] + RatePerSecond)]
    BY <1>1, <1>2, <1>3 DEF bucket
  <1> QED
    BY <1>3, <1>4 DEF Bucket!AbsTick

\* Allow is a request to the bucket of its address and leaves the others alone.
LEMMA AllowRefines ==
    ASSUME LimTypeOK, NEW a \in Addrs, NEW ok \in BOOLEAN, Allow(a, ok)
    PROVE  Bucket!AbsRequest(a)
  <1> DEFINE left == IF ok THEN bucket[a] - Second ELSE bucket[a]
  <1>1. bucket[a] = (IF a \in Kept THEN Refilled(entries[a]) ELSE maxTokens)
        /\ bucket[a] \in Nat /\ bucket[a] <= maxTokens
    BY LookupSeesBucket, RefillBounds, KeptSubset, ConstantsTyped
  <1>2. ok <=> bucket[a] >= Second
    BY <1>1, ConstantsTyped DEF Allow
  <1>3. entries' = [x \in Kept \cup {a} |->
                       IF x = a THEN [last |-> now, tokens |-> left]
                                ELSE entries[x]]
    BY <1>1 DEF Allow
  <1>4. left \in Nat /\ left <= maxTokens
    BY <1>1, <1>2, ConstantsTyped
  <1>5. now' = now /\ maxTokens' = maxTokens /\ now \in Nat
    BY DEF Allow, maxTokens, LimTypeOK
  <1>6. bucket'[a] = left
    <2>1. /\ a \in DOMAIN entries' /\ entries'[a].last = now
          /\ entries'[a].tokens = left
      BY <1>3
    <2>2. (now - now) * RatePerSecond = 0
      BY <1>5, ConstantsTyped
    <2> HIDE DEF left
    <2>3. Refilled(entries[a])' = left
      BY <1>4, <1>5, <2>1, <2>2, ConstantsTyped DEF Refilled
    <2> QED
      BY <2>1, <2>3 DEF bucket
  <1>7. ASSUME NEW x \in Addrs, x # a
        PROVE  bucket'[x] = bucket[x]
    <2>1. CASE x \in Kept
      <3>1. x \in DOMAIN entries' /\ entries'[x] = entries[x]
        BY <1>3, <1>7, <2>1
      <3>2. Refilled(entries[x])' = Refilled(entries[x])
        BY <1>5, <3>1 DEF Refilled
      <3>3. bucket'[x] = Refilled(entries[x])'
        BY <3>1 DEF bucket
      <3> QED
        BY <2>1, <3>2, <3>3, LookupSeesBucket
    <2>2. CASE x \notin Kept
      <3>1. x \notin DOMAIN entries'
        BY <1>3, <1>7, <2>2
      <3> QED
        BY <1>5, <2>2, <3>1, LookupSeesBucket DEF bucket
    <2> QED
      BY <2>1, <2>2
  <1> HIDE DEF left
  <1>8. bucket' = [bucket EXCEPT ![a] = left]
    <2>1. bucket' = [x \in Addrs |-> bucket'[x]] /\ bucket = [x \in Addrs |-> bucket[x]]
      BY DEF bucket
    <2> QED
      BY <1>6, <1>7, <2>1
  <1>9. answer' = [addr |-> a, ok |-> ok]
    BY DEF Allow
  <1>10. bucket = [bucket EXCEPT ![a] = bucket[a]]
    BY DEF bucket
  <1>11. ok = (bucket[a] >= Second)
    BY <1>1, <1>2, ConstantsTyped
  <1>12. CASE ok
    BY <1>8, <1>9, <1>11, <1>12, Zenon DEF Bucket!AbsRequest, left
  <1>13. CASE ~ok
    BY <1>8, <1>9, <1>10, <1>11, <1>13, Zenon DEF Bucket!AbsRequest, left
  <1> QED
    BY <1>12, <1>13

\* The limiter implements a bucket per address that is never forgotten: no
\* sweep, however it interleaves with the requests, grants a request the
\* bucket would refuse or refuses one it would grant
\* (Allow, ip_rate_limiter.go:46-83).
THEOREM LimiterIsTokenBucket == LimSpec => ImplementsTokenBucket
  <1>1. LimInit => Bucket!AbsInit
    <2> SUFFICES ASSUME LimInit PROVE Bucket!AbsInit
      OBVIOUS
    <2>1. DOMAIN entries = {}
      BY DEF LimInit
    <2>2. bucket = [a \in Addrs |-> maxTokens]
      BY <2>1 DEF bucket
    <2> QED
      BY <2>2, Zenon DEF LimInit, Bucket!AbsInit
  <1>2. LimTypeOK /\ [LimNext]_limVars => [Bucket!AbsNext]_(Bucket!absVars)
    <2> SUFFICES ASSUME LimTypeOK, [LimNext]_limVars
                 PROVE  [Bucket!AbsNext]_(Bucket!absVars)
      OBVIOUS
    <2>1. CASE Tick
      BY <2>1, TickRefines DEF Bucket!AbsNext
    <2>2. CASE \E a \in Addrs, ok \in BOOLEAN : Allow(a, ok)
      BY <2>2, AllowRefines DEF Bucket!AbsNext
    <2>3. CASE UNCHANGED limVars
      BY <2>3 DEF limVars, Bucket!absVars, bucket, Refilled, maxTokens
    <2> QED
      BY <2>1, <2>2, <2>3 DEF LimNext
  <1> QED
    BY <1>1, <1>2, LimiterTypeCorrect, PTL
       DEF LimSpec, ImplementsTokenBucket, Bucket!AbsSpec

-------------------------------------------------------------------------------
\* What each action of Admission does to a connection, summed up in a few kinds of
\* step.  The proofs show that every kind keeps their invariants.

Fields == {"pc", "from", "key", "kind", "tok", "ts", "sent", "taken", "peek", "got",
           "cur", "tls", "gone"}
Kinds  == {"client", "copy", "browser", "other"}

\* Each connection has a record with the fields of ConnType.
Shape == DOMAIN conn = Conns /\ \A c \in Conns : DOMAIN conn[c] = Fields

\* The backlog holds each waiting connection once.
Queued ==
    /\ backlog \in Seq(Conns)
    /\ \A i \in DOMAIN backlog : conn[backlog[i]].pc = "backlog"
    /\ \A i, j \in DOMAIN backlog : backlog[i] = backlog[j] => i = j

Basic == Shape /\ Queued /\ now \in Nat /\ active \in Int

-------------------------------------------------------------------------------
\* The kinds of step.

Only(c)   == /\ Shape' /\ \A d \in Conns \ {c} : conn'[d] = conn[d]
             /\ conn'[c].from = conn[c].from
Bearer(c) == /\ conn'[c].tok = conn[c].tok /\ conn'[c].ts = conn[c].ts
             /\ conn'[c].kind = conn[c].kind
Still     == UNCHANGED <<now, backlog>>
Waiting   == {"idle", "backlog"}

\* What Shut leaves of a connection.
Closes(c) ==
    /\ Only(c) /\ conn[c].pc \notin Waiting
    /\ conn'[c].pc = "closed" /\ conn'[c].tok = c
    /\ conn'[c].kind = IF conn[c].kind = "client" THEN "client" ELSE "other"
    /\ conn'[c].ts = IF conn[c].kind = "client" THEN conn[c].ts ELSE 0

Plain(c) ==
    /\ Only(c) /\ Bearer(c) /\ Still
    /\ conn[c].pc \notin Waiting /\ conn'[c].pc \notin Waiting
    /\ conn'[c].pc \in {"auth", "reply"} => conn'[c].pc = conn[c].pc
    /\ conn[c].pc \in Holding <=> conn'[c].pc \in Holding
    /\ conn'[c].pc = "swap" => conn'[c].cur = active /\ active < MaxSlots
    /\ UNCHANGED <<active, helloSeen, opened>>

Quits(c) ==
    /\ Closes(c) /\ Still /\ conn[c].pc \notin Holding
    /\ UNCHANGED <<active, helloSeen, opened>>

Leaves(c) ==
    /\ Closes(c) /\ Still /\ conn[c].pc \in Holding /\ active' = active - 1
    /\ UNCHANGED <<helloSeen, opened>>

Joins(c) ==
    /\ Only(c) /\ Bearer(c) /\ Still
    /\ conn[c].pc = "swap" /\ conn[c].cur = active
    /\ conn'[c].pc \in {"hello", "preface"} /\ active' = active + 1
    /\ UNCHANGED <<helloSeen, opened>>

Passes(c, from, to) ==
    /\ Only(c) /\ Bearer(c) /\ Still
    /\ conn[c].pc = from /\ conn'[c].pc = to /\ UNCHANGED active

Arrives(c) ==
    /\ Only(c) /\ conn[c].pc = "idle" /\ conn'[c].pc = "backlog"
    /\ backlog' = Append(backlog, c)
    /\ \/ /\ conn'[c].kind \in {"browser", "other"}
          /\ conn'[c].tok = conn[c].tok /\ conn'[c].ts = conn[c].ts
       \/ /\ conn'[c].kind = "client" /\ conn'[c].tok = conn[c].tok
          /\ \E skew \in Skews : conn'[c].ts = now + skew
       \/ /\ conn'[c].kind = "copy"
          /\ \E d \in Conns \ {c} : /\ conn[d].kind = "client"
                                    /\ conn'[c].tok = d /\ conn'[c].ts = conn[d].ts
    /\ UNCHANGED <<now, active, helloSeen, opened>>

Accepted(c) ==
    /\ Only(c) /\ Bearer(c)
    /\ backlog # << >> /\ c = Head(backlog) /\ backlog' = Tail(backlog)
    /\ conn'[c].pc \in {"front", "start"}
    /\ UNCHANGED <<now, active, helloSeen, opened>>

SeesNew(c) ==
    /\ Passes(c, "seen", "auth") /\ ~Replayed(helloSeen, conn[c].tok)
    /\ helloSeen' = Recorded(helloSeen, conn[c].tok, HelloTTL) /\ UNCHANGED opened

Cleared(c) ==
    /\ Passes(c, "auth", "reply") /\ HelloValid(c) /\ UNCHANGED <<helloSeen, opened>>

Opens(c) ==
    /\ Passes(c, "reply", "session") /\ opened' = opened \cup {<<c, conn[c].tok>>}
    /\ UNCHANGED helloSeen

Passive == now' \in {now, now + 1} /\ UNCHANGED <<conn, backlog, active, helloSeen, opened>>

Step(c) == \/ Plain(c) \/ Quits(c) \/ Leaves(c) \/ Joins(c) \/ Arrives(c) \/ Accepted(c)
           \/ SeesNew(c) \/ Cleared(c) \/ Opens(c)

-------------------------------------------------------------------------------
LEMMA IdleShape ==
    ASSUME NEW c, NEW a, NEW k
    PROVE  /\ DOMAIN Idle(c, a, k) = Fields
           /\ Idle(c, a, k).pc = "idle" /\ Idle(c, a, k).ts = 0 /\ Idle(c, a, k).tok = c
           /\ Idle(c, a, k).kind = "other" /\ Idle(c, a, k).from = a
  BY DEF Idle, Fields

LEMMA ShutCloses ==
    ASSUME Shape, NEW c \in Conns, Shut(c), conn[c].pc \notin Waiting
    PROVE  Closes(c)
  BY IdleShape DEF Shut, Shape, Fields, Closes, Only

LEMMA GotoMoves ==
    ASSUME Shape, NEW c \in Conns, NEW l, Goto(c, l)
    PROVE  Only(c) /\ Bearer(c) /\ conn'[c].pc = l
  BY DEF Goto, Shape, Fields, Only, Bearer

LEMMA ReadMoves ==
    ASSUME Shape, NEW c \in Conns, NEW l, Read(c, l)
    PROVE  Only(c) /\ Bearer(c) /\ conn'[c].pc = l
  BY DEF Read, Shape, Fields, Only, Bearer

\* What the peers do.
LEMMA PeerStep ==
    ASSUME Basic, NEW c \in Conns, Dial(c) \/ PeerSends(c) \/ PeerCloses(c)
    PROVE  Step(c)
  <1> USE DEF Basic, KeepHandlers, KeepLists, KeepFront, limVars
  <1>1. CASE Dial(c)
    <2> USE <1>1 DEF Only, Shape, Fields
    <2>1. /\ conn[c].pc = "idle" /\ backlog' = Append(backlog, c)
          /\ UNCHANGED <<now, active, helloSeen, opened>>
      BY Zenon DEF Dial
    <2>2. ASSUME NEW kind \in {"browser", "other"},
                 conn' = [conn EXCEPT ![c].pc = "backlog", ![c].kind = kind]
          PROVE  Arrives(c)
      BY <2>1, <2>2 DEF Arrives
    <2>3. ASSUME NEW skew \in Skews,
                 conn' = [conn EXCEPT ![c].pc = "backlog", ![c].kind = "client",
                                      ![c].ts = now + skew]
          PROVE  Arrives(c)
      BY <2>1, <2>3 DEF Arrives
    <2>4. ASSUME NEW d \in Conns \ {c}, conn[d].kind = "client",
                 conn' = [conn EXCEPT ![c].pc = "backlog", ![c].kind = "copy",
                                      ![c].tok = d, ![c].ts = conn[d].ts,
                                      ![c].sent = conn[d].sent]
          PROVE  Arrives(c)
      <3>1. Only(c) /\ conn'[c].pc = "backlog" /\ conn'[c].kind = "copy"
            /\ conn'[c].tok = d /\ conn'[c].ts = conn[d].ts
        BY <2>4
      <3> QED BY <2>1, <2>4, <3>1 DEF Arrives
    <2> QED BY <2>2, <2>3, <2>4, Zenon DEF Dial, Step
  <1>2. CASE PeerSends(c)
    BY <1>2 DEF PeerSends, Plain, Only, Bearer, Still, Waiting, Reading, Shape, Fields, Step
  <1>3. CASE PeerCloses(c)
    BY <1>3 DEF PeerCloses, Plain, Only, Bearer, Still, Waiting, Reading, Shape, Fields, Step
  <1> QED BY <1>1, <1>2, <1>3

\* What the demuxer and the relay do.
LEMMA FrontAndRelayStep ==
    ASSUME Basic, NEW c \in Conns, FrontStep(c) \/ RelayStep(c) \/ RelayEnds(c)
    PROVE  Step(c)
  <1> USE DEF Basic, KeepHandlers, KeepLists, KeepFront, limVars
  <1> USE DEF Plain, Only, Bearer, Still, Waiting, Holding
  <1>1. CASE FrontReads(c)
    BY <1>1 DEF FrontReads, Shape, Fields, Step
  <1>2. CASE FrontFails(c)
    BY <1>2 DEF FrontFails, Shape, Fields, Step
  <1>3. CASE FrontDecides(c)
    BY <1>3 DEF FrontDecides, Shape, Fields, Step
  <1>4. CASE FrontAnswers(c)
    BY <1>4, ShutCloses DEF FrontAnswers, Quits, Shape, Fields, Step
  <1>5. CASE RelayDials(c)
    BY <1>5, ShutCloses DEF RelayDials, Quits, Shape, Fields, Step
  <1>6. CASE RelayCopies(c)
    BY <1>6 DEF RelayCopies, Shape, Fields, Step
  <1>7. CASE RelayEnds(c)
    BY <1>7, ShutCloses, GotoMoves DEF RelayEnds, Quits, Step
  <1> QED BY <1>1, <1>2, <1>3, <1>4, <1>5, <1>6, <1>7 DEF FrontStep, RelayStep

\* What a handler does up to its slot.
LEMMA GateStep ==
    ASSUME Basic, NEW c \in Conns, Gate(c) \/ AcquireLoads(c) \/ AcquireSwaps(c)
    PROVE  Step(c)
  <1> USE DEF Basic, KeepHandlers, KeepLists, KeepFront, limVars
  <1> USE DEF Still, Waiting, Holding
  <1>1. CASE Gate(c)
    <2>1. conn[c].pc \notin Waiting \cup Holding /\ Still /\ UNCHANGED <<active, helloSeen, opened>>
      BY <1>1 DEF Gate, Allow
    <2>2. CASE Shut(c)
      BY <2>1, <2>2, ShutCloses DEF Quits, Step
    <2>3. CASE ~Shut(c)
      <3>1. Goto(c, "acquire")
        BY <1>1, <2>3 DEF Gate, Allow
      <3> QED BY <2>1, <3>1, GotoMoves DEF Plain, Step
    <2> QED BY <2>2, <2>3
  <1>2. CASE AcquireLoads(c)
    <2>1. CASE active >= MaxSlots
      BY <1>2, <2>1, ShutCloses DEF AcquireLoads, Quits, Step
    <2>2. CASE active < MaxSlots
      BY <1>2, <2>2, AdmissionAssumption
         DEF AcquireLoads, Plain, Only, Bearer, Shape, Fields, Step
    <2> QED BY <2>1, <2>2, AdmissionAssumption
  <1>3. CASE AcquireSwaps(c)
    <2>1. Only(c) /\ Bearer(c) /\ Still /\ UNCHANGED <<helloSeen, opened>>
      BY <1>3 DEF AcquireSwaps, Only, Bearer, Shape, Fields
    <2>2. conn[c].pc = "swap"
      BY <1>3 DEF AcquireSwaps
    <2>3. CASE active = conn[c].cur
      BY <1>3, <2>1, <2>2, <2>3 DEF AcquireSwaps, Joins, Shape, Fields, Step
    <2>4. CASE active # conn[c].cur
      BY <1>3, <2>1, <2>2, <2>4 DEF AcquireSwaps, Plain, Shape, Fields, Step
    <2> QED BY <2>3, <2>4
  <1> QED BY <1>1, <1>2, <1>3

\* What a handler does while it holds its slot.
LEMMA HolderStep ==
    ASSUME Basic, NEW c \in Conns,
           \/ Preface(c) \/ Hello(c) \/ HelloFails(c) \/ Seen(c) \/ AuthFails(c)
           \/ CheckRevoked(c) \/ Reply(c) \/ SessionEnds(c)
    PROVE  Step(c)
  <1> USE DEF Basic, KeepHandlers, KeepLists, KeepFront, limVars
  <1> USE DEF Still, Waiting, Holding, Release, Leaves
  <1>1. CASE Preface(c)
    BY <1>1, ShutCloses, ReadMoves DEF Preface, Plain, Step
  <1>2. CASE Hello(c)
    BY <1>2, ReadMoves DEF Hello, Plain, Step
  <1>3. CASE HelloFails(c)
    BY <1>3, ShutCloses DEF HelloFails, Step
  <1>4. CASE Seen(c)
    BY <1>4, ShutCloses, GotoMoves DEF Seen, SeesNew, Passes, Step
  <1>5. CASE AuthFails(c)
    BY <1>5, ShutCloses DEF AuthFails, Step
  <1>6. CASE CheckRevoked(c)
    BY <1>6, ShutCloses, GotoMoves DEF CheckRevoked, Cleared, Passes, Step
  <1>7. CASE Reply(c)
    BY <1>7, ShutCloses, GotoMoves DEF Reply, Opens, Passes, Step
  <1>8. CASE SessionEnds(c)
    BY <1>8, ShutCloses DEF SessionEnds, Step
  <1> QED BY <1>1, <1>2, <1>3, <1>4, <1>5, <1>6, <1>7, <1>8

\* A connection leaves the backlog.
LEMMA AcceptStep ==
    ASSUME Basic, AcceptReality \/ AcceptPlain
    PROVE  \E c \in Conns : Accepted(c)
  <1> DEFINE h == Head(backlog)
  <1>1. h \in Conns /\ backlog # << >>
    BY DEF AcceptReality, AcceptPlain, Basic, Queued
  <1>2. Accepted(h)
    BY <1>1 DEF AcceptReality, AcceptPlain, Basic, Accepted, Only, Bearer, Shape, Fields,
                KeepHandlers, KeepLists, limVars
  <1> QED BY <1>1, <1>2

\* Every step is of one of the kinds.
LEMMA StepKinds ==
    ASSUME Basic, [Next]_vars
    PROVE  Passive \/ \E c \in Conns : Step(c)
  <1>1. CASE UNCHANGED vars
    BY <1>1 DEF vars, limVars, admVars, Passive
  <1>2. CASE Clock
    BY <1>2 DEF Clock, Tick, admVars, Passive
  <1>3. CASE KeyServer
    BY <1>3 DEF KeyServer, limVars, admVars, Passive
  <1>4. CASE AcceptReality \/ AcceptPlain
    BY <1>4, AcceptStep DEF Step
  <1>5. ASSUME NEW c \in Conns,
               \/ Dial(c) \/ PeerSends(c) \/ PeerCloses(c) \/ FrontStep(c)
               \/ HandlerStep(c) \/ RelayStep(c) \/ RelayEnds(c) \/ SessionEnds(c)
        PROVE  Step(c)
    BY <1>5, PeerStep, FrontAndRelayStep, GateStep, HolderStep DEF HandlerStep
  <1> QED BY <1>1, <1>2, <1>3, <1>4, <1>5 DEF Next

-------------------------------------------------------------------------------
\* Connections and the backlog keep their shape.
LEMMA BasicInit == Init => Basic
  <1> SUFFICES ASSUME Init PROVE Basic
    OBVIOUS
  <1>1. PICK from \in [Conns -> Addrs], key \in [Conns -> ClientKeys] :
            conn = [c \in Conns |-> Idle(c, from[c], key[c])]
    BY DEF Init
  <1>2. Shape
    BY <1>1, IdleShape DEF Shape
  <1>3. Queued
    BY DEF Init, Queued
  <1>4. now \in Nat /\ active \in Int
    BY LimiterAssumption DEF Init, LimInit
  <1> QED BY <1>2, <1>3, <1>4 DEF Basic

\* A step of a connection outside the backlog leaves the backlog as it is.
LEMMA QueueKept ==
    ASSUME Basic, NEW c \in Conns, Only(c), backlog' = backlog,
           conn[c].pc # "backlog"
    PROVE  Queued'
  BY DEF Basic, Queued, Only

LEMMA BasicStep ==
    ASSUME Basic, [Next]_vars
    PROVE  Basic'
  <1>1. CASE Passive
    BY <1>1 DEF Basic, Passive, Shape, Queued
  <1>2. ASSUME NEW c \in Conns, Step(c)
        PROVE  Basic'
    <2>1. Shape' /\ now' \in Nat /\ active' \in Int
      <3> USE DEF Basic, Only, Still
      <3>1. CASE Plain(c) \/ Joins(c)
        BY <3>1 DEF Plain, Joins
      <3>2. CASE Quits(c) \/ Leaves(c)
        BY <3>2 DEF Quits, Leaves, Closes
      <3>3. CASE Arrives(c) \/ Accepted(c)
        BY <3>3 DEF Arrives, Accepted
      <3>4. CASE SeesNew(c) \/ Cleared(c) \/ Opens(c)
        BY <3>4 DEF SeesNew, Cleared, Opens, Passes
      <3> QED BY <1>2, <3>1, <3>2, <3>3, <3>4 DEF Step
    <2>2. CASE Arrives(c)
      <3>1. \A i \in DOMAIN backlog : backlog[i] # c
        BY <2>2 DEF Basic, Queued, Arrives
      <3>2. backlog' \in Seq(Conns) /\ Len(backlog') = Len(backlog) + 1
            /\ backlog'[Len(backlog) + 1] = c
            /\ \A i \in DOMAIN backlog : backlog'[i] = backlog[i]
        BY <2>2 DEF Basic, Queued, Arrives
      <3>3. DOMAIN backlog' = DOMAIN backlog \cup {Len(backlog) + 1}
        BY <3>2 DEF Basic, Queued
      <3>4. Queued'
        BY <2>2, <3>1, <3>2, <3>3 DEF Basic, Queued, Arrives, Only
      <3> QED BY <2>1, <3>4 DEF Basic
    <2>3. CASE Accepted(c)
      <3>1. backlog' \in Seq(Conns) /\ Len(backlog') = Len(backlog) - 1 /\ c = backlog[1]
            /\ \A i \in DOMAIN backlog' : i + 1 \in DOMAIN backlog /\ i \in Nat \ {0}
                                         /\ backlog'[i] = backlog[i + 1]
        BY <2>3 DEF Basic, Queued, Accepted
      <3>2. \A i \in DOMAIN backlog' : backlog'[i] # c
        BY <3>1 DEF Basic, Queued
      <3>3. Queued'
        BY <2>3, <3>1, <3>2 DEF Basic, Queued, Accepted, Only
      <3> QED BY <2>1, <3>3 DEF Basic
    <2>4. CASE ~Arrives(c) /\ ~Accepted(c)
      <3>1. Only(c) /\ backlog' = backlog /\ conn[c].pc # "backlog"
        <4> USE DEF Still
        <4>1. CASE Plain(c) \/ Joins(c)
          BY <4>1 DEF Plain, Joins, Waiting
        <4>2. CASE Quits(c) \/ Leaves(c)
          BY <4>2 DEF Quits, Leaves, Closes, Waiting
        <4>3. CASE SeesNew(c) \/ Cleared(c) \/ Opens(c)
          BY <4>3 DEF SeesNew, Cleared, Opens, Passes
        <4> QED BY <1>2, <2>4, <4>1, <4>2, <4>3 DEF Step
      <3> QED BY <2>1, <3>1, QueueKept DEF Basic
    <2> QED BY <2>2, <2>3, <2>4
  <1> QED BY <1>1, <1>2, StepKinds

LEMMA BasicAlways == Spec => []Basic
  BY BasicInit, BasicStep, PTL DEF Spec

-------------------------------------------------------------------------------
\* The limiter inside Admission.  A connection keeps the address it came from.

Peers == \A c \in Conns : conn[c].from \in Addrs

LEMMA PeersInit == Init => Peers
  <1> SUFFICES ASSUME Init PROVE Peers
    OBVIOUS
  <1>1. PICK from \in [Conns -> Addrs], key \in [Conns -> ClientKeys] :
            conn = [c \in Conns |-> Idle(c, from[c], key[c])]
    BY DEF Init
  <1> QED BY <1>1, IdleShape DEF Peers

LEMMA StepIsOnly ==
    ASSUME NEW c \in Conns, Step(c)
    PROVE  Only(c)
  BY Zenon DEF Step, Plain, Quits, Leaves, Joins, Arrives, Accepted, SeesNew, Cleared,
               Opens, Passes, Closes

LEMMA PeersStep ==
    ASSUME Basic, Peers, [Next]_vars
    PROVE  Peers'
  <1>1. CASE Passive
    BY <1>1 DEF Passive, Peers
  <1>2. ASSUME NEW c \in Conns, Step(c)
        PROVE  Peers'
    BY <1>2, StepIsOnly DEF Only, Peers
  <1> QED BY <1>1, <1>2, StepKinds

\* Only Gate consults the limiter, only Clock moves its clock.
LEMMA LimiterStep ==
    ASSUME Peers, [Next]_vars
    PROVE  [LimNext]_limVars
  <1>1. CASE UNCHANGED vars
    BY <1>1, Zenon DEF vars
  <1>2. CASE Clock
    BY <1>2, Zenon DEF Clock, LimNext
  <1>3. CASE KeyServer \/ AcceptReality \/ AcceptPlain
    BY <1>3, Zenon DEF KeyServer, AcceptReality, AcceptPlain, KeepHandlers, KeepLists
  <1>4. ASSUME NEW c \in Conns, Gate(c)
        PROVE  LimNext
    <2>1. conn[c].from \in Addrs
      BY DEF Peers
    <2> QED BY <1>4, <2>1, Zenon DEF Gate, LimNext
  <1>5. ASSUME NEW c \in Conns,
               Dial(c) \/ PeerSends(c) \/ PeerCloses(c) \/ FrontStep(c) \/ RelayStep(c) \/ RelayEnds(c)
        PROVE  UNCHANGED limVars
    BY <1>5, Zenon DEF Dial, PeerSends, PeerCloses, FrontStep, FrontReads, FrontFails, FrontDecides,
              FrontAnswers, RelayStep, RelayDials, RelayCopies, RelayEnds, KeepHandlers, KeepLists
  <1>6. ASSUME NEW c \in Conns, HandlerStep(c) \/ SessionEnds(c), ~Gate(c)
        PROVE  UNCHANGED limVars
    BY <1>6, Zenon DEF HandlerStep, AcquireLoads, AcquireSwaps, Preface, Hello, HelloFails, Seen,
              AuthFails, CheckRevoked, Reply, SessionEnds, KeepHandlers, KeepLists
  <1> QED BY <1>1, <1>2, <1>3, <1>4, <1>5, <1>6, Zenon DEF Next

\* What handleClient does to its limiter, whatever else happens between two look-ups,
\* is what IPRateLimiter describes.
LEMMA LimiterInside == Spec => LimSpec
  <1>1. Init => LimInit
    BY DEF Init
  <1>2. Spec => []Peers
    BY PeersInit, PeersStep, BasicAlways, PTL DEF Spec
  <1> QED BY <1>1, <1>2, LimiterStep, PTL DEF Spec, LimSpec

\* Among connections that arrive, are handed on, hold slots and end in any order, each
\* address is granted the handshakes of a token bucket that is never forgotten, and
\* none is refused that its bucket would grant (main.go:357-362,
\* ip_rate_limiter.go:46-83).
THEOREM AdmissionRateLimited == Spec => ImplementsTokenBucket
  BY LimiterInside, LimiterIsTokenBucket, PTL

-------------------------------------------------------------------------------
\* Slots.

Holders == {c \in Conns : conn[c].pc \in Holding}

\* SlotsExact, and what a handler that is about to swap has loaded.
Slots ==
    /\ SlotsExact
    /\ \A c \in Conns : conn[c].pc = "swap" => conn[c].cur \in Nat /\ conn[c].cur < MaxSlots

\* One connection more, or less, among the holders.
LEMMA HoldersChange ==
    ASSUME Basic, NEW c \in Conns, Only(c)
    PROVE  /\ IsFiniteSet(Holders) /\ Cardinality(Holders) \in Nat
           /\ (conn[c].pc \in Holding <=> conn'[c].pc \in Holding) => Holders' = Holders
           /\ conn[c].pc \notin Holding /\ conn'[c].pc \in Holding
                => Cardinality(Holders') = Cardinality(Holders) + 1
           /\ conn[c].pc \in Holding /\ conn'[c].pc \notin Holding
                => Cardinality(Holders') = Cardinality(Holders) - 1
  <1>1. IsFiniteSet(Holders)
    BY FS_Subset, AdmissionAssumption DEF Holders
  <1>2. Cardinality(Holders) \in Nat
    BY <1>1, FS_CardinalityType
  <1>3. (conn[c].pc \in Holding <=> conn'[c].pc \in Holding) => Holders' = Holders
    BY DEF Holders, Only, Holding
  <1>4. ASSUME conn[c].pc \notin Holding, conn'[c].pc \in Holding
        PROVE  Cardinality(Holders') = Cardinality(Holders) + 1
    <2>1. Holders' = Holders \cup {c} /\ c \notin Holders
      BY <1>4 DEF Holders, Only, Holding
    <2> QED BY <1>1, <2>1, FS_AddElement, Zenon
  <1>5. ASSUME conn[c].pc \in Holding, conn'[c].pc \notin Holding
        PROVE  Cardinality(Holders') = Cardinality(Holders) - 1
    <2>1. Holders' = Holders \ {c} /\ c \in Holders
      BY <1>5 DEF Holders, Only, Holding
    <2> QED BY <1>1, <2>1, FS_RemoveElement
  <1> QED BY <1>1, <1>2, <1>3, <1>4, <1>5

LEMMA SlotsStep ==
    ASSUME Basic, Slots, [Next]_vars
    PROVE  Slots'
  <1>1. SlotsExact <=> active = Cardinality(Holders) /\ active <= MaxSlots
    BY DEF SlotsExact, Holders
  <1>2. SlotsExact' <=> active' = Cardinality(Holders') /\ active' <= MaxSlots
    BY DEF SlotsExact, Holders
  <1>3. CASE Passive
    BY <1>3 DEF Passive, Slots, SlotsExact
  <1>4. ASSUME NEW c \in Conns, Step(c)
        PROVE  Slots'
    <2>1. Only(c)
      BY <1>4 DEF Step, Plain, Quits, Leaves, Joins, Arrives, Accepted, SeesNew, Cleared,
                  Opens, Passes, Closes
    <2>2. /\ active \in Nat /\ active = Cardinality(Holders) /\ active <= MaxSlots
          /\ MaxSlots \in Nat
      BY <1>1, <2>1, HoldersChange, AdmissionAssumption DEF Slots
    <2>3. CASE Joins(c)
      BY <1>2, <2>1, <2>2, <2>3, HoldersChange DEF Joins, Slots, Only, Holding
    <2>4. CASE Leaves(c)
      BY <1>2, <2>1, <2>2, <2>4, HoldersChange DEF Leaves, Closes, Slots, Only, Holding
    <2>5. CASE Accepted(c)
      <3>1. conn[c].pc = "backlog"
        BY <2>5 DEF Basic, Queued, Accepted
      <3> QED BY <1>2, <2>1, <2>2, <2>5, <3>1, HoldersChange DEF Accepted, Slots, Only, Holding
    <2>6. CASE Plain(c) \/ Quits(c) \/ Arrives(c)
      BY <1>2, <2>1, <2>2, <2>6, HoldersChange
         DEF Plain, Quits, Arrives, Closes, Slots, Only, Holding
    <2>7. CASE SeesNew(c) \/ Cleared(c) \/ Opens(c)
      BY <1>2, <2>1, <2>2, <2>7, HoldersChange
         DEF SeesNew, Cleared, Opens, Passes, Slots, Only, Holding
    <2> QED BY <1>4, <2>3, <2>4, <2>5, <2>6, <2>7 DEF Step
  <1> QED BY <1>3, <1>4, StepKinds

LEMMA SlotsInit == Init => Slots
  <1> SUFFICES ASSUME Init PROVE Slots
    OBVIOUS
  <1>1. PICK from \in [Conns -> Addrs], key \in [Conns -> ClientKeys] :
            conn = [c \in Conns |-> Idle(c, from[c], key[c])]
    BY DEF Init
  <1>2. \A c \in Conns : conn[c].pc = "idle"
    BY <1>1, IdleShape
  <1>3. {c \in Conns : conn[c].pc \in Holding} = {}
    BY <1>2 DEF Holding
  <1>4. active = 0
    BY DEF Init
  <1>5. SlotsExact
    <2>1. Cardinality({c \in Conns : conn[c].pc \in Holding}) = 0
      BY <1>3, FS_EmptySet, Zenon
    <2> QED BY <1>4, <2>1, AdmissionAssumption DEF SlotsExact
  <1> QED BY <1>2, <1>5 DEF Slots

\* For any number of connections and slots, HandshakeRateLimiter's counter is the number
\* of handlers between Acquire and Release, and never exceeds its limit.
THEOREM SlotsCounted == Spec => []SlotsExact
  <1>1. Slots => SlotsExact
    BY DEF Slots
  <1> QED BY <1>1, BasicAlways, SlotsInit, SlotsStep, PTL DEF Spec

-------------------------------------------------------------------------------
\* Revocation.  Because the remembered time is truncated, the file's time, which has a
\* fraction, is always later: every look-up reads the file.
AlwaysDue ==
    /\ \E s \in Int : file.mtime = 2 * s + 1
    /\ store.modTime \in Int /\ store.modTime < file.mtime /\ file.mtime <= 2 * now + 1
    /\ DOMAIN store = {"nil", "keys", "modTime", "initialized"}
    /\ listed \subseteq store.keys
    /\ store.nil \/ ~store.initialized => listed = {}
    /\ slipped = {}

LEMMA DueInit == Init => AlwaysDue
  <1> SUFFICES ASSUME Init PROVE AlwaysDue
    OBVIOUS
  <1>1. now \in Nat /\ RevInit(now) /\ slipped = {}
    BY LimiterAssumption DEF Init, LimInit
  <1>2. PICK form \in {"missing", "torn", "whole"}, ks \in SUBSET Keys, s \in {now - 1, now} :
            file = [form |-> form, mtime |-> 2 * s + 1,
                    keys |-> IF form = "whole" THEN ks ELSE {}]
    BY <1>1, Zenon DEF RevInit
  <1>3. s \in Int /\ file.mtime = 2 * s + 1 /\ file.mtime <= 2 * now + 1
        /\ ZeroTime < file.mtime /\ ZeroTime \in Int
    BY <1>1, <1>2 DEF ZeroTime
  <1>4. Truncated(file.mtime) \in Int /\ Truncated(file.mtime) < file.mtime
    BY <1>3 DEF Truncated
  <1>5. listed = {} /\ file.form \in {"missing", "torn", "whole"}
    BY <1>1, <1>2 DEF RevInit
  <1>6. DOMAIN store = {"nil", "keys", "modTime", "initialized"}
        /\ store.modTime \in {ZeroTime, Truncated(file.mtime)}
    BY <1>1, <1>5 DEF RevInit
  <1> QED BY <1>1, <1>3, <1>4, <1>5, <1>6 DEF AlwaysDue

\* A look-up reads the file when there is one that parses.
LEMMA LookUp ==
    ASSUME AlwaysDue, now \in Nat, NEW key, NEW verdict \in BOOLEAN, IsRevoked(key, verdict)
    PROVE  /\ listed' \subseteq store'.keys
           /\ store'.nil \/ ~store'.initialized => listed' = {}
           /\ DOMAIN store' = {"nil", "keys", "modTime", "initialized"}
           /\ store'.modTime \in Int /\ store'.modTime < file.mtime /\ file' = file
           /\ ~verdict => key \notin listed'
  <1>1. PICK s \in Int : file.mtime = 2 * s + 1
    BY DEF AlwaysDue
  <1>2. Truncated(file.mtime) \in Int /\ Truncated(file.mtime) < file.mtime
    BY <1>1 DEF Truncated
  <1>3. file.mtime > store.modTime
    BY <1>1 DEF AlwaysDue
  <1>4. CASE store.nil
    <2>1. store' = store /\ listed' = listed /\ listed = {} /\ file' = file
      BY <1>4 DEF IsRevoked, AlwaysDue
    <2> QED BY <2>1 DEF AlwaysDue
  <1>5. CASE ~store.nil /\ reloadDue /\ ~reloadFails
    <2>1. file.form # "missing" /\ file' = file /\ store' = Reloaded
          /\ (verdict <=> key \in Reloaded.keys)
          /\ listed' \subseteq listed \cup file.keys
      BY <1>5 DEF IsRevoked, reloadDue
    <2>2. /\ DOMAIN store' = {"nil", "keys", "modTime", "initialized"}
          /\ store'.keys = store.keys \cup file.keys /\ store'.initialized
          /\ store'.modTime = Truncated(file.mtime) /\ store'.nil = store.nil
      BY <2>1 DEF Reloaded, AlwaysDue
    <2> QED BY <1>2, <1>5, <2>1, <2>2 DEF AlwaysDue
  <1>6. CASE ~store.nil /\ ~(reloadDue /\ ~reloadFails)
    <2>1. reloadFails /\ file.form # "whole"
      BY <1>3, <1>6 DEF reloadDue, reloadFails
    <2>2. store' = store /\ listed' = listed /\ file' = file
          /\ (verdict <=> store.initialized)
      BY <1>6, <2>1 DEF IsRevoked
    <2> QED BY <2>2 DEF AlwaysDue
  <1> QED BY <1>4, <1>5, <1>6

LEMMA DueStep ==
    ASSUME Basic, AlwaysDue, [Next]_vars
    PROVE  AlwaysDue'
  <1>1. CASE UNCHANGED <<revVars, slipped>> /\ now' \in {now, now + 1}
    BY <1>1 DEF AlwaysDue, revVars, Basic
  <1>2. CASE KeyServer
    <2>1. PICK form \in {"missing", "torn", "whole"}, ks \in SUBSET Keys :
              file' = [form |-> form, mtime |-> 2 * now + 1,
                       keys |-> IF form = "whole" THEN ks ELSE {}]
      BY <1>2, Zenon DEF KeyServer, KeyServerTouches
    <2>2. file'.mtime = 2 * now + 1 /\ now' = now /\ now \in Int
          /\ UNCHANGED <<store, listed, slipped>>
      BY <1>2, <2>1 DEF KeyServer, KeyServerTouches, limVars, admVars, Basic
    <2>3. PICK s \in Int : file.mtime = 2 * s + 1
      BY DEF AlwaysDue
    <2> QED BY <2>2, <2>3 DEF AlwaysDue
  <1>3. ASSUME NEW c \in Conns, CheckRevoked(c)
        PROVE  AlwaysDue'
    <2> DEFINE key == conn[conn[c].tok].key
    <2>1. PICK verdict \in BOOLEAN :
              /\ IsRevoked(key, verdict)
              /\ slipped' = IF ~verdict /\ key \in listed' THEN slipped \cup {c} ELSE slipped
      BY <1>3 DEF CheckRevoked
    <2>2. now' = now /\ now \in Nat
      BY <1>3 DEF CheckRevoked, limVars, Basic
    <2>3. slipped' = {}
      BY <2>1, <2>2, LookUp DEF AlwaysDue
    <2> QED BY <2>1, <2>2, <2>3, LookUp DEF AlwaysDue
  <1>4. CASE UNCHANGED vars \/ Clock \/ AcceptReality \/ AcceptPlain
    BY <1>1, <1>4 DEF vars, admVars, limVars, Clock, Tick, AcceptReality, AcceptPlain,
                      KeepHandlers, KeepLists
  <1>5. ASSUME NEW c \in Conns,
               Dial(c) \/ PeerSends(c) \/ PeerCloses(c) \/ FrontStep(c) \/ RelayStep(c)
                   \/ RelayEnds(c)
        PROVE  AlwaysDue'
    <2>1. CASE Dial(c) \/ PeerSends(c) \/ PeerCloses(c)
      BY <1>1, <2>1, Zenon DEF Dial, PeerSends, PeerCloses, KeepHandlers, KeepLists, limVars
    <2>2. CASE FrontStep(c)
      BY <1>1, <2>2 DEF FrontStep, FrontReads, FrontFails, FrontDecides, FrontAnswers,
                        KeepHandlers, KeepLists, limVars
    <2>3. CASE RelayStep(c) \/ RelayEnds(c)
      BY <1>1, <2>3 DEF RelayStep, RelayDials, RelayCopies, RelayEnds, KeepHandlers, KeepLists,
                        limVars
    <2> QED BY <1>5, <2>1, <2>2, <2>3
  <1>6. ASSUME NEW c \in Conns, HandlerStep(c) \/ SessionEnds(c), ~CheckRevoked(c)
        PROVE  AlwaysDue'
    BY <1>1, <1>6 DEF HandlerStep, Gate, Allow, AcquireLoads, AcquireSwaps, Preface, Hello,
                      HelloFails, Seen, AuthFails, Reply, SessionEnds, KeepHandlers,
                      KeepLists, limVars
  <1> QED BY <1>2, <1>3, <1>4, <1>5, <1>6 DEF Next

\* Whatever the key server writes and when, a key that a readable revocation file has
\* listed at a look-up is refused from then on (revocationStore.IsRevoked).
THEOREM RevocationApplies == Spec => []RevokedRefused
  <1>1. AlwaysDue => RevokedRefused
    BY DEF AlwaysDue, RevokedRefused
  <1> QED BY <1>1, BasicAlways, DueInit, DueStep, PTL DEF Spec
===============================================================================
