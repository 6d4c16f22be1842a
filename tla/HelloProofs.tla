----------------------------- MODULE HelloProofs ------------------------------
(*****************************************************************************)
(* Two proofs about Admission that follow a connection's bytes, for any      *)
(* number of connections: a hello opens at most one session, in any windows  *)
(* in which the cache outlives the hello; and no byte is lost, repeated or   *)
(* reordered when the demuxer hands a connection on.                         *)
(*****************************************************************************)
EXTENDS AdmissionProofs

\* Hellos.  A connection carries its own hello or that of a client, and no hello is
\* dated so far ahead that its entry in the cache could expire before it does.
Bears ==
    \A c \in Conns :
        /\ conn[c].kind \in Kinds /\ conn[c].ts \in Int /\ conn[c].tok \in Conns
        /\ conn[c].pc = "idle" => conn[c].kind = "other"
        /\ conn[c].kind \in {"browser", "other"} => conn[c].ts = 0
        /\ conn[c].kind # "copy" => conn[c].tok = c
        /\ conn[c].kind = "copy" => /\ conn[conn[c].tok].kind = "client"
                                   /\ conn[conn[c].tok].ts = conn[c].ts
        /\ conn[c].ts + Window < now + HelloTTL

\* A hello that was sent keeps its time stamp; a dead one stays dead.
Known(k) == k \in Conns /\ conn[k].kind # "copy" /\ conn[k].pc # "idle"
Dead(k)  == conn[k].ts + Window < now

\* c has passed the cache with hello k, and has passed the handshake with it.
Past(c, k) == <<c, k>> \in opened \/ (conn[c].tok = k /\ conn[c].pc \in {"auth", "reply"})
Won(c, k)  == <<c, k>> \in opened \/ (conn[c].tok = k /\ conn[c].pc = "reply")

\* The cache remembers a hello until it is dead, so two connections that passed with
\* one hello did so when it was dead, and only one of them can have won.
OpenedPairs == opened \subseteq Conns \X Conns
Remembered ==
    \A k \in DOMAIN helloSeen :
        Known(k) /\ helloSeen[k] \in Int /\ conn[k].ts + Window < helloSeen[k]
PastKnown ==
    \A c, k \in Conns : Past(c, k) => Known(k) /\ (k \in DOMAIN helloSeen \/ Dead(k))
OneWinner ==
    \A c, d, k \in Conns :
        c # d /\ Past(c, k) /\ Past(d, k) => Dead(k) /\ ~(Won(c, k) /\ Won(d, k))

Once == OpenedPairs /\ Remembered /\ PastKnown /\ OneWinner

LEMMA BearsInit == Init => Bears /\ Once
  <1> SUFFICES ASSUME Init PROVE Bears /\ Once
    OBVIOUS
  <1>1. PICK from \in [Conns -> Addrs], key \in [Conns -> ClientKeys] :
            conn = [c \in Conns |-> Idle(c, from[c], key[c])]
    BY DEF Init
  <1>2. \A c \in Conns : /\ conn[c].pc = "idle" /\ conn[c].ts = 0 /\ conn[c].tok = c
                         /\ conn[c].kind = "other"
    BY <1>1, IdleShape
  <1>3. now \in Nat
    BY LimiterAssumption DEF Init, LimInit
  <1>4. Bears
    BY <1>2, <1>3, AdmissionAssumption DEF Bears, Kinds
  <1>5. opened = {} /\ DOMAIN helloSeen = {}
    BY DEF Init
  <1>6. \A c, k \in Conns : ~Past(c, k)
    BY <1>2, <1>5 DEF Past
  <1>7. OpenedPairs /\ Remembered
    BY <1>5 DEF OpenedPairs, Remembered
  <1>8. PastKnown /\ OneWinner
    BY <1>6 DEF PastKnown, OneWinner
  <1> QED BY <1>4, <1>7, <1>8 DEF Once

\* Whose hello a connection past the backlog carries is known.
LEMMA CarriesKnown ==
    ASSUME Bears, NEW c \in Conns, conn[c].pc # "idle"
    PROVE  Known(conn[c].tok) /\ conn[conn[c].tok].ts = conn[c].ts
  BY DEF Bears, Known, Kinds

\* How a step changes what a connection carries.
LEMMA Carries ==
    ASSUME Basic, Bears, NEW c \in Conns, Step(c)
    PROVE  /\ Only(c) /\ now' = now
           /\ conn'[c].pc # "idle"
           /\ \/ Bearer(c) /\ conn[c].pc # "idle"
              \/ Closes(c)
              \/ Arrives(c)
  <1> DEFINE Goal == /\ Only(c) /\ now' = now /\ conn'[c].pc # "idle"
                     /\ (Bearer(c) /\ conn[c].pc # "idle") \/ Closes(c) \/ Arrives(c)
  <1>1. CASE Accepted(c)
    <2>1. conn[c].pc # "idle"
      BY <1>1 DEF Accepted, Basic, Queued
    <2> QED BY <1>1, <2>1 DEF Accepted
  <1>2. CASE Plain(c)
    BY <1>2 DEF Plain, Still, Waiting
  <1>3. CASE Quits(c) \/ Leaves(c)
    BY <1>3 DEF Quits, Leaves, Closes, Still
  <1>4. CASE Joins(c)
    BY <1>4 DEF Joins, Still
  <1>5. CASE Arrives(c)
    BY <1>5 DEF Arrives
  <1>6. ASSUME NEW from \in {"seen", "auth", "reply"}, NEW to \in {"auth", "reply", "session"},
               Passes(c, from, to)
        PROVE  Goal
    BY <1>6 DEF Passes, Still
  <1>7. CASE SeesNew(c) \/ Cleared(c) \/ Opens(c)
    BY <1>6, <1>7 DEF SeesNew, Cleared, Opens
  <1> QED BY <1>1, <1>2, <1>3, <1>4, <1>5, <1>7 DEF Step

LEMMA KnownKept ==
    ASSUME Basic, Bears, NEW c \in Conns, Step(c), NEW k, Known(k)
    PROVE  Known(k)' /\ conn'[k].ts = conn[k].ts
  <1>1. CASE k # c
    BY <1>1, Carries DEF Known, Only
  <1>2. CASE k = c
    BY <1>2, Carries DEF Known, Bears, Bearer, Closes, Arrives, Kinds
  <1> QED BY <1>1, <1>2

LEMMA BearsStep ==
    ASSUME Basic, Bears, [Next]_vars
    PROVE  Bears'
  <1>1. CASE Passive
    <2>1. conn' = conn /\ now \in Nat /\ now' \in Nat /\ now' >= now
      BY <1>1 DEF Passive, Basic
    <2>2. \A d \in Conns : conn[d].ts + Window < now + HelloTTL
                            => conn[d].ts + Window < now' + HelloTTL
      BY <2>1, AdmissionAssumption DEF Bears
    <2> QED BY <2>1, <2>2 DEF Bears
  <1>2. ASSUME NEW c \in Conns, Step(c)
        PROVE  Bears'
    <2> SUFFICES ASSUME NEW d \in Conns
                 PROVE  /\ conn'[d].kind \in Kinds /\ conn'[d].ts \in Int
                        /\ conn'[d].tok \in Conns
                        /\ conn'[d].pc = "idle" => conn'[d].kind = "other"
                        /\ conn'[d].kind \in {"browser", "other"} => conn'[d].ts = 0
                        /\ conn'[d].kind # "copy" => conn'[d].tok = d
                        /\ conn'[d].kind = "copy" =>
                               /\ conn'[conn'[d].tok].kind = "client"
                               /\ conn'[conn'[d].tok].ts = conn'[d].ts
                        /\ conn'[d].ts + Window < now' + HelloTTL
      BY DEF Bears
    <2>1. Only(c) /\ now' = now /\ conn'[c].pc # "idle" /\ now \in Nat
      BY <1>2, Carries DEF Basic
    <2>2. \A e \in Conns : conn[e].kind = "client" =>
              conn'[e].kind = "client" /\ conn'[e].ts = conn[e].ts
      BY <1>2, Carries DEF Only, Bearer, Closes, Arrives, Bears
    <2>3. CASE d # c
      BY <2>1, <2>2, <2>3 DEF Only, Bears
    <2>4. CASE d = c /\ Bearer(c) /\ conn[c].pc # "idle"
      BY <2>1, <2>2, <2>4 DEF Bearer, Bears
    <2>5. CASE d = c /\ Closes(c)
      BY <2>1, <2>5, AdmissionAssumption DEF Closes, Bears, Kinds
    <2>6. CASE d = c /\ Arrives(c)
      <3>1. conn[c].ts = 0 /\ conn[c].tok = c /\ conn'[c].pc = "backlog"
        BY <2>6 DEF Arrives, Bears
      <3>2. CASE conn'[c].kind \in {"browser", "other"}
        BY <2>1, <2>6, <3>1, <3>2, AdmissionAssumption DEF Arrives, Kinds
      <3>3. CASE conn'[c].kind = "client"
        <4>1. PICK skew \in Skews : conn'[c].ts = now + skew
          BY <2>6, <3>3 DEF Arrives
        <4>2. conn'[c].tok = c
          BY <2>6, <3>1, <3>3 DEF Arrives
        <4> QED BY <2>1, <2>6, <3>1, <3>3, <4>1, <4>2, AdmissionAssumption DEF Kinds
      <3>4. CASE conn'[c].kind = "copy"
        <4>1. PICK e \in Conns \ {c} : /\ conn[e].kind = "client"
                                       /\ conn'[c].tok = e /\ conn'[c].ts = conn[e].ts
          BY <2>6, <3>4 DEF Arrives
        <4>2. conn[e].ts \in Int /\ conn[e].ts + Window < now + HelloTTL
          BY DEF Bears
        <4> QED BY <2>1, <2>2, <2>6, <3>1, <3>4, <4>1, <4>2 DEF Kinds
      <3> QED BY <2>6, <3>2, <3>3, <3>4 DEF Arrives
    <2> QED BY <1>2, Carries, <2>3, <2>4, <2>5, <2>6
  <1> QED BY <1>1, <1>2, StepKinds

\* A step that lets nobody past leaves the invariant alone.
LEMMA OnceKept ==
    ASSUME Once, NEW c \in Conns, now' = now, helloSeen' = helloSeen,
           opened' \subseteq Conns \X Conns,
           \A k : Known(k) => Known(k)' /\ conn'[k].ts = conn[k].ts,
           \A d, k \in Conns : /\ Past(d, k)' => Past(d, k)
                               /\ Won(d, k)' => Won(d, k)
    PROVE  Once'
  <1>1. Remembered'
    BY DEF Once, Remembered
  <1>2. \A k : Known(k) /\ Dead(k) => Dead(k)'
    BY DEF Dead
  <1>3. PastKnown'
    BY <1>2 DEF Once, PastKnown
  <1>4. ASSUME NEW d \in Conns, NEW e \in Conns, NEW k \in Conns, d # e,
               Past(d, k)', Past(e, k)'
        PROVE  Dead(k)' /\ ~(Won(d, k)' /\ Won(e, k)')
    <2>1. Past(d, k) /\ Past(e, k)
      BY <1>4
    <2>2. Known(k) /\ Dead(k) /\ ~(Won(d, k) /\ Won(e, k))
      BY <1>4, <2>1 DEF Once, PastKnown, OneWinner
    <2> QED BY <1>2, <2>2
  <1>5. OneWinner'
    BY <1>4 DEF OneWinner
  <1> QED BY <1>1, <1>3, <1>5 DEF Once, OpenedPairs

LEMMA SeesNewOnce ==
    ASSUME Basic, Bears, Once, NEW c \in Conns, SeesNew(c)
    PROVE  Once'
  <1> DEFINE h == conn[c].tok
  <1>1. Step(c) /\ now' = now /\ now \in Nat /\ opened' = opened /\ Only(c) /\ h \in Conns
    BY DEF Step, SeesNew, Passes, Still, Basic, Bears
  <1>2. Known(h) /\ conn[h].ts = conn[c].ts /\ conn[h].ts \in Int
        /\ conn[h].ts + Window < now + HelloTTL
    <2>1. conn[c].pc # "idle"
      BY DEF SeesNew, Passes
    <2> QED BY <2>1, CarriesKnown DEF Bears
  <1>3. \A k : Known(k) => Known(k)' /\ conn'[k].ts = conn[k].ts
    BY <1>1, KnownKept
  <1>4. /\ h \in DOMAIN helloSeen' /\ helloSeen'[h] = now + HelloTTL
        /\ \A k \in DOMAIN helloSeen' : k # h =>
               k \in DOMAIN helloSeen /\ helloSeen'[k] = helloSeen[k]
        /\ \A k \in DOMAIN helloSeen : k \notin DOMAIN helloSeen' => ~(now < helloSeen[k])
    BY DEF SeesNew, Recorded
  <1>5. h \in DOMAIN helloSeen => ~(now < helloSeen[h])
    BY DEF SeesNew, Replayed
  <1>6. \A d, k \in Conns : /\ Past(d, k)' => Past(d, k) \/ (d = c /\ k = h)
                            /\ Won(d, k)' => Won(d, k)
    BY <1>1 DEF Past, Won, SeesNew, Passes, Bearer, Only
  <1>7. \A k \in Conns : Dead(k) /\ Known(k) => Dead(k)'
    BY <1>1, <1>3 DEF Dead
  <1>8. \A k \in DOMAIN helloSeen : ~(now < helloSeen[k]) => Dead(k)
    BY <1>1, AdmissionAssumption DEF Once, Remembered, Dead, Known, Bears
  <1>9. Remembered'
    <2> SUFFICES ASSUME NEW k \in DOMAIN helloSeen'
                 PROVE  Known(k)' /\ helloSeen'[k] \in Int
                        /\ conn'[k].ts + Window < helloSeen'[k]
      BY DEF Remembered
    <2>1. CASE k = h
      <3>1. helloSeen'[k] = now + HelloTTL /\ Known(k)' /\ conn'[k].ts = conn[h].ts
        BY <1>2, <1>3, <1>4, <2>1
      <3> HIDE DEF h
      <3> QED BY <1>1, <1>2, <3>1, AdmissionAssumption
    <2>2. CASE k # h
      <3>1. k \in DOMAIN helloSeen /\ helloSeen'[k] = helloSeen[k]
        BY <1>4, <2>2
      <3>2. Known(k) /\ helloSeen[k] \in Int /\ conn[k].ts + Window < helloSeen[k]
        BY <3>1 DEF Once, Remembered
      <3> QED BY <1>3, <3>1, <3>2
    <2> QED BY <2>1, <2>2
  <1>10. ASSUME NEW d \in Conns, NEW k \in Conns, Past(d, k)'
         PROVE  Known(k)' /\ (k \in DOMAIN helloSeen' \/ Dead(k)')
    <2>1. CASE k = h
      BY <1>2, <1>3, <1>4, <2>1
    <2>2. CASE k # h
      <3>1. Past(d, k)
        BY <1>6, <1>10, <2>2
      <3>2. Known(k) /\ (k \in DOMAIN helloSeen \/ Dead(k))
        BY <3>1 DEF Once, PastKnown
      <3> QED BY <1>3, <1>4, <1>7, <1>8, <3>2
    <2> QED BY <2>1, <2>2
  <1>11. ASSUME NEW d \in Conns, NEW e \in Conns, NEW k \in Conns, d # e,
                Past(d, k)', Past(e, k)'
         PROVE  Dead(k)' /\ ~(Won(d, k)' /\ Won(e, k)')
    <2>1. CASE Past(d, k) /\ Past(e, k)
      <3>1. Known(k) /\ Dead(k) /\ ~(Won(d, k) /\ Won(e, k))
        BY <1>11, <2>1 DEF Once, PastKnown, OneWinner
      <3> QED BY <1>6, <1>7, <3>1
    <2>2. CASE ~(Past(d, k) /\ Past(e, k))
      <3>1. k = h /\ (Past(d, k) \/ Past(e, k))
        BY <1>6, <1>11, <2>2
      <3>2. k \in DOMAIN helloSeen \/ Dead(k)
        BY <3>1 DEF Once, PastKnown
      <3>3. Dead(k)
        BY <1>5, <1>8, <3>1, <3>2
      <3>4. ~(Won(d, k) /\ Won(e, k))
        BY <2>2 DEF Won, Past
      <3> QED BY <1>2, <1>6, <1>7, <3>1, <3>3, <3>4
    <2> QED BY <2>1, <2>2
  <1>12. OpenedPairs'
    BY <1>1 DEF Once, OpenedPairs
  <1>13. PastKnown'
    BY <1>10 DEF PastKnown
  <1>14. OneWinner'
    BY <1>11 DEF OneWinner
  <1> QED BY <1>9, <1>12, <1>13, <1>14 DEF Once

LEMMA ClearedOnce ==
    ASSUME Basic, Bears, Once, NEW c \in Conns, Cleared(c)
    PROVE  Once'
  <1> DEFINE h == conn[c].tok
  <1>1. Step(c) /\ now' = now /\ now \in Nat /\ opened' = opened /\ helloSeen' = helloSeen
        /\ Only(c) /\ conn[c].pc = "auth" /\ h \in Conns
    BY DEF Step, Cleared, Passes, Still, Basic, Bears
  <1>2. conn[h].ts = conn[c].ts /\ conn[c].ts \in Int
    BY <1>1, CarriesKnown DEF Bears
  <1>3. ~Dead(h)
    BY <1>1, <1>2, AdmissionAssumption DEF Cleared, HelloValid, Fresh, Dead
  <1>4. \A k : Known(k) => Known(k)' /\ conn'[k].ts = conn[k].ts
    BY <1>1, KnownKept
  <1>5. \A d, k \in Conns : /\ Past(d, k)' => Past(d, k)
                            /\ Won(d, k)' => Won(d, k) \/ (d = c /\ k = h)
    BY <1>1 DEF Past, Won, Cleared, Passes, Bearer, Only
  <1>6. Past(c, h)
    BY <1>1 DEF Past
  <1>7. \A d \in Conns \ {c} : ~Past(d, h)
    BY <1>1, <1>3, <1>6 DEF Once, OneWinner
  <1>8. Remembered'
    BY <1>1, <1>4 DEF Once, Remembered
  <1>9. PastKnown'
    <2>1. \A k : Known(k) /\ Dead(k) => Dead(k)'
      BY <1>1, <1>4 DEF Dead
    <2> QED BY <1>1, <1>4, <1>5, <2>1 DEF Once, PastKnown
  <1>10. ASSUME NEW d \in Conns, NEW e \in Conns, NEW k \in Conns, d # e,
                Past(d, k)', Past(e, k)'
         PROVE  Dead(k)' /\ ~(Won(d, k)' /\ Won(e, k)')
    <2>1. Past(d, k) /\ Past(e, k)
      BY <1>5, <1>10
    <2>2. k # h
      BY <1>7, <1>10, <2>1
    <2>3. Dead(k) /\ Known(k) /\ ~(Won(d, k) /\ Won(e, k))
      BY <1>10, <2>1 DEF Once, PastKnown, OneWinner
    <2>4. Dead(k)'
      BY <1>1, <1>4, <2>3 DEF Dead
    <2> QED BY <1>5, <2>2, <2>3, <2>4
  <1>11. OneWinner'
    BY <1>10 DEF OneWinner
  <1>12. OpenedPairs'
    BY <1>1 DEF Once, OpenedPairs
  <1> QED BY <1>8, <1>9, <1>11, <1>12 DEF Once

\* The steps that let nobody past.
LEMMA Quiet ==
    ASSUME NEW c \in Conns, Step(c), ~SeesNew(c), ~Cleared(c), ~Opens(c)
    PROVE  /\ helloSeen' = helloSeen /\ opened' = opened
           /\ conn'[c].pc \in {"auth", "reply"} =>
                  conn'[c].pc = conn[c].pc /\ conn'[c].tok = conn[c].tok
  <1>1. CASE Plain(c)
    BY <1>1 DEF Plain, Bearer
  <1>2. CASE Quits(c) \/ Leaves(c)
    BY <1>2 DEF Quits, Leaves, Closes
  <1>3. CASE Joins(c)
    BY <1>3 DEF Joins
  <1>4. CASE Arrives(c)
    BY <1>4 DEF Arrives
  <1>5. CASE Accepted(c)
    BY <1>5 DEF Accepted
  <1> QED BY <1>1, <1>2, <1>3, <1>4, <1>5 DEF Step

LEMMA OnceStep ==
    ASSUME Basic, Bears, Once, [Next]_vars
    PROVE  Once'
  <1>1. CASE Passive
    <2>1. \A k \in Conns : Dead(k) => Dead(k)'
      BY <1>1, AdmissionAssumption DEF Passive, Dead, Bears, Basic
    <2>2. \A c, k \in Conns : (Past(c, k)' <=> Past(c, k)) /\ (Won(c, k)' <=> Won(c, k))
      BY <1>1 DEF Passive, Past, Won
    <2>3. \A k : Known(k)' <=> Known(k)
      BY <1>1 DEF Passive, Known
    <2>4. Remembered' /\ OpenedPairs'
      BY <1>1, <2>3 DEF Passive, Once, Remembered, OpenedPairs
    <2>5. PastKnown'
      BY <1>1, <2>1, <2>2, <2>3 DEF Passive, Once, PastKnown
    <2>6. OneWinner'
      BY <2>1, <2>2 DEF Once, OneWinner
    <2> QED BY <2>4, <2>5, <2>6 DEF Once
  <1>2. ASSUME NEW c \in Conns, Step(c), ~SeesNew(c), ~Cleared(c)
        PROVE  Once'
    <2>1. now' = now /\ Only(c) /\ helloSeen' = helloSeen
      BY <1>2, Carries, Quiet DEF Opens
    <2>2. \A k : Known(k) => Known(k)' /\ conn'[k].ts = conn[k].ts
      BY <1>2, KnownKept
    <2>3. CASE Opens(c)
      <3>1. opened' \subseteq Conns \X Conns
        BY <2>3 DEF Opens, Once, OpenedPairs, Bears
      <3>2. \A d, k \in Conns : (Past(d, k)' => Past(d, k)) /\ (Won(d, k)' => Won(d, k))
        BY <2>1, <2>3 DEF Opens, Passes, Past, Won, Only
      <3> QED BY <2>1, <2>2, <3>1, <3>2, OnceKept
    <2>4. CASE ~Opens(c)
      <3>1. opened' = opened
        BY <1>2, <2>4, Quiet
      <3>2. conn'[c].pc \in {"auth", "reply"} =>
                conn'[c].pc = conn[c].pc /\ conn'[c].tok = conn[c].tok
        BY <1>2, <2>4, Quiet
      <3>3. \A d, k \in Conns : (Past(d, k)' => Past(d, k)) /\ (Won(d, k)' => Won(d, k))
        BY <2>1, <3>1, <3>2 DEF Past, Won, Only
      <3> QED BY <2>1, <2>2, <3>1, <3>3, OnceKept DEF Once, OpenedPairs
    <2> QED BY <2>3, <2>4
  <1> QED BY <1>1, <1>2, StepKinds, SeesNewOnce, ClearedOnce

\* For any number of connections, however long a handler takes between its steps and
\* however small the cache: a hello opens at most one session.
THEOREM HelloOpensOnce == Spec => []OneSessionPerHello
  <1>1. Once => OneSessionPerHello
    <2> SUFFICES ASSUME Once, NEW s \in opened, NEW u \in opened, s[2] = u[2]
                 PROVE  s = u
      BY DEF OneSessionPerHello
    <2>1. /\ s = <<s[1], s[2]>> /\ s[1] \in Conns /\ s[2] \in Conns
          /\ u = <<u[1], u[2]>> /\ u[1] \in Conns
      BY DEF Once, OpenedPairs
    <2>2. Past(s[1], s[2]) /\ Won(s[1], s[2]) /\ Past(u[1], s[2]) /\ Won(u[1], s[2])
      BY <2>1 DEF Past, Won
    <2>3. s[1] = u[1]
      BY <2>1, <2>2 DEF Once, OneWinner
    <2> QED BY <2>1, <2>3
  <1>2. Spec => [](Basic /\ Bears)
    BY BasicAlways, BearsInit, BearsStep, PTL DEF Spec
  <1> QED BY <1>1, <1>2, BearsInit, OnceStep, PTL DEF Spec

-------------------------------------------------------------------------------
\* Streams.  Which bytes a connection's owner has read, and which are peeked, at each
\* point: got and then peek hold the positions from first up to taken.

InOrder(got, peek, first, taken) ==
    /\ taken >= first - 1 /\ Len(got) + Len(peek) = taken - first + 1
    /\ \A i \in 1 .. Len(got) : got[i] = first + i - 1
    /\ \A i \in 1 .. Len(peek) : peek[i] = first + Len(got) + i - 1

Unread   == {"idle", "backlog", "front", "fetch", "dialing"}
Handling == Holding \cup {"start", "acquire", "swap"}
First(m) == IF m = "reality" THEN RecLen + 1 ELSE 1

StreamAt(r, m) ==
    /\ r.sent \in Nat /\ r.taken \in Nat /\ r.got \in Seq(Nat) /\ r.peek \in Seq(Nat)
    /\ r.pc \in Unread => r.got = << >> /\ r.peek = << >>
    /\ r.pc \in {"idle", "backlog"} => r.taken = 0
    /\ r.pc \in {"front", "fetch"} => m = "reality"
    /\ r.pc = "fetch" => r.taken >= RecLen
    /\ r.pc \in Handling => InOrder(r.got, r.peek, First(m), r.taken)
    /\ r.pc \in {"relay", "relayUp"} =>
         InOrder(r.got, r.peek, 1, r.taken) /\ r.peek = << >>

Streams == \A c \in Conns : StreamAt(conn[c], mode)

\* One byte more in got, from peek or from the socket, is the next one.
LEMMA NextInOrder ==
    ASSUME NEW got \in Seq(Nat), NEW peek \in Seq(Nat), NEW taken \in Nat, NEW first \in Nat,
           InOrder(got, peek, first, taken)
    PROVE  /\ peek # << >> =>
                /\ Append(got, Head(peek)) \in Seq(Nat) /\ Tail(peek) \in Seq(Nat)
                /\ InOrder(Append(got, Head(peek)), Tail(peek), first, taken)
           /\ peek = << >> =>
                /\ Append(got, taken + 1) \in Seq(Nat)
                /\ InOrder(Append(got, taken + 1), peek, first, taken + 1)
  <1>0. Len(got) \in Nat /\ Len(peek) \in Nat
    OBVIOUS
  <1>o. /\ taken >= first - 1 /\ Len(got) + Len(peek) = taken - first + 1
        /\ \A i \in 1 .. Len(got) : got[i] = first + i - 1
        /\ \A i \in 1 .. Len(peek) : peek[i] = first + Len(got) + i - 1
    BY Zenon DEF InOrder
  <1>1. ASSUME NEW x \in Nat, NEW g, g = Append(got, x)
        PROVE  /\ g \in Seq(Nat) /\ Len(g) = Len(got) + 1 /\ g[Len(got) + 1] = x
               /\ \A i \in 1 .. Len(got) : g[i] = got[i]
    BY <1>1
  <1>2. ASSUME peek # << >>, NEW p, p = Tail(peek), NEW g, g = Append(got, Head(peek))
        PROVE  p \in Seq(Nat) /\ g \in Seq(Nat) /\ InOrder(g, p, first, taken)
    <2>1. /\ p \in Seq(Nat) /\ Len(p) = Len(peek) - 1 /\ Head(peek) = peek[1]
          /\ Len(peek) # 0 /\ Head(peek) \in Nat
          /\ \A i \in 1 .. Len(p) : p[i] = peek[i + 1]
      BY <1>2
    <2>2. /\ g \in Seq(Nat) /\ Len(g) = Len(got) + 1 /\ g[Len(got) + 1] = peek[1]
          /\ \A i \in 1 .. Len(got) : g[i] = got[i]
      BY <1>1, <1>2, <2>1
    <2>0. Len(g) \in Nat /\ Len(p) \in Nat
      BY <1>0, <2>1, <2>2
    <2>3. peek[1] = first + Len(got)
      <3>1. 1 \in 1 .. Len(peek)
        BY <1>0, <2>1
      <3>2. peek[1] = first + Len(got) + 1 - 1
        BY <1>o, <3>1, Zenon
      <3> QED BY <1>0, <3>2
    <2>4. ASSUME NEW i \in 1 .. Len(g) PROVE g[i] = first + i - 1
      <3>1. i \in 1 .. Len(got) \/ i = Len(got) + 1
        BY <1>0, <2>0, <2>2, <2>4
      <3> QED BY <1>0, <1>o, <2>2, <2>3, <3>1
    <2>5. ASSUME NEW i \in 1 .. Len(p) PROVE p[i] = first + Len(g) + i - 1
      <3>0. i + 1 \in 1 .. Len(peek)
        BY <1>0, <2>0, <2>1, <2>5
      <3>1. i + 1 \in 1 .. Len(peek) /\ p[i] = peek[i + 1]
        BY <2>1, <2>5, <3>0, Zenon
      <3>2. peek[i + 1] = first + Len(got) + (i + 1) - 1
        BY <1>o, <3>1, Zenon
      <3> QED BY <1>0, <2>0, <2>2, <2>5, <3>1, <3>2
    <2>6. taken >= first - 1 /\ Len(g) + Len(p) = taken - first + 1
      BY <1>0, <1>o, <2>0, <2>1, <2>2
    <2> QED BY <2>1, <2>2, <2>4, <2>5, <2>6, Zenon DEF InOrder
  <1>3. ASSUME peek = << >>, NEW g, g = Append(got, taken + 1)
        PROVE  g \in Seq(Nat) /\ InOrder(g, peek, first, taken + 1)
    <2>1. /\ g \in Seq(Nat) /\ Len(g) = Len(got) + 1 /\ g[Len(got) + 1] = taken + 1
          /\ \A i \in 1 .. Len(got) : g[i] = got[i]
      BY <1>1, <1>3
    <2>2. Len(peek) = 0
      BY <1>3
    <2>3. Len(got) = taken - first + 1 /\ taken >= first - 1
      BY <1>0, <1>o, <2>2
    <2>4. ASSUME NEW i \in 1 .. Len(g) PROVE g[i] = first + i - 1
      <3>1. i \in 1 .. Len(got) \/ i = Len(got) + 1
        BY <1>0, <2>1, <2>4
      <3>2. CASE i \in 1 .. Len(got)
        BY <1>o, <2>1, <3>2, Zenon
      <3>3. CASE i = Len(got) + 1
        BY <1>0, <2>1, <2>3, <3>3
      <3> QED BY <3>1, <3>2, <3>3
    <2>5. ASSUME NEW i \in 1 .. Len(peek) PROVE peek[i] = first + Len(g) + i - 1
      BY <2>2, <2>5
    <2>6. taken + 1 >= first - 1 /\ Len(g) + Len(peek) = taken + 1 - first + 1
      BY <1>0, <2>1, <2>2, <2>3
    <2>7. InOrder(g, peek, first, taken + 1)
      BY <2>4, <2>5, <2>6 DEF InOrder
    <2> QED BY <2>1, <2>7
  <1> QED BY <1>2, <1>3, Zenon

\* A step of c that leaves its bytes as they are.
Moved(r, s, m) ==
    /\ s.sent \in Nat /\ s.taken = r.taken /\ s.got = r.got /\ s.peek = r.peek
    /\ \/ s.pc = r.pc
       \/ r.pc = "idle" /\ s.pc = "backlog"
       \/ r.pc = "backlog" /\ s.pc = "front" /\ m = "reality"
       \/ r.pc = "backlog" /\ s.pc = "start" /\ m = "preface"
       \/ r.pc = "front" /\ s.pc = "dialing"
       \/ r.pc = "front" /\ s.pc = "fetch" /\ r.taken >= RecLen
       \/ r.pc \in Handling /\ s.pc \in Handling
       \/ r.pc = "relay" /\ s.pc = "relayUp"

LEMMA MovedKeeps ==
    ASSUME NEW r, NEW s, NEW m, StreamAt(r, m), Moved(r, s, m)
    PROVE  StreamAt(s, m)
  <1>1. InOrder(<< >>, << >>, 1, 0)
    BY DEF InOrder
  <1>2. CASE s.pc = "start" /\ r.pc = "backlog"
    <2>1. InOrder(s.got, s.peek, 1, s.taken)
      BY <1>1, <1>2 DEF Unread, StreamAt, Moved
    <2>2. m = "preface"
      BY <1>2 DEF Moved, Handling, Holding
    <2> QED BY <1>2, <2>1, <2>2 DEF Unread, Handling, Holding, First, StreamAt, Moved
  <1>3. CASE ~(s.pc = "start" /\ r.pc = "backlog")
    BY <1>3 DEF Unread, Handling, Holding, StreamAt, Moved
  <1> QED BY <1>2, <1>3

\* A fresh or a closed connection.
LEMMA EmptyStream ==
    ASSUME NEW r, NEW m, r.sent \in Nat, r.taken = 0, r.got = << >>, r.peek = << >>,
           r.pc \in {"idle", "closed"}
    PROVE  StreamAt(r, m)
  BY DEF StreamAt, Unread, Handling, Holding

\* peekedConn.Read takes the next byte, peeked or from the socket.
LEMMA ReadKeeps ==
    ASSUME NEW r, NEW s, NEW m, StreamAt(r, m), r.pc \in Handling, s.pc \in Handling,
           s.got = Append(r.got, IF r.peek # << >> THEN Head(r.peek) ELSE r.taken + 1),
           s.peek = IF r.peek # << >> THEN Tail(r.peek) ELSE r.peek,
           s.taken = IF r.peek # << >> THEN r.taken ELSE r.taken + 1, s.sent = r.sent
    PROVE  StreamAt(s, m)
  <1>0. First(m) \in Nat
    BY DEF First, RecLen
  <1>1. /\ r.taken \in Nat /\ r.got \in Seq(Nat) /\ r.peek \in Seq(Nat)
        /\ InOrder(r.got, r.peek, First(m), r.taken)
    BY DEF StreamAt
  <1>2. /\ s.got \in Seq(Nat) /\ s.peek \in Seq(Nat)
        /\ InOrder(s.got, s.peek, First(m), s.taken)
    <2>1. CASE r.peek # << >>
      <3>1. s.got = Append(r.got, Head(r.peek)) /\ s.peek = Tail(r.peek) /\ s.taken = r.taken
        BY <2>1, Zenon
      <3>2. /\ Append(r.got, Head(r.peek)) \in Seq(Nat) /\ Tail(r.peek) \in Seq(Nat)
            /\ InOrder(Append(r.got, Head(r.peek)), Tail(r.peek), First(m), r.taken)
        BY <1>0, <1>1, <2>1, NextInOrder
      <3> QED BY <3>1, <3>2, Zenon
    <2>2. CASE r.peek = << >>
      <3>1. s.got = Append(r.got, r.taken + 1) /\ s.peek = r.peek /\ s.taken = r.taken + 1
        BY <2>2, Zenon
      <3>2. /\ Append(r.got, r.taken + 1) \in Seq(Nat)
            /\ InOrder(Append(r.got, r.taken + 1), r.peek, First(m), r.taken + 1)
        BY <1>0, <1>1, <2>2, NextInOrder, Zenon
      <3> QED BY <1>1, <3>1, <3>2, Zenon
    <2> QED BY <2>1, <2>2, Zenon
  <1>3. s.taken \in Nat /\ s.sent \in Nat
    BY <1>1 DEF StreamAt
  <1> QED BY <1>2, <1>3 DEF StreamAt, Unread, Handling, Holding

\* The bytes the demuxer has read are a run of positions.
LEMMA UptoRuns ==
    ASSUME NEW a \in Nat \ {0}, NEW b \in Nat, b >= a - 1
    PROVE  /\ Upto(a, b) \in Seq(Nat) /\ Len(Upto(a, b)) = b - a + 1
           /\ \A i \in 1 .. (b - a + 1) : Upto(a, b)[i] = a + i - 1
           /\ InOrder(<< >>, Upto(a, b), a, b) /\ InOrder(Upto(a, b), << >>, a, b)
  <1>1. Upto(a, b) = [i \in 1 .. (b - a + 1) |-> a + i - 1] /\ b - a + 1 \in Nat
    BY DEF Upto
  <1>2. /\ Upto(a, b) \in Seq(Nat) /\ Len(Upto(a, b)) = b - a + 1
        /\ \A i \in 1 .. (b - a + 1) : Upto(a, b)[i] = a + i - 1
    BY <1>1
  <1>3. ASSUME NEW u \in Seq(Nat), Len(u) = b - a + 1,
               \A i \in 1 .. (b - a + 1) : u[i] = a + i - 1
        PROVE  InOrder(<< >>, u, a, b) /\ InOrder(u, << >>, a, b)
    BY <1>3 DEF InOrder
  <1> QED BY <1>2, <1>3

\* Bytes in order, put together, are the run from first to taken.
LEMMA RunsTogether ==
    ASSUME NEW got \in Seq(Nat), NEW peek \in Seq(Nat), NEW taken \in Nat,
           NEW first \in Nat \ {0}, InOrder(got, peek, first, taken)
    PROVE  got \o peek = Upto(first, taken)
  <1> DEFINE n == taken - first + 1
  <1>0. Len(got) \in Nat /\ Len(peek) \in Nat
    OBVIOUS
  <1>1. /\ taken >= first - 1 /\ Len(got) + Len(peek) = n
        /\ \A i \in 1 .. Len(got) : got[i] = first + i - 1
        /\ \A i \in 1 .. Len(peek) : peek[i] = first + Len(got) + i - 1
    BY Zenon DEF InOrder
  <1>2. Upto(first, taken) = [i \in 1 .. n |-> first + i - 1]
    BY <1>1 DEF Upto
  <1>3. /\ got \o peek \in Seq(Nat) /\ Len(got \o peek) = Len(got) + Len(peek)
        /\ \A i \in 1 .. (Len(got) + Len(peek)) :
             (got \o peek)[i] = IF i <= Len(got) THEN got[i] ELSE peek[i - Len(got)]
    OBVIOUS
  <1>4. ASSUME NEW i \in 1 .. n
        PROVE  (IF i <= Len(got) THEN got[i] ELSE peek[i - Len(got)]) = first + i - 1
    <2>1. CASE i <= Len(got)
      <3>1. i \in 1 .. Len(got)
        BY <1>0, <1>1, <1>4, <2>1
      <3> QED BY <1>1, <2>1, <3>1
    <2>2. CASE ~(i <= Len(got))
      <3>1. i - Len(got) \in 1 .. Len(peek)
        BY <1>0, <1>1, <1>4, <2>2
      <3>2. peek[i - Len(got)] = first + Len(got) + (i - Len(got)) - 1
        BY <1>1, <3>1, Zenon
      <3>3. first + Len(got) + (i - Len(got)) - 1 = first + i - 1
        BY <1>0, <1>4
      <3> QED BY <2>2, <3>2, <3>3, Zenon
    <2> QED BY <2>1, <2>2
  <1>5. ASSUME NEW u \in Seq(Nat), Len(u) = n, \A i \in 1 .. n : u[i] = first + i - 1
        PROVE  u = [i \in 1 .. n |-> first + i - 1]
    BY <1>5
  <1>6. \A i \in 1 .. n : (got \o peek)[i] = first + i - 1
    BY <1>1, <1>3, <1>4
  <1> QED BY <1>1, <1>2, <1>3, <1>5, <1>6, Zenon

LEMMA StreamsBy ==
    ASSUME Streams, NEW c \in Conns, Only(c), mode' = mode, StreamAt(conn'[c], mode)
    PROVE  Streams'
  BY DEF Streams, Only

LEMMA ShutStream ==
    ASSUME Basic, Streams, NEW c \in Conns, Shut(c), mode' = mode,
           conn[c].pc \notin Waiting
    PROVE  Streams'
  <1>1. Only(c)
    BY ShutCloses DEF Basic, Closes
  <1>2. conn[c].sent \in Nat
    BY DEF Streams, StreamAt
  <1>3. /\ conn'[c].sent \in {0, conn[c].sent} /\ conn'[c].taken = 0
        /\ conn'[c].got = << >> /\ conn'[c].peek = << >> /\ conn'[c].pc = "closed"
    BY DEF Shut, Idle, Basic, Shape, Fields
  <1>4. StreamAt(conn'[c], mode)
    BY <1>2, <1>3, EmptyStream
  <1> QED BY <1>1, <1>4, StreamsBy

LEMMA MovedStreams ==
    ASSUME Streams, NEW c \in Conns, Only(c), mode' = mode, Moved(conn[c], conn'[c], mode)
    PROVE  Streams'
  <1>1. StreamAt(conn'[c], mode)
    BY MovedKeeps DEF Streams
  <1> QED BY <1>1, StreamsBy

LEMMA GotoStream ==
    ASSUME Basic, Streams, NEW c \in Conns, NEW l, Goto(c, l), mode' = mode,
           \/ conn[c].pc \in Handling /\ l \in Handling
           \/ conn[c].pc = "relay" /\ l = "relayUp"
    PROVE  Streams'
  <1>1. /\ conn'[c].sent = conn[c].sent /\ conn'[c].taken = conn[c].taken
        /\ conn'[c].got = conn[c].got /\ conn'[c].peek = conn[c].peek /\ conn'[c].pc = l
    BY DEF Goto, Basic, Shape, Fields
  <1>2. Moved(conn[c], conn'[c], mode)
    BY <1>1 DEF Moved, Streams, StreamAt
  <1> QED BY <1>2, GotoMoves, MovedStreams DEF Basic

LEMMA ReadStream ==
    ASSUME Basic, Streams, NEW c \in Conns, NEW l \in Handling, Read(c, l), mode' = mode,
           conn[c].pc \in Handling
    PROVE  Streams'
  <1> DEFINE r == conn[c]
             s == conn'[c]
  <1>1. Only(c) /\ s.pc = l
    BY ReadMoves DEF Basic
  <1>2. /\ s.got = Append(r.got, IF r.peek # << >> THEN Head(r.peek) ELSE r.taken + 1)
        /\ s.sent = r.sent
    BY DEF Read, NextPos, Basic, Shape, Fields
  <1>3. /\ s.peek = IF r.peek # << >> THEN Tail(r.peek) ELSE r.peek
        /\ s.taken = IF r.peek # << >> THEN r.taken ELSE r.taken + 1
    BY DEF Read, Basic, Shape, Fields
  <1>4. StreamAt(r, mode)
    BY DEF Streams
  <1> HIDE DEF r, s
  <1>5. StreamAt(s, mode)
    BY <1>1, <1>2, <1>3, <1>4, ReadKeeps DEF r
  <1> QED BY <1>1, <1>5, StreamsBy DEF s

\* What peers do.
LEMMA PeerStreams ==
    ASSUME Basic, Streams, NEW c \in Conns, Dial(c) \/ PeerSends(c) \/ PeerCloses(c)
    PROVE  Streams'
  <1>1. mode' = mode
    BY Zenon DEF Dial, PeerSends, PeerCloses, KeepHandlers, KeepLists
  <1>2. Only(c)
    BY PeerStep, StepIsOnly, Zenon
  <1>3. \A d \in Conns : conn[d].sent \in Nat
    BY DEF Streams, StreamAt
  <1>4. CASE Dial(c)
    <2>1. conn[c].pc = "idle"
      BY <1>4, Zenon DEF Dial
    <2>2. ASSUME NEW kind, conn' = [conn EXCEPT ![c].pc = "backlog", ![c].kind = kind]
          PROVE  Moved(conn[c], conn'[c], mode)
      BY <1>3, <2>1, <2>2 DEF Moved, Basic, Shape, Fields
    <2>3. ASSUME NEW ts, conn' = [conn EXCEPT ![c].pc = "backlog", ![c].kind = "client",
                                              ![c].ts = ts]
          PROVE  Moved(conn[c], conn'[c], mode)
      BY <1>3, <2>1, <2>3 DEF Moved, Basic, Shape, Fields
    <2>4. ASSUME NEW d \in Conns, conn' = [conn EXCEPT ![c].pc = "backlog", ![c].kind = "copy",
                                             ![c].tok = d, ![c].ts = conn[d].ts,
                                             ![c].sent = conn[d].sent]
          PROVE  Moved(conn[c], conn'[c], mode)
      <3>1. /\ conn'[c].sent = conn[d].sent /\ conn'[c].pc = "backlog"
            /\ conn'[c].taken = conn[c].taken
        BY <2>4 DEF Basic, Shape, Fields
      <3>2. conn'[c].got = conn[c].got /\ conn'[c].peek = conn[c].peek
        BY <2>4 DEF Basic, Shape, Fields
      <3> QED BY <1>3, <2>1, <3>1, <3>2 DEF Moved
    <2>5. Moved(conn[c], conn'[c], mode)
      BY <1>4, <2>2, <2>3, <2>4, Zenon DEF Dial
    <2> QED BY <1>1, <1>2, <2>5, MovedStreams
  <1>5. CASE PeerSends(c) \/ PeerCloses(c)
    <2>1. Moved(conn[c], conn'[c], mode)
      BY <1>3, <1>5 DEF PeerSends, PeerCloses, Moved, Basic, Shape, Fields
    <2> QED BY <1>1, <1>2, <2>1, MovedStreams
  <1> QED BY <1>4, <1>5

\* What the demuxer does.
LEMMA FrontStreams ==
    ASSUME Basic, Streams, NEW c \in Conns, FrontStep(c)
    PROVE  Streams'
  <1>1. mode' = mode
    BY Zenon DEF FrontStep, FrontReads, FrontFails, FrontDecides, FrontAnswers, KeepHandlers,
                 KeepLists
  <1>2. Only(c)
    BY FrontAndRelayStep, StepIsOnly, Zenon
  <1>3. StreamAt(conn[c], mode)
    BY DEF Streams
  <1>4. CASE FrontReads(c)
    <2> DEFINE r == conn[c]
               most == IF r.taken = 0 \/ r.sent < RecLen THEN r.sent ELSE RecLen
    <2>1. PICK k \in (r.taken + 1) .. most : conn' = [conn EXCEPT ![c].taken = k]
      BY <1>4, Zenon DEF FrontReads
    <2>2. most \in Nat /\ r.taken \in Nat /\ r.pc = "front"
      BY <1>3, <1>4 DEF StreamAt, RecLen, FrontReads
    <2>3. k \in Nat
      BY <2>2
    <2>4. /\ conn'[c].sent = r.sent /\ conn'[c].taken = k
          /\ conn'[c].got = r.got /\ conn'[c].peek = r.peek /\ conn'[c].pc = "front"
      BY <2>1, <2>2 DEF Basic, Shape, Fields
    <2>5. StreamAt(conn'[c], mode)
      BY <1>3, <2>2, <2>3, <2>4 DEF StreamAt, Unread, Handling, Holding
    <2> QED BY <1>1, <1>2, <2>5, StreamsBy
  <1>5. CASE FrontFails(c)
    <2>1. Moved(conn[c], conn'[c], mode)
      BY <1>3, <1>5 DEF FrontFails, Moved, StreamAt, Basic, Shape, Fields
    <2> QED BY <1>1, <1>2, <2>1, MovedStreams
  <1>6. CASE FrontDecides(c)
    <2>1. PICK l \in {"fetch", "dialing"} : /\ conn' = [conn EXCEPT ![c].pc = l]
                                            /\ l = "fetch" => IsClientHello(c)
      BY <1>6, Zenon DEF FrontDecides
    <2>2. conn[c].pc = "front" /\ recordRead(c)
      BY <1>6 DEF FrontDecides
    <2>3. l = "fetch" => conn[c].taken >= RecLen
      BY <2>1, <2>2, Zenon DEF recordRead
    <2>4. Moved(conn[c], conn'[c], mode)
      BY <1>3, <2>1, <2>2, <2>3 DEF Moved, StreamAt, Basic, Shape, Fields
    <2> QED BY <1>1, <1>2, <2>4, MovedStreams
  <1>7. CASE FrontAnswers(c)
    <2>1. conn[c].pc = "fetch" /\ mode = "reality" /\ conn[c].taken >= RecLen /\ conn[c].taken \in Nat
      BY <1>3, <1>7 DEF FrontAnswers, StreamAt
    <2>2. CASE Shut(c)
      BY <1>1, <2>1, <2>2, ShutStream DEF Waiting
    <2>3. CASE ~Shut(c)
      <3>1. /\ conn'[c].sent = conn[c].sent /\ conn'[c].taken = conn[c].taken
            /\ conn'[c].got = conn[c].got /\ conn'[c].peek = Upto(RecLen + 1, conn[c].taken)
            /\ conn'[c].pc = "start"
        BY <1>7, <2>3 DEF FrontAnswers, Basic, Shape, Fields
      <3>2. conn[c].got = << >> /\ First(mode) = RecLen + 1
        BY <1>3, <2>1 DEF StreamAt, Unread, First
      <3>3. /\ Upto(RecLen + 1, conn[c].taken) \in Seq(Nat)
            /\ InOrder(<< >>, Upto(RecLen + 1, conn[c].taken), RecLen + 1, conn[c].taken)
        <4>1. RecLen + 1 \in Nat \ {0} /\ conn[c].taken >= (RecLen + 1) - 1
          BY <2>1 DEF RecLen
        <4> QED BY <2>1, <4>1, UptoRuns, Zenon
      <3>4. InOrder(conn'[c].got, conn'[c].peek, First(mode), conn'[c].taken)
        BY <3>1, <3>2, <3>3, Zenon
      <3>5. /\ conn'[c].sent \in Nat /\ conn'[c].taken \in Nat
            /\ conn'[c].got \in Seq(Nat) /\ conn'[c].peek \in Seq(Nat)
        BY <1>3, <3>1, <3>3, Zenon DEF StreamAt
      <3>6. StreamAt(conn'[c], mode)
        <4>1. conn'[c].pc = "start"
          BY <3>1
        <4> QED BY <3>4, <3>5, <4>1 DEF StreamAt, Unread, Handling, Holding
      <3> QED BY <1>1, <1>2, <3>6, StreamsBy
    <2> QED BY <2>2, <2>3
  <1> QED BY <1>4, <1>5, <1>6, <1>7 DEF FrontStep

\* What the relay to the masking site does.
LEMMA RelayStreams ==
    ASSUME Basic, Streams, NEW c \in Conns, RelayStep(c) \/ RelayEnds(c)
    PROVE  Streams'
  <1>1. mode' = mode
    BY Zenon DEF RelayStep, RelayDials, RelayCopies, RelayEnds, KeepHandlers, KeepLists
  <1>2. Only(c)
    BY FrontAndRelayStep, StepIsOnly, Zenon
  <1>3. StreamAt(conn[c], mode)
    BY DEF Streams
  <1>4. CASE RelayDials(c)
    <2>1. conn[c].pc = "dialing" /\ conn[c].taken \in Nat /\ conn[c].peek = << >>
      BY <1>3, <1>4 DEF RelayDials, StreamAt, Unread
    <2>2. CASE Shut(c)
      BY <1>1, <2>1, <2>2, ShutStream DEF Waiting
    <2>3. CASE ~Shut(c)
      <3>1. /\ conn'[c].sent = conn[c].sent /\ conn'[c].taken = conn[c].taken
            /\ conn'[c].peek = conn[c].peek /\ conn'[c].got = Upto(1, conn[c].taken)
            /\ conn'[c].pc = "relay"
        BY <1>4, <2>3 DEF RelayDials, Basic, Shape, Fields
      <3>2. /\ Upto(1, conn[c].taken) \in Seq(Nat)
            /\ InOrder(Upto(1, conn[c].taken), << >>, 1, conn[c].taken)
        <4>1. 1 \in Nat \ {0} /\ conn[c].taken >= 1 - 1
          BY <2>1
        <4> QED BY <2>1, <4>1, UptoRuns, Zenon
      <3>3. InOrder(conn'[c].got, conn'[c].peek, 1, conn'[c].taken) /\ conn'[c].peek = << >>
        BY <2>1, <3>1, <3>2, Zenon
      <3>4. /\ conn'[c].sent \in Nat /\ conn'[c].taken \in Nat
            /\ conn'[c].got \in Seq(Nat) /\ conn'[c].peek \in Seq(Nat)
        BY <1>3, <3>1, <3>2, Zenon DEF StreamAt
      <3>5. StreamAt(conn'[c], mode)
        <4>1. conn'[c].pc = "relay"
          BY <3>1
        <4> QED BY <3>3, <3>4, <4>1 DEF StreamAt, Unread, Handling, Holding
      <3> QED BY <1>1, <1>2, <3>5, StreamsBy
    <2> QED BY <2>2, <2>3
  <1>5. CASE RelayCopies(c)
    <2>1. /\ conn[c].pc = "relay" /\ conn[c].taken \in Nat /\ conn[c].peek = << >>
          /\ conn[c].got \in Seq(Nat) /\ conn[c].peek \in Seq(Nat) /\ conn[c].sent \in Nat
          /\ InOrder(conn[c].got, conn[c].peek, 1, conn[c].taken)
      BY <1>3, <1>5 DEF RelayCopies, StreamAt
    <2>2. /\ conn'[c].sent = conn[c].sent /\ conn'[c].taken = conn[c].taken + 1
          /\ conn'[c].peek = conn[c].peek /\ conn'[c].got = Append(conn[c].got, conn[c].taken + 1)
          /\ conn'[c].pc = "relay"
      BY <1>5, <2>1 DEF RelayCopies, Basic, Shape, Fields
    <2>3. /\ Append(conn[c].got, conn[c].taken + 1) \in Seq(Nat)
          /\ InOrder(Append(conn[c].got, conn[c].taken + 1), conn[c].peek, 1, conn[c].taken + 1)
      BY <2>1, NextInOrder, Zenon
    <2>4. InOrder(conn'[c].got, conn'[c].peek, 1, conn'[c].taken) /\ conn'[c].peek = << >>
      BY <2>1, <2>2, <2>3, Zenon
    <2>5. conn'[c].got \in Seq(Nat) /\ conn'[c].peek \in Seq(Nat)
      BY <2>1, <2>2, <2>3, Zenon
    <2>6. conn'[c].sent \in Nat /\ conn'[c].taken \in Nat
      BY <2>1, <2>2
    <2>7. StreamAt(conn'[c], mode)
      <3>1. conn'[c].pc = "relay"
        BY <2>2
      <3> QED BY <2>4, <2>5, <2>6, <3>1 DEF StreamAt, Unread, Handling, Holding
    <2> QED BY <1>1, <1>2, <2>7, StreamsBy
  <1>6. CASE RelayEnds(c)
    BY <1>1, <1>6, ShutStream, GotoStream DEF RelayEnds, Waiting
  <1> QED BY <1>4, <1>5, <1>6 DEF RelayStep

\* What a handler does.
LEMMA HandlerStreams ==
    ASSUME Basic, Streams, NEW c \in Conns, HandlerStep(c) \/ SessionEnds(c)
    PROVE  Streams'
  <1>1. mode' = mode
    BY Zenon DEF HandlerStep, Gate, AcquireLoads, AcquireSwaps, Preface, Hello, HelloFails, Seen,
                 AuthFails, CheckRevoked, Reply, SessionEnds, KeepHandlers, KeepLists
  <1> USE DEF Handling, Holding, Waiting
  <1>2. CASE Gate(c)
    <2>1. conn[c].pc = "start" /\ (Goto(c, "acquire") \/ Shut(c))
      BY <1>2, Zenon DEF Gate
    <2> QED BY <1>1, <2>1, ShutStream, GotoStream
  <1>3. CASE AcquireLoads(c) \/ AcquireSwaps(c)
    <2>1. Only(c)
      BY <1>3, GateStep, StepIsOnly, Zenon
    <2>2. CASE Shut(c)
      BY <1>1, <1>3, <2>2, ShutStream DEF AcquireLoads, AcquireSwaps
    <2>3. CASE ~Shut(c)
      <3>1. /\ conn'[c].sent = conn[c].sent /\ conn'[c].taken = conn[c].taken
            /\ conn'[c].got = conn[c].got /\ conn'[c].peek = conn[c].peek
            /\ conn[c].pc \in {"acquire", "swap"}
            /\ conn'[c].pc \in {"swap", "hello", "preface", "acquire"}
        BY <1>3, <2>3 DEF AcquireLoads, AcquireSwaps, Basic, Shape, Fields
      <3>2. Moved(conn[c], conn'[c], mode)
        BY <3>1 DEF Moved, Streams, StreamAt
      <3> QED BY <1>1, <2>1, <3>2, MovedStreams
    <2> QED BY <2>2, <2>3
  <1>4. CASE Preface(c)
    <2>1. conn[c].pc = "preface" /\ (Read(c, "hello") \/ Shut(c))
      BY <1>4, Zenon DEF Preface, Release
    <2> QED BY <1>1, <2>1, ShutStream, ReadStream
  <1>5. CASE Hello(c)
    <2>1. conn[c].pc = "hello" /\ (Read(c, "hello") \/ Read(c, "seen"))
      BY <1>5, Zenon DEF Hello
    <2> QED BY <1>1, <2>1, ReadStream
  <1>6. CASE HelloFails(c) \/ AuthFails(c) \/ SessionEnds(c)
    <2>1. conn[c].pc \in {"hello", "auth", "session"} /\ Shut(c)
      BY <1>6 DEF HelloFails, AuthFails, SessionEnds, Release
    <2> QED BY <1>1, <2>1, ShutStream
  <1>7. CASE Seen(c)
    <2>1. conn[c].pc = "seen" /\ (Goto(c, "auth") \/ Shut(c))
      BY <1>7, Zenon DEF Seen, Release
    <2> QED BY <1>1, <2>1, ShutStream, GotoStream
  <1>8. CASE CheckRevoked(c)
    <2>1. conn[c].pc = "auth" /\ (Goto(c, "reply") \/ Shut(c))
      BY <1>8, Zenon DEF CheckRevoked, Release
    <2> QED BY <1>1, <2>1, ShutStream, GotoStream
  <1>9. CASE Reply(c)
    <2>1. conn[c].pc = "reply" /\ (Goto(c, "session") \/ Shut(c))
      BY <1>9, Zenon DEF Reply, Release
    <2> QED BY <1>1, <2>1, ShutStream, GotoStream
  <1> QED BY <1>2, <1>3, <1>4, <1>5, <1>6, <1>7, <1>8, <1>9, Zenon DEF HandlerStep

\* A connection leaves the backlog.
LEMMA AcceptStreams ==
    ASSUME Basic, Streams, AcceptReality \/ AcceptPlain
    PROVE  Streams'
  <1> DEFINE h == Head(backlog)
  <1>1. h \in Conns /\ conn[h].pc = "backlog" /\ mode' = mode
    BY DEF AcceptReality, AcceptPlain, Basic, Queued, KeepHandlers, KeepLists
  <1>2. Only(h)
    BY <1>1 DEF AcceptReality, AcceptPlain, Basic, Only, Shape, Fields
  <1>3. /\ conn'[h].sent = conn[h].sent /\ conn'[h].taken = conn[h].taken
        /\ conn'[h].got = conn[h].got /\ conn'[h].peek = conn[h].peek
        /\ \/ conn'[h].pc = "front" /\ mode = "reality"
           \/ conn'[h].pc = "start" /\ mode = "preface"
    BY <1>1 DEF AcceptReality, AcceptPlain, Basic, Shape, Fields
  <1>4. Moved(conn[h], conn'[h], mode)
    BY <1>1, <1>3 DEF Moved, Streams, StreamAt
  <1> QED BY <1>1, <1>2, <1>4, MovedStreams

LEMMA StreamsInit == Init => Streams
  <1> SUFFICES ASSUME Init PROVE Streams
    OBVIOUS
  <1>1. PICK from \in [Conns -> Addrs], key \in [Conns -> ClientKeys] :
            conn = [c \in Conns |-> Idle(c, from[c], key[c])]
    BY DEF Init
  <1>2. ASSUME NEW c \in Conns PROVE StreamAt(conn[c], mode)
    BY <1>1, <1>2, EmptyStream DEF Idle
  <1> QED BY <1>2 DEF Streams

LEMMA StreamsStep ==
    ASSUME Basic, Streams, [Next]_vars
    PROVE  Streams'
  <1>1. CASE UNCHANGED vars \/ Clock \/ KeyServer
    <2>1. conn' = conn /\ mode' = mode
      BY <1>1 DEF vars, admVars, Clock, KeyServer
    <2> QED BY <2>1 DEF Streams
  <1>2. CASE AcceptReality \/ AcceptPlain
    BY <1>2, AcceptStreams
  <1>3. ASSUME NEW c \in Conns,
               \/ Dial(c) \/ PeerSends(c) \/ PeerCloses(c) \/ FrontStep(c)
               \/ HandlerStep(c) \/ RelayStep(c) \/ RelayEnds(c) \/ SessionEnds(c)
        PROVE  Streams'
    BY <1>3, PeerStreams, FrontStreams, RelayStreams, HandlerStreams
  <1> QED BY <1>1, <1>2, <1>3 DEF Next

\* For any number of connections and however the demuxer's reads fall: the handler or
\* the masking site, whoever ends up with a connection, has read or still has before it
\* every byte taken from the socket, in order and once (reality.go:378-383, 427-437,
\* 635-640).
THEOREM StreamHandedOn == Spec => []StreamIntact
  <1>1. Streams => StreamIntact
    <2> SUFFICES ASSUME Streams, NEW c \in Conns,
                        conn[c].pc \in Holding \cup {"relay", "relayUp"},
                        NEW first, first = IF conn[c].pc \in Holding /\ mode = "reality"
                                           THEN RecLen + 1 ELSE 1
                 PROVE  conn[c].got \o conn[c].peek = Upto(first, conn[c].taken)
      BY Zenon DEF StreamIntact
    <2>1. /\ conn[c].got \in Seq(Nat) /\ conn[c].peek \in Seq(Nat) /\ conn[c].taken \in Nat
          /\ InOrder(conn[c].got, conn[c].peek, first, conn[c].taken)
      BY DEF Streams, StreamAt, Handling, Holding, First
    <2>2. first \in Nat \ {0}
      BY DEF RecLen
    <2>3. ASSUME NEW g, NEW p, NEW t, g = conn[c].got, p = conn[c].peek, t = conn[c].taken
          PROVE  g \o p = Upto(first, t)
      <3>1. /\ g \in Seq(Nat) /\ p \in Seq(Nat) /\ t \in Nat /\ InOrder(g, p, first, t)
        BY <2>1, <2>3, Zenon
      <3> QED BY <2>2, <3>1, RunsTogether
    <2> QED BY <2>3, Zenon
  <1> QED BY <1>1, StreamsInit, StreamsStep, BasicAlways, PTL DEF Spec
===============================================================================
