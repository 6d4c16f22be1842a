----------------------------- MODULE TunnelProofs -----------------------------
(***************************************************************************)
(* The safety of the two ends of a tunnel, for any number of packets, any  *)
(* queue size and any limit on the packets of a session: writers of both   *)
(* kinds, failing writes, recvLoop, the consumer and Close may interleave  *)
(* as they like.                                                           *)
(***************************************************************************)
EXTENDS Tunnel, TLAPS

-------------------------------------------------------------------------------
\* Sequences.

LEMMA LenFacts ==
    ASSUME NEW S, NEW s \in Seq(S)
    PROVE  Len(s) \in Nat /\ (s = << >> <=> Len(s) = 0)
  OBVIOUS

LEMMA AppendFacts ==
    ASSUME NEW S, NEW s \in Seq(S), NEW x \in S
    PROVE  /\ Append(s, x) \in Seq(S) /\ Append(s, x) # << >>
           /\ Len(Append(s, x)) = Len(s) + 1 /\ Len(s) \in Nat
           /\ \A j \in 1 .. Len(s) : Append(s, x)[j] = s[j]
           /\ Append(s, x)[Len(s) + 1] = x
  OBVIOUS

LEMMA TailFacts ==
    ASSUME NEW S, NEW s \in Seq(S), s # << >>
    PROVE  /\ Tail(s) \in Seq(S) /\ Len(Tail(s)) = Len(s) - 1 /\ Len(s) \in Nat \ {0}
           /\ \A j \in 1 .. Len(Tail(s)) : Tail(s)[j] = s[j + 1]
           /\ Head(s) = s[1] /\ Head(s) \in S
           /\ Tail(s) = << >> <=> Len(s) = 1
  <1>1. Len(s) \in Nat \ {0} /\ Head(s) = s[1]
    BY LenFacts
  <1>2. Tail(s) \in Seq(S) /\ Len(Tail(s)) = Len(s) - 1
    BY <1>1
  <1>3. Head(s) \in S
    BY <1>1
  <1>4. \A j \in 1 .. Len(Tail(s)) : Tail(s)[j] = s[j + 1]
    BY <1>1, <1>2
  <1>5. Tail(s) = << >> <=> Len(Tail(s)) = 0
    BY <1>2, LenFacts, Zenon
  <1> QED
    BY <1>1, <1>2, <1>3, <1>4, <1>5

-------------------------------------------------------------------------------
\* Frames on the wire, as values.

Frames == [kind : {"data", "noise", "part"}, n : Nat, ctr : Nat]

\* The first i frames of w are whole and carry the counters dec, dec + 1, ...
Chain(w, dec, i) == \A j \in 1 .. i : w[j].kind # "part" /\ w[j].ctr = dec + j - 1

\* The data packets the sender has begun up to frame f: the counter counts both
\* kinds, and f has the number of its own kind.
Through(f) == IF f.kind = "data" THEN f.n ELSE f.ctr + 1 - f.n
One(f) == IF f.kind = "data" THEN 1 ELSE 0

\* Behind a receiver that has taken a data packets, a frame of the chain continues
\* the numbering of the frame before it.
Numbered(w, dec, a) ==
    \A i \in 1 .. Len(w) :
        Chain(w, dec, i) =>
            Through(w[i]) = (IF i = 1 THEN a ELSE Through(w[i - 1])) + One(w[i])

\* When the chain reaches the sender's counter, the numbering reaches its count.
Reaches(w, dec, a, enc, d) ==
    Chain(w, dec, Len(w)) /\ dec + Len(w) = enc =>
        d = IF w = << >> THEN a ELSE Through(w[Len(w)])

\* A wire w from a sender whose frames so far are enc, d of them data, and whose
\* writes have failed or not, to a receiver that is reading or not and has rejected
\* a frame or not.
WireOk(w, dec, a, enc, d, reading, failed, bad) ==
    /\ dec + Len(w) <= enc
    /\ reading => Numbered(w, dec, a) /\ Reaches(w, dec, a, enc, d)
    /\ ~failed => ~bad /\ (reading => Chain(w, dec, Len(w)) /\ dec + Len(w) = enc)

LEMMA ChainOfAppend ==
    ASSUME NEW w \in Seq(Frames), NEW f \in Frames, NEW dec \in Nat
    PROVE  /\ \A i \in 0 .. Len(w) : Chain(Append(w, f), dec, i) <=> Chain(w, dec, i)
           /\ Chain(Append(w, f), dec, Len(w) + 1) <=>
                Chain(w, dec, Len(w)) /\ f.kind # "part" /\ f.ctr = dec + Len(w)
  <1> DEFINE v == Append(w, f)
  <1>1. /\ Len(w) \in Nat /\ v[Len(w) + 1] = f
        /\ \A j \in 1 .. Len(w) : v[j] = w[j]
    BY AppendFacts
  <1> HIDE DEF v
  <1>2. \A i \in 0 .. Len(w) : Chain(v, dec, i) <=> Chain(w, dec, i)
    <2> TAKE i \in 0 .. Len(w)
    <2>1. \A j \in 1 .. i : v[j] = w[j]
      BY <1>1
    <2> QED
      BY <2>1, Zenon DEF Chain
  <1>3. Chain(v, dec, Len(w) + 1) <=>
          Chain(v, dec, Len(w)) /\ f.kind # "part" /\ f.ctr = dec + (Len(w) + 1) - 1
    <2>1. 1 .. Len(w) + 1 = (1 .. Len(w)) \cup {Len(w) + 1}
      BY <1>1
    <2> QED
      BY <1>1, <2>1, Zenon DEF Chain
  <1> QED
    BY <1>1, <1>2, <1>3 DEF v

\* A whole frame with the sender's counter continues the numbering.
LEMMA AppendWhole ==
    ASSUME NEW w \in Seq(Frames), NEW f \in Frames, NEW dec \in Nat, NEW a \in Nat,
           NEW enc \in Nat, NEW d \in Nat,
           Numbered(w, dec, a), Reaches(w, dec, a, enc, d),
           f.kind # "part", f.ctr = enc, Through(f) = d + One(f)
    PROVE  /\ Numbered(Append(w, f), dec, a)
           /\ Reaches(Append(w, f), dec, a, enc + 1, d + One(f))
  <1> DEFINE v == Append(w, f)
             n == Len(w) + 1
  <1>1. /\ Len(w) \in Nat /\ Len(v) = n /\ v[n] = f /\ v # << >>
        /\ \A j \in 1 .. Len(w) : v[j] = w[j]
    BY AppendFacts
  <1>2. /\ \A i \in 0 .. Len(w) : Chain(v, dec, i) <=> Chain(w, dec, i)
        /\ Chain(v, dec, n) <=> Chain(w, dec, Len(w)) /\ f.kind # "part" /\ f.ctr = dec + Len(w)
    BY ChainOfAppend
  <1> HIDE DEF v
  <1>3. ASSUME NEW i \in 1 .. n, Chain(v, dec, i)
        PROVE  Through(v[i]) = (IF i = 1 THEN a ELSE Through(v[i - 1])) + One(v[i])
    <2>1. CASE i \in 1 .. Len(w)
      <3>1. Chain(w, dec, i) /\ v[i] = w[i] /\ (i # 1 => v[i - 1] = w[i - 1])
        BY <1>1, <1>2, <1>3, <2>1
      <3> QED
        BY <2>1, <3>1 DEF Numbered
    <2>2. CASE i = n
      <3>1. Chain(w, dec, Len(w)) /\ dec + Len(w) = enc
        BY <1>2, <1>3, <2>2
      <3>2. d = IF w = << >> THEN a ELSE Through(w[Len(w)])
        BY <3>1 DEF Reaches
      <3>3. (w = << >> <=> n = 1) /\ (n # 1 => v[n - 1] = w[Len(w)])
        BY <1>1
      <3> QED
        BY <1>1, <2>2, <3>2, <3>3
    <2> QED
      BY <1>1, <2>1, <2>2
  <1>4. Numbered(v, dec, a)
    BY <1>1, <1>3 DEF Numbered
  <1>5. Reaches(v, dec, a, enc + 1, d + One(f))
    BY <1>1 DEF Reaches
  <1> QED
    BY <1>4, <1>5 DEF v

\* Nothing behind part of a frame is in the chain.
LEMMA AppendPart ==
    ASSUME NEW w \in Seq(Frames), NEW f \in Frames, NEW dec \in Nat, NEW a \in Nat,
           Numbered(w, dec, a), f.kind = "part", NEW enc, NEW d
    PROVE  Numbered(Append(w, f), dec, a) /\ Reaches(Append(w, f), dec, a, enc, d)
  <1> DEFINE v == Append(w, f)
  <1>1. /\ Len(w) \in Nat /\ Len(v) = Len(w) + 1
        /\ \A j \in 1 .. Len(w) : v[j] = w[j]
    BY AppendFacts
  <1>2. /\ \A i \in 0 .. Len(w) : Chain(v, dec, i) <=> Chain(w, dec, i)
        /\ ~Chain(v, dec, Len(w) + 1)
    BY ChainOfAppend
  <1> HIDE DEF v
  <1>3. ASSUME NEW i \in 1 .. Len(v), Chain(v, dec, i)
        PROVE  Through(v[i]) = (IF i = 1 THEN a ELSE Through(v[i - 1])) + One(v[i])
    <2>1. i \in 1 .. Len(w)
      BY <1>1, <1>2, <1>3
    <2>2. Chain(w, dec, i) /\ v[i] = w[i] /\ (i # 1 => v[i - 1] = w[i - 1])
      BY <1>1, <1>2, <1>3, <2>1
    <2> QED
      BY <2>1, <2>2 DEF Numbered
  <1>4. Numbered(v, dec, a)
    BY <1>3 DEF Numbered
  <1>5. Reaches(v, dec, a, enc, d)
    BY <1>1, <1>2 DEF Reaches
  <1> QED
    BY <1>4, <1>5 DEF v

LEMMA ChainOfTail ==
    ASSUME NEW w \in Seq(Frames), w # << >>, NEW dec \in Nat,
           Head(w).kind # "part", Head(w).ctr = dec
    PROVE  \A i \in 0 .. Len(Tail(w)) : Chain(Tail(w), dec + 1, i) <=> Chain(w, dec, i + 1)
  <1> SUFFICES ASSUME NEW i \in 0 .. Len(Tail(w))
               PROVE  Chain(Tail(w), dec + 1, i) <=> Chain(w, dec, i + 1)
    OBVIOUS
  <1> DEFINE v == Tail(w)
  <1>1. /\ Len(v) = Len(w) - 1 /\ Len(w) \in Nat \ {0} /\ w[1].kind # "part" /\ w[1].ctr = dec
        /\ \A j \in 1 .. Len(v) : v[j] = w[j + 1]
    BY TailFacts
  <1> HIDE DEF v
  <1>2. ASSUME Chain(v, dec + 1, i) PROVE Chain(w, dec, i + 1)
    <2> SUFFICES ASSUME NEW j \in 1 .. i + 1
                 PROVE  w[j].kind # "part" /\ w[j].ctr = dec + j - 1
      BY DEF Chain
    <2>1. CASE j = 1
      BY <1>1, <2>1
    <2>2. CASE j # 1
      <3>1. j - 1 \in 1 .. i /\ v[j - 1] = w[j]
        BY <1>1, <2>2 DEF v
      <3>2. w[j].kind # "part" /\ w[j].ctr = dec + 1 + (j - 1) - 1
        BY <1>2, <3>1 DEF Chain
      <3> QED
        BY <3>2
    <2> QED
      BY <2>1, <2>2
  <1>3. ASSUME Chain(w, dec, i + 1) PROVE Chain(v, dec + 1, i)
    <2> SUFFICES ASSUME NEW j \in 1 .. i
                 PROVE  v[j].kind # "part" /\ v[j].ctr = dec + 1 + j - 1
      BY DEF Chain
    <2>1. j + 1 \in 1 .. i + 1 /\ v[j] = w[j + 1]
      BY <1>1 DEF v
    <2>2. w[j + 1].kind # "part" /\ w[j + 1].ctr = dec + (j + 1) - 1
      BY <1>3, <2>1 DEF Chain
    <2> QED
      BY <2>1, <2>2
  <1> QED
    BY <1>2, <1>3 DEF v

\* The head of the chain has the next number, and the rest continues from it.
LEMMA TailKeeps ==
    ASSUME NEW w \in Seq(Frames), w # << >>, NEW dec \in Nat, NEW a \in Nat,
           NEW enc \in Nat, NEW d \in Int,
           Head(w).kind # "part", Head(w).ctr = dec,
           Numbered(w, dec, a), Reaches(w, dec, a, enc, d)
    PROVE  /\ Through(Head(w)) = a + One(Head(w))
           /\ Numbered(Tail(w), dec + 1, a + One(Head(w)))
           /\ Reaches(Tail(w), dec + 1, a + One(Head(w)), enc, d)
  <1> DEFINE v == Tail(w)
             b == a + One(Head(w))
  <1>1. /\ Len(v) = Len(w) - 1 /\ Len(w) \in Nat \ {0}
        /\ \A j \in 1 .. Len(v) : v[j] = w[j + 1]
        /\ Head(w) = w[1] /\ (v = << >> <=> Len(w) = 1)
    BY TailFacts
  <1>2. \A i \in 0 .. Len(v) : Chain(v, dec + 1, i) <=> Chain(w, dec, i + 1)
    BY ChainOfTail
  <1> HIDE DEF v
  <1>3. Through(w[1]) = b
    <2>1. Chain(w, dec, 1) /\ 1 \in 1 .. Len(w)
      BY <1>1 DEF Chain
    <2> QED
      BY <1>1, <2>1 DEF Numbered
  <1> HIDE DEF b
  <1>4. ASSUME NEW i \in 1 .. Len(v), Chain(v, dec + 1, i)
        PROVE  Through(v[i]) = (IF i = 1 THEN b ELSE Through(v[i - 1])) + One(v[i])
    <2>1. Chain(w, dec, i + 1) /\ i + 1 \in 1 .. Len(w) /\ i + 1 # 1
      BY <1>1, <1>2, <1>4
    <2>2. Through(w[i + 1]) = Through(w[i + 1 - 1]) + One(w[i + 1])
      BY <2>1 DEF Numbered
    <2>3. v[i] = w[i + 1] /\ i + 1 - 1 = i /\ (i # 1 => v[i - 1] = w[i])
      <3>1. i # 1 => i - 1 \in 1 .. Len(v) /\ (i - 1) + 1 = i
        BY <1>1
      <3>2. i # 1 => v[i - 1] = w[(i - 1) + 1]
        BY <1>1, <3>1
      <3> QED
        BY <1>1, <3>1, <3>2
    <2> QED
      BY <1>3, <2>2, <2>3
  <1>5. Numbered(v, dec + 1, b)
    BY <1>4 DEF Numbered
  <1>6. Reaches(v, dec + 1, b, enc, d)
    <2> SUFFICES ASSUME Chain(v, dec + 1, Len(v)), dec + 1 + Len(v) = enc
                 PROVE  d = IF v = << >> THEN b ELSE Through(v[Len(v)])
      BY DEF Reaches
    <2>1. Chain(w, dec, Len(w)) /\ dec + Len(w) = enc
      <3>1. Len(v) \in 0 .. Len(v) /\ Len(v) + 1 = Len(w)
        BY <1>1
      <3>2. Chain(w, dec, Len(v) + 1)
        BY <1>2, <3>1
      <3>3. dec + Len(w) = enc
        <4>1. Len(v) \in Int /\ Len(w) \in Int /\ Len(w) = Len(v) + 1
          BY <1>1
        <4>2. ASSUME NEW m \in Int, NEW n \in Int, n = m + 1, dec + 1 + m = enc
              PROVE  dec + n = enc
          BY <4>2
        <4> QED
          BY <4>1, <4>2
      <3> QED
        BY <3>1, <3>2, <3>3, Zenon
    <2>2. d = Through(w[Len(w)])
      BY <2>1 DEF Reaches
    <2>3. Len(v) # 0 => v[Len(v)] = w[Len(w)]
      BY <1>1
    <2> QED
      BY <1>1, <1>3, <2>2, <2>3
  <1> QED
    BY <1>1, <1>3, <1>5, <1>6 DEF v, b

\* What a write of a whole frame, a failed write, a read and the end of reading do
\* to a wire.
LEMMA WireWrite ==
    ASSUME NEW w \in Seq(Frames), NEW f \in Frames, NEW dec \in Nat, NEW a \in Nat,
           NEW enc \in Nat, NEW d \in Nat, NEW reading, NEW failed, NEW bad,
           WireOk(w, dec, a, enc, d, reading, failed, bad),
           f.kind # "part", f.ctr = enc, Through(f) = d + One(f)
    PROVE  WireOk(Append(w, f), dec, a, enc + 1, d + One(f), reading, failed, bad)
  <1>1. Len(Append(w, f)) = Len(w) + 1 /\ Len(w) \in Nat
    BY AppendFacts
  <1>2. dec + Len(Append(w, f)) <= enc + 1
    BY <1>1 DEF WireOk
  <1>3. reading => /\ Numbered(Append(w, f), dec, a)
                   /\ Reaches(Append(w, f), dec, a, enc + 1, d + One(f))
    BY AppendWhole DEF WireOk
  <1>4. ASSUME ~failed, reading
        PROVE  /\ Chain(Append(w, f), dec, Len(Append(w, f)))
               /\ dec + Len(Append(w, f)) = enc + 1
    <2>1. Chain(w, dec, Len(w)) /\ dec + Len(w) = enc
      BY <1>4 DEF WireOk
    <2>2. Chain(Append(w, f), dec, Len(w) + 1)
      BY <2>1, ChainOfAppend
    <2>3. dec + (Len(w) + 1) = enc + 1
      BY <1>1, <2>1
    <2> QED
      BY <1>1, <2>2, <2>3, Zenon
  <1>5. ~failed => ~bad
    BY DEF WireOk
  <1> QED
    BY <1>2, <1>3, <1>4, <1>5, Zenon DEF WireOk

LEMMA WireFails ==
    ASSUME NEW w \in Seq(Frames), NEW f \in Frames, NEW dec \in Nat, NEW a \in Nat,
           NEW enc \in Nat, NEW d \in Nat, NEW reading, NEW failed, NEW bad,
           WireOk(w, dec, a, enc, d, reading, failed, bad), f.kind = "part", NEW e
    PROVE  /\ WireOk(w, dec, a, enc + 1, e, reading, TRUE, bad)
           /\ WireOk(Append(w, f), dec, a, enc + 1, e, reading, TRUE, bad)
  <1>1. Len(Append(w, f)) = Len(w) + 1 /\ Len(w) \in Nat
    BY AppendFacts
  <1>2. dec + Len(w) <= enc
    BY DEF WireOk
  <1>3. /\ dec + Len(w) <= enc + 1 /\ dec + Len(w) # enc + 1
        /\ dec + Len(Append(w, f)) <= enc + 1
    BY <1>1, <1>2
  <1>4. Reaches(w, dec, a, enc + 1, e)
    BY <1>3 DEF Reaches
  <1>5. reading => /\ Numbered(w, dec, a) /\ Numbered(Append(w, f), dec, a)
                   /\ Reaches(Append(w, f), dec, a, enc + 1, e)
    BY AppendPart DEF WireOk
  <1> QED
    BY <1>3, <1>4, <1>5, Zenon DEF WireOk

LEMMA WireRead ==
    ASSUME NEW w \in Seq(Frames), w # << >>, NEW dec \in Nat, NEW a \in Nat,
           NEW enc \in Nat, NEW d \in Int, NEW failed, NEW bad,
           WireOk(w, dec, a, enc, d, TRUE, failed, bad),
           Head(w).kind # "part", Head(w).ctr = dec
    PROVE  /\ WireOk(Tail(w), dec + 1, a + One(Head(w)), enc, d, TRUE, failed, bad)
           /\ Through(Head(w)) = a + One(Head(w))
  <1>1. Len(Tail(w)) = Len(w) - 1 /\ Len(w) \in Nat \ {0}
    BY TailFacts
  <1>2. (dec + 1) + Len(Tail(w)) = dec + Len(w) /\ Len(Tail(w)) + 1 = Len(w)
    BY <1>1
  <1>3. /\ Through(Head(w)) = a + One(Head(w))
        /\ Numbered(Tail(w), dec + 1, a + One(Head(w)))
        /\ Reaches(Tail(w), dec + 1, a + One(Head(w)), enc, d)
    BY TailKeeps DEF WireOk
  <1>4. Chain(Tail(w), dec + 1, Len(Tail(w))) <=> Chain(w, dec, Len(Tail(w)) + 1)
    BY <1>1, ChainOfTail
  <1> QED
    BY <1>2, <1>3, <1>4, Zenon DEF WireOk

LEMMA WireRejects ==
    ASSUME NEW w \in Seq(Frames), w # << >>, NEW dec \in Nat, NEW a,
           NEW enc \in Nat, NEW d, NEW failed, NEW bad, NEW b,
           WireOk(w, dec, a, enc, d, TRUE, failed, bad),
           ~(Head(w).kind # "part" /\ Head(w).ctr = dec)
    PROVE  failed /\ WireOk(Tail(w), dec + 1, b, enc, d, FALSE, failed, TRUE)
  <1>1. /\ Len(Tail(w)) = Len(w) - 1 /\ Len(w) \in Nat \ {0}
        /\ Head(w) = w[1] /\ Head(w) \in Frames
    BY TailFacts
  <1>2. dec + 1 + Len(Tail(w)) <= enc
    BY <1>1 DEF WireOk
  <1>3. ASSUME Chain(w, dec, Len(w)) PROVE FALSE
    <2>1. 1 \in 1 .. Len(w)
      BY <1>1
    <2>2. w[1].kind # "part" /\ w[1].ctr = dec + 1 - 1
      BY <1>3, <2>1, Zenon DEF Chain
    <2> QED
      BY <1>1, <2>2
  <1>4. failed
    BY <1>3, Zenon DEF WireOk
  <1> QED
    BY <1>2, <1>4, Zenon DEF WireOk

LEMMA WireStops ==
    ASSUME NEW w, NEW dec, NEW a, NEW enc, NEW d, NEW failed, NEW bad, NEW reading, NEW b,
           WireOk(w, dec, a, enc, d, reading, failed, bad)
    PROVE  WireOk(w, dec, b, enc, d, FALSE, failed, bad)
  BY Zenon DEF WireOk

LEMMA Sums ==
    \A a, b \in Nat : /\ a + b \in Nat /\ a + b + 0 = a + b
                      /\ a + (b + 1) + 0 = a + b + 1 /\ a + (b + 1) = a + b + 1
  OBVIOUS

LEMMA SumsOne == \A a, b \in Nat : a + b + 0 \in Nat /\ a + b + 1 \in Nat
  OBVIOUS

-------------------------------------------------------------------------------
\* The payloads 1 .. k, shared by the consumer, who took g in increasing order, and
\* drainDataIn, which took d.
Shared(g, d, k) ==
    /\ \A i \in 1 .. Len(g) : g[i] \in 1 .. k
    /\ \A i, j \in 1 .. Len(g) : i < j => g[i] < g[j]
    /\ \A n \in 1 .. k : \/ \E i \in 1 .. Len(g) : g[i] = n
                         \/ \E i \in 1 .. Len(d) : d[i] = n

LEMMA SharedNone == Shared(<< >>, << >>, 0)
  BY DEF Shared

LEMMA SharedGot ==
    ASSUME NEW g \in Seq(Nat), NEW d \in Seq(Nat), NEW k \in Nat, Shared(g, d, k)
    PROVE  Shared(Append(g, k + 1), d, k + 1)
  <1> DEFINE h == Append(g, k + 1)
  <1>1. /\ Len(h) = Len(g) + 1 /\ Len(g) \in Nat /\ h[Len(g) + 1] = k + 1
        /\ \A j \in 1 .. Len(g) : h[j] = g[j]
    BY AppendFacts
  <1> HIDE DEF h
  <1>2. \A i \in 1 .. Len(g) : g[i] \in 1 .. k
    BY DEF Shared
  <1>3. ASSUME NEW i \in 1 .. Len(h) PROVE h[i] \in 1 .. (k + 1)
    <2>1. CASE i \in 1 .. Len(g)
      <3>1. h[i] = g[i] /\ g[i] \in 1 .. k
        BY <1>1, <1>2, <2>1, Zenon
      <3> QED
        BY <3>1
    <2>2. CASE i = Len(g) + 1
      BY <1>1, <2>2
    <2> QED
      BY <1>1, <2>1, <2>2
  <1>4. ASSUME NEW i \in 1 .. Len(h), NEW j \in 1 .. Len(h), i < j PROVE h[i] < h[j]
    <2>1. i \in 1 .. Len(g) /\ h[i] = g[i]
      BY <1>1, <1>4
    <2>2. CASE j \in 1 .. Len(g)
      BY <1>1, <1>4, <2>1, <2>2 DEF Shared
    <2>3. CASE j = Len(g) + 1
      BY <1>1, <1>2, <2>1, <2>3
    <2> QED
      BY <1>1, <2>2, <2>3
  <1>5. ASSUME NEW n \in 1 .. (k + 1)
        PROVE  \/ \E i \in 1 .. Len(h) : h[i] = n
               \/ \E i \in 1 .. Len(d) : d[i] = n
    <2>1. CASE n = k + 1
      BY <1>1, <2>1
    <2>2. CASE n \in 1 .. k
      <3>1. \/ \E i \in 1 .. Len(g) : g[i] = n
            \/ \E i \in 1 .. Len(d) : d[i] = n
        BY <2>2, Zenon DEF Shared
      <3>2. ASSUME NEW i \in 1 .. Len(g) PROVE i \in 1 .. Len(h) /\ h[i] = g[i]
        BY <1>1
      <3> QED
        BY <3>1, <3>2, Zenon
    <2> QED
      BY <2>1, <2>2
  <1> QED
    BY <1>3, <1>4, <1>5 DEF Shared, h

LEMMA SharedDrained ==
    ASSUME NEW g \in Seq(Nat), NEW d \in Seq(Nat), NEW k \in Nat, Shared(g, d, k)
    PROVE  Shared(g, Append(d, k + 1), k + 1)
  <1> DEFINE h == Append(d, k + 1)
  <1>1. /\ Len(h) = Len(d) + 1 /\ Len(d) \in Nat /\ h[Len(d) + 1] = k + 1
        /\ \A j \in 1 .. Len(d) : h[j] = d[j]
    BY AppendFacts
  <1> HIDE DEF h
  <1>2. \A i \in 1 .. Len(g) : g[i] \in 1 .. (k + 1)
    BY DEF Shared
  <1>3. ASSUME NEW n \in 1 .. (k + 1)
        PROVE  \/ \E i \in 1 .. Len(g) : g[i] = n
               \/ \E i \in 1 .. Len(h) : h[i] = n
    <2>1. CASE n = k + 1
      BY <1>1, <2>1
    <2>2. CASE n \in 1 .. k
      <3>1. \/ \E i \in 1 .. Len(g) : g[i] = n
            \/ \E i \in 1 .. Len(d) : d[i] = n
        BY <2>2, Zenon DEF Shared
      <3>2. ASSUME NEW i \in 1 .. Len(d) PROVE i \in 1 .. Len(h) /\ h[i] = d[i]
        BY <1>1
      <3> QED
        BY <3>1, <3>2, Zenon
    <2> QED
      BY <2>1, <2>2
  <1> QED
    BY <1>2, <1>3 DEF Shared, h

-------------------------------------------------------------------------------
\* The inductive invariant.

Types ==
    /\ ctx \in [Ends -> BOOLEAN] /\ closed \in [Ends -> BOOLEAN]
    /\ broken \in [Ends -> BOOLEAN] /\ rejected \in [Ends -> BOOLEAN]
    /\ count \in [Ends -> Nat] /\ encCtr \in [Ends -> Nat] /\ decCtr \in [Ends -> Nat]
    /\ sent \in [Ends -> [Writers -> Nat]]
    /\ writer \in [Ends -> [Writers -> {"idle", "framed", "ended"}]]
    /\ wire \in [Ends -> Seq(Frames)]
    /\ recv \in [Ends -> {"count", "read", "push", "closing", "ended"}]
    /\ inHand \in [Ends -> [kind : {"none", "data"}, n : Nat]]
    /\ dataIn \in [Ends -> Seq(Nat)] /\ got \in [Ends -> Seq(Nat)]
    /\ drained \in [Ends -> Seq(Nat)]
    /\ owner \in [Ends -> {"using", "cancelled", "waiting", "draining", "closed"}]

\* A frame that is being written is counted but not on the wire.
Held(e) == IF Unlocked(e) THEN 0 ELSE 1
HeldData(e) == IF writer[e]["data"] = "framed" THEN 1 ELSE 0

Reading(e) == recv[e] \in {"count", "read", "push"}

\* Off(e) payloads have left dataIn, to the consumer or to drainDataIn.
Off(e) == Len(got[e]) + Len(drained[e])
Taken(e) == Off(e) + Len(dataIn[e]) + IF recv[e] = "push" THEN 1 ELSE 0

\* sendMu has one holder, and the framer's counter counts the packets begun.
SenderInv(e) ==
    /\ \A w \in Writers : writer[e][w] = "framed" => /\ sent[e][w] > 0
                                                     /\ \A v \in Writers \ {w} :
                                                          writer[e][v] # "framed"
    /\ sent[e]["data"] + sent[e]["noise"] = encCtr[e]

\* The wire to end e from its peer.
WireInv(e) ==
    LET p == Peer(e)
    IN  WireOk(wire[p], decCtr[e], Taken(e), encCtr[p] - Held(p),
               sent[p]["data"] - HeldData(p), Reading(e), broken[p], rejected[e])

\* What has left dataIn is an initial part of what was sent, shared by the consumer
\* and drainDataIn; what is queued and what is in hand follow it.
QueueInv(e) ==
    /\ Shared(got[e], drained[e], Off(e))
    /\ \A i \in 1 .. Len(dataIn[e]) : dataIn[e][i] = Off(e) + i
    /\ recv[e] = "push" => inHand[e].n = Off(e) + Len(dataIn[e]) + 1
    /\ owner[e] \in {"draining", "closed"} => recv[e] = "ended"
    /\ drained[e] # << >> => owner[e] \in {"draining", "closed"}

IInv == Types /\ \A e \in Ends : SenderInv(e) /\ WireInv(e) /\ QueueInv(e)

LEMMA PeerFacts ==
    ASSUME NEW e \in Ends
    PROVE  /\ Peer(e) \in Ends /\ Peer(e) # e /\ Peer(Peer(e)) = e
           /\ \A f \in Ends : f = e \/ f = Peer(e)
  BY DEF Ends, Peer

LEMMA TakenNat ==
    ASSUME Types, NEW e \in Ends
    PROVE  Off(e) \in Nat /\ Len(dataIn[e]) \in Nat /\ Taken(e) \in Nat
  <1>1. got[e] \in Seq(Nat) /\ drained[e] \in Seq(Nat) /\ dataIn[e] \in Seq(Nat)
    BY DEF Types
  <1>2. Len(got[e]) \in Nat /\ Len(drained[e]) \in Nat /\ Len(dataIn[e]) \in Nat
    BY <1>1, LenFacts
  <1> QED
    <2>1. Off(e) \in Nat
      BY <1>2, Sums, Zenon DEF Off
    <2>2. Off(e) + Len(dataIn[e]) + 0 \in Nat /\ Off(e) + Len(dataIn[e]) + 1 \in Nat
      BY <1>2, <2>1, SumsOne, Zenon
    <2> QED
      BY <1>2, <2>1, <2>2, Zenon DEF Taken

LEMMA IInvInit == Init => IInv
  <1> SUFFICES ASSUME Init PROVE IInv
    OBVIOUS
  <1>1. Types
    BY DEF Init, Types, None, Ends
  <1>2. ASSUME NEW e \in Ends PROVE SenderInv(e) /\ WireInv(e) /\ QueueInv(e)
    <2>1. Peer(e) \in Ends
      BY PeerFacts
    <2>2. SenderInv(e) /\ QueueInv(e)
      BY SharedNone DEF Init, SenderInv, QueueInv, Off, Writers
    <2>3. Held(Peer(e)) = 0 /\ HeldData(Peer(e)) = 0 /\ Taken(e) = 0
      BY <2>1 DEF Init, Held, HeldData, Unlocked, Taken, Off, Writers
    <2>4. WireInv(e)
      BY <2>1, <2>3 DEF Init, WireInv, WireOk, Numbered, Reaches, Chain, Writers
    <2> QED
      BY <2>2, <2>4
  <1> QED
    BY <1>1, <1>2 DEF IInv

-------------------------------------------------------------------------------
\* Types.

LEMMA FrameTyped ==
    ASSUME Types, NEW e \in Ends, NEW w \in Writers, SenderInv(e), writer[e][w] = "framed"
    PROVE  /\ Frame(e, w) \in Frames /\ Frame(e, w).kind = w
           /\ Frame(e, w).n = sent[e][w] /\ Frame(e, w).ctr = encCtr[e] - 1
           /\ [Frame(e, w) EXCEPT !.kind = "part"] \in Frames
           /\ [Frame(e, w) EXCEPT !.kind = "part"].kind = "part"
  <1>1. sent[e][w] \in Nat /\ encCtr[e] - 1 \in Nat
    BY DEF Types, SenderInv, Writers
  <1> QED
    BY <1>1 DEF Frame, Frames, Writers

LEMMA WriteTypes ==
    ASSUME Types, NEW e \in Ends, NEW w \in Writers, SenderInv(e),
           WritePacket(e, w) \/ LoopSeesDone(e, w)
    PROVE  Types'
  <1>1. AfterError(w) \in {"idle", "framed", "ended"}
    BY DEF AfterError
  <1>2. CASE WriteBegin(e, w)
    <2>1. UNCHANGED <<closed, wire, decCtr, recv, inHand, rejected, dataIn, owner, got, drained,
                      broken>>
      BY <1>2 DEF WriteBegin, receiving
    <2>2. count' \in [Ends -> Nat]
      BY <1>2 DEF WriteBegin, Types
    <2>3. CASE /\ ctx' = [ctx EXCEPT ![e] = TRUE] /\ UNCHANGED <<sent, encCtr>>
               /\ writer' = [writer EXCEPT ![e][w] = AfterError(w)]
      BY <1>1, <2>1, <2>2, <2>3 DEF Types
    <2>4. CASE /\ sent' = [sent EXCEPT ![e][w] = @ + 1]
               /\ encCtr' = [encCtr EXCEPT ![e] = @ + 1]
               /\ writer' = [writer EXCEPT ![e][w] = "framed"] /\ UNCHANGED ctx
      <3>1. sent' \in [Ends -> [Writers -> Nat]] /\ encCtr' \in [Ends -> Nat]
        BY <2>4 DEF Types
      <3>2. writer' \in [Ends -> [Writers -> {"idle", "framed", "ended"}]]
        BY <2>4 DEF Types
      <3> QED
        BY <2>1, <2>2, <2>4, <3>1, <3>2, Zenon DEF Types
    <2> QED
      BY <1>2, <2>3, <2>4 DEF WriteBegin
  <1>3. CASE WriteFrame(e, w)
    <2>1. Append(wire[e], Frame(e, w)) \in Seq(Frames)
      BY <1>3, FrameTyped, AppendFacts, Zenon DEF WriteFrame, Types
    <2> QED
      BY <1>3, <2>1 DEF WriteFrame, Types, receiving
  <1>4. CASE WriteFails(e, w)
    <2>1. Append(wire[e], [Frame(e, w) EXCEPT !.kind = "part"]) \in Seq(Frames)
      BY <1>4, FrameTyped, AppendFacts, Zenon DEF WriteFails, Types
    <2>2. wire' \in [Ends -> Seq(Frames)]
      BY <1>4, <2>1, Zenon DEF WriteFails, Types
    <2> QED
      BY <1>1, <1>4, <2>2, Zenon DEF WriteFails, Types, receiving
  <1>5. CASE LoopSeesDone(e, w)
    BY <1>5 DEF LoopSeesDone, Types, receiving
  <1> QED
    BY <1>2, <1>3, <1>4, <1>5 DEF WritePacket

LEMMA RecvTypes ==
    ASSUME Types, NEW e \in Ends, RecvLoop(e)
    PROVE  Types'
  <1>1. CASE RecvCount(e)
    BY <1>1 DEF RecvCount, Types, sending
  <1>2. CASE RecvFrame(e)
    <2> DEFINE p == Peer(e)
               f == Head(wire[p])
    <2>1. p \in Ends /\ wire[p] \in Seq(Frames) /\ wire[p] # << >>
      BY <1>2, PeerFacts DEF Types, RecvFrame, Readable
    <2>2. Tail(wire[p]) \in Seq(Frames) /\ f.n \in Nat
      <3>1. Tail(wire[p]) \in Seq(Frames) /\ f \in Frames
        BY <2>1, TailFacts, Zenon
      <3> QED
        BY <3>1 DEF Frames
    <2>3. UNCHANGED <<ctx, closed, count, sent, writer, encCtr, broken, dataIn, owner, got, drained>>
      BY <1>2 DEF RecvFrame, sending
    <2>4. wire' \in [Ends -> Seq(Frames)] /\ decCtr' \in [Ends -> Nat]
      <3>1. /\ wire' = [wire EXCEPT ![p] = Tail(wire[p])]
            /\ decCtr' = [decCtr EXCEPT ![e] = decCtr[e] + 1]
        BY <1>2 DEF RecvFrame
      <3>2. wire' \in [Ends -> Seq(Frames)]
        BY <2>2, <3>1, Zenon DEF Types
      <3>3. decCtr \in [Ends -> Nat]
        BY Zenon DEF Types
      <3> QED
        BY <3>1, <3>2, <3>3
    <2>5. rejected' \in [Ends -> BOOLEAN]
      BY <1>2 DEF RecvFrame, Types
    <2>6. inHand' \in [Ends -> [kind : {"none", "data"}, n : Nat]]
      BY <1>2, <2>2 DEF RecvFrame, Types, None
    <2>7. recv' \in [Ends -> {"count", "read", "push", "closing", "ended"}]
      BY <1>2 DEF RecvFrame, Types
    <2> QED
      BY <2>3, <2>4, <2>5, <2>6, <2>7 DEF Types
  <1>3. CASE RecvEof(e)
    BY <1>3 DEF RecvEof, Types, sending
  <1>4. CASE RecvPush(e)
    <2>1. UNCHANGED <<ctx, closed, count, sent, writer, encCtr, broken, decCtr, wire, owner, got,
                      drained, rejected>>
      BY <1>4 DEF RecvPush, sending
    <2>2. Append(dataIn[e], inHand[e].n) \in Seq(Nat)
      BY DEF Types
    <2>3. dataIn' \in [Ends -> Seq(Nat)]
      BY <1>4, <2>2, Zenon DEF RecvPush, Types
    <2>4. /\ recv' \in [Ends -> {"count", "read", "push", "closing", "ended"}]
          /\ inHand' \in [Ends -> [kind : {"none", "data"}, n : Nat]]
      BY <1>4, Zenon DEF RecvPush, Types, None
    <2> QED
      BY <2>1, <2>3, <2>4 DEF Types
  <1>5. CASE RecvReturns(e)
    BY <1>5 DEF RecvReturns, Types, sending
  <1> QED
    BY <1>1, <1>2, <1>3, <1>4, <1>5 DEF RecvLoop

LEMMA OwnerTypes ==
    ASSUME Types, NEW e \in Ends, Consume(e) \/ CloseCancel(e) \/ Close(e)
    PROVE  Types'
  <1>1. CASE Consume(e)
    <2>1. Tail(dataIn[e]) \in Seq(Nat) /\ Append(got[e], Head(dataIn[e])) \in Seq(Nat)
      BY <1>1, TailFacts, AppendFacts DEF Types, Consume
    <2> QED
      BY <1>1, <2>1 DEF Consume, Types, sending, receiving
  <1>2. CASE CloseCancel(e) \/ CloseConn(e) \/ CloseWait(e)
    BY <1>2, Zenon DEF CloseCancel, CloseConn, CloseWait, Types, sending, receiving
  <1>3. CASE CloseDrain(e)
    <2>1. CASE dataIn[e] # << >>
      <3>1. /\ Tail(dataIn[e]) \in Seq(Nat)
            /\ Append(drained[e], Head(dataIn[e])) \in Seq(Nat)
        BY <2>1, TailFacts, AppendFacts DEF Types
      <3> QED
        <4>1. /\ UNCHANGED <<ctx, closed, count, sent, writer, encCtr, decCtr, recv, inHand,
                          wire, rejected, broken, got, owner>>
              /\ dataIn' = [dataIn EXCEPT ![e] = Tail(dataIn[e])]
              /\ drained' = [drained EXCEPT ![e] = Append(drained[e], Head(dataIn[e]))]
          BY <1>3, <2>1 DEF CloseDrain, sending, receiving
        <4>2. dataIn' \in [Ends -> Seq(Nat)] /\ drained' \in [Ends -> Seq(Nat)]
          BY <3>1, <4>1, Zenon DEF Types
        <4> QED
          BY <4>1, <4>2 DEF Types
    <2>2. CASE dataIn[e] = << >>
      BY <1>3, <2>2 DEF CloseDrain, Types, sending, receiving
    <2> QED
      BY <2>1, <2>2
  <1> QED
    BY <1>1, <1>2, <1>3 DEF Close

-------------------------------------------------------------------------------
\* An action of the sending side of end e concerns the wire to its peer, one of the
\* receiving side the wire from it.

LEMMA SenderFrame ==
    ASSUME IInv, NEW e \in Ends, Types', SenderInv(e)', WireInv(Peer(e))',
           UNCHANGED <<decCtr, recv, inHand, dataIn, got, drained, owner, rejected>>,
           \A f \in Ends \ {e} : /\ sent'[f] = sent[f] /\ writer'[f] = writer[f]
                                 /\ encCtr'[f] = encCtr[f] /\ broken'[f] = broken[f]
                                 /\ wire'[f] = wire[f]
    PROVE  IInv'
  <1> DEFINE p == Peer(e)
  <1>1. p \in Ends \ {e} /\ Peer(p) = e /\ \A f \in Ends : f = e \/ f = p
    BY PeerFacts
  <1>2. SenderInv(p)'
    <2>1. SenderInv(p)
      BY <1>1, Zenon DEF IInv
    <2>2. sent'[p] = sent[p] /\ writer'[p] = writer[p] /\ encCtr'[p] = encCtr[p]
      BY <1>1, Zenon
    <2> QED
      BY <2>1, <2>2, Zenon DEF SenderInv
  <1>3. WireInv(e)'
    <2>1. WireInv(e)
      BY DEF IInv
    <2>2. /\ Held(p)' = Held(p) /\ HeldData(p)' = HeldData(p)
          /\ Taken(e)' = Taken(e) /\ Reading(e)' = Reading(e)
      BY <1>1 DEF Held, HeldData, Unlocked, Taken, Off, Reading
    <2> QED
      BY <1>1, <2>1, <2>2 DEF WireInv
  <1>4. QueueInv(e)' /\ QueueInv(p)'
    BY <1>1, Zenon DEF IInv, QueueInv, Off
  <1> QED
    BY <1>1, <1>2, <1>3, <1>4 DEF IInv

LEMMA ReceiverFrame ==
    ASSUME IInv, NEW e \in Ends, Types', WireInv(e)', QueueInv(e)',
           UNCHANGED <<sent, writer, encCtr, broken>>, wire'[e] = wire[e],
           \A f \in Ends \ {e} : /\ decCtr'[f] = decCtr[f] /\ recv'[f] = recv[f]
                                 /\ inHand'[f] = inHand[f] /\ dataIn'[f] = dataIn[f]
                                 /\ got'[f] = got[f] /\ drained'[f] = drained[f]
                                 /\ owner'[f] = owner[f]
                                 /\ rejected'[f] = rejected[f]
    PROVE  IInv'
  <1> DEFINE p == Peer(e)
  <1>1. p \in Ends \ {e} /\ Peer(p) = e /\ \A f \in Ends : f = e \/ f = p
    BY PeerFacts
  <1>2. SenderInv(e)' /\ SenderInv(p)'
    BY <1>1 DEF IInv, SenderInv
  <1>3. WireInv(p)'
    <2>1. WireInv(p)
      BY <1>1 DEF IInv
    <2>2. /\ Held(e)' = Held(e) /\ HeldData(e)' = HeldData(e)
          /\ Taken(p)' = Taken(p) /\ Reading(p)' = Reading(p)
      BY <1>1, Zenon DEF Held, HeldData, Unlocked, Taken, Off, Reading
    <2> QED
      BY <1>1, <2>1, <2>2 DEF WireInv
  <1>4. QueueInv(p)'
    <2>1. QueueInv(p)
      BY <1>1 DEF IInv
    <2>2. /\ got'[p] = got[p] /\ drained'[p] = drained[p] /\ dataIn'[p] = dataIn[p] /\ recv'[p] = recv[p]
          /\ inHand'[p] = inHand[p] /\ owner'[p] = owner[p]
      BY <1>1
    <2> QED
      BY <2>1, <2>2, Zenon DEF QueueInv, Off
  <1> QED
    BY <1>1, <1>2, <1>3, <1>4 DEF IInv

-------------------------------------------------------------------------------
\* Sending.

\* The lock and the counters of a sender, as the wire sees them.
LEMMA HeldFacts ==
    ASSUME Types, NEW e \in Ends, SenderInv(e)
    PROVE  /\ Held(e) \in {0, 1} /\ HeldData(e) \in {0, 1}
           /\ encCtr[e] - Held(e) \in Nat /\ sent[e]["data"] - HeldData(e) \in Nat
           /\ Unlocked(e) => Held(e) = 0 /\ HeldData(e) = 0
           /\ \A w \in Writers : writer[e][w] = "framed" =>
                Held(e) = 1 /\ HeldData(e) = IF w = "data" THEN 1 ELSE 0
  <1>1. /\ sent[e]["data"] \in Nat /\ sent[e]["noise"] \in Nat /\ encCtr[e] \in Nat
    BY DEF Types, Writers
  <1>2. ASSUME NEW w \in Writers, writer[e][w] = "framed"
        PROVE  /\ Held(e) = 1 /\ HeldData(e) = IF w = "data" THEN 1 ELSE 0
               /\ sent[e][w] > 0
    BY <1>2 DEF SenderInv, Held, HeldData, Unlocked, Writers
  <1>3. Unlocked(e) => Held(e) = 0 /\ HeldData(e) = 0
    BY DEF Held, HeldData, Unlocked, Writers
  <1>4. CASE Unlocked(e)
    BY <1>1, <1>2, <1>3, <1>4
  <1>5. CASE ~Unlocked(e)
    <2>1. PICK w \in Writers : writer[e][w] = "framed"
      BY <1>5 DEF Unlocked
    <2>2. Held(e) = 1 /\ HeldData(e) = (IF w = "data" THEN 1 ELSE 0) /\ sent[e][w] > 0
      BY <1>2, <2>1
    <2>3. encCtr[e] - 1 \in Nat /\ (w = "data" => sent[e]["data"] - 1 \in Nat)
      BY <1>1, <2>2 DEF SenderInv, Writers
    <2> QED
      BY <1>1, <1>2, <1>5, <2>2, <2>3
  <1> QED
    BY <1>4, <1>5

LEMMA WriteBeginKeeps ==
    ASSUME IInv, NEW e \in Ends, NEW w \in Writers, WriteBegin(e, w)
    PROVE  IInv'
  <1> DEFINE p == Peer(e)
  <1>1. Types /\ SenderInv(e) /\ WireInv(p) /\ p \in Ends /\ Peer(p) = e
    BY PeerFacts DEF IInv
  <1>2. Types'
    BY <1>1, WriteTypes DEF WritePacket
  <1>3. UNCHANGED <<decCtr, recv, inHand, dataIn, got, drained, owner, rejected, wire, broken>>
    BY DEF WriteBegin, receiving
  <1>4. Unlocked(e) /\ writer[e][w] = "idle"
    BY DEF WriteBegin
  <1>5. CASE /\ UNCHANGED <<sent, encCtr>>
             /\ writer' = [writer EXCEPT ![e][w] = AfterError(w)]
    <2>1. \A v \in Writers : writer'[e][v] # "framed"
      BY <1>1, <1>4, <1>5 DEF Types, AfterError, Unlocked
    <2>2. SenderInv(e)' /\ Held(e)' = 0 /\ HeldData(e)' = 0
      BY <1>1, <1>5, <2>1 DEF SenderInv, Held, HeldData, Unlocked, Writers
    <2>3. \A f \in Ends \ {e} : writer'[f] = writer[f]
      BY <1>1, <1>5 DEF Types
    <2>4. WireInv(p)'
      <3>1. /\ Held(e)' = Held(e) /\ HeldData(e)' = HeldData(e)
            /\ Taken(p)' = Taken(p) /\ Reading(p)' = Reading(p)
        BY <1>1, <1>3, <1>4, <2>2, HeldFacts DEF Taken, Off, Reading
      <3> QED
        BY <1>1, <1>3, <1>5, <3>1 DEF WireInv
    <2> QED
      BY <1>2, <1>3, <1>5, <2>2, <2>3, <2>4, SenderFrame
  <1>6. CASE /\ sent' = [sent EXCEPT ![e][w] = @ + 1]
             /\ encCtr' = [encCtr EXCEPT ![e] = @ + 1]
             /\ writer' = [writer EXCEPT ![e][w] = "framed"]
    <2>1. /\ writer'[e] = [writer[e] EXCEPT ![w] = "framed"]
          /\ sent'[e] = [sent[e] EXCEPT ![w] = sent[e][w] + 1]
          /\ encCtr'[e] = encCtr[e] + 1
          /\ \A f \in Ends \ {e} : /\ writer'[f] = writer[f] /\ sent'[f] = sent[f]
                                   /\ encCtr'[f] = encCtr[f]
      BY <1>1, <1>6 DEF Types
    <2>2. /\ writer[e] \in [Writers -> {"idle", "framed", "ended"}]
          /\ sent[e] \in [Writers -> Nat] /\ encCtr[e] \in Nat
      BY <1>1 DEF Types
    <2>3. SenderInv(e)'
      BY <1>1, <1>4, <2>1, <2>2 DEF SenderInv, Unlocked, Writers
    <2>4. /\ Held(e)' = 1 /\ HeldData(e)' = IF w = "data" THEN 1 ELSE 0
          /\ Held(e) = 0 /\ HeldData(e) = 0
      BY <1>1, <1>4, <2>1, <2>2, HeldFacts DEF Held, HeldData, Unlocked, Writers
    <2>5. WireInv(p)'
      <3>1. /\ encCtr'[e] - Held(e)' = encCtr[e] - Held(e)
            /\ sent'[e]["data"] - HeldData(e)' = sent[e]["data"] - HeldData(e)
        BY <2>1, <2>2, <2>4 DEF Writers
      <3>2. Taken(p)' = Taken(p) /\ Reading(p)' = Reading(p)
        BY <1>3 DEF Taken, Off, Reading
      <3> QED
        BY <1>1, <1>3, <3>1, <3>2 DEF WireInv
    <2> QED
      BY <1>2, <1>3, <2>1, <2>3, <2>5, SenderFrame
  <1> QED
    BY <1>5, <1>6 DEF WriteBegin

LEMMA WriteFrameKeeps ==
    ASSUME IInv, NEW e \in Ends, NEW w \in Writers, WriteFrame(e, w)
    PROVE  IInv'
  <1> DEFINE p == Peer(e)
             f == Frame(e, w)
             enc == encCtr[e] - Held(e)
             d == sent[e]["data"] - HeldData(e)
  <1>1. Types /\ SenderInv(e) /\ WireInv(p) /\ p \in Ends /\ Peer(p) = e
    BY PeerFacts DEF IInv
  <1>2. Types'
    BY <1>1, WriteTypes DEF WritePacket
  <1>3. /\ UNCHANGED <<decCtr, recv, inHand, dataIn, got, drained, owner, rejected, sent, encCtr, broken>>
        /\ writer' = [writer EXCEPT ![e][w] = "idle"] /\ writer[e][w] = "framed"
        /\ wire' = [wire EXCEPT ![e] = Append(wire[e], f)]
    BY DEF WriteFrame, receiving
  <1>4. /\ writer'[e] = [writer[e] EXCEPT ![w] = "idle"] /\ wire'[e] = Append(wire[e], f)
        /\ \A g \in Ends \ {e} : writer'[g] = writer[g] /\ wire'[g] = wire[g]
    BY <1>1, <1>3 DEF Types
  <1>5. /\ writer[e] \in [Writers -> {"idle", "framed", "ended"}] /\ wire[e] \in Seq(Frames)
        /\ sent[e]["data"] \in Nat /\ sent[e]["noise"] \in Nat /\ encCtr[e] \in Nat
    <2>1. /\ writer[e] \in [Writers -> {"idle", "framed", "ended"}] /\ wire[e] \in Seq(Frames)
          /\ sent[e] \in [Writers -> Nat] /\ encCtr[e] \in Nat
      BY <1>1, Zenon DEF Types
    <2> QED
      BY <2>1 DEF Writers
  <1>6. \A v \in Writers : writer'[e][v] # "framed"
    BY <1>1, <1>3, <1>4, <1>5 DEF SenderInv
  <1>7. SenderInv(e)' /\ Held(e)' = 0 /\ HeldData(e)' = 0
    BY <1>1, <1>3, <1>6 DEF SenderInv, Held, HeldData, Unlocked, Writers
  <1>8. /\ Held(e) = 1 /\ HeldData(e) = (IF w = "data" THEN 1 ELSE 0)
        /\ enc \in Nat /\ d \in Nat
    BY <1>1, <1>3, HeldFacts
  <1>9. /\ f \in Frames /\ f.kind = w /\ f.n = sent[e][w] /\ f.ctr = encCtr[e] - 1
    BY <1>1, <1>3, FrameTyped, Zenon
  <1>10. /\ f.kind # "part" /\ f.ctr = enc /\ One(f) = HeldData(e)
    BY <1>8, <1>9 DEF One, Writers
  <1>11. Through(f) = d + One(f)
    <2>1. sent[e]["data"] + sent[e]["noise"] = encCtr[e]
      BY <1>1 DEF SenderInv
    <2>2. CASE w = "data"
      BY <1>5, <1>8, <1>9, <1>10, <2>2 DEF Through
    <2>3. CASE w = "noise"
      BY <1>5, <1>8, <1>9, <1>10, <2>1, <2>3 DEF Through
    <2> QED
      BY <2>2, <2>3 DEF Writers
  <1>12. WireInv(p)'
    <2>1. decCtr[p] \in Nat /\ Taken(p) \in Nat
      BY <1>1, TakenNat DEF Types
    <2>2. WireOk(wire[e], decCtr[p], Taken(p), enc, d, Reading(p), broken[e], rejected[p])
      BY <1>1 DEF WireInv
    <2> HIDE DEF f, enc, d
    <2>3. WireOk(Append(wire[e], f), decCtr[p], Taken(p), enc + 1, d + One(f), Reading(p),
                 broken[e], rejected[p])
      BY <1>5, <1>8, <1>9, <1>10, <1>11, <2>1, <2>2, WireWrite
    <2>4. /\ encCtr'[e] - Held(e)' = enc + 1
          /\ sent'[e]["data"] - HeldData(e)' = d + One(f)
      <3>1. encCtr' = encCtr /\ sent' = sent
        BY <1>3
      <3>2. One(f) = HeldData(e) /\ HeldData(e) \in Nat
        BY <1>8, <1>10
      <3> QED
        BY <1>5, <1>7, <1>8, <3>1, <3>2 DEF enc, d
    <2>5. Taken(p)' = Taken(p) /\ Reading(p)' = Reading(p)
      BY <1>3 DEF Taken, Off, Reading
    <2> QED
      BY <1>1, <1>3, <1>4, <2>3, <2>4, <2>5 DEF WireInv
  <1> QED
    BY <1>2, <1>3, <1>4, <1>7, <1>12, SenderFrame

LEMMA WriteFailsKeeps ==
    ASSUME IInv, NEW e \in Ends, NEW w \in Writers, WriteFails(e, w)
    PROVE  IInv'
  <1> DEFINE p == Peer(e)
             f == [Frame(e, w) EXCEPT !.kind = "part"]
             enc == encCtr[e] - Held(e)
             d == sent[e]["data"] - HeldData(e)
  <1>1. Types /\ SenderInv(e) /\ WireInv(p) /\ p \in Ends /\ Peer(p) = e
    BY PeerFacts DEF IInv
  <1>2. Types'
    BY <1>1, WriteTypes DEF WritePacket
  <1>3. /\ UNCHANGED <<decCtr, recv, inHand, dataIn, got, drained, owner, rejected, sent, encCtr>>
        /\ writer' = [writer EXCEPT ![e][w] = AfterError(w)] /\ writer[e][w] = "framed"
        /\ broken' = [broken EXCEPT ![e] = TRUE]
        /\ wire' = wire \/ wire' = [wire EXCEPT ![e] = Append(wire[e], f)]
    BY DEF WriteFails, receiving
  <1>4. /\ writer'[e] = [writer[e] EXCEPT ![w] = AfterError(w)] /\ broken'[e] = TRUE
        /\ wire'[e] = wire[e] \/ wire'[e] = Append(wire[e], f)
        /\ \A g \in Ends \ {e} : /\ writer'[g] = writer[g] /\ wire'[g] = wire[g]
                                 /\ broken'[g] = broken[g]
    BY <1>1, <1>3 DEF Types
  <1>5. /\ writer[e] \in [Writers -> {"idle", "framed", "ended"}] /\ wire[e] \in Seq(Frames)
        /\ sent[e]["data"] \in Nat /\ encCtr[e] \in Nat
    BY <1>1 DEF Types, Writers
  <1>6. \A v \in Writers : writer'[e][v] # "framed"
    BY <1>1, <1>3, <1>4, <1>5 DEF SenderInv, AfterError
  <1>7. SenderInv(e)' /\ Held(e)' = 0 /\ HeldData(e)' = 0
    BY <1>1, <1>3, <1>6 DEF SenderInv, Held, HeldData, Unlocked, Writers
  <1>8. Held(e) = 1 /\ enc \in Nat /\ d \in Nat
    BY <1>1, <1>3, HeldFacts
  <1>9. f \in Frames /\ f.kind = "part"
    BY <1>1, <1>3, FrameTyped
  <1>10. WireInv(p)'
    <2>1. decCtr[p] \in Nat /\ Taken(p) \in Nat
      BY <1>1, TakenNat DEF Types
    <2>2. WireOk(wire[e], decCtr[p], Taken(p), enc, d, Reading(p), broken[e], rejected[p])
      BY <1>1 DEF WireInv
    <2> DEFINE sd == sent[e]["data"]
    <2> HIDE DEF f, enc, d, sd
    <2>3. /\ WireOk(wire[e], decCtr[p], Taken(p), enc + 1, sd, Reading(p), TRUE, rejected[p])
          /\ WireOk(Append(wire[e], f), decCtr[p], Taken(p), enc + 1, sd, Reading(p), TRUE,
                    rejected[p])
      BY <1>5, <1>8, <1>9, <2>1, <2>2, WireFails, Zenon
    <2>4. encCtr'[e] - Held(e)' = enc + 1 /\ sent'[e]["data"] - HeldData(e)' = sd
      BY <1>3, <1>5, <1>7, <1>8 DEF enc, sd
    <2>5. Taken(p)' = Taken(p) /\ Reading(p)' = Reading(p)
      BY <1>3 DEF Taken, Off, Reading
    <2> QED
      BY <1>1, <1>3, <1>4, <2>3, <2>4, <2>5, Zenon DEF WireInv
  <1> QED
    BY <1>2, <1>3, <1>4, <1>7, <1>10, SenderFrame, Zenon

LEMMA LoopSeesDoneKeeps ==
    ASSUME IInv, NEW e \in Ends, NEW w \in Writers, LoopSeesDone(e, w)
    PROVE  IInv'
  <1> DEFINE p == Peer(e)
  <1>1. Types /\ SenderInv(e) /\ WireInv(p) /\ p \in Ends /\ Peer(p) = e
    BY PeerFacts DEF IInv
  <1>2. Types'
    BY <1>1, WriteTypes
  <1>3. /\ UNCHANGED <<decCtr, recv, inHand, dataIn, got, drained, owner, rejected, sent, encCtr, broken,
                       wire>>
        /\ writer' = [writer EXCEPT ![e][w] = "ended"] /\ writer[e][w] = "idle"
    BY DEF LoopSeesDone, receiving
  <1>4. /\ \A v \in Writers : writer'[e][v] = "framed" <=> writer[e][v] = "framed"
        /\ \A g \in Ends \ {e} : writer'[g] = writer[g]
    BY <1>1, <1>3 DEF Types
  <1>5. Held(e)' = Held(e) /\ HeldData(e)' = HeldData(e) /\ SenderInv(e)'
    BY <1>1, <1>3, <1>4 DEF Held, HeldData, Unlocked, SenderInv, Writers
  <1>6. WireInv(p)'
    BY <1>1, <1>3, <1>5, Zenon DEF WireInv, Taken, Off, Reading
  <1> QED
    BY <1>2, <1>3, <1>4, <1>5, <1>6, SenderFrame

-------------------------------------------------------------------------------
\* Receiving.

\* A step of recvLoop or of the owner that reads no frame: the payloads taken stay
\* the same, or recvLoop stops reading.
LEMMA NoFrameRead ==
    ASSUME IInv, NEW e \in Ends,
           UNCHANGED <<sent, writer, encCtr, broken, wire, decCtr, rejected>>,
           Reading(e)' => Reading(e) /\ Taken(e)' = Taken(e)
    PROVE  WireInv(e)'
  <1> DEFINE p == Peer(e)
  <1>1. WireInv(e) /\ p \in Ends
    BY PeerFacts DEF IInv
  <1>2. Held(p)' = Held(p) /\ HeldData(p)' = HeldData(p)
    BY DEF Held, HeldData, Unlocked
  <1> DEFINE enc == encCtr[p] - Held(p)
             d == sent[p]["data"] - HeldData(p)
  <1>3. WireOk(wire[p], decCtr[e], Taken(e), enc, d, Reading(e), broken[p], rejected[e])
    BY <1>1 DEF WireInv
  <1> HIDE DEF enc, d
  <1>4. WireOk(wire[p], decCtr[e], Taken(e)', enc, d, Reading(e)', broken[p], rejected[e])
    <2>1. CASE Reading(e)'
      <3>1. Reading(e)' = Reading(e) /\ Taken(e)' = Taken(e)
        BY <2>1 DEF Reading
      <3> QED
        BY <1>3, <3>1
    <2>2. CASE ~Reading(e)'
      <3>1. Reading(e)' = FALSE
        BY <2>2 DEF Reading
      <3> QED
        BY <1>3, <3>1, WireStops, Zenon
    <2> QED
      BY <2>1, <2>2
  <1> QED
    BY <1>2, <1>4 DEF WireInv, enc, d

LEMMA RecvFrameKeeps ==
    ASSUME IInv, NEW e \in Ends, RecvFrame(e)
    PROVE  IInv'
  <1> DEFINE p == Peer(e)
             f == Head(wire[p])
             enc == encCtr[p] - Held(p)
             d == sent[p]["data"] - HeldData(p)
  <1>1. /\ Types /\ SenderInv(p) /\ WireInv(e) /\ QueueInv(e)
        /\ p \in Ends /\ p # e /\ Peer(p) = e
    BY PeerFacts DEF IInv
  <1>2. Types'
    BY <1>1, RecvTypes DEF RecvLoop
  <1>3. /\ UNCHANGED <<sent, writer, encCtr, broken, dataIn, got, drained, owner>>
        /\ recv[e] = "read" /\ wire[p] # << >>
    BY DEF RecvFrame, Readable, sending
  <1>4. /\ wire'[p] = Tail(wire[p]) /\ wire'[e] = wire[e]
        /\ decCtr'[e] = decCtr[e] + 1
        /\ rejected'[e] = (rejected[e] \/ ~Parses(e, f))
        /\ inHand'[e] = IF Parses(e, f) /\ f.kind = "data"
                        THEN [kind |-> "data", n |-> f.n] ELSE None
        /\ recv'[e] = IF ~Parses(e, f) THEN "closing"
                      ELSE IF f.kind = "data" THEN "push" ELSE "count"
    BY <1>1 DEF RecvFrame, Types
  <1>5. \A g \in Ends \ {e} : /\ decCtr'[g] = decCtr[g] /\ recv'[g] = recv[g]
                              /\ inHand'[g] = inHand[g] /\ rejected'[g] = rejected[g]
    BY <1>1 DEF RecvFrame, Types
  <1>6. /\ wire[p] \in Seq(Frames) /\ decCtr[e] \in Nat /\ Taken(e) \in Nat
        /\ Off(e) \in Nat /\ Len(dataIn[e]) \in Nat /\ rejected[e] \in BOOLEAN
        /\ enc \in Nat /\ d \in Nat
        /\ Taken(e) = Off(e) + Len(dataIn[e])
    <2>1. enc \in Nat /\ d \in Nat
      BY <1>1, HeldFacts
    <2>2. /\ wire[p] \in Seq(Frames) /\ decCtr[e] \in Nat /\ rejected[e] \in BOOLEAN
          /\ got[e] \in Seq(Nat) /\ dataIn[e] \in Seq(Nat)
      BY <1>1 DEF Types
    <2>3. Taken(e) = Off(e) + Len(dataIn[e]) + 0
      BY <1>3 DEF Taken
    <2>4. Off(e) \in Nat /\ Len(dataIn[e]) \in Nat
      BY <1>1, TakenNat
    <2>5. Taken(e) \in Nat /\ Taken(e) = Off(e) + Len(dataIn[e])
      <3>1. /\ Off(e) + Len(dataIn[e]) \in Nat
            /\ Off(e) + Len(dataIn[e]) + 0 = Off(e) + Len(dataIn[e])
        BY <2>4, Sums, Zenon
      <3> QED
        BY <2>3, <3>1, Zenon
    <2> QED
      BY <2>1, <2>2, <2>4, <2>5, Zenon
  <1>7. WireOk(wire[p], decCtr[e], Taken(e), enc, d, TRUE, broken[p], rejected[e])
    <2>1. Reading(e) = TRUE
      BY <1>3 DEF Reading
    <2> QED
      BY <1>1, <2>1, Zenon DEF WireInv
  <1>8. /\ Held(p)' = Held(p) /\ HeldData(p)' = HeldData(p)
        /\ encCtr'[p] - Held(p)' = enc /\ sent'[p]["data"] - HeldData(p)' = d
    BY <1>3 DEF Held, HeldData, Unlocked
  <1>9. f \in Frames
    BY <1>3, <1>6, TailFacts
  <1> HIDE DEF enc, d, f
  <1>10. CASE Parses(e, f)
    <2>1. f.kind # "part" /\ f.ctr = decCtr[e]
      BY <1>10 DEF Parses
    <2>2. /\ WireOk(Tail(wire[p]), decCtr[e] + 1, Taken(e) + One(f), enc, d, TRUE, broken[p],
                    rejected[e])
          /\ Through(f) = Taken(e) + One(f)
      <3>1. d \in Int
        BY <1>6
      <3> QED
        BY <1>3, <1>6, <1>7, <2>1, <3>1, WireRead, Zenon DEF f
    <2>3. Reading(e)' = TRUE /\ rejected'[e] = rejected[e]
      BY <1>4, <1>6, <1>10 DEF Reading
    <2>4. Taken(e)' = Taken(e) + One(f)
      BY <1>3, <1>4, <1>6, <1>10, Zenon DEF Taken, Off, One
    <2>5. WireInv(e)'
      BY <1>3, <1>4, <1>8, <2>2, <2>3, <2>4, Zenon DEF WireInv
    <2>6. QueueInv(e)'
      <3>1. recv'[e] = "push" => inHand'[e].n = Off(e) + Len(dataIn[e]) + 1
        <4>1. ASSUME recv'[e] = "push"
              PROVE  inHand'[e].n = f.n /\ f.kind = "data"
          BY <1>4, <1>10, <4>1
        <4>2. f.kind = "data" => f.n = Taken(e) + 1
          BY <2>2 DEF Through, One
        <4> QED
          BY <1>6, <4>1, <4>2, Zenon
      <3>2. owner[e] \notin {"draining", "closed"}
        BY <1>1, <1>3 DEF QueueInv
      <3> QED
        BY <1>1, <1>3, <3>1, <3>2, Zenon DEF QueueInv, Off
    <2> QED
      BY <1>2, <1>3, <1>4, <1>5, <2>5, <2>6, ReceiverFrame
  <1>11. CASE ~Parses(e, f)
    <2>1. ~(f.kind # "part" /\ f.ctr = decCtr[e])
      BY <1>11 DEF Parses
    <2>2. WireOk(Tail(wire[p]), decCtr[e] + 1, Taken(e)', enc, d, FALSE, broken[p], TRUE)
      BY <1>3, <1>6, <1>7, <2>1, WireRejects, Zenon DEF f
    <2>3. Reading(e)' = FALSE /\ rejected'[e] = TRUE
      <3>1. recv'[e] = "closing"
        BY <1>4, <1>11
      <3>2. Reading(e)' = FALSE
        BY <3>1 DEF Reading
      <3>3. rejected'[e] = TRUE
        BY <1>4, <1>11, Zenon
      <3> QED
        BY <3>2, <3>3
    <2>4. WireInv(e)'
      BY <1>3, <1>4, <1>8, <2>2, <2>3, Zenon DEF WireInv
    <2>5. QueueInv(e)'
      <3>1. recv'[e] = "closing" /\ owner[e] \notin {"draining", "closed"}
        BY <1>1, <1>3, <1>4, <1>11, Zenon DEF QueueInv
      <3> QED
        BY <1>1, <1>3, <3>1, Zenon DEF QueueInv, Off
    <2> QED
      BY <1>2, <1>3, <1>4, <1>5, <2>4, <2>5, ReceiverFrame
  <1> QED
    BY <1>10, <1>11

LEMMA RecvOtherKeeps ==
    ASSUME IInv, NEW e \in Ends,
           RecvCount(e) \/ RecvEof(e) \/ RecvPush(e) \/ RecvReturns(e)
    PROVE  IInv'
  <1>1. Types /\ QueueInv(e)
    BY DEF IInv
  <1>2. Types'
    BY <1>1, RecvTypes, Zenon DEF RecvLoop
  <1>3. /\ UNCHANGED <<sent, writer, encCtr, broken, wire, decCtr, rejected, got, drained,
                       owner>>
        /\ \A g \in Ends \ {e} : recv'[g] = recv[g] /\ inHand'[g] = inHand[g]
                                 /\ dataIn'[g] = dataIn[g]
    BY <1>1 DEF RecvCount, RecvEof, RecvPush, RecvReturns, sending, Types
  <1>4. got[e] \in Seq(Nat) /\ dataIn[e] \in Seq(Nat) /\ Off(e) \in Nat
        /\ Len(dataIn[e]) \in Nat /\ inHand[e].n \in Nat
    BY <1>1, TakenNat DEF Types
  <1>5. CASE /\ dataIn'[e] = dataIn[e] /\ recv'[e] # "push"
             /\ recv'[e] \in {"count", "read", "push"} =>
                  recv[e] \in {"count", "read"}
             /\ owner[e] \in {"draining", "closed"} => recv'[e] = "ended"
    <2>1. WireInv(e)'
      <3>1. Reading(e)' => Reading(e) /\ Taken(e)' = Taken(e)
        BY <1>3, <1>5, Zenon DEF Reading, Taken, Off
      <3> QED
        BY <1>3, <3>1, NoFrameRead, Zenon
    <2>2. QueueInv(e)'
      BY <1>1, <1>3, <1>5, Zenon DEF QueueInv, Off
    <2> QED
      BY <1>2, <1>3, <2>1, <2>2, ReceiverFrame, Zenon
  <1>6. CASE /\ recv[e] = "push" /\ recv'[e] = "count"
             /\ dataIn'[e] = Append(dataIn[e], inHand[e].n)
    <2>1. /\ Len(dataIn'[e]) = Len(dataIn[e]) + 1
          /\ \A j \in 1 .. Len(dataIn[e]) : dataIn'[e][j] = dataIn[e][j]
          /\ dataIn'[e][Len(dataIn[e]) + 1] = inHand[e].n
      <3>1. LET s == Append(dataIn[e], inHand[e].n)
            IN  /\ Len(s) = Len(dataIn[e]) + 1
                /\ \A j \in 1 .. Len(dataIn[e]) : s[j] = dataIn[e][j]
                /\ s[Len(dataIn[e]) + 1] = inHand[e].n
        BY <1>4, AppendFacts
      <3> QED
        BY <1>6, <3>1, Zenon
    <2>2. WireInv(e)'
      <3>1. Reading(e)
        BY <1>6 DEF Reading
      <3>2. Taken(e)' = Taken(e)
        <4>1. /\ Taken(e) = Off(e) + Len(dataIn[e]) + 1
              /\ Taken(e)' = Off(e) + (Len(dataIn[e]) + 1) + 0
          BY <1>3, <1>6, <2>1 DEF Taken, Off
        <4> QED
          BY <1>4, <4>1, Sums, Zenon
      <3> QED
        BY <1>3, <3>1, <3>2, NoFrameRead
    <2>3. QueueInv(e)'
      <3>1. inHand[e].n = Off(e) + Len(dataIn[e]) + 1
            /\ owner[e] \notin {"draining", "closed"}
        BY <1>1, <1>6, Zenon DEF QueueInv
      <3>2. ASSUME NEW j \in 1 .. Len(dataIn'[e])
            PROVE  dataIn'[e][j] = Off(e) + j
        <4>1. CASE j = Len(dataIn[e]) + 1
          <5>1. dataIn'[e][j] = Off(e) + Len(dataIn[e]) + 1
            BY <2>1, <3>1, <4>1, Zenon
          <5> QED
            BY <1>4, <4>1, <5>1, Sums, Zenon
        <4>2. CASE j \in 1 .. Len(dataIn[e])
          BY <1>1, <2>1, <4>2 DEF QueueInv
        <4> QED
          BY <1>4, <2>1, <4>1, <4>2
      <3> QED
        BY <1>1, <1>3, <1>6, <3>1, <3>2, Zenon DEF QueueInv, Off
    <2> QED
      BY <1>2, <1>3, <2>2, <2>3, ReceiverFrame, Zenon
  <1>7. owner[e] \in {"draining", "closed"} => recv[e] = "ended"
    BY <1>1 DEF QueueInv
  <1>8. CASE RecvCount(e)
    BY <1>1, <1>5, <1>7, <1>8 DEF RecvCount, Types
  <1>9. CASE RecvEof(e)
    BY <1>1, <1>5, <1>7, <1>9 DEF RecvEof, Types
  <1>10. CASE RecvReturns(e)
    BY <1>1, <1>5, <1>7, <1>10 DEF RecvReturns, Types
  <1>11. CASE RecvPush(e)
    BY <1>1, <1>5, <1>6, <1>7, <1>11 DEF RecvPush, Types
  <1> QED
    BY <1>8, <1>9, <1>10, <1>11

-------------------------------------------------------------------------------
\* The consumer and the owner.

\* One payload leaves dataIn, to the consumer or to drainDataIn.
LEMMA HeadTaken ==
    ASSUME IInv, NEW e \in Ends, dataIn[e] # << >>, dataIn'[e] = Tail(dataIn[e]),
           UNCHANGED <<sent, writer, encCtr, broken, wire, decCtr, rejected, recv, inHand, owner>>,
           \/ /\ got'[e] = Append(got[e], Head(dataIn[e])) /\ drained'[e] = drained[e]
           \/ /\ drained'[e] = Append(drained[e], Head(dataIn[e])) /\ got'[e] = got[e]
              /\ owner[e] \in {"draining", "closed"}
    PROVE  WireInv(e)' /\ QueueInv(e)'
  <1> DEFINE q == dataIn[e]
             g == got[e]
             d == drained[e]
             k == Off(e)
  <1>1. Types /\ QueueInv(e)
    BY DEF IInv
  <1>2. q \in Seq(Nat) /\ g \in Seq(Nat) /\ d \in Seq(Nat) /\ q # << >>
    BY <1>1 DEF Types
  <1>3. /\ Shared(g, d, k)
        /\ \A i \in 1 .. Len(q) : q[i] = k + i
        /\ recv[e] = "push" => inHand[e].n = k + Len(q) + 1
    BY <1>1, Zenon DEF QueueInv
  <1>4. k = Len(g) + Len(d)
    BY DEF Off
  <1>5. Off(e)' = Len(got'[e]) + Len(drained'[e])
    BY DEF Off
  <1> HIDE DEF q, g, d, k
  <1>6. /\ Len(q) \in Nat \ {0} /\ Head(q) = q[1] /\ Len(Tail(q)) = Len(q) - 1
        /\ \A j \in 1 .. Len(Tail(q)) : Tail(q)[j] = q[j + 1]
    BY <1>2, TailFacts
  <1>7. Len(g) \in Nat /\ Len(d) \in Nat /\ k \in Nat
    BY <1>2, <1>4, LenFacts
  <1>8. Head(q) = k + 1
    BY <1>3, <1>6
  <1>9. Off(e)' = k + 1 /\ Shared(got'[e], drained'[e], k + 1)
    <2>1. CASE got'[e] = Append(g, Head(q)) /\ drained'[e] = d
      <3>1. Len(Append(g, k + 1)) = Len(g) + 1
        BY <1>2, <1>7, AppendFacts
      <3>2. Shared(Append(g, k + 1), d, k + 1)
        BY <1>2, <1>3, <1>7, SharedGot
      <3> QED
        BY <1>4, <1>5, <1>7, <1>8, <2>1, <3>1, <3>2
    <2>2. CASE drained'[e] = Append(d, Head(q)) /\ got'[e] = g
      <3>1. Len(Append(d, k + 1)) = Len(d) + 1
        BY <1>2, <1>7, AppendFacts
      <3>2. Shared(g, Append(d, k + 1), k + 1)
        BY <1>2, <1>3, <1>7, SharedDrained
      <3> QED
        BY <1>4, <1>5, <1>7, <1>8, <2>2, <3>1, <3>2
    <2> QED
      BY <2>1, <2>2 DEF q, g, d
  <1>10. (k + 1) + Len(Tail(q)) = k + Len(q)
    BY <1>6, <1>7
  <1>11. WireInv(e)'
    <2>1. Taken(e)' = Taken(e) /\ Reading(e)' = Reading(e)
      BY <1>9, <1>10, Zenon DEF Taken, Reading, q, k
    <2> QED
      BY <2>1, NoFrameRead
  <1>12. QueueInv(e)'
    <2>1. ASSUME NEW i \in 1 .. Len(Tail(q))
          PROVE  Tail(q)[i] = (k + 1) + i
      <3>1. i + 1 \in 1 .. Len(q) /\ Tail(q)[i] = q[i + 1]
        BY <1>6
      <3>2. q[i + 1] = k + (i + 1)
        BY <1>3, <3>1
      <3> QED
        BY <1>7, <3>1, <3>2
    <2>2. recv[e] = "push" => inHand[e].n = (k + 1) + Len(Tail(q)) + 1
      BY <1>3, <1>10, Zenon
    <2>3. /\ owner[e] \in {"draining", "closed"} => recv[e] = "ended"
          /\ drained'[e] # << >> => owner[e] \in {"draining", "closed"}
      BY <1>1 DEF QueueInv
    <2> QED
      BY <1>9, <2>1, <2>2, <2>3, Zenon DEF QueueInv, q
  <1> QED
    BY <1>11, <1>12

LEMMA ConsumeKeeps ==
    ASSUME IInv, NEW e \in Ends, Consume(e)
    PROVE  IInv'
  <1>1. Types
    BY DEF IInv
  <1>2. Types'
    BY <1>1, OwnerTypes, Zenon
  <1>3. /\ UNCHANGED <<sent, writer, encCtr, broken, wire, decCtr, rejected, recv, inHand, owner,
                       drained>>
        /\ dataIn[e] # << >>
    BY DEF Consume, sending, receiving
  <1>4. /\ dataIn'[e] = Tail(dataIn[e]) /\ got'[e] = Append(got[e], Head(dataIn[e]))
        /\ \A h \in Ends \ {e} : dataIn'[h] = dataIn[h] /\ got'[h] = got[h]
    BY <1>1 DEF Consume, Types
  <1>5. WireInv(e)' /\ QueueInv(e)'
    BY <1>3, <1>4, HeadTaken
  <1> QED
    BY <1>2, <1>3, <1>4, <1>5, ReceiverFrame

LEMMA CloseKeeps ==
    ASSUME IInv, NEW e \in Ends, CloseCancel(e) \/ Close(e)
    PROVE  IInv'
  <1>1. Types /\ QueueInv(e)
    BY DEF IInv
  <1>2. Types'
    BY <1>1, OwnerTypes, Zenon
  <1>3. /\ UNCHANGED <<sent, writer, encCtr, broken, wire, decCtr, rejected, recv, inHand, got>>
        /\ \A h \in Ends \ {e} : /\ dataIn'[h] = dataIn[h] /\ owner'[h] = owner[h]
                                 /\ drained'[h] = drained[h]
    BY <1>1 DEF CloseCancel, Close, CloseConn, CloseWait, CloseDrain, sending, receiving, Types
  <1>4. CASE CloseDrain(e) /\ dataIn[e] # << >>
    <2>1. /\ dataIn'[e] = Tail(dataIn[e]) /\ drained'[e] = Append(drained[e], Head(dataIn[e]))
          /\ owner[e] = "draining" /\ UNCHANGED owner
      BY <1>1, <1>4 DEF CloseDrain, Types
    <2>2. WireInv(e)' /\ QueueInv(e)'
      BY <1>3, <1>4, <2>1, HeadTaken
    <2> QED
      BY <1>2, <1>3, <2>2, ReceiverFrame, Zenon
  <1>5. CASE CloseCancel(e) \/ CloseConn(e) \/ CloseWait(e) \/ (CloseDrain(e) /\ dataIn[e] = << >>)
    <2>1. /\ UNCHANGED <<dataIn, drained>>
          /\ owner'[e] \in {"draining", "closed"} => recv[e] = "ended"
          /\ owner[e] \in {"draining", "closed"} => owner'[e] \in {"draining", "closed"}
      BY <1>1, <1>5 DEF CloseCancel, CloseConn, CloseWait, CloseDrain, QueueInv, Types
    <2>2. Off(e)' = Off(e)
      BY <1>3, <2>1 DEF Off
    <2>3. WireInv(e)'
      <3>1. Taken(e)' = Taken(e) /\ Reading(e)' = Reading(e)
        BY <1>3, <2>1, <2>2 DEF Taken, Reading
      <3> QED
        BY <1>3, <3>1, NoFrameRead, Zenon
    <2>4. QueueInv(e)'
      BY <1>1, <1>3, <2>1, <2>2, Zenon DEF QueueInv
    <2> QED
      BY <1>2, <1>3, <2>1, <2>3, <2>4, ReceiverFrame, Zenon
  <1> QED
    BY <1>4, <1>5 DEF Close

-------------------------------------------------------------------------------
LEMMA IInvStep == IInv /\ [Next]_vars => IInv'
  <1> SUFFICES ASSUME IInv, [Next]_vars PROVE IInv'
    OBVIOUS
  <1>1. CASE UNCHANGED vars
    BY <1>1 DEF vars, IInv, Types, SenderInv, WireInv, QueueInv, Held, HeldData, Unlocked,
                Taken, Off, Reading
  <1>2. ASSUME NEW e \in Ends, NEW w \in Writers, WritePacket(e, w) \/ LoopSeesDone(e, w)
        PROVE  IInv'
    BY <1>2, WriteBeginKeeps, WriteFrameKeeps, WriteFailsKeeps, LoopSeesDoneKeeps DEF WritePacket
  <1>3. ASSUME NEW e \in Ends, RecvLoop(e)
        PROVE  IInv'
    BY <1>3, RecvFrameKeeps, RecvOtherKeeps DEF RecvLoop
  <1>4. ASSUME NEW e \in Ends, Consume(e) \/ CloseCancel(e) \/ Close(e)
        PROVE  IInv'
    BY <1>4, ConsumeKeeps, CloseKeeps
  <1> QED
    BY <1>1, <1>2, <1>3, <1>4 DEF Next

\* What RecvDataInto hands to an end's consumer is in the order in which the peer's
\* SendData callers sent it, without repetition, and every payload it lacks before
\* one it has was taken by drainDataIn, which takes one only after recvLoop has
\* ended: however many packets are sent, however long the queue is, whatever
\* writes fail and whenever either end closes.
THEOREM DeliveredInOrder == Spec => []InOrder
  <1>1. IInv => InOrder
    <2> SUFFICES ASSUME IInv, NEW e \in Ends
                 PROVE  /\ \A i, j \in DOMAIN got[e] : i < j => got[e][i] < got[e][j]
                        /\ \A i \in DOMAIN got[e] : \A n \in 1 .. got[e][i] : Took(e, n)
                        /\ drained[e] # << >> => /\ owner[e] \in {"draining", "closed"}
                                                 /\ recv[e] = "ended"
      BY Zenon DEF InOrder
    <2>1. /\ got[e] \in Seq(Nat) /\ drained[e] \in Seq(Nat) /\ Shared(got[e], drained[e], Off(e))
          /\ owner[e] \in {"draining", "closed"} => recv[e] = "ended"
          /\ drained[e] # << >> => owner[e] \in {"draining", "closed"}
      BY DEF IInv, Types, QueueInv
    <2>2. /\ DOMAIN got[e] = 1 .. Len(got[e]) /\ DOMAIN drained[e] = 1 .. Len(drained[e])
          /\ Off(e) \in Nat
      <3>1. DOMAIN got[e] = 1 .. Len(got[e]) /\ DOMAIN drained[e] = 1 .. Len(drained[e])
        BY <2>1
      <3>2. Types
        BY Zenon DEF IInv
      <3> QED
        BY <3>1, <3>2, TakenNat, Zenon
    <2>3. ASSUME NEW i \in DOMAIN got[e], NEW n \in 1 .. got[e][i]
          PROVE  Took(e, n)
      <3>1. got[e][i] \in 1 .. Off(e)
        BY <2>1, <2>2 DEF Shared
      <3>2. n \in 1 .. Off(e)
        BY <2>2, <3>1
      <3> QED
        BY <2>1, <2>2, <3>2, Zenon DEF Shared, Took
    <2>4. \A i, j \in DOMAIN got[e] : i < j => got[e][i] < got[e][j]
      BY <2>1, <2>2, Zenon DEF Shared
    <2> QED
      BY <2>1, <2>3, <2>4, Zenon
  <1> QED
    BY <1>1, IInvInit, IInvStep, PTL DEF Spec

\* recvLoop fails to parse a frame only after a write of the peer has failed: as
\* long as writes succeed, sendMu keeps the framers' counters in step.
THEOREM FramersInStep == Spec => []CountersInStep
  <1>1. IInv => CountersInStep
    <2> SUFFICES ASSUME IInv, NEW e \in Ends, rejected[e]
                 PROVE  broken[Peer(e)]
      BY DEF CountersInStep
    <2>1. WireInv(e)
      BY DEF IInv
    <2> QED
      BY <2>1, Zenon DEF WireInv, WireOk
  <1> QED
    BY <1>1, IInvInit, IInvStep, PTL DEF Spec

-------------------------------------------------------------------------------
\* The packet limit.

LEMMA OneMorePacket ==
    ASSUME NEW n \in Nat, LimitHit(n + 1), ~LimitHit(n)
    PROVE  Expired(n + 1) = {TRUE}
  <1>1. MaxPackets > 0 /\ MaxPackets \in Nat
    BY TunnelAssumption DEF LimitHit
  <1>2. PICK m \in MaxPackets .. (n + 1) : m % CheckEvery = 0
    BY DEF LimitHit
  <1>3. m \notin MaxPackets .. n
    BY <1>1, <1>2 DEF LimitHit
  <1>4. m = n + 1 /\ n + 1 >= MaxPackets
    BY <1>1, <1>2, <1>3
  <1> QED
    BY <1>1, <1>2, <1>4, Zenon DEF Expired

\* packetCount grows by one in writePacket and in recvLoop, and the one that makes
\* it reach a look past the limit finds the session expired.
LEMMA ExpiryStep ==
    ASSUME Types, ExpiryNotMissed, [Next]_vars
    PROVE  ExpiryNotMissed'
  <1> SUFFICES ASSUME NEW e \in Ends, LimitHit(count[e])'
               PROVE  ctx'[e] \/ recv'[e] = "closing"
    BY DEF ExpiryNotMissed
  <1>1. count[e] \in Nat
    BY DEF Types
  <1>2. LimitHit(count'[e])
    BY DEF LimitHit
  <1>3. /\ ctx[e] => ctx'[e]
        /\ recv[e] = "closing" => recv'[e] = "closing" \/ ctx'[e]
    <2>1. CASE UNCHANGED vars
      BY <2>1, Zenon DEF vars
    <2>2. ASSUME NEW f \in Ends, NEW w \in Writers, WritePacket(f, w) \/ LoopSeesDone(f, w)
          PROVE  (ctx[e] => ctx'[e]) /\ recv' = recv
      BY <2>2, Zenon DEF WritePacket, WriteBegin, WriteFrame, WriteFails, LoopSeesDone, receiving, Types
    <2>3. ASSUME NEW f \in Ends, RecvLoop(f)
          PROVE  /\ ctx[e] => ctx'[e]
                 /\ recv[e] = "closing" => recv'[e] = "closing" \/ ctx'[e]
      BY <2>3, Zenon DEF RecvLoop, RecvCount, RecvFrame, RecvEof, RecvPush, RecvReturns, Types
    <2>4. ASSUME NEW f \in Ends, Consume(f) \/ CloseCancel(f) \/ Close(f)
          PROVE  (ctx[e] => ctx'[e]) /\ recv' = recv
      BY <2>4 DEF Consume, CloseCancel, Close, CloseConn, CloseWait, CloseDrain, receiving, Types
    <2> QED
      BY <2>1, <2>2, <2>3, <2>4, Zenon DEF Next
  <1>4. CASE LimitHit(count[e])
    BY <1>3, <1>4 DEF ExpiryNotMissed
  <1>5. CASE ~LimitHit(count[e])
    <2>1. ASSUME count'[e] = count[e] + 1 PROVE Expired(count[e] + 1) = {TRUE}
      BY <1>1, <1>2, <1>5, <2>1, OneMorePacket, Zenon
    <2>2. count'[e] # count[e]
      BY <1>2, <1>5
    <2>3. \/ \E w \in Writers : WriteBegin(e, w)
          \/ RecvCount(e)
      <3>1. CASE UNCHANGED vars
        BY <2>2, <3>1 DEF vars
      <3>2. ASSUME NEW f \in Ends, NEW w \in Writers, WritePacket(f, w) \/ LoopSeesDone(f, w)
            PROVE  f = e /\ WriteBegin(e, w)
        <4>1. WriteBegin(f, w)
          BY <2>2, <3>2 DEF WritePacket, WriteFrame, WriteFails, LoopSeesDone
        <4>2. count' = [count EXCEPT ![f] = count[f] + 1]
          BY <4>1 DEF WriteBegin
        <4>3. f = e
          BY <2>2, <4>2 DEF Types
        <4> QED
          BY <4>1, <4>3
      <3>3. ASSUME NEW f \in Ends, RecvLoop(f)
            PROVE  f = e /\ RecvCount(e)
        <4>1. RecvCount(f)
          BY <2>2, <3>3, Zenon DEF RecvLoop, RecvFrame, RecvEof, RecvPush, RecvReturns
        <4>2. count' = [count EXCEPT ![f] = count[f] + 1]
          BY <4>1 DEF RecvCount
        <4>3. f = e
          BY <2>2, <4>2 DEF Types
        <4> QED
          BY <4>1, <4>3
      <3>4. ASSUME NEW f \in Ends, Consume(f) \/ CloseCancel(f) \/ Close(f)
            PROVE  FALSE
        BY <2>2, <3>4, Zenon DEF Consume, CloseCancel, Close, CloseConn, CloseWait, CloseDrain
      <3> QED
        BY <3>1, <3>2, <3>3, <3>4 DEF Next
    <2>4. ASSUME NEW w \in Writers, WriteBegin(e, w) PROVE ctx'[e]
      <3>1. count'[e] = count[e] + 1
        BY <2>4 DEF WriteBegin, Types
      <3>2. Expired(count[e] + 1) = {TRUE}
        BY <2>1, <3>1, Zenon
      <3>3. ctx' = [ctx EXCEPT ![e] = TRUE]
        BY <2>4, <3>2, Zenon DEF WriteBegin
      <3> QED
        BY <3>3 DEF Types
    <2>5. ASSUME RecvCount(e) PROVE recv'[e] = "closing"
      <3>1. count'[e] = count[e] + 1
        BY <2>5 DEF RecvCount, Types
      <3>2. Expired(count[e] + 1) = {TRUE}
        BY <2>1, <3>1, Zenon
      <3>3. recv' = [recv EXCEPT ![e] = "closing"]
        BY <2>5, <3>2, Zenon DEF RecvCount
      <3> QED
        BY <3>3 DEF Types
    <2> QED
      BY <2>3, <2>4, <2>5
  <1> QED
    BY <1>4, <1>5

\* sessionExpired looks at every CheckEvery-th packet only, and the packets are
\* counted by several goroutines: still, a session that has passed its limit and a
\* look is cancelled, or recvLoop has seen it and is about to cancel it.
THEOREM ExpirySeen == Spec => []ExpiryNotMissed
  <1>1. Init => ExpiryNotMissed
    <2> SUFFICES ASSUME Init, NEW e \in Ends PROVE ~LimitHit(count[e])
      BY DEF ExpiryNotMissed
    <2>1. count[e] = 0 /\ MaxPackets \in Nat
      BY TunnelAssumption DEF Init
    <2> QED
      BY <2>1 DEF LimitHit
  <1>2. IInv /\ ExpiryNotMissed /\ [Next]_vars => ExpiryNotMissed'
    BY ExpiryStep DEF IInv
  <1> QED
    BY <1>1, <1>2, IInvInit, IInvStep, PTL DEF Spec
===============================================================================
