--------------------------- MODULE UdpChannelProofs ---------------------------
(***************************************************************************)
(* The UDP data channel.  First the replay window, for every window size   *)
(* and set of counters: its bitmap is exact, no counter is accepted twice, *)
(* and it implements AntiReplay.  Then in-tunnel rekeying, for any number  *)
(* of epochs and datagrams: what RatchetEpoch, Send, Recv and Close leave  *)
(* of keys, counters and the window however their steps interleave.        *)
(***************************************************************************)
EXTENDS ReplayWindow, UdpRekey, TLAPS

-------------------------------------------------------------------------------
\* The replay window.  WindowExact together with the type invariant and AtMostOnce
\* is inductive: counters less than WindowSize apart never share a slot.

\* Slot, the remainder by the window size, is an index of the ring.
LEMMA SlotType == \A i \in Nat : Slot(i) \in Slots
BY WindowAssumption DEF Slot, Slots

\* Counters less than a window apart have different slots, which is why
\* clearing the slots of the counters passed over loses no other bit.
LEMMA SlotsDiffer ==
    ASSUME NEW i \in Nat, NEW j \in Nat, i < j, j - i < WindowSize
    PROVE  Slot(i) # Slot(j)
<1> DEFINE q == i \div WindowSize
           r == j \div WindowSize
<1>1. /\ q \in Int /\ r \in Int
      /\ i = WindowSize * q + Slot(i)
      /\ j = WindowSize * r + Slot(j)
  BY WindowAssumption DEF Slot
<1>2. SUFFICES ASSUME Slot(i) = Slot(j) PROVE FALSE
  OBVIOUS
<1>3. j - i = WindowSize * r - WindowSize * q
  BY <1>1, <1>2, SlotType, WindowAssumption DEF Slots
<1>4. j - i = WindowSize * (r - q)
  BY <1>1, <1>3, WindowAssumption
<1>5. CASE r - q <= 0
  BY <1>1, <1>4, <1>5, WindowAssumption
<1>6. CASE r - q >= 1
  BY <1>1, <1>4, <1>6, WindowAssumption
<1> QED BY <1>1, <1>5, <1>6

-------------------------------------------------------------------------------
\* The strengthening of WindowExact that every step of Check preserves.
WindowIInv == WindowTypeOK /\ WindowExact /\ AtMostOnce

LEMMA WindowInitIInv == WindowInit => WindowIInv
BY WindowAssumption, SeqsAssumption, SlotType
   DEF WindowInit, WindowIInv, WindowTypeOK, WindowExact, AtMostOnce, accepted

\* What Accept does to the set of accepted counters.
LEMMA AcceptAdds ==
    ASSUME WindowTypeOK, NEW seq \in Seqs, Accept(seq)
    PROVE  accepted' = accepted \cup {seq}
BY DEF WindowTypeOK, Accept, accepted

\* A refusal changes nothing but the verdict.
LEMMA RejectIInv ==
    ASSUME WindowIInv, NEW seq \in Seqs, Reject(seq)
    PROVE  WindowIInv'
<1>1. UNCHANGED accepted
  BY DEF Reject, accepted
<1> QED
  BY <1>1, SeqsAssumption
     DEF WindowIInv, Reject, WindowTypeOK, WindowExact, AtMostOnce

\* Sliding the window keeps the bits exact: a counter that stays in the
\* window is not passed over, and every slot entering it starts clear.
LEMMA SlideIInv ==
    ASSUME WindowIInv, NEW seq \in Seqs, Slide(seq)
    PROVE  WindowIInv'
<1> USE DEF WindowIInv
<1>0. seq \in Nat /\ maxSeq \in Nat /\ WindowSize \in Nat \ {0}
  BY SeqsAssumption, WindowAssumption DEF WindowTypeOK
<1>1. accepted' = accepted \cup {seq}
  BY AcceptAdds DEF Slide
<1>2. seq \notin accepted
  BY <1>0 DEF Slide, WindowExact
<1>3. WindowTypeOK'
  BY <1>0, SlotType DEF Slide, Accept, WindowTypeOK
<1>4. AtMostOnce'
  BY <1>2 DEF Slide, Accept, WindowTypeOK, AtMostOnce, accepted
<1>5. ASSUME NEW i \in 0 .. seq, seq - i < WindowSize
      PROVE  bitmap'[Slot(i)] <=> i \in accepted'
  <2>0. i \in Nat /\ Slot(i) \in Slots
    BY <1>0, <1>5, SlotType
  <2>1. CASE i = seq
    BY <1>1, <2>0, <2>1, Zenon DEF Slide
  <2>2. CASE i # seq
    <3>1. Slot(i) # Slot(seq)
      BY <1>0, <1>5, <2>0, <2>2, SlotsDiffer
    <3>2. CASE i > maxSeq
      <4>1. i \notin accepted'
        BY <1>0, <1>1, <2>0, <2>2, <3>2 DEF WindowExact
      <4>2. Slot(i) \in Passed(seq)
        BY <1>0, <2>0, <3>2 DEF Passed
      <4>3. ~bitmap'[Slot(i)]
        BY <2>0, <3>1, <4>2, Zenon DEF Slide
      <4> QED BY <4>1, <4>3
    <3>3. CASE i <= maxSeq
      <4>1. seq - maxSeq < WindowSize /\ maxSeq - i < WindowSize
        BY <1>0, <1>5, <2>0, <3>3 DEF Slide
      <4>2. Slot(i) \notin Passed(seq)
        <5>1. ASSUME NEW k \in (maxSeq + 1) .. seq PROVE Slot(k) # Slot(i)
          <6>1. k \in Nat /\ i < k /\ k - i < WindowSize
            BY <1>0, <1>5, <2>0, <3>3, <5>1
          <6> QED BY <2>0, <6>1, SlotsDiffer
        <5> QED BY <5>1 DEF Passed
      <4>3. bitmap'[Slot(i)] <=> bitmap[Slot(i)]
        <5>1. ~(seq - maxSeq >= WindowSize)
          BY <1>0, <4>1
        <5> QED BY <2>0, <3>1, <4>2, <5>1 DEF Slide
      <4>4. bitmap[Slot(i)] <=> i \in accepted
        BY <1>0, <2>0, <3>3, <4>1 DEF WindowExact
      <4> QED BY <1>1, <2>2, <4>3, <4>4
    <3> QED BY <1>0, <2>0, <3>2, <3>3
  <2> QED BY <2>1, <2>2
<1>6. WindowExact'
  <2>1. \A s \in accepted' : s <= maxSeq'
    BY <1>0, <1>1 DEF Slide, WindowExact, accepted
  <2>2. maxSeq' = seq /\ maxSeq' \in accepted'
    BY <1>1 DEF Slide
  <2> QED BY <1>5, <2>1, <2>2 DEF WindowExact
<1> QED BY <1>3, <1>4, <1>6

\* A late counter sets its own bit only: no other counter of the window has
\* its slot.
LEMMA LateIInv ==
    ASSUME WindowIInv, NEW seq \in Seqs, Late(seq)
    PROVE  WindowIInv'
<1> USE DEF WindowIInv
<1>0. /\ seq \in Nat /\ maxSeq \in Nat /\ WindowSize \in Nat \ {0}
      /\ seq \in 0 .. maxSeq /\ maxSeq - seq < WindowSize
  BY SeqsAssumption, WindowAssumption DEF WindowTypeOK, Late
<1>1. accepted' = accepted \cup {seq}
  BY AcceptAdds DEF Late
<1>2. seq \notin accepted
  BY <1>0 DEF Late, WindowExact
<1>3. WindowTypeOK'
  BY <1>0, SlotType DEF Late, Accept, WindowTypeOK
<1>4. AtMostOnce'
  BY <1>2 DEF Late, Accept, WindowTypeOK, AtMostOnce, accepted
<1>5. ASSUME NEW i \in 0 .. maxSeq, maxSeq - i < WindowSize
      PROVE  bitmap'[Slot(i)] <=> i \in accepted'
  <2>0. i \in Nat /\ Slot(i) \in Slots
    BY <1>0, SlotType
  <2>1. CASE i = seq
    BY <1>1, <2>0, <2>1 DEF Late, WindowTypeOK
  <2>2. CASE i # seq
    <3>1. Slot(i) # Slot(seq)
      <4>1. CASE i < seq
        BY <1>0, <1>5, <2>0, <4>1, SlotsDiffer
      <4>2. CASE seq < i
        BY <1>0, <1>5, <2>0, <4>2, SlotsDiffer
      <4> QED BY <1>0, <2>0, <2>2, <4>1, <4>2
    <3>2. bitmap'[Slot(i)] = bitmap[Slot(i)]
      BY <2>0, <3>1 DEF Late, WindowTypeOK
    <3>3. bitmap[Slot(i)] <=> i \in accepted
      BY <1>5 DEF WindowExact
    <3> QED BY <1>1, <2>2, <3>2, <3>3
  <2> QED BY <2>1, <2>2
<1>6. WindowExact'
  <2>1. maxSeq' = maxSeq
    BY DEF Late
  <2>2. \A s \in accepted' : s <= maxSeq'
    BY <1>0, <1>1, <2>1 DEF WindowExact
  <2>3. maxSeq' # 0 => maxSeq' \in accepted'
    BY <1>1, <2>1 DEF WindowExact
  <2> QED BY <1>5, <2>1, <2>2, <2>3 DEF WindowExact
<1> QED BY <1>3, <1>4, <1>6

LEMMA WindowNextIInv == WindowIInv /\ [WindowNext]_windowVars => WindowIInv'
<1> SUFFICES ASSUME WindowIInv, [WindowNext]_windowVars PROVE WindowIInv'
  OBVIOUS
<1>1. CASE UNCHANGED windowVars
  BY <1>1 DEF WindowIInv, WindowTypeOK, WindowExact, AtMostOnce, accepted, windowVars
<1>2. ASSUME NEW seq \in Seqs, Check(seq) PROVE WindowIInv'
  <2>1. CASE Slide(seq)
    BY <2>1, SlideIInv
  <2>2. CASE Late(seq)
    BY <2>2, LateIInv
  <2>3. CASE TooOld(seq) \/ Duplicate(seq)
    BY <2>3, RejectIInv DEF TooOld, Duplicate
  <2> QED BY <1>2, <2>1, <2>2, <2>3 DEF Check
<1> QED BY <1>1, <1>2 DEF WindowNext

LEMMA WindowInductive == WindowSpec => []WindowIInv
BY WindowInitIInv, WindowNextIInv, PTL DEF WindowSpec

\* The fields of replayWindow keep their types for every window size.
THEOREM WindowTyped == WindowSpec => []WindowTypeOK
BY WindowInductive, PTL DEF WindowIInv

\* The ring's bits are exact for every window size and every set of counters:
\* Check's answers never depend on a stale bit of an earlier ring turn.
THEOREM BitmapExact == WindowSpec => []WindowExact
BY WindowInductive, PTL DEF WindowIInv

\* replayWindow.Check never answers true twice for one counter.
THEOREM NoReplay == WindowSpec => []AtMostOnce
BY WindowInductive, PTL DEF WindowIInv

-------------------------------------------------------------------------------
\* Being inside the window of the bitmap is being inside the abstract one.
LEMMA SameWindow ==
    ASSUME WindowIInv, NEW seq \in Seqs
    PROVE  Abs!InWindow(seq) <=> (seq > maxSeq \/ maxSeq - seq < WindowSize)
<1> USE DEF WindowIInv
<1>0. /\ seq \in Nat /\ maxSeq \in Nat /\ WindowSize \in Nat \ {0}
      /\ Abs!seen = accepted
      /\ accepted \subseteq Nat
  BY SeqsAssumption, WindowAssumption, Zenon DEF WindowTypeOK, Abs!seen, accepted
<1>1. ASSUME seq > maxSeq \/ maxSeq - seq < WindowSize
      PROVE  Abs!InWindow(seq)
  BY <1>0, <1>1 DEF WindowExact, Abs!InWindow
<1>2. ASSUME ~(seq > maxSeq \/ maxSeq - seq < WindowSize)
      PROVE  ~Abs!InWindow(seq)
  BY <1>0, <1>2 DEF WindowExact, Abs!InWindow
<1> QED BY <1>1, <1>2

LEMMA StepImplements ==
    ASSUME WindowIInv, NEW seq \in Seqs, Check(seq)
    PROVE  Abs!AbsCheck(seq)
<1>0. /\ seq \in Nat /\ maxSeq \in Nat /\ WindowSize \in Nat \ {0}
      /\ Abs!seen = accepted
  BY SeqsAssumption, WindowAssumption DEF WindowIInv, WindowTypeOK, Abs!seen, accepted
<1>1. CASE Slide(seq)
  <2>1. seq \notin accepted /\ Abs!InWindow(seq)
    BY <1>0, <1>1, SameWindow DEF Slide, WindowIInv, WindowExact
  <2> QED BY <1>0, <1>1, <2>1, Zenon DEF Slide, Accept, Abs!AbsCheck
<1>2. CASE Late(seq)
  <2>1. seq \notin accepted /\ Abs!InWindow(seq)
    BY <1>0, <1>2, SameWindow DEF Late, WindowIInv, WindowExact
  <2> QED BY <1>0, <1>2, <2>1, Zenon DEF Late, Accept, Abs!AbsCheck
<1>3. CASE TooOld(seq)
  <2>1. ~Abs!InWindow(seq)
    BY <1>0, <1>3, SameWindow DEF TooOld
  <2> QED BY <1>3, <2>1, Zenon DEF TooOld, Reject, Abs!AbsCheck
<1>4. CASE Duplicate(seq)
  <2>1. seq \in accepted
    BY <1>0, <1>4 DEF Duplicate, WindowIInv, WindowExact
  <2> QED BY <1>0, <1>4, <2>1, Zenon DEF Duplicate, Reject, Abs!AbsCheck
<1> QED BY <1>1, <1>2, <1>3, <1>4 DEF Check

\* replayWindow implements AntiReplay: each call of Check gives the answer the
\* set of accepted counters demands, so a fresh datagram inside the window is
\* never refused and a repeated or too old one never accepted.
THEOREM WindowRefinement == WindowSpec => ImplementsAntiReplay
<1>1. WindowInit => Abs!AbsInit
  BY DEF WindowInit, Abs!AbsInit
<1>2. WindowIInv /\ [WindowNext]_windowVars => [Abs!AbsNext]_(Abs!absVars)
  <2> SUFFICES ASSUME WindowIInv, [WindowNext]_windowVars PROVE [Abs!AbsNext]_(Abs!absVars)
    OBVIOUS
  <2>1. CASE UNCHANGED windowVars
    BY <2>1 DEF windowVars, Abs!absVars
  <2>2. CASE WindowNext
    BY <2>2, StepImplements DEF WindowNext, Abs!AbsNext
  <2> QED BY <2>1, <2>2
<1> QED BY <1>1, <1>2, WindowInductive, PTL
        DEF WindowSpec, ImplementsAntiReplay, Abs!AbsSpec

-------------------------------------------------------------------------------
\* Rekeying.  The inductive invariant, in three parts that share few variables.

KeyType == [enc : Nat, dec : Nat, hp : Nat, tag : Nat,
            prevDec : Int, prevHp : Int, prevTag : Int]
RatchetType == [pc : {"idle", "hp", "tag", "recv", "set"}, oldHp : Int, oldTag : Int]
LifeType == [pc : {"open", "test", "clear", "removed", "closed"}, tag : Int, last : BOOLEAN]

\* Where RatchetEpoch is says which fields are of the new epoch.
KeysAt(k, r) ==
    /\ r.pc \in {"idle", "set"} => k.dec = k.enc /\ k.prevDec = k.enc - 1
                                   /\ k.hp = k.enc /\ k.prevHp = k.enc - 1
                                   /\ k.tag = k.enc /\ k.prevTag = k.enc - 1
    /\ r.pc \in {"hp", "tag", "recv"} => k.enc > 0 /\ k.dec = k.enc - 1
    /\ r.pc = "hp" => k.hp = k.enc - 1
    /\ r.pc \in {"tag", "recv"} => k.hp = k.enc /\ r.oldHp = k.enc - 1
    /\ r.pc \in {"hp", "tag"} => k.tag = k.enc - 1
    /\ r.pc = "recv" => k.tag = k.enc /\ r.oldTag = k.enc - 1

\* Until Close every tag is in the table but one RatchetEpoch is still to set.
KeysInv ==
    /\ key \in [Sides -> KeyType] /\ ratchet \in [Sides -> RatchetType] /\ life \in LifeType
    /\ \A x \in Sides : KeysAt(key[x], ratchet[x])
    /\ ratchet["C"].pc # "set"
    /\ life.pc = "open" =>
         table = 0 .. (IF ratchet["S"].pc = "idle" THEN key["S"].enc ELSE key["S"].enc - 1)

SndType == [pc : {"idle", "tag", "enc", "hp"}, tag : Int, enc : Int, ctr : Int]

\* A counter below sendCtr belongs to one datagram, or to the server's Send.
CountersInv ==
    /\ sendCtr \in [Sides -> Nat] /\ DOMAIN net = Sides /\ snd \in SndType
    /\ \A x \in Sides : sendCtr[x] <= MaxCtr[x]
    /\ \A x \in Sides : \A d \in net[x] :
         d.ctr \in Nat /\ d.ctr < sendCtr[x] /\ d.tag \in Nat
    /\ \A x \in Sides : \A d, e \in net[x] : d.ctr = e.ctr => d = e
    /\ snd.pc # "idle" => /\ snd.ctr \in Nat /\ snd.ctr < sendCtr["S"]
                          /\ \A d \in net["S"] : d.ctr # snd.ctr
    /\ snd.pc \in {"enc", "hp"} => snd.tag \in Nat

\* The window has seen exactly the counters that were delivered.
WindowInv ==
    /\ DOMAIN rcv = Sides /\ DOMAIN seen = Sides
    /\ DOMAIN opened = Sides
    /\ \A x \in Sides : /\ opened[x] \in [0 .. (MaxCtr[Peer(x)] - 1) -> {0, 1}]
                        /\ rcv[x].pc # "idle" => rcv[x].d \in net[Peer(x)]
                        /\ \A c \in 0 .. (MaxCtr[Peer(x)] - 1) :
                             opened[x][c] = 1 => c \in seen[x]

IInv == KeysInv /\ CountersInv /\ WindowInv

LEMMA IInvInit == Init => IInv
  <1> SUFFICES ASSUME Init PROVE IInv
    OBVIOUS
  <1> USE RekeyAssumption DEF Init, Sides, Never
  <1>1. KeysInv
    BY DEF KeysInv, KeyType, RatchetType, LifeType, KeysAt, NoRatchet, Alive
  <1>2. CountersInv
    BY DEF CountersInv, SndType, NoSnd
  <1>3. WindowInv
    BY DEF WindowInv, NoRcv
  <1> QED
    BY <1>1, <1>2, <1>3 DEF IInv

-------------------------------------------------------------------------------
\* A step that leaves the variables of a part alone preserves it.

LEMMA KeysKept ==
    KeysInv /\ UNCHANGED <<key, ratchet, table, life>> => KeysInv'
  BY DEF KeysInv

LEMMA CountersKept ==
    CountersInv /\ UNCHANGED <<sendCtr, snd, net>> => CountersInv'
  BY DEF CountersInv

LEMMA WindowKept ==
    WindowInv /\ UNCHANGED <<rcv, seen, net, opened>> => WindowInv'
  BY DEF WindowInv

\* More datagrams do not disturb a receiver.
LEMMA WindowGrows ==
    ASSUME WindowInv, UNCHANGED <<rcv, seen, opened>>,
           \A x \in Sides : net[x] \subseteq net'[x]
    PROVE  WindowInv'
  BY DEF WindowInv, Sides, Peer

-------------------------------------------------------------------------------
\* RatchetEpoch.

LEMMA RatchetKeys ==
    ASSUME KeysInv, NEW x \in Sides, Ratchet(x)
    PROVE  KeysInv'
  <1> DEFINE k == key[x]
             r == ratchet[x]
             k2 == key'[x]
             r2 == ratchet'[x]
  <1>1. /\ k \in KeyType /\ r \in RatchetType /\ KeysAt(k, r)
        /\ x = "C" => r.pc # "set"
    BY DEF KeysInv, Sides
  <1>2. /\ key' = [key EXCEPT ![x] = k2] /\ ratchet' = [ratchet EXCEPT ![x] = r2]
        /\ table' = table /\ life' = life
    BY DEF KeysInv, Ratchet, RatchetEnc, RatchetHp, RatchetTag, RatchetRecv
  <1>3. /\ k2 \in KeyType /\ r2 \in RatchetType /\ KeysAt(k2, r2)
        /\ r2.pc = "set" => x = "S"
        /\ r.pc # "set" /\ (r2.pc = "idle" => x = "C")
        /\ k2.enc = IF r.pc = "idle" THEN k.enc + 1 ELSE k.enc
    <2>1. CASE RatchetEnc(x)
      <3>1. k2 = [k EXCEPT !.enc = @ + 1] /\ r2 = [r EXCEPT !.pc = "hp"] /\ r.pc = "idle"
        BY <2>1 DEF RatchetEnc, KeysInv
      <3> QED
        BY <1>1, <3>1 DEF KeyType, RatchetType, KeysAt
    <2>2. CASE RatchetHp(x)
      <3>1. /\ k2 = [k EXCEPT !.hp = k.enc] /\ r.pc = "hp"
            /\ r2 = [r EXCEPT !.pc = "tag", !.oldHp = k.hp]
        BY <2>2 DEF RatchetHp, KeysInv, Epoch
      <3>2. /\ k2 \in KeyType
            /\ k2.enc = k.enc /\ k2.dec = k.dec /\ k2.hp = k.enc /\ k2.tag = k.tag
        BY <1>1, <3>1 DEF KeyType
      <3>3. r2 \in RatchetType /\ r2.pc = "tag" /\ r2.oldHp = k.hp
        <4> DEFINE m == [r EXCEPT !.pc = "tag"]
        <4>1. m \in RatchetType /\ m.pc = "tag"
          BY <1>1 DEF RatchetType
        <4>2. r2 = [m EXCEPT !.oldHp = k.hp] /\ k.hp \in Int
          BY <1>1, <3>1 DEF KeyType
        <4> HIDE DEF m
        <4> QED
          BY <4>1, <4>2 DEF RatchetType
      <3> QED
        BY <1>1, <3>1, <3>2, <3>3 DEF KeyType, KeysAt
    <2>3. CASE RatchetTag(x)
      <3>1. /\ k2 = [k EXCEPT !.tag = k.enc] /\ r.pc = "tag"
            /\ r2 = [r EXCEPT !.pc = "recv", !.oldTag = k.tag]
        BY <2>3 DEF RatchetTag, KeysInv, Epoch
      <3> QED
        BY <1>1, <3>1, Zenon DEF KeyType, RatchetType, KeysAt
    <2>4. CASE RatchetRecv(x)
      <3>1. /\ k2 = [k EXCEPT !.prevDec = k.dec, !.dec = k.enc, !.prevHp = r.oldHp,
                              !.prevTag = r.oldTag]
            /\ r.pc = "recv"
            /\ r2 = IF x = "S" THEN [r EXCEPT !.pc = "set"] ELSE NoRatchet
        BY <2>4 DEF RatchetRecv, KeysInv, Epoch
      <3>2. /\ k2 \in KeyType
            /\ k2.enc = k.enc /\ k2.dec = k.enc /\ k2.hp = k.hp /\ k2.tag = k.tag
            /\ k2.prevDec = k.dec /\ k2.prevHp = r.oldHp /\ k2.prevTag = r.oldTag
        <4> DEFINE m == [k EXCEPT !.prevDec = k.dec]
                   n == [m EXCEPT !.dec = k.enc]
                   o == [n EXCEPT !.prevHp = r.oldHp]
        <4>1. /\ m \in KeyType /\ m.prevDec = k.dec
              /\ m.enc = k.enc /\ m.hp = k.hp /\ m.tag = k.tag
          BY <1>1 DEF KeyType
        <4>2. k2 = [o EXCEPT !.prevTag = r.oldTag]
          BY <3>1
        <4>3. k.enc \in Nat /\ r.oldHp \in Int /\ r.oldTag \in Int
          BY <1>1 DEF KeyType, RatchetType
        <4> HIDE DEF m
        <4>4. /\ n \in KeyType /\ n.prevDec = k.dec /\ n.dec = k.enc
              /\ n.enc = k.enc /\ n.hp = k.hp /\ n.tag = k.tag
          BY <4>1, <4>3 DEF KeyType
        <4> HIDE DEF n
        <4>5. /\ o \in KeyType /\ o.prevDec = k.dec /\ o.dec = k.enc /\ o.prevHp = r.oldHp
              /\ o.enc = k.enc /\ o.hp = k.hp /\ o.tag = k.tag
          BY <4>3, <4>4 DEF KeyType
        <4> HIDE DEF o
        <4> QED
          BY <4>2, <4>3, <4>5 DEF KeyType
      <3>3. r2 \in RatchetType /\ r2.pc = IF x = "S" THEN "set" ELSE "idle"
        BY <1>1, <3>1 DEF RatchetType, NoRatchet, Never
      <3> QED
        BY <1>1, <3>1, <3>2, <3>3 DEF KeyType, KeysAt, Sides
    <2> QED
      BY <2>1, <2>2, <2>3, <2>4 DEF Ratchet
  <1> HIDE DEF k2, r2
  <1>4. key' \in [Sides -> KeyType] /\ ratchet' \in [Sides -> RatchetType]
    BY <1>2, <1>3 DEF KeysInv
  <1>5. \A y \in Sides : KeysAt(key'[y], ratchet'[y])
    BY <1>2, <1>3 DEF KeysInv
  <1>6. ratchet'["C"].pc # "set"
    BY <1>2, <1>3 DEF KeysInv, Sides
  <1>7. life'.pc = "open" =>
          table' = 0 .. (IF ratchet'["S"].pc = "idle" THEN key'["S"].enc
                                                      ELSE key'["S"].enc - 1)
    <2>1. CASE x = "C"
      BY <1>2, <2>1 DEF KeysInv, Sides
    <2>2. CASE x = "S"
      <3>1. key'["S"] = k2 /\ ratchet'["S"] = r2 /\ r2.pc # "idle"
        BY <1>2, <1>3, <2>2 DEF KeysInv, Sides
      <3>2. life.pc = "open" => table = 0 .. (IF r.pc = "idle" THEN k.enc ELSE k.enc - 1)
        BY <2>2 DEF KeysInv
      <3>3. (IF r.pc = "idle" THEN k.enc ELSE k.enc - 1) = k2.enc - 1
        BY <1>1, <1>3 DEF KeyType
      <3> QED
        BY <1>2, <3>1, <3>2, <3>3
    <2> QED
      BY <2>1, <2>2 DEF Sides
  <1>8. life' \in LifeType
    BY <1>2 DEF KeysInv
  <1> QED
    BY <1>4, <1>5, <1>6, <1>7, <1>8, Zenon DEF KeysInv

LEMMA RatchetSetKeys == KeysInv /\ RatchetSet => KeysInv'
  <1> SUFFICES ASSUME KeysInv, RatchetSet PROVE KeysInv'
    OBVIOUS
  <1> DEFINE k == key["S"]
  <1>1. /\ k \in KeyType /\ KeysAt(k, ratchet["S"]) /\ ratchet["S"].pc = "set"
        /\ ratchet' = [ratchet EXCEPT !["S"] = NoRatchet]
        /\ key' = key /\ life' = life /\ table' = table \cup {k.tag}
    BY DEF KeysInv, RatchetSet, Sides
  <1>2. NoRatchet \in RatchetType /\ KeysAt(k, NoRatchet)
    BY <1>1 DEF NoRatchet, RatchetType, KeysAt, Never
  <1>3. life.pc = "open" => table' = 0 .. k.enc
    <2>1. k.tag = k.enc /\ k.enc \in Nat
      BY <1>1 DEF KeysAt, KeyType
    <2>2. life.pc = "open" => table = 0 .. (k.enc - 1)
      BY <1>1 DEF KeysInv
    <2> QED
      BY <1>1, <2>1, <2>2
  <1>4. NoRatchet.pc = "idle"
    BY DEF NoRatchet
  <1> QED
    BY <1>1, <1>2, <1>3, <1>4 DEF KeysInv, Sides

\* Close only makes the table smaller once the session is no longer open.
LEMMA CloseKeys == KeysInv /\ Close => KeysInv'
  <1> SUFFICES ASSUME KeysInv, Close PROVE KeysInv'
    OBVIOUS
  <1>1. key["S"].tag \in Int /\ key["S"].prevTag \in Int
    BY DEF KeysInv, KeyType, Sides
  <1>2. UNCHANGED <<key, ratchet>>
    BY DEF Close, CloseTag, UnregisterTest, UnregisterClear, ClosePrevTag, CloseDone, Unregister
  <1>3. life' \in LifeType /\ life'.pc # "open"
    <2>1. CASE CloseTag \/ ClosePrevTag
      <3>1. \E t \in Int, b \in BOOLEAN : life' = [pc |-> "test", tag |-> t, last |-> b]
        BY <1>1, <2>1, Zenon DEF CloseTag, ClosePrevTag, Unregister
      <3> QED
        BY <3>1 DEF LifeType
    <2>2. CASE UnregisterTest \/ UnregisterClear \/ CloseDone
      BY <2>2 DEF UnregisterTest, UnregisterClear, CloseDone, LifeType, KeysInv
    <2> QED
      BY <2>1, <2>2 DEF Close
  <1> QED
    BY <1>2, <1>3 DEF KeysInv

-------------------------------------------------------------------------------
\* Sending.

\* The step that puts a datagram of a fresh counter on the network.
LEMMA NewDatagram ==
    ASSUME CountersInv, NEW x \in Sides, NEW d,
           net' = [net EXCEPT ![x] = @ \cup {d}],
           d.ctr \in Nat, d.tag \in Nat, d.ctr < sendCtr'[x],
           \A e \in net[x] : e.ctr # d.ctr,
           sendCtr' \in [Sides -> Nat], \A y \in Sides : sendCtr[y] <= sendCtr'[y],
           \A y \in Sides : sendCtr'[y] <= MaxCtr[y],
           snd' \in SndType, snd'.pc = "idle" \/ (snd' = snd /\ x = "C")
    PROVE  CountersInv'
  <1>1. /\ DOMAIN net' = Sides /\ net'[x] = net[x] \cup {d}
        /\ \A y \in Sides : y # x => net'[y] = net[y]
    BY DEF CountersInv
  <1>2. \A y \in Sides : \A e \in net'[y] :
          e.ctr \in Nat /\ e.ctr < sendCtr'[y] /\ e.tag \in Nat
    <2> TAKE y \in Sides
    <2> TAKE e \in net'[y]
    <2>1. CASE e \in net[y]
      <3>1. e.ctr \in Nat /\ e.ctr < sendCtr[y] /\ e.tag \in Nat /\ sendCtr[y] \in Nat
        BY <2>1 DEF CountersInv
      <3> QED
        BY <3>1
    <2>2. CASE e \notin net[y]
      BY <1>1, <2>2
    <2> QED
      BY <2>1, <2>2
  <1>3. \A y \in Sides : \A e, f \in net'[y] : e.ctr = f.ctr => e = f
    BY <1>1 DEF CountersInv
  <1>4. snd'.pc # "idle" => /\ snd'.ctr \in Nat /\ snd'.ctr < sendCtr'["S"]
                            /\ \A e \in net'["S"] : e.ctr # snd'.ctr
    BY <1>1 DEF CountersInv, Sides
  <1>5. snd'.pc \in {"enc", "hp"} => snd'.tag \in Nat
    BY DEF CountersInv
  <1> QED
    BY <1>1, <1>2, <1>3, <1>4, <1>5 DEF CountersInv

LEMMA ClientSendCounts == IInv /\ ClientSend => CountersInv'
  <1> SUFFICES ASSUME IInv, ClientSend PROVE CountersInv'
    OBVIOUS
  <1> DEFINE d == Datagram("C", key["C"].tag, key["C"].enc, key["C"].hp, sendCtr["C"])
  <1>1. CountersInv /\ key["C"].tag \in Nat /\ "C" \in Sides
    BY DEF IInv, KeysInv, KeyType, Sides
  <1>2. d.ctr = sendCtr["C"] /\ d.tag = key["C"].tag
    BY DEF Datagram
  <1> HIDE DEF d
  <1>3. /\ net' = [net EXCEPT !["C"] = @ \cup {d}]
        /\ sendCtr' = [sendCtr EXCEPT !["C"] = @ + 1] /\ sendCtr["C"] < MaxCtr["C"]
        /\ snd' = snd
    BY DEF ClientSend, d
  <1>4. /\ sendCtr' \in [Sides -> Nat] /\ d.ctr \in Nat /\ d.ctr < sendCtr'["C"]
        /\ \A y \in Sides : sendCtr[y] <= sendCtr'[y]
        /\ \A y \in Sides : sendCtr'[y] <= MaxCtr[y]
    BY <1>1, <1>2, <1>3, RekeyAssumption DEF CountersInv, Sides
  <1>5. \A e \in net["C"] : e.ctr # d.ctr
    BY <1>1, <1>2 DEF CountersInv
  <1>6. snd' \in SndType
    BY <1>1, <1>3 DEF CountersInv
  <1> QED
    BY <1>1, <1>2, <1>3, <1>4, <1>5, <1>6, NewDatagram, Zenon

LEMMA SendCounts == IInv /\ (SendCtr \/ SendTag \/ SendEnc \/ SendHp) => CountersInv'
  <1> SUFFICES ASSUME IInv, SendCtr \/ SendTag \/ SendEnc \/ SendHp PROVE CountersInv'
    OBVIOUS
  <1>1. /\ CountersInv /\ key["S"].tag \in Nat /\ key["S"].enc \in Nat /\ "S" \in Sides
        /\ snd \in SndType
    BY DEF IInv, KeysInv, KeyType, Sides, CountersInv
  <1>2. CASE SendCtr
    <2>1. /\ snd' = [pc |-> "tag", tag |-> Never, enc |-> Never, ctr |-> sendCtr["S"]]
          /\ sendCtr' = [sendCtr EXCEPT !["S"] = @ + 1] /\ sendCtr["S"] < MaxCtr["S"]
          /\ net' = net
      BY <1>2, Zenon DEF SendCtr, NoSnd
    <2>2. snd' \in SndType
      BY <1>1, <2>1 DEF SndType, Never, CountersInv
    <2> QED
      BY <1>1, <2>1, <2>2, RekeyAssumption DEF CountersInv, Sides
  <1>3. CASE SendTag
    <2>1. /\ snd' = [snd EXCEPT !.pc = "enc", !.tag = key["S"].tag] /\ snd.pc = "tag"
          /\ sendCtr' = sendCtr /\ net' = net
      BY <1>3 DEF SendTag
    <2>2. snd' \in SndType /\ snd'.ctr = snd.ctr /\ snd'.tag \in Nat
      <3> DEFINE m == [snd EXCEPT !.pc = "enc"]
      <3>1. m \in SndType /\ m.ctr = snd.ctr /\ snd' = [m EXCEPT !.tag = key["S"].tag]
        BY <1>1, <2>1 DEF SndType
      <3> HIDE DEF m
      <3> QED
        BY <1>1, <3>1 DEF SndType
    <2> QED
      BY <1>1, <2>1, <2>2 DEF CountersInv
  <1>4. CASE SendEnc
    <2>1. /\ snd' = [snd EXCEPT !.pc = "hp", !.enc = key["S"].enc] /\ snd.pc = "enc"
          /\ sendCtr' = sendCtr /\ net' = net
      BY <1>4 DEF SendEnc
    <2>2. snd' \in SndType /\ snd'.ctr = snd.ctr /\ snd'.tag = snd.tag
      <3> DEFINE m == [snd EXCEPT !.pc = "hp"]
      <3>1. /\ m \in SndType /\ m.ctr = snd.ctr /\ m.tag = snd.tag
            /\ snd' = [m EXCEPT !.enc = key["S"].enc]
        BY <1>1, <2>1 DEF SndType
      <3> HIDE DEF m
      <3> QED
        BY <1>1, <3>1 DEF SndType
    <2> QED
      BY <1>1, <2>1, <2>2 DEF CountersInv
  <1>5. CASE SendHp
    <2> DEFINE d == Datagram("S", snd.tag, snd.enc, key["S"].hp, snd.ctr)
    <2>1. d.ctr = snd.ctr /\ d.tag = snd.tag
      BY DEF Datagram
    <2> HIDE DEF d
    <2>2. /\ net' = [net EXCEPT !["S"] = @ \cup {d}] /\ snd.pc = "hp"
          /\ sendCtr' = sendCtr /\ snd' = NoSnd
      BY <1>5 DEF SendHp, d
    <2>3. /\ d.ctr \in Nat /\ d.tag \in Nat /\ d.ctr < sendCtr'["S"]
          /\ \A e \in net["S"] : e.ctr # d.ctr
      BY <1>1, <2>1, <2>2 DEF CountersInv
    <2>4. /\ sendCtr' \in [Sides -> Nat] /\ \A y \in Sides : sendCtr[y] <= sendCtr'[y]
          /\ \A y \in Sides : sendCtr'[y] <= MaxCtr[y]
      BY <1>1, <2>2 DEF CountersInv
    <2>5. snd' \in SndType /\ snd'.pc = "idle"
      BY <2>2 DEF SndType, NoSnd, Never
    <2> QED
      BY <1>1, <2>2, <2>3, <2>4, <2>5, NewDatagram, Zenon
  <1> QED
    BY <1>2, <1>3, <1>4, <1>5

\* Send only adds to what is on the network.
LEMMA SendAdds ==
    ASSUME CountersInv, ClientSend \/ SendCtr \/ SendTag \/ SendEnc \/ SendHp
    PROVE  /\ \A x \in Sides : net[x] \subseteq net'[x]
           /\ UNCHANGED <<key, ratchet, table, life, rcv, seen, opened>>
  BY DEF CountersInv, ClientSend, SendCtr, SendTag, SendEnc, SendHp

-------------------------------------------------------------------------------
\* Receiving.

\* The receiver of side x takes up d, or goes on with it, or puts it aside.
LEMMA ReceiverMoves ==
    ASSUME WindowInv, NEW x \in Sides, NEW r, rcv' = [rcv EXCEPT ![x] = r],
           r.pc # "idle" => r.d \in net[Peer(x)],
           UNCHANGED <<seen, net, opened>>
    PROVE  WindowInv'
  BY DEF WindowInv

LEMMA RecvWindow ==
    ASSUME WindowInv,
           \/ \E d \in net["S"] : ClientRecv(d)
           \/ \E d \in net["C"] : ServerRecv(d)
           \/ ServerLookup
    PROVE  WindowInv'
  <1> USE DEF Sides
  <1>1. CASE \E d \in net["S"] : ClientRecv(d)
    <2>1. PICK d \in net["S"] : ClientRecv(d)
      BY <1>1
    <2>2. CASE rcv' = rcv
      BY <2>1, <2>2, WindowKept DEF ClientRecv
    <2>3. CASE rcv' # rcv
      <3>1. PICK p : rcv' = [rcv EXCEPT !["C"] = [pc |-> "keys", d |-> d, prev |-> p]]
        BY <2>1, <2>3 DEF ClientRecv
      <3> QED
        BY <2>1, <3>1, ReceiverMoves, Zenon DEF ClientRecv, Peer
    <2> QED
      BY <2>2, <2>3
  <1>2. CASE \E d \in net["C"] : ServerRecv(d)
    <2>1. PICK d \in net["C"] : ServerRecv(d)
      BY <1>2
    <2>2. PICK q, p : rcv' = [rcv EXCEPT !["S"] = [pc |-> q, d |-> d, prev |-> p]]
      BY <2>1, Zenon DEF ServerRecv
    <2> QED
      BY <2>1, <2>2, ReceiverMoves, Zenon DEF ServerRecv, Peer
  <1>3. CASE ServerLookup
    <2>1. rcv["S"].d \in net["C"]
      BY <1>3 DEF ServerLookup, WindowInv, Peer
    <2>2. PICK r : rcv' = [rcv EXCEPT !["S"] = r] /\ (r.pc # "idle" => r.d = rcv["S"].d)
      BY <1>3 DEF ServerLookup, NoRcv
    <2> QED
      BY <1>3, <2>1, <2>2, ReceiverMoves, Zenon DEF ServerLookup, Peer
  <1> QED
    BY <1>1, <1>2, <1>3

\* A counter is delivered when the window has not seen it, and is seen from then on.
LEMMA OpenWindow ==
    ASSUME CountersInv, WindowInv, NEW x \in Sides, OpenDatagram(x)
    PROVE  WindowInv'
  <1> DEFINE c == rcv[x].d.ctr
             r == [pc |-> "idle", d |-> Never, prev |-> FALSE]
             Ctrs(y) == 0 .. (MaxCtr[Peer(y)] - 1)
  <1>1. rcv' = [rcv EXCEPT ![x] = r] /\ net' = net
    BY DEF OpenDatagram, NoRcv
  <1>2. CASE UNCHANGED <<seen, opened>>
    BY <1>1, <1>2, ReceiverMoves, Zenon
  <1>3. CASE /\ c \notin seen[x] /\ seen' = [seen EXCEPT ![x] = @ \cup {c}]
             /\ opened' = [opened EXCEPT ![x][c] = @ + 1]
    <2>1. c \in Ctrs(x)
      <3>1. Peer(x) \in Sides /\ rcv[x].d \in net[Peer(x)]
        BY DEF OpenDatagram, WindowInv, Sides, Peer
      <3>2. c \in Nat /\ c < sendCtr[Peer(x)] /\ sendCtr[Peer(x)] <= MaxCtr[Peer(x)]
            /\ sendCtr[Peer(x)] \in Nat
        BY <3>1 DEF CountersInv
      <3>3. MaxCtr[Peer(x)] \in Nat
        BY <3>1, RekeyAssumption DEF Sides
      <3> QED
        BY <3>2, <3>3
    <2>2. opened[x] \in [Ctrs(x) -> {0, 1}] /\ opened[x][c] = 0
      BY <1>3, <2>1, Zenon DEF WindowInv
    <2>3. opened'[x] = [opened[x] EXCEPT ![c] = 1]
      BY <1>3, <2>2 DEF WindowInv
    <2>4. /\ opened'[x] \in [Ctrs(x) -> {0, 1}]
          /\ \A b \in Ctrs(x) : opened'[x][b] = 1 => b = c \/ opened[x][b] = 1
      BY <2>1, <2>2, <2>3
    <2>5. seen'[x] = seen[x] \cup {c} /\ rcv'[x].pc = "idle"
      BY <1>1, <1>3 DEF WindowInv
    <2>6. \A y \in Sides : y # x => /\ opened'[y] = opened[y] /\ seen'[y] = seen[y]
                                    /\ rcv'[y] = rcv[y]
      BY <1>1, <1>3 DEF WindowInv
    <2>7. DOMAIN rcv' = Sides /\ DOMAIN seen' = Sides /\ DOMAIN opened' = Sides
      BY <1>1, <1>3 DEF WindowInv
    <2>8. ASSUME NEW y \in Sides
          PROVE  /\ opened'[y] \in [Ctrs(y) -> {0, 1}]
                 /\ rcv'[y].pc # "idle" => rcv'[y].d \in net'[Peer(y)]
                 /\ \A b \in Ctrs(y) : opened'[y][b] = 1 => b \in seen'[y]
      <3>1. CASE y = x
        <4>1. \A b \in Ctrs(x) : opened[x][b] = 1 => b \in seen[x]
          BY DEF WindowInv
        <4> HIDE DEF c, Ctrs
        <4> QED
          BY <2>4, <2>5, <3>1, <4>1
      <3>2. CASE y # x
        BY <1>1, <2>6, <3>2 DEF WindowInv
      <3> QED
        BY <3>1, <3>2
    <2> QED
      BY <2>7, <2>8 DEF WindowInv
  <1> QED
    BY <1>2, <1>3 DEF OpenDatagram

-------------------------------------------------------------------------------
LEMMA IInvStep == IInv /\ [Next]_vars => IInv'
  <1> SUFFICES ASSUME IInv, [Next]_vars PROVE KeysInv' /\ CountersInv' /\ WindowInv'
    BY DEF IInv
  <1> USE DEF IInv
  <1>1. ASSUME NEW x \in Sides, Ratchet(x) PROVE KeysInv' /\ CountersInv' /\ WindowInv'
    <2>1. UNCHANGED <<sendCtr, snd, net, rcv, seen, opened>>
      BY <1>1 DEF Ratchet, RatchetEnc, RatchetHp, RatchetTag, RatchetRecv
    <2> QED
      BY <1>1, <2>1, RatchetKeys, CountersKept, WindowKept
  <1>2. ASSUME NEW x \in Sides, OpenDatagram(x)
        PROVE  KeysInv' /\ CountersInv' /\ WindowInv'
    <2>1. UNCHANGED <<key, ratchet, table, life, sendCtr, snd, net>>
      BY <1>2 DEF OpenDatagram
    <2> QED
      BY <1>2, <2>1, KeysKept, CountersKept, OpenWindow
  <1>3. CASE RatchetSet \/ Close
    <2>1. UNCHANGED <<sendCtr, snd, net, rcv, seen, opened>>
      BY <1>3 DEF RatchetSet, Close, CloseTag, UnregisterTest, UnregisterClear, ClosePrevTag,
                  CloseDone, Unregister
    <2> QED
      BY <1>3, <2>1, RatchetSetKeys, CloseKeys, CountersKept, WindowKept
  <1>4. CASE ClientSend \/ SendCtr \/ SendTag \/ SendEnc \/ SendHp
    BY <1>4, SendAdds, KeysKept, WindowGrows, ClientSendCounts, SendCounts
  <1>5. CASE \/ \E d \in net["S"] : ClientRecv(d)
             \/ \E d \in net["C"] : ServerRecv(d)
             \/ ServerLookup
    <2>1. UNCHANGED <<key, ratchet, table, life, sendCtr, snd, net>>
      BY <1>5 DEF ClientRecv, ServerRecv, ServerLookup
    <2> QED
      BY <1>5, <2>1, KeysKept, CountersKept, RecvWindow
  <1>6. CASE OtherSessionUsed \/ UNCHANGED vars
    <2>1. UNCHANGED <<key, ratchet, table, life, sendCtr, snd, net, rcv, seen, opened>>
      BY <1>6 DEF OtherSessionUsed, vars
    <2> QED
      BY <2>1, KeysKept, CountersKept, WindowKept
  <1> QED
    BY <1>1, <1>2, <1>3, <1>4, <1>5, <1>6 DEF Next

LEMMA IInvAlways == Spec => []IInv
  BY IInvInit, IInvStep, PTL DEF Spec

\* No nonce is used twice under one key, whatever the interleaving of the server's
\* lock-free Send with RatchetEpoch (udp.go): a counter belongs to one datagram of a
\* side, in whichever epoch.
THEOREM NoncesOnce == Spec => []NonceOncePerKey
  <1>1. IInv => NonceOncePerKey
    BY DEF IInv, CountersInv, NonceOncePerKey
  <1> QED
    BY <1>1, IInvAlways, PTL

\* One replay window serves both epochs' keys: a counter that was delivered is in it,
\* so no datagram is delivered twice, with one epoch's keys or with two.
THEOREM OncePerCounter == Spec => []DeliveredOnceAcrossEpochs
  <1>1. IInv => DeliveredOnceAcrossEpochs
    <2> SUFFICES ASSUME IInv, NEW x \in Sides, NEW c \in DOMAIN opened[x]
                 PROVE  opened[x][c] <= 1
      BY DEF DeliveredOnceAcrossEpochs
    <2>1. opened[x][c] \in {0, 1}
      BY Zenon DEF IInv, WindowInv
    <2> QED
      BY <2>1
  <1> QED
    BY <1>1, IInvAlways, PTL

\* Between ratchets a side has the keys, the header key and the tag of exactly two
\* epochs, and the server's table leads to it by both tags: a whole datagram of
\* either epoch opens (RatchetEpoch, Recv, Decrypt).
THEOREM PreviousEpochOpens == Spec => []PreviousEpochStillOpens
  <1>1. IInv => PreviousEpochStillOpens
    <2> SUFFICES ASSUME IInv, NEW x \in Sides, NEW d \in net[Peer(x)],
                        Idle(x), life.pc = "open",
                        NEW e \in {Epoch(x), Epoch(x) - 1}, Whole(d, e)
                 PROVE  WouldOpen(x, d)
      BY DEF PreviousEpochStillOpens
    <2> DEFINE k == key[x]
    <2>1. /\ k.enc \in Nat /\ k.dec = k.enc /\ k.hp = k.enc /\ k.tag = k.enc
          /\ k.prevDec = k.enc - 1 /\ k.prevHp = k.enc - 1 /\ k.prevTag = k.enc - 1
      BY DEF IInv, KeysInv, KeysAt, KeyType, Idle
    <2>2. x = "S" => table = 0 .. k.enc
      BY DEF IInv, KeysInv, Idle
    <2>3. d.tag = e /\ d.enc = e /\ d.hp = e /\ e \in {k.enc, k.enc - 1}
      BY DEF Whole, Epoch
    <2>4. e \in Nat
      <3>1. d.tag \in Nat
        BY DEF IInv, CountersInv, Sides, Peer
      <3> QED
        BY <2>3, <3>1
    <2> HIDE DEF k
    <2>5. x = "S" => d.tag \in table
      BY <2>1, <2>2, <2>3, <2>4
    <2>6. CASE e = k.enc
      BY <2>1, <2>3, <2>5, <2>6 DEF WouldOpen, RecvKeys, k, Sides
    <2>7. CASE e = k.enc - 1
      BY <2>1, <2>3, <2>4, <2>5, <2>7 DEF WouldOpen, RecvKeys, k, Sides, Never
    <2> QED
      BY <2>3, <2>6, <2>7
  <1> QED
    BY <1>1, IInvAlways, PTL
===============================================================================
