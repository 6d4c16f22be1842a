------------------------------- MODULE Packets -------------------------------
(***************************************************************************)
(* What the server computes on packets and bytes (cmd/server/mss.go,       *)
(* tun_router.go, v6_sink.go, obsidian/ipv6_reject.go, handshake.go): MSS  *)
(* options rewritten with their checksums, downlink packets cut to the     *)
(* client's MTU, IPv6 packets answered locally, and the scan for a hello   *)
(* behind junk.  Sizes are scaled: a byte is a digit of base Base, a word  *)
(* has two of them, and headers and MTUs are small numbers.                *)
(***************************************************************************)
EXTENDS Integers, Sequences, SequencesExt, FiniteSets

CONSTANTS Base,                \* values of a byte (256)
          ExtMSS,              \* externalMSS4 and externalMSS6
          MinMTU, MaxTunMTU,   \* minClientMTU (1280), maxTunnelMTU (1420)
          Configured,          \* values of the configured MTU to check
          Unit,                \* fragments start at multiples of it (8)
          SeqSpace, IdSpace,       \* 2^32, 2^16
          MaxLen,              \* bound: payload of a packet
          Burst,               \* of the RejectLimiter
          Overhead,            \* helloFrameOverhead (28)
          MaxScan, MaxPayload, \* ReadHelloFrame's limits
          JunkCount, JunkMin, JunkMax

VARIABLES tunMTU,  \* tunRouter.tunnelMTU
          normalize,  \* tunRouter.normalizeMSS, which never changes
          mtu,     \* routedSession.mtu
          tokens,  \* RejectLimiter.tokens
          last     \* the operation last done, with its input and result, or NoOp

vars == <<tunMTU, normalize, mtu, tokens, last>>

NoOp == [op |-> "none"]

Word == Base * Base
IpLen(v6) == IF v6 THEN 2 ELSE 1
TcpLen == 1
MinOf(a, b) == IF a < b THEN a ELSE b
MaxOf(a, b) == IF a < b THEN b ELSE a

tunnelMTUFor(configured) ==
    IF configured <= 0 \/ configured > MaxTunMTU THEN MaxTunMTU ELSE configured

-----------------------------------------------------------------------------
\* Checksums.  Offsets count from 0 as in the code; the checksum is at 0 and 1.

onesSum(b) ==
    LET padded == IF Len(b) % 2 = 1 THEN Append(b, 0) ELSE b
    IN  FoldLeft(+, 0, [i \in 1 .. Len(padded) \div 2 |->
                            padded[2 * i - 1] * Base + padded[2 * i]])

RECURSIVE foldSum(_)
foldSum(sum) == IF sum < Word THEN sum ELSE foldSum((sum % Word) + (sum \div Word))

Not(w) == Word - 1 - w
WordAt(b, i)   == b[i + 1] * Base + b[i + 2]
Put(b, i, w)   == [b EXCEPT ![i + 1] = w \div Base, ![i + 2] = w % Base]
Cut(b, from, to) == SubSeq(b, from + 1, to)

setTCPChecksum(b, pseudo) == Put(b, 0, Not(foldSum(pseudo + onesSum(Put(b, 0, 0)))))

\* A receiver adds everything up and wants all ones.
Valid(b, pseudo) == foldSum(pseudo + onesSum(b)) = Word - 1

\* The words, if the value always began at an even offset.
WordsTouchedEven(idx) == <<idx, idx + 2>>
WordsTouched(idx) == <<idx - (idx % 2), (idx + 3) - ((idx + 3) % 2)>>

\* RFC 1624: HC' = ~(~HC + ~m + m').
setMSSValue(b, idx, mss) ==
    LET w   == WordsTouched(idx)
        new == Put(b, idx, mss)
        m    == foldSum(onesSum(Cut(b, w[1], w[2])))
        mNew == foldSum(onesSum(Cut(new, w[1], w[2])))
    IN  Put(new, 0, Not(foldSum(Not(WordAt(b, 0)) + Not(m) + mNew)))

\* Options before the MSS value: "nop" has one byte, "pair" two; "end" ends the list.
RECURSIVE OptionAt(_, _)
OptionAt(opts, at) ==
    CASE opts = << >> \/ Head(opts) = "end" -> -1
      [] Head(opts) = "mss"  -> at
      [] Head(opts) = "nop"  -> OptionAt(Tail(opts), at + 1)
      [] Head(opts) = "pair" -> OptionAt(Tail(opts), at + 2)
mssOptionValue(opts) == OptionAt(opts, 2)

-----------------------------------------------------------------------------
\* SYNs of the client and to the client.

Options == {<<"mss">>, <<"nop", "mss">>, <<"pair", "mss">>, <<"nop", "nop", "mss">>,
            <<"pair">>, <<"end", "mss">>}

Syns == {[v6 |-> v, opts |-> o, pseudo |-> p, tcp |-> setTCPChecksum(<<0, 0>> \o d, p)] :
            v \in BOOLEAN, o \in Options, p \in {0, Word - 1}, d \in [1 .. 4 -> 0 .. Base - 1]}

\* A session learns its client's MTU from the SYN before raising the SYN's MSS.
normalizeUplinkSYN(syn) ==
    LET idx == mssOptionValue(syn.opts)
        mss == WordAt(syn.tcp, idx)
    IN  IF idx < 0 THEN [mtu |-> 0, tcp |-> syn.tcp]
        ELSE [mtu |-> mss + IpLen(syn.v6) + TcpLen,
              tcp |-> IF mss < ExtMSS THEN setMSSValue(syn.tcp, idx, ExtMSS) ELSE syn.tcp]

UplinkSYN ==
    \E syn \in Syns :
        LET r == IF normalize THEN normalizeUplinkSYN(syn) ELSE [mtu |-> 0, tcp |-> syn.tcp] IN
        /\ mtu' = IF r.mtu = 0 THEN mtu ELSE MinOf(MaxOf(r.mtu, MinMTU), tunMTU)
        /\ last' = [op |-> "syn", pseudo |-> syn.pseudo, tcp |-> r.tcp]
        /\ UNCHANGED <<tunMTU, normalize, tokens>>

clampDownlinkSYN(syn, limitMTU) ==
    LET idx   == mssOptionValue(syn.opts)
        limit == limitMTU - IpLen(syn.v6) - TcpLen
    IN  IF idx < 0 \/ limit <= 0 \/ WordAt(syn.tcp, idx) <= limit THEN syn.tcp
        ELSE setMSSValue(syn.tcp, idx, limit)

DownlinkSYN ==
    \E syn \in Syns :
        /\ last' = [op |-> "syn", pseudo |-> syn.pseudo,
                    tcp |-> IF normalize THEN clampDownlinkSYN(syn, mtu) ELSE syn.tcp]
        /\ UNCHANGED <<tunMTU, normalize, mtu, tokens>>

-----------------------------------------------------------------------------
\* Downlink packets: run and sendOversized.  The payload's bytes are their positions.

Large == [kind : {"tcp", "udp"}, v6 : BOOLEAN, len : 1 .. MaxLen, seq : {0, SeqSpace - 3},
          id : {IdSpace - 1}, end : BOOLEAN,              \* end: FIN or PSH is set
          base : {0, 2}, more : BOOLEAN]                \* fragment offset and MF

HdrLen(p) == IpLen(p.v6) + (IF p.kind = "tcp" THEN TcpLen ELSE 0)
\* A fragment, or a packet that is not TCP, is not located.
locateTCP(p) == p.kind = "tcp" /\ (p.v6 \/ (p.base = 0 /\ ~p.more))

\* The pieces of the payload 0 .. n-1 in steps of chunk: pairs of first byte and end.
Pieces(n, chunk) ==
    [i \in 1 .. (n + chunk - 1) \div chunk |-> <<(i - 1) * chunk, MinOf(i * chunk, n)>>]

splitTCP(p, maxLen) ==
    LET chunk == maxLen - HdrLen(p)
        ps    == Pieces(p.len, chunk)
    IN  IF ~locateTCP(p) \/ chunk <= 0 \/ p.len <= chunk THEN << >>
        ELSE [i \in DOMAIN ps |->
                 [p EXCEPT !.len = ps[i][2] - ps[i][1],
                           !.seq = (p.seq + ps[i][1]) % SeqSpace,
                           !.id  = IF p.v6 THEN p.id ELSE (p.id + i - 1) % IdSpace,
                           !.end = p.end /\ ps[i][2] = p.len]]

\* A fragment's share without rounding it to whole units.
PerUnrounded(maxLen, ihl) == maxLen - ihl
Per(maxLen, ihl) == ((maxLen - ihl) \div Unit) * Unit

\* What the network layer sees as the payload includes the TCP header.
fragmentIPv4(p, maxLen) ==
    LET n   == p.len + HdrLen(p) - 1
        per == Per(maxLen, 1)
        ps  == Pieces(n, per)
    IN  IF p.v6 \/ n + 1 <= maxLen \/ per <= 0 THEN << >>
        ELSE [i \in DOMAIN ps |->
                 [p EXCEPT !.kind = "udp", !.len = ps[i][2] - ps[i][1],
                           !.base = (p.base * Unit + ps[i][1]) \div Unit,
                           !.more = p.more \/ ps[i][2] # n]]

Downlink ==
    \E p \in Large :
        LET fits  == ~normalize \/ p.len + HdrLen(p) <= mtu
            split == splitTCP(p, mtu)
        IN  /\ p.v6 => p.base = 0 /\ ~p.more
            /\ last' = [op |-> "down", in |-> p,
                        how |-> IF fits THEN "whole" ELSE IF split # << >> THEN "split" ELSE "frag",
                        out |-> IF fits THEN <<p>>
                                ELSE IF split # << >> THEN split ELSE fragmentIPv4(p, mtu)]
            /\ UNCHANGED <<tunMTU, normalize, mtu, tokens>>

-----------------------------------------------------------------------------
\* IPv6 packets of a client while the server has no IPv6: clientSink.Write.

NoReply == [proto |-> "none"]
Packets6 == [proto : {"tcp", "udp", "icmp", "icmpError"}, src : {"host", "multicast", "zero"},
             dst : {"site", "multicast", "zero"}, ext : 0 .. 2,        \* extension headers
             short : BOOLEAN,                                  \* cut inside a header
             flags : SUBSET {"SYN", "FIN", "RST", "ACK"},
             seq : {SeqSpace - 1}, ack : {5}, len : {0, 1}]

buildTCPReset(p) ==
    LET segLen == p.len + Cardinality(p.flags \cap {"SYN", "FIN"})
        acked  == "ACK" \in p.flags
    IN  IF p.short \/ "RST" \in p.flags THEN NoReply
        ELSE [p EXCEPT !.src = p.dst, !.dst = p.src, !.ext = 0, !.len = 0,
                       !.flags = IF acked THEN {"RST"} ELSE {"RST", "ACK"},
                       !.seq = IF acked THEN p.ack ELSE 0,
                       !.ack = IF acked THEN 0 ELSE (p.seq + segLen) % SeqSpace]

\* A reject that would answer errors as well.
AnswersErrors(p) == FALSE
NeverAnswered(p) == p.proto = "icmpError" /\ ~p.short

BuildIPv6Reject(p) ==
    CASE p.proto = "none" \/ p.dst = "multicast" \/ p.src \in {"multicast", "zero"} -> NoReply
      [] p.short /\ p.ext > 0 -> NoReply
      [] p.proto = "tcp"      -> buildTCPReset(p)
      [] NeverAnswered(p)     -> NoReply
      [] OTHER -> [p EXCEPT !.proto = "icmpError", !.src = p.dst, !.dst = p.src,
                            !.ext = 0, !.short = FALSE, !.flags = {}]

clientSink ==
    \E p \in Packets6 :
        LET reply == BuildIPv6Reject(p)
            sent  == reply # NoReply /\ tokens > 0
        IN  /\ p.proto # "tcp" => p.flags = {}
            /\ tokens' = IF sent THEN tokens - 1 ELSE tokens
            /\ last' = [op |-> "reject", in |-> p, out |-> IF sent THEN reply ELSE NoReply]
            /\ UNCHANGED <<tunMTU, normalize, mtu>>

RejectLimiterRefills ==
    tokens < Burst /\ tokens' = tokens + 1 /\ UNCHANGED <<tunMTU, normalize, mtu, last>>

-----------------------------------------------------------------------------
\* The hello frame behind its junk train.

BuildJunkTrain == {FoldLeft(LAMBDA n, size : n + 4 + size, 0, sizes) :
                       sizes \in UNION {[1 .. n -> JunkMin .. JunkMax] : n \in 1 .. JunkCount}}

\* A scan that would give up one byte early.
GivesUpEarly(scanned) == scanned >= MaxScan - 1
GivesUp(scanned) == scanned >= MaxScan

\* scanned bytes are read and the last Overhead of them are compared.  The frame
\* starts after junk; the stream ends after avail bytes.
RECURSIVE ScanFrom(_, _, _, _)
ScanFrom(junk, payload, avail, scanned) ==
    CASE scanned > avail -> [found |-> FALSE, read |-> avail]
      [] scanned - Overhead = junk /\ payload > MaxPayload -> [found |-> FALSE, read |-> scanned]
      [] scanned - Overhead = junk /\ payload <= MaxPayload ->
             IF scanned + payload > avail THEN [found |-> FALSE, read |-> avail]
             ELSE [found |-> TRUE, read |-> scanned + payload]
      [] scanned - Overhead # junk /\ GivesUp(scanned) -> [found |-> FALSE, read |-> scanned]
      [] OTHER -> ScanFrom(junk, payload, avail, scanned + 1)
ReadHelloFrame(junk, payload, avail) == ScanFrom(junk, payload, avail, Overhead)

ReadHello ==
    \E junk \in {0} \cup BuildJunkTrain, payload \in 0 .. MaxPayload + 1, missing \in 0 .. 2,
       extra \in 0 .. 2 :
        LET avail == junk + Overhead + payload + extra - missing IN
        /\ last' = [op |-> "hello", junk |-> junk, payload |-> payload, avail |-> avail,
                    res |-> ReadHelloFrame(junk, payload, avail)]
        /\ UNCHANGED <<tunMTU, normalize, mtu, tokens>>

-----------------------------------------------------------------------------
Init ==
    /\ tunMTU \in {tunnelMTUFor(c) : c \in Configured} /\ normalize \in BOOLEAN
    /\ mtu = tunMTU /\ tokens = Burst /\ last = NoOp

\* One operation at a time; Done forgets it.
Done == last # NoOp /\ last' = NoOp /\ UNCHANGED <<tunMTU, normalize, mtu, tokens>>
Next ==
    \/ last = NoOp /\ (\/ UplinkSYN \/ DownlinkSYN \/ Downlink \/ clientSink
                       \/ RejectLimiterRefills \/ ReadHello)
    \/ Done
Spec == Init /\ [][Next]_vars

-----------------------------------------------------------------------------
\* A SYN whose MSS was raised or lowered still has a checksum its receiver accepts, at
\* an even and at an odd offset of the option (setMSSValue's incremental update).
ChecksumStaysValid == last.op = "syn" => Valid(last.tcp, last.pseudo)

\* Whatever is queued for the client fits the MTU its last SYN implied, unless MSS
\* normalization is off, and puts the packet together again: segments cover the stream
\* without gap or overlap across the wrap of the sequence number and only the last ends
\* it; fragments do the same at whole units, with MF on all but the last (splitTCP,
\* fragmentIPv4).
PiecesReassemble ==
    last.op = "down" /\ last.out # << >> =>
        LET in == last.in
            out == last.out
            n   == Len(out)
            pay == IF last.how = "frag" THEN in.len + HdrLen(in) - 1 ELSE in.len
        IN  /\ normalize => \A i \in 1 .. n : out[i].len + HdrLen(out[i]) <= mtu
            /\ \A i \in 1 .. n : out[i].len > 0
            /\ FoldLeft(LAMBDA a, p : a + p.len, 0, out) = pay
            /\ last.how = "split" => \A i \in 1 .. n - 1 :
                   /\ out[i + 1].seq = (out[i].seq + out[i].len) % SeqSpace
                   /\ ~out[i].end
            /\ last.how = "frag" => \A i \in 1 .. n - 1 :
                   /\ out[i + 1].base * Unit = out[i].base * Unit + out[i].len
                   /\ out[i].more
            /\ Head(out).seq = in.seq /\ Head(out).base = in.base
            /\ Last(out).end = in.end /\ Last(out).more = in.more

\* A reply goes to the one host that sent the packet, never to a group or to nobody and
\* never in the name of a group, and two ends that both reject do not answer each
\* other's replies (BuildIPv6Reject, buildTCPReset).
RejectsEnd ==
    last.op = "reject" /\ last.out # NoReply =>
        /\ last.out.dst = last.in.src /\ last.out.dst \notin {"multicast", "zero"}
        /\ last.out.src = last.in.dst /\ last.out.src # "multicast"
        /\ BuildIPv6Reject(last.out) = NoReply

\* What ipv6_reject.go:18 lists: no packet with a multicast or unspecified address at
\* either end, no error message and no reset is answered.
OnlyAnswerable ==
    last.op = "reject" /\ last.out # NoReply =>
        /\ {last.in.src, last.in.dst} \cap {"multicast", "zero"} = {}
        /\ "RST" \notin last.in.flags /\ ~NeverAnswered(last.in)

\* A hello is found exactly when its frame's head ends within the scan limit, its
\* payload within its own, and the stream has all of it, and then not one byte of what follows is consumed: the
\* tunnel's first record starts there (ReadHelloFrame).
HelloFoundInScan ==
    last.op = "hello" =>
        LET size == last.junk + Overhead + last.payload IN
        /\ last.res.found <=> /\ last.junk + Overhead <= MaxScan
                             /\ last.payload <= MaxPayload /\ size <= last.avail
        /\ last.res.found => last.res.read = size
        /\ last.res.read <= MaxOf(size, MaxScan)

=============================================================================
