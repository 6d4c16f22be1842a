------------------------------- MODULE UdpRekey -------------------------------
(***************************************************************************)
(* In-tunnel rekeying of the UDP data channel: RatchetEpoch of UDPChannel  *)
(* (the client) and of UDPSession (the server) in obsidian/udp.go, running *)
(* concurrently with Send and Recv on both sides and with the server's     *)
(* Close.  A key, a header key and a route tag are the number of the epoch *)
(* they were derived for; a datagram opens when the receiver picks the     *)
(* keys it was sealed with.                                                *)
(*                                                                         *)
(* What the mutexes order and what they leave open is kept: RatchetEpoch   *)
(* assigns encAEAD, hp and tag under sendMu and the rest under recvMu;     *)
(* the client's Send holds sendMu, the server's reads the three fields     *)
(* without it; both receivers read hp and tag without sendMu.              *)
(***************************************************************************)
EXTENDS Integers, FiniteSets

CONSTANTS MaxEpoch,   \* bound: epochs a side ratchets to
          MaxCtr      \* bound: datagrams per side

ASSUME RekeyAssumption == MaxEpoch \in Nat /\ MaxCtr \in [{"C", "S"} -> Nat]

Sides == {"C", "S"}
Peer(x) == IF x = "C" THEN "S" ELSE "C"
Never == -1           \* nil, the zero tag

VARIABLES
    key,      \* per side: encAEAD, decAEAD, hp, tag and their prev fields
    ratchet,  \* per side: progress of RatchetEpoch and its locals
    sendCtr,  \* per side
    snd,      \* the server's Send in progress
    rcv,      \* per side: the datagram the receiver is working on
    seen,     \* per side: counters its replay window has accepted
    net,      \* per side: the datagrams it has sent
    table,    \* the tags under which the session is in the SessionTable
    mru,      \* the session is the mux's most recently used one
    life,     \* the server session: open, or the steps of Close and UnregisterSession
    opened,   \* history, per side: how often a counter was delivered
    missed    \* history, per side: a datagram was lost to a ratchet

vars == <<key, ratchet, sendCtr, snd, rcv, seen, net, table, mru, life, opened, missed>>

NoRatchet == [pc |-> "idle", oldHp |-> Never, oldTag |-> Never]
NoRcv     == [pc |-> "idle", d |-> Never, prev |-> FALSE]
NoSnd     == [pc |-> "idle", tag |-> Never, enc |-> Never, ctr |-> Never]
Alive     == [pc |-> "open", tag |-> Never, last |-> FALSE]

Init ==
    /\ key = [x \in Sides |-> [enc |-> 0, dec |-> 0, hp |-> 0, tag |-> 0,
                               prevDec |-> Never, prevHp |-> Never, prevTag |-> Never]]
    /\ ratchet = [x \in Sides |-> NoRatchet]
    /\ sendCtr = [x \in Sides |-> 0]
    /\ snd = NoSnd
    /\ rcv = [x \in Sides |-> NoRcv]
    /\ seen = [x \in Sides |-> {}]
    /\ net = [x \in Sides |-> {}]
    /\ table = {0} /\ mru = TRUE /\ life = Alive
    /\ opened = [x \in Sides |-> [c \in 0 .. (MaxCtr[Peer(x)] - 1) |-> 0]]
    /\ missed = [x \in Sides |-> FALSE]

-------------------------------------------------------------------------------
\* RatchetEpoch, the section under sendMu: encAEAD, then hp, then tag.
Epoch(x) == key[x].enc

\* Mutant: the counter starts again with the new key.
RatchetEncResets(x) ==
    /\ ratchet[x].pc = "idle"
    /\ Epoch(x) < MaxEpoch
    /\ key' = [key EXCEPT ![x].enc = @ + 1]
    /\ sendCtr' = [sendCtr EXCEPT ![x] = 0]
    /\ ratchet' = [ratchet EXCEPT ![x].pc = "hp"]
    /\ UNCHANGED <<snd, rcv, seen, net, table, mru, life, opened, missed>>

RatchetEnc(x) ==
    /\ ratchet[x].pc = "idle"
    /\ Epoch(x) < MaxEpoch
    /\ key' = [key EXCEPT ![x].enc = @ + 1]
    /\ ratchet' = [ratchet EXCEPT ![x].pc = "hp"]
    /\ UNCHANGED <<sendCtr, snd, rcv, seen, net, table, mru, life, opened, missed>>

RatchetHp(x) ==
    /\ ratchet[x].pc = "hp"
    /\ ratchet' = [ratchet EXCEPT ![x] = [@ EXCEPT !.pc = "tag", !.oldHp = key[x].hp]]
    /\ key' = [key EXCEPT ![x].hp = Epoch(x)]
    /\ UNCHANGED <<sendCtr, snd, rcv, seen, net, table, mru, life, opened, missed>>

RatchetTag(x) ==
    /\ ratchet[x].pc = "tag"
    /\ ratchet' = [ratchet EXCEPT ![x] = [@ EXCEPT !.pc = "recv", !.oldTag = key[x].tag]]
    /\ key' = [key EXCEPT ![x].tag = Epoch(x)]
    /\ UNCHANGED <<sendCtr, snd, rcv, seen, net, table, mru, life, opened, missed>>

\* Mutant: the previous header key is saved after hp was replaced.
RatchetRecvLosesHp(x) ==
    /\ ratchet[x].pc = "recv"
    /\ rcv[x].pc # "keys" \/ x = "S"
    /\ key' = [key EXCEPT ![x] = [@ EXCEPT !.prevDec = key[x].dec,
                                           !.dec = Epoch(x),
                                           !.prevHp = key[x].hp,
                                           !.prevTag = ratchet[x].oldTag]]
    /\ ratchet' = [ratchet EXCEPT ![x] = IF x = "S" THEN [@ EXCEPT !.pc = "set"]
                                         ELSE NoRatchet]
    /\ UNCHANGED <<sendCtr, snd, rcv, seen, net, table, mru, life, opened, missed>>

\* Mutant: the new epoch starts with an empty replay window.
RatchetRecvClearsWindow(x) ==
    /\ ratchet[x].pc = "recv"
    /\ rcv[x].pc # "keys" \/ x = "S"
    /\ key' = [key EXCEPT ![x] = [@ EXCEPT !.prevDec = key[x].dec,
                                           !.dec = Epoch(x),
                                           !.prevHp = ratchet[x].oldHp,
                                           !.prevTag = ratchet[x].oldTag]]
    /\ ratchet' = [ratchet EXCEPT ![x] = IF x = "S" THEN [@ EXCEPT !.pc = "set"]
                                         ELSE NoRatchet]
    /\ seen' = [seen EXCEPT ![x] = {}]
    /\ UNCHANGED <<sendCtr, snd, rcv, net, table, mru, life, opened, missed>>

\* The section under recvMu, which the client's Recv holds while it picks keys.
RatchetRecv(x) ==
    /\ ratchet[x].pc = "recv"
    /\ rcv[x].pc # "keys" \/ x = "S"
    /\ key' = [key EXCEPT ![x] = [@ EXCEPT !.prevDec = key[x].dec,
                                           !.dec = Epoch(x),
                                           !.prevHp = ratchet[x].oldHp,
                                           !.prevTag = ratchet[x].oldTag]]
    /\ ratchet' = [ratchet EXCEPT ![x] = IF x = "S" THEN [@ EXCEPT !.pc = "set"]
                                         ELSE NoRatchet]
    /\ UNCHANGED <<sendCtr, snd, rcv, seen, net, table, mru, life, opened, missed>>

\* The server registers the new tag; the old one stays in the table.
RatchetSet ==
    /\ ratchet["S"].pc = "set"
    /\ table' = table \cup {key["S"].tag}
    /\ ratchet' = [ratchet EXCEPT !["S"] = NoRatchet]
    /\ UNCHANGED <<key, sendCtr, snd, rcv, seen, net, mru, life, opened, missed>>

-------------------------------------------------------------------------------
\* A datagram side x sends: what it is sealed with, and a payload of its own.
Datagram(x, tag, enc, hp, ctr) ==
    [tag |-> tag, enc |-> enc, hp |-> hp, ctr |-> ctr, payload |-> Cardinality(net[x])]

\* Mutant: the client's counter is not advanced.
ClientSendSameCtr ==
    /\ ratchet["C"].pc \notin {"hp", "tag"}
    /\ Cardinality(net["C"]) < MaxCtr["C"]
    /\ net' = [net EXCEPT !["C"] = @ \cup {Datagram("C", key["C"].tag, key["C"].enc,
                                                    key["C"].hp, sendCtr["C"])}]
    /\ UNCHANGED <<key, ratchet, sendCtr, snd, rcv, seen, table, mru, life, opened, missed>>

\* The client's Send, under sendMu: one step outside RatchetEpoch's section.
ClientSend ==
    /\ ratchet["C"].pc \notin {"hp", "tag"}
    /\ sendCtr["C"] < MaxCtr["C"]
    /\ net' = [net EXCEPT !["C"] = @ \cup {Datagram("C", key["C"].tag, key["C"].enc,
                                                    key["C"].hp, sendCtr["C"])}]
    /\ sendCtr' = [sendCtr EXCEPT !["C"] = @ + 1]
    /\ UNCHANGED <<key, ratchet, snd, rcv, seen, table, mru, life, opened, missed>>

\* The server's Send takes a counter, then reads tag, encAEAD and hp in turn.
SendCtr ==
    /\ snd.pc = "idle"
    /\ life.pc # "closed"
    /\ sendCtr["S"] < MaxCtr["S"]
    /\ snd' = [NoSnd EXCEPT !.pc = "tag", !.ctr = sendCtr["S"]]
    /\ sendCtr' = [sendCtr EXCEPT !["S"] = @ + 1]
    /\ UNCHANGED <<key, ratchet, rcv, seen, net, table, mru, life, opened, missed>>

SendTag ==
    /\ snd.pc = "tag"
    /\ snd' = [snd EXCEPT !.pc = "enc", !.tag = key["S"].tag]
    /\ UNCHANGED <<key, ratchet, sendCtr, rcv, seen, net, table, mru, life, opened, missed>>

SendEnc ==
    /\ snd.pc = "enc"
    /\ snd' = [snd EXCEPT !.pc = "hp", !.enc = key["S"].enc]
    /\ UNCHANGED <<key, ratchet, sendCtr, rcv, seen, net, table, mru, life, opened, missed>>

SendHp ==
    /\ snd.pc = "hp"
    /\ net' = [net EXCEPT !["S"] = @ \cup {Datagram("S", snd.tag, snd.enc, key["S"].hp, snd.ctr)}]
    /\ snd' = NoSnd
    /\ UNCHANGED <<key, ratchet, sendCtr, rcv, seen, table, mru, life, opened, missed>>

-------------------------------------------------------------------------------
\* A datagram d is of epoch e when Send was not torn by a ratchet.
Whole(d, e) == d.tag = e /\ d.enc = e /\ d.hp = e

\* The receiver gives d up; it is lost to a ratchet when d is fresh and whole and
\* RatchetEpoch is at work between d's epoch and its neighbour.
Discard(x, d) ==
    LET lost == /\ ratchet[x].pc # "idle"
                /\ d.ctr \notin seen[x]
                /\ \E e \in {Epoch(x), Epoch(x) - 1} : Whole(d, e)
    IN  missed' = [missed EXCEPT ![x] = @ \/ lost]

\* UDPChannel.Recv, first half of the section under recvMu: is the tag the
\* current one, or the previous one?
ClientRecv(d) ==
    LET k == key["C"]
        isCurrent == d.tag = k.tag
        isPrev    == ~isCurrent /\ k.prevDec # Never /\ d.tag = k.prevTag
    IN  /\ rcv["C"].pc = "idle"
        /\ IF isCurrent \/ isPrev
           THEN /\ rcv' = [rcv EXCEPT !["C"] = [pc |-> "keys", d |-> d, prev |-> isPrev]]
                /\ UNCHANGED missed
           ELSE Discard("C", d) /\ UNCHANGED rcv
        /\ UNCHANGED <<key, ratchet, sendCtr, snd, seen, net, table, mru, life, opened>>

\* runOnConn: the MRU session's tag or previous tag, else the table.
ServerRecv(d) ==
    LET k == key["S"]
        isPrev == d.tag # k.tag /\ k.prevDec # Never /\ d.tag = k.prevTag
    IN  /\ rcv["S"].pc = "idle"
        /\ rcv' = [rcv EXCEPT !["S"] =
                     [pc   |-> IF mru /\ (d.tag = k.tag \/ isPrev) THEN "keys" ELSE "lookup",
                      d    |-> d,
                      prev |-> isPrev]]
        /\ UNCHANGED <<key, ratchet, sendCtr, snd, seen, net, table, mru, life, opened, missed>>

ServerLookup ==
    LET k == key["S"]
        d == rcv["S"].d
    IN  /\ rcv["S"].pc = "lookup"
        /\ IF d.tag \in table
           THEN /\ rcv' = [rcv EXCEPT !["S"] = [pc |-> "keys", d |-> d,
                             prev |-> d.tag # k.tag /\ d.tag = k.prevTag]]
                /\ mru' = TRUE
                /\ UNCHANGED missed
           ELSE /\ Discard("S", d)
                /\ rcv' = [rcv EXCEPT !["S"] = NoRcv]
                /\ UNCHANGED mru
        /\ UNCHANGED <<key, ratchet, sendCtr, snd, seen, net, table, life, opened>>

\* The receive keys, picked under recvMu; then unmasking, Open and the window.
RecvKeys(k, prev) ==
    [dec |-> IF prev /\ k.prevDec # Never THEN k.prevDec ELSE k.dec,
     hp  |-> IF prev /\ k.prevHp # Never THEN k.prevHp ELSE k.hp]

OpenDatagram(x) ==
    LET d == rcv[x].d
        picked == RecvKeys(key[x], rcv[x].prev)
        opens == d.enc = picked.dec /\ d.hp = picked.hp
    IN  /\ rcv[x].pc = "keys"
        /\ rcv' = [rcv EXCEPT ![x] = NoRcv]
        /\ IF opens /\ d.ctr \notin seen[x]
           THEN /\ seen' = [seen EXCEPT ![x] = @ \cup {d.ctr}]
                /\ opened' = [opened EXCEPT ![x][d.ctr] = @ + 1]
                /\ UNCHANGED missed
           ELSE Discard(x, d) /\ UNCHANGED <<seen, opened>>
        /\ UNCHANGED <<key, ratchet, sendCtr, snd, net, table, mru, life>>

-------------------------------------------------------------------------------
\* UnregisterSession removes a tag from the table; then it clears the MRU pointer if
\* it finds the session there under that tag, which a ratchet may have replaced.
Unregister(tag, last) ==
    /\ table' = table \ {tag}
    /\ life' = [pc |-> "test", tag |-> tag, last |-> last]
    /\ UNCHANGED <<key, ratchet, sendCtr, snd, rcv, seen, net, mru, opened, missed>>

UnregisterTest ==
    /\ life.pc = "test"
    /\ life' = [life EXCEPT !.pc = IF mru /\ key["S"].tag = life.tag THEN "clear" ELSE "removed"]
    /\ UNCHANGED <<key, ratchet, sendCtr, snd, rcv, seen, net, table, mru, opened, missed>>

UnregisterClear ==
    /\ life.pc = "clear"
    /\ mru' = FALSE
    /\ life' = [life EXCEPT !.pc = "removed"]
    /\ UNCHANGED <<key, ratchet, sendCtr, snd, rcv, seen, net, table, opened, missed>>

\* UDPSession.Close: UnregisterSession of the tag and of the previous tag, if there
\* is one, and close(done).
CloseTag == life.pc = "open" /\ Unregister(key["S"].tag, FALSE)

ClosePrevTag ==
    /\ life.pc = "removed" /\ ~life.last
    /\ key["S"].prevTag # Never
    /\ Unregister(key["S"].prevTag, TRUE)

CloseDone ==
    /\ life.pc = "removed"
    /\ life.last \/ key["S"].prevTag = Never
    /\ life' = [life EXCEPT !.pc = "closed"]
    /\ UNCHANGED <<key, ratchet, sendCtr, snd, rcv, seen, net, table, mru, opened, missed>>

Close == CloseTag \/ UnregisterTest \/ UnregisterClear \/ ClosePrevTag \/ CloseDone

\* Traffic of another session takes the MRU slot.
OtherSessionUsed ==
    /\ mru
    /\ mru' = FALSE
    /\ UNCHANGED <<key, ratchet, sendCtr, snd, rcv, seen, net, table, life, opened, missed>>

Ratchet(x) == RatchetEnc(x) \/ RatchetHp(x) \/ RatchetTag(x) \/ RatchetRecv(x)

Next ==
    \/ \E x \in Sides : Ratchet(x) \/ OpenDatagram(x)
    \/ RatchetSet
    \/ ClientSend \/ SendCtr \/ SendTag \/ SendEnc \/ SendHp
    \/ \E d \in net["S"] : ClientRecv(d)
    \/ \E d \in net["C"] : ServerRecv(d)
    \/ ServerLookup
    \/ Close \/ OtherSessionUsed

Spec == Init /\ [][Next]_vars

-------------------------------------------------------------------------------
\* Keys and tags are epochs, prev fields may be unset.
TypeOK ==
    /\ \A x \in Sides :
         /\ \A f \in {"enc", "dec", "hp", "tag"} : key[x][f] \in 0 .. MaxEpoch
         /\ \A f \in {"prevDec", "prevHp", "prevTag"} : key[x][f] \in Never .. MaxEpoch
         /\ ratchet[x].pc \in {"idle", "hp", "tag", "recv", "set"}
         /\ rcv[x].pc \in {"idle", "lookup", "keys"}
    /\ table \subseteq 0 .. MaxEpoch
    /\ life \in [pc : {"open", "test", "clear", "removed", "closed"},
                tag : Never .. MaxEpoch, last : BOOLEAN]

\* No nonce is used twice under one key: sendCtr goes on across epochs, so even a
\* Send torn by a ratchet cannot repeat a counter.
NonceOncePerKey ==
    \A x \in Sides : \A d, e \in net[x] : d.enc = e.enc /\ d.ctr = e.ctr => d = e

\* No datagram is delivered twice although it may be tried with the keys of two
\* epochs: one window serves both.
DeliveredOnceAcrossEpochs == \A x \in Sides : \A c \in DOMAIN opened[x] : opened[x][c] <= 1

Idle(x) == ratchet[x].pc = "idle"

\* Would a receiver of side x that starts now, and is not disturbed, open d?
WouldOpen(x, d) ==
    LET k == key[x]
        isPrev == d.tag # k.tag /\ d.tag = k.prevTag /\ k.prevDec # Never
        found  == IF x = "C" THEN d.tag = k.tag \/ isPrev
                  ELSE (mru /\ (d.tag = k.tag \/ isPrev)) \/ d.tag \in table
        picked == RecvKeys(k, isPrev)
    IN  found /\ d.enc = picked.dec /\ d.hp = picked.hp

\* Between ratchets a side opens every whole datagram of its current and of its
\* previous epoch: the old keys, header key and tag survive exactly one epoch,
\* also when the session reaches the datagram through the table.
PreviousEpochStillOpens ==
    \A x \in Sides : \A d \in net[Peer(x)] :
        /\ Idle(x) /\ life.pc = "open"
        /\ \E e \in {Epoch(x), Epoch(x) - 1} : Whole(d, e)
        => WouldOpen(x, d)

\* What "seamlessly updates" says: a receiver that is ratcheting from epoch e to
\* e+1 discards no whole datagram of either epoch.
SeamlessRatchet == \A x \in Sides : ~missed[x]

\* What "preserving old tag for transition window" says: between ratchets the
\* table leads to the session by its tag and by the previous one, and no other.
OnlyTransitionTag == Idle("S") => table \subseteq {key["S"].tag, key["S"].prevTag}
===============================================================================
