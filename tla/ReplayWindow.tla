----------------------------- MODULE ReplayWindow -----------------------------
(***************************************************************************)
(* replayWindow of obsidian/udp.go: the ring of WindowSize bits and the    *)
(* highest counter that UDPChannel.Recv and UDPMux.runOnConn consult after *)
(* a datagram has been authenticated.  Check runs under the window's own   *)
(* mutex, so one call is one step.                                         *)
(***************************************************************************)
EXTENDS Integers

CONSTANTS WindowSize,  \* replayWindowSize (4096 in the code)
          Seqs         \* the packet counters datagrams may carry

ASSUME WindowAssumption == WindowSize \in Nat \ {0}
ASSUME SeqsAssumption   == Seqs \subseteq Nat

VARIABLES maxSeq,      \* highest counter accepted; 0 at the start
          bitmap,      \* one bit per slot of the ring
          handed,      \* history: how often Check answered TRUE for a counter
          verdict      \* history: the last counter checked and the answer

windowVars == <<maxSeq, bitmap, handed, verdict>>

accepted  == {s \in Seqs : handed[s] > 0}
Slots     == 0 .. (WindowSize - 1)
Slot(seq) == seq % WindowSize

WindowInit ==
    /\ maxSeq = 0
    /\ bitmap = [b \in Slots |-> FALSE]
    /\ handed = [s \in Seqs |-> 0]
    /\ verdict = [seq |-> 0, ok |-> FALSE]

Accept(seq) == /\ handed' = [handed EXCEPT ![seq] = @ + 1]
               /\ verdict' = [seq |-> seq, ok |-> TRUE]

Reject(seq) == /\ verdict' = [seq |-> seq, ok |-> FALSE]
               /\ UNCHANGED <<maxSeq, bitmap, handed>>

\* Mutant: the clearing loop starts one slot too far.
PassedFromNext(seq) == {Slot(i) : i \in (maxSeq + 2) .. seq}

\* The slots the loop over maxSeq+1..seq clears when the window slides.
Passed(seq) == {Slot(i) : i \in (maxSeq + 1) .. seq}

\* seq > maxSeq: the window slides up to seq; a jump of WindowSize or more
\* clears every bit.
Slide(seq) ==
    /\ seq > maxSeq
    /\ maxSeq' = seq
    /\ bitmap' = IF seq - maxSeq >= WindowSize
                 THEN [b \in Slots |-> b = Slot(seq)]
                 ELSE [b \in Slots |-> \/ b = Slot(seq)
                                       \/ b \notin Passed(seq) /\ bitmap[b]]
    /\ Accept(seq)

TooOld(seq) ==
    /\ seq <= maxSeq
    /\ maxSeq - seq >= WindowSize
    /\ Reject(seq)

Duplicate(seq) ==
    /\ seq <= maxSeq
    /\ maxSeq - seq < WindowSize
    /\ bitmap[Slot(seq)]
    /\ Reject(seq)

Late(seq) ==
    /\ seq <= maxSeq
    /\ maxSeq - seq < WindowSize
    /\ ~bitmap[Slot(seq)]
    /\ bitmap' = [bitmap EXCEPT ![Slot(seq)] = TRUE]
    /\ Accept(seq)
    /\ UNCHANGED maxSeq

Check(seq) == Slide(seq) \/ TooOld(seq) \/ Duplicate(seq) \/ Late(seq)

WindowNext == \E seq \in Seqs : Check(seq)

WindowSpec == WindowInit /\ [][WindowNext]_windowVars

-------------------------------------------------------------------------------
\* The window's fields hold values of their kinds (replayWindow, udp.go).
WindowTypeOK ==
    /\ maxSeq \in Nat
    /\ bitmap \in [Slots -> BOOLEAN]
    /\ handed \in [Seqs -> Nat]
    /\ verdict \in [seq : Nat, ok : BOOLEAN]

\* Every counter still inside the window has its bit set exactly when it was
\* accepted, whatever order, gaps and jumps of the ring index led here; and
\* maxSeq is the highest accepted counter.  Check relies on it for every
\* answer it gives (the clearing loop and the far-jump reset keep it).
WindowExact ==
    /\ \A s \in accepted : s <= maxSeq
    /\ maxSeq # 0 => maxSeq \in accepted
    /\ \A i \in 0 .. maxSeq : maxSeq - i < WindowSize
                               => (bitmap[Slot(i)] <=> i \in accepted)

\* No counter is accepted twice: an authenticated datagram delivered again, by
\* the network or by a sender's duplicate, is never handed to the TUN again.
AtMostOnce == \A s \in Seqs : handed[s] <= 1

\* The bitmap answers every counter the way the abstract check does: fresh
\* counters inside the window are accepted however late they arrive, anything
\* accepted before or WindowSize behind is refused.
Abs == INSTANCE AntiReplay
ImplementsAntiReplay == Abs!AbsSpec
===============================================================================
