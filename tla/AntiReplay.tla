------------------------------ MODULE AntiReplay ------------------------------
(***************************************************************************)
(* What the UDP anti-replay check promises, without the bitmap: a counter  *)
(* is accepted when it was never accepted before and lies less than        *)
(* WindowSize behind the highest accepted counter.  ReplayWindow, the      *)
(* bitmap of obsidian/udp.go, is shown to implement this specification.    *)
(***************************************************************************)
EXTENDS Integers

CONSTANTS WindowSize,  \* replayWindowSize of the code (4096)
          Seqs         \* the packet counters datagrams may carry

VARIABLES handed,      \* how often the payload of a counter was handed on
          verdict      \* the last counter checked and the answer given

absVars == <<handed, verdict>>

seen == {s \in Seqs : handed[s] > 0}

\* Less than WindowSize behind every accepted counter.
InWindow(seq) == \A s \in seen : s - seq < WindowSize

AbsInit ==
    /\ handed = [s \in Seqs |-> 0]
    /\ verdict = [seq |-> 0, ok |-> FALSE]

AbsCheck(seq) ==
    LET ok == seq \notin seen /\ InWindow(seq)
    IN  /\ handed' = IF ok THEN [handed EXCEPT ![seq] = @ + 1] ELSE handed
        /\ verdict' = [seq |-> seq, ok |-> ok]

AbsNext == \E seq \in Seqs : AbsCheck(seq)

AbsSpec == AbsInit /\ [][AbsNext]_absVars
===============================================================================
