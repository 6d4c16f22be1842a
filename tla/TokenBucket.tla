------------------------------ MODULE TokenBucket ------------------------------
(***************************************************************************)
(* What a rate limiter promises, without its table of entries: every       *)
(* address owns a bucket that starts full, gains Rate units per tick up to *)
(* its size, and a request is granted exactly when the bucket holds the    *)
(* Cost of one.  IPRateLimiter is shown to implement this specification.   *)
(***************************************************************************)
EXTENDS Integers

CONSTANTS Addrs,   \* the client addresses
          Size,    \* units a full bucket holds
          Cost,    \* units one request takes
          Rate     \* units a bucket gains per tick

VARIABLES level,   \* units in each bucket at this moment
          answer   \* the last request and the answer given

absVars == <<level, answer>>

Capped(n) == IF n > Size THEN Size ELSE n

AbsInit ==
    /\ level = [a \in Addrs |-> Size]
    /\ \E a \in Addrs : answer = [addr |-> a, ok |-> TRUE]

AbsTick ==
    /\ level' = [a \in Addrs |-> Capped(level[a] + Rate)]
    /\ UNCHANGED answer

AbsRequest(a) ==
    LET ok == level[a] >= Cost
    IN  /\ level' = IF ok THEN [level EXCEPT ![a] = @ - Cost] ELSE level
        /\ answer' = [addr |-> a, ok |-> ok]

AbsNext == AbsTick \/ \E a \in Addrs : AbsRequest(a)

AbsSpec == AbsInit /\ [][AbsNext]_absVars
===============================================================================
