----------------------------- MODULE IPRateLimiter -----------------------------
(***************************************************************************)
(* IPRateLimiter of obsidian/ip_rate_limiter.go: one entry per address     *)
(* that was seen lately, refilled when it is looked up and dropped by a    *)
(* periodic sweep once it has been idle for EntryTTL.  Allow runs under    *)
(* the limiter's mutex; the clock it reads just before the lock is read in *)
(* the same step.                                                          *)
(***************************************************************************)
EXTENDS Integers

CONSTANTS Addrs,            \* the client addresses
          Second,           \* ticks in a second, and the cost of one request
          RatePerSecond,    \* requests per second an address earns
          Burst,            \* requests a full entry allows
          CleanupInterval,  \* cleanupInterval (1 s) in ticks
          EntryTTL,         \* entryTTL (10 s) in ticks
          MaxTime           \* the clock stops here

maxTokens == Burst * Second

\* NewIPRateLimiter replaces non-positive settings; an entry idle for EntryTTL
\* has earned a full bucket (10 s at 50/s against a burst of 30 by default).
ASSUME LimiterAssumption ==
    /\ Second \in Nat \ {0} /\ RatePerSecond \in Nat \ {0}
    /\ Burst \in Nat \ {0} /\ CleanupInterval \in Nat
    /\ EntryTTL \in Nat /\ MaxTime \in Nat
    /\ maxTokens <= RatePerSecond * EntryTTL
ASSUME AddrsAssumption == Addrs # {}

VARIABLES now,          \* the clock, in ticks
          entries,      \* address -> time of the last look-up and its tokens
          lastCleanup,  \* when the table was last swept
          answer        \* history: the last request and the answer given

limVars == <<now, entries, lastCleanup, answer>>

LimInit ==
    /\ now \in 0 .. MaxTime
    /\ entries = << >>
    /\ lastCleanup = now
    /\ \E a \in Addrs : answer = [addr |-> a, ok |-> TRUE]

Tick ==
    /\ now < MaxTime
    /\ now' = now + 1
    /\ UNCHANGED <<entries, lastCleanup, answer>>

sweeping == now - lastCleanup >= CleanupInterval

\* Mutant: the sweep drops every entry, however recently it was used.
KeptNone == IF sweeping THEN {} ELSE DOMAIN entries

\* The addresses whose entry survives the sweep that starts a look-up.
Kept ==
    IF sweeping THEN {a \in DOMAIN entries : now - entries[a].last <= EntryTTL}
                ELSE DOMAIN entries

\* The tokens of an entry with what it earned since its last look-up.
Refilled(e) ==
    LET t == e.tokens + (now - e.last) * RatePerSecond
    IN  IF t > maxTokens THEN maxTokens ELSE t

\* Allow(addr) answers ok: a new address starts with a full entry; a refusal
\* keeps the refilled tokens.
Allow(a, ok) ==
    LET tokens == IF a \in Kept THEN Refilled(entries[a]) ELSE maxTokens
    IN  /\ ok <=> (a \notin Kept \/ tokens >= Second)
        /\ entries' = [x \in Kept \cup {a} |->
               IF x = a THEN [last   |-> now,
                              tokens |-> IF ok THEN tokens - Second ELSE tokens]
                        ELSE entries[x]]
        /\ lastCleanup' = IF sweeping THEN now ELSE lastCleanup
        /\ answer' = [addr |-> a, ok |-> ok]
        /\ UNCHANGED now

LimNext == Tick \/ \E a \in Addrs, ok \in BOOLEAN : Allow(a, ok)

LimSpec == LimInit /\ [][LimNext]_limVars

LimTypeOK ==
    /\ now \in Nat /\ lastCleanup \in Nat
    /\ DOMAIN entries \subseteq Addrs
    /\ entries \in [DOMAIN entries -> [last : Nat, tokens : Nat]]
    /\ \A a \in DOMAIN entries : /\ entries[a].last <= now
                                 /\ entries[a].tokens <= maxTokens
    /\ answer \in [addr : Addrs, ok : BOOLEAN]

\* The bucket an address owns now: absent entries stand for full buckets.
bucket == [a \in Addrs |-> IF a \in DOMAIN entries THEN Refilled(entries[a])
                                                   ELSE maxTokens]

Bucket == INSTANCE TokenBucket
          WITH level <- bucket, Size <- maxTokens, Cost <- Second,
               Rate <- RatePerSecond

\* The table with its sweep answers like a bucket per address that is never
\* forgotten: dropping an idle entry neither grants nor costs a request
\* (Allow, ip_rate_limiter.go:46-83).
ImplementsTokenBucket == Bucket!AbsSpec
===============================================================================
