------------------------------ MODULE MCAdmission ------------------------------
EXTENDS Admission

CONSTANTS c1, c2, a1, a2, k1, k2

\* Either the clock runs and the revocation file rests: both connections come from
\* one address, and only one of their keys is allowed.  The time of a preface listener
\* is long enough for the sweep to drop an idle entry of the limiter.  Or one key connects from two
\* addresses to a preface listener, all within one tick, while the key server
\* rewrites the file.
MCInit ==
    /\ Init /\ answer.addr = a1
    /\ \/ now = (IF mode = "reality" THEN 1 ELSE 0) /\ writes = MaxWrites
          /\ file = [form |-> "whole", keys |-> {}, mtime |-> 1]
          /\ conn[c1].from = a1 /\ conn[c2].from = a1
          /\ conn[c1].key = k1 /\ conn[c2].key = k2
       \/ /\ conn[c1].from = a1 /\ conn[c2].from = a2
          /\ conn[c1].key = k1 /\ conn[c2].key = k1
          /\ now = MaxTime /\ writes = 0 /\ mode = "preface"
MCSpec == MCInit /\ [][Next]_vars /\ Fairness
===============================================================================
