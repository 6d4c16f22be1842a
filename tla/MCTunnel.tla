------------------------------- MODULE MCTunnel -------------------------------
EXTENDS Tunnel

\* Frames of one end: enough data to fill the queue of a consumer that has stopped,
\* or data and noise in any order.
Backlog == [A |-> 3, B |-> 0]
===============================================================================
