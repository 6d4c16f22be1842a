---------------------------- MODULE MCReplayWindow ----------------------------
EXTENDS ReplayWindow

\* Three ring turns of a window of four slots.
MCSeqs == 0 .. 11
===============================================================================
