------------------------------- MODULE MCUdpMux -------------------------------
EXTENDS UdpMux, TLC

Symmetry == Permutations(Addrs)
===============================================================================
