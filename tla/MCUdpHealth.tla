----------------------------- MODULE MCUdpHealth -----------------------------
EXTENDS UdpHealth
===============================================================================
