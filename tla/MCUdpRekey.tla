------------------------------ MODULE MCUdpRekey ------------------------------
EXTENDS UdpRekey, TLC

Both == "C" :> 2 @@ "S" :> 2

\* Traffic flows in one direction: the two directions share no keys or counters.
OneWay == sendCtr["C"] = 0 \/ sendCtr["S"] = 0
===============================================================================
