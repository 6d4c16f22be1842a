--------------------------- MODULE MCClientSession ---------------------------
EXTENDS ClientSession

Config(a, u, t, p) == [auto |-> a, udp |-> u, tls |-> t, prompt |-> p]

\* Reconnecting over UDP with goroutines of any speed, over TLS with prompt ones, and
\* a single connection over TLS.
Typical == {Config(TRUE, TRUE, FALSE, FALSE), Config(TRUE, FALSE, TRUE, TRUE),
            Config(FALSE, FALSE, TRUE, FALSE)}
===============================================================================
