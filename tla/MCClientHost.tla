---------------------------- MODULE MCClientHost ----------------------------
EXTENDS ClientHost, TLC

CONSTANTS s4, s6, dnsIP, ipA, net6, site

MCEntries == <<[kind |-> "ip", of |-> net6], [kind |-> "host", of |-> site],
               [kind |-> "zone", of |-> site]>>
\* A host is unknown, has its own address, or moves to the server's.
MCAnswers == {<< >>, <<ipA>>, <<s4>>}

Base == [mode |-> "off", ipv6 |-> FALSE, gateways |-> {"v4"}, servers |-> <<s4>>,
         dns |-> << >>, flaky |-> {}, resolved |-> FALSE, conf |-> File("original"),
         udp |-> FALSE, starts |-> 2, dials |-> 0]

\* Routes: every mode; commands that fail; a server with addresses of both
\* families, with an IPv6 gateway, without, and with no gateway at all.
RouteOptions ==
    {[Base EXCEPT !.mode = m, !.flaky = f] : m \in {"include", "exclude"}, f \in {{}, {s4}}}
    \cup {[Base EXCEPT !.mode = "exclude", !.ipv6 = TRUE, !.servers = <<s6, s4>>,
                       !.gateways = g] : g \in {{"v4", "v6"}, {"v4"}, {}}}
    \cup {[Base EXCEPT !.ipv6 = TRUE, !.servers = <<s6>>, !.gateways = {"v4", "v6"}],
          [Base EXCEPT !.dns = <<dnsIP>>, !.resolved = TRUE]}
\* DNS: a file, a symlink or nothing at all, written directly.
DnsOptions ==
    {[Base EXCEPT !.dns = <<dnsIP>>, !.conf = c] : c \in {File("original"), Link, NoFile}}
\* Sessions: one over UDP with TCP, or two over TCP alone.
SessionOptions == {[Base EXCEPT !.starts = 1, !.udp = TRUE, !.dials = 1],
                   [Base EXCEPT !.starts = 1, !.dials = 2]}

MCOptions == RouteOptions \cup DnsOptions \cup SessionOptions
=============================================================================
