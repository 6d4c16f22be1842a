----------------------------- MODULE ClientHost -----------------------------
(***************************************************************************)
(* The command line client and the machine it runs on (cmd/client/main.go, *)
(* tun_stub.go, obsidian/tun/tun_linux.go, netsetup_unix.go): opening the  *)
(* device with its routes and DNS, sessions one after another with their   *)
(* goroutines, and the two ways to a shutdown, which share one Close.  The *)
(* process may be killed at any step and started again.                    *)
(***************************************************************************)
EXTENDS RouteManager, ResolvConf

CONSTANT Options   \* configurations and machines to check: [mode, ipv6, gateways, servers,
                   \*   dns, flaky, resolved, conf, udp], and the bounds starts (of the
                   \*   client) and dials (that succeed, per process)

\* A server's name resolves to some address, or resolveServer fails; resolv.conf is a
\* file, the symlink or missing, and "none" stands for no text.
ASSUME OptionsAssumption ==
    \A o \in Options :
        /\ o.servers # << >>
        /\ \/ o.conf \in {NoFile, Link}
           \/ o.conf = File(o.conf.text) /\ o.conf.text # "none"

VARIABLES main,     \* what main is at
          sg,       \* the goroutine that waits for a signal or for stdin's end
          once,     \* linuxDevice.closeOnce: who runs it, and at which step
          sig,      \* sigCh holds a signal
          shutdown, \* shutdownCh is closed
          tunOpen,  \* the device's file is open
          ses,      \* per session of this process, its goroutines and errCh
          starts,   \* processes started so far
          ended,    \* history: how the last process ended
          legacy    \* history: the routes and resolv.conf the process found

procVars == <<main, sg, once, sig, shutdown, tunOpen, ses>>
pastVars == <<starts, ended, legacy>>
vars == <<opt, rmVars, dnsVars, procVars, pastVars>>

Goroutines == {"up", "down", "udp", "mon"}
Workers    == Goroutines \cup {"wr"}      \* wr: copyUDPToTun's TUN writer

\* errCh has a slot for each goroutine that reports to it.
ErrSlotsTcp == 2
ErrSlots == IF opt.udp THEN 4 ELSE 2

\* A finished session is canonical, so sessions that ended alike are the same.
NewSession ==
    [go   |-> [g \in Workers |-> IF opt.udp \/ g \in {"up", "down"} THEN "run" ELSE "done"],
     errs |-> 0, done |-> FALSE]

NoProcess ==
    /\ main' = "off" /\ sg' = "none" /\ once' = [by |-> "none", pc |-> "idle"]
    /\ sig' = FALSE /\ shutdown' = FALSE /\ tunOpen' = FALSE /\ ses' = << >>
    /\ rm' = NoRM /\ mu' = "free" /\ job' = NoJob /\ refused' = {} /\ dns' = NoDns
    /\ linkDns' = FALSE
    /\ table' = {r \in table : r[2] # "tun"}

Init ==
    /\ opt \in Options
    /\ table = {} /\ rm = NoRM /\ mu = "free" /\ job = NoJob /\ refused = {}
    /\ conf = opt.conf /\ backup = "none" /\ linkDns = FALSE /\ dns = NoDns /\ lost = FALSE
    /\ main = "off" /\ sg = "none" /\ once = [by |-> "none", pc |-> "idle"]
    /\ sig = FALSE /\ shutdown = FALSE /\ tunOpen = FALSE /\ ses = << >>
    /\ starts = 0 /\ ended = "never" /\ legacy = [table |-> {}, conf |-> conf]

Keep(rest) == UNCHANGED <<opt, pastVars, rest>>

-----------------------------------------------------------------------------
\* Open: device, server addresses, routes, DNS.

Start ==
    /\ main = "off" /\ starts < opt.starts
    /\ main' = "opening" /\ starts' = starts + 1 /\ legacy' = [table |-> table, conf |-> conf]
    /\ UNCHANGED <<opt, rmVars, dnsVars, sg, once, sig, shutdown, tunOpen, ses, ended>>

OpenFails ==
    /\ main = "opening" /\ main' = "off" /\ ended' = "failed"
    /\ UNCHANGED <<opt, rmVars, dnsVars, sg, once, sig, shutdown, tunOpen, ses, starts, legacy>>

Open ==
    /\ main = "opening"
    /\ tunOpen' = TRUE
    /\ main' = IF "v4" \notin opt.gateways /\ opt.mode # "include" THEN "ready" ELSE "resolve"
    /\ Keep(<<rmVars, dnsVars, sg, once, sig, shutdown, ses>>)

resolveServer ==
    /\ main = "resolve"
    /\ \/ /\ rm' = [rm EXCEPT !.servers = opt.servers]
          /\ main' = "routes" /\ StartRefresh("main")
       \/ /\ opt.mode = "include" /\ UNCHANGED rm
          /\ main' = "routes" /\ StartRefresh("main")
       \/ /\ opt.mode # "include"              \* rm.close: nothing is applied yet
          /\ rm' = [rm EXCEPT !.closed = TRUE] /\ main' = "ready" /\ UNCHANGED job
    /\ Keep(<<table, mu, refused, dnsVars, sg, once, sig, shutdown, tunOpen, ses>>)

startEnds ==
    /\ main = "routes" /\ job.pc = "none"
    /\ job' = IF opt.mode # "off" /\ Hosts # {}
              THEN [NoJob EXCEPT !.by = "loop", !.pc = "idle"] ELSE NoJob
    /\ main' = IF opt.dns = << >> THEN "ready" ELSE "dns"
    /\ dns' = IF opt.dns = << >> THEN dns ELSE [dns EXCEPT !.pc = "start"]
    /\ Keep(<<table, rm, mu, refused, conf, backup, linkDns, lost, sg, once, sig, shutdown,
              tunOpen, ses>>)

setupDNS ==
    /\ main = "dns"
    /\ \/ ApplyDNS(opt.resolved) \/ (dns.undo = "nothing" /\ dns.pc # "applied" /\ RestoreDNS)
       \/ dns.pc = "applied" /\ UNCHANGED dnsVars
    /\ main' = IF dns.pc = "applied" THEN "ready" ELSE "dns"
    /\ Keep(<<rmVars, sg, once, sig, shutdown, tunOpen, ses>>)

\* pinServerIP, signal.Notify and the two goroutines.
Ready ==
    /\ main = "ready" /\ main' = "dial" /\ sg' = "select"
    /\ Keep(<<rmVars, dnsVars, once, sig, shutdown, tunOpen, ses>>)

-----------------------------------------------------------------------------
\* Sessions: runSession up to its handshake, its goroutines, its return.

DialFails ==
    /\ main = "dial" /\ main' = "wait"
    /\ Keep(<<rmVars, dnsVars, sg, once, sig, shutdown, tunOpen, ses>>)

Dial ==
    /\ main = "dial" /\ Len(ses) < opt.dials
    /\ main' = "session" /\ ses' = Append(ses, NewSession)
    /\ Keep(<<rmVars, dnsVars, sg, once, sig, shutdown, tunOpen>>)

KeepAllButSes == Keep(<<rmVars, dnsVars, main, sg, once, sig, shutdown, tunOpen>>)

Goes(s, g, from, to) == /\ ses[s].go[g] = from
                        /\ ses' = [ses EXCEPT ![s].go[g] = to]

\* The tunnel closes by itself: its peer, its connection or its own loops failed.
TunnelFails(s) ==
    /\ ~ses[s].done /\ ses' = [ses EXCEPT ![s].done = TRUE]
    /\ KeepAllButSes

\* copyTunToData, copyTunToTunnel: the next packet meets a closed tunnel.  Packets
\* arrive when they like, so this step is nobody's duty.
CopyUp(s) == ses[s].done /\ Goes(s, "up", "run", "report") /\ KeepAllButSes
\* tun.Read fails on a closed device.  The descriptor blocks, so Close does not wake a
\* Read that waits for a packet.
CopyUpFails(s) == ~tunOpen /\ Goes(s, "up", "run", "report") /\ KeepAllButSes

copyTunnelToTun(s) ==
    ses[s].done /\ Goes(s, "down", "run", "report") /\ KeepAllButSes

\* A packet meets the closed device: in copyTunnelToTun, in copyUDPToTun's writer.
TunWriteFails(s) ==
    /\ ~tunOpen
    /\ Goes(s, "down", "run", "report") \/ Goes(s, "wr", "run", "failed")
    /\ KeepAllButSes

\* copyUDPToTun returns: its channel fails or is closed when runSession returns, or
\* it sees the writer's error after the next packet.
UdpEnds(s) ==
    /\ ses[s].go["udp"] = "run"
    /\ ses' = [ses EXCEPT ![s].go["udp"] = "report",
                          ![s].go["wr"] = IF @ = "failed" THEN "done" ELSE @]
    /\ KeepAllButSes
channelClosed(s) == s < Len(ses) \/ main # "session"
copyUDPToTun(s) == channelClosed(s) /\ UdpEnds(s)
WriterEnds(s) ==
    ses[s].go["udp"] # "run" /\ Goes(s, "wr", "run", "done") /\ KeepAllButSes

\* The monitor asks for a reconnect; select may prefer its ticker to tunnel.Done.
MonitorReconnects(s) == Goes(s, "mon", "run", "report") /\ KeepAllButSes
MonitorEnds(s) == ses[s].done /\ Goes(s, "mon", "run", "done") /\ KeepAllButSes

Report(s, g) ==
    /\ ses[s].go[g] = "report" /\ ses[s].errs < ErrSlots
    /\ ses' = [ses EXCEPT ![s].go[g] = "done", ![s].errs = @ + 1]
    /\ KeepAllButSes

\* runSession returns; its deferred calls close the channel and the tunnel.
SessionReturns ==
    /\ main = "session" /\ main' = "wait"
    /\ LET s == Len(ses) IN
           \/ ses[s].errs > 0 /\ ses' = [ses EXCEPT ![s].errs = @ - 1, ![s].done = TRUE]
           \/ opt.udp /\ ses[s].done /\ UNCHANGED ses
    /\ Keep(<<rmVars, dnsVars, sg, once, sig, shutdown, tunOpen>>)

-----------------------------------------------------------------------------
\* Shutdown.  Before Ready a signal kills the process: see Killed.

Signal ==
    /\ sg # "none" /\ ~sig /\ sig' = TRUE
    /\ Keep(<<rmVars, dnsVars, main, sg, once, shutdown, tunOpen, ses>>)

StdinEnds ==
    /\ sg # "none" /\ ~shutdown /\ shutdown' = TRUE
    /\ Keep(<<rmVars, dnsVars, main, sg, once, sig, tunOpen, ses>>)

AfterDelay ==
    /\ main = "wait" /\ main' = "dial"
    /\ Keep(<<rmVars, dnsVars, sg, once, sig, shutdown, tunOpen, ses>>)

Asked == \/ sig /\ sig' = FALSE /\ UNCHANGED shutdown
         \/ shutdown /\ UNCHANGED <<sig, shutdown>>

MainAsked ==
    /\ main = "wait" /\ Asked /\ main' = "close"
    /\ Keep(<<rmVars, dnsVars, sg, once, tunOpen, ses>>)

SgAsked ==
    /\ sg = "select" /\ Asked /\ sg' = "close"
    /\ Keep(<<rmVars, dnsVars, main, once, tunOpen, ses>>)

Closing(who) == IF who = "main" THEN main = "close" ELSE sg = "close"

\* Open or setupNetwork gave up: the device has no netState.
netNil == opt.mode # "include" /\ rm.servers = << >>

CloseTaken(who) ==
    /\ Closing(who) /\ once.by = "none"
    /\ once' = [by |-> who, pc |-> IF netNil THEN "down" ELSE "dns"]
    /\ Keep(<<rmVars, dnsVars, main, sg, sig, shutdown, tunOpen, ses>>)

CloseStep ==
    /\ \/ /\ once.pc = "dns" /\ dns.pc \notin {"none", "restored"}
          /\ RestoreDNS /\ UNCHANGED <<once, rmVars, tunOpen>>
       \/ /\ once.pc = "dns" /\ dns.pc \in {"none", "restored"}
          /\ CloseBegins
          /\ once' = [once EXCEPT !.pc = "wait"] /\ UNCHANGED <<dnsVars, tunOpen>>
       \/ /\ once.pc = "wait" /\ refresherGone
          /\ once' = [once EXCEPT !.pc = "remove"] /\ UNCHANGED <<rmVars, dnsVars, tunOpen>>
       \/ /\ once.pc = "remove"
          /\ CloseRemoves /\ UNCHANGED <<once, dnsVars, tunOpen>>
       \/ /\ once.pc = "remove" /\ rm.applied = << >>
          /\ once' = [once EXCEPT !.pc = "down"] /\ UNCHANGED <<rmVars, dnsVars, tunOpen>>
       \/ /\ once.pc = "down"
          /\ once' = [once EXCEPT !.pc = "closed"] /\ tunOpen' = FALSE /\ linkDns' = FALSE
          /\ table' = {r \in table : r[2] # "tun"}
          /\ UNCHANGED <<rm, mu, job, refused, conf, backup, dns, lost>>
    /\ Keep(<<main, sg, sig, shutdown, ses>>)

\* A second Close that would not wait for the first.
CloseReturnsEarly(who) == once.by # "none" /\ (once.by = who => once.pc = "closed")
\* sync.Once: every caller returns after the one that runs it.
CloseReturns(who) == once.pc = "closed"

\* main returns, or the goroutine calls os.Exit: either ends the process.
Exit(who) ==
    /\ Closing(who) /\ CloseReturns(who)
    /\ NoProcess
    /\ ended' = CASE dns.undo = "file"    -> "restored"
                  [] dns.undo = "gave up" -> "unrestored"
                  [] OTHER                -> "closed"
    /\ UNCHANGED <<opt, conf, backup, lost, starts, legacy>>

\* The process dies without closing anything; the kernel drops its device.
Killed ==
    /\ main # "off" /\ starts < opt.starts
    /\ NoProcess /\ ended' = "killed"
    /\ lost' = (lost \/ dns.pc = "backup")
    /\ UNCHANGED <<opt, conf, backup, starts, legacy>>

-----------------------------------------------------------------------------
RefreshStep == Refresh /\ Keep(<<dnsVars, procVars>>)
LoopStep    == refreshLoop /\ Keep(<<dnsVars, procVars>>)

MainStep == \/ OpenFails \/ Open \/ resolveServer \/ startEnds \/ setupDNS \/ Ready
            \/ DialFails \/ Dial \/ SessionReturns \/ AfterDelay \/ MainAsked
Worker(s) == \/ copyTunnelToTun(s) \/ copyUDPToTun(s) \/ WriterEnds(s)
             \/ MonitorEnds(s) \/ \E g \in Goroutines : Report(s, g)
Events(s) == \/ TunnelFails(s) \/ CopyUp(s) \/ CopyUpFails(s) \/ TunWriteFails(s)
             \/ UdpEnds(s) \/ MonitorReconnects(s)
CloserStep == CloseStep \/ \E w \in {"main", "sg"} : CloseTaken(w) \/ Exit(w)

Next ==
    \/ Start \/ Signal \/ StdinEnds \/ Killed
    \/ MainStep \/ SgAsked \/ CloserStep \/ RefreshStep \/ LoopStep
    \/ \E s \in DOMAIN ses : Worker(s) \/ Events(s)

\* Goroutines run; lookups and commands return.  A process takes finitely many of
\* these steps (MaxTicks, dials), so fairness of any of them is fairness of each.
\* Nothing makes a packet, a signal or a kill happen, or main dial.
Fairness ==
    WF_vars(\/ SessionReturns \/ SgAsked \/ CloserStep \/ RefreshStep \/ LoopStep
            \/ \E s \in DOMAIN ses : Worker(s))

Spec == Init /\ [][Next]_vars /\ Fairness

-----------------------------------------------------------------------------
\* The types of the variables of this module.
TypeOK ==
    /\ opt \in Options /\ starts \in 0 .. opt.starts /\ lost \in BOOLEAN
    /\ main \in {"off", "opening", "resolve", "routes", "dns", "ready", "dial", "session",
                 "wait", "close"}
    /\ sg \in {"none", "select", "close"}
    /\ once.by \in {"none", "main", "sg"}
    /\ once.pc \in {"idle", "dns", "wait", "remove", "down", "closed"}
    /\ \A s \in DOMAIN ses : ses[s].errs \in 0 .. ErrSlots
    /\ sig \in BOOLEAN /\ shutdown \in BOOLEAN /\ tunOpen \in BOOLEAN
    /\ ended \in {"never", "failed", "killed", "closed", "restored", "unrestored"}

\* "The server must stay reachable before TUN routes appear" (routemgr.go:224), at
\* every single command of setup, refresh and close: while the default route of the
\* dialled address's family leads into the TUN, the address has its own route through
\* the gateway, unless the system refused that route to this process.
ServerBypassed ==
    rm.servers # << >> =>
        LET p == primaryServer(rm.servers)
            bypass == <<p, "gw">>
        IN  /\ <<IF p \in V6 THEN Def6 ELSE Def4, "tun">> \in table
            /\ bypass \notin refused \ legacy.table
            => bypass \in table

\* A process that ends by Close leaves no route of its own behind, whichever goroutine
\* closes, and with a refresh in flight: only routes it found remain (close, Close).
RoutesRemoved ==
    main = "off" /\ ended \in {"closed", "restored", "unrestored"} => table \subseteq legacy.table

\* What DnsRestored says of every step, and of a process that has ended.
DnsKept == lost \/ Text(opt.conf) \in {Text(conf), backup}
DnsLeft ==
    main = "off" =>
        /\ ended = "restored" => lost \/ Text(conf) = Text(opt.conf)
        /\ ended = "closed" => lost \/ Text(conf) \in {Text(legacy.conf), Text(opt.conf)}
        /\ ended \in {"closed", "restored"} /\ starts = 1 /\ opt.conf = Link => conf = Link

\* The original text of resolv.conf is at every step in it or in the backup, whatever
\* dies or fails.  A process that ends by Close and does not meet an error in restoring
\* leaves it in resolv.conf; one that could not set DNS at least leaves the text it
\* found.  The exceptions are a first backup cut short, by a death or by a failed write,
\* and a kept one that cannot be read: what is there instead is taken for the original
\* (applyResolvConf, restoreResolvConf).  A symlink survives one run.
DnsRestored == DnsKept /\ DnsLeft

\* Once a signal or the end of stdin is there, the process ends: Close waits for the
\* refresher without holding what the refresher needs, and nobody waits for ever.
ShutdownEnds == (sig \/ shutdown) ~> main = "off"

\* "One slot per goroutine below, so none can block" (main.go:397): when its tunnel
\* has closed, every goroutine of a session ends, but for an uplink copy waiting for
\* the device's next packet.
Lingers(s) ==
    /\ s \in DOMAIN ses /\ ses[s].done
    /\ \/ ses[s].go["up"] = "report"
       \/ \E g \in Workers \ {"up"} : ses[s].go[g] # "done"
GoroutinesEnd == \A s \in 1 .. 2 : Lingers(s) ~> ~Lingers(s)

=============================================================================
