---------------------------- MODULE RouteManager ----------------------------
(***************************************************************************)
(* The client's routes on Linux (obsidian/tun/routemgr.go, plan.go): what  *)
(* planRoutes asks for, a refresh that looks the hosts up without the lock *)
(* and adds the missing routes under it, one command at a time, and the    *)
(* removal on close.  The kernel's routing table outlives the process.     *)
(***************************************************************************)
EXTENDS Naturals, SequencesExt

CONSTANTS Hosts,        \* domain entries of the split list
          Entries,      \* the split list: [kind, of], kind is "ip", "host" or "zone"
          Answers,      \* what a lookup of a host may return; << >> is a failure
          V6,           \* the prefixes that are IPv6
          Def4, Def6,   \* the halves of the default route, per family
          MaxTicks      \* bound: refreshes after the first, per process

VARIABLES opt,    \* configuration and machine: see ClientHost
          table,  \* the kernel's routes: pairs <<prefix, "tun" or "gw">>
          rm,     \* routeManager: servers, resolved, applied, closed
          mu,     \* who holds routeManager.mu
          job,    \* the refresh under way, or the refresher at rest
          refused \* history: routes the system has refused to this process

rmVars == <<table, rm, mu, job, refused>>

Family(p) == IF p \in V6 THEN "v6" ELSE "v4"
NoRM   == [servers |-> << >>, resolved |-> [h \in Hosts |-> << >>],
           applied |-> << >>, closed |-> FALSE]
NoJob  == [by |-> "none", pc |-> "none", fresh |-> << >>, todo |-> << >>, ticks |-> 0]

-----------------------------------------------------------------------------
\* planRoutes: the routes in the order apply adds them, gateway routes first.

AppendNew(s, x) == IF Contains(s, x) THEN s ELSE Append(s, x)
Unique(s)       == FoldLeft(AppendNew, << >>, s)

SplitPrefixes(resolved) ==
    LET of(e) == CASE e.kind = "ip"   -> <<e.of>>
                   [] e.kind = "host" -> resolved[e.of]
                   [] OTHER           -> << >>
    IN  IF opt.mode = "off" THEN << >>
        ELSE SelectSeq(FlattenSeq([i \in DOMAIN Entries |-> of(Entries[i])]),
                       LAMBDA p : opt.ipv6 \/ p \notin V6)

planRoutes(resolved, servers) ==
    LET split    == SplitPrefixes(resolved)
        defaults == IF opt.mode = "include" THEN split ELSE <<Def4, Def6>>
        excluded == IF opt.mode = "exclude" THEN split ELSE << >>
        viaGW    == Unique(servers \o excluded)
        viaTun   == Unique(SelectSeq(defaults \o opt.dns,
                                     LAMBDA p : ~Contains(servers, p)))
    IN  [i \in DOMAIN viaGW |-> <<viaGW[i], "gw">>]
            \o [i \in DOMAIN viaTun |-> <<viaTun[i], "tun">>]

primaryServer(servers) ==
    LET v4 == SelectSeq(servers, LAMBDA p : p \notin V6)
    IN  IF v4 # << >> THEN Head(v4) ELSE Head(servers)

-----------------------------------------------------------------------------
\* refresh: by Open ("main"), then by refreshLoop ("loop").

StartRefresh(by) ==
    job' = [NoJob EXCEPT !.by = by, !.pc = "lookup",
                         !.ticks = IF by = "loop" THEN job.ticks + 1 ELSE 0]

\* What is left after a refresh: Open goes on, the loop waits for its ticker.
Rest == [job EXCEPT !.pc = IF job.by = "loop" THEN "idle" ELSE "none",
                    !.fresh = << >>, !.todo = << >>]

\* Hosts without an answer keep what they had.
Lookup ==
    /\ job.pc = "lookup"
    /\ \E f \in [Hosts -> IF opt.mode = "off" THEN {<< >>} ELSE Answers] :
           job' = [job EXCEPT !.pc = "merge", !.fresh = f]
    /\ UNCHANGED <<table, rm, mu, refused>>

Merge ==
    /\ job.pc = "merge" /\ mu = "free"
    /\ \/ /\ rm.closed
          /\ job' = Rest /\ UNCHANGED rm
       \/ /\ ~rm.closed
          /\ LET resolved == [h \in Hosts |-> IF job.fresh[h] = << >> THEN rm.resolved[h]
                                                                      ELSE job.fresh[h]]
             IN  /\ rm' = [rm EXCEPT !.resolved = resolved]
                 /\ job' = [job EXCEPT !.pc = "apply", !.fresh = << >>,
                                       !.todo = planRoutes(resolved, rm.servers)]
    /\ UNCHANGED <<table, mu, refused>>

Apply ==
    /\ job.pc = "apply" /\ mu = "free"
    /\ IF rm.closed THEN job' = Rest /\ UNCHANGED mu
                    ELSE job' = [job EXCEPT !.pc = "add"] /\ mu' = "refresh"
    /\ UNCHANGED <<table, rm, refused>>

\* execRoutes.add: no gateway of the family, or the kernel has the prefix already.
CanAdd(r) ==
    /\ r[2] = "gw" => Family(r[1]) \in opt.gateways
    /\ \A q \in table : q[1] # r[1]

addLocked ==
    /\ job.pc = "add" /\ job.todo # << >>
    /\ LET r == Head(job.todo) IN
           \/ /\ CanAdd(r) /\ ~Contains(rm.applied, r)
              /\ table' = table \cup {r}
              /\ rm' = [rm EXCEPT !.applied = Append(@, r)]
              /\ UNCHANGED refused
           \/ /\ Contains(rm.applied, r) \/ ~CanAdd(r) \/ r[1] \in opt.flaky
              /\ refused' = IF Contains(rm.applied, r) THEN refused ELSE refused \cup {r}
              /\ UNCHANGED <<table, rm>>
    /\ job' = [job EXCEPT !.todo = Tail(@)]
    /\ UNCHANGED mu

ApplyEnds ==
    /\ job.pc = "add" /\ job.todo = << >>
    /\ job' = Rest /\ mu' = "free"
    /\ UNCHANGED <<table, rm, refused>>

refreshLoop ==
    /\ job.pc = "idle"
    /\ \/ rm.closed /\ job' = [NoJob EXCEPT !.pc = "done"]
       \/ job.ticks < MaxTicks /\ StartRefresh("loop")
    /\ UNCHANGED <<table, rm, mu, refused>>

Refresh == Lookup \/ Merge \/ Apply \/ addLocked \/ ApplyEnds

-----------------------------------------------------------------------------
\* close, in the steps its caller takes.

\* A close that would keep the lock until the refresher has gone.
CloseBeginsHoldingLock ==
    /\ mu = "free" /\ mu' = "close" /\ rm' = [rm EXCEPT !.closed = TRUE]
    /\ UNCHANGED <<table, job, refused>>

CloseBegins ==
    /\ mu = "free" /\ rm' = [rm EXCEPT !.closed = TRUE]
    /\ UNCHANGED <<table, mu, job, refused>>

refresherGone == job.pc \in {"none", "done"}

\* A close that would remove the routes in the order they were added.
CloseRemovesOldest ==
    /\ rm.applied # << >>
    /\ table' = table \ {Head(rm.applied)}
    /\ rm' = [rm EXCEPT !.applied = Tail(@)]
    /\ UNCHANGED <<mu, job, refused>>

CloseRemoves ==
    /\ rm.applied # << >>
    /\ table' = table \ {Last(rm.applied)}
    /\ rm' = [rm EXCEPT !.applied = Front(@)]
    /\ UNCHANGED <<mu, job, refused>>

=============================================================================
