----------------------------- MODULE ResolvConf -----------------------------
(***************************************************************************)
(* The client's DNS server on Linux (obsidian/tun/dns_linux.go): set on    *)
(* the device with resolvectl, or written to /etc/resolv.conf after the    *)
(* first backup of it.  Files outlive the process.  Writing one opens and  *)
(* truncates it first, so that a crash or a failed write cuts it short.    *)
(***************************************************************************)
EXTENDS Naturals

VARIABLES conf,    \* /etc/resolv.conf: kind "file", "link" or "none", and its text
          backup,  \* the text of the backup, or "none"
          linkDns, \* systemd-resolved has a DNS server for the device
          dns,     \* what applyDNSLinux and its restore function are at
          lost     \* history: a backup was cut short, or could not be read again

dnsVars == <<conf, backup, linkDns, dns, lost>>

\* "empty" also stands for any text that was cut short.
Text(f) == IF f.kind = "none" THEN "empty" ELSE f.text
File(t) == [kind |-> "file", text |-> t]
NoFile  == [kind |-> "none", text |-> "empty"]
Link    == [kind |-> "link", text |-> "original"]   \* its target is never written
resolvConfFor == "ours"

\* orig and link are captured by the restore function; undo names what it does, or
\* that it gave up.
NoDns == [pc |-> "none", orig |-> "empty", link |-> FALSE, undo |-> "nothing"]
Applied(undo) == [dns EXCEPT !.pc = "applied", !.undo = undo]
At(pc) == dns' = [dns EXCEPT !.pc = pc]

-----------------------------------------------------------------------------
\* applyDNSLinux.

applyDNSLinux(active) ==
    /\ dns.pc = "start" /\ active
    /\ \/ dns' = Applied("nothing") /\ UNCHANGED linkDns
       \/ dns' = Applied("revert") /\ linkDns' = TRUE
    /\ UNCHANGED <<conf, backup, lost>>

ReadConf(active) ==
    /\ dns.pc = "start" /\ ~active
    /\ \/ dns' = Applied("nothing")
       \/ dns' = [dns EXCEPT !.pc = "stat", !.orig = Text(conf), !.link = (conf.kind = "link")]
    /\ UNCHANGED <<conf, backup, linkDns, lost>>

\* A backup taken at every start, whatever an earlier run has left.
BackupAlways ==
    /\ dns.pc = "stat"
    /\ At("backup") /\ backup' = "empty"
    /\ UNCHANGED <<conf, linkDns, lost>>

\* Keep the very first backup: open one, or fail to, or read the one that is there.
Backup ==
    /\ dns.pc = "stat"
    /\ \/ backup = "none" /\ dns' = Applied("nothing") /\ UNCHANGED <<backup, lost>>
       \/ backup = "none" /\ At("backup") /\ backup' = "empty" /\ UNCHANGED lost
       \/ /\ backup # "none" /\ UNCHANGED <<backup, lost>>
          /\ dns' = [dns EXCEPT !.pc = "unlink", !.orig = backup]
       \/ backup # "none" /\ At("unlink") /\ lost' = TRUE /\ UNCHANGED backup
    /\ UNCHANGED <<conf, linkDns>>

BackupWritten ==
    /\ dns.pc = "backup"
    /\ \/ At("unlink") /\ backup' = dns.orig /\ UNCHANGED lost
       \/ dns' = Applied("nothing") /\ lost' = TRUE /\ UNCHANGED backup
    /\ UNCHANGED <<conf, linkDns>>

Unlink ==
    /\ dns.pc = "unlink"
    /\ At("write") /\ conf' = IF dns.link THEN NoFile ELSE conf
    /\ UNCHANGED <<backup, linkDns, lost>>

\* A write that fails, when it opens the file or after that, calls restoreResolvConf.
WriteConf ==
    /\ dns.pc = "write"
    /\ \/ At("writing") /\ conf' = File("empty")
       \/ At("restore") /\ UNCHANGED conf
    /\ UNCHANGED <<backup, linkDns, lost>>

ConfWritten ==
    /\ dns.pc = "writing"
    /\ \/ dns' = Applied("file") /\ conf' = File(resolvConfFor)
       \/ At("restore") /\ UNCHANGED conf
    /\ UNCHANGED <<backup, linkDns, lost>>

ApplyDNS(active) ==
    \/ applyDNSLinux(active) \/ ReadConf(active) \/ Backup \/ BackupWritten
    \/ Unlink \/ WriteConf \/ ConfWritten

-----------------------------------------------------------------------------
\* restoreDNS, called by close (undo is set) or by the failed write above.

RestoreBegins ==
    /\ dns.pc = "applied"
    /\ At(CASE dns.undo = "file"   -> "restore"
            [] dns.undo = "revert" -> "revert"
            [] OTHER               -> "restored")
    /\ UNCHANGED <<conf, backup, linkDns, lost>>

Revert ==
    /\ dns.pc = "revert"
    /\ At("restored") /\ linkDns' = FALSE
    /\ UNCHANGED <<conf, backup, lost>>

\* The function returns to its caller, applyResolvConf or close.
Returned == IF dns.undo = "nothing" THEN "applied" ELSE "restored"

\* Symlink or WriteFile fails, at the start or after the file was removed or
\* truncated: the backup stays.
GivesUp == dns' = [dns EXCEPT !.pc = Returned, !.undo = "gave up"] /\ UNCHANGED conf

restoreResolvConf ==
    /\ dns.pc = "restore"
    /\ GivesUp \/ (At("restoring") /\ conf' = IF dns.link THEN NoFile ELSE File("empty"))
    /\ UNCHANGED <<backup, linkDns, lost>>

Restored ==
    /\ dns.pc = "restoring"
    /\ GivesUp \/ (At("unback") /\ conf' = IF dns.link THEN Link ELSE File(dns.orig))
    /\ UNCHANGED <<backup, linkDns, lost>>

\* A Remove that fails is ignored.
RemoveBackup ==
    /\ dns.pc = "unback"
    /\ At(Returned) /\ backup' \in {"none", backup}
    /\ UNCHANGED <<conf, linkDns, lost>>

RestoreDNS == RestoreBegins \/ Revert \/ restoreResolvConf \/ Restored \/ RemoveBackup

=============================================================================
