--------------------------- MODULE ClientHostProofs ---------------------------
(***************************************************************************)
(* What the command line client leaves on its machine, for every list of   *)
(* routes, every configuration and any number of processes, each of which  *)
(* may be killed at any step: a process that ends by Close leaves none of  *)
(* its routes and the original resolv.conf.                                *)
(***************************************************************************)
EXTENDS ClientHost, TLAPS

Serving == {"dial", "session", "wait", "close"}
Original == Text(opt.conf)

\* What main has come to bounds what the goroutines, the closer and DNS are at.
Phases ==
    /\ main \in {"off", "opening", "resolve", "routes", "dns", "ready"} \cup Serving
    /\ main \in {"off", "opening", "resolve"} => rm = NoRM /\ job = NoJob
    /\ main \in {"off", "opening", "resolve", "routes"} => dns = NoDns
    /\ main \notin Serving => once.pc = "idle" /\ sg = "none"
    /\ main \in {"ready"} \cup Serving /\ once.pc = "idle" => dns.pc \in {"none", "applied"}
    /\ once.by = "none" => once.pc = "idle"
    /\ once.pc \in {"wait", "remove", "down", "closed"} => dns.pc \in {"none", "restored"}
    /\ netNil => main \notin {"routes", "dns"} /\ dns.pc = "none"

\* The routes in the table are those the process found and those it keeps in
\* applied; once the refresher is gone, nothing is added behind the closer's back.
Routes ==
    /\ main # "off" => \A r \in table : \/ r \in legacy.table
                                        \/ \E i \in DOMAIN rm.applied : r = rm.applied[i]
    /\ once.pc \in {"remove", "down", "closed"} => refresherGone
    /\ once.pc \in {"down", "closed"} => rm.applied = << >>
    /\ netNil => rm.applied = << >> /\ job.pc = "none"
    /\ RoutesRemoved

\* From the backup on, resolv.conf is in the hands of applyResolvConf or of the
\* restore function: both hold the original text.
Committed == \/ dns.pc \in {"unlink", "write", "writing", "restore", "restoring", "unback"}
             \/ dns.pc = "applied" /\ dns.undo = "file"

\* The backup, if there is one, and the text to restore are the original; without a
\* backup resolv.conf still has it.
Backups ==
    /\ dns.pc # "backup" => backup \in {"none", Original}
    /\ backup = "none" \/ dns.pc = "backup" => Text(conf) = Original
    /\ Committed => backup = Original
    /\ \/ Committed
       \/ dns.pc = "backup"
       \/ dns.pc = "stat" /\ backup = "none"
       => dns.orig = Original
    /\ dns.pc = "unback" \/ (dns.pc = "restored" /\ dns.undo = "file") => Text(conf) = Original

\* resolv.conf has not been written by this process, or has been put back.
Untouched ==
    /\ dns.undo \notin {"file", "gave up"}
    /\ dns.pc \in {"none", "start", "stat", "backup", "unlink", "applied", "revert", "restored"}
Found == main # "off" /\ Untouched => Text(conf) \in {Text(legacy.conf), Original}

\* The restore function knows of a symlink, and puts it back or gives up.
Links ==
    /\ \/ dns.pc \in {"stat", "backup", "unlink", "write", "writing", "restore", "restoring",
                      "unback"}
       \/ dns.undo = "file"
       => dns.link
    /\ \/ dns.pc \in {"write", "writing", "restore", "restoring"}
       \/ dns.pc = "applied" /\ dns.undo = "file"
       \/ dns.undo = "gave up"
       \/ conf = Link
FirstLink == opt.conf = Link =>
    /\ starts = 0 => main = "off" /\ conf = Link
    /\ starts = 1 /\ main # "off" => Links

AppliedSeq == \E S : rm.applied \in Seq(S)

Shapes ==
    /\ opt \in Options /\ starts \in Nat
    /\ rm = [servers |-> rm.servers, resolved |-> rm.resolved, applied |-> rm.applied,
             closed |-> rm.closed]
    /\ AppliedSeq
    /\ once \in [by : {"none", "main", "sg"},
                 pc : {"idle", "dns", "wait", "remove", "down", "closed"}]

DnsShapes ==
    /\ dns = [pc |-> dns.pc, orig |-> dns.orig, link |-> dns.link, undo |-> dns.undo]
    /\ dns.link \in BOOLEAN
    /\ conf.kind = "link" => conf = Link /\ opt.conf = Link
    /\ dns.link => opt.conf = Link
    /\ dns.undo = "file" => dns.pc \in {"applied", "restore", "restoring", "unback", "restored"}
    /\ dns.undo = "gave up" => dns.pc \in {"applied", "restored"}

\* What resolv.conf, its backup and the restore function are.
DnsInv == /\ DnsShapes /\ FirstLink
          /\ lost \/ (Backups /\ Found)

IInv == Shapes /\ Phases /\ Routes /\ DnsInv /\ DnsLeft

-----------------------------------------------------------------------------
\* Sequences and records.

\* What apply's append and close's removal of the last route do to applied.
LEMMA AppendKeeps ==
    ASSUME NEW S, NEW s \in Seq(S), NEW x
    PROVE  /\ Append(s, x) \in Seq(S \cup {x})
           /\ \A i \in DOMAIN s : i \in DOMAIN Append(s, x) /\ Append(s, x)[i] = s[i]
           /\ \E i \in DOMAIN Append(s, x) : Append(s, x)[i] = x
<1>1. s \in Seq(S \cup {x})
  OBVIOUS
<1>2. Len(s) + 1 \in DOMAIN Append(s, x) /\ Append(s, x)[Len(s) + 1] = x
  OBVIOUS
<1> QED BY <1>1, <1>2

LEMMA FrontKeeps ==
    ASSUME NEW S, NEW s \in Seq(S), s # << >>
    PROVE  /\ Front(s) \in Seq(S)
           /\ \A i \in DOMAIN s : \/ s[i] = Last(s)
                                  \/ i \in DOMAIN Front(s) /\ Front(s)[i] = s[i]
BY DEF Front, Last

\* The original resolv.conf has a text, which "none" is not.
LEMMA OriginalText ==
    ASSUME opt \in Options
    PROVE  /\ Original # "none"
           /\ opt.conf.kind = "link" => opt.conf = Link
           /\ opt.servers # << >>
<1>1. opt.conf \in {NoFile, Link} => Original # "none"
  BY DEF Original, Text, NoFile, Link
<1>2. ASSUME opt.conf = File(opt.conf.text)
      PROVE  opt.conf.kind = "file" /\ Original = opt.conf.text
  <2>1. File(opt.conf.text).kind = "file"
    BY DEF File
  <2> QED BY <1>2, <2>1 DEF Original, Text
<1>3. NoFile.kind = "none"
  BY DEF NoFile
<1>4. /\ opt.servers # << >>
      /\ \/ opt.conf \in {NoFile, Link}
         \/ opt.conf = File(opt.conf.text) /\ opt.conf.text # "none"
  BY OptionsAssumption, Zenon
<1>5. CASE opt.conf \in {NoFile, Link}
  BY <1>1, <1>3, <1>4, <1>5
<1>6. CASE opt.conf = File(opt.conf.text) /\ opt.conf.text # "none"
  BY <1>2, <1>4, <1>6
<1> QED BY <1>4, <1>5, <1>6

-----------------------------------------------------------------------------
\* resolv.conf.

LEMMA Texts ==
    /\ \A t : Text(File(t)) = t /\ File(t).kind = "file" /\ File(t) # Link
    /\ Text(NoFile) = "empty" /\ NoFile.kind = "none" /\ NoFile # Link
    /\ Text(Link) = "original" /\ Link.kind = "link"
BY DEF Text, File, NoFile, Link

\* DNS has a new step, the rest of the record stays.
LEMMA AtFields ==
    ASSUME DnsShapes, NEW pc, At(pc)
    PROVE  /\ dns' = [pc |-> dns'.pc, orig |-> dns'.orig, link |-> dns'.link, undo |-> dns'.undo]
           /\ dns'.pc = pc /\ UNCHANGED <<dns.orig, dns.link, dns.undo>>
BY DEF DnsShapes, At

LEMMA AppliedFields ==
    ASSUME DnsShapes, NEW undo, dns' = Applied(undo)
    PROVE  /\ dns' = [pc |-> dns'.pc, orig |-> dns'.orig, link |-> dns'.link, undo |-> dns'.undo]
           /\ dns'.pc = "applied" /\ dns'.undo = undo /\ UNCHANGED <<dns.orig, dns.link>>
BY Zenon DEF DnsShapes, Applied

\* A step of applyDNSLinux or of the restore function, in a process that runs.
DnsMove == /\ opt \in Options /\ DnsInv
           /\ main # "off" /\ main' # "off"
           /\ UNCHANGED <<opt, starts, legacy>>

LEMMA MoveFacts ==
    DnsMove =>
           /\ DnsShapes /\ FirstLink
           /\ lost \/ (Backups /\ Found)
           /\ main # "off" /\ main' # "off"
           /\ UNCHANGED <<opt, starts, legacy>>
           /\ Original # "none" /\ Original' = Original
           /\ opt.conf = Link => Original = "original"
<1> SUFFICES ASSUME DnsMove
             PROVE  /\ Original # "none" /\ Original' = Original
                    /\ opt.conf = Link => Original = "original"
  BY DEF DnsMove, DnsInv
<1> QED BY OriginalText, Texts DEF Original, DnsMove

LEMMA KeepsApplyDNSLinux ==
    ASSUME DnsMove, NEW active, applyDNSLinux(active)
    PROVE  DnsInv'
<1>1. CASE dns' = Applied("nothing")
  <2>1. /\ dns.pc = "start" /\ dns'.pc = "applied" /\ dns'.undo = "nothing"
        /\ UNCHANGED <<dns.orig, dns.link>>
        /\ UNCHANGED <<conf, backup, lost>>
        /\ dns' = [pc |-> dns'.pc, orig |-> dns'.orig, link |-> dns'.link, undo |-> dns'.undo]
    BY <1>1, MoveFacts, AppliedFields DEF applyDNSLinux
  <2> QED BY <2>1, MoveFacts, Texts
          DEF DnsInv, DnsShapes, FirstLink, Links, Backups, Committed, Found, Untouched
<1>2. CASE dns' = Applied("revert")
  <2>1. /\ dns.pc = "start" /\ dns'.pc = "applied" /\ dns'.undo = "revert"
        /\ UNCHANGED <<dns.orig, dns.link>>
        /\ UNCHANGED <<conf, backup, lost>>
        /\ dns' = [pc |-> dns'.pc, orig |-> dns'.orig, link |-> dns'.link, undo |-> dns'.undo]
    BY <1>2, MoveFacts, AppliedFields DEF applyDNSLinux
  <2> QED BY <2>1, MoveFacts, Texts
          DEF DnsInv, DnsShapes, FirstLink, Links, Backups, Committed, Found, Untouched
<1> QED BY <1>1, <1>2 DEF applyDNSLinux

LEMMA KeepsReadConf ==
    ASSUME DnsMove, NEW active, ReadConf(active)
    PROVE  DnsInv'
<1>1. CASE dns' = Applied("nothing")
  <2>1. /\ dns.pc = "start" /\ dns'.pc = "applied" /\ dns'.undo = "nothing"
        /\ UNCHANGED <<dns.orig, dns.link>>
        /\ UNCHANGED <<conf, backup, lost>>
        /\ dns' = [pc |-> dns'.pc, orig |-> dns'.orig, link |-> dns'.link, undo |-> dns'.undo]
    BY <1>1, MoveFacts, AppliedFields DEF ReadConf
  <2> QED BY <2>1, MoveFacts, Texts
          DEF DnsInv, DnsShapes, FirstLink, Links, Backups, Committed, Found, Untouched
<1>2. CASE dns' = [dns EXCEPT !.pc = "stat", !.orig = Text(conf), !.link = (conf.kind = "link")]
  <2>1. /\ dns.pc = "start" /\ dns'.pc = "stat" /\ UNCHANGED dns.undo
        /\ dns'.orig = Text(conf) /\ dns'.link = (conf.kind = "link")
        /\ UNCHANGED <<conf, backup, lost>>
        /\ dns' = [pc |-> dns'.pc, orig |-> dns'.orig, link |-> dns'.link, undo |-> dns'.undo]
    BY <1>2, MoveFacts, Zenon DEF ReadConf, DnsShapes
  <2>2. DnsShapes' /\ FirstLink'
    BY <2>1, MoveFacts, Texts, Zenon DEF DnsShapes, FirstLink, Links
  <2>3. lost' \/ (Backups' /\ Found')
    BY <2>1, MoveFacts, Texts DEF Backups, Committed, Found, Untouched
  <2> QED BY <2>2, <2>3, MoveFacts DEF DnsInv
<1> QED BY <1>1, <1>2 DEF ReadConf

LEMMA KeepsBackup ==
    ASSUME DnsMove, Backup
    PROVE  DnsInv'
<1>1. CASE dns' = Applied("nothing") /\ backup = "none" /\ UNCHANGED <<backup, lost>>
  <2>1. /\ dns.pc = "stat" /\ dns'.pc = "applied" /\ dns'.undo = "nothing"
        /\ UNCHANGED <<dns.orig, dns.link>>
        /\ UNCHANGED <<conf, backup, lost>>
        /\ dns' = [pc |-> dns'.pc, orig |-> dns'.orig, link |-> dns'.link, undo |-> dns'.undo]
    BY <1>1, MoveFacts, AppliedFields DEF Backup
  <2> QED BY <2>1, MoveFacts, Texts
          DEF DnsInv, DnsShapes, FirstLink, Links, Backups, Committed, Found, Untouched
<1>2. CASE At("backup") /\ backup = "none" /\ backup' = "empty" /\ UNCHANGED lost
  <2>1. /\ dns.pc = "stat" /\ dns'.pc = "backup"
        /\ UNCHANGED <<dns.orig, dns.link, dns.undo>>
        /\ backup = "none" /\ backup' = "empty" /\ UNCHANGED <<conf, lost>>
        /\ dns' = [pc |-> dns'.pc, orig |-> dns'.orig, link |-> dns'.link, undo |-> dns'.undo]
    BY <1>2, MoveFacts, AtFields DEF Backup
  <2> QED BY <2>1, MoveFacts, Texts
          DEF DnsInv, DnsShapes, FirstLink, Links, Backups, Committed, Found, Untouched
<1>3. CASE /\ dns' = [dns EXCEPT !.pc = "unlink", !.orig = backup]
           /\ backup # "none" /\ UNCHANGED <<backup, lost>>
  <2>1. /\ dns.pc = "stat" /\ dns'.pc = "unlink" /\ UNCHANGED <<dns.link, dns.undo>>
        /\ dns'.orig = backup /\ backup # "none"
        /\ UNCHANGED <<conf, backup, lost>>
        /\ dns' = [pc |-> dns'.pc, orig |-> dns'.orig, link |-> dns'.link, undo |-> dns'.undo]
    BY <1>3, MoveFacts, Zenon DEF Backup, DnsShapes
  <2> QED BY <2>1, MoveFacts, Texts
          DEF DnsInv, DnsShapes, FirstLink, Links, Backups, Committed, Found, Untouched
<1>4. CASE At("unlink") /\ lost' = TRUE
  <2>1. /\ dns.pc = "stat" /\ dns'.pc = "unlink"
        /\ UNCHANGED <<dns.orig, dns.link, dns.undo>>
        /\ lost' = TRUE /\ UNCHANGED conf
        /\ dns' = [pc |-> dns'.pc, orig |-> dns'.orig, link |-> dns'.link, undo |-> dns'.undo]
    BY <1>4, MoveFacts, AtFields DEF Backup
  <2> QED BY <2>1, MoveFacts, Texts DEF DnsInv, DnsShapes, FirstLink, Links
<1> QED BY <1>1, <1>2, <1>3, <1>4 DEF Backup

LEMMA KeepsBackupWritten ==
    ASSUME DnsMove, BackupWritten
    PROVE  DnsInv'
<1>1. CASE At("unlink") /\ backup' = dns.orig /\ UNCHANGED lost
  <2>1. /\ dns.pc = "backup" /\ dns'.pc = "unlink"
        /\ UNCHANGED <<dns.orig, dns.link, dns.undo>>
        /\ backup' = dns.orig /\ UNCHANGED <<conf, lost>>
        /\ dns' = [pc |-> dns'.pc, orig |-> dns'.orig, link |-> dns'.link, undo |-> dns'.undo]
    BY <1>1, MoveFacts, AtFields DEF BackupWritten
  <2> QED BY <2>1, MoveFacts, Texts
          DEF DnsInv, DnsShapes, FirstLink, Links, Backups, Committed, Found, Untouched
<1>2. CASE dns' = Applied("nothing") /\ lost' = TRUE
  <2>1. /\ dns.pc = "backup" /\ dns'.pc = "applied" /\ dns'.undo = "nothing"
        /\ UNCHANGED <<dns.orig, dns.link>>
        /\ lost' = TRUE /\ UNCHANGED conf
        /\ dns' = [pc |-> dns'.pc, orig |-> dns'.orig, link |-> dns'.link, undo |-> dns'.undo]
    BY <1>2, MoveFacts, AppliedFields DEF BackupWritten
  <2> QED BY <2>1, MoveFacts, Texts DEF DnsInv, DnsShapes, FirstLink, Links
<1> QED BY <1>1, <1>2 DEF BackupWritten

LEMMA KeepsUnlink ==
    ASSUME DnsMove, Unlink
    PROVE  DnsInv'
<1>1. /\ dns.pc = "unlink" /\ dns'.pc = "write"
      /\ UNCHANGED <<dns.orig, dns.link, dns.undo>>
      /\ conf' = IF dns.link THEN NoFile ELSE conf
      /\ UNCHANGED <<backup, lost>>
      /\ dns' = [pc |-> dns'.pc, orig |-> dns'.orig, link |-> dns'.link, undo |-> dns'.undo]
  BY MoveFacts, AtFields DEF Unlink
<1> QED BY <1>1, MoveFacts, Texts
        DEF DnsInv, DnsShapes, FirstLink, Links, Backups, Committed, Found, Untouched

LEMMA KeepsWriteConf ==
    ASSUME DnsMove, WriteConf
    PROVE  DnsInv'
<1>1. CASE At("writing") /\ conf' = File("empty")
  <2>1. /\ dns.pc = "write" /\ dns'.pc = "writing"
        /\ UNCHANGED <<dns.orig, dns.link, dns.undo>>
        /\ conf' = File("empty") /\ UNCHANGED <<backup, lost>>
        /\ dns' = [pc |-> dns'.pc, orig |-> dns'.orig, link |-> dns'.link, undo |-> dns'.undo]
    BY <1>1, MoveFacts, AtFields DEF WriteConf
  <2> QED BY <2>1, MoveFacts, Texts
          DEF DnsInv, DnsShapes, FirstLink, Links, Backups, Committed, Found, Untouched
<1>2. CASE At("restore") /\ UNCHANGED conf
  <2>1. /\ dns.pc = "write" /\ dns'.pc = "restore"
        /\ UNCHANGED <<dns.orig, dns.link, dns.undo>>
        /\ UNCHANGED <<conf, backup, lost>>
        /\ dns' = [pc |-> dns'.pc, orig |-> dns'.orig, link |-> dns'.link, undo |-> dns'.undo]
    BY <1>2, MoveFacts, AtFields DEF WriteConf
  <2> QED BY <2>1, MoveFacts, Texts
          DEF DnsInv, DnsShapes, FirstLink, Links, Backups, Committed, Found, Untouched
<1> QED BY <1>1, <1>2 DEF WriteConf

LEMMA KeepsConfWritten ==
    ASSUME DnsMove, ConfWritten
    PROVE  DnsInv'
<1>1. CASE dns' = Applied("file") /\ conf' = File(resolvConfFor)
  <2>1. /\ dns.pc = "writing" /\ dns'.pc = "applied" /\ dns'.undo = "file"
        /\ UNCHANGED <<dns.orig, dns.link>>
        /\ conf' = File(resolvConfFor) /\ UNCHANGED <<backup, lost>>
        /\ dns' = [pc |-> dns'.pc, orig |-> dns'.orig, link |-> dns'.link, undo |-> dns'.undo]
    BY <1>1, MoveFacts, AppliedFields DEF ConfWritten
  <2> QED BY <2>1, MoveFacts, Texts
          DEF DnsInv, DnsShapes, FirstLink, Links, Backups, Committed, Found, Untouched
<1>2. CASE At("restore") /\ UNCHANGED conf
  <2>1. /\ dns.pc = "writing" /\ dns'.pc = "restore"
        /\ UNCHANGED <<dns.orig, dns.link, dns.undo>>
        /\ UNCHANGED <<conf, backup, lost>>
        /\ dns' = [pc |-> dns'.pc, orig |-> dns'.orig, link |-> dns'.link, undo |-> dns'.undo]
    BY <1>2, MoveFacts, AtFields DEF ConfWritten
  <2> QED BY <2>1, MoveFacts, Texts
          DEF DnsInv, DnsShapes, FirstLink, Links, Backups, Committed, Found, Untouched
<1> QED BY <1>1, <1>2 DEF ConfWritten

LEMMA KeepsRestoreBegins ==
    ASSUME DnsMove, RestoreBegins
    PROVE  DnsInv'
<1>1. /\ dns.pc = "applied"
      /\ dns'.pc = CASE dns.undo = "file" -> "restore"
                     [] dns.undo = "revert" -> "revert"
                     [] OTHER -> "restored"
      /\ UNCHANGED <<dns.orig, dns.link, dns.undo>>
      /\ UNCHANGED <<conf, backup, lost>>
      /\ dns' = [pc |-> dns'.pc, orig |-> dns'.orig, link |-> dns'.link, undo |-> dns'.undo]
  BY MoveFacts, AtFields DEF RestoreBegins
<1> QED BY <1>1, MoveFacts, Texts
        DEF DnsInv, DnsShapes, FirstLink, Links, Backups, Committed, Found, Untouched

LEMMA KeepsRevert ==
    ASSUME DnsMove, Revert
    PROVE  DnsInv'
<1>1. /\ dns.pc = "revert" /\ dns'.pc = "restored"
      /\ UNCHANGED <<dns.orig, dns.link, dns.undo>>
      /\ UNCHANGED <<conf, backup, lost>>
      /\ dns' = [pc |-> dns'.pc, orig |-> dns'.orig, link |-> dns'.link, undo |-> dns'.undo]
  BY MoveFacts, AtFields DEF Revert
<1> QED BY <1>1, MoveFacts, Texts
        DEF DnsInv, DnsShapes, FirstLink, Links, Backups, Committed, Found, Untouched

LEMMA KeepsGivesUp ==
    ASSUME DnsMove, dns.pc \in {"restore", "restoring"}, GivesUp, UNCHANGED <<backup, lost>>
    PROVE  DnsInv'
<1>1. /\ dns'.pc \in {"applied", "restored"} /\ dns'.undo = "gave up"
      /\ UNCHANGED <<dns.orig, dns.link>>
      /\ UNCHANGED <<conf, backup, lost>>
      /\ dns' = [pc |-> dns'.pc, orig |-> dns'.orig, link |-> dns'.link, undo |-> dns'.undo]
  BY MoveFacts, Zenon DEF GivesUp, Returned, DnsShapes
<1>2. DnsShapes'
  BY <1>1, MoveFacts DEF DnsShapes
<1>3. FirstLink'
  BY <1>1, MoveFacts DEF FirstLink, Links
<1>4. Found'
  BY <1>1 DEF Found, Untouched
<1>5. ASSUME Backups PROVE Backups'
  <2>1. backup = Original /\ Original # "none"
    BY <1>5, MoveFacts DEF Backups, Committed
  <2>2. /\ ~Committed'
        /\ dns'.pc \notin {"backup", "stat", "unback"}
        /\ ~(dns'.pc = "restored" /\ dns'.undo = "file")
    BY <1>1 DEF Committed
  <2> QED BY <1>1, <2>1, <2>2, MoveFacts DEF Backups
<1>6. lost \/ Backups
  BY MoveFacts, Zenon
<1>7. lost' \/ (Backups' /\ Found')
  BY <1>4, <1>5, <1>6, Zenon
<1> QED BY <1>2, <1>3, <1>7 DEF DnsInv

LEMMA KeepsRestoreResolvConf ==
    ASSUME DnsMove, restoreResolvConf
    PROVE  DnsInv'
<1>1. CASE At("restoring") /\ conf' = IF dns.link THEN NoFile ELSE File("empty")
  <2>1. /\ dns.pc = "restore" /\ dns'.pc = "restoring"
        /\ UNCHANGED <<dns.orig, dns.link, dns.undo>>
        /\ conf' = IF dns.link THEN NoFile ELSE File("empty")
        /\ UNCHANGED <<backup, lost>>
        /\ dns' = [pc |-> dns'.pc, orig |-> dns'.orig, link |-> dns'.link, undo |-> dns'.undo]
    BY <1>1, MoveFacts, AtFields DEF restoreResolvConf
  <2> QED BY <2>1, MoveFacts, Texts
          DEF DnsInv, DnsShapes, FirstLink, Links, Backups, Committed, Found, Untouched
<1>2. CASE GivesUp
  BY <1>2, KeepsGivesUp DEF restoreResolvConf
<1> QED BY <1>1, <1>2 DEF restoreResolvConf

LEMMA KeepsRestored ==
    ASSUME DnsMove, Restored
    PROVE  DnsInv'
<1>1. CASE At("unback") /\ conf' = IF dns.link THEN Link ELSE File(dns.orig)
  <2>1. /\ dns.pc = "restoring" /\ dns'.pc = "unback"
        /\ UNCHANGED <<dns.orig, dns.link, dns.undo>>
        /\ conf' = IF dns.link THEN Link ELSE File(dns.orig)
        /\ UNCHANGED <<backup, lost>>
        /\ dns' = [pc |-> dns'.pc, orig |-> dns'.orig, link |-> dns'.link, undo |-> dns'.undo]
    BY <1>1, MoveFacts, AtFields DEF Restored
  <2> QED BY <2>1, MoveFacts, Texts
          DEF DnsInv, DnsShapes, FirstLink, Links, Backups, Committed, Found, Untouched
<1>2. CASE GivesUp
  BY <1>2, KeepsGivesUp DEF Restored
<1> QED BY <1>1, <1>2 DEF Restored

LEMMA KeepsRemoveBackup ==
    ASSUME DnsMove, RemoveBackup
    PROVE  DnsInv'
<1>1. /\ dns.pc = "unback"
      /\ dns'.pc = IF dns.undo = "nothing" THEN "applied" ELSE "restored"
      /\ UNCHANGED <<dns.orig, dns.link, dns.undo>>
      /\ backup' \in {"none", backup} /\ UNCHANGED <<conf, lost>>
      /\ dns' = [pc |-> dns'.pc, orig |-> dns'.orig, link |-> dns'.link, undo |-> dns'.undo]
  BY MoveFacts, AtFields DEF RemoveBackup, Returned
<1> QED BY <1>1, MoveFacts, Texts
        DEF DnsInv, DnsShapes, FirstLink, Links, Backups, Committed, Found, Untouched

\* Every step of applyDNSLinux and of the restore function keeps what is known of
\* resolv.conf, its backup and what the restore function holds.
LEMMA DnsStep ==
    ASSUME DnsMove, NEW active, ApplyDNS(active) \/ RestoreDNS
    PROVE  DnsInv'
BY KeepsApplyDNSLinux, KeepsReadConf, KeepsBackup, KeepsBackupWritten, KeepsUnlink,
   KeepsWriteConf, KeepsConfWritten, KeepsRestoreBegins, KeepsRevert, KeepsRestoreResolvConf, KeepsRestored, KeepsRemoveBackup
   DEF ApplyDNS, RestoreDNS

-----------------------------------------------------------------------------
\* The steps of main, of the closer and of the refresher.

\* Nothing is promised of a process that still runs.
LEMMA StillRuns == main # "off" => RoutesRemoved /\ DnsLeft
BY DEF RoutesRemoved, DnsLeft

\* Steps that leave DNS alone.
LEMMA DnsFrame ==
    ASSUME DnsInv, UNCHANGED <<opt, conf, backup, dns, starts, legacy, lost>>,
           main # "off", main' # "off"
    PROVE  DnsInv'
<1>1. DnsShapes' /\ FirstLink'
  BY DEF DnsInv, DnsShapes, FirstLink, Links
<1>2. lost \/ (Backups' /\ Found')
  BY DEF DnsInv, Backups, Committed, Found, Untouched, Original
<1> QED BY <1>1, <1>2 DEF DnsInv

\* Steps that leave the routes alone.
LEMMA RoutesFrame ==
    ASSUME Routes, UNCHANGED <<opt, table, rm, legacy>>, main # "off", main' # "off",
           once'.pc = once.pc, job.pc = "none" => job'.pc = "none",
           refresherGone => refresherGone'
    PROVE  Routes'
<1>1. RoutesRemoved'
  BY DEF RoutesRemoved
<1> QED BY <1>1 DEF Routes, netNil

LEMMA ShapesFrame ==
    ASSUME Shapes, UNCHANGED <<opt, starts, once, rm>>
    PROVE  Shapes'
BY DEF Shapes, AppliedSeq

\* Sessions, signals and waiting: main and the signal goroutine at most move on
\* among the states of a client that has started.
LEMMA ServingStep ==
    ASSUME IInv,
           UNCHANGED <<opt, table, rm, job, conf, backup, dns, once, starts, ended, legacy, lost>>,
           UNCHANGED <<main, sg>> \/ (main \in Serving /\ main' \in Serving)
    PROVE  IInv'
<1>1. Shapes'
  BY ShapesFrame DEF IInv
<1>2. Phases'
  BY DEF IInv, Phases, Serving, netNil
<1>3. CASE main = "off"
  <2>1. main' = "off"
    BY <1>3 DEF Serving
  <2>2. Routes' /\ DnsLeft'
    BY <1>3, <2>1 DEF IInv, Routes, refresherGone, netNil, RoutesRemoved, DnsLeft
  <2>3. DnsShapes' /\ FirstLink'
    BY <1>3, <2>1 DEF IInv, DnsInv, DnsShapes, FirstLink, Links
  <2>4. lost \/ (Backups' /\ Found')
    BY <1>3, <2>1 DEF IInv, DnsInv, Backups, Committed, Found, Untouched, Original
  <2> QED BY <1>1, <1>2, <2>2, <2>3, <2>4 DEF IInv, DnsInv
<1>4. CASE main # "off"
  <2>1. main' # "off"
    BY <1>4 DEF Serving
  <2>2. Routes' /\ DnsInv'
    BY <1>4, <2>1, RoutesFrame, DnsFrame DEF IInv, refresherGone
  <2> QED BY <1>1, <1>2, <2>1, <2>2, StillRuns DEF IInv, RoutesRemoved, DnsLeft
<1> QED BY <1>3, <1>4

LEMMA Nothing ==
    /\ NoRM = [servers |-> NoRM.servers, resolved |-> NoRM.resolved,
               applied |-> NoRM.applied, closed |-> NoRM.closed]
    /\ NoRM.servers = << >> /\ NoRM.applied = << >> /\ NoRM.closed = FALSE
    /\ NoJob.pc = "none"
    /\ NoDns = [pc |-> NoDns.pc, orig |-> NoDns.orig, link |-> NoDns.link, undo |-> NoDns.undo]
    /\ NoDns.pc = "none" /\ NoDns.link = FALSE /\ NoDns.undo = "nothing"
BY DEF NoRM, NoJob, NoDns

LEMMA NoSeq == ASSUME rm.applied = << >> PROVE AppliedSeq
BY << >> \in Seq({}) DEF AppliedSeq

\* A process starts: what it finds is what is there.
LEMMA StartStep == ASSUME IInv, Start PROVE IInv'
<1>1. Shapes'
  BY DEF Start, IInv, Shapes, AppliedSeq, rmVars
<1>2. Phases'
  BY DEF Start, IInv, Phases, netNil, Serving, rmVars, dnsVars
<1>3. legacy'.table = table /\ legacy'.conf = conf
  BY DEF Start
<1>4. Routes'
  BY <1>3 DEF Start, IInv, Phases, Routes, refresherGone, netNil, Serving, RoutesRemoved, rmVars
<1>5. dns = NoDns /\ UNCHANGED <<opt, conf, backup, dns, lost>>
  BY DEF Start, IInv, Phases, dnsVars
<1>6. DnsShapes' /\ FirstLink'
  BY <1>5, Nothing DEF Start, IInv, Shapes, DnsInv, DnsShapes, FirstLink, Links
<1>7. lost \/ (Backups' /\ Found')
  BY <1>3, <1>5, Nothing DEF Start, IInv, DnsInv, Backups, Committed, Found, Untouched, Original
<1>8. DnsLeft'
  BY DEF Start, DnsLeft
<1> QED BY <1>1, <1>2, <1>4, <1>5, <1>6, <1>7, <1>8 DEF IInv, DnsInv

\* Before Open has touched anything.
LEMMA OpenFailsStep == ASSUME IInv, OpenFails PROVE IInv'
<1>1. Shapes'
  BY DEF OpenFails, IInv, Shapes, AppliedSeq, rmVars
<1>2. Phases'
  BY DEF OpenFails, IInv, Phases, netNil, Serving, rmVars, dnsVars
<1>4. Routes'
  BY DEF OpenFails, IInv, Phases, Routes, refresherGone, netNil, Serving, RoutesRemoved, rmVars
<1>5. dns = NoDns /\ UNCHANGED <<opt, conf, backup, dns, lost>>
  BY DEF OpenFails, IInv, Phases, dnsVars
<1>6. DnsShapes' /\ FirstLink'
  BY <1>5, Nothing DEF OpenFails, IInv, Shapes, DnsInv, DnsShapes, FirstLink, Links
<1>7. lost \/ (Backups' /\ Found')
  BY <1>5, Nothing DEF OpenFails, IInv, DnsInv, Backups, Committed, Found, Untouched, Original
<1>8. DnsLeft'
  BY DEF OpenFails, DnsLeft
<1> QED BY <1>1, <1>2, <1>4, <1>5, <1>6, <1>7, <1>8 DEF IInv, DnsInv

LEMMA OpenStep == ASSUME IInv, Open PROVE IInv'
<1>1. /\ main = "opening" /\ main' \in {"ready", "resolve"}
      /\ UNCHANGED <<opt, table, rm, job, conf, backup, dns, sg, once, starts, ended, legacy, lost>>
  BY DEF Open, Keep, rmVars, dnsVars, pastVars
<1>2. Shapes' /\ Routes' /\ DnsInv'
  BY <1>1, ShapesFrame, RoutesFrame, DnsFrame DEF IInv, refresherGone
<1>3. Phases'
  BY <1>1, Nothing DEF IInv, Phases, netNil, Serving
<1> QED BY <1>1, <1>2, <1>3 DEF IInv, DnsLeft

LEMMA ReadyStep == ASSUME IInv, Ready PROVE IInv'
<1>1. /\ main = "ready" /\ main' = "dial"
      /\ UNCHANGED <<opt, table, rm, job, conf, backup, dns, once, starts, ended, legacy, lost>>
  BY DEF Ready, Keep, rmVars, dnsVars, pastVars
<1>2. Shapes' /\ Routes' /\ DnsInv'
  BY <1>1, ShapesFrame, RoutesFrame, DnsFrame DEF IInv, refresherGone
<1>3. Phases'
  BY <1>1 DEF IInv, Phases, netNil, Serving
<1> QED BY <1>1, <1>2, <1>3 DEF IInv, DnsLeft

\* The servers' addresses, or none: then nothing is set up.
LEMMA resolveStep == ASSUME IInv, resolveServer PROVE IInv'
<1>1. /\ main = "resolve" /\ main' \in {"routes", "ready"}
      /\ UNCHANGED <<opt, table, conf, backup, dns, sg, once, starts, ended, legacy, lost>>
  BY DEF resolveServer, Keep, dnsVars, pastVars
<1>2. rm = NoRM /\ job = NoJob /\ dns = NoDns /\ once.pc = "idle"
  BY <1>1 DEF IInv, Phases, Serving
<1>3. /\ rm' = [servers |-> rm'.servers, resolved |-> rm'.resolved,
                applied |-> rm'.applied, closed |-> rm'.closed]
      /\ rm'.applied = << >>
      /\ \/ main' = "routes" /\ (rm'.servers = opt.servers \/ opt.mode = "include")
         \/ main' = "ready" /\ UNCHANGED job
  BY <1>2, Nothing DEF resolveServer, NoRM
<1>4. opt.servers # << >>
  BY OriginalText DEF IInv, Shapes
<1>5. Shapes'
  <2>1. AppliedSeq'
    BY <1>3, << >> \in Seq({}) DEF AppliedSeq
  <2> QED BY <1>1, <1>3, <2>1 DEF IInv, Shapes
<1>6. Phases'
  BY <1>1, <1>2, <1>3, <1>4, Nothing DEF IInv, Phases, netNil, Serving
<1>7. Routes'
  <2>1. \A r \in table : r \in legacy.table
    BY <1>1, <1>2, Nothing DEF IInv, Routes
  <2> QED BY <1>1, <1>2, <1>3, <1>4, <2>1, Nothing
          DEF Routes, RoutesRemoved, netNil, refresherGone
<1> QED BY <1>1, <1>5, <1>6, <1>7, DnsFrame DEF IInv, DnsLeft

\* start is over: the refresher, if any, is there.
LEMMA startEndsStep == ASSUME IInv, startEnds PROVE IInv'
<1>1. /\ main = "routes" /\ main' \in {"ready", "dns"}
      /\ UNCHANGED <<opt, table, rm, conf, backup, sg, once, starts, ended, legacy, lost>>
  BY DEF startEnds, Keep, pastVars
<1>2. dns = NoDns /\ ~netNil /\ once.pc = "idle"
  BY <1>1 DEF IInv, Phases, Serving
<1>3. /\ dns' = [pc |-> dns'.pc, orig |-> dns'.orig, link |-> dns'.link, undo |-> dns'.undo]
      /\ dns'.link = FALSE /\ dns'.undo = "nothing" /\ dns'.pc \in {"none", "start"}
      /\ main' = "ready" => dns'.pc = "none"
  BY <1>2, Nothing, Zenon DEF startEnds, NoDns
<1>4. Shapes'
  BY <1>1, ShapesFrame DEF IInv
<1>5. Phases'
  BY <1>1, <1>2, <1>3 DEF IInv, Phases, netNil, Serving
<1>6. Routes'
  BY <1>1, <1>2 DEF IInv, Routes, RoutesRemoved, netNil
<1>7. DnsShapes' /\ FirstLink'
  BY <1>1, <1>2, <1>3, Nothing, Zenon DEF IInv, DnsInv, DnsShapes, FirstLink, Links
<1>8. lost \/ (Backups' /\ Found')
  BY <1>1, <1>2, <1>3, Nothing DEF IInv, DnsInv, Backups, Committed, Found, Untouched, Original
<1> QED BY <1>1, <1>4, <1>5, <1>6, <1>7, <1>8 DEF IInv, DnsInv, DnsLeft

LEMMA setupDNSStep == ASSUME IInv, setupDNS PROVE IInv'
<1>1. /\ main = "dns" /\ main' \in {"ready", "dns"}
      /\ UNCHANGED <<opt, table, rm, job, sg, once, starts, ended, legacy>>
      /\ main' = "ready" => dns.pc = "applied" /\ dns'.pc = "applied"
  <2>1. /\ main = "dns" /\ main' = IF dns.pc = "applied" THEN "ready" ELSE "dns"
        /\ UNCHANGED <<opt, table, rm, job, sg, once, starts, ended, legacy>>
    BY DEF setupDNS, Keep, rmVars, pastVars
  <2>2. ApplyDNS(opt.resolved) => dns.pc # "applied"
    BY DEF ApplyDNS, applyDNSLinux, ReadConf, Backup, BackupWritten, Unlink, WriteConf, ConfWritten
  <2>3. dns.pc = "applied" => dns' = dns
    BY <2>2 DEF setupDNS, dnsVars
  <2> QED BY <2>1, <2>3
<1>2. Shapes' /\ Routes'
  BY <1>1, ShapesFrame, RoutesFrame DEF IInv, refresherGone
<1>3. ~netNil /\ once.pc = "idle"
  BY <1>1 DEF IInv, Phases, Serving
<1>4. Phases'
  BY <1>1, <1>3 DEF IInv, Phases, netNil, Serving
<1>5. DnsInv'
  <2>1. DnsMove
    BY <1>1 DEF DnsMove, IInv, Shapes
  <2>2. CASE ApplyDNS(opt.resolved) \/ RestoreDNS
    BY <2>1, <2>2, DnsStep
  <2>3. CASE UNCHANGED dnsVars
    BY <1>1, <2>3, DnsFrame DEF IInv, dnsVars
  <2> QED BY <2>2, <2>3 DEF setupDNS
<1> QED BY <1>1, <1>2, <1>4, <1>5 DEF IInv, DnsLeft

\* Close begins: with nothing set up it goes straight to the device.
LEMMA CloseTakenStep == ASSUME IInv, NEW who \in {"main", "sg"}, CloseTaken(who) PROVE IInv'
<1>1. UNCHANGED <<opt, table, rm, job, conf, backup, dns, main, sg, starts, ended, legacy, lost>>
  BY DEF CloseTaken, Keep, rmVars, dnsVars, pastVars
<1>2. main \in Serving /\ main # "off"
  BY DEF CloseTaken, Closing, IInv, Phases, Serving
<1>3. /\ once.pc = "idle" /\ once'.by = who
      /\ once'.pc = IF netNil THEN "down" ELSE "dns"
      /\ once' \in [by : {"none", "main", "sg"},
                    pc : {"idle", "dns", "wait", "remove", "down", "closed"}]
  BY DEF CloseTaken, IInv, Phases
<1>4. Shapes'
  BY <1>1, <1>3 DEF IInv, Shapes, AppliedSeq
<1>5. Phases'
  BY <1>1, <1>2, <1>3 DEF IInv, Phases, netNil, Serving
<1>6. Routes'
  BY <1>1, <1>2, <1>3 DEF IInv, Routes, RoutesRemoved, netNil, refresherGone
<1> QED BY <1>1, <1>2, <1>4, <1>5, <1>6, DnsFrame DEF IInv, DnsLeft

\* Close moves on: it may leave the state of DNS, the refresher or the routes behind
\* only when that is done with.
LEMMA CloseMoves ==
    ASSUME IInv, NEW pc \in {"wait", "remove", "down", "closed"},
           once' = [once EXCEPT !.pc = pc], once.pc \in {"dns", "wait", "remove", "down"},
           UNCHANGED <<opt, job, conf, backup, dns, main, sg, starts, ended, legacy, lost>>,
           rm = rm' \/ rm' = [rm EXCEPT !.closed = TRUE], table' \subseteq table,
           dns.pc \in {"none", "restored"},
           pc # "wait" => refresherGone,
           pc \in {"down", "closed"} => rm.applied = << >>
    PROVE  IInv'
<1>1. /\ once'.pc = pc /\ once'.by = once.by
      /\ once' \in [by : {"none", "main", "sg"},
                    pc : {"idle", "dns", "wait", "remove", "down", "closed"}]
  BY DEF IInv, Shapes
<1>2. /\ rm' = [servers |-> rm'.servers, resolved |-> rm'.resolved,
                applied |-> rm'.applied, closed |-> rm'.closed]
      /\ rm'.servers = rm.servers /\ rm'.applied = rm.applied
  BY DEF IInv, Shapes
<1>3. main \in Serving /\ main # "off"
  BY DEF IInv, Phases, Serving
<1>4. Shapes'
  BY <1>1, <1>2 DEF IInv, Shapes, AppliedSeq
<1>5. Phases'
  BY <1>1, <1>2, <1>3 DEF IInv, Phases, netNil, Serving
<1>6. Routes'
  BY <1>1, <1>2, <1>3 DEF IInv, Routes, RoutesRemoved, netNil, refresherGone
<1> QED BY <1>3, <1>4, <1>5, <1>6, DnsFrame DEF IInv, DnsLeft

\* Close removes the route it added last.
LEMMA RemovesStep ==
    ASSUME IInv, once.pc = "remove", CloseRemoves,
           UNCHANGED <<opt, conf, backup, dns, main, sg, once, starts, ended, legacy, lost>>
    PROVE  IInv'
<1>1. PICK S : rm.applied \in Seq(S)
  BY DEF IInv, Shapes, AppliedSeq
<1>2. /\ rm' = [servers |-> rm'.servers, resolved |-> rm'.resolved,
                applied |-> rm'.applied, closed |-> rm'.closed]
      /\ rm'.servers = rm.servers /\ rm'.applied = Front(rm.applied)
      /\ rm.applied # << >> /\ table' = table \ {Last(rm.applied)} /\ UNCHANGED job
  BY DEF CloseRemoves, IInv, Shapes
<1>3. main \in Serving /\ main # "off"
  BY DEF IInv, Phases, Serving
<1>4. Shapes'
  BY <1>1, <1>2, FrontKeeps DEF IInv, Shapes, AppliedSeq
<1>5. Phases'
  BY <1>2, <1>3 DEF IInv, Phases, netNil, Serving
<1>6. Routes'
  <2>1. \A r \in table' : \/ r \in legacy.table
                          \/ \E i \in DOMAIN rm'.applied : r = rm'.applied[i]
    BY <1>1, <1>2, <1>3, FrontKeeps DEF IInv, Routes
  <2>2. ~netNil
    BY <1>2 DEF IInv, Routes
  <2> QED BY <1>2, <1>3, <2>1, <2>2 DEF IInv, Routes, RoutesRemoved, netNil, refresherGone
<1> QED BY <1>2, <1>3, <1>4, <1>5, <1>6, DnsFrame DEF IInv, DnsLeft

LEMMA CloseStepKeeps == ASSUME IInv, CloseStep PROVE IInv'
<1>1. UNCHANGED <<opt, main, sg, starts, ended, legacy>>
  BY DEF CloseStep, Keep, pastVars
<1>2. CASE /\ once.pc = "dns" /\ dns.pc \notin {"none", "restored"}
           /\ RestoreDNS /\ UNCHANGED <<once, rmVars, tunOpen>>
  <2>1. main \in Serving /\ main # "off"
    BY <1>2 DEF IInv, Phases, Serving
  <2>2. UNCHANGED <<once, table, rm, job>>
    BY <1>2 DEF rmVars
  <2>3. Shapes' /\ Routes'
    BY <1>1, <2>1, <2>2, ShapesFrame, RoutesFrame DEF IInv, refresherGone
  <2>4. DnsInv'
    BY <1>1, <1>2, <2>1, DnsStep DEF IInv, Shapes, DnsMove
  <2>5. Phases'
    BY <1>1, <1>2, <2>1, <2>2 DEF IInv, Phases, netNil, Serving
  <2> QED BY <1>1, <2>1, <2>3, <2>4, <2>5 DEF IInv, DnsLeft
<1>3. CASE /\ once.pc = "dns" /\ dns.pc \in {"none", "restored"}
           /\ CloseBegins
           /\ once' = [once EXCEPT !.pc = "wait"] /\ UNCHANGED <<dnsVars, tunOpen>>
  <2>1. rm' = [rm EXCEPT !.closed = TRUE] /\ UNCHANGED <<table, job, conf, backup, dns, lost>>
    BY <1>3 DEF CloseBegins, dnsVars
  <2> QED BY <1>1, <1>3, <2>1, CloseMoves
<1>4. CASE /\ once.pc = "wait" /\ refresherGone
           /\ once' = [once EXCEPT !.pc = "remove"] /\ UNCHANGED <<rmVars, dnsVars, tunOpen>>
  <2>1. UNCHANGED <<table, rm, job, conf, backup, dns, lost>> /\ dns.pc \in {"none", "restored"}
    BY <1>4 DEF IInv, Phases, dnsVars, rmVars
  <2> QED BY <1>1, <1>4, <2>1, CloseMoves
<1>5. CASE once.pc = "remove" /\ CloseRemoves /\ UNCHANGED <<once, dnsVars, tunOpen>>
  BY <1>1, <1>5, RemovesStep DEF dnsVars
<1>6. CASE /\ once.pc = "remove" /\ rm.applied = << >>
           /\ once' = [once EXCEPT !.pc = "down"] /\ UNCHANGED <<rmVars, dnsVars, tunOpen>>
  <2>1. /\ UNCHANGED <<table, rm, job, conf, backup, dns, lost>>
        /\ dns.pc \in {"none", "restored"} /\ refresherGone
    BY <1>6 DEF IInv, Phases, Routes, dnsVars, rmVars
  <2> QED BY <1>1, <1>6, <2>1, CloseMoves
<1>7. CASE /\ once.pc = "down"
           /\ once' = [once EXCEPT !.pc = "closed"] /\ tunOpen' = FALSE /\ linkDns' = FALSE
           /\ table' = {r \in table : r[2] # "tun"}
           /\ UNCHANGED <<rm, mu, job, refused, conf, backup, dns, lost>>
  <2>1. /\ table' \subseteq table /\ rm.applied = << >>
        /\ dns.pc \in {"none", "restored"} /\ refresherGone
    BY <1>7 DEF IInv, Phases, Routes
  <2> QED BY <1>1, <1>7, <2>1, CloseMoves
<1> QED BY <1>2, <1>3, <1>4, <1>5, <1>6, <1>7, Zenon DEF CloseStep

\* A process ends.  Its backup stays, and is the original unless the process died in
\* the middle of writing it.
LEMMA ProcessGone ==
    ASSUME IInv, main # "off", NoProcess, UNCHANGED <<opt, conf, backup, starts, legacy>>,
           lost' \/ (~lost /\ dns.pc # "backup"), RoutesRemoved', DnsLeft'
    PROVE  IInv'
<1>1. /\ main' = "off" /\ sg' = "none" /\ once' = [by |-> "none", pc |-> "idle"]
      /\ rm' = NoRM /\ job' = NoJob /\ dns' = NoDns
  BY DEF NoProcess
<1>2. Shapes'
  <2>1. AppliedSeq'
    BY <1>1, Nothing, << >> \in Seq({}) DEF AppliedSeq
  <2> QED BY <1>1, <2>1, Nothing DEF IInv, Shapes
<1>3. Phases'
  BY <1>1, Nothing DEF Phases, netNil, Serving
<1>4. Routes'
  BY <1>1, Nothing DEF Routes, refresherGone, netNil
<1>5. DnsShapes' /\ FirstLink'
  BY <1>1, Nothing, Zenon DEF IInv, DnsInv, DnsShapes, FirstLink
<1>6. lost' \/ (Backups' /\ Found')
  BY <1>1, Nothing DEF IInv, DnsInv, Backups, Committed, Found, Original
<1> QED BY <1>2, <1>3, <1>4, <1>5, <1>6 DEF IInv, DnsInv

\* The process ends after Close has returned.
LEMMA ExitStep == ASSUME IInv, NEW who \in {"main", "sg"}, Exit(who) PROVE IInv'
<1>1. /\ once.pc = "closed" /\ NoProcess /\ main' = "off"
      /\ table' \subseteq table /\ UNCHANGED <<opt, conf, backup, starts, legacy, lost>>
  BY DEF Exit, CloseReturns, NoProcess
<1>2. main # "off" /\ dns.pc \in {"none", "restored"} /\ rm.applied = << >>
  BY <1>1 DEF IInv, Phases, Routes, Serving
<1>3. RoutesRemoved'
  BY <1>1, <1>2 DEF IInv, Routes, RoutesRemoved
<1>4. DnsLeft'
  <2>1. dns.undo = "file" => lost \/ Text(conf) = Original
    BY <1>2 DEF IInv, DnsInv, DnsShapes, Backups
  <2>2. dns.undo \notin {"file", "gave up"} => lost \/ Text(conf) \in {Text(legacy.conf), Original}
    BY <1>2 DEF IInv, DnsInv, Found, Untouched
  <2>3. starts = 1 /\ opt.conf = Link => conf = Link \/ dns.undo = "gave up"
    BY <1>2 DEF IInv, DnsInv, FirstLink, Links
  <2>4. /\ ended' = "restored" => dns.undo = "file"
        /\ ended' = "closed" => dns.undo \notin {"file", "gave up"}
    BY DEF Exit
  <2> QED BY <1>1, <2>1, <2>2, <2>3, <2>4 DEF DnsLeft, Original
<1> QED BY <1>1, <1>2, <1>3, <1>4, ProcessGone

\* The process is killed: nothing is promised of it, and its backup is believed.
LEMMA KilledStep == ASSUME IInv, Killed PROVE IInv'
<1>1. /\ main # "off" /\ NoProcess /\ ended' = "killed"
      /\ lost' = (lost \/ dns.pc = "backup") /\ UNCHANGED <<opt, conf, backup, starts, legacy>>
  BY DEF Killed
<1>2. RoutesRemoved' /\ DnsLeft'
  BY <1>1 DEF RoutesRemoved, DnsLeft
<1>3. lost' \/ (~lost /\ dns.pc # "backup")
  BY <1>1, Zenon
<1> QED BY <1>1, <1>2, <1>3, ProcessGone

\* A refresh adds a route only together with its entry in applied, and only while
\* Close still waits for the refresher.
LEMMA RefreshKeeps ==
    ASSUME IInv, Refresh \/ refreshLoop, Keep(<<dnsVars, procVars>>)
    PROVE  IInv'
<1>1. UNCHANGED <<opt, conf, backup, dns, main, sg, once, starts, ended, legacy, lost>>
  BY DEF Keep, dnsVars, procVars, pastVars
<1>2. job.pc \in {"lookup", "merge", "apply", "add", "idle"}
  BY DEF Refresh, Lookup, Merge, Apply, addLocked, ApplyEnds, refreshLoop
<1>3. main # "off" /\ ~refresherGone /\ job # NoJob
  BY <1>2, Nothing DEF IInv, Phases, refresherGone
<1>4. ~netNil /\ once.pc \notin {"remove", "down", "closed"}
  BY <1>2, <1>3 DEF IInv, Routes
<1>5. /\ rm' = [servers |-> rm'.servers, resolved |-> rm'.resolved,
                applied |-> rm'.applied, closed |-> rm'.closed]
      /\ rm'.servers = rm.servers
      /\ \/ table' = table /\ rm'.applied = rm.applied
         \/ \E r : table' = table \cup {r} /\ rm'.applied = Append(rm.applied, r)
  <2>1. CASE Lookup \/ Apply \/ ApplyEnds \/ refreshLoop
    BY <2>1 DEF Lookup, Apply, ApplyEnds, refreshLoop, IInv, Shapes
  <2>2. CASE Merge
    BY <2>2 DEF Merge, IInv, Shapes
  <2>3. CASE addLocked
    BY <2>3, Zenon DEF addLocked, IInv, Shapes
  <2> QED BY <2>1, <2>2, <2>3 DEF Refresh
<1>6. PICK S : rm.applied \in Seq(S)
  BY DEF IInv, Shapes, AppliedSeq
<1>7. Shapes'
  <2>1. CASE rm'.applied = rm.applied
    BY <1>1, <1>5, <2>1 DEF IInv, Shapes, AppliedSeq
  <2>2. CASE \E r : rm'.applied = Append(rm.applied, r)
    <3>1. PICK r : rm'.applied = Append(rm.applied, r)
      BY <2>2
    <3>2. Append(rm.applied, r) \in Seq(S \cup {r})
      BY <1>6, AppendKeeps
    <3>3. AppliedSeq'
      BY <3>1, <3>2 DEF AppliedSeq
    <3> QED BY <1>1, <1>5, <3>3 DEF IInv, Shapes
  <2> QED BY <1>5, <2>1, <2>2
<1>8. Phases'
  <2>1. main \notin {"off", "opening", "resolve"}
    BY <1>3 DEF IInv, Phases
  <2> QED BY <1>1, <1>4, <1>5, <2>1 DEF IInv, Phases, netNil
<1>9. Routes'
  <2>1. \A r \in table' : \/ r \in legacy.table
                          \/ \E i \in DOMAIN rm'.applied : r = rm'.applied[i]
    <3>1. \A r \in table : \/ r \in legacy.table
                           \/ \E i \in DOMAIN rm.applied : r = rm.applied[i]
      BY <1>3 DEF IInv, Routes
    <3>2. CASE table' = table /\ rm'.applied = rm.applied
      BY <3>1, <3>2, Zenon
    <3>3. ASSUME NEW x, table' = table \cup {x}, rm'.applied = Append(rm.applied, x)
          PROVE  \A r \in table' : \/ r \in legacy.table
                                   \/ \E i \in DOMAIN rm'.applied : r = rm'.applied[i]
      <4>1. /\ \A i \in DOMAIN rm.applied : /\ i \in DOMAIN rm'.applied
                                            /\ rm'.applied[i] = rm.applied[i]
            /\ \E i \in DOMAIN rm'.applied : rm'.applied[i] = x
        BY <1>6, <3>3, AppendKeeps
      <4> QED BY <3>1, <3>3, <4>1, Zenon
    <3> QED BY <1>5, <3>2, <3>3
  <2> QED BY <1>1, <1>3, <1>4, <1>5, <2>1 DEF Routes, RoutesRemoved, netNil
<1> QED BY <1>1, <1>3, <1>7, <1>8, <1>9, DnsFrame DEF IInv, DnsLeft

-----------------------------------------------------------------------------
\* The invariant and what follows from it.

LEMMA InitIInv == Init => IInv
<1> SUFFICES ASSUME Init PROVE IInv
  OBVIOUS
<1>1. /\ opt \in Options /\ table = {} /\ rm = NoRM /\ job = NoJob /\ dns = NoDns
      /\ conf = opt.conf /\ backup = "none" /\ main = "off" /\ sg = "none"
      /\ once = [by |-> "none", pc |-> "idle"] /\ starts = 0 /\ ended = "never" /\ lost = FALSE
  BY DEF Init
<1>2. Shapes
  BY <1>1, Nothing, NoSeq DEF Shapes
<1>3. Phases
  BY <1>1, Nothing DEF Phases, netNil, Serving
<1>4. Routes
  BY <1>1, Nothing DEF Routes, refresherGone, netNil, RoutesRemoved
<1>5. DnsShapes /\ FirstLink
  BY <1>1, Nothing, OriginalText, Texts, Zenon DEF DnsShapes, FirstLink
<1>6. Backups /\ Found
  BY <1>1, Nothing DEF Backups, Committed, Found, Original
<1>7. DnsLeft
  BY <1>1 DEF DnsLeft
<1> QED BY <1>2, <1>3, <1>4, <1>5, <1>6, <1>7 DEF IInv, DnsInv

LEMMA NextIInv == IInv /\ [Next]_vars => IInv'
<1> SUFFICES ASSUME IInv, [Next]_vars PROVE IInv'
  OBVIOUS
<1>1. CASE Start \/ Killed \/ OpenFails \/ Open
  BY <1>1, StartStep, KilledStep, OpenFailsStep, OpenStep
<1>2. CASE resolveServer \/ startEnds \/ setupDNS \/ Ready
  BY <1>2, resolveStep, startEndsStep, setupDNSStep, ReadyStep
<1>3. CASE CloserStep
  BY <1>3, CloseStepKeeps, CloseTakenStep, ExitStep DEF CloserStep
<1>4. CASE RefreshStep \/ LoopStep
  BY <1>4, RefreshKeeps DEF RefreshStep, LoopStep
<1>5. CASE DialFails \/ Dial \/ SessionReturns \/ AfterDelay \/ MainAsked
  <2>1. /\ UNCHANGED <<opt, table, rm, job, conf, backup, dns, once, starts, ended, legacy, lost>>
        /\ main \in Serving /\ main' \in Serving
    BY <1>5 DEF DialFails, Dial, SessionReturns, AfterDelay, MainAsked, Keep, rmVars, dnsVars,
                pastVars, Serving
  <2> QED BY <2>1, ServingStep
<1>6. CASE Signal \/ StdinEnds \/ SgAsked
  <2>1. UNCHANGED <<opt, table, rm, job, conf, backup, dns, once, main, starts, ended, legacy, lost>>
    BY <1>6 DEF Signal, StdinEnds, SgAsked, Keep, rmVars, dnsVars, pastVars
  <2>2. sg # "none"
    BY <1>6 DEF Signal, StdinEnds, SgAsked
  <2>3. main \in Serving
    BY <2>2 DEF IInv, Phases
  <2> QED BY <2>1, <2>3, ServingStep
<1>7. CASE \E s \in DOMAIN ses : Worker(s) \/ Events(s)
  <2>1. KeepAllButSes
    BY <1>7 DEF Worker, Events, CopyUpFails, copyTunnelToTun, copyUDPToTun, WriterEnds, MonitorEnds,
                Report, TunnelFails, CopyUp, TunWriteFails, UdpEnds, MonitorReconnects
  <2>2. UNCHANGED <<opt, table, rm, job, conf, backup, dns, once, main, sg, starts, ended, legacy,
                    lost>>
    BY <2>1 DEF KeepAllButSes, Keep, rmVars, dnsVars, pastVars
  <2> QED BY <2>2, ServingStep
<1>8. CASE UNCHANGED vars
  <2>1. UNCHANGED <<opt, table, rm, job, conf, backup, dns, once, main, sg, starts, ended, legacy,
                    lost>>
    BY <1>8 DEF vars, rmVars, dnsVars, procVars, pastVars
  <2> QED BY <2>1, ServingStep
<1> QED BY <1>1, <1>2, <1>3, <1>4, <1>5, <1>6, <1>7, <1>8 DEF Next, MainStep

LEMMA InductiveInvariant == Spec => []IInv
BY InitIInv, NextIInv, PTL DEF Spec

\* For every split list, every list of servers and answers of the resolver, and any
\* number of processes and kills: when a process ends by Close, whichever goroutine
\* ran it and with whatever refresh under way, the kernel's table holds only routes
\* the process had found (routeManager.close, linuxDevice.Close).
THEOREM RoutesCleanedUp == Spec => []RoutesRemoved
<1>1. IInv => RoutesRemoved
  BY DEF IInv, Routes
<1> QED BY <1>1, InductiveInvariant, PTL

\* For any number of processes, each of which may be killed at any step and may fail in
\* any write: the original text of resolv.conf is always in it or in the backup, and a
\* process that ends by Close and meets no error in restoring leaves it in resolv.conf,
\* unless a backup was cut short or could not be read (applyResolvConf,
\* restoreResolvConf).
THEOREM ResolvConfRestored == Spec => []DnsRestored
<1>1. IInv => DnsRestored
  <2>1. Backups => Original \in {Text(conf), backup}
    BY DEF Backups
  <2> QED BY <2>1 DEF IInv, DnsInv, DnsRestored, DnsKept, Original
<1> QED BY <1>1, InductiveInvariant, PTL
=============================================================================
