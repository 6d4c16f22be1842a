------------------------------ MODULE Revocation ------------------------------
(***************************************************************************)
(* revocationStore of cmd/server/revocation.go: a static deny list and a   *)
(* file the key server rewrites, read again when its modification time is  *)
(* newer than the one remembered.  IsRevoked holds the store's mutex, so a *)
(* call is one step.  Times are half seconds: a write in second s carries  *)
(* the time 2s+1, its whole-second part is 2s.                             *)
(***************************************************************************)
EXTENDS Integers

CONSTANTS Keys,         \* the static keys a deny list may name
          StaticKeys,   \* revoked_clients of the configuration
          MaxWrites     \* the key server touches the file this often

VARIABLES file,    \* the revocation file: whether it can be read, its keys, its time
          store,   \* the store: keys, modTime, initialized
          listed,  \* history: keys in a file that was readable at some look-up
          writes   \* touches of the file used up

revVars == <<file, store, listed, writes>>

Contents == [form : {"missing", "torn", "whole"}, keys : SUBSET Keys, mtime : Int]

ZeroTime == -9   \* the zero time.Time, before any file

\* Mutant: the whole modification time is remembered.
NotTruncated(t) == t

\* ModTime().Truncate(time.Second)
Truncated(t) == t - (t % 2)

\* newRevocationStore: reload(true) forgives a missing file and fails on one it
\* cannot parse.  main drops the error (main.go:165), which leaves no store.
\* The server starts at time t, in the second of the last write or later.
RevInit(t) ==
    /\ \E form \in {"missing", "torn", "whole"}, ks \in SUBSET Keys, s \in {t - 1, t} :
         file = [form |-> form, mtime |-> 2 * s + 1,
                 keys |-> IF form = "whole" THEN ks ELSE {}]
    /\ store = CASE file.form = "missing" ->
                      [nil |-> FALSE, keys |-> StaticKeys, modTime |-> ZeroTime, initialized |-> FALSE]
                 [] file.form = "torn" ->
                      [nil |-> TRUE, keys |-> {}, modTime |-> ZeroTime, initialized |-> FALSE]
                 [] file.form = "whole" ->
                      [nil |-> FALSE, keys |-> StaticKeys \cup file.keys,
                       modTime |-> Truncated(file.mtime), initialized |-> TRUE]
    /\ listed = {}
    /\ writes \in 0 .. MaxWrites

\* The key server rewrites the file in place at time t, or the file goes away.
KeyServerTouches(t) ==
    /\ writes < MaxWrites
    /\ writes' = writes + 1
    /\ \E form \in {"missing", "torn", "whole"}, ks \in SUBSET Keys :
         file' = [form |-> form, mtime |-> 2 * t + 1,
                  keys |-> IF form = "whole" THEN ks ELSE {}]
    /\ UNCHANGED <<store, listed>>

\* The store after a successful read: earlier keys stay, the time is truncated.
Reloaded ==
    [store EXCEPT !.keys = @ \cup file.keys, !.modTime = Truncated(file.mtime),
                  !.initialized = TRUE]

\* reload(false): a file that is gone is an error, an old one is not read, and
\* one that does not parse is an error that leaves the store alone.
reloadDue  == file.form # "missing" /\ file.mtime > store.modTime
reloadFails == file.form = "missing" \/ (reloadDue /\ file.form = "torn")

\* IsRevoked(key) answers verdict.
IsRevoked(key, verdict) ==
    /\ LET after == IF reloadDue /\ ~reloadFails THEN Reloaded ELSE store
       IN  /\ store' = IF store.nil THEN store ELSE after
           /\ verdict <=> /\ ~store.nil
                          /\ IF reloadFails THEN store.initialized
                                            ELSE key \in after.keys
    /\ listed' = IF store.nil \/ file.form # "whole" THEN listed
                                                     ELSE listed \cup file.keys
    /\ UNCHANGED <<file, writes>>

RevTypeOK ==
    /\ file \in Contents
    /\ store \in [nil : BOOLEAN, keys : SUBSET Keys, modTime : Int,
                  initialized : BOOLEAN]
    /\ listed \subseteq Keys
    /\ writes \in 0 .. MaxWrites
===============================================================================
