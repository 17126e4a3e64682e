---------------------------- MODULE LogDiscovery ----------------------------
(***************************************************************************)
(* Which log files an agent tails, and what service it says they are of.   *)
(*                                                                         *)
(* Sources: agent/main.go (the start of main), agent/discovery/logs.go.    *)
(*                                                                         *)
(* The file system is a constant: what a pattern or a scan finds is given  *)
(* with each path, not computed from its name.  A file that appears, or    *)
(* becomes readable, after the agent has started is left out.              *)
(***************************************************************************)
EXTENDS SequencesExt

CONSTANTS
    Path,      \* paths of log files, the symbolic links among them too
    RealPath,  \* path -> the file it leads to
    Resolved,  \* the paths that filepath.EvalSymlinks can follow to that file
    Readable,  \* the paths the agent can open
    Globs,     \* path -> the services whose patterns match it
    Core,      \* the paths in the list of system logs
    Opened,    \* the paths some process has open as a log
    Scanned,   \* the paths below /var/log, /opt and /home with the name of a log
    Hints      \* path -> the services its name speaks of, for a path chosen by hand

ASSUME PathAssumption ==
    /\ IsFiniteSet(Path)
    /\ RealPath \in [Path -> Path]
    /\ Readable \subseteq Resolved /\ Resolved \subseteq Path
    /\ Globs \in [Path -> SUBSET {"apache", "nginx", "pm2"}]
    /\ Hints \in [Path -> SUBSET {"apache", "nginx", "pm2", "mysql"}]
    /\ Core \subseteq Path /\ Opened \subseteq Path /\ Scanned \subseteq Path

Labelled(type, S) == [i \in 1..Len(SetToSeq(S)) |-> [path |-> SetToSeq(S)[i], type |-> type]]

\* canRead: the strategies take only paths that can be opened.
FindServiceLogs(service) == Labelled(service, {p \in Readable : service \in Globs[p]})

\* Each path once, under the first strategy that finds it.
FindLogs ==
    Labelled("system_core", Readable \cap Core)
    \o Labelled("process_open_file", Readable \cap (Opened \ Core))
    \o Labelled("filesystem_scan", Readable \cap (Scanned \ (Opened \cup Core)))

\* The tests of the name come one after another; the last that fits decides.
HandLabel(p, services) ==
    LET fits == SelectSeq(services, LAMBDA s : s \in Hints[p])
    IN  IF fits = <<>> THEN "manual_selection" ELSE Last(fits)

ByHand(paths, services) ==
    [i \in 1..Len(paths) |-> [path |-> paths[i], type |-> HandLabel(paths[i], services)]]

Enabled(cfg, service) == IF service \in cfg.collectors THEN FindServiceLogs(service) ELSE <<>>

\* Mutant: what the scanners find comes before what belongs to a service.
Candidates_ScanFirst(cfg) ==
    (CASE cfg.mode = "none"     -> <<>>
       [] cfg.mode = "selected" -> ByHand(cfg.selected, <<"apache", "nginx", "pm2", "mysql">>)
       [] OTHER -> FindLogs \o Enabled(cfg, "apache") \o Enabled(cfg, "nginx") \o Enabled(cfg, "pm2"))
    \o ByHand(cfg.selected, <<"apache", "nginx", "mysql">>)

Candidates(cfg) ==
    (CASE cfg.mode = "none"     -> <<>>
       [] cfg.mode = "selected" -> ByHand(cfg.selected, <<"apache", "nginx", "pm2", "mysql">>)
       [] OTHER -> Enabled(cfg, "apache") \o Enabled(cfg, "nginx") \o Enabled(cfg, "pm2") \o FindLogs)
    \o ByHand(cfg.selected, <<"apache", "nginx", "mysql">>)

\* Mutant: duplicates are recognised by their path, not by the file it leads to.
Targets_ByPath(cfg) ==
    LET c == Candidates(cfg)
    IN  {c[i] : i \in {i \in DOMAIN c : \A j \in 1..(i - 1) : c[j].path # c[i].path}}

\* What a candidate is recognised by: its path, when that leads nowhere.
Canonical(p) == IF p \in Resolved THEN RealPath[p] ELSE p

\* Every file once, under the first label it got.
Targets(cfg) ==
    LET c == Candidates(cfg)
    IN  {c[i] : i \in {i \in DOMAIN c : \A j \in 1..(i - 1) : Canonical(c[j].path) # Canonical(c[i].path)}}
=============================================================================
