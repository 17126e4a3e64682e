---------------------------- MODULE LogShipping ----------------------------
(***************************************************************************)
(* Log lines on their way from files and containers to the server.         *)
(*                                                                         *)
(* Sources: agent/main.go (log tailers, log sender, docker log streaming), *)
(* agent/collector/log_tailer.go, agent/collector/docker_logs.go,          *)
(* agent/sender/http.go, HandleLogs in server/api/handler.go.              *)
(*                                                                         *)
(* Goroutines of the agent: one per tailed file; four per container stream *)
(* (StreamLogs itself, the copier that separates stdout and stderr, and a  *)
(* scanner for each of the two); the loop that compares the streams with   *)
(* the running containers; and one sender.  All readers put their lines    *)
(* into one channel, from which the sender posts them one at a time.       *)
(***************************************************************************)
EXTENDS LogDiscovery, Integers

CONSTANTS
    Config,       \* configurations the agent may have
    Container,    \* containers of the host
    Stream,       \* slots for StreamLogs goroutines; a slot is used again
    None,         \* no line
    Cap,          \* capacity of the channel
    Kinds,        \* kinds of lines of a container, of {"stdout", "stderr", "overlong"}
    MaxLines,     \* bound: lines of a file or container
    MaxStreamed,  \* bound: lines of a container
    MaxChanges,   \* bound: starts and stops of containers
    MaxRestarts   \* bound: restarts of the agent

ASSUME CapAssumption    == Cap \in Nat \ {0}
ASSUME BoundsAssumption == {MaxLines, MaxStreamed, MaxChanges, MaxRestarts} \subseteq Nat
ASSUME ConfigAssumption == \A cfg \in Config : cfg.selected \in Seq(Path)
ASSUME NameAssumption   == Container \cap Path = {} /\ Kinds \subseteq {"stdout", "stderr", "overlong"}

VARIABLES
    config,    \* the agent's configuration
    logs,      \* per file and container, the kinds of the lines written so far
    running,   \* the containers that run
    tails,     \* per tailed target, the lines read so far, or -1 before it is open
    tailHold,  \* per tailed target, the line its goroutine wants to put into the channel
    active,    \* activeStreams: the containers believed to have a stream
    streams,   \* the StreamLogs goroutines
    chan,      \* logChan
    posting,   \* the line the sender is posting
    requests,  \* posted lines the server has not handled yet
    stored,    \* how often each line is in the table logs
    access,    \* the lines in the table access_logs
    events     \* how many starts and stops, and restarts, there were

host    == <<config, logs, running>>
readers == <<tails, tailHold>>
docker  == <<active, streams>>
server  == <<requests, stored, access>>
vars    == <<host, readers, docker, chan, posting, server, events>>

Pipe == {"stdout", "stderr"}
Free == [pc |-> "free"]
Files == {RealPath[p] : p \in Path}

Line(src, n, service) == [src |-> src, n |-> n, service |-> service]

NotOpen(cfg)    == [t \in Targets(cfg) |-> -1]
NotHolding(cfg) == [t \in Targets(cfg) |-> None]
NoStream        == [s \in Stream |-> Free]

\* Containers only matter when the Docker collector is enabled.
Watched == IF config.docker THEN Container ELSE {}

Init ==
    /\ config \in Config
    /\ logs = [x \in Files \cup Container |-> <<>>]
    /\ running \in SUBSET Watched
    /\ tails = NotOpen(config) /\ tailHold = NotHolding(config)
    /\ active = {} /\ streams = NoStream
    /\ chan = <<>> /\ posting = None
    /\ requests = {} /\ access = {}
    /\ stored = [x \in Files \cup Container |-> [n \in 1..MaxLines |-> 0]]
    /\ events = [docker |-> 0, agent |-> 0]

-----------------------------------------------------------------------------
(* The host: programs write lines, containers start and stop.              *)

Write(x, kind) ==
    /\ Len(logs[x]) < MaxLines
    /\ x \in Container => x \in running /\ Len(logs[x]) < MaxStreamed
    /\ logs' = [logs EXCEPT ![x] = Append(@, kind)]
    /\ UNCHANGED <<config, running, readers, docker, chan, posting, server, events>>

StartContainer(c) ==
    /\ c \in Watched \ running /\ events.docker < MaxChanges
    /\ running' = running \cup {c}
    /\ events' = [events EXCEPT !.docker = @ + 1]
    /\ UNCHANGED <<config, logs, readers, docker, chan, posting, server>>

\* Streams that follow the container get the lines up to here, then the end.
StopContainer(c) ==
    /\ c \in running /\ events.docker < MaxChanges
    /\ running' = running \ {c}
    /\ streams' = [s \in Stream |->
                      IF streams[s].pc = "open" /\ streams[s].c = c /\ streams[s].end = None
                      THEN [streams[s] EXCEPT !.end = Len(logs[c])] ELSE streams[s]]
    /\ events' = [events EXCEPT !.docker = @ + 1]
    /\ UNCHANGED <<config, logs, readers, active, chan, posting, server>>

-----------------------------------------------------------------------------
(* Tailing files.                                                          *)

\* Mutant: the file is opened at its start, as the library does by default.
TailFile_FromStart(t) ==
    /\ tails[t] = -1 /\ t.path \in Readable
    /\ tails' = [tails EXCEPT ![t] = 0]
    /\ UNCHANGED <<host, tailHold, docker, chan, posting, server, events>>

\* The library opens the file at its end.  Paths chosen by hand come here
\* unchecked; one that cannot be opened is never read.
TailFile(t) ==
    /\ tails[t] = -1 /\ t.path \in Readable
    /\ tails' = [tails EXCEPT ![t] = Len(logs[RealPath[t.path]])]
    /\ UNCHANGED <<host, tailHold, docker, chan, posting, server, events>>

ReadLine(t) ==
    /\ tails[t] # -1 /\ tails[t] < Len(logs[RealPath[t.path]]) /\ tailHold[t] = None
    /\ tails' = [tails EXCEPT ![t] = @ + 1]
    /\ tailHold' = [tailHold EXCEPT ![t] = Line(RealPath[t.path], tails[t] + 1, t.type)]
    /\ UNCHANGED <<host, docker, chan, posting, server, events>>

\* out <- LogLine: waits while the channel is full.
SendTail(t) ==
    /\ tailHold[t] # None /\ Len(chan) < Cap
    /\ chan' = Append(chan, tailHold[t])
    /\ tailHold' = [tailHold EXCEPT ![t] = None]
    /\ UNCHANGED <<host, tails, docker, posting, server, events>>

-----------------------------------------------------------------------------
(* Streaming the logs of containers.                                       *)

\* The streams a new round starts: one for each container that has none.
NewStreams(S) ==
    \E slot \in Injection(S, {s \in Stream : streams[s] = Free}) :
       streams' = [s \in Stream |->
           IF s \in Range(slot)
           THEN [pc |-> "opening", c |-> CHOOSE c \in S : slot[c] = s, cancelled |-> FALSE]
           ELSE IF streams[s] # Free /\ streams[s].c \in active \ running
           THEN [streams[s] EXCEPT !.cancelled = TRUE]
           ELSE streams[s]]

\* Mutant: a container that stopped keeps its entry.
Reconcile_KeepsEntry ==
    /\ Cardinality({s \in Stream : streams[s] = Free}) >= Cardinality(running \ active)
    /\ NewStreams(running \ active)
    /\ active' = active \cup running
    /\ UNCHANGED <<host, readers, chan, posting, server, events>>

\* One round of the loop, every ten seconds: streams are started for running
\* containers that have no entry, and cancelled, and their entries deleted,
\* for containers that do not run.  A failing list skips the round.
Reconcile ==
    /\ active # running
    /\ Cardinality({s \in Stream : streams[s] = Free}) >= Cardinality(running \ active)
    /\ NewStreams(running \ active)
    /\ active' = running
    /\ UNCHANGED <<host, readers, chan, posting, server, events>>

\* ContainerLogs, with Tail "0": only lines written from now on, and none when
\* the container does not run any more.
OpenStream(s) ==
    /\ streams[s].pc = "opening" /\ ~streams[s].cancelled
    /\ streams' = [streams EXCEPT ![s] =
                      [pc |-> "open", c |-> @.c, cancelled |-> FALSE, pos |-> Len(logs[@.c]),
                       end |-> IF @.c \in running THEN None ELSE Len(logs[@.c]),
                       hold |-> [p \in Pipe |-> None]]]
    /\ UNCHANGED <<host, readers, active, chan, posting, server, events>>

\* ContainerLogs fails: StreamLogs returns, and its entry stays.
OpenFails(s) ==
    /\ streams[s].pc = "opening"
    /\ streams' = [streams EXCEPT ![s] = Free]
    /\ UNCHANGED <<host, readers, active, chan, posting, server, events>>

\* Mutant: the copier does not stop where the container stopped.
Copy_PastEnd(s) ==
    /\ streams[s].pc = "open" /\ ~streams[s].cancelled
    /\ streams[s].pos < Len(logs[streams[s].c])
    /\ LET n == streams[s].pos + 1
           kind == logs[streams[s].c][n]
       IN  /\ kind \in Pipe /\ streams[s].hold[kind] = None
           /\ streams' = [streams EXCEPT ![s].pos = n,
                                         ![s].hold[kind] = Line(streams[s].c, n, "container")]
    /\ UNCHANGED <<host, readers, active, chan, posting, server, events>>

\* The copier hands the next line to the scanner of its pipe, and waits for it
\* when the scanner is not done with the line before.
Copy(s) ==
    /\ streams[s].pc = "open" /\ ~streams[s].cancelled
    /\ streams[s].pos < (IF streams[s].end = None THEN Len(logs[streams[s].c]) ELSE streams[s].end)
    /\ LET n == streams[s].pos + 1
           kind == logs[streams[s].c][n]
       IN  /\ kind \in Pipe /\ streams[s].hold[kind] = None
           /\ streams' = [streams EXCEPT ![s].pos = n,
                                         ![s].hold[kind] = Line(streams[s].c, n, "container")]
    /\ UNCHANGED <<host, readers, active, chan, posting, server, events>>

\* A line longer than the scanner's buffer ends the scanner.  Nobody reads the
\* pipe any more, so the copier waits forever, and the other pipe gets nothing.
Overlong(s) ==
    /\ streams[s].pc = "open" /\ ~streams[s].cancelled
    /\ streams[s].pos < (IF streams[s].end = None THEN Len(logs[streams[s].c]) ELSE streams[s].end)
    /\ logs[streams[s].c][streams[s].pos + 1] = "overlong" /\ streams[s].hold["stdout"] = None
    /\ streams' = [streams EXCEPT ![s].pc = "stuck"]
    /\ UNCHANGED <<host, readers, active, chan, posting, server, events>>

\* The container stopped and all its lines were copied: the pipes are closed.
\* StreamLogs goes on waiting for its context.
StreamEnds(s) ==
    /\ streams[s].pc = "open" /\ streams[s].end # None /\ streams[s].pos = streams[s].end
    /\ streams' = [streams EXCEPT ![s].pc = "ended"]
    /\ UNCHANGED <<host, readers, active, chan, posting, server, events>>

\* The context is cancelled: StreamLogs returns and closes the connection.
\* Scanners that hold a line go on until the channel takes it (docker_logs.go
\* 84-86, and the deferred Close of 30).
StreamLogsReturns(s) ==
    /\ streams[s] # Free /\ streams[s].cancelled
    /\ streams[s].pc # "opening" => \A p \in Pipe : streams[s].hold[p] = None
    /\ streams' = [streams EXCEPT ![s] = Free]
    /\ UNCHANGED <<host, readers, active, chan, posting, server, events>>

SendScanned(s, p) ==
    /\ streams[s].pc \in {"open", "ended", "stuck"} /\ streams[s].hold[p] # None
    /\ Len(chan) < Cap
    /\ chan' = Append(chan, streams[s].hold[p])
    /\ streams' = [streams EXCEPT ![s].hold[p] = None]
    /\ UNCHANGED <<host, readers, active, posting, server, events>>

-----------------------------------------------------------------------------
(* The sender, and the server.                                             *)

SendLog ==
    /\ posting = None /\ chan # <<>>
    /\ posting' = Head(chan) /\ chan' = Tail(chan)
    /\ requests' = requests \cup {Head(chan)}
    /\ UNCHANGED <<host, readers, docker, stored, access, events>>

\* Mutant: the sender gives up when a post fails.
PostReturns_Once ==
    /\ posting # None
    /\ stored[posting.src][posting.n] > 0
    /\ posting' = None
    /\ UNCHANGED <<host, readers, docker, chan, server, events>>

\* Any answer, no answer within five seconds or an error: all the same, the
\* next line is taken.  After a timeout the request may still be on its way.
PostReturns ==
    /\ posting # None
    /\ posting' = None
    /\ UNCHANGED <<host, readers, docker, chan, server, events>>

WebService(service) == service \in {"apache", "nginx"}

\* HandleLogs: a line of a web server goes into access_logs first, and when
\* that fails into logs only; a failure there is answered 500.
HandleLogs(l) ==
    /\ requests' = requests \ {l}
    /\ IF WebService(l.service) THEN access' \in {access, access \cup {[src |-> l.src, n |-> l.n]}}
       ELSE UNCHANGED access
    /\ stored' \in {stored, [stored EXCEPT ![l.src][l.n] = @ + 1]}
    /\ UNCHANGED <<host, readers, docker, chan, posting, events>>

\* The request does not reach the handler.
RequestLost(l) ==
    /\ requests' = requests \ {l}
    /\ UNCHANGED <<host, readers, docker, chan, posting, stored, access, events>>

\* The agent stops or crashes and is started again; what it held is lost.
RestartAgent ==
    /\ events.agent < MaxRestarts
    /\ events' = [events EXCEPT !.agent = @ + 1]
    /\ UNCHANGED <<host, server>>
    /\ tails' = NotOpen(config) /\ tailHold' = NotHolding(config)
    /\ active' = {} /\ streams' = NoStream
    /\ chan' = <<>> /\ posting' = None

-----------------------------------------------------------------------------
Tailing(t) == TailFile(t) \/ ReadLine(t)
Following(s) == \/ OpenStream(s) \/ OpenFails(s) \/ Copy(s) \/ Overlong(s)
                \/ StreamEnds(s) \/ StreamLogsReturns(s)
Serve(l) == HandleLogs(l) \/ RequestLost(l)

Host == \/ \E f \in Files : Write(f, "line")
        \/ \E c \in Container : \/ \E k \in Kinds : Write(c, k)
                                \/ StartContainer(c) \/ StopContainer(c)

Next ==
    \/ Host \/ RestartAgent
    \/ \E t \in DOMAIN tails : Tailing(t) \/ SendTail(t)
    \/ Reconcile
    \/ \E s \in Stream : Following(s) \/ \E p \in Pipe : SendScanned(s, p)
    \/ SendLog \/ PostReturns
    \/ \E l \in requests : Serve(l)

Spec == Init /\ [][Next]_vars

AllTargets == UNION {Targets(cfg) : cfg \in Config}

\* Goroutines run, posts end within five seconds, requests arrive or not.  Go
\* serves the goroutines that wait for a channel in the order they came, so
\* none waits forever while the sender takes lines out: strong fairness.
FairSpec ==
    /\ Spec
    /\ \A t \in AllTargets : /\ WF_vars(t \in DOMAIN tails /\ Tailing(t))
                             /\ SF_vars(t \in DOMAIN tails /\ SendTail(t))
    /\ WF_vars(Reconcile)
    /\ \A s \in Stream : WF_vars(Following(s)) /\ \A p \in Pipe : SF_vars(SendScanned(s, p))
    /\ WF_vars(SendLog) /\ WF_vars(PostReturns)
    /\ WF_vars(\E l \in requests : Serve(l))

-----------------------------------------------------------------------------
(* Properties.                                                             *)

Lines == {[src |-> x, n |-> n] : x \in Files \cup Container, n \in 1..MaxLines}

IsLine(l) == [src |-> l.src, n |-> l.n] \in Lines /\ l.n <= Len(logs[l.src])

TypeOK ==
    /\ running \subseteq Container /\ active \subseteq Container /\ access \subseteq Lines
    /\ DOMAIN tails = Targets(config) /\ DOMAIN tailHold = Targets(config)
    /\ \A t \in DOMAIN tails : /\ tails[t] \in -1..Len(logs[RealPath[t.path]])
                              /\ tailHold[t] # None => IsLine(tailHold[t])
    /\ Len(chan) <= Cap /\ \A i \in DOMAIN chan : IsLine(chan[i])
    /\ posting # None => IsLine(posting)
    /\ \A l \in requests : IsLine(l)
    /\ \A s \in Stream : streams[s].pc \in {"open", "ended", "stuck"} =>
          (streams[s].end # None => streams[s].pos <= streams[s].end)

\* No line is stored twice, although files are found under several names,
\* containers stop and start, posts time out and the agent restarts
\* (main.go 116-130 and 178-207).
AtMostOnce == \A x \in Files \cup Container : \A n \in 1..MaxLines : stored[x][n] <= 1

\* The lines of a file are posted in the order in which they were written, and
\* none again after a restart (log_tailer.go 20-42).  A container's are not: a
\* cancelled stream may still hold a line when the next one is already ahead.
PostedInOrder ==
    [][posting' \notin {None, posting} /\ posting'.src \in Files =>
          \A n \in DOMAIN logs[posting'.src] :
              (\/ stored[posting'.src][n] > 0
               \/ \E r \in requests : r.src = posting'.src /\ r.n = n)
              => n < posting'.n]_vars

\* A log that belongs to an enabled web server is posted under a name by which
\* HandleLogs recognises it, whatever else found the same file (main.go 83-95).
WebLinesRecognised ==
    \A l \in requests : \A p \in Readable :
        /\ RealPath[p] = l.src
        /\ config.mode = "all"
        /\ Globs[p] \cap config.collectors \cap {"apache", "nginx"} # {}
        => WebService(l.service)

\* No reader, and not the sender, keeps a line forever: the full channel holds
\* them up, but not for good.
Drains ==
    <>[](/\ chan = <<>> /\ posting = None /\ \A t \in DOMAIN tailHold : tailHold[t] = None
         /\ \A s \in Stream : streams[s].pc \in {"open", "ended", "stuck"} =>
               \A p \in Pipe : streams[s].hold[p] = None)

\* The entries of activeStreams keep up with the containers that run, so a
\* container that a round saw stopped gets a new stream (main.go 186-207).
FollowsContainers ==
    \A c \in Container : /\ (c \in running /\ c \notin active) ~> (c \in active \/ c \notin running)
                        /\ (c \notin running /\ c \in active) ~> (c \notin active \/ c \in running)

\* "Block until context done or stream ends" (docker_logs.go 84): StreamLogs
\* does not outlive the log it streams.
StreamLogsEnds == \A s \in Stream : streams[s].pc = "ended" ~> streams[s].pc # "ended"
=============================================================================
