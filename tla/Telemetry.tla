----------------------------- MODULE Telemetry -----------------------------
(***************************************************************************)
(* Metrics on their way from the counters of a host to the stored points.  *)
(*                                                                         *)
(* Sources: Collect in agent/collector/system.go, GetContainerMetrics in   *)
(* agent/collector/docker.go, the ticker loop of agent/main.go,            *)
(* SendMetrics in agent/sender/http.go, HandleMetrics in                   *)
(* server/api/handler.go, server/storage/influx.go.                        *)
(*                                                                         *)
(* The operating system shows counters that only grow, until a driver is   *)
(* reloaded, a drive goes or a container restarts.  The agent turns the    *)
(* difference of two readings into a rate; here a sample keeps the         *)
(* difference itself, which is the rate times the seconds between the two. *)
(* One network interface, one sum of disk bytes and one container stand    *)
(* for all.  Their readings do not depend on each other, so in a behaviour *)
(* one of the three counters moves.                                        *)
(***************************************************************************)
EXTENDS Integers, Sequences

CONSTANTS
    Width,         \* a counter is an unsigned integer below Width (2^64)
    RefreshEvery,  \* every so many ticks the interfaces are read again (10)
    FloodLimit,    \* bytes per second above which a sample is marked (10 MB/s)
    None,          \* no sample
    MaxTraffic,    \* bound: bytes moved over a counter
    MaxClock,      \* bound: seconds
    MaxTicks,      \* bound: samples made, over all the agent's lives
    MaxEvents      \* bound: counter resets, clock corrections and agent crashes

ASSUME WidthAssumption ==
    Width \in Nat /\ MaxTraffic \in Nat /\ MaxTraffic < Width /\ FloodLimit \in Nat
Sample == [id : 1..MaxTicks, iface : Nat \cup {-1}, flood : BOOLEAN]

ASSUME NoneAssumption == None \notin Sample
ASSUME TickAssumption ==
    RefreshEvery \in Nat \ {0} /\ MaxTicks \in Nat /\ MaxClock \in Nat /\ MaxEvents \in Nat

VARIABLES
    moving,    \* the counter that moves in this behaviour
    counter,   \* what the operating system shows
    now,       \* the clock of the host, in seconds
    sys,       \* SystemCollector: what it remembers of the last reading
    prev,      \* prevNetStats of the container, or -1
    phase,     \* where the ticker loop is
    sample,    \* the sample it is making or posting
    made,      \* samples made so far
    posts,     \* posted samples the server has not finished with
    points,    \* measurement "system", in the order of its time stamps
    ifaces,    \* measurement "network_interface": the counters, in that order
    moved,     \* history: bytes really moved over each counter
    reported,  \* history: bytes the samples reported, added up
    since,     \* history: network bytes moved since the last reading
    back,      \* history: the network counter went back since, or ever
    gaveUp,    \* history: samples whose post the agent did not wait for
    events     \* resets, corrections and crashes so far

os      == <<moving, counter, now>>
agent   == <<sys, prev, phase, sample, made>>
server  == <<posts, points, ifaces>>
history == <<moved, reported, since, back, gaveUp>>
vars    == <<os, agent, server, history, events>>

Meter == {"net", "disk", "rx"}
Fresh == [ts |-> 0, net |-> 0, disk |-> 0, ticks |-> 0, iface |-> -1]

Init ==
    /\ moving \in Meter /\ counter = [m \in Meter |-> 0] /\ now = 1
    /\ sys = Fresh /\ prev = -1 /\ phase = "idle" /\ sample = None /\ made = 0
    /\ posts = {} /\ points = <<>> /\ ifaces = <<>>
    /\ moved = [m \in Meter |-> 0] /\ reported = [m \in Meter |-> 0]
    /\ since = 0 /\ back = [last |-> FALSE, ever |-> FALSE] /\ gaveUp = {} /\ events = 0

-----------------------------------------------------------------------------
(* The host.  Nobody sees a counter, or the clock, between two readings:   *)
(* they change only when the agent is about to read them.                  *)

AboutToRead(m) == phase = IF m = "rx" THEN "docker" ELSE "idle"

Traffic(m) ==
    /\ AboutToRead(m) /\ m = moving
    /\ \E d \in 1..(MaxTraffic - moved[m]) :
          /\ counter' = [counter EXCEPT ![m] = @ + d]
          /\ moved' = [moved EXCEPT ![m] = @ + d]
          /\ since' = IF m = "net" THEN since + d ELSE since
    /\ UNCHANGED <<moving, now, agent, server, reported, back, gaveUp, events>>

\* A driver is reloaded or a container restarts, and its counter starts again;
\* a drive goes, and the sum over the drives falls.
CounterFalls(m) ==
    /\ AboutToRead(m)
    /\ events < MaxEvents
    /\ \E v \in 0..(counter[m] - 1) :
          /\ m \in {"net", "rx"} => v = 0
          /\ counter' = [counter EXCEPT ![m] = v]
    /\ back' = IF m = "net" THEN [last |-> TRUE, ever |-> TRUE] ELSE back
    /\ events' = events + 1
    /\ UNCHANGED <<moving, now, agent, server, moved, reported, since, gaveUp>>

Second ==
    /\ phase = "idle" /\ now < MaxClock
    /\ now' = now + 1
    /\ UNCHANGED <<moving, counter, agent, server, history, events>>

ClockSetBack ==
    /\ phase = "idle" /\ events < MaxEvents /\ now > 1
    /\ now' = now - 1 /\ events' = events + 1
    /\ UNCHANGED <<moving, counter, agent, server, history>>

-----------------------------------------------------------------------------
(* The ticker loop of the agent.  It does one thing after the other, so a  *)
(* slow call makes the ticker skip.                                        *)

\* currentTimestamp > sc.lastTimestamp, both in whole seconds
Timed == sys.ts > 0 /\ now > sys.ts

\* Mutant: the network counters are subtracted as signed numbers.
NetDelta_Signed == IF Timed THEN counter["net"] - sys.net ELSE 0

\* The subtraction of unsigned integers wraps when the counter went back.
NetDelta ==
    IF ~Timed THEN 0
    ELSE IF counter["net"] >= sys.net THEN counter["net"] - sys.net
    ELSE counter["net"] - sys.net + Width

DiskDelta == IF Timed /\ counter["disk"] >= sys.disk THEN counter["disk"] - sys.disk ELSE 0

\* tickCount % 10 == 0 || tickCount == 1
Heavy(ticks) == ticks % RefreshEvery = 0 \/ ticks = 1

Interfaces == IF Heavy(sys.ticks + 1) THEN counter["net"] ELSE sys.iface

\* Mutant: a reading within the same second is not remembered as the last.
Collect_KeepsReading ==
    /\ phase = "idle" /\ made < MaxTicks
    /\ sample' = [id |-> made + 1, iface |-> Interfaces,
                  flood |-> Timed /\ NetDelta > FloodLimit * (now - sys.ts)]
    /\ sys' = IF Timed \/ sys.ts = 0
              THEN [ts |-> now, net |-> counter["net"], disk |-> counter["disk"],
                    ticks |-> sys.ticks + 1, iface |-> Interfaces]
              ELSE [sys EXCEPT !.ticks = @ + 1, !.iface = Interfaces]
    /\ reported' = [reported EXCEPT !["net"] = @ + NetDelta, !["disk"] = @ + DiskDelta]
    /\ since' = 0 /\ back' = [back EXCEPT !.last = FALSE]
    /\ made' = made + 1 /\ phase' = "docker"
    /\ UNCHANGED <<os, prev, server, moved, gaveUp, events>>

\* Collect: the differences to the last reading, the mark, and the interfaces,
\* which are as old as the last heavy tick.  The reading is remembered even
\* when no rate could be computed from it.
Collect ==
    /\ phase = "idle" /\ made < MaxTicks
    /\ sample' = [id |-> made + 1, iface |-> Interfaces,
                  flood |-> Timed /\ NetDelta > FloodLimit * (now - sys.ts)]
    /\ sys' = [ts |-> now, net |-> counter["net"], disk |-> counter["disk"],
               ticks |-> sys.ticks + 1, iface |-> Interfaces]
    /\ reported' = [reported EXCEPT !["net"] = @ + NetDelta, !["disk"] = @ + DiskDelta]
    /\ since' = 0 /\ back' = [back EXCEPT !.last = FALSE]
    /\ made' = made + 1 /\ phase' = "docker"
    /\ UNCHANGED <<os, prev, server, moved, gaveUp, events>>

\* One of the readings failed: Collect returns before it remembers anything.
CollectFails ==
    /\ phase = "idle" /\ made < MaxTicks
    /\ phase' = "docker"
    /\ UNCHANGED <<os, sys, prev, sample, made, server, history, events>>

\* Without a system reading an empty SystemMetrics is sent for the containers.
Empty == [id |-> made + 1, iface |-> -1, flood |-> FALSE]

Posted(s) == sample' = s /\ posts' = posts \cup {[id |-> s.id, iface |-> s.iface]}

\* Mutant: a restarted container is not noticed.
RxDelta_Unsigned == IF prev = -1 THEN 0 ELSE (counter["rx"] - prev) % Width

\* A smaller count than before means that the container was restarted.
RxDelta == IF prev = -1 THEN 0
           ELSE IF counter["rx"] >= prev THEN counter["rx"] - prev ELSE counter["rx"]

\* GetContainerMetrics, then SendMetrics.
Containers ==
    /\ phase = "docker"
    /\ reported' = [reported EXCEPT !["rx"] = @ + RxDelta]
    /\ prev' = counter["rx"]
    /\ Posted(IF sample = None THEN Empty ELSE sample)
    /\ made' = IF sample = None THEN made + 1 ELSE made
    /\ phase' = "posting"
    /\ UNCHANGED <<os, sys, points, ifaces, moved, since, back, gaveUp, events>>

\* No container runs, or its statistics or the list failed: prevNetStats stays.
NoContainers ==
    /\ phase = "docker"
    /\ IF sample = None
       THEN phase' = "idle" /\ UNCHANGED <<sample, posts>>
       ELSE phase' = "posting" /\ Posted(sample)
    /\ UNCHANGED <<os, sys, prev, made, points, ifaces, history, events>>

Mine(p) == sample # None /\ p.id = sample.id

\* Mutant: the loop does not wait for the answer.
PostReturns_AtOnce ==
    /\ phase = "posting"
    /\ phase' = "idle" /\ sample' = None
    /\ UNCHANGED <<os, sys, prev, made, server, history, events>>

\* The server has answered, with whatever status, or the request was lost.
PostReturns ==
    /\ phase = "posting" /\ \A p \in posts : ~Mine(p)
    /\ phase' = "idle" /\ sample' = None
    /\ UNCHANGED <<os, sys, prev, made, server, history, events>>

\* The client's five seconds are over; the server may still get the request.
PostTimesOut ==
    /\ phase = "posting" /\ \E p \in posts : Mine(p)
    /\ gaveUp' = gaveUp \cup {sample.id}
    /\ phase' = "idle" /\ sample' = None
    /\ UNCHANGED <<os, sys, prev, made, server, moved, reported, since, back, events>>

CrashAgent ==
    /\ phase # "down" /\ events < MaxEvents
    /\ gaveUp' = gaveUp \cup (IF phase = "posting" THEN {sample.id} ELSE {})
    /\ phase' = "down" /\ sample' = None /\ sys' = Fresh /\ prev' = -1
    /\ since' = 0 /\ back' = [back EXCEPT !.last = FALSE]
    /\ events' = events + 1
    /\ UNCHANGED <<os, made, server, moved, reported>>

StartAgent ==
    /\ phase = "down"
    /\ phase' = "idle"
    /\ UNCHANGED <<os, sys, prev, sample, made, server, history, events>>

-----------------------------------------------------------------------------
(* The server.  Requests are handled by goroutines of their own.           *)

Lost(p) ==
    /\ posts' = posts \ {p}
    /\ UNCHANGED <<os, agent, points, ifaces, history, events>>

\* WriteSystemMetric stores a point with the time of the server, not of the
\* sample; then come the interfaces, whose writes may fail unnoticed.  The
\* answer follows when the alert rules have been evaluated.
HandleMetrics(p) ==
    /\ points' = Append(points, p.id)
    /\ \/ p.iface # -1 /\ ifaces' = Append(ifaces, p.iface)
       \/ UNCHANGED ifaces
    /\ posts' = posts \ {p}
    /\ UNCHANGED <<os, agent, history, events>>

\* The system point could not be written: status 500, and nothing else either.
HandleMetricsFails(p) ==
    /\ posts' = posts \ {p}
    /\ UNCHANGED <<os, agent, points, ifaces, history, events>>

-----------------------------------------------------------------------------

Agent == \/ Collect \/ CollectFails \/ Containers \/ NoContainers
         \/ PostReturns \/ PostTimesOut \/ CrashAgent \/ StartAgent

Next ==
    \/ \E m \in Meter : Traffic(m) \/ CounterFalls(m)
    \/ Second \/ ClockSetBack
    \/ Agent
    \/ \E p \in posts : Lost(p) \/ HandleMetrics(p) \/ HandleMetricsFails(p)

Spec == Init /\ [][Next]_vars

-----------------------------------------------------------------------------
(* Properties.                                                             *)

TypeOK ==
    /\ moving \in Meter /\ counter \in [Meter -> Nat] /\ now \in Nat
    /\ sys \in [ts : Nat, net : Nat, disk : Nat, ticks : Nat, iface : Nat \cup {-1}]
    /\ prev \in Nat \cup {-1}
    /\ phase \in {"down", "idle", "docker", "posting"}
    /\ sample \in Sample \cup {None} /\ (phase = "posting" => sample # None)
    /\ made \in 0..MaxTicks
    /\ \A p \in posts : p \in [id : 1..MaxTicks, iface : Nat \cup {-1}]
    /\ points \in Seq(1..MaxTicks) /\ ifaces \in Seq(Nat)
    /\ moved \in [Meter -> Nat] /\ reported \in [Meter -> Nat]
    /\ since \in Nat /\ back \in [last : BOOLEAN, ever : BOOLEAN]
    /\ gaveUp \subseteq 1..MaxTicks /\ events \in 0..MaxEvents

\* What the samples report, added up, is never more than what moved, whatever
\* restarts, clock corrections and ticks within one second do to the readings
\* (system.go 144-184, docker.go 128-153).  For the network, whose difference
\* is not guarded, that holds only while its counter never went back.
CountedOnce ==
    /\ reported["disk"] <= moved["disk"]
    /\ reported["rx"] <= moved["rx"]
    /\ ~back.ever => reported["net"] <= moved["net"]

\* A sample is marked as a flood only if more than the limit came in
\* since the reading before, or the counter went back (system.go 186-192).
NoFalseAlarm ==
    [][phase = "idle" /\ sample' # None /\ sample'.flood => back.last \/ since > FloodLimit]_vars

\* A tick is stored once, and after a later one only if the agent did not wait
\* for its post: the newest point is the newest reading while no post times
\* out (main.go 354-370, http.go 54-92).
StoredInOrder ==
    \A i, j \in DOMAIN points :
        i < j => \/ points[i] < points[j]
                 \/ points[i] > points[j] /\ points[j] \in gaveUp

\* The derivative that GetInterfaceHistory asks for: a smaller value counts
\* from zero.
Rise(a, b) == IF b >= a THEN b - a ELSE b

InterfaceHistory(q) ==
    LET sum[i \in 0..Len(q)] == IF i <= 1 THEN 0 ELSE sum[i - 1] + Rise(q[i - 1], q[i])
    IN  sum[Len(q)]

\* The history of an interface, computed from counters that are up to ten
\* ticks old when they are stored, shows no byte twice while no post times out
\* (system.go 215-312, handler.go 147-150, influx.go 349-357).
HistoryCountedOnce == gaveUp = {} => InterfaceHistory(ifaces) <= moved["net"]
=============================================================================
