-------------------------- MODULE Telemetry_proofs --------------------------
(***************************************************************************)
(* Proofs about Telemetry, for every counter width, limit and bound.       *)
(*                                                                         *)
(* Three arguments.  Accounting: what has been reported, plus what the     *)
(* next reading would add, is at most what moved.  Queueing: a post that   *)
(* is not the newest one was given up on.  History: the rises of a         *)
(* sequence of readings sum to no more than what moved, and leaving        *)
(* readings out does not make the sum larger.                              *)
(***************************************************************************)
EXTENDS Telemetry, SequenceTheorems, WellFoundedInduction, TLAPS

Phases ==
    /\ phase \in {"idle", "down"} => sample = None
    /\ phase = "docker" /\ sample = None => made < MaxTicks
    /\ sample # None => sample.id = made

Typed == TypeOK /\ Phases

\* A counter never shows more than moved, and the agent never remembers more.
Bounded ==
    /\ \A m \in Meter : counter[m] <= moved[m] /\ moved[m] <= MaxTraffic
    /\ sys.net <= moved["net"]

\* Unless the counter went back, it is ahead of the last reading by since.
Ahead ==
    /\ sys.ts > 0 /\ ~back.last => counter["net"] = sys.net + since
    /\ back.last => back.ever

PendingDisk == IF sys.ts > 0 /\ counter["disk"] >= sys.disk THEN counter["disk"] - sys.disk ELSE 0
PendingNet  == IF sys.ts > 0 THEN counter["net"] - sys.net ELSE 0

Accounts ==
    /\ reported["disk"] + PendingDisk <= moved["disk"]
    /\ reported["rx"] + RxDelta <= moved["rx"]
    /\ ~back.ever => reported["net"] + PendingNet <= moved["net"]

Readings == Bounded /\ Ahead /\ Accounts

\* Posts and points are of different samples, and only the last post made can
\* be one the agent still waits for.
Queue ==
    /\ \A p \in posts : /\ p.id <= made
                        /\ p.id \in gaveUp \/ (phase = "posting" /\ p.id = made)
    /\ \A p, q \in posts : p.id = q.id => p = q
    /\ \A i \in DOMAIN points : points[i] <= made /\ \A p \in posts : points[i] # p.id
    /\ \A n \in gaveUp : n <= made
    /\ phase = "docker" /\ sample # None =>
          /\ \A p \in posts : p.id # made
          /\ \A i \in DOMAIN points : points[i] # made

IInv == Typed /\ Readings /\ Queue /\ StoredInOrder

-----------------------------------------------------------------------------
(* The differences.                                                        *)

LEMMA Numbers ==
    ASSUME TypeOK
    PROVE  /\ counter["net"] \in Nat /\ counter["disk"] \in Nat /\ counter["rx"] \in Nat
           /\ moved["net"] \in Nat /\ moved["disk"] \in Nat /\ moved["rx"] \in Nat
           /\ reported["net"] \in Nat /\ reported["disk"] \in Nat /\ reported["rx"] \in Nat
           /\ sys.ts \in Nat /\ sys.net \in Nat /\ sys.disk \in Nat /\ sys.iface \in Nat \cup {-1}
           /\ sys.ticks \in Nat /\ since \in Nat /\ now \in Nat /\ prev \in Nat \cup {-1}
           /\ back.last \in BOOLEAN /\ back.ever \in BOOLEAN
  <1>1. counter \in [Meter -> Nat] /\ moved \in [Meter -> Nat] /\ reported \in [Meter -> Nat]
    BY DEF TypeOK
  <1>2. sys \in [ts : Nat, net : Nat, disk : Nat, ticks : Nat, iface : Nat \cup {-1}]
    BY DEF TypeOK
  <1>3. back \in [last : BOOLEAN, ever : BOOLEAN] /\ since \in Nat /\ now \in Nat /\ prev \in Nat \cup {-1}
    BY DEF TypeOK
  <1> QED BY <1>1, <1>2, <1>3 DEF Meter

LEMMA DeltaTypes ==
    ASSUME TypeOK, Bounded
    PROVE  NetDelta \in Nat /\ DiskDelta \in Nat /\ RxDelta \in Nat
  <1>1. sys.net <= moved["net"] /\ moved["net"] <= MaxTraffic
    BY DEF Bounded, Meter
  <1>2. NetDelta \in Nat
    BY <1>1, Numbers, WidthAssumption DEF NetDelta
  <1>3. DiskDelta \in Nat
    BY Numbers DEF DiskDelta
  <1>4. RxDelta \in Nat
    BY Numbers DEF RxDelta
  <1> QED BY <1>2, <1>3, <1>4

LEMMA TimesOne ==
    ASSUME NEW a \in Nat, NEW k \in Nat, k > 0
    PROVE  a * k >= a
  <1>1. a * k = a + a * (k - 1) /\ k - 1 \in Nat
    OBVIOUS
  <1>2. a * (k - 1) >= 0
    BY <1>1
  <1> QED BY <1>1, <1>2

-----------------------------------------------------------------------------
(* The parts of the invariant that a step leaves alone.                    *)

LEMMA FrameReadings ==
    ASSUME Readings, UNCHANGED <<counter, sys, prev, moved, reported, since, back>>
    PROVE  Readings'
  BY DEF Readings, Bounded, Ahead, Accounts, PendingDisk, PendingNet, RxDelta

LEMMA FrameQueue ==
    ASSUME Queue, StoredInOrder, UNCHANGED <<posts, points, gaveUp, made, phase, sample>>
    PROVE  Queue' /\ StoredInOrder'
  BY DEF Queue, StoredInOrder

-----------------------------------------------------------------------------
(* Types and phases.                                                       *)

LEMMA InterfacesType ==
    ASSUME TypeOK
    PROVE  Interfaces \in Nat \cup {-1}
  BY DEF TypeOK, Interfaces, Meter

LEMMA TypedTraffic ==
    ASSUME Typed, Readings, NEW m \in Meter, Traffic(m)
    PROVE  Typed'
  <1>1. PICK d \in 1..(MaxTraffic - moved[m]) :
            /\ counter' = [counter EXCEPT ![m] = @ + d]
            /\ moved' = [moved EXCEPT ![m] = @ + d]
            /\ since' = IF m = "net" THEN since + d ELSE since
    BY DEF Traffic
  <1>2. d \in Nat
    BY DEF Readings, Bounded, Typed, TypeOK
  <1>3. counter' \in [Meter -> Nat] /\ moved' \in [Meter -> Nat] /\ since' \in Nat
    <2>1. counter \in [Meter -> Nat] /\ moved \in [Meter -> Nat] /\ since \in Nat
      BY DEF Typed, TypeOK
    <2> QED BY <1>1, <1>2, <2>1
  <1> QED BY <1>3 DEF Traffic, Typed, TypeOK, Phases, agent, server

LEMMA TypedFalls ==
    ASSUME Typed, NEW m \in Meter, CounterFalls(m)
    PROVE  Typed'
  <1>1. PICK v \in 0..(counter[m] - 1) : counter' = [counter EXCEPT ![m] = v]
    BY DEF CounterFalls
  <1>2. counter' \in [Meter -> Nat]
    BY <1>1 DEF Typed, TypeOK
  <1>3. back' \in [last : BOOLEAN, ever : BOOLEAN]
    BY DEF CounterFalls, Typed, TypeOK
  <1>4. events' \in 0..MaxEvents
    <2>1. events \in 0..MaxEvents
      BY DEF Typed, TypeOK
    <2> QED BY <2>1, TickAssumption DEF CounterFalls
  <1> QED BY <1>2, <1>3, <1>4 DEF CounterFalls, Typed, TypeOK, Phases, agent, server

LEMMA TypedClock ==
    ASSUME Typed, Second \/ ClockSetBack
    PROVE  Typed'
  <1>1. now \in Nat /\ events \in 0..MaxEvents
    BY DEF Typed, TypeOK
  <1>2. now' \in Nat /\ events' \in 0..MaxEvents
    BY <1>1, TickAssumption DEF Second, ClockSetBack
  <1> QED BY <1>2 DEF Second, ClockSetBack, Typed, TypeOK, Phases, agent, server, history

LEMMA TypedCollect ==
    ASSUME Typed, Readings, Collect
    PROVE  Typed'
  <1>1. NetDelta \in Nat /\ DiskDelta \in Nat /\ Interfaces \in Nat \cup {-1}
    BY DeltaTypes, InterfacesType DEF Typed, Readings
  <1>2. made \in 0..MaxTicks /\ made < MaxTicks
    BY DEF Collect, Typed, TypeOK
  <1>3. made + 1 \in 1..MaxTicks
    BY <1>2, TickAssumption
  <1>4. DEFINE s == [id |-> made + 1, iface |-> Interfaces,
                     flood |-> Timed /\ NetDelta > FloodLimit * (now - sys.ts)]
  <1>5. s \in Sample
    BY <1>1, <1>3 DEF Sample
  <1>6. sample' = s /\ made' = made + 1 /\ phase' = "docker"
    BY DEF Collect
  <1>7. sample' \in Sample /\ sample'.id = made' /\ sample' # None
    BY <1>5, <1>6, NoneAssumption
  <1>8. sys' \in [ts : Nat, net : Nat, disk : Nat, ticks : Nat, iface : Nat \cup {-1}]
    BY <1>1, Numbers DEF Collect, Typed
  <1>9. reported' \in [Meter -> Nat]
    <2>1. reported \in [Meter -> Nat]
      BY DEF Typed, TypeOK
    <2> QED BY <1>1, <2>1 DEF Collect, Meter
  <1>10. since' \in Nat /\ back' \in [last : BOOLEAN, ever : BOOLEAN]
    <2>1. back \in [last : BOOLEAN, ever : BOOLEAN]
      BY DEF Typed, TypeOK
    <2> QED BY <2>1 DEF Collect
  <1>11. made' \in 0..MaxTicks
    BY <1>3, <1>6
  <1> QED BY <1>6, <1>7, <1>8, <1>9, <1>10, <1>11 DEF Collect, Typed, TypeOK, Phases, os, server

LEMMA TypedContainers ==
    ASSUME Typed, Readings, Containers
    PROVE  Typed'
  <1>1. RxDelta \in Nat
    BY DeltaTypes DEF Typed, Readings
  <1>2. reported' \in [Meter -> Nat] /\ prev' \in Nat
    <2>1. reported \in [Meter -> Nat]
      BY DEF Typed, TypeOK
    <2> QED BY <1>1, <2>1, Numbers DEF Containers, Meter, Typed
  <1>3. /\ sample' \in Sample /\ sample' # None /\ sample'.id = made'
        /\ posts' = posts \cup {[id |-> sample'.id, iface |-> sample'.iface]}
        /\ made' \in 0..MaxTicks
    <2>1. CASE sample = None
      <3>1. made \in 0..MaxTicks /\ made < MaxTicks
        BY <2>1 DEF Containers, Typed, TypeOK, Phases
      <3>2. made + 1 \in 1..MaxTicks
        BY <3>1, TickAssumption
      <3>3. Empty \in Sample /\ Empty.id = made + 1
        BY <3>2 DEF Empty, Sample
      <3>4. /\ sample' = Empty /\ made' = made + 1
            /\ posts' = posts \cup {[id |-> Empty.id, iface |-> Empty.iface]}
        BY <2>1 DEF Containers, Posted
      <3> QED BY <3>2, <3>3, <3>4, NoneAssumption
    <2>2. CASE sample # None
      BY <2>2 DEF Containers, Posted, Typed, TypeOK, Phases
    <2> QED BY <2>1, <2>2
  <1>4. \A p \in posts' : p \in [id : 1..MaxTicks, iface : Nat \cup {-1}]
    BY <1>3 DEF Typed, TypeOK, Sample
  <1> QED BY <1>2, <1>3, <1>4 DEF Containers, Typed, TypeOK, Phases, os

LEMMA TypedAgent ==
    ASSUME Typed, CollectFails \/ PostReturns \/ PostTimesOut \/ CrashAgent \/ StartAgent
    PROVE  Typed'
  <1>1. CASE CollectFails
    BY <1>1 DEF CollectFails, Typed, TypeOK, Phases, os, server, history
  <1>2. CASE PostReturns
    BY <1>2 DEF PostReturns, Typed, TypeOK, Phases, os, server, history
  <1>3. CASE PostTimesOut
    BY <1>3 DEF PostTimesOut, Typed, TypeOK, Phases, os, server, Sample
  <1>4. CASE CrashAgent
    <2>1. gaveUp' \subseteq 1..MaxTicks
      BY <1>4 DEF CrashAgent, Typed, TypeOK, Sample
    <2>2. sys' \in [ts : Nat, net : Nat, disk : Nat, ticks : Nat, iface : Nat \cup {-1}]
      BY <1>4 DEF CrashAgent, Fresh
    <2>3. back' \in [last : BOOLEAN, ever : BOOLEAN]
      BY <1>4 DEF CrashAgent, Typed, TypeOK
    <2>4. events' \in 0..MaxEvents
      <3>1. events \in 0..MaxEvents
        BY DEF Typed, TypeOK
      <3> QED BY <1>4, <3>1, TickAssumption DEF CrashAgent
    <2> QED BY <1>4, <2>1, <2>2, <2>3, <2>4 DEF CrashAgent, Typed, TypeOK, Phases, os, server
  <1>5. CASE StartAgent
    BY <1>5 DEF StartAgent, Typed, TypeOK, Phases, os, server, history
  <1> QED BY <1>1, <1>2, <1>3, <1>4, <1>5

LEMMA TypedNoContainers ==
    ASSUME Typed, NoContainers
    PROVE  Typed'
  <1>1. CASE sample = None
    BY <1>1 DEF NoContainers, Typed, TypeOK, Phases, os, history
  <1>2. CASE sample # None
    <2>1. /\ sample' = sample /\ phase' = "posting"
          /\ posts' = posts \cup {[id |-> sample.id, iface |-> sample.iface]}
      BY <1>2 DEF NoContainers, Posted
    <2>2. \A p \in posts' : p \in [id : 1..MaxTicks, iface : Nat \cup {-1}]
      BY <1>2, <2>1 DEF Typed, TypeOK, Sample
    <2> QED BY <1>2, <2>1, <2>2 DEF NoContainers, Typed, TypeOK, Phases, os, history
  <1> QED BY <1>1, <1>2

LEMMA TypedServer ==
    ASSUME Typed, NEW p \in posts, Lost(p) \/ HandleMetrics(p) \/ HandleMetricsFails(p)
    PROVE  Typed'
  <1>1. CASE Lost(p) \/ HandleMetricsFails(p)
    BY <1>1 DEF Lost, HandleMetricsFails, Typed, TypeOK, Phases, os, agent, history
  <1>2. CASE HandleMetrics(p)
    <2>1. p.id \in 1..MaxTicks /\ p.iface \in Nat \cup {-1}
      BY DEF Typed, TypeOK
    <2>2. points' \in Seq(1..MaxTicks) /\ ifaces' \in Seq(Nat)
      <3>1. points \in Seq(1..MaxTicks) /\ ifaces \in Seq(Nat)
        BY DEF Typed, TypeOK
      <3>2. points' = Append(points, p.id) /\ (ifaces' = ifaces \/ (p.iface # -1 /\ ifaces' = Append(ifaces, p.iface)))
        BY <1>2 DEF HandleMetrics
      <3>3. points' \in Seq(1..MaxTicks)
        BY <2>1, <3>1, <3>2
      <3>4. CASE ifaces' = ifaces
        BY <3>1, <3>3, <3>4
      <3>5. CASE p.iface # -1 /\ ifaces' = Append(ifaces, p.iface)
        <4>1. p.iface \in Nat
          BY <2>1, <3>5
        <4> QED BY <3>1, <3>3, <3>5, <4>1
      <3> QED BY <3>2, <3>4, <3>5
    <2> QED BY <1>2, <2>2 DEF HandleMetrics, Typed, TypeOK, Phases, os, agent, history
  <1> QED BY <1>1, <1>2

LEMMA TypedNext ==
    ASSUME Typed, Readings, [Next]_vars
    PROVE  Typed'
  <1>1. CASE Agent
    BY <1>1, TypedCollect, TypedContainers, TypedNoContainers, TypedAgent DEF Agent
  <1>2. CASE UNCHANGED vars
    BY <1>2 DEF vars, os, agent, server, history, Typed, TypeOK, Phases
  <1> QED BY <1>1, <1>2, TypedTraffic, TypedFalls, TypedClock, TypedServer DEF Next

-----------------------------------------------------------------------------
(* Accounting.                                                             *)

LEMMA ReadingsTraffic ==
    ASSUME Typed, Readings, NEW m \in Meter, Traffic(m)
    PROVE  Readings'
  <1>1. PICK d \in 1..(MaxTraffic - moved[m]) :
            /\ counter' = [counter EXCEPT ![m] = @ + d]
            /\ moved' = [moved EXCEPT ![m] = @ + d]
            /\ since' = IF m = "net" THEN since + d ELSE since
    BY DEF Traffic
  <1>2. counter \in [Meter -> Nat] /\ moved \in [Meter -> Nat]
    BY DEF Typed, TypeOK
  <1>3. d \in Nat /\ moved[m] + d <= MaxTraffic
    BY <1>2, WidthAssumption
  <1>4. UNCHANGED <<sys, prev, reported, back>>
    BY DEF Traffic, agent
  <1>5. \A k \in Meter : /\ counter'[k] = IF k = m THEN counter[k] + d ELSE counter[k]
                        /\ moved'[k] = IF k = m THEN moved[k] + d ELSE moved[k]
    BY <1>1, <1>2
  <1>6. Bounded'
    BY <1>2, <1>3, <1>4, <1>5, Numbers, WidthAssumption DEF Bounded, Readings, Typed, Meter
  <1>7. Ahead'
    BY <1>1, <1>3, <1>4, <1>5, Numbers DEF Ahead, Readings, Typed, Meter
  <1>8. Accounts'
    <2>1. (reported["disk"] + PendingDisk <= moved["disk"])'
      BY <1>3, <1>4, <1>5, Numbers DEF Accounts, PendingDisk, Readings, Typed, Meter
    <2>2. (reported["rx"] + RxDelta <= moved["rx"])'
      BY <1>3, <1>4, <1>5, Numbers DEF Accounts, RxDelta, Readings, Typed, Meter
    <2>3. (~back.ever => reported["net"] + PendingNet <= moved["net"])'
      BY <1>3, <1>4, <1>5, Numbers DEF Accounts, PendingNet, Readings, Typed, Meter
    <2> QED BY <2>1, <2>2, <2>3 DEF Accounts
  <1> QED BY <1>6, <1>7, <1>8 DEF Readings

LEMMA ReadingsFalls ==
    ASSUME Typed, Readings, NEW m \in Meter, CounterFalls(m)
    PROVE  Readings'
  <1>1. PICK v \in 0..(counter[m] - 1) : (m \in {"net", "rx"} => v = 0) /\ counter' = [counter EXCEPT ![m] = v]
    BY DEF CounterFalls
  <1>2. counter \in [Meter -> Nat]
    BY DEF Typed, TypeOK
  <1>3. v \in Nat /\ v < counter[m]
    BY <1>2
  <1>4. UNCHANGED <<sys, prev, reported, moved, since>>
    BY DEF CounterFalls, agent
  <1>5. \A k \in Meter : counter'[k] = IF k = m THEN v ELSE counter[k]
    BY <1>1, <1>2
  <1>6. back' = IF m = "net" THEN [last |-> TRUE, ever |-> TRUE] ELSE back
    BY DEF CounterFalls
  <1>7. Bounded'
    BY <1>3, <1>4, <1>5, Numbers DEF Bounded, Readings, Typed, Meter
  <1>8. Ahead'
    BY <1>4, <1>5, <1>6 DEF Ahead, Readings, Meter
  <1>9. Accounts'
    <2>1. (reported["disk"] + PendingDisk <= moved["disk"])'
      BY <1>3, <1>4, <1>5, Numbers DEF Accounts, PendingDisk, Readings, Typed, Meter
    <2>2. (reported["rx"] + RxDelta <= moved["rx"])'
      BY <1>1, <1>3, <1>4, <1>5, Numbers DEF Accounts, RxDelta, Readings, Typed, Meter
    <2>3. (~back.ever => reported["net"] + PendingNet <= moved["net"])'
      BY <1>4, <1>5, <1>6, Numbers DEF Accounts, PendingNet, Readings, Typed, Meter
    <2> QED BY <2>1, <2>2, <2>3 DEF Accounts
  <1> QED BY <1>7, <1>8, <1>9 DEF Readings

\* What the next reading would add is never negative.
LEMMA PendingTypes ==
    ASSUME Typed, Readings
    PROVE  /\ PendingDisk \in Nat /\ RxDelta \in Nat
           /\ ~back.ever => PendingNet \in Nat /\ (Timed => NetDelta = PendingNet)
           /\ Timed => DiskDelta = PendingDisk
  <1>1. PendingDisk \in Nat /\ RxDelta \in Nat
    BY Numbers DEF Typed, PendingDisk, RxDelta
  <1>2. ~back.ever => PendingNet \in Nat /\ (Timed => NetDelta = PendingNet)
    BY Numbers DEF Typed, Readings, Ahead, PendingNet, NetDelta, Timed
  <1>3. Timed => DiskDelta = PendingDisk
    BY DEF DiskDelta, PendingDisk, Timed
  <1> QED BY <1>1, <1>2, <1>3

LEMMA ReadingsCollect ==
    ASSUME Typed, Readings, Collect
    PROVE  Readings'
  <1>1. NetDelta \in Nat /\ DiskDelta \in Nat
    BY DeltaTypes DEF Typed, Readings
  <1>2. reported \in [Meter -> Nat]
    BY DEF Typed, TypeOK
  <1>3. /\ reported'["net"] = reported["net"] + NetDelta
        /\ reported'["disk"] = reported["disk"] + DiskDelta
        /\ reported'["rx"] = reported["rx"]
    BY <1>2 DEF Collect, Meter
  <1>4. sys'.ts = now /\ sys'.net = counter["net"] /\ sys'.disk = counter["disk"]
    BY DEF Collect
  <1>5. since' = 0 /\ back'.last = FALSE /\ back'.ever = back.ever
    <2>1. back \in [last : BOOLEAN, ever : BOOLEAN]
      BY DEF Typed, TypeOK
    <2> QED BY <2>1 DEF Collect
  <1>6. UNCHANGED <<counter, prev, moved>>
    BY DEF Collect, os
  <1>7. Bounded'
    BY <1>4, <1>6 DEF Bounded, Readings, Meter
  <1>8. Ahead'
    BY <1>4, <1>5, <1>6, Numbers DEF Ahead, Typed
  <1>9. Accounts'
    <2>1. reported["disk"] + DiskDelta <= moved["disk"]
      BY PendingTypes, Numbers DEF DiskDelta, Accounts, Readings, Typed
    <2>2. ~back.ever => reported["net"] + NetDelta <= moved["net"]
      BY PendingTypes, Numbers DEF NetDelta, Accounts, Readings, Typed
    <2>3. PendingDisk' = 0 /\ PendingNet' = 0 /\ RxDelta' = RxDelta
      BY <1>4, <1>6, Numbers DEF PendingDisk, PendingNet, RxDelta, Typed
    <2> QED BY <1>1, <1>3, <1>5, <1>6, <2>1, <2>2, <2>3, Numbers DEF Accounts, Readings, Typed
  <1> QED BY <1>7, <1>8, <1>9 DEF Readings

LEMMA ReadingsContainers ==
    ASSUME Typed, Readings, Containers
    PROVE  Readings'
  <1>1. RxDelta \in Nat
    BY PendingTypes
  <1>2. reported \in [Meter -> Nat]
    BY DEF Typed, TypeOK
  <1>3. /\ reported'["net"] = reported["net"]
        /\ reported'["disk"] = reported["disk"]
        /\ reported'["rx"] = reported["rx"] + RxDelta
    BY <1>2 DEF Containers, Meter
  <1>4. UNCHANGED <<counter, sys, moved, since, back>> /\ prev' = counter["rx"]
    BY DEF Containers, os
  <1>5. Bounded' /\ Ahead'
    BY <1>4 DEF Bounded, Ahead, Readings
  <1>6. RxDelta' = 0 /\ PendingDisk' = PendingDisk /\ PendingNet' = PendingNet
    BY <1>4, Numbers DEF RxDelta, PendingDisk, PendingNet, Typed
  <1>7. Accounts'
    BY <1>1, <1>3, <1>4, <1>6, Numbers DEF Accounts, Readings, Typed
  <1> QED BY <1>5, <1>7 DEF Readings

LEMMA ReadingsCrash ==
    ASSUME Typed, Readings, CrashAgent
    PROVE  Readings'
  <1>1. UNCHANGED <<counter, moved, reported>> /\ sys' = Fresh /\ prev' = -1
    BY DEF CrashAgent, os
  <1>2. since' = 0 /\ back'.last = FALSE /\ back'.ever = back.ever
    <2>1. back \in [last : BOOLEAN, ever : BOOLEAN]
      BY DEF Typed, TypeOK
    <2> QED BY <2>1 DEF CrashAgent
  <1>3. Bounded' /\ Ahead'
    BY <1>1, <1>2, Numbers DEF Bounded, Ahead, Fresh, Readings, Typed, Meter
  <1>4. RxDelta' = 0 /\ PendingDisk' = 0 /\ PendingNet' = 0
    BY <1>1 DEF RxDelta, PendingDisk, PendingNet, Fresh
  <1>5. Accounts'
    BY <1>1, <1>2, <1>4, PendingTypes, Numbers DEF Accounts, Readings, Typed
  <1> QED BY <1>3, <1>5 DEF Readings

LEMMA ReadingsNext ==
    ASSUME Typed, Readings, [Next]_vars
    PROVE  Readings'
  <1>1. CASE \E m \in Meter : Traffic(m) \/ CounterFalls(m)
    BY <1>1, ReadingsTraffic, ReadingsFalls
  <1>2. CASE Collect \/ Containers \/ CrashAgent
    BY <1>2, ReadingsCollect, ReadingsContainers, ReadingsCrash
  <1>3. CASE Second \/ ClockSetBack
    BY <1>3, FrameReadings DEF Second, ClockSetBack, agent, history
  <1>4. CASE CollectFails \/ NoContainers \/ PostReturns \/ PostTimesOut \/ StartAgent
    BY <1>4, FrameReadings DEF CollectFails, NoContainers, PostReturns, PostTimesOut, StartAgent, os, history
  <1>5. CASE \E p \in posts : Lost(p) \/ HandleMetrics(p) \/ HandleMetricsFails(p)
    BY <1>5, FrameReadings DEF Lost, HandleMetrics, HandleMetricsFails, os, agent, history
  <1>6. CASE UNCHANGED vars
    BY <1>6, FrameReadings DEF vars, os, agent, history
  <1> QED BY <1>1, <1>2, <1>3, <1>4, <1>5, <1>6 DEF Next, Agent

-----------------------------------------------------------------------------
(* Queueing.                                                               *)

\* Facts about sequences of sample numbers.
LEMMA PointFacts ==
    ASSUME TypeOK
    PROVE  /\ DOMAIN points = 1..Len(points) /\ Len(points) \in Nat
           /\ \A i \in DOMAIN points : points[i] \in Nat
  <1>1. points \in Seq(1..MaxTicks) /\ 1..MaxTicks \subseteq Nat
    BY TickAssumption DEF TypeOK
  <1>2. DOMAIN points = 1..Len(points) /\ Len(points) \in Nat
    BY <1>1, LenProperties
  <1>3. \A i \in DOMAIN points : points[i] \in 1..MaxTicks
    BY <1>1, <1>2, ElementOfSeq
  <1> QED BY <1>1, <1>2, <1>3

\* A post is added for the newest sample, when no other is waited for.
LEMMA QueuePosted ==
    ASSUME Typed, Queue, StoredInOrder, phase = "docker",
           NEW s \in Sample, s.id = made', made' \in Nat,
           \/ made' = made + 1
           \/ made' = made /\ sample # None,
           phase' = "posting", posts' = posts \cup {[id |-> s.id, iface |-> s.iface]},
           UNCHANGED <<points, gaveUp>>
    PROVE  Queue' /\ StoredInOrder'
  <1> DEFINE q == [id |-> s.id, iface |-> s.iface]
  <1>1. made \in Nat /\ made <= made' /\ q.id = made' /\ gaveUp \subseteq Nat
    BY TickAssumption DEF Typed, TypeOK
  <1>2. \A p \in posts : p.id \in Nat /\ p.id <= made /\ p.id \in gaveUp /\ p.id # made'
    BY <1>1 DEF Queue, Typed, TypeOK
  <1>3. \A i \in DOMAIN points : points[i] \in Nat /\ points[i] <= made /\ points[i] # made'
    <2>1. \A i \in DOMAIN points : points[i] \in Nat
      BY PointFacts DEF Typed
    <2> QED BY <1>1, <2>1 DEF Queue
  <1> HIDE DEF q
  <1>4. posts' = posts \cup {q}
    BY DEF q
  <1>5. \A p \in posts' : p.id <= made' /\ (p.id \in gaveUp' \/ p.id = made')
    BY <1>1, <1>2, <1>4
  <1>6. \A p, r \in posts' : p.id = r.id => p = r
    BY <1>1, <1>2, <1>4 DEF Queue
  <1>7. \A i \in DOMAIN points' : points'[i] <= made' /\ \A p \in posts' : points'[i] # p.id
    BY <1>1, <1>3, <1>4 DEF Queue
  <1>8. \A n \in gaveUp' : n <= made'
    BY <1>1 DEF Queue
  <1> QED BY <1>5, <1>6, <1>7, <1>8 DEF Queue, StoredInOrder

LEMMA QueueCollect ==
    ASSUME Typed, Queue, StoredInOrder, Collect
    PROVE  Queue' /\ StoredInOrder'
  <1>1. made \in Nat /\ made' = made + 1 /\ phase = "idle" /\ phase' = "docker"
    BY DEF Collect, Typed, TypeOK
  <1>2. UNCHANGED <<posts, points, gaveUp>>
    BY DEF Collect, server
  <1>3. \A p \in posts : p.id \in Nat /\ p.id <= made /\ p.id \in gaveUp
    BY <1>1 DEF Queue, Typed, TypeOK
  <1>4. \A i \in DOMAIN points : points[i] \in Nat /\ points[i] <= made
    <2>1. \A i \in DOMAIN points : points[i] \in Nat
      BY PointFacts DEF Typed
    <2> QED BY <2>1 DEF Queue
  <1>5. \A n \in gaveUp : n \in Nat /\ n <= made
    BY DEF Queue, Typed, TypeOK
  <1>6. StoredInOrder'
    BY <1>2 DEF StoredInOrder
  <1> QED BY <1>1, <1>2, <1>3, <1>4, <1>5, <1>6 DEF Queue

LEMMA QueueContainers ==
    ASSUME Typed, Queue, StoredInOrder, Containers
    PROVE  Queue' /\ StoredInOrder'
  <1>1. phase = "docker" /\ phase' = "posting" /\ UNCHANGED <<points, gaveUp>>
    BY DEF Containers
  <1>2. CASE sample = None
    <2>1. made \in 0..MaxTicks /\ made < MaxTicks
      BY <1>2, <1>1 DEF Typed, TypeOK, Phases
    <2>2. Empty \in Sample /\ Empty.id = made + 1
      BY <2>1, TickAssumption DEF Empty, Sample
    <2>3. made' = made + 1 /\ posts' = posts \cup {[id |-> Empty.id, iface |-> Empty.iface]}
      BY <1>2 DEF Containers, Posted
    <2>4. made' \in Nat
      BY <2>1, <2>3
    <2> QED BY <1>1, <2>2, <2>3, <2>4, QueuePosted
  <1>3. CASE sample # None
    <2>1. sample \in Sample /\ sample.id = made /\ made \in Nat
      BY <1>3 DEF Typed, TypeOK, Phases
    <2>2. made' = made /\ posts' = posts \cup {[id |-> sample.id, iface |-> sample.iface]}
      BY <1>3 DEF Containers, Posted
    <2> QED BY <1>1, <1>3, <2>1, <2>2, QueuePosted
  <1> QED BY <1>2, <1>3

LEMMA QueueNoContainers ==
    ASSUME Typed, Queue, StoredInOrder, NoContainers
    PROVE  Queue' /\ StoredInOrder'
  <1>1. phase = "docker" /\ UNCHANGED <<made, points, gaveUp>>
    BY DEF NoContainers, history
  <1>2. CASE sample = None
    BY <1>1, <1>2 DEF NoContainers, Queue, StoredInOrder
  <1>3. CASE sample # None
    <2>1. sample \in Sample /\ sample.id = made /\ made \in Nat
      BY <1>3 DEF Typed, TypeOK, Phases
    <2>2. phase' = "posting" /\ posts' = posts \cup {[id |-> sample.id, iface |-> sample.iface]}
      BY <1>3 DEF NoContainers, Posted
    <2> QED BY <1>1, <1>3, <2>1, <2>2, QueuePosted
  <1> QED BY <1>2, <1>3

LEMMA QueueAgent ==
    ASSUME Typed, Queue, StoredInOrder, PostReturns \/ PostTimesOut \/ CrashAgent
    PROVE  Queue' /\ StoredInOrder'
  <1>1. UNCHANGED <<made, posts, points>> /\ phase' # "posting" /\ phase' # "docker"
    BY DEF PostReturns, PostTimesOut, CrashAgent, server
  <1>2. phase = "posting" => sample # None /\ sample.id = made
    BY DEF Typed, TypeOK, Phases
  <1>3. gaveUp \subseteq gaveUp'
    BY DEF PostReturns, PostTimesOut, CrashAgent, history
  <1>4. \A p \in posts : p.id <= made /\ p.id \in gaveUp'
    <2>1. ASSUME NEW p \in posts, phase = "posting", p.id = made
          PROVE  p.id \in gaveUp'
      BY <1>2, <2>1 DEF PostReturns, PostTimesOut, CrashAgent, Mine
    <2> QED BY <1>3, <2>1 DEF Queue
  <1>5. \A n \in gaveUp' : n <= made
    <2>1. made \in Nat /\ made <= made
      BY DEF Typed, TypeOK
    <2>2. \A n \in gaveUp' : n \in gaveUp \/ n = made
      BY <1>2 DEF PostReturns, PostTimesOut, CrashAgent, history
    <2> QED BY <2>1, <2>2 DEF Queue
  <1>6. StoredInOrder'
    BY <1>1, <1>3 DEF StoredInOrder
  <1> QED BY <1>1, <1>4, <1>5, <1>6 DEF Queue

LEMMA QueueServer ==
    ASSUME Typed, Queue, StoredInOrder,
           NEW p \in posts, Lost(p) \/ HandleMetrics(p) \/ HandleMetricsFails(p)
    PROVE  Queue' /\ StoredInOrder'
  <1>1. UNCHANGED <<phase, sample, made, gaveUp>> /\ posts' = posts \ {p}
    BY DEF Lost, HandleMetrics, HandleMetricsFails, agent, history
  <1>2. CASE UNCHANGED points
    BY <1>1, <1>2 DEF Queue, StoredInOrder
  <1>3. CASE points' = Append(points, p.id)
    <2>1. points \in Seq(1..MaxTicks) /\ p.id \in 1..MaxTicks /\ made \in Nat
      BY DEF Typed, TypeOK
    <2>2. DOMAIN points = 1..Len(points) /\ Len(points) \in Nat /\ \A i \in DOMAIN points : points[i] \in Nat
      BY PointFacts DEF Typed
    <2>3. /\ points' \in Seq(1..MaxTicks) /\ Len(points') = Len(points) + 1
          /\ \A i \in DOMAIN points : points'[i] = points[i]
          /\ points'[Len(points) + 1] = p.id
      BY <1>3, <2>1, <2>2, AppendProperties
    <2>4. DOMAIN points' = DOMAIN points \cup {Len(points) + 1}
      <3>1. DOMAIN points' = 1..(Len(points) + 1)
        BY <2>3, LenProperties
      <3> QED BY <2>2, <3>1
    <2>5. \A i \in DOMAIN points' : points'[i] <= made' /\ \A q \in posts' : points'[i] # q.id
      BY <1>1, <2>3, <2>4 DEF Queue
    <2>6. phase = "docker" /\ sample # None => \A i \in DOMAIN points' : points'[i] # made
      BY <2>3, <2>4 DEF Queue
    <2>7. Queue'
      BY <1>1, <2>5, <2>6 DEF Queue
    <2>8. ASSUME NEW i \in DOMAIN points', NEW j \in DOMAIN points', i < j
          PROVE  \/ points'[i] < points'[j]
                 \/ points'[i] > points'[j] /\ points'[j] \in gaveUp
      <3>1. CASE j \in DOMAIN points
        <4>1. i \in DOMAIN points
          BY <2>2, <2>4, <2>8, <3>1
        <4> QED BY <2>3, <2>8, <3>1, <4>1 DEF StoredInOrder
      <3>2. CASE j = Len(points) + 1
        <4>1. i \in DOMAIN points
          BY <2>2, <2>4, <2>8, <3>2
        <4>2. points[i] # p.id /\ points[i] <= made /\ (p.id \in gaveUp \/ p.id = made)
          BY <4>1 DEF Queue
        <4> QED BY <2>1, <2>2, <2>3, <3>2, <4>1, <4>2
      <3> QED BY <2>4, <3>1, <3>2
    <2> QED BY <1>1, <2>7, <2>8 DEF StoredInOrder
  <1> QED BY <1>2, <1>3 DEF Lost, HandleMetrics, HandleMetricsFails

LEMMA QueueNext ==
    ASSUME Typed, Queue, StoredInOrder, [Next]_vars
    PROVE  Queue' /\ StoredInOrder'
  <1>1. CASE \E m \in Meter : Traffic(m) \/ CounterFalls(m)
    BY <1>1, FrameQueue DEF Traffic, CounterFalls, agent, server
  <1>2. CASE Second \/ ClockSetBack
    BY <1>2, FrameQueue DEF Second, ClockSetBack, agent, server, history
  <1>3. CASE Collect \/ Containers \/ NoContainers
    BY <1>3, QueueCollect, QueueContainers, QueueNoContainers
  <1>4. CASE PostReturns \/ PostTimesOut \/ CrashAgent
    BY <1>4, QueueAgent
  <1>5. CASE CollectFails
    BY <1>5 DEF CollectFails, Queue, StoredInOrder, Typed, Phases, server, history
  <1>6. CASE StartAgent
    BY <1>6 DEF StartAgent, Queue, StoredInOrder, server, history
  <1>7. CASE \E p \in posts : Lost(p) \/ HandleMetrics(p) \/ HandleMetricsFails(p)
    BY <1>7, QueueServer
  <1>8. CASE UNCHANGED vars
    BY <1>8, FrameQueue DEF vars, agent, server, history
  <1> QED BY <1>1, <1>2, <1>3, <1>4, <1>5, <1>6, <1>7, <1>8 DEF Next, Agent

-----------------------------------------------------------------------------
(* The theorems.                                                           *)

LEMMA Initially == Init => IInv
  <1> SUFFICES ASSUME Init PROVE IInv
    OBVIOUS
  <1>1. TypeOK
    BY TickAssumption DEF Init, TypeOK, Fresh, Meter
  <1>2. Phases
    BY DEF Init, Phases
  <1>3. Readings
    BY WidthAssumption DEF Init, Readings, Bounded, Ahead, Accounts, PendingDisk, PendingNet, RxDelta, Fresh, Meter
  <1>4. Queue /\ StoredInOrder
    BY DEF Init, Queue, StoredInOrder
  <1> QED BY <1>1, <1>2, <1>3, <1>4 DEF IInv, Typed

LEMMA Inductive == IInv /\ [Next]_vars => IInv'
  BY TypedNext, ReadingsNext, QueueNext DEF IInv

LEMMA Always == Spec => []IInv
  BY Initially, Inductive, PTL DEF Spec

\* Every variable keeps its type: above all, no wrapped difference is a
\* negative number (NetDelta, system.go 154-162).
THEOREM TypeCorrect == Spec => []TypeOK
  <1>1. IInv => TypeOK
    BY DEF IInv, Typed
  <1> QED BY <1>1, Always, PTL

\* For any counter width, traffic, restarts and clock corrections, the samples
\* report no byte twice (system.go 144-184, docker.go 128-153).
THEOREM NeverCountedTwice == Spec => []CountedOnce
  <1>1. IInv => CountedOnce
    BY PendingTypes, Numbers DEF IInv, Typed, Readings, Accounts, CountedOnce
  <1> QED BY <1>1, Always, PTL

\* For any number of samples and posts in flight, a stored point is out of
\* order only if the agent gave up on its post (main.go 354-370).
THEOREM PointsInOrder == Spec => []StoredInOrder
  <1>1. IInv => StoredInOrder
    BY DEF IInv
  <1> QED BY <1>1, Always, PTL

LEMMA FloodMeansTraffic ==
    ASSUME IInv, [Next]_vars, phase = "idle", sample' # None, sample'.flood
    PROVE  back.last \/ since > FloodLimit
  <1>1. sample = None
    BY DEF IInv, Typed, Phases
  <1>2. Collect
    BY <1>1 DEF Next, Agent, vars, os, agent, server, Traffic, CounterFalls, Second, ClockSetBack,
              CollectFails, Containers, NoContainers, PostReturns, PostTimesOut, CrashAgent, StartAgent,
              Lost, HandleMetrics, HandleMetricsFails
  <1>3. Timed /\ NetDelta > FloodLimit * (now - sys.ts)
    BY <1>2 DEF Collect
  <1>4. now - sys.ts \in Nat /\ now - sys.ts > 0 /\ FloodLimit \in Nat
    BY <1>3, Numbers, WidthAssumption DEF Timed, IInv, Typed
  <1>5. FloodLimit * (now - sys.ts) >= FloodLimit
    BY <1>4, TimesOne
  <1>6. NetDelta \in Nat /\ FloodLimit * (now - sys.ts) \in Int
    BY <1>4, DeltaTypes DEF IInv, Typed, Readings
  <1>7. NetDelta > FloodLimit
    BY <1>3, <1>4, <1>5, <1>6
  <1>8. ~back.last => NetDelta = since
    BY <1>3, Numbers DEF Timed, NetDelta, IInv, Typed, Readings, Ahead
  <1> QED BY <1>7, <1>8

\* For any limit and any time between two readings, a sample is marked as a
\* flood only after that much traffic, or after the counter went back
\* (system.go 186-192).
THEOREM FloodsAreReal == Spec => NoFalseAlarm
  <1>1. IInv /\ [Next]_vars =>
        [phase = "idle" /\ sample' # None /\ sample'.flood => back.last \/ since > FloodLimit]_vars
    BY FloodMeansTraffic
  <1> QED BY <1>1, Always, PTL DEF Spec, NoFalseAlarm

-----------------------------------------------------------------------------
(* The history of an interface.                                            *)

\* A set of natural numbers has a least element.
LEMMA LeastElement ==
  ASSUME NEW P, P \subseteq Nat, P # {}
  PROVE  \E i \in P : \A j \in P : i <= j
<1> DEFINE S == {ss \in Nat \X Nat : ss[1] < ss[2]}
<1>1. IsWellFoundedOn(S, Nat)
  BY NatLessThanWellFounded DEF OpToRel
<1> HIDE DEF S
<1>2. PICK x \in P : \A y \in P : ~(<<y, x>> \in S)
  BY <1>1, WFMin
<1>3. ASSUME NEW y \in P PROVE x <= y
  <2>1. ~(<<y, x>> \in S) /\ x \in Nat /\ y \in Nat
    BY <1>2
  <2>2. ~(y < x)
    BY <2>1 DEF S
  <2> QED
    BY <2>1, <2>2
<1> QED
  BY <1>3

\* What holds of 0, and of n + 1 when it holds of n, holds of all numbers.
LEMMA Induction ==
  ASSUME NEW P, P \subseteq Nat, 0 \in P, \A n \in P : n + 1 \in P
  PROVE  P = Nat
<1>1. ASSUME Nat \ P # {} PROVE FALSE
  <2>1. PICK m \in Nat \ P : \A j \in Nat \ P : m <= j
    BY <1>1, LeastElement
  <2>2. m # 0 /\ m \in Nat
    BY <2>1
  <2>3. m - 1 \in Nat /\ ~(m <= m - 1)
    BY <2>2
  <2>4. m - 1 \in P
    BY <2>1, <2>3
  <2>5. m = (m - 1) + 1
    BY <2>2
  <2> QED
    BY <2>1, <2>4, <2>5
<1> QED
  BY <1>1

\* The definition of a recursive function, and that there is such a function.
IsSum(f, q, n) == f = [i \in 0..n |-> IF i <= 1 THEN 0 ELSE f[i - 1] + Rise(q[i - 1], q[i])]
SumOf(q)       == CHOOSE f : IsSum(f, q, Len(q))

LEMMA SumExists ==
    ASSUME NEW q, NEW n \in Nat
    PROVE  \E f : IsSum(f, q, n)
  <1> DEFINE P == {k \in Nat : \E f : IsSum(f, q, k)}
  <1>1. 0 \in P
    <2> DEFINE f == [i \in 0..0 |-> 0]
    <2>1. IsSum(f, q, 0)
      BY DEF IsSum
    <2> QED BY <2>1
  <1>2. ASSUME NEW k \in P PROVE k + 1 \in P
    <2>1. PICK f : IsSum(f, q, k)
      OBVIOUS
    <2>2. k \in Nat
      OBVIOUS
    <2> DEFINE g == [i \in 0..(k + 1) |-> IF i <= 1 THEN 0 ELSE f[i - 1] + Rise(q[i - 1], q[i])]
    <2>3. \A i \in 0..k : g[i] = f[i]
      BY <2>1, <2>2 DEF IsSum
    <2>4. \A i \in 0..(k + 1) : i > 1 => g[i - 1] = f[i - 1]
      BY <2>2, <2>3
    <2>5. /\ \A i \in 0..(k + 1) : g[i] = IF i <= 1 THEN 0 ELSE f[i - 1] + Rise(q[i - 1], q[i])
          /\ g = [i \in 0..(k + 1) |-> g[i]]
      OBVIOUS
    <2> HIDE DEF g
    <2>6. g = [i \in 0..(k + 1) |-> IF i <= 1 THEN 0 ELSE g[i - 1] + Rise(q[i - 1], q[i])]
      <3>1. \A i \in 0..(k + 1) : g[i] = IF i <= 1 THEN 0 ELSE g[i - 1] + Rise(q[i - 1], q[i])
        <4> TAKE i \in 0..(k + 1)
        <4>1. CASE i <= 1
          BY <2>5, <4>1
        <4>2. CASE ~(i <= 1)
          <5>1. g[i - 1] = f[i - 1]
            BY <2>2, <2>4, <4>2
          <5> QED BY <2>5, <4>2, <5>1
        <4> QED BY <4>1, <4>2
      <3> QED BY <2>5, <3>1
    <2>7. IsSum(g, q, k + 1)
      BY <2>6 DEF IsSum
    <2> QED BY <2>2, <2>7
  <1>3. P = Nat
    <2>1. P \subseteq Nat
      OBVIOUS
    <2> HIDE DEF P
    <2> QED BY <1>1, <1>2, <2>1, Induction
  <1> QED BY <1>3

LEMMA SumIs ==
    ASSUME NEW q, Len(q) \in Nat
    PROVE  /\ \A i \in 0..Len(q) : SumOf(q)[i] = IF i <= 1 THEN 0 ELSE SumOf(q)[i - 1] + Rise(q[i - 1], q[i])
           /\ InterfaceHistory(q) = SumOf(q)[Len(q)]
  <1>1. IsSum(SumOf(q), q, Len(q))
    BY SumExists DEF SumOf
  <1>2. InterfaceHistory(q) = SumOf(q)[Len(q)]
    BY DEF InterfaceHistory, SumOf, IsSum
  <1> QED BY <1>1, <1>2 DEF IsSum


LEMMA HistoryGrows ==
    ASSUME NEW q \in Seq(Nat), NEW x \in Nat
    PROVE  /\ InterfaceHistory(q) \in Nat
           /\ InterfaceHistory(Append(q, x)) =
                 InterfaceHistory(q) + IF Len(q) = 0 THEN 0 ELSE Rise(q[Len(q)], x)
  <1> DEFINE n == Len(q)
             p == Append(q, x)
             f == SumOf(q)
             g == SumOf(p)
  <1>1. /\ n \in Nat /\ Len(p) = n + 1 /\ p[n + 1] = x
        /\ \A i \in 1..n : p[i] = q[i] /\ q[i] \in Nat
    OBVIOUS
  <1>2. /\ \A i \in 0..n : f[i] = IF i <= 1 THEN 0 ELSE f[i - 1] + Rise(q[i - 1], q[i])
        /\ InterfaceHistory(q) = f[n]
    BY <1>1, SumIs
  <1>3. /\ \A i \in 0..(n + 1) : g[i] = IF i <= 1 THEN 0 ELSE g[i - 1] + Rise(p[i - 1], p[i])
        /\ InterfaceHistory(p) = g[n + 1]
    <2>1. Len(p) \in Nat
      BY <1>1
    <2> HIDE DEF p
    <2> QED BY <1>1, <2>1, SumIs
  <1> HIDE DEF f, g, p, n
  <1>4. \A i \in Nat : i <= n => f[i] \in Nat /\ g[i] = f[i]
    <2> DEFINE P == {i \in Nat : i <= n => f[i] \in Nat /\ g[i] = f[i]}
    <2>1. 0 \in P
      BY <1>1, <1>2, <1>3
    <2>2. ASSUME NEW i \in P PROVE i + 1 \in P
      <3>1. i \in Nat
        OBVIOUS
      <3>2. CASE i + 1 <= n /\ i + 1 > 1
        <4>1. f[i] \in Nat /\ g[i] = f[i] /\ i \in 1..n /\ i + 1 \in 1..n
          BY <1>1, <3>1, <3>2
        <4>2. f[i + 1] = f[i] + Rise(q[i], q[i + 1])
          BY <1>1, <1>2, <3>1, <3>2
        <4>3. g[i + 1] = g[i] + Rise(p[i], p[i + 1])
          BY <1>1, <1>3, <3>1, <3>2
        <4>4. Rise(q[i], q[i + 1]) \in Nat /\ Rise(p[i], p[i + 1]) = Rise(q[i], q[i + 1])
          BY <1>1, <4>1 DEF Rise
        <4> QED BY <3>1, <4>1, <4>2, <4>3, <4>4
      <3>3. CASE ~(i + 1 <= n)
        BY <3>1, <3>3
      <3>4. CASE i + 1 <= n /\ i + 1 <= 1
        BY <1>1, <1>2, <1>3, <3>1, <3>4
      <3> QED BY <1>1, <3>1, <3>2, <3>3, <3>4
    <2>3. P \subseteq Nat
      OBVIOUS
    <2>4. P = Nat
      <3> HIDE DEF P
      <3> QED BY <2>1, <2>2, <2>3, Induction
    <2> QED BY <2>4
  <1>5. f[n] \in Nat /\ g[n] = f[n]
    BY <1>1, <1>4
  <1>6. CASE n = 0
    <2>1. f[n] = 0 /\ g[n + 1] = 0
      BY <1>1, <1>2, <1>3, <1>6
    <2> QED BY <1>2, <1>3, <1>6, <2>1 DEF n, p
  <1>7. CASE n # 0
    <2>1. g[n + 1] = g[n] + Rise(p[n], p[n + 1])
      BY <1>1, <1>3, <1>7
    <2>2. p[n] = q[n] /\ p[n + 1] = x
      BY <1>1, <1>7
    <2> QED BY <1>2, <1>3, <1>5, <1>7, <2>1, <2>2 DEF n, p
  <1> QED BY <1>6, <1>7

\* Dropping a reading in between makes no history longer.
LEMMA Shorter ==
    ASSUME NEW a \in Nat, NEW b \in Nat, NEW c \in Nat
    PROVE  Rise(a, c) <= Rise(a, b) + Rise(b, c)
  BY DEF Rise

LEMMA HistoryEmpty == InterfaceHistory(<<>>) = 0
  <1>1. Len(<<>>) = 0
    OBVIOUS
  <1> QED BY <1>1, SumIs

-----------------------------------------------------------------------------
(* What is stored, what is cached and what the counter shows.              *)

\* How much longer the history gets with b as its next value.
Longer(b) == IF Len(ifaces) = 0 THEN 0 ELSE Rise(ifaces[Len(ifaces)], b)

\* The longest history that the cached reading and the next one can make.
Growing == IF sys.iface = -1 THEN Longer(counter["net"])
                             ELSE Longer(sys.iface) + Rise(sys.iface, counter["net"])

\* While no post times out, nothing but the cached reading is on its way.
Cached ==
    gaveUp = {} =>
        /\ sample # None => sample.iface \in {-1, sys.iface}
        /\ \A p \in posts : p.iface \in {-1, sys.iface}
        /\ InterfaceHistory(ifaces) + Growing <= moved["net"]


LEMMA GrowingTypes ==
    ASSUME TypeOK
    PROVE  /\ Len(ifaces) \in Nat /\ InterfaceHistory(ifaces) \in Nat
           /\ \A b \in Nat : Longer(b) \in Nat
           /\ Growing \in Nat
           /\ sys.iface # -1 => sys.iface \in Nat
  <1>1. ifaces \in Seq(Nat) /\ Len(ifaces) \in Nat /\ \A i \in 1..Len(ifaces) : ifaces[i] \in Nat
    BY DEF TypeOK
  <1>2. \A b \in Nat : Longer(b) \in Nat
    BY <1>1 DEF Longer, Rise
  <1>3. sys.iface \in Nat \cup {-1} /\ counter["net"] \in Nat
    BY Numbers
  <1> HIDE DEF Longer
  <1>4. Growing \in Nat
    BY <1>2, <1>3 DEF Growing, Rise
  <1> QED BY <1>1, <1>2, <1>3, <1>4, HistoryGrows

\* With no post given up, the only post is the one the agent waits for.
LEMMA NothingElse ==
    ASSUME Typed, Queue, gaveUp = {}
    PROVE  phase # "posting" => posts = {}
  BY DEF Queue

LEMMA FrameCached ==
    ASSUME Cached, UNCHANGED <<sample, posts, ifaces, sys, counter, moved, gaveUp>>
    PROVE  Cached'
  BY DEF Cached, Growing, Longer

\* The same chain of readings, and posts and samples of the cached one.
LEMMA SameReadings ==
    ASSUME Cached, UNCHANGED <<ifaces, sys, counter, moved>>, gaveUp \subseteq gaveUp',
           gaveUp = {} => /\ sample' # None => sample'.iface \in {-1, sys.iface}
                          /\ \A p \in posts' : p.iface \in {-1, sys.iface}
    PROVE  Cached'
  BY DEF Cached, Growing, Longer

\* The counter moves, falls, or is read.
LEMMA OtherReadings ==
    ASSUME Cached, UNCHANGED <<ifaces, gaveUp>>,
           InterfaceHistory(ifaces) + Growing <= moved["net"] =>
              InterfaceHistory(ifaces) + Growing' <= moved'["net"],
           gaveUp = {} => /\ sample' # None => sample'.iface \in {-1, sys'.iface}
                          /\ \A p \in posts' : p.iface \in {-1, sys'.iface}
    PROVE  Cached'
  BY DEF Cached

LEMMA LongerTo ==
    ASSUME TypeOK, NEW b \in Nat, NEW c \in Nat
    PROVE  Longer(c) <= Longer(b) + Rise(b, c)
  <1>1. Len(ifaces) \in Nat /\ \A i \in 1..Len(ifaces) : ifaces[i] \in Nat
    BY DEF TypeOK
  <1>2. CASE Len(ifaces) = 0
    BY <1>2 DEF Longer, Rise
  <1>3. CASE Len(ifaces) # 0
    BY <1>1, <1>3, Shorter DEF Longer
  <1> QED BY <1>2, <1>3

LEMMA RiseTypes ==
    ASSUME NEW a \in Nat, NEW b \in Nat
    PROVE  Rise(a, b) \in Nat /\ Rise(a, a) = 0
  BY DEF Rise

LEMMA StillWithin ==
    ASSUME NEW h \in Nat, NEW g \in Nat, NEW k \in Nat, NEW m \in Nat, NEW n, NEW d \in Nat, h + g <= m,
           (k <= g + d /\ n = m + d) \/ (k <= g /\ n = m)
    PROVE  h + k <= n
  OBVIOUS

\* A counter that moved by d adds at most d, one that fell to zero nothing.
LEMMA RiseMoves ==
    ASSUME NEW a \in Nat, NEW b \in Nat, NEW d \in Nat
    PROVE  Rise(a, b + d) <= Rise(a, b) + d /\ Rise(a, 0) = 0
  BY DEF Rise

LEMMA CachedTraffic ==
    ASSUME Typed, Cached, NEW m \in Meter, Traffic(m) \/ CounterFalls(m)
    PROVE  Cached'
  <1>1. /\ UNCHANGED <<sample, posts, ifaces, sys, gaveUp>>
        /\ counter \in [Meter -> Nat] /\ moved \in [Meter -> Nat] /\ "net" \in Meter
    BY DEF Traffic, CounterFalls, agent, server, Typed, TypeOK, Meter
  <1>2. CASE m # "net"
    <2>1. counter'["net"] = counter["net"] /\ moved'["net"] = moved["net"]
      BY <1>1, <1>2 DEF Traffic, CounterFalls
    <2> QED BY <1>1, <2>1 DEF Cached, Growing, Longer
  <1>3. CASE m = "net"
    <2>1. PICK d \in Nat : \/ counter'["net"] = counter["net"] + d /\ moved'["net"] = moved["net"] + d
                           \/ counter'["net"] = 0 /\ moved'["net"] = moved["net"]
      <3>1. CASE Traffic(m)
        <4>1. PICK d \in 1..(MaxTraffic - moved[m]) : /\ counter' = [counter EXCEPT ![m] = @ + d]
                                                      /\ moved' = [moved EXCEPT ![m] = @ + d]
          BY <3>1 DEF Traffic
        <4>2. d \in Nat
          BY <1>1, WidthAssumption
        <4> QED BY <1>1, <1>3, <4>1, <4>2
      <3>2. CASE CounterFalls(m)
        <4>1. counter'["net"] = 0 /\ moved'["net"] = moved["net"]
          BY <1>1, <1>3, <3>2 DEF CounterFalls
        <4> QED BY <4>1
      <3> QED BY <3>1, <3>2
    <2>2. \A a \in Nat : \/ Rise(a, counter'["net"]) <= Rise(a, counter["net"]) + d
                            /\ moved'["net"] = moved["net"] + d
                         \/ Rise(a, counter'["net"]) = 0 /\ moved'["net"] = moved["net"]
      BY <1>1, <2>1, RiseMoves
    <2>3. /\ Len(ifaces) \in Nat /\ \A i \in 1..Len(ifaces) : ifaces[i] \in Nat
          /\ counter["net"] \in Nat /\ counter'["net"] \in Nat /\ moved["net"] \in Nat
      <3>1. counter["net"] \in Nat /\ moved["net"] \in Nat
        BY <1>1
      <3>2. counter'["net"] \in Nat
        BY <2>1, <3>1
      <3>3. Len(ifaces) \in Nat /\ \A i \in 1..Len(ifaces) : ifaces[i] \in Nat
        BY DEF Typed, TypeOK
      <3> QED BY <3>1, <3>2, <3>3
    <2>4. /\ InterfaceHistory(ifaces) \in Nat /\ Growing \in Nat
          /\ \A b \in Nat : Longer(b) \in Nat /\ Longer(b)' = Longer(b)
          /\ sys.iface # -1 => sys.iface \in Nat
      BY <1>1, GrowingTypes DEF Typed, Longer
    <2>5. \/ Growing' <= Growing + d /\ moved'["net"] = moved["net"] + d
          \/ Growing' <= Growing /\ moved'["net"] = moved["net"]
      <3>1. CASE sys.iface = -1
        <4>1. Growing = Longer(counter["net"]) /\ Growing' = Longer(counter'["net"])
          BY <1>1, <3>1 DEF Growing, Longer
        <4>2. CASE Len(ifaces) = 0
          BY <2>1, <4>1, <4>2 DEF Longer
        <4>3. CASE Len(ifaces) # 0
          <5>1. ifaces[Len(ifaces)] \in Nat
            BY <2>3, <4>3
          <5>2. /\ Growing = Rise(ifaces[Len(ifaces)], counter["net"])
                /\ Growing' = Rise(ifaces[Len(ifaces)], counter'["net"])
            BY <4>1, <4>3 DEF Longer
          <5>3. Growing >= 0
            BY <2>4
          <5> QED BY <2>2, <2>4, <5>1, <5>2, <5>3
        <4> QED BY <4>2, <4>3
      <3>2. CASE sys.iface # -1
        <4>1. /\ Growing = Longer(sys.iface) + Rise(sys.iface, counter["net"])
              /\ Growing' = Longer(sys.iface) + Rise(sys.iface, counter'["net"])
          BY <1>1, <3>2 DEF Growing, Longer
        <4>2. /\ sys.iface \in Nat /\ Longer(sys.iface) \in Nat
              /\ Rise(sys.iface, counter["net"]) \in Nat /\ Rise(sys.iface, counter'["net"]) \in Nat
          BY <2>3, <2>4, <3>2, RiseTypes
        <4> QED BY <2>2, <4>1, <4>2
      <3> QED BY <3>1, <3>2
    <2>6. Growing' \in Nat
      <3>1. \A b \in Nat : Rise(b, counter'["net"]) \in Nat
        BY <2>3, RiseTypes
      <3>2. CASE sys.iface # -1
        <4>1. Growing' = Longer(sys.iface) + Rise(sys.iface, counter'["net"])
          BY <1>1, <3>2 DEF Growing, Longer
        <4> QED BY <2>4, <3>1, <3>2, <4>1
      <3>3. CASE sys.iface = -1
        <4>1. Growing' = IF Len(ifaces) = 0 THEN 0 ELSE Rise(ifaces[Len(ifaces)], counter'["net"])
          BY <1>1, <3>3 DEF Growing, Longer
        <4>2. Len(ifaces) # 0 => ifaces[Len(ifaces)] \in Nat
          BY <2>3
        <4> QED BY <3>1, <4>1, <4>2
      <3> QED BY <3>2, <3>3
    <2>7. ASSUME InterfaceHistory(ifaces) + Growing <= moved["net"]
          PROVE  InterfaceHistory(ifaces) + Growing' <= moved'["net"]
      <3> DEFINE h == InterfaceHistory(ifaces)
                 g == Growing
                 k == Growing'
                 o == moved["net"]
                 n == moved'["net"]
      <3>1. h \in Nat /\ g \in Nat /\ k \in Nat /\ o \in Nat /\ h + g <= o
        BY <2>3, <2>4, <2>6, <2>7
      <3>2. (k <= g + d /\ n = o + d) \/ (k <= g /\ n = o)
        BY <2>5
      <3> HIDE DEF h, g, k, o, n
      <3>3. h + k <= n
        BY <3>1, <3>2, StillWithin
      <3> QED BY <3>3 DEF h, k, n
    <2> QED BY <1>1, <2>7, OtherReadings DEF Cached
  <1> QED BY <1>2, <1>3

LEMMA CachedCollect ==
    ASSUME Typed, Queue, Cached, Collect
    PROVE  Cached'
  <1>1. /\ UNCHANGED <<posts, ifaces, counter, moved, gaveUp>> /\ phase = "idle"
        /\ sample'.iface = sys'.iface /\ sys'.iface = Interfaces
    BY DEF Collect, os, server
  <1>2. Interfaces \in {counter["net"], sys.iface}
    BY DEF Interfaces
  <1>3. counter["net"] \in Nat /\ (sys.iface # -1 => sys.iface \in Nat) /\ moved["net"] \in Nat
    BY Numbers, GrowingTypes DEF Typed
  <1>4. Growing \in Nat /\ InterfaceHistory(ifaces) \in Nat
    BY GrowingTypes DEF Typed
  <1>5. Growing' \in Nat /\ Growing' <= Growing
    <2>1. CASE sys'.iface = sys.iface
      <3>1. Growing' = Growing
        BY <1>1, <2>1 DEF Growing, Longer
      <3> QED BY <1>4, <3>1
    <2>2. CASE sys'.iface = counter["net"]
      <3>1. Growing' = Longer(counter["net"]) + Rise(counter["net"], counter["net"])
        BY <1>1, <1>3, <2>2 DEF Growing, Longer
      <3>2. Rise(counter["net"], counter["net"]) = 0 /\ Longer(counter["net"]) \in Nat
        BY <1>3, GrowingTypes, RiseTypes DEF Typed
      <3>3. Longer(counter["net"]) <= Growing
        <4>1. CASE sys.iface = -1
          BY <3>2, <4>1 DEF Growing
        <4>2. CASE sys.iface # -1
          BY <1>3, <4>2, LongerTo DEF Growing, Typed
        <4> QED BY <4>1, <4>2
      <3> QED BY <3>1, <3>2, <3>3
    <2> QED BY <1>1, <1>2, <2>1, <2>2
  <1>6. InterfaceHistory(ifaces) + Growing <= moved["net"] => InterfaceHistory(ifaces) + Growing' <= moved'["net"]
    BY <1>1, <1>3, <1>4, <1>5
  <1>7. gaveUp = {} => posts' = {}
    BY <1>1, NothingElse
  <1> QED BY <1>1, <1>6, <1>7, OtherReadings

LEMMA CachedCrash ==
    ASSUME Typed, Queue, Cached, CrashAgent
    PROVE  Cached'
  <1>1. UNCHANGED <<posts, ifaces, counter, moved>> /\ sys' = Fresh /\ sample' = None /\ gaveUp \subseteq gaveUp'
    BY DEF CrashAgent, os, server
  <1>2. CASE phase = "posting"
    <2>1. gaveUp' # {}
      BY <1>2 DEF CrashAgent
    <2> QED BY <2>1 DEF Cached
  <1>3. CASE phase # "posting"
    <2>1. gaveUp' = gaveUp
      BY <1>3 DEF CrashAgent
    <2>2. Growing' = Longer(counter["net"])
      BY <1>1 DEF Growing, Longer, Fresh
    <2>3. counter["net"] \in Nat /\ (sys.iface # -1 => sys.iface \in Nat) /\ moved["net"] \in Nat
      BY Numbers, GrowingTypes DEF Typed
    <2>4. Growing \in Nat /\ InterfaceHistory(ifaces) \in Nat /\ Longer(counter["net"]) \in Nat
      BY <2>3, GrowingTypes DEF Typed
    <2>5. Longer(counter["net"]) <= Growing
      <3>1. CASE sys.iface = -1
        BY <2>4, <3>1 DEF Growing
      <3>2. CASE sys.iface # -1
        BY <2>3, <3>2, LongerTo DEF Growing, Typed
      <3> QED BY <3>1, <3>2
    <2>6. InterfaceHistory(ifaces) + Growing <= moved["net"] => InterfaceHistory(ifaces) + Growing' <= moved'["net"]
      BY <1>1, <2>2, <2>3, <2>4, <2>5
    <2>7. gaveUp = {} => posts' = {}
      BY <1>1, <1>3, NothingElse
    <2> QED BY <1>1, <2>1, <2>6, <2>7, OtherReadings
  <1> QED BY <1>2, <1>3

\* A post that is stored holds the cached reading, or none.
LEMMA CachedServer ==
    ASSUME Typed, Cached, NEW p \in posts, Lost(p) \/ HandleMetrics(p) \/ HandleMetricsFails(p)
    PROVE  Cached'
  <1>1. UNCHANGED <<sample, sys, counter, moved, gaveUp>> /\ posts' \subseteq posts
    BY DEF Lost, HandleMetrics, HandleMetricsFails, os, agent, history
  <1>2. CASE UNCHANGED ifaces
    BY <1>1, <1>2, SameReadings DEF Cached
  <1>3. CASE p.iface # -1 /\ ifaces' = Append(ifaces, p.iface)
    <2> SUFFICES ASSUME gaveUp = {} PROVE Cached'
      BY <1>1 DEF Cached
    <2>1. p.iface = sys.iface /\ sys.iface \in Nat /\ sys.iface # -1
      BY <1>3, GrowingTypes DEF Cached, Typed
    <2>2. ifaces \in Seq(Nat)
      BY DEF Typed, TypeOK
    <2>3. InterfaceHistory(ifaces') = InterfaceHistory(ifaces) + Longer(sys.iface)
      BY <1>3, <2>1, <2>2, HistoryGrows DEF Longer
    <2>4. Len(ifaces') = Len(ifaces) + 1 /\ ifaces'[Len(ifaces) + 1] = sys.iface /\ Len(ifaces) \in Nat
      BY <1>3, <2>1, <2>2
    <2>5. Growing' = Rise(sys.iface, sys.iface) + Rise(sys.iface, counter["net"])
      BY <1>1, <2>1, <2>4 DEF Growing, Longer
    <2>6. Growing = Longer(sys.iface) + Rise(sys.iface, counter["net"])
      BY <2>1 DEF Growing
    <2>7. /\ Rise(sys.iface, sys.iface) = 0 /\ Rise(sys.iface, counter["net"]) \in Nat
          /\ Longer(sys.iface) \in Nat /\ InterfaceHistory(ifaces) \in Nat
      BY <2>1, Numbers, GrowingTypes, RiseTypes DEF Typed
    <2>8. InterfaceHistory(ifaces') + Growing' = InterfaceHistory(ifaces) + Growing
      BY <2>3, <2>5, <2>6, <2>7
    <2> QED BY <1>1, <2>8 DEF Cached
  <1> QED BY <1>2, <1>3 DEF Lost, HandleMetrics, HandleMetricsFails

LEMMA CachedNext ==
    ASSUME Typed, Queue, Cached, [Next]_vars
    PROVE  Cached'
  <1>1. CASE \E m \in Meter : Traffic(m) \/ CounterFalls(m)
    BY <1>1, CachedTraffic
  <1>2. CASE Second \/ ClockSetBack \/ CollectFails \/ StartAgent
    BY <1>2, FrameCached DEF Second, ClockSetBack, CollectFails, StartAgent, os, agent, server, history
  <1>3. CASE Collect \/ CrashAgent
    BY <1>3, CachedCollect, CachedCrash
  <1>4. CASE Containers \/ NoContainers
    <2>1. UNCHANGED <<ifaces, sys, counter, moved, gaveUp>>
      BY <1>4 DEF Containers, NoContainers, os, history
    <2>2. \/ UNCHANGED <<sample, posts>>
          \/ \E s : Posted(s) /\ s.iface \in (IF sample = None THEN {-1} ELSE {sample.iface})
      BY <1>4 DEF Containers, NoContainers, Empty
    <2>3. gaveUp = {} => /\ sample' # None => sample'.iface \in {-1, sys.iface}
                         /\ \A p \in posts' : p.iface \in {-1, sys.iface}
      BY <2>2 DEF Cached, Posted
    <2> QED BY <2>1, <2>3, SameReadings
  <1>5. CASE PostReturns \/ PostTimesOut
    <2>1. UNCHANGED <<posts, ifaces, sys, counter, moved>> /\ sample' = None /\ gaveUp \subseteq gaveUp'
      BY <1>5 DEF PostReturns, PostTimesOut, os, server, history
    <2> QED BY <2>1, SameReadings DEF Cached
  <1>6. CASE \E p \in posts : Lost(p) \/ HandleMetrics(p) \/ HandleMetricsFails(p)
    BY <1>6, CachedServer
  <1>7. CASE UNCHANGED vars
    BY <1>7, FrameCached DEF vars, os, agent, server, history
  <1> QED BY <1>1, <1>2, <1>3, <1>4, <1>5, <1>6, <1>7 DEF Next, Agent

\* The history of an interface, made of counters that are cached for several
\* ticks, shows no byte twice while no post times out, for any number of
\* samples and falls of the counter (system.go 215-312, influx.go 349-357).
THEOREM HistoryShowsNoByteTwice == Spec => []HistoryCountedOnce
  <1>1. Init => Cached
    <2> SUFFICES ASSUME Init PROVE Cached
      OBVIOUS
    <2>1. InterfaceHistory(ifaces) = 0 /\ Len(ifaces) = 0
      BY HistoryEmpty DEF Init
    <2>2. Growing = 0 /\ moved["net"] = 0
      BY <2>1 DEF Init, Growing, Longer, Fresh, Meter
    <2> QED BY <2>1, <2>2 DEF Init, Cached
  <1>2. IInv /\ Cached /\ [Next]_vars => Cached'
    BY CachedNext DEF IInv
  <1>3. IInv /\ Cached => HistoryCountedOnce
    <2> SUFFICES ASSUME IInv, Cached, gaveUp = {} PROVE InterfaceHistory(ifaces) <= moved["net"]
      BY DEF HistoryCountedOnce
    <2>1. /\ InterfaceHistory(ifaces) \in Nat /\ Growing \in Nat /\ moved["net"] \in Nat
          /\ InterfaceHistory(ifaces) + Growing <= moved["net"]
      BY GrowingTypes, Numbers DEF IInv, Typed, Cached
    <2> QED BY <2>1
  <1> QED BY <1>1, <1>2, <1>3, Initially, Inductive, PTL DEF Spec

=============================================================================
