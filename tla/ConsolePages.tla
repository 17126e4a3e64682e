---------------------------- MODULE ConsolePages ----------------------------
(* The pages of the web console that poll the server.                          *)
(*                                                                             *)
(* What a page does is a set of loops, one per effect of its component: the    *)
(* effect asks at once and sets a timer, and runs again (clearing the timer)   *)
(* whenever one of its dependencies changes.  No request is ever aborted, so   *)
(* the answer to a request of an earlier effect still fills the page when it   *)
(* comes.  A request carries the key of the effect that sent it: the host, the *)
(* choice (filter, period, port) and the service of that moment; the data on   *)
(* the page is represented by the keys it was asked for.                       *)
(*                                                                             *)
(* Requests of one kind are not counted: asked is the set of the kinds of      *)
(* which at least one is on its way, and an answer may or may not be the last  *)
(* of its kind.  Changing the rate at which a page polls runs its effect again *)
(* with the same key, which is a tick.                                         *)
EXTENDS ConsoleSession, Sequences

CONSTANTS Keep,     \* points a chart keeps before it adds one (40 and 60 in the code)
          NoTimer   \* a loop that does not poll at the moment

ASSUME KeepAssumption == Keep \in Nat \ {0}

VARIABLES
    view,   \* choice, service, rate, the timers' keys and the data of the mounted page
    asked   \* the kinds of requests on their way

pagesVars == <<view, asked>>

-----------------------------------------------------------------------------
(* The loops.                                                                  *)

Anything == "any"                        \* a key's part the loop does not ask by
Initial == "initial"                     \* what a control of a page starts with
Choices == {Initial, "other", "third"} \cup Host
ServiceNames == {Initial, "other"}       \* the one the page was mounted with, and another

(* One request of a loop: what it fills, whether it adds a point to the chart  *)
(* as well, whether a 401 sends to the login page, whether it can be asked     *)
(* without a host, whether the server has that address at all, and whether it  *)
(* fills with what it has when it fails.                                       *)
Fetch(field) == [fills |-> {field}, plots |-> FALSE, redirects |-> FALSE,
                 hostless |-> TRUE, exists |-> TRUE, tolerant |-> FALSE]
Fills(f, fields) == [f EXCEPT !.fills = fields]
Plotting(f)  == [f EXCEPT !.plots = TRUE]
OrLogin(f)   == [f EXCEPT !.redirects = TRUE]
(* "?host=" is the only question mark: without a host the address is not an    *)
(* API address, the console's own page is answered and does not parse.         *)
NeedsHost(f) == [f EXCEPT !.hostless = FALSE]
NoRoute(f)   == [f EXCEPT !.exists = FALSE]
Tolerant(f)  == [f EXCEPT !.tolerant = TRUE]

(* by: what its requests name, which are the parts of the key.                 *)
(* asks, polls: the dependency lists of the effect that asks at once and of    *)
(* the one that sets the timer, as the code writes them; one effect does both  *)
(* but on the pages of a service.  Nothing but the code makes them name what   *)
(* the requests name.                                                          *)
(* when: the choices with which the effect does something.                     *)
(* steps: its requests, each sent after the answer of the one before.          *)
(* repeats: it has a timer.  guarded: nothing is asked without a host.         *)
(* stops: an answer that is not ok ends the run; otherwise the next step asks. *)
Loop(p, by, deps, steps) ==
    [page |-> p, by |-> by, asks |-> deps, polls |-> deps, when |-> Choices, steps |-> steps,
     repeats |-> TRUE, guarded |-> FALSE, stops |-> FALSE]

DashboardLoop == Loop("dashboard", {"host"}, {"host"},
    <<OrLogin(Fetch("metrics")), Fetch("logs"), Fetch("containers"), Fetch("processes")>>)

(* One answer fills the figures and adds a point to the chart. *)
CpuLoop == Loop("cpu", {"host"}, {"host"}, <<Plotting(Fetch("metrics"))>>)

\* Mutant: the effect of the memory page does not name the host.
MemoryLoop_ForgetsHost == Loop("memory", {"host"}, {}, <<Plotting(Fetch("metrics"))>>)

MemoryLoop == Loop("memory", {"host"}, {"host"}, <<Plotting(Fetch("metrics"))>>)
StorageLoop == Loop("storage", {"host"}, {"host"}, <<Fetch("metrics"), NeedsHost(Fetch("chart"))>>)

(* Three effects: the first lives while the choice is "realtime", the others   *)
(* while it is a period.  All of them write the same chart and figures.  The   *)
(* requests of the first and of the last name the host only.                   *)
NetworkLive == [Loop("network", {"host"}, {"host", "choice"}, <<Plotting(Fetch("metrics"))>>)
                  EXCEPT !.when = {Initial}]
NetworkHistory == [Loop("network", {"host", "choice"}, {"host", "choice"}, <<Fetch("chart")>>)
                     EXCEPT !.when = Choices \ {Initial}]
NetworkCurrent == [Loop("network", {"host"}, {"host", "choice"}, <<Fetch("metrics")>>)
                     EXCEPT !.when = Choices \ {Initial}]

LogsLoop == Loop("logs", {"host", "choice"}, {"host", "choice"}, <<OrLogin(Fetch("logs"))>>)
LogServices == [Loop("logs", {"host"}, {"host"}, <<Fetch("services")>>) EXCEPT !.repeats = FALSE]

ConnectionsSummary == [Loop("connections", {"host"}, {"host"}, <<Fetch("summary")>>)
                         EXCEPT !.guarded = TRUE]
(* The choice is the port whose card was clicked; none at first. *)
ConnectionsDetails == [Loop("connections", {"host", "choice"}, {"host", "choice"}, <<Fetch("details")>>)
                         EXCEPT !.when = Choices \ {Initial}]

SecurityLoop == Loop("security", {"host"}, {"host"},
    <<NeedsHost(OrLogin(Fetch("history"))), OrLogin(Fetch("rules"))>>)

(* Every host's figures, whichever is selected: the list of the hosts is asked *)
(* first and shown with the answers for all of them.                           *)
HostList == Fills(Fetch("hosts"), {})
ServersLoop == [Loop("servers", {}, {}, <<HostList, Tolerant(Fetch("agents"))>>) EXCEPT !.stops = TRUE]
ServicesLoop == [Loop("services", {}, {},
                      <<OrLogin(HostList), Tolerant(Fills(Fetch("services"), {"hosts", "services"}))>>)
                   EXCEPT !.repeats = FALSE, !.stops = TRUE]

(* The pages of one service ask by period only, but for the one that apache,   *)
(* nginx and httpd share, which asks by the service as well.  Its timer's      *)
(* effect does not name the service.                                           *)
ApacheLoop == [Loop("apache", {"choice", "service"}, {"choice", "service"}, <<Fetch("stats")>>)
                 EXCEPT !.polls = {"choice"}]
MySQLLoop == Loop("mysql", {"choice"}, {"choice"}, <<Fetch("stats")>>)
RedisLoop == Loop("redis", {"choice"}, {"choice"}, <<NoRoute(Fetch("stats"))>>)
MongoDBLoop == Loop("mongodb", {"choice"}, {"choice"}, <<NoRoute(Fetch("stats"))>>)
PostgreSQLLoop == Loop("postgresql", {"choice"}, {"choice"}, <<NoRoute(Fetch("stats"))>>)

Loops == [dashboard |-> DashboardLoop, cpu |-> CpuLoop, memory |-> MemoryLoop,
          storage |-> StorageLoop, networkLive |-> NetworkLive,
          networkHistory |-> NetworkHistory, networkCurrent |-> NetworkCurrent,
          logs |-> LogsLoop, logServices |-> LogServices,
          connectionsSummary |-> ConnectionsSummary,
          connectionsDetails |-> ConnectionsDetails, security |-> SecurityLoop,
          servers |-> ServersLoop, services |-> ServicesLoop, apache |-> ApacheLoop,
          mysql |-> MySQLLoop, redis |-> RedisLoop, mongodb |-> MongoDBLoop,
          postgresql |-> PostgreSQLLoop]

LoopsOf(p) == {l \in DOMAIN Loops : Loops[l].page = p}
Filled(step) == step.fills \cup IF step.plots THEN {"chart"} ELSE {}
FieldsOf(p) == UNION {UNION {Filled(Loops[l].steps[i]) : i \in DOMAIN Loops[l].steps} : l \in LoopsOf(p)}

(* What the controls of a page offer: the ranges of the network page, the      *)
(* ports of the connections page (none at first), the filters of the log page  *)
(* (a search may name a host), the periods of the service pages.               *)
NetworkRanges   == {Initial, "other"}
ConnectionPorts == {Initial, "other", "third"}
LogFilters      == {Initial, "other"} \cup Host
TimeRanges      == {Initial, "other"}
Rates           == {"on", "off"}
ServicePages    == {"apache", "mysql", "redis", "mongodb", "postgresql"}

Offered(p) ==
    CASE p = "network" -> NetworkRanges
      [] p = "connections" -> ConnectionPorts
      [] p = "logs" -> LogFilters
      [] p \in ServicePages -> TimeRanges
      [] OTHER -> {Initial}

-----------------------------------------------------------------------------
(* Effects.                                                                    *)

(* What the controls and the route of a page select. *)
At(h, c, s) == [host |-> h, choice |-> c, service |-> s]
Selected == At(selectedHost, view.choice, view.service)
Fresh(h) == At(h, Initial, Initial)

(* The search of the log page overrides the selected host: parseSearchQuery. *)
HostAsked(l, sel) == IF l = "logs" /\ sel.choice \in Host THEN sel.choice ELSE sel.host

KeyOf(l, sel) ==
    LET by == Loops[l].by IN
    [host    |-> IF "host" \in by THEN HostAsked(l, sel) ELSE Anything,
     choice  |-> IF "choice" \in by THEN sel.choice ELSE Anything,
     service |-> IF "service" \in by THEN sel.service ELSE Anything]

Keys == [host : Host \cup {All, Anything}, choice : Choices \cup {Anything},
         service : ServiceNames \cup {Anything}]
Request == [loop : DOMAIN Loops, step : 1..4, key : Keys]

Asks(l, sel) == sel.choice \in Loops[l].when /\ (Loops[l].guarded => sel.host # All)

FirstRequests(ls, sel) ==
    {[loop |-> l, step |-> 1, key |-> KeyOf(l, sel)] : l \in {x \in ls : Asks(x, sel)}}

TimerOf(l, sel, rate) ==
    IF Loops[l].repeats /\ sel.choice \in Loops[l].when /\ (Loops[l].page \in ServicePages => rate = "on")
    THEN KeyOf(l, sel) ELSE NoTimer

(* since: the service the timers' effects last ran with. *)
NoView == [choice |-> Initial, service |-> Initial, since |-> Initial, rate |-> "on",
           timers |-> <<>>, data |-> <<>>]

(* A page that is mounted runs all its effects; what it kept before is gone.   *)
(* Answers to the page that was left fill nothing: they are forgotten here,    *)
(* but for the 401 that WebConsole keeps.                                      *)
Mounted(p, h) ==
    [choice |-> Initial, service |-> Initial, since |-> Initial, rate |-> "on",
     timers |-> [l \in LoopsOf(p) |-> TimerOf(l, Fresh(h), "on")],
     data   |-> [f \in FieldsOf(p) |-> <<>>]]

\* Mutant: the answers to the page that was left still fill the new one.
PagesMount_KeepsRequests ==
    /\ view' = Mounted(page', selectedHost')
    /\ asked' = asked \cup FirstRequests(LoopsOf(page'), Fresh(selectedHost'))

PagesMount ==
    /\ view' = Mounted(page', selectedHost')
    /\ asked' = FirstRequests(LoopsOf(page'), Fresh(selectedHost'))

(* The address /logs?host=h: the page is mounted, and asks, with the saved     *)
(* host; its first effect then selects h.                                      *)
PagesMountAt(h) ==
    /\ view' = Mounted(page', selectedHost')
    /\ asked' = FirstRequests(LoopsOf(page'), Fresh(h))
                  \cup FirstRequests(LoopsOf(page'), Fresh(selectedHost'))

PagesUnmount == view' = NoView /\ asked' = {}

(* A part of the selection changes: the effects that list it run again.        *)
Asking(part) == {l \in LoopsOf(page) : part \in Loops[l].asks}
Polling(part) == {l \in LoopsOf(page) : part \in Loops[l].polls}

Restarted(ls, sel) == [l \in DOMAIN view.timers |->
    IF l \in ls THEN TimerOf(l, sel, view.rate) ELSE view.timers[l]]

(* They run for each of the hosts that were selected one after the other; the  *)
(* timers are those of the last.                                               *)
PagesFollowHost(through) ==
    LET sel(h) == [Selected EXCEPT !.host = h] IN
    /\ view' = [view EXCEPT !.timers = Restarted(Polling("host"), sel(selectedHost'))]
    /\ asked' = asked \cup UNION {FirstRequests(Asking("host"), sel(h)) : h \in through}

-----------------------------------------------------------------------------
(* The user and the timers.                                                    *)

(* Another range, port, filter or period. *)
Choose(c) ==
    LET sel == [Selected EXCEPT !.choice = c] IN
    /\ ~crashed
    /\ c \in Offered(page) \ {view.choice}
    /\ Spend("changes")
    /\ view' = [view EXCEPT !.choice = c, !.timers = Restarted(Polling("choice"), sel),
                            !.since = view.service]
    /\ asked' = asked \cup FirstRequests(Asking("choice"), sel)
    /\ UNCHANGED <<tour, token, role, savedHost, page, crashed, hosts, selectedHost, hostsAsked>>

(* The rate of a service page can be Off; setting it again asks nothing. *)
ChooseRate(r) ==
    /\ ~crashed
    /\ page \in ServicePages /\ r \in Rates \ {view.rate}
    /\ Spend("changes")
    /\ view' = [view EXCEPT !.rate = r, !.since = view.service,
           !.timers = [l \in DOMAIN view.timers |-> TimerOf(l, Selected, r)]]
    /\ UNCHANGED <<asked, tour, token, role, savedHost, page, crashed, hosts, selectedHost, hostsAsked>>

(* The browser's history goes from one of apache, nginx and httpd to another,   *)
(* past the page that linked to them: the route's component stays mounted.     *)
OpenService(s) ==
    LET sel == [Selected EXCEPT !.service = s] IN
    /\ ~crashed
    /\ page = "apache" /\ s \in ServiceNames \ {view.service}
    /\ Spend("changes")
    /\ view' = [view EXCEPT !.service = s, !.timers = Restarted(Polling("service"), sel)]
    /\ asked' = asked \cup FirstRequests(Asking("service"), sel)
    /\ UNCHANGED <<tour, token, role, savedHost, page, crashed, hosts, selectedHost, hostsAsked>>

Tick(l) ==
    /\ l \in DOMAIN view.timers /\ view.timers[l] # NoTimer
    /\ Loops[l].guarded => view.timers[l].host # All
    /\ Cardinality({r \in asked : r.loop = l}) < tour.inFlight
    /\ asked' = asked \cup {[loop |-> l, step |-> 1, key |-> view.timers[l]]}
    /\ UNCHANGED <<view, sessionVars>>

-----------------------------------------------------------------------------
(* Answers, in any order.                                                      *)

StepOf(r) == Loops[r.loop].steps[r.step]

(* The key of the request, and not what is selected when the answer comes, is  *)
(* what the page shows from then on. *)
Fill(r) == view' = [view EXCEPT !.data = [f \in DOMAIN @ |->
    IF f = "chart" /\ StepOf(r).plots
    THEN Append(SubSeq(@[f], IF Len(@[f]) > Keep THEN Len(@[f]) - Keep + 1 ELSE 1, Len(@[f])), r.key)
    ELSE IF f \in StepOf(r).fills THEN <<r.key>> ELSE @[f]]]

\* Mutant: the run ends with its first answer.
GoesOn_Stops(r) == IF r.step = 1 THEN {} ELSE {[r EXCEPT !.step = @ + 1]}

GoesOn(r) == IF r.step < Len(Loops[r.loop].steps) THEN {[r EXCEPT !.step = @ + 1]} ELSE {}

Answerable(r) == StepOf(r).exists /\ (StepOf(r).hostless \/ r.key.host # All)

(* The others of its kind: none (the last answer) or some still on their way. *)
Last(r) == asked \ {r}

Answer(r, others) ==
    /\ r \in asked /\ Answerable(r) /\ token = "valid"
    /\ Fill(r)
    /\ asked' = others \cup GoesOn(r)
    /\ UNCHANGED sessionVars

(* The answer is the console's own page: parsing it throws. *)
AnswerDoesNotParse(r) ==
    /\ r \in asked /\ ~Answerable(r)
    /\ asked' = Last(r)
    /\ UNCHANGED <<view, sessionVars>>

(* An answer that is not ok: most pages ignore it and ask the next step. *)
NotOk(r) ==
    /\ IF StepOf(r).tolerant THEN Fill(r) ELSE UNCHANGED view
    /\ asked' = Last(r) \cup IF Loops[r.loop].stops THEN {} ELSE GoesOn(r)

Refused(r) ==
    /\ r \in asked /\ Answerable(r) /\ token # "valid" /\ ~StepOf(r).redirects
    /\ NotOk(r)
    /\ UNCHANGED sessionVars

(* 401 on a page that looks for it: WebConsole loads the login page. *)
SentToLogin(r) ==
    /\ r \in asked /\ Answerable(r) /\ token # "valid" /\ StepOf(r).redirects

(* The server answers an error, or the network fails and the run ends. *)
AnswerFails(r) ==
    /\ r \in asked
    /\ Spend("faults")
    /\ \/ NotOk(r)
       \/ ~StepOf(r).tolerant /\ asked' = Last(r) /\ UNCHANGED view
    /\ UNCHANGED <<tour, token, role, savedHost, page, crashed, hosts, selectedHost, hostsAsked>>

PagesTypeOK ==
    /\ asked \subseteq Request
    /\ \A r \in asked : r.loop \in LoopsOf(page) /\ r.step \in DOMAIN Loops[r.loop].steps
    /\ view.choice \in Choices /\ view.rate \in Rates
    /\ {view.service, view.since} \subseteq ServiceNames
    /\ view.timers \in [DOMAIN view.timers -> Keys \cup {NoTimer}]
    /\ \A f \in DOMAIN view.data : view.data[f] \in Seq(Keys) /\ Len(view.data[f]) <= Keep + 1
=============================================================================
