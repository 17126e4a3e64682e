# A verification project for vast-logger

vast-logger ("DataVAST") collects metrics, logs and security events of hosts. A
Go **agent** runs on every host, a Go **server** keeps what the agents send
(ClickHouse for logs, connections, processes and the firewall tables, InfluxDB
for metrics, one JSON file for the configuration), and a React **web console**
shows it and sends administrative commands back.

This directory holds TLA+ models of the parts whose behaviour depends on the
order of events, the TLC configurations that check them on small instances, and
proofs about them for all instances. Paths below are relative to `src/`.

Contents: 1 the system, 2 the modules, 3 the runs, 4 fairness, 5 proofs,
6 findings, 7 what is left out, 8 plan, 9 how to run it.

## 1 The system

| Component | State it keeps | Operations | Talks to |
|---|---|---|---|
| Firewall pipeline (`server/api/ip_intelligence/handler.go`, `server/storage/clickhouse.go`, `agent/main.go`, `agent/collector/firewall.go`) | tables `blocked_ips` and `agent_commands`; iptables and fail2ban rules on each host | block, unblock, poll, run, acknowledge, sync | agent polls the server; ClickHouse applies DELETE and UPDATE later |
| Configuration (`server/storage/config.go`, handlers in `server/api/handler.go`, `server/auth/auth.go`) | one struct in memory, one JSON file | Load, Save, Get, and twenty handlers that read, change and save | everything on the server reads it |
| Alerting (`server/alert/service.go`) | `lastTriggered` in memory; rules and silences in the configuration | evaluate a post, create, change, toggle, delete, silence, unsilence | called by HandleMetrics; sends webhooks and mail |
| Logs (`agent/discovery/logs.go`, `agent/collector/log_tailer.go`, `docker_logs.go`, `agent/main.go`, HandleLogs) | tailed files, container streams, a channel of 100 lines; tables `logs` and `access_logs` | discover, tail, stream, post, store | one sender goroutine posts line by line |
| Metrics (`agent/collector/system.go`, `docker.go`, `agent/main.go`, HandleMetrics, `server/storage/influx.go`) | last reading of each counter; points in InfluxDB | collect, post, store, derive | the ticker loop of the agent |
| Connections and processes (`agent/collector/connection.go`, `process.go`) | process names by id; snapshots in ClickHouse | collect every second, insert a batch, newest snapshot | goroutines of the agent |
| Retention (`ApplyRetentionPolicy`) | the TTL of each table | at start with seven days; a goroutine for each saved setting | ClickHouse |
| Sessions (`server/auth`, AuthRequired, Login.jsx) | none on the server; a token in the browser | login, check, expire after 24 h | configuration |
| Host list, latest values (`influx.go`, HandleGetHosts) | none | queries over the last hour, five minutes, one minute | web console |
| Log search, service statistics (`clickhouse.go`, `service_detail.go`), address locations (`geoip.go`) | none | single queries | web console |
| Web console, session (`App.jsx`, `main.jsx`, `HostContext.jsx`, `ErrorBoundary.jsx`, `Login.jsx`, side bar, top bar) | in the browser's storage: token, role, selected host; in memory: route, list of hosts | login, logout, expiry, page loads, navigation, the list of hosts every 30 seconds and its selection, crash | every page depends on the selected host |
| Web console, pages that poll (`Dashboard.jsx` to `Services.jsx`, `services/*Detail.jsx`) | the data shown, a timer per effect, filters and rates | ask, answer, fail, be sent to the login page, change a filter, follow the host | server; no request is ever aborted |
| Web console, page of the addresses (`IpIntelligence.jsx`) | search box, analysis with its lines, firewall list | search, more lines, block, unblock, refresh at once and after 30 seconds | the firewall pipeline |
| Web console, forms (`Settings.jsx`, `UserManagement.jsx`, `Alerts.jsx`) | the form, dialogs, host selectors, lists of records | load, save, create, edit, delete, load again | the configuration |
| Agent setup (`runSetup`), database service collectors (not called), deployment files, tools | | | |

What is hard in this code, and where a test would hardly reach:

* **Interleavings.** gin runs each request in a goroutine. The configuration is
  read, changed and written back without a lock held in between, on Go slices
  and maps that copies share. Alert evaluations overlap. The agent has a
  goroutine for each tailed file and four for each container stream.
* **Statements that are not transactions.** Blocking is two inserts, a sync is a
  delete and an insert; ClickHouse applies `ALTER ... DELETE/UPDATE` later.
* **Delivery.** Polls and acknowledgements are lost, late or repeated. A client
  gives up after five seconds; the server may still work on the request.
* **Crashes.** The agent forgets the commands of a poll, the server forgets
  `lastTriggered` and may be interrupted while it writes its only file.
* **Stale data.** Interfaces are read every tenth tick; a firewall snapshot is
  taken before it is sent; a console answer belongs to a host left meanwhile, and
  a form posts what it loaded long ago.
* **Numbers.** Differences of unsigned counters, and clocks that go back.

What makes each component correct is stated in section 3, per run. The list of
hazards, each with its line and the properties that cover it, is in
`PROJECT.json`.

## 2 The modules

### FirewallControl, CommandDelivery

`BlockIP`/`UnblockIP` and `InsertCommand` are the two statements of a request;
`InsertCommandFails` is the case in which the second does not happen.
`ApplyDelete`, `ApplyUpdate`, `ExpireCommand` are ClickHouse at work: a mutation
touches only rows that existed when it was issued. Per agent, `FetchCommands`,
`ExecuteBlock`, `ExecuteUnblock`, `AckCommand`, `AckLost`, `AckTimeout` follow the
command loop of `agent/main.go`; an acknowledgement the agent gave up on is a
member of `lateAcks`. `SendFirewallSync`, `SyncClear`, `SyncInsert`, `SyncAborts`
follow the other loop and HandleIngestFirewallSync. Fail2ban, restarts of the
agent and reboots of the host disturb all that. A rule text is abstracted to the
relation `Within`: which address occurs in the text of a rule for which.

`CommandDelivery` is the promise: at-least-once delivery, settled only after it
ran. `FirewallControl!Delivery` is the refinement mapping (`phase` from the status
column, `ran` from the history variable `runs`).

### ConfigStore, AtomicConfig

`mem`, `arrays` and `maps` are the struct and what its slices and maps point to,
so that copies share what Go shares: an append writes into the common array while
there is room. A handler is `Get`, its change, and Save in three steps
(assign, open-and-truncate, write), where the mutex is held from the assignment to
the end of the write and by nobody in between. Each of the twenty handlers is an
operator with its own validation and its own way of changing lists: in place,
append, or rebuilt. `SaveFails` (the file cannot be opened or written), `ReadFails` (an
existing file cannot be read) and `Torn` (the process ends while it is half written) are
switches. After a failed read or parse the defaults are in memory (`config.go:102-109`), and
NewAuthManager saves them over the file. A group may be updated with or without a list of
its members, and a rule may come from the file with the nil map, which the first silence
replaces in one array only (`MakeMap`).

The groups of a user are a value in the model. In the code they are a slice of their own, which
copies of that user in other arrays share. One request after another never reaches a shared one
again, so `OneAtATimeIsAtomic` does not depend on it; the properties about overlapping requests say
nothing of what is in it.

`AtomicConfig` is what one administrator expects: a request changes one entry, at
one moment, and a restart brings back what was stored, or the defaults when it cannot be
read (`Forget`). It has no copies, no slices and no file format.

### Retention

Extends ConfigStore: every step of the server is a step here, and the ones that mean
something for the tables are recognised by what they change (`Stops`, `Spawns`,
`NotSaved`, `PutsBack`). A call of `ApplyRetentionPolicy` is a member of `policies`, and
`Alter`/`AlterFails` take it from one table to the next, since the code goes on when
a statement is refused. `Connect` is the call with seven days when the connection is
made, `ApplyConfigured` the one with what was stored; `InOrder` says what `main` waits for. A
saved setting starts a goroutine nobody waits for: `Spawns` is the return of Save, `CallBegins`
the moment the goroutine runs, and other settings may be saved and applied between the two.
`behind` is history: why the tables may differ from the settings.

### AlertEngine

A slot of `ev` is one HandleMetrics request inside EvaluateRules. The order of the
checks is the code's: the silence for the host, the wildcard silence, the cooldown
under the read lock, and, under the write lock taken later, the mark. `seen` holds
the versions of a rule the copied slice may show: the rule is copied when its turn
comes, from an array that handlers change in place. Times are ages and remaining
durations, so that the model runs forever. `since` and `quiet` are history.

### LogDiscovery, LogShipping

`LogDiscovery` computes what `main` tails: candidates in the order of the code, and
the first label for each real path, or for the path as it is when it leads nowhere
(`Canonical`). The file system is a constant: `Resolved` are the paths EvalSymlinks can follow,
`Readable` those that can be opened. The strategies look for the second, paths chosen by
hand are not checked, and a tail of one that cannot be opened reads nothing. `LogShipping`
adds the goroutines: tailers, `Reconcile` (the ten-second round over the
containers), the life of a StreamLogs goroutine (`opening`, `open`, `ended`,
`stuck`), the copier and two scanners, the bounded channel, the sender and
HandleLogs with its two inserts.

### Telemetry

Three counters stand for all: a network interface, the sum of disk bytes, the
bytes received by a container. `Collect` is one run of SystemCollector.Collect
(rates, the flood mark, interfaces that are refreshed on heavy ticks),
`Containers`/`NoContainers` are GetContainerMetrics and the start of the post,
`PostReturns`/`PostTimesOut` its end. A sample keeps the difference of two readings
instead of the rate. `HandleMetrics` is one step: what interleaves is the order in
which requests are handled, not their inserts, which go to different measurements.

### ConsoleSession, ConsolePages, ConsoleIp, ConsoleForms, WebConsole

One browser tab. Every component module has the actions of its part on its own
variables, and two that tell it that its page comes or goes (`...Mount`,
`...Unmount`) or that the host changes (`...FollowHost`). `WebConsole` extends all
four and joins them: a navigation is `Navigate` of the session with the mount of
every part; another host is `SelectHost` with the effects that depend on it. What a page that
is left still has on its way matters only if its 401 would load the login page; `orphans`
remembers that there is such a request, and whether it keeps the token or removes it.

* `ConsoleSession`. The browser's storage survives page loads, the rest does not.
  `Load` is the mount of the whole application behind its route guards. `AskHosts`,
  `HostsArrive`, `HostsRefused`, `NullListArrives` are the poll of HostContext with
  the automatic selection; `Crash` is the error boundary, which replaces everything.
* `ConsolePages`. A page is data here: `Loops` lists each `useEffect` that asks the
  server, with what its requests name (`by`), the dependency lists of the effect that asks
  (`asks`) and of the one that sets the timer (`polls`), its requests in order and what each
  fills, and the actions (`Tick`, `Answer`, `AnswerFails`, `Refused`, ...) run all of them. A
  timer asks by what was selected when its effect last ran, so a list that omits something shows.
  `view.service` is the service in the address of a service page; `OpenService` changes it without
  a new mount, by the browser's history. A
  request carries the host, filter and service of the moment it was sent, and what is on the
  page is represented by those. Requests of one kind are a set, not a bag: an
  answer may or may not be the last of its kind.
* `ConsoleIp`. The lines on the screen are represented by the number of pages of one
  address they are, in order and without gaps, 0 for a mixture; the firewall list by
  the number of commands it reflects, read by the server (`ListRead`) at some moment
  between the request and the answer. With an expired token a search, a list and a
  command are refused (`SearchRefused`, `ListRefused`, `CommandRefused`).
* `ConsoleForms`. The settings form is loaded once and posted as a whole; a stored zero is
  shown as the field's default, but for the fields in `AsStored`. A list
  page shows a version of the server's records (`register.shown`) and loads them
  again after a change, each page by its own rules (`ReloadsAfter`, `ClosesDialog`).
  A host selector and its owner each keep a copy of what is picked.

The MC modules only give constants their values.

## 3 The runs

| Run | Instance | Question | States |
|---|---|---|---|
| `fw_queue` | 2 agents, 1 address, 2 commands, 1 disturbance, TTL on | Does each command run at least once, first runs in queue order, on its agent only, settled only after it ran, and does the newest command decide? | 1.07 million |
| `fw_live` | 1 agent, 1 address, 1 command, 1 sync at a time, 2 disturbances, iptables may fail | Does every command settle, and does the list come to agree with iptables again and again? | 31 000 |
| `fw_substring` | 2 addresses, one within the text of the other | Does an unblock leave other addresses alone? It does not. | violated |
| `cfg_overlap` | 2 clients, 3 requests of 7 kinds, failing reads and writes, 1 crash, also while the file is torn; 2 tables, retentions of 7, 30 and 0 days, refused statements, goroutines that begin late | What survives overlapping requests: sound slices, registrations, a file that equals memory when quiet, tables that follow the settings | 1.93 million |
| `cfg_serial` | 1 client, 3 requests of all kinds, failing reads and writes, 1 crash, also while the file is torn | Does each handler do what AtomicConfig promises, and a restart bring back what was stored, or the defaults? | 1.41 million |
| `cfg_settings` | 2 clients, settings and host deletion | Does saving settings change only settings? It does not. | violated |
| `alerts` | 2 overlapping evaluations, 1 rule, 1 host, cooldown 2, silence 1, 3 changes | Flood control, silences kept, alerts that come back | 114 000 |
| `alert_rate` | the same with one rule that always fires | At most one report a minute? Not with overlapping posts. | violated |
| `log_shipping` | a file, a link to it, a name in a directory that cannot be searched, a container; 3 lines of the file, 2 of the container, channel of 1, 2 stream slots, 2 starts or stops, 1 restart | Nothing stored twice, files in order, web logs recognised, the channel drains, streams follow containers | 44 600 |
| `log_stream_ends` | a container that restarts | Does StreamLogs end with its stream? It does not. | violated |
| `console` | 2 hosts, 42 tours: each page alone, and combinations with expiry, logout, crash, reload and the browser's history | Do pages settle on what is selected, forms save and list what was meant, an expired session end? | 185 000 |
| `telemetry` | width 8, 3 bytes, 3 samples, 2 seconds, 1 reset, correction or crash | No byte reported twice, no flood without traffic, points in order | 2.6 million |

Why the bounds are enough to be interesting:

* Two commands for one address and agent are what an order, a repetition or a last
  word needs; two agents are what a mix-up needs. More disturbances only repeat
  the effects of one, since each clears or sets the same rules. `CmdId` is
  symmetric in `fw_queue`; the live run has no symmetry.
* Three requests from two clients reach a stale copy, an append into a shared array
  and a list moved to a new one. Lists begin with one or two elements, so that the
  capacities 1, 2 and 4 occur.
* Two tables are what a call that ends between two tables, or two calls that mix them,
  need. Seven days is also what a start sets first, thirty differs from it, and 0 is
  a setting nothing applies.
* A cooldown of two ticks tells "just triggered", "in between" and "over" apart.
* A channel of one and three lines make the reader of a file wait: one line is with the sender, one in
  the channel, and the reader holds the third. The two lines of a container fill the channel
  while a scanner holds the second, until the sender takes the first. Files and containers come in separate
  configurations; they share only the channel.
* A tour of the console bounds one family of behaviours: the pages visited, the saved
  host, the answers of the host list, how many kinds of requests a loop may have on
  their way when it polls again, and a budget each of changes, faults, page loads and
  writes. Pages share no state beyond the session, so that one tour for each page and
  a few over two pages reach what all of them together would; two of a kind (two
  changes, two writes, two searches) are what an order needs. Two hosts and ALL
  SYSTEMS are every selection. A chart keeps one point (`Keep` = 1) before it adds one
  instead of 40 or 60: a late point is forgotten after as many answers as the chart
  holds.
* Three samples give a first one without a rate, a second and a heavy tick
  (`RefreshEvery` 2 instead of 10). With width 8 and three bytes a wrapped difference
  is larger than all traffic, as with 2^64. One counter moves in a behaviour since
  no reading depends on another; counters and clock change only right before
  they are read, since nobody sees them in between.

`CHECK_DEADLOCK FALSE` is set where the bounds run out, and for the console, whose
login page and error screen wait for the user; `fw_live`, `alerts`, and the
violation run of the alerts check for deadlock.

What the less obvious properties mean:

* `LastCommandDecides` excludes what the code does not promise: commands queued in
  the same second, commands run twice, expired ones, fail2ban and restarts.
* `RetentionInForce` excludes what the code leaves to chance (`behind`): a statement ClickHouse refused
  on a table that had another retention, settings that could not be saved but are in
  memory, a call begun while another one was going on or after newer settings had been saved (the goroutine of
  an older save may be the last to run), and an overlapping request that put
  old settings back (finding 2), which nothing applies. The next start makes up for all of them, unless ClickHouse refuses again.
* `ListMatchesReality` is "again and again", not "from some time on": every sync first
  deletes what it inserts.
* `FloodControl` is the rate limit as far as the code keeps it: between evaluations
  that could have used the same slot, that is, that do not overlap.
* `QuietIsNotReported` speaks of rules that were off or silenced during the whole
  evaluation; a silence that begins in the middle may be too late.
* `CountedOnce` holds for the network only while its counter never went back: there the
  subtraction is not guarded, and it wraps.
* `StoredInOrder` and `HistoryCountedOnce` name the one exception: a post the
  agent gave up on.

* `CalmPagesInOrder` speaks of a calm analysis (`lookup.calm`): started with nothing else
  on its way, for the address in the box, and not disturbed since by an edit of the box or
  another host while an answer was due. The code promises nothing for the others, and they
  do go wrong: see section 6.
* `ToastComesTrue` holds for up to one fault: a toast promises the new firewall list, and the
  second refresh after 30 seconds is what makes up for a lost or early first one.
* `AcceptedIsListed` and `SavesWhatIsMeant` name their exceptions: a load that failed or an
  older answer over a newer one (`behind`), and a save by somebody else since the server
  read what the form loaded (`overtaken`).
* `ChoicesSurvive` is about dialogs opened while nothing was on its way (`quiet`). A list that was
  already asked for resets the members chosen in a group's dialog when it comes.
* `RightsAsShown` excepts the selector after a creation (`picker.created`): it looks empty and
  its owner still holds the hosts.
* `TimersFollowSelection` compares the dependency lists with what the requests name. It has one
  exception, the code's own: the timer of the page that apache, nginx and httpd share asks by
  the service and its effect does not name it (`ApacheDetail.jsx:27,59`), so it polls for the service of its last
  run, `view.since`.
* `SettlesOnSelection` is about the host and the choice, and the service the timer was set with. It excludes fields the code cannot fill: requests to addresses the server
  does not have, and those that need a host while ALL SYSTEMS is selected.

## 4 Fairness

Six properties need it (two of `fw_live`, `ReportedAgain`, and those of
`LogShipping` and the console below).

* FirewallControl: the agent's goroutines are endless ticker loops, handlers return,
  ClickHouse works off its mutations: weak fairness. A request may be lost, but not
  every one for ever: strong fairness of an acknowledgement's and a sync's success.
  Nothing forces administrators, fail2ban, crashes or losses to act.
* AlertEngine: the steps of an evaluation and the clock are weakly fair. That posts come and
  that the rule stays is a premise of `ReportedAgain`, not an assumption.
* LogShipping: goroutines run, posts end after at most five seconds, rounds happen: weak
  fairness. Go serves the goroutines that wait for a channel in the order of their
  arrival, so no reader waits forever while the sender takes lines: strong
  fairness of each send. Programs need not write, containers need not start.

* WebConsole: a browser's timers fire, and a request that polls is answered in the end:
  weak fairness of `AskHosts`, of the timers of each effect (`TickOf`), of the answer to the
  list of hosts and of the answers to polling requests, those of the current selection
  step by step (`CurrentAnswered`), older ones in any order (`OldAnswered`). A failed answer
  is a fault, of which a tour has a bounded number. The user, the expiry of a token, the
  search, the firewall page and the forms have no fairness.

## 5 Proofs

Checked by TLAPS, for all values of the constants under the named assumptions.

* `FirewallControl_proofs`. `TypeCorrect`; `OnlyAsked` from `CausesKnown` (each piece of
  work on its way, a request, a row, a fetched command, a snapshot, was asked for);
  `SettledRan` from `LifeCycle` (one request, one row, one id) and `RanBeforeReported` (a
  result exists only of a command that ran); `RunsInOrder` from `OldestFirst` (a poll in
  progress still holds every older command that has not run); `Delivers`, the refinement of
  `CommandDelivery`, step by step; `LastDecides` from `NewestRunDecided` (the rule is as the
  newest command that ran left it, unless something disturbed it) and `Undisturbed`.
* `ConfigStore_proofs`. `RegistrationSafe`: wherever there is a key there is a map, in memory,
  in the file and in every copy. The frame lemmas say which fields each of the
  twenty handlers leaves alone. `TypesHold`, `QuietStored` and `AgentsKept` rest on three layers. The heap:
  every slice is within its array, arrays hold one kind of list each, the first map is
  the secrets' and no rule's. What a change copies or shares stays within that, in place or appended. The file:
  what it holds is the configuration in memory marshalled, unless a request has a change it did
  not write yet (`OnDisk`). The format: reading back what was written gives the same agents
  (`RoundTrip`), which counts the addresses of the arrays a Load makes. `TablesFollowSettings`, for the specification of Retention: as long as
  nothing disturbed the last call, all tables before its next one have its retention, and
  its retention is that of the settings in force, except from the moment settings are in memory to
  the moment their goroutine is on its way (`Changing`); from then to its beginning the goroutine itself is a member of
  `policies`, and a call that begins in any other order marks the tables as behind.
  `OneClientIsAtomic` is the refinement of `AtomicConfig`: the configuration in force is
  `Value`, what marshalling `mem` gives; for each way a handler changes slices, arrays or maps
  a lemma says what becomes of that value (`AppendValue`, `RemoveValue`, `FieldValue`, `GroupValue`,
  `SilenceValue`, `RegisterValue`, `ScalarValue`) and that AtomicConfig has a request that does it
  (`May...`), so every handler answers as `HandleAnswers` says. The invariant adds to the one above:
  a handler's copy is what is in force or one request further (`Serial`), no two rules
  share a map of silenced hosts (`Own`), and without a server the file is what was stored last
  or unreadable (`Restorable`). Its hypotheses are that clients do not overlap (`OneClient`; with two it is
  false, finding 2), and that JSON's null is not a set of hosts
  that holds a registering one (`HostsAreNotNull`). Reads and writes that fail, crashes between and during
  writes, and first files that cannot be read are included.
* `AlertEngine_proofs`. `Typed`; `FloodControlled`: the age of a rule is never larger than the time
  since the slot itself triggered it, and who passed the check did so when that was a
  whole cooldown; `QuietKept`: what is in `quiet` is off or muted now, and an
  evaluation past a check of the rule contradicts it.
* `Telemetry_proofs`. `NeverCountedTwice`: what has been reported, plus what the next reading would
  add, is at most what moved; that needs, for the network, that the counter is ahead of
  the last reading by exactly what moved since. `PointsInOrder`: a post is either the newest and
  waited for, or given up on, and no two are of one sample. `FloodsAreReal`, `TypeCorrect`.
  `HistoryShowsNoByteTwice`: the rises of the readings in the database, in the order of their
  samples, sum to at most what moved, since leaving readings out or adding a larger one later cannot make
  the sum larger than the last reading's distance from the first.
* `LogShipping_proofs`. `TypesHold`; `StoredAtMostOnce` and `FilesPostedInOrder`: every reader of a file
  or of a stream is ahead of everything of its source that is in the channel, with the sender or in a table, and
  no two readers read one source; a file is discovered once although it has several names.
  `WebLinesAreRecognised`: a line keeps the label of its reader until it is stored.

* The console, in three modules. `WebConsole_proofs` has what the others build on: which
  variables each action leaves alone, and the session's types. A component's invariant
  is then checked against its own actions and the few that mount, leave or crash a page.
  Also `TimersFollowSelectionHolds`: the invariant adds that the timers are
  those of the mounted page's loops, and a table lemma (`LoopDepends`) reads off each effect's list that it names
  the host and the choice if its requests or its condition do, and that none names the service. `ConsoleForms_proofs`: `RightsAsShownHolds`,
  `ChoicesSurviveHolds` (as long as a dialog opened on a quiet page is open nothing is on its
  way but the form's own save), `AcceptedIsListedHolds` (an accepted change that the list
  does not show has a load on its way that was not read before it, or is marked behind),
  `SavesWhatIsMeantHolds` (a loaded form that was not overtaken agrees with the
  stored settings wherever nothing was typed). `ConsoleIp_proofs`: `TypeOKHolds` for the
  whole console, `CalmPagesInOrderHolds` (a calm page has either nothing on its way or exactly
  the one search it expects, for the address in its box and the next page), and
  `ToastComesTrueHolds` (for each promise two things stand, of a request read late
  enough, a timer, or the promise being kept, and a fault takes at most one of them).

The assumptions are those of the modules: bounds that are natural numbers, finite sets of addresses and
paths, files and requests that are configurations and requests (`FilesAssumption`, `RequestsAssumption`: a
file has no more elements in a list than the capacities of the model reach).

Sums, histories and positions are defined by recursion over numbers. The library's induction
theorems take an operator and cannot be used with the installed provers, so the proofs use its set form: the set
of counterexamples, if not empty, has a least element, because < is well founded on the naturals
(`LeastElement`). `SelectSeq` is opaque to the provers; the handlers that rebuild a list are
therefore written with `Without`, which names the position each kept element comes from.

Only model-checked: everything under fairness (`CommandsSettle`, `ListMatchesReality`, `ReportedAgain`, `Drains`,
`FollowsContainers`, `ExpiryNoticed`, `SettlesOnSelection`).

## 6 Findings

Each has a run of its own.

1. `collector/firewall.go:121` deletes every rule whose text contains the address: unblocking
   10.0.0.1 unblocks 10.0.0.10 (`fw_substring`).
2. `api/handler.go:1043` puts back a whole copy of the configuration: what others
   saved meanwhile is reverted (`cfg_settings`).
3. `alert/service.go:98` checks and sets the time of the last alert under two locks:
   overlapping posts both report (`alert_rate`).
4. `collector/docker_logs.go:85` waits for its context only: the log of a container that
   restarts between two rounds is not followed (`log_stream_ends`).

Seen on the way, without a run:

* `storage/config.go:102`: on a fresh start Load returns before it makes a system key and the
  map of agents; the first restart makes them.
* `storage/config.go:91,104,137`: the error of Load is dropped. A file torn by a crash, or one that cannot be
  read for a moment, leaves the defaults in memory, and `auth/auth.go:46` saves them over what was stored.
* `api/handler.go:1447`: a rule with a nil map gets its map in one array only; a stale copy in another array keeps nil.
* `api/handler.go:545-553`: three overlapping creations can leave two users of one name, through
  the array that their copies share.
* `storage/clickhouse.go:844`: the comment trusts FINAL to hide rows whose delete is only queued.
* `collector/docker_logs.go:49`: an overlong line silences both pipes of a container.
* `collector/system.go:154`: the network difference has no guard against a counter
  that went back; the disk's has.
* `agent/main.go:359`: when the system reading fails, zeros are sent in its place.
* `api/handler.go:172` looks for "DDoS" in a status that is OK, WARNING or CRITICAL.
* `storage/clickhouse.go:313`: each start of the server sets the retention of all tables to
  seven days before `main.go:96` sets what was saved; ClickHouse may drop older rows in between.
* `api/handler.go:1050`: every saved setting starts a goroutine that alters table after table; they need not
  begin in the order of the saves, so an older retention can have the last word, and two of them can leave the tables with different retentions, and a statement that is refused is not tried again
  before the next start.
* `api/handler.go:1043`: settings whose save fails stay in memory, and the next handler that saves stores
  them; the tables follow at the next start.
* `api/handler.go:765`: the id of a deleted group stays with its users.
* `collector/connection.go:83`: the name of a process is cached by its id for ever; a later
  process with that id is reported under it.
* `alert/service.go:109`: `lastTriggered` keeps a key for every rule and host ever seen.
* `api/ip_intelligence/handler.go:114`: an unblock with an empty agent is accepted and queued for an agent
  that does not exist.
* `api/handler.go:288`: a line can be in `access_logs` and not in `logs`, or the other way round; the agent
  looks at neither answer.

In the web console (below `web/src/`), met while modelling:

* `contexts/HostContext.jsx:55` with `api/handler.go:339`: when every host is ignored the list is answered as
  `null`, the console crashes while it is drawn, and so does every reload.
* `pages/IpIntelligence.jsx:193`: "load more" is offered as long as the first page was full. A page past
  the end, or an answer after the analysis was cleared, spreads `null` and crashes the console.
* `pages/IpIntelligence.jsx:135`: a change of the host clears the analysis, but an answer on its way fills it again with
  the host before; the firewall list stays until the new one comes, while its buttons already act on the new host.
* `pages/IpIntelligence.jsx:374`: the magnifying glass of a row puts its address into the box and searches for what the
  box held before.
* `pages/IpIntelligence.jsx:273,432`: the panel called "always visible" is on the empty page only.
* `pages/UserManagement.jsx:158`: after a creation the selector looks empty and its owner still holds the hosts: the
  next user or group is granted hosts nobody sees.
* `pages/UserManagement.jsx:213`: the answer is taken for the list whatever its status; a 401 crashes the console.
* `pages/Alerts.jsx:42`: a refused rule, channel or silence closes its dialog as an accepted one does.
* `pages/Settings.jsx:139`: a save before or without a successful load stores the defaults.
* A 401 on a page loads the login page and keeps the expired token (`pages/Dashboard.jsx:40`), on the host list
  or the settings it removes it (`contexts/HostContext.jsx:46`).
* `pages/services/ApacheDetail.jsx:59`: the timer's effect does not name the service its requests name. Back and
  forward in the browser's history between apache, nginx and httpd keep the component, and the timer fills the page
  of one with the figures of the other until the period or the rate is changed.
* `pages/services/RedisDetail.jsx:16`, `MongoDBDetail.jsx`, `PostgreSQLDetail.jsx` ask addresses the server does
  not have, and parse the console's own page.
* `pages/Servers.jsx:92` and `components/ConnectAgentModal.jsx:9` send no token: removing a host and
  reading the key are always refused.

## 7 Left out

* Contents: messages, levels, time formats, the text of rules beyond `Within`, SQL.
* Delivery of alerts by webhook and mail: goroutines whose results nobody looks at.
* Log files that appear, or become readable, after the agent has started.
* Rotation inside the tail library; containers with a terminal, whose stream is not split.
* Gauges (CPU, memory, partitions): each is read and stored, with no relation to earlier ones.
* In the console: the set-up of one-time codes in Settings (three requests, each of which sets one
  flag), paging and export of lines already loaded, the filter buttons of the security page,
  the removal of a host (always refused), toasts, charts, colours, the theme, the dialogs that show
  instructions, and Infrastructure.jsx, which has no route.
* The snapshots of connections and processes, the queries of the host list and of log search: single statements without state of
  their own.
* Rights in a token: they are those of the login until it expires, and nothing on the server
  remembers a session.
* Cryptography of tokens and one-time codes; the setup dialogue; the database
  collectors, which nothing calls; built assets and deployment files.
* ClickHouse, InfluxDB, Docker, the kernel and the Go runtime are modelled by how this code uses
  them; such definitions are marked external in `PROJECT.json`. Assumed of
  ClickHouse: mutations of a table are applied to the rows that existed when they were issued, in order
  per row, and TTL may drop a row at any time after it is due.

## 8 Plan

Done: FirewallControl with CommandDelivery, ConfigStore with AtomicConfig, Retention, AlertEngine,
LogDiscovery with LogShipping, Telemetry, the web console in five modules, and the proofs
of section 5.

Left: rights on the server's side, that is, what a token grants between a change of rights and its end.

## 9 Running

    tlc -workers 2 -config FirewallQueue.cfg MCFirewallControl
    tlapm Telemetry_proofs.tla

Each `.cfg` belongs to the MC module named in `PROJECT.json`. A violation run ends
with the counterexample it is about.
