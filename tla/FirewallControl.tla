-------------------------- MODULE FirewallControl --------------------------
(***************************************************************************)
(* The firewall command pipeline: an administrator blocks or unblocks an   *)
(* address for one agent; the server records it in the ClickHouse table    *)
(* blocked_ips and queues a row in agent_commands; the agent polls the     *)
(* queue, runs iptables and acknowledges; a second agent goroutine reports *)
(* the addresses really blocked, and the server rewrites blocked_ips.      *)
(*                                                                         *)
(* Sources: server/api/ip_intelligence/handler.go,                         *)
(* server/storage/clickhouse.go (Phase 43), server/api/handler.go          *)
(* (HandleIngestFirewallSync), agent/main.go (the two firewall             *)
(* goroutines), agent/collector/firewall.go, agent/sender/http.go.         *)
(*                                                                         *)
(* Every statement sent to ClickHouse is a step of its own; handlers of    *)
(* concurrent HTTP requests interleave (gin runs each in a goroutine and   *)
(* none of these methods takes LogStore.mu).  ALTER TABLE ... DELETE and   *)
(* ... UPDATE return before they are applied, and touch only the rows that *)
(* existed when they were issued.                                          *)
(***************************************************************************)
EXTENDS Naturals, FiniteSets

CONSTANTS
    Agent,        \* agents (the AgentID / Hostname of the code)
    NoAgent,      \* the empty agent_id
    NoReport,     \* no result waits to be acknowledged
    IP,           \* addresses, other than the 0.0.0.0 and 127.x that CollectBlockedIPs skips
    Within,       \* <<p, q>>: the text of p occurs in the text of a rule for q
    CmdId,        \* the UUIDs ClickHouse gives to the rows of agent_commands
    MaxCopies,    \* bound: a count of identical DROP rules saturates here
    MaxSyncs,     \* bound: firewall-sync requests of one agent in flight at a time
    MaxExternal,  \* bound: fail2ban actions, restarts and reboots
    Flaky,        \* may a single iptables invocation fail?
    TTL           \* may a command outlive the 7 days of the table's TTL?

ASSUME NoAgentAssumption == NoAgent \notin Agent
ASSUME NoReportAssumption == NoReport \notin [id : CmdId, status : {"completed", "failed"}]
ASSUME WithinAssumption  == Within \subseteq IP \X IP /\ \A p \in IP : <<p, p>> \in Within
ASSUME BoundsAssumption  == /\ MaxCopies \in Nat \ {0}
                            /\ MaxSyncs \in Nat /\ MaxExternal \in Nat
ASSUME SwitchAssumption  == Flaky \in BOOLEAN /\ TTL \in BOOLEAN

VARIABLES
    blocked_ips,     \* the table, per (agent, ip): absent, live or deleting
    agent_commands,  \* the rows of the table: what was asked and when
    status,          \* the status column, with the life of an id before and after the row
    update,          \* per row, the last ALTER UPDATE not applied yet
    now,             \* ClickHouse's now(), in seconds
    requests,        \* BlockIP/UnblockIP handlers between their two statements
    syncs,           \* firewall-sync requests: on the way, or between their two statements
    fetched,         \* per agent, the commands of the current poll still to run
    report,          \* per agent, the result of the command just run, not acknowledged yet
    lateAcks,        \* acknowledgements the agent gave up on and the server may still process
    dropRules,       \* per agent and address, copies of -s ip -j DROP in the INPUT chain
    f2bRules,        \* per agent, addresses with a rule in a fail2ban chain
    external,        \* how many fail2ban actions, restarts and reboots have happened
    runs,            \* history: how often a command ran (0, 1, or 2 for more)
    reasons          \* history: the <<agent, ip>> somebody asked to block

tables    == <<blocked_ips, agent_commands, status, update, now>>
handlers  == <<requests, syncs>>
agentVars == <<fetched, report, lateAcks>>
iptables  == <<dropRules, f2bRules>>
history   == <<runs, reasons>>
vars == <<tables, handlers, agentVars, iptables, external, history>>

Actions  == {"block_ip", "unblock_ip"}
Settled  == {"completed", "failed"}
Command  == [id : CmdId, agent : Agent \cup {NoAgent}, action : Actions, ip : IP, at : Nat]
Request  == [id : CmdId, agent : Agent \cup {NoAgent}, action : Actions, ip : IP]
Report   == [id : CmdId, status : Settled]
SyncReq  == [agent : Agent, ips : SUBSET IP, pc : {"sent", "cleared"}]

Init ==
    /\ blocked_ips = [a \in Agent |-> [p \in IP |-> "absent"]]
    /\ agent_commands = {}
    /\ status = [i \in CmdId |-> "unused"]
    /\ update = [i \in CmdId |-> "none"]
    /\ now = 0
    /\ requests = {} /\ syncs = {}
    /\ fetched = [a \in Agent |-> {}]
    /\ report = [a \in Agent |-> NoReport]
    /\ lateAcks = {}
    /\ dropRules = [a \in Agent |-> [p \in IP |-> 0]]
    /\ f2bRules = [a \in Agent |-> {}]
    /\ external = 0
    /\ runs = [i \in CmdId |-> 0]
    /\ reasons = {}

-----------------------------------------------------------------------------
(* Reading blocked_ips.  A row whose delete is still queued is read like   *)
(* any other, with or without FINAL.                                       *)

IsIPBlocked(p, a) == blocked_ips[a][p] # "absent"

GetBlockedIPs(a) == {p \in IP : IsIPBlocked(p, a)}

\* What ALTER TABLE ... DELETE does at once to the rows it selects.
Doom(row) == IF row = "live" THEN "deleting" ELSE row

\* The addresses iptables-save shows with a DROP or REJECT rule.
CollectBlockedIPs(a) == {p \in IP : dropRules[a][p] > 0} \cup f2bRules[a]

-----------------------------------------------------------------------------
(* The server's handlers for the administrator: one step per statement.    *)

\* Mutant: the check for an empty agent_id is missing.
BlockIP_AnyAgent(i, a, p) ==
    /\ status[i] = "unused"
    /\ blocked_ips' = [b \in Agent |-> IF b = a THEN [blocked_ips[b] EXCEPT ![p] = "live"]
                                                ELSE blocked_ips[b]]
    /\ requests' = requests \cup {[id |-> i, agent |-> a, action |-> "block_ip", ip |-> p]}
    /\ status' = [status EXCEPT ![i] = "queuing"]
    /\ reasons' = reasons \cup {<<a, p>>}
    /\ UNCHANGED <<agent_commands, update, now, syncs, agentVars, iptables, external, runs>>

\* POST /ip/block.  An empty agent_id is refused; the record is inserted.
BlockIP(i, a, p) ==
    /\ status[i] = "unused"
    /\ a \in Agent
    /\ blocked_ips' = [blocked_ips EXCEPT ![a][p] = "live"]
    /\ requests' = requests \cup {[id |-> i, agent |-> a, action |-> "block_ip", ip |-> p]}
    /\ status' = [status EXCEPT ![i] = "queuing"]
    /\ reasons' = reasons \cup {<<a, p>>}
    /\ UNCHANGED <<agent_commands, update, now, syncs, agentVars, iptables, external, runs>>

\* POST /ip/unblock.  Nothing refuses an empty agent_id.
UnblockIP(i, a, p) ==
    /\ status[i] = "unused"
    /\ blocked_ips' = [b \in Agent |-> IF b = a THEN [blocked_ips[b] EXCEPT ![p] = Doom(@)]
                                                ELSE blocked_ips[b]]
    /\ requests' = requests \cup {[id |-> i, agent |-> a, action |-> "unblock_ip", ip |-> p]}
    /\ status' = [status EXCEPT ![i] = "queuing"]
    /\ UNCHANGED <<agent_commands, update, now, syncs, agentVars, iptables, external, history>>

\* The second statement of both: the row enters the queue as pending.
\* created_at has a resolution of one second: the clock may not have moved.
InsertCommand(r) ==
    /\ r \in requests
    /\ \E t \in {now, now + 1} :
          /\ now' = t
          /\ agent_commands' = agent_commands \cup
                {[id |-> r.id, agent |-> r.agent, action |-> r.action, ip |-> r.ip, at |-> t]}
    /\ status' = [status EXCEPT ![r.id] = "pending"]
    /\ requests' = requests \ {r}
    /\ UNCHANGED <<blocked_ips, update, syncs, agentVars, iptables, external, history>>

\* ClickHouse refuses the second statement, or the server stops before it:
\* the first one is not undone.
InsertCommandFails(r) ==
    /\ r \in requests
    /\ status' = [status EXCEPT ![r.id] = "rejected"]
    /\ requests' = requests \ {r}
    /\ UNCHANGED <<blocked_ips, agent_commands, update, now, syncs, agentVars, iptables,
                   external, history>>

-----------------------------------------------------------------------------
(* ClickHouse in the background.                                           *)

ApplyDelete(a, p) ==
    /\ blocked_ips[a][p] = "deleting"
    /\ blocked_ips' = [blocked_ips EXCEPT ![a][p] = "absent"]
    /\ UNCHANGED <<agent_commands, status, update, now, handlers, agentVars, iptables,
                   external, history>>

\* Of several updates of a row queued together the last one decides.
ApplyUpdate(c) ==
    /\ c \in agent_commands
    /\ update[c.id] # "none"
    /\ status' = [status EXCEPT ![c.id] = update[c.id]]
    /\ update' = [update EXCEPT ![c.id] = "none"]
    /\ UNCHANGED <<blocked_ips, agent_commands, now, handlers, agentVars, iptables,
                   external, history>>

\* The table's TTL: seven days after created_at the row is dropped.
ExpireCommand(c) ==
    /\ TTL
    /\ c \in agent_commands
    /\ agent_commands' = agent_commands \ {c}
    /\ status' = [status EXCEPT ![c.id] = "expired"]
    /\ update' = [update EXCEPT ![c.id] = "none"]
    /\ UNCHANGED <<blocked_ips, now, handlers, agentVars, iptables, external, history>>

-----------------------------------------------------------------------------
(* The agent's command goroutine: poll, then run and acknowledge one       *)
(* command after the other.                                                *)

\* Mutant: the query forgets WHERE agent_id = ?.
GetPendingCommands_AllAgents(a) == {c \in agent_commands : status[c.id] = "pending"}

GetPendingCommands(a) == {c \in agent_commands : c.agent = a /\ status[c.id] = "pending"}

\* Mutant: the server marks commands as completed when it hands them out.
FetchCommands_AutoAck(a) ==
    /\ fetched[a] = {} /\ report[a] = NoReport
    /\ GetPendingCommands(a) # {}
    /\ fetched' = [fetched EXCEPT ![a] = GetPendingCommands(a)]
    /\ status' = [i \in CmdId |-> IF \E c \in GetPendingCommands(a) : c.id = i
                                  THEN "completed" ELSE status[i]]
    /\ UNCHANGED <<blocked_ips, agent_commands, update, now, handlers, report, lateAcks,
                   iptables, external, history>>

\* A poll that fails, or answers an empty list, changes nothing.
FetchCommands(a) ==
    /\ fetched[a] = {} /\ report[a] = NoReport
    /\ GetPendingCommands(a) # {}
    /\ fetched' = [fetched EXCEPT ![a] = GetPendingCommands(a)]
    /\ UNCHANGED <<tables, handlers, report, lateAcks, iptables, external, history>>

\* Mutants: no ORDER BY, or the wrong one.
IsNext_AnyOrder(a, c) == c \in fetched[a]
IsNext_NewestFirst(a, c) == c \in fetched[a] /\ \A d \in fetched[a] : c.at >= d.at

\* ORDER BY created_at ASC; rows of the same second come in any order.
IsNext(a, c) == c \in fetched[a] /\ \A d \in fetched[a] : c.at <= d.at

Again(n) == IF n < 2 THEN n + 1 ELSE n

Ran(a, c, result) ==
    /\ fetched' = [fetched EXCEPT ![a] = @ \ {c}]
    /\ report' = [report EXCEPT ![a] = [id |-> c.id, status |-> result]]
    /\ runs' = [runs EXCEPT ![c.id] = Again(@)]
    /\ UNCHANGED <<tables, handlers, lateAcks, external, reasons>>

OneMore(n) == IF n < MaxCopies THEN n + 1 ELSE n

\* iptables -I INPUT -s ip -j DROP: a further copy each time.
ExecuteBlock(a, c) ==
    /\ report[a] = NoReport /\ IsNext(a, c) /\ c.action = "block_ip"
    /\ \/ /\ dropRules' = [dropRules EXCEPT ![a][c.ip] = OneMore(@)]
          /\ Ran(a, c, "completed")
       \/ /\ Flaky
          /\ UNCHANGED dropRules
          /\ Ran(a, c, "failed")
    /\ UNCHANGED f2bRules

\* The rules whose text contains the address of an unblock command.
Mentions(p) == {q \in IP : <<p, q>> \in Within}

\* What the deletes for address p may leave of the copies of q's DROP rule,
\* and of the fail2ban rules: a single delete may fail.
CopiesLeft(a, p, q) == IF q \notin Mentions(p) THEN {dropRules[a][q]}
                       ELSE IF Flaky THEN 0..dropRules[a][q] ELSE {0}

F2bLeft(a, p) == {S \in SUBSET f2bRules[a] :
                     /\ f2bRules[a] \ Mentions(p) \subseteq S
                     /\ Flaky \/ S \cap Mentions(p) = {}}

\* Delete, one by one, every rule of the snapshot that mentions the address
\* (if iptables-save itself fails nothing is removed).  The command counts as
\* completed as soon as one rule is gone, and as failed when none is.
ExecuteUnblock(a, c) ==
    /\ report[a] = NoReport /\ IsNext(a, c) /\ c.action = "unblock_ip"
    /\ \E left \in [IP -> 0..MaxCopies], keep \in F2bLeft(a, c.ip) :
          /\ \A q \in IP : left[q] \in CopiesLeft(a, c.ip, q)
          /\ dropRules' = [dropRules EXCEPT ![a] = left]
          /\ f2bRules' = [f2bRules EXCEPT ![a] = keep]
          /\ Ran(a, c, IF left # dropRules[a] \/ keep # f2bRules[a]
                       THEN "completed" ELSE "failed")

\* Mutant: the update forgets WHERE id = ?.
Acked_AllRows(r) == [i \in CmdId |-> IF \E c \in agent_commands : c.id = i
                                     THEN r.status ELSE update[i]]

\* ALTER TABLE agent_commands UPDATE status = ... WHERE id = ...
Acked(r) == IF \E c \in agent_commands : c.id = r.id
            THEN [update EXCEPT ![r.id] = r.status] ELSE update

\* Mutant: only successes are acknowledged.
AckCommand_OnlySuccess(a) ==
    /\ report[a] # NoReport
    /\ update' = IF report[a].status = "completed" THEN Acked(report[a]) ELSE update
    /\ report' = [report EXCEPT ![a] = NoReport]
    /\ UNCHANGED <<blocked_ips, agent_commands, status, now, handlers, fetched, lateAcks,
                   iptables, external, history>>

\* The server has processed the acknowledgement before the agent goes on.
AckCommand(a) ==
    /\ report[a] # NoReport
    /\ update' = Acked(report[a])
    /\ report' = [report EXCEPT ![a] = NoReport]
    /\ UNCHANGED <<blocked_ips, agent_commands, status, now, handlers, fetched, lateAcks,
                   iptables, external, history>>

\* The request is lost, or refused: the error is logged (an HTTP error
\* status is not even noticed) and the command stays pending.
AckLost(a) ==
    /\ report[a] # NoReport
    /\ report' = [report EXCEPT ![a] = NoReport]
    /\ UNCHANGED <<tables, handlers, fetched, lateAcks, iptables, external, history>>

\* The client's 5 s timeout fires while the request is on its way.
AckTimeout(a) ==
    /\ report[a] # NoReport
    /\ lateAcks' = lateAcks \cup {report[a]}
    /\ report' = [report EXCEPT ![a] = NoReport]
    /\ UNCHANGED <<tables, handlers, fetched, iptables, external, history>>

LateAck(r) ==
    /\ r \in lateAcks
    /\ lateAcks' = lateAcks \ {r}
    /\ update' = Acked(r)
    /\ UNCHANGED <<blocked_ips, agent_commands, status, now, handlers, fetched, report,
                   iptables, external, history>>

-----------------------------------------------------------------------------
(* The agent's sync goroutine and the server's SyncBlockedIPs.  After a    *)
(* timeout the agent sends again while the server still works on the       *)
(* earlier request, so several may be in flight.                           *)

SendFirewallSync(a) ==
    /\ Cardinality({s \in syncs : s.agent = a}) < MaxSyncs
    /\ syncs' = syncs \cup {[agent |-> a, ips |-> CollectBlockedIPs(a), pc |-> "sent"]}
    /\ UNCHANGED <<tables, requests, agentVars, iptables, external, history>>

\* Mutant: the old records are not deleted first.
SyncClear_NoDelete(s) ==
    /\ s \in syncs /\ s.pc = "sent"
    /\ syncs' = (syncs \ {s}) \cup
                (IF s.ips = {} THEN {} ELSE {[s EXCEPT !.pc = "cleared"]})
    /\ UNCHANGED <<tables, requests, agentVars, iptables, external, history>>

\* ALTER TABLE blocked_ips DELETE WHERE agent_id = ...; an empty list ends here.
SyncClear(s) ==
    /\ s \in syncs /\ s.pc = "sent"
    /\ blocked_ips' = [blocked_ips EXCEPT ![s.agent] = [p \in IP |-> Doom(@[p])]]
    /\ syncs' = (syncs \ {s}) \cup
                (IF s.ips = {} THEN {} ELSE {[s EXCEPT !.pc = "cleared"]})
    /\ UNCHANGED <<agent_commands, status, update, now, requests, agentVars, iptables,
                   external, history>>

\* The batch insert.
SyncInsert(s) ==
    /\ s \in syncs /\ s.pc = "cleared"
    /\ blocked_ips' = [blocked_ips EXCEPT ![s.agent] =
                          [p \in IP |-> IF p \in s.ips THEN "live" ELSE @[p]]]
    /\ syncs' = syncs \ {s}
    /\ UNCHANGED <<agent_commands, status, update, now, requests, agentVars, iptables,
                   external, history>>

\* Lost on the way, refused by ClickHouse at either statement, or cut off by
\* a stop of the server: what was done stays done.
SyncAborts(s) ==
    /\ s \in syncs
    /\ syncs' = syncs \ {s}
    /\ UNCHANGED <<tables, requests, agentVars, iptables, external, history>>

-----------------------------------------------------------------------------
(* The agent's host.                                                       *)

Fail2banBan(a, p) ==
    /\ external < MaxExternal /\ external' = external + 1
    /\ f2bRules' = [f2bRules EXCEPT ![a] = @ \cup {p}]
    /\ reasons' = reasons \cup {<<a, p>>}
    /\ UNCHANGED <<tables, handlers, agentVars, dropRules, runs>>

Fail2banUnban(a, p) ==
    /\ external < MaxExternal /\ external' = external + 1
    /\ p \in f2bRules[a]
    /\ f2bRules' = [f2bRules EXCEPT ![a] = @ \ {p}]
    /\ UNCHANGED <<tables, handlers, agentVars, dropRules, history>>

\* The agent process restarts: the poll it was working on is forgotten, the
\* rules stay in the kernel.
AgentRestart(a) ==
    /\ external < MaxExternal /\ external' = external + 1
    /\ fetched' = [fetched EXCEPT ![a] = {}]
    /\ report' = [report EXCEPT ![a] = NoReport]
    /\ UNCHANGED <<tables, handlers, lateAcks, iptables, history>>

\* The host reboots: nothing saves the rules.
HostReboot(a) ==
    /\ external < MaxExternal /\ external' = external + 1
    /\ fetched' = [fetched EXCEPT ![a] = {}]
    /\ report' = [report EXCEPT ![a] = NoReport]
    /\ dropRules' = [dropRules EXCEPT ![a] = [p \in IP |-> 0]]
    /\ f2bRules' = [f2bRules EXCEPT ![a] = {}]
    /\ UNCHANGED <<tables, handlers, lateAcks, history>>

-----------------------------------------------------------------------------

Admin ==
    \/ \E i \in CmdId, a \in Agent \cup {NoAgent}, p \in IP : BlockIP(i, a, p) \/ UnblockIP(i, a, p)
    \/ \E r \in requests : InsertCommand(r) \/ InsertCommandFails(r)

ClickHouse ==
    \/ \E a \in Agent, p \in IP : ApplyDelete(a, p)
    \/ \E c \in agent_commands : ApplyUpdate(c) \/ ExpireCommand(c)

Commands(a) ==
    \/ FetchCommands(a)
    \/ \E c \in fetched[a] : ExecuteBlock(a, c) \/ ExecuteUnblock(a, c)
    \/ AckCommand(a) \/ AckLost(a) \/ AckTimeout(a)

Sync ==
    \/ \E a \in Agent : SendFirewallSync(a)
    \/ \E s \in syncs : SyncClear(s) \/ SyncInsert(s) \/ SyncAborts(s)

Host ==
    \/ \E a \in Agent, p \in IP : Fail2banBan(a, p) \/ Fail2banUnban(a, p)
    \/ \E a \in Agent : AgentRestart(a) \/ HostReboot(a)

Next ==
    \/ Admin \/ ClickHouse \/ Sync \/ Host
    \/ \E a \in Agent : Commands(a)
    \/ \E r \in lateAcks : LateAck(r)

Spec == Init /\ [][Next]_vars

-----------------------------------------------------------------------------
(* Fairness.  The three goroutines of the agent are endless ticker loops,  *)
(* the handlers return, and ClickHouse works off its mutations: weak       *)
(* fairness.  The requests of the agent may be lost, but not for ever      *)
(* (the network and ClickHouse come back): strong fairness of their        *)
(* success.                                                                *)

Fairness ==
    /\ WF_vars(\E r \in requests : InsertCommand(r) \/ InsertCommandFails(r))
    /\ \A a \in Agent :
          /\ WF_vars(FetchCommands(a))
          /\ WF_vars(\E c \in fetched[a] : ExecuteBlock(a, c) \/ ExecuteUnblock(a, c))
          /\ SF_vars(AckCommand(a))
          /\ WF_vars(SendFirewallSync(a))
          /\ SF_vars(\E s \in syncs : s.agent = a /\ SyncClear(s))
          /\ SF_vars(\E s \in syncs : s.agent = a /\ SyncInsert(s))
          /\ \A p \in IP : WF_vars(ApplyDelete(a, p))
    /\ WF_vars(\E c \in agent_commands : ApplyUpdate(c))

FairSpec == Spec /\ Fairness

-----------------------------------------------------------------------------
(* What the pipeline promises.                                             *)

\* The type of every variable; in particular a block command always names
\* an agent.
TypeOK ==
    /\ blocked_ips \in [Agent -> [IP -> {"absent", "live", "deleting"}]]
    /\ agent_commands \subseteq Command
    /\ status \in [CmdId -> {"unused", "queuing", "rejected", "pending", "expired"} \cup Settled]
    /\ update \in [CmdId -> {"none"} \cup Settled]
    /\ now \in Nat
    /\ requests \subseteq Request
    /\ syncs \subseteq SyncReq
    /\ fetched \in [Agent -> SUBSET Command]
    /\ report \in [Agent -> Report \cup {NoReport}]
    /\ lateAcks \subseteq Report
    /\ dropRules \in [Agent -> [IP -> 0..MaxCopies]]
    /\ f2bRules \in [Agent -> SUBSET IP]
    /\ external \in 0..MaxExternal
    /\ runs \in [CmdId -> 0..2]
    /\ reasons \subseteq Agent \X IP

\* "Block/Unblock actions apply ONLY to the selected source" (README.md:360):
\* an address is listed for an agent, or blocked on it, only if somebody
\* asked to block that address on that agent, whatever was queued, lost,
\* repeated or synchronised in between.
OnlyWhatWasAsked ==
    \A a \in Agent, p \in IP :
        IsIPBlocked(p, a) \/ p \in CollectBlockedIPs(a) => <<a, p>> \in reasons

\* A command leaves the queue as completed or failed only after its agent ran
\* it: losing, delaying or repeating polls and acknowledgements may repeat a
\* command and never skips one (GetPendingCommands, AckCommand).
SettledWasRun ==
    \A c \in agent_commands :
        status[c.id] \in Settled \/ update[c.id] # "none" => runs[c.id] > 0

\* ORDER BY created_at ASC: a command runs for the first time only after
\* every older command in the table for the same agent has run.
FirstRunsInOrder ==
    \A c, d \in agent_commands :
        c.agent = d.agent /\ c.at < d.at /\ runs[d.id] > 0 => runs[c.id] > 0

\* The last word.  If the commands for an address were queued in different
\* seconds, every one of them ran exactly once and is settled, none expired
\* and neither fail2ban nor a restart interfered, the agent blocks the
\* address iff the newest command says so.  (With a command run again, two in
\* the same second, an iptables call that fails, or an address whose text is
\* part of this one's, the code promises nothing of the kind.)
LastCommandDecides ==
    \A a \in Agent, p \in IP :
        LET C == {c \in agent_commands : c.agent = a /\ c.ip = p}
        IN  /\ ~Flaky /\ \A q \in IP : <<q, p>> \in Within => q = p
            /\ C # {} /\ external = 0 /\ \A i \in CmdId : status[i] # "expired"
            /\ \A c \in C : status[c.id] \in Settled /\ runs[c.id] = 1
            /\ \A c, d \in C : c.at = d.at => c = d
            => \A c \in C : (\A d \in C : d.at <= c.at) =>
                    (p \in CollectBlockedIPs(a) <=> c.action = "block_ip")

\* "syncs the blocked_ips table to match reality" (handler.go:858-859): the
\* list the server shows for an agent is, again and again, exactly what the
\* agent blocks, also after requests that failed half-way.  It cannot be
\* "from some time on": each sync first deletes what it will insert.
ListMatchesReality ==
    \A a \in Agent : []<>(GetBlockedIPs(a) = CollectBlockedIPs(a))

\* A command queued for an existing agent is eventually settled.
CommandsSettle ==
    \A i \in CmdId :
        (\E c \in agent_commands : c.id = i /\ c.agent \in Agent) ~> status[i] \in Settled

\* The refinement of CommandDelivery: a command is settled when its row
\* says so, and has run when an agent ran it.
Phase(st) == CASE st = "pending"  -> "issued"
               [] st \in Settled -> "settled"
               [] st = "expired"  -> "withdrawn"
               [] OTHER           -> "new"

Delivery == INSTANCE CommandDelivery
                WITH phase <- [i \in CmdId |-> Phase(status[i])],
                     ran   <- {i \in CmdId : runs[i] > 0}

\* The whole pipeline of tables, polls and acknowledgements delivers every
\* command at least once and settles none that did not run.
DeliversAtLeastOnce == Delivery!Spec

-----------------------------------------------------------------------------
(* What a comment of the code says, and the code does not do.              *)

\* "removes every DROP/REJECT rule matching the source IP"
\* (collector/firewall.go:89-90): running an unblock command leaves the
\* rules of other addresses alone.
UnblockSparesOthers ==
    [][\A a \in Agent : \A c \in fetched[a] :
          ExecuteUnblock(a, c)
          => \A p \in IP \ {c.ip} : p \in CollectBlockedIPs(a) => p \in CollectBlockedIPs(a)']_vars

-----------------------------------------------------------------------------
(* What has to hold in between for the promises to be kept: the inductive  *)
(* strengthenings of the safety properties.                                *)

\* Every piece of work on its way to a table or to iptables was asked for.
CausesKnown ==
    /\ \A r \in requests : r.action = "block_ip" => <<r.agent, r.ip>> \in reasons
    /\ \A c \in agent_commands : c.action = "block_ip" => <<c.agent, c.ip>> \in reasons
    /\ \A a \in Agent : \A c \in fetched[a] :
          c.agent = a /\ (c.action = "block_ip" => <<c.agent, c.ip>> \in reasons)
    /\ \A s \in syncs : \A p \in s.ips : <<s.agent, p>> \in reasons
    /\ OnlyWhatWasAsked

\* One request, then one row, then copies of it in polls: never two commands
\* with one id.
LifeCycle ==
    /\ \A r \in requests : status[r.id] = "queuing"
    /\ \A r, q \in requests : r.id = q.id => r = q
    /\ \A c \in agent_commands : status[c.id] \in {"pending"} \cup Settled
    /\ \A c, d \in agent_commands : c.id = d.id => c = d
    /\ \A a \in Agent : \A c \in fetched[a] :
          /\ status[c.id] \in {"pending", "expired"} \cup Settled
          /\ \A d \in agent_commands : c.id = d.id => c = d

\* A result exists only of a command that ran, and a command runs only out
\* of the queue.
RanBeforeReported ==
    /\ \A a \in Agent : report[a] # NoReport => runs[report[a].id] > 0
    /\ \A r \in lateAcks : runs[r.id] > 0
    /\ \A i \in CmdId : update[i] # "none" \/ status[i] \in Settled => runs[i] > 0
    /\ \A i \in CmdId : status[i] \in {"unused", "queuing", "rejected"} => runs[i] = 0

\* A poll in progress still holds every older command that has not run.
OldestFirst ==
    /\ \A c \in agent_commands : c.at <= now
    /\ \A a \in Agent : \A d \in fetched[a] :
          /\ d.agent = a /\ d.at <= now
          /\ \A c \in agent_commands :
                c.agent = a /\ c.at < d.at => c \in fetched[a] \/ runs[c.id] > 0
    /\ FirstRunsInOrder

\* What was fetched and did not expire is still in the table, and fail2ban has
\* no rules before it acts.
Undisturbed ==
    /\ \A a \in Agent : \A c \in fetched[a] : status[c.id] # "expired" => c \in agent_commands
    /\ external = 0 => \A a \in Agent : f2bRules[a] = {}

\* The commands for one address on one agent, as long as nothing disturbs them.
CommandsFor(a, p) == {c \in agent_commands : c.agent = a /\ c.ip = p}

Calm(a, p) ==
    /\ ~Flaky /\ \A q \in IP : <<q, p>> \in Within => q = p
    /\ external = 0 /\ \A i \in CmdId : status[i] # "expired"
    /\ \A c \in CommandsFor(a, p) : runs[c.id] <= 1
    /\ \A c, d \in CommandsFor(a, p) : c.at = d.at => c = d

\* Of the commands that have run the newest is a block command.
Decided(a, p) ==
    \E c \in CommandsFor(a, p) :
        /\ c.action = "block_ip" /\ runs[c.id] = 1
        /\ \A d \in CommandsFor(a, p) : runs[d.id] = 1 => d.at <= c.at

\* Of the commands for an address that have run, each once so far, the newest
\* has decided.
NewestRunDecided ==
    \A a \in Agent, p \in IP : Calm(a, p) => (dropRules[a][p] > 0 <=> Decided(a, p))
=============================================================================
