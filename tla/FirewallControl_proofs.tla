----------------------- MODULE FirewallControl_proofs -----------------------
(***************************************************************************)
(* Proofs about FirewallControl, for any sets of agents, addresses and     *)
(* command ids and any bounds.                                             *)
(***************************************************************************)
EXTENDS FirewallControl, TLAPS

-----------------------------------------------------------------------------
(* Type correctness.                                                       *)

LEMMA InitTypeOK == Init => TypeOK
  BY BoundsAssumption DEF Init, TypeOK, Settled, Command, Request, Report, SyncReq

\* The steps of the administrator's handlers keep the types.
LEMMA AdminTypeOK == TypeOK /\ Admin => TypeOK'
<1> SUFFICES ASSUME TypeOK, Admin PROVE TypeOK'
  OBVIOUS
<1> USE DEF TypeOK, Settled, Command, Request, Actions
<1>1. ASSUME NEW i \in CmdId, NEW a \in Agent \cup {NoAgent}, NEW p \in IP, BlockIP(i, a, p)
      PROVE  TypeOK'
  BY <1>1 DEF BlockIP, agentVars, iptables
<1>2. ASSUME NEW i \in CmdId, NEW a \in Agent \cup {NoAgent}, NEW p \in IP, UnblockIP(i, a, p)
      PROVE  TypeOK'
  BY <1>2 DEF UnblockIP, agentVars, iptables, history, Doom
<1>3. ASSUME NEW r \in requests, InsertCommand(r)
      PROVE  TypeOK'
  BY <1>3 DEF InsertCommand, agentVars, iptables, history
<1>4. ASSUME NEW r \in requests, InsertCommandFails(r)
      PROVE  TypeOK'
  BY <1>4 DEF InsertCommandFails, agentVars, iptables, history
<1> QED
  BY <1>1, <1>2, <1>3, <1>4 DEF Admin

LEMMA ClickHouseTypeOK == TypeOK /\ ClickHouse => TypeOK'
<1> SUFFICES ASSUME TypeOK, ClickHouse PROVE TypeOK'
  OBVIOUS
<1> USE DEF TypeOK, Settled, Command
<1>1. ASSUME NEW a \in Agent, NEW p \in IP, ApplyDelete(a, p)
      PROVE  TypeOK'
  BY <1>1 DEF ApplyDelete, handlers, agentVars, iptables, history
<1>2. ASSUME NEW c \in agent_commands, ApplyUpdate(c)
      PROVE  TypeOK'
  BY <1>2 DEF ApplyUpdate, handlers, agentVars, iptables, history
<1>3. ASSUME NEW c \in agent_commands, ExpireCommand(c)
      PROVE  TypeOK'
  BY <1>3 DEF ExpireCommand, handlers, agentVars, iptables, history
<1> QED
  BY <1>1, <1>2, <1>3 DEF ClickHouse

LEMMA CommandsTypeOK == TypeOK /\ (\E a \in Agent : Commands(a)) => TypeOK'
<1> SUFFICES ASSUME TypeOK, NEW a \in Agent, Commands(a) PROVE TypeOK'
  OBVIOUS
<1> USE DEF TypeOK, Settled, Command, Report
<1>1. CASE FetchCommands(a)
  BY <1>1 DEF FetchCommands, GetPendingCommands, tables, handlers, iptables, history
<1>2. ASSUME NEW c \in fetched[a], ExecuteBlock(a, c)
      PROVE  TypeOK'
  <2>0. \A n \in 0..MaxCopies : OneMore(n) \in 0..MaxCopies
    BY BoundsAssumption DEF OneMore
  <2>1. dropRules' \in [Agent -> [IP -> 0..MaxCopies]] /\ f2bRules' = f2bRules
    <3>1. c.ip \in IP /\ dropRules[a] \in [IP -> 0..MaxCopies]
      OBVIOUS
    <3>2. [dropRules[a] EXCEPT ![c.ip] = OneMore(@)] \in [IP -> 0..MaxCopies]
      BY <3>1, <2>0
    <3>3. \/ dropRules' = [dropRules EXCEPT ![a] = [dropRules[a] EXCEPT ![c.ip] = OneMore(@)]]
          \/ dropRules' = dropRules
      BY <1>2 DEF ExecuteBlock
    <3> QED
      BY <1>2, <3>2, <3>3 DEF ExecuteBlock
  <2>2. PICK result \in Settled : Ran(a, c, result)
    BY <1>2 DEF ExecuteBlock
  <2> QED
    BY <2>1, <2>2 DEF Ran, Again, tables, handlers
<1>3. ASSUME NEW c \in fetched[a], ExecuteUnblock(a, c)
      PROVE  TypeOK'
  <2>1. PICK left \in [IP -> 0..MaxCopies], keep \in F2bLeft(a, c.ip) :
             /\ dropRules' = [dropRules EXCEPT ![a] = left]
             /\ f2bRules' = [f2bRules EXCEPT ![a] = keep]
             /\ Ran(a, c, IF left # dropRules[a] \/ keep # f2bRules[a]
                          THEN "completed" ELSE "failed")
    BY <1>3 DEF ExecuteUnblock
  <2>2. keep \in SUBSET IP
    BY DEF F2bLeft
  <2>3. PICK result \in Settled : Ran(a, c, result)
    BY <2>1
  <2> QED
    BY <2>1, <2>2, <2>3 DEF Ran, Again, tables, handlers
<1>4. CASE AckCommand(a)
  BY <1>4 DEF AckCommand, Acked, handlers, iptables, history
<1>5. CASE AckLost(a)
  BY <1>5 DEF AckLost, tables, handlers, iptables, history
<1>6. CASE AckTimeout(a)
  BY <1>6 DEF AckTimeout, tables, handlers, iptables, history
<1> QED
  BY <1>1, <1>2, <1>3, <1>4, <1>5, <1>6 DEF Commands

LEMMA LateAckTypeOK == TypeOK /\ (\E r \in lateAcks : LateAck(r)) => TypeOK'
  BY DEF TypeOK, LateAck, Acked, Report, Settled, handlers, iptables, history

\* An agent reports addresses only.
LEMMA CollectedAreIPs == ASSUME TypeOK, NEW a \in Agent PROVE CollectBlockedIPs(a) \subseteq IP
  BY DEF TypeOK, CollectBlockedIPs

LEMMA SyncTypeOK == TypeOK /\ Sync => TypeOK'
<1> SUFFICES ASSUME TypeOK, Sync PROVE TypeOK'
  OBVIOUS
<1>1. ASSUME NEW a \in Agent, SendFirewallSync(a)
      PROVE  TypeOK'
  BY <1>1, CollectedAreIPs
     DEF TypeOK, SendFirewallSync, SyncReq, tables, agentVars, iptables, history
<1>2. ASSUME NEW s \in syncs, SyncClear(s)
      PROVE  TypeOK'
  BY <1>2 DEF TypeOK, SyncClear, SyncReq, Doom, agentVars, iptables, history
<1>3. ASSUME NEW s \in syncs, SyncInsert(s)
      PROVE  TypeOK'
  BY <1>3 DEF TypeOK, SyncInsert, SyncReq, agentVars, iptables, history
<1>4. ASSUME NEW s \in syncs, SyncAborts(s)
      PROVE  TypeOK'
  BY <1>4 DEF TypeOK, SyncAborts, tables, agentVars, iptables, history
<1> QED
  BY <1>1, <1>2, <1>3, <1>4 DEF Sync

LEMMA HostTypeOK == TypeOK /\ Host => TypeOK'
<1> SUFFICES ASSUME TypeOK, Host PROVE TypeOK'
  OBVIOUS
<1> USE BoundsAssumption DEF TypeOK, tables, handlers, agentVars, iptables, history
<1>1. ASSUME NEW a \in Agent, NEW p \in IP, Fail2banBan(a, p)
      PROVE  TypeOK'
  BY <1>1 DEF Fail2banBan
<1>2. ASSUME NEW a \in Agent, NEW p \in IP, Fail2banUnban(a, p)
      PROVE  TypeOK'
  BY <1>2 DEF Fail2banUnban
<1>3. ASSUME NEW a \in Agent, AgentRestart(a)
      PROVE  TypeOK'
  BY <1>3 DEF AgentRestart
<1>4. ASSUME NEW a \in Agent, HostReboot(a)
      PROVE  TypeOK'
  BY <1>4 DEF HostReboot
<1> QED
  BY <1>1, <1>2, <1>3, <1>4 DEF Host

LEMMA TypeOKNext == TypeOK /\ [Next]_vars => TypeOK'
<1> SUFFICES ASSUME TypeOK, [Next]_vars PROVE TypeOK'
  OBVIOUS
<1>1. CASE UNCHANGED vars
  BY <1>1 DEF TypeOK, vars, tables, handlers, agentVars, iptables, history
<1> QED
  BY <1>1, AdminTypeOK, ClickHouseTypeOK, SyncTypeOK, HostTypeOK, CommandsTypeOK, LateAckTypeOK
     DEF Next

\* Type correctness of the pipeline: among others, a block command in the
\* queue, in a request or in a poll always names an address and a command id.
THEOREM TypeCorrect == Spec => []TypeOK
  BY InitTypeOK, TypeOKNext, PTL DEF Spec

-----------------------------------------------------------------------------
(* Nothing is blocked or listed that nobody asked for.                     *)

LEMMA CausesInit == Init => CausesKnown
  BY DEF Init, CausesKnown, OnlyWhatWasAsked, IsIPBlocked, CollectBlockedIPs

LEMMA CausesNext == TypeOK /\ CausesKnown /\ [Next]_vars => CausesKnown'
<1> SUFFICES ASSUME TypeOK, CausesKnown, [Next]_vars PROVE CausesKnown'
  OBVIOUS
<1> USE DEF CausesKnown, OnlyWhatWasAsked, IsIPBlocked, CollectBlockedIPs
<1>1. ASSUME NEW i \in CmdId, NEW a \in Agent \cup {NoAgent}, NEW p \in IP, BlockIP(i, a, p)
      PROVE  CausesKnown'
  BY <1>1 DEF BlockIP, agentVars, iptables, TypeOK
<1>2. ASSUME NEW i \in CmdId, NEW a \in Agent \cup {NoAgent}, NEW p \in IP, UnblockIP(i, a, p)
      PROVE  CausesKnown'
  BY <1>2 DEF UnblockIP, Doom, agentVars, iptables, history, TypeOK
<1>3. ASSUME NEW r \in requests, InsertCommand(r)
      PROVE  CausesKnown'
  BY <1>3 DEF InsertCommand, agentVars, iptables, history
<1>4. ASSUME NEW r \in requests, InsertCommandFails(r)
      PROVE  CausesKnown'
  BY <1>4 DEF InsertCommandFails, agentVars, iptables, history
<1>5. ASSUME NEW a \in Agent, NEW p \in IP, ApplyDelete(a, p)
      PROVE  CausesKnown'
  BY <1>5 DEF ApplyDelete, handlers, agentVars, iptables, history, TypeOK
<1>6. ASSUME NEW c \in agent_commands, ApplyUpdate(c) \/ ExpireCommand(c)
      PROVE  CausesKnown'
  BY <1>6 DEF ApplyUpdate, ExpireCommand, handlers, agentVars, iptables, history
<1>7. ASSUME NEW a \in Agent, FetchCommands(a)
      PROVE  CausesKnown'
  BY <1>7 DEF FetchCommands, GetPendingCommands, tables, handlers, iptables, history, TypeOK
<1>8. ASSUME NEW a \in Agent, NEW c \in fetched[a], ExecuteBlock(a, c)
      PROVE  CausesKnown'
  <2>1. \A b \in Agent, q \in IP :
           dropRules'[b][q] > 0 => dropRules[b][q] > 0 \/ (b = a /\ q = c.ip)
    BY <1>8 DEF ExecuteBlock, OneMore, TypeOK
  <2>2. /\ \A b \in Agent : fetched'[b] \subseteq fetched[b]
        /\ f2bRules' = f2bRules /\ reasons' = reasons
        /\ UNCHANGED <<tables, handlers>>
    BY <1>8 DEF ExecuteBlock, Ran, TypeOK
  <2>3. <<a, c.ip>> \in reasons
    BY <1>8 DEF ExecuteBlock
  <2> QED
    BY <2>1, <2>2, <2>3 DEF tables, handlers
<1>9. ASSUME NEW a \in Agent, NEW c \in fetched[a], ExecuteUnblock(a, c)
      PROVE  CausesKnown'
  <2>1. PICK left \in [IP -> 0..MaxCopies], keep \in F2bLeft(a, c.ip) :
             /\ \A q \in IP : left[q] \in CopiesLeft(a, c.ip, q)
             /\ dropRules' = [dropRules EXCEPT ![a] = left]
             /\ f2bRules' = [f2bRules EXCEPT ![a] = keep]
    BY <1>9 DEF ExecuteUnblock
  <2>2. \A q \in IP : left[q] > 0 => dropRules[a][q] > 0
    BY <2>1 DEF CopiesLeft, TypeOK
  <2>3. keep \subseteq f2bRules[a]
    BY DEF F2bLeft
  <2>4. \A b \in Agent, q \in IP :
           /\ dropRules'[b][q] > 0 => dropRules[b][q] > 0
           /\ q \in f2bRules'[b] => q \in f2bRules[b]
    BY <2>1, <2>2, <2>3 DEF TypeOK
  <2>5. /\ \A b \in Agent : fetched'[b] \subseteq fetched[b]
        /\ reasons' = reasons
        /\ UNCHANGED <<tables, handlers>>
    BY <1>9 DEF ExecuteUnblock, Ran, TypeOK
  <2> QED
    BY <2>4, <2>5 DEF tables, handlers
<1>10. ASSUME NEW a \in Agent, AckCommand(a) \/ AckLost(a) \/ AckTimeout(a)
       PROVE  CausesKnown'
  BY <1>10 DEF AckCommand, AckLost, AckTimeout, tables, handlers, iptables, history
<1>11. ASSUME NEW r \in lateAcks, LateAck(r)
       PROVE  CausesKnown'
  BY <1>11 DEF LateAck, handlers, iptables, history
<1>12. ASSUME NEW a \in Agent, SendFirewallSync(a)
       PROVE  CausesKnown'
  <2>1. \A p \in CollectBlockedIPs(a) : <<a, p>> \in reasons
    BY CollectedAreIPs
  <2> HIDE DEF CollectBlockedIPs
  <2>2. \A s \in syncs' : \A p \in s.ips : <<s.agent, p>> \in reasons'
    <3>1. syncs' = syncs \cup {[agent |-> a, ips |-> CollectBlockedIPs(a), pc |-> "sent"]}
      BY <1>12 DEF SendFirewallSync
    <3>2. reasons' = reasons
      BY <1>12 DEF SendFirewallSync, history
    <3>3. \A s \in syncs : \A p \in s.ips : <<s.agent, p>> \in reasons
      OBVIOUS
    <3> HIDE DEF CausesKnown
    <3> SUFFICES ASSUME NEW s \in syncs', NEW p \in s.ips PROVE <<s.agent, p>> \in reasons
      BY <3>2
    <3>4. CASE s \in syncs
      BY <3>3, <3>4
    <3>5. CASE s = [agent |-> a, ips |-> CollectBlockedIPs(a), pc |-> "sent"]
      BY <2>1, <3>5
    <3> QED
      BY <3>1, <3>4, <3>5
  <2> QED
    BY <1>12, <2>2
       DEF SendFirewallSync, CollectBlockedIPs, tables, agentVars, iptables, history
<1>13. ASSUME NEW s \in syncs, SyncClear(s)
       PROVE  CausesKnown'
  BY <1>13 DEF SyncClear, Doom, agentVars, iptables, history, TypeOK, SyncReq
<1>14. ASSUME NEW s \in syncs, SyncInsert(s)
       PROVE  CausesKnown'
  BY <1>14 DEF SyncInsert, agentVars, iptables, history, TypeOK, SyncReq
<1>15. ASSUME NEW s \in syncs, SyncAborts(s)
       PROVE  CausesKnown'
  BY <1>15 DEF SyncAborts, tables, agentVars, iptables, history
<1>16. ASSUME NEW a \in Agent, NEW p \in IP, Fail2banBan(a, p) \/ Fail2banUnban(a, p)
       PROVE  CausesKnown'
  BY <1>16 DEF Fail2banBan, Fail2banUnban, tables, handlers, agentVars, history, TypeOK
<1>17. ASSUME NEW a \in Agent, AgentRestart(a) \/ HostReboot(a)
       PROVE  CausesKnown'
  <2>1. CASE AgentRestart(a)
    BY <2>1 DEF AgentRestart, tables, handlers, iptables, history, TypeOK
  <2>2. CASE HostReboot(a)
    <3>1. /\ \A b \in Agent, q \in IP : dropRules'[b][q] > 0 => dropRules[b][q] > 0
          /\ \A b \in Agent : f2bRules'[b] \subseteq f2bRules[b]
          /\ \A b \in Agent : fetched'[b] \subseteq fetched[b]
      BY <2>2 DEF HostReboot, TypeOK
    <3> QED
      BY <2>2, <3>1 DEF HostReboot, tables, handlers, history
  <2> QED
    BY <1>17, <2>1, <2>2
<1>18. CASE UNCHANGED vars
  BY <1>18 DEF vars, tables, handlers, agentVars, iptables, history
<1> QED
  BY <1>1, <1>2, <1>3, <1>4, <1>5, <1>6, <1>7, <1>8, <1>9, <1>10, <1>11, <1>12, <1>13, <1>14,
     <1>15, <1>16, <1>17, <1>18
     DEF Next, Admin, ClickHouse, Sync, Host, Commands

\* Whatever is queued, lost, repeated or synchronised: an address is listed
\* for an agent or blocked on it only if somebody asked for exactly that.
THEOREM OnlyAsked == Spec => []OnlyWhatWasAsked
<1>1. CausesKnown => OnlyWhatWasAsked
  BY DEF CausesKnown
<1> QED
  BY CausesInit, CausesNext, TypeCorrect, <1>1, PTL DEF Spec

-----------------------------------------------------------------------------
(* Commands are delivered at least once, in the order of the queue.        *)

DeliveryInv == LifeCycle /\ RanBeforeReported

LEMMA DeliveryInit == Init => DeliveryInv /\ OldestFirst
  BY DEF Init, DeliveryInv, LifeCycle, RanBeforeReported, OldestFirst, FirstRunsInOrder, Settled

\* Counting a run of command k.
LEMMA RunCounts ==
    ASSUME TypeOK, NEW k \in CmdId, runs' = [runs EXCEPT ![k] = Again(@)]
    PROVE  runs'[k] > 0 /\ \A i \in CmdId : i # k => runs'[i] = runs[i]
<1>1. runs \in [CmdId -> 0..2]
  BY DEF TypeOK
<1>2. \A n \in 0..2 : Again(n) > 0
  BY DEF Again
<1>3. runs'[k] = Again(runs[k]) /\ \A i \in CmdId : i # k => runs'[i] = runs[i]
  BY <1>1
<1> QED
  BY <1>1, <1>2, <1>3

LEMMA DeliveryNext == TypeOK /\ DeliveryInv /\ [Next]_vars => DeliveryInv'
<1> SUFFICES ASSUME TypeOK, DeliveryInv, [Next]_vars PROVE DeliveryInv'
  OBVIOUS
<1> USE DEF DeliveryInv, LifeCycle, RanBeforeReported, Settled
<1>1. ASSUME NEW i \in CmdId, NEW a \in Agent \cup {NoAgent}, NEW p \in IP, BlockIP(i, a, p)
      PROVE  DeliveryInv'
  BY <1>1 DEF BlockIP, agentVars, iptables, TypeOK, Request
<1>2. ASSUME NEW i \in CmdId, NEW a \in Agent \cup {NoAgent}, NEW p \in IP, UnblockIP(i, a, p)
      PROVE  DeliveryInv'
  BY <1>2 DEF UnblockIP, agentVars, iptables, history, TypeOK, Request
<1>3. ASSUME NEW r \in requests, InsertCommand(r)
      PROVE  DeliveryInv'
  BY <1>3 DEF InsertCommand, agentVars, iptables, history, TypeOK, Request, Command
<1>4. ASSUME NEW r \in requests, InsertCommandFails(r)
      PROVE  DeliveryInv'
  BY <1>4 DEF InsertCommandFails, agentVars, iptables, history, TypeOK, Request
<1>5. ASSUME NEW c \in agent_commands, ApplyUpdate(c)
      PROVE  DeliveryInv'
  BY <1>5 DEF ApplyUpdate, handlers, agentVars, iptables, history, TypeOK, Command
<1>6. ASSUME NEW c \in agent_commands, ExpireCommand(c)
      PROVE  DeliveryInv'
  BY <1>6 DEF ExpireCommand, handlers, agentVars, iptables, history, TypeOK, Command
<1>7. ASSUME NEW a \in Agent, FetchCommands(a)
      PROVE  DeliveryInv'
  BY <1>7 DEF FetchCommands, GetPendingCommands, tables, handlers, iptables, history, TypeOK
<1>8. ASSUME NEW a \in Agent, NEW c \in fetched[a], NEW result \in Settled, Ran(a, c, result)
      PROVE  DeliveryInv'
  <2>1. c.id \in CmdId /\ runs' = [runs EXCEPT ![c.id] = Again(@)]
    BY <1>8 DEF Ran, TypeOK, Command
  <2>2. runs'[c.id] > 0 /\ \A i \in CmdId : i # c.id => runs'[i] = runs[i]
    BY <2>1, RunCounts
  <2>3. \A b \in Agent : report[b] # NoReport => report[b].id \in CmdId
    BY DEF TypeOK, Report
  <2>4. \A b \in Agent : report'[b] # NoReport => runs'[report'[b].id] > 0
    BY <1>8, <2>1, <2>2, <2>3 DEF Ran, TypeOK
  <2>5. /\ UNCHANGED <<tables, requests, lateAcks>>
        /\ \A b \in Agent : fetched'[b] \subseteq fetched[b]
    BY <1>8 DEF Ran, handlers, TypeOK
  <2>6. \A r \in lateAcks : r.id \in CmdId
    BY DEF TypeOK, Report
  <2>7. status[c.id] \notin {"unused", "queuing", "rejected"}
    OBVIOUS
  <2>8. LifeCycle'
    BY <2>5 DEF tables
  <2>9. RanBeforeReported'
    BY <2>2, <2>4, <2>5, <2>6, <2>7 DEF tables
  <2> QED
    BY <2>8, <2>9
<1>9. ASSUME NEW a \in Agent, AckCommand(a)
      PROVE  DeliveryInv'
  BY <1>9 DEF AckCommand, Acked, handlers, iptables, history, TypeOK, Report
<1>10. ASSUME NEW a \in Agent, AckLost(a) \/ AckTimeout(a)
       PROVE  DeliveryInv'
  <2>1. \A b \in Agent : report'[b] # NoReport => report'[b] = report[b]
    BY <1>10 DEF AckLost, AckTimeout, TypeOK
  <2>2. lateAcks' \subseteq lateAcks \cup {report[a]} /\ report[a] # NoReport
    BY <1>10 DEF AckLost, AckTimeout
  <2>3. UNCHANGED <<tables, requests, fetched, runs>>
    BY <1>10 DEF AckLost, AckTimeout, handlers, history
  <2> QED
    BY <2>1, <2>2, <2>3 DEF tables
<1>11. ASSUME NEW r \in lateAcks, LateAck(r)
       PROVE  DeliveryInv'
  BY <1>11 DEF LateAck, Acked, handlers, iptables, history, TypeOK, Report
<1>12. ASSUME NEW a \in Agent, AgentRestart(a) \/ HostReboot(a)
       PROVE  DeliveryInv'
  <2>1. \A b \in Agent : report'[b] # NoReport => report'[b] = report[b]
    BY <1>12 DEF AgentRestart, HostReboot, TypeOK
  <2>2. \A b \in Agent : fetched'[b] \subseteq fetched[b]
    BY <1>12 DEF AgentRestart, HostReboot, TypeOK
  <2>3. UNCHANGED <<tables, requests, lateAcks, runs>>
    BY <1>12 DEF AgentRestart, HostReboot, handlers, history
  <2> QED
    BY <2>1, <2>2, <2>3 DEF tables
<1>13. CASE UNCHANGED <<agent_commands, status, update, requests, fetched, report, lateAcks, runs>>
  BY <1>13
<1> QED
  BY <1>1, <1>2, <1>3, <1>4, <1>5, <1>6, <1>7, <1>8, <1>9, <1>10, <1>11, <1>12, <1>13
     DEF Next, Admin, ClickHouse, Sync, Host, Commands, ExecuteBlock, ExecuteUnblock, ApplyDelete,
         SendFirewallSync, SyncClear, SyncInsert, SyncAborts, Fail2banBan, Fail2banUnban,
         vars, tables, handlers, agentVars, iptables, history

\* No command is settled, or about to be, that its agent did not run.
THEOREM SettledRan == Spec => []SettledWasRun
<1>1. TypeOK /\ DeliveryInv => SettledWasRun
  BY DEF DeliveryInv, RanBeforeReported, SettledWasRun, TypeOK, Command
<1>2. Init => DeliveryInv
  BY DeliveryInit
<1> QED
  BY <1>1, <1>2, DeliveryNext, TypeCorrect, PTL DEF Spec

LEMMA OrderNext == TypeOK /\ DeliveryInv /\ OldestFirst /\ [Next]_vars => OldestFirst'
<1> SUFFICES ASSUME TypeOK, DeliveryInv, OldestFirst, [Next]_vars PROVE OldestFirst'
  OBVIOUS
<1> USE DEF OldestFirst, FirstRunsInOrder
<1>1. ASSUME NEW r \in requests, InsertCommand(r)
      PROVE  OldestFirst'
  <2>1. PICK t \in {now, now + 1} :
           /\ now' = t
           /\ agent_commands' = agent_commands \cup
                {[id |-> r.id, agent |-> r.agent, action |-> r.action, ip |-> r.ip, at |-> t]}
    BY <1>1 DEF InsertCommand
  <2>2. UNCHANGED <<fetched, runs>> /\ now \in Nat /\ t >= now
    BY <1>1 DEF InsertCommand, agentVars, history, TypeOK
  <2>3. r.id \in CmdId /\ runs[r.id] = 0
    BY DEF DeliveryInv, LifeCycle, RanBeforeReported, TypeOK, Request
  <2>4. \A c \in agent_commands : c.at \in Nat
    BY DEF TypeOK, Command
  <2>5. \A b \in Agent : \A d \in fetched[b] : d.at \in Nat
    BY DEF TypeOK, Command
  <2>6. \A c \in agent_commands' : c.at <= now'
    BY <2>1, <2>2, <2>4
  <2>7. \A b \in Agent : \A d \in fetched'[b] :
           /\ d.agent = b /\ d.at <= now'
           /\ \A c \in agent_commands' :
                 c.agent = b /\ c.at < d.at => c \in fetched'[b] \/ runs'[c.id] > 0
    BY <2>1, <2>2, <2>5
  <2>8. FirstRunsInOrder'
    BY <2>1, <2>2, <2>3, <2>4
  <2> QED
    BY <2>6, <2>7, <2>8
<1>2. ASSUME NEW c \in agent_commands, ExpireCommand(c)
      PROVE  OldestFirst'
  BY <1>2 DEF ExpireCommand, agentVars, history
<1>3. ASSUME NEW a \in Agent, FetchCommands(a)
      PROVE  OldestFirst'
  <2>1. \A c \in agent_commands : c.agent = a /\ c \notin GetPendingCommands(a) => runs[c.id] > 0
    BY DEF GetPendingCommands, DeliveryInv, LifeCycle, RanBeforeReported, TypeOK, Command
  <2>2. UNCHANGED <<agent_commands, now, runs>>
    BY <1>3 DEF FetchCommands, tables, history
  <2>3. /\ fetched'[a] = GetPendingCommands(a)
        /\ \A b \in Agent \ {a} : fetched'[b] = fetched[b]
    BY <1>3 DEF FetchCommands, TypeOK
  <2> QED
    BY <2>1, <2>2, <2>3 DEF GetPendingCommands
<1>4. ASSUME NEW a \in Agent, NEW c \in fetched[a], NEW result \in Settled, IsNext(a, c),
             Ran(a, c, result)
      PROVE  OldestFirst'
  <2>1. c.id \in CmdId /\ runs' = [runs EXCEPT ![c.id] = Again(@)]
    BY <1>4 DEF Ran, TypeOK, Command
  <2>3. runs'[c.id] > 0 /\ \A i \in CmdId : i # c.id => runs'[i] = runs[i]
    BY <2>1, RunCounts
  <2>2. runs'[c.id] > 0 /\ \A i \in CmdId : runs[i] > 0 => runs'[i] > 0
    BY <2>3
  <2>4. UNCHANGED <<agent_commands, now>>
    BY <1>4 DEF Ran, tables
  <2>5. /\ fetched'[a] = fetched[a] \ {c}
        /\ \A b \in Agent \ {a} : fetched'[b] = fetched[b]
    BY <1>4 DEF Ran, TypeOK
  <2>6. \A d \in agent_commands : d.id \in CmdId /\ d.at \in Nat
    BY DEF TypeOK, Command
  <2>7. \A b \in Agent : \A d \in fetched'[b] :
           /\ d.agent = b /\ d.at <= now'
           /\ \A e \in agent_commands' :
                 e.agent = b /\ e.at < d.at => e \in fetched'[b] \/ runs'[e.id] > 0
    BY <2>2, <2>4, <2>5, <2>6
  <2>8. FirstRunsInOrder'
    <3> SUFFICES ASSUME NEW e \in agent_commands, NEW d \in agent_commands,
                        e.agent = d.agent, e.at < d.at, runs'[d.id] > 0
                 PROVE  runs'[e.id] > 0
      BY <2>4
    <3>1. CASE d.id # c.id
      BY <3>1, <2>2, <2>3, <2>6
    <3>2. CASE d.id = c.id
      <4>1. d = c
        BY <3>2 DEF DeliveryInv, LifeCycle
      <4>2. e \notin fetched[a]
        BY <4>1, <1>4, <2>6 DEF IsNext
      <4> QED
        BY <4>1, <4>2, <2>2, <2>6
    <3> QED
      BY <3>1, <3>2
  <2> QED
    BY <2>4, <2>7, <2>8
<1>5. ASSUME NEW a \in Agent, AgentRestart(a) \/ HostReboot(a)
      PROVE  OldestFirst'
  <2>1. \A b \in Agent : fetched'[b] = {} \/ fetched'[b] = fetched[b]
    BY <1>5 DEF AgentRestart, HostReboot, TypeOK
  <2> QED
    BY <1>5, <2>1 DEF AgentRestart, HostReboot, tables, history
<1>6. CASE UNCHANGED <<agent_commands, now, fetched, runs>>
  BY <1>6
<1> QED
  BY <1>1, <1>2, <1>3, <1>4, <1>5, <1>6
     DEF Next, Admin, ClickHouse, Sync, Host, Commands, BlockIP, UnblockIP, InsertCommandFails,
         ApplyUpdate, AckCommand, AckLost, AckTimeout, LateAck, Settled,
         ExecuteBlock, ExecuteUnblock, ApplyDelete,
         SendFirewallSync, SyncClear, SyncInsert, SyncAborts, Fail2banBan, Fail2banUnban,
         vars, tables, handlers, agentVars, iptables, history

\* Commands of one agent run for the first time in the order they were queued.
THEOREM RunsInOrder == Spec => []FirstRunsInOrder
<1>1. OldestFirst => FirstRunsInOrder
  BY DEF OldestFirst
<1> QED
  BY <1>1, DeliveryInit, DeliveryNext, OrderNext, TypeCorrect, PTL DEF Spec

-----------------------------------------------------------------------------
(* The pipeline implements CommandDelivery.                                *)

LEMMA RefinesInit == Init => Delivery!Init
  BY DEF Init, Delivery!Init, Phase, Settled

LEMMA RefinesNext == TypeOK /\ DeliveryInv /\ [Next]_vars => [Delivery!Next]_(Delivery!vars)
<1> SUFFICES ASSUME TypeOK, DeliveryInv, [Next]_vars PROVE [Delivery!Next]_(Delivery!vars)
  OBVIOUS
<1> DEFINE phase == [i \in CmdId |-> Phase(status[i])]
           ran   == {i \in CmdId : runs[i] > 0}
<1>0. status \in [CmdId -> {"unused", "queuing", "rejected", "pending", "expired"} \cup Settled]
  BY DEF TypeOK
<1>1. ASSUME NEW k \in CmdId, NEW st, status' = [status EXCEPT ![k] = st]
      PROVE  phase' = [phase EXCEPT ![k] = Phase(st)]
  BY <1>0, <1>1
<1>2. ASSUME UNCHANGED <<status, runs>>
      PROVE  UNCHANGED Delivery!vars
  BY <1>2 DEF Delivery!vars
<1>3. ASSUME NEW i \in CmdId, NEW a \in Agent \cup {NoAgent}, NEW p \in IP,
             BlockIP(i, a, p) \/ UnblockIP(i, a, p)
      PROVE  UNCHANGED Delivery!vars
  <2>1. status[i] = "unused" /\ status' = [status EXCEPT ![i] = "queuing"] /\ runs' = runs
    BY <1>3 DEF BlockIP, UnblockIP, history
  <2>2. phase' = [phase EXCEPT ![i] = Phase("queuing")]
    BY <2>1, <1>1
  <2>3. phase' = phase
    BY <2>1, <2>2, <1>0 DEF Phase, Settled
  <2> QED
    BY <2>1, <2>3 DEF Delivery!vars
<1>4. ASSUME NEW r \in requests, InsertCommand(r)
      PROVE  Delivery!Next
  <2>1. r.id \in CmdId /\ status[r.id] = "queuing"
    BY DEF TypeOK, Request, DeliveryInv, LifeCycle
  <2>2. status' = [status EXCEPT ![r.id] = "pending"] /\ runs' = runs
    BY <1>4 DEF InsertCommand, history
  <2>3. phase' = [phase EXCEPT ![r.id] = "issued"] /\ phase[r.id] = "new"
    BY <2>1, <2>2, <1>1 DEF Phase, Settled
  <2>4. Delivery!Issue(r.id)
    BY <2>2, <2>3 DEF Delivery!Issue
  <2> QED
    BY <2>1, <2>4 DEF Delivery!Next
<1>5. ASSUME NEW r \in requests, InsertCommandFails(r)
      PROVE  UNCHANGED Delivery!vars
  <2>1. r.id \in CmdId /\ status[r.id] = "queuing"
    BY DEF TypeOK, Request, DeliveryInv, LifeCycle
  <2>2. status' = [status EXCEPT ![r.id] = "rejected"] /\ runs' = runs
    BY <1>5 DEF InsertCommandFails, history
  <2>3. phase' = phase
    BY <2>1, <2>2, <1>0, <1>1 DEF Phase, Settled
  <2> QED
    BY <2>2, <2>3 DEF Delivery!vars
<1>6. ASSUME NEW c \in agent_commands, ApplyUpdate(c)
      PROVE  [Delivery!Next]_(Delivery!vars)
  <2>1. c.id \in CmdId /\ status[c.id] \in {"pending"} \cup Settled
    BY DEF TypeOK, Command, DeliveryInv, LifeCycle
  <2>2. /\ update[c.id] \in Settled /\ runs[c.id] > 0
        /\ status' = [status EXCEPT ![c.id] = update[c.id]] /\ runs' = runs
    BY <1>6, <2>1 DEF ApplyUpdate, history, TypeOK, DeliveryInv, RanBeforeReported
  <2>3. phase' = [phase EXCEPT ![c.id] = "settled"]
    BY <2>1, <2>2, <1>1 DEF Phase, Settled
  <2>4. CASE status[c.id] = "pending"
    <3>1. phase[c.id] = "issued"
      BY <2>1, <2>4 DEF Phase, Settled
    <3>2. Delivery!Settle(c.id)
      BY <2>1, <2>2, <2>3, <3>1 DEF Delivery!Settle
    <3> QED
      BY <2>1, <3>2 DEF Delivery!Next
  <2>5. CASE status[c.id] \in Settled
    <3>1. phase[c.id] = "settled"
      BY <2>1, <2>5 DEF Phase, Settled
    <3>2. phase' = phase
      BY <2>3, <3>1
    <3> QED
      BY <2>2, <3>2 DEF Delivery!vars
  <2> QED
    BY <2>1, <2>4, <2>5
<1>7. ASSUME NEW c \in agent_commands, ExpireCommand(c)
      PROVE  Delivery!Next
  <2>1. c.id \in CmdId /\ status[c.id] \in {"pending"} \cup Settled
    BY DEF TypeOK, Command, DeliveryInv, LifeCycle
  <2>2. status' = [status EXCEPT ![c.id] = "expired"] /\ runs' = runs
    BY <1>7 DEF ExpireCommand, history
  <2>3. phase' = [phase EXCEPT ![c.id] = "withdrawn"] /\ phase[c.id] \in {"issued", "settled"}
    BY <2>1, <2>2, <1>1 DEF Phase, Settled
  <2>4. Delivery!Withdraw(c.id)
    BY <2>2, <2>3 DEF Delivery!Withdraw
  <2> QED
    BY <2>1, <2>4 DEF Delivery!Next
<1>8. ASSUME NEW a \in Agent, NEW c \in fetched[a], NEW result \in Settled, Ran(a, c, result)
      PROVE  Delivery!Next
  <2>1. c.id \in CmdId /\ status[c.id] \in {"pending", "expired"} \cup Settled
    BY DEF TypeOK, Command, DeliveryInv, LifeCycle
  <2>2. status' = status /\ runs' = [runs EXCEPT ![c.id] = Again(@)]
    BY <1>8 DEF Ran, tables
  <2>3. ran' = ran \cup {c.id}
    BY <2>1, <2>2, RunCounts
  <2>4. phase[c.id] # "new" /\ phase' = phase
    BY <2>1, <2>2 DEF Phase, Settled
  <2>5. Delivery!Run(c.id)
    BY <2>3, <2>4 DEF Delivery!Run
  <2> QED
    BY <2>1, <2>5 DEF Delivery!Next
<1> QED
  BY <1>2, <1>3, <1>4, <1>5, <1>6, <1>7, <1>8
     DEF Next, Admin, ClickHouse, Sync, Host, Commands, FetchCommands, AckCommand, AckLost,
         AckTimeout, LateAck, Settled, ExecuteBlock, ExecuteUnblock, ApplyDelete,
         SendFirewallSync, SyncClear, SyncInsert, SyncAborts, Fail2banBan, Fail2banUnban,
         AgentRestart, HostReboot, vars, tables, handlers, agentVars, iptables, history

\* Tables, polls, retries and acknowledgements together implement at-least-once
\* delivery.
THEOREM Delivers == Spec => DeliversAtLeastOnce
<1>1. Init => DeliveryInv
  BY DeliveryInit
<1> QED
  BY <1>1, RefinesInit, RefinesNext, DeliveryNext, TypeCorrect, PTL
     DEF Spec, DeliversAtLeastOnce, Delivery!Spec

-----------------------------------------------------------------------------
(* The newest command decides.                                             *)

LEMMA ExecuteRan ==
  ASSUME NEW a, NEW c, ExecuteBlock(a, c) \/ ExecuteUnblock(a, c)
  PROVE  /\ UNCHANGED <<agent_commands, status, external>> /\ IsNext(a, c)
         /\ fetched' = [fetched EXCEPT ![a] = @ \ {c}]
         /\ runs' = [runs EXCEPT ![c.id] = Again(@)]
<1>1. \E result : Ran(a, c, result)
  <2>1. CASE ExecuteBlock(a, c)
    BY <2>1 DEF ExecuteBlock
  <2>2. CASE ExecuteUnblock(a, c)
    BY <2>2 DEF ExecuteUnblock
  <2> QED
    BY <2>1, <2>2
<1>2. IsNext(a, c)
  BY DEF ExecuteBlock, ExecuteUnblock
<1> QED
  BY <1>1, <1>2 DEF Ran, tables

LEMMA UndisturbedNext == TypeOK /\ DeliveryInv /\ Undisturbed /\ [Next]_vars => Undisturbed'
<1> SUFFICES ASSUME TypeOK, DeliveryInv, Undisturbed, [Next]_vars PROVE Undisturbed'
  OBVIOUS
<1> USE DEF Undisturbed
<1>1. ASSUME NEW i \in CmdId, NEW a \in Agent \cup {NoAgent}, NEW p \in IP,
             BlockIP(i, a, p) \/ UnblockIP(i, a, p)
      PROVE  Undisturbed'
  <2>1. /\ status[i] = "unused" /\ status' = [status EXCEPT ![i] = "queuing"]
        /\ UNCHANGED <<agent_commands, fetched, f2bRules, external>>
    BY <1>1 DEF BlockIP, UnblockIP, agentVars, iptables
  <2> QED
    BY <2>1 DEF TypeOK, Command
<1>2. ASSUME NEW r \in requests, InsertCommand(r) \/ InsertCommandFails(r)
      PROVE  Undisturbed'
  <2>1. /\ r.id \in CmdId /\ status[r.id] = "queuing" /\ agent_commands \subseteq agent_commands'
        /\ \E st \in {"pending", "rejected"} : status' = [status EXCEPT ![r.id] = st]
        /\ UNCHANGED <<fetched, f2bRules, external>>
    BY <1>2 DEF InsertCommand, InsertCommandFails, agentVars, iptables, DeliveryInv, LifeCycle, TypeOK, Request
  <2> QED
    BY <2>1 DEF TypeOK, Command
<1>3. ASSUME NEW c \in agent_commands, ApplyUpdate(c)
      PROVE  Undisturbed'
  <2>1. /\ c.id \in CmdId /\ status[c.id] # "expired"
        /\ \A i \in CmdId : i # c.id => status'[i] = status[i]
        /\ UNCHANGED <<agent_commands, fetched, f2bRules, external>>
    BY <1>3 DEF ApplyUpdate, agentVars, iptables, DeliveryInv, LifeCycle, TypeOK, Command, Settled
  <2> QED
    BY <2>1 DEF TypeOK, Command
<1>4. ASSUME NEW c \in agent_commands, ExpireCommand(c)
      PROVE  Undisturbed'
  <2>1. /\ c.id \in CmdId /\ status'[c.id] = "expired" /\ agent_commands' = agent_commands \ {c}
        /\ \A i \in CmdId : i # c.id => status'[i] = status[i]
        /\ UNCHANGED <<fetched, f2bRules, external>>
    BY <1>4 DEF ExpireCommand, agentVars, iptables, TypeOK, Command
  <2> QED
    BY <2>1 DEF TypeOK, Command
<1>5. ASSUME NEW a \in Agent, FetchCommands(a)
      PROVE  Undisturbed'
  BY <1>5 DEF FetchCommands, GetPendingCommands, tables, iptables, TypeOK
<1>6. ASSUME NEW a \in Agent, NEW c \in fetched[a], ExecuteBlock(a, c) \/ ExecuteUnblock(a, c)
      PROVE  Undisturbed'
  <2>1. /\ \A b \in Agent : fetched'[b] \subseteq fetched[b]
        /\ UNCHANGED <<agent_commands, status, external>>
    <3>1. UNCHANGED <<agent_commands, status, external>> /\ fetched' = [fetched EXCEPT ![a] = @ \ {c}]
      BY ONLY <1>6, ExecuteRan
    <3> QED
      BY <3>1 DEF TypeOK
  <2>2. \A b \in Agent : f2bRules'[b] \subseteq f2bRules[b]
    <3>1. CASE ExecuteBlock(a, c)
      BY <3>1 DEF ExecuteBlock
    <3>2. CASE ExecuteUnblock(a, c)
      <4>1. PICK keep \in F2bLeft(a, c.ip) : f2bRules' = [f2bRules EXCEPT ![a] = keep]
        BY <3>2 DEF ExecuteUnblock
      <4>2. keep \subseteq f2bRules[a]
        BY DEF F2bLeft
      <4> QED
        BY <4>1, <4>2 DEF TypeOK
    <3> QED
      BY <1>6, <3>1, <3>2
  <2> QED
    BY <2>1, <2>2
<1>7. ASSUME NEW a \in Agent, NEW p \in IP,
             Fail2banBan(a, p) \/ Fail2banUnban(a, p) \/ AgentRestart(a) \/ HostReboot(a)
      PROVE  Undisturbed'
  <2>1. external' = external + 1 /\ external \in Nat
    BY <1>7 DEF Fail2banBan, Fail2banUnban, AgentRestart, HostReboot, TypeOK
  <2>2. external' # 0
    BY <2>1
  <2>3. UNCHANGED <<agent_commands, status>> /\ \A b \in Agent : fetched'[b] \subseteq fetched[b]
    BY <1>7 DEF Fail2banBan, Fail2banUnban, AgentRestart, HostReboot, tables, agentVars, TypeOK
  <2> QED
    BY <2>2, <2>3
<1>8. ASSUME NEW a \in Agent, AgentRestart(a) \/ HostReboot(a)
      PROVE  Undisturbed'
  <2>1. external' = external + 1 /\ external \in Nat
    BY <1>8 DEF AgentRestart, HostReboot, TypeOK
  <2>2. external' # 0
    BY <2>1
  <2>3. UNCHANGED <<agent_commands, status>> /\ \A b \in Agent : fetched'[b] \subseteq fetched[b]
    BY <1>8 DEF AgentRestart, HostReboot, tables, TypeOK
  <2> QED
    BY <2>2, <2>3
<1>9. CASE UNCHANGED <<agent_commands, status, fetched, f2bRules, external>>
  BY <1>9
<1> QED
  BY <1>1, <1>2, <1>3, <1>4, <1>5, <1>6, <1>7, <1>8, <1>9
     DEF Next, Admin, ClickHouse, Sync, Host, Commands, AckCommand, AckLost, AckTimeout, LateAck,
         ApplyDelete, SendFirewallSync, SyncClear, SyncInsert, SyncAborts,
         vars, tables, handlers, agentVars, iptables, history

\* Calm cannot come back.
LEMMA CalmBefore ==
  ASSUME TypeOK, DeliveryInv, NEW a \in Agent, NEW p \in IP, [Next]_vars, Calm(a, p)'
  PROVE  /\ Calm(a, p) /\ external' = external /\ agent_commands \subseteq agent_commands'
         /\ \A i \in CmdId : runs[i] \in Nat /\ runs[i] <= runs'[i]
<1>1. external' = external \/ (external \in Nat /\ external' = external + 1)
  <2>1. external \in Nat
    BY DEF TypeOK
  <2>2. ASSUME NEW b, NEW c, ExecuteBlock(b, c) \/ ExecuteUnblock(b, c)
        PROVE  external' = external
    BY ONLY <2>2, ExecuteRan
  <2>3. ASSUME Host
        PROVE  external' = external + 1
    BY <2>3 DEF Host, Fail2banBan, Fail2banUnban, AgentRestart, HostReboot
  <2> QED
    BY <2>1, <2>2, <2>3
     DEF Next, Admin, ClickHouse, Sync, Commands, BlockIP, UnblockIP, InsertCommand, InsertCommandFails,
         ApplyUpdate, ExpireCommand, AckCommand, AckLost, AckTimeout, LateAck, ApplyDelete, FetchCommands,
         SendFirewallSync, SyncClear, SyncInsert, SyncAborts, vars
<1>2. external' = external
  BY <1>1 DEF Calm
<1>3. \A i \in CmdId : status'[i] # "expired"
  BY DEF Calm
<1>4. agent_commands \subseteq agent_commands'
  <2>1. ASSUME NEW c \in agent_commands, ExpireCommand(c)
        PROVE  FALSE
    BY <1>3, <2>1 DEF ExpireCommand, TypeOK, Command
  <2> QED
    BY <2>1, ExecuteRan
       DEF Next, Admin, ClickHouse, Sync, Host, Commands, BlockIP, UnblockIP, InsertCommand, InsertCommandFails,
         ApplyUpdate, AckCommand, AckLost, AckTimeout, LateAck, ApplyDelete, FetchCommands,
         SendFirewallSync, SyncClear, SyncInsert, SyncAborts, Fail2banBan, Fail2banUnban,
         AgentRestart, HostReboot, vars, tables
<1>5. \A i \in CmdId : status[i] = "expired" => status'[i] = "expired"
  <2>1. ASSUME NEW i \in CmdId, NEW b \in Agent \cup {NoAgent}, NEW q \in IP, BlockIP(i, b, q) \/ UnblockIP(i, b, q)
        PROVE  \A j \in CmdId : status[j] = "expired" => status'[j] = "expired"
    BY <2>1 DEF BlockIP, UnblockIP, TypeOK
  <2>2. ASSUME NEW r \in requests, InsertCommand(r) \/ InsertCommandFails(r)
        PROVE  \A j \in CmdId : status[j] = "expired" => status'[j] = "expired"
    <3>1. status[r.id] = "queuing" /\ \E st : status' = [status EXCEPT ![r.id] = st]
      BY <2>2 DEF InsertCommand, InsertCommandFails, DeliveryInv, LifeCycle
    <3> QED
      BY <3>1 DEF TypeOK
  <2>3. ASSUME NEW c \in agent_commands, ApplyUpdate(c) \/ ExpireCommand(c)
        PROVE  \A j \in CmdId : status[j] = "expired" => status'[j] = "expired"
    <3>1. status[c.id] # "expired" /\ \E st : status' = [status EXCEPT ![c.id] = st]
      BY <2>3 DEF ApplyUpdate, ExpireCommand, DeliveryInv, LifeCycle, Settled
    <3> QED
      BY <3>1 DEF TypeOK
  <2>4. CASE status' = status
    BY <2>4
  <2> QED
    BY <2>1, <2>2, <2>3, <2>4, ExecuteRan
       DEF Next, Admin, ClickHouse, Sync, Host, Commands, AckCommand, AckLost, AckTimeout, LateAck, ApplyDelete, FetchCommands,
         SendFirewallSync, SyncClear, SyncInsert, SyncAborts, Fail2banBan, Fail2banUnban,
         AgentRestart, HostReboot, vars, tables
<1>6. \A i \in CmdId : runs[i] \in Nat /\ runs[i] <= runs'[i]
  <2>0. \A i \in CmdId : runs[i] \in 0..2
    BY DEF TypeOK
  <2>1. ASSUME NEW b \in Agent, NEW c \in fetched[b], NEW result, Ran(b, c, result)
        PROVE  \A i \in CmdId : runs[i] <= runs'[i]
    <3>1. \A i \in CmdId : runs'[i] = runs[i] \/ runs'[i] = Again(runs[i])
      BY <2>1 DEF Ran, TypeOK
    <3> QED
      BY <2>0, <3>1 DEF Again
  <2>2. CASE runs' = runs
    BY <2>0, <2>2
  <2>3. \A i \in CmdId : runs[i] <= runs'[i]
    BY <2>1, <2>2
       DEF Next, Admin, ClickHouse, Sync, Host, Commands, BlockIP, UnblockIP, InsertCommand, InsertCommandFails,
         ApplyUpdate, ExpireCommand, AckCommand, AckLost, AckTimeout, LateAck,
         ExecuteBlock, ExecuteUnblock, ApplyDelete, FetchCommands,
         SendFirewallSync, SyncClear, SyncInsert, SyncAborts, Fail2banBan, Fail2banUnban,
         AgentRestart, HostReboot, vars, history
  <2> QED
    BY <2>0, <2>3
<1>7. \A c \in CommandsFor(a, p) : c \in CommandsFor(a, p)' /\ c.id \in CmdId
  BY <1>4 DEF CommandsFor, TypeOK, Command
<1>8. \A c \in CommandsFor(a, p) : runs[c.id] <= 1
  <2> TAKE c \in CommandsFor(a, p)
  <2>1. c.id \in CmdId /\ runs'[c.id] <= 1 /\ runs' \in [CmdId -> 0..2]
    <3>1. runs' \in [CmdId -> 0..2]
      BY TypeOKNext DEF TypeOK
    <3> QED
      BY <1>7, <3>1 DEF Calm
  <2> QED
    BY <1>6, <2>1
<1>9. \A c, d \in CommandsFor(a, p) : c.at = d.at => c = d
  BY <1>7 DEF Calm
<1>10. Calm(a, p)
  BY <1>2, <1>3, <1>5, <1>8, <1>9 DEF Calm
<1> QED
  BY <1>2, <1>4, <1>6, <1>10

\* A step that runs no command and puts nothing that ran into the queue.
LEMMA DecidedKept ==
  ASSUME TypeOK, NEW a \in Agent, NEW p \in IP, UNCHANGED <<dropRules, runs>>,
         Calm(a, p) => (dropRules[a][p] > 0 <=> Decided(a, p)), Calm(a, p), agent_commands \subseteq agent_commands',
         \A c \in agent_commands' : c \in agent_commands \/ runs[c.id] = 0
  PROVE  (dropRules[a][p] > 0 <=> Decided(a, p))'
<1>1. \A c : (c \in CommandsFor(a, p) => c \in CommandsFor(a, p)')
             /\ (c \in CommandsFor(a, p)' /\ runs[c.id] = 1 => c \in CommandsFor(a, p))
  BY DEF CommandsFor
<1> QED
  BY <1>1 DEF Decided

\* One address's commands decide, and the newest of those that ran comes last.
LEMMA DecidedRan ==
  ASSUME TypeOK, DeliveryInv, OldestFirst, Undisturbed, NEW a \in Agent, NEW p \in IP, Calm(a, p), Calm(a, p)',
         dropRules[a][p] > 0 <=> Decided(a, p), agent_commands' = agent_commands,
         NEW b \in Agent, NEW c \in fetched[b], IsNext(b, c), runs' = [runs EXCEPT ![c.id] = Again(@)],
         OldestFirst',
         b = a /\ c.ip = p => (dropRules'[a][p] > 0 <=> c.action = "block_ip"),
         ~(b = a /\ c.ip = p) => dropRules'[a][p] = dropRules[a][p]
  PROVE  (dropRules[a][p] > 0 <=> Decided(a, p))'
<1>1. c.id \in CmdId /\ c \in agent_commands /\ c.agent = b /\ c.at \in Nat
  BY DEF TypeOK, Command, Calm, Undisturbed, OldestFirst
<1>2. \A d \in agent_commands : d.id \in CmdId /\ d.at \in Nat /\ runs[d.id] \in 0..2 /\ (d # c => d.id # c.id)
  BY <1>1 DEF TypeOK, Command, DeliveryInv, LifeCycle
<1>3. /\ \A i \in CmdId : i # c.id => runs'[i] = runs[i]
      /\ runs'[c.id] = Again(runs[c.id])
  BY <1>1 DEF TypeOK
<1>4. CommandsFor(a, p)' = CommandsFor(a, p)
  BY DEF CommandsFor
<1>5. CASE ~(b = a /\ c.ip = p)
  <2>1. \A d \in CommandsFor(a, p) : runs'[d.id] = runs[d.id]
    BY <1>1, <1>2, <1>3, <1>5 DEF CommandsFor
  <2> QED
    BY <1>4, <1>5, <2>1 DEF Decided
<1>6. CASE b = a /\ c.ip = p
  <2>1. c \in CommandsFor(a, p)
    BY <1>1, <1>6 DEF CommandsFor
  <2>2. runs[c.id] = 0 /\ runs'[c.id] = 1
    <3>1. runs'[c.id] <= 1
      BY <1>4, <2>1 DEF Calm
    <3> QED
      BY <1>1, <1>2, <1>3, <3>1 DEF Again
  <2>3. \A d \in CommandsFor(a, p) : runs'[d.id] = 1 => d.at <= c.at
    <3> SUFFICES ASSUME NEW d \in CommandsFor(a, p), runs'[d.id] = 1, d # c
                 PROVE  d.at <= c.at
      BY <1>1
    <3>1. d \in agent_commands /\ d.agent = c.agent /\ runs[d.id] > 0
      BY <1>1, <1>2, <1>3, <1>6 DEF CommandsFor
    <3>2. ~(c.at < d.at)
      BY <1>1, <2>2, <3>1 DEF OldestFirst, FirstRunsInOrder
    <3> QED
      BY <1>1, <1>2, <3>1, <3>2
  <2>4. ASSUME NEW d \in CommandsFor(a, p), \A e \in CommandsFor(a, p) : runs'[e.id] = 1 => e.at <= d.at,
               runs'[d.id] = 1
        PROVE  d = c
    <3>1. d.at = c.at
      BY <1>1, <1>2, <2>1, <2>2, <2>3, <2>4 DEF CommandsFor
    <3> QED
      BY <2>1, <3>1 DEF Calm
  <2>5. Decided(a, p)' <=> c.action = "block_ip"
    BY <1>4, <2>1, <2>2, <2>3, <2>4 DEF Decided
  <2> QED
    BY <1>6, <2>5
<1> QED
  BY <1>5, <1>6

\* What running a command does to an address nobody else's text contains.
LEMMA RunDecides ==
  ASSUME TypeOK, NEW a \in Agent, NEW p \in IP, Calm(a, p),
         NEW b \in Agent, NEW c \in fetched[b], ExecuteBlock(b, c) \/ ExecuteUnblock(b, c)
  PROVE  /\ b = a /\ c.ip = p => (dropRules'[a][p] > 0 <=> c.action = "block_ip")
         /\ ~(b = a /\ c.ip = p) => dropRules'[a][p] = dropRules[a][p]
<1>0. /\ ~Flaky /\ \A q \in IP : <<q, p>> \in Within => q = p
      /\ c.ip \in IP /\ dropRules \in [Agent -> [IP -> 0..MaxCopies]]
  BY DEF Calm, TypeOK, Command
<1>1. CASE ExecuteBlock(b, c)
  <2>1. dropRules' = [dropRules EXCEPT ![b] = [dropRules[b] EXCEPT ![c.ip] = OneMore(@)]] /\ c.action = "block_ip"
    BY <1>0, <1>1 DEF ExecuteBlock
  <2>2. \A n \in 0..MaxCopies : OneMore(n) > 0
    BY BoundsAssumption DEF OneMore
  <2> QED
    BY <1>0, <2>1, <2>2
<1>2. CASE ExecuteUnblock(b, c)
  <2>1. PICK left \in [IP -> 0..MaxCopies] : /\ \A q \in IP : left[q] \in CopiesLeft(b, c.ip, q)
                                             /\ dropRules' = [dropRules EXCEPT ![b] = left]
    BY <1>2 DEF ExecuteUnblock
  <2>2. c.action # "block_ip"
    BY <1>2 DEF ExecuteUnblock
  <2>3. c.ip = p => left[p] = 0
    BY <1>0, <2>1, WithinAssumption DEF CopiesLeft, Mentions
  <2>4. c.ip # p => left[p] = dropRules[b][p]
    BY <1>0, <2>1 DEF CopiesLeft, Mentions
  <2> QED
    BY <1>0, <2>1, <2>2, <2>3, <2>4
<1> QED
  BY <1>1, <1>2

LEMMA DecidedNext ==
  TypeOK /\ DeliveryInv /\ OldestFirst /\ Undisturbed /\ NewestRunDecided /\ [Next]_vars => NewestRunDecided'
<1> SUFFICES ASSUME TypeOK, DeliveryInv, OldestFirst, Undisturbed, NewestRunDecided, [Next]_vars,
                    NEW a \in Agent, NEW p \in IP, Calm(a, p)'
             PROVE  (dropRules[a][p] > 0 <=> Decided(a, p))'
  BY DEF NewestRunDecided
<1>1. Calm(a, p) /\ external' = external /\ agent_commands \subseteq agent_commands'
  BY CalmBefore
<1>2. dropRules[a][p] > 0 <=> Decided(a, p)
  BY <1>1 DEF NewestRunDecided
<1>3. ASSUME NEW b \in Agent, NEW c \in fetched[b], ExecuteBlock(b, c) \/ ExecuteUnblock(b, c)
      PROVE  (dropRules[a][p] > 0 <=> Decided(a, p))'
  <2>1. agent_commands' = agent_commands /\ runs' = [runs EXCEPT ![c.id] = Again(@)] /\ IsNext(b, c)
    BY <1>3 DEF ExecuteBlock, ExecuteUnblock, Ran, tables
  <2>2. OldestFirst'
    BY OrderNext
  <2> QED
    BY <1>1, <1>2, <1>3, <2>1, <2>2, DecidedRan, RunDecides
<1>4. ASSUME NEW r \in requests, InsertCommand(r)
      PROVE  (dropRules[a][p] > 0 <=> Decided(a, p))'
  <2>1. runs[r.id] = 0
    BY DEF DeliveryInv, LifeCycle, RanBeforeReported, TypeOK, Request
  <2>2. \A c \in agent_commands' : c \in agent_commands \/ c.id = r.id
    BY <1>4 DEF InsertCommand
  <2>3. UNCHANGED <<dropRules, runs>>
    BY <1>4 DEF InsertCommand, iptables, history
  <2> QED
    BY <1>1, <1>2, <2>1, <2>2, <2>3, DecidedKept
<1>5. ASSUME UNCHANGED <<dropRules, runs>>, agent_commands' \subseteq agent_commands
      PROVE  (dropRules[a][p] > 0 <=> Decided(a, p))'
  BY <1>1, <1>2, <1>5, DecidedKept
<1>6. ASSUME NEW b \in Agent, HostReboot(b)
      PROVE  FALSE
  BY <1>1, <1>6 DEF HostReboot, TypeOK
<1> QED
  BY <1>3, <1>4, <1>5, <1>6
     DEF Next, Admin, ClickHouse, Sync, Host, Commands, BlockIP, UnblockIP, InsertCommandFails,
         ApplyUpdate, ExpireCommand, AckCommand, AckLost, AckTimeout, LateAck,
         ApplyDelete, FetchCommands,
         SendFirewallSync, SyncClear, SyncInsert, SyncAborts, Fail2banBan, Fail2banUnban,
         AgentRestart, vars, tables, handlers, agentVars, iptables, history

\* The newest command decides whether the agent blocks the address, if each of
\* its commands ran once, in seconds of their own, and nothing else interfered.
THEOREM LastDecides == Spec => []LastCommandDecides
<1>1. Init => Undisturbed /\ NewestRunDecided
  BY DEF Init, Undisturbed, NewestRunDecided, Decided, CommandsFor
<1>2. TypeOK /\ Undisturbed /\ NewestRunDecided => LastCommandDecides
  <2> SUFFICES ASSUME TypeOK, Undisturbed, NewestRunDecided, NEW a \in Agent, NEW p \in IP,
                      ~Flaky, \A q \in IP : <<q, p>> \in Within => q = p,
                      external = 0, \A i \in CmdId : status[i] # "expired",
                      \A c \in CommandsFor(a, p) : runs[c.id] = 1,
                      \A c, d \in CommandsFor(a, p) : c.at = d.at => c = d,
                      NEW c \in CommandsFor(a, p), \A d \in CommandsFor(a, p) : d.at <= c.at
               PROVE  p \in CollectBlockedIPs(a) <=> c.action = "block_ip"
    BY DEF LastCommandDecides, CommandsFor
  <2>1. Calm(a, p)
    BY DEF Calm
  <2>2. p \in CollectBlockedIPs(a) <=> Decided(a, p)
    BY <2>1 DEF NewestRunDecided, CollectBlockedIPs, Undisturbed
  <2>3. \A d \in CommandsFor(a, p) : (\A e \in CommandsFor(a, p) : e.at <= d.at) => d = c
    <3>1. \A d \in CommandsFor(a, p) : d.at \in Nat
      BY DEF CommandsFor, TypeOK, Command
    <3> QED
      BY <3>1
  <2> QED
    BY <2>2, <2>3 DEF Decided
<1>3. NewestRunDecided /\ TypeOK /\ DeliveryInv /\ OldestFirst /\ Undisturbed /\ [Next]_vars => NewestRunDecided'
  BY DecidedNext
<1> QED
  BY <1>1, <1>2, <1>3, UndisturbedNext, DeliveryInit, DeliveryNext, OrderNext, TypeCorrect, PTL DEF Spec
=============================================================================
