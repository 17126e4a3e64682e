---------------------------- MODULE AlertEngine ----------------------------
(***************************************************************************)
(* Alerting: every metrics post of an agent is compared with the alert     *)
(* rules; a rule that fires for a host is reported at most once a cooldown *)
(* and not while it is silenced.                                           *)
(*                                                                         *)
(* Sources: server/alert/service.go, HandleMetrics and the alert handlers  *)
(* of server/api/handler.go.                                               *)
(*                                                                         *)
(* gin runs each post in a goroutine of its own, so evaluations overlap,   *)
(* with each other and with changes of the rules.  The handlers that       *)
(* change rules are one step each here; how they overlap is the subject of *)
(* ConfigStore.  Times are kept as ages and remaining durations, so that   *)
(* the model runs forever: age Cooldown stands for that long ago, or never.*)
(***************************************************************************)
EXTENDS Integers, FiniteSets

CONSTANTS
    Eval,        \* slots for concurrent evaluations; a slot is used again and again
    Rule,        \* ids of alert rules
    Host,        \* hosts that post metrics
    Any,         \* the host "*" of rules and silences
    Payloads,    \* what is posted: metric name -> value
    Conditions,  \* what rules may say: host, metric, operator, threshold
    Cooldown,    \* one minute, in ticks
    MaxSilence,  \* bound: the longest silence, in ticks
    MaxChanges   \* bound: changes of rules, and crashes of the server

ASSUME AnyAssumption      == Any \notin Host
ASSUME CooldownAssumption == Cooldown \in Nat \ {0} /\ MaxSilence \in Nat /\ MaxChanges \in Nat

VARIABLES
    rules,     \* cfg.AlertRules: per id, not created yet, deleted, or the rule
    silenced,  \* the map Silenced of each rule: host or Any -> remaining time
    age,       \* lastTriggered: time since the rule was triggered for the host
    ev,        \* the evaluation in each slot
    changes,   \* how often rules were changed or the server crashed
    since,     \* history: time since the slot itself triggered the rule for the host
    quiet      \* history: the rules off, and silences in force, since the evaluation began

vars == <<rules, silenced, age, ev, changes, since, quiet>>

Absent    == [state |-> "absent"]
Deleted   == [state |-> "deleted"]
Active(r) == rules[r].state = "active"
Idle      == [pc |-> "idle"]
NoQuiet   == [off |-> {}, muted |-> {}]

Init ==
    /\ rules = [r \in Rule |-> Absent]
    /\ silenced = [r \in Rule |-> [x \in Host \cup {Any} |-> 0]]
    /\ age = [r \in Rule |-> [h \in Host |-> Cooldown]]
    /\ ev = [e \in Eval |-> Idle]
    /\ changes = 0
    /\ since = [e \in Eval |-> [r \in Rule |-> [h \in Host |-> Cooldown]]]
    /\ quiet = [e \in Eval |-> NoQuiet]

-----------------------------------------------------------------------------
(* When a rule fires.                                                      *)

Matches(c, h) == c.host \in {Any, h}

Crosses(c, val) ==
    CASE c.operator = ">"  -> val > c.threshold
      [] c.operator = "<"  -> val < c.threshold
      [] c.operator = ">=" -> val >= c.threshold
      [] c.operator = "<=" -> val <= c.threshold
      [] OTHER -> FALSE

\* The silence of rule m[1] for m[2], a host or Any, is in force.
Mutes(m) == silenced[m[1]][m[2]] > 0

\* The rule as an evaluation copied it, against the metrics of its post.
Fires(rule, e) ==
    /\ rule.state = "active" /\ rule.enabled
    /\ Matches(rule.condition, ev[e].host)
    /\ rule.condition.metric \in DOMAIN ev[e].metrics
    /\ Crosses(rule.condition, ev[e].metrics[rule.condition.metric])

\* The loop copies a rule when its turn comes, from the array that the
\* evaluation's copy of the configuration had: it is the array of the store,
\* or one the store has left, with the rule as it was at that moment.
Copies(e, r) == ev[e].seen[r]

-----------------------------------------------------------------------------
(* Evaluating one post.                                                    *)

\* HandleMetrics, after the metrics were stored: the configuration is read.
EvaluateRules(e, h, p) ==
    /\ ev[e].pc = "idle"
    /\ ev' = [ev EXCEPT ![e] = [pc |-> "next", host |-> h, metrics |-> p,
                                seen |-> [r \in Rule |-> {rules[r]}],
                                todo |-> {r \in Rule : Active(r)}]]
    /\ quiet' = [quiet EXCEPT ![e] = [off   |-> {r \in Rule : Active(r) => ~rules[r].enabled},
                                      muted |-> {m \in Rule \X {h, Any} : Mutes(m)}]]
    /\ UNCHANGED <<rules, silenced, age, changes, since>>

NextRule(e) == [pc |-> "next", host |-> ev[e].host, metrics |-> ev[e].metrics,
                seen |-> ev[e].seen, todo |-> ev[e].todo]

\* The next rule does not fire for this post, or is silenced for the host.
SkipRule(e, r) ==
    /\ ev[e].pc = "next" /\ r \in ev[e].todo
    /\ silenced[r][ev[e].host] = 0 => \E rule \in Copies(e, r) : ~Fires(rule, e)
    /\ ev' = [ev EXCEPT ![e].todo = @ \ {r}]
    /\ UNCHANGED <<rules, silenced, age, changes, since, quiet>>

\* It fires, and there is no silence for the host.
TakeRule(e, r) ==
    /\ ev[e].pc = "next" /\ r \in ev[e].todo
    /\ \E rule \in Copies(e, r) : Fires(rule, e)
    /\ silenced[r][ev[e].host] = 0
    /\ ev' = [ev EXCEPT ![e] = [pc |-> "taken", host |-> @.host, metrics |-> @.metrics,
                                seen |-> @.seen, todo |-> @.todo \ {r}, rule |-> r]]
    /\ UNCHANGED <<rules, silenced, age, changes, since, quiet>>

\* Mutant: silences for all hosts are not looked at.
CheckWildcard_Ignored(e) ==
    /\ ev[e].pc = "taken"
    /\ ev' = [ev EXCEPT ![e].pc = "unsilenced"]
    /\ UNCHANGED <<rules, silenced, age, changes, since, quiet>>

\* The silence for all hosts is looked at after the one for the host.
CheckWildcard(e) ==
    /\ ev[e].pc = "taken"
    /\ ev' = IF silenced[ev[e].rule][Any] > 0 THEN [ev EXCEPT ![e] = NextRule(e)]
             ELSE [ev EXCEPT ![e].pc = "unsilenced"]
    /\ UNCHANGED <<rules, silenced, age, changes, since, quiet>>

\* Mutant: a suppressed alert starts a new cooldown.
Suppress_Refreshes(e) ==
    /\ ev[e].pc = "unsilenced"
    /\ age[ev[e].rule][ev[e].host] < Cooldown
    /\ ev' = [ev EXCEPT ![e] = NextRule(e)]
    /\ age' = [age EXCEPT ![ev[e].rule][ev[e].host] = 0]
    /\ UNCHANGED <<rules, silenced, changes, since, quiet>>

\* Under the read lock: the rule was triggered for the host a moment ago.
Suppress(e) ==
    /\ ev[e].pc = "unsilenced"
    /\ age[ev[e].rule][ev[e].host] < Cooldown
    /\ ev' = [ev EXCEPT ![e] = NextRule(e)]
    /\ UNCHANGED <<rules, silenced, age, changes, since, quiet>>

\* Mutant: the time of the last triggering is not looked at.
PassCooldown_Always(e) ==
    /\ ev[e].pc = "unsilenced"
    /\ ev' = [ev EXCEPT ![e].pc = "passed"]
    /\ UNCHANGED <<rules, silenced, age, changes, since, quiet>>

\* Under the read lock: it was not.
PassCooldown(e) ==
    /\ ev[e].pc = "unsilenced"
    /\ age[ev[e].rule][ev[e].host] = Cooldown
    /\ ev' = [ev EXCEPT ![e].pc = "passed"]
    /\ UNCHANGED <<rules, silenced, age, changes, since, quiet>>

\* Under the write lock, taken later: the rule is triggered now.
MarkTriggered(e) ==
    /\ ev[e].pc = "passed"
    /\ age' = [age EXCEPT ![ev[e].rule][ev[e].host] = 0]
    /\ since' = [since EXCEPT ![e][ev[e].rule][ev[e].host] = 0]
    /\ ev' = [ev EXCEPT ![e].pc = "triggered"]
    /\ UNCHANGED <<rules, silenced, changes, quiet>>

\* InsertAlert, whose error is dropped, and DispatchRule, which only starts
\* goroutines: the alert is out, and the next rule's turn comes.
DispatchRule(e) ==
    /\ ev[e].pc = "triggered"
    /\ ev' = [ev EXCEPT ![e] = NextRule(e)]
    /\ UNCHANGED <<rules, silenced, age, changes, since, quiet>>

\* No rule is left: the post is answered.
Finish(e) ==
    /\ ev[e].pc = "next" /\ ev[e].todo = {}
    /\ ev' = [ev EXCEPT ![e] = Idle]
    /\ quiet' = [quiet EXCEPT ![e] = NoQuiet]
    /\ UNCHANGED <<rules, silenced, age, changes, since>>

-----------------------------------------------------------------------------
(* Time, and the administrator.                                            *)

\* What is still off, or still muted, after this step.
StillQuiet ==
    quiet' = [e \in Eval |->
        [off   |-> {r \in quiet[e].off : rules'[r].state = "active" => ~rules'[r].enabled},
         muted |-> {m \in quiet[e].muted : Mutes(m)'}]]

Older(t)   == IF t < Cooldown THEN t + 1 ELSE t
Shorter(t) == IF t > 0 THEN t - 1 ELSE t

Tick ==
    /\ age' = [r \in Rule |-> [h \in Host |-> Older(age[r][h])]]
    /\ since' = [e \in Eval |-> [r \in Rule |-> [h \in Host |-> Older(since[e][r][h])]]]
    /\ silenced' = [r \in Rule |-> [x \in Host \cup {Any} |-> Shorter(silenced[r][x])]]
    /\ UNCHANGED <<rules, ev, changes>>
    /\ StillQuiet

\* A running evaluation may meet the changed rule, or still the old one.
Change ==
    /\ changes < MaxChanges /\ changes' = changes + 1
    /\ ev' = [e \in Eval |->
          IF ev[e].pc = "idle" THEN Idle
          ELSE [ev[e] EXCEPT !.seen = [r \in Rule |->
                  IF rules'[r].state = "active" THEN @[r] \cup {rules'[r]} ELSE @[r]]]]
    /\ UNCHANGED <<age, since>>
    /\ StillQuiet

HandleCreateAlertRule(r, c) ==
    /\ rules[r] = Absent
    /\ rules' = [rules EXCEPT ![r] = [state |-> "active", enabled |-> TRUE, condition |-> c]]
    /\ UNCHANGED silenced /\ Change

HandleToggleAlertRule(r) ==
    /\ Active(r)
    /\ rules' = [rules EXCEPT ![r].enabled = ~@]
    /\ UNCHANGED silenced /\ Change

\* Mutant: the entry is replaced by the request, which does not say whether
\* the rule is enabled.
HandleUpdateAlertRule_Replaces(r, c) ==
    /\ Active(r)
    /\ rules' = [rules EXCEPT ![r] = [state |-> "active", condition |-> c]]
    /\ UNCHANGED silenced /\ Change

\* The time of the last triggering and the silences stay.
HandleUpdateAlertRule(r, c) ==
    /\ Active(r)
    /\ rules' = [rules EXCEPT ![r].condition = c]
    /\ UNCHANGED silenced /\ Change

HandleDeleteAlertRule(r) ==
    /\ Active(r)
    /\ rules' = [rules EXCEPT ![r] = Deleted]
    /\ UNCHANGED silenced /\ Change

\* An empty host means Any.
HandleSilenceAlert(r, x, d) ==
    /\ Active(r)
    /\ silenced' = [silenced EXCEPT ![r][x] = d]
    /\ UNCHANGED rules /\ Change

HandleUnsilenceAlert(r, x) ==
    /\ Active(r)
    /\ silenced' = [silenced EXCEPT ![r][x] = 0]
    /\ UNCHANGED rules /\ Change

Admin ==
    \E r \in Rule :
       \/ \E c \in Conditions : HandleCreateAlertRule(r, c) \/ HandleUpdateAlertRule(r, c)
       \/ HandleToggleAlertRule(r) \/ HandleDeleteAlertRule(r)
       \/ \E x \in Host \cup {Any} : \/ HandleUnsilenceAlert(r, x)
                                     \/ \E d \in 0..MaxSilence : HandleSilenceAlert(r, x, d)

\* The server crashes and is started again.  The rules and silences are read
\* from the file; lastTriggered is kept nowhere.
Restart ==
    /\ changes < MaxChanges /\ changes' = changes + 1
    /\ age' = [r \in Rule |-> [h \in Host |-> Cooldown]]
    /\ since' = [e \in Eval |-> [r \in Rule |-> [h \in Host |-> Cooldown]]]
    /\ ev' = [e \in Eval |-> Idle]
    /\ quiet' = [e \in Eval |-> NoQuiet]
    /\ UNCHANGED <<rules, silenced>>

Step(e) == \/ \E r \in Rule : SkipRule(e, r) \/ TakeRule(e, r)
           \/ CheckWildcard(e) \/ Suppress(e) \/ PassCooldown(e)
           \/ MarkTriggered(e) \/ DispatchRule(e) \/ Finish(e)

Next ==
    \/ Tick \/ Admin \/ Restart
    \/ \E e \in Eval : Step(e) \/ \E h \in Host, p \in Payloads : EvaluateRules(e, h, p)

Spec == Init /\ [][Next]_vars

\* Handlers run to their end, and time passes.
FairSpec == Spec /\ WF_vars(Tick) /\ \A e \in Eval : WF_vars(Step(e))

-----------------------------------------------------------------------------
(* Properties.                                                             *)

AtRule  == {"taken", "unsilenced", "passed", "triggered"}

RuleValue ==
    {Absent, Deleted} \cup [state : {"active"}, enabled : BOOLEAN, condition : Conditions]

Evaluation ==
    {Idle}
    \cup [pc : {"next"}, host : Host, metrics : Payloads,
          seen : [Rule -> SUBSET RuleValue], todo : SUBSET Rule]
    \cup [pc : AtRule, host : Host, metrics : Payloads,
          seen : [Rule -> SUBSET RuleValue], todo : SUBSET Rule, rule : Rule]

TypeOK ==
    /\ rules \in [Rule -> RuleValue]
    /\ silenced \in [Rule -> [Host \cup {Any} -> 0..MaxSilence]]
    /\ age \in [Rule -> [Host -> 0..Cooldown]]
    /\ since \in [Eval -> [Rule -> [Host -> 0..Cooldown]]]
    /\ changes \in 0..MaxChanges
    /\ ev \in [Eval -> Evaluation]

\* Flood control (service.go 98-111) as far as it goes: two alerts of one
\* rule for one host less than a cooldown apart come from evaluations that
\* overlap.  Evaluations that do not overlap could have used the same slot.
FloodControl ==
    [][\A e \in Eval : ev[e].pc = "passed" /\ ev'[e].pc = "triggered"
          => since[e][ev[e].rule][ev[e].host] = Cooldown]_vars

\* A rule that was disabled all the while a post was evaluated, or one of
\* whose silences, for the host or for all hosts, was in force all the while,
\* is not reported for that post (service.go 57, 65-76), whatever is done to
\* the rules meanwhile.
QuietIsNotReported ==
    \A e \in Eval : ev[e].pc \in {"passed", "triggered"}
        => /\ ev[e].rule \notin quiet[e].off
           /\ \A x \in Host \cup {Any} : <<ev[e].rule, x>> \notin quiet[e].muted

\* An alert is not raised once and then forgotten: as long as posts that
\* cross the threshold keep coming, an unsilenced rule is reported again.
ReportedAgain ==
    \A r \in Rule, h \in Host, c \in Conditions :
        /\ <>[](/\ Active(r) /\ rules[r].enabled /\ rules[r].condition = c
                /\ Matches(c, h) /\ ~Mutes(<<r, h>>) /\ ~Mutes(<<r, Any>>))
        /\ []<>(\E e \in Eval : /\ ev[e].pc = "next" /\ r \in ev[e].todo /\ ev[e].host = h
                                /\ Fires(rules[r], e))
        => []<>(\E e \in Eval : ev[e].pc = "triggered" /\ ev[e].rule = r /\ ev[e].host = h)

\* "1 Minute Rate Limit" (service.go 49): a rule is not reported for a host
\* twice within a minute.
RateLimit ==
    [][\A e \in Eval : ev[e].pc = "passed" /\ ev'[e].pc = "triggered"
          => age[ev[e].rule][ev[e].host] = Cooldown]_vars
=============================================================================
