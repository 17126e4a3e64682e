------------------------- MODULE AlertEngine_proofs -------------------------
(***************************************************************************)
(* Proofs about AlertEngine, for any numbers of evaluations, rules and     *)
(* hosts, and any cooldown: the types, flood control, and that rules which *)
(* are off or silenced are not reported.                                   *)
(*                                                                         *)
(* An evaluation looks at the silences and at lastTriggered early and acts *)
(* late.  What it has looked at is carried to the later steps by Passed    *)
(* and by Cleared; SinceAge and Quiet connect the history variables with   *)
(* what the code can see.                                                  *)
(***************************************************************************)
EXTENDS AlertEngine, TLAPS

\* The rule was triggered for the host by anybody at most as long ago as by e.
SinceAge ==
    \A e \in Eval, r \in Rule, h \in Host : age[r][h] <= since[e][r][h]

\* What is about to be reported was last reported by e a cooldown ago.
Passed ==
    \A e \in Eval : ev[e].pc = "passed" => since[e][ev[e].rule][ev[e].host] = Cooldown

FloodInv == TypeOK /\ SinceAge /\ Passed

\* What was off all the while is off in every copy the evaluation may meet.
Off ==
    \A e \in Eval : ev[e].pc # "idle" =>
        \A r \in quiet[e].off : \A v \in ev[e].seen[r] : v.state = "active" => ~v.enabled

\* What was silenced all the while is silenced now, for the host or for all.
Mute ==
    \A e \in Eval : \A m \in quiet[e].muted :
        ev[e].pc # "idle" /\ m[2] \in {ev[e].host, Any} /\ silenced[m[1]][m[2]] > 0

\* An evaluation that is past a check found nothing there that lasts.
Cleared ==
    \A e \in Eval :
        /\ ev[e].pc \in AtRule => /\ ev[e].rule \notin quiet[e].off
                                  /\ <<ev[e].rule, ev[e].host>> \notin quiet[e].muted
        /\ ev[e].pc \in AtRule \ {"taken"} => <<ev[e].rule, Any>> \notin quiet[e].muted

QuietTypes ==
    quiet \in [Eval -> [off : SUBSET Rule, muted : SUBSET (Rule \X (Host \cup {Any}))]]

QuietParts == QuietTypes /\ Off /\ Mute /\ Cleared
-----------------------------------------------------------------------------
(* Types.                                                                  *)

\* The steps of an evaluation stay within the records of evaluations.
LEMMA EvaluationFields ==
    ASSUME TypeOK, NEW e \in Eval
    PROVE  /\ ev[e].pc \in {"idle", "next"} \cup AtRule
           /\ ev[e].pc # "idle" =>
                 /\ ev[e].host \in Host /\ ev[e].metrics \in Payloads
                 /\ ev[e].seen \in [Rule -> SUBSET RuleValue] /\ ev[e].todo \subseteq Rule
                 /\ NextRule(e) \in Evaluation
           /\ ev[e].pc \in AtRule =>
                 /\ ev[e].rule \in Rule
                 /\ \A p \in AtRule : [ev[e] EXCEPT !.pc = p] \in Evaluation
  <1>1. ev[e] \in Evaluation
    BY DEF TypeOK
  <1>2. CASE ev[e] = Idle
    BY <1>2 DEF Idle, AtRule
  <1>3. CASE ev[e].pc # "idle"
    <2>1. /\ ev[e].pc \in {"next"} \cup AtRule
          /\ ev[e].host \in Host /\ ev[e].metrics \in Payloads
          /\ ev[e].seen \in [Rule -> SUBSET RuleValue] /\ ev[e].todo \in SUBSET Rule
      BY <1>1, <1>3 DEF Evaluation, Idle
    <2>2. NextRule(e) \in Evaluation
      BY <2>1 DEF NextRule, Evaluation
    <2>3. ASSUME ev[e].pc \in AtRule
          PROVE  /\ ev[e].rule \in Rule
                 /\ \A p \in AtRule : [ev[e] EXCEPT !.pc = p] \in Evaluation
      BY <1>1, <2>3 DEF Evaluation, AtRule, Idle
    <2> QED BY <2>1, <2>2, <2>3
  <1> QED BY <1>1, <1>2, <1>3 DEF Evaluation, AtRule, Idle

\* A change of rules only extends what running evaluations may meet.
LEMMA ChangeTypes ==
    ASSUME TypeOK, rules' \in [Rule -> RuleValue], Change
    PROVE  /\ ev' \in [Eval -> Evaluation] /\ age' = age /\ since' = since
           /\ changes' \in 0..MaxChanges
  <1>1. changes' \in 0..MaxChanges
    BY CooldownAssumption DEF Change, TypeOK
  <1>2. ASSUME NEW e \in Eval PROVE ev'[e] \in Evaluation
    <2>1. CASE ev[e].pc = "idle"
      BY <2>1 DEF Change, Evaluation
    <2>2. CASE ev[e].pc # "idle"
      <3> DEFINE new == [r \in Rule |->
                           IF rules'[r].state = "active" THEN ev[e].seen[r] \cup {rules'[r]}
                           ELSE ev[e].seen[r]]
      <3>1. ev'[e] = [ev[e] EXCEPT !.seen = new]
        BY <2>2 DEF Change, TypeOK, Evaluation, Idle
      <3>2. new \in [Rule -> SUBSET RuleValue]
        BY <2>2, EvaluationFields
      <3> HIDE DEF new
      <3> QED BY <2>2, <3>1, <3>2 DEF TypeOK, Evaluation, Idle
    <2> QED BY <2>1, <2>2
  <1> QED BY <1>1, <1>2 DEF Change

LEMMA ActiveRule ==
    ASSUME TypeOK, NEW r \in Rule, Active(r)
    PROVE  rules[r] \in [state : {"active"}, enabled : BOOLEAN, condition : Conditions]
  BY DEF TypeOK, RuleValue, Active, Absent, Deleted

LEMMA InitTypes == Init => TypeOK
  BY CooldownAssumption DEF Init, TypeOK, RuleValue, Evaluation, Absent

\* Setting one entry of ev to an evaluation keeps the type.
LEMMA NextTypes ==
    ASSUME TypeOK, Next
    PROVE  TypeOK'
  <1> USE CooldownAssumption
  <1>1. CASE Tick
    BY <1>1 DEF Tick, TypeOK, Older, Shorter
  <1>2. CASE Restart
    <2>1. ev' \in [Eval -> Evaluation]
      BY <1>2 DEF Restart, Evaluation
    <2>2. age' \in [Rule -> [Host -> 0..Cooldown]] /\ since' \in [Eval -> [Rule -> [Host -> 0..Cooldown]]]
      BY <1>2 DEF Restart
    <2>3. changes' \in 0..MaxChanges
      BY <1>2 DEF Restart, TypeOK
    <2> QED BY <1>2, <2>1, <2>2, <2>3 DEF Restart, TypeOK
  <1>3. ASSUME NEW r \in Rule, NEW c \in Conditions,
               HandleCreateAlertRule(r, c) \/ HandleUpdateAlertRule(r, c)
        PROVE  TypeOK'
    <2>1. /\ [state |-> "active", enabled |-> TRUE, condition |-> c] \in RuleValue
          /\ Active(r) => [rules[r] EXCEPT !.condition = c] \in RuleValue
      BY ActiveRule DEF RuleValue
    <2>2. rules' \in [Rule -> RuleValue] /\ UNCHANGED silenced /\ Change
      BY <1>3, <2>1 DEF HandleCreateAlertRule, HandleUpdateAlertRule, TypeOK
    <2> QED BY <2>2, ChangeTypes DEF TypeOK
  <1>4. ASSUME NEW r \in Rule, HandleToggleAlertRule(r) \/ HandleDeleteAlertRule(r)
        PROVE  TypeOK'
    <2>1. Deleted \in RuleValue /\ (Active(r) => [rules[r] EXCEPT !.enabled = ~@] \in RuleValue)
      BY ActiveRule DEF RuleValue
    <2>2. rules' \in [Rule -> RuleValue] /\ UNCHANGED silenced /\ Change
      BY <1>4, <2>1 DEF HandleToggleAlertRule, HandleDeleteAlertRule, TypeOK
    <2> QED BY <2>2, ChangeTypes DEF TypeOK
  <1>5. ASSUME NEW r \in Rule, NEW x \in Host \cup {Any}, NEW d \in 0..MaxSilence,
               HandleUnsilenceAlert(r, x) \/ HandleSilenceAlert(r, x, d)
        PROVE  TypeOK'
    <2>1. PICK k \in 0..MaxSilence : silenced' = [silenced EXCEPT ![r][x] = k]
      BY <1>5 DEF HandleUnsilenceAlert, HandleSilenceAlert
    <2>2. silenced' \in [Rule -> [Host \cup {Any} -> 0..MaxSilence]]
      BY <2>1 DEF TypeOK
    <2>3. rules' \in [Rule -> RuleValue] /\ Change
      BY <1>5 DEF HandleUnsilenceAlert, HandleSilenceAlert, TypeOK
    <2> QED BY <2>2, <2>3, ChangeTypes DEF TypeOK
  <1>6. ASSUME NEW e \in Eval, NEW h \in Host, NEW p \in Payloads, EvaluateRules(e, h, p)
        PROVE  TypeOK'
    <2>1. [pc |-> "next", host |-> h, metrics |-> p, seen |-> [r \in Rule |-> {rules[r]}],
           todo |-> {r \in Rule : Active(r)}] \in Evaluation
      BY DEF Evaluation, TypeOK
    <2> QED BY <1>6, <2>1 DEF EvaluateRules, TypeOK
  <1>7. ASSUME NEW e \in Eval, NEW r \in Rule, SkipRule(e, r)
        PROVE  TypeOK'
    <2>1. ev[e] \in Evaluation /\ ev[e].pc = "next"
      BY <1>7 DEF SkipRule, TypeOK
    <2>2. [ev[e] EXCEPT !.todo = @ \ {r}] \in Evaluation
      BY <2>1 DEF Evaluation, Idle, AtRule
    <2> QED BY <1>7, <2>2 DEF SkipRule, TypeOK
  <1>8. ASSUME NEW e \in Eval, NEW r \in Rule, TakeRule(e, r)
        PROVE  TypeOK'
    <2> DEFINE new == [pc |-> "taken", host |-> ev[e].host, metrics |-> ev[e].metrics,
                       seen |-> ev[e].seen, todo |-> ev[e].todo \ {r}, rule |-> r]
    <2>1. new \in Evaluation
      <3>1. ev[e].pc # "idle"
        BY <1>8 DEF TakeRule
      <3> QED BY <3>1, EvaluationFields DEF Evaluation, AtRule
    <2>2. ev' = [ev EXCEPT ![e] = new]
      BY <1>8 DEF TakeRule, TypeOK
    <2> HIDE DEF new
    <2> QED BY <1>8, <2>1, <2>2 DEF TakeRule, TypeOK
  <1>9. ASSUME NEW e \in Eval, CheckWildcard(e) \/ Suppress(e) \/ PassCooldown(e) \/ DispatchRule(e)
        PROVE  TypeOK'
    <2>1. NextRule(e) \in Evaluation /\ \A p \in AtRule : [ev[e] EXCEPT !.pc = p] \in Evaluation
      <3>1. ev[e].pc \in AtRule
        BY <1>9 DEF CheckWildcard, Suppress, PassCooldown, DispatchRule, AtRule
      <3> QED BY <3>1, EvaluationFields DEF AtRule
    <2>2. ev' \in [Eval -> Evaluation]
      BY <1>9, <2>1 DEF CheckWildcard, Suppress, PassCooldown, DispatchRule, TypeOK, AtRule
    <2> QED BY <1>9, <2>2 DEF CheckWildcard, Suppress, PassCooldown, DispatchRule, TypeOK
  <1>10. ASSUME NEW e \in Eval, MarkTriggered(e)
         PROVE  TypeOK'
    <2>1. ev[e].rule \in Rule /\ ev[e].host \in Host /\ [ev[e] EXCEPT !.pc = "triggered"] \in Evaluation
      <3>1. ev[e].pc \in AtRule
        BY <1>10 DEF MarkTriggered, AtRule
      <3> QED BY <3>1, EvaluationFields DEF AtRule
    <2>2. ev' \in [Eval -> Evaluation]
      BY <1>10, <2>1 DEF MarkTriggered, TypeOK
    <2>3. age' \in [Rule -> [Host -> 0..Cooldown]]
      BY <1>10, <2>1 DEF MarkTriggered, TypeOK
    <2>4. since' \in [Eval -> [Rule -> [Host -> 0..Cooldown]]]
      BY <1>10, <2>1 DEF MarkTriggered, TypeOK
    <2> QED BY <1>10, <2>2, <2>3, <2>4 DEF MarkTriggered, TypeOK
  <1>11. ASSUME NEW e \in Eval, Finish(e)
         PROVE  TypeOK'
    BY <1>11 DEF Finish, TypeOK, Evaluation
  <1> QED BY <1>1, <1>2, <1>3, <1>4, <1>5, <1>6, <1>7, <1>8, <1>9, <1>10, <1>11
        DEF Next, Admin, Step

LEMMA StutterTypes == TypeOK /\ UNCHANGED vars => TypeOK'
  BY DEF TypeOK, vars

\* Rules, silences, ages and evaluations keep their types.
THEOREM Typed == Spec => []TypeOK
  BY InitTypes, NextTypes, StutterTypes, PTL DEF Spec
-----------------------------------------------------------------------------
(* Flood control.                                                          *)

LEMMA InitFlood == Init => SinceAge /\ Passed
  BY CooldownAssumption DEF Init, SinceAge, Passed, Idle

\* The steps that change neither age nor since, and send no evaluation to
\* "passed".
LEMMA FloodFrame ==
    ASSUME SinceAge, Passed, age' = age, since' = since,
           \A e \in Eval : ev'[e].pc = "passed" =>
               ev[e].pc = "passed" /\ ev'[e].rule = ev[e].rule /\ ev'[e].host = ev[e].host
    PROVE  SinceAge' /\ Passed'
  BY DEF SinceAge, Passed

LEMMA NextFlood ==
    ASSUME TypeOK, SinceAge, Passed, Next
    PROVE  SinceAge' /\ Passed'
  <1> USE CooldownAssumption
  <1>1. CASE Tick
    <2>1. SinceAge'
      <3> SUFFICES ASSUME NEW e \in Eval, NEW r \in Rule, NEW h \in Host
                   PROVE  age'[r][h] <= since'[e][r][h]
        BY DEF SinceAge
      <3>1. age'[r][h] = Older(age[r][h]) /\ since'[e][r][h] = Older(since[e][r][h])
        BY <1>1 DEF Tick
      <3>2. age[r][h] \in 0..Cooldown /\ since[e][r][h] \in 0..Cooldown /\ age[r][h] <= since[e][r][h]
        BY DEF TypeOK, SinceAge
      <3> QED BY <3>1, <3>2 DEF Older
    <2>2. Passed'
      <3> SUFFICES ASSUME NEW e \in Eval, ev'[e].pc = "passed"
                   PROVE  since'[e][ev'[e].rule][ev'[e].host] = Cooldown
        BY DEF Passed
      <3>1. ev' = ev
        BY <1>1 DEF Tick
      <3>2. ev[e].rule \in Rule /\ ev[e].host \in Host
        BY <3>1, EvaluationFields DEF AtRule
      <3>3. since[e][ev[e].rule][ev[e].host] = Cooldown
        BY <3>1 DEF Passed
      <3> QED BY <1>1, <3>1, <3>2, <3>3 DEF Tick, Older
    <2> QED BY <2>1, <2>2
  <1>2. CASE Restart
    BY <1>2 DEF Restart, SinceAge, Passed, Idle
  <1>3. ASSUME Change
        PROVE  SinceAge' /\ Passed'
    <2>1. ASSUME NEW e \in Eval, ev'[e].pc = "passed"
          PROVE  ev[e].pc = "passed" /\ ev'[e].rule = ev[e].rule /\ ev'[e].host = ev[e].host
      <3>1. ev[e].pc # "idle"
        BY <1>3, <2>1 DEF Change, Idle
      <3> DEFINE new == [r \in Rule |->
                           IF rules'[r].state = "active" THEN ev[e].seen[r] \cup {rules'[r]}
                           ELSE ev[e].seen[r]]
      <3>2. ev'[e] = [ev[e] EXCEPT !.seen = new]
        BY <1>3, <3>1 DEF Change, TypeOK, Evaluation, Idle
      <3> HIDE DEF new
      <3> QED BY <2>1, <3>1, <3>2 DEF TypeOK, Evaluation, Idle, AtRule
    <2> QED BY <1>3, <2>1, FloodFrame DEF Change
  <1>4. CASE Admin
    BY <1>3, <1>4 DEF Admin, HandleCreateAlertRule, HandleUpdateAlertRule, HandleToggleAlertRule,
                      HandleDeleteAlertRule, HandleSilenceAlert, HandleUnsilenceAlert
  <1>5. ASSUME NEW e \in Eval, NEW h \in Host, NEW p \in Payloads, EvaluateRules(e, h, p)
        PROVE  SinceAge' /\ Passed'
    BY <1>5, FloodFrame DEF EvaluateRules, TypeOK
  <1>6. ASSUME NEW e \in Eval, NEW r \in Rule, SkipRule(e, r) \/ TakeRule(e, r)
        PROVE  SinceAge' /\ Passed'
    <2>1. ev'[e].pc # "passed"
      <3>1. CASE SkipRule(e, r)
        BY <3>1 DEF SkipRule, TypeOK, Evaluation, Idle, AtRule
      <3>2. CASE TakeRule(e, r)
        BY <3>2 DEF TakeRule, TypeOK
      <3> QED BY <1>6, <3>1, <3>2
    <2>2. \A f \in Eval \ {e} : ev'[f] = ev[f]
      BY <1>6 DEF SkipRule, TakeRule, TypeOK
    <2> QED BY <1>6, <2>1, <2>2, FloodFrame DEF SkipRule, TakeRule
  <1>7. ASSUME NEW e \in Eval, CheckWildcard(e) \/ Suppress(e) \/ DispatchRule(e) \/ Finish(e)
        PROVE  SinceAge' /\ Passed'
    <2>1. ev'[e].pc # "passed"
      BY <1>7 DEF CheckWildcard, Suppress, DispatchRule, Finish, NextRule, TypeOK, Evaluation, Idle, AtRule
    <2>2. \A f \in Eval \ {e} : ev'[f] = ev[f]
      BY <1>7 DEF CheckWildcard, Suppress, DispatchRule, Finish, TypeOK
    <2> QED BY <1>7, <2>1, <2>2, FloodFrame DEF CheckWildcard, Suppress, DispatchRule, Finish
  <1>8. ASSUME NEW e \in Eval, PassCooldown(e)
        PROVE  SinceAge' /\ Passed'
    <2>1. /\ ev'[e].rule = ev[e].rule /\ ev'[e].host = ev[e].host
          /\ ev[e].rule \in Rule /\ ev[e].host \in Host
      <3>1. ev[e].pc \in AtRule
        BY <1>8 DEF PassCooldown, AtRule
      <3>2. ev[e].rule \in Rule /\ ev[e].host \in Host
        BY <3>1, EvaluationFields DEF AtRule
      <3> QED BY <1>8, <3>2 DEF PassCooldown, TypeOK
    <2>2. since[e][ev[e].rule][ev[e].host] = Cooldown
      <3>1. /\ age[ev[e].rule][ev[e].host] = Cooldown
            /\ age[ev[e].rule][ev[e].host] <= since[e][ev[e].rule][ev[e].host]
            /\ since[e][ev[e].rule][ev[e].host] \in 0..Cooldown
        BY <1>8, <2>1 DEF PassCooldown, SinceAge, TypeOK
      <3> QED BY <3>1
    <2>3. \A f \in Eval \ {e} : ev'[f] = ev[f]
      BY <1>8 DEF PassCooldown, TypeOK
    <2> QED BY <1>8, <2>1, <2>2, <2>3 DEF PassCooldown, SinceAge, Passed
  <1>9. ASSUME NEW e \in Eval, MarkTriggered(e)
        PROVE  SinceAge' /\ Passed'
    <2>1. ev[e].rule \in Rule /\ ev[e].host \in Host
      <3>1. ev[e].pc \in AtRule
        BY <1>9 DEF MarkTriggered, AtRule
      <3> QED BY <3>1, EvaluationFields DEF AtRule
    <2>2. SinceAge'
      <3> SUFFICES ASSUME NEW f \in Eval, NEW r \in Rule, NEW h \in Host
                   PROVE  age'[r][h] <= since'[f][r][h]
        BY DEF SinceAge
      <3>1. /\ age' = [age EXCEPT ![ev[e].rule][ev[e].host] = 0]
            /\ since' = [since EXCEPT ![e][ev[e].rule][ev[e].host] = 0]
        BY <1>9 DEF MarkTriggered
      <3>2. age[r][h] <= since[f][r][h] /\ age[r][h] \in 0..Cooldown /\ since[f][r][h] \in 0..Cooldown
        BY DEF SinceAge, TypeOK
      <3>3. age'[r][h] = IF r = ev[e].rule /\ h = ev[e].host THEN 0 ELSE age[r][h]
        BY <2>1, <3>1 DEF TypeOK
      <3>4. since'[f][r][h] = IF f = e /\ r = ev[e].rule /\ h = ev[e].host THEN 0 ELSE since[f][r][h]
        BY <2>1, <3>1 DEF TypeOK
      <3> QED BY <3>2, <3>3, <3>4
    <2>3. Passed'
      <3> SUFFICES ASSUME NEW f \in Eval, ev'[f].pc = "passed"
                   PROVE  since'[f][ev'[f].rule][ev'[f].host] = Cooldown
        BY DEF Passed
      <3>1. f # e
        BY <1>9 DEF MarkTriggered, TypeOK, Evaluation, Idle, AtRule
      <3>2. ev'[f] = ev[f] /\ since'[f] = since[f]
        BY <1>9, <3>1 DEF MarkTriggered, TypeOK
      <3> QED BY <3>2 DEF Passed
    <2> QED BY <2>2, <2>3
  <1> QED BY <1>1, <1>2, <1>4, <1>5, <1>6, <1>7, <1>8, <1>9 DEF Next, Step

\* Two reports of a rule for a host that are less than a cooldown apart come
\* from evaluations that overlap.
THEOREM FloodControlled == Spec => FloodControl
  <1>1. Init => FloodInv
    BY InitTypes, InitFlood DEF FloodInv
  <1>2. FloodInv /\ [Next]_vars => FloodInv'
    <2>1. CASE UNCHANGED vars
      BY <2>1 DEF FloodInv, TypeOK, SinceAge, Passed, vars
    <2> QED BY <2>1, NextTypes, NextFlood DEF FloodInv
  <1>3. FloodInv /\ [Next]_vars =>
           [\A e \in Eval : ev[e].pc = "passed" /\ ev'[e].pc = "triggered"
               => since[e][ev[e].rule][ev[e].host] = Cooldown]_vars
    BY DEF FloodInv, Passed
  <1> QED BY <1>1, <1>2, <1>3, PTL DEF Spec, FloodControl
-----------------------------------------------------------------------------
(* Rules that are off or silenced.                                         *)

LEMMA InitQuiet == Init => QuietParts
  BY DEF Init, QuietParts, QuietTypes, Off, Mute, Cleared, NoQuiet, Idle, AtRule

\* Only the silences run out, or are changed: what StillQuiet keeps is right.
LEMMA StillTypes ==
    ASSUME QuietTypes, StillQuiet
    PROVE  /\ QuietTypes'
           /\ \A e \in Eval :
                 /\ quiet'[e].off \subseteq quiet[e].off
                 /\ quiet'[e].muted \subseteq quiet[e].muted
                 /\ \A r \in quiet'[e].off : rules'[r].state = "active" => ~rules'[r].enabled
                 /\ \A m \in quiet'[e].muted : silenced'[m[1]][m[2]] > 0
  BY DEF QuietTypes, StillQuiet, Mutes

\* What remains quiet while evaluations stand still, except that they may
\* meet rules as they are now.
LEMMA StillParts ==
    ASSUME TypeOK, QuietParts, StillQuiet,
           \A e \in Eval :
              /\ ev'[e].pc = ev[e].pc
              /\ ev[e].pc # "idle" =>
                    /\ ev'[e].host = ev[e].host
                    /\ \A r \in Rule : \A v \in ev'[e].seen[r] :
                          v \in ev[e].seen[r] \/ v = rules'[r]
              /\ ev[e].pc \in AtRule => ev'[e].rule = ev[e].rule
    PROVE  QuietParts'
  <1>1. QuietTypes'
    BY StillTypes DEF QuietParts
  <1>2. Off'
    <2> SUFFICES ASSUME NEW e \in Eval, ev'[e].pc # "idle", NEW r \in quiet'[e].off,
                        NEW v \in ev'[e].seen[r], v.state = "active"
                 PROVE  ~v.enabled
      BY DEF Off
    <2>1. r \in Rule /\ r \in quiet[e].off /\ (rules'[r].state = "active" => ~rules'[r].enabled)
      BY StillTypes DEF QuietParts, QuietTypes
    <2>2. ev[e].pc # "idle" /\ (v \in ev[e].seen[r] \/ v = rules'[r])
      BY <2>1
    <2> QED BY <2>1, <2>2 DEF QuietParts, Off
  <1>3. Mute'
    BY StillTypes DEF QuietParts, Mute
  <1>4. Cleared'
    <2> SUFFICES ASSUME NEW e \in Eval, ev'[e].pc \in AtRule
                 PROVE  /\ ev'[e].rule \notin quiet'[e].off
                        /\ <<ev'[e].rule, ev'[e].host>> \notin quiet'[e].muted
                        /\ ev'[e].pc \in AtRule \ {"taken"} => <<ev'[e].rule, Any>> \notin quiet'[e].muted
      BY DEF Cleared
    <2>1. /\ ev[e].pc \in AtRule /\ ev'[e].pc = ev[e].pc
          /\ ev'[e].rule = ev[e].rule /\ ev'[e].host = ev[e].host
      BY DEF AtRule
    <2> QED BY <2>1, StillTypes DEF QuietParts, Cleared
  <1> QED BY <1>1, <1>2, <1>3, <1>4 DEF QuietParts

\* A step of one evaluation that keeps its copies, and has found nothing.
LEMMA OneParts ==
    ASSUME TypeOK, QuietParts, NEW e \in Eval, quiet' = quiet, silenced' = silenced,
           \A f \in Eval \ {e} : ev'[f] = ev[f],
           ev[e].pc # "idle", ev'[e].pc # "idle",
           ev'[e].host = ev[e].host, ev'[e].seen = ev[e].seen,
           ev'[e].pc \in AtRule =>
              /\ ev'[e].rule \notin quiet[e].off
              /\ <<ev'[e].rule, ev[e].host>> \notin quiet[e].muted
              /\ ev'[e].pc # "taken" => <<ev'[e].rule, Any>> \notin quiet[e].muted
    PROVE  QuietParts'
  <1>1. QuietTypes' /\ Mute'
    BY DEF QuietParts, QuietTypes, Mute
  <1>2. Off'
    BY DEF QuietParts, Off
  <1>3. Cleared'
    <2> SUFFICES ASSUME NEW f \in Eval
                 PROVE  /\ ev'[f].pc \in AtRule =>
                              /\ ev'[f].rule \notin quiet'[f].off
                              /\ <<ev'[f].rule, ev'[f].host>> \notin quiet'[f].muted
                        /\ ev'[f].pc \in AtRule \ {"taken"} => <<ev'[f].rule, Any>> \notin quiet'[f].muted
      BY DEF Cleared
    <2>1. CASE f = e
      BY <2>1
    <2>2. CASE f # e
      BY <2>2 DEF QuietParts, Cleared
    <2> QED BY <2>1, <2>2
  <1> QED BY <1>1, <1>2, <1>3 DEF QuietParts

LEMMA NextQuiet ==
    ASSUME TypeOK, QuietParts, Next
    PROVE  QuietParts'
  <1>1. CASE Tick
    BY <1>1, StillParts DEF Tick
  <1>2. CASE Restart
    BY <1>2 DEF Restart, QuietParts, QuietTypes, Off, Mute, Cleared, NoQuiet, Idle, AtRule
  <1>3. CASE Admin
    <2>1. Change
      BY <1>3 DEF Admin, HandleCreateAlertRule, HandleUpdateAlertRule, HandleToggleAlertRule,
                  HandleDeleteAlertRule, HandleSilenceAlert, HandleUnsilenceAlert
    <2>2. ASSUME NEW e \in Eval
          PROVE  /\ ev'[e].pc = ev[e].pc
                 /\ ev[e].pc # "idle" =>
                       /\ ev'[e].host = ev[e].host
                       /\ \A r \in Rule : \A v \in ev'[e].seen[r] :
                             v \in ev[e].seen[r] \/ v = rules'[r]
                 /\ ev[e].pc \in AtRule => ev'[e].rule = ev[e].rule
      <3>1. CASE ev[e].pc = "idle"
        BY <2>1, <3>1 DEF Change, Idle, AtRule
      <3>2. CASE ev[e].pc # "idle"
        <4> DEFINE new == [r \in Rule |->
                             IF rules'[r].state = "active" THEN ev[e].seen[r] \cup {rules'[r]}
                             ELSE ev[e].seen[r]]
        <4>1. ev'[e] = [ev[e] EXCEPT !.seen = new]
          BY <2>1, <3>2 DEF Change, TypeOK, Evaluation, Idle
        <4>2. \A r \in Rule : \A v \in new[r] : v \in ev[e].seen[r] \/ v = rules'[r]
          OBVIOUS
        <4> HIDE DEF new
        <4>3. /\ ev'[e].pc = ev[e].pc /\ ev'[e].host = ev[e].host /\ ev'[e].seen = new
              /\ ev[e].pc \in AtRule => ev'[e].rule = ev[e].rule
          BY <3>2, <4>1 DEF TypeOK, Evaluation, Idle, AtRule
        <4> QED BY <4>2, <4>3
      <3> QED BY <3>1, <3>2
    <2>3. StillQuiet
      BY <2>1 DEF Change
    <2> QED BY <2>2, <2>3, StillParts
  <1>4. ASSUME NEW e \in Eval, NEW h \in Host, NEW p \in Payloads, EvaluateRules(e, h, p)
        PROVE  QuietParts'
    <2> DEFINE off   == {r \in Rule : Active(r) => ~rules[r].enabled}
               muted == {m \in Rule \X {h, Any} : Mutes(m)}
    <2>1. /\ ev'[e].pc = "next" /\ ev'[e].host = h /\ ev'[e].seen = [r \in Rule |-> {rules[r]}]
          /\ \A f \in Eval \ {e} : ev'[f] = ev[f]
      BY <1>4 DEF EvaluateRules, TypeOK
    <2>2. /\ quiet'[e].off = off /\ quiet'[e].muted = muted
          /\ \A f \in Eval \ {e} : quiet'[f] = quiet[f]
          /\ QuietTypes'
      BY <1>4 DEF EvaluateRules, QuietParts, QuietTypes
    <2>3. Off'
      BY <2>1, <2>2 DEF QuietParts, QuietTypes, Off, Active
    <2>4. Mute'
      BY <1>4, <2>1, <2>2 DEF EvaluateRules, QuietParts, Mute, Mutes
    <2>5. Cleared'
      BY <2>1, <2>2 DEF QuietParts, Cleared, AtRule
    <2> QED BY <2>2, <2>3, <2>4, <2>5 DEF QuietParts
  <1>5. ASSUME NEW e \in Eval, NEW r \in Rule, SkipRule(e, r)
        PROVE  QuietParts'
    <2>1. /\ ev[e].pc = "next" /\ ev'[e].pc = "next" /\ ev'[e].host = ev[e].host
          /\ ev'[e].seen = ev[e].seen /\ \A f \in Eval \ {e} : ev'[f] = ev[f]
      BY <1>5 DEF SkipRule, TypeOK, Evaluation, Idle, AtRule
    <2> QED BY <1>5, <2>1, OneParts DEF SkipRule, AtRule
  <1>6. ASSUME NEW e \in Eval, NEW r \in Rule, TakeRule(e, r)
        PROVE  QuietParts'
    <2>1. /\ ev[e].pc = "next" /\ ev'[e].pc = "taken" /\ ev'[e].host = ev[e].host
          /\ ev'[e].seen = ev[e].seen /\ ev'[e].rule = r /\ \A f \in Eval \ {e} : ev'[f] = ev[f]
      BY <1>6 DEF TakeRule, TypeOK
    <2>2. r \notin quiet[e].off
      BY <1>6, <2>1 DEF TakeRule, Copies, Fires, QuietParts, Off
    <2>3. <<r, ev[e].host>> \notin quiet[e].muted
      BY <1>6, <2>1, EvaluationFields DEF TakeRule, QuietParts, Mute, TypeOK
    <2> QED BY <1>6, <2>1, <2>2, <2>3, OneParts DEF TakeRule
  <1>7. ASSUME NEW e \in Eval, CheckWildcard(e)
        PROVE  QuietParts'
    <2>1. /\ ev[e].pc = "taken" /\ ev'[e].pc \in {"next", "unsilenced"}
          /\ ev'[e].host = ev[e].host /\ ev'[e].seen = ev[e].seen
          /\ ev'[e].pc = "unsilenced" => ev'[e].rule = ev[e].rule /\ ~(silenced[ev[e].rule][Any] > 0)
          /\ \A f \in Eval \ {e} : ev'[f] = ev[f]
      <3>1. ev[e].pc = "taken" /\ ev[e].rule \in Rule /\ \A f \in Eval \ {e} : ev'[f] = ev[f]
        BY <1>7, EvaluationFields DEF CheckWildcard, TypeOK, AtRule
      <3>2. CASE silenced[ev[e].rule][Any] > 0
        BY <1>7, <3>1, <3>2 DEF CheckWildcard, NextRule, TypeOK
      <3>3. CASE ~(silenced[ev[e].rule][Any] > 0)
        BY <1>7, <3>1, <3>3 DEF CheckWildcard, TypeOK, Evaluation, Idle, AtRule
      <3> QED BY <3>1, <3>2, <3>3
    <2>2. ev'[e].pc = "unsilenced" => <<ev[e].rule, Any>> \notin quiet[e].muted
      <3>1. \A m \in quiet[e].muted : silenced[m[1]][m[2]] > 0
        BY DEF QuietParts, Mute
      <3>2. <<ev[e].rule, Any>>[1] = ev[e].rule /\ <<ev[e].rule, Any>>[2] = Any
        OBVIOUS
      <3> QED BY <2>1, <3>1, <3>2
    <2>3. /\ ev[e].rule \notin quiet[e].off
          /\ <<ev[e].rule, ev[e].host>> \notin quiet[e].muted
      BY <2>1 DEF QuietParts, Cleared, AtRule
    <2> QED BY <1>7, <2>1, <2>2, <2>3, OneParts DEF CheckWildcard, AtRule
  <1>8. ASSUME NEW e \in Eval, Suppress(e) \/ DispatchRule(e)
        PROVE  QuietParts'
    <2>1. /\ ev[e].pc # "idle" /\ ev'[e].pc = "next" /\ ev'[e].host = ev[e].host
          /\ ev'[e].seen = ev[e].seen /\ \A f \in Eval \ {e} : ev'[f] = ev[f]
      BY <1>8 DEF Suppress, DispatchRule, NextRule, TypeOK
    <2> QED BY <1>8, <2>1, OneParts DEF Suppress, DispatchRule, AtRule
  <1>9. ASSUME NEW e \in Eval, PassCooldown(e) \/ MarkTriggered(e)
        PROVE  QuietParts'
    <2>1. /\ ev[e].pc \in AtRule \ {"taken"} /\ ev'[e].pc \in AtRule \ {"taken"}
          /\ \E p \in AtRule : ev'[e] = [ev[e] EXCEPT !.pc = p]
          /\ \A f \in Eval \ {e} : ev'[f] = ev[f]
      <3>1. /\ ev[e].pc \in {"unsilenced", "passed"} /\ \A f \in Eval \ {e} : ev'[f] = ev[f]
            /\ \/ ev'[e] = [ev[e] EXCEPT !.pc = "passed"]
               \/ ev'[e] = [ev[e] EXCEPT !.pc = "triggered"]
        BY <1>9 DEF PassCooldown, MarkTriggered, TypeOK
      <3>2. ev'[e].pc \in {"passed", "triggered"}
        BY <3>1 DEF TypeOK, Evaluation, Idle, AtRule
      <3> QED BY <3>1, <3>2 DEF AtRule
    <2>2. /\ ev'[e].host = ev[e].host /\ ev'[e].seen = ev[e].seen /\ ev'[e].rule = ev[e].rule
      BY <2>1 DEF TypeOK, Evaluation, Idle, AtRule
    <2>3. /\ ev[e].rule \notin quiet[e].off
          /\ <<ev[e].rule, ev[e].host>> \notin quiet[e].muted
          /\ <<ev[e].rule, Any>> \notin quiet[e].muted
      BY <2>1 DEF QuietParts, Cleared
    <2>4. ev[e].pc # "idle" /\ ev'[e].pc # "idle"
      BY <2>1 DEF AtRule
    <2> QED BY <1>9, <2>1, <2>2, <2>3, <2>4, OneParts DEF PassCooldown, MarkTriggered
  <1>10. ASSUME NEW e \in Eval, Finish(e)
         PROVE  QuietParts'
    BY <1>10 DEF Finish, QuietParts, QuietTypes, Off, Mute, Cleared, NoQuiet, Idle, AtRule, TypeOK
  <1> QED BY <1>1, <1>2, <1>3, <1>4, <1>5, <1>6, <1>7, <1>8, <1>9, <1>10 DEF Next, Step

\* A rule that is off, or silenced, while a post is evaluated is not reported.
THEOREM QuietKept == Spec => []QuietIsNotReported
  <1>1. Init => TypeOK /\ QuietParts
    BY InitTypes, InitQuiet
  <1>2. TypeOK /\ QuietParts /\ [Next]_vars => (TypeOK /\ QuietParts)'
    <2>1. CASE UNCHANGED vars
      BY <2>1 DEF TypeOK, QuietParts, QuietTypes, Off, Mute, Cleared, vars
    <2> QED BY <2>1, NextTypes, NextQuiet
  <1>3. TypeOK /\ QuietParts => QuietIsNotReported
    BY EvaluationFields, AnyAssumption DEF QuietIsNotReported, QuietParts, Cleared, Mute, AtRule
  <1> QED BY <1>1, <1>2, <1>3, PTL DEF Spec
=============================================================================
