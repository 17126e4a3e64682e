---------------------------- MODULE AtomicConfig ----------------------------
(***************************************************************************)
(* What the server's configuration promises to one administrator at a      *)
(* time: a request changes exactly the entry it names, at one moment, and  *)
(* the rest of the configuration stays as it is; a restart brings back the *)
(* configuration that was stored last, or, when it cannot be read, starts  *)
(* again from the defaults.                                                *)
(*                                                                         *)
(* ConfigStore implements this when requests do not overlap.               *)
(***************************************************************************)
EXTENDS Naturals, Sequences, FiniteSets

CONSTANTS
    Requests,   \* what may be asked for
    Initial,    \* the configurations before the first start
    Defaults,   \* a configuration in which nothing was set
    Unreadable  \* may the stored configuration be found unreadable?

VARIABLES conf,     \* the configuration in force
          durable   \* the configuration last stored

Has(q, id)     == \E i \in DOMAIN q : q[i].id = id
First(q, id)   == CHOOSE i \in DOMAIN q : q[i].id = id /\ \A j \in 1..(i - 1) : q[j].id # id
Rank(K)        == CHOOSE f \in [1..Cardinality(K) -> K] : \A i, j \in DOMAIN f : i < j => f[i] < f[j]
Without(q, id) == LET K == {i \in DOMAIN q : q[i].id # id}
                  IN  [i \in 1..Cardinality(K) |-> q[Rank(K)[i]]]

\* The list each request adds an entry to, or removes one from.
Adds    == [CreateUser |-> "users", CreateGroup |-> "groups", CreateAlertRule |-> "rules",
            CreateChannel |-> "channels", DeleteHost |-> "ignored"]
Removes == [DeleteUser |-> "users", DeleteGroup |-> "groups", DeleteAlertRule |-> "rules",
            DeleteChannel |-> "channels"]
Unique  == {"CreateUser", "DeleteHost"}

\* A new rule is enabled, whatever the request says.
New(r) == IF r.op = "CreateAlertRule" THEN [r.entry EXCEPT !.enabled = TRUE, !.nil = FALSE] ELSE r.entry

(* What request r makes of configuration c: configuration d.               *)

Add(c, d, r) ==
    /\ r.op \in DOMAIN Adds
    /\ r.op \in Unique => ~Has(c.lists[Adds[r.op]], r.id)
    /\ d = [c EXCEPT !.lists[Adds[r.op]] = Append(@, New(r))]

Remove(c, d, r) ==
    /\ r.op \in DOMAIN Removes
    /\ d = [c EXCEPT !.lists[Removes[r.op]] = Without(@, r.id)]

Update(c, d, list, id, field, value) ==
    /\ Has(c.lists[list], id)
    /\ d = [c EXCEPT !.lists[list][First(c.lists[list], id)][field] = value]

ModifyUser(c, d, r) ==
    \/ r.op = "UpdateUser" /\ Update(c, d, "users", r.id, "rights", r.val)
    \/ r.op = "ChangePassword" /\ Update(c, d, "users", r.id, "password", r.val)

ModifyRule(c, d, r) ==
    LET rules == c.lists["rules"]
        rule  == rules[First(rules, r.id)]
        Set(field, value) == Update(c, d, "rules", r.id, field, value)
        Silenced == [rule EXCEPT !.silenced = {r.host}, !.nil = FALSE]
    IN  \/ r.op = "UpdateAlertRule" /\ Set("condition", r.val)
        \/ r.op = "ToggleAlertRule" /\ Set("enabled", ~rule.enabled)
        \/ /\ r.op = "SilenceAlert" /\ Has(rules, r.id) /\ ~rule.nil
           /\ Set("silenced", rule.silenced \cup {r.host})
        \/ /\ r.op = "SilenceAlert" /\ Has(rules, r.id) /\ rule.nil
           /\ d = [c EXCEPT !.lists["rules"][First(rules, r.id)] = Silenced]
        \/ r.op = "UnsilenceAlert" /\ Set("silenced", rule.silenced \ {r.host})

\* The group gets its new hosts; when members are named, exactly they are members.
UpdateGroup(c, d, r) ==
    LET groups == c.lists["groups"]
        users  == c.lists["users"]
        Member(u) == [u EXCEPT !.groups = IF "members" \notin DOMAIN r THEN @
                                          ELSE IF u.id \in r.members THEN @ \cup {r.id}
                                          ELSE @ \ {r.id}]
    IN  /\ r.op = "UpdateGroup"
        /\ Has(groups, r.id)
        /\ d = [c EXCEPT !.lists["groups"][First(groups, r.id)].hosts = r.val,
                         !.lists["users"] = [i \in DOMAIN users |-> Member(users[i])]]

SetScalar(c, d, r) ==
    \/ r.op = "SaveSettings" /\ d = [c EXCEPT !.settings = r.val]
    \/ r.op = "EnableMFA" /\ d = [c EXCEPT !.mfa = TRUE]
    \/ r.op = "DisableMFA" /\ d = [c EXCEPT !.mfa = FALSE]

Register(c, d, r) ==
    /\ r.op = "RegisterAgent"
    /\ c.key /\ d = [c EXCEPT !.secrets = @ \cup {r.host}]

Changes(c, d, r) ==
    \/ Add(c, d, r) \/ Remove(c, d, r) \/ ModifyUser(c, d, r) \/ ModifyRule(c, d, r)
    \/ UpdateGroup(c, d, r) \/ SetScalar(c, d, r) \/ Register(c, d, r)

Change  == \E r \in Requests : Changes(conf, conf', r)
Store   == durable' = conf
Restart == conf' = durable
Forget  == Unreadable /\ conf' = Defaults
\* The start of the server generates the credentials that are missing.
Provision == conf' \in {[conf EXCEPT !.key = TRUE], [conf EXCEPT !.admin = TRUE]}

Init == conf \in Initial /\ durable = conf

Next == \/ Change /\ UNCHANGED durable
        \/ Store /\ UNCHANGED conf
        \/ Restart /\ UNCHANGED durable
        \/ Forget /\ UNCHANGED durable
        \/ Provision /\ UNCHANGED durable

Spec == Init /\ [][Next]_<<conf, durable>>
=============================================================================
