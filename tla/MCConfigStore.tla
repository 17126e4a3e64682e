--------------------------- MODULE MCConfigStore ---------------------------
(* ConfigStore on small instances. *)
EXTENDS ConfigStore

CONSTANTS c1, c2

User(n)    == [id |-> n, rights |-> "r0", password |-> "p0", groups |-> {}]
Group(n)   == [id |-> n, hosts |-> "h0"]
AlertRule  == [id |-> "rule", condition |-> "x0", enabled |-> FALSE, silenced |-> {}, nil |-> TRUE]

\* A file with something in each list.
StoredFile ==
    [NewConfig EXCEPT !.key = TRUE, !.admin = TRUE, !.secrets = {},
        !.lists = [users |-> <<[User("u1") EXCEPT !.groups = {"g1"}], User("u2")>>,
                   groups |-> <<Group("g1")>>,
                   rules |-> <<[AlertRule EXCEPT !.id = "rule1"]>>,
                   channels |-> <<[id |-> "ch1"]>>, ignored |-> <<[id |-> "h1"]>>]]
Stored      == {StoredFile}
FreshOrOld  == {NoFile, StoredFile}

UserRequests ==
    {[op |-> "CreateUser", id |-> n, entry |-> User(n)] : n \in {"u1", "u4"}}
    \cup {[op |-> "DeleteUser", id |-> n] : n \in {"u1", "u4"}}
    \cup {[op |-> op, id |-> n, val |-> "new"] : op \in {"UpdateUser", "ChangePassword"},
                                                 n \in {"u1", "u4"}}
GroupRequests ==
    {[op |-> "CreateGroup", id |-> "g2", entry |-> Group("g2")]}
    \cup {[op |-> "UpdateGroup", id |-> g, val |-> "new", members |-> {"u2"}] : g \in {"g1", "g2"}}
    \cup {[op |-> "UpdateGroup", id |-> "g1", val |-> "new", members |-> {"u1", "u4"}],
          [op |-> "UpdateGroup", id |-> "g1", val |-> "hosts only"]}
    \cup {[op |-> "DeleteGroup", id |-> g] : g \in {"g1", "g2"}}
RuleRequests ==
    {[op |-> "CreateAlertRule", id |-> "rule2", entry |-> [AlertRule EXCEPT !.id = "rule2", !.silenced = {"*"}]]}
    \cup {[op |-> op, id |-> n] : op \in {"ToggleAlertRule", "DeleteAlertRule"},
                                  n \in {"rule1", "rule2"}}
    \cup {[op |-> "UpdateAlertRule", id |-> n, val |-> "new"] : n \in {"rule1", "rule2"}}
    \cup {[op |-> op, id |-> n, host |-> "*"] : op \in {"SilenceAlert", "UnsilenceAlert"},
                                                n \in {"rule1", "rule2"}}
OtherRequests ==
    {[op |-> "CreateChannel", id |-> "ch2", entry |-> [id |-> "ch2"]],
     [op |-> "DeleteChannel", id |-> "ch1"],
     [op |-> "DeleteHost", id |-> "h1", entry |-> [id |-> "h1"]],
     [op |-> "DeleteHost", id |-> "h2", entry |-> [id |-> "h2"]],
     [op |-> "SaveSettings", val |-> "new"],
     [op |-> "EnableMFA"], [op |-> "DisableMFA"]}
RegisterRequests == {[op |-> "RegisterAgent", host |-> h] : h \in {"a1", "a2"}}

AllRequests == UserRequests \cup GroupRequests \cup RuleRequests \cup OtherRequests
               \cup RegisterRequests
Mixed == {r \in AllRequests : r.op \in {"CreateUser", "UpdateUser", "DeleteUser", "SilenceAlert",
                                        "CreateAlertRule", "SaveSettings", "RegisterAgent"}}
SettingsAndHosts == {r \in AllRequests : r.op \in {"SaveSettings", "DeleteHost"}}
=============================================================================
