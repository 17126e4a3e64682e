---------------------------- MODULE MCWebConsole ----------------------------
(* Instances of WebConsole for TLC: one small tour for each page, and some     *)
(* that cross pages.                                                           *)
EXTENDS WebConsole

CONSTANTS pbx, web, addr1, addr2

MCLinePages == [a \in {addr1, addr2} |-> IF a = addr1 THEN 2 ELSE 1]

Spending(c, f, l, w) ==
    [changes |-> c, faults |-> f, loads |-> l, writes |-> w]

Visit(pages, saved, answers, spending) ==
    [pages |-> pages, role |-> "admin", saved |-> saved, lists |-> answers, inFlight |-> 1,
     events |-> {}, left |-> spending]

One == {{pbx}}
Both == {{pbx, web}}

PageTours ==
    {Visit({p}, {web}, Both, Spending(1, 1, 0, 0)) : p \in
        {"cpu", "memory", "storage", "logs", "connections", "security", "network",
         "servers", "services"} \cup ServicePages}
    \cup {Visit({p}, {All}, {{}, {web}}, Spending(1, 1, 0, 0)) : p \in {"storage", "connections", "security"}}

(* Two of the services that share a page, another period and another rate. *)
ServiceTours == {Visit({"apache"}, {web}, {{web}}, Spending(3, 0, 0, 0))}

DashboardTours == {Visit({"dashboard"}, {pbx}, One, Spending(0, 1, 0, 0))}

IpTours == {Visit({"ip-intelligence"}, {web}, Both, Spending(2, 0, 0, 0)),
            Visit({"ip-intelligence"}, {pbx}, One, Spending(0, 1, 0, 2)),
            Visit({"ip-intelligence"}, {pbx}, One, Spending(1, 1, 0, 0)),
            Visit({"ip-intelligence"}, {pbx}, Both, Spending(1, 0, 0, 1))}

FormTours == {Visit({"settings"}, {pbx}, One, Spending(2, 1, 0, 2)),
              Visit({"users"}, {pbx}, One, Spending(1, 1, 0, 2)),
              Visit({"users"}, {pbx}, One, Spending(2, 0, 0, 1)),
              Visit({"alerts"}, {pbx}, One, Spending(1, 1, 0, 2))}

Expiring(p, role1, spending) ==
    [Visit({p}, {pbx}, One, spending) EXCEPT !.events = {"expiry"}, !.role = role1]

SessionTours ==
    {Expiring(p, "admin", Spending(0, 0, 0, 1)) : p \in
        {"cpu", "services", "security", "settings", "users", "alerts", "ip-intelligence"}}
    \cup {Expiring("alerts", "viewer", Spending(1, 0, 0, 0)),
          [Visit({"dashboard", "settings"}, {pbx}, One, Spending(0, 0, 2, 0)) EXCEPT !.events = {"expiry"}],
          [Visit({"dashboard", "cpu"}, {pbx}, {{}}, Spending(0, 0, 1, 0)) EXCEPT !.events = {"logout"}],
          [Visit({"services", "settings"}, {pbx}, One, Spending(1, 0, 0, 1)) EXCEPT !.events = {"expiry"}],
          Visit({"ip-intelligence", "settings"}, {pbx}, One, Spending(1, 0, 0, 1)),
          Visit({"cpu", "memory"}, {All}, {{}, {web}, Host}, Spending(2, 0, 0, 0)),
          Visit({"cpu", "logs"}, {All, web}, {{}, {web}}, Spending(0, 1, 1, 0)),
          [Visit({"cpu"}, {All}, {Host, NoList}, Spending(1, 1, 1, 0)) EXCEPT !.events = {"expiry"}]}

MCTours == PageTours \cup ServiceTours \cup DashboardTours \cup IpTours \cup FormTours \cup SessionTours
=============================================================================
