--------------------------- MODULE ConsoleSession ---------------------------
(* The browser session of the web console: the token and the role a login      *)
(* leaves in the browser's storage, the route, and the list of hosts with the  *)
(* selected one that HostContext keeps for every page.                          *)
(*                                                                             *)
(* A page load (login, logout, a redirect to /login, the reload button) starts *)
(* every component anew: what was kept in memory is gone, what is in the       *)
(* browser's storage stays.  A navigation inside the console only mounts       *)
(* another page.  WebConsole joins each action below with what the mounted     *)
(* page does then.                                                             *)
EXTENDS Naturals, FiniteSets

CONSTANTS
    Host,       \* the monitored hosts
    Preferred,  \* "fusionpbx", selected first when it is in the list
    All,        \* ALL SYSTEMS: no host selected, the empty string of the code
    NoList,     \* the JSON null that is answered when every host is ignored
    Tours       \* the bounded behaviours to explore

Pages == {"dashboard", "cpu", "memory", "storage", "network", "logs", "connections",
          "security", "servers", "services", "apache", "mysql", "redis", "mongodb",
          "postgresql", "ip-intelligence", "settings", "users", "alerts"}
Role == {"admin", "viewer"}
Budget == {"changes", "faults", "loads", "writes"}

(* A tour is one bounded family of behaviours: the pages that are visited, the *)
(* role of the first login, the hosts the browser may have saved, the lists of *)
(* hosts the server may answer, how many kinds of requests a loop may have on  *)
(* their way when it polls again, what else happens, and how often each        *)
(* bounded kind of event does.                                                 *)
Tour == [pages : SUBSET Pages, role : Role, saved : SUBSET (Host \cup {All}),
         lists : SUBSET ({NoList} \cup SUBSET Host),
         inFlight : Nat, events : SUBSET {"expiry", "logout"}, left : [Budget -> Nat]]

ASSUME HostsAssumption == Preferred \in Host /\ All \notin Host /\ \A s \in SUBSET Host : NoList # s
ASSUME ToursAssumption == Tours \subseteq Tour

VARIABLES
    tour,          \* the tour of this behaviour
    left,          \* how many events of each kind it may still have
    token,         \* localStorage: "none", "valid" or "expired"
    role,          \* localStorage: the role of the last login, or "none"
    savedHost,     \* localStorage: the last host that was selected, or All
    page,          \* the route: a page or "login"
    crashed,       \* the error boundary has replaced the whole console
    hosts,         \* the list of the host selector
    selectedHost,  \* a host or All
    hostsAsked     \* a request of the list is on its way

sessionVars == <<tour, left, token, role, savedHost, page, crashed, hosts, selectedHost, hostsAsked>>

SessionTypeOK ==
    /\ tour \in Tours
    /\ left \in [Budget -> Nat]
    /\ token \in {"none", "valid", "expired"}
    /\ role \in Role \cup {"none"}
    /\ page \in Pages \cup {"login"}
    /\ crashed \in BOOLEAN
    /\ hosts \in SUBSET Host
    /\ {savedHost, selectedHost} \subseteq Host \cup {All}
    /\ hostsAsked \in BOOLEAN

Spend(kind) == left[kind] > 0 /\ left' = [left EXCEPT ![kind] = @ - 1]

(* The pages an administrator alone may open: AdminRoute. *)
AdminPages == {"settings", "users"}

(* Where the router takes an address: PrivateRoute asks for a token, expired   *)
(* or not, AdminRoute for the role as well.                                    *)
Routed(p) ==
    CASE p = "login" -> "login"
      [] p \in AdminPages -> IF token' # "none" /\ role' = "admin" THEN p
                             ELSE IF token' # "none" THEN "dashboard" ELSE "login"
      [] OTHER -> IF token' # "none" THEN p ELSE "login"

(* The initial selection and the first request of HostProvider's mount, which  *)
(* is not sent without a token.                                                *)
Load(p) ==
    /\ page' = Routed(p)
    /\ page' \in tour.pages \cup {"login"}
    /\ crashed' = FALSE
    /\ hosts' = {}
    /\ selectedHost' = savedHost'
    /\ hostsAsked' = (token' # "none")

SessionInit ==
    /\ tour \in Tours
    /\ left = tour.left
    /\ token = "valid"
    /\ role = tour.role
    /\ page \in tour.pages
    /\ page \in AdminPages => role = "admin"
    /\ crashed = FALSE
    /\ hosts = {}
    /\ savedHost \in tour.saved
    /\ selectedHost = savedHost
    /\ hostsAsked = TRUE

(* A successful login stores the token and the role of the account and loads   *)
(* the console anew.  A refused one changes nothing here.                      *)
Login ==
    /\ page = "login" /\ ~crashed
    /\ "dashboard" \in tour.pages
    /\ Spend("loads")
    /\ token' = "valid"
    /\ role' \in Role
    /\ UNCHANGED <<tour, savedHost>>
    /\ Load("dashboard")

(* The logout buttons of the side bar and of the profile menu clear the        *)
(* storage, the selected host with it.                                         *)
Logout ==
    /\ "logout" \in tour.events
    /\ page # "login" /\ ~crashed
    /\ token' = "none" /\ role' = "none" /\ savedHost' = All
    /\ UNCHANGED <<tour, left>>
    /\ Load("login")

(* The token is valid for 24 hours. *)
Expire ==
    /\ "expiry" \in tour.events
    /\ token = "valid"
    /\ token' = "expired"
    /\ UNCHANGED <<tour, left, role, savedHost, page, crashed, hosts, selectedHost, hostsAsked>>

(* A page that is answered 401 sends the browser to /login and leaves the      *)
(* token where it is.                                                          *)
Redirect ==
    /\ UNCHANGED <<tour, left, token, role, savedHost>>
    /\ Load("login")

(* The user opens an address, or loads the same one again: the only way out of *)
(* the error boundary.                                                         *)
OpenAddress(p) ==
    /\ p \in tour.pages
    /\ Spend("loads")
    /\ UNCHANGED <<tour, token, role, savedHost>>
    /\ Load(p)

(* A link of the side bar or of the profile menu; those of the administrator's *)
(* pages are shown to the role of the storage.                                 *)
Navigate(p) ==
    /\ page # "login" /\ ~crashed
    /\ p \in tour.pages \ {page}
    /\ p \in AdminPages => role = "admin"
    /\ token # "none"
    /\ page' = p
    /\ Spend("changes")
    /\ UNCHANGED <<tour, token, role, savedHost, crashed, hosts, selectedHost, hostsAsked>>

-----------------------------------------------------------------------------
(* The list of hosts, asked for every 30 seconds by HostProvider.              *)

\* Mutant: the list is not asked for again once it is there.
AskHosts_UntilListed ==
    /\ ~crashed /\ token # "none" /\ ~hostsAsked /\ hosts = {}
    /\ hostsAsked' = TRUE
    /\ UNCHANGED <<tour, left, token, role, savedHost, page, crashed, hosts, selectedHost>>

AskHosts ==
    /\ ~crashed /\ token # "none" /\ ~hostsAsked
    /\ hostsAsked' = TRUE
    /\ UNCHANGED <<tour, left, token, role, savedHost, page, crashed, hosts, selectedHost>>

(* An empty selection does not last: as soon as the list has hosts, one is      *)
(* taken.  The storage follows every selection but the empty one.              *)
AutoSelected(selection, list) ==
    IF selection # All \/ list = {} THEN {selection}
    ELSE IF Preferred \in list THEN {Preferred} ELSE list

Select(h) ==
    /\ selectedHost' = h
    /\ savedHost' = IF h = All THEN savedHost ELSE h

HostsArrive(list) ==
    /\ hostsAsked /\ token = "valid" /\ ~crashed
    /\ list \in tour.lists \ {NoList}
    /\ hostsAsked' = FALSE
    /\ hosts' = list
    /\ \E h \in AutoSelected(selectedHost, list) : Select(h)
    /\ UNCHANGED <<tour, left, token, role, page, crashed>>

(* The selector maps over the list, and HostProvider asks for its length: null *)
(* throws while the console is rendered, and the error boundary takes all of it. *)
Crash ==
    /\ crashed' = TRUE
    /\ hosts' = {}
    /\ UNCHANGED <<tour, token, role, savedHost, page, selectedHost>>

NullListArrives ==
    /\ hostsAsked /\ token = "valid" /\ ~crashed
    /\ NoList \in tour.lists
    /\ hostsAsked' = FALSE
    /\ UNCHANGED left
    /\ Crash

(* An answer that reaches a console that has crashed finds no component. *)
HostsArriveTooLate ==
    /\ hostsAsked /\ token = "valid" /\ crashed
    /\ hostsAsked' = FALSE
    /\ UNCHANGED <<tour, left, token, role, savedHost, page, crashed, hosts, selectedHost>>

(* 401: the token is removed and the browser sent to /login, even from the     *)
(* error screen.  On the login page nothing happens.                           *)
HostsRefused ==
    /\ hostsAsked /\ token = "expired" /\ page # "login"
    /\ token' = "none"
    /\ UNCHANGED <<tour, left, role, savedHost>>
    /\ Load("login")

HostsRefusedAtLogin ==
    /\ hostsAsked /\ token = "expired" /\ page = "login"
    /\ hostsAsked' = FALSE
    /\ UNCHANGED <<tour, left, token, role, savedHost, page, crashed, hosts, selectedHost>>

(* The network fails, or the server answers 500: the list stays. *)
HostsFail ==
    /\ hostsAsked
    /\ Spend("faults")
    /\ hostsAsked' = FALSE
    /\ UNCHANGED <<tour, token, role, savedHost, page, crashed, hosts, selectedHost>>

(* The host selector of the top bar.  ALL SYSTEMS is replaced at once when the *)
(* list has hosts; the pages have seen it in between (see WebConsole).         *)
SelectHost(h) ==
    /\ page # "login" /\ ~crashed
    /\ h \in hosts \cup {All}
    /\ h # selectedHost
    /\ Spend("changes")
    /\ \E s \in AutoSelected(h, hosts) : Select(s)
    /\ UNCHANGED <<tour, token, role, page, crashed, hosts, hostsAsked>>
=============================================================================
