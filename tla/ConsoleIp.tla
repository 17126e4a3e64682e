------------------------------ MODULE ConsoleIp ------------------------------
(* The IP intelligence page: one search box, the analysis of an address with    *)
(* as many pages of its lines as were loaded, the firewall list of the selected *)
(* host, and the commands that block or unblock an address there.              *)
(*                                                                             *)
(* Nothing here polls.  A search is asked with the text of the box and the     *)
(* host of the render in which it was clicked; a command that was accepted     *)
(* asks for the list and the analysis again, at once and after 30 seconds,      *)
(* with what was in the box and selected when the button was clicked.          *)
(*                                                                             *)
(* The lines on the screen are represented by how many pages of the address    *)
(* they are, in order and without gaps; 0 when they are a mixture.  The list   *)
(* of a host is represented by the number of commands it reflects: whether a   *)
(* command blocks or unblocks makes no difference here.                        *)
EXTENDS ConsoleSession

CONSTANTS
    Ip,           \* the addresses that are looked at
    LinePages,    \* for each address, the pages of lines the server has for it
    NoIp,         \* an empty box
    Nothing,      \* no analysis, no rows, not read yet
    MaxSearches,  \* searches on their way at once
    MaxLists      \* requests of the list on their way at once

ASSUME IpAssumption == /\ NoIp \notin Ip /\ LinePages \in [Ip -> Nat]
                       /\ {MaxSearches, MaxLists} \subseteq Nat \ {0}

VARIABLES
    lookup,     \* the page's state
    searches,   \* searches on their way
    lists,      \* requests of the list on their way, read by the server or not
    commands,   \* commands on their way
    refreshes,  \* timers of 30 seconds
    record      \* the server: commands on each host's firewall so far

ipVars == <<lookup, searches, lists, commands, refreshes, record>>

Selection == Host \cup {All}
(* A tag tells apart requests that ask the same; the least free one is taken. *)
Search  == [tag : 1..MaxSearches, ip : Ip, host : Selection, page : Nat \ {0}]
Listing == [tag : 1..MaxLists, host : Host, read : Nat \cup {Nothing}]
Command == [ip : Ip, host : Host, box : Ip \cup {NoIp}, analysis : BOOLEAN]
Result  == [ip : Ip, host : Selection, pages : Nat, more : BOOLEAN]
Rows    == [host : Host, version : Nat]

IpTypeOK ==
    /\ lookup \in [box : Ip \cup {NoIp}, result : Result \cup {Nothing}, logPage : Nat \ {0},
                   loading : BOOLEAN, failed : BOOLEAN, listLoading : BOOLEAN,
                   rows : Rows \cup {Nothing}, calm : BOOLEAN,
                   promised : [Host -> Nat], seen : [Host -> Nat]]
    /\ searches \subseteq Search
    /\ lists \subseteq Listing
    /\ commands \subseteq Command
    /\ refreshes \subseteq Command
    /\ record \in [Host -> Nat]

-----------------------------------------------------------------------------
(* Requests.                                                                   *)

Free(flight, max) ==
    {t \in 1..max : /\ \A q \in flight : q.tag # t
                    /\ \A u \in 1..t - 1 : \E q \in flight : q.tag = u}

(* handleSearch: the first page clears the analysis before it asks, a further  *)
(* one is to be appended.  calm says that the search was started with nothing  *)
(* else on its way, for the address in the box, and that nothing has disturbed *)
(* it since: the properties are about what a calm page shows.                  *)
Searching(v, b, h, p) ==
    [v EXCEPT !.loading = TRUE, !.failed = FALSE,
              !.result = IF p = 1 THEN Nothing ELSE @,
              !.calm = IF p = 1 THEN searches = {} /\ b = v.box /\ h = selectedHost ELSE @]

(* Nothing is sent for an empty box. *)
StartSearch(v, b, h, p) ==
    IF b = NoIp THEN lookup' = v /\ UNCHANGED searches
    ELSE /\ lookup' = Searching(v, b, h, p)
         /\ \E t \in Free(searches, MaxSearches) :
               searches' = searches \cup {[tag |-> t, ip |-> b, host |-> h, page |-> p]}

(* fetchBlockedIPs, which returns at once when ALL SYSTEMS is selected. *)
StartListing(h) ==
    IF h = All THEN UNCHANGED lists
    ELSE \E t \in Free(lists, MaxLists) :
            lists' = lists \cup {[tag |-> t, host |-> h, read |-> Nothing]}

Fetching(v, h) == IF h = All THEN v ELSE [v EXCEPT !.listLoading = TRUE]

(* promised: for each host, the last command that was accepted from this page, *)
(* which a toast promises to show; seen: the newest list that was shown.  The  *)
(* toasts come and go by themselves and are left out.                          *)
NoLookup == [box |-> NoIp, result |-> Nothing, logPage |-> 1, loading |-> FALSE, failed |-> FALSE,
             listLoading |-> FALSE, rows |-> Nothing, calm |-> TRUE,
             promised |-> [h \in Host |-> 0], seen |-> [h \in Host |-> 0]]

(* A command on its way when the page is left may still reach the server. *)
CommandsLeft ==
    \E done \in SUBSET commands :
        record' = [h \in Host |-> record[h] + Cardinality({c \in done : c.host = h})]

(* Mount: the list of the selected host is asked for. *)
IpMount ==
    /\ commands' = {} /\ refreshes' = {} /\ searches' = {}
    /\ CommandsLeft
    /\ IF page' = "ip-intelligence" /\ selectedHost' # All
       THEN /\ lookup' = Fetching(NoLookup, selectedHost')
            /\ lists' = {[tag |-> 1, host |-> selectedHost', read |-> Nothing]}
       ELSE lookup' = NoLookup /\ lists' = {}

IpUnmount ==
    /\ lookup' = NoLookup
    /\ searches' = {} /\ lists' = {} /\ commands' = {} /\ refreshes' = {}
    /\ CommandsLeft

(* Another host: the analysis is cleared; the box, the list and what is on its *)
(* way are not.                                                                *)
IpFollowHost ==
    /\ UNCHANGED <<searches, commands, refreshes, record>>
    /\ IF page = "ip-intelligence"
       THEN /\ lookup' = Fetching([lookup EXCEPT !.result = Nothing, !.logPage = 1,
                                     !.failed = FALSE, !.calm = @ /\ searches = {}], selectedHost')
            /\ StartListing(selectedHost')
       ELSE UNCHANGED <<lookup, lists>>

-----------------------------------------------------------------------------
(* The user.                                                                   *)

OnIpPage == page = "ip-intelligence" /\ ~crashed
(* The firewall list and its buttons are on the page as long as it is empty. *)
OnEmptyPage == OnIpPage /\ lookup.result = Nothing /\ ~lookup.loading /\ ~lookup.failed

EditBox(b) ==
    /\ OnIpPage /\ b \in (Ip \cup {NoIp}) \ {lookup.box}
    /\ Spend("changes")
    /\ lookup' = [lookup EXCEPT !.box = b,
                    !.calm = @ /\ searches = {} /\ lookup.result = Nothing]
    /\ UNCHANGED <<searches, lists, commands, refreshes, record>>

(* The button is disabled while the page is loading, the Enter key is not.      *)
Enter ==
    /\ OnIpPage /\ lookup.box # NoIp
    /\ StartSearch(lookup, lookup.box, selectedHost, 1)
    /\ UNCHANGED <<left, lists, commands, refreshes, record>>

(* The magnifying glass of a row puts its address into the box and searches    *)
(* for what the box held before: the state it sets is that of the next render. *)
AnalyzeRow(b) ==
    /\ OnEmptyPage /\ lookup.rows # Nothing /\ ~lookup.listLoading
    /\ b \in Ip \ {lookup.box}
    /\ Spend("changes")
    /\ StartSearch([lookup EXCEPT !.box = b, !.calm = FALSE], lookup.box, selectedHost, 1)
    /\ UNCHANGED <<lists, commands, refreshes, record>>

(* Offered as long as the first page was a full one; nothing updates that. *)
\* Mutant: the button is not disabled while lines are loaded.
LoadMore_WhileLoading ==
    /\ OnIpPage /\ lookup.result # Nothing /\ lookup.result.more /\ lookup.box # NoIp
    /\ StartSearch(lookup, lookup.box, selectedHost, lookup.logPage + 1)
    /\ UNCHANGED <<left, lists, commands, refreshes, record>>

LoadMore ==
    /\ OnIpPage /\ lookup.result # Nothing /\ lookup.result.more
    /\ ~lookup.loading /\ lookup.box # NoIp
    /\ StartSearch(lookup, lookup.box, selectedHost, lookup.logPage + 1)
    /\ UNCHANGED <<left, lists, commands, refreshes, record>>

RefreshList ==
    /\ OnEmptyPage /\ ~lookup.listLoading /\ selectedHost # All
    /\ lookup' = Fetching(lookup, selectedHost)
    /\ StartListing(selectedHost)
    /\ UNCHANGED <<left, searches, commands, refreshes, record>>

Send(c) ==
    /\ OnIpPage /\ selectedHost # All /\ c \notin commands
    /\ Spend("writes")
    /\ commands' = commands \cup {c}
    /\ UNCHANGED <<lookup, searches, lists, refreshes, record>>

(* BLOCK IP and UNBLOCK of the analysis: for its address, on the selected host. *)
BlockAnalysed ==
    /\ lookup.result # Nothing
    /\ Send([ip |-> lookup.result.ip, host |-> selectedHost, box |-> lookup.box, analysis |-> TRUE])

(* The quick block, and the open lock of a row. *)
QuickBlock(b) ==
    /\ OnEmptyPage
    /\ Send([ip |-> b, host |-> selectedHost, box |-> NoIp, analysis |-> FALSE])

-----------------------------------------------------------------------------
(* Answers and timers.                                                         *)

(* Every page after the first is appended to what is there when it comes. *)
Appended(res, s) ==
    [res EXCEPT !.pages = IF @ > 0 /\ res.ip = s.ip /\ res.host = s.host /\ s.page = @ + 1
                          THEN @ + 1 ELSE 0]

Shown(s) == IF s.page = 1
            THEN [ip |-> s.ip, host |-> s.host, pages |-> 1, more |-> LinePages[s.ip] > 1]
            ELSE Appended(lookup.result, s)

(* The lines of a page that does not exist are null, and an analysis that was  *)
(* cleared is null: spreading either throws, and the console is gone.          *)
Throws(s) == s.page > 1 /\ (lookup.result = Nothing \/ s.page > LinePages[s.ip])

SearchArrives(s) ==
    /\ s \in searches /\ ~Throws(s) /\ token = "valid"
    /\ lookup' = [lookup EXCEPT !.result = Shown(s), !.logPage = s.page, !.loading = FALSE]
    /\ searches' = searches \ {s}
    /\ UNCHANGED <<left, lists, commands, refreshes, record>>

SearchThrows == token = "valid" /\ (\E s \in searches : Throws(s)) /\ UNCHANGED left

(* 401, which the page takes for any error. *)
SearchRefused(s) ==
    /\ s \in searches /\ token # "valid"
    /\ lookup' = [lookup EXCEPT !.loading = FALSE, !.failed = TRUE]
    /\ searches' = searches \ {s}
    /\ UNCHANGED <<left, lists, commands, refreshes, record>>

SearchFails(s) ==
    /\ s \in searches
    /\ Spend("faults")
    /\ lookup' = [lookup EXCEPT !.loading = FALSE, !.failed = TRUE]
    /\ searches' = searches \ {s}
    /\ UNCHANGED <<lists, commands, refreshes, record>>

ListRead(q) ==
    /\ q \in lists /\ q.read = Nothing /\ token = "valid"
    /\ lists' = (lists \ {q}) \cup {[q EXCEPT !.read = record[q.host]]}
    /\ UNCHANGED <<left, lookup, searches, commands, refreshes, record>>

ListArrives(q) ==
    /\ q \in lists /\ q.read # Nothing
    /\ lookup' = [lookup EXCEPT !.rows = [host |-> q.host, version |-> q.read], !.listLoading = FALSE,
                                !.seen[q.host] = IF @ < q.read THEN q.read ELSE @]
    /\ lists' = lists \ {q}
    /\ UNCHANGED <<left, searches, commands, refreshes, record>>

ListFails(q) ==
    /\ q \in lists
    /\ Spend("faults")
    /\ lookup' = [lookup EXCEPT !.listLoading = FALSE]
    /\ lists' = lists \ {q}
    /\ UNCHANGED <<searches, commands, refreshes, record>>

(* 401: the list stays as it is. *)
ListRefused(q) ==
    /\ q \in lists /\ q.read = Nothing /\ token # "valid"
    /\ lookup' = [lookup EXCEPT !.listLoading = FALSE]
    /\ lists' = lists \ {q}
    /\ UNCHANGED <<left, searches, commands, refreshes, record>>

(* Accepted: a promise, a timer, and both requests at once with the box and the  *)
(* host of the click.  A quick block asks for the list only.                   *)
\* Mutant: nothing is asked again after 30 seconds.
CommandAccepted_AsksOnce(c) ==
    LET n == record[c.host] + 1
        v == Fetching([lookup EXCEPT !.promised[c.host] = n], c.host) IN
    /\ c \in commands /\ token = "valid"
    /\ record' = [record EXCEPT ![c.host] = n]
    /\ commands' = commands \ {c}
    /\ lookup' = v
    /\ StartListing(c.host)
    /\ UNCHANGED <<left, searches, refreshes>>

CommandAccepted(c) ==
    LET n == record[c.host] + 1
        v == Fetching([lookup EXCEPT !.promised[c.host] = n], c.host) IN
    /\ c \in commands /\ token = "valid"
    /\ record' = [record EXCEPT ![c.host] = n]
    /\ commands' = commands \ {c}
    /\ refreshes' = refreshes \cup {c}
    /\ IF c.analysis THEN StartSearch(v, c.box, c.host, 1) ELSE lookup' = v /\ UNCHANGED searches
    /\ StartListing(c.host)
    /\ UNCHANGED left

(* 401: the command is not queued. *)
CommandRefused(c) ==
    /\ c \in commands /\ token # "valid"
    /\ commands' = commands \ {c}
    /\ UNCHANGED <<left, lookup, searches, lists, refreshes, record>>

(* The command is refused or lost, before or after the server has done it; the *)
(* message of failure goes away by itself. *)
CommandFails(c) ==
    /\ c \in commands
    /\ Spend("faults")
    /\ record' \in {record, [record EXCEPT ![c.host] = @ + 1]}
    /\ commands' = commands \ {c}
    /\ UNCHANGED <<lookup, searches, lists, refreshes>>

(* After 30 seconds, whatever is in the box and selected by then. *)
Refresh(c) ==
    LET v == Fetching(lookup, c.host) IN
    /\ c \in refreshes
    /\ refreshes' = refreshes \ {c}
    /\ IF c.analysis THEN StartSearch(v, c.box, c.host, 1) ELSE lookup' = v /\ UNCHANGED searches
    /\ StartListing(c.host)
    /\ UNCHANGED <<left, commands, record>>
=============================================================================
