--------------------------- MODULE ConsoleIp_proofs ---------------------------
(* Proofs about the page of the addresses: an undisturbed analysis is of the    *)
(* address in the box, with its lines in order; a toast's promise is kept; and  *)
(* every variable of the console has its type.                                  *)
EXTENDS ConsoleForms_proofs, FiniteSetTheorems

-----------------------------------------------------------------------------
(* Types.                                                                      *)

LookupType == [box : Ip \cup {NoIp}, result : Result \cup {Nothing}, logPage : Nat \ {0},
               loading : BOOLEAN, failed : BOOLEAN, listLoading : BOOLEAN,
               rows : Rows \cup {Nothing}, calm : BOOLEAN,
               promised : [Host -> Nat], seen : [Host -> Nat]]

(* What is on its way belongs to the page; the commands on their way, which     *)
(* are counted when the page is left, are finitely many. *)
IpTyped ==
    /\ IpTypeOK
    /\ IsFiniteSet(commands)
    /\ page # "ip-intelligence" =>
          lookup.result = Nothing /\ searches = {} /\ lists = {} /\ commands = {} /\ refreshes = {}

LEMMA IpTypes ==
    IpTypeOK <=> /\ lookup \in LookupType /\ searches \subseteq Search /\ lists \subseteq Listing
                 /\ commands \subseteq Command /\ refreshes \subseteq Command /\ record \in [Host -> Nat]
BY DEF IpTypeOK, LookupType

LEMMA NoLookupTyped == NoLookup \in LookupType
BY DEF NoLookup, LookupType

LEMMA FetchingTyped ==
    ASSUME NEW v \in LookupType, NEW h
    PROVE  Fetching(v, h) \in LookupType
BY DEF Fetching, LookupType

LEMMA SearchingTyped ==
    ASSUME NEW v \in LookupType, NEW b, NEW h, NEW p
    PROVE  Searching(v, b, h, p) \in LookupType
<1>1. \E calm \in BOOLEAN : calm = (searches = {} /\ b = v.box /\ h = selectedHost)
  BY Zenon
<1>2. PICK calm \in BOOLEAN : Searching(v, b, h, p) =
         [v EXCEPT !.loading = TRUE, !.failed = FALSE, !.result = IF p = 1 THEN Nothing ELSE v.result,
                   !.calm = IF p = 1 THEN calm ELSE v.calm]
  <2>1. PICK calm \in BOOLEAN : calm = (searches = {} /\ b = v.box /\ h = selectedHost)
    BY <1>1
  <2> QED BY <2>1 DEF Searching, LookupType
<1> QED BY <1>2 DEF LookupType

LEMMA StartSearchTyped ==
    ASSUME NEW v \in LookupType, NEW b \in Ip \cup {NoIp}, NEW h \in Selection, NEW p \in Nat \ {0},
           searches \subseteq Search, StartSearch(v, b, h, p)
    PROVE  lookup' \in LookupType /\ searches' \subseteq Search
<1>1. CASE b = NoIp
  BY <1>1 DEF StartSearch
<1>2. CASE b # NoIp
  <2>1. lookup' = Searching(v, b, h, p)
    BY <1>2 DEF StartSearch
  <2>2. PICK t \in 1..MaxSearches :
          searches' = searches \cup {[tag |-> t, ip |-> b, host |-> h, page |-> p]}
    BY <1>2 DEF StartSearch, Free
  <2>3. [tag |-> t, ip |-> b, host |-> h, page |-> p] \in Search
    BY <1>2 DEF Search
  <2> QED BY <2>1, <2>2, <2>3, SearchingTyped
<1> QED BY <1>1, <1>2

LEMMA StartListingTyped ==
    ASSUME NEW h \in Selection, lists \subseteq Listing, StartListing(h)
    PROVE  lists' \subseteq Listing
<1>1. CASE h = All
  BY <1>1 DEF StartListing
<1>2. CASE h # All
  <2>1. PICK t \in 1..MaxLists : lists' = lists \cup {[tag |-> t, host |-> h, read |-> Nothing]}
    BY <1>2 DEF StartListing, Free
  <2>2. [tag |-> t, host |-> h, read |-> Nothing] \in Listing
    BY <1>2 DEF Listing, Selection
  <2> QED BY <2>1, <2>2
<1> QED BY <1>1, <1>2

LEMMA CommandsLeftTyped ==
    ASSUME IpTyped, CommandsLeft
    PROVE  record' \in [Host -> Nat]
<1>1. PICK done \in SUBSET commands :
        record' = [h \in Host |-> record[h] + Cardinality({c \in done : c.host = h})]
  BY DEF CommandsLeft
<1>2. ASSUME NEW h \in Host PROVE Cardinality({c \in done : c.host = h}) \in Nat
  <2>1. {c \in done : c.host = h} \subseteq commands
    OBVIOUS
  <2> QED BY <2>1, FS_Subset, FS_CardinalityType DEF IpTyped
<1> QED BY <1>1, <1>2 DEF IpTyped, IpTypeOK

LEMMA ShownTyped ==
    ASSUME IpTypeOK, NEW s \in searches, ~Throws(s)
    PROVE  Shown(s) \in Result
<1>1. s \in Search /\ s.ip \in Ip /\ s.host \in Selection
  BY DEF IpTypeOK, Search
<1>2. CASE s.page = 1
  <2>1. PICK more \in BOOLEAN : more = (LinePages[s.ip] > 1)
    <3>1. (LinePages[s.ip] > 1) \in BOOLEAN
      OBVIOUS
    <3> QED BY <3>1, Zenon
  <2>2. Shown(s) = [ip |-> s.ip, host |-> s.host, pages |-> 1, more |-> more]
    BY <1>2, <2>1 DEF Shown
  <2> QED BY <1>1, <2>2 DEF Result
<1>3. CASE s.page # 1
  <2>1. lookup.result # Nothing
    BY <1>1, <1>3 DEF Throws, Search
  <2>2. lookup.result \in Result
    BY <2>1 DEF IpTypeOK
  <2>3. Shown(s) = Appended(lookup.result, s)
    BY <1>3 DEF Shown
  <2> QED BY <2>2, <2>3 DEF Appended, Result
<1> QED BY <1>2, <1>3

(* The user's actions. *)
LEMMA IpUserTyped ==
    ASSUME IpTyped, SessionTypeOK,
           \/ \E b \in Ip \cup {NoIp} : EditBox(b)
           \/ \E b \in Ip : AnalyzeRow(b) \/ QuickBlock(b)
           \/ Enter \/ LoadMore \/ RefreshList \/ BlockAnalysed
    PROVE  IpTypeOK' /\ IsFiniteSet(commands') /\ page = "ip-intelligence"
<1>0. /\ lookup \in LookupType /\ searches \subseteq Search /\ lists \subseteq Listing
      /\ commands \subseteq Command /\ refreshes \subseteq Command /\ record \in [Host -> Nat]
      /\ IsFiniteSet(commands) /\ selectedHost \in Selection
  BY IpTypes DEF IpTyped, SessionTypeOK, Selection
<1>a. ASSUME lookup' \in LookupType, searches' \subseteq Search, lists' \subseteq Listing,
             UNCHANGED <<commands, refreshes, record>>
      PROVE  IpTypeOK' /\ IsFiniteSet(commands')
  BY <1>0, <1>a DEF IpTypeOK, LookupType
<1>b. ASSUME NEW c \in Command, Send(c) PROVE IpTypeOK' /\ IsFiniteSet(commands')
  <2>1. commands' = commands \cup {c} /\ UNCHANGED <<lookup, searches, lists, refreshes, record>>
    BY <1>b DEF Send
  <2>2. IsFiniteSet(commands')
    BY <1>0, <2>1, FS_AddElement
  <2> QED BY <1>0, <2>1, <2>2 DEF IpTypeOK, LookupType
<1>1. ASSUME NEW b \in Ip \cup {NoIp}, EditBox(b) PROVE IpTypeOK' /\ IsFiniteSet(commands') /\ page = "ip-intelligence"
  <2>1. PICK calm \in BOOLEAN : calm = (lookup.calm /\ searches = {} /\ lookup.result = Nothing)
    BY Zenon
  <2>2. lookup' = [lookup EXCEPT !.box = b, !.calm = calm]
    BY <1>0, <1>1, <2>1 DEF EditBox, LookupType
  <2>3. lookup' \in LookupType
    BY <1>0, <2>2 DEF LookupType
  <2> QED BY <1>0, <1>1, <1>a, <2>3 DEF EditBox, OnIpPage
<1>2. ASSUME NEW b \in Ip, AnalyzeRow(b) PROVE IpTypeOK' /\ IsFiniteSet(commands') /\ page = "ip-intelligence"
  <2> DEFINE v == [lookup EXCEPT !.box = b, !.calm = FALSE]
  <2>0. StartSearch(v, lookup.box, selectedHost, 1)
    BY <1>2 DEF AnalyzeRow
  <2>1. v \in LookupType /\ lookup.box \in Ip \cup {NoIp}
    BY <1>0 DEF LookupType
  <2> HIDE DEF v
  <2>2. lookup' \in LookupType /\ searches' \subseteq Search
    BY <1>0, <2>0, <2>1, StartSearchTyped
  <2> QED BY <1>0, <1>2, <1>a, <2>2 DEF AnalyzeRow, OnEmptyPage, OnIpPage
<1>3. ASSUME NEW b \in Ip, QuickBlock(b) PROVE IpTypeOK' /\ IsFiniteSet(commands') /\ page = "ip-intelligence"
  <2>1. selectedHost # All
    BY <1>3 DEF QuickBlock, Send
  <2>2. [ip |-> b, host |-> selectedHost, box |-> NoIp, analysis |-> FALSE] \in Command
    BY <1>0, <2>1 DEF Command, Selection
  <2> QED BY <1>3, <1>b, <2>2 DEF QuickBlock, OnEmptyPage, OnIpPage
<1>4. CASE Enter
  <2>1. lookup' \in LookupType /\ searches' \subseteq Search
    <3>1. lookup.box \in Ip \cup {NoIp}
      BY <1>0 DEF LookupType
    <3> QED BY <1>0, <1>4, <3>1, StartSearchTyped DEF Enter
  <2> QED BY <1>0, <1>4, <1>a, <2>1 DEF Enter, OnIpPage
<1>5. CASE LoadMore
  <2>1. lookup' \in LookupType /\ searches' \subseteq Search
    <3>1. lookup.box \in Ip \cup {NoIp} /\ lookup.logPage + 1 \in Nat \ {0}
      BY <1>0 DEF LookupType
    <3> QED BY <1>0, <1>5, <3>1, StartSearchTyped DEF LoadMore
  <2> QED BY <1>0, <1>5, <1>a, <2>1 DEF LoadMore, OnIpPage
<1>6. CASE RefreshList
  <2>1. lookup' \in LookupType /\ lists' \subseteq Listing
    BY <1>0, <1>6, FetchingTyped, StartListingTyped DEF RefreshList
  <2> QED BY <1>0, <1>6, <1>a, <2>1 DEF RefreshList, OnEmptyPage, OnIpPage
<1>7. CASE BlockAnalysed
  <2>1. selectedHost # All /\ lookup.result # Nothing
    BY <1>7 DEF BlockAnalysed, Send
  <2>2. lookup.result \in Result /\ lookup.box \in Ip \cup {NoIp}
    BY <1>0, <2>1 DEF LookupType
  <2>3. [ip |-> lookup.result.ip, host |-> selectedHost, box |-> lookup.box, analysis |-> TRUE] \in Command
    BY <1>0, <2>1, <2>2 DEF Command, Selection, Result
  <2> QED BY <1>7, <1>b, <2>3 DEF BlockAnalysed, Send, OnIpPage
<1> QED BY <1>1, <1>2, <1>3, <1>4, <1>5, <1>6, <1>7
(* The answers and the timers. *)
LEMMA AskAgainTyped ==
    ASSUME NEW v \in LookupType, NEW c \in Command, searches \subseteq Search, lists \subseteq Listing,
           IF c.analysis THEN StartSearch(v, c.box, c.host, 1) ELSE lookup' = v /\ UNCHANGED searches,
           StartListing(c.host)
    PROVE  lookup' \in LookupType /\ searches' \subseteq Search /\ lists' \subseteq Listing
<1>1. c.box \in Ip \cup {NoIp} /\ c.host \in Selection /\ 1 \in Nat \ {0}
  BY DEF Command, Selection
<1>2. CASE c.analysis
  BY <1>1, <1>2, StartSearchTyped, StartListingTyped
<1>3. CASE ~c.analysis
  BY <1>1, <1>3, StartListingTyped
<1> QED BY <1>2, <1>3

LEMMA PromisedTyped ==
    ASSUME NEW v \in LookupType, NEW h \in Host, NEW n \in Nat
    PROVE  [v EXCEPT !.promised[h] = n] \in LookupType
<1>1. [v EXCEPT !.promised[h] = n] = [v EXCEPT !.promised = [v.promised EXCEPT ![h] = n]]
  BY DEF LookupType
<1>2. [v.promised EXCEPT ![h] = n] \in [Host -> Nat]
  BY DEF LookupType
<1> QED BY <1>1, <1>2 DEF LookupType

LEMMA IpAnswersTyped ==
    ASSUME IpTyped,
           \/ \E s \in searches : SearchArrives(s) \/ SearchRefused(s) \/ SearchFails(s)
           \/ \E q \in lists : ListRead(q) \/ ListArrives(q) \/ ListFails(q) \/ ListRefused(q)
           \/ \E c \in commands : CommandAccepted(c) \/ CommandRefused(c) \/ CommandFails(c)
           \/ \E c \in refreshes : Refresh(c)
    PROVE  IpTypeOK' /\ IsFiniteSet(commands') /\ page = "ip-intelligence"
<1>0. /\ lookup \in LookupType /\ searches \subseteq Search /\ lists \subseteq Listing
      /\ commands \subseteq Command /\ refreshes \subseteq Command /\ record \in [Host -> Nat]
      /\ IsFiniteSet(commands)
  BY IpTypes DEF IpTyped
<1>a. page = "ip-intelligence"
  BY DEF IpTyped
<1>b. ASSUME lookup' \in LookupType, searches' \subseteq Search, lists' \subseteq Listing,
             commands' \subseteq commands, refreshes' \subseteq Command, record' \in [Host -> Nat]
      PROVE  IpTypeOK' /\ IsFiniteSet(commands')
  <2>1. IsFiniteSet(commands') /\ commands' \subseteq Command
    BY <1>0, <1>b, FS_Subset
  <2> QED BY <1>b, <2>1 DEF IpTypeOK, LookupType
<1>1. ASSUME NEW s \in searches, SearchArrives(s) PROVE IpTypeOK' /\ IsFiniteSet(commands')
  <2>1. Shown(s) \in Result /\ s.page \in Nat \ {0}
    BY <1>0, <1>1, ShownTyped DEF SearchArrives, IpTyped, Search
  <2>2. lookup' \in LookupType
    BY <1>0, <1>1, <2>1 DEF SearchArrives, LookupType
  <2> QED BY <1>0, <1>1, <1>b, <2>2 DEF SearchArrives
<1>2. ASSUME NEW s \in searches, SearchFails(s) \/ SearchRefused(s) PROVE IpTypeOK' /\ IsFiniteSet(commands')
  <2>1. lookup' \in LookupType
    BY <1>0, <1>2 DEF SearchFails, SearchRefused, LookupType
  <2> QED BY <1>0, <1>2, <1>b, <2>1 DEF SearchFails, SearchRefused
<1>3. ASSUME NEW q \in lists, ListRead(q) PROVE IpTypeOK' /\ IsFiniteSet(commands')
  <2>1. [q EXCEPT !.read = record[q.host]] \in Listing
    BY <1>0 DEF Listing
  <2> QED BY <1>0, <1>3, <1>b, <2>1 DEF ListRead
<1>4. ASSUME NEW q \in lists, ListArrives(q) PROVE IpTypeOK' /\ IsFiniteSet(commands')
  <2>1. q.host \in Host /\ q.read \in Nat
    BY <1>0, <1>4 DEF ListArrives, Listing
  <2>2. PICK n \in Nat : n = IF lookup.seen[q.host] < q.read THEN q.read ELSE lookup.seen[q.host]
    BY <1>0, <2>1 DEF LookupType
  <2>3. [lookup.seen EXCEPT ![q.host] = n] \in [Host -> Nat]
    BY <1>0, <2>1 DEF LookupType
  <2>4. [host |-> q.host, version |-> q.read] \in Rows
    BY <2>1 DEF Rows
  <2>5. lookup' = [lookup EXCEPT !.rows = [host |-> q.host, version |-> q.read], !.listLoading = FALSE,
                                 !.seen = [lookup.seen EXCEPT ![q.host] = n]]
    BY <1>0, <1>4, <2>2 DEF ListArrives, LookupType
  <2>6. lookup' \in LookupType
    BY <1>0, <2>3, <2>4, <2>5 DEF LookupType
  <2> QED BY <1>0, <1>4, <1>b, <2>6 DEF ListArrives
<1>5. ASSUME NEW q \in lists, ListFails(q) \/ ListRefused(q) PROVE IpTypeOK' /\ IsFiniteSet(commands')
  <2>1. lookup' \in LookupType
    BY <1>0, <1>5 DEF ListFails, ListRefused, LookupType
  <2> QED BY <1>0, <1>5, <1>b, <2>1 DEF ListFails, ListRefused
<1>6. ASSUME NEW c \in commands, CommandAccepted(c) PROVE IpTypeOK' /\ IsFiniteSet(commands')
  <2>1. c \in Command /\ c.host \in Host
    BY <1>0 DEF Command
  <2>2. record[c.host] + 1 \in Nat /\ [record EXCEPT ![c.host] = record[c.host] + 1] \in [Host -> Nat]
    BY <1>0, <2>1
  <2> DEFINE v == Fetching([lookup EXCEPT !.promised[c.host] = record[c.host] + 1], c.host)
  <2>3. v \in LookupType
    BY <1>0, <2>1, <2>2, PromisedTyped, FetchingTyped
  <2>4. /\ IF c.analysis THEN StartSearch(v, c.box, c.host, 1) ELSE lookup' = v /\ UNCHANGED searches
        /\ StartListing(c.host)
    BY <1>6 DEF CommandAccepted
  <2> HIDE DEF v
  <2>5. lookup' \in LookupType /\ searches' \subseteq Search /\ lists' \subseteq Listing
    BY <1>0, <2>1, <2>3, <2>4, AskAgainTyped
  <2>6. /\ commands' \subseteq commands /\ refreshes' \subseteq Command
        /\ record' \in [Host -> Nat]
    BY <1>0, <1>6, <2>1, <2>2 DEF CommandAccepted
  <2> QED BY <1>b, <2>5, <2>6
<1>7. ASSUME NEW c \in commands, CommandFails(c) \/ CommandRefused(c) PROVE IpTypeOK' /\ IsFiniteSet(commands')
  <2>1. c.host \in Host
    BY <1>0 DEF Command
  <2>2. record' \in [Host -> Nat]
    BY <1>0, <1>7, <2>1 DEF CommandFails, CommandRefused
  <2> QED BY <1>0, <1>7, <1>b, <2>2 DEF CommandFails, CommandRefused
<1>8. ASSUME NEW c \in refreshes, Refresh(c) PROVE IpTypeOK' /\ IsFiniteSet(commands')
  <2>1. c \in Command
    BY <1>0
  <2> DEFINE v == Fetching(lookup, c.host)
  <2>2. v \in LookupType
    BY <1>0, FetchingTyped
  <2>3. /\ IF c.analysis THEN StartSearch(v, c.box, c.host, 1) ELSE lookup' = v /\ UNCHANGED searches
        /\ StartListing(c.host)
    BY <1>8 DEF Refresh
  <2> HIDE DEF v
  <2>4. lookup' \in LookupType /\ searches' \subseteq Search /\ lists' \subseteq Listing
    BY <1>0, <2>1, <2>2, <2>3, AskAgainTyped
  <2> QED BY <1>0, <1>8, <1>b, <2>4 DEF Refresh
<1> QED BY <1>a, <1>1, <1>2, <1>3, <1>4, <1>5, <1>6, <1>7, <1>8

LEMMA IpTypedStep == SessionTypeOK /\ SessionTypeOK' /\ IpTyped /\ [Next]_vars => IpTyped'
<1> SUFFICES ASSUME SessionTypeOK, SessionTypeOK', IpTyped, [Next]_vars PROVE IpTyped'
  OBVIOUS
<1>0. selectedHost' \in Selection
  BY DEF SessionTypeOK, Selection
<1>1. CASE IpMount \/ IpUnmount
  <2>1. /\ record' \in [Host -> Nat] /\ searches' = {} /\ commands' = {} /\ refreshes' = {}
    BY <1>1, CommandsLeftTyped DEF IpMount, IpUnmount
  <2>2. /\ lookup' \in LookupType
        /\ lists' \subseteq Listing
        /\ page' # "ip-intelligence" => lookup'.result = Nothing /\ lists' = {}
    <3>1. CASE lookup' = NoLookup /\ lists' = {}
      BY <3>1, NoLookupTyped DEF NoLookup
    <3>2. CASE /\ page' = "ip-intelligence" /\ selectedHost' # All
               /\ lookup' = Fetching(NoLookup, selectedHost')
               /\ lists' = {[tag |-> 1, host |-> selectedHost', read |-> Nothing]}
      <4>1. 1 \in 1..MaxLists /\ selectedHost' \in Host
        BY <1>0, <3>2, IpAssumption DEF Selection
      <4>2. [tag |-> 1, host |-> selectedHost', read |-> Nothing] \in Listing
        BY <4>1 DEF Listing
      <4> QED BY <3>2, <4>2, NoLookupTyped, FetchingTyped
    <3> QED BY <1>1, <3>1, <3>2 DEF IpMount, IpUnmount
  <2>3. IsFiniteSet(commands')
    BY <2>1, FS_EmptySet
  <2> QED BY <2>1, <2>2, <2>3 DEF IpTyped, IpTypeOK, LookupType
<1>2. CASE IpFollowHost /\ UNCHANGED page
  <2>1. CASE page = "ip-intelligence"
    <3>0. lookup \in LookupType /\ lists \subseteq Listing
      BY IpTypes DEF IpTyped
    <3>1. PICK calm \in BOOLEAN : calm = (lookup.calm /\ searches = {})
      BY Zenon
    <3>2. PICK one \in Nat \ {0} : one = 1
      OBVIOUS
    <3> DEFINE v == [lookup EXCEPT !.result = Nothing, !.logPage = one, !.failed = FALSE, !.calm = calm]
    <3>3. lookup' = Fetching(v, selectedHost')
      BY <1>2, <2>1, <3>0, <3>1, <3>2 DEF IpFollowHost, LookupType
    <3>4. v \in LookupType
      BY <3>0 DEF LookupType
    <3> HIDE DEF v
    <3>5. lookup' \in LookupType
      BY <3>3, <3>4, FetchingTyped
    <3>6. lists' \subseteq Listing
      BY <1>0, <1>2, <2>1, <3>0, StartListingTyped DEF IpFollowHost
    <3> QED BY <1>2, <2>1, <3>5, <3>6 DEF IpFollowHost, IpTyped, IpTypeOK, LookupType
  <2>2. CASE page # "ip-intelligence"
    BY <1>2, <2>2 DEF IpFollowHost, IpTyped, IpTypeOK
  <2> QED BY <2>1, <2>2
<1>3. CASE IpNext
  <2>1. UNCHANGED page
    BY <1>3 DEF IpNext, sessionKept
  <2>2. IpTypeOK' /\ IsFiniteSet(commands') /\ page = "ip-intelligence"
    BY <1>3, IpUserTyped, IpAnswersTyped DEF IpNext
  <2> QED BY <2>1, <2>2 DEF IpTyped
<1>4. CASE UNCHANGED <<ipVars, page, selectedHost>>
  BY <1>4 DEF ipVars, IpTyped, IpTypeOK
<1> QED BY <1>1, <1>2, <1>3, <1>4, IpFrame

LEMMA IpTypedInit == Init => IpTyped
<1> SUFFICES ASSUME Init PROVE IpTyped
  OBVIOUS
<1>1. selectedHost \in Host \cup {All}
  BY SessionTypedInit DEF SessionTypeOK
<1>2. lookup \in LookupType /\ (page # "ip-intelligence" => lookup.result = Nothing)
  BY NoLookupTyped, FetchingTyped DEF Init, NoLookup
<1>3. lists \subseteq Listing /\ (page # "ip-intelligence" => lists = {})
  <2>1. 1 \in 1..MaxLists
    BY IpAssumption
  <2>2. selectedHost # All => [tag |-> 1, host |-> selectedHost, read |-> Nothing] \in Listing
    BY <1>1, <2>1 DEF Listing
  <2> QED BY <2>2 DEF Init
<1>4. IsFiniteSet(commands)
  BY FS_EmptySet DEF Init
<1> QED BY <1>2, <1>3, <1>4 DEF Init, IpTyped, IpTypeOK, LookupType

ConsoleTyped == SessionTypeOK /\ TimersInv /\ PagesTyped /\ IpTyped /\ FormsTyped /\ OrphansTyped

LEMMA ConsoleTypedInit == Init => ConsoleTyped
BY SessionTypedInit, TimersInit, PagesTypedInit, IpTypedInit, FormsTypedInit DEF ConsoleTyped, OrphansTyped, Init

LEMMA ConsoleTypedStep == ConsoleTyped /\ [Next]_vars => ConsoleTyped'
BY SessionTypedStep, TimersStep, PagesTypedStep, IpTypedStep, FormsTypedStep, OrphansStep DEF ConsoleTyped

(* In every reachable state every variable of the console has its type, only    *)
(* requests of the mounted page are on their way, and no chart is longer than  *)
(* the page lets it grow. *)
THEOREM TypeOKHolds == Spec => []TypeOK
<1>1. ConsoleTyped => TypeOK
  BY PagesTypedOK DEF ConsoleTyped, IpTyped, FormsTyped, OrphansTyped, TypeOK
<1> QED BY <1>1, ConsoleTypedInit, ConsoleTypedStep, PTL DEF Spec
-----------------------------------------------------------------------------
(* The analysis.  A page is calm while nothing is on its way, or one search of  *)
(* what is in the box and selected: the first page, with no result yet, or the  *)
(* page after the last one of the result.                                      *)

InOrder(v, h) == v.result # Nothing =>
    v.result.ip = v.box /\ v.result.host = h /\ v.result.pages >= 1 /\ v.logPage = v.result.pages

Expected(s, v, h) ==
    /\ s.ip = v.box /\ s.host = h /\ v.loading
    /\ IF s.page = 1 THEN v.result = Nothing ELSE v.result # Nothing /\ s.page = v.logPage + 1

CalmOf(v, flight, h) ==
    v.calm => InOrder(v, h) /\ (flight = {} \/ \E s \in Search : flight = {s} /\ Expected(s, v, h))

CalmInv == CalmOf(lookup, searches, selectedHost)

(* A first page that is asked for clears the result, and is calm when it is     *)
(* alone and asked for what is in the box. *)
LEMMA FirstPageCalm ==
    ASSUME NEW v \in LookupType, NEW b \in Ip \cup {NoIp}, NEW h \in Selection,
           CalmOf(v, searches, selectedHost), StartSearch(v, b, h, 1), UNCHANGED selectedHost
    PROVE  CalmInv'
<1>1. CASE b = NoIp
  BY <1>1 DEF StartSearch, CalmInv
<1>2. CASE b # NoIp
  <2>1. lookup' = Searching(v, b, h, 1)
    BY <1>2 DEF StartSearch
  <2>2. PICK t \in 1..MaxSearches :
          searches' = searches \cup {[tag |-> t, ip |-> b, host |-> h, page |-> 1]}
    BY <1>2 DEF StartSearch, Free
  <2>3. /\ lookup'.result = Nothing /\ lookup'.loading /\ lookup'.box = v.box
        /\ lookup'.calm = (searches = {} /\ b = v.box /\ h = selectedHost)
    BY <2>1 DEF Searching, LookupType
  <2>4. [tag |-> t, ip |-> b, host |-> h, page |-> 1] \in Search
    BY <1>2 DEF Search
  <2>5. ASSUME lookup'.calm
        PROVE  /\ searches' = {[tag |-> t, ip |-> b, host |-> h, page |-> 1]}
               /\ b = lookup'.box /\ h = selectedHost'
    <3>1. searches = {} /\ b = v.box /\ h = selectedHost
      BY <2>3, <2>5, Zenon
    <3> QED BY <2>2, <2>3, <3>1
  <2>6. ASSUME lookup'.calm
        PROVE  Expected([tag |-> t, ip |-> b, host |-> h, page |-> 1], lookup', selectedHost')
    BY <2>3, <2>5, <2>6 DEF Expected
  <2> QED BY <2>3, <2>4, <2>5, <2>6 DEF CalmInv, CalmOf, InOrder
<1> QED BY <1>1, <1>2

LEMMA CalmUserStep ==
    ASSUME IpTyped, SessionTypeOK, CalmInv, UNCHANGED selectedHost,
           \/ \E b \in Ip \cup {NoIp} : EditBox(b)
           \/ \E b \in Ip : AnalyzeRow(b) \/ QuickBlock(b)
           \/ Enter \/ LoadMore \/ RefreshList \/ BlockAnalysed
    PROVE  CalmInv'
<1>0. /\ lookup \in LookupType /\ searches \subseteq Search /\ selectedHost \in Selection
      /\ lookup.box \in Ip \cup {NoIp} /\ lookup.logPage \in Nat \ {0}
  BY IpTypes DEF IpTyped, SessionTypeOK, Selection, LookupType
<1>1. ASSUME NEW b \in Ip \cup {NoIp}, EditBox(b) PROVE CalmInv'
  <2>1. /\ lookup'.calm = (lookup.calm /\ searches = {} /\ lookup.result = Nothing)
        /\ lookup'.result = lookup.result /\ searches' = searches
    BY <1>0, <1>1 DEF EditBox, LookupType
  <2>2. lookup'.calm => searches = {} /\ lookup.result = Nothing
    BY <2>1, Zenon
  <2> QED BY <2>1, <2>2 DEF CalmInv, CalmOf, InOrder
<1>2. ASSUME NEW b \in Ip, AnalyzeRow(b) PROVE CalmInv'
  <2> DEFINE v == [lookup EXCEPT !.box = b, !.calm = FALSE]
  <2>1. StartSearch(v, lookup.box, selectedHost, 1)
    BY <1>2 DEF AnalyzeRow
  <2>2. v \in LookupType /\ ~v.calm
    BY <1>0 DEF LookupType
  <2> HIDE DEF v
  <2> QED BY <1>0, <2>1, <2>2, FirstPageCalm DEF CalmOf
<1>3. CASE Enter
  BY <1>0, <1>3, FirstPageCalm DEF Enter, CalmInv
<1>4. CASE LoadMore
  <2> DEFINE p == lookup.logPage + 1
  <2>1. /\ lookup.result # Nothing /\ ~lookup.loading /\ lookup.box # NoIp
        /\ StartSearch(lookup, lookup.box, selectedHost, p)
    BY <1>4 DEF LoadMore
  <2>2. p \in Nat \ {0} /\ p # 1
    BY <1>0
  <2> HIDE DEF p
  <2>3. lookup' = Searching(lookup, lookup.box, selectedHost, p)
    BY <2>1 DEF StartSearch
  <2>4. PICK t \in 1..MaxSearches :
          searches' = searches \cup {[tag |-> t, ip |-> lookup.box, host |-> selectedHost, page |-> p]}
    BY <2>1 DEF StartSearch, Free
  <2> DEFINE s == [tag |-> t, ip |-> lookup.box, host |-> selectedHost, page |-> p]
  <2>5. /\ lookup'.result = lookup.result /\ lookup'.loading /\ lookup'.box = lookup.box
        /\ lookup'.logPage = lookup.logPage /\ lookup'.calm = lookup.calm
    BY <1>0, <2>2, <2>3 DEF Searching, LookupType
  <2>6. s \in Search
    BY <1>0, <2>1, <2>2 DEF Search
  <2>7. Expected(s, lookup', selectedHost')
    BY <2>1, <2>2, <2>5 DEF Expected, p
  <2>8. lookup.calm => searches' = {s} /\ InOrder(lookup', selectedHost')
    BY <2>1, <2>4, <2>5 DEF CalmInv, CalmOf, Expected, InOrder
  <2> HIDE DEF s
  <2> QED BY <2>5, <2>6, <2>7, <2>8 DEF CalmInv, CalmOf
<1>5. CASE RefreshList
  BY <1>0, <1>5 DEF RefreshList, Fetching, CalmInv, CalmOf, InOrder, Expected, LookupType
<1>6. CASE BlockAnalysed \/ \E b \in Ip : QuickBlock(b)
  BY <1>6 DEF BlockAnalysed, QuickBlock, Send, CalmInv
<1> QED BY <1>1, <1>2, <1>3, <1>4, <1>5, <1>6

(* Only a search changes what is calm about a page. *)
SameCalm(v) ==
    /\ v.box = lookup.box /\ v.result = lookup.result /\ v.logPage = lookup.logPage
    /\ v.loading = lookup.loading /\ v.calm = lookup.calm

LEMMA SameCalmOf ==
    ASSUME CalmInv, NEW v, SameCalm(v)
    PROVE  CalmOf(v, searches, selectedHost)
BY DEF CalmInv, CalmOf, InOrder, Expected, SameCalm

LEMMA AskAgainCalm ==
    ASSUME NEW v \in LookupType, NEW c \in Command, CalmInv, SameCalm(v), UNCHANGED selectedHost,
           IF c.analysis THEN StartSearch(v, c.box, c.host, 1) ELSE lookup' = v /\ UNCHANGED searches
    PROVE  CalmInv'
<1>0. CalmOf(v, searches, selectedHost) /\ c.box \in Ip \cup {NoIp} /\ c.host \in Selection
  BY SameCalmOf DEF Command, Selection
<1>1. CASE c.analysis
  BY <1>0, <1>1, FirstPageCalm
<1>2. CASE ~c.analysis
  BY <1>0, <1>2 DEF CalmInv
<1> QED BY <1>1, <1>2

LEMMA CalmAnswersStep ==
    ASSUME IpTyped, CalmInv, UNCHANGED selectedHost,
           \/ \E s \in searches : SearchArrives(s) \/ SearchRefused(s) \/ SearchFails(s)
           \/ \E q \in lists : ListRead(q) \/ ListArrives(q) \/ ListFails(q) \/ ListRefused(q)
           \/ \E c \in commands : CommandAccepted(c) \/ CommandRefused(c) \/ CommandFails(c)
           \/ \E c \in refreshes : Refresh(c)
    PROVE  CalmInv'
<1>0. /\ lookup \in LookupType /\ searches \subseteq Search /\ commands \subseteq Command
      /\ refreshes \subseteq Command /\ record \in [Host -> Nat] /\ lists \subseteq Listing
  BY IpTypes DEF IpTyped
<1>a. ASSUME SameCalm(lookup'), UNCHANGED searches PROVE CalmInv'
  BY <1>a, SameCalmOf DEF CalmInv
<1>1. ASSUME NEW s \in searches, SearchArrives(s) PROVE CalmInv'
  <2>1. /\ lookup'.result = Shown(s) /\ lookup'.logPage = s.page /\ lookup'.box = lookup.box
        /\ lookup'.calm = lookup.calm /\ searches' = searches \ {s} /\ ~Throws(s)
    BY <1>0, <1>1 DEF SearchArrives, LookupType
  <2>2. ASSUME lookup.calm PROVE searches' = {} /\ Expected(s, lookup, selectedHost) /\ InOrder(lookup, selectedHost)
    BY <2>1, <2>2 DEF CalmInv, CalmOf
  <2>3. ASSUME lookup.calm PROVE InOrder(lookup', selectedHost')
    <3>1. s.ip = lookup.box /\ s.host = selectedHost /\ s.page \in Nat \ {0}
      BY <1>0, <2>2, <2>3 DEF Expected, Search
    <3>2. CASE s.page = 1
      BY <2>1, <3>1, <3>2 DEF Shown, InOrder
    <3>3. CASE s.page # 1
      <4>1. /\ lookup.result # Nothing /\ s.page = lookup.logPage + 1
            /\ lookup.result.ip = lookup.box /\ lookup.result.host = selectedHost
            /\ lookup.result.pages >= 1 /\ lookup.logPage = lookup.result.pages
        BY <2>2, <2>3, <3>3 DEF Expected, InOrder
      <4>2. lookup.result \in Result
        BY <1>0, <4>1 DEF LookupType
      <4>3. lookup.result.pages \in Nat
        BY <4>2 DEF Result
      <4>4. lookup'.result = [lookup.result EXCEPT !.pages = lookup.result.pages + 1]
        BY <2>1, <3>1, <3>3, <4>1, <4>2, <4>3 DEF Shown, Appended
      <4>5. /\ lookup'.result.ip = lookup.result.ip /\ lookup'.result.host = lookup.result.host
            /\ lookup'.result.pages = lookup.result.pages + 1
        BY <4>2, <4>4 DEF Result
      <4> QED BY <2>1, <3>1, <4>1, <4>3, <4>5 DEF InOrder
    <3> QED BY <3>2, <3>3
  <2> QED BY <2>1, <2>2, <2>3 DEF CalmInv, CalmOf
<1>2. ASSUME NEW s \in searches, SearchFails(s) \/ SearchRefused(s) PROVE CalmInv'
  <2>1. /\ lookup'.result = lookup.result /\ lookup'.logPage = lookup.logPage /\ lookup'.box = lookup.box
        /\ lookup'.calm = lookup.calm /\ searches' = searches \ {s}
    BY <1>0, <1>2 DEF SearchFails, SearchRefused, LookupType
  <2> QED BY <2>1 DEF CalmInv, CalmOf, InOrder
<1>3. ASSUME NEW q \in lists, ListRead(q) PROVE CalmInv'
  BY <1>3 DEF ListRead, CalmInv
<1>4. ASSUME NEW q \in lists, ListArrives(q) \/ ListFails(q) \/ ListRefused(q) PROVE CalmInv'
  <2>1. SameCalm(lookup') /\ UNCHANGED searches
    BY <1>0, <1>4 DEF ListArrives, ListFails, ListRefused, SameCalm, LookupType
  <2> QED BY <1>a, <2>1
<1>5. ASSUME NEW c \in commands, CommandAccepted(c) PROVE CalmInv'
  <2>1. c \in Command /\ c.host \in Host /\ record[c.host] + 1 \in Nat
    BY <1>0 DEF Command
  <2> DEFINE u == [lookup EXCEPT !.promised[c.host] = record[c.host] + 1]
             v == Fetching(u, c.host)
  <2>2. u \in LookupType /\ SameCalm(u)
    BY <1>0, <2>1, PromisedTyped DEF SameCalm, LookupType
  <2>3. IF c.analysis THEN StartSearch(v, c.box, c.host, 1) ELSE lookup' = v /\ UNCHANGED searches
    BY <1>5 DEF CommandAccepted
  <2> HIDE DEF u
  <2>4. v \in LookupType /\ SameCalm(v)
    BY <2>2, FetchingTyped DEF Fetching, SameCalm, LookupType
  <2> HIDE DEF v
  <2> QED BY <2>1, <2>3, <2>4, AskAgainCalm
<1>6. ASSUME NEW c \in commands, CommandFails(c) \/ CommandRefused(c) PROVE CalmInv'
  BY <1>6 DEF CommandFails, CommandRefused, CalmInv
<1>7. ASSUME NEW c \in refreshes, Refresh(c) PROVE CalmInv'
  <2> DEFINE v == Fetching(lookup, c.host)
  <2>1. IF c.analysis THEN StartSearch(v, c.box, c.host, 1) ELSE lookup' = v /\ UNCHANGED searches
    BY <1>7 DEF Refresh
  <2>2. v \in LookupType /\ SameCalm(v)
    BY <1>0, FetchingTyped DEF Fetching, SameCalm, LookupType
  <2> HIDE DEF v
  <2> QED BY <1>0, <2>1, <2>2, AskAgainCalm
<1> QED BY <1>1, <1>2, <1>3, <1>4, <1>5, <1>6, <1>7

LEMMA CalmStep == ConsoleTyped /\ CalmInv /\ [Next]_vars => CalmInv'
<1> SUFFICES ASSUME ConsoleTyped, CalmInv, [Next]_vars PROVE CalmInv'
  OBVIOUS
<1>0. IpTyped /\ SessionTypeOK
  BY DEF ConsoleTyped
<1>1. CASE IpMount \/ IpUnmount
  <2>1. searches' = {} /\ lookup'.result = Nothing
    BY <1>1, NoLookupTyped DEF IpMount, IpUnmount, NoLookup, Fetching
  <2> QED BY <2>1 DEF CalmInv, CalmOf, InOrder
<1>2. CASE IpFollowHost /\ UNCHANGED page
  <2>1. CASE page = "ip-intelligence"
    <3>0. lookup \in LookupType
      BY <1>0, IpTypes DEF IpTyped
    <3>1. lookup'.calm = (lookup.calm /\ searches = {}) /\ lookup'.result = Nothing /\ UNCHANGED searches
      BY <1>2, <2>1, <3>0 DEF IpFollowHost, Fetching, LookupType
    <3>2. lookup'.calm => searches = {}
      BY <3>1, Zenon
    <3> QED BY <3>1, <3>2 DEF CalmInv, CalmOf, InOrder
  <2>2. CASE page # "ip-intelligence"
    BY <1>0, <1>2, <2>2 DEF IpFollowHost, IpTyped, CalmInv, CalmOf, InOrder
  <2> QED BY <2>1, <2>2
<1>3. CASE IpNext
  BY <1>0, <1>3, CalmUserStep, CalmAnswersStep DEF IpNext, sessionKept
<1>4. CASE UNCHANGED <<ipVars, page, selectedHost>>
  BY <1>4 DEF ipVars, CalmInv
<1> QED BY <1>1, <1>2, <1>3, <1>4, IpFrame

(* An analysis that nothing has disturbed is of the address in the box on the   *)
(* selected host, and its lines are the pages that were loaded, in order and    *)
(* without gaps, in every reachable state. *)
THEOREM CalmPagesInOrderHolds == Spec => []CalmPagesInOrder
<1>1. Init => CalmInv
  BY NoLookupTyped DEF Init, NoLookup, Fetching, CalmInv, CalmOf, InOrder
<1>2. CalmInv => CalmPagesInOrder
  BY DEF CalmInv, CalmOf, InOrder, CalmPagesInOrder
<1> QED BY <1>1, <1>2, ConsoleTypedInit, ConsoleTypedStep, CalmStep, PTL DEF Spec
-----------------------------------------------------------------------------
(* The promise of a toast.  Until the list of its host has been shown with the  *)
(* command in it, two things stand for it: the request that was sent at once,   *)
(* and the timer or the request it sends.  A fault takes at most one of them.   *)

Stands(q, h) == q.host = h /\ (q.read = Nothing \/ q.read >= lookup.promised[h])
Awaited(h) == \E q \in lists : Stands(q, h)
Timed(h) == \E c \in refreshes : c.host = h
AwaitedTwice(h) == \E q \in lists : Stands(q, h) /\ (Timed(h) \/ \E u \in lists \ {q} : Stands(u, h))

Faults(n) == tour.left["faults"] <= left["faults"] + n

PromiseStands(h) ==
    \/ lookup.promised[h] <= lookup.seen[h]
    \/ token # "valid"
    \/ (Faults(0) => AwaitedTwice(h)) /\ (Faults(1) => Awaited(h) \/ Timed(h))

TagsDiffer == \A q, u \in lists : q.tag = u.tag => q = u

PromiseInv ==
    /\ \A h \in Host : lookup.promised[h] <= record[h] /\ PromiseStands(h)
    /\ TagsDiffer
    /\ tour.left["faults"] \in Nat /\ left["faults"] <= tour.left["faults"]

(* A token is only made valid by a login, which loads the console anew. *)
LEMMA TokenNotRenewed ==
    ASSUME [Next]_vars
    PROVE  IpMount \/ token' = token \/ token' # "valid"
<1>1. CASE FullLoad \/ (\E h \in Host : OpenLogsAddress(h)) \/ \E p \in Pages : NavigateTo(p)
  BY <1>1 DEF FullLoad, Mount, OpenLogsAddress, NavigateTo
<1>2. CASE \/ \E h \in Host \cup {All} : SelectHostOfPage(h)
           \/ \E list \in SUBSET Host : HostsListed(list)
           \/ (\E k \in orphans : OrphanAnswered(k))
           \/ NullListCrashes \/ RenderThrows \/ SessionAlone
  BY <1>2 DEF SelectHostOfPage, SelectHost, HostsListed, HostsArrive, NullListCrashes, NullListArrives,
              RenderThrows, Crash, OrphanAnswered, sessionVars,
              SessionAlone, Expire, AskHosts, HostsArriveTooLate, HostsRefusedAtLogin, HostsFail
<1>3. CASE PagesNext
  BY <1>3 DEF PagesNext, Choose, ChooseRate, OpenService, Tick, Answer, AnswerDoesNotParse, Refused,
              AnswerFails, sessionVars
<1>4. CASE IpNext \/ FormsNext
  BY <1>4 DEF IpNext, FormsNext, sessionKept
<1>5. CASE UNCHANGED vars
  BY <1>5 DEF vars, sessionVars
<1> QED BY <1>1, <1>2, <1>3, <1>4, <1>5 DEF Next, SessionNext

(* A step that keeps the timers and the requests, and the promises. *)
LEMMA PromiseKept ==
    ASSUME NEW h \in Host, PromiseStands(h), left \in [Budget -> Nat], Spent, UNCHANGED tour,
           tour.left["faults"] \in Nat, token' = token \/ token' # "valid",
           lists \subseteq lists', refreshes \subseteq refreshes',
           lookup'.promised[h] = lookup.promised[h], lookup'.seen[h] = lookup.seen[h]
    PROVE  PromiseStands(h)'
<1>1. left'["faults"] \in Nat /\ left["faults"] \in Nat /\ left'["faults"] <= left["faults"]
  BY SpendTyped DEF Budget
<1>2. /\ Faults(0)' => Faults(0)
      /\ Faults(1)' => Faults(1)
  BY <1>1 DEF Faults
<1>3. \A q : Stands(q, h) => Stands(q, h)'
  BY DEF Stands
<1>4. (Awaited(h) => Awaited(h)') /\ (Timed(h) => Timed(h)') /\ (AwaitedTwice(h) => AwaitedTwice(h)')
  BY <1>3 DEF Awaited, Timed, AwaitedTwice
<1> QED BY <1>2, <1>4 DEF PromiseStands
(* A request of the list has a tag that no other has. *)
LEMMA ListingStarted ==
    ASSUME NEW h \in Host, TagsDiffer, StartListing(h)
    PROVE  /\ TagsDiffer' /\ lists \subseteq lists'
           /\ \E n \in lists' \ lists : n.host = h /\ n.read = Nothing
<1>1. h # All
  BY HostsAssumption
<1>2. PICK t \in Free(lists, MaxLists) : lists' = lists \cup {[tag |-> t, host |-> h, read |-> Nothing]}
  BY <1>1 DEF StartListing
<1> DEFINE n == [tag |-> t, host |-> h, read |-> Nothing]
<1>3. \A q \in lists : q.tag # t
  BY DEF Free
<1>4. n.tag = t /\ n.host = h /\ n.read = Nothing
  OBVIOUS
<1>5. n \notin lists /\ n \in lists'
  BY <1>2, <1>3, <1>4
<1> HIDE DEF n
<1>6. TagsDiffer'
  <2> SUFFICES ASSUME NEW q \in lists', NEW u \in lists', q.tag = u.tag PROVE q = u
    BY DEF TagsDiffer
  <2>1. lists' = lists \cup {n}
    BY <1>2 DEF n
  <2> QED BY <1>3, <1>4, <2>1 DEF TagsDiffer
<1> QED BY <1>2, <1>4, <1>5, <1>6

LEMMA ListingAny ==
    ASSUME NEW h \in Selection, TagsDiffer, StartListing(h)
    PROVE  TagsDiffer' /\ lists \subseteq lists'
<1>1. CASE h = All
  BY <1>1 DEF StartListing, TagsDiffer
<1>2. CASE h # All
  BY <1>2, ListingStarted DEF Selection
<1> QED BY <1>1, <1>2

(* The search that goes with a refreshed list leaves the promises alone. *)
LEMMA SearchPromises ==
    ASSUME NEW v \in LookupType, NEW b, NEW h, NEW p, StartSearch(v, b, h, p)
    PROVE  lookup'.promised = v.promised /\ lookup'.seen = v.seen
BY DEF StartSearch, Searching, LookupType

LEMMA FetchingPromises ==
    ASSUME NEW v \in LookupType, NEW h
    PROVE  Fetching(v, h).promised = v.promised /\ Fetching(v, h).seen = v.seen
BY DEF Fetching, LookupType

(* Steps after which everything that stood for a promise still does. *)
PromisesSame ==
    /\ lists \subseteq lists' /\ refreshes \subseteq refreshes' /\ TagsDiffer'
    /\ lookup'.promised = lookup.promised /\ lookup'.seen = lookup.seen
    /\ \A h \in Host : record'[h] >= record[h] /\ record'[h] \in Nat

LEMMA SameStep ==
    ASSUME ConsoleTyped, PromiseInv, [Next]_vars, PromisesSame, token' = token \/ token' # "valid"
    PROVE  PromiseInv'
<1>1. UNCHANGED tour /\ Spent /\ left \in [Budget -> Nat]
  BY SpentOnly DEF ConsoleTyped, SessionTypeOK
<1>2. left'["faults"] <= left["faults"] /\ left'["faults"] \in Nat /\ left["faults"] \in Nat
  BY <1>1, SpendTyped DEF Budget
<1>3. \A h \in Host : lookup.promised[h] \in Nat /\ record[h] \in Nat
  BY IpTypes DEF ConsoleTyped, IpTyped, LookupType
<1>4. ASSUME NEW h \in Host PROVE lookup'.promised[h] <= record'[h] /\ PromiseStands(h)'
  BY <1>1, <1>3, PromiseKept DEF PromiseInv, PromisesSame
<1> QED BY <1>1, <1>2, <1>4 DEF PromiseInv, PromisesSame

LEMMA PromiseUserStep ==
    ASSUME ConsoleTyped, PromiseInv,
           \/ \E b \in Ip \cup {NoIp} : EditBox(b)
           \/ \E b \in Ip : AnalyzeRow(b) \/ QuickBlock(b)
           \/ Enter \/ LoadMore \/ RefreshList \/ BlockAnalysed
    PROVE  PromisesSame
<1>0. /\ lookup \in LookupType /\ record \in [Host -> Nat] /\ selectedHost \in Selection
  BY IpTypes DEF ConsoleTyped, IpTyped, SessionTypeOK, Selection
<1>a. \A h \in Host : record[h] >= record[h] /\ record[h] \in Nat
  BY <1>0
<1>b. TagsDiffer
  BY DEF PromiseInv
<1>c. ASSUME UNCHANGED <<lists, refreshes, record>>,
             lookup'.promised = lookup.promised, lookup'.seen = lookup.seen
      PROVE  PromisesSame
  BY <1>a, <1>b, <1>c DEF PromisesSame, TagsDiffer
<1>1. ASSUME NEW b \in Ip \cup {NoIp}, EditBox(b) PROVE PromisesSame
  BY <1>0, <1>1, <1>c DEF EditBox, LookupType
<1>2. ASSUME NEW b \in Ip, AnalyzeRow(b) PROVE PromisesSame
  <2> DEFINE v == [lookup EXCEPT !.box = b, !.calm = FALSE]
  <2>1. StartSearch(v, lookup.box, selectedHost, 1)
    BY <1>2 DEF AnalyzeRow
  <2>2. v \in LookupType /\ v.promised = lookup.promised /\ v.seen = lookup.seen
    BY <1>0 DEF LookupType
  <2> HIDE DEF v
  <2> QED BY <1>2, <1>c, <2>1, <2>2, SearchPromises DEF AnalyzeRow
<1>3. CASE Enter
  BY <1>0, <1>3, <1>c, SearchPromises DEF Enter
<1>4. CASE LoadMore
  BY <1>0, <1>4, <1>c, SearchPromises DEF LoadMore
<1>5. CASE RefreshList
  <2>1. lookup'.promised = lookup.promised /\ lookup'.seen = lookup.seen
    BY <1>0, <1>5, FetchingPromises DEF RefreshList
  <2>2. TagsDiffer' /\ lists \subseteq lists'
    BY <1>0, <1>5, <1>b, ListingAny DEF RefreshList
  <2> QED BY <1>5, <1>a, <2>1, <2>2 DEF RefreshList, PromisesSame
<1>6. CASE BlockAnalysed \/ \E b \in Ip : QuickBlock(b)
  BY <1>6, <1>c DEF BlockAnalysed, QuickBlock, Send
<1> QED BY <1>1, <1>2, <1>3, <1>4, <1>5, <1>6
(* The answers, one by one. *)
PromiseFacts ==
    /\ lookup \in LookupType /\ record \in [Host -> Nat]
    /\ lists \subseteq Listing /\ commands \subseteq Command /\ refreshes \subseteq Command
    /\ left \in [Budget -> Nat] /\ left["faults"] \in Nat
    /\ \A h \in Host : lookup.promised[h] \in Nat /\ lookup.seen[h] \in Nat /\ record[h] \in Nat

LEMMA PromiseTypes == ConsoleTyped => PromiseFacts
BY IpTypes DEF ConsoleTyped, IpTyped, SessionTypeOK, PromiseFacts, LookupType, Budget

(* The server reads the firewall's state after the command. *)
LEMMA PromiseRead ==
    ASSUME PromiseFacts, PromiseInv, NEW q \in lists, ListRead(q), UNCHANGED <<tour, token>>
    PROVE  PromiseInv'
<1>0. PICK r : r = [q EXCEPT !.read = record[q.host]]
  OBVIOUS
<1>1. /\ lists' = (lists \ {q}) \cup {r} /\ q \in Listing
      /\ UNCHANGED <<left, lookup, refreshes, record>>
  BY <1>0 DEF ListRead, PromiseFacts
<1>2. r.tag = q.tag /\ r.host = q.host /\ r.read = record[q.host] /\ q.host \in Host
  BY <1>0, <1>1 DEF Listing
<1>3. TagsDiffer'
  <2> SUFFICES ASSUME NEW u \in lists', NEW w \in lists', u.tag = w.tag PROVE u = w
    BY DEF TagsDiffer
  <2> QED BY <1>1, <1>2 DEF PromiseInv, TagsDiffer
<1>4. ASSUME NEW h \in Host PROVE PromiseStands(h)'
  <2>1. Stands(q, h) => Stands(r, h)'
    BY <1>1, <1>2 DEF Stands, PromiseInv, PromiseFacts
  <2>2. \A u : Stands(u, h) => Stands(u, h)'
    BY <1>1 DEF Stands
  <2>3. Awaited(h) => Awaited(h)'
    BY <1>1, <2>1, <2>2 DEF Awaited
  <2>4. Timed(h) => Timed(h)'
    BY <1>1 DEF Timed
  <2>5. \A u \in lists \ {q} : u \in lists' /\ u # r
    BY <1>1, <1>2 DEF PromiseInv, TagsDiffer
  <2>6. AwaitedTwice(h) => AwaitedTwice(h)'
    <3> SUFFICES ASSUME NEW u \in lists, Stands(u, h), Timed(h) \/ \E w \in lists \ {u} : Stands(w, h)
                 PROVE  AwaitedTwice(h)'
      BY DEF AwaitedTwice
    <3>1. CASE Timed(h)
      BY <1>1, <2>1, <2>2, <2>4, <2>5, <3>1 DEF AwaitedTwice
    <3>2. ASSUME NEW w \in lists \ {u}, Stands(w, h) PROVE AwaitedTwice(h)'
      <4>1. CASE u = q
        BY <1>1, <2>1, <2>2, <2>5, <3>2, <4>1 DEF AwaitedTwice
      <4>2. CASE w = q
        BY <1>1, <2>1, <2>2, <2>5, <3>2, <4>2 DEF AwaitedTwice
      <4>3. CASE u # q /\ w # q
        BY <1>1, <2>2, <2>5, <3>2, <4>3 DEF AwaitedTwice
      <4> QED BY <4>1, <4>2, <4>3
    <3> QED BY <3>1, <3>2
  <2>7. (Faults(0)' <=> Faults(0)) /\ (Faults(1)' <=> Faults(1))
    BY <1>1 DEF Faults
  <2>8. lookup'.promised[h] = lookup.promised[h] /\ lookup'.seen[h] = lookup.seen[h]
    BY <1>1
  <2> QED BY <2>3, <2>4, <2>6, <2>7, <2>8 DEF PromiseInv, PromiseStands
<1> QED BY <1>1, <1>3, <1>4 DEF PromiseInv

(* A request that leaves takes no other with it. *)
LEMMA OthersStand ==
    ASSUME NEW h, NEW q \in lists, lists' = lists \ {q}, UNCHANGED refreshes,
           lookup'.promised = lookup.promised
    PROVE  /\ AwaitedTwice(h) => Awaited(h)' \/ Timed(h)'
           /\ ~Stands(q, h) => /\ Awaited(h) => Awaited(h)'
                               /\ AwaitedTwice(h) => AwaitedTwice(h)'
           /\ Timed(h) => Timed(h)'
<1>1. \A u : Stands(u, h) => Stands(u, h)'
  BY DEF Stands
<1>2. Timed(h) => Timed(h)'
  BY DEF Timed
<1>3. ASSUME AwaitedTwice(h) PROVE Awaited(h)' \/ Timed(h)'
  BY <1>1, <1>2, <1>3 DEF AwaitedTwice, Awaited
<1>4. ASSUME ~Stands(q, h), Awaited(h) PROVE Awaited(h)'
  BY <1>1, <1>4 DEF Awaited
<1>5. ASSUME ~Stands(q, h), AwaitedTwice(h) PROVE AwaitedTwice(h)'
  BY <1>1, <1>2, <1>5 DEF AwaitedTwice
<1> QED BY <1>2, <1>3, <1>4, <1>5

LEMMA PromiseArrives ==
    ASSUME PromiseFacts, PromiseInv, NEW q \in lists, ListArrives(q), UNCHANGED <<tour, token>>
    PROVE  PromiseInv'
<1>1. /\ lists' = lists \ {q} /\ UNCHANGED <<left, refreshes, record>>
      /\ lookup'.promised = lookup.promised /\ q.read # Nothing
  BY DEF ListArrives, PromiseFacts, LookupType
<1>2. q.host \in Host /\ q.read \in Nat
  BY <1>1 DEF PromiseFacts, Listing
<1>3. lookup'.seen = [lookup.seen EXCEPT ![q.host] =
                        IF lookup.seen[q.host] < q.read THEN q.read ELSE lookup.seen[q.host]]
  BY DEF ListArrives, PromiseFacts, LookupType
<1>4. TagsDiffer'
  BY <1>1 DEF PromiseInv, TagsDiffer
<1>5. lookup.seen \in [Host -> Nat]
  BY DEF PromiseFacts, LookupType
<1>6. ASSUME NEW h \in Host PROVE PromiseStands(h)'
  <2>1. lookup'.seen[h] >= lookup.seen[h] /\ lookup'.seen[h] \in Nat
    BY <1>2, <1>3, <1>5
  <2>2. CASE Stands(q, h)
    <3>1. h = q.host /\ q.read >= lookup.promised[h]
      BY <1>1, <2>2 DEF Stands
    <3>2. lookup'.seen[h] >= q.read
      BY <1>2, <1>3, <1>5, <3>1
    <3> QED BY <1>1, <1>2, <2>1, <3>1, <3>2 DEF PromiseStands, PromiseFacts
  <2>3. CASE ~Stands(q, h)
    <3>1. /\ Awaited(h) => Awaited(h)'
          /\ AwaitedTwice(h) => AwaitedTwice(h)'
          /\ Timed(h) => Timed(h)'
      BY <1>1, <2>3, OthersStand
    <3>2. (Faults(0)' <=> Faults(0)) /\ (Faults(1)' <=> Faults(1))
      BY <1>1 DEF Faults
    <3>3. lookup.promised[h] <= lookup.seen[h] => lookup'.promised[h] <= lookup'.seen[h]
      BY <1>1, <2>1 DEF PromiseFacts
    <3> QED BY <3>1, <3>2, <3>3 DEF PromiseInv, PromiseStands
  <2> QED BY <2>2, <2>3
<1> QED BY <1>1, <1>4, <1>6 DEF PromiseInv

(* One fault takes one of the two; a token that has expired takes all. *)
LEMMA PromiseFails ==
    ASSUME PromiseFacts, PromiseInv, NEW q \in lists, ListFails(q) \/ ListRefused(q), UNCHANGED <<tour, token>>
    PROVE  PromiseInv'
<1>1. /\ lists' = lists \ {q} /\ UNCHANGED <<refreshes, record>>
      /\ lookup'.promised = lookup.promised /\ lookup'.seen = lookup.seen
  BY DEF ListFails, ListRefused, PromiseFacts, LookupType
<1>2. TagsDiffer'
  BY <1>1 DEF PromiseInv, TagsDiffer
<1>3. CASE ListRefused(q)
  BY <1>1, <1>2, <1>3 DEF ListRefused, PromiseInv, PromiseStands
<1>4. CASE ListFails(q) /\ left \in [Budget -> Nat]
  <2>1. left'["faults"] = left["faults"] - 1
    BY <1>4 DEF ListFails, Spend, Budget
  <2>2. ~Faults(0)' /\ (Faults(1)' => Faults(0))
    BY <2>1 DEF Faults, PromiseInv, PromiseFacts
  <2>3. ASSUME NEW h \in Host PROVE PromiseStands(h)'
    BY <1>1, <2>2, OthersStand DEF PromiseInv, PromiseStands
  <2> QED BY <1>1, <1>2, <2>1, <2>3 DEF PromiseInv, PromiseFacts
<1>5. left \in [Budget -> Nat]
  BY DEF PromiseFacts
<1> QED BY <1>3, <1>4, <1>5
(* What a command that was accepted, or its timer, asks for. *)
LEMMA AskAgainPromises ==
    ASSUME NEW v \in LookupType, NEW c,
           IF c.analysis THEN StartSearch(v, c.box, c.host, 1) ELSE lookup' = v /\ UNCHANGED searches
    PROVE  lookup'.promised = v.promised /\ lookup'.seen = v.seen
BY SearchPromises

LEMMA PromiseAccepted ==
    ASSUME PromiseFacts, PromiseInv, NEW c \in commands, CommandAccepted(c), UNCHANGED <<tour, token>>
    PROVE  PromiseInv'
<1>1. PICK n : n = record[c.host] + 1
  OBVIOUS
<1>2. /\ c \in Command /\ c.host \in Host /\ n \in Nat
      /\ record' = [record EXCEPT ![c.host] = n] /\ refreshes' = refreshes \cup {c}
      /\ StartListing(c.host) /\ UNCHANGED left
  BY <1>1 DEF CommandAccepted, PromiseFacts, Command
<1> DEFINE u == [lookup EXCEPT !.promised[c.host] = n]
           v == Fetching(u, c.host)
<1>3. u \in LookupType
  BY <1>2, PromisedTyped DEF PromiseFacts
<1>4. u.promised = [lookup.promised EXCEPT ![c.host] = n] /\ u.seen = lookup.seen
  BY DEF PromiseFacts, LookupType
<1>5. IF c.analysis THEN StartSearch(v, c.box, c.host, 1) ELSE lookup' = v /\ UNCHANGED searches
  BY <1>1 DEF CommandAccepted
<1> HIDE DEF u
<1>6. v \in LookupType /\ v.promised = u.promised /\ v.seen = u.seen
  BY <1>3, FetchingTyped, FetchingPromises
<1> HIDE DEF v
<1>7. lookup'.promised = [lookup.promised EXCEPT ![c.host] = n] /\ lookup'.seen = lookup.seen
  BY <1>4, <1>5, <1>6, AskAgainPromises
<1>8. lookup.promised \in [Host -> Nat]
  BY DEF PromiseFacts, LookupType
<1>9. /\ TagsDiffer' /\ lists \subseteq lists'
      /\ \E r \in lists' \ lists : r.host = c.host /\ r.read = Nothing
  BY <1>2, ListingStarted DEF PromiseInv
<1>10. (Faults(0)' <=> Faults(0)) /\ (Faults(1)' <=> Faults(1))
  BY <1>2 DEF Faults
<1>11. ASSUME NEW h \in Host PROVE lookup'.promised[h] <= record'[h] /\ PromiseStands(h)'
  <2>1. CASE h = c.host
    <3>1. lookup'.promised[h] = n /\ record'[h] = n
      BY <1>2, <1>7, <1>8, <2>1 DEF PromiseFacts
    <3>2. Awaited(h)' /\ Timed(h)'
      BY <1>2, <1>9, <2>1 DEF Awaited, Timed, Stands
    <3>3. AwaitedTwice(h)'
      BY <3>2 DEF Awaited, AwaitedTwice
    <3> QED BY <1>2, <3>1, <3>2, <3>3 DEF PromiseStands
  <2>2. CASE h # c.host
    <3>1. lookup'.promised[h] = lookup.promised[h] /\ record'[h] = record[h] /\ lookup'.seen[h] = lookup.seen[h]
      BY <1>2, <1>7, <1>8, <2>2 DEF PromiseFacts
    <3>2. \A q : Stands(q, h) => Stands(q, h)'
      BY <3>1 DEF Stands
    <3>3. /\ Awaited(h) => Awaited(h)'
          /\ Timed(h) => Timed(h)'
          /\ AwaitedTwice(h) => AwaitedTwice(h)'
      BY <1>2, <1>9, <3>2 DEF Awaited, Timed, AwaitedTwice
    <3> QED BY <1>10, <3>1, <3>3 DEF PromiseInv, PromiseStands
  <2> QED BY <2>1, <2>2
<1> QED BY <1>2, <1>9, <1>11 DEF PromiseInv

(* The timer gives way to a request. *)
LEMMA PromiseRefresh ==
    ASSUME PromiseFacts, PromiseInv, NEW c \in refreshes, Refresh(c), UNCHANGED <<tour, token>>
    PROVE  PromiseInv'
<1>1. /\ c \in Command /\ c.host \in Host
      /\ refreshes' = refreshes \ {c} /\ StartListing(c.host) /\ UNCHANGED <<left, record>>
  BY DEF Refresh, PromiseFacts, Command
<1> DEFINE v == Fetching(lookup, c.host)
<1>2. IF c.analysis THEN StartSearch(v, c.box, c.host, 1) ELSE lookup' = v /\ UNCHANGED searches
  BY DEF Refresh
<1>3. v \in LookupType /\ v.promised = lookup.promised /\ v.seen = lookup.seen
  BY FetchingTyped, FetchingPromises DEF PromiseFacts
<1> HIDE DEF v
<1>4. lookup'.promised = lookup.promised /\ lookup'.seen = lookup.seen
  BY <1>2, <1>3, AskAgainPromises
<1>5. /\ TagsDiffer' /\ lists \subseteq lists'
      /\ \E r \in lists' \ lists : r.host = c.host /\ r.read = Nothing
  BY <1>1, ListingStarted DEF PromiseInv
<1>6. (Faults(0)' <=> Faults(0)) /\ (Faults(1)' <=> Faults(1))
  BY <1>1 DEF Faults
<1>7. ASSUME NEW h \in Host PROVE PromiseStands(h)'
  <2>1. \A q : Stands(q, h) => Stands(q, h)'
    BY <1>4 DEF Stands
  <2>2. CASE h = c.host
    <3>1. PICK r \in lists' \ lists : r.host = h /\ r.read = Nothing
      BY <1>5, <2>2
    <3>2. Stands(r, h)'
      BY <3>1 DEF Stands
    <3>3. Awaited(h)'
      BY <3>1, <3>2 DEF Awaited
    <3>4. AwaitedTwice(h) => AwaitedTwice(h)'
      <4>1. SUFFICES ASSUME NEW q \in lists, Stands(q, h) PROVE AwaitedTwice(h)'
        BY DEF AwaitedTwice
      <4>2. q \in lists' /\ Stands(q, h)' /\ r \in lists' \ {q}
        BY <1>5, <2>1, <3>1, <4>1
      <4> QED BY <3>2, <4>2 DEF AwaitedTwice
    <3> QED BY <1>4, <1>6, <3>3, <3>4 DEF PromiseInv, PromiseStands
  <2>3. CASE h # c.host
    <3>1. /\ Awaited(h) => Awaited(h)'
          /\ Timed(h) => Timed(h)'
          /\ AwaitedTwice(h) => AwaitedTwice(h)'
      BY <1>1, <1>5, <2>1, <2>3 DEF Awaited, Timed, AwaitedTwice
    <3> QED BY <1>4, <1>6, <3>1 DEF PromiseInv, PromiseStands
  <2> QED BY <2>2, <2>3
<1> QED BY <1>1, <1>4, <1>5, <1>7 DEF PromiseInv

LEMMA PromiseStep == ConsoleTyped /\ PromiseInv /\ [Next]_vars => PromiseInv'
<1> SUFFICES ASSUME ConsoleTyped, PromiseInv, [Next]_vars PROVE PromiseInv'
  OBVIOUS
<1>a. PromiseFacts /\ IpTyped
  BY PromiseTypes DEF ConsoleTyped
<1>b. \A h \in Host : record[h] >= record[h] /\ record[h] \in Nat
  BY <1>a DEF PromiseFacts
<1>c. TagsDiffer
  BY DEF PromiseInv
<1>d. UNCHANGED tour /\ Spent
  BY SpentOnly
<1>1. CASE IpMount \/ IpUnmount
  <2>1. record' \in [Host -> Nat]
    BY <1>1, <1>a, CommandsLeftTyped DEF IpMount, IpUnmount
  <2>2. lookup'.promised = [h \in Host |-> 0] /\ lookup'.seen = [h \in Host |-> 0]
    BY <1>1, NoLookupTyped, FetchingPromises DEF IpMount, IpUnmount, NoLookup
  <2>3. TagsDiffer'
    BY <1>1 DEF IpMount, IpUnmount, TagsDiffer
  <2>4. ASSUME NEW h \in Host PROVE lookup'.promised[h] <= record'[h] /\ PromiseStands(h)'
    BY <2>1, <2>2 DEF PromiseStands
  <2>5. left \in [Budget -> Nat] /\ left["faults"] \in Nat
    BY <1>a DEF PromiseFacts
  <2>6. left'["faults"] <= left["faults"] /\ left'["faults"] \in Nat
    BY <1>d, <2>5, SpendTyped DEF Budget
  <2> QED BY <1>d, <2>3, <2>4, <2>5, <2>6 DEF PromiseInv
<1>2. CASE ~(IpMount \/ IpUnmount) /\ IpFollowHost
  <2>1. token' = token \/ token' # "valid"
    BY <1>2, TokenNotRenewed
  <2>2. CASE page = "ip-intelligence"
    <3>1. selectedHost' \in Selection
      BY SessionTypedStep DEF ConsoleTyped, SessionTypeOK, Selection
    <3>2. TagsDiffer' /\ lists \subseteq lists'
      BY <1>2, <1>c, <2>2, <3>1, ListingAny DEF IpFollowHost
    <3>3. lookup'.promised = lookup.promised /\ lookup'.seen = lookup.seen
      BY <1>2, <1>a, <2>2 DEF IpFollowHost, Fetching, PromiseFacts, LookupType
    <3> QED BY <1>2, <1>b, <2>1, <3>2, <3>3, SameStep DEF IpFollowHost, PromisesSame
  <2>3. CASE page # "ip-intelligence"
    BY <1>2, <1>b, <1>c, <2>1, <2>3, SameStep DEF IpFollowHost, PromisesSame, TagsDiffer
  <2> QED BY <2>2, <2>3
<1>3. CASE IpNext
  <2>0. UNCHANGED <<tour, token>>
    BY <1>3 DEF IpNext, sessionKept
  <2>1. CASE \/ \E b \in Ip \cup {NoIp} : EditBox(b)
             \/ \E b \in Ip : AnalyzeRow(b) \/ QuickBlock(b)
             \/ Enter \/ LoadMore \/ RefreshList \/ BlockAnalysed
    BY <2>0, <2>1, PromiseUserStep, SameStep
  <2>2. ASSUME NEW s \in searches, SearchArrives(s) \/ SearchRefused(s) \/ SearchFails(s) PROVE PromiseInv'
    <3>1. lookup'.promised = lookup.promised /\ lookup'.seen = lookup.seen
      BY <1>a, <2>2 DEF SearchArrives, SearchRefused, SearchFails, PromiseFacts, LookupType
    <3> QED BY <1>b, <1>c, <2>0, <2>2, <3>1, SameStep DEF SearchArrives, SearchRefused, SearchFails, PromisesSame, TagsDiffer
  <2>3. ASSUME NEW c \in commands, CommandFails(c) \/ CommandRefused(c) PROVE PromiseInv'
    <3>1. c.host \in Host
      BY <1>a DEF PromiseFacts, Command
    <3>2. \A h \in Host : record'[h] >= record[h] /\ record'[h] \in Nat
      BY <1>a, <2>3, <3>1 DEF CommandFails, CommandRefused, PromiseFacts
    <3> QED BY <1>c, <2>0, <2>3, <3>2, SameStep DEF CommandFails, CommandRefused, PromisesSame, TagsDiffer
  <2>4. CASE \E q \in lists : ListRead(q) \/ ListArrives(q) \/ ListFails(q) \/ ListRefused(q)
    BY <1>a, <2>0, <2>4, PromiseRead, PromiseArrives, PromiseFails
  <2>5. CASE (\E c \in commands : CommandAccepted(c)) \/ \E c \in refreshes : Refresh(c)
    BY <1>a, <2>0, <2>5, PromiseAccepted, PromiseRefresh
  <2> QED BY <1>3, <2>1, <2>2, <2>3, <2>4, <2>5 DEF IpNext
<1>4. CASE ~(IpMount \/ IpUnmount) /\ UNCHANGED ipVars
  <2>1. token' = token \/ token' # "valid"
    BY <1>4, TokenNotRenewed
  <2> QED BY <1>4, <1>b, <1>c, <2>1, SameStep DEF ipVars, PromisesSame, TagsDiffer
<1> QED BY <1>1, <1>2, <1>3, <1>4, IpFrame

LEMMA PromiseInit == Init => PromiseInv
<1> SUFFICES ASSUME Init PROVE PromiseInv
  OBVIOUS
<1>1. lookup.promised = [h \in Host |-> 0] /\ lookup.seen = [h \in Host |-> 0]
  BY NoLookupTyped, FetchingPromises DEF Init, NoLookup
<1>2. \A h \in Host : lookup.promised[h] <= record[h] /\ PromiseStands(h)
  BY <1>1 DEF Init, PromiseStands
<1>3. TagsDiffer
  BY DEF Init, TagsDiffer
<1>4. left["faults"] \in Nat /\ left = tour.left
  BY SessionTypedInit DEF Init, SessionInit, SessionTypeOK, Budget
<1> QED BY <1>2, <1>3, <1>4 DEF PromiseInv

(* What the toast of an accepted command promises comes true: once nothing is   *)
(* on its way any more and unless two faults or an expired token came in       *)
(* between, the list of that host has been shown with the command in it. *)
THEOREM ToastComesTrueHolds == Spec => []ToastComesTrue
<1>1. PromiseInv => ToastComesTrue
  BY DEF PromiseInv, PromiseStands, ToastComesTrue, Faults, Awaited, Timed
<1> QED BY <1>1, ConsoleTypedInit, ConsoleTypedStep, PromiseInit, PromiseStep, PTL DEF Spec
=============================================================================
