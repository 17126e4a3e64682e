-------------------------- MODULE WebConsole_proofs --------------------------
(* What a step of the console is for each group of its pages, and the types of *)
(* the session: the lemmas that the proofs about the pages, the addresses and  *)
(* the forms rest on.  Then the pages that poll: no timer outlives the         *)
(* selection it polls for, and every request and every datum is of a loop of   *)
(* the mounted page.                                                           *)
EXTENDS WebConsole, SequenceTheorems, TLAPS

-----------------------------------------------------------------------------
(* A step of the session alone leaves the page and the selected host. *)
LEMMA AloneKeeps ==
    ASSUME SessionAlone
    PROVE  UNCHANGED <<page, selectedHost>>
BY DEF SessionAlone, Expire, AskHosts, HostsArriveTooLate, HostsRefusedAtLogin, HostsFail

(* For the forms, every step that is not theirs mounts them anew, or takes     *)
(* them away, or is none. *)
LEMMA FormsFrame ==
    ASSUME [Next]_vars
    PROVE  \/ FormsMount
           \/ FormsUnmount
           \/ FormsNext /\ UNCHANGED page
           \/ UNCHANGED <<formsVars, page>>
<1>1. CASE SessionNext
  <2>1. CASE FullLoad
    BY <2>1 DEF FullLoad, Mount
  <2>2. CASE \E h \in Host : OpenLogsAddress(h)
    BY <2>2 DEF OpenLogsAddress
  <2>3. CASE \E p \in Pages : NavigateTo(p)
    BY <2>3 DEF NavigateTo, Mount
  <2>4. CASE \E h \in Host \cup {All} : SelectHostOfPage(h)
    BY <2>4 DEF SelectHostOfPage, SelectHost
  <2>5. CASE \E list \in SUBSET Host : HostsListed(list)
    BY <2>5 DEF HostsListed, HostsArrive
  <2>6. CASE NullListCrashes
    BY <2>6 DEF NullListCrashes, Unmount
  <2>7. CASE RenderThrows
    BY <2>7 DEF RenderThrows, Unmount
  <2>8. CASE SessionAlone
    BY <2>8, AloneKeeps DEF SessionAlone
  <2>9. CASE \E k \in orphans : OrphanAnswered(k)
    BY <2>9 DEF OrphanAnswered, sessionVars
  <2> QED BY <1>1, <2>1, <2>2, <2>3, <2>4, <2>5, <2>6, <2>7, <2>8, <2>9 DEF SessionNext
<1>2. CASE PagesNext
  <2>1. UNCHANGED page
    BY <1>2 DEF PagesNext, Choose, ChooseRate, OpenService, Tick, Answer, AnswerDoesNotParse, Refused,
                AnswerFails, sessionVars
  <2> QED BY <1>2, <2>1 DEF PagesNext
<1>3. CASE IpNext
  BY <1>3 DEF IpNext, sessionKept
<1>4. CASE FormsNext
  BY <1>4 DEF FormsNext, sessionKept
<1>5. CASE UNCHANGED vars
  BY <1>5 DEF vars, sessionVars
<1> QED BY <1>1, <1>2, <1>3, <1>4, <1>5 DEF Next
(* For the pages that poll. *)
PagesFrame0 == UNCHANGED <<pagesVars, page, selectedHost>>
FollowsHost == UNCHANGED page /\ \E through \in SUBSET Selection : PagesFollowHost(through)
MountsAt    == \E h \in Selection : PagesMountAt(h)

LEMMA PagesFrame ==
    ASSUME SessionTypeOK, [Next]_vars
    PROVE  \/ PagesMount \/ MountsAt \/ PagesUnmount
           \/ FollowsHost
           \/ PagesNext
           \/ PagesFrame0
<1>1. CASE SessionNext
  <2>1. CASE FullLoad
    BY <2>1 DEF FullLoad, Mount
  <2>2. CASE \E h \in Host : OpenLogsAddress(h)
    BY <2>2 DEF OpenLogsAddress, MountsAt, SessionTypeOK, Selection
  <2>3. CASE \E p \in Pages : NavigateTo(p)
    BY <2>3 DEF NavigateTo, Mount
  <2>4. CASE \E h \in Host \cup {All} : SelectHostOfPage(h)
    <3>1. PICK h \in Host \cup {All} : SelectHostOfPage(h)
      BY <2>4
    <3>2. {h, selectedHost'} \in SUBSET Selection
      BY <3>1 DEF SelectHostOfPage, SelectHost, AutoSelected, Select, Selection, SessionTypeOK
    <3> QED BY <3>1, <3>2 DEF SelectHostOfPage, SelectHost, FollowsHost
  <2>5. CASE \E list \in SUBSET Host : HostsListed(list)
    <3>1. PICK list \in SUBSET Host : HostsListed(list)
      BY <2>5
    <3>2. {selectedHost'} \in SUBSET Selection
      BY <3>1 DEF HostsListed, HostsArrive, AutoSelected, Select, Selection, SessionTypeOK
    <3> QED BY <3>1, <3>2 DEF HostsListed, HostsArrive, FollowsHost, PagesFrame0
  <2>6. CASE NullListCrashes
    BY <2>6 DEF NullListCrashes, Unmount
  <2>7. CASE RenderThrows
    BY <2>7 DEF RenderThrows, Unmount
  <2>8. CASE SessionAlone
    BY <2>8, AloneKeeps DEF SessionAlone, PagesFrame0
  <2>9. CASE \E k \in orphans : OrphanAnswered(k)
    BY <2>9 DEF OrphanAnswered, sessionVars, PagesFrame0
  <2> QED BY <1>1, <2>1, <2>2, <2>3, <2>4, <2>5, <2>6, <2>7, <2>8, <2>9 DEF SessionNext
<1>2. CASE IpNext \/ FormsNext
  BY <1>2 DEF IpNext, FormsNext, sessionKept, PagesFrame0
<1>3. CASE UNCHANGED vars
  BY <1>3 DEF vars, sessionVars, PagesFrame0
<1> QED BY <1>1, <1>2, <1>3 DEF Next

(* For the page of the addresses. *)
LEMMA IpFrame ==
    ASSUME [Next]_vars
    PROVE  \/ IpMount \/ IpUnmount
           \/ IpFollowHost /\ UNCHANGED page
           \/ IpNext
           \/ UNCHANGED <<ipVars, page, selectedHost>>
<1>1. CASE SessionNext
  <2>1. CASE FullLoad
    BY <2>1 DEF FullLoad, Mount
  <2>2. CASE \E h \in Host : OpenLogsAddress(h)
    BY <2>2 DEF OpenLogsAddress
  <2>3. CASE \E p \in Pages : NavigateTo(p)
    BY <2>3 DEF NavigateTo, Mount
  <2>4. CASE \E h \in Host \cup {All} : SelectHostOfPage(h)
    BY <2>4 DEF SelectHostOfPage, SelectHost
  <2>5. CASE \E list \in SUBSET Host : HostsListed(list)
    BY <2>5 DEF HostsListed, HostsArrive
  <2>6. CASE NullListCrashes
    BY <2>6 DEF NullListCrashes, Unmount
  <2>7. CASE RenderThrows
    BY <2>7 DEF RenderThrows, Unmount
  <2>8. CASE SessionAlone
    BY <2>8, AloneKeeps DEF SessionAlone
  <2>9. CASE \E k \in orphans : OrphanAnswered(k)
    BY <2>9 DEF OrphanAnswered, sessionVars
  <2> QED BY <1>1, <2>1, <2>2, <2>3, <2>4, <2>5, <2>6, <2>7, <2>8, <2>9 DEF SessionNext
<1>2. CASE PagesNext
  <2>1. UNCHANGED <<page, selectedHost>>
    BY <1>2 DEF PagesNext, Choose, ChooseRate, OpenService, Tick, Answer, AnswerDoesNotParse, Refused,
                AnswerFails, sessionVars
  <2> QED BY <1>2, <2>1 DEF PagesNext
<1>3. CASE IpNext
  BY <1>3
<1>4. CASE FormsNext
  BY <1>4 DEF FormsNext, sessionKept
<1>5. CASE UNCHANGED vars
  BY <1>5 DEF vars, sessionVars
<1> QED BY <1>1, <1>2, <1>3, <1>4, <1>5 DEF Next

-----------------------------------------------------------------------------
(* The bounds of a tour are only ever spent.                                   *)

Spent == UNCHANGED left \/ \E kind \in Budget : Spend(kind)

LEMMA SpendTyped ==
    ASSUME left \in [Budget -> Nat], Spent
    PROVE  left' \in [Budget -> Nat] /\ left'["faults"] <= left["faults"]
<1>1. CASE UNCHANGED left
  BY <1>1 DEF Budget
<1>2. ASSUME NEW kind \in Budget, Spend(kind)
      PROVE  left' \in [Budget -> Nat] /\ left'["faults"] <= left["faults"]
  BY <1>2 DEF Spend, Budget
<1> QED BY <1>1, <1>2 DEF Spent

LEMMA SpentOnly ==
    ASSUME [Next]_vars
    PROVE  UNCHANGED tour /\ Spent
<1>0. \A kind \in {"changes", "faults", "loads", "writes"} : Spend(kind) => Spent
  BY DEF Spent, Budget
<1>00. UNCHANGED left => Spent
  BY DEF Spent
<1>1. CASE FullLoad
  BY <1>0, <1>00, <1>1 DEF FullLoad, Login, Logout, HostsRefused, OpenAddress, PageRefused, Redirect,
                          SettingsLoadRefused, OrphanRefused, TokenRemoved
<1>2. CASE \/ \E h \in Host : OpenLogsAddress(h)
           \/ \E p \in Pages : NavigateTo(p)
           \/ \E h \in Host \cup {All} : SelectHostOfPage(h)
           \/ \E list \in SUBSET Host : HostsListed(list)
           \/ NullListCrashes
           \/ \E k \in orphans : OrphanAnswered(k)
  BY <1>0, <1>00, <1>2 DEF OpenLogsAddress, NavigateTo, Navigate, SelectHostOfPage, SelectHost,
                          HostsListed, HostsArrive, NullListCrashes, NullListArrives, Crash,
                          OrphanAnswered, sessionVars
<1>8. CASE RenderThrows
  BY <1>0, <1>00, <1>8 DEF RenderThrows, SearchThrows, ReloadThrows, Crash
<1>3. CASE SessionAlone
  BY <1>0, <1>00, <1>3 DEF SessionAlone, Expire, AskHosts, HostsArriveTooLate, HostsRefusedAtLogin, HostsFail
<1>4. CASE PagesNext
  BY <1>0, <1>00, <1>4 DEF PagesNext, Choose, ChooseRate, OpenService, Tick, Answer, AnswerDoesNotParse, Refused,
                          AnswerFails, sessionVars
<1>5. CASE IpNext
  <2>1. UNCHANGED tour
    BY <1>5 DEF IpNext, sessionKept
  <2>2. CASE \/ \E b \in Ip \cup {NoIp} : EditBox(b)
             \/ \E b \in Ip : AnalyzeRow(b) \/ QuickBlock(b)
             \/ Enter \/ LoadMore \/ RefreshList \/ BlockAnalysed
    BY <1>0, <1>00, <2>1, <2>2 DEF EditBox, AnalyzeRow, QuickBlock, Enter, LoadMore, RefreshList,
                                  BlockAnalysed, Send
  <2>3. CASE \/ \E s \in searches : SearchArrives(s) \/ SearchRefused(s) \/ SearchFails(s)
             \/ \E q \in lists : ListRead(q) \/ ListArrives(q) \/ ListFails(q) \/ ListRefused(q)
             \/ \E c \in commands : CommandAccepted(c) \/ CommandRefused(c) \/ CommandFails(c)
             \/ \E c \in refreshes : Refresh(c)
    BY <1>0, <1>00, <2>1, <2>3 DEF SearchArrives, SearchRefused, SearchFails, ListRead, ListArrives, ListFails,
                                  ListRefused, CommandAccepted, CommandRefused, CommandFails, Refresh
  <2> QED BY <1>5, <2>2, <2>3 DEF IpNext
<1>6. CASE FormsNext
  <2>1. UNCHANGED tour
    BY <1>6 DEF FormsNext, sessionKept
  <2>2. CASE \/ SettingsRead \/ SettingsArrive \/ SettingsLoadFails
             \/ Save \/ SaveHandled \/ SaveFails
             \/ \E f \in Field : Type(f) \/ OtherSaves(f)
             \/ \E h \in Host \cup {Star} : Pick(h)
             \/ ClearPicks
    BY <1>0, <1>00, <2>1, <2>2 DEF SettingsRead, SettingsArrive, SettingsLoadFails, Save, SaveHandled,
                                  SaveFails, Type, OtherSaves, Pick, ClearPicks
  <2>3. CASE \/ OpenDialog \/ EditDialog \/ CancelDialog
             \/ \E kind \in Kinds("users") : SendWrite(kind)
             \/ \E w \in writes : WriteAccepted(w) \/ WriteRefused(w) \/ WriteLost(w)
             \/ OthersWrite
             \/ \E q \in reloads : ReloadRead(q) \/ ReloadArrives(q) \/ ReloadFails(q)
    BY <1>0, <1>00, <2>1, <2>3 DEF OpenDialog, EditDialog, CancelDialog, SendWrite, WriteAccepted,
                                  WriteRefused, WriteLost, OthersWrite, ReloadRead, ReloadArrives, ReloadFails
  <2> QED BY <1>6, <2>2, <2>3 DEF FormsNext
<1>7. CASE UNCHANGED vars
  BY <1>00, <1>7 DEF vars, sessionVars
<1> QED BY <1>1, <1>2, <1>3, <1>4, <1>5, <1>6, <1>7, <1>8 DEF Next, SessionNext
-----------------------------------------------------------------------------
(* The types of the session.                                                   *)

LEMMA LoadTyped ==
    ASSUME SessionTypeOK, UNCHANGED tour, Spent, NEW p, Load(p),
           token' \in {"none", "valid", "expired"}, role' \in Role \cup {"none"},
           savedHost' \in Host \cup {All}
    PROVE  SessionTypeOK'
<1>1. left' \in [Budget -> Nat]
  BY SpendTyped DEF SessionTypeOK
<1>2. tour.pages \subseteq Pages
  BY ToursAssumption DEF SessionTypeOK, Tour
<1>3. page' \in Pages \cup {"login"}
  BY <1>2 DEF Load
<1>4. crashed' \in BOOLEAN /\ hosts' \in SUBSET Host
  BY DEF Load
<1>5. hostsAsked' \in BOOLEAN
  BY Zenon DEF Load
<1>6. {savedHost', selectedHost'} \subseteq Host \cup {All}
  BY DEF Load
<1> QED BY <1>1, <1>3, <1>4, <1>5, <1>6 DEF SessionTypeOK

LEMMA SelectedTyped ==
    ASSUME SessionTypeOK, NEW list \in SUBSET Host, NEW h \in Host \cup {All},
           \E s \in AutoSelected(h, list) : Select(s)
    PROVE  {savedHost', selectedHost'} \subseteq Host \cup {All}
BY DEF AutoSelected, Select, SessionTypeOK

LEMMA SessionTypedStep == SessionTypeOK /\ [Next]_vars => SessionTypeOK'
<1> SUFFICES ASSUME SessionTypeOK, [Next]_vars PROVE SessionTypeOK'
  OBVIOUS
<1>a. UNCHANGED tour /\ Spent
  BY SpentOnly
<1>b. left' \in [Budget -> Nat]
  BY <1>a, SpendTyped DEF SessionTypeOK
<1>c. ASSUME UNCHANGED sessionKept PROVE SessionTypeOK'
  BY <1>a, <1>b, <1>c DEF sessionKept, SessionTypeOK
<1>1. CASE FullLoad
  <2>1. CASE Login
    BY <1>a, <2>1, LoadTyped DEF Login, SessionTypeOK
  <2>2. CASE Logout
    BY <1>a, <2>2, LoadTyped DEF Logout, SessionTypeOK
  <2>3. CASE HostsRefused
    BY <1>a, <2>3, LoadTyped DEF HostsRefused, SessionTypeOK
  <2>4. CASE \E p \in Pages : OpenAddress(p)
    BY <1>a, <2>4, LoadTyped DEF OpenAddress, SessionTypeOK
  <2>5. CASE PageRefused
    BY <1>a, <2>5, LoadTyped DEF PageRefused, Redirect, SessionTypeOK
  <2>6. CASE SettingsLoadRefused
    BY <1>a, <2>6, LoadTyped DEF SettingsLoadRefused, TokenRemoved, SessionTypeOK
  <2>7. CASE OrphanRefused
    BY <1>a, <2>7, LoadTyped DEF OrphanRefused, Redirect, TokenRemoved, SessionTypeOK
  <2> QED BY <1>1, <2>1, <2>2, <2>3, <2>4, <2>5, <2>6, <2>7 DEF FullLoad
<1>2. CASE \E h \in Host : OpenLogsAddress(h)
  BY <1>a, <1>2, LoadTyped DEF OpenLogsAddress, SessionTypeOK
<1>3. CASE \E p \in Pages : NavigateTo(p)
  BY <1>b, <1>3 DEF NavigateTo, Navigate, SessionTypeOK
<1>4. ASSUME NEW h \in Host \cup {All}, SelectHostOfPage(h) PROVE SessionTypeOK'
  <2>1. {savedHost', selectedHost'} \subseteq Host \cup {All}
    BY <1>4, SelectedTyped DEF SelectHostOfPage, SelectHost, SessionTypeOK
  <2> QED BY <1>b, <1>4, <2>1 DEF SelectHostOfPage, SelectHost, SessionTypeOK
<1>5. ASSUME NEW list \in SUBSET Host, HostsListed(list) PROVE SessionTypeOK'
  <2>1. {savedHost', selectedHost'} \subseteq Host \cup {All}
    BY <1>5, SelectedTyped DEF HostsListed, HostsArrive, SessionTypeOK
  <2> QED BY <1>b, <1>5, <2>1 DEF HostsListed, HostsArrive, SessionTypeOK
<1>6. CASE NullListCrashes
  BY <1>b, <1>6 DEF NullListCrashes, NullListArrives, Crash, SessionTypeOK
<1>7. CASE RenderThrows
  BY <1>b, <1>7 DEF RenderThrows, Crash, SessionTypeOK
<1>8. CASE SessionAlone
  BY <1>b, <1>8 DEF SessionAlone, Expire, AskHosts, HostsArriveTooLate, HostsRefusedAtLogin, HostsFail,
                    SessionTypeOK
<1>9. CASE PagesNext
  BY <1>c, <1>9 DEF PagesNext, Choose, ChooseRate, OpenService, Tick, Answer, AnswerDoesNotParse, Refused,
                    AnswerFails, sessionVars, sessionKept
<1>10. CASE IpNext \/ FormsNext
  BY <1>c, <1>10 DEF IpNext, FormsNext
<1>11. CASE UNCHANGED vars \/ \E k \in orphans : OrphanAnswered(k)
  BY <1>c, <1>11 DEF vars, OrphanAnswered, sessionVars, sessionKept
<1> QED BY <1>1, <1>2, <1>3, <1>4, <1>5, <1>6, <1>7, <1>8, <1>9, <1>10, <1>11 DEF Next, SessionNext

LEMMA SessionTypedInit == Init => SessionTypeOK
<1> SUFFICES ASSUME Init PROVE SessionTypeOK
  OBVIOUS
<1>1. tour \in Tours /\ tour \in Tour
  BY ToursAssumption DEF Init, SessionInit
<1>2. /\ tour.pages \subseteq Pages /\ tour.role \in Role
      /\ tour.saved \subseteq Host \cup {All} /\ tour.left \in [Budget -> Nat]
  BY <1>1 DEF Tour
<1> QED BY <1>1, <1>2 DEF Init, SessionInit, SessionTypeOK

-----------------------------------------------------------------------------
(* Facts about the table of the loops.                                         *)

(* What the timers' effects list, loop by loop: the host and the choice when   *)
(* the requests name them, the choice as well when it decides whether the      *)
(* effect does something or the requests name the service, and never the       *)
(* service itself. *)
Depends(x) ==
    /\ "host" \in x.by => "host" \in x.polls
    /\ "choice" \in x.by \/ "service" \in x.by \/ x.when # Choices => "choice" \in x.polls
    /\ "service" \notin x.polls
    /\ "service" \in x.by => "host" \notin x.polls

LEMMA LoopNames ==
    ASSUME NEW l \in DOMAIN Loops
    PROVE  l \in {"dashboard", "cpu", "memory", "storage", "networkLive", "networkHistory", "networkCurrent", "logs",
                  "logServices", "connectionsSummary", "connectionsDetails", "security", "servers", "services",
                  "apache", "mysql", "redis", "mongodb", "postgresql"}
BY DEF Loops

LEMMA LoopDepends ==
    ASSUME NEW l \in DOMAIN Loops
    PROVE  Depends(Loops[l])
<1>1. Depends(DashboardLoop)
  BY DEF Depends, Loop, DashboardLoop
<1>2. Depends(CpuLoop)
  BY DEF Depends, Loop, CpuLoop
<1>3. Depends(MemoryLoop)
  BY DEF Depends, Loop, MemoryLoop
<1>4. Depends(StorageLoop)
  BY DEF Depends, Loop, StorageLoop
<1>5. Depends(NetworkLive)
  BY DEF Depends, Loop, NetworkLive
<1>6. Depends(NetworkHistory)
  BY DEF Depends, Loop, NetworkHistory
<1>7. Depends(NetworkCurrent)
  BY DEF Depends, Loop, NetworkCurrent
<1>8. Depends(LogsLoop)
  BY DEF Depends, Loop, LogsLoop
<1>9. Depends(LogServices)
  BY DEF Depends, Loop, LogServices
<1>10. Depends(ConnectionsSummary)
  BY DEF Depends, Loop, ConnectionsSummary
<1>11. Depends(ConnectionsDetails)
  BY DEF Depends, Loop, ConnectionsDetails
<1>12. Depends(SecurityLoop)
  BY DEF Depends, Loop, SecurityLoop
<1>13. Depends(ServersLoop)
  BY DEF Depends, Loop, ServersLoop
<1>14. Depends(ServicesLoop)
  BY DEF Depends, Loop, ServicesLoop
<1>15. Depends(ApacheLoop)
  BY DEF Depends, Loop, ApacheLoop
<1>16. Depends(MySQLLoop)
  BY DEF Depends, Loop, MySQLLoop
<1>17. Depends(RedisLoop)
  BY DEF Depends, Loop, RedisLoop
<1>18. Depends(MongoDBLoop)
  BY DEF Depends, Loop, MongoDBLoop
<1>19. Depends(PostgreSQLLoop)
  BY DEF Depends, Loop, PostgreSQLLoop
<1> QED BY LoopNames, <1>1, <1>2, <1>3, <1>4, <1>5, <1>6, <1>7, <1>8, <1>9, <1>10, <1>11, <1>12, <1>13, <1>14, <1>15, <1>16, <1>17, <1>18, <1>19 DEF Loops

(* The loop whose requests a choice may send to another host depends on the    *)
(* choice. *)
LEMMA LogsByChoice == "choice" \in Loops["logs"].polls
BY DEF Loops, LogsLoop, Loop

(* A timer whose effect does not list a part would be set alike for every      *)
(* value of that part. *)
LEMMA TimerOfHost ==
    ASSUME NEW l \in DOMAIN Loops, "host" \notin Loops[l].polls,
           NEW g, NEW h, NEW c, NEW s, NEW rate
    PROVE  TimerOf(l, At(g, c, s), rate) = TimerOf(l, At(h, c, s), rate)
<1>1. "host" \notin Loops[l].by
  BY LoopDepends DEF Depends
<1> QED BY <1>1 DEF TimerOf, KeyOf, At

LEMMA TimerOfChoice ==
    ASSUME NEW l \in DOMAIN Loops, "choice" \notin Loops[l].polls,
           NEW h, NEW c \in Choices, NEW d \in Choices, NEW s, NEW t, NEW rate
    PROVE  TimerOf(l, At(h, c, s), rate) = TimerOf(l, At(h, d, t), rate)
<1>1. "choice" \notin Loops[l].by /\ "service" \notin Loops[l].by /\ Loops[l].when = Choices
  BY LoopDepends DEF Depends
<1>2. l # "logs"
  BY LogsByChoice
<1> QED BY <1>1, <1>2 DEF TimerOf, KeyOf, HostAsked, At

LEMMA TimerOfService ==
    ASSUME NEW l \in DOMAIN Loops, "host" \in Loops[l].polls,
           NEW h, NEW c, NEW s, NEW t, NEW rate
    PROVE  TimerOf(l, At(h, c, s), rate) = TimerOf(l, At(h, c, t), rate)
<1>1. "service" \notin Loops[l].by
  BY LoopDepends DEF Depends
<1> QED BY <1>1 DEF TimerOf, KeyOf, HostAsked, At

-----------------------------------------------------------------------------
(* The timers.                                                                 *)

ViewOf(v) == v = [choice |-> v.choice, service |-> v.service, since |-> v.since, rate |-> v.rate,
                  timers |-> v.timers, data |-> v.data]

TimersInv ==
    /\ ViewOf(view)
    /\ view.choice \in Choices
    /\ DOMAIN view.timers \subseteq LoopsOf(page)
    /\ TimersFollowSelection

(* The timers of a view, one by one. *)
Follow(v, h) == \A l \in DOMAIN v.timers : v.timers[l] = TimerOf(l, At(h, v.choice, v.since), v.rate)

LEMMA FollowSame == TimersFollowSelection <=> Follow(view, selectedHost)
BY DEF TimersFollowSelection, Follow, Selected, At

LEMMA FollowSamePrimed == TimersFollowSelection' <=> Follow(view', selectedHost')
BY DEF TimersFollowSelection, Follow, Selected, At

LEMMA FillKeepsTimers ==
    ASSUME TimersInv, NEW r, Fill(r)
    PROVE  /\ ViewOf(view')
           /\ view'.timers = view.timers /\ view'.choice = view.choice
           /\ view'.service = view.service /\ view'.since = view.since /\ view'.rate = view.rate
BY DEF TimersInv, ViewOf, Fill

LEMMA MountedTimers ==
    ASSUME view' = Mounted(page', selectedHost')
    PROVE  TimersInv'
<1>1. /\ view'.choice = Initial /\ view'.since = Initial /\ view'.rate = "on"
      /\ view'.timers = [l \in LoopsOf(page') |-> TimerOf(l, At(selectedHost', Initial, Initial), "on")]
      /\ ViewOf(view')
  BY DEF Mounted, ViewOf, Fresh
<1>2. Follow(view', selectedHost')
  BY <1>1 DEF Follow
<1>3. DOMAIN view'.timers \subseteq LoopsOf(page')
  BY <1>1
<1>4. view'.choice \in Choices
  BY <1>1 DEF Choices
<1> QED BY <1>1, <1>2, <1>3, <1>4, FollowSamePrimed DEF TimersInv, LoopsOf, ViewOf

LEMMA TimersStep == SessionTypeOK /\ TimersInv /\ [Next]_vars => TimersInv'
<1> SUFFICES ASSUME SessionTypeOK, TimersInv, [Next]_vars PROVE TimersInv'
  OBVIOUS
<1>a. /\ ViewOf(view) /\ view.choice \in Choices
      /\ DOMAIN view.timers \subseteq LoopsOf(page) /\ DOMAIN view.timers \subseteq DOMAIN Loops
      /\ Follow(view, selectedHost)
  BY FollowSame DEF TimersInv, LoopsOf
<1>b. ASSUME ViewOf(view'), view'.choice \in Choices, DOMAIN view'.timers \subseteq LoopsOf(page'),
             Follow(view', selectedHost')
      PROVE  TimersInv'
  BY <1>b, FollowSamePrimed DEF TimersInv, LoopsOf, ViewOf
<1>0. ASSUME UNCHANGED <<view, page, selectedHost>> PROVE TimersInv'
  BY <1>0, <1>a, <1>b DEF Follow
<1>1. CASE PagesMount \/ MountsAt
  BY <1>1, MountedTimers DEF PagesMount, MountsAt, PagesMountAt
<1>2. CASE PagesUnmount
  <2>1. DOMAIN view'.timers = {} /\ ViewOf(view') /\ view'.choice \in Choices
    BY <1>2 DEF PagesUnmount, NoView, ViewOf, Choices
  <2> QED BY <1>b, <2>1 DEF Follow
<1>3. CASE FollowsHost
  <2> DEFINE sel == At(selectedHost', view.choice, view.service)
  <2>1. /\ view' = [view EXCEPT !.timers = Restarted(Polling("host"), sel)]
        /\ page' = page
    BY <1>3 DEF FollowsHost, PagesFollowHost, Selected, At
  <2>2. /\ ViewOf(view')
        /\ view'.choice = view.choice /\ view'.since = view.since /\ view'.rate = view.rate
        /\ DOMAIN view'.timers = DOMAIN view.timers
        /\ \A l \in DOMAIN view.timers : view'.timers[l] =
              IF l \in Polling("host") THEN TimerOf(l, sel, view.rate) ELSE view.timers[l]
    BY <1>a, <2>1 DEF ViewOf, Restarted
  <2>3. ASSUME NEW l \in DOMAIN view.timers
        PROVE  view'.timers[l] = TimerOf(l, At(selectedHost', view.choice, view.since), view.rate)
    <3>1. CASE l \in Polling("host")
      <4>1. "host" \in Loops[l].polls /\ l \in DOMAIN Loops
        BY <1>a, <3>1 DEF Polling
      <4> QED BY <2>2, <3>1, <4>1, TimerOfService
    <3>2. CASE l \notin Polling("host")
      <4>1. "host" \notin Loops[l].polls /\ l \in DOMAIN Loops
        BY <1>a, <3>2 DEF Polling
      <4>2. view.timers[l] = TimerOf(l, At(selectedHost, view.choice, view.since), view.rate)
        BY <1>a DEF Follow
      <4> QED BY <2>2, <3>2, <4>1, <4>2, TimerOfHost
    <3> QED BY <3>1, <3>2
  <2>4. Follow(view', selectedHost')
    BY <2>2, <2>3 DEF Follow
  <2> QED BY <1>a, <1>b, <2>1, <2>2, <2>4
<1>4. CASE PagesNext
  <2>0. UNCHANGED <<page, selectedHost>>
    BY <1>4 DEF PagesNext, Choose, ChooseRate, OpenService, Tick, Answer, AnswerDoesNotParse, Refused,
                AnswerFails, sessionVars
  <2>1. ASSUME NEW c \in Choices, Choose(c) PROVE TimersInv'
    <3> DEFINE sel == At(selectedHost, c, view.service)
    <3>0. [Selected EXCEPT !.choice = c] = sel
      BY DEF Selected, At
    <3>00. view' = [view EXCEPT !.choice = c, !.timers = Restarted(Polling("choice"), sel),
                               !.since = view.service]
      BY <2>1, <3>0 DEF Choose
    <3> HIDE DEF sel
    <3>1. /\ ViewOf(view')
          /\ view'.choice = c /\ view'.since = view.service /\ view'.rate = view.rate
          /\ DOMAIN view'.timers = DOMAIN view.timers
          /\ \A l \in DOMAIN view.timers : view'.timers[l] =
                IF l \in Polling("choice") THEN TimerOf(l, sel, view.rate) ELSE view.timers[l]
      BY <1>a, <3>00 DEF ViewOf, Restarted
    <3>2. ASSUME NEW l \in DOMAIN view.timers
          PROVE  view'.timers[l] = TimerOf(l, sel, view.rate)
      <4>1. CASE l \in Polling("choice")
        BY <3>1, <4>1
      <4>2. CASE l \notin Polling("choice")
        <5>1. "choice" \notin Loops[l].polls /\ l \in DOMAIN Loops
          BY <1>a, <4>2 DEF Polling
        <5>2. view.timers[l] = TimerOf(l, At(selectedHost, view.choice, view.since), view.rate)
          BY <1>a DEF Follow
        <5> QED BY <1>a, <3>1, <4>2, <5>1, <5>2, TimerOfChoice DEF sel
      <4> QED BY <4>1, <4>2
    <3>3. Follow(view', selectedHost')
      BY <2>0, <3>1, <3>2 DEF Follow, sel
    <3> QED BY <1>a, <1>b, <2>0, <3>1, <3>3
  <2>2. ASSUME NEW r \in Rates, ChooseRate(r) PROVE TimersInv'
    <3>1. /\ ViewOf(view')
          /\ view'.choice = view.choice /\ view'.since = view.service /\ view'.rate = r
          /\ view'.timers = [l \in DOMAIN view.timers |-> TimerOf(l, At(selectedHost, view.choice, view.service), r)]
      BY <1>a, <2>2 DEF ChooseRate, ViewOf, Selected
    <3>2. Follow(view', selectedHost')
      BY <2>0, <3>1 DEF Follow
    <3> QED BY <1>a, <1>b, <2>0, <3>1, <3>2
  <2>3. ASSUME NEW s \in ServiceNames, OpenService(s) PROVE TimersInv'
    <3>1. \A l \in DOMAIN view.timers : l \notin Polling("service")
      BY <1>a, LoopDepends DEF Polling, Depends
    <3>2. /\ ViewOf(view')
          /\ view'.choice = view.choice /\ view'.since = view.since /\ view'.rate = view.rate
          /\ DOMAIN view'.timers = DOMAIN view.timers
          /\ \A l \in DOMAIN view.timers : view'.timers[l] = view.timers[l]
      BY <1>a, <2>3, <3>1 DEF OpenService, ViewOf, Restarted
    <3>3. Follow(view', selectedHost')
      BY <1>a, <2>0, <3>2 DEF Follow
    <3> QED BY <1>a, <1>b, <2>0, <3>2, <3>3
  <2>4. ASSUME NEW l \in DOMAIN Loops, Tick(l) PROVE TimersInv'
    BY <1>0, <2>0, <2>4 DEF Tick
  <2>5. ASSUME NEW r \in asked,
               \/ \E others \in {asked, Last(r)} : Answer(r, others)
               \/ AnswerDoesNotParse(r) \/ Refused(r) \/ AnswerFails(r)
        PROVE  TimersInv'
    <3>1. Fill(r) \/ UNCHANGED view
      BY <2>5 DEF Answer, AnswerDoesNotParse, Refused, AnswerFails, NotOk
    <3>2. CASE Fill(r)
      <4>1. /\ ViewOf(view')
            /\ view'.timers = view.timers /\ view'.choice = view.choice
            /\ view'.since = view.since /\ view'.rate = view.rate
        BY <3>2, FillKeepsTimers
      <4>2. Follow(view', selectedHost')
        BY <1>a, <2>0, <4>1 DEF Follow
      <4> QED BY <1>a, <1>b, <2>0, <4>1, <4>2
    <3> QED BY <1>0, <2>0, <3>1, <3>2
  <2> QED BY <1>4, <2>1, <2>2, <2>3, <2>4, <2>5 DEF PagesNext
<1>5. CASE PagesFrame0
  BY <1>0, <1>5 DEF PagesFrame0, pagesVars
<1> QED BY <1>1, <1>2, <1>3, <1>4, <1>5, PagesFrame

LEMMA TimersInit == Init => TimersInv
<1> SUFFICES ASSUME Init PROVE TimersInv
  OBVIOUS
<1>1. /\ view.choice = Initial /\ view.since = Initial /\ view.rate = "on"
      /\ view.timers = [l \in LoopsOf(page) |-> TimerOf(l, At(selectedHost, Initial, Initial), "on")]
      /\ ViewOf(view)
  BY DEF Init, Mounted, ViewOf, Fresh
<1>2. Follow(view, selectedHost)
  BY <1>1 DEF Follow
<1>3. view.choice \in Choices /\ DOMAIN view.timers \subseteq LoopsOf(page)
  BY <1>1 DEF Choices
<1> QED BY <1>1, <1>2, <1>3, FollowSame DEF TimersInv

(* In every reachable state each timer of the mounted page is set exactly when  *)
(* the current choice and rate ask for it, and polls for the selected host and *)
(* the current choice, however often and in whichever order they were changed: *)
(* each dependency list of the table names enough of what its requests name.   *)
(* The service alone may be that of an earlier route, the one of view.since.   *)
THEOREM TimersFollowSelectionHolds == Spec => []TimersFollowSelection
<1>1. TimersInv => TimersFollowSelection
  BY DEF TimersInv
<1> QED BY <1>1, TimersInit, SessionTypedInit, SessionTypedStep, TimersStep, PTL DEF Spec

-----------------------------------------------------------------------------
(* A run of a loop has at most four steps. *)
Stepped(x) == \E n \in 1..4 : DOMAIN x.steps = 1..n /\ Len(x.steps) = n

LEMMA SteppedLoop ==
    ASSUME NEW p, NEW by, NEW on, NEW a, NEW b, NEW c, NEW d
    PROVE  /\ Stepped(Loop(p, by, on, <<a>>))
           /\ Stepped(Loop(p, by, on, <<a, b>>))
           /\ Stepped(Loop(p, by, on, <<a, b, c, d>>))
<1>1. Stepped(Loop(p, by, on, <<a>>))
  BY DEF Stepped, Loop
<1>2. Stepped(Loop(p, by, on, <<a, b>>))
  BY DEF Stepped, Loop
<1>3. Stepped(Loop(p, by, on, <<a, b, c, d>>))
  BY DEF Stepped, Loop
<1> QED BY <1>1, <1>2, <1>3

LEMMA LoopSteps ==
    ASSUME NEW l \in DOMAIN Loops
    PROVE  Stepped(Loops[l])
<1>2. Stepped(DashboardLoop)
  BY SteppedLoop DEF DashboardLoop
<1>3. Stepped(CpuLoop)
  BY SteppedLoop DEF CpuLoop
<1>4. Stepped(MemoryLoop)
  BY SteppedLoop DEF MemoryLoop
<1>5. Stepped(StorageLoop)
  BY SteppedLoop DEF StorageLoop
<1>6. Stepped(NetworkLive)
  BY DEF Stepped, Loop, NetworkLive
<1>7. Stepped(NetworkHistory)
  BY DEF Stepped, Loop, NetworkHistory
<1>8. Stepped(NetworkCurrent)
  BY DEF Stepped, Loop, NetworkCurrent
<1>9. Stepped(LogsLoop)
  BY SteppedLoop DEF LogsLoop
<1>10. Stepped(LogServices)
  BY DEF Stepped, Loop, LogServices
<1>11. Stepped(ConnectionsSummary)
  BY DEF Stepped, Loop, ConnectionsSummary
<1>12. Stepped(ConnectionsDetails)
  BY DEF Stepped, Loop, ConnectionsDetails
<1>13. Stepped(SecurityLoop)
  BY SteppedLoop DEF SecurityLoop
<1>14. Stepped(ServersLoop)
  BY DEF Stepped, Loop, ServersLoop
<1>15. Stepped(ServicesLoop)
  BY DEF Stepped, Loop, ServicesLoop
<1>16. Stepped(ApacheLoop)
  BY DEF Stepped, Loop, ApacheLoop
<1>17. Stepped(MySQLLoop)
  BY SteppedLoop DEF MySQLLoop
<1>18. Stepped(RedisLoop)
  BY SteppedLoop DEF RedisLoop
<1>19. Stepped(MongoDBLoop)
  BY SteppedLoop DEF MongoDBLoop
<1>20. Stepped(PostgreSQLLoop)
  BY SteppedLoop DEF PostgreSQLLoop
<1> QED BY LoopNames, <1>2, <1>3, <1>4, <1>5, <1>6, <1>7, <1>8, <1>9, <1>10, <1>11, <1>12, <1>13, <1>14, <1>15, <1>16, <1>17, <1>18, <1>19, <1>20 DEF Loops

-----------------------------------------------------------------------------
(* The types of the pages.                                                     *)

Selections == [host : Selection, choice : Choices, service : ServiceNames]

LEMMA KeyTyped ==
    ASSUME NEW l, NEW sel \in Selections
    PROVE  KeyOf(l, sel) \in Keys
<1>1. HostAsked(l, sel) \in Host \cup {All, Anything}
  BY DEF HostAsked, Selection, Selections
<1>2. sel.choice \in Choices \cup {Anything} /\ sel.service \in ServiceNames \cup {Anything}
  BY DEF Selections
<1> QED BY <1>1, <1>2 DEF KeyOf, Keys

LEMMA TimerTyped ==
    ASSUME NEW l, NEW sel \in Selections, NEW rate
    PROVE  TimerOf(l, sel, rate) \in Keys \cup {NoTimer}
BY KeyTyped DEF TimerOf

LEMMA FreshTyped ==
    ASSUME NEW h \in Selection
    PROVE  Fresh(h) \in Selections
BY DEF Fresh, At, Selections, Choices, ServiceNames

(* The requests on their way are of the loops of the page. *)
AskedTyped(rs, p) ==
    /\ rs \subseteq Request
    /\ \A r \in rs : r.loop \in LoopsOf(p) /\ r.step \in DOMAIN Loops[r.loop].steps

LEMMA RequestTyped ==
    ASSUME NEW p, NEW l \in LoopsOf(p), NEW k \in Keys
    PROVE  AskedTyped({[loop |-> l, step |-> 1, key |-> k]}, p)
<1>1. l \in DOMAIN Loops
  BY DEF LoopsOf
<1>2. 1 \in DOMAIN Loops[l].steps
  BY <1>1, LoopSteps DEF Stepped
<1> QED BY <1>1, <1>2 DEF AskedTyped, Request

LEMMA FirstTyped ==
    ASSUME NEW p, NEW ls \in SUBSET LoopsOf(p), NEW sel \in Selections
    PROVE  AskedTyped(FirstRequests(ls, sel), p)
<1> SUFFICES ASSUME NEW r \in FirstRequests(ls, sel) PROVE AskedTyped({r}, p)
  BY DEF AskedTyped
<1>1. PICK l \in ls : r = [loop |-> l, step |-> 1, key |-> KeyOf(l, sel)]
  BY DEF FirstRequests
<1> QED BY <1>1, KeyTyped, RequestTyped

LEMMA GoesOnTyped ==
    ASSUME NEW p, NEW r, AskedTyped({r}, p)
    PROVE  AskedTyped(GoesOn(r), p)
<1>1. r \in Request /\ r.loop \in LoopsOf(p) /\ r.loop \in DOMAIN Loops /\ r.step \in Nat
  BY DEF AskedTyped, LoopsOf, Request
<1>2. PICK n \in 1..4 : DOMAIN Loops[r.loop].steps = 1..n /\ Len(Loops[r.loop].steps) = n
  BY <1>1, LoopSteps DEF Stepped
<1>3. CASE r.step < n
  <2>1. GoesOn(r) = {[r EXCEPT !.step = @ + 1]}
    BY <1>2, <1>3 DEF GoesOn
  <2>2. r.step \in 1..n /\ r.step + 1 \in 1..n /\ r.step + 1 \in 1..4
    BY <1>1, <1>2, <1>3 DEF AskedTyped
  <2>3. /\ [r EXCEPT !.step = @ + 1] \in Request
        /\ [r EXCEPT !.step = @ + 1].loop = r.loop /\ [r EXCEPT !.step = @ + 1].step = r.step + 1
    BY <1>1, <2>2 DEF Request
  <2> QED BY <1>1, <1>2, <2>1, <2>2, <2>3 DEF AskedTyped
<1>4. CASE ~(r.step < n)
  BY <1>2, <1>4 DEF GoesOn, AskedTyped
<1> QED BY <1>3, <1>4

LEMMA AskedJoined ==
    ASSUME NEW p, NEW rs, NEW qs, AskedTyped(rs, p), AskedTyped(qs, p)
    PROVE  AskedTyped(rs \cup qs, p)
BY DEF AskedTyped

(* What a page shows, and how long a chart grows. *)
DataTyped(d) == \A f \in DOMAIN d : d[f] \in Seq(Keys) /\ Len(d[f]) <= Keep + 1

LEMMA PlottedTyped ==
    ASSUME NEW d \in Seq(Keys), Len(d) <= Keep + 1, NEW k \in Keys,
           NEW e, e = Append(SubSeq(d, IF Len(d) > Keep THEN Len(d) - Keep + 1 ELSE 1, Len(d)), k)
    PROVE  e \in Seq(Keys) /\ Len(e) <= Keep + 1
<1>1. Keep \in Nat /\ Keep > 0 /\ Len(d) \in Nat
  BY KeepAssumption
<1> DEFINE from == IF Len(d) > Keep THEN Len(d) - Keep + 1 ELSE 1
           tail == SubSeq(d, from, Len(d))
<1>2. from \in Nat /\ from >= 1 /\ Len(d) - from + 1 <= Keep /\ from <= Len(d) + 1
  BY <1>1
<1>3. tail \in Seq(Keys) /\ Len(tail) <= Keep
  <2>1. \A i \in from..Len(d) : d[i] \in Keys
    BY <1>1, <1>2
  <2>2. tail \in Seq(Keys) /\ Len(tail) = IF from <= Len(d) THEN Len(d) - from + 1 ELSE 0
    BY <1>1, <1>2, <2>1, SubSeqProperties
  <2> QED BY <1>1, <1>2, <2>2
<1>4. e = Append(tail, k)
  OBVIOUS
<1>5. e \in Seq(Keys) /\ Len(e) = Len(tail) + 1
  BY <1>3, <1>4
<1>6. Len(tail) \in Nat
  BY <1>3
<1>7. Len(tail) + 1 <= Keep + 1
  BY <1>1, <1>3, <1>6
<1> QED BY <1>5, <1>7
LEMMA FilledTyped ==
    ASSUME DataTyped(view.data), NEW r, r.key \in Keys, Fill(r),
           ViewOf(view)
    PROVE  DataTyped(view'.data)
<1>1. /\ DOMAIN view'.data = DOMAIN view.data
      /\ \A f \in DOMAIN view.data : view'.data[f] =
            IF f = "chart" /\ StepOf(r).plots
            THEN Append(SubSeq(view.data[f], IF Len(view.data[f]) > Keep THEN Len(view.data[f]) - Keep + 1 ELSE 1,
                               Len(view.data[f])), r.key)
            ELSE IF f \in StepOf(r).fills THEN <<r.key>> ELSE view.data[f]
  BY DEF Fill
<1>2. <<r.key>> \in Seq(Keys) /\ Len(<<r.key>>) <= Keep + 1
  BY KeepAssumption
<1>3. ASSUME NEW f \in DOMAIN view.data
      PROVE  view'.data[f] \in Seq(Keys) /\ Len(view'.data[f]) <= Keep + 1
  <2>1. view.data[f] \in Seq(Keys) /\ Len(view.data[f]) <= Keep + 1
    BY DEF DataTyped
  <2>2. CASE f = "chart" /\ StepOf(r).plots
    BY <1>1, <2>1, <2>2, PlottedTyped
  <2>3. CASE ~(f = "chart" /\ StepOf(r).plots)
    BY <1>1, <1>2, <2>1, <2>3
  <2> QED BY <2>2, <2>3
<1> QED BY <1>1, <1>3 DEF DataTyped

InRange(v) ==
    v.choice \in Choices /\ v.rate \in Rates /\ v.service \in ServiceNames /\ v.since \in ServiceNames

PagesTyped ==
    /\ AskedTyped(asked, page)
    /\ InRange(view)
    /\ \A l \in DOMAIN view.timers : view.timers[l] \in Keys \cup {NoTimer}
    /\ view.timers = [l \in DOMAIN view.timers |-> view.timers[l]]
    /\ DataTyped(view.data)

LEMMA MountedTyped ==
    ASSUME view' = Mounted(page', selectedHost'), selectedHost' \in Selection
    PROVE  /\ InRange(view')
           /\ \A l \in DOMAIN view'.timers : view'.timers[l] \in Keys \cup {NoTimer}
           /\ view'.timers = [l \in DOMAIN view'.timers |-> view'.timers[l]]
           /\ DataTyped(view'.data)
<1>1. InRange(view')
  BY DEF Mounted, Choices, Rates, ServiceNames, InRange
<1>2. view'.timers = [l \in LoopsOf(page') |-> TimerOf(l, Fresh(selectedHost'), "on")]
  BY DEF Mounted
<1>3. view'.data = [f \in FieldsOf(page') |-> <<>>]
  BY DEF Mounted
<1>4. <<>> \in Seq(Keys) /\ Len(<<>>) <= Keep + 1
  BY KeepAssumption
<1> QED BY <1>1, <1>2, <1>3, <1>4, FreshTyped, TimerTyped DEF DataTyped

LEMMA PagesTypedStep ==
    SessionTypeOK /\ SessionTypeOK' /\ TimersInv /\ PagesTyped /\ [Next]_vars => PagesTyped'
<1> SUFFICES ASSUME SessionTypeOK, SessionTypeOK', TimersInv, PagesTyped, [Next]_vars PROVE PagesTyped'
  OBVIOUS
<1>a. selectedHost \in Selection /\ selectedHost' \in Selection
  BY DEF SessionTypeOK, Selection
<1>b. /\ AskedTyped(asked, page) /\ InRange(view)
      /\ \A l \in DOMAIN view.timers : view.timers[l] \in Keys \cup {NoTimer}
      /\ view.timers = [l \in DOMAIN view.timers |-> view.timers[l]]
      /\ DataTyped(view.data)
  BY DEF PagesTyped
<1>c. ViewOf(view)
  BY DEF TimersInv
<1>d. Selected \in Selections
  BY <1>a, <1>b DEF Selected, At, Selections, InRange
<1>0. ASSUME UNCHANGED <<view, asked, page>> PROVE PagesTyped'
  BY <1>0 DEF PagesTyped, AskedTyped, DataTyped, InRange, LoopsOf
<1>1. CASE PagesMount \/ MountsAt
  <2>1. ASSUME NEW h \in Selection
        PROVE  AskedTyped(FirstRequests(LoopsOf(page'), Fresh(h)), page')
    BY FreshTyped, FirstTyped
  <2>2. AskedTyped(asked', page')
    BY <1>1, <1>a, <2>1, AskedJoined DEF PagesMount, MountsAt, PagesMountAt
  <2>3. view' = Mounted(page', selectedHost')
    BY <1>1 DEF PagesMount, MountsAt, PagesMountAt
  <2> QED BY <1>a, <2>2, <2>3, MountedTyped DEF PagesTyped
<1>2. CASE PagesUnmount
  <2>1. /\ InRange(view')
        /\ view'.timers = <<>> /\ view'.data = <<>> /\ asked' = {}
    BY <1>2 DEF PagesUnmount, NoView, Rates, Choices, ServiceNames, InRange
  <2>2. DOMAIN view'.timers = {} /\ DOMAIN view'.data = {}
    BY <2>1
  <2>3. view'.timers = [l \in DOMAIN view'.timers |-> view'.timers[l]]
    BY <2>1
  <2> QED BY <2>1, <2>2, <2>3 DEF PagesTyped, AskedTyped, DataTyped
<1>3. CASE FollowsHost
  <2> DEFINE sel(h) == [Selected EXCEPT !.host = h]
  <2>0. \A h \in Selection : sel(h) \in Selections
    BY <1>d DEF Selections
  <2>1. PICK through \in SUBSET Selection : PagesFollowHost(through)
    BY <1>3 DEF FollowsHost
  <2>2. /\ page' = page /\ InRange(view') /\ view'.data = view.data
        /\ view'.timers = Restarted(Polling("host"), sel(selectedHost'))
    BY <1>3, <2>1, <1>b, <1>c DEF FollowsHost, PagesFollowHost, ViewOf, InRange
  <2>3. \A l \in DOMAIN view.timers :
            Restarted(Polling("host"), sel(selectedHost'))[l] \in Keys \cup {NoTimer}
    BY <1>a, <1>b, <2>0, TimerTyped DEF Restarted
  <2>4. AskedTyped(asked', page)
    <3>1. Asking("host") \in SUBSET LoopsOf(page)
      BY DEF Asking
    <3>2. \A h \in through : AskedTyped(FirstRequests(Asking("host"), sel(h)), page)
      BY <2>0, <3>1, FirstTyped
    <3>3. AskedTyped(UNION {FirstRequests(Asking("host"), sel(h)) : h \in through}, page)
      BY <3>2 DEF AskedTyped
    <3>4. asked' = asked \cup UNION {FirstRequests(Asking("host"), sel(h)) : h \in through}
      BY <2>1 DEF PagesFollowHost
    <3> QED BY <1>b, <3>3, <3>4, AskedJoined
  <2> QED BY <1>b, <2>2, <2>3, <2>4 DEF PagesTyped, Restarted
<1>4. CASE PagesNext
  <2>0. UNCHANGED <<page, selectedHost>>
    BY <1>4 DEF PagesNext, Choose, ChooseRate, OpenService, Tick, Answer, AnswerDoesNotParse, Refused,
                AnswerFails, sessionVars
  <2>1. ASSUME NEW part \in {"choice", "service"}, NEW sel \in Selections,
               InRange(view'), view'.data = view.data,
               view'.timers = Restarted(Polling(part), sel),
               asked' = asked \cup FirstRequests(Asking(part), sel)
        PROVE  PagesTyped'
    <3>1. \A l \in DOMAIN view.timers : Restarted(Polling(part), sel)[l] \in Keys \cup {NoTimer}
      BY <1>b, <2>1, TimerTyped DEF Restarted
    <3>2. AskedTyped(asked', page)
      <4>1. Asking(part) \in SUBSET LoopsOf(page)
        BY DEF Asking
      <4>2. AskedTyped(FirstRequests(Asking(part), sel), page)
        BY <4>1, <2>1, FirstTyped
      <4> QED BY <1>b, <2>1, <4>2, AskedJoined
    <3> QED BY <1>b, <2>0, <2>1, <3>1, <3>2 DEF PagesTyped, Restarted
  <2>2. ASSUME NEW c \in Choices, Choose(c) PROVE PagesTyped'
    <3> DEFINE sel == [Selected EXCEPT !.choice = c]
    <3>1. sel \in Selections
      BY <1>d DEF Selections
    <3>2. /\ InRange(view') /\ view'.data = view.data
          /\ view'.timers = Restarted(Polling("choice"), sel)
          /\ asked' = asked \cup FirstRequests(Asking("choice"), sel)
      BY <1>b, <1>c, <2>2 DEF Choose, ViewOf, InRange
    <3> QED BY <2>1, <3>1, <3>2
  <2>3. ASSUME NEW s \in ServiceNames, OpenService(s) PROVE PagesTyped'
    <3> DEFINE sel == [Selected EXCEPT !.service = s]
    <3>1. sel \in Selections
      BY <1>d DEF Selections
    <3>2. /\ InRange(view') /\ view'.data = view.data
          /\ view'.timers = Restarted(Polling("service"), sel)
          /\ asked' = asked \cup FirstRequests(Asking("service"), sel)
      BY <1>b, <1>c, <2>3 DEF OpenService, ViewOf, InRange
    <3> QED BY <2>1, <3>1, <3>2
  <2>4. ASSUME NEW r \in Rates, ChooseRate(r) PROVE PagesTyped'
    <3>1. /\ InRange(view') /\ view'.data = view.data
          /\ view'.timers = [l \in DOMAIN view.timers |-> TimerOf(l, Selected, r)]
          /\ asked' = asked
      BY <1>b, <1>c, <2>4 DEF ChooseRate, ViewOf, InRange
    <3>2. \A l \in DOMAIN view.timers : TimerOf(l, Selected, r) \in Keys \cup {NoTimer}
      BY <1>d, TimerTyped
    <3> QED BY <1>b, <2>0, <3>1, <3>2 DEF PagesTyped
  <2>5. ASSUME NEW l \in DOMAIN Loops, Tick(l) PROVE PagesTyped'
    <3>1. l \in LoopsOf(page) /\ view.timers[l] \in Keys
      BY <1>b, <2>5 DEF Tick, TimersInv
    <3>2. AskedTyped(asked', page)
      BY <1>b, <2>5, <3>1, RequestTyped, AskedJoined DEF Tick
    <3> QED BY <1>b, <2>0, <2>5, <3>2 DEF Tick, PagesTyped
  <2>6. ASSUME NEW r \in asked,
               \/ \E others \in {asked, Last(r)} : Answer(r, others)
               \/ AnswerDoesNotParse(r) \/ Refused(r) \/ AnswerFails(r)
        PROVE  PagesTyped'
    <3>1. r \in Request /\ r.key \in Keys
      BY <1>b DEF AskedTyped, Request
    <3>2. AskedTyped({r}, page) /\ AskedTyped(Last(r), page) /\ AskedTyped({}, page)
      BY <1>b DEF AskedTyped, Last
    <3>3. AskedTyped(GoesOn(r), page)
      BY <3>2, GoesOnTyped
    <3>4. asked' \in {asked \cup GoesOn(r), Last(r) \cup GoesOn(r), Last(r), Last(r) \cup {}}
      BY <2>6 DEF Answer, AnswerDoesNotParse, Refused, AnswerFails, NotOk
    <3>5. AskedTyped(asked', page)
      BY <1>b, <3>2, <3>3, <3>4, AskedJoined
    <3>6. Fill(r) \/ UNCHANGED view
      BY <2>6 DEF Answer, AnswerDoesNotParse, Refused, AnswerFails, NotOk
    <3>7. CASE Fill(r)
      <4>1. InRange(view') /\ view'.timers = view.timers
        BY <1>b, <1>c, <3>7 DEF Fill, ViewOf, InRange
      <4>2. DataTyped(view'.data)
        BY <1>b, <1>c, <3>1, <3>7, FilledTyped
      <4> QED BY <1>b, <2>0, <3>5, <4>1, <4>2 DEF PagesTyped
    <3>8. CASE UNCHANGED view
      BY <1>b, <2>0, <3>5, <3>8 DEF PagesTyped
    <3> QED BY <3>6, <3>7, <3>8
  <2> QED BY <1>4, <2>2, <2>3, <2>4, <2>5, <2>6 DEF PagesNext
<1>5. CASE PagesFrame0
  BY <1>0, <1>5 DEF PagesFrame0, pagesVars
<1> QED BY <1>1, <1>2, <1>3, <1>4, <1>5, PagesFrame

LEMMA PagesTypedInit == Init => PagesTyped
<1> SUFFICES ASSUME Init PROVE PagesTyped
  OBVIOUS
<1>1. selectedHost \in Selection
  BY SessionTypedInit DEF SessionTypeOK, Selection
<1>2. InRange(view)
  BY DEF Init, Mounted, InRange, Choices, Rates, ServiceNames
<1>3. AskedTyped(asked, page)
  BY <1>1, FreshTyped, FirstTyped DEF Init
<1>4. /\ view.timers = [l \in LoopsOf(page) |-> TimerOf(l, Fresh(selectedHost), "on")]
      /\ view.data = [f \in FieldsOf(page) |-> <<>>]
  BY DEF Init, Mounted
<1>5. <<>> \in Seq(Keys) /\ Len(<<>>) <= Keep + 1
  BY KeepAssumption
<1>6. \A l \in LoopsOf(page) : TimerOf(l, Fresh(selectedHost), "on") \in Keys \cup {NoTimer}
  BY <1>1, FreshTyped, TimerTyped
<1> QED BY <1>2, <1>3, <1>4, <1>5, <1>6 DEF PagesTyped, DataTyped

(* The requests of pages that were left. *)
OrphansTyped == orphans \subseteq {"keeps", "removes"}

LEMMA OrphansStep == OrphansTyped /\ [Next]_vars => OrphansTyped'
<1> SUFFICES ASSUME OrphansTyped, [Next]_vars PROVE OrphansTyped'
  OBVIOUS
<1>1. UNCHANGED orphans \/ PageLeft \/ orphans' \subseteq orphans
  <2>1. CASE SessionNext
    BY <2>1 DEF SessionNext, FullLoad, OpenLogsAddress, NavigateTo, SelectHostOfPage, HostsListed,
                OrphanAnswered, NullListCrashes, RenderThrows, SessionAlone
  <2>2. CASE PagesNext \/ IpNext \/ FormsNext \/ UNCHANGED vars
    BY <2>2 DEF PagesNext, IpNext, FormsNext, vars
  <2> QED BY <2>1, <2>2 DEF Next
<1> QED BY <1>1 DEF PageLeft, OrphansTyped

LEMMA PagesTypedOK == PagesTyped => PagesTypeOK
BY DEF PagesTyped, InRange, AskedTyped, DataTyped, PagesTypeOK
=============================================================================
