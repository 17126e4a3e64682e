----------------------------- MODULE WebConsole -----------------------------
(* The web console: one browser tab with its session (ConsoleSession), the     *)
(* pages that poll (ConsolePages), the page of the addresses (ConsoleIp) and   *)
(* the pages with forms (ConsoleForms).  A full page load, a navigation and a  *)
(* crash take every page's state with them; another selected host reaches the  *)
(* mounted page.                                                               *)
EXTENDS ConsolePages, ConsoleIp, ConsoleForms

VARIABLE
    orphans  \* requests of pages that were left whose 401 still sends to the login page:
             \* one that "keeps" the token, one that "removes" it

vars == <<sessionVars, pagesVars, ipVars, formsVars, orphans>>

(* What only the actions of ConsoleSession change. *)
sessionKept == <<tour, token, role, savedHost, page, crashed, hosts, selectedHost, hostsAsked>>

Mount == PagesMount /\ IpMount /\ FormsMount
Unmount == PagesUnmount /\ IpUnmount /\ FormsUnmount

(* A page is left inside the console: what is on its way goes on, step by step, *)
(* and looks for a 401 as it did before. *)
MayRedirect(r) == \E i \in r.step..Len(Loops[r.loop].steps) : Loops[r.loop].steps[i].redirects

PageLeft ==
    orphans' = orphans \cup {k \in {"keeps", "removes"} :
        IF k = "keeps" THEN settings.saving # Idle \/ \E r \in asked : MayRedirect(r)
        ELSE settings.load = Unread}

Init ==
    /\ SessionInit
    /\ view = Mounted(page, selectedHost)
    /\ asked = FirstRequests(LoopsOf(page), Fresh(selectedHost))
    /\ lookup = IF page = "ip-intelligence" THEN Fetching(NoLookup, selectedHost) ELSE NoLookup
    /\ lists = IF page = "ip-intelligence" /\ selectedHost # All
               THEN {[tag |-> 1, host |-> selectedHost, read |-> Nothing]} ELSE {}
    /\ searches = {} /\ commands = {} /\ refreshes = {}
    /\ record = [h \in Host |-> 0]
    /\ FormsInit
    /\ orphans = {}

-----------------------------------------------------------------------------
(* The session's actions, with what the pages make of them.                    *)

(* 401: a page that looks for it, or a save of the settings, loads the login   *)
(* page and keeps the token. *)
PageRefused ==
    /\ (\E r \in asked : SentToLogin(r)) \/ SaveRefused
    /\ Redirect

(* The load of the settings removes the token first. *)
TokenRemoved ==
    /\ token' = "none"
    /\ UNCHANGED <<tour, left, role, savedHost>>
    /\ Load("login")

SettingsLoadRefused == SettingsRefused /\ TokenRemoved

(* The same, of a page that is not mounted any more. *)
OrphanRefused ==
    /\ token = "expired"
    /\ \/ "keeps" \in orphans /\ Redirect
       \/ "removes" \in orphans /\ TokenRemoved

FullLoad ==
    /\ \/ Login
       \/ Logout
       \/ HostsRefused
       \/ \E p \in Pages : OpenAddress(p)
       \/ PageRefused
       \/ SettingsLoadRefused
       \/ OrphanRefused
    /\ Mount
    /\ orphans' = {}

(* The address /logs?host=h: the page is mounted with the saved host, until the *)
(* effect that reads the address has run. *)
OpenLogsAddress(h) ==
    /\ h \in Host /\ "logs" \in tour.pages /\ token # "none"
    /\ Spend("loads")
    /\ savedHost' = h
    /\ UNCHANGED <<tour, token, role>>
    /\ Load("logs")
    /\ PagesMountAt(savedHost) /\ IpMount /\ FormsMount
    /\ orphans' = {}

NavigateTo(p) == Navigate(p) /\ Mount /\ PageLeft

(* The last request of its kind is answered, or lost: nobody sees it. *)
OrphanAnswered(k) ==
    /\ k \in orphans
    /\ orphans' = orphans \ {k}
    /\ UNCHANGED <<sessionVars, pagesVars, ipVars, formsVars>>

(* Every host that was selected on the way reaches the page's effects. *)
SelectHostOfPage(h) ==
    /\ SelectHost(h)
    /\ PagesFollowHost({h, selectedHost'})
    /\ IpFollowHost
    /\ UNCHANGED <<formsVars, orphans>>

HostsListed(list) ==
    /\ HostsArrive(list)
    /\ IF selectedHost' # selectedHost
       THEN PagesFollowHost({selectedHost'}) /\ IpFollowHost
       ELSE UNCHANGED <<pagesVars, ipVars>>
    /\ UNCHANGED <<formsVars, orphans>>

NullListCrashes == NullListArrives /\ Unmount /\ PageLeft

(* A component that throws while it is rendered takes the whole console. *)
RenderThrows ==
    /\ ~crashed
    /\ SearchThrows \/ ReloadThrows
    /\ UNCHANGED hostsAsked
    /\ Crash
    /\ Unmount /\ PageLeft

SessionAlone ==
    /\ \/ Expire
       \/ AskHosts
       \/ HostsArriveTooLate
       \/ HostsRefusedAtLogin
       \/ HostsFail
    /\ UNCHANGED <<pagesVars, ipVars, formsVars, orphans>>

SessionNext ==
    \/ FullLoad
    \/ \E h \in Host : OpenLogsAddress(h)
    \/ \E p \in Pages : NavigateTo(p)
    \/ \E h \in Host \cup {All} : SelectHostOfPage(h)
    \/ \E list \in SUBSET Host : HostsListed(list)
    \/ \E k \in orphans : OrphanAnswered(k)
    \/ NullListCrashes
    \/ RenderThrows
    \/ SessionAlone

-----------------------------------------------------------------------------

PagesNext ==
    /\ \/ \E c \in Choices : Choose(c)
       \/ \E r \in Rates : ChooseRate(r)
       \/ \E s \in ServiceNames : OpenService(s)
       \/ \E l \in DOMAIN Loops : Tick(l)
       \/ \E r \in asked : \/ \E others \in {asked, Last(r)} : Answer(r, others)
                           \/ AnswerDoesNotParse(r)
                           \/ Refused(r)
                           \/ AnswerFails(r)
    /\ UNCHANGED <<ipVars, formsVars, orphans>>

IpNext ==
    /\ \/ \E b \in Ip \cup {NoIp} : EditBox(b)
       \/ \E b \in Ip : AnalyzeRow(b) \/ QuickBlock(b)
       \/ Enter \/ LoadMore \/ RefreshList \/ BlockAnalysed
       \/ \E s \in searches : SearchArrives(s) \/ SearchRefused(s) \/ SearchFails(s)
       \/ \E q \in lists : ListRead(q) \/ ListArrives(q) \/ ListFails(q) \/ ListRefused(q)
       \/ \E c \in commands : CommandAccepted(c) \/ CommandRefused(c) \/ CommandFails(c)
       \/ \E c \in refreshes : Refresh(c)
    /\ UNCHANGED <<sessionKept, pagesVars, formsVars, orphans>>

FormsNext ==
    /\ \/ SettingsRead \/ SettingsArrive \/ SettingsLoadFails
       \/ Save \/ SaveHandled \/ SaveFails
       \/ \E f \in Field : Type(f) \/ OtherSaves(f)
       \/ \E h \in Host \cup {Star} : Pick(h)
       \/ ClearPicks
       \/ OpenDialog \/ EditDialog \/ CancelDialog
       \/ \E kind \in Kinds("users") : SendWrite(kind)
       \/ \E w \in writes : WriteAccepted(w) \/ WriteRefused(w) \/ WriteLost(w)
       \/ OthersWrite
       \/ \E q \in reloads : ReloadRead(q) \/ ReloadArrives(q) \/ ReloadFails(q)
    /\ UNCHANGED <<sessionKept, pagesVars, ipVars, orphans>>

Next == SessionNext \/ PagesNext \/ IpNext \/ FormsNext

-----------------------------------------------------------------------------
(* Fairness: the browser's timers fire and a request that polls is answered in *)
(* the end.  Nobody has to click on anything.                                  *)

(* The loops of one page are told apart by their lane. *)
Lane(l) == CASE l \in {"networkHistory", "connectionsDetails", "logServices"} -> 2
             [] l = "networkCurrent" -> 3
             [] OTHER -> 1

Others == UNCHANGED <<ipVars, formsVars, orphans>>

TickOf(lane) == \E l \in DOMAIN view.timers : Lane(l) = lane /\ Tick(l) /\ Others

Current(r) == r.key = KeyOf(r.loop, Selected)

Answered(r) == (Answer(r, Last(r)) \/ AnswerDoesNotParse(r) \/ Refused(r)) /\ Others

CurrentAnswered(lane, step) ==
    \E r \in asked : Lane(r.loop) = lane /\ r.step = step /\ Current(r) /\ Answered(r)

(* Of the requests of an earlier effect, one with nothing before it in its run. *)
OldAnswered ==
    \E r \in asked :
        /\ ~Current(r)
        /\ \A q \in asked : ~Current(q) => r.step <= q.step
        /\ Answered(r)

HostsAnswered ==
    \/ \E list \in SUBSET Host : HostsListed(list)
    \/ NullListCrashes
    \/ HostsRefused /\ Mount /\ orphans' = {}
    \/ (HostsArriveTooLate \/ HostsRefusedAtLogin) /\ UNCHANGED <<pagesVars, ipVars, formsVars, orphans>>

Fairness ==
    /\ WF_vars(AskHosts /\ UNCHANGED <<pagesVars, ipVars, formsVars, orphans>>)
    /\ WF_vars(HostsAnswered)
    /\ \A lane \in 1..3 : WF_vars(TickOf(lane))
    /\ \A step \in 1..4 : WF_vars(CurrentAnswered(1, step))
    /\ \A lane \in 2..3 : WF_vars(CurrentAnswered(lane, 1))
    /\ WF_vars(OldAnswered)

Spec == Init /\ [][Next]_vars
FairSpec == Spec /\ Fairness

-----------------------------------------------------------------------------
(* Properties.                                                                 *)

(* Every variable has its type, and what is on its way belongs to the page     *)
(* that is mounted. *)
TypeOK == SessionTypeOK /\ PagesTypeOK /\ IpTypeOK /\ FormsTypeOK /\ orphans \subseteq {"keeps", "removes"}

(* A loop polls exactly when the selected choice and the rate ask for it, and  *)
(* for the selected host and choice, whatever was selected before and in which *)
(* order: the dependency lists of the timers' effects name enough of what the  *)
(* requests name.  Not all of it: the timer of the page that apache, nginx and *)
(* httpd share polls for the service it was set with (view.since), which the   *)
(* browser's history may have changed since. *)
TimersFollowSelection ==
    \A l \in DOMAIN view.timers :
        view.timers[l] = TimerOf(l, [Selected EXCEPT !.service = view.since], view.rate)

(* An analysis that was asked for with nothing else on its way, and not        *)
(* disturbed since, is of the address in the box on the selected host, and its *)
(* lines are the pages that were loaded, in order and without gaps. *)
CalmPagesInOrder ==
    LET res == lookup.result IN
    lookup.calm /\ res # Nothing =>
        res.ip = lookup.box /\ res.host = selectedHost /\ res.pages >= 1 /\ lookup.logPage = res.pages

(* What a host selector shows is what the next request grants, unless it was   *)
(* emptied by a creation; and "*" is never shown together with hosts. *)
RightsAsShown ==
    /\ ~picker.created => picker.held = picker.shown
    /\ Star \in picker.shown => picker.shown = {Star}

(* What was changed in a dialog that was opened on a quiet page stays until    *)
(* the dialog is closed: no list that comes meanwhile resets it. *)
ChoicesSurvive == dialog.open /\ dialog.quiet => dialog.kept

(* When nothing is on its way, the list shows every accepted change of this    *)
(* page, unless a load of the list failed or was overtaken by an older answer. *)
AcceptedIsListed ==
    writes = {} /\ reloads = {} /\ ~register.behind => register.shown >= register.accepted

MeantSave ==
    /\ settings.saving # Idle /\ settings'.saving = Idle /\ page' = page
    /\ settings.saving.loaded /\ ~settings.overtaken

(* A save from a loaded form stores what was typed since, and leaves the other *)
(* settings as they are stored (a zero becomes the default that is shown),     *)
(* unless something else was saved since the server read what was loaded. *)
SavesWhatIsMeant ==
    [][MeantSave /\ stored' # stored =>
          stored' = [f \in Field |-> IF f \in settings.saving.typed THEN "mine" ELSE ShownAs(stored)[f]]]_vars

(* A token that has expired is noticed on every page, by the page itself or by *)
(* the list of hosts: the login page is loaded, unless the console has crashed  *)
(* (the error screen asks for nothing). *)
ExpiryNoticed == token = "expired" /\ ~crashed ~> page = "login" \/ crashed

(* The steps of a loop that can be answered with this key: a step whose answer *)
(* does not parse ends the run. *)
Served(l, key) ==
    {i \in DOMAIN Loops[l].steps : \A j \in 1..i :
        Loops[l].steps[j].exists /\ (Loops[l].steps[j].hostless \/ key.host # All)}

Settled(l) ==
    LET key == view.timers[l] IN
    key # NoTimer /\ (Loops[l].guarded => key.host # All) =>
        \A i \in Served(l, key) : \A f \in Filled(Loops[l].steps[i]) :
            view.data[f] # <<>> /\ \A k \in DOMAIN view.data[f] : view.data[f][k] = key

(* Once the user leaves the controls alone, every field that is polled shows   *)
(* the selected host and choice, and nothing of an earlier selection: a late   *)
(* answer is overwritten, and a chart forgets it.  (The service is the one the *)
(* timer was set with: see TimersFollowSelection.) *)
SettlesOnSelection ==
    <>[](token = "valid" => \A l \in DOMAIN view.timers : Settled(l))

(* An accepted command shows a toast that promises the firewall's new state:   *)
(* when nothing is on its way any more, the list of that host has been shown   *)
(* with the command in it, even if one of the requests failed. *)
ToastComesTrue ==
    lists = {} /\ refreshes = {} /\ token = "valid" /\ tour.left["faults"] <= left["faults"] + 1 =>
        \A h \in Host : lookup.promised[h] <= lookup.seen[h]
=============================================================================
