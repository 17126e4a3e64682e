---------------------------- MODULE ConsoleForms ----------------------------
(* The forms of the web console: the settings page, and the two pages that     *)
(* list records and change them, Alerts and User management.                   *)
(*                                                                             *)
(* The settings form is loaded once and posted as a whole.  A list page keeps  *)
(* a copy of the server's records, which it loads when it is mounted and again *)
(* after a change; the records of a page are represented by a version, the     *)
(* number of changes they reflect, and one request stands for the two that     *)
(* fetchData sends at once.  Several requests may be on their way and are      *)
(* answered in any order.                                                      *)
EXTENDS ConsoleSession

CONSTANTS
    Field,       \* the settings
    AtZero,      \* those whose stored value is 0, false or empty
    AsStored,    \* those a zero of which is shown as it is: email_alerts
    Star,        \* "*": every host
    Unread,      \* a request the server has not handled yet
    Idle,        \* no request
    MaxWrites,   \* changes on their way at once
    MaxReloads   \* requests of the records on their way at once

ASSUME FieldAssumption == AtZero \cup AsStored \subseteq Field /\ Star \notin Host
ASSUME IdleAssumption == Unread # Idle
ASSUME RequestsAssumption == {MaxWrites, MaxReloads} \subseteq Nat \ {0}

VARIABLES
    settings,  \* the settings page: its form, its load and its save
    stored,    \* the server's settings
    picker,    \* a host selector, and what its owner holds of it
    dialog,    \* the form that covers a list page
    register,  \* the records a list page shows
    writes,    \* changes on their way
    reloads,   \* requests of the records on their way
    ledger     \* the server's records, by page

formsVars == <<settings, stored, picker, dialog, register, writes, reloads, ledger>>

-----------------------------------------------------------------------------
(* The settings page.                                                          *)

Values == [Field -> {"default", "zero", "kept", "mine", "other"}]
Defaults == [f \in Field |-> "default"]

(* data.ddos_threshold || 50: a stored zero is shown as the default.  For the  *)
(* switch of the e-mails, data.email_alerts || false, it is shown as it is.    *)
ShownAs(v) == [f \in Field |-> IF v[f] = "zero" /\ f \notin AsStored THEN "default" ELSE v[f]]

(* typed: the fields that were edited since the load.  loaded: the load was    *)
(* answered.  overtaken: since the server read what was loaded, something      *)
(* other than this form has been saved.                                        *)
SavedForm == [body : Values, typed : SUBSET Field, loaded : BOOLEAN]

SettingsForm(p) ==
    [form |-> Defaults, typed |-> {}, loaded |-> FALSE, overtaken |-> FALSE,
     load |-> IF p = "settings" THEN Unread ELSE Idle, saving |-> Idle]

OnSettings == page = "settings" /\ ~crashed

SettingsRead ==
    /\ settings.load = Unread /\ token = "valid"
    /\ settings' = [settings EXCEPT !.load = stored, !.overtaken = FALSE]
    /\ UNCHANGED <<left, stored, picker, dialog, register, writes, reloads, ledger>>

(* Whatever was typed before the answer came is replaced. *)
\* Mutant: the switch of the e-mails is not put into the form.
SettingsArrive_ForgetsOne ==
    /\ settings.load \notin {Idle, Unread}
    /\ settings' = [settings EXCEPT !.typed = {}, !.loaded = TRUE, !.load = Idle,
           !.form = [f \in Field |-> IF f \in AsStored THEN @[f] ELSE ShownAs(settings.load)[f]]]
    /\ UNCHANGED <<left, stored, picker, dialog, register, writes, reloads, ledger>>

SettingsArrive ==
    /\ settings.load \notin {Idle, Unread}
    /\ settings' = [settings EXCEPT !.form = ShownAs(settings.load), !.typed = {},
                                    !.loaded = TRUE, !.load = Idle]
    /\ UNCHANGED <<left, stored, picker, dialog, register, writes, reloads, ledger>>

(* The defaults stay in the form, and can be saved. *)
SettingsLoadFails ==
    /\ settings.load # Idle
    /\ Spend("faults")
    /\ settings' = [settings EXCEPT !.load = Idle]
    /\ UNCHANGED <<stored, picker, dialog, register, writes, reloads, ledger>>

(* 401: the token is removed and the login page loaded. *)
SettingsRefused == settings.load = Unread /\ token = "expired"

Type(f) ==
    /\ OnSettings /\ f \in Field
    /\ Spend("changes")
    /\ settings' = [settings EXCEPT !.form[f] = "mine", !.typed = @ \cup {f}]
    /\ UNCHANGED <<stored, picker, dialog, register, writes, reloads, ledger>>

(* The whole form is posted as it is; the button is disabled until the answer, *)
(* the fields are not. *)
Save ==
    /\ OnSettings /\ settings.saving = Idle
    /\ Spend("writes")
    /\ settings' = [settings EXCEPT !.saving =
           [body |-> settings.form, typed |-> settings.typed, loaded |-> settings.loaded]]
    /\ UNCHANGED <<stored, picker, dialog, register, writes, reloads, ledger>>

SaveHandled ==
    /\ settings.saving # Idle /\ token = "valid"
    /\ stored' = settings.saving.body
    /\ settings' = [settings EXCEPT !.saving = Idle, !.overtaken = @ \/ ~settings.saving.loaded]
    /\ UNCHANGED <<left, picker, dialog, register, writes, reloads, ledger>>

(* The request or its answer is lost. *)
SaveFails ==
    /\ settings.saving # Idle
    /\ Spend("faults")
    /\ stored' \in {stored, settings.saving.body}
    /\ settings' = [settings EXCEPT !.saving = Idle, !.overtaken = @ \/ ~settings.saving.loaded]
    /\ UNCHANGED <<picker, dialog, register, writes, reloads, ledger>>

(* 401: the login page is loaded, the token stays. *)
SaveRefused == settings.saving # Idle /\ token = "expired"

(* Another administrator changes a setting. *)
OtherSaves(f) ==
    /\ OnSettings /\ f \in Field
    /\ Spend("writes")
    /\ stored' = [stored EXCEPT ![f] = "other"]
    /\ settings' = [settings EXCEPT !.overtaken = TRUE]
    /\ UNCHANGED <<picker, dialog, register, writes, reloads, ledger>>

-----------------------------------------------------------------------------
(* The selector of the hosts a new user or a new group may see.  The selector  *)
(* has a state of its own; its owner, which sends the request, holds a copy.   *)

Picks == SUBSET (Host \cup {Star})
OnUsers == page = "users" /\ ~crashed /\ ~dialog.open

Toggled(s, h) ==
    IF h = Star THEN IF Star \in s THEN {} ELSE {Star}
    ELSE IF h \in s THEN s \ {h, Star} ELSE (s \ {Star}) \cup {h}

Picked(s) == picker' = [shown |-> s, held |-> s, created |-> FALSE]

Pick(h) ==
    /\ OnUsers /\ h \in Host \cup {Star}
    /\ Spend("changes")
    /\ Picked(Toggled(picker.shown, h))
    /\ UNCHANGED <<settings, stored, dialog, register, writes, reloads, ledger>>

\* Mutant: the selector clears itself and does not tell its owner.
ClearPicks_OnlyShown ==
    /\ OnUsers
    /\ picker' = [picker EXCEPT !.shown = {}]
    /\ UNCHANGED <<left, settings, stored, dialog, register, writes, reloads, ledger>>

ClearPicks ==
    /\ OnUsers
    /\ Picked({})
    /\ UNCHANGED <<left, settings, stored, dialog, register, writes, reloads, ledger>>

(* A creation mounts a new selector and leaves the owner's copy as it was. *)
PickerAfterCreation == [picker EXCEPT !.shown = {}, !.created = TRUE]

-----------------------------------------------------------------------------
(* The list pages.                                                             *)

ListPages == {"alerts", "users"}
OnList == page \in ListPages /\ ~crashed
(* A viewer is shown the alerts page without its buttons. *)
MayWrite == OnList /\ role = "admin"

(* What a button sends.  "form": the dialog's save; "create": the forms for a  *)
(* new user or group; "button": delete, toggle, unsilence; "password".         *)
Kinds(p) == IF p = "alerts" THEN {"form", "button"} ELSE {"form", "create", "button", "password"}
Write  == [tag : 1..MaxWrites, kind : Kinds("users")]
Reload == [tag : 1..MaxReloads, read : Nat \cup {Unread}]

FreeTags(flight, max) ==
    {t \in 1..max : /\ \A q \in flight : q.tag # t
                    /\ \A u \in 1..t - 1 : \E q \in flight : q.tag = u}

NoDialog == [open |-> FALSE, quiet |-> FALSE, touched |-> FALSE, kept |-> TRUE]
NewRegister == [shown |-> 0, accepted |-> 0, behind |-> FALSE]

(* fetchData. *)
StartReload ==
    \E t \in FreeTags(reloads, MaxReloads) : reloads' = reloads \cup {[tag |-> t, read |-> Unread]}

(* The dialog: a rule, a channel, a silence, or a group and its members.  It   *)
(* covers the page.  quiet: it was opened with nothing on its way.             *)
OpenDialog ==
    /\ MayWrite /\ ~dialog.open
    /\ Spend("changes")
    /\ dialog' = [open |-> TRUE, quiet |-> writes = {} /\ reloads = {}, touched |-> FALSE, kept |-> TRUE]
    /\ UNCHANGED <<settings, stored, picker, register, writes, reloads, ledger>>

EditDialog ==
    /\ MayWrite /\ dialog.open
    /\ dialog' = [dialog EXCEPT !.touched = TRUE, !.kept = TRUE]
    /\ UNCHANGED <<left, settings, stored, picker, register, writes, reloads, ledger>>

CancelDialog ==
    /\ MayWrite /\ dialog.open
    /\ dialog' = NoDialog
    /\ UNCHANGED <<left, settings, stored, picker, register, writes, reloads, ledger>>

(* No button is disabled while a request of it is on its way. *)
SendWrite(kind) ==
    /\ MayWrite /\ kind \in Kinds(page)
    /\ dialog.open <=> kind = "form"
    /\ Spend("writes")
    /\ \E t \in FreeTags(writes, MaxWrites) : writes' = writes \cup {[tag |-> t, kind |-> kind]}
    /\ UNCHANGED <<settings, stored, picker, dialog, register, reloads, ledger>>

(* The alerts page does not look at the answer of a change.  User management   *)
(* does, but for a deletion; a new password is not listed.                     *)
\* Mutant: the answer of a saved form is not looked at either.
ReloadsAfter_Always(kind, ok) == page = "alerts" \/ kind # "password"

\* Mutant: a changed group closes its dialog and does not load the list.
ReloadsAfter_NotForms(kind, ok) == page = "alerts" \/ kind = "button" \/ (kind = "create" /\ ok)

ReloadsAfter(kind, ok) ==
    \/ page = "alerts"
    \/ kind = "button"
    \/ kind \in {"form", "create"} /\ ok

ReloadAfter(kind, ok) == IF ReloadsAfter(kind, ok) THEN StartReload ELSE UNCHANGED reloads

(* An answered form closes the dialog, whichever is open by then. *)
ClosesDialog(kind, ok) == kind = "form" /\ (ok \/ page = "alerts")

WriteAccepted(w) ==
    /\ w \in writes /\ token = "valid" /\ ~crashed
    /\ writes' = writes \ {w}
    /\ ledger' = IF w.kind = "password" THEN ledger ELSE [ledger EXCEPT ![page] = @ + 1]
    /\ register' = IF w.kind = "password" THEN register
                   ELSE [register EXCEPT !.accepted = ledger'[page]]
    /\ picker' = IF w.kind = "create" THEN PickerAfterCreation ELSE picker
    /\ dialog' = IF ClosesDialog(w.kind, TRUE) THEN NoDialog ELSE dialog
    /\ ReloadAfter(w.kind, TRUE)
    /\ UNCHANGED <<left, settings, stored>>

(* 401, or the server answers an error. *)
WriteRefused(w) ==
    /\ w \in writes
    /\ IF token # "valid" THEN UNCHANGED left ELSE Spend("faults")
    /\ writes' = writes \ {w}
    /\ dialog' = IF ClosesDialog(w.kind, FALSE) THEN NoDialog ELSE dialog
    /\ ReloadAfter(w.kind, FALSE)
    /\ UNCHANGED <<settings, stored, picker, register, ledger>>

(* The request or its answer is lost: the promise is rejected, nothing reloads. *)
WriteLost(w) ==
    /\ w \in writes
    /\ Spend("faults")
    /\ writes' = writes \ {w}
    /\ ledger' \in {ledger, [ledger EXCEPT ![page] = @ + 1]}
    /\ UNCHANGED <<settings, stored, picker, dialog, register, reloads>>

(* Another administrator changes the records. *)
OthersWrite ==
    /\ OnList
    /\ Spend("writes")
    /\ ledger' = [ledger EXCEPT ![page] = @ + 1]
    /\ UNCHANGED <<settings, stored, picker, dialog, register, writes, reloads>>

ReloadRead(q) ==
    /\ q \in reloads /\ q.read = Unread
    /\ token = "valid" /\ role = "admin"
    /\ reloads' = (reloads \ {q}) \cup {[q EXCEPT !.read = ledger[page]]}
    /\ UNCHANGED <<left, settings, stored, picker, dialog, register, writes, ledger>>

(* Every answer is shown, an older one over a newer one as well.  A new list   *)
(* of users makes the open dialog of a group choose its members again.         *)
ReloadArrives(q) ==
    /\ q \in reloads /\ q.read # Unread
    /\ reloads' = reloads \ {q}
    /\ register' = [register EXCEPT !.shown = q.read, !.behind = @ \/ q.read < register.shown]
    /\ dialog' = IF page = "users" /\ dialog.touched THEN [dialog EXCEPT !.kept = FALSE] ELSE dialog
    /\ UNCHANGED <<left, settings, stored, picker, writes, ledger>>

(* The alerts page ignores an answer that is not ok, and both pages a request  *)
(* that is lost. *)
ReloadFails(q) ==
    /\ q \in reloads
    /\ \/ Spend("faults")
       \/ q.read = Unread /\ page = "alerts" /\ (token # "valid" \/ role # "admin") /\ UNCHANGED left
    /\ reloads' = reloads \ {q}
    /\ register' = [register EXCEPT !.behind = TRUE]
    /\ UNCHANGED <<settings, stored, picker, dialog, writes, ledger>>

(* User management takes the answer for the list whatever its status is: the   *)
(* object of a 401, or of a server's error, has no map(), and the console      *)
(* crashes (see WebConsole).                                                   *)
ReloadThrows ==
    /\ page = "users"
    /\ \E q \in reloads : q.read = Unread
    /\ IF token # "valid" THEN UNCHANGED left ELSE Spend("faults")

-----------------------------------------------------------------------------
(* Pages come and go.                                                          *)

(* What is on its way when a page is left may still be done by the server, and *)
(* its answer finds no page. *)
LeftBehind ==
    /\ stored' \in {stored} \cup (IF settings.saving = Idle THEN {} ELSE {settings.saving.body})
    /\ IF page \in ListPages
       THEN \E n \in 0..Cardinality(writes) : ledger' = [ledger EXCEPT ![page] = @ + n]
       ELSE UNCHANGED ledger

FormsMount ==
    /\ LeftBehind
    /\ settings' = SettingsForm(page')
    /\ picker' = [shown |-> {}, held |-> {}, created |-> FALSE]
    /\ dialog' = NoDialog
    /\ register' = NewRegister
    /\ writes' = {}
    /\ reloads' = IF page' \in ListPages THEN {[tag |-> 1, read |-> Unread]} ELSE {}

FormsUnmount ==
    /\ LeftBehind
    /\ settings' = SettingsForm("login")
    /\ picker' = [shown |-> {}, held |-> {}, created |-> FALSE]
    /\ dialog' = NoDialog
    /\ register' = NewRegister
    /\ writes' = {} /\ reloads' = {}

FormsInit ==
    /\ settings = SettingsForm(page)
    /\ stored = [f \in Field |-> IF f \in AtZero THEN "zero" ELSE "kept"]
    /\ picker = [shown |-> {}, held |-> {}, created |-> FALSE]
    /\ dialog = NoDialog
    /\ register = NewRegister
    /\ writes = {}
    /\ reloads = IF page \in ListPages THEN {[tag |-> 1, read |-> Unread]} ELSE {}
    /\ ledger = [p \in ListPages |-> 0]

FormsTypeOK ==
    /\ settings \in [form : Values, typed : SUBSET Field, loaded : BOOLEAN, overtaken : BOOLEAN,
                     load : Values \cup {Unread, Idle}, saving : SavedForm \cup {Idle}]
    /\ stored \in Values
    /\ picker \in [shown : Picks, held : Picks, created : BOOLEAN]
    /\ dialog \in [open : BOOLEAN, quiet : BOOLEAN, touched : BOOLEAN, kept : BOOLEAN]
    /\ register \in [shown : Nat, accepted : Nat, behind : BOOLEAN]
    /\ writes \subseteq Write
    /\ reloads \subseteq Reload
    /\ ledger \in [ListPages -> Nat]
=============================================================================
