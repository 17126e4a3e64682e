------------------------- MODULE ConsoleForms_proofs -------------------------
(* Proofs about the forms of the console: what a host selector shows is what    *)
(* is granted, an open dialog keeps what was typed into it, an accepted change  *)
(* is listed, and a save of the settings stores what was meant.                *)
EXTENDS WebConsole_proofs

-----------------------------------------------------------------------------
(* Types.  Only a list page has requests of records on their way, which is why  *)
(* the ledger is only asked for a page it has.                                 *)

FormsTyped ==
    /\ FormsTypeOK
    /\ writes # {} \/ reloads # {} => page \in ListPages

LEMMA FormsTypedInit == Init => FormsTyped
BY RequestsAssumption
DEF Init, FormsInit, FormsTyped, FormsTypeOK, SettingsForm, Values, Defaults, Picks, NoDialog,
    NewRegister, Reload, ListPages

LEMMA StoredTyped ==
    ASSUME FormsTypeOK, LeftBehind
    PROVE  stored' \in Values /\ ledger' \in [ListPages -> Nat]
<1>1. stored' \in Values
  BY DEF FormsTypeOK, LeftBehind, SavedForm
<1>2. ledger' \in [ListPages -> Nat]
  <2>1. CASE page \in ListPages
    <3>1. PICK n \in 0..Cardinality(writes) : ledger' = [ledger EXCEPT ![page] = @ + n]
      BY <2>1 DEF LeftBehind
    <3>2. n \in Nat
      OBVIOUS
    <3> QED BY <2>1, <3>1, <3>2 DEF FormsTypeOK
  <2>2. CASE page \notin ListPages
    BY <2>2 DEF LeftBehind, FormsTypeOK
  <2> QED BY <2>1, <2>2
<1> QED BY <1>1, <1>2

LEMMA SettingsFormTyped ==
    ASSUME NEW p
    PROVE  SettingsForm(p) \in [form : Values, typed : SUBSET Field, loaded : BOOLEAN,
               overtaken : BOOLEAN, load : Values \cup {Unread, Idle}, saving : SavedForm \cup {Idle}]
BY DEF SettingsForm, Values, Defaults

LEMMA NoDialogTyped ==
    NoDialog \in [open : BOOLEAN, quiet : BOOLEAN, touched : BOOLEAN, kept : BOOLEAN]
BY DEF NoDialog

LEMMA FormsTypedAnew ==
    ASSUME FormsTyped, FormsMount \/ FormsUnmount
    PROVE  FormsTyped'
<1>1. stored' \in Values /\ ledger' \in [ListPages -> Nat]
  BY StoredTyped DEF FormsTyped, FormsMount, FormsUnmount
<1>2. settings' \in [form : Values, typed : SUBSET Field, loaded : BOOLEAN,
               overtaken : BOOLEAN, load : Values \cup {Unread, Idle}, saving : SavedForm \cup {Idle}]
  BY SettingsFormTyped DEF FormsMount, FormsUnmount
<1>3. /\ picker' \in [shown : Picks, held : Picks, created : BOOLEAN]
      /\ dialog' \in [open : BOOLEAN, quiet : BOOLEAN, touched : BOOLEAN, kept : BOOLEAN]
      /\ register' \in [shown : Nat, accepted : Nat, behind : BOOLEAN]
  <2>1. [shown |-> {}, held |-> {}, created |-> FALSE] \in [shown : Picks, held : Picks, created : BOOLEAN]
    BY DEF Picks
  <2>2. NewRegister \in [shown : Nat, accepted : Nat, behind : BOOLEAN]
    BY DEF NewRegister
  <2> QED BY <2>1, <2>2, NoDialogTyped DEF FormsMount, FormsUnmount
<1>4. /\ writes' = {} /\ reloads' \subseteq Reload
      /\ reloads' # {} => page' \in ListPages
  <2>1. [tag |-> 1, read |-> Unread] \in Reload
    <3>1. 1 \in 1..MaxReloads
      BY RequestsAssumption
    <3> QED BY <3>1 DEF Reload
  <2> QED BY <2>1 DEF FormsMount, FormsUnmount
<1> QED BY <1>1, <1>2, <1>3, <1>4 DEF FormsTyped, FormsTypeOK

(* The settings page. *)
LEMMA SettingsTyped ==
    ASSUME FormsTypeOK,
           \/ SettingsRead \/ SettingsArrive \/ SettingsLoadFails
           \/ Save \/ SaveHandled \/ SaveFails
           \/ \E f \in Field : Type(f) \/ OtherSaves(f)
    PROVE  FormsTypeOK' /\ UNCHANGED <<writes, reloads>>
<1>0. \A v \in Values : ShownAs(v) \in Values
  BY DEF ShownAs, Values
<1>1. CASE SettingsRead
  BY <1>1 DEF SettingsRead, FormsTypeOK
<1>2. CASE SettingsArrive
  BY <1>0, <1>2 DEF SettingsArrive, FormsTypeOK
<1>3. CASE SettingsLoadFails
  BY <1>3 DEF SettingsLoadFails, FormsTypeOK
<1>4. CASE Save
  BY <1>4 DEF Save, FormsTypeOK, SavedForm
<1>5. CASE SaveHandled
  BY <1>5 DEF SaveHandled, FormsTypeOK, SavedForm
<1>6. CASE SaveFails
  BY <1>6 DEF SaveFails, FormsTypeOK, SavedForm
<1>7. ASSUME NEW f \in Field, Type(f)
      PROVE  FormsTypeOK' /\ UNCHANGED <<writes, reloads>>
  <2>1. [settings.form EXCEPT ![f] = "mine"] \in Values
    BY DEF FormsTypeOK, Values
  <2>2. settings' = [settings EXCEPT !.form = [settings.form EXCEPT ![f] = "mine"],
                                     !.typed = settings.typed \cup {f}]
    BY <1>7 DEF Type, FormsTypeOK
  <2> QED BY <1>7, <2>1, <2>2 DEF Type, FormsTypeOK
<1>8. ASSUME NEW f \in Field, OtherSaves(f)
      PROVE  FormsTypeOK' /\ UNCHANGED <<writes, reloads>>
  BY <1>8 DEF OtherSaves, FormsTypeOK, Values
<1> QED BY <1>1, <1>2, <1>3, <1>4, <1>5, <1>6, <1>7, <1>8

(* The selector and the dialog. *)
LEMMA ControlsTyped ==
    ASSUME FormsTypeOK,
           \/ \E h \in Host \cup {Star} : Pick(h)
           \/ ClearPicks
           \/ OpenDialog \/ EditDialog \/ CancelDialog
    PROVE  FormsTypeOK' /\ UNCHANGED <<writes, reloads>>
<1>1. ASSUME NEW h \in Host \cup {Star}, Pick(h)
      PROVE  FormsTypeOK' /\ UNCHANGED <<writes, reloads>>
  <2>1. Toggled(picker.shown, h) \in Picks
    BY DEF FormsTypeOK, Toggled, Picks
  <2> QED BY <1>1, <2>1 DEF Pick, Picked, FormsTypeOK
<1>2. CASE ClearPicks
  BY <1>2 DEF ClearPicks, Picked, FormsTypeOK, Picks
<1>3. CASE OpenDialog
  <2>1. \E quiet \in BOOLEAN : dialog' = [open |-> TRUE, quiet |-> quiet, touched |-> FALSE, kept |-> TRUE]
    BY <1>3, Zenon DEF OpenDialog
  <2> QED BY <1>3, <2>1 DEF OpenDialog, FormsTypeOK
<1>4. CASE EditDialog
  BY <1>4 DEF EditDialog, FormsTypeOK
<1>5. CASE CancelDialog
  BY <1>5, NoDialogTyped DEF CancelDialog, FormsTypeOK
<1> QED BY <1>1, <1>2, <1>3, <1>4, <1>5

LEMMA ReloadTyped ==
    ASSUME reloads \subseteq Reload, NEW kind, NEW ok, ReloadAfter(kind, ok)
    PROVE  reloads' \subseteq Reload
BY DEF ReloadAfter, StartReload, FreeTags, Reload

(* Requests that change or load the records. *)
LEMMA RecordsTyped ==
    ASSUME FormsTyped,
           \/ \E kind \in Kinds("users") : SendWrite(kind)
           \/ \E w \in writes : WriteAccepted(w) \/ WriteRefused(w) \/ WriteLost(w)
           \/ OthersWrite
           \/ \E q \in reloads : ReloadRead(q) \/ ReloadArrives(q) \/ ReloadFails(q)
    PROVE  FormsTypeOK' /\ (writes # {} \/ reloads # {} \/ page \in ListPages)
<1>0. FormsTypeOK
  BY DEF FormsTyped
<1>1. ASSUME NEW kind \in Kinds("users"), SendWrite(kind) PROVE FormsTypeOK' /\ page \in ListPages
  BY <1>0, <1>1 DEF SendWrite, MayWrite, OnList, FormsTypeOK, FreeTags, Write
<1>2. ASSUME NEW w \in writes, WriteAccepted(w) PROVE FormsTypeOK'
  <2>1. reloads' \subseteq Reload
    BY <1>0, <1>2, ReloadTyped DEF WriteAccepted, FormsTypeOK
  <2>2. page \in ListPages
    BY DEF FormsTyped
  <2>3. ledger' \in [ListPages -> Nat] /\ ledger'[page] \in Nat
    BY <1>0, <1>2, <2>2 DEF WriteAccepted, FormsTypeOK
  <2>4. register' \in [shown : Nat, accepted : Nat, behind : BOOLEAN]
    BY <1>0, <1>2, <2>3 DEF WriteAccepted, FormsTypeOK
  <2>5. /\ picker' \in [shown : Picks, held : Picks, created : BOOLEAN]
        /\ dialog' \in [open : BOOLEAN, quiet : BOOLEAN, touched : BOOLEAN, kept : BOOLEAN]
    BY <1>0, <1>2 DEF WriteAccepted, FormsTypeOK, PickerAfterCreation, NoDialog, Picks
  <2> QED BY <1>0, <1>2, <2>1, <2>3, <2>4, <2>5 DEF WriteAccepted, FormsTypeOK
<1>3. ASSUME NEW w \in writes, WriteRefused(w) PROVE FormsTypeOK'
  <2>1. reloads' \subseteq Reload
    BY <1>0, <1>3, ReloadTyped DEF WriteRefused, FormsTypeOK
  <2> QED BY <1>0, <1>3, <2>1 DEF WriteRefused, FormsTypeOK, NoDialog
<1>4. ASSUME NEW w \in writes, WriteLost(w) PROVE FormsTypeOK'
  <2>1. page \in ListPages
    BY DEF FormsTyped
  <2> QED BY <1>0, <1>4, <2>1 DEF WriteLost, FormsTypeOK
<1>5. ASSUME OthersWrite PROVE FormsTypeOK' /\ page \in ListPages
  BY <1>0, <1>5 DEF OthersWrite, OnList, FormsTypeOK
<1>6. ASSUME NEW q \in reloads, ReloadRead(q) \/ ReloadArrives(q) \/ ReloadFails(q)
      PROVE  FormsTypeOK'
  <2>0. q \in Reload /\ page \in ListPages
    BY <1>0 DEF FormsTypeOK, FormsTyped
  <2>1. CASE ReloadRead(q)
    <3>1. [q EXCEPT !.read = ledger[page]] \in Reload
      BY <1>0, <2>0 DEF Reload, FormsTypeOK
    <3> QED BY <1>0, <2>1, <3>1 DEF ReloadRead, FormsTypeOK
  <2>2. CASE ReloadArrives(q)
    <3>1. q.read \in Nat
      BY <2>0, <2>2 DEF ReloadArrives, Reload
    <3> QED BY <1>0, <2>2, <3>1 DEF ReloadArrives, FormsTypeOK
  <2>3. CASE ReloadFails(q)
    BY <1>0, <2>3 DEF ReloadFails, FormsTypeOK
  <2> QED BY <1>6, <2>1, <2>2, <2>3
<1> QED BY <1>1, <1>2, <1>3, <1>4, <1>5, <1>6

LEMMA FormsTypedStep == FormsTyped /\ [Next]_vars => FormsTyped'
<1> SUFFICES ASSUME FormsTyped, [Next]_vars PROVE FormsTyped'
  OBVIOUS
<1>1. CASE FormsMount \/ FormsUnmount
  BY <1>1, FormsTypedAnew
<1>2. CASE FormsNext /\ UNCHANGED page
  BY <1>2, SettingsTyped, ControlsTyped, RecordsTyped DEF FormsNext, FormsTyped
<1>3. CASE UNCHANGED <<formsVars, page>>
  BY <1>3 DEF formsVars, FormsTyped, FormsTypeOK
<1> QED BY <1>1, <1>2, <1>3, FormsFrame

-----------------------------------------------------------------------------
(* The host selector of user management.                                       *)

RightsInv ==
    /\ picker \in [shown : Picks, held : Picks, created : BOOLEAN]
    /\ RightsAsShown

(* A click keeps "*" alone. *)
LEMMA ToggledPicks ==
    ASSUME NEW s \in Picks, Star \in s => s = {Star}, NEW h \in Host \cup {Star}
    PROVE  /\ Toggled(s, h) \in Picks
           /\ Star \in Toggled(s, h) => Toggled(s, h) = {Star}
<1>1. CASE h = Star
  BY <1>1 DEF Toggled, Picks
<1>2. CASE h # Star
  BY <1>2 DEF Toggled, Picks
<1> QED BY <1>1, <1>2

LEMMA PickedRights ==
    ASSUME NEW s \in Picks, Star \in s => s = {Star}, Picked(s)
    PROVE  RightsInv'
BY DEF Picked, RightsInv, RightsAsShown

LEMMA NewPickerRights ==
    ASSUME picker' = [shown |-> {}, held |-> {}, created |-> FALSE]
    PROVE  RightsInv'
BY DEF RightsInv, RightsAsShown, Picks

LEMMA RightsStep == RightsInv /\ [Next]_vars => RightsInv'
<1> SUFFICES ASSUME RightsInv, [Next]_vars PROVE RightsInv'
  OBVIOUS
<1>0. ASSUME UNCHANGED picker PROVE RightsInv'
  BY <1>0 DEF RightsInv, RightsAsShown
<1>1. CASE FormsMount
  BY <1>1, NewPickerRights DEF FormsMount
<1>2. CASE FormsUnmount
  BY <1>2, NewPickerRights DEF FormsUnmount
<1>3. CASE FormsNext
  <2>1. CASE \E h \in Host \cup {Star} : Pick(h)
    <3>1. PICK h \in Host \cup {Star} : Picked(Toggled(picker.shown, h))
      BY <2>1 DEF Pick
    <3>2. picker.shown \in Picks /\ (Star \in picker.shown => picker.shown = {Star})
      BY DEF RightsInv, RightsAsShown
    <3>3. /\ Toggled(picker.shown, h) \in Picks
          /\ Star \in Toggled(picker.shown, h) => Toggled(picker.shown, h) = {Star}
      BY <3>2, ToggledPicks
    <3> QED BY <3>1, <3>3, PickedRights
  <2>2. CASE ClearPicks
    BY <2>2, PickedRights DEF ClearPicks, Picks
  <2>3. CASE \E w \in writes : WriteAccepted(w)
    <3>1. picker' \in {picker, PickerAfterCreation}
      BY <2>3 DEF WriteAccepted
    <3>2. CASE picker' = PickerAfterCreation
      BY <3>2 DEF PickerAfterCreation, RightsInv, RightsAsShown, Picks
    <3> QED BY <1>0, <3>1, <3>2
  <2>4. CASE \/ SettingsRead \/ SettingsArrive \/ SettingsLoadFails
             \/ Save \/ SaveHandled \/ SaveFails
             \/ \E f \in Field : Type(f) \/ OtherSaves(f)
    BY <1>0, <2>4 DEF SettingsRead, SettingsArrive, SettingsLoadFails, Save, SaveHandled,
                      SaveFails, Type, OtherSaves
  <2>5. CASE \/ OpenDialog \/ EditDialog \/ CancelDialog \/ OthersWrite
             \/ \E kind \in Kinds("users") : SendWrite(kind)
    BY <1>0, <2>5 DEF OpenDialog, EditDialog, CancelDialog, OthersWrite, SendWrite
  <2>6. CASE \/ \E w \in writes : WriteRefused(w) \/ WriteLost(w)
             \/ \E q \in reloads : ReloadRead(q) \/ ReloadArrives(q) \/ ReloadFails(q)
    BY <1>0, <2>6 DEF WriteRefused, WriteLost, ReloadRead, ReloadArrives, ReloadFails
  <2> QED BY <1>3, <2>1, <2>2, <2>3, <2>4, <2>5, <2>6 DEF FormsNext
<1>4. CASE UNCHANGED formsVars
  BY <1>0, <1>4 DEF formsVars
<1> QED BY <1>1, <1>2, <1>3, <1>4, FormsFrame

(* The hosts a new user or group is granted are the ones the selector shows,   *)
(* in every reachable state in which no creation has emptied it, and "*" is    *)
(* never combined with hosts (HostSelector and its owner in UserManagement). *)
THEOREM RightsAsShownHolds == Spec => []RightsAsShown
<1>1. Init => RightsInv
  BY DEF Init, FormsInit, RightsInv, RightsAsShown, Picks
<1>2. RightsInv => RightsAsShown
  BY DEF RightsInv
<1> QED BY <1>1, <1>2, RightsStep, PTL DEF Spec
-----------------------------------------------------------------------------
(* The dialog.  While one that was opened on a quiet page is open, no list is   *)
(* on its way and nothing but the dialog itself is being saved: every answer   *)
(* that loads the list closes the dialog first.                                *)

QuietDialog ==
    dialog.open /\ dialog.quiet =>
        /\ reloads = {}
        /\ \A w \in writes : w.kind = "form"
        /\ dialog.kept

LEMMA ClosedIsQuiet ==
    ASSUME dialog' = NoDialog
    PROVE  QuietDialog'
BY DEF QuietDialog, NoDialog

LEMMA QuietStep == FormsTyped /\ QuietDialog /\ [Next]_vars => QuietDialog'
<1> SUFFICES ASSUME FormsTyped, QuietDialog, [Next]_vars PROVE QuietDialog'
  OBVIOUS
<1>0. dialog \in [open : BOOLEAN, quiet : BOOLEAN, touched : BOOLEAN, kept : BOOLEAN]
  BY DEF FormsTyped, FormsTypeOK
<1>1. ASSUME UNCHANGED <<dialog, writes, reloads>> PROVE QuietDialog'
  BY <1>1 DEF QuietDialog
<1>2. CASE FormsMount \/ FormsUnmount
  BY <1>2, ClosedIsQuiet DEF FormsMount, FormsUnmount
<1>3. CASE UNCHANGED formsVars
  BY <1>1, <1>3 DEF formsVars
<1>4. CASE FormsNext
  <2>1. CASE \/ SettingsRead \/ SettingsArrive \/ SettingsLoadFails
             \/ Save \/ SaveHandled \/ SaveFails
             \/ \E f \in Field : Type(f) \/ OtherSaves(f)
    BY <1>1, <2>1 DEF SettingsRead, SettingsArrive, SettingsLoadFails, Save, SaveHandled,
                      SaveFails, Type, OtherSaves
  <2>2. CASE \/ \E h \in Host \cup {Star} : Pick(h)
             \/ ClearPicks \/ OthersWrite
    BY <1>1, <2>2 DEF Pick, ClearPicks, OthersWrite
  <2>3. CASE OpenDialog
    <3>1. dialog'.quiet => writes = {} /\ reloads = {}
      BY <2>3 DEF OpenDialog
    <3>2. dialog'.kept /\ UNCHANGED <<writes, reloads>>
      BY <2>3 DEF OpenDialog
    <3> QED BY <3>1, <3>2 DEF QuietDialog
  <2>4. CASE EditDialog
    BY <1>0, <2>4 DEF EditDialog, QuietDialog
  <2>5. CASE CancelDialog
    BY <2>5, ClosedIsQuiet DEF CancelDialog
  <2>6. ASSUME NEW kind \in Kinds("users"), SendWrite(kind) PROVE QuietDialog'
    BY <2>6 DEF SendWrite, QuietDialog
  <2>7. ASSUME NEW w \in writes, WriteAccepted(w) PROVE QuietDialog'
    <3>1. CASE w.kind = "form"
      BY <2>7, <3>1, ClosedIsQuiet DEF WriteAccepted, ClosesDialog
    <3>2. CASE w.kind # "form"
      BY <2>7, <3>2 DEF WriteAccepted, ClosesDialog, QuietDialog
    <3> QED BY <3>1, <3>2
  <2>8. ASSUME NEW w \in writes, WriteRefused(w) PROVE QuietDialog'
    <3>1. CASE ClosesDialog(w.kind, FALSE)
      BY <2>8, <3>1, ClosedIsQuiet DEF WriteRefused
    <3>2. CASE w.kind # "form"
      BY <2>8, <3>2 DEF WriteRefused, ClosesDialog, QuietDialog
    <3>3. CASE w.kind = "form" /\ page # "alerts"
      BY <2>8, <3>3 DEF WriteRefused, ClosesDialog, ReloadAfter, ReloadsAfter, QuietDialog
    <3> QED BY <3>1, <3>2, <3>3 DEF ClosesDialog
  <2>9. ASSUME NEW w \in writes, WriteLost(w) PROVE QuietDialog'
    BY <2>9 DEF WriteLost, QuietDialog
  <2>10. ASSUME NEW q \in reloads, ReloadRead(q) \/ ReloadArrives(q) \/ ReloadFails(q)
         PROVE  QuietDialog'
    <3>1. ~(dialog.open /\ dialog.quiet)
      BY DEF QuietDialog
    <3>2. dialog'.open = dialog.open /\ dialog'.quiet = dialog.quiet
      BY <1>0, <2>10 DEF ReloadRead, ReloadArrives, ReloadFails
    <3> QED BY <3>1, <3>2 DEF QuietDialog
  <2> QED BY <1>4, <2>1, <2>2, <2>3, <2>4, <2>5, <2>6, <2>7, <2>8, <2>9, <2>10 DEF FormsNext
<1> QED BY <1>2, <1>3, <1>4, FormsFrame

(* What is typed into a dialog that was opened on a quiet page of alerts or of  *)
(* users is in it until it is closed, in every reachable state. *)
THEOREM ChoicesSurviveHolds == Spec => []ChoicesSurvive
<1>1. Init => QuietDialog
  BY DEF Init, FormsInit, NoDialog, QuietDialog
<1>2. QuietDialog => ChoicesSurvive
  BY DEF QuietDialog, ChoicesSurvive
<1> QED BY <1>1, <1>2, FormsTypedInit, FormsTypedStep, QuietStep, PTL DEF Spec

-----------------------------------------------------------------------------
(* The list.  Unless it fell behind, it shows every accepted change or a       *)
(* request is on its way that the server reads after the change, or has.       *)

ListInv ==
    /\ page \in ListPages => register.accepted <= ledger[page]
    /\ \/ register.behind
       \/ register.shown >= register.accepted
       \/ \E q \in reloads : q.read = Unread \/ q.read >= register.accepted

LEMMA ReloadKept ==
    ASSUME NEW kind, NEW ok, ReloadAfter(kind, ok)
    PROVE  /\ reloads \subseteq reloads'
           /\ ReloadsAfter(kind, ok) => \E q \in reloads' : q.read = Unread
<1>1. CASE ReloadsAfter(kind, ok)
  <2>1. PICK t : reloads' = reloads \cup {[tag |-> t, read |-> Unread]}
    BY <1>1 DEF ReloadAfter, StartReload
  <2>2. [tag |-> t, read |-> Unread] \in reloads' /\ [tag |-> t, read |-> Unread].read = Unread
    BY <2>1
  <2> QED BY <2>1, <2>2
<1>2. CASE ~ReloadsAfter(kind, ok)
  BY <1>2 DEF ReloadAfter
<1> QED BY <1>1, <1>2

LEMMA ListStep == FormsTyped /\ ListInv /\ [Next]_vars => ListInv'
<1> SUFFICES ASSUME FormsTyped, ListInv, [Next]_vars PROVE ListInv'
  OBVIOUS
<1>0. /\ register \in [shown : Nat, accepted : Nat, behind : BOOLEAN]
      /\ ledger \in [ListPages -> Nat]
      /\ reloads \subseteq Reload /\ writes \subseteq Write
      /\ writes # {} \/ reloads # {} => page \in ListPages
  BY DEF FormsTyped, FormsTypeOK
<1>1. ASSUME UNCHANGED <<register, reloads, ledger, page>> PROVE ListInv'
  BY <1>1 DEF ListInv
<1>2. CASE FormsMount \/ FormsUnmount
  <2>1. register' = NewRegister
    BY <1>2 DEF FormsMount, FormsUnmount
  <2>2. ledger' \in [ListPages -> Nat]
    BY <1>2, StoredTyped DEF FormsMount, FormsUnmount, FormsTyped
  <2> QED BY <2>1, <2>2 DEF ListInv, NewRegister
<1>3. CASE UNCHANGED <<formsVars, page>>
  BY <1>1, <1>3 DEF formsVars
<1>4. CASE FormsNext /\ UNCHANGED page
  <2>1. CASE \/ SettingsRead \/ SettingsArrive \/ SettingsLoadFails
             \/ Save \/ SaveHandled \/ SaveFails
             \/ \E f \in Field : Type(f) \/ OtherSaves(f)
    BY <1>1, <1>4, <2>1 DEF SettingsRead, SettingsArrive, SettingsLoadFails, Save, SaveHandled,
                      SaveFails, Type, OtherSaves
  <2>2. CASE \/ \E h \in Host \cup {Star} : Pick(h)
             \/ ClearPicks \/ OpenDialog \/ EditDialog \/ CancelDialog
             \/ \E kind \in Kinds("users") : SendWrite(kind)
    BY <1>1, <1>4, <2>2 DEF Pick, ClearPicks, OpenDialog, EditDialog, CancelDialog, SendWrite
  <2>3. ASSUME NEW w \in writes, WriteAccepted(w) PROVE ListInv'
    <3>1. CASE w.kind = "password"
      BY <1>4, <2>3, <3>1, ReloadKept DEF WriteAccepted, ListInv
    <3>2. CASE w.kind # "password"
      <4>1. ReloadsAfter(w.kind, TRUE)
        BY <1>0, <3>2 DEF Write, Kinds, ReloadsAfter
      <4>2. \E q \in reloads' : q.read = Unread
        BY <2>3, <4>1, ReloadKept DEF WriteAccepted
      <4>3. register'.accepted = ledger'[page] /\ ledger'[page] \in Nat
        BY <1>0, <2>3, <3>2 DEF WriteAccepted
      <4> QED BY <1>4, <4>2, <4>3 DEF ListInv
    <3> QED BY <3>1, <3>2
  <2>4. ASSUME NEW w \in writes, WriteRefused(w) PROVE ListInv'
    BY <1>4, <2>4, ReloadKept DEF WriteRefused, ListInv
  <2>5. ASSUME NEW w \in writes, WriteLost(w) PROVE ListInv'
    <3>1. page \in ListPages /\ ledger[page] <= ledger'[page] /\ ledger'[page] \in Nat
      BY <1>0, <2>5 DEF WriteLost
    <3> QED BY <1>0, <1>4, <2>5, <3>1 DEF WriteLost, ListInv
  <2>6. CASE OthersWrite
    <3>1. page \in ListPages /\ ledger[page] <= ledger'[page] /\ ledger'[page] \in Nat
      BY <1>0, <2>6 DEF OthersWrite, OnList
    <3> QED BY <1>0, <1>4, <2>6, <3>1 DEF OthersWrite, ListInv
  <2>7. ASSUME NEW q \in reloads, ReloadRead(q) PROVE ListInv'
    <3>1. page \in ListPages /\ UNCHANGED <<register, ledger>>
      BY <1>0, <2>7 DEF ReloadRead
    <3>2. [q EXCEPT !.read = ledger[page]] \in reloads' /\ \A r \in reloads : r # q => r \in reloads'
      BY <2>7 DEF ReloadRead
    <3>3. [q EXCEPT !.read = ledger[page]].read >= register.accepted
      BY <1>0, <3>1 DEF ListInv, Reload
    <3>4. \E r \in reloads' : r.read >= register'.accepted
      BY <3>1, <3>2, <3>3
    <3>5. page' \in ListPages => register'.accepted <= ledger'[page']
      BY <1>4, <3>1 DEF ListInv
    <3> QED BY <3>4, <3>5 DEF ListInv
  <2>8. ASSUME NEW q \in reloads, ReloadArrives(q) PROVE ListInv'
    <3>0. q.read # Unread /\ q.read \in Nat
      BY <1>0, <2>8 DEF ReloadArrives, Reload
    <3>1. /\ UNCHANGED ledger /\ register'.accepted = register.accepted /\ register'.shown = q.read
          /\ register'.behind \/ (~register.behind /\ q.read >= register.shown)
      <4>1. register'.behind = (register.behind \/ q.read < register.shown)
        BY <1>0, <2>8 DEF ReloadArrives
      <4>2. UNCHANGED ledger /\ register'.accepted = register.accepted /\ register'.shown = q.read
        BY <1>0, <2>8 DEF ReloadArrives
      <4>3. register'.behind \/ ~(register.behind \/ q.read < register.shown)
        BY <4>1, Zenon
      <4>4. ~(q.read < register.shown) => q.read >= register.shown
        BY <1>0, <3>0
      <4> QED BY <4>2, <4>3, <4>4
    <3>2. \A r \in reloads : r # q => r \in reloads'
      BY <2>8 DEF ReloadArrives
    <3> QED BY <1>0, <1>4, <3>0, <3>1, <3>2 DEF ListInv
  <2>9. ASSUME NEW q \in reloads, ReloadFails(q) PROVE ListInv'
    <3>1. register'.behind /\ register'.accepted = register.accepted /\ UNCHANGED ledger
      BY <1>0, <2>9 DEF ReloadFails
    <3> QED BY <1>4, <3>1 DEF ListInv
  <2> QED BY <1>4, <2>1, <2>2, <2>3, <2>4, <2>5, <2>6, <2>7, <2>8, <2>9 DEF FormsNext
<1> QED BY <1>2, <1>3, <1>4, FormsFrame

(* Once nothing is on its way, the list of alerts or of users shows every       *)
(* change that was accepted, however the answers were ordered, unless a load   *)
(* failed or was overtaken by an older answer. *)
THEOREM AcceptedIsListedHolds == Spec => []AcceptedIsListed
<1>1. Init => ListInv
  BY DEF Init, FormsInit, NewRegister, ListInv
<1>2. ListInv => AcceptedIsListed
  BY DEF ListInv, AcceptedIsListed
<1> QED BY <1>1, <1>2, FormsTypedInit, FormsTypedStep, ListStep, PTL DEF Spec
-----------------------------------------------------------------------------
(* The settings.  What the form should hold: what was typed, and otherwise     *)
(* what is stored.                                                             *)

Meant(typed, v) == [f \in Field |-> IF f \in typed THEN "mine" ELSE ShownAs(v)[f]]

(* A loaded form is as meant unless it was overtaken, and so is the body of a   *)
(* save that was sent from one; an answer that has been read but not yet       *)
(* arrived is what is stored.  The form is loaded once: nothing is asked for    *)
(* or on its way to a form that is loaded. *)
SaveInv ==
    LET s == settings IN
    /\ s.loaded => s.load = Idle
    /\ s.saving # Idle /\ s.saving.loaded => s.loaded
    /\ ~s.overtaken =>
          /\ s.load \in {Idle, Unread, stored}
          /\ s.loaded => s.form = Meant(s.typed, stored)
          /\ s.saving # Idle /\ s.saving.loaded =>
                s.saving.typed \subseteq s.typed /\ s.saving.body = Meant(s.saving.typed, stored)

SettingsType == [form : Values, typed : SUBSET Field, loaded : BOOLEAN, overtaken : BOOLEAN,
                 load : Values \cup {Unread, Idle}, saving : SavedForm \cup {Idle}]

(* A save puts nothing else into the settings that are shown. *)
LEMMA MeantAgain ==
    ASSUME NEW v \in Values, NEW t \in SUBSET Field, NEW u \in SUBSET t
    PROVE  Meant(t, Meant(u, v)) = Meant(t, v)
<1>1. \A f \in Field : f \notin t => ShownAs(Meant(u, v))[f] = ShownAs(v)[f]
  BY DEF Meant, ShownAs
<1> QED BY <1>1 DEF Meant

LEMMA MeantTyped ==
    ASSUME NEW v \in Values, NEW t \in SUBSET Field, NEW f \in Field
    PROVE  [Meant(t, v) EXCEPT ![f] = "mine"] = Meant(t \cup {f}, v)
BY DEF Meant

LEMMA NothingTyped ==
    ASSUME NEW v \in Values
    PROVE  ShownAs(v) = Meant({}, v)
BY DEF Meant, ShownAs

(* The save that is answered, or lost after the server has done it. *)
LEMMA SavedStep ==
    ASSUME settings \in SettingsType, stored \in Values, SaveInv, settings.saving # Idle,
           stored' \in {stored, settings.saving.body},
           settings' = [settings EXCEPT !.saving = Idle, !.overtaken = @ \/ ~settings.saving.loaded]
    PROVE  SaveInv'
<1>1. /\ settings'.saving = Idle /\ settings'.loaded = settings.loaded
      /\ settings'.load = settings.load /\ settings'.typed = settings.typed
      /\ settings'.form = settings.form
  BY DEF SettingsType
<1>2. settings'.overtaken = (settings.overtaken \/ ~settings.saving.loaded)
  BY DEF SettingsType
<1>3. ~settings'.overtaken => ~settings.overtaken /\ settings.saving.loaded
  BY <1>2, Zenon
<1>4. settings.loaded => settings.load = Idle
  BY DEF SaveInv
<1>5. ASSUME ~settings'.overtaken
      PROVE  settings'.load = Idle /\ settings'.form = Meant(settings'.typed, stored')
  <2>1. /\ settings.loaded /\ settings.load = Idle
        /\ settings.form = Meant(settings.typed, stored)
        /\ settings.saving.typed \subseteq settings.typed
        /\ settings.saving.body = Meant(settings.saving.typed, stored)
    BY <1>3, <1>5 DEF SaveInv
  <2>2. Meant(settings.typed, Meant(settings.saving.typed, stored)) = Meant(settings.typed, stored)
    BY <2>1, MeantAgain DEF SettingsType
  <2> QED BY <1>1, <2>1, <2>2
<1> QED BY <1>1, <1>4, <1>5 DEF SaveInv

LEMMA SaveStep == FormsTyped /\ SaveInv /\ [Next]_vars => SaveInv'
<1> SUFFICES ASSUME FormsTyped, SaveInv, [Next]_vars PROVE SaveInv'
  OBVIOUS
<1>0. settings \in SettingsType /\ stored \in Values
  BY DEF FormsTyped, FormsTypeOK, SettingsType
<1>1. ASSUME UNCHANGED <<settings, stored>> PROVE SaveInv'
  BY <1>1 DEF SaveInv
<1>2. CASE FormsMount \/ FormsUnmount
  BY <1>2 DEF FormsMount, FormsUnmount, SettingsForm, SaveInv
<1>3. CASE UNCHANGED formsVars
  BY <1>1, <1>3 DEF formsVars
<1>4. CASE FormsNext
  <2>1. CASE SettingsRead
    <3>1. settings' = [settings EXCEPT !.load = stored, !.overtaken = FALSE] /\ UNCHANGED stored
      BY <2>1 DEF SettingsRead
    <3>2. ~settings.loaded /\ (settings.saving # Idle => ~settings.saving.loaded)
      BY <2>1, IdleAssumption DEF SettingsRead, SaveInv
    <3> QED BY <1>0, <3>1, <3>2 DEF SaveInv, SettingsType
  <2>2. CASE SettingsArrive
    <3>1. /\ settings'.form = ShownAs(settings.load) /\ settings'.typed = {}
          /\ settings'.load = Idle /\ settings'.saving = settings.saving
          /\ settings'.overtaken = settings.overtaken /\ settings'.loaded
          /\ UNCHANGED stored
      BY <1>0, <2>2 DEF SettingsArrive, SettingsType
    <3>2. settings.saving # Idle => ~settings.saving.loaded
      BY <2>2 DEF SettingsArrive, SaveInv
    <3>3. ~settings.overtaken => settings.load = stored
      BY <2>2 DEF SettingsArrive, SaveInv
    <3> QED BY <1>0, <3>1, <3>2, <3>3, NothingTyped DEF SaveInv
  <2>3. CASE SettingsLoadFails
    BY <1>0, <2>3 DEF SettingsLoadFails, SaveInv, SettingsType
  <2>4. CASE Save
    <3>1. /\ settings'.form = settings.form /\ settings'.typed = settings.typed
          /\ settings'.load = settings.load /\ settings'.loaded = settings.loaded
          /\ settings'.overtaken = settings.overtaken /\ UNCHANGED stored
      BY <1>0, <2>4 DEF Save, SettingsType
    <3>2. settings'.saving = [body |-> settings.form, typed |-> settings.typed, loaded |-> settings.loaded]
      BY <1>0, <2>4 DEF Save, SettingsType
    <3>3. settings'.saving.body = settings.form /\ settings'.saving.typed = settings.typed
      BY <3>2
    <3>4. settings'.saving.loaded = settings.loaded
      BY <3>2
    <3> QED BY <3>1, <3>3, <3>4 DEF SaveInv
  <2>5. CASE SaveHandled \/ SaveFails
    BY <1>0, <2>5, SavedStep DEF SaveHandled, SaveFails
  <2>6. ASSUME NEW f \in Field, Type(f) PROVE SaveInv'
    <3>1. /\ settings'.form = [settings.form EXCEPT ![f] = "mine"]
          /\ settings'.typed = settings.typed \cup {f}
          /\ settings'.load = settings.load /\ settings'.loaded = settings.loaded
          /\ settings'.overtaken = settings.overtaken /\ settings'.saving = settings.saving
          /\ UNCHANGED stored
      BY <1>0, <2>6 DEF Type, SettingsType
    <3>2. settings.typed \in SUBSET Field
      BY <1>0 DEF SettingsType
    <3>3. [Meant(settings.typed, stored) EXCEPT ![f] = "mine"] = Meant(settings.typed \cup {f}, stored)
      BY <1>0, <3>2, MeantTyped
    <3> QED BY <3>1, <3>3 DEF SaveInv
  <2>7. ASSUME NEW f \in Field, OtherSaves(f) PROVE SaveInv'
    BY <1>0, <2>7 DEF OtherSaves, SaveInv, SettingsType
  <2>8. CASE \/ \E h \in Host \cup {Star} : Pick(h)
             \/ ClearPicks \/ OpenDialog \/ EditDialog \/ CancelDialog \/ OthersWrite
             \/ \E kind \in Kinds("users") : SendWrite(kind)
    BY <1>1, <2>8 DEF Pick, ClearPicks, OpenDialog, EditDialog, CancelDialog, SendWrite, OthersWrite
  <2>9. CASE \/ \E w \in writes : WriteAccepted(w) \/ WriteRefused(w) \/ WriteLost(w)
             \/ \E q \in reloads : ReloadRead(q) \/ ReloadArrives(q) \/ ReloadFails(q)
    BY <1>1, <2>9 DEF WriteAccepted, WriteRefused, WriteLost, ReloadRead, ReloadArrives, ReloadFails
  <2> QED BY <1>4, <2>1, <2>2, <2>3, <2>4, <2>5, <2>6, <2>7, <2>8, <2>9 DEF FormsNext
<1> QED BY <1>2, <1>3, <1>4, FormsFrame

(* The steps in which a save that was sent from a loaded form comes to its end. *)
LEMMA StoresMeant ==
    ASSUME FormsTyped, SaveInv, [Next]_vars, MeantSave, stored' # stored
    PROVE  stored' = Meant(settings.saving.typed, stored)
<1>1. settings.saving.body = Meant(settings.saving.typed, stored)
  BY DEF MeantSave, SaveInv
<1>2. CASE FormsMount \/ FormsUnmount
  BY <1>1, <1>2 DEF FormsMount, FormsUnmount, LeftBehind
<1>3. CASE UNCHANGED formsVars
  BY <1>3 DEF formsVars
<1>4. CASE FormsNext
  <2>1. CASE SaveHandled \/ SaveFails
    BY <1>1, <2>1 DEF SaveHandled, SaveFails
  <2>2. ASSUME NEW f \in Field, OtherSaves(f) PROVE FALSE
    BY <2>2 DEF OtherSaves, MeantSave, FormsTyped, FormsTypeOK
  <2>3. CASE \/ SettingsRead \/ SettingsArrive \/ SettingsLoadFails \/ Save
             \/ \E f \in Field : Type(f)
    BY <2>3 DEF SettingsRead, SettingsArrive, SettingsLoadFails, Save, Type
  <2>4. CASE \/ \E h \in Host \cup {Star} : Pick(h)
             \/ ClearPicks \/ OpenDialog \/ EditDialog \/ CancelDialog \/ OthersWrite
             \/ \E kind \in Kinds("users") : SendWrite(kind)
    BY <2>4 DEF Pick, ClearPicks, OpenDialog, EditDialog, CancelDialog, SendWrite, OthersWrite
  <2>5. CASE \/ \E w \in writes : WriteAccepted(w) \/ WriteRefused(w) \/ WriteLost(w)
             \/ \E q \in reloads : ReloadRead(q) \/ ReloadArrives(q) \/ ReloadFails(q)
    BY <2>5 DEF WriteAccepted, WriteRefused, WriteLost, ReloadRead, ReloadArrives, ReloadFails
  <2> QED BY <1>4, <2>1, <2>2, <2>3, <2>4, <2>5 DEF FormsNext
<1> QED BY <1>2, <1>3, <1>4, FormsFrame

(* The settings page never stores more than what was typed into it: a save     *)
(* from a loaded form leaves every other setting as it is stored, unless the   *)
(* form was overtaken by another save. *)
THEOREM SavesWhatIsMeantHolds == Spec => SavesWhatIsMeant
<1>1. Init => SaveInv
  BY DEF Init, FormsInit, SettingsForm, SaveInv
<1>2. FormsTyped /\ SaveInv /\ [Next]_vars =>
        [MeantSave /\ stored' # stored =>
            stored' = [f \in Field |-> IF f \in settings.saving.typed THEN "mine" ELSE ShownAs(stored)[f]]]_vars
  BY StoresMeant DEF Meant
<1> QED BY <1>1, <1>2, FormsTypedInit, FormsTypedStep, SaveStep, PTL DEF Spec, SavesWhatIsMeant
=============================================================================
