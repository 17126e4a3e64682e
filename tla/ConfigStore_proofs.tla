------------------------ MODULE ConfigStore_proofs ------------------------
(***************************************************************************)
(* The safety of ConfigStore and Retention, for every instance of them:    *)
(* registrations, types, what the file holds, the agents, the tables.      *)
(*                                                                         *)
(* Once the server has finished Load, no handler changes the system key or *)
(* the reference to the map of secrets: every copy has the same ones, so   *)
(* putting an old copy back cannot take the map away.  Load itself leaves  *)
(* a key only together with a map.                                         *)
(*                                                                         *)
(* Slices stay within their arrays, arrays of different lists stay apart,  *)
(* and the file holds what is in memory unless a change is not written     *)
(* yet; reading it back gives the same agents.                             *)
(*                                                                         *)
(* With one client at a time the configuration in force is a value, and    *)
(* every handler is one request of AtomicConfig on it: what a handler does *)
(* to slices, arrays and maps is followed through that value, and between  *)
(* its change and its Save the copy it holds is what is in force, or one   *)
(* request further.                                                        *)
(*                                                                         *)
(* For the tables, what the running call has still to do is known as long  *)
(* as nothing disturbed it: all tables before its next one have its        *)
(* retention.  The settings in force are then in a call that has still to  *)
(* begin, or in the running one, or in all tables, except while they are   *)
(* being saved.                                                            *)
(***************************************************************************)
EXTENDS Retention, FiniteSetTheorems, WellFoundedInduction, TLAPS

HasFields(c) == {"key", "secrets", "lists", "settings"} \subseteq DOMAIN c
Holds(c)     == req[c].pc \in {"got", "changed"}

Fields1 ==
    /\ DOMAIN req = Client /\ req = [c \in Client |-> req[c]]
    /\ HasFields(mem)
    /\ file \notin {NoFile, TornFile} => HasFields(file)
    /\ writing # NoWrite => HasFields(writing.data)

KeyNeedsMap == mem.key => mem.secrets # Null

DownIsIdle == boot = "down" => \A c \in Client : req[c].pc = "idle"

CopiesAgree ==
    \A c \in Client : Holds(c) => /\ HasFields(req[c].cfg)
                                  /\ req[c].cfg.key = mem.key
                                  /\ req[c].cfg.secrets = mem.secrets

RegistersWithKey ==
    \A c \in Client : req[c].pc \in {"keyed", "checked"} \/ Working(c, "RegisterAgent") => mem.key

IInv == Fields1 /\ KeyNeedsMap /\ DownIsIdle /\ CopiesAgree /\ RegistersWithKey

\* What a handler between Get and Save does to everything but the lists.
Frame(c) ==
    /\ req[c].pc = "got"
    /\ \/ req' = [req EXCEPT ![c] = Idle] /\ UNCHANGED heap
       \/ \E cfg, op : /\ req' = [req EXCEPT ![c] = [pc |-> "changed", op |-> op, cfg |-> cfg]]
                       /\ HasFields(req[c].cfg) => /\ HasFields(cfg)
                                                   /\ cfg.key = req[c].cfg.key
                                                   /\ cfg.secrets = req[c].cfg.secrets
    /\ Rest

\* What json.Unmarshal gives for a configuration with these fields.
LEMMA UnmarshalledKeeps ==
  ASSUME NEW d, HasFields(d)
  PROVE  LET u == Unmarshalled(d).config
         IN  HasFields(u) /\ u.key = d.key /\ (u.secrets = Null <=> d.secrets = Null)
<1> DEFINE s == IF d.secrets = Null THEN Null ELSE 1
           l == [k \in Lists |-> [arr |-> CHOOSE n \in 1..Len(ListOrder) : ListOrder[n] = k,
                                  len |-> Len(d.lists[k])]]
<1>1. Unmarshalled(d).config = [d EXCEPT !.secrets = s, !.lists = l]
  BY DEF Unmarshalled
<1>2. s = Null <=> d.secrets = Null
  BY NullAssumption
<1> HIDE DEF s, l
<1> QED
  BY <1>1, <1>2 DEF HasFields

\* What json.Marshal makes of a configuration has these fields too.
LEMMA ContentKeeps ==
  ASSUME NEW c, HasFields(c)
  PROVE  HasFields(Content(c))
  BY DEF Content, HasFields

LEMMA OffKeeps == HasFields(Off.config) /\ Off.config.key = FALSE
  BY UnmarshalledKeeps DEF Off, NewConfig, HasFields

LEMMA InitOK == Init => IInv
<1>1. \A f \in InitialFiles \ {NoFile, TornFile} : HasFields(f)
  BY FilesAssumption DEF IsConfig, HasFields
<1> QED
  BY <1>1, OffKeeps DEF Init, IInv, Fields1, KeyNeedsMap, DownIsIdle, CopiesAgree,
     RegistersWithKey, HasFields, Holds, Working, Idle

LEMMA FrameOK ==
  ASSUME IInv, NEW c \in Client, Frame(c)
  PROVE  IInv'
<1>1. CASE req' = [req EXCEPT ![c] = Idle]
  BY <1>1 DEF Frame, Rest, disk, IInv, Fields1, KeyNeedsMap, DownIsIdle, CopiesAgree, RegistersWithKey,
     HasFields, Holds, Working, Idle
<1>2. CASE \E cfg, op : /\ req' = [req EXCEPT ![c] = [pc |-> "changed", op |-> op, cfg |-> cfg]]
                        /\ HasFields(req[c].cfg) => /\ HasFields(cfg)
                                                    /\ cfg.key = req[c].cfg.key
                                                    /\ cfg.secrets = req[c].cfg.secrets
  <2>1. PICK cfg, op : /\ req' = [req EXCEPT ![c] = [pc |-> "changed", op |-> op, cfg |-> cfg]]
                       /\ HasFields(req[c].cfg) => /\ HasFields(cfg)
                                                   /\ cfg.key = req[c].cfg.key
                                                   /\ cfg.secrets = req[c].cfg.secrets
    BY <1>2
  <2>2. /\ HasFields(cfg) /\ cfg.key = mem.key /\ cfg.secrets = mem.secrets
    BY <2>1 DEF Frame, IInv, CopiesAgree, Holds
  <2>3. boot # "down" /\ UNCHANGED <<boot, mem, file, writing>>
    BY DEF Frame, Rest, disk, IInv, DownIsIdle
  <2>4. Fields1'
    BY <2>1, <2>3 DEF IInv, Fields1, HasFields
  <2>5. KeyNeedsMap' /\ DownIsIdle'
    BY <2>3 DEF IInv, KeyNeedsMap, DownIsIdle
  <2>6. CopiesAgree'
    BY <2>1, <2>2, <2>3 DEF IInv, Fields1, CopiesAgree, HasFields, Holds
  <2>7. RegistersWithKey'
    BY <2>1, <2>3 DEF IInv, Fields1, RegistersWithKey, Working
  <2> QED
    BY <2>4, <2>5, <2>6, <2>7 DEF IInv
<1> QED
  BY <1>1, <1>2 DEF Frame

(* The ways a handler goes on after Get.                                   *)

LEMMA RefuseFrames ==
  ASSUME NEW c \in Client, req[c].pc = "got", Refuse(c)
  PROVE  Frame(c)
  BY DEF Refuse, Frame

LEMMA ChangedFrames ==
  ASSUME NEW c \in Client, req[c].pc = "got", Changed(c, req[c].cfg), Rest
  PROVE  Frame(c)
  BY DEF Changed, Frame

LEMMA SetListFrames ==
  ASSUME NEW c \in Client, req[c].pc = "got", NEW l, NEW new, SetList(c, l, new)
  PROVE  Frame(c)
<1> DEFINE cfg == [req[c].cfg EXCEPT !.lists[l] = new.slice]
<1>1. HasFields(req[c].cfg) => /\ HasFields(cfg) /\ cfg.key = req[c].cfg.key
                               /\ cfg.secrets = req[c].cfg.secrets
  BY DEF HasFields
<1>2. req' = [req EXCEPT ![c] = [pc |-> "changed", op |-> req[c].r.op, cfg |-> cfg]]
  BY DEF SetList, Changed
<1> HIDE DEF cfg
<1> QED
  BY <1>1, <1>2 DEF SetList, Frame

LEMMA SetFieldFrames ==
  ASSUME NEW c \in Client, req[c].pc = "got", NEW l, NEW id, NEW field, NEW value,
         SetField(c, l, id, field, value)
  PROVE  Frame(c)
  BY ChangedFrames DEF SetField

LEMMA SetScalarFrames ==
  ASSUME NEW c \in Client, req[c].pc = "got", NEW field \in {"settings", "mfa"}, NEW value,
         SetScalar(c, field, value)
  PROVE  Frame(c)
<1> DEFINE cfg == [req[c].cfg EXCEPT ![field] = value]
<1>1. HasFields(req[c].cfg) => /\ HasFields(cfg) /\ cfg.key = req[c].cfg.key
                               /\ cfg.secrets = req[c].cfg.secrets
  BY DEF HasFields
<1>2. req' = [req EXCEPT ![c] = [pc |-> "changed", op |-> req[c].r.op, cfg |-> cfg]]
  BY DEF SetScalar, Changed
<1> HIDE DEF cfg
<1> QED
  BY <1>1, <1>2 DEF SetScalar, Frame

LEMMA SetMapFrames ==
  ASSUME NEW c \in Client, req[c].pc = "got", NEW k, NEW keys, SetMap(c, k, keys)
  PROVE  Frame(c)
  BY ChangedFrames DEF SetMap

LEMMA NewRuleFrames ==
  ASSUME NEW c \in Client, req[c].pc = "got", NEW slice, Rest,
         Changed(c, [req[c].cfg EXCEPT !.lists["rules"] = slice])
  PROVE  Frame(c)
<1> DEFINE cfg == [req[c].cfg EXCEPT !.lists["rules"] = slice]
<1>1. HasFields(req[c].cfg) => /\ HasFields(cfg) /\ cfg.key = req[c].cfg.key
                               /\ cfg.secrets = req[c].cfg.secrets
  BY DEF HasFields
<1>2. req' = [req EXCEPT ![c] = [pc |-> "changed", op |-> req[c].r.op, cfg |-> cfg]]
  BY DEF Changed
<1> HIDE DEF cfg
<1> QED
  BY <1>1, <1>2 DEF Frame

LEMMA HandleFrames ==
  ASSUME NEW c \in Client, Handle(c)
  PROVE  Frame(c)
<1>1. CASE HandleCreateUser(c)
  BY <1>1, RefuseFrames, SetListFrames DEF HandleCreateUser, Working, AppendTo
<1>2. CASE HandleDeleteUser(c)
  BY <1>2, RefuseFrames, SetListFrames DEF HandleDeleteUser, Working, KeepOthers
<1>3. CASE HandleUpdateUser(c)
  BY <1>3, RefuseFrames, SetFieldFrames DEF HandleUpdateUser, Working, Modify
<1>4. CASE HandleChangePassword(c)
  BY <1>4, RefuseFrames, SetFieldFrames DEF HandleChangePassword, Working, Modify
<1>5. CASE HandleCreateGroup(c)
  BY <1>5, RefuseFrames, SetListFrames DEF HandleCreateGroup, Working, AppendTo
<1>6. CASE HandleUpdateGroup(c)
  BY <1>6, RefuseFrames, ChangedFrames DEF HandleUpdateGroup, Working
<1>7. CASE HandleDeleteGroup(c)
  BY <1>7, RefuseFrames, SetListFrames DEF HandleDeleteGroup, Working, KeepOthers
<1>8. CASE HandleDeleteHost(c)
  BY <1>8, RefuseFrames, SetListFrames DEF HandleDeleteHost, Working, AppendTo
<1>9. CASE HandleSaveSettings(c)
  BY <1>9, RefuseFrames, SetScalarFrames DEF HandleSaveSettings, Working
<1>10. CASE HandleEnableMFA(c)
  BY <1>10, RefuseFrames, SetScalarFrames DEF HandleEnableMFA, Working
<1>11. CASE HandleDisableMFA(c)
  BY <1>11, RefuseFrames, SetScalarFrames DEF HandleDisableMFA, Working
<1>12. CASE HandleCreateAlertRule(c)
  BY <1>12, NewRuleFrames DEF HandleCreateAlertRule, Working
<1>13. CASE HandleToggleAlertRule(c)
  BY <1>13, RefuseFrames, SetFieldFrames DEF HandleToggleAlertRule, Working, Modify
<1>14. CASE HandleUpdateAlertRule(c)
  BY <1>14, RefuseFrames, SetFieldFrames DEF HandleUpdateAlertRule, Working, Modify
<1>15. CASE HandleDeleteAlertRule(c)
  BY <1>15, RefuseFrames, SetListFrames DEF HandleDeleteAlertRule, Working, KeepOthers
<1>16. CASE HandleCreateChannel(c)
  BY <1>16, RefuseFrames, SetListFrames DEF HandleCreateChannel, Working, AppendTo
<1>17. CASE HandleDeleteChannel(c)
  BY <1>17, RefuseFrames, SetListFrames DEF HandleDeleteChannel, Working, KeepOthers
<1>18. CASE HandleSilenceAlert(c)
  BY <1>18, RefuseFrames, SetMapFrames, ChangedFrames DEF HandleSilenceAlert, MakeMap, Working
<1>19. CASE HandleUnsilenceAlert(c)
  BY <1>19, RefuseFrames, SetMapFrames, ChangedFrames DEF HandleUnsilenceAlert, Working
<1>20. CASE HandleRegisterAgent(c)
  BY <1>20, RefuseFrames, SetMapFrames, ChangedFrames DEF HandleRegisterAgent, Working
<1> QED
  BY <1>1, <1>2, <1>3, <1>4, <1>5, <1>6, <1>7, <1>8, <1>9, <1>10, <1>11,
     <1>12, <1>13, <1>14, <1>15, <1>16, <1>17, <1>18, <1>19, <1>20 DEF Handle

LEMMA NextOK == IInv /\ [Next]_vars => IInv'
<1> SUFFICES ASSUME IInv, [Next]_vars PROVE IInv'
  OBVIOUS
<1> USE DEF IInv, Fields1, KeyNeedsMap, DownIsIdle, CopiesAgree, RegistersWithKey, Holds, Working
<1>1. CASE Load
  <2> DEFINE d == IF file \in {NoFile, TornFile} THEN NewConfig ELSE file
             u == Unmarshalled(d)
  <2>1. HasFields(d) /\ (file \in {NoFile, TornFile} => d.key = FALSE)
    BY <1>1 DEF HasFields, NewConfig
  <2>2. /\ HasFields(u.config) /\ u.config.key = d.key
        /\ (u.config.secrets = Null <=> d.secrets = Null)
    BY <2>1, UnmarshalledKeeps
  <2>3. HasFields(mem') /\ KeyNeedsMap'
    <3> HIDE DEF u
    <3>1. \/ mem' = u.config /\ file = NoFile
          \/ mem' = Off.config
          \/ mem' = [[u.config EXCEPT !.key = TRUE] EXCEPT !.secrets = 1]
      BY <1>1 DEF Load, u, d
    <3>2. CASE mem' = u.config /\ file = NoFile
      BY <3>2, <2>1, <2>2
    <3>3. CASE mem' = [[u.config EXCEPT !.key = TRUE] EXCEPT !.secrets = 1]
      BY <3>3, <2>2, NullAssumption DEF HasFields
    <3>4. CASE mem' = Off.config
      BY <3>4, OffKeeps
    <3> QED
      BY <3>1, <3>2, <3>3, <3>4
  <2>4. writing' # NoWrite => HasFields(writing'.data)
    BY <1>1, <2>1 DEF Load, Marshal, HasFields
  <2>5. boot = "down" /\ UNCHANGED <<file, req>>
    BY <1>1 DEF Load, disk
  <2> HIDE DEF d, u
  <2> QED
    BY <2>3, <2>4, <2>5
<1>2. CASE NewAuthManager
  <2>1. HasFields(mem') /\ mem'.key = mem.key /\ mem'.secrets = mem.secrets
    BY <1>2 DEF NewAuthManager, HasFields
  <2>2. writing' # NoWrite => HasFields(writing'.data)
    BY <1>2, <2>1, ContentKeeps DEF NewAuthManager, Marshal
  <2> QED
    BY <1>2, <2>1, <2>2 DEF NewAuthManager, disk
<1>3. CASE Crash
  BY <1>3, OffKeeps DEF Crash, Idle, disk, HasFields
<1>4. CASE OpenFails
  BY <1>4 DEF OpenFails, Return, Idle, HasFields
<1>5. CASE Truncate
  BY <1>5 DEF Truncate, HasFields
<1>6. CASE WriteData
  BY <1>6 DEF WriteData, HalfWritten, Return, Idle, HasFields
<1>7. CASE WriteFails
  BY <1>7 DEF WriteFails, Return, Idle, HasFields
<1>8. ASSUME NEW c \in Client, NEW r \in Requests, Get(c, r) PROVE IInv'
  BY <1>8 DEF Get, disk, HasFields
<1>9. ASSUME NEW c \in Client, NEW r \in Requests, RegisterKey(c, r) PROVE IInv'
  BY <1>9 DEF RegisterKey, disk, HasFields
<1>10. ASSUME NEW c \in Client, RegisterMFA(c) PROVE IInv'
  BY <1>10 DEF RegisterMFA, Rest, disk, HasFields, Idle
<1>11. ASSUME NEW c \in Client, RegisterGet(c) PROVE IInv'
  BY <1>11 DEF RegisterGet, Rest, disk, HasFields
<1>12. ASSUME NEW c \in Client, Handle(c) PROVE IInv'
  BY <1>12, HandleFrames, FrameOK
<1>13. ASSUME NEW c \in Client, Save(c) PROVE IInv'
  <2>1. HasFields(mem') /\ mem'.key = mem.key /\ mem'.secrets = mem.secrets
    BY <1>13 DEF Save
  <2>2. HasFields(writing'.data)
    BY <1>13, <2>1 DEF Save, Marshal, Content, HasFields
  <2> QED
    BY <1>13, <2>1, <2>2 DEF Save, disk
<1>14. CASE UNCHANGED vars
  BY <1>14 DEF vars
<1> QED
  BY <1>1, <1>2, <1>3, <1>4, <1>5, <1>6, <1>7, <1>8, <1>9, <1>10, <1>11, <1>12, <1>13, <1>14 DEF Next

\* The map of secrets is there whenever a registration writes to it
\* (handler.go 1177), however requests overlap and writes fail.
THEOREM RegistrationSafe == Spec => []RegistrationNeverPanics
<1>1. IInv => RegistrationNeverPanics
  BY DEF IInv, RegistrationNeverPanics, CopiesAgree, RegistersWithKey, KeyNeedsMap, Holds, Working
<1> QED
  BY <1>1, InitOK, NextOK, PTL DEF Spec

-----------------------------------------------------------------------------
(* How long the tables keep rows.                                          *)

Recorded == writing = [by |-> writing.by, data |-> writing.data, stage |-> writing.stage]

\* Whose write is in progress, and that it holds the settings in force.
Writers ==
    /\ crashes \in Nat
    /\ \A c \in Client : req[c].pc # "idle" => boot = "serving"
    /\ writing # NoWrite => Recorded
    /\ writing # NoWrite =>
          \/ writing.by = "load" /\ boot = "load"
          \/ writing.by = "auth" /\ boot = "auth"
          \/ /\ writing.by \in Client /\ boot = "serving"
             /\ req[writing.by].pc = "saving"
             /\ writing.data.settings = mem.settings

\* Settings are in memory whose write is not finished.
Changing ==
    writing # NoWrite /\ writing.by \in Client /\ req[writing.by].op = "SaveSettings"

\* What a step of the server does, as far as the tables are concerned.
Served ==
    /\ boot = "serving" => boot' = "serving"
    /\ crashes' = crashes
    /\ SettingsDone => mem' = mem
    /\ Changing => Changing' \/ SettingsDone
    /\ boot = "serving" => mem'.settings = mem.settings \/ (writing' # NoWrite /\ writing'.by \in Client)

LEMMA WritersInit == Init => Writers
  BY DEF Init, Writers, Idle, NoWrite

LEMMA ReturnServes ==
  ASSUME IInv, Writers, writing # NoWrite, Return
  PROVE  Writers' /\ Served
<1>1. \A c \in Client : req'[c].pc # "idle" => req[c].pc # "idle"
  BY DEF Return, Idle
<1>2. mem' = mem /\ crashes' = crashes /\ writing' = NoWrite
  BY DEF Return
<1>3. boot = "serving" => boot' = "serving"
  BY ClientAssumption DEF Return, Writers
<1>4. Changing => SettingsDone
  BY <1>2 DEF Changing, SettingsDone
<1> QED
  BY <1>1, <1>2, <1>3, <1>4 DEF Writers, Served

\* A step that leaves the writer alone.
LEMMA IdleServes ==
  ASSUME IInv, Writers, UNCHANGED <<boot, mem, writing, crashes>>, boot = "serving",
         NEW c \in Client, req[c].pc # "saving", NEW r, req' = [req EXCEPT ![c] = r]
  PROVE  Writers' /\ Served
<1>1. writing # NoWrite /\ writing.by \in Client => req'[writing.by] = req[writing.by]
  BY ClientAssumption DEF Writers, IInv, Fields1
<1>2. Changing => Changing'
  BY <1>1 DEF Changing
<1>3. Writers'
  BY <1>1 DEF Writers, Recorded
<1> QED
  BY <1>2, <1>3 DEF Served, SettingsDone

LEMMA HandleServes ==
  ASSUME IInv, Writers, NEW c \in Client, Handle(c)
  PROVE  Writers' /\ Served
<1>1. Frame(c)
  BY HandleFrames
<1>2. PICK r : req' = [req EXCEPT ![c] = r]
  BY <1>1 DEF Frame
<1> QED
  BY <1>1, <1>2, IdleServes DEF Frame, Rest, Writers

LEMMA SaveServes ==
  ASSUME IInv, Writers, NEW c \in Client, Save(c)
  PROVE  Writers' /\ Served
<1>1. HasFields(req[c].cfg)
  BY DEF Save, IInv, CopiesAgree, Holds
<1>2. Content(req[c].cfg).settings = req[c].cfg.settings
  BY <1>1 DEF Content, HasFields
<1>3. /\ Recorded' /\ writing' # NoWrite /\ writing'.by = c /\ writing'.data.settings = mem'.settings
  BY <1>2 DEF Save, Marshal, NoWrite, Recorded
<1>4. req'[c].pc = "saving" /\ boot' = boot /\ crashes' = crashes /\ writing = NoWrite
  BY DEF Save, IInv, Fields1, Unlocked
<1>5. boot = "serving"
  BY DEF Save, Writers
<1> QED
  BY <1>3, <1>4, <1>5 DEF Writers, Served, SettingsDone, Changing

\* Everything the server does, but a crash.
LEMMA NextServes ==
  ASSUME IInv, Writers, Next
  PROVE  Writers' /\ (Served \/ Crash)
<1>1. CASE Load
  <2>1. /\ boot = "down" /\ UNCHANGED <<req, crashes>>
        /\ writing' = writing \/ (boot' = "load" /\ writing'.by = "load" /\ Recorded')
    BY <1>1 DEF Load, Marshal, Recorded
  <2>2. writing = NoWrite /\ ~Changing /\ ~SettingsDone
    BY <2>1 DEF Writers, Changing, SettingsDone
  <2> QED
    BY <2>1, <2>2 DEF Writers, Served
<1>2. CASE NewAuthManager
  <2>1. /\ boot = "loaded" /\ UNCHANGED <<req, crashes>>
        /\ writing' = writing \/ (boot' = "auth" /\ writing'.by = "auth" /\ Recorded')
    BY <1>2 DEF NewAuthManager, Marshal, Recorded
  <2>2. writing = NoWrite /\ ~Changing /\ ~SettingsDone
    BY <2>1 DEF Writers, Changing, SettingsDone
  <2> QED
    BY <2>1, <2>2 DEF Writers, Served
<1>3. CASE Crash
  BY <1>3 DEF Crash, Writers, Idle
<1>4. CASE OpenFails
  BY <1>4, ReturnServes DEF OpenFails
<1>5. CASE Truncate
  <2>1. /\ writing # NoWrite /\ Recorded' /\ writing'.by = writing.by /\ writing'.data = writing.data /\ writing' # NoWrite
        /\ UNCHANGED <<boot, mem, req, crashes>>
    BY <1>5 DEF Truncate, NoWrite, Writers, Recorded
  <2> QED
    BY <2>1 DEF Writers, Served, Changing, SettingsDone
<1>6. CASE WriteData
  BY <1>6, ReturnServes DEF WriteData, HalfWritten
<1>7. CASE WriteFails
  BY <1>7, ReturnServes DEF WriteFails, HalfWritten
<1>8. ASSUME NEW c \in Client, NEW r \in Requests, Get(c, r) PROVE Writers' /\ Served
  <2>1. /\ req[c].pc # "saving" /\ boot = "serving"
        /\ UNCHANGED <<boot, mem, writing, crashes>>
    BY <1>8 DEF Get, Idle
  <2>2. req' = [req EXCEPT ![c] = [pc |-> "got", r |-> r, cfg |-> mem]]
    BY <1>8 DEF Get
  <2> QED
    BY <2>1, <2>2, IdleServes
<1>9. ASSUME NEW c \in Client, NEW r \in Requests, RegisterKey(c, r) PROVE Writers' /\ Served
  <2>1. /\ req[c].pc # "saving" /\ boot = "serving"
        /\ UNCHANGED <<boot, mem, writing, crashes>>
    BY <1>9 DEF RegisterKey, Idle
  <2>2. req' = [req EXCEPT ![c] = [pc |-> "keyed", r |-> r]]
    BY <1>9 DEF RegisterKey
  <2> QED
    BY <2>1, <2>2, IdleServes
<1>10. ASSUME NEW c \in Client, RegisterMFA(c) PROVE Writers' /\ Served
  BY <1>10, IdleServes DEF RegisterMFA, Rest, Writers
<1>11. ASSUME NEW c \in Client, RegisterGet(c) PROVE Writers' /\ Served
  BY <1>11, IdleServes DEF RegisterGet, Rest, Writers
<1> QED
  BY <1>1, <1>2, <1>3, <1>4, <1>5, <1>6, <1>7, <1>8, <1>9, <1>10, <1>11,
     HandleServes, SaveServes DEF Next

Calls ==
    /\ ttl = [t \in 1..Tables |-> ttl[t]]
    /\ \A p \in policies : p.next \in 0..Tables /\ p = Call(p.by, p.days, p.next)

OneCall == ~behind => \A p, q \in Running : p = q

Progress == ~behind => \A p \in Running : \A t \in 1..Tables : t < p.next => ttl[t] = p.days

\* The settings in force are still to be applied, or being applied, or applied.
Follows ==
    stage = "configured" /\ ~behind /\ ~Changing /\ Days[mem.settings] > 0
        => \/ \E p \in policies : p.next = 0 /\ p.days = Days[mem.settings]
           \/ /\ \A p \in Running : p.days = Days[mem.settings]
              /\ Running = {} => \A t \in 1..Tables : ttl[t] = Days[mem.settings]

Ready == stage = "configured" => boot = "serving"

RInv == Calls /\ OneCall /\ Progress /\ Follows /\ Ready

LEMMA RetentionStarts == RetentionInit => RInv
  BY DEF RetentionInit, RInv, Calls, OneCall, Progress, Follows, Ready, FreshTables, Running

LEMMA CallIs ==
  ASSUME NEW caller, NEW days, NEW table
  PROVE  LET p == Call(caller, days, table)
         IN  p.by = caller /\ p.days = days /\ p.next = table
  BY DEF Call

\* A call that begins undisturbed is the only one that is running.
LEMMA BeginsKeep ==
  ASSUME RInv, NEW q, q.next = 1, q = Call(q.by, q.days, 1),
         policies' \subseteq policies \cup {q}, q \in policies',
         ~behind' => Running = {}, UNCHANGED ttl
  PROVE  Calls' /\ OneCall' /\ Progress' /\ (~behind' => Running' = {q})
<1>1. 1 \in 0..Tables
  BY TablesAssumption
<1>2. Calls'
  BY <1>1 DEF RInv, Calls
<1>3. q \in Running' /\ Running' \subseteq Running \cup {q}
  BY DEF Running
<1>4. ~behind' => Running' = {q}
  BY <1>3
<1>5. OneCall' /\ Progress'
  BY <1>4 DEF OneCall, Progress
<1> QED
  BY <1>2, <1>4, <1>5

\* A statement that is carried out, or refused where it would change nothing.
LEMMA GoesOnKeeps ==
  ASSUME RInv, NEW p \in Running, GoesOn(p), UNCHANGED <<vars, stage>>,
         ttl' = [t \in 1..Tables |-> ttl'[t]],
         ~behind' => ~behind /\ ttl' = [ttl EXCEPT ![p.next] = p.days]
  PROVE  RInv'
<1> DEFINE q == [p EXCEPT !.next = @ + 1]
<1>1. /\ p \in policies /\ p.next \in 1..Tables /\ p = Call(p.by, p.days, p.next)
      /\ ttl = [t \in 1..Tables |-> ttl[t]]
  BY TablesAssumption DEF RInv, Calls, Running
<1>2. /\ q = Call(q.by, q.days, q.next)
      /\ q.days = p.days /\ q.next = p.next + 1
  BY <1>1 DEF Call
<1>3. policies' = (policies \ {p}) \cup IF p.next < Tables THEN {q} ELSE {}
  BY DEF GoesOn
<1> HIDE DEF q
<1>4. Calls'
  <2>1. p.next < Tables => q.next \in 0..Tables
    BY <1>1, <1>2, TablesAssumption
  <2> QED
    BY <2>1, <1>2, <1>3 DEF RInv, Calls
<1>5. ~behind' => Running' = IF p.next < Tables THEN {q} ELSE {}
  <2>1. q.next > 0
    BY <1>1, <1>2
  <2>2. Running' = (Running \ {p}) \cup IF p.next < Tables THEN {q} ELSE {}
    BY <2>1, <1>3 DEF Running
  <2> QED
    BY <2>2 DEF RInv, OneCall
<1>6. ~behind' => \A t \in 1..Tables : t <= p.next => ttl'[t] = p.days
  <2> SUFFICES ASSUME ~behind', NEW t \in 1..Tables, t <= p.next PROVE ttl'[t] = p.days
    OBVIOUS
  <2>1. CASE t = p.next
    BY <2>1, <1>1
  <2>2. CASE t # p.next
    <3>1. t < p.next
      BY <2>2, <1>1, TablesAssumption
    <3>2. ttl[t] = p.days
      BY <3>1 DEF RInv, Progress
    <3> QED
      BY <2>2, <3>2, <1>1
  <2> QED
    BY <2>1, <2>2
<1>7. OneCall'
  BY <1>5 DEF OneCall
<1>8. Progress'
  <2> SUFFICES ASSUME ~behind', NEW r \in Running', NEW t \in 1..Tables, t < r.next
               PROVE  ttl'[t] = r.days
    BY DEF Progress
  <2>1. r = q
    BY <1>5
  <2>2. t <= p.next
    BY <2>1, <1>1, <1>2, TablesAssumption
  <2> QED
    BY <2>1, <2>2, <1>2, <1>6
<1>9. Follows' /\ Ready'
  <2>1. UNCHANGED <<stage, boot, mem>> /\ Changing' = Changing
    BY DEF vars, Changing
  <2> DEFINE D == Days[mem.settings]
  <2>2. SUFFICES ASSUME stage = "configured", ~behind', ~Changing, D > 0,
                        ~\E r \in policies' : r.next = 0 /\ r.days = D
                 PROVE  /\ \A r \in Running' : r.days = D
                        /\ Running' = {} => \A t \in 1..Tables : ttl'[t] = D
    BY <2>1 DEF Follows, RInv, Ready
  <2>3. p.days = D
    <3>1. ~\E r \in policies : r.next = 0 /\ r.days = D
      BY <2>2, <1>1, <1>3
    <3> QED
      BY <3>1, <2>2 DEF RInv, Follows
  <2>4. ASSUME Running' = {} PROVE \A t \in 1..Tables : ttl'[t] = D
    <3>1. ~(p.next < Tables)
      BY <2>2, <2>4, <1>5
    <3>2. \A t \in 1..Tables : t <= p.next
      BY <3>1, <1>1, TablesAssumption
    <3> QED
      BY <2>2, <2>3, <3>2, <1>6
  <2>5. \A r \in Running' : r.days = D
    BY <2>2, <2>3, <1>2, <1>5
  <2> QED
    BY <2>4, <2>5
<1> QED
  BY <1>4, <1>7, <1>8, <1>9 DEF RInv

LEMMA AlterKeeps ==
  ASSUME RInv, NEW p \in policies, Alter(p) \/ AlterFails(p)
  PROVE  RInv'
<1>1. /\ p \in Running /\ p.next \in 1..Tables /\ ttl = [t \in 1..Tables |-> ttl[t]]
  BY TablesAssumption DEF RInv, Calls, Running, Alter, AlterFails
<1>2. GoesOn(p) /\ UNCHANGED <<vars, stage>>
  BY DEF Alter, AlterFails
<1>3. CASE Alter(p)
  <2>1. ttl' = [ttl EXCEPT ![p.next] = p.days] /\ behind' = behind
    BY <1>3 DEF Alter
  <2>2. ttl' = [t \in 1..Tables |-> ttl'[t]]
    BY <1>1, <2>1
  <2> QED
    BY <1>1, <1>2, <2>1, <2>2, GoesOnKeeps
<1>4. CASE AlterFails(p)
  <2>1. ttl' = ttl /\ (~behind' => ~behind /\ ttl[p.next] = p.days)
    BY <1>4 DEF AlterFails
  <2>2. ~behind' => ttl' = [ttl EXCEPT ![p.next] = p.days]
    BY <1>1, <2>1
  <2>3. ttl' = [t \in 1..Tables |-> ttl'[t]]
    BY <1>1, <2>1
  <2> QED
    BY <1>1, <1>2, <2>1, <2>2, <2>3, GoesOnKeeps
<1> QED
  BY <1>3, <1>4

\* A goroutine begins: in time only with the settings in force and alone.
LEMMA CallBeginsKeeps ==
  ASSUME RInv, NEW p \in policies, CallBegins(p)
  PROVE  RInv'
<1> DEFINE q == [p EXCEPT !.next = 1]
<1>1. p = Call(p.by, p.days, p.next)
  BY DEF RInv, Calls
<1>2. q.next = 1 /\ q.days = p.days /\ q = Call(q.by, q.days, 1)
  BY <1>1 DEF Call
<1>3. policies' = (policies \ {p}) \cup {q} /\ UNCHANGED <<vars, stage, ttl>>
  BY DEF CallBegins
<1>4. ~behind' => Running = {} /\ p.days = Days[mem.settings]
  BY DEF CallBegins, TooLate
<1> HIDE DEF q
<1>5. Calls' /\ OneCall' /\ Progress' /\ (~behind' => Running' = {q})
  BY <1>2, <1>3, <1>4, BeginsKeep
<1>6. Follows' /\ Ready'
  BY <1>2, <1>3, <1>4, <1>5 DEF RInv, Follows, Ready, vars
<1> QED
  BY <1>5, <1>6 DEF RInv

LEMMA BeginKeeps ==
  ASSUME RInv, NEW days, Begin(days), UNCHANGED ttl
  PROVE  /\ Calls' /\ OneCall' /\ Progress'
         /\ ~behind' => Running' # {} /\ \A p \in Running' : p.days = days
<1> DEFINE q == Call(Main, days, 1)
<1>1. q.next = 1 /\ q.days = days /\ q = Call(q.by, q.days, 1)
  BY CallIs
<1>2. policies' = policies \cup {q} /\ (~behind' => Running = {})
  BY DEF Begin
<1> HIDE DEF q
<1>3. Calls' /\ OneCall' /\ Progress' /\ (~behind' => Running' = {q})
  BY <1>1, <1>2, BeginsKeep
<1> QED
  BY <1>1, <1>3

LEMMA ConnectKeeps ==
  ASSUME RInv, Connect
  PROVE  RInv'
<1>1. Calls' /\ OneCall' /\ Progress'
  BY BeginKeeps DEF Connect
<1> QED
  BY <1>1 DEF Connect, RInv, Follows, Ready

LEMMA ApplyConfiguredKeeps ==
  ASSUME RInv, ApplyConfigured
  PROVE  RInv'
<1>1. mem' = mem /\ boot' = boot /\ boot = "serving" /\ UNCHANGED ttl
  BY DEF ApplyConfigured, vars
<1>2. CASE Days[mem.settings] > 0
  <2>1. /\ Calls' /\ OneCall' /\ Progress'
        /\ ~behind' => Running' # {} /\ \A p \in Running' : p.days = Days[mem.settings]
    BY <1>1, <1>2, BeginKeeps DEF ApplyConfigured
  <2> QED
    BY <1>1, <2>1 DEF RInv, Follows, Ready
<1>3. CASE ~(Days[mem.settings] > 0)
  <2>1. UNCHANGED <<policies, behind>>
    BY <1>3 DEF ApplyConfigured
  <2> QED
    BY <1>1, <1>3, <2>1 DEF RInv, Calls, OneCall, Progress, Follows, Ready, Running
<1> QED
  BY <1>2, <1>3

LEMMA StopsKeeps ==
  ASSUME RInv, Stops
  PROVE  RInv'
<1>1. stage' = "stopped" /\ policies' = {} /\ ttl' = [t \in 1..Tables |-> ttl'[t]]
  BY DEF Stops
<1> QED
  BY <1>1 DEF RInv, Calls, OneCall, Progress, Follows, Ready, Running

\* The goroutine of a saved setting has still to begin.
LEMMA SpawnsKeeps ==
  ASSUME RInv, Writers, Served, Spawns
  PROVE  RInv'
<1> DEFINE D == Days[mem.settings]
<1>1. mem' = mem /\ Days[writing.data.settings] = D
  BY ClientAssumption DEF Spawns, SettingsDone, Served, Writers
<1>2. PICK n \in 1..MaxRequests :
         policies' = policies \cup IF D > 0 THEN {Call(n, D, 0)} ELSE {}
  BY <1>1 DEF Spawns
<1> DEFINE q == Call(n, D, 0)
<1>3. q.next = 0 /\ q.days = D /\ q = Call(q.by, q.days, q.next)
  BY CallIs
<1>4. policies' = policies \cup IF D > 0 THEN {q} ELSE {}
  BY <1>2
<1> HIDE DEF q
<1>5. UNCHANGED <<stage, ttl, behind>>
  BY DEF Spawns
<1>6. Running' = Running
  BY <1>3, <1>4 DEF Running
<1>7. Calls'
  BY <1>3, <1>4, <1>5, TablesAssumption DEF RInv, Calls
<1>8. OneCall' /\ Progress'
  BY <1>5, <1>6 DEF RInv, OneCall, Progress
<1>9. Follows'
  BY <1>1, <1>3, <1>4 DEF Follows
<1>10. Ready'
  BY <1>5 DEF Served, RInv, Ready
<1> QED
  BY <1>7, <1>8, <1>9, <1>10 DEF RInv

LEMMA BehindKeeps ==
  ASSUME RInv, Served, behind' = TRUE, UNCHANGED <<stage, ttl, policies>>
  PROVE  RInv'
  BY DEF RInv, Calls, OneCall, Progress, Follows, Ready, Served, Running

LEMMA ElseKeeps ==
  ASSUME RInv, Served, ~SettingsDone, ~SettingsPutBack, UNCHANGED retentionVars
  PROVE  RInv'
<1>1. UNCHANGED <<stage, ttl, policies, behind, Running>>
  BY DEF retentionVars, Running
<1>2. Calls' /\ OneCall' /\ Progress'
  BY <1>1 DEF RInv, Calls, OneCall, Progress
<1>3. Ready'
  BY <1>1 DEF RInv, Ready, Served
<1>4. Follows'
  <2> SUFFICES ASSUME stage = "configured", ~behind, ~Changing'
               PROVE  mem'.settings = mem.settings /\ ~Changing
    BY <1>1 DEF RInv, Follows
  <2>1. ~Changing
    BY DEF Served
  <2>2. boot = "serving"
    BY DEF RInv, Ready
  <2>3. CASE writing' # NoWrite /\ writing'.by \in Client
    <3>1. req'[writing'.by].op # "SaveSettings"
      BY <2>3 DEF Changing
    <3> QED
      BY <2>2, <2>3, <3>1 DEF SettingsPutBack, Served
  <2> QED
    BY <2>1, <2>2, <2>3 DEF Served
<1> QED
  BY <1>2, <1>3, <1>4 DEF RInv

LEMMA ServerStepKeeps ==
  ASSUME IInv, Writers, RInv, ServerStep
  PROVE  RInv'
<1>1. Served \/ Crash
  BY NextServes DEF ServerStep
<1>2. CASE Stops
  BY <1>2, StopsKeeps
<1>3. CASE ~Stops
  <2>1. crashes' = crashes
    BY <1>3 DEF ServerStep, Spawns, NotSaved, PutsBack, SettingsDone, SettingsPutBack
  <2>2. Served
    BY <1>1, <2>1 DEF Crash, Writers
  <2> QED
    BY <1>3, <2>2, SpawnsKeeps, BehindKeeps, ElseKeeps DEF ServerStep, NotSaved, PutsBack
<1> QED
  BY <1>2, <1>3

\* The tables keep rows for as long as the settings in force say
\* (ApplyRetentionPolicy, clickhouse.go 322, and the goroutine of
\* handler.go 1050), for any clients, tables, retentions and failures.
THEOREM TablesFollowSettings == RetentionSpec => []RetentionInForce
<1> DEFINE Inv == IInv /\ Writers /\ RInv
<1>1. RetentionInit => Inv
  BY InitOK, WritersInit, RetentionStarts DEF RetentionInit
<1>2. Inv /\ [RetentionNext]_<<vars, retentionVars>> => Inv'
  <2> SUFFICES ASSUME Inv, [RetentionNext]_<<vars, retentionVars>> PROVE Inv'
    OBVIOUS
  <2>1. CASE ServerStep
    BY <2>1, NextOK, NextServes, ServerStepKeeps DEF ServerStep
  <2>2. ASSUME UNCHANGED vars PROVE IInv' /\ Writers'
    <3>1. IInv'
      BY <2>2, NextOK
    <3>2. Writers'
      BY <2>2 DEF vars, Writers, Recorded
    <3> QED
      BY <3>1, <3>2
  <2>3. CASE Connect
    BY <2>3, <2>2, ConnectKeeps DEF Connect
  <2>4. CASE ApplyConfigured
    BY <2>4, <2>2, ApplyConfiguredKeeps DEF ApplyConfigured
  <2>5. ASSUME NEW p \in policies, CallBegins(p) \/ Alter(p) \/ AlterFails(p) PROVE Inv'
    BY <2>5, <2>2, CallBeginsKeeps, AlterKeeps DEF CallBegins, Alter, AlterFails
  <2>6. CASE UNCHANGED <<vars, retentionVars>>
    <3>1. RInv'
      BY <2>6 DEF vars, retentionVars, RInv, Calls, OneCall, Progress, Follows, Ready,
         Changing, Running
    <3> QED
      BY <3>1, <2>6, <2>2
  <2> QED
    BY <2>1, <2>3, <2>4, <2>5, <2>6 DEF RetentionNext
<1>3. Inv => RetentionInForce
  BY DEF RInv, Follows, RetentionInForce, Quiet, Changing, Running
<1> QED
  BY <1>1, <1>2, <1>3, PTL DEF RetentionSpec

-----------------------------------------------------------------------------
(* The lists: slices over shared arrays.                                   *)

IsSeq(q) == Len(q) \in Nat /\ q = [i \in 1..Len(q) |-> q[i]]

HeapIn(a, m) == IsSeq(a) /\ (\A x \in 1..Len(a) : IsSeq(a[x])) /\ IsSeq(m) /\ Len(m) >= 1

\* The map of a rule's silenced hosts is never the one of the secrets.
EntryIn(l, e, m) == IsEntry(l, e) /\ (l = "rules" => e.silenced \in 2..Len(m))

SliceIn(s, l, a, m) ==
    /\ s = [arr |-> s.arr, len |-> s.len]
    /\ s.arr \in 1..Len(a) /\ s.len \in 0..Len(a[s.arr])
    /\ \A i \in 1..s.len : EntryIn(l, a[s.arr][i], m)

ConfigIn(c, a, m) ==
    /\ {"key", "secrets", "lists", "settings", "mfa", "admin"} \subseteq DOMAIN c
    /\ c.lists = [l \in Lists |-> c.lists[l]] /\ \A l \in Lists : SliceIn(c.lists[l], l, a, m)
    /\ c.secrets \in {Null, 1}
    /\ c.key \in BOOLEAN /\ c.mfa \in BOOLEAN /\ c.admin \in BOOLEAN

\* No array is used for two kinds of entries.
Apart(c, d) == \A l, k \in Lists : c.lists[l].arr = d.lists[k].arr => l = k

Copies == {mem} \cup {req[c].cfg : c \in {x \in Client : Holds(x)}}

Heap ==
    /\ HeapIn(arrays, maps)
    /\ \A c \in Copies : ConfigIn(c, arrays, maps)
    /\ \A c, d \in Copies : Apart(c, d)

Files ==
    /\ file \notin {NoFile, TornFile} => IsConfig(file)
    /\ writing # NoWrite => Recorded /\ IsConfig(writing.data) /\ writing.stage \in {"marshalled", "open"}

Asked == \A c \in Client : req[c].pc \in {"keyed", "checked", "got"} => req[c].r \in Requests

Counts ==
    /\ boot \in {"down", "load", "loaded", "auth", "serving"}
    /\ crashes \in 0..MaxCrashes /\ begun \in 0..MaxRequests

\* A change in memory that no handler has saved yet.
Dirty     == \E c \in Client : req[c].pc = "changed"
InFile(d) == file \notin {NoFile, TornFile} /\ View(file) = View(d)

OnDisk ==
    /\ boot = "down" => writing = NoWrite
    /\ boot \in {"load", "auth"} => writing # NoWrite /\ View(writing.data) = View(Content(mem))
    /\ boot = "loaded" => writing = NoWrite /\ (lastOk => InFile(Content(mem)) \/ ~mem.admin)
    /\ boot = "serving" =>
          /\ writing # NoWrite => Dirty \/ View(writing.data) = View(Content(mem))
          /\ writing = NoWrite /\ lastOk => Dirty \/ InFile(Content(mem))

SInv == IInv /\ Writers /\ Heap /\ Files /\ Asked /\ Counts /\ OnDisk

LEMMA SeqIs ==
  ASSUME NEW n \in Nat, NEW q, q = [i \in 1..n |-> q[i]]
  PROVE  IsSeq(q) /\ Len(q) = n
  BY DEF IsSeq

LEMMA SeqExcept ==
  ASSUME NEW q, IsSeq(q), NEW k, NEW v, NEW p, p = [q EXCEPT ![k] = v]
  PROVE  IsSeq(p) /\ Len(p) = Len(q) /\ \A i \in 1..Len(q) : p[i] = IF i = k THEN v ELSE q[i]
<1>1. p = [i \in 1..Len(q) |-> p[i]] /\ Len(q) \in Nat
  BY DEF IsSeq
<1>2. \A i \in 1..Len(q) : p[i] = IF i = k THEN v ELSE q[i]
  BY DEF IsSeq
<1> QED
  BY <1>1, <1>2, SeqIs

LEMMA SeqAppend ==
  ASSUME NEW q, IsSeq(q), NEW v
  PROVE  /\ IsSeq(Append(q, v)) /\ Len(Append(q, v)) = Len(q) + 1
         /\ \A i \in 1..Len(q) : Append(q, v)[i] = q[i]
         /\ Append(q, v)[Len(q) + 1] = v
<1> DEFINE S == {q[i] : i \in 1..Len(q)} \cup {v}
           p == Append(q, v)
<1>1. q \in Seq(S) /\ v \in S /\ Len(q) \in Nat
  BY DEF IsSeq
<1> HIDE DEF S
<1>2. /\ p \in Seq(S) /\ Len(p) = Len(q) + 1
      /\ (\A i \in 1..Len(q) : p[i] = q[i]) /\ p[Len(q) + 1] = v
  BY <1>1
<1> HIDE DEF p
<1>3. p = [i \in 1..Len(p) |-> p[i]]
  BY <1>2
<1>4. IsSeq(p)
  BY <1>1, <1>2, <1>3 DEF IsSeq
<1> QED
  BY <1>2, <1>4 DEF p

LEMMA GrowIs ==
  ASSUME NEW n \in Nat
  PROVE  Grow(n) \in Nat /\ Grow(n) >= n
<1>1. CASE n <= 16
  <2>1. \E c \in {0, 1, 2, 4, 8, 16} : n <= c /\ (c > 1 => c < 2 * n)
    BY <1>1
  <2> QED
    BY <1>1, <2>1 DEF Grow
<1>2. CASE n > 16
  BY <1>2 DEF Grow
<1> QED
  BY <1>1, <1>2

LEMMA PaddedIs ==
  ASSUME NEW q, IsSeq(q)
  PROVE  /\ IsSeq(Padded(q)) /\ Len(Padded(q)) >= Len(q)
         /\ \A i \in 1..Len(q) : Padded(q)[i] = q[i]
<1> DEFINE n == Grow(Len(q)) - Len(q)
           r == [i \in 1..n |-> Unused]
<1>1. n \in Nat /\ Len(q) \in Nat
  BY GrowIs DEF IsSeq
<1> HIDE DEF n
<1>2. Len(r) = n
  BY <1>1
<1>3. q \o r = [i \in 1..(Len(q) + n) |-> IF i <= Len(q) THEN q[i] ELSE Unused]
  BY <1>1, <1>2 DEF IsSeq
<1>4. Padded(q) = [i \in 1..(Len(q) + n) |-> IF i <= Len(q) THEN q[i] ELSE Unused]
  BY <1>3 DEF Padded, n
<1>5. Padded(q) = [i \in 1..(Len(q) + n) |-> Padded(q)[i]]
  BY <1>4
<1>6. IsSeq(Padded(q)) /\ Len(Padded(q)) = Len(q) + n
  BY <1>1, <1>5, SeqIs
<1>7. \A i \in 1..Len(q) : Padded(q)[i] = q[i]
  BY <1>1, <1>4
<1> QED
  BY <1>1, <1>6, <1>7

\* A set of natural numbers has a least element.
LEMMA LeastElement ==
  ASSUME NEW P, P \subseteq Nat, P # {}
  PROVE  \E i \in P : \A j \in P : i <= j
<1> DEFINE S == {ss \in Nat \X Nat : ss[1] < ss[2]}
<1>1. IsWellFoundedOn(S, Nat)
  BY NatLessThanWellFounded DEF OpToRel
<1> HIDE DEF S
<1>2. PICK x \in P : \A y \in P : ~(<<y, x>> \in S)
  BY <1>1, WFMin
<1>3. ASSUME NEW y \in P PROVE x <= y
  <2>1. ~(<<y, x>> \in S) /\ x \in Nat /\ y \in Nat
    BY <1>2
  <2>2. ~(y < x)
    BY <2>1 DEF S
  <2> QED
    BY <2>1, <2>2
<1> QED
  BY <1>3

\* What holds of 0, and of n + 1 when it holds of n, holds of all numbers.
LEMMA Induction ==
  ASSUME NEW P, P \subseteq Nat, 0 \in P, \A n \in P : n + 1 \in P
  PROVE  P = Nat
<1>1. ASSUME Nat \ P # {} PROVE FALSE
  <2>1. PICK m \in Nat \ P : \A j \in Nat \ P : m <= j
    BY <1>1, LeastElement
  <2>2. m # 0 /\ m \in Nat
    BY <2>1
  <2>3. m - 1 \in Nat /\ ~(m <= m - 1)
    BY <2>2
  <2>4. m - 1 \in P
    BY <2>1, <2>3
  <2>5. m = (m - 1) + 1
    BY <2>2
  <2> QED
    BY <2>1, <2>4, <2>5
<1> QED
  BY <1>1

\* Finite sets of numbers can be put in order.
LEMMA RankIs ==
  ASSUME NEW n \in Nat, NEW K, K \subseteq 1..n
  PROVE  /\ IsFiniteSet(K) /\ Cardinality(K) \in Nat
         /\ Rank(K) \in [1..Cardinality(K) -> K]
         /\ \A i, j \in 1..Cardinality(K) : i < j => Rank(K)[i] < Rank(K)[j]
<1> DEFINE Ordered(J) == \E f \in [1..Cardinality(J) -> J] : \A i, j \in DOMAIN f : i < j => f[i] < f[j]
           P == {m \in Nat : \A J \in SUBSET (1..m) : Ordered(J)}
<1>1. \A m \in Nat : \A J \in SUBSET (1..m) : IsFiniteSet(J) /\ Cardinality(J) \in Nat
  <2> TAKE m \in Nat
  <2> TAKE J \in SUBSET (1..m)
  <2>1. IsFiniteSet(1..m)
    BY FS_Interval
  <2>2. IsFiniteSet(J)
    BY <2>1, FS_Subset
  <2> QED
    BY <2>2, FS_CardinalityType
<1>2. 0 \in P
  <2>1. ASSUME NEW J \in SUBSET (1..0) PROVE Ordered(J)
    <3>1. J = {} /\ Cardinality(J) = 0
      <4>1. J = {}
        OBVIOUS
      <4> QED
        BY <4>1, FS_EmptySet
    <3>2. 1..Cardinality(J) = {}
      BY <3>1
    <3>3. [i \in {} |-> 0] \in [1..Cardinality(J) -> J]
      BY <3>2
    <3> QED
      BY <3>2, <3>3
  <2> QED
    BY <2>1
<1>3. ASSUME NEW m \in P PROVE m + 1 \in P
  <2>1. m \in Nat /\ m + 1 \in Nat
    OBVIOUS
  <2>2. ASSUME NEW J \in SUBSET (1..(m + 1)) PROVE Ordered(J)
    <3>1. CASE m + 1 \notin J
      <4>1. J \in SUBSET (1..m)
        BY <2>1, <3>1
      <4> QED
        BY <4>1
    <3>2. CASE m + 1 \in J
      <4> DEFINE I == J \ {m + 1}
                 k == Cardinality(I)
      <4>1. I \in SUBSET (1..m) /\ \A i \in I : i \in Nat /\ i < m + 1
        BY <2>1
      <4>2. k \in Nat /\ Cardinality(J) = k + 1
        <5>1. IsFiniteSet(J) /\ Cardinality(J) \in Nat /\ k \in Nat
          BY <1>1, <2>1, <4>1
        <5>2. k = Cardinality(J) - 1
          BY <3>2, <5>1, FS_RemoveElement
        <5> QED
          BY <5>1, <5>2
      <4>3. PICK f \in [1..k -> I] : \A i, j \in DOMAIN f : i < j => f[i] < f[j]
        BY <4>1
      <4> DEFINE g == [i \in 1..(k + 1) |-> IF i <= k THEN f[i] ELSE m + 1]
      <4> HIDE DEF k
      <4>4. g \in [1..(k + 1) -> J]
        BY <3>2, <4>2, <4>3
      <4>5. \A i, j \in 1..(k + 1) : i < j => g[i] < g[j]
        <5> SUFFICES ASSUME NEW i \in 1..(k + 1), NEW j \in 1..(k + 1), i < j PROVE g[i] < g[j]
          OBVIOUS
        <5>1. i \in 1..k /\ f[i] \in I /\ g[i] = f[i]
          BY <4>2, <4>3
        <5>2. CASE j = k + 1
          <6>1. g[j] = m + 1
            BY <4>2, <5>2
          <6> HIDE DEF g, I
          <6> QED
            BY <4>1, <5>1, <6>1
        <5>3. CASE j # k + 1
          <6>1. j \in 1..k /\ g[j] = f[j]
            BY <4>2, <5>3
          <6>2. f[i] < f[j]
            BY <4>3, <5>1, <6>1
          <6> QED
            BY <5>1, <6>1, <6>2
        <5> QED
          BY <5>2, <5>3
      <4> HIDE DEF g
      <4>6. DOMAIN g = 1..(k + 1)
        BY <4>4
      <4> QED
        BY <4>2, <4>4, <4>5, <4>6
    <3> QED
      BY <3>1, <3>2
  <2> QED
    BY <2>1, <2>2
<1>4. P = Nat
  <2> HIDE DEF Ordered
  <2>1. P \subseteq Nat
    OBVIOUS
  <2> HIDE DEF P
  <2> QED
    BY <1>2, <1>3, <2>1, Induction
<1>5. Ordered(K)
  BY <1>4
<1>6. Rank(K) \in [1..Cardinality(K) -> K] /\ \A i, j \in DOMAIN Rank(K) : i < j => Rank(K)[i] < Rank(K)[j]
  BY <1>5 DEF Rank
<1>7. DOMAIN Rank(K) = 1..Cardinality(K)
  BY <1>6
<1> QED
  BY <1>1, <1>6, <1>7

LEMMA WithoutIs ==
  ASSUME NEW q, IsSeq(q), NEW id
  PROVE  /\ IsSeq(Without(q, id))
         /\ \A i \in 1..Len(Without(q, id)) : \E j \in 1..Len(q) : Without(q, id)[i] = q[j]
<1> DEFINE K == {i \in DOMAIN q : q[i].id # id}
           n == Cardinality(K)
<1>1. K \subseteq 1..Len(q) /\ Len(q) \in Nat
  BY DEF IsSeq
<1> HIDE DEF K
<1>2. n \in Nat /\ Rank(K) \in [1..n -> K]
  BY <1>1, RankIs
<1>3. Without(q, id) = [i \in 1..n |-> q[Rank(K)[i]]]
  BY DEF Without, K
<1> HIDE DEF n
<1>4. IsSeq(Without(q, id)) /\ Len(Without(q, id)) = n
  <2>1. Without(q, id) = [i \in 1..n |-> Without(q, id)[i]]
    BY <1>3
  <2> QED
    BY <1>2, <2>1, SeqIs
<1> QED
  BY <1>1, <1>2, <1>3, <1>4
LEMMA ElemsIs ==
  ASSUME NEW a, NEW m, HeapIn(a, m), NEW l, NEW s, SliceIn(s, l, a, m)
  PROVE  /\ IsSeq(Elems(a, s)) /\ Len(Elems(a, s)) = s.len
         /\ \A i \in 1..s.len : Elems(a, s)[i] = a[s.arr][i] /\ EntryIn(l, Elems(a, s)[i], m)
<1> DEFINE q == a[s.arr]
<1>1. IsSeq(q) /\ s.len \in 0..Len(q)
  BY DEF HeapIn, SliceIn
<1>2. \A i \in 1..s.len : EntryIn(l, q[i], m)
  BY DEF SliceIn
<1>3. Elems(a, s) = SubSeq(q, 1, s.len)
  BY DEF Elems
<1> HIDE DEF q
<1>4. SubSeq(q, 1, s.len) = [i \in 1..s.len |-> q[i]]
  BY <1>1 DEF IsSeq
<1>5. IsSeq(Elems(a, s)) /\ Len(Elems(a, s)) = s.len
  <2>1. s.len \in Nat /\ Elems(a, s) = [i \in 1..s.len |-> Elems(a, s)[i]]
    BY <1>1, <1>3, <1>4 DEF IsSeq
  <2> QED
    BY <2>1, SeqIs
<1> QED
  BY <1>2, <1>3, <1>4, <1>5 DEF q

Entries(d, a, m) ==
    \A k \in Lists : \A i \in 1..d.lists[k].len : EntryIn(k, a[d.lists[k].arr][i], m)

\* Arrays may be added, and elements exchanged for others of their kind.
LEMMA ConfigKept ==
  ASSUME NEW a, NEW m, NEW b, NEW n, NEW c, ConfigIn(c, a, m), HeapIn(a, m), HeapIn(b, n),
         Len(a) <= Len(b), \A x \in 1..Len(a) : Len(b[x]) = Len(a[x]), Entries(c, b, n)
  PROVE  ConfigIn(c, b, n)
<1>1. ASSUME NEW l \in Lists PROVE SliceIn(c.lists[l], l, b, n)
  <2>1. SliceIn(c.lists[l], l, a, m)
    BY DEF ConfigIn
  <2>2. c.lists[l].arr \in 1..Len(b) /\ Len(b[c.lists[l].arr]) = Len(a[c.lists[l].arr])
    BY <2>1 DEF SliceIn, HeapIn, IsSeq
  <2>3. \A i \in 1..c.lists[l].len : EntryIn(l, b[c.lists[l].arr][i], n)
    BY DEF Entries
  <2> QED
    BY <2>1, <2>2, <2>3 DEF SliceIn
<1> QED
  BY <1>1 DEF ConfigIn

LEMMA CopyKept ==
  ASSUME Heap, NEW d \in Copies
  PROVE  /\ ConfigIn(d, arrays, maps) /\ Entries(d, arrays, maps)
         /\ \A l \in Lists : d.lists[l].arr \in 1..Len(arrays) /\ SliceIn(d.lists[l], l, arrays, maps)
<1>1. ConfigIn(d, arrays, maps)
  BY DEF Heap
<1>2. \A l \in Lists : SliceIn(d.lists[l], l, arrays, maps)
  BY <1>1 DEF ConfigIn
<1> QED
  BY <1>1, <1>2 DEF SliceIn, Entries

\* What a handler leaves behind: other arrays and maps, and perhaps one new copy.
LEMMA HeapStep ==
  ASSUME Heap, HeapIn(arrays', maps'), Len(arrays) <= Len(arrays'),
         \A x \in 1..Len(arrays) : Len(arrays'[x]) = Len(arrays[x]),
         \A d \in Copies : Entries(d, arrays', maps'),
         NEW n, ConfigIn(n, arrays', maps'), Apart(n, n),
         \A d \in Copies : Apart(n, d) /\ Apart(d, n),
         Copies' \subseteq Copies \cup {n}
  PROVE  Heap'
<1>1. \A d \in Copies : ConfigIn(d, arrays', maps')
  <2> TAKE d \in Copies
  <2>1. ConfigIn(d, arrays, maps) /\ HeapIn(arrays, maps)
    BY DEF Heap
  <2> QED
    BY <2>1, ConfigKept
<1>2. (\A d \in Copies : ConfigIn(d, arrays, maps))'
  BY <1>1
<1>3. (\A d, e \in Copies : Apart(d, e))'
  BY DEF Heap, Apart
<1> QED
  BY <1>2, <1>3 DEF Heap
\* What stays the same of the heap when arrays become b and maps become n.
HeapKept(b, n) ==
    /\ HeapIn(b, n) /\ Len(arrays) <= Len(b)
    /\ \A x \in 1..Len(arrays) : Len(b[x]) = Len(arrays[x])
    /\ \A d \in Copies : Entries(d, b, n)

MoreMaps(n) == IsSeq(n) /\ Len(maps) <= Len(n)

LEMMA EntryKept ==
  ASSUME Heap, NEW n, MoreMaps(n), NEW l, NEW e, EntryIn(l, e, maps)
  PROVE  EntryIn(l, e, n)
  BY DEF MoreMaps, EntryIn, Heap, HeapIn, IsSeq

\* An element written into an array that is used for its kind.
LEMMA WriteKeeps ==
  ASSUME Heap, NEW cfg \in Copies, NEW l \in Lists, NEW j, NEW e, NEW n, MoreMaps(n), EntryIn(l, e, n)
  PROVE  HeapKept([arrays EXCEPT ![cfg.lists[l].arr][j] = e], n)
<1> DEFINE x == cfg.lists[l].arr
           v == [arrays[x] EXCEPT ![j] = e]
           b == [arrays EXCEPT ![x] = v]
<1>1. HeapIn(arrays, maps) /\ x \in 1..Len(arrays)
  BY CopyKept DEF Heap
<1>2. IsSeq(v) /\ Len(v) = Len(arrays[x]) /\ \A i \in 1..Len(v) : v[i] = IF i = j THEN e ELSE arrays[x][i]
  <2>1. IsSeq(arrays[x])
    BY <1>1 DEF HeapIn
  <2>2. v = [arrays[x] EXCEPT ![j] = e]
    OBVIOUS
  <2> HIDE DEF x, v
  <2> QED
    BY <2>1, <2>2, SeqExcept
<1> HIDE DEF v
<1>3. /\ IsSeq(b) /\ Len(b) = Len(arrays)
      /\ \A y \in 1..Len(arrays) : b[y] = IF y = x THEN v ELSE arrays[y]
  <2>1. IsSeq(arrays)
    BY <1>1 DEF HeapIn
  <2> HIDE DEF x
  <2>2. b = [arrays EXCEPT ![x] = v]
    OBVIOUS
  <2> HIDE DEF b
  <2> QED
    <3>1. IsSeq(b) /\ Len(b) = Len(arrays)
      BY ONLY <2>1, <2>2, SeqExcept
    <3>2. \A y \in 1..Len(arrays) : b[y] = IF y = x THEN v ELSE arrays[y]
      BY ONLY <2>1, <2>2, SeqExcept
    <3> QED
      BY <3>1, <3>2
<1> HIDE DEF b
<1>4. \A y \in 1..Len(arrays) : IsSeq(b[y]) /\ Len(b[y]) = Len(arrays[y])
  BY <1>1, <1>2, <1>3 DEF HeapIn
<1>5. HeapIn(b, n)
  BY <1>1, <1>3, <1>4 DEF HeapIn, MoreMaps, IsSeq
<1>6. ASSUME NEW d \in Copies, NEW k \in Lists, NEW i \in 1..d.lists[k].len
      PROVE  EntryIn(k, b[d.lists[k].arr][i], n)
  <2>1. /\ d.lists[k].arr \in 1..Len(arrays) /\ i \in 1..Len(arrays[d.lists[k].arr])
        /\ EntryIn(k, arrays[d.lists[k].arr][i], n)
    <3>1. SliceIn(d.lists[k], k, arrays, maps)
      BY CopyKept
    <3>2. /\ d.lists[k].arr \in 1..Len(arrays) /\ d.lists[k].len \in 0..Len(arrays[d.lists[k].arr])
          /\ EntryIn(k, arrays[d.lists[k].arr][i], maps)
      BY <3>1 DEF SliceIn
    <3>3. Len(arrays[d.lists[k].arr]) \in Nat
      BY <1>1, <3>2 DEF HeapIn, IsSeq
    <3> QED
      BY <3>2, <3>3, EntryKept
  <2>2. d.lists[k].arr = x => k = l
    BY DEF Heap, Apart
  <2> QED
    BY <1>2, <1>3, <2>1, <2>2
<1>7. Len(arrays) \in Nat
  BY <1>1 DEF HeapIn, IsSeq
<1>8. HeapKept(b, n)
  BY <1>3, <1>4, <1>5, <1>6, <1>7 DEF HeapKept, Entries
<1>9. [arrays EXCEPT ![cfg.lists[l].arr][j] = e] = b
  BY DEF b, v
<1> QED
  BY <1>8, <1>9

\* A new array.
LEMMA AddKeeps ==
  ASSUME Heap, NEW v, IsSeq(v), NEW n, MoreMaps(n)
  PROVE  /\ HeapKept(Append(arrays, v), n)
         /\ Len(Append(arrays, v)) = Len(arrays) + 1 /\ Append(arrays, v)[Len(arrays) + 1] = v
<1> DEFINE b == Append(arrays, v)
<1>1. HeapIn(arrays, maps) /\ Len(arrays) \in Nat
  BY DEF Heap, HeapIn, IsSeq
<1>2. /\ IsSeq(b) /\ Len(b) = Len(arrays) + 1
      /\ (\A x \in 1..Len(arrays) : b[x] = arrays[x]) /\ b[Len(arrays) + 1] = v
  BY <1>1, SeqAppend DEF HeapIn
<1> HIDE DEF b
<1>3. HeapIn(b, n)
  <2>1. \A x \in 1..Len(b) : IsSeq(b[x])
    <3> TAKE x \in 1..Len(b)
    <3>1. x \in 1..Len(arrays) \/ x = Len(arrays) + 1
      BY <1>1, <1>2
    <3> QED
      BY <1>1, <1>2, <3>1 DEF HeapIn
  <2> QED
    BY <1>1, <1>2, <2>1 DEF HeapIn, MoreMaps, IsSeq
<1>4. ASSUME NEW d \in Copies, NEW k \in Lists, NEW i \in 1..d.lists[k].len
      PROVE  EntryIn(k, b[d.lists[k].arr][i], n)
  <2>1. d.lists[k].arr \in 1..Len(arrays) /\ EntryIn(k, arrays[d.lists[k].arr][i], maps)
    BY CopyKept DEF Entries
  <2> QED
    BY <1>2, <2>1, EntryKept
<1>5. HeapKept(b, n)
  BY <1>1, <1>2, <1>3, <1>4 DEF HeapKept, Entries
<1> QED
  BY <1>2, <1>5 DEF b

\* The slice a handler gets for list l is all right in the new arrays, and shares
\* its array with no other list.
SliceOf(new, cfg, l, n) ==
    /\ SliceIn(new.slice, l, new.arrays, n)
    /\ new.slice.arr = cfg.lists[l].arr \/ new.slice.arr \notin 1..Len(arrays)

\* Elements moved to an array of their own.
LEMMA MovedKeeps ==
  ASSUME Heap, NEW cfg, NEW l, NEW q, IsSeq(q), NEW n, MoreMaps(n), \A i \in 1..Len(q) : EntryIn(l, q[i], n),
         NEW new, new = [arrays |-> Append(arrays, Padded(q)),
                         slice |-> [arr |-> Len(arrays) + 1, len |-> Len(q)]]
  PROVE  HeapKept(new.arrays, n) /\ SliceOf(new, cfg, l, n)
<1>1. /\ IsSeq(Padded(q)) /\ Len(q) \in Nat /\ Len(Padded(q)) >= Len(q)
      /\ \A i \in 1..Len(q) : Padded(q)[i] = q[i]
  BY PaddedIs DEF IsSeq
<1>2. /\ HeapKept(new.arrays, n) /\ Len(new.arrays) = Len(arrays) + 1
      /\ new.arrays[Len(arrays) + 1] = Padded(q)
  BY <1>1, AddKeeps
<1>3. new.slice.arr = Len(arrays) + 1 /\ new.slice.len = Len(q) /\ new.slice = [arr |-> new.slice.arr, len |-> new.slice.len]
  OBVIOUS
<1>4. Len(arrays) \in Nat /\ Len(Padded(q)) \in Nat
  BY <1>1 DEF Heap, HeapIn, IsSeq
<1>5. SliceIn(new.slice, l, new.arrays, n)
  BY <1>1, <1>2, <1>3, <1>4 DEF SliceIn
<1> QED
  BY <1>2, <1>3, <1>4, <1>5 DEF SliceOf

LEMMA AppendedKeeps ==
  ASSUME Heap, NEW cfg \in Copies, NEW l \in Lists, NEW e, NEW n, MoreMaps(n), EntryIn(l, e, n)
  PROVE  LET new == Appended(cfg.lists[l], e)
         IN  HeapKept(new.arrays, n) /\ SliceOf(new, cfg, l, n)
<1> DEFINE s == cfg.lists[l]
<1>1. SliceIn(s, l, arrays, maps) /\ HeapIn(arrays, maps)
  BY CopyKept DEF Heap
<1>2. CASE s.len < Len(arrays[s.arr])
  <2> DEFINE b == [arrays EXCEPT ![s.arr][s.len + 1] = e]
             t == [s EXCEPT !.len = @ + 1]
  <2>1. Appended(s, e) = [arrays |-> b, slice |-> t]
    BY <1>2 DEF Appended
  <2>2. HeapKept(b, n)
    BY WriteKeeps
  <2>3. t.arr = s.arr /\ t.len = s.len + 1 /\ t = [arr |-> t.arr, len |-> t.len]
    BY <1>1 DEF SliceIn
  <2>4. \A i \in 1..s.len + 1 : EntryIn(l, b[s.arr][i], n)
    <3> TAKE i \in 1..s.len + 1
    <3>1. s.len \in Nat /\ s.arr \in 1..Len(arrays) /\ Len(arrays[s.arr]) \in Nat /\ i \in 1..Len(arrays[s.arr])
      BY <1>1, <1>2 DEF SliceIn, HeapIn, IsSeq
    <3>2. b[s.arr][i] = IF i = s.len + 1 THEN e ELSE arrays[s.arr][i]
      BY <1>1, <3>1 DEF HeapIn, IsSeq
    <3>3. i # s.len + 1 => EntryIn(l, arrays[s.arr][i], n)
      BY <1>1, <3>1, EntryKept DEF SliceIn
    <3> QED
      BY <3>2, <3>3
  <2> HIDE DEF b, t
  <2>5. SliceIn(t, l, b, n)
    <3>1. s.arr \in 1..Len(arrays) /\ s.len \in Nat /\ Len(arrays[s.arr]) \in Nat /\ Len(arrays) \in Nat
      BY <1>1 DEF SliceIn, HeapIn, IsSeq
    <3>2. s.arr \in 1..Len(b) /\ Len(b[s.arr]) = Len(arrays[s.arr])
      BY <2>2, <3>1 DEF HeapKept, HeapIn, IsSeq
    <3>3. s.len + 1 \in 0..Len(arrays[s.arr])
      BY ONLY <1>2, <3>1
    <3> QED
      BY ONLY <2>3, <2>4, <3>2, <3>3 DEF SliceIn
  <2> QED
    BY <2>1, <2>2, <2>3, <2>5 DEF SliceOf
<1>3. CASE ~(s.len < Len(arrays[s.arr]))
  <2> DEFINE q == Append(Elems(arrays, s), e)
  <2>1. /\ IsSeq(Elems(arrays, s)) /\ Len(Elems(arrays, s)) = s.len /\ s.len \in Nat
        /\ \A i \in 1..s.len : EntryIn(l, Elems(arrays, s)[i], n)
    BY <1>1, ElemsIs, EntryKept DEF IsSeq
  <2>2. /\ IsSeq(q) /\ Len(q) = s.len + 1 /\ q[s.len + 1] = e
        /\ \A i \in 1..s.len : q[i] = Elems(arrays, s)[i]
    BY <2>1, SeqAppend
  <2>3. Appended(s, e) = [arrays |-> Append(arrays, Padded(q)),
                          slice |-> [arr |-> Len(arrays) + 1, len |-> Len(q)]]
    BY <1>3, <2>2 DEF Appended
  <2> HIDE DEF q
  <2>4. \A i \in 1..Len(q) : EntryIn(l, q[i], n)
    <3> TAKE i \in 1..Len(q)
    <3>1. i \in 1..s.len \/ i = s.len + 1
      BY <2>1, <2>2
    <3> QED
      BY <2>1, <2>2, <3>1
  <2> QED
    BY <2>2, <2>3, <2>4, MovedKeeps
<1> QED
  BY <1>2, <1>3

LEMMA KeptWithout ==
  ASSUME Heap, NEW cfg \in Copies, NEW l \in Lists, NEW id
  PROVE  LET new == Rebuilt(Without(Elems(arrays, cfg.lists[l]), id))
         IN  HeapKept(new.arrays, maps) /\ SliceOf(new, cfg, l, maps)
<1> DEFINE s == cfg.lists[l]
           q == Elems(arrays, s)
           w == Without(q, id)
<1>1. SliceIn(s, l, arrays, maps) /\ HeapIn(arrays, maps)
  BY CopyKept DEF Heap
<1>2. IsSeq(q) /\ Len(q) = s.len /\ \A i \in 1..s.len : EntryIn(l, q[i], maps)
  BY <1>1, ElemsIs
<1> HIDE DEF q
<1>3. IsSeq(w) /\ \A i \in 1..Len(w) : EntryIn(l, w[i], maps)
  BY <1>2, WithoutIs
<1>4. MoreMaps(maps)
  BY <1>1 DEF MoreMaps, HeapIn, IsSeq
<1> HIDE DEF w
<1>5. HeapKept(Rebuilt(w).arrays, maps) /\ SliceOf(Rebuilt(w), cfg, l, maps)
  BY <1>3, <1>4, MovedKeeps DEF Rebuilt
<1> QED
  BY <1>5 DEF w, q
(* What each kind of change does to the copies of the configuration.       *)

LEMMA CopyOf ==
  ASSUME NEW c \in Client, req[c].pc = "got"
  PROVE  req[c].cfg \in Copies
  BY DEF Copies, Holds

LEMMA CopiesChanged ==
  ASSUME IInv, NEW c \in Client, NEW n, Changed(c, n), UNCHANGED mem
  PROVE  Copies' \subseteq Copies \cup {n}
<1>1. \A d \in Client : req'[d] = IF d = c THEN [pc |-> "changed", op |-> req[c].r.op, cfg |-> n] ELSE req[d]
  BY DEF Changed, IInv, Fields1
<1> QED
  BY <1>1 DEF Copies, Holds

LEMMA HeapSame ==
  ASSUME Heap, UNCHANGED heap, Copies' \subseteq Copies
  PROVE  Heap'
<1>1. /\ HeapIn(arrays', maps')
      /\ \A c \in Copies : ConfigIn(c, arrays', maps')
      /\ \A c, d \in Copies : Apart(c, d)
  BY DEF Heap, heap
<1>2. \A c \in Copies' : ConfigIn(c, arrays', maps')
  BY <1>1
<1>3. \A c, d \in Copies' : Apart(c, d)
  BY <1>1
<1>4. (\A c, d \in Copies : Apart(c, d))'
  BY <1>3 DEF Apart
<1> QED
  BY <1>1, <1>2, <1>4 DEF Heap

LEMMA RefuseHeap ==
  ASSUME IInv, Heap, NEW c \in Client, Refuse(c)
  PROVE  Heap'
<1>1. \A d \in Client : req'[d] = IF d = c THEN Idle ELSE req[d]
  BY DEF Refuse, IInv, Fields1
<1>2. Copies' \subseteq Copies
  BY <1>1 DEF Copies, Holds, Idle, Refuse, Rest
<1> QED
  BY <1>2, HeapSame DEF Refuse

\* A copy of the configuration with the same lists.
LEMMA SameListsHeap ==
  ASSUME IInv, Heap, NEW c \in Client, req[c].pc = "got", NEW n, Changed(c, n), UNCHANGED mem,
         HeapKept(arrays', maps'), n.lists = req[c].cfg.lists,
         ConfigIn(req[c].cfg, arrays', maps') => ConfigIn(n, arrays', maps')
  PROVE  Heap'
<1>1. req[c].cfg \in Copies
  BY CopyOf
<1>2. ConfigIn(req[c].cfg, arrays', maps')
  BY <1>1, ConfigKept DEF HeapKept, Heap
<1>3. \A d \in Copies : Apart(n, d) /\ Apart(d, n)
  BY <1>1 DEF Heap, Apart
<1>4. Apart(n, n)
  BY <1>1 DEF Heap, Apart
<1>5. Copies' \subseteq Copies \cup {n}
  BY CopiesChanged
<1> QED
  BY <1>2, <1>3, <1>4, <1>5, HeapStep DEF HeapKept

LEMMA SetListHeap ==
  ASSUME IInv, Heap, NEW c \in Client, req[c].pc = "got", NEW l \in Lists, NEW new,
         Changed(c, [req[c].cfg EXCEPT !.lists[l] = new.slice]), UNCHANGED mem, arrays' = new.arrays,
         HeapKept(new.arrays, maps'), SliceOf(new, req[c].cfg, l, maps')
  PROVE  Heap'
<1> DEFINE cfg == req[c].cfg
           n == [cfg EXCEPT !.lists[l] = new.slice]
<1>1. cfg \in Copies
  BY CopyOf
<1>2. ConfigIn(cfg, arrays', maps')
  BY <1>1, ConfigKept DEF HeapKept, Heap
<1>3. /\ DOMAIN n = DOMAIN cfg /\ \A f \in DOMAIN n : f # "lists" => n[f] = cfg[f]
      /\ n.lists = [k \in Lists |-> n.lists[k]]
      /\ \A k \in Lists : n.lists[k] = IF k = l THEN new.slice ELSE cfg.lists[k]
  BY <1>2 DEF ConfigIn
<1>4. Copies' \subseteq Copies \cup {n}
  BY CopiesChanged
<1> HIDE DEF n
<1>5. ConfigIn(n, arrays', maps')
  <2>1. \A k \in Lists : SliceIn(n.lists[k], k, arrays', maps')
    BY <1>2, <1>3 DEF ConfigIn, SliceOf
  <2>2. /\ n.key = cfg.key /\ n.mfa = cfg.mfa /\ n.admin = cfg.admin /\ n.secrets = cfg.secrets
    BY <1>2, <1>3 DEF ConfigIn
  <2> QED
    BY <1>2, <1>3, <2>1, <2>2 DEF ConfigIn
<1>6. \A d \in Copies : \A k \in Lists : d.lists[k].arr \in 1..Len(arrays)
  BY CopyKept
<1>7. \A d \in Copies : Apart(cfg, d) /\ Apart(d, cfg)
  BY <1>1 DEF Heap
<1>8. \A d \in Copies : Apart(n, d) /\ Apart(d, n)
  BY <1>3, <1>6, <1>7 DEF Apart, SliceOf
<1>9. Apart(n, n)
  BY <1>1, <1>3, <1>6, <1>7 DEF Apart, SliceOf
<1> QED
  BY <1>4, <1>5, <1>8, <1>9, HeapStep DEF HeapKept

LEMMA AppendToHeap ==
  ASSUME IInv, Heap, NEW c \in Client, req[c].pc = "got", NEW l \in Lists, l # "rules", NEW e, IsEntry(l, e),
         AppendTo(c, l, e)
  PROVE  Heap'
<1> DEFINE new == Appended(req[c].cfg.lists[l], e)
<1>1. HeapIn(arrays, maps)
  BY DEF Heap
<1>2. EntryIn(l, e, maps) /\ MoreMaps(maps) /\ maps' = maps
  BY <1>1 DEF EntryIn, MoreMaps, HeapIn, IsSeq, AppendTo, SetList
<1>3. HeapKept(new.arrays, maps) /\ SliceOf(new, req[c].cfg, l, maps)
  BY <1>2, CopyOf, AppendedKeeps
<1> HIDE DEF new
<1>4. SetList(c, l, new)
  BY DEF AppendTo, new
<1> QED
  BY <1>2, <1>3, <1>4, SetListHeap DEF SetList, Rest

LEMMA KeepOthersHeap ==
  ASSUME IInv, Heap, NEW c \in Client, req[c].pc = "got", NEW l \in Lists, NEW id, KeepOthers(c, l, id)
  PROVE  Heap'
<1> DEFINE new == Rebuilt(Without(Elems(arrays, req[c].cfg.lists[l]), id))
<1>1. HeapKept(new.arrays, maps) /\ SliceOf(new, req[c].cfg, l, maps)
  BY CopyOf, KeptWithout
<1>2. SetList(c, l, new)
  BY DEF KeepOthers, List
<1> HIDE DEF new
<1> QED
  BY <1>1, <1>2, SetListHeap DEF SetList, Rest

LEMMA FirstIs ==
  ASSUME NEW q, IsSeq(q), NEW id, Has(q, id)
  PROVE  First(q, id) \in 1..Len(q) /\ q[First(q, id)].id = id
<1> DEFINE P == {i \in 1..Len(q) : q[i].id = id}
<1>1. P # {} /\ P \subseteq Nat /\ DOMAIN q = 1..Len(q) /\ Len(q) \in Nat
  BY DEF Has, IsSeq
<1>2. PICK i \in P : \A j \in P : i <= j
  BY <1>1, LeastElement
<1>3. \A j \in 1..(i - 1) : q[j].id # id
  BY <1>1, <1>2
<1>4. \E k \in DOMAIN q : q[k].id = id /\ \A j \in 1..(k - 1) : q[j].id # id
  BY <1>1, <1>2, <1>3
<1> QED
  BY <1>1, <1>4 DEF First

\* The element a handler finds in its copy's list.
LEMMA FoundIs ==
  ASSUME Heap, NEW cfg \in Copies, NEW l \in Lists, NEW id, Has(Elems(arrays, cfg.lists[l]), id)
  PROVE  LET s == cfg.lists[l]
             f == First(Elems(arrays, s), id)
         IN  /\ f \in 1..s.len /\ s.arr \in 1..Len(arrays) /\ f \in 1..Len(arrays[s.arr])
             /\ EntryIn(l, arrays[s.arr][f], maps) /\ Elems(arrays, s)[f] = arrays[s.arr][f]
<1> DEFINE s == cfg.lists[l]
           q == Elems(arrays, s)
<1>1. SliceIn(s, l, arrays, maps) /\ HeapIn(arrays, maps)
  BY CopyKept DEF Heap
<1>2. IsSeq(q) /\ Len(q) = s.len /\ \A i \in 1..s.len : q[i] = arrays[s.arr][i] /\ EntryIn(l, q[i], maps)
  BY <1>1, ElemsIs
<1> HIDE DEF q
<1>3. First(q, id) \in 1..s.len
  BY <1>2, FirstIs DEF q
<1>4. s.arr \in 1..Len(arrays) /\ Len(arrays[s.arr]) \in Nat /\ s.len \in 0..Len(arrays[s.arr])
  BY <1>1 DEF SliceIn, HeapIn, IsSeq
<1> QED
  BY <1>2, <1>3, <1>4 DEF q

LEMMA EntryExcept ==
  ASSUME NEW l, NEW o, NEW m, EntryIn(l, o, m), NEW field, field # "silenced", NEW value,
         NEW e, e = [o EXCEPT ![field] = value]
  PROVE  EntryIn(l, e, m)
<1>1. DOMAIN e = Fields[l] /\ \A k \in Fields[l] : e[k] = IF k = field THEN value ELSE o[k]
  BY DEF EntryIn, IsEntry
<1>2. e = [k \in Fields[l] |-> e[k]]
  BY DEF EntryIn, IsEntry
<1>3. l = "rules" => e.silenced = o.silenced
  BY <1>1 DEF Fields
<1> QED
  BY <1>2, <1>3 DEF EntryIn, IsEntry

LEMMA SetFieldHeap ==
  ASSUME IInv, Heap, NEW c \in Client, req[c].pc = "got", NEW l \in Lists, NEW id, Has(List(c, l), id),
         NEW field, field # "silenced", NEW value, SetField(c, l, id, field, value)
  PROVE  Heap'
<1> DEFINE cfg == req[c].cfg
           x == cfg.lists[l].arr
           f == First(List(c, l), id)
           e == [arrays[x][f] EXCEPT ![field] = value]
<1>1. cfg \in Copies
  BY CopyOf
<1>2. x \in 1..Len(arrays) /\ f \in 1..Len(arrays[x]) /\ EntryIn(l, arrays[x][f], maps)
  BY <1>1, FoundIs DEF List
<1>3. EntryIn(l, e, maps)
  BY <1>2, EntryExcept
<1>4. MoreMaps(maps) /\ maps' = maps
  <2>1. HeapIn(arrays, maps) /\ maps' = maps
    BY DEF Heap, SetField
  <2> QED
    BY <2>1 DEF MoreMaps, HeapIn, IsSeq
<1>5. arrays' = [arrays EXCEPT ![x][f] = e]
  BY DEF SetField
<1> HIDE DEF e, f
<1>6. HeapKept(arrays', maps')
  BY <1>1, <1>3, <1>4, <1>5, WriteKeeps
<1>7. Changed(c, cfg) /\ mem' = mem
  BY DEF SetField, Rest
<1> QED
  BY <1>6, <1>7, SameListsHeap

LEMMA ModifyHeap ==
  ASSUME IInv, Heap, NEW c \in Client, req[c].pc = "got", NEW l \in Lists,
         NEW field, field # "silenced", NEW value, Modify(c, l, field, value)
  PROVE  Heap'
  BY RefuseHeap, SetFieldHeap DEF Modify
LEMMA SameArrays ==
  ASSUME Heap, NEW n, MoreMaps(n)
  PROVE  HeapKept(arrays, n)
<1>1. HeapIn(arrays, n) /\ Len(arrays) \in Nat
  BY DEF Heap, HeapIn, MoreMaps, IsSeq
<1>2. ASSUME NEW d \in Copies PROVE Entries(d, arrays, n)
  <2>1. Entries(d, arrays, maps)
    BY CopyKept
  <2> QED
    BY <2>1, EntryKept DEF Entries
<1> QED
  BY <1>1, <1>2 DEF HeapKept

LEMMA MapsThemselves == Heap => MoreMaps(maps)
  BY DEF Heap, HeapIn, MoreMaps, IsSeq

LEMMA SetScalarHeap ==
  ASSUME IInv, Heap, NEW c \in Client, req[c].pc = "got", NEW field \in {"settings", "mfa"}, NEW value,
         field = "mfa" => value \in BOOLEAN, SetScalar(c, field, value)
  PROVE  Heap'
<1> DEFINE cfg == req[c].cfg
           n == [cfg EXCEPT ![field] = value]
<1>1. Changed(c, n) /\ UNCHANGED <<mem, arrays, maps>>
  BY DEF SetScalar, Rest, heap
<1>2. HeapKept(arrays', maps')
  BY <1>1, MapsThemselves, SameArrays
<1>3. DOMAIN n = DOMAIN cfg /\ \A f \in DOMAIN n : n[f] = IF f = field THEN value ELSE cfg[f]
  OBVIOUS
<1> HIDE DEF n
<1>4. ASSUME NEW a, NEW m, ConfigIn(cfg, a, m) PROVE ConfigIn(n, a, m) /\ n.lists = cfg.lists
  <2>1. n.lists = cfg.lists /\ n.key = cfg.key /\ n.admin = cfg.admin /\ n.secrets = cfg.secrets
    BY <1>3, <1>4 DEF ConfigIn
  <2>2. n.mfa \in BOOLEAN
    BY <1>3, <1>4 DEF ConfigIn
  <2> QED
    BY <1>3, <1>4, <2>1, <2>2 DEF ConfigIn
<1>5. n.lists = cfg.lists
  BY <1>4, CopyOf, CopyKept
<1> QED
  BY <1>1, <1>2, <1>4, <1>5, SameListsHeap

\* The maps grow, or one of them changes, under the same lists.
LEMMA MapsHeap ==
  ASSUME IInv, Heap, NEW c \in Client, req[c].pc = "got", Changed(c, req[c].cfg), UNCHANGED <<mem, arrays>>,
         MoreMaps(maps')
  PROVE  Heap'
<1>1. HeapKept(arrays', maps')
  BY SameArrays
<1> QED
  BY <1>1, SameListsHeap

LEMMA SetMapHeap ==
  ASSUME IInv, Heap, NEW c \in Client, req[c].pc = "got", NEW k, NEW keys, SetMap(c, k, keys)
  PROVE  Heap' /\ (k # 1 \/ maps[1] \subseteq keys => maps[1] \subseteq maps'[1])
<1>1. IsSeq(maps) /\ Len(maps) \in Nat /\ 1 \in 1..Len(maps)
  BY DEF Heap, HeapIn, IsSeq
<1>2. maps' = [maps EXCEPT ![k] = keys]
  BY DEF SetMap
<1>3. IsSeq(maps') /\ Len(maps') = Len(maps)
  BY ONLY <1>1, <1>2, SeqExcept
<1>4. maps'[1] = IF 1 = k THEN keys ELSE maps[1]
  BY <1>1, <1>2 DEF IsSeq
<1>5. MoreMaps(maps')
  BY <1>1, <1>3 DEF MoreMaps
<1>6. Heap'
  BY <1>5, MapsHeap DEF SetMap, Rest
<1> QED
  BY <1>4, <1>6

LEMMA CreateAlertRuleHeap ==
  ASSUME IInv, Heap, Asked, NEW c \in Client, HandleCreateAlertRule(c)
  PROVE  Heap' /\ maps[1] \subseteq maps'[1]
<1> DEFINE e == [req[c].r.entry EXCEPT !.silenced = Len(maps) + 1, !.nil = FALSE, !.enabled = TRUE]
           new == Appended(req[c].cfg.lists["rules"], e)
<1>1. req[c].pc = "got" /\ req[c].r.op = "CreateAlertRule" /\ req[c].r \in Requests
  BY DEF HandleCreateAlertRule, Working, Asked
<1>2. IsEntry("rules", req[c].r.entry)
  BY <1>1, RequestsAssumption DEF Adds
<1>3. IsSeq(maps) /\ Len(maps) >= 1 /\ Len(maps) \in Nat
  BY DEF Heap, HeapIn, IsSeq
<1>4. maps' = Append(maps, req[c].r.entry.silenced)
  BY DEF HandleCreateAlertRule
<1>5. IsSeq(maps') /\ Len(maps') = Len(maps) + 1 /\ maps'[1] = maps[1]
  BY <1>3, <1>4, SeqAppend
<1>6. MoreMaps(maps')
  BY <1>3, <1>5 DEF MoreMaps
<1>7. EntryIn("rules", e, maps')
  <2>1. e.silenced = Len(maps) + 1
    BY <1>2 DEF IsEntry, Fields
  <2>2. e = [k \in Fields["rules"] |-> e[k]]
    BY <1>2 DEF IsEntry
  <2> HIDE DEF e
  <2> QED
    BY <1>3, <1>5, <2>1, <2>2 DEF EntryIn, IsEntry
<1> HIDE DEF e
<1>8. HeapKept(new.arrays, maps') /\ SliceOf(new, req[c].cfg, "rules", maps')
  BY <1>1, <1>6, <1>7, CopyOf, AppendedKeeps DEF Lists
<1>9. arrays' = new.arrays /\ Changed(c, [req[c].cfg EXCEPT !.lists["rules"] = new.slice]) /\ mem' = mem
  BY DEF HandleCreateAlertRule, Rest, e
<1> HIDE DEF new
<1>10. Heap'
  BY <1>1, <1>8, <1>9, SetListHeap DEF Lists
<1> QED
  BY <1>5, <1>10

LEMMA UpdateGroupHeap ==
  ASSUME IInv, Heap, NEW c \in Client, HandleUpdateGroup(c)
  PROVE  Heap' /\ maps' = maps
<1> DEFINE cfg == req[c].cfg
           r == req[c].r
           gs == cfg.lists["groups"]
           us == cfg.lists["users"]
           f == First(List(c, "groups"), r.id)
           Member(u) == [u EXCEPT !.groups = IF "members" \notin DOMAIN r THEN @
                                             ELSE IF u.id \in r.members THEN @ \cup {r.id}
                                             ELSE @ \ {r.id}]
           g == [arrays[gs.arr] EXCEPT ![f] = [@ EXCEPT !.hosts = r.val]]
           u2 == [i \in DOMAIN arrays[us.arr] |-> IF i <= us.len THEN Member(arrays[us.arr][i]) ELSE arrays[us.arr][i]]
<1>1. req[c].pc = "got" /\ cfg \in Copies
  BY CopyOf DEF HandleUpdateGroup, Working
<1>2. CASE ~Has(List(c, "groups"), r.id)
  BY <1>2, RefuseHeap DEF HandleUpdateGroup, Refuse, heap
<1>3. CASE Has(List(c, "groups"), r.id)
  <2>1. /\ f \in 1..gs.len /\ gs.arr \in 1..Len(arrays) /\ f \in 1..Len(arrays[gs.arr])
        /\ EntryIn("groups", arrays[gs.arr][f], maps)
    BY <1>1, <1>3, FoundIs DEF Lists, List
  <2>2. us.arr \in 1..Len(arrays) /\ SliceIn(us, "users", arrays, maps) /\ gs.arr # us.arr
    BY <1>1, CopyKept DEF Lists, Heap, Apart
  <2>3. IsSeq(arrays) /\ IsSeq(arrays[gs.arr]) /\ IsSeq(arrays[us.arr])
    BY <2>1, <2>2 DEF Heap, HeapIn
  <2>4. arrays' = [[arrays EXCEPT ![gs.arr] = g] EXCEPT ![us.arr] = u2]
    <3>1. [arrays EXCEPT ![gs.arr] = g][us.arr] = arrays[us.arr]
      BY <2>2, <2>3 DEF IsSeq
    <3> QED
      BY <1>3, <3>1 DEF HandleUpdateGroup
  <2>5. /\ IsSeq(g) /\ Len(g) = Len(arrays[gs.arr])
        /\ \A i \in 1..Len(g) : EntryIn("groups", arrays[gs.arr][i], maps) => EntryIn("groups", g[i], maps)
    <3> DEFINE e == [arrays[gs.arr][f] EXCEPT !.hosts = r.val]
    <3>1. EntryIn("groups", e, maps)
      BY <2>1, EntryExcept
    <3>2. \A i \in 1..Len(arrays[gs.arr]) : g[i] = IF i = f THEN e ELSE arrays[gs.arr][i]
      BY <2>3 DEF IsSeq
    <3>3. Len(arrays[gs.arr]) \in Nat /\ g = [i \in 1..Len(arrays[gs.arr]) |-> g[i]]
      BY <2>3 DEF IsSeq
    <3> HIDE DEF g, e, f
    <3>4. IsSeq(g) /\ Len(g) = Len(arrays[gs.arr])
      BY <3>3, SeqIs
    <3> QED
      BY <3>1, <3>2, <3>4
  <2>6. /\ IsSeq(u2) /\ Len(u2) = Len(arrays[us.arr])
        /\ \A i \in 1..Len(u2) : EntryIn("users", arrays[us.arr][i], maps) => EntryIn("users", u2[i], maps)
    <3>1. \A i \in 1..Len(arrays[us.arr]) : u2[i] = Member(arrays[us.arr][i]) \/ u2[i] = arrays[us.arr][i]
      BY <2>3 DEF IsSeq
    <3>2. Len(arrays[us.arr]) \in Nat /\ u2 = [i \in 1..Len(arrays[us.arr]) |-> u2[i]]
      BY <2>3 DEF IsSeq
    <3> HIDE DEF u2
    <3>3. IsSeq(u2) /\ Len(u2) = Len(arrays[us.arr])
      BY <3>2, SeqIs
    <3>4. ASSUME NEW u, EntryIn("users", u, maps) PROVE EntryIn("users", Member(u), maps)
      <4> DEFINE v == IF "members" \notin DOMAIN r THEN u.groups
                      ELSE IF u.id \in r.members THEN u.groups \cup {r.id} ELSE u.groups \ {r.id}
      <4>1. Member(u) = [u EXCEPT !.groups = v]
        OBVIOUS
      <4> HIDE DEF Member, v
      <4> QED
        BY <3>4, <4>1, EntryExcept
    <3> HIDE DEF Member
    <3> QED
      BY <3>1, <3>3, <3>4
  <2> HIDE DEF g, u2
  <2>7. /\ Len(arrays) \in Nat /\ arrays' = [x \in 1..Len(arrays) |-> arrays'[x]]
        /\ \A x \in 1..Len(arrays) : arrays'[x] = IF x = us.arr THEN u2 ELSE IF x = gs.arr THEN g ELSE arrays[x]
    BY <2>1, <2>2, <2>3, <2>4 DEF IsSeq
  <2>8. IsSeq(arrays') /\ Len(arrays') = Len(arrays)
    BY <2>7, SeqIs
  <2>9. \A x \in 1..Len(arrays) : IsSeq(arrays'[x]) /\ Len(arrays'[x]) = Len(arrays[x])
    BY <2>5, <2>6, <2>7 DEF Heap, HeapIn
  <2>10. ASSUME NEW d \in Copies, NEW k \in Lists, NEW i \in 1..d.lists[k].len
         PROVE  EntryIn(k, arrays'[d.lists[k].arr][i], maps)
    <3> DEFINE x == d.lists[k].arr
    <3>1. SliceIn(d.lists[k], k, arrays, maps) /\ HeapIn(arrays, maps)
      BY CopyKept DEF Heap
    <3>2. x \in 1..Len(arrays) /\ i \in 1..Len(arrays[x]) /\ EntryIn(k, arrays[x][i], maps)
      BY <3>1 DEF SliceIn, HeapIn, IsSeq
    <3>3. (x = gs.arr => k = "groups") /\ (x = us.arr => k = "users")
      BY <1>1 DEF Heap, Apart, Lists
    <3> HIDE DEF x
    <3>4. EntryIn(k, arrays'[x][i], maps)
      BY <2>5, <2>6, <2>7, <3>2, <3>3
    <3> QED
      BY <3>4 DEF x
  <2>11. maps' = maps /\ mem' = mem /\ Changed(c, cfg)
    BY <1>3 DEF HandleUpdateGroup, Rest
  <2>12. HeapKept(arrays', maps')
    BY <2>7, <2>8, <2>9, <2>10, <2>11 DEF HeapKept, Entries, Heap, HeapIn
  <2> QED
    BY <1>1, <2>11, <2>12, SameListsHeap
<1> QED
  BY <1>2, <1>3

\* A map made for a rule that had none.
LEMMA MakeMapHeap ==
  ASSUME IInv, Heap, NEW c \in Client, req[c].pc = "got", Has(List(c, "rules"), req[c].r.id),
         NEW keys, MakeMap(c, keys)
  PROVE  Heap' /\ maps[1] \subseteq maps'[1]
<1> DEFINE cfg == req[c].cfg
           x == cfg.lists["rules"].arr
           f == First(List(c, "rules"), req[c].r.id)
           e == [arrays[x][f] EXCEPT !.silenced = Len(maps) + 1, !.nil = FALSE]
<1>1. cfg \in Copies /\ "rules" \in Lists
  BY CopyOf DEF Lists
<1>2. x \in 1..Len(arrays) /\ f \in 1..Len(arrays[x]) /\ EntryIn("rules", arrays[x][f], maps)
  BY <1>1, FoundIs DEF List
<1>3. IsSeq(maps) /\ Len(maps) >= 1 /\ Len(maps) \in Nat
  BY DEF Heap, HeapIn, IsSeq
<1>4. maps' = Append(maps, keys)
  BY DEF MakeMap
<1>5. IsSeq(maps') /\ Len(maps') = Len(maps) + 1 /\ maps'[1] = maps[1]
  BY <1>3, <1>4, SeqAppend
<1>6. MoreMaps(maps')
  BY <1>3, <1>5 DEF MoreMaps
<1>7. EntryIn("rules", e, maps')
  <2>1. e.silenced = Len(maps) + 1
    BY <1>2 DEF EntryIn, IsEntry, Fields
  <2>2. e = [k \in Fields["rules"] |-> e[k]]
    BY <1>2 DEF EntryIn, IsEntry
  <2> HIDE DEF e
  <2> QED
    BY <1>3, <1>5, <2>1, <2>2 DEF EntryIn, IsEntry
<1>8. arrays' = [arrays EXCEPT ![x][f] = e]
  BY DEF MakeMap
<1> HIDE DEF e, f
<1>9. HeapKept(arrays', maps')
  BY <1>1, <1>2, <1>6, <1>7, <1>8, WriteKeeps
<1>10. Changed(c, cfg) /\ mem' = mem
  BY DEF MakeMap, Rest
<1>11. Heap'
  BY <1>9, <1>10, SameListsHeap
<1> QED
  BY <1>5, <1>11

\* What a handler between Get and Save does to the heap.
LEMMA HandleHeap ==
  ASSUME IInv, Heap, Asked, NEW c \in Client, Handle(c)
  PROVE  Heap' /\ (mem.secrets # Null => maps[1] \subseteq maps'[1])
<1>0. req[c].pc = "got" /\ req[c].r \in Requests /\ req[c].cfg \in Copies
  <2>1. req[c].pc = "got"
    BY HandleFrames DEF Frame
  <2> QED
    BY <2>1, CopyOf DEF Asked
<1>1. ASSUME NEW l \in Lists, l # "rules", AppendTo(c, l, req[c].r.entry), IsEntry(l, req[c].r.entry)
      PROVE  Heap' /\ maps' = maps
  BY <1>0, <1>1, AppendToHeap DEF AppendTo, SetList
<1>2. ASSUME NEW l \in Lists, NEW id, KeepOthers(c, l, id)
      PROVE  Heap' /\ maps' = maps
  BY <1>0, <1>2, KeepOthersHeap DEF KeepOthers, SetList
<1>3. ASSUME NEW l \in Lists, NEW field, field # "silenced", NEW value, Modify(c, l, field, value)
      PROVE  Heap' /\ maps' = maps
  BY <1>0, <1>3, ModifyHeap DEF Modify, SetField, Refuse, heap
<1>4. ASSUME NEW field \in {"settings", "mfa"}, NEW value, field = "mfa" => value \in BOOLEAN,
             SetScalar(c, field, value)
      PROVE  Heap' /\ maps' = maps
  BY <1>0, <1>4, SetScalarHeap DEF SetScalar, heap
<1>5. ASSUME Refuse(c) PROVE Heap' /\ maps' = maps
  BY <1>5, RefuseHeap DEF Refuse, heap
<1>6. \A k \in Lists : req[c].r.op \in DOMAIN Adds /\ Adds[req[c].r.op] = k => IsEntry(k, req[c].r.entry)
  BY <1>0, RequestsAssumption
<1>7. ASSUME Has(List(c, "rules"), req[c].r.id) PROVE Rule(c).silenced # 1
  <2>1. EntryIn("rules", Rule(c), maps)
    BY <1>0, <1>7, FoundIs DEF Lists, List, Rule
  <2> QED
    BY <2>1 DEF EntryIn
<1>11. CASE HandleCreateUser(c)
  BY <1>11, <1>1, <1>5, <1>6 DEF HandleCreateUser, Working, Adds, Lists
<1>12. CASE HandleDeleteUser(c)
  BY <1>12, <1>2, <1>5 DEF HandleDeleteUser, Lists
<1>13. CASE HandleUpdateUser(c)
  BY <1>13, <1>3 DEF HandleUpdateUser, Lists
<1>14. CASE HandleChangePassword(c)
  BY <1>14, <1>3 DEF HandleChangePassword, Lists
<1>15. CASE HandleCreateGroup(c)
  BY <1>15, <1>1, <1>6 DEF HandleCreateGroup, Working, Adds, Lists
<1>16. CASE HandleUpdateGroup(c)
  BY <1>16, UpdateGroupHeap
<1>17. CASE HandleDeleteGroup(c)
  BY <1>17, <1>2 DEF HandleDeleteGroup, Lists
<1>18. CASE HandleDeleteHost(c)
  BY <1>18, <1>1, <1>5, <1>6 DEF HandleDeleteHost, Working, Adds, Lists
<1>19. CASE HandleSaveSettings(c)
  BY <1>19, <1>4 DEF HandleSaveSettings
<1>20. CASE HandleEnableMFA(c)
  BY <1>20, <1>4 DEF HandleEnableMFA
<1>21. CASE HandleDisableMFA(c)
  BY <1>21, <1>4 DEF HandleDisableMFA
<1>22. CASE HandleCreateAlertRule(c)
  BY <1>22, CreateAlertRuleHeap
<1>23. CASE HandleToggleAlertRule(c)
  BY <1>23, <1>3 DEF HandleToggleAlertRule, Lists
<1>24. CASE HandleUpdateAlertRule(c)
  BY <1>24, <1>3 DEF HandleUpdateAlertRule, Lists
<1>25. CASE HandleDeleteAlertRule(c)
  BY <1>25, <1>2 DEF HandleDeleteAlertRule, Lists
<1>26. CASE HandleCreateChannel(c)
  BY <1>26, <1>1, <1>6 DEF HandleCreateChannel, Working, Adds, Lists
<1>27. CASE HandleDeleteChannel(c)
  BY <1>27, <1>2 DEF HandleDeleteChannel, Lists
<1>28. CASE HandleSilenceAlert(c)
  BY <1>28, <1>0, <1>5, <1>7, SetMapHeap, MakeMapHeap DEF HandleSilenceAlert
<1>29. CASE HandleUnsilenceAlert(c)
  <2>1. CASE Has(List(c, "rules"), req[c].r.id)
    BY <1>29, <2>1, <1>0, <1>7, SetMapHeap DEF HandleUnsilenceAlert
  <2>2. CASE ~Has(List(c, "rules"), req[c].r.id)
    BY <1>29, <2>2, <1>0, MapsThemselves, MapsHeap DEF HandleUnsilenceAlert, heap, Rest
  <2> QED
    BY <2>1, <2>2
<1>30. CASE HandleRegisterAgent(c)
  <2>1. CASE req[c].cfg.secrets = Null
    BY <1>30, <2>1, <1>5 DEF HandleRegisterAgent
  <2>2. CASE req[c].cfg.secrets # Null
    <3>1. req[c].cfg.secrets = 1
      BY <1>0, <2>2, CopyKept DEF ConfigIn
    <3>2. SetMap(c, 1, maps[1] \cup {req[c].r.host})
      BY <1>30, <2>2, <3>1 DEF HandleRegisterAgent
    <3> QED
      BY <1>0, <3>2, SetMapHeap
  <2> QED
    BY <2>1, <2>2
<1> QED
  BY <1>11, <1>12, <1>13, <1>14, <1>15, <1>16, <1>17, <1>18, <1>19, <1>20, <1>21, <1>22,
     <1>23, <1>24, <1>25, <1>26, <1>27, <1>28, <1>29, <1>30 DEF Handle

LEMMA ConfigScalars ==
  ASSUME NEW c, NEW a, NEW m, ConfigIn(c, a, m), NEW n, n.lists = c.lists, DOMAIN c \subseteq DOMAIN n,
         n.secrets \in {Null, 1}, n.key \in BOOLEAN, n.mfa \in BOOLEAN, n.admin \in BOOLEAN
  PROVE  ConfigIn(n, a, m)
  BY DEF ConfigIn

Place == [l \in Lists |-> CHOOSE k \in 1..Len(ListOrder) : ListOrder[k] = l]

LEMMA PlaceIs ==
  /\ Len(ListOrder) = 5
  /\ \A l \in Lists : Place[l] \in 1..5 /\ ListOrder[Place[l]] = l
  /\ \A l, k \in Lists : Place[l] = Place[k] => l = k
<1>1. Len(ListOrder) = 5
  BY DEF ListOrder
<1>2. \A l \in Lists : \E k \in 1..5 : ListOrder[k] = l
  BY DEF ListOrder, Lists
<1>3. \A l \in Lists : Place[l] \in 1..5 /\ ListOrder[Place[l]] = l
  BY <1>1, <1>2 DEF Place
<1> QED
  BY <1>1, <1>3

\* What json.Unmarshal builds from a configuration that was marshalled.
LEMMA UnmarshalledIs ==
  ASSUME NEW d, IsConfig(d)
  PROVE  LET u == Unmarshalled(d)
         IN  /\ HeapIn(u.arrays, u.maps) /\ ConfigIn(u.config, u.arrays, u.maps) /\ Apart(u.config, u.config)
             /\ \A l \in Lists : /\ u.config.lists[l].len = Len(d.lists[l])
                                 /\ \A i \in 1..Len(d.lists[l]) :
                                       u.arrays[u.config.lists[l].arr][i] =
                                          IF l = "rules" THEN [d.lists[l][i] EXCEPT !.silenced = i + 1]
                                                         ELSE d.lists[l][i]
             /\ u.maps[1] = IF d.secrets = Null THEN {} ELSE d.secrets
             /\ \A i \in 1..Len(d.lists["rules"]) : u.maps[i + 1] = d.lists["rules"][i].silenced
<1> DEFINE rules == d.lists["rules"]
           q == [l \in Lists |-> IF l = "rules" THEN [i \in 1..Len(rules) |-> [rules[i] EXCEPT !.silenced = i + 1]]
                                                ELSE d.lists[l]]
           m == Unmarshalled(d).maps
           a == Unmarshalled(d).arrays
           c == Unmarshalled(d).config
           s == [l \in Lists |-> [arr |-> Place[l], len |-> Len(d.lists[l])]]
           hosts == [i \in 1..Len(rules) |-> rules[i].silenced]
           secrets == IF d.secrets = Null THEN {} ELSE d.secrets
<1>1. \A l \in Lists : Len(d.lists[l]) \in Nat /\ DOMAIN d.lists[l] = 1..Len(d.lists[l])
  BY DEF IsConfig, IsEntries
<1>2. \A l \in Lists : \A i \in 1..Len(d.lists[l]) : IsEntry(l, d.lists[l][i])
  BY DEF IsConfig, IsEntries
<1>3. "rules" \in Lists /\ Len(rules) \in Nat /\ DOMAIN rules = 1..Len(rules)
  BY <1>1 DEF Lists
<1>4. m = <<secrets>> \o hosts
  BY <1>3 DEF Unmarshalled
<1>5. IsSeq(m) /\ Len(m) = Len(rules) + 1 /\ m[1] = secrets /\ \A i \in 1..Len(rules) : m[i + 1] = rules[i].silenced
  <2>1. /\ IsSeq(hosts) /\ Len(hosts) = Len(rules)
    BY <1>3, SeqIs
  <2>2. \A i \in 1..Len(rules) : hosts[i] = rules[i].silenced
    OBVIOUS
  <2> HIDE DEF hosts, secrets, m, rules
  <2>3. m = [i \in 1..(Len(rules) + 1) |-> IF i = 1 THEN secrets ELSE hosts[i - 1]]
    BY <1>3, <1>4, <2>1 DEF IsSeq
  <2>4. IsSeq(m) /\ Len(m) = Len(rules) + 1
    <3>1. m = [i \in 1..(Len(rules) + 1) |-> m[i]] /\ Len(rules) + 1 \in Nat
      BY <1>3, <2>3
    <3> QED
      BY <3>1, SeqIs
  <2>5. m[1] = secrets
    BY <1>3, <2>3
  <2>6. \A i \in 1..Len(rules) : m[i + 1] = rules[i].silenced
    BY <1>3, <2>2, <2>3
  <2> QED
    BY <2>4, <2>5, <2>6
<1>6. a = [k \in 1..5 |-> Padded(q[ListOrder[k]])]
  <2>1. /\ ListOrder[1] = "users" /\ ListOrder[2] = "groups" /\ ListOrder[3] = "rules"
        /\ ListOrder[4] = "channels" /\ ListOrder[5] = "ignored"
    BY DEF ListOrder
  <2>2. \A k \in 1..5 : ListOrder[k] \in Lists
    BY <2>1 DEF Lists
  <2>3. a = [k \in 1..5 |-> Padded(IF ListOrder[k] = "rules"
                                   THEN [i \in DOMAIN d.lists[ListOrder[k]] |->
                                           [d.lists[ListOrder[k]][i] EXCEPT !.silenced = i + 1]]
                                   ELSE d.lists[ListOrder[k]])]
    BY PlaceIs DEF Unmarshalled
  <2>4. ASSUME NEW k \in 1..5
        PROVE  (IF ListOrder[k] = "rules"
                THEN [i \in DOMAIN d.lists[ListOrder[k]] |-> [d.lists[ListOrder[k]][i] EXCEPT !.silenced = i + 1]]
                ELSE d.lists[ListOrder[k]]) = q[ListOrder[k]]
    BY <1>3, <2>2
  <2> HIDE DEF a, q
  <2> QED
    BY <2>3, <2>4
<1>7. \A l \in Lists : /\ IsSeq(q[l]) /\ Len(q[l]) = Len(d.lists[l])
                       /\ \A i \in 1..Len(q[l]) : EntryIn(l, q[l][i], m)
  <2> TAKE l \in Lists
  <2>1. CASE l # "rules"
    <3>1. q[l] = d.lists[l]
      BY <2>1
    <3>2. IsSeq(d.lists[l]) /\ \A i \in 1..Len(d.lists[l]) : IsEntry(l, d.lists[l][i])
      BY DEF IsConfig, IsEntries, IsSeq
    <3> HIDE DEF q, m
    <3> QED
      BY <2>1, <3>1, <3>2 DEF EntryIn
  <2>2. CASE l = "rules"
    <3> DEFINE r == [i \in 1..Len(rules) |-> [rules[i] EXCEPT !.silenced = i + 1]]
    <3>1. q[l] = r
      BY <2>2
    <3>2. IsSeq(r) /\ Len(r) = Len(rules)
      BY <1>3, SeqIs
    <3>3. ASSUME NEW i \in 1..Len(rules) PROVE EntryIn("rules", r[i], m)
      <4>1. r[i] = [rules[i] EXCEPT !.silenced = i + 1]
        OBVIOUS
      <4>2. rules[i] = [k \in Fields["rules"] |-> rules[i][k]] /\ "silenced" \in Fields["rules"]
        BY <1>2, <1>3 DEF IsEntry, Fields
      <4> HIDE DEF r, m, q, rules
      <4>3. r[i] = [k \in Fields["rules"] |-> r[i][k]] /\ r[i].silenced = i + 1
        BY <4>1, <4>2
      <4>4. i + 1 \in 2..Len(m)
        BY <1>3, <1>5
      <4> QED
        BY <4>3, <4>4 DEF EntryIn, IsEntry
    <3> HIDE DEF r, m, q
    <3> QED
      BY <2>2, <3>1, <3>2, <3>3
  <2> QED
    BY <2>1, <2>2
<1>8. c = [d EXCEPT !.secrets = IF d.secrets = Null THEN Null ELSE 1, !.lists = s]
  BY DEF Unmarshalled, Place
<1> HIDE DEF m, a, c
<1>9. /\ DOMAIN c = DOMAIN d /\ c.key = d.key /\ c.mfa = d.mfa /\ c.admin = d.admin
      /\ c.secrets = (IF d.secrets = Null THEN Null ELSE 1) /\ c.lists = s
  <2> HIDE DEF s
  <2> QED
    BY <1>8 DEF IsConfig
<1>10. /\ IsSeq(a) /\ Len(a) = 5
       /\ \A l \in Lists : /\ IsSeq(a[Place[l]]) /\ Len(a[Place[l]]) >= Len(q[l])
                           /\ \A i \in 1..Len(q[l]) : a[Place[l]][i] = q[l][i]
  <2> HIDE DEF q
  <2>1. a = [k \in 1..5 |-> a[k]]
    BY <1>6
  <2>2. IsSeq(a) /\ Len(a) = 5
    BY <2>1, SeqIs
  <2>3. \A l \in Lists : a[Place[l]] = Padded(q[l])
    BY <1>6, PlaceIs
  <2> QED
    BY <1>7, <2>2, <2>3, PaddedIs
<1>11. \A k \in 1..5 : IsSeq(a[k])
  <2>1. \A k \in 1..5 : ListOrder[k] \in Lists
    BY DEF ListOrder, Lists
  <2> HIDE DEF q
  <2> QED
    BY <1>6, <1>7, <2>1, PaddedIs
<1>12. HeapIn(a, m)
  BY <1>3, <1>5, <1>10, <1>11 DEF HeapIn
<1>13. \A l \in Lists : SliceIn(s[l], l, a, m)
  <2> TAKE l \in Lists
  <2>1. /\ s[l].arr = Place[l] /\ s[l].len = Len(d.lists[l])
        /\ s[l] = [arr |-> s[l].arr, len |-> s[l].len]
    OBVIOUS
  <2>2. Place[l] \in 1..Len(a) /\ Len(a[Place[l]]) \in Nat
    BY <1>10, PlaceIs DEF IsSeq
  <2> HIDE DEF s, q
  <2> QED
    BY <1>1, <1>7, <1>10, <2>1, <2>2 DEF SliceIn
<1>14. ConfigIn(c, a, m)
  BY <1>9, <1>13 DEF ConfigIn, IsConfig
<1>15. Apart(c, c)
  BY <1>9, PlaceIs DEF Apart
<1>16. \A l \in Lists : /\ c.lists[l].len = Len(d.lists[l])
                        /\ \A i \in 1..Len(d.lists[l]) :
                              a[c.lists[l].arr][i] = IF l = "rules" THEN [d.lists[l][i] EXCEPT !.silenced = i + 1]
                                                                    ELSE d.lists[l][i]
  <2> TAKE l \in Lists
  <2>1. c.lists[l].len = Len(d.lists[l]) /\ c.lists[l].arr = Place[l]
    BY <1>9
  <2>2. \A i \in 1..Len(d.lists[l]) : a[Place[l]][i] = q[l][i]
    <3> HIDE DEF q
    <3> QED
      BY <1>7, <1>10
  <2>3. \A i \in 1..Len(d.lists[l]) : q[l][i] = IF l = "rules" THEN [d.lists[l][i] EXCEPT !.silenced = i + 1]
                                                               ELSE d.lists[l][i]
    OBVIOUS
  <2> HIDE DEF q
  <2> QED
    BY <2>1, <2>2, <2>3
<1> HIDE DEF secrets, hosts, q, s
<1>17. m[1] = IF d.secrets = Null THEN {} ELSE d.secrets
  BY <1>5 DEF secrets
<1> QED
  BY <1>5, <1>12, <1>14, <1>15, <1>16, <1>17 DEF a, c, m

-----------------------------------------------------------------------------
(* Every copy of the configuration is sound.                               *)

\* A configuration that was just read: there are no other copies.
LEMMA FreshHeap ==
  ASSUME HeapIn(arrays', maps'), ConfigIn(mem', arrays', maps'), Apart(mem', mem'),
         \A c \in Client : req'[c].pc \notin {"got", "changed"}
  PROVE  Heap'
<1>1. Copies' = {mem'}
  BY DEF Copies, Holds
<1>2. \A c \in Copies' : ConfigIn(c, arrays', maps')
  BY <1>1
<1>3. \A c, d \in Copies' : Apart(c, d)
  BY <1>1
<1>4. (\A c, d \in Copies : Apart(c, d))'
  BY <1>3 DEF Apart
<1> QED
  BY <1>2, <1>4 DEF Heap

LEMMA NewConfigIs == IsConfig(NewConfig)
<1> DEFINE none == [l \in Lists |-> <<>>]
<1>1. NewConfig.lists = none
  BY DEF NewConfig
<1>2. \A l \in Lists : IsEntries(l, none[l])
  BY DEF IsEntries
<1> HIDE DEF none
<1>3. NewConfig.lists = [l \in Lists |-> NewConfig.lists[l]]
  BY <1>1 DEF none
<1>4. NewConfig.key = FALSE /\ NewConfig.mfa = FALSE /\ NewConfig.admin = FALSE
  BY DEF NewConfig
<1>5. {"key", "secrets", "lists", "settings", "mfa", "admin"} \subseteq DOMAIN NewConfig
  BY DEF NewConfig
<1> QED
  BY <1>1, <1>2, <1>3, <1>4, <1>5 DEF IsConfig

\* What Load reads, and what it makes of it.
Read == IF file \in {NoFile, TornFile} THEN NewConfig ELSE file

WithKey(d, e, key) ==
    DOMAIN e = DOMAIN d /\ e.key = key /\ \A f \in DOMAIN d : f # "key" => e[f] = d[f]

\* A file that cannot be read or parsed.
Fails == file = TornFile \/ (file # NoFile /\ ReadFails)

\* Load makes of d, which it read or which are the defaults, what is in memory.
LoadsAs(d) ==
    LET u == Unmarshalled(d)
    IN  /\ IsConfig(d) /\ boot = "down" /\ UNCHANGED <<disk, req, crashes, begun>>
        /\ arrays' = u.arrays /\ maps' = u.maps
        /\ mem'.lists = u.config.lists /\ DOMAIN mem' = DOMAIN u.config
        /\ mem'.secrets \in {u.config.secrets, 1}
        /\ mem'.mfa = u.config.mfa /\ mem'.admin = u.config.admin /\ mem'.settings = u.config.settings
        /\ \A f \in DOMAIN mem' : f \notin {"key", "secrets", "lists"} => mem'[f] = u.config[f]
        /\ mem'.key \in BOOLEAN
        /\ \/ /\ d = Read /\ boot' = "load" /\ \E e : Marshal("load", e) /\ WithKey(d, e, mem'.key)
              /\ file # TornFile /\ mem'.key \in {TRUE, d.key}
           \/ d = NewConfig /\ mem' = u.config /\ boot' = "loaded" /\ UNCHANGED writing /\ Fails
           \/ /\ d = Read /\ boot' = "loaded" /\ UNCHANGED writing /\ file \notin {NoFile, TornFile}
              /\ d.key = TRUE /\ mem'.key = TRUE

LEMMA LoadIs ==
  ASSUME Files, Load
  PROVE  \E d : LoadsAs(d)
<1> DEFINE u == Unmarshalled(Read)
           o == Unmarshalled(NewConfig)
           k == [u.config EXCEPT !.key = TRUE]
           Same == arrays' = u.arrays /\ maps' = u.maps
<1>1. IsConfig(Read) /\ IsConfig(NewConfig)
  BY NewConfigIs DEF Files, Read
<1>2. /\ boot = "down" /\ UNCHANGED <<disk, req, crashes, begun>>
      /\ \/ file = NoFile /\ Same /\ mem' = u.config /\ boot' = "load" /\ Marshal("load", Read)
         \/ /\ Fails /\ arrays' = o.arrays /\ maps' = o.maps /\ mem' = o.config
            /\ boot' = "loaded" /\ UNCHANGED writing
         \/ /\ file \notin {NoFile, TornFile} /\ Same /\ mem' = [k EXCEPT !.secrets = 1]
            /\ IF Read.key THEN boot' = "loaded" /\ UNCHANGED writing
                           ELSE boot' = "load" /\ Marshal("load", [Read EXCEPT !.key = TRUE])
  BY DEF Load, Read, Off, Fails
<1>3. /\ {"key", "secrets", "lists", "settings", "mfa", "admin"} \subseteq DOMAIN u.config
      /\ u.config.key \in BOOLEAN /\ o.config.key \in BOOLEAN
  BY <1>1, UnmarshalledIs DEF ConfigIn
<1>4. file = NoFile => Read.key = u.config.key
  <2>1. HasFields(NewConfig)
    BY DEF NewConfig, HasFields
  <2> QED
    BY <2>1, UnmarshalledKeeps DEF Read
<1>5. Read.key \in BOOLEAN
  BY <1>1 DEF IsConfig
<1> HIDE DEF u, o
<1>6. CASE file = NoFile /\ Same /\ mem' = u.config /\ boot' = "load" /\ Marshal("load", Read)
  <2>1. WithKey(Read, Read, mem'.key)
    BY <1>4, <1>6 DEF WithKey
  <2>3. file # TornFile /\ mem'.key \in {TRUE, Read.key}
    BY <1>4, <1>6 DEF NoFile, TornFile
  <2>2. LoadsAs(Read)
    BY <1>1, <1>2, <1>3, <1>6, <2>1, <2>3 DEF LoadsAs, u
  <2> QED
    BY <2>2
<1>7. CASE /\ Fails /\ arrays' = o.arrays /\ maps' = o.maps /\ mem' = o.config
           /\ boot' = "loaded" /\ UNCHANGED writing
  <2>1. LoadsAs(NewConfig)
    BY <1>1, <1>2, <1>3, <1>7 DEF LoadsAs, o
  <2> QED
    BY <2>1
<1>8. CASE /\ file \notin {NoFile, TornFile} /\ Same /\ mem' = [k EXCEPT !.secrets = 1]
           /\ IF Read.key THEN boot' = "loaded" /\ UNCHANGED writing
                          ELSE boot' = "load" /\ Marshal("load", [Read EXCEPT !.key = TRUE])
  <2>1. /\ DOMAIN mem' = DOMAIN u.config /\ mem'.key = TRUE /\ mem'.secrets = 1
        /\ mem'.lists = u.config.lists /\ mem'.mfa = u.config.mfa /\ mem'.admin = u.config.admin
        /\ mem'.settings = u.config.settings
        /\ \A f \in DOMAIN mem' : f \notin {"key", "secrets", "lists"} => mem'[f] = u.config[f]
    BY <1>3, <1>8
  <2>2. \/ /\ boot' = "load" /\ Marshal("load", [Read EXCEPT !.key = TRUE])
           /\ WithKey(Read, [Read EXCEPT !.key = TRUE], mem'.key)
        \/ boot' = "loaded" /\ UNCHANGED writing /\ Read.key = TRUE
    BY <1>1, <1>5, <1>8, <2>1 DEF WithKey, IsConfig
  <2>3. LoadsAs(Read)
    BY <1>1, <1>2, <1>8, <2>1, <2>2 DEF LoadsAs, u
  <2> QED
    BY <2>3
<1> QED
  BY <1>2, <1>6, <1>7, <1>8

LEMMA OffIs ==
  /\ HeapIn(Off.arrays, Off.maps) /\ ConfigIn(Off.config, Off.arrays, Off.maps)
  /\ Apart(Off.config, Off.config)
  BY NewConfigIs, UnmarshalledIs DEF Off

LEMMA InitHeap == Init => Heap
<1> SUFFICES ASSUME Init PROVE Heap
  OBVIOUS
<1>1. Copies = {mem}
  BY DEF Init, Copies, Holds, Idle
<1>2. HeapIn(arrays, maps) /\ ConfigIn(mem, arrays, maps) /\ Apart(mem, mem)
  BY OffIs DEF Init
<1> QED
  BY <1>1, <1>2 DEF Heap

LEMMA HeapNext ==
  ASSUME IInv, Heap, Files, Asked, [Next]_vars
  PROVE  Heap'
<1>0. DOMAIN req = Client /\ mem \in Copies
  BY DEF IInv, Fields1, Copies
<1>1. CASE Load
  <2>0. PICK d : LoadsAs(d)
    BY <1>1, LoadIs
  <2> DEFINE u == Unmarshalled(d)
  <2>1. HeapIn(u.arrays, u.maps) /\ ConfigIn(u.config, u.arrays, u.maps) /\ Apart(u.config, u.config)
    BY <2>0, UnmarshalledIs DEF LoadsAs
  <2>2. ConfigIn(mem', arrays', maps')
    <3>1. /\ mem'.lists = u.config.lists /\ DOMAIN mem' = DOMAIN u.config
          /\ mem'.secrets \in {u.config.secrets, 1} /\ mem'.key \in BOOLEAN
          /\ mem'.mfa = u.config.mfa /\ mem'.admin = u.config.admin
          /\ arrays' = u.arrays /\ maps' = u.maps
      BY <2>0 DEF LoadsAs
    <3> HIDE DEF u
    <3>2. mem'.secrets \in {Null, 1} /\ mem'.mfa \in BOOLEAN /\ mem'.admin \in BOOLEAN
      BY <2>1, <3>1 DEF ConfigIn
    <3> QED
      BY <2>1, <3>1, <3>2, ConfigScalars
  <2>3. Apart(mem', mem') /\ HeapIn(arrays', maps')
    BY <2>0, <2>1 DEF LoadsAs, Apart
  <2>4. \A c \in Client : req'[c].pc \notin {"got", "changed"}
    BY <1>1 DEF Load, IInv, DownIsIdle
  <2> HIDE DEF u
  <2> QED
    BY <2>2, <2>3, <2>4, FreshHeap
<1>2. CASE NewAuthManager
  <2>1. \A c \in Client : req'[c] = req[c]
    BY <1>2 DEF NewAuthManager
  <2>2. CASE mem' = mem
    BY <1>2, <2>1, <2>2, HeapSame DEF NewAuthManager, Copies, Holds
  <2>3. CASE mem' = [mem EXCEPT !.admin = TRUE]
    <3>1. ConfigIn(mem, arrays, maps) /\ HeapIn(arrays, maps)
      BY <1>0 DEF Heap
    <3>2. /\ mem'.lists = mem.lists /\ DOMAIN mem \subseteq DOMAIN mem' /\ mem'.secrets = mem.secrets
          /\ mem'.key = mem.key /\ mem'.mfa = mem.mfa /\ mem'.admin = TRUE
      BY <2>3, <3>1 DEF ConfigIn
    <3>3. ConfigIn(mem', arrays, maps)
      BY <3>1, <3>2, ConfigScalars DEF ConfigIn
    <3>4. Copies' \subseteq Copies \cup {mem'}
      BY <2>1 DEF Copies, Holds
    <3>5. arrays' = arrays /\ maps' = maps
      BY <1>2 DEF NewAuthManager, heap
    <3>6. \A d \in Copies : Apart(mem', d) /\ Apart(d, mem')
      BY <1>0, <3>2 DEF Heap, Apart
    <3>7. Apart(mem', mem')
      BY <1>0, <3>2 DEF Heap, Apart
    <3>8. /\ HeapIn(arrays', maps') /\ ConfigIn(mem', arrays', maps')
          /\ \A d \in Copies : Entries(d, arrays', maps')
      BY <3>1, <3>3, <3>5, CopyKept
    <3>9. Len(arrays) <= Len(arrays') /\ \A x \in 1..Len(arrays) : Len(arrays'[x]) = Len(arrays[x])
      BY <3>1, <3>5 DEF HeapIn, IsSeq
    <3> QED
      BY <3>4, <3>6, <3>7, <3>8, <3>9, HeapStep
  <2> QED
    BY <1>2, <2>2, <2>3 DEF NewAuthManager
<1>3. CASE Crash
  BY <1>3, OffIs, FreshHeap DEF Crash, Idle
<1>4. ASSUME Return PROVE Heap'
  <2>1. Copies' \subseteq Copies
    BY <1>4 DEF Return, Copies, Holds, Idle
  <2> QED
    BY <1>4, <2>1, HeapSame DEF Return
<1>5. CASE Truncate
  BY <1>5, HeapSame DEF Truncate, Copies, Holds
<1>6. ASSUME NEW c \in Client, NEW v, req' = [req EXCEPT ![c] = v], UNCHANGED <<mem, heap>>,
             v.pc = "got" => v.cfg = mem, v.pc # "changed"
      PROVE  Heap'
  <2>1. \A d \in Client : req'[d] = IF d = c THEN v ELSE req[d]
    BY <1>0, <1>6
  <2>2. Copies' \subseteq Copies
    BY <1>0, <1>6, <2>1 DEF Copies, Holds
  <2> QED
    BY <1>6, <2>2, HeapSame DEF heap
<1>7. ASSUME NEW c \in Client, NEW r \in Requests, Get(c, r) PROVE Heap'
  <2> DEFINE v == [pc |-> "got", r |-> r, cfg |-> mem]
  <2>1. req' = [req EXCEPT ![c] = v] /\ UNCHANGED <<mem, heap>>
    BY <1>7 DEF Get, Rest
  <2>2. (v.pc = "got" => v.cfg = mem) /\ v.pc # "changed"
    OBVIOUS
  <2> HIDE DEF v
  <2> QED
    BY <1>6, <2>1, <2>2
<1>8. ASSUME NEW c \in Client, NEW r \in Requests, RegisterKey(c, r) PROVE Heap'
  <2> DEFINE v == [pc |-> "keyed", r |-> r]
  <2>1. req' = [req EXCEPT ![c] = v] /\ UNCHANGED <<mem, heap>>
    BY <1>8 DEF RegisterKey, Rest
  <2>2. (v.pc = "got" => v.cfg = mem) /\ v.pc # "changed"
    OBVIOUS
  <2> HIDE DEF v
  <2> QED
    BY <1>6, <2>1, <2>2
<1>9. ASSUME NEW c \in Client, RegisterMFA(c) PROVE Heap'
  BY <1>9, <1>6 DEF RegisterMFA, Rest, Idle
<1>10. ASSUME NEW c \in Client, RegisterGet(c) PROVE Heap'
  <2> DEFINE v == [pc |-> "got", r |-> req[c].r, cfg |-> mem]
  <2>1. req' = [req EXCEPT ![c] = v] /\ UNCHANGED <<mem, heap>>
    BY <1>10 DEF RegisterGet, Rest
  <2>2. (v.pc = "got" => v.cfg = mem) /\ v.pc # "changed"
    OBVIOUS
  <2> HIDE DEF v
  <2> QED
    BY <1>6, <2>1, <2>2
<1>11. ASSUME NEW c \in Client, Handle(c) PROVE Heap'
  BY <1>11, HandleHeap
<1>12. ASSUME NEW c \in Client, Save(c) PROVE Heap'
  <2>1. \A d \in Client : req'[d] = IF d = c THEN [pc |-> "saving", op |-> req[c].op] ELSE req[d]
    BY <1>0, <1>12 DEF Save
  <2>2. mem' = req[c].cfg /\ Holds(c)
    BY <1>12 DEF Save, Holds
  <2>3. Copies' \subseteq Copies
    BY <2>1, <2>2 DEF Copies, Holds
  <2> QED
    BY <1>12, <2>3, HeapSame DEF Save
<1>13. CASE UNCHANGED vars
  BY <1>13, HeapSame DEF vars, heap, Copies, Holds
<1> QED
  BY <1>1, <1>2, <1>3, <1>4, <1>5, <1>7, <1>8, <1>9, <1>10, <1>11, <1>12, <1>13
     DEF Next, OpenFails, WriteData, WriteFails

-----------------------------------------------------------------------------
(* What is in the file, and what is on its way there.                      *)

ContentIn(c, a, m) ==
    [c EXCEPT !.secrets = IF @ = Null THEN Null ELSE m[@],
              !.lists = [l \in Lists |->
                 LET q == Elems(a, c.lists[l])
                 IN  IF l = "rules"
                     THEN [i \in DOMAIN q |-> [q[i] EXCEPT !.silenced = m[@]]]
                     ELSE q]]

StoredEntry(l, e, m) == IF l = "rules" THEN [e EXCEPT !.silenced = m[@]] ELSE e

LEMMA ContentListIs ==
  ASSUME NEW c, NEW a, NEW m, HeapIn(a, m), ConfigIn(c, a, m), NEW l \in Lists
  PROVE  LET q == ContentIn(c, a, m).lists[l]
         IN  /\ IsSeq(q) /\ Len(q) = c.lists[l].len
             /\ \A i \in 1..c.lists[l].len : q[i] = StoredEntry(l, a[c.lists[l].arr][i], m)
<1> DEFINE ls == [k \in Lists |->
                    LET q == Elems(a, c.lists[k])
                    IN  IF k = "rules" THEN [i \in DOMAIN q |-> [q[i] EXCEPT !.silenced = m[@]]] ELSE q]
           s  == IF c.secrets = Null THEN Null ELSE m[c.secrets]
           q == Elems(a, c.lists[l])
           n == c.lists[l].len
           arr == a[c.lists[l].arr]
<1>1. ContentIn(c, a, m) = [c EXCEPT !.secrets = s, !.lists = ls]
  BY DEF ContentIn
<1>2. "lists" \in DOMAIN c /\ SliceIn(c.lists[l], l, a, m)
  BY DEF ConfigIn
<1>3. IsSeq(q) /\ Len(q) = n /\ \A i \in 1..n : q[i] = arr[i]
  BY <1>2, ElemsIs
<1>4. ls[l] = IF l = "rules" THEN [i \in DOMAIN q |-> [q[i] EXCEPT !.silenced = m[@]]] ELSE q
  OBVIOUS
<1> HIDE DEF q, ls, arr, n, s
<1>5. ContentIn(c, a, m).lists[l] = ls[l]
  BY <1>1, <1>2
<1>6. n \in Nat /\ DOMAIN q = 1..n
  BY <1>3 DEF IsSeq
<1>7. /\ IsSeq(ls[l]) /\ Len(ls[l]) = n
      /\ \A i \in 1..n : ls[l][i] = StoredEntry(l, arr[i], m)
  <2>1. CASE l # "rules"
    BY <1>3, <1>4, <2>1 DEF StoredEntry
  <2>2. CASE l = "rules"
    <3>1. ls[l] = [i \in 1..n |-> [q[i] EXCEPT !.silenced = m[@]]]
      BY <1>4, <1>6, <2>2
    <3>2. ls[l] = [i \in 1..n |-> ls[l][i]]
      BY <3>1
    <3>3. IsSeq(ls[l]) /\ Len(ls[l]) = n
      BY <1>6, <3>2, SeqIs
    <3>4. \A i \in 1..n : ls[l][i] = StoredEntry(l, arr[i], m)
      BY <1>3, <2>2, <3>1 DEF StoredEntry
    <3> QED
      BY <3>3, <3>4
  <2> QED
    BY <2>1, <2>2
<1> QED
  BY <1>5, <1>7 DEF n, arr

LEMMA ContentIs ==
  ASSUME NEW c, NEW a, NEW m, HeapIn(a, m), ConfigIn(c, a, m)
  PROVE  LET d == ContentIn(c, a, m)
         IN  /\ IsConfig(d) /\ DOMAIN d = DOMAIN c
             /\ \A f \in DOMAIN c : f \notin {"secrets", "lists"} => d[f] = c[f]
             /\ d.secrets = IF c.secrets = Null THEN Null ELSE m[1]
             /\ d.lists = [l \in Lists |-> d.lists[l]]
<1> DEFINE d == ContentIn(c, a, m)
           ls == [l \in Lists |->
                    LET q == Elems(a, c.lists[l])
                    IN  IF l = "rules" THEN [i \in DOMAIN q |-> [q[i] EXCEPT !.silenced = m[@]]] ELSE q]
           s  == IF c.secrets = Null THEN Null ELSE m[c.secrets]
<1>1. d = [c EXCEPT !.secrets = s, !.lists = ls]
  BY DEF ContentIn
<1>2. /\ {"key", "secrets", "lists", "settings", "mfa", "admin"} \subseteq DOMAIN c
      /\ c.secrets \in {Null, 1} /\ \A l \in Lists : SliceIn(c.lists[l], l, a, m)
      /\ c.key \in BOOLEAN /\ c.mfa \in BOOLEAN /\ c.admin \in BOOLEAN
  BY DEF ConfigIn
<1>3. \A l \in Lists : d.lists[l] = ls[l]
  <2> HIDE DEF ls
  <2> QED
    BY <1>1, <1>2 DEF ls
<1>5. \A l \in Lists : IsEntries(l, ls[l])
  <2> TAKE l \in Lists
  <2> DEFINE n == c.lists[l].len
             arr == a[c.lists[l].arr]
             q == ls[l]
  <2>1. q = d.lists[l]
    BY <1>3
  <2> HIDE DEF q
  <2>2. IsSeq(q) /\ Len(q) = n /\ \A i \in 1..n : q[i] = StoredEntry(l, arr[i], m)
    BY <2>1, ContentListIs
  <2>3. \A i \in 1..n : IsEntry(l, arr[i])
    BY <1>2 DEF SliceIn, EntryIn
  <2> HIDE DEF n, arr
  <2>4. ASSUME NEW i \in 1..n PROVE IsEntry(l, q[i])
    <3>1. q[i] = IF l = "rules" THEN [arr[i] EXCEPT !.silenced = m[@]] ELSE arr[i]
      BY <2>2 DEF StoredEntry
    <3>2. arr[i] = [k \in Fields[l] |-> arr[i][k]]
      BY <2>3 DEF IsEntry
    <3> QED
      BY <3>1, <3>2 DEF IsEntry
  <2> QED
    BY <2>2, <2>4 DEF IsEntries, IsSeq, q
<1> HIDE DEF ls
<1>6. /\ DOMAIN d = DOMAIN c /\ d.lists = ls /\ d.secrets = s
      /\ \A f \in DOMAIN c : f \notin {"secrets", "lists"} => d[f] = c[f]
  BY <1>1, <1>2
<1>7. s = IF c.secrets = Null THEN Null ELSE m[1]
  BY <1>2
<1>8. ls = [l \in Lists |-> ls[l]]
  BY DEF ls
<1> HIDE DEF d, s
<1>9. d.key = c.key /\ d.mfa = c.mfa /\ d.admin = c.admin
  BY <1>2, <1>6
<1>10. IsConfig(d)
  BY <1>2, <1>5, <1>6, <1>8, <1>9 DEF IsConfig
<1> QED
  BY <1>6, <1>7, <1>8, <1>10 DEF d

\* The file a configuration was read from holds it.
LEMMA RoundTrip ==
  ASSUME NEW d, IsConfig(d), NEW n, NEW e, DOMAIN n = DOMAIN d, DOMAIN e = DOMAIN d,
         n.lists = Unmarshalled(d).config.lists, n.secrets \in {Unmarshalled(d).config.secrets, 1},
         n.secrets \in {Null, 1},
         e.lists = d.lists, e.secrets = d.secrets,
         \A f \in DOMAIN d : f \notin {"secrets", "lists"} => n[f] = e[f],
         n.key \in BOOLEAN, n.mfa \in BOOLEAN, n.admin \in BOOLEAN
  PROVE  LET u == Unmarshalled(d) IN View(ContentIn(n, u.arrays, u.maps)) = View(e)
<1> DEFINE a == Unmarshalled(d).arrays
           m == Unmarshalled(d).maps
           u == Unmarshalled(d).config
           rules == d.lists["rules"]
<1>1. /\ HeapIn(a, m) /\ ConfigIn(u, a, m)
      /\ \A l \in Lists : /\ u.lists[l].len = Len(d.lists[l])
                          /\ \A i \in 1..Len(d.lists[l]) :
                                a[u.lists[l].arr][i] = IF l = "rules" THEN [d.lists[l][i] EXCEPT !.silenced = i + 1]
                                                                      ELSE d.lists[l][i]
      /\ m[1] = IF d.secrets = Null THEN {} ELSE d.secrets
      /\ \A i \in 1..Len(rules) : m[i + 1] = rules[i].silenced
  BY UnmarshalledIs
<1>2. HasFields(d) /\ (u.secrets = Null <=> d.secrets = Null)
  BY UnmarshalledKeeps DEF IsConfig, HasFields
<1>3. n.lists = u.lists /\ n.secrets \in {u.secrets, 1}
  OBVIOUS
<1> HIDE DEF a, m, u
<1>4. ConfigIn(n, a, m)
  BY <1>1, <1>3, ConfigScalars DEF IsConfig, ConfigIn
<1> DEFINE w == ContentIn(n, a, m)
<1>5. /\ DOMAIN w = DOMAIN n /\ \A f \in DOMAIN n : f \notin {"secrets", "lists"} => w[f] = n[f]
      /\ w.secrets = (IF n.secrets = Null THEN Null ELSE m[1]) /\ w.lists = [l \in Lists |-> w.lists[l]]
  BY <1>1, <1>4, ContentIs
<1>11. ASSUME NEW l \in Lists
       PROVE  /\ IsSeq(w.lists[l]) /\ Len(w.lists[l]) = n.lists[l].len
              /\ \A i \in 1..n.lists[l].len : w.lists[l][i] = StoredEntry(l, a[n.lists[l].arr][i], m)
  BY <1>1, <1>4, ContentListIs
<1> HIDE DEF w
<1>6. \A l \in Lists : w.lists[l] = d.lists[l]
  <2> TAKE l \in Lists
  <2> DEFINE q == d.lists[l]
             k == Len(q)
             arr == a[u.lists[l].arr]
             v == w.lists[l]
  <2>1. k \in Nat /\ q = [i \in 1..k |-> q[i]] /\ \A i \in 1..k : IsEntry(l, q[i])
    BY DEF IsConfig, IsEntries
  <2>2. n.lists[l].len = k /\ a[n.lists[l].arr] = arr
    BY <1>1, <1>3
  <2>3. \A i \in 1..k : arr[i] = IF l = "rules" THEN [q[i] EXCEPT !.silenced = i + 1] ELSE q[i]
    BY <1>1
  <2>4. l = "rules" => \A i \in 1..k : m[i + 1] = q[i].silenced
    BY <1>1
  <2>5. IsSeq(v) /\ Len(v) = k /\ \A i \in 1..k : v[i] = StoredEntry(l, arr[i], m)
    BY <1>11, <2>2
  <2> HIDE DEF q, k, arr, v
  <2>6. ASSUME NEW i \in 1..k PROVE v[i] = q[i]
    <3>1. CASE l # "rules"
      BY <2>3, <2>5, <3>1 DEF StoredEntry
    <3>2. CASE l = "rules"
      <4>1. q[i] = [x \in Fields["rules"] |-> q[i][x]] /\ "silenced" \in Fields["rules"]
        BY <2>1, <3>2 DEF IsEntry, Fields
      <4>2. arr[i] = [q[i] EXCEPT !.silenced = i + 1] /\ m[i + 1] = q[i].silenced
        BY <2>3, <2>4, <3>2
      <4>3. [arr[i] EXCEPT !.silenced = m[@]] = q[i]
        BY <4>1, <4>2
      <4> QED
        BY <2>5, <3>2, <4>3 DEF StoredEntry
    <3> QED
      BY <3>1, <3>2
  <2>7. v = [i \in 1..k |-> v[i]]
    BY <2>5 DEF IsSeq
  <2> QED
    BY <2>1, <2>6, <2>7 DEF q, v
<1>7. w.lists = d.lists
  <2>1. d.lists = [l \in Lists |-> d.lists[l]]
    BY DEF IsConfig
  <2> QED
    BY <1>5, <1>6, <2>1
<1>8. (IF w.secrets = Null THEN {} ELSE w.secrets) = (IF e.secrets = Null THEN {} ELSE e.secrets)
  BY <1>1, <1>2, <1>3, <1>5, NullAssumption
<1>9. \A f \in DOMAIN d : f # "secrets" => w[f] = e[f]
  BY <1>5, <1>7
<1>10. View(w) = View(e)
  <2>1. DOMAIN w = DOMAIN e
    BY <1>5
  <2>2. View(w) = [f \in DOMAIN w |-> IF f = "secrets" THEN IF w.secrets = Null THEN {} ELSE w.secrets ELSE w[f]]
    BY DEF View
  <2>3. View(e) = [f \in DOMAIN e |-> IF f = "secrets" THEN IF e.secrets = Null THEN {} ELSE e.secrets ELSE e[f]]
    BY DEF View
  <2> QED
    BY <1>8, <1>9, <2>1, <2>2, <2>3
<1> QED
  BY <1>10 DEF w, a, m

LEMMA ContentOf == \A c : Content(c) = ContentIn(c, arrays, maps)
  BY DEF Content, ContentIn

LEMMA CopyContent ==
  ASSUME Heap, NEW d \in Copies
  PROVE  IsConfig(Content(d))
  BY CopyKept, ContentOf, ContentIs DEF Heap

LEMMA FilesInit == Init => Files
  BY FilesAssumption DEF Init, Files

\* What is written is the content of a copy that is, or becomes, the configuration in force.
LEMMA MarshalsConfig ==
  ASSUME IInv, Heap, Heap', Files, NEW who, UNCHANGED heap, Marshal(who, Content(mem')), UNCHANGED file
  PROVE  Files'
<1>1. mem' \in Copies' /\ arrays' = arrays /\ maps' = maps
  BY DEF Copies, heap
<1>2. ConfigIn(mem', arrays, maps) /\ HeapIn(arrays, maps)
  BY <1>1 DEF Heap
<1>3. IsConfig(Content(mem'))
  BY <1>2, ContentOf, ContentIs
<1>4. /\ writing' = [by |-> who, data |-> Content(mem'), stage |-> "marshalled"]
      /\ file' = file
  BY DEF Marshal
<1> QED
  BY <1>3, <1>4 DEF Files, Recorded

LEMMA FilesNext ==
  ASSUME IInv, Heap, Heap', Files, [Next]_vars
  PROVE  Files'
<1>1. CASE Load
  <2>0. PICK d : LoadsAs(d)
    BY <1>1, LoadIs
  <2>1. /\ IsConfig(d) /\ file' = file
        /\ writing' = writing \/ \E e : Marshal("load", e) /\ WithKey(d, e, mem'.key)
    BY <2>0 DEF LoadsAs, disk
  <2>2. mem'.key \in BOOLEAN
    BY <2>0 DEF LoadsAs
  <2>3. \A e : WithKey(d, e, mem'.key) => IsConfig(e)
    BY <2>1, <2>2 DEF WithKey, IsConfig
  <2>4. CASE writing' = writing
    BY <2>1, <2>4 DEF Files, Recorded
  <2>5. CASE \E e : Marshal("load", e) /\ WithKey(d, e, mem'.key)
    BY <2>1, <2>3, <2>5 DEF Files, Recorded, Marshal
  <2> QED
    BY <2>1, <2>4, <2>5
<1>2. CASE NewAuthManager
  <2>1. CASE UNCHANGED writing
    BY <1>2, <2>1 DEF NewAuthManager, Files, Recorded, disk
  <2>2. CASE Marshal("auth", Content(mem'))
    BY <1>2, <2>2, MarshalsConfig DEF NewAuthManager, disk
  <2> QED
    BY <1>2, <2>1, <2>2 DEF NewAuthManager
<1>3. CASE Crash
  BY <1>3 DEF Crash, Files, disk
<1>4. CASE OpenFails
  BY <1>4 DEF OpenFails, Return, Files
<1>5. CASE Truncate
  BY <1>5 DEF Truncate, Files, Recorded
<1>6. CASE WriteData
  BY <1>6 DEF WriteData, Return, HalfWritten, Files
<1>7. CASE WriteFails
  BY <1>7 DEF WriteFails, Return, Files
<1>8. ASSUME UNCHANGED <<file, writing>> PROVE Files'
  BY <1>8 DEF Files, Recorded
<1>9. ASSUME NEW c \in Client, NEW r \in Requests, Get(c, r) \/ RegisterKey(c, r) PROVE Files'
  BY <1>9, <1>8 DEF Get, RegisterKey, disk
<1>10. ASSUME NEW c \in Client, RegisterMFA(c) \/ RegisterGet(c) \/ Handle(c) PROVE Files'
  BY <1>10, <1>8, HandleFrames DEF RegisterMFA, RegisterGet, Frame, Rest, disk
<1>11. ASSUME NEW c \in Client, Save(c) PROVE Files'
  <2>1. Marshal(c, Content(mem')) /\ UNCHANGED <<heap, disk>>
    BY <1>11 DEF Save
  <2> QED
    BY <2>1, MarshalsConfig DEF disk
<1>12. CASE UNCHANGED vars
  BY <1>12, <1>8 DEF vars
<1> QED
  BY <1>1, <1>2, <1>3, <1>4, <1>5, <1>6, <1>7, <1>9, <1>10, <1>11, <1>12 DEF Next

LEMMA AskedNext ==
  ASSUME IInv, Asked, [Next]_vars
  PROVE  Asked'
<1>0. DOMAIN req = Client
  BY DEF IInv, Fields1
<1>1. ASSUME NEW c \in Client, NEW v, req' = [req EXCEPT ![c] = v],
             v.pc \in {"keyed", "checked", "got"} => v.r \in Requests
      PROVE  Asked'
  <2>1. \A d \in Client : req'[d] = IF d = c THEN v ELSE req[d]
    BY <1>0, <1>1
  <2> QED
    BY <1>1, <2>1 DEF Asked
<1>2. ASSUME NEW c \in Client, NEW r \in Requests, Get(c, r) PROVE Asked'
  <2> DEFINE v == [pc |-> "got", r |-> r, cfg |-> mem]
  <2>1. req' = [req EXCEPT ![c] = v] /\ v.r \in Requests
    BY <1>2 DEF Get
  <2> HIDE DEF v
  <2> QED
    BY <1>1, <2>1
<1>3. ASSUME NEW c \in Client, NEW r \in Requests, RegisterKey(c, r) PROVE Asked'
  <2> DEFINE v == [pc |-> "keyed", r |-> r]
  <2>1. req' = [req EXCEPT ![c] = v] /\ v.r \in Requests
    BY <1>3 DEF RegisterKey
  <2> HIDE DEF v
  <2> QED
    BY <1>1, <2>1
<1>4. ASSUME NEW c \in Client, RegisterMFA(c) PROVE Asked'
  <2> DEFINE v == [pc |-> "checked", r |-> req[c].r]
  <2>1. req' = [req EXCEPT ![c] = v] \/ req' = [req EXCEPT ![c] = Idle]
    BY <1>4 DEF RegisterMFA
  <2>2. v.r \in Requests /\ Idle.pc = "idle"
    BY <1>4 DEF RegisterMFA, Asked, Idle
  <2> HIDE DEF v
  <2> QED
    BY <1>1, <2>1, <2>2
<1>5. ASSUME NEW c \in Client, RegisterGet(c) PROVE Asked'
  <2> DEFINE v == [pc |-> "got", r |-> req[c].r, cfg |-> mem]
  <2>1. req' = [req EXCEPT ![c] = v] /\ v.r \in Requests
    BY <1>5 DEF RegisterGet, Asked
  <2> HIDE DEF v
  <2> QED
    BY <1>1, <2>1
<1>6. ASSUME NEW c \in Client, Handle(c) PROVE Asked'
  <2>1. \/ req' = [req EXCEPT ![c] = Idle]
        \/ \E cfg, op : req' = [req EXCEPT ![c] = [pc |-> "changed", op |-> op, cfg |-> cfg]]
    BY <1>6, HandleFrames DEF Frame
  <2>2. CASE req' = [req EXCEPT ![c] = Idle]
    <3>1. Idle.pc = "idle"
      BY DEF Idle
    <3> QED
      BY <1>1, <2>2, <3>1
  <2>3. ASSUME NEW cfg, NEW op, req' = [req EXCEPT ![c] = [pc |-> "changed", op |-> op, cfg |-> cfg]]
        PROVE  Asked'
    <3> DEFINE v == [pc |-> "changed", op |-> op, cfg |-> cfg]
    <3>1. req' = [req EXCEPT ![c] = v] /\ v.pc = "changed"
      BY <2>3
    <3> HIDE DEF v
    <3> QED
      BY <1>1, <3>1
  <2> QED
    BY <2>1, <2>2, <2>3
<1>7. ASSUME NEW c \in Client, Save(c) PROVE Asked'
  <2> DEFINE v == [pc |-> "saving", op |-> req[c].op]
  <2>1. req' = [req EXCEPT ![c] = v] /\ v.pc = "saving"
    BY <1>7 DEF Save
  <2> HIDE DEF v
  <2> QED
    BY <1>1, <2>1
<1>8. ASSUME Return PROVE Asked'
  BY <1>8 DEF Return, Asked, Idle
<1>9. CASE Crash
  BY <1>9 DEF Crash, Asked, Idle
<1>10. ASSUME UNCHANGED req PROVE Asked'
  BY <1>10 DEF Asked
<1>11. CASE Load \/ NewAuthManager \/ Truncate \/ UNCHANGED vars
  BY <1>10, <1>11 DEF Load, NewAuthManager, Truncate, vars
<1> QED
  BY <1>2, <1>3, <1>4, <1>5, <1>6, <1>7, <1>8, <1>9, <1>11 DEF Next, OpenFails, WriteData, WriteFails

LEMMA CountsNext ==
  ASSUME Counts, [Next]_vars
  PROVE  Counts'
<1>1. CASE Load \/ NewAuthManager
  BY <1>1 DEF Load, NewAuthManager, Counts
<1>2. CASE Crash
  BY <1>2, BoundsAssumption DEF Crash, Counts
<1>3. ASSUME Return PROVE Counts'
  BY <1>3 DEF Return, Counts
<1>4. CASE Truncate \/ UNCHANGED vars
  BY <1>4 DEF Truncate, vars, Counts
<1>5. ASSUME NEW c \in Client, NEW r \in Requests, Get(c, r) \/ RegisterKey(c, r) PROVE Counts'
  BY <1>5, BoundsAssumption DEF Get, RegisterKey, Counts
<1>6. ASSUME NEW c \in Client, RegisterMFA(c) \/ RegisterGet(c) \/ Handle(c) \/ Save(c) PROVE Counts'
  BY <1>6, HandleFrames DEF RegisterMFA, RegisterGet, Frame, Save, Rest, Counts
<1> QED
  BY <1>1, <1>2, <1>3, <1>4, <1>5, <1>6 DEF Next, OpenFails, WriteData, WriteFails

LEMMA OnDiskInit == Init => OnDisk
  BY DEF Init, OnDisk

LEMMA OnDiskSame ==
  ASSUME OnDisk, UNCHANGED <<boot, mem, arrays, maps, writing, file, lastOk>>, Dirty => Dirty'
  PROVE  OnDisk'
<1>1. Content(mem)' = Content(mem)
  BY DEF Content, Elems
<1>2. InFile(Content(mem))' = InFile(Content(mem))
  BY <1>1 DEF InFile
<1> QED
  BY <1>1, <1>2 DEF OnDisk

\* A request that was not changing anything goes on, and changes nothing.
LEMMA DirtyKept ==
  ASSUME IInv, NEW c \in Client, req[c].pc # "changed", NEW v, req' = [req EXCEPT ![c] = v]
  PROVE  Dirty => Dirty'
  BY DEF IInv, Fields1, Dirty

LEMMA ReturnOnDisk ==
  ASSUME IInv, Writers, Files, OnDisk, writing # NoWrite, Return,
         lastOk' => file' = writing.data
  PROVE  OnDisk'
<1>1. /\ mem' = mem /\ arrays' = arrays /\ maps' = maps /\ writing' = NoWrite
  BY DEF Return, heap
<1>2. Content(mem)' = Content(mem)
  BY <1>1 DEF Content, Elems
<1>3. IsConfig(writing.data) /\ writing.data \notin {NoFile, TornFile}
  <2>1. IsConfig(writing.data)
    BY DEF Files
  <2>2. ~IsConfig(NoFile) /\ ~IsConfig(TornFile)
    BY DEF IsConfig, NoFile, TornFile
  <2> QED
    BY <2>1, <2>2
<1>4. lastOk' /\ View(writing.data) = View(Content(mem)) => InFile(Content(mem))'
  BY <1>2, <1>3 DEF InFile
<1>5. Dirty => \/ Dirty'
               \/ writing.by \notin Client
  <2>1. writing.by \in Client => req[writing.by].pc # "changed"
    BY ClientAssumption DEF Writers
  <2> QED
    BY <2>1 DEF Dirty, Return
<1>6. CASE writing.by = "load" /\ boot = "load"
  <2>1. boot' = "loaded" /\ View(writing.data) = View(Content(mem))
    BY <1>6 DEF Return, OnDisk
  <2> QED
    BY <1>1, <1>4, <2>1 DEF OnDisk
<1>7. CASE writing.by = "auth" /\ boot = "auth"
  <2>1. boot' = "serving" /\ View(writing.data) = View(Content(mem))
    BY <1>7 DEF Return, OnDisk
  <2> QED
    BY <1>1, <1>4, <2>1 DEF OnDisk
<1>8. CASE writing.by \in Client /\ boot = "serving"
  <2>1. boot' = "serving"
    BY <1>8, ClientAssumption DEF Return
  <2>2. Dirty' \/ View(writing.data) = View(Content(mem))
    BY <1>5, <1>8 DEF OnDisk
  <2> QED
    BY <1>1, <1>4, <2>1, <2>2 DEF OnDisk
<1> QED
  BY <1>6, <1>7, <1>8 DEF Writers

\* A write of what is in force begins.
LEMMA MarshalOnDisk ==
  ASSUME NEW who, Marshal(who, Content(mem)'), boot' \in {"auth", "serving"}
  PROVE  OnDisk'
<1>1. writing' = [by |-> who, data |-> Content(mem)', stage |-> "marshalled"]
  BY DEF Marshal
<1>2. writing' # NoWrite /\ writing'.data = Content(mem)'
  BY <1>1 DEF NoWrite
<1> QED
  BY <1>2 DEF OnDisk

LEMMA LoadOnDisk ==
  ASSUME IInv, Writers, Files, Load
  PROVE  OnDisk'
<1>0. PICK d : LoadsAs(d)
  BY LoadIs
<1> DEFINE u == Unmarshalled(d)
<1>1. /\ IsConfig(d) /\ boot = "down" /\ file' = file
      /\ arrays' = u.arrays /\ maps' = u.maps
  BY <1>0 DEF LoadsAs, disk
<1>2. /\ mem'.lists = u.config.lists /\ DOMAIN mem' = DOMAIN u.config
      /\ mem'.secrets \in {u.config.secrets, 1} /\ mem'.key \in BOOLEAN
      /\ mem'.mfa = u.config.mfa /\ mem'.admin = u.config.admin
      /\ \A f \in DOMAIN mem' : f \notin {"key", "secrets", "lists"} => mem'[f] = u.config[f]
  BY <1>0 DEF LoadsAs
<1>3. /\ DOMAIN u.config = DOMAIN d
      /\ \A f \in DOMAIN d : f \notin {"secrets", "lists"} => u.config[f] = d[f]
      /\ u.config.secrets \in {Null, 1} /\ u.config.mfa \in BOOLEAN /\ u.config.admin \in BOOLEAN
  <2>1. ConfigIn(u.config, u.arrays, u.maps)
    BY <1>1, UnmarshalledIs
  <2>2. u.config.secrets \in {Null, 1} /\ u.config.mfa \in BOOLEAN /\ u.config.admin \in BOOLEAN
    BY <2>1 DEF ConfigIn
  <2>3. /\ DOMAIN u.config = DOMAIN d
        /\ \A f \in DOMAIN d : f \notin {"secrets", "lists"} => u.config[f] = d[f]
    <3> DEFINE ls == [l \in Lists |-> [arr |-> CHOOSE k \in 1..Len(ListOrder) : ListOrder[k] = l,
                                      len |-> Len(d.lists[l])]]
               s == IF d.secrets = Null THEN Null ELSE 1
    <3>1. u.config = [d EXCEPT !.secrets = s, !.lists = ls]
      BY DEF Unmarshalled
    <3> HIDE DEF ls, s, u
    <3> QED
      BY <3>1
  <2> QED
    BY <2>2, <2>3
<1>4. writing = NoWrite
  BY <1>1 DEF Writers
<1> HIDE DEF u
<1>5. ASSUME NEW e, DOMAIN e = DOMAIN d, e.lists = d.lists, e.secrets = d.secrets, e.key = mem'.key,
             \A f \in DOMAIN d : f \notin {"key", "secrets", "lists"} => e[f] = d[f]
      PROVE  View(e) = View(Content(mem)')
  <2>1. Content(mem)' = ContentIn(mem', arrays', maps')
    BY DEF Content, ContentIn
  <2>2. {"key", "secrets", "lists", "settings", "mfa", "admin"} \subseteq DOMAIN d
    BY <1>1 DEF IsConfig
  <2>3. \A f \in DOMAIN d : f \notin {"secrets", "lists"} => mem'[f] = e[f]
    BY <1>2, <1>3, <1>5, <2>2
  <2>4. mem'.secrets \in {Null, 1} /\ mem'.mfa \in BOOLEAN /\ mem'.admin \in BOOLEAN
    BY <1>2, <1>3
  <2>5. /\ DOMAIN mem' = DOMAIN d /\ mem'.lists = Unmarshalled(d).config.lists
        /\ mem'.secrets \in {Unmarshalled(d).config.secrets, 1}
    BY <1>2, <1>3 DEF u
  <2>6. View(ContentIn(mem', Unmarshalled(d).arrays, Unmarshalled(d).maps)) = View(e)
    BY <1>1, <1>2, <1>5, <2>3, <2>4, <2>5, RoundTrip
  <2> QED
    BY <1>1, <2>1, <2>6 DEF u
<1>6. CASE boot' = "load" /\ \E e : Marshal("load", e) /\ WithKey(d, e, mem'.key)
  <2>1. PICK e : Marshal("load", e) /\ WithKey(d, e, mem'.key)
    BY <1>6
  <2>2. View(e) = View(Content(mem)')
    BY <1>1, <1>5, <2>1 DEF WithKey, IsConfig
  <2>3. writing' # NoWrite /\ writing'.data = e
    BY <2>1 DEF Marshal, NoWrite
  <2> QED
    BY <1>6, <2>2, <2>3 DEF OnDisk
<1>7. CASE boot' = "loaded" /\ UNCHANGED writing /\ d = NewConfig
  <2>1. NewConfig.admin = FALSE /\ "admin" \in DOMAIN NewConfig
    BY DEF NewConfig
  <2>2. mem'.admin = FALSE
    BY <1>2, <1>3, <1>7, <2>1
  <2> QED
    BY <1>4, <1>7, <2>2 DEF OnDisk
<1>8. CASE /\ boot' = "loaded" /\ UNCHANGED writing /\ file \notin {NoFile, TornFile}
           /\ d = Read /\ d.key = TRUE /\ mem'.key = TRUE
  <2>1. d = file
    BY <1>8 DEF Read
  <2>2. View(d) = View(Content(mem)')
    BY <1>5, <1>8
  <2>3. InFile(Content(mem))'
    BY <1>1, <1>8, <2>1, <2>2 DEF InFile
  <2> QED
    BY <1>4, <1>8, <2>3 DEF OnDisk
<1> QED
  BY <1>0, <1>6, <1>7, <1>8 DEF LoadsAs

LEMMA OnDiskNext ==
  ASSUME IInv, Writers, Files, OnDisk, [Next]_vars
  PROVE  OnDisk'
<1>1. CASE Load
  BY <1>1, LoadOnDisk
<1>2. CASE NewAuthManager
  <2>1. CASE mem.admin /\ boot' = "serving" /\ UNCHANGED <<mem, writing>>
    <3>1. Content(mem)' = Content(mem)
      BY <1>2, <2>1 DEF NewAuthManager, heap, Content, Elems
    <3>2. UNCHANGED <<file, lastOk>> /\ boot = "loaded"
      BY <1>2 DEF NewAuthManager, disk
    <3> QED
      BY <2>1, <3>1, <3>2 DEF OnDisk, InFile
  <2>2. CASE boot' = "auth" /\ Marshal("auth", Content(mem'))
    <3>1. Content(mem') = Content(mem)'
      BY <1>2 DEF NewAuthManager, heap, Content, Elems
    <3> QED
      BY <2>2, <3>1, MarshalOnDisk
  <2> QED
    BY <1>2, <2>1, <2>2 DEF NewAuthManager
<1>3. CASE Crash
  BY <1>3 DEF Crash, OnDisk
<1>4. CASE OpenFails
  BY <1>4, ReturnOnDisk DEF OpenFails
<1>5. CASE Truncate
  <2>1. Content(mem)' = Content(mem) /\ Dirty' = Dirty
    BY <1>5 DEF Truncate, heap, Content, Elems, Dirty
  <2>2. writing # NoWrite /\ writing' # NoWrite /\ writing'.data = writing.data /\ boot' = boot
    BY <1>5 DEF Truncate, Writers, Recorded, NoWrite
  <2> QED
    BY <2>1, <2>2 DEF OnDisk
<1>6. CASE WriteData
  BY <1>6, ReturnOnDisk DEF WriteData, HalfWritten
<1>7. CASE WriteFails
  BY <1>7, ReturnOnDisk DEF WriteFails, HalfWritten
<1>8. ASSUME NEW c \in Client, req[c].pc # "changed", NEW v, req' = [req EXCEPT ![c] = v],
             UNCHANGED <<boot, mem, heap, disk, writing>>
      PROVE  OnDisk'
  BY <1>8, DirtyKept, OnDiskSame DEF heap, disk
<1>9. ASSUME NEW c \in Client, NEW r \in Requests, Get(c, r) PROVE OnDisk'
  <2>1. /\ req' = [req EXCEPT ![c] = [pc |-> "got", r |-> r, cfg |-> mem]] /\ req[c].pc # "changed"
        /\ UNCHANGED <<boot, mem, heap, disk, writing>>
    BY <1>9 DEF Get, Idle
  <2> QED
    BY <1>8, <2>1
<1>10. ASSUME NEW c \in Client, NEW r \in Requests, RegisterKey(c, r) PROVE OnDisk'
  <2>1. /\ req' = [req EXCEPT ![c] = [pc |-> "keyed", r |-> r]] /\ req[c].pc # "changed"
        /\ UNCHANGED <<boot, mem, heap, disk, writing>>
    BY <1>10 DEF RegisterKey, Idle
  <2> QED
    BY <1>8, <2>1
<1>11. ASSUME NEW c \in Client, RegisterMFA(c) PROVE OnDisk'
  <2>1. /\ \/ req' = [req EXCEPT ![c] = [pc |-> "checked", r |-> req[c].r]]
           \/ req' = [req EXCEPT ![c] = Idle]
        /\ req[c].pc # "changed" /\ UNCHANGED <<boot, mem, heap, disk, writing>>
    BY <1>11 DEF RegisterMFA, Rest
  <2> QED
    BY <1>8, <2>1
<1>12. ASSUME NEW c \in Client, RegisterGet(c) PROVE OnDisk'
  <2>1. /\ req' = [req EXCEPT ![c] = [pc |-> "got", r |-> req[c].r, cfg |-> mem]]
        /\ req[c].pc # "changed" /\ UNCHANGED <<boot, mem, heap, disk, writing>>
    BY <1>12 DEF RegisterGet, Rest
  <2> QED
    BY <1>8, <2>1
<1>13. ASSUME NEW c \in Client, Handle(c) PROVE OnDisk'
  <2>1. Frame(c)
    BY <1>13, HandleFrames
  <2>2. CASE req' = [req EXCEPT ![c] = Idle] /\ UNCHANGED heap
    BY <1>8, <2>1, <2>2 DEF Frame, Rest
  <2>3. CASE \E cfg, op : req' = [req EXCEPT ![c] = [pc |-> "changed", op |-> op, cfg |-> cfg]]
    <3>1. Dirty'
      BY <2>3 DEF IInv, Fields1, Dirty
    <3>2. boot' = "serving"
      BY <2>1 DEF Frame, Rest, Writers
    <3> QED
      BY <3>1, <3>2 DEF OnDisk
  <2> QED
    BY <2>1, <2>2, <2>3 DEF Frame
<1>14. ASSUME NEW c \in Client, Save(c) PROVE OnDisk'
  <2>1. Marshal(c, Content(mem)')
    BY <1>14 DEF Save, heap, Content, Elems
  <2>2. boot' = "serving"
    BY <1>14 DEF Save, Writers
  <2> QED
    BY <2>1, <2>2, MarshalOnDisk
<1>15. CASE UNCHANGED vars
  <2>1. Dirty => Dirty'
    BY <1>15 DEF vars, Dirty
  <2> QED
    BY <1>15, <2>1, OnDiskSame DEF vars
<1> QED
  BY <1>1, <1>2, <1>3, <1>4, <1>5, <1>6, <1>7, <1>9, <1>10, <1>11, <1>12, <1>13, <1>14, <1>15 DEF Next

LEMMA SInvInit == Init => SInv
<1>1. Init => Asked
  BY DEF Init, Asked, Idle
<1>2. Init => Counts
  BY BoundsAssumption DEF Init, Counts
<1> QED
  BY <1>1, <1>2, InitOK, WritersInit, InitHeap, FilesInit, OnDiskInit DEF SInv

LEMMA SInvNext == SInv /\ [Next]_vars => SInv'
<1> SUFFICES ASSUME SInv, [Next]_vars PROVE SInv'
  OBVIOUS
<1>1. IInv'
  BY NextOK DEF SInv
<1>2. Writers'
  <2>1. CASE Next
    BY <2>1, NextServes DEF SInv
  <2>2. CASE UNCHANGED vars
    BY <2>2 DEF SInv, vars, Writers, Recorded
  <2> QED
    BY <2>1, <2>2
<1>3. Heap'
  BY HeapNext DEF SInv
<1>4. Files'
  BY <1>3, FilesNext DEF SInv
<1> QED
  BY <1>1, <1>2, <1>3, <1>4, AskedNext, CountsNext, OnDiskNext DEF SInv

\* Every copy of the configuration stays made of complete entries of the
\* right kind within its arrays, however the handlers of config.go's shared
\* slices overlap (handler.go 488-1218), and whatever file it came from.
THEOREM TypesHold == Spec => []TypeOK
<1>1. ASSUME SInv PROVE TypeOK
  <2> DEFINE Sound(c) ==
        /\ \A l \in Lists :
              /\ c.lists[l].len <= Len(arrays[c.lists[l].arr])
              /\ \A i \in 1..c.lists[l].len : DOMAIN arrays[c.lists[l].arr][i] = Fields[l]
        /\ c.secrets = Null \/ c.secrets \in DOMAIN maps
        /\ c.mfa \in BOOLEAN /\ c.key \in BOOLEAN /\ c.admin \in BOOLEAN
  <2>1. ASSUME NEW d \in Copies PROVE Sound(d)
    <3>1. ConfigIn(d, arrays, maps) /\ HeapIn(arrays, maps)
      BY <1>1 DEF SInv, Heap
    <3>2. \A l \in Lists : d.lists[l].len <= Len(arrays[d.lists[l].arr])
      <4> TAKE l \in Lists
      <4>1. /\ d.lists[l].arr \in 1..Len(arrays) /\ d.lists[l].len \in 0..Len(arrays[d.lists[l].arr])
        BY <3>1 DEF ConfigIn, SliceIn
      <4>2. Len(arrays[d.lists[l].arr]) \in Nat
        BY <3>1, <4>1 DEF HeapIn, IsSeq
      <4> QED
        BY <4>1, <4>2
    <3>3. \A l \in Lists : \A i \in 1..d.lists[l].len : DOMAIN arrays[d.lists[l].arr][i] = Fields[l]
      <4> TAKE l \in Lists
      <4> TAKE i \in 1..d.lists[l].len
      <4> DEFINE e == arrays[d.lists[l].arr][i]
      <4>1. IsEntry(l, e)
        BY <3>1 DEF ConfigIn, SliceIn, EntryIn
      <4> HIDE DEF e
      <4>2. DOMAIN e = Fields[l]
        BY <4>1 DEF IsEntry
      <4> QED
        BY <4>2 DEF e
    <3>4. d.secrets = Null \/ d.secrets \in DOMAIN maps
      BY <3>1 DEF ConfigIn, HeapIn, IsSeq
    <3> QED
      BY <3>1, <3>2, <3>3, <3>4 DEF ConfigIn
  <2>2. Sound(mem)
    BY <2>1 DEF Copies
  <2>3. \A c \in Client : req[c].pc \in {"got", "changed"} => Sound(req[c].cfg)
    <3> SUFFICES ASSUME NEW c \in Client, req[c].pc \in {"got", "changed"} PROVE Sound(req[c].cfg)
      OBVIOUS
    <3>1. req[c].cfg \in Copies
      BY DEF Copies, Holds
    <3> HIDE DEF Sound
    <3> QED
      BY <2>1, <3>1
  <2> HIDE DEF Sound
  <2>4. writing # NoWrite => writing.stage \in {"marshalled", "open"}
    BY <1>1 DEF SInv, Files
  <2>5. /\ boot \in {"down", "load", "loaded", "auth", "serving"}
        /\ crashes \in 0..MaxCrashes /\ begun \in 0..MaxRequests
    BY <1>1 DEF SInv, Counts
  <2> QED
    BY <2>2, <2>3, <2>4, <2>5 DEF TypeOK, Sound
<1> QED
  BY <1>1, SInvInit, SInvNext, PTL DEF Spec

\* Once nothing is in progress and the last write succeeded, the file says
\* what the memory says: no change made in place is left unsaved
\* (config.go 126-137, and every handler that calls Save).
THEOREM QuietStored == Spec => []QuietMeansStored
<1>1. SInv => QuietMeansStored
  BY DEF SInv, OnDisk, QuietMeansStored, Quiet, Dirty, InFile, Idle
<1> QED
  BY <1>1, SInvInit, SInvNext, PTL DEF Spec

\* An agent that registered stays registered while the server runs, however
\* the requests overlap (handler.go 1128-1190): all copies have the one map
\* of secrets, and no handler but the registration writes to it.
THEOREM AgentsKept == Spec => AgentsNotForgotten
<1>1. ASSUME SInv, [Next]_vars, boot = "serving", boot' = "serving"
      PROVE  Registered \subseteq Registered'
  <2>1. ConfigIn(mem, arrays, maps)
    BY <1>1 DEF SInv, Heap, Copies
  <2>2. mem.secrets \in {Null, 1}
    BY <2>1 DEF ConfigIn
  <2>3. ASSUME mem'.secrets = mem.secrets, mem.secrets # Null => maps[1] \subseteq maps'[1]
        PROVE  Registered \subseteq Registered'
    BY <2>2, <2>3 DEF Registered
  <2>4. ASSUME mem'.secrets = mem.secrets, UNCHANGED heap
        PROVE  Registered \subseteq Registered'
    BY <2>3, <2>4 DEF heap
  <2>5. ~Load /\ ~NewAuthManager /\ ~Crash
    BY <1>1 DEF Load, NewAuthManager, Crash
  <2>6. CASE OpenFails \/ Truncate \/ WriteData \/ WriteFails \/ UNCHANGED vars
    BY <2>4, <2>6 DEF OpenFails, Truncate, WriteData, WriteFails, Return, vars, heap
  <2>7. ASSUME NEW c \in Client, NEW r \in Requests, Get(c, r) \/ RegisterKey(c, r)
        PROVE  Registered \subseteq Registered'
    BY <2>4, <2>7 DEF Get, RegisterKey
  <2>8. ASSUME NEW c \in Client, RegisterMFA(c) \/ RegisterGet(c)
        PROVE  Registered \subseteq Registered'
    BY <2>4, <2>8 DEF RegisterMFA, RegisterGet, Rest
  <2>9. ASSUME NEW c \in Client, Handle(c) PROVE Registered \subseteq Registered'
    <3>1. mem.secrets # Null => maps[1] \subseteq maps'[1]
      BY <1>1, <2>9, HandleHeap DEF SInv
    <3>2. mem' = mem
      BY <2>9, HandleFrames DEF Frame, Rest
    <3> QED
      BY <2>3, <3>1, <3>2
  <2>10. ASSUME NEW c \in Client, Save(c) PROVE Registered \subseteq Registered'
    BY <1>1, <2>4, <2>10 DEF Save, SInv, IInv, CopiesAgree, Holds
  <2> QED
    BY <1>1, <2>5, <2>6, <2>7, <2>8, <2>9, <2>10 DEF Next
<1>2. SInv /\ [Next]_vars => [boot = "serving" /\ boot' = "serving" => Registered \subseteq Registered']_vars
  BY <1>1
<1> QED
  BY <1>2, SInvInit, SInvNext, PTL DEF Spec, AgentsNotForgotten

-----------------------------------------------------------------------------
(* The refinement of AtomicConfig: one client's requests, one after the    *)
(* other.  The configuration in force is a value, InForce, and what a      *)
(* handler does to slices, arrays and maps is an update of that value.     *)

InForce(c, a, m) == View(ContentIn(c, a, m))

IsView(v) ==
    /\ v = [f \in DOMAIN v |-> v[f]]
    /\ {"key", "secrets", "lists", "settings", "mfa", "admin"} \subseteq DOMAIN v
    /\ v.lists = [l \in Lists |-> v.lists[l]]
    /\ \A l \in Lists : IsEntries(l, v.lists[l])

\* The i-th entry of list l of configuration c, as it is stored.
Item(c, l, i, a, m) == StoredEntry(l, a[c.lists[l].arr][i], m)

LEMMA ViewIs ==
  ASSUME NEW c, NEW a, NEW m, HeapIn(a, m), ConfigIn(c, a, m), m[1] # Null
  PROVE  LET v == InForce(c, a, m)
         IN  /\ IsView(v) /\ DOMAIN v = DOMAIN c
             /\ \A f \in DOMAIN c : f \notin {"secrets", "lists"} => v[f] = c[f]
             /\ v.secrets = IF c.secrets = Null THEN {} ELSE m[1]
             /\ \A l \in Lists : /\ Len(v.lists[l]) = c.lists[l].len
                                 /\ \A i \in 1..c.lists[l].len : v.lists[l][i] = Item(c, l, i, a, m)
<1> DEFINE d == ContentIn(c, a, m)
           v == InForce(c, a, m)
           s == IF d.secrets = Null THEN {} ELSE d.secrets
<1>1. /\ IsConfig(d) /\ DOMAIN d = DOMAIN c
      /\ \A f \in DOMAIN c : f \notin {"secrets", "lists"} => d[f] = c[f]
      /\ d.secrets = IF c.secrets = Null THEN Null ELSE m[1]
      /\ d.lists = [l \in Lists |-> d.lists[l]]
  BY ContentIs
<1>2. \A l \in Lists : /\ Len(d.lists[l]) = c.lists[l].len
                       /\ \A i \in 1..c.lists[l].len : d.lists[l][i] = Item(c, l, i, a, m)
  BY ContentListIs DEF Item
<1> HIDE DEF d
<1>3. v = [d EXCEPT !.secrets = s]
  BY DEF InForce, View, d
<1> HIDE DEF v, s
<1>4. /\ v = [f \in DOMAIN v |-> v[f]] /\ DOMAIN v = DOMAIN d
      /\ \A f \in DOMAIN d : f # "secrets" => v[f] = d[f]
  BY <1>3
<1>5. {"key", "secrets", "lists", "settings", "mfa", "admin"} \subseteq DOMAIN d
  BY <1>1 DEF IsConfig
<1>6. v.secrets = s /\ v.lists = d.lists
  BY <1>3, <1>4, <1>5
<1>7. IsView(v)
  BY <1>1, <1>4, <1>5, <1>6 DEF IsView, IsConfig
<1>8. v.secrets = IF c.secrets = Null THEN {} ELSE m[1]
  BY <1>1, <1>6 DEF s
<1> QED
  BY <1>1, <1>2, <1>4, <1>6, <1>7, <1>8 DEF v

LEMMA SameSeq ==
  ASSUME NEW p, NEW q, IsSeq(p), IsSeq(q), Len(p) = Len(q), \A i \in 1..Len(p) : p[i] = q[i]
  PROVE  p = q
  BY DEF IsSeq

LEMMA EntriesAreSeq ==
  ASSUME NEW v, IsView(v), NEW l \in Lists
  PROVE  /\ IsSeq(v.lists[l]) /\ DOMAIN v.lists[l] = 1..Len(v.lists[l])
         /\ \A i \in 1..Len(v.lists[l]) : IsEntry(l, v.lists[l][i])
  BY DEF IsView, IsEntries, IsSeq

\* All but the lists in L are the same in two configurations.
Same(c, a, m, d, b, n, L) ==
    /\ \A l \in Lists \ L : /\ d.lists[l].len = c.lists[l].len
                            /\ \A i \in 1..c.lists[l].len : Item(d, l, i, b, n) = Item(c, l, i, a, m)
    /\ DOMAIN d = DOMAIN c
    /\ \A f \in DOMAIN c : f \notin {"secrets", "lists"} => d[f] = c[f]
    /\ d.secrets = c.secrets /\ n[1] = m[1]

Good(c, a, m) == HeapIn(a, m) /\ ConfigIn(c, a, m) /\ m[1] # Null

LEMMA ListsReplaced ==
  ASSUME NEW c, NEW a, NEW m, Good(c, a, m), NEW d, NEW b, NEW n, Good(d, b, n),
         NEW L, Same(c, a, m, d, b, n, L)
  PROVE  LET v == InForce(c, a, m)
             w == InForce(d, b, n)
         IN  /\ IsView(v) /\ IsView(w) /\ DOMAIN w = DOMAIN v
             /\ \A f \in DOMAIN v : f # "lists" => w[f] = v[f]
             /\ \A l \in Lists \ L : w.lists[l] = v.lists[l]
<1> DEFINE v == InForce(c, a, m)
           w == InForce(d, b, n)
<1>1. /\ IsView(v) /\ DOMAIN v = DOMAIN c
      /\ \A f \in DOMAIN c : f \notin {"secrets", "lists"} => v[f] = c[f]
      /\ v.secrets = IF c.secrets = Null THEN {} ELSE m[1]
      /\ \A l \in Lists : /\ Len(v.lists[l]) = c.lists[l].len
                          /\ \A i \in 1..c.lists[l].len : v.lists[l][i] = Item(c, l, i, a, m)
  BY ViewIs DEF Good
<1>2. /\ IsView(w) /\ DOMAIN w = DOMAIN d
      /\ \A f \in DOMAIN d : f \notin {"secrets", "lists"} => w[f] = d[f]
      /\ w.secrets = IF d.secrets = Null THEN {} ELSE n[1]
      /\ \A l \in Lists : /\ Len(w.lists[l]) = d.lists[l].len
                          /\ \A i \in 1..d.lists[l].len : w.lists[l][i] = Item(d, l, i, b, n)
  BY ViewIs DEF Good
<1> HIDE DEF v, w
<1>3. w.secrets = v.secrets /\ DOMAIN w = DOMAIN v
  BY <1>1, <1>2 DEF Same
<1>4. \A f \in DOMAIN v : f # "lists" => w[f] = v[f]
  BY <1>1, <1>2, <1>3 DEF Same
<1>5. ASSUME NEW l \in Lists \ L PROVE w.lists[l] = v.lists[l]
  <2>1. IsSeq(v.lists[l]) /\ IsSeq(w.lists[l])
    BY <1>1, <1>2, EntriesAreSeq
  <2>2. Len(w.lists[l]) = Len(v.lists[l])
    BY <1>1, <1>2 DEF Same
  <2>3. \A i \in 1..Len(w.lists[l]) : w.lists[l][i] = v.lists[l][i]
    BY <1>1, <1>2 DEF Same
  <2> QED
    BY <2>1, <2>2, <2>3, SameSeq
<1> QED
  BY <1>1, <1>2, <1>3, <1>4, <1>5 DEF v, w

LEMMA SameView ==
  ASSUME NEW c, NEW a, NEW m, Good(c, a, m), NEW d, NEW b, NEW n, Good(d, b, n),
         Same(c, a, m, d, b, n, {})
  PROVE  InForce(d, b, n) = InForce(c, a, m)
<1> DEFINE v == InForce(c, a, m)
           w == InForce(d, b, n)
<1>1. /\ IsView(v) /\ IsView(w) /\ DOMAIN w = DOMAIN v
      /\ \A f \in DOMAIN v : f # "lists" => w[f] = v[f]
      /\ \A l \in Lists \ {} : w.lists[l] = v.lists[l]
  BY ListsReplaced
<1> HIDE DEF v, w
<1>2. w.lists = v.lists
  BY <1>1 DEF IsView
<1>3. w = v
  BY <1>1, <1>2 DEF IsView
<1> QED
  BY <1>3 DEF v, w

LEMMA OneReplaced ==
  ASSUME NEW c, NEW a, NEW m, Good(c, a, m), NEW d, NEW b, NEW n, Good(d, b, n),
         NEW l \in Lists, Same(c, a, m, d, b, n, {l})
  PROVE  InForce(d, b, n) = [InForce(c, a, m) EXCEPT !.lists[l] = InForce(d, b, n).lists[l]]
<1> DEFINE v == InForce(c, a, m)
           w == InForce(d, b, n)
           q == w.lists[l]
           u == [v EXCEPT !.lists[l] = q]
<1>1. /\ IsView(v) /\ IsView(w) /\ DOMAIN w = DOMAIN v
      /\ \A f \in DOMAIN v : f # "lists" => w[f] = v[f]
      /\ \A k \in Lists \ {l} : w.lists[k] = v.lists[k]
  BY ListsReplaced
<1> HIDE DEF v, w
<1>2. w.lists = [v.lists EXCEPT ![l] = q]
  BY <1>1 DEF IsView
<1>3. u = [v EXCEPT !.lists = w.lists]
  BY <1>1, <1>2 DEF IsView
<1> HIDE DEF u
<1>4. w = u
  BY <1>1, <1>3 DEF IsView
<1> QED
  BY <1>4 DEF u, v, w

-----------------------------------------------------------------------------
(* What the ways to change a list do to the values.                        *)

\* The entries of a list that grew, and the arrays it did not touch.
LEMMA AppendedIs ==
  ASSUME HeapIn(arrays, maps), NEW l, NEW s, SliceIn(s, l, arrays, maps), NEW e, NEW new, new = Appended(s, e)
  PROVE  /\ new.slice.len = s.len + 1
         /\ \A i \in 1..s.len : new.arrays[new.slice.arr][i] = arrays[s.arr][i]
         /\ new.arrays[new.slice.arr][s.len + 1] = e
         /\ \A x \in 1..Len(arrays) : \A i \in 1..Len(arrays[x]) :
               x # s.arr \/ i # s.len + 1 => new.arrays[x][i] = arrays[x][i]
<1> DEFINE arr == arrays[s.arr]
           v == [arr EXCEPT ![s.len + 1] = e]
           b == [arrays EXCEPT ![s.arr] = v]
           q == Append(Elems(arrays, s), e)
<1>1. /\ IsSeq(arrays) /\ Len(arrays) \in Nat /\ s.arr \in 1..Len(arrays)
      /\ IsSeq(arr) /\ Len(arr) \in Nat /\ s.len \in 0..Len(arr)
      /\ s = [arr |-> s.arr, len |-> s.len]
  BY DEF HeapIn, SliceIn, IsSeq
<1>2. CASE s.len < Len(arr)
  <2>1. new.arrays = b /\ new.slice = [s EXCEPT !.len = @ + 1]
    BY <1>2 DEF Appended
  <2>2. new.slice.arr = s.arr /\ new.slice.len = s.len + 1
    BY <1>1, <2>1
  <2>3. \A i \in 1..Len(arr) : v[i] = IF i = s.len + 1 THEN e ELSE arr[i]
    BY <1>1 DEF IsSeq
  <2>4. \A x \in 1..Len(arrays) : b[x] = IF x = s.arr THEN v ELSE arrays[x]
    BY <1>1 DEF IsSeq
  <2> HIDE DEF v, b
  <2>5. \A i \in 1..s.len : i \in 1..Len(arr) /\ i # s.len + 1
    BY <1>1
  <2>6. s.len + 1 \in 1..Len(arr)
    BY <1>1, <1>2
  <2>7. /\ \A i \in 1..s.len : b[s.arr][i] = arrays[s.arr][i]
        /\ b[s.arr][s.len + 1] = e
    BY <1>1, <2>3, <2>4, <2>5, <2>6
  <2>8. \A x \in 1..Len(arrays) : \A i \in 1..Len(arrays[x]) :
               x # s.arr \/ i # s.len + 1 => b[x][i] = arrays[x][i]
    BY <2>3, <2>4
  <2> QED
    BY <2>1, <2>2, <2>7, <2>8
<1>3. CASE ~(s.len < Len(arr))
  <2>1. /\ IsSeq(Elems(arrays, s)) /\ Len(Elems(arrays, s)) = s.len
        /\ \A i \in 1..s.len : Elems(arrays, s)[i] = arr[i]
    BY ElemsIs
  <2>2. /\ IsSeq(q) /\ Len(q) = s.len + 1 /\ q[s.len + 1] = e
        /\ \A i \in 1..s.len : q[i] = arr[i]
    BY <2>1, SeqAppend
  <2>3. new.arrays = Append(arrays, Padded(q)) /\ new.slice = [arr |-> Len(arrays) + 1, len |-> s.len + 1]
    BY <1>3 DEF Appended
  <2> HIDE DEF q
  <2>4. \A i \in 1..(s.len + 1) : Padded(q)[i] = q[i]
    BY <2>2, PaddedIs
  <2>5. /\ \A x \in 1..Len(arrays) : new.arrays[x] = arrays[x]
        /\ new.arrays[Len(arrays) + 1] = Padded(q)
    BY <1>1, <2>3, SeqAppend
  <2>6. new.slice.arr = Len(arrays) + 1 /\ new.slice.len = s.len + 1
    BY <2>3
  <2>7. s.len + 1 \in 1..(s.len + 1) /\ \A i \in 1..s.len : i \in 1..(s.len + 1)
    BY <1>1
  <2> QED
    BY <2>2, <2>4, <2>5, <2>6, <2>7
<1> QED
  BY <1>2, <1>3

\* More maps do not change what is stored of an entry.
LEMMA StoredSame ==
  ASSUME NEW l, NEW e, EntryIn(l, e, maps), NEW n, \A i \in 1..Len(maps) : i >= 2 => n[i] = maps[i],
         HeapIn(arrays, maps)
  PROVE  StoredEntry(l, e, n) = StoredEntry(l, e, maps)
  BY DEF StoredEntry, EntryIn, HeapIn, IsSeq

\* The lists of a copy lie within the arrays.
LEMMA WithinArrays ==
  ASSUME NEW c, NEW a, NEW m, HeapIn(a, m), ConfigIn(c, a, m), NEW l \in Lists, NEW i \in 1..c.lists[l].len
  PROVE  /\ c.lists[l].arr \in 1..Len(a) /\ i \in 1..Len(a[c.lists[l].arr])
         /\ EntryIn(l, a[c.lists[l].arr][i], m)
<1>1. SliceIn(c.lists[l], l, a, m)
  BY DEF ConfigIn
<1>2. c.lists[l].arr \in 1..Len(a) /\ Len(a[c.lists[l].arr]) \in Nat
  BY <1>1 DEF SliceIn, HeapIn, IsSeq
<1> QED
  BY <1>1, <1>2 DEF SliceIn

\* The copy c with slice s for its list l.
WithList(c, l, s) == [c EXCEPT !.lists[l] = s]

LEMMA WithListIs ==
  ASSUME NEW c, NEW a, NEW m, ConfigIn(c, a, m), NEW l \in Lists, NEW s, NEW d, d = WithList(c, l, s)
  PROVE  /\ DOMAIN d = DOMAIN c /\ d.lists[l] = s
         /\ \A k \in Lists \ {l} : d.lists[k] = c.lists[k]
         /\ \A f \in DOMAIN c : f \notin {"secrets", "lists"} => d[f] = c[f]
         /\ d.secrets = c.secrets
<1>1. {"key", "secrets", "lists", "settings", "mfa", "admin"} \subseteq DOMAIN c /\ DOMAIN c.lists = Lists
  BY DEF ConfigIn
<1> QED
  BY <1>1 DEF WithList

\* The value v with entries q for list l.
ListValue(v, l, q) == [v EXCEPT !.lists[l] = q]

\* An append changes nothing in force, and adds one entry to the copy.
LEMMA AppendValue ==
  ASSUME Good(mem, arrays, maps), Apart(mem, mem), NEW l \in Lists, NEW e, NEW new, new = Appended(mem.lists[l], e),
         NEW b, b = new.arrays, NEW d, d = WithList(mem, l, new.slice),
         NEW n, n[1] = maps[1], \A i \in 1..Len(maps) : i >= 2 => n[i] = maps[i],
         Good(mem, b, n), Good(d, b, n)
  PROVE  /\ InForce(mem, b, n) = InForce(mem, arrays, maps)
         /\ LET v == InForce(mem, arrays, maps)
            IN  InForce(d, b, n) = ListValue(v, l, Append(v.lists[l], StoredEntry(l, e, n)))
<1> DEFINE s == mem.lists[l]
           v == InForce(mem, arrays, maps)
           w == InForce(d, b, n)
<1>1. HeapIn(arrays, maps) /\ ConfigIn(mem, arrays, maps) /\ SliceIn(s, l, arrays, maps)
  BY DEF Good, ConfigIn
<1>2. /\ new.slice.len = s.len + 1
      /\ \A i \in 1..s.len : b[new.slice.arr][i] = arrays[s.arr][i]
      /\ b[new.slice.arr][s.len + 1] = e
      /\ \A x \in 1..Len(arrays) : \A i \in 1..Len(arrays[x]) :
            x # s.arr \/ i # s.len + 1 => b[x][i] = arrays[x][i]
  <2>1. new = Appended(s, e) /\ b = new.arrays
    OBVIOUS
  <2> QED
    BY ONLY <1>1, <2>1, AppendedIs
<1>3. s.len \in Nat
  BY <1>1 DEF SliceIn, HeapIn, IsSeq
<1>4. ASSUME NEW k \in Lists, NEW i \in 1..mem.lists[k].len
      PROVE  /\ b[mem.lists[k].arr][i] = arrays[mem.lists[k].arr][i]
             /\ Item(mem, k, i, b, n) = Item(mem, k, i, arrays, maps)
             /\ StoredEntry(k, arrays[mem.lists[k].arr][i], n) = Item(mem, k, i, arrays, maps)
  <2>1. /\ mem.lists[k].arr \in 1..Len(arrays) /\ i \in 1..Len(arrays[mem.lists[k].arr])
        /\ EntryIn(k, arrays[mem.lists[k].arr][i], maps)
    BY <1>1, WithinArrays
  <2>2. mem.lists[k].arr = s.arr => k = l
    BY DEF Apart
  <2>3. mem.lists[k].arr # s.arr \/ i # s.len + 1
    BY <1>3, <2>2
  <2>4. b[mem.lists[k].arr][i] = arrays[mem.lists[k].arr][i]
    BY <1>2, <2>1, <2>3
  <2>5. StoredEntry(k, arrays[mem.lists[k].arr][i], n) = Item(mem, k, i, arrays, maps)
    BY <1>1, <2>1, StoredSame DEF Item
  <2> QED
    BY <2>4, <2>5 DEF Item
<1>5. InForce(mem, b, n) = v
  <2>1. Same(mem, arrays, maps, mem, b, n, {})
    BY <1>4 DEF Same
  <2> QED
    BY <2>1, SameView
<1>6. /\ DOMAIN d = DOMAIN mem /\ d.lists[l] = new.slice
      /\ \A k \in Lists \ {l} : d.lists[k] = mem.lists[k]
      /\ \A f \in DOMAIN mem : f \notin {"secrets", "lists"} => d[f] = mem[f]
      /\ d.secrets = mem.secrets
  BY <1>1, WithListIs
<1>7. Same(mem, arrays, maps, d, b, n, {l})
  <2>1. ASSUME NEW k \in Lists \ {l}, NEW i \in 1..mem.lists[k].len
        PROVE  Item(d, k, i, b, n) = Item(mem, k, i, arrays, maps)
    <3>1. Item(d, k, i, b, n) = Item(mem, k, i, b, n)
      BY <1>6 DEF Item
    <3> QED
      BY <1>4, <3>1
  <2> QED
    BY <1>6, <2>1 DEF Same
<1>8. w = [v EXCEPT !.lists[l] = w.lists[l]]
  BY <1>7, OneReplaced
<1>9. /\ IsView(v) /\ Len(v.lists[l]) = s.len
      /\ \A i \in 1..s.len : v.lists[l][i] = Item(mem, l, i, arrays, maps)
  BY ViewIs DEF Good
<1>10. /\ IsView(w) /\ Len(w.lists[l]) = d.lists[l].len
       /\ \A i \in 1..d.lists[l].len : w.lists[l][i] = Item(d, l, i, b, n)
  <2>1. HeapIn(b, n) /\ ConfigIn(d, b, n) /\ n[1] # Null
    BY DEF Good
  <2> QED
    BY ONLY <2>1, l \in Lists, ViewIs
<1> HIDE DEF v, w
<1>11. w.lists[l] = Append(v.lists[l], StoredEntry(l, e, n))
  <2> DEFINE p == v.lists[l]
             q == w.lists[l]
             x == StoredEntry(l, e, n)
  <2>1. IsSeq(p) /\ IsSeq(q) /\ Len(p) = s.len /\ Len(q) = s.len + 1
    BY <1>2, <1>6, <1>9, <1>10, EntriesAreSeq
  <2>2. /\ IsSeq(Append(p, x)) /\ Len(Append(p, x)) = s.len + 1
        /\ \A i \in 1..s.len : Append(p, x)[i] = p[i]
        /\ Append(p, x)[s.len + 1] = x
    <3> HIDE DEF p, x
    <3> QED
      BY <2>1, SeqAppend
  <2>3. \A i \in 1..(s.len + 1) : i \in 1..s.len \/ i = s.len + 1
    BY <1>3
  <2>4. q[s.len + 1] = x
    <3>1. d.lists[l].len = s.len + 1
      BY <1>2, <1>6
    <3>2. s.len + 1 \in 1..d.lists[l].len
      BY ONLY <1>3, <3>1
    <3>3. q[s.len + 1] = StoredEntry(l, b[new.slice.arr][s.len + 1], n)
      BY <1>6, <1>10, <3>2 DEF Item
    <3> QED
      BY <1>2, <3>3
  <2>5. ASSUME NEW i \in 1..s.len PROVE q[i] = p[i]
    <3>1. d.lists[l].len = s.len + 1 /\ d.lists[l].arr = new.slice.arr
      BY <1>2, <1>6
    <3>2. i \in 1..d.lists[l].len
      BY ONLY <1>3, <3>1, i \in 1..s.len
    <3>3. q[i] = StoredEntry(l, b[new.slice.arr][i], n)
      BY <1>10, <3>1, <3>2 DEF Item
    <3> QED
      BY <1>2, <1>4, <1>9, <3>3
  <2> HIDE DEF p, q, x
  <2>6. \A i \in 1..Len(q) : q[i] = Append(p, x)[i]
    BY <2>1, <2>2, <2>3, <2>4, <2>5
  <2>7. q = Append(p, x)
    BY <2>1, <2>2, <2>6, SameSeq
  <2> QED
    BY <2>7 DEF p, q, x
<1>12. w = ListValue(v, l, Append(v.lists[l], StoredEntry(l, e, n)))
  BY <1>8, <1>11 DEF ListValue
<1> QED
  BY <1>5, <1>12 DEF v, w

\* A field of an entry other than the hosts that silenced it is stored as it is.
LEMMA StoredField ==
  ASSUME NEW l, NEW e, NEW m, EntryIn(l, e, m)
  PROVE  /\ DOMAIN StoredEntry(l, e, m) = Fields[l]
         /\ StoredEntry(l, e, m) = [f \in Fields[l] |-> StoredEntry(l, e, m)[f]]
         /\ \A f \in Fields[l] : f # "silenced" => StoredEntry(l, e, m)[f] = e[f]
         /\ l = "rules" => StoredEntry(l, e, m).silenced = m[e.silenced]
<1>1. e = [f \in Fields[l] |-> e[f]]
  BY DEF EntryIn, IsEntry
<1>2. l = "rules" => "silenced" \in Fields[l]
  BY DEF Fields
<1> QED
  BY <1>1, <1>2 DEF StoredEntry

LEMMA IdIsField == \A l \in Lists : "id" \in Fields[l]
  BY DEF Lists, Fields

\* The operators of AtomicConfig are those of ConfigStore.
LEMMA SameOperators ==
  /\ \A q, id : Abstract!Has(q, id) <=> Has(q, id)
  /\ \A q, id : Abstract!First(q, id) = First(q, id)
  /\ \A q, id : Abstract!Without(q, id) = Without(q, id)
<1>1. \A K : Abstract!Cardinality(K) = Cardinality(K)
  BY DEF Abstract!Cardinality, Cardinality
<1>2. \A K : Abstract!Rank(K) = Rank(K)
  BY <1>1 DEF Abstract!Rank, Rank
<1>3. \A q, id : Abstract!Has(q, id) <=> Has(q, id)
  BY DEF Abstract!Has, Has
<1>4. \A q, id : Abstract!First(q, id) = First(q, id)
  BY DEF Abstract!First, First
<1>5. \A q, id : Abstract!Without(q, id) = Without(q, id)
  BY <1>1, <1>2 DEF Abstract!Without, Without
<1> QED
  BY <1>3, <1>4, <1>5

\* Two lists with the same ids, in the same order.
LEMMA SameIds ==
  ASSUME NEW p, NEW q, IsSeq(p), IsSeq(q), Len(p) = Len(q), \A i \in 1..Len(p) : p[i].id = q[i].id, NEW id
  PROVE  /\ Has(p, id) <=> Has(q, id)
         /\ First(p, id) = First(q, id)
<1>1. DOMAIN p = DOMAIN q /\ DOMAIN p = 1..Len(p) /\ Len(p) \in Nat
  BY DEF IsSeq
<1>2. Has(p, id) <=> Has(q, id)
  BY <1>1 DEF Has
<1>3. \A i \in DOMAIN p : (p[i].id = id /\ \A j \in 1..(i - 1) : p[j].id # id)
                       <=> (q[i].id = id /\ \A j \in 1..(i - 1) : q[j].id # id)
  BY <1>1
<1>4. First(p, id) = First(q, id)
  BY <1>1, <1>3 DEF First
<1> QED
  BY <1>2, <1>4

\* Removing an id picks the same places of both.
LEMMA SamePlaces ==
  ASSUME NEW p, NEW q, IsSeq(p), IsSeq(q), Len(p) = Len(q), \A i \in 1..Len(p) : p[i].id = q[i].id, NEW id
  PROVE  /\ IsSeq(Without(p, id)) /\ IsSeq(Without(q, id)) /\ Len(Without(p, id)) = Len(Without(q, id))
         /\ \E f \in [1..Len(Without(p, id)) -> 1..Len(p)] :
               /\ \A i, j \in 1..Len(Without(p, id)) : f[i] = f[j] => i = j
               /\ \A i \in 1..Len(Without(p, id)) : Without(p, id)[i] = p[f[i]] /\ Without(q, id)[i] = q[f[i]]
<1> DEFINE K == {i \in DOMAIN p : p[i].id # id}
           f == Rank(K)
           n == Cardinality(K)
<1>1. DOMAIN p = DOMAIN q /\ DOMAIN p = 1..Len(p) /\ Len(p) \in Nat
  BY DEF IsSeq
<1>2. K = {i \in DOMAIN q : q[i].id # id} /\ K \subseteq 1..Len(p)
  BY <1>1
<1>3. Without(p, id) = [i \in 1..n |-> p[f[i]]] /\ Without(q, id) = [i \in 1..n |-> q[f[i]]]
  BY <1>2 DEF Without
<1> HIDE DEF K
<1>4. n \in Nat /\ f \in [1..n -> K] /\ \A i, j \in 1..n : i < j => f[i] < f[j]
  BY <1>1, <1>2, RankIs
<1> HIDE DEF f, n
<1>5. /\ IsSeq(Without(p, id)) /\ Len(Without(p, id)) = n
      /\ IsSeq(Without(q, id)) /\ Len(Without(q, id)) = n
  <2>1. /\ Without(p, id) = [i \in 1..n |-> Without(p, id)[i]]
        /\ Without(q, id) = [i \in 1..n |-> Without(q, id)[i]]
    BY <1>3
  <2> QED
    BY <1>4, <2>1, SeqIs
<1>6. ASSUME NEW i \in 1..n, NEW j \in 1..n, f[i] = f[j] PROVE i = j
  <2>1. f[i] \in Nat /\ f[j] \in Nat
    BY <1>2, <1>4
  <2>2. ~(f[i] < f[j]) /\ ~(f[j] < f[i])
    BY <1>6, <2>1
  <2>3. ~(i < j) /\ ~(j < i)
    BY <1>4, <2>2
  <2> QED
    BY <1>4, <2>3
<1>7. f \in [1..n -> 1..Len(p)]
  BY <1>2, <1>4
<1>8. \A i \in 1..n : Without(p, id)[i] = p[f[i]] /\ Without(q, id)[i] = q[f[i]]
  BY <1>3
<1> QED
  BY <1>5, <1>6, <1>7, <1>8

\* The list of a copy, and the list in force, entry by entry.
LEMMA ListIs ==
  ASSUME NEW c, NEW a, NEW m, Good(c, a, m), NEW l \in Lists
  PROVE  LET p == Elems(a, c.lists[l])
             q == InForce(c, a, m).lists[l]
         IN  /\ IsSeq(p) /\ IsSeq(q) /\ Len(p) = c.lists[l].len /\ Len(q) = c.lists[l].len
             /\ \A i \in 1..c.lists[l].len :
                   /\ p[i] = a[c.lists[l].arr][i] /\ EntryIn(l, p[i], m)
                   /\ q[i] = Item(c, l, i, a, m) /\ q[i] = StoredEntry(l, p[i], m)
                   /\ q[i].id = p[i].id
<1> DEFINE p == Elems(a, c.lists[l])
           v == InForce(c, a, m)
           q == v.lists[l]
<1>1. HeapIn(a, m) /\ SliceIn(c.lists[l], l, a, m)
  BY DEF Good, ConfigIn
<1>2. /\ IsSeq(p) /\ Len(p) = c.lists[l].len
      /\ \A i \in 1..c.lists[l].len : p[i] = a[c.lists[l].arr][i] /\ EntryIn(l, p[i], m)
  BY <1>1, ElemsIs
<1>3. /\ IsView(v) /\ Len(q) = c.lists[l].len
      /\ \A i \in 1..c.lists[l].len : q[i] = Item(c, l, i, a, m)
  BY ViewIs DEF Good
<1>4. IsSeq(q)
  BY <1>3, EntriesAreSeq
<1> HIDE DEF p, v
<1>5. \A i \in 1..c.lists[l].len : q[i] = StoredEntry(l, p[i], m)
  BY <1>2, <1>3 DEF Item
<1>6. \A i \in 1..c.lists[l].len : q[i].id = p[i].id
  BY <1>2, <1>5, StoredField, IdIsField
<1> QED
  BY <1>2, <1>3, <1>4, <1>5, <1>6 DEF p, v

LEMMA RebuiltIs ==
  ASSUME HeapIn(arrays, maps), NEW q, IsSeq(q), NEW new, new = Rebuilt(q)
  PROVE  /\ new.slice.len = Len(q) /\ new.slice.arr = Len(arrays) + 1
         /\ \A i \in 1..Len(q) : new.arrays[new.slice.arr][i] = q[i]
         /\ \A x \in 1..Len(arrays) : new.arrays[x] = arrays[x]
<1>1. new.arrays = Append(arrays, Padded(q)) /\ new.slice = [arr |-> Len(arrays) + 1, len |-> Len(q)]
  BY DEF Rebuilt
<1>2. \A i \in 1..Len(q) : Padded(q)[i] = q[i]
  BY PaddedIs
<1>3. /\ \A x \in 1..Len(arrays) : new.arrays[x] = arrays[x]
      /\ new.arrays[Len(arrays) + 1] = Padded(q)
  BY <1>1, SeqAppend DEF HeapIn
<1> QED
  BY <1>1, <1>2, <1>3

\* A rebuilt list changes nothing in force, and takes the entry out of the copy.
LEMMA RemoveValue ==
  ASSUME Good(mem, arrays, maps), NEW l \in Lists, NEW id,
         NEW new, new = Rebuilt(Without(Elems(arrays, mem.lists[l]), id)),
         NEW b, b = new.arrays, NEW d, d = WithList(mem, l, new.slice), Good(mem, b, maps), Good(d, b, maps)
  PROVE  /\ InForce(mem, b, maps) = InForce(mem, arrays, maps)
         /\ LET v == InForce(mem, arrays, maps)
            IN  InForce(d, b, maps) = ListValue(v, l, Without(v.lists[l], id))
<1> DEFINE p == Elems(arrays, mem.lists[l])
           v == InForce(mem, arrays, maps)
           w == InForce(d, b, maps)
           q == v.lists[l]
           t == w.lists[l]
<1>1. HeapIn(arrays, maps) /\ ConfigIn(mem, arrays, maps)
  BY DEF Good
<1>2. /\ IsSeq(p) /\ IsSeq(q) /\ Len(p) = Len(q)
      /\ \A i \in 1..Len(p) : q[i] = StoredEntry(l, p[i], maps) /\ q[i].id = p[i].id
  BY ListIs
<1> HIDE DEF p, v
<1>3. /\ IsSeq(Without(p, id)) /\ IsSeq(Without(q, id)) /\ Len(Without(p, id)) = Len(Without(q, id))
      /\ \A i \in 1..Len(Without(p, id)) : Without(q, id)[i] = StoredEntry(l, Without(p, id)[i], maps)
  <2>1. \A i \in 1..Len(p) : p[i].id = q[i].id
    BY <1>2
  <2> HIDE DEF q
  <2>4. IsSeq(p) /\ IsSeq(q) /\ Len(p) = Len(q)
    BY <1>2
  <2>2. PICK f \in [1..Len(Without(p, id)) -> 1..Len(p)] :
               /\ \A i, j \in 1..Len(Without(p, id)) : f[i] = f[j] => i = j
               /\ \A i \in 1..Len(Without(p, id)) : Without(p, id)[i] = p[f[i]] /\ Without(q, id)[i] = q[f[i]]
    BY ONLY <2>1, <2>4, SamePlaces
  <2>3. IsSeq(Without(p, id)) /\ IsSeq(Without(q, id)) /\ Len(Without(p, id)) = Len(Without(q, id))
    BY <1>2, <2>1, SamePlaces
  <2> QED
    BY <1>2, <2>2, <2>3
<1>4. /\ new.slice.len = Len(Without(p, id)) /\ new.slice.arr = Len(arrays) + 1
      /\ \A i \in 1..Len(Without(p, id)) : b[new.slice.arr][i] = Without(p, id)[i]
      /\ \A x \in 1..Len(arrays) : b[x] = arrays[x]
  <2>1. new = Rebuilt(Without(p, id)) /\ b = new.arrays
    BY DEF p
  <2> QED
    BY ONLY <1>1, <1>3, <2>1, RebuiltIs
<1>5. \A k \in Lists : \A i \in 1..mem.lists[k].len : Item(mem, k, i, b, maps) = Item(mem, k, i, arrays, maps)
  BY <1>1, <1>4, WithinArrays DEF Item
<1>6. InForce(mem, b, maps) = v
  <2>1. Same(mem, arrays, maps, mem, b, maps, {})
    BY <1>5 DEF Same
  <2> QED
    BY <2>1, SameView DEF v
<1>7. /\ DOMAIN d = DOMAIN mem /\ d.lists[l] = new.slice
      /\ \A k \in Lists \ {l} : d.lists[k] = mem.lists[k]
      /\ \A f \in DOMAIN mem : f \notin {"secrets", "lists"} => d[f] = mem[f]
      /\ d.secrets = mem.secrets
  BY <1>1, WithListIs
<1>8. Same(mem, arrays, maps, d, b, maps, {l})
  <2>1. ASSUME NEW k \in Lists \ {l}, NEW i \in 1..mem.lists[k].len
        PROVE  Item(d, k, i, b, maps) = Item(mem, k, i, arrays, maps)
    <3>1. Item(d, k, i, b, maps) = Item(mem, k, i, b, maps)
      BY <1>7 DEF Item
    <3> QED
      BY <1>5, <3>1
  <2> QED
    BY <1>7, <2>1 DEF Same
<1>9. w = [v EXCEPT !.lists[l] = t]
  BY <1>8, OneReplaced DEF v
<1>10. IsSeq(t) /\ Len(t) = d.lists[l].len /\ \A i \in 1..d.lists[l].len : t[i] = Item(d, l, i, b, maps)
  <2>1. Good(d, b, maps)
    OBVIOUS
  <2> QED
    BY ONLY <2>1, l \in Lists, ListIs
<1> HIDE DEF w
<1>11. t = Without(q, id)
  <2>1. Len(t) = Len(Without(q, id))
    BY <1>3, <1>4, <1>7, <1>10
  <2>2. ASSUME NEW i \in 1..Len(t) PROVE t[i] = Without(q, id)[i]
    <3>1. i \in 1..d.lists[l].len /\ i \in 1..Len(Without(p, id))
      BY <1>4, <1>7, <1>10
    <3>2. t[i] = StoredEntry(l, b[d.lists[l].arr][i], maps)
      BY <1>10, <3>1 DEF Item
    <3>3. b[d.lists[l].arr][i] = Without(p, id)[i]
      BY <1>4, <1>7, <3>1
    <3> QED
      BY <1>3, <3>1, <3>2, <3>3
  <2> QED
    BY <1>3, <1>10, <2>1, <2>2, SameSeq
<1>12. w = ListValue(v, l, Without(v.lists[l], id))
  BY <1>9, <1>11 DEF ListValue
<1> QED
  BY <1>6, <1>12 DEF v, w

\* One entry exchanged in place.
LEMMA ReplaceValue ==
  ASSUME Good(mem, arrays, maps), NEW b, NEW n, Good(mem, b, n), n[1] = maps[1],
         NEW l \in Lists, NEW j \in 1..mem.lists[l].len, NEW e, Item(mem, l, j, b, n) = e,
         \A k \in Lists : \A i \in 1..mem.lists[k].len :
            k # l \/ i # j => Item(mem, k, i, b, n) = Item(mem, k, i, arrays, maps)
  PROVE  InForce(mem, b, n) = [InForce(mem, arrays, maps) EXCEPT !.lists[l] = [@ EXCEPT ![j] = e]]
<1> DEFINE v == InForce(mem, arrays, maps)
           w == InForce(mem, b, n)
           q == v.lists[l]
           t == w.lists[l]
           u == [q EXCEPT ![j] = e]
<1>1. Same(mem, arrays, maps, mem, b, n, {l})
  BY DEF Same
<1>2. w = [v EXCEPT !.lists[l] = t]
  BY <1>1, OneReplaced
<1>3. /\ IsSeq(q) /\ Len(q) = mem.lists[l].len
      /\ \A i \in 1..mem.lists[l].len : q[i] = Item(mem, l, i, arrays, maps)
  BY ListIs
<1>4. /\ IsSeq(t) /\ Len(t) = mem.lists[l].len
      /\ \A i \in 1..mem.lists[l].len : t[i] = Item(mem, l, i, b, n)
  BY ListIs
<1> HIDE DEF v, w
<1>5. IsSeq(u) /\ Len(u) = Len(q) /\ \A i \in 1..Len(q) : u[i] = IF i = j THEN e ELSE q[i]
  <2>1. u = [q EXCEPT ![j] = e]
    OBVIOUS
  <2>2. IsSeq(q)
    BY <1>3
  <2> HIDE DEF u, q
  <2>3. IsSeq(u) /\ Len(u) = Len(q)
    BY ONLY <2>1, <2>2, SeqExcept
  <2>4. \A i \in 1..Len(q) : u[i] = IF i = j THEN e ELSE q[i]
    BY ONLY <2>1, <2>2, SeqExcept
  <2> QED
    BY <2>3, <2>4
<1>6. t = u
  <2>1. \A i \in 1..Len(t) : t[i] = u[i]
    BY <1>3, <1>4, <1>5
  <2> HIDE DEF t, u
  <2> QED
    BY <1>3, <1>4, <1>5, <2>1, SameSeq
<1>7. w = [v EXCEPT !.lists[l] = [@ EXCEPT ![j] = e]]
  BY <1>2, <1>6
<1> QED
  BY <1>7 DEF v, w

\* Another field of one entry.
LEMMA NestedExcept ==
  ASSUME NEW v, NEW l, NEW j, NEW f, NEW x
  PROVE  [v EXCEPT !.lists[l][j][f] = x] =
         [v EXCEPT !.lists[l] = [@ EXCEPT ![j] = [v.lists[l][j] EXCEPT ![f] = x]]]
  OBVIOUS

\* The value v with x for field f of the j-th entry of list l.
FieldSet(v, l, j, f, x) == [v EXCEPT !.lists[l][j][f] = x]

\* The arrays a with x for field f of the j-th element of the slice s.
FieldWritten(a, s, j, f, x) == [a EXCEPT ![s.arr][j][f] = x]

\* A field changed in place changes that field in force.
LEMMA FieldValue ==
  ASSUME Good(mem, arrays, maps), Apart(mem, mem), NEW l \in Lists, NEW id, Has(Elems(arrays, mem.lists[l]), id),
         NEW j, j = First(Elems(arrays, mem.lists[l]), id), NEW f, f # "silenced", NEW x,
         NEW b, b = FieldWritten(arrays, mem.lists[l], j, f, x), Good(mem, b, maps)
  PROVE  LET q == InForce(mem, arrays, maps).lists[l]
         IN  /\ Has(q, id) /\ First(q, id) = j /\ j \in 1..mem.lists[l].len
             /\ InForce(mem, b, maps) = FieldSet(InForce(mem, arrays, maps), l, j, f, x)
<1> DEFINE s == mem.lists[l]
           p == Elems(arrays, s)
           v == InForce(mem, arrays, maps)
           q == v.lists[l]
           o == arrays[s.arr][j]
           d == [o EXCEPT ![f] = x]
           arr == [arrays[s.arr] EXCEPT ![j] = d]
<1>1. /\ IsSeq(p) /\ IsSeq(q) /\ Len(p) = s.len /\ Len(q) = s.len
      /\ \A i \in 1..s.len : /\ p[i] = arrays[s.arr][i] /\ EntryIn(l, p[i], maps)
                             /\ q[i] = Item(mem, l, i, arrays, maps) /\ q[i] = StoredEntry(l, p[i], maps)
                             /\ q[i].id = p[i].id
  <2>1. Good(mem, arrays, maps) /\ l \in Lists
    OBVIOUS
  <2> QED
    BY ONLY <2>1, ListIs
<1> HIDE DEF p, v
<1>2. j \in 1..s.len
  BY <1>1, FirstIs DEF p
<1>3. Has(q, id) /\ First(q, id) = j
  <2>1. Len(p) = Len(q) /\ \A i \in 1..Len(p) : p[i].id = q[i].id
    BY <1>1
  <2> HIDE DEF q
  <2> QED
    BY <1>1, <2>1, SameIds DEF p
<1>4. HeapIn(arrays, maps) /\ ConfigIn(mem, arrays, maps)
  BY DEF Good
<1>5. EntryIn(l, o, maps) /\ q[j] = StoredEntry(l, o, maps)
  BY <1>1, <1>2
<1>6. StoredEntry(l, d, maps) = [q[j] EXCEPT ![f] = x]
  <2>1. d = [o EXCEPT ![f] = x]
    OBVIOUS
  <2> DEFINE y == StoredEntry(l, d, maps)
             z == StoredEntry(l, o, maps)
  <2> HIDE DEF d, o, q
  <2>2. EntryIn(l, d, maps)
    BY <1>5, <2>1, EntryExcept
  <2>3. d = [g \in Fields[l] |-> d[g]] /\ o = [g \in Fields[l] |-> o[g]]
    BY <1>5, <2>2 DEF EntryIn, IsEntry
  <2>4. \A g \in Fields[l] : d[g] = IF g = f THEN x ELSE o[g]
    BY <2>1, <2>3
  <2>5. /\ y = [g \in Fields[l] |-> y[g]]
        /\ \A g \in Fields[l] : g # "silenced" => y[g] = d[g]
        /\ l = "rules" => y.silenced = maps[d.silenced]
    BY <2>2, StoredField
  <2>6. /\ z = [g \in Fields[l] |-> z[g]]
        /\ \A g \in Fields[l] : g # "silenced" => z[g] = o[g]
        /\ l = "rules" => z.silenced = maps[o.silenced]
    BY <1>5, StoredField
  <2> HIDE DEF y, z
  <2>7. "silenced" \in Fields[l] => l = "rules"
    BY DEF Lists, Fields
  <2>8. \A g \in Fields[l] : y[g] = IF g = f THEN x ELSE z[g]
    BY <2>4, <2>5, <2>6, <2>7
  <2>9. y = [z EXCEPT ![f] = x]
    BY <2>5, <2>6, <2>8
  <2> QED
    BY <1>5, <2>9 DEF y, z
<1>7. b = [arrays EXCEPT ![s.arr] = arr]
  BY DEF FieldWritten
<1> HIDE DEF d
<1>8. /\ IsSeq(arrays) /\ IsSeq(arrays[s.arr]) /\ s.arr \in 1..Len(arrays) /\ j \in 1..Len(arrays[s.arr])
  BY <1>2, <1>4, WithinArrays DEF HeapIn
<1>9. \A i \in 1..Len(arrays[s.arr]) : arr[i] = IF i = j THEN d ELSE arrays[s.arr][i]
  BY <1>8 DEF IsSeq
<1> HIDE DEF arr
<1>10. \A y \in 1..Len(arrays) : b[y] = IF y = s.arr THEN arr ELSE arrays[y]
  BY <1>7, <1>8 DEF IsSeq
<1>11. Item(mem, l, j, b, maps) = [q[j] EXCEPT ![f] = x]
  BY <1>6, <1>8, <1>9, <1>10 DEF Item
<1>12. ASSUME NEW k \in Lists, NEW i \in 1..mem.lists[k].len, k # l \/ i # j
       PROVE  Item(mem, k, i, b, maps) = Item(mem, k, i, arrays, maps)
  <2>1. mem.lists[k].arr \in 1..Len(arrays) /\ i \in 1..Len(arrays[mem.lists[k].arr])
    BY <1>4, WithinArrays
  <2>2. mem.lists[k].arr = s.arr => k = l
    BY DEF Apart
  <2>3. b[mem.lists[k].arr][i] = arrays[mem.lists[k].arr][i]
    BY <1>9, <1>10, <1>12, <2>1, <2>2
  <2> QED
    BY <2>3 DEF Item
<1>13. InForce(mem, b, maps) = [v EXCEPT !.lists[l] = [@ EXCEPT ![j] = [q[j] EXCEPT ![f] = x]]]
  <2> DEFINE e == [q[j] EXCEPT ![f] = x]
  <2>1. Item(mem, l, j, b, maps) = e
    BY <1>11
  <2> HIDE DEF e
  <2>3. \A k \in Lists : \A i \in 1..mem.lists[k].len :
            k # l \/ i # j => Item(mem, k, i, b, maps) = Item(mem, k, i, arrays, maps)
    BY <1>12
  <2>4. Good(mem, arrays, maps) /\ Good(mem, b, maps) /\ l \in Lists /\ j \in 1..mem.lists[l].len /\ maps[1] = maps[1]
    BY <1>2
  <2>2. InForce(mem, b, maps) = [v EXCEPT !.lists[l] = [@ EXCEPT ![j] = e]]
    BY ONLY <2>1, <2>3, <2>4, ReplaceValue DEF v
  <2> QED
    BY <2>2 DEF e
<1>14. InForce(mem, b, maps) = FieldSet(v, l, j, f, x)
  BY <1>13, NestedExcept DEF FieldSet
<1> QED
  BY <1>2, <1>3, <1>14 DEF v

\* The settings and the second factor are values of the copy itself.
LEMMA ScalarValue ==
  ASSUME Good(mem, arrays, maps), NEW f \in {"settings", "mfa", "admin"}, NEW x, NEW d, d = [mem EXCEPT ![f] = x],
         Good(d, arrays, maps)
  PROVE  InForce(d, arrays, maps) = [InForce(mem, arrays, maps) EXCEPT ![f] = x]
<1> DEFINE v == InForce(mem, arrays, maps)
           w == InForce(d, arrays, maps)
<1>1. {"key", "secrets", "lists", "settings", "mfa", "admin"} \subseteq DOMAIN mem
  BY DEF Good, ConfigIn
<1>2. /\ DOMAIN d = DOMAIN mem /\ d.lists = mem.lists /\ d.secrets = mem.secrets
      /\ \A g \in DOMAIN mem : d[g] = IF g = f THEN x ELSE mem[g]
  BY <1>1
<1>3. /\ IsView(v) /\ DOMAIN v = DOMAIN mem
      /\ \A g \in DOMAIN mem : g \notin {"secrets", "lists"} => v[g] = mem[g]
      /\ v.secrets = IF mem.secrets = Null THEN {} ELSE maps[1]
      /\ \A l \in Lists : /\ Len(v.lists[l]) = mem.lists[l].len
                          /\ \A i \in 1..mem.lists[l].len : v.lists[l][i] = Item(mem, l, i, arrays, maps)
  BY ViewIs DEF Good
<1>4. /\ IsView(w) /\ DOMAIN w = DOMAIN d
      /\ \A g \in DOMAIN d : g \notin {"secrets", "lists"} => w[g] = d[g]
      /\ w.secrets = IF d.secrets = Null THEN {} ELSE maps[1]
      /\ \A l \in Lists : /\ Len(w.lists[l]) = d.lists[l].len
                          /\ \A i \in 1..d.lists[l].len : w.lists[l][i] = Item(d, l, i, arrays, maps)
  <2>1. HeapIn(arrays, maps) /\ ConfigIn(d, arrays, maps) /\ maps[1] # Null
    BY DEF Good
  <2> QED
    BY ONLY <2>1, ViewIs
<1> HIDE DEF v, w
<1>5. ASSUME NEW l \in Lists PROVE w.lists[l] = v.lists[l]
  <2>1. IsSeq(v.lists[l]) /\ IsSeq(w.lists[l])
    BY <1>3, <1>4, EntriesAreSeq
  <2>2. Len(w.lists[l]) = Len(v.lists[l])
    BY <1>2, <1>3, <1>4
  <2>3. \A i \in 1..Len(w.lists[l]) : w.lists[l][i] = v.lists[l][i]
    BY <1>2, <1>3, <1>4 DEF Item
  <2> QED
    BY <2>1, <2>2, <2>3, SameSeq
<1>6. w.lists = v.lists /\ w.secrets = v.secrets
  BY <1>2, <1>3, <1>4, <1>5 DEF IsView
<1>7. \A g \in DOMAIN w : w[g] = IF g = f THEN x ELSE v[g]
  BY <1>2, <1>3, <1>4, <1>6
<1>8. w = [v EXCEPT ![f] = x]
  BY <1>2, <1>3, <1>4, <1>7 DEF IsView
<1> QED
  BY <1>8 DEF v, w

\* A registration is an element of the map of secrets, which no rule uses.
LEMMA RegisterValue ==
  ASSUME Good(mem, arrays, maps), mem.secrets # Null, NEW h,
         NEW n, n = [maps EXCEPT ![1] = @ \cup {h}], Good(mem, arrays, n)
  PROVE  InForce(mem, arrays, n) = [InForce(mem, arrays, maps) EXCEPT !.secrets = @ \cup {h}]
<1> DEFINE v == InForce(mem, arrays, maps)
           w == InForce(mem, arrays, n)
<1>1. HeapIn(arrays, maps) /\ ConfigIn(mem, arrays, maps)
  BY DEF Good
<1>2. n[1] = maps[1] \cup {h} /\ \A i \in 1..Len(maps) : i >= 2 => n[i] = maps[i]
  BY <1>1 DEF HeapIn, IsSeq
<1>3. /\ IsView(v) /\ DOMAIN v = DOMAIN mem
      /\ \A g \in DOMAIN mem : g \notin {"secrets", "lists"} => v[g] = mem[g]
      /\ v.secrets = IF mem.secrets = Null THEN {} ELSE maps[1]
      /\ \A l \in Lists : /\ Len(v.lists[l]) = mem.lists[l].len
                          /\ \A i \in 1..mem.lists[l].len : v.lists[l][i] = Item(mem, l, i, arrays, maps)
  BY ViewIs DEF Good
<1>4. /\ IsView(w) /\ DOMAIN w = DOMAIN mem
      /\ \A g \in DOMAIN mem : g \notin {"secrets", "lists"} => w[g] = mem[g]
      /\ w.secrets = IF mem.secrets = Null THEN {} ELSE n[1]
      /\ \A l \in Lists : /\ Len(w.lists[l]) = mem.lists[l].len
                          /\ \A i \in 1..mem.lists[l].len : w.lists[l][i] = Item(mem, l, i, arrays, n)
  <2>1. HeapIn(arrays, n) /\ ConfigIn(mem, arrays, n) /\ n[1] # Null
    BY DEF Good
  <2> QED
    BY ONLY <2>1, ViewIs
<1> HIDE DEF v, w
<1>5. ASSUME NEW l \in Lists PROVE w.lists[l] = v.lists[l]
  <2>1. IsSeq(v.lists[l]) /\ IsSeq(w.lists[l])
    BY <1>3, <1>4, EntriesAreSeq
  <2>2. Len(w.lists[l]) = Len(v.lists[l])
    BY <1>3, <1>4
  <2>3. \A i \in 1..mem.lists[l].len : Item(mem, l, i, arrays, n) = Item(mem, l, i, arrays, maps)
    BY <1>1, <1>2, WithinArrays, StoredSame DEF Item
  <2>4. \A i \in 1..Len(w.lists[l]) : w.lists[l][i] = v.lists[l][i]
    <3>1. Len(w.lists[l]) = mem.lists[l].len
      BY <1>4
    <3> QED
      BY ONLY <1>3, <1>4, <2>3, <3>1, l \in Lists
  <2> QED
    BY <2>1, <2>2, <2>4, SameSeq
<1>6. w.lists = v.lists /\ w.secrets = v.secrets \cup {h}
  BY <1>2, <1>3, <1>4, <1>5 DEF IsView
<1>7. \A g \in DOMAIN w : w[g] = IF g = "secrets" THEN v.secrets \cup {h} ELSE v[g]
  BY <1>3, <1>4, <1>6
<1>8. w = [v EXCEPT !.secrets = @ \cup {h}]
  BY <1>3, <1>4, <1>7 DEF IsView
<1> QED
  BY <1>8 DEF v, w

\* No two rules of configuration c share a map.
OwnMaps(c, a) ==
    LET s == c.lists["rules"]
    IN  \A i, j \in 1..s.len : a[s.arr][i].silenced = a[s.arr][j].silenced => i = j

\* The maps m with these keys in map k.
MapWritten(m, k, keys) == [m EXCEPT ![k] = keys]

\* Other hosts in the map of one rule change that rule in force.
LEMMA SilenceValue ==
  ASSUME Good(mem, arrays, maps), OwnMaps(mem, arrays), NEW id, Has(Elems(arrays, mem.lists["rules"]), id),
         NEW j, j = First(Elems(arrays, mem.lists["rules"]), id),
         NEW k, k = Elems(arrays, mem.lists["rules"])[j].silenced,
         NEW keys, NEW n, n = MapWritten(maps, k, keys), Good(mem, arrays, n)
  PROVE  LET q == InForce(mem, arrays, maps).lists["rules"]
         IN  /\ Has(q, id) /\ First(q, id) = j /\ q[j].silenced = maps[k]
             /\ q[j].nil = Elems(arrays, mem.lists["rules"])[j].nil
             /\ InForce(mem, arrays, n) = FieldSet(InForce(mem, arrays, maps), "rules", j, "silenced", keys)
<1> DEFINE s == mem.lists["rules"]
           p == Elems(arrays, s)
           v == InForce(mem, arrays, maps)
           q == v.lists["rules"]
           o == arrays[s.arr][j]
<1>0. "rules" \in Lists /\ "silenced" \in Fields["rules"]
  BY DEF Lists, Fields
<1>1. /\ IsSeq(p) /\ IsSeq(q) /\ Len(p) = s.len /\ Len(q) = s.len
      /\ \A i \in 1..s.len : /\ p[i] = arrays[s.arr][i] /\ EntryIn("rules", p[i], maps)
                             /\ q[i] = Item(mem, "rules", i, arrays, maps)
                             /\ q[i] = StoredEntry("rules", p[i], maps)
                             /\ q[i].id = p[i].id
  <2>1. Good(mem, arrays, maps)
    OBVIOUS
  <2> QED
    BY ONLY <1>0, <2>1, ListIs
<1> HIDE DEF p, v
<1>2. j \in 1..s.len
  BY <1>1, FirstIs DEF p
<1>3. Has(q, id) /\ First(q, id) = j
  <2>1. Len(p) = Len(q) /\ \A i \in 1..Len(p) : p[i].id = q[i].id
    BY <1>1
  <2> HIDE DEF q
  <2> QED
    BY <1>1, <2>1, SameIds DEF p
<1>4. HeapIn(arrays, maps) /\ ConfigIn(mem, arrays, maps) /\ HeapIn(arrays, n) /\ ConfigIn(mem, arrays, n)
  BY DEF Good
<1>5. p[j] = o /\ EntryIn("rules", o, maps) /\ q[j] = StoredEntry("rules", o, maps) /\ k = o.silenced
  BY <1>1, <1>2 DEF p
<1> HIDE DEF o, q
<1>6. k \in 2..Len(maps) /\ 1 \in 1..Len(maps) /\ Len(maps) \in Nat
  BY ONLY <1>4, <1>5 DEF EntryIn, HeapIn, IsSeq
<1>7. \A i \in 1..Len(maps) : n[i] = IF i = k THEN keys ELSE maps[i]
  BY <1>4 DEF HeapIn, IsSeq, MapWritten
<1>8. n[1] = maps[1] /\ n[k] = keys
  BY <1>6, <1>7
<1>9. q[j].silenced = maps[k] /\ StoredEntry("rules", o, n) = [q[j] EXCEPT !.silenced = keys]
  <2> DEFINE y == StoredEntry("rules", o, n)
             z == StoredEntry("rules", o, maps)
  <2> HIDE DEF o, q
  <2>1. EntryIn("rules", o, n)
    <3>1. IsSeq(n) /\ Len(n) = Len(maps)
      <4>1. IsSeq(maps)
        BY <1>4 DEF HeapIn
      <4>2. n = [maps EXCEPT ![k] = keys]
        BY DEF MapWritten
      <4> QED
        BY ONLY <4>1, <4>2, SeqExcept
    <3> QED
      BY <1>5, <3>1 DEF EntryIn
  <2>2. /\ y = [g \in Fields["rules"] |-> y[g]]
        /\ \A g \in Fields["rules"] : g # "silenced" => y[g] = o[g]
        /\ y.silenced = n[o.silenced]
    BY ONLY <2>1, StoredField DEF y
  <2>3. /\ z = [g \in Fields["rules"] |-> z[g]]
        /\ \A g \in Fields["rules"] : g # "silenced" => z[g] = o[g]
        /\ z.silenced = maps[o.silenced]
    BY ONLY <1>5, StoredField DEF z
  <2> HIDE DEF y, z
  <2>4. \A g \in Fields["rules"] : y[g] = IF g = "silenced" THEN keys ELSE z[g]
    BY <1>5, <1>8, <2>2, <2>3
  <2>5. y = [z EXCEPT !.silenced = keys]
    BY <2>2, <2>3, <2>4
  <2> QED
    BY <1>5, <2>3, <2>5 DEF y, z
<1>10. Item(mem, "rules", j, arrays, n) = [q[j] EXCEPT !.silenced = keys]
  BY <1>9 DEF Item, o
<1>11. ASSUME NEW l \in Lists, NEW i \in 1..mem.lists[l].len, l # "rules" \/ i # j
       PROVE  Item(mem, l, i, arrays, n) = Item(mem, l, i, arrays, maps)
  <2> DEFINE e == arrays[mem.lists[l].arr][i]
  <2>1. EntryIn(l, e, maps)
    BY <1>4, WithinArrays
  <2>2. CASE l # "rules"
    BY <2>2 DEF Item, StoredEntry
  <2>3. CASE l = "rules"
    <3>0. i \in 1..s.len /\ i # j /\ e = arrays[s.arr][i]
      BY <1>11, <2>3
    <3>1. e.silenced # k
      <4>1. k = arrays[s.arr][j].silenced
        BY <1>5 DEF o
      <4>2. arrays[s.arr][i].silenced = arrays[s.arr][j].silenced => i = j
        BY <1>2, <3>0 DEF OwnMaps
      <4> QED
        BY <3>0, <4>1, <4>2
    <3>2. e.silenced \in 1..Len(maps)
      <4>1. e.silenced \in 2..Len(maps)
        BY ONLY <2>1, <2>3 DEF EntryIn
      <4> HIDE DEF e
      <4> QED
        BY ONLY <1>6, <4>1
    <3>3. n[e.silenced] = maps[e.silenced]
      BY <1>7, <3>1, <3>2
    <3> QED
      BY <2>3, <3>3 DEF Item, StoredEntry
  <2> QED
    BY <2>2, <2>3
<1>12. InForce(mem, arrays, n) = [v EXCEPT !.lists["rules"] = [@ EXCEPT ![j] = [q[j] EXCEPT !.silenced = keys]]]
  <2> DEFINE e == [q[j] EXCEPT !.silenced = keys]
  <2>1. Item(mem, "rules", j, arrays, n) = e
    BY <1>10
  <2> HIDE DEF e
  <2>2. \A l \in Lists : \A i \in 1..mem.lists[l].len :
            l # "rules" \/ i # j => Item(mem, l, i, arrays, n) = Item(mem, l, i, arrays, maps)
    BY <1>11
  <2>3. Good(mem, arrays, maps) /\ Good(mem, arrays, n) /\ n[1] = maps[1] /\ j \in 1..mem.lists["rules"].len
    BY <1>2, <1>8
  <2>4. InForce(mem, arrays, n) = [v EXCEPT !.lists["rules"] = [@ EXCEPT ![j] = e]]
    BY ONLY <1>0, <2>1, <2>2, <2>3, ReplaceValue DEF v
  <2> QED
    BY <2>4 DEF e
<1>13. InForce(mem, arrays, n) = FieldSet(v, "rules", j, "silenced", keys)
  BY <1>12, NestedExcept DEF q, FieldSet
<1>14. q[j].nil = p[j].nil
  <2>1. "nil" \in Fields["rules"] /\ "nil" # "silenced"
    BY DEF Fields
  <2> QED
    BY <1>5, <2>1, StoredField
<1> QED
  BY <1>3, <1>9, <1>13, <1>14 DEF v, q, p

\* The arrays a with a j-th element of the slice s that has the map k.
RuleWritten(a, s, j, k) == [a EXCEPT ![s.arr][j] = [@ EXCEPT !.silenced = k, !.nil = FALSE]]

\* The value v in which the j-th rule has a map with these keys.
MapMade(v, j, keys) == [v EXCEPT !.lists["rules"][j] = [@ EXCEPT !.silenced = keys, !.nil = FALSE]]

LEMMA NestedEntry ==
  ASSUME NEW v, NEW j, NEW keys
  PROVE  MapMade(v, j, keys) =
         [v EXCEPT !.lists["rules"] =
            [@ EXCEPT ![j] = [v.lists["rules"][j] EXCEPT !.silenced = keys, !.nil = FALSE]]]
  BY DEF MapMade

\* In force, the rule with this id is the j-th, and the heap of b and n gives it a map.
MadeInForce(id, j, keys, b, n) ==
    LET q == InForce(mem, arrays, maps).lists["rules"]
    IN  /\ Has(q, id) /\ First(q, id) = j /\ j \in 1..mem.lists["rules"].len
        /\ q[j].nil = Elems(arrays, mem.lists["rules"])[j].nil
        /\ InForce(mem, b, n) = MapMade(InForce(mem, arrays, maps), j, keys)

\* A new map for one rule changes that rule in force.
LEMMA MakeMapValue ==
  ASSUME Good(mem, arrays, maps), Apart(mem, mem), NEW id, Has(Elems(arrays, mem.lists["rules"]), id),
         NEW j, j = First(Elems(arrays, mem.lists["rules"]), id),
         NEW keys, NEW n, n = Append(maps, keys),
         NEW b, b = RuleWritten(arrays, mem.lists["rules"], j, Len(maps) + 1), Good(mem, b, n)
  PROVE  MadeInForce(id, j, keys, b, n)
<1> DEFINE s == mem.lists["rules"]
           p == Elems(arrays, s)
           v == InForce(mem, arrays, maps)
           q == v.lists["rules"]
           o == arrays[s.arr][j]
           d == [o EXCEPT !.silenced = Len(maps) + 1, !.nil = FALSE]
           arr == [arrays[s.arr] EXCEPT ![j] = d]
           e == [q[j] EXCEPT !.silenced = keys, !.nil = FALSE]
<1>0. "rules" \in Lists /\ {"silenced", "nil"} \subseteq Fields["rules"]
  BY DEF Lists, Fields
<1>1. /\ IsSeq(p) /\ IsSeq(q) /\ Len(p) = s.len /\ Len(q) = s.len
      /\ \A i \in 1..s.len : /\ p[i] = arrays[s.arr][i] /\ EntryIn("rules", p[i], maps)
                             /\ q[i] = StoredEntry("rules", p[i], maps)
                             /\ q[i].id = p[i].id
  <2>1. Good(mem, arrays, maps)
    OBVIOUS
  <2> QED
    BY ONLY <1>0, <2>1, ListIs
<1> HIDE DEF p, v
<1>2. j \in 1..s.len
  BY <1>1, FirstIs DEF p
<1>3. Has(q, id) /\ First(q, id) = j
  <2>1. Len(p) = Len(q) /\ \A i \in 1..Len(p) : p[i].id = q[i].id
    BY <1>1
  <2> HIDE DEF q
  <2> QED
    BY <1>1, <2>1, SameIds DEF p
<1>4. HeapIn(arrays, maps) /\ ConfigIn(mem, arrays, maps)
  BY DEF Good
<1>5. p[j] = o /\ EntryIn("rules", o, maps) /\ q[j] = StoredEntry("rules", o, maps)
  BY <1>1, <1>2
<1>6. IsSeq(n) /\ Len(n) = Len(maps) + 1 /\ n[Len(maps) + 1] = keys /\ Len(maps) \in Nat
      /\ \A i \in 1..Len(maps) : n[i] = maps[i]
  BY <1>4, SeqAppend DEF HeapIn, IsSeq
<1>7. n[1] = maps[1]
  BY <1>4, <1>6 DEF HeapIn, IsSeq
<1>8. b = [arrays EXCEPT ![s.arr] = arr]
  BY DEF RuleWritten
<1>9. /\ d = [g \in Fields["rules"] |-> d[g]] /\ o = [g \in Fields["rules"] |-> o[g]]
      /\ d.silenced = Len(maps) + 1 /\ d.nil = FALSE
      /\ \A g \in Fields["rules"] : g \notin {"silenced", "nil"} => d[g] = o[g]
  <2>1. o = [g \in Fields["rules"] |-> o[g]]
    BY <1>5 DEF EntryIn, IsEntry
  <2>2. d = [o EXCEPT !.silenced = Len(maps) + 1, !.nil = FALSE]
    OBVIOUS
  <2> HIDE DEF o, d
  <2> QED
    BY <1>0, <2>1, <2>2
<1> HIDE DEF d, o
<1>10. StoredEntry("rules", d, n) = e
  <2> DEFINE y == StoredEntry("rules", d, n)
             z == StoredEntry("rules", o, maps)
  <2>1. EntryIn("rules", d, n)
    <3>1. d.silenced \in 2..Len(n)
      BY <1>4, <1>6, <1>9 DEF HeapIn, IsSeq
    <3> QED
      BY <1>9, <3>1 DEF EntryIn, IsEntry
  <2>2. /\ y = [g \in Fields["rules"] |-> y[g]]
        /\ \A g \in Fields["rules"] : g # "silenced" => y[g] = d[g]
        /\ y.silenced = n[d.silenced]
    BY ONLY <2>1, StoredField DEF y
  <2>3. /\ z = [g \in Fields["rules"] |-> z[g]]
        /\ \A g \in Fields["rules"] : g # "silenced" => z[g] = o[g]
    BY ONLY <1>5, StoredField DEF z
  <2> HIDE DEF y, z
  <2>4. e = [z EXCEPT !.silenced = keys, !.nil = FALSE]
    BY <1>5 DEF z
  <2> HIDE DEF e
  <2>5. /\ e = [g \in Fields["rules"] |-> e[g]] /\ e.silenced = keys /\ e.nil = FALSE
        /\ \A g \in Fields["rules"] : g \notin {"silenced", "nil"} => e[g] = z[g]
    BY <1>0, <2>3, <2>4
  <2>8. y["silenced"] = e["silenced"]
    BY <1>6, <1>9, <2>2, <2>5
  <2>9. y["nil"] = e["nil"]
    <3>1. y["nil"] = d["nil"]
      BY <1>0, <2>2
    <3>2. d["nil"] = FALSE /\ e["nil"] = FALSE
      BY <1>9, <2>5
    <3> QED
      BY <3>1, <3>2
  <2>10. ASSUME NEW g \in Fields["rules"], g \notin {"silenced", "nil"} PROVE y[g] = e[g]
    <3>1. y[g] = d[g] /\ z[g] = o[g]
      BY <2>2, <2>3, <2>10
    <3>2. d[g] = o[g] /\ e[g] = z[g]
      BY <1>9, <2>5, <2>10
    <3> QED
      BY <3>1, <3>2
  <2>6. \A g \in Fields["rules"] : y[g] = e[g]
    BY <2>8, <2>9, <2>10
  <2>7. y = e
    BY <2>2, <2>5, <2>6
  <2> QED
    BY <2>7 DEF y
<1>11. /\ IsSeq(arrays) /\ IsSeq(arrays[s.arr]) /\ s.arr \in 1..Len(arrays) /\ j \in 1..Len(arrays[s.arr])
  BY <1>0, <1>2, <1>4, WithinArrays DEF HeapIn
<1>12. \A i \in 1..Len(arrays[s.arr]) : arr[i] = IF i = j THEN d ELSE arrays[s.arr][i]
  BY <1>11 DEF IsSeq
<1> HIDE DEF arr
<1>13. \A y \in 1..Len(arrays) : b[y] = IF y = s.arr THEN arr ELSE arrays[y]
  BY <1>8, <1>11 DEF IsSeq
<1>14. Item(mem, "rules", j, b, n) = e
  BY <1>10, <1>11, <1>12, <1>13 DEF Item
<1>15. ASSUME NEW l \in Lists, NEW i \in 1..mem.lists[l].len, l # "rules" \/ i # j
       PROVE  Item(mem, l, i, b, n) = Item(mem, l, i, arrays, maps)
  <2> DEFINE x == arrays[mem.lists[l].arr][i]
  <2>1. /\ mem.lists[l].arr \in 1..Len(arrays) /\ i \in 1..Len(arrays[mem.lists[l].arr])
        /\ EntryIn(l, x, maps)
    BY <1>4, WithinArrays
  <2>2. mem.lists[l].arr = s.arr => l = "rules"
    BY <1>0 DEF Apart
  <2>3. b[mem.lists[l].arr][i] = x
    BY <1>12, <1>13, <1>15, <2>1, <2>2
  <2> HIDE DEF x
  <2>4. CASE l # "rules"
    BY <2>3, <2>4 DEF Item, StoredEntry, x
  <2>5. CASE l = "rules"
    <3>1. x.silenced \in 1..Len(maps)
      BY <1>6, <2>1, <2>5 DEF EntryIn
    <3>2. n[x.silenced] = maps[x.silenced]
      BY <1>6, <3>1
    <3> QED
      BY <2>3, <2>5, <3>2 DEF Item, StoredEntry, x
  <2> QED
    BY <2>4, <2>5
<1>16. InForce(mem, b, n) = [v EXCEPT !.lists["rules"] = [@ EXCEPT ![j] = e]]
  <2> HIDE DEF e
  <2>1. Item(mem, "rules", j, b, n) = e
    BY <1>14
  <2>2. \A l \in Lists : \A i \in 1..mem.lists[l].len :
            l # "rules" \/ i # j => Item(mem, l, i, b, n) = Item(mem, l, i, arrays, maps)
    BY <1>15
  <2>3. Good(mem, arrays, maps) /\ Good(mem, b, n) /\ n[1] = maps[1] /\ j \in 1..mem.lists["rules"].len
    BY <1>2, <1>7
  <2> QED
    BY ONLY <1>0, <2>1, <2>2, <2>3, ReplaceValue DEF v
<1>17. InForce(mem, b, n) = MapMade(v, j, keys)
  BY <1>16, NestedEntry
<1>18. q[j].nil = p[j].nil
  <2>1. "nil" \in Fields["rules"] /\ "nil" # "silenced"
    BY <1>0
  <2> QED
    BY <1>5, <2>1, StoredField
<1> QED
  BY <1>2, <1>3, <1>17, <1>18 DEF v, p, MadeInForce

\* The two lists that a change of a group replaces.
LEMMA GroupExcept ==
  ASSUME NEW v, "lists" \in DOMAIN v, {"users", "groups"} \subseteq DOMAIN v.lists, NEW j, NEW x, NEW y,
         NEW z, z = [v.lists["groups"] EXCEPT ![j] = [v.lists["groups"][j] EXCEPT !.hosts = x]],
         NEW m, m = [[v.lists EXCEPT !["groups"] = z] EXCEPT !["users"] = y]
  PROVE  [v EXCEPT !.lists["groups"][j].hosts = x, !.lists["users"] = y] = [v EXCEPT !.lists = m]
<1> DEFINE m1 == [v.lists EXCEPT !["groups"] = z]
           v1 == [v EXCEPT !.lists = m1]
<1>1. [v EXCEPT !.lists["groups"][j].hosts = x] = v1
  OBVIOUS
<1>2. [v EXCEPT !.lists["groups"][j].hosts = x, !.lists["users"] = y]
      = [[v EXCEPT !.lists["groups"][j].hosts = x] EXCEPT !.lists["users"] = y]
  OBVIOUS
<1>3. m = [m1 EXCEPT !["users"] = y]
  OBVIOUS
<1> HIDE DEF m1
<1>4. v1.lists = m1
  OBVIOUS
<1>5. [v1 EXCEPT !.lists["users"] = y] = [v EXCEPT !.lists = m]
  <2>1. [v1 EXCEPT !.lists["users"] = y] = [v1 EXCEPT !.lists = [v1.lists EXCEPT !["users"] = y]]
    OBVIOUS
  <2>2. [v1 EXCEPT !.lists["users"] = y] = [v1 EXCEPT !.lists = m]
    BY ONLY <1>3, <1>4, <2>1
  <2>3. [v1 EXCEPT !.lists = m] = [v EXCEPT !.lists = m]
    BY ONLY TRUE
  <2> QED
    BY ONLY <2>2, <2>3
<1> HIDE DEF v1
<1> QED
  BY ONLY <1>1, <1>2, <1>5

\* A user who is a member of group r.id exactly when r.members says so, if it does.
Membership(u, r) == [u EXCEPT !.groups = IF "members" \notin DOMAIN r THEN @
                                         ELSE IF u.id \in r.members THEN @ \cup {r.id}
                                         ELSE @ \ {r.id}]

\* Group j and the memberships after request r: in the value v, and in the
\* arrays a of the slices gs and us.
GroupSet(v, j, r) ==
    LET users == v.lists["users"]
    IN  [v EXCEPT !.lists["groups"][j].hosts = r.val,
                  !.lists["users"] = [i \in DOMAIN users |-> Membership(users[i], r)]]
GroupWritten(a, gs, us, j, r) ==
    [a EXCEPT ![gs.arr][j].hosts = r.val,
              ![us.arr] = [i \in DOMAIN @ |-> IF i <= us.len THEN Membership(@[i], r) ELSE @[i]]]

\* A group changed in place, and its members, change in force.
LEMMA GroupValue ==
  ASSUME Good(mem, arrays, maps), Apart(mem, mem), NEW r, Has(Elems(arrays, mem.lists["groups"]), r.id),
         NEW j, j = First(Elems(arrays, mem.lists["groups"]), r.id),
         NEW b, Good(mem, b, maps),
         b = GroupWritten(arrays, mem.lists["groups"], mem.lists["users"], j, r)
  PROVE  LET v == InForce(mem, arrays, maps)
         IN  /\ Has(v.lists["groups"], r.id) /\ First(v.lists["groups"], r.id) = j
             /\ InForce(mem, b, maps) = GroupSet(v, j, r)
<1> DEFINE gs == mem.lists["groups"]
           us == mem.lists["users"]
           p  == Elems(arrays, gs)
           v  == InForce(mem, arrays, maps)
           w  == InForce(mem, b, maps)
           gq == v.lists["groups"]
           uq == v.lists["users"]
           e  == [arrays[gs.arr][j] EXCEPT !.hosts = r.val]
           g  == [arrays[gs.arr] EXCEPT ![j] = e]
           u2 == [i \in DOMAIN arrays[us.arr] |->
                    IF i <= us.len THEN Membership(arrays[us.arr][i], r) ELSE arrays[us.arr][i]]
<1>0. "groups" \in Lists /\ "users" \in Lists
  BY DEF Lists
<1>1. /\ IsSeq(p) /\ IsSeq(gq) /\ Len(p) = gs.len /\ Len(gq) = gs.len
      /\ \A i \in 1..gs.len : /\ p[i] = arrays[gs.arr][i] /\ gq[i] = Item(mem, "groups", i, arrays, maps)
                              /\ gq[i].id = p[i].id
  <2>1. Good(mem, arrays, maps)
    OBVIOUS
  <2> QED
    BY ONLY <1>0, <2>1, ListIs
<1>2. /\ IsSeq(uq) /\ Len(uq) = us.len
      /\ \A i \in 1..us.len : uq[i] = Item(mem, "users", i, arrays, maps)
  <2>1. Good(mem, arrays, maps)
    OBVIOUS
  <2> QED
    BY ONLY <1>0, <2>1, ListIs
<1>3. HeapIn(arrays, maps) /\ ConfigIn(mem, arrays, maps) /\ Good(mem, b, maps)
  BY DEF Good
<1>4. /\ IsSeq(arrays) /\ gs.arr \in 1..Len(arrays) /\ us.arr \in 1..Len(arrays) /\ gs.arr # us.arr
      /\ IsSeq(arrays[gs.arr]) /\ IsSeq(arrays[us.arr])
      /\ gs.len \in 0..Len(arrays[gs.arr]) /\ us.len \in 0..Len(arrays[us.arr])
  <2>1. SliceIn(gs, "groups", arrays, maps) /\ SliceIn(us, "users", arrays, maps)
    BY <1>0, <1>3 DEF ConfigIn
  <2>2. gs.arr # us.arr
    BY <1>0 DEF Apart
  <2> QED
    BY <1>3, <2>1, <2>2 DEF SliceIn, HeapIn
<1>5. b = [[arrays EXCEPT ![gs.arr] = g] EXCEPT ![us.arr] = u2]
  <2>1. [arrays EXCEPT ![gs.arr] = g][us.arr] = arrays[us.arr]
    BY <1>4 DEF IsSeq
  <2> QED
    BY <2>1 DEF GroupWritten
<1> HIDE DEF p, v, w
<1>6. j \in 1..gs.len
  BY <1>1, FirstIs DEF p
<1>7. Has(gq, r.id) /\ First(gq, r.id) = j
  <2>1. Len(p) = Len(gq) /\ \A i \in 1..Len(p) : p[i].id = gq[i].id
    BY <1>1
  <2> HIDE DEF gq
  <2> QED
    BY <1>1, <2>1, SameIds DEF p
<1>8. \A i \in 1..gs.len : g[i] = IF i = j THEN e ELSE arrays[gs.arr][i]
  <2>1. \A i \in 1..gs.len : i \in 1..Len(arrays[gs.arr])
    <3>1. Len(arrays[gs.arr]) \in Nat
      BY <1>4 DEF IsSeq
    <3> QED
      BY ONLY <1>4, <3>1
  <2> HIDE DEF e
  <2> QED
    BY <1>4, <2>1 DEF IsSeq
<1>9. \A i \in 1..us.len : u2[i] = Membership(arrays[us.arr][i], r)
  <2>1. DOMAIN arrays[us.arr] = 1..Len(arrays[us.arr]) /\ Len(arrays[us.arr]) \in Nat
    BY <1>4 DEF IsSeq
  <2>2. \A i \in 1..us.len : i \in 1..Len(arrays[us.arr])
    BY ONLY <1>4, <2>1
  <2> QED
    BY ONLY <2>1, <2>2
<1> HIDE DEF g, u2
<1>10. \A x \in 1..Len(arrays) : b[x] = IF x = us.arr THEN u2 ELSE IF x = gs.arr THEN g ELSE arrays[x]
  BY <1>4, <1>5 DEF IsSeq
<1>11. Same(mem, arrays, maps, mem, b, maps, {"users", "groups"})
  <2>1. ASSUME NEW l \in Lists \ {"users", "groups"}, NEW i \in 1..mem.lists[l].len
        PROVE  Item(mem, l, i, b, maps) = Item(mem, l, i, arrays, maps)
    <3>1. mem.lists[l].arr \in 1..Len(arrays)
      BY <1>3, WithinArrays
    <3>2. mem.lists[l].arr # gs.arr /\ mem.lists[l].arr # us.arr
      BY <1>0 DEF Apart
    <3> QED
      BY <1>10, <3>1, <3>2 DEF Item
  <2> QED
    BY <2>1 DEF Same
<1>12. /\ IsView(v) /\ IsView(w) /\ DOMAIN w = DOMAIN v
       /\ \A f \in DOMAIN v : f # "lists" => w[f] = v[f]
       /\ \A l \in Lists \ {"users", "groups"} : w.lists[l] = v.lists[l]
  <2>1. Good(mem, arrays, maps)
    OBVIOUS
  <2> QED
    BY ONLY <1>3, <1>11, <2>1, ListsReplaced DEF v, w
<1>13. w.lists["groups"] = [gq EXCEPT ![j] = [gq[j] EXCEPT !.hosts = r.val]]
  <2> DEFINE t == w.lists["groups"]
             y == [gq[j] EXCEPT !.hosts = r.val]
             z == [gq EXCEPT ![j] = y]
  <2>1. /\ IsSeq(t) /\ Len(t) = gs.len
        /\ \A i \in 1..gs.len : t[i] = Item(mem, "groups", i, b, maps)
    BY ONLY <1>0, <1>3, ListIs DEF w
  <2>2. gq[j] = arrays[gs.arr][j]
    BY <1>1, <1>6 DEF Item, StoredEntry
  <2>3. y = e
    BY <2>2
  <2>4. \A i \in 1..gs.len : t[i] = g[i]
    BY <1>4, <1>10, <2>1 DEF Item, StoredEntry
  <2>5. z = [gq EXCEPT ![j] = y]
    OBVIOUS
  <2> HIDE DEF t, y, z, e, gq
  <2>10. IsSeq(gq)
    BY <1>1
  <2>6. IsSeq(z) /\ Len(z) = Len(gq)
    BY ONLY <2>10, <2>5, SeqExcept
  <2>9. \A i \in 1..Len(gq) : z[i] = IF i = j THEN y ELSE gq[i]
    BY ONLY <1>1, <2>5, SeqExcept
  <2>7. \A i \in 1..Len(t) : t[i] = z[i]
    BY <1>1, <1>8, <2>1, <2>3, <2>4, <2>9 DEF Item, StoredEntry
  <2>8. t = z
    BY ONLY <1>1, <2>1, <2>6, <2>7, SameSeq
  <2> QED
    BY <2>8 DEF t, z, y
<1>14. w.lists["users"] = [i \in DOMAIN uq |-> Membership(uq[i], r)]
  <2> DEFINE t == w.lists["users"]
             z == [i \in DOMAIN uq |-> Membership(uq[i], r)]
  <2>1. /\ IsSeq(t) /\ Len(t) = us.len
        /\ \A i \in 1..us.len : t[i] = Item(mem, "users", i, b, maps)
    BY ONLY <1>0, <1>3, ListIs DEF w
  <2>2. \A i \in 1..us.len : t[i] = u2[i]
    BY <1>4, <1>10, <2>1 DEF Item, StoredEntry
  <2>3. \A i \in 1..us.len : uq[i] = arrays[us.arr][i]
    BY <1>2 DEF Item, StoredEntry
  <2> HIDE DEF uq, t
  <2>4. DOMAIN uq = 1..us.len /\ DOMAIN t = 1..us.len
    BY <1>2, <2>1 DEF IsSeq
  <2>5. \A i \in 1..us.len : t[i] = Membership(uq[i], r)
    BY <1>9, <2>2, <2>3
  <2>6. t = [i \in 1..us.len |-> t[i]]
    BY <2>1 DEF IsSeq
  <2>7. t = z
    BY <2>4, <2>5, <2>6
  <2> QED
    BY <2>7 DEF t, uq
<1>15. w = [v EXCEPT !.lists["groups"][j].hosts = r.val,
                     !.lists["users"] = [i \in DOMAIN uq |-> Membership(uq[i], r)]]
  <2> DEFINE y == [i \in DOMAIN uq |-> Membership(uq[i], r)]
             x == [gq EXCEPT ![j] = [gq[j] EXCEPT !.hosts = r.val]]
             m == [[v.lists EXCEPT !["groups"] = x] EXCEPT !["users"] = y]
  <2>1. w.lists["groups"] = x /\ w.lists["users"] = y
    BY <1>13, <1>14
  <2>2. "lists" \in DOMAIN v /\ DOMAIN v.lists = Lists /\ {"users", "groups"} \subseteq DOMAIN v.lists
    BY <1>0, <1>12 DEF IsView
  <2> HIDE DEF y
  <2>6. x = [v.lists["groups"] EXCEPT ![j] = [v.lists["groups"][j] EXCEPT !.hosts = r.val]]
    OBVIOUS
  <2> HIDE DEF x
  <2>3. w.lists = m
    BY <1>12, <2>1, <2>2 DEF IsView
  <2>4. w = [v EXCEPT !.lists = w.lists]
    BY <1>12 DEF IsView
  <2>5. [v EXCEPT !.lists["groups"][j].hosts = r.val, !.lists["users"] = y] = [v EXCEPT !.lists = m]
    <3>1. m = [[v.lists EXCEPT !["groups"] = x] EXCEPT !["users"] = y]
      OBVIOUS
    <3> HIDE DEF m
    <3> QED
      BY ONLY <2>2, <2>6, <3>1, GroupExcept
  <2> HIDE DEF m
  <2> QED
    BY <2>3, <2>4, <2>5 DEF y
<1> QED
  BY <1>7, <1>15 DEF v, w, GroupSet

-----------------------------------------------------------------------------
(* Requests that AtomicConfig allows.                                      *)

May(v, w) == w = v \/ \E r \in Requests : Abstract!Changes(v, w, r)

LEMMA MayAdd ==
  ASSUME NEW r \in Requests, NEW l, r.op \in DOMAIN Adds, l = Adds[r.op], NEW v, NEW w,
         r.op \in {"CreateUser", "DeleteHost"} => ~Has(v.lists[l], r.id),
         NEW e, e = (IF r.op = "CreateAlertRule" THEN [r.entry EXCEPT !.enabled = TRUE, !.nil = FALSE]
                                                 ELSE r.entry),
         w = [v EXCEPT !.lists[l] = Append(@, e)]
  PROVE  May(v, w)
<1>1. Abstract!Adds = Adds
  BY DEF Abstract!Adds, Adds
<1>2. Abstract!Has(v.lists[l], r.id) <=> Has(v.lists[l], r.id)
  BY SameOperators
<1>3. Abstract!New(r) = e
  BY DEF Abstract!New
<1>4. Abstract!Add(v, w, r)
  BY <1>1, <1>2, <1>3 DEF Abstract!Add, Abstract!Unique
<1> QED
  BY <1>4 DEF May, Abstract!Changes

LEMMA MayRemove ==
  ASSUME NEW r \in Requests, NEW l,
         \/ r.op = "DeleteUser" /\ l = "users"
         \/ r.op = "DeleteGroup" /\ l = "groups"
         \/ r.op = "DeleteAlertRule" /\ l = "rules"
         \/ r.op = "DeleteChannel" /\ l = "channels",
         NEW v, NEW w, w = [v EXCEPT !.lists[l] = Without(@, r.id)]
  PROVE  May(v, w)
<1>1. r.op \in DOMAIN Abstract!Removes /\ Abstract!Removes[r.op] = l
  BY DEF Abstract!Removes
<1>2. Abstract!Without(v.lists[l], r.id) = Without(v.lists[l], r.id)
  BY SameOperators
<1>3. w = [v EXCEPT !.lists[l] = Abstract!Without(@, r.id)]
  <2> DEFINE x == Without(v.lists[l], r.id)
             y == Abstract!Without(v.lists[l], r.id)
  <2>1. w = [v EXCEPT !.lists[l] = x] /\ x = y
    BY <1>2
  <2> HIDE DEF x, y
  <2>2. w = [v EXCEPT !.lists[l] = y]
    BY <2>1
  <2> QED
    BY <2>2 DEF y
<1>4. Abstract!Remove(v, w, r)
  BY <1>1, <1>3 DEF Abstract!Remove
<1> QED
  BY <1>4 DEF May, Abstract!Changes

\* The field that a request on one entry changes, and its new value.
LEMMA MayUpdate ==
  ASSUME NEW r \in Requests, NEW l, NEW f, NEW x, NEW v, NEW w, Has(v.lists[l], r.id),
         NEW j, j = First(v.lists[l], r.id), w = FieldSet(v, l, j, f, x),
         \/ r.op = "UpdateUser" /\ l = "users" /\ f = "rights" /\ x = r.val
         \/ r.op = "ChangePassword" /\ l = "users" /\ f = "password" /\ x = r.val
         \/ r.op = "UpdateAlertRule" /\ l = "rules" /\ f = "condition" /\ x = r.val
         \/ r.op = "ToggleAlertRule" /\ l = "rules" /\ f = "enabled" /\ x = ~v.lists[l][j].enabled
  PROVE  May(v, w)
<1>1. Abstract!Has(v.lists[l], r.id) /\ Abstract!First(v.lists[l], r.id) = j
  BY SameOperators
<1>2. Abstract!Update(v, w, l, r.id, f, x)
  BY <1>1 DEF Abstract!Update, FieldSet
<1>3. Abstract!ModifyUser(v, w, r) \/ Abstract!ModifyRule(v, w, r)
  BY <1>1, <1>2 DEF Abstract!ModifyUser, Abstract!ModifyRule
<1> QED
  BY <1>3 DEF May, Abstract!Changes

\* The hosts that silence a rule, or no longer do.
LEMMA MaySilence ==
  ASSUME NEW r \in Requests, NEW v, NEW w, Has(v.lists["rules"], r.id),
         NEW j, j = First(v.lists["rules"], r.id),
         NEW keys, w = FieldSet(v, "rules", j, "silenced", keys),
         \/ /\ r.op = "SilenceAlert" /\ ~v.lists["rules"][j].nil
            /\ keys = v.lists["rules"][j].silenced \cup {r.host}
         \/ r.op = "UnsilenceAlert" /\ keys = v.lists["rules"][j].silenced \ {r.host}
  PROVE  May(v, w)
<1>1. /\ Abstract!Has(v.lists["rules"], r.id)
      /\ Abstract!First(v.lists["rules"], r.id) = j
  BY SameOperators
<1>2. Abstract!Update(v, w, "rules", r.id, "silenced", keys)
  BY <1>1 DEF Abstract!Update, FieldSet
<1>3. Abstract!ModifyRule(v, w, r)
  BY <1>1, <1>2 DEF Abstract!ModifyRule
<1> QED
  BY <1>3 DEF May, Abstract!Changes

\* A rule without a map gets one.
LEMMA MayMakeMap ==
  ASSUME NEW r \in Requests, r.op = "SilenceAlert", NEW v, NEW w, Has(v.lists["rules"], r.id),
         NEW j, j = First(v.lists["rules"], r.id), v.lists["rules"][j].nil,
         w = MapMade(v, j, {r.host})
  PROVE  May(v, w)
<1>1. /\ Abstract!Has(v.lists["rules"], r.id)
      /\ Abstract!First(v.lists["rules"], r.id) = j
  BY SameOperators
<1>2. Abstract!ModifyRule(v, w, r)
  BY <1>1 DEF Abstract!ModifyRule, MapMade
<1> QED
  BY <1>2 DEF May, Abstract!Changes

LEMMA MayUpdateGroup ==
  ASSUME NEW r \in Requests, r.op = "UpdateGroup", NEW v, NEW w, Has(v.lists["groups"], r.id),
         NEW j, j = First(v.lists["groups"], r.id), w = GroupSet(v, j, r)
  PROVE  May(v, w)
<1>1. /\ Abstract!Has(v.lists["groups"], r.id)
      /\ Abstract!First(v.lists["groups"], r.id) = j
  BY SameOperators
<1>2. Abstract!UpdateGroup(v, w, r)
  BY <1>1 DEF Abstract!UpdateGroup, Membership, GroupSet
<1> QED
  BY <1>2 DEF May, Abstract!Changes

LEMMA MaySet ==
  ASSUME NEW r \in Requests, NEW v, NEW w, NEW f, NEW x, w = [v EXCEPT ![f] = x],
         \/ r.op = "SaveSettings" /\ f = "settings" /\ x = r.val
         \/ r.op = "EnableMFA" /\ f = "mfa" /\ x = TRUE
         \/ r.op = "DisableMFA" /\ f = "mfa" /\ x = FALSE
         \/ r.op = "RegisterAgent" /\ f = "secrets" /\ x = v.secrets \cup {r.host} /\ v.key
  PROVE  May(v, w)
<1>1. Abstract!SetScalar(v, w, r) \/ Abstract!Register(v, w, r)
  BY DEF Abstract!SetScalar, Abstract!Register
<1> QED
  BY <1>1 DEF May, Abstract!Changes

-----------------------------------------------------------------------------
(* What a handler makes of the value, when nobody else is at work.         *)

Value == InForce(mem, arrays, maps)

Own == maps[1] # Null /\ \A d \in Copies : OwnMaps(d, arrays)

\* The copy d and the heap b, n that a handler leaves: it changed what is in
\* force, or only its copy, or nothing.
Outcome(d, b, n) ==
    LET w == InForce(mem, b, n)
        x == InForce(d, b, n)
    IN  (w = Value /\ May(w, x)) \/ (x = w /\ May(Value, w))

OwnAfter(d, b, n) == n[1] # Null /\ OwnMaps(mem, b) /\ OwnMaps(d, b)

Answers(c) ==
    \/ Refuse(c)
    \/ \E d, op : /\ req' = [req EXCEPT ![c] = [pc |-> "changed", op |-> op, cfg |-> d]]
                  /\ Rest /\ OwnAfter(d, arrays', maps') /\ Outcome(d, arrays', maps')

\* A handler that has just got its copy, and its request.
Begins(c) ==
    /\ c \in Client /\ req[c].pc = "got" /\ req[c].cfg = mem /\ req[c].r \in Requests
    /\ IInv /\ Heap /\ Own

LEMMA GoodMem ==
  ASSUME Heap, Own
  PROVE  /\ Good(mem, arrays, maps) /\ Apart(mem, mem) /\ OwnMaps(mem, arrays)
         /\ HeapIn(arrays, maps) /\ ConfigIn(mem, arrays, maps)
  BY DEF Heap, Own, Good, Copies

\* The heap after a handler is sound for both copies.
LEMMA GoodAfter ==
  ASSUME IInv, Heap', mem' = mem, maps'[1] # Null, NEW c \in Client, NEW d, NEW op,
         req' = [req EXCEPT ![c] = [pc |-> "changed", op |-> op, cfg |-> d]]
  PROVE  Good(mem, arrays', maps') /\ Good(d, arrays', maps')
<1>1. DOMAIN req = Client
  BY DEF IInv, Fields1
<1>2. req'[c] = [pc |-> "changed", op |-> op, cfg |-> d]
  BY <1>1
<1>3. mem \in Copies' /\ d \in Copies'
  BY <1>2 DEF Copies, Holds
<1>4. HeapIn(arrays', maps') /\ \A e \in Copies' : ConfigIn(e, arrays', maps')
  BY DEF Heap
<1> QED
  BY <1>3, <1>4 DEF Good

\* The rules keep their maps when the elements of their list do.
LEMMA OwnSame ==
  ASSUME NEW c, NEW a, OwnMaps(c, a), NEW d, NEW b, d.lists["rules"].len = c.lists["rules"].len,
         \A i \in 1..c.lists["rules"].len :
            b[d.lists["rules"].arr][i].silenced = a[c.lists["rules"].arr][i].silenced
  PROVE  OwnMaps(d, b)
  BY DEF OwnMaps

\* An entry is added to a list other than the rules.
LEMMA AppendAnswers ==
  ASSUME NEW c, Begins(c), Heap', NEW l \in Lists, l # "rules", AppendTo(c, l, req[c].r.entry),
         req[c].r.op \in DOMAIN Adds, Adds[req[c].r.op] = l,
         req[c].r.op \in {"CreateUser", "DeleteHost"} => ~Has(Elems(arrays, mem.lists[l]), req[c].r.id)
  PROVE  Answers(c)
<1> DEFINE r == req[c].r
           e == r.entry
           new == Appended(mem.lists[l], e)
           d == WithList(mem, l, new.slice)
<1>1. /\ arrays' = new.arrays /\ maps' = maps /\ Rest /\ mem' = mem
      /\ req' = [req EXCEPT ![c] = [pc |-> "changed", op |-> r.op, cfg |-> d]]
  BY DEF AppendTo, SetList, Changed, WithList, Rest, Begins
<1>2. Good(mem, arrays, maps) /\ Apart(mem, mem) /\ OwnMaps(mem, arrays) /\ HeapIn(arrays, maps) /\ ConfigIn(mem, arrays, maps)
  BY GoodMem DEF Begins
<1>3. maps'[1] # Null
  BY <1>1 DEF Begins, Own
<1>0. r \in Requests /\ r.op \in DOMAIN Adds /\ Adds[r.op] = l /\ (r.op \in {"CreateUser", "DeleteHost"} => ~Has(Elems(arrays, mem.lists[l]), r.id))
  BY DEF Begins
<1> DEFINE b == new.arrays
<1>4. new = Appended(mem.lists[l], e) /\ b = new.arrays /\ d = WithList(mem, l, new.slice)
  OBVIOUS
<1> HIDE DEF new, d, b, r
<1>5. Good(mem, b, maps) /\ Good(d, b, maps)
  BY <1>1, <1>3, GoodAfter DEF Begins, b
<1>6. maps[1] = maps[1] /\ \A i \in 1..Len(maps) : i >= 2 => maps[i] = maps[i]
  OBVIOUS
<1> HIDE DEF e
<1>7. /\ InForce(mem, b, maps) = Value
      /\ InForce(d, b, maps) = ListValue(Value, l, Append(Value.lists[l], StoredEntry(l, e, maps)))
  BY ONLY <1>2, <1>4, <1>5, <1>6, l \in Lists, AppendValue DEF Value
<1>8. StoredEntry(l, e, maps) = e
  BY DEF StoredEntry
<1>9. Has(Value.lists[l], r.id) <=> Has(Elems(arrays, mem.lists[l]), r.id)
  <2>1. LET p == Elems(arrays, mem.lists[l])
            q == Value.lists[l]
        IN IsSeq(p) /\ IsSeq(q) /\ Len(p) = Len(q) /\ \A i \in 1..Len(p) : p[i].id = q[i].id
    BY ONLY <1>2, l \in Lists, ListIs DEF Value
  <2> QED
    BY ONLY <2>1, SameIds
<1>10. May(Value, InForce(d, b, maps))
  <2> DEFINE w == InForce(d, b, maps)
  <2>1. r.op # "CreateAlertRule"
    BY <1>0 DEF Adds
  <2>2. w = [Value EXCEPT !.lists[l] = Append(@, e)]
    BY <1>7, <1>8 DEF ListValue
  <2>3. e = IF r.op = "CreateAlertRule" THEN [r.entry EXCEPT !.enabled = TRUE, !.nil = FALSE] ELSE r.entry
    BY <2>1 DEF e
  <2> HIDE DEF w
  <2>4. May(Value, w)
    BY ONLY <1>0, <1>9, <2>2, <2>3, MayAdd
  <2> QED
    BY <2>4 DEF w
<1>11. Outcome(d, b, maps)
  BY <1>7, <1>10 DEF Outcome
<1>12. OwnMaps(mem, b) /\ OwnMaps(d, b)
  <2>1. SliceIn(mem.lists[l], l, arrays, maps)
    BY <1>2 DEF ConfigIn
  <2>2. \A x \in 1..Len(arrays) : \A i \in 1..Len(arrays[x]) :
            x # mem.lists[l].arr \/ i # mem.lists[l].len + 1 => b[x][i] = arrays[x][i]
    BY ONLY <1>2, <1>4, <2>1, AppendedIs
  <2>3. "rules" \in Lists
    BY DEF Lists
  <2>4. mem.lists["rules"].arr # mem.lists[l].arr
    BY <1>2, <2>3 DEF Apart
  <2>5. \A i \in 1..mem.lists["rules"].len :
           b[mem.lists["rules"].arr][i] = arrays[mem.lists["rules"].arr][i]
    BY <1>2, <2>2, <2>3, <2>4, WithinArrays
  <2>6. d.lists["rules"] = mem.lists["rules"]
    BY <1>2, <1>4, <2>3, WithListIs
  <2> QED
    BY <1>2, <2>5, <2>6, OwnSame
<1>13. OwnAfter(d, b, maps)
  BY <1>1, <1>3, <1>12 DEF OwnAfter
<1>14. OwnAfter(d, arrays', maps') /\ Outcome(d, arrays', maps')
  BY <1>1, <1>11, <1>13, <1>4
<1> QED
  BY <1>1, <1>14 DEF Answers

\* An entry is taken out of a list.
LEMMA KeepOthersAnswers ==
  ASSUME NEW c, Begins(c), Heap', NEW l \in Lists, KeepOthers(c, l, req[c].r.id),
         \/ req[c].r.op = "DeleteUser" /\ l = "users"
         \/ req[c].r.op = "DeleteGroup" /\ l = "groups"
         \/ req[c].r.op = "DeleteAlertRule" /\ l = "rules"
         \/ req[c].r.op = "DeleteChannel" /\ l = "channels"
  PROVE  Answers(c)
<1> DEFINE r == req[c].r
           p == Elems(arrays, mem.lists[l])
           id == r.id
           new == Rebuilt(Without(p, id))
           d == WithList(mem, l, new.slice)
           b == new.arrays
<1>1. /\ arrays' = b /\ maps' = maps /\ Rest /\ mem' = mem
      /\ req' = [req EXCEPT ![c] = [pc |-> "changed", op |-> r.op, cfg |-> d]]
  BY DEF KeepOthers, List, SetList, Changed, WithList, Rest, Begins
<1>2. /\ Good(mem, arrays, maps) /\ Apart(mem, mem) /\ OwnMaps(mem, arrays)
      /\ HeapIn(arrays, maps) /\ ConfigIn(mem, arrays, maps)
  BY GoodMem DEF Begins
<1>3. maps'[1] # Null /\ maps[1] # Null
  BY <1>1 DEF Begins, Own
<1>4. new = Rebuilt(Without(p, id)) /\ b = new.arrays /\ d = WithList(mem, l, new.slice)
  OBVIOUS
<1>0. /\ r \in Requests
      /\ \/ r.op = "DeleteUser" /\ l = "users"
         \/ r.op = "DeleteGroup" /\ l = "groups"
         \/ r.op = "DeleteAlertRule" /\ l = "rules"
         \/ r.op = "DeleteChannel" /\ l = "channels"
  BY DEF Begins
<1>5. p = Elems(arrays, mem.lists[l]) /\ id = r.id
  OBVIOUS
<1> HIDE DEF new, d, b, r, p, id
<1>6. Good(mem, b, maps) /\ Good(d, b, maps)
  BY <1>1, <1>3, GoodAfter DEF Begins
<1>7. /\ InForce(mem, b, maps) = Value
      /\ InForce(d, b, maps) = ListValue(Value, l, Without(Value.lists[l], id))
  BY ONLY <1>2, <1>4, <1>5, <1>6, l \in Lists, RemoveValue DEF Value
<1>8. May(Value, InForce(d, b, maps))
  <2> DEFINE w == InForce(d, b, maps)
  <2>1. w = [Value EXCEPT !.lists[l] = Without(@, r.id)]
    BY <1>5, <1>7 DEF ListValue
  <2> HIDE DEF w
  <2>2. May(Value, w)
    BY ONLY <1>0, <2>1, MayRemove
  <2> QED
    BY <2>2 DEF w
<1>9. Outcome(d, b, maps)
  BY <1>7, <1>8 DEF Outcome
<1>10. IsSeq(p) /\ Len(p) = mem.lists[l].len /\ \A i \in 1..Len(p) : p[i] = arrays[mem.lists[l].arr][i]
  <2>1. SliceIn(mem.lists[l], l, arrays, maps)
    BY <1>2 DEF ConfigIn
  <2> QED
    BY <1>2, <2>1, ElemsIs DEF p
<1>11. /\ IsSeq(Without(p, id))
       /\ \E f \in [1..Len(Without(p, id)) -> 1..Len(p)] :
             /\ \A i, j \in 1..Len(Without(p, id)) : f[i] = f[j] => i = j
             /\ \A i \in 1..Len(Without(p, id)) : Without(p, id)[i] = p[f[i]] /\ Without(p, id)[i] = p[f[i]]
  <2>1. Len(p) = Len(p) /\ \A i \in 1..Len(p) : p[i].id = p[i].id
    OBVIOUS
  <2> QED
    BY ONLY <1>10, <2>1, SamePlaces
<1>12. /\ new.slice.len = Len(Without(p, id)) /\ new.slice.arr = Len(arrays) + 1
       /\ \A i \in 1..Len(Without(p, id)) : b[new.slice.arr][i] = Without(p, id)[i]
       /\ \A x \in 1..Len(arrays) : b[x] = arrays[x]
  BY ONLY <1>2, <1>4, <1>11, RebuiltIs
<1>13. "rules" \in Lists
  BY DEF Lists
<1>14. \A i \in 1..mem.lists["rules"].len :
           b[mem.lists["rules"].arr][i] = arrays[mem.lists["rules"].arr][i]
  BY <1>2, <1>12, <1>13, WithinArrays
<1>15. OwnMaps(mem, b)
  BY <1>2, <1>14, OwnSame
<1>16. d.lists[l] = new.slice /\ \A k \in Lists \ {l} : d.lists[k] = mem.lists[k]
  BY <1>2, <1>4, WithListIs
<1>17. OwnMaps(d, b)
  <2>1. CASE l # "rules"
    <3>1. d.lists["rules"] = mem.lists["rules"]
      BY <1>13, <1>16, <2>1
    <3> QED
      BY <1>15, <3>1 DEF OwnMaps
  <2>2. CASE l = "rules"
    <3>1. PICK f \in [1..Len(Without(p, id)) -> 1..Len(p)] :
             /\ \A i, j \in 1..Len(Without(p, id)) : f[i] = f[j] => i = j
             /\ \A i \in 1..Len(Without(p, id)) : Without(p, id)[i] = p[f[i]] /\ Without(p, id)[i] = p[f[i]]
      BY <1>11
    <3>5. /\ d.lists["rules"].len = Len(Without(p, id)) /\ d.lists["rules"].arr = new.slice.arr
          /\ mem.lists["rules"] = mem.lists[l]
      BY <1>12, <1>16, <2>2
    <3>2. \A i \in 1..d.lists["rules"].len :
             f[i] \in 1..Len(p) /\ b[d.lists["rules"].arr][i] = arrays[mem.lists["rules"].arr][f[i]]
      BY ONLY <1>10, <1>12, <3>1, <3>5
    <3>3. \A i, j \in 1..d.lists["rules"].len : f[i] = f[j] => i = j
      BY <1>12, <1>16, <2>2, <3>1
    <3>4. \A x, y \in 1..Len(p) :
             arrays[mem.lists["rules"].arr][x].silenced = arrays[mem.lists["rules"].arr][y].silenced => x = y
      BY <1>2, <1>10, <2>2 DEF OwnMaps
    <3>6. ASSUME NEW x \in 1..d.lists["rules"].len, NEW y \in 1..d.lists["rules"].len,
                 b[d.lists["rules"].arr][x].silenced = b[d.lists["rules"].arr][y].silenced
          PROVE  x = y
      <4>1. /\ f[x] \in 1..Len(p) /\ f[y] \in 1..Len(p)
            /\ arrays[mem.lists["rules"].arr][f[x]].silenced = arrays[mem.lists["rules"].arr][f[y]].silenced
        BY ONLY <3>2, <3>6
      <4>2. f[x] = f[y]
        BY ONLY <3>4, <4>1
      <4> QED
        BY ONLY <3>3, <4>2
    <3> QED
      BY ONLY <3>6 DEF OwnMaps
  <2> QED
    BY <2>1, <2>2
<1>18. OwnAfter(d, arrays', maps') /\ Outcome(d, arrays', maps')
  BY <1>1, <1>3, <1>9, <1>15, <1>17 DEF OwnAfter
<1> QED
  BY <1>1, <1>18 DEF Answers

\* A handler that works in place keeps its copy.
LEMMA InPlaceAnswers ==
  ASSUME NEW c, Begins(c), Changed(c, req[c].cfg), Rest, maps'[1] # Null, OwnMaps(mem, arrays'),
         May(Value, InForce(mem, arrays', maps'))
  PROVE  Answers(c)
<1>1. req' = [req EXCEPT ![c] = [pc |-> "changed", op |-> req[c].r.op, cfg |-> mem]]
  BY DEF Changed, Begins
<1>2. OwnAfter(mem, arrays', maps') /\ Outcome(mem, arrays', maps')
  BY DEF OwnAfter, Outcome
<1> QED
  BY <1>1, <1>2 DEF Answers

LEMMA GoodInPlace ==
  ASSUME NEW c, Begins(c), Heap', Changed(c, req[c].cfg), Rest, maps'[1] # Null
  PROVE  Good(mem, arrays', maps')
<1>1. req' = [req EXCEPT ![c] = [pc |-> "changed", op |-> req[c].r.op, cfg |-> mem]] /\ mem' = mem
  BY DEF Changed, Begins, Rest
<1> QED
  BY <1>1, GoodAfter DEF Begins

\* A field of one entry is changed in place.
LEMMA SetFieldAnswers ==
  ASSUME NEW c, Begins(c), Heap', NEW l \in Lists, NEW f, f # "silenced", NEW x,
         SetField(c, l, req[c].r.id, f, x), Has(List(c, l), req[c].r.id),
         \/ req[c].r.op = "UpdateUser" /\ l = "users" /\ f = "rights" /\ x = req[c].r.val
         \/ req[c].r.op = "ChangePassword" /\ l = "users" /\ f = "password" /\ x = req[c].r.val
         \/ req[c].r.op = "UpdateAlertRule" /\ l = "rules" /\ f = "condition" /\ x = req[c].r.val
         \/ req[c].r.op = "ToggleAlertRule" /\ l = "rules" /\ f = "enabled" /\ x = ~Rule(c).enabled
  PROVE  Answers(c)
<1> DEFINE r == req[c].r
           p == Elems(arrays, mem.lists[l])
           j == First(p, r.id)
           b == FieldWritten(arrays, mem.lists[l], j, f, x)
           id == r.id
<1>1. /\ arrays' = b /\ maps' = maps /\ Rest /\ mem' = mem /\ Changed(c, req[c].cfg)
      /\ List(c, l) = p /\ Has(p, id)
  BY DEF SetField, List, Rest, Begins, FieldWritten
<1>2. /\ Good(mem, arrays, maps) /\ Apart(mem, mem) /\ OwnMaps(mem, arrays)
      /\ HeapIn(arrays, maps) /\ ConfigIn(mem, arrays, maps)
  BY GoodMem DEF Begins
<1>3. maps'[1] # Null /\ maps[1] # Null
  BY <1>1 DEF Begins, Own
<1>4. r \in Requests
  BY DEF Begins
<1>5. /\ p = Elems(arrays, mem.lists[l]) /\ j = First(p, id) /\ id = r.id
      /\ b = FieldWritten(arrays, mem.lists[l], j, f, x)
  OBVIOUS
<1>6. r.op = "ToggleAlertRule" => Rule(c) = p[j] /\ l = "rules"
  BY DEF Rule, List, Begins
<1> HIDE DEF p, j, b, r, id
<1>7. Good(mem, b, maps)
  BY <1>1, <1>3, GoodInPlace
<1>8. LET q == Value.lists[l]
      IN  /\ Has(q, id) /\ First(q, id) = j /\ j \in 1..mem.lists[l].len
          /\ InForce(mem, b, maps) = FieldSet(Value, l, j, f, x)
  <2>1. Has(Elems(arrays, mem.lists[l]), id) /\ j = First(Elems(arrays, mem.lists[l]), id)
    BY ONLY <1>1, <1>5
  <2>2. b = FieldWritten(arrays, mem.lists[l], j, f, x)
    BY ONLY <1>5
  <2> QED
    BY ONLY <1>2, <1>7, <2>1, <2>2, l \in Lists, f # "silenced", FieldValue DEF Value
<1>9. /\ IsSeq(p) /\ Len(p) = mem.lists[l].len
      /\ \A i \in 1..mem.lists[l].len :
            /\ p[i] = arrays[mem.lists[l].arr][i] /\ EntryIn(l, p[i], maps)
            /\ Value.lists[l][i] = StoredEntry(l, p[i], maps)
  BY ONLY <1>2, <1>5, l \in Lists, ListIs DEF Value
<1>10. r.op = "ToggleAlertRule" => x = ~Value.lists[l][j].enabled
  <2> SUFFICES ASSUME r.op = "ToggleAlertRule" PROVE x = ~Value.lists[l][j].enabled
    OBVIOUS
  <2>1. x = ~p[j].enabled /\ l = "rules"
    BY <1>6 DEF r
  <2>2. EntryIn("rules", p[j], maps) /\ Value.lists[l][j] = StoredEntry("rules", p[j], maps)
    BY <1>8, <1>9, <2>1
  <2>3. "enabled" \in Fields["rules"]
    BY DEF Fields
  <2>4. Value.lists[l][j].enabled = p[j].enabled
    BY ONLY <2>2, <2>3, StoredField
  <2> QED
    BY <2>1, <2>4
<1>11. May(Value, InForce(mem, b, maps))
  <2> DEFINE w == InForce(mem, b, maps)
             v == Value
  <2>1. Has(v.lists[l], r.id) /\ j = First(v.lists[l], r.id) /\ w = FieldSet(v, l, j, f, x)
    BY <1>5, <1>8
  <2>2. \/ r.op = "UpdateUser" /\ l = "users" /\ f = "rights" /\ x = r.val
        \/ r.op = "ChangePassword" /\ l = "users" /\ f = "password" /\ x = r.val
        \/ r.op = "UpdateAlertRule" /\ l = "rules" /\ f = "condition" /\ x = r.val
        \/ r.op = "ToggleAlertRule" /\ l = "rules" /\ f = "enabled" /\ x = ~v.lists[l][j].enabled
    BY <1>10 DEF r
  <2> HIDE DEF w, v
  <2>3. May(v, w)
    <3>1. CASE r.op = "ToggleAlertRule" /\ l = "rules" /\ f = "enabled" /\ x = ~v.lists[l][j].enabled
      BY ONLY <1>4, <2>1, <3>1, MayUpdate
    <3>2. CASE r.op = "UpdateUser" /\ l = "users" /\ f = "rights" /\ x = r.val
      BY ONLY <1>4, <2>1, <3>2, MayUpdate
    <3>3. CASE r.op = "ChangePassword" /\ l = "users" /\ f = "password" /\ x = r.val
      BY ONLY <1>4, <2>1, <3>3, MayUpdate
    <3>4. CASE r.op = "UpdateAlertRule" /\ l = "rules" /\ f = "condition" /\ x = r.val
      BY ONLY <1>4, <2>1, <3>4, MayUpdate
    <3> QED
      BY <2>2, <3>1, <3>2, <3>3, <3>4
  <2> QED
    BY <2>3 DEF v, w
<1>12. OwnMaps(mem, b)
  <2> DEFINE s == mem.lists["rules"]
             d == [arrays[mem.lists[l].arr][j] EXCEPT ![f] = x]
             arr == [arrays[mem.lists[l].arr] EXCEPT ![j] = d]
  <2>1. "rules" \in Lists
    BY DEF Lists
  <2>2. \A i \in 1..s.len : s.arr \in 1..Len(arrays) /\ i \in 1..Len(arrays[s.arr])
    BY <1>2, <2>1, WithinArrays
  <2>3. /\ IsSeq(arrays) /\ mem.lists[l].arr \in 1..Len(arrays) /\ IsSeq(arrays[mem.lists[l].arr])
        /\ j \in 1..Len(arrays[mem.lists[l].arr])
    BY <1>2, <1>8, WithinArrays DEF HeapIn
  <2>4. d.silenced = arrays[mem.lists[l].arr][j].silenced
    OBVIOUS
  <2>5. b = [arrays EXCEPT ![mem.lists[l].arr] = arr]
    BY <1>5 DEF FieldWritten
  <2> HIDE DEF d
  <2>6. \A i \in 1..Len(arrays[mem.lists[l].arr]) : arr[i] = IF i = j THEN d ELSE arrays[mem.lists[l].arr][i]
    BY <2>3 DEF IsSeq
  <2> HIDE DEF arr
  <2>7. \A y \in 1..Len(arrays) : b[y] = IF y = mem.lists[l].arr THEN arr ELSE arrays[y]
    BY <2>3, <2>5 DEF IsSeq
  <2>8. \A i \in 1..s.len : b[s.arr][i].silenced = arrays[s.arr][i].silenced
    BY <2>2, <2>4, <2>6, <2>7
  <2> QED
    BY <1>2, <2>8, OwnSame
<1> QED
  BY <1>1, <1>3, <1>11, <1>12, InPlaceAnswers

\* The value null is not a set with one of these hosts in it.
HostsAreNotNull == \A r \in Requests : r.op = "RegisterAgent" => r.host \notin Null

LEMMA SetScalarAnswers ==
  ASSUME NEW c, Begins(c), Heap', NEW f, NEW x, SetScalar(c, f, x),
         \/ req[c].r.op = "SaveSettings" /\ f = "settings" /\ x = req[c].r.val
         \/ req[c].r.op = "EnableMFA" /\ f = "mfa" /\ x = TRUE
         \/ req[c].r.op = "DisableMFA" /\ f = "mfa" /\ x = FALSE
  PROVE  Answers(c)
<1> DEFINE r == req[c].r
           d == [mem EXCEPT ![f] = x]
<1>1. /\ arrays' = arrays /\ maps' = maps /\ Rest /\ mem' = mem
      /\ req' = [req EXCEPT ![c] = [pc |-> "changed", op |-> r.op, cfg |-> d]]
  BY DEF SetScalar, Changed, Rest, Begins, heap
<1>2. Good(mem, arrays, maps) /\ OwnMaps(mem, arrays) /\ ConfigIn(mem, arrays, maps)
  BY GoodMem DEF Begins
<1>3. maps'[1] # Null
  BY <1>1 DEF Begins, Own
<1>4. r \in Requests /\ f \in {"settings", "mfa"} /\ d = [mem EXCEPT ![f] = x]
  BY DEF Begins
<1>5. \/ r.op = "SaveSettings" /\ f = "settings" /\ x = r.val
      \/ r.op = "EnableMFA" /\ f = "mfa" /\ x = TRUE
      \/ r.op = "DisableMFA" /\ f = "mfa" /\ x = FALSE
  OBVIOUS
<1>6. d.lists = mem.lists
  BY <1>2, <1>4 DEF ConfigIn
<1> HIDE DEF d, r
<1>7. Good(d, arrays, maps)
  <2>1. Good(d, arrays', maps')
    BY <1>1, <1>3, GoodAfter DEF Begins
  <2> QED
    BY <1>1, <2>1
<1>8. InForce(d, arrays, maps) = [Value EXCEPT ![f] = x]
  BY ONLY <1>2, <1>4, <1>7, ScalarValue DEF Value
<1>9. May(Value, InForce(d, arrays, maps))
  <2> DEFINE v == Value
             w == InForce(d, arrays, maps)
  <2>1. w = [v EXCEPT ![f] = x]
    BY <1>8
  <2> HIDE DEF v, w
  <2>2. May(v, w)
    <3>1. CASE r.op = "SaveSettings" /\ f = "settings" /\ x = r.val
      BY ONLY <1>4, <2>1, <3>1, MaySet
    <3>2. CASE r.op = "EnableMFA" /\ f = "mfa" /\ x = TRUE
      BY ONLY <1>4, <2>1, <3>2, MaySet
    <3>3. CASE r.op = "DisableMFA" /\ f = "mfa" /\ x = FALSE
      BY ONLY <1>4, <2>1, <3>3, MaySet
    <3> QED
      BY <1>5, <3>1, <3>2, <3>3
  <2> QED
    BY <2>2 DEF v, w
<1>10. OwnMaps(d, arrays)
  BY <1>2, <1>6 DEF OwnMaps
<1>11. OwnAfter(d, arrays', maps') /\ Outcome(d, arrays', maps')
  BY <1>1, <1>2, <1>3, <1>9, <1>10 DEF OwnAfter, Outcome, Value
<1> QED
  BY <1>1, <1>11 DEF Answers

LEMMA UpdateGroupAnswers ==
  ASSUME NEW c, Begins(c), Heap', HandleUpdateGroup(c)
  PROVE  Answers(c)
<1> DEFINE r == req[c].r
           gs == mem.lists["groups"]
           us == mem.lists["users"]
           p == Elems(arrays, gs)
           j == First(p, r.id)
           b == GroupWritten(arrays, gs, us, j, r)
<1>0. List(c, "groups") = p /\ req[c].cfg = mem /\ r \in Requests /\ r.op = "UpdateGroup"
  BY DEF HandleUpdateGroup, Working, List, Begins
<1>1. CASE ~Has(p, r.id)
  BY <1>0, <1>1 DEF HandleUpdateGroup, Answers
<1>2. CASE Has(p, r.id)
  <2>1. arrays' = b /\ maps' = maps /\ Rest /\ mem' = mem /\ Changed(c, req[c].cfg)
    BY <1>0, <1>2 DEF HandleUpdateGroup, Rest, Membership, GroupWritten
  <2>2. /\ Good(mem, arrays, maps) /\ Apart(mem, mem) /\ OwnMaps(mem, arrays)
        /\ HeapIn(arrays, maps) /\ ConfigIn(mem, arrays, maps)
    BY GoodMem DEF Begins
  <2>3. maps'[1] # Null /\ maps[1] # Null
    BY <2>1 DEF Begins, Own
  <2>4. Has(Elems(arrays, mem.lists["groups"]), r.id) /\ j = First(Elems(arrays, mem.lists["groups"]), r.id)
    BY <1>2
  <2>5. b = GroupWritten(arrays, mem.lists["groups"], mem.lists["users"], j, r)
    OBVIOUS
  <2> HIDE DEF b, j, r, p
  <2>6. Good(mem, b, maps)
    BY <2>1, <2>3, GoodInPlace
  <2>7. LET v == Value
        IN  /\ Has(v.lists["groups"], r.id) /\ First(v.lists["groups"], r.id) = j
            /\ InForce(mem, b, maps) = GroupSet(v, j, r)
    BY ONLY <2>2, <2>4, <2>5, <2>6, GroupValue DEF Value
  <2>8. May(Value, InForce(mem, b, maps))
    BY ONLY <1>0, <2>7, MayUpdateGroup
  <2>9. OwnMaps(mem, b)
    <3>1. "rules" \in Lists /\ "groups" \in Lists /\ "users" \in Lists
      BY DEF Lists
    <3>2. mem.lists["rules"].arr # gs.arr /\ mem.lists["rules"].arr # us.arr
      BY <2>2, <3>1 DEF Apart
    <3>3. \A i \in 1..mem.lists["rules"].len : mem.lists["rules"].arr \in 1..Len(arrays)
      BY <2>2, <3>1, WithinArrays
    <3>4. \A x \in 1..Len(arrays) : x # gs.arr /\ x # us.arr => b[x] = arrays[x]
      BY <2>2, <2>5 DEF GroupWritten, HeapIn, IsSeq
    <3> QED
      BY <2>2, <3>2, <3>3, <3>4, OwnSame
  <2> QED
    BY <2>1, <2>3, <2>8, <2>9, InPlaceAnswers
<1> QED
  BY <1>1, <1>2

\* The hosts that one rule is silenced for are changed, in the rule's own map.
LEMMA SetMapAnswers ==
  ASSUME NEW c, Begins(c), Heap', Has(List(c, "rules"), req[c].r.id), NEW keys,
         SetMap(c, Rule(c).silenced, keys),
         \/ /\ req[c].r.op = "SilenceAlert" /\ ~Rule(c).nil
            /\ keys = maps[Rule(c).silenced] \cup {req[c].r.host}
         \/ req[c].r.op = "UnsilenceAlert" /\ keys = maps[Rule(c).silenced] \ {req[c].r.host}
  PROVE  Answers(c)
<1> DEFINE r == req[c].r
           p == Elems(arrays, mem.lists["rules"])
           id == r.id
           j == First(p, id)
           k == p[j].silenced
           n == MapWritten(maps, k, keys)
<1>1. /\ arrays' = arrays /\ maps' = n /\ Rest /\ mem' = mem /\ Changed(c, req[c].cfg)
      /\ Has(p, id) /\ r \in Requests
  BY DEF SetMap, List, Rule, Rest, Begins, MapWritten
<1>2. /\ Good(mem, arrays, maps) /\ OwnMaps(mem, arrays) /\ HeapIn(arrays, maps) /\ ConfigIn(mem, arrays, maps)
  BY GoodMem DEF Begins
<1>3. maps[1] # Null
  BY DEF Begins, Own
<1>4. \/ r.op = "SilenceAlert" /\ ~p[j].nil /\ keys = maps[k] \cup {r.host}
      \/ r.op = "UnsilenceAlert" /\ keys = maps[k] \ {r.host}
  BY DEF Rule, List, Begins
<1>5. /\ p = Elems(arrays, mem.lists["rules"]) /\ id = r.id /\ j = First(p, id) /\ k = p[j].silenced
      /\ n = MapWritten(maps, k, keys)
  OBVIOUS
<1> HIDE DEF p, id, j, k, n, r
<1>6. IsSeq(p) /\ Len(p) = mem.lists["rules"].len /\ \A i \in 1..Len(p) : EntryIn("rules", p[i], maps)
  <2>1. SliceIn(mem.lists["rules"], "rules", arrays, maps)
    BY <1>2 DEF ConfigIn, Lists
  <2> QED
    BY <1>2, <2>1, ElemsIs DEF p
<1>7. k \in 2..Len(maps)
  <2>1. j \in 1..Len(p)
    BY <1>1, <1>5, <1>6, FirstIs
  <2> QED
    BY <1>5, <1>6, <2>1 DEF EntryIn
<1>8. n[1] = maps[1]
  <2>1. 1 \in 1..Len(maps) /\ k # 1
    BY <1>2, <1>7 DEF HeapIn, IsSeq
  <2> QED
    BY <1>2, <1>5, <2>1 DEF HeapIn, IsSeq, MapWritten
<1>9. Good(mem, arrays, n)
  <2>1. Good(mem, arrays', maps')
    BY <1>1, <1>3, <1>8, GoodInPlace
  <2> QED
    BY <1>1, <2>1
<1>10. LET q == Value.lists["rules"]
       IN  /\ Has(q, id) /\ First(q, id) = j /\ q[j].silenced = maps[k] /\ q[j].nil = p[j].nil
           /\ InForce(mem, arrays, n) = FieldSet(Value, "rules", j, "silenced", keys)
  <2>1. /\ Has(Elems(arrays, mem.lists["rules"]), id) /\ j = First(Elems(arrays, mem.lists["rules"]), id)
        /\ k = Elems(arrays, mem.lists["rules"])[j].silenced
    BY ONLY <1>1, <1>5
  <2> QED
    BY ONLY <1>2, <1>5, <1>9, <2>1, SilenceValue DEF Value
<1>11. May(Value, InForce(mem, arrays, n))
  <2> DEFINE v == Value
             w == InForce(mem, arrays, n)
  <2>1. /\ Has(v.lists["rules"], r.id) /\ j = First(v.lists["rules"], r.id)
        /\ w = FieldSet(v, "rules", j, "silenced", keys)
        /\ v.lists["rules"][j].silenced = maps[k] /\ v.lists["rules"][j].nil = p[j].nil
    BY <1>5, <1>10
  <2> HIDE DEF v, w
  <2>2. May(v, w)
    <3>1. r \in Requests
      BY <1>1
    <3>2. \/ /\ r.op = "SilenceAlert" /\ ~v.lists["rules"][j].nil
             /\ keys = v.lists["rules"][j].silenced \cup {r.host}
          \/ r.op = "UnsilenceAlert" /\ keys = v.lists["rules"][j].silenced \ {r.host}
      BY <1>4, <2>1
    <3> QED
      BY ONLY <2>1, <3>1, <3>2, MaySilence
  <2> QED
    BY <2>2 DEF v, w
<1> QED
  BY <1>1, <1>2, <1>3, <1>8, <1>11, InPlaceAnswers

\* A rule whose map is nil gets one that no other rule has.
LEMMA MakeMapAnswers ==
  ASSUME NEW c, Begins(c), Heap', Has(List(c, "rules"), req[c].r.id), Rule(c).nil,
         req[c].r.op = "SilenceAlert", MakeMap(c, {req[c].r.host})
  PROVE  Answers(c)
<1> DEFINE r == req[c].r
           s == mem.lists["rules"]
           p == Elems(arrays, s)
           id == r.id
           j == First(p, id)
           keys == {r.host}
           n == Append(maps, keys)
           k == Len(maps) + 1
           b == RuleWritten(arrays, s, j, k)
<1>1. /\ arrays' = b /\ maps' = n /\ Rest /\ mem' = mem /\ Changed(c, req[c].cfg)
      /\ Has(p, id) /\ r \in Requests /\ r.op = "SilenceAlert" /\ p[j].nil
  BY DEF MakeMap, List, Rule, Rest, Begins, RuleWritten
<1>2. /\ Good(mem, arrays, maps) /\ Apart(mem, mem) /\ OwnMaps(mem, arrays)
      /\ HeapIn(arrays, maps) /\ ConfigIn(mem, arrays, maps)
  BY GoodMem DEF Begins
<1>3. maps[1] # Null /\ n[1] = maps[1]
  BY <1>2, SeqAppend DEF Begins, Own, HeapIn, IsSeq
<1>4. j = First(p, id) /\ n = Append(maps, keys) /\ b = RuleWritten(arrays, s, j, k) /\ k = Len(maps) + 1
  OBVIOUS
<1> HIDE DEF j, n, b, k
<1>5. Good(mem, b, n)
  <2>1. Good(mem, arrays', maps')
    BY <1>1, <1>3, GoodInPlace
  <2> QED
    BY <1>1, <2>1
<1>6. LET q == Value.lists["rules"]
      IN  /\ Has(q, id) /\ First(q, id) = j /\ j \in 1..mem.lists["rules"].len /\ q[j].nil = p[j].nil
          /\ InForce(mem, b, n) = MapMade(Value, j, keys)
  <2>1. Has(Elems(arrays, mem.lists["rules"]), id) /\ j = First(Elems(arrays, mem.lists["rules"]), id)
    BY <1>1, <1>4
  <2>2. n = Append(maps, keys) /\ b = RuleWritten(arrays, mem.lists["rules"], j, Len(maps) + 1)
    BY <1>4
  <2> HIDE DEF id, keys
  <2>3. MadeInForce(id, j, keys, b, n)
    BY ONLY <1>2, <1>5, <2>1, <2>2, MakeMapValue
  <2> QED
    BY ONLY <2>3 DEF MadeInForce, Value
<1>7. May(Value, InForce(mem, b, n))
  <2> DEFINE v == Value
             w == InForce(mem, b, n)
  <2>1. /\ Has(v.lists["rules"], r.id) /\ j = First(v.lists["rules"], r.id) /\ v.lists["rules"][j].nil
        /\ w = MapMade(v, j, {r.host})
    BY <1>1, <1>6
  <2> HIDE DEF v, w
  <2>2. May(v, w)
    BY ONLY <1>1, <2>1, MayMakeMap
  <2> QED
    BY <2>2 DEF v, w
<1>8. OwnMaps(mem, b)
  <2>1. s.arr = mem.lists["rules"].arr /\ s.len = mem.lists["rules"].len /\ "rules" \in Lists
    BY DEF Lists
  <2>2. \A i \in 1..s.len : /\ s.arr \in 1..Len(arrays) /\ i \in 1..Len(arrays[s.arr])
                            /\ EntryIn("rules", arrays[s.arr][i], maps)
    BY <1>2, <2>1, WithinArrays
  <2>3. IsSeq(maps) /\ Len(maps) \in Nat /\ k \notin 1..Len(maps)
    BY <1>2, <1>4 DEF HeapIn, IsSeq
  <2>4. \A i \in 1..s.len : arrays[s.arr][i].silenced \in 1..Len(maps) /\ "silenced" \in DOMAIN arrays[s.arr][i]
    <3> TAKE i \in 1..s.len
    <3> DEFINE e == arrays[s.arr][i]
    <3>1. EntryIn("rules", e, maps)
      BY <2>2
    <3> HIDE DEF e
    <3>2. e = [f \in Fields["rules"] |-> e[f]] /\ e.silenced \in 2..Len(maps)
      BY <3>1 DEF EntryIn, IsEntry
    <3>3. "silenced" \in DOMAIN e
      BY <3>2 DEF Fields
    <3>4. e.silenced \in 1..Len(maps)
      BY <2>3, <3>2
    <3> QED
      BY <3>3, <3>4 DEF e
  <2>5. \A i \in 1..s.len : b[s.arr][i].silenced = IF i = j THEN k ELSE arrays[s.arr][i].silenced
    <3> TAKE i \in 1..s.len
    <3>1. IsSeq(arrays) /\ IsSeq(arrays[s.arr])
      BY <1>2, <2>2 DEF HeapIn
    <3>2. b[s.arr] = [arrays[s.arr] EXCEPT ![j] = [@ EXCEPT !.silenced = k, !.nil = FALSE]]
      BY <1>4, <2>2, <3>1 DEF RuleWritten, IsSeq
    <3> DEFINE x == arrays[s.arr]
    <3>3. IsSeq(x) /\ i \in 1..Len(x) /\ "silenced" \in DOMAIN x[i]
      BY <2>2, <2>4, <3>1
    <3>4. b[s.arr] = [x EXCEPT ![j] = [@ EXCEPT !.silenced = k, !.nil = FALSE]]
      BY <3>2
    <3> HIDE DEF x
    <3>5. i \in DOMAIN x
      BY ONLY <3>3 DEF IsSeq
    <3>6. b[s.arr][i] = IF i = j THEN [x[i] EXCEPT !.silenced = k, !.nil = FALSE] ELSE x[i]
      BY ONLY <3>4, <3>5
    <3>7. b[s.arr][i].silenced = IF i = j THEN k ELSE x[i].silenced
      BY ONLY <3>3, <3>6
    <3> QED
      BY <3>7 DEF x
  <2>6. \A i, h \in 1..s.len : arrays[s.arr][i].silenced = arrays[s.arr][h].silenced => i = h
    BY <1>2 DEF OwnMaps
  <2>7. ASSUME NEW i \in 1..s.len, NEW h \in 1..s.len, b[s.arr][i].silenced = b[s.arr][h].silenced
        PROVE  i = h
    <3> DEFINE x(y) == arrays[s.arr][y].silenced
               z(y) == b[s.arr][y].silenced
    <3>1. x(i) # k /\ x(h) # k
      BY <2>3, <2>4
    <3>2. z(i) = (IF i = j THEN k ELSE x(i)) /\ z(h) = (IF h = j THEN k ELSE x(h)) /\ z(i) = z(h)
      BY <2>5, <2>7
    <3>3. x(i) = x(h) => i = h
      BY <2>6
    <3> HIDE DEF x, z
    <3> QED
      BY ONLY <3>1, <3>2, <3>3
  <2> QED
    BY <2>7 DEF OwnMaps
<1> QED
  BY <1>1, <1>3, <1>7, <1>8, InPlaceAnswers

\* The secret of an agent that registers.
LEMMA RegisterAnswers ==
  ASSUME NEW c, Begins(c), Heap', HostsAreNotNull, HandleRegisterAgent(c)
  PROVE  Answers(c)
<1> DEFINE r == req[c].r
           n == [maps EXCEPT ![1] = @ \cup {r.host}]
<1>1. CASE req[c].cfg.secrets = Null
  BY <1>1 DEF HandleRegisterAgent, Answers
<1>2. CASE req[c].cfg.secrets # Null
  <2>1. /\ Good(mem, arrays, maps) /\ OwnMaps(mem, arrays) /\ HeapIn(arrays, maps) /\ ConfigIn(mem, arrays, maps)
    BY GoodMem DEF Begins
  <2>2. mem.secrets = 1 /\ mem.secrets # Null /\ mem.key
    BY <1>2, <2>1 DEF ConfigIn, Begins, IInv, RegistersWithKey, HandleRegisterAgent
  <2>3. /\ arrays' = arrays /\ maps' = n /\ Rest /\ mem' = mem /\ Changed(c, req[c].cfg)
        /\ r \in Requests /\ r.op = "RegisterAgent"
    BY <1>2, <2>2 DEF HandleRegisterAgent, SetMap, Rest, Begins, Working
  <2>4. n = [maps EXCEPT ![1] = @ \cup {r.host}]
    OBVIOUS
  <2> HIDE DEF n, r
  <2>5. n[1] = maps[1] \cup {r.host}
    BY <2>1, <2>4 DEF HeapIn, IsSeq
  <2>6. n[1] # Null
    BY <2>3, <2>5 DEF HostsAreNotNull
  <2>7. Good(mem, arrays, n)
    <3>1. Good(mem, arrays', maps')
      BY <2>3, <2>6, GoodInPlace
    <3> QED
      BY <2>3, <3>1
  <2>8. InForce(mem, arrays, n) = [Value EXCEPT !.secrets = @ \cup {r.host}]
    BY <2>1, <2>2, <2>4, <2>7, RegisterValue DEF Value
  <2>9. Value.key = mem.key
    BY <2>1, ViewIs DEF Value, Good, ConfigIn
  <2>10. May(Value, InForce(mem, arrays, n))
    <3> DEFINE v == Value
               w == InForce(mem, arrays, n)
               x == v.secrets \cup {r.host}
    <3>1. w = [v EXCEPT !["secrets"] = x] /\ x = v.secrets \cup {r.host} /\ v.key
      BY <2>2, <2>8, <2>9
    <3> HIDE DEF v, w, x
    <3>2. May(v, w)
      BY ONLY <2>3, <3>1, MaySet
    <3> QED
      BY <3>2 DEF v, w
  <2> QED
    BY <2>1, <2>3, <2>6, <2>10, InPlaceAnswers
<1> QED
  BY <1>1, <1>2

\* A new rule, with a map that no other rule has.
LEMMA CreateAlertRuleAnswers ==
  ASSUME NEW c, Begins(c), Heap', HandleCreateAlertRule(c)
  PROVE  Answers(c)
<1> DEFINE r == req[c].r
           k == Len(maps) + 1
           e == [r.entry EXCEPT !.silenced = k, !.nil = FALSE, !.enabled = TRUE]
           new == Appended(mem.lists["rules"], e)
           d == WithList(mem, "rules", new.slice)
           n == Append(maps, r.entry.silenced)
           b == new.arrays
           x == [r.entry EXCEPT !.enabled = TRUE, !.nil = FALSE]
<1>0. "rules" \in Lists /\ r \in Requests /\ r.op = "CreateAlertRule" /\ IsEntry("rules", r.entry)
  BY RequestsAssumption DEF Lists, Begins, HandleCreateAlertRule, Working, Adds
<1>1. /\ arrays' = b /\ maps' = n /\ Rest /\ mem' = mem
      /\ req' = [req EXCEPT ![c] = [pc |-> "changed", op |-> r.op, cfg |-> d]]
  BY DEF HandleCreateAlertRule, Changed, WithList, Rest, Begins
<1>2. /\ Good(mem, arrays, maps) /\ Apart(mem, mem) /\ OwnMaps(mem, arrays)
      /\ HeapIn(arrays, maps) /\ ConfigIn(mem, arrays, maps)
  BY GoodMem DEF Begins
<1>3. new = Appended(mem.lists["rules"], e) /\ b = new.arrays /\ d = WithList(mem, "rules", new.slice)
  OBVIOUS
<1>4. e = [f \in Fields["rules"] |-> e[f]] /\ e.silenced = k /\ x = [f \in Fields["rules"] |-> x[f]]
      /\ \A f \in Fields["rules"] : (f # "silenced" => x[f] = e[f]) /\ x.silenced = r.entry.silenced
  BY <1>0 DEF IsEntry, Fields
<1>5. IsSeq(maps) /\ 1 \in 1..Len(maps) /\ k \notin 1..Len(maps) /\ Len(maps) \in Nat
  BY <1>2 DEF HeapIn, IsSeq
<1>6. IsSeq(n) /\ Len(n) = k /\ n[k] = r.entry.silenced /\ \A i \in 1..Len(maps) : n[i] = maps[i]
  BY <1>5, SeqAppend
<1>7. x = [r.entry EXCEPT !.enabled = TRUE, !.nil = FALSE]
  OBVIOUS
<1> HIDE DEF new, d, b, r, e, n, k, x
<1>8. n[1] = maps[1] /\ maps[1] # Null /\ maps'[1] # Null /\ \A i \in 1..Len(maps) : i >= 2 => n[i] = maps[i]
  BY <1>1, <1>5, <1>6 DEF Begins, Own
<1>9. Good(mem, b, n) /\ Good(d, b, n)
  BY <1>1, <1>8, GoodAfter DEF Begins
<1>10. /\ InForce(mem, b, n) = Value
       /\ InForce(d, b, n) = ListValue(Value, "rules", Append(Value.lists["rules"], StoredEntry("rules", e, n)))
  BY ONLY <1>0, <1>2, <1>3, <1>8, <1>9, AppendValue DEF Value
<1>11. StoredEntry("rules", e, n) = x
  <2> DEFINE y == StoredEntry("rules", e, n)
  <2>1. y = [e EXCEPT !.silenced = r.entry.silenced]
    BY <1>4, <1>6 DEF StoredEntry
  <2>2. "silenced" \in Fields["rules"]
    BY DEF Fields
  <2> HIDE DEF y
  <2>3. y = [f \in Fields["rules"] |-> y[f]] /\ \A f \in Fields["rules"] : y[f] = x[f]
    BY <1>4, <2>1, <2>2
  <2>4. y = x
    BY <1>4, <2>3
  <2> QED
    BY <2>4 DEF y
<1>12. May(Value, InForce(d, b, n))
  <2> DEFINE w == InForce(d, b, n)
  <2>1. w = [Value EXCEPT !.lists["rules"] = Append(@, x)]
    BY <1>10, <1>11 DEF ListValue
  <2>2. x = IF r.op = "CreateAlertRule" THEN [r.entry EXCEPT !.enabled = TRUE, !.nil = FALSE] ELSE r.entry
    BY <1>0, <1>7
  <2>3. r.op \in DOMAIN Adds /\ "rules" = Adds[r.op] /\ r.op \notin {"CreateUser", "DeleteHost"}
    BY <1>0 DEF Adds
  <2> HIDE DEF w
  <2>4. May(Value, w)
    BY ONLY <1>0, <2>1, <2>2, <2>3, MayAdd
  <2> QED
    BY <2>4 DEF w
<1>13. Outcome(d, b, n)
  BY <1>10, <1>12 DEF Outcome
<1> DEFINE s == mem.lists["rules"]
<1>14. /\ new.slice.len = s.len + 1
       /\ \A i \in 1..s.len : b[new.slice.arr][i] = arrays[s.arr][i]
       /\ b[new.slice.arr][s.len + 1] = e
       /\ \A y \in 1..Len(arrays) : \A i \in 1..Len(arrays[y]) :
             y # s.arr \/ i # s.len + 1 => b[y][i] = arrays[y][i]
  <2>1. SliceIn(mem.lists["rules"], "rules", arrays, maps)
    BY <1>0, <1>2 DEF ConfigIn
  <2> QED
    BY ONLY <1>2, <1>3, <2>1, AppendedIs
<1>19. s.len \in Nat
  <2>1. SliceIn(s, "rules", arrays, maps)
    BY <1>0, <1>2 DEF ConfigIn
  <2> HIDE DEF s
  <2>2. s.arr \in 1..Len(arrays) /\ s.len \in 0..Len(arrays[s.arr])
    BY <2>1 DEF SliceIn
  <2>3. Len(arrays[s.arr]) \in Nat
    BY <1>2, <2>2 DEF HeapIn, IsSeq
  <2> QED
    BY <2>2, <2>3
<1>15. \A i \in 1..s.len : /\ s.arr \in 1..Len(arrays) /\ i \in 1..Len(arrays[s.arr]) /\ i # s.len + 1
                           /\ arrays[s.arr][i].silenced \in 1..Len(maps)
  <2>1. \A i \in 1..s.len : /\ s.arr \in 1..Len(arrays) /\ i \in 1..Len(arrays[s.arr])
                            /\ EntryIn("rules", arrays[s.arr][i], maps)
    BY <1>0, <1>2, WithinArrays
  <2>2. s.len \in Nat
    BY <1>19
  <2>3. \A i \in 1..s.len : arrays[s.arr][i].silenced \in 1..Len(maps)
    BY <1>5, <2>1 DEF EntryIn
  <2> QED
    BY <2>1, <2>2, <2>3
<1>16. OwnMaps(mem, b)
  <2>1. \A i \in 1..s.len : b[s.arr][i].silenced = arrays[s.arr][i].silenced
    BY <1>14, <1>15
  <2> QED
    BY <1>2, <2>1, OwnSame
<1>17. OwnMaps(d, b)
  <2>1. d.lists["rules"] = new.slice
    BY <1>0, <1>2, <1>3, WithListIs
  <2>2. \A i \in 1..(s.len + 1) : i \in 1..s.len \/ i = s.len + 1
    BY <1>19
  <2>3. \A i, j \in 1..s.len : arrays[s.arr][i].silenced = arrays[s.arr][j].silenced => i = j
    BY <1>2 DEF OwnMaps
  <2>4. \A i \in 1..s.len : b[new.slice.arr][i].silenced \in 1..Len(maps)
    BY <1>14, <1>15
  <2>5. b[new.slice.arr][s.len + 1].silenced \notin 1..Len(maps)
    BY <1>4, <1>5, <1>14
  <2>6. ASSUME NEW i \in 1..(s.len + 1), NEW j \in 1..(s.len + 1),
               b[new.slice.arr][i].silenced = b[new.slice.arr][j].silenced
        PROVE  i = j
    BY <1>14, <2>2, <2>3, <2>4, <2>5, <2>6
  <2> QED
    BY <1>14, <2>1, <2>6 DEF OwnMaps
<1>18. OwnAfter(d, arrays', maps') /\ Outcome(d, arrays', maps')
  BY <1>1, <1>8, <1>13, <1>16, <1>17 DEF OwnAfter
<1> QED
  BY <1>1, <1>18 DEF Answers

\* Modify changes a field of the first entry with the id, or answers 404.
LEMMA ModifyAnswers ==
  ASSUME NEW c, Begins(c), Heap', NEW l \in Lists, NEW f, f # "silenced", NEW x, Modify(c, l, f, x),
         \/ req[c].r.op = "UpdateUser" /\ l = "users" /\ f = "rights" /\ x = req[c].r.val
         \/ req[c].r.op = "ChangePassword" /\ l = "users" /\ f = "password" /\ x = req[c].r.val
         \/ req[c].r.op = "UpdateAlertRule" /\ l = "rules" /\ f = "condition" /\ x = req[c].r.val
         \/ req[c].r.op = "ToggleAlertRule" /\ l = "rules" /\ f = "enabled" /\ x = ~Rule(c).enabled
  PROVE  Answers(c)
<1>1. CASE Has(List(c, l), req[c].r.id)
  <2>1. SetField(c, l, req[c].r.id, f, x)
    BY <1>1 DEF Modify
  <2> QED
    BY <1>1, <2>1, SetFieldAnswers
<1>2. CASE ~Has(List(c, l), req[c].r.id)
  BY <1>2 DEF Modify, Answers
<1> QED
  BY <1>1, <1>2

\* Whatever the handler, it refuses, or does what its request promises.
LEMMA HandleAnswers ==
  ASSUME NEW c, Begins(c), Heap', HostsAreNotNull, Handle(c)
  PROVE  Answers(c)
<1> DEFINE r == req[c].r
<1>1. \A l : List(c, l) = Elems(arrays, mem.lists[l])
  BY DEF List, Begins
<1>2. ASSUME Refuse(c) PROVE Answers(c)
  BY <1>2 DEF Answers
<1>3. ASSUME NEW l \in Lists, l # "rules", AppendTo(c, l, r.entry), r.op \in DOMAIN Adds, Adds[r.op] = l,
             r.op \in {"CreateUser", "DeleteHost"} => ~Has(List(c, l), r.id)
      PROVE  Answers(c)
  BY <1>1, <1>3, AppendAnswers
<1>11. CASE HandleCreateUser(c)
  BY <1>11, <1>2, <1>3 DEF HandleCreateUser, Working, Adds, Lists
<1>12. CASE HandleDeleteUser(c)
  BY <1>12, <1>2, KeepOthersAnswers DEF HandleDeleteUser, Working, Lists
<1>13. CASE HandleUpdateUser(c)
  BY <1>13, ModifyAnswers DEF HandleUpdateUser, Working, Lists
<1>14. CASE HandleChangePassword(c)
  BY <1>14, ModifyAnswers DEF HandleChangePassword, Working, Lists
<1>15. CASE HandleCreateGroup(c)
  BY <1>15, <1>3 DEF HandleCreateGroup, Working, Adds, Lists
<1>16. CASE HandleUpdateGroup(c)
  BY <1>16, UpdateGroupAnswers
<1>17. CASE HandleDeleteGroup(c)
  BY <1>17, KeepOthersAnswers DEF HandleDeleteGroup, Working, Lists
<1>18. CASE HandleDeleteHost(c)
  BY <1>18, <1>2, <1>3 DEF HandleDeleteHost, Working, Adds, Lists
<1>19. CASE HandleSaveSettings(c)
  BY <1>19, SetScalarAnswers DEF HandleSaveSettings, Working
<1>20. CASE HandleEnableMFA(c)
  BY <1>20, SetScalarAnswers DEF HandleEnableMFA, Working
<1>21. CASE HandleDisableMFA(c)
  BY <1>21, SetScalarAnswers DEF HandleDisableMFA, Working
<1>22. CASE HandleCreateAlertRule(c)
  BY <1>22, CreateAlertRuleAnswers
<1>23. CASE HandleToggleAlertRule(c)
  BY <1>23, ModifyAnswers DEF HandleToggleAlertRule, Working, Lists
<1>24. CASE HandleUpdateAlertRule(c)
  BY <1>24, ModifyAnswers DEF HandleUpdateAlertRule, Working, Lists
<1>25. CASE HandleDeleteAlertRule(c)
  BY <1>25, KeepOthersAnswers DEF HandleDeleteAlertRule, Working, Lists
<1>26. CASE HandleCreateChannel(c)
  BY <1>26, <1>3 DEF HandleCreateChannel, Working, Adds, Lists
<1>27. CASE HandleDeleteChannel(c)
  BY <1>27, KeepOthersAnswers DEF HandleDeleteChannel, Working, Lists
<1>28. CASE HandleSilenceAlert(c)
  BY <1>28, <1>2, SetMapAnswers, MakeMapAnswers DEF HandleSilenceAlert, Working
<1>29. CASE HandleUnsilenceAlert(c)
  <2>1. CASE Has(List(c, "rules"), r.id)
    BY <1>29, <2>1, SetMapAnswers DEF HandleUnsilenceAlert, Working
  <2>2. CASE ~Has(List(c, "rules"), r.id)
    <3>1. Changed(c, req[c].cfg) /\ Rest /\ arrays' = arrays /\ maps' = maps
      BY <1>29, <2>2 DEF HandleUnsilenceAlert, heap
    <3>2. maps'[1] # Null /\ OwnMaps(mem, arrays')
      BY <3>1, GoodMem DEF Begins, Good
    <3>3. May(Value, InForce(mem, arrays', maps'))
      BY <3>1 DEF May, Value
    <3> QED
      BY <3>1, <3>2, <3>3, InPlaceAnswers
  <2> QED
    BY <2>1, <2>2
<1>30. CASE HandleRegisterAgent(c)
  BY <1>30, RegisterAnswers
<1> QED
  BY <1>11, <1>12, <1>13, <1>14, <1>15, <1>16, <1>17, <1>18, <1>19, <1>20, <1>21, <1>22,
     <1>23, <1>24, <1>25, <1>26, <1>27, <1>28, <1>29, <1>30 DEF Handle

-----------------------------------------------------------------------------
(* One client after the other.                                             *)

OneClient == \A c, d \in Client : c = d

\* What a request does is an update of the copy in force, or of what will be.
Serial ==
    \A c \in Client :
        /\ req[c].pc = "got" => req[c].cfg = mem
        /\ req[c].pc = "changed" => May(Value, InForce(req[c].cfg, arrays, maps))

\* A file that is not torn has what was last stored.  Without a server, it is
\* torn when the server died in the middle of a write, or always was.
Restorable ==
    /\ file # TornFile => durable = Read
    /\ boot = "down" /\ file = TornFile => Torn \/ durable = NewConfig

RefInv == SInv /\ Own /\ Serial /\ Restorable

\* The two variables of AtomicConfig.
Conf      == View(IF boot = "down" THEN durable ELSE Content(mem))
LastSaved == View(durable)

LEMMA ConfIs == boot # "down" => Conf = Value
  BY ContentOf DEF Conf, Value, InForce

LEMMA ConfNext == boot' # "down" => Conf' = Value'
<1>1. Content(mem)' = ContentIn(mem', arrays', maps')
  BY DEF Content, ContentIn
<1> QED
  BY <1>1 DEF Conf, Value, InForce

\* The maps that json.Unmarshal makes are one per rule.
LEMMA UnmarshalledOwn ==
  ASSUME NEW d, IsConfig(d), NEW n, n.lists = Unmarshalled(d).config.lists
  PROVE  OwnMaps(n, Unmarshalled(d).arrays) /\ Unmarshalled(d).maps[1] # Null
<1> DEFINE u == Unmarshalled(d)
           s == n.lists["rules"]
<1>1. "rules" \in Lists
  BY DEF Lists
<1>2. /\ s.len = Len(d.lists["rules"])
      /\ \A i \in 1..Len(d.lists["rules"]) :
            u.arrays[s.arr][i] = [d.lists["rules"][i] EXCEPT !.silenced = i + 1]
      /\ u.maps[1] = IF d.secrets = Null THEN {} ELSE d.secrets
  BY <1>1, UnmarshalledIs
<1>3. \A i \in 1..Len(d.lists["rules"]) : "silenced" \in DOMAIN d.lists["rules"][i]
  <2>1. IsEntries("rules", d.lists["rules"])
    BY <1>1 DEF IsConfig
  <2> TAKE i \in 1..Len(d.lists["rules"])
  <2> DEFINE e == d.lists["rules"][i]
  <2>2. IsEntry("rules", e)
    BY <2>1 DEF IsEntries
  <2> HIDE DEF e
  <2>3. "silenced" \in DOMAIN e
    BY <2>2 DEF IsEntry, Fields
  <2> QED
    BY <2>3 DEF e
<1> HIDE DEF u, s
<1>4. \A i \in 1..s.len : u.arrays[s.arr][i].silenced = i + 1
  BY <1>2, <1>3
<1>5. Len(d.lists["rules"]) \in Nat
  BY <1>1 DEF IsConfig, IsEntries
<1>6. OwnMaps(n, u.arrays)
  <2>1. ASSUME NEW i \in 1..s.len, NEW j \in 1..s.len, u.arrays[s.arr][i].silenced = u.arrays[s.arr][j].silenced
        PROVE  i = j
    <3>1. i + 1 = j + 1
      BY <1>4, <2>1
    <3> QED
      BY ONLY <1>2, <1>5, <3>1, i \in 1..s.len, j \in 1..s.len
  <2> QED
    BY <2>1 DEF OwnMaps, s
<1>7. u.maps[1] # Null
  BY <1>2, NullAssumption
<1> QED
  BY <1>6, <1>7 DEF u

\* A heap that nobody else has a copy of.
LEMMA FreshOwn ==
  ASSUME maps'[1] # Null, OwnMaps(mem', arrays'), \A c \in Client : req'[c].pc \notin {"got", "changed"}
  PROVE  Own'
<1>1. Copies' = {mem'}
  BY DEF Copies, Holds
<1>2. \A d \in Copies' : OwnMaps(d, arrays')
  BY <1>1
<1> QED
  BY <1>2 DEF Own

LEMMA OwnHeapSame ==
  ASSUME Own, UNCHANGED heap, Copies' \subseteq Copies
  PROVE  Own'
<1>1. \A d \in Copies' : OwnMaps(d, arrays')
  BY DEF Own, heap
<1> QED
  BY <1>1 DEF Own, heap

\* A step that leaves memory as it is, and takes no handler further.
LEMMA SerialSame ==
  ASSUME Serial, UNCHANGED <<mem, heap>>,
         \A c \in Client : req'[c] = req[c] \/ req'[c].pc \notin {"got", "changed"}
                           \/ (req'[c].pc = "got" /\ req'[c].cfg = mem)
  PROVE  Serial'
<1>1. mem' = mem /\ arrays' = arrays /\ maps' = maps
  BY DEF heap
<1>2. Value' = Value
  BY <1>1 DEF Value
<1>3. \A c \in Client :
        /\ req'[c].pc = "got" => req'[c].cfg = mem'
        /\ req'[c].pc = "changed" => May(Value', InForce(req'[c].cfg, arrays', maps'))
  BY <1>1, <1>2 DEF Serial
<1> QED
  BY <1>3 DEF Serial

LEMMA SerialNone ==
  ASSUME \A c \in Client : req'[c].pc \notin {"got", "changed"}
  PROVE  Serial'
  BY DEF Serial

\* Of a heap that stays, in memory that stays or becomes one of its copies.
LEMMA SameAll ==
  ASSUME Own, Serial, UNCHANGED <<mem, heap>>,
         \A c \in Client : req'[c] = req[c] \/ req'[c].pc \notin {"got", "changed"}
                           \/ (req'[c].pc = "got" /\ req'[c].cfg = mem)
  PROVE  Own' /\ Serial'
<1>1. Copies' \subseteq Copies
  BY DEF Copies, Holds
<1> QED
  BY <1>1, OwnHeapSame, SerialSame DEF heap

\* Only one request is in the server, and this one has got its copy.
LEMMA HandleBegins ==
  ASSUME RefInv, NEW c \in Client, Handle(c)
  PROVE  Begins(c)
<1>1. req[c].pc = "got"
  BY HandleFrames DEF Frame
<1>2. req[c].r \in Requests
  BY <1>1 DEF RefInv, SInv, Asked
<1>3. req[c].cfg = mem
  BY <1>1 DEF RefInv, Serial
<1> QED
  BY <1>1, <1>2, <1>3 DEF Begins, RefInv, SInv

LEMMA AnswersKeep ==
  ASSUME RefInv, OneClient, NEW c \in Client, Answers(c), Heap'
  PROVE  Own' /\ Serial'
<1>0. DOMAIN req = Client /\ Client = {c}
  BY DEF RefInv, SInv, IInv, Fields1, OneClient
<1>1. CASE Refuse(c)
  <2>1. req'[c].pc = "idle" /\ UNCHANGED <<mem, heap>>
    BY <1>0, <1>1 DEF Refuse, Rest, Idle
  <2> QED
    BY <1>0, <2>1, SameAll DEF RefInv
<1>2. ASSUME NEW d, NEW op, req' = [req EXCEPT ![c] = [pc |-> "changed", op |-> op, cfg |-> d]],
             Rest, OwnAfter(d, arrays', maps'), Outcome(d, arrays', maps')
      PROVE  Own' /\ Serial'
  <2> DEFINE v == [pc |-> "changed", op |-> op, cfg |-> d]
  <2>1. req'[c] = v /\ v.pc = "changed" /\ v.cfg = d /\ mem' = mem
    BY <1>0, <1>2 DEF Rest
  <2> HIDE DEF v
  <2>2. \A e \in Copies' : e = mem \/ e = d
    BY <1>0, <2>1 DEF Copies
  <2>3. \A e \in Copies' : OwnMaps(e, arrays')
    BY <1>2, <2>2 DEF OwnAfter
  <2>4. Own'
    BY <1>2, <2>3 DEF Own, OwnAfter
  <2>5. InForce(mem, arrays', maps') = Value'
    BY <2>1 DEF Value
  <2>6. May(Value', InForce(d, arrays', maps'))
    <3>1. CASE May(InForce(mem, arrays', maps'), InForce(d, arrays', maps'))
      BY <2>5, <3>1
    <3>2. CASE InForce(d, arrays', maps') = InForce(mem, arrays', maps')
      BY <2>5, <3>2 DEF May
    <3> QED
      BY <1>2, <3>1, <3>2 DEF Outcome
  <2>7. Serial'
    BY <1>0, <2>1, <2>6 DEF Serial
  <2> QED
    BY <2>4, <2>7
<1> QED
  BY <1>1, <1>2 DEF Answers

LEMMA RefInvInit ==
  ASSUME Init
  PROVE  RefInv
<1>1. SInv
  BY SInvInit
<1>2. \A c \in Client : req[c].pc = "idle"
  BY DEF Init, Idle
<1>3. Serial
  BY <1>2 DEF Serial
<1>4. Restorable
  BY DEF Init, Restorable, Read
<1>5. Own
  <2>1. Copies = {mem}
    BY <1>2 DEF Copies, Holds
  <2>2. mem.lists = Unmarshalled(NewConfig).config.lists
    BY DEF Init, Off
  <2>3. OwnMaps(mem, Unmarshalled(NewConfig).arrays) /\ Unmarshalled(NewConfig).maps[1] # Null
    BY <2>2, NewConfigIs, UnmarshalledOwn
  <2>4. arrays = Unmarshalled(NewConfig).arrays /\ maps = Unmarshalled(NewConfig).maps
    BY DEF Init, Off
  <2> QED
    BY <2>1, <2>3, <2>4 DEF Own
<1> QED
  BY <1>1, <1>3, <1>4, <1>5 DEF RefInv

\* Only the file's own steps touch it; it is torn while it is written.
LEMMA RestorableNext ==
  ASSUME RefInv, [Next]_vars
  PROVE  Restorable'
<1>1. ASSUME UNCHANGED <<boot, file, durable>> PROVE Restorable'
  BY <1>1 DEF RefInv, Restorable, Read
<1>2. ASSUME UNCHANGED <<file, durable>>, boot' # "down" PROVE Restorable'
  BY <1>2 DEF RefInv, Restorable, Read
<1>3. ASSUME Return, writing # NoWrite PROVE boot' # "down"
  BY <1>3, ClientAssumption DEF Return, RefInv, SInv, Writers
<1>4. CASE Load
  BY <1>2, <1>4 DEF Load, disk
<1>5. CASE NewAuthManager
  BY <1>2, <1>5 DEF NewAuthManager, disk
<1>6. CASE Crash
  BY <1>6 DEF Crash, disk, RefInv, Restorable, Read
<1>7. CASE OpenFails
  BY <1>2, <1>3, <1>7 DEF OpenFails
<1>8. CASE Truncate
  <2>1. boot # "down"
    BY <1>8 DEF Truncate, RefInv, SInv, Writers
  <2> QED
    BY <1>8, <2>1 DEF Truncate, Restorable
<1>9. CASE WriteData
  <2>1. boot' # "down" /\ file' = writing.data /\ durable' = writing.data
    BY <1>3, <1>9 DEF WriteData, HalfWritten
  <2>2. IsConfig(writing.data)
    BY <1>9 DEF WriteData, HalfWritten, RefInv, SInv, Files
  <2>3. ~IsConfig(NoFile) /\ ~IsConfig(TornFile)
    BY DEF IsConfig, NoFile, TornFile
  <2>4. writing.data \notin {NoFile, TornFile}
    BY <2>2, <2>3
  <2> QED
    BY <2>1, <2>4 DEF Restorable, Read
<1>10. CASE WriteFails
  BY <1>2, <1>3, <1>10 DEF WriteFails, HalfWritten
<1>11. ASSUME NEW c \in Client, NEW r \in Requests, Get(c, r) \/ RegisterKey(c, r) PROVE Restorable'
  BY <1>1, <1>11 DEF Get, RegisterKey, disk
<1>12. ASSUME NEW c \in Client, RegisterMFA(c) \/ RegisterGet(c) \/ Handle(c) \/ Save(c) PROVE Restorable'
  BY <1>1, <1>12, HandleFrames DEF RegisterMFA, RegisterGet, Frame, Save, Rest, disk
<1>13. CASE UNCHANGED vars
  BY <1>1, <1>13 DEF vars
<1> QED
  BY <1>4, <1>5, <1>6, <1>7, <1>8, <1>9, <1>10, <1>11, <1>12, <1>13 DEF Next

\* The start leaves one copy, and maps of its own for every rule.
LEMMA LoadKeeps ==
  ASSUME RefInv, Load
  PROVE  Own' /\ Serial'
<1>1. \A c \in Client : req'[c].pc \notin {"got", "changed"}
  BY DEF Load, RefInv, SInv, IInv, DownIsIdle
<1>2. PICK d : LoadsAs(d)
  BY LoadIs DEF RefInv, SInv
<1>3. /\ IsConfig(d) /\ mem'.lists = Unmarshalled(d).config.lists
      /\ arrays' = Unmarshalled(d).arrays /\ maps' = Unmarshalled(d).maps
  BY <1>2 DEF LoadsAs
<1>4. OwnMaps(mem', arrays') /\ maps'[1] # Null
  BY <1>3, UnmarshalledOwn
<1> QED
  BY <1>1, <1>4, FreshOwn, SerialNone

LEMMA NewAuthManagerKeeps ==
  ASSUME RefInv, NewAuthManager
  PROVE  Own' /\ Serial'
<1>1. \A c \in Client : req'[c].pc \notin {"got", "changed"}
  BY DEF NewAuthManager, RefInv, SInv, Writers
<1>2. mem'.lists = mem.lists
  <2>1. ConfigIn(mem, arrays, maps)
    BY GoodMem DEF RefInv, SInv
  <2> QED
    BY <2>1 DEF NewAuthManager, ConfigIn
<1>3. OwnMaps(mem', arrays') /\ maps'[1] # Null
  BY <1>2, GoodMem DEF NewAuthManager, heap, OwnMaps, RefInv, SInv, Good
<1> QED
  BY <1>1, <1>3, FreshOwn, SerialNone

LEMMA CrashKeeps ==
  ASSUME Crash
  PROVE  Own' /\ Serial'
<1>1. \A c \in Client : req'[c].pc \notin {"got", "changed"}
  BY DEF Crash, Idle
<1>2. OwnMaps(mem', arrays') /\ maps'[1] # Null
  BY NewConfigIs, UnmarshalledOwn DEF Crash, Off
<1> QED
  BY <1>1, <1>2, FreshOwn, SerialNone

LEMMA SaveKeeps ==
  ASSUME RefInv, OneClient, NEW c \in Client, Save(c)
  PROVE  Own' /\ Serial'
<1>1. DOMAIN req = Client /\ Client = {c}
  BY DEF RefInv, SInv, IInv, Fields1, OneClient
<1>2. req'[c].pc = "saving" /\ UNCHANGED heap /\ mem' = req[c].cfg /\ mem' \in Copies
  BY <1>1 DEF Save, Copies, Holds
<1>3. Copies' \subseteq Copies
  BY <1>1, <1>2 DEF Copies, Holds
<1>4. \A d \in Client : req'[d].pc \notin {"got", "changed"}
  BY <1>1, <1>2
<1> QED
  BY <1>2, <1>3, <1>4, OwnHeapSame, SerialNone DEF RefInv

LEMMA RefInvNext ==
  ASSUME RefInv, [Next]_vars, OneClient, HostsAreNotNull
  PROVE  RefInv'
<1>0. SInv' /\ DOMAIN req = Client
  BY SInvNext DEF RefInv, SInv, IInv, Fields1
<1> SUFFICES Own' /\ Serial'
  BY <1>0, RestorableNext DEF RefInv
<1>1. ASSUME UNCHANGED <<mem, heap>>,
             \A c \in Client : req'[c] = req[c] \/ req'[c].pc \notin {"got", "changed"}
                               \/ (req'[c].pc = "got" /\ req'[c].cfg = mem)
      PROVE  Own' /\ Serial'
  BY <1>1, SameAll DEF RefInv
<1>2. ASSUME NEW c \in Client, NEW v, req' = [req EXCEPT ![c] = v], UNCHANGED <<mem, heap>>,
             v.pc \notin {"got", "changed"} \/ (v.pc = "got" /\ v.cfg = mem)
      PROVE  Own' /\ Serial'
  <2>1. \A d \in Client : req'[d] = IF d = c THEN v ELSE req[d]
    BY <1>0, <1>2
  <2> QED
    BY <1>1, <1>2, <2>1
<1>3. CASE Load
  BY <1>3, LoadKeeps
<1>4. CASE NewAuthManager
  BY <1>4, NewAuthManagerKeeps
<1>5. CASE Crash
  BY <1>5, CrashKeeps
<1>6. ASSUME Return PROVE Own' /\ Serial'
  <2>1. \A c \in Client : req'[c] = req[c] \/ req'[c].pc = "idle"
    BY <1>6 DEF Return, Idle
  <2>2. UNCHANGED <<mem, heap>>
    BY <1>6 DEF Return
  <2> QED
    BY <1>1, <2>1, <2>2
<1>7. CASE Truncate \/ UNCHANGED vars
  <2>1. UNCHANGED <<mem, heap, req>>
    BY <1>7 DEF Truncate, vars, heap
  <2> QED
    BY <1>1, <2>1
<1>8. ASSUME NEW c \in Client, NEW r \in Requests, Get(c, r) PROVE Own' /\ Serial'
  <2> DEFINE v == [pc |-> "got", r |-> r, cfg |-> mem]
  <2>1. req' = [req EXCEPT ![c] = v] /\ UNCHANGED <<mem, heap>>
    BY <1>8 DEF Get
  <2>2. v.pc = "got" /\ v.cfg = mem
    OBVIOUS
  <2> HIDE DEF v
  <2> QED
    BY <1>2, <2>1, <2>2
<1>9. ASSUME NEW c \in Client, NEW r \in Requests, RegisterKey(c, r) PROVE Own' /\ Serial'
  <2> DEFINE v == [pc |-> "keyed", r |-> r]
  <2>1. req' = [req EXCEPT ![c] = v] /\ UNCHANGED <<mem, heap>> /\ v.pc = "keyed"
    BY <1>9 DEF RegisterKey
  <2> HIDE DEF v
  <2> QED
    BY <1>2, <2>1
<1>10. ASSUME NEW c \in Client, RegisterMFA(c) PROVE Own' /\ Serial'
  <2> DEFINE v == [pc |-> "checked", r |-> req[c].r]
  <2>1. v.pc = "checked" /\ Idle.pc = "idle"
    BY DEF Idle
  <2>2. UNCHANGED <<mem, heap>> /\ (req' = [req EXCEPT ![c] = v] \/ req' = [req EXCEPT ![c] = Idle])
    BY <1>10 DEF RegisterMFA, Rest
  <2> HIDE DEF v
  <2> QED
    BY <1>2, <2>1, <2>2
<1>11. ASSUME NEW c \in Client, RegisterGet(c) PROVE Own' /\ Serial'
  <2> DEFINE v == [pc |-> "got", r |-> req[c].r, cfg |-> mem]
  <2>1. req' = [req EXCEPT ![c] = v] /\ UNCHANGED <<mem, heap>>
    BY <1>11 DEF RegisterGet, Rest
  <2>2. v.pc = "got" /\ v.cfg = mem
    OBVIOUS
  <2> HIDE DEF v
  <2> QED
    BY <1>2, <2>1, <2>2
<1>12. ASSUME NEW c \in Client, Handle(c) PROVE Own' /\ Serial'
  BY <1>0, <1>12, HandleBegins, HandleAnswers, AnswersKeep DEF SInv
<1>13. ASSUME NEW c \in Client, Save(c) PROVE Own' /\ Serial'
  BY <1>13, SaveKeeps
<1> QED
  BY <1>3, <1>4, <1>5, <1>6, <1>7, <1>8, <1>9, <1>10, <1>11, <1>12, <1>13
     DEF Next, OpenFails, WriteData, WriteFails

-----------------------------------------------------------------------------
(* Every step is a step of AtomicConfig, or changes neither variable.      *)

Stutters == UNCHANGED <<Conf, LastSaved>>
Maps     == Abstract!Next \/ Stutters

\* A configuration is put back that was in force, or may follow it.
LEMMA MayMaps ==
  ASSUME boot # "down", boot' # "down", May(Value, Value'), UNCHANGED durable
  PROVE  Maps
<1>1. Conf = Value /\ Conf' = Value' /\ LastSaved' = LastSaved
  BY ConfIs, ConfNext DEF LastSaved
<1>2. CASE Value' = Value
  BY <1>1, <1>2 DEF Maps, Stutters
<1>3. CASE \E r \in Requests : Abstract!Changes(Value, Value', r)
  <2>1. \E r \in Requests : Abstract!Changes(Conf, Conf', r)
    BY <1>1, <1>3
  <2>2. Abstract!Change /\ UNCHANGED LastSaved
    BY <1>1, <2>1 DEF Abstract!Change, Conf
  <2> QED
    BY <2>2 DEF Maps, Abstract!Next, LastSaved
<1> QED
  BY <1>2, <1>3 DEF May

LEMMA SameMaps ==
  ASSUME boot # "down", boot' # "down", UNCHANGED <<mem, heap, durable>>
  PROVE  Maps
<1>1. Value' = Value
  BY DEF Value, heap
<1> QED
  BY <1>1, MayMaps DEF May

LEMMA CrashMaps ==
  ASSUME Crash
  PROVE  Maps
<1>1. Conf' = LastSaved /\ LastSaved' = LastSaved
  BY DEF Crash, disk, Conf, LastSaved
<1>2. Abstract!Restart /\ UNCHANGED LastSaved
  BY <1>1 DEF Abstract!Restart, Conf, LastSaved
<1> QED
  BY <1>2 DEF Maps, Abstract!Next, LastSaved

\* What the start makes of the configuration d is d, with or without the system key.
LEMMA LoadedIs ==
  ASSUME Load, NEW d, LoadsAs(d)
  PROVE  /\ Conf' = [View(d) EXCEPT !.key = mem'.key]
         /\ mem' = Unmarshalled(d).config => Conf' = View(d)
         /\ mem'.key = d.key => Conf' = View(d)
<1> DEFINE u == Unmarshalled(d)
           k == mem'.key
           e == [d EXCEPT !.key = k]
<1>1. /\ IsConfig(d) /\ boot = "down"
      /\ arrays' = u.arrays /\ maps' = u.maps
      /\ boot' # "down"
  BY DEF LoadsAs
<1>2. /\ mem'.lists = u.config.lists /\ DOMAIN mem' = DOMAIN u.config
      /\ mem'.secrets \in {u.config.secrets, 1} /\ k \in BOOLEAN
      /\ mem'.mfa = u.config.mfa /\ mem'.admin = u.config.admin
      /\ \A f \in DOMAIN mem' : f \notin {"key", "secrets", "lists"} => mem'[f] = u.config[f]
  BY DEF LoadsAs
<1>3. ConfigIn(u.config, u.arrays, u.maps)
  BY <1>1, UnmarshalledIs
<1>4. /\ DOMAIN u.config = DOMAIN d /\ u.config.key = d.key
      /\ \A f \in DOMAIN d : f \notin {"secrets", "lists"} => u.config[f] = d[f]
  <2> DEFINE ls == [l \in Lists |-> [arr |-> CHOOSE n \in 1..Len(ListOrder) : ListOrder[n] = l,
                                    len |-> Len(d.lists[l])]]
             s == IF d.secrets = Null THEN Null ELSE 1
  <2>1. u.config = [d EXCEPT !.secrets = s, !.lists = ls]
    BY DEF Unmarshalled
  <2>2. "key" \in DOMAIN d
    BY <1>1 DEF IsConfig
  <2> HIDE DEF ls, s, u
  <2> QED
    BY <2>1, <2>2
<1>5. {"key", "secrets", "lists", "settings", "mfa", "admin"} \subseteq DOMAIN d
  BY <1>1 DEF IsConfig
<1>6. u.config.secrets \in {Null, 1} /\ u.config.mfa \in BOOLEAN /\ u.config.admin \in BOOLEAN
  BY <1>3 DEF ConfigIn
<1>7. mem' = u.config => k = d.key
  BY <1>4
<1> HIDE DEF u, k
<1>8. /\ DOMAIN e = DOMAIN d /\ e.lists = d.lists /\ e.secrets = d.secrets /\ e.key = k
      /\ \A f \in DOMAIN d : f \notin {"key", "secrets", "lists"} => e[f] = d[f]
  BY <1>5
<1>9. View(e) = [View(d) EXCEPT !.key = k]
  <2> DEFINE s == IF d.secrets = Null THEN {} ELSE d.secrets
  <2>1. View(e) = [e EXCEPT !.secrets = s] /\ View(d) = [d EXCEPT !.secrets = s]
    BY <1>8 DEF View
  <2> HIDE DEF s
  <2> QED
    BY <1>5, <2>1
<1> HIDE DEF e
<1>10. View(e) = Conf'
  <2>1. Conf' = InForce(mem', arrays', maps')
    BY <1>1, ConfNext DEF Value
  <2>2. \A f \in DOMAIN d : f \notin {"secrets", "lists"} => mem'[f] = e[f]
    BY <1>2, <1>4, <1>5, <1>8 DEF k
  <2>3. mem'.secrets \in {Null, 1} /\ mem'.key \in BOOLEAN /\ mem'.mfa \in BOOLEAN /\ mem'.admin \in BOOLEAN
    BY <1>2, <1>6 DEF k
  <2>4. /\ DOMAIN mem' = DOMAIN d /\ mem'.lists = Unmarshalled(d).config.lists
        /\ mem'.secrets \in {Unmarshalled(d).config.secrets, 1}
    BY <1>2, <1>4 DEF u
  <2>5. View(ContentIn(mem', Unmarshalled(d).arrays, Unmarshalled(d).maps)) = View(e)
    BY <1>1, <1>8, <2>2, <2>3, <2>4, RoundTrip
  <2> QED
    BY <1>1, <2>1, <2>5 DEF InForce, u
<1>11. k = d.key => [View(d) EXCEPT !.key = k] = View(d)
  BY <1>5 DEF View
<1> QED
  BY <1>7, <1>9, <1>10, <1>11 DEF k, u

\* The start finds what was stored, and may add the system key; or it cannot
\* read it, and starts from the defaults.
LEMMA LoadMaps ==
  ASSUME RefInv, Load
  PROVE  Maps
<1>1. PICK d : LoadsAs(d)
  BY LoadIs DEF RefInv, SInv
<1>2. boot = "down" /\ UNCHANGED LastSaved /\ Conf = LastSaved
  BY <1>1 DEF LoadsAs, LastSaved, disk, Conf
<1>3. /\ Conf' = [View(d) EXCEPT !.key = mem'.key]
      /\ mem' = Unmarshalled(d).config => Conf' = View(d)
      /\ mem'.key = d.key => Conf' = View(d)
  BY <1>1, LoadedIs
<1>4. CASE d = Read /\ file # TornFile /\ mem'.key \in {TRUE, d.key}
  <2>1. Conf = View(d)
    BY <1>2, <1>4 DEF LastSaved, RefInv, Restorable
  <2>2. CASE mem'.key = TRUE
    <3>1. Conf' = [Conf EXCEPT !.key = TRUE]
      BY <1>3, <2>1, <2>2
    <3>2. Abstract!Provision /\ UNCHANGED LastSaved
      BY <1>2, <3>1 DEF Abstract!Provision, Conf
    <3> QED
      BY <3>2 DEF Maps, Abstract!Next, LastSaved
  <2>3. CASE mem'.key = d.key
    BY <1>2, <1>3, <2>1, <2>3 DEF Maps, Stutters
  <2> QED
    BY <1>4, <2>2, <2>3
<1>5. CASE d = NewConfig /\ mem' = Unmarshalled(d).config /\ Fails
  <2>1. Conf' = View(NewConfig)
    BY <1>3, <1>5
  <2>2. CASE ReadFails \/ Torn
    <3>1. Abstract!Forget /\ UNCHANGED LastSaved
      BY <1>2, <2>1, <2>2 DEF Abstract!Forget, Conf
    <3> QED
      BY <3>1 DEF Maps, Abstract!Next, LastSaved
  <2>3. CASE durable = NewConfig
    <3>1. Conf' = Conf
      BY <1>2, <2>1, <2>3 DEF LastSaved
    <3> QED
      BY <1>2, <3>1 DEF Maps, Stutters
  <2> QED
    BY <1>2, <1>5, <2>2, <2>3 DEF Fails, RefInv, Restorable
<1>6. file \notin {NoFile, TornFile} => file # TornFile
  OBVIOUS
<1> QED
  BY <1>1, <1>4, <1>5, <1>6 DEF LoadsAs

LEMMA NewAuthManagerMaps ==
  ASSUME RefInv, RefInv', NewAuthManager
  PROVE  Maps
<1>1. boot # "down" /\ boot' # "down" /\ UNCHANGED <<heap, durable>>
  BY DEF NewAuthManager, disk
<1>2. CASE mem' = mem
  BY <1>1, <1>2, SameMaps
<1>3. CASE mem' = [mem EXCEPT !.admin = TRUE]
  <2> DEFINE d == mem'
  <2>1. d = [mem EXCEPT !["admin"] = TRUE] /\ "admin" \in {"settings", "mfa", "admin"} /\ arrays' = arrays /\ maps' = maps
    BY <1>1, <1>3 DEF heap
  <2>2. Good(mem, arrays, maps)
    BY GoodMem DEF RefInv, SInv
  <2>3. ConfigIn(d, arrays', maps') /\ HeapIn(arrays', maps')
    BY DEF RefInv, SInv, Heap, Copies
  <2>4. Good(d, arrays, maps)
    BY <2>1, <2>2, <2>3 DEF Good
  <2>5. Value' = InForce(d, arrays, maps)
    BY <2>1 DEF Value
  <2> HIDE DEF d
  <2>6. InForce(d, arrays, maps) = [InForce(mem, arrays, maps) EXCEPT !["admin"] = TRUE]
    BY ONLY <2>1, <2>2, <2>4, ScalarValue
  <2>7. Conf' = [Conf EXCEPT !.admin = TRUE] /\ UNCHANGED LastSaved
    BY <1>1, <2>5, <2>6, ConfIs, ConfNext DEF Value, LastSaved
  <2>8. Abstract!Provision /\ UNCHANGED LastSaved
    BY <2>7 DEF Abstract!Provision, Conf
  <2> QED
    BY <2>8 DEF Maps, Abstract!Next, LastSaved
<1> QED
  BY <1>2, <1>3 DEF NewAuthManager

\* The write ends: what was in force is stored.
LEMMA WriteDataMaps ==
  ASSUME RefInv, OneClient, WriteData
  PROVE  Maps
<1>1. writing # NoWrite /\ Return /\ durable' = writing.data
  BY DEF WriteData, HalfWritten
<1>2. boot # "down" /\ boot' # "down"
  BY <1>1, ClientAssumption DEF Return, RefInv, SInv, Writers
<1>3. View(writing.data) = View(Content(mem))
  <2>1. CASE boot \in {"load", "auth"}
    BY <2>1 DEF RefInv, SInv, OnDisk
  <2>2. CASE writing.by \in Client /\ boot = "serving" /\ req[writing.by].pc = "saving"
    <3>1. ~Dirty
      BY <2>2 DEF Dirty, OneClient
    <3> QED
      BY <1>1, <2>2, <3>1 DEF RefInv, SInv, OnDisk
  <2> QED
    BY <1>1, <2>1, <2>2 DEF RefInv, SInv, Writers
<1>4. Value' = Value
  BY <1>1 DEF Return, Value, heap
<1>5. LastSaved' = Conf /\ Conf' = Conf
  BY <1>1, <1>2, <1>3, <1>4, ConfIs, ConfNext DEF LastSaved, Conf
<1>6. Abstract!Store /\ UNCHANGED Conf
  BY <1>5 DEF Abstract!Store, LastSaved, Conf
<1> QED
  BY <1>6 DEF Maps, Abstract!Next, Conf

LEMMA AnswersMaps ==
  ASSUME boot # "down", NEW c \in Client, Answers(c)
  PROVE  Maps
<1>1. UNCHANGED <<boot, mem, durable>>
  BY DEF Answers, Refuse, Rest, disk
<1>2. CASE Refuse(c)
  BY <1>1, <1>2, SameMaps DEF Refuse
<1>3. ASSUME NEW d, Outcome(d, arrays', maps') PROVE Maps
  <2>1. InForce(mem, arrays', maps') = Value'
    BY <1>1 DEF Value
  <2>2. May(Value, Value')
    <3>1. CASE InForce(mem, arrays', maps') = Value
      BY <2>1, <3>1 DEF May
    <3>2. CASE InForce(d, arrays', maps') = InForce(mem, arrays', maps') /\ May(Value, InForce(mem, arrays', maps'))
      BY <2>1, <3>2
    <3> QED
      BY <1>3, <3>1, <3>2 DEF Outcome
  <2> QED
    BY <1>1, <2>2, MayMaps
<1> QED
  BY <1>2, <1>3 DEF Answers

LEMMA SaveMaps ==
  ASSUME RefInv, NEW c \in Client, Save(c)
  PROVE  Maps
<1>1. boot # "down" /\ boot' # "down" /\ UNCHANGED <<heap, durable>> /\ mem' = req[c].cfg
  BY DEF Save, disk, RefInv, SInv, Writers
<1>2. Value' = InForce(req[c].cfg, arrays, maps)
  BY <1>1 DEF Value, heap
<1>3. May(Value, InForce(req[c].cfg, arrays, maps))
  BY DEF Save, RefInv, Serial
<1> QED
  BY <1>1, <1>2, <1>3, MayMaps

LEMMA NextMaps ==
  ASSUME RefInv, RefInv', [Next]_vars, OneClient, HostsAreNotNull
  PROVE  Maps
<1>1. ASSUME Return, writing # NoWrite, UNCHANGED durable PROVE Maps
  <2>1. boot # "down" /\ boot' # "down"
    BY <1>1, ClientAssumption DEF Return, RefInv, SInv, Writers
  <2> QED
    BY <1>1, <2>1, SameMaps DEF Return
<1>2. CASE Load
  BY <1>2, LoadMaps
<1>3. CASE NewAuthManager
  BY <1>3, NewAuthManagerMaps
<1>4. CASE Crash
  BY <1>4, CrashMaps
<1>5. CASE OpenFails \/ WriteFails
  BY <1>1, <1>5 DEF OpenFails, WriteFails, HalfWritten
<1>6. CASE Truncate
  <2>1. boot # "down" /\ boot' # "down" /\ UNCHANGED <<mem, heap, durable>>
    BY <1>6 DEF Truncate, RefInv, SInv, Writers
  <2> QED
    BY <2>1, SameMaps
<1>7. CASE WriteData
  BY <1>7, WriteDataMaps
<1>8. ASSUME NEW c \in Client, NEW r \in Requests, Get(c, r) \/ RegisterKey(c, r) PROVE Maps
  BY <1>8, SameMaps DEF Get, RegisterKey, disk
<1>9. ASSUME NEW c \in Client, RegisterMFA(c) \/ RegisterGet(c) PROVE Maps
  BY <1>9, SameMaps DEF RegisterMFA, RegisterGet, Rest, disk, RefInv, SInv, Writers
<1>10. ASSUME NEW c \in Client, Handle(c) PROVE Maps
  <2>1. boot # "down"
    BY <1>10, HandleFrames DEF Frame, RefInv, SInv, Writers
  <2> QED
    BY <1>10, <2>1, HandleBegins, HandleAnswers, AnswersMaps DEF RefInv, SInv
<1>11. ASSUME NEW c \in Client, Save(c) PROVE Maps
  BY <1>11, SaveMaps
<1>12. CASE UNCHANGED vars
  <2>1. Conf' = Conf /\ LastSaved' = LastSaved
    BY <1>12 DEF vars, Conf, LastSaved, Content, Elems
  <2> QED
    BY <2>1 DEF Maps, Stutters
<1> QED
  BY <1>2, <1>3, <1>4, <1>5, <1>6, <1>7, <1>8, <1>9, <1>10, <1>11, <1>12 DEF Next

LEMMA InitMaps ==
  ASSUME Init
  PROVE  Abstract!Init
<1>1. Conf = LastSaved
  BY DEF Init, Conf, LastSaved
<1>2. Conf \in {View(IF f \in {NoFile, TornFile} THEN NewConfig ELSE f) : f \in InitialFiles}
  BY DEF Init, Conf
<1> QED
  BY <1>1, <1>2 DEF Abstract!Init, Conf, LastSaved

\* With one client at a time, whatever it asks for changes the entry it names
\* and nothing else, at one moment (every handler of handler.go 488-1218); and
\* a restart brings back what was stored last, whatever writes failed since,
\* or the defaults when the file cannot be read or was left half written
\* (config.go 79-137).
THEOREM OneClientIsAtomic ==
  ASSUME OneClient, HostsAreNotNull
  PROVE  Spec => OneAtATimeIsAtomic
<1>1. Init => RefInv
  BY RefInvInit
<1>2. RefInv /\ [Next]_vars => RefInv'
  BY RefInvNext
<1>3. Init => Abstract!Init
  BY InitMaps
<1>4. RefInv /\ RefInv' /\ [Next]_vars => [Abstract!Next]_<<Conf, LastSaved>>
  BY NextMaps DEF Maps, Stutters
<1>5. RefInv /\ RefInv' /\ [Next]_vars
        => [Abstract!Next]_<<View(IF boot = "down" THEN durable ELSE Content(mem)), View(durable)>>
  BY <1>4 DEF Conf, LastSaved
<1> QED
  BY <1>1, <1>2, <1>3, <1>5, PTL DEF Spec, OneAtATimeIsAtomic, Abstract!Spec
=============================================================================
