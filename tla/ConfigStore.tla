---------------------------- MODULE ConfigStore ----------------------------
(***************************************************************************)
(* The server's configuration: one struct in memory, one JSON file, and    *)
(* twenty HTTP handlers that take a copy of the struct (Get), change the   *)
(* copy and put it back (Save).                                            *)
(*                                                                         *)
(* Sources: server/storage/config.go, server/auth/auth.go (NewAuthManager) *)
(* and the configuration handlers of server/api/handler.go.                *)
(*                                                                         *)
(* Get returns a shallow copy.  Its lists are slices: a header (which      *)
(* array, how many elements) over an array that all copies share.  An      *)
(* assignment to an element is seen at once through every copy; an append  *)
(* writes into the shared array while it has room, and moves to a new one  *)
(* of twice the size when it has not.  Its maps are shared as well.  The   *)
(* mutex of the store is held by Get and Save, not between them.           *)
(***************************************************************************)
EXTENDS Naturals, Sequences, FiniteSets

CONSTANTS
    Client,        \* concurrent HTTP requests of administrators and agents
    Requests,      \* what they may ask for
    InitialFiles,  \* what server-config.json may hold before the first start
    Null,          \* JSON's null, Go's nil
    SaveFails,     \* may opening the file or writing it fail?
    ReadFails,     \* may reading an existing file fail?
    Torn,          \* may the process end while the file is half written?
    MaxCrashes,    \* bound: crashes of the server
    MaxRequests    \* bound: requests in total

NoFile   == [content |-> "none"]   \* the file does not exist
TornFile == [content |-> "torn"]   \* the file is truncated or half written: not JSON

Lists  == {"users", "groups", "rules", "channels", "ignored"}
\* A rule's nil: its map of silenced hosts is Go's nil, JSON's null.
Fields == [users    |-> {"id", "rights", "password", "groups"},
           groups   |-> {"id", "hosts"},
           rules    |-> {"id", "condition", "enabled", "silenced", "nil"},
           channels |-> {"id"},
           ignored  |-> {"id"}]

\* A complete entry of list l, and a list of such entries.
IsEntry(l, e)   == e = [k \in Fields[l] |-> e[k]]
IsEntries(l, q) == /\ Len(q) \in Nat /\ q = [i \in 1..Len(q) |-> q[i]]
                   /\ \A i \in 1..Len(q) : IsEntry(l, q[i])

\* What json.Unmarshal can make of a file.
IsConfig(d) ==
    /\ {"key", "secrets", "lists", "settings", "mfa", "admin"} \subseteq DOMAIN d
    /\ d.lists = [l \in Lists |-> d.lists[l]] /\ \A l \in Lists : IsEntries(l, d.lists[l])
    /\ d.key \in BOOLEAN /\ d.mfa \in BOOLEAN /\ d.admin \in BOOLEAN

\* The list each request adds an entry to.
Adds == [CreateUser |-> "users", CreateGroup |-> "groups", CreateAlertRule |-> "rules",
         CreateChannel |-> "channels", DeleteHost |-> "ignored"]

ASSUME NullAssumption     == Null \notin Nat /\ Null # {}
ASSUME FilesAssumption    == \A f \in InitialFiles \ {NoFile, TornFile} : IsConfig(f)
ASSUME RequestsAssumption == \A r \in Requests : r.op \in DOMAIN Adds => IsEntry(Adds[r.op], r.entry)
ASSUME ClientAssumption == {"load", "auth"} \cap Client = {}
ASSUME SwitchAssumption == {SaveFails, ReadFails, Torn} \subseteq BOOLEAN
ASSUME BoundsAssumption == MaxCrashes \in Nat /\ MaxRequests \in Nat

VARIABLES
    boot,      \* how far the start of the server is
    mem,       \* ConfigStore.Config
    arrays,    \* the arrays behind the slices
    maps,      \* the maps: agent secrets and the silenced hosts of each rule, by key
    file,      \* server-config.json
    writing,   \* the os.WriteFile in progress; its caller holds ConfigStore.mu
    req,       \* per client, the request and how far its handler is
    crashes,   \* how often the server crashed
    begun,     \* how many requests there were
    durable,   \* history: the last configuration written completely
    lastOk     \* history: the last attempt to write the file succeeded

vars == <<boot, mem, arrays, maps, file, writing, req, crashes, begun, durable, lastOk>>
heap == <<arrays, maps>>
disk == <<file, durable, lastOk>>

Idle  == [pc |-> "idle"]
NoWrite == [stage |-> "none"]

NewConfig == [lists |-> [l \in Lists |-> <<>>], settings |-> "default", mfa |-> FALSE,
              key |-> FALSE, admin |-> FALSE, secrets |-> Null]

-----------------------------------------------------------------------------
(* Slices.  A slice is [arr |-> index into arrays, len |-> its length];    *)
(* the capacity is the length of the array; an unused element has no       *)
(* fields.                                                                 *)

Elems(a, s) == SubSeq(a[s.arr], 1, s.len)
Unused      == <<>>

\* The capacity of a slice that has just grown to n elements.
Grow(n)     == IF n <= 16 THEN CHOOSE c \in {0, 1, 2, 4, 8, 16} : n <= c /\ (c > 1 => c < 2 * n)
                          ELSE 2 * (n - 1)
Padded(q)   == q \o [i \in 1..(Grow(Len(q)) - Len(q)) |-> Unused]

\* Mutant: with room left, the length grows but the element is not written.
Appended_NotWritten(s, e) ==
    IF s.len < Len(arrays[s.arr])
    THEN [arrays |-> arrays, slice |-> [s EXCEPT !.len = @ + 1]]
    ELSE [arrays |-> Append(arrays, Padded(Append(Elems(arrays, s), e))),
          slice |-> [arr |-> Len(arrays) + 1, len |-> s.len + 1]]

\* The arrays and the slice after s = append(s, e).
Appended(s, e) ==
    IF s.len < Len(arrays[s.arr])
    THEN [arrays |-> [arrays EXCEPT ![s.arr][s.len + 1] = e], slice |-> [s EXCEPT !.len = @ + 1]]
    ELSE [arrays |-> Append(arrays, Padded(Append(Elems(arrays, s), e))),
          slice |-> [arr |-> Len(arrays) + 1, len |-> s.len + 1]]

\* The arrays and the slice after the elements were copied into a new slice.
Rebuilt(q) == [arrays |-> Append(arrays, Padded(q)),
               slice |-> [arr |-> Len(arrays) + 1, len |-> Len(q)]]

Has(q, id)   == \E i \in DOMAIN q : q[i].id = id
Rank(K)      == CHOOSE f \in [1..Cardinality(K) -> K] : \A i, j \in DOMAIN f : i < j => f[i] < f[j]
First(q, id) == CHOOSE i \in DOMAIN q : q[i].id = id /\ \A j \in 1..(i - 1) : q[j].id # id

\* The entries with other ids, in their order.
Without(q, id) ==
    LET K == {i \in DOMAIN q : q[i].id # id}
    IN  [i \in 1..Cardinality(K) |-> q[Rank(K)[i]]]

-----------------------------------------------------------------------------
(* JSON: what json.Marshal makes of a configuration, and back.             *)

Content(c) ==
    [c EXCEPT !.secrets = IF @ = Null THEN Null ELSE maps[@],
              !.lists = [l \in Lists |->
                 LET q == Elems(arrays, c.lists[l])
                 IN  IF l = "rules"
                     THEN [i \in DOMAIN q |-> [q[i] EXCEPT !.silenced = maps[@]]]
                     ELSE q]]

ListOrder == <<"users", "groups", "rules", "channels", "ignored">>

\* Map 1 is for the agent secrets, map i + 1 for the i-th rule.
Unmarshalled(d) ==
    [maps   |-> <<IF d.secrets = Null THEN {} ELSE d.secrets>>
                \o [i \in DOMAIN d.lists["rules"] |-> d.lists["rules"][i].silenced],
     arrays |-> [k \in 1..Len(ListOrder) |->
                   LET q == d.lists[ListOrder[k]]
                   IN  Padded(IF ListOrder[k] = "rules"
                              THEN [i \in DOMAIN q |-> [q[i] EXCEPT !.silenced = i + 1]]
                              ELSE q)],
     config |-> [d EXCEPT !.secrets = IF @ = Null THEN Null ELSE 1,
                          !.lists = [l \in Lists |->
                             [arr |-> CHOOSE k \in 1..Len(ListOrder) : ListOrder[k] = l,
                              len |-> Len(d.lists[l])]]]]

\* The server is not running: nothing is in memory.
Off == Unmarshalled(NewConfig)

Init ==
    /\ boot = "down"
    /\ mem = Off.config /\ arrays = Off.arrays /\ maps = Off.maps
    /\ file \in InitialFiles
    /\ durable = IF file \in {NoFile, TornFile} THEN NewConfig ELSE file
    /\ lastOk = TRUE
    /\ writing = NoWrite
    /\ req = [c \in Client |-> Idle]
    /\ crashes = 0 /\ begun = 0

-----------------------------------------------------------------------------
(* Starting and crashing.                                                  *)

\* saveInternal, called with ConfigStore.mu held.
Marshal(who, data) == writing' = [by |-> who, data |-> data, stage |-> "marshalled"]

\* Mutant: after generating a key, Load returns without making the map.
Load_NoMap ==
    /\ boot = "down" /\ file # TornFile
    /\ LET d == IF file = NoFile THEN NewConfig ELSE file
           u == Unmarshalled(d)
       IN  /\ arrays' = u.arrays /\ maps' = u.maps
           /\ mem' = [u.config EXCEPT !.key = file # NoFile]
           /\ boot' = "load" /\ Marshal("load", [d EXCEPT !.key = file # NoFile])
    /\ UNCHANGED <<disk, req, crashes, begun>>

\* NewConfigStore and Load.  A file that cannot be read, or not be parsed,
\* leaves the defaults in memory; the error is dropped, and what is saved next
\* replaces the file.  A new file is saved before the key and the secrets are
\* looked at.
Load ==
    /\ boot = "down"
    /\ LET d == IF file \in {NoFile, TornFile} THEN NewConfig ELSE file
           u == Unmarshalled(d)
           k == [u.config EXCEPT !.key = TRUE]
       IN  \/ /\ file = NoFile
              /\ arrays' = u.arrays /\ maps' = u.maps /\ mem' = u.config
              /\ boot' = "load" /\ Marshal("load", d)
           \/ /\ file = TornFile \/ (file # NoFile /\ ReadFails)
              /\ arrays' = Off.arrays /\ maps' = Off.maps /\ mem' = Off.config
              /\ boot' = "loaded" /\ UNCHANGED writing
           \/ /\ file \notin {NoFile, TornFile}
              /\ arrays' = u.arrays /\ maps' = u.maps
              /\ mem' = [k EXCEPT !.secrets = 1]
              /\ IF d.key THEN boot' = "loaded" /\ UNCHANGED writing
                          ELSE boot' = "load" /\ Marshal("load", [d EXCEPT !.key = TRUE])
    /\ UNCHANGED <<disk, req, crashes, begun>>

\* NewAuthManager.  The administrator's password is generated when there is
\* none, or taken from the environment when it differs from the stored one.
NewAuthManager ==
    /\ boot = "loaded"
    /\ \/ mem.admin /\ boot' = "serving" /\ UNCHANGED <<mem, writing>>
       \/ /\ boot' = "auth"
          /\ mem' = [mem EXCEPT !.admin = TRUE]
          /\ Marshal("auth", Content(mem'))
    /\ UNCHANGED <<heap, disk, req, crashes, begun>>

HalfWritten == writing # NoWrite /\ writing.stage = "open"

\* The process ends, at any moment.
Crash ==
    /\ boot # "down" /\ crashes < MaxCrashes
    /\ file = TornFile => Torn
    /\ boot' = "down" /\ crashes' = crashes + 1
    /\ mem' = Off.config /\ arrays' = Off.arrays /\ maps' = Off.maps
    /\ writing' = NoWrite
    /\ req' = [c \in Client |-> Idle]
    /\ UNCHANGED <<disk, begun>>

-----------------------------------------------------------------------------
(* os.WriteFile: open with truncation, write, return to the caller.        *)

\* The caller of saveInternal goes on, whether or not it looks at the error.
Return ==
    /\ writing' = NoWrite
    /\ boot' = CASE writing.by = "load" -> "loaded" [] writing.by = "auth" -> "serving"
                 [] OTHER -> boot
    /\ req' = [c \in Client |-> IF c = writing.by THEN Idle ELSE req[c]]
    /\ UNCHANGED <<mem, heap, crashes, begun>>

OpenFails ==
    /\ SaveFails
    /\ writing # NoWrite /\ writing.stage = "marshalled"
    /\ lastOk' = FALSE /\ UNCHANGED <<file, durable>>
    /\ Return

Truncate ==
    /\ writing # NoWrite /\ writing.stage = "marshalled"
    /\ file' = TornFile
    /\ writing' = [writing EXCEPT !.stage = "open"]
    /\ UNCHANGED <<boot, mem, heap, req, crashes, begun, durable, lastOk>>

WriteData ==
    /\ HalfWritten
    /\ file' = writing.data /\ durable' = writing.data /\ lastOk' = TRUE
    /\ Return

WriteFails ==
    /\ SaveFails
    /\ HalfWritten
    /\ lastOk' = FALSE /\ UNCHANGED <<file, durable>>
    /\ Return

-----------------------------------------------------------------------------
(* Get and Save, as a handler calls them.                                  *)

Unlocked == writing = NoWrite

\* A handler starts: the body is valid, and cfg := h.Config.Get().
Get(c, r) ==
    /\ boot = "serving" /\ Unlocked
    /\ req[c] = Idle /\ begun < MaxRequests
    /\ r.op # "RegisterAgent"
    /\ req' = [req EXCEPT ![c] = [pc |-> "got", r |-> r, cfg |-> mem]]
    /\ begun' = begun + 1
    /\ UNCHANGED <<boot, mem, heap, disk, writing, crashes>>

\* h.Config.Save(cfg): the copy becomes the configuration, then the file.
Save(c) ==
    /\ req[c].pc = "changed" /\ Unlocked
    /\ mem' = req[c].cfg
    /\ Marshal(c, Content(req[c].cfg))
    /\ req' = [req EXCEPT ![c] = [pc |-> "saving", op |-> req[c].op]]
    /\ UNCHANGED <<boot, heap, disk, crashes, begun>>

Working(c, op) == req[c].pc = "got" /\ req[c].r.op = op
List(c, l)     == Elems(arrays, req[c].cfg.lists[l])
Changed(c, cfg) == req' = [req EXCEPT ![c] = [pc |-> "changed", op |-> req[c].r.op, cfg |-> cfg]]
Rest == UNCHANGED <<boot, mem, disk, writing, crashes, begun>>

\* The handler answers 404, 409 or 200 without having changed anything.
Refuse(c) ==
    /\ req' = [req EXCEPT ![c] = Idle]
    /\ UNCHANGED heap /\ Rest

\* The copy's list l becomes what Appended or Rebuilt returned.
SetList(c, l, new) ==
    /\ arrays' = new.arrays
    /\ Changed(c, [req[c].cfg EXCEPT !.lists[l] = new.slice])
    /\ UNCHANGED maps /\ Rest

AppendTo(c, l, e) == SetList(c, l, Appended(req[c].cfg.lists[l], e))

KeepOthers(c, l, id) == SetList(c, l, Rebuilt(Without(List(c, l), id)))

\* cfg.l[i].field = value, for the first i with that id, in the shared array.
SetField(c, l, id, field, value) ==
    /\ arrays' = [arrays EXCEPT ![req[c].cfg.lists[l].arr][First(List(c, l), id)][field] = value]
    /\ Changed(c, req[c].cfg)
    /\ UNCHANGED maps /\ Rest

SetScalar(c, field, value) ==
    /\ Changed(c, [req[c].cfg EXCEPT ![field] = value])
    /\ UNCHANGED heap /\ Rest

SetMap(c, k, keys) ==
    /\ maps' = [maps EXCEPT ![k] = keys]
    /\ Changed(c, req[c].cfg)
    /\ UNCHANGED arrays /\ Rest

-----------------------------------------------------------------------------
(* The handlers, between Get and Save.                                     *)

HandleCreateUser(c) ==
    /\ Working(c, "CreateUser")
    /\ IF Has(List(c, "users"), req[c].r.id) THEN Refuse(c)
                                             ELSE AppendTo(c, "users", req[c].r.entry)

HandleDeleteUser(c) ==
    /\ Working(c, "DeleteUser")
    /\ IF Has(List(c, "users"), req[c].r.id) THEN KeepOthers(c, "users", req[c].r.id)
                                             ELSE Refuse(c)

\* A handler that changes one field of the first entry with the id, or answers 404.
Modify(c, l, field, value) ==
    IF Has(List(c, l), req[c].r.id) THEN SetField(c, l, req[c].r.id, field, value)
                                    ELSE Refuse(c)

\* Mutant: the change made in place is not saved.
HandleUpdateUser_NotSaved(c) ==
    /\ Working(c, "UpdateUser") /\ Has(List(c, "users"), req[c].r.id)
    /\ arrays' = [arrays EXCEPT ![req[c].cfg.lists["users"].arr]
                     [First(List(c, "users"), req[c].r.id)].rights = req[c].r.val]
    /\ req' = [req EXCEPT ![c] = Idle]
    /\ UNCHANGED maps /\ Rest

HandleUpdateUser(c) ==
    Working(c, "UpdateUser") /\ Modify(c, "users", "rights", req[c].r.val)

HandleChangePassword(c) ==
    Working(c, "ChangePassword") /\ Modify(c, "users", "password", req[c].r.val)

HandleCreateGroup(c) ==
    Working(c, "CreateGroup") /\ AppendTo(c, "groups", req[c].r.entry)

\* Mutant: users are added to the group, but nobody is removed from it.
HandleUpdateGroup_AddsOnly(c) ==
    /\ Working(c, "UpdateGroup") /\ Has(List(c, "groups"), req[c].r.id)
    /\ LET r  == req[c].r
           gs == req[c].cfg.lists["groups"]
           us == req[c].cfg.lists["users"]
       IN  arrays' = [arrays EXCEPT
               ![gs.arr][First(List(c, "groups"), r.id)].hosts = r.val,
               ![us.arr] = [i \in DOMAIN @ |->
                   IF i <= us.len /\ "members" \in DOMAIN r /\ @[i].id \in r.members
                   THEN [arrays[us.arr][i] EXCEPT !.groups = @ \cup {r.id}]
                   ELSE arrays[us.arr][i]]]
    /\ Changed(c, req[c].cfg)
    /\ UNCHANGED maps /\ Rest

\* The group's entry, then, when the request lists members, the membership of
\* every user, all in place.  The groups of a user are a value here.  In the
\* code they are a slice of their own, which a copy of that user in an older
\* array may share: removing a group shifts the others in both.  Such a copy is
\* in force again only when an older request is saved over a newer one.
HandleUpdateGroup(c) ==
    /\ Working(c, "UpdateGroup")
    /\ LET r  == req[c].r
           gs == req[c].cfg.lists["groups"]
           us == req[c].cfg.lists["users"]
           Member(u) == [u EXCEPT !.groups = IF "members" \notin DOMAIN r THEN @
                                             ELSE IF u.id \in r.members THEN @ \cup {r.id}
                                             ELSE @ \ {r.id}]
       IN  IF Has(List(c, "groups"), r.id)
           THEN /\ arrays' = [arrays EXCEPT
                     ![gs.arr][First(List(c, "groups"), r.id)].hosts = r.val,
                     ![us.arr] = [i \in DOMAIN @ |-> IF i <= us.len THEN Member(@[i]) ELSE @[i]]]
                /\ Changed(c, req[c].cfg)
                /\ UNCHANGED maps /\ Rest
           ELSE Refuse(c)

HandleDeleteGroup(c) ==
    Working(c, "DeleteGroup") /\ KeepOthers(c, "groups", req[c].r.id)

HandleDeleteHost(c) ==
    /\ Working(c, "DeleteHost")
    /\ IF Has(List(c, "ignored"), req[c].r.id) THEN Refuse(c)
                                               ELSE AppendTo(c, "ignored", req[c].r.entry)

HandleSaveSettings(c) ==
    Working(c, "SaveSettings") /\ SetScalar(c, "settings", req[c].r.val)

HandleEnableMFA(c)  == Working(c, "EnableMFA") /\ SetScalar(c, "mfa", TRUE)
HandleDisableMFA(c) == Working(c, "DisableMFA") /\ SetScalar(c, "mfa", FALSE)

\* A new rule keeps the silenced hosts it comes with, in a map of its own,
\* which is made when the request has none.
HandleCreateAlertRule(c) ==
    /\ Working(c, "CreateAlertRule")
    /\ LET new == Appended(req[c].cfg.lists["rules"],
                           [req[c].r.entry EXCEPT !.silenced = Len(maps) + 1, !.nil = FALSE,
                                                  !.enabled = TRUE])
       IN  /\ maps' = Append(maps, req[c].r.entry.silenced)
           /\ arrays' = new.arrays
           /\ Changed(c, [req[c].cfg EXCEPT !.lists["rules"] = new.slice])
    /\ Rest

Rule(c) == List(c, "rules")[First(List(c, "rules"), req[c].r.id)]

HandleToggleAlertRule(c) ==
    Working(c, "ToggleAlertRule") /\ Modify(c, "rules", "enabled", ~Rule(c).enabled)

HandleUpdateAlertRule(c) ==
    Working(c, "UpdateAlertRule") /\ Modify(c, "rules", "condition", req[c].r.val)

HandleDeleteAlertRule(c) ==
    Working(c, "DeleteAlertRule") /\ KeepOthers(c, "rules", req[c].r.id)

HandleCreateChannel(c) ==
    Working(c, "CreateChannel") /\ AppendTo(c, "channels", req[c].r.entry)

HandleDeleteChannel(c) ==
    Working(c, "DeleteChannel") /\ KeepOthers(c, "channels", req[c].r.id)

\* A nil map is replaced by a new one, in the array of this copy only.
MakeMap(c, keys) ==
    LET i == First(List(c, "rules"), req[c].r.id)
    IN  /\ maps' = Append(maps, keys)
        /\ arrays' = [arrays EXCEPT ![req[c].cfg.lists["rules"].arr][i] =
                         [@ EXCEPT !.silenced = Len(maps) + 1, !.nil = FALSE]]
        /\ Changed(c, req[c].cfg)
        /\ Rest

HandleSilenceAlert(c) ==
    /\ Working(c, "SilenceAlert")
    /\ \/ ~Has(List(c, "rules"), req[c].r.id) /\ Refuse(c)
       \/ /\ Has(List(c, "rules"), req[c].r.id)
          /\ IF Rule(c).nil
             THEN MakeMap(c, {req[c].r.host})
             ELSE SetMap(c, Rule(c).silenced, maps[Rule(c).silenced] \cup {req[c].r.host})

\* Saves also when there is no such rule; a nil map stays empty.
HandleUnsilenceAlert(c) ==
    /\ Working(c, "UnsilenceAlert")
    /\ IF Has(List(c, "rules"), req[c].r.id)
       THEN SetMap(c, Rule(c).silenced, maps[Rule(c).silenced] \ {req[c].r.host})
       ELSE Changed(c, req[c].cfg) /\ UNCHANGED heap /\ Rest

-----------------------------------------------------------------------------
(* Agent registration reads the configuration three times.                 *)

\* The system key of the request is compared with the first copy's.
RegisterKey(c, r) ==
    /\ boot = "serving" /\ Unlocked
    /\ req[c] = Idle /\ begun < MaxRequests
    /\ r.op = "RegisterAgent" /\ mem.key
    /\ req' = [req EXCEPT ![c] = [pc |-> "keyed", r |-> r]]
    /\ begun' = begun + 1
    /\ UNCHANGED <<boot, mem, heap, disk, writing, crashes>>

\* With MFA on the request needs a code, and may be refused for it.
RegisterMFA(c) ==
    /\ req[c].pc = "keyed" /\ Unlocked
    /\ \/ req' = [req EXCEPT ![c] = [pc |-> "checked", r |-> req[c].r]]
       \/ mem.mfa /\ req' = [req EXCEPT ![c] = Idle]
    /\ UNCHANGED heap /\ Rest

\* Mutant: every call of Get is given maps of its own.
RegisterGet_CopiesMap(c) ==
    /\ req[c].pc = "checked" /\ Unlocked
    /\ maps' = IF mem.secrets = Null THEN maps ELSE Append(maps, maps[mem.secrets])
    /\ req' = [req EXCEPT ![c] = [pc |-> "got", r |-> req[c].r,
                  cfg |-> IF mem.secrets = Null THEN mem
                                                ELSE [mem EXCEPT !.secrets = Len(maps) + 1]]]
    /\ UNCHANGED arrays /\ Rest

RegisterGet(c) ==
    /\ req[c].pc = "checked" /\ Unlocked
    /\ req' = [req EXCEPT ![c] = [pc |-> "got", r |-> req[c].r, cfg |-> mem]]
    /\ UNCHANGED heap /\ Rest

\* The secret goes into the shared map.  A write to a nil map panics; gin
\* recovers and answers 500.
HandleRegisterAgent(c) ==
    /\ Working(c, "RegisterAgent")
    /\ IF req[c].cfg.secrets = Null
       THEN Refuse(c)
       ELSE SetMap(c, req[c].cfg.secrets, maps[req[c].cfg.secrets] \cup {req[c].r.host})

-----------------------------------------------------------------------------
Handle(c) ==
    \/ HandleCreateUser(c) \/ HandleDeleteUser(c) \/ HandleUpdateUser(c)
    \/ HandleChangePassword(c) \/ HandleCreateGroup(c) \/ HandleUpdateGroup(c)
    \/ HandleDeleteGroup(c) \/ HandleDeleteHost(c) \/ HandleSaveSettings(c)
    \/ HandleEnableMFA(c) \/ HandleDisableMFA(c) \/ HandleCreateAlertRule(c)
    \/ HandleToggleAlertRule(c) \/ HandleUpdateAlertRule(c) \/ HandleDeleteAlertRule(c)
    \/ HandleCreateChannel(c) \/ HandleDeleteChannel(c) \/ HandleSilenceAlert(c)
    \/ HandleUnsilenceAlert(c) \/ HandleRegisterAgent(c)

Next ==
    \/ Load \/ NewAuthManager \/ Crash
    \/ OpenFails \/ Truncate \/ WriteData \/ WriteFails
    \/ \E c \in Client :
          \/ \E r \in Requests : Get(c, r) \/ RegisterKey(c, r)
          \/ RegisterMFA(c) \/ RegisterGet(c) \/ Handle(c) \/ Save(c)

Spec == Init /\ [][Next]_vars

-----------------------------------------------------------------------------
(* Properties.                                                             *)

\* The configuration in force, as a value.
View(d)    == [d EXCEPT !.secrets = IF @ = Null THEN {} ELSE @]
Registered == IF mem.secrets = Null THEN {} ELSE maps[mem.secrets]
Quiet      == boot = "serving" /\ writing = NoWrite /\ \A c \in Client : req[c] = Idle

\* Every copy of the configuration, the one in force and those of the
\* handlers, is made of complete entries of the right kind; a slice never
\* reaches past its array, and unused room is never in it.
TypeOK ==
    LET Sound(c) ==
            /\ \A l \in Lists :
                  /\ c.lists[l].len <= Len(arrays[c.lists[l].arr])
                  /\ \A i \in 1..c.lists[l].len : DOMAIN arrays[c.lists[l].arr][i] = Fields[l]
            /\ c.secrets = Null \/ c.secrets \in DOMAIN maps
            /\ c.mfa \in BOOLEAN /\ c.key \in BOOLEAN /\ c.admin \in BOOLEAN
    IN  /\ boot \in {"down", "load", "loaded", "auth", "serving"}
        /\ Sound(mem)
        /\ \A c \in Client : req[c].pc \in {"got", "changed"} => Sound(req[c].cfg)
        /\ writing # NoWrite => writing.stage \in {"marshalled", "open"}
        /\ crashes \in 0..MaxCrashes /\ begun \in 0..MaxRequests

\* No agent that may register finds the map of secrets missing: a system key
\* exists only in configurations whose map was made (config.go 111-120).
RegistrationNeverPanics ==
    \A c \in Client : Working(c, "RegisterAgent") => req[c].cfg.secrets # Null

\* While the server runs, no overlap of requests makes it forget an agent
\* that registered: all copies share one map.
AgentsNotForgotten ==
    [][boot = "serving" /\ boot' = "serving" => Registered \subseteq Registered']_vars

\* When no request is being handled and the last write succeeded, the file
\* holds the configuration in force, whatever was changed in place, by whom
\* and in which order.
QuietMeansStored ==
    Quiet /\ lastOk => file \notin {NoFile, TornFile} /\ View(file) = View(Content(mem))

\* The requests of one client, one after the other, do what each promises.
Abstract == INSTANCE AtomicConfig
    WITH Initial <- {View(IF f \in {NoFile, TornFile} THEN NewConfig ELSE f) : f \in InitialFiles},
         Defaults <- View(NewConfig),
         Unreadable <- ReadFails \/ Torn,
         conf    <- View(IF boot = "down" THEN durable ELSE Content(mem)),
         durable <- View(durable)
OneAtATimeIsAtomic == Abstract!Spec

\* "Update only allowed fields" (handler.go 1031): saving the settings
\* changes nothing but the settings.
SettingsOnly ==
    [][\A c \in Client :
          req[c].pc = "changed" /\ req[c].op = "SaveSettings" /\ req'[c].pc = "saving"
             => Content(mem)' = [Content(mem) EXCEPT !.settings = mem'.settings]]_vars

=============================================================================
