------------------------------ MODULE Retention ------------------------------
(* How long ClickHouse keeps rows.  ApplyRetentionPolicy alters one table after *)
(* the other and only logs an error.  It is called twice while the server       *)
(* starts, with seven days when the connection is made and with the stored      *)
(* setting before requests are served, and by a goroutine for each setting that *)
(* is saved, which nobody waits for.                                            *)
(*                                                                              *)
(* Every step of ConfigStore is a step here, with what it means for these       *)
(* calls; a call is a step from one table to the next.  Save returns before the *)
(* goroutine is started, and the goroutine runs when it is scheduled: other     *)
(* settings may be saved, and applied, between the two.                         *)
EXTENDS ConfigStore

CONSTANTS
    Tables,       \* the tables are 1..Tables, in the order of the list
    Days,         \* for each value of the settings, the retention in it
    StartupDays,  \* the retention when the connection is made
    AlterMayFail  \* may ClickHouse refuse a statement?

ASSUME TablesAssumption == /\ Tables \in Nat \ {0} /\ StartupDays \in Nat \ {0}
                           /\ \A s \in DOMAIN Days : Days[s] \in Nat
                           /\ AlterMayFail \in BOOLEAN

VARIABLES
    stage,     \* of the start: "stopped", "connected", "configured"
    ttl,       \* for each table, the days it keeps rows
    policies,  \* the calls of ApplyRetentionPolicy that have not returned, also those to begin
    behind     \* history: the last call to begin came too late, or something has
               \* kept a table from following since

retentionVars == <<stage, ttl, policies, behind>>

Main == 0
FreshTables == [t \in 1..Tables |-> StartupDays]

RetentionInit ==
    /\ Init
    /\ stage = "stopped" /\ ttl = FreshTables /\ policies = {} /\ behind = FALSE

-----------------------------------------------------------------------------
(* ApplyRetentionPolicy.                                                       *)

(* A call that has begun is at table next; one that has not is at table 0. *)
Call(caller, days, table) == [by |-> caller, days |-> days, next |-> table]
Running == {p \in policies : p.next > 0}

(* The start of the server makes the call itself. *)
Begin(days) ==
    /\ policies' = policies \cup {Call(Main, days, 1)}
    /\ behind' = (Running # {})

(* Another call is running and may have the last word on a table, or the days   *)
(* are no longer those of the settings in force.                                *)
TooLate(p) == Running # {} \/ p.days # Days[mem.settings]

(* The goroutine of a saved setting comes to run. *)
CallBegins(p) ==
    /\ p \in policies /\ p.next = 0
    /\ policies' = (policies \ {p}) \cup {[p EXCEPT !.next = 1]}
    /\ behind' = TooLate(p)
    /\ UNCHANGED <<vars, stage, ttl>>

\* Mutant: the last table of the list is left out.
GoesOn_NotLast(p) ==
    policies' = (policies \ {p}) \cup IF p.next < Tables - 1 THEN {[p EXCEPT !.next = @ + 1]} ELSE {}

GoesOn(p) ==
    policies' = (policies \ {p}) \cup IF p.next < Tables THEN {[p EXCEPT !.next = @ + 1]} ELSE {}

Alter(p) ==
    /\ p \in Running
    /\ ttl' = [ttl EXCEPT ![p.next] = p.days]
    /\ GoesOn(p)
    /\ UNCHANGED <<vars, stage, behind>>

AlterFails(p) ==
    /\ AlterMayFail
    /\ p \in Running
    /\ GoesOn(p)
    /\ behind' = (behind \/ ttl[p.next] # p.days)
    /\ UNCHANGED <<vars, stage, ttl>>

-----------------------------------------------------------------------------
(* The start of the server.                                                    *)

(* NewLogStore. *)
Connect ==
    /\ boot = "down" /\ stage = "stopped"
    /\ stage' = "connected"
    /\ Begin(StartupDays)
    /\ UNCHANGED <<vars, ttl>>

(* Nothing is applied when no retention is stored. *)
ApplyConfigured ==
    /\ boot = "serving" /\ stage = "connected"
    /\ stage' = "configured"
    /\ IF Days[mem.settings] > 0 THEN Begin(Days[mem.settings])
                                 ELSE UNCHANGED <<policies, behind>>
    /\ UNCHANGED <<vars, ttl>>

Starting == \E p \in policies : p.by = Main

(* The file is read when the connection stands, and requests are served when    *)
(* the stored retention has been applied.                                       *)
InOrder ==
    /\ boot = "down" /\ boot' # "down" => stage = "connected" /\ ~Starting
    /\ begun' # begun => stage = "configured" /\ ~Starting

-----------------------------------------------------------------------------
(* What the other steps of the server mean for the tables.                     *)

(* The goroutines end with the process; a statement on its way may still be     *)
(* carried out.                                                                 *)
Stops ==
    /\ crashes' # crashes
    /\ stage' = "stopped" /\ policies' = {} /\ UNCHANGED behind
    /\ ttl' \in {f \in [1..Tables -> {ttl[t] : t \in 1..Tables} \cup {p.days : p \in policies}] :
                    \A t \in 1..Tables :
                        f[t] \in {ttl[t]} \cup {p.days : p \in {q \in policies : q.next = t}}}

SettingsDone ==
    /\ writing # NoWrite /\ writing' = NoWrite /\ crashes' = crashes
    /\ writing.by \in Client /\ req[writing.by].op = "SaveSettings"

(* Save returned no error: the handler will start a goroutine that applies the *)
(* new retention, when there is one.                                            *)
Spawns ==
    /\ SettingsDone /\ lastOk'
    /\ \E n \in 1..MaxRequests :
          /\ \A p \in policies : p.by # n
          /\ \A m \in 1..n - 1 : \E p \in policies : p.by = m
          /\ LET days == Days[writing.data.settings]
             IN  policies' = policies \cup IF days > 0 THEN {Call(n, days, 0)} ELSE {}
    /\ UNCHANGED <<stage, ttl, behind>>

(* It returned one: the new retention is in memory only, and nothing applies it. *)
NotSaved ==
    /\ SettingsDone /\ ~lastOk'
    /\ behind' = TRUE
    /\ UNCHANGED <<stage, ttl, policies>>

(* Another handler saves a copy it made before the settings were changed. *)
SettingsPutBack ==
    /\ crashes' = crashes /\ boot = "serving" /\ mem'.settings # mem.settings
    /\ writing' # NoWrite /\ req'[writing'.by].op # "SaveSettings"

(* They are in force again, and nothing applies them. *)
PutsBack ==
    /\ SettingsPutBack
    /\ behind' = TRUE
    /\ UNCHANGED <<stage, ttl, policies>>

ServerStep ==
    /\ Next
    /\ InOrder
    /\ \/ Stops \/ Spawns \/ NotSaved \/ PutsBack
       \/ /\ crashes' = crashes /\ ~SettingsDone /\ ~SettingsPutBack
          /\ UNCHANGED retentionVars

RetentionNext ==
    \/ ServerStep \/ Connect \/ ApplyConfigured
    \/ \E p \in policies : CallBegins(p) \/ Alter(p) \/ AlterFails(p)

RetentionSpec == RetentionInit /\ [][RetentionNext]_<<vars, retentionVars>>

-----------------------------------------------------------------------------
(* Properties.                                                                 *)

(* When nothing is being handled or applied, every table keeps rows for as      *)
(* long as the settings in force say, however requests overlap, and also after  *)
(* a crash between two tables: unless a statement failed, the settings could    *)
(* not be saved, the last call to begin overlapped another or began after newer *)
(* settings had been saved, or an overlapping request put old settings back.    *)
RetentionInForce ==
    Quiet /\ stage = "configured" /\ policies = {} /\ ~behind /\ Days[mem.settings] > 0
        => \A t \in 1..Tables : ttl[t] = Days[mem.settings]
=============================================================================
