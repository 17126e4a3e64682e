-------------------------- MODULE CommandDelivery --------------------------
(***************************************************************************)
(* What the command queue between the server and the agents promises, with *)
(* no table, poll, acknowledgement or clock in sight: a command that was   *)
(* issued may run any number of times, and is settled only after it ran.   *)
(* At least once, not exactly once, and possibly again after it is         *)
(* settled.  A command may also be withdrawn (the TTL of the table).       *)
(* FirewallControl implements this specification (Delivery there).         *)
(***************************************************************************)
CONSTANT CmdId

VARIABLES phase,   \* new, issued, settled or withdrawn
          ran      \* the commands that ran at least once

vars == <<phase, ran>>

Init == /\ phase = [i \in CmdId |-> "new"]
        /\ ran = {}

Issue(i) == /\ phase[i] = "new"
            /\ phase' = [phase EXCEPT ![i] = "issued"]
            /\ UNCHANGED ran

Run(i) == /\ phase[i] # "new"
          /\ ran' = ran \cup {i}
          /\ UNCHANGED phase

Settle(i) == /\ phase[i] = "issued" /\ i \in ran
             /\ phase' = [phase EXCEPT ![i] = "settled"]
             /\ UNCHANGED ran

Withdraw(i) == /\ phase[i] \in {"issued", "settled"}
               /\ phase' = [phase EXCEPT ![i] = "withdrawn"]
               /\ UNCHANGED ran

Next == \E i \in CmdId : Issue(i) \/ Run(i) \/ Settle(i) \/ Withdraw(i)

Spec == Init /\ [][Next]_vars
=============================================================================
