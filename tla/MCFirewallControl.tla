------------------------ MODULE MCFirewallControl ------------------------
(* FirewallControl on small instances. *)
EXTENDS FirewallControl, TLC

CONSTANTS a1, a2, p1, p10, i1, i2

\* 10.0.0.1 occurs in the text of a rule for 10.0.0.10, not the other way round.
Overlapping == {<<p1, p1>>, <<p10, p10>>, <<p1, p10>>} \cap (IP \X IP)
Distinct    == {<<p, p>> : p \in IP}

CommandSymmetry == Permutations(CmdId)
===========================================================================
