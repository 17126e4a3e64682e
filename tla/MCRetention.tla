----------------------------- MODULE MCRetention -----------------------------
(* Retention, with the requests of MCConfigStore that overlap and settings      *)
(* without a retention.                                                         *)
EXTENDS Retention, MCConfigStore

MCDays == [default |-> 7, new |-> 30, none |-> 0]
RetentionRequests == Mixed \cup {[op |-> "SaveSettings", val |-> "none"]}
=============================================================================
