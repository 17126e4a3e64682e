--------------------------- MODULE MCTelemetry ---------------------------
(* Telemetry on a small instance. *)
EXTENDS Telemetry
===========================================================================
