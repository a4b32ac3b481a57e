----------------------------- MODULE MCTelemetry -----------------------------
(***************************************************************************)
(* The main thread ticks, draws and destroys, and a worker nests scopes.   *)
(***************************************************************************)
EXTENDS Telemetry

WorkerScopes == [t \in Thread |-> IF t = Main THEN 0 ELSE 2]
=============================================================================
