---------------------------- MODULE MC_Handlers ----------------------------
(* The handler layer has no constants: every operation, every abstract    *)
(* request and every controller result is enumerated.                      *)
EXTENDS Handlers
=============================================================================
