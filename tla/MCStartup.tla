----------------------------- MODULE MCStartup -----------------------------
(* One tick is five seconds. *)
EXTENDS Startup
=============================================================================
