---------------------------- MODULE MCOIDCLogin ----------------------------
(* Two flows, so that one may start, or its tab be used, while the other   *)
(* waits; three callbacks, so that an answer can be repeated and another   *)
(* flow still have one.                                                    *)
EXTENDS OIDCLogin

CONSTANTS f1, f2, c1, c2, c3

MCFlows == {f1, f2}
MCCallbacks == {c1, c2, c3}
=============================================================================
