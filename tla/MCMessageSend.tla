--------------------------- MODULE MCMessageSend ----------------------------
(* Model values and key assignments for checking MessageSend with TLC. *)
EXTENDS MessageSend, TLC

CONSTANTS r1, r2, r3, k1

\* Two requests of one client key and one of the administrator.
ThreeCallers == (r1 :> k1) @@ (r2 :> k1) @@ (r3 :> Admin)
=============================================================================
