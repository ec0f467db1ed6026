------------------------- MODULE MCTenantDirectory -------------------------
(* Requests for checking TenantDirectory with TLC. *)
EXTENDS TenantDirectory, TLC

CONSTANTS seed, create, patch, retoken, delete, send, task

\* The seed script and a creation with its slug, a PATCH that raises the limit
\* and one that replaces the token, a deletion, a send and a campaign task.
AllKinds ==
    (seed :> [op |-> "seed", slug |-> "prodaxis", limit |-> 1, token |-> "old"]) @@
    (create :> [op |-> "create", slug |-> "prodaxis", limit |-> 0, token |-> "old"]) @@
    (patch :> [op |-> "update", fields |-> {"limit"}, limit |-> 2, token |-> "none"]) @@
    (retoken :> [op |-> "update", fields |-> {"token"}, limit |-> 0, token |-> "new"]) @@
    (delete :> [op |-> "delete"]) @@
    (send :> [op |-> "send"]) @@ (task :> [op |-> "bulk"])
=============================================================================
