---------------------------- MODULE MCPagedList ----------------------------
(* Six rows, two of them of one upload, for checking PagedList with TLC. *)
EXTENDS PagedList, TLC

CONSTANTS a, b, c, d, e, f

\* b and c were created by one upload.
OneTie == (a :> 1) @@ (b :> 2) @@ (c :> 2) @@ (d :> 3) @@ (e :> 4) @@ (f :> 5)
=============================================================================
