-------------------------- MODULE MCTemplateCache --------------------------
(* Two templates on two pages for checking TemplateCache with TLC. *)
EXTENDS TemplateCache, TLC

CONSTANTS t1, t2, s1, s2

TwoPages == (t1 :> 1) @@ (t2 :> 2)
=============================================================================
