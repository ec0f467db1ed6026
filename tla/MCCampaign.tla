----------------------------- MODULE MCCampaign -----------------------------
(* Recipients and uploads for checking Campaign with TLC. *)
EXTENDS Campaign, TLC

CONSTANTS a, b, u1, u2

\* One recipient per upload.
TwoUploads == (u1 :> {a}) @@ (u2 :> {b})

\* Swapping the recipients and their uploads at once.
Swaps == {(a :> b) @@ (b :> a) @@ (u1 :> u2) @@ (u2 :> u1)}

\* Both recipients in one upload.
OneUpload == (u1 :> {a, b})

\* One recipient.
Single == (u1 :> {a})
=============================================================================
