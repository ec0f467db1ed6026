-------------------------- MODULE MCDeliveryStatus --------------------------
(* Payloads for checking DeliveryStatus with TLC. *)
EXTENDS DeliveryStatus, TLC

CONSTANTS m1, i1, i2, pDelivered, pRead, pMixed, pForeign

Status(raw, ok) == [kind |-> "status", msg |-> m1, raw |-> raw, parses |-> ok]
Change(n, ids) == [kind |-> "change", tenants |-> n, inbounds |-> ids, fits |-> TRUE]

\* A payload with an inbound message, a status, an item that cannot be parsed
\* and, in a second change, another inbound message.
MixedItems ==
    <<Change(1, {i1}), Status("deleted", TRUE), Status("sent", FALSE), Change(1, {i2})>>

\* An inbound message and a report for a number of no tenant we know and, in a
\* second change, an inbound message of a known one and an unknown status.
ForeignItems ==
    <<[Change(0, {i1}) EXCEPT !.fits = FALSE], Status("read", TRUE),
      Change(1, {i2}), Status("warning", TRUE)>>

BatchItems == (pForeign :> ForeignItems) @@ (pMixed :> MixedItems)

\* Two reports on one message.
TwoReports ==
    (pDelivered :> <<Change(1, {}), Status("delivered", TRUE)>>) @@
    (pRead :> <<Change(1, {}), Status("read", TRUE)>>)
=============================================================================
