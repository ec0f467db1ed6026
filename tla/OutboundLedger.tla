--------------------------- MODULE OutboundLedger ---------------------------
(***************************************************************************)
(* What the outbound side of the service promises about a send, without    *)
(* saying how: Meta accepts messages, and the service records some of      *)
(* them in the messages table.  A message is named by the request and the  *)
(* number of the POST attempt that carried it (its wamid).                 *)
(*                                                                         *)
(* A request is recorded at most once, only after Meta accepted the        *)
(* message, and the recorded attempt is never superseded by a later one.   *)
(* The ledger does not promise that every accepted message is recorded:    *)
(* the code does not either.                                               *)
(***************************************************************************)
EXTENDS Integers

CONSTANTS Requests,   \* send requests
          Attempts    \* POSTs one request may issue

VARIABLES taken,      \* wamids of the messages Meta took responsibility for
          recorded    \* wamids of the committed rows of the messages table

lvars == <<taken, recorded>>

WamIds == Requests \X (1 .. Attempts)

LedgerInit ==
    /\ taken = {}
    /\ recorded = {}

\* Meta accepts message w.  No later attempt follows a recorded one.
Accept(w) ==
    /\ w \notin taken
    /\ \A x \in recorded : x[1] = w[1] => w[2] < x[2]
    /\ taken' = taken \cup {w}
    /\ UNCHANGED recorded

\* The service commits the row of a message Meta took.
Record(w) ==
    /\ w \in taken
    /\ \A x \in recorded : x[1] # w[1]
    /\ \A x \in taken : x[1] = w[1] => x[2] <= w[2]
    /\ recorded' = recorded \cup {w}
    /\ UNCHANGED taken

LedgerNext == \E w \in WamIds : Accept(w) \/ Record(w)

LedgerSpec == LedgerInit /\ [][LedgerNext]_lvars
=============================================================================
