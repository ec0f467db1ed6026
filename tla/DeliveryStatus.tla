--------------------------- MODULE DeliveryStatus ---------------------------
(***************************************************************************)
(* POST /webhooks/whatsapp: Meta reports what became of sent messages and  *)
(* hands over inbound ones.  src/api/v1/webhooks.py and                    *)
(* src/services/webhook_service.py.                                        *)
(*                                                                         *)
(* Meta posts a payload until a 200 reaches it, so the same payload may be *)
(* handled several times, by concurrent requests and in any order.  Each   *)
(* request has one session: rows it has loaded are not read again while it *)
(* holds them, and the flush at the end writes the columns it changed and  *)
(* no others.  Loading a tenant loads all its messages (relationship       *)
(* lazy="selectin"), which is when most rows a handler works on are read.  *)
(*                                                                         *)
(* A payload has entries, these have changes, and a change has inbound     *)
(* messages and then statuses.  Here it is one list of items: a change     *)
(* with its inbound messages, followed by its statuses.  An item that      *)
(* raises ends the handling of the whole payload.                          *)
(*                                                                         *)
(* Abstracted: time stamps are present or absent; prices and the details   *)
(* of errors are left out.  Campaign recipients are in module Campaign,    *)
(* template updates in module TemplateCache.                               *)
(***************************************************************************)
EXTENDS Integers, Sequences, FiniteSets

CONSTANTS
    Messages,     \* outbound messages, by wamid
    InboundIds,   \* inbound messages, by wamid
    Payloads,     \* bodies Meta has to deliver
    Items,        \* payload -> its changes and statuses, in order
    Inferred,     \* payloads for which _infer_tenant_id finds a tenant
    Authentic,    \* payloads whose signature verifies
    MaxPosts      \* bound: how often Meta posts one payload

RawStatuses == {"sent", "delivered", "read", "failed", "deleted", "warning"}

\* A change: how many tenants its phone number id, else that of the event, gives,
\* its inbound messages and whether their values fit the columns.
ChangeItem == [kind : {"change"}, tenants : Nat, inbounds : SUBSET InboundIds, fits : BOOLEAN]
StatusItem == [kind : {"status"}, msg : Messages, raw : RawStatuses, parses : BOOLEAN]

ASSUME PostsAssumption == MaxPosts \in Nat \ {0}
ASSUME PayloadAssumption ==
    /\ Items \in [Payloads -> Seq(ChangeItem \cup StatusItem)]
    /\ Authentic \subseteq Payloads /\ Inferred \subseteq Payloads
    /\ \A p \in Inferred : \A n \in 1 .. Len(Items[p]) :
        Items[p][n].kind = "change" => Items[p][n].tenants # 0

Posts == Payloads \X (1 .. MaxPosts)

VARIABLES
    msg,        \* committed rows of outbound messages
    inbound,    \* inbound id -> the posts that committed a row for it
    event,      \* post -> its committed row of webhook_events
    acked,      \* payloads for which Meta got a 200
    pc,         \* how far each post is
    next,       \* index of the next item, or of the one that raised
    found,      \* the status items with a known status whose message was found
    base,       \* the rows as the session loaded them
    cur         \* the rows as the session has changed them

vars == <<msg, inbound, event, acked, pc, next, found, base, cur>>
db == <<msg, inbound, event>>

Stamps == {"sent", "delivered", "read", "failed"}
NoRow == [status |-> "none", at |-> {}]
Row == [status : Stamps, at : SUBSET Stamps]
Phases == {"unsent", "received", "processing", "errored", "answered", "failed", "rejected"}

Init ==
    /\ msg = [m \in Messages |-> NoRow]
    /\ inbound = [i \in InboundIds |-> {}]
    /\ event = [h \in Posts |-> "none"]
    /\ acked = {}
    /\ pc = [h \in Posts |-> "unsent"]
    /\ next = [h \in Posts |-> 1] /\ found = [h \in Posts |-> {}]
    /\ base = [h \in Posts |-> [m \in Messages |-> NoRow]]
    /\ cur = [h \in Posts |-> [m \in Messages |-> NoRow]]

-----------------------------------------------------------------------------
(* The environment *)

\* A send commits its row, which may be after Meta reported on the message.
SendCommits(m) ==
    /\ msg[m] = NoRow
    /\ msg' = [msg EXCEPT ![m] = [status |-> "sent", at |-> {"sent"}]]
    /\ UNCHANGED <<inbound, event, acked, pc, next, found, base, cur>>

\* Meta posts the payload, for the first time or because it has no 200 yet;
\* the endpoint checks the signature before anything else.
Receive(h) ==
    /\ pc[h] = "unsent" /\ h[1] \notin acked
    /\ h[2] > 1 => pc[<<h[1], h[2] - 1>>] # "unsent"
    /\ pc' = [pc EXCEPT ![h] = IF h[1] \in Authentic THEN "received" ELSE "rejected"]
    /\ UNCHANGED <<db, acked, next, found, base, cur>>

\* Meta gets the 200.
Ack(h) ==
    /\ pc[h] = "answered" /\ h[1] \notin acked
    /\ acked' = acked \cup {h[1]}
    /\ UNCHANGED <<db, pc, next, found, base, cur>>

-----------------------------------------------------------------------------
(* The handler *)

\* A look-up that gives n tenants.  A found tenant's messages are read with it,
\* but for those in K: another tenant's, or those the session still has.  It
\* has the ones it changed; the others may have been collected.
LookUp(h, n, K) ==
    /\ \A m \in Messages : cur[h][m] # base[h][m] => m \in K
    /\ LET read(m) == IF n = 1 THEN msg[m] ELSE NoRow IN
        /\ base' = [base EXCEPT ![h] = [m \in Messages |-> IF m \in K THEN @[m] ELSE read(m)]]
        /\ cur' = [cur EXCEPT ![h] = [m \in Messages |-> IF m \in K THEN @[m] ELSE read(m)]]

\* store_raw_event.
StoreEvent(h) ==
    /\ pc[h] = "received"
    /\ pc' = [pc EXCEPT ![h] = "processing"]
    /\ \E K \in SUBSET Messages : LookUp(h, IF h[1] \in Inferred THEN 1 ELSE 0, K)
    /\ UNCHANGED <<db, acked, next, found>>

Item(h) == Items[h[1]][next[h]]
AtItem(h, k) == pc[h] = "processing" /\ next[h] <= Len(Items[h[1]]) /\ Item(h).kind = k

\* _handle_messages: _tenant_for_value, which raises if there are two, and the
\* inbound messages, which are added to the session (see Saved).
HandleChange(h) ==
    /\ AtItem(h, "change")
    /\ IF Item(h).tenants > 1
       THEN /\ pc' = [pc EXCEPT ![h] = "errored"]
            /\ UNCHANGED <<next, base, cur>>
       ELSE /\ next' = [next EXCEPT ![h] = @ + 1]
            /\ \E K \in SUBSET Messages : LookUp(h, Item(h).tenants, K)
            /\ UNCHANGED pc
    /\ UNCHANGED <<db, acked, found>>

StatusMapUnmapped(raw) == IF raw = "warning" THEN "none" ELSE raw

\* _STATUS_MAP; "none" is what .get returns for a status it does not know.
StatusMap(raw) ==
    CASE raw \in Stamps -> raw
      [] raw = "deleted" -> "failed"
      [] OTHER -> "none"

ApplyStatusUnstamped(row, s) == [row EXCEPT !.status = s]

\* The status is overwritten; its time stamp is set unless it is there.
ApplyStatus(row, s) == [status |-> s, at |-> row.at \cup {s}]

\* The session's object for message m: loaded before, or read now.
Loaded(h, m) == IF base[h][m] # NoRow THEN cur[h][m] ELSE msg[m]

\* _apply_status_update of the next item.  An unknown status or message is
\* skipped; a time stamp that is no number raises.
ApplyItem(h) ==
    /\ AtItem(h, "status")
    /\ LET it == Item(h)
           s == StatusMap(it.raw)
           row == Loaded(h, it.msg)
       IN IF s = "none" \/ row = NoRow
          THEN /\ next' = [next EXCEPT ![h] = @ + 1]
               /\ UNCHANGED <<pc, found, base, cur>>
          ELSE /\ found' = [found EXCEPT ![h] = @ \cup {next[h]}]
               /\ IF ~it.parses
                  THEN /\ pc' = [pc EXCEPT ![h] = "errored"]
                       /\ UNCHANGED <<next, base, cur>>
                  ELSE /\ next' = [next EXCEPT ![h] = @ + 1]
                       /\ base' = [base EXCEPT ![h][it.msg] = IF @ = NoRow THEN msg[it.msg] ELSE @]
                       /\ cur' = [cur EXCEPT ![h][it.msg] = ApplyStatus(row, s)]
                       /\ UNCHANGED pc
    /\ UNCHANGED <<db, acked>>

FlushAllColumns(row, old, new) == IF new = old THEN row ELSE new

\* The UPDATE of a row the session loaded as old and left as new, on the row
\* as it is now: only the columns that differ are written.
Flush(row, old, new) ==
    [status |-> IF new.status # old.status THEN new.status ELSE row.status,
     at |-> row.at \cup (new.at \ old.at)]

Finished(h) ==
    \/ pc[h] = "errored"
    \/ pc[h] = "processing" /\ next[h] > Len(Items[h[1]])

\* The changes of a tenant of ours.
Ours(p) == {n \in 1 .. Len(Items[p]) : Items[p][n].kind = "change" /\ Items[p][n].tenants = 1}

SavedUnlessErrored(h) ==
    UNION {Items[h[1]][n].inbounds : n \in {k \in Ours(h[1]) : k < next[h] /\ pc[h] # "errored"}}

\* The inbound rows the session holds: those of the changes it has got to and
\* found a tenant for.
Saved(h) == UNION {Items[h[1]][n].inbounds : n \in {k \in Ours(h[1]) : k < next[h]}}

\* One of them has a value that does not fit its column (a phone number or a
\* message id that is too long).
Unfit(h) == \E n \in Ours(h[1]) : n < next[h] /\ Items[h[1]][n].inbounds # {} /\ ~Items[h[1]][n].fits

CommitAlwaysProcessed(h) ==
    /\ Finished(h) /\ ~Unfit(h)
    /\ msg' = [m \in Messages |->
                IF base[h][m] = NoRow THEN msg[m]
                ELSE Flush(msg[m], base[h][m], cur[h][m])]
    /\ inbound' = [i \in InboundIds |->
                    IF i \in Saved(h) THEN inbound[i] \cup {h} ELSE inbound[i]]
    /\ event' = [event EXCEPT ![h] = "processed"]
    /\ pc' = [pc EXCEPT ![h] = "answered"]
    /\ UNCHANGED <<acked, next, found, base, cur>>

\* The final flush of process_event, the commit and the 200.  An error in
\* process_event is recorded, and what it had done before is kept.
Commit(h) ==
    /\ Finished(h) /\ ~Unfit(h)
    /\ msg' = [m \in Messages |->
                IF base[h][m] = NoRow THEN msg[m]
                ELSE Flush(msg[m], base[h][m], cur[h][m])]
    /\ inbound' = [i \in InboundIds |->
                    IF i \in Saved(h) THEN inbound[i] \cup {h} ELSE inbound[i]]
    /\ event' = [event EXCEPT ![h] = IF pc[h] = "errored" THEN "unprocessed" ELSE "processed"]
    /\ pc' = [pc EXCEPT ![h] = "answered"]
    /\ UNCHANGED <<acked, next, found, base, cur>>

DbFailureNotRepeated(h) ==
    /\ Finished(h) /\ (Unfit(h) \/ h[2] < MaxPosts)
    /\ pc' = [pc EXCEPT ![h] = "rejected"]
    /\ UNCHANGED <<db, acked, next, found, base, cur>>

\* The flush fails: for a lost connection or the like, which does not meet every
\* post, or because a value does not fit, which meets every post of the payload.
\* The session must be rolled back, so the commit raises as well: 500, and
\* the event row is gone.
DbFailure(h) ==
    /\ Finished(h) /\ (Unfit(h) \/ h[2] < MaxPosts)
    /\ pc' = [pc EXCEPT ![h] = "failed"]
    /\ next' = [next EXCEPT ![h] = 1] /\ found' = [found EXCEPT ![h] = {}]
    /\ base' = [base EXCEPT ![h] = [m \in Messages |-> NoRow]]
    /\ cur' = [cur EXCEPT ![h] = [m \in Messages |-> NoRow]]
    /\ UNCHANGED <<db, acked>>

Handle(h) == StoreEvent(h) \/ HandleChange(h) \/ ApplyItem(h) \/ Commit(h) \/ DbFailure(h)

Next ==
    \/ \E m \in Messages : SendCommits(m)
    \/ \E h \in Posts : Receive(h) \/ Handle(h) \/ Ack(h)

Spec == Init /\ [][Next]_vars

\* A request in the server is served to its end, its answer reaches Meta, and
\* Meta posts again what was answered with 500.
Fairness ==
    \A h \in Posts :
        /\ WF_vars(Handle(h)) /\ WF_vars(Ack(h))
        /\ WF_vars(h[2] > 1 /\ pc[<<h[1], h[2] - 1>>] = "failed" /\ Receive(h))
FairSpec == Spec /\ Fairness

-----------------------------------------------------------------------------
(* Properties *)

\* Every variable stays in the set it is declared for.
TypeOK ==
    /\ msg \in [Messages -> Row \cup {NoRow}]
    /\ inbound \in [InboundIds -> SUBSET Posts]
    /\ event \in [Posts -> {"none", "processed", "unprocessed"}]
    /\ acked \subseteq Payloads
    /\ pc \in [Posts -> Phases]
    /\ next \in [Posts -> Nat \ {0}] /\ found \in [Posts -> SUBSET Nat]
    /\ base \in [Posts -> [Messages -> Row \cup {NoRow}]]
    /\ cur \in [Posts -> [Messages -> Row \cup {NoRow}]]

\* The status column and the time stamp columns are written separately and
\* from stale objects, yet a row never shows a status it has no stamp for.
StampedStatus == \A m \in Messages : msg[m] # NoRow => msg[m].status \in msg[m].at

\* What a handler that answered 200 has stamped stays stamped, whatever the
\* handlers that had loaded the row before that write afterwards.
EffectsKept ==
    \A h \in Posts, m \in Messages :
        pc[h] = "answered" /\ base[h][m] # NoRow => cur[h][m].at \subseteq msg[m].at

\* When Meta has been told that a payload arrived, an event row is there and with
\* it the inbound messages of every change for a tenant of ours.  Only those of
\* changes after the item that raised are missing, and then the event says so.
InboundKept ==
    \A p \in acked : \E h \in Posts :
        /\ h[1] = p /\ event[h] # "none"
        /\ \A n \in Ours(p) :
            \/ \A i \in Items[p][n].inbounds : h \in inbound[i]
            \/ event[h] = "unprocessed" /\ next[h] < n

\* An event that is recorded as processed is not looked at again, so nothing of
\* it may be missing: the handler has been through all items, and every status
\* whose message it found could be read and is stamped, whatever other handlers
\* have flushed since.
ProcessedMeansApplied ==
    \A h \in Posts : event[h] = "processed" =>
        /\ next[h] > Len(Items[h[1]])
        /\ \A n \in found[h] :
            LET it == Items[h[1]][n] IN it.parses /\ StatusMap(it.raw) \in msg[it.msg].at

\* An authentic payload whose values fit their columns is stored in the end, once
\* Meta has begun to post it, in spite of failed commits: by the handler or by
\* one that repeats it.
EventuallyStored ==
    \A p \in Authentic : (\A n \in Ours(p) : Items[p][n].fits) =>
        (pc[<<p, 1>>] # "unsent" ~> \E n \in 1 .. MaxPosts : event[<<p, n>>] # "none")

\* No post is in progress and Meta has been told that all have arrived.
Quiet == acked = Authentic /\ \A h \in Posts : pc[h] \in {"unsent", "answered", "failed", "rejected"}

Rank(s) == CASE s = "sent" -> 1 [] s = "delivered" -> 2 [] s = "read" -> 3 [] OTHER -> 4

\* What GET /{wa_message_id}/status promises ("Latest status by Meta wamid"):
\* when all has been reported, no report is ahead of the status of the row.
LatestStatus ==
    Quiet => \A p \in Authentic : \A n \in 1 .. Len(Items[p]) :
        LET it == Items[p][n] IN
        it.kind = "status" /\ msg[it.msg] # NoRow =>
            Rank(StatusMap(it.raw)) <= Rank(msg[it.msg].status)
=============================================================================
