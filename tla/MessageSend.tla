---------------------------- MODULE MessageSend -----------------------------
(***************************************************************************)
(* POST /send/text and /send/template: concurrent API requests of one      *)
(* tenant, from authenticate to the response of the endpoint.              *)
(*                                                                         *)
(*   Authenticate, LockKey    src/auth.py                                  *)
(*   Forbid, Commit, Respond  src/api/v1/whatsapp.py                       *)
(*   Resolve ...              src/services/message_service.py and          *)
(*                            src/services/tenant_service.py               *)
(*   Answer, Unanswered       src/services/whatsapp_client.py with the     *)
(*                            retries of src/utils/retry.py                *)
(*                                                                         *)
(* Each request has one database session (READ COMMITTED).  What it        *)
(* flushes is invisible until the endpoint commits, and get_session rolls  *)
(* it back when the endpoint raises; so the queued row, and the row marked *)
(* failed, never appear in rows.  An object the session has loaded is not  *)
(* read again: snap[r] is the usage counter as resolve() read it.          *)
(*                                                                         *)
(* Abstracted: the message body, the template components, phone numbers    *)
(* and log lines.  The rate limiter answers either way (module RateLimiter *)
(* says when).                                                             *)
(***************************************************************************)
EXTENDS Integers, FiniteSets

CONSTANTS
    Requests,     \* send requests
    Keys,         \* client API keys (rows of api_keys)
    KeyOf,        \* the key a request presents, or Admin
    Admin,        \* the settings.API_KEY caller, which has no row
    Limit,        \* tenants.monthly_message_limit
    Attempts,     \* attempts of with_retry
    HttpErrors,   \* error statuses Meta answers with
    ErrorCodes    \* error codes in the body of such an answer (0: none)

ASSUME KeyAssumption == Admin \notin Keys /\ KeyOf \in [Requests -> Keys \cup {Admin}]
ASSUME LimitAssumption == Limit \in Nat
ASSUME AttemptsAssumption == Attempts \in Nat \ {0}
ASSUME AnswerAssumption == HttpErrors \subseteq 400 .. 599 /\ ErrorCodes \subseteq Nat

VARIABLES
    usage,      \* tenants.messages_sent_this_month, committed
    deleted,    \* tenants.deleted_at is set
    revoked,    \* keys whose row has revoked_at set
    rows,       \* committed outbound rows of messages, by wa_message_id
    wire,       \* POSTs that left the client and that Meta may still accept
    accepted,   \* messages Meta accepted
    pc,         \* how far each request is
    snap,       \* usage counter of the Tenant object of the request's session
    attempt     \* number of the POST the request is waiting for

vars == <<usage, deleted, revoked, rows, wire, accepted, pc, snap, attempt>>

WamIds == Requests \X (1 .. Attempts)

\* The session holds the row lock of the API key from the flush of
\* last_used_at to its commit or rollback.
Locked == {"authenticated", "resolved", "posting", "answered"}
Active == {"checked", "committed"} \cup Locked
\* "refused" is an error the service raises before it posts (401, 403, 404, 422,
\* 429), "failed" one that follows the POST.
Final == {"refused", "sent", "failed", "aborted"}
Phases == {"idle"} \cup Active \cup Final

HoldsAfterTheEnd(r, k) == KeyOf[r] = k /\ pc[r] \in Locked \cup {"failed", "aborted"}

\* Request r has the row of key k locked.
Holds(r, k) == KeyOf[r] = k /\ pc[r] \in Locked

Init ==
    /\ usage = 0 /\ deleted = FALSE /\ revoked = {}
    /\ rows = {} /\ wire = {} /\ accepted = {}
    /\ pc = [r \in Requests |-> "idle"]
    /\ snap = [r \in Requests |-> 0]
    /\ attempt = [r \in Requests |-> 0]

\* Request r goes on to phase p.
Goto(r, p) == pc' = [pc EXCEPT ![r] = p]

tenantVars == <<usage, deleted>>
metaVars == <<wire, accepted>>
sessionVars == <<snap, attempt>>

-----------------------------------------------------------------------------
(* Authentication *)

AuthenticateIgnoringRevocation(r) ==
    /\ pc[r] = "idle"
    /\ Goto(r, IF KeyOf[r] = Admin THEN "authenticated" ELSE "checked")
    /\ UNCHANGED <<tenantVars, revoked, rows, metaVars, sessionVars>>

\* The key is looked up and its is_active/revoked_at columns are checked; a
\* caller with the admin key has no row and goes straight on.
Authenticate(r) ==
    /\ pc[r] = "idle"
    /\ Goto(r, IF KeyOf[r] = Admin THEN "authenticated"
               ELSE IF KeyOf[r] \in revoked THEN "refused" ELSE "checked")
    /\ UNCHANGED <<tenantVars, revoked, rows, metaVars, sessionVars>>

\* No key, an unknown key or an expired one: 401.
Reject(r) ==
    /\ pc[r] = "idle"
    /\ Goto(r, "refused")
    /\ UNCHANGED <<tenantVars, revoked, rows, metaVars, sessionVars>>

LockKeyWithoutWaiting(r) ==
    /\ pc[r] = "checked"
    /\ Goto(r, "authenticated")
    /\ UNCHANGED <<tenantVars, revoked, rows, metaVars, sessionVars>>

\* The flush of last_used_at updates the key's row, so it waits for the other
\* request that has updated it and not yet ended.
LockKey(r) ==
    /\ pc[r] = "checked"
    /\ \A q \in Requests : ~Holds(q, KeyOf[r])
    /\ Goto(r, "authenticated")
    /\ UNCHANGED <<tenantVars, revoked, rows, metaVars, sessionVars>>

\* has_scope or template_allowed says no: 403.
Forbid(r) ==
    /\ pc[r] = "authenticated" /\ KeyOf[r] # Admin
    /\ Goto(r, "refused")
    /\ UNCHANGED <<tenantVars, revoked, rows, metaVars, sessionVars>>

\* POST /admin/api-keys/{id}/revoke.  Its UPDATE waits for the row lock too.
Revoke(k) ==
    /\ k \notin revoked
    /\ \A r \in Requests : ~Holds(r, k)
    /\ revoked' = revoked \cup {k}
    /\ UNCHANGED <<tenantVars, rows, metaVars, pc, sessionVars>>

-----------------------------------------------------------------------------
(* MessageService.send_text, send_template *)

ResolveOffByOne(r) ==
    /\ pc[r] = "authenticated"
    /\ snap' = [snap EXCEPT ![r] = usage]
    /\ Goto(r, IF deleted \/ usage > Limit THEN "refused" ELSE "resolved")
    /\ UNCHANGED <<tenantVars, revoked, rows, metaVars, attempt>>

\* tenants.resolve reads the tenant, assert_quota compares its counter.
Resolve(r) ==
    /\ pc[r] = "authenticated"
    /\ snap' = [snap EXCEPT ![r] = usage]
    /\ Goto(r, IF deleted \/ usage >= Limit THEN "refused" ELSE "resolved")
    /\ UNCHANGED <<tenantVars, revoked, rows, metaVars, attempt>>

\* rate_limiter.acquire says no (429), or a header URL is not https (422).
Decline(r) ==
    /\ pc[r] = "resolved"
    /\ Goto(r, "refused")
    /\ UNCHANGED <<tenantVars, revoked, rows, metaVars, sessionVars>>

\* POST number n of request r leaves the client.
PostAttempt(r, n) ==
    /\ attempt' = [attempt EXCEPT ![r] = n]
    /\ wire' = wire \cup {<<r, n>>}

\* The queued row is flushed and the first POST is issued.
Post(r) ==
    /\ pc[r] = "resolved"
    /\ PostAttempt(r, 1)
    /\ Goto(r, "posting")
    /\ UNCHANGED <<tenantVars, revoked, rows, accepted, snap>>

\* Meta takes a message, maybe long after the client gave up waiting.
MetaAccepts(w) ==
    /\ w \in wire
    /\ wire' = wire \ {w}
    /\ accepted' = accepted \cup {w}
    /\ UNCHANGED <<tenantVars, revoked, rows, pc, sessionVars>>

RateLimitCodes == {4, 80007, 130429, 131048, 131056}

\* The exception _raise_for_status raises, the checks in the code's order.
RaiseForStatus(status, code) ==
    IF status = 401 \/ code = 190 THEN "MetaAuthError"
    ELSE IF status = 429 \/ code \in RateLimitCodes THEN "MetaRateLimitError"
    ELSE IF status < 500 THEN "MetaInvalidRequestError"
    ELSE "MetaServerError"

\* The exceptions _request retries (TimeoutException is a TransportError).
RetryOn == {"MetaServerError", "TransportError"}

AfterExceptionOffByOne(r, exc) ==
    IF exc \in RetryOn /\ attempt[r] <= Attempts
    THEN /\ attempt' = [attempt EXCEPT ![r] = attempt[r] + 1]
         /\ UNCHANGED pc
    ELSE /\ Goto(r, "failed")
         /\ UNCHANGED attempt

AfterExceptionReadsOldAnswer(r, exc) ==
    IF exc \in RetryOn /\ attempt[r] < Attempts
    THEN UNCHANGED <<attempt, pc>>
    ELSE /\ Goto(r, "failed")
         /\ UNCHANGED attempt

\* with_retry after exception exc: the next POST, or the exception reaches
\* the caller, which marks the row failed and raises; the row is rolled back.
AfterException(r, exc) ==
    IF exc \in RetryOn /\ attempt[r] < Attempts
    THEN /\ attempt' = [attempt EXCEPT ![r] = attempt[r] + 1]
         /\ UNCHANGED pc
    ELSE /\ Goto(r, "failed")
         /\ UNCHANGED attempt

\* What the exception leaves on the wire: a retry adds the next POST.
RetryPost(r, exc) ==
    IF exc \in RetryOn /\ attempt[r] < Attempts
    THEN {<<r, attempt[r] + 1>>} ELSE {}

\* A 2xx answer that names the message.
Answer(r) ==
    /\ pc[r] = "posting" /\ <<r, attempt[r]>> \in accepted
    /\ Goto(r, "answered")
    /\ UNCHANGED <<tenantVars, revoked, rows, metaVars, sessionVars>>

\* A 2xx answer without a message id or that is not JSON: response["messages"]
\* raises outside the try, or resp.json() inside it; the session rolls back.
Garbled(r) ==
    /\ pc[r] = "posting" /\ <<r, attempt[r]>> \in accepted
    /\ Goto(r, "failed")
    /\ UNCHANGED <<tenantVars, revoked, rows, metaVars, sessionVars>>

\* A 4xx answer: Meta did not take the message.
Refused(r, status, code) ==
    /\ pc[r] = "posting" /\ <<r, attempt[r]>> \in wire
    /\ status < 500
    /\ LET exc == RaiseForStatus(status, code) IN
        /\ AfterException(r, exc)
        /\ wire' = (wire \ {<<r, attempt[r]>>}) \cup RetryPost(r, exc)
    /\ UNCHANGED <<tenantVars, revoked, rows, accepted, snap>>

\* A 5xx answer, which does not tell whether Meta took the message.
ServerError(r, status, code) ==
    /\ pc[r] = "posting" /\ status >= 500
    /\ LET exc == RaiseForStatus(status, code) IN
        /\ AfterException(r, exc)
        /\ wire' = wire \cup RetryPost(r, exc)
    /\ UNCHANGED <<tenantVars, revoked, rows, accepted, snap>>

UnansweredTakenForSent(r) ==
    /\ pc[r] = "posting"
    /\ Goto(r, "answered")
    /\ UNCHANGED <<tenantVars, revoked, rows, metaVars, sessionVars>>

\* A timeout or a broken connection, which does not tell either.
Unanswered(r) ==
    /\ pc[r] = "posting"
    /\ AfterException(r, "TransportError")
    /\ wire' = wire \cup RetryPost(r, "TransportError")
    /\ UNCHANGED <<tenantVars, revoked, rows, accepted, snap>>

\* The row gets its wamid and the status sent, increment_usage adds one to the
\* counter the session loaded, and the endpoint commits both.
Commit(r) ==
    /\ pc[r] = "answered"
    /\ usage' = snap[r] + 1
    /\ rows' = rows \cup {<<r, attempt[r]>>}
    /\ Goto(r, "committed")
    /\ UNCHANGED <<deleted, revoked, metaVars, sessionVars>>

RespondEarly(r) ==
    /\ pc[r] \in {"answered", "committed"}
    /\ Goto(r, "sent")
    /\ UNCHANGED <<tenantVars, revoked, rows, metaVars, sessionVars>>

\* The endpoint returns: 201.
Respond(r) ==
    /\ pc[r] = "committed"
    /\ Goto(r, "sent")
    /\ UNCHANGED <<tenantVars, revoked, rows, metaVars, sessionVars>>

\* The worker dies, the client disconnects or the database fails: what is not
\* committed is rolled back.  A commit whose acknowledgement is lost is a
\* Commit followed by this.
Abort(r) ==
    /\ pc[r] \in Active
    /\ Goto(r, "aborted")
    /\ UNCHANGED <<tenantVars, revoked, rows, metaVars, sessionVars>>

-----------------------------------------------------------------------------
(* The tenant *)

\* DELETE /tenants/{id}
SoftDelete ==
    /\ ~deleted
    /\ deleted' = TRUE
    /\ UNCHANGED <<usage, revoked, rows, metaVars, pc, sessionVars>>

-----------------------------------------------------------------------------
HttpAnswer(r) ==
    \/ Answer(r) \/ Garbled(r) \/ Unanswered(r)
    \/ \E status \in HttpErrors, code \in ErrorCodes :
        Refused(r, status, code) \/ ServerError(r, status, code)

\* The steps of the coroutine that serves r.
Serve(r) ==
    \/ LockKey(r) \/ Forbid(r) \/ Resolve(r) \/ Decline(r) \/ Post(r)
    \/ HttpAnswer(r) \/ Commit(r) \/ Respond(r)

Next ==
    \/ \E r \in Requests : Authenticate(r) \/ Reject(r) \/ Serve(r) \/ Abort(r)
    \/ \E w \in WamIds : MetaAccepts(w)
    \/ \E k \in Keys : Revoke(k)
    \/ SoftDelete

Spec == Init /\ [][Next]_vars

\* A request that has been accepted by the server is served: the event loop
\* runs its coroutine, every POST has a timeout and Postgres hands a free row
\* lock to a waiter.
Fairness == \A r \in Requests : WF_vars(Serve(r))
FairSpec == Spec /\ Fairness

-----------------------------------------------------------------------------
(* Properties *)

\* Every variable stays in the set it is declared for.
TypeOK ==
    /\ usage \in Nat /\ deleted \in BOOLEAN /\ revoked \subseteq Keys
    /\ rows \subseteq WamIds /\ wire \subseteq WamIds /\ accepted \subseteq WamIds
    /\ pc \in [Requests -> Phases]
    /\ snap \in [Requests -> Nat]
    /\ attempt \in [Requests -> 0 .. Attempts]

\* increment_usage writes a counter that concurrent requests also read before
\* they send: updates get lost, yet the counter never exceeds the number of
\* rows committed nor the limit assert_quota compared it with.
UsageSound ==
    /\ usage <= Cardinality(rows)
    /\ usage <= Limit

\* The requests of one client key run one after the other, the calls to Meta
\* included, because each holds the key's row lock from authenticate to its
\* commit.  So while all rows are of one client key no increment of the stale
\* counter is lost: it is the number of rows, and the quota is kept.
SoleKeyExact ==
    \A k \in Keys :
        (\A w \in rows : KeyOf[w[1]] = k)
            => usage = Cardinality(rows) /\ Cardinality(rows) <= Limit

\* An answer tells the client what became of its message: after a 201 the row
\* of the attempt that was answered is there, and after any error the service
\* raised, at whatever step, there is none.  Only a request that broke off
\* (worker, connection or database lost) leaves it open.
AnswerTellsRow ==
    \A r \in Requests :
        LET mine == {w \in rows : w[1] = r} IN
        /\ pc[r] = "sent" => mine = {<<r, attempt[r]>>}
        /\ pc[r] \in {"refused", "failed"} => mine = {}

\* The retries of a request whose answers got lost make Meta take several
\* messages; all but the last POST of the request are older than the row's.
NoLaterAttempt ==
    \A w \in rows : \A x \in accepted \cup wire : x[1] = w[1] => x[2] <= w[2]

\* A request that arrives after its key was revoked never makes Meta take a
\* message, whatever other requests of that key were still waiting for.
RevokedNeverSends ==
    \A r \in {q \in Requests : KeyOf[q] \in Keys} :
        [](pc[r] = "idle" /\ KeyOf[r] \in revoked
            => [](\A w \in accepted : w[1] # r))

\* A request that has been let in ends with a response or is aborted: neither
\* the key's row lock nor the retries keep it forever.
EveryRequestEnds ==
    \A r \in Requests : pc[r] \in Active ~> pc[r] \in Final

\* The send path implements the ledger.
Ledger == INSTANCE OutboundLedger WITH taken <- accepted, recorded <- rows
RefinesLedger == Ledger!LedgerSpec
=============================================================================
