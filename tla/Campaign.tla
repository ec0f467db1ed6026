------------------------------ MODULE Campaign ------------------------------
(***************************************************************************)
(* One bulk campaign: its uploads, its life cycle, the Celery tasks that   *)
(* send to its recipients and the webhook reports that are rolled up into  *)
(* its counters.                                                           *)
(*                                                                         *)
(*   Create ... Cancel          src/services/campaign_service.py           *)
(*   DispatchRead, Enqueue      src/tasks/send_campaign_task.py            *)
(*   Load ... Ack, Crash        src/tasks/send_message_task.py             *)
(*   ReportLoad ... Aborted     _propagate_campaign_status of              *)
(*                              src/services/webhook_service.py            *)
(*                                                                         *)
(* Every actor works in a session of its own: it reads the campaign once,  *)
(* adds to the counters it has read and writes only the columns it has     *)
(* changed.  A task's first flush updates its recipient's row and so locks *)
(* it until the task ends; its last one updates the campaign's row.  A     *)
(* webhook handler's flush updates the campaign's row and then the         *)
(* recipient's.  The two can wait for each other, and Postgres then aborts *)
(* one.                                                                    *)
(*                                                                         *)
(* CampaignService.start always answers 409 in this build ("run the worker *)
(* stack"); WorkerStackStart stands for the worker stack that starts a     *)
(* campaign under the conditions start() checks.                           *)
(*                                                                         *)
(* Abstracted: phone numbers, CSV text, template variables.  The POSTs one *)
(* execution issues are told apart in MessageSend, as is the tenant's usage*)
(* counter; RetryPost stands for all of them but the last.                 *)
(***************************************************************************)
EXTENDS Integers, FiniteSets

CONSTANTS
    Recipients,      \* rows of campaign_recipients
    Uploads,         \* CSV uploads
    Batch,           \* upload -> the recipients it inserts
    Reports,         \* statuses Meta reports for a recipient's message
    LifecycleOps,    \* operations on the running campaign: pause, cancel
    MaxDispatches,   \* bound: deliveries of the process_campaign message
    MaxRetries,      \* max_retries of send_recipient
    MaxCrashes       \* bound: how often a worker is lost

ASSUME BatchAssumption ==
    /\ Batch \in [Uploads -> SUBSET Recipients]
    /\ \A u, v \in Uploads : u # v => Batch[u] \cap Batch[v] = {}
    /\ \A u \in Uploads : IsFiniteSet(Batch[u])
ASSUME OpsAssumption ==
    Reports \subseteq {"sent", "delivered", "read", "failed"} /\ LifecycleOps \subseteq {"pause", "cancel"}
ASSUME BoundAssumption == MaxDispatches \in Nat /\ MaxRetries \in Nat /\ MaxCrashes \in Nat

Tasks == Recipients \X (1 .. MaxDispatches)        \* messages of send_recipient
Execs == Tasks \X (1 .. MaxRetries + MaxCrashes + 1)   \* their executions
Hooks == Recipients \X Reports                     \* webhook handlers

VARIABLES
    camp,       \* committed row of campaigns
    rec,        \* recipient -> committed status, "absent" before its upload
    sentRows,   \* executions that committed a message with a wamid
    accepted,   \* executions for which Meta took a message
    doubtful,   \* those for which a POST was taken whose answer did not say so
    launches,   \* deliveries of process_campaign so far
    wants,      \* dispatch -> recipients it has read and not yet enqueued
    phase,      \* how far each task is
    exec,       \* number of the task's current execution
    retries,    \* retries of the task so far
    crashes,    \* workers lost so far
    tsnap,      \* the campaign as the task's session loaded it
    hook, hsnap,    \* webhook handlers and what their sessions loaded
    op,             \* life cycle operations: the status they loaded
    up, usnap       \* uploads and the total they loaded

tables == <<camp, rec, sentRows>>
dispatch == <<launches, wants>>
tasks == <<phase, exec, retries, crashes, tsnap, doubtful>>
hooks == <<hook, hsnap>>
ups == <<up, usnap>>
vars == <<tables, accepted, dispatch, tasks, hooks, op, ups>>

CampaignStatus == {"none", "draft", "scheduled", "running", "paused", "completed", "cancelled"}
Campaigns == [status : CampaignStatus, total : Nat, sent : Nat, delivered : Nat,
              read : Nat, failed : Nat]
\* The statuses that are committed: sending is only flushed inside a task's
\* transaction (phases Locking), and skipped is written nowhere.
RecipientStatus == {"absent", "queued", "sent", "delivered", "read", "failed"}
NoCampaign == [status |-> "none", total |-> 0, sent |-> 0, delivered |-> 0,
               read |-> 0, failed |-> 0]
NothingLoaded == [camp |-> NoCampaign, rec |-> "absent"]

\* The phases in which a task's transaction has the recipient's row locked.
Locking == {"locked", "posting", "answered", "refused"}
Running == {"loaded"} \cup Locking
\* The task's function has returned or raised, the message is not acknowledged.
Over == {"returned", "raised"}
Ended == {"done", "dead"}

RowLocked(r) == \E d \in 1 .. MaxDispatches : phase[<<r, d>>] \in Locking

\* A handler that has updated the campaign's row and not yet committed has it
\* locked; the other transactions update it in the step that commits.
CampLocked == \E h \in Hooks : hook[h] = "flushing"

Init ==
    /\ camp = NoCampaign
    /\ rec = [r \in Recipients |-> "absent"]
    /\ sentRows = {} /\ accepted = {}
    /\ launches = 0 /\ wants = [d \in 1 .. MaxDispatches |-> {}]
    /\ phase = [t \in Tasks |-> "none"]
    /\ exec = [t \in Tasks |-> 0] /\ retries = [t \in Tasks |-> 0] /\ crashes = 0
    /\ tsnap = [t \in Tasks |-> NoCampaign] /\ doubtful = {}
    /\ hook = [h \in Hooks |-> "idle"]
    /\ hsnap = [h \in Hooks |-> NothingLoaded]
    /\ op = [o \in LifecycleOps |-> "idle"]
    /\ up = [u \in Uploads |-> "idle"] /\ usnap = [u \in Uploads |-> 0]

-----------------------------------------------------------------------------
(* CampaignService *)

\* A campaign with an approved template, with or without a schedule.
Create ==
    /\ camp.status = "none"
    /\ \E st \in {"draft", "scheduled"} : camp' = [camp EXCEPT !.status = st]
    /\ UNCHANGED <<rec, sentRows, accepted, dispatch, tasks, hooks, op, ups>>

\* upload_recipients reads the campaign and checks its status ...
UploadLoad(u) ==
    /\ up[u] = "idle" /\ camp.status \in {"draft", "scheduled"}
    /\ up' = [up EXCEPT ![u] = "loaded"]
    /\ usnap' = [usnap EXCEPT ![u] = camp.total]
    /\ UNCHANGED <<tables, accepted, dispatch, tasks, hooks, op>>

UploadCommitCountsSkipped(u) ==
    /\ up[u] = "loaded"
    /\ Batch[u] # {} => ~CampLocked
    /\ rec' = [r \in Recipients |-> IF r \in Batch[u] THEN "queued" ELSE rec[r]]
    /\ camp' = [camp EXCEPT !.total = usnap[u] + Cardinality(Batch[u]) + 1]
    /\ up' = [up EXCEPT ![u] = "done"]
    /\ UNCHANGED <<sentRows, accepted, dispatch, tasks, hooks, op, usnap>>

\* ... and, when the file is parsed, inserts the rows and writes the total.  A
\* file without a usable row changes no column.
UploadCommit(u) ==
    /\ up[u] = "loaded"
    /\ Batch[u] # {} => ~CampLocked
    /\ rec' = [r \in Recipients |-> IF r \in Batch[u] THEN "queued" ELSE rec[r]]
    /\ camp' = IF Batch[u] = {} THEN camp
               ELSE [camp EXCEPT !.total = usnap[u] + Cardinality(Batch[u])]
    /\ up' = [up EXCEPT ![u] = "done"]
    /\ UNCHANGED <<sentRows, accepted, dispatch, tasks, hooks, op, usnap>>

\* What start() checks before it refuses.
CanStart == camp.status \in {"draft", "scheduled", "paused"} /\ camp.total # 0

\* The worker stack starts (or resumes) the campaign.
WorkerStackStart ==
    /\ CanStart /\ ~CampLocked
    /\ camp' = [camp EXCEPT !.status = "running"]
    /\ UNCHANGED <<rec, sentRows, accepted, dispatch, tasks, hooks, op, ups>>

OpLoadUnchecked(o) ==
    /\ op[o] = "idle" /\ camp.status # "none"
    /\ op' = [op EXCEPT ![o] = camp.status]
    /\ UNCHANGED <<tables, accepted, dispatch, tasks, hooks, ups>>

\* pause() and cancel() read the status ...
OpLoad(o) ==
    /\ op[o] = "idle"
    /\ IF o = "pause" THEN camp.status = "running"
       ELSE camp.status \notin {"none", "completed", "cancelled"}
    /\ op' = [op EXCEPT ![o] = camp.status]
    /\ UNCHANGED <<tables, accepted, dispatch, tasks, hooks, ups>>

\* ... and write the new one over whatever is there by then.
OpCommit(o) ==
    /\ op[o] \notin {"idle", "done"} /\ ~CampLocked
    /\ camp' = [camp EXCEPT !.status = IF o = "pause" THEN "paused" ELSE "cancelled"]
    /\ op' = [op EXCEPT ![o] = "done"]
    /\ UNCHANGED <<rec, sentRows, accepted, dispatch, tasks, hooks, ups>>

-----------------------------------------------------------------------------
(* process_campaign *)

\* A delivery of process_campaign reads the queued recipients.  The message is
\* delivered again when the worker is lost before it has enqueued them all.
DispatchRead ==
    /\ launches < MaxDispatches /\ camp.status # "none"
    /\ launches' = launches + 1
    /\ wants' = [wants EXCEPT ![launches + 1] =
                    IF camp.status = "running" THEN {r \in Recipients : rec[r] = "queued"} ELSE {}]
    /\ UNCHANGED <<tables, accepted, tasks, hooks, op, ups>>

\* send_recipient.apply_async for one of them.
Enqueue(r, d) ==
    /\ r \in wants[d]
    /\ wants' = [wants EXCEPT ![d] = @ \ {r}]
    /\ phase' = [phase EXCEPT ![<<r, d>>] = "queued"]
    /\ UNCHANGED <<tables, accepted, launches, exec, retries, crashes, tsnap,
                   doubtful, hooks, op, ups>>

-----------------------------------------------------------------------------
(* send_recipient *)

\* The transaction of task t is over.
Finish(t, p) ==
    /\ phase' = [phase EXCEPT ![t] = p]
    /\ tsnap' = [tsnap EXCEPT ![t] = NoCampaign]

LoadUnchecked(t) ==
    /\ phase[t] = "queued"
    /\ exec' = [exec EXCEPT ![t] = @ + 1]
    /\ phase' = [phase EXCEPT ![t] = "loaded"]
    /\ tsnap' = [tsnap EXCEPT ![t] = camp]
    /\ UNCHANGED <<tables, accepted, dispatch, retries, crashes, doubtful, hooks, op, ups>>

LoadForUpdate(t) ==
    /\ phase[t] = "queued" /\ ~RowLocked(t[1])
    /\ exec' = [exec EXCEPT ![t] = @ + 1]
    /\ phase' = [phase EXCEPT ![t] = "locked"]
    /\ tsnap' = [tsnap EXCEPT ![t] = camp]
    /\ UNCHANGED <<tables, accepted, dispatch, retries, crashes, doubtful, hooks, op, ups>>

\* A worker takes the task and reads the recipient and the campaign.  A
\* recipient that is neither queued nor sending is skipped.
Load(t) ==
    /\ phase[t] = "queued"
    /\ exec' = [exec EXCEPT ![t] = @ + 1]
    /\ IF rec[t[1]] \in {"queued", "sending"}
       THEN /\ phase' = [phase EXCEPT ![t] = "loaded"]
            /\ tsnap' = [tsnap EXCEPT ![t] = camp]
       ELSE Finish(t, "returned")
    /\ UNCHANGED <<tables, accepted, dispatch, retries, crashes, doubtful, hooks, op, ups>>

\* The flush of status "sending" waits for the row lock.  What the check of
\* the status saw is not looked at again.
LockRecipient(t) ==
    /\ phase[t] = "loaded" /\ ~RowLocked(t[1])
    /\ phase' = [phase EXCEPT ![t] = "locked"]
    /\ UNCHANGED <<tables, accepted, dispatch, exec, retries, crashes, tsnap,
                   doubtful, hooks, op, ups>>

\* The rate limiter lets the message through and the POST is issued.
Post(t) ==
    /\ phase[t] = "locked"
    /\ phase' = [phase EXCEPT ![t] = "posting"]
    /\ UNCHANGED <<tables, accepted, dispatch, exec, retries, crashes, tsnap,
                   doubtful, hooks, op, ups>>

\* with_retry issues the POST again after a 5xx or a timeout, though Meta had
\* taken the message; if it had not, the next POST is like the first.
RetryPost(t) ==
    /\ phase[t] = "posting"
    /\ accepted' = accepted \cup {<<t, exec[t]>>}
    /\ doubtful' = doubtful \cup {<<t, exec[t]>>}
    /\ UNCHANGED <<tables, dispatch, phase, exec, retries, crashes, tsnap,
                   hooks, op, ups>>

\* Meta takes the message and the answer is read.
Answer(t) ==
    /\ phase[t] = "posting"
    /\ accepted' = accepted \cup {<<t, exec[t]>>}
    /\ phase' = [phase EXCEPT ![t] = "answered"]
    /\ UNCHANGED <<tables, dispatch, exec, retries, crashes, tsnap, doubtful, hooks, op, ups>>

CommitSentCountsTwice(t) ==
    /\ phase[t] = "answered" /\ ~CampLocked
    /\ sentRows' = sentRows \cup {<<t, exec[t]>>}
    /\ rec' = [rec EXCEPT ![t[1]] = "sent"]
    /\ camp' = [camp EXCEPT !.sent = tsnap[t].sent + 2]
    /\ Finish(t, "returned")
    /\ UNCHANGED <<accepted, dispatch, exec, retries, crashes, doubtful, hooks, op, ups>>

\* The message, the recipient and the campaign's sent_count are committed.  If
\* the acknowledgement of the commit is lost Celery notes a failure instead.
CommitSent(t) ==
    /\ phase[t] = "answered" /\ ~CampLocked
    /\ sentRows' = sentRows \cup {<<t, exec[t]>>}
    /\ rec' = [rec EXCEPT ![t[1]] = "sent"]
    /\ camp' = [camp EXCEPT !.sent = tsnap[t].sent + 1]
    /\ Finish(t, "returned")
    /\ UNCHANGED <<accepted, dispatch, exec, retries, crashes, doubtful, hooks, op, ups>>

\* MetaInvalidRequestError is caught.
Refused(t) ==
    /\ phase[t] = "posting"
    /\ phase' = [phase EXCEPT ![t] = "refused"]
    /\ UNCHANGED <<tables, accepted, dispatch, exec, retries, crashes, tsnap,
                   doubtful, hooks, op, ups>>

CommitFailedAsSent(t) ==
    /\ phase[t] = "refused" /\ ~CampLocked
    /\ rec' = [rec EXCEPT ![t[1]] = "sent"]
    /\ camp' = [camp EXCEPT !.failed = tsnap[t].failed + 1]
    /\ Finish(t, "returned")
    /\ UNCHANGED <<sentRows, accepted, dispatch, exec, retries, crashes, doubtful, hooks, op, ups>>

\* The recipient and the campaign's failed_count are committed.
CommitFailed(t) ==
    /\ phase[t] = "refused" /\ ~CampLocked
    /\ rec' = [rec EXCEPT ![t[1]] = "failed"]
    /\ camp' = [camp EXCEPT !.failed = tsnap[t].failed + 1]
    /\ Finish(t, "returned")
    /\ UNCHANGED <<sentRows, accepted, dispatch, exec, retries, crashes, doubtful, hooks, op, ups>>

\* The answer to the POST was a 5xx: Meta may have taken the message.
TakenAfterAll(t) ==
    /\ phase[t] = "posting"
    /\ accepted' = accepted \cup {<<t, exec[t]>>}
    /\ doubtful' = doubtful \cup {<<t, exec[t]>>}

RateLimitedRequeueLost(t) ==
    /\ phase[t] \in {"locked", "posting"}
    /\ Finish(t, "none")
    /\ UNCHANGED <<tables, accepted, dispatch, exec, retries, crashes, doubtful, hooks, op, ups>>

RateLimitedOffByOne(t) ==
    /\ phase[t] \in {"locked", "posting"}
    /\ IF retries[t] <= MaxRetries
       THEN /\ Finish(t, "queued")
            /\ retries' = [retries EXCEPT ![t] = @ + 1]
       ELSE /\ Finish(t, "raised")
            /\ UNCHANGED retries
    /\ UNCHANGED <<tables, accepted, dispatch, exec, crashes, doubtful, hooks, op, ups>>

\* Our limiter says no, or an answer of Meta has a rate limit code, a 5xx
\* included: rollback, and Celery runs the task again later unless it has used
\* up its retries.
RateLimited(t) ==
    /\ phase[t] \in {"locked", "posting"}
    /\ UNCHANGED <<accepted, doubtful>> \/ TakenAfterAll(t)
    /\ IF retries[t] < MaxRetries
       THEN /\ Finish(t, "queued")
            /\ retries' = [retries EXCEPT ![t] = @ + 1]
       ELSE /\ Finish(t, "raised")
            /\ UNCHANGED retries
    /\ UNCHANGED <<tables, dispatch, exec, crashes, hooks, op, ups>>

\* Exceptions that are neither caught nor retried by Celery: MetaServerError
\* stands for the transport errors too, KeyError for any answer without a
\* message id, DBAPIError for a failing database.
Unretried == {"TenantNotFoundError", "MetaAuthError", "MetaServerError", "KeyError",
              "DBAPIError"}

\* The phases an exception is raised in.
RaisedIn(exc) ==
    CASE exc = "TenantNotFoundError" -> {"locked"}
      [] exc = "DBAPIError" -> Running
      [] OTHER -> {"posting"}

\* What is known of the message then.  A server error gets here when
\* with_retry gives up, MetaAuthError also comes of a 5xx with code 190; they
\* leave open whether Meta took the message.  An answer without a message id
\* is a 2xx.
MayBeTaken(t, exc) ==
    \/ UNCHANGED <<accepted, doubtful>>
    \/ exc \in {"MetaServerError", "MetaAuthError"} /\ TakenAfterAll(t)
    \/ /\ exc = "KeyError"
       /\ accepted' = accepted \cup {<<t, exec[t]>>}
       /\ UNCHANGED doubtful

RaisedAndRetried(t, exc) ==
    /\ phase[t] \in RaisedIn(exc)
    /\ MayBeTaken(t, exc)
    /\ IF retries[t] < MaxRetries
       THEN Finish(t, "queued") /\ retries' = [retries EXCEPT ![t] = @ + 1]
       ELSE Finish(t, "raised") /\ UNCHANGED retries
    /\ UNCHANGED <<tables, dispatch, exec, crashes, hooks, op, ups>>

\* Any other exception: rollback, and the task is not run again.
Raised(t, exc) ==
    /\ phase[t] \in RaisedIn(exc)
    /\ MayBeTaken(t, exc)
    /\ Finish(t, "raised")
    /\ UNCHANGED <<tables, dispatch, exec, retries, crashes, hooks, op, ups>>

\* acks_late: the message is acknowledged when the function has returned or
\* raised and its transaction is over.
Ack(t) ==
    /\ phase[t] \in Over
    /\ phase' = [phase EXCEPT ![t] = IF @ = "returned" THEN "done" ELSE "dead"]
    /\ UNCHANGED <<tables, accepted, dispatch, exec, retries, crashes, tsnap,
                   doubtful, hooks, op, ups>>

\* The worker is lost before that: what is not committed is rolled back, and
\* the message goes back to the queue (task_reject_on_worker_lost).
Crash(t) ==
    /\ phase[t] \in Running \cup Over /\ crashes < MaxCrashes
    /\ crashes' = crashes + 1
    /\ \/ UNCHANGED accepted
       \/ /\ phase[t] = "posting"
          /\ accepted' = accepted \cup {<<t, exec[t]>>}
    /\ Finish(t, "queued")
    /\ UNCHANGED <<tables, dispatch, exec, retries, doubtful, hooks, op, ups>>

-----------------------------------------------------------------------------
(* Reports of Meta, rolled up into the campaign *)

HasSentRow(r) == \E e \in sentRows : e[1][1] = r

\* A handler has a report and loads the campaign and the recipient, with the
\* message or, as collections of the tenant, before it looks for the message.
ReportLoad(r, s) ==
    LET h == <<r, s>> IN
    /\ hook[h] = "idle" /\ \E e \in accepted : e[1][1] = r
    /\ hook' = [hook EXCEPT ![h] = "loaded"]
    /\ hsnap' = [hsnap EXCEPT ![h] = [camp |-> camp, rec |-> rec[r]]]
    /\ UNCHANGED <<tables, accepted, dispatch, tasks, op, ups>>

\* No message with this id is committed: the report is dropped.
ReportDropped(r, s) ==
    /\ hook[<<r, s>>] = "loaded" /\ ~HasSentRow(r)
    /\ hook' = [hook EXCEPT ![<<r, s>>] = "done"]
    /\ hsnap' = [hsnap EXCEPT ![<<r, s>>] = NothingLoaded]
    /\ UNCHANGED <<tables, accepted, dispatch, tasks, op, ups>>

\* The campaign object of the session after the report has been counted.
Counted(snap, s) ==
    IF snap.rec = s THEN snap.camp
    ELSE CASE s = "delivered" -> [snap.camp EXCEPT !.delivered = @ + 1]
           [] s = "read"      -> [snap.camp EXCEPT !.read = @ + 1]
           [] s = "failed"    -> [snap.camp EXCEPT !.failed = @ + 1]
           [] OTHER           -> snap.camp

\* "Mark complete if everyone is done"
Completes(c) ==
    /\ c.total - (c.delivered + c.read + c.failed) <= 0
    /\ c.status = "running"

\* Column f of the row: written if the session changed it.
Column(f, new, old) == IF new[f] # old[f] THEN new[f] ELSE camp[f]

\* Whether the session changed a column of the campaign.
Touched(h) ==
    LET new == Counted(hsnap[h], h[2]) IN new # hsnap[h].camp \/ Completes(new)

ReportFlushUnchecked(r, s) ==
    LET h == <<r, s>> IN
    /\ hook[h] = "loaded" /\ Touched(h) /\ ~CampLocked
    /\ hook' = [hook EXCEPT ![h] = "flushing"]
    /\ UNCHANGED <<tables, accepted, dispatch, tasks, hsnap, op, ups>>

\* The message is found.  The flush begins with the campaign's row ...
ReportFlush(r, s) ==
    LET h == <<r, s>> IN
    /\ hook[h] = "loaded" /\ HasSentRow(r) /\ Touched(h) /\ ~CampLocked
    /\ hook' = [hook EXCEPT ![h] = "flushing"]
    /\ UNCHANGED <<tables, accepted, dispatch, tasks, hsnap, op, ups>>

\* ... and goes on to the recipient's, for which it waits while a task has it
\* locked.  Only the columns the session changed are written.
ReportCommit(r, s) ==
    LET h == <<r, s>>
        old == hsnap[h].camp
        new == Counted(hsnap[h], s)
    IN
    /\ hook[h] = IF Touched(h) THEN "flushing" ELSE "loaded"
    /\ HasSentRow(r)
    /\ hsnap[h].rec # s => ~RowLocked(r)
    /\ rec' = IF hsnap[h].rec # s THEN [rec EXCEPT ![r] = s] ELSE rec
    /\ camp' = [camp EXCEPT !.delivered = Column("delivered", new, old),
                            !.read = Column("read", new, old),
                            !.failed = Column("failed", new, old),
                            !.status = IF Completes(new) THEN "completed" ELSE @]
    /\ hook' = [hook EXCEPT ![h] = "done"]
    /\ hsnap' = [hsnap EXCEPT ![<<r, s>>] = NothingLoaded]
    /\ UNCHANGED <<sentRows, accepted, dispatch, tasks, op, ups>>

\* The handler waits for the recipient's row and the task that has it for the
\* campaign's.
WaitCycle(r, s, t) ==
    /\ hook[<<r, s>>] = "flushing" /\ hsnap[<<r, s>>].rec # s
    /\ t[1] = r /\ phase[t] \in {"answered", "refused"}

\* Postgres breaks the cycle: the handler answers 500 and Meta posts the report
\* again, or the task ends as in Raised with a DBAPIError.
ReportAborted(r, s) ==
    /\ \E t \in Tasks : WaitCycle(r, s, t)
    /\ hook' = [hook EXCEPT ![<<r, s>>] = "idle"]
    /\ hsnap' = [hsnap EXCEPT ![<<r, s>>] = NothingLoaded]
    /\ UNCHANGED <<tables, accepted, dispatch, tasks, op, ups>>

-----------------------------------------------------------------------------
Execute(t) ==
    \/ Load(t) \/ LockRecipient(t) \/ Post(t) \/ RetryPost(t) \/ Answer(t) \/ CommitSent(t)
    \/ Refused(t) \/ CommitFailed(t) \/ RateLimited(t) \/ Ack(t)
    \/ \E exc \in Unretried : Raised(t, exc)

Report(r, s) ==
    \/ ReportLoad(r, s) \/ ReportDropped(r, s)
    \/ ReportFlush(r, s) \/ ReportCommit(r, s) \/ ReportAborted(r, s)

Next ==
    \/ Create \/ WorkerStackStart \/ DispatchRead
    \/ \E u \in Uploads : UploadLoad(u) \/ UploadCommit(u)
    \/ \E o \in LifecycleOps : OpLoad(o) \/ OpCommit(o)
    \/ \E r \in Recipients, d \in 1 .. MaxDispatches : Enqueue(r, d)
    \/ \E t \in Tasks : Execute(t) \/ Crash(t)
    \/ \E r \in Recipients, s \in Reports : Report(r, s)

Spec == Init /\ [][Next]_vars

\* Celery runs the tasks in its queue, a POST has an end (the client's timeout),
\* Postgres grants row locks in the order they are asked for and breaks cycles.
\* That a step fails is never relied on.
FairSpec ==
    /\ Spec
    /\ \A t \in Tasks :
        /\ WF_vars(Load(t)) /\ WF_vars(Post(t) \/ RateLimited(t))
        /\ WF_vars(Answer(t) \/ Refused(t)) /\ WF_vars(Ack(t))
        /\ SF_vars(LockRecipient(t)) /\ SF_vars(CommitSent(t) \/ CommitFailed(t))
    /\ \A r \in Recipients, s \in Reports :
        SF_vars(ReportCommit(r, s)) /\ WF_vars(ReportAborted(r, s))

-----------------------------------------------------------------------------
(* Properties *)

\* Every variable stays in the set it is declared for.
TypeOK ==
    /\ camp \in Campaigns
    /\ rec \in [Recipients -> RecipientStatus]
    /\ sentRows \subseteq Execs /\ accepted \subseteq Execs /\ doubtful \subseteq Execs
    /\ launches \in 0 .. MaxDispatches
    /\ wants \in [1 .. MaxDispatches -> SUBSET Recipients]
    /\ phase \in [Tasks -> {"none", "queued"} \cup Running \cup Over \cup Ended]
    /\ exec \in [Tasks -> 0 .. MaxRetries + MaxCrashes + 1]
    /\ retries \in [Tasks -> 0 .. MaxRetries] /\ crashes \in 0 .. MaxCrashes
    /\ tsnap \in [Tasks -> Campaigns]
    /\ hook \in [Hooks -> {"idle", "loaded", "flushing", "done"}]
    /\ hsnap \in [Hooks -> [camp : Campaigns, rec : RecipientStatus]]
    /\ op \in [LifecycleOps -> CampaignStatus \cup {"idle", "done"}]
    /\ up \in [Uploads -> {"idle", "loaded", "done"}] /\ usnap \in [Uploads -> Nat]

\* Updates of sent_count get lost when tasks overlap, yet it never exceeds
\* the number of messages committed as sent.
SentCountSound == camp.sent <= Cardinality(sentRows)

\* Two uploads that overlap lose a total, which never exceeds the recipients
\* there are.
TotalSound == camp.total <= Cardinality({r \in Recipients : rec[r] # "absent"})

\* A recipient shown as sent, delivered or read has a committed message that
\* Meta took, whatever crashed, was retried or was reported in between.
OutcomeBacked ==
    /\ \A r \in Recipients : rec[r] \in {"sent", "delivered", "read"} => HasSentRow(r)
    /\ sentRows \subseteq accepted

\* A task records its message once at most, though Celery delivers it again to
\* be retried or when a worker is lost, after the commit included.
RecordedOnce == \A e, f \in sentRows : e[1] = f[1] => e = f

\* A task that starts when a message of the recipient has been committed does
\* not send another, whatever reports have changed the recipient since.  (One
\* that loaded the recipient before that commit still sends.)
SkipsWhatWasSent ==
    [][\A t \in Tasks :
        phase[t] = "queued" /\ phase'[t] = "loaded" => ~HasSentRow(t[1])]_vars

\* A task makes Meta take its message again only where a worker was lost or a
\* POST was in doubt (a timeout or a 5xx, with a rate limit code or without):
\* Celery's retries follow no execution whose message was surely taken.
DuplicatesNeedCrashes ==
    \A t \in Tasks : Cardinality({e \in accepted \ doubtful : e[1] = t}) <= 1 + crashes

\* A task in the queue is over at some time: the retries are bounded, the row
\* lock of a duplicate is released and a handler that waits for the task's row
\* is aborted.  Only a task that raised leaves its recipient queued.
TasksEnd ==
    \A t \in Tasks :
        phase[t] = "queued" ~> phase[t] = "dead" \/ (phase[t] = "done" /\ rec[t[1]] # "queued")

\* A webhook handler and a task wait for each other's rows only where another
\* task of the recipient has sent before: a campaign dispatched once has no
\* deadlock.
WaitCycleNeedsDuplicate ==
    \A r \in Recipients, s \in Reports, t \in Tasks :
        WaitCycle(r, s, t) => \E e \in sentRows : e[1] # t /\ e[1][1] = r

\* A completed or cancelled campaign changes its status only by an actor that
\* had read the campaign before it ended (pause and cancel write over whatever
\* is there when they commit, a handler marks complete what it saw running),
\* and never goes straight back to draft, scheduled or running.
EndedLeftByStaleOnly ==
    [][camp.status \in {"completed", "cancelled"} /\ camp'.status # camp.status =>
        /\ camp'.status \in {"paused", "completed", "cancelled"}
        /\ \/ \E o \in LifecycleOps :
                op'[o] # op[o] /\ op[o] \notin {"idle", "completed", "cancelled"}
           \/ \E h \in Hooks : hook'[h] # hook[h] /\ hsnap[h].camp.status = "running"]_vars

\* What the comment in _propagate_campaign_status says ("Mark complete if
\* everyone is done").
CompletedMeansDone ==
    camp.status = "completed" =>
        \A r \in Recipients : rec[r] \in {"absent", "delivered", "read", "failed"}

\* What the cancel endpoint says ("no further sends will happen").
NoSendAfterCancel ==
    [][\A t \in Tasks :
        camp.status = "cancelled" => ~(phase[t] = "locked" /\ phase'[t] = "posting")]_vars
=============================================================================
