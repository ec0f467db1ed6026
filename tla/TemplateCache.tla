--------------------------- MODULE TemplateCache ---------------------------
(***************************************************************************)
(* The local cache of a tenant's message templates: POST /templates/sync   *)
(* reads Meta's list and writes it to the templates table, webhooks write  *)
(* single statuses, and creating a campaign asks the cache whether the     *)
(* template is approved.                                                   *)
(*                                                                         *)
(*   SyncStart ... SyncCommit   src/services/template_service.py           *)
(*   HookLoad, HookCommit       _handle_template_update of                 *)
(*                              src/services/webhook_service.py            *)
(*                                                                         *)
(* A sync resolves the tenant first, and with it the session loads the     *)
(* tenant's templates (relationship lazy="selectin"); the SELECT after the *)
(* call to Meta returns those objects as they are and reads only rows that *)
(* are new.  A flush writes the status where it differs from the loaded    *)
(* one.  Meta's list comes in pages, each with its own GET; a change in    *)
(* between moves the pages, and a template may be listed twice or never.   *)
(*                                                                         *)
(* Abstracted: a template is its name and language, of its columns only    *)
(* the status is kept (category and components are written alike).         *)
(***************************************************************************)
EXTENDS Integers

CONSTANTS
    Templates,     \* (name, language) of the tenant's templates
    Pages,         \* number of pages of Meta's list
    PageOf,        \* template -> the page it is listed on while Meta is at rest
    Raws,          \* statuses Meta uses in this instance
    Syncs,         \* clients that request a sync
    MaxChanges,    \* bound: status changes at Meta
    MaxPosts       \* bound: how often Meta posts one notification

ASSUME PageAssumption == Pages \in Nat \ {0} /\ PageOf \in [Templates -> 1 .. Pages]
ASSUME BoundAssumption == MaxChanges \in Nat /\ MaxPosts \in Nat \ {0}

\* TemplateStatus, and the upper case form Meta uses.
Lower == [PENDING |-> "pending", APPROVED |-> "approved", REJECTED |-> "rejected",
          PAUSED |-> "paused", DISABLED |-> "disabled"]
TemplateStatus == {Lower[raw] : raw \in DOMAIN Lower}

Hooks == (1 .. MaxChanges) \X (1 .. MaxPosts)

VARIABLES
    meta,        \* template -> its status at Meta, or "absent"
    past,        \* template -> the statuses it has had there
    notes,       \* change -> the template and status Meta notifies us of
    changes,     \* status changes so far
    rows,        \* committed rows: template -> status, or "none"
    campaign,    \* the template a campaign was created for, or "none"
    pc,          \* how far each sync is
    page,        \* the page it asks for next
    moved,       \* syncs during whose reading the list has changed
    fetched,     \* what it has read from Meta
    twice,       \* templates that were on more than one of its pages
    seen,        \* the rows as its session has loaded them
    hook         \* webhook handlers: what the session loaded, or the phase

metaVars == <<meta, past, notes, changes>>
syncVars == <<pc, page, moved, fetched, twice, seen>>
vars == <<metaVars, rows, campaign, syncVars, hook>>

NoNote == [key |-> "none", raw |-> "none"]
Nothing == [k \in Templates |-> "absent"]
NoRows == [k \in Templates |-> "none"]

Init ==
    /\ meta \in [Templates -> Raws \cup {"absent"}]
    /\ past = [k \in Templates |-> {meta[k]}]
    /\ notes = [c \in 1 .. MaxChanges |-> NoNote] /\ changes = 0
    /\ rows = NoRows
    /\ campaign = "none"
    /\ pc = [s \in Syncs |-> "idle"]
    /\ page = [s \in Syncs |-> 1]
    /\ moved = {}
    /\ fetched = [s \in Syncs |-> Nothing]
    /\ twice = [s \in Syncs |-> {}]
    /\ seen = [s \in Syncs |-> NoRows]
    /\ hook = [h \in Hooks |-> "unsent"]

-----------------------------------------------------------------------------
(* Meta *)

\* A template is submitted, reviewed, paused or removed; Meta will post a
\* notification of the new status of one that was there before.
MetaChange(k, raw) ==
    /\ changes < MaxChanges /\ raw # meta[k]
    /\ changes' = changes + 1
    /\ meta' = [meta EXCEPT ![k] = raw]
    /\ past' = [past EXCEPT ![k] = @ \cup {raw}]
    /\ notes' = IF "absent" \in {raw, meta[k]} THEN notes
                ELSE [notes EXCEPT ![changes + 1] = [key |-> k, raw |-> raw]]
    /\ moved' = moved \cup {s \in Syncs : pc[s] = "fetching"}
    /\ UNCHANGED <<rows, campaign, pc, page, fetched, twice, seen, hook>>

-----------------------------------------------------------------------------
(* sync_from_meta *)

\* tenants.resolve: the tenant comes with its templates.
SyncStart(s) ==
    /\ pc[s] \in {"idle", "committed"}
    /\ pc' = [pc EXCEPT ![s] = "fetching"]
    /\ fetched' = [fetched EXCEPT ![s] = Nothing]
    /\ seen' = [seen EXCEPT ![s] = rows]
    /\ UNCHANGED <<metaVars, rows, campaign, page, moved, twice, hook>>

\* The session of a sync is closed.
End(s, p) ==
    /\ pc' = [pc EXCEPT ![s] = p]
    /\ page' = [page EXCEPT ![s] = 1]
    /\ seen' = [seen EXCEPT ![s] = NoRows]
    /\ moved' = moved \ {s}
    /\ twice' = [twice EXCEPT ![s] = {}]
    /\ fetched' = IF p = "committed" THEN fetched ELSE [fetched EXCEPT ![s] = Nothing]

\* What the next page may hold: any templates once the list has moved.
Listings(s) ==
    IF s \in moved THEN SUBSET Templates
    ELSE {{k \in Templates : PageOf[k] = page[s]}}

\* One page is read; what it lists goes into meta_templates.
ReadPage(s) ==
    \E listing \in Listings(s) :
        LET on == {k \in listing : meta[k] # "absent"} IN
        /\ fetched' = [fetched EXCEPT ![s] =
                        [k \in Templates |-> IF k \in on THEN meta[k] ELSE @[k]]]
        /\ twice' = [twice EXCEPT ![s] = @ \cup {k \in on : fetched[s][k] # "absent"}]

GetPageFirstOnly(s) ==
    /\ pc[s] = "fetching"
    /\ ReadPage(s)
    /\ pc' = [pc EXCEPT ![s] = "fetched"]
    /\ page' = [page EXCEPT ![s] = @ + 1]
    /\ UNCHANGED <<metaVars, rows, campaign, moved, seen, hook>>

\* get_templates: one page, then the one paging.next names until there is none.
GetPage(s) ==
    /\ pc[s] = "fetching"
    /\ ReadPage(s)
    /\ pc' = [pc EXCEPT ![s] = IF page[s] = Pages THEN "fetched" ELSE @]
    /\ page' = [page EXCEPT ![s] = @ + 1]
    /\ UNCHANGED <<metaVars, rows, campaign, moved, seen, hook>>

\* A GET raises: nothing has been written.
GetFails(s) ==
    /\ pc[s] = "fetching"
    /\ End(s, "idle")
    /\ UNCHANGED <<metaVars, rows, campaign, hook>>

\* list_for_tenant: objects the session has are not read again.
ListForTenant(s) ==
    /\ pc[s] = "fetched"
    /\ seen' = [seen EXCEPT ![s] =
                [k \in Templates |-> IF @[k] = "none" THEN rows[k] ELSE @[k]]]
    /\ pc' = [pc EXCEPT ![s] = "listed"]
    /\ UNCHANGED <<metaVars, rows, campaign, page, moved, fetched, twice, hook>>

StatusMapOptimistic(raw) == IF raw \in DOMAIN Lower THEN Lower[raw] ELSE "approved"

StatusMapNoDefault(raw) == IF raw \in DOMAIN Lower THEN Lower[raw] ELSE raw

\* _STATUS_MAP with its default.
StatusMap(raw) == IF raw \in DOMAIN Lower THEN Lower[raw] ELSE "pending"

\* Templates the sync adds because it saw no row for them.
Created(s) == {k \in Templates : fetched[s][k] # "absent" /\ seen[s][k] = "none"}

WrittenUpdatesOnly(s, k) ==
    LET new == StatusMap(fetched[s][k]) IN
    IF fetched[s][k] = "absent" \/ seen[s][k] \in {"none", new} THEN rows[k] ELSE new

\* The status of a row after the flush; templates Meta no longer lists stay.
Written(s, k) ==
    LET new == StatusMap(fetched[s][k]) IN
    IF fetched[s][k] = "absent" \/ seen[s][k] = new THEN rows[k] ELSE new

\* The flush violates uq_templates_tenant_name_lang if another sync has
\* inserted one of them since, or if it inserts one twice because the loop does
\* not add what it creates to existing: 500, and all of it is rolled back.
SyncCommit(s) ==
    /\ pc[s] = "listed"
    /\ IF \E k \in Created(s) : rows[k] # "none" \/ k \in twice[s]
       THEN End(s, "idle") /\ UNCHANGED rows
       ELSE End(s, "committed") /\ rows' = [k \in Templates |-> Written(s, k)]
    /\ UNCHANGED <<metaVars, campaign, hook>>

Sync(s) == GetPage(s) \/ GetFails(s) \/ ListForTenant(s) \/ SyncCommit(s)

-----------------------------------------------------------------------------
(* _handle_template_update *)

\* TemplateStatus(new_raw.lower()), "none" where it raises ValueError.
HookStatus(raw) == IF raw \in DOMAIN Lower THEN Lower[raw] ELSE "none"

Note(h) == notes[h[1]]

\* Meta posts a notification, for the first time or again.  Without a row, or
\* without a single tenant for its WABA, the handler changes nothing.
HookLoad(h) ==
    /\ hook[h] = "unsent" /\ Note(h) # NoNote
    /\ h[2] > 1 => hook[<<h[1], h[2] - 1>>] # "unsent"
    /\ \/ hook' = [hook EXCEPT ![h] = IF rows[Note(h).key] = "none" THEN "done"
                                      ELSE rows[Note(h).key]]
       \/ hook' = [hook EXCEPT ![h] = "done"]
    /\ UNCHANGED <<metaVars, rows, campaign, syncVars>>

\* The flush writes a status that is known and differs from the loaded one.
HookCommit(h) ==
    /\ hook[h] \in TemplateStatus
    /\ LET new == HookStatus(Note(h).raw) IN
       rows' = IF new \in {"none", hook[h]} THEN rows ELSE [rows EXCEPT ![Note(h).key] = new]
    /\ hook' = [hook EXCEPT ![h] = "done"]
    /\ UNCHANGED <<metaVars, campaign, syncVars>>

-----------------------------------------------------------------------------
\* CampaignService.create: the template must be in the cache and approved.
CreateCampaign(k) ==
    /\ campaign = "none" /\ rows[k] = "approved"
    /\ campaign' = k
    /\ UNCHANGED <<metaVars, rows, syncVars, hook>>

Next ==
    \/ \E k \in Templates, raw \in Raws \cup {"absent"} : MetaChange(k, raw)
    \/ \E s \in Syncs : SyncStart(s) \/ Sync(s)
    \/ \E h \in Hooks : HookLoad(h) \/ HookCommit(h)
    \/ \E k \in Templates : CreateCampaign(k)

Spec == Init /\ [][Next]_vars

\* A request in the server is served to its end.
FairSpec ==
    /\ Spec
    /\ \A s \in Syncs : WF_vars(Sync(s))
    /\ \A h \in Hooks : WF_vars(HookCommit(h))

-----------------------------------------------------------------------------
(* Properties *)

\* Every variable stays in the set it is declared for.
TypeOK ==
    /\ meta \in [Templates -> Raws \cup {"absent"}]
    /\ past \in [Templates -> SUBSET (Raws \cup {"absent"})]
    /\ changes \in 0 .. MaxChanges
    /\ notes \in [1 .. MaxChanges -> [key : Templates, raw : Raws] \cup {NoNote}]
    /\ rows \in [Templates -> TemplateStatus \cup {"none"}]
    /\ campaign \in Templates \cup {"none"}
    /\ pc \in [Syncs -> {"idle", "fetching", "fetched", "listed", "committed"}]
    /\ page \in [Syncs -> 1 .. Pages + 1]
    /\ moved \subseteq Syncs
    /\ twice \in [Syncs -> SUBSET Templates]
    /\ fetched \in [Syncs -> [Templates -> Raws \cup {"absent"}]]
    /\ seen \in [Syncs -> [Templates -> TemplateStatus \cup {"none"}]]
    /\ hook \in [Hooks -> TemplateStatus \cup {"unsent", "done"}]

\* However stale the cache, the notifications and the pages are: no campaign
\* is created for a template Meta has never approved.
CampaignWasApproved == campaign # "none" => "APPROVED" \in past[campaign]

\* When a sync has answered, every template it was given is in the cache,
\* whatever other syncs and webhooks wrote in between.
SyncIsComplete ==
    \A s \in Syncs : pc[s] = "committed" =>
        \A k \in Templates : fetched[s][k] # "absent" => rows[k] # "none"

Fresh == \A k \in Templates : meta[k] # "absent" => rows[k] = StatusMap(meta[k])

\* The cache heals: stale syncs and late notifications may have written any
\* older status, but once Meta is at rest and syncs keep succeeding the cache
\* shows what Meta shows, and stays so.
SyncsConverge ==
    (\A s \in Syncs : []<>(pc[s] = "fetching") /\ []<>(pc[s] = "committed")) => <>[]Fresh
=============================================================================
