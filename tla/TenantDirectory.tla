-------------------------- MODULE TenantDirectory --------------------------
(***************************************************************************)
(* The tenants table: created by the API and by scripts/seed_data.py,      *)
(* changed by PATCH and DELETE /tenants/{id}, and charged by API sends and *)
(* by campaign tasks.  src/services/tenant_service.py.                     *)
(*                                                                         *)
(* Every request loads the tenant once and decides on what it has loaded;  *)
(* its flush writes the columns it has changed, and no others, over the    *)
(* row as it is by then.  The slug is looked up among tenants that are not *)
(* deleted, its index is unique among all.  ENCRYPTION_KEY is a setting of *)
(* the deployment and may be set, changed or removed by the next one.      *)
(*                                                                         *)
(* Abstracted: name, plan and is_active (written like the limit), WABA and *)
(* phone number ids, what a send does between loading the tenant and       *)
(* committing (module MessageSend).                                        *)
(***************************************************************************)
EXTENDS Integers, Sequences, FiniteSets

CONSTANTS
    Requests,    \* API requests, campaign tasks and runs of the seed script
    Job,         \* request -> what it does
    Keys,        \* values of ENCRYPTION_KEY
    DefaultSlug  \* DEFAULT_TENANT_SLUG

\* The requests with one of these operations.
Jobs(ops) == {r \in Requests : Job[r].op \in ops}

ASSUME JobAssumption ==
    /\ Requests = Jobs({"create", "seed", "update", "delete", "send", "bulk"})
    /\ \A r \in Jobs({"create", "seed"}) : Job[r].limit \in Nat /\ Job[r].slug # "none"
    /\ \A r \in Jobs({"seed"}) : Job[r].slug = DefaultSlug
    /\ \A r \in Jobs({"update"}) : Job[r].limit \in Nat /\ Job[r].fields \subseteq {"limit", "token"}
ASSUME KeyAssumption == "none" \notin Keys

VARIABLES
    tenants,      \* committed rows, by the request that created them
    setting,      \* ENCRYPTION_KEY of the running deployment, or "none"
    rekeyed,      \* a key that was set has been changed or removed
    multiTenant,  \* ENABLE_MULTI_TENANT
    pc,           \* how far each request is
    env,          \* ENCRYPTION_KEY of the deployment that serves it
    target,       \* the tenant it works on
    snap,         \* that tenant as the session loaded it
    highest,      \* tenant -> the highest limit it has had
    bulk          \* tenant -> campaign messages committed for it

vars == <<tenants, setting, rekeyed, multiTenant, pc, env, target, snap, highest, bulk>>
config == <<setting, rekeyed, multiTenant>>
history == <<highest, bulk>>

Tokens ==
    [text : {Job[r].token : r \in Jobs({"create", "seed", "update"})} \cup {"none"},
     layers : Seq(Keys)]
Tenants ==
    [slug : {Job[r].slug : r \in Jobs({"create", "seed"})} \cup {"none"},
     limit : Nat, usage : Nat, deleted : BOOLEAN, token : Tokens]

NoTenant == [slug |-> "none", limit |-> 0, usage |-> 0, deleted |-> FALSE,
             token |-> [text |-> "none", layers |-> <<>>]]
Exists(id) == tenants[id] # NoTenant
Live(id) == Exists(id) /\ ~tenants[id].deleted

\* The settings this instance of the service was started with.
Init ==
    /\ tenants = [r \in Requests |-> NoTenant]
    /\ setting \in Keys \cup {"none"} /\ rekeyed = FALSE
    /\ multiTenant \in BOOLEAN
    /\ pc = [r \in Requests |-> "idle"]
    /\ env = [r \in Requests |-> "none"]
    /\ target = [r \in Requests |-> r]
    /\ snap = [r \in Requests |-> NoTenant]
    /\ highest = [r \in Requests |-> 0]
    /\ bulk = [r \in Requests |-> 0]

-----------------------------------------------------------------------------
(* Tokens: the layers of encryption around the text, outermost first *)

EncryptUnconfigured(stored, key) == [stored EXCEPT !.layers = <<key>> \o @]

\* encrypt, with the deployment's key.
Encrypt(stored, key) ==
    IF key = "none" THEN stored ELSE [stored EXCEPT !.layers = <<key>> \o @]

\* decrypt: what the key does not open is returned as it is stored.
Decrypt(stored, key) ==
    IF key # "none" /\ stored.layers # <<>> /\ Head(stored.layers) = key
    THEN [stored EXCEPT !.layers = Tail(@)]
    ELSE stored

Plain(text) == [text |-> text, layers |-> <<>>]

\* The next deployment has another ENCRYPTION_KEY; requests in progress are
\* served to their end by the one they came to.  Bound: none after a key was
\* lost.
Redeploy(key) ==
    /\ key # setting /\ ~rekeyed
    /\ setting' = key
    /\ rekeyed' = (rekeyed \/ setting # "none")
    /\ UNCHANGED <<tenants, multiTenant, pc, env, target, snap, history>>

-----------------------------------------------------------------------------
(* create, and the seed script *)

Answer(r, answer) == pc' = [pc EXCEPT ![r] = answer]

\* The request ends and its session is closed.
End(r, answer) ==
    /\ Answer(r, answer)
    /\ env' = [env EXCEPT ![r] = "none"]
    /\ target' = [target EXCEPT ![r] = r]
    /\ snap' = [snap EXCEPT ![r] = NoTenant]

\* The service object is made with the settings of the deployment.
Arrive(r) == env' = [env EXCEPT ![r] = setting]

\* get_by_slug: 409 if a tenant that is not deleted has the slug.
CreateCheck(r) ==
    /\ pc[r] = "idle" /\ Job[r].op = "create" /\ multiTenant
    /\ IF \E id \in Requests : Live(id) /\ tenants[id].slug = Job[r].slug
       THEN End(r, "error")
       ELSE Answer(r, "checked") /\ Arrive(r) /\ UNCHANGED <<target, snap>>
    /\ UNCHANGED <<tenants, config, history>>

\* The script's own SELECT finds deleted tenants as well.
SeedCheck(r) ==
    /\ pc[r] = "idle" /\ Job[r].op = "seed"
    /\ IF \E id \in Requests : Exists(id) /\ tenants[id].slug = Job[r].slug
       THEN End(r, "skipped")
       ELSE Answer(r, "checked") /\ Arrive(r) /\ UNCHANGED <<target, snap>>
    /\ UNCHANGED <<tenants, config, history>>

SlugTakenAmongLive(slug) == \E id \in Requests : Live(id) /\ tenants[id].slug = slug

\* ix_tenants_slug
SlugTaken(slug) == \E id \in Requests : Exists(id) /\ tenants[id].slug = slug

\* The INSERT and its commit, or the integrity error that answers 500.
Insert(r) ==
    /\ pc[r] = "checked"
    /\ IF SlugTaken(Job[r].slug)
       THEN End(r, "error") /\ UNCHANGED <<tenants, history>>
       ELSE /\ End(r, "done")
            /\ tenants' = [tenants EXCEPT ![r] =
                            [slug |-> Job[r].slug, limit |-> Job[r].limit, usage |-> 0,
                             deleted |-> FALSE,
                             token |-> Encrypt(Plain(Job[r].token), env[r])]]
            /\ highest' = [highest EXCEPT ![r] = Job[r].limit]
            /\ UNCHANGED bulk
    /\ UNCHANGED config

-----------------------------------------------------------------------------
(* Requests on a tenant *)

AssertQuotaOffByOne(t) == t.usage <= t.limit

\* assert_quota
AssertQuota(t) == t.usage < t.limit

\* _ensure_multi_tenant: PATCH and DELETE, as POST, are for multi-tenant mode.
Admitted(r) == Job[r].op \in {"create", "update", "delete"} => multiTenant
OnTenant(r) == Job[r].op \in {"update", "delete", "send", "bulk"}

LoadDeleted(r, id) ==
    /\ pc[r] = "idle" /\ OnTenant(r) /\ Admitted(r) /\ Exists(id)
    /\ Job[r].op = "send" => AssertQuota(tenants[id])
    /\ Answer(r, "loaded")
    /\ target' = [target EXCEPT ![r] = id]
    /\ snap' = [snap EXCEPT ![r] = tenants[id]]
    /\ Arrive(r)
    /\ UNCHANGED <<tenants, config, history>>

\* get or resolve: a tenant that is there and not deleted.  Sends check the
\* quota on what they have loaded, campaign tasks do not.
Load(r, id) ==
    /\ pc[r] = "idle" /\ OnTenant(r) /\ Admitted(r) /\ Live(id)
    /\ Job[r].op = "send" => AssertQuota(tenants[id])
    /\ Answer(r, "loaded")
    /\ target' = [target EXCEPT ![r] = id]
    /\ snap' = [snap EXCEPT ![r] = tenants[id]]
    /\ Arrive(r)
    /\ UNCHANGED <<tenants, config, history>>

\* 403, 404 or 429.
Refuse(r, id) ==
    /\ pc[r] = "idle"
    /\ \/ ~Admitted(r)
       \/ OnTenant(r) /\ ~Live(id)
       \/ Job[r].op = "send" /\ ~AssertQuota(tenants[id])
    /\ End(r, "error")
    /\ UNCHANGED <<tenants, config, history>>

ChangedReencrypts(r) ==
    LET old == snap[r] job == Job[r] IN
    CASE job.op = "update" ->
            [old EXCEPT !.limit = IF "limit" \in job.fields THEN job.limit ELSE @,
                        !.token = Encrypt(IF "token" \in job.fields THEN Plain(job.token) ELSE @, env[r])]
      [] job.op = "delete" -> [old EXCEPT !.deleted = TRUE]
      [] OTHER -> [old EXCEPT !.usage = @ + 1]

\* The object of the session as update, soft_delete or increment_usage leaves it.
Changed(r) ==
    LET old == snap[r] job == Job[r] IN
    CASE job.op = "update" ->
            [old EXCEPT !.limit = IF "limit" \in job.fields THEN job.limit ELSE @,
                        !.token = IF "token" \in job.fields THEN Encrypt(Plain(job.token), env[r])
                                  ELSE @]
      [] job.op = "delete" -> [old EXCEPT !.deleted = TRUE]
      [] OTHER -> [old EXCEPT !.usage = @ + 1]

FlushAllColumns(row, old, new) == new

\* Only the columns that differ are in the UPDATE.
Flush(row, old, new) ==
    LET Column(c) == IF new[c] # old[c] THEN new[c] ELSE row[c]
    IN [slug |-> Column("slug"), limit |-> Column("limit"), usage |-> Column("usage"),
        deleted |-> Column("deleted"), token |-> Column("token")]

Commit(r) ==
    /\ pc[r] = "loaded"
    /\ tenants' = [tenants EXCEPT ![target[r]] = Flush(@, snap[r], Changed(r))]
    /\ highest' = [highest EXCEPT ![target[r]] =
                    IF tenants'[target[r]].limit > @ THEN tenants'[target[r]].limit ELSE @]
    /\ bulk' = [bulk EXCEPT ![target[r]] = IF Job[r].op = "bulk" THEN @ + 1 ELSE @]
    /\ End(r, "done")
    /\ UNCHANGED config

\* The request fails after loading, for any reason: rollback.
Fail(r) ==
    /\ pc[r] \in {"loaded", "checked"}
    /\ End(r, "error")
    /\ UNCHANGED <<tenants, config, history>>

Next ==
    \/ \E key \in Keys \cup {"none"} : Redeploy(key)
    \/ \E r \in Requests :
        \/ CreateCheck(r) \/ SeedCheck(r) \/ Insert(r) \/ Commit(r) \/ Fail(r)
        \/ \E id \in Requests : Load(r, id) \/ Refuse(r, id)

Spec == Init /\ [][Next]_vars

-----------------------------------------------------------------------------
(* Properties *)

\* Every variable stays in the set it is declared for.
TypeOK ==
    /\ tenants \in [Requests -> Tenants] /\ snap \in [Requests -> Tenants]
    /\ setting \in Keys \cup {"none"} /\ rekeyed \in BOOLEAN /\ multiTenant \in BOOLEAN
    /\ pc \in [Requests -> {"idle", "checked", "loaded", "error", "skipped", "done"}]
    /\ env \in [Requests -> Keys \cup {"none"}]
    /\ target \in [Requests -> Requests]
    /\ highest \in [Requests -> Nat] /\ bulk \in [Requests -> Nat]

\* However creations race each other, deletions and the seed script, no two
\* tenants, deleted or not, share a slug.
UniqueSlug ==
    \A a, b \in Requests :
        Exists(a) /\ Exists(b) /\ tenants[a].slug = tenants[b].slug => a = b

\* A deleted tenant stays deleted, though others write objects they loaded
\* before; and only those still change it, nobody who comes later.
DeletedIsFrozen ==
    [][\A id \in Requests : tenants[id].deleted =>
        /\ tenants'[id].deleted
        /\ tenants'[id] # tenants[id] =>
            \E r \in Requests :
                /\ pc[r] = "loaded" /\ pc'[r] = "done"
                /\ target[r] = id /\ ~snap[r].deleted]_vars

\* The limit of a tenant changes only when a PATCH that carries this limit
\* commits: a send, a deletion or a PATCH of the token that loaded the tenant
\* before does not take it back.
LimitStands ==
    [][\A id \in Requests : Exists(id) /\ tenants'[id].limit # tenants[id].limit =>
        \E r \in Requests :
            /\ pc[r] = "loaded" /\ pc'[r] = "done" /\ target[r] = id
            /\ Job[r].op = "update" /\ "limit" \in Job[r].fields
            /\ Job[r].limit = tenants'[id].limit]_vars

\* The counter of a tenant exceeds the highest limit it has had by no more
\* than its campaign messages, which nobody checks: API sends stop at a limit
\* that is raised, lowered and overrun by campaigns in the meantime.
QuotaBound == \A id \in Requests : tenants[id].usage <= highest[id] + bulk[id]

\* As long as no key that was set is changed or removed, the service can read
\* every token, those it stored in clear before there was a key too.
TokensReadable ==
    ~rekeyed => \A id \in Requests :
        Exists(id) => Decrypt(tenants[id].token, setting).layers = <<>>
=============================================================================
