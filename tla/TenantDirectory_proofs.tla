------------------------ MODULE TenantDirectory_proofs ------------------------
(***************************************************************************)
(* Theorems about TenantDirectory, for any set of requests and keys.       *)
(***************************************************************************)
EXTENDS TenantDirectory, TLAPS

\* A request that inserts has one of the creating operations, one that has
\* loaded a tenant works on a tenant that is there and was not deleted.
PhaseInv ==
    \A r \in Requests :
        /\ pc[r] = "checked" => Job[r].op \in {"create", "seed"}
        /\ pc[r] = "loaded" => OnTenant(r) /\ Exists(target[r]) /\ ~snap[r].deleted

\* A tenant is there only after the request that creates it is over, and has
\* that request's slug.
ExistInv ==
    \A id \in Requests : Exists(id) => pc[id] = "done" /\ tenants[id].slug # "none"

\* Limits and counters, in the table and in the sessions, against the history.
QuotaInv ==
    /\ \A id \in Requests : tenants[id].limit <= highest[id]
    /\ \A r \in Requests : pc[r] = "loaded" =>
        /\ snap[r].limit <= highest[target[r]]
        /\ snap[r].usage <= highest[target[r]] + bulk[target[r]]
        /\ Job[r].op = "send" => snap[r].usage < snap[r].limit

IInv == TypeOK /\ PhaseInv /\ ExistInv /\ UniqueSlug /\ QuotaInv /\ QuotaBound

-----------------------------------------------------------------------------
\* What encrypt makes of a token of a request is a token as the table keeps it.
LEMMA TokenTypes ==
    ASSUME NEW text \in {Job[r].token : r \in Jobs({"create", "seed", "update"})},
           NEW key \in Keys \cup {"none"}
    PROVE  Encrypt(Plain(text), key) \in Tokens
  <1> DEFINE plain == [text |-> text, layers |-> <<>>]
  <1>1. Plain(text) = plain
    BY DEF Plain
  <1>2. CASE key = "none"
    <2>1. Encrypt(Plain(text), key) = plain
      BY <1>1, <1>2 DEF Encrypt
    <2> QED
      BY <2>1 DEF Tokens
  <1>3. CASE key # "none"
    <2>1. <<key>> \o <<>> = <<key>> /\ <<key>> \in Seq(Keys)
      BY <1>3
    <2>2. Encrypt(Plain(text), key) = [text |-> text, layers |-> <<key>>]
      BY <1>1, <1>3, <2>1 DEF Encrypt
    <2> QED
      BY <2>1, <2>2 DEF Tokens
  <1> QED
    BY <1>2, <1>3

\* What a request makes of the tenant it has loaded: never another slug, the
\* limit only if it is a PATCH of it, the counter only if it is a charge.
LEMMA ChangedFields ==
    ASSUME TypeOK, NEW r \in Requests, OnTenant(r)
    PROVE  /\ Changed(r) \in Tenants
           /\ Changed(r).slug = snap[r].slug
           /\ Changed(r).limit # snap[r].limit =>
                /\ Job[r].op = "update" /\ "limit" \in Job[r].fields
                /\ Changed(r).limit = Job[r].limit
           /\ Changed(r).usage # snap[r].usage =>
                Job[r].op \in {"send", "bulk"} /\ Changed(r).usage = snap[r].usage + 1
           /\ snap[r].deleted => Changed(r).deleted
  <1>1. snap[r] \in Tenants /\ env[r] \in Keys \cup {"none"}
    BY DEF TypeOK
  <1>2. CASE Job[r].op = "update"
    <2>1. Job[r].limit \in Nat
      BY <1>2, JobAssumption DEF Jobs
    <2>2. Encrypt(Plain(Job[r].token), env[r]) \in Tokens
      BY <1>1, <1>2, TokenTypes DEF Jobs
    <2>3. Changed(r) =
            [snap[r] EXCEPT !.limit = IF "limit" \in Job[r].fields THEN Job[r].limit ELSE @,
                            !.token = IF "token" \in Job[r].fields
                                      THEN Encrypt(Plain(Job[r].token), env[r]) ELSE @]
      BY <1>2 DEF Changed
    <2> QED
      BY <1>1, <1>2, <2>1, <2>2, <2>3 DEF Tenants
  <1>3. CASE Job[r].op = "delete"
    <2>1. Changed(r) = [snap[r] EXCEPT !.deleted = TRUE]
      BY <1>3 DEF Changed
    <2> QED
      BY <1>1, <2>1 DEF Tenants
  <1>4. CASE Job[r].op \in {"send", "bulk"}
    <2>1. Changed(r) = [snap[r] EXCEPT !.usage = @ + 1]
      BY <1>4 DEF Changed
    <2> QED
      BY <1>1, <1>4, <2>1 DEF Tenants
  <1> QED
    BY <1>2, <1>3, <1>4 DEF OnTenant

\* A flush mixes two rows column by column.
LEMMA FlushFields ==
    ASSUME NEW row \in Tenants, NEW old \in Tenants, NEW new \in Tenants
    PROVE  /\ Flush(row, old, new) \in Tenants
           /\ \A c \in {"slug", "limit", "usage", "deleted", "token"} :
                Flush(row, old, new)[c] = IF new[c] # old[c] THEN new[c] ELSE row[c]
  BY DEF Flush, Tenants

\* The row after a commit.
LEMMA CommitFields ==
    ASSUME IInv, NEW r \in Requests, Commit(r)
    PROVE  LET id == target[r] IN
           /\ id \in Requests /\ Exists(id) /\ OnTenant(r) /\ pc[r] = "loaded"
           /\ tenants' \in [Requests -> Tenants]
           /\ \A q \in Requests : q # id => tenants'[q] = tenants[q]
           /\ tenants'[id].slug = tenants[id].slug
           /\ \/ tenants'[id].limit = tenants[id].limit
              \/ /\ Job[r].op = "update" /\ "limit" \in Job[r].fields
                 /\ tenants'[id].limit = Job[r].limit
           /\ \/ tenants'[id].usage = tenants[id].usage
              \/ Job[r].op \in {"send", "bulk"} /\ tenants'[id].usage = snap[r].usage + 1
           /\ tenants[id].deleted => tenants'[id].deleted
  <1> DEFINE id == target[r]
             new == Flush(tenants[id], snap[r], Changed(r))
  <1>1. /\ id \in Requests /\ snap[r] \in Tenants /\ tenants \in [Requests -> Tenants]
        /\ pc[r] = "loaded" /\ OnTenant(r) /\ Exists(id) /\ ~snap[r].deleted
    BY DEF IInv, TypeOK, PhaseInv, Commit
  <1>2. tenants' = [tenants EXCEPT ![id] = new]
    BY DEF Commit
  <1>3. /\ Changed(r) \in Tenants
        /\ Changed(r).slug = snap[r].slug
        /\ Changed(r).limit # snap[r].limit =>
             /\ Job[r].op = "update" /\ "limit" \in Job[r].fields
             /\ Changed(r).limit = Job[r].limit
        /\ Changed(r).usage # snap[r].usage =>
             Job[r].op \in {"send", "bulk"} /\ Changed(r).usage = snap[r].usage + 1
    BY <1>1, ChangedFields DEF IInv
  <1>4. /\ new \in Tenants
        /\ \A c \in {"slug", "limit", "usage", "deleted", "token"} :
             new[c] = IF Changed(r)[c] # snap[r][c] THEN Changed(r)[c] ELSE tenants[id][c]
    BY <1>1, <1>3, FlushFields
  <1>5. tenants'[id] = new /\ \A q \in Requests : q # id => tenants'[q] = tenants[q]
    BY <1>1, <1>2
  <1>6. tenants' \in [Requests -> Tenants]
    BY <1>1, <1>2, <1>4
  <1>7. new.slug = tenants[id].slug
    BY <1>3, <1>4
  <1>8. \/ new.limit = tenants[id].limit
        \/ /\ Job[r].op = "update" /\ "limit" \in Job[r].fields
           /\ new.limit = Job[r].limit
    BY <1>3, <1>4
  <1>9. \/ new.usage = tenants[id].usage
        \/ Job[r].op \in {"send", "bulk"} /\ new.usage = snap[r].usage + 1
    BY <1>3, <1>4
  <1>10. tenants[id].deleted => new.deleted
    <2>1. Changed(r).deleted \in BOOLEAN /\ snap[r].deleted \in BOOLEAN
      BY <1>1, <1>3 DEF Tenants
    <2> QED
      BY <1>1, <1>4, <2>1
  <1> HIDE DEF new
  <1> QED
    BY <1>1, <1>5, <1>6, <1>7, <1>8, <1>9, <1>10

-----------------------------------------------------------------------------
(* The invariant *)

\* The part of the state the properties are about; a step that leaves it alone
\* and does not let a session load or end preserves the invariant.
Quiet == UNCHANGED <<tenants, highest, bulk>>

\* A request that ends without touching the table.
LEMMA EndPreserves ==
    ASSUME IInv, NEW r \in Requests, pc[r] # "done", Quiet, UNCHANGED config,
           NEW answer \in {"error", "skipped"}, End(r, answer)
    PROVE  IInv'
  <1>1. /\ pc' = [pc EXCEPT ![r] = answer] /\ env' = [env EXCEPT ![r] = "none"]
        /\ target' = [target EXCEPT ![r] = r] /\ snap' = [snap EXCEPT ![r] = NoTenant]
    BY DEF End, Answer
  <1>2. NoTenant \in Tenants
    BY DEF NoTenant, Tenants, Tokens
  <1>3. TypeOK'
    BY <1>1, <1>2 DEF IInv, TypeOK, Quiet, config
  <1>4. \A q \in Requests : pc'[q] \in {"checked", "loaded"} =>
            q # r /\ pc'[q] = pc[q] /\ target'[q] = target[q] /\ snap'[q] = snap[q]
    BY <1>1 DEF IInv, TypeOK
  <1>5. PhaseInv'
    BY <1>4 DEF IInv, PhaseInv, Quiet, Exists, OnTenant
  <1>6. ExistInv'
    BY <1>1 DEF IInv, TypeOK, ExistInv, Exists, Quiet
  <1>7. QuotaInv'
    BY <1>4 DEF IInv, QuotaInv, Quiet
  <1>8. UniqueSlug' /\ QuotaBound'
    BY DEF IInv, UniqueSlug, QuotaBound, Exists, Quiet
  <1> QED
    BY <1>3, <1>5, <1>6, <1>7, <1>8 DEF IInv

\* A creation that found its slug free goes on to its INSERT.
LEMMA CheckPreserves ==
    ASSUME IInv, NEW r \in Requests, pc[r] = "idle", Job[r].op \in {"create", "seed"},
           Quiet, UNCHANGED config, Answer(r, "checked"), Arrive(r), UNCHANGED <<target, snap>>
    PROVE  IInv'
  <1>1. pc' = [pc EXCEPT ![r] = "checked"] /\ env' = [env EXCEPT ![r] = setting]
    BY DEF Answer, Arrive
  <1>2. TypeOK'
    BY <1>1 DEF IInv, TypeOK, Quiet, config
  <1>3. PhaseInv'
    BY <1>1 DEF IInv, TypeOK, PhaseInv, Quiet, Exists, OnTenant
  <1>4. ExistInv'
    BY <1>1 DEF IInv, TypeOK, ExistInv, Exists, Quiet
  <1>5. QuotaInv'
    BY <1>1 DEF IInv, TypeOK, QuotaInv, Quiet
  <1>6. UniqueSlug' /\ QuotaBound'
    BY DEF IInv, UniqueSlug, QuotaBound, Exists, Quiet
  <1> QED
    BY <1>2, <1>3, <1>4, <1>5, <1>6 DEF IInv

\* The INSERT gives a new tenant a slug no row has.
LEMMA InsertPreserves ==
    ASSUME IInv, NEW r \in Requests, Insert(r)
    PROVE  IInv'
  <1>1. pc[r] = "checked" /\ Job[r].op \in {"create", "seed"} /\ UNCHANGED config
    BY DEF Insert, IInv, PhaseInv
  <1>2. CASE SlugTaken(Job[r].slug)
    BY <1>1, <1>2, EndPreserves DEF Insert, Quiet, history
  <1>3. CASE ~SlugTaken(Job[r].slug)
    <2> DEFINE new == [slug |-> Job[r].slug, limit |-> Job[r].limit, usage |-> 0,
                       deleted |-> FALSE, token |-> Encrypt(Plain(Job[r].token), env[r])]
    <2>1. /\ pc' = [pc EXCEPT ![r] = "done"] /\ env' = [env EXCEPT ![r] = "none"]
          /\ target' = [target EXCEPT ![r] = r] /\ snap' = [snap EXCEPT ![r] = NoTenant]
          /\ tenants' = [tenants EXCEPT ![r] = new]
          /\ highest' = [highest EXCEPT ![r] = Job[r].limit] /\ bulk' = bulk
      BY <1>3 DEF Insert, End, Answer
    <2>2. Job[r].limit \in Nat /\ Job[r].slug # "none"
      BY <1>1, JobAssumption DEF Jobs
    <2>3. Encrypt(Plain(Job[r].token), env[r]) \in Tokens
      BY <1>1, TokenTypes DEF Jobs, IInv, TypeOK
    <2>4. new \in Tenants /\ NoTenant \in Tenants
      BY <1>1, <2>2, <2>3 DEF Tenants, NoTenant, Tokens, Jobs
    <2>5. /\ new.slug = Job[r].slug /\ new.limit = Job[r].limit /\ new.usage = 0
          /\ new # NoTenant
      BY <2>2 DEF NoTenant
    <2> HIDE DEF new
    <2>6. TypeOK'
      BY <1>1, <2>1, <2>2, <2>4 DEF IInv, TypeOK, config
    <2>7. ~Exists(r)
      BY <1>1 DEF IInv, ExistInv
    <2>8. \A q \in Requests : pc'[q] \in {"checked", "loaded"} =>
              q # r /\ pc'[q] = pc[q] /\ target'[q] = target[q] /\ snap'[q] = snap[q]
      BY <2>1 DEF IInv, TypeOK
    <2>9. \A q \in Requests : Exists(q) => q # r /\ tenants'[q] = tenants[q] /\ Exists(q)'
      BY <2>1, <2>7 DEF IInv, TypeOK, Exists
    <2>10. \A q \in Requests : q # r => Exists(q)' = Exists(q) /\ tenants'[q] = tenants[q]
      BY <2>1 DEF IInv, TypeOK, Exists
    <2>11. tenants'[r] = new /\ highest'[r] = Job[r].limit
      BY <2>1 DEF IInv, TypeOK
    <2>12. PhaseInv'
      BY <2>8, <2>9 DEF IInv, TypeOK, PhaseInv, OnTenant
    <2>13. ExistInv'
      BY <2>1, <2>2, <2>5, <2>10, <2>11 DEF IInv, TypeOK, ExistInv
    <2>14. UniqueSlug'
      <3>1. \A q \in Requests : q # r /\ Exists(q) => tenants[q].slug # Job[r].slug
        BY <1>3 DEF SlugTaken
      <3> QED
        BY <2>5, <2>10, <2>11, <3>1 DEF IInv, UniqueSlug
    <2>15. QuotaInv'
      <3>1. \A q \in Requests : q # r => highest'[q] = highest[q]
        BY <2>1 DEF IInv, TypeOK
      <3>2. \A q \in Requests : tenants'[q].limit <= highest'[q]
        BY <2>2, <2>5, <2>10, <2>11, <3>1 DEF IInv, QuotaInv
      <3>3. \A q \in Requests : pc'[q] = "loaded" => target[q] \in Requests /\ target[q] # r
        BY <2>7, <2>8 DEF IInv, TypeOK, PhaseInv
      <3> QED
        BY <2>1, <2>8, <3>1, <3>2, <3>3 DEF IInv, QuotaInv
    <2>16. QuotaBound'
      <3>1. \A q \in Requests : q # r => highest'[q] = highest[q]
        BY <2>1 DEF IInv, TypeOK
      <3>2. bulk[r] \in Nat
        BY DEF IInv, TypeOK
      <3> QED
        BY <2>1, <2>2, <2>5, <2>10, <2>11, <3>1, <3>2 DEF IInv, QuotaBound
    <2> QED
      BY <2>6, <2>12, <2>13, <2>14, <2>15, <2>16 DEF IInv
  <1> QED
    BY <1>2, <1>3

\* A session that loads a tenant sees a limit and a counter the history covers.
LEMMA LoadPreserves ==
    ASSUME IInv, NEW r \in Requests, NEW id \in Requests, Load(r, id)
    PROVE  IInv'
  <1>1. /\ pc[r] = "idle" /\ OnTenant(r) /\ Exists(id) /\ ~tenants[id].deleted
        /\ Job[r].op = "send" => tenants[id].usage < tenants[id].limit
        /\ pc' = [pc EXCEPT ![r] = "loaded"] /\ target' = [target EXCEPT ![r] = id]
        /\ snap' = [snap EXCEPT ![r] = tenants[id]] /\ env' = [env EXCEPT ![r] = setting]
        /\ Quiet /\ UNCHANGED config
    BY DEF Load, Live, AssertQuota, Answer, Arrive, Quiet, history
  <1>2. TypeOK'
    BY <1>1 DEF IInv, TypeOK, Quiet, config
  <1>3. \A q \in Requests : q # r =>
            pc'[q] = pc[q] /\ target'[q] = target[q] /\ snap'[q] = snap[q]
    BY <1>1 DEF IInv, TypeOK
  <1>4. pc'[r] = "loaded" /\ target'[r] = id /\ snap'[r] = tenants[id]
    BY <1>1 DEF IInv, TypeOK
  <1>5. PhaseInv'
    BY <1>1, <1>3, <1>4 DEF IInv, PhaseInv, Quiet, Exists, OnTenant
  <1>6. ExistInv'
    BY <1>1, <1>3, <1>4 DEF IInv, TypeOK, ExistInv, Exists, Quiet
  <1>7. QuotaInv'
    BY <1>1, <1>3, <1>4 DEF IInv, QuotaInv, QuotaBound, Quiet
  <1>8. UniqueSlug' /\ QuotaBound'
    BY <1>1 DEF IInv, UniqueSlug, QuotaBound, Exists, Quiet
  <1> QED
    BY <1>2, <1>5, <1>6, <1>7, <1>8 DEF IInv

\* A commit keeps the slug; a counter it writes is one more than a counter the
\* history covers, and below a limit the history covers if it was checked.
LEMMA CommitPreserves ==
    ASSUME IInv, NEW r \in Requests, Commit(r)
    PROVE  IInv'
  <1> DEFINE id == target[r]
  <1>1. /\ id \in Requests /\ Exists(id) /\ OnTenant(r) /\ pc[r] = "loaded"
        /\ tenants' \in [Requests -> Tenants]
        /\ \A q \in Requests : q # id => tenants'[q] = tenants[q]
        /\ tenants'[id].slug = tenants[id].slug
        /\ \/ tenants'[id].limit = tenants[id].limit
           \/ Job[r].op = "update" /\ tenants'[id].limit = Job[r].limit
        /\ \/ tenants'[id].usage = tenants[id].usage
           \/ Job[r].op \in {"send", "bulk"} /\ tenants'[id].usage = snap[r].usage + 1
    BY CommitFields
  <1>2. /\ pc' = [pc EXCEPT ![r] = "done"] /\ env' = [env EXCEPT ![r] = "none"]
        /\ target' = [target EXCEPT ![r] = r] /\ snap' = [snap EXCEPT ![r] = NoTenant]
        /\ highest' = [highest EXCEPT ![id] =
                        IF tenants'[id].limit > @ THEN tenants'[id].limit ELSE @]
        /\ bulk' = [bulk EXCEPT ![id] = IF Job[r].op = "bulk" THEN @ + 1 ELSE @]
        /\ UNCHANGED config
    BY DEF Commit, End, Answer
  <1>3. NoTenant \in Tenants
    BY DEF NoTenant, Tenants, Tokens
  <1>4. tenants'[id].limit \in Nat /\ tenants'[id].usage \in Nat
    BY <1>1 DEF Tenants
  <1>5. TypeOK'
    BY <1>1, <1>2, <1>3, <1>4 DEF IInv, TypeOK, config
  <1>6. /\ \A q \in Requests : q # id => highest'[q] = highest[q] /\ bulk'[q] = bulk[q]
        /\ highest'[id] = IF tenants'[id].limit > highest[id] THEN tenants'[id].limit
                          ELSE highest[id]
        /\ bulk'[id] = IF Job[r].op = "bulk" THEN bulk[id] + 1 ELSE bulk[id]
        /\ highest \in [Requests -> Nat] /\ bulk \in [Requests -> Nat]
    BY <1>1, <1>2 DEF IInv, TypeOK
  <1>7. \A q \in Requests : highest[q] <= highest'[q] /\ bulk[q] <= bulk'[q]
    BY <1>1, <1>4, <1>6
  <1>8. \A q \in Requests : pc'[q] \in {"checked", "loaded"} =>
            q # r /\ pc'[q] = pc[q] /\ target'[q] = target[q] /\ snap'[q] = snap[q]
    BY <1>2 DEF IInv, TypeOK
  <1>9. \A q \in Requests : tenants'[q].slug = tenants[q].slug
    BY <1>1
  <1>10. tenants[id].slug # "none"
    BY <1>1 DEF IInv, ExistInv
  <1>11. \A q \in Requests : Exists(q)' = Exists(q)
    <2>1. tenants[id] # NoTenant /\ tenants'[id] # NoTenant
      BY <1>1, <1>9, <1>10 DEF NoTenant
    <2>2. \A q \in Requests : q # id => tenants'[q] = tenants[q]
      BY <1>1
    <2> QED
      BY <2>1, <2>2, Zenon DEF Exists
  <1> HIDE DEF id
  <1>12. PhaseInv'
    BY <1>8, <1>11 DEF IInv, TypeOK, PhaseInv, OnTenant
  <1>13. ExistInv'
    BY <1>2, <1>9, <1>11 DEF IInv, TypeOK, ExistInv
  <1>14. UniqueSlug'
    BY <1>9, <1>11 DEF IInv, UniqueSlug
  <1>15. QuotaInv'
    <2>1. \A q \in Requests : tenants'[q].limit <= highest'[q]
      BY <1>1, <1>4, <1>6 DEF IInv, QuotaInv
    <2>2. \A q \in Requests : pc'[q] = "loaded" =>
            /\ snap'[q].limit <= highest'[target'[q]]
            /\ snap'[q].usage <= highest'[target'[q]] + bulk'[target'[q]]
            /\ Job[q].op = "send" => snap'[q].usage < snap'[q].limit
      <3> SUFFICES ASSUME NEW q \in Requests, pc'[q] = "loaded"
                   PROVE  /\ snap[q].limit <= highest'[target[q]]
                          /\ snap[q].usage <= highest'[target[q]] + bulk'[target[q]]
                          /\ Job[q].op = "send" => snap[q].usage < snap[q].limit
        BY <1>8
      <3>1. /\ snap[q].limit <= highest[target[q]]
            /\ snap[q].usage <= highest[target[q]] + bulk[target[q]]
            /\ Job[q].op = "send" => snap[q].usage < snap[q].limit
        BY <1>8 DEF IInv, QuotaInv
      <3>2. target[q] \in Requests /\ snap[q].limit \in Nat /\ snap[q].usage \in Nat
        BY DEF IInv, TypeOK, Tenants
      <3>3. /\ highest[target[q]] \in Nat /\ highest'[target[q]] \in Nat
            /\ bulk[target[q]] \in Nat /\ bulk'[target[q]] \in Nat
        BY <1>5, <1>6, <3>2 DEF TypeOK
      <3> QED
        BY <1>7, <3>1, <3>2, <3>3
    <2> QED
      BY <2>1, <2>2 DEF QuotaInv
  <1>16. QuotaBound'
    <2>1. \A q \in Requests : q # id => tenants'[q].usage <= highest'[q] + bulk'[q]
      BY <1>1, <1>6 DEF IInv, QuotaBound
    <2>2. tenants'[id].usage <= highest'[id] + bulk'[id]
      <3>1. /\ tenants[id].usage <= highest[id] + bulk[id]
            /\ snap[r].limit <= highest[id]
            /\ snap[r].usage <= highest[id] + bulk[id]
            /\ Job[r].op = "send" => snap[r].usage < snap[r].limit
        BY <1>1 DEF IInv, QuotaBound, QuotaInv, id
      <3>2. /\ snap[r].limit \in Nat /\ snap[r].usage \in Nat /\ tenants[id].usage \in Nat
            /\ highest[id] \in Nat /\ bulk[id] \in Nat /\ highest'[id] \in Nat
        BY <1>1, <1>5 DEF IInv, TypeOK, Tenants
      <3>3. highest[id] <= highest'[id] /\ bulk[id] <= bulk'[id]
        BY <1>1, <1>7
      <3>4. CASE tenants'[id].usage = tenants[id].usage
        BY <1>6, <3>1, <3>2, <3>3, <3>4
      <3>5. CASE Job[r].op = "send" /\ tenants'[id].usage = snap[r].usage + 1
        BY <1>6, <3>1, <3>2, <3>3, <3>5
      <3>6. CASE Job[r].op = "bulk" /\ tenants'[id].usage = snap[r].usage + 1
        BY <1>6, <3>1, <3>2, <3>3, <3>6
      <3> QED
        BY <1>1, <3>4, <3>5, <3>6
    <2> QED
      BY <2>1, <2>2 DEF QuotaBound
  <1> QED
    BY <1>5, <1>12, <1>13, <1>14, <1>15, <1>16 DEF IInv

\* No tenant and no session at the start.
LEMMA InitInvariant == Init => IInv
  <1> SUFFICES ASSUME Init PROVE IInv
    OBVIOUS
  <1>1. NoTenant \in Tenants /\ NoTenant.limit = 0 /\ NoTenant.usage = 0
    BY DEF NoTenant, Tenants, Tokens
  <1>2. TypeOK
    BY <1>1 DEF Init, TypeOK
  <1>3. PhaseInv /\ ExistInv /\ UniqueSlug
    BY DEF Init, PhaseInv, ExistInv, UniqueSlug, Exists
  <1>4. QuotaInv /\ QuotaBound
    BY <1>1 DEF Init, QuotaInv, QuotaBound
  <1> QED
    BY <1>2, <1>3, <1>4 DEF IInv

\* Every step preserves the invariant.
LEMMA NextInvariant == IInv /\ [Next]_vars => IInv'
  <1> SUFFICES ASSUME IInv, [Next]_vars PROVE IInv'
    OBVIOUS
  <1>1. ASSUME NEW key \in Keys \cup {"none"}, Redeploy(key) PROVE IInv'
    <2>1. UNCHANGED <<tenants, multiTenant, pc, env, target, snap, highest, bulk>>
          /\ setting' = key /\ rekeyed' \in BOOLEAN
      BY <1>1 DEF Redeploy, history, IInv, TypeOK
    <2>2. TypeOK'
      BY <2>1 DEF IInv, TypeOK
    <2> QED
      BY <2>1, <2>2 DEF IInv, PhaseInv, ExistInv, UniqueSlug, QuotaInv, QuotaBound, Exists, OnTenant
  <1>2. ASSUME NEW r \in Requests, CreateCheck(r) \/ SeedCheck(r) PROVE IInv'
    <2>1. pc[r] = "idle" /\ Job[r].op \in {"create", "seed"} /\ Quiet /\ UNCHANGED config
      BY <1>2 DEF CreateCheck, SeedCheck, Quiet, history
    <2>2. \/ End(r, "error") \/ End(r, "skipped")
          \/ Answer(r, "checked") /\ Arrive(r) /\ UNCHANGED <<target, snap>>
      BY <1>2 DEF CreateCheck, SeedCheck
    <2> QED
      BY <2>1, <2>2, EndPreserves, CheckPreserves
  <1>3. ASSUME NEW r \in Requests, NEW id \in Requests, Refuse(r, id) PROVE IInv'
    <2>1. pc[r] = "idle" /\ Quiet /\ UNCHANGED config /\ End(r, "error")
      BY <1>3 DEF Refuse, Quiet, history
    <2> QED
      BY <2>1, EndPreserves
  <1>4. ASSUME NEW r \in Requests, Fail(r) PROVE IInv'
    <2>1. pc[r] # "done" /\ Quiet /\ UNCHANGED config /\ End(r, "error")
      BY <1>4 DEF Fail, Quiet, history
    <2> QED
      BY <2>1, EndPreserves
  <1>5. CASE UNCHANGED vars
    <2>1. UNCHANGED <<tenants, setting, rekeyed, multiTenant, pc, env, target, snap, highest, bulk>>
      BY <1>5 DEF vars
    <2>2. TypeOK'
      BY <2>1 DEF IInv, TypeOK
    <2> QED
      BY <2>1, <2>2 DEF IInv, PhaseInv, ExistInv, UniqueSlug, QuotaInv, QuotaBound, Exists, OnTenant
  <1> QED
    BY <1>1, <1>2, <1>3, <1>4, <1>5, InsertPreserves, CommitPreserves, LoadPreserves DEF Next

\* The invariant holds in every behaviour.
LEMMA Invariant == Spec => []IInv
  BY InitInvariant, NextInvariant, PTL DEF Spec

-----------------------------------------------------------------------------
(* The theorems *)

\* The state of the directory keeps its types, whatever requests and settings
\* there are.
THEOREM TypeCorrect == Spec => []TypeOK
  <1>1. IInv => TypeOK
    BY DEF IInv
  <1> QED
    BY <1>1, Invariant, PTL

\* No two rows of tenants share a slug, however many creations, deletions and
\* seed scripts overlap.
THEOREM SlugsAreUnique == Spec => []UniqueSlug
  <1>1. IInv => UniqueSlug
    BY DEF IInv
  <1> QED
    BY <1>1, Invariant, PTL

\* The counter of a tenant stays within the highest limit it has had and the
\* campaign messages committed for it, for any number of overlapping sends,
\* tasks and changes of the limit.
THEOREM QuotaIsBounded == Spec => []QuotaBound
  <1>1. IInv => QuotaBound
    BY DEF IInv
  <1> QED
    BY <1>1, Invariant, PTL

\* A deletion is never taken back, and a deleted tenant is changed only by
\* requests that had loaded it before.
THEOREM DeletionsStand == Spec => DeletedIsFrozen
  <1> DEFINE A == \A id \in Requests : tenants[id].deleted =>
                    /\ tenants'[id].deleted
                    /\ tenants'[id] # tenants[id] =>
                        \E r \in Requests :
                            /\ pc[r] = "loaded" /\ pc'[r] = "done"
                            /\ target[r] = id /\ ~snap[r].deleted
  <1>1. IInv /\ [Next]_vars => A \/ UNCHANGED vars
    <2> SUFFICES ASSUME IInv, Next, NEW id \in Requests, tenants[id].deleted
                 PROVE  /\ tenants'[id].deleted
                        /\ tenants'[id] # tenants[id] =>
                             \E r \in Requests : /\ pc[r] = "loaded" /\ pc'[r] = "done"
                                                /\ target[r] = id /\ ~snap[r].deleted
      OBVIOUS
    <2>1. CASE UNCHANGED tenants
      BY <2>1
    <2>2. ASSUME NEW r \in Requests, Insert(r), tenants' # tenants
          PROVE  tenants'[id] = tenants[id]
      <3>1. tenants[r].deleted = FALSE
        BY <2>2 DEF Insert, IInv, ExistInv, Exists, NoTenant
      <3>2. \A q \in Requests : q # r => tenants'[q] = tenants[q]
        BY <2>2 DEF Insert, IInv, TypeOK
      <3> QED
        BY <3>1, <3>2
    <2>3. ASSUME NEW r \in Requests, Commit(r)
          PROVE  /\ tenants'[id].deleted
                 /\ tenants'[id] # tenants[id] =>
                      pc[r] = "loaded" /\ pc'[r] = "done" /\ target[r] = id /\ ~snap[r].deleted
      <3>1. /\ \A q \in Requests : q # target[r] => tenants'[q] = tenants[q]
            /\ tenants[target[r]].deleted => tenants'[target[r]].deleted
            /\ pc[r] = "loaded"
        BY <2>3, CommitFields
      <3>2. pc'[r] = "done" /\ ~snap[r].deleted
        BY <2>3, <3>1 DEF Commit, End, Answer, IInv, TypeOK, PhaseInv
      <3> QED
        BY <3>1, <3>2
    <2> QED
      BY <2>1, <2>2, <2>3 DEF Next, Redeploy, CreateCheck, SeedCheck, Load, Refuse, Fail
  <1> QED
    BY <1>1, Invariant, PTL DEF Spec, DeletedIsFrozen

\* A limit changes only by the commit of a PATCH that carries it.
THEOREM LimitsStand == Spec => LimitStands
  <1> DEFINE A == \A id \in Requests : Exists(id) /\ tenants'[id].limit # tenants[id].limit =>
                    \E r \in Requests :
                        /\ pc[r] = "loaded" /\ pc'[r] = "done" /\ target[r] = id
                        /\ Job[r].op = "update" /\ "limit" \in Job[r].fields
                        /\ Job[r].limit = tenants'[id].limit
  <1>1. IInv /\ [Next]_vars => A \/ UNCHANGED vars
    <2> SUFFICES ASSUME IInv, Next, NEW id \in Requests, Exists(id),
                        tenants'[id].limit # tenants[id].limit
                 PROVE  \E r \in Requests :
                            /\ pc[r] = "loaded" /\ pc'[r] = "done" /\ target[r] = id
                            /\ Job[r].op = "update" /\ "limit" \in Job[r].fields
                            /\ Job[r].limit = tenants'[id].limit
      OBVIOUS
    <2>1. ASSUME NEW r \in Requests, Insert(r) PROVE FALSE
      <3>1. ~Exists(r)
        BY <2>1 DEF Insert, IInv, ExistInv
      <3>2. \A q \in Requests : q # r => tenants'[q] = tenants[q]
        BY <2>1 DEF Insert, IInv, TypeOK
      <3> QED
        BY <3>1, <3>2
    <2>2. ASSUME NEW r \in Requests, Commit(r)
          PROVE  /\ pc[r] = "loaded" /\ pc'[r] = "done" /\ target[r] = id
                 /\ Job[r].op = "update" /\ "limit" \in Job[r].fields
                 /\ Job[r].limit = tenants'[id].limit
      <3>1. /\ \A q \in Requests : q # target[r] => tenants'[q] = tenants[q]
            /\ \/ tenants'[target[r]].limit = tenants[target[r]].limit
               \/ /\ Job[r].op = "update" /\ "limit" \in Job[r].fields
                  /\ tenants'[target[r]].limit = Job[r].limit
            /\ pc[r] = "loaded"
        BY <2>2, CommitFields
      <3>2. pc'[r] = "done"
        BY <2>2 DEF Commit, End, Answer, IInv, TypeOK
      <3> QED
        BY <3>1, <3>2
    <2> QED
      BY <2>1, <2>2 DEF Next, Redeploy, CreateCheck, SeedCheck, Load, Refuse, Fail
  <1> QED
    BY <1>1, Invariant, PTL DEF Spec, LimitStands
-----------------------------------------------------------------------------
(* Tokens *)

\* A token in clear, or with the one layer this key opens.
Opens(token, key) == token.layers = <<>> \/ (key # "none" /\ token.layers = <<key>>)

\* Until a key is lost, every token is in clear or under the key of today, and
\* a request that came to an earlier deployment found no key there.
KeyInv ==
    ~rekeyed => /\ \A id \in Requests : Opens(tenants[id].token, setting)
                /\ \A r \in Requests : env[r] \in {"none", setting}

\* What encrypt stores can be opened as long as the key is set.
LEMMA EncryptOpens ==
    ASSUME NEW text, NEW key \in Keys \cup {"none"}, NEW now \in Keys \cup {"none"},
           key \in {"none", now}
    PROVE  Opens(Encrypt(Plain(text), key), now)
  <1> DEFINE plain == [text |-> text, layers |-> <<>>]
  <1>1. Plain(text) = plain
    BY DEF Plain
  <1>2. CASE key = "none"
    BY <1>1, <1>2 DEF Encrypt, Opens
  <1>3. CASE key # "none"
    <2>1. <<key>> \o <<>> = <<key>>
      BY <1>3
    <2>2. Encrypt(Plain(text), key) = [text |-> text, layers |-> <<key>>]
      BY <1>1, <1>3, <2>1 DEF Encrypt
    <2> QED
      BY <1>3, <2>2 DEF Opens
  <1> QED
    BY <1>2, <1>3

\* A commit leaves a token alone or stores one encrypted for its deployment.
LEMMA CommitToken ==
    ASSUME IInv, NEW r \in Requests, Commit(r), NEW id \in Requests
    PROVE  \/ tenants'[id].token = tenants[id].token
           \/ tenants'[id].token = Encrypt(Plain(Job[r].token), env[r])
  <1> DEFINE new == Flush(tenants[target[r]], snap[r], Changed(r))
  <1>1. /\ target[r] \in Requests /\ snap[r] \in Tenants /\ tenants \in [Requests -> Tenants]
        /\ OnTenant(r)
    BY DEF IInv, TypeOK, PhaseInv, Commit
  <1>2. tenants' = [tenants EXCEPT ![target[r]] = new]
    BY DEF Commit
  <1>3. Changed(r) \in Tenants
    BY <1>1, ChangedFields DEF IInv
  <1>4. new.token = IF Changed(r).token # snap[r].token THEN Changed(r).token
                    ELSE tenants[target[r]].token
    BY <1>1, <1>3, FlushFields
  <1>5. Changed(r).token \in {snap[r].token, Encrypt(Plain(Job[r].token), env[r])}
    <2>1. CASE Job[r].op = "update"
      <3>1. Changed(r) =
              [snap[r] EXCEPT !.limit = IF "limit" \in Job[r].fields THEN Job[r].limit ELSE @,
                              !.token = IF "token" \in Job[r].fields
                                        THEN Encrypt(Plain(Job[r].token), env[r]) ELSE @]
        BY <2>1 DEF Changed
      <3> QED
        BY <1>1, <3>1 DEF Tenants
    <2>2. CASE Job[r].op = "delete"
      BY <1>1, <2>2 DEF Changed, Tenants
    <2>3. CASE Job[r].op \in {"send", "bulk"}
      BY <1>1, <2>3 DEF Changed, Tenants
    <2> QED
      BY <1>1, <2>1, <2>2, <2>3 DEF OnTenant
  <1> HIDE DEF new
  <1> QED
    BY <1>1, <1>2, <1>4, <1>5

\* Every step preserves KeyInv.
LEMMA KeyStep == IInv /\ KeyInv /\ [Next]_vars => KeyInv'
  <1> SUFFICES ASSUME IInv, KeyInv, [Next]_vars, ~rekeyed'
               PROVE  /\ \A id \in Requests : Opens(tenants'[id].token, setting')
                      /\ \A r \in Requests : env'[r] \in {"none", setting'}
    BY DEF KeyInv
  <1>1. /\ setting \in Keys \cup {"none"} /\ env \in [Requests -> Keys \cup {"none"}]
        /\ rekeyed \in BOOLEAN /\ tenants \in [Requests -> Tenants]
    BY DEF IInv, TypeOK
  <1>2. ASSUME NEW key \in Keys \cup {"none"}, Redeploy(key)
        PROVE  /\ \A id \in Requests : Opens(tenants'[id].token, setting')
               /\ \A r \in Requests : env'[r] \in {"none", setting'}
    <2>1. /\ ~rekeyed /\ setting = "none" /\ setting' = key
          /\ UNCHANGED <<tenants, env>>
      BY <1>2 DEF Redeploy
    <2> QED
      BY <2>1 DEF KeyInv, Opens
  <1>3. ASSUME UNCHANGED config, NEW r \in Requests,
               env' \in {env, [env EXCEPT ![r] = "none"], [env EXCEPT ![r] = setting]},
               \A id \in Requests : \/ tenants'[id].token = tenants[id].token
                                    \/ tenants'[id].token = Encrypt(Plain(Job[r].token), env[r])
        PROVE  /\ \A id \in Requests : Opens(tenants'[id].token, setting')
               /\ \A q \in Requests : env'[q] \in {"none", setting'}
    <2>1. ~rekeyed /\ setting' = setting
      BY <1>3 DEF config
    <2>2. \A q \in Requests : env[q] \in {"none", setting}
      BY <2>1 DEF KeyInv
    <2>3. Opens(Encrypt(Plain(Job[r].token), env[r]), setting)
      BY <1>1, <2>2, EncryptOpens
    <2>4. \A id \in Requests : Opens(tenants'[id].token, setting)
      <3> SUFFICES ASSUME NEW id \in Requests PROVE Opens(tenants'[id].token, setting)
        OBVIOUS
      <3>1. CASE tenants'[id].token = tenants[id].token
        BY <2>1, <3>1 DEF KeyInv
      <3>2. CASE tenants'[id].token = Encrypt(Plain(Job[r].token), env[r])
        BY <2>3, <3>2
      <3> QED
        BY <1>3, <3>1, <3>2
    <2>5. \A q \in Requests : env'[q] \in {"none", setting}
      BY <1>1, <1>3, <2>2
    <2> QED
      BY <2>1, <2>4, <2>5
  <1>4. ASSUME NEW r \in Requests, Insert(r)
        PROVE  /\ UNCHANGED config /\ env' = [env EXCEPT ![r] = "none"]
               /\ \A id \in Requests : \/ tenants'[id].token = tenants[id].token
                                       \/ tenants'[id].token = Encrypt(Plain(Job[r].token), env[r])
    <2>1. UNCHANGED config /\ env' = [env EXCEPT ![r] = "none"]
      BY <1>4 DEF Insert, End
    <2>2. \/ tenants' = tenants
          \/ tenants' = [tenants EXCEPT ![r] =
                            [slug |-> Job[r].slug, limit |-> Job[r].limit, usage |-> 0,
                             deleted |-> FALSE,
                             token |-> Encrypt(Plain(Job[r].token), env[r])]]
      BY <1>4 DEF Insert
    <2> QED
      BY <1>1, <2>1, <2>2
  <1>5. ASSUME NEW r \in Requests, Commit(r)
        PROVE  UNCHANGED config /\ env' = [env EXCEPT ![r] = "none"]
    BY <1>5 DEF Commit, End
  <1>6. ASSUME NEW r \in Requests, CreateCheck(r) \/ SeedCheck(r) \/ Fail(r)
                                   \/ \E id \in Requests : Load(r, id) \/ Refuse(r, id)
        PROVE  /\ UNCHANGED config /\ tenants' = tenants
               /\ env' \in {env, [env EXCEPT ![r] = "none"], [env EXCEPT ![r] = setting]}
    BY <1>6 DEF CreateCheck, SeedCheck, Fail, Load, Refuse, End, Arrive
  <1>7. CASE UNCHANGED vars
    BY <1>7 DEF vars, KeyInv
  <1> QED
    BY <1>2, <1>3, <1>4, <1>5, <1>6, <1>7, CommitToken DEF Next

\* Whatever requests of older deployments are still in progress, the service
\* can read every token until a key that was set is changed or removed.
THEOREM TokensAreReadable == Spec => []TokensReadable
  <1>1. Init => KeyInv
    BY DEF Init, KeyInv, Opens, NoTenant
  <1>2. IInv /\ KeyInv => TokensReadable
    <2> SUFFICES ASSUME IInv, KeyInv, ~rekeyed, NEW id \in Requests
                 PROVE  Decrypt(tenants[id].token, setting).layers = <<>>
      BY DEF TokensReadable
    <2> DEFINE token == tenants[id].token
    <2>1. token \in Tokens /\ Opens(token, setting)
      BY DEF IInv, TypeOK, Tenants, KeyInv
    <2> HIDE DEF token
    <2>2. ASSUME token.layers = <<>>
          PROVE  Decrypt(token, setting).layers = <<>>
      BY <2>1, <2>2 DEF Decrypt
    <2>3. ASSUME setting # "none", token.layers = <<setting>>
          PROVE  Decrypt(token, setting).layers = <<>>
      <3>1. Head(<<setting>>) = setting /\ Tail(<<setting>>) = <<>> /\ <<setting>> # <<>>
        OBVIOUS
      <3>2. Decrypt(token, setting) = [token EXCEPT !.layers = Tail(@)]
        BY <2>3, <3>1 DEF Decrypt
      <3> QED
        BY <2>1, <2>3, <3>1, <3>2 DEF Tokens
    <2>4. Decrypt(token, setting).layers = <<>>
      BY <2>1, <2>2, <2>3 DEF Opens
    <2> QED
      BY <2>4 DEF token
  <1> QED
    BY <1>1, <1>2, Invariant, KeyStep, PTL DEF Spec
=============================================================================
