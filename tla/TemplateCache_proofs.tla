------------------------ MODULE TemplateCache_proofs ------------------------
(***************************************************************************)
(* Theorems about TemplateCache for any templates, pages and statuses of   *)
(* Meta, and any number of syncs, changes and notifications.               *)
(***************************************************************************)
EXTENDS TemplateCache, TLAPS

\* A sync that asks for pages has one left to ask for; between syncs the next
\* page is the first.
PageInv ==
    \A s \in Syncs :
        /\ pc[s] = "fetching" => page[s] <= Pages
        /\ pc[s] \in {"idle", "committed"} => page[s] = 1

\* Whatever is on its way from Meta has been true there: its present status,
\* the notifications and what the syncs have read.
PastInv ==
    /\ \A k \in Templates : meta[k] \in past[k]
    /\ \A c \in 1 .. MaxChanges : notes[c] # NoNote => notes[c].raw \in past[notes[c].key]
    /\ \A s \in Syncs, k \in Templates : fetched[s][k] \in past[k] \cup {"absent"}

\* A row of the cache that says approved goes back to an approval at Meta.
ApprovedInv ==
    \A k \in Templates : rows[k] = "approved" => "APPROVED" \in past[k]

\* Rows are never deleted: what a session has seen is still there.
SeenInv ==
    \A s \in Syncs, k \in Templates : seen[s][k] # "none" => rows[k] # "none"

\* The inductive invariant.
IInv ==
    /\ TypeOK /\ PageInv /\ PastInv /\ ApprovedInv /\ SeenInv
    /\ CampaignWasApproved /\ SyncIsComplete

-----------------------------------------------------------------------------
\* Only Meta's APPROVED becomes approved, in a sync and in a webhook.
LEMMA StatusMaps ==
    ASSUME NEW raw
    PROVE  /\ StatusMap(raw) \in TemplateStatus
           /\ StatusMap(raw) = "approved" => raw = "APPROVED"
           /\ HookStatus(raw) \in TemplateStatus \cup {"none"}
           /\ HookStatus(raw) = "approved" => raw = "APPROVED"
           /\ "none" \notin TemplateStatus
  BY DEF StatusMap, HookStatus, TemplateStatus, Lower

\* The invariant at the start.
LEMMA InitIInv == Init => IInv
  <1> SUFFICES ASSUME Init PROVE IInv
    OBVIOUS
  <1>1. TypeOK
    BY PageAssumption, BoundAssumption DEF Init, TypeOK, Nothing, NoRows
  <1>2. PageInv
    BY PageAssumption DEF Init, PageInv
  <1>3. PastInv
    BY DEF Init, PastInv, Nothing
  <1>4. ApprovedInv /\ SeenInv
    BY DEF Init, ApprovedInv, SeenInv, NoRows
  <1>5. CampaignWasApproved /\ SyncIsComplete
    BY DEF Init, CampaignWasApproved, SyncIsComplete
  <1> QED
    BY <1>1, <1>2, <1>3, <1>4, <1>5 DEF IInv

\* A change at Meta only adds to the past.
LEMMA MetaChangePreserves ==
    ASSUME IInv, NEW k \in Templates, NEW raw \in Raws \cup {"absent"}, MetaChange(k, raw)
    PROVE  IInv'
  <1> USE DEF IInv
  <1>1. /\ meta' = [meta EXCEPT ![k] = raw] /\ past' = [past EXCEPT ![k] = @ \cup {raw}]
        /\ changes < MaxChanges /\ changes' = changes + 1
        /\ moved' = moved \cup {s \in Syncs : pc[s] = "fetching"}
        /\ UNCHANGED <<rows, campaign, pc, page, fetched, twice, seen, hook>>
    BY DEF MetaChange
  <1>2. \/ notes' = notes
        \/ /\ raw # "absent"
           /\ notes' = [notes EXCEPT ![changes + 1] = [key |-> k, raw |-> raw]]
    BY DEF MetaChange
  <1>3. changes + 1 \in 1 .. MaxChanges
    BY <1>1, BoundAssumption DEF TypeOK
  <1>4. TypeOK'
    <2>1. notes' \in [1 .. MaxChanges -> [key : Templates, raw : Raws] \cup {NoNote}]
      BY <1>2, <1>3 DEF TypeOK
    <2>2. changes' \in 0 .. MaxChanges
      BY <1>1, <1>3, BoundAssumption DEF TypeOK
    <2>3. /\ meta' \in [Templates -> Raws \cup {"absent"}]
          /\ past' \in [Templates -> SUBSET (Raws \cup {"absent"})]
      BY <1>1 DEF TypeOK
    <2> QED
      BY <1>1, <2>1, <2>2, <2>3 DEF TypeOK
  <1>5. /\ \A j \in Templates : past[j] \subseteq past'[j]
        /\ raw \in past'[k]
        /\ \A j \in Templates : meta'[j] = IF j = k THEN raw ELSE meta[j]
    BY <1>1 DEF TypeOK
  <1>6. PastInv'
    <2>1. \A j \in Templates : meta'[j] \in past'[j]
      BY <1>5 DEF PastInv
    <2>2. ASSUME NEW c \in 1 .. MaxChanges, notes'[c] # NoNote
          PROVE  notes'[c].raw \in past'[notes'[c].key]
      <3>1. CASE notes'[c] = notes[c]
        <4>1. notes[c].raw \in past[notes[c].key] /\ notes[c].key \in Templates
          BY <2>2, <3>1 DEF PastInv, TypeOK
        <4> QED
          BY <1>5, <3>1, <4>1
      <3>2. CASE notes'[c] = [key |-> k, raw |-> raw]
        BY <1>5, <3>2
      <3> QED
        BY <1>2, <1>3, <3>1, <3>2 DEF TypeOK
    <2>3. \A s \in Syncs, j \in Templates : fetched'[s][j] \in past'[j] \cup {"absent"}
      BY <1>1, <1>5 DEF PastInv
    <2> QED
      BY <2>1, <2>2, <2>3 DEF PastInv
  <1>7. ApprovedInv' /\ CampaignWasApproved'
    BY <1>1, <1>5 DEF ApprovedInv, CampaignWasApproved, TypeOK
  <1>8. PageInv' /\ SeenInv' /\ SyncIsComplete'
    BY <1>1 DEF PageInv, SeenInv, SyncIsComplete
  <1> QED
    BY <1>4, <1>6, <1>7, <1>8

\* A step of one sync that leaves Meta and the rows alone, reads from Meta
\* what is there now and sees rows that are there.
LEMMA SyncPreserves ==
    ASSUME IInv, NEW s \in Syncs, UNCHANGED <<metaVars, rows, campaign, hook>>, TypeOK',
           \A q \in Syncs : q # s => /\ pc'[q] = pc[q] /\ page'[q] = page[q]
                                     /\ fetched'[q] = fetched[q] /\ seen'[q] = seen[q],
           pc'[s] = "fetching" => page'[s] <= Pages,
           pc'[s] = "idle" => page'[s] = 1,
           pc'[s] # "committed",
           \A k \in Templates : fetched'[s][k] \in {fetched[s][k], meta[k], "absent"},
           \A k \in Templates : seen'[s][k] \in {seen[s][k], rows[k], "none"}
    PROVE  IInv'
  <1> USE DEF IInv, metaVars
  <1>1. PageInv'
    BY DEF PageInv
  <1>2. PastInv'
    BY DEF PastInv
  <1>3. ApprovedInv' /\ CampaignWasApproved'
    BY DEF ApprovedInv, CampaignWasApproved
  <1>4. SeenInv'
    BY DEF SeenInv
  <1>5. SyncIsComplete'
    BY DEF SyncIsComplete
  <1> QED
    BY <1>1, <1>2, <1>3, <1>4, <1>5

\* The steps of a sync before its flush.
LEMMA ReadingPreserves ==
    ASSUME IInv, NEW s \in Syncs,
           SyncStart(s) \/ GetPage(s) \/ GetFails(s) \/ ListForTenant(s)
    PROVE  IInv'
  <1> USE DEF IInv
  <1>1. Nothing \in [Templates -> Raws \cup {"absent"}]
        /\ NoRows \in [Templates -> TemplateStatus \cup {"none"}]
    BY DEF Nothing, NoRows
  <1>2. CASE SyncStart(s)
    <2>1. /\ pc' = [pc EXCEPT ![s] = "fetching"] /\ fetched' = [fetched EXCEPT ![s] = Nothing]
          /\ seen' = [seen EXCEPT ![s] = rows] /\ UNCHANGED <<page, moved, twice>>
          /\ UNCHANGED <<metaVars, rows, campaign, hook>>
      BY <1>2 DEF SyncStart
    <2>2. TypeOK'
      BY <1>1, <2>1 DEF TypeOK, metaVars
    <2>3. page'[s] <= Pages
      BY <1>2, <2>1, PageAssumption DEF SyncStart, PageInv, TypeOK
    <2>4. /\ pc'[s] = "fetching" /\ fetched'[s] = Nothing /\ seen'[s] = rows
          /\ \A q \in Syncs : q # s => /\ pc'[q] = pc[q] /\ page'[q] = page[q]
                                       /\ fetched'[q] = fetched[q] /\ seen'[q] = seen[q]
      BY <2>1 DEF TypeOK
    <2>5. \A k \in Templates : fetched'[s][k] = "absent" /\ seen'[s][k] = rows[k]
      BY <2>4 DEF Nothing
    <2> QED
      BY <2>1, <2>2, <2>3, <2>4, <2>5, SyncPreserves
  <1>3. CASE GetPage(s)
    <2>0. PICK listing \in Listings(s) :
            LET on == {k \in listing : meta[k] # "absent"} IN
            /\ fetched' = [fetched EXCEPT ![s] =
                            [k \in Templates |-> IF k \in on THEN meta[k] ELSE @[k]]]
            /\ twice' = [twice EXCEPT ![s] = @ \cup {k \in on : fetched[s][k] # "absent"}]
      BY <1>3 DEF GetPage, ReadPage
    <2>a. listing \subseteq Templates
      BY DEF Listings
    <2> DEFINE on == {k \in listing : meta[k] # "absent"}
               read == [k \in Templates |-> IF k \in on THEN meta[k] ELSE fetched[s][k]]
    <2>1. /\ pc' = [pc EXCEPT ![s] = IF page[s] = Pages THEN "fetched" ELSE "fetching"]
          /\ page' = [page EXCEPT ![s] = page[s] + 1]
          /\ fetched' = [fetched EXCEPT ![s] = read]
          /\ seen' = seen /\ moved' = moved /\ UNCHANGED <<metaVars, rows, campaign, hook>>
      BY <1>3, <2>0 DEF GetPage, TypeOK
    <2>b. twice' \in [Syncs -> SUBSET Templates]
      BY <2>0, <2>a DEF TypeOK
    <2>2. page[s] \in 1 .. Pages
      BY <1>3, PageAssumption DEF GetPage, PageInv, TypeOK
    <2>3. read \in [Templates -> Raws \cup {"absent"}]
      BY DEF TypeOK
    <2>4. /\ pc'[s] = (IF page[s] = Pages THEN "fetched" ELSE "fetching")
          /\ page'[s] = page[s] + 1 /\ fetched'[s] = read /\ seen'[s] = seen[s]
          /\ \A q \in Syncs : q # s => /\ pc'[q] = pc[q] /\ page'[q] = page[q]
                                       /\ fetched'[q] = fetched[q] /\ seen'[q] = seen[q]
      BY <2>1 DEF TypeOK
    <2>5. \A k \in Templates : fetched'[s][k] \in {fetched[s][k], meta[k], "absent"}
      BY <2>4
    <2> HIDE DEF read
    <2>6. TypeOK'
      <3>1. page' \in [Syncs -> 1 .. Pages + 1]
        BY <2>1, <2>2, PageAssumption DEF TypeOK
      <3>2. fetched' \in [Syncs -> [Templates -> Raws \cup {"absent"}]]
        BY <2>1, <2>3 DEF TypeOK
      <3>3. pc' \in [Syncs -> {"idle", "fetching", "fetched", "listed", "committed"}]
        BY <2>1 DEF TypeOK
      <3> QED
        BY <2>1, <2>b, <3>1, <3>2, <3>3 DEF TypeOK, metaVars
    <2>7. pc'[s] = "fetching" => page'[s] <= Pages
      BY <2>2, <2>4, PageAssumption
    <2>8. pc'[s] # "idle" /\ pc'[s] # "committed"
      BY <2>4
    <2>9. \A k \in Templates : seen'[s][k] \in {seen[s][k], rows[k], "none"}
      BY <2>4
    <2> QED
      BY <2>1, <2>4, <2>5, <2>6, <2>7, <2>8, <2>9, SyncPreserves
  <1>4. CASE GetFails(s)
    <2>1. /\ pc' = [pc EXCEPT ![s] = "idle"] /\ page' = [page EXCEPT ![s] = 1]
          /\ fetched' = [fetched EXCEPT ![s] = Nothing] /\ seen' = [seen EXCEPT ![s] = NoRows]
          /\ moved' = moved \ {s} /\ twice' = [twice EXCEPT ![s] = {}]
          /\ UNCHANGED <<metaVars, rows, campaign, hook>>
      BY <1>4 DEF GetFails, End
    <2>2. TypeOK'
      BY <1>1, <2>1, PageAssumption DEF TypeOK, metaVars
    <2>3. /\ pc'[s] = "idle" /\ page'[s] = 1 /\ fetched'[s] = Nothing /\ seen'[s] = NoRows
          /\ \A q \in Syncs : q # s => /\ pc'[q] = pc[q] /\ page'[q] = page[q]
                                       /\ fetched'[q] = fetched[q] /\ seen'[q] = seen[q]
      BY <2>1 DEF TypeOK
    <2>4. \A k \in Templates : fetched'[s][k] = "absent" /\ seen'[s][k] = "none"
      BY <2>3 DEF Nothing, NoRows
    <2> QED
      BY <2>1, <2>2, <2>3, <2>4, SyncPreserves
  <1>5. CASE ListForTenant(s)
    <2> DEFINE list == [k \in Templates |-> IF seen[s][k] = "none" THEN rows[k] ELSE seen[s][k]]
    <2>1. /\ pc' = [pc EXCEPT ![s] = "listed"] /\ seen' = [seen EXCEPT ![s] = list]
          /\ UNCHANGED <<page, moved, fetched, twice>> /\ UNCHANGED <<metaVars, rows, campaign, hook>>
      BY <1>5 DEF ListForTenant, TypeOK
    <2>2. list \in [Templates -> TemplateStatus \cup {"none"}]
      BY DEF TypeOK
    <2>3. /\ pc'[s] = "listed" /\ seen'[s] = list
          /\ \A q \in Syncs : q # s => pc'[q] = pc[q] /\ seen'[q] = seen[q]
      BY <2>1 DEF TypeOK
    <2>4. \A k \in Templates : seen'[s][k] \in {seen[s][k], rows[k], "none"}
      BY <2>3
    <2> HIDE DEF list
    <2>5. TypeOK'
      BY <2>1, <2>2 DEF TypeOK, metaVars
    <2> QED
      BY <2>1, <2>3, <2>4, <2>5, SyncPreserves
  <1> QED
    BY <1>2, <1>3, <1>4, <1>5

\* The flush of a sync writes what Meta has shown it, and no row goes away.
LEMMA SyncCommitPreserves ==
    ASSUME IInv, NEW s \in Syncs, SyncCommit(s)
    PROVE  IInv'
  <1> USE DEF IInv
  <1>1. UNCHANGED <<meta, past, notes, changes, campaign, hook>>
    BY DEF SyncCommit, metaVars
  <1>2. /\ page' = [page EXCEPT ![s] = 1] /\ seen' = [seen EXCEPT ![s] = NoRows]
        /\ moved' = moved \ {s} /\ twice' = [twice EXCEPT ![s] = {}]
        /\ \/ /\ pc' = [pc EXCEPT ![s] = "idle"] /\ rows' = rows
              /\ fetched' = [fetched EXCEPT ![s] = Nothing]
           \/ /\ pc' = [pc EXCEPT ![s] = "committed"] /\ fetched' = fetched
              /\ rows' = [k \in Templates |-> Written(s, k)]
    BY DEF SyncCommit, End
  <1>3. ASSUME NEW k \in Templates
        PROVE  /\ Written(s, k) \in TemplateStatus \cup {"none"}
               /\ rows[k] # "none" => Written(s, k) # "none"
               /\ fetched[s][k] # "absent" => Written(s, k) # "none"
               /\ Written(s, k) = "approved" => "APPROVED" \in past[k]
    <2>1. /\ rows[k] \in TemplateStatus \cup {"none"}
          /\ fetched[s][k] # "absent" => fetched[s][k] \in past[k]
          /\ seen[s][k] # "none" => rows[k] # "none"
          /\ rows[k] = "approved" => "APPROVED" \in past[k]
      BY DEF TypeOK, PastInv, SeenInv, ApprovedInv
    <2> DEFINE new == StatusMap(fetched[s][k])
    <2>2. new \in TemplateStatus /\ new # "none" /\ (new = "approved" => fetched[s][k] = "APPROVED")
      BY StatusMaps
    <2>3. \/ Written(s, k) = rows[k] /\ (fetched[s][k] = "absent" \/ seen[s][k] = new)
          \/ Written(s, k) = new /\ fetched[s][k] # "absent"
      BY DEF Written
    <2> HIDE DEF new
    <2> QED
      BY <2>1, <2>2, <2>3
  <1>4. TypeOK'
    <2>1. rows' \in [Templates -> TemplateStatus \cup {"none"}]
      BY <1>2, <1>3 DEF TypeOK
    <2>2. fetched' \in [Syncs -> [Templates -> Raws \cup {"absent"}]]
      <3>1. Nothing \in [Templates -> Raws \cup {"absent"}]
        BY DEF Nothing
      <3>2. fetched' = fetched \/ fetched' = [fetched EXCEPT ![s] = Nothing]
        BY <1>2
      <3> QED
        BY <3>1, <3>2 DEF TypeOK
    <2>3. seen' \in [Syncs -> [Templates -> TemplateStatus \cup {"none"}]]
      BY <1>2 DEF TypeOK, NoRows
    <2>4. page' \in [Syncs -> 1 .. Pages + 1]
      BY <1>2, PageAssumption DEF TypeOK
    <2>5. /\ pc' \in [Syncs -> {"idle", "fetching", "fetched", "listed", "committed"}]
          /\ moved' \subseteq Syncs /\ twice' \in [Syncs -> SUBSET Templates]
      BY <1>2 DEF TypeOK
    <2> QED
      BY <1>1, <2>1, <2>2, <2>3, <2>4, <2>5 DEF TypeOK
  <1>5. \A k \in Templates : /\ rows[k] # "none" => rows'[k] # "none"
                             /\ rows'[k] = "approved" => "APPROVED" \in past[k]
    BY <1>2, <1>3 DEF ApprovedInv
  <1>6. /\ pc'[s] \in {"idle", "committed"} /\ page'[s] = 1 /\ seen'[s] = NoRows
        /\ \A q \in Syncs : q # s => /\ pc'[q] = pc[q] /\ page'[q] = page[q]
                                     /\ fetched'[q] = fetched[q] /\ seen'[q] = seen[q]
    BY <1>2 DEF TypeOK
  <1>7. \A k \in Templates :
            /\ fetched'[s][k] \in {fetched[s][k], "absent"}
            /\ pc'[s] = "committed" /\ fetched'[s][k] # "absent" => rows'[k] # "none"
    BY <1>2, <1>3 DEF TypeOK, Nothing
  <1>8. PageInv'
    BY <1>6 DEF PageInv
  <1>9. PastInv'
    BY <1>1, <1>6, <1>7 DEF PastInv
  <1>10. ApprovedInv' /\ CampaignWasApproved'
    BY <1>1, <1>5 DEF ApprovedInv, CampaignWasApproved
  <1>11. SeenInv'
    BY <1>5, <1>6 DEF SeenInv, NoRows
  <1>12. SyncIsComplete'
    BY <1>5, <1>6, <1>7 DEF SyncIsComplete
  <1> QED
    BY <1>4, <1>8, <1>9, <1>10, <1>11, <1>12

\* A notification is read, and its status written to a row that is there.
LEMMA HookPreserves ==
    ASSUME IInv, NEW h \in Hooks, HookLoad(h) \/ HookCommit(h)
    PROVE  IInv'
  <1> USE DEF IInv, metaVars, syncVars
  <1> DEFINE new == HookStatus(Note(h).raw)
             key == Note(h).key
  <1>1. UNCHANGED <<meta, past, notes, changes, campaign, pc, page, moved, fetched, twice, seen>>
    BY DEF HookLoad, HookCommit
  <1>2. h[1] \in 1 .. MaxChanges
    BY DEF Hooks
  <1>3. hook' \in [Hooks -> TemplateStatus \cup {"unsent", "done"}]
    <2>1. Note(h) # NoNote => rows[key] \in TemplateStatus \cup {"none"}
      BY <1>2 DEF Note, TypeOK
    <2> QED
      BY <2>1 DEF HookLoad, HookCommit, TypeOK
  <1>4. \/ rows' = rows
        \/ rows' = [rows EXCEPT ![key] = new] /\ new \in TemplateStatus /\ new # "none"
    BY StatusMaps DEF HookLoad, HookCommit
  <1>5. new = "approved" /\ key \in Templates => "APPROVED" \in past[key]
    <2> SUFFICES ASSUME new = "approved" PROVE "APPROVED" \in past[key]
      OBVIOUS
    <2>1. Note(h).raw = "APPROVED"
      BY StatusMaps
    <2>2. Note(h) # NoNote
      BY <2>1 DEF NoNote
    <2> QED
      BY <1>2, <2>1, <2>2 DEF PastInv, Note
  <1> HIDE DEF new, key
  <1>6. TypeOK'
    <2>1. rows' \in [Templates -> TemplateStatus \cup {"none"}]
      BY <1>4 DEF TypeOK
    <2> QED
      BY <1>1, <1>3, <2>1 DEF TypeOK
  <1>7. \A k \in Templates : /\ rows[k] # "none" => rows'[k] # "none"
                             /\ rows'[k] = "approved" => "APPROVED" \in past[k]
    BY <1>4, <1>5 DEF TypeOK, ApprovedInv
  <1>8. PageInv' /\ PastInv'
    BY <1>1 DEF PageInv, PastInv
  <1>9. ApprovedInv' /\ CampaignWasApproved'
    BY <1>1, <1>7 DEF ApprovedInv, CampaignWasApproved
  <1>10. SeenInv' /\ SyncIsComplete'
    BY <1>1, <1>7 DEF SeenInv, SyncIsComplete
  <1> QED
    BY <1>6, <1>8, <1>9, <1>10

\* Every step preserves the invariant.
LEMMA NextIInv == IInv /\ [Next]_vars => IInv'
  <1> SUFFICES ASSUME IInv, [Next]_vars PROVE IInv'
    OBVIOUS
  <1>1. ASSUME NEW k \in Templates, CreateCampaign(k) PROVE IInv'
    <2>1. /\ campaign' = k /\ rows[k] = "approved"
          /\ UNCHANGED <<meta, past, notes, changes, rows, pc, page, moved, fetched, twice, seen, hook>>
      BY <1>1 DEF CreateCampaign, metaVars, syncVars
    <2>2. CampaignWasApproved'
      BY <2>1 DEF IInv, ApprovedInv, CampaignWasApproved
    <2>3. TypeOK'
      BY <2>1 DEF IInv, TypeOK
    <2>4. PageInv' /\ PastInv' /\ ApprovedInv' /\ SeenInv' /\ SyncIsComplete'
      BY <2>1 DEF IInv, PageInv, PastInv, ApprovedInv, SeenInv, SyncIsComplete
    <2> QED
      BY <2>2, <2>3, <2>4 DEF IInv
  <1>2. CASE UNCHANGED vars
    BY <1>2 DEF vars, metaVars, syncVars, IInv, TypeOK, PageInv, PastInv, ApprovedInv, SeenInv,
                CampaignWasApproved, SyncIsComplete
  <1> QED
    BY <1>1, <1>2, MetaChangePreserves, ReadingPreserves, SyncCommitPreserves, HookPreserves
    DEF Next, Sync

\* The invariant holds in every behaviour.
LEMMA Invariant == Spec => []IInv
  BY InitIInv, NextIInv, PTL DEF Spec

\* Rows, sessions and notifications keep their types, for any list at Meta.
THEOREM TypeCorrect == Spec => []TypeOK
  <1>1. IInv => TypeOK
    BY DEF IInv
  <1> QED
    BY <1>1, Invariant, PTL

\* CampaignService.create accepts a template only if Meta has approved it at
\* some time, through any number of stale syncs and late notifications.
THEOREM CampaignsWereApproved == Spec => []CampaignWasApproved
  <1>1. IInv => CampaignWasApproved
    BY DEF IInv
  <1> QED
    BY <1>1, Invariant, PTL

\* A sync that has answered leaves no template it was given without a row.
THEOREM SyncsAreComplete == Spec => []SyncIsComplete
  <1>1. IInv => SyncIsComplete
    BY DEF IInv
  <1> QED
    BY <1>1, Invariant, PTL
=============================================================================
