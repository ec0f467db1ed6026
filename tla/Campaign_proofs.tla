--------------------------- MODULE Campaign_proofs ---------------------------
(***************************************************************************)
(* Theorems about Campaign for any recipients, uploads and reports, and    *)
(* any number of dispatches, retries and lost workers.                     *)
(***************************************************************************)
EXTENDS Campaign, FiniteSetTheorems, TLAPS

\* A task that waits for a worker has one more execution to come.
Owed(p) == IF p \in {"none", "queued"} THEN 1 ELSE 0

\* Each execution of a task but the present one was ended by a retry of its
\* own or by a lost worker.
ExecInv ==
    \A t \in Tasks :
        /\ exec[t] + Owed(phase[t]) <= retries[t] + crashes + 1
        /\ phase[t] \in Running => exec[t] >= 1

\* A task that is still to be enqueued has not begun.
DispatchInv ==
    \A r \in Recipients, d \in 1 .. MaxDispatches :
        /\ d > launches => r \notin wants[d]
        /\ d > launches \/ r \in wants[d] => phase[<<r, d>>] = "none"

\* The recipients there are.
Present == {r \in Recipients : rec[r] # "absent"}

\* Recipients come from uploads that are over; only they are dispatched.
PresentInv ==
    /\ IsFiniteSet(Present)
    /\ \A r \in Present : \E u \in Uploads : up[u] = "done" /\ r \in Batch[u]
    /\ \A u \in Uploads : usnap[u] <= Cardinality(Present)
    /\ \A d \in 1 .. MaxDispatches : wants[d] \subseteq Present
    /\ \A t \in Tasks : phase[t] # "none" => t[1] \in Present

\* A task whose message is committed does not run again, the message shows at
\* its recipient and is what a webhook handler that flushes has found; no
\* session holds a count beyond them.
SentInv ==
    /\ IsFiniteSet(sentRows)
    /\ \A e \in sentRows :
        phase[e[1]] \notin Running \cup {"none"} /\ rec[e[1][1]] \notin {"absent", "queued"}
    /\ \A h \in Hooks : hook[h] = "flushing" => HasSentRow(h[1])
    /\ \A t \in Tasks : tsnap[t].sent <= Cardinality(sentRows)

\* The executions of a task whose only POST Meta took.
Clear(t) == {e \in accepted \ doubtful : e[1] = t}

\* One of them may have ended the task, or be about to.
Spare(p) == IF p \in {"answered"} \cup Over \cup Ended THEN 1 ELSE 0

\* The others were lost with their worker.
ClearInv ==
    /\ \A t \in Tasks : phase[t] = "answered" => <<t, exec[t]>> \in accepted
    /\ \A t \in Tasks : Cardinality(Clear(t)) <= crashes + Spare(phase[t])

\* pause and cancel hold a status that is not final.
OpInv == \A o \in LifecycleOps : op[o] \notin {"none", "completed", "cancelled"}

\* The inductive invariant.
IInv ==
    /\ TypeOK /\ ExecInv /\ DispatchInv /\ PresentInv /\ SentInv /\ ClearInv /\ OpInv
    /\ SentCountSound /\ TotalSound /\ OutcomeBacked /\ RecordedOnce

\* The phases of a task.
Phases == {"none", "queued"} \cup Running \cup Over \cup Ended

-----------------------------------------------------------------------------
\* The recipients of TotalSound are Present.
LEMMA TotalCounts == TotalSound <=> camp.total <= Cardinality(Present)
  BY DEF TotalSound, Present

\* The invariant at the start.
LEMMA InitIInv == Init => IInv
  <1> SUFFICES ASSUME Init PROVE IInv
    OBVIOUS
  <1>1. TypeOK
    BY BoundAssumption
    DEF Init, TypeOK, NoCampaign, Campaigns, CampaignStatus, RecipientStatus, NothingLoaded, Running, Locking,
        Over, Ended
  <1>2. ExecInv /\ DispatchInv
    BY BoundAssumption, <1>1 DEF Init, ExecInv, DispatchInv, Owed, Running, Locking, TypeOK, Tasks
  <1>3. Present = {} /\ sentRows = {} /\ accepted = {}
    BY DEF Init, Present
  <1>4. IsFiniteSet({}) /\ Cardinality({}) = 0
    BY FS_EmptySet
  <1>5. PresentInv
    BY <1>3, <1>4 DEF Init, PresentInv
  <1>6. SentInv
    BY <1>3, <1>4 DEF Init, SentInv, NoCampaign
  <1>7. RecordedOnce
    BY <1>3 DEF RecordedOnce
  <1>8. ClearInv
    <2>1. \A t \in Tasks : Clear(t) = {}
      BY <1>3 DEF Clear
    <2>2. \A t \in Tasks : phase[t] = "none" /\ crashes = 0
      BY DEF Init
    <2>3. Spare("none") = 0
      BY DEF Spare, Over, Ended
    <2> QED
      BY <2>1, <2>2, <2>3, <1>4 DEF ClearInv
  <1>9. OpInv
    BY DEF Init, OpInv
  <1>10. SentCountSound /\ TotalSound
    BY <1>3, <1>4, TotalCounts DEF Init, SentCountSound, NoCampaign
  <1>11. OutcomeBacked
    BY <1>3 DEF Init, OutcomeBacked
  <1> QED
    BY <1>1, <1>2, <1>5, <1>6, <1>7, <1>8, <1>9, <1>10, <1>11 DEF IInv

-----------------------------------------------------------------------------
\* A step that touches the status of the campaign and the operations only.
LEMMA StatusStep ==
    ASSUME IInv, NEW st \in CampaignStatus, camp' = [camp EXCEPT !.status = st],
           op' \in [LifecycleOps -> CampaignStatus \cup {"idle", "done"}], OpInv',
           UNCHANGED <<rec, sentRows, accepted, dispatch, tasks, hooks, ups>>
    PROVE  IInv'
  <1> USE DEF IInv, dispatch, tasks, hooks, ups
  <1>1. camp' \in Campaigns /\ camp'.sent = camp.sent /\ camp'.total = camp.total
    BY DEF TypeOK, Campaigns
  <1>2. TypeOK'
    BY <1>1 DEF TypeOK
  <1>3. ExecInv' /\ DispatchInv' /\ RecordedOnce'
    BY DEF ExecInv, DispatchInv, RecordedOnce
  <1>4. Present' = Present
    BY DEF Present
  <1>5. PresentInv'
    BY <1>4 DEF PresentInv
  <1>6. SentInv'
    BY DEF SentInv, HasSentRow
  <1>7. ClearInv'
    BY DEF ClearInv, Clear
  <1>8. SentCountSound'
    BY <1>1 DEF SentCountSound
  <1>9. TotalSound'
    BY <1>1 DEF TotalSound
  <1>10. OutcomeBacked'
    BY DEF OutcomeBacked, HasSentRow
  <1> QED
    BY <1>2, <1>3, <1>5, <1>6, <1>7, <1>8, <1>9, <1>10

\* Create, start, pause and cancel.
LEMMA LifecyclePreserves ==
    ASSUME IInv,
           Create \/ WorkerStackStart \/ \E o \in LifecycleOps : OpLoad(o) \/ OpCommit(o)
    PROVE  IInv'
  <1>1. TypeOK /\ OpInv
    BY DEF IInv
  <1>2. CASE Create \/ WorkerStackStart
    <2>1. PICK st \in CampaignStatus : camp' = [camp EXCEPT !.status = st]
      BY <1>2 DEF Create, WorkerStackStart, CampaignStatus
    <2>2. UNCHANGED <<rec, sentRows, accepted, dispatch, tasks, hooks, op, ups>>
      BY <1>2 DEF Create, WorkerStackStart
    <2> QED
      BY <1>1, <2>1, <2>2, StatusStep DEF OpInv, TypeOK
  <1>3. ASSUME NEW o \in LifecycleOps, OpLoad(o) PROVE IInv'
    <2>1. /\ op' = [op EXCEPT ![o] = camp.status]
          /\ camp.status \notin {"none", "completed", "cancelled"}
          /\ UNCHANGED <<camp, rec, sentRows, accepted, dispatch, tasks, hooks, ups>>
      BY <1>3 DEF OpLoad, tables
    <2>2. camp.status \in CampaignStatus /\ camp' = [camp EXCEPT !.status = camp.status]
      BY <1>1, <2>1 DEF TypeOK, Campaigns
    <2>3. OpInv' /\ op' \in [LifecycleOps -> CampaignStatus \cup {"idle", "done"}]
      BY <1>1, <2>1, <2>2 DEF OpInv, TypeOK
    <2> QED
      BY <2>1, <2>2, <2>3, StatusStep
  <1>4. ASSUME NEW o \in LifecycleOps, OpCommit(o) PROVE IInv'
    <2> DEFINE st == IF o = "pause" THEN "paused" ELSE "cancelled"
    <2>1. st \in CampaignStatus
      BY DEF CampaignStatus
    <2>2. /\ op' = [op EXCEPT ![o] = "done"] /\ camp' = [camp EXCEPT !.status = st]
          /\ UNCHANGED <<rec, sentRows, accepted, dispatch, tasks, hooks, ups>>
      BY <1>4 DEF OpCommit
    <2>3. OpInv' /\ op' \in [LifecycleOps -> CampaignStatus \cup {"idle", "done"}]
      BY <1>1, <2>2 DEF OpInv, TypeOK
    <2> HIDE DEF st
    <2> QED
      BY <2>1, <2>2, <2>3, StatusStep
  <1> QED
    BY <1>2, <1>3, <1>4

-----------------------------------------------------------------------------
\* An upload reads a total that is within the recipients there are ...
LEMMA UploadLoadPreserves ==
    ASSUME IInv, NEW u \in Uploads, UploadLoad(u)
    PROVE  IInv'
  <1> USE DEF IInv, tables, dispatch, tasks, hooks
  <1>1. /\ up[u] = "idle" /\ up' = [up EXCEPT ![u] = "loaded"]
        /\ usnap' = [usnap EXCEPT ![u] = camp.total]
        /\ UNCHANGED <<tables, accepted, dispatch, tasks, hooks, op>>
    BY DEF UploadLoad
  <1>2. TypeOK'
    BY <1>1 DEF TypeOK, Campaigns
  <1>3. ExecInv' /\ DispatchInv' /\ RecordedOnce' /\ OpInv'
    BY <1>1 DEF ExecInv, DispatchInv, RecordedOnce, OpInv
  <1>4. Present' = Present
    BY <1>1 DEF Present
  <1>5. PresentInv'
    BY <1>1, <1>4, TotalCounts DEF PresentInv, TypeOK
  <1>6. SentInv'
    BY <1>1 DEF SentInv, HasSentRow
  <1>7. ClearInv'
    BY <1>1 DEF ClearInv, Clear
  <1>8. SentCountSound' /\ TotalSound'
    BY <1>1 DEF SentCountSound, TotalSound
  <1>9. OutcomeBacked'
    BY <1>1 DEF OutcomeBacked, HasSentRow
  <1> QED
    BY <1>2, <1>3, <1>5, <1>6, <1>7, <1>8, <1>9

\* ... and adds to it the recipients it inserts, which nobody has inserted
\* before.
LEMMA UploadCommitPreserves ==
    ASSUME IInv, NEW u \in Uploads, UploadCommit(u)
    PROVE  IInv'
  <1> USE DEF IInv, dispatch, tasks, hooks
  <1>1. /\ up[u] = "loaded" /\ up' = [up EXCEPT ![u] = "done"]
        /\ rec' = [r \in Recipients |-> IF r \in Batch[u] THEN "queued" ELSE rec[r]]
        /\ UNCHANGED <<sentRows, accepted, dispatch, tasks, hooks, op, usnap>>
    BY DEF UploadCommit
  <1>2. camp' = IF Batch[u] = {} THEN camp
                ELSE [camp EXCEPT !.total = usnap[u] + Cardinality(Batch[u])]
    BY DEF UploadCommit
  <1>3. /\ Batch[u] \subseteq Recipients /\ IsFiniteSet(Batch[u])
        /\ Cardinality(Batch[u]) \in Nat
    BY BatchAssumption, FS_CardinalityType
  <1>4. IsFiniteSet(Present) /\ Cardinality(Present) \in Nat
    BY FS_CardinalityType DEF PresentInv
  <1>5. Batch[u] \cap Present = {}
    BY <1>1, BatchAssumption DEF PresentInv
  <1>6. Present' = Present \cup Batch[u]
    BY <1>1, <1>3 DEF Present
  <1>7. /\ IsFiniteSet(Present')
        /\ Cardinality(Present') = Cardinality(Present) + Cardinality(Batch[u])
    <2>1. /\ IsFiniteSet(Present \cup Batch[u])
          /\ Cardinality(Present \cup Batch[u])
              = Cardinality(Present) + Cardinality(Batch[u]) - Cardinality(Present \cap Batch[u])
      BY <1>3, <1>4, FS_Union
    <2>2. Cardinality(Present \cap Batch[u]) = 0
      BY <1>5, FS_EmptySet
    <2> QED
      BY <2>1, <2>2, <1>3, <1>4, <1>6
  <1>8. /\ camp' \in Campaigns /\ camp'.sent = camp.sent /\ usnap[u] \in Nat
        /\ camp'.total \in {camp.total, usnap[u] + Cardinality(Batch[u])}
    <2> DEFINE sum == usnap[u] + Cardinality(Batch[u])
    <2>1. usnap[u] \in Nat /\ sum \in Nat
      BY <1>3 DEF TypeOK
    <2> HIDE DEF sum
    <2>2. camp' = camp \/ camp' = [camp EXCEPT !.total = sum]
      BY <1>2 DEF sum
    <2>3. camp' \in Campaigns /\ camp'.sent = camp.sent /\ camp'.total \in {camp.total, sum}
      BY <2>1, <2>2 DEF TypeOK, Campaigns
    <2> QED
      BY <2>1, <2>3 DEF sum
  <1>9. TypeOK'
    <2>1. rec' \in [Recipients -> RecipientStatus]
      BY <1>1 DEF TypeOK, RecipientStatus
    <2> QED
      BY <1>1, <1>8, <2>1 DEF TypeOK
  <1>10. ExecInv' /\ DispatchInv' /\ RecordedOnce' /\ OpInv'
    BY <1>1 DEF ExecInv, DispatchInv, RecordedOnce, OpInv
  <1>11. PresentInv'
    <2>1. \A v \in Uploads : up[v] = "done" => up'[v] = "done"
      BY <1>1 DEF TypeOK
    <2>2. up'[u] = "done"
      BY <1>1 DEF TypeOK
    <2>3. \A r \in Present' : \E v \in Uploads : up'[v] = "done" /\ r \in Batch[v]
      BY <1>6, <2>1, <2>2 DEF PresentInv
    <2>4. \A v \in Uploads : usnap'[v] <= Cardinality(Present')
      BY <1>1, <1>3, <1>4, <1>7 DEF PresentInv, TypeOK
    <2> QED
      BY <1>1, <1>6, <1>7, <2>3, <2>4 DEF PresentInv
  <1>12. \A r \in Present : rec'[r] = rec[r]
    BY <1>1, <1>5 DEF Present
  <1>13. SentInv'
    <2>1. \A e \in sentRows : e[1][1] \in Present
      BY DEF SentInv, Present, TypeOK, Execs, Tasks
    <2>2. \A e \in sentRows' :
            phase'[e[1]] \notin Running \cup {"none"} /\ rec'[e[1][1]] \notin {"absent", "queued"}
      BY <1>1, <1>12, <2>1 DEF SentInv
    <2> QED
      BY <1>1, <2>2 DEF SentInv, HasSentRow
  <1>14. ClearInv'
    BY <1>1 DEF ClearInv, Clear
  <1>15. SentCountSound'
    BY <1>1, <1>8 DEF SentCountSound
  <1>16. TotalSound'
    <2>1. camp.total <= Cardinality(Present) /\ usnap[u] <= Cardinality(Present)
      BY TotalCounts DEF PresentInv
    <2>2. camp.total \in Nat
      BY DEF TypeOK, Campaigns
    <2>3. camp'.total <= Cardinality(Present')
      BY <1>3, <1>4, <1>7, <1>8, <2>1, <2>2
    <2> QED
      BY <2>3 DEF TotalSound, Present
  <1>17. OutcomeBacked'
    BY <1>1, <1>12 DEF OutcomeBacked, HasSentRow, Present
  <1> QED
    BY <1>9, <1>10, <1>11, <1>13, <1>14, <1>15, <1>16, <1>17

-----------------------------------------------------------------------------
\* A dispatch reads recipients that are there and tasks that have not begun.
LEMMA DispatchReadPreserves ==
    ASSUME IInv, DispatchRead
    PROVE  IInv'
  <1> USE DEF IInv, tables, tasks, hooks, ups
  <1> DEFINE found == IF camp.status = "running" THEN {r \in Recipients : rec[r] = "queued"} ELSE {}
  <1>1. /\ launches < MaxDispatches /\ launches' = launches + 1
        /\ wants' = [wants EXCEPT ![launches + 1] = found]
        /\ UNCHANGED <<tables, accepted, tasks, hooks, op, ups>>
    BY DEF DispatchRead
  <1>2. launches + 1 \in 1 .. MaxDispatches /\ launches \in Nat
    BY <1>1, BoundAssumption DEF TypeOK
  <1>3. found \subseteq Recipients /\ found \subseteq Present
    BY DEF Present
  <1> HIDE DEF found
  <1>4. TypeOK'
    BY <1>1, <1>2, <1>3 DEF TypeOK
  <1>5. ExecInv' /\ RecordedOnce' /\ OpInv'
    BY <1>1 DEF ExecInv, RecordedOnce, OpInv
  <1>6. DispatchInv'
    <2> SUFFICES ASSUME NEW q \in Recipients, NEW c \in 1 .. MaxDispatches
                 PROVE  /\ c > launches' => q \notin wants'[c]
                        /\ c > launches' \/ q \in wants'[c] => phase'[<<q, c>>] = "none"
      BY DEF DispatchInv
    <2>1. CASE c = launches + 1
      <3>1. phase[<<q, c>>] = "none"
        BY <1>2, <2>1 DEF DispatchInv
      <3> QED
        BY <1>1, <1>2, <2>1, <3>1
    <2>2. CASE c # launches + 1
      <3>1. wants'[c] = wants[c]
        BY <1>1, <2>2 DEF TypeOK
      <3>2. c > launches' => c > launches
        BY <1>1, <1>2
      <3> QED
        BY <1>1, <3>1, <3>2 DEF DispatchInv
    <2> QED
      BY <2>1, <2>2
  <1>7. Present' = Present
    BY <1>1 DEF Present
  <1>8. PresentInv'
    <2>1. \A d \in 1 .. MaxDispatches : wants'[d] \subseteq Present'
      BY <1>1, <1>2, <1>3, <1>7 DEF PresentInv, TypeOK
    <2> QED
      BY <1>1, <1>7, <2>1 DEF PresentInv
  <1>9. SentInv'
    BY <1>1 DEF SentInv, HasSentRow
  <1>10. ClearInv'
    BY <1>1 DEF ClearInv, Clear
  <1>11. SentCountSound' /\ TotalSound'
    BY <1>1 DEF SentCountSound, TotalSound
  <1>12. OutcomeBacked'
    BY <1>1 DEF OutcomeBacked, HasSentRow
  <1> QED
    BY <1>4, <1>5, <1>6, <1>8, <1>9, <1>10, <1>11, <1>12

\* A task is put into the queue once.
LEMMA EnqueuePreserves ==
    ASSUME IInv, NEW r \in Recipients, NEW d \in 1 .. MaxDispatches, Enqueue(r, d)
    PROVE  IInv'
  <1> USE DEF IInv, tables, hooks, ups
  <1> DEFINE t == <<r, d>>
  <1>1. /\ r \in wants[d] /\ wants' = [wants EXCEPT ![d] = @ \ {r}]
        /\ phase' = [phase EXCEPT ![t] = "queued"]
        /\ UNCHANGED <<tables, accepted, launches, exec, retries, crashes, tsnap,
                       doubtful, hooks, op, ups>>
    BY DEF Enqueue
  <1>2. t \in Tasks /\ phase[t] = "none" /\ ~(d > launches) /\ r \in Present
    BY <1>1 DEF Tasks, DispatchInv, PresentInv
  <1>3. TypeOK'
    BY <1>1, <1>2 DEF TypeOK
  <1>4. ExecInv'
    BY <1>1, <1>2 DEF ExecInv, Owed, Running, Locking, TypeOK
  <1>5. DispatchInv'
    <2> SUFFICES ASSUME NEW q \in Recipients, NEW c \in 1 .. MaxDispatches
                 PROVE  /\ c > launches' => q \notin wants'[c]
                        /\ c > launches' \/ q \in wants'[c] => phase'[<<q, c>>] = "none"
      BY DEF DispatchInv
    <2>1. wants'[c] \subseteq wants[c] /\ launches' = launches
      BY <1>1 DEF TypeOK
    <2>2. CASE q = r /\ c = d
      BY <1>1, <1>2, <2>1, <2>2 DEF TypeOK
    <2>3. CASE ~(q = r /\ c = d)
      <3>1. <<q, c>> \in Tasks /\ <<q, c>> # t
        BY <2>3 DEF Tasks
      <3>2. phase'[<<q, c>>] = phase[<<q, c>>]
        BY <1>1, <3>1 DEF TypeOK
      <3> QED
        BY <2>1, <3>2 DEF DispatchInv
    <2> QED
      BY <2>2, <2>3
  <1>6. Present' = Present
    BY <1>1 DEF Present
  <1>7. \A x \in Tasks : x # t => phase'[x] = phase[x]
    BY <1>1 DEF TypeOK
  <1>8. phase'[t] = "queued"
    BY <1>1, <1>2 DEF TypeOK
  <1>9. PresentInv'
    <2>1. \A c \in 1 .. MaxDispatches : wants'[c] \subseteq Present'
      BY <1>1, <1>6 DEF PresentInv, TypeOK
    <2>2. \A x \in Tasks : phase'[x] # "none" => x[1] \in Present'
      BY <1>2, <1>6, <1>7 DEF PresentInv
    <2> QED
      BY <1>1, <1>6, <2>1, <2>2 DEF PresentInv
  <1>10. SentInv'
    <2>1. \A e \in sentRows : e[1] \in Tasks /\ e[1] # t
      BY <1>2 DEF SentInv, TypeOK, Execs
    <2> QED
      BY <1>1, <1>7, <2>1 DEF SentInv, HasSentRow
  <1>11. RecordedOnce'
    BY <1>1 DEF RecordedOnce
  <1>12. ClearInv'
    <2>1. \A x \in Tasks : Clear(x)' = Clear(x)
      BY <1>1 DEF Clear
    <2>2. Spare("none") = Spare("queued")
      BY DEF Spare, Over, Ended
    <2>3. \A x \in Tasks : Spare(phase'[x]) = Spare(phase[x])
      BY <1>2, <1>7, <1>8, <2>2
    <2> QED
      BY <1>1, <1>2, <1>7, <1>8, <2>1, <2>3 DEF ClearInv
  <1>13. OpInv' /\ SentCountSound' /\ TotalSound'
    BY <1>1 DEF OpInv, SentCountSound, TotalSound
  <1>14. OutcomeBacked'
    BY <1>1 DEF OutcomeBacked, HasSentRow
  <1> QED
    BY <1>3, <1>4, <1>5, <1>9, <1>10, <1>11, <1>12, <1>13, <1>14

-----------------------------------------------------------------------------
\* What every step of a task has in common: its phase and its session.
TaskStep(t, p, c) ==
    /\ phase' = [phase EXCEPT ![t] = p] /\ tsnap' = [tsnap EXCEPT ![t] = c]
    /\ UNCHANGED <<dispatch, hooks, op, ups>>

\* It leaves the parts of the invariant alone that no commit is about.
LEMMA TaskFrame ==
    ASSUME IInv, NEW t \in Tasks, NEW p \in Phases \ {"none"}, NEW c \in Campaigns,
           TaskStep(t, p, c), phase[t] # "none", Present' = Present
    PROVE  /\ DispatchInv' /\ PresentInv' /\ OpInv'
           /\ phase' \in [Tasks -> Phases] /\ tsnap' \in [Tasks -> Campaigns]
           /\ phase'[t] = p /\ tsnap'[t] = c
           /\ \A x \in Tasks : x # t => phase'[x] = phase[x] /\ tsnap'[x] = tsnap[x]
  <1> USE DEF IInv, dispatch, hooks, ups
  <1>1. /\ phase \in [Tasks -> Phases] /\ tsnap \in [Tasks -> Campaigns]
        /\ phase' = [phase EXCEPT ![t] = p] /\ tsnap' = [tsnap EXCEPT ![t] = c]
        /\ UNCHANGED <<dispatch, hooks, op, ups>>
    BY DEF TaskStep, TypeOK, Phases
  <1>2. /\ phase' \in [Tasks -> Phases] /\ tsnap' \in [Tasks -> Campaigns]
        /\ phase'[t] = p /\ tsnap'[t] = c
        /\ \A x \in Tasks : x # t => phase'[x] = phase[x] /\ tsnap'[x] = tsnap[x]
    BY <1>1
  <1>3. DispatchInv'
    <2>1. \A r \in Recipients, d \in 1 .. MaxDispatches :
            phase[<<r, d>>] = "none" => phase'[<<r, d>>] = "none"
      BY <1>2 DEF Tasks
    <2> QED
      BY <1>1, <2>1 DEF DispatchInv
  <1>4. PresentInv'
    <2>1. \A x \in Tasks : phase'[x] # "none" => phase[x] # "none"
      BY <1>2
    <2> QED
      BY <1>1, <2>1 DEF PresentInv
  <1>5. OpInv'
    BY <1>1 DEF OpInv
  <1> QED
    BY <1>2, <1>3, <1>4, <1>5

\* The rows of a step that commits nothing.  A task begins to run only where
\* it has no message yet.
LEMMA QuietStep ==
    ASSUME IInv, NEW t \in Tasks, NEW p \in Phases \ {"none"},
           NEW c \in Campaigns, c.sent <= Cardinality(sentRows),
           TaskStep(t, p, c), phase[t] # "none", UNCHANGED tables,
           accepted \subseteq accepted',
           p \in Running => phase[t] \in Running \/ ~HasSentRow(t[1])
    PROVE  /\ DispatchInv' /\ PresentInv' /\ OpInv'
           /\ phase' \in [Tasks -> Phases] /\ tsnap' \in [Tasks -> Campaigns]
           /\ SentInv' /\ SentCountSound' /\ TotalSound' /\ OutcomeBacked' /\ RecordedOnce'
  <1> USE DEF IInv, tables, hooks
  <1>1. Present' = Present
    BY DEF Present
  <1>2. /\ DispatchInv' /\ PresentInv' /\ OpInv'
        /\ phase' \in [Tasks -> Phases] /\ tsnap' \in [Tasks -> Campaigns]
        /\ phase'[t] = p /\ tsnap'[t] = c
        /\ \A x \in Tasks : x # t => phase'[x] = phase[x] /\ tsnap'[x] = tsnap[x]
    BY <1>1, TaskFrame
  <1>3. UNCHANGED hooks
    BY DEF TaskStep
  <1>4. SentInv'
    <2>1. \A e \in sentRows : e[1] \in Tasks /\ (e[1] = t => p \notin Running)
      BY DEF SentInv, TypeOK, Execs, HasSentRow
    <2>2. \A x \in Tasks : tsnap'[x].sent <= Cardinality(sentRows)
      BY <1>2 DEF SentInv
    <2>3. \A e \in sentRows : phase'[e[1]] \notin Running \cup {"none"}
      BY <1>2, <2>1 DEF SentInv
    <2> QED
      BY <1>3, <2>2, <2>3 DEF SentInv, HasSentRow
  <1>5. SentCountSound' /\ TotalSound'
    BY DEF SentCountSound, TotalSound
  <1>6. OutcomeBacked' /\ RecordedOnce'
    BY DEF OutcomeBacked, HasSentRow, RecordedOnce
  <1> QED
    BY <1>2, <1>4, <1>5, <1>6

\* The executions of a task that Meta took are finitely many.
LEMMA ClearFinite ==
    ASSUME TypeOK, NEW t \in Tasks
    PROVE  IsFiniteSet(Clear(t)) /\ Cardinality(Clear(t)) \in Nat
  <1> DEFINE K == MaxRetries + MaxCrashes + 1
             Numbers == 1 .. K
  <1>1. K \in Int /\ 1 \in Int
    BY BoundAssumption
  <1> HIDE DEF K
  <1>2. IsFiniteSet({t}) /\ IsFiniteSet(Numbers)
    <2>1. IsFiniteSet({t})
      BY FS_Singleton
    <2>2. IsFiniteSet(1 .. K)
      BY <1>1, FS_Interval
    <2> QED
      BY <2>1, <2>2
  <1>3. IsFiniteSet({t} \X Numbers)
    BY <1>2, FS_Product
  <1>4. Clear(t) \in SUBSET ({t} \X Numbers)
    BY DEF Clear, TypeOK, Execs, K
  <1> QED
    BY <1>3, <1>4, FS_Subset, FS_CardinalityType

\* A step may add an execution that Meta took where it uses up the spare one or
\* loses a worker.
LEMMA ClearStep ==
    ASSUME IInv, TypeOK', NEW t \in Tasks, NEW p \in Phases,
           phase' = [phase EXCEPT ![t] = p],
           accepted \subseteq accepted', accepted' \subseteq accepted \cup {<<t, exec[t]>>},
           doubtful \subseteq doubtful', crashes <= crashes',
           \A x \in Tasks : x # t => exec'[x] = exec[x],
           p = "answered" => <<t, exec'[t]>> \in accepted',
           \/ /\ accepted' \ doubtful' \subseteq accepted
              /\ crashes + Spare(phase[t]) <= crashes' + Spare(p)
           \/ crashes + Spare(phase[t]) + 1 <= crashes' + Spare(p)
    PROVE  ClearInv'
  <1> USE DEF IInv
  <1>1. phase'[t] = p /\ \A x \in Tasks : x # t => phase'[x] = phase[x]
    BY DEF TypeOK
  <1>2. \A x \in Tasks : phase'[x] = "answered" => <<x, exec'[x]>> \in accepted'
    BY <1>1 DEF ClearInv
  <1>3. /\ crashes \in Nat /\ crashes' \in Nat
        /\ \A q : Spare(q) \in Nat
    BY BoundAssumption DEF TypeOK, Spare
  <1>4. ASSUME NEW x \in Tasks
        PROVE  Cardinality(Clear(x))' <= crashes' + Spare(phase'[x])
    <2>1. IsFiniteSet(Clear(x)) /\ Cardinality(Clear(x)) \in Nat
      BY ClearFinite
    <2> DEFINE S == Clear(x) \cup {<<t, exec[t]>>}
    <2>2. IsFiniteSet(S) /\ Cardinality(S) <= Cardinality(Clear(x)) + 1
      <3>1. /\ IsFiniteSet(S)
            /\ Cardinality(S) = IF <<t, exec[t]>> \in Clear(x) THEN Cardinality(Clear(x))
                                ELSE Cardinality(Clear(x)) + 1
        BY <2>1, FS_AddElement, Zenon
      <3> HIDE DEF S
      <3> QED
        BY <2>1, <3>1
    <2>3. Clear(x)' \in SUBSET S
      BY DEF Clear
    <2> HIDE DEF S
    <2>4. IsFiniteSet(Clear(x)') /\ Cardinality(Clear(x)') \in Nat
      BY <2>2, <2>3, FS_Subset, FS_CardinalityType
    <2>5. Cardinality(Clear(x)) <= crashes + Spare(phase[x])
      BY DEF ClearInv
    <2>6. ASSUME Clear(x)' \subseteq Clear(x) PROVE Cardinality(Clear(x)') <= Cardinality(Clear(x))
      BY <2>1, <2>6, FS_Subset
    <2>7. CASE x # t
      <3>1. Clear(x)' \subseteq Clear(x)
        BY <2>7 DEF Clear
      <3>2. phase'[x] = phase[x]
        BY <1>1, <2>7
      <3> QED
        BY <1>3, <2>1, <2>4, <2>5, <2>6, <3>1, <3>2
    <2>8. CASE x = t /\ accepted' \ doubtful' \subseteq accepted
                     /\ crashes + Spare(phase[t]) <= crashes' + Spare(p)
      <3>1. Clear(x)' \subseteq Clear(x)
        BY <2>8 DEF Clear
      <3> QED
        BY <1>1, <1>3, <2>1, <2>4, <2>5, <2>6, <2>8, <3>1
    <2>9. CASE x = t /\ crashes + Spare(phase[t]) + 1 <= crashes' + Spare(p)
      <3>1. Cardinality(Clear(x)') <= Cardinality(S) /\ Cardinality(S) \in Nat
        BY <2>2, <2>3, FS_Subset, FS_CardinalityType
      <3> QED
        BY <1>1, <1>3, <2>1, <2>4, <2>5, <2>9, <2>2, <3>1
    <2> QED
      BY <2>7, <2>8, <2>9
  <1> QED
    BY <1>2, <1>4 DEF ClearInv

\* What a step does to the number of the execution and to the retries.
RunStep(t, n, m) ==
    exec' = [exec EXCEPT ![t] = n] /\ retries' = [retries EXCEPT ![t] = m]

\* A new execution is paid for by a retry or by a lost worker.
LEMMA RunFrame ==
    ASSUME IInv, NEW t \in Tasks, NEW p \in Phases, phase' = [phase EXCEPT ![t] = p],
           NEW n \in Nat, NEW m \in 0 .. MaxRetries, RunStep(t, n, m),
           crashes' \in 0 .. MaxCrashes, crashes <= crashes',
           n + Owed(p) <= m + crashes' + 1, p \in Running => n >= 1
    PROVE  /\ ExecInv' /\ exec' \in [Tasks -> 0 .. MaxRetries + MaxCrashes + 1]
           /\ retries' \in [Tasks -> 0 .. MaxRetries]
           /\ exec'[t] = n /\ \A x \in Tasks : x # t => exec'[x] = exec[x]
  <1> USE BoundAssumption DEF IInv
  <1>1. /\ exec \in [Tasks -> 0 .. MaxRetries + MaxCrashes + 1]
        /\ retries \in [Tasks -> 0 .. MaxRetries]
        /\ phase \in [Tasks -> Phases] /\ crashes \in Nat
    BY DEF TypeOK, Phases
  <1>2. \A q : Owed(q) \in Nat
    BY DEF Owed
  <1>3. n \in 0 .. MaxRetries + MaxCrashes + 1
    BY <1>2
  <1>4. /\ exec' \in [Tasks -> 0 .. MaxRetries + MaxCrashes + 1]
        /\ retries' \in [Tasks -> 0 .. MaxRetries]
    BY <1>1, <1>3 DEF RunStep
  <1>5. /\ exec'[t] = n /\ retries'[t] = m /\ phase'[t] = p
        /\ \A x \in Tasks : x # t =>
            exec'[x] = exec[x] /\ retries'[x] = retries[x] /\ phase'[x] = phase[x]
    BY <1>1 DEF RunStep
  <1>6. ASSUME NEW x \in Tasks
        PROVE  /\ exec'[x] + Owed(phase'[x]) <= retries'[x] + crashes' + 1
               /\ phase'[x] \in Running => exec'[x] >= 1
    <2>1. CASE x = t
      BY <1>5, <2>1
    <2>2. CASE x # t
      <3>1. /\ exec[x] + Owed(phase[x]) <= retries[x] + crashes + 1
            /\ phase[x] \in Running => exec[x] >= 1
        BY DEF ExecInv
      <3>2. exec[x] \in Nat /\ retries[x] \in Nat /\ Owed(phase[x]) \in Nat
        BY <1>1, <1>2
      <3> QED
        BY <1>1, <1>5, <2>2, <3>1, <3>2
    <2> QED
      BY <2>1, <2>2
  <1> QED
    BY <1>4, <1>5, <1>6 DEF ExecInv

\* A step of a task that commits nothing.
LEMMA QuietPreserves ==
    ASSUME IInv, NEW t \in Tasks, NEW p \in Phases \ {"none"},
           NEW c \in {tsnap[t], NoCampaign, camp}, TaskStep(t, p, c),
           phase[t] # "none", UNCHANGED tables,
           p \in Running => phase[t] \in Running \/ ~HasSentRow(t[1]),
           NEW n \in Nat, NEW m \in 0 .. MaxRetries, RunStep(t, n, m),
           crashes' \in 0 .. MaxCrashes, crashes <= crashes',
           n + Owed(p) <= m + crashes' + 1, p \in Running => n >= 1,
           accepted \subseteq accepted', accepted' \subseteq accepted \cup {<<t, exec[t]>>},
           doubtful \subseteq doubtful', doubtful' \subseteq doubtful \cup {<<t, exec[t]>>},
           phase[t] \notin Running => accepted' = accepted /\ doubtful' = doubtful,
           p = "answered" => <<t, n>> \in accepted',
           \/ /\ accepted' \ doubtful' \subseteq accepted
              /\ crashes + Spare(phase[t]) <= crashes' + Spare(p)
           \/ crashes + Spare(phase[t]) + 1 <= crashes' + Spare(p)
    PROVE  IInv'
  <1> USE DEF IInv
  <1>1. c \in Campaigns /\ c.sent <= Cardinality(sentRows)
    <2>1. NoCampaign \in Campaigns /\ NoCampaign.sent = 0
      BY DEF NoCampaign, Campaigns, CampaignStatus
    <2>2. Cardinality(sentRows) \in Nat
      BY FS_CardinalityType DEF SentInv
    <2>3. 0 <= Cardinality(sentRows)
      BY <2>2
    <2> QED
      BY <2>1, <2>3 DEF SentInv, SentCountSound, TypeOK
  <1>2. /\ DispatchInv' /\ PresentInv' /\ OpInv'
        /\ phase' \in [Tasks -> Phases] /\ tsnap' \in [Tasks -> Campaigns]
        /\ SentInv' /\ SentCountSound' /\ TotalSound' /\ OutcomeBacked' /\ RecordedOnce'
    BY <1>1, QuietStep
  <1>3. phase' = [phase EXCEPT ![t] = p]
    BY DEF TaskStep
  <1>4. /\ ExecInv' /\ exec' \in [Tasks -> 0 .. MaxRetries + MaxCrashes + 1]
        /\ retries' \in [Tasks -> 0 .. MaxRetries]
        /\ exec'[t] = n /\ \A x \in Tasks : x # t => exec'[x] = exec[x]
    BY <1>3, RunFrame
  <1>5. TypeOK'
    <2>1. phase[t] \in Running => <<t, exec[t]>> \in Execs
      BY BoundAssumption DEF ExecInv, TypeOK, Execs
    <2>2. accepted' \subseteq Execs /\ doubtful' \subseteq Execs
      BY <2>1 DEF TypeOK
    <2>3. UNCHANGED <<camp, rec, sentRows, launches, wants, hook, hsnap, op, up, usnap>>
      BY DEF TaskStep, tables, dispatch, hooks, ups
    <2> QED
      BY <1>2, <1>4, <2>2, <2>3 DEF TypeOK, Phases
  <1>6. ClearInv'
    BY <1>3, <1>4, <1>5, ClearStep
  <1> QED
    BY <1>2, <1>4, <1>5, <1>6

\* What the steps below need of the task they belong to.
LEMMA TaskFacts ==
    ASSUME IInv, NEW t \in Tasks
    PROVE  /\ exec[t] \in Nat /\ retries[t] \in 0 .. MaxRetries
           /\ crashes \in 0 .. MaxCrashes /\ crashes \in Nat /\ phase[t] \in Phases
           /\ exec[t] + Owed(phase[t]) <= retries[t] + crashes + 1
           /\ phase[t] \in Running => exec[t] >= 1
           /\ exec = [exec EXCEPT ![t] = exec[t]] /\ retries = [retries EXCEPT ![t] = retries[t]]
           /\ tsnap = [tsnap EXCEPT ![t] = tsnap[t]] /\ phase = [phase EXCEPT ![t] = phase[t]]
  BY BoundAssumption DEF IInv, TypeOK, ExecInv, Phases

\* Which of the two counts the phases of a task have.
LEMMA PhaseCounts ==
    /\ \A p \in Running : Owed(p) = 0 /\ p \in Phases \ {"none"}
    /\ \A p \in Running \ {"answered"} : Spare(p) = 0
    /\ \A p \in Over \cup Ended :
        Owed(p) = 0 /\ Spare(p) = 1 /\ p \in Phases \ {"none"} /\ p \notin Running
    /\ Owed("queued") = 1 /\ Spare("queued") = 0 /\ Spare("answered") = 1
    /\ "queued" \in Phases \ {"none"} /\ "queued" \notin Running
    /\ \A p : Owed(p) \in 0 .. 1 /\ Spare(p) \in 0 .. 1
  BY DEF Running, Locking, Over, Ended, Owed, Spare, Phases

\* The steps of an execution up to the answer.
LEMMA ProgressPreserves ==
    ASSUME IInv, NEW t \in Tasks,
           LockRecipient(t) \/ Post(t) \/ RetryPost(t) \/ Answer(t) \/ Refused(t)
    PROVE  IInv'
  <1>1. TypeOK /\ phase \in [Tasks -> Phases]
    BY DEF IInv, TypeOK, Phases
  <1>2. PICK q \in {"locked", "posting", "answered", "refused"} :
            /\ phase' = [phase EXCEPT ![t] = q]
            /\ q \in Locking
            /\ phase[t] \in {"loaded", "locked", "posting"}
            /\ q = "answered" => phase[t] = "posting" /\ <<t, exec[t]>> \in accepted'
            /\ accepted' \ doubtful' \subseteq accepted \/ q = "answered"
    <2>1. CASE LockRecipient(t)
      BY <2>1 DEF LockRecipient, Locking
    <2>2. CASE Post(t)
      BY <2>2 DEF Post, Locking
    <2>3. CASE RetryPost(t)
      <3>1. phase' = [phase EXCEPT ![t] = "posting"]
        BY <2>3, TaskFacts DEF RetryPost
      <3> QED
        BY <2>3, <3>1 DEF RetryPost, Locking
    <2>4. CASE Answer(t)
      BY <2>4 DEF Answer, Locking
    <2>5. CASE Refused(t)
      BY <2>5 DEF Refused, Locking
    <2> QED
      BY <2>1, <2>2, <2>3, <2>4, <2>5
  <1>3. /\ UNCHANGED <<tables, dispatch, exec, retries, crashes, tsnap, hooks, op, ups>>
        /\ accepted \subseteq accepted' /\ accepted' \subseteq accepted \cup {<<t, exec[t]>>}
        /\ doubtful \subseteq doubtful' /\ doubtful' \subseteq doubtful \cup {<<t, exec[t]>>}
    <2>1. CASE LockRecipient(t) \/ Post(t) \/ Refused(t)
      BY <2>1 DEF LockRecipient, Post, Refused
    <2>2. CASE RetryPost(t)
      BY <2>2 DEF RetryPost
    <2>3. CASE Answer(t)
      BY <2>3 DEF Answer
    <2> QED
      BY <2>1, <2>2, <2>3
  <1>4. TaskStep(t, q, tsnap[t]) /\ RunStep(t, exec[t], retries[t])
    BY <1>2, <1>3, TaskFacts DEF TaskStep, RunStep
  <1>5. q \in Running /\ phase[t] \in Running \ {"answered"}
    BY <1>2 DEF Running, Locking
  <1>6. /\ Owed(q) = 0 /\ Owed(phase[t]) = 0 /\ Spare(phase[t]) = 0 /\ Spare(q) \in 0 .. 1
        /\ q \in Phases \ {"none"} /\ phase[t] # "none" /\ Spare("answered") = 1
    BY <1>5, PhaseCounts
  <1>7. /\ exec[t] \in Nat /\ retries[t] \in 0 .. MaxRetries
        /\ crashes' \in 0 .. MaxCrashes /\ crashes <= crashes'
        /\ exec[t] + Owed(q) <= retries[t] + crashes' + 1 /\ exec[t] >= 1
    BY <1>3, <1>5, <1>6, TaskFacts
  <1>8. \/ /\ accepted' \ doubtful' \subseteq accepted
           /\ crashes + Spare(phase[t]) <= crashes' + Spare(q)
        \/ crashes + Spare(phase[t]) + 1 <= crashes' + Spare(q)
    BY <1>2, <1>3, <1>6, TaskFacts
  <1> QED
    BY <1>2, <1>3, <1>4, <1>5, <1>6, <1>7, <1>8, QuietPreserves

\* A worker takes the task.
LEMMA LoadPreserves ==
    ASSUME IInv, NEW t \in Tasks, Load(t)
    PROVE  IInv'
  <1>1. /\ phase[t] = "queued" /\ exec' = [exec EXCEPT ![t] = exec[t] + 1]
        /\ UNCHANGED <<tables, accepted, dispatch, retries, crashes, doubtful, hooks, op, ups>>
    BY TaskFacts DEF Load
  <1>2. PICK q \in {"loaded", "returned"}, c \in {camp, NoCampaign} :
            /\ phase' = [phase EXCEPT ![t] = q] /\ tsnap' = [tsnap EXCEPT ![t] = c]
            /\ q = "loaded" => rec[t[1]] \in {"queued", "sending"}
    BY TaskFacts DEF Load, Finish
  <1>3. TaskStep(t, q, c) /\ RunStep(t, exec[t] + 1, retries[t])
    BY <1>1, <1>2, TaskFacts DEF TaskStep, RunStep
  <1>4. /\ Owed(q) = 0 /\ Owed("queued") = 1 /\ Spare("queued") = 0 /\ Spare(q) \in 0 .. 1
        /\ q \in Phases \ {"none"} /\ q # "answered"
        /\ phase[t] \notin Running /\ "returned" \notin Running
    <2>1. q \in Running \/ (q = "returned" /\ q \in Over)
      BY DEF Running, Over
    <2>2. "queued" \notin Running /\ "returned" \notin Running
      BY PhaseCounts DEF Over
    <2> QED
      BY <1>1, <2>1, <2>2, PhaseCounts
  <1>5. /\ exec[t] + 1 \in Nat /\ retries[t] \in 0 .. MaxRetries
        /\ crashes' \in 0 .. MaxCrashes /\ crashes <= crashes'
        /\ exec[t] + 1 + Owed(q) <= retries[t] + crashes' + 1 /\ exec[t] + 1 >= 1
    <2>1. exec[t] + 1 <= retries[t] + crashes + 1
      BY <1>1, <1>4, TaskFacts
    <2> QED
      BY <1>1, <1>4, <2>1, TaskFacts
  <1>6. crashes + Spare(phase[t]) <= crashes' + Spare(q)
    BY <1>1, <1>4, TaskFacts
  <1>7. q \in Running => ~HasSentRow(t[1])
    <2>1. q \in Running => rec[t[1]] = "queued"
      BY <1>2, <1>4 DEF IInv, TypeOK, RecipientStatus, Tasks
    <2> QED
      BY <2>1 DEF IInv, SentInv, HasSentRow
  <1> QED
    BY <1>1, <1>2, <1>3, <1>4, <1>5, <1>6, <1>7, QuietPreserves

\* An exception: the task goes back to the queue or is over.
LEMMA RaisedPreserves ==
    ASSUME IInv, NEW t \in Tasks,
           RateLimited(t) \/ \E exc \in Unretried : Raised(t, exc)
    PROVE  IInv'
  <1>1. /\ phase[t] \in Running
        /\ UNCHANGED <<tables, dispatch, exec, crashes, hooks, op, ups>>
        /\ tsnap' = [tsnap EXCEPT ![t] = NoCampaign]
    <2>1. CASE RateLimited(t)
      BY <2>1 DEF RateLimited, Finish, Running, Locking
    <2>2. CASE \E exc \in Unretried : Raised(t, exc)
      <3>1. \A exc \in Unretried : RaisedIn(exc) \subseteq Running
        BY DEF RaisedIn, Unretried, Running, Locking
      <3> QED
        BY <2>2, <3>1 DEF Raised, Finish
    <2> QED
      BY <2>1, <2>2
  <1> DEFINE Ends(q) ==
            /\ phase' = [phase EXCEPT ![t] = q]
            /\ retries' = [retries EXCEPT ![t] = retries[t] + Owed(q)]
            /\ retries[t] + Owed(q) \in 0 .. MaxRetries
            /\ q = "queued" => phase[t] # "answered" /\ accepted' \ doubtful' \subseteq accepted
            /\ accepted' = accepted \/ phase[t] = "posting"
  <1>2. PICK q \in {"queued", "raised"} : Ends(q)
    <2>1. /\ Owed("queued") = 1 /\ Owed("raised") = 0
          /\ retries[t] + 0 = retries[t] /\ retries[t] \in 0 .. MaxRetries
      BY PhaseCounts, TaskFacts, BoundAssumption DEF Over
    <2>2. CASE RateLimited(t) /\ retries[t] < MaxRetries
      <3>1. retries[t] + Owed("queued") \in 0 .. MaxRetries
        BY <2>1, <2>2, BoundAssumption
      <3>2. /\ phase' = [phase EXCEPT ![t] = "queued"]
            /\ retries' = [retries EXCEPT ![t] = retries[t] + Owed("queued")]
            /\ accepted' \ doubtful' \subseteq accepted /\ phase[t] # "answered"
            /\ accepted' = accepted \/ phase[t] = "posting"
        BY <2>1, <2>2 DEF RateLimited, Finish, TakenAfterAll
      <3> QED
        BY <3>1, <3>2
    <2>3. ASSUME phase' = [phase EXCEPT ![t] = "raised"], UNCHANGED retries,
                 accepted' = accepted \/ phase[t] = "posting"
          PROVE  \E q \in {"queued", "raised"} : Ends(q)
      <3>1. retries[t] + Owed("raised") \in 0 .. MaxRetries
        BY <2>1
      <3>2. retries' = [retries EXCEPT ![t] = retries[t] + Owed("raised")]
        BY <2>1, <2>3, TaskFacts
      <3> QED
        BY <2>3, <3>1, <3>2
    <2>4. CASE RateLimited(t) /\ ~(retries[t] < MaxRetries)
      <3>1. /\ phase' = [phase EXCEPT ![t] = "raised"] /\ UNCHANGED retries
            /\ accepted' = accepted \/ phase[t] = "posting"
        BY <2>4 DEF RateLimited, Finish, TakenAfterAll
      <3> QED
        BY <2>3, <3>1
    <2>5. ASSUME NEW exc \in Unretried, Raised(t, exc)
          PROVE  \E q \in {"queued", "raised"} : Ends(q)
      <3>1. exc = "KeyError" => RaisedIn(exc) = {"posting"}
        BY DEF RaisedIn
      <3>2. accepted' = accepted \/ phase[t] = "posting"
        BY <2>5, <3>1 DEF Raised, MayBeTaken, TakenAfterAll
      <3>3. phase' = [phase EXCEPT ![t] = "raised"] /\ UNCHANGED retries
        BY <2>5 DEF Raised, Finish
      <3> QED
        BY <2>3, <3>2, <3>3
    <2> QED
      BY <2>2, <2>4, <2>5
  <1>3. /\ accepted \subseteq accepted' /\ accepted' \subseteq accepted \cup {<<t, exec[t]>>}
        /\ doubtful \subseteq doubtful' /\ doubtful' \subseteq doubtful \cup {<<t, exec[t]>>}
    <2>1. CASE RateLimited(t)
      BY <2>1 DEF RateLimited, TakenAfterAll
    <2>2. CASE \E exc \in Unretried : Raised(t, exc)
      BY <2>2 DEF Raised, MayBeTaken, TakenAfterAll
    <2> QED
      BY <2>1, <2>2
  <1>4. TaskStep(t, q, NoCampaign) /\ RunStep(t, exec[t], retries[t] + Owed(q))
    BY <1>1, <1>2, TaskFacts DEF TaskStep, RunStep
  <1>5. /\ q \in Phases \ {"none"} /\ q \notin Running /\ q # "answered"
        /\ Owed(q) \in 0 .. 1 /\ Owed(phase[t]) = 0 /\ phase[t] # "none"
    <2>1. q \notin Running /\ "answered" \in Running
      BY PhaseCounts DEF Running, Locking, Over
    <2>2. "raised" \in Phases \ {"none"}
      BY PhaseCounts DEF Over
    <2> QED
      BY <1>1, <2>1, <2>2, PhaseCounts
  <1>6. \/ /\ accepted' \ doubtful' \subseteq accepted
           /\ crashes + Spare(phase[t]) <= crashes' + Spare(q)
        \/ crashes + Spare(phase[t]) + 1 <= crashes' + Spare(q)
    <2>1. Spare("raised") = 1 /\ Spare("queued") = 0 /\ Spare("posting") = 0 /\ Spare(phase[t]) \in 0 .. 1
      BY PhaseCounts DEF Running, Locking, Over
    <2>2. CASE q = "raised"
      BY <1>1, <1>2, <2>1, <2>2, TaskFacts
    <2>3. CASE q = "queued"
      <3>1. Spare(phase[t]) = 0
        BY <1>1, <1>2, <2>3, PhaseCounts
      <3> QED
        BY <1>1, <1>2, <2>1, <2>3, <3>1, TaskFacts
    <2> QED
      BY <1>2, <2>2, <2>3
  <1>7. /\ exec[t] \in Nat /\ crashes' \in 0 .. MaxCrashes /\ crashes <= crashes'
        /\ exec[t] + Owed(q) <= retries[t] + Owed(q) + crashes' + 1
    BY <1>1, <1>5, TaskFacts, BoundAssumption
  <1> QED
    BY <1>1, <1>2, <1>3, <1>4, <1>5, <1>6, <1>7, QuietPreserves

\* A lost worker: the task goes back to the queue.
LEMMA CrashPreserves ==
    ASSUME IInv, NEW t \in Tasks, Crash(t)
    PROVE  IInv'
  <1>1. /\ phase[t] \in Running \cup Over /\ crashes < MaxCrashes /\ crashes' = crashes + 1
        /\ phase' = [phase EXCEPT ![t] = "queued"]
        /\ tsnap' = [tsnap EXCEPT ![t] = NoCampaign]
        /\ UNCHANGED <<tables, dispatch, exec, retries, doubtful, hooks, op, ups>>
    BY DEF Crash, Finish
  <1>2. /\ accepted \subseteq accepted' /\ accepted' \subseteq accepted \cup {<<t, exec[t]>>}
        /\ accepted' = accepted \/ phase[t] = "posting"
        /\ phase[t] \notin Running => accepted' = accepted
    BY DEF Crash, Running, Locking
  <1>3. TaskStep(t, "queued", NoCampaign) /\ RunStep(t, exec[t], retries[t])
    BY <1>1, TaskFacts DEF TaskStep, RunStep
  <1>4. /\ "queued" \in Phases \ {"none"} /\ "queued" \notin Running /\ "queued" # "answered"
        /\ phase[t] # "none"
        /\ Owed("queued") = 1 /\ Owed(phase[t]) = 0
        /\ Spare("queued") = 0 /\ Spare("posting") = 0 /\ Spare(phase[t]) \in 0 .. 1
    BY <1>1, PhaseCounts DEF Locking, Running
  <1>5. /\ exec[t] \in Nat /\ retries[t] \in 0 .. MaxRetries
        /\ crashes' \in 0 .. MaxCrashes /\ crashes <= crashes'
        /\ exec[t] + Owed("queued") <= retries[t] + crashes' + 1
    BY <1>1, <1>4, TaskFacts, BoundAssumption
  <1>6. \/ /\ accepted' \ doubtful' \subseteq accepted
           /\ crashes + Spare(phase[t]) <= crashes' + Spare("queued")
        \/ crashes + Spare(phase[t]) + 1 <= crashes' + Spare("queued")
    BY <1>1, <1>2, <1>4, TaskFacts
  <1> QED
    BY <1>1, <1>2, <1>3, <1>4, <1>5, <1>6, QuietPreserves

\* The message of the task is acknowledged.
LEMMA AckPreserves ==
    ASSUME IInv, NEW t \in Tasks, Ack(t)
    PROVE  IInv'
  <1>1. PICK q \in Ended : phase' = [phase EXCEPT ![t] = q]
    BY DEF Ack, Ended
  <1>2. /\ phase[t] \in Over
        /\ UNCHANGED <<tables, accepted, dispatch, exec, retries, crashes, tsnap,
                       doubtful, hooks, op, ups>>
    BY DEF Ack
  <1>3. TaskStep(t, q, tsnap[t]) /\ RunStep(t, exec[t], retries[t])
    BY <1>1, <1>2, TaskFacts DEF TaskStep, RunStep
  <1>4. /\ q \in Phases \ {"none"} /\ q \notin Running /\ q # "answered" /\ Owed(q) = 0
        /\ Owed(phase[t]) = 0 /\ Spare(q) = 1 /\ Spare(phase[t]) = 1
        /\ phase[t] # "none" /\ phase[t] \notin Running
    BY <1>2, PhaseCounts DEF Ended
  <1>5. /\ exec[t] \in Nat /\ retries[t] \in 0 .. MaxRetries
        /\ crashes' \in 0 .. MaxCrashes /\ crashes <= crashes'
        /\ exec[t] + Owed(q) <= retries[t] + crashes' + 1
        /\ crashes + Spare(phase[t]) <= crashes' + Spare(q)
    BY <1>2, <1>4, TaskFacts
  <1> QED
    BY <1>2, <1>3, <1>4, <1>5, QuietPreserves

\* The part of a commit that the sent and the failed one share: the task is
\* over and its recipient, which was there, has a status.
LEMMA CommitFrame ==
    ASSUME IInv, NEW t \in Tasks, phase[t] \in {"answered", "refused"},
           NEW st \in {"sent", "failed"}, rec' = [rec EXCEPT ![t[1]] = st],
           Finish(t, "returned"),
           camp' \in Campaigns, camp'.total = camp.total,
           UNCHANGED <<accepted, dispatch, exec, retries, crashes, doubtful, hooks, op, ups>>,
           sentRows' \subseteq sentRows \cup {<<t, exec[t]>>}
    PROVE  /\ TypeOK' /\ ExecInv' /\ DispatchInv' /\ PresentInv' /\ ClearInv'
           /\ OpInv' /\ TotalSound'
           /\ phase'[t] = "returned" /\ tsnap'[t] = NoCampaign
           /\ \A x \in Tasks : x # t => phase'[x] = phase[x] /\ tsnap'[x] = tsnap[x]
           /\ rec'[t[1]] = st /\ t[1] \in Recipients
           /\ \A r \in Recipients : r # t[1] => rec'[r] = rec[r]
           /\ <<t, exec[t]>> \in Execs
  <1>1. t[1] \in Recipients /\ t[1] \in Present
    BY DEF IInv, PresentInv, Tasks
  <1>2. /\ rec'[t[1]] = st /\ \A r \in Recipients : r # t[1] => rec'[r] = rec[r]
        /\ rec' \in [Recipients -> RecipientStatus]
    BY <1>1 DEF IInv, TypeOK, RecipientStatus
  <1>3. Present' = Present
    BY <1>1, <1>2 DEF Present
  <1>4. /\ phase[t] \in Running /\ "returned" \in Phases \ {"none"} /\ "returned" \notin Running
        /\ Owed("returned") = 0 /\ Owed(phase[t]) = 0 /\ Spare("returned") = 1
        /\ Spare(phase[t]) \in 0 .. 1 /\ phase[t] # "none"
    <2>1. phase[t] \in Running
      BY DEF Running, Locking
    <2> QED
      BY <2>1, PhaseCounts DEF Over
  <1>5. NoCampaign \in Campaigns
    BY DEF NoCampaign, Campaigns, CampaignStatus
  <1>6. TaskStep(t, "returned", NoCampaign) /\ RunStep(t, exec[t], retries[t])
    BY TaskFacts DEF TaskStep, RunStep, Finish
  <1>7. /\ DispatchInv' /\ PresentInv' /\ OpInv'
        /\ phase' \in [Tasks -> Phases] /\ tsnap' \in [Tasks -> Campaigns]
        /\ phase'[t] = "returned" /\ tsnap'[t] = NoCampaign
        /\ \A x \in Tasks : x # t => phase'[x] = phase[x] /\ tsnap'[x] = tsnap[x]
    BY <1>3, <1>4, <1>5, <1>6, TaskFrame
  <1>8. /\ exec[t] \in Nat /\ retries[t] \in 0 .. MaxRetries
        /\ crashes' \in 0 .. MaxCrashes /\ crashes <= crashes'
        /\ exec[t] + Owed("returned") <= retries[t] + crashes' + 1
        /\ crashes + Spare(phase[t]) <= crashes' + Spare("returned")
    BY <1>4, TaskFacts
  <1>9. phase' = [phase EXCEPT ![t] = "returned"]
    BY DEF Finish
  <1>10. /\ ExecInv' /\ exec' \in [Tasks -> 0 .. MaxRetries + MaxCrashes + 1]
         /\ retries' \in [Tasks -> 0 .. MaxRetries]
    BY <1>4, <1>5, <1>6, <1>8, <1>9, RunFrame
  <1>11. <<t, exec[t]>> \in Execs
    BY <1>4, BoundAssumption DEF IInv, ExecInv, TypeOK, Execs
  <1>12. TypeOK'
    <2>1. sentRows' \subseteq Execs
      BY <1>11 DEF IInv, TypeOK
    <2>2. UNCHANGED <<accepted, doubtful, crashes, launches, wants, hook, hsnap, op, up, usnap>>
      BY DEF dispatch, hooks, ups
    <2> QED
      BY <1>2, <1>7, <1>10, <2>1, <2>2 DEF IInv, TypeOK, Phases
  <1>13. ClearInv'
    BY <1>4, <1>8, <1>9, <1>12, ClearStep
  <1>14. TotalSound'
    BY <1>3, TotalCounts DEF TotalSound, IInv, Present
  <1> QED
    BY <1>1, <1>2, <1>7, <1>10, <1>11, <1>12, <1>13, <1>14

\* A message that is committed as sent is a new one.
LEMMA CommitSentPreserves ==
    ASSUME IInv, NEW t \in Tasks, CommitSent(t)
    PROVE  IInv'
  <1> DEFINE e == <<t, exec[t]>>
  <1>1. /\ phase[t] = "answered" /\ sentRows' = sentRows \cup {e}
        /\ rec' = [rec EXCEPT ![t[1]] = "sent"] /\ Finish(t, "returned")
        /\ camp' = [camp EXCEPT !.sent = tsnap[t].sent + 1]
        /\ UNCHANGED <<accepted, dispatch, exec, retries, crashes, doubtful, hooks, op, ups>>
    BY DEF CommitSent
  <1>2. tsnap[t].sent \in Nat /\ tsnap[t].sent + 1 \in Nat
    BY DEF IInv, TypeOK, Campaigns
  <1>3. /\ camp' \in Campaigns /\ camp'.total = camp.total
        /\ camp'.sent = tsnap[t].sent + 1
    BY <1>1, <1>2 DEF IInv, TypeOK, Campaigns
  <1>4. /\ TypeOK' /\ ExecInv' /\ DispatchInv' /\ PresentInv' /\ ClearInv'
        /\ OpInv' /\ TotalSound'
        /\ phase'[t] = "returned" /\ tsnap'[t] = NoCampaign
        /\ \A x \in Tasks : x # t => phase'[x] = phase[x] /\ tsnap'[x] = tsnap[x]
        /\ rec'[t[1]] = "sent" /\ t[1] \in Recipients
        /\ \A r \in Recipients : r # t[1] => rec'[r] = rec[r]
    BY <1>1, <1>3, CommitFrame
  <1>5. /\ \A x \in sentRows : x[1] # t
        /\ e \notin sentRows /\ "returned" \notin Running \cup {"none"}
    <2>1. "answered" \in Running
      BY DEF Running, Locking
    <2>2. \A x \in sentRows : x[1] # t
      BY <1>1, <2>1 DEF IInv, SentInv
    <2> QED
      BY <2>2, PhaseCounts DEF Over
  <1>6. IsFiniteSet(sentRows) /\ Cardinality(sentRows) \in Nat
    BY FS_CardinalityType DEF IInv, SentInv
  <1>7. IsFiniteSet(sentRows') /\ Cardinality(sentRows') = Cardinality(sentRows) + 1
    BY <1>1, <1>5, <1>6, FS_AddElement
  <1>8. \A r : HasSentRow(r) => HasSentRow(r)'
    BY <1>1 DEF HasSentRow
  <1>9. SentInv'
    <2>1. ASSUME NEW x \in sentRows'
          PROVE  phase'[x[1]] \notin Running \cup {"none"} /\ rec'[x[1][1]] \notin {"absent", "queued"}
      <3>1. CASE x = e
        BY <1>4, <1>5, <3>1
      <3>2. CASE x \in sentRows
        <4>1. /\ phase[x[1]] \notin Running \cup {"none"} /\ rec[x[1][1]] \notin {"absent", "queued"}
              /\ x[1] \in Tasks /\ x[1][1] \in Recipients
          BY <3>2 DEF IInv, SentInv, TypeOK, Execs, Tasks
        <4> QED
          BY <1>4, <1>5, <3>2, <4>1
      <3> QED
        BY <1>1, <3>1, <3>2
    <2>2. \A h \in Hooks : hook'[h] = "flushing" => HasSentRow(h[1])'
      BY <1>1, <1>8 DEF IInv, SentInv, hooks
    <2>3. ASSUME NEW x \in Tasks PROVE tsnap'[x].sent <= Cardinality(sentRows')
      <3>1. tsnap[x].sent <= Cardinality(sentRows) /\ tsnap[x].sent \in Nat
        BY DEF IInv, SentInv, TypeOK, Campaigns
      <3>2. CASE x = t
        <4>1. tsnap'[x].sent = 0
          BY <1>4, <3>2 DEF NoCampaign
        <4> QED
          BY <1>6, <1>7, <4>1
      <3>3. CASE x # t
        BY <1>4, <1>6, <1>7, <3>1, <3>3
      <3> QED
        BY <3>2, <3>3
    <2> QED
      BY <1>7, <2>1, <2>2, <2>3 DEF SentInv
  <1>10. SentCountSound'
    <2>1. tsnap[t].sent <= Cardinality(sentRows)
      BY DEF IInv, SentInv
    <2> QED
      BY <1>2, <1>3, <1>6, <1>7, <2>1 DEF SentCountSound
  <1>11. OutcomeBacked'
    <2>1. HasSentRow(t[1])'
      <3>1. e \in sentRows' /\ e[1][1] = t[1]
        BY <1>1
      <3> HIDE DEF e
      <3> QED
        BY <3>1 DEF HasSentRow
    <2>2. e \in accepted
      BY <1>1 DEF IInv, ClearInv
    <2>3. sentRows' \subseteq accepted'
      BY <1>1, <2>2 DEF IInv, OutcomeBacked
    <2>4. \A r \in Recipients : rec'[r] \in {"sent", "delivered", "read"} => HasSentRow(r)'
      BY <1>4, <1>8, <2>1 DEF IInv, OutcomeBacked
    <2> QED
      BY <2>3, <2>4 DEF OutcomeBacked
  <1>12. RecordedOnce'
    <2> SUFFICES ASSUME NEW x \in sentRows', NEW y \in sentRows', x[1] = y[1]
                 PROVE  x = y
      BY DEF RecordedOnce
    <2>1. CASE x \in sentRows /\ y \in sentRows
      BY <2>1 DEF IInv, RecordedOnce
    <2>2. CASE x = e \/ y = e
      BY <1>1, <1>5, <2>2
    <2> QED
      BY <1>1, <2>1, <2>2
  <1> QED
    BY <1>4, <1>9, <1>10, <1>11, <1>12 DEF IInv

\* A refused message leaves no row.
LEMMA CommitFailedPreserves ==
    ASSUME IInv, NEW t \in Tasks, CommitFailed(t)
    PROVE  IInv'
  <1>1. /\ phase[t] = "refused" /\ sentRows' = sentRows
        /\ rec' = [rec EXCEPT ![t[1]] = "failed"] /\ Finish(t, "returned")
        /\ camp' = [camp EXCEPT !.failed = tsnap[t].failed + 1]
        /\ UNCHANGED <<accepted, dispatch, exec, retries, crashes, doubtful, hooks, op, ups>>
    BY DEF CommitFailed
  <1>2. tsnap[t].failed + 1 \in Nat
    BY DEF IInv, TypeOK, Campaigns
  <1>3. camp' \in Campaigns /\ camp'.total = camp.total /\ camp'.sent = camp.sent
    BY <1>1, <1>2 DEF IInv, TypeOK, Campaigns
  <1>4. /\ TypeOK' /\ ExecInv' /\ DispatchInv' /\ PresentInv' /\ ClearInv'
        /\ OpInv' /\ TotalSound'
        /\ phase'[t] = "returned" /\ tsnap'[t] = NoCampaign
        /\ \A x \in Tasks : x # t => phase'[x] = phase[x] /\ tsnap'[x] = tsnap[x]
        /\ rec'[t[1]] = "failed" /\ t[1] \in Recipients
        /\ \A r \in Recipients : r # t[1] => rec'[r] = rec[r]
    BY <1>1, <1>3, CommitFrame
  <1>5. SentInv'
    <2>1. ASSUME NEW x \in sentRows
          PROVE  phase'[x[1]] \notin Running \cup {"none"} /\ rec'[x[1][1]] \notin {"absent", "queued"}
      <3>1. /\ phase[x[1]] \notin Running \cup {"none"} /\ rec[x[1][1]] \notin {"absent", "queued"}
            /\ x[1] \in Tasks /\ x[1][1] \in Recipients
        BY DEF IInv, SentInv, TypeOK, Execs, Tasks
      <3>2. "returned" \notin Running \cup {"none"}
        BY PhaseCounts DEF Over
      <3> QED
        BY <1>4, <3>1, <3>2
    <2>2. ASSUME NEW x \in Tasks PROVE tsnap'[x].sent <= Cardinality(sentRows)
      <3>1. Cardinality(sentRows) \in Nat
        BY FS_CardinalityType DEF IInv, SentInv
      <3>2. NoCampaign.sent = 0 /\ 0 <= Cardinality(sentRows)
        BY <3>1 DEF NoCampaign
      <3> QED
        BY <1>4, <3>2 DEF IInv, SentInv
    <2> QED
      BY <1>1, <2>1, <2>2 DEF IInv, SentInv, HasSentRow, hooks
  <1>6. SentCountSound'
    BY <1>1, <1>3 DEF IInv, SentCountSound
  <1>7. OutcomeBacked' /\ RecordedOnce'
    BY <1>1, <1>4 DEF IInv, OutcomeBacked, HasSentRow, RecordedOnce
  <1> QED
    BY <1>4, <1>5, <1>6, <1>7 DEF IInv

-----------------------------------------------------------------------------
\* What a handler's session holds after it was closed.
LEMMA NothingLoadedType == NothingLoaded \in [camp : Campaigns, rec : RecipientStatus]
  BY DEF NothingLoaded, NoCampaign, Campaigns, CampaignStatus, RecipientStatus

\* A step of a webhook handler that writes no row.
LEMMA HookStep ==
    ASSUME IInv, hook' \in [Hooks -> {"idle", "loaded", "flushing", "done"}],
           hsnap' \in [Hooks -> [camp : Campaigns, rec : RecipientStatus]],
           \A h \in Hooks : hook'[h] = "flushing" => HasSentRow(h[1]),
           UNCHANGED <<tables, accepted, dispatch, tasks, op, ups>>
    PROVE  IInv'
  <1> USE DEF IInv, tables, dispatch, tasks, ups
  <1>1. TypeOK'
    BY DEF TypeOK
  <1>2. ExecInv' /\ DispatchInv' /\ RecordedOnce' /\ OpInv'
    BY DEF ExecInv, DispatchInv, RecordedOnce, OpInv
  <1>3. Present' = Present
    BY DEF Present
  <1>4. PresentInv'
    BY <1>3 DEF PresentInv
  <1>5. SentInv'
    BY DEF SentInv, HasSentRow
  <1>6. ClearInv'
    BY DEF ClearInv, Clear
  <1>7. SentCountSound' /\ TotalSound'
    BY DEF SentCountSound, TotalSound
  <1>8. OutcomeBacked'
    BY DEF OutcomeBacked, HasSentRow
  <1> QED
    BY <1>1, <1>2, <1>4, <1>5, <1>6, <1>7, <1>8

\* A handler loads, drops its report, locks the campaign's row or is aborted.
LEMMA HookPreserves ==
    ASSUME IInv, NEW r \in Recipients, NEW s \in Reports,
           ReportLoad(r, s) \/ ReportDropped(r, s) \/ ReportFlush(r, s) \/ ReportAborted(r, s)
    PROVE  IInv'
  <1> DEFINE h == <<r, s>>
  <1>1. /\ TypeOK /\ h \in Hooks
        /\ \A g \in Hooks : hook[g] = "flushing" => HasSentRow(g[1])
    BY DEF IInv, SentInv, Hooks
  <1>2. CASE ReportLoad(r, s)
    <2>1. /\ hook' = [hook EXCEPT ![h] = "loaded"]
          /\ hsnap' = [hsnap EXCEPT ![h] = [camp |-> camp, rec |-> rec[r]]]
          /\ UNCHANGED <<tables, accepted, dispatch, tasks, op, ups>>
      BY <1>2 DEF ReportLoad
    <2>2. [camp |-> camp, rec |-> rec[r]] \in [camp : Campaigns, rec : RecipientStatus]
      BY <1>1 DEF TypeOK
    <2> HIDE DEF h
    <2>3. /\ hook' \in [Hooks -> {"idle", "loaded", "flushing", "done"}]
          /\ hsnap' \in [Hooks -> [camp : Campaigns, rec : RecipientStatus]]
          /\ \A g \in Hooks : hook'[g] = "flushing" => HasSentRow(g[1])
      BY <1>1, <2>1, <2>2 DEF TypeOK
    <2> QED
      BY <2>1, <2>3, HookStep
  <1>3. CASE ReportFlush(r, s)
    <2>1. /\ HasSentRow(h[1]) /\ hook' = [hook EXCEPT ![h] = "flushing"]
          /\ UNCHANGED <<hsnap, tables, accepted, dispatch, tasks, op, ups>>
      BY <1>3 DEF ReportFlush
    <2> HIDE DEF h
    <2>2. /\ hook' \in [Hooks -> {"idle", "loaded", "flushing", "done"}]
          /\ hsnap' \in [Hooks -> [camp : Campaigns, rec : RecipientStatus]]
          /\ \A g \in Hooks : hook'[g] = "flushing" => HasSentRow(g[1])
      BY <1>1, <2>1 DEF TypeOK
    <2> QED
      BY <2>1, <2>2, HookStep
  <1>4. CASE ReportAborted(r, s) \/ ReportDropped(r, s)
    <2>1. PICK w \in {"idle", "done"} :
              /\ hook' = [hook EXCEPT ![h] = w]
              /\ hsnap' = [hsnap EXCEPT ![h] = NothingLoaded]
              /\ UNCHANGED <<tables, accepted, dispatch, tasks, op, ups>>
      BY <1>4 DEF ReportAborted, ReportDropped
    <2> HIDE DEF h
    <2>2. /\ hook' \in [Hooks -> {"idle", "loaded", "flushing", "done"}]
          /\ hsnap' \in [Hooks -> [camp : Campaigns, rec : RecipientStatus]]
          /\ \A g \in Hooks : hook'[g] = "flushing" => HasSentRow(g[1])
      BY <1>1, <2>1, NothingLoadedType DEF TypeOK
    <2> QED
      BY <2>1, <2>2, HookStep
  <1> QED
    BY <1>2, <1>3, <1>4

\* Counting a report changes none but its counter.
LEMMA CountedKeeps ==
    ASSUME NEW snap \in [camp : Campaigns, rec : RecipientStatus], NEW s
    PROVE  /\ Counted(snap, s) \in Campaigns
           /\ Counted(snap, s).status = snap.camp.status
  <1>1. snap.camp \in Campaigns
    OBVIOUS
  <1>2. PICK c \in Campaigns : c = snap.camp
    BY <1>1
  <1>3. /\ c.delivered + 1 \in Nat /\ c.read + 1 \in Nat /\ c.failed + 1 \in Nat
    BY DEF Campaigns
  <1>4. /\ [c EXCEPT !.delivered = @ + 1] \in Campaigns
        /\ [c EXCEPT !.delivered = @ + 1].status = c.status
    BY <1>3 DEF Campaigns
  <1>5. [c EXCEPT !.read = @ + 1] \in Campaigns /\ [c EXCEPT !.read = @ + 1].status = c.status
    BY <1>3 DEF Campaigns
  <1>6. [c EXCEPT !.failed = @ + 1] \in Campaigns /\ [c EXCEPT !.failed = @ + 1].status = c.status
    BY <1>3 DEF Campaigns
  <1> QED
    BY <1>2, <1>4, <1>5, <1>6 DEF Counted

\* The commit of a handler leaves the total and the sent count alone, and a
\* recipient that has a committed message.
LEMMA ReportCommitPreserves ==
    ASSUME IInv, NEW r \in Recipients, NEW s \in Reports, ReportCommit(r, s)
    PROVE  IInv'
  <1> USE DEF IInv
  <1> DEFINE h == <<r, s>>
             new == Counted(hsnap[h], s)
             old == hsnap[h].camp
             nd == Column("delivered", new, old)
             nr == Column("read", new, old)
             nf == Column("failed", new, old)
             ns == IF Completes(new) THEN "completed" ELSE camp.status
  <1>1. /\ hook[h] \in {"flushing", "loaded"}
        /\ rec' = IF hsnap[h].rec # s THEN [rec EXCEPT ![r] = s] ELSE rec
        /\ camp' = [camp EXCEPT !.delivered = nd, !.read = nr, !.failed = nf, !.status = ns]
        /\ hook' = [hook EXCEPT ![h] = "done"]
        /\ hsnap' = [hsnap EXCEPT ![h] = NothingLoaded]
        /\ UNCHANGED <<sentRows, accepted, dispatch, tasks, op, ups>>
    BY DEF ReportCommit
  <1>2. h \in Hooks /\ hsnap[h] \in [camp : Campaigns, rec : RecipientStatus]
    BY DEF Hooks, TypeOK
  <1>3. new \in Campaigns /\ camp \in Campaigns
    BY <1>2, CountedKeeps DEF TypeOK
  <1>4. nd \in Nat /\ nr \in Nat /\ nf \in Nat /\ ns \in CampaignStatus
    BY <1>3 DEF Column, Campaigns, CampaignStatus
  <1>5. HasSentRow(r)
    BY DEF ReportCommit
  <1>6. rec[r] # "absent"
    BY <1>5 DEF HasSentRow, SentInv
  <1> HIDE DEF h, new, old, nd, nr, nf, ns
  <1>7. camp' \in Campaigns /\ camp'.total = camp.total /\ camp'.sent = camp.sent
    BY <1>1, <1>3, <1>4 DEF Campaigns
  <1>8. s \in {"sent", "delivered", "read", "failed"}
    BY OpsAssumption
  <1>9. /\ rec' \in [Recipients -> RecipientStatus]
        /\ \A q \in Recipients : rec'[q] = rec[q] \/ (q = r /\ rec'[q] = s)
    BY <1>1, <1>8 DEF TypeOK, RecipientStatus
  <1>10. Present' = Present
    BY <1>6, <1>8, <1>9 DEF Present
  <1>11. /\ hook' \in [Hooks -> {"idle", "loaded", "flushing", "done"}]
         /\ hsnap' \in [Hooks -> [camp : Campaigns, rec : RecipientStatus]]
    BY <1>1, <1>2, NothingLoadedType DEF TypeOK
  <1>12. TypeOK'
    BY <1>1, <1>7, <1>9, <1>11 DEF TypeOK, dispatch, tasks, ups
  <1>13. ExecInv' /\ DispatchInv' /\ RecordedOnce' /\ OpInv'
    BY <1>1 DEF ExecInv, DispatchInv, RecordedOnce, OpInv, dispatch, tasks
  <1>14. PresentInv'
    BY <1>1, <1>10 DEF PresentInv, dispatch, tasks, ups
  <1>15. SentInv'
    <2>1. \A x \in sentRows : x[1][1] \in Recipients
      BY DEF TypeOK, Execs, Tasks
    <2>2. \A x \in sentRows : rec'[x[1][1]] \notin {"absent", "queued"}
      BY <1>8, <1>9, <2>1 DEF SentInv
    <2>3. \A g \in Hooks : hook'[g] = "flushing" => HasSentRow(g[1])
      BY <1>1, <1>2 DEF SentInv, TypeOK
    <2> QED
      BY <1>1, <2>2, <2>3 DEF SentInv, HasSentRow, tasks
  <1>16. ClearInv'
    BY <1>1 DEF ClearInv, Clear, tasks
  <1>17. SentCountSound'
    BY <1>1, <1>7 DEF SentCountSound
  <1>18. TotalSound'
    BY <1>7, <1>10, TotalCounts DEF TotalSound, Present
  <1>19. OutcomeBacked'
    BY <1>1, <1>5, <1>9 DEF OutcomeBacked, HasSentRow
  <1> QED
    BY <1>12, <1>13, <1>14, <1>15, <1>16, <1>17, <1>18, <1>19

-----------------------------------------------------------------------------
\* A step that changes nothing.
LEMMA StutterPreserves == ASSUME IInv, UNCHANGED vars PROVE IInv'
  <1>1. /\ UNCHANGED <<tables, accepted, dispatch, tasks, op, ups>> /\ UNCHANGED <<hook, hsnap>>
    BY DEF vars, hooks
  <1>2. /\ hook' \in [Hooks -> {"idle", "loaded", "flushing", "done"}]
        /\ hsnap' \in [Hooks -> [camp : Campaigns, rec : RecipientStatus]]
        /\ \A h \in Hooks : hook'[h] = "flushing" => HasSentRow(h[1])
    BY <1>1 DEF IInv, TypeOK, SentInv
  <1> QED
    BY <1>1, <1>2, HookStep

\* The invariant holds in every reachable state: every operation of the
\* campaign, every step of a task and of a handler preserves it.
THEOREM Invariant == Spec => []IInv
  <1>1. ASSUME IInv, [Next]_vars PROVE IInv'
    <2>1. CASE Create \/ WorkerStackStart \/ \E o \in LifecycleOps : OpLoad(o) \/ OpCommit(o)
      BY <1>1, <2>1, LifecyclePreserves
    <2>2. CASE \E u \in Uploads : UploadLoad(u) \/ UploadCommit(u)
      BY <1>1, <2>2, UploadLoadPreserves, UploadCommitPreserves
    <2>3. CASE DispatchRead \/ \E r \in Recipients, d \in 1 .. MaxDispatches : Enqueue(r, d)
      BY <1>1, <2>3, DispatchReadPreserves, EnqueuePreserves
    <2>4. CASE \E t \in Tasks : Execute(t) \/ Crash(t)
      BY <1>1, <2>4, LoadPreserves, ProgressPreserves, CommitSentPreserves, CommitFailedPreserves,
         RaisedPreserves, AckPreserves, CrashPreserves DEF Execute
    <2>5. CASE \E r \in Recipients, s \in Reports : Report(r, s)
      BY <1>1, <2>5, HookPreserves, ReportCommitPreserves DEF Report
    <2>6. CASE UNCHANGED vars
      BY <1>1, <2>6, StutterPreserves
    <2> QED
      BY <1>1, <2>1, <2>2, <2>3, <2>4, <2>5, <2>6 DEF Next
  <1> QED
    BY <1>1, InitIInv, PTL DEF Spec

\* Every variable keeps its type; in particular no task runs more often than
\* its retries and the lost workers allow.
THEOREM TypeCorrect == Spec => []TypeOK
  BY Invariant, PTL DEF IInv

\* However many tasks overlap and overwrite each other's increments, sent_count
\* is within the messages committed as sent.
THEOREM SentCountIsSound == Spec => []SentCountSound
  BY Invariant, PTL DEF IInv

\* However many uploads overlap, total_recipients is within the recipients.
THEOREM TotalIsSound == Spec => []TotalSound
  BY Invariant, PTL DEF IInv

\* A recipient shown as sent, delivered or read has a committed message that
\* Meta took.
THEOREM OutcomesAreBacked == Spec => []OutcomeBacked
  BY Invariant, PTL DEF IInv

\* However often Celery runs a task again, after a lost worker that had already
\* committed included, it commits one message at most.
THEOREM RecordsOnce == Spec => []RecordedOnce
  BY Invariant, PTL DEF IInv

\* The executions of one task of which Meta surely took the message, no answer
\* having been a timeout or a 5xx, are at most one more than the workers lost:
\* Celery's own retries follow none of them.
THEOREM DuplicatesAreBounded == Spec => []DuplicatesNeedCrashes
  <1>1. IInv => DuplicatesNeedCrashes
    <2> SUFFICES ASSUME IInv, NEW t \in Tasks
                 PROVE  Cardinality({e \in accepted \ doubtful : e[1] = t}) <= 1 + crashes
      BY DEF DuplicatesNeedCrashes
    <2>1. Cardinality(Clear(t)) \in Nat /\ Cardinality(Clear(t)) <= crashes + Spare(phase[t])
      BY ClearFinite DEF IInv, ClearInv
    <2>2. Spare(phase[t]) \in 0 .. 1 /\ crashes \in Nat
      BY PhaseCounts, TaskFacts
    <2>3. Cardinality(Clear(t)) <= 1 + crashes
      BY <2>1, <2>2
    <2> QED
      BY <2>3 DEF Clear
  <1> QED
    BY <1>1, Invariant, PTL

\* A webhook handler and a task wait for each other only where another task of
\* the same recipient has sent before.
THEOREM WaitCyclesNeedDuplicates == Spec => []WaitCycleNeedsDuplicate
  <1>1. IInv => WaitCycleNeedsDuplicate
    <2> SUFFICES ASSUME IInv, NEW r \in Recipients, NEW s \in Reports, NEW t \in Tasks,
                        WaitCycle(r, s, t)
                 PROVE  \E e \in sentRows : e[1] # t /\ e[1][1] = r
      BY DEF WaitCycleNeedsDuplicate
    <2> DEFINE h == <<r, s>>
    <2>1. h \in Hooks /\ hook[h] = "flushing" /\ h[1] = r
      BY DEF Hooks, WaitCycle
    <2>2. HasSentRow(r)
      BY <2>1 DEF IInv, SentInv
    <2>3. PICK e \in sentRows : e[1][1] = r
      BY <2>2 DEF HasSentRow
    <2>4. phase[e[1]] \notin Running /\ phase[t] \in Running
      BY DEF IInv, SentInv, WaitCycle, Running, Locking
    <2> QED
      BY <2>3, <2>4
  <1> QED
    BY <1>1, Invariant, PTL

-----------------------------------------------------------------------------
\* Only Load makes a task that is in the queue run.
LEMMA LoadedByLoad ==
    ASSUME IInv, [Next]_vars, NEW t \in Tasks, phase[t] = "queued", phase'[t] = "loaded"
    PROVE  Load(t)
  <1>1. phase \in [Tasks -> Phases]
    BY DEF IInv, TypeOK, Phases
  <1>2. ASSUME NEW x, NEW p \in {"queued", "locked", "posting", "answered", "refused",
                            "returned", "raised", "done", "dead"},
               phase' = [phase EXCEPT ![x] = p]
        PROVE  FALSE
    BY <1>1, <1>2
  <1>3. phase' # phase
    OBVIOUS
  <1>4. CASE Create \/ WorkerStackStart \/ DispatchRead
    BY <1>3, <1>4 DEF Create, WorkerStackStart, DispatchRead, tasks
  <1>5. CASE \E u \in Uploads : UploadLoad(u) \/ UploadCommit(u)
    BY <1>3, <1>5 DEF UploadLoad, UploadCommit, tasks
  <1>6. CASE \E o \in LifecycleOps : OpLoad(o) \/ OpCommit(o)
    BY <1>3, <1>6 DEF OpLoad, OpCommit, tasks
  <1>7. CASE \E r \in Recipients, d \in 1 .. MaxDispatches : Enqueue(r, d)
    BY <1>2, <1>7 DEF Enqueue
  <1>8. ASSUME NEW x \in Tasks, Execute(x) \/ Crash(x) PROVE Load(t)
    <2>1. CASE Load(x)
      <3>1. \A y \in Tasks : y # x => phase'[y] = phase[y]
        BY <1>1, <2>1 DEF Load, Finish
      <3>2. t = x
        BY <3>1
      <3> QED
        BY <2>1, <3>2
    <2>2. CASE LockRecipient(x) \/ Post(x) \/ Answer(x) \/ Refused(x) \/ Ack(x)
      BY <1>2, <2>2 DEF LockRecipient, Post, Answer, Refused, Ack
    <2>3. CASE RetryPost(x)
      BY <1>3, <2>3 DEF RetryPost
    <2>4. CASE CommitSent(x) \/ CommitFailed(x) \/ RateLimited(x) \/ Crash(x)
      BY <1>2, <2>4 DEF CommitSent, CommitFailed, RateLimited, Crash, Finish
    <2>5. CASE \E exc \in Unretried : Raised(x, exc)
      BY <1>2, <2>5 DEF Raised, Finish
    <2> QED
      BY <1>8, <2>1, <2>2, <2>3, <2>4, <2>5 DEF Execute
  <1>9. CASE \E r \in Recipients, s \in Reports : Report(r, s)
    BY <1>3, <1>9 DEF Report, ReportLoad, ReportDropped, ReportFlush, ReportCommit, ReportAborted, tasks
  <1>10. CASE UNCHANGED vars
    BY <1>3, <1>10 DEF vars, tasks
  <1> QED
    BY <1>4, <1>5, <1>6, <1>7, <1>8, <1>9, <1>10 DEF Next

\* A task that starts after the recipient's message was committed skips it,
\* whatever Meta has reported since: no report leads back to queued.
THEOREM SkipsSent == Spec => SkipsWhatWasSent
  <1> DEFINE A == \A t \in Tasks :
                    phase[t] = "queued" /\ phase'[t] = "loaded" => ~HasSentRow(t[1])
  <1>1. ASSUME IInv, [Next]_vars PROVE A
    <2> SUFFICES ASSUME NEW t \in Tasks, phase[t] = "queued", phase'[t] = "loaded"
                 PROVE  ~HasSentRow(t[1])
      OBVIOUS
    <2>1. Load(t)
      BY <1>1, LoadedByLoad
    <2>2. rec[t[1]] \in {"queued", "sending"}
      BY <1>1, <2>1 DEF Load, Finish, IInv, TypeOK
    <2>3. rec[t[1]] = "queued"
      BY <1>1, <2>2 DEF IInv, TypeOK, RecipientStatus, Tasks
    <2> QED
      BY <1>1, <2>3 DEF IInv, SentInv, HasSentRow
  <1>2. ASSUME IInv, [Next]_vars PROVE [A]_vars
    BY <1>1, <1>2
  <1> HIDE DEF A
  <1>3. Spec => [][A]_vars
    BY <1>2, Invariant, PTL DEF Spec
  <1> QED
    BY <1>3 DEF A, SkipsWhatWasSent

\* The steps that change the status of a campaign that has ended.
LEMMA EndedStep ==
    ASSUME IInv, Next, camp.status \in {"completed", "cancelled"}, camp'.status # camp.status
    PROVE  /\ camp'.status \in {"paused", "completed", "cancelled"}
           /\ \/ \E o \in LifecycleOps :
                   op'[o] # op[o] /\ op[o] \notin {"idle", "completed", "cancelled"}
              \/ \E h \in Hooks : hook'[h] # hook[h] /\ hsnap[h].camp.status = "running"
  <1>1. camp \in Campaigns
    BY DEF IInv, TypeOK
  <1>2. camp' # camp
    OBVIOUS
  <1>3. ASSUME NEW v \in Nat PROVE /\ [camp EXCEPT !.total = v].status = camp.status
                                   /\ [camp EXCEPT !.sent = v].status = camp.status
                                   /\ [camp EXCEPT !.failed = v].status = camp.status
    BY <1>1 DEF Campaigns
  <1>4. ~(Create \/ WorkerStackStart)
    BY DEF Create, WorkerStackStart, CanStart
  <1>5. ASSUME NEW u \in Uploads, UploadLoad(u) \/ UploadCommit(u) PROVE FALSE
    <2>1. usnap[u] + Cardinality(Batch[u]) \in Nat
      BY BatchAssumption, FS_CardinalityType DEF IInv, TypeOK
    <2> QED
      BY <1>2, <1>3, <1>5, <2>1 DEF UploadLoad, UploadCommit, tables
  <1>6. ASSUME NEW o \in LifecycleOps, OpLoad(o) \/ OpCommit(o)
        PROVE  /\ camp'.status \in {"paused", "completed", "cancelled"}
               /\ op'[o] # op[o] /\ op[o] \notin {"idle", "completed", "cancelled"}
    <2>1. OpCommit(o)
      BY <1>2, <1>6 DEF OpLoad, tables
    <2>2. camp' = [camp EXCEPT !.status = IF o = "pause" THEN "paused" ELSE "cancelled"]
      BY <2>1 DEF OpCommit
    <2>3. camp'.status \in {"paused", "cancelled"}
      BY <1>1, <2>2 DEF Campaigns
    <2>4. op[o] \notin {"idle", "done"} /\ op'[o] = "done"
      BY <2>1 DEF OpCommit, IInv, TypeOK
    <2> QED
      BY <2>3, <2>4 DEF IInv, OpInv
  <1>7. ~(DispatchRead \/ \E r \in Recipients, d \in 1 .. MaxDispatches : Enqueue(r, d))
    BY <1>2 DEF DispatchRead, Enqueue, tables
  <1>8. ASSUME NEW t \in Tasks, Execute(t) \/ Crash(t) PROVE FALSE
    <2>1. tsnap[t].sent + 1 \in Nat /\ tsnap[t].failed + 1 \in Nat
      BY DEF IInv, TypeOK, Campaigns
    <2>2. ~CommitSent(t)
      BY <1>3, <2>1 DEF CommitSent
    <2>3. ~CommitFailed(t)
      BY <1>3, <2>1 DEF CommitFailed
    <2>4. ~(Load(t) \/ LockRecipient(t) \/ Post(t) \/ RetryPost(t) \/ Answer(t) \/ Refused(t) \/ Ack(t))
      BY <1>2 DEF Load, LockRecipient, Post, RetryPost, Answer, Refused, Ack, tables
    <2>5. ~(RateLimited(t) \/ Crash(t) \/ \E exc \in Unretried : Raised(t, exc))
      BY <1>2 DEF RateLimited, Crash, Raised, tables
    <2> QED
      BY <1>8, <2>2, <2>3, <2>4, <2>5 DEF Execute
  <1>9. ASSUME NEW r \in Recipients, NEW s \in Reports, Report(r, s)
        PROVE  /\ camp'.status \in {"paused", "completed", "cancelled"}
               /\ \E h \in Hooks : hook'[h] # hook[h] /\ hsnap[h].camp.status = "running"
    <2>1. ReportCommit(r, s)
      BY <1>2, <1>9 DEF Report, ReportLoad, ReportDropped, ReportFlush, ReportAborted, tables
    <2> DEFINE h == <<r, s>>
               new == Counted(hsnap[h], s)
               nd == Column("delivered", new, hsnap[h].camp)
               nr == Column("read", new, hsnap[h].camp)
               nf == Column("failed", new, hsnap[h].camp)
               ns == IF Completes(new) THEN "completed" ELSE camp.status
    <2>2. /\ hook[h] \in {"flushing", "loaded"} /\ hook' = [hook EXCEPT ![h] = "done"]
          /\ camp' = [camp EXCEPT !.delivered = nd, !.read = nr, !.failed = nf, !.status = ns]
      BY <2>1 DEF ReportCommit
    <2>3. h \in Hooks /\ hsnap[h] \in [camp : Campaigns, rec : RecipientStatus]
      BY DEF Hooks, IInv, TypeOK
    <2>4. new.status = hsnap[h].camp.status
      BY <2>3, CountedKeeps
    <2>5. hook'[h] # hook[h]
      BY <2>2, <2>3 DEF IInv, TypeOK
    <2> HIDE DEF h, new, nd, nr, nf
    <2>6. camp'.status = ns
      BY <1>1, <2>2 DEF Campaigns
    <2>7. Completes(new)
      BY <2>6
    <2>8. new.status = "running" /\ camp'.status = "completed"
      BY <2>6, <2>7 DEF Completes
    <2> QED
      BY <2>3, <2>4, <2>5, <2>8
  <1>10. CASE \E o \in LifecycleOps : OpLoad(o) \/ OpCommit(o)
    BY <1>6, <1>10
  <1>11. CASE \E r \in Recipients, s \in Reports : Report(r, s)
    BY <1>9, <1>11
  <1> QED
    BY <1>4, <1>5, <1>7, <1>8, <1>10, <1>11 DEF Next

\* A campaign that has ended changes its status only by an actor that had read
\* it before: pause or cancel in flight, or a handler that saw it running.
THEOREM EndedIsLeftByStaleOnly == Spec => EndedLeftByStaleOnly
  <1> DEFINE A == camp.status \in {"completed", "cancelled"} /\ camp'.status # camp.status =>
        /\ camp'.status \in {"paused", "completed", "cancelled"}
        /\ \/ \E o \in LifecycleOps :
                op'[o] # op[o] /\ op[o] \notin {"idle", "completed", "cancelled"}
           \/ \E h \in Hooks : hook'[h] # hook[h] /\ hsnap[h].camp.status = "running"
  <1>1. ASSUME IInv, [Next]_vars PROVE [A]_vars
    <2>1. CASE Next
      BY <1>1, <2>1, EndedStep
    <2>2. CASE UNCHANGED vars
      BY <2>2
    <2> QED
      BY <1>1, <2>1, <2>2
  <1> HIDE DEF A
  <1>2. Spec => [][A]_vars
    BY <1>1, Invariant, PTL DEF Spec
  <1> QED
    BY <1>2 DEF A, EndedLeftByStaleOnly
=============================================================================
