------------------------ MODULE MessageSend_proofs --------------------------
(***************************************************************************)
(* Proofs about MessageSend for any set of requests, any key assignment,   *)
(* any limit and any number of attempts.                                   *)
(***************************************************************************)
EXTENDS MessageSend, FiniteSetTheorems, TLAPS

\* A session that has passed assert_quota holds a counter below the limit and
\* no greater than the number of rows, even when other requests commit.
CounterInv ==
    \A r \in Requests :
        pc[r] \in {"resolved", "posting", "answered"}
            => snap[r] <= Cardinality(rows) /\ snap[r] < Limit

\* No POST of a request is beyond its current attempt, and there is none
\* before the rate limiter has let the request through.
AttemptInv ==
    /\ \A w \in accepted \cup wire : w[2] <= attempt[w[1]]
    /\ \A r \in Requests :
        pc[r] \in {"idle", "checked", "authenticated", "resolved"} => attempt[r] = 0

\* An answer is read only for a POST that Meta accepted.
AnsweredInv ==
    \A r \in Requests : pc[r] = "answered" => <<r, attempt[r]>> \in accepted

\* Rows belong to requests that have committed, and to their last attempt.
RowInv ==
    \A w \in rows : /\ pc[w[1]] \in {"committed", "sent", "aborted"}
                    /\ w[2] = attempt[w[1]] /\ w \in accepted

\* Each request that has committed, answered or not, has its row.
SentInv ==
    \A r \in Requests : pc[r] \in {"committed", "sent"} => <<r, attempt[r]>> \in rows

\* Two requests of one client key do not hold its row at the same time.
KeySerialised ==
    \A q, r \in Requests :
        (q # r /\ KeyOf[q] = KeyOf[r] /\ KeyOf[q] # Admin)
            => ~(pc[q] \in Locked /\ pc[r] \in Locked)

\* While all rows are of key k, the copies its sessions have loaded are not
\* stale and the counter counts.
Exact(k) ==
    (\A w \in rows : KeyOf[w[1]] = k) =>
        /\ usage = Cardinality(rows)
        /\ \A r \in Requests :
            KeyOf[r] = k /\ pc[r] \in {"resolved", "posting", "answered"} => snap[r] = usage
ExactInv == \A k \in Keys : Exact(k)

\* The inductive invariant.
IInv ==
    /\ TypeOK
    /\ IsFiniteSet(rows)
    /\ UsageSound
    /\ CounterInv
    /\ AttemptInv
    /\ AnsweredInv
    /\ RowInv
    /\ SentInv
    /\ KeySerialised
    /\ ExactInv

USE DEF Phases, Active, Locked, Final, WamIds

\* The invariant at the start.
LEMMA InitIInv == Init => IInv
  <1> SUFFICES ASSUME Init PROVE IInv
    OBVIOUS
  <1>1. IsFiniteSet({}) /\ Cardinality({}) = 0
    BY FS_EmptySet
  <1>2. TypeOK
    <2>1. usage \in Nat
      BY DEF Init
    <2>2. deleted \in BOOLEAN /\ revoked \subseteq Keys
      BY DEF Init
    <2>3. /\ rows \subseteq WamIds /\ wire \subseteq WamIds
          /\ accepted \subseteq WamIds
      BY DEF Init
    <2>4. pc \in [Requests -> Phases] /\ snap \in [Requests -> Nat]
      BY DEF Init
    <2>5. attempt \in [Requests -> 0 .. Attempts]
      BY AttemptsAssumption DEF Init
    <2> QED
      BY <2>1, <2>2, <2>3, <2>4, <2>5 DEF TypeOK
  <1>3. IsFiniteSet(rows) /\ UsageSound
    BY <1>1, LimitAssumption DEF Init, UsageSound
  <1>5. ExactInv
    BY <1>1 DEF Init, ExactInv, Exact
  <1>4. CounterInv /\ AttemptInv /\ AnsweredInv /\ RowInv /\ SentInv /\ KeySerialised
    BY DEF Init, CounterInv, AttemptInv, AnsweredInv, RowInv, SentInv, KeySerialised
  <1> QED
    BY <1>2, <1>3, <1>4, <1>5 DEF IInv

\* What the client makes of an answer, or of none: it reads the message id,
\* gives up, or issues the next POST.
ReadsAnswer(r) ==
    /\ <<r, attempt[r]>> \in accepted
    /\ pc' = [pc EXCEPT ![r] = "answered"]
    /\ attempt' = attempt /\ wire' = wire
GivesUp(r) ==
    /\ pc' = [pc EXCEPT ![r] = "failed"]
    /\ attempt' = attempt /\ wire' \subseteq wire
PostsAgain(r) ==
    /\ pc' = pc
    /\ attempt[r] + 1 \in 1 .. Attempts
    /\ attempt' = [attempt EXCEPT ![r] = attempt[r] + 1]
    /\ wire' \subseteq wire \cup {<<r, attempt[r] + 1>>}

\* An exception ends the request or issues its next POST.
LEMMA ExceptionEffect ==
  ASSUME TypeOK, NEW r \in Requests, NEW exc, AfterException(r, exc),
         wire' \subseteq wire \cup RetryPost(r, exc)
  PROVE  GivesUp(r) \/ PostsAgain(r)
  <1>1. CASE exc \in RetryOn /\ attempt[r] < Attempts
    <2>1. attempt[r] + 1 \in 1 .. Attempts
      BY <1>1, AttemptsAssumption DEF TypeOK
    <2> QED
      BY <1>1, <2>1 DEF AfterException, RetryPost, PostsAgain
  <1>2. CASE ~(exc \in RetryOn /\ attempt[r] < Attempts)
    BY <1>2 DEF AfterException, RetryPost, GivesUp, Goto
  <1> QED
    BY <1>1, <1>2

\* What any answer, or none, does to the request and to the wire.
LEMMA HttpAnswerEffect ==
  ASSUME TypeOK, NEW r \in Requests, HttpAnswer(r)
  PROVE  /\ pc[r] = "posting"
         /\ UNCHANGED <<tenantVars, revoked, rows, accepted, snap>>
         /\ ReadsAnswer(r) \/ GivesUp(r) \/ PostsAgain(r)
  <1>1. CASE Answer(r)
    BY <1>1 DEF Answer, ReadsAnswer, Goto, metaVars, sessionVars
  <1>2. CASE Garbled(r)
    BY <1>2 DEF Garbled, GivesUp, Goto, metaVars, sessionVars
  <1>3. CASE Unanswered(r)
    BY <1>3, ExceptionEffect DEF Unanswered
  <1>4. ASSUME NEW status \in HttpErrors, NEW code \in ErrorCodes,
               Refused(r, status, code) \/ ServerError(r, status, code)
        PROVE  /\ pc[r] = "posting"
               /\ UNCHANGED <<tenantVars, revoked, rows, accepted, snap>>
               /\ GivesUp(r) \/ PostsAgain(r)
    <2> DEFINE exc == RaiseForStatus(status, code)
    <2>1. /\ AfterException(r, exc) /\ pc[r] = "posting"
          /\ wire' \subseteq wire \cup RetryPost(r, exc)
          /\ UNCHANGED <<tenantVars, revoked, rows, accepted, snap>>
      BY <1>4 DEF Refused, ServerError
    <2> HIDE DEF exc
    <2> QED
      BY <2>1, ExceptionEffect
  <1> QED
    BY <1>1, <1>2, <1>3, <1>4 DEF HttpAnswer

\* Every step keeps the types.
LEMMA TypeStep == TypeOK /\ AnsweredInv /\ [Next]_vars => TypeOK'
  <1> SUFFICES ASSUME TypeOK, AnsweredInv, [Next]_vars PROVE TypeOK'
    OBVIOUS
  <1> USE AttemptsAssumption, LimitAssumption
      DEF TypeOK, Goto, tenantVars, metaVars, sessionVars
  <1>1. ASSUME NEW r \in Requests,
               Authenticate(r) \/ Reject(r) \/ LockKey(r) \/ Forbid(r) \/ Resolve(r)
               \/ Decline(r)
        PROVE  TypeOK'
    BY <1>1 DEF Authenticate, Reject, LockKey, Forbid, Resolve, Decline
  <1>2. ASSUME NEW r \in Requests, Post(r)
        PROVE  TypeOK'
    BY <1>2 DEF Post, PostAttempt
  <1>3. ASSUME NEW r \in Requests, HttpAnswer(r)
        PROVE  TypeOK'
    <2>1. UNCHANGED <<tenantVars, revoked, rows, accepted, snap>>
      BY <1>3, HttpAnswerEffect
    <2>2. CASE ReadsAnswer(r)
      BY <2>1, <2>2 DEF ReadsAnswer
    <2>3. CASE GivesUp(r)
      BY <2>1, <2>3 DEF GivesUp
    <2>4. CASE PostsAgain(r)
      <3>1. <<r, attempt[r] + 1>> \in WamIds
        BY <2>4 DEF PostsAgain
      <3> QED
        BY <2>1, <2>4, <3>1 DEF PostsAgain
    <2> QED
      BY <1>3, <2>2, <2>3, <2>4, HttpAnswerEffect
  <1>4. ASSUME NEW r \in Requests, Commit(r)
        PROVE  TypeOK'
    <2>1. <<r, attempt[r]>> \in WamIds
      BY <1>4 DEF Commit, AnsweredInv
    <2> QED
      BY <1>4, <2>1 DEF Commit
  <1>5. ASSUME NEW r \in Requests, Respond(r) \/ Abort(r)
        PROVE  TypeOK'
    BY <1>5 DEF Respond, Abort
  <1>6. ASSUME NEW w \in WamIds, MetaAccepts(w)
        PROVE  TypeOK'
    BY <1>6 DEF MetaAccepts
  <1>7. ASSUME NEW k \in Keys, Revoke(k)
        PROVE  TypeOK'
    BY <1>7 DEF Revoke
  <1>8. CASE SoftDelete
    BY <1>8 DEF SoftDelete
  <1>9. CASE UNCHANGED vars
    BY <1>9 DEF vars
  <1> QED
    BY <1>1, <1>2, <1>3, <1>4, <1>5, <1>6, <1>7, <1>8, <1>9 DEF Next, Serve

\* Every step keeps the rest of the invariant.
LEMMA IInvStep == IInv /\ [Next]_vars => IInv'
  <1> SUFFICES ASSUME IInv, [Next]_vars PROVE IInv'
    OBVIOUS
  <1>1. TypeOK /\ TypeOK'
    BY TypeStep DEF IInv
  <1> USE DEF Goto, tenantVars, metaVars, sessionVars
  <1> DEFINE Rest == /\ IsFiniteSet(rows) /\ UsageSound /\ CounterInv
                     /\ AttemptInv /\ AnsweredInv /\ RowInv /\ SentInv
                     /\ KeySerialised /\ ExactInv
  <1>2. Rest
    BY DEF IInv
  \* The steps before the first POST, and the end of a request.
  <1>3. ASSUME NEW r \in Requests,
               \/ Authenticate(r) \/ Reject(r) \/ LockKey(r) \/ Forbid(r) \/ Resolve(r)
               \/ Decline(r) \/ Respond(r) \/ Abort(r)
        PROVE  Rest'
    <2> USE DEF Authenticate, Reject, LockKey, Forbid, Resolve, Decline, Respond, Abort
    <2>1. /\ UNCHANGED <<usage, rows, wire, accepted, attempt>>
          /\ pc'[r] \notin {"posting", "answered", "committed"}
          /\ (pc'[r] = "sent" => pc[r] = "committed")
          /\ (pc[r] \in {"committed", "sent", "aborted"} => pc'[r] \in {"sent", "aborted"})
          /\ \A q \in Requests \ {r} : pc'[q] = pc[q] /\ snap'[q] = snap[q]
      BY <1>1, <1>3 DEF TypeOK
    <2>2. IsFiniteSet(rows)' /\ UsageSound' /\ AnsweredInv'
      BY <1>2, <2>1 DEF UsageSound, AnsweredInv
    <2>3. AttemptInv'
      BY <1>1, <1>2, <1>3, <2>1 DEF AttemptInv, TypeOK
    <2>4. RowInv' /\ SentInv'
      BY <1>1, <1>2, <2>1 DEF RowInv, SentInv, TypeOK
    <2>5. CounterInv' /\ ExactInv'
      <3>1. pc'[r] = "resolved" =>
                snap'[r] <= Cardinality(rows) /\ snap'[r] < Limit /\ snap'[r] = usage
        BY <1>1, <1>2, <1>3, LimitAssumption DEF TypeOK, UsageSound
      <3> QED
        BY <1>1, <1>2, <2>1, <3>1 DEF CounterInv, ExactInv, Exact
    <2>6. KeySerialised'
      BY <1>1, <1>2, <1>3 DEF TypeOK, KeySerialised, Holds
    <2> QED
      BY <2>2, <2>3, <2>4, <2>5, <2>6
  <1>4. ASSUME NEW r \in Requests, Post(r)
        PROVE  Rest'
    <2>1. UsageSound' /\ IsFiniteSet(rows)' /\ CounterInv' /\ KeySerialised'
      BY <1>1, <1>2, <1>4 DEF Post, PostAttempt, UsageSound, CounterInv, KeySerialised, TypeOK
    <2>4. ExactInv'
      BY <1>1, <1>2, <1>4 DEF Post, PostAttempt, ExactInv, Exact, TypeOK
    <2>2. AnsweredInv' /\ RowInv' /\ SentInv'
      BY <1>1, <1>2, <1>4 DEF Post, PostAttempt, AnsweredInv, RowInv, SentInv, TypeOK
    <2>3. AttemptInv'
      <3>1. \A w \in accepted \cup wire : w[1] # r
        BY <1>1, <1>2, <1>4 DEF Post, AttemptInv, TypeOK
      <3>2. accepted' \cup wire' = accepted \cup wire \cup {<<r, 1>>}
        BY <1>4 DEF Post, PostAttempt
      <3>3. pc' = [pc EXCEPT ![r] = "posting"] /\ attempt' = [attempt EXCEPT ![r] = 1]
        BY <1>4 DEF Post, PostAttempt
      <3> QED
        BY <1>1, <1>2, <3>1, <3>2, <3>3 DEF AttemptInv, TypeOK
    <2> QED
      BY <2>1, <2>2, <2>3, <2>4
  \* The POSTs.
  <1>5. ASSUME NEW r \in Requests, HttpAnswer(r)
        PROVE  Rest'
    <2>1. /\ pc[r] = "posting"
          /\ UNCHANGED <<usage, rows, accepted, snap>>
          /\ ReadsAnswer(r) \/ GivesUp(r) \/ PostsAgain(r)
      BY <1>1, <1>5, HttpAnswerEffect
    <2>2. /\ pc'[r] \in {"posting", "answered", "failed"}
          /\ \A q \in Requests \ {r} : pc'[q] = pc[q] /\ attempt'[q] = attempt[q]
      BY <1>1, <2>1 DEF ReadsAnswer, GivesUp, PostsAgain, TypeOK
    <2>3. IsFiniteSet(rows)' /\ UsageSound' /\ CounterInv' /\ KeySerialised'
      BY <1>1, <1>2, <2>1, <2>2 DEF UsageSound, CounterInv, KeySerialised
    <2>7. ExactInv'
      BY <1>1, <1>2, <2>1, <2>2 DEF ExactInv, Exact
    <2>4. RowInv' /\ SentInv'
      BY <1>1, <1>2, <2>1, <2>2 DEF RowInv, SentInv, TypeOK
    <2>5. AnsweredInv'
      BY <1>1, <1>2, <2>1, <2>2 DEF AnsweredInv, ReadsAnswer, GivesUp, PostsAgain, TypeOK
    <2>6. AttemptInv'
      <3>1. CASE ReadsAnswer(r) \/ GivesUp(r)
        BY <1>1, <1>2, <2>1, <2>2, <3>1 DEF AttemptInv, ReadsAnswer, GivesUp, TypeOK
      <3>2. CASE PostsAgain(r)
        <4>1. attempt'[r] = attempt[r] + 1 /\ pc' = pc
          BY <1>1, <3>2 DEF PostsAgain, TypeOK
        <4>2. ASSUME NEW w \in accepted' \cup wire'
              PROVE  w[2] <= attempt'[w[1]]
          <5>1. w \in accepted \cup wire \/ w = <<r, attempt[r] + 1>>
            BY <2>1, <3>2 DEF PostsAgain
          <5> QED
            BY <1>1, <1>2, <2>2, <4>1, <5>1 DEF AttemptInv, TypeOK
        <4> QED
          BY <1>2, <2>1, <2>2, <4>1, <4>2 DEF AttemptInv
      <3> QED
        BY <2>1, <3>1, <3>2
    <2> QED
      BY <2>3, <2>4, <2>5, <2>6, <2>7
  <1>6. ASSUME NEW w \in WamIds, MetaAccepts(w)
        PROVE  Rest'
    <2>1. accepted' \cup wire' = accepted \cup wire /\ accepted \subseteq accepted'
      BY <1>6 DEF MetaAccepts
    <2>2. UNCHANGED <<usage, rows, pc, snap, attempt>>
      BY <1>6 DEF MetaAccepts
    <2> QED
      BY <1>2, <2>1, <2>2 DEF UsageSound, CounterInv, AttemptInv, AnsweredInv,
                              RowInv, SentInv, KeySerialised, ExactInv, Exact
  \* The commit adds one row: a counter below the limit grows by one.
  <1>7. ASSUME NEW r \in Requests, Commit(r)
        PROVE  Rest'
    <2> DEFINE w0 == <<r, attempt[r]>>
    <2>1. /\ pc[r] = "answered" /\ pc' = [pc EXCEPT ![r] = "committed"]
          /\ rows' = rows \cup {w0} /\ usage' = snap[r] + 1
          /\ UNCHANGED <<wire, accepted, snap, attempt>>
      BY <1>7 DEF Commit
    <2>2. w0 \in accepted /\ w0 \notin rows
      BY <1>1, <1>2, <2>1 DEF AnsweredInv, RowInv
    <2>3. /\ IsFiniteSet(rows') /\ Cardinality(rows') = Cardinality(rows) + 1
          /\ Cardinality(rows) \in Nat
      BY <1>2, <2>1, <2>2, FS_AddElement, FS_CardinalityType
    <2>4. UsageSound' /\ CounterInv'
      <3>1. snap[r] \in Nat /\ snap[r] <= Cardinality(rows) /\ snap[r] < Limit
        BY <1>1, <1>2, <2>1 DEF CounterInv, TypeOK
      <3>2. UsageSound'
        BY <2>1, <2>3, <3>1, LimitAssumption DEF UsageSound
      <3>3. ASSUME NEW q \in Requests, pc'[q] \in {"resolved", "posting", "answered"}
            PROVE  snap'[q] <= Cardinality(rows') /\ snap'[q] < Limit
        <4>1. pc[q] = pc'[q] /\ snap'[q] = snap[q] /\ snap[q] \in Nat
          BY <1>1, <2>1, <3>3 DEF TypeOK
        <4>2. snap[q] <= Cardinality(rows) /\ snap[q] < Limit
          BY <1>2, <3>3, <4>1 DEF CounterInv
        <4> QED
          BY <2>3, <4>1, <4>2
      <3> QED
        BY <3>2, <3>3 DEF CounterInv
    <2>5. AttemptInv' /\ AnsweredInv' /\ KeySerialised'
      BY <1>1, <1>2, <2>1 DEF AttemptInv, AnsweredInv, KeySerialised, TypeOK
    <2>6. RowInv' /\ SentInv'
      BY <1>1, <1>2, <2>1, <2>2 DEF RowInv, SentInv, TypeOK
    <2>7. ASSUME NEW k \in Keys, \A w \in rows' : KeyOf[w[1]] = k PROVE Exact(k)'
      <3>0. w0 \in rows' /\ w0[1] = r /\ rows \subseteq rows'
        BY <2>1
      <3>1. KeyOf[r] = k /\ \A w \in rows : KeyOf[w[1]] = k
        BY <2>7, <3>0
      <3>2. usage = Cardinality(rows) /\ snap[r] = usage
        BY <1>2, <2>1, <3>1 DEF ExactInv, Exact
      <3>3. \A q \in Requests \ {r} : KeyOf[q] = k => pc[q] \notin Locked
        BY <1>2, <2>1, <3>1, KeyAssumption DEF KeySerialised
      <3>4. \A q \in Requests : KeyOf[q] = k => pc'[q] \notin {"resolved", "posting", "answered"}
        BY <1>1, <2>1, <3>3 DEF TypeOK
      <3> QED
        BY <2>1, <2>3, <3>2, <3>4 DEF Exact
    <2>8. ExactInv'
      BY <2>7 DEF ExactInv, Exact
    <2> QED
      BY <2>3, <2>4, <2>5, <2>6, <2>8
  <1>8. ASSUME SoftDelete \/ (\E k \in Keys : Revoke(k)) \/ UNCHANGED vars
        PROVE  Rest'
    <2>1. UNCHANGED <<usage, rows, wire, accepted, pc, snap, attempt>>
      BY <1>8 DEF SoftDelete, Revoke, vars
    <2> QED
      BY <1>2, <2>1 DEF UsageSound, CounterInv, AttemptInv, AnsweredInv,
                        RowInv, SentInv, KeySerialised, ExactInv, Exact
  <1>9. Rest'
    BY <1>3, <1>4, <1>5, <1>6, <1>7, <1>8 DEF Next, Serve
  <1> QED
    BY <1>1, <1>9 DEF IInv

\* The inductive invariant holds in every reachable state.
THEOREM SpecIInv == Spec => []IInv
  BY InitIInv, IInvStep, PTL DEF Spec

\* Types, for every choice of the constants.
THEOREM TypeCorrect == Spec => []TypeOK
  <1>1. IInv => TypeOK
    BY DEF IInv
  <1> QED
    BY <1>1, SpecIInv, PTL

\* However many requests race for the last unit of the quota, the counter
\* increment_usage writes never exceeds the rows committed or the limit.
THEOREM UsageIsSound == Spec => []UsageSound
  <1>1. IInv => UsageSound
    BY DEF IInv
  <1> QED
    BY <1>1, SpecIInv, PTL

\* One client key alone loses no increment and keeps to the quota, however many
\* of its requests overlap, retry or break off.
THEOREM SoleKeysAreExact == Spec => []SoleKeyExact
  <1>1. IInv => SoleKeyExact
    BY DEF IInv, ExactInv, Exact, SoleKeyExact, UsageSound
  <1> QED
    BY <1>1, SpecIInv, PTL

\* A 201 tells of a committed row and an error of none; only a request that
\* broke off does not tell.
THEOREM AnswersTellRows == Spec => []AnswerTellsRow
  <1>1. IInv => AnswerTellsRow
    BY DEF IInv, RowInv, SentInv, AnswerTellsRow, TypeOK
  <1> QED
    BY <1>1, SpecIInv, PTL

\* The recorded message is that of the last POST Meta can have taken.
THEOREM RecordedIsLast == Spec => []NoLaterAttempt
  <1>1. IInv => NoLaterAttempt
    BY DEF IInv, RowInv, AttemptInv, NoLaterAttempt, TypeOK
  <1> QED
    BY <1>1, SpecIInv, PTL

\* The send path implements the ledger: whatever the interleaving, a message
\* enters the messages table once per request, after Meta took it, and no
\* later attempt of the request can follow.
THEOREM SendRefinesLedger == Spec => RefinesLedger
  <1>1. Init => Ledger!LedgerInit
    BY DEF Init, Ledger!LedgerInit
  <1>2. IInv /\ [Next]_vars => [Ledger!LedgerNext]_(Ledger!lvars)
    <2> SUFFICES ASSUME IInv, [Next]_vars
                 PROVE  Ledger!LedgerNext \/ UNCHANGED <<accepted, rows>>
      BY DEF Ledger!lvars
    <2> USE DEF Ledger!LedgerNext, Ledger!WamIds
    <2>1. ASSUME NEW w \in WamIds, MetaAccepts(w)
          PROVE  Ledger!LedgerNext \/ UNCHANGED <<accepted, rows>>
      <3>1. CASE w \in accepted
        BY <2>1, <3>1 DEF MetaAccepts
      <3>2. CASE w \notin accepted
        <4>1. \A x \in rows : x[1] = w[1] => w[2] < x[2]
          <5> SUFFICES ASSUME NEW x \in rows, x[1] = w[1] PROVE w[2] < x[2]
            OBVIOUS
          <5>1. x \in accepted /\ x[2] = attempt[w[1]] /\ x \in WamIds
            BY DEF IInv, RowInv, TypeOK
          <5>2. w[2] <= attempt[w[1]]
            BY <2>1 DEF IInv, AttemptInv, MetaAccepts
          <5>3. w[2] # x[2]
            BY <3>2, <5>1
          <5> QED
            BY <5>1, <5>2, <5>3
        <4>2. Ledger!Accept(w)
          BY <2>1, <3>2, <4>1 DEF MetaAccepts, Ledger!Accept
        <4> QED
          BY <4>2
      <3> QED
        BY <3>1, <3>2
    <2>2. ASSUME NEW r \in Requests, Commit(r)
          PROVE  Ledger!LedgerNext
      <3> DEFINE w0 == <<r, attempt[r]>>
      <3>1. w0 \in accepted /\ w0 \in WamIds /\ pc[r] = "answered"
        BY <2>2 DEF IInv, AnsweredInv, Commit, TypeOK
      <3>2. \A x \in rows : x[1] # r
        BY <3>1 DEF IInv, RowInv
      <3>3. \A x \in accepted : x[1] = r => x[2] <= attempt[r]
        BY DEF IInv, AttemptInv
      <3>4. Ledger!Record(w0)
        BY <2>2, <3>1, <3>2, <3>3 DEF Commit, Ledger!Record, metaVars
      <3> QED
        BY <3>1, <3>4
    <2>3. ASSUME NEW r \in Requests, HttpAnswer(r)
          PROVE  UNCHANGED <<accepted, rows>>
      BY <2>3, HttpAnswerEffect DEF IInv
    <2>4. ASSUME NEW r \in Requests,
                 \/ Authenticate(r) \/ Reject(r) \/ LockKey(r) \/ Forbid(r) \/ Resolve(r)
                 \/ Decline(r) \/ Post(r) \/ Respond(r) \/ Abort(r)
          PROVE  UNCHANGED <<accepted, rows>>
      BY <2>4 DEF Authenticate, Reject, LockKey, Forbid, Resolve, Decline, Post, Respond, Abort,
         metaVars
    <2>5. CASE SoftDelete \/ (\E k \in Keys : Revoke(k)) \/ UNCHANGED vars
      BY <2>5 DEF SoftDelete, Revoke, metaVars, vars
    <2> QED
      BY <2>1, <2>2, <2>3, <2>4, <2>5 DEF Next, Serve
  <1> QED
    BY <1>1, <1>2, SpecIInv, PTL DEF Spec, RefinesLedger, Ledger!LedgerSpec

\* A request of a revoked key that has not been let in has nothing at Meta or
\* on its way there, and stays outside.
Outside(r) ==
    /\ pc[r] \in {"idle", "refused"} /\ KeyOf[r] \in revoked
    /\ \A w \in accepted \cup wire : w[1] # r

\* Nobody else's step lets it in: revoked keys stay revoked and the POSTs of
\* other requests carry their own numbers.
LEMMA OutsideStep ==
    ASSUME IInv, [Next]_vars, NEW r \in Requests, Outside(r)
    PROVE  Outside(r)'
  <1>1. TypeOK
    BY DEF IInv
  <1>2. CASE \E q \in Requests : Authenticate(q) \/ Reject(q) \/ LockKey(q) \/ Forbid(q)
                                   \/ Resolve(q) \/ Decline(q) \/ Commit(q) \/ Respond(q)
                                   \/ Abort(q)
    <2>1. UNCHANGED <<revoked, accepted, wire>>
      BY <1>2 DEF Authenticate, Reject, LockKey, Forbid, Resolve, Decline, Commit, Respond, Abort,
         metaVars
    <2>2. pc'[r] \in {"idle", "refused"}
      <3>1. PICK q \in Requests, p \in Phases : pc' = [pc EXCEPT ![q] = p]
                /\ (pc[q] = "idle" => p = "refused" \/ KeyOf[q] \notin revoked)
                /\ pc[q] # "refused"
        <4>1. \A q \in Requests : KeyOf[q] = Admin => KeyOf[q] \notin revoked
          BY <1>1, KeyAssumption DEF TypeOK
        <4> QED
          BY <1>2, <4>1
          DEF Phases, Active, Locked, Final, Goto, Authenticate, Reject, LockKey,
              Forbid, Resolve, Decline, Commit, Respond, Abort
      <3>2. CASE q = r
        BY <1>1, <3>1, <3>2 DEF Outside, TypeOK
      <3>3. CASE q # r
        BY <1>1, <3>1, <3>3 DEF Outside, TypeOK
      <3> QED
        BY <3>2, <3>3
    <2> QED
      BY <2>1, <2>2 DEF Outside
  <1>3. CASE \E q \in Requests : Post(q)
    BY <1>1, <1>3 DEF Outside, TypeOK, Goto, Post, PostAttempt
  <1>4. ASSUME NEW q \in Requests, HttpAnswer(q) PROVE Outside(r)'
    <2>1. /\ pc[q] = "posting" /\ UNCHANGED <<revoked, accepted>>
          /\ ReadsAnswer(q) \/ GivesUp(q) \/ PostsAgain(q)
      BY <1>1, <1>4, HttpAnswerEffect
    <2>2. q # r /\ pc'[r] = pc[r]
      BY <1>1, <2>1 DEF Outside, ReadsAnswer, GivesUp, PostsAgain, TypeOK
    <2>3. \A w \in wire' : w[1] # r
      BY <2>1, <2>2 DEF Outside, ReadsAnswer, GivesUp, PostsAgain
    <2> QED
      BY <2>1, <2>2, <2>3 DEF Outside
  <1>5. CASE (\E w \in WamIds : MetaAccepts(w)) \/ SoftDelete \/ (\E k \in Keys : Revoke(k))
    BY <1>5 DEF Outside, MetaAccepts, SoftDelete, Revoke, metaVars
  <1>6. CASE UNCHANGED vars
    BY <1>6 DEF Outside, vars
  <1> QED
    BY <1>2, <1>3, <1>4, <1>5, <1>6 DEF Next, Serve

\* A request that arrives after its key was revoked never makes Meta take a
\* message, at any later time.
THEOREM RevokedKeysNeverSend == Spec => RevokedNeverSends
  <1> SUFFICES ASSUME NEW r \in {q \in Requests : KeyOf[q] \in Keys}
               PROVE  Spec => [](pc[r] = "idle" /\ KeyOf[r] \in revoked
                                    => [](\A w \in accepted : w[1] # r))
    BY DEF RevokedNeverSends
  <1>0. r \in Requests
    OBVIOUS
  <1>1. IInv /\ pc[r] = "idle" /\ KeyOf[r] \in revoked => Outside(r)
    BY <1>0 DEF IInv, AttemptInv, TypeOK, Outside
  <1>2. IInv /\ [Next]_vars /\ Outside(r) => Outside(r)'
    BY <1>0, OutsideStep
  <1>3. Outside(r) => \A w \in accepted : w[1] # r
    BY DEF Outside
  <1> QED
    BY <1>1, <1>2, <1>3, SpecIInv, PTL DEF Spec
=============================================================================
