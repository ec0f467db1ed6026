----------------------- MODULE DeliveryStatus_proofs ------------------------
(***************************************************************************)
(* Proofs about DeliveryStatus for any messages, payloads, tenants and any *)
(* number of redeliveries.                                                 *)
(***************************************************************************)
EXTENDS DeliveryStatus, TLAPS

\* A copy b of row m that the session has made c: the row still exists and has
\* every stamp it was loaded with, and the session has only added stamps.
CopyOK(m, b, c) ==
    b # NoRow => /\ msg[m] # NoRow /\ b.at \subseteq msg[m].at
                 /\ c # NoRow /\ c.status \in c.at
CopyInv == \A h \in Posts, m \in Messages : CopyOK(m, base[h][m], cur[h][m])

\* A handler answers when it has committed its event and its inbound rows.  The
\* event is recorded as processed at the end of the payload only; the item that
\* raised is not a change of ours.
HandlerInv ==
    \A h \in Posts :
        /\ pc[h] = "answered" => event[h] # "none" /\ \A i \in Saved(h) : h \in inbound[i]
        /\ event[h] # "none" => pc[h] = "answered"
        /\ event[h] = "processed" => next[h] > Len(Items[h[1]])
        /\ pc[h] = "errored" \/ event[h] = "unprocessed" => next[h] \notin Ours(h[1])

\* Only an answered post is acknowledged.
AckInv == \A p \in acked : \E n \in 1 .. MaxPosts : pc[<<p, n>>] = "answered"

IsStatus(p, n) == n \in 1 .. Len(Items[p]) /\ Items[p][n] \in StatusItem

\* The status could be read, and its stamp is in the row or will be flushed.
Applied(it, b, c) ==
    /\ it.parses
    /\ \/ StatusMap(it.raw) \in msg[it.msg].at
       \/ b[it.msg] # NoRow /\ StatusMap(it.raw) \in c[it.msg].at

\* So it is for every status whose message was found, unless one raised.
FoundInv ==
    \A h \in Posts :
        /\ pc[h] \in {"unsent", "received"} => found[h] = {}
        /\ \A n \in found[h] :
            /\ IsStatus(h[1], n)
            /\ pc[h] = "processing" \/ event[h] = "processed" =>
                Applied(Items[h[1]][n], base[h], cur[h])

\* The inductive invariant.
IInv ==
    /\ TypeOK /\ StampedStatus /\ CopyInv /\ EffectsKept
    /\ HandlerInv /\ AckInv /\ FoundInv

\* NoRow is no row of the table.
LEMMA NoRowIsNoRow == NoRow \notin Row /\ \A r \in Row : r.status \in Stamps /\ r.at \subseteq Stamps
  BY DEF NoRow, Row, Stamps

\* Applying a status makes a row whose status has its stamp.
LEMMA ApplyStatusEffect ==
  ASSUME NEW row \in Row, NEW s \in Stamps
  PROVE  /\ ApplyStatus(row, s) \in Row
         /\ ApplyStatus(row, s).status \in ApplyStatus(row, s).at
         /\ row.at \subseteq ApplyStatus(row, s).at
  BY DEF ApplyStatus, Row

\* A flush keeps the stamps of the row and adds those of the session; it
\* leaves a status that has its stamp if the row and the session had one.
LEMMA FlushEffect ==
  ASSUME NEW row \in Row, NEW old \in Row, NEW new \in Row,
         old.at \subseteq row.at,
         row.status \in row.at, new.status \in new.at
  PROVE  /\ Flush(row, old, new) \in Row
         /\ Flush(row, old, new).status \in Flush(row, old, new).at
         /\ row.at \subseteq Flush(row, old, new).at
         /\ new.at \subseteq Flush(row, old, new).at
  BY DEF Flush, Row

\* The invariant at the start.
LEMMA InitIInv == Init => IInv
  <1> SUFFICES ASSUME Init PROVE IInv
    OBVIOUS
  <1>1. TypeOK
    BY DEF Init, TypeOK, Phases
  <1>2. StampedStatus /\ CopyInv /\ EffectsKept
    BY DEF Init, StampedStatus, CopyInv, CopyOK, EffectsKept
  <1>3. HandlerInv /\ AckInv /\ FoundInv
    BY DEF Init, HandlerInv, AckInv, FoundInv
  <1> QED
    BY <1>1, <1>2, <1>3 DEF IInv

\* What the commit of a handler does to one row.
LEMMA CommitRow ==
  ASSUME IInv, NEW h \in Posts, Commit(h), NEW m \in Messages
  PROVE  /\ msg'[m] \in Row \cup {NoRow}
         /\ msg[m] # NoRow => /\ msg'[m] # NoRow
                              /\ msg[m].at \subseteq msg'[m].at
                              /\ msg'[m].status \in msg'[m].at
         /\ msg[m] = NoRow => msg'[m] = NoRow
         /\ base[h][m] # NoRow => cur[h][m].at \subseteq msg'[m].at
  <1>1. CASE base[h][m] = NoRow
    BY <1>1 DEF IInv, TypeOK, Commit, StampedStatus
  <1>2. CASE base[h][m] # NoRow
    <2>1. /\ msg[m] \in Row /\ base[h][m] \in Row /\ cur[h][m] \in Row
          /\ base[h][m].at \subseteq msg[m].at /\ cur[h][m].status \in cur[h][m].at
          /\ msg[m].status \in msg[m].at
      BY <1>2 DEF IInv, TypeOK, CopyInv, CopyOK, StampedStatus
    <2>2. msg'[m] = Flush(msg[m], base[h][m], cur[h][m])
      BY <1>2 DEF Commit
    <2> QED
      BY <1>2, <2>1, <2>2, FlushEffect, NoRowIsNoRow
  <1> QED
    BY <1>1, <1>2

\* A step of a handler that writes nothing to the tables and leaves the session
\* at item n with the copies b and c.
Moves(h, p, n, f, b, c) ==
    /\ pc[h] # "answered" /\ p \in Phases \ {"answered", "unsent"} /\ n \in Nat \ {0} /\ f \in SUBSET Nat
    /\ b \in [Messages -> Row \cup {NoRow}] /\ c \in [Messages -> Row \cup {NoRow}]
    /\ pc' = [pc EXCEPT ![h] = p] /\ next' = [next EXCEPT ![h] = n] /\ found' = [found EXCEPT ![h] = f]
    /\ base' = [base EXCEPT ![h] = b] /\ cur' = [cur EXCEPT ![h] = c]
    /\ UNCHANGED <<msg, inbound, event, acked>>
    /\ p = "errored" => n \notin Ours(h[1])
    /\ p = "received" => f = {}
    /\ \A m \in Messages : CopyOK(m, b[m], c[m])
    /\ \A k \in f : IsStatus(h[1], k) /\ (p = "processing" => Applied(Items[h[1]][k], b, c))

\* It preserves the invariant.
LEMMA HandlerStep ==
  ASSUME IInv, NEW h \in Posts, NEW p, NEW n, NEW f, NEW b, NEW c, Moves(h, p, n, f, b, c)
  PROVE  IInv'
  <1>1. UNCHANGED <<msg, inbound, event, acked>> /\ pc[h] # "answered"
    BY DEF Moves
  <1>2. TypeOK'
    BY <1>1 DEF IInv, TypeOK, Moves
  <1>3. /\ pc'[h] = p /\ next'[h] = n /\ found'[h] = f /\ base'[h] = b /\ cur'[h] = c
        /\ \A g \in Posts \ {h} : /\ pc'[g] = pc[g] /\ next'[g] = next[g] /\ found'[g] = found[g]
                                  /\ base'[g] = base[g] /\ cur'[g] = cur[g]
    BY DEF IInv, TypeOK, Moves
  <1>4. StampedStatus' /\ EffectsKept'
    BY <1>1, <1>3 DEF IInv, StampedStatus, EffectsKept, Moves
  <1>5. CopyInv'
    BY <1>1, <1>3 DEF IInv, CopyInv, CopyOK, Moves
  <1>6. event[h] = "none"
    BY <1>1 DEF IInv, HandlerInv
  <1>7. \A g \in Posts \ {h} : Saved(g)' = Saved(g)
    BY <1>3 DEF Saved
  <1>8. HandlerInv'
    BY <1>1, <1>3, <1>6, <1>7 DEF IInv, HandlerInv, Moves
  <1>9. AckInv'
    <2> SUFFICES ASSUME NEW a \in acked PROVE \E k \in 1 .. MaxPosts : pc'[<<a, k>>] = "answered"
      BY <1>1 DEF AckInv
    <2>1. PICK k \in 1 .. MaxPosts : pc[<<a, k>>] = "answered"
      BY DEF IInv, AckInv
    <2>2. <<a, k>> \in Posts
      BY DEF IInv, TypeOK, Posts
    <2> QED
      BY <1>1, <1>3, <2>1, <2>2
  <1>10. FoundInv'
    <2>1. ASSUME NEW g \in Posts
          PROVE  /\ pc'[g] \in {"unsent", "received"} => found'[g] = {}
                 /\ \A k \in found'[g] :
                     /\ IsStatus(g[1], k)
                     /\ pc'[g] = "processing" \/ event'[g] = "processed" =>
                         Applied(Items[g[1]][k], base[g], cur[g])'
      <3>1. CASE g = h
        <4>1. p # "unsent" /\ (p = "received" => f = {})
          BY DEF Moves
        <4>2. \A k \in f : IsStatus(h[1], k) /\ (p = "processing" => Applied(Items[h[1]][k], b, c))
          BY DEF Moves
        <4> QED
          BY <1>1, <1>3, <1>6, <3>1, <4>1, <4>2 DEF Applied
      <3>2. CASE g # h
        BY <1>1, <1>3, <3>2 DEF IInv, FoundInv, Applied
      <3> QED
        BY <3>1, <3>2
    <2> QED
      BY <2>1 DEF FoundInv
  <1> QED
    BY <1>2, <1>4, <1>5, <1>8, <1>9, <1>10 DEF IInv

\* What the steps below need of the handler they belong to.
LEMMA HandlerFacts ==
  ASSUME IInv, NEW h \in Posts
  PROVE  /\ pc[h] \in Phases /\ next[h] \in Nat \ {0} /\ found[h] \in SUBSET Nat
         /\ base[h] \in [Messages -> Row \cup {NoRow}] /\ cur[h] \in [Messages -> Row \cup {NoRow}]
         /\ pc = [pc EXCEPT ![h] = pc[h]] /\ next = [next EXCEPT ![h] = next[h]]
         /\ found = [found EXCEPT ![h] = found[h]]
         /\ base = [base EXCEPT ![h] = base[h]] /\ cur = [cur EXCEPT ![h] = cur[h]]
         /\ \A m \in Messages : CopyOK(m, base[h][m], cur[h][m])
         /\ \A k \in found[h] : /\ IsStatus(h[1], k)
                                /\ pc[h] = "processing" => Applied(Items[h[1]][k], base[h], cur[h])
         /\ pc[h] \in {"unsent", "received"} => found[h] = {}
         /\ h[1] \in Payloads
  BY DEF IInv, TypeOK, CopyInv, FoundInv, Posts

\* A look-up leaves good copies, and every stamp that was to be flushed.
LEMMA LookUpCopies ==
  ASSUME IInv, NEW h \in Posts, NEW t, NEW K \in SUBSET Messages, LookUp(h, t, K)
  PROVE  \E b, c \in [Messages -> Row \cup {NoRow}] :
            /\ base' = [base EXCEPT ![h] = b] /\ cur' = [cur EXCEPT ![h] = c]
            /\ \A m \in Messages : CopyOK(m, b[m], c[m])
            /\ \A it \in StatusItem : Applied(it, base[h], cur[h]) => Applied(it, b, c)
  <1> DEFINE read(m) == IF t = 1 THEN msg[m] ELSE NoRow
             b == [m \in Messages |-> IF m \in K THEN base[h][m] ELSE read(m)]
             c == [m \in Messages |-> IF m \in K THEN cur[h][m] ELSE read(m)]
  <1>1. base' = [base EXCEPT ![h] = b] /\ cur' = [cur EXCEPT ![h] = c]
    BY DEF LookUp, IInv, TypeOK
  <1>2. \A m \in Messages : msg[m] \in Row \cup {NoRow}
    BY DEF IInv, TypeOK
  <1>3. b \in [Messages -> Row \cup {NoRow}] /\ c \in [Messages -> Row \cup {NoRow}]
    BY <1>2, HandlerFacts
  <1>4. ASSUME NEW m \in Messages PROVE CopyOK(m, b[m], c[m])
    <2>1. CASE m \in K
      BY <2>1, HandlerFacts
    <2>2. CASE m \notin K
      <3>1. b[m] = c[m] /\ (b[m] = NoRow \/ b[m] = msg[m])
        BY <2>2
      <3> HIDE DEF b, c
      <3> QED
        BY <3>1 DEF CopyOK, IInv, StampedStatus
    <2> QED
      BY <2>1, <2>2
  <1>5. ASSUME NEW it \in StatusItem, Applied(it, base[h], cur[h]) PROVE Applied(it, b, c)
    <2>1. it.msg \in Messages
      BY DEF StatusItem
    <2>2. CASE it.msg \in K
      <3>1. b[it.msg] = base[h][it.msg] /\ c[it.msg] = cur[h][it.msg]
        BY <2>1, <2>2
      <3> HIDE DEF b, c
      <3> QED
        BY <1>5, <3>1 DEF Applied
    <2>3. CASE it.msg \notin K
      <3>1. cur[h][it.msg] = base[h][it.msg]
        BY <2>1, <2>3 DEF LookUp
      <3>2. base[h][it.msg] # NoRow => base[h][it.msg].at \subseteq msg[it.msg].at
        BY <2>1, HandlerFacts DEF CopyOK
      <3> HIDE DEF b, c
      <3> QED
        BY <1>5, <3>1, <3>2 DEF Applied
    <2> QED
      BY <2>2, <2>3
  <1> HIDE DEF b, c
  <1> QED
    BY <1>1, <1>3, <1>4, <1>5

\* The items of a payload.
LEMMA ItemFacts ==
  ASSUME IInv, NEW h \in Posts, next[h] <= Len(Items[h[1]])
  PROVE  /\ next[h] \in 1 .. Len(Items[h[1]])
         /\ Item(h) \in ChangeItem \cup StatusItem
         /\ Item(h).kind = "status" => Item(h) \in StatusItem
         /\ Item(h).kind = "change" => Item(h) \in ChangeItem
  <1>1. next[h] \in 1 .. Len(Items[h[1]]) /\ Items[h[1]] \in Seq(ChangeItem \cup StatusItem)
    BY HandlerFacts, PayloadAssumption
  <1>2. Item(h) \in ChangeItem \cup StatusItem
    BY <1>1 DEF Item
  <1>3. \A x \in ChangeItem : x.kind = "change"
    BY DEF ChangeItem
  <1>4. \A x \in StatusItem : x.kind = "status"
    BY DEF StatusItem
  <1> QED
    BY <1>1, <1>2, <1>3, <1>4

\* Looking up the tenant of the event or of a change.
LEMMA LookUpPreserves ==
  ASSUME IInv, NEW h \in Posts, StoreEvent(h) \/ HandleChange(h)
  PROVE  IInv'
  <1> USE DEF Phases
  <1>1. CASE StoreEvent(h)
    <2>1. /\ pc[h] = "received" /\ pc' = [pc EXCEPT ![h] = "processing"]
          /\ UNCHANGED <<db, acked, next, found>>
      BY <1>1 DEF StoreEvent
    <2>2. PICK K \in SUBSET Messages : LookUp(h, IF h[1] \in Inferred THEN 1 ELSE 0, K)
      BY <1>1 DEF StoreEvent
    <2>3. PICK b, c \in [Messages -> Row \cup {NoRow}] :
              /\ base' = [base EXCEPT ![h] = b] /\ cur' = [cur EXCEPT ![h] = c]
              /\ \A m \in Messages : CopyOK(m, b[m], c[m])
      BY <2>2, LookUpCopies
    <2>4. found[h] = {}
      BY <2>1, HandlerFacts
    <2>10. Moves(h, "processing", next[h], found[h], b, c)
      BY <2>1, <2>3, <2>4, HandlerFacts DEF Moves, db
    <2> QED
      BY <2>10, HandlerStep
  <1>2. CASE HandleChange(h) /\ Item(h).tenants > 1
    <2>1. /\ pc[h] = "processing" /\ pc' = [pc EXCEPT ![h] = "errored"]
          /\ UNCHANGED <<db, acked, next, found, base, cur>>
      BY <1>2 DEF HandleChange, AtItem
    <2>2. next[h] \notin Ours(h[1])
      BY <1>2 DEF Ours, Item
    <2>10. Moves(h, "errored", next[h], found[h], base[h], cur[h])
      BY <2>1, <2>2, HandlerFacts DEF Moves, db
    <2> QED
      BY <2>10, HandlerStep
  <1>3. CASE HandleChange(h) /\ ~(Item(h).tenants > 1)
    <2>1. /\ pc[h] = "processing" /\ next' = [next EXCEPT ![h] = next[h] + 1]
          /\ UNCHANGED <<db, acked, found, pc>>
      BY <1>3 DEF HandleChange, AtItem
    <2>2. PICK K \in SUBSET Messages : LookUp(h, Item(h).tenants, K)
      BY <1>3 DEF HandleChange
    <2>3. PICK b, c \in [Messages -> Row \cup {NoRow}] :
              /\ base' = [base EXCEPT ![h] = b] /\ cur' = [cur EXCEPT ![h] = c]
              /\ \A m \in Messages : CopyOK(m, b[m], c[m])
              /\ \A it \in StatusItem : Applied(it, base[h], cur[h]) => Applied(it, b, c)
      BY <2>2, LookUpCopies
    <2>4. \A k \in found[h] : IsStatus(h[1], k) /\ Applied(Items[h[1]][k], b, c)
      BY <2>1, <2>3, HandlerFacts DEF IsStatus
    <2>5. next[h] + 1 \in Nat \ {0}
      BY HandlerFacts
    <2>10. Moves(h, "processing", next[h] + 1, found[h], b, c)
      BY <2>1, <2>3, <2>4, <2>5, HandlerFacts DEF Moves, db
    <2> QED
      BY <2>10, HandlerStep
  <1> QED
    BY <1>1, <1>2, <1>3

\* Applying a status item to the session's copy of its message.
LEMMA ItemPreserves ==
  ASSUME IInv, NEW h \in Posts, ApplyItem(h)
  PROVE  IInv'
  <1> USE DEF Phases
  <1> DEFINE it == Item(h)
             s == StatusMap(it.raw)
             row == Loaded(h, it.msg)
             f == found[h] \cup {next[h]}
  <1>1. pc[h] = "processing" /\ UNCHANGED <<db, acked>> /\ next[h] <= Len(Items[h[1]]) /\ it.kind = "status"
    BY DEF ApplyItem, AtItem
  <1>2. /\ it \in StatusItem /\ it.msg \in Messages /\ it.raw \in RawStatuses
        /\ next[h] \in 1 .. Len(Items[h[1]]) /\ it = Items[h[1]][next[h]]
    <2>1. it \in StatusItem /\ next[h] \in 1 .. Len(Items[h[1]])
      BY <1>1, ItemFacts
    <2> QED
      BY <2>1 DEF StatusItem, Item
  <1>3. s \in Stamps \cup {"none"}
    BY <1>2 DEF StatusMap, RawStatuses, Stamps
  <1>4. row \in Row \cup {NoRow} /\ base[h][it.msg] \in Row \cup {NoRow}
    BY <1>2 DEF IInv, TypeOK, Loaded
  <1>5. next[h] + 1 \in Nat \ {0} /\ f \in SUBSET Nat
    BY <1>2, HandlerFacts
  <1>6. \A k \in f : IsStatus(h[1], k)
    BY <1>2, HandlerFacts DEF IsStatus
  <1>7. CASE s = "none" \/ row = NoRow
    <2>1. next' = [next EXCEPT ![h] = next[h] + 1] /\ UNCHANGED <<pc, found, base, cur>>
      BY <1>7 DEF ApplyItem
    <2> HIDE DEF it, s, row
    <2>10. Moves(h, "processing", next[h] + 1, found[h], base[h], cur[h])
      BY <1>1, <1>5, <2>1, HandlerFacts DEF Moves, db
    <2> QED
      BY <2>10, HandlerStep
  <1>8. CASE ~(s = "none" \/ row = NoRow) /\ ~it.parses
    <2>1. /\ pc' = [pc EXCEPT ![h] = "errored"] /\ UNCHANGED <<next, base, cur>>
          /\ found' = [found EXCEPT ![h] = f]
      BY <1>8 DEF ApplyItem
    <2>2. next[h] \notin Ours(h[1])
      BY <1>1, <1>2 DEF Ours
    <2> HIDE DEF it, s, row, f
    <2>10. Moves(h, "errored", next[h], f, base[h], cur[h])
      BY <1>1, <1>5, <1>6, <2>1, <2>2, HandlerFacts DEF Moves, db
    <2> QED
      BY <2>10, HandlerStep
  <1>9. CASE ~(s = "none" \/ row = NoRow) /\ it.parses
    <2> DEFINE old == IF base[h][it.msg] = NoRow THEN msg[it.msg] ELSE base[h][it.msg]
               new == ApplyStatus(row, s)
               b == [base[h] EXCEPT ![it.msg] = old]
               c == [cur[h] EXCEPT ![it.msg] = new]
    <2>1. /\ next' = [next EXCEPT ![h] = next[h] + 1] /\ found' = [found EXCEPT ![h] = f]
          /\ UNCHANGED pc
          /\ base' = [base EXCEPT ![h][it.msg] = IF @ = NoRow THEN msg[it.msg] ELSE @]
          /\ cur' = [cur EXCEPT ![h][it.msg] = new]
      BY <1>9 DEF ApplyItem
    <2>2. base' = [base EXCEPT ![h] = b] /\ cur' = [cur EXCEPT ![h] = c]
      BY <1>2, <2>1 DEF IInv, TypeOK
    <2>3. row \in Row /\ s \in Stamps
      BY <1>3, <1>4, <1>9
    <2>4. /\ new \in Row /\ new.status \in new.at /\ new # NoRow
          /\ s \in new.at /\ row.at \subseteq new.at
      <3>1. s \in new.at
        BY DEF ApplyStatus
      <3> QED
        BY <2>3, <3>1, ApplyStatusEffect, NoRowIsNoRow
    <2>5. old \in Row /\ msg[it.msg] # NoRow /\ old.at \subseteq msg[it.msg].at
      <3>1. CASE base[h][it.msg] = NoRow
        BY <1>2, <2>3, <3>1, NoRowIsNoRow DEF Loaded
      <3>2. CASE base[h][it.msg] # NoRow
        BY <1>2, <1>4, <3>2, HandlerFacts DEF CopyOK
      <3> QED
        BY <3>1, <3>2
    <2>6. base[h][it.msg] # NoRow => cur[h][it.msg].at \subseteq new.at
      BY <2>4 DEF Loaded
    <2> HIDE DEF it, s, row, old, new, f
    <2>7. /\ b \in [Messages -> Row \cup {NoRow}] /\ c \in [Messages -> Row \cup {NoRow}]
          /\ b[it.msg] = old /\ c[it.msg] = new
          /\ \A m \in Messages : m # it.msg => b[m] = base[h][m] /\ c[m] = cur[h][m]
      BY <1>2, <2>4, <2>5, HandlerFacts
    <2>8. \A m \in Messages : CopyOK(m, b[m], c[m])
      <3>1. CopyOK(it.msg, old, new)
        BY <2>4, <2>5 DEF CopyOK
      <3> QED
        BY <2>7, <3>1, HandlerFacts
    <2> HIDE DEF b, c
    <2>9. ASSUME NEW k \in f PROVE Applied(Items[h[1]][k], b, c)
      <3>1. CASE k = next[h]
        <4>1. b[it.msg] # NoRow
          BY <2>5, <2>7, NoRowIsNoRow
        <4>2. Applied(it, b, c)
          BY <1>9, <2>4, <2>7, <4>1 DEF Applied, s
        <4> QED
          BY <1>2, <3>1, <4>2
      <3>2. CASE k \in found[h]
        <4>1. Items[h[1]][k] \in StatusItem /\ Applied(Items[h[1]][k], base[h], cur[h])
          BY <1>1, <3>2, HandlerFacts DEF IsStatus
        <4>2. Items[h[1]][k].msg \in Messages
          BY <4>1 DEF StatusItem
        <4>3. b[it.msg] # NoRow
          BY <2>5, <2>7, NoRowIsNoRow
        <4>4. CASE Items[h[1]][k].msg = it.msg
          BY <2>6, <2>7, <4>1, <4>3, <4>4 DEF Applied
        <4>5. CASE Items[h[1]][k].msg # it.msg
          BY <2>7, <4>1, <4>2, <4>5 DEF Applied
        <4> QED
          BY <4>4, <4>5
      <3> QED
        BY <3>1, <3>2 DEF f
    <2>10. Moves(h, "processing", next[h] + 1, f, b, c)
      BY <1>1, <1>5, <1>6, <2>1, <2>2, <2>7, <2>8, <2>9, HandlerFacts DEF Moves, db
    <2> QED
      BY <2>10, HandlerStep
  <1> QED
    BY <1>7, <1>8, <1>9

\* Meta posts, or the flush fails.
LEMMA ReceivePreserves ==
  ASSUME IInv, NEW h \in Posts, Receive(h) \/ DbFailure(h)
  PROVE  IInv'
  <1> USE DEF Phases
  <1>1. CASE Receive(h)
    <2>1. PICK p \in {"received", "rejected"} :
              /\ pc[h] = "unsent" /\ pc' = [pc EXCEPT ![h] = p]
              /\ UNCHANGED <<db, acked, next, found, base, cur>>
      BY <1>1 DEF Receive
    <2>10. Moves(h, p, next[h], found[h], base[h], cur[h])
      BY <2>1, HandlerFacts DEF Moves, db
    <2> QED
      BY <2>10, HandlerStep
  <1>2. CASE DbFailure(h)
    <2> DEFINE none == [m \in Messages |-> NoRow]
    <2>1. /\ pc[h] # "answered" /\ pc' = [pc EXCEPT ![h] = "failed"]
          /\ next' = [next EXCEPT ![h] = 1] /\ found' = [found EXCEPT ![h] = {}]
          /\ base' = [base EXCEPT ![h] = none] /\ cur' = [cur EXCEPT ![h] = none]
          /\ UNCHANGED <<db, acked>>
      BY <1>2 DEF DbFailure, Finished
    <2>2. none \in [Messages -> Row \cup {NoRow}] /\ \A m \in Messages : CopyOK(m, none[m], none[m])
      BY DEF CopyOK
    <2> HIDE DEF none
    <2>10. Moves(h, "failed", 1, {}, none, none)
      BY <2>1, <2>2 DEF Moves, db
    <2> QED
      BY <2>10, HandlerStep
  <1> QED
    BY <1>1, <1>2

\* The commit of a handler writes what its session changed, and no other.
LEMMA CommitPreserves ==
  ASSUME IInv, NEW h \in Posts, Commit(h)
  PROVE  IInv'
  <1>1. /\ UNCHANGED <<acked, next, found, base, cur>> /\ Finished(h)
        /\ pc' = [pc EXCEPT ![h] = "answered"]
        /\ event' = [event EXCEPT ![h] = IF pc[h] = "errored" THEN "unprocessed" ELSE "processed"]
        /\ inbound' = [i \in InboundIds |-> IF i \in Saved(h) THEN inbound[i] \cup {h} ELSE inbound[i]]
    BY DEF Commit
  <1>2. /\ pc'[h] = "answered" /\ event'[h] = IF pc[h] = "errored" THEN "unprocessed" ELSE "processed"
        /\ \A g \in Posts \ {h} : pc'[g] = pc[g] /\ event'[g] = event[g]
    BY <1>1 DEF IInv, TypeOK
  <1>3. TypeOK'
    <2>1. msg' \in [Messages -> Row \cup {NoRow}]
      <3>1. msg' = [m \in Messages |-> msg'[m]]
        BY DEF Commit
      <3> QED
        BY <3>1, CommitRow
    <2>2. inbound' \in [InboundIds -> SUBSET Posts]
      BY <1>1 DEF IInv, TypeOK
    <2>3. event' \in [Posts -> {"none", "processed", "unprocessed"}] /\ pc' \in [Posts -> Phases]
      BY <1>1 DEF IInv, TypeOK, Phases
    <2> QED
      BY <1>1, <2>1, <2>2, <2>3 DEF IInv, TypeOK
  <1>4. StampedStatus'
    BY CommitRow DEF StampedStatus
  <1>5. CopyInv'
    <2> SUFFICES ASSUME NEW g \in Posts, NEW m \in Messages
                 PROVE  CopyOK(m, base[g][m], cur[g][m])'
      BY <1>1 DEF CopyInv
    <2>1. CopyOK(m, base[g][m], cur[g][m])
      BY DEF IInv, CopyInv
    <2>2. msg[m] # NoRow => msg'[m] # NoRow /\ msg[m].at \subseteq msg'[m].at
      BY CommitRow
    <2> QED
      BY <1>1, <2>1, <2>2 DEF CopyOK
  <1>6. EffectsKept'
    <2> SUFFICES ASSUME NEW g \in Posts, NEW m \in Messages,
                        pc'[g] = "answered", base[g][m] # NoRow
                 PROVE  cur[g][m].at \subseteq msg'[m].at
      BY <1>1 DEF EffectsKept
    <2>1. CASE g = h
      BY <2>1, CommitRow
    <2>2. CASE g # h
      <3>1. cur[g][m].at \subseteq msg[m].at /\ msg[m] # NoRow
        BY <1>2, <2>2 DEF IInv, EffectsKept, CopyInv, CopyOK
      <3> QED
        BY <3>1, CommitRow
    <2> QED
      BY <2>1, <2>2
  <1>7. HandlerInv'
    <2>1. \A g \in Posts : Saved(g)' = Saved(g) /\ next'[g] = next[g]
      BY <1>1 DEF Saved
    <2>2. \A g \in Posts : \A i \in Saved(g) : i \in InboundIds
      <3> SUFFICES ASSUME NEW g \in Posts, NEW n \in Ours(g[1]) PROVE Items[g[1]][n].inbounds \subseteq InboundIds
        BY DEF Saved
      <3>1. Items[g[1]][n] \in ChangeItem \cup StatusItem /\ Items[g[1]][n].kind = "change"
        BY PayloadAssumption DEF Ours, Posts
      <3>2. \A x \in StatusItem : x.kind = "status"
        BY DEF StatusItem
      <3>3. Items[g[1]][n] \in ChangeItem
        BY <3>1, <3>2
      <3> QED
        BY <3>3 DEF ChangeItem
    <2>3. \A g \in Posts : pc'[g] = "answered" => \A i \in Saved(g) : g \in inbound'[i]
      BY <1>1, <1>2, <2>2 DEF IInv, HandlerInv
    <2>4. /\ event'[h] = "processed" => next[h] > Len(Items[h[1]])
          /\ event'[h] = "unprocessed" => next[h] \notin Ours(h[1])
      BY <1>1, <1>2 DEF Finished, IInv, HandlerInv
    <2> QED
      BY <1>2, <2>1, <2>3, <2>4 DEF IInv, HandlerInv
  <1>8. AckInv'
    BY <1>1 DEF IInv, AckInv, TypeOK, Posts
  <1>9. FoundInv'
    <2>1. \A m \in Messages : msg[m].at \subseteq msg'[m].at
      <3> SUFFICES ASSUME NEW m \in Messages PROVE msg[m].at \subseteq msg'[m].at
        OBVIOUS
      <3>1. CASE msg[m] = NoRow
        BY <3>1 DEF NoRow
      <3>2. CASE msg[m] # NoRow
        BY <3>2, CommitRow
      <3> QED
        BY <3>1, <3>2
    <2>2. ASSUME NEW g \in Posts, NEW n \in found[g],
                 pc'[g] = "processing" \/ event'[g] = "processed"
          PROVE  Applied(Items[g[1]][n], base[g], cur[g])'
      <3> DEFINE it == Items[g[1]][n]
      <3>1. pc[g] = "processing" \/ event[g] = "processed"
        BY <1>1, <1>2, <2>2 DEF Finished
      <3>2. it \in StatusItem /\ Applied(it, base[g], cur[g])
        BY <3>1 DEF IInv, FoundInv, IsStatus
      <3>3. it.msg \in Messages
        BY <3>2 DEF StatusItem
      <3> HIDE DEF it
      <3>4. Applied(it, base[g], cur[g])'
        BY <1>1, <2>1, <3>2, <3>3 DEF Applied, it
      <3> QED
        BY <3>4 DEF it
    <2> QED
      BY <1>1, <1>2, <2>2 DEF IInv, FoundInv
  <1> QED
    BY <1>3, <1>4, <1>5, <1>6, <1>7, <1>8, <1>9 DEF IInv

\* A send commits a row that nobody has a copy of.
LEMMA SendPreserves ==
  ASSUME IInv, NEW m \in Messages, SendCommits(m)
  PROVE  IInv'
  <1> DEFINE r0 == [status |-> "sent", at |-> {"sent"}]
  <1>1. r0 \in Row /\ r0.status \in r0.at /\ r0 # NoRow /\ msg[m] = NoRow
    BY DEF Row, Stamps, NoRow, SendCommits
  <1>2. msg' = [msg EXCEPT ![m] = r0] /\ UNCHANGED <<inbound, event, acked, pc, next, found, base, cur>>
    BY DEF SendCommits
  <1> HIDE DEF r0
  <1>3. TypeOK'
    BY <1>1, <1>2 DEF IInv, TypeOK
  <1>4. StampedStatus'
    BY <1>1, <1>2 DEF IInv, TypeOK, StampedStatus
  <1>5. \A x \in Messages : (msg[x] # NoRow => msg'[x] = msg[x]) /\ msg[x].at \subseteq msg'[x].at
    <2>1. \A x \in Messages : x # m => msg'[x] = msg[x]
      BY <1>2 DEF IInv, TypeOK
    <2>2. msg[m].at = {}
      BY <1>1 DEF NoRow
    <2> QED
      BY <1>1, <2>1, <2>2
  <1>6. CopyInv' /\ EffectsKept'
    BY <1>2, <1>5 DEF IInv, CopyInv, CopyOK, EffectsKept
  <1>7. HandlerInv' /\ AckInv'
    BY <1>2 DEF IInv, HandlerInv, AckInv, Saved
  <1>8. FoundInv'
    <2>1. ASSUME NEW it \in StatusItem, NEW h \in Posts, Applied(it, base[h], cur[h])
          PROVE  Applied(it, base[h], cur[h])'
      <3>1. it.msg \in Messages
        BY DEF StatusItem
      <3> QED
        BY <1>2, <1>5, <2>1, <3>1 DEF Applied
    <2> QED
      BY <1>2, <2>1 DEF IInv, FoundInv, IsStatus
  <1> QED
    BY <1>3, <1>4, <1>6, <1>7, <1>8 DEF IInv

\* Meta gets the answer.
LEMMA AckPreserves ==
  ASSUME IInv, NEW h \in Posts, Ack(h)
  PROVE  IInv'
  <1>1. /\ UNCHANGED <<msg, inbound, event, pc, next, found, base, cur>>
        /\ acked' = acked \cup {h[1]} /\ pc[h] = "answered"
    BY DEF Ack, db
  <1>2. h[1] \in Payloads /\ h[2] \in 1 .. MaxPosts /\ h = <<h[1], h[2]>>
    BY DEF Posts
  <1>3. TypeOK'
    BY <1>1, <1>2 DEF IInv, TypeOK
  <1>4. CopyInv' /\ EffectsKept' /\ StampedStatus'
    BY <1>1 DEF IInv, CopyInv, CopyOK, EffectsKept, StampedStatus
  <1>5. HandlerInv' /\ FoundInv'
    BY <1>1 DEF IInv, HandlerInv, Saved, FoundInv, Applied
  <1>6. AckInv'
    BY <1>1, <1>2 DEF IInv, AckInv
  <1> QED
    BY <1>3, <1>4, <1>5, <1>6 DEF IInv

\* Every step of Meta and of a handler preserves the invariant.
LEMMA IInvStep == IInv /\ [Next]_vars => IInv'
  <1> SUFFICES ASSUME IInv, [Next]_vars PROVE IInv'
    OBVIOUS
  <1>1. CASE \E m \in Messages : SendCommits(m)
    BY <1>1, SendPreserves
  <1>2. CASE \E h \in Posts : Receive(h) \/ Handle(h) \/ Ack(h)
    BY <1>2, ReceivePreserves, LookUpPreserves, ItemPreserves, CommitPreserves, AckPreserves DEF Handle
  <1>3. CASE UNCHANGED vars
    <2>1. TypeOK' /\ StampedStatus' /\ CopyInv' /\ EffectsKept'
      BY <1>3 DEF vars, IInv, TypeOK, StampedStatus, CopyInv, CopyOK, EffectsKept
    <2>2. HandlerInv' /\ AckInv' /\ FoundInv'
      BY <1>3 DEF vars, IInv, HandlerInv, AckInv, FoundInv, Saved, Applied
    <2> QED
      BY <2>1, <2>2 DEF IInv
  <1> QED
    BY <1>1, <1>2, <1>3 DEF Next

\* The inductive invariant holds in every reachable state.
THEOREM SpecIInv == Spec => []IInv
  BY InitIInv, IInvStep, PTL DEF Spec

\* However handlers interleave, a row never shows a status without its stamp.
THEOREM StatusesAreStamped == Spec => []StampedStatus
  <1>1. IInv => StampedStatus
    BY DEF IInv
  <1> QED
    BY <1>1, SpecIInv, PTL

\* No handler that works on a stale copy erases a stamp another committed.
THEOREM EffectsAreKept == Spec => []EffectsKept
  <1>1. IInv => EffectsKept
    BY DEF IInv
  <1> QED
    BY <1>1, SpecIInv, PTL

\* When Meta has its 200, the inbound messages of the payload are in the table,
\* but for those behind an item that raised, which the event records.
THEOREM InboundIsKept == Spec => []InboundKept
  <1>1. IInv => InboundKept
    <2> SUFFICES ASSUME IInv, NEW p \in acked
                 PROVE  \E h \in Posts :
                            /\ h[1] = p /\ event[h] # "none"
                            /\ \A n \in Ours(p) :
                                \/ \A i \in Items[p][n].inbounds : h \in inbound[i]
                                \/ event[h] = "unprocessed" /\ next[h] < n
      BY DEF InboundKept
    <2>1. PICK k \in 1 .. MaxPosts : pc[<<p, k>>] = "answered"
      BY DEF IInv, AckInv
    <2> DEFINE h == <<p, k>>
    <2>2. h \in Posts /\ h[1] = p
      BY DEF IInv, TypeOK, Posts
    <2> HIDE DEF h
    <2>3. /\ event[h] # "none" /\ \A i \in Saved(h) : h \in inbound[i]
          /\ event[h] = "processed" => next[h] > Len(Items[p])
          /\ event[h] = "unprocessed" => next[h] \notin Ours(p)
          /\ event[h] \in {"none", "processed", "unprocessed"} /\ next[h] \in Nat
      BY <2>1, <2>2 DEF IInv, TypeOK, HandlerInv, h
    <2>4. ASSUME NEW n \in Ours(p)
          PROVE  \/ \A i \in Items[p][n].inbounds : h \in inbound[i]
                 \/ event[h] = "unprocessed" /\ next[h] < n
      <3>1. n \in 1 .. Len(Items[p]) /\ Len(Items[p]) \in Nat
        BY PayloadAssumption DEF Ours, IInv, TypeOK
      <3>2. CASE n < next[h]
        <4>1. \A i \in Items[p][n].inbounds : i \in Saved(h)
          BY <2>2, <3>2 DEF Saved
        <4> QED
          BY <2>3, <4>1
      <3>3. CASE ~(n < next[h])
        BY <2>3, <3>1, <3>3
      <3> QED
        BY <3>2, <3>3
    <2> QED
      BY <2>2, <2>3, <2>4
  <1> QED
    BY <1>1, SpecIInv, PTL

\* Rows, events and sessions keep their types, for any payloads.
THEOREM TypeCorrect == Spec => []TypeOK
  <1>1. IInv => TypeOK
    BY DEF IInv
  <1> QED
    BY <1>1, SpecIInv, PTL

\* An event recorded as processed has been gone through to its end and has
\* stamped every message it found, for any payload and whatever other handlers
\* flush before and after.
THEOREM ProcessedIsApplied == Spec => []ProcessedMeansApplied
  <1>1. IInv => ProcessedMeansApplied
    <2> SUFFICES ASSUME IInv, NEW h \in Posts, event[h] = "processed"
                 PROVE  /\ next[h] > Len(Items[h[1]])
                        /\ \A n \in found[h] :
                            LET it == Items[h[1]][n] IN
                            it.parses /\ StatusMap(it.raw) \in msg[it.msg].at
      BY DEF ProcessedMeansApplied
    <2>1. next[h] > Len(Items[h[1]]) /\ pc[h] = "answered"
      BY DEF IInv, HandlerInv
    <2>2. ASSUME NEW n \in found[h]
          PROVE  Items[h[1]][n].parses /\ StatusMap(Items[h[1]][n].raw) \in msg[Items[h[1]][n].msg].at
      <3> DEFINE it == Items[h[1]][n]
      <3>1. it \in StatusItem /\ Applied(it, base[h], cur[h])
        BY DEF IInv, FoundInv, IsStatus
      <3> HIDE DEF it
      <3>2. it.msg \in Messages
        BY <3>1 DEF StatusItem
      <3>3. base[h][it.msg] # NoRow => cur[h][it.msg].at \subseteq msg[it.msg].at
        BY <2>1, <3>2 DEF IInv, EffectsKept
      <3>4. it.parses /\ StatusMap(it.raw) \in msg[it.msg].at
        BY <3>1, <3>3 DEF Applied
      <3> QED
        BY <3>4 DEF it
    <2> QED
      BY <2>1, <2>2
  <1> QED
    BY <1>1, SpecIInv, PTL
=============================================================================
