------------------------- MODULE RateLimiter_proofs -------------------------
(***************************************************************************)
(* Theorems about RateLimiter for any callers, recipients, capacities and  *)
(* windows, and any number of failing commands and resets.                 *)
(***************************************************************************)
EXTENDS RateLimiter, TLAPS

\* The keys of a bucket that reset_recipient has deleted.
Resets(b) == IF b = Sec THEN 0 ELSE resets

\* The most approvals the present key can have given.
Given(b) == IF count[b] > Capacity[b] THEN Capacity[b] ELSE count[b]

\* All that was approved since the present key got its time to live was
\* approved by it, and when it expires nothing older is left in the window.
TtlInv ==
    \A b \in Buckets :
        /\ recent[b][0] = 0
        /\ ttl[b] > 0 => recent[b][Window[b] - ttl[b]] <= Given(b)

\* What else the window holds comes from the key that expired last and from
\* those that were deleted.
WindowInv ==
    \A b \in Buckets : Approvals(b) <= Given(b) + (1 + Resets(b)) * Capacity[b]

\* A longer past holds no fewer approvals.
TotalsInv ==
    \A b \in Buckets : \A n \in 1 .. Window[b] : recent[b][n - 1] <= recent[b][n]

\* The inductive invariant.
IInv == TypeOK /\ TtlInv /\ WindowInv /\ TotalsInv

-----------------------------------------------------------------------------
\* Constants and variables of one bucket.
LEMMA BucketTypes ==
    ASSUME TypeOK, NEW b \in Buckets
    PROVE  /\ Capacity[b] \in Nat \ {0} /\ Window[b] \in Nat \ {0}
           /\ count[b] \in Nat /\ count[b] <= Capacity[b] + 1
           /\ ttl[b] \in Nat /\ ttl[b] <= Window[b]
           /\ recent[b] \in [0 .. Window[b] -> Nat]
           /\ Resets(b) \in Nat /\ Given(b) \in Nat /\ Given(b) <= Capacity[b]
  BY CapacityAssumption, WindowAssumption, FaultAssumption DEF TypeOK, Resets, Given

\* Another reset adds one capacity to the bound.
LEMMA OneMoreKey ==
    ASSUME NEW n \in Nat, NEW c \in Nat
    PROVE  /\ (1 + (n + 1)) * c = (1 + n) * c + c
           /\ (2 + n) * c = (1 + n) * c + c
           /\ (1 + n) * c \in Nat /\ c <= (1 + n) * c
  OBVIOUS

\* The invariant at the start.
LEMMA InitIInv == Init => IInv
  <1> SUFFICES ASSUME Init PROVE IInv
    OBVIOUS
  <1>1. TypeOK
    BY CapacityAssumption, WindowAssumption, FaultAssumption DEF Init, TypeOK
  <1>2. TtlInv
    BY <1>1, BucketTypes DEF Init, TtlInv
  <1>3. WindowInv
    <2> SUFFICES ASSUME NEW b \in Buckets
                 PROVE  Approvals(b) <= Given(b) + (1 + Resets(b)) * Capacity[b]
      BY DEF WindowInv
    <2>1. Approvals(b) = 0
      BY <1>1, BucketTypes DEF Init, Approvals
    <2> QED
      BY <1>1, <2>1, BucketTypes, OneMoreKey
  <1>4. TotalsInv
    BY <1>1, BucketTypes DEF Init, TotalsInv
  <1> QED
    BY <1>1, <1>2, <1>3, <1>4 DEF IInv

\* A bucket that is not touched keeps its part of the invariant.
LEMMA Untouched ==
    ASSUME IInv, TypeOK', NEW b \in Buckets,
           count'[b] = count[b], ttl'[b] = ttl[b], recent'[b] = recent[b],
           resets' \in {resets, resets + 1}
    PROVE  /\ recent'[b][0] = 0
           /\ ttl'[b] > 0 => recent'[b][Window[b] - ttl'[b]] <= Given(b)'
           /\ Approvals(b)' <= Given(b)' + (1 + Resets(b)') * Capacity[b]
  <1>1. Given(b)' = Given(b) /\ Approvals(b)' = Approvals(b)
    BY DEF Given, Approvals
  <1>2. recent[b][0] = 0 /\ (ttl[b] > 0 => recent[b][Window[b] - ttl[b]] <= Given(b))
    BY DEF IInv, TtlInv
  <1>3. Approvals(b) <= Given(b) + (1 + Resets(b)) * Capacity[b]
    BY DEF IInv, WindowInv
  <1>4. Approvals(b) \in Nat /\ Given(b) \in Nat /\ Resets(b) \in Nat /\ Capacity[b] \in Nat
    BY BucketTypes DEF IInv, Approvals
  <1>5. Resets(b)' \in {Resets(b), Resets(b) + 1}
    BY DEF Resets
  <1>6. /\ (1 + Resets(b)) * Capacity[b] \in Nat
        /\ (1 + (Resets(b) + 1)) * Capacity[b] = (1 + Resets(b)) * Capacity[b] + Capacity[b]
    BY <1>4, OneMoreKey
  <1>7. Approvals(b) <= Given(b) + (1 + Resets(b)') * Capacity[b]
    <2>1. CASE Resets(b)' = Resets(b)
      BY <1>3, <2>1
    <2>2. CASE Resets(b)' = Resets(b) + 1
      BY <1>3, <1>4, <1>6, <2>2
    <2> QED
      BY <1>5, <2>1, <2>2
  <1> QED
    BY <1>1, <1>2, <1>7

\* INCR by any caller: the present key gives one more approval, or none.
LEMMA IncrPreserves ==
    ASSUME IInv, NEW c \in Callers, NEW b \in Buckets,
           NEW expire \in {"expire_sec", "expire_recip"}, NEW after \in {"incr_recip", "idle"},
           Incr(c, b, expire, after), to' \in [Callers -> Recipients]
    PROVE  IInv'
  <1> DEFINE totals == recent[b]
  <1>1. /\ Capacity[b] \in Nat \ {0} /\ Window[b] \in Nat \ {0}
        /\ count[b] \in Nat /\ count[b] <= Capacity[b] + 1 /\ ttl[b] \in Nat /\ ttl[b] <= Window[b]
        /\ totals \in [0 .. Window[b] -> Nat]
    BY BucketTypes DEF IInv
  <1>2. OneMore(totals) \in [0 .. Window[b] -> Nat]
    BY <1>1 DEF OneMore
  <1>3. \/ Approves(b) /\ recent' = [recent EXCEPT ![b] = OneMore(totals)]
        \/ ~Approves(b) /\ recent' = recent
    BY DEF Incr
  <1>4. TypeOK'
    <2>1. count' \in [Buckets -> Nat] /\ \A x \in Buckets : count'[x] <= Capacity[x] + 1
      <3>1. Incremented(b) \in Nat /\ Incremented(b) <= Capacity[b] + 1
        BY <1>1 DEF Incremented
      <3>2. count' = [count EXCEPT ![b] = Incremented(b)]
        BY DEF Incr
      <3> QED
        BY <3>1, <3>2 DEF IInv, TypeOK
    <2>2. DOMAIN recent' = Buckets /\ \A x \in Buckets : recent'[x] \in [0 .. Window[x] -> Nat]
      BY <1>2, <1>3 DEF IInv, TypeOK
    <2>3. pc' \in [Callers -> {"idle", "expire_sec", "incr_recip", "expire_recip"}]
      BY DEF Incr, IInv, TypeOK
    <2> QED
      BY <2>1, <2>2, <2>3 DEF Incr, IInv, TypeOK
  <1>5. count'[b] = Incremented(b) /\ UNCHANGED <<ttl, resets>>
    BY DEF Incr, IInv, TypeOK
  <1>6. \A x \in Buckets : x # b => count'[x] = count[x] /\ recent'[x] = recent[x]
    BY <1>3 DEF Incr, IInv, TypeOK
  <1>7. /\ Given(b)' \in Nat /\ Given(b) \in Nat /\ Given(b) <= Given(b)'
        /\ Approves(b) => Given(b)' = Given(b) + 1
    BY <1>1, <1>5 DEF Given, Incremented, Approves
  <1>8. /\ recent'[b][0] = 0
        /\ \A n \in 0 .. Window[b] : recent'[b][n] <= totals[n] + (Given(b)' - Given(b))
    <2>1. CASE Approves(b)
      <3>1. recent'[b] = OneMore(totals)
        BY <1>3, <2>1 DEF IInv, TypeOK
      <3>2. \A n \in 0 .. Window[b] :
                OneMore(totals)[n] = IF n = 0 THEN 0 ELSE totals[n] + 1
        BY <1>1 DEF OneMore
      <3>3. \A n \in 0 .. Window[b] : totals[n] \in Nat
        BY <1>1
      <3>4. Given(b)' - Given(b) = 1 /\ 0 \in 0 .. Window[b]
        BY <1>1, <1>7, <2>1
      <3> QED
        BY <3>1, <3>2, <3>3, <3>4
    <2>2. CASE ~Approves(b)
      BY <1>1, <1>3, <1>7, <2>2 DEF IInv, TtlInv
    <2> QED
      BY <2>1, <2>2
  <1>9. \A n \in 0 .. Window[b] : recent'[b][n] \in Nat
    BY <1>4 DEF TypeOK
  <1>10. ttl[b] > 0 => recent'[b][Window[b] - ttl[b]] <= Given(b)'
    <2> SUFFICES ASSUME ttl[b] > 0
                 PROVE  recent'[b][Window[b] - ttl[b]] <= Given(b)'
      OBVIOUS
    <2>1. Window[b] - ttl[b] \in 0 .. Window[b]
      BY <1>1
    <2>2. totals[Window[b] - ttl[b]] <= Given(b)
      BY DEF IInv, TtlInv
    <2>3. totals[Window[b] - ttl[b]] \in Nat
      BY <1>1, <2>1
    <2> QED
      BY <1>7, <1>8, <1>9, <2>1, <2>2, <2>3
  <1>11. Approvals(b)' <= Given(b)' + (1 + Resets(b)) * Capacity[b]
    <2>1. totals[Window[b]] <= Given(b) + (1 + Resets(b)) * Capacity[b]
      BY DEF IInv, WindowInv, Approvals
    <2>2. (1 + Resets(b)) * Capacity[b] \in Nat
      BY BucketTypes, OneMoreKey DEF IInv
    <2>3. recent'[b][Window[b]] <= totals[Window[b]] + (Given(b)' - Given(b))
      BY <1>1, <1>8
    <2>4. totals[Window[b]] \in Nat /\ recent'[b][Window[b]] \in Nat
      BY <1>1, <1>9
    <2>5. Approvals(b)' = recent'[b][Window[b]]
      BY DEF Approvals
    <2> HIDE DEF totals
    <2> QED
      BY <1>7, <2>1, <2>2, <2>3, <2>4, <2>5
  <1>12. Resets(b)' = Resets(b)
    BY <1>5 DEF Resets
  <1>13. TtlInv'
    BY <1>4, <1>5, <1>6, <1>8, <1>10, Untouched DEF TtlInv
  <1>14. WindowInv'
    BY <1>4, <1>5, <1>6, <1>11, <1>12, Untouched DEF WindowInv
  <1>15. TotalsInv'
    <2> SUFFICES ASSUME NEW x \in Buckets, NEW n \in 1 .. Window[x]
                 PROVE  recent'[x][n - 1] <= recent'[x][n]
      BY DEF TotalsInv
    <2>1. recent[x][n - 1] <= recent[x][n]
      BY DEF IInv, TotalsInv
    <2>2. CASE recent'[x] = recent[x]
      BY <2>1, <2>2
    <2>3. CASE x = b /\ recent' = [recent EXCEPT ![b] = OneMore(totals)]
      <3>1. recent'[x] = OneMore(totals)
        BY <2>3 DEF IInv, TypeOK
      <3>2. n \in 0 .. Window[b] /\ n - 1 \in 0 .. Window[b] /\ n # 0
        BY <1>1, <2>3
      <3>3. /\ OneMore(totals)[n] = totals[n] + 1
            /\ OneMore(totals)[n - 1] = IF n - 1 = 0 THEN 0 ELSE totals[n - 1] + 1
        BY <1>1, <3>2 DEF OneMore
      <3>4. totals[n] \in Nat /\ totals[n - 1] \in Nat
        BY <1>1, <3>2
      <3> QED
        BY <2>1, <2>3, <3>1, <3>3, <3>4
    <2> QED
      BY <1>3, <1>6, <2>2, <2>3
  <1> QED
    BY <1>4, <1>13, <1>14, <1>15 DEF IInv

\* EXPIRE: nothing has been approved since.
LEMMA ExpirePreserves ==
    ASSUME IInv, NEW c \in Callers, NEW b \in Buckets, NEW after \in {"incr_recip", "idle"},
           Expire(c, b, after)
    PROVE  IInv'
  <1>1. /\ pc' = [pc EXCEPT ![c] = after] /\ UNCHANGED <<count, to, recent, faults, resets>>
        /\ ttl' = ttl \/ ttl' = [ttl EXCEPT ![b] = Window[b]]
    BY DEF Expire
  <1>2. TypeOK'
    <2>1. ttl' \in [Buckets -> Nat] /\ \A x \in Buckets : ttl'[x] <= Window[x]
      <3>1. \A x \in Buckets : Window[x] \in Nat /\ Window[x] <= Window[x]
        BY WindowAssumption
      <3>2. CASE ttl' = ttl
        BY <3>2 DEF IInv, TypeOK
      <3>3. CASE ttl' = [ttl EXCEPT ![b] = Window[b]]
        BY <3>1, <3>3 DEF IInv, TypeOK
      <3> QED
        BY <1>1, <3>2, <3>3
    <2>2. pc' \in [Callers -> {"idle", "expire_sec", "incr_recip", "expire_recip"}]
      BY <1>1 DEF IInv, TypeOK
    <2> QED
      BY <1>1, <2>1, <2>2 DEF IInv, TypeOK
  <1>3. \A x \in Buckets : ttl'[x] = ttl[x] \/ ttl'[x] = Window[x]
    BY <1>1 DEF IInv, TypeOK
  <1>4. \A x \in Buckets : /\ Given(x)' = Given(x) /\ Given(x) \in Nat /\ Window[x] \in Nat
                           /\ Approvals(x)' = Approvals(x) /\ Resets(x)' = Resets(x)
    BY <1>1, BucketTypes DEF Given, Approvals, Resets, IInv
  <1>5. TtlInv'
    <2> SUFFICES ASSUME NEW x \in Buckets
                 PROVE  /\ recent[x][0] = 0
                        /\ ttl'[x] > 0 => recent[x][Window[x] - ttl'[x]] <= Given(x)
      BY <1>1, <1>4 DEF TtlInv
    <2>1. recent[x][0] = 0 /\ (ttl[x] > 0 => recent[x][Window[x] - ttl[x]] <= Given(x))
      BY DEF IInv, TtlInv
    <2>2. Window[x] - Window[x] = 0
      BY <1>4
    <2> QED
      BY <1>3, <1>4, <2>1, <2>2
  <1>6. WindowInv'
    BY <1>1, <1>4 DEF IInv, WindowInv
  <1>7. TotalsInv'
    BY <1>1 DEF IInv, TotalsInv
  <1> QED
    BY <1>2, <1>5, <1>6, <1>7 DEF IInv

\* A command that fails counts at most once and approves nothing.
LEMMA RedisErrorPreserves ==
    ASSUME IInv, NEW c \in Callers, RedisError(c)
    PROVE  IInv'
  <1>1. \A x \in Buckets : Incremented(x) \in Nat /\ Incremented(x) <= Capacity[x] + 1
    BY BucketTypes DEF IInv, Incremented
  <1>2. PICK b \in Buckets : count' = count \/ count' = [count EXCEPT ![b] = Incremented(b)]
    <2>1. Sec \in Buckets /\ to[c] \in Buckets
      BY DEF Buckets, IInv, TypeOK
    <2> QED
      BY <2>1 DEF RedisError
  <1>3. /\ pc' = [pc EXCEPT ![c] = "idle"] /\ faults' = faults + 1 /\ faults < MaxFaults
        /\ UNCHANGED <<ttl, to, recent, resets>>
    BY DEF RedisError
  <1>4. TypeOK'
    <2>1. count' \in [Buckets -> Nat] /\ \A x \in Buckets : count'[x] <= Capacity[x] + 1
      BY <1>1, <1>2 DEF IInv, TypeOK
    <2>2. pc' \in [Callers -> {"idle", "expire_sec", "incr_recip", "expire_recip"}]
      BY <1>3 DEF IInv, TypeOK
    <2>3. faults' \in 0 .. MaxFaults
      BY <1>3, FaultAssumption DEF IInv, TypeOK
    <2> QED
      BY <1>3, <2>1, <2>2, <2>3 DEF IInv, TypeOK
  <1>5. \A x \in Buckets : count'[x] = count[x] \/ count'[x] = Incremented(x)
    BY <1>2 DEF IInv, TypeOK
  <1>6. \A x \in Buckets :
            /\ Given(x) \in Nat /\ Given(x)' \in Nat /\ Given(x) <= Given(x)'
            /\ Approvals(x)' = Approvals(x) /\ Approvals(x) \in Nat /\ Resets(x)' = Resets(x)
    BY <1>3, <1>5, BucketTypes DEF Given, Incremented, Approvals, Resets, IInv
  <1>7. TtlInv'
    <2> SUFFICES ASSUME NEW x \in Buckets
                 PROVE  /\ recent[x][0] = 0
                        /\ ttl[x] > 0 => recent[x][Window[x] - ttl[x]] <= Given(x)'
      BY <1>3 DEF TtlInv
    <2>1. recent[x][0] = 0 /\ (ttl[x] > 0 => recent[x][Window[x] - ttl[x]] <= Given(x))
      BY DEF IInv, TtlInv
    <2>2. ttl[x] > 0 => recent[x][Window[x] - ttl[x]] \in Nat
      <3>1. /\ ttl[x] \in Nat /\ Window[x] \in Nat /\ ttl[x] <= Window[x]
            /\ recent[x] \in [0 .. Window[x] -> Nat]
        BY BucketTypes DEF IInv
      <3>2. Window[x] - ttl[x] \in 0 .. Window[x]
        BY <3>1
      <3> QED
        BY <3>1, <3>2
    <2> QED
      BY <1>6, <2>1, <2>2
  <1>8. WindowInv'
    <2> SUFFICES ASSUME NEW x \in Buckets
                 PROVE  Approvals(x) <= Given(x)' + (1 + Resets(x)) * Capacity[x]
      BY <1>6 DEF WindowInv
    <2>1. Approvals(x) <= Given(x) + (1 + Resets(x)) * Capacity[x]
      BY DEF IInv, WindowInv
    <2>2. (1 + Resets(x)) * Capacity[x] \in Nat
      BY BucketTypes, OneMoreKey DEF IInv
    <2> QED
      BY <1>6, <2>1, <2>2
  <1>9. TotalsInv'
    BY <1>3 DEF IInv, TotalsInv
  <1> QED
    BY <1>4, <1>7, <1>8, <1>9 DEF IInv

\* A reset deletes the key: what it had given counts as that of a deleted one.
LEMMA ResetPreserves ==
    ASSUME IInv, NEW r \in Recipients, ResetRecipient(r)
    PROVE  IInv'
  <1>1. /\ count' = [count EXCEPT ![r] = 0] /\ ttl' = [ttl EXCEPT ![r] = 0]
        /\ resets' = resets + 1 /\ resets < MaxResets /\ UNCHANGED <<pc, to, recent, faults>>
    BY DEF ResetRecipient
  <1>2. r \in Buckets /\ r # Sec
    BY BucketAssumption DEF Buckets
  <1>3. TypeOK'
    <2>1. count' \in [Buckets -> Nat] /\ \A x \in Buckets : count'[x] <= Capacity[x] + 1
      <3>1. \A x \in Buckets : 0 <= Capacity[x] + 1
        BY CapacityAssumption
      <3> QED
        BY <1>1, <3>1 DEF IInv, TypeOK
    <2>2. ttl' \in [Buckets -> Nat] /\ \A x \in Buckets : ttl'[x] <= Window[x]
      <3>1. \A x \in Buckets : 0 <= Window[x]
        BY WindowAssumption
      <3> QED
        BY <1>1, <3>1 DEF IInv, TypeOK
    <2>3. resets' \in 0 .. MaxResets
      BY <1>1, FaultAssumption DEF IInv, TypeOK
    <2> QED
      BY <1>1, <2>1, <2>2, <2>3 DEF IInv, TypeOK
  <1>4. count'[r] = 0 /\ ttl'[r] = 0 /\ recent'[r] = recent[r]
    BY <1>1, <1>2 DEF IInv, TypeOK
  <1>5. Approvals(r)' <= Given(r)' + (1 + Resets(r)') * Capacity[r]
    <2>1. Approvals(r) <= Given(r) + (1 + Resets(r)) * Capacity[r]
      BY <1>2 DEF IInv, WindowInv
    <2>2. /\ Approvals(r) \in Nat /\ Given(r) \in Nat /\ Given(r) <= Capacity[r]
          /\ Resets(r) \in Nat /\ Capacity[r] \in Nat
      BY <1>2, BucketTypes DEF IInv, Approvals
    <2>3. /\ (1 + Resets(r)) * Capacity[r] \in Nat
          /\ (1 + (Resets(r) + 1)) * Capacity[r] = (1 + Resets(r)) * Capacity[r] + Capacity[r]
      BY <2>2, OneMoreKey
    <2>4. Given(r)' = 0 /\ Resets(r)' = Resets(r) + 1 /\ Approvals(r)' = Approvals(r)
      BY <1>1, <1>2, <1>4, <2>2 DEF Given, Resets, Approvals
    <2> QED
      BY <2>1, <2>2, <2>3, <2>4
  <1>6. \A x \in Buckets : x # r =>
            count'[x] = count[x] /\ ttl'[x] = ttl[x] /\ recent'[x] = recent[x]
    BY <1>1 DEF IInv, TypeOK
  <1>7. TtlInv'
    <2>1. recent'[r][0] = 0 /\ ~(ttl'[r] > 0)
      BY <1>2, <1>4 DEF IInv, TtlInv
    <2> QED
      BY <1>1, <1>3, <1>6, <2>1, Untouched DEF TtlInv
  <1>8. WindowInv'
    BY <1>1, <1>3, <1>5, <1>6, Untouched DEF WindowInv
  <1>9. TotalsInv'
    BY <1>1 DEF IInv, TotalsInv
  <1> QED
    BY <1>3, <1>7, <1>8, <1>9 DEF IInv

\* A tick: what is left when a key expires was approved by that key.
LEMMA TickPreserves ==
    ASSUME IInv, Tick
    PROVE  IInv'
  <1> USE DEF IInv
  <1>1. ASSUME NEW b \in Buckets
        PROVE  /\ count'[b] = IF ttl[b] = 1 THEN 0 ELSE count[b]
               /\ ttl'[b] = IF ttl[b] = 0 THEN 0 ELSE ttl[b] - 1
               /\ recent'[b] \in [0 .. Window[b] -> Nat]
               /\ \A n \in 0 .. Window[b] :
                    recent'[b][n] = IF n = 0 THEN 0 ELSE recent[b][n - 1]
    <2>1. recent[b] \in [0 .. Window[b] -> Nat]
      BY BucketTypes
    <2>2. recent'[b] = [n \in 0 .. Window[b] |-> IF n = 0 THEN 0 ELSE recent[b][n - 1]]
      BY <2>1 DEF Tick, Aged
    <2>3. \A n \in 0 .. Window[b] : n # 0 => recent[b][n - 1] \in Nat
      BY <2>1, BucketTypes
    <2>4. /\ count'[b] = IF ttl[b] = 1 THEN 0 ELSE count[b]
          /\ ttl'[b] = IF ttl[b] = 0 THEN 0 ELSE ttl[b] - 1
      BY DEF Tick
    <2> QED
      BY <2>2, <2>3, <2>4
  <1>2. TypeOK'
    <2>1. count' \in [Buckets -> Nat] /\ \A x \in Buckets : count'[x] <= Capacity[x] + 1
      BY BucketTypes DEF Tick
    <2>2. ttl' \in [Buckets -> Nat] /\ \A x \in Buckets : ttl'[x] <= Window[x]
      BY BucketTypes DEF Tick
    <2> QED
      BY <1>1, <2>1, <2>2 DEF Tick, TypeOK
  <1>3. ASSUME NEW b \in Buckets
        PROVE  /\ recent'[b][0] = 0
               /\ ttl'[b] > 0 => recent'[b][Window[b] - ttl'[b]] <= Given(b)'
               /\ Approvals(b)' <= Given(b)' + (1 + Resets(b)') * Capacity[b]
    <2>1. /\ Window[b] \in Nat \ {0} /\ Capacity[b] \in Nat /\ ttl[b] \in Nat /\ ttl[b] <= Window[b]
          /\ recent[b] \in [0 .. Window[b] -> Nat] /\ count[b] \in Nat
          /\ Given(b) \in Nat /\ Given(b) <= Capacity[b] /\ Resets(b) \in Nat
      BY BucketTypes
    <2>2. recent'[b][0] = 0 /\ Approvals(b)' = recent[b][Window[b] - 1] /\ Resets(b)' = Resets(b)
      <3>1. Window[b] \in 0 .. Window[b] /\ 0 \in 0 .. Window[b] /\ Window[b] # 0
        BY <2>1
      <3>2. recent'[b][0] = 0 /\ recent'[b][Window[b]] = recent[b][Window[b] - 1]
        BY <1>1, <3>1
      <3> QED
        BY <3>2 DEF Approvals, Resets, Tick
    <2>3. /\ (1 + Resets(b)) * Capacity[b] \in Nat
          /\ Capacity[b] <= (1 + Resets(b)) * Capacity[b]
      BY <2>1, OneMoreKey
    <2>4. recent[b][Window[b] - 1] \in Nat
      BY <2>1
    <2>5. CASE ttl[b] = 1
      <3>1. Given(b)' = 0 /\ ttl'[b] = 0
        BY <1>1, <2>1, <2>5 DEF Given
      <3>2. recent[b][Window[b] - 1] <= Given(b)
        BY <2>5 DEF TtlInv
      <3> QED
        BY <2>1, <2>2, <2>3, <2>4, <3>1, <3>2
    <2>6. CASE ttl[b] # 1
      <3>1. Given(b)' = Given(b)
        BY <1>1, <2>6 DEF Given
      <3>2. ttl'[b] > 0 => recent'[b][Window[b] - ttl'[b]] <= Given(b)
        <4> SUFFICES ASSUME ttl'[b] > 0
                     PROVE  recent'[b][Window[b] - ttl'[b]] <= Given(b)
          OBVIOUS
        <4>1. ttl'[b] = ttl[b] - 1 /\ ttl[b] > 0
          BY <1>1, <2>1
        <4>2. Window[b] - ttl'[b] \in 0 .. Window[b] /\ Window[b] - ttl'[b] # 0
              /\ (Window[b] - ttl'[b]) - 1 = Window[b] - ttl[b]
          BY <2>1, <4>1
        <4>3. recent'[b][Window[b] - ttl'[b]] = recent[b][Window[b] - ttl[b]]
          BY <1>1, <4>2
        <4> QED
          BY <4>1, <4>3 DEF TtlInv
      <3>3. recent[b][Window[b] - 1] <= recent[b][Window[b]]
        BY <2>1 DEF TotalsInv
      <3>4. recent[b][Window[b]] <= Given(b) + (1 + Resets(b)) * Capacity[b]
        BY DEF WindowInv, Approvals
      <3>5. recent[b][Window[b]] \in Nat
        BY <2>1
      <3>6. recent[b][Window[b] - 1] <= Given(b) + (1 + Resets(b)) * Capacity[b]
        BY <2>1, <2>3, <2>4, <3>3, <3>4, <3>5
      <3> QED
        BY <2>2, <3>1, <3>2, <3>6
    <2> QED
      BY <2>5, <2>6
  <1>4. TotalsInv'
    <2> SUFFICES ASSUME NEW b \in Buckets, NEW n \in 1 .. Window[b]
                 PROVE  recent'[b][n - 1] <= recent'[b][n]
      BY DEF TotalsInv
    <2>1. Window[b] \in Nat /\ recent[b] \in [0 .. Window[b] -> Nat]
      BY BucketTypes
    <2>2. n \in 0 .. Window[b] /\ n - 1 \in 0 .. Window[b] /\ n # 0
      BY <2>1
    <2>3. /\ recent'[b][n] = recent[b][n - 1]
          /\ recent'[b][n - 1] = IF n - 1 = 0 THEN 0 ELSE recent[b][(n - 1) - 1]
      BY <1>1, <2>2
    <2>4. CASE n - 1 = 0
      BY <2>1, <2>2, <2>3, <2>4
    <2>5. CASE n - 1 # 0
      <3>1. n - 1 \in 1 .. Window[b]
        BY <2>1, <2>5
      <3> QED
        BY <2>3, <2>5, <3>1 DEF TotalsInv
    <2> QED
      BY <2>4, <2>5
  <1> QED
    BY <1>2, <1>3, <1>4 DEF TtlInv, WindowInv

\* Every step preserves the invariant.
LEMMA NextIInv == IInv /\ [Next]_vars => IInv'
  <1> SUFFICES ASSUME IInv, [Next]_vars PROVE IInv'
    OBVIOUS
  <1>1. ASSUME NEW c \in Callers, IncrSec(c) PROVE IInv'
    <2>1. to' \in [Callers -> Recipients] /\ Sec \in Buckets
      BY <1>1 DEF IncrSec, IInv, TypeOK, Buckets
    <2>2. Incr(c, Sec, "expire_sec", "incr_recip")
      BY <1>1 DEF IncrSec
    <2> QED
      BY <2>1, <2>2, IncrPreserves
  <1>2. ASSUME NEW c \in Callers, IncrRecip(c) PROVE IInv'
    <2>1. to' \in [Callers -> Recipients] /\ to[c] \in Buckets
      BY <1>2 DEF IncrRecip, IInv, TypeOK, Buckets
    <2>2. Incr(c, to[c], "expire_recip", "idle")
      BY <1>2 DEF IncrRecip
    <2> QED
      BY <2>1, <2>2, IncrPreserves
  <1>3. ASSUME NEW c \in Callers, ExpireSec(c) \/ ExpireRecip(c) PROVE IInv'
    <2>1. Sec \in Buckets /\ to[c] \in Buckets
      BY DEF IInv, TypeOK, Buckets
    <2>2. Expire(c, Sec, "incr_recip") \/ Expire(c, to[c], "idle")
      BY <1>3 DEF ExpireSec, ExpireRecip
    <2> QED
      BY <2>1, <2>2, ExpirePreserves
  <1>4. CASE UNCHANGED vars
    BY <1>4 DEF vars, IInv, TypeOK, TtlInv, WindowInv, TotalsInv, Given, Resets, Approvals
  <1> QED
    BY <1>1, <1>2, <1>3, <1>4, RedisErrorPreserves, ResetPreserves, TickPreserves
    DEF Next, Acquire

\* The invariant holds in every behaviour.
LEMMA Invariant == Spec => []IInv
  BY InitIInv, NextIInv, PTL DEF Spec

\* Counters, times to live and callers keep their types, for any buckets.
THEOREM TypeCorrect == Spec => []TypeOK
  <1>1. IInv => TypeOK
    BY DEF IInv
  <1> QED
    BY <1>1, Invariant, PTL

\* No window of a bucket's length sees more approvals than two keys, and one
\* more for each reset, can give: for any number of callers, any interleaving
\* of their INCRs and EXPIREs, and commands that fail at any point.
THEOREM WindowsAreBounded == Spec => []SlidingBound
  <1>1. IInv => SlidingBound
    <2> SUFFICES ASSUME IInv, NEW b \in Buckets
                 PROVE  Approvals(b) <= (2 + Resets(b)) * Capacity[b]
      BY DEF SlidingBound, Resets
    <2>1. /\ Approvals(b) \in Nat /\ Given(b) \in Nat /\ Given(b) <= Capacity[b]
          /\ Resets(b) \in Nat /\ Capacity[b] \in Nat
      BY BucketTypes DEF IInv, Approvals
    <2>2. Approvals(b) <= Given(b) + (1 + Resets(b)) * Capacity[b]
      BY DEF IInv, WindowInv
    <2>3. /\ (2 + Resets(b)) * Capacity[b] = (1 + Resets(b)) * Capacity[b] + Capacity[b]
          /\ (1 + Resets(b)) * Capacity[b] \in Nat
      BY <2>1, OneMoreKey
    <2> QED
      BY <2>1, <2>2, <2>3
  <1> QED
    BY <1>1, Invariant, PTL
=============================================================================
