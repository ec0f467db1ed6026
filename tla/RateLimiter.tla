---------------------------- MODULE RateLimiter -----------------------------
(***************************************************************************)
(* src/services/rate_limiter.py: RateLimiter.acquire on Redis, called by   *)
(* concurrent senders of one phone number.                                 *)
(*                                                                         *)
(* Each bucket is a Redis key: INCR counts, and the caller that saw 1 sets *)
(* the time to live with a second command.  Time passes in ticks; a window *)
(* is a number of ticks.  A counter beyond its maximum is not told apart   *)
(* from the maximum plus one, which is all the code compares it with.      *)
(***************************************************************************)
EXTENDS Integers

CONSTANTS
    Callers,      \* coroutines that send
    Recipients,   \* phone numbers they send to
    Sec,          \* the bucket of the phone number id
    Capacity,     \* bucket -> max_per_second or max_burst_per_recipient
    Window,       \* bucket -> ticks of its time to live
    MaxFaults,    \* bound: Redis commands that fail or lose their answer
    MaxResets     \* bound: calls of reset_recipient

Buckets == Recipients \cup {Sec}

ASSUME BucketAssumption == Sec \notin Recipients
ASSUME CapacityAssumption == Capacity \in [Buckets -> Nat \ {0}]
ASSUME WindowAssumption == Window \in [Buckets -> Nat \ {0}]
ASSUME FaultAssumption == MaxFaults \in Nat /\ MaxResets \in Nat

VARIABLES
    count,    \* bucket -> its counter, 0 when the key does not exist
    ttl,      \* bucket -> ticks left, 0 when the key has no time to live
    pc,       \* caller -> the command it sends next
    to,       \* caller -> the recipient of its message
    recent,   \* bucket -> n -> approvals since the n-th tick before now
    faults, resets

vars == <<count, ttl, pc, to, recent, faults, resets>>

Init ==
    /\ count = [b \in Buckets |-> 0]
    /\ ttl = [b \in Buckets |-> 0]
    /\ pc = [c \in Callers |-> "idle"]
    /\ to \in [Callers -> Recipients]
    /\ recent = [b \in Buckets |-> [n \in 0 .. Window[b] |-> 0]]
    /\ faults = 0 /\ resets = 0

\* INCR of bucket b answers this.
Incremented(b) == IF count[b] > Capacity[b] THEN count[b] ELSE count[b] + 1

ApprovesOffByOne(b) == count[b] <= Capacity[b]

\* The answer does not exceed the maximum.
Approves(b) == Incremented(b) <= Capacity[b]

\* The running totals of a bucket after another approval, and after a tick.
OneMore(totals) == [n \in DOMAIN totals |-> IF n = 0 THEN 0 ELSE totals[n] + 1]
Aged(totals) == [n \in DOMAIN totals |-> IF n = 0 THEN 0 ELSE totals[n - 1]]

\* INCR of bucket b by caller c: refused (acquire returns False), or on to
\* EXPIRE if the caller created the key, or on to the command after that.
Incr(c, b, expire, after) ==
    /\ count' = [count EXCEPT ![b] = Incremented(b)]
    /\ pc' = [pc EXCEPT ![c] = IF Incremented(b) = 1 THEN expire
                               ELSE IF Approves(b) THEN after ELSE "idle"]
    /\ recent' = IF Approves(b) THEN [recent EXCEPT ![b] = OneMore(@)] ELSE recent
    /\ UNCHANGED <<ttl, faults, resets>>

\* acquire begins with the bucket of the phone number id.
IncrSec(c) ==
    /\ pc[c] = "idle"
    /\ \E r \in Recipients : to' = [to EXCEPT ![c] = r]
    /\ Incr(c, Sec, "expire_sec", "incr_recip")

IncrRecip(c) ==
    /\ pc[c] = "incr_recip"
    /\ Incr(c, to[c], "expire_recip", "idle")
    /\ UNCHANGED to

ExpireForgotten(c, b, after) ==
    /\ pc' = [pc EXCEPT ![c] = after]
    /\ UNCHANGED <<count, ttl, to, recent, faults, resets>>

ExpireWrongUnit(c, b, after) ==
    /\ ttl' = IF count[b] = 0 THEN ttl ELSE [ttl EXCEPT ![b] = 1000 * Window[b]]
    /\ pc' = [pc EXCEPT ![c] = after]
    /\ UNCHANGED <<count, to, recent, faults, resets>>

\* EXPIRE of bucket b, which does nothing if the key is gone.
Expire(c, b, after) ==
    /\ ttl' = IF count[b] = 0 THEN ttl ELSE [ttl EXCEPT ![b] = Window[b]]
    /\ pc' = [pc EXCEPT ![c] = after]
    /\ UNCHANGED <<count, to, recent, faults, resets>>

ExpireSec(c) == pc[c] = "expire_sec" /\ Expire(c, Sec, "incr_recip")

\* After it acquire returns True.
ExpireRecip(c) == pc[c] = "expire_recip" /\ Expire(c, to[c], "idle")

\* A command raises; Redis may have executed an INCR all the same.  acquire
\* fails open: it returns True.  A worker that is lost between two commands
\* leaves Redis in the same state.
RedisError(c) ==
    /\ faults < MaxFaults
    /\ faults' = faults + 1
    /\ pc' = [pc EXCEPT ![c] = "idle"]
    /\ \/ UNCHANGED count
       \/ pc[c] = "idle" /\ count' = [count EXCEPT ![Sec] = Incremented(Sec)]
       \/ pc[c] = "incr_recip" /\ count' = [count EXCEPT ![to[c]] = Incremented(to[c])]
    /\ UNCHANGED <<ttl, to, recent, resets>>

\* reset_recipient deletes the key.
ResetRecipient(r) ==
    /\ resets < MaxResets
    /\ resets' = resets + 1
    /\ count' = [count EXCEPT ![r] = 0]
    /\ ttl' = [ttl EXCEPT ![r] = 0]
    /\ UNCHANGED <<pc, to, recent, faults>>

\* Time passes.  Redis deletes the keys whose time to live is over.
Tick ==
    /\ count' = [b \in Buckets |-> IF ttl[b] = 1 THEN 0 ELSE count[b]]
    /\ ttl' = [b \in Buckets |-> IF ttl[b] = 0 THEN 0 ELSE ttl[b] - 1]
    /\ recent' = [b \in Buckets |-> Aged(recent[b])]
    /\ UNCHANGED <<pc, to, faults, resets>>

Acquire(c) == IncrSec(c) \/ ExpireSec(c) \/ IncrRecip(c) \/ ExpireRecip(c)

Next ==
    \/ \E c \in Callers : Acquire(c) \/ RedisError(c)
    \/ \E r \in Recipients : ResetRecipient(r)
    \/ Tick

Spec == Init /\ [][Next]_vars

\* Time goes on, and a coroutine that has begun to acquire finishes.
FairSpec ==
    /\ Spec
    /\ WF_vars(Tick)
    /\ \A c \in Callers : WF_vars(pc[c] # "idle" /\ Acquire(c))

-----------------------------------------------------------------------------
(* Properties *)

\* Every variable stays in the set it is declared for.
TypeOK ==
    /\ count \in [Buckets -> Nat] /\ \A b \in Buckets : count[b] <= Capacity[b] + 1
    /\ ttl \in [Buckets -> Nat] /\ \A b \in Buckets : ttl[b] <= Window[b]
    /\ pc \in [Callers -> {"idle", "expire_sec", "incr_recip", "expire_recip"}]
    /\ to \in [Callers -> Recipients]
    /\ DOMAIN recent = Buckets /\ \A b \in Buckets : recent[b] \in [0 .. Window[b] -> Nat]
    /\ faults \in 0 .. MaxFaults /\ resets \in 0 .. MaxResets

\* The approvals of a bucket in the last Window[b] ticks.
Approvals(b) == recent[b][Window[b]]

\* Counters start anew with each key, so a burst at the end of one window and
\* one at the start of the next add up, and so may a reset; no window of the
\* bucket's length ever sees more approvals, however commands and failures
\* interleave (sends let through because Redis failed are not approvals).
SlidingBound ==
    \A b \in Buckets :
        Approvals(b) <= (2 + IF b = Sec THEN 0 ELSE resets) * Capacity[b]

\* A bucket that has filled up is empty again at some time, so that senders
\* it turns away get through later, unless a Redis command has failed or a
\* worker was lost between INCR and EXPIRE: the caller that made the key sets
\* its time to live, whoever else counts on it.
BackPressureEnds ==
    \A b \in Buckets : count[b] > Capacity[b] ~> (count[b] = 0 \/ faults > 0)

\* What acquire says of failures ("Fails open: if Redis is unreachable, allow
\* the send through"): a failed command does not turn senders away for ever.
FailureNeverBlocks == \A b \in Buckets : count[b] > Capacity[b] ~> count[b] = 0
=============================================================================
