------------------------------ MODULE RateLimit ------------------------------
(***************************************************************************)
(* The public API's rate limiter: middleware.RateLimit in every replica,   *)
(* ratelimit.ValkeyStore.Allow and the Lua script that keeps one token     *)
(* bucket in Valkey.  The timestamp of a request is read on the replica's  *)
(* own clock before the script is sent; the script may run later, in any   *)
(* order, or never, and the caller may give up first.                      *)
(*                                                                         *)
(* Time is counted in ticks and tokens in units: a request costs Cost      *)
(* units and a tick refills Refill of them, so requestsPerSecond is        *)
(* Refill / Cost per tick and every quantity of the script is an integer.  *)
(***************************************************************************)
EXTENDS Integers, FiniteSets, FiniteSetsExt

CONSTANTS
    Requests,    \* requests of one client to one route
    Exempt,      \* those the middleware lets through unchecked: OPTIONS, a
                 \* disabled route or no client address
    Replicas,    \* the API processes
    ReplicaOf,   \* ReplicaOf[r]: the process that serves r
    Skew,        \* Skew[p]: how far the clock of p is ahead of real time
    Refill, Cost, Burst,  \* the policy
    MinTTL,      \* minKeyTTL, in ticks
    FailOpen,    \* API_RATE_LIMIT_FAIL_OPEN
    MaxDelay,    \* bound: ticks from reading the clock to running the script
    MaxTime      \* bound: ticks

ASSUME PolicyAssumption ==
    /\ Refill \in Nat \ {0} /\ Cost \in Nat \ {0} /\ Burst \in Nat \ {0}
    /\ MinTTL \in Nat /\ MaxDelay \in Nat /\ MaxTime \in Nat
ASSUME ReplicaAssumption ==
    /\ ReplicaOf \in [Requests -> Replicas]
    /\ Skew \in [Replicas -> Int]
    /\ Exempt \subseteq Requests
    /\ FailOpen \in BOOLEAN

Capacity == Burst * Cost

CeilDiv(a, b) == (a + b - 1) \div b

VARIABLES
    time,      \* real time, which is also Valkey's
    bucket,    \* the hash in Valkey: tokens, updatedAt and the expiry of the key
    pc,        \* pc[r]: "idle", "waiting" or how the middleware ended
    command,   \* command[r]: the script call of r: "none", "sent", "run", "lost"
    stamp,     \* stamp[r]: now_ms of r's call
    decision,  \* decision[r]: what the script decided for r
    decidedAt, \* history: when it did
    retry      \* retry[r]: the retry-after delay of the script's answer

bucketVars == <<bucket, decision, decidedAt, retry>>
vars == <<time, bucketVars, pc, command, stamp>>

\* A bucket as the script writes it.
Bucket == [tokens : 0..Capacity, updatedAt : Int, expires : Nat]

TypeOK ==
    /\ time \in 0..MaxTime
    /\ bucket \in Bucket
    /\ pc \in [Requests -> {"idle", "waiting", "next", "429", "503"}]
    /\ command \in [Requests -> {"none", "sent", "run", "lost"}]
    /\ stamp \in [Requests -> Int]
    /\ decision \in [Requests -> {"none", "allowed", "refused"}]
    /\ decidedAt \in [Requests -> 0..MaxTime]
    /\ retry \in [Requests -> Nat]

\* A key that has expired, or was never written, is absent.
Init ==
    /\ time = 0
    /\ bucket = [tokens |-> 0, updatedAt |-> 0, expires |-> 0]
    /\ pc = [r \in Requests |-> "idle"]
    /\ command = [r \in Requests |-> "none"]
    /\ stamp = [r \in Requests |-> 0]
    /\ decision = [r \in Requests |-> "none"]
    /\ decidedAt = [r \in Requests |-> 0]
    /\ retry = [r \in Requests |-> 0]

Now(r) == time + Skew[ReplicaOf[r]]

-----------------------------------------------------------------------------
(* The Lua script, run at Valkey for a call stamped now. *)

KeyExists == time < bucket.expires

\* Mutant: the key lives only until the bucket is half full again.
TTLTooShort == Max({CeilDiv(Capacity, 2 * Refill), 1})

TTL == Max({CeilDiv(2 * Capacity, Refill), MinTTL})

\* Mutant: the refill is not capped.
TokensUncapped(now) ==
    IF KeyExists THEN bucket.tokens + Refill * Max({now - bucket.updatedAt, 0}) ELSE Capacity

\* The tokens of the bucket at now: a missing bucket is full, and a bucket
\* updated after now gains nothing.
TokensAt(now) ==
    IF KeyExists
    THEN Min({Capacity, bucket.tokens + Refill * Max({now - bucket.updatedAt, 0})})
    ELSE Capacity

\* Mutant: the delay is rounded down.
RetryAfterRoundedDown(tokens) == (Cost - tokens) \div Refill

RetryAfter(tokens) == CeilDiv(Cost - tokens, Refill)

RunScript(r) ==
    LET tokens == TokensAt(stamp[r])
        left == IF tokens >= Cost THEN tokens - Cost ELSE tokens
    IN  /\ bucket' = [tokens |-> left, updatedAt |-> stamp[r], expires |-> time + TTL]
        /\ decision' = [decision EXCEPT ![r] = IF tokens >= Cost THEN "allowed" ELSE "refused"]
        /\ retry' = [retry EXCEPT ![r] = IF tokens >= Cost THEN 0 ELSE RetryAfter(tokens)]
        /\ decidedAt' = [decidedAt EXCEPT ![r] = time]

-----------------------------------------------------------------------------
(* The middleware and the store. *)

Tick ==
    /\ time < MaxTime
    /\ \A r \in Requests : command[r] = "sent" => Now(r) - stamp[r] < MaxDelay
    /\ time' = time + 1
    /\ UNCHANGED <<bucketVars, pc, command, stamp>>

Bypass(r) ==
    /\ pc[r] = "idle" /\ r \in Exempt
    /\ pc' = [pc EXCEPT ![r] = "next"]
    /\ UNCHANGED <<time, bucketVars, command, stamp>>

\* ValkeyStore.Allow reads the clock and sends the script.
Allow(r) ==
    /\ pc[r] = "idle" /\ r \notin Exempt
    /\ pc' = [pc EXCEPT ![r] = "waiting"]
    /\ stamp' = [stamp EXCEPT ![r] = Now(r)]
    /\ command' = [command EXCEPT ![r] = "sent"]
    /\ UNCHANGED <<time, bucketVars>>

\* The script runs even when the caller has given up meanwhile.
Execute(r) ==
    /\ command[r] = "sent"
    /\ command' = [command EXCEPT ![r] = "run"]
    /\ RunScript(r)
    /\ UNCHANGED <<time, pc, stamp>>

\* The call never reaches Valkey (or the startup placeholder store made it).
Lose(r) ==
    /\ command[r] = "sent"
    /\ command' = [command EXCEPT ![r] = "lost"]
    /\ UNCHANGED <<time, bucketVars, pc, stamp>>

Answer(r) ==
    /\ pc[r] = "waiting" /\ command[r] = "run"
    /\ pc' = [pc EXCEPT ![r] = IF decision[r] = "allowed" THEN "next" ELSE "429"]
    /\ UNCHANGED <<time, bucketVars, command, stamp>>

\* Mutant: an error of the backend is taken for its consent.
FailAlwaysOpen(r) ==
    /\ pc[r] = "waiting"
    /\ pc' = [pc EXCEPT ![r] = "next"]
    /\ UNCHANGED <<time, bucketVars, command, stamp>>

\* The backend timeout or an error ends the call, whatever became of it.
Fail(r) ==
    /\ pc[r] = "waiting"
    /\ pc' = [pc EXCEPT ![r] = IF FailOpen THEN "next" ELSE "503"]
    /\ UNCHANGED <<time, bucketVars, command, stamp>>

Finished(r) == pc[r] \in {"next", "429", "503"} /\ command[r] # "sent"

Stop ==
    /\ time = MaxTime /\ \A r \in Requests : Finished(r)
    /\ UNCHANGED vars

Next ==
    \/ Tick \/ Stop
    \/ \E r \in Requests : Bypass(r) \/ Allow(r) \/ Execute(r) \/ Lose(r) \/ Answer(r) \/ Fail(r)

Spec == Init /\ [][Next]_vars

-----------------------------------------------------------------------------
(* Properties. *)

Allowed == {r \in Requests : decision[r] = "allowed"}

\* The requests that were allowed at start or later.
AllowedSince(start) == {r \in Allowed : decidedAt[r] >= start}

\* In no stretch of time are more requests allowed than a full bucket and the
\* refill meanwhile pay for (the quota of the RateLimit-Policy header).
WithinQuota ==
    \A start \in 0..time :
        Cost * Cardinality(AllowedSince(start)) <= Capacity + Refill * (time - start)

\* A client that waits out the retry-after delay is let through, unless
\* another of its requests has taken the token.
RetryAfterIsEnough ==
    \A q, r \in Requests :
        /\ decision[q] = "refused" /\ decision[r] # "none"
        /\ decidedAt[r] >= decidedAt[q] + retry[q]
        /\ \A s \in Allowed \ {r} : decidedAt[s] \notin decidedAt[q]..decidedAt[r]
        => decision[r] = "allowed"

\* When the limiter fails closed, a request is served only on the script's
\* consent, however calls and answers are lost or late.
ServedOnConsent ==
    ~FailOpen => \A r \in Requests \ Exempt : pc[r] = "next" => decision[r] = "allowed"

\* The bucket as a client sees it: what the script would find now.
Abstract == INSTANCE TokenBucket WITH
    Requests <- Requests, Refill <- Refill, Cost <- Cost, Capacity <- Capacity,
    credit <- TokensAt(time), decision <- decision

\* With one clock, the bucket in Valkey is the ideal bucket: its expiry, its
\* lazy refill and lost or late answers are invisible.
ImplementsTokenBucket == Abstract!Spec
=============================================================================
