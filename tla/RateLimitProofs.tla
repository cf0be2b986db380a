--------------------------- MODULE RateLimitProofs ---------------------------
(***************************************************************************)
(* What RateLimit promises for every policy: with any clocks, that a closed*)
(* limiter serves on consent only, and the quota up to what the clocks are *)
(* apart; with one clock and scripts that run in the tick they are sent in,*)
(* the quota itself, the retry-after delay and that it implements          *)
(* TokenBucket.                                                            *)
(***************************************************************************)
EXTENDS RateLimit, FiniteSetTheorems, TLAPS

-----------------------------------------------------------------------------
(* Arithmetic. *)

LEMMA MaxOfTwo ==
    ASSUME NEW a \in Int, NEW b \in Int
    PROVE  Max({a, b}) = IF a >= b THEN a ELSE b
BY DEF Max

LEMMA MinOfTwo ==
    ASSUME NEW a \in Int, NEW b \in Int
    PROVE  Min({a, b}) = IF a <= b THEN a ELSE b
BY DEF Min

LEMMA Product ==
    ASSUME NEW a \in Nat, NEW b \in Int, NEW c \in Int
    PROVE  /\ a * b \in Int
           /\ a * (b + 1) = a * b + a
           /\ b <= c => a * b <= a * c
           /\ b >= 0 => a * b >= 0
BY Z3

\* Rounded up, a quotient times the divisor covers the dividend.
LEMMA CeilDivCovers ==
    ASSUME NEW a \in Nat, NEW b \in Nat \ {0}
    PROVE  /\ CeilDiv(a, b) \in Nat
           /\ b * CeilDiv(a, b) >= a
           /\ a > 0 => CeilDiv(a, b) > 0
BY Z3 DEF CeilDiv

\* A full bucket pays for a request.
LEMMA CapacityCovers == Capacity \in Nat /\ Capacity >= Cost /\ Cost \in Nat /\ Cost > 0
BY PolicyAssumption, Z3 DEF Capacity

\* A key lives at least as long as an empty bucket takes to fill.
LEMMA TTLCovers == TTL \in Nat /\ TTL > 0 /\ Refill * TTL >= Capacity
<1> DEFINE c == CeilDiv(2 * Capacity, Refill)
<1>1. 2 * Capacity \in Nat /\ 2 * Capacity > 0 /\ 2 * Capacity >= Capacity BY CapacityCovers
<1>2. c \in Nat /\ Refill * c >= 2 * Capacity /\ c > 0 BY <1>1, CeilDivCovers, PolicyAssumption
<1>3. TTL = IF c >= MinTTL THEN c ELSE MinTTL BY <1>2, MaxOfTwo, PolicyAssumption DEF TTL
<1> HIDE DEF c
<1>4. TTL \in Nat /\ TTL >= c BY <1>2, <1>3, PolicyAssumption
<1>5. Refill * c <= Refill * TTL /\ Refill * TTL \in Int BY <1>2, <1>4, Product, PolicyAssumption
<1> QED BY <1>1, <1>2, <1>4, <1>5, CapacityCovers, Product, PolicyAssumption

-----------------------------------------------------------------------------
(* Any clocks. *)

\* A decision is made when the script runs, once.
CallInv ==
    \A r \in Requests :
        /\ pc[r] = "idle" => command[r] = "none"
        /\ decision[r] # "none" <=> command[r] = "run"

\* What the script finds is between nothing and a full bucket.
LEMMA TokensWithin ==
    ASSUME TypeOK, NEW now \in Int
    PROVE  TokensAt(now) \in 0..Capacity
<1> DEFINE elapsed == Max({now - bucket.updatedAt, 0})
<1>1. bucket.updatedAt \in Int /\ bucket.tokens \in 0..Capacity BY DEF TypeOK, Bucket
<1>2. elapsed \in Nat BY <1>1, MaxOfTwo
<1> HIDE DEF elapsed
<1>3. Refill * elapsed \in Int /\ Refill * elapsed >= 0 BY <1>2, Product, PolicyAssumption
<1>4. bucket.tokens + Refill * elapsed \in Nat BY <1>1, <1>3, CapacityCovers
<1>5. Min({Capacity, bucket.tokens + Refill * elapsed}) \in 0..Capacity
      BY <1>4, CapacityCovers, MinOfTwo
<1>6. Capacity \in 0..Capacity BY CapacityCovers
<1> QED BY <1>5, <1>6 DEF TokensAt, elapsed

\* What the script does, by whether the tokens cover the cost.
LEMMA ScriptDecides ==
    ASSUME TypeOK, NEW r \in Requests, RunScript(r)
    PROVE  LET tokens == TokensAt(stamp[r])
           IN  /\ tokens \in 0..Capacity
               /\ decidedAt' = [decidedAt EXCEPT ![r] = time]
               /\ \/ /\ tokens >= Cost
                     /\ bucket' = [tokens |-> tokens - Cost, updatedAt |-> stamp[r],
                                   expires |-> time + TTL]
                     /\ decision' = [decision EXCEPT ![r] = "allowed"]
                     /\ retry' = [retry EXCEPT ![r] = 0]
                  \/ /\ tokens < Cost
                     /\ bucket' = [tokens |-> tokens, updatedAt |-> stamp[r],
                                   expires |-> time + TTL]
                     /\ decision' = [decision EXCEPT ![r] = "refused"]
                     /\ retry' = [retry EXCEPT ![r] = RetryAfter(tokens)]
                     /\ RetryAfter(tokens) \in Nat /\ RetryAfter(tokens) > 0
                     /\ tokens + Refill * RetryAfter(tokens) >= Cost
<1> DEFINE tokens == TokensAt(stamp[r])
<1>1. stamp[r] \in Int BY DEF TypeOK
<1>2. tokens \in 0..Capacity BY <1>1, TokensWithin
<1> HIDE DEF tokens
<1>3. ASSUME tokens < Cost
      PROVE  /\ RetryAfter(tokens) \in Nat /\ RetryAfter(tokens) > 0
             /\ tokens + Refill * RetryAfter(tokens) >= Cost
  <2>1. Cost - tokens \in Nat /\ Cost - tokens > 0 BY <1>2, <1>3, CapacityCovers
  <2>2. RetryAfter(tokens) \in Nat /\ RetryAfter(tokens) > 0
        /\ Refill * RetryAfter(tokens) >= Cost - tokens
        BY <2>1, CeilDivCovers, PolicyAssumption DEF RetryAfter
  <2>3. Refill * RetryAfter(tokens) \in Int BY <2>2, Product, PolicyAssumption
  <2> QED BY <1>2, <2>2, <2>3, CapacityCovers
<1>4. CASE tokens >= Cost BY <1>2, <1>4, CapacityCovers DEF RunScript, tokens
<1>5. CASE tokens < Cost
  <2>1. ~ (tokens >= Cost) BY <1>2, <1>5, CapacityCovers
  <2> QED BY <1>2, <1>3, <1>5, <2>1 DEF RunScript, tokens
<1> QED BY <1>2, <1>4, <1>5, CapacityCovers DEF tokens

LEMMA StepKeepsTypes == TypeOK /\ [Next]_vars => TypeOK'
<1> SUFFICES ASSUME TypeOK, [Next]_vars PROVE TypeOK' OBVIOUS
<1> USE DEF TypeOK, bucketVars
<1>1. CASE UNCHANGED vars BY <1>1 DEF vars
<1>2. CASE Tick BY <1>2, PolicyAssumption DEF Tick
<1>3. CASE Stop BY <1>3 DEF Stop, vars
<1>4. ASSUME NEW r \in Requests, Bypass(r) PROVE TypeOK' BY <1>4 DEF Bypass
<1>5. ASSUME NEW r \in Requests, Allow(r) PROVE TypeOK'
  <2>1. Now(r) \in Int BY ReplicaAssumption, PolicyAssumption DEF Now
  <2> QED BY <1>5, <2>1 DEF Allow
<1>6. ASSUME NEW r \in Requests, Execute(r) PROVE TypeOK'
  <2>1. RunScript(r) BY <1>6 DEF Execute
  <2> DEFINE tokens == TokensAt(stamp[r])
  <2>2. tokens \in 0..Capacity BY <2>1, ScriptDecides
  <2> HIDE DEF tokens
  <2>3. time + TTL \in Nat /\ stamp[r] \in Int BY TTLCovers, PolicyAssumption
  <2>4. bucket' \in Bucket
    <3>1. tokens >= Cost => tokens - Cost \in 0..Capacity BY <2>2, CapacityCovers
    <3>2. \/ tokens >= Cost /\ bucket' = [tokens |-> tokens - Cost, updatedAt |-> stamp[r],
                                          expires |-> time + TTL]
          \/ bucket' = [tokens |-> tokens, updatedAt |-> stamp[r], expires |-> time + TTL]
          BY <2>1, ScriptDecides DEF tokens
    <3> QED BY <2>2, <2>3, <3>1, <3>2 DEF Bucket
  <2>5. /\ decidedAt' \in [Requests -> 0..MaxTime] /\ retry' \in [Requests -> Nat]
        /\ decision' \in [Requests -> {"none", "allowed", "refused"}]
        BY <2>1, ScriptDecides
  <2> QED BY <1>6, <2>4, <2>5 DEF Execute
<1>7. ASSUME NEW r \in Requests, Lose(r) PROVE TypeOK' BY <1>7 DEF Lose
<1>8. ASSUME NEW r \in Requests, Answer(r) PROVE TypeOK' BY <1>8 DEF Answer
<1>9. ASSUME NEW r \in Requests, Fail(r) PROVE TypeOK' BY <1>9 DEF Fail
<1> QED BY <1>1, <1>2, <1>3, <1>4, <1>5, <1>6, <1>7, <1>8, <1>9 DEF Next

LEMMA InitHasTypes == Init => TypeOK /\ CallInv /\ ServedOnConsent
BY PolicyAssumption, CapacityCovers DEF Init, TypeOK, Bucket, CallInv, ServedOnConsent

LEMMA StepKeepsCalls ==
    TypeOK /\ CallInv /\ ServedOnConsent /\ [Next]_vars => CallInv' /\ ServedOnConsent'
<1> SUFFICES ASSUME TypeOK, CallInv, ServedOnConsent, [Next]_vars
             PROVE  CallInv' /\ ServedOnConsent'
    OBVIOUS
<1> USE DEF TypeOK, CallInv, ServedOnConsent, bucketVars
<1>1. CASE UNCHANGED vars BY <1>1 DEF vars
<1>2. CASE Tick BY <1>2 DEF Tick
<1>3. CASE Stop BY <1>3 DEF Stop, vars
<1>4. ASSUME NEW r \in Requests, Bypass(r) PROVE CallInv' /\ ServedOnConsent' BY <1>4 DEF Bypass
<1>5. ASSUME NEW r \in Requests, Allow(r) PROVE CallInv' /\ ServedOnConsent' BY <1>5 DEF Allow
<1>6. ASSUME NEW r \in Requests, Execute(r) PROVE CallInv' /\ ServedOnConsent'
  <2>1. decision[r] = "none" BY <1>6 DEF Execute
  <2>2. \E d \in {"allowed", "refused"} : decision' = [decision EXCEPT ![r] = d]
        BY <1>6, ScriptDecides DEF Execute
  <2> QED BY <1>6, <2>1, <2>2 DEF Execute
<1>7. ASSUME NEW r \in Requests, Lose(r) PROVE CallInv' /\ ServedOnConsent' BY <1>7 DEF Lose
<1>8. ASSUME NEW r \in Requests, Answer(r) PROVE CallInv' /\ ServedOnConsent' BY <1>8 DEF Answer
<1>9. ASSUME NEW r \in Requests, Fail(r) PROVE CallInv' /\ ServedOnConsent' BY <1>9 DEF Fail
<1> QED BY <1>1, <1>2, <1>3, <1>4, <1>5, <1>6, <1>7, <1>8, <1>9 DEF Next

LEMMA CallsHold == Spec => [](TypeOK /\ CallInv /\ ServedOnConsent)
BY InitHasTypes, StepKeepsTypes, StepKeepsCalls, PTL DEF Spec

\* The variables keep their types; the bucket never holds more than its capacity.
THEOREM TypeCorrect == Spec => []TypeOK
BY CallsHold, PTL

\* A limiter that fails closed lets no request through without the script's consent.
THEOREM ServesOnConsentOnly == Spec => []ServedOnConsent
BY CallsHold, PTL

-----------------------------------------------------------------------------
(* Any clocks: the quota. *)

\* No call is stamped more than D ticks past another of the same moment.
ClocksWithin(D) == \A p, q \in Replicas : Skew[p] - Skew[q] + MaxDelay <= D

Decided == {r \in Requests : decision[r] # "none"}
DecidedSince(start) == {r \in Decided : decidedAt[r] >= start}

\* In no stretch of time are more requests allowed than a full bucket and the
\* refill meanwhile pay for, and D ticks more of it for every script that ran.
WithinQuotaUpTo(D) ==
    \A start \in 0..time :
        Cost * Cardinality(AllowedSince(start))
            <= Capacity + Refill * ((time - start) + D * Cardinality(DecidedSince(start)))

\* When the script ran last.
LastRun == bucket.expires - TTL

\* What was spent since start and what the last script left in the bucket.
Paid(D, start) ==
    Cost * Cardinality(AllowedSince(start)) + bucket.tokens
        <= Capacity + Refill * ((LastRun - start) + D * Cardinality(DecidedSince(start)))

\* Stamps are as old as the delay allows, and so is the stamp of the bucket.
ClockInv ==
    /\ IsFiniteSet(Decided)
    /\ \A r \in Requests : command[r] = "sent" => Now(r) - stamp[r] \in 0..MaxDelay
    /\ IF bucket.expires = 0 THEN Decided = {}
       ELSE /\ LastRun \in 0..time
            /\ \A r \in Decided : decidedAt[r] <= LastRun
            /\ \E p \in Replicas : (LastRun + Skew[p]) - bucket.updatedAt \in 0..MaxDelay

PaidInv(D) == bucket.expires # 0 => \A start \in 0..LastRun : Paid(D, start)

LEMMA Distribute ==
    ASSUME NEW a \in Int, NEW b \in Int, NEW c \in Int
    PROVE  a * (b + c) = a * b + a * c
BY Z3

\* A request on its way was stamped by the clock of its replica, MaxDelay ago at most.
LEMMA StampedLately ==
    ASSUME ClockInv, NEW r \in Requests, command[r] = "sent"
    PROVE  ReplicaOf[r] \in Replicas /\ (time + Skew[ReplicaOf[r]]) - stamp[r] \in 0..MaxDelay
<1>1. Now(r) - stamp[r] \in 0..MaxDelay BY DEF ClockInv
<1>2. ReplicaOf[r] \in Replicas BY ReplicaAssumption
<1>3. Now(r) = time + Skew[ReplicaOf[r]] BY DEF Now
<1> QED BY <1>1, <1>2, <1>3

\* A script finds at most what the last one left and the refill since then,
\* with D ticks more of it.
LEMMA TokensGrow ==
    ASSUME TypeOK, ClockInv, NEW D \in Nat, ClocksWithin(D), bucket.expires # 0,
           NEW r \in Requests, command[r] = "sent"
    PROVE  TokensAt(stamp[r]) <= bucket.tokens + Refill * ((time - LastRun) + D)
<1> DEFINE s == stamp[r]
           u == bucket.updatedAt
           y == (time - LastRun) + D
<1>1. /\ s \in Int /\ u \in Int /\ bucket.tokens \in 0..Capacity /\ time \in Nat
      /\ Refill \in Nat /\ MaxDelay \in Nat /\ LastRun \in 0..time
      BY PolicyAssumption DEF TypeOK, Bucket, ClockInv
<1>2. PICK p \in Replicas : (LastRun + Skew[p]) - u \in 0..MaxDelay
      BY DEF ClockInv
<1>3. ReplicaOf[r] \in Replicas /\ (time + Skew[ReplicaOf[r]]) - s \in 0..MaxDelay
      BY StampedLately
<1>4. s - u <= y /\ y \in Nat
  <2>1. Skew[ReplicaOf[r]] - Skew[p] + MaxDelay <= D BY <1>2, <1>3 DEF ClocksWithin
  <2>2. Skew[ReplicaOf[r]] \in Int /\ Skew[p] \in Int BY <1>2, <1>3, ReplicaAssumption
  <2> QED BY <1>1, <1>2, <1>3, <2>1, <2>2
<1> HIDE DEF s, u, y
<1>5. CASE KeyExists
  <2>1. Max({s - u, 0}) \in Nat /\ Max({s - u, 0}) <= y BY <1>1, <1>4, MaxOfTwo
  <2>2. Refill * Max({s - u, 0}) <= Refill * y /\ Refill * Max({s - u, 0}) \in Int /\ Refill * y \in Int
        BY <1>1, <1>4, <2>1, Product
  <2>3. TokensAt(s) = Min({Capacity, bucket.tokens + Refill * Max({s - u, 0})})
        BY <1>5 DEF TokensAt, u
  <2>4. TokensAt(s) <= bucket.tokens + Refill * Max({s - u, 0})
    <3> DEFINE x == bucket.tokens + Refill * Max({s - u, 0})
    <3>1. x \in Int BY <1>1, <2>2, CapacityCovers
    <3>2. TokensAt(s) = Min({Capacity, x}) BY <2>3
    <3> HIDE DEF x
    <3>3. Min({Capacity, x}) <= x BY <3>1, MinOfTwo, CapacityCovers
    <3> QED BY <3>2, <3>3 DEF x
  <2>5. TokensAt(s) \in Int BY <1>1, TokensWithin, CapacityCovers
  <2> QED BY <1>1, <2>2, <2>4, <2>5 DEF s, y
<1>6. CASE ~ KeyExists
  <2>1. TTL \in Nat /\ Refill * TTL >= Capacity BY TTLCovers
  <2>2. TTL <= y
    <3>1. bucket.expires \in Nat /\ bucket.expires <= time BY <1>1, <1>6 DEF KeyExists, TypeOK, Bucket
    <3> QED BY <1>1, <2>1, <3>1 DEF LastRun, y
  <2>3. Refill * TTL <= Refill * y /\ Refill * y \in Int /\ Refill * TTL \in Int
        BY <1>1, <1>4, <2>1, <2>2, Product
  <2>4. TokensAt(s) = Capacity BY <1>6 DEF TokensAt
  <2> QED BY <1>1, <2>1, <2>3, <2>4, CapacityCovers DEF s, y
<1> QED BY <1>5, <1>6

\* The script keeps the clocks' invariant, and counts one decision more.
LEMMA ExecuteKeepsClocks ==
    ASSUME TypeOK, CallInv, ClockInv, NEW r \in Requests, Execute(r)
    PROVE  /\ ClockInv' /\ LastRun' = time /\ bucket'.expires # 0
           /\ r \notin Decided /\ Decided' = Decided \cup {r}
           /\ \A start \in 0..time :
                 /\ DecidedSince(start)' = DecidedSince(start) \cup {r}
                 /\ AllowedSince(start)' = IF decision'[r] = "allowed"
                                           THEN AllowedSince(start) \cup {r}
                                           ELSE AllowedSince(start)
           /\ \E left \in 0..Capacity :
                 /\ bucket'.tokens = left
                 /\ TokensAt(stamp[r]) = IF decision'[r] = "allowed" THEN left + Cost ELSE left
<1>1. /\ command[r] = "sent" /\ decision[r] = "none" /\ time' = time /\ stamp' = stamp
      /\ RunScript(r) /\ command' = [command EXCEPT ![r] = "run"]
      BY DEF Execute, CallInv
<1>2. PICK left \in 0..Capacity, d \in {"allowed", "refused"} :
          /\ bucket' = [tokens |-> left, updatedAt |-> stamp[r], expires |-> time + TTL]
          /\ decision' = [decision EXCEPT ![r] = d]
          /\ TokensAt(stamp[r]) = IF d = "allowed" THEN left + Cost ELSE left
  <2> DEFINE tokens == TokensAt(stamp[r])
  <2>1. /\ tokens \in 0..Capacity
        /\ \/ /\ tokens >= Cost /\ decision' = [decision EXCEPT ![r] = "allowed"]
              /\ bucket' = [tokens |-> tokens - Cost, updatedAt |-> stamp[r], expires |-> time + TTL]
           \/ /\ tokens < Cost /\ decision' = [decision EXCEPT ![r] = "refused"]
              /\ bucket' = [tokens |-> tokens, updatedAt |-> stamp[r], expires |-> time + TTL]
        BY <1>1, ScriptDecides
  <2> HIDE DEF tokens
  <2>2. CASE tokens >= Cost /\ decision' = [decision EXCEPT ![r] = "allowed"]
             /\ bucket' = [tokens |-> tokens - Cost, updatedAt |-> stamp[r], expires |-> time + TTL]
    <3>1. tokens - Cost \in 0..Capacity /\ tokens = (tokens - Cost) + Cost
          BY <2>1, <2>2, CapacityCovers
    <3> QED BY <2>2, <3>1 DEF tokens
  <2>3. CASE decision' = [decision EXCEPT ![r] = "refused"]
             /\ bucket' = [tokens |-> tokens, updatedAt |-> stamp[r], expires |-> time + TTL]
        BY <2>1, <2>3 DEF tokens
  <2> QED BY <2>1, <2>2, <2>3
<1>3. /\ time \in Nat /\ TTL \in Nat /\ TTL > 0
      /\ decidedAt' = [decidedAt EXCEPT ![r] = time]
      /\ \A q \in Requests \ {r} : decision'[q] = decision[q] /\ decidedAt'[q] = decidedAt[q]
      /\ decision'[r] = d /\ decidedAt'[r] = time
      BY <1>1, <1>2, TTLCovers, PolicyAssumption DEF TypeOK, RunScript
<1>4. LastRun' = time /\ bucket'.expires # 0 /\ bucket'.tokens = left
      BY <1>2, <1>3 DEF LastRun
<1>5. r \notin Decided /\ Decided' = Decided \cup {r}
      BY <1>1, <1>2, <1>3 DEF Decided
<1>6. ASSUME NEW start \in 0..time
      PROVE  /\ DecidedSince(start)' = DecidedSince(start) \cup {r}
             /\ AllowedSince(start)' = IF decision'[r] = "allowed"
                                       THEN AllowedSince(start) \cup {r} ELSE AllowedSince(start)
  <2>1. DecidedSince(start)' = DecidedSince(start) \cup {r}
        BY <1>3, <1>5, <1>6 DEF DecidedSince, Decided
  <2>2. AllowedSince(start)' = {q \in Requests : decision'[q] = "allowed" /\ decidedAt'[q] >= start}
        BY DEF AllowedSince, Allowed
  <2>3. AllowedSince(start) = {q \in Requests : decision[q] = "allowed" /\ decidedAt[q] >= start}
        BY DEF AllowedSince, Allowed
  <2>4. time >= start /\ decision[r] = "none" BY <1>1, <1>3, <1>6
  <2> QED BY <1>3, <2>1, <2>2, <2>3, <2>4
<1>7. ClockInv'
  <2>1. IsFiniteSet(Decided') BY <1>5, FS_AddElement DEF ClockInv
  <2>2. \A q \in Requests : command'[q] = "sent" => (Now(q) - stamp[q])' \in 0..MaxDelay
        BY <1>1 DEF ClockInv, TypeOK, Now
  <2>3. \A q \in Decided' : decidedAt'[q] <= time
    <3>1. \A q \in Decided : decidedAt[q] <= time
          BY <1>3 DEF ClockInv, TypeOK, Decided
    <3> QED BY <1>3, <1>5, <3>1 DEF Decided
  <2>4. \E p \in Replicas : (time + Skew[p]) - bucket'.updatedAt \in 0..MaxDelay
    <3>1. ReplicaOf[r] \in Replicas /\ (time + Skew[ReplicaOf[r]]) - stamp[r] \in 0..MaxDelay
          BY <1>1, StampedLately
    <3> QED BY <1>2, <3>1
  <2>5. LastRun' \in 0..time' BY <1>1, <1>3, <1>4
  <2> QED BY <1>4, <2>1, <2>2, <2>3, <2>4, <2>5 DEF ClockInv
<1> QED BY <1>2, <1>3, <1>4, <1>5, <1>6, <1>7

LEMMA ExecutePays ==
    ASSUME TypeOK, CallInv, ClockInv, NEW D \in Nat, ClocksWithin(D), PaidInv(D),
           NEW r \in Requests, Execute(r)
    PROVE  PaidInv(D)'
<1> SUFFICES ASSUME NEW start \in 0..time
             PROVE  Paid(D, start)'
    BY ExecuteKeepsClocks DEF PaidInv
<1> DEFINE a == Cardinality(AllowedSince(start))
           n == Cardinality(DecidedSince(start))
           tokens == TokensAt(stamp[r])
<1>1. /\ time \in Nat /\ Refill \in Nat /\ Capacity \in Nat /\ Cost \in Nat
      /\ command[r] = "sent"
      BY PolicyAssumption, CapacityCovers DEF TypeOK, Execute
<1>2. IsFiniteSet(DecidedSince(start)) /\ IsFiniteSet(AllowedSince(start))
  <2>1. AllowedSince(start) \in SUBSET Decided /\ DecidedSince(start) \in SUBSET Decided
        BY DEF AllowedSince, Allowed, DecidedSince, Decided
  <2> QED BY <2>1, FS_Subset DEF ClockInv
<1>3. a \in Nat /\ n \in Nat BY <1>2, FS_CardinalityType
<1>4. r \notin AllowedSince(start) /\ r \notin DecidedSince(start)
      BY ExecuteKeepsClocks DEF AllowedSince, Allowed, DecidedSince, Decided
<1>5. Cardinality(DecidedSince(start)') = n + 1
      BY <1>2, <1>4, ExecuteKeepsClocks, FS_AddElement
<1>6. PICK left \in 0..Capacity :
          /\ bucket'.tokens = left
          /\ tokens = IF decision'[r] = "allowed" THEN left + Cost ELSE left
      BY ExecuteKeepsClocks
<1>7. tokens \in 0..Capacity BY TokensWithin DEF TypeOK
<1>8. Cost * Cardinality(AllowedSince(start)') + left = Cost * a + tokens
  <2>1. CASE decision'[r] = "allowed"
    <3>1. Cardinality(AllowedSince(start)') = a + 1
          BY <1>2, <1>4, <2>1, ExecuteKeepsClocks, FS_AddElement
    <3>2. Cost * (a + 1) = Cost * a + Cost /\ Cost * a \in Int BY <1>1, <1>3, Product
    <3> HIDE DEF a, tokens
    <3> QED BY <1>1, <1>6, <2>1, <3>1, <3>2
  <2>2. CASE decision'[r] # "allowed"
        BY <1>6, <2>2, ExecuteKeepsClocks
  <2> QED BY <2>1, <2>2
<1> DEFINE k == (time - start) + D * (n + 1)
<1>9. Cost * a + tokens <= Capacity + Refill * k
  <2>1. D * n \in Int /\ D * n >= 0 /\ D * (n + 1) = D * n + D BY <1>3, Product
  <2>2. k \in Nat BY <1>1, <2>1
  <2>3. Refill * k \in Int /\ Refill * k >= 0 BY <1>1, <2>2, Product
  <2>4. CASE bucket.expires # 0 /\ start <= LastRun
    <3>1. LastRun \in 0..time BY <2>4 DEF ClockInv
    <3> DEFINE i == (LastRun - start) + D * n
               j == (time - LastRun) + D
    <3>2. i \in Int /\ j \in Int /\ k = i + j BY <1>1, <2>1, <3>1
    <3>3. Cost * a + bucket.tokens <= Capacity + Refill * i
          BY <2>4, <3>1 DEF PaidInv, Paid
    <3>4. tokens <= bucket.tokens + Refill * j
          BY <1>1, <2>4, TokensGrow
    <3> HIDE DEF i, j, k, a, n, tokens
    <3>5. Refill * k = Refill * i + Refill * j /\ Refill * i \in Int /\ Refill * j \in Int
          BY <1>1, <3>2, Distribute, Product
    <3>6. Cost * a \in Int /\ bucket.tokens \in Int BY <1>1, <1>3, Product DEF TypeOK, Bucket
    <3> QED BY <1>1, <1>7, <3>3, <3>4, <3>5, <3>6
  <2>5. CASE bucket.expires = 0 \/ ~ (start <= LastRun)
    <3>1. AllowedSince(start) = {}
      <4>1. CASE bucket.expires = 0
            BY <4>1 DEF ClockInv, AllowedSince, Allowed, Decided
      <4>2. CASE bucket.expires # 0 /\ ~ (start <= LastRun)
        <5>1. LastRun \in 0..time /\ \A q \in Decided : decidedAt[q] <= LastRun
              BY <4>2 DEF ClockInv
        <5>2. \A q \in Requests : decidedAt[q] \in Nat BY DEF TypeOK
        <5> QED BY <1>1, <4>2, <5>1, <5>2 DEF AllowedSince, Allowed, Decided
      <4> QED BY <2>5, <4>1, <4>2
    <3>2. a = 0 /\ Cost * 0 = 0 BY <1>1, <3>1, FS_EmptySet
    <3> HIDE DEF a, k, tokens
    <3> QED BY <1>1, <1>7, <2>3, <3>2
  <2> QED BY <2>4, <2>5
<1>10. Paid(D, start)' <=> Cost * Cardinality(AllowedSince(start)') + left <= Capacity + Refill * k
  <2>1. LastRun' = time BY ExecuteKeepsClocks
  <2> QED BY <1>5, <1>6, <2>1 DEF Paid
<1> QED BY <1>8, <1>9, <1>10

\* Time passes, and nothing but a script touches the bucket and the decisions.
LEMMA OtherStepsKeepClocks ==
    ASSUME TypeOK, ClockInv, UNCHANGED bucketVars, time' >= time, time' \in Nat,
           \A r \in Requests : command'[r] = "sent" => (Now(r) - stamp[r])' \in 0..MaxDelay
    PROVE  ClockInv' /\ LastRun' = LastRun
<1>1. LastRun' = LastRun /\ Decided' = Decided /\ bucket' = bucket /\ decidedAt' = decidedAt
      BY DEF bucketVars, LastRun, Decided
<1>2. LastRun \in 0..time => LastRun \in 0..time'
      BY PolicyAssumption DEF TypeOK
<1> QED BY <1>1, <1>2 DEF ClockInv

LEMMA StepKeepsClocks ==
    ASSUME TypeOK, CallInv, ClockInv, NEW D \in Nat, ClocksWithin(D), PaidInv(D), [Next]_vars
    PROVE  ClockInv' /\ PaidInv(D)'
<1>0. /\ time \in Nat /\ MaxDelay \in Nat
      /\ \A q \in Requests : stamp[q] \in Int /\ Now(q) = time + Skew[ReplicaOf[q]]
                             /\ Now(q)' = time' + Skew[ReplicaOf[q]] /\ Skew[ReplicaOf[q]] \in Int
      BY PolicyAssumption, ReplicaAssumption DEF TypeOK, Now
<1>1. ASSUME UNCHANGED bucketVars, time' >= time, time' \in Nat,
             \A r \in Requests : command'[r] = "sent" => Now(r)' - stamp'[r] \in 0..MaxDelay
      PROVE  ClockInv' /\ PaidInv(D)'
  <2>1. ClockInv' /\ LastRun' = LastRun BY <1>1, OtherStepsKeepClocks
  <2>2. \A start : AllowedSince(start)' = AllowedSince(start) /\ DecidedSince(start)' = DecidedSince(start)
        BY <1>1 DEF bucketVars, AllowedSince, Allowed, DecidedSince, Decided
  <2>3. PaidInv(D)' BY <1>1, <2>1, <2>2 DEF PaidInv, Paid, bucketVars
  <2> QED BY <2>1, <2>3
<1>2. CASE UNCHANGED vars BY <1>0, <1>1, <1>2 DEF vars, ClockInv
<1>3. CASE Tick
  <2>1. \A r \in Requests : command'[r] = "sent" => Now(r)' - stamp'[r] \in 0..MaxDelay
    <3> SUFFICES ASSUME NEW r \in Requests, command'[r] = "sent"
                 PROVE  Now(r)' - stamp'[r] \in 0..MaxDelay
        OBVIOUS
    <3>1. /\ command[r] = "sent" /\ stamp'[r] = stamp[r] /\ time' = time + 1
          /\ Now(r) - stamp[r] < MaxDelay
          BY <1>3 DEF Tick
    <3>2. Now(r) - stamp[r] \in 0..MaxDelay BY <3>1 DEF ClockInv
    <3> QED BY <1>0, <3>1, <3>2
  <2>2. UNCHANGED bucketVars /\ time' = time + 1 BY <1>3 DEF Tick
  <2> QED BY <1>0, <1>1, <2>1, <2>2
<1>4. CASE Stop BY <1>0, <1>1, <1>4 DEF Stop, vars, ClockInv
<1>5. ASSUME NEW r \in Requests, Bypass(r) PROVE ClockInv' /\ PaidInv(D)'
      BY <1>0, <1>1, <1>5 DEF Bypass, ClockInv
<1>6. ASSUME NEW r \in Requests, Allow(r) PROVE ClockInv' /\ PaidInv(D)'
  <2>1. Now(r) - Now(r) = 0 /\ 0 \in 0..MaxDelay BY <1>0
  <2>2. \A q \in Requests : command'[q] = "sent" => Now(q)' - stamp'[q] \in 0..MaxDelay
        BY <1>0, <1>6, <2>1 DEF Allow, ClockInv, TypeOK
  <2> QED BY <1>0, <1>1, <1>6, <2>2 DEF Allow
<1>7. ASSUME NEW r \in Requests, Execute(r) PROVE ClockInv' /\ PaidInv(D)'
      BY <1>7, ExecuteKeepsClocks, ExecutePays
<1>8. ASSUME NEW r \in Requests, Lose(r) PROVE ClockInv' /\ PaidInv(D)'
      BY <1>0, <1>1, <1>8 DEF Lose, ClockInv, TypeOK
<1>9. ASSUME NEW r \in Requests, Answer(r) PROVE ClockInv' /\ PaidInv(D)'
      BY <1>0, <1>1, <1>9 DEF Answer, ClockInv
<1>10. ASSUME NEW r \in Requests, Fail(r) PROVE ClockInv' /\ PaidInv(D)'
       BY <1>0, <1>1, <1>10 DEF Fail, ClockInv
<1> QED BY <1>2, <1>3, <1>4, <1>5, <1>6, <1>7, <1>8, <1>9, <1>10 DEF Next

LEMMA PaidImpliesQuota ==
    ASSUME TypeOK, ClockInv, NEW D \in Nat, PaidInv(D)
    PROVE  WithinQuotaUpTo(D)
<1> SUFFICES ASSUME NEW start \in 0..time
             PROVE  Cost * Cardinality(AllowedSince(start))
                        <= Capacity + Refill * ((time - start) + D * Cardinality(DecidedSince(start)))
    BY DEF WithinQuotaUpTo
<1> DEFINE a == Cardinality(AllowedSince(start))
           n == Cardinality(DecidedSince(start))
           k == (time - start) + D * n
<1>1. /\ time \in Nat /\ Refill \in Nat /\ Capacity \in Nat /\ Cost \in Nat
      /\ bucket.tokens \in Nat
      BY PolicyAssumption, CapacityCovers DEF TypeOK, Bucket
<1>2. a \in Nat /\ n \in Nat
  <2>1. AllowedSince(start) \in SUBSET Decided /\ DecidedSince(start) \in SUBSET Decided
        BY DEF AllowedSince, Allowed, DecidedSince, Decided
  <2> QED BY <2>1, FS_Subset, FS_CardinalityType DEF ClockInv
<1>3. D * n \in Int /\ D * n >= 0 /\ Cost * a \in Int BY <1>1, <1>2, Product
<1>4. k \in Nat BY <1>1, <1>3
<1>5. Refill * k \in Int /\ Refill * k >= 0 BY <1>1, <1>4, Product
<1>6. CASE bucket.expires # 0 /\ start <= LastRun
  <2>1. LastRun \in 0..time BY <1>6 DEF ClockInv
  <2> DEFINE i == (LastRun - start) + D * n
  <2>2. Cost * a + bucket.tokens <= Capacity + Refill * i BY <1>6, <2>1 DEF PaidInv, Paid
  <2>3. i \in Int /\ i <= k BY <1>1, <1>3, <2>1
  <2>4. Refill * i <= Refill * k /\ Refill * i \in Int BY <1>1, <1>4, <2>3, Product
  <2> HIDE DEF i, k, a
  <2>5. Cost * a <= Capacity + Refill * k BY <1>1, <1>3, <1>5, <2>2, <2>4
  <2> QED BY <2>5 DEF a, k
<1>7. CASE bucket.expires = 0 \/ ~ (start <= LastRun)
  <2>1. AllowedSince(start) = {}
    <3>1. CASE bucket.expires = 0
          BY <3>1 DEF ClockInv, AllowedSince, Allowed, Decided
    <3>2. CASE bucket.expires # 0 /\ ~ (start <= LastRun)
      <4>1. LastRun \in 0..time /\ \A q \in Decided : decidedAt[q] <= LastRun
            BY <3>2 DEF ClockInv
      <4>2. \A q \in Requests : decidedAt[q] \in Nat BY DEF TypeOK
      <4> QED BY <1>1, <3>2, <4>1, <4>2 DEF AllowedSince, Allowed, Decided
    <3> QED BY <1>7, <3>1, <3>2
  <2>2. a = 0 /\ Cost * 0 = 0 BY <1>1, <2>1, FS_EmptySet
  <2> HIDE DEF a, k
  <2>3. Cost * a <= Capacity + Refill * k BY <1>1, <1>5, <2>2
  <2> QED BY <2>3 DEF a, k
<1> QED BY <1>6, <1>7

LEMMA InitKeepsClocks ==
    ASSUME NEW D \in Nat, Init
    PROVE  ClockInv /\ PaidInv(D)
<1>1. IsFiniteSet({}) BY FS_EmptySet
<1> QED BY <1>1 DEF Init, ClockInv, PaidInv, Decided

\* With clocks and delays that differ by at most D ticks, every script grants
\* at most D ticks of refill too much.
THEOREM QuotaKeptUpToSkew ==
    ASSUME NEW D \in Nat, ClocksWithin(D)
    PROVE  Spec => []WithinQuotaUpTo(D)
<1>1. Init => ClockInv /\ PaidInv(D) BY InitKeepsClocks
<1>2. TypeOK /\ CallInv /\ ClockInv /\ PaidInv(D) /\ [Next]_vars => ClockInv' /\ PaidInv(D)'
      BY StepKeepsClocks
<1>3. TypeOK /\ ClockInv /\ PaidInv(D) => WithinQuotaUpTo(D) BY PaidImpliesQuota
<1> QED BY <1>1, <1>2, <1>3, CallsHold, PTL DEF Spec

-----------------------------------------------------------------------------
(* One clock, and scripts that run in the tick they are sent in. *)

OneClock == MaxDelay = 0 /\ \A p \in Replicas : Skew[p] = 0

\* A script that has yet to run is stamped with the present, and decisions
\* lie in the past.
StampInv ==
    \A r \in Requests :
        /\ command[r] = "sent" => stamp[r] = time
        /\ decidedAt[r] <= time
        /\ decision[r] = "refused" => retry[r] > 0

\* A key that expires would be a full bucket by then.
BucketInv ==
    /\ bucket.updatedAt <= time
    /\ bucket.expires = 0 \/ Refill * (bucket.expires - bucket.updatedAt) >= Capacity

\* Since q was refused the credit has grown towards the cost, unless another
\* request took it.
RetryInv ==
    \A q \in Requests :
        /\ decision[q] = "refused"
        /\ \A s \in Allowed : decidedAt[s] \notin decidedAt[q]..time
        => \/ TokensAt(time) >= Cost
           \/ TokensAt(time) + Refill * retry[q] >= Cost + Refill * (time - decidedAt[q])

IInv ==
    /\ TypeOK /\ CallInv /\ StampInv /\ BucketInv
    /\ RetryInv /\ RetryAfterIsEnough

\* With a tick the credit grows by Refill up to the capacity, also when the
\* key expires.
LEMMA CreditGrows ==
    ASSUME TypeOK, BucketInv, time' = time + 1, UNCHANGED bucket
    PROVE  TokensAt(time)' = Min({Capacity, TokensAt(time) + Refill})
<1> DEFINE u == bucket.updatedAt
           e == bucket.expires
           t == bucket.tokens
<1>1. u \in Int /\ e \in Nat /\ t \in 0..Capacity /\ time \in Nat /\ u <= time
      BY PolicyAssumption DEF TypeOK, Bucket, BucketInv
<1>2. Refill \in Nat /\ Capacity \in Nat BY PolicyAssumption, CapacityCovers
<1> HIDE DEF u, e, t
<1>3. Max({time - u, 0}) = time - u BY <1>1, MaxOfTwo
<1> DEFINE x == Refill * (time - u)
<1>5. x \in Nat /\ Refill * (time + 1 - u) = x + Refill
  <2>1. time - u \in Nat /\ time + 1 - u = (time - u) + 1 BY <1>1
  <2> QED BY <1>2, <2>1, Product
<1>6. e # 0 => Refill * (e - u) >= Capacity BY DEF BucketInv, e, u
<1>7. e = time + 1 => x + Refill >= Capacity BY <1>1, <1>5, <1>6
<1> HIDE DEF x
<1>8. TokensAt(time) = IF time < e THEN Min({Capacity, t + x}) ELSE Capacity
      BY <1>3 DEF TokensAt, KeyExists, u, e, t, x
<1>9. TokensAt(time)' = IF time + 1 < e THEN Min({Capacity, t + (x + Refill)}) ELSE Capacity
  <2>1. time' \in Int /\ time' - bucket.updatedAt = time + 1 - u BY <1>1 DEF u
  <2>2. Max({time' - bucket.updatedAt, 0}) = time + 1 - u BY <1>1, <2>1, MaxOfTwo DEF u
  <2>3. TokensAt(time)' = IF time' < bucket.expires
            THEN Min({Capacity, bucket.tokens + Refill * Max({time' - bucket.updatedAt, 0})})
            ELSE Capacity
        BY DEF TokensAt, KeyExists
  <2> QED BY <1>5, <2>2, <2>3 DEF e, t
<1>10. Min({Capacity, t + x}) = IF Capacity <= t + x THEN Capacity ELSE t + x
       BY <1>1, <1>2, <1>5, MinOfTwo
<1>11. Min({Capacity, t + (x + Refill)})
           = IF Capacity <= t + (x + Refill) THEN Capacity ELSE t + (x + Refill)
       BY <1>1, <1>2, <1>5, MinOfTwo
<1>12. TokensAt(time) \in Nat BY <1>1, <1>2, <1>5, <1>8, <1>10
<1>13. Min({Capacity, TokensAt(time) + Refill})
           = IF Capacity <= TokensAt(time) + Refill THEN Capacity ELSE TokensAt(time) + Refill
       BY <1>2, <1>12, MinOfTwo
<1> QED BY <1>1, <1>2, <1>5, <1>7, <1>8, <1>9, <1>10, <1>11, <1>13

\* Right after the script the credit is what it left.
LEMMA CreditWritten ==
    ASSUME TypeOK, NEW left \in 0..Capacity, UNCHANGED time,
           bucket' = [tokens |-> left, updatedAt |-> time, expires |-> time + TTL]
    PROVE  TokensAt(time)' = left /\ BucketInv'
<1>1. time \in Nat /\ left \in Nat /\ left <= Capacity /\ Capacity \in Nat
      BY PolicyAssumption, CapacityCovers DEF TypeOK
<1>2. TTL \in Nat /\ TTL > 0 /\ Refill * TTL >= Capacity BY TTLCovers
<1>3. KeyExists' BY <1>1, <1>2 DEF KeyExists
<1>4. Max({time - time, 0}) = 0 BY <1>1, MaxOfTwo
<1>5. Refill * 0 = 0 BY PolicyAssumption
<1>6. Min({Capacity, left + Refill * 0}) = left BY <1>1, <1>5, MinOfTwo
<1>7. TokensAt(time)' = left BY <1>3, <1>4, <1>6 DEF TokensAt
<1>8. (time + TTL) - time = TTL BY <1>1, <1>2
<1>9. BucketInv' BY <1>1, <1>2, <1>8 DEF BucketInv
<1> QED BY <1>7, <1>9

\* A script of the present tick spends the cost from the credit, or finds too
\* little and changes nothing but the decision.
LEMMA ExecuteSpends ==
    ASSUME OneClock, IInv, NEW r \in Requests, Execute(r)
    PROVE  /\ decision[r] = "none" /\ BucketInv' /\ time' = time
           /\ TokensAt(time) \in 0..Capacity
           /\ decidedAt' = [decidedAt EXCEPT ![r] = time]
           /\ \/ /\ TokensAt(time) >= Cost
                 /\ TokensAt(time)' = TokensAt(time) - Cost
                 /\ decision' = [decision EXCEPT ![r] = "allowed"]
                 /\ retry' = [retry EXCEPT ![r] = 0]
              \/ /\ TokensAt(time) < Cost
                 /\ TokensAt(time)' = TokensAt(time)
                 /\ decision' = [decision EXCEPT ![r] = "refused"]
                 /\ \E d \in Nat : /\ retry' = [retry EXCEPT ![r] = d]
                                  /\ d > 0 /\ TokensAt(time) + Refill * d >= Cost
<1> DEFINE tokens == TokensAt(time)
<1>1. TypeOK BY DEF IInv
<1>2. stamp[r] = time /\ decision[r] = "none" BY DEF IInv, StampInv, CallInv, Execute
<1>3. time' = time /\ RunScript(r) BY DEF Execute
<1>4. /\ tokens \in 0..Capacity
      /\ decidedAt' = [decidedAt EXCEPT ![r] = time]
      /\ \/ /\ tokens >= Cost
            /\ bucket' = [tokens |-> tokens - Cost, updatedAt |-> time, expires |-> time + TTL]
            /\ decision' = [decision EXCEPT ![r] = "allowed"]
            /\ retry' = [retry EXCEPT ![r] = 0]
         \/ /\ tokens < Cost
            /\ bucket' = [tokens |-> tokens, updatedAt |-> time, expires |-> time + TTL]
            /\ decision' = [decision EXCEPT ![r] = "refused"]
            /\ \E d \in Nat : /\ retry' = [retry EXCEPT ![r] = d]
                             /\ d > 0 /\ tokens + Refill * d >= Cost
      BY <1>1, <1>2, <1>3, ScriptDecides
<1> HIDE DEF tokens
<1>5. CASE tokens >= Cost
  <2>1. ~ (tokens < Cost) /\ tokens - Cost \in 0..Capacity BY <1>4, <1>5, CapacityCovers
  <2>2. bucket' = [tokens |-> tokens - Cost, updatedAt |-> time, expires |-> time + TTL]
        BY <1>4, <2>1
  <2>3. TokensAt(time)' = tokens - Cost /\ BucketInv' BY <1>1, <1>3, <2>1, <2>2, CreditWritten
  <2> QED BY <1>2, <1>3, <1>4, <1>5, <2>1, <2>3 DEF tokens
<1>6. CASE tokens < Cost
  <2>1. ~ (tokens >= Cost) BY <1>4, <1>6, CapacityCovers
  <2>2. bucket' = [tokens |-> tokens, updatedAt |-> time, expires |-> time + TTL]
        BY <1>4, <2>1
  <2>3. TokensAt(time)' = tokens /\ BucketInv' BY <1>1, <1>3, <1>4, <2>2, CreditWritten
  <2> QED BY <1>2, <1>3, <1>4, <1>6, <2>1, <2>3 DEF tokens
<1> QED BY <1>4, <1>5, <1>6, CapacityCovers

\* Steps that leave the bucket, the decisions and the time alone.
LEMMA AsideKeepsInvariant ==
    ASSUME IInv, TypeOK', CallInv', UNCHANGED <<time, bucketVars>>,
           \A r \in Requests : command'[r] = "sent" => stamp'[r] = time
    PROVE  IInv'
<1> USE DEF IInv, bucketVars
<1>1. TokensAt(time)' = TokensAt(time) BY DEF TokensAt, KeyExists
<1>2. Allowed' = Allowed BY DEF Allowed
<1>3. StampInv' BY DEF StampInv
<1>4. BucketInv' BY DEF BucketInv
<1>5. RetryInv' BY <1>1, <1>2 DEF RetryInv
<1>6. RetryAfterIsEnough' BY <1>2 DEF RetryAfterIsEnough
<1> QED BY <1>3, <1>4, <1>5, <1>6

LEMMA TickKeepsInvariant ==
    ASSUME OneClock, IInv, TypeOK', CallInv', Tick
    PROVE  IInv'
<1> USE DEF IInv, bucketVars
<1>1. time' = time + 1 /\ UNCHANGED <<bucketVars, command, stamp>> BY DEF Tick
<1>2. time \in Nat /\ Refill \in Nat /\ Capacity \in Nat /\ Cost \in Nat
      BY PolicyAssumption, CapacityCovers DEF TypeOK
<1>3. \A r \in Requests : command[r] # "sent"
  <2> SUFFICES ASSUME NEW r \in Requests, command[r] = "sent" PROVE FALSE OBVIOUS
  <2>1. stamp[r] = time BY DEF StampInv
  <2>2. Now(r) = time BY <1>2, ReplicaAssumption DEF OneClock, Now
  <2>3. Now(r) - stamp[r] < 0 BY DEF Tick, OneClock
  <2> QED BY <1>2, <2>1, <2>2, <2>3
<1>4. StampInv'
  <2>1. \A r \in Requests : decidedAt[r] \in Int BY DEF TypeOK
  <2> QED BY <1>1, <1>2, <1>3, <2>1 DEF StampInv
<1>5. BucketInv'
  <2>1. bucket.updatedAt \in Int BY DEF TypeOK, Bucket
  <2> QED BY <1>1, <1>2, <2>1 DEF BucketInv
<1>6. TokensAt(time) \in 0..Capacity BY <1>2, TokensWithin
<1>7. TokensAt(time)' = IF Capacity <= TokensAt(time) + Refill THEN Capacity
                        ELSE TokensAt(time) + Refill
      BY <1>1, <1>2, <1>6, CreditGrows, MinOfTwo
<1>8. Allowed' = Allowed BY <1>1 DEF Allowed
<1>9. RetryInv'
  <2> SUFFICES ASSUME NEW q \in Requests, decision[q] = "refused",
                      \A s \in Allowed : decidedAt[s] \notin decidedAt[q]..time'
               PROVE  \/ TokensAt(time)' >= Cost
                      \/ TokensAt(time)' + Refill * retry[q]
                             >= Cost + Refill * (time' - decidedAt[q])
      BY <1>1, <1>8 DEF RetryInv
  <2>1. decidedAt[q] \in Nat /\ retry[q] \in Nat BY DEF TypeOK
  <2>2. \A s \in Allowed : decidedAt[s] \in Int BY DEF TypeOK, Allowed
  <2>3. \A s \in Allowed : decidedAt[s] \notin decidedAt[q]..time BY <1>1, <1>2, <2>1, <2>2
  <2> DEFINE w == TokensAt(time)
             x == Refill * retry[q]
             y == Refill * (time - decidedAt[q])
  <2>4. w >= Cost \/ w + x >= Cost + y BY <2>3 DEF RetryInv
  <2>5. x \in Int /\ y \in Int /\ w \in 0..Capacity BY <1>2, <1>6, <2>1, Product
  <2>6. time' - decidedAt[q] = (time - decidedAt[q]) + 1 BY <1>1, <1>2, <2>1
  <2>7. Refill * (time' - decidedAt[q]) = y + Refill BY <1>2, <2>1, <2>6, Product
  <2>8. TokensAt(time)' = IF Capacity <= w + Refill THEN Capacity ELSE w + Refill BY <1>7
  <2> HIDE DEF w, x, y
  <2>9. TokensAt(time)' >= Cost \/ TokensAt(time)' + x >= Cost + (y + Refill)
        BY <1>2, <2>4, <2>5, <2>8, CapacityCovers
  <2> QED BY <2>7, <2>9 DEF x
<1>10. RetryAfterIsEnough' BY <1>1, <1>8 DEF RetryAfterIsEnough
<1> QED BY <1>4, <1>5, <1>9, <1>10

LEMMA ExecuteKeepsInvariant ==
    ASSUME OneClock, IInv, TypeOK', CallInv', NEW r \in Requests, Execute(r)
    PROVE  IInv'
<1> USE DEF IInv
<1>1. time' = time /\ decision[r] = "none" /\ BucketInv'
      /\ TokensAt(time) \in 0..Capacity
      /\ decidedAt' = [decidedAt EXCEPT ![r] = time]
      BY ExecuteSpends
<1>2. time \in Nat /\ Refill \in Nat /\ Capacity \in Nat /\ Cost \in Nat
      BY PolicyAssumption, CapacityCovers DEF TypeOK
<1>3. r \notin Allowed BY <1>1 DEF Allowed
<1>4. CASE /\ TokensAt(time) >= Cost
           /\ TokensAt(time)' = TokensAt(time) - Cost
           /\ decision' = [decision EXCEPT ![r] = "allowed"]
           /\ retry' = [retry EXCEPT ![r] = 0]
  <2>1. Allowed' = Allowed \cup {r} BY <1>4 DEF Allowed, TypeOK
  <2>2. StampInv' BY <1>1, <1>2, <1>4 DEF StampInv, TypeOK, Execute
  <2>3. RetryInv'
    <3> SUFFICES ASSUME NEW q \in Requests, decision'[q] = "refused",
                        \A s \in Allowed' : decidedAt'[s] \notin decidedAt'[q]..time'
                 PROVE  FALSE
        BY DEF RetryInv
    <3>1. r \in Allowed' /\ decidedAt'[r] = time BY <1>1, <2>1 DEF TypeOK
    <3>2. decidedAt'[q] \in Nat /\ decidedAt'[q] <= time' BY <2>2 DEF TypeOK, StampInv
    <3> QED BY <1>1, <1>2, <3>1, <3>2
  <2>4. RetryAfterIsEnough'
    <3> SUFFICES ASSUME NEW q \in Requests, NEW p \in Requests,
                        decision'[q] = "refused", decision'[p] # "none",
                        decidedAt'[p] >= decidedAt'[q] + retry'[q],
                        \A s \in Allowed' \ {p} : decidedAt'[s] \notin decidedAt'[q]..decidedAt'[p]
                 PROVE  decision'[p] = "allowed"
        BY DEF RetryAfterIsEnough
    <3>1. q # r BY <1>4 DEF TypeOK
    <3>2. CASE p = r BY <1>4, <3>2 DEF TypeOK
    <3>3. CASE p # r
      <4>1. \A s \in Requests \ {r} : /\ decision'[s] = decision[s] /\ retry'[s] = retry[s]
                                    /\ decidedAt'[s] = decidedAt[s]
            BY <1>1, <1>4 DEF TypeOK
      <4>2. \A s \in Allowed \ {p} : decidedAt[s] \notin decidedAt[q]..decidedAt[p]
            BY <1>3, <2>1, <3>1, <3>3, <4>1 DEF Allowed
      <4> QED BY <3>1, <3>3, <4>1, <4>2 DEF RetryAfterIsEnough
    <3> QED BY <3>2, <3>3
  <2> QED BY <1>1, <2>2, <2>3, <2>4
<1>5. ASSUME TokensAt(time) < Cost,
             TokensAt(time)' = TokensAt(time),
             decision' = [decision EXCEPT ![r] = "refused"],
             NEW d \in Nat, retry' = [retry EXCEPT ![r] = d],
             d > 0, TokensAt(time) + Refill * d >= Cost
      PROVE  IInv'
  <2>1. Allowed' = Allowed BY <1>1, <1>5 DEF Allowed, TypeOK
  <2>2. StampInv' BY <1>1, <1>2, <1>5 DEF StampInv, TypeOK, Execute
  <2>3. RetryInv'
    <3> SUFFICES ASSUME NEW q \in Requests, decision'[q] = "refused",
                        \A s \in Allowed : decidedAt'[s] \notin decidedAt'[q]..time
                 PROVE  \/ TokensAt(time) >= Cost
                        \/ TokensAt(time) + Refill * retry'[q]
                               >= Cost + Refill * (time - decidedAt'[q])
        BY <1>1, <1>5, <2>1 DEF RetryInv
    <3>1. CASE q = r
      <4>1. retry'[q] = d /\ decidedAt'[q] = time BY <1>1, <1>5, <3>1 DEF TypeOK
      <4>2. time - time = 0 /\ Refill * 0 = 0 /\ Cost + 0 = Cost BY <1>2
      <4> QED BY <1>5, <4>1, <4>2
    <3>2. CASE q # r
      <4>1. decision[q] = "refused" /\ retry'[q] = retry[q] /\ decidedAt'[q] = decidedAt[q]
            BY <1>1, <1>5, <3>2 DEF TypeOK
      <4>2. \A s \in Allowed : decidedAt[s] \notin decidedAt[q]..time
            BY <1>1, <1>3, <4>1 DEF TypeOK, Allowed
      <4> QED BY <4>1, <4>2 DEF RetryInv
    <3> QED BY <3>1, <3>2
  <2>4. RetryAfterIsEnough'
    <3> SUFFICES ASSUME NEW q \in Requests, NEW p \in Requests,
                        decision'[q] = "refused", decision'[p] # "none",
                        decidedAt'[p] >= decidedAt'[q] + retry'[q],
                        \A s \in Allowed \ {p} : decidedAt'[s] \notin decidedAt'[q]..decidedAt'[p]
                 PROVE  decision'[p] = "allowed"
        BY <2>1 DEF RetryAfterIsEnough
    <3>1. \A s \in Requests : decidedAt'[s] \in Nat /\ decidedAt'[s] <= time /\ retry'[s] \in Nat
          BY <1>1, <2>2 DEF TypeOK, StampInv
    <3>2. CASE q = r
      <4>1. retry'[q] > 0 /\ decidedAt'[q] = time BY <1>1, <1>5, <3>2 DEF TypeOK
      <4> QED BY <1>2, <3>1, <4>1
    <3>3. CASE q # r /\ p # r
          BY <1>1, <1>3, <1>5, <3>3 DEF RetryAfterIsEnough, TypeOK, Allowed
    <3>4. CASE q # r /\ p = r
      <4>1. decision[q] = "refused" /\ retry'[q] = retry[q] /\ decidedAt'[q] = decidedAt[q]
            /\ decidedAt'[p] = time
            BY <1>1, <1>5, <3>4 DEF TypeOK
      <4>2. \A s \in Allowed : decidedAt[s] \notin decidedAt[q]..time
            BY <1>1, <1>3, <3>4, <4>1 DEF TypeOK, Allowed
      <4> DEFINE w == TokensAt(time)
                 x == Refill * retry[q]
                 y == Refill * (time - decidedAt[q])
      <4>3. w >= Cost \/ w + x >= Cost + y BY <4>1, <4>2 DEF RetryInv
      <4>4. time >= decidedAt[q] + retry[q] /\ decidedAt[q] \in Nat /\ retry[q] \in Nat
            BY <4>1 DEF TypeOK
      <4>5. retry[q] <= time - decidedAt[q] BY <1>2, <4>4
      <4>6. x <= y /\ x \in Int /\ y \in Int BY <1>2, <4>4, <4>5, Product
      <4>7. w \in 0..Capacity /\ w < Cost BY <1>1, <1>5
      <4> HIDE DEF w, x, y
      <4> QED BY <1>2, <4>3, <4>6, <4>7
    <3> QED BY <3>2, <3>3, <3>4
  <2> QED BY <1>1, <2>2, <2>3, <2>4
<1> QED BY <1>4, <1>5, ExecuteSpends

LEMMA StepKeepsInvariant ==
    ASSUME OneClock, IInv, TypeOK', CallInv', [Next]_vars
    PROVE  IInv'
<1>1. CASE UNCHANGED vars
      BY <1>1, AsideKeepsInvariant DEF vars, IInv, StampInv
<1>2. CASE Tick BY <1>2, TickKeepsInvariant
<1>3. CASE Stop BY <1>3, AsideKeepsInvariant DEF Stop, vars, IInv, StampInv
<1>4. ASSUME NEW r \in Requests, Bypass(r) PROVE IInv'
      BY <1>4, AsideKeepsInvariant DEF Bypass, IInv, StampInv
<1>5. ASSUME NEW r \in Requests, Allow(r) PROVE IInv'
  <2>1. Now(r) = time
        BY ReplicaAssumption, PolicyAssumption DEF OneClock, Now, IInv, TypeOK
  <2>2. \A q \in Requests : command'[q] = "sent" => stamp'[q] = time
        BY <1>5, <2>1 DEF Allow, IInv, StampInv, TypeOK
  <2> QED BY <1>5, <2>2, AsideKeepsInvariant DEF Allow
<1>6. ASSUME NEW r \in Requests, Execute(r) PROVE IInv' BY <1>6, ExecuteKeepsInvariant
<1>7. ASSUME NEW r \in Requests, Lose(r) PROVE IInv'
  <2>1. \A q \in Requests : command'[q] = "sent" => stamp'[q] = time
        BY <1>7 DEF Lose, IInv, StampInv, TypeOK
  <2> QED BY <1>7, <2>1, AsideKeepsInvariant DEF Lose
<1>8. ASSUME NEW r \in Requests, Answer(r) PROVE IInv'
      BY <1>8, AsideKeepsInvariant DEF Answer, IInv, StampInv
<1>9. ASSUME NEW r \in Requests, Fail(r) PROVE IInv'
      BY <1>9, AsideKeepsInvariant DEF Fail, IInv, StampInv
<1> QED BY <1>1, <1>2, <1>3, <1>4, <1>5, <1>6, <1>7, <1>8, <1>9 DEF Next

\* The bucket is full when no key has been written.
LEMMA InitIsFull == Init => TokensAt(time) = Capacity /\ Allowed = {}
BY DEF Init, TokensAt, KeyExists, Allowed

LEMMA InitHoldsInvariant == Init => IInv
<1> SUFFICES ASSUME Init PROVE IInv OBVIOUS
<1>1. TypeOK /\ CallInv BY InitHasTypes
<1>2. StampInv /\ BucketInv /\ RetryInv /\ RetryAfterIsEnough
      BY DEF Init, StampInv, BucketInv, RetryInv, RetryAfterIsEnough
<1> QED BY <1>1, <1>2 DEF IInv

LEMMA InvariantHolds == ASSUME OneClock PROVE Spec => []IInv
<1>1. Init => IInv BY InitHoldsInvariant
<1>2. TypeOK' /\ CallInv' /\ IInv /\ [Next]_vars => IInv' BY StepKeepsInvariant
<1> QED BY <1>1, <1>2, CallsHold, PTL DEF Spec

\* No policy grants more, in any stretch of time, than a full bucket and the
\* refill meanwhile pay for.
THEOREM QuotaKept == ASSUME OneClock PROVE Spec => []WithinQuota
<1>1. Init => ClockInv /\ PaidInv(0) BY InitKeepsClocks
<1>2. TypeOK /\ CallInv /\ ClockInv /\ PaidInv(0) /\ [Next]_vars => ClockInv' /\ PaidInv(0)'
  <2>1. ClocksWithin(0) BY ReplicaAssumption DEF OneClock, ClocksWithin
  <2> QED BY <2>1, StepKeepsClocks
<1>3. TypeOK /\ ClockInv /\ PaidInv(0) => WithinQuota
  <2> SUFFICES ASSUME TypeOK, ClockInv, PaidInv(0), NEW start \in 0..time
               PROVE  Cost * Cardinality(AllowedSince(start)) <= Capacity + Refill * (time - start)
      BY DEF WithinQuota
  <2>1. Cardinality(DecidedSince(start)) \in Nat
    <3>1. DecidedSince(start) \in SUBSET Decided BY DEF DecidedSince
    <3> QED BY <3>1, FS_Subset, FS_CardinalityType DEF ClockInv
  <2>2. (time - start) + 0 * Cardinality(DecidedSince(start)) = time - start
        BY <2>1, PolicyAssumption DEF TypeOK
  <2>3. WithinQuotaUpTo(0) BY PaidImpliesQuota
  <2> QED BY <2>2, <2>3 DEF WithinQuotaUpTo
<1> QED BY <1>1, <1>2, <1>3, CallsHold, PTL DEF Spec

\* Waiting out the retry-after delay is enough.
THEOREM RetryAfterSuffices == ASSUME OneClock PROVE Spec => []RetryAfterIsEnough
<1>1. IInv => RetryAfterIsEnough BY DEF IInv
<1> QED BY <1>1, InvariantHolds, PTL

-----------------------------------------------------------------------------
(* The refinement. *)

LEMMA InitIsAbstract == Init => Abstract!Init
BY InitIsFull DEF Init, Abstract!Init

\* A tick lets the credit grow, a script spends or refuses, and all else is
\* invisible.
LEMMA StepIsAbstract ==
    ASSUME OneClock, IInv, [Next]_vars
    PROVE  [Abstract!Next]_(Abstract!vars)
<1> USE DEF Abstract!vars
<1>1. ASSUME UNCHANGED <<time, bucketVars>> PROVE UNCHANGED Abstract!vars
      BY <1>1 DEF bucketVars, TokensAt, KeyExists
<1>2. CASE UNCHANGED vars BY <1>1, <1>2 DEF vars
<1>3. CASE Tick
  <2>1. TokensAt(time)' = Min({Capacity, TokensAt(time) + Refill}) /\ decision' = decision
        BY <1>3, CreditGrows DEF Tick, bucketVars, IInv
  <2> QED BY <2>1 DEF Abstract!Next, Abstract!Grow, Min, Abstract!Min
<1>4. CASE Stop BY <1>1, <1>4 DEF Stop, vars
<1>5. ASSUME NEW r \in Requests, Bypass(r) PROVE UNCHANGED Abstract!vars
      BY <1>1, <1>5 DEF Bypass
<1>6. ASSUME NEW r \in Requests, Allow(r) PROVE UNCHANGED Abstract!vars
      BY <1>1, <1>6 DEF Allow
<1>7. ASSUME NEW r \in Requests, Execute(r) PROVE Abstract!Next
  <2>1. Abstract!Allow(r) \/ Abstract!Refuse(r)
        BY <1>7, ExecuteSpends DEF Abstract!Allow, Abstract!Refuse
  <2> QED BY <2>1 DEF Abstract!Next
<1>8. ASSUME NEW r \in Requests, Lose(r) PROVE UNCHANGED Abstract!vars
      BY <1>1, <1>8 DEF Lose
<1>9. ASSUME NEW r \in Requests, Answer(r) PROVE UNCHANGED Abstract!vars
      BY <1>1, <1>9 DEF Answer
<1>10. ASSUME NEW r \in Requests, Fail(r) PROVE UNCHANGED Abstract!vars
       BY <1>1, <1>10 DEF Fail
<1> QED BY <1>2, <1>3, <1>4, <1>5, <1>6, <1>7, <1>8, <1>9, <1>10 DEF Next

\* The bucket in Valkey, with its expiry and its lazy refill, is the ideal one.
THEOREM BucketIsIdeal == ASSUME OneClock PROVE Spec => ImplementsTokenBucket
<1>1. Init => Abstract!Init BY InitIsAbstract
<1>2. IInv /\ [Next]_vars => [Abstract!Next]_(Abstract!vars) BY StepIsAbstract
<1> QED BY <1>1, <1>2, InvariantHolds, PTL DEF Spec, ImplementsTokenBucket, Abstract!Spec
=============================================================================
