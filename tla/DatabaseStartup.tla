--------------------------- MODULE DatabaseStartup ---------------------------
(***************************************************************************)
(* Replicas of the service that start against one database                 *)
(* (postgres.SetupRuntime): each opens a pool, migrates the schema under   *)
(* goose's session lock, and retries with a growing delay.  Replicas of    *)
(* different releases know different numbers of migrations; a replica may  *)
(* be killed and restarted at any point.                                   *)
(***************************************************************************)
EXTENDS Integers, Sequences, FiniteSets

CONSTANTS
    Replicas,
    Known,          \* Known[r]: r's binary embeds migrations 1..Known[r]
    Migrating,      \* replicas with DB_MIGRATE_ON_STARTUP
    MaxAttempts,    \* DB_STARTUP_MAX_ATTEMPTS
    Initial,        \* DB_STARTUP_BACKOFF_INITIAL
    MaxDelay,       \* DB_STARTUP_BACKOFF_MAX
    DurationRange,  \* time.Duration wraps: it has 2 * DurationRange values
    MaxCrashes      \* bound on the crashes of a behaviour

ASSUME StartupAssumption ==
    /\ "none" \notin Replicas
    /\ Known \in [Replicas -> Nat]
    /\ Migrating \subseteq Replicas
    /\ MaxAttempts \in Nat \ {0} /\ MaxCrashes \in Nat
    /\ DurationRange \in Nat \ {0}
    /\ Initial \in 1..(DurationRange - 1) /\ MaxDelay \in Initial..(DurationRange - 1)

VARIABLES
    applied,  \* the migrations in the database's version table
    lock,     \* the replica whose session holds the lock, or "none"
    pc,       \* where SetupRuntime of each replica is
    attempt,  \* the loop variable
    pending,  \* the migrations goose found missing
    pools,    \* pools opened and not closed
    wait,     \* the delay of a replica that sleeps
    ctx,      \* "live" or "canceled": the signal context
    crashes

replicaVars == <<pc, attempt, pending, pools, wait>>
vars == <<applied, lock, replicaVars, ctx, crashes>>

TypeOK ==
    /\ applied \in Seq(Nat) /\ lock \in Replicas \cup {"none"}
    /\ pc \in [Replicas -> {"start", "open", "check", "lock", "migrate", "finalize",
                            "sleep", "serving", "failed", "down"}]
    /\ attempt \in [Replicas -> 1..MaxAttempts]
    /\ pending \in [Replicas -> SUBSET Nat]
    /\ pools \in [Replicas -> Nat]
    /\ wait \in [Replicas -> 0..MaxDelay]
    /\ ctx \in [Replicas -> {"live", "canceled"}] /\ crashes \in 0..MaxCrashes

Init ==
    /\ applied = <<>> /\ lock = "none"
    /\ pc = [r \in Replicas |-> "start"]
    /\ attempt = [r \in Replicas |-> 1]
    /\ pending = [r \in Replicas |-> {}]
    /\ pools = [r \in Replicas |-> 0]
    /\ wait = [r \in Replicas |-> 0]
    /\ ctx = [r \in Replicas |-> "live"] /\ crashes = 0

-----------------------------------------------------------------------------
(* The retry policy. *)

\* "transient" stands for connection errors and the retryable SQL states,
\* "permanent" for the others and a bad URL.
Errors == {"transient", "permanent", "deadline", "canceled"}

\* Errors an operation of r can meet: "canceled" only if its context is.
Possible(r) == {e \in Errors : e = "canceled" => ctx[r] = "canceled"}

\* isRetryableError.
Retryable(r, e) == e \in {"transient", "deadline"} /\ ctx[r] = "live"

Wrapped(d) == ((d + DurationRange) % (2 * DurationRange)) - DurationRange
Smaller(a, b) == IF a < b THEN a ELSE b

\* Mutant: the doubling is not guarded, so that it overflows.
RetryDelayUnguarded(n) ==
    LET delay[i \in 1..n] == IF i = 1 THEN Initial ELSE Wrapped(2 * delay[i - 1])
    IN  Smaller(delay[n], MaxDelay)

\* startupRetryDelay, for the delays the configuration lets through: a positive
\* initial one and a maximum that is not below it.
RetryDelay(n) ==
    LET delay[i \in 1..n] ==
          IF i = 1 THEN Initial
          ELSE IF delay[i - 1] >= MaxDelay \/ delay[i - 1] > MaxDelay \div 2 THEN MaxDelay
          ELSE Wrapped(2 * delay[i - 1])
    IN  Smaller(delay[n], MaxDelay)

-----------------------------------------------------------------------------
(* One attempt. *)

Goto(r, to) == pc' = [pc EXCEPT ![r] = to]

\* The session of r ends, or r unlocks.
ReleaseLock(r) == lock' = IF lock = r THEN "none" ELSE lock

\* Mutant: a failed attempt keeps its pool.
FailKeepingPool(r, e) ==
    /\ ReleaseLock(r)
    /\ pending' = [pending EXCEPT ![r] = {}]
    /\ IF Retryable(r, e) /\ attempt[r] < MaxAttempts
       THEN Goto(r, "sleep") /\ wait' = [wait EXCEPT ![r] = RetryDelay(attempt[r])]
       ELSE Goto(r, "failed") /\ UNCHANGED wait
    /\ UNCHANGED <<attempt, ctx, crashes, pools>>

\* Mutant: one attempt too many.
FailOnceMore(r, e) ==
    /\ pools' = [pools EXCEPT ![r] = 0]
    /\ ReleaseLock(r)
    /\ pending' = [pending EXCEPT ![r] = {}]
    /\ IF Retryable(r, e) /\ attempt[r] <= MaxAttempts
       THEN Goto(r, "sleep") /\ wait' = [wait EXCEPT ![r] = RetryDelay(attempt[r])]
       ELSE Goto(r, "failed") /\ UNCHANGED wait
    /\ UNCHANGED <<attempt, ctx, crashes>>

\* An attempt of r fails with e: its pool is closed, and with it the session
\* that held the lock; r sleeps or gives up.
Fail(r, e) ==
    /\ pools' = [pools EXCEPT ![r] = 0]
    /\ ReleaseLock(r)
    /\ pending' = [pending EXCEPT ![r] = {}]
    /\ IF Retryable(r, e) /\ attempt[r] < MaxAttempts
       THEN Goto(r, "sleep") /\ wait' = [wait EXCEPT ![r] = RetryDelay(attempt[r])]
       ELSE Goto(r, "failed") /\ UNCHANGED wait
    /\ UNCHANGED <<attempt, ctx, crashes>>

BeginAttempt(r) ==
    /\ pc[r] = "start"
    /\ Goto(r, IF ctx[r] = "live" THEN "open" ELSE "failed")
    /\ UNCHANGED <<applied, lock, attempt, pending, pools, wait, ctx, crashes>>

\* Open: the pool is created and pinged; a failing ping closes it.
Open(r) ==
    /\ pc[r] = "open"
    /\ \/ /\ ctx[r] = "live"
          /\ pools' = [pools EXCEPT ![r] = @ + 1]
          /\ Goto(r, IF r \in Migrating THEN "check" ELSE "finalize")
          /\ UNCHANGED <<lock, attempt, pending, wait, ctx, crashes>>
       \/ \E e \in Possible(r) : Fail(r, e)
    /\ UNCHANGED applied

Missing(r) == (1..Known[r]) \ {applied[i] : i \in 1..Len(applied)}

\* goose looks for what is missing before it takes the session lock: without
\* any it is done.
HasPending(r) ==
    /\ pc[r] = "check"
    /\ \/ /\ ctx[r] = "live"
          /\ Goto(r, IF Missing(r) = {} THEN "finalize" ELSE "lock")
          /\ UNCHANGED <<lock, attempt, pending, pools, wait, ctx, crashes>>
       \/ \E e \in Possible(r) : Fail(r, e)
    /\ UNCHANGED applied

\* Mutant: no session locker.
LockIgnored(r) ==
    /\ pc[r] = "lock"
    /\ \/ /\ ctx[r] = "live"
          /\ pending' = [pending EXCEPT ![r] = Missing(r)]
          /\ Goto(r, "migrate")
          /\ UNCHANGED <<lock, attempt, pools, wait, ctx, crashes>>
       \/ \E e \in Possible(r) : Fail(r, e)
    /\ UNCHANGED applied

\* Mutant: the replica that has not got the lock leaves the migrating to the
\* one that has.
LockOrSkip(r) ==
    /\ pc[r] = "lock"
    /\ IF lock = "none"
       THEN lock' = r /\ pending' = [pending EXCEPT ![r] = Missing(r)] /\ Goto(r, "migrate")
       ELSE Goto(r, "finalize") /\ UNCHANGED <<lock, pending>>
    /\ UNCHANGED <<applied, attempt, pools, wait, ctx, crashes>>

\* goose takes the session lock, polling for it until the migration timeout,
\* and reads again what is missing.
Lock(r) ==
    /\ pc[r] = "lock"
    /\ \/ /\ lock = "none" /\ ctx[r] = "live"
          /\ lock' = r
          /\ pending' = [pending EXCEPT ![r] = Missing(r)]
          /\ Goto(r, "migrate")
          /\ UNCHANGED <<attempt, pools, wait, ctx, crashes>>
       \/ \E e \in Possible(r) : Fail(r, e)
    /\ UNCHANGED applied

\* The oldest of the pending migrations, in a transaction on the session that
\* holds the lock.  The answer to its COMMIT may be lost.
Apply(r) ==
    /\ pc[r] = "migrate" /\ pending[r] # {}
    /\ \/ \E m \in pending[r] :
             /\ \A n \in pending[r] : m <= n
             /\ applied' = Append(applied, m)
             /\ \/ /\ pending' = [pending EXCEPT ![r] = @ \ {m}]
                   /\ UNCHANGED <<lock, pc, attempt, pools, wait, ctx, crashes>>
                \/ Fail(r, "transient")
       \/ UNCHANGED applied /\ \E e \in Possible(r) : Fail(r, e)

\* goose unlocks; if it cannot, the attempt fails and the pool is closed.
Unlock(r) ==
    /\ pc[r] = "migrate" /\ pending[r] = {}
    /\ \/ /\ ReleaseLock(r) /\ Goto(r, "finalize")
          /\ UNCHANGED <<attempt, pending, pools, wait, ctx, crashes>>
       \/ \E e \in Possible(r) : Fail(r, e)
    /\ UNCHANGED applied

\* finalizeRuntimeSetup: the pool's metrics are registered.
Finalize(r) ==
    /\ pc[r] = "finalize"
    /\ \/ Goto(r, "serving") /\ UNCHANGED pools
       \/ Goto(r, "failed") /\ pools' = [pools EXCEPT ![r] = 0]
    /\ UNCHANGED <<applied, lock, attempt, pending, wait, ctx, crashes>>

\* Mutant: the attempts are not counted.
SleepUncounted(r) ==
    /\ pc[r] = "sleep"
    /\ Goto(r, IF ctx[r] = "live" THEN "start" ELSE "failed")
    /\ wait' = [wait EXCEPT ![r] = 0]
    /\ UNCHANGED <<applied, lock, pending, pools, attempt, ctx, crashes>>

\* sleepWithContext.
Sleep(r) ==
    /\ pc[r] = "sleep"
    /\ wait' = [wait EXCEPT ![r] = 0]
    /\ IF ctx[r] = "live"
       THEN Goto(r, "start") /\ attempt' = [attempt EXCEPT ![r] = @ + 1]
       ELSE Goto(r, "failed") /\ UNCHANGED attempt
    /\ UNCHANGED <<applied, lock, pending, pools, ctx, crashes>>

Cancel(r) ==
    /\ pc[r] \notin {"serving", "failed", "down"} /\ ctx[r] = "live"
    /\ ctx' = [ctx EXCEPT ![r] = "canceled"]
    /\ UNCHANGED <<applied, lock, replicaVars, crashes>>

\* The process is killed: PostgreSQL ends its sessions.
Crash(r) ==
    /\ pc[r] # "down" /\ crashes < MaxCrashes
    /\ crashes' = crashes + 1
    /\ Goto(r, "down") /\ ReleaseLock(r)
    /\ attempt' = [attempt EXCEPT ![r] = 1]
    /\ pending' = [pending EXCEPT ![r] = {}]
    /\ pools' = [pools EXCEPT ![r] = 0]
    /\ wait' = [wait EXCEPT ![r] = 0]
    /\ ctx' = [ctx EXCEPT ![r] = "live"]
    /\ UNCHANGED applied

Restart(r) ==
    /\ pc[r] = "down" /\ Goto(r, "start")
    /\ UNCHANGED <<applied, lock, attempt, pending, pools, wait, ctx, crashes>>

SetupRuntime(r) ==
    \/ BeginAttempt(r) \/ Open(r) \/ HasPending(r) \/ Lock(r) \/ Apply(r) \/ Unlock(r)
    \/ Finalize(r) \/ Sleep(r)

Settled == (\A r \in Replicas : pc[r] \in {"serving", "failed"}) /\ UNCHANGED vars

Next == Settled \/ \E r \in Replicas : SetupRuntime(r) \/ Cancel(r) \/ Crash(r) \/ Restart(r)

Spec == Init /\ [][Next]_vars

\* Every operation of an attempt has a timeout: the migrations that of
\* DB_MIGRATE_TIMEOUT, which is positive, and the ping that of
\* DB_CONNECT_TIMEOUT, unless it is set to 0, which FairSpec leaves out.  The
\* sleep ends.
FairSpec == Spec /\ \A r \in Replicas : WF_vars(SetupRuntime(r))

-----------------------------------------------------------------------------
(* Properties. *)

\* However replicas race, die and retry, each migration runs once, in order.
MigratedOnceInOrder == \A i \in 1..Len(applied) : applied[i] = i

\* A replica that migrates and serves finds every migration of its release in the database.
ServesOnlyMigrated == \A r \in Migrating : pc[r] = "serving" => Len(applied) >= Known[r]

\* However an attempt fails, its pool and its lock are given back before the
\* next one, and a replica that serves has one pool.
PoolsAndLockReturned ==
    \A r \in Replicas :
        /\ pools[r] = IF pc[r] \in {"check", "lock", "migrate", "finalize", "serving"} THEN 1 ELSE 0
        /\ lock = r => pc[r] = "migrate"

\* The initial delay doubled n times, without a limit and without an overflow.
Doubled[n \in Nat] == IF n = 0 THEN Initial ELSE 2 * Doubled[n - 1]

\* Besides, the delays between the attempts double from the initial one up to
\* the maximum.
FailedAttemptsLeaveNothing ==
    /\ PoolsAndLockReturned
    /\ \A r \in Replicas :
           pc[r] = "sleep" => wait[r] = Smaller(Doubled[attempt[r] - 1], MaxDelay)

\* Startup ends, though the lock or the database may never be available.
StartupEnds == \A r \in Replicas : pc[r] = "start" ~> pc[r] \in {"serving", "failed", "down"}
=============================================================================
