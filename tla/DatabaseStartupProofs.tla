------------------------ MODULE DatabaseStartupProofs ------------------------
(***************************************************************************)
(* What DatabaseStartup promises, for any number of replicas, of releases, *)
(* of attempts and of crashes, and any delays.                             *)
(***************************************************************************)
EXTENDS DatabaseStartup, WellFoundedInduction, TLAPS

-----------------------------------------------------------------------------
(* The migrations, the pools and the lock. *)

\* The part of TypeOK that the migrations depend on.
ShapeInv ==
    /\ applied \in Seq(Nat) /\ lock \in Replicas \cup {"none"}
    /\ pc \in [Replicas -> {"start", "open", "check", "lock", "migrate", "finalize",
                            "sleep", "serving", "failed", "down"}]
    /\ pending \in [Replicas -> SUBSET Nat]
    /\ pools \in [Replicas -> Nat]

\* Who migrates has the lock, and what goose found missing is what the
\* replicas before it left to do.
MigratingInv ==
    \A r \in Replicas : pc[r] = "migrate" =>
        lock = r /\ pending[r] = (Len(applied) + 1)..Known[r]

\* Who is past the migrations has them all in the database.
MigratedInv ==
    \A r \in Migrating : pc[r] \in {"finalize", "serving"} => Len(applied) >= Known[r]

IInv == ShapeInv /\ PoolsAndLockReturned /\ MigratedOnceInOrder /\ MigratingInv /\ MigratedInv

\* A step of r outside the migrations: the table stays, and if the lock
\* changes it was r's.
Aside(r) ==
    /\ applied' = applied
    /\ \E p \in {"start", "open", "check", "lock", "finalize", "sleep", "serving", "failed", "down"} :
           /\ pc' = [pc EXCEPT ![r] = p]
           /\ pools' = [pools EXCEPT ![r] = IF p \in {"check", "lock", "finalize", "serving"} THEN 1 ELSE 0]
           /\ r \in Migrating /\ p \in {"finalize", "serving"} => Len(applied) >= Known[r]
    /\ pending' \in [Replicas -> SUBSET Nat]
    /\ \A q \in Replicas \ {r} : pending'[q] = pending[q]
    /\ lock' = IF lock = r THEN "none" ELSE lock

\* Every such step keeps the invariant.
LEMMA AsideKeepsInvariant ==
    ASSUME IInv, NEW r \in Replicas, Aside(r)
    PROVE  IInv'
<1> USE DEF IInv, Aside
<1>0. PICK p \in {"start", "open", "check", "lock", "finalize", "sleep", "serving", "failed", "down"} :
          /\ pc' = [pc EXCEPT ![r] = p]
          /\ pools' = [pools EXCEPT ![r] = IF p \in {"check", "lock", "finalize", "serving"} THEN 1 ELSE 0]
          /\ r \in Migrating /\ p \in {"finalize", "serving"} => Len(applied) >= Known[r]
      OBVIOUS
<1>1. ShapeInv' BY <1>0 DEF ShapeInv
<1>2. PoolsAndLockReturned'
      BY <1>0, StartupAssumption DEF PoolsAndLockReturned, ShapeInv
<1>3. MigratedOnceInOrder' BY DEF MigratedOnceInOrder
<1>4. MigratingInv' BY <1>0 DEF MigratingInv, ShapeInv
<1>5. MigratedInv' BY <1>0, StartupAssumption DEF MigratedInv, ShapeInv
<1> QED BY <1>1, <1>2, <1>3, <1>4, <1>5

\* A failed attempt is such a step.
LEMMA FailIsAside ==
    ASSUME IInv, NEW r \in Replicas, NEW e, Fail(r, e), UNCHANGED applied
    PROVE  Aside(r)
BY DEF IInv, ShapeInv, Fail, Aside, Goto, ReleaseLock

\* What goose finds missing when it holds the lock.
LEMMA MissingIsTheRest ==
    ASSUME IInv, NEW r \in Replicas
    PROVE  Missing(r) = (Len(applied) + 1)..Known[r]
<1>1. Len(applied) \in Nat BY DEF IInv, ShapeInv
<1>2. {applied[i] : i \in 1..Len(applied)} = 1..Len(applied)
      BY DEF IInv, MigratedOnceInOrder
<1> QED BY <1>1, <1>2, StartupAssumption DEF Missing

LEMMA InitialStates == Init => IInv
BY StartupAssumption DEF Init, IInv, ShapeInv, PoolsAndLockReturned, MigratedOnceInOrder, MigratingInv, MigratedInv

\* Taking the lock.
LEMMA LockKeepsInvariant ==
    ASSUME IInv, NEW r \in Replicas, Lock(r)
    PROVE  IInv'
<1>1. CASE \E e \in Possible(r) : Fail(r, e)
      BY <1>1, FailIsAside, AsideKeepsInvariant DEF Lock
<1>2. CASE /\ lock = "none" /\ lock' = r
           /\ pending' = [pending EXCEPT ![r] = Missing(r)]
           /\ Goto(r, "migrate")
           /\ UNCHANGED pools
  <2> USE DEF IInv, Lock, Goto
  <2>0. /\ applied' = applied /\ Len(applied) \in Nat /\ Known[r] \in Nat
        /\ Missing(r) = (Len(applied) + 1)..Known[r] /\ Missing(r) \in SUBSET Nat
        BY MissingIsTheRest, StartupAssumption DEF ShapeInv
  <2>1. ShapeInv' BY <1>2, <2>0 DEF ShapeInv
  <2>2. PoolsAndLockReturned' BY <1>2, StartupAssumption DEF PoolsAndLockReturned, ShapeInv
  <2>3. MigratedOnceInOrder' BY <2>0 DEF MigratedOnceInOrder
  <2>4. MigratingInv' BY <1>2, <2>0, StartupAssumption DEF MigratingInv, ShapeInv
  <2>5. MigratedInv' BY <1>2, <2>0, StartupAssumption DEF MigratedInv, ShapeInv
  <2> QED BY <2>1, <2>2, <2>3, <2>4, <2>5
<1> QED BY <1>1, <1>2 DEF Lock

\* One migration.
LEMMA ApplyKeepsInvariant ==
    ASSUME IInv, NEW r \in Replicas, Apply(r)
    PROVE  IInv'
<1> USE DEF IInv
<1>0. /\ pc[r] = "migrate" /\ lock = r /\ pending[r] = (Len(applied) + 1)..Known[r]
      /\ Len(applied) \in Nat /\ Known[r] \in Nat /\ applied \in Seq(Nat)
      BY StartupAssumption DEF Apply, MigratingInv, ShapeInv
<1>1. CASE UNCHANGED applied /\ \E e \in Possible(r) : Fail(r, e)
      BY <1>1, FailIsAside, AsideKeepsInvariant
<1>2. ASSUME NEW m \in pending[r], \A n \in pending[r] : m <= n,
             applied' = Append(applied, m),
             \/ /\ pending' = [pending EXCEPT ![r] = @ \ {m}]
                /\ UNCHANGED <<lock, pc, attempt, pools, wait, ctx, crashes>>
             \/ Fail(r, "transient")
      PROVE  IInv'
  <2>1. m = Len(applied) + 1 BY <1>0, <1>2
  <2>2. /\ applied' \in Seq(Nat) /\ Len(applied') = Len(applied) + 1
        /\ \A i \in 1..Len(applied) : applied'[i] = applied[i]
        /\ applied'[Len(applied) + 1] = m
        BY <1>0, <1>2, <2>1
  <2>3. MigratedOnceInOrder'
        BY <1>0, <2>1, <2>2 DEF MigratedOnceInOrder
  <2>4. \A q \in Replicas \ {r} : pc[q] # "migrate" BY <1>0 DEF MigratingInv
  <2>4a. \A q \in Replicas : Known[q] \in Nat /\ (Len(applied) >= Known[q] => Len(applied') >= Known[q])
        BY <1>0, <2>2, StartupAssumption
  <2>5. CASE /\ pending' = [pending EXCEPT ![r] = @ \ {m}]
             /\ UNCHANGED <<lock, pc, attempt, pools, wait, ctx, crashes>>
    <3>1. ShapeInv' BY <2>2, <2>5 DEF ShapeInv
    <3>2. PoolsAndLockReturned' BY <2>5 DEF PoolsAndLockReturned
    <3>3. MigratingInv'
      <4>1. pending'[r] = (Len(applied') + 1)..Known[r]
        <5>1. pending'[r] = pending[r] \ {m} BY <2>5 DEF ShapeInv
        <5> QED BY <1>0, <2>1, <2>2, <5>1
      <4> QED BY <1>0, <2>4, <2>5, <4>1 DEF MigratingInv
    <3>4. MigratedInv' BY <1>0, <2>2, <2>4a, <2>5, StartupAssumption DEF MigratedInv
    <3> QED BY <2>3, <3>1, <3>2, <3>3, <3>4
  <2>6. CASE Fail(r, "transient")
    <3>0. PICK p \in {"sleep", "failed"} : pc' = [pc EXCEPT ![r] = p]
          BY <2>6 DEF Fail, Goto
    <3>1. /\ pools' = [pools EXCEPT ![r] = 0] /\ pending' = [pending EXCEPT ![r] = {}]
          /\ lock' = "none"
          BY <1>0, <2>6 DEF Fail, ReleaseLock
    <3>2. ShapeInv' BY <2>2, <3>0, <3>1 DEF ShapeInv
    <3>3. PoolsAndLockReturned' BY <3>0, <3>1, StartupAssumption DEF PoolsAndLockReturned, ShapeInv
    <3>4. MigratingInv' BY <2>4, <3>0, <3>1 DEF MigratingInv, ShapeInv
    <3>5. MigratedInv' BY <1>0, <2>2, <2>4a, <3>0, StartupAssumption DEF MigratedInv, ShapeInv
    <3> QED BY <2>3, <3>2, <3>3, <3>4, <3>5
  <2> QED BY <1>2, <2>5, <2>6
<1> QED BY <1>1, <1>2 DEF Apply

LEMMA NextKeepsInvariant ==
    IInv /\ [Next]_vars => IInv'
<1> SUFFICES ASSUME IInv, [Next]_vars PROVE IInv'
    OBVIOUS
<1>1. CASE UNCHANGED vars
      BY <1>1 DEF IInv, ShapeInv, PoolsAndLockReturned, MigratedOnceInOrder, MigratingInv,
                  MigratedInv, vars, replicaVars
<1>2. ASSUME NEW r \in Replicas, SetupRuntime(r) \/ Cancel(r) \/ Crash(r) \/ Restart(r)
      PROVE  IInv'
  <2> USE DEF Goto, ReleaseLock
  <2>0. /\ pc \in [Replicas -> {"start", "open", "check", "lock", "migrate", "finalize",
                               "sleep", "serving", "failed", "down"}]
        /\ pools \in [Replicas -> Nat] /\ pending \in [Replicas -> SUBSET Nat]
        /\ \A q \in Replicas : pools[q] = IF pc[q] \in {"check", "lock", "migrate", "finalize", "serving"} THEN 1 ELSE 0
        /\ lock = r => pc[r] = "migrate"
        BY DEF IInv, ShapeInv, PoolsAndLockReturned
  <2>1. CASE BeginAttempt(r)
        BY <2>0, <2>1, AsideKeepsInvariant, Zenon DEF BeginAttempt, Aside
  <2>2. CASE Open(r)
    <3>1. CASE \E e \in Possible(r) : Fail(r, e)
          BY <2>2, <3>1, FailIsAside, AsideKeepsInvariant DEF Open
    <3>2. CASE /\ pools' = [pools EXCEPT ![r] = @ + 1]
               /\ Goto(r, IF r \in Migrating THEN "check" ELSE "finalize")
               /\ UNCHANGED <<lock, pending>>
      <4>0. pools[r] = 0 /\ pools[r] + 1 = 1 /\ lock # r /\ applied' = applied
            BY <2>0, <2>2 DEF Open
      <4>1. pools' = [pools EXCEPT ![r] = 1] /\ lock # r /\ applied' = applied
            BY <3>2, <4>0
      <4>2. CASE r \in Migrating
        <5>1. pc' = [pc EXCEPT ![r] = "check"] BY <3>2, <4>2
        <5> QED BY <2>0, <3>2, <4>1, <5>1, AsideKeepsInvariant DEF Aside
      <4>3. CASE r \notin Migrating
        <5>1. pc' = [pc EXCEPT ![r] = "finalize"] BY <3>2, <4>3
        <5> QED BY <2>0, <3>2, <4>1, <4>3, <5>1, AsideKeepsInvariant DEF Aside
      <4> QED BY <4>2, <4>3
    <3> QED BY <2>2, <3>1, <3>2 DEF Open
  <2>3. CASE Lock(r) BY <2>3, LockKeepsInvariant
  <2>4. CASE Apply(r) BY <2>4, ApplyKeepsInvariant
  <2>5. CASE Unlock(r)
    <3>1. CASE \E e \in Possible(r) : Fail(r, e)
          BY <2>5, <3>1, FailIsAside, AsideKeepsInvariant DEF Unlock
    <3>2. CASE ReleaseLock(r) /\ Goto(r, "finalize") /\ UNCHANGED <<pending, pools>>
      <4>1. Len(applied) \in Nat /\ Known[r] \in Nat /\ (Len(applied) + 1)..Known[r] = {}
        <5>1. Len(applied) \in Nat /\ Known[r] \in Nat
              BY StartupAssumption DEF IInv, ShapeInv
        <5>2. pc[r] = "migrate" /\ pending[r] = {} BY <2>5 DEF Unlock
        <5>3. pending[r] = (Len(applied) + 1)..Known[r] BY <5>2 DEF IInv, MigratingInv
        <5> QED BY <5>1, <5>2, <5>3
      <4>2. Len(applied) >= Known[r] BY <4>1
      <4>3. pools' = [pools EXCEPT ![r] = 1] /\ applied' = applied
        <5>1. pools[r] = 1 BY <2>0, <2>5 DEF Unlock
        <5>2. pools = [pools EXCEPT ![r] = 1] BY <2>0, <5>1
        <5> QED BY <2>5, <3>2, <5>2 DEF Unlock
      <4> QED BY <2>0, <3>2, <4>2, <4>3, AsideKeepsInvariant DEF Aside
    <3> QED BY <2>5, <3>1, <3>2 DEF Unlock
  <2>6. CASE Finalize(r)
    <3>1. r \in Migrating => Len(applied) >= Known[r]
          BY <2>6 DEF Finalize, IInv, MigratedInv
    <3> QED BY <2>0, <2>6, <3>1, AsideKeepsInvariant DEF Finalize, Aside
  <2>7. CASE Sleep(r) BY <2>0, <2>7, AsideKeepsInvariant DEF Sleep, Aside
  <2>8. CASE Cancel(r)
        BY <2>8 DEF Cancel, replicaVars, IInv, ShapeInv, PoolsAndLockReturned,
                    MigratedOnceInOrder, MigratingInv, MigratedInv
  <2>9. CASE Crash(r) BY <2>0, <2>9, AsideKeepsInvariant DEF Crash, Aside
  <2>10. CASE Restart(r) BY <2>0, <2>10, AsideKeepsInvariant DEF Restart, Aside
  <2>11. CASE HasPending(r)
    <3>1. CASE \E e \in Possible(r) : Fail(r, e)
          BY <2>11, <3>1, FailIsAside, AsideKeepsInvariant DEF HasPending
    <3>2. CASE /\ Goto(r, IF Missing(r) = {} THEN "finalize" ELSE "lock")
               /\ UNCHANGED <<lock, pending, pools>>
      <4>1. pools' = [pools EXCEPT ![r] = 1] /\ lock # r /\ applied' = applied
        <5>1. pools[r] = 1 /\ lock # r BY <2>0, <2>11 DEF HasPending
        <5>2. pools = [pools EXCEPT ![r] = 1] BY <2>0, <5>1
        <5> QED BY <2>11, <3>2, <5>1, <5>2 DEF HasPending
      <4>2. CASE Missing(r) = {}
        <5>1. pc' = [pc EXCEPT ![r] = "finalize"] BY <3>2, <4>2
        <5>2. Len(applied) \in Nat /\ Known[r] \in Nat
              BY StartupAssumption DEF IInv, ShapeInv
        <5>3. (Len(applied) + 1)..Known[r] = {} BY <4>2, MissingIsTheRest
        <5>4. Len(applied) >= Known[r] BY <5>2, <5>3
        <5> QED BY <2>0, <3>2, <4>1, <5>1, <5>4, AsideKeepsInvariant DEF Aside
      <4>3. CASE Missing(r) # {}
        <5>1. pc' = [pc EXCEPT ![r] = "lock"] BY <3>2, <4>3
        <5> QED BY <2>0, <3>2, <4>1, <5>1, AsideKeepsInvariant DEF Aside
      <4> QED BY <4>2, <4>3
    <3> QED BY <2>11, <3>1, <3>2 DEF HasPending
  <2> QED BY <1>2, <2>1, <2>2, <2>3, <2>4, <2>5, <2>6, <2>7, <2>8, <2>9, <2>10, <2>11
          DEF SetupRuntime
<1> QED BY <1>1, <1>2 DEF Next, Settled

LEMMA InvariantHolds == Spec => []IInv
BY InitialStates, NextKeepsInvariant, PTL DEF Spec

-----------------------------------------------------------------------------
(* Induction. *)

\* A set of naturals that holds 0 and with every number the next holds them all.
LEMMA SetInduction ==
    ASSUME NEW S, 0 \in S, \A n \in Nat : n \in S => n + 1 \in S
    PROVE  Nat \subseteq S
<1> DEFINE T == Nat \ S
<1>1. SUFFICES ASSUME T # {} PROVE FALSE
      OBVIOUS
<1>2. PICK x \in T : \A y \in T : ~ (<<y, x>> \in OpToRel(<, Nat))
  <2>1. T \subseteq Nat OBVIOUS
  <2>2. IsWellFoundedOn(OpToRel(<, Nat), Nat) BY NatLessThanWellFounded
  <2> QED BY <1>1, <2>1, <2>2, WFMin
<1>3. x \in Nat \ {0} /\ x - 1 \in T OBVIOUS
<1>4. <<x - 1, x>> \in OpToRel(<, Nat) BY <1>3 DEF OpToRel
<1> QED BY <1>2, <1>3, <1>4

-----------------------------------------------------------------------------
(* The delays. *)

\* f doubles from the initial delay up to place n.
Doubles(f, n) ==
    /\ f[0] = Initial
    /\ \A i \in 1..n : f[i] = 2 * f[i - 1]

LEMMA InitialIsPositive == Initial \in Nat /\ Initial > 0
BY StartupAssumption

LEMMA DoublesExists == \A n \in Nat : \E f \in [0..n -> Nat] : Doubles(f, n)
<1> DEFINE S == {n \in Nat : \E f \in [0..n -> Nat] : Doubles(f, n)}
<1>1. 0 \in S
  <2> DEFINE f == [i \in 0..0 |-> Initial]
  <2>1. f \in [0..0 -> Nat] /\ Doubles(f, 0)
        BY InitialIsPositive DEF Doubles
  <2> QED BY <2>1
<1>2. \A n \in Nat : n \in S => n + 1 \in S
  <2> SUFFICES ASSUME NEW n \in Nat, NEW f \in [0..n -> Nat], Doubles(f, n)
               PROVE  \E g \in [0..(n + 1) -> Nat] : Doubles(g, n + 1)
      OBVIOUS
  <2> DEFINE g == [i \in 0..(n + 1) |-> IF i = n + 1 THEN 2 * f[n] ELSE f[i]]
  <2>1. g \in [0..(n + 1) -> Nat] OBVIOUS
  <2>2. \A i \in 0..n : g[i] = f[i] OBVIOUS
  <2>3. g[n + 1] = 2 * f[n] /\ g[n] = f[n] OBVIOUS
  <2> HIDE DEF g
  <2>4. ASSUME NEW i \in 1..(n + 1) PROVE g[i] = 2 * g[i - 1]
    <3>1. CASE i = n + 1
      <4>1. i - 1 = n BY <3>1
      <4> QED BY <2>3, <3>1, <4>1
    <3>2. CASE i # n + 1
      <4>1. i \in 1..n /\ i \in 0..n /\ i - 1 \in 0..n BY <3>2
      <4>2. f[i] = 2 * f[i - 1] BY <4>1 DEF Doubles
      <4> QED BY <2>2, <4>1, <4>2
    <3> QED BY <3>1, <3>2
  <2>5. g[0] = Initial BY <2>2 DEF Doubles
  <2>6. Doubles(g, n + 1) BY <2>4, <2>5 DEF Doubles
  <2> QED BY <2>1, <2>6
<1> HIDE DEF S
<1>3. Nat \subseteq S BY <1>1, <1>2, SetInduction
<1> QED BY <1>3 DEF S

LEMMA DoublesUnique ==
    ASSUME NEW m \in Nat, NEW n \in Nat, NEW f, NEW g, Doubles(f, m), Doubles(g, n)
    PROVE  \A i \in Nat : i <= m /\ i <= n => f[i] = g[i]
<1> DEFINE S == {i \in Nat : i <= m /\ i <= n => f[i] = g[i]}
<1>1. 0 \in S BY DEF Doubles
<1>2. \A i \in Nat : i \in S => i + 1 \in S
  <2> SUFFICES ASSUME NEW i \in Nat, i \in S, i + 1 <= m, i + 1 <= n
               PROVE  f[i + 1] = g[i + 1]
      OBVIOUS
  <2>1. f[i] = g[i] OBVIOUS
  <2>2. i + 1 \in 1..m /\ i + 1 \in 1..n /\ (i + 1) - 1 = i OBVIOUS
  <2>3. f[i + 1] = 2 * f[i] /\ g[i + 1] = 2 * g[i] BY <2>2 DEF Doubles
  <2> QED BY <2>1, <2>3
<1> HIDE DEF S
<1>3. Nat \subseteq S BY <1>1, <1>2, SetInduction
<1> QED BY <1>3 DEF S

\* The recursion that defines Doubled has a solution.
LEMMA DoubledIsDefined ==
    Doubled = [n \in Nat |-> IF n = 0 THEN Initial ELSE 2 * Doubled[n - 1]]
<1> DEFINE upTo(n) == CHOOSE f \in [0..n -> Nat] : Doubles(f, n)
           D == [n \in Nat |-> upTo(n)[n]]
<1>1. \A n \in Nat : upTo(n) \in [0..n -> Nat] /\ Doubles(upTo(n), n)
      BY DoublesExists
<1> HIDE DEF upTo
<1>2. ASSUME NEW n \in Nat PROVE D[n] = IF n = 0 THEN Initial ELSE 2 * D[n - 1]
  <2>1. CASE n = 0 BY <1>1, <2>1 DEF Doubles
  <2>2. CASE n # 0
    <3>1. n - 1 \in Nat /\ n \in 1..n /\ n - 1 <= n /\ n - 1 <= n - 1 BY <2>2
    <3>2. upTo(n)[n] = 2 * upTo(n)[n - 1] BY <1>1, <3>1 DEF Doubles
    <3>3. upTo(n)[n - 1] = upTo(n - 1)[n - 1] BY <1>1, <3>1, DoublesUnique
    <3> QED BY <2>2, <3>1, <3>2, <3>3
  <2> QED BY <2>1, <2>2
<1>3. D = [n \in Nat |-> IF n = 0 THEN Initial ELSE 2 * D[n - 1]]
  <2> DEFINE E == [n \in Nat |-> IF n = 0 THEN Initial ELSE 2 * D[n - 1]]
  <2>1. \A n \in Nat : D[n] = E[n] BY <1>2
  <2>2. D = [n \in Nat |-> D[n]] OBVIOUS
  <2>3. E = [n \in Nat |-> E[n]] OBVIOUS
  <2> HIDE DEF D, E
  <2>4. D = E BY <2>1, <2>2, <2>3
  <2> QED BY <2>4 DEF E
<1> HIDE DEF D
<1> QED BY <1>3 DEF Doubled

\* Doubling goes on for ever, and stays a natural number.
LEMMA DoubledProperties ==
    /\ Doubled[0] = Initial
    /\ \A n \in Nat : Doubled[n] \in Nat /\ Doubled[n] > 0 /\ Doubled[n + 1] = 2 * Doubled[n]
<1>1. Doubled[0] = Initial BY DoubledIsDefined
<1>2. \A n \in Nat : Doubled[n + 1] = 2 * Doubled[n]
  <2> SUFFICES ASSUME NEW n \in Nat PROVE Doubled[n + 1] = 2 * Doubled[n]
      OBVIOUS
  <2>1. n + 1 \in Nat /\ n + 1 # 0 /\ (n + 1) - 1 = n OBVIOUS
  <2> QED BY <2>1, DoubledIsDefined
<1> DEFINE S == {n \in Nat : Doubled[n] \in Nat /\ Doubled[n] > 0}
<1>3. 0 \in S BY <1>1, InitialIsPositive
<1>4. \A n \in Nat : n \in S => n + 1 \in S BY <1>2
<1> HIDE DEF S
<1>5. Nat \subseteq S BY <1>3, <1>4, SetInduction
<1> QED BY <1>1, <1>2, <1>5 DEF S

\* What one round of the loop of startupRetryDelay makes of a delay.
NextDelay(d) ==
    IF d >= MaxDelay \/ d > MaxDelay \div 2 THEN MaxDelay ELSE Wrapped(2 * d)

\* The delay before the i-th retry, by the definition of doubling.
Limited(i) == Smaller(Doubled[i - 1], MaxDelay)

\* A round doubles up to the maximum, and never overflows.
LEMMA RoundDoubles ==
    ASSUME NEW i \in Nat \ {0}
    PROVE  Limited(i) \in 1..MaxDelay /\ Limited(i + 1) = NextDelay(Limited(i))
<1> DEFINE d == Doubled[i - 1]
<1>1. d \in Nat /\ d > 0 /\ Doubled[(i + 1) - 1] = 2 * d
  <2>1. i - 1 \in Nat /\ (i + 1) - 1 = (i - 1) + 1 OBVIOUS
  <2> QED BY <2>1, DoubledProperties
<1> HIDE DEF d
<1>2. MaxDelay \in Nat /\ MaxDelay > 0 /\ DurationRange \in Nat /\ MaxDelay < DurationRange
      BY StartupAssumption
<1>3. Limited(i) = (IF d < MaxDelay THEN d ELSE MaxDelay)
      /\ Limited(i + 1) = (IF 2 * d < MaxDelay THEN 2 * d ELSE MaxDelay)
      BY <1>1 DEF Limited, Smaller, d
<1>4. CASE d >= MaxDelay
      BY <1>1, <1>2, <1>3, <1>4 DEF NextDelay
<1>5. CASE d < MaxDelay /\ d > MaxDelay \div 2
  <2>1. 2 * d > MaxDelay BY <1>1, <1>2, <1>5
  <2> QED BY <1>1, <1>2, <1>3, <1>5, <2>1 DEF NextDelay
<1>6. CASE d < MaxDelay /\ ~ (d > MaxDelay \div 2)
  <2>1. 2 * d <= MaxDelay BY <1>1, <1>2, <1>6
  <2>2. Wrapped(2 * d) = 2 * d BY <1>1, <1>2, <2>1 DEF Wrapped
  <2> QED BY <1>1, <1>2, <1>3, <1>6, <2>1, <2>2 DEF NextDelay
<1> QED BY <1>1, <1>2, <1>4, <1>5, <1>6

\* The loop that startupRetryDelay runs for the n-th retry has one result for
\* every round.
LEMMA LoopIsLimited ==
    ASSUME NEW n \in Nat \ {0}, NEW delay,
           delay = CHOOSE f : f = [i \in 1..n |-> IF i = 1 THEN Initial ELSE NextDelay(f[i - 1])]
    PROVE  delay[n] = Limited(n)
<1> DEFINE g == [i \in 1..n |-> Limited(i)]
           h == [i \in 1..n |-> IF i = 1 THEN Initial ELSE NextDelay(g[i - 1])]
<1>1. Limited(1) = Initial
  <2>1. 1 - 1 = 0 /\ Initial <= MaxDelay BY StartupAssumption
  <2> QED BY <2>1, DoubledProperties, StartupAssumption DEF Limited, Smaller
<1>2. ASSUME NEW i \in 1..n PROVE g[i] = h[i]
  <2>1. CASE i = 1 BY <1>1, <2>1
  <2>2. CASE i # 1
    <3>1. i - 1 \in Nat \ {0} /\ i - 1 \in 1..n /\ (i - 1) + 1 = i BY <2>2
    <3>2. Limited(i) = NextDelay(Limited(i - 1)) BY <3>1, RoundDoubles
    <3> HIDE DEF Limited, NextDelay
    <3> QED BY <2>2, <3>1, <3>2
  <2> QED BY <2>1, <2>2
<1>3. g = h
  <2>1. g = [i \in 1..n |-> g[i]] /\ h = [i \in 1..n |-> h[i]] OBVIOUS
  <2> HIDE DEF g, h
  <2> QED BY <1>2, <2>1
<1>4. delay = [i \in 1..n |-> IF i = 1 THEN Initial ELSE NextDelay(delay[i - 1])]
  <2>1. g = [i \in 1..n |-> IF i = 1 THEN Initial ELSE NextDelay(g[i - 1])]
        BY <1>3 DEF h
  <2> HIDE DEF g
  <2> QED BY <2>1
<1> DEFINE S == {i \in Nat : i + 1 <= n => delay[i + 1] = Limited(i + 1)}
<1>5. 0 \in S
  <2> DEFINE result(i) == IF i = 1 THEN Initial ELSE NextDelay(delay[i - 1])
  <2>1. delay = [i \in 1..n |-> result(i)] BY <1>4
  <2>2. result(1) = Initial /\ 1 \in 1..n OBVIOUS
  <2> HIDE DEF result
  <2>3. delay[1] = Initial BY <2>1, <2>2
  <2> QED BY <1>1, <2>3
<1>6. \A i \in Nat : i \in S => i + 1 \in S
  <2> SUFFICES ASSUME NEW i \in Nat, i \in S, (i + 1) + 1 <= n
               PROVE  delay[(i + 1) + 1] = Limited((i + 1) + 1)
      OBVIOUS
  <2>1. delay[i + 1] = Limited(i + 1) OBVIOUS
  <2>2. (i + 1) + 1 \in 1..n /\ (i + 1) + 1 # 1 /\ ((i + 1) + 1) - 1 = i + 1 OBVIOUS
  <2>3. delay[(i + 1) + 1] = NextDelay(delay[i + 1]) BY <1>4, <2>2
  <2>4. Limited((i + 1) + 1) = NextDelay(Limited(i + 1)) BY RoundDoubles
  <2> QED BY <2>1, <2>3, <2>4
<1> HIDE DEF S
<1>7. Nat \subseteq S BY <1>5, <1>6, SetInduction
<1>8. n - 1 \in S BY <1>7
<1>9. (n - 1) + 1 = n OBVIOUS
<1> QED BY <1>8, <1>9 DEF S

\* However often startup is retried, its delays double up to the maximum.
LEMMA RetryDelayDoubles ==
    ASSUME NEW n \in Nat \ {0}
    PROVE  /\ RetryDelay(n) = Smaller(Doubled[n - 1], MaxDelay)
           /\ RetryDelay(n) \in 1..MaxDelay
<1> DEFINE delay == CHOOSE f : f = [i \in 1..n |-> IF i = 1 THEN Initial ELSE NextDelay(f[i - 1])]
<1>1. RetryDelay(n) = Smaller(delay[n], MaxDelay)
      BY DEF RetryDelay, NextDelay
<1> HIDE DEF delay
<1>2. delay[n] = Limited(n)
      BY LoopIsLimited DEF delay
<1>3. Limited(n) \in 1..MaxDelay BY RoundDoubles
<1>4. Smaller(Limited(n), MaxDelay) = Limited(n)
      BY <1>3, StartupAssumption DEF Smaller
<1> QED BY <1>1, <1>2, <1>3, <1>4 DEF Limited

-----------------------------------------------------------------------------
(* The attempts. *)

\* A replica that sleeps has another attempt, and sleeps as long as the number
\* of its attempts demands.
AttemptInv ==
    \A r \in Replicas : pc[r] = "sleep" =>
        attempt[r] < MaxAttempts /\ wait[r] = Smaller(Doubled[attempt[r] - 1], MaxDelay)

LEMMA FailKeepsAttempts ==
    ASSUME TypeOK, AttemptInv, NEW r \in Replicas, NEW e, Fail(r, e), applied' \in Seq(Nat)
    PROVE  TypeOK' /\ AttemptInv'
<1> USE DEF TypeOK, AttemptInv, Fail, Goto, ReleaseLock
<1>1. attempt[r] \in Nat \ {0} /\ attempt[r] \in 1..MaxAttempts
      BY StartupAssumption
<1>2. /\ RetryDelay(attempt[r]) \in 0..MaxDelay
      /\ RetryDelay(attempt[r]) = Smaller(Doubled[attempt[r] - 1], MaxDelay)
  <2>1. \A n \in Nat \ {0} : /\ RetryDelay(n) \in 1..MaxDelay
                             /\ RetryDelay(n) = Smaller(Doubled[n - 1], MaxDelay)
        BY RetryDelayDoubles
  <2> HIDE DEF TypeOK, AttemptInv, Fail
  <2>2. \A d \in 1..MaxDelay : d \in 0..MaxDelay BY StartupAssumption
  <2> QED BY <1>1, <2>1, <2>2
<1>3. CASE Retryable(r, e) /\ attempt[r] < MaxAttempts
      BY <1>2, <1>3
<1>4. CASE ~ (Retryable(r, e) /\ attempt[r] < MaxAttempts)
      BY <1>4
<1> QED BY <1>3, <1>4

LEMMA NextKeepsAttempts ==
    ASSUME TypeOK, AttemptInv, [Next]_vars
    PROVE  TypeOK' /\ AttemptInv'
<1>1. CASE UNCHANGED vars
      BY <1>1 DEF vars, replicaVars, TypeOK, AttemptInv
<1>2. ASSUME NEW r \in Replicas, SetupRuntime(r) \/ Cancel(r) \/ Crash(r) \/ Restart(r)
      PROVE  TypeOK' /\ AttemptInv'
  <2> USE DEF Goto, ReleaseLock
  <2>1. CASE BeginAttempt(r)
        BY <2>1 DEF BeginAttempt, TypeOK, AttemptInv
  <2>2. CASE Open(r)
    <3>1. CASE \E e \in Possible(r) : Fail(r, e)
          BY <2>2, <3>1, FailKeepsAttempts DEF Open, TypeOK
    <3>2. CASE /\ pools' = [pools EXCEPT ![r] = @ + 1]
               /\ Goto(r, IF r \in Migrating THEN "check" ELSE "finalize")
               /\ UNCHANGED <<lock, attempt, pending, wait, ctx, crashes>>
          BY <2>2, <3>2 DEF Open, TypeOK, AttemptInv
    <3> QED BY <2>2, <3>1, <3>2 DEF Open
  <2>3. CASE Lock(r)
    <3>1. CASE \E e \in Possible(r) : Fail(r, e)
          BY <2>3, <3>1, FailKeepsAttempts DEF Lock, TypeOK
    <3>2. CASE /\ lock' = r
               /\ pending' = [pending EXCEPT ![r] = Missing(r)]
               /\ Goto(r, "migrate")
               /\ UNCHANGED <<attempt, pools, wait, ctx, crashes>>
      <4>1. Missing(r) \in SUBSET Nat BY StartupAssumption DEF Missing
      <4> QED BY <2>3, <3>2, <4>1 DEF Lock, TypeOK, AttemptInv
    <3> QED BY <2>3, <3>1, <3>2 DEF Lock
  <2>4. CASE Apply(r)
    <3>1. CASE \E e \in Possible(r) : Fail(r, e) /\ UNCHANGED applied
          BY <3>1, FailKeepsAttempts DEF TypeOK
    <3>2. ASSUME NEW m \in pending[r], applied' = Append(applied, m),
                 \/ /\ pending' = [pending EXCEPT ![r] = @ \ {m}]
                    /\ UNCHANGED <<lock, pc, attempt, pools, wait, ctx, crashes>>
                 \/ Fail(r, "transient")
          PROVE  TypeOK' /\ AttemptInv'
      <4>1. applied' \in Seq(Nat) BY <3>2 DEF TypeOK
      <4>2. CASE Fail(r, "transient") BY <4>1, <4>2, FailKeepsAttempts
      <4>3. CASE /\ pending' = [pending EXCEPT ![r] = @ \ {m}]
                 /\ UNCHANGED <<lock, pc, attempt, pools, wait, ctx, crashes>>
            BY <4>1, <4>3 DEF TypeOK, AttemptInv
      <4> QED BY <3>2, <4>2, <4>3
    <3> QED BY <2>4, <3>1, <3>2 DEF Apply
  <2>5. CASE Unlock(r)
    <3>1. CASE \E e \in Possible(r) : Fail(r, e)
          BY <2>5, <3>1, FailKeepsAttempts DEF Unlock, TypeOK
    <3>2. CASE ReleaseLock(r) /\ Goto(r, "finalize")
               /\ UNCHANGED <<attempt, pending, pools, wait, ctx, crashes>>
          BY <2>5, <3>2 DEF Unlock, TypeOK, AttemptInv
    <3> QED BY <2>5, <3>1, <3>2 DEF Unlock
  <2>6. CASE Finalize(r)
    <3>1. CASE Goto(r, "serving") /\ UNCHANGED pools
          BY <2>6, <3>1 DEF Finalize, TypeOK, AttemptInv
    <3>2. CASE Goto(r, "failed") /\ pools' = [pools EXCEPT ![r] = 0]
          BY <2>6, <3>2 DEF Finalize, TypeOK, AttemptInv
    <3> QED BY <2>6, <3>1, <3>2 DEF Finalize
  <2>7. CASE Sleep(r)
    <3>1. /\ wait' = [wait EXCEPT ![r] = 0] /\ 0 \in 0..MaxDelay
          /\ pc' = [pc EXCEPT ![r] = IF ctx[r] = "live" THEN "start" ELSE "failed"]
          BY <2>7, StartupAssumption DEF Sleep
    <3>2. attempt' \in [Replicas -> 1..MaxAttempts]
      <4>1. attempt[r] \in 1..MaxAttempts /\ attempt[r] < MaxAttempts
            BY <2>7 DEF Sleep, TypeOK, AttemptInv
      <4>2. attempt[r] + 1 \in 1..MaxAttempts BY <4>1, StartupAssumption
      <4> QED BY <2>7, <4>2 DEF Sleep, TypeOK
    <3>3. \A q \in Replicas \ {r} : attempt'[q] = attempt[q]
          BY <2>7 DEF Sleep, TypeOK
    <3> QED BY <2>7, <3>1, <3>2, <3>3 DEF Sleep, TypeOK, AttemptInv
  <2>8. CASE Cancel(r)
        BY <2>8 DEF Cancel, replicaVars, TypeOK, AttemptInv
  <2>9. CASE Crash(r)
    <3>1. 1 \in 1..MaxAttempts /\ 0 \in 0..MaxDelay /\ crashes + 1 \in 0..MaxCrashes
          BY <2>9, StartupAssumption DEF Crash, TypeOK
    <3> QED BY <2>9, <3>1 DEF Crash, TypeOK, AttemptInv
  <2>10. CASE Restart(r)
        BY <2>10 DEF Restart, TypeOK, AttemptInv
  <2>11. CASE HasPending(r)
    <3>1. CASE \E e \in Possible(r) : Fail(r, e)
          BY <2>11, <3>1, FailKeepsAttempts DEF HasPending, TypeOK
    <3>2. CASE /\ Goto(r, IF Missing(r) = {} THEN "finalize" ELSE "lock")
               /\ UNCHANGED <<lock, attempt, pending, pools, wait, ctx, crashes>>
          BY <2>11, <3>2 DEF HasPending, TypeOK, AttemptInv
    <3> QED BY <2>11, <3>1, <3>2 DEF HasPending
  <2> QED BY <1>2, <2>1, <2>2, <2>3, <2>4, <2>5, <2>6, <2>7, <2>8, <2>9, <2>10, <2>11
          DEF SetupRuntime
<1> QED BY <1>1, <1>2 DEF Next, Settled

LEMMA AttemptsHold == Spec => [](TypeOK /\ AttemptInv)
<1>1. Init => TypeOK /\ AttemptInv
      BY StartupAssumption DEF Init, TypeOK, AttemptInv
<1>2. (TypeOK /\ AttemptInv) /\ [Next]_vars => (TypeOK /\ AttemptInv)'
      BY NextKeepsAttempts
<1> QED BY <1>1, <1>2, PTL DEF Spec

-----------------------------------------------------------------------------
(* Startup takes finitely many steps. *)

\* A bound on the steps of one round of the retry loop.
Round(r) == Known[r] + 8

Remaining(r) == IF Len(applied) <= Known[r] THEN Known[r] - Len(applied) ELSE 0

\* How many steps of the round are left to r at most.
RoundLeft(r) ==
    IF pc[r] = "start" THEN Known[r] + 7
    ELSE IF pc[r] = "open" THEN Known[r] + 6
    ELSE IF pc[r] = "check" THEN Known[r] + 5
    ELSE IF pc[r] = "lock" THEN Known[r] + 4
    ELSE IF pc[r] = "migrate" THEN Remaining(r) + 3
    ELSE IF pc[r] = "finalize" THEN 2
    ELSE 1

Over == {"serving", "failed", "down"}

\* How many steps SetupRuntime of r takes at most until it returns.
StepsLeft(r) == IF pc[r] \in Over THEN 0
                ELSE (MaxAttempts - attempt[r]) * Round(r) + RoundLeft(r)

\* Within the rounds that are left.
StepsBounded == \A r \in Replicas : StepsLeft(r) \in 0..(MaxAttempts * Round(r) - 1)

\* Every step of a replica uses one up at least, and only a restart adds any,
\* whatever the other replicas do.
StepsFall ==
    \A r \in Replicas :
        /\ SetupRuntime(r) => StepsLeft(r)' < StepsLeft(r)
        /\ StepsLeft(r)' > StepsLeft(r) => pc[r] = "down"

LEMMA Rounds ==
    ASSUME NEW a \in 1..MaxAttempts, NEW k \in Nat
    PROVE  /\ (MaxAttempts - a) * k \in Nat
           /\ (MaxAttempts - a) * k <= MaxAttempts * k - k
           /\ (MaxAttempts - (a + 1)) * k = (MaxAttempts - a) * k - k
           /\ MaxAttempts * k \in Nat
<1>1. MaxAttempts \in Nat BY StartupAssumption
<1>2. PICK b \in Nat : b = MaxAttempts - a /\ b + 1 <= MaxAttempts BY <1>1
<1>3. b * k \in Nat /\ (b - 1) * k = b * k - k /\ (b + 1) * k = b * k + k BY <1>2, Z3
<1>4. (b + 1) * k <= MaxAttempts * k /\ MaxAttempts * k \in Nat BY <1>1, <1>2, Z3
<1>5. MaxAttempts - (a + 1) = b - 1 BY <1>1, <1>2
<1> QED BY <1>2, <1>3, <1>4, <1>5

RoundsLimited ==
    \A r \in Replicas : Round(r) \in Nat /\ RoundLeft(r) \in 1..(Round(r) - 1)

LEMMA RoundIsLimited == TypeOK => RoundsLimited
<1> SUFFICES ASSUME TypeOK, NEW r \in Replicas
             PROVE  Round(r) \in Nat /\ RoundLeft(r) \in 1..(Round(r) - 1)
    BY DEF RoundsLimited
<1>1. Known[r] \in Nat /\ Len(applied) \in Nat BY StartupAssumption DEF TypeOK
<1>2. Remaining(r) \in 0..Known[r] BY <1>1 DEF Remaining
<1>3. RoundLeft(r) \in {Known[r] + 7, Known[r] + 6, Known[r] + 5, Known[r] + 4,
                       Remaining(r) + 3, 2, 1}
      BY Zenon DEF RoundLeft
<1>4. Round(r) = Known[r] + 8 BY DEF Round
<1> QED BY <1>1, <1>2, <1>3, <1>4

LEMMA StepsAreBounded == TypeOK => StepsBounded
<1> SUFFICES ASSUME TypeOK, NEW r \in Replicas
             PROVE  StepsLeft(r) \in 0..(MaxAttempts * Round(r) - 1)
    BY DEF StepsBounded
<1> DEFINE k == Round(r)
<1>1. k \in Nat /\ RoundLeft(r) \in 1..(k - 1) BY RoundIsLimited DEF RoundsLimited
<1>2. attempt[r] \in 1..MaxAttempts BY DEF TypeOK
<1> HIDE DEF k
<1>3. /\ (MaxAttempts - attempt[r]) * k \in Nat /\ MaxAttempts * k \in Nat
      /\ (MaxAttempts - attempt[r]) * k <= MaxAttempts * k - k
      BY <1>1, <1>2, Rounds
<1>4. StepsLeft(r) = IF pc[r] \in Over THEN 0 ELSE (MaxAttempts - attempt[r]) * k + RoundLeft(r)
      BY DEF StepsLeft, k
<1>5. StepsLeft(r) \in 0..(MaxAttempts * k - 1) BY <1>1, <1>3, <1>4
<1> QED BY <1>5 DEF k

\* A step that stays in the round.
LEMMA RoundGoesOn ==
    ASSUME TypeOK, TypeOK', NEW r \in Replicas, pc[r] \notin Over, attempt'[r] = attempt[r],
           pc'[r] \in Over \/ RoundLeft(r)' < RoundLeft(r)
    PROVE  StepsLeft(r)' < StepsLeft(r)
<1> DEFINE k == (MaxAttempts - attempt[r]) * Round(r)
<1>1. Round(r) \in Nat /\ RoundLeft(r) \in Nat /\ RoundLeft(r) > 0
      BY RoundIsLimited DEF RoundsLimited
<1>2. RoundLeft(r)' \in Nat /\ RoundLeft(r)' > 0
  <2>1. RoundsLimited' BY RoundIsLimited, PTL
  <2>2. Round(r)' = Round(r) BY DEF Round
  <2> QED BY <1>1, <2>1, <2>2 DEF RoundsLimited
<1>3. k \in Nat
  <2>1. attempt[r] \in 1..MaxAttempts BY DEF TypeOK
  <2> QED BY <1>1, <2>1, Rounds
<1>4. StepsLeft(r) = k + RoundLeft(r) BY DEF StepsLeft
<1>5. StepsLeft(r)' = IF pc'[r] \in Over THEN 0 ELSE k + RoundLeft(r)'
      BY DEF StepsLeft, Round
<1> HIDE DEF k
<1> QED BY <1>1, <1>2, <1>3, <1>4, <1>5

\* A failed attempt leaves no more than the sleep of its round.
LEMMA FailEndsRound ==
    ASSUME TypeOK, TypeOK', NEW r \in Replicas, NEW e, Fail(r, e),
           pc[r] \in {"start", "open", "check", "lock", "migrate", "finalize"}
    PROVE  StepsLeft(r)' < StepsLeft(r)
<1>1. pc'[r] \in {"sleep", "failed"} /\ attempt'[r] = attempt[r]
      BY DEF Fail, Goto, TypeOK
<1>2. Known[r] \in Nat /\ Remaining(r) \in Nat
  <2>1. Known[r] \in Nat /\ Len(applied) \in Nat BY StartupAssumption DEF TypeOK
  <2> QED BY <2>1 DEF Remaining
<1>3. RoundLeft(r) > 1 BY <1>2 DEF RoundLeft
<1>4. pc'[r] = "sleep" => RoundLeft(r)' = 1 BY DEF RoundLeft
<1>5. pc[r] \notin Over /\ (pc'[r] = "failed" => pc'[r] \in Over) BY DEF Over
<1> QED BY <1>1, <1>3, <1>4, <1>5, RoundGoesOn

LEMMA SetupUsesSteps ==
    ASSUME IInv, TypeOK, TypeOK', AttemptInv, NEW r \in Replicas, SetupRuntime(r)
    PROVE  StepsLeft(r)' < StepsLeft(r)
<1>0. Known[r] \in Nat /\ Len(applied) \in Nat /\ Len(applied') \in Nat
  <2>1. applied \in Seq(Nat) /\ applied' \in Seq(Nat) BY DEF TypeOK
  <2> QED BY <2>1, StartupAssumption
<1>1. Remaining(r) \in 0..Known[r] /\ Remaining(r)' \in 0..Known[r]
      BY <1>0 DEF Remaining
<1> USE DEF Goto, TypeOK
<1>2. CASE BeginAttempt(r)
  <2>1. pc[r] = "start" /\ pc'[r] \in {"open", "failed"} /\ attempt'[r] = attempt[r]
        BY <1>2 DEF BeginAttempt
  <2> HIDE DEF TypeOK
  <2>2. pc'[r] = "open" => RoundLeft(r)' < RoundLeft(r) BY <1>0, <2>1 DEF RoundLeft
  <2> QED BY <2>1, <2>2, RoundGoesOn DEF Over
<1>3. CASE Open(r)
  <2>1. CASE \E e \in Possible(r) : Fail(r, e) BY <1>3, <2>1, FailEndsRound DEF Open
  <2>2. CASE Goto(r, IF r \in Migrating THEN "check" ELSE "finalize") /\ UNCHANGED attempt
    <3>1. pc[r] = "open" /\ pc'[r] \in {"check", "finalize"} /\ attempt'[r] = attempt[r]
          BY <1>3, <2>2 DEF Open
    <3> HIDE DEF TypeOK
    <3>2. RoundLeft(r)' < RoundLeft(r) BY <1>0, <3>1 DEF RoundLeft
    <3> QED BY <3>1, <3>2, RoundGoesOn DEF Over
  <2> QED BY <1>3, <2>1, <2>2 DEF Open
<1>4. CASE Lock(r)
  <2>1. CASE \E e \in Possible(r) : Fail(r, e) BY <1>4, <2>1, FailEndsRound DEF Lock
  <2>2. CASE Goto(r, "migrate") /\ UNCHANGED attempt
    <3>1. pc[r] = "lock" /\ pc'[r] = "migrate" /\ attempt'[r] = attempt[r]
          BY <1>4, <2>2 DEF Lock
    <3> HIDE DEF TypeOK
    <3>2. RoundLeft(r) = Known[r] + 4 /\ RoundLeft(r)' = Remaining(r)' + 3
          BY <3>1 DEF RoundLeft
    <3> QED BY <1>0, <1>1, <3>1, <3>2, RoundGoesOn DEF Over
  <2> QED BY <1>4, <2>1, <2>2 DEF Lock
<1>5. CASE Apply(r)
  <2>1. ASSUME NEW e, Fail(r, e) PROVE StepsLeft(r)' < StepsLeft(r)
        BY <1>5, <2>1, FailEndsRound DEF Apply
  <2>2. ASSUME NEW m \in pending[r], applied' = Append(applied, m), UNCHANGED <<pc, attempt>>
        PROVE  StepsLeft(r)' < StepsLeft(r)
    <3>1. pc[r] = "migrate" /\ pc'[r] = "migrate" /\ attempt'[r] = attempt[r]
          BY <1>5, <2>2 DEF Apply
    <3>2. pending[r] = (Len(applied) + 1)..Known[r] BY <3>1 DEF IInv, MigratingInv
    <3>3. Len(applied') = Len(applied) + 1 BY <2>2
    <3>4. Len(applied) < Known[r] BY <1>0, <2>2, <3>2
    <3> HIDE DEF TypeOK
    <3>5. Remaining(r)' = Remaining(r) - 1 BY <1>0, <3>3, <3>4 DEF Remaining
    <3>6. RoundLeft(r) = Remaining(r) + 3 /\ RoundLeft(r)' = Remaining(r)' + 3
          BY <3>1 DEF RoundLeft
    <3> QED BY <1>0, <1>1, <3>1, <3>5, <3>6, RoundGoesOn DEF Over
  <2> QED BY <1>5, <2>1, <2>2 DEF Apply
<1>6. CASE Unlock(r)
  <2>1. CASE \E e \in Possible(r) : Fail(r, e) BY <1>6, <2>1, FailEndsRound DEF Unlock
  <2>2. CASE Goto(r, "finalize") /\ UNCHANGED attempt
    <3>1. pc[r] = "migrate" /\ pc'[r] = "finalize" /\ attempt'[r] = attempt[r]
          BY <1>6, <2>2 DEF Unlock
    <3> HIDE DEF TypeOK
    <3>2. RoundLeft(r) = Remaining(r) + 3 /\ RoundLeft(r)' = 2
          BY <3>1 DEF RoundLeft
    <3> QED BY <1>0, <1>1, <3>1, <3>2, RoundGoesOn DEF Over
  <2> QED BY <1>6, <2>1, <2>2 DEF Unlock
<1>7. CASE Finalize(r)
  <2>1. pc[r] = "finalize" /\ pc'[r] \in {"serving", "failed"} /\ attempt'[r] = attempt[r]
        BY <1>7 DEF Finalize
  <2> HIDE DEF TypeOK
  <2> QED BY <2>1, RoundGoesOn DEF Over
<1>8. CASE Sleep(r)
  <2>1. CASE ctx[r] # "live"
    <3>1. pc[r] = "sleep" /\ pc'[r] = "failed" /\ attempt'[r] = attempt[r]
          BY <1>8, <2>1 DEF Sleep
    <3> HIDE DEF TypeOK
    <3> QED BY <3>1, RoundGoesOn DEF Over
  <2>2. CASE ctx[r] = "live"
    <3>1. /\ pc[r] = "sleep" /\ pc'[r] = "start" /\ attempt'[r] = attempt[r] + 1
          /\ attempt[r] \in 1..MaxAttempts /\ Round(r)' = Round(r)
          BY <1>8, <2>2 DEF Sleep, Round
    <3> HIDE DEF TypeOK
    <3> DEFINE k == Round(r)
               a == attempt[r]
    <3>2. k = Known[r] + 8 BY DEF Round
    <3>3. RoundLeft(r) = 1 /\ RoundLeft(r)' = k - 1 BY <1>0, <3>1 DEF RoundLeft, Round
    <3>4. /\ StepsLeft(r) = (MaxAttempts - a) * k + 1
          /\ StepsLeft(r)' = (MaxAttempts - (a + 1)) * k + (k - 1)
          BY <3>1, <3>3 DEF StepsLeft, Over
    <3> HIDE DEF k, a
    <3>5. k \in Nat BY <1>0, <3>2
    <3>6. (MaxAttempts - a) * k \in Nat /\ (MaxAttempts - (a + 1)) * k = (MaxAttempts - a) * k - k
          BY <3>1, <3>5, Rounds DEF a
    <3> QED BY <3>4, <3>5, <3>6
  <2> QED BY <2>1, <2>2
<1>9. CASE HasPending(r)
  <2>1. CASE \E e \in Possible(r) : Fail(r, e) BY <1>9, <2>1, FailEndsRound DEF HasPending
  <2>2. CASE Goto(r, IF Missing(r) = {} THEN "finalize" ELSE "lock") /\ UNCHANGED attempt
    <3>1. pc[r] = "check" /\ pc'[r] \in {"lock", "finalize"} /\ attempt'[r] = attempt[r]
          BY <1>9, <2>2 DEF HasPending
    <3> HIDE DEF TypeOK
    <3>2. RoundLeft(r)' < RoundLeft(r) BY <1>0, <3>1 DEF RoundLeft
    <3> QED BY <3>1, <3>2, RoundGoesOn DEF Over
  <2> QED BY <1>9, <2>1, <2>2 DEF HasPending
<1> QED BY <1>2, <1>3, <1>4, <1>5, <1>6, <1>7, <1>8, <1>9 DEF SetupRuntime

\* What a step leaves alone of r leaves the steps of r alone: a replica that
\* migrates has the lock, and nobody else applies a migration.
LEMMA OthersUseNoSteps ==
    ASSUME TypeOK, NEW r \in Replicas, pc'[r] = pc[r], attempt'[r] = attempt[r],
           pc[r] = "migrate" => UNCHANGED applied
    PROVE  StepsLeft(r)' = StepsLeft(r)
<1>1. pc[r] = "migrate" => Remaining(r)' = Remaining(r) BY DEF Remaining
<1>2. RoundLeft(r)' = RoundLeft(r) BY <1>1 DEF RoundLeft
<1> QED BY <1>2 DEF StepsLeft, Round

LEMMA NextUsesSteps ==
    ASSUME IInv, TypeOK, TypeOK', AttemptInv, [Next]_vars
    PROVE  StepsFall
<1> SUFFICES ASSUME NEW r \in Replicas, ~ SetupRuntime(r), pc[r] # "down"
             PROVE  ~ (StepsLeft(r)' > StepsLeft(r))
  <2>1. StepsBounded BY StepsAreBounded
  <2>2. StepsBounded' BY StepsAreBounded, PTL
  <2>3. ASSUME NEW r \in Replicas, SetupRuntime(r)
        PROVE  StepsLeft(r)' < StepsLeft(r) /\ ~ (StepsLeft(r)' > StepsLeft(r))
    <3>1. StepsLeft(r) \in Int /\ StepsLeft(r)' \in Int BY <2>1, <2>2 DEF StepsBounded
    <3>2. StepsLeft(r)' < StepsLeft(r) BY <2>3, SetupUsesSteps
    <3> QED BY <3>1, <3>2
  <2> QED BY <2>3 DEF StepsFall
<1>1. StepsLeft(r) \in Int /\ StepsLeft(r) >= 0 BY StepsAreBounded DEF StepsBounded
<1>2. StepsLeft(r)' = StepsLeft(r) => ~ (StepsLeft(r)' > StepsLeft(r)) BY <1>1
<1>3. CASE UNCHANGED vars BY <1>2, <1>3, OthersUseNoSteps DEF vars, replicaVars
<1>4. ASSUME NEW q \in Replicas \ {r}, SetupRuntime(q) \/ Cancel(q) \/ Crash(q) \/ Restart(q)
      PROVE  ~ (StepsLeft(r)' > StepsLeft(r))
  <2>1. pc'[r] = pc[r] /\ attempt'[r] = attempt[r]
    <3> USE <1>4 DEF TypeOK, Goto
    <3>1. CASE BeginAttempt(q) \/ Cancel(q) \/ Crash(q) \/ Restart(q) \/ Finalize(q) \/ Sleep(q)
          BY <3>1 DEF BeginAttempt, Cancel, Crash, Restart, Finalize, Sleep, replicaVars
    <3>2. CASE \E e : Fail(q, e) BY <3>2 DEF Fail
    <3>3. CASE (Open(q) \/ HasPending(q) \/ Lock(q) \/ Apply(q) \/ Unlock(q)) /\ ~ \E e : Fail(q, e)
          BY <3>3 DEF Open, HasPending, Lock, Apply, Unlock
    <3> QED BY <3>1, <3>2, <3>3 DEF SetupRuntime
  <2>2. ASSUME pc[r] = "migrate" PROVE UNCHANGED applied
    <3>1. lock = r BY <2>2 DEF IInv, MigratingInv
    <3>2. pc[q] # "migrate" BY <3>1 DEF IInv, MigratingInv
    <3> QED BY <1>4, <3>2 DEF SetupRuntime, BeginAttempt, Open, HasPending, Lock, Apply, Unlock, Finalize,
                              Sleep, Cancel, Crash, Restart
  <2> QED BY <1>2, <2>1, <2>2, OthersUseNoSteps
<1>5. CASE Cancel(r) BY <1>2, <1>5, OthersUseNoSteps DEF Cancel, replicaVars
<1>6. CASE Crash(r)
  <2>1. pc'[r] = "down" BY <1>6 DEF Crash, Goto, TypeOK
  <2>2. StepsLeft(r)' = 0 BY <2>1 DEF StepsLeft, Over
  <2> QED BY <1>1, <2>2
<1>7. ~ Restart(r) BY DEF Restart
<1> QED BY <1>3, <1>4, <1>5, <1>6, <1>7 DEF Next, Settled

-----------------------------------------------------------------------------
(* Theorems. *)

\* However many replicas of however many releases race, crash and lose the
\* answers to their commits, each migration is applied once and in order.
THEOREM MigrationsRunOnce == Spec => []MigratedOnceInOrder
<1>1. IInv => MigratedOnceInOrder BY DEF IInv
<1> QED BY <1>1, InvariantHolds, PTL

\* No migrating replica serves before every migration of its release is in
\* the database.
THEOREM OnlyMigratedServe == Spec => []ServesOnlyMigrated
<1>1. IInv => ServesOnlyMigrated BY StartupAssumption DEF IInv, MigratedInv, ServesOnlyMigrated
<1> QED BY <1>1, InvariantHolds, PTL

\* Failed and crashed attempts give back pool and lock.
THEOREM AttemptsGiveBack == Spec => []PoolsAndLockReturned
<1>1. IInv => PoolsAndLockReturned BY DEF IInv
<1> QED BY <1>1, InvariantHolds, PTL

\* The attempts stay within their number and the delays within their maximum,
\* whatever the range of a time.Duration.
THEOREM TypeCorrect == Spec => []TypeOK
BY AttemptsHold, PTL

\* A failed attempt gives back pool and lock, and the delay before the next
\* one is the initial delay doubled each time, up to the maximum.
THEOREM FailuresLeaveNothing == Spec => []FailedAttemptsLeaveNothing
<1>1. IInv /\ AttemptInv => FailedAttemptsLeaveNothing
      BY DEF IInv, AttemptInv, FailedAttemptsLeaveNothing
<1> QED BY <1>1, InvariantHolds, AttemptsHold, PTL

\* SetupRuntime cannot go round for ever: it has a bounded number of steps,
\* each step leaves fewer of them, and no other replica adds to them.
THEOREM StartupIsBounded == Spec => []StepsBounded /\ [][StepsFall]_vars
<1>1. IInv /\ TypeOK /\ TypeOK' /\ AttemptInv /\ [Next]_vars => [StepsFall]_vars
      BY NextUsesSteps
<1>2. TypeOK => StepsBounded BY StepsAreBounded
<1> QED BY <1>1, <1>2, InvariantHolds, AttemptsHold, PTL DEF Spec
=============================================================================
