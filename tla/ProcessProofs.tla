----------------------------- MODULE ProcessProofs -----------------------------
(***************************************************************************)
(* Theorems about ServerLifecycle, for every set of handlers, and about    *)
(* Process, for every set of handlers and of probes.                       *)
(***************************************************************************)
EXTENDS Process, FiniteSetTheorems, TLAPS

-----------------------------------------------------------------------------
(* The life cycle: the parts of its inductive invariant. *)

\* The place of a resource in Setup.
Rank == [r \in Resources |->
    IF r = "tracing" THEN 1 ELSE IF r = "database" THEN 2 ELSE IF r = "requestAudit" THEN 3
    ELSE IF r = "outboundAudit" THEN 4 ELSE 5]

\* The stack lists resources in the order of Setup, and past its second entry
\* Setup has a database.
StackInv ==
    /\ step \in 1..6 /\ stack \in Seq(Resources) /\ Len(stack) < step
    /\ \A i \in 1..Len(stack) : Rank[stack[i]] < step
    /\ \A i, j \in 1..Len(stack) : i < j => Rank[stack[i]] < Rank[stack[j]]
    /\ step > 2 => \E i \in 1..Len(stack) : stack[i] = "database"

\* Where Run can be before and after it has begun to run the stack.
OnceInv ==
    /\ pc \in {"setup", "bind", "serving", "stopping", "return", "cleanup", "collect", "exited"}
    /\ once \in {"unused", "used"} /\ after \in {"collect", "return", "exited"}
    /\ pc \in {"setup", "bind", "serving", "stopping"} => once = "unused"
    /\ pc \in {"cleanup", "collect", "exited"} => once = "used"
    /\ left \in 0..Len(stack)
    /\ once = "used" /\ pc # "cleanup" => left = 0
    /\ bound \subseteq Servers
    /\ pc # "bind" => \A s \in bound : goroutine[s] \in {"starting", "serving"}
    /\ pc \notin {"bind", "serving", "stopping"} => \A s \in bound : goroutine[s] = "starting"

\* The entries of the stack that have not been run.
Live == IF once = "unused" THEN Len(stack) ELSE left

\* What is open is what these entries release; the others ran once.
OpenInv ==
    /\ open = {stack[i] : i \in 1..Live}
    /\ closes \in [Resources -> Nat]
    /\ \A r \in Resources :
           closes[r] = IF \E i \in (Live + 1)..Len(stack) : stack[i] = r THEN 1 ELSE 0

\* Handlers run only while the servers serve, and are left over only when the
\* shutdown timed out.
HandlerInv ==
    /\ handler \in [Handlers -> {"none", "running", "querying", "done"}]
    /\ signal \in {"none", "sent"} /\ timedOut \in {"no", "yes"}
    /\ once = "unused" /\ pc \in {"setup", "bind", "return"} => Active = {}
    /\ once = "used" /\ Active # {} => timedOut = "yes"

\* How many serving goroutines have returned.
Returned ==
    (IF goroutine["public"] = "returned" THEN 1 ELSE 0)
        + (IF goroutine["infra"] = "returned" THEN 1 ELSE 0)

\* As long as Run would report success, the error of a server that failed is
\* in the channel, and Run has yet to look for it.
ResultInv ==
    /\ goroutine \in [Servers -> {"none", "starting", "serving", "returned"}] /\ failed \subseteq Servers
    /\ results \in Seq({"ok", "error"}) /\ status \in {"ok", "error"}
    /\ collected \in Nat /\ Len(results) + collected <= Returned
    /\ pc \in {"setup", "bind"} => results = <<>> /\ collected = 0
    /\ failed # {} /\ status = "ok" => \E i \in 1..Len(results) : results[i] = "error"
    /\ pc \in {"stopping", "cleanup"} /\ status = "ok" => after = "collect"
    /\ pc = "return" /\ once = "unused" => status = "error"
    /\ pc \in {"return", "exited"} /\ status = "ok" =>
           failed = {} /\ \A s \in Servers : goroutine[s] = "returned"

IInv == StackInv /\ OnceInv /\ OpenInv /\ HandlerInv /\ ResultInv

-----------------------------------------------------------------------------
(* Facts about the constants. *)

\* Setup lists each resource at its rank.
LEMMA SetupByRank ==
    /\ Len(Setup) = 5
    /\ \A i \in 1..5 : Setup[i] \in Resources /\ Rank[Setup[i]] = i
    /\ Setup[2] = "database"
    /\ \A r \in Resources : Rank[r] \in 1..5
    /\ \A r \in Resources : Rank[r] = 2 <=> r = "database"
  BY DEF Setup, Resources, Rank

\* There are two servers.
LEMMA TwoServers == Cardinality(Servers) = 2
<1>1. IsFiniteSet({"public"}) /\ Cardinality({"public"}) = 1
  BY FS_Singleton
<1>2. "infra" \notin {"public"} /\ Servers = {"public"} \cup {"infra"}
  BY DEF Servers
<1>3. QED
  BY <1>1, <1>2, FS_AddElement

-----------------------------------------------------------------------------
(* The stack. *)

\* Setting a resource up keeps the order of the stack.
LEMMA SetUpStack ==
    ASSUME StackInv, OnceInv, SetUp
    PROVE  StackInv'
<1>1. /\ step \in 1..5 /\ Setup[step] \in Resources /\ Rank[Setup[step]] = step
      /\ stack \in Seq(Resources) /\ Len(stack) \in Nat /\ Len(stack) < step
  BY SetupByRank DEF SetUp, StackInv
<1>2. CASE stack' = stack /\ step' = step
  BY <1>2 DEF StackInv
<1>3. CASE stack' = stack /\ step' = step + 1 /\ Setup[step] # "database"
  <2>1. step # 2
    BY <1>3, SetupByRank
  <2>2. QED
    BY <1>1, <1>3, <2>1, SetupByRank DEF StackInv
<1>4. CASE stack' = Append(stack, Setup[step]) /\ step' = step + 1
  <2>1. /\ stack' \in Seq(Resources) /\ Len(stack') = Len(stack) + 1
        /\ \A i \in 1..Len(stack) : stack'[i] = stack[i]
        /\ stack'[Len(stack) + 1] = Setup[step]
    BY <1>1, <1>4
  <2>2. \A i \in 1..Len(stack) : Rank[stack[i]] < step /\ stack[i] \in Resources
    BY <1>1 DEF StackInv
  <2>3. \A i \in 1..Len(stack') : Rank[stack'[i]] < step'
    BY <1>1, <1>4, <2>1, <2>2, SetupByRank
  <2>4. \A i, j \in 1..Len(stack') : i < j => Rank[stack'[i]] < Rank[stack'[j]]
    BY <1>1, <2>1, <2>2 DEF StackInv
  <2>5. step' > 2 => \E i \in 1..Len(stack') : stack'[i] = "database"
    <3>1. CASE step = 2
      BY <1>1, <2>1, <3>1, SetupByRank
    <3>2. CASE step > 2
      BY <1>1, <2>1, <3>2 DEF StackInv
    <3>3. QED
      BY <1>1, <1>4, <3>1, <3>2
  <2>6. QED
    BY <1>1, <1>4, <2>1, <2>3, <2>4, <2>5 DEF StackInv
<1>5. QED
  BY <1>2, <1>3, <1>4 DEF SetUp

\* Every step keeps the order of the stack.
LEMMA StackStep ==
    ASSUME StackInv, OnceInv, [Next]_vars
    PROVE  StackInv'
<1>1. CASE SetUp
  BY <1>1, SetUpStack
<1>2. CASE UNCHANGED <<step, stack>>
  BY <1>2 DEF StackInv
<1>3. [Next]_vars => SetUp \/ UNCHANGED <<step, stack>>
  BY DEF Next, Run, BuildHandlers, Bind, Select, ShutdownServers, CleanUp, Collect, Return,
     Signal, Exited, ServeStarts, ServeFails, ServeEnds, ServeReturns, HandlerStarts, QueryStarts, QueryEnds,
     HandlerEnds, HandlerStep, vars, setupVars
<1>4. QED
  BY <1>1, <1>2, <1>3

\* Every step keeps OnceInv.
LEMMA OnceStep ==
    ASSUME StackInv, OnceInv, ResultInv, [Next]_vars
    PROVE  OnceInv'
<1>1. stack \in Seq(Resources) /\ Len(stack) \in Nat
  BY DEF StackInv
<1>2. CASE SetUp
  <2>1. Len(stack') \in Nat /\ Len(stack') >= Len(stack)
    BY <1>1, <1>2, SetupByRank DEF SetUp, StackInv
  <2>2. QED
    BY <1>1, <1>2, <2>1 DEF OnceInv, SetUp, Abandon, cleanupVars, serverVars
<1>3. CASE BuildHandlers \/ Select \/ Collect
  BY <1>1, <1>3 DEF OnceInv, BuildHandlers, Select, Collect, Abandon, setupVars, cleanupVars, serverVars
<1>9. CASE Bind
  <2>1. CASE bound' = {} /\ Abandon
    BY <1>1, <1>9, <2>1 DEF OnceInv, Bind, Abandon, setupVars, cleanupVars
  <2>2. CASE bound' \subseteq Servers /\ pc' = "bind"
    BY <1>1, <1>9, <2>2 DEF OnceInv, Bind, setupVars, cleanupVars
  <2>3. CASE /\ bound' \subseteq Servers /\ pc' = "serving"
             /\ goroutine' = [t \in Servers |-> "starting"]
    BY <1>1, <1>9, <2>3 DEF OnceInv, Bind, setupVars, cleanupVars
  <2>4. \/ bound' = {} /\ Abandon
        \/ bound' \subseteq Servers /\ pc' = "bind"
        \/ bound' \subseteq Servers /\ pc' = "serving" /\ goroutine' = [t \in Servers |-> "starting"]
    <3>1. bound \subseteq Servers /\ {"public", "infra"} \subseteq Servers
      BY DEF OnceInv, Servers
    <3>2. CASE bound = {}
      BY <1>9, <3>1, <3>2 DEF Bind
    <3>3. CASE bound # {}
      BY <1>9, <3>1, <3>3 DEF Bind
    <3>4. QED
      BY <3>2, <3>3
  <2>5. QED
    BY <2>1, <2>2, <2>3, <2>4
<1>4. CASE ShutdownServers \/ Return
  BY <1>1, <1>4 DEF OnceInv, ShutdownServers, Return, RunCleanup, setupVars, cleanupVars, serverVars
<1>5. CASE CleanUp
  BY <1>1, <1>5 DEF OnceInv, CleanUp, serverVars
<1>6. CASE \E s \in Servers : ServeStarts(s) \/ ServeFails(s) \/ ServeEnds(s)
  <2>1. goroutine \in [Servers -> {"none", "starting", "serving", "returned"}]
    BY DEF ResultInv
  <2>2. PICK s \in Servers :
            /\ bound' \in {bound, bound \ {s}} /\ UNCHANGED <<pc, once, after, left, stack>>
            /\ \A t \in Servers \ {s} : goroutine'[t] = goroutine[t]
            /\ s \in bound' => goroutine'[s] = "serving" /\ pc \in {"serving", "stopping"}
    BY <1>6, <2>1 DEF ServeStarts, ServeFails, ServeEnds, ServeReturns, setupVars, cleanupVars
  <2>3. QED
    BY <1>1, <2>2 DEF OnceInv
<1>7. CASE \/ Signal \/ Exited \/ UNCHANGED vars
           \/ \E h \in Handlers : HandlerStarts(h) \/ QueryStarts(h) \/ QueryEnds(h) \/ HandlerEnds(h)
  BY <1>1, <1>7 DEF OnceInv, Signal, Exited, HandlerStarts, QueryStarts, QueryEnds,
     HandlerEnds, HandlerStep, vars, setupVars, cleanupVars, serverVars
<1>8. QED
  BY <1>2, <1>3, <1>4, <1>5, <1>6, <1>7, <1>9 DEF Next, Run

\* No resource is on the stack twice.
LEMMA StackIsDistinct ==
    ASSUME StackInv, NEW i \in 1..Len(stack), NEW j \in 1..Len(stack), stack[i] = stack[j]
    PROVE  i = j
<1>1. stack \in Seq(Resources) /\ Len(stack) \in Nat
  BY DEF StackInv
<1>2. Rank[stack[i]] \in Nat /\ Rank[stack[i]] = Rank[stack[j]]
  BY <1>1, SetupByRank
<1>3. ~(i < j) /\ ~(j < i)
  BY <1>2 DEF StackInv
<1>4. QED
  BY <1>1, <1>3

\* Steps that move none of what OpenInv is about.
LEMMA OpenStays ==
    ASSUME OpenInv, UNCHANGED <<stack, open, closes>>, Live' = Live
    PROVE  OpenInv'
  BY DEF OpenInv

\* Setting a resource up opens it.
LEMMA SetUpOpens ==
    ASSUME StackInv, OnceInv, OpenInv, SetUp
    PROVE  OpenInv'
<1>1. /\ stack \in Seq(Resources) /\ Len(stack) \in Nat /\ once = "unused" /\ once' = "unused"
      /\ closes' = closes
  BY DEF SetUp, StackInv, OnceInv, cleanupVars
<1>2. Live = Len(stack) /\ Live' = Len(stack')
  BY <1>1 DEF Live
<1>3. CASE UNCHANGED <<stack, open>>
  BY <1>1, <1>2, <1>3, OpenStays
<1>4. CASE stack' = Append(stack, Setup[step]) /\ open' = open \cup {Setup[step]}
  <2>1. Setup[step] \in Resources
    BY SetupByRank DEF SetUp, StackInv
  <2>2. /\ stack' \in Seq(Resources) /\ Len(stack') = Len(stack) + 1
        /\ \A i \in 1..Len(stack) : stack'[i] = stack[i]
        /\ stack'[Len(stack) + 1] = Setup[step]
    BY <1>1, <1>4, <2>1
  <2>3. open' = {stack'[i] : i \in 1..Live'}
    <3>1. \A x : x \in open' <=> (\E i \in 1..Len(stack) : x = stack[i]) \/ x = Setup[step]
      BY <1>2, <1>4 DEF OpenInv
    <3>2. \A x : (\E i \in 1..Len(stack') : x = stack'[i]) <=>
                     (\E i \in 1..Len(stack) : x = stack[i]) \/ x = Setup[step]
      BY <1>1, <2>2
    <3>3. QED
      BY <1>2, <3>1, <3>2
  <2>4. (Live + 1)..Len(stack) = {} /\ (Live' + 1)..Len(stack') = {}
    BY <1>1, <1>2, <2>2
  <2>5. QED
    BY <1>1, <2>3, <2>4 DEF OpenInv
<1>5. QED
  BY <1>3, <1>4 DEF SetUp

\* Running the next entry of the stack closes it, for the first time.
LEMMA CleanUpCloses ==
    ASSUME StackInv, OnceInv, OpenInv, CleanUp, left # 0
    PROVE  OpenInv'
<1>1. /\ stack \in Seq(Resources) /\ Len(stack) \in Nat /\ stack' = stack
      /\ once = "used" /\ once' = "used" /\ left \in 1..Len(stack) /\ left' = left - 1
      /\ open' = open \ {stack[left]}
      /\ closes' = [closes EXCEPT ![stack[left]] = @ + 1]
  BY DEF CleanUp, StackInv, OnceInv, NextCleanup
<1>2. Live = left /\ Live' = left - 1
  BY <1>1 DEF Live
<1>3. stack[left] \in Resources /\ \A i \in 1..Len(stack) : stack[i] = stack[left] => i = left
  BY <1>1, StackIsDistinct
<1>4. open' = {stack'[i] : i \in 1..Live'}
  <2>1. \A x : x \in open' <=> \E i \in 1..left : x = stack[i] /\ x # stack[left]
    BY <1>1, <1>2 DEF OpenInv
  <2>2. \A i \in 1..left : stack[i] # stack[left] <=> i \in 1..(left - 1)
    BY <1>1, <1>3
  <2>3. \A x : x \in open' <=> \E i \in 1..(left - 1) : x = stack[i]
    BY <1>1, <2>1, <2>2
  <2>4. QED
    BY <1>1, <1>2, <2>3
<1>5. ASSUME NEW r \in Resources
      PROVE  closes'[r] = IF \E i \in (Live' + 1)..Len(stack') : stack'[i] = r THEN 1 ELSE 0
  <2>1. closes[r] = IF \E i \in (left + 1)..Len(stack) : stack[i] = r THEN 1 ELSE 0
    BY <1>2 DEF OpenInv
  <2>2. CASE r = stack[left]
    <3>1. ~ \E i \in (left + 1)..Len(stack) : stack[i] = r
      BY <1>1, <1>3, <2>2
    <3>2. \E i \in left..Len(stack) : stack[i] = r
      BY <1>1, <2>2
    <3>3. closes'[r] = 1
      BY <1>1, <1>3, <2>1, <2>2, <3>1 DEF OpenInv
    <3>4. QED
      BY <1>1, <1>2, <3>2, <3>3
  <2>3. CASE r # stack[left]
    <3>1. (\E i \in (left + 1)..Len(stack) : stack[i] = r) <=> \E i \in left..Len(stack) : stack[i] = r
      BY <1>1, <2>3
    <3>2. closes'[r] = closes[r]
      BY <1>1, <2>3 DEF OpenInv
    <3>3. QED
      BY <1>1, <1>2, <2>1, <3>1, <3>2
  <2>4. QED
    BY <2>2, <2>3
<1>6. closes' \in [Resources -> Nat]
  BY <1>1, <1>3 DEF OpenInv
<1>7. QED
  BY <1>4, <1>5, <1>6 DEF OpenInv

\* Every step keeps OpenInv.
LEMMA OpenStep ==
    ASSUME StackInv, OnceInv, OpenInv, [Next]_vars
    PROVE  OpenInv'
<1>1. stack \in Seq(Resources) /\ Len(stack) \in Nat
  BY DEF StackInv
<1>2. CASE ShutdownServers \/ Return
  <2>1. UNCHANGED <<stack, open, closes>>
    BY <1>2 DEF ShutdownServers, Return, setupVars
  <2>2. Live' = Live
    BY <1>2, <2>1 DEF Live, ShutdownServers, Return, RunCleanup, cleanupVars, OnceInv
  <2>3. QED
    BY <2>1, <2>2, OpenStays
<1>3. CASE CleanUp
  <2>1. CASE left = 0
    BY <1>3, <2>1, OpenStays DEF CleanUp, Live
  <2>2. QED
    BY <1>3, <2>1, CleanUpCloses
<1>4. CASE \/ BuildHandlers \/ Bind \/ Select \/ Collect \/ Signal \/ Exited \/ UNCHANGED vars
           \/ \E s \in Servers : ServeStarts(s) \/ ServeFails(s) \/ ServeEnds(s)
           \/ \E h \in Handlers : HandlerStarts(h) \/ QueryStarts(h) \/ QueryEnds(h) \/ HandlerEnds(h)
  <2>1. UNCHANGED <<stack, open, closes, once, left>>
    BY <1>4 DEF BuildHandlers, Bind, Select, Collect, Signal, Exited, ServeStarts, ServeFails, ServeEnds,
       ServeReturns, HandlerStarts, QueryStarts, QueryEnds, HandlerEnds, HandlerStep, vars,
       setupVars, cleanupVars
  <2>2. QED
    BY <2>1, OpenStays DEF Live
<1>5. QED
  BY <1>2, <1>3, <1>4, SetUpOpens DEF Next, Run

-----------------------------------------------------------------------------
(* The handlers. *)

\* Every step keeps HandlerInv.
LEMMA HandlerStepKeeps ==
    ASSUME OnceInv, HandlerInv, [Next]_vars
    PROVE  HandlerInv'
<1>1. CASE SetUp \/ BuildHandlers \/ Bind \/ Select \/ Signal \/ UNCHANGED vars
  BY <1>1 DEF HandlerInv, OnceInv, Active, SetUp, BuildHandlers, Bind, Select, Signal, Abandon,
     vars, cleanupVars, setupVars, serverVars
<1>2. CASE Collect \/ CleanUp \/ Exited
  BY <1>2 DEF HandlerInv, OnceInv, Active, Collect, CleanUp, Exited, Abandon, vars, cleanupVars
<1>3. CASE ShutdownServers \/ Return
  BY <1>3 DEF HandlerInv, OnceInv, Active, ShutdownServers, Return, RunCleanup, cleanupVars
<1>4. CASE \E s \in Servers : ServeStarts(s) \/ ServeFails(s) \/ ServeEnds(s)
  BY <1>4 DEF HandlerInv, Active, ServeStarts, ServeFails, ServeEnds, ServeReturns, cleanupVars
<1>5. ASSUME NEW h \in Handlers,
             HandlerStarts(h) \/ QueryStarts(h) \/ QueryEnds(h) \/ HandlerEnds(h)
      PROVE  HandlerInv'
  <2>1. UNCHANGED <<pc, once, timedOut, signal>>
    BY <1>5 DEF HandlerStarts, QueryStarts, QueryEnds, HandlerEnds, HandlerStep, cleanupVars
  <2>2. handler' \in [Handlers -> {"none", "running", "querying", "done"}]
    BY <1>5 DEF HandlerInv, HandlerStarts, QueryStarts, QueryEnds, HandlerEnds, HandlerStep
  <2>3. CASE HandlerStarts(h)
    BY <2>1, <2>2, <2>3 DEF HandlerInv, OnceInv, HandlerStarts
  <2>4. CASE QueryStarts(h) \/ QueryEnds(h) \/ HandlerEnds(h)
    <3>1. Active' \subseteq Active
      BY <2>4 DEF HandlerInv, Active, QueryStarts, QueryEnds, HandlerEnds, HandlerStep
    <3>2. QED
      BY <2>1, <2>2, <3>1 DEF HandlerInv
  <2>5. QED
    BY <1>5, <2>3, <2>4
<1>6. QED
  BY <1>1, <1>2, <1>3, <1>4, <1>5 DEF Next, Run

-----------------------------------------------------------------------------
(* The results of the servers. *)

\* A serving goroutine that returns adds a result.
LEMMA ServeReturnsResult ==
    ASSUME ResultInv, NEW s \in Servers, NEW result \in {"ok", "error"}, ServeReturns(s, result),
           goroutine[s] \in {"starting", "serving"}
    PROVE  /\ goroutine' \in [Servers -> {"none", "starting", "serving", "returned"}]
           /\ results' \in Seq({"ok", "error"})
           /\ Len(results') = Len(results) + 1 /\ Returned' = Returned + 1
           /\ Len(results) \in Nat /\ Returned \in Nat
           /\ \A i \in 1..Len(results) : results'[i] = results[i]
           /\ results'[Len(results) + 1] = result
<1>1. goroutine \in [Servers -> {"none", "starting", "serving", "returned"}] /\ results \in Seq({"ok", "error"})
  BY DEF ResultInv
<1>2. goroutine[s] \in {"starting", "serving"} /\ goroutine' = [goroutine EXCEPT ![s] = "returned"]
      /\ results' = Append(results, result)
  BY DEF ServeReturns
<1>3. Returned' = Returned + 1
  BY <1>1, <1>2 DEF Returned, Servers
<1>4. Returned \in Nat
  BY DEF Returned
<1>5. QED
  BY <1>1, <1>2, <1>3, <1>4

\* Taking a result from the channel.
LEMMA TakeResult ==
    ASSUME ResultInv, results # <<>>, results' = Tail(results)
    PROVE  /\ results' \in Seq({"ok", "error"}) /\ Len(results) \in Nat
           /\ Len(results') = Len(results) - 1
           /\ Head(results) \in {"ok", "error"}
           /\ \A i \in 1..Len(results) : results[i] = "error" /\ Head(results) # "error" =>
                  i - 1 \in 1..Len(results') /\ results'[i - 1] = "error"
<1>1. results \in Seq({"ok", "error"}) /\ Len(results) \in Nat \ {0}
  BY DEF ResultInv
<1>2. /\ results' \in Seq({"ok", "error"}) /\ Len(results') = Len(results) - 1
      /\ \A i \in 1..(Len(results) - 1) : results'[i] = results[i + 1]
      /\ Head(results) = results[1] /\ Head(results) \in {"ok", "error"}
  BY <1>1
<1>3. QED
  BY <1>1, <1>2

\* Every step keeps ResultInv.
LEMMA ResultStep ==
    ASSUME OnceInv, ResultInv, [Next]_vars
    PROVE  ResultInv'
<1>1. CASE SetUp \/ BuildHandlers
  BY <1>1 DEF ResultInv, OnceInv, Returned, SetUp, BuildHandlers, Abandon, cleanupVars, serverVars
<1>2. CASE Bind
  <2>1. Returned' \in Nat /\ goroutine' \in [Servers -> {"none", "starting", "serving", "returned"}]
    BY <1>2 DEF ResultInv, Returned, Bind, Abandon, Servers
  <2>2. Len(results) + collected = 0
    BY <1>2 DEF ResultInv, Bind
  <2>3. QED
    BY <1>2, <2>1, <2>2 DEF ResultInv, OnceInv, Bind, Abandon, cleanupVars
<1>3. CASE Select
  <2>1. CASE results # <<>> /\ results' = Tail(results) /\ status' = "error"
    BY <1>3, <2>1, TakeResult DEF ResultInv, OnceInv, Select, Returned
  <2>2. CASE after' = "collect" /\ UNCHANGED <<results, status>>
    BY <1>3, <2>2 DEF ResultInv, OnceInv, Select, Returned
  <2>3. QED
    BY <1>3, <2>1, <2>2 DEF Select
<1>4. CASE ShutdownServers \/ Return
  BY <1>4 DEF ResultInv, OnceInv, Returned, ShutdownServers, Return, RunCleanup, cleanupVars, serverVars
<1>5. CASE CleanUp
  BY <1>5 DEF ResultInv, OnceInv, Returned, CleanUp, serverVars
<1>6. CASE Collect
  <2>1. CASE collected = Cardinality(Servers)
    <3>1. pc' = "return" /\ UNCHANGED <<results, collected, status, goroutine, failed, once, after>>
      BY <1>6, <2>1 DEF Collect, cleanupVars
    <3>2. Returned \in 0..2
      BY DEF Returned
    <3>3. Len(results) = 0
      BY <2>1, <3>2, TwoServers DEF ResultInv
    <3>4. status = "ok" => failed = {}
      BY <3>3 DEF ResultInv
    <3>6. \A s \in Servers : goroutine[s] = "returned"
      BY <2>1, <3>3, TwoServers DEF ResultInv, Returned, Servers
    <3>5. QED
      BY <1>6, <3>1, <3>4, <3>6 DEF ResultInv, OnceInv, Returned, Collect
  <2>2. CASE collected # Cardinality(Servers)
    <3>1. /\ results # <<>> /\ results' = Tail(results) /\ collected' = collected + 1
          /\ UNCHANGED <<goroutine, failed, once, after>> /\ pc = "collect" /\ once = "used"
          /\ \/ Head(results) = "error" /\ pc' = "return" /\ status' = "error"
             \/ Head(results) # "error" /\ UNCHANGED <<pc, status>>
      BY <1>6, <2>2 DEF Collect, Abandon, cleanupVars, OnceInv
    <3>2. QED
      BY <3>1, TakeResult DEF ResultInv, Returned
  <2>3. QED
    BY <2>1, <2>2
<1>7. ASSUME NEW s \in Servers, NEW result \in {"ok", "error"}, ServeReturns(s, result),
             goroutine[s] \in {"starting", "serving"},
             \/ result = "error" /\ pc \in {"serving", "stopping"} /\ failed' = failed \cup {s}
             \/ result = "ok" /\ pc \notin {"setup", "bind"} /\ failed' = failed
      PROVE  ResultInv'
  <2>1. UNCHANGED <<pc, once, after, collected, status>>
    BY <1>7 DEF ServeReturns, cleanupVars
  <2>2. /\ goroutine' \in [Servers -> {"none", "starting", "serving", "returned"}]
        /\ results' \in Seq({"ok", "error"})
        /\ Len(results') = Len(results) + 1 /\ Returned' = Returned + 1
        /\ Len(results) \in Nat /\ Returned \in Nat
        /\ \A i \in 1..Len(results) : results'[i] = results[i]
        /\ results'[Len(results) + 1] = result
    BY <1>7, ServeReturnsResult
  <2>3. failed' # {} /\ status = "ok" => \E i \in 1..Len(results') : results'[i] = "error"
    BY <1>7, <2>2 DEF ResultInv
  <2>4. Len(results') + collected' <= Returned'
    BY <2>1, <2>2 DEF ResultInv
  <2>5. pc \in {"return", "exited"} /\ status = "ok" =>
            failed' = {} /\ \A t \in Servers : goroutine'[t] = "returned"
    BY <1>7 DEF ResultInv, ServeReturns
  <2>6. QED
    BY <1>7, <2>1, <2>2, <2>3, <2>4, <2>5 DEF ResultInv
<1>11. ASSUME NEW s \in Servers, ServeStarts(s) PROVE ResultInv'
  <2>1. Returned' = Returned
    BY <1>11 DEF Returned, ServeStarts, ResultInv, Servers
  <2>2. QED
    BY <1>11, <2>1 DEF ResultInv, ServeStarts, cleanupVars
<1>8. CASE \E s \in Servers : ServeStarts(s) \/ ServeFails(s) \/ ServeEnds(s)
  BY <1>7, <1>8, <1>11 DEF ServeFails, ServeEnds
<1>9. CASE \/ Signal \/ Exited \/ UNCHANGED vars
           \/ \E h \in Handlers : HandlerStarts(h) \/ QueryStarts(h) \/ QueryEnds(h) \/ HandlerEnds(h)
  BY <1>9 DEF ResultInv, Returned, Signal, Exited, HandlerStarts, QueryStarts, QueryEnds,
     HandlerEnds, HandlerStep, vars, cleanupVars, serverVars
<1>10. QED
  BY <1>1, <1>2, <1>3, <1>4, <1>5, <1>6, <1>7, <1>8, <1>9 DEF Next, Run

-----------------------------------------------------------------------------
(* Theorems. *)

\* The invariant holds in every state.
LEMMA InductiveInvariant == Spec => []IInv
<1>1. Init => IInv
  <2>1. SUFFICES ASSUME Init PROVE IInv
    OBVIOUS
  <2>2. StackInv
    BY <2>1 DEF Init, StackInv
  <2>3. OnceInv
    BY <2>1 DEF Init, OnceInv
  <2>4. OpenInv
    <3>1. Live = 0 /\ stack = <<>> /\ 1..0 = {} /\ 1..Len(stack) = {}
      BY <2>1 DEF Init, Live
    <3>2. QED
      BY <2>1, <3>1 DEF Init, OpenInv
  <2>5. HandlerInv
    BY <2>1 DEF Init, HandlerInv, Active
  <2>6. ResultInv
    BY <2>1 DEF Init, ResultInv, Returned, Servers
  <2>7. QED
    BY <2>2, <2>3, <2>4, <2>5, <2>6 DEF IInv
<1>2. IInv /\ [Next]_vars => IInv'
  BY StackStep, OnceStep, OpenStep, HandlerStepKeeps, ResultStep DEF IInv
<1>3. QED
  BY <1>1, <1>2, PTL DEF Spec

\* The type invariant, which bounds the channel of results by the number of
\* servers: a goroutine never blocks on it.
LEMMA InvariantIsTyped == IInv => TypeOK
<1>1. SUFFICES ASSUME IInv PROVE TypeOK
  OBVIOUS
<1>2. Len(Setup) = 5 /\ Len(stack) <= 5 /\ step \in 1..6
  BY <1>1, SetupByRank DEF IInv, StackInv
<1>3. open \subseteq Resources
  <2>1. Live \in 0..Len(stack)
    BY <1>1 DEF IInv, StackInv, OnceInv, Live
  <2>2. QED
    BY <1>1, <2>1 DEF IInv, StackInv, OpenInv
<1>4. Len(results) + collected <= Cardinality(Servers)
  <2>1. Returned \in 0..2
    BY DEF Returned
  <2>2. QED
    BY <1>1, <2>1, TwoServers DEF IInv, ResultInv
<1>5. pc \in {"setup", "handlers", "bind", "serving", "stopping",
              "cleanup", "collect", "return", "exited"}
  BY <1>1 DEF IInv, OnceInv
<1>6. QED
  BY <1>1, <1>2, <1>3, <1>4, <1>5 DEF IInv, StackInv, OnceInv, OpenInv, HandlerInv, ResultInv, TypeOK

\* Nothing has been released under a user, unless the shutdown timed out.
LEMMA InvariantOrdersRelease == IInv => DependenciesOutlive
<1>1. SUFFICES ASSUME IInv PROVE DependenciesOutlive
  OBVIOUS
<1>2. ASSUME NEW r \in {"requestAudit", "outboundAudit"} \cap open
      PROVE  "database" \in open
  <2>1. Live \in 0..Len(stack) /\ stack \in Seq(Resources) /\ Len(stack) \in Nat
    BY <1>1 DEF IInv, StackInv, OnceInv, Live
  <2>2. PICK i \in 1..Live : stack[i] = r
    BY <1>1, <1>2 DEF IInv, OpenInv
  <2>3. i \in 1..Len(stack) /\ Rank[r] \in {3, 4}
    BY <1>2, <2>1 DEF Rank, Resources
  <2>4. step > 2
    BY <1>1, <2>2, <2>3 DEF IInv, StackInv
  <2>5. PICK j \in 1..Len(stack) : stack[j] = "database"
    BY <1>1, <2>4 DEF IInv, StackInv
  <2>6. Rank["database"] = 2
    BY DEF Rank, Resources
  <2>7. j < i
    BY <1>1, <2>1, <2>2, <2>3, <2>5, <2>6 DEF IInv, StackInv
  <2>8. j \in 1..Live
    BY <2>1, <2>2, <2>7
  <2>9. QED
    BY <1>1, <2>5, <2>8 DEF IInv, OpenInv
<1>3. QED
  BY <1>1, <1>2 DEF IInv, HandlerInv, DependenciesOutlive

\* When the process exits, every entry of the stack has been run once.
LEMMA InvariantReleasesOnce == IInv => ReleasedOnce
<1>1. SUFFICES ASSUME IInv PROVE ReleasedOnce
  OBVIOUS
<1>2. \A r \in Resources : closes[r] <= 1
  BY <1>1 DEF IInv, OpenInv
<1>3. ASSUME pc = "exited"
      PROVE  open = {} /\ \A s \in bound : goroutine[s] = "starting" /\ status = "error"
  <2>1. Live = 0
    BY <1>1, <1>3 DEF IInv, OnceInv, Live
  <2>2. 1..0 = {}
    OBVIOUS
  <2>3. open = {}
    BY <1>1, <2>1, <2>2 DEF IInv, OpenInv
  <2>4. QED
    BY <1>1, <1>3, <2>3 DEF IInv, OnceInv, ResultInv
<1>4. QED
  BY <1>2, <1>3 DEF ReleasedOnce

\* Run's own types, for any set of handlers.
THEOREM TypeCorrect == Spec => []TypeOK
BY InductiveInvariant, InvariantIsTyped, PTL

\* On every path out of Run what is released is not needed any more.
THEOREM ReleaseIsOrdered == Spec => []DependenciesOutlive
BY InductiveInvariant, InvariantOrdersRelease, PTL

\* On every path out of Run everything is released, and nothing twice.
THEOREM ReleaseIsComplete == Spec => []ReleasedOnce
BY InductiveInvariant, InvariantReleasesOnce, PTL

\* Whatever the select takes, a server that failed makes Run return an error.
THEOREM FailuresAreReported == Spec => []FailureIsReported
<1>1. IInv => FailureIsReported
  BY DEF IInv, ResultInv, FailureIsReported
<1>2. QED
  BY <1>1, InductiveInvariant, PTL

-----------------------------------------------------------------------------
(* Run takes finitely many steps, and never waits in vain. *)

\* How many steps Run takes at most, from a place it goes to when the stack
\* has run or is empty, and from where it is.
LeftAt(place) ==
    IF place = "collect" THEN 4 - collected
    ELSE IF place = "return" THEN IF once = "used" THEN 1 ELSE Len(stack) + 2
    ELSE 0

RunLeft ==
    IF pc = "setup" THEN 25 - step
    ELSE IF pc = "bind" THEN IF bound = {} THEN 18 ELSE 17
    ELSE IF pc = "serving" THEN 12
    ELSE IF pc = "stopping" THEN 11
    ELSE IF pc = "cleanup" THEN left + 1 + LeftAt(after)
    ELSE LeftAt(pc)

ServingLeft(s) ==
    IF goroutine[s] = "starting" THEN 2 ELSE IF goroutine[s] = "serving" THEN 1 ELSE 0

LifeLeft == RunLeft + ServingLeft("public") + ServingLeft("infra")

\* From the start of the process to its exit.
LifeBounded == LifeLeft \in 0..24

\* Each step of Run or of a serving goroutine uses one up at least, and no
\* handler or signal adds any.
LifeFalls ==
    /\ Run \/ (\E s \in Servers : ServeStarts(s) \/ ServeFails(s) \/ ServeEnds(s)) => LifeLeft' < LifeLeft
    /\ LifeLeft' <= LifeLeft

\* Where Run still may collect the servers' results, both goroutines exist and
\* their results are in the channel or collected.
Collecting == pc \in {"serving", "collect"} \/ (pc \in {"stopping", "cleanup"} /\ after = "collect")

AwaitInv ==
    /\ pc \in {"setup", "bind"} => \A s \in Servers : goroutine[s] = "none"
    /\ Collecting => /\ \A s \in Servers : goroutine[s] # "none"
                     /\ Len(results) + collected = Returned

\* Run waits for a result only while a server owes one.
ResultsArrive ==
    pc = "collect" /\ collected < Cardinality(Servers) /\ results = <<>> =>
        \E s \in Servers : goroutine[s] \in {"starting", "serving"}

LifeTyped ==
    /\ step \in 1..6 /\ Len(stack) \in 0..5 /\ left \in 0..5 /\ collected \in 0..2
    /\ ServingLeft("public") \in 0..2 /\ ServingLeft("infra") \in 0..2
    /\ RunLeft \in 0..24
    /\ pc \notin {"setup", "bind"} => RunLeft \in 0..20

LEMMA LifeIsTyped == IInv => LifeTyped
<1> SUFFICES ASSUME IInv PROVE LifeTyped
    OBVIOUS
<1>1. step \in 1..6 /\ Len(stack) \in 0..5 /\ left \in 0..5
  <2> DEFINE n == Len(stack)
  <2>1. step \in 1..6 /\ n \in Nat /\ n < step /\ left \in 0..n
    BY DEF IInv, StackInv, OnceInv
  <2> HIDE DEF n
  <2>2. step \in 1..6 /\ n \in 0..5 /\ left \in 0..5
    BY <2>1
  <2>3. QED
    BY <2>2 DEF n
<1>2. collected \in 0..2
  <2>1. collected \in Nat /\ Len(results) \in Nat /\ Len(results) + collected <= 2
    BY InvariantIsTyped, TwoServers DEF TypeOK, IInv, ResultInv
  <2>2. QED
    BY <2>1
<1>3. ServingLeft("public") \in 0..2 /\ ServingLeft("infra") \in 0..2
  BY DEF ServingLeft
<1>4. /\ LeftAt("collect") \in 0..4 /\ LeftAt("return") \in 0..7 /\ LeftAt("exited") = 0
      /\ once = "used" => LeftAt("return") = 1
  <2> DEFINE n == Len(stack)
  <2>1. /\ LeftAt("collect") = 4 - collected /\ LeftAt("exited") = 0
        /\ LeftAt("return") = IF once = "used" THEN 1 ELSE n + 2
    BY DEF LeftAt
  <2>2. n \in 0..5
    BY <1>1
  <2> HIDE DEF n
  <2>3. QED
    BY <1>2, <2>1, <2>2
<1>5. /\ pc \in {"setup", "bind", "serving", "stopping", "return", "cleanup", "collect", "exited"}
      /\ after \in {"collect", "return", "exited"} /\ (pc = "cleanup" => once = "used")
  BY DEF IInv, OnceInv
<1>6. pc = "cleanup" => RunLeft \in 0..10
  <2>1. once = "used" => LeftAt(after) \in 0..4
    BY <1>4, <1>5
  <2>2. QED
    BY <1>1, <1>5, <2>1 DEF RunLeft
<1>7. pc # "cleanup" => RunLeft \in 0..24 /\ (pc \notin {"setup", "bind"} => RunLeft \in 0..20)
  BY <1>1, <1>4, <1>5 DEF RunLeft
<1>8. QED
  BY <1>1, <1>2, <1>3, <1>6, <1>7 DEF LifeTyped

LEMMA LifeIsBounded == IInv /\ AwaitInv => LifeBounded
<1> SUFFICES ASSUME IInv, AwaitInv PROVE LifeBounded
    OBVIOUS
<1>1. /\ RunLeft \in 0..24 /\ ServingLeft("public") \in 0..2 /\ ServingLeft("infra") \in 0..2
      /\ pc \notin {"setup", "bind"} => RunLeft \in 0..20
      BY LifeIsTyped DEF LifeTyped
<1>2. CASE pc \in {"setup", "bind"}
  <2>1. ServingLeft("public") = 0 /\ ServingLeft("infra") = 0
        BY <1>2 DEF ServingLeft, AwaitInv, Servers
  <2> QED BY <1>1, <2>1 DEF LifeBounded, LifeLeft
<1>3. CASE pc \notin {"setup", "bind"}
  BY <1>1, <1>3 DEF LifeBounded, LifeLeft
<1> QED BY <1>2, <1>3

\* Every step keeps AwaitInv.
LEMMA AwaitStep ==
    ASSUME IInv, AwaitInv, [Next]_vars
    PROVE  AwaitInv'
<1>0. /\ results \in Seq({"ok", "error"}) /\ collected \in Nat /\ Returned \in 0..2
      /\ goroutine \in [Servers -> {"none", "starting", "serving", "returned"}]
      /\ pc \in {"setup", "bind", "serving", "stopping"} => once = "unused"
      /\ after \in {"collect", "return", "exited"}
      BY DEF IInv, ResultInv, OnceInv, Returned
<1>1. CASE SetUp \/ BuildHandlers
  BY <1>1 DEF AwaitInv, Collecting, SetUp, BuildHandlers, Abandon, serverVars
<1>2. CASE Bind
  <2>1. results = <<>> /\ collected = 0
    BY <1>2 DEF Bind, IInv, ResultInv
  <2>2. CASE pc' = "serving" /\ goroutine' = [t \in Servers |-> "starting"]
    BY <1>2, <2>1, <2>2 DEF AwaitInv, Collecting, Returned, Bind, Servers
  <2>3. CASE pc' \in {"return", "bind"} /\ UNCHANGED goroutine
    BY <1>2, <2>3 DEF AwaitInv, Collecting, Bind
  <2>4. QED
    BY <1>2, <2>2, <2>3 DEF Bind, Abandon
<1>3. CASE Select
  BY <1>0, <1>3 DEF AwaitInv, Collecting, Returned, Select
<1>4. CASE ShutdownServers \/ Return
  BY <1>0, <1>4 DEF AwaitInv, Collecting, Returned, ShutdownServers, Return, RunCleanup, cleanupVars, serverVars
<1>5. CASE CleanUp
  BY <1>0, <1>5 DEF AwaitInv, Collecting, Returned, CleanUp, serverVars
<1>6. CASE Collect
  <2>1. CASE collected = Cardinality(Servers)
    BY <1>6, <2>1 DEF AwaitInv, Collecting, Collect
  <2>2. CASE results # <<>> /\ results' = Tail(results) /\ collected' = collected + 1
    <3>1. Len(results') = Len(results) - 1 /\ Len(results) \in Nat
      BY <1>0, <2>2
    <3>2. Len(results') + collected' = Len(results) + collected
      BY <1>0, <2>2, <3>1
    <3>3. pc = "collect" /\ pc' \in {"collect", "return"} /\ UNCHANGED goroutine /\ Returned' = Returned
      BY <1>6, <2>2 DEF Collect, Abandon, Returned
    <3>4. QED
      BY <3>2, <3>3 DEF AwaitInv, Collecting
  <2>3. QED
    BY <1>6, <2>1, <2>2 DEF Collect
<1>7. ASSUME NEW s \in Servers, ServeStarts(s) PROVE AwaitInv'
  <2>1. Returned' = Returned /\ pc \in {"serving", "stopping"}
    BY <1>0, <1>7 DEF Returned, ServeStarts, Servers
  <2>2. QED
    BY <1>0, <1>7, <2>1 DEF AwaitInv, Collecting, ServeStarts, cleanupVars
<1>8. ASSUME NEW s \in Servers, NEW result \in {"ok", "error"}, ServeReturns(s, result),
             goroutine[s] \in {"starting", "serving"}, pc \notin {"setup", "bind"}
      PROVE  AwaitInv'
  <2>1. Len(results') = Len(results) + 1 /\ Returned' = Returned + 1 /\ Len(results) \in Nat
    BY <1>8, ServeReturnsResult DEF IInv
  <2>2. QED
    BY <1>0, <1>8, <2>1 DEF AwaitInv, Collecting, ServeReturns, cleanupVars
<1>9. CASE \E s \in Servers : ServeStarts(s) \/ ServeFails(s) \/ ServeEnds(s)
  BY <1>7, <1>8, <1>9 DEF ServeFails, ServeEnds
<1>10. CASE \/ Signal \/ Exited \/ UNCHANGED vars
            \/ \E h \in Handlers : HandlerStarts(h) \/ QueryStarts(h) \/ QueryEnds(h) \/ HandlerEnds(h)
  BY <1>10 DEF AwaitInv, Collecting, Returned, Signal, Exited, HandlerStarts, QueryStarts, QueryEnds,
     HandlerEnds, HandlerStep, vars, cleanupVars, serverVars
<1>11. QED
  BY <1>1, <1>2, <1>3, <1>4, <1>5, <1>6, <1>9, <1>10 DEF Next, Run

\* Each step of Run brings it nearer to its exit.
LEMMA RunLowersLife ==
    ASSUME IInv, IInv', Run
    PROVE  LifeLeft' < LifeLeft
<1>0. /\ step \in 1..6 /\ Len(stack) \in 0..5 /\ left \in 0..5 /\ collected \in 0..2
      /\ pc \in {"stopping", "setup", "bind", "serving"} => once = "unused"
      /\ pc \in {"cleanup", "collect"} => once = "used"
      /\ after \in {"collect", "return", "exited"}
  BY LifeIsTyped DEF LifeTyped, IInv, OnceInv
<1>n. PICK n \in 0..5 : n = Len(stack)
  BY <1>0
<1>1. ServingLeft("public") \in 0..2 /\ ServingLeft("infra") \in 0..2 /\ RunLeft \in 0..24
  BY LifeIsTyped DEF LifeTyped
<1>2. RunLeft' \in 0..24
  <2>1. LifeTyped'
    BY LifeIsTyped, PTL
  <2>2. QED
    BY <2>1 DEF LifeTyped
<1>3. ASSUME UNCHANGED goroutine, RunLeft' < RunLeft
      PROVE  LifeLeft' < LifeLeft
  <2>1. ServingLeft("public")' = ServingLeft("public") /\ ServingLeft("infra")' = ServingLeft("infra")
    BY <1>3 DEF ServingLeft
  <2>2. QED
    BY <1>1, <1>2, <1>3, <2>1 DEF LifeLeft
<1>4. CASE SetUp
  <2>1. step \in 1..5 /\ RunLeft = 25 - step /\ UNCHANGED goroutine
    BY <1>0, <1>4, SetupByRank DEF SetUp, RunLeft, serverVars
  <2>2. \/ pc' = "setup" /\ step' = step + 1
        \/ pc' = "return" /\ UNCHANGED <<stack, once>>
    BY <1>4 DEF SetUp, Abandon, cleanupVars
  <2>3. RunLeft' \in {25 - (step + 1), 1, n + 2}
    BY <1>n, <2>1, <2>2 DEF RunLeft, LeftAt
  <2>4. QED
    BY <1>3, <2>1, <2>3
<1>5. CASE BuildHandlers
  <2>1. step = 6 /\ RunLeft = 19 /\ UNCHANGED <<goroutine, stack, once>> /\ pc' \in {"return", "bind"}
    BY <1>0, <1>5, SetupByRank DEF BuildHandlers, Abandon, RunLeft, serverVars, cleanupVars, setupVars
  <2>2. RunLeft' \in {18, 17, 1, n + 2}
    BY <1>n, <2>1 DEF RunLeft, LeftAt
  <2>3. QED
    BY <1>3, <2>1, <2>2
<1>6. CASE Bind
  <2>1. RunLeft = (IF bound = {} THEN 18 ELSE 17) /\ UNCHANGED <<stack, once>>
    BY <1>6 DEF Bind, RunLeft, setupVars, cleanupVars
  <2>2. CASE pc' = "return" /\ UNCHANGED goroutine
    <3>1. RunLeft' \in {1, n + 2}
      BY <1>n, <2>1, <2>2 DEF RunLeft, LeftAt
    <3>2. QED
      BY <1>3, <2>1, <2>2, <3>1
  <2>3. CASE bound = {} /\ pc' = "bind" /\ bound' # {} /\ UNCHANGED goroutine
    <3>1. RunLeft' < RunLeft
      BY <2>1, <2>3 DEF RunLeft
    <3>2. QED
      BY <1>3, <2>3, <3>1
  <2>4. CASE pc' = "serving" /\ goroutine' = [t \in Servers |-> "starting"]
    <3>1. RunLeft' = 12 /\ ServingLeft("public")' = 2 /\ ServingLeft("infra")' = 2
      BY <2>4 DEF RunLeft, ServingLeft, Servers
    <3>2. QED
      BY <1>1, <2>1, <3>1 DEF LifeLeft
  <2>5. QED
    BY <1>6, <2>2, <2>3, <2>4 DEF Bind, Abandon
<1>7. CASE Select
  <2>1. RunLeft' < RunLeft /\ UNCHANGED goroutine
    BY <1>7 DEF Select, RunLeft
  <2>2. QED
    BY <1>3, <2>1
<1>8. CASE ShutdownServers
  <2>1. /\ pc' = "cleanup" /\ once' = "used" /\ left' = Len(stack) /\ after' \in {"collect", "return", "exited"}
        /\ UNCHANGED <<goroutine, collected>> /\ RunLeft = 11
    BY <1>0, <1>8 DEF ShutdownServers, RunCleanup, RunLeft
  <2>2. LeftAt(after)' \in 0..4
    BY <1>0, <2>1 DEF LeftAt
  <2>3. RunLeft' < RunLeft
    BY <1>0, <2>1, <2>2 DEF RunLeft
  <2>4. QED
    BY <1>3, <2>1, <2>3
<1>9. CASE Return
  <2>1. UNCHANGED <<goroutine, stack>> /\ pc = "return"
    BY <1>9 DEF Return, setupVars, serverVars
  <2>2. CASE once = "used"
    <3>1. pc' = "exited" /\ RunLeft = 1
      BY <1>9, <2>1, <2>2 DEF Return, RunCleanup, RunLeft, LeftAt
    <3>2. RunLeft' = 0
      BY <3>1 DEF RunLeft, LeftAt
    <3>3. QED
      BY <1>3, <2>1, <3>1, <3>2
  <2>3. CASE once # "used"
    <3>1. pc' = "cleanup" /\ left' = Len(stack) /\ after' = "exited" /\ RunLeft = Len(stack) + 2
      BY <1>9, <2>1, <2>3 DEF Return, RunCleanup, RunLeft, LeftAt
    <3>2. RunLeft' = Len(stack) + 1
      BY <1>0, <3>1 DEF RunLeft, LeftAt
    <3>3. QED
      BY <1>0, <1>3, <2>1, <3>1, <3>2
  <2>4. QED
    BY <2>2, <2>3
<1>10. CASE CleanUp
  <2>1. /\ pc = "cleanup" /\ once = "used" /\ UNCHANGED <<once, after, stack, goroutine, collected>>
        /\ \/ left = 0 /\ pc' = after
           \/ left > 0 /\ left' = left - 1 /\ pc' = pc
    BY <1>0, <1>10 DEF CleanUp, serverVars
  <2>2. LeftAt(after) \in 0..4 /\ LeftAt(after)' = LeftAt(after)
    BY <1>0, <2>1 DEF LeftAt
  <2>3. RunLeft = left + 1 + LeftAt(after)
    BY <2>1 DEF RunLeft
  <2>4. RunLeft' = IF left = 0 THEN LeftAt(after) ELSE left' + 1 + LeftAt(after)
    BY <1>0, <2>1, <2>2 DEF RunLeft
  <2>5. QED
    BY <1>0, <1>3, <2>1, <2>2, <2>3, <2>4
<1>11. CASE Collect
  <2>1. pc = "collect" /\ once = "used" /\ once' = "used" /\ UNCHANGED goroutine
    BY <1>0, <1>11 DEF Collect, cleanupVars
  <2>2. \/ pc' = "return" \/ (pc' = "collect" /\ collected' = collected + 1)
    BY <1>11, <2>1 DEF Collect, Abandon
  <2>3. RunLeft = 4 - collected /\ RunLeft' = IF pc' = "return" THEN 1 ELSE 4 - collected'
    BY <2>1, <2>2 DEF RunLeft, LeftAt
  <2>4. QED
    BY <1>0, <1>3, <2>1, <2>2, <2>3
<1>12. QED
  BY <1>4, <1>5, <1>6, <1>7, <1>8, <1>9, <1>10, <1>11 DEF Run

\* And each of a serving goroutine.
LEMMA ServingLowersLife ==
    ASSUME IInv, NEW s \in Servers, ServeStarts(s) \/ ServeFails(s) \/ ServeEnds(s)
    PROVE  LifeLeft' < LifeLeft
<1>1. /\ RunLeft \in 0..24 /\ ServingLeft("public") \in 0..2 /\ ServingLeft("infra") \in 0..2
      /\ goroutine \in [Servers -> {"none", "starting", "serving", "returned"}]
  BY LifeIsTyped DEF LifeTyped, IInv, ResultInv
<1>2. UNCHANGED <<pc, step, stack, once, left, after, collected>> /\ pc # "bind"
  BY DEF ServeStarts, ServeFails, ServeEnds, ServeReturns, setupVars, cleanupVars
<1>3. RunLeft' = RunLeft
  BY <1>2 DEF RunLeft, LeftAt
<1>4. \E t \in {"serving", "returned"} :
          /\ goroutine' = [goroutine EXCEPT ![s] = t]
          /\ goroutine[s] = "starting" \/ (goroutine[s] = "serving" /\ t = "returned")
  BY DEF ServeStarts, ServeFails, ServeEnds, ServeReturns
<1>5. ServingLeft(s)' < ServingLeft(s) /\ \A t \in Servers \ {s} : ServingLeft(t)' = ServingLeft(t)
  BY <1>1, <1>4 DEF ServingLeft
<1>6. ServingLeft("public")' \in 0..2 /\ ServingLeft("infra")' \in 0..2
  BY DEF ServingLeft
<1>7. s = "public" \/ s = "infra"
  BY DEF Servers
<1>8. QED
  BY <1>1, <1>3, <1>5, <1>6, <1>7 DEF LifeLeft, Servers

LEMMA LifeStep ==
    ASSUME IInv, IInv', [Next]_vars
    PROVE  LifeFalls
<1>1. LifeLeft \in Nat
  <2>1. RunLeft \in 0..24 /\ ServingLeft("public") \in 0..2 /\ ServingLeft("infra") \in 0..2
    BY LifeIsTyped DEF LifeTyped
  <2>2. QED
    BY <2>1 DEF LifeLeft
<1>2. CASE Run \/ \E s \in Servers : ServeStarts(s) \/ ServeFails(s) \/ ServeEnds(s)
  <2>1. LifeLeft' < LifeLeft
    BY <1>2, RunLowersLife, ServingLowersLife
  <2>2. LifeLeft' \in Nat
    <3>1. LifeTyped'
      BY LifeIsTyped, PTL
    <3>2. QED
      BY <3>1 DEF LifeTyped, LifeLeft
  <2>3. QED
    BY <1>1, <2>1, <2>2 DEF LifeFalls
<1>3. CASE ~(Run \/ \E s \in Servers : ServeStarts(s) \/ ServeFails(s) \/ ServeEnds(s))
  <2>1. UNCHANGED <<pc, step, stack, once, left, after, bound, collected, goroutine>>
    BY <1>3 DEF Next, Signal, Exited, HandlerStarts, QueryStarts, QueryEnds, HandlerEnds, HandlerStep,
       vars, setupVars, cleanupVars, serverVars
  <2>2. LifeLeft' = LifeLeft
    BY <2>1 DEF LifeLeft, RunLeft, LeftAt, ServingLeft
  <2>3. QED
    BY <1>1, <1>3, <2>2 DEF LifeFalls
<1>4. QED
  BY <1>2, <1>3

LEMMA AwaitInvariant == Spec => [](IInv /\ AwaitInv)
<1>1. Init => AwaitInv
  BY DEF Init, AwaitInv, Collecting
<1>2. IInv /\ AwaitInv /\ [Next]_vars => AwaitInv'
  BY AwaitStep
<1>3. QED
  BY <1>1, <1>2, InductiveInvariant, PTL DEF Spec

\* From its start to its exit, Run and the goroutines that serve take at most
\* 24 steps, whatever the handlers and the signal do: what they need to come
\* to an end is only to be scheduled (fairness of server.Run's goroutines).
THEOREM RunIsBounded == Spec => []LifeBounded /\ [][LifeFalls]_vars
<1>1. IInv /\ IInv' /\ [Next]_vars => LifeFalls
  BY LifeStep
<1>2. QED
  BY <1>1, LifeIsBounded, InductiveInvariant, AwaitInvariant, PTL DEF Spec

\* After a signal Run collects one result of each server (the loop over
\* serverResults that ends Run), and waits for none that its goroutine in
\* RunServers no longer sends.
THEOREM ResultsAreSent == Spec => []ResultsArrive
<1>1. IInv /\ AwaitInv => ResultsArrive
  <2>1. SUFFICES ASSUME IInv, AwaitInv, pc = "collect", collected < 2, results = <<>>
                 PROVE  \E s \in Servers : goroutine[s] \in {"starting", "serving"}
    BY TwoServers DEF ResultsArrive
  <2>2. Returned < 2
    BY <2>1 DEF AwaitInv, Collecting, IInv, ResultInv
  <2>3. \E s \in Servers : goroutine[s] # "returned"
    BY <2>2 DEF Returned, Servers
  <2>4. QED
    BY <2>1, <2>3 DEF AwaitInv, Collecting, IInv, ResultInv
<1>2. QED
  BY <1>1, AwaitInvariant, PTL

-----------------------------------------------------------------------------
(* The process implements its life cycle. *)

\* A step of Run in the process is a step of Run, or the part of a cleanup
\* function that only begins to close a repository.
LEMMA RunIsRun == RunProcess => Run \/ UNCHANGED vars
BY DEF RunProcess, SetUpProcess, CleanUpProcess, CloseRequestAudit, CloseOutboundAudit, OtherRun, Run

\* A step of a public handler is a handler's, or only stores a record.
LEMMA ServeIsHandled ==
    ASSUME NEW h, Serve(h)
    PROVE  \/ HandlerStarts(h) \/ QueryStarts(h) \/ QueryEnds(h) \/ HandlerEnds(h)
           \/ UNCHANGED vars
  BY DEF Serve, CallProvider, EndRequest

\* A step of a probe is a handler's, or not one that Run could see.
LEMMA ProbeIsHandled ==
    ASSUME NEW p, AnswerProbe(p)
    PROVE  HandlerStarts(p) \/ HandlerEnds(p) \/ UNCHANGED vars
  BY DEF AnswerProbe

\* Every step of the process is a step of its life cycle or leaves it alone.
LEMMA ProcessStep == [ProcessNext]_processVars => [Next]_vars
<1>1. SUFFICES ASSUME [ProcessNext]_processVars PROVE [Next]_vars
  OBVIOUS
<1>2. CASE RunProcess
  BY <1>2, RunIsRun DEF Next
<1>3. CASE RequestAuditWorks \/ OutboundAuditWorks \/ Fluctuate
  BY <1>3 DEF RequestAuditWorks, OutboundAuditWorks, Fluctuate
<1>4. CASE Others
  BY <1>4 DEF Others, Next
<1>5. CASE \E h \in Public : Serve(h)
  BY <1>5, ServeIsHandled DEF Next, Public
<1>6. CASE \E p \in Probes : AnswerProbe(p)
  BY <1>6, ProbeIsHandled, ProbesAssumption DEF Next
<1>7. CASE UNCHANGED processVars
  BY <1>7 DEF processVars
<1>8. QED
  BY <1>1, <1>2, <1>3, <1>4, <1>5, <1>6, <1>7 DEF ProcessNext

\* What is proved of server.Run by itself holds of the process, with the
\* audit queues and the probes around it.
THEOREM ProcessImplementsLifecycle == ProcessSpec => Spec
<1>1. ProcessInit => Init
  BY DEF ProcessInit
<1>2. QED
  BY <1>1, ProcessStep, PTL DEF ProcessSpec, Spec

\* The audit workers' database, and the audit for the handlers, are released
\* after their users, in the process too.
THEOREM ProcessReleaseIsOrdered == ProcessSpec => []DependenciesOutlive
BY ProcessImplementsLifecycle, ReleaseIsOrdered, PTL

\* The process exits with everything released, and nothing twice.
THEOREM ProcessReleaseIsComplete == ProcessSpec => []ReleasedOnce
BY ProcessImplementsLifecycle, ReleaseIsComplete, PTL

\* The process reports a server that failed.
THEOREM ProcessReportsFailures == ProcessSpec => []FailureIsReported
BY ProcessImplementsLifecycle, FailuresAreReported, PTL

-----------------------------------------------------------------------------
(* The queues. *)

\* What the queue of an audit repository and the stack tell of each other.
QueueInv(audit, taken, fates, phase) ==
    /\ taken \in Seq(Public) /\ fates \in Seq({"written", "dropped_shutdown"})
    /\ Len(fates) <= Len(taken)
    /\ phase \in {"open", "closing", "closed"}
    /\ phase = "closed" => Len(fates) = Len(taken)
    /\ phase # "open" => once = "used"
    /\ taken # <<>> => audit \in ToSet(stack)
    /\ audit \in ToSet(stack) /\ audit \notin open => phase = "closed"

RequestInv == QueueInv("requestAudit", requestTaken, requestFates, requestPhase)
OutboundInv == QueueInv("outboundAudit", outboundTaken, outboundFates, outboundPhase)

\* Requests are served only when everything has been set up, outbound audit
\* included; this one cannot be turned off.
ServingInv ==
    /\ pc \in {"bind", "serving", "stopping"} \/ Active # {} => step = 6
    /\ step > 4 => "outboundAudit" \in ToSet(stack)

\* The elements of a stack with one more entry.
LEMMA PushedStack ==
    ASSUME NEW s \in Seq(Resources), NEW r \in Resources
    PROVE  ToSet(Append(s, r)) = ToSet(s) \cup {r}
<1> DEFINE app == Append(s, r)
<1>1. /\ app \in Seq(Resources) /\ Len(app) = Len(s) + 1 /\ Len(s) \in Nat
      /\ \A i \in 1..Len(s) : app[i] = s[i]
      /\ app[Len(s) + 1] = r
  OBVIOUS
<1> HIDE DEF app
<1>2. \A x : x \in ToSet(app) <=> \E i \in 1..Len(app) : x = app[i]
  BY <1>1 DEF ToSet
<1>3. \A x : x \in ToSet(s) <=> \E i \in 1..Len(s) : x = s[i]
  BY DEF ToSet
<1>4. \A x : x \in ToSet(app) <=> x \in ToSet(s) \/ x = r
  BY <1>1, <1>2, <1>3
<1>5. QED
  BY <1>4 DEF app

\* The stack and what is open only grow together, or shrink by cleaning up.
LEMMA StackChanges ==
    ASSUME IInv, [Next]_vars
    PROVE  /\ once = "used" => once' = "used"
           /\ \/ UNCHANGED <<stack, open>>
              \/ \E r \in Resources : ToSet(stack') = ToSet(stack) \cup {r} /\ open' = open \cup {r}
              \/ CleanUp /\ left > 0 /\ stack' = stack /\ open' = open \ {NextCleanup}
<1>1. CASE SetUp
  <2>1. Setup[step] \in Resources /\ stack \in Seq(Resources)
    BY <1>1, SetupByRank DEF SetUp, IInv, StackInv
  <2>2. \/ UNCHANGED <<stack, open>>
        \/ stack' = Append(stack, Setup[step]) /\ open' = open \cup {Setup[step]}
    BY <1>1 DEF SetUp
  <2>3. once' = once
    BY <1>1 DEF SetUp, cleanupVars
  <2>4. QED
    BY <2>1, <2>2, <2>3, PushedStack
<1>2. CASE CleanUp
  BY <1>2 DEF CleanUp, IInv, StackInv, OnceInv
<1>3. CASE \/ BuildHandlers \/ Bind \/ Select \/ Collect \/ Signal \/ Exited \/ UNCHANGED vars
           \/ \E s \in Servers : ServeStarts(s) \/ ServeFails(s) \/ ServeEnds(s)
           \/ \E h \in Handlers : HandlerStarts(h) \/ QueryStarts(h) \/ QueryEnds(h) \/ HandlerEnds(h)
  BY <1>3 DEF BuildHandlers, Bind, Select, Collect, Signal, Exited, ServeStarts, ServeFails, ServeEnds,
     ServeReturns, HandlerStarts, QueryStarts, QueryEnds, HandlerEnds, HandlerStep, vars,
     setupVars, cleanupVars
<1>4. CASE ShutdownServers \/ Return
  BY <1>4 DEF ShutdownServers, Return, RunCleanup, setupVars, cleanupVars
<1>5. QED
  BY <1>1, <1>2, <1>3, <1>4 DEF Next, Run

\* Every step keeps ServingInv.
LEMMA ServingStep ==
    ASSUME IInv, ServingInv, [Next]_vars
    PROVE  ServingInv'
<1>1. CASE SetUp
  <2>1. /\ Setup[step] \in Resources /\ Rank[Setup[step]] = step /\ stack \in Seq(Resources)
        /\ step \in 1..5 /\ pc = "setup" /\ once = "unused"
    BY <1>1, SetupByRank DEF SetUp, IInv, StackInv, OnceInv
  <2>2. Active = {} /\ Active' = Active
    BY <1>1, <2>1 DEF IInv, HandlerInv, SetUp, Active
  <2>3. pc' \in {"setup", "return"}
    BY <1>1, <2>1 DEF SetUp, Abandon
  <2>4. step' > 4 => "outboundAudit" \in ToSet(stack')
    <3>1. CASE UNCHANGED <<step, stack>>
      BY <3>1 DEF ServingInv
    <3>2. CASE step' = step + 1 /\ stack' = stack /\ Setup[step] \in {"requestAudit", "rateLimiter"}
      <4>1. step # 4
        BY <2>1, <3>2 DEF Rank, Resources
      <4>2. QED
        BY <2>1, <3>2, <4>1 DEF ServingInv
    <3>3. CASE step' = step + 1 /\ stack' = Append(stack, Setup[step])
      <4>1. ToSet(stack') = ToSet(stack) \cup {Setup[step]}
        BY <2>1, <3>3, PushedStack
      <4>2. step = 4 => Setup[step] = "outboundAudit"
        BY DEF Setup
      <4>3. QED
        BY <2>1, <3>3, <4>1, <4>2 DEF ServingInv
    <3>4. QED
      BY <1>1, <3>1, <3>2, <3>3 DEF SetUp
  <2>5. QED
    BY <2>2, <2>3, <2>4 DEF ServingInv
<1>2. CASE BuildHandlers
  <2>1. step = 6 /\ UNCHANGED <<step, stack, handler>>
    BY <1>2, SetupByRank DEF BuildHandlers, IInv, StackInv, setupVars
  <2>2. QED
    BY <2>1 DEF ServingInv
<1>3. CASE \E h \in Handlers : HandlerStarts(h) \/ QueryStarts(h) \/ QueryEnds(h) \/ HandlerEnds(h)
  <2>1. PICK h \in Handlers : HandlerStarts(h) \/ QueryStarts(h) \/ QueryEnds(h) \/ HandlerEnds(h)
    BY <1>3
  <2>2. UNCHANGED <<step, stack, pc>> /\ (Active = {} => pc \in {"serving", "stopping"} \/ Active' = {})
    BY <2>1 DEF IInv, HandlerInv, Active, HandlerStarts, QueryStarts, QueryEnds, HandlerEnds,
       HandlerStep, setupVars
  <2>3. QED
    BY <2>2 DEF ServingInv
<1>4. CASE \/ Bind \/ Select \/ Collect \/ ShutdownServers \/ Return \/ CleanUp \/ Signal \/ Exited
           \/ UNCHANGED vars \/ \E s \in Servers : ServeStarts(s) \/ ServeFails(s) \/ ServeEnds(s)
  <2>1. UNCHANGED <<step, stack, handler>>
    BY <1>4 DEF Bind, Select, Collect, ShutdownServers, Return, CleanUp, Signal, Exited,
       ServeStarts, ServeFails, ServeEnds, ServeReturns, vars, setupVars
  <2>2. pc' \in {"bind", "serving", "stopping"} => pc \in {"bind", "serving", "stopping"}
    BY <1>4 DEF Bind, Select, Collect, ShutdownServers, Return, RunCleanup, CleanUp, Abandon,
       Signal, Exited, ServeStarts, ServeFails, ServeEnds, ServeReturns, vars, IInv, OnceInv
  <2>3. Active' = Active
    BY <2>1 DEF Active
  <2>4. QED
    BY <2>1, <2>2, <2>3 DEF ServingInv
<1>5. QED
  BY <1>1, <1>2, <1>3, <1>4 DEF Next, Run

\* A queue that a step leaves alone, while its repository is not released.
LEMMA RequestQueueStays ==
    ASSUME IInv, RequestInv, [Next]_vars, UNCHANGED requestVars,
           "requestAudit" \in open => "requestAudit" \in open'
    PROVE  RequestInv'
<1>1. UNCHANGED <<requestTaken, requestFates, requestPhase>>
  BY DEF requestVars
<1>2. QED
  BY <1>1, StackChanges DEF RequestInv, QueueInv

\* The same for the other queue.
LEMMA OutboundQueueStays ==
    ASSUME IInv, OutboundInv, [Next]_vars, UNCHANGED outboundVars,
           "outboundAudit" \in open => "outboundAudit" \in open'
    PROVE  OutboundInv'
<1>1. UNCHANGED <<outboundTaken, outboundFates, outboundPhase>>
  BY DEF outboundVars
<1>2. QED
  BY <1>1, StackChanges DEF OutboundInv, QueueInv

\* Steps of the request queue while the life cycle rests, or as a handler ends.
LEMMA RequestQueueMoves ==
    ASSUME RequestInv, UNCHANGED <<stack, open, once>>,
           \/ "requestAudit" \in ToSet(stack) /\ \E h \in Public : RequestAudit!Accept(h)
           \/ \E o \in RequestAudit!Outcomes : RequestAudit!Resolve(o)
           \/ once = "used" /\ RequestAudit!BeginClose
    PROVE  RequestInv'
<1>1. /\ requestTaken \in Seq(Public) /\ requestFates \in Seq({"written", "dropped_shutdown"})
      /\ Len(requestTaken) \in Nat /\ Len(requestFates) \in Nat
  BY DEF RequestInv, QueueInv
<1>2. CASE "requestAudit" \in ToSet(stack) /\ \E h \in Public : RequestAudit!Accept(h)
  BY <1>1, <1>2 DEF RequestInv, QueueInv, RequestAudit!Accept
<1>3. CASE \E o \in RequestAudit!Outcomes : RequestAudit!Resolve(o)
  BY <1>1, <1>3 DEF RequestInv, QueueInv, RequestAudit!Resolve, RequestAudit!Outcomes
<1>4. CASE once = "used" /\ RequestAudit!BeginClose
  BY <1>1, <1>4 DEF RequestInv, QueueInv, RequestAudit!BeginClose
<1>5. QED
  BY <1>2, <1>3, <1>4

\* The same for the outbound queue.
LEMMA OutboundQueueMoves ==
    ASSUME OutboundInv, UNCHANGED <<stack, open, once>>,
           \/ "outboundAudit" \in ToSet(stack) /\ \E h \in Public : OutboundAudit!Accept(h)
           \/ \E o \in OutboundAudit!Outcomes : OutboundAudit!Resolve(o)
           \/ once = "used" /\ OutboundAudit!BeginClose
    PROVE  OutboundInv'
<1>1. /\ outboundTaken \in Seq(Public) /\ outboundFates \in Seq({"written", "dropped_shutdown"})
      /\ Len(outboundTaken) \in Nat /\ Len(outboundFates) \in Nat
  BY DEF OutboundInv, QueueInv
<1>2. CASE "outboundAudit" \in ToSet(stack) /\ \E h \in Public : OutboundAudit!Accept(h)
  BY <1>1, <1>2 DEF OutboundInv, QueueInv, OutboundAudit!Accept
<1>3. CASE \E o \in OutboundAudit!Outcomes : OutboundAudit!Resolve(o)
  BY <1>1, <1>3 DEF OutboundInv, QueueInv, OutboundAudit!Resolve, OutboundAudit!Outcomes
<1>4. CASE once = "used" /\ OutboundAudit!BeginClose
  BY <1>1, <1>4 DEF OutboundInv, QueueInv, OutboundAudit!BeginClose
<1>5. QED
  BY <1>2, <1>3, <1>4

\* Releasing an audit repository is closing its queue.
LEMMA CleanUpQueues ==
    ASSUME IInv, RequestInv, OutboundInv, CleanUpProcess, [Next]_vars
    PROVE  RequestInv' /\ OutboundInv'
<1>1. pc = "cleanup" /\ once = "used" /\ left \in Nat
  BY DEF CleanUpProcess, IInv, OnceInv, StackInv
<1>2. CASE left > 0 /\ NextCleanup = "requestAudit"
  <2>1. CloseRequestAudit /\ UNCHANGED outboundVars
    BY <1>2 DEF CleanUpProcess
  <2>2. OutboundInv'
    <3>1. UNCHANGED open \/ open' = open \ {NextCleanup}
      BY <1>2, <2>1 DEF CloseRequestAudit, CleanUp, vars, setupVars
    <3>2. QED
      BY <1>2, <2>1, <3>1, OutboundQueueStays
  <2>3. CASE RequestAudit!BeginClose /\ UNCHANGED vars
    <3>1. UNCHANGED <<stack, open, once>>
      BY <2>3 DEF vars, setupVars, cleanupVars
    <3>2. QED
      BY <1>1, <2>2, <2>3, <3>1, RequestQueueMoves
  <2>4. CASE RequestAudit!EndClose /\ CleanUp
    BY <1>1, <2>2, <2>4, StackChanges DEF RequestInv, QueueInv, RequestAudit!EndClose
  <2>5. QED
    BY <2>1, <2>3, <2>4 DEF CloseRequestAudit
<1>3. CASE left > 0 /\ NextCleanup = "outboundAudit"
  <2>1. CloseOutboundAudit /\ UNCHANGED requestVars
    BY <1>3 DEF CleanUpProcess
  <2>2. RequestInv'
    <3>1. UNCHANGED open \/ open' = open \ {NextCleanup}
      BY <1>3, <2>1 DEF CloseOutboundAudit, CleanUp, vars, setupVars
    <3>2. QED
      BY <1>3, <2>1, <3>1, RequestQueueStays
  <2>3. CASE OutboundAudit!BeginClose /\ UNCHANGED vars
    <3>1. UNCHANGED <<stack, open, once>>
      BY <2>3 DEF vars, setupVars, cleanupVars
    <3>2. QED
      BY <1>1, <2>2, <2>3, <3>1, OutboundQueueMoves
  <2>4. CASE OutboundAudit!EndClose /\ CleanUp
    BY <1>1, <2>2, <2>4, StackChanges DEF OutboundInv, QueueInv, OutboundAudit!EndClose
  <2>5. QED
    BY <2>1, <2>3, <2>4 DEF CloseOutboundAudit
<1>4. CASE ~(left > 0 /\ NextCleanup \in {"requestAudit", "outboundAudit"})
  <2>1. UNCHANGED <<requestVars, outboundVars>> /\ CleanUp
    BY <1>4 DEF CleanUpProcess
  <2>2. UNCHANGED open \/ (left > 0 /\ open' = open \ {NextCleanup})
    BY <1>1, <2>1 DEF CleanUp
  <2>3. QED
    BY <1>1, <1>4, <2>1, <2>2, RequestQueueStays, OutboundQueueStays
<1>5. QED
  BY <1>2, <1>3, <1>4

\* Every step of the process keeps what is said of the queues.
LEMMA QueueStep ==
    ASSUME IInv, ServingInv, RequestInv, OutboundInv, [ProcessNext]_processVars
    PROVE  RequestInv' /\ OutboundInv'
<1>1. [Next]_vars
  BY ProcessStep
<1>2. CASE CleanUpProcess
  BY <1>1, <1>2, CleanUpQueues
<1>3. CASE \/ SetUpProcess \/ OtherRun \/ Others \/ Fluctuate \/ UNCHANGED processVars
           \/ \E p \in Probes : AnswerProbe(p)
  <2>1. UNCHANGED <<requestVars, outboundVars>>
    BY <1>3 DEF SetUpProcess, OtherRun, Others, Fluctuate, AnswerProbe, processVars, auditVars
  <2>2. open \subseteq open'
    <3>1. CASE SetUpProcess
      BY <3>1 DEF SetUpProcess, SetUp
    <3>2. CASE OtherRun
      BY <3>2 DEF OtherRun, BuildHandlers, Bind, Select, ShutdownServers, Collect, Return, setupVars
    <3>3. CASE Others \/ Fluctuate \/ UNCHANGED processVars \/ \E p \in Probes : AnswerProbe(p)
      BY <3>3 DEF Others, Signal, ServeStarts, ServeFails, ServeEnds, ServeReturns, Fluctuate, AnswerProbe,
         HandlerStarts, HandlerEnds, HandlerStep, processVars, vars, setupVars
    <3>4. QED
      BY <1>3, <3>1, <3>2, <3>3
  <2>3. QED
    BY <1>1, <2>1, <2>2, RequestQueueStays, OutboundQueueStays
<1>4. CASE RequestAuditWorks \/ OutboundAuditWorks
  <2>1. UNCHANGED <<stack, open, once>>
    BY <1>4 DEF RequestAuditWorks, OutboundAuditWorks, vars, setupVars, cleanupVars
  <2>2. CASE RequestAuditWorks
    <3>1. RequestInv'
      BY <2>1, <2>2, RequestQueueMoves DEF RequestAuditWorks
    <3>2. OutboundInv'
      BY <1>1, <2>1, <2>2, OutboundQueueStays DEF RequestAuditWorks
    <3>3. QED
      BY <3>1, <3>2
  <2>3. CASE OutboundAuditWorks
    <3>1. RequestInv'
      BY <1>1, <2>1, <2>3, RequestQueueStays DEF OutboundAuditWorks
    <3>2. OutboundInv'
      BY <2>1, <2>3, OutboundQueueMoves DEF OutboundAuditWorks
    <3>3. QED
      BY <3>1, <3>2
  <2>4. QED
    BY <1>4, <2>2, <2>3
<1>5. ASSUME NEW h \in Public, Serve(h)
      PROVE  RequestInv' /\ OutboundInv'
  <2>1. UNCHANGED <<stack, open, once>>
    BY <1>5 DEF Serve, CallProvider, EndRequest, HandlerStarts, QueryStarts, QueryEnds,
       HandlerEnds, HandlerStep, vars, setupVars, cleanupVars
  <2>2. CASE CallProvider(h)
    <3>1. h \in Active
      BY <2>2 DEF CallProvider, Active, Public
    <3>2. "outboundAudit" \in ToSet(stack)
      BY <3>1 DEF ServingInv
    <3>3. OutboundInv'
      <4>1. CASE OutboundAudit!Accept(h)
        BY <2>1, <3>2, <4>1, OutboundQueueMoves
      <4>2. CASE UNCHANGED outboundVars
        BY <1>1, <2>1, <4>2, OutboundQueueStays
      <4>3. QED
        BY <2>2, <4>1, <4>2 DEF CallProvider, StoreOutbound
    <3>4. RequestInv'
      BY <1>1, <2>1, <2>2, RequestQueueStays DEF CallProvider
    <3>5. QED
      BY <3>3, <3>4
  <2>3. CASE EndRequest(h)
    <3>1. OutboundInv'
      BY <1>1, <2>1, <2>3, OutboundQueueStays DEF EndRequest
    <3>2. RequestInv'
      <4>1. CASE "requestAudit" \in ToSet(stack) /\ RequestAudit!Accept(h)
        BY <2>1, <4>1, RequestQueueMoves
      <4>2. CASE UNCHANGED requestVars
        BY <1>1, <2>1, <4>2, RequestQueueStays
      <4>3. QED
        BY <2>3, <4>1, <4>2 DEF EndRequest, StoreRequest
    <3>3. QED
      BY <3>1, <3>2
  <2>4. CASE UNCHANGED auditVars
    BY <1>1, <2>1, <2>4, RequestQueueStays, OutboundQueueStays DEF auditVars
  <2>5. QED
    BY <1>5, <2>2, <2>3, <2>4 DEF Serve
<1>6. QED
  BY <1>2, <1>3, <1>4, <1>5 DEF ProcessNext, RunProcess

-----------------------------------------------------------------------------
(* Records that are refused. *)

\* A record is refused only to a handler that outlasted the shutdown.
LEMMA RefusedStep ==
    ASSUME IInv, RequestInv, OutboundInv, InTimeIsAudited, [ProcessNext]_processVars
    PROVE  InTimeIsAudited'
<1>1. timedOut = "yes" => timedOut' = "yes"
  <2>1. [Next]_vars
    BY ProcessStep
  <2>2. QED
    BY <2>1 DEF Next, Run, SetUp, BuildHandlers, Bind, Select, ShutdownServers, RunCleanup,
       CleanUp, Collect, Return, Signal, Exited, ServeStarts, ServeFails, ServeEnds, ServeReturns,
       HandlerStarts, QueryStarts, QueryEnds, HandlerEnds, HandlerStep, vars
<1>2. CASE UNCHANGED refused
  BY <1>1, <1>2 DEF InTimeIsAudited
<1>3. ASSUME NEW h \in Public, handler[h] = "running", requestPhase # "open" \/ outboundPhase # "open"
      PROVE  InTimeIsAudited'
  <2>1. once = "used"
    BY <1>3 DEF RequestInv, OutboundInv, QueueInv
  <2>2. h \in Active
    BY <1>3 DEF Active, Public
  <2>3. timedOut = "yes"
    BY <2>1, <2>2 DEF IInv, HandlerInv
  <2>4. QED
    BY <1>1, <2>3 DEF InTimeIsAudited
<1>4. ASSUME NEW h \in Public, Serve(h)
      PROVE  InTimeIsAudited'
  <2>1. CASE CallProvider(h)
    BY <1>2, <1>3, <2>1 DEF CallProvider, StoreOutbound
  <2>2. CASE EndRequest(h)
    BY <1>2, <1>3, <2>2 DEF EndRequest, StoreRequest, HandlerEnds, HandlerStep
  <2>3. CASE UNCHANGED auditVars
    BY <1>2, <2>3 DEF auditVars
  <2>4. QED
    BY <1>4, <2>1, <2>2, <2>3 DEF Serve
<1>5. CASE \/ RunProcess \/ RequestAuditWorks \/ OutboundAuditWorks \/ Fluctuate \/ Others
           \/ UNCHANGED processVars \/ \E p \in Probes : AnswerProbe(p)
  <2>1. UNCHANGED refused
    BY <1>5 DEF RunProcess, SetUpProcess, CleanUpProcess, OtherRun, RequestAuditWorks,
       OutboundAuditWorks, Fluctuate, Others, AnswerProbe, processVars, auditVars
  <2>2. QED
    BY <1>2, <2>1
<1>6. QED
  BY <1>4, <1>5 DEF ProcessNext

-----------------------------------------------------------------------------
(* Theorems about the audit. *)

AuditInv == ServingInv /\ RequestInv /\ OutboundInv /\ InTimeIsAudited

\* The invariants hold in every state of the process.
LEMMA AuditInvariant == ProcessSpec => [](IInv /\ AuditInv)
<1>1. ProcessInit => AuditInv
  <2>1. SUFFICES ASSUME ProcessInit PROVE AuditInv
    OBVIOUS
  <2>2. /\ requestTaken = <<>> /\ requestFates = <<>> /\ requestPhase = "open"
        /\ outboundTaken = <<>> /\ outboundFates = <<>> /\ outboundPhase = "open"
        /\ refused = {} /\ step = 1 /\ pc = "setup" /\ stack = <<>>
        /\ handler = [h \in Handlers |-> "none"]
    BY <2>1 DEF ProcessInit, Init, RequestAudit!Init, OutboundAudit!Init
  <2>3. ToSet(stack) = {}
    BY <2>2 DEF ToSet
  <2>4. ServingInv /\ InTimeIsAudited
    BY <2>2 DEF ServingInv, Active, InTimeIsAudited
  <2>5. RequestInv /\ OutboundInv
    BY <2>2, <2>3 DEF RequestInv, OutboundInv, QueueInv
  <2>6. QED
    BY <2>4, <2>5 DEF AuditInv
<1>2. IInv /\ AuditInv /\ [ProcessNext]_processVars => AuditInv'
  BY ProcessStep, ServingStep, QueueStep, RefusedStep DEF AuditInv
<1>3. QED
  BY <1>1, <1>2, ProcessImplementsLifecycle, InductiveInvariant, PTL DEF ProcessSpec

\* Once the database is next on the stack, or gone, the audit repositories,
\* which were set up after it, are closed.
LEMMA AuditsAreClosed ==
    ASSUME IInv, PoolClosing \/ closes["database"] > 0,
           NEW audit \in {"requestAudit", "outboundAudit"}
    PROVE  audit \notin open
<1>1. stack \in Seq(Resources) /\ Len(stack) \in Nat /\ Live \in 0..Len(stack)
  BY DEF IInv, StackInv, OnceInv, Live
<1>2. Rank["database"] = 2 /\ Rank[audit] \in {3, 4} /\ "database" \in Resources
  BY DEF Rank, Resources
<1>3. PICK j \in 1..Len(stack) : stack[j] = "database" /\ j >= Live
  <2>1. CASE PoolClosing
    BY <1>1, <2>1 DEF PoolClosing, NextCleanup, Live, IInv, OnceInv
  <2>2. CASE closes["database"] > 0
    <3>1. closes["database"] = IF \E i \in (Live + 1)..Len(stack) : stack[i] = "database" THEN 1 ELSE 0
      BY <1>2 DEF IInv, OpenInv
    <3>2. PICK i \in (Live + 1)..Len(stack) : stack[i] = "database"
      BY <2>2, <3>1
    <3>3. i \in 1..Len(stack) /\ i >= Live
      BY <1>1, <3>2
    <3>4. QED
      BY <3>2, <3>3
  <2>3. QED
    BY <2>1, <2>2
<1>4. ASSUME audit \in open PROVE FALSE
  <2>1. PICK i \in 1..Live : stack[i] = audit
    BY <1>4 DEF IInv, OpenInv
  <2>2. i # j
    BY <1>2, <1>3, <2>1
  <2>3. i < j /\ i \in 1..Len(stack)
    BY <1>1, <1>3, <2>1, <2>2
  <2>4. QED
    BY <1>2, <1>3, <2>1, <2>3 DEF IInv, StackInv
<1>5. QED
  BY <1>4

\* No audit record is left for a pool that is closing or closed.
THEOREM PoolOutlivesAudits == ProcessSpec => []WritesFindThePool
<1>1. IInv /\ AuditInv => WritesFindThePool
  <2>1. SUFFICES ASSUME IInv, AuditInv, PoolClosing \/ closes["database"] > 0
                 PROVE  Pending = 0
    BY DEF WritesFindThePool
  <2>2. "requestAudit" \notin open /\ "outboundAudit" \notin open
    BY <2>1, AuditsAreClosed
  <2>3. requestTaken = <<>> \/ requestPhase = "closed"
    BY <2>1, <2>2 DEF AuditInv, RequestInv, QueueInv
  <2>4. outboundTaken = <<>> \/ outboundPhase = "closed"
    BY <2>1, <2>2 DEF AuditInv, OutboundInv, QueueInv
  <2>5. Len(requestFates) = Len(requestTaken) /\ Len(requestFates) \in Nat
    BY <2>1, <2>3 DEF AuditInv, RequestInv, QueueInv
  <2>6. Len(outboundFates) = Len(outboundTaken) /\ Len(outboundFates) \in Nat
    BY <2>1, <2>4 DEF AuditInv, OutboundInv, QueueInv
  <2>7. QED
    BY <2>5, <2>6 DEF Pending
<1>2. QED
  BY <1>1, AuditInvariant, PTL

\* The repositories refuse no record of a handler that ends in time.
THEOREM HandlersInTimeAreAudited == ProcessSpec => []InTimeIsAudited
BY AuditInvariant, PTL DEF AuditInv

-----------------------------------------------------------------------------
(* The readiness probes. *)

\* Every step of the process that a probe does not take leaves the probes at
\* their stages, and what is required changes only while nothing is served.
LEMMA ProbesStay ==
    ASSUME [ProcessNext]_processVars, ~ \E p \in Probes : AnswerProbe(p)
    PROVE  stage' = stage /\ (required' = required \/ SetUpProcess)
  BY DEF ProcessNext, RunProcess, RequestAuditWorks, OutboundAuditWorks, Fluctuate, Others, Serve,
     processVars

\* What the history notes, the steps of the process all do.
LEMMA ProcessNotes ==
    ASSUME [ProcessNext]_processVars
    PROVE  Probe!Note \/ UNCHANGED <<required, Reachable, stage, seen>>
<1>1. UNCHANGED processVars => UNCHANGED <<required, Reachable, stage, seen>>
  BY DEF processVars, vars, setupVars, cleanupVars, Reachable, PoolClosing, NextCleanup
<1>2. QED
  BY <1>1 DEF ProcessNext, processVars

\* What a probe has seen: all that is required and reachable now, and the
\* database before it looks further, which it does only if that is required.
ProbeInv ==
    /\ required \in {{"database"}, {"database", "rateLimiter"}}
    /\ stage \in [Probes -> {"idle", "database", "rateLimiter", "ready", "not_ready"}]
    /\ seen \in [Probes -> SUBSET {"database", "rateLimiter"}]
    /\ \A p \in Probes :
           /\ stage[p] # "idle" => handler[p] = "running"
           /\ stage[p] \in {"database", "rateLimiter"} => required \cap Reachable \subseteq seen[p]
           /\ stage[p] = "rateLimiter" => "database" \in seen[p] /\ required = {"database", "rateLimiter"}

\* What is required is settled before requests are served.
LEMMA RequiredIsSettled ==
    ASSUME IInv, ProbeInv, SetUpProcess
    PROVE  /\ required' \in {{"database"}, {"database", "rateLimiter"}}
           /\ \A p \in Probes : stage[p] = "idle"
<1>1. required' \in {{"database"}, {"database", "rateLimiter"}}
  BY DEF SetUpProcess, ValkeyReadiness, ProbeInv
<1>2. pc = "setup" /\ once = "unused"
  BY DEF SetUpProcess, SetUp, IInv, OnceInv
<1>3. Active = {}
  BY <1>2 DEF IInv, HandlerInv
<1>4. QED
  BY <1>1, <1>3, ProbesAssumption DEF ProbeInv, Active

\* What a step of a probe does.
LEMMA AnswerEffect ==
    ASSUME ProbeInv, NEW q \in Probes, AnswerProbe(q)
    PROVE  \E next \in {"idle", "database", "rateLimiter", "ready", "not_ready"} :
               /\ stage' = [stage EXCEPT ![q] = next] /\ required' = required
               /\ \/ stage[q] = "idle" /\ next = "database" /\ handler' = [handler EXCEPT ![q] = "running"]
                  \/ /\ stage[q] = "database" /\ next = "rateLimiter" /\ handler' = handler
                     /\ "database" \in Reachable /\ "rateLimiter" \in required
                  \/ stage[q] # "idle" /\ next = "not_ready" /\ handler' = handler
                  \/ /\ stage[q] \in {"database", "rateLimiter"} /\ next = "ready" /\ handler' = handler
                     /\ stage[q] \in Reachable
                     /\ stage[q] = "database" => "rateLimiter" \notin required
                  \/ stage[q] # "idle" /\ next = "idle" /\ handler' = [handler EXCEPT ![q] = "done"]
<1>1. required' = required
  BY DEF AnswerProbe
<1>2. CASE HandlerStarts(q) /\ Probe!Begin(q)
  BY <1>1, <1>2 DEF HandlerStarts, HandlerStep, Probe!Begin, Probe!Goto
<1>3. CASE Probe!TimeOut(q) /\ UNCHANGED vars
  BY <1>1, <1>3 DEF Probe!TimeOut, Probe!Goto, Probe!Running, Probe!Dependencies, vars
<1>4. CASE HandlerEnds(q) /\ Probe!End(q)
  BY <1>1, <1>4 DEF HandlerEnds, HandlerStep, Probe!End, Probe!Goto, Probe!Answers
<1>5. CASE Probe!Check(q) /\ UNCHANGED vars
  <2>1. handler' = handler /\ stage[q] \in {"database", "rateLimiter"}
    BY <1>5 DEF Probe!Check, Probe!Running, Probe!Dependencies, vars
  <2>2. CASE stage[q] \notin Reachable
    <3>1. stage' = [stage EXCEPT ![q] = "not_ready"]
      BY <1>5, <2>2 DEF Probe!Check, Probe!Goto
    <3>2. QED
      BY <1>1, <2>1, <3>1
  <2>3. CASE stage[q] \in Reachable
    <3>1. stage' = [stage EXCEPT ![q] = Probe!AfterCheck(q)]
      BY <1>5, <2>3 DEF Probe!Check, Probe!Goto
    <3>2. QED
      BY <1>1, <2>1, <2>3, <3>1 DEF Probe!AfterCheck
  <2>4. QED
    BY <2>2, <2>3
<1>6. QED
  BY <1>2, <1>3, <1>4, <1>5 DEF AnswerProbe

\* The handler of a probe moves only as the probe begins and ends.
LEMMA ProbeHandlerStays ==
    ASSUME IInv, [ProcessNext]_processVars, ~ \E p \in Probes : AnswerProbe(p), NEW q \in Probes
    PROVE  handler'[q] = handler[q]
<1>1. CASE \E h \in Public : Serve(h)
  BY <1>1, ProbesAssumption DEF IInv, HandlerInv, Public, Serve, CallProvider, EndRequest, HandlerStarts, QueryStarts, QueryEnds,
     HandlerEnds, HandlerStep, vars
<1>2. CASE \/ RunProcess \/ RequestAuditWorks \/ OutboundAuditWorks \/ Fluctuate \/ Others
           \/ UNCHANGED processVars
  BY <1>2 DEF RunProcess, SetUpProcess, SetUp, CleanUpProcess, CloseRequestAudit, CloseOutboundAudit,
     CleanUp, OtherRun, BuildHandlers, Bind, Select, ShutdownServers, Collect, Return,
     RequestAuditWorks, OutboundAuditWorks, Fluctuate, Others, Signal, ServeStarts, ServeFails, ServeEnds,
     ServeReturns, processVars, vars
<1>3. QED
  BY <1>1, <1>2 DEF ProcessNext, processVars

\* What a probe that goes on has seen, or sees after the step.
LEMMA NotedStep ==
    ASSUME ProbeInv, Probe!Note, NEW p \in Probes
    PROVE  seen'[p] = IF stage'[p] \in {"database", "rateLimiter"}
                      THEN seen[p] \cup (required' \cap Reachable') ELSE {}
  BY DEF Probe!Note, Probe!Running, Probe!Dependencies

\* Every step keeps ProbeInv.
LEMMA ProbeStep ==
    ASSUME IInv, ProbeInv, [ProcessNext]_processVars
    PROVE  ProbeInv'
<1>1. CASE UNCHANGED <<required, Reachable, stage, seen>> /\ ~ \E p \in Probes : AnswerProbe(p)
  BY <1>1, ProbeHandlerStays DEF ProbeInv
<1>2. CASE Probe!Note
  <2>1. required' \in {{"database"}, {"database", "rateLimiter"}}
    <3>1. CASE \E p \in Probes : AnswerProbe(p)
      BY <3>1, AnswerEffect DEF ProbeInv
    <3>2. QED
      BY <3>1, ProbesStay, RequiredIsSettled DEF ProbeInv
  <2>2. stage' \in [Probes -> {"idle", "database", "rateLimiter", "ready", "not_ready"}]
    <3>1. CASE \E p \in Probes : AnswerProbe(p)
      BY <3>1, AnswerEffect DEF ProbeInv
    <3>2. QED
      BY <3>1, ProbesStay DEF ProbeInv
  <2>3. seen' \in [Probes -> SUBSET {"database", "rateLimiter"}]
    BY <1>2, <2>1 DEF Probe!Note, ProbeInv
  <2>4. ASSUME NEW p \in Probes
        PROVE  /\ stage'[p] # "idle" => handler'[p] = "running"
               /\ stage'[p] \in {"database", "rateLimiter"} => required' \cap Reachable' \subseteq seen'[p]
               /\ stage'[p] = "rateLimiter" =>
                      "database" \in seen'[p] /\ required' = {"database", "rateLimiter"}
    <3>1. seen'[p] = IF stage'[p] \in {"database", "rateLimiter"}
                     THEN seen[p] \cup (required' \cap Reachable') ELSE {}
      BY <1>2, NotedStep
    <3>2. CASE ~ \E q \in Probes : AnswerProbe(q)
      <4>1. stage' = stage /\ handler'[p] = handler[p]
        BY <3>2, ProbesStay, ProbeHandlerStays
      <4>2. stage[p] # "idle" => required' = required
        BY <3>2, ProbesStay, RequiredIsSettled
      <4>3. QED
        BY <3>1, <4>1, <4>2 DEF ProbeInv
    <3>3. ASSUME NEW q \in Probes, AnswerProbe(q)
          PROVE  /\ stage'[p] # "idle" => handler'[p] = "running"
                 /\ stage'[p] = "rateLimiter" =>
                        "database" \in seen'[p] /\ required' = {"database", "rateLimiter"}
      <4>1. PICK next \in {"idle", "database", "rateLimiter", "ready", "not_ready"} :
               /\ stage' = [stage EXCEPT ![q] = next] /\ required' = required
               /\ \/ stage[q] = "idle" /\ next = "database" /\ handler' = [handler EXCEPT ![q] = "running"]
                  \/ /\ stage[q] = "database" /\ next = "rateLimiter" /\ handler' = handler
                     /\ "database" \in Reachable /\ "rateLimiter" \in required
                  \/ stage[q] # "idle" /\ next = "not_ready" /\ handler' = handler
                  \/ /\ stage[q] \in {"database", "rateLimiter"} /\ next = "ready" /\ handler' = handler
                     /\ stage[q] \in Reachable
                     /\ stage[q] = "database" => "rateLimiter" \notin required
                  \/ stage[q] # "idle" /\ next = "idle" /\ handler' = [handler EXCEPT ![q] = "done"]
        BY <3>3, AnswerEffect
      <4>2. handler \in [Handlers -> {"none", "running", "querying", "done"}] /\ q \in Handlers
        BY ProbesAssumption DEF IInv, HandlerInv
      <4>3. CASE p # q
        <5>1. stage'[p] = stage[p] /\ handler'[p] = handler[p] /\ required' = required
          <6>1. p \in Handlers /\ stage \in [Probes -> {"idle", "database", "rateLimiter", "ready", "not_ready"}]
            BY ProbesAssumption DEF ProbeInv
          <6>2. handler' = handler \/ \E to \in {"running", "done"} : handler' = [handler EXCEPT ![q] = to]
            BY <4>1
          <6>3. QED
            BY <4>1, <4>2, <4>3, <6>1, <6>2
        <5>2. QED
          BY <3>1, <5>1 DEF ProbeInv
      <4>4. CASE p = q
        BY <3>1, <4>1, <4>2, <4>4 DEF ProbeInv
      <4>5. QED
        BY <4>3, <4>4
    <3>4. QED
      BY <3>1, <3>2, <3>3
  <2>5. QED
    BY <2>1, <2>2, <2>3, <2>4 DEF ProbeInv
<1>3. CASE UNCHANGED processVars
  <2>1. UNCHANGED <<required, Reachable, stage, seen, handler>>
    BY <1>3 DEF processVars, vars, setupVars, cleanupVars, Reachable, PoolClosing, NextCleanup
  <2>2. QED
    BY <2>1 DEF ProbeInv
<1>4. QED
  BY <1>2, <1>3 DEF ProcessNext

\* Everything said of the probes holds in every state.
LEMMA ProbeInvariant == ProcessSpec => [](IInv /\ ProbeInv)
<1>1. ProcessInit => ProbeInv
  BY DEF ProcessInit, Probe!ProbeInit, ProbeInv
<1>2. QED
  BY <1>1, ProbeStep, ProcessImplementsLifecycle, InductiveInvariant, PTL DEF ProcessSpec

\* A probe that reports ready has found each required dependency reachable.
THEOREM ReadinessIsEarned == ProcessSpec => ReadyIsEarned
<1>1. ASSUME IInv, ProbeInv, [ProcessNext]_processVars,
             NEW p \in Probes, stage[p] # "ready", stage'[p] = "ready"
      PROVE  required \subseteq seen[p]
  <2>1. PICK q \in Probes : AnswerProbe(q)
    BY <1>1, ProbesStay
  <2>2. /\ stage[p] \in {"database", "rateLimiter"} /\ stage[p] \in Reachable
        /\ stage[p] = "database" => "rateLimiter" \notin required
    BY <1>1, <2>1, AnswerEffect DEF ProbeInv
  <2>3. QED
    BY <1>1, <2>2 DEF ProbeInv
<1>2. IInv /\ ProbeInv /\ [ProcessNext]_processVars =>
          [\A p \in Probes : stage[p] # "ready" /\ stage'[p] = "ready" => required \subseteq seen[p]]_(Probe!vars)
  BY <1>1
<1>3. QED
  BY <1>2, ProbeInvariant, PTL DEF ProcessSpec, ReadyIsEarned, Probe!ReadyIsEarned

\* The types of the whole process.
THEOREM ProcessTypeCorrect == ProcessSpec => []ProcessTypeOK
<1> DEFINE UpInv == up \subseteq {"database", "rateLimiter"} /\ refused \subseteq Public
<1>1. ProcessInit => UpInv
  BY DEF ProcessInit, Probe!Dependencies
<1>2. UpInv /\ [ProcessNext]_processVars => UpInv'
  <2>1. SUFFICES ASSUME UpInv, [ProcessNext]_processVars PROVE UpInv'
    OBVIOUS
  <2>2. up' \subseteq {"database", "rateLimiter"}
    BY <2>1 DEF ProcessNext, RunProcess, RequestAuditWorks, OutboundAuditWorks, Fluctuate, Others,
       Serve, AnswerProbe, Probe!Dependencies, processVars
  <2>3. refused' \subseteq Public
    BY <2>1 DEF ProcessNext, RunProcess, SetUpProcess, CleanUpProcess, OtherRun, RequestAuditWorks,
       OutboundAuditWorks, Fluctuate, Others, Serve, CallProvider, StoreOutbound, EndRequest,
       StoreRequest, AnswerProbe, processVars, auditVars
  <2>4. QED
    BY <2>2, <2>3
<1>3. IInv /\ AuditInv /\ ProbeInv /\ UpInv => ProcessTypeOK
  <2>1. SUFFICES ASSUME IInv, AuditInv, ProbeInv, UpInv PROVE ProcessTypeOK
    OBVIOUS
  <2>2. /\ requestTaken \in Seq(Public) /\ requestFates \in Seq(RequestAudit!Outcomes)
        /\ outboundTaken \in Seq(Public) /\ outboundFates \in Seq(RequestAudit!Outcomes)
        /\ {requestPhase, outboundPhase} \subseteq {"open", "closing", "closed"}
    BY <2>1 DEF AuditInv, RequestInv, OutboundInv, QueueInv, RequestAudit!Outcomes
  <2>3. Probe!TypeOK
    BY <2>1 DEF ProbeInv, Reachable, Probe!TypeOK, Probe!Dependencies, Probe!Answers
  <2>4. TypeOK
    BY <2>1, InvariantIsTyped
  <2>5. QED
    BY <2>1, <2>2, <2>3, <2>4 DEF ProcessTypeOK, Probe!Dependencies
<1>4. QED
  BY <1>1, <1>2, <1>3, AuditInvariant, ProbeInvariant, PTL DEF ProcessSpec

-----------------------------------------------------------------------------
(* The process comes to an end, too. *)

\* What is left to do for a queue: its records, and to begin its close.
QueueLeft(taken, fates, phase) == Len(taken) - Len(fates) + (IF phase = "open" THEN 1 ELSE 0)

RequestLeft == QueueLeft(requestTaken, requestFates, requestPhase)
OutboundLeft == QueueLeft(outboundTaken, outboundFates, outboundPhase)
ProcessLeft == LifeLeft + RequestLeft + OutboundLeft

\* Each step of Run, of the servers or of an audit worker uses up one at
\* least; only a handler that stores a record adds one.
ProcessFalls ==
    /\ Progress => ProcessLeft' < ProcessLeft
    /\ \/ ProcessLeft' <= ProcessLeft
       \/ ProcessLeft' = ProcessLeft + 1 /\ \E h \in Public : CallProvider(h) \/ EndRequest(h)

\* A repository whose cleanup function is next has not been closed.
ClosesOnce ==
    pc = "cleanup" /\ left > 0 =>
        /\ NextCleanup = "requestAudit" => requestPhase # "closed"
        /\ NextCleanup = "outboundAudit" => outboundPhase # "closed"

\* Three parts of a sum of which one changes.
LEMMA SumsChange ==
    ASSUME NEW a \in Nat, NEW b \in Nat, NEW c \in Nat, NEW d \in Nat
    PROVE  /\ a + b + c \in Nat
           /\ d < a => d + b + c < a + b + c
           /\ d < b => a + d + c < a + b + c
           /\ d < c => a + b + d < a + b + c
           /\ a + (b + 1) + c = (a + b + c) + 1
           /\ a + b + (c + 1) = (a + b + c) + 1
  OBVIOUS

QueuesTyped == RequestLeft \in Nat /\ OutboundLeft \in Nat /\ LifeLeft \in Nat

LEMMA LengthsLeft ==
    ASSUME NEW m \in Nat, NEW n \in Nat, n <= m, NEW p
    PROVE  m - n + (IF p = "open" THEN 1 ELSE 0) \in Nat
  OBVIOUS

LEMMA QueuesAreTyped == IInv /\ AuditInv => QueuesTyped
<1> SUFFICES ASSUME IInv, AuditInv PROVE QueuesTyped
    OBVIOUS
<1>1. /\ Len(requestTaken) \in Nat /\ Len(requestFates) \in Nat /\ Len(requestFates) <= Len(requestTaken)
      /\ Len(outboundTaken) \in Nat /\ Len(outboundFates) \in Nat /\ Len(outboundFates) <= Len(outboundTaken)
  BY DEF AuditInv, RequestInv, OutboundInv, QueueInv
<1>2. RequestLeft \in Nat /\ OutboundLeft \in Nat
  BY <1>1, LengthsLeft DEF RequestLeft, OutboundLeft, QueueLeft
<1>3. RunLeft \in 0..24 /\ ServingLeft("public") \in 0..2 /\ ServingLeft("infra") \in 0..2
  BY LifeIsTyped DEF LifeTyped
<1>4. QED
  BY <1>2, <1>3 DEF QueuesTyped, LifeLeft

\* A step of Run other than the beginning of a close is one of server.Run.
LEMMA RunLowersProcess ==
    ASSUME IInv, IInv', QueuesTyped, QueuesTyped', RunProcess
    PROVE  ProcessLeft' < ProcessLeft
<1>1. ASSUME Run, RequestLeft' = RequestLeft, OutboundLeft' = OutboundLeft
      PROVE  ProcessLeft' < ProcessLeft
  <2>1. LifeLeft' < LifeLeft
    BY <1>1, RunLowersLife
  <2>2. QED
    BY <1>1, <2>1, SumsChange DEF QueuesTyped, ProcessLeft
<1>2. CASE SetUpProcess \/ OtherRun
  <2>1. Run /\ UNCHANGED auditVars
    BY <1>2 DEF SetUpProcess, OtherRun, Run
  <2>2. RequestLeft' = RequestLeft /\ OutboundLeft' = OutboundLeft
    BY <2>1 DEF auditVars, requestVars, outboundVars, RequestLeft, OutboundLeft, QueueLeft
  <2>3. QED
    BY <1>1, <2>1, <2>2
<1>3. CASE CleanUpProcess
  <2>1. CASE CleanUp /\ UNCHANGED <<requestVars, outboundVars>>
    <3>1. RequestLeft' = RequestLeft /\ OutboundLeft' = OutboundLeft
      BY <2>1 DEF requestVars, outboundVars, RequestLeft, OutboundLeft, QueueLeft
    <3>2. QED
      BY <1>1, <2>1, <3>1 DEF Run
  <2>2. CASE CloseRequestAudit /\ UNCHANGED outboundVars
    <3>1. OutboundLeft' = OutboundLeft
      BY <2>2 DEF outboundVars, OutboundLeft, QueueLeft
    <3>2. CASE RequestAudit!BeginClose /\ UNCHANGED vars
      <4>1. LifeLeft' = LifeLeft
        BY <3>2 DEF LifeLeft, RunLeft, LeftAt, ServingLeft, vars, setupVars, cleanupVars, serverVars
      <4>2. RequestLeft = (Len(requestTaken) - Len(requestFates)) + 1
            /\ RequestLeft' = (Len(requestTaken) - Len(requestFates)) + 0
        BY <3>2 DEF RequestLeft, QueueLeft, RequestAudit!BeginClose
      <4>3. RequestLeft' < RequestLeft
        BY <4>2 DEF QueuesTyped
      <4>4. QED
        BY <3>1, <4>1, <4>3, SumsChange DEF QueuesTyped, ProcessLeft
    <3>3. CASE RequestAudit!EndClose /\ CleanUp
      <4>1. RequestLeft' = RequestLeft
        BY <3>3 DEF RequestLeft, QueueLeft, RequestAudit!EndClose
      <4>2. QED
        BY <1>1, <3>1, <3>3, <4>1 DEF Run
    <3>4. QED
      BY <2>2, <3>2, <3>3 DEF CloseRequestAudit
  <2>3. CASE CloseOutboundAudit /\ UNCHANGED requestVars
    <3>1. RequestLeft' = RequestLeft
      BY <2>3 DEF requestVars, RequestLeft, QueueLeft
    <3>2. CASE OutboundAudit!BeginClose /\ UNCHANGED vars
      <4>1. LifeLeft' = LifeLeft
        BY <3>2 DEF LifeLeft, RunLeft, LeftAt, ServingLeft, vars, setupVars, cleanupVars, serverVars
      <4>2. OutboundLeft = (Len(outboundTaken) - Len(outboundFates)) + 1
            /\ OutboundLeft' = (Len(outboundTaken) - Len(outboundFates)) + 0
        BY <3>2 DEF OutboundLeft, QueueLeft, OutboundAudit!BeginClose
      <4>3. OutboundLeft' < OutboundLeft
        BY <4>2 DEF QueuesTyped
      <4>4. QED
        BY <3>1, <4>1, <4>3, SumsChange DEF QueuesTyped, ProcessLeft
    <3>3. CASE OutboundAudit!EndClose /\ CleanUp
      <4>1. OutboundLeft' = OutboundLeft
        BY <3>3 DEF OutboundLeft, QueueLeft, OutboundAudit!EndClose
      <4>2. QED
        BY <1>1, <3>1, <3>3, <4>1 DEF Run
    <3>4. QED
      BY <2>3, <3>2, <3>3 DEF CloseOutboundAudit
  <2>4. QED
    BY <1>3, <2>1, <2>2, <2>3 DEF CleanUpProcess
<1>4. QED
  BY <1>2, <1>3 DEF RunProcess

\* A record resolved is one less to resolve.
LEMMA WorkersLowerProcess ==
    ASSUME IInv, AuditInv, QueuesTyped, QueuesTyped', RequestAuditWorks \/ OutboundAuditWorks
    PROVE  ProcessLeft' < ProcessLeft
<1>0. /\ requestTaken \in Seq(Public) /\ outboundTaken \in Seq(Public)
      /\ requestFates \in Seq({"written", "dropped_shutdown"})
      /\ outboundFates \in Seq({"written", "dropped_shutdown"})
  BY DEF AuditInv, RequestInv, OutboundInv, QueueInv
<1>1. LifeLeft' = LifeLeft
  BY DEF RequestAuditWorks, OutboundAuditWorks, LifeLeft, RunLeft, LeftAt, ServingLeft, vars, setupVars,
     cleanupVars, serverVars
<1>2. CASE RequestAuditWorks
  <2>1. OutboundLeft' = OutboundLeft
    BY <1>2 DEF RequestAuditWorks, outboundVars, OutboundLeft, QueueLeft
  <2>2. PICK o : requestFates' = Append(requestFates, o) /\ UNCHANGED <<requestTaken, requestPhase>>
    BY <1>2 DEF RequestAuditWorks, RequestAudit!Resolve
  <2>3. Len(requestFates') = Len(requestFates) + 1 /\ Len(requestFates) \in Nat /\ Len(requestTaken) \in Nat
    BY <1>0, <1>2 DEF RequestAuditWorks, RequestAudit!Resolve, RequestAudit!Outcomes
  <2>4. RequestLeft' < RequestLeft
    BY <2>2, <2>3 DEF RequestLeft, QueueLeft
  <2>5. QED
    BY <1>1, <2>1, <2>4, SumsChange DEF QueuesTyped, ProcessLeft
<1>3. CASE OutboundAuditWorks
  <2>1. RequestLeft' = RequestLeft
    BY <1>3 DEF OutboundAuditWorks, requestVars, RequestLeft, QueueLeft
  <2>2. PICK o : outboundFates' = Append(outboundFates, o) /\ UNCHANGED <<outboundTaken, outboundPhase>>
    BY <1>3 DEF OutboundAuditWorks, OutboundAudit!Resolve
  <2>3. Len(outboundFates') = Len(outboundFates) + 1 /\ Len(outboundFates) \in Nat /\ Len(outboundTaken) \in Nat
    BY <1>0, <1>3 DEF OutboundAuditWorks, OutboundAudit!Resolve, OutboundAudit!Outcomes
  <2>4. OutboundLeft' < OutboundLeft
    BY <2>2, <2>3 DEF OutboundLeft, QueueLeft
  <2>5. QED
    BY <1>1, <2>1, <2>4, SumsChange DEF QueuesTyped, ProcessLeft
<1>4. QED
  BY <1>2, <1>3

\* A handler takes no step of Run away, and leaves one record more in one of
\* the queues at most.
LEMMA HandlersAddOne ==
    ASSUME IInv, AuditInv, QueuesTyped, QueuesTyped', NEW h \in Public, Serve(h)
    PROVE  \/ ProcessLeft' = ProcessLeft
           \/ ProcessLeft' = ProcessLeft + 1 /\ (CallProvider(h) \/ EndRequest(h))
<1>0. requestTaken \in Seq(Public) /\ outboundTaken \in Seq(Public)
      /\ Len(requestTaken) \in Nat /\ Len(outboundTaken) \in Nat
      /\ Len(requestFates) \in Nat /\ Len(outboundFates) \in Nat
  BY DEF AuditInv, RequestInv, OutboundInv, QueueInv
<1>1. LifeLeft' = LifeLeft
  BY DEF Serve, CallProvider, EndRequest, HandlerStarts, QueryStarts, QueryEnds, HandlerEnds, HandlerStep,
     LifeLeft, RunLeft, LeftAt, ServingLeft, vars, setupVars, cleanupVars, serverVars
<1>2. CASE UNCHANGED <<requestVars, outboundVars>>
  BY <1>1, <1>2 DEF ProcessLeft, RequestLeft, OutboundLeft, QueueLeft, requestVars, outboundVars
<1>3. CASE CallProvider(h) /\ OutboundAudit!Accept(h)
  <2>1. RequestLeft' = RequestLeft
    BY <1>3 DEF CallProvider, requestVars, RequestLeft, QueueLeft
  <2>2. Len(outboundTaken') = Len(outboundTaken) + 1 /\ UNCHANGED <<outboundFates, outboundPhase>>
    BY <1>0, <1>3 DEF OutboundAudit!Accept
  <2>3. OutboundLeft' = OutboundLeft + 1
    BY <1>0, <2>2 DEF OutboundLeft, QueueLeft
  <2>4. QED
    BY <1>1, <1>3, <2>1, <2>3 DEF QueuesTyped, ProcessLeft
<1>4. CASE EndRequest(h) /\ RequestAudit!Accept(h)
  <2>1. OutboundLeft' = OutboundLeft
    BY <1>4 DEF EndRequest, outboundVars, OutboundLeft, QueueLeft
  <2>2. Len(requestTaken') = Len(requestTaken) + 1 /\ UNCHANGED <<requestFates, requestPhase>>
    BY <1>0, <1>4 DEF RequestAudit!Accept
  <2>3. RequestLeft' = RequestLeft + 1
    BY <1>0, <2>2 DEF RequestLeft, QueueLeft
  <2>4. QED
    BY <1>1, <1>4, <2>1, <2>3 DEF QueuesTyped, ProcessLeft
<1>5. QED
  BY <1>2, <1>3, <1>4 DEF Serve, CallProvider, EndRequest, StoreOutbound, StoreRequest, auditVars

LEMMA ProcessLeftStep ==
    ASSUME IInv, IInv', AuditInv, AuditInv', [ProcessNext]_processVars
    PROVE  ProcessFalls
<1>0. QueuesTyped /\ QueuesTyped'
  <2>1. QueuesTyped'
    BY QueuesAreTyped, PTL
  <2>2. QED
    BY <2>1, QueuesAreTyped
<1>i. ProcessLeft \in Nat /\ ProcessLeft' \in Nat
  BY <1>0, SumsChange DEF QueuesTyped, ProcessLeft
<1>1. ASSUME ~Progress, ProcessLeft' = ProcessLeft
      PROVE  ProcessFalls
  <2>1. ProcessLeft' <= ProcessLeft
    BY <1>1, <1>i
  <2>2. QED
    BY <1>1, <2>1 DEF ProcessFalls
<1>2. CASE Progress
  <2>1. ASSUME Others, UNCHANGED signal
        PROVE  ProcessLeft' < ProcessLeft
    <3>1. \E s \in Servers : ServeStarts(s) \/ ServeFails(s) \/ ServeEnds(s)
      BY <2>1 DEF Others, Signal
    <3>2. LifeLeft' < LifeLeft
      BY <3>1, ServingLowersLife
    <3>3. RequestLeft' = RequestLeft /\ OutboundLeft' = OutboundLeft
      BY <2>1 DEF Others, auditVars, requestVars, outboundVars, RequestLeft, OutboundLeft, QueueLeft
    <3>4. QED
      BY <1>0, <3>2, <3>3, SumsChange DEF QueuesTyped, ProcessLeft
  <2>2. ProcessLeft' < ProcessLeft
    <3>1. QueuesTyped /\ QueuesTyped'
      BY <1>0
    <3>2. CASE RunProcess
      BY <3>1, <3>2, RunLowersProcess
    <3>3. CASE RequestAuditWorks \/ OutboundAuditWorks
      BY <3>1, <3>3, WorkersLowerProcess
    <3>4. QED
      BY <1>2, <2>1, <3>2, <3>3 DEF Progress
  <2>3. QED
    <3>1. ProcessLeft' <= ProcessLeft
      BY <1>i, <2>2
    <3>2. QED
      BY <2>2, <3>1 DEF ProcessFalls
<1>3. CASE ~Progress
  <2>1. CASE \/ Signal /\ UNCHANGED auditVars
             \/ Fluctuate \/ UNCHANGED processVars \/ \E p \in Probes : AnswerProbe(p)
    <3>1. UNCHANGED <<auditVars, pc, step, stack, once, left, after, collected, bound, goroutine>>
      BY <2>1 DEF Signal, Fluctuate, AnswerProbe, HandlerStarts, HandlerEnds, HandlerStep, processVars,
         vars, setupVars, cleanupVars, serverVars
    <3>2. LifeLeft' = LifeLeft
      BY <3>1 DEF LifeLeft, RunLeft, LeftAt, ServingLeft
    <3>3. RequestLeft' = RequestLeft /\ OutboundLeft' = OutboundLeft
      BY <3>1 DEF auditVars, requestVars, outboundVars, RequestLeft, OutboundLeft, QueueLeft
    <3>4. QED
      BY <1>1, <1>3, <3>2, <3>3 DEF ProcessLeft
  <2>2. CASE \E h \in Public : Serve(h)
    <3>1. PICK h \in Public : Serve(h)
      BY <2>2
    <3>2. \/ ProcessLeft' = ProcessLeft
          \/ ProcessLeft' = ProcessLeft + 1 /\ (CallProvider(h) \/ EndRequest(h))
      BY <1>0, <3>1, HandlersAddOne
    <3>3. QED
      BY <1>1, <1>3, <3>2 DEF ProcessFalls
  <2>3. CASE Others
    BY <1>3, <2>1, <2>3 DEF Others, Progress, ServeStarts, ServeFails, ServeEnds, ServeReturns
  <2>4. QED
    BY <1>3, <2>1, <2>2, <2>3 DEF ProcessNext, Progress
<1>4. QED
  BY <1>2, <1>3

\* The steps that ProcessFairSpec asks of Run, the servers and the audit
\* workers are bounded: each leaves less to do, and only a public handler that
\* stores a record (once in each queue) gives them more.  That one fairness
\* condition on their union is enough rests on this.
THEOREM ProgressIsBounded == ProcessSpec => [][ProcessFalls]_processVars
<1>1. IInv /\ IInv' /\ AuditInv /\ AuditInv' /\ [ProcessNext]_processVars => ProcessFalls
  BY ProcessLeftStep
<1>2. QED
  BY <1>1, AuditInvariant, PTL DEF ProcessSpec

\* A repository is closed by the step that releases it.
ClosedInv ==
    /\ requestPhase = "closed" => "requestAudit" \notin open
    /\ outboundPhase = "closed" => "outboundAudit" \notin open

LEMMA ClosedStep ==
    ASSUME IInv, AuditInv, ClosedInv, [ProcessNext]_processVars
    PROVE  ClosedInv'
<1>1. [Next]_vars
  BY ProcessStep
<1>2. open' \subseteq open \/ once = "unused"
  BY <1>1 DEF Next, Run, SetUp, BuildHandlers, Bind, Select, ShutdownServers, CleanUp, Collect, Return, Signal,
     Exited, ServeStarts, ServeFails, ServeEnds, ServeReturns, HandlerStarts, QueryStarts, QueryEnds, HandlerEnds,
     HandlerStep, vars, setupVars, IInv, OnceInv
<1>3. once = "unused" => requestPhase = "open" /\ outboundPhase = "open"
  BY DEF AuditInv, RequestInv, OutboundInv, QueueInv
<1>4. CASE CleanUpProcess
  <2>1. once = "used" /\ open' \subseteq open
    BY <1>2, <1>4 DEF CleanUpProcess, IInv, OnceInv
  <2>2. requestPhase' = "closed" => requestPhase = "closed" \/ "requestAudit" \notin open'
    BY <1>4 DEF CleanUpProcess, CloseRequestAudit, CloseOutboundAudit, CleanUp, requestVars,
       RequestAudit!BeginClose, RequestAudit!EndClose, IInv, OnceInv
  <2>3. outboundPhase' = "closed" => outboundPhase = "closed" \/ "outboundAudit" \notin open'
    BY <1>4 DEF CleanUpProcess, CloseRequestAudit, CloseOutboundAudit, CleanUp, outboundVars,
       OutboundAudit!BeginClose, OutboundAudit!EndClose, IInv, OnceInv
  <2>4. QED
    BY <2>1, <2>2, <2>3 DEF ClosedInv
<1>5. CASE UNCHANGED <<requestPhase, outboundPhase>>
  BY <1>2, <1>3, <1>5 DEF ClosedInv
<1>6. CASE ~CleanUpProcess
  <2>1. UNCHANGED <<requestPhase, outboundPhase>>
    BY <1>6 DEF ProcessNext, RunProcess, SetUpProcess, OtherRun, RequestAuditWorks, OutboundAuditWorks, Fluctuate,
       Others, Serve, CallProvider, EndRequest, StoreRequest, StoreOutbound, AnswerProbe, processVars, auditVars,
       requestVars, outboundVars, RequestAudit!Resolve, OutboundAudit!Resolve, RequestAudit!Accept,
       OutboundAudit!Accept
  <2>2. QED
    BY <1>5, <2>1
<1>7. QED
  BY <1>4, <1>6

\* The cleanup stack never waits for a repository that has been closed: each
\* Close of the audits that Run pushes on the stack is the first.
THEOREM EachCloseIsFirst == ProcessSpec => []ClosesOnce
<1>1. ProcessInit => ClosedInv
  BY DEF ProcessInit, RequestAudit!Init, OutboundAudit!Init, ClosedInv
<1>2. IInv /\ AuditInv /\ ClosedInv /\ [ProcessNext]_processVars => ClosedInv'
  BY ClosedStep
<1>3. IInv /\ ClosedInv => ClosesOnce
  <2>1. SUFFICES ASSUME IInv, ClosedInv, pc = "cleanup", left > 0
                 PROVE  /\ NextCleanup = "requestAudit" => requestPhase # "closed"
                        /\ NextCleanup = "outboundAudit" => outboundPhase # "closed"
    BY DEF ClosesOnce
  <2>2. once = "used" /\ left \in 0..Len(stack) /\ Len(stack) \in Nat
    BY <2>1 DEF IInv, OnceInv, StackInv
  <2>3. NextCleanup \in open
    BY <2>1, <2>2 DEF IInv, OpenInv, Live, NextCleanup
  <2>4. QED
    BY <2>1, <2>3 DEF ClosedInv
<1>4. QED
  BY <1>1, <1>2, <1>3, AuditInvariant, PTL DEF ProcessSpec
=============================================================================
