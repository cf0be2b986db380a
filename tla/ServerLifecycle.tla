--------------------------- MODULE ServerLifecycle ---------------------------
(***************************************************************************)
(* The life of the process (server.Run): resources are set up in order and *)
(* pushed on a cleanup stack, two HTTP servers are bound and served, and a *)
(* signal or a failing server makes Run shut the servers down, run the     *)
(* stack and return; its deferred second run of the stack must do nothing. *)
(***************************************************************************)
EXTENDS Integers, Sequences, FiniteSets

CONSTANT Handlers   \* requests that the servers handle

VARIABLES
    pc,         \* where Run is
    step,       \* the next entry of Setup
    stack,      \* the cleanup stack
    once,       \* "unused" or "used": CleanupStack.once
    left,       \* the entries of the stack still to run, while it runs
    after,      \* where Run goes when the stack has run
    open,       \* resources acquired and not yet released
    closes,     \* closes[r]: how often r's cleanup function has run
    bound,      \* servers with an open listener
    goroutine,  \* goroutine[s]: the goroutine that serves s, "starting" before Serve
    results,    \* the channel of the servers' results
    collected,  \* results taken from it after a signal
    handler,    \* handler[h]: what the handler of h does
    signal,     \* "none" or "sent": SIGINT or SIGTERM
    status,     \* what Run returns: "ok" or "error"
    timedOut,   \* "no" or "yes": ShutdownServers gave up on handlers
    failed      \* history: servers whose Serve failed

setupVars == <<step, stack, open, closes>>
cleanupVars == <<once, left, after>>
serverVars == <<bound, goroutine, results, collected, failed>>
vars == <<pc, setupVars, cleanupVars, serverVars, handler, signal, status, timedOut>>

Setup == <<"tracing", "database", "requestAudit", "outboundAudit", "rateLimiter">>
Resources == {"tracing", "database", "requestAudit", "outboundAudit", "rateLimiter"}
Servers == {"public", "infra"}
Active == {h \in Handlers : handler[h] \in {"running", "querying"}}

TypeOK ==
    /\ pc \in {"setup", "handlers", "bind", "serving", "stopping",
               "cleanup", "collect", "return", "exited"}
    /\ step \in 1..(Len(Setup) + 1)
    /\ stack \in Seq(Resources) /\ left \in 0..Len(stack) /\ Len(stack) <= Len(Setup)
    /\ once \in {"unused", "used"} /\ after \in {"collect", "return", "exited"}
    /\ open \subseteq Resources /\ closes \in [Resources -> Nat]
    /\ bound \subseteq Servers /\ failed \subseteq Servers
    /\ goroutine \in [Servers -> {"none", "starting", "serving", "returned"}]
    /\ results \in Seq({"ok", "error"}) /\ Len(results) + collected <= Cardinality(Servers)
    /\ handler \in [Handlers -> {"none", "running", "querying", "done"}]
    /\ signal \in {"none", "sent"} /\ status \in {"ok", "error"} /\ timedOut \in {"no", "yes"}

Init ==
    /\ pc = "setup" /\ step = 1 /\ stack = <<>>
    /\ once = "unused" /\ left = 0 /\ after = "return"
    /\ open = {} /\ closes = [r \in Resources |-> 0]
    /\ bound = {} /\ goroutine = [s \in Servers |-> "none"]
    /\ results = <<>> /\ collected = 0 /\ failed = {}
    /\ handler = [h \in Handlers |-> "none"]
    /\ signal = "none" /\ status = "ok" /\ timedOut = "no"

-----------------------------------------------------------------------------
(* Setting up. *)

\* Run returns an error.
Abandon == pc' = "return" /\ status' = "error"

\* Request auditing and rate limiting may be off, and a limiter that fails
\* open does without its backend: then there is nothing to clean up.
SetUp ==
    /\ pc = "setup" /\ step <= Len(Setup)
    /\ LET r == Setup[step]
       IN  \/ /\ stack' = Append(stack, r) /\ open' = open \cup {r}
              /\ step' = step + 1
              /\ UNCHANGED <<pc, status>>
           \/ /\ r \in {"requestAudit", "rateLimiter"}
              /\ step' = step + 1
              /\ UNCHANGED <<pc, stack, open, status>>
           \/ /\ r \in {"database", "rateLimiter"}
              /\ Abandon
              /\ UNCHANGED <<step, stack, open>>
    /\ UNCHANGED <<closes, cleanupVars, serverVars, handler, signal, timedOut>>

BuildHandlers ==
    /\ pc = "setup" /\ step > Len(Setup)
    /\ Abandon \/ (pc' = "bind" /\ UNCHANGED status)
    /\ UNCHANGED <<setupVars, cleanupVars, serverVars, handler, signal, timedOut>>

\* BindListeners, then RunServers.
Bind ==
    /\ pc = "bind"
    /\ LET s == IF bound = {} THEN "public" ELSE "infra"
       IN  \/ Abandon /\ bound' = {} /\ UNCHANGED goroutine
           \/ /\ bound' = bound \cup {s}
              /\ IF s = "infra"
                 THEN pc' = "serving" /\ goroutine' = [t \in Servers |-> "starting"]
                 ELSE UNCHANGED <<pc, goroutine>>
              /\ UNCHANGED status
    /\ UNCHANGED <<setupVars, cleanupVars, results, collected, failed, handler, signal, timedOut>>

-----------------------------------------------------------------------------
(* Serving. *)

Signal ==
    /\ signal = "none" /\ pc # "exited"
    /\ signal' = "sent"
    /\ UNCHANGED <<pc, setupVars, cleanupVars, serverVars, handler, status, timedOut>>

\* Serve takes over the listener.
ServeStarts(s) ==
    /\ pc \in {"serving", "stopping"} /\ goroutine[s] = "starting"
    /\ goroutine' = [goroutine EXCEPT ![s] = "serving"]
    /\ UNCHANGED <<pc, setupVars, cleanupVars, bound, results, collected, failed,
                   handler, signal, status, timedOut>>

\* Serve returns and closes its listener.
ServeReturns(s, result) ==
    /\ goroutine' = [goroutine EXCEPT ![s] = "returned"]
    /\ bound' = bound \ {s}
    /\ results' = Append(results, result)
    /\ UNCHANGED <<pc, setupVars, cleanupVars, collected, handler, signal, status, timedOut>>

ServeFails(s) ==
    /\ pc \in {"serving", "stopping"} /\ goroutine[s] = "serving"
    /\ ServeReturns(s, "error") /\ failed' = failed \cup {s}

\* ErrServerClosed: a server that has been shut down, be it before it served.
ServeEnds(s) ==
    /\ pc \in {"stopping", "cleanup", "collect", "return"} /\ goroutine[s] \in {"starting", "serving"}
    /\ ServeReturns(s, "ok") /\ UNCHANGED failed

\* Mutant: the stack runs in registration order.
NextCleanupForward == stack[Len(stack) - left + 1]

\* The last registered goes first.
NextCleanup == stack[left]

\* A pool that is being closed hands out no connection.
PoolClosing == pc = "cleanup" /\ left > 0 /\ NextCleanup = "database"

HandlerStep(h, from, to) ==
    /\ handler[h] = from /\ pc # "exited"
    /\ handler' = [handler EXCEPT ![h] = to]
    /\ UNCHANGED <<pc, setupVars, cleanupVars, serverVars, signal, status, timedOut>>

\* A connection accepted before its listener closed may still bring a request
\* while Shutdown waits.
HandlerStarts(h) ==
    /\ pc \in {"serving", "stopping"} /\ \E s \in Servers : goroutine[s] # "starting"
    /\ HandlerStep(h, "none", "running")

\* A query holds a connection of the pool.
QueryStarts(h) ==
    "database" \in open /\ ~PoolClosing /\ HandlerStep(h, "running", "querying")
QueryEnds(h) == HandlerStep(h, "querying", "running")
HandlerEnds(h) == HandlerStep(h, "running", "done")

-----------------------------------------------------------------------------
(* Shutting down. *)

\* Mutant: after a failure too, Run waits for the result of every server.
SelectWaitsForAll ==
    /\ pc = "serving" /\ pc' = "stopping"
    /\ \/ /\ results # <<>>
          /\ results' = Tail(results)
          /\ status' = "error" /\ after' = "collect"
       \/ signal = "sent" /\ after' = "collect" /\ UNCHANGED <<results, status>>
    /\ UNCHANGED <<setupVars, once, left, bound, goroutine, collected, failed, handler, signal, timedOut>>

\* A result (of a failure: only Shutdown makes Serve return well) or the signal.
Select ==
    /\ pc = "serving" /\ pc' = "stopping"
    /\ \/ /\ results # <<>>
          /\ results' = Tail(results)
          /\ status' = "error" /\ after' = "return"
       \/ signal = "sent" /\ after' = "collect" /\ UNCHANGED <<results, status>>
    /\ UNCHANGED <<setupVars, once, left, bound, goroutine, collected, failed, handler, signal, timedOut>>

\* CleanupStack.Run, or nothing if it has run.
RunCleanup(next) ==
    IF once = "used" THEN pc' = next /\ UNCHANGED cleanupVars
    ELSE pc' = "cleanup" /\ once' = "used" /\ left' = Len(stack) /\ after' = next

\* Mutant: Shutdown is not waited for.
ShutdownNotAwaited ==
    /\ pc = "stopping"
    /\ bound' = {s \in bound : goroutine[s] = "starting"}
    /\ RunCleanup(after)
    /\ UNCHANGED <<setupVars, goroutine, results, collected, failed, handler, signal, status, timedOut>>

\* ShutdownServers closes the listeners of the servers that serve (the others
\* close their own when they find themselves shut down) and returns when no
\* handler is left or its time is over; its error makes Run return instead of
\* collecting results.
ShutdownServers ==
    /\ pc = "stopping"
    /\ bound' = {s \in bound : goroutine[s] = "starting"}
    /\ IF Active = {} THEN RunCleanup(after) /\ UNCHANGED <<status, timedOut>>
       ELSE RunCleanup("return") /\ status' = "error" /\ timedOut' = "yes"
    /\ UNCHANGED <<setupVars, goroutine, results, collected, failed, handler, signal>>

\* Closing the pool waits until no connection is in use.
CleanUp ==
    /\ pc = "cleanup"
    /\ IF left = 0 THEN pc' = after /\ UNCHANGED <<left, open, closes>>
       ELSE /\ PoolClosing => \A h \in Handlers : handler[h] # "querying"
            /\ left' = left - 1
            /\ open' = open \ {NextCleanup}
            /\ closes' = [closes EXCEPT ![NextCleanup] = @ + 1]
            /\ UNCHANGED pc
    /\ UNCHANGED <<step, stack, once, after, serverVars, handler, signal, status, timedOut>>

\* Mutant: the results are not looked at.
CollectNothing ==
    /\ pc = "collect" /\ pc' = "return"
    /\ UNCHANGED <<setupVars, cleanupVars, serverVars, handler, signal, status, timedOut>>

\* Wait for the result of each server, unless one is an error.
Collect ==
    /\ pc = "collect"
    /\ IF collected = Cardinality(Servers)
       THEN pc' = "return" /\ UNCHANGED <<results, collected, status>>
       ELSE /\ results # <<>>
            /\ results' = Tail(results) /\ collected' = collected + 1
            /\ IF Head(results) = "error" THEN Abandon ELSE UNCHANGED <<pc, status>>
    /\ UNCHANGED <<setupVars, cleanupVars, bound, goroutine, failed, handler, signal, timedOut>>

\* Mutant: the stack runs again.
ReturnCleansAgain ==
    /\ pc = "return"
    /\ pc' = "cleanup" /\ left' = Len(stack) /\ after' = "exited"
    /\ UNCHANGED <<once, setupVars, serverVars, handler, signal, status, timedOut>>

\* The deferred runtimeCleanup.Run.
Return ==
    /\ pc = "return"
    /\ RunCleanup("exited")
    /\ UNCHANGED <<setupVars, serverVars, handler, signal, status, timedOut>>

Exited == pc = "exited" /\ UNCHANGED vars

Run == SetUp \/ BuildHandlers \/ Bind \/ Select \/ ShutdownServers \/ CleanUp \/ Collect \/ Return

Next ==
    \/ Run \/ Signal \/ Exited
    \/ \E s \in Servers : ServeStarts(s) \/ ServeFails(s) \/ ServeEnds(s)
    \/ \E h \in Handlers : HandlerStarts(h) \/ QueryStarts(h) \/ QueryEnds(h) \/ HandlerEnds(h)

Spec == Init /\ [][Next]_vars

\* Run and the serving goroutines are scheduled, and a query ends: the
\* database answers or the connection breaks.  Handlers need not end.
FairSpec == Spec /\ WF_vars(Run)
    /\ \A s \in Servers : WF_vars(ServeEnds(s))
    /\ \A h \in Handlers : WF_vars(QueryEnds(h))

-----------------------------------------------------------------------------
(* Properties. *)

\* Resources outlive their users on every path out of Run: the database the
\* audit workers that write to it, and all of them the handlers, unless these
\* outlasted the shutdown timeout.
DependenciesOutlive ==
    /\ {"requestAudit", "outboundAudit"} \cap open # {} => "database" \in open
    /\ once = "used" /\ Active # {} => timedOut = "yes"

\* Nothing is released twice, and nothing is left when the process exits, but
\* for the listener of a server that did not serve yet when Run failed.
ReleasedOnce ==
    /\ \A r \in Resources : closes[r] <= 1
    /\ pc = "exited" => /\ open = {}
                        /\ \A s \in bound : goroutine[s] = "starting" /\ status = "error"

\* A server that failed is reported, though the signal may arrive meanwhile.
FailureIsReported == pc = "exited" /\ failed # {} => status = "error"

\* A signal, whenever it comes, makes the process exit.
ExitsOnSignal == signal = "sent" ~> pc = "exited"
=============================================================================
