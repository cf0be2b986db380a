-------------------------------- MODULE Process --------------------------------
(***************************************************************************)
(* The whole process: server.Run together with the two audit repositories  *)
(* it closes on its way down, each as AuditQueue promises it, and with the *)
(* readiness probes of its infra server.  A public handler may query the   *)
(* database and call the weather provider, which leaves a record in the    *)
(* outbound queue, and when it ends leaves one in the request queue; a     *)
(* probe is a handler too.  Each step of Run, of a queue or of a probe is  *)
(* the step of the module that describes it, joined where they interact.   *)
(***************************************************************************)
EXTENDS ServerLifecycle, SequencesExt

CONSTANT Probes   \* the handlers that answer readiness probes

ASSUME ProbesAssumption == Probes \subseteq Handlers

VARIABLES
    requestTaken, requestFates, requestPhase,     \* the request audit queue
    outboundTaken, outboundFates, outboundPhase,  \* the outbound audit queue
    refused,                               \* history: handlers with a record refused as closed
    up,                                    \* backends that are up
    required, stage, seen                  \* the probes, see Readiness

requestVars == <<requestTaken, requestFates, requestPhase>>
outboundVars == <<outboundTaken, outboundFates, outboundPhase>>
auditVars == <<requestVars, outboundVars, refused>>
processVars == <<vars, auditVars, up, required, stage, seen>>

Public == Handlers \ Probes

\* Whether a write succeeds or fails makes no difference here.
RequestAudit == INSTANCE AuditQueue WITH Records <- Public, WriteResults <- {"written"},
    accepted <- requestTaken, outcomes <- requestFates, phase <- requestPhase

OutboundAudit == INSTANCE AuditQueue WITH Records <- Public, WriteResults <- {"written"},
    accepted <- outboundTaken, outcomes <- outboundFates, phase <- outboundPhase

\* A ping needs the backend and an open client.
Reachable == (up \cap open) \ IF PoolClosing THEN {"database"} ELSE {}

Probe == INSTANCE Readiness WITH reachable <- Reachable

ProcessTypeOK ==
    /\ TypeOK
    /\ up \subseteq Probe!Dependencies
    /\ requestTaken \in Seq(Public) /\ outboundTaken \in Seq(Public)
    /\ requestFates \in Seq(RequestAudit!Outcomes) /\ outboundFates \in Seq(RequestAudit!Outcomes)
    /\ {requestPhase, outboundPhase} \subseteq {"open", "closing", "closed"}
    /\ refused \subseteq Public
    /\ Probe!TypeOK

ProcessInit ==
    /\ Init
    /\ RequestAudit!Init /\ OutboundAudit!Init
    /\ refused = {}
    /\ up = Probe!Dependencies /\ required = {"database"} /\ Probe!ProbeInit

-----------------------------------------------------------------------------
(* Run. *)

\* valkeyReadinessDependency: the limiter's backend, if there is one and the
\* limiter fails closed.
ValkeyReadiness(failOpen) == IF failOpen THEN {} ELSE {"rateLimiter"} \cap ToSet(stack')

\* A limiter that fails open starts without its backend.
SetUpProcess ==
    /\ SetUp
    /\ IF Setup[step] = "rateLimiter"
       THEN \E failOpen \in BOOLEAN :
                /\ failOpen => pc' # "return"
                /\ required' = {"database"} \cup ValkeyReadiness(failOpen)
       ELSE UNCHANGED required
    /\ UNCHANGED auditVars

\* The cleanup function of an audit repository is its Close: it returns when
\* the worker has left, and the stack goes on.
CloseRequestAudit ==
    IF requestPhase = "open" THEN RequestAudit!BeginClose /\ UNCHANGED vars
    ELSE RequestAudit!EndClose /\ CleanUp

CloseOutboundAudit ==
    IF outboundPhase = "open" THEN OutboundAudit!BeginClose /\ UNCHANGED vars
    ELSE OutboundAudit!EndClose /\ CleanUp

CleanUpProcess ==
    /\ pc = "cleanup"
    /\ IF left > 0 /\ NextCleanup = "requestAudit" THEN CloseRequestAudit /\ UNCHANGED outboundVars
       ELSE IF left > 0 /\ NextCleanup = "outboundAudit" THEN CloseOutboundAudit /\ UNCHANGED requestVars
       ELSE CleanUp /\ UNCHANGED <<requestVars, outboundVars>>
    /\ UNCHANGED refused

OtherRun ==
    /\ BuildHandlers \/ Bind \/ Select \/ ShutdownServers \/ Collect \/ Return
    /\ UNCHANGED auditVars

RunProcess ==
    /\ SetUpProcess \/ ((CleanUpProcess \/ OtherRun) /\ UNCHANGED required)
    /\ UNCHANGED <<up, stage>>

-----------------------------------------------------------------------------
(* The audit workers. *)

RequestAuditWorks ==
    /\ pc # "exited"
    /\ \E o \in RequestAudit!Outcomes : RequestAudit!Resolve(o)
    /\ UNCHANGED <<vars, required, outboundVars, refused, up, stage>>

OutboundAuditWorks ==
    /\ pc # "exited"
    /\ \E o \in OutboundAudit!Outcomes : OutboundAudit!Resolve(o)
    /\ UNCHANGED <<vars, required, requestVars, refused, up, stage>>

-----------------------------------------------------------------------------
(* Public handlers. *)

\* Store hands the record over, finds the queue full and drops it, or finds
\* the repository closed.
StoreRequest(h) ==
    \/ RequestAudit!Accept(h) /\ UNCHANGED refused
    \/ requestPhase = "open" /\ UNCHANGED <<requestVars, refused>>
    \/ requestPhase # "open" /\ refused' = refused \cup {h} /\ UNCHANGED requestVars

StoreOutbound(h) ==
    \/ OutboundAudit!Accept(h) /\ UNCHANGED refused
    \/ outboundPhase = "open" /\ UNCHANGED <<outboundVars, refused>>
    \/ outboundPhase # "open" /\ refused' = refused \cup {h} /\ UNCHANGED outboundVars

\* A weather exchange of h ends (one record at most is kept per handler).
CallProvider(h) ==
    /\ handler[h] = "running" /\ pc # "exited"
    /\ StoreOutbound(h)
    /\ UNCHANGED <<vars, requestVars>>

\* The request audit, where it is on, stores a record as h returns.
EndRequest(h) ==
    /\ HandlerEnds(h)
    /\ IF "requestAudit" \in ToSet(stack) THEN StoreRequest(h) ELSE UNCHANGED <<requestVars, refused>>
    /\ UNCHANGED outboundVars

Serve(h) ==
    /\ \/ CallProvider(h) \/ EndRequest(h)
       \/ (HandlerStarts(h) \/ QueryStarts(h) \/ QueryEnds(h)) /\ UNCHANGED auditVars
    /\ UNCHANGED <<required, up, stage>>

-----------------------------------------------------------------------------
(* Readiness probes. *)

\* The connection that a ping of the database takes is not modelled: the pool
\* waits for it as for that of a query.  The state of the backends is chosen
\* when a probe begins and forgotten when it answers: in between nobody looks.
AnswerProbe(p) ==
    /\ pc # "exited"
    /\ \/ HandlerStarts(p) /\ Probe!Begin(p) /\ up' \in SUBSET Probe!Dependencies
       \/ /\ Probe!Check(p) \/ Probe!TimeOut(p)
          /\ UNCHANGED vars
          /\ up' = IF stage'[p] \in Probe!Answers THEN Probe!Dependencies ELSE up
       \/ HandlerEnds(p) /\ Probe!End(p) /\ UNCHANGED up
    /\ UNCHANGED <<required, auditVars>>

\* A backend fails or comes back while a probe runs.
Fluctuate ==
    /\ \E p \in Probes : Probe!Running(p)
    /\ \E d \in Probe!Dependencies : up' = IF d \in up THEN up \ {d} ELSE up \cup {d}
    /\ UNCHANGED <<vars, required, auditVars, stage>>

-----------------------------------------------------------------------------

Others ==
    /\ Signal \/ \E s \in Servers : ServeStarts(s) \/ ServeFails(s) \/ ServeEnds(s)
    /\ UNCHANGED <<required, auditVars, up, stage>>

ProcessNext ==
    \/ /\ \/ RunProcess \/ RequestAuditWorks \/ OutboundAuditWorks \/ Fluctuate \/ Others
          \/ \E h \in Public : Serve(h)
          \/ \E p \in Probes : AnswerProbe(p)
       /\ Probe!Note
    \/ pc = "exited" /\ UNCHANGED processVars

ProcessSpec == ProcessInit /\ [][ProcessNext]_processVars

\* The goroutines of Run, of the audit workers (whose writes end, as in
\* AsyncAudit) and of the servers are not all held up for ever, and a query ends.
Progress == RunProcess \/ RequestAuditWorks \/ OutboundAuditWorks \/ (Others /\ UNCHANGED signal)
EndQuery == \E h \in Public : Serve(h) /\ QueryEnds(h)

ProcessFairSpec ==
    /\ ProcessSpec
    /\ WF_processVars(Progress /\ Probe!Note)
    /\ WF_processVars(EndQuery /\ Probe!Note)

-----------------------------------------------------------------------------
(* Properties, besides those of ServerLifecycle. *)

Pending == Len(requestTaken) - Len(requestFates) + Len(outboundTaken) - Len(outboundFates)

\* The audit workers find the pool open: when the database is being released
\* or is gone, every record taken by either queue has its fate, those of
\* handlers that outlasted the shutdown included.
WritesFindThePool ==
    PoolClosing \/ closes["database"] > 0 => Pending = 0

\* A request that ends while the servers may still wait for it is audited, or
\* dropped for a full queue, but never refused because its repository is closed.
InTimeIsAudited == refused # {} => timedOut = "yes"

ReadyIsEarned == Probe!ReadyIsEarned
=============================================================================
