--------------------------- MODULE RequestPipeline ---------------------------
(***************************************************************************)
(* A request on its way down the middleware chain of the public or of the  *)
(* infra server to the application and back (NewHandler of publicapi and   *)
(* infraapi), where any layer may answer it and the application may panic. *)
(* The layers of tracing write nothing modelled here and are left out.     *)
(***************************************************************************)
EXTENDS Integers, Sequences, FiniteSets

CONSTANTS
    Requests,  \* requests in progress at a time
    FailOpen   \* API_RATE_LIMIT_FAIL_OPEN

ASSUME PipelineAssumption == IsFiniteSet(Requests) /\ FailOpen \in BOOLEAN

Optional == {"RequestAudit", "RequestLogger", "CSRF", "RateLimit"}

\* Mutant: the metrics are taken after the safety middleware.
FullChainMetricsLate ==
    <<"Recovery", "RequestID", "RequestAudit", "RequestLogger",
      "CORS", "CSRF", "RateLimit", "RequestMetrics", "application">>

\* The layers, outermost first.
FullChain ==
    <<"Recovery", "RequestID", "RequestMetrics", "RequestAudit", "RequestLogger",
      "CORS", "CSRF", "RateLimit", "application">>

\* The infra server has few of them.
InfraChain == {"Recovery", "RequestID", "RequestMetrics", "RequestLogger", "application"}

VARIABLES
    server,    \* the server whose chain is modelled: "public" or "infra"
    enabled,   \* the optional layers the configuration enables
    at,        \* at[q]: the index in FullChain of the layer q is at, 0 before and after
    moving,    \* moving[q]: "in", "out" or (panicking) "unwind"; "new" and "done"
    method,    \* method[q]
    observed,  \* observed[q]: the ObservedResponseWriter's status, 0 if none is written
    sent,      \* sent[q]: the status net/http sent, 0 if none yet
    inFlight,  \* the in-flight gauge
    counted,   \* counted[q]: the status q was counted with in requests_total, or 0
    audited,   \* audited[q]: the status in q's audit record, or 0
    logged,    \* logged[q]: the status in q's completion log line, or 0
    rejected,  \* rejected_requests_total
    recovered, \* recovered_panics_total
    ran,       \* history: the requests that reached the application
    panicked   \* history: the requests whose handler panicked

writers == <<observed, sent>>
metrics == <<inFlight, counted, rejected, recovered>>
records == <<audited, logged>>
history == <<ran, panicked>>
vars == <<server, enabled, at, moving, method, writers, metrics, records, history>>

\* The layers the server and its configuration have.
Present == {i \in 1..Len(FullChain) :
    /\ server = "infra" => FullChain[i] \in InfraChain
    /\ FullChain[i] \in Optional => FullChain[i] \in enabled}

Layer(q) == FullChain[at[q]]

Methods == {"GET", "POST", "OPTIONS"}
Statuses == {200, 204, 403, 404, 429, 500, 503}

TypeOK ==
    /\ server \in {"public", "infra"} /\ enabled \subseteq Optional
    /\ at \in [Requests -> Present \cup {0}]
    /\ moving \in [Requests -> {"new", "in", "out", "unwind", "done"}]
    /\ method \in [Requests -> Methods]
    /\ observed \in [Requests -> Statuses \cup {0}]
    /\ sent \in [Requests -> Statuses \cup {0}]
    /\ inFlight \in 0..Cardinality(Requests)
    /\ counted \in [Requests -> Statuses \cup {0}]
    /\ audited \in [Requests -> Statuses \cup {0}]
    /\ logged \in [Requests -> Statuses \cup {0}]
    /\ rejected \in 0..Cardinality(Requests) /\ recovered \in 0..Cardinality(Requests)
    /\ ran \subseteq Requests /\ panicked \subseteq ran

Init ==
    /\ \/ server = "public" /\ enabled \in SUBSET Optional
       \/ server = "infra" /\ enabled \in SUBSET {"RequestLogger"}
    /\ at = [q \in Requests |-> 0] /\ moving = [q \in Requests |-> "new"]
    /\ method \in [Requests -> Methods]
    /\ observed = [q \in Requests |-> 0] /\ sent = [q \in Requests |-> 0]
    /\ inFlight = 0 /\ rejected = 0 /\ recovered = 0
    /\ counted = [q \in Requests |-> 0]
    /\ audited = [q \in Requests |-> 0] /\ logged = [q \in Requests |-> 0]
    /\ ran = {} /\ panicked = {}

-----------------------------------------------------------------------------
(* Moving through the chain. *)

\* No layer lies between those at i and at j.
Adjacent(i, j) == i < j /\ \A k \in Present : ~ (i < k /\ k < j)

Descend(q) ==
    /\ \E i \in Present : Adjacent(at[q], i) /\ at' = [at EXCEPT ![q] = i]
    /\ moving' = [moving EXCEPT ![q] = "in"]

Outward(q) ==
    \E i \in Present \cup {0} : Adjacent(i, at[q]) /\ at' = [at EXCEPT ![q] = i]

Climb(q) ==
    /\ Outward(q)
    /\ moving' = [moving EXCEPT ![q] = IF at'[q] = 0 THEN "done" ELSE "out"]

\* Mutant: the last status written is remembered.
WriteStatusLast(q, code) ==
    /\ observed' = [observed EXCEPT ![q] = code]
    /\ sent' = [sent EXCEPT ![q] = IF @ = 0 THEN code ELSE @]

\* The first final status counts, for the observer as for net/http.
WriteStatus(q, code) ==
    /\ observed' = [observed EXCEPT ![q] = IF @ = 0 THEN code ELSE @]
    /\ sent' = [sent EXCEPT ![q] = IF @ = 0 THEN code ELSE @]

\* What the observer reports: 200 when nothing was written.
StatusCode(q) == IF observed[q] = 0 THEN 200 ELSE observed[q]

\* The layer answers q itself.
Answer(q, code) == WriteStatus(q, code) /\ Climb(q)

\* The request of the layer at index i carries the metrics, so that it can count.
CarriesMetrics(i) == \E j \in Present : j < i /\ FullChain[j] = "RequestMetrics"

\* observeRejectedRequest
ObserveRejected(q) == rejected' = IF CarriesMetrics(at[q]) THEN rejected + 1 ELSE rejected

-----------------------------------------------------------------------------
(* The way in. *)

Arrive(q) ==
    /\ moving[q] = "new"
    /\ Descend(q)
    /\ UNCHANGED <<server, enabled, method, writers, metrics, records, history>>

PassOn(q) ==
    /\ moving[q] = "in" /\ Layer(q) \in {"Recovery", "RequestID", "RequestAudit", "RequestLogger"}
    /\ Descend(q)
    /\ UNCHANGED <<server, enabled, method, writers, metrics, records, history>>

EnterMetrics(q) ==
    /\ moving[q] = "in" /\ Layer(q) = "RequestMetrics"
    /\ inFlight' = inFlight + 1
    /\ Descend(q)
    /\ UNCHANGED <<server, enabled, method, writers, counted, rejected, recovered, records, history>>

\* A preflight from an allowed origin is answered; all else goes on.
CORS(q) ==
    /\ moving[q] = "in" /\ Layer(q) = "CORS"
    /\ \/ method[q] = "OPTIONS" /\ Answer(q, 204)
       \/ Descend(q) /\ UNCHANGED writers
    /\ UNCHANGED <<server, enabled, method, metrics, records, history>>

\* Mutant: a denied request goes on after the answer.
CSRFGoesOn(q) ==
    /\ moving[q] = "in" /\ Layer(q) = "CSRF"
    /\ \/ method[q] = "POST" /\ ObserveRejected(q) /\ WriteStatus(q, 403) /\ Descend(q)
       \/ Descend(q) /\ UNCHANGED <<writers, rejected>>
    /\ UNCHANGED <<server, enabled, method, inFlight, counted, recovered, records, history>>

\* Only an unsafe method can be denied for its origin.
CSRF(q) ==
    /\ moving[q] = "in" /\ Layer(q) = "CSRF"
    /\ \/ method[q] = "POST" /\ ObserveRejected(q) /\ Answer(q, 403)
       \/ Descend(q) /\ UNCHANGED <<writers, rejected>>
    /\ UNCHANGED <<server, enabled, method, inFlight, counted, recovered, records, history>>

\* Allowed, exempt, or the backend failed and the limiter fails open: go on.
RateLimit(q) ==
    /\ moving[q] = "in" /\ Layer(q) = "RateLimit"
    /\ \/ Descend(q) /\ UNCHANGED <<writers, rejected>>
       \/ method[q] # "OPTIONS" /\ ObserveRejected(q) /\ Answer(q, 429)
       \/ method[q] # "OPTIONS" /\ ~FailOpen /\ ObserveRejected(q) /\ Answer(q, 503)
    /\ UNCHANGED <<server, enabled, method, inFlight, counted, recovered, records, history>>

-----------------------------------------------------------------------------
(* The application: the generated server and its handlers. *)

InApplication(q) == moving[q] = "in" /\ Layer(q) = "application"

\* A final status, or a body (which implies 200); informational ones pass unseen.
Write(q) ==
    /\ InApplication(q)
    /\ \E code \in {200, 404, 500} : WriteStatus(q, code)
    /\ ran' = ran \cup {q}
    /\ UNCHANGED <<server, enabled, at, moving, method, metrics, records, panicked>>

Return(q) ==
    /\ InApplication(q)
    /\ ran' = ran \cup {q}
    /\ Climb(q)
    /\ UNCHANGED <<server, enabled, method, writers, metrics, records, panicked>>

Panic(q) ==
    /\ InApplication(q)
    /\ ran' = ran \cup {q} /\ panicked' = panicked \cup {q}
    /\ moving' = [moving EXCEPT ![q] = "unwind"]
    /\ UNCHANGED <<server, enabled, at, method, writers, metrics, records>>

-----------------------------------------------------------------------------
(* The way out. *)

\* What RequestMetrics, RequestAudit and RequestLogger do after next.ServeHTTP.
CountRequest(q) ==
    IF Layer(q) = "RequestMetrics"
    THEN inFlight' = inFlight - 1 /\ counted' = [counted EXCEPT ![q] = StatusCode(q)]
    ELSE UNCHANGED <<inFlight, counted>>

\* The record is handed to StoreRequestAudit.  Whether that keeps it is the
\* subject of AsyncAudit: an error is only logged.
AuditRequest(q) ==
    audited' = IF Layer(q) = "RequestAudit" THEN [audited EXCEPT ![q] = StatusCode(q)] ELSE audited

LogRequest(q) ==
    logged' = IF Layer(q) = "RequestLogger" THEN [logged EXCEPT ![q] = StatusCode(q)] ELSE logged

\* A layer's next.ServeHTTP has returned; net/http sends 200 if nothing was written.
LeaveLayer(q) ==
    /\ moving[q] = "out" /\ Climb(q)
    /\ CountRequest(q) /\ AuditRequest(q) /\ LogRequest(q)
    /\ sent' = IF at[q] = 1 /\ sent[q] = 0 THEN [sent EXCEPT ![q] = 200] ELSE sent
    /\ UNCHANGED <<server, enabled, method, observed, rejected, recovered, history>>

\* Mutant: the gauge is decremented by the code a panic skips.
UnwindNotDeferred(q) ==
    /\ moving[q] = "unwind"
    /\ Layer(q) # "Recovery"
    /\ Outward(q)
    /\ UNCHANGED <<server, enabled, moving, method, writers, metrics, records, history>>

\* A panic skips everything but what is deferred.
Unwind(q) ==
    /\ moving[q] = "unwind"
    /\ Layer(q) # "Recovery"
    /\ Outward(q)
    /\ inFlight' = IF Layer(q) = "RequestMetrics" THEN inFlight - 1 ELSE inFlight
    /\ UNCHANGED <<server, enabled, moving, method, writers, counted, rejected, recovered, records, history>>

\* Recovery counts with the request it was given and answers on the writer it
\* was given, which no layer inside it observes.
Recover(q) ==
    /\ moving[q] = "unwind"
    /\ Layer(q) = "Recovery"
    /\ recovered' = IF CarriesMetrics(at[q]) THEN recovered + 1 ELSE recovered
    /\ sent' = [sent EXCEPT ![q] = IF @ = 0 THEN 500 ELSE @]
    /\ Climb(q)
    /\ UNCHANGED <<server, enabled, method, observed, inFlight, counted, rejected, records, history>>

Done == (\A q \in Requests : moving[q] = "done") /\ UNCHANGED vars

Next == Done \/ \E q \in Requests :
    \/ Arrive(q) \/ PassOn(q) \/ EnterMetrics(q) \/ CORS(q) \/ CSRF(q) \/ RateLimit(q)
    \/ Write(q) \/ Return(q) \/ Panic(q)
    \/ LeaveLayer(q) \/ Unwind(q) \/ Recover(q)

Spec == Init /\ [][Next]_vars

-----------------------------------------------------------------------------
(* Properties. *)

\* The gauge counts the requests inside the metrics layer, panics included.
Inside(q) == \E m \in Present :
    /\ FullChain[m] = "RequestMetrics"
    /\ \/ moving[q] = "in" /\ at[q] > m
       \/ moving[q] \in {"out", "unwind"} /\ at[q] >= m

InFlightIsExact == inFlight = Cardinality({q \in Requests : Inside(q)})

\* Metrics, log line and the record handed to the audit repository all hold
\* the status that the client of the request was sent, and only a panic can keep any of them from being written.
RecordsAgree ==
    \A q \in Requests : moving[q] = "done" =>
        /\ {counted[q], audited[q], logged[q]} \subseteq {0, sent[q]}
        /\ q \notin panicked =>
               /\ counted[q] # 0
               /\ "RequestAudit" \in enabled => audited[q] # 0
               /\ "RequestLogger" \in enabled => logged[q] # 0

\* A request that a safety layer rejects never reaches the application, and
\* it is counted.
RejectionsAreFinal ==
    rejected = Cardinality({q \in Requests \ ran : sent[q] \in {403, 429, 503}})

\* A request whose handler panicked shows in the metrics or, when auditing is
\* on, in the audit trail.
PanicsLeaveATrace ==
    \A q \in panicked : moving[q] = "done" /\ "RequestAudit" \in enabled =>
        counted[q] # 0 \/ audited[q] # 0 \/ recovered > 0
=============================================================================
