---------------------------- MODULE WeatherLookup ----------------------------
(***************************************************************************)
(* Asking for the weather of a place (weather.Service.GetCurrent): a       *)
(* geocoding and then a forecast exchange under one deadline.  An exchange *)
(* is one Do of net/http's client, which follows redirects: each of its    *)
(* requests makes a round trip through the instrumented transport of       *)
(* httpclient, which counts it in flight and writes one audit record when  *)
(* its body has been read, failed or closed.                               *)
(*                                                                         *)
(* Bodies are counted in chunks.  Timers are prompt: time does not advance *)
(* while a lookup whose deadline has passed is still pending.              *)
(***************************************************************************)
EXTENDS Integers, Sequences, FiniteSets, SequencesExt

CONSTANTS
    Lookups,       \* lookups in progress at a time
    Timeout,       \* API_WEATHER_TIMEOUT, in ticks
    MaxLength,     \* bound: chunks of a body
    ReadLimit,     \* maxResponseBodyBytes: what decodeAndDrainJSON reads at most
    CaptureLimit,  \* maxBodyBytes: what of a body the transport keeps for the record
    MaxRequests,   \* net/http: the requests of one Do at most
    SlurpLimit     \* net/http: what Do reads of a redirect's body at most

ASSUME LimitsAssumption ==
    /\ IsFiniteSet(Lookups)
    /\ Timeout \in Nat \ {0}
    /\ MaxLength \in Nat /\ ReadLimit \in Nat \ {0} /\ CaptureLimit \in Nat
    /\ MaxRequests \in Nat \ {0} /\ SlurpLimit \in Nat \ {0}

VARIABLES
    pc,        \* pc[l]: where GetCurrent is
    call,      \* call[l]: the exchange in progress
    requests,  \* requests[l][c]: the requests of exchange c so far, redirects included
    deadline,  \* deadline[l]: ticks left
    response,  \* response[l]: status, length of the body, whether that is announced
    got,       \* got[l]: chunks of the body read
    once,      \* lookups whose present response is finalized (auditedResponseBody.once)
    outcome,   \* outcome[l]: what the lookup returns
    records,   \* records[l]: the audit records of l's exchanges
    inFlight   \* the in-flight gauge

vars == <<pc, call, requests, deadline, response, got, once, outcome, records, inFlight>>

Reading == {"decode", "drain", "discard", "slurp"}
Stages == Reading \cup {"idle", "roundTrip", "close", "closed", "ended"}
Calls == {"geocoding", "forecast"}
Outcomes == {"none", "ok", "notFound", "upstream", "decodeError", "deadline", "transportError"}
\* 302 stands for a redirect with a Location, 500 for what else is not 200.
Statuses == {0, 200, 302, 500}
Response == [status : Statuses, length : 0..MaxLength, announced : BOOLEAN]
Record == [call : Calls, status : Statuses, errorKind : {"none", "timeout", "transport"}, truncated : BOOLEAN]
NoResponse == [status |-> 0, length |-> 0, announced |-> TRUE]

TypeOK ==
    /\ pc \in [Lookups -> Stages] /\ call \in [Lookups -> Calls]
    /\ requests \in [Lookups -> [Calls -> 0..MaxRequests]]
    /\ deadline \in [Lookups -> 0..Timeout]
    /\ response \in [Lookups -> Response] /\ got \in [Lookups -> 0..MaxLength]
    /\ \A l \in Lookups : got[l] <= response[l].length
    /\ once \subseteq Lookups /\ outcome \in [Lookups -> Outcomes]
    /\ records \in [Lookups -> Seq(Record)]
    /\ inFlight \in 0..Cardinality(Lookups)

Init ==
    /\ pc = [l \in Lookups |-> "idle"] /\ call = [l \in Lookups |-> "geocoding"]
    /\ requests = [l \in Lookups |-> [c \in Calls |-> 0]]
    /\ deadline = [l \in Lookups |-> 0]
    /\ response = [l \in Lookups |-> NoResponse] /\ got = [l \in Lookups |-> 0]
    /\ once = {} /\ outcome = [l \in Lookups |-> "none"]
    /\ records = [l \in Lookups |-> <<>>] /\ inFlight = 0

Goto(l, stage) == pc' = [pc EXCEPT ![l] = stage]
Return(l, result) == outcome' = [outcome EXCEPT ![l] = result]

-----------------------------------------------------------------------------
(* The instrumented transport. *)

\* Mutant: a response that is cut off has no announced length to compare with.
CaptureTruncatedByLength(l, r, completed) ==
    IF completed THEN got[l] > CaptureLimit ELSE r.announced /\ got[l] < r.length

\* captureTruncated; http.NoBody is not captured.
CaptureTruncated(l, r, completed) ==
    \/ got[l] > CaptureLimit
    \/ ~completed /\ IF r.announced THEN got[l] < r.length ELSE got[l] > 0

\* One audit record and one decrement of the gauge.
Finalize(l, r, kind, completed) ==
    /\ records' = [records EXCEPT ![l] = Append(@,
           [call |-> call[l], status |-> r.status, errorKind |-> kind,
            truncated |-> CaptureTruncated(l, r, completed)])]
    /\ inFlight' = inFlight - 1

\* Mutant: a response is finalized again when it is closed.
FinalizeTwice(l, kind, completed) ==
    Finalize(l, response[l], kind, completed) /\ once' = once \cup {l}

\* A response is finalized when its body ends, fails or is closed, whichever is first.
FinalizeOnce(l, kind, completed) ==
    IF l \in once THEN UNCHANGED <<records, inFlight, once>>
    ELSE Finalize(l, response[l], kind, completed) /\ once' = once \cup {l}

StartRoundTrip(l, name) ==
    /\ Goto(l, "roundTrip")
    /\ call' = [call EXCEPT ![l] = name]
    /\ requests' = [requests EXCEPT ![l][name] = @ + 1]
    /\ inFlight' = inFlight + 1
    /\ got' = [got EXCEPT ![l] = 0]
    /\ response' = [response EXCEPT ![l] = NoResponse]
    /\ once' = once \ {l}
    /\ UNCHANGED records

\* What a pending operation can fail with: DeadlineExceeded needs the
\* deadline; a transport error (or the caller going away) needs nothing.
Kinds(l) == {"transport"} \cup IF deadline[l] = 0 THEN {"timeout"} ELSE {}

\* Mutant: a failed exchange stays in flight.
RoundTripFailsUncounted(l) ==
    /\ pc[l] = "roundTrip"
    /\ \E kind \in Kinds(l) : Return(l, IF kind = "timeout" THEN "deadline" ELSE "transportError")
    /\ Goto(l, "ended")
    /\ UNCHANGED <<call, requests, deadline, response, got, once, records, inFlight>>

RoundTripFails(l) ==
    /\ pc[l] = "roundTrip"
    /\ \E kind \in Kinds(l) :
           /\ Return(l, IF kind = "timeout" THEN "deadline" ELSE "transportError")
           /\ Finalize(l, NoResponse, kind, FALSE)
    /\ Goto(l, "ended")
    /\ UNCHANGED <<call, requests, deadline, response, got, once>>

\* What Do makes of a redirect: it goes on unless this was its last request.
Followed(l) == IF requests[l][call[l]] < MaxRequests THEN "none" ELSE "transportError"

\* A redirect is dropped if its Location cannot be used, or when some of its
\* body has been read unless that is known to be long.
Redirect(l, r) ==
    \/ Goto(l, "close") /\ Return(l, "transportError")
    \/ IF r.announced /\ r.length > SlurpLimit
       THEN Goto(l, "close") /\ Return(l, Followed(l))
       ELSE Goto(l, "slurp") /\ UNCHANGED outcome

\* Headers arrive.  An announced empty body is http.NoBody: it is finalized
\* at once and left unwrapped.
RoundTripReturns(l) ==
    /\ pc[l] = "roundTrip"
    /\ \E r \in Response :
           /\ response' = [response EXCEPT ![l] = r]
           /\ \/ r.status = 200 /\ Goto(l, "decode") /\ UNCHANGED outcome
              \/ r.status = 302 /\ Redirect(l, r)
              \/ r.status = 500 /\ Goto(l, "discard") /\ UNCHANGED outcome
           /\ IF r.announced /\ r.length = 0
              THEN Finalize(l, r, "none", FALSE) /\ once' = once \cup {l}
              ELSE UNCHANGED <<records, inFlight, once>>
    /\ UNCHANGED <<call, requests, deadline, got>>

-----------------------------------------------------------------------------
(* The weather client. *)

Begin(l) ==
    /\ pc[l] = "idle"
    /\ deadline' = [deadline EXCEPT ![l] = Timeout]
    /\ StartRoundTrip(l, "geocoding")
    /\ UNCHANGED outcome

LimitReached(l) ==
    \/ pc[l] \in {"decode", "drain"} /\ got[l] = ReadLimit
    \/ pc[l] = "slurp" /\ got[l] = SlurpLimit

\* The end of a body of announced length comes with its last chunk.
AllHere(l) == response[l].announced /\ got[l] = response[l].length

\* A chunk that completes the JSON value lets the decoder go on to drain the rest.
ReadChunk(l) ==
    /\ pc[l] \in Reading /\ got[l] < response[l].length /\ ~LimitReached(l)
    /\ got' = [got EXCEPT ![l] = @ + 1]
    /\ Goto(l, pc[l]) \/ (pc[l] = "decode" /\ Goto(l, "drain"))
    /\ UNCHANGED <<call, requests, deadline, response, once, outcome, records, inFlight>>

\* What follows when the body cannot be read on; io.Copy's errors are ignored.
Broken(l) ==
    IF pc[l] = "discard" THEN "upstream" ELSE IF pc[l] = "slurp" THEN Followed(l) ELSE "decodeError"

\* What follows the end of the body or of what is read of it: a payload may
\* be usable, lack a field, or (geocoding) name no place.
Concluded(l) ==
    IF pc[l] # "drain" THEN {Broken(l)}
    ELSE {"ok", "decodeError"} \cup IF call[l] = "geocoding" THEN {"notFound"} ELSE {}

\* Mutant: the end of the body is recorded as an error.
ReadEndAsError(l) ==
    /\ pc[l] \in Reading
    /\ IF LimitReached(l) /\ ~AllHere(l)
       THEN UNCHANGED <<once, records, inFlight>>
       ELSE got[l] = response[l].length /\ FinalizeOnce(l, "transport", TRUE)
    /\ \E result \in Concluded(l) : Return(l, result)
    /\ Goto(l, "close")
    /\ UNCHANGED <<call, requests, deadline, response, got>>

ReadEnd(l) ==
    /\ pc[l] \in Reading
    /\ IF LimitReached(l) /\ ~AllHere(l)
       THEN UNCHANGED <<once, records, inFlight>>
       ELSE got[l] = response[l].length /\ FinalizeOnce(l, "none", TRUE)
    /\ \E result \in Concluded(l) : Return(l, result)
    /\ Goto(l, "close")
    /\ UNCHANGED <<call, requests, deadline, response, got>>

\* The decoder meets malformed JSON before the end.
Malformed(l) ==
    /\ pc[l] = "decode" /\ got[l] > 0
    /\ Return(l, "decodeError")
    /\ Goto(l, "close")
    /\ UNCHANGED <<call, requests, deadline, response, got, once, records, inFlight>>

\* Mutant: the deadline covers the headers, not the body.
ReadFailsNoDeadline(l) ==
    /\ pc[l] \in Reading /\ ~AllHere(l) /\ ~LimitReached(l) /\ deadline[l] > 0
    /\ FinalizeOnce(l, "transport", FALSE)
    /\ Return(l, Broken(l))
    /\ Goto(l, "close")
    /\ UNCHANGED <<call, requests, deadline, response, got>>

\* Reading fails, at the deadline or before.
ReadFails(l) ==
    /\ pc[l] \in Reading /\ ~AllHere(l) /\ ~LimitReached(l)
    /\ \E kind \in Kinds(l) : FinalizeOnce(l, kind, FALSE)
    /\ Return(l, Broken(l))
    /\ Goto(l, "close")
    /\ UNCHANGED <<call, requests, deadline, response, got>>

\* The body is closed: by Do before it follows a redirect, else by the caller's
\* defer (of a geocoding exchange: before the forecast).
Close(l) ==
    /\ pc[l] = "close"
    /\ FinalizeOnce(l, "none", FALSE)
    /\ Goto(l, IF outcome[l] = "none" \/ (call[l] = "geocoding" /\ outcome[l] = "ok")
               THEN "closed" ELSE "ended")
    /\ UNCHANGED <<got, call, requests, deadline, response, outcome>>

\* Do sends its next request, though the deadline may have passed.
FollowRedirect(l) ==
    /\ pc[l] = "closed" /\ outcome[l] = "none"
    /\ StartRoundTrip(l, call[l])
    /\ UNCHANGED <<deadline, outcome>>

BeginForecast(l) ==
    /\ pc[l] = "closed" /\ outcome[l] = "ok"
    /\ StartRoundTrip(l, "forecast")
    /\ Return(l, "none")
    /\ UNCHANGED deadline

Pending(l) == pc[l] \notin {"idle", "ended"}

Tick ==
    /\ \E l \in Lookups : Pending(l)
    /\ \A l \in Lookups : Pending(l) => deadline[l] > 0
    /\ deadline' = [l \in Lookups |-> IF Pending(l) THEN deadline[l] - 1 ELSE deadline[l]]
    /\ UNCHANGED <<pc, call, requests, response, got, once, outcome, records, inFlight>>

Done == (\A l \in Lookups : pc[l] = "ended") /\ UNCHANGED vars

Next == Tick \/ Done \/ \E l \in Lookups :
    \/ Begin(l) \/ RoundTripFails(l) \/ RoundTripReturns(l)
    \/ ReadChunk(l) \/ ReadEnd(l) \/ Malformed(l) \/ ReadFails(l)
    \/ Close(l) \/ FollowRedirect(l) \/ BeginForecast(l)

Spec == Init /\ [][Next]_vars

\* Time passes, a pending call returns at its deadline at the latest, and the
\* client runs; the provider owes nothing.
FairSpec == Spec /\ WF_vars(Tick) /\ \A l \in Lookups :
    /\ WF_vars(deadline[l] = 0 /\ (RoundTripFails(l) \/ ReadFails(l)))
    /\ WF_vars((LimitReached(l) \/ AllHere(l)) /\ ReadEnd(l))
    /\ WF_vars(Close(l)) /\ WF_vars(FollowRedirect(l)) /\ WF_vars(BeginForecast(l))

-----------------------------------------------------------------------------
(* What the callers answer. *)

NoteWeatherError(result) ==
    CASE result = "notFound" -> 422
      [] result \in {"upstream", "decodeError"} -> 502
      [] result = "deadline" -> 504
      [] OTHER -> 502

-----------------------------------------------------------------------------
(* Properties. *)

\* Each round trip is finalized exactly once, however it ends and whichever
\* redirects it is one of: the gauge counts those begun and not yet finalized,
\* and a lookup that has ended has one audit record for each request it sent,
\* in order.
FinalizedOnce ==
    /\ inFlight = Cardinality({l \in Lookups :
           pc[l] = "roundTrip" \/ (pc[l] \in Reading \cup {"close"} /\ l \notin once)})
    /\ \A l \in Lookups : pc[l] = "ended" =>
           LET geocoding == requests[l]["geocoding"]
           IN  [i \in DOMAIN records[l] |-> records[l][i].call]
                   = [i \in 1..(geocoding + requests[l]["forecast"]) |->
                          IF i <= geocoding THEN "geocoding" ELSE "forecast"]

Clean(record) == record.status = 200 /\ record.errorKind = "none"

\* What the record of an exchange's last round trip says of its result.
Agrees(result, record) ==
    /\ result \in {"ok", "notFound"} => Clean(record)
    /\ result = "decodeError" => record.status = 200
    /\ result = "upstream" => record.status = 500
    /\ result = "deadline" => record.status = 0 /\ record.errorKind = "timeout"
    /\ result = "transportError" =>
           record.status = 302 \/ (record.status = 0 /\ record.errorKind = "transport")

\* The audit trail agrees with what the lookup returned: the last record tells
\* why, the geocoding exchange before a forecast ended well, and whatever else
\* was answered was a redirect.
AuditAgreesWithOutcome ==
    \A l \in Lookups : pc[l] = "ended" =>
        /\ Agrees(outcome[l], Last(records[l]))
        /\ \A i \in 1..(Len(records[l]) - 1) :
               IF records[l][i].call = records[l][i + 1].call
               THEN records[l][i].status = 302 ELSE Clean(records[l][i])

\* A record whose response body is not marked as truncated holds all of it;
\* only a body of unannounced length that broke before its first byte escapes.
TruncationIsMarked ==
    \A l \in once : ~Last(records[l]).truncated =>
        \/ got[l] = response[l].length /\ got[l] <= CaptureLimit
        \/ ~response[l].announced /\ got[l] = 0

\* A lookup that has begun ends, though the provider may fall silent at any point.
LookupEnds == \A l \in Lookups : Pending(l) ~> pc[l] = "ended"

\* When the last round trip timed out on the way to an answer, the client is
\* told 504.
TimeoutIsGatewayTimeout ==
    \A l \in Lookups :
        pc[l] = "ended" /\ Last(records[l]).errorKind = "timeout" /\ Last(records[l]).status \in {0, 200}
        => NoteWeatherError(outcome[l]) = 504
=============================================================================
