------------------------- MODULE WeatherLookupProofs -------------------------
(***************************************************************************)
(* What WeatherLookup promises of its records, for every finite set of     *)
(* lookups and every limit.                                                *)
(***************************************************************************)
EXTENDS WeatherLookup, FiniteSetTheorems, TLAPS

-----------------------------------------------------------------------------
(* The parts of the inductive invariant. *)

\* TypeOK but for the gauge, which the invariant defines.
ShapeInv ==
    /\ pc \in [Lookups -> Stages] /\ call \in [Lookups -> Calls]
    /\ requests \in [Lookups -> [Calls -> 0..MaxRequests]]
    /\ deadline \in [Lookups -> 0..Timeout]
    /\ response \in [Lookups -> Response] /\ got \in [Lookups -> 0..MaxLength]
    /\ \A l \in Lookups : got[l] <= response[l].length
    /\ once \subseteq Lookups /\ outcome \in [Lookups -> Outcomes]
    /\ records \in [Lookups -> Seq(Record)]
    /\ inFlight \in Int

\* A round trip of l is begun and not finalized.
Open(l) == pc[l] = "roundTrip" \/ (pc[l] \in Reading \cup {"close"} /\ l \notin once)

GaugeInv == inFlight = Cardinality({l \in Lookups : Open(l)})

Latest(l) == records[l][Len(records[l])]

\* The requests of the two exchanges.
Places(l) == requests[l]["geocoding"]
Forecasts(l) == requests[l]["forecast"]

\* The records are those of the geocoding exchange and then those of the
\* forecast; what was followed by another request of its exchange was a
\* redirect, and what was followed by the forecast ended well.
InOrder(l) ==
    \A i \in 1..Len(records[l]) :
        /\ records[l][i].call = IF i <= Places(l) THEN "geocoding" ELSE "forecast"
        /\ i < Places(l) + Forecasts(l) /\ i # Places(l) => records[l][i].status = 302
        /\ i = Places(l) /\ Forecasts(l) > 0 => Clean(records[l][i])

\* One record for each round trip that is finalized.
RecordsInv(l) ==
    /\ Len(records[l]) + (IF Open(l) THEN 1 ELSE 0) = Places(l) + Forecasts(l)
    /\ InOrder(l)

\* Which exchange has sent requests, and whether one more is left to it.
RequestsInv(l) ==
    /\ call[l] = "geocoding" => Forecasts(l) = 0
    /\ call[l] = "forecast" => Places(l) > 0 /\ Forecasts(l) > 0
    /\ pc[l] = "idle" => call[l] = "geocoding" /\ Places(l) = 0
    /\ pc[l] # "idle" => requests[l][call[l]] > 0
    /\ pc[l] \in {"close", "closed"} /\ outcome[l] = "none" => requests[l][call[l]] < MaxRequests

\* The results an answer can lead to.
Results(status) ==
    IF status = 200 THEN {"ok", "notFound", "decodeError"}
    ELSE IF status = 302 THEN {"none", "transportError"}
    ELSE IF status = 500 THEN {"upstream"} ELSE {}

\* Where the lookup is, and which responses are finalized there.
StageInv(l) ==
    /\ pc[l] \in {"idle", "roundTrip"} => l \notin once
    /\ pc[l] = "roundTrip" => got[l] = 0
    /\ pc[l] = "closed" => l \in once /\ (outcome[l] = "ok" => call[l] = "geocoding")
    /\ pc[l] = "closed" => outcome[l] \in {"none", "ok"}
    /\ pc[l] \in {"idle", "roundTrip"} \cup Reading => outcome[l] = "none"
    /\ pc[l] = "close" => outcome[l] \in Results(response[l].status)
    /\ pc[l] \in {"decode", "drain"} => response[l].status = 200
    /\ pc[l] = "discard" => response[l].status = 500
    /\ pc[l] = "slurp" => response[l].status = 302
    /\ pc[l] \in Reading /\ l \in once => response[l].announced /\ response[l].length = 0

\* What the latest record says of the response it is of, and of the outcome.
OutcomeInv(l) ==
    /\ pc[l] \in Reading \cup {"close"} /\ l \in once => Latest(l).status = response[l].status
    /\ pc[l] \in Reading /\ l \in once => Latest(l).errorKind = "none"
    /\ pc[l] = "close" /\ outcome[l] \in {"ok", "notFound"} /\ l \in once =>
           Latest(l).errorKind = "none"
    /\ pc[l] \in {"closed", "ended"} => Agrees(outcome[l], Latest(l))
    /\ pc[l] = "closed" /\ outcome[l] = "none" => Latest(l).status = 302

\* TruncationIsMarked, of one lookup.
TruncationInv(l) ==
    l \in once /\ ~Latest(l).truncated =>
        \/ got[l] = response[l].length /\ got[l] <= CaptureLimit
        \/ ~response[l].announced /\ got[l] = 0

LookupInv(l) ==
    RecordsInv(l) /\ RequestsInv(l) /\ StageInv(l) /\ OutcomeInv(l) /\ TruncationInv(l)

IInv == ShapeInv /\ GaugeInv /\ \A l \in Lookups : LookupInv(l)

-----------------------------------------------------------------------------
(* Steps of one lookup. *)

\* Sets that differ in x alone differ in size by x.
LEMMA SizesDiffer ==
    ASSUME NEW S, IsFiniteSet(S), NEW A \in SUBSET S, NEW B \in SUBSET S, NEW x,
           A \ {x} = B \ {x}
    PROVE  /\ Cardinality(A) \in Nat /\ Cardinality(B) \in Nat
           /\ Cardinality(B) + (IF x \in A THEN 1 ELSE 0)
                  = Cardinality(A) + (IF x \in B THEN 1 ELSE 0)
<1>1. IsFiniteSet(A) /\ IsFiniteSet(B) BY FS_Subset
<1>2. Cardinality(A) \in Nat /\ Cardinality(B) \in Nat BY <1>1, FS_CardinalityType
<1>3. Cardinality(A \ {x}) = IF x \in A THEN Cardinality(A) - 1 ELSE Cardinality(A)
      BY <1>1, FS_RemoveElement
<1>4. Cardinality(B \ {x}) = IF x \in B THEN Cardinality(B) - 1 ELSE Cardinality(B)
      BY <1>1, FS_RemoveElement
<1> QED BY <1>2, <1>3, <1>4

\* A step of l alone.
Alone(l) ==
    \A m \in Lookups \ {l} :
        /\ pc'[m] = pc[m] /\ call'[m] = call[m] /\ requests'[m] = requests[m]
        /\ response'[m] = response[m]
        /\ got'[m] = got[m] /\ outcome'[m] = outcome[m] /\ records'[m] = records[m]
        /\ m \in once' <=> m \in once

\* What the records say stays as long as they and the requests do.
LEMMA OrderKept ==
    ASSUME NEW m, records'[m] = records[m], requests'[m] = requests[m]
    PROVE  /\ Latest(m)' = Latest(m) /\ Places(m)' = Places(m) /\ Forecasts(m)' = Forecasts(m)
           /\ InOrder(m)' <=> InOrder(m)
<1>1. Latest(m)' = Latest(m) /\ Places(m)' = Places(m) /\ Forecasts(m)' = Forecasts(m)
      BY DEF Latest, Places, Forecasts
<1>2. InOrder(m)' <=> InOrder(m) BY <1>1 DEF InOrder, Clean
<1> QED BY <1>1, <1>2

\* Such a step keeps the invariant if it does for l and the gauge moves with l.
LEMMA AloneKeepsInvariant ==
    ASSUME IInv, NEW l \in Lookups, Alone(l), ShapeInv', LookupInv(l)',
           inFlight' + (IF Open(l) THEN 1 ELSE 0) = inFlight + (IF Open(l)' THEN 1 ELSE 0)
    PROVE  IInv'
<1> USE DEF IInv, Alone
<1>1. \A m \in Lookups : LookupInv(m)'
  <2> SUFFICES ASSUME NEW m \in Lookups, m # l PROVE LookupInv(m)' OBVIOUS
  <2>1. LookupInv(m) OBVIOUS
  <2>2. /\ Open(m)' <=> Open(m)
        /\ Latest(m)' = Latest(m) /\ Places(m)' = Places(m) /\ Forecasts(m)' = Forecasts(m)
        /\ InOrder(m)' <=> InOrder(m)
        BY OrderKept DEF Open
  <2>3. RecordsInv(m)' BY <2>1, <2>2 DEF LookupInv, RecordsInv
  <2>4. RequestsInv(m)' BY <2>1, <2>2 DEF LookupInv, RequestsInv
  <2>5. StageInv(m)' BY <2>1, <2>2 DEF LookupInv, StageInv
  <2>6. OutcomeInv(m)'
    <3>1. OutcomeInv(m) BY <2>1 DEF LookupInv
    <3>2. Agrees(outcome[m], Latest(m))' <=> Agrees(outcome[m], Latest(m))
          BY <2>2 DEF Agrees, Clean
    <3> QED BY <2>2, <3>1, <3>2 DEF OutcomeInv
  <2>7. TruncationInv(m)' BY <2>1, <2>2 DEF LookupInv, TruncationInv
  <2> QED BY <2>3, <2>4, <2>5, <2>6, <2>7 DEF LookupInv
<1>2. GaugeInv'
  <2> DEFINE A == {m \in Lookups : Open(m)}
             B == {m \in Lookups : Open(m)'}
  <2>1. \A m \in Lookups \ {l} : Open(m)' <=> Open(m) BY DEF Open
  <2>2. A \in SUBSET Lookups /\ B \in SUBSET Lookups /\ A \ {l} = B \ {l} BY <2>1
  <2>3. l \in A <=> Open(l) OBVIOUS
  <2>4. l \in B <=> Open(l)' OBVIOUS
  <2>5. Cardinality(A) \in Nat /\ Cardinality(B) \in Nat /\
        Cardinality(B) + (IF l \in A THEN 1 ELSE 0)
            = Cardinality(A) + (IF l \in B THEN 1 ELSE 0)
        <3> HIDE DEF A, B
        <3> QED BY <2>2, SizesDiffer, LimitsAssumption
  <2>6. inFlight = Cardinality(A) BY DEF GaugeInv
  <2>7. inFlight' = Cardinality(B)
        <3> HIDE DEF A, B
        <3> QED BY <2>3, <2>4, <2>5, <2>6 DEF ShapeInv
  <2> QED BY <2>7 DEF GaugeInv
<1> QED BY <1>1, <1>2

\* What appending a record does.
LEMMA AppendByIndex ==
    ASSUME NEW q \in Seq(Record), NEW x \in Record, NEW new, new = Append(q, x)
    PROVE  /\ new \in Seq(Record)
           /\ Len(new) = Len(q) + 1 /\ Len(q) \in Nat
           /\ new[Len(q) + 1] = x
           /\ \A i \in 1..Len(q) : new[i] = q[i]
OBVIOUS

\* What finalizing a round trip does.
LEMMA FinalizeAppends ==
    ASSUME ShapeInv, NEW l \in Lookups, NEW r \in Response, NEW kind \in {"none", "timeout", "transport"},
           NEW completed \in BOOLEAN, Finalize(l, r, kind, completed)
    PROVE  /\ records' \in [Lookups -> Seq(Record)]
           /\ \A m \in Lookups \ {l} : records'[m] = records[m]
           /\ Len(records'[l]) = Len(records[l]) + 1 /\ Len(records[l]) \in Nat
           /\ \A i \in 1..Len(records[l]) : records'[l][i] = records[l][i]
           /\ Latest(l)'.call = call[l] /\ Latest(l)'.status = r.status
           /\ Latest(l)'.errorKind = kind
           /\ Latest(l)'.truncated = CaptureTruncated(l, r, completed)
           /\ Latest(l)' = records'[l][Len(records[l]) + 1]
           /\ inFlight' = inFlight - 1
<1> DEFINE record == [call |-> call[l], status |-> r.status, errorKind |-> kind,
                      truncated |-> CaptureTruncated(l, r, completed)]
<1>1. record \in Record BY DEF ShapeInv, Record, Response, CaptureTruncated
<1>2. records' = [records EXCEPT ![l] = Append(@, record)] /\ inFlight' = inFlight - 1
      BY DEF Finalize
<1>3. records[l] \in Seq(Record) BY DEF ShapeInv
<1>4. records'[l] = Append(records[l], record) BY <1>2 DEF ShapeInv
<1>5. /\ record.call = call[l] /\ record.status = r.status /\ record.errorKind = kind
      /\ record.truncated = CaptureTruncated(l, r, completed)
      OBVIOUS
<1> HIDE DEF record
<1>6. /\ records'[l] \in Seq(Record)
      /\ Len(records'[l]) = Len(records[l]) + 1 /\ Len(records[l]) \in Nat
      /\ records'[l][Len(records[l]) + 1] = record
      /\ \A i \in 1..Len(records[l]) : records'[l][i] = records[l][i]
      BY <1>1, <1>3, <1>4, AppendByIndex
<1>7. Latest(l)' = record BY <1>4, <1>6 DEF Latest
<1>8. records' \in [Lookups -> Seq(Record)] BY <1>2, <1>4, <1>6 DEF ShapeInv
<1>9. \A m \in Lookups \ {l} : records'[m] = records[m] BY <1>2 DEF ShapeInv
<1> QED BY <1>2, <1>4, <1>5, <1>6, <1>7, <1>8, <1>9

\* The requests are numbers.
LEMMA RequestsAreNumbers ==
    ASSUME ShapeInv, NEW l \in Lookups
    PROVE  /\ Places(l) \in 0..MaxRequests /\ Forecasts(l) \in 0..MaxRequests
           /\ call[l] \in {"geocoding", "forecast"}
           /\ requests[l][call[l]] = IF call[l] = "geocoding" THEN Places(l) ELSE Forecasts(l)
           /\ MaxRequests \in Nat \ {0}
<1>1. requests[l] \in [Calls -> 0..MaxRequests] /\ call[l] \in Calls BY DEF ShapeInv
<1> QED BY <1>1, LimitsAssumption DEF Calls, Places, Forecasts

\* The record of the round trip that was open takes its place at the end.
LEMMA RecordAdded ==
    ASSUME ShapeInv, NEW l \in Lookups, RecordsInv(l), RequestsInv(l), Open(l),
           UNCHANGED requests,
           Len(records'[l]) = Len(records[l]) + 1, Len(records[l]) \in Nat,
           \A i \in 1..Len(records[l]) : records'[l][i] = records[l][i],
           records'[l][Len(records[l]) + 1].call = call[l]
    PROVE  /\ Len(records'[l]) = Places(l)' + Forecasts(l)'
           /\ InOrder(l)'
<1>1. /\ Places(l) \in Nat /\ Forecasts(l) \in Nat
      /\ \/ call[l] = "geocoding" /\ Forecasts(l) = 0
         \/ call[l] = "forecast" /\ Forecasts(l) > 0
      BY RequestsAreNumbers DEF RequestsInv
<1>2. Places(l)' = Places(l) /\ Forecasts(l)' = Forecasts(l) BY DEF Places, Forecasts
<1>3. Len(records[l]) + 1 = Places(l) + Forecasts(l) BY DEF RecordsInv
<1>4. ASSUME NEW i \in 1..Len(records'[l])
      PROVE  /\ records'[l][i].call = IF i <= Places(l) THEN "geocoding" ELSE "forecast"
             /\ i < Places(l) + Forecasts(l) /\ i # Places(l) => records'[l][i].status = 302
             /\ i = Places(l) /\ Forecasts(l) > 0 => Clean(records'[l][i])
  <2>1. CASE i \in 1..Len(records[l])
    <3>1. records'[l][i] = records[l][i] BY <2>1
    <3> QED BY <2>1, <3>1 DEF RecordsInv, InOrder
  <2>2. CASE i = Len(records[l]) + 1
    <3>1. i = Places(l) + Forecasts(l) BY <1>3, <2>2
    <3>2. records'[l][i].call = call[l] BY <2>2
    <3>3. i <= Places(l) <=> Forecasts(l) = 0 BY <1>1, <3>1
    <3> QED BY <1>1, <3>1, <3>2, <3>3
  <2> QED BY <2>1, <2>2
<1>5. InOrder(l)' BY <1>2, <1>4 DEF InOrder, Clean
<1> QED BY <1>2, <1>3, <1>5

\* A round trip that is finalized, now or before, has its record, which says
\* what broke it and whether the capture is whole.
LEMMA FinalizeOnceSettles ==
    ASSUME IInv, NEW l \in Lookups, pc[l] \in Reading \cup {"close"},
           NEW kind \in {"none", "timeout", "transport"}, NEW completed \in BOOLEAN,
           completed => got[l] = response[l].length,
           FinalizeOnce(l, kind, completed), UNCHANGED <<call, requests, response, got>>
    PROVE  /\ records' \in [Lookups -> Seq(Record)]
           /\ \A m \in Lookups \ {l} : records'[m] = records[m]
           /\ once' = once \cup {l}
           /\ Len(records'[l]) = Places(l)' + Forecasts(l)'
           /\ InOrder(l)'
           /\ TruncationInv(l)'
           /\ l \in once => Latest(l)' = Latest(l)
           /\ l \notin once => Latest(l)'.status = response[l].status /\ Latest(l)'.errorKind = kind
           /\ inFlight' = inFlight - (IF Open(l) THEN 1 ELSE 0)
<1>1. ShapeInv /\ RecordsInv(l) /\ RequestsInv(l) /\ TruncationInv(l) BY DEF IInv, LookupInv
<1>2. Open(l) <=> l \notin once BY DEF Open, Reading
<1>3. Places(l)' = Places(l) /\ Forecasts(l)' = Forecasts(l)
      /\ Places(l) \in Nat /\ Forecasts(l) \in Nat
      BY <1>1, RequestsAreNumbers DEF Places, Forecasts
<1>4. CASE l \in once
  <2>1. records' = records /\ inFlight' = inFlight /\ once' = once BY <1>4 DEF FinalizeOnce
  <2>2. records[l] \in Seq(Record) /\ Len(records[l]) \in Nat BY <1>1 DEF ShapeInv
  <2>3. Len(records'[l]) = Places(l)' + Forecasts(l)'
    <3>1. Len(records[l]) + 0 = Places(l) + Forecasts(l) BY <1>1, <1>2, <1>4 DEF RecordsInv
    <3> QED BY <1>3, <2>1, <2>2, <3>1
  <2>4. InOrder(l)' BY <1>1, <2>1, OrderKept DEF RecordsInv
  <2>5. Latest(l)' = Latest(l) BY <2>1 DEF Latest
  <2>6. TruncationInv(l)' BY <1>1, <2>1, <2>5 DEF TruncationInv
  <2>7. inFlight' = inFlight - (IF Open(l) THEN 1 ELSE 0) BY <1>1, <1>2, <1>4, <2>1 DEF ShapeInv
  <2> QED BY <1>1, <1>4, <2>1, <2>3, <2>4, <2>5, <2>6, <2>7 DEF ShapeInv
<1>5. CASE l \notin once
  <2>1. Finalize(l, response[l], kind, completed) /\ once' = once \cup {l}
        BY <1>5 DEF FinalizeOnce
  <2>2. response[l] \in Response BY <1>1 DEF ShapeInv
  <2>3. /\ records' \in [Lookups -> Seq(Record)]
        /\ \A m \in Lookups \ {l} : records'[m] = records[m]
        /\ Len(records'[l]) = Len(records[l]) + 1 /\ Len(records[l]) \in Nat
        /\ \A i \in 1..Len(records[l]) : records'[l][i] = records[l][i]
        /\ Latest(l)'.call = call[l] /\ Latest(l)'.status = response[l].status
        /\ Latest(l)'.errorKind = kind
        /\ Latest(l)'.truncated = CaptureTruncated(l, response[l], completed)
        /\ Latest(l)' = records'[l][Len(records[l]) + 1]
        /\ inFlight' = inFlight - 1
        BY <1>1, <2>1, <2>2, FinalizeAppends
  <2>4. Len(records'[l]) = Places(l)' + Forecasts(l)' /\ InOrder(l)'
        BY <1>1, <1>2, <1>5, <2>3, RecordAdded
  <2>5. TruncationInv(l)'
    <3>1. got[l] \in Nat /\ response[l].length \in Nat /\ got[l] <= response[l].length
          /\ CaptureLimit \in Nat
          BY <1>1, <2>2, LimitsAssumption DEF ShapeInv, Response
    <3> QED BY <2>3, <3>1 DEF TruncationInv, CaptureTruncated
  <2> QED BY <1>2, <1>5, <2>1, <2>3, <2>4, <2>5
<1> QED BY <1>4, <1>5

-----------------------------------------------------------------------------
(* The steps. *)

\* What the next request leaves in order: the one before it, of the same
\* exchange, was a redirect, or it ended well and this one is for the forecast.
LEMMA RequestKeepsOrder ==
    ASSUME NEW q, NEW n \in Nat, NEW f \in Nat, Len(q) = n + f, n + f > 0 => Len(q) \in 1..Len(q),
           \A i \in 1..Len(q) :
               /\ q[i].call = IF i <= n THEN "geocoding" ELSE "forecast"
               /\ i < n + f /\ i # n => q[i].status = 302
               /\ i = n /\ f > 0 => Clean(q[i]),
           NEW n2 \in Nat, NEW f2 \in Nat,
           \/ n2 = n + 1 /\ f2 = 0 /\ f = 0 /\ (n > 0 => q[Len(q)].status = 302)
           \/ n2 = n /\ f2 = f + 1 /\ n > 0 /\ f > 0 /\ q[Len(q)].status = 302
           \/ n2 = n /\ f2 = 1 /\ f = 0 /\ n > 0 /\ Clean(q[Len(q)])
    PROVE  \A i \in 1..Len(q) :
               /\ q[i].call = IF i <= n2 THEN "geocoding" ELSE "forecast"
               /\ i < n2 + f2 /\ i # n2 => q[i].status = 302
               /\ i = n2 /\ f2 > 0 => Clean(q[i])
<1> SUFFICES ASSUME NEW i \in 1..Len(q)
             PROVE  /\ q[i].call = IF i <= n2 THEN "geocoding" ELSE "forecast"
                    /\ i < n2 + f2 /\ i # n2 => q[i].status = 302
                    /\ i = n2 /\ f2 > 0 => Clean(q[i])
    OBVIOUS
<1>1. i \in Nat /\ i <= n + f /\ (i < n + f \/ i = Len(q)) BY DEF Clean
<1>2. CASE n2 = n + 1 /\ f2 = 0 /\ f = 0 /\ (n > 0 => q[Len(q)].status = 302) BY <1>1, <1>2
<1>3. CASE n2 = n /\ f2 = f + 1 /\ n > 0 /\ f > 0 /\ q[Len(q)].status = 302 BY <1>1, <1>3
<1>4. CASE n2 = n /\ f2 = 1 /\ f = 0 /\ n > 0 /\ Clean(q[Len(q)]) BY <1>1, <1>4
<1> QED BY <1>2, <1>3, <1>4

\* A request is sent: the first, the next of a redirected exchange, or the
\* first for the forecast.
LEMMA StartKeepsInvariant ==
    ASSUME IInv, NEW l \in Lookups, NEW name \in Calls, StartRoundTrip(l, name),
           \/ pc[l] = "idle" /\ name = "geocoding"
           \/ pc[l] = "closed" /\ outcome[l] = "none" /\ name = call[l]
           \/ pc[l] = "closed" /\ outcome[l] = "ok" /\ name = "forecast",
           deadline' \in [Lookups -> 0..Timeout],
           outcome' = [outcome EXCEPT ![l] = "none"]
    PROVE  IInv'
<1> USE DEF StartRoundTrip, Goto
<1>1. ShapeInv /\ RecordsInv(l) /\ RequestsInv(l) /\ StageInv(l) /\ OutcomeInv(l)
      BY DEF IInv, LookupInv
<1>2. /\ pc'[l] = "roundTrip" /\ call'[l] = name /\ got'[l] = 0 /\ l \notin once'
      /\ records' = records /\ outcome'[l] = "none" /\ inFlight' = inFlight + 1
      BY <1>1 DEF ShapeInv
<1>3. /\ Places(l) \in 0..MaxRequests /\ Forecasts(l) \in 0..MaxRequests
      /\ call[l] \in {"geocoding", "forecast"} /\ name \in {"geocoding", "forecast"}
      /\ requests[l][call[l]] = IF call[l] = "geocoding" THEN Places(l) ELSE Forecasts(l)
      /\ MaxRequests \in Nat \ {0}
      BY <1>1, RequestsAreNumbers DEF Calls
<1>4. \/ name = "geocoding" /\ Forecasts(l) = 0 /\ Places(l) < MaxRequests
         /\ (Places(l) > 0 => pc[l] = "closed" /\ outcome[l] = "none")
      \/ name = "forecast" /\ Places(l) > 0 /\ Forecasts(l) > 0 /\ Forecasts(l) < MaxRequests
         /\ pc[l] = "closed" /\ outcome[l] = "none"
      \/ name = "forecast" /\ Places(l) > 0 /\ Forecasts(l) = 0
         /\ pc[l] = "closed" /\ outcome[l] = "ok"
      BY <1>1, <1>3 DEF RequestsInv, StageInv
<1>5. requests[l] \in [Calls -> 0..MaxRequests] BY <1>1 DEF ShapeInv
<1>6. requests[l][name] = IF name = "geocoding" THEN Places(l) ELSE Forecasts(l)
      BY <1>3 DEF Places, Forecasts
<1>7. requests[l][name] + 1 \in 1..MaxRequests BY <1>3, <1>4, <1>6
<1>8. requests'[l] = [requests[l] EXCEPT ![name] = requests[l][name] + 1]
      /\ \A m \in Lookups \ {l} : requests'[m] = requests[m]
      BY <1>1 DEF ShapeInv
<1>9. /\ Places(l)' = IF name = "geocoding" THEN Places(l) + 1 ELSE Places(l)
      /\ Forecasts(l)' = IF name = "forecast" THEN Forecasts(l) + 1 ELSE Forecasts(l)
      BY <1>3, <1>5, <1>6, <1>8 DEF Places, Forecasts, Calls
<1>10. requests' \in [Lookups -> [Calls -> 0..MaxRequests]]
  <2>1. requests'[l] \in [Calls -> 0..MaxRequests] BY <1>5, <1>7, <1>8
  <2>2. requests' = [requests EXCEPT ![l] = requests'[l]] BY <1>1 DEF ShapeInv
  <2> QED BY <1>1, <2>1, <2>2 DEF ShapeInv
<1>11. ShapeInv'
  <2>1. NoResponse \in Response /\ "none" \in Outcomes /\ "roundTrip" \in Stages
        BY LimitsAssumption DEF NoResponse, Response, Statuses, Outcomes, Stages
  <2>2. pc' \in [Lookups -> Stages] /\ call' \in [Lookups -> Calls] /\ outcome' \in [Lookups -> Outcomes]
        BY <1>1, <2>1 DEF ShapeInv
  <2>3. response' \in [Lookups -> Response] /\ got' \in [Lookups -> 0..MaxLength]
        BY <1>1, <2>1, LimitsAssumption DEF ShapeInv
  <2>4. \A m \in Lookups : got'[m] <= response'[m].length
        BY <1>1 DEF ShapeInv, NoResponse
  <2>5. once' \subseteq Lookups /\ inFlight' \in Int BY <1>1 DEF ShapeInv
  <2> QED BY <1>1, <1>2, <1>10, <2>2, <2>3, <2>4, <2>5 DEF ShapeInv
<1>12. Alone(l) BY <1>1, <1>8 DEF Alone, ShapeInv
<1>13. ~ Open(l) /\ Open(l)' BY <1>1, <1>2, <1>4 DEF Open, Reading
<1>14. Places(l)' \in Nat /\ Forecasts(l)' \in Nat /\ Places(l) \in Nat /\ Forecasts(l) \in Nat
       BY <1>3, <1>9
<1>15. Len(records[l]) = Places(l) + Forecasts(l) /\ Len(records[l]) \in Nat
       BY <1>1, <1>13, <1>14 DEF RecordsInv, ShapeInv
<1>16. RecordsInv(l)'
  <2>1. Len(records'[l]) + 1 = Places(l)' + Forecasts(l)' BY <1>2, <1>3, <1>9, <1>14, <1>15
  <2>2. /\ pc[l] = "closed" /\ outcome[l] = "none" => records[l][Len(records[l])].status = 302
        /\ pc[l] = "closed" /\ outcome[l] = "ok" => Clean(records[l][Len(records[l])])
        BY <1>1 DEF OutcomeInv, Agrees, Latest
  <2>3. \/ Places(l)' = Places(l) + 1 /\ Forecasts(l)' = 0 /\ Forecasts(l) = 0
           /\ (Places(l) > 0 => records[l][Len(records[l])].status = 302)
        \/ Places(l)' = Places(l) /\ Forecasts(l)' = Forecasts(l) + 1 /\ Places(l) > 0
           /\ Forecasts(l) > 0 /\ records[l][Len(records[l])].status = 302
        \/ Places(l)' = Places(l) /\ Forecasts(l)' = 1 /\ Forecasts(l) = 0 /\ Places(l) > 0
           /\ Clean(records[l][Len(records[l])])
        BY <1>4, <1>9, <2>2
  <2>4. \A i \in 1..Len(records[l]) :
            /\ records[l][i].call = IF i <= Places(l) THEN "geocoding" ELSE "forecast"
            /\ i < Places(l) + Forecasts(l) /\ i # Places(l) => records[l][i].status = 302
            /\ i = Places(l) /\ Forecasts(l) > 0 => Clean(records[l][i])
        BY <1>1 DEF RecordsInv, InOrder
  <2>5. \A i \in 1..Len(records[l]) :
            /\ records[l][i].call = IF i <= Places(l)' THEN "geocoding" ELSE "forecast"
            /\ i < Places(l)' + Forecasts(l)' /\ i # Places(l)' => records[l][i].status = 302
            /\ i = Places(l)' /\ Forecasts(l)' > 0 => Clean(records[l][i])
    <3> DEFINE q == records[l]  n == Places(l)  f == Forecasts(l)  n2 == Places(l)'  f2 == Forecasts(l)'
    <3>1. /\ Len(q) = n + f /\ (n + f > 0 => Len(q) \in 1..Len(q))
          /\ n \in Nat /\ f \in Nat /\ n2 \in Nat /\ f2 \in Nat
          BY <1>14, <1>15
    <3>2. \/ n2 = n + 1 /\ f2 = 0 /\ f = 0 /\ (n > 0 => q[Len(q)].status = 302)
          \/ n2 = n /\ f2 = f + 1 /\ n > 0 /\ f > 0 /\ q[Len(q)].status = 302
          \/ n2 = n /\ f2 = 1 /\ f = 0 /\ n > 0 /\ Clean(q[Len(q)])
          BY <2>3
    <3>3. \A i \in 1..Len(q) :
              /\ q[i].call = IF i <= n THEN "geocoding" ELSE "forecast"
              /\ i < n + f /\ i # n => q[i].status = 302
              /\ i = n /\ f > 0 => Clean(q[i])
          BY <2>4
    <3>4. \A i \in 1..Len(q) :
              /\ q[i].call = IF i <= n2 THEN "geocoding" ELSE "forecast"
              /\ i < n2 + f2 /\ i # n2 => q[i].status = 302
              /\ i = n2 /\ f2 > 0 => Clean(q[i])
          <4> HIDE DEF q, n, f, n2, f2
          <4> QED BY <3>1, <3>2, <3>3, RequestKeepsOrder
    <3> QED BY <3>4
  <2>6. InOrder(l)' BY <1>2, <2>5 DEF InOrder, Clean
  <2> QED BY <1>13, <2>1, <2>6 DEF RecordsInv
<1>17. RequestsInv(l)'
  <2>1. requests'[l][call'[l]] = IF name = "geocoding" THEN Places(l)' ELSE Forecasts(l)'
        BY <1>2, <1>3 DEF Places, Forecasts
  <2> QED BY <1>2, <1>3, <1>4, <1>9, <2>1 DEF RequestsInv
<1>18. StageInv(l)' BY <1>2 DEF StageInv, Reading
<1>19. OutcomeInv(l)' BY <1>2 DEF OutcomeInv, Reading
<1>20. TruncationInv(l)' BY <1>2 DEF TruncationInv
<1>21. inFlight' + (IF Open(l) THEN 1 ELSE 0) = inFlight + (IF Open(l)' THEN 1 ELSE 0)
       BY <1>1, <1>2, <1>13 DEF ShapeInv
<1> QED BY <1>11, <1>12, <1>16, <1>17, <1>18, <1>19, <1>20, <1>21, AloneKeepsInvariant DEF LookupInv

LEMMA BeginKeepsInvariant ==
    ASSUME IInv, NEW l \in Lookups, Begin(l)
    PROVE  IInv'
<1>1. outcome' = [outcome EXCEPT ![l] = "none"]
  <2>1. outcome' = outcome /\ outcome \in [Lookups -> Outcomes] /\ outcome[l] = "none"
        BY DEF Begin, IInv, ShapeInv, LookupInv, StageInv
  <2> QED BY <2>1
<1>2. deadline' \in [Lookups -> 0..Timeout] BY LimitsAssumption DEF Begin, IInv, ShapeInv
<1>3. "geocoding" \in Calls /\ pc[l] = "idle" /\ StartRoundTrip(l, "geocoding") BY DEF Calls, Begin
<1> QED BY <1>1, <1>2, <1>3, StartKeepsInvariant

LEMMA FollowRedirectKeepsInvariant ==
    ASSUME IInv, NEW l \in Lookups, FollowRedirect(l)
    PROVE  IInv'
<1>1. outcome' = [outcome EXCEPT ![l] = "none"]
  <2>1. outcome' = outcome /\ outcome \in [Lookups -> Outcomes] /\ outcome[l] = "none"
        BY DEF FollowRedirect, IInv, ShapeInv
  <2> QED BY <2>1
<1>2. deadline' \in [Lookups -> 0..Timeout] /\ call[l] \in Calls BY DEF FollowRedirect, IInv, ShapeInv
<1>3. pc[l] = "closed" /\ outcome[l] = "none" /\ StartRoundTrip(l, call[l]) BY DEF FollowRedirect
<1> QED BY <1>1, <1>2, <1>3, StartKeepsInvariant

LEMMA BeginForecastKeepsInvariant ==
    ASSUME IInv, NEW l \in Lookups, BeginForecast(l)
    PROVE  IInv'
<1>1. outcome' = [outcome EXCEPT ![l] = "none"] /\ deadline' \in [Lookups -> 0..Timeout]
      BY DEF BeginForecast, Return, IInv, ShapeInv
<1>2. "forecast" \in Calls /\ pc[l] = "closed" /\ outcome[l] = "ok" /\ StartRoundTrip(l, "forecast")
      BY DEF Calls, BeginForecast
<1> QED BY <1>1, <1>2, StartKeepsInvariant

\* The kinds an operation can fail with are kinds of records.
LEMMA KindsAreKinds == \A l : Kinds(l) \subseteq {"timeout", "transport"}
BY DEF Kinds

LEMMA RoundTripFailsKeepsInvariant ==
    ASSUME IInv, NEW l \in Lookups, RoundTripFails(l)
    PROVE  IInv'
<1> USE DEF RoundTripFails, Goto, Return
<1>1. ShapeInv /\ RecordsInv(l) /\ RequestsInv(l) /\ StageInv(l) BY DEF IInv, LookupInv
<1>2. PICK kind \in Kinds(l), completed \in BOOLEAN :
          /\ outcome' = [outcome EXCEPT ![l] = IF kind = "timeout" THEN "deadline" ELSE "transportError"]
          /\ Finalize(l, NoResponse, kind, completed)
      OBVIOUS
<1>3. kind \in {"none", "timeout", "transport"} /\ kind # "none" BY KindsAreKinds
<1>4. NoResponse \in Response /\ NoResponse.status = 0
      BY LimitsAssumption DEF NoResponse, Response, Statuses
<1>5. /\ records' \in [Lookups -> Seq(Record)]
      /\ \A m \in Lookups \ {l} : records'[m] = records[m]
      /\ Len(records'[l]) = Len(records[l]) + 1 /\ Len(records[l]) \in Nat
      /\ \A i \in 1..Len(records[l]) : records'[l][i] = records[l][i]
      /\ Latest(l)'.call = call[l] /\ Latest(l)'.errorKind = kind /\ Latest(l)'.status = 0
      /\ Latest(l)' = records'[l][Len(records[l]) + 1]
      /\ inFlight' = inFlight - 1
      <2> HIDE DEF RoundTripFails
      <2> QED BY <1>1, <1>2, <1>3, <1>4, FinalizeAppends
<1>6. pc'[l] = "ended" /\ l \notin once' BY <1>1 DEF ShapeInv, StageInv
<1>7. UNCHANGED <<call, requests, deadline, response, got, once>> OBVIOUS
<1>8. ShapeInv'
  <2>1. inFlight' \in Int BY <1>1, <1>5 DEF ShapeInv
  <2>2. pc' \in [Lookups -> Stages] BY <1>1 DEF ShapeInv, Stages
  <2>3. outcome' \in [Lookups -> Outcomes] BY <1>1, <1>2 DEF ShapeInv, Outcomes
  <2> HIDE DEF RoundTripFails
  <2> QED BY <1>1, <1>5, <1>7, <2>1, <2>2, <2>3 DEF ShapeInv
<1>9. Alone(l) BY <1>1, <1>2, <1>5 DEF Alone, ShapeInv
<1>10. Open(l) /\ ~ Open(l)' BY <1>6 DEF Open, Reading
<1>11. Len(records'[l]) = Places(l)' + Forecasts(l)' /\ InOrder(l)'
       <2> HIDE DEF RoundTripFails
       <2> QED BY <1>1, <1>5, <1>7, <1>10, RecordAdded
<1>12. RecordsInv(l)'
  <2>1. Len(records'[l]) \in Nat BY <1>5
  <2> HIDE DEF RoundTripFails
  <2> QED BY <1>10, <1>11, <2>1 DEF RecordsInv
<1>13. RequestsInv(l)' BY <1>1, <1>6, <1>7 DEF RequestsInv, Places, Forecasts
<1>14. StageInv(l)' BY <1>6 DEF StageInv, Reading
<1>15. OutcomeInv(l)'
  <2>1. outcome'[l] = IF kind = "timeout" THEN "deadline" ELSE "transportError"
        BY <1>1, <1>2 DEF ShapeInv
  <2>2. Agrees(outcome'[l], Latest(l)') BY <1>3, <1>5, <2>1, KindsAreKinds DEF Agrees
  <2> QED BY <1>6, <2>2 DEF OutcomeInv, Reading, Agrees, Clean
<1>16. TruncationInv(l)' BY <1>6 DEF TruncationInv
<1>17. inFlight' + (IF Open(l) THEN 1 ELSE 0) = inFlight + (IF Open(l)' THEN 1 ELSE 0)
       BY <1>1, <1>5, <1>10 DEF ShapeInv
<1> QED BY <1>8, <1>9, <1>12, <1>13, <1>14, <1>15, <1>16, <1>17, AloneKeepsInvariant DEF LookupInv

\* Headers lead to reading, or, of a redirect, to the close at once.
LEMMA HeadersLeadOn ==
    ASSUME IInv, NEW l \in Lookups, RoundTripReturns(l)
    PROVE  /\ pc' = [pc EXCEPT ![l] = pc'[l]] /\ outcome' = [outcome EXCEPT ![l] = outcome'[l]]
           /\ \/ pc'[l] = "decode" /\ response'[l].status = 200 /\ outcome'[l] = "none"
              \/ pc'[l] = "discard" /\ response'[l].status = 500 /\ outcome'[l] = "none"
              \/ pc'[l] = "slurp" /\ response'[l].status = 302 /\ outcome'[l] = "none"
              \/ /\ pc'[l] = "close" /\ response'[l].status = 302
                 /\ \/ outcome'[l] = "transportError"
                    \/ outcome'[l] = "none" /\ requests[l][call[l]] < MaxRequests
<1> USE DEF Goto, Return
<1>1. pc \in [Lookups -> Stages] /\ outcome \in [Lookups -> Outcomes] /\ outcome[l] = "none"
      /\ response \in [Lookups -> Response]
      BY DEF IInv, ShapeInv, LookupInv, StageInv, RoundTripReturns
<1>2. PICK r \in Response :
          /\ response' = [response EXCEPT ![l] = r]
          /\ \/ r.status = 200 /\ Goto(l, "decode") /\ UNCHANGED outcome
             \/ r.status = 302 /\ Redirect(l, r)
             \/ r.status = 500 /\ Goto(l, "discard") /\ UNCHANGED outcome
          /\ IF r.announced /\ r.length = 0
             THEN Finalize(l, r, "none", FALSE) /\ once' = once \cup {l}
             ELSE UNCHANGED <<records, inFlight, once>>
      BY DEF RoundTripReturns
<1>3. response'[l] = r BY <1>1, <1>2
<1>4. CASE r.status = 200 /\ Goto(l, "decode") /\ UNCHANGED outcome BY <1>1, <1>3, <1>4
<1>5. CASE r.status = 500 /\ Goto(l, "discard") /\ UNCHANGED outcome BY <1>1, <1>3, <1>5
<1>6. CASE r.status = 302 /\ Redirect(l, r)
  <2>1. Followed(l) = "transportError" \/ (Followed(l) = "none" /\ requests[l][call[l]] < MaxRequests)
        BY DEF Followed
  <2>2. CASE Goto(l, "close") /\ Return(l, "transportError") BY <1>1, <1>3, <1>6, <2>2
  <2>3. CASE Goto(l, "close") /\ Return(l, Followed(l)) BY <1>1, <1>3, <1>6, <2>1, <2>3
  <2>4. CASE Goto(l, "slurp") /\ UNCHANGED outcome BY <1>1, <1>3, <1>6, <2>4
  <2> QED BY <1>6, <2>2, <2>3, <2>4 DEF Redirect
<1> QED BY <1>2, <1>4, <1>5, <1>6

LEMMA RoundTripReturnsKeepsInvariant ==
    ASSUME IInv, NEW l \in Lookups, RoundTripReturns(l)
    PROVE  IInv'
<1>1. ShapeInv /\ RecordsInv(l) /\ RequestsInv(l) /\ StageInv(l) BY DEF IInv, LookupInv
<1>2. PICK r \in Response, completed \in BOOLEAN :
          /\ response' = [response EXCEPT ![l] = r]
          /\ IF r.announced /\ r.length = 0
             THEN Finalize(l, r, "none", completed) /\ once' = once \cup {l}
             ELSE UNCHANGED <<records, inFlight, once>>
      BY DEF RoundTripReturns
<1>3. /\ response'[l] = r
      /\ \/ pc'[l] = "decode" /\ response'[l].status = 200 /\ outcome'[l] = "none"
         \/ pc'[l] = "discard" /\ response'[l].status = 500 /\ outcome'[l] = "none"
         \/ pc'[l] = "slurp" /\ response'[l].status = 302 /\ outcome'[l] = "none"
         \/ /\ pc'[l] = "close" /\ response'[l].status = 302
            /\ \/ outcome'[l] = "transportError"
               \/ outcome'[l] = "none" /\ requests[l][call[l]] < MaxRequests
      /\ pc' = [pc EXCEPT ![l] = pc'[l]] /\ outcome' = [outcome EXCEPT ![l] = outcome'[l]]
      BY <1>1, <1>2, HeadersLeadOn DEF ShapeInv
<1>4. pc[l] = "roundTrip" /\ UNCHANGED <<got, call, requests, deadline>> BY DEF RoundTripReturns
<1>5. /\ response'[l] = r /\ got'[l] = 0 /\ l \notin once
      /\ pc'[l] \in Reading \cup {"close"} /\ outcome'[l] \in {"none", "transportError"}
      BY <1>1, <1>3, <1>4 DEF ShapeInv, StageInv, Reading
<1>6. Open(l) /\ (Open(l)' <=> l \notin once') BY <1>4, <1>5 DEF Open, Reading
<1>7. pc' \in [Lookups -> Stages] /\ outcome' \in [Lookups -> Outcomes]
  <2>1. pc'[l] \in Stages /\ outcome'[l] \in Outcomes BY <1>5 DEF Stages, Outcomes
  <2>2. pc \in [Lookups -> Stages] /\ pc' = [pc EXCEPT ![l] = pc'[l]] BY <1>1, <1>3 DEF ShapeInv
  <2>3. outcome \in [Lookups -> Outcomes] /\ outcome' = [outcome EXCEPT ![l] = outcome'[l]]
        BY <1>1, <1>3 DEF ShapeInv
  <2>4. pc' \in [Lookups -> Stages] BY <2>1, <2>2
  <2>5. outcome' \in [Lookups -> Outcomes] BY <2>1, <2>3
  <2> QED BY <2>4, <2>5
<1>8. response' \in [Lookups -> Response] BY <1>1, <1>2 DEF ShapeInv
<1>9. \A m \in Lookups : got'[m] <= response'[m].length
  <2>1. r.length \in Nat /\ 0 <= r.length BY DEF Response
  <2>2. \A m \in Lookups \ {l} : response'[m] = response[m] BY <1>1, <1>2 DEF ShapeInv
  <2>3. got'[l] <= response'[l].length BY <1>5, <2>1
  <2>4. \A m \in Lookups \ {l} : got'[m] <= response'[m].length
        BY <1>1, <1>4, <2>2 DEF ShapeInv
  <2> QED BY <2>3, <2>4
<1>10. RequestsInv(l)' BY <1>1, <1>3, <1>4, <1>5 DEF RequestsInv, Places, Forecasts, Reading
<1>11. (l \in once' => r.announced /\ r.length = 0) => StageInv(l)'
  <2>1. outcome'[l] \in Results(r.status) \/ pc'[l] # "close" BY <1>3 DEF Results
  <2> QED BY <1>3, <1>5, <2>1 DEF StageInv, Reading
<1>12. CASE r.announced /\ r.length = 0
  <2>1. Finalize(l, r, "none", completed) /\ once' = once \cup {l} BY <1>2, <1>12
  <2>2. /\ records' \in [Lookups -> Seq(Record)]
        /\ \A m \in Lookups \ {l} : records'[m] = records[m]
        /\ Len(records'[l]) = Len(records[l]) + 1 /\ Len(records[l]) \in Nat
        /\ \A i \in 1..Len(records[l]) : records'[l][i] = records[l][i]
        /\ Latest(l)'.call = call[l] /\ Latest(l)'.status = r.status
        /\ Latest(l)'.errorKind = "none"
        /\ Latest(l)' = records'[l][Len(records[l]) + 1]
        /\ inFlight' = inFlight - 1
        BY <1>1, <2>1, FinalizeAppends
  <2>3. ShapeInv'
    <3>1. once' \subseteq Lookups /\ inFlight' \in Int BY <1>1, <2>1, <2>2 DEF ShapeInv
    <3> QED BY <1>1, <1>4, <1>7, <1>8, <1>9, <2>2, <3>1 DEF ShapeInv
  <2>4. Alone(l) BY <1>1, <1>2, <1>3, <1>4, <2>1, <2>2 DEF Alone, ShapeInv
  <2>5. ~ Open(l)' BY <1>6, <2>1
  <2>6. Len(records'[l]) = Places(l)' + Forecasts(l)' /\ InOrder(l)'
        BY <1>1, <1>4, <1>6, <2>2, RecordAdded
  <2>7. RecordsInv(l)'
    <3>1. Len(records'[l]) \in Nat BY <2>2
    <3> QED BY <2>5, <2>6, <3>1 DEF RecordsInv
  <2>8. OutcomeInv(l)' BY <1>5, <2>2 DEF OutcomeInv, Reading
  <2>9. StageInv(l)' BY <1>11, <1>12
  <2>10. TruncationInv(l)' BY <1>5, <1>12, LimitsAssumption DEF TruncationInv
  <2>11. inFlight' + (IF Open(l) THEN 1 ELSE 0) = inFlight + (IF Open(l)' THEN 1 ELSE 0)
         BY <1>1, <1>6, <2>2, <2>5 DEF ShapeInv
  <2> QED BY <1>10, <2>3, <2>4, <2>7, <2>8, <2>9, <2>10, <2>11, AloneKeepsInvariant DEF LookupInv
<1>13. CASE ~(r.announced /\ r.length = 0)
  <2>1. UNCHANGED <<records, inFlight, once>> BY <1>2, <1>13
  <2>2. ShapeInv' BY <1>1, <1>4, <1>7, <1>8, <1>9, <2>1 DEF ShapeInv
  <2>3. Alone(l) BY <1>1, <1>2, <1>3, <1>4, <2>1 DEF Alone, ShapeInv
  <2>4. Open(l)' BY <1>5, <1>6, <2>1
  <2>5. RecordsInv(l)' BY <1>1, <1>4, <1>6, <2>1, <2>4, OrderKept DEF RecordsInv
  <2>6. StageInv(l)' /\ TruncationInv(l)' BY <1>5, <1>11, <2>1 DEF TruncationInv
  <2>7. OutcomeInv(l)' BY <1>5, <2>1 DEF OutcomeInv, Reading
  <2>8. inFlight' + (IF Open(l) THEN 1 ELSE 0) = inFlight + (IF Open(l)' THEN 1 ELSE 0)
        BY <1>1, <1>6, <2>1, <2>4 DEF ShapeInv
  <2> QED BY <1>10, <2>2, <2>3, <2>5, <2>6, <2>7, <2>8, AloneKeepsInvariant DEF LookupInv
<1> QED BY <1>12, <1>13

LEMMA ReadChunkKeepsInvariant ==
    ASSUME IInv, NEW l \in Lookups, ReadChunk(l)
    PROVE  IInv'
<1> USE DEF ReadChunk, Goto
<1>1. ShapeInv /\ RecordsInv(l) /\ RequestsInv(l) /\ StageInv(l) BY DEF IInv, LookupInv
<1>2. got[l] \in Nat /\ response[l].length \in 0..MaxLength BY <1>1 DEF ShapeInv, Response
<1>3. l \notin once
  <2>1. l \in once => response[l].length = 0 BY <1>1 DEF StageInv
  <2> QED BY <1>2, <2>1
<1>4. /\ pc[l] \in Reading /\ pc'[l] \in Reading
      /\ pc'[l] = pc[l] \/ (pc[l] = "decode" /\ pc'[l] = "drain")
      BY <1>1 DEF ShapeInv, Reading
<1>5. UNCHANGED <<call, requests, deadline, response, once, outcome, records, inFlight>> OBVIOUS
<1>6. ShapeInv'
  <2>1. pc' \in [Lookups -> Stages] BY <1>1 DEF ShapeInv, Stages, Reading
  <2>2. got[l] + 1 \in 0..MaxLength /\ got[l] + 1 <= response[l].length
        BY <1>2, LimitsAssumption
  <2>3. got' \in [Lookups -> 0..MaxLength] /\ \A m \in Lookups : got'[m] <= response'[m].length
        BY <1>1, <2>2 DEF ShapeInv
  <2> QED BY <1>1, <2>1, <2>3 DEF ShapeInv
<1>7. Alone(l) BY <1>1 DEF Alone, ShapeInv
<1>8. Open(l) /\ Open(l)' BY <1>3, <1>4 DEF Open
<1> HIDE DEF ReadChunk
<1>9. RecordsInv(l)' BY <1>1, <1>5, <1>8, OrderKept DEF RecordsInv
<1>10. RequestsInv(l)' BY <1>1, <1>4, <1>5 DEF RequestsInv, Places, Forecasts, Reading
<1>11. StageInv(l)' BY <1>1, <1>3, <1>4, <1>5 DEF StageInv, Reading
<1>12. OutcomeInv(l)' BY <1>3, <1>4, <1>5 DEF OutcomeInv, Reading
<1>13. TruncationInv(l)' BY <1>3, <1>5 DEF TruncationInv
<1>14. inFlight' + (IF Open(l) THEN 1 ELSE 0) = inFlight + (IF Open(l)' THEN 1 ELSE 0)
       BY <1>1, <1>5, <1>8 DEF ShapeInv
<1> QED BY <1>6, <1>7, <1>9, <1>10, <1>11, <1>12, <1>13, <1>14, AloneKeepsInvariant DEF LookupInv

\* A round trip whose reading is over goes on to close its body; only a payload
\* read without an error is a success.
LEMMA ReadingOverKeepsInvariant ==
    ASSUME IInv, NEW l \in Lookups, pc[l] \in Reading,
           NEW kind \in {"none", "timeout", "transport"}, NEW completed \in BOOLEAN,
           completed => got[l] = response[l].length,
           \/ FinalizeOnce(l, kind, completed)
           \/ UNCHANGED <<once, records, inFlight>>,
           NEW result \in Outcomes, result \in Results(response[l].status),
           result \in {"ok", "notFound"} => kind = "none",
           result = "none" => requests[l][call[l]] < MaxRequests,
           Return(l, result), Goto(l, "close"), UNCHANGED <<call, requests, deadline, response, got>>
    PROVE  IInv'
<1> USE DEF Return, Goto
<1>1. ShapeInv /\ RecordsInv(l) /\ RequestsInv(l) /\ StageInv(l) /\ OutcomeInv(l) /\ TruncationInv(l)
      BY DEF IInv, LookupInv
<1>2. pc'[l] = "close" /\ outcome'[l] = result BY <1>1 DEF ShapeInv
<1>3. pc' \in [Lookups -> Stages] /\ outcome' \in [Lookups -> Outcomes]
      BY <1>1 DEF ShapeInv, Stages
<1>4. StageInv(l)' BY <1>2 DEF StageInv, Reading
<1>5. RequestsInv(l)' BY <1>1, <1>2 DEF RequestsInv, Places, Forecasts, Reading
<1>6. (Open(l) <=> l \notin once) /\ (Open(l)' <=> l \notin once') BY <1>2 DEF Open, Reading
<1>7. l \in once => Latest(l).status = response[l].status /\ Latest(l).errorKind = "none"
      BY <1>1 DEF OutcomeInv
<1>8. CASE FinalizeOnce(l, kind, completed)
  <2>1. /\ records' \in [Lookups -> Seq(Record)]
        /\ \A m \in Lookups \ {l} : records'[m] = records[m]
        /\ once' = once \cup {l}
        /\ Len(records'[l]) = Places(l)' + Forecasts(l)'
        /\ InOrder(l)'
        /\ TruncationInv(l)'
        /\ l \in once => Latest(l)' = Latest(l)
        /\ l \notin once => Latest(l)'.status = response[l].status /\ Latest(l)'.errorKind = kind
        /\ inFlight' = inFlight - (IF Open(l) THEN 1 ELSE 0)
        BY <1>8, FinalizeOnceSettles
  <2>2. once' \subseteq Lookups /\ inFlight' \in Int BY <1>1, <2>1 DEF ShapeInv
  <2>3. ShapeInv' BY <1>1, <1>3, <2>1, <2>2 DEF ShapeInv
  <2>4. Alone(l) BY <1>1, <2>1 DEF Alone, ShapeInv
  <2>5. ~ Open(l)' BY <1>6, <2>1
  <2>6. RecordsInv(l)'
    <3>1. Len(records'[l]) \in Nat BY <2>1
    <3> QED BY <2>1, <2>5, <3>1 DEF RecordsInv
  <2>7. Latest(l)'.status = response[l].status
        /\ (result \in {"ok", "notFound"} => Latest(l)'.errorKind = "none")
        BY <1>7, <2>1
  <2>8. OutcomeInv(l)' BY <1>2, <2>7 DEF OutcomeInv, Reading
  <2>9. inFlight' + (IF Open(l) THEN 1 ELSE 0) = inFlight + (IF Open(l)' THEN 1 ELSE 0)
        BY <1>1, <2>1, <2>5 DEF ShapeInv
  <2> QED BY <1>4, <1>5, <2>1, <2>3, <2>4, <2>6, <2>8, <2>9, AloneKeepsInvariant DEF LookupInv
<1>9. CASE UNCHANGED <<once, records, inFlight>>
  <2>1. ShapeInv' BY <1>1, <1>3, <1>9 DEF ShapeInv
  <2>2. Alone(l) BY <1>1, <1>9 DEF Alone, ShapeInv
  <2>3. Open(l)' <=> Open(l) BY <1>6, <1>9
  <2>4. RecordsInv(l)' BY <1>1, <1>9, <2>3, OrderKept DEF RecordsInv
  <2>5. Latest(l)' = Latest(l) BY <1>9 DEF Latest
  <2>6. TruncationInv(l)' BY <1>1, <1>9, <2>5 DEF TruncationInv
  <2>7. OutcomeInv(l)' BY <1>2, <1>7, <1>9, <2>5 DEF OutcomeInv, Reading
  <2>8. inFlight' + (IF Open(l) THEN 1 ELSE 0) = inFlight + (IF Open(l)' THEN 1 ELSE 0)
        BY <1>1, <1>9, <2>3 DEF ShapeInv
  <2> QED BY <1>4, <1>5, <2>1, <2>2, <2>4, <2>6, <2>7, <2>8, AloneKeepsInvariant DEF LookupInv
<1> QED BY <1>8, <1>9

\* What a body that cannot be read on leads to is a result of its status.
LEMMA BrokenFits ==
    ASSUME IInv, NEW l \in Lookups, pc[l] \in Reading
    PROVE  /\ Broken(l) \in Outcomes /\ Broken(l) \in Results(response[l].status)
           /\ Broken(l) \notin {"ok", "notFound"}
           /\ Broken(l) = "none" => requests[l][call[l]] < MaxRequests
<1>1. StageInv(l) BY DEF IInv, LookupInv
<1>2. Followed(l) = "transportError" \/ (Followed(l) = "none" /\ requests[l][call[l]] < MaxRequests)
      BY DEF Followed
<1>3. \/ pc[l] = "discard" /\ Broken(l) = "upstream" /\ response[l].status = 500
      \/ pc[l] = "slurp" /\ Broken(l) = Followed(l) /\ response[l].status = 302
      \/ pc[l] \in {"decode", "drain"} /\ Broken(l) = "decodeError" /\ response[l].status = 200
      BY <1>1 DEF StageInv, Reading, Broken
<1> QED BY <1>2, <1>3 DEF Outcomes, Results

LEMMA ReadEndKeepsInvariant ==
    ASSUME IInv, NEW l \in Lookups, ReadEnd(l)
    PROVE  IInv'
<1>1. PICK result \in Concluded(l) : Return(l, result) BY DEF ReadEnd
<1>2. /\ result \in Outcomes /\ result \in Results(response[l].status)
      /\ result = "none" => requests[l][call[l]] < MaxRequests
  <2>1. pc[l] \in Reading BY DEF ReadEnd
  <2>2. CASE pc[l] # "drain" BY <2>1, <2>2, BrokenFits DEF Concluded
  <2>3. CASE pc[l] = "drain"
    <3>1. response[l].status = 200 BY <2>3 DEF IInv, LookupInv, StageInv
    <3>2. result \in {"ok", "notFound", "decodeError"} BY <2>3 DEF Concluded
    <3> QED BY <3>1, <3>2 DEF Outcomes, Results
  <2> QED BY <2>2, <2>3
<1>3. PICK completed \in BOOLEAN :
          /\ completed => got[l] = response[l].length
          /\ FinalizeOnce(l, "none", completed) \/ UNCHANGED <<once, records, inFlight>>
      <2>1. CASE LimitReached(l) /\ ~AllHere(l) BY <2>1 DEF ReadEnd
      <2>2. CASE ~(LimitReached(l) /\ ~AllHere(l)) BY <2>2 DEF ReadEnd
      <2> QED BY <2>1, <2>2
<1>4. pc[l] \in Reading /\ Goto(l, "close") /\ UNCHANGED <<call, requests, deadline, response, got>>
      BY DEF ReadEnd
<1> QED BY <1>1, <1>2, <1>3, <1>4, ReadingOverKeepsInvariant

LEMMA MalformedKeepsInvariant ==
    ASSUME IInv, NEW l \in Lookups, Malformed(l)
    PROVE  IInv'
<1>1. pc[l] \in Reading BY DEF Malformed, Reading
<1>2. /\ Return(l, "decodeError") /\ Goto(l, "close")
      /\ UNCHANGED <<call, requests, deadline, response, got>>
      /\ UNCHANGED <<once, records, inFlight>>
      BY DEF Malformed
<1>3. "decodeError" \in Outcomes /\ "decodeError" \in Results(response[l].status)
  <2>1. response[l].status = 200 BY DEF Malformed, IInv, LookupInv, StageInv
  <2> QED BY <2>1 DEF Outcomes, Results
<1>4. PICK completed \in BOOLEAN : ~completed OBVIOUS
<1> QED BY <1>1, <1>2, <1>3, <1>4, ReadingOverKeepsInvariant

LEMMA ReadFailsKeepsInvariant ==
    ASSUME IInv, NEW l \in Lookups, ReadFails(l)
    PROVE  IInv'
<1>1. PICK kind \in Kinds(l), completed \in BOOLEAN : ~completed /\ FinalizeOnce(l, kind, completed)
      BY DEF ReadFails
<1>2. kind \in {"none", "timeout", "transport"} BY KindsAreKinds
<1>3. pc[l] \in Reading /\ Return(l, Broken(l)) /\ Goto(l, "close")
      /\ UNCHANGED <<call, requests, deadline, response, got>>
      BY DEF ReadFails
<1> QED BY <1>1, <1>2, <1>3, BrokenFits, ReadingOverKeepsInvariant

LEMMA CloseKeepsInvariant ==
    ASSUME IInv, NEW l \in Lookups, Close(l)
    PROVE  IInv'
<1>1. ShapeInv /\ RequestsInv(l) /\ StageInv(l) /\ OutcomeInv(l) BY DEF IInv, LookupInv
<1>2. PICK completed \in BOOLEAN : ~completed /\ FinalizeOnce(l, "none", completed) BY DEF Close
<1>3. pc[l] = "close" /\ UNCHANGED <<call, requests, deadline, response, got, outcome>> BY DEF Close
<1>4. /\ records' \in [Lookups -> Seq(Record)]
      /\ \A m \in Lookups \ {l} : records'[m] = records[m]
      /\ once' = once \cup {l}
      /\ Len(records'[l]) = Places(l)' + Forecasts(l)'
      /\ InOrder(l)'
      /\ TruncationInv(l)'
      /\ l \in once => Latest(l)' = Latest(l)
      /\ l \notin once => Latest(l)'.status = response[l].status /\ Latest(l)'.errorKind = "none"
      /\ inFlight' = inFlight - (IF Open(l) THEN 1 ELSE 0)
      BY <1>2, <1>3, FinalizeOnceSettles
<1>5. /\ pc'[l] \in {"closed", "ended"}
      /\ pc'[l] = "closed" => outcome[l] = "none" \/ (outcome[l] = "ok" /\ call[l] = "geocoding")
      /\ pc' \in [Lookups -> Stages]
      BY <1>1 DEF Close, Goto, ShapeInv, Stages
<1>6. once' \subseteq Lookups /\ inFlight' \in Int BY <1>1, <1>4 DEF ShapeInv
<1>7. ShapeInv' BY <1>1, <1>3, <1>4, <1>5, <1>6 DEF ShapeInv
<1>8. Alone(l) BY <1>1, <1>3, <1>4 DEF Alone, ShapeInv, Close, Goto
<1>9. ~ Open(l)' BY <1>5 DEF Open, Reading
<1>10. RecordsInv(l)'
  <2>1. Len(records'[l]) \in Nat BY <1>4
  <2> QED BY <1>4, <1>9, <2>1 DEF RecordsInv
<1>11. RequestsInv(l)' BY <1>1, <1>3, <1>5 DEF RequestsInv, Places, Forecasts
<1>12. StageInv(l)' BY <1>3, <1>4, <1>5 DEF StageInv, Reading
<1>13. outcome[l] \in Results(response[l].status) BY <1>1, <1>3 DEF StageInv
<1>14. Latest(l)'.status = response[l].status
       /\ (outcome[l] \in {"ok", "notFound"} => Latest(l)'.errorKind = "none")
       BY <1>1, <1>3, <1>4 DEF OutcomeInv
<1>15. /\ outcome[l] \in {"ok", "notFound", "decodeError"} => response[l].status = 200
       /\ outcome[l] \in {"none", "transportError"} => response[l].status = 302
       /\ outcome[l] = "upstream" => response[l].status = 500
       /\ outcome[l] # "deadline"
       BY <1>13 DEF Results
<1>16. Agrees(outcome[l], Latest(l)') BY <1>14, <1>15 DEF Agrees, Clean
<1>17. OutcomeInv(l)'
  <2>1. Agrees(outcome[l], Latest(l))' BY <1>3, <1>16 DEF Agrees, Clean
  <2> QED BY <1>3, <1>5, <1>14, <1>15, <2>1 DEF OutcomeInv, Reading
<1>18. inFlight' + (IF Open(l) THEN 1 ELSE 0) = inFlight + (IF Open(l)' THEN 1 ELSE 0)
       BY <1>1, <1>4, <1>9 DEF ShapeInv
<1> QED BY <1>4, <1>7, <1>8, <1>10, <1>11, <1>12, <1>17, <1>18, AloneKeepsInvariant DEF LookupInv

\* Time changes no more than what is left of it.
LEMMA TickKeepsInvariant == IInv /\ Tick => IInv'
<1> SUFFICES ASSUME IInv, Tick PROVE IInv' OBVIOUS
<1>1. UNCHANGED <<pc, call, requests, response, got, once, outcome, records, inFlight>> BY DEF Tick
<1>2. ShapeInv'
  <2>1. deadline' \in [Lookups -> 0..Timeout]
        BY LimitsAssumption DEF Tick, IInv, ShapeInv
  <2> QED BY <1>1, <2>1 DEF IInv, ShapeInv
<1>3. \A l \in Lookups : (Open(l)' <=> Open(l)) /\ Latest(l)' = Latest(l)
      BY <1>1 DEF Open, Latest
<1>4. GaugeInv' BY <1>1 DEF IInv, GaugeInv, Open
<1>5. ASSUME NEW l \in Lookups PROVE LookupInv(l)'
  <2>1. LookupInv(l) BY DEF IInv
  <2>2. RecordsInv(l)' BY <1>1, <1>3, <2>1, OrderKept DEF LookupInv, RecordsInv
  <2>3. RequestsInv(l)' BY <1>1, <2>1 DEF LookupInv, RequestsInv, Places, Forecasts
  <2>4. OutcomeInv(l)' BY <1>1, <1>3, <2>1 DEF LookupInv, OutcomeInv, Agrees, Clean
  <2>5. StageInv(l)' /\ TruncationInv(l)' BY <1>1, <1>3, <2>1 DEF LookupInv, StageInv, TruncationInv
  <2> QED BY <2>2, <2>3, <2>4, <2>5 DEF LookupInv
<1> QED BY <1>2, <1>4, <1>5 DEF IInv

LEMMA StutterKeepsInvariant == IInv /\ UNCHANGED vars => IInv'
BY DEF vars, IInv, ShapeInv, GaugeInv, Open, LookupInv, RecordsInv, InOrder, RequestsInv, StageInv,
       OutcomeInv, TruncationInv, Latest, Places, Forecasts, Agrees, Clean

LEMMA NextKeepsInvariant == IInv /\ [Next]_vars => IInv'
<1> SUFFICES ASSUME IInv, [Next]_vars PROVE IInv' OBVIOUS
<1>1. CASE Tick BY <1>1, TickKeepsInvariant
<1>2. CASE Done BY <1>2, StutterKeepsInvariant DEF Done
<1>3. CASE UNCHANGED vars BY <1>3, StutterKeepsInvariant
<1>4. ASSUME NEW l \in Lookups,
             \/ Begin(l) \/ RoundTripFails(l) \/ RoundTripReturns(l)
             \/ ReadChunk(l) \/ ReadEnd(l) \/ Malformed(l) \/ ReadFails(l)
             \/ Close(l) \/ FollowRedirect(l) \/ BeginForecast(l)
      PROVE  IInv'
  <2>1. CASE Begin(l) BY <2>1, BeginKeepsInvariant
  <2>2. CASE RoundTripFails(l) BY <2>2, RoundTripFailsKeepsInvariant
  <2>3. CASE RoundTripReturns(l) BY <2>3, RoundTripReturnsKeepsInvariant
  <2>4. CASE ReadChunk(l) BY <2>4, ReadChunkKeepsInvariant
  <2>5. CASE ReadEnd(l) BY <2>5, ReadEndKeepsInvariant
  <2>6. CASE Malformed(l) BY <2>6, MalformedKeepsInvariant
  <2>7. CASE ReadFails(l) BY <2>7, ReadFailsKeepsInvariant
  <2>8. CASE Close(l) BY <2>8, CloseKeepsInvariant
  <2>9. CASE BeginForecast(l) BY <2>9, BeginForecastKeepsInvariant
  <2>10. CASE FollowRedirect(l) BY <2>10, FollowRedirectKeepsInvariant
  <2> QED BY <1>4, <2>1, <2>2, <2>3, <2>4, <2>5, <2>6, <2>7, <2>8, <2>9, <2>10
<1> QED BY <1>1, <1>2, <1>3, <1>4 DEF Next

LEMMA InitEstablishesInvariant == Init => IInv
<1> SUFFICES ASSUME Init PROVE IInv OBVIOUS
<1>1. ShapeInv
  <2>1. NoResponse \in Response /\ 0 \in 0..MaxLength /\ 0 \in 0..Timeout
        BY LimitsAssumption DEF NoResponse, Response, Statuses
  <2>2. records \in [Lookups -> Seq(Record)] BY DEF Init
  <2>3. \A l \in Lookups : got[l] <= response[l].length BY DEF Init, NoResponse
  <2>4. requests \in [Lookups -> [Calls -> 0..MaxRequests]] BY LimitsAssumption DEF Init
  <2> QED BY <2>1, <2>2, <2>3, <2>4 DEF Init, ShapeInv, Stages, Calls, Outcomes
<1>2. \A l \in Lookups : ~ Open(l) BY DEF Init, Open, Reading
<1>3. GaugeInv
  <2>1. {l \in Lookups : Open(l)} = {} BY <1>2
  <2> QED BY <2>1, FS_EmptySet DEF Init, GaugeInv
<1>4. ASSUME NEW l \in Lookups PROVE LookupInv(l)
  <2>1. records[l] = <<>> /\ Len(records[l]) = 0 BY DEF Init
  <2>2. Places(l) = 0 /\ Forecasts(l) = 0 BY DEF Init, Places, Forecasts, Calls
  <2>3. RecordsInv(l) BY <1>2, <2>1, <2>2 DEF RecordsInv, InOrder
  <2>4. RequestsInv(l) BY <2>2 DEF Init, RequestsInv
  <2> QED BY <2>3, <2>4 DEF Init, LookupInv, StageInv, OutcomeInv, TruncationInv, Reading
<1> QED BY <1>1, <1>3, <1>4 DEF IInv

LEMMA InvariantHolds == Spec => []IInv
<1>1. Init => IInv BY InitEstablishesInvariant
<1>2. IInv /\ [Next]_vars => IInv' BY NextKeepsInvariant
<1> QED BY <1>1, <1>2, PTL DEF Spec

-----------------------------------------------------------------------------
(* What the runs check, for every value of the constants. *)

\* The variables keep their types; the gauge never leaves 0..Cardinality(Lookups).
THEOREM TypeCorrect == Spec => []TypeOK
<1>1. IInv => TypeOK
  <2> SUFFICES ASSUME IInv PROVE TypeOK OBVIOUS
  <2> DEFINE A == {l \in Lookups : Open(l)}
  <2>1. A \subseteq Lookups /\ inFlight = Cardinality(A) BY DEF IInv, GaugeInv
  <2>2. Cardinality(A) \in Nat /\ Cardinality(Lookups) \in Nat /\ Cardinality(A) <= Cardinality(Lookups)
        <3> HIDE DEF A
        <3> QED BY <2>1, LimitsAssumption, FS_Subset, FS_CardinalityType
  <2>3. inFlight \in 0..Cardinality(Lookups) BY <2>1, <2>2
  <2> QED BY <2>3 DEF IInv, ShapeInv, TypeOK
<1> QED BY <1>1, InvariantHolds, PTL

\* Each round trip of GetCurrent is finalized exactly once: the in-flight gauge
\* counts the open ones, and a finished lookup has one record for each request.
THEOREM RecordedOnce == Spec => []FinalizedOnce
<1>1. IInv => FinalizedOnce
  <2> SUFFICES ASSUME IInv PROVE FinalizedOnce OBVIOUS
  <2>1. inFlight = Cardinality({l \in Lookups :
            pc[l] = "roundTrip" \/ (pc[l] \in Reading \cup {"close"} /\ l \notin once)})
        BY DEF IInv, GaugeInv, Open
  <2>2. ASSUME NEW l \in Lookups, pc[l] = "ended"
        PROVE  [i \in DOMAIN records[l] |-> records[l][i].call]
                   = [i \in 1..(Places(l) + Forecasts(l)) |->
                          IF i <= Places(l) THEN "geocoding" ELSE "forecast"]
    <3>1. RecordsInv(l) /\ ~ Open(l) /\ records[l] \in Seq(Record)
          BY <2>2 DEF IInv, LookupInv, Open, Reading, ShapeInv
    <3>2. DOMAIN records[l] = 1..Len(records[l]) /\ Len(records[l]) \in Nat BY <3>1
    <3>3. Len(records[l]) = Places(l) + Forecasts(l) BY <3>1, <3>2 DEF RecordsInv
    <3>4. \A i \in 1..Len(records[l]) :
              records[l][i].call = IF i <= Places(l) THEN "geocoding" ELSE "forecast"
          BY <3>1 DEF RecordsInv, InOrder
    <3> QED BY <3>2, <3>3, <3>4
  <2> QED BY <2>1, <2>2 DEF FinalizedOnce, Places, Forecasts
<1> QED BY <1>1, InvariantHolds, PTL

\* The records of a lookup agree with what it returned, redirects included.
THEOREM RecordsTellOutcome == Spec => []AuditAgreesWithOutcome
<1>1. IInv => AuditAgreesWithOutcome
  <2> SUFFICES ASSUME IInv, NEW l \in Lookups, pc[l] = "ended"
               PROVE  /\ Agrees(outcome[l], Last(records[l]))
                      /\ \A i \in 1..(Len(records[l]) - 1) :
                             IF records[l][i].call = records[l][i + 1].call
                             THEN records[l][i].status = 302 ELSE Clean(records[l][i])
      BY DEF AuditAgreesWithOutcome
  <2>1. RecordsInv(l) /\ OutcomeInv(l) /\ ~ Open(l) /\ records[l] \in Seq(Record)
        BY DEF IInv, LookupInv, Open, Reading, ShapeInv
  <2>2. Last(records[l]) = Latest(l) /\ Len(records[l]) \in Nat BY <2>1 DEF Last, Latest
  <2>3. Places(l) \in Nat /\ Forecasts(l) \in Nat BY RequestsAreNumbers DEF IInv
  <2>4. Len(records[l]) = Places(l) + Forecasts(l) BY <2>1, <2>2 DEF RecordsInv
  <2>5. ASSUME NEW i \in 1..(Len(records[l]) - 1)
        PROVE  IF records[l][i].call = records[l][i + 1].call
               THEN records[l][i].status = 302 ELSE Clean(records[l][i])
    <3>1. /\ i \in 1..Len(records[l]) /\ i + 1 \in 1..Len(records[l])
          /\ i < Places(l) + Forecasts(l)
          BY <2>2, <2>4
    <3>2. /\ records[l][i].call = IF i <= Places(l) THEN "geocoding" ELSE "forecast"
          /\ records[l][i + 1].call = IF i + 1 <= Places(l) THEN "geocoding" ELSE "forecast"
          /\ i # Places(l) => records[l][i].status = 302
          /\ i = Places(l) /\ Forecasts(l) > 0 => Clean(records[l][i])
          BY <2>1, <3>1 DEF RecordsInv, InOrder
    <3>3. i # Places(l) => (i <= Places(l) <=> i + 1 <= Places(l)) BY <2>3, <3>1
    <3>4. i = Places(l) => i <= Places(l) /\ ~(i + 1 <= Places(l)) /\ Forecasts(l) > 0
          BY <2>3, <3>1
    <3> QED BY <3>2, <3>3, <3>4
  <2> QED BY <2>1, <2>2, <2>5 DEF OutcomeInv
<1> QED BY <1>1, InvariantHolds, PTL

\* A capture that is not marked as truncated is whole, unless its body was of
\* unannounced length and broke before its first byte.
THEOREM TruncatedCapturesAreMarked == Spec => []TruncationIsMarked
<1>1. IInv => TruncationIsMarked
  <2> SUFFICES ASSUME IInv, NEW l \in once, ~Last(records[l]).truncated
               PROVE  \/ got[l] = response[l].length /\ got[l] <= CaptureLimit
                      \/ ~response[l].announced /\ got[l] = 0
      BY DEF TruncationIsMarked
  <2>1. l \in Lookups /\ Last(records[l]) = Latest(l) BY DEF IInv, ShapeInv, Last, Latest
  <2> QED BY <2>1 DEF IInv, LookupInv, TruncationInv
<1> QED BY <1>1, InvariantHolds, PTL

-----------------------------------------------------------------------------
(* A lookup takes finitely many steps. *)

\* What a round trip takes at most: its headers, its chunks, their end, the
\* close and the next request; and what is left of the one in progress.
HopSteps == MaxLength + 4

HopLeft(l) ==
    IF pc[l] = "roundTrip" THEN MaxLength + 3
    ELSE IF pc[l] \in Reading THEN (response[l].length - got[l]) + 2
    ELSE IF pc[l] = "close" THEN 1 ELSE 0

\* What an exchange takes at most, and what is left of the one in progress.
ExchangeSteps == MaxRequests * HopSteps
ExchangeLeft(l) == (MaxRequests - requests[l][call[l]]) * HopSteps + HopLeft(l)

LookupLeft(l) ==
    IF pc[l] = "ended" THEN 0
    ELSE IF pc[l] = "idle" THEN 2 * ExchangeSteps
    ELSE ExchangeLeft(l) + (IF call[l] = "geocoding" THEN ExchangeSteps ELSE 0)

LookupBounded == \A l \in Lookups : LookupLeft(l) \in 0..(2 * ExchangeSteps)

Step(l) ==
    \/ Begin(l) \/ RoundTripFails(l) \/ RoundTripReturns(l)
    \/ ReadChunk(l) \/ ReadEnd(l) \/ Malformed(l) \/ ReadFails(l)
    \/ Close(l) \/ FollowRedirect(l) \/ BeginForecast(l)

\* Each step of a lookup brings it nearer to its end, and neither time nor
\* another lookup takes it back.
LookupFalls ==
    \A l \in Lookups :
        /\ Step(l) => LookupLeft(l)' < LookupLeft(l)
        /\ ~Step(l) => LookupLeft(l)' = LookupLeft(l)

\* The measures of an exchange are numbers.
HopsTyped == \A l \in Lookups :
    /\ response[l].length \in 0..MaxLength /\ got[l] \in 0..MaxLength /\ got[l] <= response[l].length
    /\ HopLeft(l) \in 0..(MaxLength + 3)
    /\ pc[l] \in Reading => HopLeft(l) = (response[l].length - got[l]) + 2
    /\ pc[l] \in Reading => HopLeft(l) \in 2..(MaxLength + 2)
    /\ pc[l] = "roundTrip" => HopLeft(l) = MaxLength + 3
    /\ pc[l] = "close" => HopLeft(l) = 1
    /\ pc[l] = "closed" => HopLeft(l) = 0

LEMMA HopsAreTyped == ShapeInv => HopsTyped
<1> SUFFICES ASSUME ShapeInv, NEW l \in Lookups
             PROVE  /\ response[l].length \in 0..MaxLength /\ got[l] \in 0..MaxLength /\ got[l] <= response[l].length
                    /\ HopLeft(l) \in 0..(MaxLength + 3)
                    /\ pc[l] \in Reading => HopLeft(l) = (response[l].length - got[l]) + 2
                    /\ pc[l] \in Reading => HopLeft(l) \in 2..(MaxLength + 2)
                    /\ pc[l] = "roundTrip" => HopLeft(l) = MaxLength + 3
                    /\ pc[l] = "close" => HopLeft(l) = 1
                    /\ pc[l] = "closed" => HopLeft(l) = 0
    BY DEF HopsTyped
<1>1. response[l].length \in 0..MaxLength /\ got[l] \in 0..MaxLength /\ got[l] <= response[l].length
      BY DEF ShapeInv, Response
<1>2. MaxLength \in Nat BY LimitsAssumption
<1> DEFINE n == response[l].length
           g == got[l]
<1>3. /\ pc[l] = "roundTrip" => HopLeft(l) = MaxLength + 3
      /\ pc[l] \in Reading => HopLeft(l) = (n - g) + 2
      /\ pc[l] = "close" => HopLeft(l) = 1
      /\ pc[l] = "closed" => HopLeft(l) = 0
      /\ pc[l] \notin Reading \cup {"roundTrip"} => HopLeft(l) \in {0, 1}
      BY DEF HopLeft, Reading
<1>4. n \in 0..MaxLength /\ g \in 0..MaxLength /\ g <= n BY <1>1
<1> HIDE DEF n, g
<1>5. pc[l] \in Reading => HopLeft(l) \in 2..(MaxLength + 2) BY <1>2, <1>3, <1>4
<1>6. HopLeft(l) \in 0..(MaxLength + 3) BY <1>2, <1>3, <1>5
<1> QED BY <1>1, <1>3, <1>5, <1>6 DEF n, g

\* A request more is a round trip less.
LEMMA Products ==
    ASSUME NEW M \in Nat, NEW H \in Nat, NEW k \in 0..M
    PROVE  /\ M * H \in Nat /\ (M - k) * H \in Nat /\ (M - k) * H <= M * H
           /\ k > 0 => (M - k) * H <= M * H - H
           /\ k < M => (M - (k + 1)) * H = (M - k) * H - H
<1>1. (M - k) * H = M * H - k * H BY Z3
<1>2. M * H \in Nat /\ k * H \in Nat /\ (M - k) * H \in Nat BY Z3
<1>3. k > 0 => k * H >= H BY Z3
<1>4. (M - (k + 1)) * H = (M - k) * H - H BY Z3
<1> QED BY <1>1, <1>2, <1>3, <1>4

LEMMA StepCounts == HopSteps \in Nat /\ ExchangeSteps \in Nat /\ HopSteps > MaxLength + 3
<1>1. HopSteps \in Nat /\ HopSteps > MaxLength + 3 /\ MaxRequests \in Nat /\ 0 \in 0..MaxRequests
      BY LimitsAssumption DEF HopSteps
<1> QED BY <1>1, Products DEF ExchangeSteps

\* What is left of an exchange before and after it sends a request.
LEMMA RequestCounts ==
    ASSUME ShapeInv, NEW l \in Lookups
    PROVE  /\ requests[l][call[l]] > 0 => ExchangeLeft(l) \in 0..(ExchangeSteps - 1)
           /\ (MaxRequests - requests[l][call[l]]) * HopSteps \in Nat
<1> DEFINE k == requests[l][call[l]]
           rest == (MaxRequests - k) * HopSteps
<1>1. k \in 0..MaxRequests /\ MaxRequests \in Nat
      BY RequestsAreNumbers
<1>2. HopLeft(l) \in 0..(MaxLength + 3) /\ HopSteps \in Nat /\ HopSteps > MaxLength + 3 /\ MaxLength \in Nat
      BY HopsAreTyped, StepCounts, LimitsAssumption DEF HopsTyped
<1>3. rest \in Nat /\ (k > 0 => rest <= ExchangeSteps - HopSteps) /\ ExchangeSteps \in Nat
  <2> HIDE DEF k
  <2> QED BY <1>1, <1>2, Products DEF ExchangeSteps
<1>4. ExchangeLeft(l) = rest + HopLeft(l) BY DEF ExchangeLeft
<1> HIDE DEF rest
<1>5. k > 0 => ExchangeLeft(l) \in 0..(ExchangeSteps - 1) BY <1>2, <1>3, <1>4
<1> QED BY <1>3, <1>5 DEF rest

LEMMA LookupIsBounded == IInv => LookupBounded
<1> SUFFICES ASSUME IInv, NEW l \in Lookups PROVE LookupLeft(l) \in 0..(2 * ExchangeSteps)
    BY DEF LookupBounded
<1>1. ExchangeSteps \in Nat BY StepCounts
<1>2. CASE pc[l] \in {"idle", "ended"} BY <1>1, <1>2 DEF LookupLeft
<1>3. CASE pc[l] \notin {"idle", "ended"}
  <2>1. requests[l][call[l]] > 0 BY <1>3 DEF IInv, LookupInv, RequestsInv
  <2>2. ExchangeLeft(l) \in 0..(ExchangeSteps - 1) BY <2>1, RequestCounts DEF IInv
  <2>3. LookupLeft(l) \in {ExchangeLeft(l) + ExchangeSteps, ExchangeLeft(l) + 0}
        BY <1>3 DEF LookupLeft
  <2> QED BY <1>1, <2>2, <2>3
<1> QED BY <1>2, <1>3

\* A step within a round trip, or out of it.
LEMMA ExchangeGoesOn ==
    ASSUME ShapeInv, ShapeInv', NEW l \in Lookups, pc[l] \in Reading \cup {"roundTrip", "close"},
           call'[l] = call[l], requests' = requests,
           \/ pc'[l] = "ended"
           \/ pc'[l] \in Reading \cup {"close", "closed"} /\ HopLeft(l)' < HopLeft(l)
    PROVE  LookupLeft(l)' < LookupLeft(l)
<1> DEFINE rest == (MaxRequests - requests[l][call[l]]) * HopSteps
                   + (IF call[l] = "geocoding" THEN ExchangeSteps ELSE 0)
           now == HopLeft(l)
           next == HopLeft(l)'
<1>1. now \in Nat /\ now > 0 BY HopsAreTyped, LimitsAssumption DEF HopsTyped
<1>2. next \in Nat
  <2>1. HopsTyped' BY HopsAreTyped, PTL
  <2> QED BY <2>1, LimitsAssumption DEF HopsTyped
<1>3. rest \in Nat /\ (MaxRequests - requests[l][call[l]]) * HopSteps \in Nat
      BY RequestCounts, StepCounts
<1> DEFINE p == (MaxRequests - requests[l][call[l]]) * HopSteps
           q == IF call[l] = "geocoding" THEN ExchangeSteps ELSE 0
<1>4. LookupLeft(l) = (p + now) + q BY DEF LookupLeft, ExchangeLeft, Reading
<1>5. LookupLeft(l)' = IF pc'[l] = "ended" THEN 0 ELSE (p + next) + q
      BY DEF LookupLeft, ExchangeLeft, ExchangeSteps, HopSteps, Reading
<1>6. pc'[l] = "ended" \/ next < now OBVIOUS
<1>7. p \in Nat /\ q \in Nat BY <1>3, StepCounts
<1> HIDE DEF rest, now, next, p, q
<1> QED BY <1>1, <1>2, <1>4, <1>5, <1>6, <1>7

LEMMA StepLowersLookup ==
    ASSUME IInv, IInv', NEW l \in Lookups, Step(l)
    PROVE  LookupLeft(l)' < LookupLeft(l)
<1>1. /\ ShapeInv /\ ShapeInv' /\ pc \in [Lookups -> Stages] /\ call \in [Lookups -> Calls]
      /\ got \in [Lookups -> 0..MaxLength] /\ requests \in [Lookups -> [Calls -> 0..MaxRequests]]
      BY DEF IInv, ShapeInv
<1>2. HopsTyped /\ HopsTyped'
  <2>1. HopsTyped' BY HopsAreTyped, <1>1, PTL
  <2> QED BY <1>1, <2>1, HopsAreTyped
<1>3. MaxLength \in Nat /\ MaxRequests \in Nat \ {0} BY LimitsAssumption
<1>4. CASE Begin(l)
  <2>1. pc[l] = "idle" /\ pc'[l] = "roundTrip" /\ call'[l] = "geocoding"
        BY <1>1, <1>4 DEF Begin, StartRoundTrip, Goto
  <2>2. LookupLeft(l) = 2 * ExchangeSteps BY <2>1 DEF LookupLeft
  <2>3. LookupLeft(l)' = ExchangeLeft(l)' + ExchangeSteps
        BY <2>1 DEF LookupLeft, ExchangeLeft, ExchangeSteps, HopSteps
  <2>4. ExchangeLeft(l)' \in 0..(ExchangeSteps - 1)
    <3>1. requests'[l][call'[l]] > 0 BY <2>1 DEF IInv, LookupInv, RequestsInv
    <3>2. (requests[l][call[l]] > 0 => ExchangeLeft(l) \in 0..(ExchangeSteps - 1))'
          BY <1>1, RequestCounts, PTL
    <3> QED BY <3>1, <3>2 DEF ExchangeSteps, HopSteps
  <2> QED BY <2>2, <2>3, <2>4, StepCounts
<1>5. CASE BeginForecast(l)
  <2>1. pc[l] = "closed" /\ outcome[l] = "ok" /\ pc'[l] = "roundTrip" /\ call'[l] = "forecast"
        BY <1>1, <1>5 DEF BeginForecast, StartRoundTrip, Goto
  <2>2. call[l] = "geocoding" BY <2>1 DEF IInv, LookupInv, StageInv
  <2>3. LookupLeft(l) = ((MaxRequests - requests[l][call[l]]) * HopSteps + 0) + ExchangeSteps
        BY <2>1, <2>2 DEF LookupLeft, ExchangeLeft, HopLeft, Reading
  <2>4. LookupLeft(l)' = ExchangeLeft(l)' + 0
        BY <2>1 DEF LookupLeft, ExchangeLeft, ExchangeSteps, HopSteps
  <2>5. ExchangeLeft(l)' \in 0..(ExchangeSteps - 1)
    <3>1. requests'[l][call'[l]] > 0 BY <2>1 DEF IInv, LookupInv, RequestsInv
    <3>2. (requests[l][call[l]] > 0 => ExchangeLeft(l) \in 0..(ExchangeSteps - 1))'
          BY <1>1, RequestCounts, PTL
    <3> QED BY <3>1, <3>2 DEF ExchangeSteps, HopSteps
  <2>6. (MaxRequests - requests[l][call[l]]) * HopSteps \in Nat BY <1>1, RequestCounts
  <2> QED BY <2>3, <2>4, <2>5, <2>6, StepCounts
<1>6. CASE FollowRedirect(l)
  <2> DEFINE k == requests[l][call[l]]
             rest == IF call[l] = "geocoding" THEN ExchangeSteps ELSE 0
  <2>1. pc[l] = "closed" /\ outcome[l] = "none" /\ pc'[l] = "roundTrip" /\ call'[l] = call[l]
        BY <1>1, <1>6 DEF FollowRedirect, StartRoundTrip, Goto
  <2>2. requests'[l][call[l]] = k + 1 BY <1>1, <1>6 DEF FollowRedirect, StartRoundTrip
  <2>3. k \in 0..MaxRequests /\ k < MaxRequests
        BY <1>1, <2>1 DEF IInv, LookupInv, RequestsInv
  <2>4. LookupLeft(l) = ((MaxRequests - k) * HopSteps + 0) + rest
        BY <2>1 DEF LookupLeft, ExchangeLeft, HopLeft, Reading
  <2>5. LookupLeft(l)' = ((MaxRequests - (k + 1)) * HopSteps + (MaxLength + 3)) + rest
        BY <2>1, <2>2 DEF LookupLeft, ExchangeLeft, HopLeft, ExchangeSteps, HopSteps
  <2>6. rest \in Nat BY StepCounts
  <2> HIDE DEF k, rest
  <2>7. /\ (MaxRequests - (k + 1)) * HopSteps = (MaxRequests - k) * HopSteps - HopSteps
        /\ (MaxRequests - k) * HopSteps \in Nat
        BY <1>3, <2>3, StepCounts, Products
  <2> DEFINE p == (MaxRequests - k) * HopSteps
             p2 == (MaxRequests - (k + 1)) * HopSteps
  <2>8. p2 = p - HopSteps /\ p \in Nat /\ LookupLeft(l) = (p + 0) + rest
        /\ LookupLeft(l)' = (p2 + (MaxLength + 3)) + rest
        BY <2>4, <2>5, <2>7
  <2> HIDE DEF p, p2
  <2> QED BY <1>3, <2>6, <2>8, StepCounts
<1>7. CASE RoundTripFails(l)
  <2>1. pc[l] = "roundTrip" /\ pc'[l] = "ended" /\ call' = call /\ requests' = requests
        BY <1>1, <1>7 DEF RoundTripFails, Goto
  <2> QED BY <1>1, <2>1, ExchangeGoesOn
<1>8. CASE RoundTripReturns(l)
  <2>1. pc[l] = "roundTrip" /\ call' = call /\ requests' = requests BY <1>8 DEF RoundTripReturns
  <2>2. pc'[l] \in Reading \cup {"close"} BY <1>8, HeadersLeadOn DEF Reading
  <2>3. HopLeft(l) = MaxLength + 3 BY <1>2, <2>1 DEF HopsTyped
  <2>4. HopLeft(l)' \in 1..(MaxLength + 2) BY <1>2, <1>3, <2>2 DEF HopsTyped
  <2>5. HopLeft(l)' < HopLeft(l) BY <1>3, <2>3, <2>4
  <2> QED BY <1>1, <2>1, <2>2, <2>5, ExchangeGoesOn
<1>9. CASE ReadChunk(l)
  <2>1. /\ pc[l] \in Reading /\ pc'[l] \in Reading /\ call' = call /\ requests' = requests
        /\ response' = response /\ got'[l] = got[l] + 1
        BY <1>1, <1>9 DEF ReadChunk, Goto, Reading
  <2>2. /\ HopLeft(l) = (response[l].length - got[l]) + 2
        /\ HopLeft(l)' = (response[l].length - (got[l] + 1)) + 2
        /\ response[l].length \in 0..MaxLength /\ got[l] \in 0..MaxLength
        BY <1>2, <2>1 DEF HopsTyped
  <2>3. HopLeft(l)' < HopLeft(l) BY <1>3, <2>2
  <2> QED BY <1>1, <2>1, <2>3, ExchangeGoesOn
<1>10. CASE ReadEnd(l) \/ Malformed(l) \/ ReadFails(l)
  <2>1. pc[l] \in Reading /\ pc'[l] = "close" /\ call' = call /\ requests' = requests
        BY <1>1, <1>10 DEF ReadEnd, Malformed, ReadFails, Goto, Reading
  <2>2. HopLeft(l) \in 2..(MaxLength + 2) /\ HopLeft(l)' = 1 BY <1>2, <2>1 DEF HopsTyped
  <2>3. HopLeft(l)' < HopLeft(l) BY <1>3, <2>2
  <2> QED BY <1>1, <2>1, <2>3, ExchangeGoesOn
<1>11. CASE Close(l)
  <2>1. pc[l] = "close" /\ pc'[l] \in {"closed", "ended"} /\ call' = call /\ requests' = requests
        BY <1>1, <1>11 DEF Close, Goto
  <2>2. HopLeft(l) = 1 /\ (pc'[l] = "closed" => HopLeft(l)' = 0) BY <1>2, <2>1 DEF HopsTyped
  <2> QED BY <1>1, <2>1, <2>2, ExchangeGoesOn
<1> QED BY <1>4, <1>5, <1>6, <1>7, <1>8, <1>9, <1>10, <1>11 DEF Step

\* A lookup whose turn it is not stays where it is.
LEMMA OthersKeepLookup ==
    ASSUME IInv, [Next]_vars, NEW l \in Lookups, ~Step(l)
    PROVE  LookupLeft(l)' = LookupLeft(l)
<1>1. /\ pc'[l] = pc[l] /\ call'[l] = call[l] /\ requests'[l] = requests[l]
      /\ response'[l] = response[l] /\ got'[l] = got[l]
  <2>1. CASE Tick \/ Done \/ UNCHANGED vars BY <2>1 DEF Tick, Done, vars
  <2>2. ASSUME NEW m \in Lookups, Step(m)
        PROVE  /\ pc'[l] = pc[l] /\ call'[l] = call[l] /\ requests'[l] = requests[l]
               /\ response'[l] = response[l] /\ got'[l] = got[l]
    <3>1. m # l BY <2>2
    <3>2. /\ pc \in [Lookups -> Stages] /\ call \in [Lookups -> Calls]
          /\ requests \in [Lookups -> [Calls -> 0..MaxRequests]]
          /\ response \in [Lookups -> Response] /\ got \in [Lookups -> 0..MaxLength]
          BY DEF IInv, ShapeInv
    <3>3. CASE Begin(m) \/ FollowRedirect(m) \/ BeginForecast(m)
          BY <3>1, <3>2, <3>3 DEF Begin, BeginForecast, FollowRedirect, StartRoundTrip, Goto
    <3>4. CASE RoundTripFails(m) BY <3>1, <3>2, <3>4 DEF RoundTripFails, Goto
    <3>5. CASE RoundTripReturns(m)
      <4>1. /\ UNCHANGED <<call, requests, got>> /\ pc' = [pc EXCEPT ![m] = pc'[m]]
            /\ \E r \in Response : response' = [response EXCEPT ![m] = r]
            BY <3>5, HeadersLeadOn DEF RoundTripReturns
      <4> QED BY <3>1, <3>2, <4>1
    <3>6. CASE ReadChunk(m) BY <3>1, <3>2, <3>6 DEF ReadChunk, Goto
    <3>7. CASE ReadEnd(m) \/ Malformed(m) \/ ReadFails(m) \/ Close(m)
          BY <3>1, <3>2, <3>7 DEF ReadEnd, Malformed, ReadFails, Close, Goto
    <3> QED BY <2>2, <3>3, <3>4, <3>5, <3>6, <3>7 DEF Step
  <2> QED BY <2>1, <2>2 DEF Next, Step
<1> QED BY <1>1 DEF LookupLeft, ExchangeLeft, HopLeft, ExchangeSteps, HopSteps

\* GetCurrent comes to an end in boundedly many steps, whatever the provider
\* answers, the redirects included, and the other lookups do: two exchanges of
\* MaxRequests round trips at most, each as long as its body at most.  That
\* each step is taken is up to the timers (LookupEnds).
THEOREM LookupsAreBounded == Spec => []LookupBounded /\ [][LookupFalls]_vars
<1>1. IInv => LookupBounded BY LookupIsBounded
<1>2. IInv /\ IInv' /\ [Next]_vars => LookupFalls
      BY StepLowersLookup, OthersKeepLookup DEF LookupFalls
<1> QED BY <1>1, <1>2, InvariantHolds, PTL DEF Spec
=============================================================================
