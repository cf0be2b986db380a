------------------------ MODULE RequestPipelineProofs ------------------------
(***************************************************************************)
(* What RequestPipeline promises, for every finite set of requests, in     *)
(* every configuration of both servers.                                    *)
(***************************************************************************)
EXTENDS RequestPipeline, FiniteSetTheorems, TLAPS

-----------------------------------------------------------------------------
(* The parts of the inductive invariant. *)

\* The infra server has no optional layer but the logger.
ServerInv ==
    /\ server \in {"public", "infra"} /\ enabled \subseteq Optional
    /\ server = "infra" => enabled \subseteq {"RequestLogger"}

\* TypeOK without the counters, which the invariants below define.
ShapeInv ==
    /\ at \in [Requests -> 0..9]
    /\ moving \in [Requests -> {"new", "in", "out", "unwind", "done"}]
    /\ method \in [Requests -> Methods]
    /\ observed \in [Requests -> Statuses \cup {0}]
    /\ sent \in [Requests -> Statuses \cup {0}]
    /\ counted \in [Requests -> Statuses \cup {0}]
    /\ audited \in [Requests -> Statuses \cup {0}]
    /\ logged \in [Requests -> Statuses \cup {0}]
    /\ inFlight \in Int /\ rejected \in Int
    /\ ran \subseteq Requests /\ panicked \subseteq ran

Unrecorded(q) == counted[q] = 0 /\ audited[q] = 0 /\ logged[q] = 0

\* What is recorded of q when the layers past index i have returned.
Recorded(q, i) ==
    /\ counted[q] = IF i < 3 THEN StatusCode(q) ELSE 0
    /\ audited[q] = IF i < 4 /\ 4 \in Present THEN StatusCode(q) ELSE 0
    /\ logged[q] = IF i < 5 /\ 5 \in Present THEN StatusCode(q) ELSE 0

\* What holds of a request in each direction.
Fresh(q) ==
    /\ moving[q] = "new" /\ at[q] = 0
    /\ Unrecorded(q) /\ sent[q] = 0 /\ observed[q] = 0 /\ q \notin ran

Inward(q) ==
    /\ moving[q] = "in" /\ at[q] \in Present
    /\ Unrecorded(q) /\ observed[q] = sent[q] /\ q \notin panicked
    /\ IF q \in ran THEN at[q] = 9 ELSE sent[q] = 0

Outbound(q) ==
    /\ moving[q] = "out" /\ at[q] \in Present
    /\ Recorded(q, at[q]) /\ observed[q] = sent[q] /\ q \notin panicked

Unwinding(q) ==
    /\ moving[q] = "unwind" /\ at[q] \in Present
    /\ Unrecorded(q) /\ q \in panicked

Finished(q) ==
    /\ moving[q] = "done" /\ at[q] = 0
    /\ IF q \in panicked THEN Unrecorded(q) ELSE Recorded(q, 0) /\ sent[q] = StatusCode(q)

Stages(q) == Fresh(q) \/ Inward(q) \/ Outbound(q) \/ Unwinding(q) \/ Finished(q)

IInv ==
    /\ ServerInv /\ ShapeInv /\ recovered = 0
    /\ \A q \in Requests : Stages(q)
    /\ InFlightIsExact /\ RejectionsAreFinal

-----------------------------------------------------------------------------
(* The chain. *)

\* Which layer is where.
LEMMA LayersByIndex ==
    /\ Len(FullChain) = 9
    /\ FullChain[1] = "Recovery" /\ FullChain[2] = "RequestID"
    /\ FullChain[3] = "RequestMetrics" /\ FullChain[4] = "RequestAudit"
    /\ FullChain[5] = "RequestLogger" /\ FullChain[6] = "CORS" /\ FullChain[7] = "CSRF"
    /\ FullChain[8] = "RateLimit" /\ FullChain[9] = "application"
BY DEF FullChain

\* The layers every configuration has, and those it decides.
LEMMA LayersPresent ==
    ASSUME ServerInv
    PROVE  /\ Present \subseteq 1..9
           /\ 1 \in Present /\ 2 \in Present /\ 3 \in Present /\ 9 \in Present
           /\ 4 \in Present <=> "RequestAudit" \in enabled
           /\ 5 \in Present <=> "RequestLogger" \in enabled
<1>1. \A i \in 1..9 : i \in Present <=>
          /\ server = "infra" => FullChain[i] \in InfraChain
          /\ FullChain[i] \in Optional => FullChain[i] \in enabled
      BY LayersByIndex DEF Present
<1>2. Present \subseteq 1..9 BY LayersByIndex DEF Present
<1>3. 1 \in Present BY <1>1, LayersByIndex DEF InfraChain, Optional
<1>4. 2 \in Present BY <1>1, LayersByIndex DEF InfraChain, Optional
<1>5. 3 \in Present BY <1>1, LayersByIndex DEF InfraChain, Optional
<1>6. 9 \in Present BY <1>1, LayersByIndex DEF InfraChain, Optional
<1>7. 4 \in Present <=> "RequestAudit" \in enabled
      BY <1>1, LayersByIndex DEF InfraChain, Optional, ServerInv
<1>8. 5 \in Present <=> "RequestLogger" \in enabled
      BY <1>1, LayersByIndex DEF InfraChain, Optional, ServerInv
<1> QED BY <1>2, <1>3, <1>4, <1>5, <1>6, <1>7, <1>8

\* The layer of a request tells its index.
LEMMA LayerTellsIndex ==
    ASSUME NEW q, at[q] \in 1..9
    PROVE  /\ Layer(q) = "Recovery" <=> at[q] = 1
           /\ Layer(q) = "RequestID" <=> at[q] = 2
           /\ Layer(q) = "RequestMetrics" <=> at[q] = 3
           /\ Layer(q) = "RequestAudit" <=> at[q] = 4
           /\ Layer(q) = "RequestLogger" <=> at[q] = 5
           /\ Layer(q) = "CORS" <=> at[q] = 6
           /\ Layer(q) = "CSRF" <=> at[q] = 7
           /\ Layer(q) = "RateLimit" <=> at[q] = 8
           /\ Layer(q) = "application" <=> at[q] = 9
<1>1. PICK i \in 1..9 : i = at[q] OBVIOUS
<1>2. i \in {1, 2, 3, 4, 5, 6, 7, 8, 9} BY <1>1
<1> QED BY <1>1, <1>2, LayersByIndex DEF Layer

\* A request carries the metrics inside their layer, and not in Recovery.
LEMMA MetricsAreCarried ==
    ASSUME ServerInv, NEW i \in 1..9
    PROVE  /\ i > 3 => CarriesMetrics(i)
           /\ i = 1 => ~ CarriesMetrics(i)
BY LayersPresent, LayersByIndex DEF CarriesMetrics

\* The metrics layer is always there, at one index.
LEMMA MetricsAtThree ==
    ASSUME ServerInv
    PROVE  3 \in Present /\ \A m \in Present : FullChain[m] = "RequestMetrics" <=> m = 3
<1> SUFFICES ASSUME NEW m \in Present PROVE FullChain[m] = "RequestMetrics" <=> m = 3
    BY LayersPresent
<1>1. m \in {1, 2, 3, 4, 5, 6, 7, 8, 9} BY LayersPresent
<1> QED BY <1>1, LayersByIndex

\* Which requests the gauge counts.
InsideByIndex(q) ==
    \/ moving[q] = "in" /\ at[q] > 3
    \/ moving[q] \in {"out", "unwind"} /\ at[q] >= 3

LEMMA InsideIsByIndex ==
    ASSUME ServerInv, NEW q
    PROVE  /\ Inside(q) <=> InsideByIndex(q)
           /\ Present' = Present => (Inside(q)' <=> InsideByIndex(q)')
BY MetricsAtThree DEF Inside, InsideByIndex

-----------------------------------------------------------------------------
(* Counting. *)

\* Sets that differ in q alone differ in size by q.
LEMMA SizesDiffer ==
    ASSUME NEW S, IsFiniteSet(S), NEW A \in SUBSET S, NEW B \in SUBSET S, NEW q,
           A \ {q} = B \ {q}
    PROVE  /\ Cardinality(A) \in Nat /\ Cardinality(B) \in Nat
           /\ Cardinality(B) + (IF q \in A THEN 1 ELSE 0)
                  = Cardinality(A) + (IF q \in B THEN 1 ELSE 0)
<1>1. IsFiniteSet(A) /\ IsFiniteSet(B) BY FS_Subset
<1>2. Cardinality(A) \in Nat /\ Cardinality(B) \in Nat BY <1>1, FS_CardinalityType
<1>3. Cardinality(A \ {q}) = IF q \in A THEN Cardinality(A) - 1 ELSE Cardinality(A)
      BY <1>1, FS_RemoveElement
<1>4. Cardinality(B \ {q}) = IF q \in B THEN Cardinality(B) - 1 ELSE Cardinality(B)
      BY <1>1, FS_RemoveElement
<1> QED BY <1>2, <1>3, <1>4

Refused(q) == q \notin ran /\ sent[q] \in {403, 429, 503}

\* A step of q alone.
Alone(q) ==
    /\ server' = server /\ enabled' = enabled
    /\ \A r \in Requests \ {q} :
           /\ at'[r] = at[r] /\ moving'[r] = moving[r]
           /\ observed'[r] = observed[r] /\ sent'[r] = sent[r]
           /\ counted'[r] = counted[r] /\ audited'[r] = audited[r] /\ logged'[r] = logged[r]
           /\ r \in ran' <=> r \in ran
           /\ r \in panicked' <=> r \in panicked

\* Such a step keeps the invariant if q stays in a stage and the counters move
\* with q.
LEMMA AloneKeepsInvariant ==
    ASSUME IInv, NEW q \in Requests, Alone(q), ShapeInv', recovered' = recovered, Stages(q)',
           inFlight' + (IF Inside(q) THEN 1 ELSE 0) = inFlight + (IF Inside(q)' THEN 1 ELSE 0),
           rejected' + (IF Refused(q) THEN 1 ELSE 0) = rejected + (IF Refused(q)' THEN 1 ELSE 0)
    PROVE  IInv'
<1> USE DEF IInv, Alone
<1>1. ServerInv' /\ Present' = Present BY DEF ServerInv, Present
<1>2. \A r \in Requests : Stages(r)'
  <2> SUFFICES ASSUME NEW r \in Requests, r # q PROVE Stages(r)' OBVIOUS
  <2>1. Stages(r) OBVIOUS
  <2>2. StatusCode(r)' = StatusCode(r) BY DEF StatusCode
  <2>3. Unrecorded(r)' = Unrecorded(r) BY DEF Unrecorded
  <2>4. \A i : Recorded(r, i)' = Recorded(r, i) BY <1>1, <2>2 DEF Recorded
  <2>5. Fresh(r) => Fresh(r)' BY <2>3 DEF Fresh
  <2>6. Inward(r) => Inward(r)' BY <1>1, <2>3 DEF Inward
  <2>7. Outbound(r) => Outbound(r)'
    <3> SUFFICES ASSUME Outbound(r) PROVE Outbound(r)' OBVIOUS
    <3>1. Recorded(r, at[r]) BY DEF Outbound
    <3>2. Recorded(r, at[r])' BY <1>1, <2>2, <3>1 DEF Recorded
    <3> QED BY <1>1, <3>2 DEF Outbound
  <2>8. Unwinding(r) => Unwinding(r)' BY <1>1, <2>3 DEF Unwinding
  <2>9. Finished(r) => Finished(r)'
    <3> SUFFICES ASSUME Finished(r) PROVE Finished(r)' OBVIOUS
    <3>1. Recorded(r, 0) => Recorded(r, 0)' BY <1>1, <2>2 DEF Recorded
    <3> QED BY <2>2, <2>3, <3>1 DEF Finished
  <2> QED BY <2>1, <2>5, <2>6, <2>7, <2>8, <2>9 DEF Stages
<1>3. InFlightIsExact'
  <2> DEFINE A == {r \in Requests : Inside(r)}
             B == {r \in Requests : Inside(r)'}
  <2>1. \A r \in Requests \ {q} : Inside(r)' <=> Inside(r)
        BY <1>1, InsideIsByIndex DEF InsideByIndex
  <2>2. A \in SUBSET Requests /\ B \in SUBSET Requests /\ A \ {q} = B \ {q} BY <2>1
  <2>3. q \in A <=> Inside(q) OBVIOUS
  <2>4. q \in B <=> Inside(q)' OBVIOUS
  <2>5. Cardinality(A) \in Nat /\ Cardinality(B) \in Nat /\
        Cardinality(B) + (IF q \in A THEN 1 ELSE 0)
            = Cardinality(A) + (IF q \in B THEN 1 ELSE 0)
        <3> HIDE DEF A, B
        <3> QED BY <2>2, SizesDiffer, PipelineAssumption
  <2>6. inFlight = Cardinality(A) BY DEF InFlightIsExact
  <2>7. inFlight' = Cardinality(B)
        <3> HIDE DEF A, B
        <3> QED BY <2>3, <2>4, <2>5, <2>6 DEF ShapeInv
  <2> QED BY <2>7 DEF InFlightIsExact
<1>4. RejectionsAreFinal'
  <2> DEFINE A == {r \in Requests \ ran : sent[r] \in {403, 429, 503}}
             B == {r \in Requests \ ran' : sent'[r] \in {403, 429, 503}}
  <2>2. A \in SUBSET Requests /\ B \in SUBSET Requests /\ A \ {q} = B \ {q} OBVIOUS
  <2>3. q \in A <=> Refused(q) BY DEF Refused
  <2>4. q \in B <=> Refused(q)' BY DEF Refused
  <2>5. Cardinality(A) \in Nat /\ Cardinality(B) \in Nat /\
        Cardinality(B) + (IF q \in A THEN 1 ELSE 0)
            = Cardinality(A) + (IF q \in B THEN 1 ELSE 0)
        <3> HIDE DEF A, B
        <3> QED BY <2>2, SizesDiffer, PipelineAssumption
  <2>6. rejected = Cardinality(A) BY DEF RejectionsAreFinal
  <2>7. rejected' = Cardinality(B)
        <3> HIDE DEF A, B
        <3> QED BY <2>3, <2>4, <2>5, <2>6 DEF ShapeInv
  <2> QED BY <2>7 DEF RejectionsAreFinal
<1> QED BY <1>1, <1>2, <1>3, <1>4

-----------------------------------------------------------------------------
(* The steps. *)

\* What lies between two adjacent layers.
LEMMA Neighbours ==
    ASSUME ServerInv, NEW i \in Present \cup {0}, NEW j \in Present, Adjacent(i, j)
    PROVE  /\ i \in 0..9 /\ j \in 1..9 /\ i < j
           /\ i = 0 <=> j = 1
           /\ i < 3 <=> j <= 3
           /\ i < 4 /\ j > 4 => 4 \notin Present
           /\ i < 5 /\ j > 5 => 5 \notin Present
BY LayersPresent DEF Adjacent

\* A step inward leaves q on its way in and touches nothing else.
LEMMA DescendGoesIn ==
    ASSUME IInv, NEW q \in Requests, moving[q] \in {"new", "in"}, Descend(q),
           UNCHANGED <<server, enabled, method, writers, counted, recovered, records, history>>
    PROVE  /\ Alone(q) /\ Stages(q)' /\ ~ Refused(q) /\ ~ Refused(q)'
           /\ at' \in [Requests -> 0..9]
           /\ moving' \in [Requests -> {"new", "in", "out", "unwind", "done"}]
           /\ Inside(q)' <=> at[q] >= 3
           /\ Inside(q) <=> at[q] > 3
<1> USE DEF writers, records, history
<1>1. ServerInv /\ ShapeInv /\ Stages(q) BY DEF IInv
<1>2. at[q] \in Present \cup {0} BY <1>1 DEF Stages, Fresh, Inward, Outbound, Unwinding, Finished
<1>3. PICK j \in Present : Adjacent(at[q], j) /\ at' = [at EXCEPT ![q] = j] BY DEF Descend
<1>4. j \in 1..9 /\ at[q] \in 0..9 /\ at[q] < j /\ (at[q] < 3 <=> j <= 3) BY <1>1, <1>2, <1>3, Neighbours
<1>5. Present' = Present /\ ServerInv' BY <1>1 DEF Present, ServerInv
<1>6. at'[q] = j /\ moving'[q] = "in" BY <1>1, <1>3 DEF Descend, ShapeInv
<1>7. Fresh(q) \/ Inward(q) BY <1>1 DEF Stages, Outbound, Unwinding, Finished
<1>8. Unrecorded(q) /\ sent[q] = 0 /\ observed[q] = 0 /\ q \notin ran
      BY <1>4, <1>7 DEF Fresh, Inward
<1>9. Inward(q)' BY <1>1, <1>5, <1>6, <1>8 DEF Inward, Unrecorded, ShapeInv
<1>10. Stages(q)' BY <1>9 DEF Stages
<1>11. Alone(q) BY <1>1, <1>3 DEF Alone, Descend, ShapeInv
<1>12. ~ Refused(q) /\ ~ Refused(q)' BY <1>8 DEF Refused
<1>13. Inside(q) <=> at[q] > 3 BY <1>1, <1>4, <1>7, InsideIsByIndex DEF InsideByIndex, Fresh, Inward
<1>14. Inside(q)' <=> j > 3 BY <1>1, <1>5, <1>6, InsideIsByIndex DEF InsideByIndex
<1> QED BY <1>1, <1>3, <1>4, <1>10, <1>11, <1>12, <1>13, <1>14 DEF Descend, ShapeInv

\* A step inward that leaves the rejections alone keeps the invariant if the
\* gauge moves in the metrics layer only.
LEMMA DescendKeepsInvariant ==
    ASSUME IInv, NEW q \in Requests, moving[q] \in {"new", "in"}, Descend(q),
           UNCHANGED <<server, enabled, method, writers, counted, rejected, recovered, records, history>>,
           inFlight' = IF at[q] = 3 THEN inFlight + 1 ELSE inFlight
    PROVE  IInv'
<1> USE DEF writers, records, history
<1>1. /\ Alone(q) /\ Stages(q)' /\ ~ Refused(q) /\ ~ Refused(q)'
      /\ at' \in [Requests -> 0..9]
      /\ moving' \in [Requests -> {"new", "in", "out", "unwind", "done"}]
      /\ Inside(q)' <=> at[q] >= 3
      /\ Inside(q) <=> at[q] > 3
      BY DescendGoesIn
<1>2. ShapeInv BY DEF IInv
<1>3. ShapeInv' BY <1>1, <1>2 DEF ShapeInv
<1>4. at[q] \in Int /\ inFlight \in Int /\ rejected \in Int BY <1>2 DEF ShapeInv
<1>5. inFlight' + (IF Inside(q) THEN 1 ELSE 0) = inFlight + (IF Inside(q)' THEN 1 ELSE 0)
      BY <1>1, <1>4
<1>6. rejected' + (IF Refused(q) THEN 1 ELSE 0) = rejected + (IF Refused(q)' THEN 1 ELSE 0)
      BY <1>1, <1>4
<1> QED BY <1>1, <1>3, <1>5, <1>6, AloneKeepsInvariant

\* Where a step outward leads.
LEMMA OutwardLeads ==
    ASSUME IInv, NEW q \in Requests, at[q] \in Present, Outward(q), UNCHANGED <<server, enabled>>
    PROVE  /\ at[q] \in 1..9 /\ at' = [at EXCEPT ![q] = at'[q]]
           /\ at'[q] \in Present \cup {0} /\ at'[q] \in 0..9 /\ at'[q] < at[q]
           /\ at'[q] = 0 <=> at[q] = 1
           /\ at'[q] < 3 <=> at[q] <= 3
           /\ at'[q] < 4 /\ at[q] > 4 => 4 \notin Present
           /\ at'[q] < 5 /\ at[q] > 5 => 5 \notin Present
           /\ Present' = Present /\ ServerInv'
<1>1. ServerInv /\ ShapeInv BY DEF IInv
<1>2. PICK i \in Present \cup {0} : Adjacent(i, at[q]) /\ at' = [at EXCEPT ![q] = i] BY DEF Outward
<1>3. at'[q] = i BY <1>1, <1>2 DEF ShapeInv
<1>4. Present' = Present /\ ServerInv' BY <1>1 DEF Present, ServerInv
<1> QED BY <1>1, <1>2, <1>3, <1>4, Neighbours

\* An early answer keeps the invariant, if it is counted unless it is 204.
LEMMA AnswerKeepsInvariant ==
    ASSUME IInv, NEW q \in Requests, moving[q] = "in", at[q] \in {6, 7, 8},
           NEW code \in {204, 403, 429, 503}, Answer(q, code),
           UNCHANGED <<server, enabled, method, inFlight, counted, recovered, records, history>>,
           rejected' = IF code = 204 THEN rejected ELSE rejected + 1
    PROVE  IInv'
<1> USE DEF records, history
<1>1. ServerInv /\ ShapeInv /\ Stages(q) BY DEF IInv
<1>2. Inward(q) BY <1>1 DEF Stages, Fresh, Outbound, Unwinding, Finished
<1>3. q \notin ran /\ q \notin panicked /\ sent[q] = 0 /\ observed[q] = 0 /\ Unrecorded(q)
      /\ at[q] \in Present
      BY <1>2 DEF Inward
<1>4. /\ at' = [at EXCEPT ![q] = at'[q]]
      /\ at'[q] \in Present \cup {0} /\ at'[q] \in 0..9 /\ at'[q] # 0 /\ ~ (at'[q] < 3)
      /\ at'[q] < 4 => 4 \notin Present
      /\ at'[q] < 5 => 5 \notin Present
      /\ Present' = Present /\ ServerInv'
      BY <1>3, OutwardLeads DEF Answer, Climb
<1>5. moving' = [moving EXCEPT ![q] = "out"] BY <1>1, <1>4 DEF Answer, Climb, ShapeInv
<1>6. /\ observed' = [observed EXCEPT ![q] = code] /\ sent' = [sent EXCEPT ![q] = code]
      BY <1>1, <1>3 DEF Answer, WriteStatus, ShapeInv
<1>7. ShapeInv' BY <1>1, <1>4, <1>5, <1>6 DEF ShapeInv, Statuses
<1>8. Alone(q) BY <1>1, <1>4, <1>5, <1>6 DEF Alone, ShapeInv
<1>9. Recorded(q, at[q])' BY <1>3, <1>4 DEF Recorded, Unrecorded
<1>10. Outbound(q)' BY <1>1, <1>3, <1>4, <1>5, <1>6, <1>9 DEF Outbound, ShapeInv
<1>11. Inside(q) /\ Inside(q)'
       BY <1>1, <1>4, <1>5, InsideIsByIndex DEF InsideByIndex, ShapeInv
<1>12. ~ Refused(q) /\ (Refused(q)' <=> code # 204)
       BY <1>1, <1>3, <1>6 DEF Refused, ShapeInv
<1>13. inFlight \in Int /\ rejected \in Int BY <1>1 DEF ShapeInv
<1>14. inFlight' + (IF Inside(q) THEN 1 ELSE 0) = inFlight + (IF Inside(q)' THEN 1 ELSE 0)
       BY <1>11, <1>13
<1>15. rejected' + (IF Refused(q) THEN 1 ELSE 0) = rejected + (IF Refused(q)' THEN 1 ELSE 0)
       BY <1>12, <1>13
<1> QED BY <1>7, <1>8, <1>10, <1>14, <1>15, AloneKeepsInvariant DEF Stages

\* A request in a layer on its way in is at that layer's index.
LEMMA LayerOnTheWay ==
    ASSUME IInv, NEW q \in Requests, moving[q] \in {"in", "out", "unwind"}
    PROVE  at[q] \in Present /\ at[q] \in 1..9
<1>1. ServerInv /\ Stages(q) BY DEF IInv
<1> QED BY <1>1, LayersPresent DEF Stages, Fresh, Inward, Outbound, Unwinding, Finished

LEMMA ArriveKeepsInvariant ==
    ASSUME IInv, NEW q \in Requests, Arrive(q)
    PROVE  IInv'
<1>1. Stages(q) BY DEF IInv
<1>2. at[q] = 0 BY <1>1 DEF Arrive, Stages, Fresh, Inward, Outbound, Unwinding, Finished
<1> QED BY <1>2, DescendKeepsInvariant DEF Arrive, metrics

LEMMA PassOnKeepsInvariant ==
    ASSUME IInv, NEW q \in Requests, PassOn(q)
    PROVE  IInv'
<1>1. at[q] # 3 BY LayerOnTheWay, LayerTellsIndex DEF PassOn
<1> QED BY <1>1, DescendKeepsInvariant DEF PassOn, metrics

LEMMA EnterMetricsKeepsInvariant ==
    ASSUME IInv, NEW q \in Requests, EnterMetrics(q)
    PROVE  IInv'
<1>1. at[q] = 3 BY LayerOnTheWay, LayerTellsIndex DEF EnterMetrics
<1> QED BY <1>1, DescendKeepsInvariant DEF EnterMetrics

LEMMA CORSKeepsInvariant ==
    ASSUME IInv, NEW q \in Requests, CORS(q)
    PROVE  IInv'
<1>1. at[q] = 6 BY LayerOnTheWay, LayerTellsIndex DEF CORS
<1>2. CASE Answer(q, 204) BY <1>1, <1>2, AnswerKeepsInvariant DEF CORS, metrics
<1>3. CASE Descend(q) /\ UNCHANGED writers BY <1>1, <1>3, DescendKeepsInvariant DEF CORS, metrics
<1> QED BY <1>2, <1>3 DEF CORS

LEMMA CSRFKeepsInvariant ==
    ASSUME IInv, NEW q \in Requests, CSRF(q)
    PROVE  IInv'
<1>1. at[q] = 7 BY LayerOnTheWay, LayerTellsIndex DEF CSRF
<1>2. CarriesMetrics(at[q]) BY <1>1, MetricsAreCarried DEF IInv
<1>3. CASE ObserveRejected(q) /\ Answer(q, 403)
      BY <1>1, <1>2, <1>3, AnswerKeepsInvariant DEF CSRF, ObserveRejected
<1>4. CASE Descend(q) /\ UNCHANGED <<writers, rejected>>
      BY <1>1, <1>4, DescendKeepsInvariant DEF CSRF
<1> QED BY <1>3, <1>4 DEF CSRF

LEMMA RateLimitKeepsInvariant ==
    ASSUME IInv, NEW q \in Requests, RateLimit(q)
    PROVE  IInv'
<1>1. at[q] = 8 BY LayerOnTheWay, LayerTellsIndex DEF RateLimit
<1>2. CarriesMetrics(at[q]) BY <1>1, MetricsAreCarried DEF IInv
<1>3. CASE ObserveRejected(q) /\ Answer(q, 429)
      BY <1>1, <1>2, <1>3, AnswerKeepsInvariant DEF RateLimit, ObserveRejected
<1>4. CASE ObserveRejected(q) /\ Answer(q, 503)
      BY <1>1, <1>2, <1>4, AnswerKeepsInvariant DEF RateLimit, ObserveRejected
<1>5. CASE Descend(q) /\ UNCHANGED <<writers, rejected>>
      BY <1>1, <1>5, DescendKeepsInvariant DEF RateLimit
<1> QED BY <1>3, <1>4, <1>5 DEF RateLimit

\* In the application a request may have been answered, and is not recorded.
LEMMA ApplicationState ==
    ASSUME IInv, NEW q \in Requests, InApplication(q)
    PROVE  /\ moving[q] = "in" /\ at[q] = 9 /\ at[q] \in Present
           /\ observed[q] = sent[q] /\ q \notin panicked /\ Unrecorded(q)
           /\ q \notin ran => sent[q] = 0
           /\ ~ Refused(q) /\ Inside(q)
<1>1. ServerInv /\ Stages(q) BY DEF IInv
<1>2. moving[q] = "in" /\ at[q] = 9 BY LayerOnTheWay, LayerTellsIndex DEF InApplication
<1>3. Inward(q) BY <1>1, <1>2 DEF Stages, Fresh, Outbound, Unwinding, Finished
<1> QED BY <1>1, <1>2, <1>3, InsideIsByIndex DEF Inward, Refused, InsideByIndex

LEMMA WriteKeepsInvariant ==
    ASSUME IInv, NEW q \in Requests, Write(q)
    PROVE  IInv'
<1> USE DEF Write, records, metrics
<1>1. ServerInv /\ ShapeInv BY DEF IInv
<1>2. /\ moving[q] = "in" /\ at[q] = 9 /\ at[q] \in Present
      /\ observed[q] = sent[q] /\ q \notin panicked /\ Unrecorded(q)
      /\ ~ Refused(q) /\ Inside(q)
      BY ApplicationState
<1>3. Present' = Present BY DEF Present
<1>4. PICK code \in {200, 404, 500} : WriteStatus(q, code) OBVIOUS
<1>5. ShapeInv' BY <1>1, <1>4 DEF ShapeInv, WriteStatus, Statuses
<1>6. Alone(q) BY <1>1, <1>4 DEF Alone, ShapeInv, WriteStatus
<1>7. observed'[q] = sent'[q] BY <1>1, <1>2, <1>4 DEF WriteStatus, ShapeInv
<1>8. Inward(q)' BY <1>2, <1>3, <1>7 DEF Inward, Unrecorded
<1>9. Inside(q)' BY <1>1, <1>2, <1>3, InsideIsByIndex DEF InsideByIndex
<1>10. ~ Refused(q)' BY DEF Refused
<1>11. inFlight \in Int /\ rejected \in Int BY <1>1 DEF ShapeInv
<1>12. inFlight' + (IF Inside(q) THEN 1 ELSE 0) = inFlight + (IF Inside(q)' THEN 1 ELSE 0)
       BY <1>2, <1>9, <1>11
<1>13. rejected' + (IF Refused(q) THEN 1 ELSE 0) = rejected + (IF Refused(q)' THEN 1 ELSE 0)
       BY <1>2, <1>10, <1>11
<1> QED BY <1>5, <1>6, <1>8, <1>12, <1>13, AloneKeepsInvariant DEF Stages

LEMMA ReturnKeepsInvariant ==
    ASSUME IInv, NEW q \in Requests, Return(q)
    PROVE  IInv'
<1> USE DEF Return, records, metrics, writers
<1>1. ServerInv /\ ShapeInv BY DEF IInv
<1>2. /\ moving[q] = "in" /\ at[q] = 9 /\ at[q] \in Present
      /\ observed[q] = sent[q] /\ q \notin panicked /\ Unrecorded(q)
      /\ ~ Refused(q) /\ Inside(q)
      BY ApplicationState
<1>3. /\ at' = [at EXCEPT ![q] = at'[q]]
      /\ at'[q] \in Present \cup {0} /\ at'[q] \in 0..9 /\ at'[q] # 0 /\ ~ (at'[q] < 3)
      /\ at'[q] < 4 => 4 \notin Present
      /\ at'[q] < 5 => 5 \notin Present
      /\ Present' = Present /\ ServerInv'
      BY <1>2, OutwardLeads DEF Climb
<1>4. moving' = [moving EXCEPT ![q] = "out"] BY <1>1, <1>3 DEF Climb, ShapeInv
<1>5. ShapeInv' BY <1>1, <1>3, <1>4 DEF ShapeInv
<1>6. Alone(q) BY <1>1, <1>3, <1>4 DEF Alone, ShapeInv
<1>7. Recorded(q, at[q])' BY <1>2, <1>3 DEF Recorded, Unrecorded
<1>8. Outbound(q)' BY <1>1, <1>2, <1>3, <1>4, <1>7 DEF Outbound, ShapeInv
<1>9. Inside(q)' BY <1>1, <1>3, <1>4, InsideIsByIndex DEF InsideByIndex, ShapeInv
<1>10. ~ Refused(q)' BY DEF Refused
<1>11. inFlight \in Int /\ rejected \in Int BY <1>1 DEF ShapeInv
<1>12. inFlight' + (IF Inside(q) THEN 1 ELSE 0) = inFlight + (IF Inside(q)' THEN 1 ELSE 0)
       BY <1>2, <1>9, <1>11
<1>13. rejected' + (IF Refused(q) THEN 1 ELSE 0) = rejected + (IF Refused(q)' THEN 1 ELSE 0)
       BY <1>2, <1>10, <1>11
<1> QED BY <1>5, <1>6, <1>8, <1>12, <1>13, AloneKeepsInvariant DEF Stages

LEMMA PanicKeepsInvariant ==
    ASSUME IInv, NEW q \in Requests, Panic(q)
    PROVE  IInv'
<1> USE DEF Panic, records, metrics, writers
<1>1. ServerInv /\ ShapeInv BY DEF IInv
<1>2. at[q] = 9 /\ at[q] \in Present /\ Unrecorded(q) /\ ~ Refused(q) /\ Inside(q)
      BY ApplicationState
<1>3. Present' = Present BY DEF Present
<1>4. moving'[q] = "unwind" BY <1>1 DEF ShapeInv
<1>5. ShapeInv' BY <1>1 DEF ShapeInv
<1>6. Alone(q) BY <1>1 DEF Alone, ShapeInv
<1>7. Unwinding(q)' BY <1>2, <1>3, <1>4 DEF Unwinding, Unrecorded
<1>8. Inside(q)' BY <1>1, <1>2, <1>3, <1>4, InsideIsByIndex DEF InsideByIndex
<1>9. ~ Refused(q)' BY DEF Refused
<1>10. inFlight \in Int /\ rejected \in Int BY <1>1 DEF ShapeInv
<1>11. inFlight' + (IF Inside(q) THEN 1 ELSE 0) = inFlight + (IF Inside(q)' THEN 1 ELSE 0)
       BY <1>2, <1>8, <1>10
<1>12. rejected' + (IF Refused(q) THEN 1 ELSE 0) = rejected + (IF Refused(q)' THEN 1 ELSE 0)
       BY <1>2, <1>9, <1>10
<1> QED BY <1>5, <1>6, <1>7, <1>11, <1>12, AloneKeepsInvariant DEF Stages

\* Each recording layer records as q leaves it, and no other does.
LEMMA LeaveLayerKeepsInvariant ==
    ASSUME IInv, NEW q \in Requests, LeaveLayer(q)
    PROVE  IInv'
<1> USE DEF LeaveLayer
<1>1. ServerInv /\ ShapeInv /\ Stages(q) BY DEF IInv
<1>2. Outbound(q) BY <1>1 DEF Stages, Fresh, Inward, Unwinding, Finished
<1>3. /\ at[q] \in Present /\ Recorded(q, at[q])
      /\ observed[q] = sent[q] /\ q \notin panicked
      BY <1>2 DEF Outbound
<1>4. /\ at[q] \in 1..9 /\ at' = [at EXCEPT ![q] = at'[q]]
      /\ at'[q] \in Present \cup {0} /\ at'[q] \in 0..9 /\ at'[q] < at[q]
      /\ at'[q] = 0 <=> at[q] = 1
      /\ at'[q] < 3 <=> at[q] <= 3
      /\ at'[q] < 4 /\ at[q] > 4 => 4 \notin Present
      /\ at'[q] < 5 /\ at[q] > 5 => 5 \notin Present
      /\ Present' = Present /\ ServerInv'
      BY <1>3, OutwardLeads DEF Climb
<1>5. moving' = [moving EXCEPT ![q] = IF at[q] = 1 THEN "done" ELSE "out"]
      BY <1>1, <1>4 DEF Climb
<1>6. StatusCode(q)' = StatusCode(q) /\ StatusCode(q) \in Statuses
      BY <1>1 DEF StatusCode, ShapeInv, Statuses
<1>7. inFlight' = (IF at[q] = 3 THEN inFlight - 1 ELSE inFlight)
      /\ counted' = [counted EXCEPT ![q] = IF at[q] = 3 THEN StatusCode(q) ELSE @]
      BY <1>1, <1>4, LayerTellsIndex DEF CountRequest, ShapeInv
<1>8. audited' = [audited EXCEPT ![q] = IF at[q] = 4 THEN StatusCode(q) ELSE @]
      BY <1>1, <1>4, LayerTellsIndex DEF AuditRequest, ShapeInv
<1>9. logged' = [logged EXCEPT ![q] = IF at[q] = 5 THEN StatusCode(q) ELSE @]
      BY <1>1, <1>4, LayerTellsIndex DEF LogRequest, ShapeInv
<1>10. sent' = [sent EXCEPT ![q] = IF at[q] = 1 /\ @ = 0 THEN 200 ELSE @]
       BY <1>1 DEF ShapeInv
<1>11. ShapeInv'
       BY <1>1, <1>4, <1>5, <1>6, <1>7, <1>8, <1>9, <1>10 DEF ShapeInv, history, Statuses
<1>12. Alone(q)
       BY <1>1, <1>4, <1>5, <1>7, <1>8, <1>9, <1>10 DEF Alone, ShapeInv, history
<1>13. Recorded(q, at[q])'
  <2>1. counted'[q] = IF at'[q] < 3 THEN StatusCode(q) ELSE 0
        BY <1>1, <1>3, <1>4, <1>7 DEF Recorded, ShapeInv
  <2>2. audited'[q] = IF at'[q] < 4 /\ 4 \in Present THEN StatusCode(q) ELSE 0
        BY <1>1, <1>3, <1>4, <1>8 DEF Recorded, ShapeInv
  <2>3. logged'[q] = IF at'[q] < 5 /\ 5 \in Present THEN StatusCode(q) ELSE 0
        BY <1>1, <1>3, <1>4, <1>9 DEF Recorded, ShapeInv
  <2> QED BY <1>4, <1>6, <2>1, <2>2, <2>3 DEF Recorded
<1>14. Stages(q)'
  <2>1. CASE at[q] = 1
    <3>1. moving'[q] = "done" /\ at'[q] = 0 BY <1>1, <1>4, <1>5, <2>1 DEF ShapeInv
    <3>2. sent'[q] = StatusCode(q)' BY <1>1, <1>3, <1>6, <1>10, <2>1 DEF ShapeInv, StatusCode
    <3>3. q \notin panicked' BY <1>3 DEF history
    <3>4. Recorded(q, 0)' BY <1>13, <3>1 DEF Recorded
    <3> QED BY <3>1, <3>2, <3>3, <3>4 DEF Stages, Finished
  <2>2. CASE at[q] # 1
    <3>1. moving'[q] = "out" /\ at'[q] \in Present'
          BY <1>1, <1>4, <1>5, <2>2 DEF ShapeInv
    <3>2. sent'[q] = observed'[q] BY <1>1, <1>3, <1>10, <2>2 DEF ShapeInv
    <3>3. q \notin panicked' BY <1>3 DEF history
    <3> QED BY <1>13, <3>1, <3>2, <3>3 DEF Stages, Outbound
  <2> QED BY <2>1, <2>2
<1>15. (Inside(q) <=> at[q] >= 3) /\ (Inside(q)' <=> at[q] > 3)
       BY <1>1, <1>4, <1>5, InsideIsByIndex DEF InsideByIndex, ShapeInv
<1>16. Refused(q)' <=> Refused(q) BY <1>1, <1>10 DEF Refused, ShapeInv, history
<1>17. inFlight \in Int /\ rejected \in Int BY <1>1 DEF ShapeInv
<1>18. inFlight' + (IF Inside(q) THEN 1 ELSE 0) = inFlight + (IF Inside(q)' THEN 1 ELSE 0)
       BY <1>4, <1>7, <1>15, <1>17
<1>19. rejected' + (IF Refused(q) THEN 1 ELSE 0) = rejected + (IF Refused(q)' THEN 1 ELSE 0)
       BY <1>16, <1>17
<1> QED BY <1>11, <1>12, <1>14, <1>18, <1>19, AloneKeepsInvariant

\* A panic leaves the gauge as a return would.
LEMMA UnwindKeepsInvariant ==
    ASSUME IInv, NEW q \in Requests, Unwind(q)
    PROVE  IInv'
<1> USE DEF Unwind, records, writers, history
<1>1. ServerInv /\ ShapeInv /\ Stages(q) BY DEF IInv
<1>2. Unwinding(q) BY <1>1 DEF Stages, Fresh, Inward, Outbound, Finished
<1>3. at[q] \in Present /\ Unrecorded(q) /\ q \in panicked BY <1>2 DEF Unwinding
<1>4. at[q] # 1 BY LayerOnTheWay, LayerTellsIndex
<1>5. /\ at[q] \in 1..9 /\ at' = [at EXCEPT ![q] = at'[q]]
      /\ at'[q] \in Present /\ at'[q] \in 0..9
      /\ at'[q] < 3 <=> at[q] <= 3
      /\ Present' = Present /\ ServerInv'
      BY <1>3, <1>4, OutwardLeads
<1>6. inFlight' = IF at[q] = 3 THEN inFlight - 1 ELSE inFlight
      BY <1>5, LayerTellsIndex
<1>7. ShapeInv' BY <1>1, <1>5, <1>6 DEF ShapeInv
<1>8. Alone(q) BY <1>1, <1>5 DEF Alone, ShapeInv
<1>9. Unwinding(q)' BY <1>2, <1>3, <1>5 DEF Unwinding, Unrecorded
<1>10. (Inside(q) <=> at[q] >= 3) /\ (Inside(q)' <=> at[q] > 3)
       BY <1>1, <1>5, InsideIsByIndex DEF InsideByIndex
<1>11. Refused(q)' <=> Refused(q) BY DEF Refused
<1>12. inFlight \in Int /\ rejected \in Int BY <1>1 DEF ShapeInv
<1>13. inFlight' + (IF Inside(q) THEN 1 ELSE 0) = inFlight + (IF Inside(q)' THEN 1 ELSE 0)
       BY <1>5, <1>6, <1>10, <1>12
<1>14. rejected' + (IF Refused(q) THEN 1 ELSE 0) = rejected + (IF Refused(q)' THEN 1 ELSE 0)
       BY <1>11, <1>12
<1> QED BY <1>7, <1>8, <1>9, <1>13, <1>14, AloneKeepsInvariant DEF Stages

\* Recovery is outside the metrics: it counts nothing.
LEMMA RecoverKeepsInvariant ==
    ASSUME IInv, NEW q \in Requests, Recover(q)
    PROVE  IInv'
<1> USE DEF Recover, records, history
<1>1. ServerInv /\ ShapeInv /\ Stages(q) BY DEF IInv
<1>2. Unwinding(q) BY <1>1 DEF Stages, Fresh, Inward, Outbound, Finished
<1>3. at[q] \in Present /\ Unrecorded(q) /\ q \in panicked /\ q \in ran
      BY <1>1, <1>2 DEF Unwinding, ShapeInv
<1>4. at[q] = 1 BY LayerOnTheWay, LayerTellsIndex
<1>5. recovered' = recovered BY <1>1, <1>4, MetricsAreCarried
<1>6. /\ at' = [at EXCEPT ![q] = 0] /\ at'[q] = 0
      /\ Present' = Present /\ ServerInv'
      BY <1>1, <1>3, <1>4, OutwardLeads DEF Climb
<1>7. moving' = [moving EXCEPT ![q] = "done"] BY <1>6 DEF Climb
<1>8. ShapeInv' BY <1>1, <1>6, <1>7 DEF ShapeInv, Statuses
<1>9. Alone(q) BY <1>1, <1>6, <1>7 DEF Alone, ShapeInv
<1>10. Finished(q)' BY <1>1, <1>3, <1>6, <1>7 DEF Finished, Unrecorded, ShapeInv
<1>11. ~ Inside(q) /\ ~ Inside(q)'
       BY <1>1, <1>4, <1>6, <1>7, InsideIsByIndex DEF InsideByIndex, ShapeInv
<1>12. ~ Refused(q) /\ ~ Refused(q)' BY <1>3 DEF Refused
<1>13. inFlight \in Int /\ rejected \in Int BY <1>1 DEF ShapeInv
<1>14. inFlight' + (IF Inside(q) THEN 1 ELSE 0) = inFlight + (IF Inside(q)' THEN 1 ELSE 0)
       BY <1>11, <1>13
<1>15. rejected' + (IF Refused(q) THEN 1 ELSE 0) = rejected + (IF Refused(q)' THEN 1 ELSE 0)
       BY <1>12, <1>13
<1> QED BY <1>5, <1>8, <1>9, <1>10, <1>14, <1>15, AloneKeepsInvariant DEF Stages

LEMMA StepKeepsInvariant == IInv /\ [Next]_vars => IInv'
<1> SUFFICES ASSUME IInv, [Next]_vars PROVE IInv' OBVIOUS
<1>1. CASE UNCHANGED vars
  <2> USE <1>1 DEF vars, writers, metrics, records, history
  <2>1. Present' = Present BY DEF Present
  <2>2. \A q \in Requests : Stages(q) => Stages(q)'
        BY <2>1 DEF Stages, Fresh, Inward, Outbound, Unwinding, Finished, Recorded,
                    Unrecorded, StatusCode
  <2>3. InFlightIsExact' BY <2>1 DEF IInv, InFlightIsExact, Inside
  <2>4. RejectionsAreFinal' BY DEF IInv, RejectionsAreFinal
  <2> QED BY <2>2, <2>3, <2>4 DEF IInv, ServerInv, ShapeInv
<1>2. CASE Done BY <1>1, <1>2 DEF Done
<1>3. ASSUME NEW q \in Requests, Arrive(q) PROVE IInv' BY <1>3, ArriveKeepsInvariant
<1>4. ASSUME NEW q \in Requests, PassOn(q) PROVE IInv' BY <1>4, PassOnKeepsInvariant
<1>5. ASSUME NEW q \in Requests, EnterMetrics(q) PROVE IInv' BY <1>5, EnterMetricsKeepsInvariant
<1>6. ASSUME NEW q \in Requests, CORS(q) PROVE IInv' BY <1>6, CORSKeepsInvariant
<1>7. ASSUME NEW q \in Requests, CSRF(q) PROVE IInv' BY <1>7, CSRFKeepsInvariant
<1>8. ASSUME NEW q \in Requests, RateLimit(q) PROVE IInv' BY <1>8, RateLimitKeepsInvariant
<1>9. ASSUME NEW q \in Requests, Write(q) PROVE IInv' BY <1>9, WriteKeepsInvariant
<1>10. ASSUME NEW q \in Requests, Return(q) PROVE IInv' BY <1>10, ReturnKeepsInvariant
<1>11. ASSUME NEW q \in Requests, Panic(q) PROVE IInv' BY <1>11, PanicKeepsInvariant
<1>12. ASSUME NEW q \in Requests, LeaveLayer(q) PROVE IInv' BY <1>12, LeaveLayerKeepsInvariant
<1>13. ASSUME NEW q \in Requests, Unwind(q) PROVE IInv' BY <1>13, UnwindKeepsInvariant
<1>14. ASSUME NEW q \in Requests, Recover(q) PROVE IInv' BY <1>14, RecoverKeepsInvariant
<1> QED BY <1>1, <1>2, <1>3, <1>4, <1>5, <1>6, <1>7, <1>8, <1>9, <1>10, <1>11, <1>12,
           <1>13, <1>14 DEF Next

LEMMA InitHoldsInvariant == Init => IInv
<1> SUFFICES ASSUME Init PROVE IInv OBVIOUS
<1> USE DEF Init
<1>1. ServerInv BY DEF ServerInv, Optional
<1>2. ShapeInv BY DEF ShapeInv, Statuses
<1>3. \A q \in Requests : Stages(q) BY DEF Stages, Fresh, Unrecorded
<1>4. \A q \in Requests : ~ Inside(q)
      BY <1>1, InsideIsByIndex DEF InsideByIndex
<1>5. {q \in Requests : Inside(q)} = {} BY <1>4
<1>6. InFlightIsExact BY <1>5, FS_EmptySet DEF InFlightIsExact
<1>7. {q \in Requests \ ran : sent[q] \in {403, 429, 503}} = {} OBVIOUS
<1>8. RejectionsAreFinal BY <1>7, FS_EmptySet DEF RejectionsAreFinal
<1> QED BY <1>1, <1>2, <1>3, <1>6, <1>8 DEF IInv

LEMMA InvariantHolds == Spec => []IInv
<1>1. Init => IInv BY InitHoldsInvariant
<1>2. IInv /\ [Next]_vars => IInv' BY StepKeepsInvariant
<1> QED BY <1>1, <1>2, PTL DEF Spec

-----------------------------------------------------------------------------
(* The theorems. *)

\* The variables keep their types; each counter stays within the number of
\* requests, because each request moves it once.
THEOREM TypeCorrect == Spec => []TypeOK
<1>1. IInv => TypeOK
  <2> SUFFICES ASSUME IInv PROVE TypeOK OBVIOUS
  <2>1. ServerInv /\ ShapeInv BY DEF IInv
  <2>2. \A q \in Requests : at[q] \in Present \cup {0}
        BY DEF IInv, Stages, Fresh, Inward, Outbound, Unwinding, Finished
  <2>3. Cardinality(Requests) \in Nat BY FS_CardinalityType, PipelineAssumption
  <2>4. inFlight \in 0..Cardinality(Requests)
    <3> DEFINE A == {q \in Requests : Inside(q)}
    <3>1. A \in SUBSET Requests /\ inFlight = Cardinality(A) BY DEF IInv, InFlightIsExact
    <3> HIDE DEF A
    <3> QED BY <2>3, <3>1, FS_Subset, FS_CardinalityType, PipelineAssumption
  <2>5. rejected \in 0..Cardinality(Requests)
    <3> DEFINE A == {q \in Requests \ ran : sent[q] \in {403, 429, 503}}
    <3>1. A \in SUBSET Requests /\ rejected = Cardinality(A) BY DEF IInv, RejectionsAreFinal
    <3> HIDE DEF A
    <3> QED BY <2>3, <3>1, FS_Subset, FS_CardinalityType, PipelineAssumption
  <2>6. recovered \in 0..Cardinality(Requests) BY <2>3 DEF IInv
  <2> QED BY <2>1, <2>2, <2>4, <2>5, <2>6 DEF TypeOK, ServerInv, ShapeInv
<1> QED BY <1>1, InvariantHolds, PTL

\* The in-flight gauge is exact whatever the layers answer and whoever panics.
THEOREM GaugeIsExact == Spec => []InFlightIsExact
<1>1. IInv => InFlightIsExact BY DEF IInv
<1> QED BY <1>1, InvariantHolds, PTL

\* A rejected request is counted once and never reaches the application.
THEOREM RejectedNeverRuns == Spec => []RejectionsAreFinal
<1>1. IInv => RejectionsAreFinal BY DEF IInv
<1> QED BY <1>1, InvariantHolds, PTL

\* Metrics, audit record and log line agree with what the client was sent.
THEOREM RecordsMatchClient == Spec => []RecordsAgree
<1>1. IInv => RecordsAgree
  <2> SUFFICES ASSUME IInv, NEW q \in Requests, moving[q] = "done"
               PROVE  /\ {counted[q], audited[q], logged[q]} \subseteq {0, sent[q]}
                      /\ q \notin panicked =>
                             /\ counted[q] # 0
                             /\ "RequestAudit" \in enabled => audited[q] # 0
                             /\ "RequestLogger" \in enabled => logged[q] # 0
      BY DEF RecordsAgree
  <2>1. ServerInv /\ ShapeInv /\ Stages(q) BY DEF IInv
  <2>2. Finished(q) BY <2>1 DEF Stages, Fresh, Inward, Outbound, Unwinding
  <2>3. CASE q \in panicked BY <2>2, <2>3 DEF Finished, Unrecorded
  <2>4. CASE q \notin panicked
    <3>1. StatusCode(q) # 0 BY <2>1 DEF StatusCode, ShapeInv, Statuses
    <3>2. Recorded(q, 0) /\ sent[q] = StatusCode(q) BY <2>2, <2>4 DEF Finished
    <3> QED BY <2>1, <3>1, <3>2, LayersPresent DEF Recorded
  <2> QED BY <2>3, <2>4
<1> QED BY <1>1, InvariantHolds, PTL
=============================================================================
