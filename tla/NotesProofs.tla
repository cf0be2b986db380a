----------------------------- MODULE NotesProofs -----------------------------
(***************************************************************************)
(* Proofs about Notes, for any number of requests, ids and values.         *)
(***************************************************************************)
EXTENDS Notes, TLAPS

\* A handler that got past its checks holds a well-formed request and row, and
\* the row it is about to write has the weather of its location.  An update
\* that keeps the location takes this over from the row it read, which is why
\* the invariant and WeatherMatchesLocation need each other.
HandlersReady ==
    \A c \in Clients : pc[c] # "idle" =>
        /\ draft[c] \in Draft /\ request[c] \in Request
        /\ request[c].op = "update" => request[c].id \in Ids
        /\ pc[c] = "write" => draft[c] \in Row /\ draft[c].weather = draft[c].location

\* Every row was asked for.
RowsWereAsked == \A i \in Ids : notes[i] # NoNote => asked[i] # NoNote

Stored == notes \in [Ids -> Row \cup {NoNote}]
Generated == spent \subseteq Ids /\ \A i \in Ids : notes[i] # NoNote => i \in spent
Handling ==
    /\ pc \in [Clients -> {"idle", "lookup", "write"}]
    /\ request \in [Clients -> Request \cup {Absent}]
    /\ draft \in [Clients -> Draft \cup {NoNote}]
History ==
    /\ deletes \in [Ids -> Nat]
    /\ asked \in [Ids -> [title : Titles, location : Locations] \cup {NoNote}]

\* The inductive invariant.
IInv ==
    /\ Stored /\ Generated /\ Handling /\ History
    /\ HandlersReady /\ RowsWereAsked /\ WeatherMatchesLocation

-----------------------------------------------------------------------------
(* The helpers. *)

\* Merging a request into a row gives a row, and keeps the weather.
LEMMA UpdatedRow ==
    ASSUME NEW n \in Row, NEW t \in Titles \cup {Absent}, NEW l \in Locations \cup {Absent}
    PROVE  /\ Updated(n, t, l) \in Row
           /\ Updated(n, t, l).weather = n.weather
           /\ Updated(n, t, l).location = IF l = Absent THEN n.location ELSE l
BY DEF Updated, Row

\* Merging a request into the fields asked for before gives such fields.
LEMMA UpdatedFields ==
    ASSUME NEW f \in [title : Titles, location : Locations],
           NEW t \in Titles \cup {Absent}, NEW l \in Locations \cup {Absent}
    PROVE  Updated(f, t, l) \in [title : Titles, location : Locations]
BY DEF Updated

\* Rows and drafts are not NoNote, and a row is a draft.
LEMMA RowsAreNotes == NoNote \notin Row /\ NoNote \notin Draft /\ Row \subseteq Draft
BY ValuesAssumption DEF Row, Draft

LEMMA InitImpliesIInv == Init => IInv
BY DEF Init, IInv, Stored, Generated, Handling, History, HandlersReady,
       RowsWereAsked, WeatherMatchesLocation

\* A handler that answers leaves the invariants of the handlers alone.
LEMMA RespondKeepsHandlers ==
    ASSUME NEW c \in Clients, Handling, HandlersReady, Respond(c)
    PROVE  Handling' /\ HandlersReady'
BY DEF Handling, HandlersReady, Respond

\* So does one that has prepared a fitting row.
LEMMA PrepareKeepsHandlers ==
    ASSUME NEW c \in Clients, Handling, HandlersReady,
           NEW r \in Request, r.op = "update" => r.id \in Ids,
           NEW row \in Draft, NEW stage \in {"lookup", "write"},
           stage = "write" => row \in Row /\ row.weather = row.location,
           Prepare(c, r, row, stage)
    PROVE  Handling' /\ HandlersReady'
<1>1. Handling' BY DEF Handling, Prepare
<1>2. HandlersReady'
  <2> SUFFICES ASSUME NEW d \in Clients, pc'[d] # "idle"
               PROVE  /\ draft'[d] \in Draft /\ request'[d] \in Request
                      /\ request'[d].op = "update" => request'[d].id \in Ids
                      /\ pc'[d] = "write" => draft'[d] \in Row /\ draft'[d].weather = draft'[d].location
      BY DEF HandlersReady
  <2>1. CASE d = c
    <3>1. pc'[c] = stage /\ request'[c] = r /\ draft'[c] = row
        BY DEF Handling, Prepare
    <3>2. QED BY <2>1, <3>1
  <2>2. CASE d # c
    <3>1. pc'[d] = pc[d] /\ request'[d] = request[d] /\ draft'[d] = draft[d]
        BY <2>2 DEF Handling, Prepare
    <3>2. QED BY <3>1 DEF HandlersReady
  <2>3. QED BY <2>1, <2>2
<1>3. QED BY <1>1, <1>2

\* Writing a row with the weather of its location keeps the table's invariants.
LEMMA WriteKeepsTable ==
    ASSUME NEW c \in Clients, NEW i \in Ids, IInv,
           NEW row \in Row, row.weather = row.location,
           NEW fields \in [title : Titles, location : Locations],
           Write(c, i, row, fields)
    PROVE  IInv'
<1>1. fields # NoNote => fields \in [title : Titles, location : Locations] OBVIOUS
<1>2. Handling' /\ HandlersReady'
    BY RespondKeepsHandlers DEF IInv, Write
<1>3. Stored' /\ History' BY DEF IInv, Stored, History, Write
<1>4. \A j \in Ids : /\ notes'[j] = IF j = i THEN row ELSE notes[j]
                     /\ asked'[j] = IF j = i THEN fields ELSE asked[j]
    BY DEF IInv, Stored, History, Write
<1>5. Generated'
  <2>1. spent' \subseteq Ids BY DEF IInv, Generated, Write
  <2>2. ASSUME NEW j \in Ids, notes'[j] # NoNote PROVE j \in spent'
      BY <1>4, <2>2 DEF IInv, Generated, Write
  <2>3. QED BY <2>1, <2>2 DEF Generated
<1>6. WeatherMatchesLocation' BY <1>4 DEF IInv, WeatherMatchesLocation
<1>7. RowsWereAsked'
    BY <1>1, <1>4, ValuesAssumption DEF IInv, RowsWereAsked
<1>8. QED BY <1>2, <1>3, <1>5, <1>6, <1>7 DEF IInv

-----------------------------------------------------------------------------
(* The actions. *)

LEMMA BeginCreateKeepsIInv ==
    ASSUME IInv, NEW c \in Clients, NEW t \in Titles \cup {Bad}, NEW l \in Locations \cup {Bad},
           BeginCreate(c, t, l)
    PROVE  IInv'
<1> DEFINE r == [op |-> "create", id |-> Absent, title |-> t, location |-> l]
           row == [title |-> t, location |-> l, weather |-> Absent]
<1>1. t \in Titles /\ l \in Locations BY DEF BeginCreate
<1>2. r \in Request /\ r.op # "update" BY <1>1 DEF Request
<1>3. row \in Draft BY <1>1 DEF Draft
<1>4. Prepare(c, r, row, "lookup") BY DEF BeginCreate
<1>5. Handling' /\ HandlersReady'
  <2> HIDE DEF r, row
  <2>1. QED BY <1>2, <1>3, <1>4, PrepareKeepsHandlers DEF IInv
<1>6. UNCHANGED tableVars BY DEF BeginCreate
<1>7. QED
    BY <1>5, <1>6 DEF IInv, tableVars, Stored, Generated, History, RowsWereAsked,
                      WeatherMatchesLocation

LEMMA BeginUpdateKeepsIInv ==
    ASSUME IInv, NEW c \in Clients, NEW i \in Ids,
           NEW t \in Titles \cup {Bad, Absent}, NEW l \in Locations \cup {Bad, Absent},
           BeginUpdate(c, i, t, l)
    PROVE  IInv'
<1> DEFINE r == [op |-> "update", id |-> i, title |-> t, location |-> l]
           row == Updated(notes[i], t, l)
           stage == IF l \in {Absent, notes[i].location} THEN "write" ELSE "lookup"
<1>1. t \in Titles \cup {Absent} /\ l \in Locations \cup {Absent}
    BY DEF BeginUpdate
<1>2. notes[i] \in Row /\ notes[i].weather = notes[i].location
    BY DEF BeginUpdate, IInv, Stored, WeatherMatchesLocation
<1>3. r \in Request /\ r.op = "update" /\ r.id \in Ids
    BY <1>1 DEF Request
<1>4. /\ row \in Row /\ row \in Draft
      /\ stage = "write" => row.weather = row.location
    BY <1>1, <1>2, UpdatedRow, RowsAreNotes
<1>5. stage \in {"lookup", "write"} OBVIOUS
<1>6. Prepare(c, r, row, stage) BY DEF BeginUpdate
<1>7. Handling' /\ HandlersReady'
  <2> HIDE DEF r, row, stage
  <2>1. QED BY <1>3, <1>4, <1>5, <1>6, PrepareKeepsHandlers DEF IInv
<1>8. UNCHANGED tableVars BY DEF BeginUpdate
<1>9. QED
    BY <1>7, <1>8 DEF IInv, tableVars, Stored, Generated, History, RowsWereAsked,
                      WeatherMatchesLocation

LEMMA DeleteKeepsIInv ==
    ASSUME IInv, NEW c \in Clients, NEW i \in Ids, Delete(c, i)
    PROVE  IInv'
<1>1. Handling' /\ HandlersReady'
    BY DEF Delete, handlerVars, IInv, Handling, HandlersReady
<1>2. Stored' /\ History' BY DEF Delete, IInv, Stored, History
<1>3. \A j \in Ids : notes'[j] = IF j = i THEN NoNote ELSE notes[j]
    BY DEF Delete, IInv, Stored
<1>4. Generated' /\ RowsWereAsked' /\ WeatherMatchesLocation'
    BY <1>3 DEF Delete, IInv, Generated, RowsWereAsked, WeatherMatchesLocation
<1>5. QED BY <1>1, <1>2, <1>4 DEF IInv

LEMMA ResolveKeepsIInv ==
    ASSUME IInv, NEW c \in Clients, Resolve(c)
    PROVE  IInv'
<1>1. draft[c] \in Draft BY DEF Resolve, IInv, HandlersReady
<1>2. /\ [draft[c] EXCEPT !.weather = draft[c].location] \in Row
      /\ [draft[c] EXCEPT !.weather = draft[c].location] \in Draft
    BY <1>1 DEF Draft, Row
<1>3. draft' = [draft EXCEPT ![c] = [draft[c] EXCEPT !.weather = draft[c].location]]
    BY DEF Resolve, IInv, Handling
<1>4. Handling' BY <1>2, <1>3 DEF Resolve, IInv, Handling
<1>5. HandlersReady'
  <2> SUFFICES ASSUME NEW d \in Clients, pc'[d] # "idle"
               PROVE  /\ draft'[d] \in Draft /\ request'[d] \in Request
                      /\ request'[d].op = "update" => request'[d].id \in Ids
                      /\ pc'[d] = "write" => draft'[d] \in Row /\ draft'[d].weather = draft'[d].location
      BY DEF HandlersReady
  <2>1. request' = request BY DEF Resolve
  <2>2. CASE d = c
    <3>1. draft'[c] = [draft[c] EXCEPT !.weather = draft[c].location]
        BY <1>3 DEF IInv, Handling
    <3>2. draft'[c].weather = draft'[c].location
        BY <1>1, <3>1 DEF Draft
    <3>3. pc[c] # "idle" BY DEF Resolve
    <3>4. QED BY <1>2, <2>1, <2>2, <3>1, <3>2, <3>3 DEF IInv, HandlersReady
  <2>3. CASE d # c
    <3>1. pc'[d] = pc[d] /\ draft'[d] = draft[d]
        BY <1>3, <2>3 DEF Resolve, IInv, Handling
    <3>2. QED BY <2>1, <3>1 DEF IInv, HandlersReady
  <2>4. QED BY <2>2, <2>3
<1>6. QED
    BY <1>4, <1>5 DEF IInv, Resolve, tableVars, Stored, Generated, History, RowsWereAsked,
                      WeatherMatchesLocation

LEMMA FailKeepsIInv ==
    ASSUME IInv, NEW c \in Clients, Fail(c)
    PROVE  IInv'
<1>1. Handling' /\ HandlersReady' BY RespondKeepsHandlers DEF Fail, IInv
<1>2. QED
    BY <1>1 DEF IInv, Fail, tableVars, Stored, Generated, History, RowsWereAsked,
                WeatherMatchesLocation

LEMMA InsertKeepsIInv ==
    ASSUME IInv, NEW c \in Clients, Insert(c)
    PROVE  IInv'
<1>1. PICK i \in Ids : Write(c, i, draft[c], [title |-> draft[c].title,
                                              location |-> draft[c].location])
    BY DEF Insert
<1>2. draft[c] \in Row /\ draft[c].weather = draft[c].location
    BY DEF Insert, IInv, HandlersReady
<1>3. [title |-> draft[c].title, location |-> draft[c].location]
          \in [title : Titles, location : Locations]
    BY <1>2 DEF Row
<1>4. QED BY <1>1, <1>2, <1>3, WriteKeepsTable

LEMMA WriteUpdateKeepsIInv ==
    ASSUME IInv, NEW c \in Clients, WriteUpdate(c)
    PROVE  IInv'
<1>1. PICK r : r = request[c] OBVIOUS
<1>2. r \in Request /\ r.id \in Ids
    BY <1>1 DEF WriteUpdate, IInv, HandlersReady
<1>3. /\ notes[r.id] # NoNote
      /\ Write(c, r.id, draft[c], Updated(asked[r.id], r.title, r.location))
    BY <1>1 DEF WriteUpdate
<1>4. draft[c] \in Row /\ draft[c].weather = draft[c].location
    BY DEF WriteUpdate, IInv, HandlersReady
<1>5. asked[r.id] \in [title : Titles, location : Locations]
    BY <1>2, <1>3 DEF IInv, RowsWereAsked, History
<1>6. Updated(asked[r.id], r.title, r.location) \in [title : Titles, location : Locations]
    BY <1>2, <1>5, UpdatedFields DEF Request
<1>7. QED BY <1>2, <1>3, <1>4, <1>6, WriteKeepsTable

LEMMA NextKeepsIInv == IInv /\ [Next]_vars => IInv'
<1> SUFFICES ASSUME IInv, [Next]_vars PROVE IInv' OBVIOUS
<1>1. CASE Next
  <2>1. PICK c \in Clients :
          \/ \E t \in Titles \cup {Bad}, l \in Locations \cup {Bad} : BeginCreate(c, t, l)
          \/ \E i \in Ids, t \in Titles \cup {Bad, Absent}, l \in Locations \cup {Bad, Absent} :
                 BeginUpdate(c, i, t, l)
          \/ \E i \in Ids : Delete(c, i)
          \/ Resolve(c) \/ Fail(c) \/ Insert(c) \/ WriteUpdate(c)
      BY <1>1 DEF Next
  <2>2. CASE \E t \in Titles \cup {Bad}, l \in Locations \cup {Bad} : BeginCreate(c, t, l)
      BY <2>2, BeginCreateKeepsIInv
  <2>3. CASE \E i \in Ids, t \in Titles \cup {Bad, Absent}, l \in Locations \cup {Bad, Absent} :
                 BeginUpdate(c, i, t, l)
      BY <2>3, BeginUpdateKeepsIInv
  <2>4. CASE \E i \in Ids : Delete(c, i) BY <2>4, DeleteKeepsIInv
  <2>5. CASE Resolve(c) BY <2>5, ResolveKeepsIInv
  <2>6. CASE Fail(c) BY <2>6, FailKeepsIInv
  <2>7. CASE Insert(c) BY <2>7, InsertKeepsIInv
  <2>8. CASE WriteUpdate(c) BY <2>8, WriteUpdateKeepsIInv
  <2>9. QED BY <2>1, <2>2, <2>3, <2>4, <2>5, <2>6, <2>7, <2>8
<1>2. CASE UNCHANGED vars
    BY <1>2 DEF vars, IInv, Stored, Generated, Handling, History, HandlersReady,
                RowsWereAsked, WeatherMatchesLocation
<1>3. QED BY <1>1, <1>2

-----------------------------------------------------------------------------
(* The theorems. *)

\* Every reachable state satisfies the inductive invariant.
THEOREM Invariance == Spec => []IInv
<1>1. QED BY InitImpliesIInv, NextKeepsIInv, PTL DEF Spec

\* Type correctness.
THEOREM TypeCorrect == Spec => []TypeOK
<1>1. IInv => TypeOK
    BY DEF IInv, Stored, Generated, Handling, History, HandlersReady, TypeOK
<1>2. QED BY <1>1, Invariance, PTL

\* Whatever updates overlap (Service.UpdateNote reads, looks the weather up
\* and writes without a transaction), the weather stored with a note is that
\* of its location.
THEOREM WeatherIsOfTheLocation == Spec => []WeatherMatchesLocation
<1>1. IInv => WeatherMatchesLocation BY DEF IInv
<1>2. QED BY <1>1, Invariance, PTL

\* An update in flight never brings a deleted note back.
THEOREM DeletedStaysDeleted == Spec => NeverResurrected
<1>1. ASSUME IInv, IInv', [Next]_vars
      PROVE  [\A i \in spent : notes[i] = NoNote => notes'[i] = NoNote]_vars
  <2> SUFFICES ASSUME Next, NEW i \in spent, notes[i] = NoNote PROVE notes'[i] = NoNote
      BY <1>1
  <2>1. i \in Ids BY <1>1 DEF IInv, Generated
  <2>2. PICK c \in Clients :
          \/ \E t \in Titles \cup {Bad}, l \in Locations \cup {Bad} : BeginCreate(c, t, l)
          \/ \E j \in Ids, t \in Titles \cup {Bad, Absent}, l \in Locations \cup {Bad, Absent} :
                 BeginUpdate(c, j, t, l)
          \/ \E j \in Ids : Delete(c, j)
          \/ Resolve(c) \/ Fail(c) \/ Insert(c) \/ WriteUpdate(c)
      BY DEF Next
  <2>3. CASE UNCHANGED notes BY <2>3
  <2>4. CASE \E j \in Ids : Delete(c, j)
      BY <1>1, <2>1, <2>4 DEF Delete, IInv, Stored
  <2>5. CASE Insert(c) BY <1>1, <2>1, <2>5 DEF Insert, Write, IInv, Stored
  <2>6. CASE WriteUpdate(c) BY <1>1, <2>1, <2>6 DEF WriteUpdate, Write, IInv, Stored
  <2>7. QED
      BY <2>2, <2>3, <2>4, <2>5, <2>6 DEF BeginCreate, BeginUpdate, Resolve, Fail, tableVars
<1>2. QED BY <1>1, Invariance, PTL DEF Spec, NeverResurrected

\* A note whose deletion was answered is gone for good.
DeletedIsGone ==
    \A i \in Ids : deletes[i] = 0 \/ (deletes[i] = 1 /\ notes[i] = NoNote /\ i \in spent)

LEMMA NextKeepsDeletedIsGone == IInv /\ DeletedIsGone /\ [Next]_vars => DeletedIsGone'
<1> SUFFICES ASSUME IInv, DeletedIsGone, [Next]_vars, NEW i \in Ids
             PROVE  deletes'[i] = 0 \/ (deletes'[i] = 1 /\ notes'[i] = NoNote /\ i \in spent')
    BY DEF DeletedIsGone
<1>1. deletes[i] = 0 \/ (deletes[i] = 1 /\ notes[i] = NoNote /\ i \in spent)
    BY DEF DeletedIsGone
<1>2. CASE UNCHANGED <<notes, spent, deletes>> BY <1>1, <1>2
<1>3. CASE \E c \in Clients, j \in Ids : Delete(c, j)
  <2>1. PICK c \in Clients, j \in Ids : Delete(c, j) BY <1>3
  <2>2. notes[j] # NoNote /\ j \in spent BY <2>1 DEF Delete, IInv, Generated
  <2>3. CASE i = j
    <3>1. deletes[i] = 0 BY <1>1, <2>2, <2>3
    <3>2. notes'[i] = NoNote /\ spent' = spent BY <2>1, <2>3 DEF Delete, IInv, Stored
    <3>3. deletes'[i] \in {0, 1}
        BY <2>1, <2>3, <3>1 DEF Delete, IInv, History
    <3>4. QED BY <2>2, <2>3, <3>2, <3>3
  <2>4. CASE i # j
    <3>1. deletes'[i] = deletes[i] /\ notes'[i] = notes[i] /\ spent' = spent
        BY <2>1, <2>4 DEF Delete, IInv, Stored, History
    <3>2. QED BY <1>1, <3>1
  <2>5. QED BY <2>3, <2>4
<1>4. CASE \E c \in Clients : Insert(c)
    BY <1>1, <1>4 DEF Insert, Write, IInv, Stored
<1>5. CASE \E c \in Clients : WriteUpdate(c)
    BY <1>1, <1>5 DEF WriteUpdate, Write, IInv, Stored
<1>6. QED
    BY <1>2, <1>3, <1>4, <1>5 DEF Next, vars, BeginCreate, BeginUpdate, Resolve, Fail, tableVars

\* Of the requests that delete a note (DELETE ... WHERE id, which counts the
\* rows it deleted), one at most is told it did.
THEOREM DeletesAnsweredOnce == Spec => []DeletedOnce
<1>1. Init => DeletedIsGone BY DEF Init, DeletedIsGone
<1>2. DeletedIsGone => DeletedOnce BY DEF DeletedIsGone, DeletedOnce
<1>3. QED BY <1>1, <1>2, Invariance, NextKeepsDeletedIsGone, PTL DEF Spec
=============================================================================
