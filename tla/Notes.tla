-------------------------------- MODULE Notes --------------------------------
(***************************************************************************)
(* Creating, updating and deleting notes (notes.Service over the notes     *)
(* table) by concurrent requests.  A note stores the weather of its        *)
(* location, which the service looks up before it writes the row; module   *)
(* WeatherLookup has the lookup itself.  The body of a note is treated     *)
(* like its title and left out; weather is the location it was looked up   *)
(* for.                                                                    *)
(***************************************************************************)
EXTENDS Integers, FiniteSets

CONSTANTS
    Clients,    \* requests in progress at a time
    Ids,        \* ids the database generates (never twice)
    Titles, Locations,  \* valid values, trimmed
    Bad,        \* a value validateRequiredString refuses
    Absent,     \* an optional field the request leaves out
    NoNote      \* no row

ASSUME ValuesAssumption ==
    /\ {Bad, Absent} \cap (Titles \cup Locations) = {} /\ Bad # Absent
    /\ NoNote \notin [title : Titles, location : Locations]
    /\ NoNote \notin [title : Titles, location : Locations, weather : Locations \cup {Absent}]

VARIABLES
    notes,    \* the table
    spent,    \* the ids it has generated
    pc,       \* where the handler of each client's request is
    request,  \* the operation, the id and the fields the request names
    draft,    \* the row the handler is about to write
    deletes,  \* history: how often a client was told it deleted the note
    asked     \* history: the last value a written request named, per field

vars == <<notes, spent, pc, request, draft, deletes, asked>>

Row == [title : Titles, location : Locations, weather : Locations]
Draft == [title : Titles, location : Locations, weather : Locations \cup {Absent}]
Request == [op : {"create", "update"}, id : Ids \cup {Absent},
            title : Titles \cup {Absent}, location : Locations \cup {Absent}]

TypeOK ==
    /\ notes \in [Ids -> Row \cup {NoNote}]
    /\ spent \subseteq Ids /\ \A i \in Ids : notes[i] # NoNote => i \in spent
    /\ pc \in [Clients -> {"idle", "lookup", "write"}]
    /\ request \in [Clients -> Request \cup {Absent}]
    /\ draft \in [Clients -> Draft \cup {NoNote}]
    /\ \A c \in Clients : pc[c] = "write" => draft[c] \in Row
    /\ deletes \in [Ids -> Nat]
    /\ asked \in [Ids -> [title : Titles, location : Locations] \cup {NoNote}]

Init ==
    /\ notes = [i \in Ids |-> NoNote] /\ spent = {}
    /\ pc = [c \in Clients |-> "idle"]
    /\ request = [c \in Clients |-> Absent]
    /\ draft = [c \in Clients |-> NoNote]
    /\ deletes = [i \in Ids |-> 0]
    /\ asked = [i \in Ids |-> NoNote]

tableVars == <<notes, spent, deletes, asked>>
handlerVars == <<pc, request, draft>>

\* The handler returns; what it answers is told apart only where a property needs it.
Respond(c) ==
    /\ pc' = [pc EXCEPT ![c] = "idle"]
    /\ request' = [request EXCEPT ![c] = Absent]
    /\ draft' = [draft EXCEPT ![c] = NoNote]

\* The handler of r has prepared row and goes on at stage.
Prepare(c, r, row, stage) ==
    /\ pc' = [pc EXCEPT ![c] = stage]
    /\ request' = [request EXCEPT ![c] = r]
    /\ draft' = [draft EXCEPT ![c] = row]

-----------------------------------------------------------------------------
(* The handlers, up to the weather lookup.  A request refused before it     *)
(* reads the table (400, or a read that fails: 500) leaves no trace.        *)

BeginCreate(c, title, location) ==
    /\ pc[c] = "idle"
    /\ Bad \notin {title, location}
    /\ Prepare(c, [op |-> "create", id |-> Absent, title |-> title, location |-> location],
                  [title |-> title, location |-> location, weather |-> Absent], "lookup")
    /\ UNCHANGED tableVars

\* The row n with the named fields replaced; the weather is kept.
Updated(n, title, location) ==
    [n EXCEPT !.title = IF title = Absent THEN @ ELSE title,
              !.location = IF location = Absent THEN @ ELSE location]

\* The note is read (else 404), the fields are checked (else 400) and merged;
\* the weather is looked up only when the location differs from the one read.
BeginUpdate(c, id, title, location) ==
    /\ pc[c] = "idle" /\ notes[id] # NoNote
    /\ {title, location} # {Absent} /\ Bad \notin {title, location}
    /\ Prepare(c, [op |-> "update", id |-> id, title |-> title, location |-> location],
                  Updated(notes[id], title, location),
                  IF location \in {Absent, notes[id].location} THEN "write" ELSE "lookup")
    /\ UNCHANGED tableVars

\* A row is deleted (else 404): 204, or 500 when the answer is lost.
Delete(c, id) ==
    /\ pc[c] = "idle" /\ notes[id] # NoNote
    /\ notes' = [notes EXCEPT ![id] = NoNote]
    /\ deletes' = [deletes EXCEPT ![id] = @ + 1] \/ UNCHANGED deletes
    /\ UNCHANGED <<spent, asked, handlerVars>>

-----------------------------------------------------------------------------
(* The lookup and the write. *)

Resolve(c) ==
    /\ pc[c] = "lookup"
    /\ pc' = [pc EXCEPT ![c] = "write"]
    /\ draft' = [draft EXCEPT ![c].weather = draft[c].location]
    /\ UNCHANGED <<tableVars, request>>

\* 422, 502 or 504, or the statement fails without effect: 500.
Fail(c) ==
    /\ pc[c] \in {"lookup", "write"}
    /\ Respond(c)
    /\ UNCHANGED tableVars

\* The row is written, whether the client learns of it (200, 201) or not (500).
Write(c, id, row, fields) ==
    /\ notes' = [notes EXCEPT ![id] = row]
    /\ spent' = spent \cup {id}
    /\ asked' = [asked EXCEPT ![id] = fields]
    /\ Respond(c)
    /\ UNCHANGED deletes

Insert(c) ==
    /\ pc[c] = "write" /\ request[c].op = "create"
    /\ \E id \in Ids \ spent :
           Write(c, id, draft[c], [title |-> draft[c].title, location |-> draft[c].location])

\* Mutant: a note that is gone is inserted again.
WriteUpsert(c) ==
    /\ pc[c] = "write" /\ request[c].op = "update"
    /\ LET r == request[c]
       IN  Write(c, r.id, draft[c], Updated(asked[r.id], r.title, r.location))

\* Mutant: only the columns the request names are written, but always the weather.
WriteNamedColumns(c) ==
    /\ pc[c] = "write" /\ request[c].op = "update"
    /\ LET r == request[c]
           old == notes[r.id]
       IN  /\ old # NoNote
           /\ Write(c, r.id, Updated([old EXCEPT !.weather = draft[c].weather], r.title, r.location),
                    Updated(asked[r.id], r.title, r.location))

\* UPDATE ... WHERE id (no row: 404) writes every column.
WriteUpdate(c) ==
    /\ pc[c] = "write" /\ request[c].op = "update"
    /\ LET r == request[c]
       IN  /\ notes[r.id] # NoNote
           /\ Write(c, r.id, draft[c], Updated(asked[r.id], r.title, r.location))

Next == \E c \in Clients :
    \/ \E t \in Titles \cup {Bad}, l \in Locations \cup {Bad} : BeginCreate(c, t, l)
    \/ \E i \in Ids, t \in Titles \cup {Bad, Absent}, l \in Locations \cup {Bad, Absent} :
           BeginUpdate(c, i, t, l)
    \/ \E i \in Ids : Delete(c, i)
    \/ Resolve(c) \/ Fail(c) \/ Insert(c) \/ WriteUpdate(c)

Spec == Init /\ [][Next]_vars

-----------------------------------------------------------------------------
(* Properties. *)

\* The weather stored with a note is that of its location, whatever updates
\* of the note overlap.
WeatherMatchesLocation == \A i \in Ids : notes[i] # NoNote => notes[i].weather = notes[i].location

\* A deleted note stays deleted, though an update that read it before is
\* still waiting for the weather.
NeverResurrected == [][\A i \in spent : notes[i] = NoNote => notes'[i] = NoNote]_vars

\* Of the requests that delete a note, one at most is told it did.
DeletedOnce == \A i \in Ids : deletes[i] <= 1

\* A partial update changes the fields it names and no other: each field has
\* the value that the last written request to name it asked for.
UpdatesArePartial ==
    \A i \in Ids : notes[i] # NoNote =>
        notes[i].title = asked[i].title /\ notes[i].location = asked[i].location
=============================================================================
