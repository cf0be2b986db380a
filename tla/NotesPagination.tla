--------------------------- MODULE NotesPagination ---------------------------
(***************************************************************************)
(* Walking through GET /notes page by page (notes.Service.ListNotes and    *)
(* the ListNotesPage query) while other requests create and delete notes.  *)
(* A note is identified by its key [created, id]; NOW() is the time a      *)
(* transaction starts, so a note may become visible after notes that were  *)
(* created later.                                                          *)
(***************************************************************************)
EXTENDS Integers, Sequences, FiniteSets, SequencesExt

CONSTANTS
    Keys,     \* the keys of all notes that may come to exist
    Limit,    \* the page size after normalizeLimit
    NoCursor  \* the cursor of the first request

ASSUME KeysAssumption ==
    Keys \subseteq [created : Int, id : Int] /\ NoCursor \notin Keys
ASSUME LimitAssumption == Limit \in Nat \ {0}

VARIABLES
    table,   \* the keys of the notes in the table
    spent,   \* keys that have been used: ids are never reused
    walk,    \* "idle", "walking" or "over"
    cursor,  \* the cursor for the next page
    seen,    \* the notes returned so far, in order
    stayed   \* history: the notes in the table ever since the walk began

vars == <<table, spent, walk, cursor, seen, stayed>>

TypeOK ==
    /\ table \subseteq Keys /\ spent \subseteq Keys /\ stayed \subseteq Keys
    /\ table \subseteq spent
    /\ walk \in {"idle", "walking", "over"}
    /\ cursor \in Keys \cup {NoCursor}
    /\ seen \in Seq(Keys)

\* The row comparison (created_at, id) < (created_at, id).
Precedes(m, n) == m.created < n.created \/ (m.created = n.created /\ m.id < n.id)

\* Mutant: the comparison with the cursor is not strict.
CandidatesFromCursor == {n \in table : cursor = NoCursor \/ ~Precedes(cursor, n)}

Candidates == {n \in table : cursor = NoCursor \/ Precedes(n, cursor)}

\* ORDER BY created_at DESC, id DESC: the i-th note has i - 1 newer ones.
Ordered(S) ==
    [i \in 1..Cardinality(S) |-> CHOOSE n \in S : Cardinality({m \in S : Precedes(n, m)}) = i - 1]

\* The rows of the query: the newest candidates, newest first.
Rows(count) == LET rows == Ordered(Candidates)
               IN  SubSeq(rows, 1, IF Len(rows) < count THEN Len(rows) ELSE count)

Init ==
    /\ table = {} /\ spent = {} /\ stayed = {}
    /\ walk = "idle" /\ cursor = NoCursor /\ seen = <<>>

\* Mutant: an id is generated again after its note is deleted.
InsertReused(n) ==
    /\ n \notin table
    /\ table' = table \cup {n}
    /\ UNCHANGED <<spent, walk, cursor, seen, stayed>>

Insert(n) ==
    /\ n \notin spent
    /\ table' = table \cup {n}
    /\ spent' = spent \cup {n}
    /\ UNCHANGED <<walk, cursor, seen, stayed>>

Delete(n) ==
    /\ n \in table
    /\ table' = table \ {n}
    /\ stayed' = stayed \ {n}
    /\ UNCHANGED <<spent, walk, cursor, seen>>

BeginWalk ==
    /\ walk = "idle"
    /\ walk' = "walking"
    /\ stayed' = table
    /\ UNCHANGED <<table, spent, cursor, seen>>

\* Return a page and whether the walk is over; the next cursor is at position last.
ReturnPage(page, count, last) ==
    /\ seen' = seen \o SubSeq(page, 1, IF Len(page) < count THEN Len(page) ELSE count)
    /\ \/ Len(page) <= count /\ walk' = "over" /\ UNCHANGED cursor
       \/ Len(page) > count /\ cursor' = page[last] /\ UNCHANGED walk
    /\ UNCHANGED <<table, spent, stayed>>

\* Mutant: the cursor is taken from the extra row.
NextPageCursorPastEnd == walk = "walking" /\ ReturnPage(Rows(Limit + 1), Limit, Limit + 1)

\* Ask for one row more than the page holds, to know whether another follows.
NextPage == walk = "walking" /\ ReturnPage(Rows(Limit + 1), Limit, Limit)

Next == (\E n \in Keys : Insert(n) \/ Delete(n)) \/ BeginWalk \/ NextPage

Spec == Init /\ [][Next]_vars

-----------------------------------------------------------------------------
(* Properties. *)

\* Notes come strictly newest first over all pages, so none comes twice.
NewestFirst ==
    \A i, j \in 1..Len(seen) : i < j => Precedes(seen[j], seen[i])

\* A walk that is over has returned every note that was there all along.
NothingSkipped == walk = "over" => stayed \subseteq ToSet(seen)
=============================================================================
