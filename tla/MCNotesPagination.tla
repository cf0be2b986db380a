-------------------------- MODULE MCNotesPagination --------------------------
(* Small instances of NotesPagination for TLC. *)
EXTENDS NotesPagination

\* Two notes share a creation time.
FourKeys == {[created |-> 1, id |-> 1], [created |-> 2, id |-> 2],
             [created |-> 2, id |-> 3], [created |-> 3, id |-> 4]}
FiveKeys == FourKeys \cup {[created |-> 3, id |-> 5]}
=============================================================================
