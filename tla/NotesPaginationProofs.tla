------------------------ MODULE NotesPaginationProofs ------------------------
(***************************************************************************)
(* Theorems about NotesPagination, for every set of keys, finite or not,   *)
(* and every page size.                                                    *)
(***************************************************************************)
EXTENDS NotesPagination, FiniteSetTheorems, TLAPS

-----------------------------------------------------------------------------
(* The inductive invariant. *)

\* The cursor is the last note returned, and a walk begins without one.
CursorInv ==
    /\ walk = "idle" => cursor = NoCursor
    /\ walk # "over" => IF cursor = NoCursor THEN seen = <<>>
                        ELSE seen # <<>> /\ seen[Len(seen)] = cursor

\* A note that was there all along has been returned or comes after the cursor.
StayedInv ==
    /\ IsFiniteSet(table) /\ stayed \subseteq table
    /\ walk = "walking" =>
           \A n \in stayed : n \in ToSet(seen) \/ n \in Candidates

IInv == TypeOK /\ CursorInv /\ StayedInv /\ NewestFirst /\ NothingSkipped

-----------------------------------------------------------------------------
(* The order of the notes. *)

\* Notes are strictly and totally ordered by their keys.
LEMMA PrecedesIsOrder ==
    ASSUME NEW m \in Keys, NEW n \in Keys
    PROVE  /\ ~Precedes(n, n)
           /\ m # n => Precedes(m, n) \/ Precedes(n, m)
           /\ Precedes(m, n) => ~Precedes(n, m)
           /\ \A k \in Keys : Precedes(m, n) /\ Precedes(n, k) => Precedes(m, k)
<1> /\ m = [created |-> m.created, id |-> m.id] /\ n = [created |-> n.created, id |-> n.id]
    /\ m.created \in Int /\ m.id \in Int /\ n.created \in Int /\ n.id \in Int
    /\ \A k \in Keys : k.created \in Int /\ k.id \in Int
    BY KeysAssumption
<1> QED BY DEF Precedes

\* The notes of S that are newer than n.
Newer(S, n) == {m \in S : Precedes(n, m)}

\* An older note has more notes before it.
LEMMA OlderHasMoreNewer ==
    ASSUME NEW S \in SUBSET Keys, IsFiniteSet(S), NEW m \in S, NEW n \in S, Precedes(m, n)
    PROVE  Cardinality(Newer(S, n)) < Cardinality(Newer(S, m))
<1>1. Newer(S, n) \in SUBSET Newer(S, m)
      BY PrecedesIsOrder DEF Newer
<1>2. Newer(S, n) # Newer(S, m)
      BY PrecedesIsOrder DEF Newer
<1>3. IsFiniteSet(Newer(S, m))
      BY FS_Subset DEF Newer
<1>4. IsFiniteSet(Newer(S, n)) /\ Cardinality(Newer(S, n)) \in Nat /\ Cardinality(Newer(S, m)) \in Nat
      BY <1>1, <1>3, FS_Subset, FS_CardinalityType
<1> QED BY <1>1, <1>2, <1>3, <1>4, FS_Subset

\* No note has all notes before it.
LEMMA NewerIsFewer ==
    ASSUME NEW S \in SUBSET Keys, IsFiniteSet(S), NEW n \in S
    PROVE  Cardinality(Newer(S, n)) \in 0..(Cardinality(S) - 1)
<1>1. Newer(S, n) \in SUBSET S /\ Newer(S, n) # S
      BY PrecedesIsOrder DEF Newer
<1>2. IsFiniteSet(Newer(S, n)) /\ Cardinality(Newer(S, n)) \in Nat /\ Cardinality(S) \in Nat
      BY <1>1, FS_Subset, FS_CardinalityType
<1> QED BY <1>1, <1>2, FS_Subset

\* Every place in the order is taken, by one note.
LEMMA EveryPlaceIsTaken ==
    ASSUME NEW S \in SUBSET Keys, IsFiniteSet(S), NEW i \in 1..Cardinality(S)
    PROVE  \E n \in S : Cardinality(Newer(S, n)) = i - 1
<1> DEFINE Places == 0..(Cardinality(S) - 1)
           place == [n \in S |-> Cardinality(Newer(S, n))]
<1>1. SUFFICES ASSUME \A n \in S : Cardinality(Newer(S, n)) # i - 1
               PROVE  FALSE
      OBVIOUS
<1>2. Cardinality(S) \in Nat /\ i - 1 \in Places
      BY FS_CardinalityType
<1>3. IsFiniteSet(Places) /\ Cardinality(Places) = Cardinality(S)
  <2>1. 0 \in Int /\ Cardinality(S) - 1 \in Int BY <1>2
  <2> QED BY <1>2, <2>1, FS_Interval
<1>4. IsFiniteSet(Places \ {i - 1}) /\ Cardinality(Places \ {i - 1}) < Cardinality(S)
  <2> HIDE DEF Places
  <2>1. \A x \in Places : IsFiniteSet(Places \ {x}) /\ Cardinality(Places \ {x}) = Cardinality(S) - 1
        BY <1>3, FS_RemoveElement
  <2> QED BY <1>2, <2>1
<1>5. place \in [S -> Places \ {i - 1}]
      BY <1>1, NewerIsFewer
<1>6. PICK m \in S, n \in S : m # n /\ place[m] = place[n]
  <2> HIDE DEF place, Places
  <2> QED BY <1>4, <1>5, FS_PigeonHole
<1>7. Cardinality(Newer(S, m)) = Cardinality(Newer(S, n))
      BY <1>6
<1>8. /\ Cardinality(Newer(S, m)) \in Int /\ m \in Keys /\ n \in Keys
      /\ Precedes(m, n) \/ Precedes(n, m)
      BY <1>6, NewerIsFewer, PrecedesIsOrder
<1> QED BY <1>7, <1>8, OlderHasMoreNewer

\* ORDER BY lists every note of S once, newest first.
LEMMA OrderedSorts ==
    ASSUME NEW S \in SUBSET Keys, IsFiniteSet(S)
    PROVE  /\ Ordered(S) \in Seq(S) /\ Len(Ordered(S)) = Cardinality(S)
           /\ \A i, j \in 1..Cardinality(S) : i < j => Precedes(Ordered(S)[j], Ordered(S)[i])
           /\ \A n \in S : \E i \in 1..Cardinality(S) : Ordered(S)[i] = n
<1> DEFINE s == Ordered(S)
<1>0. Cardinality(S) \in Nat
      BY FS_CardinalityType
<1>1. \A i \in 1..Cardinality(S) : s[i] \in S /\ Cardinality(Newer(S, s[i])) = i - 1
      BY EveryPlaceIsTaken DEF Ordered, Newer
<1>2. s \in Seq(S) /\ Len(s) = Cardinality(S)
  <2> DEFINE at(i) == CHOOSE n \in S : Cardinality({m \in S : Precedes(n, m)}) = i - 1
  <2>1. s = [i \in 1..Cardinality(S) |-> at(i)]
        BY DEF Ordered
  <2> HIDE DEF s, at
  <2>2. s \in [1..Cardinality(S) -> S]
        BY <1>1, <2>1
  <2> QED BY <1>0, <2>2
<1> HIDE DEF s
<1>3. \A i, j \in 1..Cardinality(S) : i < j => Precedes(s[j], s[i])
  <2> SUFFICES ASSUME NEW i \in 1..Cardinality(S), NEW j \in 1..Cardinality(S), i < j
               PROVE  Precedes(s[j], s[i])
      OBVIOUS
  <2>1. /\ s[i] \in S /\ s[j] \in S /\ s[i] \in Keys /\ s[j] \in Keys
        /\ Cardinality(Newer(S, s[i])) = i - 1 /\ Cardinality(Newer(S, s[j])) = j - 1
        BY <1>1
  <2>2. s[i] # s[j] BY <2>1, <1>0
  <2>3. ~Precedes(s[i], s[j]) BY <2>1, <1>0, OlderHasMoreNewer
  <2> QED BY <2>1, <2>2, <2>3, PrecedesIsOrder
<1>4. \A n \in S : \E i \in 1..Cardinality(S) : s[i] = n
  <2> SUFFICES ASSUME NEW n \in S
               PROVE  \E i \in 1..Cardinality(S) : s[i] = n
      OBVIOUS
  <2>1. PICK i \in 1..Cardinality(S) : Cardinality(Newer(S, n)) = i - 1
    <3>1. Cardinality(Newer(S, n)) \in 0..(Cardinality(S) - 1) BY NewerIsFewer
    <3> DEFINE i == Cardinality(Newer(S, n)) + 1
    <3>2. i \in 1..Cardinality(S) /\ Cardinality(Newer(S, n)) = i - 1 BY <3>1, <1>0
    <3> QED BY <3>2
  <2>2. s[i] \in S /\ Cardinality(Newer(S, s[i])) = i - 1 BY <1>1
  <2>3. ~Precedes(n, s[i]) /\ ~Precedes(s[i], n)
        BY <2>1, <2>2, <1>0, OlderHasMoreNewer
  <2> QED BY <2>2, <2>3, PrecedesIsOrder
<1> QED BY <1>2, <1>3, <1>4 DEF s

-----------------------------------------------------------------------------
(* A page. *)

\* The page and the row after it, if there is one, are the first candidates.
LEMMA RowsAreFirst ==
    ASSUME TypeOK, StayedInv
    PROVE  /\ Candidates \in SUBSET Keys /\ IsFiniteSet(Candidates)
           /\ \E all \in Seq(Candidates), k \in Nat :
                 /\ Len(all) = k
                 /\ \A i, j \in 1..k : i < j => Precedes(all[j], all[i])
                 /\ \A n \in Candidates : \E i \in 1..k : all[i] = n
                 /\ Rows(Limit + 1) = SubSeq(all, 1, IF k < Limit + 1 THEN k ELSE Limit + 1)
<1>1. Candidates \in SUBSET Keys /\ IsFiniteSet(Candidates)
      BY FS_Subset DEF Candidates, TypeOK, StayedInv
<1>2. Cardinality(Candidates) \in Nat
      BY <1>1, FS_CardinalityType
<1>3. Rows(Limit + 1) = LET rows == Ordered(Candidates)
                        IN  SubSeq(rows, 1, IF Len(rows) < Limit + 1 THEN Len(rows) ELSE Limit + 1)
      BY DEF Rows
<1> QED BY <1>1, <1>2, <1>3, OrderedSorts

\* What a step of the walk returns: candidates, newest first, either all of
\* them or a page whose last note becomes the cursor and precedes the rest.
Returned(part) ==
    /\ part \in Seq(Candidates)
    /\ \A i, j \in 1..Len(part) : i < j => Precedes(part[j], part[i])
    /\ seen' = seen \o part
    /\ \/ /\ walk' = "over" /\ cursor' = cursor
          /\ Candidates \subseteq ToSet(part)
       \/ /\ walk' = "walking" /\ Len(part) > 0 /\ cursor' = part[Len(part)]
          /\ \A n \in Candidates : n \in ToSet(part) \/ Precedes(n, cursor')

LEMMA NextPageReturns ==
    ASSUME TypeOK, StayedInv, NextPage
    PROVE  \E part : Returned(part)
<1>1. PICK all \in Seq(Candidates), k \in Nat :
                 /\ Len(all) = k
                 /\ \A i, j \in 1..k : i < j => Precedes(all[j], all[i])
                 /\ \A n \in Candidates : \E i \in 1..k : all[i] = n
                 /\ Rows(Limit + 1) = SubSeq(all, 1, IF k < Limit + 1 THEN k ELSE Limit + 1)
      BY RowsAreFirst
<1> DEFINE page == Rows(Limit + 1)
<1>2. Limit \in Nat \ {0}
      BY LimitAssumption
<1>3. walk = "walking" /\ ReturnPage(page, Limit, Limit)
      BY DEF NextPage
<1>4. CASE k <= Limit
  <2>1. page = all
        BY <1>1, <1>2, <1>4
  <2> HIDE DEF page
  <2>2. seen' = seen \o all /\ walk' = "over" /\ cursor' = cursor
    <3>1. SubSeq(all, 1, k) = all
          BY <1>1
    <3> QED BY <1>1, <1>2, <1>3, <1>4, <2>1, <3>1 DEF ReturnPage
  <2>3. Candidates \subseteq ToSet(all)
        BY <1>1 DEF ToSet
  <2>4. Returned(all)
        BY <1>1, <2>2, <2>3 DEF Returned
  <2> QED BY <2>4
<1>5. CASE k > Limit
  <2> DEFINE part == SubSeq(all, 1, Limit)
  <2>1. /\ page \in Seq(Candidates) /\ Len(page) = Limit + 1
        /\ \A i \in 1..(Limit + 1) : page[i] = all[i]
        BY <1>1, <1>2, <1>5
  <2>2. /\ part \in Seq(Candidates) /\ Len(part) = Limit
        /\ \A i \in 1..Limit : part[i] = all[i]
        BY <1>1, <1>2, <1>5
  <2>3. SubSeq(page, 1, Limit) = part
        BY <1>1, <1>2, <1>5
  <2> HIDE DEF page, part
  <2>4. seen' = seen \o part /\ walk' = "walking" /\ cursor' = all[Limit]
    <3>1. ~(Len(page) < Limit) /\ ~(Len(page) <= Limit) /\ page[Limit] = all[Limit]
          BY <1>2, <2>1
    <3>2. seen' = seen \o SubSeq(page, 1, Limit) /\ cursor' = page[Limit] /\ walk' = walk
          BY <1>3, <3>1 DEF ReturnPage
    <3> QED BY <1>3, <2>3, <3>1, <3>2
  <2>5. \A n \in Candidates : n \in ToSet(part) \/ Precedes(n, cursor')
    <3> SUFFICES ASSUME NEW n \in Candidates PROVE n \in ToSet(part) \/ Precedes(n, cursor')
        OBVIOUS
    <3>1. PICK i \in 1..k : all[i] = n BY <1>1
    <3>2. CASE i <= Limit BY <1>2, <2>2, <3>1, <3>2 DEF ToSet
    <3>3. CASE i > Limit BY <1>1, <1>2, <1>5, <2>4, <3>1, <3>3
    <3> QED BY <1>2, <3>2, <3>3
  <2>6. \A i, j \in 1..Limit : i < j => Precedes(part[j], part[i])
        BY <1>1, <1>2, <1>5, <2>2
  <2>7. Returned(part)
        BY <1>2, <2>2, <2>4, <2>5, <2>6 DEF Returned
  <2> QED BY <2>7
<1> QED BY <1>1, <1>2, <1>4, <1>5

-----------------------------------------------------------------------------
(* The steps. *)

\* What comes before the cursor has been returned: a returned part goes on
\* where the notes already returned end.
LEMMA ReturnedGoesOn ==
    ASSUME IInv, walk = "walking", NEW part, Returned(part)
    PROVE  seen' \in Seq(Keys) /\ NewestFirst'
<1>1. /\ seen \in Seq(Keys) /\ part \in Seq(Keys) /\ seen' = seen \o part
      /\ \A i \in 1..Len(part) : part[i] \in Candidates
  <2>1. Candidates \in SUBSET Keys /\ seen \in Seq(Keys)
        BY DEF IInv, TypeOK, Candidates
  <2>2. part \in Seq(Candidates) /\ seen' = seen \o part
        BY DEF Returned
  <2> QED BY <2>1, <2>2
<1>2. /\ seen' \in Seq(Keys) /\ Len(seen') = Len(seen) + Len(part)
      /\ \A i \in 1..Len(seen) : seen'[i] = seen[i]
      /\ \A i \in 1..Len(part) : seen'[Len(seen) + i] = part[i]
      BY <1>1
<1>3. \A i \in 1..Len(seen), j \in 1..Len(part) : Precedes(part[j], seen[i])
  <2> SUFFICES ASSUME NEW i \in 1..Len(seen), NEW j \in 1..Len(part)
               PROVE  Precedes(part[j], seen[i])
      OBVIOUS
  <2>1. cursor # NoCursor /\ cursor = seen[Len(seen)]
        BY <1>1 DEF IInv, CursorInv
  <2>2. Precedes(part[j], cursor) /\ cursor \in Keys
        BY <1>1, <2>1 DEF Candidates, IInv, TypeOK
  <2>3. i = Len(seen) \/ Precedes(cursor, seen[i])
        BY <1>1, <2>1 DEF IInv, NewestFirst
  <2>4. part[j] \in Keys /\ seen[i] \in Keys
        BY <1>1
  <2> QED BY <2>1, <2>2, <2>3, <2>4, PrecedesIsOrder
<1>4. ASSUME NEW i \in 1..Len(seen'), NEW j \in 1..Len(seen'), i < j
      PROVE  Precedes(seen'[j], seen'[i])
  <2>1. Len(seen) \in Nat /\ Len(part) \in Nat
        BY <1>1
  <2>2. CASE j <= Len(seen)
        BY <1>2, <1>4, <2>1, <2>2 DEF IInv, NewestFirst
  <2>3. CASE i <= Len(seen) /\ j > Len(seen)
    <3>1. j - Len(seen) \in 1..Len(part) /\ Len(seen) + (j - Len(seen)) = j
          BY <1>2, <2>1, <2>3
    <3>2. seen'[j] = part[j - Len(seen)] /\ seen'[i] = seen[i]
          BY <1>2, <2>1, <2>3, <3>1
    <3> QED BY <1>3, <2>1, <2>3, <3>1, <3>2
  <2>4. CASE i > Len(seen)
    <3>1. /\ i - Len(seen) \in 1..Len(part) /\ Len(seen) + (i - Len(seen)) = i
          /\ j - Len(seen) \in 1..Len(part) /\ Len(seen) + (j - Len(seen)) = j
          /\ i - Len(seen) < j - Len(seen)
          BY <1>2, <1>4, <2>1, <2>4
    <3>2. seen'[j] = part[j - Len(seen)] /\ seen'[i] = part[i - Len(seen)]
          BY <1>2, <3>1
    <3> QED BY <3>1, <3>2 DEF Returned
  <2> QED BY <2>1, <2>2, <2>3, <2>4
<1> QED BY <1>2, <1>4 DEF NewestFirst

\* A page keeps the invariant.
LEMMA NextPageKeepsInvariant ==
    ASSUME IInv, NextPage
    PROVE  IInv'
<1>1. PICK part : Returned(part)
      BY NextPageReturns DEF IInv
<1>2. walk = "walking" /\ UNCHANGED <<table, spent, stayed>>
      BY DEF NextPage, ReturnPage
<1>3. seen' \in Seq(Keys) /\ NewestFirst'
      BY <1>1, <1>2, ReturnedGoesOn
<1>4. /\ part \in Seq(Keys) /\ seen \in Seq(Keys) /\ seen' = seen \o part
      /\ \A i \in 1..Len(part) : part[i] \in Keys
  <2>1. Candidates \in SUBSET Keys
        BY DEF IInv, TypeOK, Candidates
  <2> QED BY <1>1, <2>1 DEF Returned, IInv, TypeOK
<1>5. ToSet(seen') = ToSet(seen) \cup ToSet(part)
  <2>1. /\ DOMAIN seen = 1..Len(seen) /\ DOMAIN part = 1..Len(part)
        /\ DOMAIN seen' = 1..(Len(seen) + Len(part))
        /\ Len(seen) \in Nat /\ Len(part) \in Nat
        /\ \A i \in 1..Len(seen) : seen'[i] = seen[i]
        /\ \A i \in 1..Len(part) : seen'[Len(seen) + i] = part[i]
        /\ \A i \in (Len(seen) + 1)..(Len(seen) + Len(part)) :
               i - Len(seen) \in 1..Len(part) /\ seen'[i] = part[i - Len(seen)]
        BY <1>4
  <2>2. \A n \in ToSet(seen') : n \in ToSet(seen) \cup ToSet(part)
        BY <2>1 DEF ToSet
  <2>3. \A n \in ToSet(seen) : n \in ToSet(seen')
        BY <2>1 DEF ToSet
  <2>4. \A n \in ToSet(part) : n \in ToSet(seen')
        BY <2>1 DEF ToSet
  <2> QED BY <2>2, <2>3, <2>4
<1>6. \A n \in stayed : n \in ToSet(seen) \/ n \in Candidates
      BY <1>2 DEF IInv, StayedInv
<1>7. CASE walk' = "over" /\ cursor' = cursor /\ Candidates \subseteq ToSet(part)
  <2>1. TypeOK' BY <1>2, <1>3, <1>7 DEF IInv, TypeOK
  <2>2. CursorInv' BY <1>7 DEF CursorInv
  <2>3. StayedInv' BY <1>2, <1>7 DEF IInv, StayedInv
  <2>4. NothingSkipped' BY <1>2, <1>5, <1>6, <1>7 DEF NothingSkipped
  <2> QED BY <1>3, <2>1, <2>2, <2>3, <2>4 DEF IInv
<1>8. CASE /\ walk' = "walking" /\ Len(part) > 0 /\ cursor' = part[Len(part)]
           /\ \A n \in Candidates : n \in ToSet(part) \/ Precedes(n, cursor')
  <2>0. cursor' \in Keys /\ cursor' # NoCursor /\ Len(part) \in 1..Len(part)
        BY <1>4, <1>8, KeysAssumption
  <2>1. TypeOK' BY <1>2, <1>3, <1>8, <2>0 DEF IInv, TypeOK
  <2>2. CursorInv'
    <3>1. seen' # <<>> /\ seen'[Len(seen')] = part[Len(part)]
          BY <1>4, <1>8
    <3> QED BY <1>8, <2>0, <3>1 DEF CursorInv
  <2>3. StayedInv'
    <3>1. \A n \in stayed : n \in table /\ (n \in ToSet(seen') \/ Precedes(n, cursor'))
          BY <1>5, <1>6, <1>8 DEF IInv, StayedInv
    <3> QED BY <1>2, <3>1 DEF IInv, StayedInv, Candidates
  <2>4. NothingSkipped' BY <1>8 DEF NothingSkipped
  <2> QED BY <1>3, <2>1, <2>2, <2>3, <2>4 DEF IInv
<1> QED BY <1>1, <1>7, <1>8 DEF Returned

\* So do the requests around the walk.
LEMMA InsertKeepsInvariant ==
    ASSUME IInv, NEW n \in Keys, Insert(n)
    PROVE  IInv'
<1> USE DEF IInv, Insert
<1>1. TypeOK' BY DEF TypeOK
<1>2. CursorInv' BY DEF CursorInv
<1>3. StayedInv'
  <2>1. IsFiniteSet(table') BY FS_AddElement DEF StayedInv
  <2> QED BY <2>1 DEF StayedInv, Candidates
<1>4. NewestFirst' BY DEF NewestFirst
<1>5. NothingSkipped' BY DEF NothingSkipped
<1> QED BY <1>1, <1>2, <1>3, <1>4, <1>5

LEMMA DeleteKeepsInvariant ==
    ASSUME IInv, NEW n \in Keys, Delete(n)
    PROVE  IInv'
<1> USE DEF IInv, Delete
<1>1. TypeOK' BY DEF TypeOK
<1>2. CursorInv' BY DEF CursorInv
<1>3. StayedInv'
  <2>1. IsFiniteSet(table') BY FS_RemoveElement DEF StayedInv
  <2> QED BY <2>1 DEF StayedInv, Candidates
<1>4. NewestFirst' BY DEF NewestFirst
<1>5. NothingSkipped' BY DEF NothingSkipped
<1> QED BY <1>1, <1>2, <1>3, <1>4, <1>5

LEMMA BeginWalkKeepsInvariant ==
    ASSUME IInv, BeginWalk
    PROVE  IInv'
<1> USE DEF IInv, BeginWalk
<1>1. TypeOK' BY DEF TypeOK
<1>2. CursorInv' BY DEF CursorInv
<1>3. StayedInv' BY DEF StayedInv, CursorInv, Candidates
<1>4. NewestFirst' BY DEF NewestFirst
<1>5. NothingSkipped' BY DEF NothingSkipped
<1> QED BY <1>1, <1>2, <1>3, <1>4, <1>5

LEMMA InductiveInvariant == Spec => []IInv
<1>1. Init => IInv
  <2>1. IsFiniteSet({}) BY FS_EmptySet
  <2> QED BY <2>1 DEF Init, IInv, TypeOK, CursorInv, StayedInv, NewestFirst, NothingSkipped
<1>2. IInv /\ [Next]_vars => IInv'
  <2> SUFFICES ASSUME IInv, [Next]_vars PROVE IInv'
      OBVIOUS
  <2>1. CASE UNCHANGED vars
        BY <2>1 DEF vars, IInv, TypeOK, CursorInv, StayedInv, NewestFirst, NothingSkipped, Candidates
  <2> QED BY <2>1, NextPageKeepsInvariant, InsertKeepsInvariant, DeleteKeepsInvariant,
             BeginWalkKeepsInvariant DEF Next
<1> QED BY <1>1, <1>2, PTL DEF Spec

-----------------------------------------------------------------------------
(* Theorems. *)

\* Whatever is created and deleted meanwhile, a walk keeps to its types.
THEOREM TypeCorrect == Spec => []TypeOK
BY InductiveInvariant, PTL DEF IInv

\* No page repeats a note or returns one out of order, however many notes
\* share a creation time and whatever the page size.
THEOREM PagesAreInOrder == Spec => []NewestFirst
BY InductiveInvariant, PTL DEF IInv

\* A walk that ends has returned every note that was there all along.
THEOREM WalkIsComplete == Spec => []NothingSkipped
BY InductiveInvariant, PTL DEF IInv
=============================================================================
