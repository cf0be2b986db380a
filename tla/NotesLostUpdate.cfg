SPECIFICATION Spec
CONSTANTS
    Clients = {c1, c2}
    Ids = {n1}
    Titles = {t1, t2}
    Locations = {london, rome}
    Bad = Bad
    Absent = Absent
    NoNote = NoNote
INVARIANT UpdatesArePartial
