SPECIFICATION Spec
CONSTANTS
    Clients = {c1, c2, c3}
    Ids = {n1, n2}
    Titles = {t1}
    Locations = {london, rome}
    Bad = Bad
    Absent = Absent
    NoNote = NoNote
INVARIANTS
    WeatherMatchesLocation
PROPERTY NeverResurrected
