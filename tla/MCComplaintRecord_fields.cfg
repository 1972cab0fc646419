SPECIFICATION Spec
CONSTANTS
    Users = {o1, o2}
    Values = {"v1", "v2"}
    Attractants = {a1}
    Null = Null
    Empty = ""
    Firsts <- MCFirsts
    MaxEvents = 3
SYMMETRY Symmetry
INVARIANTS LastGivenStands ChosenAreKept
