CONSTANTS
    s1 = s1
    s2 = s2
    s3 = s3
    Slots = {s1, s2, s3}
    Emitters = {c1, c2}
    Walkers = {c2}
    Groups = {1}
    Places <- MCPlaces
    Blockable = {s1}
    Tracking = {s1}
    QuietCombiner = TRUE
    End = End
    None = None
SPECIFICATION Spec
INVARIANTS GroupsInOrder IteratorsValid SlotsCounted ConnectedAreCalled
