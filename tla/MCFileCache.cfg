SPECIFICATION Spec
CONSTANTS
    c1 = c1  c2 = c2
    Calls <- MCCalls
    Settings <- MCSettings
    MaxTime = 3
SYMMETRY Interchangeable
INVARIANTS
    TypeOK
    EntryTrue
PROPERTY
    LostOnlyInWindow
