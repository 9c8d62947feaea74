\* Numbers of six bits: the signed ones wrap at 32.
SPECIFICATION Spec
CONSTANTS
    IntMax = 31
    WindowSize = 4
INVARIANTS TypeOK
PROPERTIES ServerFrame ClientFrame StallsAtTheEnd
