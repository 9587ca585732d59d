\* A 4-bit counter: the longest window whose identifiers must differ is 7.
CONSTANTS
    IdModulus = 16
    Window = 7
SPECIFICATION Spec
INVARIANTS
    TypeOK
    ParityTellsKind
    WindowDistinct
