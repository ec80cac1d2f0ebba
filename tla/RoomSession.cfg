\* Both sides, a window of two instants and a clock of six: long enough for a
\* window, its restart by the other side and a second interruption.
SPECIFICATION Spec
CONSTANTS
    Window = 2
    MaxNow = 6
INVARIANTS
    SessionConsistent
PROPERTIES
    InterruptionTransparent
    ForfeitIsFair
