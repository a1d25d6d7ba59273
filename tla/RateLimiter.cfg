\* Two addresses, two requests for a window of two ticks; in six ticks three
\* windows and a clean-up take place.
SPECIFICATION Spec
CONSTANTS
    IP = {i1, i2}
    Rate = 2
    Window = 2
    Horizon = 6
INVARIANTS TypeOK BurstBound
PROPERTIES NoFalseRefusal KeepsPromise
