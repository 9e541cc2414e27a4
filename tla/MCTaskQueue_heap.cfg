SPECIFICATION Spec
CONSTANTS
    Items = {i1, i2, i3, i4, i5, i6}
    Apps <- TwoSizes
    MaxClock = 1
SYMMETRY Symmetry
INVARIANTS
    PositionsExact
    HeapOrder
PROPERTIES
    Refines
