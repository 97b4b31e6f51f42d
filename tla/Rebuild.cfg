SPECIFICATION Spec
SYMMETRY Symmetry
CONSTANTS
    Libraries = {l1, l2}
    Pages <- BookPages
    MaxFaults = 2
    Broken = broken
PROPERTIES TrueToItsReport RefinesBookStore
