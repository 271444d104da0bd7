SPECIFICATION Spec
CONSTANTS
    SectionTypes = {1, 3, 10, 11}
    Counts = {0, 1, 61, 100, 200}
    Fillings = {0, 61, 63, 200}
    NoCount = NoCount
INVARIANT
    ElementsAreCounted
