SPECIFICATION Spec
CONSTANTS
    Options <- CommandLines
    TextLens = {1, 2}
    page_size = 2
    Word = 16
    MaxChildren = 3
INVARIANTS
    RequestsInside
    EndsForCause
    ReportsExact
PROPERTIES
    EndsReported
