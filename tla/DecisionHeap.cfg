SPECIFICATION HeapSpec
CONSTANTS
    NumVars = 3
    Limit = 1
    Scale = 2
    MaxActivity = 4
INVARIANTS Entries NeverNull
PROPERTY MostActive
