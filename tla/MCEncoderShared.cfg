CONSTANTS
    Exprs <- MCExprs
    Valuations <- MCValuations
    Size <- MCSize
    Formulas <- MCFormulas
    Assumable <- MCAssumable
    MaxAdded = 2
    MaxAssumed = 0
SPECIFICATION FreeSpec
CHECK_DEADLOCK FALSE
INVARIANT NothingAdmitted
