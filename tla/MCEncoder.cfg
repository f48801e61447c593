CONSTANTS
    Exprs <- MCExprs
    Valuations <- MCValuations
    Size <- MCSize
    Formulas <- MCFormulas
    Assumable <- MCAssumable
    MaxAdded = 2
    MaxAssumed = 2
SPECIFICATION KeptSpec
CHECK_DEADLOCK FALSE
INVARIANTS NothingForbidden NothingAdmitted
