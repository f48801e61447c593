CONSTANTS
    Nodes <- TheNodes
    Connective <- TheConnective
    Operands <- TheOperands
    Binds <- TheBinds
    Place <- ThePlace
    Height <- TheHeight
    Roots <- SharingRoots
    Variables = {"u", "a", "b"}
    Domain = {0, 1}
    Structures <- TheStructures
    MaxRoots = 2
SPECIFICATION SkolemSpec
CHECK_DEADLOCK FALSE
INVARIANT Preserved
