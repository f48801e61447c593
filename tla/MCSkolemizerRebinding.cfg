CONSTANTS
    Nodes <- TheNodes
    Connective <- TheConnective
    Operands <- TheOperands
    Binds <- TheBinds
    Place <- ThePlace
    Height <- TheHeight
    Roots <- RebindingRoots
    Variables = {"u", "a", "b"}
    Domain = {0, 1}
    Structures <- TheStructures
    MaxRoots = 1
SPECIFICATION SkolemSpec
CHECK_DEADLOCK FALSE
INVARIANT Preserved
