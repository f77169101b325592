SPECIFICATION PlaySpec
CONSTANTS
    Nodes <- MCNodes
    Root = 1
    Trees <- MCTrees
INVARIANT TypeOK StackIsPath InOrder
PROPERTY ShuffledOnce StepReturns
\* The list comes to its end.
CHECK_DEADLOCK FALSE
