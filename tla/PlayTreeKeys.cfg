SPECIFICATION KeySpec
CONSTANTS
    Nodes <- MCNodes
    Root = 1
    Trees <- MCTrees
INVARIANT KeysGoOn
\* The list comes to its end.
CHECK_DEADLOCK FALSE
