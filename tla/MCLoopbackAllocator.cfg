CONSTANT MaxInstance = 7
SPECIFICATION Spec
INVARIANT AllocatorAccounts
PROPERTY PoolRefinement
