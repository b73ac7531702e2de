SPECIFICATION DispatchersSpec
CONSTANTS
  MaxCodes = 20
  maxShuffled = 3
  LEAF_RANGE_CAP = 4
  Dispatchers <- MCInterpreters
  MaxOpcode = 9
  Programs <- MCPrograms
  Loops <- MCLoops
  Machines <- MCMachines
  ComputedEntries = {0, 2}
  Computed = {0, 2}
  maxStates = 4
  Bound <- MCBound
  functionMaxStates = 3
  Trees <- MCTrees
  Values <- MCValues
  maxLeaves = 6
  maxRewrites = 2
INVARIANTS FollowsOriginal InlinedFollowsOriginal UnrolledFollowsOriginal RangesExact HandlersExact RecoversProgram
PROPERTIES PassesEnd
