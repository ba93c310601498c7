CONSTANTS
  Objs <- MCObjs
  Machines <- MCTwoNodes
  Programs = {"gpuloc"}
SPECIFICATION LocalitySpec
INVARIANT SameNumaNode
