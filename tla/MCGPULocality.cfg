CONSTANTS
  Objs <- MCObjs
  Machines <- MCMachines
  Programs = {"gpuloc", "nvml", "affinity"}
SPECIFICATION LocalitySpec
INVARIANTS LocalityTypeOK SameHostBridge CoresOfPackage ByNvmlIndex PeerIsNear DefinedOn
