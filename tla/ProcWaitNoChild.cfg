SPECIFICATION Spec
CONSTANTS
  NPROC = 3
  NQUEUE = 2
  Quantum = 1
  Algorithms = {0}
  ExitCodes = {7}
INVARIANT WaitHasTarget
