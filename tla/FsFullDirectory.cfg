SPECIFICATION Spec
CONSTANTS
  MAX_INODES = 3
  MAX_FD = 2
  FirstFd = 0
  MAX_DIR_ENTRIES = 3
  DirBytes = 1
  MAX_FILE_SIZE = 1
  DATA_BUF_SIZE = 3
  Bytes = {1}
  Counts = {}
  Offsets = {}
  Paths <- MCTwoFiles
INVARIANT EveryInodeNamed
