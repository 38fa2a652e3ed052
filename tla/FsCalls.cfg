SPECIFICATION Spec
CONSTANTS
  MAX_INODES = 3
  MAX_FD = 2
  FirstFd = 1
  MAX_DIR_ENTRIES = 4
  DirBytes = 1
  MAX_FILE_SIZE = 2
  DATA_BUF_SIZE = 5
  Bytes = {1}
  Counts = {1, 2}
  Offsets <- MCOffsets
  Paths <- MCPaths
INVARIANTS TypeOK RefCountExact NoStaleDescriptor RegionsApart
 
