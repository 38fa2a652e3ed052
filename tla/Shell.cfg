SPECIFICATION ShellSpec
CONSTANTS
  MAX_INODES = 3
  MAX_FD = 6
  FirstFd = 2
  MAX_DIR_ENTRIES = 4
  DirBytes = 1
  MAX_FILE_SIZE = 1
  DATA_BUF_SIZE = 2
  Bytes = {0}
  Counts = {1}
  Offsets = {}
  Paths <- MCPaths
  SavedIn = 3
  SavedOut = 4
  Pipe <- MCPipe
INVARIANTS ShellTypeOK PromptClean StartsAsAsked 
