SPECIFICATION FairSpec
CONSTANTS
  KBD_BUF_SIZE = 3
  RxSize = 2
  MaxTyped = 6
  Procs = {s, p, q}
  Shell = s
INVARIANTS TypeOK OvertakenOnce
PROPERTIES ImplementsKeyboard 
