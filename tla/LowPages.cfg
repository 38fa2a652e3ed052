SPECIFICATION Spec
CONSTANTS
  Procs = {p1, p2}
  Indices = {0, 1, 2}
  NFrames = 30
  DeviceVA <- MCDeviceVA
  FirstHeapVA <- MCFirstHeapVA
  HeapVAs <- MCHeapVAs
  ImageVAs <- MCImageVAs
  StackVA <- MCStackVA
  Touched <- MCTouched
  Words = {2}
INVARIANT LowPartPrivate
CHECK_DEADLOCK FALSE
