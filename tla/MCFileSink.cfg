CONSTANTS
  gs = gs
  ls = ls
  f1 = f1
  tmp1 = tmp1
  tmp2 = tmp2
  tmp3 = tmp3
  w1 = w1
  w2 = w2
  Sink <- MCSink
  GlobalSink = gs
  DefaultTarget = Template
  File <- MCFile
  Stdout = Stdout
  Template = Template
  TempFile <- MCTempFile
  Empty = Empty
  Writer <- MCWriter
  NoWriter = NoWriter
  NoFile = NoFile
  MaxEvents = 2

SPECIFICATION Spec
SYMMETRY Symmetry
INVARIANTS WholeTrace OwnTemp WriterProtocol NothingSkipped
PROPERTY StdoutOnlyGrows
CHECK_DEADLOCK FALSE
