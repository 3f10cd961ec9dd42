SPECIFICATION Spec
CONSTANTS
  Pids = {p1, p2, p3, p4}
  NoFile = NoFile
  Empty = Empty
  Overlap = FALSE
PROPERTY KillsOnlyKeepers
