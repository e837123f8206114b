CONSTANTS
  FmReaders = {f1, f2}
  FmWriters = {g1, g2}
SPECIFICATION FmSpec
INVARIANT FmWriterAlone
CHECK_DEADLOCK FALSE
