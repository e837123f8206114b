CONSTANTS
  CmReaders = {r1, r2}
  CmWriters = {w1}
  CmDeleters = {d1}
  CmCreators = {c1}
  CmStudents = {n1}
  CmUnborn = {n2}
  CmRounds = 1
  NoClient = NoClient
  NoNode = NoNode
SPECIFICATION CmSpec
INVARIANT CmDeletedAlone
CHECK_DEADLOCK FALSE
