SPECIFICATION Spec
CONSTANTS
  r1 = r1
  p1 = p1
  p2 = p2
  Readers = {r1}
  Procs = {p1, p2}
  NoOne = NoOne
  MaxRuns = 2
  Where <- FirstInP1
  MaxEvents = 2
  MaxFaults <- OneFault
CHECK_DEADLOCK FALSE
INVARIANTS TypeOK LogIsInOrder ReadersSeeTheRecord
PROPERTIES ReadersCatchUp
