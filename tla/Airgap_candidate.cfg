CONSTANTS
  a = a
  b = b
  t1 = t1
  t2 = t2
  rc = rc
  Absent = Absent
  Torn = Torn
  Segments <- MCSegments
  Triples <- MCTriples
  Charts <- CandidateCharts
  Dated = {FALSE}
  MaxFaults = 0
  MaxInterrupts = 0
SPECIFICATION Spec
INVARIANTS
  NoPanic
