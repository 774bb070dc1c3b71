CONSTANTS
  a = a
  b = b
  t1 = t1
  t2 = t2
  rc = rc
  Absent = Absent
  Torn = Torn
  Segments <- MCSegments
  Triples <- MCTriples
  Charts <- MixedCharts
  Dated = {TRUE, FALSE}
  MaxFaults = 2
  MaxInterrupts = 2
SPECIFICATION Spec
INVARIANTS
  TypeOK
  Relocated
  NamesTellCharts
PROPERTIES
  ImplementsExportMirror
  ImplementsImportMirror
