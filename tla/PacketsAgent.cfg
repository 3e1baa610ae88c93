SPECIFICATION Spec
CONSTANTS
  Thread = {t1, t2}
  SSL = {s1, s2}
  Fd = {f3, f4}
  MaxActive = 1
  MaxRing = 1
  MaxEntries = 2
  BuffersLength = 1
  Scenarios <- MCScenarios
SYMMETRY Symmetry
INVARIANTS EventOfItsSocket ReadOfItsCall ExportedInOrder FinishedWhenStopped
