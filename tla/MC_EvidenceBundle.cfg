SPECIFICATION Spec
CONSTANTS
  p1 = p1
  p2 = p2
  c1 = c1
  c2 = c2
  Path <- MCPath
  Content <- MCContent
  Absent = Absent
  Link = Link
  Missing = Missing
  Torn = Torn
  MaxEdits = 2
  MaxBuilds = 2
SYMMETRY Symmetry
INVARIANTS
  TypeOK
  VerdictHoldsForUntouchedFiles
  QuietVerdictIsExact
  ManifestRecordsUntouchedFiles
