\* Two controllers of one account, four runs between them, lists of more
\* than one page.
CONSTANTS
  Hosts = {h1, h2}
  OnePage = FALSE
  RunCap = 4
SPECIFICATION Spec
CHECK_DEADLOCK FALSE
SYMMETRY Symmetric
INVARIANTS TypeOK DuplicatesBounded
PROPERTIES QuietSetupServes TeardownClean ServedUntilTouched
