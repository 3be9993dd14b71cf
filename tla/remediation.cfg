\* A request and a dry run, lost answers, one late post, restarts, reboots.
CONSTANTS
  Requests <- MCRequests
  Body <- MCBody
  Machines <- BareMachine
  StrayCap = 1
SPECIFICATION FairSpec
INVARIANTS TypeOK DoneAsReported
PROPERTIES AckedNeverRerun EveryRequestAnswered
