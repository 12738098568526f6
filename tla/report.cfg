CONSTANTS
  Names = {x}
  Me = me
  Other = other
  None = None
  MaxEdits = 2
  MaxFaults = 2
  Crashes = TRUE
SPECIFICATION FairSpec
INVARIANTS TypeOK AtRestReport SingleFailureRetried RequestKept IInv
PROPERTIES ReportConverges RequestForwarded
CHECK_DEADLOCK FALSE
