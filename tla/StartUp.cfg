SPECIFICATION FairSpec
CONSTANTS
  ar = ar
  en = en
  Lang = {ar, en}
  Default = ar
  None = None
  Fails = TRUE
  MaxTaps = 2
  MaxLabels = 3
  MaxStarts = 2
CHECK_DEADLOCK FALSE
INVARIANTS
  EnteredReady
  LabelsOfLanguage
PROPERTIES
  LeavesSplash
