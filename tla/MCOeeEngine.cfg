SPECIFICATION FairSpec
CONSTANTS
  Engines = {"resident", "cli"}
  Resident = {"resident"}
  Shifts = {1}
  Stops <- StopsOf
  Reasons = {"JAM"}
  MaxSamples = 2
  MaxAssigned = 1
  MaxCliPasses = 1
  ClaimLimit = 1
  MaxFaults = 1
INVARIANTS TypeOK ResultsOnRecord
PROPERTIES ReasonsSurvive ReasonReachesResult
