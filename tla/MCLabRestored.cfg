\* Two candidates and two faults.
SPECIFICATION LabSpec
CONSTANTS
  Trials = 2
  MaxLabFaults = 2
PROPERTY CandidatesRestored
CHECK_DEADLOCK FALSE
