\* Two runtimes, two requests; two commands at a time, crashes at every step.
SPECIFICATION FairGerm
CONSTANTS
  r1 = r1  r2 = r2  g1 = g1  g2 = g2
  NONE = NONE  First = First  Failing = Failing
  Images = {g1, g2}
  Requests = {r1, r2}
  Target <- mcTarget
  Pin <- mcPin
  MaxTrialBoots = 2
  Together = 2
INVARIANTS GermHolds
PROPERTIES TrialEnds
