SPECIFICATION PiSpec
CONSTANTS
  NoImage = NoImage
  Images = {img1}
  Contents = {c1, c2}
  Faults = {"tamper", "damage", "writefail"}
  MaxArms = 2
  MaxBoots = 3
  Keys = {ctrl, a, b}
  Modifiers = {ctrl}
  MaxKeys = 1
  BusyDevices = {"keyboard", "mouse"}
  IdleRelease = 2
  MaxRequests = 5
  Actions = {a1, a2}
  BatchLimit = 1
  MaxFaults = 2
  Loops = {r1, r2}
  Candidates = {"good", "missing", "broken"}
  Hardware = {"h1", "h2"}
  MaxTests = 2
  MaxChanges = 1
  Trials = 2
  MaxLabFaults = 2
INVARIANTS RescueHolds KvmHolds SyncHolds AdaptiveHolds
PROPERTIES IdleReleases SyncDelivers PromotesOverSeen LabRestores
CHECK_DEADLOCK FALSE
