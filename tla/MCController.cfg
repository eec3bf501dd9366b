\* The controller's handlers and services, and the records, one at a time.
SPECIFICATION ControllerSpec
CONSTANTS
  e1 = e1  e2 = e2  z1 = z1  d1 = d1  d2 = d2  l1 = l1  w1 = w1  p1 = p1
  first = first  again = again  edited = edited  note = note  goal = goal
  Requests = {e1, e2, z1, d1, d2, l1, w1}
  Proposals = {p1}
  KindOf <- mcKindOf
  ProposalOf <- mcProposalOf
  MaxCrashes = 1
  FREE = FREE
  ScriptRequests = {first, again, edited}
  ScriptKeys = {"key"}
  KeyOf <- mcKeyOf
  ScriptPrintOf <- mcScriptPrintOf
  MaxTorn = 1
  Dispatches = {first, again, edited}
  Packets = {"packet"}
  PacketOf <- mcPacketOf
  DispatchPrintOf <- mcDispatchPrintOf
  MaxCopilotCrashes = 1
  RunRequests = {first, again, edited}
  ModelRequests = {first, again}
  Inputs = {note, goal}
  InputOf <- mcInputOf
  TitlesOf <- mcTitlesOf
  Tokens = 1
  MaxTaskEvents = 2
  n1 = n1  n2 = n2  t1 = t1  t2 = t2
  FleetThreads = {f1, f2}
  Names = {n1, n2}
  TargetList <- mcTargetList
  TargetName <- mcTargetName
  TargetKind <- mcTargetKind
  MachineKinds = {"workstation", "other"}
  StepCount = 3
  AutomaticSteps = {1}
  LinkStep = 2
  MaxStarts = 2
  LinkPrograms = {m1}
  Consoles = {o1}
  Addresses = {address}
  Hosts = {h1, h2}
  Nicknames = {k1}
  FirstNickname = k2
  MaxEdits = 1
  MaxLinkFaults = 2
  Explorers = {e1, e2}
  Histories <- mcHistories
  Catalogue <- mcCatalogue
  ProbeTiers = {1, 2}
  ProbeUnits = 5
  TierCosts <- mcTierCosts
  MaxReads = 2
INVARIANTS ActionsHold OffloadHolds ProcessingHolds FleetHolds ComputersHold EngineHolds
PROPERTIES HandlersEnd RerunOverlaps
CHECK_DEADLOCK FALSE
