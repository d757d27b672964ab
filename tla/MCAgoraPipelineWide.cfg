CONSTANTS
  Schedule <- MCScheduleDlPilot
  BsAntNum = 1
  FftBlockSize = 1
  BeamEvents = 1
  DemulEvents = 1
  UlCodeTasks = 2
  DlCodeTasks = 1
  EncodeBlockSize = 1
  DlPilotSyms = 1
  FrameWnd = 3
  ScheduleQueues = 2
  FramesToTest = 3
  Workers = {w1, w2}
  BulkSize = 2
  EmptyPolls = 2
  Overrun = FALSE
  ExitSignal = FALSE
  MacBuilds = {FALSE}
  SpatialStreams = 1
  MacLead = 1
  LostPkts = {}
SYMMETRY MCWorkerSymmetry
SPECIFICATION Spec
INVARIANTS DependencyRespected NoLateCompletion RetireInOrder
