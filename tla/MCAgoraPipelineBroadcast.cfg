CONSTANTS
  Schedule <- MCScheduleCtrl
  BsAntNum = 1
  FftBlockSize = 1
  BeamEvents = 1
  DemulEvents = 1
  UlCodeTasks = 1
  DlCodeTasks = 1
  EncodeBlockSize = 1
  DlPilotSyms = 0
  FrameWnd = 3
  ScheduleQueues = 2
  FramesToTest = 1
  Workers = {w1}
  BulkSize = 2
  EmptyPolls = 2
  Overrun = FALSE
  ExitSignal = FALSE
  MacBuilds = {FALSE}
  SpatialStreams = 1
  MacLead = 1
  LostPkts = {}
SPECIFICATION FairSpec
PROPERTIES AllFramesRetire
