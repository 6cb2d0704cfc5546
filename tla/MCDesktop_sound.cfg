SPECIFICATION AllSpec
CONSTANTS
  Off = Off
  LayerOutputs <- OneOutput
  LayerExtents = {0, 1, 7}
  LayerMargins <- SomeMargins
  LayerZones = {0, 1, 3, 8}
  TaskWindows = {"w1"}
  Taskbars = {"a", "b"}
  TaskLists = {"l"}
  TaskChanges = 2
  GammaOutputs = {"m1"}
  GammaControls = {"a", "b"}
  OutputEvents = 2
  ClipSources = {"s1", "s2"}
  ClipDevices = {"d1", "d2"}
  ClipChanges = 2
  CaptureFrames = {"f1"}
  CaptureOutputs <- TwoOutputs
  CaptureReach = 3
  CaptureChanges = 2
  Notifications = {"n1"}
  LongestIdle = 3
  NoteChanges = 4
  Protocols = {1, 2, 3}
  Hooked = {2}
  MaxReloads = 2
  IdleClients = {"s1", "s2"}
  IdleCookies = 2
  ServiceEvents = 4
  Shells = {"c1"}
  AuthQuestions = 3
  AuthPending = 2
  AuthEvents = 3
  PromptQuestions = 2
  Prompts = {"p1"}
  PromptPending = 1
  Brokers = 2
  PromptEvents = 2
  Levels = {1, 4}
  LocationQuestions = 2
  LocationPending = 1
  LocationAttempts = 2
  LocationEvents = 4
INVARIANTS Placement ProtocolsSound OutputsSound IdleSound AgentsSound
PROPERTIES KeepsRequestPromise
CHECK_DEADLOCK FALSE
