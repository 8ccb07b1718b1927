SPECIFICATION MCSpec
CONSTANTS
  Data = {d}
  Control = {h}
  Heartbeats = {h}
  ReplayNever = {}
  MaxAttempts = 2
  MaxRetries = 1
  Asked = {request1, request2}
  ControlRequests = {request1}
  FlowQueries = {request2}
  MaxBytes = 4
  MaxFrames = 3
  MaxChunk = 2
  MaxChunks = 4
  MaxLength = 4
  Limits = {0, 2, 4}
  FrameBytes = 3
  MaxSize = 2
  MaxFates = 2
INVARIANT NoLostRequest
INVARIANT ResentOnlyByBeat
INVARIANT DrainHasLive
INVARIANT NoLeakedConnection
INVARIANT AnswersAssembled
INVARIANT ResultsTrue
PROPERTY OnlyBoundsClose
CHECK_DEADLOCK FALSE
