SPECIFICATION ProgramSpec

CONSTANTS
  \* WaypointMission
  MaxIndexNumber = 3
  MaxMissions = 3
  MaxUploads = 5
  \* WaypointV2Mission
  MaxWaypoints = 4
  PerFrame = 2
  MaxDownLoadNum = 2
  IndexMod = 8
  MaxMissionCalls = 4
  \* SensingStream
  HeaderLen = 3
  BufferSize = 6
  MaxRecvLen = 17
  Payloads <- MCPayloads
  MaxFrames = 6
  MaxLosses = 2
  \* CallbackRing
  Modules = {m1, m2}
  MaxSize = 3
  MaxRequests = 6
  \* LiveView
  Positions = {fpv, cam}
  FPV = fpv
  MaxStarts = 3
  \* MopPipelines
  ClientIds = {c1, c2}
  ServerIds = {s1}
  ConnectRetryTimes = 2
  AcceptRetryTimes = 2
  MaxChannels = 4

INVARIANTS
  ProgramTypeOK
  IndexInside
  DroneHasUploaded
  UploadIsWhole
  DownloadIsWhole
  RequestsSuffice
  ImagesInOrder
  Resynchronises
  OwnCallback
  OneHeartBeat
  OwnUserData
  PipelineUsable
  ChannelsAccounted

\* The application may end.
CHECK_DEADLOCK FALSE
