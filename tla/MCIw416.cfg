SPECIFICATION FairSpec
CONSTANTS
  NumPorts = 2
  AggrLimit = 2
  Polls = 2
  Tries = 2
  SeqMod = 4
  NetPasses = 2
  CmdIds = {"PS"}
  MaxUploads = 3
  MaxCalls = 1
  MaxEvents = 1
  MaxFaults = 1
INVARIANTS NothingForgotten ReplyIsMine FramesInOrder
PROPERTIES WaitSeesReply UploadsRead
