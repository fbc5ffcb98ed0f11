SPECIFICATION Spec
CONSTANTS
  Client = "client"
  Server = "server"
  NET_MAX_SEQUENCE = 8
  BufferSize = 2
  NET_MAX_PACKET_CHUNKS = 1
  ChunkSpan = 4
  AckDelay = 1
  Sessions <- MCSessions
  StalePeerAcks = {1, 5}
  InFlight <- MCInFlight
INVARIANTS Reliable 
PROPERTIES RefinesWindow
CHECK_DEADLOCK FALSE
