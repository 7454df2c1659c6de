SPECIFICATION RconnFairSpec
CONSTANTS
  probe_interval = 2
  max_backoff = 2
  Window = 2
  Limit = 1
  MaxQueue = 1
CHECK_DEADLOCK FALSE

  
PROPERTIES
  SilentPeerIsDropped
  AnsweringPeerIsServed
