\* The post-handshake drain pop discards application data a quick client sent.
CONSTANTS
  MaxSend <- MCMaxSend
  MaxPacket <- MCMaxPacket
  ReadCap <- MCReadCap
  DrainCap <- MCDrainCap
  MaxOut <- MCMaxOut
  MaxAttempts <- MCMaxAttempts
  EarlyData = TRUE
SPECIFICATION Spec
INVARIANT NoInboundLoss
CHECK_DEADLOCK FALSE
