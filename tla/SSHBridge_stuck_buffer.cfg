\* Units cryptlib keeps buffered after a 16 KiB pop wait for the next packet.
CONSTANTS
  MaxSend <- MCMaxSend
  MaxPacket <- MCMaxPacket
  ReadCap <- MCReadCap
  DrainCap <- MCDrainCap
  MaxOut <- MCMaxOut
  MaxAttempts <- MCMaxAttempts
  EarlyData = FALSE
SPECIFICATION Spec
PROPERTY InboundDelivered
CHECK_DEADLOCK FALSE
