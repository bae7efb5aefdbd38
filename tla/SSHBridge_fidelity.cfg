\* Stream fidelity, exclusive use of the session handle and the reader's exit
\* after the client disconnects, with a client that may send early.
CONSTANTS
  MaxSend <- MCMaxSend
  MaxPacket <- MCMaxPacket
  ReadCap <- MCReadCap
  DrainCap <- MCDrainCap
  MaxOut <- MCMaxOut
  MaxAttempts <- MCMaxAttempts
  EarlyData = TRUE
SPECIFICATION Spec
INVARIANT TypeOK
INVARIANT StreamFidelity
INVARIANT NoConcurrentCrypt
PROPERTY PeerCloseEndsReader
\* A process whose ~IOSSH called std::terminate has stopped.
CHECK_DEADLOCK FALSE
