\* A connect that fails within one call of tcp_init_client.
SPECIFICATION Spec
CONSTANTS
  Fds <- ThreeFds
  PacketSize = 3
  MaxCalls = 4
  MaxPackets = 2
INVARIANT ClientConnected
CHECK_DEADLOCK FALSE
