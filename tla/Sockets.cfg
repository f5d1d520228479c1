\* Calls enough to use the descriptors up; packets that are split and that arrive together.
SPECIFICATION Spec
CONSTANTS
  Fds <- ThreeFds
  PacketSize = 3
  MaxCalls = 4
  MaxPackets = 2
INVARIANTS TypeOK ReadyWhenReturned LeaksCounted MisreadNeedsSplit
CHECK_DEADLOCK FALSE
