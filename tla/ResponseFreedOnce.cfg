\* The instance of ChatServer.cfg.
SPECIFICATION Spec
CONSTANTS
  Fds <- TwoFds
  IdMod = 256
  ChanMod = 65536
  DirBase = 1
  MaxUsers = 4
  MaxChannels = 2
INVARIANT ResponseFreedOnce
CHECK_DEADLOCK FALSE
