\* Two connections at a time, re-used descriptors, two channels alive at once.
SPECIFICATION Spec
VIEW Unsent
CONSTANTS
  Fds <- TwoFds
  IdMod = 256
  ChanMod = 65536
  DirBase = 1
  MaxUsers = 4
  MaxChannels = 2
INVARIANTS TypeOK SessionsRegistered GlobalListExact ChannelsWithinGlobal NoEmptyChannel ClientView DeliveryMatchesAnswers
PROPERTIES OthersKept ExitOnlyAfterHangUp
CHECK_DEADLOCK FALSE
