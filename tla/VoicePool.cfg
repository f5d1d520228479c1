\* As many threads as tasks, which EveryTaskTaken needs; two tasks share a channel.
SPECIFICATION FairSpec
CONSTANTS
  t1 = t1
  t2 = t2
  t3 = t3
  u1 = u1
  u2 = u2
  c1 = c1
  c2 = c2
  Threads = {1, 2, 3}
  Tasks <- ThreeTasks
  Uids <- TwoUids
  Channels <- TwoChannels
  UidOf <- Speaker
  ChannelOf <- SharedChannel
  QueueSize = 3
  NULL = NULL
INVARIANTS TypeOK OnePlace NoLostWakeup FaultNeedsSharing
PROPERTIES EveryTaskTaken
CHECK_DEADLOCK FALSE
