\* Three connections at a time: entries move past one another, descriptors are re-used,
\* and a packet may lie behind another.
SPECIFICATION FairSpec
CONSTANTS
  Fds <- ThreeFds
  Listener = 3
  ArraySize = 6
  MaxBacklog = 1
  MaxUnread = 2
INVARIANTS TypeOK PolledOnce PollsOpenOnly
PROPERTIES PassComplete RequestsRead HangUpsClosed
CHECK_DEADLOCK FALSE
