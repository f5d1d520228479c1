\* Two packets under way: coalescing in both directions.
SPECIFICATION Spec
CONSTANTS
  ChanIds <- WideIds
  HeapBytes <- Bytes
  MaxUnderWay = 2
INVARIANTS TypeOK NoLostWakeup PromptInStep
PROPERTIES PromptReturns LogoutEnds
CHECK_DEADLOCK FALSE
