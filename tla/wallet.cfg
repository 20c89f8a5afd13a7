\* A player alone, whose one wallet hears the town and the player's own scripts.
SPECIFICATION FairSpec
CONSTANTS
  Channel = {"place", "own"}
  Kind = {"read", "write", "unknown"}
  MAX_ASKS = 3
  SPAN = 2
  KEPT = 2
INVARIANTS InOrder
PROPERTIES HandledOnce AsksAreAnswered
CONSTRAINT FewAsks
CHECK_DEADLOCK FALSE
