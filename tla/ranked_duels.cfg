\* Four players, two challenges, the answer timers running; nobody has to do anything else.
SPECIFICATION FairSpec
CONSTANTS
  p1 = p1
  p2 = p2
  p3 = p3
  p4 = p4
  a1 = a1
  a2 = a2
  d1 = d1
  d2 = d2
  Player <- MCPlayer
  Account = {a1, a2}
  WalletOf <- TwoAndTwo
  Duel = {d1, d2}
  MAX_LIMIT = 2
INVARIANTS BusyIsOpen SealedIsLive ScoreIsFought StandingsAddUp
PROPERTY PendingEnds
CONSTRAINT Bounds
CHECK_DEADLOCK FALSE
