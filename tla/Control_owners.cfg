SPECIFICATION AllSpec
CONSTANTS
  Holds <- MCHolds
  Modals <- MCModals
  ClientOwned <- MCClientOwned
  Plain <- MCPlain
  MaxGrabs = 2
  MaxWorld = 1
  n1 = n1
  p = p
  q = q
INVARIANTS KeyboardOwned SocketSound WatchersInformed
PROPERTIES KeyboardComesBack OneOwner
CHECK_DEADLOCK FALSE
