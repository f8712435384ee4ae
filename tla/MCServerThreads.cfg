SPECIFICATION FairSpec
CONSTANTS
  MaxPort = 3
  Typed <- MCTyped
  Clients = {c1, c2}
  NoClient = NoClient
  MaxPosted = 4
INVARIANTS
  LockUsable
  SessionGuarded
  PortSaidIsHeld
  BoxTruthful
  Lifecycle
PROPERTIES
  CallsReturn
