SPECIFICATION Spec
CONSTANTS
  Positions = {left, right}
  Conns = {c1, c2}
  NoPos = NoPos
  NoConn = NoConn
  MaxWire = 2
SYMMETRY Symmetry
INVARIANTS
  TypeOK
  HandshakeOrder
  RemoteHasHolder
  RemoteReclaimable
  TokenConservation
  LocalCursorVisible
