SPECIFICATION FairSpec
CONSTANTS
  Positions = {left}
  Conns = {c1, c2}
  NoPos = NoPos
  NoConn = NoConn
  MaxWire = 2
PROPERTY ControlComesBack
