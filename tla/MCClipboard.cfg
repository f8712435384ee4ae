SPECIFICATION FairSpec
CONSTANTS
  Servers = {s1, s2}
  Client = client
  Texts = {text}
  Blank = Blank
  Other = Other
  MaxCopies = 3
INVARIANTS
  CopyOffered
  NoEcho
CHECK_DEADLOCK FALSE
PROPERTY Quiesces
