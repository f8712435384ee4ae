SPECIFICATION Spec
CONSTANTS
  Sessions = {s1, s2}
  NoSession = NoSession
SYMMETRY Symmetry
INVARIANTS
  NoDeadlock
  NoUseAfterFree
  EntriesAgree
  SelectedHasData
