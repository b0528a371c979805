CONSTANTS
  Tokens = {k1, k2, k3}
  NoToken = NoToken
  NoTab = NoTab
  Tabs = {t1, t2}
  Requests = {t1, t2}
  MaxLost = 1
SPECIFICATION Spec
SYMMETRY TabSymmetry
CHECK_DEADLOCK FALSE
INVARIANTS
  CascadeEndsSessions
  WaitersCanGoOn
PROPERTIES
  ReplacementIsFixed
  PresentedOnce
