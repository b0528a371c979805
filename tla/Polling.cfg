CONSTANTS
  Deps = {d1}
  NoDep = NoDep
  Slots = {s1, s2}
  NoSlot = NoSlot
  NoView = NoView
  MaxLost = 1
SPECIFICATION LiveSpec
INVARIANTS
  OneLoop
PROPERTIES
  StopsOnceSettled
