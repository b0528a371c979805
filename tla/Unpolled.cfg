CONSTANTS
  Deps = {d1}
  NoDep = NoDep
  Slots = {s1}
  NoSlot = NoSlot
  NoView = NoView
  MaxLost = 0
SPECIFICATION Spec
INVARIANTS
  InFlightIsPolled
