SPECIFICATION Spec
CONSTANTS
  t1 = t1  t2 = t2  hooked = hooked  plain = plain  r1 = r1  r2 = r2
  Threads = {t1, t2}
  Hooked = {hooked}
  Plain = {plain}
  Returns = {r1, r2}
  PendCap = 2
  RingSlots = 2
  MaxDepth = 3
  MaxVisits = 4
INVARIANTS
  ChannelComplete
  ObserversOnce
  LiveCallsArmed
PROPERTY
  ReturnFires
CHECK_DEADLOCK FALSE
