SPECIFICATION Spec
CONSTANTS
  Friends = {alice, bob}
  Indices = {0, 1, 2}
  BitRates = {0, 64}
  DefaultCallType = "audio"
  DefaultRate = 48
  DefaultFrame = 20
  None = None
\* A failed assertion ends the process.
CHECK_DEADLOCK FALSE
INVARIANTS
  TypeOK
  NoAbort
  RequestsPending
  FramesWhole
