\* Two stops overlapping starts, and a device that is linked twice.
SPECIFICATION Spec
CONSTANTS
  NoSocket = NoSocket
  MaxGeneration = 2
  MaxCreds = 2
INVARIANTS StaysStopped NotAbandoned
