SPECIFICATION Spec
CONSTANTS
  Byte <- MCByte
  Size = 4
  Calls <- MCCalls
  NoByte = NoByte
INVARIANTS TypeOK NoSlotRace
PROPERTY RefinesFifo
