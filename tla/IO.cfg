SPECIFICATION Spec
CONSTANTS
  Pin = {d4, d5}
  SwitchesMode = FALSE
INVARIANTS TypeOK DirectionIsMode RestIsDriven
PROPERTIES OutputSettles InputSettles
