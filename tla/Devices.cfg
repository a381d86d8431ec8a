SPECIFICATION DevicesSpec
CONSTANTS
  \* Timer
  TimerWord = 10
  Thousand = 3
  MsWord = 16
  MaxMs = 2
  MaxTime = 30
  \* Clock, Button, PWM
  Word = 20
  MaxPass = 2
  Bounce = 1
  Full = 2
  Quantum = 2
  \* ADC
  MaxValue = 2
  \* Bitbang
  Width = 3
  Room = 1
  \* Serial, Menu
  Letter = {"t", "x"}
  Stray <- MCStray
  BUFFER_SIZE = 4
  Menus <- MCMenus
  Prompt <- MCPrompt
  MaxTyped = 5
  \* Servo
  Instance = {s1, s2}
  Angle = {a1, a2}
  SERVO_SPEED = 10
  Capacity = 3
  Spare = 1
  \* Calendar
  PerMinute = 2
  PerHour = 2
  PerDay = 2
  IntWord = 262144
  Years = {1970, 1972, 2000, 2100, 2149}
  \* PinTable
  Thread = {loop, test}
  Pin <- MCPin
  TableSize = 1
INVARIANTS
  TypeOK
  TimeIsKept
  TimeIsCarried
  CyclesAreTold
  BitsAreClocked
  InputIsShifted
  LinesAreKept
  OneEventEach
  
  
  OffInStandby
  DateIsRight
  PinsAreKept
PROPERTIES
  TimeIsAClock
  OnePressEach
  HoldIsPressed
  PulseAsAsked
  SensorsAreRead
  SentInOrder
  LinesAreRun
