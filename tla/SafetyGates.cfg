SPECIFICATION GatesFairSpec
CONSTANTS
  Soc = {0, 15}
  Reader = {tel, fsm}
  Disabler = {tel, fsm}
  Poller = poller
  Free = free
  Telemetry = tel
  Fsm = fsm
  HapticMinSoc = 15
INVARIANTS
  GatesTypeOK
  SampleWhole
  MotorWatched
  PhaseInTable
PROPERTIES
  StaysStopped
  LowBatteryStopsMotor
