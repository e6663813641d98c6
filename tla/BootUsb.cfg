SPECIFICATION Spec
CONSTANTS
  Installed = {"usb"}
  MayFail = {}
  MaxCrashes = 1
  MaxSwitches = 3
INVARIANTS TypeOK GadgetIsTruthful
PROPERTIES DaemonsFindEndpoints SwitchTakesEffect
CHECK_DEADLOCK FALSE
