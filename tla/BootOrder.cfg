SPECIFICATION Spec
CONSTANTS
  Installed = {"wlan", "usb", "touch", "droidspaces"}
  MayFail = {}
  MaxCrashes = 0
  MaxSwitches = 0
PROPERTY SomethingIsWaitedFor
CHECK_DEADLOCK FALSE
