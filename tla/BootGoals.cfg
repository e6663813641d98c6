SPECIFICATION Spec
CONSTANTS
  Installed = {"wlan", "usb", "touch", "droidspaces"}
  MayFail = {"load_wlan_driver", "focaltech-tp"}
  MaxCrashes = 0
  MaxSwitches = 0
PROPERTIES ReadyIsKept AdbComes ContainerComes WifiHelperRuns
CHECK_DEADLOCK FALSE
