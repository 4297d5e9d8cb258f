CONSTANTS
  d1 = d1 d2 = d2 a1 = a1
  Devices = {d1, d2}
  Attesters = {a1}
  MaxDevices = 1
  Threshold = 1
  Retention = 0
  MaxTime = 1
  Leaving = {a1}
  Late = {a1}
SPECIFICATION Spec
INVARIANTS RegistrySound
PROPERTIES RemovedWithReason AttestersAreCounted SilentAttestersLeave
