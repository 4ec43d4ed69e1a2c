CONSTANTS
  lo = lo  eth = eth  wlan = wlan  far = far
  Networks <- MCNetworks
  Loopbacks = {lo}
  Addresses = {lo, eth, wlan, far}
  Long = {wlan}
  Setters = {s1, s2}
  Absent = Absent  Empty = Empty  Torn = Torn
  Default = Default
  MaxSetups = 2
  MaxCrashes = 1
SPECIFICATION FairSpec
INVARIANTS TypeOK BindIsLan MainIsLastSetup GetIsLastSet
PROPERTIES BindsChosen ComesUp ImplementsUnits
CHECK_DEADLOCK FALSE
