SPECIFICATION LinkFairSpec
CONSTANTS
  Credential = {c1, c2}
  FreeRoute = {byok, vatsim}
  Relay = relay
  Null = null
  MaxFaults = 2
  MaxCrashes = 1
INVARIANT LinkInv
PROPERTIES SwitchLeavesNoReceiver ReleasedBeforeForgotten ReleaseKeptUp
