SPECIFICATION Spec
CONSTANTS
  Apps = {a1, a2}
  BgApps = {}
  Entries = {a2}
  Locks = {NoApp}
  NoApp = NoApp
  StackLimit = 2
  ActionDepth = 1
  PressMax = 1
INVARIANT PoolFreeAtEntry
