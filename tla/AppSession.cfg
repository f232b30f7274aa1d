SPECIFICATION Spec
CONSTANTS
  Apps = {a1, a2}
  BgApps = {a1}
  Entries = {a2, "webdav", "settings"}
  Locks = {NoApp, a2}
  NoApp = NoApp
  StackLimit = 3
  ActionDepth = 2
  PressMax = 1
INVARIANTS TypeOK OneClaimant
PROPERTIES OnlyTeardownLeaks FinishedIsReclaimed
