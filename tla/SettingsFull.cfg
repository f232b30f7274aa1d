CONSTANTS Payloads = {d, a}
          Default = d
          Faults = {"full"}
SPECIFICATION SettingsSpec
PROPERTY FailedWriteKeepsSettings
