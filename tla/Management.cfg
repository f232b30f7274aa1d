SPECIFICATION ManagementSpec
CONSTANTS
  Files = 2
  Chunks = 2
  Retries = 2
  SeqMod = 5
  LossMax = 2
  DamageMax = 1
  BodyMax = 2
  Payloads = {d, a, b}
  Default = d
  Faults = {"open"}
INVARIANTS ManagementTypeOK ConsentHandshake UploadIsFaithful OwnersAgree
PROPERTIES LostAckRecovers SilentSessionEnds UploadEnds CreatedIsStored StopTakesEffect
           ImplementsRegister SettingsComeUp
CHECK_DEADLOCK FALSE
