------------------------ MODULE SettingsStoreProofs ------------------------
(***************************************************************************)
(* For every set of payloads: the two files keep their types, and as long   *)
(* as what is written gets written, the settings file is a register that    *)
(* survives power losses.                                                   *)
(***************************************************************************)
EXTENDS SettingsStore, TLAPS

USE PayloadsAssumption, FaultsAssumption DEF Parsable, Contents, Writing, Erasing,
    NoFile, Torn, Foreign

\* Boot and write_settings only ever handle files, payloads and backups.
LEMMA SettingsTypeStep == SettingsTypeOK /\ [SettingsNext]_settingsVars => SettingsTypeOK'
  <1> SUFFICES ASSUME SettingsTypeOK, [SettingsNext]_settingsVars PROVE SettingsTypeOK' OBVIOUS
  <1> USE DEF SettingsTypeOK
  <1>1. CASE OpenTmp BY <1>1 DEF OpenTmp
  <1>2. CASE OpenFails BY <1>2 DEF OpenFails
  <1>3. CASE PutTmp BY <1>3 DEF PutTmp, PutLeaves
  <1>4. CASE RemoveMain BY <1>4 DEF RemoveMain
  <1>5. CASE RenameTmp BY <1>5 DEF RenameTmp
  <1>6. CASE BootStored BY <1>6 DEF BootStored
  <1>7. CASE BootPromotes BY <1>7 DEF BootPromotes, WriteSettings
  <1>8. CASE BootDefaults BY <1>8 DEF BootDefaults, WriteSettings
  <1>9. ASSUME NEW v \in Payloads, SaveWifi(v) PROVE SettingsTypeOK'
    BY <1>9 DEF SaveWifi, WriteSettings, WithWifi, HasRoot
  <1>10. ASSUME NEW f \in Parsable, Restore(f) PROVE SettingsTypeOK'
    BY <1>10 DEF Restore, WriteSettings
  <1>11. CASE FactoryReset BY <1>11 DEF FactoryReset
  <1>12. CASE EraseMain BY <1>12 DEF EraseMain
  <1>13. CASE EraseTmp BY <1>13 DEF EraseTmp
  <1>14. CASE EraseNvs BY <1>14 DEF EraseNvs
  <1>15. CASE Reboot BY <1>15 DEF Reboot
  <1>16. CASE PowerLoss BY <1>16 DEF PowerLoss
  <1>17. CASE UNCHANGED settingsVars BY <1>17 DEF settingsVars
  <1> QED BY <1>1, <1>2, <1>3, <1>4, <1>5, <1>6, <1>7, <1>8, <1>9, <1>10, <1>11,
             <1>12, <1>13, <1>14, <1>15, <1>16, <1>17 DEF SettingsNext, Step

LEMMA SettingsTypeInit == SettingsInit => SettingsTypeOK
BY DEF SettingsInit, SettingsTypeOK

\* The files and the firmware's place keep their types, whatever calls fail.
THEOREM SettingsTypeCorrect == SettingsSpec => []SettingsTypeOK
BY SettingsTypeInit, SettingsTypeStep, PTL DEF SettingsSpec

\* The staging file tells how far write_settings and the reset have come.
LEMMA CoherentStep ==
  ASSUME "full" \notin Faults, SettingsTypeOK, StagingCoherent, [SettingsNext]_settingsVars
  PROVE  StagingCoherent'
  <1> USE DEF SettingsTypeOK, StagingCoherent
  <1>1. CASE OpenTmp BY <1>1 DEF OpenTmp
  <1>2. CASE OpenFails BY <1>2 DEF OpenFails
  <1>3. CASE PutTmp BY <1>3 DEF PutTmp, PutLeaves
  <1>4. CASE RemoveMain BY <1>4 DEF RemoveMain
  <1>5. CASE RenameTmp BY <1>5 DEF RenameTmp
  <1>6. CASE BootStored BY <1>6 DEF BootStored, Recovered, Probed, Probe
  <1>7. CASE BootPromotes BY <1>7 DEF BootPromotes, WriteSettings, Recovered
  <1>8. CASE BootDefaults BY <1>8 DEF BootDefaults, WriteSettings, Recovered
  <1>9. ASSUME NEW v \in Payloads, SaveWifi(v) PROVE StagingCoherent'
    BY <1>9 DEF SaveWifi, WriteSettings
  <1>10. ASSUME NEW f \in Parsable, Restore(f) PROVE StagingCoherent'
    BY <1>10 DEF Restore, WriteSettings
  <1>11. CASE FactoryReset BY <1>11 DEF FactoryReset
  <1>12. CASE EraseMain BY <1>12 DEF EraseMain
  <1>13. CASE EraseTmp BY <1>13 DEF EraseTmp
  <1>14. CASE EraseNvs BY <1>14 DEF EraseNvs
  <1>15. CASE Reboot BY <1>15 DEF Reboot
  <1>16. CASE PowerLoss BY <1>16 DEF PowerLoss
  <1>17. CASE UNCHANGED settingsVars BY <1>17 DEF settingsVars
  <1> QED BY <1>1, <1>2, <1>3, <1>4, <1>5, <1>6, <1>7, <1>8, <1>9, <1>10, <1>11,
             <1>12, <1>13, <1>14, <1>15, <1>16, <1>17 DEF SettingsNext, Step

LEMMA Coherent == ASSUME "full" \notin Faults
                  PROVE  SettingsSpec => [](SettingsTypeOK /\ StagingCoherent)
  <1>1. SettingsInit => SettingsTypeOK /\ StagingCoherent BY DEF SettingsInit, SettingsTypeOK, StagingCoherent
  <1>2. SettingsTypeOK /\ StagingCoherent /\ [SettingsNext]_settingsVars => (SettingsTypeOK /\ StagingCoherent)'
    BY SettingsTypeStep, CoherentStep
  <1> QED BY <1>1, <1>2, PTL DEF SettingsSpec

-----------------------------------------------------------------------------
\* Boot moves a file or leaves the two alone: what is in force stays.
\* write_settings puts its argument in force by its second or its third call.
LEMMA StepImplementsRegister ==
  ASSUME "full" \notin Faults, SettingsTypeOK, StagingCoherent, [SettingsNext]_settingsVars
  PROVE  [Register!Next]_<<Value, Draft, Request>>
  <1> USE DEF SettingsTypeOK, StagingCoherent, Value, Draft, Request, Loaded, Probed,
          Register!Next, Register!Nothing, Register!Erasing
  <1>1. CASE OpenTmp BY <1>1 DEF OpenTmp, Register!Discard
  <1>2. CASE OpenFails BY <1>2 DEF OpenFails, Register!Finish
  <1>3. CASE PutTmp
    <2>1. /\ pc = "put" /\ tmp' = arg /\ pc' = "remove"
          /\ UNCHANGED <<main, arg, after>>
      BY <1>3 DEF PutTmp, PutLeaves
    <2>2. CASE main = NoFile BY <2>1, <2>2 DEF Register!Commit
    <2>3. CASE main # NoFile BY <2>1, <2>3 DEF Register!Stage
    <2> QED BY <2>2, <2>3
  <1>4. CASE RemoveMain BY <1>4 DEF RemoveMain, Register!Commit
  <1>5. CASE RenameTmp BY <1>5 DEF RenameTmp, Register!Finish
  <1>6. CASE BootStored BY <1>6 DEF BootStored
  <1>7. CASE BootPromotes
    BY <1>7 DEF BootPromotes, WriteSettings, Recovered, Probe, Register!Ask
  <1>8. CASE BootDefaults BY <1>8 DEF BootDefaults, WriteSettings, Register!Ask
  <1>9. ASSUME NEW v \in Payloads, SaveWifi(v)
        PROVE  [Register!Next]_<<Value, Draft, Request>>
    BY <1>9 DEF SaveWifi, WriteSettings, Register!Ask
  <1>10. ASSUME NEW f \in Parsable, Restore(f)
         PROVE  [Register!Next]_<<Value, Draft, Request>>
    BY <1>10 DEF Restore, WriteSettings, Register!Ask
  <1>11. CASE FactoryReset BY <1>11 DEF FactoryReset, Register!Ask
  <1>12. CASE EraseMain BY <1>12 DEF EraseMain, Register!Erase
  <1>13. CASE EraseTmp BY <1>13 DEF EraseTmp, Register!Erase
  <1>14. CASE EraseNvs BY <1>14 DEF EraseNvs, Register!Finish
  <1>15. CASE Reboot BY <1>15 DEF Reboot
  <1>16. CASE PowerLoss BY <1>16 DEF PowerLoss, Register!Finish
  <1>17. CASE UNCHANGED settingsVars BY <1>17 DEF settingsVars
  <1> QED BY <1>1, <1>2, <1>3, <1>4, <1>5, <1>6, <1>7, <1>8, <1>9, <1>10, <1>11,
             <1>12, <1>13, <1>14, <1>15, <1>16, <1>17 DEF SettingsNext, Step

\* As long as fputs writes what it is given, settings.json with its staging
\* file, its boot recovery and its reset is a register that survives a power
\* loss between any two calls.
THEOREM SettingsImplementRegister == ASSUME "full" \notin Faults
                                     PROVE  SettingsSpec => ImplementsRegister
  <1>1. SettingsInit => Register!Init
    BY DEF SettingsInit, Register!Init, Register!Nothing, Value, Draft, Request, Loaded, Probed
  <1>2. SettingsTypeOK /\ StagingCoherent /\ [SettingsNext]_settingsVars
          => [Register!Next]_<<Value, Draft, Request>>
    BY StepImplementsRegister
  <1> QED BY <1>1, <1>2, Coherent, PTL DEF SettingsSpec, ImplementsRegister, Register!Spec
============================================================================
