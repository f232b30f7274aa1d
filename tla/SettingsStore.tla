--------------------------- MODULE SettingsStore ---------------------------
(***************************************************************************)
(* /data/settings.json and its staging file settings.json.tmp: the writers  *)
(* (saving Wi-Fi credentials, restoring a backup, the defaults written at   *)
(* boot), the factory reset, and the boot that classifies what it finds.    *)
(* Every call on the file system is a step, and the power may fail between  *)
(* any two.  A payload is abstract: what matters is whether a file parses   *)
(* under schema 2 and which payload it holds.                               *)
(***************************************************************************)
CONSTANTS Payloads,   \* complete schema 2 payloads
          Default,    \* DEFAULT_SETTINGS
          Faults      \* calls that may fail: "open" (fopen), "full" (fputs)

NoFile == "none"      \* no file at the path
Torn == "torn"        \* a file cJSON cannot parse: empty or cut short
Foreign == "foreign"  \* an object of another schema version

ASSUME PayloadsAssumption ==
  /\ Default \in Payloads
  /\ Payloads \intersect {NoFile, Torn, Foreign, "erasing"} = {}
ASSUME FaultsAssumption == Faults \subseteq {"open", "full"}

VARIABLES main,   \* the contents at SETTINGS_PATH
          tmp,    \* the contents at SETTINGS_TMP_PATH
          pc,     \* where the firmware is
          arg,    \* the json write_settings was given
          after   \* where write_settings returns to: "up", or "boot" (restart)

settingsVars == <<main, tmp, pc, arg, after>>

Parsable == Payloads \union {Foreign}
Contents == Parsable \union {Torn, NoFile}
Writing == {"open", "put", "remove", "rename"}
Erasing == {"erase_main", "erase_tmp", "erase_nvs"}

SettingsInit ==
  /\ main = NoFile /\ tmp = NoFile
  /\ pc = "boot" /\ arg = Default /\ after = "up"

\* probe_settings_payload: what the boot makes of a file.
Probe(f) == IF f = NoFile THEN "missing"
            ELSE IF f \in Payloads THEN "valid" ELSE "corrupt"

\* jpp_settings_classify: the file in force, and whether it is the staged one.
Recovered == main = NoFile /\ tmp # NoFile
Probed == IF main # NoFile THEN main ELSE tmp

----------------------------------------------------------------------------
\* write_settings, one call at a time.

WriteSettings(json, return) == pc' = "open" /\ arg' = json /\ after' = return

OpenInPlace ==
  /\ pc = "open"
  /\ main' = Torn /\ pc' = "put"
  /\ UNCHANGED <<tmp, arg, after>>

\* fopen(tmp, "w") empties the staging file.
OpenTmp ==
  /\ pc = "open"
  /\ tmp' = Torn /\ pc' = "put"
  /\ UNCHANGED <<main, arg, after>>

\* fopen fails: logged, and nothing is written.
OpenFails ==
  /\ pc = "open" /\ "open" \in Faults
  /\ pc' = after
  /\ UNCHANGED <<main, tmp, arg, after>>

\* What fputs leaves: the payload, or part of it on a full file system.
PutLeaves == IF "full" \in Faults THEN {arg, Torn} ELSE {arg}

\* fputs and fclose; their results are not looked at.
PutTmp ==
  /\ pc = "put"
  /\ tmp' \in PutLeaves
  /\ pc' = "remove"
  /\ UNCHANGED <<main, arg, after>>

RemoveMain ==
  /\ pc = "remove"
  /\ main' = NoFile /\ pc' = "rename"
  /\ UNCHANGED <<tmp, arg, after>>

RenameTmp ==
  /\ pc = "rename"
  /\ main' = tmp /\ tmp' = NoFile /\ pc' = after
  /\ UNCHANGED <<arg, after>>

----------------------------------------------------------------------------
\* Boot, step 3.

BootStored ==
  /\ pc = "boot" /\ ~Recovered /\ Probe(Probed) = "valid"
  /\ pc' = "up"
  /\ UNCHANGED <<main, tmp, arg, after>>

\* Only the staging file exists: promoted, and replaced if it is no good.
BootPromotes ==
  /\ pc = "boot" /\ Recovered
  /\ main' = tmp /\ tmp' = NoFile
  /\ IF Probe(tmp) = "valid"
     THEN pc' = "up" /\ UNCHANGED <<arg, after>>
     ELSE WriteSettings(Default, "up")

DefaultsThenProbe ==
  /\ pc = "boot" /\ ~Recovered /\ Probe(Probed) # "valid"
  /\ WriteSettings(Default, "boot")
  /\ UNCHANGED <<main, tmp>>

\* A corrupt file, or none: the defaults are written and boot goes on.
BootDefaults ==
  /\ pc = "boot" /\ ~Recovered /\ Probe(Probed) # "valid"
  /\ WriteSettings(Default, "up")
  /\ UNCHANGED <<main, tmp>>

----------------------------------------------------------------------------
\* The running firmware.

\* The object with other credentials in it: still of the schema it had.
WithWifi(f, v) == IF f \in Payloads THEN v
                  ELSE IF f = Foreign THEN Foreign ELSE NoFile
HasRoot(f) == f \in Parsable

\* jpp_settings_save_wifi: load, modify, write; nothing if it does not load.
SaveWifi(v) ==
  /\ pc = "up" /\ HasRoot(main)
  /\ WriteSettings(WithWifi(main, v), "up")
  /\ UNCHANGED <<main, tmp>>

\* jpp_backup_apply_json with a "settings" object, of any schema; the caller
\* restarts the device when it returns.
Restore(f) ==
  /\ pc = "up"
  /\ WriteSettings(f, "boot")
  /\ UNCHANGED <<main, tmp>>

FactoryReset ==
  /\ pc = "up"
  /\ pc' = "erase_main"
  /\ UNCHANGED <<main, tmp, arg, after>>

EraseMain ==
  /\ pc = "erase_main"
  /\ main' = NoFile /\ pc' = "erase_tmp"
  /\ UNCHANGED <<tmp, arg, after>>

EraseTmp ==
  /\ pc = "erase_tmp"
  /\ tmp' = NoFile /\ pc' = "erase_nvs"
  /\ UNCHANGED <<main, arg, after>>

\* nvs_flash_erase, which these files do not notice, and esp_restart.
EraseNvs ==
  /\ pc = "erase_nvs"
  /\ pc' = "boot"
  /\ UNCHANGED <<main, tmp, arg, after>>

\* settings_do_reboot.
Reboot ==
  /\ pc = "up"
  /\ pc' = "boot"
  /\ UNCHANGED <<main, tmp, arg, after>>

\* The power fails; what was on flash stays.
PowerLoss == pc' = "boot" /\ UNCHANGED <<main, tmp, arg, after>>

Step == OpenTmp \/ PutTmp \/ RemoveMain \/ RenameTmp \/ BootStored
          \/ BootPromotes \/ BootDefaults \/ EraseMain \/ EraseTmp \/ EraseNvs

SettingsNext ==
  \/ Step
  \/ OpenFails \/ FactoryReset \/ Reboot \/ PowerLoss
  \/ \E v \in Payloads : SaveWifi(v)
  \/ \E f \in Parsable : Restore(f)

\* The firmware runs on: what it is in the middle of goes on, unless the power
\* fails.  Nothing makes a user save, restore or reset.
SettingsSpec == SettingsInit /\ [][SettingsNext]_settingsVars /\ WF_settingsVars(Step)

----------------------------------------------------------------------------
SettingsTypeOK ==
  /\ main \in Contents /\ tmp \in Contents
  /\ pc \in {"boot", "up"} \union Writing \union Erasing
  /\ arg \in Parsable
  /\ after \in {"up", "boot"}

\* Where write_settings and the factory reset are, as the two files show it:
\* outside of them the staging file is never alone.
StagingCoherent ==
  /\ pc = "put" => tmp = Torn
  /\ pc = "remove" => tmp = arg
  /\ pc = "rename" => main = NoFile /\ tmp = arg
  /\ pc \in {"up", "open", "erase_main"} => (main = NoFile => tmp = NoFile)
  /\ pc \in {"erase_tmp", "erase_nvs"} => main = NoFile
  /\ pc = "erase_nvs" => tmp = NoFile

\* The payload a boot would load from a file.
Loaded(f) == IF f \in Payloads THEN f ELSE Default

\* The register's state: the main file decides, the staging file is in force
\* only when it is alone.
Value == Loaded(Probed)
Draft == IF main # NoFile /\ tmp \in Parsable THEN Loaded(tmp) ELSE "none"
Request == IF pc \in Writing THEN Loaded(arg)
           ELSE IF pc \in Erasing THEN "erasing" ELSE "none"

Register == INSTANCE DurableRegister WITH
  value <- Value, draft <- Draft, request <- Request

\* As long as what is written gets written, a save, a restore or the boot's
\* own write_settings replaces the settings in one step by exactly what it was
\* given, wherever the power fails in between; no other step changes them but
\* a factory reset.
ImplementsRegister == Register!Spec

\* ESP_IDF_CONTRACT.md: temp-file recovery makes sure that "a failed write
\* never loses the last complete payload".  A step of write_settings leaves the
\* settings in force or puts those it was given in force.
FailedWriteKeepsSettings ==
  [][(pc \in Writing) => Value' \in {Value, Loaded(arg)}]_settingsVars

\* A boot ends with the firmware up, whatever files it finds and whatever
\* calls fail, once the power stays on: a bad settings file never bricks it.
\* A restore whose fopen fails restarts the device; that is no power loss.
BootCompletes ==
  <>[][PowerLoss => pc = "boot" \/ OpenFails]_settingsVars => (pc = "boot" ~> pc = "up")
============================================================================
