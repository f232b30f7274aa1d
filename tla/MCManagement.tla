---------------------------- MODULE MCManagement ----------------------------
\* What a host, a browser or a backup does to the device's files and settings, in
\* four layers that share no variable: the sessions of the serial manager, an
\* upload in one of them, the HTTP server with its two users, and the settings
\* store.  The first state settles which of them a behaviour is about.
\*
\* Sessions have no constants and are finite as they stand.  Uploads: two files of
\* two chunks, so that the sender's window moves within a file and across the
\* boundary between files; two retries and two losses allow a lost command, a
\* lost reply and a late one in a row.  HTTP bodies of up to two buffers: a
\* transfer may break before, between and after them.  Settings: two payloads
\* beside the defaults, so that an old value, a new one and the draft of an
\* interrupted write differ.
EXTENDS SerialMgr, SmpTransfer, HttpServer, SettingsStore

VARIABLE layer   \* the layer this behaviour is about

ManagementInit ==
  /\ Init /\ SmpInit /\ HttpInit /\ SettingsInit
  /\ layer \in {"session", "upload", "http", "settings"}

InSession(A) == layer = "session" /\ A /\ UNCHANGED <<smpVars, httpVars, settingsVars, layer>>
InUpload(A) == layer = "upload" /\ A /\ UNCHANGED <<vars, httpVars, settingsVars, layer>>
InHttp(A) == layer = "http" /\ A /\ UNCHANGED <<vars, smpVars, settingsVars, layer>>
InSettings(A) == layer = "settings" /\ A /\ UNCHANGED <<vars, smpVars, httpVars, layer>>

ManagementNext ==
  InSession(Next) \/ InUpload(SmpNext) \/ InHttp(HttpNext) \/ InSettings(SettingsNext)

all == <<vars, smpVars, httpVars, settingsVars, layer>>

\* The fairness each layer's specification states, where it is the one that runs.
\* As the layer never changes, actions of different layers can share a condition.
ManagementSpec ==
  /\ ManagementInit /\ [][ManagementNext]_all
  /\ WF_all(InSession(RxNext) \/ InUpload(SendCommand) \/ InHttp(TaskNext) \/ InSettings(Step))
  /\ WF_all(InSession(SessionTimeout) \/ InUpload(AttemptFails) \/ InHttp(ShutdownClient))
  /\ WF_all(InHttp(StopCompletes)) /\ WF_all(InHttp(ServerStarted))

\* Every variable of the four layers keeps its type, and every counter its bound.
ManagementTypeOK == TypeOK /\ SmpTypeOK /\ HttpTypeOK /\ SettingsTypeOK

\* The settings come up at each boot (BootCompletes), where they are the layer.
SettingsComeUp == layer = "settings" => BootCompletes
=============================================================================
