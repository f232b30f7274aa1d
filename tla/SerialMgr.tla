----------------------------- MODULE SerialMgr -----------------------------
(***************************************************************************)
(* Sessions of the serial manager (jpp_serial_mgr.c).  Three tasks share   *)
(* its state without a lock: the receive task runs one command at a time,  *)
(* the main loop answers the consent dialogs and ends a session on BACK,   *)
(* and the timer task ends an idle session.  The timer task preempts both  *)
(* others, the receive task preempts the main loop, and a task gives way   *)
(* while it waits for a file or for an answer.                             *)
(*                                                                         *)
(* A transfer is its direction; SmpTransfer models what it moves.          *)
(***************************************************************************)
EXTENDS Naturals

Stateless == {"KEEPALIVE"}   \* and GET_INFO, GET_LRV_DATA, SET_TIME
Edits == {"FS_EDIT"}         \* FS_LIST_DIR, FS_MKDIR, FS_REMOVE, FS_RENAME
Begins == {"UPLOAD_BEGIN", "DL_BEGIN"}
Steps == {"UPLOAD_CHUNK", "DL_CHUNK"}
Ends == {"UPLOAD_END", "DL_END"}
Commands == {"SESSION_START", "SESSION_END", "APPLY_BACKUP"}
            \cup Stateless \cup Edits \cup Begins \cup Steps \cup Ends

Direction(c) == IF c \in {"UPLOAD_BEGIN", "UPLOAD_CHUNK", "UPLOAD_END"} THEN "upload" ELSE "download"

Statuses == {"OK", "DENIED", "IO", "INVALID", "BUSY", "NO_SESSION", "TRANSFER", "APP_RUNNING"}

VARIABLES session,   \* s_session_active
          consent,   \* s_consent_state
          allowed,   \* s_consent_allowed
          cursor,    \* s_consent_cursor: 0 is Deny, 1 is Allow
          sem,       \* s_consent_sem
          armed,     \* s_session_timer runs
          xfer,      \* the direction of the active transfer, or "none"
          rx,        \* where the receive task is
          cmd,       \* the command it runs
          reply,     \* the last response sent, and the command it answers
          app        \* the app slot: free, being launched, or bound

vars == <<session, consent, allowed, cursor, sem, armed, xfer, rx, cmd, reply, app>>
dialog == <<consent, allowed, cursor, sem>>

Init == /\ session = FALSE /\ consent = "IDLE" /\ allowed = FALSE
        /\ cursor = 1 /\ sem = FALSE /\ armed = FALSE /\ xfer = "none"
        /\ rx = "scan" /\ cmd = "SESSION_END"
        /\ reply = [cmd |-> "SESSION_END", status |-> "OK"]
        /\ app = "free"

\* The response ends the command.
Send(status) == /\ rx' = "scan" /\ reply' = [cmd |-> cmd, status |-> status]

-----------------------------------------------------------------------------
(* The receive task.                                                       *)

\* dispatch_command: without a session only SESSION_START goes on.
Receive(c) ==
  /\ rx = "scan" /\ cmd' = c
  /\ \/ /\ ~session /\ c # "SESSION_START"
        /\ reply' = [cmd |-> c, status |-> "NO_SESSION"] /\ UNCHANGED rx
     \/ /\ session \/ c = "SESSION_START"
        /\ rx' = "dispatch" /\ UNCHANGED reply
  /\ UNCHANGED <<session, dialog, armed, xfer, app>>

\* The session is looked at again before the timer is restarted.
Dispatch ==
  /\ rx = "dispatch" /\ rx' = IF session THEN "reset" ELSE "handle"
  /\ UNCHANGED <<session, dialog, armed, xfer, cmd, reply, app>>

ResetTimer ==
  /\ rx = "reset" /\ rx' = "handle" /\ armed' = TRUE
  /\ UNCHANGED <<session, dialog, xfer, cmd, reply, app>>

\* handle_session_start up to the wait for the user.
HandleSessionStart ==
  /\ rx = "handle" /\ cmd = "SESSION_START"
  /\ \/ session /\ Send("BUSY") /\ UNCHANGED <<cursor, consent>>
     \/ ~session /\ app = "bound" /\ Send("APP_RUNNING") /\ UNCHANGED <<cursor, consent>>
     \/ ~session /\ app # "bound" /\ Send("INVALID") /\ UNCHANGED <<cursor, consent>>
     \/ /\ ~session /\ app # "bound"
        /\ cursor' = 1 /\ consent' = "PENDING"
        /\ rx' = "ask" /\ UNCHANGED reply
  /\ UNCHANGED <<session, allowed, sem, armed, xfer, cmd, app>>

\* xSemaphoreTake
TakeAnswer ==
  /\ rx = "ask" /\ sem /\ sem' = FALSE /\ rx' = "answered"
  /\ UNCHANGED <<session, consent, allowed, cursor, armed, xfer, cmd, reply, app>>

\* handle_session_start after the wait: the session opens, then its timer starts.
SessionAnswered ==
  /\ rx = "answered" /\ cmd = "SESSION_START"
  /\ \/ ~allowed /\ Send("DENIED") /\ UNCHANGED session
     \/ allowed /\ session' = TRUE /\ rx' = "opened" /\ UNCHANGED reply
  /\ UNCHANGED <<dialog, armed, xfer, cmd, app>>

TimerNotStarted == armed
TimerStarted == TRUE

SessionOpened ==
  /\ rx = "opened" /\ armed' = TimerStarted /\ Send("OK")
  /\ UNCHANGED <<session, dialog, xfer, cmd, app>>

\* close_session
CloseSession == session' = FALSE /\ xfer' = "none" /\ armed' = FALSE

HandleSessionEnd ==
  /\ rx = "handle" /\ cmd = "SESSION_END" /\ CloseSession /\ Send("OK")
  /\ UNCHANGED <<dialog, cmd, app>>

HandleStateless ==
  /\ rx = "handle" /\ cmd \in Stateless /\ Send("OK")
  /\ UNCHANGED <<session, dialog, armed, xfer, cmd, app>>

\* A transfer command needs the transfer it belongs to, the first one none.
Fits == CASE cmd \in Begins -> xfer = "none"
          [] cmd \in Steps \cup Ends -> xfer = Direction(cmd)
          [] OTHER -> TRUE

\* The checks of a command that goes on to a file: the transfer, the length of
\* the body, the path and the transfer id.
HandleFile ==
  /\ rx = "handle" /\ cmd \in Edits \cup Begins \cup Steps \cup Ends \cup {"APPLY_BACKUP"}
  /\ \/ ~Fits /\ Send("TRANSFER")
     \/ Fits /\ cmd \in Steps \cup Ends /\ Send("TRANSFER")
     \/ Fits /\ cmd # "DL_END" /\ Send("INVALID")
     \/ Fits /\ rx' = "io" /\ UNCHANGED reply
  /\ UNCHANGED <<session, dialog, armed, xfer, cmd, app>>

EditReturns ==
  /\ rx = "io" /\ cmd \in Edits /\ \E st \in {"OK", "IO"} : Send(st)
  /\ UNCHANGED <<session, dialog, armed, xfer, cmd, app>>

\* The file is open: the transfer is under way.
BeginReturns ==
  /\ rx = "io" /\ cmd \in Begins
  /\ \/ Send("IO") /\ UNCHANGED xfer
     \/ Send("OK") /\ xfer' = Direction(cmd)
  /\ UNCHANGED <<session, dialog, armed, cmd, app>>

\* A failed write or an unexpected chunk number abandons an upload.
ChunkReturns ==
  /\ rx = "io" /\ cmd \in Steps
  /\ \/ Send("OK") /\ UNCHANGED xfer
     \/ cmd = "DL_CHUNK" /\ Send("IO") /\ UNCHANGED xfer
     \/ cmd = "UPLOAD_CHUNK" /\ (\E st \in {"IO", "TRANSFER"} : Send(st)) /\ xfer' = "none"
  /\ UNCHANGED <<session, dialog, armed, cmd, app>>

\* The checksum of an upload may differ.
EndReturns ==
  /\ rx = "io" /\ cmd \in Ends /\ xfer' = "none"
  /\ \/ Send("OK")
     \/ cmd = "UPLOAD_END" /\ Send("INVALID")
  /\ UNCHANGED <<session, dialog, armed, cmd, app>>

\* handle_apply_backup has the file: a backup is put to the user.
AskBackup ==
  /\ rx = "io" /\ cmd = "APPLY_BACKUP"
  /\ \/ Send("INVALID") /\ UNCHANGED <<cursor, consent>>
     \/ /\ cursor' = 0 /\ consent' = "BACKUP_PENDING"
        /\ rx' = "ask" /\ UNCHANGED reply
  /\ UNCHANGED <<session, allowed, sem, armed, xfer, cmd, app>>

\* The backup is refused, cannot be applied, or is applied and the device restarts.
BackupAnswered ==
  /\ rx = "answered" /\ cmd = "APPLY_BACKUP"
  /\ \/ /\ ~allowed /\ Send("DENIED")
        /\ UNCHANGED <<session, dialog, armed, xfer, app>>
     \/ /\ allowed /\ Send("IO")
        /\ UNCHANGED <<session, dialog, armed, xfer, app>>
     \/ /\ allowed /\ Send("OK")
        /\ session' = FALSE /\ consent' = "IDLE" /\ allowed' = FALSE /\ cursor' = 1
        /\ sem' = FALSE /\ armed' = FALSE /\ xfer' = "none" /\ app' = "free"
  /\ UNCHANGED cmd

-----------------------------------------------------------------------------
(* The timer task.                                                         *)

\* session_timeout_cb
SessionTimeout ==
  /\ armed /\ CloseSession
  /\ UNCHANGED <<dialog, rx, cmd, reply, app>>

-----------------------------------------------------------------------------
(* The main loop.                                                          *)

RxWaits == \/ rx \in {"scan", "io"}
           \/ rx = "ask" /\ ~sem

KeyReachesSerial == app = "free"

MovedRightByOne == cursor + 1
MovedRight == 1

DialogLeftUp == consent
DialogClosed == "IDLE"

\* jpp_serial_mgr_handle_action, to which the main loop hands a key unless an
\* app has the slot.
HandleAction(k) ==
  /\ RxWaits /\ KeyReachesSerial
  /\ \/ /\ consent # "IDLE"
        /\ \/ k = "LEFT" /\ cursor' = 0 /\ UNCHANGED <<allowed, consent, sem>>
           \/ k = "RIGHT" /\ cursor' = MovedRight /\ UNCHANGED <<allowed, consent, sem>>
           \/ /\ k = "OK"
              /\ allowed' = (cursor = 1) /\ consent' = DialogClosed /\ sem' = TRUE
              /\ UNCHANGED cursor
        /\ UNCHANGED <<session, armed, xfer, reply>>
     \/ /\ consent = "IDLE" /\ session /\ k = "BACK"
        /\ reply' = [cmd |-> "SESSION_ENDED", status |-> "OK"]
        /\ CloseSession
        /\ UNCHANGED dialog
  /\ UNCHANGED <<rx, cmd, app>>

\* A launch is refused while a session is open; it reads the card before it
\* binds the context, and the main loop handles no key until then.
LaunchApp ==
  /\ RxWaits /\ app = "free" /\ ~session /\ app' = "launching"
  /\ UNCHANGED <<session, dialog, armed, xfer, rx, cmd, reply>>

BindApp ==
  /\ RxWaits /\ app = "launching" /\ app' \in {"bound", "free"}
  /\ UNCHANGED <<session, dialog, armed, xfer, rx, cmd, reply>>

CloseApp ==
  /\ RxWaits /\ app = "bound" /\ app' = "free"
  /\ UNCHANGED <<session, dialog, armed, xfer, rx, cmd, reply>>

-----------------------------------------------------------------------------
RxNext == \/ Dispatch \/ ResetTimer \/ HandleSessionStart \/ TakeAnswer
          \/ SessionAnswered \/ SessionOpened \/ HandleSessionEnd
          \/ HandleStateless \/ HandleFile \/ EditReturns \/ BeginReturns
          \/ ChunkReturns \/ EndReturns \/ AskBackup \/ BackupAnswered

Next == \/ \E c \in Commands : Receive(c)
        \/ RxNext
        \/ SessionTimeout
        \/ \E k \in {"OK", "BACK", "LEFT", "RIGHT"} : HandleAction(k)
        \/ LaunchApp \/ BindApp \/ CloseApp

\* The receive task and the timer are scheduled; the host and the user need
\* never act.
Spec == Init /\ [][Next]_vars /\ WF_vars(RxNext) /\ WF_vars(SessionTimeout)

-----------------------------------------------------------------------------
TypeOK == /\ session \in BOOLEAN /\ consent \in {"IDLE", "PENDING", "BACKUP_PENDING"}
          /\ allowed \in BOOLEAN /\ cursor \in 0..1 /\ sem \in BOOLEAN
          /\ armed \in BOOLEAN /\ xfer \in {"none", "upload", "download"}
          /\ rx \in {"scan", "dispatch", "reset", "handle", "ask", "answered", "opened", "io"}
          /\ cmd \in Commands
          /\ reply \in [cmd : Commands \cup {"SESSION_ENDED"}, status : Statuses]
          /\ app \in {"free", "launching", "bound"}

\* A dialog is up exactly while the receive task waits for it, and an answer is
\* consumed by the command that asked: a press never leaves a token behind that
\* would let a later request through unasked.
ConsentHandshake ==
  /\ consent = "PENDING" => rx = "ask" /\ cmd = "SESSION_START" /\ ~sem
  /\ consent = "BACKUP_PENDING" => rx = "ask" /\ cmd = "APPLY_BACKUP" /\ ~sem
  /\ rx = "ask" => consent # "IDLE" \/ sem
  /\ sem => rx = "ask" /\ consent = "IDLE"

\* A session whose host stays silent ends by itself.
SilentSessionEnds == session ~> (~session \/ rx # "scan")
=============================================================================
