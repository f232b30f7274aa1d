---------------------------- MODULE IpcMailbox ----------------------------
(***************************************************************************)
(* ipc_send and ipc_recv: a message is a file                               *)
(* /sd/ipc/<recipient>/<sender>/msg_<tick>.json.  One app runs at a time;   *)
(* the tick counter starts again with the device.                           *)
(* ipc_recv finds a message with the first entry of two listings.  The      *)
(* fields of a listing point to a name buffer on the lister's stack and to  *)
(* directory entries freed by closedir, so what the lookup of "entry_0"     *)
(* gives is undefined: any entry of the directory, or none that is of use.  *)
(***************************************************************************)
EXTENDS AppIds, Naturals

CONSTANTS SendMax,   \* bound: messages sent
          TickMax    \* bound on the tick counter

ASSUME MailboxAssumption == SendMax \in Nat /\ TickMax \in Nat

NoApp == "none"
Blank == 0   \* the text of a file that was opened and not written

VARIABLES box,    \* the files under /sd/ipc
          app,    \* the app that is running
          tick,   \* xTaskGetTickCount
          ipcPc,     \* what its call is doing
          ipcCur,    \* the file it is at
          count,  \* messages sent so far
          sent,   \* [to, from, text] of the sends that returned
          got     \* [to, text] of the messages received and deleted

ipcVars == <<box, app, tick, ipcPc, ipcCur, count, sent, got>>

File == [to : Apps, from : Apps, tick : 0..TickMax, text : 0..SendMax]
Path(f) == <<f.to, f.from, f.tick>>

IpcInit ==
  /\ box = {} /\ app = NoApp /\ tick = 0
  /\ ipcPc = "idle" /\ ipcCur = {} /\ count = 0
  /\ sent = {} /\ got = {}

IpcOpenApp(a) ==
  /\ app = NoApp
  /\ app' = a
  /\ UNCHANGED <<box, tick, ipcPc, ipcCur, count, sent, got>>

CloseApp ==
  /\ app # NoApp /\ ipcPc = "idle"
  /\ app' = NoApp
  /\ UNCHANGED <<box, tick, ipcPc, ipcCur, count, sent, got>>

----------------------------------------------------------------------------
\* jpp_sdk_ipc_send through sd_file_write_cb.

MessageFile(to, text) == [to |-> to, from |-> app, tick |-> tick, text |-> text]

OtherFiles(f) == {g \in box : Path(g) # Path(f)}

\* fopen "w" empties whatever file has the name.
SendOpen(to) ==
  /\ app # NoApp /\ ipcPc = "idle" /\ count < SendMax
  /\ count' = count + 1
  /\ LET f == MessageFile(to, count')
     IN  /\ ipcCur' = {f}
         /\ box' = OtherFiles(f) \union {[f EXCEPT !.text = Blank]}
  /\ sent' = sent \union {[to |-> to, from |-> app, text |-> count']}
  /\ ipcPc' = "put"
  /\ UNCHANGED <<app, tick, got>>

SendPut ==
  /\ ipcPc = "put"
  /\ \E f \in ipcCur : box' = OtherFiles(f) \union {f}
  /\ ipcPc' = "idle" /\ ipcCur' = {}
  /\ UNCHANGED <<app, tick, count, sent, got>>

----------------------------------------------------------------------------
\* jpp_sdk_ipc_recv.

Mailbox == {f \in box : f.to = app}

\* No usable "entry_0" in one of the listings: NO_DATA.
RecvNothing ==
  /\ app # NoApp /\ ipcPc = "idle"
  /\ UNCHANGED ipcVars

RecvRead ==
  /\ app # NoApp /\ ipcPc = "idle"
  /\ \E f \in Mailbox : ipcCur' = {f}
  /\ ipcPc' = "delete"
  /\ UNCHANGED <<box, app, tick, count, sent, got>>

LeftInPlace == box
Deleted == box \ ipcCur

\* The result of the deletion is not looked at.
RecvDelete ==
  /\ ipcPc = "delete"
  /\ \/ /\ box' = Deleted
        /\ got' = got \union {[to |-> f.to, text |-> f.text] : f \in ipcCur}
     \/ MayFail /\ UNCHANGED <<box, got>>
  /\ ipcPc' = "idle" /\ ipcCur' = {}
  /\ UNCHANGED <<app, tick, count, sent>>

----------------------------------------------------------------------------
IpcTick ==
  /\ tick < TickMax
  /\ tick' = tick + 1
  /\ UNCHANGED <<box, app, ipcPc, ipcCur, count, sent, got>>

\* The power fails or the device restarts.
IpcRestart ==
  /\ MayFail \/ app = NoApp
  /\ tick' = 0 /\ app' = NoApp /\ ipcPc' = "idle" /\ ipcCur' = {}
  /\ UNCHANGED <<box, count, sent, got>>

IpcNext ==
  \/ \E a \in Apps : IpcOpenApp(a)
  \/ \E a \in Apps : SendOpen(a)
  \/ CloseApp \/ SendPut \/ RecvNothing \/ RecvRead \/ RecvDelete
  \/ IpcTick \/ IpcRestart

IpcSpec == IpcInit /\ [][IpcNext]_ipcVars

----------------------------------------------------------------------------
IpcTypeOK ==
  /\ box \subseteq File /\ ipcCur \subseteq File
  /\ \A f, g \in box : Path(f) = Path(g) => f = g
  /\ app \in Apps \union {NoApp} /\ tick \in 0..TickMax
  /\ ipcPc \in {"idle", "put", "delete"} /\ count \in 0..SendMax

\* Sent to this app, as a whole; a send cut off between fopen and fputs may show
\* as an empty text.
OnlySentIsReceived(f) == [to |-> app, from |-> f.from, text |-> f.text] \in sent

NotReceivedBefore(f) == [to |-> f.to, text |-> f.text] \notin got

\* What ipc_recv hands to an app was sent to that app, and it gets it once, over
\* all launches and restarts: ipc_recv deletes what it has read before it
\* returns, so only a message whose deletion failed shows up again.
MailArrivesOnce ==
  [][RecvDelete =>
       \A f \in ipcCur :
         f.text = Blank \/ (OnlySentIsReceived(f) /\ NotReceivedBefore(f))]_ipcVars
=============================================================================
