----------------------------- MODULE AppSession -----------------------------
(***************************************************************************)
(* One SD app at a time: the main loop of app_main.c, the launcher and     *)
(* teardown of jpp_app_dispatch.c, the app task they create, and what the  *)
(* two share with the WebDAV server and the serial manager.                *)
(*                                                                         *)
(* The app task (priority 4) preempts the main loop (priority 1), so the   *)
(* main loop steps only while the app task waits.  The main loop may be    *)
(* preempted between any two of its steps.                                 *)
(***************************************************************************)
EXTENDS Naturals, Sequences

CONSTANTS Apps,        \* ids of the SD apps
          BgApps,      \* those with a scheduled background task
          Entries,     \* what the launcher lists: apps and built-in screens
          Locks,       \* the apps dummy mode may lock to; NoApp: it is off
          NoApp,
          StackLimit,  \* JPP_UI_STACK_LIMIT
          ActionDepth, \* length of s_action_queue
          PressMax     \* bound: key presses per pass of the main loop

Reserved == {"launcher", "settings", "webdav", "webdav_passconfig",
             "app_crash", "sd_ejected"}

ASSUME AppsAssumption == /\ NoApp \notin Apps /\ Apps \cap Reserved = {}
                         /\ BgApps \subseteq Apps
                         /\ Entries \subseteq Apps \cup {"settings", "webdav"}
                         /\ Locks \subseteq Apps \cup {NoApp}
ASSUME BoundsAssumption == /\ StackLimit \in Nat /\ StackLimit >= 2
                           /\ ActionDepth \in Nat /\ PressMax \in Nat

VARIABLES locked,      \* the locked app of dummy mode, or NoApp
          main,        \* where the main loop is
          awake,       \* power_state_last_tick is ACTIVE
          actions,     \* s_action_queue
          presses,     \* key presses in this pass
          stack,       \* shell->stack
          dialog,      \* the app the crash dialog names
          ejectFlag,   \* s_sd_ejection_detected
          ejected,     \* shell->sd_ejected
          task,        \* where the app task is
          blocked,     \* the app task waits: a delay, a lock or I/O
          io,          \* the app task is inside a storage operation
          failed,      \* its runner or loader reported a failure
          isMp,        \* s_sd_is_mp
          isBg,        \* s_sd_task_args.bg_task is set
          handle,      \* s_sd_task # NULL
          context,     \* s_active_sdk_context # NULL
          appId,       \* s_sd_app_id
          closeReq,    \* s_sd_ctx.close_requested
          bgActive,    \* s_bg_run_active
          bgDone,      \* s_bg_run_done
          overrun,     \* the headless run is past its quota
          crash,       \* the app s_crash_pending is armed for
          pool,        \* who holds the app pool; "webdav" while that server runs
          lock,        \* the "storage" broker lock
          shown,       \* shell->fileserver_running
          serial       \* the serial manager: idle, consent dialog or session

ui    == <<stack, dialog>>
card  == <<ejectFlag, ejected>>
run   == <<task, blocked, io, failed>>
args  == <<isMp, isBg, locked>>   \* how the app was launched, and the lock
slot  == <<handle, context, appId>>
bg    == <<bgActive, bgDone, overrun>>
files == <<pool, lock>>
keys  == <<actions, presses>>
vars  == <<main, awake, keys, ui, card, run, args, slot, closeReq, bg, crash, files, shown, serial>>

MainSteps == {"drain", "sync", "power", "eject", "preempt", "open", "launch",
              "launched", "bg", "bg_launch", "bg_launched", "close"}
TaskSteps == {"none", "entry", "load", "run", "stop", "cleanup", "record",
              "sync", "finish", "suspended"}
Keys == {"OK", "BACK"}

Root == <<"launcher">>
Top(s) == s[Len(s)]

\* The shell pushes the locked app before the first pass in dummy mode.
BootStack == IF locked = NoApp THEN Root ELSE Root \o <<locked>>

Init ==
  /\ locked \in Locks
  /\ main = "drain" /\ awake = TRUE /\ actions = <<>> /\ presses = 0
  /\ stack = BootStack /\ dialog = NoApp /\ ejectFlag = FALSE /\ ejected = FALSE
  /\ task = "none" /\ blocked = FALSE /\ io = FALSE /\ failed = FALSE
  /\ isMp = FALSE /\ isBg = FALSE
  /\ handle = FALSE /\ context = FALSE /\ appId = NoApp
  /\ closeReq = FALSE
  /\ bgActive = FALSE /\ bgDone = FALSE /\ overrun = FALSE
  /\ crash = NoApp /\ pool = "free" /\ lock = FALSE
  /\ shown = FALSE /\ serial = "idle"

\* esp_restart, or deep sleep and the wake-up that follows it: RAM is lost.
Restart ==
  /\ UNCHANGED locked
  /\ main' = "drain" /\ awake' = TRUE /\ actions' = <<>> /\ presses' = 0
  /\ stack' = BootStack /\ dialog' = NoApp /\ ejectFlag' = FALSE /\ ejected' = FALSE
  /\ task' = "none" /\ blocked' = FALSE /\ io' = FALSE /\ failed' = FALSE
  /\ isMp' = FALSE /\ isBg' = FALSE
  /\ handle' = FALSE /\ context' = FALSE /\ appId' = NoApp
  /\ closeReq' = FALSE
  /\ bgActive' = FALSE /\ bgDone' = FALSE /\ overrun' = FALSE
  /\ crash' = NoApp /\ pool' = "free" /\ lock' = FALSE
  /\ shown' = FALSE /\ serial' = "idle"

-----------------------------------------------------------------------------
(* The screen stack (jpp_ui_core.c).                                       *)

PushUnbounded(s, screen) == Append(s, screen)
Push(s, screen) == IF Len(s) >= StackLimit THEN s ELSE Append(s, screen)
Pop(s) == IF Len(s) = 1 THEN s ELSE SubSeq(s, 1, Len(s) - 1)

\* jpp_ui_shell_record_crash
CrashScreen == Root \o <<"app_crash">>

-----------------------------------------------------------------------------
(* The keypad task.  Its action queue is filled without waiting: a key     *)
(* that finds it full is lost.                                             *)

Press(k) ==
  /\ presses < PressMax
  /\ presses' = presses + 1
  /\ actions' = IF Len(actions) < ActionDepth THEN Append(actions, k) ELSE actions
  /\ UNCHANGED <<main, awake, ui, card, run, args, slot, closeReq, bg, crash, files, shown, serial>>

\* A media error met by the probe of the main loop or by an app's file call.
CardRemoved ==
  /\ ~ejectFlag /\ ejectFlag' = TRUE
  /\ UNCHANGED <<main, awake, keys, ui, ejected, run, args, slot, closeReq, bg, crash, files, shown, serial>>

-----------------------------------------------------------------------------
(* The serial manager's task (priority 2) also preempts the main loop.     *)

AppWaits == task \in {"none", "suspended"} \/ blocked

\* handle_session_start: refused while an app is bound, else the dialog goes up.
SessionStart ==
  /\ AppWaits /\ serial = "idle" /\ ~context
  /\ serial' = "consent"
  /\ UNCHANGED <<main, awake, keys, ui, card, run, args, slot, closeReq, bg, crash, files, shown>>

\* handle_session_end or session_timeout_cb
SessionEnd ==
  /\ AppWaits /\ serial = "session"
  /\ serial' = "idle"
  /\ UNCHANGED <<main, awake, keys, ui, card, run, args, slot, closeReq, bg, crash, files, shown>>

\* jpp_serial_mgr_handle_action.  The answer wakes the serial task, which
\* opens the session before the main loop runs on.
SerialHandleAction(k) ==
  \/ serial = "consent" /\ k = "OK" /\ serial' \in {"session", "idle"}
  \/ serial = "consent" /\ k # "OK" /\ UNCHANGED serial
  \/ serial = "session" /\ serial' = IF k = "BACK" THEN "idle" ELSE "session"

-----------------------------------------------------------------------------
(* The shell's handling of a key (jpp_ui_shell_handle_action).             *)

\* jpp_fileserver_stop: a server task that does not exit in time keeps the pool.
StopServer == pool' \in (IF pool = "webdav" THEN {"webdav", "free"} ELSE {pool})

\* jpp_fileserver_start: the pool may be taken, the listener may fail.
StartServer == pool' \in (IF pool = "free" THEN {"webdav", "free"} ELSE {pool})

\* A stop followed by a start, as a password change makes them.
RestartServer == pool' \in (IF pool \in {"webdav", "free"} THEN {"webdav", "free"} ELSE {pool})

WebdavAction(k) ==
  \/ /\ k = "BACK"
     /\ stack' = Pop(stack)
     /\ IF shown THEN StopServer /\ shown' = (pool' = "webdav")
                 ELSE UNCHANGED <<pool, shown>>
  \/ k = "OK" /\ shown /\ stack' = Push(stack, "webdav_passconfig") /\ UNCHANGED <<pool, shown>>
  \/ k = "OK" /\ shown /\ StopServer /\ UNCHANGED <<stack, shown>>
  \/ k = "OK" /\ ~shown /\ StartServer /\ UNCHANGED <<stack, shown>>

PassconfigAction(k) ==
  /\ stack' = Pop(stack) /\ UNCHANGED shown
  /\ IF k = "OK" /\ shown THEN UNCHANGED pool \/ RestartServer ELSE UNCHANGED pool

ShellAction(k) ==
  LET top == Top(stack) IN
  \/ /\ top = "app_crash"
     /\ stack' = Pop(stack) /\ dialog' = NoApp /\ UNCHANGED <<pool, shown>>
  \/ top = "webdav" /\ WebdavAction(k) /\ UNCHANGED dialog
  \/ top = "webdav_passconfig" /\ PassconfigAction(k) /\ UNCHANGED dialog
  \* The launcher, and any app screen whose app is not launched yet, open
  \* the selected entry.
  \/ /\ top \in {"launcher"} \cup Apps
     /\ \E e \in Entries : stack' = IF k = "OK" THEN Push(stack, e) ELSE stack
     /\ UNCHANGED <<dialog, pool, shown>>

-----------------------------------------------------------------------------
(* The main loop, one step per stage.                                      *)

MainAt(at) == main = at /\ AppWaits

KeysDropped == handle

\* The drain of the action queue, one key at a time.
Drain ==
  /\ MainAt("drain") /\ actions # <<>>
  /\ LET k == Head(actions)
         take == main' = main /\ actions' = Tail(actions) /\ UNCHANGED <<awake, presses>>
         rest == UNCHANGED <<card, run, args, slot, closeReq, bg, crash, lock>>
         idle == UNCHANGED <<ui, pool, shown>>
     IN \/ ejected /\ k = "OK" /\ Restart
        \/ ejected /\ k # "OK" /\ take /\ rest /\ idle /\ UNCHANGED serial
        \/ /\ ~ejected /\ KeysDropped
           /\ take /\ rest /\ idle /\ UNCHANGED serial
        \/ /\ ~ejected /\ ~KeysDropped /\ serial # "idle"
           /\ take /\ rest /\ idle /\ SerialHandleAction(k)
        \/ /\ ~ejected /\ ~KeysDropped /\ serial = "idle" /\ Top(stack) = "settings"
           /\ take /\ rest /\ UNCHANGED <<dialog, pool, shown, serial>>
           /\ stack' \in {stack, Pop(stack)}
        \/ /\ ~ejected /\ ~KeysDropped /\ serial = "idle" /\ Top(stack) # "settings"
           /\ take /\ rest /\ UNCHANGED serial
           /\ IF ~awake \/ locked # NoApp THEN idle ELSE ShellAction(k)

DrainDone ==
  /\ MainAt("drain") /\ actions = <<>> /\ main' = "sync"
  /\ UNCHANGED <<awake, keys, ui, card, run, args, slot, closeReq, bg, crash, files, shown, serial>>

\* Every two seconds the shell's copy of the server state is refreshed.
SyncServerState ==
  /\ MainAt("sync") /\ main' = "power"
  /\ shown' \in {shown, pool = "webdav"}
  /\ UNCHANGED <<awake, keys, ui, card, run, args, slot, closeReq, bg, crash, files, serial>>

\* The power tick.  The screen dims or wakes; on a timeout without a wake lock
\* the app is torn down and the device sleeps until a key restarts it.
PowerTick ==
  /\ MainAt("power")
  /\ \/ ~shown /\ serial = "idle" /\ Restart
     \/ /\ main' = "eject" /\ awake' \in BOOLEAN
        /\ UNCHANGED <<keys, ui, card, run, args, slot, closeReq, bg, crash, files, shown, serial>>

EjectCheck ==
  /\ MainAt("eject") /\ main' = "preempt"
  /\ IF ejectFlag /\ ~ejected
       THEN ejected' = TRUE /\ stack' = Root \o <<"sd_ejected">> /\ dialog' = NoApp
       ELSE UNCHANGED <<ejected, ui>>
  /\ UNCHANGED <<awake, keys, ejectFlag, run, args, slot, closeReq, bg, crash, files, shown, serial>>

\* vTaskDelete at teardown.  What the task held, it holds no more claim to.
TaskDeleted == /\ handle' = FALSE /\ context' = FALSE /\ appId' = NoApp
               /\ task' = "none" /\ blocked' = FALSE /\ io' = FALSE
               /\ UNCHANGED failed

LaunchRefused == serial = "session"

LaunchAnyway == TRUE
SlotFree == ~handle

AppOpen == Top(stack) \notin Reserved

\* jpp_app_bg_teardown
BgTeardown == TaskDeleted /\ bgActive' = FALSE /\ bgDone' = FALSE /\ UNCHANGED overrun

\* An app screen preempts a headless run.
PreemptCheck ==
  /\ MainAt("preempt") /\ main' = "open"
  /\ IF AppOpen /\ bgActive THEN BgTeardown ELSE UNCHANGED <<run, slot, bg>>
  /\ UNCHANGED <<awake, keys, ui, card, args, closeReq, crash, files, shown, serial>>

\* An app screen whose app is not running is launched, unless a serial session
\* has the card.
OpenCheck ==
  /\ MainAt("open")
  /\ \/ AppOpen /\ SlotFree /\ LaunchRefused
        /\ main' = "close" /\ stack' = Pop(stack) /\ UNCHANGED appId
     \/ AppOpen /\ SlotFree /\ ~LaunchRefused
        /\ main' = "launch" /\ appId' = Top(stack) /\ UNCHANGED stack
     \/ ~(AppOpen /\ SlotFree)
        /\ main' = "bg" /\ UNCHANGED <<stack, appId>>
  /\ UNCHANGED <<awake, keys, dialog, card, run, args, handle, context, closeReq, bg, crash, files, shown, serial>>

\* The part of launch_app_from after the files are read: the context is bound
\* and the task created.  It preempts the main loop before s_sd_task is set.
TaskCreated(headless) ==
  /\ task' = "entry" /\ blocked' = FALSE /\ io' = FALSE /\ failed' = FALSE
  /\ isMp' \in BOOLEAN /\ isBg' = headless /\ UNCHANGED locked
  /\ closeReq' = FALSE
  /\ context' = TRUE /\ UNCHANGED <<handle, appId>>

\* launch_sd_app returns: a bad manifest, entry or runtime shows the dialog.
Launch ==
  /\ MainAt("launch")
  /\ \/ /\ main' = "close"
        /\ stack' = CrashScreen /\ dialog' = appId /\ crash' = NoApp
        /\ UNCHANGED <<run, args, slot, closeReq>>
     \/ /\ main' = "launched" /\ TaskCreated(FALSE) /\ UNCHANGED <<ui, crash>>
  /\ UNCHANGED <<awake, keys, card, bg, files, shown, serial>>

\* Back in the main loop: the handle is stored and the context tagged.
Launched ==
  /\ MainAt("launched") /\ main' = "bg"
  /\ handle' = TRUE
  /\ UNCHANGED <<awake, keys, ui, card, run, args, context, appId, closeReq, bg, crash, files, shown, serial>>

BgLaunchAllowed == /\ Top(stack) = "launcher" /\ ~handle
                   /\ serial = "idle" /\ ~shown

\* Headless runs: a finished one is torn down, one past its quota restarts the
\* device, and an idle launcher starts one that is due.
BgSupervise ==
  /\ MainAt("bg")
  /\ \/ /\ bgActive /\ bgDone /\ main' = "close" /\ BgTeardown
        /\ UNCHANGED <<awake, keys, ui, card, args, closeReq, crash, files, shown, serial>>
     \/ bgActive /\ ~bgDone /\ overrun /\ Restart
     \/ /\ bgActive /\ ~bgDone /\ ~overrun /\ main' = "close"
        /\ UNCHANGED <<awake, keys, ui, card, run, args, slot, closeReq, bg, crash, files, shown, serial>>
     \/ /\ ~bgActive /\ BgLaunchAllowed
        /\ \E a \in BgApps : appId' = a
        /\ main' = "bg_launch"
        /\ UNCHANGED <<awake, keys, ui, card, run, args, handle, context, closeReq, bg, crash, files, shown, serial>>
     \/ /\ ~bgActive /\ main' = "close"
        /\ UNCHANGED <<awake, keys, ui, card, run, args, slot, closeReq, bg, crash, files, shown, serial>>

\* jpp_app_bg_launch: a failure arms the crash report as any launch failure does.
BgLaunch ==
  /\ MainAt("bg_launch")
  /\ \/ /\ main' = "close" /\ crash' = appId
        /\ UNCHANGED <<run, args, slot, closeReq, bg>>
     \/ /\ main' = "bg_launched" /\ TaskCreated(TRUE)
        /\ bgActive' = TRUE /\ bgDone' = FALSE /\ overrun' = FALSE
        /\ UNCHANGED crash
  /\ UNCHANGED <<awake, keys, ui, card, files, shown, serial>>

BgLaunched ==
  /\ MainAt("bg_launched") /\ main' = "close"
  /\ handle' = TRUE
  /\ UNCHANGED <<awake, keys, ui, card, run, args, context, appId, closeReq, bg, crash, files, shown, serial>>

QuotaElapses ==
  /\ bgActive /\ ~overrun /\ overrun' = TRUE
  /\ UNCHANGED <<main, awake, keys, ui, card, run, args, slot, closeReq, bgActive, bgDone, crash, files, shown, serial>>

CloseEarly == handle /\ ~bgActive
CloseDue == handle /\ ~bgActive /\ closeReq

\* The end of a pass.  A closed app is torn down, its crash shown, and in
\* dummy mode the locked app is pushed again.
CloseCheck ==
  /\ MainAt("close") /\ main' = "drain" /\ presses' = 0
  /\ IF CloseDue
       THEN /\ TaskDeleted
            /\ crash' = NoApp
            /\ IF crash # NoApp
                 THEN stack' = CrashScreen /\ dialog' = crash
                 ELSE /\ stack' = IF locked = NoApp THEN Pop(stack)
                                                      ELSE Push(Pop(stack), locked)
                      /\ UNCHANGED dialog
       ELSE UNCHANGED <<run, slot, crash, ui>>
  /\ UNCHANGED <<awake, actions, card, args, closeReq, bg, files, shown, serial>>

-----------------------------------------------------------------------------
(* The app task: sd_app_task_fn and the runner or loader it calls.         *)

AppAt(at) == /\ task = at /\ ~io
             /\ UNCHANGED <<main, awake, keys, ui, card, args, slot,
                            bgActive, overrun, shown, serial>>

\* Where the task goes once the runner has returned.
AfterRunner(fails) == IF isBg THEN "finish" ELSE IF fails THEN "record" ELSE "sync"

\* The runner or the loader acquires the pool.
AppEntry ==
  /\ AppAt("entry")
  /\ IF pool = "free"
       THEN pool' = "app" /\ task' = "load" /\ UNCHANGED failed
       ELSE UNCHANGED pool /\ failed' = TRUE /\ task' = AfterRunner(TRUE)
  /\ blocked' \in IF task' = "finish" THEN {FALSE} ELSE BOOLEAN
  /\ UNCHANGED <<io, closeReq, bgDone, crash, lock>>

\* The module or image is read from the card.
AppLoad ==
  /\ AppAt("load")
  /\ \/ task' = "run" /\ blocked' \in BOOLEAN /\ UNCHANGED failed
     \/ task' = "cleanup" /\ blocked' = FALSE /\ failed' = TRUE
  /\ UNCHANGED <<io, closeReq, bgDone, crash, pool, lock>>

\* The app computes, or waits for a key, a delay or the network.
AppComputes ==
  /\ AppAt("run") /\ blocked' \in BOOLEAN
  /\ UNCHANGED <<task, io, failed, closeReq, bgDone, crash, pool, lock>>

\* jpp_sdk_request_close
RequestClose ==
  /\ AppAt("run") /\ closeReq' = TRUE /\ blocked' \in BOOLEAN
  /\ UNCHANGED <<task, io, failed, bgDone, crash, pool, lock>>

\* jpp_broker_run_exclusive on "storage": busy if locked, else the file
\* operation runs with the lock held.
StorageCall ==
  /\ (AppAt("run") \/ AppAt("stop"))
  /\ ~lock /\ lock' = TRUE /\ io' = TRUE /\ blocked' \in BOOLEAN
  /\ UNCHANGED <<task, failed, closeReq, bgDone, crash, pool>>

StorageReturn ==
  /\ io /\ io' = FALSE /\ lock' = FALSE /\ blocked' = FALSE
  /\ UNCHANGED <<main, awake, keys, ui, card, task, failed, args, slot, closeReq, bg, crash, pool, shown, serial>>

\* The lifecycle ends: a MicroPython app whose close is requested or whose hook
\* raised goes to on_stop, the entry of a native app returns, a headless hook
\* returns or raises.
AppReturns ==
  /\ AppAt("run")
  /\ \/ isMp /\ ~isBg /\ closeReq /\ task' = "stop" /\ UNCHANGED failed
     \/ isMp /\ ~isBg /\ task' = "stop" /\ failed' = TRUE
     \/ ~isMp /\ task' = "cleanup" /\ UNCHANGED failed
     \/ isBg /\ task' = "cleanup" /\ failed' = isMp
     \/ isBg /\ task' = "cleanup" /\ UNCHANGED failed
  /\ blocked' \in IF task' = "stop" THEN BOOLEAN ELSE {FALSE}
  /\ UNCHANGED <<io, closeReq, bgDone, crash, pool, lock>>

\* on_stop returns.
AppStopped ==
  /\ AppAt("stop") /\ task' = "cleanup" /\ blocked' = FALSE
  /\ UNCHANGED <<io, failed, closeReq, bgDone, crash, pool, lock>>

PoolKept == pool
PoolReleased == "free"

\* The runtime is torn down and the pool released.
AppCleanup ==
  /\ AppAt("cleanup") /\ pool' = PoolReleased
  /\ task' = AfterRunner(failed)
  /\ blocked' \in IF isBg THEN {FALSE} ELSE BOOLEAN
  /\ UNCHANGED <<io, failed, closeReq, bgDone, crash, lock>>

\* record_app_crash, which appends to the log before it arms the flag.
AppRecords ==
  /\ AppAt("record") /\ crash' = appId
  /\ closeReq' = (closeReq \/ ~isMp)
  /\ task' = "sync" /\ blocked' \in BOOLEAN
  /\ UNCHANGED <<io, failed, bgDone, pool, lock>>

\* jpp_bg_scheduler_sync_app
AppSyncs ==
  /\ AppAt("sync") /\ task' = "finish" /\ blocked' = FALSE
  /\ UNCHANGED <<io, failed, closeReq, bgDone, crash, pool, lock>>

CloseLeft == closeReq
CloseSignalled == TRUE

AppFinishes ==
  /\ AppAt("finish") /\ task' = "suspended" /\ blocked' = FALSE
  /\ closeReq' = CloseSignalled
  /\ bgDone' = (bgDone \/ isBg)
  /\ UNCHANGED <<io, failed, crash, pool, lock>>

-----------------------------------------------------------------------------
MainNext == \/ Drain \/ DrainDone \/ SyncServerState \/ PowerTick \/ EjectCheck
            \/ PreemptCheck \/ OpenCheck \/ Launch \/ Launched
            \/ BgSupervise \/ BgLaunch \/ BgLaunched \/ CloseCheck

AppNext == \/ AppEntry \/ AppLoad \/ AppComputes \/ RequestClose \/ StorageCall
           \/ StorageReturn \/ AppReturns \/ AppStopped \/ AppCleanup
           \/ AppRecords \/ AppSyncs \/ AppFinishes

Next == \/ \E k \in Keys : Press(k)
        \/ CardRemoved \/ SessionStart \/ SessionEnd \/ QuotaElapses
        \/ MainNext
        \/ AppNext

\* The scheduler gives the main loop the processor whenever no task of a higher
\* priority is ready, timers expire, and the firmware's own part of the app task
\* runs on.  Nothing is assumed of the app's code, between AppLoad and AppStopped.
Fairness == /\ WF_vars(MainNext) /\ WF_vars(QuotaElapses)
            /\ WF_vars(AppEntry) /\ WF_vars(AppLoad) /\ WF_vars(StorageReturn)
            /\ WF_vars(AppCleanup) /\ WF_vars(AppRecords) /\ WF_vars(AppSyncs)
            /\ WF_vars(AppFinishes)

Spec == Init /\ [][Next]_vars /\ Fairness

-----------------------------------------------------------------------------
Screens == Reserved \cup Apps

TypeOK ==
  /\ locked \in Locks
  /\ main \in MainSteps /\ awake \in BOOLEAN
  /\ actions \in Seq(Keys) /\ Len(actions) <= ActionDepth /\ presses \in 0..PressMax
  /\ stack \in Seq(Screens) /\ Len(stack) \in 1..StackLimit /\ stack[1] = "launcher"
  /\ dialog \in Apps \cup {NoApp} /\ ejectFlag \in BOOLEAN /\ ejected \in BOOLEAN
  /\ task \in TaskSteps /\ blocked \in BOOLEAN /\ io \in BOOLEAN /\ failed \in BOOLEAN
  /\ isMp \in BOOLEAN /\ isBg \in BOOLEAN /\ handle \in BOOLEAN /\ context \in BOOLEAN
  /\ appId \in Apps \cup {NoApp} /\ closeReq \in BOOLEAN
  /\ bgActive \in BOOLEAN /\ bgDone \in BOOLEAN /\ overrun \in BOOLEAN
  /\ crash \in Apps \cup {NoApp} /\ pool \in {"free", "app", "webdav"} /\ lock \in BOOLEAN
  /\ shown \in BOOLEAN /\ serial \in {"idle", "consent", "session"}

OneAppTask == /\ main \in {"launch", "bg_launch"} => task = "none"
              /\ handle => task # "none"
              /\ task # "none" => handle \/ main \in {"launched", "bg_launched"}

\* Taken for a task that is there no longer.
PoolOrphaned == pool = "app" /\ task \notin {"load", "run", "stop", "cleanup"}
LockOrphaned == lock /\ ~io

CloseCutsShort == /\ main = "close" /\ closeReq /\ ~bgActive
                  /\ task \in {"run", "stop"} /\ blocked

\* The app pool and the storage lock are left taken in one way only: the main
\* loop deletes a foreground app that has asked to be closed and waits in its own
\* code, or in a storage call, before its end.  Each ordinary end, each failure
\* of the load, the runner or the hooks, and each end of a headless run gives back
\* what it took.
OnlyTeardownLeaks ==
  [][(PoolOrphaned' /\ ~PoolOrphaned) \/ (LockOrphaned' /\ ~LockOrphaned)
       => CloseCutsShort]_vars

\* The comment of jpp_mp_runner.c on taking the pool: "apps are mutually
\* exclusive so it is free here".  With no other user of the pool about, it is
\* free whenever an app task starts.
PoolFreeAtEntry == task = "entry" => pool = "free"

SessionExcludesApp == serial = "session" => ~context

BgOnlyOnLauncher == bgActive => Top(stack) \in {"launcher", "sd_ejected"}

\* The one app slot has one claimant.  The static stack and control block of the
\* app task are never handed to a second task: the slot is empty whenever a
\* launch is under way, and the main loop's handle stands for a task that
\* exists.  No app is bound while a serial session is open, whichever came
\* first, and a headless run shares the device with no foreground screen: only
\* the launcher or the ejection screen is up.
OneClaimant == OneAppTask /\ SessionExcludesApp /\ BgOnlyOnLauncher

\* Every finished app is eventually taken down.
FinishedIsReclaimed == task = "suspended" ~> task = "none"

=============================================================================
