------------------------------ MODULE Display ------------------------------
(***************************************************************************)
(* What is on the OLED: the passes of run_main_loop (app_main.c) as they   *)
(* turn keys, time and events into a picture and a brightness, and the     *)
(* shell's frame cache (jpp_ui_core.c), by which a frame equal to the last *)
(* one is not drawn again.  Settings, the serial manager, the keyboard,    *)
(* the dim clock and the apps draw over the shell's frame behind the       *)
(* cache's back, and each has to see to it that the frame comes back.      *)
(*                                                                         *)
(* A picture is who drew it and what it depends on.  The two rows stand    *)
(* for the launcher's; those of the WebDAV screens are not kept, OK there  *)
(* does what one of them does.  The icons, which are drawn with the frame  *)
(* or on their own, and dummy mode are left out.  What other tasks set and *)
(* the pass reads once (the serial session, a wakelock, the end of an app, *)
(* the loss of the card) is chosen where it is read.                       *)
(***************************************************************************)
EXTENDS Naturals, Sequences

CONSTANTS DimAfter, OffAfter,  \* periods without a key, zero for never
          FlashTicks,          \* passes for which the end of the way back is told
          Depth                \* JPP_UI_STACK_LIMIT

\* A pass is shorter than the time to deep sleep.
ASSUME DisplayAssumption ==
  {DimAfter, OffAfter, FlashTicks, Depth} \subseteq Nat /\ OffAfter # 1 /\ Depth >= 2

Listed == {"settings", "webdav", "app"}   \* what the launcher lists
Buttons == {"OK", "BACK", "DOWN"}
IdleMax == DimAfter + OffAfter            \* bounds the time that is counted

VARIABLES pass,      \* where the main loop is in its pass
          screens,   \* shell->stack
          row,       \* selected_app
          flash,     \* back_at_root_flash
          server,    \* the WebDAV server: running, and running as the shell knows
          asking,    \* webdav_needs_pass_input
          power,     \* power_state
          lastPower, \* power_state_last_tick
          idle,      \* periods since the last activity, each longer than two polls
          panel,     \* contrast and power registers
          ejected,   \* sd_ejected
          runner,    \* the app task: none, a headless run, an app
          open,      \* sd_app_open
          sessionDrawn, \* serial_rendered_last
          cache,     \* last_frame and has_last_frame
          oled       \* the picture last drawn

shellVars == <<screens, row, flash, server, asking>>
powerVars == <<power, lastPower, idle, panel>>
drawVars == <<sessionDrawn, cache, oled>>
appVars == <<ejected, runner, open>>
dispVars == <<pass, shellVars, powerVars, drawVars, appVars>>

Picture(who, line, note) == [who |-> who, line |-> line, note |-> note]
NoFrame == Picture("nothing", 0, FALSE)
Bright == [contrast |-> "full", registers |-> "full"]
Dim == [contrast |-> "dim", registers |-> "dim"]

DisplayInit ==
  /\ pass = "keys" /\ screens = <<"launcher">> /\ row = 0 /\ flash = 0
  /\ server = [runs |-> FALSE, shown |-> FALSE] /\ asking = FALSE
  /\ power = "ACTIVE" /\ lastPower = "ACTIVE" /\ idle = 0 /\ panel = Bright
  /\ ejected = FALSE /\ runner = "none" /\ open = FALSE
  /\ sessionDrawn = FALSE /\ cache = NoFrame /\ oled = Picture("boot", 0, FALSE)

OnTop == screens[Len(screens)]
Pushed(s, screen) == IF Len(s) < Depth THEN Append(s, screen) ELSE s
Popped(s) == IF Len(s) = 1 THEN s ELSE SubSeq(s, 1, Len(s) - 1)
Crashed == <<"launcher", "crash">>

-----------------------------------------------------------------------------
(* The action queue.                                                       *)

\* jpp_ui_shell_note_activity
NoteActivity == power' = "ACTIVE" /\ idle' = 0

Invalidate == cache' = NoFrame

\* A key pressed twice in a pass finds the app on the stack and not yet launched,
\* and is taken as on the launcher.
OnLauncher(k) ==
  /\ OnTop \in {"launcher", "app"}
  /\ \/ k = "DOWN" /\ row' = 1 - row /\ UNCHANGED <<screens, flash, cache>>
     \/ /\ k = "OK" /\ \E entry \in Listed : screens' = Pushed(screens, entry)
        /\ UNCHANGED <<row, flash, cache>>
     \/ k = "BACK" /\ flash' = FlashTicks /\ Invalidate /\ UNCHANGED <<screens, row>>
  /\ UNCHANGED <<server, asking>>

OnCrash(k) ==
  /\ OnTop = "crash"
  /\ screens' = IF k = "DOWN" THEN screens ELSE Popped(screens)
  /\ UNCHANGED <<row, flash, server, asking, cache>>

\* A start or a stop may fail; the shell learns of it from a poll, unless it
\* stopped the server to leave the screen.
ServerAsked == \E up \in BOOLEAN : server' = [server EXCEPT !.runs = up]

OnWebdav(k) ==
  /\ OnTop = "webdav"
  /\ \/ /\ k = "BACK" /\ screens' = Popped(screens)
        /\ \/ UNCHANGED server
           \/ server.shown /\ server' = [runs |-> FALSE, shown |-> FALSE]
     \/ k = "OK" /\ server.shown /\ screens' = Pushed(screens, "passconfig") /\ UNCHANGED server
     \/ k = "OK" /\ ServerAsked /\ UNCHANGED screens
     \/ k = "DOWN" /\ UNCHANGED <<screens, server>>
  /\ UNCHANGED <<row, flash, asking, cache>>

OnPassconfig(k) ==
  /\ OnTop = "passconfig"
  /\ \/ k = "DOWN" /\ UNCHANGED <<screens, server, asking>>
     \/ k # "DOWN" /\ screens' = Popped(screens) /\ UNCHANGED <<server, asking>>
     \/ k = "OK" /\ screens' = Popped(screens) /\ server.shown /\ ServerAsked /\ UNCHANGED asking
     \/ k = "OK" /\ screens' = Popped(screens) /\ asking' = TRUE /\ UNCHANGED server
  /\ UNCHANGED <<row, flash, cache>>

\* Settings is one screen here, which some key leaves.
OnSettings ==
  /\ OnTop = "settings"
  /\ \/ UNCHANGED <<screens, cache>>
     \/ screens' = Popped(screens) /\ Invalidate
  /\ UNCHANGED <<row, flash, server, asking>>

\* The key that woke the screen is swallowed, but by Settings.
ToShell(k) ==
  \/ OnSettings
  \/ /\ OnTop # "settings" /\ lastPower = "ACTIVE"
     /\ OnLauncher(k) \/ OnCrash(k) \/ OnWebdav(k) \/ OnPassconfig(k)
  \/ OnTop # "settings" /\ lastPower # "ACTIVE" /\ UNCHANGED <<shellVars, cache>>

\* One action of the queue.  OK restarts an ejected device; an app and the
\* serial manager, whose keys are in SerialMgr, have them to themselves.
HandleAction(k) ==
  /\ pass = "keys" /\ NoteActivity
  /\ pass' = IF ejected /\ k = "OK" THEN "restarts" ELSE pass
  /\ \/ ~ejected /\ runner = "none" /\ ToShell(k)
     \/ UNCHANGED <<shellVars, cache>>
  /\ UNCHANGED <<lastPower, panel, appVars, sessionDrawn, oled>>

\* The queue is empty.  The static password is asked for on the spot, by a
\* keyboard that draws over everything.
AskPassword ==
  /\ pass = "keys" /\ asking /\ pass' = "poll" /\ asking' = FALSE
  /\ NoteActivity /\ oled' = Picture("keyboard", 0, FALSE) /\ Invalidate
  /\ IF server.shown THEN ServerAsked ELSE UNCHANGED server
  /\ UNCHANGED <<screens, row, flash, lastPower, panel, appVars, sessionDrawn>>

\* Every two seconds the shell's copy of the server's state is renewed.
PollServer ==
  /\ pass = "poll" \/ (pass = "keys" /\ ~asking)
  /\ pass' = "power"
  /\ \/ UNCHANGED server
     \/ server' = [server EXCEPT !.shown = server.runs]
  /\ UNCHANGED <<screens, row, flash, asking, powerVars, appVars, drawVars>>

-----------------------------------------------------------------------------
\* jpp_ui_shell_tick_power
Ticked(t) == IF OffAfter > 0 /\ t >= OffAfter THEN "OFF"
             ELSE IF DimAfter > 0 /\ t >= DimAfter THEN "DIM" ELSE power

ComparedTooLate(now) == power
ComparedWith(now) == lastPower

\* The power state of the last pass tells whether the screen was dimmed or woke.
\* A server holds off deep sleep, and so may an app or the serial manager.
TickPower ==
  /\ pass = "power"
  /\ \E t \in {idle, idle + 1} :
       LET now == Ticked(t)
           turned == now # ComparedWith(now)
           wakes == turned /\ now = "ACTIVE"
       IN /\ t <= IdleMax /\ (t > idle => server.shown = server.runs) /\ lastPower' = now
          /\ panel' = IF wakes THEN Bright ELSE IF turned /\ now = "DIM" THEN Dim ELSE panel
          /\ IF wakes THEN Invalidate ELSE UNCHANGED cache
          /\ \/ turned /\ now = "OFF" /\ NoteActivity /\ pass' = "eject"
             \/ /\ turned /\ now = "OFF" /\ ~server.shown
                /\ power' = now /\ idle' = t /\ pass' = "sleeps"
             \/ (turned => now # "OFF") /\ power' = now /\ idle' = t /\ pass' = "eject"
  /\ UNCHANGED <<shellVars, appVars, sessionDrawn, oled>>

\* The SD card is gone: full contrast, and a screen that only a restart leaves.
HandleEjection ==
  /\ pass = "eject" /\ pass' = "app"
  /\ \/ /\ ~ejected /\ ejected' = TRUE
        /\ panel' = [panel EXCEPT !.contrast = "full"]
        /\ screens' = <<"launcher", "sd_ejected">> /\ Invalidate
     \/ UNCHANGED <<ejected, panel, screens, cache>>
  /\ UNCHANGED <<row, flash, server, asking, power, lastPower, idle, runner, open, sessionDrawn, oled>>

-----------------------------------------------------------------------------
\* An app on top is launched, over a headless run, unless a serial session is
\* active; otherwise a due headless run starts on the idle launcher, or one that
\* ended is taken down.
Launches ==
  \/ /\ OnTop = "app" /\ runner # "app"
     /\ \/ runner' = "app" /\ open' = TRUE /\ UNCHANGED screens
        \/ runner' = "none" /\ open' = FALSE /\ screens' \in {Crashed, Popped(screens)}
  \/ OnTop = "app" /\ runner = "app" /\ open' = TRUE /\ UNCHANGED <<runner, screens>>
  \/ /\ OnTop # "app" /\ open' = FALSE /\ UNCHANGED screens
     /\ \/ runner = "headless" /\ runner' = "none"
        \/ runner = "none" /\ OnTop = "launcher" /\ ~server.shown /\ runner' = "headless"
        \/ UNCHANGED runner

OpenApp ==
  /\ pass = "app" /\ pass' = "close" /\ Launches
  /\ UNCHANGED <<row, flash, server, asking, powerVars, ejected, drawVars>>

FrameKept == UNCHANGED cache
ClosedFrame == Invalidate

\* The app that asked to be closed, or failed, is deleted.
CloseApp ==
  /\ pass = "close" /\ pass' = "discover"
  /\ \/ /\ runner = "app" /\ runner' = "none" /\ open' = FALSE
        /\ screens' \in {Crashed, Popped(screens)} /\ ClosedFrame
     \/ UNCHANGED <<runner, open, screens, cache>>
  /\ UNCHANGED <<row, flash, server, asking, powerVars, ejected, sessionDrawn, oled>>

\* The catalogue read in the background is taken over once it is complete.
ApplyDiscovery ==
  /\ pass = "discover" /\ pass' = "render"
  /\ Invalidate \/ UNCHANGED cache
  /\ UNCHANGED <<shellVars, powerVars, appVars, sessionDrawn, oled>>

-----------------------------------------------------------------------------
\* jpp_ui_shell_render: the lines of the frame, by the screen on top.
Lines ==
  CASE OnTop = "webdav" -> Picture("webdav", 0, server.shown)
    [] OnTop \in {"passconfig", "crash"} -> Picture(OnTop, 0, FALSE)
    [] OnTop = "app" -> Picture("blank", 0, FALSE)
    [] OTHER -> Picture("launcher", row, flash > 0)

\* What is drawn directly, in the order in which the main loop asks.
Direct(serial) ==
  CASE serial -> "session"
    [] ~serial /\ OnTop = "settings" -> "settings"
    [] ~serial /\ OnTop # "settings" /\ ejected -> "ejected"
    [] OTHER -> IF power = "DIM" /\ ~open /\ ~server.shown THEN "clock"
                ELSE IF open /\ runner # "none" THEN "app" ELSE "nothing"

ForgetSession(serial) == cache
NoticeSession(serial) == IF sessionDrawn /\ ~serial THEN NoFrame ELSE cache

RenderDirectly(serial) ==
  /\ Direct(serial) # "nothing"
  /\ cache' = NoticeSession(serial) /\ oled' = Picture(Direct(serial), 0, FALSE)
  /\ UNCHANGED flash

\* The frame is drawn if it is not the one in the cache.  The message that there
\* is no way back goes after its time.
RenderShell(serial) ==
  LET flashes == OnTop = "launcher" /\ flash > 0
      changed == NoticeSession(serial) # Lines \/ (flashes /\ flash = 1)
  IN /\ Direct(serial) = "nothing"
     /\ cache' = Lines /\ oled' = IF changed THEN Lines ELSE oled
     /\ flash' = IF flashes THEN flash - 1 ELSE flash

Render ==
  /\ pass = "render" /\ pass' = "keys" /\ open' = FALSE
  /\ \E serial \in BOOLEAN :
       /\ sessionDrawn' = serial
       /\ RenderDirectly(serial) \/ RenderShell(serial)
  /\ UNCHANGED <<screens, row, server, asking, powerVars, ejected, runner>>

DisplayNext == \/ \E k \in Buttons : HandleAction(k)
               \/ AskPassword \/ PollServer \/ TickPower \/ HandleEjection
               \/ OpenApp \/ CloseApp \/ ApplyDiscovery \/ Render

DisplaySpec == DisplayInit /\ [][DisplayNext]_dispVars

-----------------------------------------------------------------------------
DisplayTypeOK ==
  /\ pass \in {"keys", "poll", "power", "eject", "app", "close", "discover", "render", "sleeps", "restarts"}
  /\ screens \in Seq({"launcher", "settings", "webdav", "passconfig", "crash", "app", "sd_ejected"})
  /\ Len(screens) \in 1..Depth
  /\ {power, lastPower} \subseteq {"ACTIVE", "DIM", "OFF"} /\ idle \in 0..IdleMax
  /\ flash \in 0..FlashTicks
  /\ runner \in {"none", "headless", "app"}

\* What the OLED shows after a pass is what the state of the system asks for,
\* whoever drew last and however the frame cache (jpp_ui_core.c) was left: no
\* screen that drew over the shell's frame stays when it is gone.  Only a pass
\* that held off deep sleep has woken the screen without drawing anew.
OledIsCurrent ==
  [][(pass = "render" /\ pass' = "keys" /\ lastPower = power) =>
       LET direct == Direct(sessionDrawn')
       IN oled' = IF direct = "nothing" THEN Lines ELSE Picture(direct, 0, FALSE)]_dispVars

\* The only reliable way to detect the wake-up is the state of the last pass
\* (comment in run_main_loop): a screen that is awake for two passes is bright,
\* one that dimmed is dim unless the card was lost.
PanelFollowsPower ==
  /\ lastPower = "ACTIVE" => panel = Bright
  /\ (lastPower = "DIM" /\ ~ejected) => panel = Dim
=============================================================================
