------------------------------ MODULE MCTasks ------------------------------
\* The tasks around the app, layer by layer: the request ring of the MicroPython
\* runtime, the buzzer's player and its callers, the keypad detector, the radio, and
\* the main loop's drawing.  No variable is shared; the first step settles which of them a
\* behaviour is about.
\*
\* Ring: two launches and up to two slots, so that it wraps, fills and is emptied
\* by a relaunch while requests are pending.  Buzzer: three requests, so that one
\* supersedes another that has not been copied yet.  Keypad: time for a hold, a
\* double-click and a further press; a long press takes longer than the window of
\* a double-click, as in the device.  Radio: three packets, so that a status left
\* by one that was given up meets two more.  Display: a dimming and a deep sleep one
\* period apart, the message of the way back for two passes, and a stack that three
\* screens fill.
EXTENDS VmQueue, Buzzer, Keypad, EspNow, Display

VARIABLE layer   \* the layer this behaviour is about

everything == <<vars, buzzVars, keyVars, nowVars, dispVars, layer>>

TasksInit ==
  /\ Init /\ BuzzInit /\ KeyInit /\ NowInit /\ DisplayInit
  /\ layer \in {"ring", "buzzer", "keypad", "radio", "display"}
  /\ backMode = "DOUBLE" => layer = "keypad"

InRing(A) == layer = "ring" /\ A /\ UNCHANGED <<buzzVars, keyVars, nowVars, dispVars, layer>>
InBuzzer(A) == layer = "buzzer" /\ A /\ UNCHANGED <<vars, keyVars, nowVars, dispVars, layer>>
InKeypad(A) == layer = "keypad" /\ A /\ UNCHANGED <<vars, buzzVars, nowVars, dispVars, layer>>
InRadio(A) == layer = "radio" /\ A /\ UNCHANGED <<vars, buzzVars, keyVars, dispVars, layer>>
InDisplay(A) == layer = "display" /\ A /\ UNCHANGED <<vars, buzzVars, keyVars, nowVars, layer>>

TasksNext == InRing(Next) \/ InBuzzer(BuzzNext) \/ InKeypad(KeyNext) \/ InRadio(NowNext)
             \/ InDisplay(DisplayNext)

\* The fairness of the buzzer's specification, in the behaviours that are about it.
TasksSpec ==
  /\ TasksInit /\ [][TasksNext]_everything
  /\ WF_everything(InBuzzer(PlayerNext))
  /\ \A t \in Callers : WF_everything(InBuzzer(CallerNext(t)))

DevicesTypeOK == TypeOK /\ BuzzTypeOK /\ KeyTypeOK /\ NowTypeOK /\ DisplayTypeOK
=============================================================================
