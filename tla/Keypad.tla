------------------------------- MODULE Keypad -------------------------------
(***************************************************************************)
(* The keypad detector (jpp_keypad_core.c) as keypad_task polls it: a      *)
(* sample of the resistor ladder every 20 ms is debounced into presses,    *)
(* and the presses of OK into clicks, holds and double-clicks.  Whether    *)
(* double-clicks are told apart is decided anew at each poll, from the     *)
(* user's setting and from what the foreground app has claimed.            *)
(*                                                                         *)
(* Time is counted in polls.  A sample is the key whose band it falls in:  *)
(* hysteresis only says which, and LEFT stands for the four directions.    *)
(***************************************************************************)
EXTENDS Integers, Sequences

CONSTANTS DebounceSamples, LongPress, DoubleClick, RepeatDelay, RepeatInterval,
          Half,       \* the int holding the time wraps at this many polls
          PollMax     \* bound: polls

ASSUME TimesAssumption ==
  /\ {DebounceSamples, LongPress, DoubleClick, RepeatDelay, RepeatInterval} \subseteq Nat \ {0}
  /\ {Half, PollMax} \subseteq Nat \ {0}

Keys == {"none", "OK", "LEFT"}
Gestures == {"HOLD", "DOUBLE"}

VARIABLES key,       \* jpp_keypad_state_t
          backMode,  \* s_back_gesture_mode
          okClaim,   \* ok_claim of the foreground app, none without one
          counted,   \* presses of OK so far, and the events reported for them
          last       \* the last poll: its sample, whether it told double-clicks
                     \* apart, and for how many polls the stable key has been down

keyVars == <<key, backMode, okClaim, counted, last>>

Never == -1

KeyInit ==
  /\ key = [stable |-> "none", candidate |-> "none", count |-> 0, started |-> Never,
            repeated |-> Never, long |-> FALSE, pending |-> FALSE, released |-> Never, index |-> 0]
  /\ backMode \in Gestures /\ okClaim = {}
  /\ counted = [press |-> 0, short |-> 0, long |-> 0, double |-> 0, cut |-> 0]
  /\ last = [sample |-> "none", apart |-> FALSE, down |-> 0]

-----------------------------------------------------------------------------
Int32(n) == ((n + Half) % (2 * Half)) - Half
Since(t, now) == Int32(now - t)

\* ok_needs_double_click
NeedsDoubleClick == IF okClaim # {} THEN "DOUBLE" \in okClaim ELSE backMode = "DOUBLE"

\* jpp_keypad_check_pending_short: the withheld click is due.
Due(now) == /\ key.pending
            /\ ~(NeedsDoubleClick /\ Since(key.released, now) < DoubleClick)

Polled(s) == [s EXCEPT !.index = @ + 1]

Reset(s) == [s EXCEPT !.started = Never, !.repeated = Never, !.long = FALSE]

Freed(s) == Polled(Reset([s EXCEPT !.stable = "none", !.candidate = "none", !.count = 0]))

PendingKept(s) == s
PendingTaken(s) == [s EXCEPT !.pending = FALSE]

\* Each alternative of a poll says what becomes of the detector and what is
\* reported; the click that fell due before it, if any, is counted here.
Report(kind, flushed, pressed) ==
  counted' = [k \in DOMAIN counted |-> counted[k] + (IF k = kind THEN 1 ELSE 0)
                + (IF k = "short" /\ flushed THEN 1 ELSE 0) + (IF k = "press" /\ pressed THEN 1 ELSE 0)]

\* jpp_keypad_finalize_release: what a released key is reported as.
Finalize(s, now, flushed) ==
  LET duration == IF Since(s.started, now) < 0 THEN 0 ELSE Since(s.started, now)
      isLong == duration >= LongPress
      isDouble == s.pending /\ Since(s.released, now) <= DoubleClick
      ends(kind, t) == Report(kind, flushed, FALSE) /\ key' = Freed(t)
  IN IF s.stable # "OK" \/ s.started < 0 THEN ends("other", s)
     ELSE \/ isLong /\ ends(IF s.long THEN "other" ELSE "long", s)
          \/ ~isLong /\ ~NeedsDoubleClick /\ ends("short", s)
          \/ ~isLong /\ NeedsDoubleClick /\ isDouble /\ ends("double", PendingTaken(s))
          \/ /\ ~isLong /\ NeedsDoubleClick /\ ~isDouble
             /\ ends("other", [s EXCEPT !.pending = TRUE, !.released = now])

\* The sample agrees with the stable key: a hold is reported once and then
\* repeats, a direction repeats.
Stays(s, now, flushed) ==
  LET t == IF s.stable # "none" /\ s.started < 0 THEN [s EXCEPT !.started = now] ELSE s
      held == Since(t.started, now)
      crossed == t.stable = "OK" /\ held >= LongPress /\ ~t.long
      repeatDue == t.stable = "OK" /\ t.long /\ held >= LongPress + RepeatDelay
                     /\ Since(t.repeated, now) >= RepeatInterval
      from == IF t.repeated < 0 THEN t.started + RepeatDelay ELSE t.repeated
      moves == t.stable = "LEFT" /\ held >= RepeatDelay
      next == IF crossed THEN [t EXCEPT !.long = TRUE]
              ELSE IF repeatDue THEN [t EXCEPT !.repeated = now]
              ELSE IF moves THEN [t EXCEPT !.repeated = IF Since(from, now) >= RepeatInterval
                                                         THEN now ELSE from]
              ELSE t
  IN key' = Polled(next) /\ Report(IF crossed THEN "long" ELSE "other", flushed, FALSE)

\* A sample that differs becomes the candidate, or confirms it.
Bounces(c, s, flushed) ==
  /\ c # s.candidate \/ s.count + 1 < DebounceSamples
  /\ key' = Polled([s EXCEPT !.candidate = c, !.count = IF c = s.candidate THEN @ + 1 ELSE 1])
  /\ Report("other", flushed, FALSE)

\* From one key straight to another nothing is reported of the first: a press
\* of OK that was no hold yet is cut off.
Pressed(c, s, now, flushed) ==
  /\ key' = Polled([s EXCEPT !.stable = c, !.candidate = c, !.count = 0,
                             !.started = now, !.repeated = now, !.long = FALSE])
  /\ Report(IF s.stable = "OK" /\ ~s.long THEN "cut" ELSE "other", flushed, c = "OK")

\* One turn of keypad_task: jpp_keypad_poll with the sample read.
Poll(c) ==
  LET now == Int32(key.index)
      flushed == Due(now)
      s == IF flushed THEN [key EXCEPT !.pending = FALSE] ELSE key
      confirmed == c # s.stable /\ c = s.candidate /\ s.count + 1 >= DebounceSamples
  IN /\ key.index < PollMax
     /\ \/ c = s.stable /\ Stays(s, now, flushed)
        \/ c # s.stable /\ Bounces(c, s, flushed)
        \/ confirmed /\ c = "none" /\ Finalize(s, now, flushed)
        \/ confirmed /\ c # "none" /\ Pressed(c, s, now, flushed)
     /\ last' = [sample |-> c, apart |-> NeedsDoubleClick,
                 down |-> IF key'.stable # key.stable THEN 0 ELSE last.down + 1]
     /\ UNCHANGED <<backMode, okClaim>>

\* settings_do_back_gesture_change: applied live.
ChangeBackGesture == /\ backMode' \in Gestures \ {backMode}
                     /\ UNCHANGED <<key, okClaim, counted, last>>

\* jpp_sdk_claim_ok; an app that comes or goes leaves nothing claimed.
ClaimOk(mask) == /\ mask # okClaim /\ okClaim' = mask
                 /\ UNCHANGED <<key, backMode, counted, last>>

KeyNext == \/ \E c \in Keys : Poll(c)
           \/ ChangeBackGesture
           \/ \E mask \in SUBSET Gestures : ClaimOk(mask)

KeySpec == KeyInit /\ [][KeyNext]_keyVars

-----------------------------------------------------------------------------
KeyTypeOK ==
  /\ key \in [stable : Keys, candidate : Keys, count : 0..DebounceSamples, started : Never..PollMax,
              repeated : Never..(PollMax + RepeatDelay), long : BOOLEAN, pending : BOOLEAN,
              released : Never..PollMax, index : 0..PollMax]
  /\ backMode \in Gestures /\ okClaim \subseteq Gestures
  /\ counted \in [{"press", "short", "long", "double", "cut"} -> 0..PollMax]
  /\ last \in [sample : Keys, apart : BOOLEAN, down : 0..PollMax]

\* "A mode change can never strand or replay a click" (jpp_keypad_core.h:97).
\* Every press of OK is reported once and as one thing, a click, a hold or half
\* of a double-click, wherever the setting or the app's claim changed; until then
\* it is withheld or still down.  Nothing is withheld once double-clicks are not
\* told apart.  Only going straight to another key cuts a press off.
ClicksAccountedFor ==
  /\ counted.press = counted.short + counted.long + 2 * counted.double + counted.cut
                       + (IF key.pending THEN 1 ELSE 0)
                       + (IF key.stable = "OK" /\ ~key.long THEN 1 ELSE 0)
  /\ key.pending => last.apart

\* "A hold is always detected, whatever it ends up meaning" (jpp_keypad_core.c):
\* OK read down for the time of a long press, and for less than the time the int
\* can hold, has been reported as a hold.
HoldIsDetected ==
  (key.stable = "OK" /\ last.sample = "OK" /\ last.down \in LongPress..(Half - 1)) => key.long
=============================================================================
