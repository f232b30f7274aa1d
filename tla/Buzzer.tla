------------------------------- MODULE Buzzer -------------------------------
(***************************************************************************)
(* The buzzer (jpp_buzzer_core.c): a player task that plays the sequence   *)
(* last submitted, callers that submit one, stop it, or play one           *)
(* themselves while they wait, and the one LEDC channel all of them drive. *)
(*                                                                         *)
(* A sequence has NoteMax notes, each of them known by the number of the   *)
(* request it came with; a rest, and any note at volume 0, is silence.     *)
(* One core: a task steps only while none of a higher priority has         *)
(* anything to do.                                                         *)
(***************************************************************************)
EXTENDS Naturals, Sequences, FiniteSets

CONSTANTS NoteMax,      \* notes of a sequence
          RequestMax    \* bound: sequences asked for

ASSUME BuzzerAssumption == NoteMax \in Nat \ {0} /\ RequestMax \in Nat

Callers == {"main", "smp_rx", "sd_app"}
Player == "player"
Players == Callers \cup {Player}

\* xTaskCreate priorities; the main task has the default of 1.
BuzzerPriority == [t \in Players |-> CASE t = "main" -> 1 [] t = "smp_rx" -> 2
                                       [] t = "sd_app" -> 4 [] t = Player -> 5]

VARIABLES gen,       \* s_seq_gen: requests and stops so far
          inbox,     \* s_req_buf
          filled,    \* s_req_count
          holder,    \* the task that has s_seq_mutex, or "nobody"
          notified,  \* the player's notification
          lastGen,   \* last_played
          play,      \* s_play_buf, its generation, and the note the player is at
          at,        \* where each task is in its call
          asked,     \* the request it made, how it is to be played, its next note
          tone,      \* the note that sounds, or Silent
          abandoned  \* the note that sounds is of an app deleted in its middle

buzzVars == <<gen, inbox, filled, holder, notified, lastGen, play, at, asked, tone, abandoned>>
player == <<notified, lastGen, play>>
output == <<tone, abandoned>>

Silent == [req |-> 0, n |-> 0]
Notes(req) == [i \in 1..NoteMax |-> [req |-> req, n |-> i]]
Requests == 0..RequestMax

NotAsking == [op |-> "none", req |-> 0, n |-> 0]

BuzzInit ==
  /\ gen = 0 /\ filled = 0 /\ holder = "nobody" /\ notified = FALSE /\ lastGen = 0
  /\ inbox = [i \in 1..NoteMax |-> Silent]
  /\ play = [gen |-> 0, notes |-> <<>>, n |-> 1]
  /\ at = [t \in Players |-> IF t = Player THEN "wait" ELSE "idle"]
  /\ asked = [t \in Callers |-> NotAsking]
  /\ tone = Silent /\ abandoned = FALSE

-----------------------------------------------------------------------------
\* A task in the middle of a note, waiting for a notification or for the mutex
\* leaves the core to the others.
Busy(t) ==
  CASE at[t] \in {"idle", "tone"} -> FALSE
    [] at[t] = "wait" -> notified
    [] at[t] = "lock" -> holder = "nobody"
    [] OTHER -> TRUE

MayStep(t) == \A u \in Players : BuzzerPriority[u] > BuzzerPriority[t] => ~Busy(u)

Done(t) == asked' = [asked EXCEPT ![t] = NotAsking]
Goto(t, place) == at' = [at EXCEPT ![t] = place]

\* The mutex is taken before the inbox is written or copied.
LockIgnored == TRUE
LockFree == holder = "nobody"

TakeMutex(t, place) == LockFree /\ holder' = t /\ Goto(t, place)

\* ledc_set_duty and ledc_update_duty: a rest and a muted tone are silence.
Drive(note) == tone' = note /\ abandoned' = FALSE
Sound(note) == \E heard \in {note, Silent} : Drive(heard)

-----------------------------------------------------------------------------
(* A caller.                                                               *)

Coming == {t \in Callers : at[t] \in {"lock", "copy", "commit"}}

\* A call that takes the mutex: it submits a sequence for the player, stops
\* what plays, or is about to play a sequence itself.
Ask(t, op) ==
  /\ MayStep(t) /\ at[t] = "idle" /\ gen + Cardinality(Coming) < RequestMax
  /\ asked' = [asked EXCEPT ![t] = [op |-> op, req |-> 0, n |-> 1]]
  /\ Goto(t, "lock")
  /\ UNCHANGED <<gen, inbox, filled, holder, player, output>>

Lock(t) ==
  /\ MayStep(t) /\ at[t] = "lock"
  /\ TakeMutex(t, IF asked[t].op = "submit" THEN "copy" ELSE "commit")
  /\ UNCHANGED <<gen, inbox, filled, player, asked, output>>

\* memcpy into the inbox, one note at a time.
CopyIn(t) ==
  /\ MayStep(t) /\ at[t] = "copy"
  /\ inbox' = [inbox EXCEPT ![asked[t].n] = [req |-> gen + 1, n |-> asked[t].n]]
  /\ asked' = [asked EXCEPT ![t].n = IF @ = NoteMax THEN 1 ELSE @ + 1]
  /\ IF asked[t].n = NoteMax THEN Goto(t, "commit") ELSE UNCHANGED at
  /\ UNCHANGED <<gen, filled, holder, player, output>>

\* The generation goes up and the mutex is given back: a submission fills the
\* inbox, a stop and a blocking sequence empty it.
Commit(t) ==
  /\ MayStep(t) /\ at[t] = "commit"
  /\ gen' = gen + 1 /\ holder' = "nobody"
  /\ filled' = IF asked[t].op = "submit" THEN NoteMax ELSE 0
  /\ asked' = [asked EXCEPT ![t].req = gen + 1]
  /\ Goto(t, CASE asked[t].op = "submit" -> "notify"
               [] asked[t].op = "stop" -> "silence"
               [] asked[t].op = "block" -> "note")
  /\ UNCHANGED <<inbox, player, output>>

\* xTaskNotifyGive: the submission is over.
Notify(t) ==
  /\ MayStep(t) /\ at[t] = "notify"
  /\ notified' = TRUE /\ Goto(t, "idle") /\ Done(t)
  /\ UNCHANGED <<gen, inbox, filled, holder, lastGen, play, output>>

\* jpp_buzzer_stop silences the channel after it cancelled the sequence.
StopSilences(t) ==
  /\ MayStep(t) /\ at[t] = "silence" /\ Drive(Silent) /\ Goto(t, "idle") /\ Done(t)
  /\ UNCHANGED <<gen, inbox, filled, holder, player>>

\* jpp_buzzer_tone from jpp_buzzer_play_sequence, up to the delay.
StartNote(t) ==
  /\ MayStep(t) /\ at[t] = "note"
  /\ Sound([req |-> asked[t].req, n |-> asked[t].n]) /\ Goto(t, "tone")
  /\ UNCHANGED <<gen, inbox, filled, holder, player, asked>>

\* jpp_buzzer_tone from an app, which takes no mutex and supersedes nothing.
PlayTone ==
  /\ MayStep("sd_app") /\ at["sd_app"] = "idle"
  /\ asked' = [asked EXCEPT !["sd_app"] = [op |-> "tone", req |-> 0, n |-> NoteMax]]
  /\ Sound([req |-> 0, n |-> NoteMax]) /\ Goto("sd_app", "tone")
  /\ UNCHANGED <<gen, inbox, filled, holder, player>>

\* The delay is over: the channel is silenced, and the next note follows.
EndNote(t) ==
  /\ MayStep(t) /\ at[t] = "tone"
  /\ Drive(Silent)
  /\ IF asked[t].n = NoteMax THEN Goto(t, "idle") /\ Done(t)
     ELSE Goto(t, "note") /\ asked' = [asked EXCEPT ![t].n = @ + 1]
  /\ UNCHANGED <<gen, inbox, filled, holder, player>>

\* teardown_sd_app deletes the app task where it waits; the tone stays on.
DeleteApp ==
  /\ MayStep("main") /\ at["main"] = "idle" /\ at["sd_app"] = "tone"
  /\ Goto("sd_app", "idle") /\ Done("sd_app") /\ abandoned' = (tone # Silent)
  /\ UNCHANGED <<gen, inbox, filled, holder, player, tone>>

-----------------------------------------------------------------------------
(* The player, buzzer_player_task.                                         *)

WakeUp ==
  /\ MayStep(Player) /\ at[Player] = "wait" /\ notified
  /\ notified' = FALSE /\ Goto(Player, "lock")
  /\ UNCHANGED <<gen, inbox, filled, holder, lastGen, play, asked, output>>

LockInbox ==
  /\ MayStep(Player) /\ at[Player] = "lock" /\ TakeMutex(Player, "copy")
  /\ UNCHANGED <<gen, inbox, filled, player, asked, output>>

\* The inbox is copied; a generation that was played already is not replayed.
CopyOut ==
  /\ MayStep(Player) /\ at[Player] = "copy"
  /\ holder' = "nobody"
  /\ play' = [gen |-> gen, notes |-> SubSeq(inbox, 1, filled),
              n |-> IF gen = lastGen THEN play.n ELSE 1]
  /\ lastGen' = gen
  /\ Goto(Player, IF gen = lastGen THEN "wait" ELSE "note")
  /\ UNCHANGED <<gen, inbox, filled, notified, asked, output>>

Superseded == gen # play.gen

\* Between notes the player sees whether its sequence was superseded.
PlayNote ==
  /\ MayStep(Player) /\ at[Player] = "note"
  /\ IF play.n > Len(play.notes) \/ Superseded
     THEN Goto(Player, "silence") /\ UNCHANGED output
     ELSE Goto(Player, "tone") /\ Sound(play.notes[play.n])
  /\ UNCHANGED <<gen, inbox, filled, holder, player, asked>>

EndPlayedNote ==
  /\ MayStep(Player) /\ at[Player] = "tone"
  /\ Drive(Silent) /\ play' = [play EXCEPT !.n = @ + 1] /\ Goto(Player, "note")
  /\ UNCHANGED <<gen, inbox, filled, holder, notified, lastGen, asked>>

NotificationsCleared == FALSE
NotificationsLeft == notified

\* The sequence is over; a submission meanwhile has left its notification.
PlayerSilences ==
  /\ MayStep(Player) /\ at[Player] = "silence" /\ Drive(Silent) /\ Goto(Player, "wait")
  /\ notified' = NotificationsLeft
  /\ UNCHANGED <<gen, inbox, filled, holder, lastGen, play, asked>>

-----------------------------------------------------------------------------
PlayerNext == WakeUp \/ LockInbox \/ CopyOut \/ PlayNote \/ EndPlayedNote \/ PlayerSilences

CallerNext(t) == \/ Lock(t) \/ CopyIn(t) \/ Commit(t) \/ Notify(t)
                 \/ StopSilences(t) \/ StartNote(t) \/ EndNote(t)

\* The main loop submits jingles, stops them when it is handed the empty one, and
\* plays the settings screen's click itself; the receive task only submits.
CallsOf(t) == IF t = "smp_rx" THEN {"submit"} ELSE {"submit", "stop", "block"}

BuzzNext == \/ PlayerNext
            \/ \E t \in Callers : CallerNext(t) \/ \E op \in CallsOf(t) : Ask(t, op)
            \/ PlayTone \/ DeleteApp

\* The scheduler runs the player and lets a caller finish its call.
BuzzFairness == WF_buzzVars(PlayerNext) /\ \A t \in Callers : WF_buzzVars(CallerNext(t))

BuzzSpec == BuzzInit /\ [][BuzzNext]_buzzVars /\ BuzzFairness

-----------------------------------------------------------------------------
Note == [req : Requests, n : 0..NoteMax]

BuzzTypeOK ==
  /\ gen \in Requests /\ inbox \in [1..NoteMax -> Note] /\ filled \in {0, NoteMax}
  /\ holder \in Players \cup {"nobody"} /\ notified \in BOOLEAN /\ lastGen \in Requests
  /\ play.gen \in Requests /\ play.notes \in Seq(Note) /\ play.n \in 1..(NoteMax + 1)
  /\ at \in [Players -> {"idle", "wait", "lock", "copy", "commit", "notify", "note", "tone", "silence"}]
  /\ asked \in [Callers -> [op : {"none", "submit", "stop", "block", "tone"}, req : Requests, n : 0..NoteMax]]
  /\ tone \in Note /\ abandoned \in BOOLEAN

OneRequest == play.notes \in {<<>>, Notes(play.gen)}

AllAtRest == at[Player] = "wait" /\ \A t \in Callers : at[t] # "tone"

\* What the player plays is one request, whole and the latest when it was
\* copied, never the beginning of one and the end of another; and no note is
\* left sounding when nobody plays, but for the one an app was deleted in.
PlaysOneThenSilent == OneRequest /\ (AllAtRest => tone = Silent \/ abandoned)

\* A request is played to its end, stopped or superseded: no notification is
\* lost, and the player waits with a submission in the inbox only if it played it.
LatestIsPlayed ==
  \A r \in 1..RequestMax :
    (gen = r /\ filled > 0) ~> (gen # r \/ (lastGen = r /\ play.n > NoteMax /\ at[Player] = "wait"))

\* "so the player task and this blocking caller do not drive the LEDC channel at
\* the same time" (jpp_buzzer_play_sequence).
OneDriver == \A t \in Callers : ~(at[Player] = "tone" /\ at[t] = "tone" /\ asked[t].req > play.gen)
=============================================================================
