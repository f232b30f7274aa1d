------------------------------ MODULE GameMatch ------------------------------
(***************************************************************************)
(* Two badges that play Connect-4: how games_ble.c settles who is host,    *)
(* and the two loops of mod/connect4.c over the host's two characteristics *)
(* (the client writes one and polls the other).  The board is how many     *)
(* discs it has, whose turn it is and who has won.  Writes may fail, or    *)
(* succeed and be reported as failed; a link may break at any time.        *)
(***************************************************************************)
EXTENDS Naturals, FiniteSets

CONSTANTS
  Badges,    \* two of them
  MatchMax,  \* bound on the matches a badge looks for
  MoveMax,   \* discs in the longest match
  SendMax    \* bound on the moves a client sends in a match

ASSUME GameAssumption ==
  Cardinality(Badges) = 2 /\ MatchMax \in Nat /\ MoveMax \in Nat \ {0} /\ SendMax \in Nat

VARIABLES
  game,  \* where each badge is, and the locals of play_host or play_client
  adv,   \* s_advertising
  conn,  \* whether a badge has a link it made, s_conn
  gameTx,    \* the value a badge published last; nothing ever clears it
  gameRx     \* the receive buffer: message and tokens

gameVars == <<game, adv, conn, gameTx, gameRx>>

Other(b) == CHOOSE o \in Badges : o # b
Tokens == 2
AttemptMax == 3   \* AC_THRESHOLD

Nobody == "none"
NoBoard == [match |-> 0, discs |-> 0, turn |-> "host", winner |-> Nobody, end |-> Nobody]
NoMessage == [kind |-> "none"]
Hello == [kind |-> "hello"]
Bye == [kind |-> "bye"]
Move(seq, seen) == [kind |-> "move", seq |-> seq, seen |-> seen]

\* since is a history: which match of the other a client is in.
Fresh(stage, n) == [stage |-> stage, round |-> n, since |-> 0, board |-> NoBoard,
                    seq |-> 0, wrong |-> 0]
Cleared == [msg |-> NoMessage, ready |-> 0]

GameInit ==
  /\ game = [b \in Badges |-> Fresh("menu", 0)]
  /\ adv = [b \in Badges |-> FALSE] /\ conn = [b \in Badges |-> FALSE]
  /\ gameTx = [b \in Badges |-> NoBoard]
  /\ gameRx = [b \in Badges |-> Cleared]

At(b, stages) == game[b].stage \in stages
Go(b, stage) == game' = [game EXCEPT ![b].stage = stage]

\* games_ble_end: what is published stays.
Ends(b, g, r) ==
  /\ game' = [game EXCEPT ![b] = [g EXCEPT !.stage = "menu"]]
  /\ adv' = [adv EXCEPT ![b] = FALSE]
  /\ conn' = [conn EXCEPT ![b] = FALSE]
  /\ gameRx' = [r EXCEPT ![b] = Cleared]

Delivered(b, msg) ==
  [gameRx EXCEPT ![b].msg = msg,
             ![b].ready = IF @ < Tokens THEN @ + 1 ELSE @]

\* A write whose result tells nothing: it may have come through or not.
Written(b, msg) == {gameRx} \cup {r \in {Delivered(Other(b), msg)} : conn[b]}

\* games_ble_host_recv, and the wait of the advertise phase.
Takes(b) == gameRx[b].ready > 0 /\ gameRx' = [gameRx EXCEPT ![b].ready = @ - 1]

-----------------------------------------------------------------------------
(* games_ble_discover.                                                     *)

Discover(b) ==
  /\ At(b, {"menu"}) /\ game[b].round < MatchMax
  /\ game' = [game EXCEPT ![b] = Fresh("searching", @.round + 1)]
  /\ gameRx' = [gameRx EXCEPT ![b] = Cleared]
  /\ UNCHANGED <<adv, conn, gameTx>>

Cancel(b) ==
  /\ At(b, {"searching"})
  /\ Ends(b, game[b], gameRx)
  /\ UNCHANGED gameTx

Advertise(b) ==
  /\ At(b, {"searching"})
  /\ Go(b, "waiting")
  /\ adv' = [adv EXCEPT ![b] = TRUE]
  /\ UNCHANGED <<conn, gameTx, gameRx>>

StillOn(b) == adv
Stopped(b) == [adv EXCEPT ![b] = FALSE]

\* A write came: HELLO settles it, anything else ends the phase.
HearWrite(b) ==
  /\ At(b, {"waiting"})
  /\ Takes(b)
  /\ IF gameRx[b].msg.kind = "hello"
     THEN Go(b, "starting") ELSE Go(b, "scanning")
  /\ adv' = Stopped(b)
  /\ UNCHANGED <<conn, gameTx>>

HearNothing(b) ==
  /\ At(b, {"waiting"}) /\ gameRx[b].ready = 0
  /\ Go(b, "scanning")
  /\ adv' = Stopped(b)
  /\ UNCHANGED <<conn, gameTx, gameRx>>

\* The other is found and connected to; services are discovered before HELLO
\* goes out, and the other's phase may end meanwhile.
Connect(b) ==
  /\ At(b, {"scanning"}) /\ adv[Other(b)]
  /\ Go(b, "greeting")
  /\ conn' = [conn EXCEPT ![b] = TRUE]
  /\ UNCHANGED <<adv, gameTx, gameRx>>

Greet(b) ==
  /\ At(b, {"greeting"}) /\ conn[b]
  /\ gameRx' = Delivered(Other(b), Hello)
  /\ game' = [game EXCEPT ![b].stage = "client", ![b].since = game[Other(b)].round]
  /\ UNCHANGED <<adv, conn, gameTx>>

GreetFails(b) ==
  /\ At(b, {"greeting"})
  /\ Go(b, "searching")
  /\ gameRx' \in Written(b, Hello)
  /\ conn' = [conn EXCEPT ![b] = FALSE]
  /\ UNCHANGED <<adv, gameTx>>

FindNobody(b) ==
  /\ At(b, {"scanning"})
  /\ Go(b, "searching")
  /\ UNCHANGED <<adv, conn, gameTx, gameRx>>

LinkBreaks(b) ==
  /\ conn[b]
  /\ conn' = [conn EXCEPT ![b] = FALSE]
  /\ UNCHANGED <<game, adv, gameTx, gameRx>>

-----------------------------------------------------------------------------
(* play_host.                                                              *)

Publish(b, board) == gameTx' = [gameTx EXCEPT ![b] = board]

StartMatch(b) ==
  /\ At(b, {"starting"})
  /\ \E turn \in {"host", "client"} :
       LET board == [NoBoard EXCEPT !.match = game[b].round, !.turn = turn] IN
       /\ game' = [game EXCEPT ![b].stage = "host", ![b].board = board]
       /\ Publish(b, board)
  /\ UNCHANGED <<adv, conn, gameRx>>

AppliedWhenFull(board) ==
  {[board EXCEPT !.discs = @ + 1, !.turn = IF @ = "host" THEN "client" ELSE "host"]}

\* apply_move: the disc wins, fills the board, or passes the turn.
Applied(board) ==
  LET next == [board EXCEPT !.discs = @ + 1]
      passed == [next EXCEPT !.turn = IF @ = "host" THEN "client" ELSE "host"]
  IN {[next EXCEPT !.winner = w] : w \in {board.turn, "draw"}}
       \cup (IF next.discs < MoveMax THEN {passed} ELSE {})

Playing(b, turn) ==
  At(b, {"host"}) /\ game[b].board.winner = Nobody /\ game[b].board.turn = turn

HostMoves(b) ==
  /\ Playing(b, "host")
  /\ \E board \in Applied(game[b].board) :
       game' = [game EXCEPT ![b].board = board] /\ Publish(b, board)
  /\ UNCHANGED <<adv, conn, gameRx>>

\* The column of a move made on another board may be full by now.
HostTakesMove(b) ==
  /\ Playing(b, "client")
  /\ Takes(b)
  /\ LET msg == gameRx[b].msg
         g == game[b]
     IN \/ /\ msg.kind \in {"hello", "move"}
           /\ msg.kind = "move" => msg.seq = g.seq
           /\ UNCHANGED <<game, gameTx>>
        \/ /\ msg.kind = "move" /\ msg.seq # g.seq
           /\ \E board \in Applied(g.board) :
                /\ game' = [game EXCEPT ![b].board = board, ![b].seq = msg.seq]
                /\ Publish(b, board)
        \/ /\ msg.kind = "move" /\ msg.seq # g.seq /\ msg.seen # g.board.discs
           /\ g.wrong < AttemptMax - 1
           /\ game' = [game EXCEPT ![b].wrong = @ + 1]
           /\ Publish(b, g.board)
  /\ UNCHANGED <<adv, conn>>

\* BYE, or one wrong move too many.
HostStops(b) ==
  /\ Playing(b, "client")
  /\ gameRx[b].ready > 0
  /\ LET msg == gameRx[b].msg
         g == game[b]
     IN \/ msg.kind = "bye" /\ UNCHANGED gameTx
        \/ /\ msg.kind = "move" /\ msg.seq # g.seq /\ msg.seen # g.board.discs
           /\ g.wrong = AttemptMax - 1
           /\ Publish(b, [g.board EXCEPT !.end = "anticheat"])
  /\ Ends(b, game[b], gameRx)

HostQuits(b) ==
  /\ \E turn \in {"host", "client"} : Playing(b, turn)
  /\ Publish(b, [game[b].board EXCEPT !.end = "quit"])
  /\ Ends(b, game[b], gameRx)

HostFinishes(b) ==
  /\ At(b, {"host"}) /\ game[b].board.winner # Nobody
  /\ Publish(b, game[b].board)
  /\ Ends(b, game[b], gameRx)

-----------------------------------------------------------------------------
(* play_client.                                                            *)

OurTurn(b) == game[b].board.turn = "client" /\ game[b].board.winner = Nobody

\* games_ble_client_recv of a value with STATE_MAGIC.
Reads(b) == conn[b] /\ gameTx[Other(b)] # NoBoard

Sees(b, board) ==
  IF board.end # Nobody
  THEN Ends(b, [game[b] EXCEPT !.board = board], gameRx)
  ELSE /\ game' = [game EXCEPT ![b].stage = "client", ![b].board = board]
       /\ UNCHANGED <<adv, conn, gameRx>>

ClientPolls(b) ==
  /\ At(b, {"client"}) /\ ~OurTurn(b) /\ game[b].board.winner = Nobody
  /\ Reads(b)
  /\ Sees(b, gameTx[Other(b)])
  /\ UNCHANGED gameTx

\* Sixty reads in a row bring nothing.
ClientTimesOut(b) ==
  /\ At(b, {"client"}) /\ ~OurTurn(b) /\ game[b].board.winner = Nobody
  /\ ~Reads(b)
  /\ Ends(b, game[b], gameRx)
  /\ UNCHANGED gameTx

\* The result of the write is not looked at.
ClientMoves(b) ==
  /\ At(b, {"client"}) /\ OurTurn(b) /\ game[b].seq < SendMax
  /\ game' = [game EXCEPT ![b].stage = "asking", ![b].seq = @ + 1]
  /\ gameRx' \in Written(b, Move(game[b].seq + 1, game[b].board.discs))
  /\ UNCHANGED <<adv, conn, gameTx>>

\* The first state read is taken, whether the host has come to the move or not.
ClientReadsBack(b) ==
  /\ At(b, {"asking"})
  /\ Reads(b)
  /\ Sees(b, gameTx[Other(b)])
  /\ UNCHANGED gameTx

ClientReadsNothing(b) ==
  /\ At(b, {"asking"}) /\ ~Reads(b)
  /\ Go(b, "client")
  /\ UNCHANGED <<adv, conn, gameTx, gameRx>>

ClientQuits(b) ==
  /\ At(b, {"client"}) /\ game[b].board.winner = Nobody
  /\ \E r \in Written(b, Bye) : Ends(b, game[b], r)
  /\ UNCHANGED gameTx

\* The winner of the board that is shown; a win is added to the tally.
ClientFinishes(b) ==
  /\ At(b, {"client"}) /\ game[b].board.winner # Nobody
  /\ Ends(b, game[b], gameRx)
  /\ UNCHANGED gameTx

-----------------------------------------------------------------------------

GameNext == \E b \in Badges :
  \/ Discover(b) \/ Cancel(b) \/ Advertise(b) \/ HearWrite(b) \/ HearNothing(b)
  \/ Connect(b) \/ Greet(b) \/ GreetFails(b) \/ FindNobody(b) \/ LinkBreaks(b)
  \/ StartMatch(b) \/ HostMoves(b) \/ HostTakesMove(b) \/ HostStops(b)
  \/ HostQuits(b) \/ HostFinishes(b)
  \/ ClientPolls(b) \/ ClientTimesOut(b) \/ ClientMoves(b) \/ ClientReadsBack(b)
  \/ ClientReadsNothing(b) \/ ClientQuits(b) \/ ClientFinishes(b)

GameSpec == GameInit /\ [][GameNext]_gameVars

Host == {"starting", "host"}
Client == {"client", "asking"}

GameTypeOK ==
  /\ \A b \in Badges :
       /\ game[b].stage \in {"menu", "searching", "waiting", "scanning", "greeting"}
                              \cup Host \cup Client
       /\ game[b].round \in 0..MatchMax /\ game[b].wrong \in 0..AttemptMax
       /\ game[b].board.discs \in 0..MoveMax
       /\ gameRx[b].ready \in 0..Tokens
  /\ adv \in [Badges -> BOOLEAN] /\ conn \in [Badges -> BOOLEAN]

(* games_ble.h:6: two badges that look for each other "settle into         *)
(* host/client roles".  They are never both clients, each polling a badge  *)
(* that polls it, although each may be connecting to the other, their      *)
(* phases fall anyhow and HELLOs arrive late (discovery_cleanup before the *)
(* scan, games_ble.c).  Both may be hosts, for a while: a HELLO that came  *)
(* through although its sender was told otherwise still counts.            *)
NotBothClients == ~ \A b \in Badges : At(b, Client)
=============================================================================
