------------------------------ MODULE MCBadges ------------------------------
\* What badges do with each other over Bluetooth, layer by layer: the messages
\* over a written value, the link operations of one badge, a MeetApp session
\* and a game.  No variable is shared; the first step settles which of them a
\* behaviour is about.
\*
\* Messages: three of up to two DATA frames, so that the rest of one can follow
\* the beginning of another, and a third come while the first is read.  Links:
\* two peers, slots and handles, so that a handle is used again and one link
\* ends while another is used; followed up to the first end that misleads a
\* disconnect, as nothing is claimed beyond it.  MeetApp: two leaders and two
\* participants that join three times, so that one of them signs in two
\* sessions.  Games: two matches, so that the second can meet what the first left.
EXTENDS BleMessage, BleLink, MeetSession, GameMatch, TLC

VARIABLE layer   \* the layer this behaviour is about

vars == <<msgVars, linkVars, meetVars, gameVars, layer>>

Init ==
  /\ MsgInit /\ LinkInit /\ MeetInit /\ GameInit
  /\ layer \in {"message", "link", "meet", "game"}
  /\ overlap => layer = "meet"

Next ==
  \/ layer = "message" /\ MsgNext /\ UNCHANGED <<linkVars, meetVars, gameVars, layer>>
  \/ layer = "link" /\ ~stray /\ LinkNext /\ UNCHANGED <<msgVars, meetVars, gameVars, layer>>
  \/ layer = "meet" /\ MeetNext /\ UNCHANGED <<msgVars, linkVars, gameVars, layer>>
  \/ layer = "game" /\ GameNext /\ UNCHANGED <<msgVars, linkVars, meetVars, layer>>

Spec == Init /\ [][Next]_vars

TypeOK == MsgTypeOK /\ LinkTypeOK /\ MeetTypeOK /\ GameTypeOK

\* No action and no property tells two peers, badges or sessions apart.
Symmetry ==
  Permutations(Peers) \union Permutations(Sessions) \union Permutations(Participants)
    \union Permutations(Badges)
=============================================================================
