---------------------------- MODULE SerialProofs ----------------------------
(***************************************************************************)
(* Proofs about the serial protocol (jpp_serial_mgr.c and its host,        *)
(* scripts/jppd_upload.py): the consent handshake of a session, and an     *)
(* upload over a link that loses and damages frames; and that the types    *)
(* and invariants of its layers hold in their composition with the HTTP    *)
(* server and the settings.                                                *)
(***************************************************************************)
EXTENDS MCManagement, HttpServerProofs, SettingsStoreProofs, TLAPS

-----------------------------------------------------------------------------
(* Sessions.                                                               *)

LEMMA SendTypes ==
  ASSUME TypeOK, NEW st \in Statuses, Send(st)
  PROVE  rx' = "scan" /\ reply' \in [cmd : Commands \cup {"SESSION_ENDED"}, status : Statuses]
  BY DEF TypeOK, Send

LEMMA RxTypes == ASSUME TypeOK, RxNext PROVE TypeOK'
<1> USE DEF Statuses
<1>1. CASE Dispatch \/ ResetTimer
  BY <1>1 DEF Dispatch, ResetTimer, TypeOK, dialog
<1>2. CASE HandleSessionStart
  BY <1>2, SendTypes DEF HandleSessionStart, TypeOK
<1>3. CASE TakeAnswer
  BY <1>3 DEF TakeAnswer, TypeOK
<1>4. CASE SessionAnswered
  BY <1>4, SendTypes DEF SessionAnswered, TypeOK, dialog
<1>5. CASE SessionOpened
  BY <1>5, SendTypes DEF SessionOpened, TypeOK, dialog, TimerStarted
<1>6. CASE HandleSessionEnd
  BY <1>6, SendTypes DEF HandleSessionEnd, CloseSession, TypeOK, dialog
<1>7. CASE HandleStateless \/ HandleFile
  BY <1>7, SendTypes DEF HandleStateless, HandleFile, TypeOK, dialog
<1>8. CASE EditReturns \/ EndReturns
  BY <1>8, SendTypes DEF EditReturns, EndReturns, TypeOK, dialog
<1>9. CASE BeginReturns
  <2>1. xfer' \in {"none", "upload", "download"}
    BY <1>9 DEF BeginReturns, Direction, TypeOK
  <2>2. rx' = "scan" /\ reply' \in [cmd : Commands \cup {"SESSION_ENDED"}, status : Statuses]
    BY <1>9, SendTypes DEF BeginReturns
  <2> QED BY <1>9, <2>1, <2>2 DEF BeginReturns, TypeOK, dialog
<1>12. CASE ChunkReturns
  <2>1. xfer' \in {"none", "upload", "download"}
    BY <1>12 DEF ChunkReturns, TypeOK
  <2>2. rx' = "scan" /\ reply' \in [cmd : Commands \cup {"SESSION_ENDED"}, status : Statuses]
    BY <1>12, SendTypes DEF ChunkReturns
  <2> QED BY <1>12, <2>1, <2>2 DEF ChunkReturns, TypeOK, dialog
<1>10. CASE AskBackup
  BY <1>10, SendTypes DEF AskBackup, TypeOK
<1>11. CASE BackupAnswered
  <2>1. rx' = "scan" /\ reply' \in [cmd : Commands \cup {"SESSION_ENDED"}, status : Statuses]
    BY <1>11, SendTypes DEF BackupAnswered
  <2>2. CASE UNCHANGED <<session, dialog, armed, xfer, app>>
    BY <1>11, <2>1, <2>2 DEF BackupAnswered, TypeOK, dialog
  <2>3. CASE /\ session' = FALSE /\ consent' = "IDLE" /\ allowed' = FALSE /\ cursor' = 1
             /\ sem' = FALSE /\ armed' = FALSE /\ xfer' = "none" /\ app' = "free"
    <3>1. cursor' \in 0..1
      BY <2>3
    <3> QED BY <1>11, <2>1, <2>3, <3>1 DEF BackupAnswered, TypeOK
  <2> QED BY <1>11, <2>2, <2>3 DEF BackupAnswered
<1> QED BY <1>1, <1>2, <1>3, <1>4, <1>5, <1>6, <1>7, <1>8, <1>9, <1>10, <1>11, <1>12 DEF RxNext

LEMMA SessionStepTypes == TypeOK /\ [Next]_vars => TypeOK'
<1> SUFFICES ASSUME TypeOK, [Next]_vars PROVE TypeOK'
  OBVIOUS
<1>1. ASSUME NEW c \in Commands, Receive(c) PROVE TypeOK'
  <2>1. reply' \in [cmd : Commands \cup {"SESSION_ENDED"}, status : Statuses]
    BY <1>1 DEF Receive, TypeOK, Statuses
  <2> QED BY <1>1, <2>1 DEF Receive, TypeOK, dialog
<1>2. CASE SessionTimeout
  BY <1>2 DEF SessionTimeout, CloseSession, TypeOK, dialog
<1>3. ASSUME NEW k \in {"OK", "BACK", "LEFT", "RIGHT"}, HandleAction(k) PROVE TypeOK'
  <2>1. reply' \in [cmd : Commands \cup {"SESSION_ENDED"}, status : Statuses]
    BY <1>3 DEF HandleAction, TypeOK, Statuses
  <2>2. cursor' \in 0..1
    BY <1>3 DEF HandleAction, MovedRight, TypeOK, dialog
  <2> QED BY <1>3, <2>1, <2>2 DEF HandleAction, DialogClosed, CloseSession, TypeOK, dialog
<1>4. CASE LaunchApp \/ BindApp \/ CloseApp
  BY <1>4 DEF LaunchApp, BindApp, CloseApp, TypeOK, dialog
<1>5. CASE UNCHANGED vars
  BY <1>5 DEF vars, TypeOK
<1> QED BY <1>1, <1>2, <1>3, <1>4, <1>5, RxTypes DEF Next

LEMMA RxKeepsHandshake == ASSUME TypeOK, ConsentHandshake, RxNext PROVE ConsentHandshake'
<1> USE DEF ConsentHandshake, dialog, Send
<1>1. CASE Dispatch \/ ResetTimer \/ SessionOpened \/ HandleSessionEnd \/ HandleStateless \/ HandleFile
  BY <1>1 DEF Dispatch, ResetTimer, SessionOpened, HandleSessionEnd, HandleStateless, HandleFile
<1>2. CASE HandleSessionStart
  BY <1>2 DEF HandleSessionStart
<1>3. CASE TakeAnswer \/ SessionAnswered
  BY <1>3 DEF TakeAnswer, SessionAnswered
<1>4. CASE EditReturns \/ BeginReturns \/ ChunkReturns \/ EndReturns
  BY <1>4 DEF EditReturns, BeginReturns, ChunkReturns, EndReturns
<1>5. CASE AskBackup
  BY <1>5 DEF AskBackup
<1>6. CASE BackupAnswered
  BY <1>6 DEF BackupAnswered
<1> QED BY <1>1, <1>2, <1>3, <1>4, <1>5, <1>6 DEF RxNext

LEMMA StepKeepsHandshake == TypeOK /\ ConsentHandshake /\ [Next]_vars => ConsentHandshake'
<1> SUFFICES ASSUME TypeOK, ConsentHandshake, [Next]_vars PROVE ConsentHandshake'
  OBVIOUS
<1>1. ASSUME NEW c \in Commands, Receive(c) PROVE ConsentHandshake'
  BY <1>1 DEF Receive, ConsentHandshake, dialog
<1>2. ASSUME NEW k \in {"OK", "BACK", "LEFT", "RIGHT"}, HandleAction(k) PROVE ConsentHandshake'
  <2>1. consent # "IDLE" => rx = "ask" /\ ~sem
    BY DEF ConsentHandshake, TypeOK
  <2>2. CASE consent # "IDLE"
    BY <1>2, <2>1, <2>2 DEF HandleAction, DialogClosed, ConsentHandshake
  <2>3. CASE consent = "IDLE"
    BY <1>2, <2>3 DEF HandleAction, ConsentHandshake, dialog
  <2> QED BY <2>2, <2>3
<1>3. CASE SessionTimeout \/ LaunchApp \/ BindApp \/ CloseApp
  BY <1>3 DEF SessionTimeout, LaunchApp, BindApp, CloseApp, ConsentHandshake, dialog
<1>4. CASE UNCHANGED vars
  BY <1>4 DEF vars, ConsentHandshake
<1> QED BY <1>1, <1>2, <1>3, <1>4, RxKeepsHandshake DEF Next

LEMMA InitSession == Init => TypeOK /\ ConsentHandshake
<1> SUFFICES ASSUME Init PROVE TypeOK /\ ConsentHandshake
  OBVIOUS
<1>1. reply \in [cmd : Commands \cup {"SESSION_ENDED"}, status : Statuses] /\ cmd \in Commands
  BY DEF Init, Commands, Statuses
<1>2. cursor \in 0..1
  BY DEF Init
<1> QED BY <1>1, <1>2 DEF Init, TypeOK, ConsentHandshake

\* A dialog is up exactly while the receive task waits for it, and no press leaves
\* a token behind for a later request: of the three tasks that share the state
\* without a lock (handle_session_start, handle_apply_backup,
\* jpp_serial_mgr_handle_action).
THEOREM AnswersReachTheRequest == Spec => [](TypeOK /\ ConsentHandshake)
  BY InitSession, SessionStepTypes, StepKeepsHandshake, PTL DEF Spec

-----------------------------------------------------------------------------
(* Sequence numbers and links.                                             *)

SeqNo == 0..(SeqMod - 1)

\* How many frames ago the number s was given, when n is the last one.
Age(s, n) == IF s <= n THEN n - s ELSE n + SeqMod - s

\* The links keep the order of frames, and a reply is older than every frame
\* still under way: the ages fall strictly along the two links.
InOrder ==
  /\ \A i, j \in 1..Len(toHost) : i < j => Age(toHost[i].seq, seq) > Age(toHost[j].seq, seq)
  /\ \A i, j \in 1..Len(toDevice) : i < j => Age(toDevice[i].seq, seq) > Age(toDevice[j].seq, seq)
  /\ \A i \in 1..Len(toHost), j \in 1..Len(toDevice) : Age(toHost[i].seq, seq) > Age(toDevice[j].seq, seq)

\* Nothing under way is older than the attempts at the host's command; the end of
\* the session may overtake the attempts at the command that failed.
Window == tries + (IF phase = "bye" THEN Retries + 1 ELSE 0)
Recent ==
  phase # "over" =>
  /\ \A i \in 1..Len(toHost) : Age(toHost[i].seq, seq) < Window
  /\ \A j \in 1..Len(toDevice) : Age(toDevice[j].seq, seq) < Window

\* The sender's loop: an attempt is out only within the number allowed.
HostInv ==
  /\ phase = "over" => ~waiting
  /\ (~waiting /\ phase # "over") => tries < Attempts
  /\ waiting => 1 <= tries /\ tries <= Attempts
  /\ phase = "begin" => idx = 0
  /\ phase = "chunk" => idx < Chunks

Status == {"OK", "IO", "INVALID", "NO_SESSION", "TRANSFER"}

LEMMA NextSeqIs == ASSUME NEW n \in SeqNo
   PROVE NextSeq(n) = (IF n = SeqMod - 1 THEN 0 ELSE n + 1) /\ NextSeq(n) \in SeqNo
  BY UploadAssumption DEF SeqNo, NextSeq

LEMMA TailIs ==
  ASSUME NEW S, NEW s \in Seq(S), s # <<>>
  PROVE  /\ Tail(s) \in Seq(S) /\ Len(s) \in Nat \ {0} /\ Len(Tail(s)) = Len(s) - 1
         /\ Head(s) = s[1] /\ s[1] \in S
         /\ \A i \in 1..Len(Tail(s)) : i + 1 \in 1..Len(s) /\ Tail(s)[i] = s[i + 1]
  OBVIOUS

LEMMA AppendIs ==
  ASSUME NEW S, NEW s \in Seq(S), NEW e \in S
  PROVE  /\ Append(s, e) \in Seq(S) /\ Len(s) \in Nat /\ Len(Append(s, e)) = Len(s) + 1
         /\ \A i \in 1..Len(s) : Append(s, e)[i] = s[i]
         /\ Append(s, e)[Len(s) + 1] = e
  OBVIOUS

LEMMA ExceptIs ==
  ASSUME NEW S, NEW s \in Seq(S), NEW i \in 1..Len(s), NEW e \in S
  PROVE  [s EXCEPT ![i] = e] \in Seq(S)
  OBVIOUS

LEMMA AgeNext ==
  ASSUME NEW n \in SeqNo, NEW s \in SeqNo, Age(s, n) < SeqMod - 1
  PROVE  Age(s, NextSeq(n)) = Age(s, n) + 1
  BY NextSeqIs, UploadAssumption DEF Age, SeqNo

LEMMA AgeZero ==
  ASSUME NEW n \in SeqNo, NEW s \in SeqNo
  PROVE  Age(s, n) \in Nat /\ Age(s, n) < SeqMod /\ (Age(s, n) = 0 <=> s = n)
  BY UploadAssumption DEF Age, SeqNo

LEMMA LinkTypes == ASSUME SmpTypeOK PROVE
   /\ seq \in SeqNo /\ tries \in Nat /\ Retries \in Nat /\ SeqMod \in Nat /\ SeqMod > Retries + 2
   /\ toDevice \in Seq(Frame) /\ toHost \in Seq(Reply)
   /\ Len(toDevice) \in Nat /\ Len(toHost) \in Nat
   /\ \A j \in 1..Len(toDevice) : toDevice[j] \in Frame /\ toDevice[j].seq \in SeqNo
   /\ \A j \in 1..Len(toHost) : toHost[j] \in Reply /\ toHost[j].seq \in SeqNo
<1>0. seq \in SeqNo /\ tries \in 0..(Retries + 1) /\ toDevice \in Seq(Frame) /\ toHost \in Seq(Reply)
  BY DEF SmpTypeOK, SeqNo
<1>1. seq \in SeqNo /\ tries \in Nat /\ toDevice \in Seq(Frame) /\ toHost \in Seq(Reply)
      /\ Len(toDevice) \in Nat /\ Len(toHost) \in Nat
  BY <1>0, UploadAssumption
<1>2. \A j \in 1..Len(toDevice) : toDevice[j] \in Frame
  BY <1>1
<1>3. \A j \in 1..Len(toHost) : toHost[j] \in Reply
  BY <1>1
<1>4. (\A f \in Frame : f.seq \in SeqNo) /\ (\A f \in Reply : f.seq \in SeqNo)
  BY DEF Frame, Reply, SeqNo
<1> QED BY <1>1, <1>2, <1>3, <1>4, UploadAssumption

\* What is under way grows older by the frame that is sent.
LEMMA SendAges ==
  ASSUME SmpTypeOK, Recent, HostInv, SendCommand
  PROVE  /\ phase # "over" /\ phase' = phase /\ tries' = tries + 1 /\ seq' \in SeqNo
         /\ toHost' = toHost /\ UNCHANGED <<file, idx, ok>>
         /\ Window \in Nat /\ Window' = Window + 1
         /\ Len(toDevice) \in Nat /\ Len(toDevice') = Len(toDevice) + 1
         /\ \A j \in 1..Len(toDevice') : j \in 1..Len(toDevice) \/ j = Len(toDevice) + 1
         /\ \A j \in 1..Len(toDevice) : toDevice'[j] = toDevice[j]
         /\ LET new == toDevice'[Len(toDevice) + 1] IN
              /\ new.cmd = phase /\ new.seq = seq' /\ Age(new.seq, seq') = 0
              /\ new.data.idx = idx + 1 /\ new.data.file = file
         /\ \A i \in 1..Len(toHost) :
              /\ Age(toHost[i].seq, seq') = Age(toHost[i].seq, seq) + 1
              /\ Age(toHost[i].seq, seq) \in Nat /\ Age(toHost[i].seq, seq) < Window
         /\ \A j \in 1..Len(toDevice) :
              /\ Age(toDevice[j].seq, seq') = Age(toDevice[j].seq, seq) + 1
              /\ Age(toDevice[j].seq, seq) \in Nat /\ Age(toDevice[j].seq, seq) < Window
<1> DEFINE new == [cmd |-> phase, seq |-> seq',
                   data |-> [file |-> file, idx |-> idx + 1, good |-> TRUE]]
           n == Len(toDevice)
<1>1. /\ phase # "over" /\ phase' = phase /\ tries' = tries + 1 /\ seq' = NextSeq(seq)
      /\ toDevice' = Append(toDevice, new) /\ toHost' = toHost /\ UNCHANGED <<file, idx, ok>>
  BY DEF SendCommand
<1>2. /\ n \in Nat /\ Len(toDevice') = n + 1
      /\ \A j \in 1..n : toDevice'[j] = toDevice[j]
      /\ toDevice'[n + 1] = new
  BY <1>1, LinkTypes
<1>3. \A j \in 1..Len(toDevice') : j \in 1..n \/ j = n + 1
  BY <1>2
<1>4. Window \in Nat /\ Window <= Retries + 1 /\ Window' = Window + 1
  <2>1. tries < Attempts
    BY DEF HostInv, SendCommand
  <2>2. CASE phase = "bye"
    BY <1>1, <2>1, <2>2, LinkTypes DEF Window, Attempts
  <2>3. CASE phase # "bye"
    BY <1>1, <2>1, <2>3, LinkTypes DEF Window, Attempts
  <2> QED BY <2>2, <2>3
<1>5. seq' \in SeqNo /\ Age(seq', seq') = 0
  <2>1. seq' \in SeqNo
    BY <1>1, LinkTypes, NextSeqIs
  <2> QED BY <2>1, AgeZero
<1>6. ASSUME NEW s \in SeqNo, Age(s, seq) < Window
      PROVE  Age(s, seq') = Age(s, seq) + 1 /\ Age(s, seq) \in Nat
  <2>1. Age(s, seq) < SeqMod - 1 /\ Age(s, seq) \in Nat
    BY <1>4, <1>6, LinkTypes, AgeZero
  <2> QED BY <2>1, <1>1, LinkTypes, AgeNext
<1>7. ASSUME NEW j \in 1..Len(toHost)
      PROVE /\ Age(toHost[j].seq, seq') = Age(toHost[j].seq, seq) + 1
            /\ Age(toHost[j].seq, seq) \in Nat /\ Age(toHost[j].seq, seq) < Window
  <2>1. Age(toHost[j].seq, seq) < Window
    BY <1>1 DEF Recent
  <2> QED BY <2>1, <1>6, LinkTypes
<1>8. ASSUME NEW j \in 1..n
      PROVE /\ Age(toDevice[j].seq, seq') = Age(toDevice[j].seq, seq) + 1
            /\ Age(toDevice[j].seq, seq) \in Nat /\ Age(toDevice[j].seq, seq) < Window
  <2>1. Age(toDevice[j].seq, seq) < Window
    BY <1>1 DEF Recent
  <2> QED BY <2>1, <1>6, LinkTypes
<1>9. /\ new.cmd = phase /\ new.seq = seq' /\ Age(new.seq, seq') = 0
      /\ new.data.idx = idx + 1 /\ new.data.file = file
  BY <1>5
<1> HIDE DEF new
<1> QED BY <1>1, <1>2, <1>3, <1>4, <1>5, <1>7, <1>8, <1>9

LEMMA SendOrder == ASSUME SmpTypeOK, InOrder, Recent, HostInv, SendCommand PROVE InOrder' /\ Recent'
<1> DEFINE n == Len(toDevice)
<1>1. InOrder'
  <2>1. ASSUME NEW i \in 1..Len(toHost), NEW j \in 1..Len(toHost), i < j
        PROVE Age(toHost[i].seq, seq') > Age(toHost[j].seq, seq')
    <3>1. Age(toHost[i].seq, seq) > Age(toHost[j].seq, seq)
      BY <2>1 DEF InOrder
    <3> QED BY <3>1, SendAges
  <2>2. ASSUME NEW i \in 1..Len(toDevice'), NEW j \in 1..Len(toDevice'), i < j
        PROVE  Age(toDevice'[i].seq, seq') > Age(toDevice'[j].seq, seq')
    <3>1. i \in 1..n
      BY <2>2, SendAges
    <3>2. CASE j \in 1..n
      <4>1. Age(toDevice[i].seq, seq) > Age(toDevice[j].seq, seq)
        BY <2>2, <3>1, <3>2 DEF InOrder
      <4>2. Age(toDevice[i].seq, seq') > Age(toDevice[j].seq, seq')
        BY <4>1, <3>1, <3>2, SendAges
      <4> QED BY <4>2, <3>1, <3>2, SendAges
    <3>3. CASE j = n + 1
      <4>1. Age(toDevice[i].seq, seq') > 0
        BY <3>1, SendAges
      <4> QED BY <4>1, <3>1, <3>3, SendAges
    <3> QED BY SendAges, <3>2, <3>3
  <2>3. ASSUME NEW i \in 1..Len(toHost), NEW j \in 1..Len(toDevice')
        PROVE  Age(toHost[i].seq, seq') > Age(toDevice'[j].seq, seq')
    <3>2. CASE j \in 1..n
      <4>1. Age(toHost[i].seq, seq) > Age(toDevice[j].seq, seq)
        BY <3>2 DEF InOrder
      <4>2. Age(toHost[i].seq, seq') > Age(toDevice[j].seq, seq')
        BY <4>1, <3>2, SendAges
      <4> QED BY <4>2, <3>2, SendAges
    <3>3. CASE j = n + 1
      <4>1. Age(toHost[i].seq, seq') > 0
        BY SendAges
      <4> QED BY <4>1, <3>3, SendAges
    <3> QED BY SendAges, <3>2, <3>3
  <2> QED BY SendAges, <2>1, <2>2, <2>3 DEF InOrder
<1>2. Recent'
  <2>1. ASSUME NEW j \in 1..Len(toDevice') PROVE Age(toDevice'[j].seq, seq') < Window'
    <3>1. CASE j \in 1..n
      <4>1. Age(toDevice[j].seq, seq') < Window'
        BY <3>1, SendAges
      <4> QED BY <4>1, <3>1, SendAges
    <3>2. CASE j = n + 1
      BY <3>2, SendAges
    <3> QED BY SendAges, <3>1, <3>2
  <2>2. ASSUME NEW j \in 1..Len(toHost) PROVE Age(toHost[j].seq, seq') < Window'
    BY SendAges
  <2> QED BY SendAges, <2>1, <2>2 DEF Recent
<1> QED BY <1>1, <1>2

-----------------------------------------------------------------------------
(* What the actions do to the links: c replies and d frames leave the head.   *)

Same(f, g) == f.seq = g.seq /\ f.cmd = g.cmd /\ f.data.idx = g.data.idx /\ f.data.file = g.data.file

Dropped(c, d) ==
  /\ seq' = seq
  /\ Len(toHost') = Len(toHost) - c /\ Len(toHost') \in Nat
  /\ \A i \in 1..Len(toHost') : i + c \in 1..Len(toHost) /\ toHost'[i] = toHost[i + c]
  /\ Len(toDevice') = Len(toDevice) - d /\ Len(toDevice') \in Nat
  /\ \A j \in 1..Len(toDevice') : j + d \in 1..Len(toDevice) /\ Same(toDevice'[j], toDevice[j + d])

LEMMA SameLinks ==
  ASSUME SmpTypeOK, seq' = seq, toHost' = toHost, Len(toDevice') = Len(toDevice),
         \A j \in 1..Len(toDevice) : Same(toDevice'[j], toDevice[j])
  PROVE  Dropped(0, 0)
<1>1. Len(toHost) \in Nat /\ Len(toDevice) \in Nat
  BY LinkTypes
<1>2. Len(toHost') = Len(toHost) - 0 /\ Len(toDevice') = Len(toDevice) - 0
  BY <1>1
<1>3. \A i \in 1..Len(toHost') : i + 0 \in 1..Len(toHost) /\ i = i + 0
  BY <1>1
<1>4. \A j \in 1..Len(toDevice') : j + 0 \in 1..Len(toDevice) /\ j = j + 0
  BY <1>1
<1> QED BY <1>1, <1>2, <1>3, <1>4 DEF Dropped

LEMMA LinkSteps ==
  ASSUME SmpTypeOK
  PROVE  /\ AttemptFails \/ Interrupt \/ SessionEnds \/ UNCHANGED smpVars => Dropped(0, 0)
         /\ ReadReply \/ LoseReply => Dropped(1, 0)
         /\ LoseCommand => Dropped(0, 1)
         /\ DamageChunk => Dropped(0, 0)
<1>1. ASSUME AttemptFails \/ Interrupt \/ SessionEnds \/ UNCHANGED smpVars PROVE Dropped(0, 0)
  <2>1. UNCHANGED <<seq, toHost, toDevice>>
    BY <1>1 DEF AttemptFails, Fail, Goto, Interrupt, SessionEnds, smpVars, host, link
  <2> QED BY <2>1, SameLinks DEF Same
<1>2. ASSUME ReadReply \/ LoseReply PROVE Dropped(1, 0)
  <2>1. toHost # <<>> /\ toHost' = Tail(toHost) /\ UNCHANGED <<seq, toDevice>>
    BY <1>2 DEF ReadReply, LoseReply, host
  <2>2. /\ Len(toHost') = Len(toHost) - 1 /\ Len(toHost') \in Nat
        /\ \A i \in 1..Len(toHost') : i + 1 \in 1..Len(toHost) /\ toHost'[i] = toHost[i + 1]
    BY <2>1, LinkTypes, TailIs
  <2>3. /\ Len(toDevice') = Len(toDevice) - 0 /\ Len(toDevice') \in Nat
        /\ \A j \in 1..Len(toDevice') : j + 0 \in 1..Len(toDevice) /\ j = j + 0
    BY <2>1, LinkTypes
  <2> QED BY <2>1, <2>2, <2>3 DEF Dropped, Same
<1>3. ASSUME LoseCommand PROVE Dropped(0, 1)
  <2>1. toDevice # <<>> /\ toDevice' = Tail(toDevice) /\ UNCHANGED <<seq, toHost>>
    BY <1>3 DEF LoseCommand, host
  <2>2. /\ Len(toDevice') = Len(toDevice) - 1 /\ Len(toDevice') \in Nat
        /\ \A i \in 1..Len(toDevice') : i + 1 \in 1..Len(toDevice) /\ toDevice'[i] = toDevice[i + 1]
    BY <2>1, LinkTypes, TailIs
  <2>3. /\ Len(toHost') = Len(toHost) - 0 /\ Len(toHost') \in Nat
        /\ \A j \in 1..Len(toHost') : j + 0 \in 1..Len(toHost) /\ j = j + 0
    BY <2>1, LinkTypes
  <2> QED BY <2>1, <2>2, <2>3 DEF Dropped, Same
<1>4. ASSUME DamageChunk PROVE Dropped(0, 0)
  <2>1. toDevice' = [toDevice EXCEPT ![1].data.good = FALSE] /\ UNCHANGED <<seq, toHost>>
    BY <1>4 DEF DamageChunk, host
  <2>2. Len(toDevice') = Len(toDevice)
    BY <2>1, LinkTypes
  <2>3. ASSUME NEW j \in 1..Len(toDevice) PROVE Same(toDevice'[j], toDevice[j])
    <3>1. toDevice[j] \in Frame
      BY LinkTypes
    <3>2. CASE j = 1
      <4>1. toDevice'[j] = [toDevice[j] EXCEPT !.data.good = FALSE]
        <5>1. 1 \in DOMAIN toDevice /\ j = 1
          BY <3>2, LinkTypes
        <5>2. \A g : [toDevice EXCEPT ![1] = g][1] = g
          BY <5>1
        <5>3. toDevice' = [toDevice EXCEPT ![1] = [toDevice[1] EXCEPT !.data.good = FALSE]]
          BY <2>1
        <5> QED BY <5>1, <5>2, <5>3
      <4> QED BY <4>1, <3>1 DEF Same, Frame
    <3>3. CASE j # 1
      <4>1. toDevice'[j] = toDevice[j]
        BY <2>1, <3>3, LinkTypes
      <4> QED BY <4>1 DEF Same
    <3> QED BY <3>2, <3>3
  <2> QED BY <2>1, <2>2, <2>3, SameLinks
<1> QED BY <1>1, <1>2, <1>3, <1>4

LEMMA DropKeepsOrder ==
  ASSUME SmpTypeOK, InOrder, NEW c \in {0, 1}, NEW d \in {0, 1}, Dropped(c, d)
  PROVE  InOrder'
<1>1. \A i \in 1..Len(toHost') : i + c \in 1..Len(toHost) /\ toHost'[i].seq = toHost[i + c].seq
  BY DEF Dropped
<1>2. \A j \in 1..Len(toDevice') : j + d \in 1..Len(toDevice) /\ toDevice'[j].seq = toDevice[j + d].seq
  BY DEF Dropped, Same
<1>3. ASSUME NEW i \in 1..Len(toHost'), NEW j \in 1..Len(toHost'), i < j
      PROVE  Age(toHost'[i].seq, seq') > Age(toHost'[j].seq, seq')
  <2>1. i + c < j + c
    BY <1>3 DEF Dropped
  <2> QED BY <2>1, <1>1 DEF InOrder, Dropped
<1>4. ASSUME NEW i \in 1..Len(toDevice'), NEW j \in 1..Len(toDevice'), i < j
      PROVE  Age(toDevice'[i].seq, seq') > Age(toDevice'[j].seq, seq')
  <2>1. i + d < j + d
    BY <1>4 DEF Dropped
  <2> QED BY <2>1, <1>2 DEF InOrder, Dropped
<1>5. ASSUME NEW i \in 1..Len(toHost'), NEW j \in 1..Len(toDevice')
      PROVE  Age(toHost'[i].seq, seq') > Age(toDevice'[j].seq, seq')
  BY <1>1, <1>2 DEF InOrder, Dropped
<1> QED BY <1>3, <1>4, <1>5 DEF InOrder

LEMMA FrameHandled ==
  ASSUME SmpTypeOK, HandleFrame
  PROVE  /\ toDevice # <<>> /\ Head(toDevice) = toDevice[1] /\ toDevice' = Tail(toDevice)
         /\ toDevice[1] \in Frame /\ seq' = seq
         /\ \E st \in Status :
              toHost' = Append(toHost, [seq |-> toDevice[1].seq, status |-> st,
                                        cmd |-> toDevice[1].cmd, idx |-> toDevice[1].data.idx])
<1>1. toDevice # <<>> /\ toDevice' = Tail(toDevice) /\ seq' = seq
  BY DEF HandleFrame, host
<1>2. Head(toDevice) = toDevice[1] /\ toDevice[1] \in Frame
  BY <1>1, LinkTypes, TailIs
<1>3. \E st \in Status : Answer(toDevice[1], st)
  BY <1>2 DEF HandleFrame, UploadBegin, UploadChunk, UploadEnd, Refuse, Status
<1> QED BY <1>1, <1>2, <1>3 DEF Answer

LEMMA HandledKeepsOrder ==
  ASSUME SmpTypeOK, InOrder, HandleFrame
  PROVE  InOrder'
<1> DEFINE n == Len(toHost)
<1>1. PICK st \in Status :
              toHost' = Append(toHost, [seq |-> toDevice[1].seq, status |-> st,
                                        cmd |-> toDevice[1].cmd, idx |-> toDevice[1].data.idx])
  BY FrameHandled
<1>2. /\ n \in Nat /\ Len(toHost') = n + 1
      /\ \A i \in 1..n : toHost'[i] = toHost[i]
      /\ toHost'[n + 1].seq = toDevice[1].seq
  BY <1>1, LinkTypes
<1>3. \A j \in 1..Len(toDevice') : j + 1 \in 1..Len(toDevice) /\ toDevice'[j] = toDevice[j + 1]
  BY FrameHandled, LinkTypes, TailIs
<1>4. \A i \in 1..Len(toHost') : i \in 1..n \/ i = n + 1
  BY <1>2
<1>5. 1 \in 1..Len(toDevice) /\ seq' = seq
  BY FrameHandled, LinkTypes, TailIs
<1>6. ASSUME NEW i \in 1..Len(toHost'), NEW j \in 1..Len(toHost'), i < j
      PROVE  Age(toHost'[i].seq, seq') > Age(toHost'[j].seq, seq')
  <2>1. i \in 1..n
    BY <1>2, <1>6
  <2>2. CASE j \in 1..n
    BY <1>2, <1>5, <1>6, <2>1, <2>2 DEF InOrder
  <2>3. CASE j = n + 1
    BY <1>2, <1>5, <2>1, <2>3 DEF InOrder
  <2> QED BY <1>4, <2>2, <2>3
<1>7. ASSUME NEW i \in 1..Len(toDevice'), NEW j \in 1..Len(toDevice'), i < j
      PROVE  Age(toDevice'[i].seq, seq') > Age(toDevice'[j].seq, seq')
  <2>1. i + 1 < j + 1
    BY <1>7, <1>3
  <2> QED BY <2>1, <1>3, <1>5 DEF InOrder
<1>8. ASSUME NEW i \in 1..Len(toHost'), NEW j \in 1..Len(toDevice')
      PROVE  Age(toHost'[i].seq, seq') > Age(toDevice'[j].seq, seq')
  <2>1. CASE i \in 1..n
    BY <2>1, <1>2, <1>3, <1>5 DEF InOrder
  <2>2. CASE i = n + 1
    <3>1. 1 < j + 1 /\ j + 1 \in 1..Len(toDevice)
      BY <1>3
    <3> QED BY <3>1, <2>2, <1>2, <1>3, <1>5 DEF InOrder
  <2> QED BY <1>4, <2>1, <2>2
<1> QED BY <1>6, <1>7, <1>8 DEF InOrder

-----------------------------------------------------------------------------
(* The host.                                                               *)

LEMMA HostTypes == ASSUME SmpTypeOK PROVE
  /\ phase \in Phases /\ file \in Nat /\ 1 <= file /\ file <= Files /\ Files \in Nat
  /\ idx \in Nat /\ idx <= Chunks /\ Chunks \in Nat
  /\ tries \in Nat /\ tries <= Retries + 1 /\ Retries \in Nat
<1>1. phase \in Phases /\ file \in 1..Files /\ idx \in 0..Chunks /\ tries \in 0..(Retries + 1)
  BY DEF SmpTypeOK
<1> QED BY <1>1, UploadAssumption

LEMMA AttemptsPositive == Attempts \in Nat /\ 1 <= Attempts /\ Attempts <= Retries + 1
  BY UploadAssumption DEF Attempts

\* A failed command ends in the same state of the host, whatever it was.
LEMMA FailGoes == ASSUME SmpTypeOK, Fail PROVE
  /\ phase' = (IF phase = "bye" THEN "over" ELSE "bye")
  /\ file' = file /\ idx' = idx /\ tries' = 0 /\ waiting' = FALSE /\ ok' = FALSE
  BY DEF Fail, Goto

LEMMA FailKeepsHost == ASSUME SmpTypeOK, Fail PROVE HostInv'
<1>1. phase' \in {"bye", "over"} /\ tries' = 0 /\ waiting' = FALSE
  BY FailGoes
<1>2. tries' < Attempts'
  BY <1>1, UploadAssumption DEF Attempts
<1> QED BY <1>1, <1>2 DEF HostInv

LEMMA HostStep == ASSUME SmpTypeOK, HostInv, SmpNext PROVE HostInv'
<1>1. CASE UNCHANGED host
  BY <1>1 DEF host, HostInv, Attempts
<1>2. CASE SendCommand
  <2>1. tries < Attempts
    BY <1>2 DEF SendCommand, HostInv
  <2>2. UNCHANGED <<phase, idx>> /\ tries' = tries + 1 /\ waiting' = TRUE /\ phase # "over"
    BY <1>2 DEF SendCommand
  <2>3. Attempts' = Attempts
    BY <2>2 DEF Attempts
  <2>4. 1 <= tries' /\ tries' <= Attempts'
    BY <2>1, <2>2, <2>3, HostTypes, AttemptsPositive
  <2> QED BY <2>2, <2>4 DEF HostInv
<1>3. CASE AttemptFails /\ tries < Attempts
  <2>1. UNCHANGED <<phase, idx, tries>> /\ waiting' = FALSE
    BY <1>3 DEF AttemptFails
  <2> QED BY <1>3, <2>1 DEF HostInv, Attempts
<1>4. CASE Fail
  BY <1>4, FailKeepsHost
<1>5. CASE ReadReply /\ Proceed
  <2>1. phase # "over"
    BY <1>5 DEF ReadReply, HostInv
  <2>2. tries' = 0 /\ waiting' = FALSE
    BY <1>5, <2>1, HostTypes DEF Proceed, Goto, Phases
  <2>3. tries' < Attempts'
    BY <2>2, UploadAssumption DEF Attempts
  <2>4. phase' = "begin" => idx' = 0
    BY <1>5, <2>1, HostTypes DEF Proceed, Goto, Phases
  <2>5. CASE phase = "begin"
    <3>1. phase' = "chunk" => idx' = 0 /\ Chunks # 0
      BY <1>5, <2>5 DEF Proceed, Goto
    <3>2. phase' = "chunk" => idx' < Chunks
      BY <3>1, HostTypes
    <3> QED BY <2>2, <2>3, <2>4, <3>2 DEF HostInv
  <2>6. CASE phase = "chunk"
    <3>1. phase' = "chunk" => idx' = idx + 1 /\ idx + 1 # Chunks
      BY <1>5, <2>6 DEF Proceed, Goto
    <3>2. idx < Chunks
      BY <2>6 DEF HostInv
    <3>3. phase' = "chunk" => idx' < Chunks
      BY <3>1, <3>2, HostTypes
    <3> QED BY <2>2, <2>3, <2>4, <3>3 DEF HostInv
  <2>7. CASE phase \in {"end", "bye"}
    <3>1. phase' # "chunk"
      BY <1>5, <2>7 DEF Proceed, Goto
    <3> QED BY <2>2, <2>3, <2>4, <3>1 DEF HostInv
  <2> QED BY <2>1, <2>5, <2>6, <2>7, HostTypes DEF Phases
<1> QED
  BY <1>1, <1>2, <1>3, <1>4, <1>5
  DEF SmpNext, AttemptFails, ReadReply, Interrupt, LoseCommand, LoseReply, DamageChunk,
      HandleFrame, SessionEnds, host

\* A reply that counts is the last item of both links.
LEMMA AnswerIsLast ==
  ASSUME SmpTypeOK, InOrder, ReadReply, Head(toHost).seq = seq
  PROVE  Len(toHost) = 1 /\ Len(toDevice) = 0
<1>1. Len(toHost) \in Nat /\ 1 <= Len(toHost) /\ Len(toDevice) \in Nat /\ Head(toHost) = toHost[1]
  BY LinkTypes, TailIs DEF ReadReply
<1>2. Age(toHost[1].seq, seq) = 0
  BY <1>1, LinkTypes, AgeZero
<1>3. ASSUME Len(toHost) # 1 PROVE FALSE
  <2>1. 1 \in 1..Len(toHost) /\ 2 \in 1..Len(toHost) /\ 1 < 2
    <3>1. \A n \in Nat : 1 <= n /\ n # 1 => 1 \in 1..n /\ 2 \in 1..n
      OBVIOUS
    <3> QED BY <3>1, <1>1, <1>3
  <2>2. 0 > Age(toHost[2].seq, seq)
    BY <2>1, <1>2 DEF InOrder
  <2>3. Age(toHost[2].seq, seq) \in Nat
    BY <2>1, LinkTypes, AgeZero
  <2> QED BY <2>2, <2>3
<1>4. ASSUME Len(toDevice) # 0 PROVE FALSE
  <2>1. 1 \in 1..Len(toHost) /\ 1 \in 1..Len(toDevice)
    BY <1>1, <1>4
  <2>2. 0 > Age(toDevice[1].seq, seq)
    BY <2>1, <1>2 DEF InOrder
  <2>3. Age(toDevice[1].seq, seq) \in Nat
    BY <2>1, LinkTypes, AgeZero
  <2> QED BY <2>2, <2>3
<1> QED BY <1>3, <1>4

LEMMA DropKeepsRecent ==
  ASSUME SmpTypeOK, Recent, NEW c \in {0, 1}, NEW d \in {0, 1}, Dropped(c, d),
         phase' # "over" => phase # "over" /\ Window \in Nat /\ Window' \in Nat /\ Window <= Window'
  PROVE  Recent'
<1> SUFFICES ASSUME phase' # "over"
             PROVE  /\ \A i \in 1..Len(toHost') : Age(toHost'[i].seq, seq') < Window'
                    /\ \A j \in 1..Len(toDevice') : Age(toDevice'[j].seq, seq') < Window'
  BY DEF Recent
<1>1. ASSUME NEW i \in 1..Len(toHost') PROVE Age(toHost'[i].seq, seq') < Window'
  <2>1. i + c \in 1..Len(toHost) /\ toHost'[i] = toHost[i + c] /\ seq' = seq
    BY DEF Dropped
  <2>2. Age(toHost[i + c].seq, seq) < Window /\ Age(toHost[i + c].seq, seq) \in Nat
    BY <2>1, LinkTypes, AgeZero DEF Recent
  <2>3. Age(toHost[i + c].seq, seq) < Window'
    BY <2>2
  <2> QED BY <2>1, <2>3
<1>2. ASSUME NEW j \in 1..Len(toDevice') PROVE Age(toDevice'[j].seq, seq') < Window'
  <2>1. j + d \in 1..Len(toDevice) /\ toDevice'[j].seq = toDevice[j + d].seq /\ seq' = seq
    BY DEF Dropped, Same
  <2>2. Age(toDevice[j + d].seq, seq) < Window /\ Age(toDevice[j + d].seq, seq) \in Nat
    BY <2>1, LinkTypes, AgeZero DEF Recent
  <2>3. Age(toDevice[j + d].seq, seq) < Window'
    BY <2>2
  <2> QED BY <2>1, <2>3
<1> QED BY <1>1, <1>2

LEMMA WindowIsNat == ASSUME SmpTypeOK PROVE Window \in Nat
  BY HostTypes DEF Window

LEMMA WindowGrows ==
  ASSUME SmpTypeOK, UNCHANGED <<phase, tries>> \/ Fail, phase' # "over"
  PROVE  Window' \in Nat /\ Window <= Window' /\ (Fail \/ phase # "over")
<1>1. CASE UNCHANGED <<phase, tries>>
  BY <1>1, WindowIsNat DEF Window
<1>2. CASE Fail
  <2>1. phase # "bye" /\ phase' = "bye" /\ tries' = 0
    BY <1>2, FailGoes
  <2>2. Window = tries /\ Window' = Retries + 1
    BY <2>1, HostTypes DEF Window
  <2> QED BY <1>2, <2>2, HostTypes
<1> QED BY <1>1, <1>2

\* The reply to the attempt says that the command succeeded.
Accepted == /\ ReadReply /\ Proceed /\ UNCHANGED ok
            /\ toHost[1].status = "OK" /\ 1 \in 1..Len(toHost)

\* What an action other than sending and handling a frame does to the links and the host.
LEMMA OtherSteps ==
  ASSUME SmpTypeOK, InOrder, HostInv, SmpNext \/ UNCHANGED smpVars
  PROVE  \/ SendCommand
         \/ HandleFrame
         \/ /\ Fail /\ phase # "over" /\ Dropped(0, 0)
         \/ /\ UNCHANGED <<phase, file, idx, tries, ok>>
            /\ \E c, d \in {0, 1} : Dropped(c, d)
         \/ /\ ReadReply /\ (Fail \/ Accepted)
            /\ Len(toHost') = 0 /\ Len(toDevice') = 0
<1>1. CASE AttemptFails \/ Interrupt \/ SessionEnds \/ UNCHANGED smpVars
  <2>1. Dropped(0, 0)
    BY <1>1, LinkSteps
  <2>2. \/ Fail /\ phase # "over"
        \/ UNCHANGED <<phase, file, idx, tries, ok>>
    BY <1>1 DEF AttemptFails, DeadlinePasses, Interrupt, SessionEnds, smpVars, host, HostInv
  <2> QED BY <2>1, <2>2
<1>2. CASE LoseReply \/ LoseCommand \/ DamageChunk
  <2>1. \E c, d \in {0, 1} : Dropped(c, d)
    BY <1>2, LinkSteps
  <2> QED BY <1>2, <2>1 DEF LoseReply, LoseCommand, DamageChunk, host
<1>3. CASE ReadReply
  <2>1. CASE Head(toHost).seq # seq
    BY <1>3, <2>1, LinkSteps DEF ReadReply
  <2>2. CASE Head(toHost).seq = seq
    <3>1. Len(toHost) = 1 /\ Len(toDevice) = 0
      BY <1>3, <2>2, AnswerIsLast
    <3>2. Len(toHost') = Len(toHost) - 1 /\ toDevice' = toDevice
      BY <1>3, LinkSteps DEF ReadReply, Dropped
    <3>3. Len(toHost') = 0 /\ Len(toDevice') = 0
      BY <3>1, <3>2
    <3>4. Head(toHost) = toHost[1] /\ 1 \in 1..Len(toHost)
      BY <1>3, LinkTypes, TailIs DEF ReadReply
    <3>5. Fail \/ Accepted
      BY <1>3, <2>2, <3>4 DEF ReadReply, Accepted
    <3> QED BY <1>3, <3>3, <3>5
  <2> QED BY <2>1, <2>2
<1> QED BY <1>1, <1>2, <1>3 DEF SmpNext

LEMMA RecentStep ==
  ASSUME SmpTypeOK, InOrder, Recent, HostInv, SmpNext \/ UNCHANGED smpVars
  PROVE  InOrder' /\ Recent'
<1>1. CASE SendCommand
  BY <1>1, SendOrder
<1>2. CASE HandleFrame
  <2>1. UNCHANGED <<phase, tries, seq>>
    BY <1>2 DEF HandleFrame, host
  <2> SUFFICES ASSUME phase # "over" PROVE Recent'
    BY <1>2, <2>1, HandledKeepsOrder DEF Recent
  <2>2. Window' = Window
    BY <2>1 DEF Window
  <2>3. /\ \A i \in 1..Len(toHost') : i \in 1..Len(toHost) \/ i = Len(toHost) + 1
        /\ \A i \in 1..Len(toHost) : toHost'[i] = toHost[i]
        /\ toHost'[Len(toHost) + 1].seq = toDevice[1].seq
        /\ 1 \in 1..Len(toDevice)
    <3>1. PICK st \in Status :
              toHost' = Append(toHost, [seq |-> toDevice[1].seq, status |-> st,
                                        cmd |-> toDevice[1].cmd, idx |-> toDevice[1].data.idx])
      BY <1>2, FrameHandled
    <3>2. 1 \in 1..Len(toDevice)
      BY <1>2, FrameHandled, LinkTypes, TailIs
    <3> QED BY <3>1, <3>2, LinkTypes
  <2>4. \A i \in 1..Len(toHost') : Age(toHost'[i].seq, seq') < Window'
    BY <2>1, <2>2, <2>3 DEF Recent
  <2>5. \A j \in 1..Len(toDevice') : j + 1 \in 1..Len(toDevice) /\ toDevice'[j] = toDevice[j + 1]
    BY <1>2, FrameHandled, LinkTypes, TailIs
  <2>6. \A j \in 1..Len(toDevice') : Age(toDevice'[j].seq, seq') < Window'
    BY <2>1, <2>2, <2>5 DEF Recent
  <2> QED BY <2>4, <2>6 DEF Recent
<1>3. CASE \/ Fail /\ phase # "over" /\ Dropped(0, 0)
           \/ UNCHANGED <<phase, tries>> /\ \E c, d \in {0, 1} : Dropped(c, d)
  <2>1. PICK c, d \in {0, 1} : Dropped(c, d)
    BY <1>3
  <2>2. phase' # "over" => phase # "over" /\ Window \in Nat /\ Window' \in Nat /\ Window <= Window'
    BY <1>3, WindowGrows, WindowIsNat
  <2> QED BY <2>1, <2>2, DropKeepsRecent, DropKeepsOrder
<1>4. CASE Len(toHost') = 0 /\ Len(toDevice') = 0
  BY <1>4 DEF InOrder, Recent
<1> QED BY <1>1, <1>2, <1>3, <1>4, OtherSteps

\* An item of the links belongs to the chunk the host is at, and to its command
\* unless the host has given up.
Fitting(c, s, i) ==
  /\ i = idx + 1
  /\ c = phase \/ phase \in {"bye", "over"}
  /\ c = "bye" \/ phase \notin {"bye", "over"} \/ ~ok
  /\ c = "bye" \/ phase # "bye" \/ tries <= Age(s, seq)
  /\ c = "begin" => idx = 0
  /\ c = "chunk" => idx < Chunks

RepliesFit == \A i \in 1..Len(toHost) : Fitting(toHost[i].cmd, toHost[i].seq, toHost[i].idx)
FramesFit == \A j \in 1..Len(toDevice) :
               /\ Fitting(toDevice[j].cmd, toDevice[j].seq, toDevice[j].data.idx)
               /\ toDevice[j].data.file = file

LEMMA DropKeepsFit ==
  ASSUME SmpTypeOK, RepliesFit, FramesFit, NEW c \in {0, 1}, NEW d \in {0, 1}, Dropped(c, d),
         UNCHANGED <<phase, file, idx, tries, ok>>
  PROVE  RepliesFit' /\ FramesFit'
<1>1. RepliesFit'
  BY DEF RepliesFit, Fitting, Dropped
<1>2. FramesFit'
  BY DEF FramesFit, Fitting, Dropped, Same
<1> QED BY <1>1, <1>2

LEMMA FailKeepsFit ==
  ASSUME SmpTypeOK, RepliesFit, FramesFit, Dropped(0, 0), Fail, phase # "over"
  PROVE  RepliesFit' /\ FramesFit'
<1>1. phase' \in {"bye", "over"} /\ file' = file /\ idx' = idx /\ tries' = 0 /\ ~ok' /\ seq' = seq
  BY FailGoes DEF Dropped
<1>2. /\ \A i \in 1..Len(toHost) : 0 <= Age(toHost[i].seq, seq)
      /\ \A j \in 1..Len(toDevice) : 0 <= Age(toDevice[j].seq, seq)
  BY LinkTypes, AgeZero
<1>3. RepliesFit'
  BY <1>1, <1>2 DEF RepliesFit, Fitting, Dropped
<1>4. FramesFit'
  BY <1>1, <1>2 DEF FramesFit, Fitting, Dropped, Same
<1> QED BY <1>3, <1>4

LEMMA SendKeepsFit ==
  ASSUME SmpTypeOK, Recent, HostInv, RepliesFit, FramesFit, SendCommand
  PROVE  RepliesFit' /\ FramesFit'
<1> DEFINE n == Len(toDevice)
<1>1. /\ \A i \in 1..Len(toHost) : tries <= Age(toHost[i].seq, seq) => tries' <= Age(toHost[i].seq, seq')
      /\ \A j \in 1..n : tries <= Age(toDevice[j].seq, seq) => tries' <= Age(toDevice[j].seq, seq')
  <2>1. \A a, b \in Nat : a <= b => a + 1 <= b + 1
    OBVIOUS
  <2>2. tries \in Nat /\ tries' = tries + 1
    BY SendAges, HostTypes
  <2>3. ASSUME NEW i \in 1..Len(toHost), tries <= Age(toHost[i].seq, seq)
        PROVE  tries' <= Age(toHost[i].seq, seq')
    BY <2>1, <2>2, <2>3, SendAges
  <2>4. ASSUME NEW j \in 1..n, tries <= Age(toDevice[j].seq, seq)
        PROVE  tries' <= Age(toDevice[j].seq, seq')
    BY <2>1, <2>2, <2>4, SendAges
  <2> QED BY <2>3, <2>4
<1>2. RepliesFit'
  BY <1>1, SendAges DEF RepliesFit, Fitting
<1>3. ASSUME NEW j \in 1..Len(toDevice')
      PROVE  (/\ Fitting(toDevice[j].cmd, toDevice[j].seq, toDevice[j].data.idx)
              /\ toDevice[j].data.file = file)'
  <2>1. CASE j \in 1..n
    BY <2>1, <1>1, SendAges DEF FramesFit, Fitting
  <2>2. CASE j = n + 1
    <3>1. phase' = phase /\ idx' = idx /\ (phase = "begin" => idx = 0) /\ (phase = "chunk" => idx < Chunks)
      BY SendAges DEF HostInv
    <3> QED BY <2>2, <3>1, SendAges DEF Fitting
  <2> QED BY <2>1, <2>2, SendAges
<1> QED BY <1>2, <1>3 DEF FramesFit

LEMMA HandledKeepsFit ==
  ASSUME SmpTypeOK, RepliesFit, FramesFit, HandleFrame
  PROVE  RepliesFit' /\ FramesFit'
<1> DEFINE n == Len(toHost)
<1>1. UNCHANGED <<phase, file, idx, tries, seq, ok>>
  BY DEF HandleFrame, host
<1>2. PICK st \in Status :
              toHost' = Append(toHost, [seq |-> toDevice[1].seq, status |-> st,
                                        cmd |-> toDevice[1].cmd, idx |-> toDevice[1].data.idx])
  BY FrameHandled
<1>3. /\ \A i \in 1..Len(toHost') : i \in 1..n \/ i = n + 1
      /\ \A i \in 1..n : toHost'[i] = toHost[i]
      /\ toHost'[n + 1].seq = toDevice[1].seq
      /\ toHost'[n + 1].cmd = toDevice[1].cmd
      /\ toHost'[n + 1].idx = toDevice[1].data.idx
  BY <1>2, LinkTypes
<1>4. 1 \in 1..Len(toDevice)
  BY FrameHandled, LinkTypes, TailIs
<1>5. ASSUME NEW i \in 1..Len(toHost')
      PROVE  Fitting(toHost[i].cmd, toHost[i].seq, toHost[i].idx)'
  <2>1. CASE i \in 1..n
    BY <2>1, <1>1, <1>3 DEF RepliesFit, Fitting
  <2>2. CASE i = n + 1
    BY <2>2, <1>1, <1>3, <1>4 DEF FramesFit, Fitting
  <2> QED BY <2>1, <2>2, <1>3
<1>6. \A j \in 1..Len(toDevice') : j + 1 \in 1..Len(toDevice) /\ toDevice'[j] = toDevice[j + 1]
  BY FrameHandled, LinkTypes, TailIs
<1>7. ASSUME NEW j \in 1..Len(toDevice')
      PROVE  (/\ Fitting(toDevice[j].cmd, toDevice[j].seq, toDevice[j].data.idx)
              /\ toDevice[j].data.file = file)'
  <2>1. j + 1 \in 1..Len(toDevice) /\ toDevice'[j] = toDevice[j + 1]
    BY <1>6
  <2> QED BY <1>1, <2>1 DEF FramesFit, Fitting
<1> QED BY <1>5, <1>7 DEF RepliesFit, FramesFit

LEMMA FitStep ==
  ASSUME SmpTypeOK, InOrder, Recent, HostInv, RepliesFit, FramesFit, SmpNext \/ UNCHANGED smpVars
  PROVE  RepliesFit' /\ FramesFit'
<1>1. CASE Len(toHost') = 0 /\ Len(toDevice') = 0
  BY <1>1 DEF RepliesFit, FramesFit
<1> QED BY <1>1, SendKeepsFit, HandledKeepsFit, FailKeepsFit, DropKeepsFit, OtherSteps

-----------------------------------------------------------------------------
(* The types, in the parts the provers take one at a time.                 *)

HostTypeOK == /\ phase \in Phases /\ file \in 1..Files /\ idx \in 0..Chunks
              /\ tries \in 0..(Retries + 1) /\ seq \in SeqNo
LinkTypeOK == /\ toDevice \in Seq(Frame) /\ toHost \in Seq(Reply)
              /\ losses \in 0..LossMax /\ damages \in 0..DamageMax
CardTypeOK == /\ upload \in [file : 0..Files, next : 0..(Chunks + 1), sum : Seq(Chunk)]
              /\ store \in [1..Files -> Seq(Chunk)] /\ cut \subseteq 1..Files
FlagTypeOK == waiting \in BOOLEAN /\ ok \in BOOLEAN /\ open \in BOOLEAN

LEMMA TypeParts == SmpTypeOK <=> HostTypeOK /\ LinkTypeOK /\ CardTypeOK /\ FlagTypeOK
  BY DEF SmpTypeOK, HostTypeOK, LinkTypeOK, CardTypeOK, FlagTypeOK, SeqNo

LEMMA HostTypeStep ==
  ASSUME SmpTypeOK, HostInv, SmpNext \/ UNCHANGED smpVars
  PROVE  HostTypeOK'
<1>1. HostTypeOK
  BY TypeParts
<1>2. CASE UNCHANGED host
  BY <1>1, <1>2 DEF host, HostTypeOK
<1>3. CASE SendCommand
  <2>1. tries < Attempts /\ tries' = tries + 1 /\ UNCHANGED <<phase, file, idx>> /\ seq' = NextSeq(seq)
    BY <1>3 DEF SendCommand, HostInv
  <2>2. tries' \in 0..(Retries + 1)
    BY <2>1, HostTypes, AttemptsPositive
  <2>3. seq' \in SeqNo
    BY <2>1, LinkTypes, NextSeqIs
  <2> QED BY <1>1, <2>1, <2>2, <2>3 DEF HostTypeOK
<1>4. CASE AttemptFails /\ tries < Attempts
  BY <1>1, <1>4 DEF AttemptFails, HostTypeOK
<1>5. CASE Fail /\ seq' = seq
  <2>1. phase' \in Phases /\ UNCHANGED <<file, idx>> /\ tries' = 0
    BY <1>5, FailGoes DEF Phases
  <2>2. tries' \in 0..(Retries + 1)
    BY <2>1, UploadAssumption
  <2> QED BY <1>1, <1>5, <2>1, <2>2 DEF HostTypeOK
<1>6. CASE ReadReply /\ Proceed
  <2>1. phase # "over" /\ seq' = seq
    BY <1>6 DEF ReadReply, HostInv
  <2>2. phase' \in Phases /\ tries' = 0
    BY <1>6, <2>1, HostTypes DEF Proceed, Goto, Phases
  <2>3. tries' \in 0..(Retries + 1)
    BY <2>2, UploadAssumption
  <2>4. \/ file' = file /\ idx' \in {0, idx}
        \/ file' = file /\ phase = "chunk" /\ idx' = idx + 1
        \/ file # Files /\ file' = file + 1 /\ idx' = 0
    BY <1>6, <2>1, HostTypes DEF Proceed, Goto, Phases
  <2>5. phase = "chunk" => idx < Chunks
    BY DEF HostInv
  <2>6. file' \in 1..Files /\ idx' \in 0..Chunks
    BY <2>4, <2>5, HostTypes
  <2> QED BY <1>1, <2>1, <2>2, <2>3, <2>6 DEF HostTypeOK
<1> QED
  BY <1>2, <1>3, <1>4, <1>5, <1>6
  DEF SmpNext, smpVars, AttemptFails, ReadReply, Interrupt, LoseCommand, LoseReply, DamageChunk,
      HandleFrame, SessionEnds, host

LEMMA FlagTypeStep ==
  ASSUME SmpTypeOK, HostInv, SmpNext \/ UNCHANGED smpVars
  PROVE  FlagTypeOK'
<1>1. FlagTypeOK
  BY TypeParts
<1>2. waiting' \in BOOLEAN /\ ok' \in BOOLEAN
  <2>1. CASE Fail
    BY <2>1, FailGoes
  <2>2. CASE ReadReply /\ Proceed /\ UNCHANGED ok
    <3>1. phase # "over"
      BY <2>2 DEF ReadReply, HostInv
    <3> QED BY <1>1, <2>2, <3>1, HostTypes DEF Proceed, Goto, FlagTypeOK, Phases
  <2>3. CASE SendCommand \/ UNCHANGED <<waiting, ok>> \/ (waiting' = FALSE /\ UNCHANGED ok)
    BY <1>1, <2>3 DEF SendCommand, FlagTypeOK
  <2> QED
    BY <2>1, <2>2, <2>3
    DEF SmpNext, smpVars, AttemptFails, ReadReply, Interrupt, LoseCommand, LoseReply, DamageChunk,
        HandleFrame, SessionEnds, host
<1>3. open' \in BOOLEAN
  BY <1>1 DEF SmpNext, smpVars, SendCommand, AttemptFails, ReadReply, Interrupt, LoseCommand, LoseReply,
        DamageChunk, HandleFrame, SessionEnds, device, FlagTypeOK
<1> QED BY <1>2, <1>3 DEF FlagTypeOK

LEMMA LinkTypeStep ==
  ASSUME SmpTypeOK, HostInv, SmpNext \/ UNCHANGED smpVars
  PROVE  LinkTypeOK'
<1>1. LinkTypeOK
  BY TypeParts
<1>2. losses' \in 0..LossMax /\ damages' \in 0..DamageMax
  <2>1. \/ UNCHANGED losses
        \/ losses < LossMax /\ losses' = losses + 1
    BY DEF SmpNext, smpVars, SendCommand, AttemptFails, ReadReply, Interrupt, LoseCommand, LoseReply,
        DamageChunk, HandleFrame, SessionEnds, link
  <2>2. \/ UNCHANGED damages
        \/ damages < DamageMax /\ damages' = damages + 1
    BY DEF SmpNext, smpVars, SendCommand, AttemptFails, ReadReply, Interrupt, LoseCommand, LoseReply,
        DamageChunk, HandleFrame, SessionEnds, link
  <2>3. losses \in 0..LossMax /\ damages \in 0..DamageMax
    BY <1>1 DEF LinkTypeOK
  <2> QED BY <2>1, <2>2, <2>3, LinkAssumption
<1>3. toDevice' \in Seq(Frame) /\ toHost' \in Seq(Reply)
  <2>1. CASE UNCHANGED <<toDevice, toHost>>
    BY <2>1, LinkTypes
  <2>2. CASE SendCommand
    <3> DEFINE new == [cmd |-> phase, seq |-> seq',
                       data |-> [file |-> file, idx |-> idx + 1, good |-> TRUE]]
    <3>1. seq' \in SeqNo /\ toDevice' = Append(toDevice, new) /\ toHost' = toHost
      BY <2>2, LinkTypes, NextSeqIs DEF SendCommand
    <3>2. phase \in Phases /\ file \in 1..Files /\ idx + 1 \in 1..(Chunks + 1)
      BY HostTypes
    <3>3. new \in Frame
      BY <3>1, <3>2 DEF Frame, SeqNo
    <3> HIDE DEF new
    <3>4. toDevice \in Seq(Frame) /\ toHost \in Seq(Reply)
      BY LinkTypes
    <3> QED BY <3>1, <3>3, <3>4, AppendIs
  <2>3. CASE LoseCommand \/ LoseReply \/ ReadReply
    <3>1. \/ toDevice # <<>> /\ toDevice' = Tail(toDevice) /\ toHost' = toHost
          \/ toHost # <<>> /\ toHost' = Tail(toHost) /\ toDevice' = toDevice
      BY <2>3 DEF LoseCommand, LoseReply, ReadReply
    <3>2. toDevice \in Seq(Frame) /\ toHost \in Seq(Reply)
      BY LinkTypes
    <3>3. CASE toDevice # <<>> /\ toDevice' = Tail(toDevice) /\ toHost' = toHost
      BY <3>2, <3>3, TailIs
    <3>4. CASE toHost # <<>> /\ toHost' = Tail(toHost) /\ toDevice' = toDevice
      BY <3>2, <3>4, TailIs
    <3> QED BY <3>1, <3>3, <3>4
  <2>4. CASE DamageChunk
    <3>1. toDevice # <<>> /\ toHost' = toHost
      BY <2>4 DEF DamageChunk
    <3>2. toDevice' = [toDevice EXCEPT ![1] = [toDevice[1] EXCEPT !.data.good = FALSE]]
      BY <2>4 DEF DamageChunk
    <3>3. toDevice[1] \in Frame /\ 1 \in DOMAIN toDevice
      BY <3>1, LinkTypes, TailIs
    <3>4. [toDevice[1] EXCEPT !.data.good = FALSE] \in Frame
      BY <3>3 DEF Frame
    <3>5. toDevice \in Seq(Frame) /\ toHost \in Seq(Reply)
      BY LinkTypes
    <3>6. 1 \in 1..Len(toDevice)
      BY <3>1, LinkTypes, TailIs
    <3> QED BY <3>1, <3>2, <3>4, <3>5, <3>6, ExceptIs
  <2>5. CASE HandleFrame
    <3>1. PICK st \in Status :
              toHost' = Append(toHost, [seq |-> toDevice[1].seq, status |-> st,
                                        cmd |-> toDevice[1].cmd, idx |-> toDevice[1].data.idx])
      BY <2>5, FrameHandled
    <3>2. [seq |-> toDevice[1].seq, status |-> st, cmd |-> toDevice[1].cmd, idx |-> toDevice[1].data.idx] \in Reply
      BY <2>5, FrameHandled DEF Frame, Reply, Status
    <3>3. toDevice \in Seq(Frame) /\ toHost \in Seq(Reply)
      BY LinkTypes
    <3>4. toDevice # <<>> /\ toDevice' = Tail(toDevice)
      BY <2>5, FrameHandled
    <3> QED BY <3>1, <3>2, <3>3, <3>4, TailIs, AppendIs
  <2> QED
    BY <2>1, <2>2, <2>3, <2>4, <2>5
    DEF SmpNext, smpVars, AttemptFails, Interrupt, SessionEnds, link
<1> QED BY <1>2, <1>3 DEF LinkTypeOK

-----------------------------------------------------------------------------
(* The device.                                                             *)

InPlace(f, s) == \A i \in 1..Len(s) : s[i].file = f /\ s[i].idx = i

\* The upload is of the host's file, and its checksum is of what is stored.
UploadInv == upload # NoXfer =>
  /\ upload.file = file /\ upload.next = Len(upload.sum) + 1
  /\ store[file] = upload.sum /\ InPlace(file, upload.sum) /\ file \notin cut

ClosedInv == open \/ upload = NoXfer

\* A file as it was sent, on a card s where the files in c were cut.
Sent(f, s, c) == IF f \in c THEN s[f] \in Beginnings(Data(f)) ELSE s[f] = Data(f)

\* An upload whose end was answered with OK is over, and its file is as it was sent.
EndInv ==
  phase = "end" =>
    \A i \in 1..Len(toHost) :
      toHost[i].status = "OK" => upload = NoXfer /\ Sent(file, store, cut)

\* The sender's chunk is the next one the device expects or the last one it has.
NextInv ==
  /\ phase \in {"begin", "chunk"} => upload = NoXfer \/ upload.next \in {idx + 1, idx + 2}
  /\ \A j \in 1..Len(toDevice) :
       toDevice[j].cmd = "chunk" => upload = NoXfer \/ upload.next \in {idx + 1, idx + 2}
  /\ phase = "chunk" =>
       \A i \in 1..Len(toHost) : toHost[i].status = "OK" => upload = NoXfer \/ upload.next = idx + 2

NewReply == toHost'[Len(toHost) + 1]

LEMMA PlaceOne ==
  ASSUME NEW f, NEW s \in Seq(Chunk), NEW c \in Chunk, InPlace(f, s), c.file = f, c.idx = Len(s) + 1
  PROVE  Append(s, c) \in Seq(Chunk) /\ InPlace(f, Append(s, c)) /\ Len(Append(s, c)) = Len(s) + 1
<1>1. /\ Append(s, c) \in Seq(Chunk) /\ Len(s) \in Nat /\ Len(Append(s, c)) = Len(s) + 1
      /\ \A i \in 1..Len(s) : Append(s, c)[i] = s[i]
      /\ Append(s, c)[Len(s) + 1] = c
  BY AppendIs
<1>2. \A i \in 1..Len(Append(s, c)) : i \in 1..Len(s) \/ i = Len(s) + 1
  BY <1>1
<1> QED BY <1>1, <1>2 DEF InPlace

\* The replies after a frame is handled: one more, for the frame at the head.
LEMMA NewReplyIs ==
  ASSUME SmpTypeOK, HandleFrame
  PROVE  /\ Len(toHost) \in Nat /\ Len(toHost') = Len(toHost) + 1
         /\ \A i \in 1..Len(toHost') : i \in 1..Len(toHost) \/ i = Len(toHost) + 1
         /\ \A i \in 1..Len(toHost) : toHost'[i] = toHost[i]
         /\ NewReply.cmd = toDevice[1].cmd
         /\ \A st \in Status : Answer(toDevice[1], st) => NewReply.status = st
         /\ 1 \in 1..Len(toDevice) /\ toDevice[1] \in Frame
         /\ \A j \in 1..Len(toDevice') : j + 1 \in 1..Len(toDevice) /\ toDevice'[j] = toDevice[j + 1]
<1>1. PICK st \in Status :
              toHost' = Append(toHost, [seq |-> toDevice[1].seq, status |-> st,
                                        cmd |-> toDevice[1].cmd, idx |-> toDevice[1].data.idx])
  BY FrameHandled
<1>2. /\ Len(toHost) \in Nat /\ Len(toHost') = Len(toHost) + 1
      /\ \A i \in 1..Len(toHost) : toHost'[i] = toHost[i]
      /\ NewReply = [seq |-> toDevice[1].seq, status |-> st,
                     cmd |-> toDevice[1].cmd, idx |-> toDevice[1].data.idx]
  BY <1>1, LinkTypes DEF NewReply
<1>3. \A i \in 1..Len(toHost') : i \in 1..Len(toHost) \/ i = Len(toHost) + 1
  BY <1>2
<1>4. ASSUME NEW s \in Status, Answer(toDevice[1], s) PROVE NewReply.status = s
  <2>1. toHost' = Append(toHost, [seq |-> toDevice[1].seq, status |-> s,
                                  cmd |-> toDevice[1].cmd, idx |-> toDevice[1].data.idx])
    BY <1>4 DEF Answer
  <2> QED BY <2>1, LinkTypes DEF NewReply
<1>5. 1 \in 1..Len(toDevice) /\ toDevice[1] \in Frame
  BY FrameHandled, LinkTypes, TailIs
<1>6. \A j \in 1..Len(toDevice') : j + 1 \in 1..Len(toDevice) /\ toDevice'[j] = toDevice[j + 1]
  BY FrameHandled, LinkTypes, TailIs
<1> QED BY <1>2, <1>3, <1>4, <1>5, <1>6

\* What the handlers do with a frame, by outcome.
Unmoved == UNCHANGED <<upload, store, cut>>
Refused == Unmoved /\ NewReply.status # "OK"
Began(f) == /\ f.cmd = "begin" /\ upload = NoXfer
            /\ upload' = [file |-> f.data.file, next |-> 1, sum |-> <<>>]
            /\ store' = [store EXCEPT ![f.data.file] = <<>>]
            /\ cut' = cut \ {f.data.file}
Stored(f) == /\ f.cmd = "chunk" /\ upload # NoXfer /\ IsExpected(f)
             /\ upload' = [upload EXCEPT !.next = @ + 1, !.sum = Append(@, f.data)]
             /\ store' = Written(f.data) /\ cut' = cut /\ NewReply.status = "OK"
Broken(f) == /\ f.cmd = "chunk" /\ upload # NoXfer /\ IsExpected(f)
             /\ upload' = NoXfer /\ NewReply.status = "IO"
             /\ \/ CloseUpload
                \/ store' = Written([f.data EXCEPT !.good = FALSE]) /\ cut' = cut
Repeated(f) == /\ f.cmd = "chunk" /\ upload # NoXfer /\ IsRepeated(f)
               /\ Unmoved /\ NewReply.status = "OK"
Abandoned(f) == /\ f.cmd = "chunk" /\ upload # NoXfer /\ ~IsExpected(f) /\ ~IsRepeated(f)
                /\ upload' = NoXfer /\ CloseUpload /\ NewReply.status # "OK"
Ended(f) == /\ f.cmd = "end" /\ upload # NoXfer /\ upload' = NoXfer /\ CloseUpload
            /\ NewReply.status = "OK" => upload.sum = Data(f.data.file)
Closed(f) == f.cmd = "bye" /\ upload' = NoXfer /\ CloseUpload

LEMMA Outcomes ==
  ASSUME SmpTypeOK, ClosedInv, HandleFrame, NEW f, f = toDevice[1]
  PROVE  /\ \/ Refused \/ Began(f) \/ Stored(f) \/ Broken(f)
            \/ Repeated(f) \/ Abandoned(f) \/ Ended(f) \/ Closed(f)
         /\ Refused /\ f.cmd = "chunk" => upload = NoXfer
         /\ UNCHANGED host
<1>1. \A st \in Status : Answer(f, st) => NewReply.status = st
  BY NewReplyIs
<1>2. Head(toDevice) = f
  BY FrameHandled
<1>3. CASE ~open
  <2>1. Answer(f, "NO_SESSION") /\ UNCHANGED device
    BY <1>2, <1>3 DEF HandleFrame
  <2> QED BY <1>1, <1>3, <2>1 DEF Refused, Unmoved, Status, device, card, ClosedInv, HandleFrame
<1>4. CASE open /\ f.cmd = "begin"
  <2>1. UploadBegin(f)
    BY <1>2, <1>4 DEF HandleFrame
  <2> QED BY <1>1, <1>4, <2>1 DEF UploadBegin, Refuse, Refused, Unmoved, Began, Status, card, HandleFrame
<1>5. CASE open /\ f.cmd = "chunk"
  <2>1. UploadChunk(f)
    BY <1>2, <1>5 DEF HandleFrame
  <2> QED BY <1>1, <1>5, <2>1 DEF UploadChunk, Refuse, Refused, Unmoved, Stored, Broken,
        Repeated, Abandoned, CloseUpload, Status, card, HandleFrame
<1>6. CASE open /\ f.cmd = "end"
  <2>1. UploadEnd(f)
    BY <1>2, <1>6 DEF HandleFrame
  <2> QED BY <1>1, <1>6, <2>1 DEF UploadEnd, SumMatches, Refuse, Refused, Unmoved, Ended,
        CloseUpload, Status, card, HandleFrame
<1>7. CASE open /\ f.cmd = "bye"
  BY <1>2, <1>7 DEF HandleFrame, Closed, CloseUpload, Refused
<1> QED BY <1>2, <1>3, <1>4, <1>5, <1>6, <1>7 DEF HandleFrame

LEMMA CardTypes ==
  ASSUME SmpTypeOK
  PROVE  /\ upload \in [file : 0..Files, next : 0..(Chunks + 1), sum : Seq(Chunk)]
         /\ upload.sum \in Seq(Chunk) /\ upload.next \in Nat
         /\ store \in [1..Files -> Seq(Chunk)] /\ cut \subseteq 1..Files /\ file \in 1..Files
         /\ NoXfer \in [file : 0..Files, next : 0..(Chunks + 1), sum : Seq(Chunk)]
<1>1. CardTypeOK /\ HostTypeOK
  BY TypeParts
<1>2. 0 \in 0..Files /\ 0 \in 0..(Chunks + 1) /\ 0..(Chunks + 1) \subseteq Nat
  BY UploadAssumption
<1> QED BY <1>1, <1>2 DEF CardTypeOK, HostTypeOK, NoXfer

LEMMA StoredIs ==
  ASSUME SmpTypeOK
  PROVE  StoredInPlace <=> \A f \in 1..Files : store[f] = OldFile \/ InPlace(f, store[f])
<1>1. \A f \in 1..Files : DOMAIN store[f] = 1..Len(store[f])
  BY CardTypes
<1> QED BY <1>1 DEF StoredInPlace, InPlace

\* The frame at the head belongs to the host's chunk.
LEMMA HeadFits ==
  ASSUME SmpTypeOK, FramesFit, HandleFrame, NEW f, f = toDevice[1]
  PROVE  /\ Fitting(f.cmd, f.seq, f.data.idx) /\ f.data.file = file /\ f \in Frame
         /\ f.cmd = "chunk" => f.data \in Chunk /\ [f.data EXCEPT !.good = FALSE] \in Chunk
<1>1. Fitting(f.cmd, f.seq, f.data.idx) /\ f.data.file = file /\ f \in Frame
  BY NewReplyIs DEF FramesFit
<1>2. ASSUME f.cmd = "chunk" PROVE f.data.idx \in 0..Chunks /\ f.data.file \in 0..Files
  <2>1. f.data.idx = idx + 1 /\ idx < Chunks
    BY <1>1, <1>2 DEF Fitting
  <2> QED BY <1>1, <2>1, HostTypes
<1>3. f.data \in [file : 1..Files, idx : 1..(Chunks + 1), good : BOOLEAN]
  BY <1>1 DEF Frame
<1>4. ASSUME f.cmd = "chunk" PROVE f.data \in Chunk
  BY <1>2, <1>3, <1>4 DEF Chunk
<1>5. ASSUME f.cmd = "chunk" PROVE [f.data EXCEPT !.good = FALSE] \in Chunk
  BY <1>4, <1>5 DEF Chunk
<1> QED BY <1>1, <1>4, <1>5

LEMMA BeginningIs ==
  ASSUME NEW s \in Seq(Chunk), NEW t \in Beginnings(s)
  PROVE  /\ t \in Seq(Chunk) /\ Len(t) \in Nat /\ Len(t) <= Len(s)
         /\ \A i \in 1..Len(t) : t[i] = s[i]
<1>1. PICK n \in 0..(Len(s) - 1) : t = SubSeq(s, 1, n)
  BY DEF Beginnings
<1>2. Len(s) \in Nat /\ n \in Nat /\ n <= Len(s)
  BY <1>1
<1> QED BY <1>1, <1>2

\* The beginning of a beginning is a beginning.
LEMMA BeginningOfBeginning ==
  ASSUME NEW d \in Seq(Chunk), NEW s \in Beginnings(d), NEW t \in Beginnings(s)
  PROVE  t \in Beginnings(d)
<1>1. PICK n \in 0..(Len(d) - 1) : s = SubSeq(d, 1, n)
  BY DEF Beginnings
<1>2. Len(d) \in Nat /\ n \in Nat /\ n <= Len(d) /\ Len(s) = n
  BY <1>1
<1>3. PICK m \in 0..(Len(s) - 1) : t = SubSeq(s, 1, m)
  BY DEF Beginnings
<1>4. m \in 0..(Len(d) - 1)
  BY <1>2, <1>3
<1>5. SubSeq(s, 1, m) = SubSeq(d, 1, m)
  BY <1>1, <1>2, <1>3
<1> QED BY <1>3, <1>4, <1>5 DEF Beginnings

LEMMA DataIs == ASSUME NEW f \in 1..Files PROVE Data(f) \in Seq(Chunk)
<1>1. Chunks \in Nat /\ f \in 0..Files
  BY UploadAssumption
<1>2. \A i \in 1..Chunks : [file |-> f, idx |-> i, good |-> TRUE] \in Chunk
  BY <1>1 DEF Chunk
<1>3. Data(f) \in [1..Chunks -> Chunk]
  BY <1>2 DEF Data
<1> QED BY <1>1, <1>3

\* A file that is closed keeps what it has, or its beginning.
LEMMA CloseKeeps ==
  ASSUME SmpTypeOK, UploadInv, StoredInPlace, CloseUpload
  PROVE  /\ upload' = NoXfer /\ CardTypeOK'
         /\ \A g \in 1..Files : store'[g] = OldFile \/ InPlace(g, store'[g])
         /\ \A g \in 1..Files : g # file => store'[g] = store[g] /\ (g \in cut' <=> g \in cut)
         /\ \A g \in 1..Files : Sent(g, store, cut) => Sent(g, store', cut')
<1>1. \A g \in 1..Files : store[g] = OldFile \/ InPlace(g, store[g])
  BY StoredIs
<1>2. CASE UNCHANGED card
  BY <1>1, <1>2, CardTypes DEF card, CloseUpload, CardTypeOK
<1>3. CASE upload # NoXfer /\ cut' = cut \union {upload.file}
           /\ \E s \in Beginnings(store[upload.file]) : store' = [store EXCEPT ![upload.file] = s]
  <2>1. upload.file = file /\ InPlace(file, store[file])
    BY <1>3 DEF UploadInv
  <2>2. PICK s \in Beginnings(store[file]) : store' = [store EXCEPT ![file] = s]
    BY <1>3, <2>1
  <2>3. store[file] \in Seq(Chunk) /\ file \in 1..Files
    BY CardTypes
  <2>4. /\ s \in Seq(Chunk) /\ Len(s) \in Nat /\ Len(s) <= Len(store[file])
        /\ \A i \in 1..Len(s) : s[i] = store[file][i]
    BY <2>2, <2>3, BeginningIs
  <2>5. InPlace(file, s)
    <3>1. Len(store[file]) \in Nat
      BY <2>3
    <3> QED BY <2>1, <2>4, <3>1 DEF InPlace
  <2>6. /\ store' \in [1..Files -> Seq(Chunk)] /\ store'[file] = s
        /\ \A g \in 1..Files : g # file => store'[g] = store[g]
    BY <2>2, <2>3, <2>4, CardTypes
  <2>7. upload' = NoXfer /\ cut' = cut \union {file} /\ cut' \subseteq 1..Files
    BY <1>3, <2>1, <2>3, CardTypes DEF CloseUpload
  <2>8. ASSUME NEW g \in 1..Files, Sent(g, store, cut) PROVE Sent(g, store', cut')
    <3>1. CASE g # file
      BY <2>6, <2>7, <2>8, <3>1 DEF Sent
    <3>2. CASE g = file
      <4>1. store[file] = Data(file) \/ store[file] \in Beginnings(Data(file))
        BY <2>8, <3>2 DEF Sent
      <4>2. s \in Beginnings(Data(file))
        BY <2>2, <2>3, <4>1, DataIs, BeginningOfBeginning
      <4> QED BY <2>6, <2>7, <3>2, <4>2 DEF Sent
    <3> QED BY <3>1, <3>2
  <2> QED BY <1>1, <2>5, <2>6, <2>7, <2>8, CardTypes DEF CardTypeOK
<1> QED BY <1>2, <1>3 DEF CloseUpload

LEMMA HandledCard ==
  ASSUME SmpTypeOK, FramesFit, ClosedInv, UploadInv, StoredInPlace, HandleFrame
  PROVE  /\ CardTypeOK' /\ UploadInv'
         /\ \A g \in 1..Files : store'[g] = OldFile \/ InPlace(g, store'[g])
         /\ \A g \in 1..Files : g # file => store'[g] = store[g] /\ (g \in cut' <=> g \in cut)
<1> DEFINE f == toDevice[1]
<1>1. /\ \/ Refused \/ Began(f) \/ Stored(f) \/ Broken(f)
         \/ Repeated(f) \/ Abandoned(f) \/ Ended(f) \/ Closed(f)
      /\ file' = file
  BY Outcomes DEF host
<1>2. /\ Fitting(f.cmd, f.seq, f.data.idx) /\ f.data.file = file
      /\ f.cmd = "chunk" => f.data \in Chunk /\ [f.data EXCEPT !.good = FALSE] \in Chunk
  BY HeadFits
<1>3. \A g \in 1..Files : store[g] = OldFile \/ InPlace(g, store[g])
  BY StoredIs
<1> HIDE DEF f
<1>4. CASE Unmoved
  BY <1>1, <1>3, <1>4, CardTypes DEF Unmoved, CardTypeOK, UploadInv
<1>5. CASE CloseUpload
  BY <1>5, CloseKeeps DEF UploadInv
<1>6. CASE Began(f)
  <2>1. /\ upload' = [file |-> file, next |-> 1, sum |-> <<>>]
        /\ store' = [store EXCEPT ![file] = <<>>] /\ cut' = cut \ {file}
    BY <1>2, <1>6 DEF Began
  <2>2. 1 \in 0..(Chunks + 1) /\ file \in 0..Files /\ file \in 1..Files
    BY HostTypes
  <2>3. <<>> \in Seq(Chunk) /\ InPlace(file, <<>>) /\ Len(<<>>) = 0
    BY DEF InPlace
  <2>4. upload' \in [file : 0..Files, next : 0..(Chunks + 1), sum : Seq(Chunk)]
    BY <2>1, <2>2, <2>3
  <2>5. store' \in [1..Files -> Seq(Chunk)] /\ store'[file] = <<>>
        /\ \A g \in 1..Files : g # file => store'[g] = store[g]
    BY <2>1, <2>2, <2>3, CardTypes
  <2>6. cut' \subseteq 1..Files
    BY <2>1, CardTypes
  <2> QED BY <1>1, <1>3, <2>1, <2>3, <2>4, <2>5, <2>6 DEF CardTypeOK, UploadInv
<1>7. ASSUME f.cmd = "chunk", upload # NoXfer, IsExpected(f), NEW c \in Chunk, c.file = f.data.file, c.idx = f.data.idx,
             store' = Written(c)
      PROVE  /\ store' \in [1..Files -> Seq(Chunk)] /\ store'[file] = Append(upload.sum, c)
             /\ \A g \in 1..Files : g # file => store'[g] = store[g]
             /\ InPlace(file, store'[file]) /\ Len(store'[file]) = Len(upload.sum) + 1
  <2>1. upload.file = file /\ store[file] = upload.sum /\ InPlace(file, upload.sum) /\ c.idx = Len(upload.sum) + 1
    BY <1>7 DEF UploadInv, IsExpected
  <2>2. Append(upload.sum, c) \in Seq(Chunk) /\ InPlace(file, Append(upload.sum, c)) /\ Len(Append(upload.sum, c)) = Len(upload.sum) + 1
    BY <1>2, <1>7, <2>1, PlaceOne, CardTypes
  <2>3. store' = [store EXCEPT ![file] = Append(upload.sum, c)]
    BY <1>7, <2>1 DEF Written
  <2> QED BY <2>2, <2>3, CardTypes
<1>8. CASE Stored(f)
  <2>1. /\ store' \in [1..Files -> Seq(Chunk)] /\ store'[file] = Append(upload.sum, f.data)
        /\ \A g \in 1..Files : g # file => store'[g] = store[g]
        /\ InPlace(file, store'[file]) /\ Len(store'[file]) = Len(upload.sum) + 1
    BY <1>2, <1>7, <1>8 DEF Stored
  <2>2. upload' = [upload EXCEPT !.next = upload.next + 1, !.sum = Append(upload.sum, f.data)]
    BY <1>8 DEF Stored
  <2>3. /\ upload'.file = upload.file /\ upload'.next = upload.next + 1
        /\ upload'.sum = store'[file] /\ upload' = [file |-> upload.file, next |-> upload.next + 1, sum |-> store'[file]]
    BY <2>1, <2>2, CardTypes
  <2>4. upload.file = file /\ upload.next = Len(upload.sum) + 1 /\ upload.next = idx + 1 /\ idx < Chunks
    BY <1>2, <1>8 DEF Stored, IsExpected, UploadInv, Fitting
  <2>5. upload.next + 1 \in 0..(Chunks + 1) /\ file \in 0..Files
    BY <2>4, HostTypes
  <2>6. upload' \in [file : 0..Files, next : 0..(Chunks + 1), sum : Seq(Chunk)]
    BY <2>1, <2>3, <2>4, <2>5, CardTypes
  <2>7. upload'.next = Len(upload'.sum) + 1
    BY <2>1, <2>3, <2>4
  <2>8. cut' = cut /\ cut \subseteq 1..Files /\ file \notin cut
    BY <1>8, CardTypes DEF Stored, UploadInv
  <2> QED BY <1>1, <1>3, <2>1, <2>3, <2>4, <2>6, <2>7, <2>8 DEF CardTypeOK, UploadInv
<1>9. CASE Broken(f)
  <2>1. CASE CloseUpload
    BY <1>5, <2>1
  <2>2. CASE store' = Written([f.data EXCEPT !.good = FALSE]) /\ cut' = cut
    <3>1. PICK c \in Chunk : c.file = f.data.file /\ c.idx = f.data.idx /\ store' = Written(c)
      BY <1>2, <1>9, <2>2 DEF Broken, Chunk
    <3>2. /\ store' \in [1..Files -> Seq(Chunk)]
          /\ \A g \in 1..Files : g # file => store'[g] = store[g]
          /\ InPlace(file, store'[file])
      BY <1>7, <1>9, <3>1 DEF Broken
    <3> QED BY <1>3, <1>9, <2>2, <3>2, CardTypes DEF Broken, CardTypeOK, UploadInv
  <2> QED BY <1>9, <2>1, <2>2 DEF Broken
<1> QED BY <1>1, <1>4, <1>5, <1>6, <1>8, <1>9 DEF Refused, Repeated, Abandoned, Ended, Closed

\* Only a frame or the end of the session changes the card.
LEMMA CardKept ==
  ASSUME SmpTypeOK, SmpNext \/ UNCHANGED smpVars, ~HandleFrame
  PROVE  \/ UNCHANGED <<open, upload, store, cut>>
         \/ CloseUpload /\ upload' = NoXfer /\ UNCHANGED <<phase, file, ok>>
  BY DEF SmpNext, smpVars, SendCommand, AttemptFails, ReadReply, Interrupt, LoseCommand, LoseReply,
         DamageChunk, SessionEnds, CloseUpload, device, card, host

LEMMA AcceptedGoes ==
  ASSUME SmpTypeOK, HostInv, EndInv, NextInv, Accepted
  PROVE  /\ UNCHANGED <<open, upload, store, cut, ok>>
         /\ \/ phase = "begin" /\ phase' \in {"chunk", "end"} /\ file' = file /\ idx' = 0 /\ idx = 0
            \/ /\ phase = "chunk" /\ phase' \in {"chunk", "end"} /\ file' = file /\ idx' = idx + 1
               /\ upload = NoXfer \/ upload.next = idx + 2
            \/ /\ phase = "end" /\ upload = NoXfer /\ Sent(file, store, cut)
               /\ \/ file = Files /\ file' = file /\ phase' = "bye"
                  \/ file # Files /\ file' = file + 1 /\ phase' = "begin" /\ idx' = 0
            \/ phase = "bye" /\ phase' = "over" /\ file' = file
<1>1. phase # "over" /\ (phase = "begin" => idx = 0)
  BY DEF Accepted, ReadReply, HostInv
<1>2. UNCHANGED <<open, upload, store, cut, ok>>
  BY DEF Accepted, ReadReply, device, card
<1>3. CASE phase = "begin"
  BY <1>1, <1>2, <1>3 DEF Accepted, Proceed, Goto
<1>4. CASE phase = "chunk"
  <2>1. phase' \in {"chunk", "end"} /\ file' = file /\ idx' = idx + 1
    BY <1>4 DEF Accepted, Proceed, Goto
  <2>2. upload = NoXfer \/ upload.next = idx + 2
    BY <1>4 DEF Accepted, NextInv
  <2> QED BY <1>2, <1>4, <2>1, <2>2
<1>5. CASE phase = "end"
  <2>1. upload = NoXfer /\ Sent(file, store, cut)
    BY <1>5 DEF Accepted, EndInv
  <2>2. CASE file = Files
    BY <1>2, <1>5, <2>1, <2>2 DEF Accepted, Proceed, Goto
  <2>3. CASE file # Files
    BY <1>2, <1>5, <2>1, <2>3 DEF Accepted, Proceed, Goto
  <2> QED BY <2>2, <2>3
<1>6. CASE phase = "bye"
  BY <1>2, <1>6 DEF Accepted, Proceed, Goto
<1> QED BY <1>1, <1>3, <1>4, <1>5, <1>6, HostTypes DEF Phases

LEMMA TypeStep ==
  ASSUME SmpTypeOK, HostInv, FramesFit, UploadInv, ClosedInv, StoredInPlace, SmpNext \/ UNCHANGED smpVars
  PROVE  SmpTypeOK'
<1>1. HostTypeOK' /\ LinkTypeOK' /\ FlagTypeOK'
  BY HostTypeStep, LinkTypeStep, FlagTypeStep
<1>2. CardTypeOK'
  <2>1. CASE HandleFrame
    BY <2>1, HandledCard
  <2>2. CASE ~HandleFrame
    BY <2>2, CardKept, CloseKeeps, CardTypes DEF CardTypeOK
  <2> QED BY <2>1, <2>2
<1>3. (SmpTypeOK <=> HostTypeOK /\ LinkTypeOK /\ CardTypeOK /\ FlagTypeOK)'
  BY DEF SmpTypeOK, HostTypeOK, LinkTypeOK, CardTypeOK, FlagTypeOK, SeqNo
<1> QED BY <1>1, <1>2, <1>3

LEMMA UploadStep ==
  ASSUME SmpTypeOK, InOrder, HostInv, FramesFit, EndInv, NextInv, UploadInv, ClosedInv, StoredInPlace,
         SmpNext \/ UNCHANGED smpVars
  PROVE  UploadInv' /\ ClosedInv'
<1>1. UploadInv'
  <2>1. CASE HandleFrame
    BY <2>1, HandledCard
  <2>2. CASE ~HandleFrame
    <3>1. CASE file' = file
      BY <2>2, <3>1, CardKept DEF UploadInv
    <3>2. CASE Accepted
      BY <3>2, AcceptedGoes DEF UploadInv
    <3> QED BY <2>2, <3>1, <3>2, OtherSteps, FailGoes DEF SendCommand
  <2> QED BY <2>1, <2>2
<1>2. ClosedInv'
  <2>1. CASE HandleFrame
    <3>1. \/ UNCHANGED <<open, upload>>
          \/ upload' = NoXfer
          \/ open /\ open' = open
      BY <2>1 DEF HandleFrame, CloseUpload, device
    <3> QED BY <3>1 DEF ClosedInv
  <2>2. CASE ~HandleFrame
    BY <2>2, CardKept DEF ClosedInv
  <2> QED BY <2>1, <2>2
<1> QED BY <1>1, <1>2

LEMMA StoredStep ==
  ASSUME SmpTypeOK, SmpTypeOK', FramesFit, UploadInv, ClosedInv, StoredInPlace, SmpNext \/ UNCHANGED smpVars
  PROVE  StoredInPlace'
<1>1. \A g \in 1..Files : store'[g] = OldFile \/ InPlace(g, store'[g])
  <2>1. CASE HandleFrame
    BY <2>1, HandledCard
  <2>2. CASE ~HandleFrame
    BY <2>2, CardKept, CloseKeeps, StoredIs
  <2> QED BY <2>1, <2>2
<1>2. \A f \in 1..Files : DOMAIN store'[f] = 1..Len(store'[f])
  <2>1. store' \in [1..Files -> Seq(Chunk)]
    BY DEF SmpTypeOK
  <2> QED BY <2>1
<1> QED BY <1>1, <1>2 DEF StoredInPlace, InPlace

LEMMA ReportedStep ==
  ASSUME SmpTypeOK, InOrder, HostInv, FramesFit, EndInv, NextInv, UploadInv, ClosedInv, StoredInPlace,
         ReportedIsStored, SmpNext \/ UNCHANGED smpVars
  PROVE  ReportedIsStored'
<1> SUFFICES ASSUME NEW g \in 1..Files, g < file' \/ (phase' \in {"bye", "over"} /\ ok')
             PROVE  Sent(g, store', cut')
  BY DEF ReportedIsStored, AsSent, Sent, Data, Beginnings
<1>0. ReportedIsStored => (g < file \/ (phase \in {"bye", "over"} /\ ok) => Sent(g, store, cut))
  BY DEF ReportedIsStored, AsSent, Sent
<1>1. CASE HandleFrame
  <2>1. UNCHANGED <<phase, file, ok>>
    BY <1>1 DEF HandleFrame, host
  <2>2. Sent(g, store, cut)
    BY <1>0, <2>1
  <2>3. CASE g # file
    BY <1>1, <2>2, <2>3, HandledCard DEF Sent
  <2>4. CASE g = file
    <3>1. phase \in {"bye", "over"} /\ ok
      BY <2>1, <2>4, HostTypes
    <3>2. toDevice[1].cmd = "bye"
      BY <1>1, <3>1, HeadFits DEF Fitting
    <3>3. Unmoved \/ CloseUpload
      BY <1>1, <3>2, Outcomes DEF Refused, Began, Stored, Broken, Repeated, Abandoned, Ended, Closed
    <3>4. CASE Unmoved
      BY <2>2, <3>4 DEF Unmoved
    <3> QED BY <2>2, <3>3, <3>4, CloseKeeps
  <2> QED BY <2>3, <2>4
<1>2. CASE ~HandleFrame /\ CloseUpload /\ UNCHANGED <<phase, file, ok>>
  BY <1>0, <1>2, CloseKeeps
<1>3. CASE ~HandleFrame /\ UNCHANGED <<open, upload, store, cut>>
  <2>1. Sent(g, store', cut') <=> Sent(g, store, cut)
    BY <1>3
  <2>2. CASE UNCHANGED <<phase, file, ok>>
    BY <1>0, <2>1, <2>2
  <2>3. CASE Fail
    BY <1>0, <2>1, <2>3, FailGoes
  <2>4. CASE Accepted
    <3>1. ok' = ok /\ (g < file => Sent(g, store, cut))
      BY <1>0, <2>4, AcceptedGoes
    <3>2. CASE phase \in {"begin", "chunk"}
      BY <2>1, <2>4, <3>1, <3>2, AcceptedGoes
    <3>3. CASE phase = "end"
      <4>1. Sent(file, store, cut) /\ (file' = file + 1 \/ (file' = file /\ file = Files))
        BY <2>4, <3>3, AcceptedGoes
      <4>2. g <= file
        <5>1. file = Files \/ g < file + 1
          BY <2>4, <3>3, AcceptedGoes
        <5> QED BY <5>1, HostTypes
      <4>3. g < file \/ g = file
        BY <4>2, HostTypes
      <4> QED BY <2>1, <3>1, <4>1, <4>3
    <3>4. CASE phase = "bye"
      BY <1>0, <2>1, <2>4, <3>1, <3>4, AcceptedGoes
    <3> QED BY <2>4, <3>2, <3>3, <3>4, AcceptedGoes
  <2> QED BY <1>3, <2>2, <2>3, <2>4, OtherSteps DEF SendCommand
<1> QED BY <1>1, <1>2, <1>3, CardKept

LEMMA EndStep ==
  ASSUME SmpTypeOK, InOrder, HostInv, RepliesFit, FramesFit, EndInv, NextInv, UploadInv, ClosedInv,
         StoredInPlace, SmpNext \/ UNCHANGED smpVars
  PROVE  EndInv'
<1> SUFFICES ASSUME phase' = "end", NEW i \in 1..Len(toHost'), toHost'[i].status = "OK"
             PROVE  upload' = NoXfer /\ Sent(file', store', cut')
  BY DEF EndInv, Sent, Data, Beginnings
<1>1. CASE HandleFrame
  <2> DEFINE f == toDevice[1]
  <2>1. UNCHANGED <<phase, file>> /\ phase = "end"
    BY <1>1 DEF HandleFrame, host
  <2>2. f.cmd = "end" /\ f.data.file = file
    BY <1>1, <2>1, HeadFits DEF Fitting
  <2>3. Refused \/ Ended(f)
    BY <1>1, <2>2, Outcomes DEF Began, Stored, Broken, Repeated, Abandoned, Closed
  <2>4. /\ upload = NoXfer => upload' = NoXfer
        /\ Sent(file, store, cut) => Sent(file, store', cut')
    BY <2>3, CloseKeeps, HostTypes DEF Refused, Unmoved, Ended
  <2>5. CASE i \in 1..Len(toHost)
    BY <1>1, <2>1, <2>4, <2>5, NewReplyIs DEF EndInv
  <2>6. CASE i = Len(toHost) + 1
    <3>1. NewReply.status = "OK"
      BY <2>6 DEF NewReply
    <3>2. Ended(f) /\ ~Refused
      BY <2>3, <3>1 DEF Refused
    <3>3. upload # NoXfer /\ upload' = NoXfer /\ upload.sum = Data(file)
      BY <2>2, <3>1, <3>2 DEF Ended
    <3>4. Sent(file, store, cut)
      BY <3>3 DEF UploadInv, Sent
    <3> QED BY <2>1, <2>4, <3>3, <3>4
  <2> QED BY <1>1, <2>5, <2>6, NewReplyIs
<1>2. CASE UNCHANGED <<phase, file>> /\ ~HandleFrame /\ \E c, d \in {0, 1} : Dropped(c, d)
  <2>1. \E k \in 1..Len(toHost) : toHost[k] = toHost'[i]
    BY <1>2 DEF Dropped
  <2>2. upload = NoXfer /\ Sent(file, store, cut)
    BY <1>2, <2>1 DEF EndInv
  <2>3. CASE UNCHANGED <<upload, store, cut>>
    BY <1>2, <2>2, <2>3
  <2>4. CASE CloseUpload /\ upload' = NoXfer
    BY <1>2, <2>2, <2>4, CloseKeeps, HostTypes
  <2> QED BY <1>2, <2>3, <2>4, CardKept
<1>3. CASE SendCommand
  <2>1. UNCHANGED <<phase, file, toHost, upload, store, cut>>
    BY <1>3 DEF SendCommand, device, card
  <2> QED BY <2>1 DEF EndInv
<1>4. ~Fail
  BY FailGoes
<1>5. CASE Len(toHost') = 0
  BY <1>5
<1> QED BY <1>1, <1>2, <1>3, <1>4, <1>5, OtherSteps

\* The upload the device has open stays within one chunk of the host's.
Near == upload = NoXfer \/ upload.next \in {idx + 1, idx + 2}
Ahead == upload = NoXfer \/ upload.next = idx + 2

LEMMA HandledNext ==
  ASSUME SmpTypeOK, FramesFit, NextInv, ClosedInv, HandleFrame
  PROVE  NextInv' /\ (NewReply.cmd = "chunk" /\ upload # NoXfer => NewReply.status \in {"OK", "IO"})
<1> DEFINE f == toDevice[1]
<1>1. UNCHANGED <<phase, idx>> /\ f \in Frame /\ 1 \in 1..Len(toDevice)
  BY NewReplyIs DEF HandleFrame, host
<1>2. f.cmd = "chunk" => f.data.idx = idx + 1 /\ Near
  BY <1>1, HeadFits DEF Fitting, NextInv, Near
<1>3. f.cmd = "begin" => idx = 0
  BY HeadFits DEF Fitting
<1>4. idx \in Nat /\ upload.next \in Nat
  BY HostTypes, CardTypes
<1>5. ~Abandoned(f)
  <2>1. ASSUME Abandoned(f) PROVE FALSE
    <3>1. f.data.idx = idx + 1 /\ upload.next \in {idx + 1, idx + 2}
      BY <1>2, <2>1 DEF Abandoned, Near
    <3>2. f.data.idx # upload.next /\ (upload.next > 1 => f.data.idx # upload.next - 1)
      BY <2>1 DEF Abandoned, IsExpected, IsRepeated
    <3> QED BY <1>4, <3>1, <3>2
  <2> QED BY <2>1
<1>6. Near => Near'
  <2>1. CASE UNCHANGED upload \/ upload' = NoXfer
    BY <1>1, <2>1 DEF Near
  <2>2. CASE Began(f)
    <3>1. upload'.next = 1 /\ idx = 0
      BY <1>3, <2>2 DEF Began
    <3> QED BY <1>1, <3>1 DEF Near
  <2>3. CASE Stored(f)
    <3>1. upload'.next = upload.next + 1
      BY <2>3, CardTypes DEF Stored
    <3>2. upload.next = idx + 1
      BY <1>2, <2>3 DEF Stored, IsExpected
    <3> QED BY <1>1, <1>4, <3>1, <3>2 DEF Near
  <2> QED BY <2>1, <2>2, <2>3, Outcomes DEF Refused, Unmoved, Broken, Repeated, Abandoned, Ended, Closed
<1>7. f.cmd = "chunk" => (Ahead => Ahead') /\ (NewReply.status = "OK" => Ahead')
  <2> SUFFICES ASSUME f.cmd = "chunk" PROVE (Ahead => Ahead') /\ (NewReply.status = "OK" => Ahead')
    OBVIOUS
  <2>1. CASE Refused
    BY <1>1, <2>1 DEF Refused, Unmoved, Ahead
  <2>2. CASE Broken(f)
    BY <2>2 DEF Broken, Ahead
  <2>3. CASE Stored(f)
    <3>1. upload'.next = upload.next + 1
      BY <2>3, CardTypes DEF Stored
    <3>2. upload.next = idx + 1
      BY <1>2, <2>3 DEF Stored, IsExpected
    <3> QED BY <1>1, <1>4, <3>1, <3>2 DEF Ahead
  <2>4. CASE Repeated(f)
    <3>1. upload.next - 1 = idx + 1
      BY <1>2, <2>4 DEF Repeated, IsRepeated
    <3>2. upload.next = idx + 2 /\ upload' = upload
      BY <1>4, <2>4, <3>1 DEF Repeated, Unmoved
    <3> QED BY <1>1, <3>2 DEF Ahead
  <2> QED BY <1>5, <2>1, <2>2, <2>3, <2>4, Outcomes DEF Began, Ended, Closed
<1>8. phase = "chunk" => f.cmd = "chunk"
  BY HeadFits DEF Fitting
<1>9. NextInv'
  <2>1. phase' \in {"begin", "chunk"} => Near'
    BY <1>1, <1>6 DEF NextInv, Near
  <2>2. ASSUME NEW j \in 1..Len(toDevice'), toDevice'[j].cmd = "chunk" PROVE Near'
    <3>1. Near
      BY <2>2, NewReplyIs DEF NextInv, Near
    <3> QED BY <1>6, <3>1
  <2>3. ASSUME phase' = "chunk", NEW i \in 1..Len(toHost'), toHost'[i].status = "OK" PROVE Ahead'
    <3>1. phase = "chunk" /\ f.cmd = "chunk"
      BY <1>1, <1>8, <2>3
    <3>2. CASE i \in 1..Len(toHost)
      <4>1. toHost[i].status = "OK"
        BY <2>3, <3>2, NewReplyIs
      <4>2. Ahead
        BY <3>1, <3>2, <4>1 DEF NextInv, Ahead
      <4> QED BY <1>7, <3>1, <4>2
    <3>3. CASE i = Len(toHost) + 1
      BY <1>7, <2>3, <3>1, <3>3 DEF NewReply
    <3> QED BY <3>2, <3>3, NewReplyIs
  <2> QED BY <2>1, <2>2, <2>3 DEF NextInv, Near, Ahead
<1>10. NewReply.cmd = "chunk" /\ upload # NoXfer => NewReply.status \in {"OK", "IO"}
  <2>1. NewReply.cmd = f.cmd
    BY NewReplyIs
  <2> QED BY <1>5, <2>1, Outcomes DEF Began, Stored, Broken, Repeated, Ended, Closed
<1> QED BY <1>9, <1>10

LEMMA NextStep ==
  ASSUME SmpTypeOK, InOrder, Recent, HostInv, FramesFit, EndInv, NextInv, ClosedInv,
         SmpNext \/ UNCHANGED smpVars
  PROVE  NextInv'
<1>1. CASE HandleFrame
  BY <1>1, HandledNext
<1>2. CASE SendCommand
  <2>1. UNCHANGED <<phase, idx, toHost, upload>>
    BY <1>2 DEF SendCommand, device
  <2>2. ASSUME NEW j \in 1..Len(toDevice'), toDevice'[j].cmd = "chunk" PROVE Near
    <3>1. CASE j \in 1..Len(toDevice)
      BY <1>2, <2>2, <3>1, SendAges DEF NextInv, Near
    <3>2. CASE j = Len(toDevice) + 1
      <4>1. phase = "chunk"
        BY <1>2, <2>2, <3>2, SendAges
      <4> QED BY <4>1 DEF NextInv, Near
    <3> QED BY <1>2, <3>1, <3>2, SendAges
  <2> QED BY <2>1, <2>2 DEF NextInv, Near
<1>3. CASE ~HandleFrame /\ Fail /\ Dropped(0, 0)
  <2>1. phase' \notin {"begin", "chunk"} /\ idx' = idx
    BY <1>3, FailGoes
  <2>2. upload' = upload \/ upload' = NoXfer
    BY <1>3, CardKept
  <2>3. ASSUME NEW j \in 1..Len(toDevice'), toDevice'[j].cmd = "chunk" PROVE Near
    BY <1>3, <2>3 DEF Dropped, Same, NextInv, Near
  <2> QED BY <2>1, <2>2, <2>3 DEF NextInv, Near
<1>4. CASE ~HandleFrame /\ UNCHANGED <<phase, idx>> /\ \E c, d \in {0, 1} : Dropped(c, d)
  <2>1. upload' = upload \/ upload' = NoXfer
    BY <1>4, CardKept
  <2>2. PICK c, d \in {0, 1} : Dropped(c, d)
    BY <1>4
  <2>3. ASSUME NEW j \in 1..Len(toDevice'), toDevice'[j].cmd = "chunk" PROVE Near
    BY <2>2, <2>3 DEF Dropped, Same, NextInv, Near
  <2>4. ASSUME NEW i \in 1..Len(toHost'), toHost'[i].status = "OK", phase = "chunk" PROVE Ahead
    BY <2>2, <2>4 DEF Dropped, NextInv, Ahead
  <2> QED BY <1>4, <2>1, <2>3, <2>4 DEF NextInv, Near, Ahead
<1>5. CASE Len(toHost') = 0 /\ Len(toDevice') = 0 /\ Fail
  <2>1. phase' \notin {"begin", "chunk"}
    BY <1>5, FailGoes
  <2> QED BY <1>5, <2>1 DEF NextInv
<1>6. CASE Len(toHost') = 0 /\ Len(toDevice') = 0 /\ Accepted
  <2>1. phase' \in {"begin", "chunk"} => Near'
    <3>1. CASE phase = "begin"
      BY <1>6, <3>1, AcceptedGoes DEF Near, NextInv
    <3>2. CASE phase = "chunk"
      <4>1. idx' = idx + 1 /\ (upload = NoXfer \/ upload.next = idx + 2) /\ upload' = upload
        BY <1>6, <3>2, AcceptedGoes
      <4> QED BY <4>1, HostTypes DEF Near
    <3>3. CASE phase \in {"end", "bye"}
      BY <1>6, <3>3, AcceptedGoes DEF Near
    <3> QED BY <1>6, <3>1, <3>2, <3>3, AcceptedGoes
  <2> QED BY <1>6, <2>1 DEF NextInv, Near
<1> QED BY <1>1, <1>2, <1>3, <1>4, <1>5, <1>6, OtherSteps

-----------------------------------------------------------------------------
(* The inductive invariant of an upload.                                   *)

TransferInv ==
  /\ SmpTypeOK /\ HostInv
  /\ InOrder /\ Recent /\ RepliesFit /\ FramesFit
  /\ UploadInv /\ ClosedInv /\ EndInv /\ NextInv
  /\ StoredInPlace /\ ReportedIsStored

LEMMA TransferInit == SmpInit => TransferInv
<1> SUFFICES ASSUME SmpInit PROVE TransferInv
  OBVIOUS
<1>1. HostTypeOK
  <2>1. phase \in Phases /\ file = 1 /\ idx = 0 /\ tries = 0 /\ seq = 0
    BY DEF SmpInit, Phases
  <2> QED BY <2>1, UploadAssumption DEF HostTypeOK, SeqNo
<1>2. LinkTypeOK
  <2>1. toDevice = <<>> /\ toHost = <<>> /\ losses = 0 /\ damages = 0
    BY DEF SmpInit
  <2> QED BY <2>1, LinkAssumption DEF LinkTypeOK
<1>3. OldFile \in Seq(Chunk)
  <2>1. [file |-> 0, idx |-> 0, good |-> TRUE] \in Chunk
    BY UploadAssumption DEF Chunk
  <2> QED BY <2>1 DEF OldFile
<1>4. CardTypeOK
  <2>1. upload = NoXfer /\ store = [f \in 1..Files |-> OldFile] /\ cut = {}
    BY DEF SmpInit
  <2>2. 0 \in 0..Files /\ 0 \in 0..(Chunks + 1)
    BY UploadAssumption
  <2> QED BY <1>3, <2>1, <2>2 DEF CardTypeOK, NoXfer
<1>5. FlagTypeOK
  BY DEF SmpInit, FlagTypeOK
<1>6. SmpTypeOK
  BY <1>1, <1>2, <1>4, <1>5, TypeParts
<1>7. HostInv
  <2>1. phase = "begin" /\ idx = 0 /\ tries < Attempts /\ ~waiting
    BY UploadAssumption DEF SmpInit, Attempts
  <2> QED BY <2>1 DEF HostInv
<1>8. InOrder /\ Recent /\ RepliesFit /\ FramesFit
  <2>1. Len(toDevice) = 0 /\ Len(toHost) = 0
    BY DEF SmpInit
  <2> QED BY <2>1 DEF InOrder, Recent, RepliesFit, FramesFit
<1>9. UploadInv /\ ClosedInv /\ EndInv /\ NextInv
  <2>1. upload = NoXfer /\ Len(toDevice) = 0 /\ Len(toHost) = 0 /\ phase = "begin"
    BY DEF SmpInit
  <2> QED BY <2>1 DEF UploadInv, ClosedInv, EndInv, NextInv
<1>10. StoredInPlace
  BY DEF SmpInit, StoredInPlace
<1>11. ReportedIsStored
  <2>1. file = 1 /\ phase = "begin"
    BY DEF SmpInit
  <2> QED BY <2>1 DEF ReportedIsStored
<1> QED BY <1>6, <1>7, <1>8, <1>9, <1>10, <1>11 DEF TransferInv

LEMMA TransferStep == TransferInv /\ [SmpNext]_smpVars => TransferInv'
<1> SUFFICES ASSUME TransferInv, SmpNext \/ UNCHANGED smpVars PROVE TransferInv'
  OBVIOUS
<1> USE DEF TransferInv
<1>1. SmpTypeOK' /\ HostInv'
  <2>1. HostInv'
    BY HostStep DEF HostInv, Attempts, smpVars, host
  <2> QED BY <2>1, TypeStep
<1>2. InOrder' /\ Recent'
  BY RecentStep
<1>3. RepliesFit' /\ FramesFit'
  BY FitStep
<1>4. UploadInv' /\ ClosedInv'
  BY UploadStep
<1>5. EndInv'
  BY EndStep
<1>6. NextInv'
  BY NextStep
<1>7. StoredInPlace'
  BY <1>1, StoredStep
<1>8. ReportedIsStored'
  BY ReportedStep
<1> QED BY <1>1, <1>2, <1>3, <1>4, <1>5, <1>6, <1>7, <1>8

LEMMA NoReplyIsAliased == TransferInv => NoAliasedReply
<1> SUFFICES ASSUME TransferInv, waiting, NEW i \in 1..Len(toHost), toHost[i].seq = seq
             PROVE  toHost[i].cmd = phase /\ toHost[i].idx = idx + 1
  <2>1. TransferInv => DOMAIN toHost = 1..Len(toHost)
    BY LinkTypes DEF TransferInv
  <2> QED BY <2>1 DEF NoAliasedReply
<1>1. Age(toHost[i].seq, seq) = 0
  BY LinkTypes, AgeZero DEF TransferInv
<1>2. phase # "over" /\ 1 <= tries
  BY DEF TransferInv, HostInv
<1>3. ~(tries <= Age(toHost[i].seq, seq))
  BY <1>1, <1>2, HostTypes DEF TransferInv
<1>4. Fitting(toHost[i].cmd, toHost[i].seq, toHost[i].idx)
  BY DEF TransferInv, RepliesFit
<1> QED BY <1>2, <1>3, <1>4 DEF Fitting

LEMMA NoChunkRefused ==
  ASSUME TransferInv, SmpNext \/ UNCHANGED smpVars, upload # NoXfer, Len(toHost') > Len(toHost),
         toHost'[Len(toHost')].cmd = "chunk"
  PROVE  toHost'[Len(toHost')].status \in {"OK", "IO"}
<1> USE DEF TransferInv
<1>1. CASE HandleFrame
  <2>1. toHost'[Len(toHost')] = NewReply
    BY <1>1, NewReplyIs DEF NewReply
  <2> QED BY <1>1, <2>1, HandledNext
<1>2. CASE ~HandleFrame
  <2>1. CASE SendCommand
    <3>1. ~(Len(toHost) > Len(toHost))
      BY LinkTypes
    <3> QED BY <2>1, <3>1 DEF SendCommand
  <2>2. CASE \E c, d \in {0, 1} : Dropped(c, d)
    <3>1. PICK c, d \in {0, 1} : Dropped(c, d)
      BY <2>2
    <3>2. Len(toHost') = Len(toHost) - c
      BY <3>1 DEF Dropped
    <3> QED BY <3>2, LinkTypes
  <2>3. CASE Len(toHost') = 0
    BY <2>3, LinkTypes
  <2> QED BY <1>2, <2>1, <2>2, <2>3, OtherSteps
<1> QED BY <1>1, <1>2

\* Whatever the link loses, repeats late or damages, every chunk is stored at its
\* place, a file the host reports (upload_file in jppd_upload.py) is on the card
\* undamaged and, unless its closing failed in handle_fs_upload_end, whole, and a
\* late reply is never taken for the answer awaited, for every number of files,
\* chunks, retries and losses and every range of sequence numbers that exceeds the
\* retries by more than two.
THEOREM UploadArrivesWhole == SmpSpec => [](SmpTypeOK /\ UploadIsFaithful)
<1>1. TransferInv => SmpTypeOK /\ UploadIsFaithful
  BY NoReplyIsAliased DEF TransferInv, UploadIsFaithful
<1> QED BY <1>1, TransferInit, TransferStep, PTL DEF SmpSpec

\* While a transfer is open handle_upload_chunk refuses no chunk of this host: it
\* is the one expected or the one before it, which is acknowledged again.
THEOREM RepeatedChunkIsTaken == SmpSpec => LostAckRecovers
<1>1. TransferInv /\ [SmpNext]_smpVars =>
        [(upload # NoXfer /\ Len(toHost') > Len(toHost))
         => LET r == toHost'[Len(toHost')] IN r.cmd = "chunk" => r.status \in {"OK", "IO"}]_smpVars
  BY NoChunkRefused
<1> QED BY <1>1, TransferInit, TransferStep, PTL DEF SmpSpec, LostAckRecovers

-----------------------------------------------------------------------------
(* The four layers together.                                               *)

LayersInv == TypeOK /\ ConsentHandshake /\ TransferInv /\ Owners /\ BodyInv /\ SettingsTypeOK

LEMMA LayersInit == ManagementInit => LayersInv
<1> SUFFICES ASSUME ManagementInit PROVE LayersInv
  OBVIOUS
<1>1. TypeOK /\ ConsentHandshake /\ TransferInv
  BY InitSession, TransferInit DEF ManagementInit
<1>2. Owners /\ BodyInv /\ SettingsTypeOK
  BY OwnersInit, BodyInit, SettingsTypeInit DEF ManagementInit
<1> QED BY <1>1, <1>2 DEF LayersInv

LEMMA LayersStep == LayersInv /\ [ManagementNext]_all => LayersInv'
<1> SUFFICES ASSUME LayersInv, [ManagementNext]_all PROVE LayersInv'
  OBVIOUS
<1>1. [Next]_vars /\ [SmpNext]_smpVars /\ [HttpNext]_httpVars /\ [SettingsNext]_settingsVars
  BY DEF ManagementNext, InSession, InUpload, InHttp, InSettings, all
<1>2. (TypeOK /\ ConsentHandshake /\ TransferInv)'
  BY <1>1, SessionStepTypes, StepKeepsHandshake, TransferStep DEF LayersInv
<1>3. (Owners /\ BodyInv /\ SettingsTypeOK)'
  BY <1>1, StepKeepsOwners, StepKeepsBody, SettingsTypeStep DEF LayersInv
<1> QED BY <1>2, <1>3 DEF LayersInv

\* Every variable of the four layers (jpp_serial_mgr.c, jpp_http_server_core.c and
\* its users, jpp_settings_core.c) keeps its type, whichever of them a behaviour is
\* about, and in each what is proved of it holds: the composition loses nothing.
THEOREM LayersKeepTypes ==
  ManagementSpec => [](ManagementTypeOK /\ ConsentHandshake /\ UploadIsFaithful /\ OwnersAgree)
<1>1. LayersInv => ManagementTypeOK
  BY TypesOfBody DEF LayersInv, TransferInv, ManagementTypeOK
<1>2. LayersInv => ConsentHandshake /\ UploadIsFaithful
  BY NoReplyIsAliased DEF LayersInv, TransferInv, UploadIsFaithful
<1>3. LayersInv => OwnersAgree
  BY AgreeOutside DEF LayersInv
<1> QED BY <1>1, <1>2, <1>3, LayersInit, LayersStep, PTL DEF ManagementSpec
=============================================================================
