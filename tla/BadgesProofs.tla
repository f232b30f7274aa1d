---------------------------- MODULE BadgesProofs ----------------------------
(***************************************************************************)
(* What badges do with each other over Bluetooth, for every number of      *)
(* badges, peers, links, sessions and messages: messages arrive whole, an  *)
(* operation goes on with the answer it waits for, advertising is up when  *)
(* it is wanted, no MeetApp nonce signs two texts, what is saved is what   *)
(* was signed, two badges that look for a game are not both clients, and   *)
(* every variable keeps its type.                                          *)
(***************************************************************************)
EXTENDS MCBadges, TLAPS, FiniteSetTheorems

(***************************************************************************)
(* Messages.  The CRC of a BEGIN speaks for the whole message, so what has *)
(* to be followed through the overwritten buffer and the calls that give   *)
(* up is only where the BEGIN came from: the one in the buffer, and the    *)
(* one a reception began with, are of messages in the history (Known).     *)
(***************************************************************************)

Sent(m) == \E i \in 1..Len(sent) : m = sent[i]

Known ==
  /\ sent \in Seq(Message)
  /\ next # NoFrame => Len(sent) > 0
  /\ next \in 0..NoFrame
  /\ rxBuf.kind = "begin" => Sent(rxBuf.of)
  /\ partial.began => Sent(partial.want)
  /\ received.began => \E i \in 1..Len(sent) : received.pieces = Pieces(sent[i])

-----------------------------------------------------------------------------
\* The history only grows.
LEMMA StillSent ==
  ASSUME sent \in Seq(Message), NEW m \in Message, sent' = Append(sent, m)
  PROVE  /\ sent' \in Seq(Message) /\ Len(sent') > 0
         /\ \A i \in 1..Len(sent) : i \in 1..Len(sent') /\ sent'[i] = sent[i]
  OBVIOUS

LEMMA StartKeepsKnown ==
  ASSUME Known, NEW len \in 0..FrameMax, StartSend(len)
  PROVE  Known'
<1> DEFINE m == [id |-> Len(sent) + 1, len |-> len]
<1>1. m \in Message
  <2>1. Len(sent) \in Nat /\ Len(sent) < MessageMax
    BY DEF StartSend, Known
  <2>2. Len(sent) + 1 \in 1..MessageMax
    BY <2>1, MessageAssumption
  <2> QED BY <2>2 DEF Message
<1>2. /\ sent' \in Seq(Message) /\ Len(sent') > 0
      /\ \A i \in 1..Len(sent) : i \in 1..Len(sent') /\ sent'[i] = sent[i]
  BY <1>1, StillSent DEF StartSend, Known
<1>3. next' = 0 /\ UNCHANGED <<rxBuf, partial, received>>
  BY DEF StartSend
<1>4. NoFrame \in Nat
  BY MessageAssumption DEF NoFrame
<1> QED BY <1>2, <1>3, <1>4 DEF Known, Sent

\* What the host task puts into the buffer is a frame of the message being sent.
LEMMA WriteKeepsKnown ==
  ASSUME Known, WriteFrame \/ WriteFails
  PROVE  Known'
<1>1. next # NoFrame /\ Len(sent) > 0 /\ UNCHANGED <<sent, partial, received>>
  BY DEF WriteFrame, WriteFails, Known
<1>2. rxBuf' = rxBuf \/ rxBuf' = DueFrame
  BY DEF WriteFrame, WriteFails, Deliver
<1>3. DueFrame.kind = "begin" => DueFrame.of = sent[Len(sent)]
  BY DEF DueFrame, BeginFrame, DataFrame, Sending
<1>4. rxBuf'.kind = "begin" => Sent(rxBuf'.of)
  <2>1. Len(sent) \in 1..Len(sent)
    BY <1>1 DEF Known
  <2> QED BY <1>2, <1>3, <2>1 DEF Known, Sent
<1>5. next' \in 0..NoFrame
  <2>1. NoFrame \in Nat /\ next \in 0..NoFrame
    BY MessageAssumption DEF NoFrame, Known
  <2>2. next' \in {NoFrame, next + 1}
    BY DEF WriteFrame, WriteFails
  <2> QED BY <1>1, <2>1, <2>2
<1> QED BY <1>1, <1>4, <1>5 DEF Known, Sent

\* A reception succeeds only with what the CRC of its BEGIN stands for.
LEMMA CopyKeepsKnown ==
  ASSUME Known, CopyFrame
  PROVE  Known'
<1>1. UNCHANGED <<sent, next, rxBuf>>
  BY DEF CopyFrame
<1>2. ASSUME NEW p, Sent(p.want), Complete(p) PROVE Known'
  <2>1. /\ partial' = NoPartial
        /\ received' = received \/ (received' = [began |-> TRUE, pieces |-> p.pieces]
                                      /\ p.pieces = Pieces(p.want))
    BY <1>2 DEF Complete, RecvReturns, CrcMatches
  <2>2. PICK i \in 1..Len(sent) : p.want = sent[i]
    BY <1>2 DEF Sent
  <2>3. received'.began => \E j \in 1..Len(sent) : received'.pieces = Pieces(sent[j])
    BY <2>1, <2>2 DEF Known
  <2> QED BY <1>1, <2>1, <2>3 DEF Known, Sent, NoPartial
<1>3. ASSUME NEW p, p.began => Sent(p.want), GoOn(p), UNCHANGED received PROVE Known'
  BY <1>1, <1>3 DEF GoOn, Known, Sent
<1>4. CASE HandleBegin
  <2>1. Sent(rxBuf.of)
    BY <1>4 DEF HandleBegin, Known
  <2> DEFINE p == [began |-> TRUE, want |-> rxBuf.of, pieces |-> <<>>]
  <2>2. Sent(p.want)
    BY <2>1
  <2>3. Complete(p) \/ (GoOn(p) /\ UNCHANGED received)
    BY <1>4 DEF HandleBegin
  <2> HIDE DEF p
  <2> QED BY <1>2, <1>3, <2>2, <2>3
<1>5. CASE HandleData
  <2>1. CASE GoOn(partial) /\ UNCHANGED received
    BY <1>3, <2>1 DEF Known
  <2>2. CASE RecvReturns /\ UNCHANGED received
    BY <1>1, <2>2 DEF RecvReturns, Known, Sent, NoPartial
  <2>3. CASE partial.began /\ ~(GoOn(partial) /\ UNCHANGED received)
             /\ ~(RecvReturns /\ UNCHANGED received)
    <3> DEFINE p == [partial EXCEPT !.pieces = Append(@, rxBuf.piece)]
    <3>1. p.want = partial.want
      OBVIOUS
    <3>2. Sent(p.want)
      BY <2>3, <3>1 DEF Known
    <3>3. Complete(p) \/ (GoOn(p) /\ UNCHANGED received)
      BY <1>5, <2>3 DEF HandleData
    <3> HIDE DEF p
    <3> QED BY <1>2, <1>3, <3>2, <3>3
  <2>4. partial.began \/ (GoOn(partial) /\ UNCHANGED received)
    BY <1>5 DEF HandleData
  <2> QED BY <2>1, <2>2, <2>3, <2>4
<1>6. CASE HandleEmpty
  BY <1>3, <1>6 DEF HandleEmpty, Known
<1> QED BY <1>4, <1>5, <1>6 DEF CopyFrame

\* Everything else drops what it does not keep.
LEMMA OthersKeepKnown ==
  ASSUME Known, CallRecv \/ TakeToken \/ RecvTimesOut \/ ClearTokens \/ ClearLength
  PROVE  Known'
<1>1. /\ UNCHANGED <<sent, next, received>>
      /\ rxBuf' = rxBuf \/ rxBuf' = EmptyFrame
      /\ partial' = partial \/ partial' = NoPartial
  BY DEF CallRecv, TakeToken, RecvTimesOut, RecvReturns, ClearTokens, ClearLength
<1> QED BY <1>1 DEF Known, Sent, EmptyFrame, NoPartial

LEMMA KnownStep == Known /\ [MsgNext]_msgVars => Known'
<1> SUFFICES ASSUME Known, [MsgNext]_msgVars PROVE Known'
  OBVIOUS
<1>1. CASE UNCHANGED msgVars
  BY <1>1 DEF msgVars, Known, Sent
<1> QED BY <1>1, StartKeepsKnown, WriteKeepsKnown, CopyKeepsKnown, OthersKeepKnown DEF MsgNext

\* What jpp_ble_msg_host_recv returns is one of the messages handed to
\* jpp_ble_msg_send, whole.
THEOREM MessagesArriveWhole == MsgSpec => []ReceivedWasSent
<1>1. MsgInit => Known
  BY MessageAssumption DEF MsgInit, Known, NoFrame, EmptyFrame, NoPartial
<1>2. Known /\ [MsgNext]_msgVars => Known'
  BY KnownStep
<1>3. Known => ReceivedWasSent
  BY DEF Known, ReceivedWasSent, Range
<1> QED BY <1>1, <1>2, <1>3, PTL DEF MsgSpec
-----------------------------------------------------------------------------
\* A reception began with a BEGIN that was in the buffer, and the buffer holds
\* only frames of messages.
MsgTypes ==
  /\ sent \in Seq(Message) /\ Len(sent) <= MessageMax
  /\ rxBuf \in Frame /\ rxReady \in 0..TokenMax
  /\ recv \in {"away", "waiting", "copying", "clearing"}
  /\ partial = NoPartial \/ (partial.began /\ partial.want \in Message)
  /\ received = NoPartial \/ received.began

LEMMA DueIsFrame == Known /\ next # NoFrame => DueFrame \in Frame
<1> SUFFICES ASSUME Known, next # NoFrame PROVE DueFrame \in Frame
  OBVIOUS
<1>1. sent \in Seq(Message) /\ Len(sent) > 0 /\ next \in 0..NoFrame
  BY DEF Known
<1>2. Sending \in Message
  BY <1>1 DEF Sending
<1>3. next # 0 => next - 1 \in 0..FrameMax
  BY <1>1, MessageAssumption DEF NoFrame
<1> QED BY <1>2, <1>3 DEF DueFrame, Frame

LEMMA DeliverKeepsTypes ==
  ASSUME Known, MsgTypes, next # NoFrame, Deliver
  PROVE  rxBuf' \in Frame /\ rxReady' \in 0..TokenMax
<1>1. rxReady \in 0..TokenMax /\ TokenMax = 2
  BY DEF MsgTypes, TokenMax
<1> QED BY <1>1, DueIsFrame DEF Deliver

LEMMA CopyKeepsTypes ==
  ASSUME MsgTypes, CopyFrame
  PROVE  MsgTypes'
<1>1. UNCHANGED <<sent, rxBuf, rxReady>> /\ rxBuf \in Frame
  BY DEF CopyFrame, MsgTypes
<1>2. ASSUME NEW p, Complete(p) PROVE MsgTypes'
  BY <1>1, <1>2 DEF Complete, RecvReturns, MsgTypes
<1>3. ASSUME NEW p, p = NoPartial \/ (p.began /\ p.want \in Message), GoOn(p), UNCHANGED received
      PROVE  MsgTypes'
  BY <1>1, <1>3 DEF GoOn, MsgTypes
<1>4. CASE HandleBegin
  <2>1. rxBuf.kind = "begin"
    BY <1>4 DEF HandleBegin
  <2>2. rxBuf.of \in Message
    BY <1>1, <2>1 DEF Frame, EmptyFrame, BeginFrame, DataFrame
  <2> DEFINE p == [began |-> TRUE, want |-> rxBuf.of, pieces |-> <<>>]
  <2>3. Complete(p) \/ (GoOn(p) /\ UNCHANGED received)
    BY <1>4 DEF HandleBegin
  <2>4. p.began /\ p.want \in Message
    BY <2>2
  <2> HIDE DEF p
  <2> QED BY <1>2, <1>3, <2>3, <2>4
<1>5. CASE HandleData
  <2>1. CASE GoOn(partial) /\ UNCHANGED received
    BY <1>3, <2>1 DEF MsgTypes
  <2>2. CASE RecvReturns /\ UNCHANGED received
    BY <1>1, <2>2 DEF RecvReturns, MsgTypes
  <2>3. CASE partial.began /\ ~(GoOn(partial) /\ UNCHANGED received)
             /\ ~(RecvReturns /\ UNCHANGED received)
    <3> DEFINE p == [partial EXCEPT !.pieces = Append(@, rxBuf.piece)]
    <3>1. p.want = partial.want /\ p.began = partial.began
      OBVIOUS
    <3>2. p.began /\ p.want \in Message
      BY <2>3, <3>1 DEF MsgTypes, NoPartial
    <3>3. Complete(p) \/ (GoOn(p) /\ UNCHANGED received)
      BY <1>5, <2>3 DEF HandleData
    <3> HIDE DEF p
    <3> QED BY <1>2, <1>3, <3>2, <3>3
  <2>4. partial.began \/ (GoOn(partial) /\ UNCHANGED received)
    BY <1>5 DEF HandleData
  <2> QED BY <2>1, <2>2, <2>3, <2>4
<1>6. CASE HandleEmpty
  BY <1>3, <1>6 DEF HandleEmpty, MsgTypes
<1> QED BY <1>4, <1>5, <1>6 DEF CopyFrame

LEMMA MsgTypesStep == Known /\ MsgTypes /\ [MsgNext]_msgVars => MsgTypes'
<1> SUFFICES ASSUME Known, MsgTypes, [MsgNext]_msgVars PROVE MsgTypes'
  OBVIOUS
<1>1. ASSUME NEW len \in 0..FrameMax, StartSend(len) PROVE MsgTypes'
  <2> DEFINE m == [id |-> Len(sent) + 1, len |-> len]
  <2>1. /\ sent \in Seq(Message) /\ Len(sent) < MessageMax /\ sent' = Append(sent, m)
        /\ UNCHANGED <<rxBuf, rxReady, recv, partial, received>>
    BY <1>1 DEF StartSend, MsgTypes
  <2>2. Len(sent) \in Nat /\ Len(sent) + 1 \in 1..MessageMax
    BY <2>1, MessageAssumption
  <2>3. m \in Message
    BY <2>2 DEF Message
  <2> HIDE DEF m
  <2>4. sent' \in Seq(Message) /\ Len(sent') = Len(sent) + 1
    BY <2>1, <2>3
  <2>5. Len(sent') <= MessageMax
    BY <2>2, <2>4
  <2> QED BY <2>1, <2>4, <2>5 DEF MsgTypes
<1>2. CASE WriteFrame \/ WriteFails
  <2>1. /\ next # NoFrame /\ UNCHANGED <<sent, recv, partial, received>>
        /\ Deliver \/ UNCHANGED <<rxBuf, rxReady>>
    BY <1>2 DEF WriteFrame, WriteFails
  <2> QED BY <2>1, DeliverKeepsTypes DEF MsgTypes
<1>3. CASE CallRecv
  BY <1>3 DEF CallRecv, MsgTypes
<1>4. CASE TakeToken
  BY <1>4 DEF TakeToken, MsgTypes, TokenMax
<1>5. CASE CopyFrame
  BY <1>5, CopyKeepsTypes
<1>6. CASE RecvTimesOut
  BY <1>6 DEF RecvTimesOut, RecvReturns, MsgTypes
<1>7. CASE ClearTokens
  BY <1>7 DEF ClearTokens, MsgTypes, TokenMax
<1>8. CASE ClearLength
  BY <1>8 DEF ClearLength, MsgTypes, Frame
<1>9. CASE UNCHANGED msgVars
  BY <1>9 DEF msgVars, MsgTypes
<1> QED BY <1>1, <1>2, <1>3, <1>4, <1>5, <1>6, <1>7, <1>8, <1>9 DEF MsgNext

LEMMA MsgInitTyped == MsgInit => Known /\ MsgTypes
  BY MessageAssumption DEF MsgInit, Known, MsgTypes, Frame, EmptyFrame, NoPartial, NoFrame, TokenMax

LEMMA MsgTyped == Known /\ MsgTypes => MsgTypeOK
<1> SUFFICES ASSUME Known, MsgTypes PROVE MsgTypeOK
  OBVIOUS
<1>1. sent \in [1..Len(sent) -> Message] /\ Len(sent) \in 0..MessageMax
  BY MessageAssumption DEF MsgTypes
<1>2. sent \in BoundedSeq(Message, MessageMax)
  BY <1>1 DEF BoundedSeq, SeqOf
<1> QED BY <1>2 DEF Known, MsgTypes, MsgTypeOK

-----------------------------------------------------------------------------
(***************************************************************************)
(* Link operations.  The one semaphore serves one operation because at     *)
(* most one party may give it: the procedure the operation started, which  *)
(* is under way only until it gave, or the report of a link's end, which   *)
(* gives only while the flag is up: to the disconnect call that waits for  *)
(* it, or else the schedule is one that misleads it (stray).               *)
(***************************************************************************)
OfProcedure == {"scan", "connect", "mtu", "discover", "access"}
OfDisconnect == {"flagged", "disconnect", "late"}

AnswerInv ==
  /\ op.kind \in {"none", "flagged", "adv_start", "adv_stop"} => op.want = Nothing
  /\ done # Nothing => done = op.want /\ op.kind # "late"
  /\ \A q \in procs : q = op.want /\ q # Nothing /\ done = Nothing /\ op.kind \in OfProcedure
  /\ awaiting => done = Nothing /\ op.kind \in OfDisconnect

\* An operation that starts finds no token and no procedure.
LEMMA Idle ==
  ASSUME AnswerInv, op.kind \in {"none", "flagged", "adv_start", "adv_stop", "late"}
  PROVE  done = Nothing /\ procs = {}
BY DEF AnswerInv, OfProcedure

\* Begin, by an operation that starts or has just taken its token.
LEMMA BeginKeepsInv ==
  ASSUME procs = {}, ~awaiting', done' = Nothing,
         NEW kind \in OfProcedure, NEW s, NEW p, NEW proc, proc.kind \in OfProcedure,
         Begin(kind, s, p, proc)
  PROVE  AnswerInv'
<1>1. op'.kind = kind /\ op'.want = proc /\ procs' = {proc}
  BY DEF Begin, Op
<1>2. proc # Nothing
  BY DEF Nothing, OfProcedure
<1> QED BY <1>1, <1>2 DEF AnswerInv, OfProcedure

LEMMA ReturnKeepsInv ==
  ASSUME procs' = {}, ~awaiting', done' = Nothing, op' = NoOp
  PROVE  AnswerInv'
BY DEF AnswerInv, NoOp

\* No flag is up but during a disconnect.
LEMMA FlagOnlyInDisconnect ==
  ASSUME AnswerInv, op.kind \notin OfDisconnect
  PROVE  ~awaiting
BY DEF AnswerInv

LEMMA StartKeepsAnswerInv ==
  ASSUME AnswerInv,
         StartScan \/ \E p \in Peers : StartConnect(p) \/ StartAccess(p) \/ StartDisconnect(p)
  PROVE  AnswerInv'
<1>1. op = NoOp
  BY DEF StartScan, StartConnect, StartAccess, StartDisconnect
<1>2. done = Nothing /\ procs = {} /\ ~awaiting
  BY <1>1, Idle, FlagOnlyInDisconnect DEF NoOp, OfDisconnect
<1>3. CASE StartScan
  <2>1. "scan" \in OfProcedure /\ Proc("scan", 0).kind \in OfProcedure
    BY DEF Proc, OfProcedure
  <2>2. Begin("scan", 0, None, Proc("scan", 0)) /\ UNCHANGED <<done, awaiting>>
    BY <1>3 DEF StartScan
  <2> QED BY <1>2, <2>1, <2>2, BeginKeepsInv
<1>4. ASSUME NEW p \in Peers, StartConnect(p) PROVE AnswerInv'
  <2> DEFINE s == Min(FreeSlots)
  <2>1. Begin("connect", s, p, Connecting(s, p)) /\ UNCHANGED <<done, awaiting>>
    BY <1>4 DEF StartConnect
  <2>2. "connect" \in OfProcedure /\ Connecting(s, p).kind \in OfProcedure
    BY DEF Connecting, OfProcedure
  <2> HIDE DEF s
  <2> QED BY <1>2, <2>1, <2>2, BeginKeepsInv
<1>5. ASSUME NEW p \in Peers, StartAccess(p) PROVE AnswerInv'
  <2> DEFINE s == Min(SlotsOf(p))
             kind == IF slot[s].found THEN "access" ELSE "discover"
  <2>1. Begin(kind, s, p, Proc(kind, slot[s].handle)) /\ UNCHANGED <<done, awaiting>>
    BY <1>5 DEF StartAccess
  <2>2. kind \in OfProcedure /\ Proc(kind, slot[s].handle).kind \in OfProcedure
    BY DEF OfProcedure, Proc
  <2> HIDE DEF s, kind
  <2> QED BY <1>2, <2>1, <2>2, BeginKeepsInv
<1>6. ASSUME NEW p \in Peers, StartDisconnect(p) PROVE AnswerInv'
  BY <1>2, <1>6 DEF StartDisconnect, AnswerInv, Op, OfDisconnect
<1> QED BY <1>3, <1>4, <1>5, <1>6

\* An operation that takes its token took the last one, and nothing runs on.
LEMMA WakeKeepsAnswerInv ==
  ASSUME AnswerInv,
         WakeAndReturn \/ WakeConnected \/ WakeMtu \/ WakeDiscovered \/ WakeDisconnected
  PROVE  AnswerInv'
<1>1. done # Nothing /\ done' = Nothing /\ UNCHANGED awaiting
  BY DEF WakeAndReturn, WakeConnected, WakeMtu, WakeDiscovered, WakeDisconnected, Wake
<1>2. procs = {} /\ ~awaiting
  BY <1>1 DEF AnswerInv
<1>3. CASE Return
  BY <1>1, <1>2, <1>3, ReturnKeepsInv DEF Return
<1>4. ASSUME NEW kind \in {"mtu", "access"}, NEW h, Begin(kind, op.slot, op.peer, Proc(kind, h))
      PROVE AnswerInv'
  <2>1. kind \in OfProcedure /\ Proc(kind, h).kind \in OfProcedure
    BY DEF OfProcedure, Proc
  <2> QED BY <1>1, <1>2, <1>4, <2>1, BeginKeepsInv
<1> QED BY <1>3, <1>4 DEF WakeAndReturn, WakeConnected, WakeMtu, WakeDiscovered, WakeDisconnected

LEMMA DisconnectKeepsAnswerInv ==
  ASSUME AnswerInv, Terminate \/ DisconnectTimesOut \/ LowerFlag
  PROVE  AnswerInv'
<1>1. CASE Terminate
  <2>1. op.kind = "flagged" /\ done = Nothing /\ procs = {} /\ UNCHANGED <<done, procs>>
    BY <1>1, Idle DEF Terminate
  <2> QED BY <1>1, <2>1 DEF Terminate, AnswerInv, Op, NoOp, OfDisconnect
<1>2. CASE DisconnectTimesOut
  <2>1. op'.kind = "late" /\ done = Nothing /\ procs = {} /\ UNCHANGED <<done, procs, awaiting>>
    BY <1>2 DEF DisconnectTimesOut, centralVars, AnswerInv, OfProcedure
  <2> QED BY <2>1 DEF AnswerInv, OfDisconnect
<1>3. CASE LowerFlag
  BY <1>3, Idle, ReturnKeepsInv DEF LowerFlag
<1> QED BY <1>1, <1>2, <1>3

\* The procedure under way is the one waited for; once it gave, none is.
LEMMA ProcedureKeepsAnswerInv ==
  ASSUME AnswerInv, NEW q \in procs, Give(q), procs' = procs \ {q}, UNCHANGED <<op, awaiting>>
  PROVE  AnswerInv'
<1>1. q = op.want /\ q # Nothing /\ done = Nothing /\ op.kind \in OfProcedure /\ procs' = {}
  BY DEF AnswerInv
<1>2. done' = q /\ ~awaiting
  BY <1>1 DEF Give, AnswerInv, OfProcedure, OfDisconnect
<1> QED BY <1>1, <1>2 DEF AnswerInv, OfProcedure

LEMMA LinkEndsKeepsAnswerInv ==
  ASSUME AnswerInv, NEW h, LinkEnds(h)
  PROVE  AnswerInv'
<1>1. CASE OnLink(h) = {}
  BY <1>1 DEF LinkEnds, AnswerInv, advVars
<1>2. CASE OnLink(h) # {}
  <2>1. PICK q \in OnLink(h) : Give(q)
    BY <1>2 DEF LinkEnds
  <2>2. procs' = procs \ {q}
    BY <2>1 DEF LinkEnds, OnLink, AnswerInv
  <2> QED BY <2>1, <2>2, ProcedureKeepsAnswerInv DEF LinkEnds, OnLink
<1> QED BY <1>1, <1>2

\* An end that is reported gives the semaphore only to the call that waits for it.
LEMMA ReportEndKeepsAnswerInv ==
  ASSUME AnswerInv, ~stray', NEW h, ReportEnd(h)
  PROVE  AnswerInv'
<1>1. CASE ~awaiting
  BY <1>1 DEF ReportEnd, Solicited, AnswerInv, advVars
<1>2. CASE awaiting
  <2>1. done = Nothing /\ op.kind \in OfDisconnect
    BY <1>2 DEF AnswerInv
  <2>2. Ended(h) # Nothing
    BY DEF Ended, Proc, Nothing
  <2>3. op.want = Ended(h) /\ op.kind = "disconnect"
    BY <2>1 DEF ReportEnd, DuringDisconnect, Awaited, OfDisconnect
  <2>4. done' = op.want /\ ~awaiting' /\ UNCHANGED <<op, procs>>
    BY <1>2, <2>1, <2>3 DEF ReportEnd, Solicited, Give
  <2> QED BY <2>1, <2>2, <2>3, <2>4 DEF AnswerInv, OfProcedure
<1> QED BY <1>1, <1>2

LEMMA AdvertisingKeepsAnswerInv ==
  ASSUME AnswerInv,
         StartAdvertising \/ AdvertisingStarts \/ StopAdvertising \/ AdvertisingStops
  PROVE  AnswerInv'
<1>1. op.kind \in {"none", "adv_start", "adv_stop"} /\ UNCHANGED <<done, procs, awaiting>>
  BY DEF StartAdvertising, AdvertisingStarts, StopAdvertising, AdvertisingStops, centralVars, NoOp
<1>2. done = Nothing /\ procs = {} /\ ~awaiting
  BY <1>1, Idle, FlagOnlyInDisconnect DEF OfDisconnect
<1>3. op'.want = Nothing
  BY DEF StartAdvertising, AdvertisingStarts, StopAdvertising, AdvertisingStops, NoOp, Op
<1> QED BY <1>1, <1>2, <1>3 DEF AnswerInv

LEMMA LinkStep == AnswerInv /\ ~stray' /\ [LinkNext]_linkVars => AnswerInv'
<1> SUFFICES ASSUME AnswerInv, ~stray', [LinkNext]_linkVars PROVE AnswerInv'
  OBVIOUS
<1>1. CASE UNCHANGED linkVars
  BY <1>1 DEF linkVars, centralVars, AnswerInv
<1>2. ASSUME NEW q \in procs, ConnectCalledBack(q) \/ CalledBack(q) PROVE AnswerInv'
  BY <1>2, ProcedureKeepsAnswerInv DEF ConnectCalledBack, CalledBack
<1>3. CASE PeerArrives \/ PeerLeaves \/ Rearm \/ RearmFails
  BY <1>3 DEF PeerArrives, PeerLeaves, Rearm, RearmFails, centralVars, AnswerInv
<1> QED BY <1>1, <1>2, <1>3, StartKeepsAnswerInv, WakeKeepsAnswerInv, DisconnectKeepsAnswerInv,
           LinkEndsKeepsAnswerInv, ReportEndKeepsAnswerInv, AdvertisingKeepsAnswerInv DEF LinkNext

\* Once a disconnect was misled it stays so recorded.
LEMMA StrayStays == stray /\ [LinkNext]_linkVars => stray'
<1> SUFFICES ASSUME stray, [LinkNext]_linkVars PROVE stray'
  OBVIOUS
<1>1. CASE UNCHANGED linkVars
  BY <1>1 DEF linkVars, centralVars
<1>2. CASE StartScan \/ \E p \in Peers : StartConnect(p) \/ StartAccess(p) \/ StartDisconnect(p)
  BY <1>2 DEF StartScan, StartConnect, StartAccess, StartDisconnect
<1>3. CASE WakeAndReturn \/ WakeConnected \/ WakeMtu \/ WakeDiscovered \/ WakeDisconnected
  BY <1>3 DEF WakeAndReturn, WakeConnected, WakeMtu, WakeDiscovered, WakeDisconnected
<1>4. CASE Terminate \/ DisconnectTimesOut \/ LowerFlag
  BY <1>4 DEF Terminate, DisconnectTimesOut, LowerFlag, centralVars
<1>5. CASE (\E q \in procs : ConnectCalledBack(q) \/ CalledBack(q))
             \/ (\E h \in Handles : LinkEnds(h) \/ ReportEnd(h))
  BY <1>5 DEF ConnectCalledBack, CalledBack, LinkEnds, ReportEnd
<1>6. CASE \/ StartAdvertising \/ AdvertisingStarts \/ StopAdvertising \/ AdvertisingStops
           \/ PeerArrives \/ PeerLeaves \/ Rearm \/ RearmFails
  BY <1>6 DEF StartAdvertising, AdvertisingStarts, StopAdvertising, AdvertisingStops,
              PeerArrives, PeerLeaves, Rearm, RearmFails, centralVars
<1> QED BY <1>1, <1>2, <1>3, <1>4, <1>5, <1>6 DEF LinkNext

\* What wakes an operation of jpp_ble_native.c is what it waits for, for every
\* number of peers, slots and handles and every order of ends and callbacks,
\* until a link's end is reported in a disconnect call that does not wait for it.
THEOREM AnswersAreOwn == LinkSpec => []OnlyDisconnectsMislead
<1> DEFINE Inv == stray \/ AnswerInv
<1>1. LinkInit => Inv
  BY DEF LinkInit, AnswerInv, NoOp
<1>2. AnswerInv => AnswerIsItsOwn /\ (awaiting => DuringDisconnect)
  BY DEF AnswerInv, AnswerIsItsOwn, DuringDisconnect, OfDisconnect
<1>3. Inv => OnlyDisconnectsMislead
  BY <1>2 DEF OnlyDisconnectsMislead
<1>4. Inv /\ [LinkNext]_linkVars => Inv'
  BY LinkStep, StrayStays
<1> QED BY <1>1, <1>3, <1>4, PTL DEF LinkSpec

-----------------------------------------------------------------------------
\* While the host is asked, s_adv_active tells what it is asked for.
AdvInv ==
  /\ AdvertisingAsWanted
  /\ op.kind = "adv_start" => advWanted
  /\ op.kind = "adv_stop" => ~advWanted

\* s_adv_active and the host agree between calls, whoever connects and leaves,
\* but for what a restart or a stop the host refused leaves until the next call.
THEOREM AdvertisingIsWanted == LinkSpec => []AdvertisingAsWanted
<1>1. LinkInit => AdvInv
  BY DEF LinkInit, AdvInv, AdvertisingAsWanted, NoOp
<1>2. AdvInv /\ [LinkNext]_linkVars => AdvInv'
  <2> SUFFICES ASSUME AdvInv, [LinkNext]_linkVars PROVE AdvInv'
    OBVIOUS
  <2> DEFINE Neither(o) == o.kind \notin {"adv_start", "adv_stop"}
  <2>1. ASSUME UNCHANGED advVars, op' = op \/ (Neither(op) /\ Neither(op')) PROVE AdvInv'
    BY <2>1 DEF advVars, AdvInv, AdvertisingAsWanted
  <2>2. ASSUME NEW kind \in OfProcedure, NEW s, NEW p, NEW proc, Begin(kind, s, p, proc)
        PROVE  Neither(op')
    BY <2>2 DEF Begin, Op, OfProcedure
  <2>3. Neither(NoOp)
    BY DEF NoOp
  <2>4. CASE StartScan \/ \E p \in Peers : StartConnect(p) \/ StartAccess(p) \/ StartDisconnect(p)
    BY <2>1, <2>2, <2>3, <2>4
       DEF StartScan, StartConnect, StartAccess, StartDisconnect, Op, OfProcedure
  <2>5. CASE WakeAndReturn \/ WakeConnected \/ WakeMtu \/ WakeDiscovered \/ WakeDisconnected
    <3>1. Neither(op) /\ UNCHANGED advVars
      BY <2>5 DEF WakeAndReturn, WakeConnected, WakeMtu, WakeDiscovered, WakeDisconnected, Wake
    <3>2. \/ op' = NoOp
          \/ \E kind \in OfProcedure : \E s, p, proc : Begin(kind, s, p, proc)
      BY <2>5 DEF WakeAndReturn, WakeConnected, WakeMtu, WakeDiscovered, WakeDisconnected, Return,
                  OfProcedure
    <3> QED BY <2>1, <2>2, <2>3, <3>1, <3>2
  <2>6. CASE Terminate \/ DisconnectTimesOut \/ LowerFlag
    <3>1. op.kind \in {"flagged", "disconnect", "late"} /\ UNCHANGED advVars
      BY <2>6 DEF Terminate, DisconnectTimesOut, LowerFlag
    <3>2. CASE Terminate
      BY <2>1, <2>3, <3>1, <3>2 DEF Terminate, Op
    <3>3. CASE DisconnectTimesOut
      <4>1. op'.kind = "late"
        BY <3>3 DEF DisconnectTimesOut
      <4> QED BY <2>1, <3>1, <4>1
    <3>4. CASE LowerFlag
      BY <2>1, <2>3, <3>1, <3>4 DEF LowerFlag
    <3> QED BY <2>6, <3>2, <3>3, <3>4
  <2>7. CASE (\E q \in procs : ConnectCalledBack(q) \/ CalledBack(q))
               \/ (\E h \in Handles : LinkEnds(h) \/ ReportEnd(h)) \/ UNCHANGED linkVars
    <3>1. op' = op /\ UNCHANGED advVars
      BY <2>7 DEF ConnectCalledBack, CalledBack, LinkEnds, ReportEnd, linkVars
    <3> QED BY <2>1, <3>1
  <2>8. CASE StartAdvertising \/ AdvertisingStarts \/ StopAdvertising \/ AdvertisingStops
    BY <2>8 DEF StartAdvertising, AdvertisingStarts, StopAdvertising, AdvertisingStops,
                NoOp, Op, AdvInv, AdvertisingAsWanted
  <2>9. CASE PeerArrives
    BY <2>9 DEF PeerArrives, None, AdvInv, AdvertisingAsWanted
  <2>10. CASE RearmFails
    BY <2>10 DEF RearmFails, AdvInv, AdvertisingAsWanted
  <2>11. CASE PeerLeaves \/ Rearm
    <3>1. op' = op /\ advWanted' = advWanted
      BY <2>11 DEF PeerLeaves, Rearm
    <3>2. (advOn' => advOn \/ advWanted) /\ (advWanted => advOn' \/ incoming' # None)
      <4>1. CASE PeerLeaves
        BY <4>1 DEF PeerLeaves, None, AdvInv, AdvertisingAsWanted
      <4>2. CASE Rearm
        BY <4>2 DEF Rearm, Rearmed
      <4> QED BY <2>11, <4>1, <4>2
    <3>3. advFailed' = advFailed
      BY <2>11 DEF PeerLeaves, Rearm
    <3> QED BY <3>1, <3>2, <3>3 DEF AdvInv, AdvertisingAsWanted
  <2> QED BY <2>4, <2>5, <2>6, <2>7, <2>8, <2>9, <2>10, <2>11 DEF LinkNext
<1> QED BY <1>1, <1>2, PTL DEF LinkSpec, AdvInv

-----------------------------------------------------------------------------
\* An operation that makes a link has the peer it makes it to.
SlotRecord == [peer : Peers \cup {None}, handle : Handles \cup {0}, found : BOOLEAN]

OpTyped ==
  /\ op.kind \in {"none", "scan", "connect", "mtu", "discover", "access", "flagged",
                  "disconnect", "late", "adv_start", "adv_stop"}
  /\ op.kind \in {"connect", "mtu"} => op.peer \in Peers

\* So has the procedure that may make one.
ConnectsTo(ps) == \A q \in ps : q.kind = "connect" => q.peer \in Peers

CentralTyped ==
  /\ status \in BOOLEAN /\ awaiting \in BOOLEAN /\ stray \in BOOLEAN
  /\ ConnectsTo(procs)
  /\ slot \in [Slots -> SlotRecord]
  /\ link \in [Handles -> Peers \cup {None}] /\ ended \subseteq Handles

AdvTyped ==
  /\ advWanted \in BOOLEAN /\ advOn \in BOOLEAN
  /\ advFailed \in {None, "restart", "stop"} /\ incoming \in {None, "up", "ended"}

LinkTypes == OpTyped /\ CentralTyped /\ AdvTyped

LEMMA SlotWritten ==
  ASSUME slot \in [Slots -> SlotRecord], NEW s, NEW r \in SlotRecord
  PROVE  [slot EXCEPT ![s] = r] \in [Slots -> SlotRecord]
OBVIOUS

LEMMA SlotFilled ==
  ASSUME slot \in [Slots -> SlotRecord], NEW s, NEW p \in Peers
  PROVE  [slot EXCEPT ![s].peer = p, ![s].found = FALSE] \in [Slots -> SlotRecord]
BY DEF SlotRecord

LEMMA SlotFound ==
  ASSUME slot \in [Slots -> SlotRecord], NEW s, NEW b \in BOOLEAN
  PROVE  [slot EXCEPT ![s].found = b] \in [Slots -> SlotRecord]
BY DEF SlotRecord

LEMMA SlotLinked ==
  ASSUME slot \in [Slots -> SlotRecord], NEW s, NEW h \in Handles
  PROVE  [slot EXCEPT ![s].handle = h] \in [Slots -> SlotRecord]
BY DEF SlotRecord

LEMMA SlotFreed ==
  ASSUME slot \in [Slots -> SlotRecord]
  PROVE  Freed \in [Slots -> SlotRecord]
<1>1. FreeSlot \in SlotRecord
  BY DEF FreeSlot, SlotRecord
<1> QED BY <1>1, SlotWritten DEF Freed

LEMMA BeginTyped ==
  ASSUME NEW kind \in {"scan", "connect", "mtu", "discover", "access"}, NEW s, NEW p, NEW proc,
         kind \in {"connect", "mtu"} => p \in Peers, ConnectsTo(procs), ConnectsTo({proc}),
         Begin(kind, s, p, proc)
  PROVE  OpTyped' /\ status' \in BOOLEAN /\ ConnectsTo(procs')
BY DEF Begin, Op, OpTyped, ConnectsTo

LEMMA Connects ==
  ASSUME NEW p \in Peers, NEW s
  PROVE  ConnectsTo({Connecting(s, p)})
BY DEF ConnectsTo, Connecting

LEMMA NoConnect ==
  ASSUME NEW kind \in {"scan", "mtu", "discover", "access"}, NEW of
  PROVE  ConnectsTo({Proc(kind, of)})
BY DEF ConnectsTo, Proc

LEMMA ReturnTyped == op' = NoOp => OpTyped'
  BY DEF NoOp, OpTyped

\* The operations.
LEMMA StartTyped ==
  ASSUME LinkTypes,
         StartScan \/ \E p \in Peers : StartConnect(p) \/ StartAccess(p) \/ StartDisconnect(p)
  PROVE  LinkTypes'
<1>1. UNCHANGED <<stray, slot, link, ended, advVars>> /\ (awaiting' = awaiting \/ awaiting' = TRUE)
  BY DEF StartScan, StartConnect, StartAccess, StartDisconnect
<1>2. OpTyped' /\ status' \in BOOLEAN /\ ConnectsTo(procs')
  <2>0. status \in BOOLEAN /\ ConnectsTo(procs)
    BY DEF LinkTypes, CentralTyped
  <2> DEFINE Typed == OpTyped' /\ status' \in BOOLEAN /\ ConnectsTo(procs')
  <2>1. CASE StartScan
    <3>1. Begin("scan", 0, None, Proc("scan", 0))
      BY <2>1 DEF StartScan
    <3> QED BY <2>0, <3>1, BeginTyped, NoConnect
  <2>2. ASSUME NEW p \in Peers, StartConnect(p) PROVE Typed
    <3> DEFINE s == Min(FreeSlots)
    <3>1. Begin("connect", s, p, Connecting(s, p))
      BY <2>2 DEF StartConnect
    <3> HIDE DEF s
    <3> QED BY <2>0, <3>1, BeginTyped, Connects
  <2>3. ASSUME NEW p \in Peers, StartAccess(p) PROVE Typed
    <3> DEFINE s == Min(SlotsOf(p))
               kind == IF slot[s].found THEN "access" ELSE "discover"
    <3>1. Begin(kind, s, p, Proc(kind, slot[s].handle))
      BY <2>3 DEF StartAccess
    <3>2. kind \in {"access", "discover"}
      OBVIOUS
    <3> HIDE DEF s, kind
    <3> QED BY <2>0, <3>1, <3>2, BeginTyped, NoConnect
  <2>4. ASSUME NEW p \in Peers, StartDisconnect(p) PROVE Typed
    <3>1. UNCHANGED <<status, procs>> /\ op' = Op("flagged", Min(SlotsOf(p)), p, Nothing)
      BY <2>4 DEF StartDisconnect
    <3> QED BY <2>0, <3>1 DEF Op, OpTyped
  <2> QED BY <2>1, <2>2, <2>3, <2>4
<1> QED BY <1>1, <1>2 DEF LinkTypes, CentralTyped, AdvTyped, advVars

LEMMA WakeTyped ==
  ASSUME LinkTypes,
         WakeAndReturn \/ WakeConnected \/ WakeMtu \/ WakeDiscovered \/ WakeDisconnected
  PROVE  LinkTypes'
<1>1. UNCHANGED <<awaiting, stray, link, ended, advVars>>
  BY DEF WakeAndReturn, WakeConnected, WakeMtu, WakeDiscovered, WakeDisconnected
<1>2. /\ slot \in [Slots -> SlotRecord] /\ status \in BOOLEAN /\ ConnectsTo(procs)
      /\ op.kind \in {"connect", "mtu"} => op.peer \in Peers
  BY DEF LinkTypes, CentralTyped, OpTyped
<1>3. OpTyped' /\ status' \in BOOLEAN /\ ConnectsTo(procs') /\ slot' \in [Slots -> SlotRecord]
  <2>0. Return => OpTyped' /\ status' \in BOOLEAN /\ ConnectsTo(procs')
    BY <1>2, ReturnTyped DEF Return
  <2>1. CASE WakeAndReturn
    BY <1>2, <2>0, <2>1 DEF WakeAndReturn
  <2>2. CASE WakeConnected
    <3>1. op.peer \in Peers
      BY <1>2, <2>2 DEF WakeConnected, Wake
    <3>2. \/ Return /\ UNCHANGED slot
          \/ Begin("mtu", op.slot, op.peer, Proc("mtu", slot[op.slot].handle)) /\ UNCHANGED slot
          \/ Return /\ slot' = [slot EXCEPT ![op.slot].peer = op.peer, ![op.slot].found = FALSE]
      BY <2>2 DEF WakeConnected
    <3>3. slot' \in [Slots -> SlotRecord]
      BY <1>2, <3>1, <3>2, SlotFilled
    <3> QED BY <1>2, <2>0, <3>1, <3>2, <3>3, BeginTyped, NoConnect
  <2>3. CASE WakeMtu
    BY <1>2, <2>0, <2>3, SlotFilled DEF WakeMtu, Wake
  <2>4. CASE WakeDiscovered
    <3>1. \/ Return
          \/ Begin("access", op.slot, op.peer, Proc("access", slot[op.slot].handle))
      BY <2>4 DEF WakeDiscovered
    <3>2. OpTyped' /\ status' \in BOOLEAN /\ ConnectsTo(procs')
      BY <1>2, <2>0, <3>1, BeginTyped, NoConnect
    <3>3. slot' = [slot EXCEPT ![op.slot].found = status]
      BY <2>4 DEF WakeDiscovered
    <3> QED BY <1>2, <3>2, <3>3, SlotFound
  <2>5. CASE WakeDisconnected
    BY <1>2, <2>0, <2>5, SlotFreed DEF WakeDisconnected
  <2> QED BY <2>1, <2>2, <2>3, <2>4, <2>5
<1> QED BY <1>1, <1>3 DEF LinkTypes, CentralTyped, AdvTyped, advVars

LEMMA DisconnectTyped ==
  ASSUME LinkTypes, Terminate \/ DisconnectTimesOut \/ LowerFlag
  PROVE  LinkTypes'
<1>1. UNCHANGED <<status, stray, procs, link, ended, advVars>>
  BY DEF Terminate, DisconnectTimesOut, LowerFlag, centralVars
<1>2. slot \in [Slots -> SlotRecord] /\ awaiting \in BOOLEAN
  BY DEF LinkTypes, CentralTyped
<1>3. OpTyped' /\ awaiting' \in BOOLEAN /\ slot' \in [Slots -> SlotRecord]
  <2>1. CASE Terminate
    <3>1. \/ /\ op' = Op("disconnect", op.slot, op.peer, Ended(slot[op.slot].handle))
             /\ UNCHANGED <<awaiting, slot>>
          \/ op' = NoOp /\ awaiting' = FALSE /\ slot' = Freed
      BY <2>1 DEF Terminate
    <3>2. ASSUME NEW w, op' = Op("disconnect", op.slot, op.peer, w) PROVE OpTyped'
      BY <3>2 DEF Op, OpTyped
    <3> QED BY <1>2, <3>1, <3>2, ReturnTyped, SlotFreed
  <2>2. CASE DisconnectTimesOut
    BY <1>2, <2>2 DEF DisconnectTimesOut, OpTyped, centralVars
  <2>3. CASE LowerFlag
    BY <1>2, <2>3, ReturnTyped, SlotFreed DEF LowerFlag
  <2> QED BY <2>1, <2>2, <2>3
<1> QED BY <1>1, <1>3 DEF LinkTypes, CentralTyped, AdvTyped, advVars

\* The callbacks of the host.
LEMMA CallbackTyped ==
  ASSUME LinkTypes,
         \/ \E q \in procs : ConnectCalledBack(q) \/ CalledBack(q)
         \/ \E h \in Handles : LinkEnds(h) \/ ReportEnd(h)
  PROVE  LinkTypes'
<1>1. op' = op /\ UNCHANGED advVars
  BY DEF ConnectCalledBack, CalledBack, LinkEnds, ReportEnd
<1>2. CentralTyped
  BY DEF LinkTypes
<1>3. CentralTyped'
  <2>1. ASSUME NEW q \in procs, ConnectCalledBack(q) PROVE CentralTyped'
    <3>1. /\ q.peer \in Peers /\ ConnectsTo(procs')
          /\ UNCHANGED <<awaiting, stray, ended>>
      BY <1>2, <2>1 DEF ConnectCalledBack, CentralTyped, ConnectsTo
    <3>2. CASE status' = FALSE /\ UNCHANGED <<link, slot>>
      BY <1>2, <3>1, <3>2 DEF CentralTyped
    <3>3. ASSUME NEW h \in Handles, Connected(q, h) PROVE CentralTyped'
      <4>1. slot' \in [Slots -> SlotRecord]
        BY <1>2, <3>3, SlotLinked DEF Connected, CentralTyped
      <4>2. link' \in [Handles -> Peers \cup {None}] /\ status' \in BOOLEAN
        BY <1>2, <3>1, <3>3 DEF Connected, CentralTyped
      <4> QED BY <1>2, <3>1, <4>1, <4>2 DEF CentralTyped
    <3> QED BY <2>1, <3>2, <3>3 DEF ConnectCalledBack
  <2>2. ASSUME NEW q \in procs, CalledBack(q) PROVE CentralTyped'
    <3>1. ConnectsTo(procs') /\ UNCHANGED <<awaiting, stray, slot, link, ended>>
      BY <1>2, <2>2 DEF CalledBack, CentralTyped, ConnectsTo
    <3> QED BY <1>2, <2>2, <3>1 DEF CalledBack, CentralTyped
  <2>3. ASSUME NEW h \in Handles, LinkEnds(h) PROVE CentralTyped'
    <3>1. /\ link' = [link EXCEPT ![h] = None] /\ ended' = ended \cup {h}
          /\ status' = status \/ status' = FALSE
          /\ UNCHANGED <<awaiting, stray, slot>>
      BY <2>3 DEF LinkEnds
    <3>2. ConnectsTo(procs')
      BY <1>2, <2>3 DEF LinkEnds, CentralTyped, ConnectsTo
    <3> QED BY <1>2, <3>1, <3>2 DEF CentralTyped
  <2>4. ASSUME NEW h \in Handles, ReportEnd(h) PROVE CentralTyped'
    <3>1. /\ ended' = ended \ {h} /\ (awaiting' = awaiting \/ awaiting' = FALSE)
          /\ UNCHANGED <<status, slot, procs, link>>
      BY <2>4 DEF ReportEnd
    <3>2. stray' = (stray \/ (DuringDisconnect /\ ~Awaited(h)))
      BY <2>4 DEF ReportEnd
    <3> QED BY <1>2, <3>1, <3>2 DEF CentralTyped
  <2> QED BY <2>1, <2>2, <2>3, <2>4
<1> QED BY <1>1, <1>3 DEF LinkTypes, OpTyped, AdvTyped, advVars

LEMMA AdvertisingTyped ==
  ASSUME LinkTypes,
         \/ StartAdvertising \/ AdvertisingStarts \/ StopAdvertising \/ AdvertisingStops
         \/ PeerArrives \/ PeerLeaves \/ Rearm \/ RearmFails
  PROVE  LinkTypes'
<1>1. UNCHANGED centralVars
  BY DEF StartAdvertising, AdvertisingStarts, StopAdvertising, AdvertisingStops,
         PeerArrives, PeerLeaves, Rearm, RearmFails
<1>2. OpTyped'
  BY DEF StartAdvertising, AdvertisingStarts, StopAdvertising, AdvertisingStops,
         PeerArrives, PeerLeaves, Rearm, RearmFails, LinkTypes, OpTyped, Op, NoOp
<1>3. advWanted' \in BOOLEAN /\ advOn' \in BOOLEAN
  <2>1. advWanted \in BOOLEAN /\ advOn \in BOOLEAN
    BY DEF LinkTypes, AdvTyped
  <2>2. advWanted' \in {advWanted, TRUE, FALSE} /\ advOn' \in {advOn, TRUE, FALSE, advOn \/ advWanted}
    BY DEF StartAdvertising, AdvertisingStarts, StopAdvertising, AdvertisingStops,
           PeerArrives, PeerLeaves, Rearm, RearmFails, Rearmed
  <2> QED BY <2>1, <2>2
<1>4. incoming' \in {None, "up", "ended"} /\ advFailed' \in {None, "restart", "stop"}
  BY DEF StartAdvertising, AdvertisingStarts, StopAdvertising, AdvertisingStops,
         PeerArrives, PeerLeaves, Rearm, RearmFails, LinkTypes, AdvTyped
<1> QED BY <1>1, <1>2, <1>3, <1>4 DEF LinkTypes, CentralTyped, AdvTyped, centralVars

LEMMA LinkTypesStep == LinkTypes /\ [LinkNext]_linkVars => LinkTypes'
<1> SUFFICES ASSUME LinkTypes, [LinkNext]_linkVars PROVE LinkTypes'
  OBVIOUS
<1>1. CASE UNCHANGED linkVars
  BY <1>1 DEF linkVars, centralVars, advVars, LinkTypes, OpTyped, CentralTyped, AdvTyped
<1> QED BY <1>1, StartTyped, WakeTyped, DisconnectTyped, CallbackTyped, AdvertisingTyped DEF LinkNext

LEMMA LinkInitTyped == LinkInit => LinkTypes
<1> SUFFICES ASSUME LinkInit PROVE LinkTypes
  OBVIOUS
<1>1. FreeSlot \in SlotRecord
  BY DEF FreeSlot, SlotRecord
<1>2. CentralTyped
  BY <1>1 DEF LinkInit, CentralTyped, ConnectsTo
<1>3. OpTyped /\ AdvTyped
  BY DEF LinkInit, OpTyped, AdvTyped, NoOp
<1> QED BY <1>2, <1>3 DEF LinkTypes

LEMMA LinkTyped == LinkTypes => LinkTypeOK
  BY DEF LinkTypes, OpTyped, CentralTyped, AdvTyped, LinkTypeOK, SlotRecord

-----------------------------------------------------------------------------
(***************************************************************************)
(* MeetApp.  Nonces: a badge has signed with its latest nonce only if it   *)
(* is done with it, and every run takes another.                           *)
(* Texts, while one badge leads at a time: what a badge is asked to sign   *)
(* is the text of the session it joined, which is settled by then, and no  *)
(* badge joins, so none takes another nonce, once the nonces are gathered. *)
(***************************************************************************)
NonceValue == {NoValue} \cup [kind : {"nonce"}, by : Participants, run : Nat]
Text == [session : Sessions, nonces : SUBSET NonceValue]
Signature == [kind : {"sig"}, nonce : NonceValue, of : Text]
SigValue == {NoValue} \cup Signature
Received == {Unset, Cut} \cup [of : Text, sigs : SUBSET SigValue]

LeaderState ==
  [stage : {"off", "discover", "gather", "sign", "deliver", "over"},
   peers : SUBSET Participants, todo : SUBSET Participants,
   asked : Participants \cup {NoOne},
   nonce : [Participants -> NonceValue], sig : [Participants -> SigValue]]

ParticipantState ==
  [stage : {"idle", "waiting", "computing", "signed"}, run : Nat,
   session : Sessions \cup {NoValue}, nonce : NonceValue, ask : Text \cup {NoValue}]

MeetShape ==
  /\ lead \in [Sessions -> LeaderState]
  /\ part \in [Participants -> ParticipantState]
  /\ meetTx \in [Participants -> NonceValue \cup SigValue]
  /\ meetRx \in [Participants -> Received]
  /\ \A s \in Sessions :
       /\ lead[s].todo \subseteq lead[s].peers
       /\ lead[s].asked # NoOne => lead[s].asked \in lead[s].todo /\ lead[s].stage = "sign"
  /\ \A p \in Participants :
       /\ part[p].stage # "idle" => part[p].session \in Sessions
       /\ part[p].stage \in {"computing", "signed"} => part[p].ask \in Text

OwnNonce(p) == Nonce(p, part[p].run)

SpentByNow(a) ==
  \E p \in Participants, n \in Nat :
    /\ a.nonce = Nonce(p, n) /\ n <= part[p].run
    /\ n = part[p].run => part[p].stage \in {"idle", "signed"}

NonceInv ==
  /\ \A p \in Participants : part[p].stage # "idle" => part[p].nonce = OwnNonce(p)
  /\ \A a \in signed : SpentByNow(a)
  /\ NonceSignsOnce

Leads(s) == lead[s].stage \in {"discover", "gather", "sign", "deliver"}
Settled(s) == lead[s].stage \in {"sign", "deliver"}

\* The signature is of that text, and verifies if none of its parts is missing.
SignedAs(c, f) == f.of = c /\ (NoValue \notin f.sigs => Verifies(f, c))

\* What each leader has is empty or of the text it has settled.
LeaderInv(s) ==
  /\ lead[s].stage = "off" => lead[s].peers = {}
  /\ lead[s].stage \in {"off", "discover"} => \A p \in Participants : lead[s].nonce[p] = NoValue
  /\ lead[s].stage \in {"off", "discover", "gather"} =>
       \A p \in Participants : lead[s].sig[p] = NoValue
  /\ Settled(s) =>
       \A p \in lead[s].peers : lead[s].sig[p] \in {NoValue, PartSig(lead[s].nonce[p], Challenge(s))}
  /\ lead[s].stage = "sign" =>
       \A p \in lead[s].todo : p # lead[s].asked => part[p].stage \in {"idle", "waiting"}

\* What the badge that leads and one that takes part have of each other.
PeerInv(s, p) ==
  /\ part[p].stage # "idle" => part[p].session = s
  /\ \/ meetTx[p] = OwnNonce(p)
     \/ Settled(s) /\ meetTx[p] = PartSig(OwnNonce(p), Challenge(s))
  /\ lead[s].stage = "gather" => lead[s].nonce[p] \in {NoValue, OwnNonce(p)}
  /\ lead[s].stage \in {"sign", "deliver"} => lead[s].nonce[p] = OwnNonce(p)

\* What a badge that takes part is asked, has published and has been written.
PartInv(p) ==
  /\ part[p].stage \in {"waiting", "computing"} => meetTx[p] = OwnNonce(p)
  /\ part[p].stage \in {"computing", "signed"} =>
       /\ Settled(part[p].session) \/ lead[part[p].session].stage = "over"
       /\ Settled(part[p].session) => part[p].ask = Challenge(part[p].session)
       /\ part[p].ask.session = part[p].session
  /\ meetRx[p] # Unset =>
       /\ part[p].stage \in {"computing", "signed"}
       /\ lead[part[p].session].stage \in {"deliver", "over"}
       /\ SignedAs(part[p].ask, meetRx[p])

OneLeads == \A s, t \in Sessions : Leads(s) /\ Leads(t) => s = t

TextInv ==
  /\ OneLeads
  /\ \A s \in Sessions : LeaderInv(s)
  /\ \A s \in Sessions : Leads(s) => \A p \in lead[s].peers : PeerInv(s, p)
  /\ \A p \in Participants : PartInv(p)
  /\ SavedTextIsSigned

MeetInv == MeetShape /\ NonceInv /\ (~overlap => TextInv)

\* The parts a step puts together.
LEMMA NonceType == ASSUME NEW p \in Participants, NEW n \in Nat PROVE Nonce(p, n) \in NonceValue
  BY DEF Nonce, NonceValue

LEMMA ChallengeType == ASSUME MeetShape, NEW s \in Sessions PROVE Challenge(s) \in Text
<1>1. lead[s].nonce \in [Participants -> NonceValue] /\ lead[s].peers \subseteq Participants
  BY DEF MeetShape, LeaderState
<1> QED BY <1>1 DEF Challenge, Text

LEMMA FinalType == ASSUME MeetShape, NEW s \in Sessions PROVE Final(s) \in Received
<1>1. lead[s].sig \in [Participants -> SigValue] /\ lead[s].peers \subseteq Participants
  BY DEF MeetShape, LeaderState
<1> QED BY <1>1, ChallengeType DEF Final, Received

LEMMA SigType == ASSUME NEW n \in NonceValue, NEW c \in Text PROVE PartSig(n, c) \in SigValue
  BY DEF PartSig, SigValue, Signature

LEMMA LeaderType ==
  ASSUME NEW stage \in {"off", "discover", "gather", "sign", "deliver", "over"}
  PROVE  /\ Leader(stage) \in LeaderState
         /\ Leader(stage).todo = {} /\ Leader(stage).peers = {} /\ Leader(stage).asked = NoOne
BY DEF Leader, LeaderState, NonceValue, SigValue

\* One leader's record, one participant's record.
LEMMA LeadIs ==
  ASSUME MeetShape, NEW s \in Sessions, NEW l \in LeaderState, lead' = [lead EXCEPT ![s] = l]
  PROVE  /\ lead' \in [Sessions -> LeaderState] /\ lead'[s] = l
         /\ \A t \in Sessions : t # s => lead'[t] = lead[t]
BY DEF MeetShape

LEMMA PartIs ==
  ASSUME MeetShape, NEW p \in Participants, NEW r \in ParticipantState, part' = [part EXCEPT ![p] = r]
  PROVE  /\ part' \in [Participants -> ParticipantState] /\ part'[p] = r
         /\ \A q \in Participants : q # p => part'[q] = part[q]
BY DEF MeetShape

LEMMA LeadShape ==
  ASSUME MeetShape, NEW s \in Sessions, NEW l \in LeaderState, lead' = [lead EXCEPT ![s] = l],
         l.todo \subseteq l.peers, l.asked # NoOne => l.asked \in l.todo /\ l.stage = "sign",
         UNCHANGED <<part, meetTx>>, meetRx' \in [Participants -> Received]
  PROVE  MeetShape'
<1>1. /\ lead' \in [Sessions -> LeaderState] /\ lead'[s] = l
      /\ \A t \in Sessions : t # s => lead'[t] = lead[t]
  BY LeadIs
<1> QED BY <1>1 DEF MeetShape

LEMMA PartShape ==
  ASSUME MeetShape, NEW p \in Participants, NEW r \in ParticipantState, part' = [part EXCEPT ![p] = r],
         r.stage # "idle" => r.session \in Sessions,
         r.stage \in {"computing", "signed"} => r.ask \in Text,
         UNCHANGED lead, meetTx' \in [Participants -> NonceValue \cup SigValue],
         meetRx' \in [Participants -> Received]
  PROVE  MeetShape'
<1>1. /\ part' \in [Participants -> ParticipantState] /\ part'[p] = r
      /\ \A q \in Participants : q # p => part'[q] = part[q]
  BY PartIs
<1> QED BY <1>1 DEF MeetShape

-----------------------------------------------------------------------------
\* What the actions that only lead do to the leader's record.
LEMMA JustLeads ==
  ASSUME MeetShape, NEW s \in Sessions,
         \/ Initiate(s) \/ GiveUp(s) \/ Proceed(s) \/ BeginSign(s) \/ ReadSig(s)
         \/ BeginDeliver(s) \/ SaveProof(s) \/ \E p \in Participants : FindPeer(s, p) \/ Gather(s, p)
  PROVE  MeetShape'
<1>0. UNCHANGED <<part, meetTx, meetRx>> /\ meetRx \in [Participants -> Received]
  BY DEF Initiate, GiveUp, Proceed, BeginSign, ReadSig, BeginDeliver, SaveProof, FindPeer, Gather, MeetShape
<1>1. /\ lead[s] \in LeaderState /\ lead[s].todo \subseteq lead[s].peers
      /\ lead[s].asked # NoOne => lead[s].asked \in lead[s].todo /\ lead[s].stage = "sign"
  BY DEF MeetShape
<1>2. ASSUME NEW stage \in {"off", "discover", "gather", "sign", "deliver", "over"},
             lead' = [lead EXCEPT ![s] = Leader(stage)]
      PROVE  MeetShape'
  BY <1>0, <1>2, LeaderType, LeadShape
<1>3. ASSUME NEW stage \in {"gather", "sign", "deliver"}, NextStage(s, stage),
             lead[s].asked = NoOne
      PROVE  MeetShape'
  <2> DEFINE l == [lead[s] EXCEPT !.stage = stage, !.todo = lead[s].peers]
  <2>1. l \in LeaderState /\ l.todo = lead[s].peers /\ l.peers = lead[s].peers /\ l.asked = lead[s].asked
    BY <1>1 DEF LeaderState
  <2>2. lead' = [lead EXCEPT ![s] = l]
    BY <1>3 DEF NextStage, MeetShape
  <2> HIDE DEF l
  <2> QED BY <1>0, <1>3, <2>1, <2>2, LeadShape
<1>4. CASE Initiate(s)
  <2> DEFINE l == [lead[s] EXCEPT !.stage = "discover"]
  <2>1. /\ l \in LeaderState /\ l.todo = lead[s].todo /\ l.peers = lead[s].peers
        /\ l.asked = lead[s].asked /\ lead[s].asked = NoOne
    BY <1>1, <1>4 DEF LeaderState, Initiate
  <2>2. lead' = [lead EXCEPT ![s] = l]
    BY <1>4 DEF Initiate, MeetShape
  <2> HIDE DEF l
  <2> QED BY <1>0, <1>1, <2>1, <2>2, LeadShape
<1>5. CASE GiveUp(s) \/ SaveProof(s)
  BY <1>2, <1>5 DEF GiveUp, SaveProof
<1>6. CASE Proceed(s) \/ BeginDeliver(s)
  BY <1>1, <1>3, <1>6 DEF Proceed, BeginDeliver
<1>7. CASE BeginSign(s)
  BY <1>1, <1>2, <1>3, <1>7 DEF BeginSign
<1>8. ASSUME NEW p \in Participants, FindPeer(s, p) PROVE MeetShape'
  <2> DEFINE l == [lead[s] EXCEPT !.peers = @ \cup {p}]
  <2>1. /\ l \in LeaderState /\ l.todo = lead[s].todo /\ l.peers = lead[s].peers \cup {p}
        /\ l.asked = lead[s].asked /\ lead[s].asked = NoOne
    BY <1>1, <1>8 DEF LeaderState, FindPeer
  <2>2. lead' = [lead EXCEPT ![s] = l]
    BY <1>8 DEF FindPeer, MeetShape
  <2> HIDE DEF l
  <2> QED BY <1>0, <1>1, <2>1, <2>2, LeadShape
<1>9. ASSUME NEW p \in Participants, Gather(s, p) PROVE MeetShape'
  <2>1. PICK n \in {NoValue} \cup {v \in {meetTx[p]} : Advertises(p) /\ v.kind = "nonce"} :
          lead' = [lead EXCEPT ![s].todo = @ \ {p}, ![s].nonce[p] = n]
    BY <1>9 DEF Gather
  <2> DEFINE l == [lead[s] EXCEPT !.todo = @ \ {p}, !.nonce = [@ EXCEPT ![p] = n]]
  <2>2. n \in NonceValue
    BY <2>1 DEF MeetShape, NonceValue, SigValue, Signature, NoValue
  <2>3. /\ l \in LeaderState /\ l.todo = lead[s].todo \ {p} /\ l.peers = lead[s].peers
        /\ l.asked = lead[s].asked
    BY <1>1, <2>2 DEF LeaderState
  <2>4. lead' = [lead EXCEPT ![s] = l]
    BY <2>1 DEF MeetShape
  <2>5. l.asked = NoOne
    BY <1>1, <1>9, <2>3 DEF Gather
  <2> HIDE DEF l
  <2> QED BY <1>0, <1>1, <2>3, <2>4, <2>5, LeadShape
<1>10. CASE ReadSig(s)
  <2> DEFINE p == lead[s].asked
  <2>1. PICK v \in {NoValue} \cup {v \in {meetTx[p]} : v.kind = "sig"} :
          lead' = [lead EXCEPT ![s].todo = @ \ {p}, ![s].asked = NoOne, ![s].sig[p] = v]
    BY <1>10 DEF ReadSig
  <2>2. p \in Participants
    BY <1>1, <1>10 DEF ReadSig, LeaderState
  <2> HIDE DEF p
  <2> DEFINE l == [lead[s] EXCEPT !.todo = @ \ {p}, !.asked = NoOne, !.sig = [@ EXCEPT ![p] = v]]
  <2>3. v \in SigValue
    BY <2>1, <2>2 DEF MeetShape, NonceValue, SigValue, NoValue
  <2>4. /\ l \in LeaderState /\ l.todo = lead[s].todo \ {p} /\ l.peers = lead[s].peers
        /\ l.asked = NoOne
    BY <1>1, <2>3 DEF LeaderState
  <2>5. lead' = [lead EXCEPT ![s] = l]
    BY <2>1 DEF MeetShape
  <2> HIDE DEF l
  <2> QED BY <1>0, <1>1, <2>4, <2>5, LeadShape
<1> QED BY <1>4, <1>5, <1>6, <1>7, <1>8, <1>9, <1>10

\* What the actions that take part do to the participant's record.
LEMMA TakesPart ==
  ASSUME MeetShape, NEW p \in Participants,
         Sign(p) \/ TakeFinal(p) \/ TimeOut(p) \/ \E s \in Sessions : Join(p, s)
  PROVE  MeetShape'
<1>1. /\ part[p] \in ParticipantState /\ part[p].run \in Nat
      /\ part[p].stage # "idle" => part[p].session \in Sessions
      /\ part[p].stage \in {"computing", "signed"} => part[p].ask \in Text
      /\ meetTx \in [Participants -> NonceValue \cup SigValue]
      /\ meetRx \in [Participants -> Received]
  BY DEF MeetShape, ParticipantState
<1>2. ASSUME Leave(p), UNCHANGED lead PROVE MeetShape'
  <2> DEFINE r == Away(part[p].run)
  <2>1. r \in ParticipantState /\ r.stage = "idle"
    BY <1>1 DEF Away, ParticipantState, NonceValue
  <2>2. part' = [part EXCEPT ![p] = r] /\ UNCHANGED <<lead, meetTx>>
    BY <1>2 DEF Leave, MeetShape
  <2>3. meetRx' \in [Participants -> Received]
    BY <1>1, <1>2 DEF Leave, Received
  <2> HIDE DEF r
  <2> QED BY <1>1, <2>1, <2>2, <2>3, PartShape
<1>3. CASE Sign(p)
  <2> DEFINE r == [part[p] EXCEPT !.stage = "signed"]
  <2>1. /\ r \in ParticipantState /\ r.stage = "signed" /\ r.session = part[p].session
        /\ r.ask = part[p].ask
    BY <1>1 DEF ParticipantState
  <2>2. part' = [part EXCEPT ![p] = r] /\ UNCHANGED <<lead, meetRx>> /\ part[p].stage = "computing"
    BY <1>3 DEF Sign, MeetShape
  <2>3. meetTx' \in [Participants -> NonceValue \cup SigValue]
    <3>1. PartSig(part[p].nonce, part[p].ask) \in SigValue
      BY <1>1, <2>2, SigType DEF ParticipantState
    <3> QED BY <1>1, <1>3, <3>1 DEF Sign
  <2> HIDE DEF r
  <2> QED BY <1>1, <2>1, <2>2, <2>3, PartShape
<1>4. CASE TakeFinal(p) \/ TimeOut(p)
  BY <1>2, <1>4 DEF TakeFinal, TimeOut, Leave
<1>5. ASSUME NEW s \in Sessions, Join(p, s) PROVE MeetShape'
  <2>1. part[p].run + 1 \in Nat /\ FreshNonce(p) \in NonceValue
    BY <1>1, NonceType DEF FreshNonce
  <2> DEFINE r == [stage |-> "waiting", run |-> part[p].run + 1, session |-> s,
                   nonce |-> FreshNonce(p), ask |-> NoValue]
  <2>2. r \in ParticipantState /\ r.stage = "waiting" /\ r.session = s
    BY <2>1 DEF ParticipantState
  <2>3. part' = [part EXCEPT ![p] = r] /\ UNCHANGED lead
    BY <1>5 DEF Join, MeetShape
  <2>4. meetTx' \in [Participants -> NonceValue \cup SigValue]
    BY <1>1, <1>5, <2>1 DEF Join
  <2>5. meetRx' \in [Participants -> Received]
    BY <1>1, <1>5 DEF Join, Received
  <2> HIDE DEF r
  <2> QED BY <2>2, <2>3, <2>4, <2>5, PartShape
<1> QED BY <1>3, <1>4, <1>5

\* Round 1.5: what becomes of the badge that is asked.
LEMMA AskedIs ==
  ASSUME MeetShape, NEW p \in Participants, NEW c \in Text,
         UNCHANGED <<part, meetRx>> \/ Asked(p, c) \/ AskedInPart(p)
  PROVE  /\ part' \in [Participants -> ParticipantState] /\ meetRx' \in [Participants -> Received]
         /\ \A q \in Participants : q # p => part'[q] = part[q] /\ meetRx'[q] = meetRx[q]
         /\ \/ part'[p] = part[p] /\ (part[p].stage = "waiting" => meetRx' = meetRx)
            \/ /\ part[p].stage = "waiting" /\ part'[p].stage = "computing" /\ part'[p].ask = c
               /\ part'[p].run = part[p].run /\ part'[p].session = part[p].session
               /\ part'[p].nonce = part[p].nonce /\ meetRx' = meetRx
<1>1. /\ part[p] \in ParticipantState /\ meetRx \in [Participants -> Received] 
      /\ part \in [Participants -> ParticipantState]
  BY DEF MeetShape
<1>2. CASE part' = part /\ (part[p].stage = "waiting" => meetRx' = meetRx)
           /\ meetRx' \in {meetRx, [meetRx EXCEPT ![p] = Cut]}
  BY <1>1, <1>2 DEF Received
<1>3. CASE part[p].stage = "waiting" /\ Asked(p, c)
  <2> DEFINE r == [part[p] EXCEPT !.stage = "computing", !.ask = c]
  <2>1. /\ r \in ParticipantState /\ r.stage = "computing" /\ r.session = part[p].session
        /\ r.ask = c /\ r.run = part[p].run /\ r.nonce = part[p].nonce
    BY <1>1 DEF ParticipantState
  <2>2. part' = [part EXCEPT ![p] = r] /\ meetRx' = meetRx
    BY <1>1, <1>3 DEF Asked
  <2> HIDE DEF r
  <2>3. /\ part' \in [Participants -> ParticipantState] /\ part'[p] = r
        /\ \A q \in Participants : q # p => part'[q] = part[q]
    BY <2>1, <2>2, PartIs
  <2> QED BY <1>1, <1>3, <2>1, <2>2, <2>3
<1> QED BY <1>2, <1>3 DEF Asked, AskedInPart

\* What Request does to the leader's record.
LEMMA RequestIs ==
  ASSUME MeetShape, NEW s \in Sessions, NEW p \in Participants, Request(s, p)
  PROVE  /\ lead' \in [Sessions -> LeaderState]
         /\ \A t \in Sessions : t # s => lead'[t] = lead[t]
         /\ lead'[s].stage = lead[s].stage /\ lead'[s].peers = lead[s].peers
         /\ lead'[s].nonce = lead[s].nonce /\ lead'[s].sig = lead[s].sig
         /\ \/ lead'[s].asked = p /\ lead'[s].todo = lead[s].todo
            \/ lead'[s].asked = NoOne /\ lead'[s].todo = lead[s].todo \ {p}
<1>1. lead[s] \in LeaderState /\ lead[s].asked = NoOne
  BY DEF MeetShape, Request
<1>2. CASE lead' = [lead EXCEPT ![s].asked = p]
  <2> DEFINE l == [lead[s] EXCEPT !.asked = p]
  <2>1. /\ l \in LeaderState /\ l.stage = lead[s].stage /\ l.peers = lead[s].peers
        /\ l.nonce = lead[s].nonce /\ l.sig = lead[s].sig /\ l.asked = p /\ l.todo = lead[s].todo
    BY <1>1 DEF LeaderState
  <2>2. lead' = [lead EXCEPT ![s] = l]
    BY <1>2 DEF MeetShape
  <2> HIDE DEF l
  <2>3. /\ lead' \in [Sessions -> LeaderState] /\ lead'[s] = l
        /\ \A t \in Sessions : t # s => lead'[t] = lead[t]
    BY <2>1, <2>2, LeadIs
  <2> QED BY <2>1, <2>3
<1>3. CASE lead' = [lead EXCEPT ![s].todo = @ \ {p}]
  <2> DEFINE l == [lead[s] EXCEPT !.todo = @ \ {p}]
  <2>1. /\ l \in LeaderState /\ l.stage = lead[s].stage /\ l.peers = lead[s].peers
        /\ l.nonce = lead[s].nonce /\ l.sig = lead[s].sig /\ l.asked = NoOne
        /\ l.todo = lead[s].todo \ {p}
    BY <1>1 DEF LeaderState
  <2>2. lead' = [lead EXCEPT ![s] = l]
    BY <1>3 DEF MeetShape
  <2> HIDE DEF l
  <2>3. /\ lead' \in [Sessions -> LeaderState] /\ lead'[s] = l
        /\ \A t \in Sessions : t # s => lead'[t] = lead[t]
    BY <2>1, <2>2, LeadIs
  <2> QED BY <2>1, <2>3
<1> QED BY <1>2, <1>3 DEF Request

LEMMA RequestShape ==
  ASSUME MeetShape, NEW s \in Sessions, NEW p \in Participants, Request(s, p)
  PROVE  MeetShape'
<1>1. /\ lead' \in [Sessions -> LeaderState]
      /\ \A t \in Sessions : t # s => lead'[t] = lead[t]
      /\ lead'[s].stage = lead[s].stage /\ lead'[s].peers = lead[s].peers
      /\ \/ lead'[s].asked = p /\ lead'[s].todo = lead[s].todo
         \/ lead'[s].asked = NoOne /\ lead'[s].todo = lead[s].todo \ {p}
  BY RequestIs
<1>2. Challenge(s) \in Text
  BY ChallengeType
<1>3. /\ part' \in [Participants -> ParticipantState] /\ meetRx' \in [Participants -> Received]
      /\ \A q \in Participants : q # p => part'[q] = part[q] /\ meetRx'[q] = meetRx[q]
      /\ \/ part'[p] = part[p]
         \/ /\ part[p].stage = "waiting" /\ part'[p].stage = "computing" /\ part'[p].ask = Challenge(s)
            /\ part'[p].session = part[p].session
  <2>1. UNCHANGED <<part, meetRx>> \/ Asked(p, Challenge(s)) \/ AskedInPart(p)
    BY DEF Request
  <2> QED BY <1>2, <2>1, AskedIs
<1>4. p \in lead[s].todo /\ lead[s].stage = "sign" /\ UNCHANGED meetTx
  BY DEF Request
<1>5. \A t \in Sessions :
        /\ lead'[t].todo \subseteq lead'[t].peers
        /\ lead'[t].asked # NoOne => lead'[t].asked \in lead'[t].todo /\ lead'[t].stage = "sign"
  BY <1>1, <1>4 DEF MeetShape
<1>6. \A q \in Participants :
        /\ part'[q].stage # "idle" => part'[q].session \in Sessions
        /\ part'[q].stage \in {"computing", "signed"} => part'[q].ask \in Text
  BY <1>2, <1>3 DEF MeetShape
<1> QED BY <1>1, <1>3, <1>4, <1>5, <1>6 DEF MeetShape

LEMMA DeliverShape ==
  ASSUME MeetShape, NEW s \in Sessions, NEW p \in Participants, DeliverFinal(s, p)
  PROVE  MeetShape'
<1>1. lead[s] \in LeaderState /\ lead[s].todo \subseteq lead[s].peers /\ lead[s].asked = NoOne
  BY DEF MeetShape, DeliverFinal
<1> DEFINE l == [lead[s] EXCEPT !.todo = @ \ {p}]
<1>2. l \in LeaderState /\ l.peers = lead[s].peers /\ l.asked = NoOne /\ l.todo = lead[s].todo \ {p}
  BY <1>1 DEF LeaderState
<1>3. lead' = [lead EXCEPT ![s] = l] /\ UNCHANGED <<part, meetTx>>
  BY DEF MeetShape, DeliverFinal
<1>4. meetRx' \in [Participants -> Received]
  BY FinalType DEF MeetShape, DeliverFinal
<1> HIDE DEF l
<1> QED BY <1>1, <1>2, <1>3, <1>4, LeadShape

LEMMA ShapeStep == MeetShape /\ [MeetNext]_meetVars => MeetShape'
<1> SUFFICES ASSUME MeetShape, [MeetNext]_meetVars PROVE MeetShape'
  OBVIOUS
<1>1. CASE UNCHANGED meetVars
  BY <1>1 DEF meetVars, MeetShape
<1> QED BY <1>1, JustLeads, TakesPart, RequestShape, DeliverShape DEF MeetNext

-----------------------------------------------------------------------------
\* A run is the owner's number of it, so a nonce names both.
LEMMA NonceNames ==
  ASSUME NEW p, NEW q, NEW m, NEW n, Nonce(p, m) = Nonce(q, n)
  PROVE  p = q /\ m = n
<1>1. Nonce(p, m).by = Nonce(q, n).by /\ Nonce(p, m).run = Nonce(q, n).run
  OBVIOUS
<1> QED BY <1>1 DEF Nonce

\* A badge that goes on with its run, or is done with it, and signs nothing.
LEMMA NoncesKept ==
  ASSUME MeetShape, NonceInv, NEW p \in Participants, UNCHANGED signed,
         \A q \in Participants : q # p => part'[q] = part[q],
         part'[p].run = part[p].run,
         part'[p].stage # "idle" => part[p].stage # "idle" /\ part'[p].nonce = part[p].nonce,
         part[p].stage \in {"idle", "signed"} => part'[p].stage \in {"idle", "signed"}
  PROVE  NonceInv'
<1>1. \A q \in Participants : part'[q].stage # "idle" => part'[q].nonce = Nonce(q, part'[q].run)
  BY DEF NonceInv, OwnNonce
<1>2. ASSUME NEW a \in signed PROVE SpentByNow(a)'
  <2>1. PICK q \in Participants, n \in Nat :
          /\ a.nonce = Nonce(q, n) /\ n <= part[q].run
          /\ n = part[q].run => part[q].stage \in {"idle", "signed"}
    BY DEF NonceInv, SpentByNow
  <2>2. part'[q].run = part[q].run
    OBVIOUS
  <2>3. part[q].stage \in {"idle", "signed"} => part'[q].stage \in {"idle", "signed"}
    OBVIOUS
  <2> QED BY <2>1, <2>2, <2>3 DEF SpentByNow
<1> QED BY <1>1, <1>2 DEF NonceInv, OwnNonce, NonceSignsOnce

LEMMA JoinKeepsNonces ==
  ASSUME MeetShape, NonceInv, NEW p \in Participants, NEW s \in Sessions, Join(p, s)
  PROVE  NonceInv'
<1>1. /\ part[p].run \in Nat /\ UNCHANGED signed
      /\ part'[p].run = part[p].run + 1 /\ part'[p].nonce = Nonce(p, part[p].run + 1)
      /\ \A q \in Participants : q # p => part'[q] = part[q]
  BY DEF MeetShape, ParticipantState, Join, FreshNonce
<1>2. \A q \in Participants : part'[q].stage # "idle" => part'[q].nonce = Nonce(q, part'[q].run)
  BY <1>1 DEF NonceInv, OwnNonce
<1>3. ASSUME NEW a \in signed PROVE SpentByNow(a)'
  <2>1. PICK q \in Participants, n \in Nat :
          /\ a.nonce = Nonce(q, n) /\ n <= part[q].run
          /\ n = part[q].run => part[q].stage \in {"idle", "signed"}
    BY DEF NonceInv, SpentByNow
  <2>2. CASE q # p
    BY <1>1, <2>1, <2>2 DEF SpentByNow
  <2>3. CASE q = p
    <3>1. n <= part'[q].run /\ n # part'[q].run
      BY <1>1, <2>1, <2>3
    <3> QED BY <2>1, <3>1 DEF SpentByNow
  <2> QED BY <2>2, <2>3
<1> QED BY <1>1, <1>2, <1>3 DEF NonceInv, OwnNonce, NonceSignsOnce

LEMMA SignKeepsNonces ==
  ASSUME MeetShape, NonceInv, NEW p \in Participants, Sign(p)
  PROVE  NonceInv'
<1> DEFINE sig == PartSig(part[p].nonce, part[p].ask)
<1>1. /\ part[p].run \in Nat /\ part[p].stage = "computing"
      /\ part'[p].stage = "signed" /\ part'[p].run = part[p].run /\ part'[p].nonce = part[p].nonce
      /\ \A q \in Participants : q # p => part'[q] = part[q]
      /\ signed' = signed \cup {sig}
  BY DEF MeetShape, ParticipantState, Sign
<1>2. sig.nonce = Nonce(p, part[p].run)
  BY <1>1 DEF PartSig, NonceInv, OwnNonce
<1> HIDE DEF sig
<1>3. \A q \in Participants : part'[q].stage # "idle" => part'[q].nonce = Nonce(q, part'[q].run)
  BY <1>1 DEF NonceInv, OwnNonce
<1>4. ASSUME NEW a \in signed PROVE SpentByNow(a)' /\ a.nonce # sig.nonce
  <2>1. PICK q \in Participants, n \in Nat :
          /\ a.nonce = Nonce(q, n) /\ n <= part[q].run
          /\ n = part[q].run => part[q].stage \in {"idle", "signed"}
    BY DEF NonceInv, SpentByNow
  <2>2. part'[q].run = part[q].run
        /\ (part[q].stage \in {"idle", "signed"} => part'[q].stage \in {"idle", "signed"})
    BY <1>1
  <2>3. a.nonce # sig.nonce
    BY <1>1, <1>2, <2>1, NonceNames
  <2> QED BY <2>1, <2>2, <2>3 DEF SpentByNow
<1>5. ASSUME NEW a, a = sig PROVE SpentByNow(a)'
  <2>1. part[p].run <= part'[p].run
    BY <1>1
  <2> QED BY <1>1, <1>2, <1>5, <2>1 DEF SpentByNow
<1>7. \A a \in signed' : SpentByNow(a)'
  BY <1>1, <1>4, <1>5
<1>6. NonceSignsOnce'
  BY <1>1, <1>4 DEF NonceSignsOnce, NonceInv
<1> QED BY <1>3, <1>6, <1>7 DEF NonceInv, OwnNonce

LEMMA NonceStep == MeetShape /\ NonceInv /\ [MeetNext]_meetVars => NonceInv'
<1> SUFFICES ASSUME MeetShape, NonceInv, [MeetNext]_meetVars PROVE NonceInv'
  OBVIOUS
<1>1. ASSUME UNCHANGED <<part, signed>> PROVE NonceInv'
  BY <1>1 DEF NonceInv, OwnNonce, SpentByNow, NonceSignsOnce
<1>2. CASE UNCHANGED meetVars
  BY <1>1, <1>2 DEF meetVars
<1>3. ASSUME NEW s \in Sessions,
             \/ Initiate(s) \/ GiveUp(s) \/ Proceed(s) \/ BeginSign(s) \/ ReadSig(s)
             \/ BeginDeliver(s) \/ SaveProof(s)
             \/ \E p \in Participants : FindPeer(s, p) \/ Gather(s, p) \/ DeliverFinal(s, p)
      PROVE  NonceInv'
  BY <1>1, <1>3 DEF Initiate, GiveUp, Proceed, BeginSign, ReadSig, BeginDeliver, SaveProof,
                    FindPeer, Gather, DeliverFinal
<1>4. ASSUME NEW p \in Participants, TakeFinal(p) \/ TimeOut(p) PROVE NonceInv'
  <2>1. /\ part'[p].stage = "idle" /\ part'[p].run = part[p].run /\ UNCHANGED signed
        /\ \A q \in Participants : q # p => part'[q] = part[q]
    BY <1>4 DEF TakeFinal, TimeOut, Leave, Away, MeetShape, ParticipantState
  <2> QED BY <2>1, NoncesKept
<1>5. ASSUME NEW s \in Sessions, NEW p \in Participants, Request(s, p) PROVE NonceInv'
  <2>1. UNCHANGED <<part, meetRx>> \/ Asked(p, Challenge(s)) \/ AskedInPart(p)
    BY <1>5 DEF Request
  <2>2. /\ \A q \in Participants : q # p => part'[q] = part[q]
        /\ \/ part'[p] = part[p]
           \/ /\ part[p].stage = "waiting" /\ part'[p].stage = "computing"
              /\ part'[p].run = part[p].run /\ part'[p].nonce = part[p].nonce
    BY <2>1, ChallengeType, AskedIs
  <2>3. UNCHANGED signed
    BY <1>5 DEF Request
  <2> QED BY <2>2, <2>3, NoncesKept
<1> QED BY <1>2, <1>3, <1>4, <1>5, JoinKeepsNonces, SignKeepsNonces DEF MeetNext

LEMMA MeetInitShape == MeetInit => MeetShape /\ NonceInv
<1> SUFFICES ASSUME MeetInit PROVE MeetShape /\ NonceInv
  OBVIOUS
<1>1. Leader("off") \in LeaderState /\ Leader("off").todo = {} /\ Leader("off").asked = NoOne
  BY LeaderType
<1>2. Away(0) \in ParticipantState /\ Away(0).stage = "idle"
  BY DEF Away, ParticipantState, NonceValue
<1>3. MeetShape
  BY <1>1, <1>2 DEF MeetInit, MeetShape, NonceValue, Received
<1>4. NonceInv
  BY <1>2 DEF MeetInit, NonceInv, NonceSignsOnce
<1> QED BY <1>3, <1>4

\* A nonce made by run_participant is put under one text only, whichever badges
\* lead, how many at once, and however often badges time out and join again.
THEOREM NoncesSignOnce == MeetSpec => []NonceSignsOnce
<1>1. MeetShape /\ NonceInv /\ [MeetNext]_meetVars => (MeetShape /\ NonceInv)'
  BY ShapeStep, NonceStep
<1>2. NonceInv => NonceSignsOnce
  BY DEF NonceInv
<1> QED BY <1>1, <1>2, MeetInitShape, PTL DEF MeetSpec

-----------------------------------------------------------------------------
\* No badge has more runs than all of them together.
RunsFit == \A p \in Participants : part[p].run <= RunMax

LEMMA RoomForARun ==
  ASSUME MeetShape, RunsFit, NEW p \in Participants, Runs < RunMax
  PROVE  part[p].run + 1 <= RunMax
<1>1. part[p].run \in Nat /\ part[p].run <= RunMax /\ RunMax \in Nat
  BY MeetAssumption DEF MeetShape, ParticipantState, RunsFit
<1>2. SUFFICES ASSUME part[p].run = RunMax PROVE FALSE
  BY <1>1
<1> DEFINE all == Participants \X (1..RunMax)
           had == {r \in all : r[2] <= part[r[1]].run}
           own == {p} \X (1..RunMax)
<1>3. IsFiniteSet(1..RunMax) /\ Cardinality(1..RunMax) = RunMax
  BY <1>1, FS_Interval
<1>4. IsFiniteSet(all)
  BY <1>3, MeetAssumption, FS_Product
<1>5. IsFiniteSet(had)
  <2>1. had \subseteq all
    OBVIOUS
  <2> QED BY <1>4, <2>1, FS_Subset
<1>6. own \subseteq had
  BY <1>2
<1>7. Cardinality(own) = RunMax
  <2>1. IsFiniteSet({p}) /\ Cardinality({p}) = 1
    BY FS_Singleton
  <2>2. Cardinality(own) = 1 * RunMax
    BY <1>3, <2>1, FS_Product
  <2> QED BY <1>1, <2>2
<1>8. Cardinality(own) <= Cardinality(had)
  BY <1>5, <1>6, FS_Subset
<1>9. Runs = Cardinality(had)
  BY DEF Runs
<1>10. Cardinality(had) \in Nat
  BY <1>5, FS_CardinalityType
<1> HIDE DEF had, own
<1> QED BY <1>1, <1>7, <1>8, <1>9, <1>10

LEMMA RunsFitStep == MeetShape /\ RunsFit /\ [MeetNext]_meetVars => RunsFit'
<1> SUFFICES ASSUME MeetShape, RunsFit, [MeetNext]_meetVars PROVE RunsFit'
  OBVIOUS
<1>1. part \in [Participants -> ParticipantState]
  BY DEF MeetShape
<1>2. ASSUME NEW p \in Participants, NEW r \in ParticipantState, r.run <= RunMax,
             part' = [part EXCEPT ![p] = r]
      PROVE  RunsFit'
  BY <1>2, PartIs DEF RunsFit
<1>3. ASSUME NEW p \in Participants, NEW s \in Sessions, Join(p, s) PROVE RunsFit'
  <2> DEFINE r == [stage |-> "waiting", run |-> part[p].run + 1, session |-> s,
                   nonce |-> FreshNonce(p), ask |-> NoValue]
  <2>1. part[p].run + 1 \in Nat /\ part[p].run + 1 <= RunMax
    BY <1>1, <1>3, RoomForARun DEF Join, ParticipantState
  <2>2. FreshNonce(p) \in NonceValue
    BY <2>1, NonceType DEF FreshNonce
  <2>3. r \in ParticipantState /\ r.run <= RunMax
    BY <2>1, <2>2 DEF ParticipantState
  <2>4. part' = [part EXCEPT ![p] = r]
    BY <1>3 DEF Join
  <2> HIDE DEF r
  <2> QED BY <1>2, <2>3, <2>4
<1>4. ASSUME NEW p \in Participants, \A q \in Participants : part'[q].run = part[q].run
      PROVE  RunsFit'
  BY <1>4 DEF RunsFit
<1>5. ASSUME NEW p \in Participants, Sign(p) \/ TakeFinal(p) \/ TimeOut(p) PROVE RunsFit'
  <2>1. \/ part' = [part EXCEPT ![p].stage = "signed"]
        \/ part' = [part EXCEPT ![p] = Away(@.run)]
    BY <1>5 DEF Sign, TakeFinal, TimeOut, Leave
  <2>2. \A q \in Participants : part'[q].run = part[q].run
    BY <1>1, <2>1 DEF Away, ParticipantState
  <2> QED BY <1>4, <2>2
<1>6. ASSUME NEW p \in Participants, NEW s \in Sessions, Request(s, p) PROVE RunsFit'
  <2>1. \/ UNCHANGED part
        \/ part' = [part EXCEPT ![p].stage = "computing", ![p].ask = Challenge(s)]
    BY <1>6 DEF Request, Asked, AskedInPart
  <2>2. \A q \in Participants : part'[q].run = part[q].run
    BY <1>1, <2>1 DEF ParticipantState
  <2> QED BY <1>4, <2>2
<1>7. CASE UNCHANGED part
  BY <1>7 DEF RunsFit
<1>8. ASSUME NEW p \in Participants, NEW s \in Sessions,
             FindPeer(s, p) \/ Gather(s, p) \/ DeliverFinal(s, p)
      PROVE  UNCHANGED part
  BY <1>8 DEF FindPeer, Gather, DeliverFinal
<1>9. ASSUME NEW s \in Sessions,
             \/ Initiate(s) \/ GiveUp(s) \/ Proceed(s) \/ BeginSign(s) \/ ReadSig(s)
             \/ BeginDeliver(s) \/ SaveProof(s)
      PROVE  UNCHANGED part
  BY <1>9 DEF Initiate, GiveUp, Proceed, BeginSign, ReadSig, BeginDeliver, SaveProof
<1>10. UNCHANGED meetVars => UNCHANGED part
  BY DEF meetVars
<1> QED BY <1>3, <1>5, <1>6, <1>7, <1>8, <1>9, <1>10 DEF MeetNext

LEMMA MeetInitRuns == MeetInit => RunsFit
  BY MeetAssumption DEF MeetInit, Away, RunsFit

LEMMA MeetTyped == MeetShape /\ RunsFit => MeetTypeOK
<1> SUFFICES ASSUME MeetShape, RunsFit PROVE MeetTypeOK
  OBVIOUS
<1>1. ASSUME NEW s \in Sessions
      PROVE  /\ lead[s].stage \in {"off", "discover", "gather", "sign", "deliver", "over"}
             /\ lead[s].todo \subseteq lead[s].peers /\ lead[s].peers \subseteq Participants
             /\ lead[s].asked \in lead[s].todo \cup {NoOne}
  <2>1. /\ lead[s] \in LeaderState /\ lead[s].todo \subseteq lead[s].peers
        /\ lead[s].asked # NoOne => lead[s].asked \in lead[s].todo
    BY DEF MeetShape
  <2> QED BY <2>1 DEF LeaderState
<1>2. ASSUME NEW p \in Participants
      PROVE  /\ part[p].stage \in {"idle", "waiting", "computing", "signed"}
             /\ part[p].run \in 0..RunMax
             /\ meetTx[p].kind \in {"none", "nonce", "sig"}
  <2>1. part[p] \in ParticipantState /\ meetTx[p] \in NonceValue \cup SigValue
    BY DEF MeetShape
  <2>2. part[p].run \in 0..RunMax
    BY <2>1, MeetAssumption DEF ParticipantState, RunsFit
  <2>3. meetTx[p].kind \in {"none", "nonce", "sig"}
    BY <2>1 DEF NonceValue, SigValue, Signature, NoValue
  <2> QED BY <2>1, <2>2, <2>3 DEF ParticipantState
<1> QED BY <1>1, <1>2 DEF MeetTypeOK

-----------------------------------------------------------------------------
\* What the text of a session is made from.
LEMMA SameText ==
  ASSUME NEW s \in Sessions, lead'[s].nonce = lead[s].nonce, lead'[s].peers = lead[s].peers
  PROVE  Challenge(s)' = Challenge(s)
BY DEF Challenge

\* While one badge leads, the others' records are those of leaders that are off or over.
LEMMA LeaderMoves ==
  ASSUME MeetShape, TextInv, NEW s \in Sessions, Leads(s) \/ \A t \in Sessions : ~Leads(t),
         \A t \in Sessions : t # s => lead'[t] = lead[t],
         LeaderInv(s)', Leads(s)' => \A p \in lead'[s].peers : PeerInv(s, p)',
         \A p \in Participants : PartInv(p)', SavedTextIsSigned'
  PROVE  TextInv'
<1>1. \A t \in Sessions : t # s => ~Leads(t) /\ ~Leads(t)'
  BY DEF TextInv, OneLeads, Leads
<1>2. ASSUME NEW t \in Sessions, t # s PROVE LeaderInv(t)'
  <2>1. lead'[t] = lead[t] /\ LeaderInv(t) /\ ~Leads(t)
    BY <1>1, <1>2 DEF TextInv
  <2> QED BY <2>1 DEF LeaderInv, Leads, Settled
<1>3. OneLeads'
  BY <1>1 DEF OneLeads
<1>4. \A t \in Sessions : LeaderInv(t)'
  BY <1>2
<1>5. \A t \in Sessions : Leads(t)' => \A p \in lead'[t].peers : PeerInv(t, p)'
  BY <1>1
<1> QED BY <1>3, <1>4, <1>5 DEF TextInv

\* A badge that takes part moves on, and no leader does.
LEMMA PartMoves ==
  ASSUME MeetShape, TextInv, NEW p \in Participants, UNCHANGED lead,
         \A q \in Participants : q # p =>
           part'[q] = part[q] /\ meetTx'[q] = meetTx[q] /\ meetRx'[q] = meetRx[q],
         part'[p].stage \in {"idle", "waiting"} \/ part[p].stage \notin {"idle", "waiting"},
         \A s \in Sessions : Leads(s) /\ p \in lead[s].peers => PeerInv(s, p)',
         PartInv(p)', SavedTextIsSigned'
  PROVE  TextInv'
<1>1. \A s \in Sessions : Challenge(s)' = Challenge(s)
  BY SameText
<1>2. OneLeads'
  BY DEF TextInv, OneLeads, Leads
<1>3. ASSUME NEW s \in Sessions PROVE LeaderInv(s)'
  <2>1. \A q \in lead[s].todo : q \in Participants
    BY DEF MeetShape, LeaderState
  <2>2. LeaderInv(s) /\ Challenge(s)' = Challenge(s)
    BY <1>1 DEF TextInv
  <2>3. \A q \in lead[s].todo : part[q].stage \in {"idle", "waiting"} => part'[q].stage \in {"idle", "waiting"}
    BY <2>1
  <2> QED BY <2>2, <2>3 DEF LeaderInv, Settled
<1>4. ASSUME NEW s \in Sessions, Leads(s)', NEW q \in lead'[s].peers PROVE PeerInv(s, q)'
  <2>1. Leads(s) /\ q \in lead[s].peers /\ q \in Participants
    BY <1>4 DEF Leads, MeetShape, LeaderState
  <2>2. CASE q # p
    BY <1>1, <2>1, <2>2 DEF TextInv, PeerInv, OwnNonce, Settled
  <2> QED BY <2>1, <2>2
<1>5. ASSUME NEW q \in Participants PROVE PartInv(q)'
  <2>1. CASE q # p
    <3>1. /\ part'[q] = part[q] /\ meetTx'[q] = meetTx[q] /\ meetRx'[q] = meetRx[q] /\ PartInv(q)
          /\ part[q].stage # "idle" => part[q].session \in Sessions
      BY <2>1 DEF TextInv, MeetShape
    <3> QED BY <1>1, <3>1 DEF PartInv, OwnNonce, Settled
  <2> QED BY <2>1
<1> QED BY <1>2, <1>3, <1>4, <1>5 DEF TextInv

\* What a badge has seen of its session stays true while its leader goes on.
LEMMA PartKept ==
  ASSUME MeetShape, NEW s \in Sessions, \A t \in Sessions : t # s => lead'[t] = lead[t],
         Settled(s) \/ lead[s].stage = "over" =>
           /\ Settled(s)' \/ lead'[s].stage = "over"
           /\ Settled(s)' => Settled(s) /\ Challenge(s)' = Challenge(s)
           /\ lead[s].stage \in {"deliver", "over"} => lead'[s].stage \in {"deliver", "over"},
         NEW p \in Participants, PartInv(p),
         part'[p] = part[p], meetTx'[p] = meetTx[p], meetRx'[p] = meetRx[p]
  PROVE  PartInv(p)'
<1>1. part[p].stage # "idle" => part[p].session \in Sessions
  BY DEF MeetShape
<1>2. CASE part[p].stage \notin {"computing", "signed"}
  BY <1>2 DEF PartInv, OwnNonce
<1>3. CASE part[p].stage \in {"computing", "signed"} /\ part[p].session = s
  BY <1>3 DEF PartInv, OwnNonce
<1>4. CASE part[p].stage \in {"computing", "signed"} /\ part[p].session # s
  <2>1. lead'[part[p].session] = lead[part[p].session]
    BY <1>1, <1>4
  <2>2. Challenge(part[p].session)' = Challenge(part[p].session)
    BY <1>1, <1>4, <2>1 DEF Challenge
  <2> QED BY <1>4, <2>1, <2>2 DEF PartInv, OwnNonce, Settled
<1> QED BY <1>2, <1>3, <1>4

\* The sum over all the list verifies if none of its parts is missing.
LEMMA FinalIsSigned ==
  ASSUME NEW s \in Sessions, LeaderInv(s), Settled(s)
  PROVE  SignedAs(Challenge(s), Final(s))
<1> DEFINE C == Challenge(s)
           L == lead[s]
<1>1. \A p \in L.peers : L.sig[p] \in {NoValue, PartSig(L.nonce[p], C)}
  BY DEF LeaderInv
<1>2. /\ Final(s).of = C /\ Final(s).sigs = {L.sig[p] : p \in L.peers}
      /\ C.nonces = {L.nonce[p] : p \in L.peers}
  BY DEF Final, Challenge
<1> HIDE DEF C, L
<1>3. ASSUME NoValue \notin Final(s).sigs PROVE Final(s).sigs = {PartSig(n, C) : n \in C.nonces}
  <2>1. \A p \in L.peers : L.sig[p] = PartSig(L.nonce[p], C)
    BY <1>1, <1>2, <1>3
  <2> QED BY <1>2, <2>1
<1>4. SignedAs(C, Final(s))
  BY <1>2, <1>3 DEF SignedAs, Verifies
<1> QED BY <1>4 DEF C

-----------------------------------------------------------------------------
LEMMA NextStageIs ==
  ASSUME MeetShape, NEW s \in Sessions, NEW stage \in {"gather", "sign", "deliver"}, NextStage(s, stage)
  PROVE  /\ \A t \in Sessions : t # s => lead'[t] = lead[t]
         /\ lead'[s].stage = stage /\ lead'[s].todo = lead[s].peers
         /\ lead'[s].peers = lead[s].peers /\ lead'[s].asked = lead[s].asked
         /\ lead'[s].nonce = lead[s].nonce /\ lead'[s].sig = lead[s].sig
BY DEF NextStage, MeetShape, LeaderState

LEMMA LeaderGone ==
  ASSUME ~overlap, MeetShape, TextInv, NEW s \in Sessions, Leads(s),
         lead' = [lead EXCEPT ![s] = Leader("over")],
         UNCHANGED <<part, meetTx, meetRx>>, SavedTextIsSigned'
  PROVE  TextInv'
<1>1. lead'[s].stage = "over" /\ \A t \in Sessions : t # s => lead'[t] = lead[t]
  BY LeaderType, LeadIs DEF Leader
<1>2. LeaderInv(s)' /\ ~Leads(s)'
  BY <1>1 DEF LeaderInv, Leads, Settled
<1>3. \A p \in Participants : PartInv(p)'
  <2>1. Settled(s)' \/ lead'[s].stage = "over"
    BY <1>1
  <2>2. ~Settled(s)'
    BY <1>1 DEF Settled
  <2>3. lead'[s].stage \in {"deliver", "over"}
    BY <1>1
  <2> QED BY <1>1, <2>1, <2>2, <2>3, PartKept DEF TextInv
<1> QED BY <1>1, <1>2, <1>3, LeaderMoves

LEMMA DiscoverKeepsText ==
  ASSUME ~overlap, MeetShape, TextInv, NEW s \in Sessions,
         Initiate(s) \/ Proceed(s) \/ \E p \in Participants : FindPeer(s, p)
  PROVE  TextInv'
<1>1. /\ LeaderInv(s) /\ lead[s].stage \in {"off", "discover"}
      /\ UNCHANGED <<overlap, part, meetTx, meetRx, saved>> /\ SavedTextIsSigned
  BY DEF TextInv, Initiate, Proceed, FindPeer
<1>2. SavedTextIsSigned'
  BY <1>1 DEF SavedTextIsSigned
<1>3. ASSUME \A t \in Sessions : t # s => lead'[t] = lead[t] PROVE \A p \in Participants : PartInv(p)'
  <2>1. ~Settled(s) /\ lead[s].stage # "over"
    BY <1>1 DEF Settled
  <2> QED BY <1>1, <1>3, <2>1, PartKept DEF TextInv
<1>4. \A p \in Participants : lead[s].nonce[p] = NoValue /\ lead[s].sig[p] = NoValue
  BY <1>1 DEF LeaderInv
<1>5. CASE Initiate(s)
  <2>1. /\ lead[s].stage = "off" /\ lead[s].peers = {}
        /\ \A t \in Sessions : ~Leads(t)
    BY <1>1, <1>5 DEF Initiate, LeaderInv, Leads
  <2>2. /\ \A t \in Sessions : t # s => lead'[t] = lead[t]
        /\ lead'[s].stage = "discover" /\ lead'[s].peers = {}
        /\ lead'[s].nonce = lead[s].nonce /\ lead'[s].sig = lead[s].sig
    BY <1>5, <2>1 DEF Initiate, MeetShape, LeaderState
  <2>3. LeaderInv(s)'
    BY <1>4, <2>2 DEF LeaderInv, Settled
  <2> QED BY <1>2, <1>3, <2>1, <2>2, <2>3, LeaderMoves
<1>6. ASSUME lead[s].stage = "discover", lead'[s].stage \in {"discover", "gather"},
             \A t \in Sessions : t # s => lead'[t] = lead[t],
             lead'[s].nonce = lead[s].nonce, lead'[s].sig = lead[s].sig,
             \A p \in lead'[s].peers : p \in Participants /\ (p \in lead[s].peers \/ PeerInv(s, p))
      PROVE  TextInv'
  <2>1. Leads(s) /\ LeaderInv(s)'
    BY <1>4, <1>6 DEF LeaderInv, Settled, Leads
  <2>2. ASSUME NEW p \in lead'[s].peers PROVE PeerInv(s, p)'
    <3>1. PeerInv(s, p) /\ p \in Participants
      BY <1>6, <2>1, <2>2 DEF TextInv
    <3>2. ~Settled(s) /\ lead'[s].nonce[p] = NoValue
      BY <1>4, <1>6, <3>1 DEF Settled
    <3> QED BY <1>1, <1>6, <3>1, <3>2 DEF PeerInv, OwnNonce
  <2> QED BY <1>2, <1>3, <1>6, <2>1, <2>2, LeaderMoves
<1>7. CASE Proceed(s)
  <2>1. \A p \in lead[s].peers : p \in Participants
    BY DEF MeetShape, LeaderState
  <2> QED BY <1>6, <1>7, <2>1, NextStageIs DEF Proceed
<1>8. ASSUME NEW p \in Participants, FindPeer(s, p) PROVE TextInv'
  <2>1. /\ lead[s].stage = "discover" /\ part[p].stage # "idle" /\ part[p].session = s
        /\ PartInv(p) /\ part[p] \in ParticipantState
    BY <1>8 DEF FindPeer, Advertises, Answers, TextInv, MeetShape
  <2>2. part[p].stage = "waiting"
    BY <2>1 DEF PartInv, Settled, ParticipantState
  <2>3. PeerInv(s, p)
    BY <2>1, <2>2 DEF PeerInv, PartInv
  <2>4. /\ \A t \in Sessions : t # s => lead'[t] = lead[t]
        /\ lead'[s].stage = "discover" /\ lead'[s].peers = lead[s].peers \cup {p}
        /\ lead'[s].nonce = lead[s].nonce /\ lead'[s].sig = lead[s].sig
    BY <1>8, <2>1 DEF FindPeer, MeetShape, LeaderState
  <2>5. \A q \in lead[s].peers : q \in Participants
    BY DEF MeetShape, LeaderState
  <2> QED BY <1>6, <2>1, <2>3, <2>4, <2>5
<1> QED BY <1>5, <1>7, <1>8

LEMMA GatherKeepsText ==
  ASSUME ~overlap, MeetShape, TextInv, NEW s \in Sessions,
         BeginSign(s) \/ \E p \in Participants : Gather(s, p)
  PROVE  TextInv'
<1>1. /\ LeaderInv(s) /\ lead[s].stage = "gather" /\ Leads(s) /\ ~Settled(s)
      /\ UNCHANGED <<overlap, part, meetTx, meetRx, saved>> /\ SavedTextIsSigned
      /\ \A p \in lead[s].peers : p \in Participants /\ PeerInv(s, p) /\ PartInv(p)
  BY DEF TextInv, BeginSign, Gather, Leads, Settled, MeetShape, LeaderState
<1>2. SavedTextIsSigned'
  BY <1>1 DEF SavedTextIsSigned
<1>3. ASSUME \A t \in Sessions : t # s => lead'[t] = lead[t] PROVE \A p \in Participants : PartInv(p)'
  BY <1>1, <1>3, PartKept DEF TextInv
<1>4. \A p \in lead[s].peers : part[p].stage \in {"idle", "waiting"}
  <2>1. \A p \in Participants : part[p].stage \in {"idle", "waiting", "computing", "signed"}
    BY DEF MeetShape, ParticipantState
  <2> QED BY <1>1, <2>1 DEF PeerInv, PartInv
<1>5. ASSUME NextStage(s, "sign"), \A p \in lead[s].peers : lead[s].nonce[p] # NoValue PROVE TextInv'
  <2>1. /\ \A t \in Sessions : t # s => lead'[t] = lead[t]
        /\ lead'[s].stage = "sign" /\ lead'[s].todo = lead[s].peers
        /\ lead'[s].peers = lead[s].peers
        /\ lead'[s].nonce = lead[s].nonce /\ lead'[s].sig = lead[s].sig
    BY <1>5, NextStageIs
  <2>2. LeaderInv(s)'
    BY <1>1, <1>4, <2>1 DEF LeaderInv
  <2>3. ASSUME NEW p \in lead'[s].peers PROVE PeerInv(s, p)'
    BY <1>1, <1>5, <2>1, <2>3 DEF PeerInv, OwnNonce
  <2> QED BY <1>1, <1>2, <1>3, <2>1, <2>2, <2>3, LeaderMoves
<1>6. CASE BeginSign(s)
  BY <1>1, <1>2, <1>5, <1>6, LeaderGone DEF BeginSign
<1>7. ASSUME NEW p \in Participants, Gather(s, p) PROVE TextInv'
  <2>1. PICK n \in {NoValue} \cup {v \in {meetTx[p]} : Advertises(p) /\ v.kind = "nonce"} :
          lead' = [lead EXCEPT ![s].todo = @ \ {p}, ![s].nonce[p] = n]
    BY <1>7 DEF Gather
  <2>2. p \in lead[s].peers
    BY <1>7 DEF Gather, MeetShape
  <2>3. n \in {NoValue, OwnNonce(p)}
    BY <1>1, <2>1, <2>2 DEF PeerInv
  <2>4. /\ \A t \in Sessions : t # s => lead'[t] = lead[t]
        /\ lead'[s].stage = "gather" /\ lead'[s].peers = lead[s].peers /\ lead'[s].sig = lead[s].sig
        /\ lead'[s].nonce[p] = n
        /\ \A q \in Participants : q # p => lead'[s].nonce[q] = lead[s].nonce[q]
    BY <1>1, <2>1 DEF MeetShape, LeaderState
  <2>5. LeaderInv(s)'
    BY <1>1, <2>4 DEF LeaderInv, Settled
  <2>6. ASSUME NEW q \in lead'[s].peers PROVE PeerInv(s, q)'
    BY <1>1, <2>3, <2>4, <2>6 DEF PeerInv, OwnNonce
  <2> QED BY <1>1, <1>2, <1>3, <2>4, <2>5, <2>6, LeaderMoves
<1> QED BY <1>6, <1>7

LEMMA SignKeepsText ==
  ASSUME ~overlap, MeetShape, TextInv, NEW s \in Sessions,
         ReadSig(s) \/ BeginDeliver(s) \/ SaveProof(s)
  PROVE  TextInv'
<1>1. /\ LeaderInv(s) /\ lead[s].stage \in {"sign", "deliver"} /\ Leads(s) /\ Settled(s)
      /\ UNCHANGED <<overlap, part, meetTx, meetRx>> /\ SavedTextIsSigned
      /\ \A p \in lead[s].peers : p \in Participants /\ PeerInv(s, p)
  BY DEF TextInv, ReadSig, BeginDeliver, SaveProof, Leads, Settled, MeetShape, LeaderState
<1>2. ASSUME \A t \in Sessions : t # s => lead'[t] = lead[t],
             lead'[s].stage \in {"sign", "deliver"}, lead[s].stage = "deliver" => lead'[s].stage = "deliver",
             lead'[s].peers = lead[s].peers, lead'[s].nonce = lead[s].nonce,
             LeaderInv(s)', UNCHANGED saved
      PROVE  TextInv'
  <2>1. SavedTextIsSigned'
    BY <1>1, <1>2 DEF SavedTextIsSigned
  <2>2. Settled(s)' /\ Challenge(s)' = Challenge(s)
    BY <1>2, SameText DEF Settled
  <2>3. \A p \in Participants : PartInv(p)'
    BY <1>1, <1>2, <2>2, PartKept DEF TextInv, Settled
  <2>4. ASSUME NEW p \in lead'[s].peers PROVE PeerInv(s, p)'
    BY <1>1, <1>2, <2>2, <2>4 DEF PeerInv, OwnNonce
  <2> QED BY <1>1, <1>2, <2>1, <2>3, <2>4, LeaderMoves
<1>3. CASE ReadSig(s)
  <2> DEFINE p == lead[s].asked
  <2>1. PICK v \in {NoValue} \cup {v \in {meetTx[p]} : v.kind = "sig"} :
          lead' = [lead EXCEPT ![s].todo = @ \ {p}, ![s].asked = NoOne, ![s].sig[p] = v]
    BY <1>3 DEF ReadSig
  <2>2. p \in lead[s].peers /\ lead[s].stage = "sign" /\ UNCHANGED saved
    BY <1>3 DEF ReadSig, MeetShape
  <2>3. \A q \in lead[s].todo : q # p => part[q].stage \in {"idle", "waiting"}
    BY <1>1, <2>2 DEF LeaderInv
  <2>4. v \in {NoValue, PartSig(lead[s].nonce[p], Challenge(s))}
    <3>1. /\ lead[s].nonce[p] = OwnNonce(p)
          /\ meetTx[p] = OwnNonce(p) \/ meetTx[p] = PartSig(OwnNonce(p), Challenge(s))
      BY <1>1, <2>2 DEF PeerInv
    <3>2. OwnNonce(p).kind # "sig"
      BY DEF OwnNonce, Nonce
    <3> QED BY <2>1, <3>1, <3>2
  <2>5. p \in Participants /\ lead[s].sig \in [Participants -> SigValue]
    BY <1>1, <2>2 DEF MeetShape, LeaderState
  <2> HIDE DEF p
  <2>6. /\ \A t \in Sessions : t # s => lead'[t] = lead[t]
        /\ lead'[s].stage = "sign" /\ lead'[s].peers = lead[s].peers
        /\ lead'[s].nonce = lead[s].nonce /\ lead'[s].todo = lead[s].todo \ {p}
        /\ lead'[s].sig = [lead[s].sig EXCEPT ![p] = v]
    BY <2>1, <2>2 DEF MeetShape, LeaderState
  <2>7. /\ lead'[s].sig[p] = v
        /\ \A q \in Participants : q # p => lead'[s].sig[q] = lead[s].sig[q]
    BY <2>5, <2>6
  <2>8. Settled(s)' /\ Challenge(s)' = Challenge(s)
    BY <2>6, SameText DEF Settled
  <2>9. \A q \in lead[s].peers : lead'[s].sig[q] \in {NoValue, PartSig(lead[s].nonce[q], Challenge(s))}
    BY <1>1, <2>4, <2>7 DEF LeaderInv
  <2>10. \A q \in lead'[s].todo : part'[q].stage \in {"idle", "waiting"}
    BY <1>1, <2>3, <2>6
  <2>11. LeaderInv(s)'
    BY <2>6, <2>8, <2>9, <2>10 DEF LeaderInv
  <2> QED BY <1>2, <2>2, <2>6, <2>11
<1>4. CASE BeginDeliver(s)
  <2>1. /\ \A t \in Sessions : t # s => lead'[t] = lead[t]
        /\ lead'[s].stage = "deliver" /\ lead'[s].peers = lead[s].peers
        /\ lead'[s].nonce = lead[s].nonce /\ lead'[s].sig = lead[s].sig /\ UNCHANGED saved
    BY <1>4, NextStageIs DEF BeginDeliver
  <2>2. Challenge(s)' = Challenge(s)
    BY <2>1, SameText
  <2>3. LeaderInv(s)'
    BY <1>1, <2>1, <2>2 DEF LeaderInv
  <2> QED BY <1>2, <2>1, <2>3
<1>5. CASE SaveProof(s)
  <2>1. SavedTextIsSigned'
    <3>1. CASE saved' = saved
      BY <1>1, <3>1 DEF SavedTextIsSigned
    <3>2. CASE saved' = Proof(s, Challenge(s), Final(s))
      <4>1. SignedAs(Challenge(s), Final(s)) /\ Challenge(s).session = s
        BY <1>1, FinalIsSigned DEF Challenge
      <4>2. saved'.session = s /\ saved'.of = Challenge(s) /\ saved'.final = Final(s)
        BY <3>2 DEF Proof
      <4> QED BY <4>1, <4>2 DEF SavedTextIsSigned, SignedAs
    <3> QED BY <1>5, <3>1, <3>2 DEF SaveProof
  <2> QED BY <1>1, <1>5, <2>1, LeaderGone DEF SaveProof
<1> QED BY <1>3, <1>4, <1>5

\* Round C reaches a badge that was asked for this text.
LEMMA DeliverKeepsText ==
  ASSUME ~overlap, MeetShape, TextInv, NEW s \in Sessions, NEW p \in Participants, DeliverFinal(s, p)
  PROVE  TextInv'
<1>1. /\ LeaderInv(s) /\ lead[s].stage = "deliver" /\ Leads(s) /\ Settled(s)
      /\ UNCHANGED <<overlap, part, meetTx, saved>> /\ SavedTextIsSigned
      /\ p \in lead[s].peers
      /\ \A q \in lead[s].peers : q \in Participants /\ PeerInv(s, q)
  BY DEF TextInv, DeliverFinal, Leads, Settled, MeetShape, LeaderState
<1>2. SavedTextIsSigned'
  BY <1>1 DEF SavedTextIsSigned
<1>3. /\ \A t \in Sessions : t # s => lead'[t] = lead[t]
      /\ lead'[s].stage = "deliver" /\ lead'[s].peers = lead[s].peers
      /\ lead'[s].nonce = lead[s].nonce /\ lead'[s].sig = lead[s].sig
  BY <1>1 DEF DeliverFinal, MeetShape, LeaderState
<1>4. Settled(s)' /\ Challenge(s)' = Challenge(s)
  BY <1>3, SameText DEF Settled
<1>5. LeaderInv(s)'
  BY <1>1, <1>3, <1>4 DEF LeaderInv
<1>6. ASSUME NEW q \in lead'[s].peers PROVE PeerInv(s, q)'
  BY <1>1, <1>3, <1>4, <1>6 DEF PeerInv, OwnNonce
<1>7. ASSUME NEW q \in Participants PROVE PartInv(q)'
  <2>1. CASE meetRx'[q] = meetRx[q]
    BY <1>1, <1>3, <1>4, <2>1, PartKept DEF TextInv
  <2>2. CASE meetRx'[q] # meetRx[q]
    <3>1. q = p /\ part[p].stage \in {"computing", "signed"} /\ meetRx'[p] = Final(s)
      BY <2>2 DEF DeliverFinal, MeetShape
    <3>2. part[p].session = s /\ PartInv(p)
      BY <1>1, <3>1 DEF PeerInv, TextInv
    <3>3. part[p].ask = Challenge(s) /\ SignedAs(part[p].ask, meetRx'[p])
      BY <1>1, <3>1, <3>2, FinalIsSigned DEF PartInv
    <3>4. part'[p] = part[p] /\ meetTx'[p] = meetTx[p]
      BY <1>1
    <3> QED BY <1>3, <1>4, <3>1, <3>2, <3>3, <3>4 DEF PartInv, OwnNonce
  <2> QED BY <2>1, <2>2
<1> QED BY <1>1, <1>2, <1>3, <1>5, <1>6, <1>7, LeaderMoves

\* Round 1.5 finds a badge that waits for it, or none.
LEMMA RequestKeepsText ==
  ASSUME ~overlap, MeetShape, TextInv, NEW s \in Sessions, NEW p \in Participants, Request(s, p)
  PROVE  TextInv'
<1>1. /\ LeaderInv(s) /\ lead[s].stage = "sign" /\ Leads(s) /\ Settled(s)
      /\ UNCHANGED <<overlap, meetTx, saved>> /\ SavedTextIsSigned
      /\ p \in lead[s].todo /\ p \in lead[s].peers /\ lead[s].asked = NoOne
      /\ \A q \in lead[s].peers : q \in Participants /\ PeerInv(s, q)
      /\ lead[s].todo \subseteq Participants
  BY DEF TextInv, Request, Leads, Settled, MeetShape, LeaderState
<1>2. SavedTextIsSigned'
  BY <1>1 DEF SavedTextIsSigned
<1>3. /\ \A t \in Sessions : t # s => lead'[t] = lead[t]
      /\ lead'[s].stage = "sign" /\ lead'[s].peers = lead[s].peers
      /\ lead'[s].nonce = lead[s].nonce /\ lead'[s].sig = lead[s].sig
      /\ \/ lead'[s].asked = p /\ lead'[s].todo = lead[s].todo
         \/ lead'[s].asked = NoOne /\ lead'[s].todo = lead[s].todo \ {p}
  BY <1>1, RequestIs
<1>4. Settled(s)' /\ Challenge(s)' = Challenge(s)
  BY <1>3, SameText DEF Settled
<1>5. \A q \in lead[s].todo : part[q].stage \in {"idle", "waiting"}
  <2>1. \A q \in lead[s].todo : q # NoOne
    BY <1>1, MeetAssumption
  <2> QED BY <1>1, <2>1 DEF LeaderInv
<1>6. /\ \A q \in Participants : q # p => part'[q] = part[q] /\ meetRx'[q] = meetRx[q]
      /\ \/ part'[p] = part[p] /\ (part[p].stage = "waiting" => meetRx' = meetRx)
         \/ /\ part[p].stage = "waiting" /\ part'[p].stage = "computing" /\ part'[p].ask = Challenge(s)
            /\ part'[p].run = part[p].run /\ part'[p].session = part[p].session
            /\ part'[p].nonce = part[p].nonce /\ meetRx' = meetRx
  <2>1. UNCHANGED <<part, meetRx>> \/ Asked(p, Challenge(s)) \/ AskedInPart(p)
    BY DEF Request
  <2> QED BY <2>1, AskedIs, ChallengeType
<1>7. meetRx' = meetRx
  <2>1. meetRx' = meetRx \/ part[p].stage # "idle"
    BY DEF Request, Advertises
  <2> QED BY <1>1, <1>5, <1>6, <2>1
<1>8. LeaderInv(s)'
  <2>1. \A q \in lead'[s].todo : q # lead'[s].asked => part'[q].stage \in {"idle", "waiting"}
    BY <1>1, <1>3, <1>5, <1>6
  <2> QED BY <1>1, <1>3, <1>4, <2>1 DEF LeaderInv
<1>9. ASSUME NEW q \in lead'[s].peers PROVE PeerInv(s, q)'
  <2>1. /\ PeerInv(s, q) /\ part'[q].run = part[q].run /\ part'[q].session = part[q].session
        /\ part'[q].stage # "idle" => part[q].stage # "idle"
    BY <1>1, <1>3, <1>6, <1>9
  <2> QED BY <1>1, <1>3, <1>4, <2>1 DEF PeerInv, OwnNonce
<1>10. ASSUME NEW q \in Participants PROVE PartInv(q)'
  <2>1. CASE part'[q] = part[q]
    BY <1>1, <1>3, <1>4, <1>7, <2>1, PartKept DEF TextInv
  <2>2. CASE part'[q] # part[q]
    <3>1. /\ q = p /\ part[p].stage = "waiting" /\ part'[p].stage = "computing"
          /\ part'[p].ask = Challenge(s) /\ part'[p].run = part[p].run
          /\ part'[p].session = part[p].session
      BY <1>6, <2>2
    <3>2. part[p].session = s /\ PartInv(p)
      BY <1>1, <3>1 DEF PeerInv, TextInv
    <3>3. meetTx'[p] = Nonce(p, part'[p].run) /\ meetRx'[p] = Unset
      BY <1>1, <1>7, <3>1, <3>2 DEF PartInv, OwnNonce
    <3>4. Challenge(s).session = s
      BY DEF Challenge
    <3> QED BY <1>4, <3>1, <3>2, <3>3, <3>4 DEF PartInv, OwnNonce
  <2> QED BY <2>1, <2>2
<1> QED BY <1>1, <1>2, <1>3, <1>8, <1>9, <1>10, LeaderMoves

LEMMA PartKeepsText ==
  ASSUME ~overlap, MeetShape, NonceInv, TextInv, NEW p \in Participants,
         Sign(p) \/ TakeFinal(p) \/ TimeOut(p) \/ \E s \in Sessions : Join(p, s)
  PROVE  TextInv'
<1>1. /\ UNCHANGED <<overlap, lead>> /\ PartInv(p) /\ SavedTextIsSigned
      /\ part[p] \in ParticipantState /\ p \in DOMAIN part /\ p \in DOMAIN meetTx /\ p \in DOMAIN meetRx
      /\ part[p].stage # "idle" => part[p].session \in Sessions /\ part[p].nonce = OwnNonce(p)
  BY DEF TextInv, Sign, TakeFinal, TimeOut, Leave, Join, MeetShape, NonceInv
<1>2. \A q \in Participants : q # p =>
        part'[q] = part[q] /\ meetTx'[q] = meetTx[q] /\ meetRx'[q] = meetRx[q]
  BY DEF Sign, TakeFinal, TimeOut, Leave, Join, MeetShape
<1>3. \A s \in Sessions : Challenge(s)' = Challenge(s) /\ (Settled(s)' <=> Settled(s))
  BY <1>1, SameText DEF Settled
<1>4. CASE UNCHANGED saved /\ \E s \in Sessions : Join(p, s)
  <2>1. PICK s \in Sessions : Join(p, s)
    BY <1>4
  <2>2. /\ part'[p].stage = "waiting" /\ part'[p].session = s /\ part'[p].run = part[p].run + 1
        /\ meetTx'[p] = Nonce(p, part[p].run + 1) /\ meetRx'[p] = Unset
        /\ lead[s].stage = "discover"
    BY <1>1, <2>1 DEF Join, FreshNonce
  <2>3. SavedTextIsSigned'
    BY <1>1, <1>4 DEF SavedTextIsSigned
  <2>4. PartInv(p)'
    BY <2>2 DEF PartInv, OwnNonce
  <2>5. ASSUME NEW t \in Sessions, Leads(t), p \in lead[t].peers PROVE PeerInv(t, p)'
    <3>1. t = s
      BY <2>2, <2>5 DEF TextInv, OneLeads, Leads
    <3>2. lead'[s].stage = "discover"
      BY <1>1, <2>2
    <3> QED BY <2>2, <3>1, <3>2 DEF PeerInv, OwnNonce
  <2> QED BY <1>1, <1>2, <2>2, <2>3, <2>4, <2>5, PartMoves
<1>5. CASE Sign(p)
  <2>1. /\ part[p].stage = "computing" /\ part'[p].stage = "signed" /\ part'[p].session = part[p].session
        /\ part'[p].run = part[p].run /\ part'[p].ask = part[p].ask
        /\ meetTx'[p] = PartSig(OwnNonce(p), part[p].ask) /\ meetRx'[p] = meetRx[p]
        /\ UNCHANGED saved
    BY <1>1, <1>5 DEF Sign, ParticipantState
  <2>2. SavedTextIsSigned'
    BY <1>1, <2>1 DEF SavedTextIsSigned
  <2>3. PartInv(p)'
    BY <1>1, <1>3, <2>1 DEF PartInv
  <2>4. ASSUME NEW t \in Sessions, Leads(t), p \in lead[t].peers PROVE PeerInv(t, p)'
    <3>1. PeerInv(t, p) /\ part[p].session = t
      BY <2>1, <2>4 DEF TextInv, PeerInv
    <3>2. Settled(t) /\ part[p].ask = Challenge(t)
      BY <1>1, <2>1, <2>4, <3>1 DEF PartInv, Leads
    <3>3. OwnNonce(p)' = OwnNonce(p)
      BY <2>1 DEF OwnNonce
    <3> QED BY <1>1, <1>3, <2>1, <3>1, <3>2, <3>3 DEF PeerInv
  <2> QED BY <1>1, <1>2, <2>1, <2>2, <2>3, <2>4, PartMoves
<1>6. CASE TakeFinal(p) \/ TimeOut(p)
  <2>1. /\ part'[p].stage = "idle" /\ part'[p].run = part[p].run
        /\ meetTx'[p] = meetTx[p] /\ meetRx'[p] = Unset
    BY <1>1, <1>6 DEF TakeFinal, TimeOut, Leave, Away
  <2>2. SavedTextIsSigned'
    <3>1. CASE saved' = saved
      BY <1>1, <3>1 DEF SavedTextIsSigned
    <3>2. CASE TakeFinal(p) /\ saved' = Proof(part[p].session, part[p].ask, meetRx[p])
      <4>1. SignedAs(part[p].ask, meetRx[p]) /\ part[p].ask.session = part[p].session
        BY <1>1, <3>2 DEF TakeFinal, PartInv
      <4>2. /\ saved'.session = part[p].session /\ saved'.of = part[p].ask
            /\ saved'.final = meetRx[p]
        BY <3>2 DEF Proof
      <4> QED BY <4>1, <4>2 DEF SavedTextIsSigned, SignedAs
    <3> QED BY <1>6, <3>1, <3>2 DEF TakeFinal, TimeOut
  <2>3. PartInv(p)'
    BY <2>1 DEF PartInv
  <2>4. ASSUME NEW t \in Sessions, Leads(t), p \in lead[t].peers PROVE PeerInv(t, p)'
    <3>1. PeerInv(t, p)
      BY <2>4 DEF TextInv
    <3>2. OwnNonce(p)' = OwnNonce(p)
      BY <2>1 DEF OwnNonce
    <3> QED BY <1>1, <1>3, <2>1, <3>1, <3>2 DEF PeerInv
  <2> QED BY <1>1, <1>2, <2>1, <2>2, <2>3, <2>4, PartMoves
<1>7. (\E s \in Sessions : Join(p, s)) => UNCHANGED saved
  BY DEF Join
<1> QED BY <1>4, <1>5, <1>6, <1>7

LEMMA TextStep == ~overlap /\ MeetShape /\ NonceInv /\ TextInv /\ [MeetNext]_meetVars => TextInv'
<1> SUFFICES ASSUME ~overlap, MeetShape, NonceInv, TextInv, [MeetNext]_meetVars PROVE TextInv'
  OBVIOUS
<1>1. CASE UNCHANGED meetVars
  <2>1. \A s \in Sessions : Challenge(s)' = Challenge(s)
    BY <1>1, SameText DEF meetVars
  <2>2. OneLeads' /\ SavedTextIsSigned'
    BY <1>1 DEF meetVars, TextInv, OneLeads, Leads, SavedTextIsSigned
  <2>3. \A s \in Sessions : LeaderInv(s)'
    BY <1>1, <2>1 DEF meetVars, TextInv, LeaderInv, Settled
  <2>4. \A s \in Sessions : Leads(s)' => \A p \in lead'[s].peers : PeerInv(s, p)'
    BY <1>1, <2>1 DEF meetVars, TextInv, PeerInv, OwnNonce, Settled, Leads
  <2>5. ASSUME NEW p \in Participants PROVE PartInv(p)'
    <3>1. PartInv(p) /\ (part[p].stage # "idle" => part[p].session \in Sessions)
      BY DEF TextInv, MeetShape
    <3> QED BY <1>1, <2>1, <3>1 DEF meetVars, PartInv, OwnNonce, Settled
  <2> QED BY <2>2, <2>3, <2>4, <2>5 DEF TextInv
<1>2. ASSUME NEW s \in Sessions, NEW p \in Participants,
             Join(p, s) \/ FindPeer(s, p) \/ Gather(s, p) \/ Request(s, p) \/ DeliverFinal(s, p)
      PROVE  TextInv'
  BY <1>2, DiscoverKeepsText, GatherKeepsText, DeliverKeepsText, RequestKeepsText, PartKeepsText
<1>3. ASSUME NEW p \in Participants, Sign(p) \/ TakeFinal(p) \/ TimeOut(p) PROVE TextInv'
  BY <1>3, PartKeepsText
<1>4. ASSUME NEW s \in Sessions, GiveUp(s) PROVE TextInv'
  <2>1. SavedTextIsSigned'
    BY <1>4 DEF GiveUp, TextInv, SavedTextIsSigned
  <2> QED BY <1>4, <2>1, LeaderGone DEF GiveUp, Leads
<1>5. ASSUME NEW s \in Sessions,
             \/ Initiate(s) \/ Proceed(s) \/ BeginSign(s) \/ ReadSig(s)
             \/ BeginDeliver(s) \/ SaveProof(s)
      PROVE  TextInv'
  BY <1>5, DiscoverKeepsText, GatherKeepsText, SignKeepsText
<1> QED BY <1>1, <1>2, <1>3, <1>4, <1>5 DEF MeetNext

\* While one badge leads at a time, the text in a saved proof is the one that was
\* signed, on the leader's badge and on those that took part, under the session
\* it belongs to (run_leader, and the rebuilt text of run_participant).
THEOREM SavedIsSigned == MeetSpec => []SavedTextIsSigned
<1>1. MeetInit => MeetInv
  <2> SUFFICES ASSUME MeetInit PROVE TextInv
    BY MeetInitShape DEF MeetInv
  <2>1. \A s \in Sessions : lead[s] = Leader("off")
    BY DEF MeetInit
  <2>2. \A p \in Participants : part[p].stage = "idle" /\ meetRx[p] = Unset
    BY DEF MeetInit, Away
  <2>3. \A s \in Sessions : LeaderInv(s) /\ ~Leads(s)
    BY <2>1 DEF LeaderInv, Leads, Settled, Leader
  <2>4. \A p \in Participants : PartInv(p)
    BY <2>2 DEF PartInv
  <2>5. SavedTextIsSigned
    BY DEF MeetInit, SavedTextIsSigned
  <2> QED BY <2>3, <2>4, <2>5 DEF TextInv, OneLeads
<1>2. MeetInv /\ [MeetNext]_meetVars => MeetInv'
  <2> SUFFICES ASSUME MeetInv, [MeetNext]_meetVars PROVE MeetInv'
    OBVIOUS
  <2>1. overlap' = overlap
    BY DEF MeetNext, meetVars, Join, FindPeer, Gather, Request, DeliverFinal, Sign, TakeFinal, TimeOut,
           Leave, Initiate, GiveUp, Proceed, BeginSign, ReadSig, BeginDeliver, SaveProof
  <2> QED BY <2>1, ShapeStep, NonceStep, TextStep DEF MeetInv
<1>3. MeetInv => SavedTextIsSigned
  BY DEF MeetInv, TextInv, SavedTextIsSigned
<1> QED BY <1>1, <1>2, <1>3, PTL DEF MeetSpec

-----------------------------------------------------------------------------
(***************************************************************************)
(* Games.  A badge can only greet one that advertises, none advertises     *)
(* outside of its phase of waiting, and a client came from a greeting: so  *)
(* while one greets or is a client, the other is not yet either, and       *)
(* cannot begin to greet.                                                  *)
(***************************************************************************)
Board ==
  [match : Nat, discs : Nat, turn : {"host", "client"},
   winner : {Nobody, "host", "client", "draw"}, end : {Nobody, "quit", "anticheat"}]

Player ==
  [stage : {"menu", "searching", "waiting", "scanning", "greeting"} \cup Host \cup Client,
   round : Nat, since : Nat, board : Board, seq : Nat, wrong : Nat]

Packet == [kind : {"none", "hello", "bye"}] \cup [kind : {"move"}, seq : Nat, seen : Nat]

GameShape ==
  /\ game \in [Badges -> Player]
  /\ adv \in [Badges -> BOOLEAN] /\ conn \in [Badges -> BOOLEAN]
  /\ gameTx \in [Badges -> Board]
  /\ gameRx \in [Badges -> [msg : Packet, ready : Nat]]

\* On the way to the client's part.
Greeting == {"greeting"} \cup Client

GameInv ==
  /\ GameShape
  /\ \A b \in Badges : adv[b] => At(b, {"waiting"})
  /\ \E b \in Badges : ~At(b, Greeting)

LEMMA OtherIsAnother == ASSUME NEW b \in Badges PROVE Other(b) \in Badges /\ Other(b) # b
<1>1. \E o \in Badges : o # b
  <2>1. SUFFICES ASSUME \A o \in Badges : o = b PROVE FALSE
    OBVIOUS
  <2>2. Badges = {b}
    BY <2>1
  <2>3. Cardinality({b}) = 1
    BY FS_Singleton
  <2> QED BY <2>2, <2>3, GameAssumption
<1> QED BY <1>1 DEF Other

LEMMA AppliedIsBoard ==
  ASSUME NEW board \in Board, NEW after \in Applied(board)
  PROVE  after \in Board
<1>1. [board EXCEPT !.discs = @ + 1] \in Board
  BY DEF Board
<1>2. ASSUME NEW w \in {board.turn, "draw"}, NEW n \in Board PROVE [n EXCEPT !.winner = w] \in Board
  BY DEF Board
<1>3. ASSUME NEW n \in Board, NEW t \in {"host", "client"} PROVE [n EXCEPT !.turn = t] \in Board
  BY DEF Board
<1> QED BY <1>1, <1>2, <1>3 DEF Applied

\* One badge moves on: it neither greets nor advertises where it did not.
LEMMA BadgeMoves ==
  ASSUME GameInv, NEW b \in Badges, GameShape',
         \A o \in Badges : o # b => game'[o].stage = game[o].stage /\ adv'[o] = adv[o],
         adv'[b] => At(b, {"waiting"})',
         At(b, Greeting)' => At(b, Greeting)
  PROVE  GameInv'
<1>1. \A o \in Badges : adv'[o] => At(o, {"waiting"})'
  BY DEF GameInv, At
<1>2. \E o \in Badges : ~At(o, Greeting)'
  <2>1. PICK o \in Badges : ~At(o, Greeting)
    BY DEF GameInv
  <2>2. ~At(o, Greeting)'
    BY <2>1 DEF At
  <2> QED BY <2>2
<1> QED BY <1>1, <1>2 DEF GameInv

LEMMA EndsKeepsInv ==
  ASSUME GameInv, NEW b \in Badges, NEW g \in Player,
         NEW r \in [Badges -> [msg : Packet, ready : Nat]],
         Ends(b, g, r), gameTx' \in [Badges -> Board]
  PROVE  GameInv'
<1>1. /\ [g EXCEPT !.stage = "menu"] \in Player
      /\ [g EXCEPT !.stage = "menu"].stage = "menu"
  BY DEF Player
<1>2. Cleared \in [msg : Packet, ready : Nat]
  BY DEF Cleared, NoMessage, Packet
<1>3. /\ game' \in [Badges -> Player] /\ game'[b].stage = "menu"
      /\ \A o \in Badges : o # b => game'[o] = game[o]
  BY <1>1 DEF Ends, GameInv, GameShape
<1>4. /\ adv' \in [Badges -> BOOLEAN] /\ ~adv'[b]
      /\ \A o \in Badges : o # b => adv'[o] = adv[o]
  BY DEF Ends, GameInv, GameShape
<1>5. conn' \in [Badges -> BOOLEAN]
  BY DEF Ends, GameInv, GameShape
<1>6. gameRx' \in [Badges -> [msg : Packet, ready : Nat]]
  BY <1>2 DEF Ends
<1>7. GameShape'
  BY <1>3, <1>4, <1>5, <1>6 DEF GameShape
<1> QED BY <1>3, <1>4, <1>7, BadgeMoves DEF At, Greeting, Client

\* A badge goes to another stage; the rest of its locals are what they were.
LEMMA GoKeepsInv ==
  ASSUME GameInv, NEW b \in Badges, NEW g \in Player, game' = [game EXCEPT ![b] = g],
         UNCHANGED gameTx, gameRx' \in [Badges -> [msg : Packet, ready : Nat]],
         conn' \in [Badges -> BOOLEAN],
         adv' \in [Badges -> BOOLEAN], \A o \in Badges : o # b => adv'[o] = adv[o],
         adv'[b] => g.stage = "waiting",
         g.stage \in Greeting => At(b, Greeting)
  PROVE  GameInv'
<1>1. game' \in [Badges -> Player] /\ game'[b] = g /\ \A o \in Badges : o # b => game'[o] = game[o]
  BY DEF GameInv, GameShape
<1>2. GameShape'
  BY <1>1 DEF GameInv, GameShape
<1> QED BY <1>1, <1>2, BadgeMoves DEF At

\* What a write leaves in the receive buffer.
LEMMA DeliveredShape ==
  ASSUME GameShape, NEW b \in Badges, NEW m \in Packet
  PROVE  Delivered(b, m) \in [Badges -> [msg : Packet, ready : Nat]]
<1>1. \A n \in Nat : (IF n < Tokens THEN n + 1 ELSE n) \in Nat
  BY DEF Tokens
<1>2. gameRx \in [Badges -> [msg : Packet, ready : Nat]]
  BY DEF GameShape
<1> QED BY <1>1, <1>2 DEF Delivered

LEMMA WrittenShape ==
  ASSUME GameShape, NEW b \in Badges, NEW m \in Packet, NEW r \in Written(b, m)
  PROVE  r \in [Badges -> [msg : Packet, ready : Nat]]
BY OtherIsAnother, DeliveredShape DEF Written, GameShape

LEMMA TakesShape ==
  ASSUME GameShape, NEW b \in Badges, Takes(b)
  PROVE  gameRx' \in [Badges -> [msg : Packet, ready : Nat]]
<1>1. \A n \in Nat : n > 0 => n - 1 \in Nat
  OBVIOUS
<1>2. gameRx \in [Badges -> [msg : Packet, ready : Nat]] /\ gameRx[b].ready > 0
  BY DEF Takes, GameShape
<1>3. gameRx' = [gameRx EXCEPT ![b].ready = gameRx[b].ready - 1]
  BY DEF Takes
<1>4. gameRx[b].ready - 1 \in Nat
  BY <1>1, <1>2
<1> QED BY <1>2, <1>3, <1>4

\* games_ble_discover, up to the match.
LEMMA DiscoverKeepsInv ==
  ASSUME GameInv, NEW b \in Badges,
         Discover(b) \/ Cancel(b) \/ Advertise(b) \/ HearWrite(b) \/ HearNothing(b)
           \/ GreetFails(b) \/ FindNobody(b) \/ LinkBreaks(b)
  PROVE  GameInv'
<1>1. /\ GameShape /\ game[b] \in Player
      /\ adv[b] => game[b].stage = "waiting"
  BY DEF GameInv, GameShape, At
<1>2. ASSUME NEW st \in {"searching", "waiting", "scanning", "starting"}
      PROVE  /\ [game[b] EXCEPT !.stage = st] \in Player
             /\ [game[b] EXCEPT !.stage = st].stage = st
             /\ st \notin Greeting
  BY <1>1 DEF Player, Greeting, Client, Host
<1>3. ASSUME NEW st \in {"searching", "waiting", "scanning", "starting"}, Go(b, st),
             UNCHANGED gameTx, gameRx' \in [Badges -> [msg : Packet, ready : Nat]],
             conn' \in [Badges -> BOOLEAN],
             adv' = adv \/ adv' = Stopped(b), st # "waiting" => adv' = Stopped(b) \/ ~adv[b]
      PROVE  GameInv'
  <2>1. /\ adv' \in [Badges -> BOOLEAN] /\ \A o \in Badges : o # b => adv'[o] = adv[o]
        /\ adv'[b] => st = "waiting"
    BY <1>1, <1>3 DEF Stopped, GameShape
  <2> QED BY <1>2, <1>3, <2>1, GoKeepsInv DEF Go
<1>4. CASE Discover(b)
  <2> DEFINE g == Fresh("searching", game[b].round + 1)
  <2>1. g \in Player /\ g.stage = "searching"
    BY <1>1 DEF Fresh, Player, Board, NoBoard, Nobody
  <2>2. Cleared \in [msg : Packet, ready : Nat]
    BY DEF Cleared, NoMessage, Packet
  <2>3. /\ game' = [game EXCEPT ![b] = g] /\ ~adv[b]
        /\ UNCHANGED <<adv, conn, gameTx>>
        /\ gameRx' \in [Badges -> [msg : Packet, ready : Nat]]
    BY <1>1, <1>4, <2>2 DEF Discover, At, GameShape
  <2> HIDE DEF g
  <2> QED BY <1>1, <2>1, <2>3, GoKeepsInv DEF GameShape, Greeting, Client
<1>5. CASE Cancel(b)
  BY <1>1, <1>5, EndsKeepsInv DEF Cancel, GameShape
<1>6. CASE Advertise(b)
  <2> DEFINE g == [game[b] EXCEPT !.stage = "waiting"]
  <2>1. game' = [game EXCEPT ![b] = g] /\ UNCHANGED <<conn, gameTx, gameRx>>
    BY <1>6 DEF Advertise, Go
  <2>2. adv' \in [Badges -> BOOLEAN] /\ \A o \in Badges : o # b => adv'[o] = adv[o]
    BY <1>1, <1>6 DEF Advertise, GameShape
  <2>3. g \in Player /\ g.stage = "waiting" /\ g.stage \notin Greeting
    BY <1>2
  <2> HIDE DEF g
  <2> QED BY <1>1, <2>1, <2>2, <2>3, GoKeepsInv DEF GameShape
<1>7. CASE HearWrite(b)
  BY <1>1, <1>3, <1>7, TakesShape DEF HearWrite, GameShape
<1>8. CASE HearNothing(b)
  BY <1>1, <1>3, <1>8 DEF HearNothing, GameShape
<1>9. CASE GreetFails(b)
  <2>1. Hello \in Packet
    BY DEF Hello, Packet
  <2>2. gameRx' \in [Badges -> [msg : Packet, ready : Nat]] /\ conn' \in [Badges -> BOOLEAN]
    BY <1>1, <1>9, <2>1, WrittenShape DEF GreetFails, GameShape
  <2> QED BY <1>1, <1>3, <1>9, <2>2 DEF GreetFails, At
<1>10. CASE FindNobody(b)
  BY <1>1, <1>3, <1>10 DEF FindNobody, GameShape, At
<1>11. CASE LinkBreaks(b)
  <2>1. conn' \in [Badges -> BOOLEAN] /\ UNCHANGED <<game, adv, gameTx, gameRx>>
    BY <1>1, <1>11 DEF LinkBreaks, GameShape
  <2> QED BY <1>1, <2>1 DEF GameInv, GameShape, At
<1> QED BY <1>4, <1>5, <1>6, <1>7, <1>8, <1>9, <1>10, <1>11

\* A badge begins to greet one that waits, which so is neither greeting nor a client.
LEMMA ConnectKeepsInv ==
  ASSUME GameInv, NEW b \in Badges, Connect(b)
  PROVE  GameInv'
<1>1. /\ GameShape /\ game[b] \in Player
      /\ game[b].stage = "scanning" /\ adv[Other(b)] /\ UNCHANGED <<adv, gameTx, gameRx>>
      /\ game' = [game EXCEPT ![b].stage = "greeting"]
      /\ conn' \in [Badges -> BOOLEAN]
  BY DEF GameInv, GameShape, Connect, At, Go
<1>2. /\ game' \in [Badges -> Player] /\ \A o \in Badges : o # b => game'[o] = game[o]
  BY <1>1 DEF GameShape, Player
<1>3. GameShape'
  BY <1>1, <1>2 DEF GameShape
<1>4. ~adv[b]
  BY <1>1 DEF GameInv, At
<1>5. \A o \in Badges : adv'[o] => At(o, {"waiting"})'
  BY <1>1, <1>2, <1>4 DEF GameInv, At
<1>6. ~At(Other(b), Greeting)'
  BY <1>1, <1>2, OtherIsAnother DEF GameInv, At, Greeting, Client
<1> QED BY <1>3, <1>5, <1>6, OtherIsAnother DEF GameInv

\* The HELLO that makes a client of a badge, and what a client does.
LEMMA ClientKeepsInv ==
  ASSUME GameInv, NEW b \in Badges,
         Greet(b) \/ ClientPolls(b) \/ ClientTimesOut(b) \/ ClientMoves(b) \/ ClientReadsBack(b)
           \/ ClientReadsNothing(b) \/ ClientQuits(b) \/ ClientFinishes(b)
  PROVE  GameInv'
<1>1. /\ GameShape /\ game[b] \in Player /\ Other(b) \in Badges
      /\ adv[b] => game[b].stage = "waiting"
  BY OtherIsAnother DEF GameInv, GameShape, At
<1>2. gameTx[Other(b)] \in Board /\ game[Other(b)] \in Player
  BY <1>1 DEF GameShape
<1>3. ASSUME NEW g \in Player, game' = [game EXCEPT ![b] = g], g.stage \in Client,
             At(b, Greeting), UNCHANGED <<adv, conn, gameTx>>,
             gameRx' \in [Badges -> [msg : Packet, ready : Nat]]
      PROVE  GameInv'
  <2>1. ~adv[b]
    BY <1>1, <1>3 DEF At, Greeting, Client
  <2> QED BY <1>1, <1>3, <2>1, GoKeepsInv DEF GameShape
<1>4. CASE Greet(b)
  <2> DEFINE g == [game[b] EXCEPT !.stage = "client", !.since = game[Other(b)].round]
  <2>1. g \in Player /\ g.stage \in Client
    BY <1>1, <1>2 DEF Player, Client
  <2>2. game' = [game EXCEPT ![b] = g] /\ At(b, Greeting) /\ UNCHANGED <<adv, conn, gameTx>>
    BY <1>1, <1>4 DEF Greet, At, Greeting, GameShape
  <2>3. gameRx' \in [Badges -> [msg : Packet, ready : Nat]]
    <3>1. Hello \in Packet
      BY DEF Hello, Packet
    <3> QED BY <1>1, <1>4, <3>1, DeliveredShape DEF Greet
  <2> HIDE DEF g
  <2> QED BY <1>3, <2>1, <2>2, <2>3
<1>5. ASSUME Sees(b, gameTx[Other(b)]), At(b, Client), UNCHANGED gameTx PROVE GameInv'
  <2> DEFINE seen == [game[b] EXCEPT !.board = gameTx[Other(b)]]
             g == [game[b] EXCEPT !.stage = "client", !.board = gameTx[Other(b)]]
  <2>1. seen \in Player /\ g \in Player /\ g.stage \in Client
    BY <1>1, <1>2 DEF Player, Client
  <2>2. CASE gameTx[Other(b)].end # Nobody
    <3>1. Ends(b, seen, gameRx) /\ gameRx \in [Badges -> [msg : Packet, ready : Nat]]
          /\ gameTx' \in [Badges -> Board]
      BY <1>1, <1>5, <2>2 DEF Sees, GameShape
    <3> HIDE DEF seen
    <3> QED BY <2>1, <3>1, EndsKeepsInv
  <2>3. CASE gameTx[Other(b)].end = Nobody
    <3>1. game' = [game EXCEPT ![b] = g] /\ UNCHANGED <<adv, conn, gameRx>>
      BY <1>1, <1>5, <2>3 DEF Sees, GameShape
    <3>2. gameRx' \in [Badges -> [msg : Packet, ready : Nat]] /\ At(b, Greeting)
      BY <1>1, <1>5, <3>1 DEF GameShape, At, Greeting
    <3> HIDE DEF g
    <3> QED BY <1>3, <1>5, <2>1, <3>1, <3>2
  <2> QED BY <2>2, <2>3
<1>6. CASE ClientPolls(b) \/ ClientReadsBack(b)
  BY <1>5, <1>6 DEF ClientPolls, ClientReadsBack, At, Client
<1>7. CASE ClientMoves(b)
  <2> DEFINE g == [game[b] EXCEPT !.stage = "asking", !.seq = @ + 1]
             m == Move(game[b].seq + 1, game[b].board.discs)
  <2>1. g \in Player /\ g.stage \in Client
    <3>1. game[b].seq + 1 \in Nat
      BY <1>1 DEF Player
    <3>2. ASSUME NEW n \in Nat
          PROVE  /\ [game[b] EXCEPT !.stage = "asking", !.seq = n] \in Player
                 /\ [game[b] EXCEPT !.stage = "asking", !.seq = n].stage = "asking"
      BY <1>1 DEF Player, Client
    <3> QED BY <3>1, <3>2 DEF Client
  <2>2. m \in Packet
    BY <1>1 DEF Move, Packet, Player, Board
  <2>3. game' = [game EXCEPT ![b] = g] /\ gameRx' \in Written(b, m) /\ UNCHANGED <<adv, conn, gameTx>>
    BY <1>1, <1>7 DEF ClientMoves, GameShape
  <2>4. At(b, Greeting)
    BY <1>7 DEF ClientMoves, At, Greeting, Client
  <2> HIDE DEF g, m
  <2> QED BY <1>1, <1>3, <2>1, <2>2, <2>3, <2>4, WrittenShape
<1>8. CASE ClientReadsNothing(b)
  <2> DEFINE g == [game[b] EXCEPT !.stage = "client"]
  <2>1. g \in Player /\ g.stage \in Client
    BY <1>1 DEF Player, Client
  <2>2. game' = [game EXCEPT ![b] = g] /\ At(b, Greeting) /\ UNCHANGED <<adv, conn, gameTx, gameRx>>
    BY <1>8 DEF ClientReadsNothing, Go, At, Greeting, Client
  <2> HIDE DEF g
  <2> QED BY <1>1, <1>3, <2>1, <2>2 DEF GameShape
<1>9. CASE ClientTimesOut(b) \/ ClientFinishes(b)
  BY <1>1, <1>9, EndsKeepsInv DEF ClientTimesOut, ClientFinishes, GameShape
<1>10. CASE ClientQuits(b)
  <2>1. Bye \in Packet
    BY DEF Bye, Packet
  <2>2. PICK r \in Written(b, Bye) : Ends(b, game[b], r)
    BY <1>10 DEF ClientQuits
  <2>3. gameTx' \in [Badges -> Board]
    BY <1>1, <1>10 DEF ClientQuits, GameShape
  <2> QED BY <1>1, <2>1, <2>2, <2>3, WrittenShape, EndsKeepsInv
<1> QED BY <1>4, <1>6, <1>7, <1>8, <1>9, <1>10

\* play_host never leads to the client's part.
LEMMA HostKeepsInv ==
  ASSUME GameInv, NEW b \in Badges,
         StartMatch(b) \/ HostMoves(b) \/ HostTakesMove(b) \/ HostStops(b) \/ HostQuits(b)
           \/ HostFinishes(b)
  PROVE  GameInv'
<1>1. /\ GameShape /\ game[b] \in Player /\ gameRx[b] \in [msg : Packet, ready : Nat]
      /\ adv[b] => game[b].stage = "waiting"
  BY DEF GameInv, GameShape, At
<1>2. game[b].stage \in {"starting", "host"} /\ ~adv[b]
  BY <1>1 DEF StartMatch, HostMoves, HostTakesMove, HostStops, HostQuits, HostFinishes, Playing, At
<1>3. ASSUME NEW g \in Player, game' \in {game, [game EXCEPT ![b] = g]}, g.stage = "host",
             gameTx' \in [Badges -> Board],
             UNCHANGED <<adv, conn>>, gameRx' \in [Badges -> [msg : Packet, ready : Nat]]
      PROVE  GameInv'
  <2>1. /\ game' \in [Badges -> Player] /\ \A o \in Badges : o # b => game'[o] = game[o]
        /\ game'[b] \in {game[b], g}
    BY <1>1, <1>3 DEF GameShape
  <2>2. GameShape'
    BY <1>1, <1>3, <2>1 DEF GameShape
  <2>3. ~At(b, Greeting)'
    BY <1>2, <1>3, <2>1 DEF At, Greeting, Client
  <2> QED BY <1>2, <1>3, <2>1, <2>2, <2>3, BadgeMoves
<1>4. ASSUME NEW board \in Board, Publish(b, board) PROVE gameTx' \in [Badges -> Board]
  BY <1>1, <1>4 DEF Publish, GameShape
<1>5. ASSUME NEW board \in Board, NEW st \in {"host"}
      PROVE  /\ [game[b] EXCEPT !.stage = st, !.board = board] \in Player
             /\ [game[b] EXCEPT !.stage = st, !.board = board].stage = "host"
  BY <1>1 DEF Player, Host
<1>6. CASE StartMatch(b)
  <2>1. PICK turn \in {"host", "client"} :
          LET board == [NoBoard EXCEPT !.match = game[b].round, !.turn = turn] IN
          game' = [game EXCEPT ![b].stage = "host", ![b].board = board] /\ Publish(b, board)
    BY <1>6 DEF StartMatch
  <2> DEFINE board == [NoBoard EXCEPT !.match = game[b].round, !.turn = turn]
             g == [game[b] EXCEPT !.stage = "host", !.board = board]
  <2>2. board \in Board
    BY <1>1 DEF NoBoard, Board, Player, Nobody
  <2>3. game' = [game EXCEPT ![b] = g] /\ Publish(b, board)
    BY <1>1, <2>1 DEF GameShape
  <2>4. g \in Player /\ g.stage = "host"
    BY <1>5, <2>2
  <2>5. gameTx' \in [Badges -> Board]
    BY <1>4, <2>2, <2>3
  <2>6. UNCHANGED <<adv, conn>> /\ gameRx' \in [Badges -> [msg : Packet, ready : Nat]]
    BY <1>1, <1>6 DEF StartMatch, GameShape
  <2> HIDE DEF board, g
  <2> QED BY <1>3, <2>3, <2>4, <2>5, <2>6
<1>7. ASSUME NEW turn, Playing(b, turn) PROVE game[b].stage = "host" /\ game[b].board \in Board
  BY <1>1, <1>7 DEF Playing, At, Player
<1>8. CASE HostMoves(b)
  <2>1. game[b].stage = "host" /\ game[b].board \in Board
    BY <1>7, <1>8 DEF HostMoves
  <2>2. PICK board \in Applied(game[b].board) :
          game' = [game EXCEPT ![b].board = board] /\ Publish(b, board)
    BY <1>8 DEF HostMoves
  <2> DEFINE g == [game[b] EXCEPT !.board = board]
  <2>3. board \in Board
    BY <2>1, AppliedIsBoard
  <2>4. g \in Player /\ g.stage = "host" /\ game' = [game EXCEPT ![b] = g]
    BY <1>1, <2>1, <2>2, <2>3 DEF Player, GameShape
  <2>5. gameTx' \in [Badges -> Board]
    BY <1>4, <2>2, <2>3
  <2>6. UNCHANGED <<adv, conn>> /\ gameRx' \in [Badges -> [msg : Packet, ready : Nat]]
    BY <1>1, <1>8 DEF HostMoves, GameShape
  <2> HIDE DEF g
  <2> QED BY <1>3, <2>4, <2>5, <2>6
<1>9. CASE HostTakesMove(b)
  <2>1. /\ game[b].stage = "host" /\ game[b].board \in Board
        /\ UNCHANGED <<adv, conn>> /\ gameRx' \in [Badges -> [msg : Packet, ready : Nat]]
    BY <1>1, <1>7, <1>9, TakesShape DEF HostTakesMove
  <2>2. CASE UNCHANGED <<game, gameTx>>
    BY <1>1, <1>3, <2>1, <2>2 DEF GameShape
  <2>3. CASE /\ gameRx[b].msg.kind = "move"
             /\ \E board \in Applied(game[b].board) :
                  /\ game' = [game EXCEPT ![b].board = board, ![b].seq = gameRx[b].msg.seq]
                  /\ Publish(b, board)
    <3>1. PICK board \in Applied(game[b].board) :
            /\ game' = [game EXCEPT ![b].board = board, ![b].seq = gameRx[b].msg.seq]
            /\ Publish(b, board)
      BY <2>3
    <3> DEFINE g == [game[b] EXCEPT !.board = board, !.seq = gameRx[b].msg.seq]
    <3>2. board \in Board
      BY <2>1, AppliedIsBoard
    <3>3. gameRx[b].msg.seq \in Nat
      BY <1>1, <2>3 DEF Packet
    <3>4. g \in Player /\ g.stage = "host" /\ game' = [game EXCEPT ![b] = g]
      BY <1>1, <2>1, <3>1, <3>2, <3>3 DEF Player, GameShape
    <3>5. gameTx' \in [Badges -> Board]
      BY <1>4, <3>1, <3>2
    <3> HIDE DEF g
    <3> QED BY <1>3, <2>1, <3>4, <3>5
  <2>4. CASE game' = [game EXCEPT ![b].wrong = @ + 1] /\ Publish(b, game[b].board)
    <3> DEFINE g == [game[b] EXCEPT !.wrong = @ + 1]
    <3>1. g \in Player /\ g.stage = "host" /\ game' = [game EXCEPT ![b] = g]
      BY <1>1, <2>1, <2>4 DEF Player, GameShape
    <3>2. gameTx' \in [Badges -> Board]
      BY <1>4, <2>1, <2>4
    <3> HIDE DEF g
    <3> QED BY <1>3, <2>1, <3>1, <3>2
  <2> QED BY <1>9, <2>2, <2>3, <2>4 DEF HostTakesMove
<1>10. ASSUME Ends(b, game[b], gameRx), gameTx' \in [Badges -> Board] PROVE GameInv'
  BY <1>1, <1>10, EndsKeepsInv DEF GameShape
<1>11. ASSUME NEW e \in {"quit", "anticheat"}, NEW board \in Board
       PROVE  [board EXCEPT !.end = e] \in Board
  BY DEF Board
<1>12. CASE HostStops(b) \/ HostQuits(b)
  <2>1. game[b].board \in Board
    BY <1>1 DEF Player
  <2>2. gameTx' \in [Badges -> Board]
    BY <1>1, <1>4, <1>11, <1>12, <2>1 DEF HostStops, HostQuits, GameShape
  <2> QED BY <1>10, <1>12, <2>2 DEF HostStops, HostQuits
<1>13. CASE HostFinishes(b)
  <2>1. game[b].board \in Board
    BY <1>1 DEF Player
  <2> QED BY <1>4, <1>10, <1>13, <2>1 DEF HostFinishes
<1> QED BY <1>6, <1>8, <1>9, <1>12, <1>13

LEMMA GameInitHasInv == GameInit => GameInv
<1> SUFFICES ASSUME GameInit PROVE GameInv
  OBVIOUS
<1>1. \E b \in Badges : TRUE
  <2>1. SUFFICES ASSUME Badges = {} PROVE FALSE
    OBVIOUS
  <2>2. Cardinality({}) = 0
    BY FS_EmptySet
  <2> QED BY <2>1, <2>2, GameAssumption
<1>2. NoBoard \in Board
  BY DEF NoBoard, Board, Nobody
<1>3. Fresh("menu", 0) \in Player /\ Fresh("menu", 0).stage = "menu"
  BY <1>2 DEF Fresh, Player
<1>4. Cleared \in [msg : Packet, ready : Nat]
  BY DEF Cleared, NoMessage, Packet
<1>5. GameShape
  BY <1>2, <1>3, <1>4 DEF GameInit, GameShape
<1>6. \A b \in Badges : ~adv[b] /\ ~At(b, Greeting)
  BY <1>3 DEF GameInit, At, Greeting, Client
<1> QED BY <1>1, <1>5, <1>6 DEF GameInv

LEMMA GameStep == GameInv /\ [GameNext]_gameVars => GameInv'
<1> SUFFICES ASSUME GameInv, [GameNext]_gameVars PROVE GameInv'
  OBVIOUS
<1>1. CASE UNCHANGED gameVars
  BY <1>1 DEF gameVars, GameInv, GameShape, At
<1> QED BY <1>1, DiscoverKeepsInv, ConnectKeepsInv, ClientKeepsInv, HostKeepsInv DEF GameNext

\* Two badges that look for each other never both take the client's part
\* (games_ble_discover), however many matches they look for and however the
\* writes and links fail.
THEOREM OneIsHost == GameSpec => []NotBothClients
<1>1. GameInv /\ [GameNext]_gameVars => GameInv'
  BY GameStep
<1>2. GameInv => NotBothClients
  BY DEF GameInv, NotBothClients, At, Greeting
<1> QED BY <1>1, <1>2, GameInitHasInv, PTL DEF GameSpec

-----------------------------------------------------------------------------
(***************************************************************************)
(* No board has more discs than a match: one that is not won has room for  *)
(* a disc, and the host puts none on one that is.  A client has a board    *)
(* its host published.                                                     *)
(***************************************************************************)
Fair(d) == d \in Board /\ d.discs <= MoveMax /\ (d.winner = Nobody => d.discs < MoveMax)

FitPlayer(g) == g \in Player /\ g.round <= MatchMax /\ g.wrong <= AttemptMax /\ Fair(g.board)

RxFit(r) == r \in [Badges -> [msg : Packet, ready : 0..Tokens]]

GameFit ==
  /\ \A b \in Badges : FitPlayer(game[b]) /\ Fair(gameTx[b])
  /\ RxFit(gameRx)

LEMMA AppliedIsFair ==
  ASSUME NEW d, Fair(d), d.winner = Nobody, NEW after \in Applied(d)
  PROVE  Fair(after)
<1>1. /\ d \in Board /\ d.discs \in Nat /\ d.discs + 1 \in Nat /\ d.discs + 1 <= MoveMax
      /\ d.turn \in {"host", "client"}
  BY GameAssumption DEF Fair, Board
<1> DEFINE full == [d EXCEPT !.discs = @ + 1]
<1>2. full \in Board /\ full.discs = d.discs + 1 /\ full.winner = Nobody /\ full.turn = d.turn
  BY <1>1 DEF Board, Fair
<1>3. ASSUME NEW w \in {d.turn, "draw"} PROVE Fair([full EXCEPT !.winner = w])
  BY <1>1, <1>2, <1>3 DEF Fair, Board, Nobody
<1>4. ASSUME NEW t \in {"host", "client"}, full.discs < MoveMax PROVE Fair([full EXCEPT !.turn = t])
  BY <1>1, <1>2, <1>4 DEF Fair, Board
<1>5. \/ \E w \in {d.turn, "draw"} : after = [full EXCEPT !.winner = w]
      \/ full.discs < MoveMax /\ \E t \in {"host", "client"} : after = [full EXCEPT !.turn = t]
  BY <1>2 DEF Applied
<1> HIDE DEF full
<1> QED BY <1>3, <1>4, <1>5

LEMMA EndedIsFair ==
  ASSUME NEW d, Fair(d), NEW e \in {"quit", "anticheat"}
  PROVE  Fair([d EXCEPT !.end = e])
BY DEF Fair, Board

\* A player at another stage, with another board, sequence number or count.
LEMMA AtStage ==
  ASSUME NEW g, FitPlayer(g),
         NEW st \in {"menu", "searching", "waiting", "scanning", "greeting"} \cup Host \cup Client
  PROVE  FitPlayer([g EXCEPT !.stage = st])
BY DEF FitPlayer, Player

LEMMA WithBoard ==
  ASSUME NEW g, FitPlayer(g), NEW d, Fair(d)
  PROVE  FitPlayer([g EXCEPT !.board = d])
BY DEF FitPlayer, Player, Fair

LEMMA WithNumber ==
  ASSUME NEW g, FitPlayer(g), NEW n \in Nat
  PROVE  FitPlayer([g EXCEPT !.seq = n]) /\ FitPlayer([g EXCEPT !.since = n])
BY DEF FitPlayer, Player

\* What a step puts in the place of a badge, its value and the buffers.
LEMMA FitMoves ==
  ASSUME GameShape, GameFit, NEW b \in Badges, NEW g, FitPlayer(g), game' = [game EXCEPT ![b] = g],
         gameTx' = gameTx \/ \E d : Fair(d) /\ gameTx' = [gameTx EXCEPT ![b] = d],
         RxFit(gameRx')
  PROVE  GameFit'
<1>1. \A o \in Badges : game'[o] = g \/ game'[o] = game[o]
  BY DEF GameShape
<1>2. \A o \in Badges : Fair(gameTx'[o])
  BY DEF GameShape, GameFit
<1> QED BY <1>1, <1>2 DEF GameFit

LEMMA DeliveredFit ==
  ASSUME RxFit(gameRx), NEW b \in Badges, NEW m \in Packet
  PROVE  RxFit(Delivered(b, m))
<1>1. \A n \in 0..Tokens : (IF n < Tokens THEN n + 1 ELSE n) \in 0..Tokens
  BY DEF Tokens
<1> QED BY <1>1 DEF Delivered, RxFit

LEMMA WrittenFit ==
  ASSUME RxFit(gameRx), NEW b \in Badges, NEW m \in Packet, NEW r \in Written(b, m)
  PROVE  RxFit(r)
BY OtherIsAnother, DeliveredFit DEF Written

LEMMA TakesFit ==
  ASSUME RxFit(gameRx), NEW b \in Badges, Takes(b)
  PROVE  RxFit(gameRx')
<1>1. \A n \in 0..Tokens : n > 0 => n - 1 \in 0..Tokens
  BY DEF Tokens
<1>2. gameRx[b].ready \in 0..Tokens /\ gameRx[b].ready > 0
  BY DEF RxFit, Takes
<1>3. gameRx' = [gameRx EXCEPT ![b].ready = gameRx[b].ready - 1]
  BY DEF Takes
<1> QED BY <1>1, <1>2, <1>3 DEF RxFit

LEMMA ClearedFit ==
  ASSUME NEW r, RxFit(r), NEW b \in Badges
  PROVE  RxFit([r EXCEPT ![b] = Cleared])
<1>1. Cleared \in [msg : Packet, ready : 0..Tokens]
  BY DEF Cleared, NoMessage, Packet, Tokens
<1> QED BY <1>1 DEF RxFit

LEMMA EndsFit ==
  ASSUME GameShape, GameFit, NEW b \in Badges, NEW g, FitPlayer(g), NEW r, RxFit(r), Ends(b, g, r),
         gameTx' = gameTx \/ \E d : Fair(d) /\ gameTx' = [gameTx EXCEPT ![b] = d]
  PROVE  GameFit'
<1>1. FitPlayer([g EXCEPT !.stage = "menu"])
  BY AtStage
<1>2. game' = [game EXCEPT ![b] = [g EXCEPT !.stage = "menu"]] /\ RxFit(gameRx')
  BY ClearedFit DEF Ends
<1> QED BY <1>1, <1>2, FitMoves

LEMMA GoFit ==
  ASSUME GameShape, GameFit, NEW b \in Badges,
         NEW st \in {"menu", "searching", "waiting", "scanning", "greeting"} \cup Host \cup Client,
         Go(b, st), UNCHANGED gameTx, RxFit(gameRx')
  PROVE  GameFit'
<1>1. FitPlayer([game[b] EXCEPT !.stage = st])
  BY AtStage DEF GameFit
<1>2. game' = [game EXCEPT ![b] = [game[b] EXCEPT !.stage = st]]
  BY DEF Go
<1> QED BY <1>1, <1>2, FitMoves

LEMMA Messages ==
  /\ Hello \in Packet /\ Bye \in Packet
  /\ \A n, k \in Nat : Move(n, k) \in Packet
BY DEF Hello, Bye, Move, Packet

\* games_ble_discover.
LEMMA DiscoverFit ==
  ASSUME GameShape, GameFit, NEW b \in Badges,
         \/ Discover(b) \/ Cancel(b) \/ Advertise(b) \/ HearWrite(b) \/ HearNothing(b)
         \/ Connect(b) \/ Greet(b) \/ GreetFails(b) \/ FindNobody(b) \/ LinkBreaks(b)
  PROVE  GameFit'
<1>1. FitPlayer(game[b]) /\ RxFit(gameRx) /\ Other(b) \in Badges
  BY OtherIsAnother DEF GameFit
<1>2. CASE Discover(b)
  <2> DEFINE g == Fresh("searching", game[b].round + 1)
  <2>1. game[b].round + 1 \in Nat /\ game[b].round + 1 <= MatchMax
    BY <1>1, <1>2, GameAssumption DEF Discover, FitPlayer, Player
  <2>2. Fair(NoBoard)
    BY GameAssumption DEF Fair, NoBoard, Board, Nobody
  <2>3. FitPlayer(g)
    BY <2>1, <2>2 DEF FitPlayer, Fresh, Player, Fair, AttemptMax
  <2>4. game' = [game EXCEPT ![b] = g] /\ UNCHANGED gameTx /\ RxFit(gameRx')
    BY <1>1, <1>2, ClearedFit DEF Discover
  <2> HIDE DEF g
  <2> QED BY <2>3, <2>4, FitMoves
<1>3. CASE Cancel(b)
  BY <1>1, <1>3, EndsFit DEF Cancel
<1>4. CASE Advertise(b) \/ HearNothing(b) \/ Connect(b) \/ FindNobody(b)
  BY <1>1, <1>4, GoFit DEF Advertise, HearNothing, Connect, FindNobody
<1>5. CASE HearWrite(b)
  <2>1. RxFit(gameRx') /\ UNCHANGED gameTx /\ (Go(b, "starting") \/ Go(b, "scanning"))
    BY <1>1, <1>5, TakesFit DEF HearWrite
  <2> QED BY <2>1, GoFit DEF Host
<1>6. CASE Greet(b)
  <2> DEFINE g == [[game[b] EXCEPT !.stage = "client"] EXCEPT !.since = game[Other(b)].round]
  <2>1. game[Other(b)].round \in Nat
    BY <1>1 DEF GameShape, Player
  <2>2. FitPlayer(g)
    BY <1>1, <2>1, AtStage, WithNumber DEF Client
  <2>3. game' = [game EXCEPT ![b] = g]
    BY <1>6 DEF Greet
  <2>4. UNCHANGED gameTx /\ RxFit(gameRx')
    BY <1>1, <1>6, DeliveredFit, Messages DEF Greet
  <2> HIDE DEF g
  <2> QED BY <2>2, <2>3, <2>4, FitMoves
<1>7. CASE GreetFails(b)
  <2>1. RxFit(gameRx')
    BY <1>1, <1>7, WrittenFit, Messages DEF GreetFails
  <2> QED BY <1>7, <2>1, GoFit DEF GreetFails
<1>8. CASE LinkBreaks(b)
  BY <1>8 DEF LinkBreaks, GameFit
<1> QED BY <1>2, <1>3, <1>4, <1>5, <1>6, <1>7, <1>8

\* play_host.
LEMMA HostFit ==
  ASSUME GameShape, GameFit, NEW b \in Badges,
         \/ StartMatch(b) \/ HostMoves(b) \/ HostTakesMove(b) \/ HostStops(b)
         \/ HostQuits(b) \/ HostFinishes(b)
  PROVE  GameFit'
<1>1. FitPlayer(game[b]) /\ RxFit(gameRx) /\ Fair(game[b].board)
  BY DEF GameFit, FitPlayer
<1>2. gameRx[b].msg \in Packet /\ (gameRx[b].msg.kind = "move" => gameRx[b].msg.seq \in Nat)
  BY <1>1 DEF RxFit, Packet
<1>3. CASE StartMatch(b)
  <2>1. PICK turn \in {"host", "client"} :
          LET board == [NoBoard EXCEPT !.match = game[b].round, !.turn = turn]
          IN  /\ game' = [game EXCEPT ![b].stage = "host", ![b].board = board]
              /\ Publish(b, board)
    BY <1>3 DEF StartMatch
  <2> DEFINE board == [NoBoard EXCEPT !.match = game[b].round, !.turn = turn]
             g == [[game[b] EXCEPT !.stage = "host"] EXCEPT !.board = board]
  <2>2. Fair(board)
    <3>1. game[b].round \in Nat
      BY <1>1 DEF FitPlayer, Player
    <3>2. NoBoard \in Board /\ NoBoard.discs = 0 /\ NoBoard.winner = Nobody
      BY DEF NoBoard, Board, Nobody
    <3>3. board \in Board /\ board.discs = 0 /\ board.winner = Nobody
      BY <3>1, <3>2 DEF Board
    <3> HIDE DEF board
    <3> QED BY <3>3, GameAssumption DEF Fair
  <2>3. FitPlayer(g)
    BY <1>1, <2>2, AtStage, WithBoard DEF Host
  <2>4. game' = [game EXCEPT ![b] = g]
    BY <2>1
  <2>5. gameTx' = [gameTx EXCEPT ![b] = board] /\ gameRx' = gameRx
    BY <1>3, <2>1 DEF StartMatch, Publish
  <2> HIDE DEF g, board
  <2> QED BY <1>1, <2>2, <2>3, <2>4, <2>5, FitMoves
<1>4. ASSUME NEW board \in Applied(game[b].board), game[b].board.winner = Nobody,
             NEW g, FitPlayer(g), game' = [game EXCEPT ![b] = [g EXCEPT !.board = board]],
             Publish(b, board), RxFit(gameRx')
      PROVE  GameFit'
  <2>1. Fair(board)
    BY <1>1, <1>4, AppliedIsFair
  <2>2. FitPlayer([g EXCEPT !.board = board])
    BY <1>4, <2>1, WithBoard
  <2> QED BY <1>4, <2>1, <2>2, FitMoves DEF Publish
<1>5. CASE HostMoves(b)
  <2>1. PICK board \in Applied(game[b].board) :
          game' = [game EXCEPT ![b].board = board] /\ Publish(b, board)
    BY <1>5 DEF HostMoves
  <2>2. game' = [game EXCEPT ![b] = [game[b] EXCEPT !.board = board]]
    BY <2>1
  <2> QED BY <1>1, <1>4, <1>5, <2>1, <2>2 DEF HostMoves, Playing
<1>6. CASE HostTakesMove(b)
  <2>1. RxFit(gameRx')
    BY <1>1, <1>6, TakesFit DEF HostTakesMove
  <2>2. CASE UNCHANGED <<game, gameTx>>
    BY <2>1, <2>2 DEF GameFit
  <2>3. ASSUME gameRx[b].msg.kind = "move", NEW board \in Applied(game[b].board),
               game' = [game EXCEPT ![b].board = board, ![b].seq = gameRx[b].msg.seq],
               Publish(b, board)
        PROVE  GameFit'
    <3> DEFINE g == [game[b] EXCEPT !.seq = gameRx[b].msg.seq]
    <3>1. FitPlayer(g)
      BY <1>1, <1>2, <2>3, WithNumber
    <3>2. game' = [game EXCEPT ![b] = [g EXCEPT !.board = board]]
      BY <1>1, <2>3 DEF FitPlayer, Player
    <3> HIDE DEF g
    <3> QED BY <1>4, <1>6, <2>1, <2>3, <3>1, <3>2 DEF HostTakesMove, Playing
  <2>4. ASSUME game[b].wrong < AttemptMax - 1, game' = [game EXCEPT ![b].wrong = @ + 1],
               Publish(b, game[b].board)
        PROVE  GameFit'
    <3> DEFINE g == [game[b] EXCEPT !.wrong = @ + 1]
    <3>1. game[b].wrong \in Nat /\ game[b].wrong + 1 <= AttemptMax
      BY <1>1, <2>4 DEF FitPlayer, Player, AttemptMax
    <3>2. FitPlayer(g)
      BY <1>1, <3>1 DEF FitPlayer, Player
    <3>3. game' = [game EXCEPT ![b] = g]
      BY <2>4
    <3> HIDE DEF g
    <3> QED BY <1>1, <2>1, <2>4, <3>2, <3>3, FitMoves DEF Publish
  <2>5. \/ UNCHANGED <<game, gameTx>>
        \/ /\ gameRx[b].msg.kind = "move"
           /\ \E board \in Applied(game[b].board) :
                /\ game' = [game EXCEPT ![b].board = board, ![b].seq = gameRx[b].msg.seq]
                /\ Publish(b, board)
        \/ /\ game[b].wrong < AttemptMax - 1 /\ game' = [game EXCEPT ![b].wrong = @ + 1]
           /\ Publish(b, game[b].board)
    BY <1>6 DEF HostTakesMove
  <2> QED BY <2>2, <2>3, <2>4, <2>5
<1>7. CASE HostStops(b) \/ HostQuits(b) \/ HostFinishes(b)
  <2>1. Ends(b, game[b], gameRx)
    BY <1>7 DEF HostStops, HostQuits, HostFinishes
  <2>2. \/ UNCHANGED gameTx
        \/ \E e \in {"quit", "anticheat"} : Publish(b, [game[b].board EXCEPT !.end = e])
        \/ Publish(b, game[b].board)
    BY <1>7 DEF HostStops, HostQuits, HostFinishes
  <2>3. gameTx' = gameTx \/ \E d : Fair(d) /\ gameTx' = [gameTx EXCEPT ![b] = d]
    BY <1>1, <2>2, EndedIsFair DEF Publish
  <2> QED BY <1>1, <2>1, <2>3, EndsFit
<1> QED BY <1>3, <1>5, <1>6, <1>7

\* play_client.
LEMMA ClientFit ==
  ASSUME GameShape, GameFit, NEW b \in Badges,
         \/ ClientPolls(b) \/ ClientTimesOut(b) \/ ClientMoves(b) \/ ClientReadsBack(b)
         \/ ClientReadsNothing(b) \/ ClientQuits(b) \/ ClientFinishes(b)
  PROVE  GameFit'
<1>1. FitPlayer(game[b]) /\ RxFit(gameRx) /\ Fair(gameTx[Other(b)])
  BY OtherIsAnother DEF GameFit
<1>2. CASE ClientPolls(b) \/ ClientReadsBack(b)
  <2> DEFINE d == gameTx[Other(b)]
             g == [game[b] EXCEPT !.board = d]
  <2>1. Sees(b, d) /\ UNCHANGED gameTx
    BY <1>2 DEF ClientPolls, ClientReadsBack
  <2>2. FitPlayer(g)
    BY <1>1, WithBoard
  <2>3. CASE Ends(b, g, gameRx)
    BY <1>1, <2>1, <2>2, <2>3, EndsFit
  <2>4. CASE game' = [game EXCEPT ![b].stage = "client", ![b].board = d] /\ UNCHANGED gameRx
    <3>1. FitPlayer([g EXCEPT !.stage = "client"])
      BY <2>2, AtStage DEF Client
    <3>2. game' = [game EXCEPT ![b] = [g EXCEPT !.stage = "client"]]
      BY <1>1, <2>4 DEF FitPlayer, Player
    <3> HIDE DEF g, d
    <3> QED BY <1>1, <2>1, <2>4, <3>1, <3>2, FitMoves
  <2> QED BY <2>1, <2>3, <2>4 DEF Sees
<1>3. CASE ClientTimesOut(b) \/ ClientFinishes(b)
  BY <1>1, <1>3, EndsFit DEF ClientTimesOut, ClientFinishes
<1>4. CASE ClientQuits(b)
  BY <1>1, <1>4, EndsFit, WrittenFit, Messages DEF ClientQuits
<1>5. CASE ClientReadsNothing(b)
  BY <1>1, <1>5, GoFit DEF ClientReadsNothing, Client
<1>6. CASE ClientMoves(b)
  <2> DEFINE g == [[game[b] EXCEPT !.stage = "asking"] EXCEPT !.seq = game[b].seq + 1]
  <2>1. game[b].seq + 1 \in Nat /\ game[b].board.discs \in Nat
    BY <1>1 DEF FitPlayer, Player, Fair, Board
  <2>2. FitPlayer(g)
    BY <1>1, <2>1, AtStage, WithNumber DEF Client
  <2>3. game' = [game EXCEPT ![b] = g]
    BY <1>6 DEF ClientMoves
  <2>4. UNCHANGED gameTx /\ RxFit(gameRx')
    BY <1>1, <1>6, <2>1, WrittenFit, Messages DEF ClientMoves
  <2> HIDE DEF g
  <2> QED BY <2>2, <2>3, <2>4, FitMoves
<1> QED BY <1>2, <1>3, <1>4, <1>5, <1>6

LEMMA GameFitStep == GameInv /\ GameFit /\ [GameNext]_gameVars => GameFit'
<1> SUFFICES ASSUME GameInv, GameFit, [GameNext]_gameVars PROVE GameFit'
  OBVIOUS
<1>1. GameShape
  BY DEF GameInv
<1>2. CASE UNCHANGED gameVars
  BY <1>2 DEF gameVars, GameFit
<1> QED BY <1>1, <1>2, DiscoverFit, HostFit, ClientFit DEF GameNext

LEMMA GameInitFit == GameInit => GameFit
<1> SUFFICES ASSUME GameInit PROVE GameFit
  OBVIOUS
<1>1. Fair(NoBoard)
  BY GameAssumption DEF Fair, NoBoard, Board, Nobody
<1>2. FitPlayer(Fresh("menu", 0))
  BY <1>1, GameAssumption DEF FitPlayer, Fresh, Player, Fair, AttemptMax
<1>3. Cleared \in [msg : Packet, ready : 0..Tokens]
  BY DEF Cleared, NoMessage, Packet, Tokens
<1> QED BY <1>1, <1>2, <1>3 DEF GameInit, GameFit, RxFit

LEMMA GameTyped == GameInv /\ GameFit => GameTypeOK
<1> SUFFICES ASSUME GameInv, GameFit PROVE GameTypeOK
  OBVIOUS
<1>1. ASSUME NEW b \in Badges
      PROVE  /\ game[b].stage \in {"menu", "searching", "waiting", "scanning", "greeting"}
                                    \cup Host \cup Client
             /\ game[b].round \in 0..MatchMax /\ game[b].wrong \in 0..AttemptMax
             /\ game[b].board.discs \in 0..MoveMax
             /\ gameRx[b].ready \in 0..Tokens
  <2>1. FitPlayer(game[b]) /\ gameRx[b].ready \in 0..Tokens
    BY DEF GameFit, RxFit
  <2>2. game[b].round \in 0..MatchMax /\ game[b].wrong \in 0..AttemptMax
    BY <2>1, GameAssumption DEF FitPlayer, Player, AttemptMax
  <2>3. game[b].board.discs \in 0..MoveMax
    BY <2>1, GameAssumption DEF FitPlayer, Fair, Board
  <2>4. game[b].stage \in {"menu", "searching", "waiting", "scanning", "greeting"}
                             \cup Host \cup Client
    BY <2>1 DEF FitPlayer, Player
  <2> QED BY <2>1, <2>2, <2>3, <2>4
<1> QED BY <1>1 DEF GameInv, GameShape, GameTypeOK

-----------------------------------------------------------------------------
(* The four layers side by side.                                            *)

\* A step is one of the layer a behaviour is about.
LEMMA StepOfEachLayer ==
  ASSUME [Next]_vars
  PROVE  [MsgNext]_msgVars /\ [LinkNext]_linkVars /\ [MeetNext]_meetVars /\ [GameNext]_gameVars
  BY DEF Next, vars

\* The layers keep every variable in its type: no message, token, run of a badge,
\* match or disc of jpp_ble_msg.c, jpp_ble_native.c, meetapp.c and connect4.c
\* beyond its bound, and no board that is not won without room for a disc.
THEOREM BadgesKeepTypes == Spec => []TypeOK
<1>1. Init => MsgInit /\ LinkInit /\ MeetInit /\ GameInit
  BY DEF Init
<1>2. [Next]_vars =>
        [MsgNext]_msgVars /\ [LinkNext]_linkVars /\ [MeetNext]_meetVars /\ [GameNext]_gameVars
  BY StepOfEachLayer
<1> QED BY <1>1, <1>2, MsgInitTyped, KnownStep, MsgTypesStep, MsgTyped,
           LinkInitTyped, LinkTypesStep, LinkTyped,
           MeetInitShape, MeetInitRuns, ShapeStep, RunsFitStep, MeetTyped,
           GameInitHasInv, GameInitFit, GameStep, GameFitStep, GameTyped, PTL DEF Spec, TypeOK
=============================================================================
