------------------------------ MODULE BleMessage ------------------------------
(***************************************************************************)
(* Messages over the one writable characteristic of a badge: the sender    *)
(* jpp_ble_msg_send and the receiver jpp_ble_msg_host_recv of              *)
(* apps/common/jpp_ble_msg.c, and the receive buffer between them in       *)
(* jpp_ble_native.c, which the Bluetooth host task fills and the app task  *)
(* drains.                                                                 *)
(*                                                                         *)
(* A message is its number and its length in DATA frames; piece k of       *)
(* message m is <<m, k>>, so no two messages share a piece.  A write is    *)
(* acknowledged once the host task has copied it, whether or not the app   *)
(* task has read the one before.                                           *)
(***************************************************************************)
EXTENDS Naturals, Sequences, SequencesExt

CONSTANTS
  MessageMax,   \* messages sent in a behaviour
  FrameMax      \* DATA frames of the longest message

ASSUME MessageAssumption == MessageMax \in Nat /\ FrameMax \in Nat

TokenMax == 2   \* xSemaphoreCreateCounting(2, 0)

VARIABLES
  sent,      \* history: the messages whose sending began, in order
  next,      \* the frame due: 0 is BEGIN, k > 0 is DATA k-1; NoFrame when none is
  rxBuf,     \* s_rx_buf and s_rx_len
  rxReady,   \* s_rx_ready
  recv,      \* where the app task is in its calls
  partial,   \* begin, off and next_seq of a reception under way
  received   \* history: what the last call that succeeded returned

msgVars == <<sent, next, rxBuf, rxReady, recv, partial, received>>

NoFrame == FrameMax + 1
EmptyFrame == [kind |-> "empty"]
NoPartial == [began |-> FALSE]

Message == [id : 1..MessageMax, len : 0..FrameMax]
Pieces(m) == [i \in 1..m.len |-> <<m.id, i - 1>>]

BeginFrame(m) == [kind |-> "begin", of |-> m]
DataFrame(m, k) == [kind |-> "data", seq |-> k, piece |-> <<m.id, k>>]
Frame == {EmptyFrame} \cup {BeginFrame(m) : m \in Message}
           \cup {DataFrame(m, k) : m \in Message, k \in 0..FrameMax}

MsgTypeOK ==
  /\ sent \in BoundedSeq(Message, MessageMax)
  /\ next \in 0..NoFrame
  /\ rxBuf \in Frame
  /\ rxReady \in 0..TokenMax
  /\ recv \in {"away", "waiting", "copying", "clearing"}
  /\ partial = NoPartial \/ partial.want \in Message
  /\ received = NoPartial \/ received.began

-----------------------------------------------------------------------------
(* The sender.                                                             *)

Sending == sent[Len(sent)]

\* A call of jpp_ble_msg_send; a message may be empty.
StartSend(len) ==
  /\ next = NoFrame
  /\ Len(sent) < MessageMax
  /\ sent' = Append(sent, [id |-> Len(sent) + 1, len |-> len])
  /\ next' = 0
  /\ UNCHANGED <<rxBuf, rxReady, recv, partial, received>>

DueFrame == IF next = 0 THEN BeginFrame(Sending) ELSE DataFrame(Sending, next - 1)

\* apphost_gatt_access_cb: the host task replaces the buffer, whoever reads it.
Deliver ==
  /\ rxBuf' = DueFrame
  /\ rxReady' = IF rxReady < TokenMax THEN rxReady + 1 ELSE rxReady

WriteFrame ==
  /\ next # NoFrame
  /\ Deliver
  /\ next' = IF next = Sending.len THEN NoFrame ELSE next + 1
  /\ UNCHANGED <<sent, recv, partial, received>>

\* The link ends before the write, or between the write and its answer: the
\* sender returns JPP_BLE_MSG_ERR_WRITE.
WriteFails ==
  /\ next # NoFrame
  /\ next' = NoFrame
  /\ Deliver \/ UNCHANGED <<rxBuf, rxReady>>
  /\ UNCHANGED <<sent, recv, partial, received>>

-----------------------------------------------------------------------------
(* The receiver.                                                           *)

CallRecv ==
  /\ recv = "away"
  /\ recv' = "waiting"
  /\ partial' = NoPartial
  /\ UNCHANGED <<sent, next, rxBuf, rxReady, received>>

\* jpp_ble_host_wait_rx takes a token and then, under the mutex, the buffer:
\* the host task may write between the two.
TakeToken ==
  /\ recv = "waiting"
  /\ rxReady > 0
  /\ rxReady' = rxReady - 1
  /\ recv' = "copying"
  /\ UNCHANGED <<sent, next, rxBuf, partial, received>>

RecvReturns == recv' = "away" /\ partial' = NoPartial
GoOn(p) == recv' = "waiting" /\ partial' = p

CrcNotChecked(p) == TRUE
\* The CRC of BEGIN against the reassembly.
CrcMatches(p) == p.pieces = Pieces(p.want)

Complete(p) ==
  /\ RecvReturns
  /\ received' = IF CrcMatches(p) THEN [began |-> TRUE, pieces |-> p.pieces]
                 ELSE received

HandleBegin ==
  /\ rxBuf.kind = "begin"
  /\ LET p == [began |-> TRUE, want |-> rxBuf.of, pieces |-> <<>>]
     IN IF rxBuf.of.len = 0 THEN Complete(p) ELSE GoOn(p) /\ UNCHANGED received

\* Out of sequence ends the call; data before a BEGIN is ignored.
HandleData ==
  /\ rxBuf.kind = "data"
  /\ IF ~partial.began THEN GoOn(partial) /\ UNCHANGED received
     ELSE IF rxBuf.seq # Len(partial.pieces) THEN RecvReturns /\ UNCHANGED received
     ELSE LET p == [partial EXCEPT !.pieces = Append(@, rxBuf.piece)]
          IN IF Len(p.pieces) = p.want.len THEN Complete(p)
             ELSE GoOn(p) /\ UNCHANGED received

HandleEmpty ==
  /\ rxBuf.kind = "empty"
  /\ GoOn(partial)
  /\ UNCHANGED received

CopyFrame ==
  /\ recv = "copying"
  /\ HandleBegin \/ HandleData \/ HandleEmpty
  /\ UNCHANGED <<sent, next, rxBuf, rxReady>>

RecvTimesOut ==
  /\ recv = "waiting"
  /\ rxReady = 0
  /\ RecvReturns
  /\ UNCHANGED <<sent, next, rxBuf, rxReady, received>>

\* jpp_ble_host_clear_rx: the tokens first, the length under the mutex after.
ClearTokens ==
  /\ recv = "away"
  /\ recv' = "clearing"
  /\ rxReady' = 0
  /\ UNCHANGED <<sent, next, rxBuf, partial, received>>

ClearLength ==
  /\ recv = "clearing"
  /\ recv' = "away"
  /\ rxBuf' = EmptyFrame
  /\ UNCHANGED <<sent, next, rxReady, partial, received>>

-----------------------------------------------------------------------------

MsgInit ==
  /\ sent = <<>>
  /\ next = NoFrame
  /\ rxBuf = EmptyFrame
  /\ rxReady = 0
  /\ recv = "away"
  /\ partial = NoPartial
  /\ received = NoPartial

MsgNext ==
  \/ \E len \in 0..FrameMax : StartSend(len)
  \/ WriteFrame
  \/ WriteFails
  \/ CallRecv
  \/ TakeToken
  \/ CopyFrame
  \/ RecvTimesOut
  \/ ClearTokens
  \/ ClearLength

MsgSpec == MsgInit /\ [][MsgNext]_msgVars

(* What a reception returns is one of the messages sent, whole, although   *)
(* the buffer may be overwritten at any point, a message be cut off, and   *)
(* the rest of one follow the beginning of another (jpp_ble_msg_host_recv, *)
(* jpp_ble_msg.c:146).                                                     *)
ReceivedWasSent ==
  received.began => \E m \in Range(sent) : received.pieces = Pieces(m)

(* jpp_ble_msg.h:24 of the writes: "the single host RX buffer is never     *)
(* overwritten before the receiver drains it".                             *)
NeverOverwritten ==
  [][rxBuf' # rxBuf /\ rxBuf # EmptyFrame => rxReady = 0 /\ recv # "copying"]_msgVars

=============================================================================
