------------------------------- MODULE EspNow -------------------------------
(***************************************************************************)
(* ESP-NOW for an app (jpp_espnow_native.c): a send waits for the callback *)
(* by which the WiFi task reports what became of the packet, and packets   *)
(* received are queued by another callback until the app asks for them.    *)
(* The queue, the semaphore and the last status outlive the app: nothing   *)
(* resets them between two apps.                                           *)
(*                                                                         *)
(* The radio reports each packet it accepted once, in order, and may take  *)
(* longer than the app waits.                                              *)
(***************************************************************************)
EXTENDS Naturals, Sequences

CONSTANTS RxDepth,     \* ESPNOW_RX_QUEUE_DEPTH
          PacketMax    \* bound: packets sent, and packets received

ASSUME EspNowAssumption == RxDepth \in Nat \ {0} /\ PacketMax \in Nat

VARIABLES signal,      \* s_send_sem
          lastStatus,  \* s_last_send_status
          sending,     \* where the app's call is: idle, drained, or waiting
          sent,        \* packets handed over so far
          unreported,  \* those the radio has not reported yet
          fate,        \* what became of each packet
          told,        \* what the app was told of each packet
          owed,        \* the packets that began while an earlier one was unreported
          onAir,       \* packets that arrived so far
          rxQueue      \* s_rx_queue

nowVars == <<signal, lastStatus, sending, sent, unreported, fate, told, owed, onAir, rxQueue>>
txVars == <<signal, lastStatus, sending, sent, unreported, fate, told, owed>>

Packets == 1..PacketMax
Fates == {"SUCCESS", "FAIL"}

NowInit ==
  /\ signal = FALSE /\ lastStatus = "FAIL" /\ sending = "idle"
  /\ sent = 0 /\ unreported = <<>> /\ owed = {}
  /\ fate = [p \in Packets |-> "unknown"] /\ told = [p \in Packets |-> "nothing"]
  /\ onAir = 0 /\ rxQueue = <<>>

-----------------------------------------------------------------------------
NotDrained == signal
Drained == FALSE

\* espnow_send_impl: what an earlier packet left in the semaphore is drained.
Drain ==
  /\ sending = "idle" /\ sent < PacketMax
  /\ signal' = Drained /\ sending' = "drained"
  /\ owed' = IF unreported = <<>> THEN owed \ {sent + 1} ELSE owed \cup {sent + 1}
  /\ UNCHANGED <<lastStatus, sent, unreported, fate, told, onAir, rxQueue>>

Tell(answer) == told' = [told EXCEPT ![sent] = answer] /\ sending' = "idle"

\* esp_now_send accepts the packet or refuses it.
HandOver ==
  /\ sending = "drained"
  /\ \/ sending' = "idle" /\ UNCHANGED <<sent, unreported>>
     \/ sent' = sent + 1 /\ unreported' = Append(unreported, sent + 1) /\ sending' = "waiting"
  /\ UNCHANGED <<signal, lastStatus, fate, told, owed, onAir, rxQueue>>

\* The callback came in time: the app is told what the last status says.
TakeSignal ==
  /\ sending = "waiting" /\ signal /\ signal' = FALSE
  /\ Tell(IF lastStatus = "SUCCESS" THEN "sent" ELSE "failed")
  /\ UNCHANGED <<lastStatus, sent, unreported, fate, owed, onAir, rxQueue>>

TimeOut ==
  /\ sending = "waiting" /\ ~signal /\ Tell("timeout")
  /\ UNCHANGED <<signal, lastStatus, sent, unreported, fate, owed, onAir, rxQueue>>

\* espnow_send_cb, on the WiFi task: the status, then the semaphore.
Reported ==
  /\ unreported # <<>> /\ unreported' = Tail(unreported)
  /\ \E st \in Fates : /\ lastStatus' = st /\ fate' = [fate EXCEPT ![Head(unreported)] = st]
  /\ signal' = TRUE
  /\ UNCHANGED <<sending, sent, told, owed, onAir, rxQueue>>

\* The app is deleted in the middle of its call; the next one starts anew.
AppDeleted ==
  /\ sending # "idle" /\ sending' = "idle"
  /\ UNCHANGED <<signal, lastStatus, sent, unreported, fate, told, owed, onAir, rxQueue>>

-----------------------------------------------------------------------------
RoomIgnored == TRUE
HasSpace == Len(rxQueue) < RxDepth

\* espnow_recv_cb: a packet that finds the queue full is dropped.
Arrives ==
  /\ onAir < PacketMax /\ onAir' = onAir + 1
  /\ IF HasSpace THEN rxQueue' = Append(rxQueue, onAir') ELSE UNCHANGED rxQueue
  /\ UNCHANGED txVars

\* espnow_recv_impl
Receives ==
  /\ rxQueue # <<>> /\ sending = "idle"
  /\ rxQueue' = Tail(rxQueue)
  /\ UNCHANGED <<txVars, onAir>>

NowNext == \/ Drain \/ HandOver \/ TakeSignal \/ TimeOut \/ Reported \/ AppDeleted
           \/ Arrives \/ Receives

NowSpec == NowInit /\ [][NowNext]_nowVars

-----------------------------------------------------------------------------
NowTypeOK ==
  /\ signal \in BOOLEAN /\ lastStatus \in Fates /\ sending \in {"idle", "drained", "waiting"}
  /\ sent \in 0..PacketMax /\ unreported \in Seq(Packets) /\ owed \subseteq Packets
  /\ fate \in [Packets -> Fates \cup {"unknown"}]
  /\ told \in [Packets -> {"nothing", "sent", "failed", "timeout"}]
  /\ onAir \in 0..PacketMax
  /\ rxQueue \in Seq(Packets) /\ Len(rxQueue) <= RxDepth

\* What the app is told of a packet is what became of that packet, unless the
\* report of one it gave up earlier was still due when the send began: a status
\* left by an earlier send, or by an earlier app, is never taken for the answer.
ToldTheTruth ==
  \A p \in Packets \ owed : /\ told[p] = "sent" => fate[p] = "SUCCESS"
                           /\ told[p] = "failed" => fate[p] = "FAIL"
=============================================================================
