------------------------------- MODULE BleLink -------------------------------
(***************************************************************************)
(* The Bluetooth operations of jpp_ble_native.c: the app task starts a      *)
(* procedure of the NimBLE host and waits on the one semaphore s_ble_done;  *)
(* the callbacks, on the host's task, leave a status and give it.  Links    *)
(* end at any time, and advertising is started again by a callback.         *)
(* The app runs one operation at a time, under the broker's locks.  An      *)
(* operation NimBLE refuses to start returns an error and leaves all as it  *)
(* was, so it is no action.                                                 *)
(***************************************************************************)
EXTENDS Integers, FiniteSets, FiniteSetsExt

CONSTANTS
  Peers,      \* addresses
  Slots,      \* 1..JPP_SDK_BLE_CONN_CAPACITY, places of s_conns
  Handles     \* connection handles of the host, used again once free

ASSUME LinkAssumption == Slots \subseteq Nat

None == "none"

VARIABLES
  op,         \* the operation under way: kind, slot, peer, what it waits for
  done,       \* s_ble_done: what gave it, or Nothing
  status,     \* s_ble_status: whether it is 0
  awaiting,   \* s_awaiting_disc
  stray,      \* an end other than the one waited for was reported in a disconnect
  slot,       \* s_conns: peer (None: not active), handle, chars known
  procs,      \* procedures of the host that have not called back
  link,       \* the peer at the other end of each handle
  ended,      \* handles whose BLE_GAP_EVENT_DISCONNECT is still to come
  advWanted,  \* s_adv_active
  advOn,      \* the host advertises
  advFailed,  \* the call the host failed last, until made up for: "restart", "stop"
  incoming    \* a link made by advertising: "up", "ended" before its event, None

centralVars == <<done, status, awaiting, stray, slot, procs, link, ended>>
advVars == <<advWanted, advOn, advFailed, incoming>>
linkVars == <<op, centralVars, advVars>>

Nothing == [kind |-> "none", of |-> 0, peer |-> None]
NoOp == [kind |-> "none", slot |-> 0, peer |-> None, want |-> Nothing]
Op(kind, s, p, want) == [kind |-> kind, slot |-> s, peer |-> p, want |-> want]

Proc(kind, of) == [kind |-> kind, of |-> of, peer |-> None]
Connecting(s, p) == [kind |-> "connect", of |-> s, peer |-> p]
Ended(h) == Proc("disconnect", h)

FreeSlots == {s \in Slots : slot[s].peer = None}
SlotsOf(p) == {s \in Slots : slot[s].peer = p}
Linked(h) == h \in Handles /\ link[h] # None
FreeSlot == [peer |-> None, handle |-> 0, found |-> FALSE]

LinkInit ==
  /\ op = NoOp /\ done = Nothing /\ status = FALSE /\ awaiting = FALSE /\ stray = FALSE
  /\ slot = [s \in Slots |-> FreeSlot]
  /\ procs = {} /\ link = [h \in Handles |-> None] /\ ended = {}
  /\ advWanted = FALSE /\ advOn = FALSE /\ advFailed = None /\ incoming = None

-----------------------------------------------------------------------------
(* The app task.                                                           *)

\* s_ble_status = -1, the procedure is started, and the wait begins.
Begin(kind, s, p, proc) ==
  /\ op' = Op(kind, s, p, proc)
  /\ procs' = procs \cup {proc}
  /\ status' = FALSE

StartScan ==
  /\ op = NoOp
  /\ Begin("scan", 0, None, Proc("scan", 0))
  /\ UNCHANGED <<done, awaiting, stray, slot, link, ended, advVars>>

\* ble_connect_impl takes the first free slot; the host refuses a peer it has a
\* link to, and a second connect while one is under way.
StartConnect(p) ==
  /\ op = NoOp /\ FreeSlots # {}
  /\ \A h \in Handles : link[h] # p
  /\ \A q \in procs : q.kind # "connect"
  /\ Begin("connect", Min(FreeSlots), p, Connecting(Min(FreeSlots), p))
  /\ UNCHANGED <<done, awaiting, stray, slot, link, ended, advVars>>

\* ble_read_char_impl and ble_write_char_impl: the first slot of the address;
\* a characteristic is looked up once for each slot.  One stands for the two.
StartAccess(p) ==
  /\ op = NoOp /\ SlotsOf(p) # {}
  /\ LET s == Min(SlotsOf(p)) IN
     /\ Linked(slot[s].handle)
     /\ LET kind == IF slot[s].found THEN "access" ELSE "discover"
        IN Begin(kind, s, p, Proc(kind, slot[s].handle))
  /\ UNCHANGED <<done, awaiting, stray, slot, link, ended, advVars>>

\* The wait is over: xSemaphoreTake(s_ble_done, portMAX_DELAY) returned.
Wake(kind) == op.kind = kind /\ done # Nothing /\ done' = Nothing

Return == op' = NoOp /\ UNCHANGED <<status, procs>>

WakeAndReturn ==
  /\ \E kind \in {"scan", "access"} : Wake(kind)
  /\ Return
  /\ UNCHANGED <<awaiting, stray, slot, link, ended, advVars>>

\* The link is up: ask for a larger MTU, which need not succeed.
WakeConnected ==
  /\ Wake("connect")
  /\ LET h == slot[op.slot].handle IN
     IF ~status THEN Return /\ UNCHANGED slot
     ELSE IF Linked(h)
          THEN Begin("mtu", op.slot, op.peer, Proc("mtu", h)) /\ UNCHANGED slot
          ELSE /\ Return
               /\ slot' = [slot EXCEPT ![op.slot].peer = op.peer, ![op.slot].found = FALSE]
  /\ UNCHANGED <<awaiting, stray, link, ended, advVars>>

WakeMtu ==
  /\ Wake("mtu")
  /\ slot' = [slot EXCEPT ![op.slot].peer = op.peer, ![op.slot].found = FALSE]
  /\ Return
  /\ UNCHANGED <<awaiting, stray, link, ended, advVars>>

WakeDiscovered ==
  /\ Wake("discover")
  /\ LET h == slot[op.slot].handle IN
     IF status /\ Linked(h) THEN Begin("access", op.slot, op.peer, Proc("access", h))
     ELSE Return
  /\ slot' = [slot EXCEPT ![op.slot].found = status]
  /\ UNCHANGED <<awaiting, stray, link, ended, advVars>>

\* ble_disconnect_impl: the flag first, then ble_gap_terminate.
StartDisconnect(p) ==
  /\ op = NoOp /\ SlotsOf(p) # {}
  /\ op' = Op("flagged", Min(SlotsOf(p)), p, Nothing)
  /\ awaiting' = TRUE
  /\ UNCHANGED <<done, status, stray, slot, procs, link, ended, advVars>>

Freed == [slot EXCEPT ![op.slot] = FreeSlot]

\* The host ends the link; or there is none, or it refuses, and the slot is freed.
Terminate ==
  /\ op.kind = "flagged"
  /\ LET h == slot[op.slot].handle IN
       \/ /\ Linked(h) /\ op' = Op("disconnect", op.slot, op.peer, Ended(h))
          /\ UNCHANGED <<awaiting, slot>>
       \/ op' = NoOp /\ awaiting' = FALSE /\ slot' = Freed
  /\ UNCHANGED <<done, status, stray, procs, link, ended, advVars>>

WakeDisconnected ==
  /\ Wake("disconnect")
  /\ Return
  /\ slot' = Freed
  /\ UNCHANGED <<awaiting, stray, link, ended, advVars>>

\* Two seconds without the event; the flag is lowered after the wait.
DisconnectTimesOut ==
  /\ op.kind = "disconnect" /\ done = Nothing
  /\ op' = [op EXCEPT !.kind = "late"]
  /\ UNCHANGED <<centralVars, advVars>>

LowerFlag ==
  /\ op.kind = "late"
  /\ op' = NoOp /\ awaiting' = FALSE /\ slot' = Freed
  /\ UNCHANGED <<done, status, stray, procs, link, ended, advVars>>

-----------------------------------------------------------------------------
(* The host task.                                                          *)

Give(what) == done' = IF done = Nothing THEN what ELSE done

Connected(q, h) ==
  /\ link[h] = None /\ h \notin ended
  /\ link' = [link EXCEPT ![h] = q.peer]
  /\ slot' = [slot EXCEPT ![q.of].handle = h]
  /\ status' = TRUE

\* connect_event_cb writes the handle into the slot it was given, whether or not
\* the operation that gave it still waits.
ConnectCalledBack(q) ==
  /\ q.kind = "connect"
  /\ procs' = procs \ {q}
  /\ \/ \E h \in Handles : Connected(q, h)
     \/ status' = FALSE /\ UNCHANGED <<link, slot>>
  /\ Give(q)
  /\ UNCHANGED <<op, awaiting, stray, ended, advVars>>

\* The other procedures end well or badly.
CalledBack(q) ==
  /\ q.kind # "connect"
  /\ procs' = procs \ {q}
  /\ status' \in BOOLEAN
  /\ Give(q)
  /\ UNCHANGED <<op, awaiting, stray, slot, link, ended, advVars>>

OnLink(h) == {q \in procs : q.kind \in {"mtu", "discover", "access"} /\ q.of = h}

\* A link ends, at this side's request or not: what runs on it fails first.
LinkEnds(h) ==
  /\ Linked(h)
  /\ link' = [link EXCEPT ![h] = None]
  /\ ended' = ended \cup {h}
  /\ procs' = procs \ OnLink(h)
  /\ IF OnLink(h) = {} THEN UNCHANGED <<done, status>>
     ELSE status' = FALSE /\ \E q \in OnLink(h) : Give(q)
  /\ UNCHANGED <<op, awaiting, stray, slot, advVars>>

\* The one end a disconnect call waits for.
DuringDisconnect == op.kind \in {"flagged", "disconnect", "late"}
Awaited(h) == op.kind = "disconnect" /\ op.want = Ended(h)

AlwaysSolicited == TRUE
Solicited == awaiting

\* BLE_GAP_EVENT_DISCONNECT in connect_event_cb, which does not look at the link:
\* another one's end answers, or one before ble_gap_terminate or after the wait.
ReportEnd(h) ==
  /\ h \in ended /\ ended' = ended \ {h}
  /\ IF Solicited THEN awaiting' = FALSE /\ Give(Ended(h)) ELSE UNCHANGED <<awaiting, done>>
  /\ stray' = (stray \/ (DuringDisconnect /\ ~Awaited(h)))
  /\ UNCHANGED <<op, status, slot, procs, link, advVars>>

-----------------------------------------------------------------------------
(* Advertising.                                                            *)

\* The intent is marked before the host is asked.
StartAdvertising ==
  /\ op = NoOp
  /\ op' = Op("adv_start", 0, None, Nothing)
  /\ advWanted' = TRUE
  /\ UNCHANGED <<centralVars, advOn, advFailed, incoming>>

AdvertisingStarts ==
  /\ op.kind = "adv_start"
  /\ op' = NoOp /\ advFailed' = None
  /\ \/ advOn' = TRUE /\ UNCHANGED advWanted
     \/ ~advOn /\ advWanted' = FALSE /\ UNCHANGED advOn
  /\ UNCHANGED <<centralVars, incoming>>

\* And dropped before it is asked to stop.
StopAdvertising ==
  /\ op = NoOp
  /\ op' = Op("adv_stop", 0, None, Nothing)
  /\ advWanted' = FALSE
  /\ UNCHANGED <<centralVars, advOn, advFailed, incoming>>

\* A host that does not stop: the app gets an error, the intent stays dropped.
AdvertisingStops ==
  /\ op.kind = "adv_stop"
  /\ op' = NoOp
  /\ \/ advOn' = FALSE /\ advFailed' = None
     \/ advOn /\ advFailed' = "stop" /\ UNCHANGED advOn
  /\ UNCHANGED <<centralVars, advWanted, incoming>>

\* A central connects, which ends undirected advertising.
PeerArrives ==
  /\ advOn /\ incoming = None
  /\ advOn' = FALSE /\ incoming' = "up" /\ advFailed' = None
  /\ UNCHANGED <<op, centralVars, advWanted>>

PeerLeaves ==
  /\ incoming = "up"
  /\ incoming' = "ended"
  /\ UNCHANGED <<op, centralVars, advWanted, advOn, advFailed>>

NotRearmed == advOn
Rearmed == advOn \/ advWanted

\* adv_gap_event_cb.
Rearm ==
  /\ incoming = "ended" /\ incoming' = None
  /\ advOn' = Rearmed
  /\ UNCHANGED <<op, centralVars, advWanted, advFailed>>

\* The host does not start again: logged, and s_adv_active stays.
RearmFails ==
  /\ incoming = "ended" /\ incoming' = None
  /\ advWanted /\ ~advOn /\ advFailed' = "restart"
  /\ UNCHANGED <<op, centralVars, advWanted, advOn>>

-----------------------------------------------------------------------------

LinkNext ==
  \/ StartScan
  \/ \E p \in Peers : StartConnect(p) \/ StartAccess(p) \/ StartDisconnect(p)
  \/ WakeAndReturn \/ WakeConnected \/ WakeMtu \/ WakeDiscovered
  \/ Terminate \/ WakeDisconnected \/ DisconnectTimesOut \/ LowerFlag
  \/ \E q \in procs : ConnectCalledBack(q) \/ CalledBack(q)
  \/ \E h \in Handles : LinkEnds(h) \/ ReportEnd(h)
  \/ StartAdvertising \/ AdvertisingStarts \/ StopAdvertising \/ AdvertisingStops
  \/ PeerArrives \/ PeerLeaves \/ Rearm \/ RearmFails

LinkSpec == LinkInit /\ [][LinkNext]_linkVars

LinkTypeOK ==
  /\ op.kind \in {"none", "scan", "connect", "mtu", "discover", "access", "flagged",
                  "disconnect", "late", "adv_start", "adv_stop"}
  /\ status \in BOOLEAN /\ awaiting \in BOOLEAN /\ stray \in BOOLEAN
  /\ slot \in [Slots -> [peer : Peers \cup {None}, handle : Handles \cup {0},
                         found : BOOLEAN]]
  /\ link \in [Handles -> Peers \cup {None}] /\ ended \subseteq Handles
  /\ advWanted \in BOOLEAN /\ advOn \in BOOLEAN
  /\ advFailed \in {None, "restart", "stop"} /\ incoming \in {None, "up", "ended"}

(* The comment on s_awaiting_disc (jpp_ble_native.c:100): "an unsolicited    *)
(* mid-GATT-op disconnect must not race the op's own completion".  Whatever *)
(* wakes an operation through s_ble_done is what it waits for: it never     *)
(* goes on with the answer of another, or with one left over from before.   *)
AnswerIsItsOwn == op.want # Nothing /\ done # Nothing => done = op.want

(* What is so of every schedule: the flag is up in disconnect calls only and *)
(* every operation gets its own answer, until in a disconnect call a link's  *)
(* end is reported that is not the one it waits for: another link's, or one  *)
(* before ble_gap_terminate or after the wait.  Nothing else misleads, not a *)
(* link that ends under a procedure, a handle used again or a late callback. *)
OnlyDisconnectsMislead ==
  stray \/ (AnswerIsItsOwn /\ (awaiting => DuringDisconnect))

(* The comment on s_adv_active (jpp_ble_native.c:109): advertising is up    *)
(* again after every link, or a participant would "only ever accept the     *)
(* first round"; and no event brings it back once the app had it stopped.   *)
(* It is off the air against the app's wish only after a restart the host   *)
(* refused, until the app starts or stops it, and on the air against its    *)
(* wish only after a stop the host refused, until the next one or a link.   *)
AdvertisingAsWanted ==
  /\ advWanted => advOn \/ incoming # None \/ op.kind = "adv_start" \/ advFailed = "restart"
  /\ advOn => advWanted \/ op.kind = "adv_stop" \/ advFailed = "stop"
=============================================================================
