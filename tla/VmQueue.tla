------------------------------ MODULE VmQueue ------------------------------
(***************************************************************************)
(* The request queue of the MicroPython runtime (jpp_vm_core.c) and the    *)
(* tasks that share it.  The keypad task and the main loop enqueue, the    *)
(* app task "sd_app" dequeues, and the main loop prepares and starts the   *)
(* runtime once per app launch.                                            *)
(*                                                                         *)
(* A call of schedule or dequeue takes two steps: the checks made before   *)
(* taskENTER_CRITICAL, and the critical section itself.  All tasks run on  *)
(* one core under a preemptive scheduler, so a task steps only while no    *)
(* task of a higher priority is in the middle of a call.                   *)
(***************************************************************************)
EXTENDS Naturals, Sequences

CONSTANTS QueueCapacityMax,   \* JPP_VM_QUEUE_CAPACITY_MAX
          Payloads,           \* what distinguishes two requests of one kind
          SessionMax          \* bound: launches of a MicroPython app

ASSUME CapacityAssumption == QueueCapacityMax \in Nat \ {0}
ASSUME SessionAssumption == SessionMax \in Nat

Tasks == {"keypad", "sd_app", "main"}

\* xTaskCreate priorities: the keypad task runs at configMAX_PRIORITIES - 1,
\* the app task at 4, the main task at the default of 1.
Priority == [t \in Tasks |-> CASE t = "keypad" -> 24 [] t = "sd_app" -> 4 [] t = "main" -> 1]

Kinds == {"NONE", "IDLE", "ACTION"}

\* A queued request.  The session is the launch during which the producer
\* read the app id; the code carries the app id itself.
Request == [kind : Kinds, payload : Payloads, session : 0..SessionMax, origin : Tasks]

NoRequest == [kind |-> "NONE"]

VARIABLES state,      \* jpp_vm_context_t.state
          queue,      \* the ring of requests
          head,       \* queue_head
          count,      \* queue_count
          capacity,   \* queue_capacity, from the configuration
          session,    \* number of runtimes prepared since boot
          bootReady,  \* jpp_vm_boot_ready(boot_context)
          call,       \* the call each task is in the middle of
          result,     \* the status its last call returned
          delivered   \* the request the app task dequeued last

ring == <<state, queue, head, count, capacity, session, delivered>>
vars == <<state, queue, head, count, capacity, session, bootReady, call, result, delivered>>

Slots == 0..(QueueCapacityMax - 1)
NotInCall == [op |-> "none"]
States == {"OFFLINE", "WAITING_FOR_BOOT", "RUNNING"}

Init == /\ state = "OFFLINE"
        /\ queue = [i \in Slots |-> NoRequest]
        /\ head = 0 /\ count = 0 /\ capacity = 0
        /\ session = 0
        /\ bootReady = FALSE
        /\ call = [t \in Tasks |-> NotInCall]
        /\ result = [t \in Tasks |-> "OK"]
        /\ delivered = NoRequest

-----------------------------------------------------------------------------
\* A task is scheduled only when every task of a higher priority waits.
CanRun(t) == \A u \in Tasks : Priority[u] > Priority[t] => call[u] = NotInCall

Returns(t, status) == /\ call' = [call EXCEPT ![t] = NotInCall]
                      /\ result' = [result EXCEPT ![t] = status]

\* The boot sequence completes its last stage.
BootCompletes == /\ ~bootReady /\ CanRun("main")
                 /\ bootReady' = TRUE
                 /\ UNCHANGED <<ring, call, result>>

\* The slot a new request goes to, the room for it, the head after a dequeue,
\* and the count of a wiped context; before them, the slips they guard against.
InsertIndexAtHead == head
InsertIndex == (head + count) % capacity

HasRoom == count < capacity

HeadUnwrapped == head + 1
HeadAfterDequeue == (head + 1) % capacity

CountKept == count
CountWiped == 0

\* jpp_vm_runtime_prepare: an over-limit queue depth is refused; otherwise
\* the context is wiped and takes the new configuration.
Prepare(depth) ==
  /\ CanRun("main") /\ call["main"] = NotInCall /\ session < SessionMax
  /\ UNCHANGED bootReady
  /\ \/ /\ depth \notin 1..QueueCapacityMax
        /\ Returns("main", "INVALID_CONFIG")
        /\ UNCHANGED ring
     \/ /\ depth \in 1..QueueCapacityMax
        /\ Returns("main", "OK")
        /\ queue' = [i \in Slots |-> NoRequest]
        /\ head' = 0 /\ count' = CountWiped
        /\ capacity' = depth
        /\ state' = "WAITING_FOR_BOOT"
        /\ session' = session + 1
        /\ delivered' = NoRequest

\* jpp_vm_runtime_start
Start ==
  /\ CanRun("main") /\ call["main"] = NotInCall
  /\ UNCHANGED <<queue, head, count, capacity, session, bootReady, delivered>>
  /\ \/ /\ state # "WAITING_FOR_BOOT"
        /\ Returns("main", "INVALID_STATE") /\ UNCHANGED state
     \/ /\ state = "WAITING_FOR_BOOT" /\ ~bootReady
        /\ Returns("main", "BOOT_NOT_READY") /\ UNCHANGED state
     \/ /\ state = "WAITING_FOR_BOOT" /\ bootReady
        /\ Returns("main", "OK") /\ state' = "RUNNING"

\* jpp_vm_schedule_request up to taskENTER_CRITICAL.
ScheduleCheck(t, kind, payload) ==
  /\ t \in {"keypad", "main"} /\ CanRun(t) /\ call[t] = NotInCall
  /\ UNCHANGED <<ring, bootReady>>
  /\ \/ state # "RUNNING" /\ Returns(t, "INVALID_STATE")
     \/ state = "RUNNING" /\ kind = "NONE" /\ Returns(t, "APP_NOT_ALLOWED")
     \/ /\ state = "RUNNING" /\ kind # "NONE"
        /\ call' = [call EXCEPT ![t] =
                      [op |-> "schedule",
                       request |-> [kind |-> kind, payload |-> payload,
                                    session |-> session, origin |-> t]]]
        /\ UNCHANGED result

\* The critical section of jpp_vm_schedule_request.
ScheduleInsert(t) ==
  /\ CanRun(t) /\ call[t].op = "schedule"
  /\ UNCHANGED <<state, head, capacity, session, bootReady, delivered>>
  /\ \/ /\ count >= capacity
        /\ Returns(t, "QUEUE_FULL")
        /\ UNCHANGED <<queue, count>>
     \/ /\ HasRoom
        /\ Returns(t, "OK")
        /\ queue' = [queue EXCEPT ![InsertIndex] = call[t].request]
        /\ count' = count + 1

\* jpp_vm_owner_dequeue_request up to taskENTER_CRITICAL; the app task is the owner.
DequeueCheck ==
  /\ CanRun("sd_app") /\ call["sd_app"] = NotInCall
  /\ UNCHANGED <<ring, bootReady>>
  /\ \/ state # "RUNNING" /\ Returns("sd_app", "INVALID_STATE")
     \/ /\ state = "RUNNING"
        /\ call' = [call EXCEPT !["sd_app"] = [op |-> "dequeue"]]
        /\ UNCHANGED result

\* The critical section of jpp_vm_owner_dequeue_request.
DequeueRemove ==
  /\ CanRun("sd_app") /\ call["sd_app"].op = "dequeue"
  /\ UNCHANGED <<state, queue, capacity, session, bootReady>>
  /\ \/ /\ count = 0
        /\ Returns("sd_app", "INVALID_STATE")
        /\ UNCHANGED <<head, count, delivered>>
     \/ /\ count # 0
        /\ Returns("sd_app", "OK")
        /\ delivered' = queue[head]
        /\ head' = HeadAfterDequeue
        /\ count' = count - 1

Next == \/ BootCompletes
        \/ \E d \in 0..(QueueCapacityMax + 1) : Prepare(d)
        \/ Start
        \/ \E t \in Tasks, k \in Kinds, p \in Payloads : ScheduleCheck(t, k, p)
        \/ \E t \in {"keypad", "main"} : ScheduleInsert(t)
        \/ DequeueCheck
        \/ DequeueRemove

Spec == Init /\ [][Next]_vars

-----------------------------------------------------------------------------
Statuses == {"OK", "INVALID_CONFIG", "INVALID_STATE", "BOOT_NOT_READY",
             "APP_NOT_ALLOWED", "QUEUE_FULL"}

Calls == {NotInCall, [op |-> "dequeue"]}
         \cup [op : {"schedule"}, request : Request]

TypeOK == /\ state \in States
          /\ queue \in [Slots -> Request \cup {NoRequest}]
          /\ head \in Slots /\ count \in 0..QueueCapacityMax
          /\ capacity \in 0..QueueCapacityMax
          /\ session \in 0..SessionMax
          /\ bootReady \in BOOLEAN
          /\ call \in [Tasks -> Calls]
          /\ result \in [Tasks -> Statuses]
          /\ delivered \in Request \cup {NoRequest}

\* The head and the count never leave the ring the configuration asked for,
\* so the index arithmetic of schedule and dequeue stays inside queue[].
RingBounds == /\ count <= capacity
              /\ capacity = 0 => head = 0
              /\ capacity > 0 => head < capacity
              /\ state # "OFFLINE" => capacity > 0

\* The requests in the ring, oldest first.
Pending == [i \in 1..count |-> queue[(head + i - 1) % capacity]]

\* Every request in the ring, in the hand of a producer that has passed its
\* checks, or delivered to the app was made for the app that is running now:
\* a key pressed in one app is never handled by the next.
NoStaleRequest ==
  /\ \A i \in 1..count : Pending[i].kind # "NONE" /\ Pending[i].session = session
  /\ \A t \in Tasks : call[t].op = "schedule" =>
                         call[t].request.kind # "NONE" /\ call[t].request.session = session
  /\ delivered # NoRequest => delivered.session = session

\* The ring implements the bounded FIFO channel.
Channel == INSTANCE VmChannel WITH
             running <- state = "RUNNING",
             depth <- capacity,
             pending <- Pending

ImplementsChannel == Channel!ChannelSpec
=============================================================================
