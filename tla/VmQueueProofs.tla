--------------------------- MODULE VmQueueProofs ---------------------------
(***************************************************************************)
(* For every ring size, every set of payloads and every number of          *)
(* launches: the ring stays inside its bounds, no request crosses from one  *)
(* app to the next, and the ring implements the FIFO channel.               *)
(***************************************************************************)
EXTENDS VmQueue, TLAPS

\* A call past its checks was made to a running runtime: the priorities keep
\* the main loop from preparing another one before the call has ended.
CallsSeeRunning == \A t \in Tasks : call[t] # NotInCall => state = "RUNNING"

IInv == TypeOK /\ RingBounds /\ CallsSeeRunning /\ NoStaleRequest

-----------------------------------------------------------------------------
\* Arithmetic of the ring index.
LEMMA ModBelow == ASSUME NEW c \in Nat \ {0}, NEW x \in Nat, x < c
                  PROVE  x % c = x
  OBVIOUS

LEMMA ModWrap == ASSUME NEW c \in Nat \ {0}, NEW x \in Nat, c <= x, x < c + c
                 PROVE  x % c = x - c
  OBVIOUS

LEMMA ModRange == ASSUME NEW c \in Nat \ {0}, NEW x \in Nat
                  PROVE  x % c \in 0..(c - 1)
  OBVIOUS

LEMMA ModOnce == ASSUME NEW c \in Nat \ {0}, NEW a \in 0..(c - 1), NEW b \in 0..(c - 1)
                 PROVE  (a + b) % c = IF a + b < c THEN a + b ELSE (a + b) - c
  <1>1. a + b \in Nat /\ a + b < c + c OBVIOUS
  <1>2. CASE a + b < c BY <1>1, <1>2, ModBelow
  <1>3. CASE ~(a + b < c)
    <2>1. c <= a + b BY <1>3
    <2>2. (a + b) % c = (a + b) - c BY <1>1, <2>1, ModWrap
    <2> QED BY <1>3, <2>2
  <1> QED BY <1>2, <1>3

\* Two requests at different distances from the head are in different slots.
LEMMA SlotsDistinct ==
  ASSUME NEW c \in Nat \ {0}, NEW h \in 0..(c - 1),
         NEW i \in 0..(c - 1), NEW j \in 0..(c - 1), i # j
  PROVE  (h + i) % c # (h + j) % c
  <1>1. (h + i) % c = IF h + i < c THEN h + i ELSE (h + i) - c BY ModOnce
  <1>2. (h + j) % c = IF h + j < c THEN h + j ELSE (h + j) - c BY ModOnce
  <1> QED BY <1>1, <1>2

\* Moving the head by one slot shifts every distance by one.
LEMMA ShiftSlot ==
  ASSUME NEW c \in Nat \ {0}, NEW h \in 0..(c - 1), NEW i \in 0..(c - 1)
  PROVE  (((h + 1) % c) + i) % c = (h + (i + 1)) % c
  <1>1. CASE h + 1 < c
    <2>1. (h + 1) % c = h + 1 BY <1>1, ModBelow
    <2> QED BY <2>1
  <1>2. CASE h + 1 = c
    <2>1. (h + 1) % c = 0 BY <1>2, ModWrap
    <2>2. h + (i + 1) = c + i BY <1>2
    <2>3. (c + i) % c = i BY ModWrap
    <2>4. i % c = i BY ModBelow
    <2> QED BY <2>1, <2>2, <2>3, <2>4
  <1> QED BY <1>1, <1>2

-----------------------------------------------------------------------------
LEMMA InitIInv == Init => IInv
  <1> SUFFICES ASSUME Init PROVE IInv OBVIOUS
  <1> USE CapacityAssumption, SessionAssumption DEF Init
  <1>1. queue \in [Slots -> Request \cup {NoRequest}] /\ head \in Slots BY DEF Slots
  <1>2. call \in [Tasks -> Calls] /\ result \in [Tasks -> Statuses] BY DEF Calls, Statuses
  <1>3. bootReady \in BOOLEAN OBVIOUS
  <1>7. TypeOK BY <1>1, <1>2, <1>3 DEF TypeOK, States
  <1>4. RingBounds BY DEF RingBounds
  <1>5. CallsSeeRunning BY DEF CallsSeeRunning
  <1>6. NoStaleRequest BY DEF NoStaleRequest, NotInCall
  <1> QED BY <1>4, <1>5, <1>6, <1>7 DEF IInv

\* The type part of the inductive step, one step per action.
LEMMA StepTypeOK == IInv /\ [Next]_vars => TypeOK'
  <1> SUFFICES ASSUME IInv, [Next]_vars PROVE TypeOK' OBVIOUS
  <1> USE CapacityAssumption, SessionAssumption DEF IInv, TypeOK, ring, Returns, Calls, Statuses
  <1>1. CASE BootCompletes BY <1>1 DEF BootCompletes
  <1>2. ASSUME NEW d \in 0..(QueueCapacityMax + 1), Prepare(d) PROVE TypeOK'
    BY <1>2 DEF Prepare, Tasks, Slots, States, CountWiped
  <1>3. CASE Start BY <1>3 DEF Start, Tasks, States
  <1>4. ASSUME NEW t \in Tasks, NEW k \in Kinds, NEW p \in Payloads, ScheduleCheck(t, k, p)
        PROVE TypeOK'
    BY <1>4 DEF ScheduleCheck, Request
  <1>5. ASSUME NEW t \in {"keypad", "main"}, ScheduleInsert(t) PROVE TypeOK'
    <2>1. t \in Tasks BY DEF Tasks
    <2>2. call[t].request \in Request BY <1>5, <2>1 DEF ScheduleInsert, NotInCall
    <2>3. CASE ~HasRoom BY <1>5, <2>1, <2>3 DEF ScheduleInsert
    <2>4. CASE HasRoom
      <3>1. count + 1 \in 0..QueueCapacityMax BY <2>4 DEF HasRoom
      <3> QED BY <1>5, <2>1, <2>2, <2>4, <3>1 DEF ScheduleInsert
    <2> QED BY <2>3, <2>4
  <1>6. CASE DequeueCheck BY <1>6 DEF DequeueCheck, Tasks
  <1>7. CASE DequeueRemove
    <2>1. CASE count = 0 BY <1>7, <2>1 DEF DequeueRemove, Tasks
    <2>2. CASE count # 0
      <3>1. capacity \in Nat \ {0} BY <2>2 DEF RingBounds
      <3>2. (head + 1) % capacity \in 0..(capacity - 1)
        BY <3>1, ModRange DEF Slots
      <3>3. HeadAfterDequeue \in Slots BY <3>1, <3>2 DEF HeadAfterDequeue, Slots
      <3>4. count - 1 \in 0..QueueCapacityMax BY <2>2
      <3> QED BY <1>7, <2>2, <3>3, <3>4 DEF DequeueRemove, Tasks
    <2> QED BY <2>1, <2>2
  <1>8. CASE UNCHANGED vars BY <1>8 DEF vars
  <1> QED BY <1>1, <1>2, <1>3, <1>4, <1>5, <1>6, <1>7, <1>8 DEF Next

LEMMA StepRingBounds == IInv /\ [Next]_vars => RingBounds'
  <1> SUFFICES ASSUME IInv, [Next]_vars PROVE RingBounds' OBVIOUS
  <1> USE CapacityAssumption DEF IInv, TypeOK, RingBounds, ring
  <1>1. CASE BootCompletes BY <1>1 DEF BootCompletes
  <1>2. ASSUME NEW d \in 0..(QueueCapacityMax + 1), Prepare(d) PROVE RingBounds'
    BY <1>2 DEF Prepare, CountWiped
  <1>3. CASE Start BY <1>3, CapacityAssumption DEF Start
  <1>4. ASSUME NEW t \in Tasks, NEW k \in Kinds, NEW p \in Payloads, ScheduleCheck(t, k, p)
        PROVE RingBounds'
    BY <1>4 DEF ScheduleCheck
  <1>5. ASSUME NEW t \in {"keypad", "main"}, ScheduleInsert(t) PROVE RingBounds'
    BY <1>5 DEF ScheduleInsert, HasRoom
  <1>6. CASE DequeueCheck BY <1>6 DEF DequeueCheck
  <1>7. CASE DequeueRemove
    <2>1. CASE count = 0 BY <1>7, <2>1 DEF DequeueRemove
    <2>2. CASE count # 0
      <3>1. capacity \in Nat \ {0} BY <2>2
      <3>2. (head + 1) % capacity \in 0..(capacity - 1) BY <3>1, ModRange DEF Slots
      <3>3. HeadAfterDequeue \in 0..(capacity - 1) BY <3>2 DEF HeadAfterDequeue
      <3> QED BY <1>7, <2>2, <3>1, <3>3 DEF DequeueRemove
    <2> QED BY <2>1, <2>2
  <1>8. CASE UNCHANGED vars BY <1>8 DEF vars
  <1> QED BY <1>1, <1>2, <1>3, <1>4, <1>5, <1>6, <1>7, <1>8 DEF Next

LEMMA StepCallsSeeRunning == IInv /\ [Next]_vars => CallsSeeRunning'
  <1> SUFFICES ASSUME IInv, [Next]_vars PROVE CallsSeeRunning' OBVIOUS
  <1> USE DEF IInv, TypeOK, CallsSeeRunning, ring, Returns
  <1>1. CASE BootCompletes BY <1>1 DEF BootCompletes
  <1>2. ASSUME NEW d \in 0..(QueueCapacityMax + 1), Prepare(d) PROVE CallsSeeRunning'
    BY <1>2 DEF Prepare, CanRun, Priority, Tasks
  <1>3. CASE Start BY <1>3 DEF Start, Tasks
  <1>4. ASSUME NEW t \in Tasks, NEW k \in Kinds, NEW p \in Payloads, ScheduleCheck(t, k, p)
        PROVE CallsSeeRunning'
    BY <1>4 DEF ScheduleCheck
  <1>5. ASSUME NEW t \in {"keypad", "main"}, ScheduleInsert(t) PROVE CallsSeeRunning'
    BY <1>5 DEF ScheduleInsert, Tasks
  <1>6. CASE DequeueCheck BY <1>6 DEF DequeueCheck, Tasks
  <1>7. CASE DequeueRemove BY <1>7 DEF DequeueRemove, Tasks
  <1>8. CASE UNCHANGED vars BY <1>8 DEF vars
  <1> QED BY <1>1, <1>2, <1>3, <1>4, <1>5, <1>6, <1>7, <1>8 DEF Next

-----------------------------------------------------------------------------
\* Every index the ring arithmetic yields is a slot.
LEMMA RingSlot == ASSUME NEW c \in 1..QueueCapacityMax, NEW x \in Nat PROVE x % c \in Slots
  <1>1. c \in Nat \ {0} BY CapacityAssumption
  <1>2. x % c \in 0..(c - 1) BY <1>1, ModRange
  <1> QED BY <1>1, <1>2, CapacityAssumption DEF Slots

\* A function on 1..n is the sequence with the same elements.
LEMMA SameSequence ==
  ASSUME NEW S, NEW s \in Seq(S), NEW n \in Nat, NEW f, f = [i \in 1..n |-> f[i]],
         Len(s) = n, \A i \in 1..n : f[i] = s[i]
  PROVE  f = s
  <1>1. s = [i \in 1..n |-> s[i]] OBVIOUS
  <1>2. [i \in 1..n |-> f[i]] = [i \in 1..n |-> s[i]] OBVIOUS
  <1> QED BY <1>1, <1>2

LEMMA PendingSeq ==
  ASSUME IInv PROVE Pending \in Seq(Request \cup {NoRequest}) /\ Len(Pending) = count
  <1>1. ASSUME NEW i \in 1..count PROVE queue[(head + i - 1) % capacity] \in Request \cup {NoRequest}
    <2>1. capacity \in 1..QueueCapacityMax /\ head + i - 1 \in Nat
      BY CapacityAssumption DEF IInv, TypeOK, RingBounds, Slots
    <2>2. (head + i - 1) % capacity \in Slots BY <2>1, RingSlot
    <2> QED BY <2>2 DEF IInv, TypeOK
  <1>2. count \in Nat BY CapacityAssumption DEF IInv, TypeOK
  <1> QED BY <1>1, <1>2 DEF Pending

\* What the two critical sections do to the sequence of pending requests.
LEMMA PendingAppend ==
  ASSUME IInv, NEW t \in {"keypad", "main"}, ScheduleInsert(t), HasRoom
  PROVE  /\ count' = count + 1
         /\ Pending' = Append(Pending, call[t].request)
         /\ \A i \in 1..count : Pending'[i] = Pending[i]
         /\ Pending'[count + 1] = call[t].request
  <1> USE DEF IInv, TypeOK, RingBounds, HasRoom
  <1>1. /\ capacity \in Nat \ {0} /\ capacity \in 1..QueueCapacityMax
        /\ head \in 0..(capacity - 1) /\ count \in 0..(capacity - 1)
    BY CapacityAssumption DEF Slots
  <1>2. /\ count' = count + 1 /\ head' = head /\ capacity' = capacity
        /\ queue' = [queue EXCEPT ![InsertIndex] = call[t].request]
    BY DEF ScheduleInsert
  <1>3. InsertIndex \in Slots
    <2>1. head + count \in Nat BY <1>1
    <2> QED BY <1>1, <2>1, RingSlot DEF InsertIndex
  <1>4. ASSUME NEW i \in 1..count PROVE Pending'[i] = Pending[i]
    <2>1. i - 1 \in 0..(capacity - 1) /\ i - 1 # count BY <1>1
    <2>2. (head + (i - 1)) % capacity # InsertIndex
      BY <1>1, <2>1, SlotsDistinct DEF InsertIndex
    <2>3. (head + i - 1) = head + (i - 1) BY <1>1
    <2>4. (head + i - 1) % capacity \in Slots
      <3>1. head + i - 1 \in Nat BY <1>1, <2>1
      <3> QED BY <1>1, <3>1, RingSlot
    <2>5. queue'[(head + i - 1) % capacity] = queue[(head + i - 1) % capacity]
      BY <1>2, <1>3, <2>2, <2>3, <2>4
    <2> QED BY <1>1, <1>2, <2>5 DEF Pending
  <1>5. Pending'[count + 1] = call[t].request
    <2>1. head + (count + 1) - 1 = head + count BY <1>1
    <2>2. queue'[InsertIndex] = call[t].request BY <1>2, <1>3
    <2> QED BY <1>1, <1>2, <2>1, <2>2 DEF Pending, InsertIndex
  <1>6. Pending' = Append(Pending, call[t].request)
    <2>1. Pending \in Seq(Request \cup {NoRequest}) /\ Len(Pending) = count BY PendingSeq
    <2>2. call[t].request \in Request
      <3>1. call[t] \in Calls /\ call[t].op = "schedule" BY DEF ScheduleInsert, Tasks
      <3> QED BY <3>1 DEF Calls, NotInCall
    <2> DEFINE s == Append(Pending, call[t].request)
    <2>3. s \in Seq(Request \cup {NoRequest}) /\ Len(s) = count + 1 BY <2>1, <2>2
    <2>4. \A i \in 1..count : s[i] = Pending[i] BY <1>1, <2>1
    <2>5. s[count + 1] = call[t].request BY <1>1, <2>1
    <2>6. ASSUME NEW i \in 1..(count + 1) PROVE Pending'[i] = s[i]
      <3> HIDE DEF s
      <3>1. CASE i = count + 1 BY <1>5, <2>5, <3>1
      <3>2. CASE i # count + 1
        <4>1. i \in 1..count BY <1>1, <3>2
        <4> QED BY <1>4, <2>4, <4>1
      <3> QED BY <3>1, <3>2
    <2>7. Pending' = [i \in 1..(count + 1) |-> Pending'[i]] BY <1>1, <1>2 DEF Pending
    <2>8. count + 1 \in Nat BY <1>1
    <2> HIDE DEF s
    <2>9. Pending' = s BY <2>3, <2>6, <2>7, <2>8, SameSequence
    <2> QED BY <2>9 DEF s
  <1> QED BY <1>2, <1>4, <1>5, <1>6

LEMMA PendingTail ==
  ASSUME IInv, DequeueRemove, count # 0
  PROVE  /\ count' = count - 1
         /\ Pending # <<>>
         /\ delivered' = Head(Pending)
         /\ delivered' = Pending[1]
         /\ Pending' = Tail(Pending)
         /\ \A i \in 1..(count - 1) : Pending'[i] = Pending[i + 1]
  <1> USE DEF IInv, TypeOK, RingBounds
  <1>1. capacity \in Nat \ {0} /\ head \in 0..(capacity - 1) /\ count \in 1..capacity
    BY CapacityAssumption DEF Slots
  <1>2. /\ count' = count - 1 /\ head' = (head + 1) % capacity /\ capacity' = capacity
        /\ queue' = queue /\ delivered' = queue[head]
    BY DEF DequeueRemove, HeadAfterDequeue
  <1>3. Pending[1] = queue[head]
    <2>1. head + 1 - 1 = head /\ head % capacity = head BY <1>1, ModBelow
    <2> QED BY <1>1, <2>1 DEF Pending
  <1>4. ASSUME NEW i \in 1..(count - 1) PROVE Pending'[i] = Pending[i + 1]
    <2>1. i - 1 \in 0..(capacity - 1) /\ i + 1 \in 1..count BY <1>1
    <2>2. (((head + 1) % capacity) + (i - 1)) % capacity = (head + ((i - 1) + 1)) % capacity
      BY <1>1, <2>1, ShiftSlot
    <2>3. (head + 1) % capacity \in Nat BY <1>1, ModRange
    <2>4. head' + i - 1 = ((head + 1) % capacity) + (i - 1) BY <1>2, <2>3
    <2>5. head + (i + 1) - 1 = head + ((i - 1) + 1) BY <1>1
    <2> QED BY <1>1, <1>2, <2>1, <2>2, <2>4, <2>5 DEF Pending
  <1>5. Pending \in Seq(Request \cup {NoRequest}) /\ Len(Pending) = count BY PendingSeq
  <1>6. Pending' = Tail(Pending)
    <2> DEFINE s == Tail(Pending)
    <2>1. s \in Seq(Request \cup {NoRequest}) /\ Len(s) = count - 1 BY <1>1, <1>5
    <2>2. \A i \in 1..(count - 1) : s[i] = Pending[i + 1] BY <1>1, <1>5
    <2>3. \A i \in 1..(count - 1) : Pending'[i] = s[i] BY <1>4, <2>2
    <2>4. Pending' = [i \in 1..(count - 1) |-> Pending'[i]] BY <1>1, <1>2 DEF Pending
    <2>5. count - 1 \in Nat BY <1>1
    <2> HIDE DEF s
    <2>6. Pending' = s BY <2>1, <2>3, <2>4, <2>5, SameSequence
    <2> QED BY <2>6 DEF s
  <1>7. Pending # <<>> BY <1>1, <1>5
  <1>8. Head(Pending) = Pending[1] BY <1>5, <1>7
  <1> QED BY <1>2, <1>3, <1>4, <1>6, <1>7, <1>8

LEMMA PendingUnchanged ==
  ASSUME UNCHANGED <<queue, head, count, capacity>> PROVE Pending' = Pending
  BY DEF Pending

\* A producer's call is in its critical section with a request it checked.
LEMMA InsertsCheckedRequest ==
  ASSUME IInv, NEW t \in {"keypad", "main"}, ScheduleInsert(t)
  PROVE  /\ t \in Tasks /\ state = "RUNNING"
         /\ call[t].request \in Request
         /\ call[t].request.kind # "NONE"
         /\ call[t].request.session = session
  <1>1. t \in Tasks /\ call[t] \in Calls /\ call[t].op = "schedule"
    BY DEF ScheduleInsert, Tasks, IInv, TypeOK
  <1>2. call[t].request \in Request /\ call[t] # NotInCall BY <1>1 DEF Calls, NotInCall
  <1> QED BY <1>1, <1>2 DEF IInv, CallsSeeRunning, NoStaleRequest

LEMMA StepNoStaleRequest == IInv /\ [Next]_vars => NoStaleRequest'
  <1> SUFFICES ASSUME IInv, [Next]_vars PROVE NoStaleRequest' OBVIOUS
  <1> USE DEF NoStaleRequest
  <1>0. NoStaleRequest /\ count \in Nat /\ call \in [Tasks -> Calls]
    BY CapacityAssumption DEF IInv, TypeOK
  <1>1. CASE BootCompletes
    BY <1>0, <1>1, PendingUnchanged DEF BootCompletes, ring
  <1>2. ASSUME NEW d \in 0..(QueueCapacityMax + 1), Prepare(d) PROVE NoStaleRequest'
    <2>1. \A t \in Tasks : call'[t].op # "schedule"
      BY <1>0, <1>2 DEF Prepare, CanRun, Priority, Tasks, NotInCall, Returns
    <2>2. CASE UNCHANGED ring BY <1>0, <2>1, <2>2, PendingUnchanged DEF ring
    <2>3. CASE count' = CountWiped /\ delivered' = NoRequest BY <2>1, <2>3 DEF CountWiped
    <2> QED BY <1>2, <2>2, <2>3 DEF Prepare
  <1>3. CASE Start
    <2>1. UNCHANGED <<queue, head, count, capacity, session, delivered>>
          /\ call' = [call EXCEPT !["main"] = NotInCall]
      BY <1>3 DEF Start, Returns
    <2> QED BY <1>0, <2>1, PendingUnchanged DEF Tasks, NotInCall
  <1>4. ASSUME NEW t \in Tasks, NEW k \in Kinds, NEW p \in Payloads, ScheduleCheck(t, k, p)
        PROVE NoStaleRequest'
    <2>1. \/ call' = [call EXCEPT ![t] = NotInCall]
          \/ /\ k # "NONE"
             /\ call' = [call EXCEPT ![t] =
                  [op |-> "schedule",
                   request |-> [kind |-> k, payload |-> p, session |-> session, origin |-> t]]]
      BY <1>4 DEF ScheduleCheck, Returns
    <2>2. UNCHANGED ring BY <1>4 DEF ScheduleCheck
    <2> QED BY <1>0, <2>1, <2>2, PendingUnchanged DEF ring, NotInCall
  <1>5. ASSUME NEW t \in {"keypad", "main"}, ScheduleInsert(t) PROVE NoStaleRequest'
    <2>1. t \in Tasks /\ call[t].request.session = session /\ call[t].request.kind # "NONE"
      BY <1>5, InsertsCheckedRequest
    <2>2. UNCHANGED <<session, delivered>> /\ call' = [call EXCEPT ![t] = NotInCall]
      BY <1>5 DEF ScheduleInsert, Returns
    <2>3. CASE ~HasRoom
      <3>1. UNCHANGED <<queue, head, count, capacity>> BY <1>5, <2>3 DEF ScheduleInsert
      <3> QED BY <1>0, <2>2, <3>1, PendingUnchanged DEF NotInCall
    <2>4. CASE HasRoom
      <3>1. /\ count' = count + 1
            /\ \A i \in 1..count : Pending'[i] = Pending[i]
            /\ Pending'[count + 1] = call[t].request
        BY <1>5, <2>4, PendingAppend
      <3>2. ASSUME NEW i \in 1..count' PROVE Pending'[i].kind # "NONE" /\ Pending'[i].session = session
        <4>1. CASE i = count + 1 BY <2>1, <3>1, <4>1
        <4>2. CASE i # count + 1
          <5>1. i \in 1..count BY <1>0, <3>1, <4>2
          <5> QED BY <1>0, <3>1, <5>1
        <4> QED BY <4>1, <4>2
      <3> QED BY <1>0, <2>2, <3>2 DEF NotInCall
    <2> QED BY <2>3, <2>4
  <1>6. CASE DequeueCheck
    <2>1. UNCHANGED ring /\ \A t \in Tasks : call'[t].op = "schedule" => call'[t] = call[t]
      BY <1>0, <1>6 DEF DequeueCheck, Returns, Tasks, NotInCall
    <2> QED BY <1>0, <2>1, PendingUnchanged DEF ring
  <1>7. CASE DequeueRemove
    <2>1. session' = session /\ \A t \in Tasks : call'[t].op = "schedule" => call'[t] = call[t]
      BY <1>0, <1>7 DEF DequeueRemove, Returns, Tasks, NotInCall
    <2>2. CASE count = 0
      <3>1. UNCHANGED <<queue, head, count, capacity, delivered>> BY <1>7, <2>2 DEF DequeueRemove
      <3> QED BY <1>0, <2>1, <3>1, PendingUnchanged
    <2>3. CASE count # 0
      <3>1. /\ count' = count - 1 /\ delivered' = Pending[1]
            /\ \A i \in 1..(count - 1) : Pending'[i] = Pending[i + 1]
        BY <1>7, <2>3, PendingTail
      <3>2. \A i \in 1..(count - 1) : i + 1 \in 1..count BY <1>0
      <3>3. 1 \in 1..count BY <1>0, <2>3
      <3> QED BY <1>0, <2>1, <3>1, <3>2, <3>3
    <2> QED BY <2>2, <2>3
  <1>8. CASE UNCHANGED vars BY <1>0, <1>8, PendingUnchanged DEF vars
  <1> QED BY <1>1, <1>2, <1>3, <1>4, <1>5, <1>6, <1>7, <1>8 DEF Next

-----------------------------------------------------------------------------
LEMMA Inductive == Spec => []IInv
  <1>1. IInv /\ [Next]_vars => IInv'
    BY StepTypeOK, StepRingBounds, StepCallsSeeRunning, StepNoStaleRequest DEF IInv
  <1> QED BY InitIInv, <1>1, PTL DEF Spec

\* jpp_vm_schedule_request and jpp_vm_owner_dequeue_request keep every variable
\* in its type, whatever the ring size and however the tasks interleave.
THEOREM TypeCorrect == Spec => []TypeOK
  BY Inductive, PTL DEF IInv

\* The head and the count of the ring stay inside the configured capacity.
THEOREM RingStaysInBounds == Spec => []RingBounds
  BY Inductive, PTL DEF IInv

\* No request outlives the launch it was made in: jpp_vm_runtime_prepare leaves
\* none behind, and the task priorities keep a producer from inserting one late.
THEOREM RequestsBelongToTheRunningApp == Spec => []NoStaleRequest
  BY Inductive, PTL DEF IInv

-----------------------------------------------------------------------------
\* A step that leaves the ring alone is invisible in the channel.
LEMMA RingUnchanged ==
  ASSUME UNCHANGED ring PROVE UNCHANGED <<state = "RUNNING", capacity, Pending, delivered>>
  BY PendingUnchanged DEF ring

LEMMA StepImplementsChannel == IInv /\ [Next]_vars => [Channel!ChannelNext]_Channel!channelVars
  <1> SUFFICES ASSUME IInv, [Next]_vars PROVE [Channel!ChannelNext]_Channel!channelVars OBVIOUS
  <1> USE DEF Channel!ChannelNext, Channel!channelVars
  <1>1. CASE BootCompletes BY <1>1, RingUnchanged DEF BootCompletes
  <1>2. ASSUME NEW d \in 0..(QueueCapacityMax + 1), Prepare(d)
        PROVE [Channel!ChannelNext]_Channel!channelVars
    <2>1. CASE UNCHANGED ring BY <2>1, RingUnchanged
    <2>2. CASE ~UNCHANGED ring
      <3>1. /\ state' = "WAITING_FOR_BOOT" /\ capacity' = d /\ d \in 1..QueueCapacityMax
            /\ count' = 0 /\ delivered' = NoRequest
        BY <1>2, <2>2 DEF Prepare, CountWiped
      <3>2. Pending' = <<>> BY <3>1 DEF Pending
      <3>3. (state = "RUNNING")' = FALSE BY <3>1
      <3>4. capacity' \in Nat \ {0} BY <3>1, CapacityAssumption
      <3> QED BY <3>1, <3>2, <3>3, <3>4 DEF Channel!Renew
    <2> QED BY <2>1, <2>2
  <1>3. CASE Start
    <2>1. Pending' = Pending /\ UNCHANGED <<capacity, delivered>>
      BY <1>3, PendingUnchanged DEF Start
    <2>2. CASE state' = state BY <2>1, <2>2
    <2>3. CASE state' = "RUNNING" BY <2>1, <2>3 DEF Channel!Open
    <2> QED BY <1>3, <2>2, <2>3 DEF Start
  <1>4. ASSUME NEW t \in Tasks, NEW k \in Kinds, NEW p \in Payloads, ScheduleCheck(t, k, p)
        PROVE [Channel!ChannelNext]_Channel!channelVars
    BY <1>4, RingUnchanged DEF ScheduleCheck
  <1>5. ASSUME NEW t \in {"keypad", "main"}, ScheduleInsert(t)
        PROVE [Channel!ChannelNext]_Channel!channelVars
    <2>1. state = "RUNNING" /\ call[t].request \in Request BY <1>5, InsertsCheckedRequest
    <2>2. UNCHANGED <<state, capacity, delivered>> BY <1>5 DEF ScheduleInsert
    <2>3. CASE ~HasRoom
      <3>1. UNCHANGED ring BY <1>5, <2>3 DEF ScheduleInsert, ring
      <3> QED BY <3>1, RingUnchanged
    <2>4. CASE HasRoom
      <3>1. Pending' = Append(Pending, call[t].request) BY <1>5, <2>4, PendingAppend
      <3>2. Len(Pending) < capacity BY <2>4, PendingSeq DEF HasRoom
      <3>3. Channel!Accept(call[t].request) BY <2>1, <2>2, <3>1, <3>2 DEF Channel!Accept
      <3> QED BY <2>1, <3>3
    <2> QED BY <2>3, <2>4
  <1>6. CASE DequeueCheck BY <1>6, RingUnchanged DEF DequeueCheck
  <1>7. CASE DequeueRemove
    <2>1. CASE count = 0
      <3>1. UNCHANGED ring BY <1>7, <2>1 DEF DequeueRemove, ring
      <3> QED BY <3>1, RingUnchanged
    <2>2. CASE count # 0
      <3>1. /\ Pending # <<>> /\ delivered' = Head(Pending) /\ Pending' = Tail(Pending)
        BY <1>7, <2>2, PendingTail
      <3>2. UNCHANGED <<state, capacity>> BY <1>7 DEF DequeueRemove
      <3>3. state = "RUNNING"
        BY <1>7 DEF DequeueRemove, IInv, CallsSeeRunning, Tasks, NotInCall
      <3> QED BY <3>1, <3>2, <3>3 DEF Channel!Deliver
    <2> QED BY <2>1, <2>2
  <1>8. CASE UNCHANGED vars BY <1>8, RingUnchanged DEF vars, ring
  <1> QED BY <1>1, <1>2, <1>3, <1>4, <1>5, <1>6, <1>7, <1>8 DEF Next

\* The ring of jpp_vm_core, shared by three tasks, is a bounded FIFO channel:
\* requests reach the app in the order they were accepted, and one is refused
\* only when the ring is full.
THEOREM RingImplementsChannel == Spec => ImplementsChannel
  <1>1. Init => Channel!ChannelInit
    <2> SUFFICES ASSUME Init PROVE Channel!ChannelInit OBVIOUS
    <2>1. Pending = <<>> BY DEF Init, Pending
    <2>2. (state = "RUNNING") = FALSE BY DEF Init
    <2> QED BY <2>1, <2>2 DEF Init, Channel!ChannelInit
  <1> QED BY <1>1, Inductive, StepImplementsChannel, PTL
      DEF Spec, ImplementsChannel, Channel!ChannelSpec
=============================================================================
