--------------------------- MODULE TasksProofs ---------------------------
(***************************************************************************)
(* The tasks around the app, for every bound: no press of OK is lost,      *)
(* what an app is told of its packets is true, the OLED and the panel show *)
(* what the state asks for, the buzzer plays one request at a time, and    *)
(* the composition of these with the request ring keeps its types.         *)
(* The proofs about the ring are in VmQueueProofs.                         *)
(***************************************************************************)
EXTENDS MCTasks, VmQueueProofs, FiniteSetTheorems

-----------------------------------------------------------------------------
(***************************************************************************)
(* The radio.  The app is told of a packet what became of it, unless it    *)
(* began while the report of an earlier one was due.                       *)
(***************************************************************************)
InFlight == {unreported[i] : i \in 1..Len(unreported)}

\* A packet is told of after it was handed over, and reported after that.
Numbered ==
  /\ \A p \in InFlight : p <= sent
  /\ \A p \in Packets : p > sent => told[p] = "nothing"
  /\ sending = "drained" => sent < PacketMax
  /\ sending = "waiting" => sent > 0

\* A verdict on a packet the radio still owes can only be that of another one.
UnreportedUntold == \A p \in InFlight \ owed : told[p] \in {"nothing", "timeout"}

\* A send that found nothing due waits for no report but its own: between the
\* drain and the answer the semaphore can say nothing of an earlier packet.
SignalIsItsOwn ==
  /\ (sending = "drained" /\ sent + 1 \notin owed) => (unreported = <<>> /\ ~signal)
  /\ (sending = "waiting" /\ sent \notin owed) =>
        /\ unreported \in {<<>>, <<sent>>}
        /\ signal => (unreported = <<>> /\ lastStatus = fate[sent])

NowInv == NowTypeOK /\ Numbered /\ UnreportedUntold /\ SignalIsItsOwn /\ ToldTheTruth

-----------------------------------------------------------------------------
\* What the two ends of the radio's backlog do to the packets in flight.
LEMMA AppendInFlight ==
  ASSUME NEW S, NEW s \in Seq(S), NEW x \in S
  PROVE  /\ Append(s, x) \in Seq(S)
         /\ {Append(s, x)[i] : i \in 1..Len(Append(s, x))} = {s[i] : i \in 1..Len(s)} \cup {x}
  <1>1. Append(s, x) \in Seq(S) /\ Len(Append(s, x)) = Len(s) + 1 /\ Len(s) \in Nat OBVIOUS
  <1>2. \A i \in 1..Len(s) : Append(s, x)[i] = s[i] OBVIOUS
  <1>3. Append(s, x)[Len(s) + 1] = x OBVIOUS
  <1> QED BY <1>1, <1>2, <1>3

LEMMA TailInFlight ==
  ASSUME NEW S, NEW s \in Seq(S), s # <<>>
  PROVE  /\ Tail(s) \in Seq(S) /\ Head(s) \in {s[i] : i \in 1..Len(s)} /\ Head(s) \in S
         /\ {Tail(s)[i] : i \in 1..Len(Tail(s))} \subseteq {s[i] : i \in 1..Len(s)}
  <1>1. Tail(s) \in Seq(S) /\ Len(Tail(s)) = Len(s) - 1 /\ Len(s) \in Nat \ {0} OBVIOUS
  <1>2. \A i \in 1..Len(Tail(s)) : Tail(s)[i] = s[i + 1] OBVIOUS
  <1>3. Head(s) = s[1] /\ s[1] \in S OBVIOUS
  <1> QED BY <1>1, <1>2, <1>3

LEMMA InitNowInv == NowInit => NowInv
  <1> SUFFICES ASSUME NowInit PROVE NowInv OBVIOUS
  <1> USE EspNowAssumption DEF NowInit, Packets, Fates
  <1>0. <<>> \in Seq(1..PacketMax) /\ Len(<<>>) = 0 OBVIOUS
  <1>1. NowTypeOK
    <2>1. 0 \in 0..PacketMax /\ {} \subseteq 1..PacketMax /\ Len(rxQueue) <= RxDepth BY <1>0
    <2>2. /\ fate \in [Packets -> Fates \cup {"unknown"}]
          /\ told \in [Packets -> {"nothing", "sent", "failed", "timeout"}] OBVIOUS
    <2> QED BY <1>0, <2>1, <2>2 DEF NowTypeOK
  <1>2. InFlight = {} BY DEF InFlight
  <1>3. Numbered /\ UnreportedUntold BY <1>2 DEF Numbered, UnreportedUntold
  <1>4. SignalIsItsOwn BY DEF SignalIsItsOwn
  <1>5. ToldTheTruth BY DEF ToldTheTruth
  <1> QED BY <1>1, <1>3, <1>4, <1>5 DEF NowInv

-----------------------------------------------------------------------------
LEMMA StepNowTypeOK == NowInv /\ [NowNext]_nowVars => NowTypeOK'
  <1> SUFFICES ASSUME NowInv, [NowNext]_nowVars PROVE NowTypeOK' OBVIOUS
  <1> USE EspNowAssumption DEF NowInv, NowTypeOK, Fates
  <1>1. CASE Drain
    <2>1. sent + 1 \in Packets BY <1>1 DEF Drain, Packets
    <2>2. owed' \subseteq Packets BY <1>1, <2>1 DEF Drain
    <2> QED BY <1>1, <2>2 DEF Drain, Drained
  <1>2. CASE HandOver
    <2>1. CASE UNCHANGED <<sent, unreported>> BY <1>2, <2>1 DEF HandOver
    <2>2. CASE sent' = sent + 1 /\ unreported' = Append(unreported, sent + 1) /\ sending' = "waiting"
      <3>1. sent + 1 \in Packets /\ sent + 1 \in 0..PacketMax BY <1>2 DEF HandOver, Numbered, Packets
      <3>2. Append(unreported, sent + 1) \in Seq(Packets) BY <3>1, AppendInFlight
      <3> QED BY <1>2, <2>2, <3>1, <3>2 DEF HandOver
    <2> QED BY <1>2, <2>1, <2>2 DEF HandOver
  <1>3. CASE TakeSignal BY <1>3 DEF TakeSignal, Tell
  <1>4. CASE TimeOut BY <1>4 DEF TimeOut, Tell
  <1>5. CASE Reported
    <2>1. Tail(unreported) \in Seq(Packets) BY <1>5, TailInFlight DEF Reported
    <2> QED BY <1>5, <2>1 DEF Reported
  <1>6. CASE AppDeleted BY <1>6 DEF AppDeleted
  <1>7. CASE Arrives
    <2>1. onAir + 1 \in Packets /\ onAir + 1 \in 0..PacketMax BY <1>7 DEF Arrives, Packets
    <2>2. CASE HasSpace
      <3>1. Append(rxQueue, onAir + 1) \in Seq(Packets) /\ Len(Append(rxQueue, onAir + 1)) = Len(rxQueue) + 1
        BY <2>1, AppendInFlight
      <3> QED BY <1>7, <2>1, <2>2, <3>1 DEF Arrives, HasSpace, txVars
    <2>3. CASE ~HasSpace BY <1>7, <2>1, <2>3 DEF Arrives, txVars
    <2> QED BY <2>2, <2>3
  <1>8. CASE Receives
    <2>1. Tail(rxQueue) \in Seq(Packets) /\ Len(Tail(rxQueue)) = Len(rxQueue) - 1
      BY <1>8, TailInFlight DEF Receives
    <2> QED BY <1>8, <2>1 DEF Receives, txVars
  <1>9. CASE UNCHANGED nowVars BY <1>9 DEF nowVars
  <1> QED BY <1>1, <1>2, <1>3, <1>4, <1>5, <1>6, <1>7, <1>8, <1>9 DEF NowNext

\* The steps that leave the transmission alone.
LEMMA OthersKeepTx == NowInv /\ (Arrives \/ Receives \/ UNCHANGED nowVars) => UNCHANGED txVars
  BY DEF Arrives, Receives, nowVars, txVars

LEMMA StepNumbered == NowInv /\ [NowNext]_nowVars => Numbered' /\ UnreportedUntold'
  <1> SUFFICES ASSUME NowInv, [NowNext]_nowVars PROVE Numbered' /\ UnreportedUntold' OBVIOUS
  <1> USE EspNowAssumption DEF NowInv, NowTypeOK, Numbered, UnreportedUntold
  <1>0. InFlight \subseteq Packets BY DEF InFlight
  <1>1. CASE Drain
    <2>1. InFlight' = InFlight BY <1>1 DEF Drain, InFlight
    <2>2. sent + 1 \notin InFlight /\ InFlight \ owed' \subseteq InFlight \ owed BY <1>1, <1>0 DEF Drain, Packets
    <2> QED BY <1>1, <2>1, <2>2 DEF Drain
  <1>2. CASE HandOver
    <2>1. CASE sending' = "idle" /\ UNCHANGED <<sent, unreported>> BY <1>2, <2>1 DEF HandOver, InFlight
    <2>2. CASE sent' = sent + 1 /\ unreported' = Append(unreported, sent + 1) /\ sending' = "waiting"
      <3>1. sent + 1 \in Packets BY <1>2 DEF HandOver, Packets
      <3>2. InFlight' = InFlight \cup {sent + 1} BY <2>2, <3>1, AppendInFlight DEF InFlight
      <3>3. told[sent + 1] = "nothing" BY <3>1 DEF Packets
      <3> QED BY <1>2, <1>0, <2>2, <3>1, <3>2, <3>3 DEF HandOver, Packets
    <2> QED BY <1>2, <2>1, <2>2 DEF HandOver
  <1>3. CASE TakeSignal
    <2>1. InFlight' = InFlight /\ sent \in Packets BY <1>3 DEF TakeSignal, InFlight, Packets
    <2>2. sent \notin owed => InFlight = {} BY <1>3 DEF TakeSignal, SignalIsItsOwn, InFlight
    <2> QED BY <1>3, <1>0, <2>1, <2>2 DEF TakeSignal, Tell, Packets
  <1>4. CASE TimeOut
    <2>1. InFlight' = InFlight BY <1>4 DEF TimeOut, InFlight
    <2> QED BY <1>4, <1>0, <2>1 DEF TimeOut, Tell, Packets
  <1>5. CASE Reported
    <2>1. InFlight' \subseteq InFlight BY <1>5, TailInFlight DEF Reported, InFlight
    <2> QED BY <1>5, <2>1 DEF Reported
  <1>6. CASE AppDeleted
    <2>1. InFlight' = InFlight BY <1>6 DEF AppDeleted, InFlight
    <2> QED BY <1>6, <2>1 DEF AppDeleted
  <1>7. CASE Arrives \/ Receives \/ UNCHANGED nowVars
    BY <1>7, OthersKeepTx DEF txVars, InFlight
  <1> QED BY <1>1, <1>2, <1>3, <1>4, <1>5, <1>6, <1>7 DEF NowNext

LEMMA StepSignalIsItsOwn == NowInv /\ [NowNext]_nowVars => SignalIsItsOwn'
  <1> SUFFICES ASSUME NowInv, [NowNext]_nowVars PROVE SignalIsItsOwn' OBVIOUS
  <1> USE EspNowAssumption DEF NowInv, NowTypeOK, SignalIsItsOwn
  <1>1. CASE Drain BY <1>1 DEF Drain, Drained
  <1>2. CASE HandOver
    <2>1. CASE sending' = "idle" BY <1>2, <2>1 DEF HandOver
    <2>2. CASE sent' = sent + 1 /\ unreported' = Append(unreported, sent + 1)
      <3>1. sent + 1 \notin owed => unreported' = <<sent + 1>> /\ ~signal BY <1>2, <2>2 DEF HandOver
      <3> QED BY <1>2, <2>2, <3>1 DEF HandOver
    <2> QED BY <1>2, <2>1, <2>2 DEF HandOver
  <1>3. CASE TakeSignal BY <1>3 DEF TakeSignal, Tell
  <1>4. CASE TimeOut BY <1>4 DEF TimeOut, Tell
  <1>5. CASE Reported
    <2>1. ~(sending = "drained" /\ sent + 1 \notin owed) BY <1>5 DEF Reported
    <2>2. CASE sending = "waiting" /\ sent \notin owed
      <3>1. unreported = <<sent>> BY <1>5, <2>2 DEF Reported
      <3>2. Head(unreported) = sent /\ Tail(unreported) = <<>> BY <3>1
      <3>3. sent \in Packets BY <2>2 DEF Numbered, Packets
      <3> QED BY <1>5, <2>2, <3>2, <3>3 DEF Reported
    <2> QED BY <1>5, <2>1, <2>2 DEF Reported
  <1>6. CASE AppDeleted BY <1>6 DEF AppDeleted
  <1>7. CASE Arrives \/ Receives \/ UNCHANGED nowVars BY <1>7, OthersKeepTx DEF txVars
  <1> QED BY <1>1, <1>2, <1>3, <1>4, <1>5, <1>6, <1>7 DEF NowNext

LEMMA StepToldTheTruth == NowInv /\ [NowNext]_nowVars => ToldTheTruth'
  <1> SUFFICES ASSUME NowInv, [NowNext]_nowVars PROVE ToldTheTruth' OBVIOUS
  <1> USE EspNowAssumption DEF NowInv, NowTypeOK, ToldTheTruth
  <1>1. CASE Drain
    <2>1. \A p \in Packets \ owed' : p \in Packets \ owed \/ told[p] = "nothing"
      BY <1>1 DEF Drain, Numbered
    <2> QED BY <1>1, <2>1 DEF Drain
  <1>2. CASE HandOver BY <1>2 DEF HandOver
  <1>3. CASE TakeSignal
    <2>1. sent \in Packets BY <1>3 DEF TakeSignal, Numbered, Packets
    <2>2. sent \notin owed => lastStatus = fate[sent] BY <1>3 DEF TakeSignal, SignalIsItsOwn
    <2> QED BY <1>3, <2>1, <2>2 DEF TakeSignal, Tell, Fates
  <1>4. CASE TimeOut BY <1>4 DEF TimeOut, Tell
  <1>5. CASE Reported
    <2>1. Head(unreported) \in InFlight \cap Packets BY <1>5, TailInFlight DEF Reported, InFlight
    <2>2. Head(unreported) \notin owed => told[Head(unreported)] \in {"nothing", "timeout"}
      BY <2>1 DEF UnreportedUntold
    <2> QED BY <1>5, <2>1, <2>2 DEF Reported
  <1>6. CASE AppDeleted BY <1>6 DEF AppDeleted
  <1>7. CASE Arrives \/ Receives \/ UNCHANGED nowVars BY <1>7, OthersKeepTx DEF txVars
  <1> QED BY <1>1, <1>2, <1>3, <1>4, <1>5, <1>6, <1>7 DEF NowNext

LEMMA StepNowInv == NowInv /\ [NowNext]_nowVars => NowInv'
  BY StepNowTypeOK, StepNumbered, StepSignalIsItsOwn, StepToldTheTruth DEF NowInv

\* espnow_send_impl answers for the packet it sent (jpp_espnow_native.c): for
\* every history of sends, timeouts, late reports and deleted apps.
THEOREM AnswersAreTrue == NowSpec => []ToldTheTruth
  <1>1. NowInv => ToldTheTruth BY DEF NowInv
  <1> QED BY <1>1, InitNowInv, StepNowInv, PTL DEF NowSpec

-----------------------------------------------------------------------------
(***************************************************************************)
(* The keypad.  A press of OK is reported, withheld or still down, and is  *)
(* counted once, as long as the int holding the time has not wrapped.      *)
(***************************************************************************)
CountKinds == {"press", "short", "long", "double", "cut"}
KeyRecord == [stable : Keys, candidate : Keys, count : Nat, started : Int, repeated : Int,
              long : BOOLEAN, pending : BOOLEAN, released : Int, index : Nat]

\* A key is down since an earlier poll, and since a long press ago once it has
\* been reported as a hold.
Timed(s) == /\ s.started < s.index
            /\ s.stable = "OK" => s.started >= 0
            /\ s.long => s.started >= 0 /\ s.started + LongPress < s.index

\* The presses of OK that are not reported yet, and how many a report stands for.
Withheld(s) == (IF s.pending THEN 1 ELSE 0) + (IF s.stable = "OK" /\ ~s.long THEN 1 ELSE 0)
Worth(kind) == IF kind = "double" THEN 2 ELSE IF kind = "other" THEN 0 ELSE 1

\* The presses of OK, but for extra clicks that a poll has yet to count.
Balanced(c, s, extra) ==
  c["press"] = c["short"] + c["long"] + 2 * c["double"] + c["cut"] + extra + Withheld(s)

\* What a poll starts from, after the withheld click, and what it leaves behind.
BeforePoll(s, now, flushed) ==
  /\ s \in KeyRecord /\ Timed(s) /\ now = s.index /\ now \in 0..(Half - 1) /\ flushed \in BOOLEAN
  /\ counted \in [CountKinds -> Nat] /\ Balanced(counted, s, IF flushed THEN 1 ELSE 0)
  /\ s.pending => NeedsDoubleClick /\ Since(s.released, now) < DoubleClick

Tallied(s, c) == s \in KeyRecord /\ Timed(s) /\ c \in [CountKinds -> Nat] /\ Balanced(c, s, 0)

AfterPoll == Tallied(key', counted') /\ (key'.pending => NeedsDoubleClick)

KeyInv == Tallied(key, counted) /\ (key.pending => last.apart)

-----------------------------------------------------------------------------
\* Until it wraps, the int holds the time and its differences.
LEMMA IntHolds == ASSUME NEW n \in 0..(Half - 1) PROVE Int32(n) = n
  <1>1. Half \in Nat \ {0} BY TimesAssumption
  <1>2. 2 * Half \in Nat \ {0} /\ n + Half \in Nat /\ n + Half < 2 * Half BY <1>1
  <1>3. (n + Half) % (2 * Half) = n + Half BY <1>2, ModBelow
  <1> QED BY <1>1, <1>3 DEF Int32

LEMMA SinceHolds ==
  ASSUME NEW now \in 0..(Half - 1), NEW t \in Int, 0 <= t, t <= now
  PROVE  Since(t, now) = now - t
  <1>1. Half \in Nat \ {0} BY TimesAssumption
  <1>2. now - t \in 0..(Half - 1) BY <1>1
  <1> QED BY <1>2, IntHolds DEF Since

LEMMA SinceIsInt == ASSUME NEW now \in Int, NEW t \in Int PROVE Since(t, now) \in Int
  <1>1. Half \in Nat \ {0} BY TimesAssumption
  <1>2. ((now - t) + Half) % (2 * Half) \in Int BY <1>1
  <1> QED BY <1>1, <1>2 DEF Since, Int32

\* A report leaves the presses balanced when it is worth what is no longer withheld.
LEMMA ReportBalances ==
  ASSUME NEW s, NEW r, NEW flushed \in BOOLEAN, NEW pressed \in BOOLEAN,
         NEW kind \in {"other", "short", "long", "double", "cut"},
         counted \in [CountKinds -> Nat], Balanced(counted, s, IF flushed THEN 1 ELSE 0),
         Withheld(s) \in Nat, Withheld(r) \in Nat,
         Withheld(s) + (IF pressed THEN 1 ELSE 0) = Worth(kind) + Withheld(r),
         Report(kind, flushed, pressed)
  PROVE  counted' \in [CountKinds -> Nat] /\ Balanced(counted', r, 0)
  <1> DEFINE f == IF flushed THEN 1 ELSE 0
             p == IF pressed THEN 1 ELSE 0
             is(k) == IF kind = k THEN 1 ELSE 0
  <1>1. DOMAIN counted = CountKinds OBVIOUS
  <1>2. counted' = [k \in CountKinds |-> counted[k] + (IF k = kind THEN 1 ELSE 0)
                      + (IF k = "short" /\ flushed THEN 1 ELSE 0)
                      + (IF k = "press" /\ pressed THEN 1 ELSE 0)]
    BY <1>1 DEF Report
  <1>3. \A k \in CountKinds : counted[k] \in Nat OBVIOUS
  <1>4. counted' \in [CountKinds -> Nat] BY <1>2, <1>3
  <1>5. /\ counted'["press"] = counted["press"] + p
        /\ counted'["short"] = counted["short"] + is("short") + f
        /\ counted'["long"] = counted["long"] + is("long")
        /\ counted'["double"] = counted["double"] + is("double")
        /\ counted'["cut"] = counted["cut"] + is("cut")
    BY <1>2, <1>3 DEF CountKinds
  <1>6. /\ counted["press"] \in Nat /\ counted["short"] \in Nat /\ counted["long"] \in Nat
        /\ counted["double"] \in Nat /\ counted["cut"] \in Nat
    BY <1>3 DEF CountKinds
  <1>7. Worth(kind) = is("short") + is("long") + 2 * is("double") + is("cut") BY DEF Worth
  <1>8. /\ f \in Nat /\ p \in Nat
        /\ is("short") \in Nat /\ is("long") \in Nat /\ is("double") \in Nat /\ is("cut") \in Nat
    OBVIOUS
  <1>9. counted["press"] = counted["short"] + counted["long"] + 2 * counted["double"]
                             + counted["cut"] + f + Withheld(s)
    BY DEF Balanced
  <1>10. Withheld(s) + p = Worth(kind) + Withheld(r) OBVIOUS
  <1>13. Withheld(s) + p = is("short") + is("long") + 2 * is("double") + is("cut") + Withheld(r)
    BY <1>7, <1>10
  <1> HIDE DEF f, p, is
  <1>11. counted["press"] + p = (counted["short"] + is("short") + f) + (counted["long"] + is("long"))
           + 2 * (counted["double"] + is("double")) + (counted["cut"] + is("cut")) + 0 + Withheld(r)
    <2>1. ASSUME NEW P \in Nat, P = counted["press"], NEW S \in Nat, S = counted["short"],
                 NEW L \in Nat, L = counted["long"], NEW D \in Nat, D = counted["double"],
                 NEW C \in Nat, C = counted["cut"], NEW w \in Nat, w = Withheld(s),
                 NEW v \in Nat, v = Withheld(r), NEW a \in Nat, a = is("short"),
                 NEW b \in Nat, b = is("long"), NEW d \in Nat, d = is("double"),
                 NEW e \in Nat, e = is("cut"), NEW g \in Nat, g = f, NEW q \in Nat, q = p
          PROVE  P + q = (S + a + g) + (L + b) + 2 * (D + d) + (C + e) + 0 + v
      <3>1. P = S + L + 2 * D + C + g + w BY <1>9, <2>1
      <3>2. w + q = a + b + 2 * d + e + v BY <1>13, <2>1
      <3> QED BY <3>1, <3>2
    <2> QED BY <1>6, <1>8, <2>1
  <1>12. Balanced(counted', r, 0) BY <1>5, <1>11 DEF Balanced
  <1> QED BY <1>4, <1>12

-----------------------------------------------------------------------------
LEMMA StaysAfter ==
  ASSUME NEW s, NEW now, NEW flushed, BeforePoll(s, now, flushed), Stays(s, now, flushed)
  PROVE  AfterPoll
  <1> DEFINE t == IF s.stable # "none" /\ s.started < 0 THEN [s EXCEPT !.started = now] ELSE s
             held == Since(t.started, now)
             crossed == t.stable = "OK" /\ held >= LongPress /\ ~t.long
             from == IF t.repeated < 0 THEN t.started + RepeatDelay ELSE t.repeated
  <1>0. LongPress \in Nat \ {0} /\ RepeatDelay \in Nat BY TimesAssumption
  <1>1. t \in KeyRecord /\ t.stable = s.stable /\ t.long = s.long /\ t.pending = s.pending
        /\ t.index = s.index /\ now \in Int
    BY DEF BeforePoll, KeyRecord
  <1>2. t.started <= now /\ (t.stable = "OK" => t = s) BY <1>0 DEF BeforePoll, KeyRecord, Timed
  <1>3. from \in Int BY <1>0, <1>1 DEF KeyRecord
  <1>4. PICK n \in KeyRecord :
          /\ key' = Polled(n) /\ n.stable = t.stable /\ n.started = t.started /\ n.index = t.index
          /\ n.pending = t.pending /\ n.long = (t.long \/ crossed)
    <2> DEFINE repeatDue == t.stable = "OK" /\ t.long /\ held >= LongPress + RepeatDelay
                             /\ Since(t.repeated, now) >= RepeatInterval
               moves == t.stable = "LEFT" /\ held >= RepeatDelay
               next == IF crossed THEN [t EXCEPT !.long = TRUE]
                       ELSE IF repeatDue THEN [t EXCEPT !.repeated = now]
                       ELSE IF moves THEN [t EXCEPT !.repeated = IF Since(from, now) >= RepeatInterval
                                                                  THEN now ELSE from]
                       ELSE t
    <2>1. key' = Polled(next) BY DEF Stays
    <2> HIDE DEF held
    <2>2. next \in KeyRecord BY <1>1, <1>3 DEF KeyRecord
    <2>3. /\ next.stable = t.stable /\ next.started = t.started /\ next.index = t.index
          /\ next.pending = t.pending /\ next.long = (t.long \/ crossed)
      BY <1>1 DEF KeyRecord
    <2> HIDE DEF next
    <2> QED BY <2>1, <2>2, <2>3
  <1>5. Report(IF crossed THEN "long" ELSE "other", flushed, FALSE) BY DEF Stays
  <1>6. crossed => t.started + LongPress <= now
    <2> SUFFICES ASSUME crossed PROVE t.started + LongPress <= now OBVIOUS
    <2>1. held = now - t.started BY <1>1, <1>2, SinceHolds DEF BeforePoll, Timed, KeyRecord
    <2> QED BY <1>0, <1>1, <2>1 DEF KeyRecord
  <1> HIDE DEF t, crossed, from
  <1>7. key' \in KeyRecord /\ key'.index = now + 1 /\ key'.stable = t.stable
        /\ key'.started = t.started /\ key'.pending = t.pending /\ key'.long = (t.long \/ crossed)
    BY <1>1, <1>4 DEF Polled, KeyRecord, BeforePoll
  <1>8. crossed => t.stable = "OK" /\ ~t.long BY DEF crossed
  <1>9. Timed(key')
    <2>1. s.started < now /\ (s.long => s.started >= 0 /\ s.started + LongPress < now)
          /\ (s.stable = "OK" => s.started >= 0)
      BY DEF BeforePoll, Timed
    <2>2. s.long => t = s BY <2>1 DEF t, BeforePoll, KeyRecord
    <2> QED BY <1>0, <1>1, <1>2, <1>6, <1>7, <1>8, <2>1, <2>2 DEF Timed, KeyRecord
  <1>10. counted' \in [CountKinds -> Nat] /\ Balanced(counted', key', 0)
    <2> DEFINE kind == IF crossed THEN "long" ELSE "other"
    <2>1. counted \in [CountKinds -> Nat] /\ flushed \in BOOLEAN
          /\ Balanced(counted, s, IF flushed THEN 1 ELSE 0)
      BY DEF BeforePoll
    <2>2. kind \in {"other", "short", "long", "double", "cut"} OBVIOUS
    <2>3. Withheld(s) \in Nat /\ Withheld(key') \in Nat BY DEF Withheld
    <2>4. Withheld(s) + (IF FALSE THEN 1 ELSE 0) = Worth(kind) + Withheld(key')
      <3>1. CASE crossed
        <4>1. s.stable = "OK" /\ ~s.long /\ key'.stable = "OK" /\ key'.long /\ key'.pending = s.pending
          BY <1>1, <1>7, <1>8, <3>1
        <4>2. Worth(kind) = 1 BY <3>1 DEF Worth
        <4> QED BY <4>1, <4>2 DEF Withheld
      <3>2. CASE ~crossed
        <4>1. key'.stable = s.stable /\ key'.pending = s.pending /\ (key'.long <=> s.long)
          BY <1>1, <1>7, <3>2 DEF KeyRecord
        <4>2. Worth(kind) = 0 BY <3>2 DEF Worth
        <4> QED BY <4>1, <4>2 DEF Withheld
      <3> QED BY <3>1, <3>2
    <2> HIDE DEF kind
    <2>5. Report(kind, flushed, FALSE) BY <1>5 DEF kind
    <2> QED BY <2>1, <2>2, <2>3, <2>4, <2>5, ReportBalances
  <1> QED BY <1>1, <1>7, <1>9, <1>10 DEF AfterPoll, Tallied, BeforePoll

\* What is left of every other alternative, once its record and its report are known.
LEMMA ReportedAfter ==
  ASSUME NEW s, NEW now, NEW flushed, BeforePoll(s, now, flushed), NEW pressed \in BOOLEAN,
         NEW kind \in {"other", "short", "long", "double", "cut"}, Report(kind, flushed, pressed),
         key' \in KeyRecord, Timed(key'), key'.pending => NeedsDoubleClick,
         Withheld(s) + (IF pressed THEN 1 ELSE 0) = Worth(kind) + Withheld(key')
  PROVE  AfterPoll
  <1>1. Withheld(s) \in Nat /\ Withheld(key') \in Nat BY DEF Withheld
  <1>2. counted' \in [CountKinds -> Nat] /\ Balanced(counted', key', 0)
    BY <1>1, ReportBalances DEF BeforePoll
  <1> QED BY <1>2 DEF AfterPoll, Tallied

\* The parts of the detector's state that a press and a release set anew.
LEMMA SetCandidates ==
  ASSUME NEW s \in KeyRecord, NEW c \in Keys, NEW d \in Keys, NEW n \in Nat
  PROVE  [s EXCEPT !.stable = c, !.candidate = d, !.count = n] \in KeyRecord
  BY DEF KeyRecord

LEMMA SetTimes ==
  ASSUME NEW s \in KeyRecord, NEW x \in Int, NEW y \in Int, NEW b \in BOOLEAN
  PROVE  [s EXCEPT !.started = x, !.repeated = y, !.long = b] \in KeyRecord
  BY DEF KeyRecord

LEMMA PolledIs ==
  ASSUME NEW s \in KeyRecord
  PROVE  /\ Polled(s) \in KeyRecord /\ Polled(s).index = s.index + 1
         /\ Polled(s).stable = s.stable /\ Polled(s).pending = s.pending
         /\ Polled(s).long = s.long /\ Polled(s).started = s.started
  BY DEF Polled, KeyRecord

LEMMA LaterTimed ==
  ASSUME NEW s \in KeyRecord, NEW r \in KeyRecord, Timed(s), r.stable = s.stable, r.long = s.long,
         r.started = s.started, r.index = s.index + 1
  PROVE  Timed(r)
  <1>1. LongPress \in Nat /\ s.started \in Int /\ s.index \in Nat BY TimesAssumption DEF KeyRecord
  <1> QED BY <1>1 DEF Timed

LEMMA BouncesAfter ==
  ASSUME NEW c \in Keys, NEW s, NEW now, NEW flushed, BeforePoll(s, now, flushed), Bounces(c, s, flushed)
  PROVE  AfterPoll
  <1>1. key' \in KeyRecord /\ Timed(key') /\ key'.stable = s.stable /\ key'.pending = s.pending
        /\ (key'.long <=> s.long)
    <2> DEFINE n == IF c = s.candidate THEN s.count + 1 ELSE 1
    <2>1. s \in KeyRecord /\ Timed(s) BY DEF BeforePoll
    <2>2. key' = Polled([s EXCEPT !.candidate = c, !.count = n]) /\ n \in Nat
      BY <2>1 DEF Bounces, KeyRecord
    <2> HIDE DEF n
    <2> DEFINE t == [s EXCEPT !.candidate = c, !.count = n]
    <2>5. key' = Polled(t) BY <2>2
    <2>4. /\ t \in KeyRecord /\ t.stable = s.stable /\ t.pending = s.pending
          /\ t.long = s.long /\ t.started = s.started /\ t.index = s.index
      BY <2>1, <2>2 DEF KeyRecord
    <2> HIDE DEF t
    <2>3. /\ key' \in KeyRecord /\ key'.stable = s.stable /\ key'.pending = s.pending
          /\ key'.long = s.long /\ key'.started = s.started /\ key'.index = s.index + 1
      BY <2>4, <2>5, PolledIs
    <2> QED BY <2>1, <2>3, LaterTimed
  <1>2. Withheld(s) + (IF FALSE THEN 1 ELSE 0) = Worth("other") + Withheld(key')
    BY <1>1 DEF Withheld, Worth
  <1>3. Report("other", flushed, FALSE) BY DEF Bounces
  <1> QED BY <1>1, <1>2, <1>3, ReportedAfter DEF BeforePoll

LEMMA PressedAfter ==
  ASSUME NEW c \in Keys, NEW s, NEW now, NEW flushed, BeforePoll(s, now, flushed), c # s.stable,
         Pressed(c, s, now, flushed)
  PROVE  AfterPoll
  <1> DEFINE cuts == s.stable = "OK" /\ ~s.long
             kind == IF cuts THEN "cut" ELSE "other"
             isOk == c = "OK"
  <1>1. key' \in KeyRecord /\ Timed(key') /\ key'.stable = c /\ key'.pending = s.pending /\ ~key'.long
    <2>1. s \in KeyRecord /\ now = s.index /\ now \in Nat BY DEF BeforePoll, KeyRecord
    <2>2. key' = Polled([s EXCEPT !.stable = c, !.candidate = c, !.count = 0,
                                  !.started = now, !.repeated = now, !.long = FALSE])
      BY DEF Pressed
    <2> DEFINE t == [s EXCEPT !.stable = c, !.candidate = c, !.count = 0,
                              !.started = now, !.repeated = now, !.long = FALSE]
    <2>6. t \in KeyRecord
      <3> DEFINE u == [s EXCEPT !.stable = c, !.candidate = c, !.count = 0]
      <3>1. u \in KeyRecord BY <2>1, SetCandidates
      <3>2. now \in Int /\ FALSE \in BOOLEAN BY <2>1
      <3>3. t = [u EXCEPT !.started = now, !.repeated = now, !.long = FALSE] BY <2>1 DEF KeyRecord
      <3> HIDE DEF t, u
      <3> QED BY <3>1, <3>2, <3>3, SetTimes
    <2>7. t.stable = c /\ t.pending = s.pending BY <2>1 DEF KeyRecord
    <2>8. t.long = FALSE /\ t.started = now /\ t.index = now BY <2>1 DEF KeyRecord
    <2>4. /\ t \in KeyRecord /\ t.stable = c /\ t.pending = s.pending
          /\ ~t.long /\ t.started = now /\ t.index = now
      BY <2>6, <2>7, <2>8
    <2>5. key' = Polled(t) BY <2>2
    <2> HIDE DEF t
    <2>3. /\ key' \in KeyRecord /\ key'.stable = c /\ key'.pending = s.pending
          /\ ~key'.long /\ key'.started = now /\ key'.index = now + 1
      BY <2>4, <2>5, PolledIs
    <2> QED BY <2>1, <2>3 DEF Timed
  <1>2. isOk => ~cuts OBVIOUS
  <1>3. Withheld(s) + (IF isOk THEN 1 ELSE 0) = Worth(kind) + Withheld(key')
    <2>1. Withheld(key') = (IF s.pending THEN 1 ELSE 0) + (IF isOk THEN 1 ELSE 0) BY <1>1 DEF Withheld
    <2>2. Withheld(s) = (IF s.pending THEN 1 ELSE 0) + (IF cuts THEN 1 ELSE 0) BY DEF Withheld
    <2>3. Worth(kind) = IF cuts THEN 1 ELSE 0 BY DEF Worth
    <2> QED BY <2>1, <2>2, <2>3
  <1>4. Report(kind, flushed, isOk) BY DEF Pressed
  <1>5. kind \in {"other", "short", "long", "double", "cut"} /\ isOk \in BOOLEAN OBVIOUS
  <1> HIDE DEF cuts, kind, isOk
  <1> QED BY <1>1, <1>3, <1>4, <1>5, ReportedAfter DEF BeforePoll

\* What the released key leaves behind.
LEMMA FreedIs ==
  ASSUME NEW s \in KeyRecord
  PROVE  /\ Freed(s) \in KeyRecord /\ Timed(Freed(s))
         /\ Freed(s).pending = s.pending /\ Withheld(Freed(s)) = IF s.pending THEN 1 ELSE 0
  <1> DEFINE t == [s EXCEPT !.stable = "none", !.candidate = "none", !.count = 0]
  <1>1. t \in KeyRecord /\ t.pending = s.pending /\ t.stable = "none" /\ t.index = s.index
    BY DEF KeyRecord, Keys
  <1> HIDE DEF t
  <1>5. Reset(t) \in KeyRecord
    <2>1. Never \in Int /\ FALSE \in BOOLEAN BY DEF Never
    <2> QED BY <1>1, <2>1, SetTimes DEF Reset
  <1>6. Reset(t).pending = s.pending /\ Reset(t).stable = "none" BY <1>1 DEF Reset, KeyRecord
  <1>7. Reset(t).long = FALSE /\ Reset(t).started = -1 BY <1>1 DEF Reset, KeyRecord, Never
  <1>2. /\ Reset(t) \in KeyRecord /\ Reset(t).pending = s.pending /\ Reset(t).stable = "none"
        /\ ~Reset(t).long /\ Reset(t).started = -1
    BY <1>5, <1>6, <1>7
  <1>3. Freed(s) = Polled(Reset(t)) BY DEF Freed, t
  <1>4. /\ Freed(s) \in KeyRecord /\ Freed(s).pending = s.pending /\ Freed(s).stable = "none"
        /\ ~Freed(s).long /\ Freed(s).started = -1
    BY <1>2, <1>3, PolledIs
  <1> QED BY <1>4 DEF Timed, Withheld, KeyRecord

LEMMA FinalizeAfter ==
  ASSUME NEW s, NEW now, NEW flushed, BeforePoll(s, now, flushed), Finalize(s, now, flushed)
  PROVE  AfterPoll
  <1> DEFINE duration == IF Since(s.started, now) < 0 THEN 0 ELSE Since(s.started, now)
             isLong == duration >= LongPress
             isDouble == s.pending /\ Since(s.released, now) <= DoubleClick
             ends(kind, t) == Report(kind, flushed, FALSE) /\ key' = Freed(t)
  <1> USE DEF BeforePoll
  <1>0. LongPress \in Nat \ {0} /\ DoubleClick \in Nat BY TimesAssumption
  <1>1. s.pending \in BOOLEAN /\ s.long \in BOOLEAN /\ now \in Int /\ s.started \in Int
        /\ s.released \in Int
    BY DEF KeyRecord
  <1>2. s.long => isLong
    <2> SUFFICES ASSUME s.long PROVE isLong OBVIOUS
    <2>1. 0 <= s.started /\ s.started + LongPress < now BY <1>0, <1>1 DEF Timed
    <2>2. Since(s.started, now) = now - s.started BY <1>0, <1>1, <2>1, SinceHolds
    <2> QED BY <1>0, <1>1, <2>1, <2>2
  <1>3. s.pending => isDouble
    <2>1. s.pending => Since(s.released, now) < DoubleClick OBVIOUS
    <2>2. Since(s.released, now) \in Int BY <1>1, SinceIsInt
    <2> QED BY <1>0, <2>1, <2>2
  <1> HIDE DEF isLong, isDouble
  <1>4. ASSUME NEW kind \in {"other", "short", "long", "double"}, NEW t \in KeyRecord, ends(kind, t),
               t.pending => NeedsDoubleClick,
               Withheld(s) = Worth(kind) + (IF t.pending THEN 1 ELSE 0)
        PROVE  AfterPoll
    <2>1. key' \in KeyRecord /\ Timed(key') /\ (key'.pending <=> t.pending) BY <1>4, FreedIs
    <2>2. Withheld(s) + (IF FALSE THEN 1 ELSE 0) = Worth(kind) + Withheld(key')
      <3>1. Worth(kind) \in Nat BY DEF Worth
      <3> QED BY <1>4, <3>1, FreedIs
    <2>3. Report(kind, flushed, FALSE) BY <1>4
    <2> QED BY <1>4, <2>1, <2>2, <2>3, ReportedAfter
  <1>5. CASE s.stable # "OK" \/ s.started < 0
    <2>1. s.stable # "OK" BY <1>1, <1>5 DEF Timed
    <2>2. Withheld(s) = Worth("other") + (IF s.pending THEN 1 ELSE 0) BY <2>1 DEF Withheld, Worth
    <2>3. ends("other", s) BY <1>5 DEF Finalize
    <2> QED BY <1>4, <2>2, <2>3
  <1>6. CASE ~(s.stable # "OK" \/ s.started < 0)
    <2>1. Withheld(s) = (IF s.pending THEN 1 ELSE 0) + (IF s.long THEN 0 ELSE 1) BY <1>6 DEF Withheld
    <2>2. \/ isLong /\ ends(IF s.long THEN "other" ELSE "long", s)
          \/ ~isLong /\ ~NeedsDoubleClick /\ ends("short", s)
          \/ ~isLong /\ NeedsDoubleClick /\ isDouble /\ ends("double", PendingTaken(s))
          \/ /\ ~isLong /\ NeedsDoubleClick /\ ~isDouble
             /\ ends("other", [s EXCEPT !.pending = TRUE, !.released = now])
      BY <1>6 DEF Finalize, isLong, isDouble
    <2>3. CASE isLong /\ ends(IF s.long THEN "other" ELSE "long", s)
      <3>1. CASE s.long
        <4>1. Withheld(s) = Worth("other") + (IF s.pending THEN 1 ELSE 0) BY <2>1, <3>1 DEF Worth
        <4> QED BY <1>4, <2>3, <3>1, <4>1
      <3>2. CASE ~s.long
        <4>1. Withheld(s) = Worth("long") + (IF s.pending THEN 1 ELSE 0) BY <2>1, <3>2 DEF Worth
        <4> QED BY <1>4, <2>3, <3>2, <4>1
      <3> QED BY <3>1, <3>2
    <2>4. CASE ~isLong /\ ~NeedsDoubleClick /\ ends("short", s)
      <3>1. ~s.long /\ ~s.pending BY <1>2, <2>4
      <3>2. Withheld(s) = Worth("short") + (IF s.pending THEN 1 ELSE 0) BY <2>1, <3>1 DEF Worth
      <3> QED BY <1>4, <2>4, <3>2
    <2>5. CASE ~isLong /\ NeedsDoubleClick /\ isDouble /\ ends("double", PendingTaken(s))
      <3>1. ~s.long /\ s.pending BY <1>2, <2>5 DEF isDouble
      <3>2. PendingTaken(s) \in KeyRecord /\ ~PendingTaken(s).pending BY DEF PendingTaken, KeyRecord
      <3>3. Withheld(s) = Worth("double") + (IF PendingTaken(s).pending THEN 1 ELSE 0)
        BY <2>1, <3>1, <3>2 DEF Worth
      <3> QED BY <1>4, <2>5, <3>2, <3>3
    <2>6. CASE /\ ~isLong /\ NeedsDoubleClick /\ ~isDouble
               /\ ends("other", [s EXCEPT !.pending = TRUE, !.released = now])
      <3> DEFINE t == [s EXCEPT !.pending = TRUE, !.released = now]
      <3>1. ~s.long /\ ~s.pending BY <1>2, <1>3, <2>6
      <3>2. t \in KeyRecord /\ t.pending BY <1>1 DEF KeyRecord
      <3>3. Withheld(s) = Worth("other") + (IF t.pending THEN 1 ELSE 0) BY <2>1, <3>1, <3>2 DEF Worth
      <3> QED BY <1>4, <2>6, <3>2, <3>3
    <2> QED BY <2>2, <2>3, <2>4, <2>5, <2>6
  <1> QED BY <1>5, <1>6

-----------------------------------------------------------------------------
LEMMA InitKeyInv == KeyInit => KeyInv
  <1> SUFFICES ASSUME KeyInit PROVE KeyInv OBVIOUS
  <1>1. key \in KeyRecord /\ Timed(key) /\ ~key.pending /\ Withheld(key) = 0
    BY DEF KeyInit, KeyRecord, Timed, Keys, Never, Withheld
  <1>2. /\ counted \in [CountKinds -> Nat]
        /\ counted["press"] = 0 /\ counted["short"] = 0 /\ counted["long"] = 0
        /\ counted["double"] = 0 /\ counted["cut"] = 0
    BY DEF KeyInit, CountKinds
  <1> QED BY <1>1, <1>2 DEF KeyInv, Tallied, Balanced

LEMMA PollBefore ==
  ASSUME KeyInv, PollMax <= Half, key.index < PollMax
  PROVE  BeforePoll(IF Due(Int32(key.index)) THEN [key EXCEPT !.pending = FALSE] ELSE key,
                Int32(key.index), Due(Int32(key.index)))
  <1> DEFINE now == Int32(key.index)
             flushed == Due(now)
             s == IF flushed THEN [key EXCEPT !.pending = FALSE] ELSE key
  <1>1. key \in KeyRecord /\ Timed(key) /\ counted \in [CountKinds -> Nat] /\ Balanced(counted, key, 0)
    BY DEF KeyInv, Tallied
  <1>2. now = key.index /\ now \in 0..(Half - 1)
    <2>1. Half \in Nat \ {0} /\ PollMax \in Nat /\ key.index \in Nat BY <1>1, TimesAssumption DEF KeyRecord
    <2>2. key.index \in 0..(Half - 1) BY <2>1
    <2> QED BY <2>2, IntHolds
  <1>3. flushed \in BOOLEAN /\ (flushed => key.pending) BY DEF Due, NeedsDoubleClick
  <1>4. s \in KeyRecord /\ s.stable = key.stable /\ s.long = key.long /\ s.started = key.started
        /\ s.index = key.index /\ s.released = key.released /\ (s.pending <=> key.pending /\ ~flushed)
    BY <1>1, <1>3 DEF KeyRecord
  <1>5. ~flushed /\ key.pending => NeedsDoubleClick /\ Since(key.released, now) < DoubleClick
    BY DEF Due
  <1> HIDE DEF s, flushed, now
  <1>6. Timed(s) BY <1>1, <1>4 DEF Timed
  <1>7. Withheld(key) = Withheld(s) + (IF flushed THEN 1 ELSE 0)
    BY <1>3, <1>4 DEF Withheld
  <1>8. Balanced(counted, s, IF flushed THEN 1 ELSE 0)
    <2>1. \A k \in CountKinds : counted[k] \in Nat BY <1>1
    <2>2. Withheld(s) \in Nat BY DEF Withheld
    <2> QED BY <1>1, <1>7, <2>1, <2>2 DEF Balanced, CountKinds
  <1>9. BeforePoll(s, now, flushed) BY <1>1, <1>2, <1>3, <1>4, <1>5, <1>6, <1>8 DEF BeforePoll
  <1> QED BY <1>9 DEF s, flushed, now

LEMMA StepKeyInv == PollMax <= Half /\ KeyInv /\ [KeyNext]_keyVars => KeyInv'
  <1> SUFFICES ASSUME PollMax <= Half, KeyInv, [KeyNext]_keyVars PROVE KeyInv' OBVIOUS
  <1>1. ASSUME NEW c \in Keys, Poll(c) PROVE KeyInv'
    <2> DEFINE now == Int32(key.index)
               flushed == Due(now)
               s == IF flushed THEN [key EXCEPT !.pending = FALSE] ELSE key
    <2>1. key.index < PollMax BY <1>1 DEF Poll
    <2>2. BeforePoll(s, now, flushed) BY <2>1, PollBefore
    <2>3. \/ Stays(s, now, flushed)
          \/ c # s.stable /\ Bounces(c, s, flushed)
          \/ Finalize(s, now, flushed)
          \/ c # s.stable /\ Pressed(c, s, now, flushed)
      BY <1>1 DEF Poll
    <2>4. last'.apart = NeedsDoubleClick BY <1>1 DEF Poll
    <2> HIDE DEF s, now, flushed
    <2>5. AfterPoll BY <2>2, <2>3, StaysAfter, BouncesAfter, FinalizeAfter, PressedAfter
    <2> QED BY <2>4, <2>5 DEF AfterPoll, KeyInv
  <1>2. CASE UNCHANGED <<key, counted, last>> BY <1>2 DEF KeyInv
  <1>3. CASE ChangeBackGesture BY <1>2, <1>3 DEF ChangeBackGesture
  <1>4. ASSUME NEW mask \in SUBSET Gestures, ClaimOk(mask) PROVE KeyInv' BY <1>2, <1>4 DEF ClaimOk
  <1>5. CASE UNCHANGED keyVars BY <1>2, <1>5 DEF keyVars
  <1> QED BY <1>1, <1>3, <1>4, <1>5 DEF KeyNext

LEMMA InvAccounts == KeyInv => ClicksAccountedFor
  <1> SUFFICES ASSUME KeyInv PROVE ClicksAccountedFor OBVIOUS
  <1>1. \A k \in CountKinds : counted[k] \in Nat BY DEF KeyInv, Tallied
  <1> QED BY <1>1 DEF KeyInv, Tallied, Balanced, Withheld, ClicksAccountedFor, CountKinds

\* jpp_keypad_core.c, whatever the times: a change of what OK means never
\* strands or replays a click, until the int holding the time wraps.
THEOREM NoClickIsLost ==
  ASSUME PollMax <= Half
  PROVE  KeySpec => []ClicksAccountedFor
  <1>1. KeyInv /\ [KeyNext]_keyVars => KeyInv' BY StepKeyInv
  <1> QED BY <1>1, InitKeyInv, InvAccounts, PTL DEF KeySpec
-----------------------------------------------------------------------------
\* The detector's counters and times stay within their bounds.
KeyState ==
  [stable : Keys, candidate : Keys, count : 0..DebounceSamples, started : Never..PollMax,
   repeated : Never..(PollMax + RepeatDelay), long : BOOLEAN, pending : BOOLEAN,
   released : Never..PollMax, index : 0..PollMax]

KeyBounds ==
  /\ key \in KeyState /\ backMode \in Gestures /\ okClaim \subseteq Gestures
  /\ counted.press <= key.index
  /\ last \in [sample : Keys, apart : BOOLEAN, down : 0..PollMax] /\ last.down <= key.index

LEMMA PolledIsState ==
  ASSUME NEW s \in KeyState, s.index < PollMax
  PROVE  Polled(s) \in KeyState /\ Polled(s).index = s.index + 1
<1>1. PollMax \in Nat /\ s.index \in 0..PollMax
  BY TimesAssumption DEF KeyState
<1>2. s.index + 1 \in 0..PollMax
  BY <1>1
<1> DEFINE n == s.index + 1
<1>3. Polled(s) = [s EXCEPT !.index = n]
  BY DEF Polled
<1>4. n \in 0..PollMax
  BY <1>2
<1> HIDE DEF n
<1>5. Polled(s) \in KeyState /\ Polled(s).index = n
  BY <1>3, <1>4 DEF KeyState
<1> QED BY <1>5 DEF n

LEMMA StaysInState ==
  ASSUME NEW s \in KeyState, NEW now \in 0..PollMax, s.index < PollMax, NEW flushed,
         Stays(s, now, flushed)
  PROVE  key' \in KeyState /\ key'.index = s.index + 1
<1> DEFINE t == IF s.stable # "none" /\ s.started < 0 THEN [s EXCEPT !.started = now] ELSE s
           held == Since(t.started, now)
           crossed == t.stable = "OK" /\ held >= LongPress /\ ~t.long
           repeatDue == t.stable = "OK" /\ t.long /\ held >= LongPress + RepeatDelay
                         /\ Since(t.repeated, now) >= RepeatInterval
           from == IF t.repeated < 0 THEN t.started + RepeatDelay ELSE t.repeated
           moves == t.stable = "LEFT" /\ held >= RepeatDelay
           next == IF crossed THEN [t EXCEPT !.long = TRUE]
                   ELSE IF repeatDue THEN [t EXCEPT !.repeated = now]
                   ELSE IF moves THEN [t EXCEPT !.repeated = IF Since(from, now) >= RepeatInterval
                                                              THEN now ELSE from]
                   ELSE t
<1>1. PollMax \in Nat /\ RepeatDelay \in Nat \ {0} /\ Never = -1
  BY TimesAssumption DEF Never
<1>2. now \in Never..PollMax /\ now \in Never..(PollMax + RepeatDelay)
  BY <1>1
<1>3. t \in KeyState /\ t.index = s.index
  BY <1>2 DEF KeyState
<1>4. key' = Polled(next)
  BY DEF Stays
<1> HIDE DEF t
<1>5. from \in Never..(PollMax + RepeatDelay)
  <2>1. t.started \in Never..PollMax /\ t.repeated \in Never..(PollMax + RepeatDelay)
    BY <1>3 DEF KeyState
  <2> QED BY <2>1, <1>1
<1> HIDE DEF from, held, crossed, repeatDue, moves
<1>6. next \in KeyState /\ next.index = s.index
  <2>1. [t EXCEPT !.long = TRUE] \in KeyState /\ [t EXCEPT !.long = TRUE].index = s.index
    BY <1>3 DEF KeyState
  <2>2. ASSUME NEW x \in Never..(PollMax + RepeatDelay)
        PROVE  [t EXCEPT !.repeated = x] \in KeyState /\ [t EXCEPT !.repeated = x].index = s.index
    BY <1>3 DEF KeyState
  <2> QED BY <1>2, <1>3, <1>5, <2>1, <2>2
<1> HIDE DEF next
<1> QED BY <1>4, <1>6, PolledIsState

LEMMA BouncesInState ==
  ASSUME NEW s \in KeyState, s.index < PollMax, NEW flushed, NEW c \in Keys, Bounces(c, s, flushed)
  PROVE  key' \in KeyState /\ key'.index = s.index + 1
<1> DEFINE n == IF c = s.candidate THEN s.count + 1 ELSE 1
           t == [s EXCEPT !.candidate = c, !.count = n]
<1>1. DebounceSamples \in Nat \ {0} /\ s.count \in 0..DebounceSamples
  BY TimesAssumption DEF KeyState
<1>2. c # s.candidate \/ s.count + 1 < DebounceSamples
  BY DEF Bounces
<1>3. n \in 0..DebounceSamples
  BY <1>1, <1>2
<1>4. key' = Polled(t)
  BY DEF Bounces
<1> HIDE DEF n
<1>5. t \in KeyState /\ t.index = s.index
  BY <1>3 DEF KeyState
<1> HIDE DEF t
<1> QED BY <1>4, <1>5, PolledIsState

LEMMA PressedInState ==
  ASSUME NEW s \in KeyState, NEW now \in 0..PollMax, s.index < PollMax, NEW flushed, NEW c \in Keys,
         Pressed(c, s, now, flushed)
  PROVE  key' \in KeyState /\ key'.index = s.index + 1
<1> DEFINE t == [s EXCEPT !.stable = c, !.candidate = c, !.count = 0]
           u == [t EXCEPT !.started = now, !.repeated = now, !.long = FALSE]
<1>1. PollMax \in Nat /\ RepeatDelay \in Nat /\ DebounceSamples \in Nat
  BY TimesAssumption
<1>2. now \in Never..PollMax /\ now \in Never..(PollMax + RepeatDelay) /\ 0 \in 0..DebounceSamples
  BY <1>1 DEF Never
<1>3. t \in KeyState /\ t.index = s.index
  BY <1>2 DEF KeyState
<1>4. u = [s EXCEPT !.stable = c, !.candidate = c, !.count = 0,
                    !.started = now, !.repeated = now, !.long = FALSE]
  BY DEF KeyState
<1>5. key' = Polled(u)
  BY <1>4 DEF Pressed
<1> HIDE DEF t
<1>6. u \in KeyState /\ u.index = s.index
  BY <1>2, <1>3 DEF KeyState
<1> HIDE DEF u
<1> QED BY <1>5, <1>6, PolledIsState

LEMMA FreedInState ==
  ASSUME NEW s \in KeyState, s.index < PollMax
  PROVE  Freed(s) \in KeyState /\ Freed(s).index = s.index + 1
<1> DEFINE t == [s EXCEPT !.stable = "none", !.candidate = "none", !.count = 0]
           u == Reset(t)
<1>1. Never \in Never..PollMax /\ Never \in Never..(PollMax + RepeatDelay) /\ 0 \in 0..DebounceSamples
      /\ "none" \in Keys
  BY TimesAssumption DEF Never, Keys
<1>2. t \in KeyState /\ t.index = s.index
  BY <1>1 DEF KeyState
<1> HIDE DEF t
<1>3. u \in KeyState /\ u.index = s.index
  BY <1>1, <1>2 DEF Reset, KeyState
<1>4. Freed(s) = Polled(u)
  BY DEF Freed, t
<1> HIDE DEF u
<1> QED BY <1>3, <1>4, PolledIsState

LEMMA FinalizeInState ==
  ASSUME NEW s \in KeyState, NEW now \in 0..PollMax, s.index < PollMax, NEW flushed,
         Finalize(s, now, flushed)
  PROVE  key' \in KeyState /\ key'.index = s.index + 1
<1> DEFINE taken == PendingTaken(s)
           left == [s EXCEPT !.pending = TRUE, !.released = now]
<1>1. now \in Never..PollMax
  BY TimesAssumption DEF Never
<1>2. taken \in KeyState /\ taken.index = s.index
  BY DEF PendingTaken, KeyState
<1>3. left \in KeyState /\ left.index = s.index
  BY <1>1 DEF KeyState
<1>4. key' \in {Freed(s), Freed(taken), Freed(left)}
  BY DEF Finalize
<1> HIDE DEF taken, left
<1> QED BY <1>2, <1>3, <1>4, FreedInState

\* A poll counts one press at most.
LEMMA OnePressCounted ==
  ASSUME counted \in [CountKinds -> Nat], NEW flushed, NEW pressed, NEW kind,
         kind # "press", Report(kind, flushed, pressed)
  PROVE  counted'.press \in {counted.press, counted.press + 1}
<1>1. "press" \in CountKinds /\ DOMAIN counted = CountKinds /\ counted["press"] \in Nat
  BY DEF CountKinds
<1>2. counted'["press"] = counted["press"] + (IF "press" = kind THEN 1 ELSE 0)
         + (IF "press" = "short" /\ flushed THEN 1 ELSE 0)
         + (IF "press" = "press" /\ pressed THEN 1 ELSE 0)
  BY <1>1 DEF Report
<1>3. CASE pressed
  BY <1>1, <1>2, <1>3
<1>4. CASE ~pressed
  BY <1>1, <1>2, <1>4
<1> QED BY <1>3, <1>4

LEMMA PollKeepsBounds ==
  ASSUME PollMax <= Half, KeyInv, KeyBounds, NEW c \in Keys, Poll(c)
  PROVE  KeyBounds'
<1> DEFINE now == Int32(key.index)
           flushed == Due(now)
           s == IF flushed THEN [key EXCEPT !.pending = FALSE] ELSE key
<1>1. key.index < PollMax /\ PollMax \in Nat /\ key.index \in Nat /\ key \in KeyState
  BY TimesAssumption DEF Poll, KeyBounds, KeyState
<1>2. BeforePoll(s, now, flushed)
  BY <1>1, PollBefore
<1>3. s \in KeyState /\ s.index = key.index
  BY <1>1 DEF KeyState
<1>4. now \in 0..PollMax
  <2>1. now = s.index
    BY <1>2 DEF BeforePoll
  <2> HIDE DEF now, s
  <2> QED BY <2>1, <1>1, <1>3
<1>5. counted \in [CountKinds -> Nat]
  BY <1>2 DEF BeforePoll
<1>6. \/ Stays(s, now, flushed)
      \/ Bounces(c, s, flushed)
      \/ Finalize(s, now, flushed)
      \/ Pressed(c, s, now, flushed)
  BY DEF Poll
<1>7. last' = [sample |-> c, apart |-> NeedsDoubleClick,
               down |-> IF key'.stable # key.stable THEN 0 ELSE last.down + 1]
      /\ UNCHANGED <<backMode, okClaim>>
  BY DEF Poll
<1> HIDE DEF s, now, flushed
<1>8. key' \in KeyState /\ key'.index = key.index + 1
  BY <1>1, <1>3, <1>4, <1>6, StaysInState, BouncesInState, FinalizeInState, PressedInState
<1>9. counted'.press \in {counted.press, counted.press + 1}
  <2>1. \E kind \in {"other", "short", "long", "double", "cut"}, pressed \in BOOLEAN :
           Report(kind, flushed, pressed)
    <3>1. CASE Stays(s, now, flushed)
      BY <3>1 DEF Stays
    <3>2. CASE Bounces(c, s, flushed)
      BY <3>2 DEF Bounces
    <3>3. CASE Finalize(s, now, flushed)
      BY <3>3 DEF Finalize
    <3>4. CASE Pressed(c, s, now, flushed)
      BY <3>4 DEF Pressed
    <3> QED BY <1>6, <3>1, <3>2, <3>3, <3>4
  <2>2. PICK kind \in {"other", "short", "long", "double", "cut"}, pressed \in BOOLEAN :
           Report(kind, flushed, pressed)
    BY <2>1
  <2>3. kind # "press"
    OBVIOUS
  <2> QED BY <1>5, <2>2, <2>3, OnePressCounted
<1>10. counted'.press <= key'.index
  <2>1. counted.press <= key.index /\ counted["press"] \in Nat
    BY <1>5 DEF KeyBounds, CountKinds
  <2> QED BY <1>1, <1>8, <1>9, <2>1
<1>11. last' \in [sample : Keys, apart : BOOLEAN, down : 0..PollMax] /\ last'.down <= key'.index
  <2> DEFINE down == IF key'.stable # key.stable THEN 0 ELSE last.down + 1
  <2>1. last.down \in Nat /\ last.down <= key.index
    BY DEF KeyBounds
  <2>2. down \in 0..PollMax /\ down <= key'.index
    BY <2>1, <1>1, <1>8
  <2>3. NeedsDoubleClick \in BOOLEAN
    <3>1. CASE okClaim # {}
      BY <3>1 DEF NeedsDoubleClick
    <3>2. CASE okClaim = {}
      BY <3>2 DEF NeedsDoubleClick
    <3> QED BY <3>1, <3>2
  <2>4. last' = [sample |-> c, apart |-> NeedsDoubleClick, down |-> down]
    BY <1>7
  <2> HIDE DEF down
  <2> QED BY <2>2, <2>3, <2>4
<1>12. backMode' \in Gestures /\ okClaim' \subseteq Gestures
  BY <1>7 DEF KeyBounds
<1> QED BY <1>8, <1>10, <1>11, <1>12 DEF KeyBounds, KeyState

LEMMA StepKeyBounds ==
  PollMax <= Half /\ KeyInv /\ KeyBounds /\ [KeyNext]_keyVars => KeyBounds'
<1> SUFFICES ASSUME PollMax <= Half, KeyInv, KeyBounds, [KeyNext]_keyVars PROVE KeyBounds'
  OBVIOUS
<1>1. ASSUME NEW c \in Keys, Poll(c) PROVE KeyBounds'
  BY <1>1, PollKeepsBounds
<1>2. CASE ChangeBackGesture
  BY <1>2 DEF ChangeBackGesture, KeyBounds, KeyState
<1>3. ASSUME NEW mask \in SUBSET Gestures, ClaimOk(mask) PROVE KeyBounds'
  BY <1>3 DEF ClaimOk, KeyBounds, KeyState
<1>4. CASE UNCHANGED keyVars
  BY <1>4 DEF keyVars, KeyBounds, KeyState
<1> QED BY <1>1, <1>2, <1>3, <1>4 DEF KeyNext

LEMMA InitKeyBounds == KeyInit => KeyBounds
<1> SUFFICES ASSUME KeyInit PROVE KeyBounds
  OBVIOUS
<1>1. Never \in Never..PollMax /\ Never \in Never..(PollMax + RepeatDelay) /\ 0 \in 0..DebounceSamples
      /\ 0 \in 0..PollMax /\ "none" \in Keys
  BY TimesAssumption DEF Never, Keys
<1>2. key \in KeyState /\ key.index = 0
  BY <1>1 DEF KeyInit, KeyState
<1>3. counted.press = 0 /\ last \in [sample : Keys, apart : BOOLEAN, down : 0..PollMax] /\ last.down = 0
  BY <1>1 DEF KeyInit
<1> QED BY <1>2, <1>3 DEF KeyInit, KeyBounds

LEMMA BoundsAreTypes == KeyInv /\ KeyBounds => KeyTypeOK
<1> SUFFICES ASSUME KeyInv, KeyBounds PROVE KeyTypeOK
  OBVIOUS
<1>1. key \in KeyState /\ backMode \in Gestures /\ okClaim \subseteq Gestures
      /\ last \in [sample : Keys, apart : BOOLEAN, down : 0..PollMax]
  BY DEF KeyBounds
<1>2. counted \in [CountKinds -> Nat] /\ Balanced(counted, key, 0) /\ counted["press"] <= key.index
  BY DEF KeyInv, Tallied, KeyBounds
<1>3. key.index \in 0..PollMax /\ PollMax \in Nat /\ Withheld(key) \in Nat
  BY <1>1, TimesAssumption DEF KeyState, Withheld
<1>4. /\ counted["press"] \in Nat /\ counted["short"] \in Nat /\ counted["long"] \in Nat
      /\ counted["double"] \in Nat /\ counted["cut"] \in Nat
  BY <1>2 DEF CountKinds
<1>5. counted["press"] = counted["short"] + counted["long"] + 2 * counted["double"] + counted["cut"]
                            + 0 + Withheld(key)
  BY <1>2 DEF Balanced
<1>6. /\ counted["press"] \in 0..PollMax /\ counted["short"] \in 0..PollMax
      /\ counted["long"] \in 0..PollMax /\ counted["double"] \in 0..PollMax
      /\ counted["cut"] \in 0..PollMax
  BY <1>2, <1>3, <1>4, <1>5
<1>7. counted \in [{"press", "short", "long", "double", "cut"} -> 0..PollMax]
  BY <1>2, <1>6 DEF CountKinds
<1> QED BY <1>1, <1>7 DEF KeyTypeOK, KeyState

LEMMA KeypadIsTyped == PollMax <= Half => (KeySpec => []KeyTypeOK)
<1> SUFFICES ASSUME PollMax <= Half PROVE KeySpec => []KeyTypeOK
  OBVIOUS
<1>1. KeyInv /\ KeyBounds /\ [KeyNext]_keyVars => (KeyInv /\ KeyBounds)'
  BY StepKeyInv, StepKeyBounds
<1> QED BY <1>1, InitKeyInv, InitKeyBounds, BoundsAreTypes, PTL DEF KeySpec

-----------------------------------------------------------------------------
(***************************************************************************)
(* The display.  A frame may be skipped because it equals the cache, so    *)
(* the invariant says what is on the OLED whenever the cache holds a       *)
(* frame: that frame, or a picture whose reason still stands and keeps the *)
(* shell from drawing (Covered).  A reason that goes away has to clear the *)
(* cache.  The clock needs more: it goes when a key wakes the screen, or   *)
(* when a server comes up, and a server cannot come up without a key.      *)
(***************************************************************************)
DisplayRecord ==
  /\ power \in {"ACTIVE", "DIM", "OFF"} /\ lastPower \in {"ACTIVE", "DIM", "OFF"}
  /\ idle \in Nat
  /\ server \in [runs : BOOLEAN, shown : BOOLEAN]

\* What is dim was left alone for a while, long enough for the shell to know
\* whether the server runs; only a key, or holding off sleep, has set the power
\* state apart from that of the last tick.
PowerKnown ==
  /\ power = "DIM" => idle > 0
  /\ idle > 0 => server.shown = server.runs
  /\ power \in {lastPower, "ACTIVE"}
  /\ power = "OFF" => pass = "sleeps"
  /\ lastPower = "OFF" => idle = 0 \/ pass = "sleeps"

\* Between its launch and the drawing an app on top is open.
AppIsOpen ==
  /\ open => runner = "app" /\ OnTop = "app" /\ pass \in {"close", "discover", "render"}
  /\ (pass \in {"close", "discover", "render"} /\ runner = "app" /\ OnTop = "app") => open

\* A picture that lies over the shell's frame for a reason that still stands.
Covered ==
  \/ oled.who = "session" /\ sessionDrawn
  \/ oled.who = "settings" /\ (OnTop = "settings" \/ ejected)
  \/ oled.who = "ejected" /\ ejected
  \/ oled.who = "app" /\ runner = "app" /\ (OnTop = "app" \/ ejected)
  \/ oled.who = "clock" /\ lastPower # "ACTIVE" /\ ~server.runs /\ ~server.shown

CacheIsTrue == cache = NoFrame \/ oled = cache \/ Covered

DisplayInv == DisplayRecord /\ PowerKnown /\ AppIsOpen /\ CacheIsTrue /\ PanelFollowsPower

-----------------------------------------------------------------------------
\* A tick with the power state of the pass before it keeps the power state and
\* the panel in step.
LEMMA TickKeepsPower ==
  ASSUME DisplayInv, TickPower
  PROVE  DisplayRecord' /\ PowerKnown' /\ PanelFollowsPower'
<1>1. PICK t \in {idle, idle + 1} :
        LET now == Ticked(t)
            turned == now # lastPower
            wakes == turned /\ now = "ACTIVE"
        IN /\ t <= IdleMax /\ (t > idle => server.shown = server.runs) /\ lastPower' = now
           /\ panel' = IF wakes THEN Bright ELSE IF turned /\ now = "DIM" THEN Dim ELSE panel
           /\ IF wakes THEN Invalidate ELSE UNCHANGED cache
           /\ \/ turned /\ now = "OFF" /\ NoteActivity /\ pass' = "eject"
              \/ /\ turned /\ now = "OFF" /\ ~server.shown
                 /\ power' = now /\ idle' = t /\ pass' = "sleeps"
              \/ (turned => now # "OFF") /\ power' = now /\ idle' = t /\ pass' = "eject"
  BY DEF TickPower, ComparedWith
<1>2. server' = server /\ ejected' = ejected
  BY DEF TickPower, shellVars, appVars
<1>3. t \in Nat /\ t >= idle
  BY <1>1 DEF DisplayInv, DisplayRecord
<1>4. Ticked(t) \in {"ACTIVE", "DIM", "OFF"} /\ (Ticked(t) = "DIM" => t > 0)
  BY <1>3, DisplayAssumption DEF Ticked, DisplayInv, DisplayRecord, PowerKnown
<1>5. pass = "power"
  BY DEF TickPower
<1>6. DisplayRecord'
  BY <1>1, <1>2, <1>3, <1>4 DEF DisplayRecord, DisplayInv, NoteActivity
<1>7. Ticked(t) = "OFF" => lastPower # "OFF"
  BY <1>3, <1>5, DisplayAssumption DEF Ticked, DisplayInv, DisplayRecord, PowerKnown
<1>8. PowerKnown'
  <2>1. CASE Ticked(t) = "OFF"
    BY <1>1, <1>2, <1>3, <1>5, <1>7, <2>1 DEF PowerKnown, DisplayRecord, DisplayInv, NoteActivity
  <2>2. CASE Ticked(t) # "OFF"
    BY <1>1, <1>2, <1>3, <1>4, <1>5, <2>2 DEF PowerKnown, DisplayRecord, DisplayInv
  <2> QED BY <2>1, <2>2
<1>9. PanelFollowsPower'
  BY <1>1, <1>2, <1>4 DEF PanelFollowsPower, DisplayInv
<1> QED BY <1>6, <1>8, <1>9

\* A tick leaves what covers the frame, or clears the cache: the clock only goes
\* when the screen wakes.
LEMMA TickKeepsCache ==
  ASSUME DisplayInv, TickPower
  PROVE  AppIsOpen' /\ CacheIsTrue'
<1>1. PICK t \in {idle, idle + 1} :
        LET now == Ticked(t)
            turned == now # lastPower
            wakes == turned /\ now = "ACTIVE"
        IN /\ lastPower' = now
           /\ IF wakes THEN Invalidate ELSE UNCHANGED cache
           /\ pass' \in {"eject", "sleeps"}
  BY DEF TickPower, ComparedWith
<1>2. UNCHANGED <<screens, server, ejected, runner, open, sessionDrawn, oled>>
  BY DEF TickPower, shellVars, appVars
<1>3. AppIsOpen'
  <2>1. pass = "power"
    BY DEF TickPower
  <2> QED BY <1>1, <1>2, <2>1 DEF AppIsOpen, DisplayInv
<1>4. CacheIsTrue'
  <2>1. CASE cache = NoFrame \/ oled = cache
    BY <1>1, <1>2, <2>1 DEF CacheIsTrue, Invalidate
  <2>2. CASE Covered
    BY <1>1, <1>2, <2>2 DEF CacheIsTrue, Covered, Invalidate, OnTop
  <2> QED BY <2>1, <2>2 DEF DisplayInv, CacheIsTrue
<1> QED BY <1>3, <1>4

-----------------------------------------------------------------------------
\* A key on the shell's screens is acted on only while the screen is awake, so no
\* clock covers the frame, and the settings are left with the cache cleared.
LEMMA KeyKeepsInv ==
  ASSUME DisplayInv, NEW k \in Buttons, HandleAction(k)
  PROVE  DisplayInv'
<1>1. /\ power' = "ACTIVE" /\ idle' = 0 /\ pass = "keys" /\ pass' \in {"keys", "restarts"}
      /\ UNCHANGED <<lastPower, panel, ejected, runner, open, sessionDrawn, oled>>
  BY DEF HandleAction, NoteActivity, appVars
<1>2. \/ ~ejected /\ runner = "none" /\ ToShell(k)
      \/ UNCHANGED <<screens, server, cache>>
  BY DEF HandleAction, shellVars
<1>3. server' \in [runs : BOOLEAN, shown : BOOLEAN]
  <2>1. \/ server' = server
        \/ \E up \in BOOLEAN : server' = [server EXCEPT !.runs = up]
        \/ server' = [runs |-> FALSE, shown |-> FALSE]
    BY <1>2 DEF ToShell, OnSettings, OnLauncher, OnCrash, OnWebdav, OnPassconfig, shellVars,
                ServerAsked
  <2>2. server \in [runs : BOOLEAN, shown : BOOLEAN]
    BY DEF DisplayInv, DisplayRecord
  <2>3. CASE server' = [runs |-> FALSE, shown |-> FALSE]
    BY <2>3
  <2>4. CASE \E up \in BOOLEAN : server' = [server EXCEPT !.runs = up]
    BY <2>2, <2>4
  <2> QED BY <2>1, <2>2, <2>3, <2>4
<1>4. DisplayRecord' /\ PowerKnown' /\ AppIsOpen' /\ PanelFollowsPower'
  BY <1>1, <1>3 DEF DisplayRecord, PowerKnown, AppIsOpen, PanelFollowsPower, DisplayInv
<1>5. CacheIsTrue'
  <2>1. CASE UNCHANGED <<screens, server, cache>>
    BY <1>1, <2>1 DEF CacheIsTrue, Covered, OnTop, DisplayInv
  <2>2. CASE ~ejected /\ runner = "none" /\ ToShell(k)
    <3>1. CASE OnSettings
      <4>1. \/ UNCHANGED <<screens, server, cache>>
            \/ cache' = NoFrame
        BY <3>1 DEF OnSettings, Invalidate
      <4> QED BY <4>1, <2>1 DEF CacheIsTrue
    <3>2. CASE OnTop # "settings" /\ lastPower # "ACTIVE" /\ UNCHANGED <<shellVars, cache>>
      BY <3>2, <2>1 DEF shellVars
    <3>3. CASE OnTop # "settings" /\ lastPower = "ACTIVE"
      <4>1. cache' \in {cache, NoFrame}
        BY <2>2, <3>3 DEF ToShell, OnSettings, OnLauncher, OnCrash, OnWebdav, OnPassconfig, Invalidate
      <4>2. Covered => oled.who = "session" /\ sessionDrawn
        BY <2>2, <3>3 DEF Covered
      <4> QED BY <1>1, <4>1, <4>2 DEF CacheIsTrue, Covered, DisplayInv
    <3> QED BY <2>2, <3>1, <3>2, <3>3 DEF ToShell
  <2> QED BY <1>2, <2>1, <2>2
<1> QED BY <1>4, <1>5 DEF DisplayInv

\* The keyboard leaves with the cache cleared.
LEMMA PasswordKeepsInv ==
  ASSUME DisplayInv, AskPassword
  PROVE  DisplayInv'
<1>1. /\ power' = "ACTIVE" /\ idle' = 0 /\ cache' = NoFrame
      /\ pass = "keys" /\ pass' = "poll"
      /\ UNCHANGED <<lastPower, panel, ejected, runner, open>>
  BY DEF AskPassword, NoteActivity, Invalidate, appVars
<1>2. server' \in [runs : BOOLEAN, shown : BOOLEAN]
  BY DEF AskPassword, ServerAsked, DisplayInv, DisplayRecord
<1>3. DisplayRecord' /\ PowerKnown' /\ PanelFollowsPower'
  BY <1>1, <1>2 DEF DisplayRecord, PowerKnown, PanelFollowsPower, DisplayInv
<1>4. AppIsOpen' /\ CacheIsTrue'
  BY <1>1 DEF AppIsOpen, CacheIsTrue, DisplayInv
<1> QED BY <1>3, <1>4 DEF DisplayInv

\* A poll can only show the clock a server that was up when its reason arose.
LEMMA PollKeepsInv ==
  ASSUME DisplayInv, PollServer
  PROVE  DisplayInv'
<1>1. /\ pass' = "power" /\ pass \in {"keys", "poll"}
      /\ UNCHANGED <<screens, power, lastPower, idle, panel, ejected, runner, open,
                     sessionDrawn, cache, oled>>
  BY DEF PollServer, powerVars, appVars, drawVars
<1>2. server' \in {server, [server EXCEPT !.shown = server.runs]}
  BY DEF PollServer
<1>3. /\ server'.runs = server.runs /\ server'.shown \in {server.shown, server.runs}
      /\ server' \in [runs : BOOLEAN, shown : BOOLEAN]
  BY <1>2 DEF DisplayInv, DisplayRecord
<1>4. DisplayRecord' /\ PanelFollowsPower'
  BY <1>1, <1>3 DEF DisplayRecord, PanelFollowsPower, DisplayInv
<1>5. PowerKnown'
  BY <1>1, <1>3 DEF PowerKnown, DisplayInv
<1>6. AppIsOpen'
  BY <1>1 DEF AppIsOpen, OnTop, DisplayInv
<1>7. CacheIsTrue'
  BY <1>1, <1>3 DEF CacheIsTrue, Covered, OnTop, DisplayInv
<1> QED BY <1>4, <1>7, <1>5, <1>6 DEF DisplayInv

-----------------------------------------------------------------------------
\* The lost card covers the frame until the restart.
LEMMA EjectionKeepsInv ==
  ASSUME DisplayInv, HandleEjection
  PROVE  DisplayInv'
<1>1. /\ pass = "eject" /\ pass' = "app"
      /\ UNCHANGED <<server, power, lastPower, idle, runner, open, sessionDrawn, oled>>
      /\ \/ ejected' = TRUE /\ cache' = NoFrame /\ panel' = [panel EXCEPT !.contrast = "full"]
         \/ UNCHANGED <<ejected, panel, screens, cache>>
  BY DEF HandleEjection, Invalidate
<1>2. lastPower = "ACTIVE" => panel' = Bright
  BY <1>1 DEF DisplayInv, PanelFollowsPower, Bright
<1>3. DisplayRecord' /\ PowerKnown' /\ AppIsOpen'
  BY <1>1 DEF DisplayRecord, PowerKnown, AppIsOpen, DisplayInv
<1>4. PanelFollowsPower'
  BY <1>1, <1>2 DEF PanelFollowsPower, DisplayInv
<1>5. CacheIsTrue'
  BY <1>1 DEF CacheIsTrue, Covered, OnTop, DisplayInv
<1> QED BY <1>3, <1>5, <1>4 DEF DisplayInv

\* Only an app on top is launched, so neither the settings nor a running app are
\* uncovered by a launch.
LEMMA OpenKeepsInv ==
  ASSUME DisplayInv, OpenApp
  PROVE  DisplayInv'
<1>1. /\ pass = "app" /\ pass' = "close" /\ Launches
      /\ UNCHANGED <<server, power, lastPower, idle, panel, ejected, sessionDrawn, cache, oled>>
  BY DEF OpenApp, powerVars, drawVars
<1>2. \/ runner' = "app" /\ open' = TRUE /\ UNCHANGED screens /\ OnTop = "app"
      \/ runner' = "none" /\ open' = FALSE /\ OnTop = "app" /\ runner # "app"
      \/ /\ open' = FALSE /\ OnTop # "app" /\ UNCHANGED screens
         /\ runner' = runner \/ (runner # "app" /\ runner' # "app")
  BY <1>1 DEF Launches
<1>3. DisplayRecord' /\ PowerKnown' /\ PanelFollowsPower'
  BY <1>1 DEF DisplayRecord, PowerKnown, PanelFollowsPower, DisplayInv
<1>4. AppIsOpen'
  BY <1>1, <1>2 DEF AppIsOpen, OnTop
<1>5. CacheIsTrue'
  BY <1>1, <1>2 DEF CacheIsTrue, Covered, OnTop, DisplayInv
<1> QED BY <1>3, <1>4, <1>5 DEF DisplayInv

\* An app that goes takes its picture with it: the cache is cleared.
LEMMA CloseKeepsInv ==
  ASSUME DisplayInv, CloseApp
  PROVE  DisplayInv'
<1>1. /\ pass = "close" /\ pass' = "discover"
      /\ UNCHANGED <<server, power, lastPower, idle, panel, ejected, sessionDrawn, oled>>
      /\ \/ runner' = "none" /\ open' = FALSE /\ cache' = NoFrame
         \/ UNCHANGED <<runner, open, screens, cache>>
  BY DEF CloseApp, ClosedFrame, Invalidate, powerVars
<1>2. DisplayRecord' /\ PowerKnown' /\ PanelFollowsPower'
  BY <1>1 DEF DisplayRecord, PowerKnown, PanelFollowsPower, DisplayInv
<1>3. AppIsOpen' /\ CacheIsTrue'
  BY <1>1 DEF AppIsOpen, CacheIsTrue, Covered, OnTop, DisplayInv
<1> QED BY <1>2, <1>3 DEF DisplayInv

\* A new catalogue at most clears the cache.
LEMMA DiscoveryKeepsInv ==
  ASSUME DisplayInv, ApplyDiscovery
  PROVE  DisplayInv'
<1>1. /\ pass = "discover" /\ pass' = "render" /\ cache' \in {cache, NoFrame}
      /\ UNCHANGED <<screens, server, power, lastPower, idle, panel, ejected, runner, open,
                     sessionDrawn, oled>>
  BY DEF ApplyDiscovery, Invalidate, shellVars, powerVars, appVars
<1>2. DisplayRecord' /\ PowerKnown' /\ PanelFollowsPower'
  BY <1>1 DEF DisplayRecord, PowerKnown, PanelFollowsPower, DisplayInv
<1>3. AppIsOpen' /\ CacheIsTrue'
  BY <1>1 DEF AppIsOpen, CacheIsTrue, Covered, OnTop, DisplayInv
<1> QED BY <1>2, <1>3 DEF DisplayInv

-----------------------------------------------------------------------------
\* The shell draws only when nothing that covers its frame stands, unless the
\* screen was woken to hold off sleep.
LEMMA ShellIsUncovered ==
  ASSUME DisplayInv, pass = "render", Direct(FALSE) = "nothing", cache # NoFrame,
         ~sessionDrawn, oled # cache
  PROVE  lastPower # power
<1>1. Covered
  BY DEF DisplayInv, CacheIsTrue
<1>2. OnTop # "settings" /\ ~ejected
  BY DEF Direct
<1>3. CASE oled.who = "app" /\ runner = "app" /\ OnTop = "app"
  <2>1. open
    BY <1>3 DEF DisplayInv, AppIsOpen
  <2> QED BY <1>2, <1>3, <2>1 DEF Direct
<1>4. CASE lastPower # "ACTIVE" /\ ~server.shown
  <2>1. ~open
    BY <1>2, <1>4 DEF Direct, DisplayInv, AppIsOpen
  <2>2. power # "DIM" /\ power # "OFF"
    BY <1>2, <1>4, <2>1 DEF Direct, DisplayInv, PowerKnown
  <2> QED BY <1>4, <2>2 DEF DisplayInv, DisplayRecord
<1> QED BY <1>1, <1>2, <1>3, <1>4 DEF Covered

\* What a pass draws.
LEMMA RenderDraws ==
  ASSUME DisplayInv, Render, lastPower = power
  PROVE  oled' = LET direct == Direct(sessionDrawn')
                 IN IF direct = "nothing" THEN Lines ELSE Picture(direct, 0, FALSE)
<1>1. PICK serial \in BOOLEAN :
        sessionDrawn' = serial /\ (RenderDirectly(serial) \/ RenderShell(serial))
  BY DEF Render
<1>2. CASE RenderDirectly(serial)
  BY <1>1, <1>2 DEF RenderDirectly
<1>3. CASE RenderShell(serial)
  <2>1. Direct(serial) = "nothing" /\ serial = FALSE
    BY <1>3 DEF RenderShell, Direct
  <2>2. oled' = Lines \/ (oled' = oled /\ NoticeSession(FALSE) = Lines)
    BY <1>3, <2>1 DEF RenderShell
  <2>3. NoFrame # Lines
    BY DEF NoFrame, Lines, Picture
  <2>4. CASE oled' = oled /\ NoticeSession(FALSE) = Lines
    <3>1. cache = Lines /\ ~sessionDrawn
      BY <2>3, <2>4 DEF NoticeSession
    <3>2. pass = "render"
      BY DEF Render
    <3>3. Direct(FALSE) = "nothing"
      BY <2>1
    <3>4. oled = cache
      BY <2>3, <3>1, <3>2, <3>3, ShellIsUncovered
    <3> QED BY <1>1, <2>1, <2>4, <3>1, <3>4
  <2> QED BY <1>1, <2>1, <2>2, <2>4
<1> QED BY <1>1, <1>2, <1>3

\* What a pass draws is the frame of the cache or has a reason.
LEMMA RenderKeepsInv ==
  ASSUME DisplayInv, Render
  PROVE  DisplayInv'
<1>1. /\ pass = "render" /\ pass' = "keys" /\ open' = FALSE
      /\ UNCHANGED <<screens, server, power, lastPower, idle, panel, ejected, runner>>
  BY DEF Render, powerVars
<1>2. PICK serial \in BOOLEAN :
        sessionDrawn' = serial /\ (RenderDirectly(serial) \/ RenderShell(serial))
  BY DEF Render
<1>3. DisplayRecord' /\ PowerKnown' /\ AppIsOpen' /\ PanelFollowsPower'
  BY <1>1 DEF DisplayRecord, PowerKnown, AppIsOpen, PanelFollowsPower, DisplayInv
<1>4. CacheIsTrue'
  <2>1. CASE RenderDirectly(serial)
    <3>1. oled'.who = Direct(serial) /\ Direct(serial) # "nothing"
      BY <2>1 DEF RenderDirectly, Picture
    <3>2. CASE Direct(serial) = "session"
      BY <1>2, <3>1, <3>2 DEF Direct, CacheIsTrue, Covered
    <3>3. CASE Direct(serial) = "settings"
      BY <1>1, <3>1, <3>3 DEF Direct, CacheIsTrue, Covered, OnTop
    <3>4. CASE Direct(serial) = "ejected"
      BY <1>1, <3>1, <3>4 DEF Direct, CacheIsTrue, Covered
    <3>5. CASE Direct(serial) = "app"
      <4>1. open
        BY <3>5 DEF Direct
      <4>2. runner = "app" /\ OnTop = "app"
        BY <4>1 DEF DisplayInv, AppIsOpen
      <4> QED BY <1>1, <3>1, <3>5, <4>2 DEF CacheIsTrue, Covered, OnTop
    <3>6. CASE Direct(serial) = "clock"
      <4>1. power = "DIM" /\ ~server.shown
        BY <3>6 DEF Direct
      <4>2. ~server.runs /\ lastPower # "ACTIVE"
        BY <4>1 DEF DisplayInv, PowerKnown, DisplayRecord
      <4> QED BY <1>1, <3>1, <3>6, <4>1, <4>2 DEF CacheIsTrue, Covered
    <3> QED BY <3>1, <3>2, <3>3, <3>4, <3>5, <3>6 DEF Direct
  <2>2. CASE RenderShell(serial)
    <3>1. cache' = Lines /\ Direct(serial) = "nothing" /\ serial = FALSE
      BY <2>2 DEF RenderShell, Direct
    <3>2. oled' = Lines \/ (oled' = oled /\ NoticeSession(FALSE) = Lines)
      BY <2>2, <3>1 DEF RenderShell
    <3>3. CASE oled' = Lines
      BY <3>1, <3>3 DEF CacheIsTrue
    <3>4. CASE oled' = oled /\ NoticeSession(FALSE) = Lines
      <4>1. NoFrame # Lines
        BY DEF NoFrame, Lines, Picture
      <4>2. cache = Lines /\ ~sessionDrawn
        BY <3>4, <4>1 DEF NoticeSession
      <4>3. CASE oled = cache
        BY <3>1, <3>4, <4>2, <4>3 DEF CacheIsTrue
      <4>4. CASE Covered
        BY <1>1, <3>4, <4>2, <4>4 DEF CacheIsTrue, Covered, OnTop
      <4> QED BY <4>1, <4>2, <4>3, <4>4 DEF DisplayInv, CacheIsTrue
    <3> QED BY <3>2, <3>3, <3>4
  <2> QED BY <1>2, <2>1, <2>2
<1> QED BY <1>3, <1>4 DEF DisplayInv

-----------------------------------------------------------------------------
\* Before the first pass the cache holds no frame.
LEMMA DisplayInitHasInv == DisplayInit => DisplayInv
<1> SUFFICES ASSUME DisplayInit PROVE DisplayInv
  OBVIOUS
<1>1. DisplayRecord /\ PowerKnown /\ AppIsOpen /\ CacheIsTrue /\ PanelFollowsPower
  BY DEF DisplayInit, DisplayRecord, PowerKnown, AppIsOpen, CacheIsTrue, PanelFollowsPower
<1> QED BY <1>1 DEF DisplayInv

\* One case for each action of the pass.
LEMMA DisplayStepKeepsInv == DisplayInv /\ [DisplayNext]_dispVars => DisplayInv'
<1> SUFFICES ASSUME DisplayInv, [DisplayNext]_dispVars PROVE DisplayInv'
  OBVIOUS
<1>1. ASSUME NEW k \in Buttons, HandleAction(k) PROVE DisplayInv'
  BY <1>1, KeyKeepsInv
<1>2. CASE TickPower
  BY <1>2, TickKeepsPower, TickKeepsCache DEF DisplayInv
<1>3. CASE UNCHANGED dispVars
  BY <1>3 DEF dispVars, shellVars, powerVars, drawVars, appVars, DisplayInv, DisplayRecord,
              PowerKnown, AppIsOpen, CacheIsTrue, Covered, PanelFollowsPower, OnTop
<1> QED BY <1>1, <1>2, <1>3, PasswordKeepsInv, PollKeepsInv, EjectionKeepsInv, OpenKeepsInv,
           CloseKeepsInv, DiscoveryKeepsInv, RenderKeepsInv DEF DisplayNext

\* A screen awake is bright and one that dimmed is dim, whatever keys come when
\* (run_main_loop compares with the power state of the pass before).
THEOREM PanelKeepsStep == DisplaySpec => []PanelFollowsPower
<1>1. DisplayInv => PanelFollowsPower
  BY DEF DisplayInv
<1> QED BY DisplayInitHasInv, DisplayStepKeepsInv, <1>1, PTL DEF DisplaySpec

\* A pass of run_main_loop leaves on the OLED what the state asks for, although
\* jpp_ui_display_render_lines skips a frame that equals the one before.
THEOREM NothingGoneIsShown == DisplaySpec => OledIsCurrent
<1>1. DisplayInv /\ [DisplayNext]_dispVars =>
        [(pass = "render" /\ pass' = "keys" /\ lastPower = power) =>
           LET direct == Direct(sessionDrawn')
           IN oled' = IF direct = "nothing" THEN Lines ELSE Picture(direct, 0, FALSE)]_dispVars
  <2> SUFFICES ASSUME DisplayInv, DisplayNext, pass = "render", lastPower = power
               PROVE  LET direct == Direct(sessionDrawn')
                      IN oled' = IF direct = "nothing" THEN Lines ELSE Picture(direct, 0, FALSE)
    OBVIOUS
  <2>1. Render
    BY DEF DisplayNext, HandleAction, AskPassword, PollServer, TickPower, HandleEjection,
           OpenApp, CloseApp, ApplyDiscovery
  <2> QED BY <2>1, RenderDraws
<1> QED BY DisplayInitHasInv, DisplayStepKeepsInv, <1>1, PTL DEF DisplaySpec, OledIsCurrent
-----------------------------------------------------------------------------
\* The stack of screens, and that every step of a pass keeps its type.
Screens == {"launcher", "settings", "webdav", "passconfig", "crash", "app", "sd_ejected"}
Passes == {"keys", "poll", "power", "eject", "app", "close", "discover", "render", "sleeps", "restarts"}
StackOK(s) == s \in Seq(Screens) /\ Len(s) \in 1..Depth

LEMMA PushedIs == ASSUME NEW s, StackOK(s), NEW screen \in Screens PROVE StackOK(Pushed(s, screen))
<1>1. CASE Len(s) < Depth
  <2>1. Append(s, screen) \in Seq(Screens) /\ Len(Append(s, screen)) = Len(s) + 1
    BY DEF StackOK
  <2> QED BY <1>1, <2>1, DisplayAssumption DEF Pushed, StackOK
<1>2. CASE ~(Len(s) < Depth)
  BY <1>2 DEF Pushed
<1> QED BY <1>1, <1>2

LEMMA PoppedIs == ASSUME NEW s, StackOK(s) PROVE StackOK(Popped(s))
<1>1. s \in Seq(Screens) /\ Len(s) \in 1..Depth /\ Depth \in Nat
  BY DisplayAssumption DEF StackOK
<1>2. CASE Len(s) = 1
  BY <1>2 DEF Popped
<1>3. ASSUME NEW n \in 1..Depth, n = Len(s), n # 1
      PROVE  StackOK(SubSeq(s, 1, n - 1))
  <2>1. n \in Nat /\ n - 1 \in 1..Depth /\ n - 1 <= n
    BY <1>1, <1>3
  <2>2. \A i \in 1..(n - 1) : s[i] \in Screens
    BY <1>1, <1>3, <2>1
  <2>3. SubSeq(s, 1, n - 1) \in Seq(Screens) /\ Len(SubSeq(s, 1, n - 1)) = n - 1
    BY <1>1, <1>3, <2>1, <2>2
  <2> QED BY <2>1, <2>3 DEF StackOK
<1>4. CASE Len(s) # 1
  <2>1. Popped(s) = SubSeq(s, 1, Len(s) - 1)
    BY <1>4 DEF Popped
  <2> QED BY <1>1, <1>3, <1>4, <2>1
<1> QED BY <1>2, <1>4

LEMMA CrashedIs == StackOK(Crashed)
<1>1. Crashed \in Seq(Screens) /\ Len(Crashed) = 2
  BY DEF Crashed, Screens
<1> QED BY <1>1, DisplayAssumption DEF StackOK

LEMMA KeyKeepsStack ==
  ASSUME StackOK(screens), flash \in 0..FlashTicks, NEW k \in Buttons,
         ToShell(k) \/ UNCHANGED <<shellVars, cache>>
  PROVE  StackOK(screens') /\ flash' \in 0..FlashTicks
<1>1. "settings" \in Screens /\ "webdav" \in Screens /\ "app" \in Screens /\ "passconfig" \in Screens
      /\ FlashTicks \in 0..FlashTicks
  BY DisplayAssumption DEF Screens
<1>2. CASE OnSettings
  BY <1>2, PoppedIs DEF OnSettings
<1>3. CASE OnLauncher(k)
  <2>1. screens' = screens \/ \E entry \in Listed : screens' = Pushed(screens, entry)
    BY <1>3 DEF OnLauncher
  <2>2. flash' \in {flash, FlashTicks}
    BY <1>3 DEF OnLauncher
  <2> QED BY <1>1, <2>1, <2>2, PushedIs DEF Listed
<1>4. CASE OnCrash(k)
  BY <1>4, PoppedIs DEF OnCrash
<1>5. CASE OnWebdav(k)
  BY <1>1, <1>5, PoppedIs, PushedIs DEF OnWebdav
<1>6. CASE OnPassconfig(k)
  BY <1>6, PoppedIs DEF OnPassconfig
<1>7. CASE UNCHANGED <<shellVars, cache>>
  BY <1>7 DEF shellVars
<1> QED BY <1>2, <1>3, <1>4, <1>5, <1>6, <1>7 DEF ToShell

LEMMA DisplayStepKeepsType ==
  ASSUME DisplayInv, DisplayTypeOK, [DisplayNext]_dispVars
  PROVE  DisplayTypeOK'
<1>1. StackOK(screens) /\ flash \in 0..FlashTicks /\ runner \in {"none", "headless", "app"}
      /\ pass \in Passes
  BY DEF DisplayTypeOK, StackOK, Screens, Passes
<1>2. idle \in 0..IdleMax /\ 0 \in 0..IdleMax /\ IdleMax \in Nat /\ FlashTicks \in Nat
  BY DisplayAssumption DEF DisplayTypeOK, IdleMax
<1>3. DisplayRecord'
  BY DisplayStepKeepsInv DEF DisplayInv
<1>4. StackOK(screens') /\ flash' \in 0..FlashTicks /\ runner' \in {"none", "headless", "app"}
      /\ pass' \in Passes /\ idle' \in 0..IdleMax
  <2>1. ASSUME NEW k \in Buttons, HandleAction(k)
        PROVE  StackOK(screens') /\ flash' \in 0..FlashTicks /\ runner' \in {"none", "headless", "app"}
               /\ pass' \in Passes /\ idle' \in 0..IdleMax
    <3>1. StackOK(screens') /\ flash' \in 0..FlashTicks
      <4>1. ToShell(k) \/ UNCHANGED <<shellVars, cache>>
        BY <2>1 DEF HandleAction
      <4> QED BY <1>1, <4>1, KeyKeepsStack
    <3> QED BY <3>1, <1>1, <1>2, <2>1 DEF HandleAction, NoteActivity, appVars, Passes
  <2>2. CASE AskPassword
    BY <1>1, <1>2, <2>2 DEF AskPassword, NoteActivity, appVars, Passes
  <2>3. CASE PollServer
    BY <1>1, <1>2, <2>3 DEF PollServer, powerVars, appVars, Passes
  <2>4. CASE TickPower
    <3>1. pass' \in {"eject", "sleeps"} /\ idle' \in 0..IdleMax
      <4>1. PICK t \in {idle, idle + 1} : t <= IdleMax /\ idle' \in {0, t} /\ pass' \in {"eject", "sleeps"}
        BY <2>4 DEF TickPower, NoteActivity
      <4> QED BY <4>1, <1>2
    <3> QED BY <3>1, <1>1, <2>4 DEF TickPower, shellVars, appVars, Passes
  <2>5. CASE HandleEjection
    <3>1. StackOK(<<"launcher", "sd_ejected">>)
      <4>1. <<"launcher", "sd_ejected">> \in Seq(Screens) /\ Len(<<"launcher", "sd_ejected">>) = 2
        BY DEF Screens
      <4> QED BY <4>1, DisplayAssumption DEF StackOK
    <3> QED BY <3>1, <1>1, <1>2, <2>5 DEF HandleEjection, Passes
  <2>6. CASE OpenApp
    <3>1. StackOK(screens') /\ runner' \in {"none", "headless", "app"}
      BY <1>1, <2>6, PoppedIs, CrashedIs DEF OpenApp, Launches
    <3> QED BY <3>1, <1>1, <1>2, <2>6 DEF OpenApp, powerVars, Passes
  <2>7. CASE CloseApp
    <3>1. StackOK(screens') /\ runner' \in {"none", "headless", "app"}
      BY <1>1, <2>7, PoppedIs, CrashedIs DEF CloseApp
    <3> QED BY <3>1, <1>1, <1>2, <2>7 DEF CloseApp, powerVars, Passes
  <2>8. CASE ApplyDiscovery
    BY <1>1, <1>2, <2>8 DEF ApplyDiscovery, shellVars, powerVars, appVars, Passes
  <2>9. CASE Render
    <3>1. flash' \in {flash, flash - 1} /\ (flash' = flash - 1 => flash > 0 \/ flash' = flash)
      BY <2>9 DEF Render, RenderDirectly, RenderShell
    <3>2. flash' \in 0..FlashTicks
      BY <3>1, <1>1, <1>2
    <3> QED BY <3>2, <1>1, <1>2, <2>9 DEF Render, powerVars, Passes
  <2>10. CASE UNCHANGED dispVars
    BY <1>1, <1>2, <2>10 DEF dispVars, shellVars, powerVars, appVars
  <2> QED BY <2>1, <2>2, <2>3, <2>4, <2>5, <2>6, <2>7, <2>8, <2>9, <2>10 DEF DisplayNext
<1> QED BY <1>3, <1>4 DEF DisplayTypeOK, DisplayRecord, StackOK, Screens, Passes

LEMMA DisplayInitTypeOK == DisplayInit => DisplayTypeOK
<1> SUFFICES ASSUME DisplayInit PROVE DisplayTypeOK
  OBVIOUS
<1>1. screens \in Seq(Screens) /\ Len(screens) = 1
  BY DEF DisplayInit, Screens
<1>2. Depth >= 1 /\ Depth \in Nat /\ FlashTicks \in Nat /\ IdleMax \in Nat
  BY DisplayAssumption DEF IdleMax
<1> QED BY <1>1, <1>2 DEF DisplayInit, DisplayTypeOK, Screens

LEMMA DisplayIsTyped == DisplaySpec => []DisplayTypeOK
<1>1. DisplayInv /\ DisplayTypeOK /\ [DisplayNext]_dispVars => (DisplayInv /\ DisplayTypeOK)'
  BY DisplayStepKeepsInv, DisplayStepKeepsType
<1> QED BY <1>1, DisplayInitHasInv, DisplayInitTypeOK, PTL DEF DisplaySpec

-----------------------------------------------------------------------------
(***************************************************************************)
(* The buzzer.  Whoever copies has the mutex, so the inbox is either being *)
(* filled by one caller, note by note, or holds the latest request whole;  *)
(* and a note sounds only while the one that plays it waits for its end,   *)
(* or was deleted in its middle.                                           *)
(***************************************************************************)
Places == {"idle", "wait", "lock", "copy", "commit", "notify", "note", "tone", "silence"}
Asking == [op : {"none", "submit", "stop", "block", "tone"}, req : Requests, n : 0..NoteMax]

Filling(t) == at[t] \in {"copy", "commit"} /\ asked[t].op = "submit"

CallerInv(t) ==
  /\ at[t] \in {"lock", "copy", "commit"} => asked[t].op \in {"submit", "stop", "block"}
  /\ at[t] \in {"copy", "commit"} => holder = t
  /\ at[t] = "copy" => asked[t].op = "submit"
  /\ at[t] \in {"lock", "copy"} => asked[t].n \in 1..NoteMax
  /\ at[t] = "lock" => asked[t].n = 1
  /\ at[t] = "copy" => \A i \in 1..(asked[t].n - 1) : inbox[i] = [req |-> gen + 1, n |-> i]
  /\ at[t] = "commit" /\ asked[t].op = "submit" => inbox = Notes(gen + 1)

PlayerInv ==
  /\ play \in [gen : Requests, notes : Seq(Note), n : 1..(NoteMax + 1)]
  /\ at[Player] = "copy" => holder = Player
  /\ (filled > 0 /\ \A t \in Callers : ~Filling(t)) => inbox = Notes(gen)
  /\ at[Player] = "tone" => play.n <= Len(play.notes)

SomebodyPlays == tone = Silent \/ abandoned \/ \E t \in Players : at[t] = "tone"

\* Every request that is being made has a number left.
NumbersLast == gen + Cardinality(Coming) <= RequestMax

BuzzInv ==
  /\ BuzzTypeOK /\ NumbersLast
  /\ \A t \in Callers : CallerInv(t)
  /\ PlayerInv /\ OneRequest /\ SomebodyPlays

LEMMA NotesAreNotes ==
  ASSUME NEW g \in Requests
  PROVE  Notes(g) \in Seq(Note) /\ Len(Notes(g)) = NoteMax /\ Notes(g) \in [1..NoteMax -> Note]
<1>1. NoteMax \in Nat
  BY BuzzerAssumption
<1>2. \A i \in 1..NoteMax : [req |-> g, n |-> i] \in Note
  BY <1>1 DEF Note
<1> QED BY <1>1, <1>2 DEF Notes

LEMMA SilentIsNote == Silent \in Note
BY BuzzerAssumption DEF Silent, Note, Requests

\* What a copy of the inbox is.
LEMMA CopyIs ==
  ASSUME NEW g \in Requests
  PROVE  SubSeq(Notes(g), 1, NoteMax) = Notes(g)
<1>1. NoteMax \in Nat \ {0} /\ Notes(g) \in Seq(Note) /\ Len(Notes(g)) = NoteMax
  BY BuzzerAssumption, NotesAreNotes
<1> HIDE DEF Notes
<1>2. SubSeq(Notes(g), 1, NoteMax) \in Seq(Note) /\ Len(SubSeq(Notes(g), 1, NoteMax)) = NoteMax
  BY <1>1
<1>3. \A i \in 1..NoteMax : SubSeq(Notes(g), 1, NoteMax)[i] = Notes(g)[i]
  BY <1>1
<1> QED BY <1>1, <1>2, <1>3

LEMMA CopyOfNothing == ASSUME NEW s PROVE SubSeq(s, 1, 0) = <<>>
OBVIOUS

-----------------------------------------------------------------------------
\* The callers with a number to come.
LEMMA ComingIsFinite == IsFiniteSet(Coming) /\ Cardinality(Coming) \in Nat
<1>1. IsFiniteSet({"main"} \cup {"smp_rx"})
  BY FS_Singleton, FS_AddElement
<1>2. IsFiniteSet(({"main"} \cup {"smp_rx"}) \cup {"sd_app"})
  BY <1>1, FS_AddElement
<1>3. Callers = ({"main"} \cup {"smp_rx"}) \cup {"sd_app"}
  BY DEF Callers
<1>4. IsFiniteSet(Callers)
  BY <1>2, <1>3
<1>5. Coming \subseteq Callers
  BY DEF Coming
<1>6. IsFiniteSet(Coming)
  BY <1>4, <1>5, FS_Subset
<1> QED BY <1>6, FS_CardinalityType

LEMMA OneMoreComing ==
  ASSUME NEW t \in Callers, t \notin Coming, Coming' = Coming \cup {t}
  PROVE  Cardinality(Coming') = Cardinality(Coming) + 1
BY ComingIsFinite, FS_AddElement

LEMMA OneLessComing ==
  ASSUME NEW t \in Callers, t \in Coming, Coming' = Coming \ {t}
  PROVE  Cardinality(Coming') = Cardinality(Coming) - 1
BY ComingIsFinite, FS_RemoveElement

LEMMA NumberIsLeft ==
  ASSUME BuzzInv, NEW t \in Callers, at[t] \in {"lock", "copy", "commit"}
  PROVE  gen + 1 \in Requests
<1>1. gen \in Nat /\ RequestMax \in Nat /\ gen + Cardinality(Coming) <= RequestMax
  BY BuzzerAssumption DEF BuzzInv, BuzzTypeOK, NumbersLast, Requests
<1>2. t \in Coming
  BY DEF Coming
<1>3. Cardinality(Coming \ {t}) = Cardinality(Coming) - 1 /\ Cardinality(Coming \ {t}) \in Nat
  <2>1. IsFiniteSet(Coming \ {t})
    BY ComingIsFinite, FS_Subset
  <2> QED BY <1>2, <2>1, ComingIsFinite, FS_RemoveElement, FS_CardinalityType
<1>4. Cardinality(Coming) \in Nat /\ Cardinality(Coming) >= 1
  BY <1>3, ComingIsFinite
<1> QED BY <1>1, <1>4 DEF Requests

\* A task goes to another place; the others stay.
LEMMA GotoIs ==
  ASSUME BuzzInv, NEW t \in Players, NEW place \in Places, Goto(t, place)
  PROVE  /\ at' \in [Players -> Places] /\ at'[t] = place
         /\ \A u \in Players : u # t => at'[u] = at[u]
BY DEF BuzzInv, BuzzTypeOK, Goto, Places

LEMMA SameComing ==
  ASSUME \A t \in Callers : at'[t] \in {"lock", "copy", "commit"} <=> at[t] \in {"lock", "copy", "commit"}
  PROVE  Coming' = Coming
BY DEF Coming

\* A caller keeps its part while the mutex, the inbox and the number are kept for it.
LEMMA CallerStays ==
  ASSUME NEW u \in Callers, CallerInv(u), at'[u] = at[u], asked'[u] = asked[u],
         at[u] \in {"copy", "commit"} => holder' = holder /\ inbox' = inbox /\ gen' = gen
  PROVE  CallerInv(u)'
BY DEF CallerInv, Notes

\* A caller outside its call of the mutex has no part to keep.
LEMMA CallerIsOut ==
  ASSUME NEW u \in Callers, at'[u] \notin {"lock", "copy", "commit"}
  PROVE  CallerInv(u)'
BY DEF CallerInv

\* The player's part, where it does not step itself.
LEMMA PlayerStays ==
  ASSUME BuzzInv, UNCHANGED play, at'[Player] = at[Player],
         at[Player] = "copy" => holder' = holder,
         UNCHANGED <<gen, inbox, filled>>,
         \A t \in Callers : ~Filling(t)' => ~Filling(t)
  PROVE  PlayerInv'
BY DEF BuzzInv, PlayerInv, Notes

-----------------------------------------------------------------------------
(* The callers.                                                            *)

LEMMA AskKeeps ==
  ASSUME BuzzInv, NEW t \in Callers, NEW op \in {"submit", "stop", "block"}, Ask(t, op)
  PROVE  BuzzInv'
<1> USE DEF Ask, player, output
<1>1. t \in Players /\ t # Player /\ "lock" \in Places
  BY DEF Players, Callers, Player, Places
<1>2. /\ at' \in [Players -> Places] /\ at'[t] = "lock" /\ \A u \in Players : u # t => at'[u] = at[u]
  BY <1>1, GotoIs
<1>3. asked' \in [Callers -> Asking] /\ asked'[t] = [op |-> op, req |-> 0, n |-> 1]
      /\ \A u \in Callers : u # t => asked'[u] = asked[u]
  BY BuzzerAssumption DEF BuzzInv, BuzzTypeOK, Asking, Requests
<1>4. BuzzTypeOK'
  BY <1>2, <1>3 DEF BuzzInv, BuzzTypeOK, Asking, Places
<1>5. NumbersLast'
  <2>1. t \notin Coming /\ Coming' = Coming \cup {t}
    BY <1>1, <1>2 DEF Coming, Players
  <2>2. Cardinality(Coming') = Cardinality(Coming) + 1
    BY <2>1, OneMoreComing
  <2>3. gen \in Nat /\ RequestMax \in Nat /\ Cardinality(Coming) \in Nat
    BY ComingIsFinite, BuzzerAssumption DEF BuzzInv, BuzzTypeOK, Requests
  <2> QED BY <2>2, <2>3 DEF NumbersLast
<1>6. \A u \in Callers : CallerInv(u)'
  <2> SUFFICES ASSUME NEW u \in Callers PROVE CallerInv(u)'
    OBVIOUS
  <2>1. CASE u = t
    BY <2>1, <1>2, <1>3, BuzzerAssumption DEF CallerInv
  <2>2. CASE u # t
    BY <2>2, <1>2, <1>3, CallerStays DEF BuzzInv, Players
  <2> QED BY <2>1, <2>2
<1>7. PlayerInv'
  <2>1. \A u \in Callers : ~Filling(u)' => ~Filling(u)
    BY <1>1, <1>2, <1>3 DEF Filling, Players
  <2> QED BY <2>1, <1>1, <1>2, PlayerStays DEF Players
<1>8. OneRequest' /\ SomebodyPlays'
  BY <1>1, <1>2 DEF BuzzInv, OneRequest, SomebodyPlays, Notes
<1> QED BY <1>4, <1>5, <1>6, <1>7, <1>8 DEF BuzzInv

LEMMA LockKeeps ==
  ASSUME BuzzInv, NEW t \in Callers, Lock(t)
  PROVE  BuzzInv'
<1> USE DEF Lock, TakeMutex, LockFree, player, output
<1> DEFINE place == IF asked[t].op = "submit" THEN "copy" ELSE "commit"
<1>1. t \in Players /\ t # Player /\ t # "nobody" /\ Player # "nobody" /\ place \in Places
      /\ place \in {"copy", "commit"}
  BY DEF Players, Callers, Player, Places
<1>2. /\ at' \in [Players -> Places] /\ at'[t] = place /\ \A u \in Players : u # t => at'[u] = at[u]
  BY <1>1, GotoIs
<1>3. BuzzTypeOK'
  BY <1>1, <1>2 DEF BuzzInv, BuzzTypeOK, Places
<1>4. NumbersLast'
  <2>1. Coming' = Coming
    BY <1>1, <1>2, SameComing DEF Players
  <2> QED BY <2>1 DEF BuzzInv, NumbersLast
<1>5. \A u \in Callers : at[u] \notin {"copy", "commit"}
  BY DEF BuzzInv, CallerInv, Callers
<1>6. \A u \in Callers : CallerInv(u)'
  <2> SUFFICES ASSUME NEW u \in Callers PROVE CallerInv(u)'
    OBVIOUS
  <2>1. CASE u = t
    <3>1. asked[t].op \in {"submit", "stop", "block"} /\ asked[t].n = 1
      BY DEF BuzzInv, CallerInv
    <3> QED BY <2>1, <3>1, <1>2, BuzzerAssumption DEF CallerInv
  <2>2. CASE u # t
    BY <2>2, <1>2, <1>5, CallerStays DEF BuzzInv, Players
  <2> QED BY <2>1, <2>2
<1>7. PlayerInv'
  <2>1. \A u \in Callers : ~Filling(u)' => ~Filling(u)
    BY <1>1, <1>2, <1>5 DEF Filling, Players
  <2>2. at[Player] # "copy"
    BY <1>1 DEF BuzzInv, PlayerInv
  <2> QED BY <2>1, <2>2, <1>1, <1>2, PlayerStays DEF Players
<1>8. OneRequest' /\ SomebodyPlays'
  BY <1>1, <1>2 DEF BuzzInv, OneRequest, SomebodyPlays, Notes
<1> QED BY <1>3, <1>4, <1>6, <1>7, <1>8 DEF BuzzInv

LEMMA CopyInKeeps ==
  ASSUME BuzzInv, NEW t \in Callers, CopyIn(t)
  PROVE  BuzzInv'
<1> USE DEF CopyIn, player, output
<1>1. t \in Players /\ t # Player /\ "commit" \in Places /\ Callers \subseteq Players
  BY DEF Players, Callers, Player, Places
<1>2. PICK n \in 1..NoteMax : asked[t].n = n
  BY DEF BuzzInv, CallerInv
<1>3. NoteMax \in Nat \ {0} /\ gen + 1 \in Requests /\ asked[t].op = "submit" /\ holder = t
      /\ asked[t] \in Asking /\ inbox \in [1..NoteMax -> Note] /\ at[t] = "copy"
  BY NumberIsLeft, BuzzerAssumption DEF BuzzInv, CallerInv, BuzzTypeOK, Asking
<1>4. at' \in [Players -> Places] /\ at'[t] = (IF n = NoteMax THEN "commit" ELSE "copy")
      /\ \A u \in Players : u # t => at'[u] = at[u]
  <2>1. CASE n = NoteMax
    BY <2>1, <1>1, <1>2, GotoIs
  <2>2. CASE n # NoteMax
    BY <2>2, <1>1, <1>2, <1>3 DEF BuzzInv, BuzzTypeOK, Places
  <2> QED BY <2>1, <2>2
<1>5. asked' \in [Callers -> Asking] /\ asked'[t].op = "submit"
      /\ asked'[t].n = (IF n = NoteMax THEN 1 ELSE n + 1)
      /\ \A u \in Callers : u # t => asked'[u] = asked[u]
  BY <1>2, <1>3 DEF BuzzInv, BuzzTypeOK, Asking
<1>6. inbox' \in [1..NoteMax -> Note] /\ inbox'[n] = [req |-> gen + 1, n |-> n]
      /\ \A i \in 1..NoteMax : i # n => inbox'[i] = inbox[i]
  BY <1>2, <1>3 DEF Note
<1>7. BuzzTypeOK'
  BY <1>4, <1>5, <1>6 DEF BuzzInv, BuzzTypeOK, Asking, Places
<1>8. NumbersLast'
  <2>1. Coming' = Coming
    BY <1>1, <1>3, <1>4, SameComing
  <2> QED BY <2>1 DEF BuzzInv, NumbersLast
<1>9. \A u \in Callers : u # t => at[u] \notin {"copy", "commit"}
  BY <1>3 DEF BuzzInv, CallerInv
<1>10. \A i \in 1..n : inbox'[i] = [req |-> gen + 1, n |-> i]
  <2>1. \A i \in 1..(n - 1) : inbox[i] = [req |-> gen + 1, n |-> i]
    BY <1>2, <1>3 DEF BuzzInv, CallerInv
  <2> QED BY <2>1, <1>2, <1>3, <1>6
<1>11. \A u \in Callers : CallerInv(u)'
  <2> SUFFICES ASSUME NEW u \in Callers PROVE CallerInv(u)'
    OBVIOUS
  <2>1. CASE u = t /\ n = NoteMax
    <3>1. inbox' = Notes(gen + 1)
      BY <2>1, <1>6, <1>10 DEF Notes
    <3>2. at'[t] = "commit" /\ Notes(gen + 1)' = Notes(gen + 1) /\ gen' = gen /\ holder' = holder
      BY <2>1, <1>4 DEF Notes
    <3> QED BY <2>1, <3>1, <3>2, <1>3, <1>5 DEF CallerInv
  <2>2. CASE u = t /\ n # NoteMax
    <3>1. at'[t] = "copy" /\ asked'[t].n = n + 1 /\ n + 1 \in 1..NoteMax /\ n + 1 - 1 = n
      BY <2>2, <1>2, <1>3, <1>4, <1>5
    <3>2. gen' = gen /\ holder' = holder
      OBVIOUS
    <3> QED BY <2>2, <3>1, <3>2, <1>3, <1>5, <1>10 DEF CallerInv
  <2>3. CASE u # t
    BY <2>3, <1>1, <1>4, <1>5, <1>9, CallerStays DEF BuzzInv
  <2> QED BY <2>1, <2>2, <2>3
<1>12. PlayerInv'
  <2>1. Filling(t)'
    BY <1>4, <1>5 DEF Filling
  <2>2. at'[Player] = at[Player] /\ Player \in Players
    BY <1>1, <1>4 DEF Players
  <2> QED BY <2>1, <2>2 DEF BuzzInv, PlayerInv
<1>13. OneRequest' /\ SomebodyPlays'
  BY <1>1, <1>3, <1>4 DEF BuzzInv, OneRequest, SomebodyPlays, Notes
<1> QED BY <1>7, <1>8, <1>11, <1>12, <1>13 DEF BuzzInv

LEMMA CommitKeeps ==
  ASSUME BuzzInv, NEW t \in Callers, Commit(t)
  PROVE  BuzzInv'
<1> USE DEF Commit, player, output
<1> DEFINE place == CASE asked[t].op = "submit" -> "notify"
                      [] asked[t].op = "stop" -> "silence"
                      [] asked[t].op = "block" -> "note"
<1>1. t \in Players /\ t # Player /\ Callers \subseteq Players /\ Player \in Players
      /\ Player \notin Callers
  BY DEF Players, Callers, Player
<1>2. NoteMax \in Nat \ {0} /\ gen \in Nat /\ gen + 1 \in Requests /\ holder = t
      /\ asked[t].op \in {"submit", "stop", "block"} /\ at[t] = "commit"
  BY NumberIsLeft, BuzzerAssumption DEF BuzzInv, CallerInv, BuzzTypeOK, Requests
<1>3. place \in {"notify", "silence", "note"}
  BY <1>2
<1>4. at' \in [Players -> Places] /\ at'[t] = place /\ \A u \in Players : u # t => at'[u] = at[u]
  <2>1. place \in Places
    BY <1>3 DEF Places
  <2> QED BY <1>1, <2>1, GotoIs
<1> HIDE DEF place
<1>5. asked' \in [Callers -> Asking] /\ \A u \in Callers : u # t => asked'[u] = asked[u]
  BY <1>2 DEF BuzzInv, BuzzTypeOK, Asking
<1>6. BuzzTypeOK'
  BY <1>2, <1>4, <1>5 DEF BuzzInv, BuzzTypeOK, Asking, Places
<1>7. NumbersLast'
  <2>1. t \in Coming /\ Coming' = Coming \ {t}
    BY <1>1, <1>2, <1>3, <1>4 DEF Coming
  <2>2. Cardinality(Coming') = Cardinality(Coming) - 1
    BY <2>1, OneLessComing
  <2>3. Cardinality(Coming) \in Nat /\ RequestMax \in Nat
    BY ComingIsFinite, BuzzerAssumption
  <2> QED BY <2>2, <2>3, <1>2 DEF BuzzInv, NumbersLast
<1>8. \A u \in Callers : u # t => at[u] \notin {"copy", "commit"}
  BY <1>2 DEF BuzzInv, CallerInv
<1>9. \A u \in Callers : CallerInv(u)'
  <2> SUFFICES ASSUME NEW u \in Callers PROVE CallerInv(u)'
    OBVIOUS
  <2>1. CASE u = t
    BY <2>1, <1>3, <1>4, CallerIsOut
  <2>2. CASE u # t
    BY <2>2, <1>1, <1>4, <1>5, <1>8, CallerStays DEF BuzzInv
  <2> QED BY <2>1, <2>2
<1>10. PlayerInv'
  <2>1. at[Player] # "copy"
    BY <1>1, <1>2 DEF BuzzInv, PlayerInv
  <2>2. filled' > 0 => inbox' = Notes(gen')
    <3>1. CASE asked[t].op = "submit"
      BY <3>1, <1>2 DEF BuzzInv, CallerInv
    <3>2. CASE asked[t].op # "submit"
      BY <3>2
    <3> QED BY <3>1, <3>2
  <2>3. at'[Player] = at[Player] /\ play' = play
    BY <1>1, <1>4
  <2> QED BY <2>1, <2>2, <2>3 DEF BuzzInv, PlayerInv, Notes
<1>11. OneRequest' /\ SomebodyPlays'
  BY <1>1, <1>2, <1>4 DEF BuzzInv, OneRequest, SomebodyPlays, Notes
<1> QED BY <1>6, <1>7, <1>9, <1>10, <1>11 DEF BuzzInv

\* A caller that has nothing to do with the inbox.
LEMMA CallerOutside ==
  ASSUME BuzzInv, NEW t \in Callers, at[t] \notin {"lock", "copy", "commit"},
         NEW place \in Places \ {"lock", "copy", "commit"}, Goto(t, place),
         asked' \in [Callers -> Asking], \A u \in Callers : u # t => asked'[u] = asked[u],
         UNCHANGED <<gen, inbox, filled, holder, lastGen, play>>,
         notified' \in BOOLEAN, tone' \in Note, abandoned' \in BOOLEAN, SomebodyPlays'
  PROVE  BuzzInv'
<1>1. t \in Players /\ t # Player /\ Callers \subseteq Players /\ Player \in Players
  BY DEF Players, Callers, Player
<1>2. at' \in [Players -> Places] /\ at'[t] = place /\ \A u \in Players : u # t => at'[u] = at[u]
  BY <1>1, GotoIs
<1>3. BuzzTypeOK'
  BY <1>2 DEF BuzzInv, BuzzTypeOK, Asking, Places
<1>4. NumbersLast'
  <2>1. Coming' = Coming
    BY <1>1, <1>2, SameComing
  <2> QED BY <2>1 DEF BuzzInv, NumbersLast
<1>5. \A u \in Callers : CallerInv(u)'
  <2> SUFFICES ASSUME NEW u \in Callers PROVE CallerInv(u)'
    OBVIOUS
  <2>1. CASE u = t
    BY <2>1, <1>2, CallerIsOut
  <2>2. CASE u # t
    BY <2>2, <1>1, <1>2, CallerStays DEF BuzzInv
  <2> QED BY <2>1, <2>2
<1>6. PlayerInv'
  <2>1. \A u \in Callers : ~Filling(u)' => ~Filling(u)
    BY <1>1, <1>2 DEF Filling
  <2> QED BY <2>1, <1>1, <1>2, PlayerStays
<1>7. OneRequest'
  BY DEF BuzzInv, OneRequest, Notes
<1> QED BY <1>3, <1>4, <1>5, <1>6, <1>7 DEF BuzzInv

\* What a task drives the channel with, and that a task sounds a note or none does.
LEMMA DrivesSilent == ASSUME Drive(Silent) PROVE tone' \in Note /\ abandoned' \in BOOLEAN /\ SomebodyPlays'
<1>1. tone' = Silent /\ abandoned' = FALSE
  BY DEF Drive
<1>2. tone' \in Note
  BY <1>1, SilentIsNote
<1>3. SomebodyPlays'
  BY <1>1 DEF SomebodyPlays, Silent
<1> QED BY <1>1, <1>2, <1>3

LEMMA Sounds ==
  ASSUME NEW note \in Note, Sound(note), NEW t \in Players, at'[t] = "tone"
  PROVE  tone' \in Note /\ abandoned' \in BOOLEAN /\ SomebodyPlays'
<1>1. tone' \in {note, Silent} /\ abandoned' = FALSE
  BY DEF Sound, Drive
<1>2. tone' \in Note
  BY <1>1, SilentIsNote
<1>3. SomebodyPlays'
  BY DEF SomebodyPlays
<1> QED BY <1>1, <1>2, <1>3

LEMMA NotAskingIsAsking == NotAsking \in Asking
BY BuzzerAssumption DEF NotAsking, Asking, Requests

LEMMA DoneIs ==
  ASSUME BuzzInv, NEW t \in Callers, Done(t)
  PROVE  asked' \in [Callers -> Asking] /\ \A u \in Callers : u # t => asked'[u] = asked[u]
<1>1. asked \in [Callers -> Asking]
  BY DEF BuzzInv, BuzzTypeOK, Asking
<1> QED BY <1>1, NotAskingIsAsking DEF Done

LEMMA GoneFrom ==
  ASSUME BuzzInv, NEW t \in Callers, at[t] # "tone", UNCHANGED output,
         \A u \in Players : u # t => at'[u] = at[u]
  PROVE  tone' \in Note /\ abandoned' \in BOOLEAN /\ SomebodyPlays'
BY DEF BuzzInv, BuzzTypeOK, SomebodyPlays, output

LEMMA NotifyKeeps ==
  ASSUME BuzzInv, NEW t \in Callers, Notify(t)
  PROVE  BuzzInv'
<1>1. t \in Players /\ "idle" \in Places \ {"lock", "copy", "commit"}
  BY DEF Players, Places
<1>2. UNCHANGED output /\ at[t] = "notify" /\ Goto(t, "idle") /\ Done(t)
      /\ UNCHANGED <<gen, inbox, filled, holder, lastGen, play>> /\ notified' = TRUE
  BY DEF Notify
<1>3. \A u \in Players : u # t => at'[u] = at[u]
  BY <1>1, <1>2, GotoIs
<1>4. tone' \in Note /\ abandoned' \in BOOLEAN /\ SomebodyPlays'
  BY <1>2, <1>3, GoneFrom
<1>5. asked' \in [Callers -> Asking] /\ \A u \in Callers : u # t => asked'[u] = asked[u]
  BY <1>2, DoneIs
<1> QED BY <1>1, <1>2, <1>4, <1>5, CallerOutside

LEMMA StopSilencesKeeps ==
  ASSUME BuzzInv, NEW t \in Callers, StopSilences(t)
  PROVE  BuzzInv'
<1>1. "idle" \in Places \ {"lock", "copy", "commit"}
  BY DEF Places
<1>2. at[t] = "silence" /\ Drive(Silent) /\ Goto(t, "idle") /\ Done(t)
      /\ UNCHANGED <<gen, inbox, filled, holder, lastGen, play>> /\ notified' = notified
  BY DEF StopSilences, player
<1>3. notified' \in BOOLEAN
  BY <1>2 DEF BuzzInv, BuzzTypeOK
<1>4. tone' \in Note /\ abandoned' \in BOOLEAN /\ SomebodyPlays'
  BY <1>2, DrivesSilent
<1>5. asked' \in [Callers -> Asking] /\ \A u \in Callers : u # t => asked'[u] = asked[u]
  BY <1>2, DoneIs
<1> QED BY <1>1, <1>2, <1>3, <1>4, <1>5, CallerOutside

LEMMA StartNoteKeeps ==
  ASSUME BuzzInv, NEW t \in Callers, StartNote(t)
  PROVE  BuzzInv'
<1> DEFINE note == [req |-> asked[t].req, n |-> asked[t].n]
<1>1. t \in Players /\ "tone" \in Places \ {"lock", "copy", "commit"}
  BY DEF Players, Places
<1>2. at[t] = "note" /\ Sound(note) /\ Goto(t, "tone")
      /\ UNCHANGED <<gen, inbox, filled, holder, lastGen, play>>
      /\ notified' = notified /\ asked' = asked
  BY DEF StartNote, player
<1>3. notified' \in BOOLEAN /\ asked \in [Callers -> Asking]
  BY <1>2 DEF BuzzInv, BuzzTypeOK, Asking
<1>4. note \in Note
  BY <1>3 DEF Note, Asking
<1>5. at'[t] = "tone"
  BY <1>1, <1>2, GotoIs
<1>6. tone' \in Note /\ abandoned' \in BOOLEAN /\ SomebodyPlays'
  <2> HIDE DEF note
  <2> QED BY <1>1, <1>2, <1>4, <1>5, Sounds
<1> QED BY <1>1, <1>2, <1>3, <1>6, CallerOutside

LEMMA PlayToneKeeps ==
  ASSUME BuzzInv, PlayTone
  PROVE  BuzzInv'
<1> DEFINE note == [req |-> 0, n |-> NoteMax]
           toneCall == [op |-> "tone", req |-> 0, n |-> NoteMax]
<1>1. "sd_app" \in Callers /\ "sd_app" \in Players /\ "tone" \in Places \ {"lock", "copy", "commit"}
  BY DEF Callers, Players, Places
<1>2. at["sd_app"] = "idle" /\ Sound(note) /\ Goto("sd_app", "tone")
      /\ UNCHANGED <<gen, inbox, filled, holder, lastGen, play>>
      /\ notified' = notified /\ asked' = [asked EXCEPT !["sd_app"] = toneCall]
  BY DEF PlayTone, player
<1>3. notified' \in BOOLEAN /\ asked \in [Callers -> Asking]
  BY <1>2 DEF BuzzInv, BuzzTypeOK, Asking
<1>4. note \in Note /\ toneCall \in Asking
  BY BuzzerAssumption DEF Note, Asking, Requests
<1> HIDE DEF note, toneCall
<1>5. asked' \in [Callers -> Asking] /\ \A u \in Callers : u # "sd_app" => asked'[u] = asked[u]
  BY <1>2, <1>3, <1>4
<1>6. at'["sd_app"] = "tone"
  BY <1>1, <1>2, GotoIs
<1>7. tone' \in Note /\ abandoned' \in BOOLEAN /\ SomebodyPlays'
  BY <1>1, <1>2, <1>4, <1>6, Sounds
<1>8. at["sd_app"] \notin {"lock", "copy", "commit"}
  BY <1>2
<1> QED BY <1>1, <1>2, <1>3, <1>5, <1>7, <1>8, CallerOutside

LEMMA EndNoteKeeps ==
  ASSUME BuzzInv, NEW t \in Callers, EndNote(t)
  PROVE  BuzzInv'
<1>1. "idle" \in Places \ {"lock", "copy", "commit"} /\ "note" \in Places \ {"lock", "copy", "commit"}
  BY DEF Places
<1>2. at[t] = "tone" /\ Drive(Silent)
      /\ UNCHANGED <<gen, inbox, filled, holder, lastGen, play>> /\ notified' = notified
  BY DEF EndNote, player
<1>3. notified' \in BOOLEAN
  BY <1>2 DEF BuzzInv, BuzzTypeOK
<1>4. tone' \in Note /\ abandoned' \in BOOLEAN /\ SomebodyPlays'
  BY <1>2, DrivesSilent
<1>5. CASE asked[t].n = NoteMax
  <2>1. Goto(t, "idle") /\ Done(t)
    BY <1>5 DEF EndNote
  <2>2. asked' \in [Callers -> Asking] /\ \A u \in Callers : u # t => asked'[u] = asked[u]
    BY <2>1, DoneIs
  <2> QED BY <1>1, <1>2, <1>3, <1>4, <2>1, <2>2, CallerOutside
<1>6. CASE asked[t].n # NoteMax
  <2>1. Goto(t, "note") /\ asked' = [asked EXCEPT ![t].n = @ + 1]
    BY <1>6 DEF EndNote
  <2>2. asked \in [Callers -> Asking] /\ NoteMax \in Nat
    BY BuzzerAssumption DEF BuzzInv, BuzzTypeOK, Asking
  <2>3. asked[t].n + 1 \in 0..NoteMax
    BY <1>6, <2>2 DEF Asking
  <2>4. asked' \in [Callers -> Asking] /\ \A u \in Callers : u # t => asked'[u] = asked[u]
    BY <2>1, <2>2, <2>3 DEF Asking
  <2> QED BY <1>1, <1>2, <1>3, <1>4, <2>1, <2>4, CallerOutside
<1> QED BY <1>5, <1>6

LEMMA DeleteAppKeeps ==
  ASSUME BuzzInv, DeleteApp
  PROVE  BuzzInv'
<1>1. "sd_app" \in Callers /\ "idle" \in Places \ {"lock", "copy", "commit"}
  BY DEF Callers, Places
<1>2. at["sd_app"] = "tone" /\ Goto("sd_app", "idle") /\ Done("sd_app")
      /\ UNCHANGED <<gen, inbox, filled, holder, lastGen, play>> /\ notified' = notified
      /\ abandoned' = (tone # Silent) /\ tone' = tone
  BY DEF DeleteApp, player
<1>3. notified' \in BOOLEAN /\ tone' \in Note
  BY <1>2 DEF BuzzInv, BuzzTypeOK
<1>4. abandoned' \in BOOLEAN
  BY <1>2
<1>5. SomebodyPlays'
  BY <1>2 DEF SomebodyPlays, Silent
<1>6. asked' \in [Callers -> Asking] /\ \A u \in Callers : u # "sd_app" => asked'[u] = asked[u]
  BY <1>1, <1>2, DoneIs
<1>7. at["sd_app"] \notin {"lock", "copy", "commit"}
  BY <1>2
<1> QED BY <1>1, <1>2, <1>3, <1>4, <1>5, <1>6, <1>7, CallerOutside

-----------------------------------------------------------------------------
(* The player.                                                             *)

\* A step of the player that leaves the inbox and the numbers alone.
LEMMA PlayerSteps ==
  ASSUME BuzzInv, NEW place \in Places, Goto(Player, place),
         UNCHANGED <<gen, inbox, filled, asked>>,
         holder' \in Players \cup {"nobody"}, lastGen' \in Requests, notified' \in BOOLEAN,
         holder' = holder \/ holder \notin Callers,
         play' \in [gen : Requests, notes : Seq(Note), n : 1..(NoteMax + 1)],
         place = "copy" => holder' = Player,
         place = "tone" => play'.n <= Len(play'.notes),
         OneRequest', tone' \in Note, abandoned' \in BOOLEAN, SomebodyPlays'
  PROVE  BuzzInv'
<1>1. Callers \subseteq Players /\ Player \in Players /\ Player \notin Callers
  BY DEF Players, Callers, Player
<1>2. at' \in [Players -> Places] /\ at'[Player] = place
      /\ \A u \in Players : u # Player => at'[u] = at[u]
  BY <1>1, GotoIs
<1>3. BuzzTypeOK'
  BY <1>2 DEF BuzzInv, BuzzTypeOK, Asking, Places
<1>4. NumbersLast'
  <2>1. Coming' = Coming
    BY <1>1, <1>2, SameComing
  <2> QED BY <2>1 DEF BuzzInv, NumbersLast
<1>5. \A u \in Callers : CallerInv(u)'
  <2> SUFFICES ASSUME NEW u \in Callers PROVE CallerInv(u)'
    OBVIOUS
  <2>1. CallerInv(u) /\ at'[u] = at[u] /\ asked'[u] = asked[u]
    BY <1>1, <1>2 DEF BuzzInv
  <2>2. at[u] \in {"copy", "commit"} => holder' = holder
    BY <2>1 DEF CallerInv
  <2> QED BY <2>1, <2>2, CallerStays
<1>6. PlayerInv'
  <2>1. \A u \in Callers : Filling(u)' <=> Filling(u)
    BY <1>1, <1>2 DEF Filling
  <2>2. (filled' > 0 /\ \A u \in Callers : ~Filling(u)') => inbox' = Notes(gen)'
    BY <2>1 DEF BuzzInv, PlayerInv, Notes
  <2> QED BY <2>2, <1>2 DEF PlayerInv
<1> QED BY <1>3, <1>4, <1>5, <1>6 DEF BuzzInv

\* What the player's part says of its state.
LEMMA PlayIs ==
  ASSUME BuzzInv
  PROVE  /\ play \in [gen : Requests, notes : Seq(Note), n : 1..(NoteMax + 1)]
         /\ play.notes \in {<<>>, Notes(play.gen)} /\ Len(play.notes) <= NoteMax
         /\ NoteMax \in Nat \ {0}
<1>1. play \in [gen : Requests, notes : Seq(Note), n : 1..(NoteMax + 1)]
  BY DEF BuzzInv, PlayerInv
<1>2. play.notes \in {<<>>, Notes(play.gen)} /\ NoteMax \in Nat \ {0}
  BY BuzzerAssumption DEF BuzzInv, OneRequest
<1>3. Len(play.notes) <= NoteMax
  BY <1>1, <1>2, NotesAreNotes
<1> QED BY <1>1, <1>2, <1>3

LEMMA GoneFromPlayer ==
  ASSUME BuzzInv, at[Player] # "tone", UNCHANGED output, NEW place \in Places, Goto(Player, place)
  PROVE  tone' \in Note /\ abandoned' \in BOOLEAN /\ SomebodyPlays'
<1>1. \A u \in Players : u # Player => at'[u] = at[u]
  BY GotoIs DEF Players
<1> QED BY <1>1 DEF BuzzInv, BuzzTypeOK, SomebodyPlays, output

LEMMA SamePlay == ASSUME BuzzInv, UNCHANGED play PROVE OneRequest'
BY DEF BuzzInv, OneRequest, Notes

LEMMA WakeUpKeeps == ASSUME BuzzInv, WakeUp PROVE BuzzInv'
<1>1. "lock" \in Places
  BY DEF Places
<1>2. at[Player] = "wait" /\ Goto(Player, "lock") /\ notified' = FALSE
      /\ UNCHANGED <<gen, inbox, filled, asked>> /\ UNCHANGED <<holder, lastGen, play>>
      /\ UNCHANGED output
  BY DEF WakeUp
<1>3. tone' \in Note /\ abandoned' \in BOOLEAN /\ SomebodyPlays'
  BY <1>1, <1>2, GoneFromPlayer
<1>4. holder' \in Players \cup {"nobody"} /\ lastGen' \in Requests
      /\ play' \in [gen : Requests, notes : Seq(Note), n : 1..(NoteMax + 1)]
  BY <1>2, PlayIs DEF BuzzInv, BuzzTypeOK
<1>5. OneRequest'
  BY <1>2, SamePlay
<1> QED BY <1>1, <1>2, <1>3, <1>4, <1>5, PlayerSteps

LEMMA LockInboxKeeps == ASSUME BuzzInv, LockInbox PROVE BuzzInv'
<1>1. "copy" \in Places /\ "nobody" \notin Callers /\ Player \in Players
  BY DEF Places, Callers, Players
<1>2. at[Player] = "lock" /\ Goto(Player, "copy") /\ holder' = Player /\ holder = "nobody"
      /\ UNCHANGED <<gen, inbox, filled, asked>> /\ UNCHANGED <<notified, lastGen, play>>
      /\ UNCHANGED output
  BY DEF LockInbox, TakeMutex, LockFree, player
<1>3. tone' \in Note /\ abandoned' \in BOOLEAN /\ SomebodyPlays'
  BY <1>1, <1>2, GoneFromPlayer
<1>4. notified' \in BOOLEAN /\ lastGen' \in Requests
      /\ play' \in [gen : Requests, notes : Seq(Note), n : 1..(NoteMax + 1)]
  BY <1>2, PlayIs DEF BuzzInv, BuzzTypeOK
<1>5. OneRequest'
  BY <1>2, SamePlay
<1> QED BY <1>1, <1>2, <1>3, <1>4, <1>5, PlayerSteps

LEMMA CopyOutKeeps == ASSUME BuzzInv, CopyOut PROVE BuzzInv'
<1> DEFINE place == IF gen = lastGen THEN "wait" ELSE "note"
           copied == SubSeq(inbox, 1, filled)
           from == IF gen = lastGen THEN play.n ELSE 1
<1>1. place \in Places /\ place \notin {"copy", "tone"}
      /\ Player \notin Callers /\ "nobody" \notin Callers
  BY DEF Places, Callers, Player
<1>2. at[Player] = "copy" /\ Goto(Player, place) /\ holder' = "nobody" /\ lastGen' = gen
      /\ UNCHANGED <<gen, inbox, filled, asked>> /\ UNCHANGED notified
      /\ play' = [gen |-> gen, notes |-> copied, n |-> from]
      /\ UNCHANGED output
  BY DEF CopyOut
<1>3. holder = Player /\ gen \in Requests /\ filled \in {0, NoteMax}
  BY <1>2 DEF BuzzInv, BuzzTypeOK, PlayerInv
<1>4. copied \in {<<>>, Notes(gen)}
  <2>1. \A u \in Callers : ~Filling(u)
    BY <1>1, <1>3 DEF BuzzInv, CallerInv, Filling
  <2>2. filled > 0 => inbox = Notes(gen)
    BY <2>1 DEF BuzzInv, PlayerInv
  <2>3. CASE filled = 0
    BY <2>3, CopyOfNothing
  <2>4. CASE filled = NoteMax /\ filled # 0
    <3>1. filled > 0
      BY <2>4, BuzzerAssumption
    <3>2. inbox = Notes(gen)
      BY <3>1, <2>2
    <3> QED BY <3>2, <2>4, <1>3, CopyIs
  <2> QED BY <2>3, <2>4, <1>3
<1>5. copied \in Seq(Note)
  <2>1. <<>> \in Seq(Note)
    OBVIOUS
  <2>2. Notes(gen) \in Seq(Note)
    BY <1>3, NotesAreNotes
  <2> HIDE DEF copied
  <2> QED BY <1>4, <2>1, <2>2
<1>6. from \in 1..(NoteMax + 1)
  BY PlayIs
<1> HIDE DEF place, copied, from
<1>7. play' \in [gen : Requests, notes : Seq(Note), n : 1..(NoteMax + 1)]
      /\ play'.gen = gen /\ play'.notes = copied
  BY <1>2, <1>3, <1>5, <1>6
<1>8. OneRequest'
  BY <1>7, <1>4 DEF OneRequest, Notes
<1>9. tone' \in Note /\ abandoned' \in BOOLEAN /\ SomebodyPlays'
  BY <1>1, <1>2, GoneFromPlayer
<1>10. notified' \in BOOLEAN
  BY <1>2 DEF BuzzInv, BuzzTypeOK
<1> QED BY <1>1, <1>2, <1>3, <1>7, <1>8, <1>9, <1>10, PlayerSteps

LEMMA PlayNoteKeeps == ASSUME BuzzInv, PlayNote PROVE BuzzInv'
<1>1. "silence" \in Places /\ "tone" \in Places /\ Player \in Players
  BY DEF Places, Players
<1>2. at[Player] = "note" /\ UNCHANGED <<gen, inbox, filled, asked>>
      /\ UNCHANGED <<holder, notified, lastGen, play>>
  BY DEF PlayNote, player
<1>3. holder' \in Players \cup {"nobody"} /\ lastGen' \in Requests
      /\ play' \in [gen : Requests, notes : Seq(Note), n : 1..(NoteMax + 1)]
  BY <1>2, PlayIs DEF BuzzInv, BuzzTypeOK
<1>4. notified' \in BOOLEAN
  BY <1>2 DEF BuzzInv, BuzzTypeOK
<1>5. OneRequest'
  BY <1>2, SamePlay
<1>6. CASE play.n > Len(play.notes) \/ Superseded
  <2>1. Goto(Player, "silence") /\ UNCHANGED output
    BY <1>6 DEF PlayNote
  <2>2. tone' \in Note /\ abandoned' \in BOOLEAN /\ SomebodyPlays'
    BY <1>1, <1>2, <2>1, GoneFromPlayer
  <2> QED BY <1>1, <1>2, <1>3, <1>4, <1>5, <2>1, <2>2, PlayerSteps
<1>7. CASE ~(play.n > Len(play.notes) \/ Superseded)
  <2>1. Goto(Player, "tone") /\ Sound(play.notes[play.n])
    BY <1>7 DEF PlayNote
  <2>2. play.n <= Len(play.notes) /\ play.notes[play.n] \in Note
    BY <1>7, PlayIs
  <2>3. at'[Player] = "tone"
    BY <1>1, <2>1, GotoIs
  <2>4. tone' \in Note /\ abandoned' \in BOOLEAN /\ SomebodyPlays'
    BY <1>1, <2>1, <2>2, <2>3, Sounds
  <2>5. play'.n <= Len(play'.notes)
    BY <1>2, <2>2
  <2> QED BY <1>1, <1>2, <1>3, <1>4, <1>5, <2>1, <2>4, <2>5, PlayerSteps
<1> QED BY <1>6, <1>7

LEMMA EndPlayedNoteKeeps == ASSUME BuzzInv, EndPlayedNote PROVE BuzzInv'
<1>1. "note" \in Places
  BY DEF Places
<1>2. at[Player] = "tone" /\ Drive(Silent) /\ play' = [play EXCEPT !.n = @ + 1]
      /\ Goto(Player, "note") /\ UNCHANGED <<gen, inbox, filled, asked>>
      /\ UNCHANGED <<holder, notified, lastGen>>
  BY DEF EndPlayedNote
<1>3. play.n <= Len(play.notes)
  BY <1>2 DEF BuzzInv, PlayerInv
<1>4. play.n + 1 \in 1..(NoteMax + 1)
  <2>1. Len(play.notes) \in Nat /\ Len(play.notes) <= NoteMax /\ NoteMax \in Nat
        /\ play.n \in 1..(NoteMax + 1)
    BY PlayIs
  <2> QED BY <1>3, <2>1
<1>5. play' \in [gen : Requests, notes : Seq(Note), n : 1..(NoteMax + 1)]
      /\ play'.gen = play.gen /\ play'.notes = play.notes
  BY <1>2, <1>4, PlayIs
<1>6. OneRequest'
  BY <1>5 DEF BuzzInv, OneRequest, Notes
<1>7. tone' \in Note /\ abandoned' \in BOOLEAN /\ SomebodyPlays'
  BY <1>2, DrivesSilent
<1>8. holder' \in Players \cup {"nobody"} /\ lastGen' \in Requests
  BY <1>2 DEF BuzzInv, BuzzTypeOK
<1>9. notified' \in BOOLEAN
  BY <1>2 DEF BuzzInv, BuzzTypeOK
<1> QED BY <1>1, <1>2, <1>5, <1>6, <1>7, <1>8, <1>9, PlayerSteps

LEMMA PlayerSilencesKeeps == ASSUME BuzzInv, PlayerSilences PROVE BuzzInv'
<1>1. "wait" \in Places
  BY DEF Places
<1>2. at[Player] = "silence" /\ Drive(Silent) /\ Goto(Player, "wait") /\ notified' = notified
      /\ UNCHANGED <<gen, inbox, filled, asked>> /\ UNCHANGED <<holder, lastGen, play>>
  BY DEF PlayerSilences, NotificationsLeft
<1>3. tone' \in Note /\ abandoned' \in BOOLEAN /\ SomebodyPlays'
  BY <1>2, DrivesSilent
<1>4. holder' \in Players \cup {"nobody"} /\ lastGen' \in Requests
      /\ play' \in [gen : Requests, notes : Seq(Note), n : 1..(NoteMax + 1)]
  BY <1>2, PlayIs DEF BuzzInv, BuzzTypeOK
<1>5. notified' \in BOOLEAN
  BY <1>2 DEF BuzzInv, BuzzTypeOK
<1>6. OneRequest'
  BY <1>2, SamePlay
<1> QED BY <1>1, <1>2, <1>3, <1>4, <1>5, <1>6, PlayerSteps

-----------------------------------------------------------------------------
LEMMA BuzzInitHasInv == BuzzInit => BuzzInv
<1> SUFFICES ASSUME BuzzInit PROVE BuzzInv
  OBVIOUS
<1> USE DEF BuzzInit
<1>1. NoteMax \in Nat \ {0} /\ RequestMax \in Nat /\ 0 \in Requests /\ 1 \in 1..(NoteMax + 1)
  BY BuzzerAssumption DEF Requests
<1>2. /\ Callers \subseteq Players /\ Player \in Players /\ Player \notin Callers
      /\ at \in [Players -> Places] /\ at[Player] = "wait" /\ \A t \in Callers : at[t] = "idle"
  BY DEF Players, Callers, Player, Places
<1>3. inbox \in [1..NoteMax -> Note] /\ tone \in Note
  BY SilentIsNote
<1>4. asked \in [Callers -> Asking]
  BY NotAskingIsAsking
<1>5. play \in [gen : Requests, notes : Seq(Note), n : 1..(NoteMax + 1)]
      /\ play.gen = 0 /\ play.notes = <<>> /\ play.n = 1
  BY <1>1
<1>6. BuzzTypeOK
  BY <1>1, <1>2, <1>3, <1>4, <1>5 DEF BuzzTypeOK, Asking, Places
<1>7. NumbersLast
  <2>1. Coming = {}
    BY <1>2 DEF Coming
  <2>2. Cardinality(Coming) = 0
    BY <2>1, FS_EmptySet
  <2> QED BY <2>2, <1>1 DEF NumbersLast
<1>8. \A t \in Callers : CallerInv(t)
  BY <1>2 DEF CallerInv
<1>9. PlayerInv /\ OneRequest /\ SomebodyPlays
  BY <1>2, <1>5 DEF PlayerInv, OneRequest, SomebodyPlays
<1> QED BY <1>6, <1>7, <1>8, <1>9 DEF BuzzInv

LEMMA BuzzStepKeepsInv == BuzzInv /\ [BuzzNext]_buzzVars => BuzzInv'
<1> SUFFICES ASSUME BuzzInv, [BuzzNext]_buzzVars PROVE BuzzInv'
  OBVIOUS
<1>1. CASE UNCHANGED buzzVars
  <2>1. BuzzTypeOK' /\ NumbersLast'
    BY <1>1 DEF BuzzInv, BuzzTypeOK, NumbersLast, Coming, buzzVars
  <2>2. \A t \in Callers : CallerInv(t)'
    BY <1>1, CallerStays DEF BuzzInv, buzzVars
  <2>3. PlayerInv'
    BY <1>1, PlayerStays DEF Filling, buzzVars
  <2>4. OneRequest' /\ SomebodyPlays'
    BY <1>1, SamePlay DEF BuzzInv, SomebodyPlays, buzzVars
  <2> QED BY <2>1, <2>2, <2>3, <2>4 DEF BuzzInv
<1>2. CASE PlayerNext
  BY <1>2, WakeUpKeeps, LockInboxKeeps, CopyOutKeeps, PlayNoteKeeps, EndPlayedNoteKeeps,
     PlayerSilencesKeeps DEF PlayerNext
<1>3. ASSUME NEW t \in Callers, CallerNext(t) PROVE BuzzInv'
  BY <1>3, LockKeeps, CopyInKeeps, CommitKeeps, NotifyKeeps, StopSilencesKeeps,
     StartNoteKeeps, EndNoteKeeps DEF CallerNext
<1>4. ASSUME NEW t \in Callers, NEW op \in CallsOf(t), Ask(t, op) PROVE BuzzInv'
  <2>1. op \in {"submit", "stop", "block"}
    BY DEF CallsOf
  <2> QED BY <1>4, <2>1, AskKeeps
<1>5. CASE PlayTone
  BY <1>5, PlayToneKeeps
<1>6. CASE DeleteApp
  BY <1>6, DeleteAppKeeps
<1> QED BY <1>1, <1>2, <1>3, <1>4, <1>5, <1>6 DEF BuzzNext

(***************************************************************************)
(* The player plays one request, whole and the latest when it was copied,  *)
(* and no note is left sounding when nobody plays, but for the one an app  *)
(* was deleted in: whatever the callers submit, stop and play themselves   *)
(* (jpp_buzzer_core.c: the copies under s_seq_mutex, the generation, and   *)
(* the silence after every note), with sequences of any length.            *)
(***************************************************************************)
THEOREM BuzzerPlaysOneRequest == BuzzSpec => []PlaysOneThenSilent
<1>1. BuzzInv => PlaysOneThenSilent
  BY DEF BuzzInv, PlaysOneThenSilent, AllAtRest, SomebodyPlays, Players
<1> QED BY <1>1, BuzzInitHasInv, BuzzStepKeepsInv, PTL DEF BuzzSpec

-----------------------------------------------------------------------------
(***************************************************************************)
(* The tasks together.  A step is one of the layer a behaviour is about    *)
(* and leaves the state of the other four alone, so a behaviour of the     *)
(* composition is one of each of its parts.                                *)
(***************************************************************************)
LEMMA StepOfEachPart ==
  ASSUME [TasksNext]_everything
  PROVE  [Next]_vars /\ [BuzzNext]_buzzVars /\ [KeyNext]_keyVars /\ [NowNext]_nowVars
         /\ [DisplayNext]_dispVars
<1>1. CASE InRing(Next)
  BY <1>1 DEF InRing
<1>2. CASE InBuzzer(BuzzNext)
  BY <1>2 DEF InBuzzer
<1>3. CASE InKeypad(KeyNext)
  BY <1>3 DEF InKeypad
<1>4. CASE InRadio(NowNext)
  BY <1>4 DEF InRadio
<1>5. CASE InDisplay(DisplayNext)
  BY <1>5 DEF InDisplay
<1>6. CASE UNCHANGED everything
  BY <1>6 DEF everything
<1> QED BY <1>1, <1>2, <1>3, <1>4, <1>5, <1>6 DEF TasksNext

LEMMA BehaviourOfEachPart ==
  TasksSpec => /\ Spec /\ KeySpec /\ NowSpec /\ DisplaySpec
               /\ BuzzInit /\ [][BuzzNext]_buzzVars
<1>1. TasksInit => Init /\ BuzzInit /\ KeyInit /\ NowInit /\ DisplayInit
  BY DEF TasksInit
<1>2. [TasksNext]_everything =>
         [Next]_vars /\ [BuzzNext]_buzzVars /\ [KeyNext]_keyVars /\ [NowNext]_nowVars
         /\ [DisplayNext]_dispVars
  BY StepOfEachPart
<1> QED BY <1>1, <1>2, PTL DEF TasksSpec, Spec, KeySpec, NowSpec, DisplaySpec

(***************************************************************************)
(* The ring, the buzzer, the keypad, the radio and the main loop's pass    *)
(* keep every variable in its type, as long as the keypad's time has not   *)
(* wrapped: none of them indexes past a ring, a sequence of notes or the   *)
(* stack of screens, and no counter leaves its bound.                      *)
(***************************************************************************)
THEOREM DevicesKeepTypes ==
  ASSUME PollMax <= Half
  PROVE  TasksSpec => []DevicesTypeOK
<1>1. NowSpec => []NowTypeOK
  <2>1. NowInv => NowTypeOK
    BY DEF NowInv
  <2> QED BY <2>1, InitNowInv, StepNowInv, PTL DEF NowSpec
<1>2. BuzzInit /\ [][BuzzNext]_buzzVars => []BuzzTypeOK
  <2>1. BuzzInv => BuzzTypeOK
    BY DEF BuzzInv
  <2> QED BY <2>1, BuzzInitHasInv, BuzzStepKeepsInv, PTL
<1>3. KeySpec => []KeyTypeOK
  BY KeypadIsTyped
<1> QED BY <1>1, <1>2, <1>3, TypeCorrect, DisplayIsTyped, BehaviourOfEachPart, PTL DEF DevicesTypeOK
=============================================================================
