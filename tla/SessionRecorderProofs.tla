----------------------- MODULE SessionRecorderProofs -----------------------
(***************************************************************************)
(* Proofs about the recorder for any number of goroutines, calls and       *)
(* latencies: its types, the numbering of the log, the extremes the         *)
(* compare-and-swap loops keep, and what Stop leaves uncounted.            *)
(***************************************************************************)
EXTENDS SessionRecorder, FiniteSetTheorems, TLAPS

Records == [id : Nat, type : Types]
Hands   == [id : Nat, type : Types, latency : Nat]

\* What a goroutine has in hand fits where it is.
InHand ==
  \A t \in Threads :
    /\ pc[t] \in {"frame", "tally"} => event[t].type \in Messages
    /\ pc[t] \in {"load", "store"} => event[t].type \in Counted

Shaped == TypeOK /\ InHand

-----------------------------------------------------------------------------
(* Types                                                                   *)

\* Init: every variable has its shape.
LEMMA InitShaped == Init => Shaped
<1> SUFFICES ASSUME Init PROVE Shaped
  OBVIOUS
<1>1. Connect \in Records
  BY DEF Connect, Types, Records
<1>2. LogOK
  BY <1>1 DEF Init, LogOK, Connect, Records
<1>3. FiguresOK
  BY DEF Init, FiguresOK, Figures, Counted, Messages
<1>4. ThreadsOK /\ InHand
  BY RecorderAssumption DEF Init, ThreadsOK, InHand, Pcs, NoEvent, Types
<1> QED BY <1>2, <1>3, <1>4 DEF Shaped, TypeOK

\* A call that begins takes an event without a number in hand.
LEMMA BeginShaped ==
  ASSUME Shaped, NEW t \in Threads, NEW to \in Pcs, NEW type \in Types, Begin(t, to, type),
         eventCounter' = eventCounter, to = "frame" => type \in Messages,
         to \notin {"tally", "load", "store"}
  PROVE  ThreadsOK' /\ InHand'
BY RecorderAssumption
   DEF Begin, Goto, Shaped, TypeOK, LogOK, ThreadsOK, InHand, NoEvent, Types

\* The calls.
LEMMA CallShaped == ASSUME Shaped, NEW t \in Threads, Call(t) PROVE Shaped'
<1>1. ASSUME UNCHANGED <<isActive, log, messageCounter, stats, extremes>>,
             otherCounters' \in [{"reconnect", "error"} -> Nat]
      PROVE  LogOK' /\ FiguresOK'
  BY <1>1 DEF Shaped, TypeOK, LogOK, FiguresOK, log, extremes
<1>2. CASE MessageCall(t)
  <2>1. PICK type \in Directions : Begin(t, "frame", type)
    BY <1>2 DEF MessageCall
  <2>2. type \in Types /\ type \in Messages /\ "frame" \in Pcs
    BY RecorderAssumption DEF Types, Counted, Messages, Pcs
  <2>3. ThreadsOK' /\ InHand'
    BY <1>2, <2>1, <2>2, BeginShaped DEF MessageCall, log
  <2>4. LogOK' /\ FiguresOK'
    BY <1>1, <1>2 DEF MessageCall, counters, Shaped, TypeOK, FiguresOK
  <2> QED BY <2>3, <2>4 DEF Shaped, TypeOK
<1>3. CASE TroubleCall(t)
  <2>1. PICK type \in {"reconnect", "error"} :
           /\ Begin(t, "check", type)
           /\ otherCounters' = [otherCounters EXCEPT ![type] = @ + 1]
           /\ UNCHANGED <<isActive, log, messageCounter, stats, extremes>>
    BY <1>3 DEF TroubleCall
  <2>2. type \in Types /\ "check" \in Pcs
    BY DEF Types, Counted, Pcs
  <2>3. ThreadsOK' /\ InHand'
    BY <2>1, <2>2, BeginShaped DEF log
  <2>4. LogOK' /\ FiguresOK'
    BY <1>1, <2>1 DEF Shaped, TypeOK, FiguresOK
  <2> QED BY <2>3, <2>4 DEF Shaped, TypeOK
<1>4. CASE EventCall(t) \/ StopCall(t)
  <2>1. PICK to \in {"check", "stop"}, type \in {"other", "close", "disconnect"} : Begin(t, to, type)
    BY <1>4 DEF EventCall, StopCall
  <2>2. type \in Types /\ to \in Pcs
    BY DEF Types, Pcs
  <2>3. UNCHANGED <<isActive, log, counters, stats, extremes>>
    BY <1>4 DEF EventCall, StopCall
  <2>4. ThreadsOK' /\ InHand'
    BY <2>1, <2>2, <2>3, BeginShaped DEF log
  <2>5. LogOK' /\ FiguresOK'
    BY <1>1, <2>3 DEF counters, Shaped, TypeOK, FiguresOK
  <2> QED BY <2>4, <2>5 DEF Shaped, TypeOK
<1>5. CASE LatencyCall(t)
  <2>1. PICK v \in Latencies : event' = [event EXCEPT ![t] = [NoEvent EXCEPT !.latency = v]]
                               /\ measured' = measured \cup {v}
    BY <1>5 DEF LatencyCall
  <2>2. ThreadsOK' /\ InHand'
    BY <1>5, <2>1, RecorderAssumption
       DEF LatencyCall, Goto, log, Shaped, TypeOK, LogOK, ThreadsOK, InHand, NoEvent, Types, Pcs
  <2>3. LogOK' /\ FiguresOK'
    BY <1>5, <2>1 DEF LatencyCall, log, counters, Shaped, TypeOK, LogOK, FiguresOK
  <2> QED BY <2>2, <2>3 DEF Shaped, TypeOK
<1> QED BY <1>2, <1>3, <1>4, <1>5 DEF Call

\* Where a goroutine goes after RecordEvent fits what it has in hand.
LEMMA AfterFits ==
  ASSUME NEW t \in Threads
  PROVE  /\ After(t) \in {"tally", "stop", "idle"}
         /\ After(t) = "tally" => event[t].type \in Messages
BY DEF After

\* Moving a goroutine and loading a register keep the shapes.
LEMMA MoveShaped ==
  ASSUME Shaped, NEW t \in Threads, NEW from, NEW to \in Pcs, Goto(t, from, to),
         UNCHANGED <<event, calls, eventCounter>>, reg' \in [Threads -> Nat],
         to \in {"frame", "tally"} => event[t].type \in Messages,
         to \in {"load", "store"} => event[t].type \in Counted
  PROVE  ThreadsOK' /\ InHand'
<1>1. pc' = [pc EXCEPT ![t] = to] /\ pc' \in [Threads -> Pcs]
  BY DEF Goto, Shaped, TypeOK, ThreadsOK
<1>2. ThreadsOK'
  BY <1>1 DEF Shaped, TypeOK, ThreadsOK
<1>3. InHand'
  BY <1>1 DEF Shaped, TypeOK, ThreadsOK, InHand
<1> QED BY <1>2, <1>3

\* The steps inside a call.
LEMMA ContinueShaped == ASSUME Shaped, NEW t \in Threads, Continue(t) PROVE Shaped'
<1> DEFINE Quiet == UNCHANGED <<log, messageCounter, otherCounters, stats, extremes, isActive>>
<1>1. Quiet => LogOK' /\ FiguresOK'
  BY DEF Shaped, TypeOK, LogOK, FiguresOK, log, extremes
<1>2. After(t) \in Pcs /\ reg \in [Threads -> Nat] /\ Pcs # {}
  BY AfterFits DEF Pcs, Shaped, TypeOK, ThreadsOK
<1>3. CASE AppendFrame(t)
  <2>1. ThreadsOK' /\ InHand'
    <3>1. Goto(t, "frame", "check") /\ UNCHANGED <<event, calls, eventCounter, reg>>
      BY <1>3 DEF AppendFrame
    <3> QED BY <1>2, <3>1, MoveShaped DEF Pcs
  <2>2. event[t].type \in Messages
    BY <1>3 DEF AppendFrame, Goto, Shaped, InHand
  <2>3. LogOK' /\ FiguresOK'
    BY <1>3, <2>2 DEF AppendFrame, counters, extremes, Shaped, TypeOK, LogOK, FiguresOK
  <2> QED BY <2>1, <2>3 DEF Shaped, TypeOK
<1>4. CASE Tally(t)
  <2>1. ThreadsOK' /\ InHand'
    <3>1. Goto(t, "tally", "idle") /\ UNCHANGED <<event, calls, eventCounter, reg>>
      BY <1>4 DEF Tally, log
    <3> QED BY <1>2, <3>1, MoveShaped DEF Pcs
  <2>2. LogOK' /\ FiguresOK'
    BY <1>4 DEF Tally, log, extremes, Shaped, TypeOK, LogOK, FiguresOK
  <2> QED BY <2>1, <2>2 DEF Shaped, TypeOK
<1>5. CASE Check(t) \/ LoadMin(t) \/ LoadMax(t)
  <2>1. PICK to \in Pcs \ {"frame", "load", "store"} :
           Goto(t, pc[t], to) /\ (to = "tally" => event[t].type \in Messages)
    BY <1>2, <1>5, AfterFits DEF Check, LoadMin, LoadMax, Goto, Pcs
  <2>4. UNCHANGED <<event, calls, eventCounter>> /\ reg' \in [Threads -> Nat]
    BY <1>2, <1>5 DEF Check, LoadMin, LoadMax, log, Shaped, TypeOK, FiguresOK
  <2>2. ThreadsOK' /\ InHand'
    BY <2>1, <2>4, MoveShaped
  <2>3. LogOK' /\ FiguresOK'
    BY <1>1, <1>5 DEF Check, LoadMin, LoadMax, counters
  <2> QED BY <2>2, <2>3 DEF Shaped, TypeOK
<1>6. CASE Number(t)
  <2>1. LogOK' /\ FiguresOK'
    <3>1. eventCounter' = eventCounter + 1 /\ UNCHANGED <<events, frames>>
      BY <1>6 DEF Number
    <3>2. ASSUME NEW i \in DOMAIN events PROVE events[i].id <= eventCounter + 1
      <4>1. /\ events \in Seq(Records) /\ eventCounter \in Nat
            /\ events[i].id <= eventCounter
        BY DEF Shaped, TypeOK, LogOK, Records
      <4>2. events[i] \in Records
        BY <4>1
      <4> QED BY <4>1, <4>2 DEF Records
    <3>3. LogOK'
      BY <3>1, <3>2 DEF Shaped, TypeOK, LogOK
    <3> QED BY <1>6, <3>3 DEF Number, counters, extremes, Shaped, TypeOK, FiguresOK
  <2>0. /\ event \in [Threads -> Hands] /\ eventCounter \in Nat /\ eventCounter' = eventCounter + 1
        /\ event' = [event EXCEPT ![t].id = eventCounter + 1]
    BY <1>6 DEF Number, Shaped, TypeOK, LogOK, ThreadsOK, Hands
  <2>5. event' \in [Threads -> Hands]
    BY <2>0 DEF Hands
  <2>2. ASSUME NEW u \in Threads PROVE event'[u].id <= eventCounter'
    <3>1. event[u].id <= eventCounter /\ event[u].id \in Nat
      BY <2>0 DEF Shaped, TypeOK, ThreadsOK, Hands
    <3>2. event'[u].id = IF u = t THEN eventCounter + 1 ELSE event[u].id
      BY <2>0 DEF Hands
    <3> QED BY <2>0, <3>1, <3>2
  <2>3. ThreadsOK'
    BY <1>6, <2>2, <2>5 DEF Number, Goto, Pcs, Shaped, TypeOK, ThreadsOK, Hands
  <2>4. InHand'
    BY <1>6 DEF Number, Goto, Shaped, TypeOK, ThreadsOK, InHand
  <2> QED BY <2>1, <2>3, <2>4 DEF Shaped, TypeOK
<1>7. CASE AppendEvent(t)
  <2>1. PICK to \in Pcs \ {"frame", "store"} :
           /\ Goto(t, pc[t], to)
           /\ to = "tally" => event[t].type \in Messages
           /\ to = "load" => event[t].type \in Counted
    BY <1>2, <1>7, AfterFits DEF AppendEvent, Goto, Pcs
  <2>2. ThreadsOK' /\ InHand'
    <3>1. UNCHANGED <<event, calls, eventCounter, reg>>
      BY <1>7 DEF AppendEvent
    <3> QED BY <1>2, <2>1, <3>1, MoveShaped
  <2>3. [id |-> event[t].id, type |-> event[t].type] \in [id : Nat, type : Types]
        /\ event[t].id <= eventCounter
    BY DEF Shaped, TypeOK, ThreadsOK
  <2>4. LogOK'
    BY <1>7, <2>3 DEF AppendEvent, Shaped, TypeOK, LogOK
  <2>5. FiguresOK'
    BY <1>7 DEF AppendEvent, counters, extremes, Shaped, TypeOK, FiguresOK
  <2> QED BY <2>2, <2>4, <2>5 DEF Shaped, TypeOK
<1>8. CASE LoadStat(t)
  <2>1. event[t].type \in Figures /\ event[t].type \in Counted
    BY <1>8 DEF LoadStat, Goto, Shaped, InHand, Figures
  <2>2. reg' \in [Threads -> Nat]
    BY <1>8, <2>1 DEF LoadStat, Shaped, TypeOK, FiguresOK, ThreadsOK
  <2>5. Goto(t, "load", "store") /\ UNCHANGED <<event, calls, eventCounter>>
    BY <1>8 DEF LoadStat, log
  <2>3. ThreadsOK' /\ InHand'
    BY <2>1, <2>2, <2>5, MoveShaped DEF Pcs
  <2>4. LogOK' /\ FiguresOK'
    BY <1>1, <1>8 DEF LoadStat, counters
  <2> QED BY <2>3, <2>4 DEF Shaped, TypeOK
<1>9. CASE StoreStat(t) \/ Deactivate(t) \/ FinalTotal(t) \/ FinalMessages(t)
  <2>1. PICK to \in Pcs \ {"frame", "load", "store"} :
           Goto(t, pc[t], to) /\ (to = "tally" => event[t].type \in Messages)
    <3>1. CASE StoreStat(t)
      BY <1>2, <3>1, AfterFits DEF StoreStat, Goto
    <3>2. CASE Deactivate(t)
      BY <3>2 DEF Deactivate, Goto, Pcs
    <3>3. CASE FinalTotal(t) \/ FinalMessages(t)
      BY <3>3 DEF FinalTotal, FinalMessages, Goto, Pcs
    <3> QED BY <1>9, <3>1, <3>2, <3>3
  <2>2. ThreadsOK' /\ InHand'
    <3>1. UNCHANGED <<event, calls, eventCounter, reg>>
      BY <1>9 DEF StoreStat, Deactivate, FinalTotal, FinalMessages, log
    <3> QED BY <1>2, <2>1, <3>1, MoveShaped
  <2>3. stats' \in [Figures -> Nat] /\ isActive' \in BOOLEAN
    <3>1. CASE StoreStat(t)
      <4>1. reg[t] + 1 \in Nat
        BY DEF Shaped, TypeOK, ThreadsOK
      <4> QED BY <3>1, <4>1 DEF StoreStat, Shaped, TypeOK, FiguresOK
    <3>2. CASE Deactivate(t)
      BY <3>2 DEF Deactivate, Shaped, TypeOK, FiguresOK
    <3>3. CASE FinalTotal(t)
      <4>1. Len(events) \in Nat
        BY DEF Shaped, TypeOK, LogOK
      <4> QED BY <3>3, <4>1 DEF FinalTotal, Shaped, TypeOK, FiguresOK
    <3>4. CASE FinalMessages(t)
      BY <3>4 DEF FinalMessages, Shaped, TypeOK, FiguresOK
    <3> QED BY <1>9, <3>1, <3>2, <3>3, <3>4
  <2>4. UNCHANGED <<log, messageCounter, otherCounters, extremes>>
    BY <1>9 DEF StoreStat, Deactivate, FinalTotal, FinalMessages, counters
  <2>5. LogOK' /\ FiguresOK'
    BY <2>3, <2>4 DEF Shaped, TypeOK, LogOK, FiguresOK, log, extremes
  <2> QED BY <2>2, <2>5 DEF Shaped, TypeOK
<1>10. CASE FinalRest(t)
  <2>1. stats' \in [Figures -> Nat]
    BY <1>10 DEF FinalRest, Shaped, TypeOK, FiguresOK
  <2>2. LogOK' /\ FiguresOK'
    BY <1>10, <2>1 DEF FinalRest, log, counters, extremes, Shaped, TypeOK, LogOK, FiguresOK
  <2>3. ThreadsOK' /\ InHand'
    BY <1>10 DEF FinalRest, Goto, log, Shaped, TypeOK, LogOK, ThreadsOK, InHand, NoEvent, Types, Pcs
  <2> QED BY <2>2, <2>3 DEF Shaped, TypeOK
<1>11. CASE CasMin(t) \/ CasMax(t)
  <2>1. PICK to \in Pcs \ {"frame", "tally", "load", "store"} : Goto(t, pc[t], to)
    BY <1>11 DEF CasMin, CasMax, Goto, Pcs
  <2>2. ThreadsOK' /\ InHand'
    <3>1. UNCHANGED <<event, calls, eventCounter, reg>>
      BY <1>11 DEF CasMin, CasMax, log
    <3> QED BY <1>2, <2>1, <3>1, MoveShaped
  <2>3. minLatency' \in Nat /\ maxLatency' \in Nat
    BY <1>11 DEF CasMin, CasMax, Shaped, TypeOK, FiguresOK, ThreadsOK
  <2>4. LogOK' /\ FiguresOK'
    BY <1>11, <2>3 DEF CasMin, CasMax, log, counters, Shaped, TypeOK, LogOK, FiguresOK
  <2> QED BY <2>2, <2>4 DEF Shaped, TypeOK
<1> QED BY <1>3, <1>4, <1>5, <1>6, <1>7, <1>8, <1>9, <1>10, <1>11 DEF Continue

\* Every step keeps the shapes.
LEMMA NextShaped == Shaped /\ [Next]_vars => Shaped'
<1> SUFFICES ASSUME Shaped, [Next]_vars PROVE Shaped'
  OBVIOUS
<1>1. CASE UNCHANGED vars
  BY <1>1 DEF vars, log, counters, extremes, Shaped, TypeOK, LogOK, FiguresOK, ThreadsOK, InHand
<1>2. CASE Next
  BY <1>2, CallShaped, ContinueShaped DEF Next
<1> QED BY <1>1, <1>2

(***************************************************************************)
(* Type correctness of the recorder, for any number of goroutines.         *)
(***************************************************************************)
THEOREM TypeCorrect == Spec => []TypeOK
<1>1. Shaped => TypeOK
  BY DEF Shaped
<1> QED BY <1>1, InitShaped, NextShaped, PTL DEF Spec

-----------------------------------------------------------------------------
(* Numbering                                                               *)

(* The strengthening: a number on its way into the log is neither in it    *)
(* nor on its way anywhere else.                                           *)
OnItsWay ==
  \A t \in Threads : pc[t] = "append" =>
    /\ \A i \in DOMAIN events : events[i].id # event[t].id
    /\ \A u \in Threads : u # t /\ pc[u] = "append" => event[u].id # event[t].id

Numbered == NumberedOnce /\ OnItsWay

\* Init: one event in the log, none on its way.
LEMMA InitNumbered == Init => Numbered
BY DEF Init, Numbered, NumberedOnce, OnItsWay, Connect

\* Steps that leave the log alone and send nobody to "append".
LEMMA Bystanders ==
  ASSUME Shaped, Numbered, NEW t \in Threads, NEW to \in Pcs \ {"append"},
         pc' = [pc EXCEPT ![t] = to], events' = events,
         \A u \in Threads \ {t} : event'[u] = event[u]
  PROVE  Numbered'
BY DEF Numbered, NumberedOnce, OnItsWay, Shaped, TypeOK, ThreadsOK

\* Every step keeps the numbers apart.
LEMMA NextNumbered == Shaped /\ Numbered /\ [Next]_vars => Numbered'
<1> SUFFICES ASSUME Shaped, Numbered, [Next]_vars PROVE Numbered'
  OBVIOUS
<1>1. CASE UNCHANGED vars
  BY <1>1 DEF vars, log, Numbered, NumberedOnce, OnItsWay
<1>2. CASE \E t \in Threads : Call(t)
  <2>1. PICK t \in Threads : Call(t)
    BY <1>2
  <2>2. /\ \E to \in Pcs \ {"append"} : pc' = [pc EXCEPT ![t] = to]
        /\ events' = events
    BY <2>1 DEF Call, MessageCall, TroubleCall, EventCall, StopCall, LatencyCall, Begin, Goto, Pcs, log
  <2>3. \E h : event' = [event EXCEPT ![t] = h]
    BY <2>1 DEF Call, MessageCall, TroubleCall, EventCall, StopCall, LatencyCall, Begin
  <2>4. \A u \in Threads \ {t} : event'[u] = event[u]
    BY <2>3 DEF Shaped, TypeOK, ThreadsOK
  <2> QED BY <2>2, <2>4, Bystanders
<1>3. CASE \E t \in Threads : Continue(t)
  <2>1. PICK t \in Threads : Continue(t)
    BY <1>3
  <2>2. CASE Number(t)
    <3>1. /\ event' = [event EXCEPT ![t].id = eventCounter + 1] /\ events' = events
          /\ pc' = [pc EXCEPT ![t] = "append"]
      BY <2>2 DEF Number, Goto
    <3>2. \A i \in DOMAIN events : events[i].id # eventCounter + 1
      <4> SUFFICES ASSUME NEW i \in DOMAIN events PROVE events[i].id # eventCounter + 1
        OBVIOUS
      <4>1. events[i].id <= eventCounter /\ events \in Seq(Records) /\ eventCounter \in Nat
        BY DEF Shaped, TypeOK, LogOK, Records
      <4>2. events[i] \in Records
        BY <4>1
      <4> QED BY <4>1, <4>2 DEF Records
    <3>3. \A u \in Threads : event[u].id # eventCounter + 1
      <4> SUFFICES ASSUME NEW u \in Threads PROVE event[u].id # eventCounter + 1
        OBVIOUS
      <4>1. event[u].id <= eventCounter /\ event[u].id \in Nat /\ eventCounter \in Nat
        BY DEF Shaped, TypeOK, LogOK, ThreadsOK
      <4> QED BY <4>1
    <3>4. /\ pc \in [Threads -> Pcs]
          /\ \A u \in Threads : event'[u].id = IF u = t THEN eventCounter + 1 ELSE event[u].id
      BY <3>1 DEF Shaped, TypeOK, ThreadsOK
    <3> QED BY <3>1, <3>2, <3>3, <3>4 DEF Numbered, NumberedOnce, OnItsWay
  <2>3. CASE AppendEvent(t)
    <3> DEFINE e == [id |-> event[t].id, type |-> event[t].type]
    <3>1. /\ pc[t] = "append" /\ events' = Append(events, e) /\ event' = event
          /\ \E to \in Pcs \ {"append"} : pc' = [pc EXCEPT ![t] = to]
      BY <2>3, AfterFits DEF AppendEvent, Goto, Pcs
    <3>2. events \in Seq(Records) /\ pc \in [Threads -> Pcs]
      BY DEF Shaped, TypeOK, LogOK, ThreadsOK, Records
    <3>3. /\ Len(events) \in Nat /\ DOMAIN events = 1..Len(events)
          /\ DOMAIN events' = 1..(Len(events) + 1)
          /\ \A i \in DOMAIN events : events'[i] = events[i]
          /\ events'[Len(events) + 1] = e
      BY <3>1, <3>2
    <3>4. e.id = event[t].id
      OBVIOUS
    <3>5. \A i \in DOMAIN events : events[i].id # event[t].id
      BY <3>1 DEF Numbered, OnItsWay
    <3> HIDE DEF e
    <3>6. NumberedOnce'
      <4> SUFFICES ASSUME NEW i \in DOMAIN events', NEW j \in DOMAIN events', i # j
                   PROVE  events'[i].id # events'[j].id
        BY DEF NumberedOnce
      <4>1. CASE i \in DOMAIN events /\ j \in DOMAIN events
        BY <4>1, <3>3 DEF Numbered, NumberedOnce
      <4>2. CASE i = Len(events) + 1 /\ j \in DOMAIN events
        BY <4>2, <3>3, <3>4, <3>5
      <4>3. CASE j = Len(events) + 1 /\ i \in DOMAIN events
        BY <4>3, <3>3, <3>4, <3>5
      <4> QED BY <4>1, <4>2, <4>3, <3>3
    <3>7. OnItsWay'
      <4> SUFFICES ASSUME NEW u \in Threads, pc'[u] = "append"
                   PROVE  /\ \A i \in DOMAIN events' : events'[i].id # event[u].id
                          /\ \A v \in Threads : v # u /\ pc'[v] = "append" => event[v].id # event[u].id
        BY <3>1 DEF OnItsWay
      <4>1. u # t /\ pc[u] = "append" /\ \A v \in Threads : pc'[v] = "append" => pc[v] = "append"
        BY <3>1, <3>2
      <4>2. \A i \in DOMAIN events : events[i].id # event[u].id
        BY <4>1 DEF Numbered, OnItsWay
      <4>3. event[t].id # event[u].id
        BY <4>1, <3>1 DEF Numbered, OnItsWay
      <4>4. \A v \in Threads : v # u /\ pc'[v] = "append" => event[v].id # event[u].id
        BY <4>1 DEF Numbered, OnItsWay
      <4>5. \A i \in DOMAIN events' : events'[i].id # event[u].id
        BY <4>2, <4>3, <3>3, <3>4
      <4> QED BY <4>4, <4>5
    <3> QED BY <3>6, <3>7 DEF Numbered
  <2>4. CASE ~Number(t) /\ ~AppendEvent(t)
    <3>1. /\ \E to \in Pcs \ {"append"} : pc' = [pc EXCEPT ![t] = to]
          /\ events' = events
      <4>1. CASE AppendFrame(t) \/ Tally(t) \/ Check(t) \/ LoadStat(t) \/ StoreStat(t)
        BY <4>1, AfterFits DEF AppendFrame, Tally, Check, LoadStat, StoreStat, Goto, Pcs, log
      <4>2. CASE Deactivate(t) \/ FinalTotal(t) \/ FinalMessages(t) \/ FinalRest(t)
        BY <4>2 DEF Deactivate, FinalTotal, FinalMessages, FinalRest, Goto, Pcs, log
      <4>3. CASE LoadMin(t) \/ CasMin(t) \/ LoadMax(t) \/ CasMax(t)
        BY <4>3 DEF LoadMin, CasMin, LoadMax, CasMax, Goto, Pcs, log
      <4> QED BY <2>1, <2>4, <4>1, <4>2, <4>3 DEF Continue
    <3>2. \A u \in Threads \ {t} : event'[u] = event[u]
      <4>1. event' = event \/ \E h : event' = [event EXCEPT ![t] = h]
        BY <2>1, <2>4 DEF Continue, AppendFrame, Tally, Check, LoadStat, StoreStat, Deactivate,
             FinalTotal, FinalMessages, FinalRest, LoadMin, CasMin, LoadMax, CasMax
      <4> QED BY <4>1 DEF Shaped, TypeOK, ThreadsOK
    <3> QED BY <3>1, <3>2, Bystanders
  <2> QED BY <2>2, <2>3, <2>4
<1> QED BY <1>1, <1>2, <1>3 DEF Next

(***************************************************************************)
(* No two events of the log share a number (RecordEvent), however many     *)
(* goroutines record at once.                                              *)
(***************************************************************************)
THEOREM NumbersDistinct == Spec => []NumberedOnce
<1>1. Init => Shaped /\ Numbered
  BY InitShaped, InitNumbered
<1>2. Shaped /\ Numbered /\ [Next]_vars => (Shaped /\ Numbered)'
  BY NextShaped, NextNumbered
<1>3. Numbered => NumberedOnce
  BY DEF Numbered
<1> QED BY <1>1, <1>2, <1>3, PTL DEF Spec

-----------------------------------------------------------------------------
(* Latencies                                                               *)

MinPcs == {"loadmin", "casmin"}
MaxPcs == {"loadmin", "casmin", "loadmax", "casmax"}

(* The strengthening: a latency not yet covered by an extreme is in the    *)
(* hand of a goroutine still on its way to that extreme's swap, and a      *)
(* goroutine at a swap has loaded a value its latency improves.            *)

MinKept ==
  \A v \in measured : \/ 0 < minLatency /\ minLatency <= v
                      \/ \E t \in Threads : pc[t] \in MinPcs /\ event[t].latency = v

MaxKept ==
  \A v \in measured : \/ v <= maxLatency
                      \/ \E t \in Threads : pc[t] \in MaxPcs /\ event[t].latency = v

Swapping(t) ==
  /\ pc[t] \in MaxPcs => event[t].latency > 0
  /\ pc[t] = "casmin" => reg[t] = 0 \/ event[t].latency < reg[t]
  /\ pc[t] = "casmax" => event[t].latency > reg[t]

Kept == MinKept /\ MaxKept /\ \A t \in Threads : Swapping(t)

\* Init: nothing is measured.
LEMMA InitKept == Init => Kept
BY DEF Init, Kept, MinKept, MaxKept, Swapping, MaxPcs

\* Steps outside RecordLatency.
LEMMA Elsewhere ==
  ASSUME Shaped, Kept, NEW t \in Threads, NEW from \in Pcs \ MaxPcs, NEW to \in Pcs \ MaxPcs,
         Goto(t, from, to), UNCHANGED extremes,
         \A u \in Threads \ {t} : event'[u] = event[u] /\ reg'[u] = reg[u]
  PROVE  Kept'
<1>1. /\ minLatency' = minLatency /\ maxLatency' = maxLatency /\ measured' = measured
      /\ pc[t] = from /\ pc' = [pc EXCEPT ![t] = to] /\ pc \in [Threads -> Pcs]
  BY DEF extremes, Goto, Shaped, TypeOK, ThreadsOK
<1>2. \A u \in Threads : pc[u] \in MaxPcs =>
        u # t /\ pc'[u] = pc[u] /\ event'[u] = event[u]
  BY <1>1
<1>3. \A u \in Threads : pc[u] \in MinPcs => pc[u] \in MaxPcs
  BY DEF MinPcs, MaxPcs
<1>4. MinKept'
  BY <1>1, <1>2, <1>3 DEF Kept, MinKept
<1>5. MaxKept'
  BY <1>1, <1>2 DEF Kept, MaxKept
<1>6. \A u \in Threads : Swapping(u)'
  BY <1>1 DEF Kept, Swapping, MaxPcs
<1> QED BY <1>4, <1>5, <1>6 DEF Kept

\* The steps of RecordLatency.
LEMMA LatencySteps ==
  ASSUME Shaped, Kept, NEW t \in Threads,
         LatencyCall(t) \/ LoadMin(t) \/ CasMin(t) \/ LoadMax(t) \/ CasMax(t)
  PROVE  Kept'
<1>0. /\ pc \in [Threads -> Pcs] /\ event \in [Threads -> Hands] /\ reg \in [Threads -> Nat]
      /\ minLatency \in Nat /\ maxLatency \in Nat /\ measured \subseteq Nat
  BY RecorderAssumption DEF Shaped, TypeOK, FiguresOK, ThreadsOK, Hands
<1> USE DEF MinPcs, MaxPcs
<1>1. CASE LatencyCall(t)
  <2>1. PICK v \in Latencies : /\ event' = [event EXCEPT ![t] = [NoEvent EXCEPT !.latency = v]]
                               /\ measured' = measured \cup {v}
    BY <1>1 DEF LatencyCall
  <2>2. /\ pc[t] = "idle" /\ pc' = [pc EXCEPT ![t] = "loadmin"]
        /\ UNCHANGED <<minLatency, maxLatency, reg>>
    BY <1>1 DEF LatencyCall, Goto
  <2>3. event'[t].latency = v /\ v > 0 /\ \A u \in Threads \ {t} : event'[u] = event[u]
    BY <1>0, <2>1, RecorderAssumption DEF NoEvent
  <2>4. MinKept'
    BY <1>0, <2>1, <2>2, <2>3 DEF Kept, MinKept
  <2>5. MaxKept'
    BY <1>0, <2>1, <2>2, <2>3 DEF Kept, MaxKept
  <2>6. \A u \in Threads : Swapping(u)'
    BY <1>0, <2>2, <2>3 DEF Kept, Swapping
  <2> QED BY <2>4, <2>5, <2>6 DEF Kept
<1>2. CASE LoadMin(t)
  <2>1. /\ pc[t] = "loadmin" /\ UNCHANGED <<event, minLatency, maxLatency, measured>>
        /\ reg' = [reg EXCEPT ![t] = minLatency]
        /\ pc' = [pc EXCEPT ![t] = IF minLatency = 0 \/ event[t].latency < minLatency
                                   THEN "casmin" ELSE "loadmax"]
    BY <1>2 DEF LoadMin, Goto, extremes
  <2>2. MinKept'
    BY <1>0, <2>1 DEF Kept, MinKept, Hands
  <2>3. MaxKept'
    BY <1>0, <2>1 DEF Kept, MaxKept
  <2>4. \A u \in Threads : Swapping(u)'
    BY <1>0, <2>1 DEF Kept, Swapping
  <2> QED BY <2>2, <2>3, <2>4 DEF Kept
<1>3. CASE CasMin(t)
  <2>1. /\ pc[t] = "casmin" /\ UNCHANGED <<event, reg, maxLatency, measured>>
        /\ \/ /\ minLatency = reg[t] /\ minLatency' = event[t].latency
              /\ pc' = [pc EXCEPT ![t] = "loadmax"]
           \/ minLatency' = minLatency /\ pc' = [pc EXCEPT ![t] = "loadmin"]
    BY <1>3 DEF CasMin, Goto
  <2>2. event[t].latency > 0 /\ (reg[t] = 0 \/ event[t].latency < reg[t])
    BY <2>1 DEF Kept, Swapping
  <2>3. MinKept'
    BY <1>0, <2>1, <2>2 DEF Kept, MinKept, Hands
  <2>4. MaxKept'
    BY <1>0, <2>1 DEF Kept, MaxKept
  <2>5. \A u \in Threads : Swapping(u)'
    BY <1>0, <2>1 DEF Kept, Swapping
  <2> QED BY <2>3, <2>4, <2>5 DEF Kept
<1>4. CASE LoadMax(t)
  <2>1. /\ pc[t] = "loadmax" /\ UNCHANGED <<event, minLatency, maxLatency, measured>>
        /\ reg' = [reg EXCEPT ![t] = maxLatency]
        /\ pc' = [pc EXCEPT ![t] = IF event[t].latency > maxLatency THEN "casmax" ELSE "idle"]
    BY <1>4 DEF LoadMax, Goto, extremes
  <2>2. MinKept'
    BY <1>0, <2>1 DEF Kept, MinKept
  <2>3. MaxKept'
    BY <1>0, <2>1 DEF Kept, MaxKept, Hands
  <2>4. \A u \in Threads : Swapping(u)'
    BY <1>0, <2>1 DEF Kept, Swapping
  <2> QED BY <2>2, <2>3, <2>4 DEF Kept
<1>5. CASE CasMax(t)
  <2>1. /\ pc[t] = "casmax" /\ UNCHANGED <<event, reg, minLatency, measured>>
        /\ \/ /\ maxLatency = reg[t] /\ maxLatency' = event[t].latency
              /\ pc' = [pc EXCEPT ![t] = "idle"]
           \/ maxLatency' = maxLatency /\ pc' = [pc EXCEPT ![t] = "loadmax"]
    BY <1>5 DEF CasMax, Goto
  <2>2. event[t].latency > reg[t]
    BY <2>1 DEF Kept, Swapping
  <2>3. MinKept'
    BY <1>0, <2>1 DEF Kept, MinKept
  <2>4. MaxKept'
    BY <1>0, <2>1, <2>2 DEF Kept, MaxKept, Hands
  <2>5. \A u \in Threads : Swapping(u)'
    BY <1>0, <2>1 DEF Kept, Swapping
  <2> QED BY <2>3, <2>4, <2>5 DEF Kept
<1> QED BY <1>1, <1>2, <1>3, <1>4, <1>5

\* Every step keeps the extremes.
LEMMA NextKept == Shaped /\ Kept /\ [Next]_vars => Kept'
<1> SUFFICES ASSUME Shaped, Kept, [Next]_vars PROVE Kept'
  OBVIOUS
<1>1. CASE UNCHANGED vars
  BY <1>1 DEF vars, extremes, Kept, MinKept, MaxKept, Swapping
<1>2. ASSUME NEW t \in Threads,
             MessageCall(t) \/ TroubleCall(t) \/ EventCall(t) \/ StopCall(t)
      PROVE  Kept'
  <2>1. \E from \in Pcs \ MaxPcs, to \in Pcs \ MaxPcs : Goto(t, from, to)
    BY <1>2 DEF MessageCall, TroubleCall, EventCall, StopCall, Begin, Pcs, MaxPcs
  <2>2. UNCHANGED extremes /\ reg' = reg /\ \E h : event' = [event EXCEPT ![t] = h]
    BY <1>2 DEF MessageCall, TroubleCall, EventCall, StopCall, Begin
  <2>3. \A u \in Threads \ {t} : event'[u] = event[u] /\ reg'[u] = reg[u]
    BY <2>2 DEF Shaped, TypeOK, ThreadsOK
  <2> QED BY <2>1, <2>2, <2>3, Elsewhere
<1>3. ASSUME NEW t \in Threads, Continue(t), ~LoadMin(t), ~CasMin(t), ~LoadMax(t), ~CasMax(t)
      PROVE  Kept'
  <2>1. \E from \in Pcs \ MaxPcs, to \in Pcs \ MaxPcs : Goto(t, from, to)
    <3>1. CASE AppendFrame(t) \/ Tally(t) \/ Check(t) \/ Number(t) \/ AppendEvent(t)
               \/ LoadStat(t) \/ StoreStat(t)
      BY <3>1, AfterFits
         DEF AppendFrame, Tally, Check, Number, AppendEvent, LoadStat, StoreStat, Pcs, MaxPcs
    <3>2. CASE Deactivate(t) \/ FinalTotal(t) \/ FinalMessages(t) \/ FinalRest(t)
      BY <3>2 DEF Deactivate, FinalTotal, FinalMessages, FinalRest, Pcs, MaxPcs
    <3> QED BY <1>3, <3>1, <3>2 DEF Continue
  <2>2. /\ UNCHANGED extremes
        /\ event' = event \/ \E h : event' = [event EXCEPT ![t] = h]
        /\ reg' = reg \/ \E r : reg' = [reg EXCEPT ![t] = r]
    BY <1>3 DEF Continue, AppendFrame, Tally, Check, Number, AppendEvent, LoadStat, StoreStat,
         Deactivate, FinalTotal, FinalMessages, FinalRest
  <2>3. \A u \in Threads \ {t} : event'[u] = event[u] /\ reg'[u] = reg[u]
    BY <2>2 DEF Shaped, TypeOK, ThreadsOK
  <2> QED BY <2>1, <2>2, <2>3, Elsewhere
<1> QED BY <1>1, <1>2, <1>3, LatencySteps DEF Next, Call

(***************************************************************************)
(* RecordLatency's loops lose no extreme: with no call running, minLatency *)
(* and maxLatency bound every latency measured, however many goroutines    *)
(* measure and whatever swaps fail.                                        *)
(***************************************************************************)
THEOREM ExtremesKept == Spec => []LatencyExtremes
<1>1. Init => Shaped /\ Kept
  BY InitShaped, InitKept
<1>2. Shaped /\ Kept /\ [Next]_vars => (Shaped /\ Kept)'
  BY NextShaped, NextKept
<1>3. Kept => LatencyExtremes
  BY DEF Kept, MinKept, MaxKept, MinPcs, MaxPcs, LatencyExtremes
<1> QED BY <1>1, <1>2, <1>3, PTL DEF Spec
-----------------------------------------------------------------------------
(* What Stop leaves uncounted                                              *)

(* Goroutines that passed the check of isActive and have not appended.     *)
InFlight == {t \in Threads : pc[t] \in {"number", "append"}}

(* The strengthening: the final total is taken after the recorder went     *)
(* inactive, so nobody joins those in flight; each appends one more event. *)
Settled ==
  /\ \A t \in Threads : pc[t] = "total" => ~isActive
  /\ stats["total"] > 0 =>
       ~isActive /\ Len(events) + Cardinality(InFlight) <= stats["total"] + Cardinality(Threads)

\* A set of goroutines is finite.
LEMMA FewThreads ==
  ASSUME NEW S \in SUBSET Threads
  PROVE  IsFiniteSet(S) /\ Cardinality(S) \in Nat /\ Cardinality(S) <= Cardinality(Threads)
         /\ Cardinality(Threads) \in Nat
BY RecorderAssumption, FS_Subset, FS_CardinalityType

\* Init: the recorder is active and nothing is totalled.
LEMMA InitSettled == Init => Settled
BY DEF Init, Settled, Figures

\* Steps that keep the log and the total, and send nobody into flight once inactive.
LEMMA NoNewFlight ==
  ASSUME Shaped, Settled, UNCHANGED events, stats'["total"] = stats["total"], isActive' => isActive,
         \A t \in Threads : pc'[t] = "total" => ~isActive',
         \A t \in Threads : ~isActive /\ pc'[t] \in {"number", "append"} => pc[t] \in {"number", "append"}
  PROVE  Settled'
<1> SUFFICES ASSUME stats["total"] > 0
             PROVE  Len(events) + Cardinality(InFlight') <= stats["total"] + Cardinality(Threads)
  BY DEF Settled
<1>1. InFlight \in SUBSET Threads /\ InFlight' \in SUBSET InFlight
  BY DEF Settled, InFlight
<1>2. Cardinality(InFlight') <= Cardinality(InFlight) /\ Cardinality(InFlight') \in Nat
  BY <1>1, FewThreads, FS_Subset
<1>3. Len(events) \in Nat /\ stats["total"] \in Nat /\ Cardinality(InFlight) \in Nat
      /\ Cardinality(Threads) \in Nat
  BY <1>1, FewThreads DEF Shaped, TypeOK, LogOK, FiguresOK, Figures
<1> QED BY <1>2, <1>3 DEF Settled

\* Every step keeps the total close.
LEMMA NextSettled == Shaped /\ Settled /\ [Next]_vars => Settled'
<1> SUFFICES ASSUME Shaped, Settled, [Next]_vars PROVE Settled'
  OBVIOUS
<1>0. pc \in [Threads -> Pcs] /\ stats \in [Figures -> Nat] /\ "total" \in Figures
      /\ events \in Seq(Records)
  BY DEF Shaped, TypeOK, LogOK, FiguresOK, ThreadsOK, Figures, Records
<1>1. CASE UNCHANGED vars
  BY <1>1, NoNewFlight DEF vars, log, Settled
<1>2. ASSUME NEW t \in Threads, Call(t) PROVE Settled'
  <2>1. /\ UNCHANGED <<events, stats, isActive>>
        /\ \E to \in Pcs \ {"number", "append", "total"} : pc' = [pc EXCEPT ![t] = to]
    BY <1>2 DEF Call, MessageCall, TroubleCall, EventCall, StopCall, LatencyCall, Begin, Goto, Pcs, log
  <2> QED BY <1>0, <2>1, NoNewFlight DEF Settled
<1>3. ASSUME NEW t \in Threads, FinalTotal(t) PROVE Settled'
  <2>1. /\ pc[t] = "total" /\ pc' = [pc EXCEPT ![t] = "sent"] /\ UNCHANGED <<events, isActive>>
        /\ stats'["total"] = Len(events)
    BY <1>0, <1>3 DEF FinalTotal, Goto, log
  <2>2. ~isActive' /\ \A u \in Threads : pc'[u] = "total" => ~isActive'
    BY <1>0, <2>1 DEF Settled
  <2>3. Cardinality(InFlight') <= Cardinality(Threads)
    BY FewThreads DEF InFlight
  <2>4. Cardinality(InFlight') \in Nat /\ Cardinality(Threads) \in Nat /\ Len(events) \in Nat
    BY <1>0, FewThreads DEF InFlight
  <2> QED BY <2>1, <2>2, <2>3, <2>4 DEF Settled
<1>4. ASSUME NEW t \in Threads, AppendEvent(t) PROVE Settled'
  <2>1. /\ pc[t] = "append" /\ \E to \in Pcs \ {"number", "append", "total"} : pc' = [pc EXCEPT ![t] = to]
        /\ \E e : events' = Append(events, e)
        /\ UNCHANGED <<stats, isActive>>
    BY <1>4, AfterFits DEF AppendEvent, Goto, Pcs
  <2>2. Len(events') = Len(events) + 1
    BY <1>0, <2>1
  <2>3. t \in InFlight /\ InFlight' = InFlight \ {t}
    BY <1>0, <2>1 DEF InFlight
  <2>4. Cardinality(InFlight') = Cardinality(InFlight) - 1
    BY <2>3, FewThreads, FS_RemoveElement DEF InFlight
  <2>5. Cardinality(InFlight) \in Nat /\ Cardinality(Threads) \in Nat /\ Len(events) \in Nat
        /\ stats["total"] \in Nat
    BY <1>0, FewThreads DEF InFlight
  <2>6. \A u \in Threads : pc'[u] = "total" => ~isActive'
    BY <1>0, <2>1 DEF Settled
  <2> QED BY <2>1, <2>2, <2>4, <2>5, <2>6 DEF Settled
<1>5. ASSUME NEW t \in Threads, Continue(t), ~FinalTotal(t), ~AppendEvent(t) PROVE Settled'
  <2>1. UNCHANGED events /\ (isActive' => isActive)
    BY <1>5 DEF Continue, AppendFrame, Tally, Check, Number, LoadStat, StoreStat, Deactivate,
         FinalMessages, FinalRest, LoadMin, CasMin, LoadMax, CasMax, log
  <2>2. stats'["total"] = stats["total"]
    <3>1. CASE StoreStat(t)
      BY <1>0, <3>1 DEF StoreStat, Goto, Shaped, InHand, Counted, Messages
    <3>2. CASE FinalMessages(t) \/ FinalRest(t)
      BY <1>0, <3>2 DEF FinalMessages, FinalRest
    <3>3. CASE stats' = stats
      BY <3>3
    <3> QED BY <1>5, <3>1, <3>2, <3>3 DEF Continue, AppendFrame, Tally, Check, Number, LoadStat,
                  Deactivate, LoadMin, CasMin, LoadMax, CasMax
  <2>3. PICK to : /\ pc' = [pc EXCEPT ![t] = to]
                  /\ to = "total" => ~isActive'
                  /\ to \in {"number", "append"} => isActive \/ pc[t] = "number"
    <3>1. CASE AppendFrame(t) \/ Tally(t) \/ Check(t) \/ Number(t) \/ LoadStat(t) \/ StoreStat(t)
      BY <3>1, AfterFits DEF AppendFrame, Tally, Check, Number, LoadStat, StoreStat, Goto
    <3>2. CASE Deactivate(t) \/ FinalMessages(t) \/ FinalRest(t)
      BY <3>2 DEF Deactivate, FinalMessages, FinalRest, Goto
    <3>3. CASE LoadMin(t) \/ CasMin(t) \/ LoadMax(t) \/ CasMax(t)
      BY <3>3 DEF LoadMin, CasMin, LoadMax, CasMax, Goto
    <3> QED BY <1>5, <3>1, <3>2, <3>3 DEF Continue
  <2>4. \A u \in Threads : pc'[u] = IF u = t THEN to ELSE pc[u]
    BY <1>0, <2>3
  <2>5. \A u \in Threads : pc'[u] = "total" => ~isActive'
    BY <2>1, <2>3, <2>4 DEF Settled
  <2>6. \A u \in Threads :
          ~isActive /\ pc'[u] \in {"number", "append"} => pc[u] \in {"number", "append"}
    BY <2>3, <2>4
  <2> QED BY <2>1, <2>2, <2>5, <2>6, NoNewFlight
<1> QED BY <1>1, <1>2, <1>3, <1>4, <1>5 DEF Next

(***************************************************************************)
(* The total in the final statistics misses at most one event of each      *)
(* goroutine (Stop, calculateFinalStats), however many record at once.     *)
(***************************************************************************)
THEOREM TotalMissesFew == Spec => []FinalTotalClose
<1>1. Init => Shaped /\ Settled
  BY InitShaped, InitSettled
<1>2. Shaped /\ Settled /\ [Next]_vars => (Shaped /\ Settled)'
  BY NextShaped, NextSettled
<1>3. Shaped /\ Settled => FinalTotalClose
  <2> SUFFICES ASSUME Shaped, Settled, stats["total"] > 0
               PROVE  Len(events) - stats["total"] <= Cardinality(Threads)
    BY DEF FinalTotalClose
  <2>1. Cardinality(InFlight) \in Nat /\ Cardinality(Threads) \in Nat
    BY FewThreads DEF InFlight
  <2>2. Len(events) \in Nat /\ stats["total"] \in Nat
    BY DEF Shaped, TypeOK, LogOK, FiguresOK, Figures
  <2> QED BY <2>1, <2>2 DEF Settled
<1> QED BY <1>1, <1>2, <1>3, PTL DEF Spec
-----------------------------------------------------------------------------
(* Frames and message events                                               *)

MessageAt(log_) == {i \in DOMAIN log_ : log_[i].type \in Messages}

\* Goroutines whose frame is kept and whose message event is still to come.
Ahead == {t \in Threads : pc[t] \in {"check", "number", "append"} /\ event[t].type \in Messages}

\* Goroutines of S have no message event to come and no frame to add.
Past(S) ==
  \A t \in S : ~(pc[t] \in {"frame", "check", "number", "append"} /\ event[t].type \in Messages)

(* The strengthening: the frames without an event are those of goroutines  *)
(* Ahead and of a set of goroutines that lost theirs to Stop, one frame    *)
(* each, since an inactive recorder takes no other.                        *)
Accounted(lost) ==
  /\ isActive => lost = {}
  /\ Past(lost)
  /\ Len(frames) = Cardinality(MessageAt(events)) + Cardinality(lost \cup Ahead)

Covered == \E lost \in SUBSET Threads : Accounted(lost)

\* Init: no frames, and Connect is no message.
LEMMA InitCovered == Init => Covered
<1> SUFFICES ASSUME Init PROVE Accounted({})
  BY DEF Covered
<1>1. MessageAt(events) = {} /\ {} \cup Ahead = {}
  BY DEF Init, MessageAt, Ahead, Connect, Messages
<1>2. Cardinality(MessageAt(events)) = 0 /\ Cardinality({} \cup Ahead) = 0
  BY <1>1, FS_EmptySet
<1>3. Len(frames) = 0
  BY DEF Init
<1> QED BY <1>2, <1>3 DEF Accounted, Past

\* Steps that keep the log, the frames and who is Ahead or lost, and start no frame once inactive.
LEMMA SameAccount ==
  ASSUME Covered, UNCHANGED <<events, frames>>, isActive' => isActive, Ahead' = Ahead,
         \A t \in Threads :
           /\ pc'[t] \in {"frame", "check", "number", "append"} /\ event'[t].type \in Messages
           /\ ~isActive
           => pc[t] \in {"frame", "check", "number", "append"} /\ event[t].type \in Messages
  PROVE  Covered'
<1>1. PICK lost \in SUBSET Threads : Accounted(lost)
  BY DEF Covered
<1>2. isActive' => lost = {}
  BY <1>1 DEF Accounted
<1>3. Past(lost)'
  BY <1>1 DEF Accounted, Past
<1>4. Accounted(lost)'
  BY <1>1, <1>2, <1>3 DEF Accounted
<1> QED BY <1>4 DEF Covered

\* What an appended event adds to the message events of the log.
LEMMA OneMoreMessage ==
  ASSUME NEW s \in Seq(Records), NEW e \in Records
  PROVE  /\ IsFiniteSet(MessageAt(s)) /\ Cardinality(MessageAt(s)) \in Nat
         /\ Cardinality(MessageAt(Append(s, e)))
              = Cardinality(MessageAt(s)) + (IF e.type \in Messages THEN 1 ELSE 0)
<1>1. MessageAt(s) \in SUBSET (1..Len(s)) /\ Len(s) \in Nat
  BY DEF MessageAt
<1>2. IsFiniteSet(MessageAt(s)) /\ Cardinality(MessageAt(s)) \in Nat
  <2>1. IsFiniteSet(1..Len(s))
    BY <1>1, FS_Interval
  <2> QED BY <1>1, <2>1, FS_Subset, FS_CardinalityType
<1>3. MessageAt(Append(s, e)) = IF e.type \in Messages THEN MessageAt(s) \cup {Len(s) + 1} ELSE MessageAt(s)
  <2>1. /\ DOMAIN Append(s, e) = 1..(Len(s) + 1) /\ DOMAIN s = 1..Len(s)
        /\ \A i \in 1..Len(s) : Append(s, e)[i] = s[i]
        /\ Append(s, e)[Len(s) + 1] = e
    BY <1>1
  <2> QED BY <1>1, <2>1 DEF MessageAt
<1>4. Len(s) + 1 \notin MessageAt(s)
  BY <1>1
<1>5. Cardinality(MessageAt(s) \cup {Len(s) + 1}) = Cardinality(MessageAt(s)) + 1
  BY <1>2, <1>4, FS_AddElement
<1> QED BY <1>2, <1>3, <1>5

\* The goroutines Ahead and lost are a finite set.
LEMMA Few ==
  ASSUME NEW lost \in SUBSET Threads
  PROVE  lost \cup Ahead \in SUBSET Threads /\ IsFiniteSet(lost \cup Ahead)
         /\ Cardinality(lost \cup Ahead) \in Nat
<1>1. lost \cup Ahead \in SUBSET Threads
  BY DEF Ahead
<1> QED BY <1>1, FewThreads

\* Where each call takes the goroutine and what it takes in hand.
LEMMA CallTakes ==
  ASSUME Shaped, NEW t \in Threads, Call(t)
  PROVE  /\ UNCHANGED <<events, frames, isActive>> /\ pc[t] = "idle"
         /\ \E to \in Pcs, h \in Hands :
              /\ pc' = [pc EXCEPT ![t] = to] /\ event' = [event EXCEPT ![t] = h]
              /\ \/ to = "frame" /\ isActive
                 \/ to \in {"check", "stop", "loadmin"} /\ h.type \notin Messages
<1>1. CASE MessageCall(t)
  <2>1. PICK type \in Directions : Begin(t, "frame", type)
    BY <1>1 DEF MessageCall
  <2>2. [NoEvent EXCEPT !.type = type] \in Hands
    BY RecorderAssumption DEF NoEvent, Hands, Types, Counted, Messages
  <2> QED BY <1>1, <2>1, <2>2 DEF MessageCall, Begin, Goto, Pcs, log
<1>2. CASE TroubleCall(t) \/ EventCall(t) \/ StopCall(t)
  <2>1. PICK to \in {"check", "stop"}, type \in {"reconnect", "error", "other", "close", "disconnect"} :
           Begin(t, to, type)
    BY <1>2 DEF TroubleCall, EventCall, StopCall
  <2>2. /\ [NoEvent EXCEPT !.type = type] \in Hands
        /\ [NoEvent EXCEPT !.type = type].type \notin Messages
    BY DEF NoEvent, Hands, Types, Counted, Messages
  <2> QED BY <1>2, <2>1, <2>2 DEF TroubleCall, EventCall, StopCall, Begin, Goto, Pcs, log
<1>3. CASE LatencyCall(t)
  <2>1. PICK v \in Latencies : event' = [event EXCEPT ![t] = [NoEvent EXCEPT !.latency = v]]
    BY <1>3 DEF LatencyCall
  <2>2. [NoEvent EXCEPT !.latency = v] \in Hands /\ [NoEvent EXCEPT !.latency = v].type \notin Messages
    BY RecorderAssumption DEF NoEvent, Hands, Types, Messages
  <2> QED BY <1>3, <2>1, <2>2 DEF LatencyCall, Goto, Pcs, log
<1> QED BY <1>1, <1>2, <1>3 DEF Call
\* A goroutine that has its message event to come starts as one with its frame kept.
LEMMA FrameAccounted == ASSUME Shaped, Covered, NEW t \in Threads, AppendFrame(t) PROVE Covered'
<1>0. pc \in [Threads -> Pcs]
  BY DEF Shaped, TypeOK, ThreadsOK
<1>1. PICK lost \in SUBSET Threads : Accounted(lost)
  BY DEF Covered
<1>2. /\ pc[t] = "frame" /\ pc' = [pc EXCEPT ![t] = "check"] /\ event[t].type \in Messages
      /\ UNCHANGED <<isActive, events, event>> /\ frames' = Append(frames, event[t].type)
  BY DEF AppendFrame, Goto, Shaped, InHand
<1>3. t \notin lost \cup Ahead
  BY <1>1, <1>2 DEF Accounted, Past, Ahead
<1>4. lost \cup Ahead' = (lost \cup Ahead) \cup {t}
  BY <1>0, <1>2 DEF Ahead
<1>5. Cardinality(lost \cup Ahead') = Cardinality(lost \cup Ahead) + 1
  BY <1>3, <1>4, Few, FS_AddElement
<1>6. Len(frames') = Len(frames) + 1
  BY <1>2 DEF Shaped, TypeOK, LogOK
<1>7. Cardinality(MessageAt(events)) \in Nat /\ Cardinality(lost \cup Ahead) \in Nat
  BY Few, OneMoreMessage, Connect \in Records
     DEF Shaped, TypeOK, LogOK, Records, Connect, Types
<1>8. Past(lost)'
  BY <1>0, <1>1, <1>2, <1>3 DEF Accounted, Past
<1>9. Accounted(lost)'
  <2>1. (isActive => lost = {})' /\ MessageAt(events') = MessageAt(events)
    BY <1>1, <1>2 DEF Accounted
  <2>2. Len(frames') = Cardinality(MessageAt(events')) + Cardinality(lost \cup Ahead')
    BY <1>1, <1>5, <1>6, <1>7, <2>1 DEF Accounted
  <2> QED BY <1>8, <2>1, <2>2 DEF Accounted
<1> QED BY <1>9 DEF Covered

\* A message checked after Stop is lost; any other check changes nobody's account.
LEMMA CheckAccounted == ASSUME Shaped, Covered, NEW t \in Threads, Check(t) PROVE Covered'
<1>0. pc \in [Threads -> Pcs]
  BY DEF Shaped, TypeOK, ThreadsOK
<1>1. /\ pc[t] = "check" /\ pc' = [pc EXCEPT ![t] = IF isActive THEN "number" ELSE After(t)]
      /\ UNCHANGED <<isActive, events, frames, event>>
  BY DEF Check, Goto, log
<1>2. CASE isActive
  <2>1. \A u \in Threads : pc'[u] = IF u = t THEN "number" ELSE pc[u]
    BY <1>0, <1>1, <1>2
  <2>2. Ahead' = Ahead
    BY <1>1, <2>1 DEF Ahead
  <2> QED BY <1>1, <1>2, <2>1, <2>2, SameAccount
<1>3. CASE ~isActive
  <2>1. \A u \in Threads : pc'[u] = IF u = t THEN After(t) ELSE pc[u]
    BY <1>0, <1>1, <1>3
  <2>2. CASE event[t].type \in Messages
    <3>1. PICK lost \in SUBSET Threads : Accounted(lost)
      BY DEF Covered
    <3>2. (lost \cup {t}) \cup Ahead' = lost \cup Ahead
      BY <1>1, <2>1, <2>2, AfterFits DEF Ahead
    <3>3. Past(lost \cup {t})'
      BY <1>1, <2>1, <3>1, AfterFits DEF Accounted, Past
    <3>4. Accounted(lost \cup {t})'
      BY <1>1, <1>3, <3>1, <3>2, <3>3 DEF Accounted
    <3> QED BY <3>4 DEF Covered
  <2>3. CASE event[t].type \notin Messages
    <3>1. Ahead' = Ahead
      BY <1>1, <2>1, <2>3 DEF Ahead
    <3> QED BY <1>1, <2>1, <2>3, <3>1, SameAccount
  <2> QED BY <2>2, <2>3
<1> QED BY <1>2, <1>3

\* An appended message event accounts for the goroutine's frame.
LEMMA EventAccounted == ASSUME Shaped, Covered, NEW t \in Threads, AppendEvent(t) PROVE Covered'
<1> DEFINE e == [id |-> event[t].id, type |-> event[t].type]
<1>0. pc \in [Threads -> Pcs] /\ events \in Seq(Records) /\ e \in Records
  BY DEF Shaped, TypeOK, LogOK, ThreadsOK, Records
<1>1. PICK lost \in SUBSET Threads : Accounted(lost)
  BY DEF Covered
<1>2. PICK to \in {"load", "stop", "idle", "tally"} :
        pc[t] = "append" /\ pc' = [pc EXCEPT ![t] = to] /\ events' = Append(events, e)
        /\ UNCHANGED <<isActive, frames, event>>
  BY AfterFits DEF AppendEvent, Goto
<1>3. e.type = event[t].type
  OBVIOUS
<1> HIDE DEF e
<1>4. \A u \in Threads : pc'[u] = IF u = t THEN to ELSE pc[u]
  BY <1>0, <1>2
<1>5. /\ Cardinality(MessageAt(events)) \in Nat
      /\ Cardinality(MessageAt(events'))
           = Cardinality(MessageAt(events)) + (IF event[t].type \in Messages THEN 1 ELSE 0)
  BY <1>0, <1>2, <1>3, OneMoreMessage
<1>6. Past(lost)' /\ (isActive => lost = {})'
  BY <1>1, <1>2, <1>4 DEF Accounted, Past
<1>7. Cardinality(lost \cup Ahead)
        = Cardinality(lost \cup Ahead') + (IF event[t].type \in Messages THEN 1 ELSE 0)
  <2>1. CASE event[t].type \in Messages
    <3>1. t \notin lost /\ t \in Ahead
      BY <1>1, <1>2, <2>1 DEF Accounted, Past, Ahead
    <3>2. lost \cup Ahead' = (lost \cup Ahead) \ {t}
      BY <1>2, <1>4, <3>1 DEF Ahead
    <3>3. Cardinality((lost \cup Ahead) \ {t}) = Cardinality(lost \cup Ahead) - 1
      BY <3>1, Few, FS_RemoveElement
    <3>4. Cardinality(lost \cup Ahead) \in Nat
      BY Few
    <3>5. Cardinality(lost \cup Ahead') = Cardinality(lost \cup Ahead) - 1
      BY <3>2, <3>3, Zenon
    <3> QED BY <2>1, <3>4, <3>5
  <2>2. CASE event[t].type \notin Messages
    <3>1. Ahead' = Ahead
      BY <1>2, <1>4, <2>2 DEF Ahead
    <3>2. Cardinality(lost \cup Ahead) \in Nat
      BY Few
    <3> QED BY <2>2, <3>1, <3>2
  <2> QED BY <2>1, <2>2
<1>8. Cardinality(lost \cup Ahead') \in Nat
  <2>1. lost \cup Ahead' \in SUBSET Threads
    BY DEF Ahead
  <2> QED BY <2>1, FewThreads
<1>9. Len(frames') = Cardinality(MessageAt(events')) + Cardinality(lost \cup Ahead')
  <2>1. Len(frames') = Cardinality(MessageAt(events)) + Cardinality(lost \cup Ahead)
    BY <1>1, <1>2 DEF Accounted
  <2> QED BY <1>5, <1>7, <1>8, <2>1
<1>10. Accounted(lost)'
  BY <1>6, <1>9 DEF Accounted
<1> QED BY <1>10 DEF Covered

\* Every step keeps the account.
LEMMA NextCovered == Shaped /\ Covered /\ [Next]_vars => Covered'
<1> SUFFICES ASSUME Shaped, Covered, [Next]_vars PROVE Covered'
  OBVIOUS
<1>0. pc \in [Threads -> Pcs] /\ event \in [Threads -> Hands]
  BY DEF Shaped, TypeOK, ThreadsOK, Hands
<1>1. CASE UNCHANGED vars
  BY <1>1, SameAccount DEF vars, log, Ahead
<1>2. ASSUME NEW t \in Threads, Call(t) PROVE Covered'
  <2>1. UNCHANGED <<events, frames, isActive>> /\ pc[t] = "idle"
    BY <1>2, CallTakes
  <2>2. PICK to \in Pcs, h \in Hands :
           /\ pc' = [pc EXCEPT ![t] = to] /\ event' = [event EXCEPT ![t] = h]
           /\ \/ to = "frame" /\ isActive
              \/ to \in {"check", "stop", "loadmin"} /\ h.type \notin Messages
    BY <1>2, CallTakes
  <2>3. \A u \in Threads : /\ pc'[u] = IF u = t THEN to ELSE pc[u]
                           /\ event'[u] = IF u = t THEN h ELSE event[u]
    BY <1>0, <2>2
  <2>4. Ahead' = Ahead
    BY <2>1, <2>2, <2>3 DEF Ahead
  <2> QED BY <2>1, <2>2, <2>3, <2>4, SameAccount
<1>3. ASSUME NEW t \in Threads, Continue(t), ~AppendFrame(t), ~Check(t), ~AppendEvent(t)
      PROVE  Covered'
  <2>1. UNCHANGED <<events, frames>> /\ (isActive' => isActive)
    BY <1>3 DEF Continue, Tally, Number, LoadStat, StoreStat, Deactivate, FinalTotal,
         FinalMessages, FinalRest, LoadMin, CasMin, LoadMax, CasMax, log
  <2>2. CASE Number(t)
    <3>1. /\ pc[t] = "number"
          /\ \A u \in Threads : pc'[u] = IF u = t THEN "append" ELSE pc[u]
          /\ \A u \in Threads : event'[u].type = event[u].type
      BY <1>0, <2>2 DEF Number, Goto, Hands
    <3>2. Ahead' = Ahead
      BY <3>1 DEF Ahead
    <3> QED BY <2>1, <3>1, <3>2, SameAccount
  <2>3. CASE ~Number(t)
    <3> DEFINE Recording == {"frame", "check", "number", "append"}
    <3>1. PICK from \in Pcs \ Recording, to \in Pcs : Goto(t, from, to) /\ (to \in Recording => FinalRest(t))
      <4>0. CASE StoreStat(t)
        BY <4>0, AfterFits DEF StoreStat, Pcs
      <4>1. CASE Tally(t) \/ LoadStat(t)
        BY <4>1 DEF Tally, LoadStat, Pcs
      <4>2. CASE Deactivate(t) \/ FinalTotal(t) \/ FinalMessages(t)
        BY <4>2 DEF Deactivate, FinalTotal, FinalMessages, Pcs
      <4>3. CASE FinalRest(t)
        BY <4>3 DEF FinalRest, Pcs
      <4>4. CASE LoadMin(t) \/ CasMin(t) \/ LoadMax(t) \/ CasMax(t)
        BY <4>4 DEF LoadMin, CasMin, LoadMax, CasMax, Pcs
      <4> QED BY <1>3, <2>3, <4>0, <4>1, <4>2, <4>3, <4>4 DEF Continue
    <3>2. pc[t] \notin Recording /\ \A u \in Threads : pc'[u] = IF u = t THEN to ELSE pc[u]
      BY <1>0, <3>1 DEF Goto
    <3>3. \A u \in Threads : \/ event'[u] = event[u]
                             \/ u = t /\ event'[u].type \notin Messages
      <4>1. CASE FinalRest(t)
        BY <1>0, <4>1 DEF FinalRest, NoEvent, Messages
      <4>2. CASE event' = event
        BY <4>2
      <4> QED BY <1>3, <2>3, <4>1, <4>2 DEF Continue, Tally, LoadStat, StoreStat, Deactivate,
                   FinalTotal, FinalMessages, LoadMin, CasMin, LoadMax, CasMax
    <3>4. FinalRest(t) => event'[t].type \notin Messages
      BY <1>0 DEF FinalRest, NoEvent, Messages
    <3>5. Ahead' = Ahead
      BY <3>1, <3>2, <3>3, <3>4 DEF Ahead
    <3> QED BY <2>1, <3>1, <3>2, <3>3, <3>4, <3>5, SameAccount
  <2> QED BY <2>2, <2>3
<1> QED BY <1>1, <1>2, <1>3, FrameAccounted, CheckAccounted, EventAccounted DEF Next

(***************************************************************************)
(* Every kept frame has its message event in the log, but for one of each  *)
(* goroutine: the one in hand, or the one in hand at Stop (RecordMessage,  *)
(* RecordEvent).                                                           *)
(***************************************************************************)
THEOREM FramesHaveEvents == Spec => []FramesCovered
<1>1. Init => Shaped /\ Covered
  BY InitShaped, InitCovered
<1>2. Shaped /\ Covered /\ [Next]_vars => (Shaped /\ Covered)'
  BY NextShaped, NextCovered
<1>3. Shaped /\ Covered => FramesCovered
  <2> SUFFICES ASSUME Shaped, Covered PROVE FramesCovered
    OBVIOUS
  <2>1. PICK lost \in SUBSET Threads : Accounted(lost)
    BY DEF Covered
  <2>2. Cardinality(lost \cup Ahead) <= Cardinality(Threads) /\ Cardinality(Threads) \in Nat
        /\ Cardinality(lost \cup Ahead) \in Nat
    BY Few, FewThreads
  <2>3. Cardinality(MessageAt(events)) \in Nat
    BY OneMoreMessage, Connect \in Records DEF Shaped, TypeOK, LogOK, Records, Connect, Types
  <2>4. Len(frames) - Cardinality(MessageAt(events)) <= Cardinality(Threads)
    BY <2>1, <2>2, <2>3 DEF Accounted
  <2> QED BY <2>4 DEF FramesCovered, MessageAt
<1> QED BY <1>1, <1>2, <1>3, PTL DEF Spec
=============================================================================
