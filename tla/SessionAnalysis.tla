-------------------------- MODULE SessionAnalysis ---------------------------
(***************************************************************************)
(* What internal/session computes from a recorded session: the message     *)
(* flows and network metrics of timeline.go and the assertions of          *)
(* assertions.go.                                                          *)
(*                                                                         *)
(* The session grows event by event, as the recorder's RecordEvent appends *)
(* them: the time is taken before the lock, so the events are not in time  *)
(* order, and a message's identity is the sequence number its recorder     *)
(* passed.  The recorder leaves Opcode and Duration of an event 0, so the  *)
(* order assertion looks at every receive (for opcode 0) and the latency   *)
(* assertion has no data.  Every session of up to MaxEvents events is      *)
(* analysed, at every later time.                                          *)
(*                                                                         *)
(* Left out: jitter, throughput, connection times, the texts of results.   *)
(***************************************************************************)
EXTENDS Integers, FiniteSets, Sequences, FiniteSetsExt, Functions

CONSTANTS
  SeqNums,     \* sequence numbers of messages
  Instants,    \* times at which something is recorded or analysed
  Durations,   \* durations of reconnects
  Patience,    \* age at which a message without an answer has timed out (30 s)
  MaxEvents    \* bound: length of a session

ASSUME AnalysisConstants ==
  /\ Instants \subseteq Nat \ {0}
  /\ Durations \subseteq Nat
  /\ Patience \in Nat /\ MaxEvents \in Nat

VARIABLES
  log,     \* session.Events
  clock    \* when the analysis runs

analysisVars == <<log, clock>>

AnalysisInit == log = <<>> /\ clock \in Instants

\* seq: the sequence number of a message; took: the duration of a reconnect.
RecordEvent(type, seq, took, t) ==
  log' = Append(log, [type |-> type, seq |-> seq, took |-> took, at |-> t])

RecordMessage(t) ==
  \E seq \in SeqNums, type \in {"MESSAGE_SEND", "MESSAGE_RECEIVE"} :
    RecordEvent(type, seq, 0, t)
RecordReconnect(t) == \E took \in Durations : RecordEvent("RECONNECT", 0, took, t)
RecordError(t) == RecordEvent("ERROR", 0, 0, t)

\* One of the goroutines that took its time t some time ago appends now.
Record ==
  /\ Len(log) < MaxEvents
  /\ \E t \in Instants :
       t <= clock /\ (RecordMessage(t) \/ RecordReconnect(t) \/ RecordError(t))
  /\ UNCHANGED clock

TimePasses ==
  /\ \E t \in Instants : t > clock /\ clock' = t
  /\ UNCHANGED log

AnalysisNext == Record \/ TimePasses

AnalysisSpec == AnalysisInit /\ [][AnalysisNext]_analysisVars

\* The positions of the events of these types.
EventsOf(events, types) == {i \in DOMAIN events : events[i].type \in types}

-----------------------------------------------------------------------------
(* AnalyzeMessageFlows.                                                    *)

MessageTypes == {"MESSAGE_SEND", "MESSAGE_RECEIVE"}
FlowIds == {log[i].seq : i \in EventsOf(log, MessageTypes)}

\* A flow that has not been seen; time 0 is the zero time.
NoFlow == [status |-> "", send |-> 0, receive |-> 0, latency |-> 0]

\* One event of a flow.  Slip: a receive alone counts as received.
FlowAfterSlip(flow, e) ==
  IF e.type = "MESSAGE_SEND"
  THEN [flow EXCEPT !.send = e.at, !.status = "sent"]
  ELSE [flow EXCEPT !.receive = e.at, !.status = "received",
                    !.latency = e.at - flow.send]
FlowAfter(flow, e) ==
  IF e.type = "MESSAGE_SEND"
  THEN [flow EXCEPT !.send = e.at, !.status = "sent"]
  ELSE IF flow.send # 0
  THEN [flow EXCEPT !.receive = e.at, !.status = "received",
                    !.latency = e.at - flow.send]
  ELSE [flow EXCEPT !.receive = e.at]

\* The map of flows after the first n events.
FlowMapAfter(map, e) ==
  [seq \in SeqNums |->
     IF e.type \in MessageTypes /\ e.seq = seq THEN FlowAfter(map[seq], e) ELSE map[seq]]
FlowMap ==
  LET after[n \in 0..Len(log)] ==
        IF n = 0 THEN [seq \in SeqNums |-> NoFlow] ELSE FlowMapAfter(after[n - 1], log[n])
  IN  after[Len(log)]

Flow(seq) ==
  LET flow == FlowMap[seq] IN
  IF flow.status = "sent" /\ clock - flow.send > Patience
  THEN [flow EXCEPT !.status = "timeout"] ELSE flow

-----------------------------------------------------------------------------
(* CalculateNetworkMetrics.                                                *)

\* sort.Slice of the elements of S by their keys: the keys in order.
Increasing(S, key) ==
  LET n == Cardinality(S)
      order == CHOOSE p \in Bijection(1..n, S) :
                 \A i, j \in 1..n : i < j => key[p[i]] <= key[p[j]]
  IN  [i \in 1..n |-> key[order[i]]]

WithStatus(status) == {seq \in FlowIds : Flow(seq).status = status}

\* The answered messages that took some time, as far as recorded.
Answered == {seq \in WithStatus("received") : Flow(seq).latency > 0}
Latencies == Increasing(Answered, [seq \in Answered |-> Flow(seq).latency])

\* The element at index len * p / 100, counted from 0.  Slip: of len - 1.
PercentileSlip(s, p) == s[((Len(s) - 1) * p) \div 100 + 1]
Percentile(s, p) == s[(Len(s) * p) \div 100 + 1]

AverageLatency(s) ==
  LET total[i \in 0..Len(s)] == IF i = 0 THEN 0 ELSE total[i - 1] + s[i]
  IN  total[Len(s)] \div Len(s)

\* Numerator and denominator of the packet loss; no flow has status "error".
\* Slip: whatever has no answer yet is lost.
LostMessagesSlip == Cardinality(FlowIds \ WithStatus("received"))
LostMessages == Cardinality(WithStatus("timeout"))
TotalMessages == Cardinality(FlowIds)

-----------------------------------------------------------------------------
(* assertions.go: whether each assertion passes on a session.              *)

StrictlyIncreasing(s) == \A i \in 1..(Len(s) - 1) : s[i] < s[i + 1]

\* The receives are sorted by time before their order is looked at.  Slip:
\* they are taken as recorded.
MessageOrderAssertionSlip(events, min, max) ==
  LET received == EventsOf(events, {"MESSAGE_RECEIVE"})
      place == Increasing(received, [i \in received |-> i])
  IN  /\ Cardinality(received) >= min
      /\ max > 0 => Cardinality(received) <= max
      /\ StrictlyIncreasing([k \in 1..Cardinality(received) |-> events[place[k]].at])
MessageOrderAssertion(events, min, max) ==
  LET received == EventsOf(events, {"MESSAGE_RECEIVE"})
  IN  /\ Cardinality(received) >= min
      /\ max > 0 => Cardinality(received) <= max
      /\ StrictlyIncreasing(Increasing(received, [i \in received |-> events[i].at]))

ReconnectAssertion(events, maxCount, maxDuration) ==
  LET reconnects == EventsOf(events, {"RECONNECT"}) IN
  /\ Cardinality(reconnects) <= maxCount
  /\ \A i \in reconnects : events[i].took <= maxDuration

\* maxRate in per cent.
ErrorRateAssertion(events, maxRate) ==
  /\ events # <<>>
  /\ Cardinality(EventsOf(events, {"ERROR"})) * 100 <= maxRate * Len(events)

-----------------------------------------------------------------------------
(* Properties.                                                             *)

(***************************************************************************)
(* The one pass over the log says of every message what its own events     *)
(* say: it was received if a receive is the last of them and a send came   *)
(* before, and its latency is the time from the last send to that receive; *)
(* it is sent or timed out if a send is the last; and it has no status if  *)
(* it was never sent (AnalyzeMessageFlows).                                *)
(***************************************************************************)
FlowsAgree ==
  \A seq \in FlowIds :
    LET own == {i \in EventsOf(log, MessageTypes) : log[i].seq = seq}
        sends == own \cap EventsOf(log, {"MESSAGE_SEND"})
        final == log[Max(own)]
        flow == Flow(seq)
    IN  IF sends = {} THEN flow.status = ""
        ELSE IF final.type = "MESSAGE_SEND"
        THEN flow.status = IF clock - final.at > Patience THEN "timeout" ELSE "sent"
        ELSE /\ flow.status = "received"
             /\ flow.latency = final.at - log[Max(sends)].at

\* Of n latencies at least p per cent are no larger than the p-th percentile.
Ranks == {50, 90, 95, 99}
RanksCover ==
  \A n \in 1..210 : \A p \in Ranks : Percentile([i \in 1..n |-> i], p) * 100 >= p * n

(***************************************************************************)
(* The percentiles are what they are called: at least p per cent of the    *)
(* latencies are no larger than the p-th percentile, whatever their        *)
(* number; percentiles grow with p and the average lies between the least  *)
(* and the largest latency; and the index stays inside the slice           *)
(* (CalculateNetworkMetrics).                                              *)
(***************************************************************************)
PercentilesCover ==
  /\ RanksCover
  /\ LET s == Latencies
         covered(v) == Cardinality({i \in 1..Len(s) : s[i] <= v})
     IN  s # <<>> =>
           /\ \A p \in Ranks : covered(Percentile(s, p)) * 100 >= p * Len(s)
           /\ \A p, q \in Ranks : p < q => Percentile(s, p) <= Percentile(s, q)
           /\ s[1] <= AverageLatency(s) /\ AverageLatency(s) <= s[Len(s)]

Own(seq, type) == {i \in EventsOf(log, {type}) : log[i].seq = seq}
Sends(seq) == Own(seq, "MESSAGE_SEND")
Receives(seq) == Own(seq, "MESSAGE_RECEIVE")

\* By the recorded times the last send is overdue, and no answer came at or
\* after it.
Lost(seq) ==
  \E i \in Sends(seq) :
    /\ clock - log[i].at > Patience
    /\ \A j \in Sends(seq) : log[j].at <= log[i].at
    /\ \A j \in Receives(seq) : log[j].at < log[i].at

\* A send and another event of the message stand in the log in the other
\* order than they took place: their goroutines took the time in one order
\* and the recorder's lock in the other.
Raced(seq) ==
  \E i \in Sends(seq) :
    \/ \E j \in Sends(seq) \cup Receives(seq) : i < j /\ log[j].at < log[i].at
    \/ \E j \in Receives(seq) : j < i /\ log[j].at >= log[i].at

(***************************************************************************)
(* The loss that is reported is that of the recorded times, whatever the   *)
(* order of the log, but for the messages whose send raced another of      *)
(* their events: such a message may be counted although it was answered,   *)
(* because its answer entered the log before its send, or not be counted   *)
(* although its last send had no answer.  Every other message is counted   *)
(* exactly if it is lost (CalculateNetworkMetrics, AnalyzeMessageFlows).   *)
(***************************************************************************)
LossExplained ==
  LET lost == {seq \in FlowIds : Lost(seq)}
      raced == {seq \in FlowIds : Raced(seq)}
  IN  /\ Cardinality(lost \ raced) <= LostMessages
      /\ LostMessages <= Cardinality(lost \cup raced)

\* The log with its i-th and next event in the other order.
Exchanged(i) == [log EXCEPT ![i] = log[i + 1], ![i + 1] = log[i]]

(***************************************************************************)
(* A verdict does not depend on which of two goroutines got the recorder's *)
(* lock first: an assertion says the same of the log with any two          *)
(* neighbours exchanged, and hence of every order of the same events       *)
(* (the Assert methods).                                                   *)
(***************************************************************************)
VerdictsIgnoreRace ==
  \A i \in 1..(Len(log) - 1) :
    LET other == Exchanged(i) IN
    /\ \A min, max \in 0..2 :
         MessageOrderAssertion(log, min, max) <=> MessageOrderAssertion(other, min, max)
    /\ \A n \in 0..2, d \in Durations :
         ReconnectAssertion(log, n, d) <=> ReconnectAssertion(other, n, d)
    /\ \A r \in {0, 25, 50} : ErrorRateAssertion(log, r) <=> ErrorRateAssertion(other, r)

=============================================================================
