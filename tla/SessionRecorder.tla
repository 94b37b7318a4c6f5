-------------------------- MODULE SessionRecorder --------------------------
(***************************************************************************)
(* The recorder of internal/session/recorder.go: goroutines record         *)
(* messages, events and latencies into one log while another stops it.     *)
(*                                                                         *)
(* isActive is an atomic tested on entry and not held: a call that passed  *)
(* the test goes on after Stop.  The log is guarded by the mutex, the      *)
(* counters and the latency extremes are atomics, and the fields of stats  *)
(* are incremented by updateStats with no lock at all, a load and a store. *)
(* Payloads, timestamps, byte counts and the latency average are left out. *)
(***************************************************************************)
EXTENDS Integers, Sequences, FiniteSets

CONSTANTS
  Threads,     \* goroutines that call the recorder
  Latencies,   \* latencies they measure
  Directions,  \* directions of the messages they record
  MaxCalls     \* bound: calls made in all

ASSUME RecorderAssumption ==
  /\ IsFiniteSet(Threads) /\ Latencies \subseteq Nat \ {0}
  /\ Directions \subseteq {"send", "receive"} /\ MaxCalls \in Nat

Messages == {"send", "receive"}
Counted  == Messages \cup {"reconnect", "error"}     \* the types updateStats counts
Types    == Counted \cup {"connect", "other", "close", "disconnect"}
Figures  == Counted \cup {"total"}                   \* fields of stats

VARIABLES
  isActive,
  eventCounter,                    \* atomic
  events, frames,                  \* under mu
  messageCounter, otherCounters,   \* atomics: messages; reconnects and errors
  stats,                           \* unsynchronised
  minLatency, maxLatency,          \* atomics, 0 until something is measured
  pc, event, reg,                  \* per goroutine: position, event or latency in hand, value loaded
  measured,                        \* latencies RecordLatency was called with (history)
  calls                            \* calls made so far

log      == <<eventCounter, events, frames>>
counters == <<messageCounter, otherCounters>>
extremes == <<minLatency, maxLatency, measured>>
vars     == <<isActive, log, counters, stats, extremes, pc, event, reg, calls>>

Pcs == {"idle", "frame", "check", "number", "append", "load", "store", "tally", "stop",
        "total", "sent", "received", "rest", "loadmin", "casmin", "loadmax", "casmax"}

NoEvent == [id |-> 0, type |-> "other", latency |-> 0]

Connect == [id |-> 1, type |-> "connect"]

Init ==
  /\ isActive = TRUE
  /\ eventCounter = 1 /\ events = <<Connect>> /\ frames = <<>>
  /\ messageCounter = 0 /\ otherCounters = [k \in {"reconnect", "error"} |-> 0]
  /\ stats = [f \in Figures |-> 0]
  /\ minLatency = 0 /\ maxLatency = 0 /\ measured = {}
  /\ pc = [t \in Threads |-> "idle"]
  /\ event = [t \in Threads |-> NoEvent]
  /\ reg = [t \in Threads |-> 0]
  /\ calls = 0

-----------------------------------------------------------------------------
Goto(t, from, to) == pc[t] = from /\ pc' = [pc EXCEPT ![t] = to]

\* A call that gets past its first test goes to a position with an event of some type.
Begin(t, to, type) ==
  /\ calls < MaxCalls /\ calls' = calls + 1
  /\ Goto(t, "idle", to)
  /\ event' = [event EXCEPT ![t] = [NoEvent EXCEPT !.type = type]]
  /\ reg' = reg

(* RecordMessage                                                           *)

\* Slip: the frame is kept whether the recorder is active or not.
MessageCallKeeps(t) ==
  /\ \E type \in Directions : Begin(t, "frame", type)
  /\ UNCHANGED <<isActive, log, counters, stats, extremes>>

MessageCall(t) ==
  /\ isActive
  /\ \E type \in Directions : Begin(t, "frame", type)
  /\ UNCHANGED <<isActive, log, counters, stats, extremes>>

AppendFrame(t) ==
  /\ Goto(t, "frame", "check")
  /\ frames' = Append(frames, event[t].type)
  /\ UNCHANGED <<isActive, eventCounter, events, counters, stats, extremes, event, reg, calls>>

Tally(t) ==
  /\ Goto(t, "tally", "idle")
  /\ messageCounter' = messageCounter + 1
  /\ UNCHANGED <<isActive, log, otherCounters, stats, extremes, event, reg, calls>>

(* RecordReconnect and RecordError count even when nothing is recorded.    *)

TroubleCall(t) ==
  \E type \in {"reconnect", "error"} :
    /\ Begin(t, "check", type)
    /\ otherCounters' = [otherCounters EXCEPT ![type] = @ + 1]
    /\ UNCHANGED <<isActive, log, messageCounter, stats, extremes>>

(* RecordEvent by the user, and RecordClose, which records and stops.      *)

EventCall(t) ==
  /\ \E type \in {"other", "close"} : Begin(t, "check", type)
  /\ UNCHANGED <<isActive, log, counters, stats, extremes>>

(* RecordEvent                                                             *)

\* Where the caller of RecordEvent goes on.
After(t) ==
  CASE event[t].type \in Messages -> "tally"
    [] event[t].type = "close"    -> "stop"
    [] OTHER                      -> "idle"

Check(t) ==
  /\ Goto(t, "check", IF isActive THEN "number" ELSE After(t))
  /\ UNCHANGED <<isActive, log, counters, stats, extremes, event, reg, calls>>

\* Slip: the number is read off the counter and the counter left as it is.
NumberUncounted(t) ==
  /\ Goto(t, "number", "append")
  /\ event' = [event EXCEPT ![t].id = eventCounter + 1]
  /\ UNCHANGED <<isActive, log, counters, stats, extremes, reg, calls>>

\* Slip: an event is numbered by the length of the log, without a counter of its own.
NumberByLog(t) ==
  /\ Goto(t, "number", "append")
  /\ eventCounter' = eventCounter + 1
  /\ event' = [event EXCEPT ![t].id = Len(events) + 1]
  /\ UNCHANGED <<isActive, events, frames, counters, stats, extremes, reg, calls>>

Number(t) ==
  /\ Goto(t, "number", "append")
  /\ eventCounter' = eventCounter + 1
  /\ event' = [event EXCEPT ![t].id = eventCounter + 1]
  /\ UNCHANGED <<isActive, events, frames, counters, stats, extremes, reg, calls>>

AppendEvent(t) ==
  /\ Goto(t, "append", IF event[t].type \in Counted THEN "load" ELSE After(t))
  /\ events' = Append(events, [id |-> event[t].id, type |-> event[t].type])
  /\ UNCHANGED <<isActive, eventCounter, frames, counters, stats, extremes, event, reg, calls>>

(* updateStats: stats.X++ is a load and a store.                           *)

LoadStat(t) ==
  /\ Goto(t, "load", "store")
  /\ reg' = [reg EXCEPT ![t] = stats[event[t].type]]
  /\ UNCHANGED <<isActive, log, counters, stats, extremes, event, calls>>

StoreStat(t) ==
  /\ Goto(t, "store", After(t))
  /\ stats' = [stats EXCEPT ![event[t].type] = reg[t] + 1]
  /\ UNCHANGED <<isActive, log, counters, extremes, event, reg, calls>>

-----------------------------------------------------------------------------
(* Stop and calculateFinalStats                                            *)

StopCall(t) ==
  /\ Begin(t, "stop", "disconnect")
  /\ UNCHANGED <<isActive, log, counters, stats, extremes>>

\* Slip: the recorder stays active until its statistics are done.
StayActive(t) ==
  /\ IF isActive THEN Goto(t, "stop", "total") ELSE Goto(t, "stop", "idle")
  /\ isActive' = isActive
  /\ UNCHANGED <<log, counters, stats, extremes, event, reg, calls>>

Deactivate(t) ==
  /\ IF isActive THEN Goto(t, "stop", "total") ELSE Goto(t, "stop", "idle")
  /\ isActive' = FALSE
  /\ UNCHANGED <<log, counters, stats, extremes, event, reg, calls>>

FinalTotal(t) ==
  /\ Goto(t, "total", "sent")
  /\ stats' = [stats EXCEPT !["total"] = Len(events)]
  /\ UNCHANGED <<isActive, log, counters, extremes, event, reg, calls>>

\* Both directions are given the count of all messages.
FinalMessages(t) ==
  /\ \/ Goto(t, "sent", "received") /\ stats' = [stats EXCEPT !["send"] = messageCounter]
     \/ Goto(t, "received", "rest") /\ stats' = [stats EXCEPT !["receive"] = messageCounter]
  /\ UNCHANGED <<isActive, log, counters, extremes, event, reg, calls>>

\* Then Stop records the DISCONNECT event, through the check of isActive.
FinalRest(t) ==
  /\ Goto(t, "rest", "check")
  /\ stats' = [f \in Figures |-> IF f \in {"reconnect", "error"} THEN otherCounters[f] ELSE stats[f]]
  /\ event' = [event EXCEPT ![t] = [NoEvent EXCEPT !.type = "disconnect"]]
  /\ UNCHANGED <<isActive, log, counters, extremes, reg, calls>>

-----------------------------------------------------------------------------
(* RecordLatency: two loops of load and compare-and-swap.                  *)

LatencyCall(t) ==
  /\ isActive
  /\ calls < MaxCalls /\ calls' = calls + 1
  /\ Goto(t, "idle", "loadmin")
  /\ \E v \in Latencies :
       /\ event' = [event EXCEPT ![t] = [NoEvent EXCEPT !.latency = v]]
       /\ measured' = measured \cup {v}
  /\ UNCHANGED <<isActive, log, counters, stats, minLatency, maxLatency, reg>>

LoadMin(t) ==
  /\ Goto(t, "loadmin",
          IF minLatency = 0 \/ event[t].latency < minLatency THEN "casmin" ELSE "loadmax")
  /\ reg' = [reg EXCEPT ![t] = minLatency]
  /\ UNCHANGED <<isActive, log, counters, stats, extremes, event, calls>>

\* Slip: the minimum is stored without comparing.
BlindMin(t) ==
  /\ Goto(t, "casmin", "loadmax")
  /\ minLatency' = event[t].latency
  /\ UNCHANGED <<isActive, log, counters, stats, maxLatency, measured, event, reg, calls>>

CasMin(t) ==
  /\ IF minLatency = reg[t]
     THEN Goto(t, "casmin", "loadmax") /\ minLatency' = event[t].latency
     ELSE Goto(t, "casmin", "loadmin") /\ minLatency' = minLatency
  /\ UNCHANGED <<isActive, log, counters, stats, maxLatency, measured, event, reg, calls>>

LoadMax(t) ==
  /\ Goto(t, "loadmax", IF event[t].latency > maxLatency THEN "casmax" ELSE "idle")
  /\ reg' = [reg EXCEPT ![t] = maxLatency]
  /\ UNCHANGED <<isActive, log, counters, stats, extremes, event, calls>>

\* Slip: after a failed swap the loop tries again with the value it has.
RetryMax(t) ==
  /\ IF maxLatency = reg[t]
     THEN Goto(t, "casmax", "idle") /\ maxLatency' = event[t].latency
     ELSE Goto(t, "casmax", "casmax") /\ maxLatency' = maxLatency
  /\ UNCHANGED <<isActive, log, counters, stats, minLatency, measured, event, reg, calls>>

CasMax(t) ==
  /\ IF maxLatency = reg[t]
     THEN Goto(t, "casmax", "idle") /\ maxLatency' = event[t].latency
     ELSE Goto(t, "casmax", "loadmax") /\ maxLatency' = maxLatency
  /\ UNCHANGED <<isActive, log, counters, stats, minLatency, measured, event, reg, calls>>

-----------------------------------------------------------------------------
Call(t) == MessageCall(t) \/ TroubleCall(t) \/ EventCall(t) \/ StopCall(t) \/ LatencyCall(t)

Continue(t) ==
  \/ AppendFrame(t) \/ Tally(t) \/ Check(t) \/ Number(t) \/ AppendEvent(t)
  \/ LoadStat(t) \/ StoreStat(t)
  \/ Deactivate(t) \/ FinalTotal(t) \/ FinalMessages(t) \/ FinalRest(t)
  \/ LoadMin(t) \/ CasMin(t) \/ LoadMax(t) \/ CasMax(t)

Next == \E t \in Threads : Call(t) \/ Continue(t)

Spec == Init /\ [][Next]_vars

\* A goroutine inside a call goes on; nobody has to call.
Fairness == \A t \in Threads : WF_vars(Continue(t))

FairSpec == Spec /\ Fairness

-----------------------------------------------------------------------------
LogOK ==
  /\ eventCounter \in Nat /\ events \in Seq([id : Nat, type : Types]) /\ frames \in Seq(Messages)
  /\ \A i \in DOMAIN events : events[i].id <= eventCounter

FiguresOK ==
  /\ isActive \in BOOLEAN
  /\ messageCounter \in Nat /\ otherCounters \in [{"reconnect", "error"} -> Nat]
  /\ stats \in [Figures -> Nat]
  /\ minLatency \in Nat /\ maxLatency \in Nat /\ measured \subseteq Latencies

ThreadsOK ==
  /\ pc \in [Threads -> Pcs] /\ reg \in [Threads -> Nat] /\ calls \in 0..MaxCalls
  /\ event \in [Threads -> [id : Nat, type : Types, latency : Nat]]
  /\ \A t \in Threads : event[t].id <= eventCounter

(* Type correctness: shapes of every variable; no event has a number that  *)
(* eventCounter has not reached (RecordEvent).                             *)
TypeOK == LogOK /\ FiguresOK /\ ThreadsOK

(***************************************************************************)
(* No two events of the log have the same number, although they may enter  *)
(* it in another order than they are numbered (RecordEvent).               *)
(***************************************************************************)
NumberedOnce ==
  \A i, j \in DOMAIN events : i # j => events[i].id # events[j].id

(***************************************************************************)
(* What Stop cuts off is at most one event of each goroutine: the total in *)
(* the final statistics misses no more than the events in flight when Stop *)
(* ran (Stop, RecordEvent, calculateFinalStats).                           *)
(***************************************************************************)
FinalTotalClose ==
  stats["total"] > 0 => Len(events) - stats["total"] <= Cardinality(Threads)

(***************************************************************************)
(* Every kept frame has its message event, but for the message each        *)
(* goroutine has in hand or had in hand at Stop (RecordMessage).           *)
(***************************************************************************)
FramesCovered ==
  Len(frames) - Cardinality({i \in DOMAIN events : events[i].type \in Messages})
    <= Cardinality(Threads)

(***************************************************************************)
(* When no RecordLatency is running, minLatency and maxLatency are the     *)
(* extremes of all latencies measured, whatever swaps failed on the way.   *)
(***************************************************************************)
LatencyExtremes ==
  (\A t \in Threads : pc[t] \notin {"loadmin", "casmin", "loadmax", "casmax"}) =>
    \A v \in measured : 0 < minLatency /\ minLatency <= v /\ v <= maxLatency

(***************************************************************************)
(* The compare-and-swap loops of RecordLatency end.                        *)
(***************************************************************************)
LatencyCallsEnd == \A t \in Threads : pc[t] = "loadmin" ~> pc[t] = "idle"

=============================================================================
