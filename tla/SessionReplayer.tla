-------------------------- MODULE SessionReplayer --------------------------
(***************************************************************************)
(* The replayer of internal/session/replayer.go: Play starts a goroutine   *)
(* that walks through the recorded events in time order and hands them to  *)
(* the callbacks; Pause, Resume and Stop are called by other goroutines.   *)
(*                                                                         *)
(* The fields isPlaying and isPaused are tested without the mutex and set  *)
(* under it, so the test and the update are two steps.  resumeCh is        *)
(* unbuffered and sent to without blocking: a signal is lost unless a loop *)
(* is waiting for it.  pauseCh has no receiver at all and is left out, as  *)
(* are the delay statistics and SeekTo, whose currentTime Play overwrites. *)
(***************************************************************************)
EXTENDS Integers, Sequences, FiniteSets

CONSTANTS
  Users,          \* goroutines that call Play, Pause, Resume and Stop
  Loops,          \* replay goroutines: as many as Play may start
  N,              \* length of the recording
  Times,          \* timestamps of its events
  PauseOnError,   \* ReplayConfig.PauseOnError
  MaxPauses       \* bound: no Pause begins once PauseCount is this high

ASSUME ReplayerAssumption ==
  /\ N \in Nat /\ MaxPauses \in Nat /\ Times \subseteq Int
  /\ PauseOnError \in BOOLEAN

Events == 1..N

VARIABLES
  time,        \* timestamps, in the order of recording
  filtered,    \* events the filter rejects
  isPlaying, isPaused,
  stopClosed,  \* stopCh is closed (once, by stopOnce)
  cancelled,   \* ctx is done
  pauses,      \* stats.PauseCount
  upc,         \* where each user is in its call
  lpc,         \* where each loop is
  done,        \* events each loop is through with
  handed,      \* events each loop handed to the callbacks, in order (history)
  extra        \* how many of them since isPaused was last set (history)

recording == <<time, filtered>>
control   == <<isPlaying, isPaused, stopClosed, cancelled, pauses>>
loops     == <<lpc, done, handed>>
vars      == <<recording, control, upc, loops, extra>>

UserPcs == {"idle", "play", "launch", "pause", "resume", "signal", "halt", "cancel"}

LoopPcs == {"off", "top", "peek", "seen", "wait", "woken", "handle", "failed", "pausing", "delay", "exit", "close", "done"}

Init ==
  /\ time \in [Events -> Times] /\ filtered \in SUBSET Events
  /\ isPlaying = FALSE /\ isPaused = FALSE
  /\ stopClosed = FALSE /\ cancelled = FALSE /\ pauses = 0
  /\ upc = [u \in Users |-> "idle"]
  /\ lpc = [l \in Loops |-> "off"]
  /\ done = [l \in Loops |-> 0]
  /\ handed = [l \in Loops |-> <<>>]
  /\ extra = [l \in Loops |-> 0]

-----------------------------------------------------------------------------
(* sortEventsByTime: two loops over the positions i < j, which exchange    *)
(* what stands at i and j when it is out of order.                         *)

Exchange(q, i, j) == [q EXCEPT ![i] = q[j], ![j] = q[i]]

\* Slip: the inner loop ends before the last position.
OrderedButLast(q, i, j) ==
  IF j < N /\ time[q[i]] > time[q[j]] THEN Exchange(q, i, j) ELSE q

Ordered(q, i, j) == IF time[q[i]] > time[q[j]] THEN Exchange(q, i, j) ELSE q

\* The inner loop: position i against each later one.
Pass(q, i) ==
  LET row[j \in i..N] == IF j = i THEN q ELSE Ordered(row[j - 1], i, j)
  IN  row[N]

\* The outer loop; the pass of the last position has nothing to compare.
Sorted ==
  LET sorting[i \in 0..N] == IF i = 0 THEN [k \in Events |-> k] ELSE Pass(sorting[i - 1], i)
  IN  sorting[N]

-----------------------------------------------------------------------------
User(u, from, to) == upc[u] = from /\ upc' = [upc EXCEPT ![u] = to]

Loop(l, from, to) == lpc[l] = from /\ lpc' = [lpc EXCEPT ![l] = to]

SetPaused(b) ==
  /\ isPaused' = b
  /\ extra' = [l \in Loops |-> 0]

(* Play                                                                    *)

\* Bound: every Play that has begun finds a loop to start.
LoopsLeft ==
  Cardinality({v \in Users : upc[v] \in {"play", "launch"}}) < Cardinality({l \in Loops : lpc[l] = "off"})

PlayCheck(u) ==
  /\ ~isPlaying /\ LoopsLeft
  /\ User(u, "idle", "play")
  /\ UNCHANGED <<recording, control, loops, extra>>

PlaySet(u) ==
  /\ User(u, "play", "launch")
  /\ isPlaying' = TRUE
  /\ SetPaused(FALSE)
  /\ UNCHANGED <<recording, stopClosed, cancelled, pauses, loops>>

Launch(u) ==
  /\ User(u, "launch", "idle")
  /\ \E l \in Loops : Loop(l, "off", "top")
  /\ UNCHANGED <<recording, control, done, handed, extra>>

(* Pause, by a user or by the loop after a callback failed                 *)

PauseCheck(u) ==
  /\ isPlaying /\ ~isPaused /\ pauses < MaxPauses
  /\ User(u, "idle", "pause")
  /\ UNCHANGED <<recording, control, loops, extra>>

Pausing ==
  /\ pauses' = pauses + 1
  /\ isPaused' = TRUE
  /\ extra' = IF isPaused THEN extra ELSE [l \in Loops |-> 0]

PauseSet(u) ==
  /\ User(u, "pause", "idle")
  /\ Pausing
  /\ UNCHANGED <<recording, isPlaying, stopClosed, cancelled, loops>>

(* Resume                                                                  *)

ResumeCheck(u) ==
  /\ isPlaying /\ isPaused
  /\ User(u, "idle", "resume")
  /\ UNCHANGED <<recording, control, loops, extra>>

ResumeSet(u) ==
  /\ User(u, "resume", "signal")
  /\ SetPaused(FALSE)
  /\ UNCHANGED <<recording, isPlaying, stopClosed, cancelled, pauses, loops>>

ResumeSignal(u) ==
  /\ User(u, "signal", "idle")
  /\ IF \E l \in Loops : lpc[l] = "wait"
     THEN \E l \in Loops : Loop(l, "wait", "woken")
     ELSE lpc' = lpc
  /\ UNCHANGED <<recording, control, done, handed, extra>>

(* Stop                                                                    *)

StopSet(u) ==
  /\ isPlaying
  /\ User(u, "idle", "halt")
  /\ isPlaying' = FALSE
  /\ SetPaused(FALSE)
  /\ UNCHANGED <<recording, stopClosed, cancelled, pauses, loops>>

StopClose(u) ==
  /\ User(u, "halt", "cancel")
  /\ stopClosed' = TRUE
  /\ UNCHANGED <<recording, isPlaying, isPaused, cancelled, pauses, loops, extra>>

StopCancel(u) ==
  /\ User(u, "cancel", "idle")
  /\ cancelled' = TRUE
  /\ UNCHANGED <<recording, isPlaying, isPaused, stopClosed, pauses, loops, extra>>

-----------------------------------------------------------------------------
(* replayLoop                                                              *)

Top(l) ==
  /\ Loop(l, "top", IF cancelled \/ done[l] = N THEN "exit" ELSE "peek")
  /\ UNCHANGED <<recording, control, upc, done, handed, extra>>

\* Slip: the pause is looked at only before the first event.
PeekOnce(l) ==
  /\ Loop(l, "peek", IF isPaused /\ done[l] = 0 THEN "seen" ELSE "handle")
  /\ UNCHANGED <<recording, control, upc, done, handed, extra>>

Peek(l) ==
  /\ Loop(l, "peek", IF isPaused THEN "seen" ELSE "handle")
  /\ UNCHANGED <<recording, control, upc, done, handed, extra>>

\* Between reading isPaused and waiting no signal gets through.
Block(l) ==
  /\ Loop(l, "seen", "wait")
  /\ UNCHANGED <<recording, control, upc, done, handed, extra>>

\* Slip: only a replay still marked as paused listens, and Stop takes the mark away.
WaitEndsWhilePaused(l) ==
  /\ isPaused /\ (cancelled \/ stopClosed)
  /\ Loop(l, "wait", "exit")
  /\ UNCHANGED <<recording, control, upc, done, handed, extra>>

WaitEnds(l) ==
  /\ cancelled \/ stopClosed
  /\ Loop(l, "wait", "exit")
  /\ UNCHANGED <<recording, control, upc, done, handed, extra>>

\* The loop itself clears isPaused after the signal.
Woken(l) ==
  /\ Loop(l, "woken", "handle")
  /\ SetPaused(FALSE)
  /\ UNCHANGED <<recording, isPlaying, stopClosed, cancelled, pauses, upc, done, handed>>

\* Slip: events are taken in the order of recording.
Recorded(l) == done[l] + 1

\* The event in hand, events[done + 1].
Current(l) == Sorted[done[l] + 1]

Skip(l) ==
  /\ Loop(l, "handle", "top")
  /\ Current(l) \in filtered
  /\ done' = [done EXCEPT ![l] = @ + 1]
  /\ UNCHANGED <<recording, control, upc, handed, extra>>

\* Slip: an event whose callback failed is handed over again.
HandleAgain(l) ==
  /\ \/ Loop(l, "handle", "delay") /\ done' = [done EXCEPT ![l] = @ + 1]
     \/ PauseOnError /\ Loop(l, "handle", "failed") /\ done' = done
  /\ Current(l) \notin filtered
  /\ Len(handed[l]) <= N
  /\ handed' = [handed EXCEPT ![l] = Append(@, Current(l))]
  /\ extra' = IF isPaused THEN [extra EXCEPT ![l] = @ + 1] ELSE extra
  /\ UNCHANGED <<recording, control, upc>>

\* The callbacks run; one of them may fail.
Handle(l) ==
  /\ \/ Loop(l, "handle", "delay")
     \/ PauseOnError /\ Loop(l, "handle", "failed")
  /\ Current(l) \notin filtered
  /\ done' = [done EXCEPT ![l] = @ + 1]
  /\ handed' = [handed EXCEPT ![l] = Append(@, Current(l))]
  /\ extra' = IF isPaused THEN [extra EXCEPT ![l] = @ + 1] ELSE extra
  /\ UNCHANGED <<recording, control, upc>>

\* r.Pause() inside the loop
FailureChecks(l) ==
  /\ Loop(l, "failed", IF isPlaying /\ ~isPaused /\ pauses < MaxPauses THEN "pausing" ELSE "delay")
  /\ UNCHANGED <<recording, control, upc, done, handed, extra>>

FailurePauses(l) ==
  /\ Loop(l, "pausing", "delay")
  /\ Pausing
  /\ UNCHANGED <<recording, isPlaying, stopClosed, cancelled, upc, done, handed>>

Delay(l) ==
  /\ Loop(l, "delay", "top") \/ (cancelled /\ Loop(l, "delay", "exit"))
  /\ UNCHANGED <<recording, control, upc, done, handed, extra>>

Exit(l) ==
  /\ Loop(l, "exit", "close")
  /\ isPlaying' = FALSE
  /\ UNCHANGED <<recording, isPaused, stopClosed, cancelled, pauses, upc, done, handed, extra>>

Close(l) ==
  /\ Loop(l, "close", "done")
  /\ stopClosed' = TRUE
  /\ UNCHANGED <<recording, isPlaying, isPaused, cancelled, pauses, upc, done, handed, extra>>

-----------------------------------------------------------------------------
Call(u) == PlayCheck(u) \/ PauseCheck(u) \/ ResumeCheck(u) \/ StopSet(u)

Finish(u) ==
  \/ PlaySet(u) \/ Launch(u) \/ PauseSet(u) \/ ResumeSet(u) \/ ResumeSignal(u)
  \/ StopClose(u) \/ StopCancel(u)

Replay(l) ==
  \/ Top(l) \/ Peek(l) \/ Block(l) \/ WaitEnds(l) \/ Woken(l) \/ Skip(l) \/ Handle(l)
  \/ FailureChecks(l) \/ FailurePauses(l) \/ Delay(l) \/ Exit(l) \/ Close(l)

Next ==
  \/ \E u \in Users : Call(u) \/ Finish(u)
  \/ \E l \in Loops : Replay(l)

Spec == Init /\ [][Next]_vars

\* A goroutine that can run does; nobody has to call anything.
Fairness ==
  /\ \A u \in Users : WF_vars(Finish(u))
  /\ \A l \in Loops : WF_vars(Replay(l))

FairSpec == Spec /\ Fairness

-----------------------------------------------------------------------------
(* Type correctness: shapes of every variable; no loop hands over more     *)
(* events than it is through with (replayLoop).                            *)
TypeOK ==
  /\ time \in [Events -> Times] /\ filtered \subseteq Events
  /\ isPlaying \in BOOLEAN /\ isPaused \in BOOLEAN
  /\ stopClosed \in BOOLEAN /\ cancelled \in BOOLEAN /\ pauses \in Nat
  /\ upc \in [Users -> UserPcs] /\ lpc \in [Loops -> LoopPcs]
  /\ done \in [Loops -> 0..N] /\ handed \in [Loops -> Seq(Events)]
  /\ \A l \in Loops : Len(handed[l]) <= done[l]
  /\ extra \in [Loops -> Nat]

(***************************************************************************)
(* While the replay is paused a loop hands over at most the event it had   *)
(* in hand: the pause is seen before the next one, however Pause, Resume   *)
(* and the loop interleave (Pause, replayLoop).                            *)
(***************************************************************************)
PausedMeansStill == \A l \in Loops : isPaused => extra[l] <= 1

(***************************************************************************)
(* A loop hands over the events it does not skip in the order of their     *)
(* timestamps, each of them once (sortEventsByTime, replayLoop).           *)
(***************************************************************************)
ReplayInTimeOrder ==
  \A l \in Loops : \A i, j \in DOMAIN handed[l] :
    i < j => /\ time[handed[l][i]] <= time[handed[l][j]]
             /\ handed[l][i] # handed[l][j]

(***************************************************************************)
(* Stop ends the replay, also one that is paused or whose resume signal    *)
(* was lost (Stop, replayLoop).                                            *)
(***************************************************************************)
StopEndsReplay ==
  \A u \in Users : upc[u] = "halt" ~> \A l \in Loops : lpc[l] \in {"off", "done"}

(***************************************************************************)
(* Resume resumes: a loop does not go on waiting when the replay is no     *)
(* longer paused (Resume sends the signal that wakes the loop).            *)
(***************************************************************************)
ResumeWakes ==
  \A l \in Loops : (lpc[l] = "wait" /\ ~isPaused) ~> (lpc[l] # "wait" \/ isPaused)

=============================================================================
