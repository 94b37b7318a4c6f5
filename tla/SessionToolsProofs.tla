------------------------ MODULE SessionToolsProofs -------------------------
(***************************************************************************)
(* Proofs about the replayer, the framing and the analysis of sessions.    *)
(*                                                                         *)
(* The replayer, for any number of users and loops and a recording of any  *)
(* length: a paused replay stands still, and events are handed over in the *)
(* order of their timestamps.  The second rests on the exchange sort being *)
(* one: its two loops are recursive functions, and what they compute is    *)
(* proved by the induction of module Recursion.                            *)
(*                                                                         *)
(* The framing, for bytes and header fields of any size, any bodies that   *)
(* fit and any chunks: what was encoded is decoded, and Next returns the   *)
(* frames that were sent and holds none back.                              *)
(*                                                                         *)
(* The analysis, for sessions of any length: a message's flow is what its  *)
(* own events say, percentiles and average are what they are called, the   *)
(* loss is that of the recorded times but for messages whose events raced, *)
(* and no verdict depends on the order in which neighbours entered the     *)
(* log.                                                                    *)
(***************************************************************************)
EXTENDS SessionReplayer, FrameDecoder, SessionAnalysis, Recursion,
        FiniteSetTheorems, SequenceTheorems, TLAPS

-----------------------------------------------------------------------------
(* The pause                                                               *)

(* The strengthening: a loop that has handed over an event since the pause *)
(* began must look at isPaused before it can have another one in hand, and *)
(* finds it set.                                                           *)

Shapes ==
  /\ lpc \in [Loops -> LoopPcs]
  /\ extra \in [Loops -> {0, 1}]

HeldBack(l) == extra[l] = 1 => isPaused /\ lpc[l] # "handle"

Still == Shapes /\ \A l \in Loops : HeldBack(l)

-----------------------------------------------------------------------------
\* Init: no loop has handed over anything.
LEMMA InitStill == Init => Still
BY DEF Init, Still, Shapes, HeldBack, LoopPcs

\* Steps that leave isPaused and the count alone move no loop that is held back into "handle".
LEMMA Moves ==
  ASSUME Still, isPaused' = isPaused, extra' = extra, NEW l \in Loops, NEW to \in LoopPcs,
         lpc' = [lpc EXCEPT ![l] = to], to = "handle" => ~isPaused
  PROVE  Still'
BY DEF Still, Shapes, HeldBack

\* Setting isPaused either way starts a new count.
LEMMA Resets ==
  ASSUME Still, extra' = [l \in Loops |-> 0], lpc' \in [Loops -> LoopPcs]
  PROVE  Still'
BY DEF Still, Shapes, HeldBack

\* Pause on a replay that is paused already leaves the count as it is.
LEMMA PausesAgain ==
  ASSUME Still, Pausing, lpc' = lpc \/ \E l \in Loops : lpc' = [lpc EXCEPT ![l] = "delay"]
  PROVE  Still'
<1>1. lpc' \in [Loops -> LoopPcs]
  BY DEF Still, Shapes, LoopPcs
<1>2. CASE isPaused
  BY <1>1, <1>2 DEF Still, Shapes, HeldBack, Pausing
<1>3. CASE ~isPaused
  BY <1>1, <1>3, Resets DEF Pausing
<1> QED BY <1>2, <1>3

\* Steps of the users.
LEMMA UserStill ==
  ASSUME Still, NEW u \in Users, Call(u) \/ Finish(u)
  PROVE  Still'
<1>1. CASE UNCHANGED <<lpc, extra, isPaused>>
  BY <1>1 DEF Still, Shapes, HeldBack
<1>2. CASE PlaySet(u) \/ ResumeSet(u) \/ StopSet(u)
  <2>1. lpc' = lpc /\ extra' = [l \in Loops |-> 0]
    BY <1>2 DEF PlaySet, ResumeSet, StopSet, SetPaused, loops
  <2> QED BY <2>1, Resets DEF Still, Shapes
<1>3. CASE Launch(u)
  <2>1. PICK l \in Loops : Loop(l, "off", "top")
    BY <1>3 DEF Launch
  <2> QED BY <2>1, <1>3, Moves DEF Launch, Loop, LoopPcs, control
<1>4. CASE PauseSet(u)
  BY <1>4, PausesAgain DEF PauseSet, loops
<1>5. CASE ResumeSignal(u)
  <2>1. CASE lpc' = lpc
    BY <2>1, <1>5, <1>1 DEF ResumeSignal, control
  <2>2. CASE \E l \in Loops : Loop(l, "wait", "woken")
    <3>1. PICK l \in Loops : Loop(l, "wait", "woken")
      BY <2>2
    <3> QED BY <3>1, <1>5, Moves DEF ResumeSignal, Loop, LoopPcs, control
  <2> QED BY <1>5, <2>1, <2>2 DEF ResumeSignal
<1>6. CASE PlayCheck(u) \/ PauseCheck(u) \/ ResumeCheck(u) \/ StopClose(u) \/ StopCancel(u)
  BY <1>6, <1>1 DEF PlayCheck, PauseCheck, ResumeCheck, StopClose, StopCancel, control, loops
<1> QED BY <1>2, <1>3, <1>4, <1>5, <1>6 DEF Call, Finish

\* Steps of the loops.
LEMMA LoopStill ==
  ASSUME Still, NEW l \in Loops, Replay(l)
  PROVE  Still'
<1>1. CASE Top(l) \/ Block(l) \/ WaitEnds(l) \/ Skip(l) \/ FailureChecks(l) \/ Delay(l)
           \/ Exit(l) \/ Close(l)
  <2>1. /\ isPaused' = isPaused /\ extra' = extra
        /\ \E to \in LoopPcs \ {"handle"} : lpc' = [lpc EXCEPT ![l] = to]
    BY <1>1 DEF Top, Block, WaitEnds, Skip, FailureChecks, Delay, Exit, Close, Loop, LoopPcs, control
  <2> QED BY <2>1, Moves
<1>2. CASE Peek(l)
  \* only a loop that finds isPaused cleared goes on to the event
  BY <1>2, Moves DEF Peek, Loop, LoopPcs, control
<1>3. CASE Woken(l)
  BY <1>3, Resets DEF Woken, Loop, LoopPcs, SetPaused, Still, Shapes
<1>4. CASE Handle(l)
  \* the loop in "handle" has handed over none yet
  <2>1. lpc[l] = "handle" /\ extra[l] = 0
    BY <1>4 DEF Handle, Loop, Still, Shapes, HeldBack
  <2>2. /\ isPaused' = isPaused
        /\ extra' = IF isPaused THEN [extra EXCEPT ![l] = 1] ELSE extra
    BY <1>4, <2>1 DEF Handle, control, Still, Shapes
  <2>3. \E to \in LoopPcs \ {"handle"} : lpc' = [lpc EXCEPT ![l] = to]
    BY <1>4 DEF Handle, Loop, LoopPcs
  <2> QED BY <2>1, <2>2, <2>3 DEF Still, Shapes, HeldBack
<1>5. CASE FailurePauses(l)
  BY <1>5, PausesAgain DEF FailurePauses, Loop
<1> QED BY <1>1, <1>2, <1>3, <1>4, <1>5 DEF Replay

\* The strengthening is kept by every step.
LEMMA NextStill == Still /\ [Next]_vars => Still'
<1> SUFFICES ASSUME Still, [Next]_vars PROVE Still'
  OBVIOUS
<1>1. CASE UNCHANGED vars
  BY <1>1 DEF Still, Shapes, HeldBack, vars, loops, control
<1>2. CASE Next
  BY <1>2, UserStill, LoopStill DEF Next
<1> QED BY <1>1, <1>2

(***************************************************************************)
(* While the replay is paused no loop hands over more than the event it    *)
(* had in hand (Pause, Resume, Stop, replayLoop), whatever the number of   *)
(* users, loops and events.                                                *)
(***************************************************************************)
THEOREM PausedStandsStill == Spec => []PausedMeansStill
<1>1. Still => PausedMeansStill
  BY DEF Still, Shapes, PausedMeansStill
<1> QED BY <1>1, InitStill, NextStill, PTL DEF Spec

-----------------------------------------------------------------------------
(* The sort                                                                *)

\* Orders the events may be in: every event once.
Orders == {q \in [Events -> Events] : \A a, b \in Events : a # b => q[a] # q[b]}

\* The first n positions are in time order and come before all later ones.
SortedUpTo(q, n) ==
  \A a \in 1..n : \A b \in (a + 1)..N : time[q[a]] <= time[q[b]]

\* Position i comes no later than those it was compared with.
LeastTo(q, i, j) == \A b \in (i + 1)..j : time[q[i]] <= time[q[b]]

Clocked == time \in [Events -> Int]

\* What one comparison of the sort does.
LEMMA OrderedOnce ==
  ASSUME Clocked, NEW q \in Orders, NEW i \in Events, NEW j \in (i + 1)..N,
         SortedUpTo(q, i - 1), LeastTo(q, i, j - 1)
  PROVE  /\ Ordered(q, i, j) \in Orders
         /\ SortedUpTo(Ordered(q, i, j), i - 1) /\ LeastTo(Ordered(q, i, j), i, j)
<1> DEFINE r == Ordered(q, i, j)
<1>0. q \in [Events -> Events] /\ i \in Events /\ j \in Events /\ i # j /\ N \in Nat
  BY ReplayerAssumption DEF Orders, Events
<1>1. CASE time[q[i]] > time[q[j]]
  <2>1. r = Exchange(q, i, j)
    BY <1>1 DEF Ordered
  <2>2. r \in [Events -> Events] /\ \A k \in Events : r[k] = IF k = i THEN q[j] ELSE IF k = j THEN q[i] ELSE q[k]
    BY <1>0, <2>1 DEF Exchange
  <2> HIDE DEF r
  <2>3. r \in Orders
    BY <1>0, <2>2 DEF Orders
  <2>4. SortedUpTo(r, i - 1)
    <3> SUFFICES ASSUME NEW a \in 1..(i - 1), NEW b \in (a + 1)..N PROVE time[r[a]] <= time[r[b]]
      BY DEF SortedUpTo
    <3>0. a \in Events /\ b \in Events /\ a # i /\ a # j
      BY <1>0 DEF Events
    <3>1. r[a] = q[a]
      BY <2>2, <3>0
    <3>2. i \in (a + 1)..N /\ j \in (a + 1)..N
      BY <1>0 DEF Events
    <3>3. \A c \in (a + 1)..N : time[q[a]] <= time[q[c]]
      BY DEF SortedUpTo
    <3> QED BY <2>2, <3>0, <3>1, <3>2, <3>3
  <2>5. LeastTo(r, i, j)
    <3> SUFFICES ASSUME NEW b \in (i + 1)..j PROVE time[r[i]] <= time[r[b]]
      BY DEF LeastTo
    <3>0. b \in Events /\ b # i
      BY <1>0 DEF Events
    <3>1. r[i] = q[j]
      BY <1>0, <2>2
    <3>2. CASE b = j
      <4>1. r[b] = q[i]
        BY <1>0, <2>2, <3>0, <3>2
      <4>2. time[q[i]] \in Int /\ time[q[j]] \in Int
        BY <1>0 DEF Clocked
      <4> QED BY <1>1, <3>1, <4>1, <4>2
    <3>3. CASE b # j
      <4>1. b \in (i + 1)..(j - 1) /\ r[b] = q[b]
        BY <1>0, <2>2, <3>0, <3>3 DEF Events
      <4>2. time[q[i]] <= time[q[b]]
        BY <4>1 DEF LeastTo
      <4>3. time[q[i]] \in Int /\ time[q[j]] \in Int /\ time[q[b]] \in Int
        BY <1>0, <3>0 DEF Clocked
      <4> QED BY <1>1, <3>1, <4>1, <4>2, <4>3
    <3> QED BY <3>2, <3>3
  <2> QED BY <2>3, <2>4, <2>5 DEF r
<1>2. CASE ~(time[q[i]] > time[q[j]])
  <2>1. r = q
    BY <1>2 DEF Ordered
  <2>2. time[q[i]] \in Int /\ time[q[j]] \in Int
    BY <1>0 DEF Clocked
  <2>3. LeastTo(q, i, j)
    <3> SUFFICES ASSUME NEW b \in (i + 1)..j PROVE time[q[i]] <= time[q[b]]
      BY DEF LeastTo
    <3>1. CASE b = j
      BY <1>2, <2>2, <3>1
    <3>2. CASE b # j
      <4>1. b \in (i + 1)..(j - 1)
        BY <1>0, <3>2 DEF Events
      <4> QED BY <4>1 DEF LeastTo
    <3> QED BY <3>1, <3>2
  <2> QED BY <2>1, <2>3
<1> QED BY <1>1, <1>2

\* An exchange or none keeps the events.
LEMMA OrderedType ==
  ASSUME NEW q \in [Events -> Events], NEW i \in Events, NEW j \in Events
  PROVE  Ordered(q, i, j) \in [Events -> Events]
BY DEF Ordered, Exchange

\* The inner loop as a function: its rows, from the order it starts with.
LEMMA PassRows ==
  ASSUME NEW q \in [Events -> Events], NEW i \in Events
  PROVE  \E row : /\ row[i] = q /\ Pass(q, i) = row[N]
                  /\ \A j \in (i + 1)..N : row[j] = Ordered(row[j - 1], i, j)
<1> DEFINE V == [Events -> Events]
           Body(f) == [j \in i..N |-> IF j = i THEN q ELSE Ordered(f[j - 1], i, j)]
           row == CHOOSE f : f = Body(f)
           step == [j \in (i + 1)..N |-> [r \in V |-> Ordered(r, i, j)]]
<1>0. i \in Int /\ N \in Int /\ i <= N
  BY ReplayerAssumption DEF Events
<1>1. Pass(q, i) = row[N]
  BY DEF Pass
<1>2. \E f : f = Body(f)
  <2>1. \A j \in (i + 1)..N : j \in Events
    BY <1>0 DEF Events
  <2>2. \A r \in V, j \in (i + 1)..N : Ordered(r, i, j) \in V
    BY <2>1, OrderedType
  <2>3. step \in Steps(i, N, V)
    BY <2>2 DEF Steps
  <2>4. \A r \in V, j \in (i + 1)..N : step[j][r] = Ordered(r, i, j)
    OBVIOUS
  <2> HIDE DEF step, V
  <2>5. PICK f \in [i..N -> V] : Computes(f, i, N, q, step)
    <3>1. q \in V
      BY DEF V
    <3> QED BY <1>0, <2>3, <3>1, StepsExist
  <2>6. ASSUME NEW j \in (i + 1)..N PROVE f[j] = Ordered(f[j - 1], i, j)
    <3>1. j - 1 \in i..N
      BY <1>0
    <3>2. f[j - 1] \in V
      BY <3>1
    <3> QED BY <2>4, <2>5, <3>2 DEF Computes
  <2>7. f = Body(f)
    BY <1>0, <2>5, <2>6 DEF Computes
  <2> QED BY <2>7
<1>3. row = Body(row)
  <2> HIDE DEF Body
  <2> QED BY <1>2
<1> HIDE DEF row
<1>4. \A j \in i..N : row[j] = IF j = i THEN q ELSE Ordered(row[j - 1], i, j)
  BY <1>3
<1>5. row[i] = q /\ \A j \in (i + 1)..N : row[j] = Ordered(row[j - 1], i, j)
  BY <1>0, <1>4
<1> QED BY <1>1, <1>5

\* The inner loop keeps the events.
LEMMA PassType ==
  ASSUME NEW q \in [Events -> Events], NEW i \in Events
  PROVE  Pass(q, i) \in [Events -> Events]
<1>0. i \in Int /\ N \in Int /\ i <= N
  BY ReplayerAssumption DEF Events
<1>1. PICK row : /\ row[i] = q /\ Pass(q, i) = row[N]
                 /\ \A j \in (i + 1)..N : row[j] = Ordered(row[j - 1], i, j)
  BY PassRows
<1> DEFINE S == {j \in Int : row[j] \in [Events -> Events]}
<1>2. i \in S
  BY <1>0, <1>1
<1>3. ASSUME NEW j \in i..N, j \in S, j < N PROVE j + 1 \in S
  <2>1. j + 1 \in (i + 1)..N /\ j + 1 \in Events /\ (j + 1) - 1 = j /\ j + 1 \in Int
    BY <1>0, <1>3 DEF Events
  <2>2. row[j + 1] = Ordered(row[j], i, j + 1)
    BY <1>1, <2>1
  <2>3. row[j + 1] \in [Events -> Events]
    BY <1>3, <2>1, <2>2, OrderedType
  <2> QED BY <2>1, <2>3
<1>4. N \in S
  <2>1. N \in i..N
    BY <1>0
  <2> HIDE DEF S
  <2> QED BY <1>0, <1>2, <1>3, <2>1, IntervalInduction
<1> QED BY <1>1, <1>4

\* The inner loop puts the least of the remaining events in place.
LEMMA PassSorts ==
  ASSUME Clocked, NEW q \in Orders, NEW i \in Events, SortedUpTo(q, i - 1)
  PROVE  Pass(q, i) \in Orders /\ SortedUpTo(Pass(q, i), i)
<1>0. i \in Int /\ N \in Int /\ i <= N /\ q \in [Events -> Events] /\ 1 <= i
  BY ReplayerAssumption DEF Events, Orders
<1>1. PICK row : /\ row[i] = q /\ Pass(q, i) = row[N]
                 /\ \A j \in (i + 1)..N : row[j] = Ordered(row[j - 1], i, j)
  BY <1>0, PassRows
<1> DEFINE S == {j \in Int : row[j] \in Orders /\ SortedUpTo(row[j], i - 1) /\ LeastTo(row[j], i, j)}
<1>2. i \in S
  <2>1. LeastTo(q, i, i)
    BY <1>0 DEF LeastTo
  <2> QED BY <1>0, <1>1, <2>1
<1>3. ASSUME NEW j \in i..N, j \in S, j < N PROVE j + 1 \in S
  <2>1. j + 1 \in (i + 1)..N /\ (j + 1) - 1 = j /\ j + 1 \in Int
    BY <1>0, <1>3
  <2>2. row[j + 1] = Ordered(row[j], i, j + 1)
    BY <1>1, <2>1
  <2>3. row[j] \in Orders /\ SortedUpTo(row[j], i - 1) /\ LeastTo(row[j], i, (j + 1) - 1)
    BY <1>3, <2>1
  <2>4. row[j + 1] \in Orders /\ SortedUpTo(row[j + 1], i - 1) /\ LeastTo(row[j + 1], i, j + 1)
    BY <2>1, <2>2, <2>3, OrderedOnce
  <2> QED BY <2>1, <2>4
<1>4. N \in S
  <2>1. N \in i..N
    BY <1>0
  <2> HIDE DEF S
  <2> QED BY <1>0, <1>2, <1>3, <2>1, IntervalInduction
<1>5. SortedUpTo(row[N], i)
  <2> SUFFICES ASSUME NEW a \in 1..i, NEW b \in (a + 1)..N PROVE time[row[N][a]] <= time[row[N][b]]
    BY DEF SortedUpTo
  <2>1. CASE a = i
    BY <1>4, <2>1 DEF LeastTo
  <2>2. CASE a # i
    <3>1. a \in 1..(i - 1)
      BY <1>0, <2>2
    <3> QED BY <1>4, <3>1 DEF SortedUpTo
  <2> QED BY <2>1, <2>2
<1> QED BY <1>1, <1>4, <1>5

\* The outer loop as a function: its orders, from the order of recording.
LEMMA SortRows ==
  \E sorting : /\ sorting[0] = [k \in Events |-> k] /\ Sorted = sorting[N]
               /\ \A i \in 1..N : sorting[i] = Pass(sorting[i - 1], i)
<1> DEFINE V == [Events -> Events]
           first == [k \in Events |-> k]
           Body(f) == [i \in 0..N |-> IF i = 0 THEN first ELSE Pass(f[i - 1], i)]
           sorting == CHOOSE f : f = Body(f)
           step == [i \in 1..N |-> [r \in V |-> Pass(r, i)]]
<1>0. N \in Int /\ 0 <= N
  BY ReplayerAssumption
<1>1. Sorted = sorting[N]
  BY DEF Sorted
<1>2. \E f : f = Body(f)
  <2>1. \A r \in V, i \in 1..N : Pass(r, i) \in V
    BY PassType DEF Events
  <2>2. step \in [1..N -> [V -> V]]
    BY <2>1
  <2>3. \A r \in V, i \in 1..N : step[i][r] = Pass(r, i)
    OBVIOUS
  <2>4. first \in V
    OBVIOUS
  <2> HIDE DEF step, V, first
  <2>5. step \in Steps(0, N, V)
    BY <1>0, <2>2 DEF Steps
  <2>6. PICK f \in [0..N -> V] : Computes(f, 0, N, first, step)
    BY <1>0, <2>4, <2>5, StepsExist
  <2>7. f[0] = first /\ \A i \in 1..N : f[i] = step[i][f[i - 1]]
    BY <1>0, <2>6 DEF Computes
  <2>8. ASSUME NEW i \in 1..N PROVE f[i] = Pass(f[i - 1], i)
    <3>1. i - 1 \in 0..N
      BY <1>0
    <3>2. f[i - 1] \in V
      BY <3>1
    <3> QED BY <2>3, <2>7, <3>2
  <2>9. f = Body(f)
    BY <1>0, <2>7, <2>8
  <2> QED BY <2>9
<1>3. sorting = Body(sorting)
  <2> HIDE DEF Body
  <2> QED BY <1>2
<1> HIDE DEF sorting
<1>4. \A i \in 0..N : sorting[i] = IF i = 0 THEN first ELSE Pass(sorting[i - 1], i)
  BY <1>3
<1>5. sorting[0] = first /\ \A i \in 1..N : sorting[i] = Pass(sorting[i - 1], i)
  BY <1>0, <1>4
<1> QED BY <1>1, <1>5

(***************************************************************************)
(* sortEventsByTime sorts: what it returns has every event once, in the    *)
(* order of the timestamps, whatever these are and however many.           *)
(***************************************************************************)
THEOREM SortSorts ==
  ASSUME Clocked
  PROVE  Sorted \in Orders /\ SortedUpTo(Sorted, N)
<1>0. N \in Int /\ 0 <= N
  BY ReplayerAssumption
<1>1. PICK sorting : /\ sorting[0] = [k \in Events |-> k] /\ Sorted = sorting[N]
                     /\ \A i \in 1..N : sorting[i] = Pass(sorting[i - 1], i)
  BY SortRows
<1> DEFINE S == {i \in Int : sorting[i] \in Orders /\ SortedUpTo(sorting[i], i)}
<1>2. 0 \in S
  BY <1>1 DEF Orders, SortedUpTo
<1>3. ASSUME NEW i \in 0..N, i \in S, i < N PROVE i + 1 \in S
  <2>1. i + 1 \in 1..N /\ i + 1 \in Events /\ (i + 1) - 1 = i /\ i + 1 \in Int
    BY <1>0, <1>3 DEF Events
  <2>2. sorting[i + 1] = Pass(sorting[i], i + 1)
    BY <1>1, <2>1
  <2>3. sorting[i] \in Orders /\ SortedUpTo(sorting[i], (i + 1) - 1)
    BY <1>3, <2>1
  <2>4. sorting[i + 1] \in Orders /\ SortedUpTo(sorting[i + 1], i + 1)
    BY <2>1, <2>2, <2>3, PassSorts
  <2> QED BY <2>1, <2>4
<1>4. N \in S
  <2>1. N \in 0..N /\ 0 \in Int
    BY <1>0
  <2> HIDE DEF S
  <2> QED BY <1>0, <1>2, <1>3, <2>1, IntervalInduction
<1> QED BY <1>1, <1>4

-----------------------------------------------------------------------------
(* The order of the replay                                                 *)

\* A loop between its test of the index and the event has an event to take.
Remaining ==
  \A l \in Loops : lpc[l] \in {"peek", "seen", "wait", "woken", "handle"} => done[l] < N

Shaped == TypeOK /\ Remaining

\* What a loop handed over stands, in the sorted recording, before its index.
FromSorted ==
  \A l \in Loops : \A i \in DOMAIN handed[l] : \E p \in 1..done[l] : handed[l][i] = Sorted[p]

Replayed == FromSorted /\ ReplayInTimeOrder

\* The recording has timestamps.
LEMMA Timestamps == ASSUME TypeOK PROVE Clocked
BY ReplayerAssumption DEF TypeOK, Clocked

\* Init: nothing is handed over.
LEMMA InitShaped == Init => Shaped /\ Replayed
<1> SUFFICES ASSUME Init PROVE Shaped /\ Replayed
  OBVIOUS
<1>1. TypeOK
  <2>1. time \in [Events -> Times] /\ filtered \subseteq Events
    BY DEF Init
  <2>2. /\ isPlaying \in BOOLEAN /\ isPaused \in BOOLEAN
        /\ stopClosed \in BOOLEAN /\ cancelled \in BOOLEAN /\ pauses \in Nat
    BY DEF Init
  <2>3. upc \in [Users -> UserPcs] /\ lpc \in [Loops -> LoopPcs]
    BY DEF Init, UserPcs, LoopPcs
  <2>4. done \in [Loops -> 0..N] /\ extra \in [Loops -> Nat]
    BY ReplayerAssumption DEF Init
  <2>5. \A l \in Loops : handed[l] = <<>> /\ Len(handed[l]) <= done[l]
    BY DEF Init
  <2>6. handed \in [Loops -> Seq(Events)]
    BY DEF Init
  <2> QED BY <2>1, <2>2, <2>3, <2>4, <2>5, <2>6 DEF TypeOK
<1>2. Remaining
  BY DEF Init, Remaining
<1>3. FromSorted /\ ReplayInTimeOrder
  BY DEF Init, FromSorted, ReplayInTimeOrder
<1> QED BY <1>1, <1>2, <1>3 DEF Shaped, Replayed

\* Steps that hand over nothing keep what was handed over in order.
LEMMA NothingHanded ==
  ASSUME TypeOK, Replayed, time' = time, handed' = handed,
         \A l \in Loops : done'[l] \in Nat /\ done[l] <= done'[l]
  PROVE  Replayed'
<1>1. ReplayInTimeOrder'
  BY DEF Replayed, ReplayInTimeOrder
<1>2. Sorted' = Sorted
  BY DEF Sorted, Pass, Ordered
<1>3. FromSorted'
  <2> SUFFICES ASSUME NEW l \in Loops, NEW i \in DOMAIN handed[l]
               PROVE  \E p \in 1..done'[l] : handed[l][i] = Sorted[p]
    BY <1>2 DEF FromSorted
  <2>1. PICK p \in 1..done[l] : handed[l][i] = Sorted[p]
    BY DEF Replayed, FromSorted
  <2>2. p \in 1..done'[l]
    BY DEF TypeOK
  <2> QED BY <2>1, <2>2
<1> QED BY <1>1, <1>3 DEF Replayed

\* The event in hand is one of the recording.
LEMMA EventInHand ==
  ASSUME Shaped, NEW l \in Loops, lpc[l] = "handle"
  PROVE  /\ Current(l) \in Events /\ done[l] + 1 \in Events /\ done[l] \in Nat /\ N \in Nat
         /\ Current(l) = Sorted[done[l] + 1]
<1>1. done[l] + 1 \in Events /\ done[l] \in Nat /\ N \in Nat
  BY ReplayerAssumption DEF Shaped, TypeOK, Remaining, Events
<1>2. Sorted \in [Events -> Events]
  BY SortSorts, Timestamps DEF Shaped, Orders
<1> QED BY <1>1, <1>2 DEF Current

\* A loop that moves on and leaves its index alone.
LEMMA LoopMoves ==
  ASSUME Shaped, NEW l \in Loops, NEW from, NEW to \in LoopPcs, Loop(l, from, to),
         UNCHANGED <<recording, done, handed>>,
         isPlaying' \in BOOLEAN, isPaused' \in BOOLEAN, stopClosed' \in BOOLEAN,
         cancelled' \in BOOLEAN, pauses' \in Nat, extra' \in [Loops -> Nat],
         upc' \in [Users -> UserPcs],
         to \in {"peek", "seen", "wait", "woken", "handle"} =>
           from \in {"peek", "seen", "wait", "woken", "handle"} \/ done[l] < N
  PROVE  Shaped'
<1>1. TypeOK'
  BY DEF Shaped, TypeOK, Loop, recording
<1>2. Remaining'
  BY DEF Shaped, TypeOK, Remaining, Loop
<1> QED BY <1>1, <1>2 DEF Shaped

\* Pausing keeps the shapes of what it changes.
LEMMA PausingShaped ==
  ASSUME TypeOK, Pausing
  PROVE  isPaused' \in BOOLEAN /\ pauses' \in Nat /\ extra' \in [Loops -> Nat]
BY DEF TypeOK, Pausing

\* Steps of the users.
LEMMA UserShaped ==
  ASSUME Shaped, Replayed, NEW u \in Users, Call(u) \/ Finish(u)
  PROVE  Shaped' /\ Replayed'
<1>1. UNCHANGED <<recording, done, handed>> /\ \E to \in UserPcs : upc' = [upc EXCEPT ![u] = to]
  BY DEF Call, Finish, PlayCheck, PlaySet, Launch, PauseCheck, PauseSet, ResumeCheck, ResumeSet,
         ResumeSignal, StopSet, StopClose, StopCancel, User, UserPcs, loops
<1>2. Replayed'
  BY <1>1, NothingHanded, ReplayerAssumption DEF recording, Shaped, TypeOK
<1>3. upc' \in [Users -> UserPcs]
  BY <1>1 DEF Shaped, TypeOK
<1>4. /\ isPlaying' \in BOOLEAN /\ isPaused' \in BOOLEAN /\ stopClosed' \in BOOLEAN
      /\ cancelled' \in BOOLEAN /\ pauses' \in Nat /\ extra' \in [Loops -> Nat]
  <2>1. CASE PauseSet(u)
    <3>1. isPaused' \in BOOLEAN /\ pauses' \in Nat /\ extra' \in [Loops -> Nat]
      BY <2>1, PausingShaped DEF PauseSet, Shaped
    <3>2. isPlaying' \in BOOLEAN /\ stopClosed' \in BOOLEAN /\ cancelled' \in BOOLEAN
      BY <2>1 DEF PauseSet, Shaped, TypeOK
    <3> QED BY <3>1, <3>2
  <2>2. CASE PlaySet(u) \/ ResumeSet(u) \/ StopSet(u)
    <3>1. isPaused' = FALSE /\ extra' = [l \in Loops |-> 0] /\ pauses' = pauses
      BY <2>2 DEF PlaySet, ResumeSet, StopSet, SetPaused
    <3>2. isPlaying' \in {TRUE, FALSE, isPlaying} /\ stopClosed' = stopClosed /\ cancelled' = cancelled
      BY <2>2 DEF PlaySet, ResumeSet, StopSet
    <3>3. extra' \in [Loops -> Nat]
      BY <3>1
    <3> QED BY <3>1, <3>2, <3>3 DEF Shaped, TypeOK
  <2>3. CASE PlayCheck(u) \/ Launch(u) \/ PauseCheck(u) \/ ResumeCheck(u) \/ ResumeSignal(u)
             \/ StopClose(u) \/ StopCancel(u)
    BY <2>3 DEF PlayCheck, Launch, PauseCheck, ResumeCheck, ResumeSignal, StopClose, StopCancel,
         control, Shaped, TypeOK
  <2> QED BY <2>1, <2>2, <2>3 DEF Call, Finish
<1>5. CASE Launch(u)
  <2>1. PICK l \in Loops : Loop(l, "off", "top")
    BY <1>5 DEF Launch
  <2> QED BY <1>1, <1>2, <1>3, <1>4, <2>1, LoopMoves DEF LoopPcs
<1>6. CASE ResumeSignal(u) /\ lpc' # lpc
  <2>1. PICK l \in Loops : Loop(l, "wait", "woken")
    BY <1>6 DEF ResumeSignal
  <2> QED BY <1>1, <1>2, <1>3, <1>4, <2>1, LoopMoves DEF LoopPcs
<1>7. CASE lpc' = lpc
  BY <1>1, <1>2, <1>3, <1>4, <1>7 DEF Shaped, TypeOK, Remaining, recording
<1>8. Launch(u) \/ ResumeSignal(u) \/ lpc' = lpc
  BY DEF Call, Finish, PlayCheck, PlaySet, PauseCheck, PauseSet, ResumeCheck, ResumeSet,
         StopSet, StopClose, StopCancel, loops
<1> QED BY <1>5, <1>6, <1>7, <1>8

\* An event handed over comes after all those handed over before.
LEMMA HandleInOrder ==
  ASSUME Shaped, Replayed, NEW l \in Loops, Handle(l)
  PROVE  Shaped' /\ Replayed'
<1> DEFINE e == Current(l)
<1>0. /\ lpc[l] = "handle" /\ time' = time /\ filtered' = filtered /\ upc' = upc
      /\ done' = [done EXCEPT ![l] = done[l] + 1]
      /\ handed' = [handed EXCEPT ![l] = Append(handed[l], e)]
      /\ \E to \in LoopPcs \ {"peek", "seen", "wait", "woken", "handle"} : lpc' = [lpc EXCEPT ![l] = to]
      /\ UNCHANGED control
      /\ extra' = IF isPaused THEN [extra EXCEPT ![l] = extra[l] + 1] ELSE extra
  BY DEF Handle, Loop, LoopPcs, recording
<1>1. e \in Events /\ done[l] + 1 \in Events /\ done[l] \in Nat /\ N \in Nat /\ e = Sorted[done[l] + 1]
  BY <1>0, EventInHand
<1> HIDE DEF e
<1>2. handed \in [Loops -> Seq(Events)] /\ done \in [Loops -> 0..N] /\ lpc \in [Loops -> LoopPcs]
      /\ Len(handed[l]) <= done[l] /\ Len(handed[l]) \in Nat
  BY DEF Shaped, TypeOK
<1>3. /\ handed'[l] = Append(handed[l], e) /\ handed'[l] \in Seq(Events)
      /\ Len(handed'[l]) = Len(handed[l]) + 1
      /\ DOMAIN handed'[l] = 1..(Len(handed[l]) + 1) /\ DOMAIN handed[l] = 1..Len(handed[l])
      /\ \A i \in DOMAIN handed[l] : handed'[l][i] = handed[l][i]
      /\ handed'[l][Len(handed[l]) + 1] = e
  BY <1>0, <1>1, <1>2
<1>3a. \A i \in DOMAIN handed'[l] : i \in DOMAIN handed[l] \/ i = Len(handed[l]) + 1
  BY <1>2, <1>3
<1>4. \A k \in Loops \ {l} : handed'[k] = handed[k] /\ done'[k] = done[k]
  BY <1>0, <1>2
<1>5. done'[l] = done[l] + 1 /\ done' \in [Loops -> 0..N]
  BY <1>0, <1>1, <1>2 DEF Events
<1>6. Shaped'
  <2>1. handed' \in [Loops -> Seq(Events)]
    <3>1. \A k \in Loops : handed'[k] \in Seq(Events)
      BY <1>2, <1>3, <1>4
    <3>2. handed' = [k \in Loops |-> handed'[k]]
      BY <1>0, <1>2
    <3> QED BY <3>1, <3>2
  <2>2. \A k \in Loops : Len(handed'[k]) <= done'[k]
    <3>1. \A k \in Loops : Len(handed[k]) <= done[k]
      BY DEF Shaped, TypeOK
    <3>2. Len(handed'[l]) <= done'[l]
      BY <1>1, <1>2, <1>3, <1>5
    <3> QED BY <1>4, <3>1, <3>2
  <2>3. extra' \in [Loops -> Nat] /\ lpc' \in [Loops -> LoopPcs]
    BY <1>0 DEF Shaped, TypeOK
  <2>4. TypeOK'
    BY <1>0, <1>5, <2>1, <2>2, <2>3 DEF control, Shaped, TypeOK
  <2>5. Remaining'
    BY <1>0, <1>2, <1>4 DEF Shaped, Remaining
  <2> QED BY <2>4, <2>5 DEF Shaped
<1>7. Sorted' = Sorted
  BY <1>0 DEF Sorted, Pass, Ordered
<1>8. FromSorted'
  <2> SUFFICES ASSUME NEW k \in Loops, NEW i \in DOMAIN handed'[k]
               PROVE  \E p \in 1..done'[k] : handed'[k][i] = Sorted[p]
    BY <1>7 DEF FromSorted
  <2>1. CASE k # l
    BY <1>4, <2>1 DEF Replayed, FromSorted
  <2>2. CASE k = l /\ i \in DOMAIN handed[l]
    <3>1. PICK p \in 1..done[l] : handed[l][i] = Sorted[p]
      BY <2>2 DEF Replayed, FromSorted
    <3>2. p \in 1..done'[l]
      BY <1>1, <1>5
    <3> QED BY <1>3, <2>2, <3>1, <3>2
  <2>3. CASE k = l /\ i = Len(handed[l]) + 1
    <3>1. done[l] + 1 \in 1..done'[l]
      BY <1>1, <1>5
    <3> QED BY <1>1, <1>3, <2>3, <3>1
  <2> QED BY <1>3a, <2>1, <2>2, <2>3
<1>9. \A i \in DOMAIN handed[l] : time[handed[l][i]] <= time[e] /\ handed[l][i] # e
  <2> SUFFICES ASSUME NEW i \in DOMAIN handed[l] PROVE time[handed[l][i]] <= time[e] /\ handed[l][i] # e
    OBVIOUS
  <2>1. PICK p \in 1..done[l] : handed[l][i] = Sorted[p]
    BY DEF Replayed, FromSorted
  <2>2. p \in Events /\ p \in 1..N /\ done[l] + 1 \in (p + 1)..N /\ p # done[l] + 1
    BY <1>1 DEF Events
  <2>3. Sorted \in Orders /\ SortedUpTo(Sorted, N)
    BY SortSorts, Timestamps DEF Shaped
  <2>4. time[Sorted[p]] <= time[Sorted[done[l] + 1]]
    BY <2>2, <2>3 DEF SortedUpTo
  <2>5. Sorted[p] # Sorted[done[l] + 1]
    BY <1>1, <2>2, <2>3 DEF Orders
  <2> QED BY <1>1, <2>1, <2>4, <2>5
<1>10. ReplayInTimeOrder'
  <2> SUFFICES ASSUME NEW k \in Loops, NEW i \in DOMAIN handed'[k], NEW j \in DOMAIN handed'[k], i < j
               PROVE  time[handed'[k][i]] <= time[handed'[k][j]] /\ handed'[k][i] # handed'[k][j]
    BY <1>0 DEF ReplayInTimeOrder
  <2>1. CASE k # l
    BY <1>4, <2>1 DEF Replayed, ReplayInTimeOrder
  <2>2. CASE k = l /\ j \in DOMAIN handed[l]
    <3>1. i \in DOMAIN handed[l]
      BY <1>2, <1>3, <2>2
    <3> QED BY <1>3, <2>2, <3>1 DEF Replayed, ReplayInTimeOrder
  <2>3. CASE k = l /\ j = Len(handed[l]) + 1
    <3>1. i \in DOMAIN handed[l]
      BY <1>2, <1>3, <2>3
    <3> QED BY <1>3, <1>9, <2>3, <3>1
  <2> QED BY <1>3a, <2>1, <2>2, <2>3
<1> QED BY <1>6, <1>8, <1>10 DEF Replayed

\* Steps of the loops.
LEMMA LoopShaped ==
  ASSUME Shaped, Replayed, NEW l \in Loops, Replay(l)
  PROVE  Shaped' /\ Replayed'
<1>0. /\ done \in [Loops -> 0..N] /\ N \in Nat /\ lpc \in [Loops -> LoopPcs]
      /\ upc \in [Users -> UserPcs]
      /\ isPlaying \in BOOLEAN /\ isPaused \in BOOLEAN /\ stopClosed \in BOOLEAN
      /\ cancelled \in BOOLEAN /\ pauses \in Nat /\ extra \in [Loops -> Nat]
  BY ReplayerAssumption DEF Shaped, TypeOK
<1>1. CASE Handle(l)
  BY <1>1, HandleInOrder
<1>2. CASE Skip(l)
  <2>0. /\ lpc[l] = "handle" /\ lpc' = [lpc EXCEPT ![l] = "top"]
        /\ done' = [done EXCEPT ![l] = done[l] + 1]
        /\ UNCHANGED <<recording, control, upc, handed, extra>>
    BY <1>2 DEF Skip, Loop
  <2>1. done[l] < N
    BY <2>0 DEF Shaped, Remaining
  <2>2. \A k \in Loops : done'[k] \in 0..N /\ done[k] <= done'[k]
    BY <1>0, <2>0, <2>1
  <2>3. done' \in [Loops -> 0..N]
    BY <1>0, <2>0, <2>1
  <2>4. \A k \in Loops : Len(handed[k]) <= done'[k]
    <3> SUFFICES ASSUME NEW k \in Loops PROVE Len(handed[k]) <= done'[k]
      OBVIOUS
    <3>1. Len(handed[k]) <= done[k] /\ Len(handed[k]) \in Nat
      BY DEF Shaped, TypeOK
    <3>2. done[k] \in Nat /\ done'[k] \in Nat /\ done[k] <= done'[k]
      BY <1>0, <2>2
    <3> QED BY <3>1, <3>2
  <2>5. lpc' \in [Loops -> LoopPcs]
    BY <1>0, <2>0 DEF LoopPcs
  <2>6. TypeOK'
    BY <2>0, <2>3, <2>4, <2>5 DEF Shaped, TypeOK, recording, control
  <2>7. Remaining'
    BY <1>0, <2>0 DEF Shaped, Remaining
  <2>8. Replayed'
    BY <1>0, <2>0, <2>2, NothingHanded DEF recording, Shaped
  <2> QED BY <2>6, <2>7, <2>8 DEF Shaped
<1>3. CASE /\ UNCHANGED <<recording, upc, done, handed>>
           /\ \E from, to \in LoopPcs :
                /\ Loop(l, from, to)
                /\ to \in {"peek", "seen", "wait", "woken", "handle"} =>
                      from \in {"peek", "seen", "wait", "woken", "handle"} \/ done[l] < N
           /\ isPlaying' \in BOOLEAN /\ isPaused' \in BOOLEAN /\ stopClosed' \in BOOLEAN
           /\ cancelled' \in BOOLEAN /\ pauses' \in Nat /\ extra' \in [Loops -> Nat]
  <2>1. Shaped'
    BY <1>0, <1>3, LoopMoves
  <2>2. Replayed'
    BY <1>0, <1>3, NothingHanded DEF recording, Shaped
  <2> QED BY <2>1, <2>2
<1>4. CASE Top(l)
  \* the loop goes on only while the index is below N
  <2>1. done[l] \in 0..N
    BY <1>0
  <2>2. ~(cancelled \/ done[l] = N) => done[l] < N
    BY <1>0, <2>1
  <2> QED BY <1>0, <1>3, <1>4, <2>2 DEF Top, LoopPcs, control
<1>5. CASE Peek(l) \/ Block(l) \/ WaitEnds(l) \/ FailureChecks(l) \/ Delay(l)
  BY <1>0, <1>3, <1>5 DEF Peek, Block, WaitEnds, FailureChecks, Delay, LoopPcs, control
<1>6. CASE Woken(l)
  <2>1. isPaused' = FALSE /\ extra' = [k \in Loops |-> 0] /\ extra' \in [Loops -> Nat]
    BY <1>6 DEF Woken, SetPaused
  <2> QED BY <1>0, <1>3, <1>6, <2>1 DEF Woken, LoopPcs
<1>7. CASE FailurePauses(l)
  <2>1. isPaused' \in BOOLEAN /\ pauses' \in Nat /\ extra' \in [Loops -> Nat]
    BY <1>7, PausingShaped DEF FailurePauses, Shaped
  <2> QED BY <1>0, <1>3, <1>7, <2>1 DEF FailurePauses, LoopPcs
<1>8. CASE Exit(l) \/ Close(l)
  BY <1>0, <1>3, <1>8 DEF Exit, Close, LoopPcs
<1> QED BY <1>1, <1>2, <1>4, <1>5, <1>6, <1>7, <1>8 DEF Replay

\* Every step keeps the shapes and the order.
LEMMA NextShaped == Shaped /\ Replayed /\ [Next]_vars => Shaped' /\ Replayed'
<1> SUFFICES ASSUME Shaped, Replayed, [Next]_vars PROVE Shaped' /\ Replayed'
  OBVIOUS
<1>1. CASE UNCHANGED vars
  <2>1. UNCHANGED <<time, filtered, isPlaying, isPaused, stopClosed, cancelled, pauses, upc, lpc, done, handed, extra>>
    BY <1>1 DEF vars, recording, control, loops
  <2>2. Shaped'
    BY <2>1 DEF Shaped, TypeOK, Remaining
  <2>3. Replayed'
    BY <2>1, NothingHanded, ReplayerAssumption DEF Shaped, TypeOK
  <2> QED BY <2>2, <2>3
<1>2. CASE Next
  BY <1>2, UserShaped, LoopShaped DEF Next
<1> QED BY <1>1, <1>2

(***************************************************************************)
(* Every variable keeps its shape, no index leaves the recording and no    *)
(* loop hands over more events than it is through with (replayLoop).       *)
(***************************************************************************)
THEOREM ReplayTyped == Spec => []TypeOK
<1>1. Shaped => TypeOK
  BY DEF Shaped
<1> QED BY <1>1, InitShaped, NextShaped, PTL DEF Spec

(***************************************************************************)
(* A loop hands over the events it does not skip in the order of their     *)
(* timestamps, each of them once (sortEventsByTime, replayLoop), however   *)
(* it is paused, resumed and stopped.                                      *)
(***************************************************************************)
THEOREM ReplayedInOrder == Spec => []ReplayInTimeOrder
<1>1. Replayed => ReplayInTimeOrder
  BY DEF Replayed
<1> QED BY <1>1, InitShaped, NextShaped, PTL DEF Spec

-----------------------------------------------------------------------------
(* The bytes of a frame                                                    *)

\* A division by the number of values of a byte, and its rest.
LEMMA Digits ==
  ASSUME NEW v \in Nat
  PROVE  /\ v = (v \div Base) * Base + (v % Base)
         /\ v \div Base \in Nat /\ v % Base \in Byte
         /\ \A c \in Nat : v < Base * c => v \div Base < c
<1>1. Base \in Nat /\ Base > 1
  BY FrameConstants
<1>2. v \div Base \in Nat /\ v % Base \in Byte
  BY <1>1 DEF Byte
<1>3. v = (v \div Base) * Base + (v % Base)
  BY <1>1
<1>4. ASSUME NEW c \in Nat, v < Base * c PROVE v \div Base < c
  BY <1>1, <1>4
<1> QED BY <1>2, <1>3, <1>4

\* How many values n bytes have, from n - 1.
LEMMA ValuesRows ==
  /\ Values[0] = 1 /\ \A n \in 0..FrameHeaderSize : Values[n] \in Nat
  /\ \A n \in 1..FrameHeaderSize : Values[n] = Base * Values[n - 1]
<1> DEFINE H == FrameHeaderSize
           Body(f) == [n \in 0..H |-> IF n = 0 THEN 1 ELSE Base * f[n - 1]]
           step == [n \in 1..H |-> [r \in Nat |-> Base * r]]
<1>0. H \in Int /\ 0 <= H /\ Base \in Nat
  BY FrameConstants DEF FrameHeaderSize
<1>1. Values = CHOOSE f : f = Body(f)
  BY DEF Values
<1> HIDE DEF H
<1>2. step \in [1..H -> [Nat -> Nat]] /\ \A n \in 1..H, r \in Nat : step[n][r] = Base * r
  BY <1>0
<1> HIDE DEF step
<1>3. PICK f \in [0..H -> Nat] : Computes(f, 0, H, 1, step)
  <2>1. step \in Steps(0, H, Nat)
    BY <1>0, <1>2 DEF Steps
  <2> QED BY <1>0, <2>1, 0 \in Int, 1 \in Nat, StepsExist, Zenon
<1>4. f = Body(f)
  <2>1. f[0] = 1 /\ \A n \in 1..H : f[n] = step[n][f[n - 1]]
    BY <1>0, <1>3 DEF Computes
  <2>2. \A n \in 1..H : f[n - 1] \in Nat
    BY <1>0
  <2>3. \A n \in 1..H : f[n] = Base * f[n - 1]
    BY <1>2, <2>1, <2>2
  <2> QED BY <1>0, <2>1, <2>3
<1>5. Values = Body(Values)
  <2> HIDE DEF Body
  <2> QED BY <1>1, <1>4
<1>6. \A n \in 0..H : Values[n] = IF n = 0 THEN 1 ELSE Base * Values[n - 1]
  BY <1>5
<1>7. Values[0] = 1 /\ \A n \in 1..H : Values[n] = Base * Values[n - 1]
  BY <1>0, <1>6
<1> DEFINE S == {n \in Int : Values[n] \in Nat}
<1>8. \A n \in 0..H : n \in S
  <2>1. 0 \in S
    BY <1>7
  <2>2. ASSUME NEW n \in 0..H, n \in S, n < H PROVE n + 1 \in S
    <3>1. n + 1 \in 1..H /\ (n + 1) - 1 = n /\ n + 1 \in Int
      BY <1>0, <2>2
    <3>2. Values[n + 1] = Base * Values[n]
      BY <1>7, <3>1
    <3> QED BY <1>0, <2>2, <3>1, <3>2
  <2> HIDE DEF S
  <2> QED BY <1>0, <2>1, <2>2, 0 \in Int, IntervalInduction, Zenon
<1> QED BY <1>7, <1>8 DEF H

\* Writing a number: what is left of it after each byte.
LEMMA PutRows ==
  ASSUME NEW v \in Nat, NEW n \in Nat
  PROVE  \E left \in [0..n -> Nat] :
           /\ left[0] = v /\ \A k \in 1..n : left[k] = left[k - 1] \div Base
           /\ PutUint(v, n) = [i \in 1..n |-> left[n - i] % Base]
<1> DEFINE Body(f) == [k \in 0..n |-> IF k = 0 THEN v ELSE f[k - 1] \div Base]
           left == CHOOSE f : f = Body(f)
           step == [k \in 1..n |-> [r \in Nat |-> r \div Base]]
<1>1. PutUint(v, n) = [i \in 1..n |-> left[n - i] % Base]
  BY DEF PutUint
<1>2. step \in [1..n -> [Nat -> Nat]] /\ \A k \in 1..n, r \in Nat : step[k][r] = r \div Base
  <2>1. \A r \in Nat : r \div Base \in Nat
    BY Digits
  <2> QED BY <2>1
<1> HIDE DEF step
<1>3. PICK f \in [0..n -> Nat] : Computes(f, 0, n, v, step)
  <2>1. step \in Steps(0, n, Nat)
    BY <1>2 DEF Steps
  <2> QED BY <2>1, 0 \in Int, n \in Int, 0 <= n, StepsExist, Zenon
<1>4. f = Body(f)
  <2>1. f[0] = v /\ \A k \in 1..n : f[k] = step[k][f[k - 1]]
    BY <1>3 DEF Computes
  <2>2. \A k \in 1..n : f[k - 1] \in Nat
    OBVIOUS
  <2>3. \A k \in 1..n : f[k] = f[k - 1] \div Base
    BY <1>2, <2>1, <2>2
  <2> QED BY <2>1, <2>3
<1>5. left = Body(left)
  <2> HIDE DEF Body
  <2> QED BY <1>4
<1> HIDE DEF left
<1>6. \A k \in 0..n : left[k] = IF k = 0 THEN v ELSE left[k - 1] \div Base
  BY <1>5
<1>7. left[0] = v /\ \A k \in 1..n : left[k] = left[k - 1] \div Base
  BY <1>6
<1> DEFINE S == {k \in Int : left[k] \in Nat}
<1>8. \A k \in 0..n : k \in S
  <2>1. 0 \in S
    BY <1>7
  <2>2. ASSUME NEW k \in 0..n, k \in S, k < n PROVE k + 1 \in S
    <3>1. k + 1 \in 1..n /\ (k + 1) - 1 = k /\ k + 1 \in Int
      BY <2>2
    <3>2. left[k + 1] = left[k] \div Base
      BY <1>7, <3>1
    <3> QED BY <2>2, <3>1, <3>2, Digits
  <2> HIDE DEF S
  <2> QED BY <2>1, <2>2, 0 \in Int, n \in Int, IntervalInduction, Zenon
<1>9. left \in [0..n -> Nat]
  <2>1. left = [k \in 0..n |-> left[k]]
    BY <1>5
  <2> QED BY <1>8, <2>1
<1> QED BY <1>1, <1>7, <1>9

\* Reading a number: its value after each byte.
LEMMA GetRows ==
  ASSUME NEW s \in Seq(Byte)
  PROVE  \E value : /\ value[0] = 0 /\ GetUint(s) = value[Len(s)]
                    /\ \A i \in 1..Len(s) : value[i] = value[i - 1] * Base + s[i]
<1> DEFINE n == Len(s)
           Body(f) == [i \in 0..n |-> IF i = 0 THEN 0 ELSE f[i - 1] * Base + s[i]]
           value == CHOOSE f : f = Body(f)
           step == [i \in 1..n |-> [r \in Nat |-> r * Base + s[i]]]
<1>0. n \in Nat /\ n \in Int /\ 0 <= n /\ Base \in Nat /\ \A i \in 1..n : s[i] \in Nat
  BY FrameConstants DEF Byte
<1>1. GetUint(s) = value[n]
  BY DEF GetUint
<1> HIDE DEF n
<1>2. step \in [1..n -> [Nat -> Nat]] /\ \A i \in 1..n, r \in Nat : step[i][r] = r * Base + s[i]
  BY <1>0
<1> HIDE DEF step
<1>3. PICK f \in [0..n -> Nat] : Computes(f, 0, n, 0, step)
  <2>1. step \in Steps(0, n, Nat)
    BY <1>2 DEF Steps
  <2> QED BY <1>0, <2>1, 0 \in Int, 0 \in Nat, StepsExist, Zenon
<1>4. f = Body(f)
  <2>1. f[0] = 0 /\ \A i \in 1..n : f[i] = step[i][f[i - 1]]
    BY <1>0, <1>3 DEF Computes
  <2>2. \A i \in 1..n : f[i - 1] \in Nat
    BY <1>0
  <2>3. \A i \in 1..n : f[i] = f[i - 1] * Base + s[i]
    BY <1>2, <2>1, <2>2
  <2> QED BY <1>0, <2>1, <2>3
<1>5. value = Body(value)
  <2> HIDE DEF Body
  <2> QED BY <1>4
<1> HIDE DEF value
<1>6. \A i \in 0..n : value[i] = IF i = 0 THEN 0 ELSE value[i - 1] * Base + s[i]
  BY <1>5
<1>7. value[0] = 0 /\ \A i \in 1..n : value[i] = value[i - 1] * Base + s[i]
  BY <1>0, <1>6
<1> QED BY <1>1, <1>7 DEF n

(***************************************************************************)
(* Uint16 and Uint32 read what PutUint16 and PutUint32 wrote, for any size *)
(* of a byte and any number of them that holds the value.                  *)
(***************************************************************************)
LEMMA ReadsBack ==
  ASSUME NEW n \in 0..FrameHeaderSize, NEW v \in Nat, v < Values[n]
  PROVE  /\ PutUint(v, n) \in Seq(Byte) /\ Len(PutUint(v, n)) = n
         /\ GetUint(PutUint(v, n)) = v
<1>0. n \in Nat /\ n \in Int /\ FrameHeaderSize \in Nat
  BY FrameConstants DEF FrameHeaderSize
<1> DEFINE s == PutUint(v, n)
<1>1. PICK left \in [0..n -> Nat] :
        /\ left[0] = v /\ \A k \in 1..n : left[k] = left[k - 1] \div Base
        /\ s = [i \in 1..n |-> left[n - i] % Base]
  BY <1>0, PutRows
<1> HIDE DEF s
<1>2. s \in Seq(Byte) /\ Len(s) = n
  <2>1. \A i \in 1..n : left[n - i] % Base \in Byte
    <3> SUFFICES ASSUME NEW i \in 1..n PROVE left[n - i] % Base \in Byte
      OBVIOUS
    <3>1. left[n - i] \in Nat
      BY <1>0
    <3> QED BY <3>1, Digits
  <2> QED BY <1>0, <1>1, <2>1
<1> DEFINE S == {k \in Int : left[k] < Values[n - k]}
\* each byte written leaves a number that the remaining ones can hold
<1>3. \A k \in 0..n : k \in S
  <2>1. 0 \in S
    BY <1>0, <1>1
  <2>2. ASSUME NEW k \in 0..n, k \in S, k < n PROVE k + 1 \in S
    <3>1. k + 1 \in 1..n /\ (k + 1) - 1 = k /\ k + 1 \in Int /\ left[k] \in Nat
      BY <1>0, <2>2
    <3>2. n - k \in 1..FrameHeaderSize /\ (n - k) - 1 = n - (k + 1) /\ n - (k + 1) \in 0..FrameHeaderSize
      BY <1>0, <2>2
    <3>3. Values[n - k] = Base * Values[n - (k + 1)] /\ Values[n - (k + 1)] \in Nat
      BY <3>2, ValuesRows
    <3>4. left[k + 1] = left[k] \div Base
      BY <1>1, <3>1
    <3>5. left[k] < Base * Values[n - (k + 1)]
      BY <2>2, <3>3
    <3>6. left[k + 1] < Values[n - (k + 1)]
      BY <3>1, <3>3, <3>4, <3>5, Digits, Zenon
    <3> QED BY <3>1, <3>6
  <2> HIDE DEF S
  <2> QED BY <1>0, <2>1, <2>2, 0 \in Int, IntervalInduction, Zenon
<1>4. left[n] = 0
  <2>1. left[n] < Values[n - n] /\ n - n = 0 /\ left[n] \in Nat
    BY <1>0, <1>3
  <2> QED BY <2>1, ValuesRows
<1>5. PICK value : /\ value[0] = 0 /\ GetUint(s) = value[n]
                   /\ \A i \in 1..n : value[i] = value[i - 1] * Base + s[i]
  BY <1>2, GetRows
<1> HIDE DEF S
<1> DEFINE T == {i \in Int : value[i] = left[n - i]}
\* what has been read is what was left when the rest had been written
<1>6. \A i \in 0..n : i \in T
  <2>1. 0 \in T
    BY <1>0, <1>4, <1>5
  <2>2. ASSUME NEW i \in 0..n, i \in T, i < n PROVE i + 1 \in T
    <3>1. i + 1 \in 1..n /\ (i + 1) - 1 = i /\ i + 1 \in Int
      BY <1>0, <2>2
    <3>2. n - i \in 1..n /\ (n - i) - 1 = n - (i + 1) /\ n - (i + 1) \in 0..n
      BY <1>0, <2>2
    <3>3. value[i + 1] = left[n - i] * Base + s[i + 1]
      BY <1>5, <2>2, <3>1
    <3>4. s[i + 1] = left[n - (i + 1)] % Base /\ left[n - i] = left[n - (i + 1)] \div Base
      BY <1>1, <3>1, <3>2
    <3>5. left[n - (i + 1)] \in Nat
      BY <3>2
    <3>6. left[n - (i + 1)] = left[n - i] * Base + s[i + 1]
      BY <3>4, <3>5, Digits, Zenon
    <3> QED BY <3>1, <3>3, <3>6
  <2> HIDE DEF T
  <2> QED BY <1>0, <2>1, <2>2, 0 \in Int, IntervalInduction, Zenon
<1>7. value[n] = v
  <2>1. n \in 0..n /\ n - n = 0
    BY <1>0
  <2> QED BY <1>1, <1>6, <2>1
<1> QED BY <1>2, <1>5, <1>7 DEF s

-----------------------------------------------------------------------------
(* A frame, written and read                                               *)

\* The frames that can be sent: the length of the body fits its field.
Sendable == {f \in Frame : Len(f.body) < Values[LenBytes]}

\* A part of a sequence that agrees with another sequence is that sequence.
LEMMA PartOf ==
  ASSUME NEW s \in Seq(Byte), NEW t \in Seq(Byte), NEW m \in Nat, m + Len(t) <= Len(s),
         \A i \in 1..Len(t) : s[m + i] = t[i]
  PROVE  SubSeq(s, m + 1, m + Len(t)) = t
<1> DEFINE p == SubSeq(s, m + 1, m + Len(t))
<1>0. Len(t) \in Nat /\ Len(s) \in Nat /\ m + 1 \in Int /\ m + Len(t) \in Int
  OBVIOUS
<1>1. \A i \in (m + 1)..(m + Len(t)) : s[i] \in Byte
  BY <1>0
<1>2. /\ p \in Seq(Byte)
      /\ Len(p) = IF m + 1 <= m + Len(t) THEN (m + Len(t)) - (m + 1) + 1 ELSE 0
      /\ \A i \in 1..((m + Len(t)) - (m + 1) + 1) : p[i] = s[m + 1 + i - 1]
  BY <1>0, <1>1, SubSeqProperties
<1> HIDE DEF p
<1>3. Len(p) = Len(t) /\ \A i \in 1..Len(p) : p[i] = t[i]
  BY <1>0, <1>2
<1>4. p = t
  BY <1>2, <1>3, SeqEqual
<1> QED BY <1>4 DEF p

\* EncodeFrame: the header and the body, with the lengths they have.
LEMMA Encoded ==
  ASSUME NEW f \in Sendable
  PROVE  /\ EncodeFrame(f) \in Seq(Byte)
         /\ Len(EncodeFrame(f)) = FrameHeaderSize + Len(f.body)
         /\ SubSeq(EncodeFrame(f), 1, OpBytes) = PutUint(f.opcode, OpBytes)
         /\ SubSeq(EncodeFrame(f), OpBytes + 1, FrameHeaderSize) = PutUint(Len(f.body), LenBytes)
         /\ SubSeq(EncodeFrame(f), FrameHeaderSize + 1, Len(EncodeFrame(f))) = f.body
<1> DEFINE o == f.opcode
           b == f.body
           code == PutUint(o, OpBytes)
           size == PutUint(Len(b), LenBytes)
<1>0. /\ OpBytes \in Nat \ {0} /\ LenBytes \in Nat \ {0}
      /\ OpBytes \in 0..FrameHeaderSize /\ LenBytes \in 0..FrameHeaderSize
      /\ FrameHeaderSize = OpBytes + LenBytes
  BY FrameConstants DEF FrameHeaderSize
<1>1. /\ b \in Seq(Byte) /\ Len(b) \in Nat /\ Len(b) < Values[LenBytes]
      /\ o \in Nat /\ o < Values[OpBytes]
  <2>1. Values[OpBytes] \in Nat
    BY <1>0, ValuesRows
  <2> QED BY <2>1 DEF Sendable, Frame, Opcodes
<1>2. code \in Seq(Byte) /\ Len(code) = OpBytes /\ size \in Seq(Byte) /\ Len(size) = LenBytes
  BY <1>0, <1>1, ReadsBack
<1> HIDE DEF o, b, code, size
<1> DEFINE h == code \o size
           e == h \o b
<1>3a. /\ h \in Seq(Byte) /\ Len(h) = OpBytes + LenBytes
       /\ \A i \in 1..(OpBytes + LenBytes) : h[i] = IF i <= OpBytes THEN code[i] ELSE size[i - OpBytes]
  BY <1>2, ConcatProperties
<1> HIDE DEF h
<1>3. /\ e \in Seq(Byte) /\ Len(e) = FrameHeaderSize + Len(b)
      /\ \A i \in 1..(FrameHeaderSize + Len(b)) :
           e[i] = IF i <= FrameHeaderSize THEN h[i] ELSE b[i - FrameHeaderSize]
  <2>1. /\ e \in Seq(Byte) /\ Len(e) = Len(h) + Len(b)
        /\ \A i \in 1..(Len(h) + Len(b)) : e[i] = IF i <= Len(h) THEN h[i] ELSE b[i - Len(h)]
    BY <1>1, <1>3a, ConcatProperties
  <2>2. Len(h) = FrameHeaderSize
    BY <1>0, <1>3a
  <2> QED BY <2>1, <2>2
<1> HIDE DEF e
<1>3b. /\ OpBytes \in Nat /\ LenBytes \in Nat /\ FrameHeaderSize = OpBytes + LenBytes
       /\ Len(code) = OpBytes /\ Len(size) = LenBytes /\ Len(b) \in Nat
       /\ Len(e) = OpBytes + LenBytes + Len(b)
  <2>1. OpBytes \in Nat /\ LenBytes \in Nat /\ FrameHeaderSize = OpBytes + LenBytes
    BY <1>0
  <2> QED BY <1>1, <1>2, <1>3, <2>1
<1>4. SubSeq(e, 1, OpBytes) = code
  <2>1. 0 + Len(code) <= Len(e)
    BY <1>3b
  <2>2. ASSUME NEW i \in 1..Len(code) PROVE e[0 + i] = code[i]
    <3>1. i \in 1..(FrameHeaderSize + Len(b)) /\ i <= FrameHeaderSize /\ i \in 1..(OpBytes + LenBytes)
          /\ i <= OpBytes /\ 0 + i = i
      BY <1>3b
    <3> QED BY <1>3, <1>3a, <3>1
  <2>3. SubSeq(e, 0 + 1, 0 + Len(code)) = code
    BY <1>2, <1>3, <2>1, <2>2, PartOf
  <2> QED BY <1>0, <1>2, <2>3
<1>5. SubSeq(e, OpBytes + 1, FrameHeaderSize) = size
  <2>1. OpBytes + Len(size) <= Len(e)
    BY <1>3b
  <2>2. ASSUME NEW i \in 1..Len(size) PROVE e[OpBytes + i] = size[i]
    <3>1. OpBytes + i \in 1..(FrameHeaderSize + Len(b)) /\ OpBytes + i <= FrameHeaderSize
          /\ OpBytes + i \in 1..(OpBytes + LenBytes) /\ ~(OpBytes + i <= OpBytes)
          /\ (OpBytes + i) - OpBytes = i
      BY <1>3b
    <3> QED BY <1>3, <1>3a, <3>1
  <2>3. SubSeq(e, OpBytes + 1, OpBytes + Len(size)) = size
    BY <1>0, <1>2, <1>3, <2>1, <2>2, PartOf
  <2> QED BY <1>0, <1>2, <2>3
<1>6. SubSeq(e, FrameHeaderSize + 1, Len(e)) = b
  <2>1. FrameHeaderSize \in Nat /\ FrameHeaderSize + Len(b) <= Len(e)
    BY <1>0, <1>1, <1>3
  <2>2. ASSUME NEW i \in 1..Len(b) PROVE e[FrameHeaderSize + i] = b[i]
    <3>1. FrameHeaderSize + i \in 1..(FrameHeaderSize + Len(b)) /\ ~(FrameHeaderSize + i <= FrameHeaderSize)
          /\ (FrameHeaderSize + i) - FrameHeaderSize = i
      BY <1>1, <2>1
    <3> QED BY <1>3, <3>1
  <2>3. SubSeq(e, FrameHeaderSize + 1, FrameHeaderSize + Len(b)) = b
    BY <1>1, <1>3, <2>1, <2>2, PartOf
  <2> QED BY <1>3, <2>3
<1>7. EncodeFrame(f) = e
  BY DEF EncodeFrame, o, b, code, size, h, e
<1> QED BY <1>3, <1>4, <1>5, <1>6, <1>7 DEF o, b, code, size

(***************************************************************************)
(* DecodeFrame returns the frame that EncodeFrame encoded, whatever its    *)
(* opcode and body, unless it is larger than allowed; and the size Next    *)
(* reads from a header is that of the frame.                               *)
(***************************************************************************)
THEOREM DecodesWhatWasEncoded ==
  ASSUME NEW f \in Sendable
  PROVE  /\ BodyLength(EncodeFrame(f)) = Len(f.body)
         /\ Len(EncodeFrame(f)) <= MaxFrameSize =>
              DecodeFrame(EncodeFrame(f)) = [err |-> "nil", frame |-> f]
<1> DEFINE e == EncodeFrame(f)
           o == f.opcode
           b == f.body
<1>0. /\ OpBytes \in 0..FrameHeaderSize /\ LenBytes \in 0..FrameHeaderSize /\ FrameHeaderSize \in Nat
      /\ MaxFrameSize \in Nat
  BY FrameConstants DEF FrameHeaderSize
<1>1. /\ b \in Seq(Byte) /\ Len(b) \in Nat /\ Len(b) < Values[LenBytes]
      /\ o \in Nat /\ o < Values[OpBytes]
      /\ f = [opcode |-> o, body |-> b]
  <2>1. Values[OpBytes] \in Nat
    BY <1>0, ValuesRows
  <2> QED BY <2>1 DEF Sendable, Frame, Opcodes
<1>2. /\ Len(e) = FrameHeaderSize + Len(b)
      /\ SubSeq(e, 1, OpBytes) = PutUint(o, OpBytes)
      /\ SubSeq(e, OpBytes + 1, FrameHeaderSize) = PutUint(Len(b), LenBytes)
      /\ SubSeq(e, FrameHeaderSize + 1, Len(e)) = b
  BY Encoded
<1>3. GetUint(PutUint(o, OpBytes)) = o /\ GetUint(PutUint(Len(b), LenBytes)) = Len(b)
  BY <1>0, <1>1, ReadsBack
<1> HIDE DEF e, o, b
<1>4. BodyLength(e) = Len(b)
  BY <1>2, <1>3 DEF BodyLength
<1>5. ASSUME Len(e) <= MaxFrameSize PROVE DecodeFrame(e) = [err |-> "nil", frame |-> f]
  <2>1. ~(Len(e) < FrameHeaderSize) /\ ~(Len(e) > MaxFrameSize) /\ Len(e) = FrameHeaderSize + BodyLength(e)
    BY <1>0, <1>1, <1>2, <1>4, <1>5
  <2>2. DecodeFrame(e) = [err |-> "nil",
                          frame |-> [opcode |-> GetUint(SubSeq(e, 1, OpBytes)),
                                     body |-> SubSeq(e, FrameHeaderSize + 1, Len(e))]]
    BY <2>1, Zenon DEF DecodeFrame
  <2> QED BY <1>1, <1>2, <1>3, <2>2
<1> QED BY <1>4, <1>5 DEF e, o, b

-----------------------------------------------------------------------------
(* The decoder                                                             *)

\* The next frame to be decoded, as it was sent.
NextInLine == EncodeFrame(sent[Len(decoded) + 1])

(* cut[k] is the end of the k-th frame in the bytes sent: the bytes that   *)
(* Next has not removed are those of the frames it has not returned.       *)
Layout(cut) ==
  /\ cut \in [0..Len(sent) -> Nat] /\ cut[0] = 0
  /\ \A j, k \in 0..Len(sent) : j <= k => cut[j] <= cut[k]
  /\ \A k \in 1..Len(sent) : cut[k] = cut[k - 1] + Len(EncodeFrame(sent[k]))
  /\ cut[Len(sent)] = cut[Len(decoded)] + Len(buffer) + Len(transit)
  /\ \A k \in (Len(decoded) + 1)..Len(sent) : \A i \in 1..Len(EncodeFrame(sent[k])) :
       (buffer \o transit)[(cut[k - 1] - cut[Len(decoded)]) + i] = EncodeFrame(sent[k])[i]

DecoderTypes ==
  /\ buffer \in Seq(Byte) /\ transit \in Seq(Byte) /\ headerRead \in BOOLEAN
  /\ sent \in Seq(Sendable) /\ decoded \in Seq(Sendable)

(* A header once read is that of the next frame, which is not too large;   *)
(* an answer Next gave is still the right one until more bytes are fed.    *)
HeaderState ==
  /\ headerRead => /\ Len(decoded) < Len(sent)
                   /\ frameSize = Len(NextInLine) /\ frameSize <= MaxFrameSize
                   /\ Len(buffer) >= FrameHeaderSize
  /\ last = "nil" /\ Len(decoded) < Len(sent) => Len(buffer) < Len(NextInLine)
  /\ last = "error" => Len(decoded) < Len(sent) /\ Len(NextInLine) > MaxFrameSize

Decoding == DecoderTypes /\ FramesAsSent /\ HeaderState /\ \E cut : Layout(cut)

\* An encoded frame has a header, and its header says how long it is.
LEMMA EncodedSize ==
  ASSUME NEW f \in Sendable
  PROVE  /\ EncodeFrame(f) \in Seq(Byte) /\ Len(EncodeFrame(f)) \in Nat
         /\ FrameHeaderSize \in Nat /\ OpBytes \in Nat /\ OpBytes <= FrameHeaderSize
         /\ 0 < FrameHeaderSize /\ FrameHeaderSize <= Len(EncodeFrame(f))
         /\ Len(EncodeFrame(f)) = FrameHeaderSize + BodyLength(EncodeFrame(f))
<1> DEFINE n == Len(f.body)
<1>1. n \in Nat
  BY DEF Sendable, Frame
<1>2. /\ EncodeFrame(f) \in Seq(Byte) /\ Len(EncodeFrame(f)) = FrameHeaderSize + n
      /\ BodyLength(EncodeFrame(f)) = n
  BY Encoded, DecodesWhatWasEncoded
<1> HIDE DEF n
<1>3. /\ FrameHeaderSize \in Nat /\ OpBytes \in Nat /\ OpBytes <= FrameHeaderSize /\ 0 < FrameHeaderSize
  BY FrameConstants DEF FrameHeaderSize
<1> QED BY <1>1, <1>2, <1>3

\* Sequences that agree up to n agree in a part that ends there.
LEMMA SameParts ==
  ASSUME NEW s \in Seq(Byte), NEW t \in Seq(Byte), NEW m \in Nat, NEW n \in Nat,
         n <= Len(s), n <= Len(t), \A i \in 1..n : s[i] = t[i]
  PROVE  SubSeq(s, m + 1, n) = SubSeq(t, m + 1, n)
<1> DEFINE p == SubSeq(s, m + 1, n)
           r == SubSeq(t, m + 1, n)
<1>0. \A i \in (m + 1)..n : s[i] \in Byte /\ t[i] \in Byte /\ s[i] = t[i]
  OBVIOUS
<1>1. /\ p \in Seq(Byte) /\ Len(p) = IF m + 1 <= n THEN n - (m + 1) + 1 ELSE 0
      /\ \A i \in 1..(n - (m + 1) + 1) : p[i] = s[m + 1 + i - 1]
  BY <1>0, SubSeqProperties
<1>2. /\ r \in Seq(Byte) /\ Len(r) = IF m + 1 <= n THEN n - (m + 1) + 1 ELSE 0
      /\ \A i \in 1..(n - (m + 1) + 1) : r[i] = t[m + 1 + i - 1]
  BY <1>0, SubSeqProperties
<1> HIDE DEF p, r
<1>3. Len(p) = Len(r) /\ \A i \in 1..Len(p) : p[i] = r[i]
  BY <1>0, <1>1, <1>2
<1>4. p = r
  BY <1>1, <1>2, <1>3, SeqEqual
<1> QED BY <1>4 DEF p, r

\* What the decoder has in its buffer is the beginning of the next frame.
LEMMA FrontOfBuffer ==
  ASSUME Decoding
  PROVE  /\ Len(decoded) \in Nat /\ Len(sent) \in Nat /\ Len(buffer) \in Nat /\ Len(decoded) <= Len(sent)
         /\ Len(decoded) = Len(sent) => Len(buffer) = 0
         /\ Len(decoded) < Len(sent) =>
              /\ sent[Len(decoded) + 1] \in Sendable
              /\ \A m \in 0..Len(buffer) :
                   m <= Len(NextInLine) => SubSeq(buffer, 1, m) = SubSeq(NextInLine, 1, m)
              /\ Len(buffer) >= FrameHeaderSize => FrameHeaderSize + BodyLength(buffer) = Len(NextInLine)
<1> DEFINE d == Len(decoded)
           e == NextInLine
<1>0. /\ buffer \in Seq(Byte) /\ transit \in Seq(Byte) /\ Len(buffer) \in Nat /\ Len(transit) \in Nat
      /\ sent \in Seq(Sendable) /\ Len(sent) \in Nat /\ d \in Nat /\ d <= Len(sent)
  BY DEF Decoding, DecoderTypes, FramesAsSent
<1>1. PICK cut : Layout(cut)
  BY DEF Decoding
<1>2. ASSUME d = Len(sent) PROVE Len(buffer) = 0
  <2>1. cut[d] \in Nat /\ cut[Len(sent)] = cut[d] + Len(buffer) + Len(transit)
    BY <1>0, <1>1 DEF Layout
  <2> QED BY <1>0, <1>2, <2>1
<1>3. ASSUME d < Len(sent)
      PROVE  /\ sent[d + 1] \in Sendable
             /\ \A m \in 0..Len(buffer) : m <= Len(e) => SubSeq(buffer, 1, m) = SubSeq(e, 1, m)
             /\ Len(buffer) >= FrameHeaderSize => FrameHeaderSize + BodyLength(buffer) = Len(e)
  <2>1. d + 1 \in 1..Len(sent) /\ d + 1 \in (d + 1)..Len(sent) /\ (d + 1) - 1 = d /\ d \in 0..Len(sent)
    BY <1>0, <1>3
  <2>2. sent[d + 1] \in Sendable
    BY <1>0, <2>1
  <2>3. /\ e \in Seq(Byte) /\ Len(e) \in Nat /\ FrameHeaderSize \in Nat /\ OpBytes \in Nat
        /\ FrameHeaderSize <= Len(e) /\ Len(e) = FrameHeaderSize + BodyLength(e)
    BY <2>2, EncodedSize DEF NextInLine
  <2>4. \A i \in 1..Len(e) : (buffer \o transit)[(cut[d] - cut[d]) + i] = e[i]
    BY <1>1, <2>1 DEF Layout, NextInLine
  <2>5. cut[d] \in Nat
    BY <1>1, <2>1 DEF Layout
  <2> HIDE DEF e, d
  <2>6. ASSUME NEW i \in 1..Len(e), i <= Len(buffer) PROVE buffer[i] = e[i]
    <3>1. (cut[d] - cut[d]) + i = i
      BY <2>5
    <3>2. (buffer \o transit)[i] = e[i]
      BY <2>4, <3>1
    <3>3. i \in 1..(Len(buffer) + Len(transit))
      BY <1>0, <2>6
    <3>4. (buffer \o transit)[i] = buffer[i]
      BY <1>0, <2>6, <3>3, ConcatProperties
    <3> QED BY <3>2, <3>4
  <2>7. ASSUME NEW m \in 0..Len(buffer), m <= Len(e) PROVE SubSeq(buffer, 1, m) = SubSeq(e, 1, m)
    <3>1. m \in Nat /\ m <= Len(buffer) /\ \A i \in 1..m : buffer[i] = e[i]
      BY <1>0, <2>3, <2>6, <2>7
    <3>2. SubSeq(buffer, 0 + 1, m) = SubSeq(e, 0 + 1, m)
      BY <1>0, <2>3, <2>7, <3>1, SameParts
    <3> QED BY <3>2
  <2>8. ASSUME Len(buffer) >= FrameHeaderSize PROVE FrameHeaderSize + BodyLength(buffer) = Len(e)
    <3>1. FrameHeaderSize <= Len(buffer) /\ \A i \in 1..FrameHeaderSize : buffer[i] = e[i]
      BY <1>0, <2>3, <2>6, <2>8
    <3>2. SubSeq(buffer, OpBytes + 1, FrameHeaderSize) = SubSeq(e, OpBytes + 1, FrameHeaderSize)
      BY <1>0, <2>3, <3>1, SameParts
    <3> QED BY <2>3, <3>2 DEF BodyLength
  <2> QED BY <2>2, <2>7, <2>8 DEF d
<1> QED BY <1>0, <1>2, <1>3

\* The size Next goes by is that of the next frame.
LEMMA SizeIsNext ==
  ASSUME Decoding, HeaderThere
  PROVE  /\ Len(decoded) < Len(sent) /\ Size = Len(NextInLine) /\ Size \in Nat
         /\ Len(buffer) >= FrameHeaderSize
         /\ headerRead => Size <= MaxFrameSize
<1>1. CASE headerRead
  <2>1. /\ Len(decoded) < Len(sent) /\ frameSize = Len(NextInLine) /\ frameSize <= MaxFrameSize
        /\ Len(buffer) >= FrameHeaderSize
    BY <1>1 DEF Decoding, HeaderState
  <2>2. Len(NextInLine) \in Nat
    BY <2>1, FrontOfBuffer, EncodedSize DEF NextInLine
  <2> QED BY <1>1, <2>1, <2>2 DEF Size
<1>2. CASE ~headerRead
  <2>1. Len(buffer) >= FrameHeaderSize
    BY <1>2 DEF HeaderThere
  <2>2. FrameHeaderSize \in Nat /\ 0 < FrameHeaderSize
    BY FrameConstants DEF FrameHeaderSize
  <2>3. Len(decoded) < Len(sent)
    BY <2>1, <2>2, FrontOfBuffer
  <2>4. FrameHeaderSize + BodyLength(buffer) = Len(NextInLine)
    BY <2>1, <2>3, FrontOfBuffer
  <2>5. Len(NextInLine) \in Nat
    BY <2>3, FrontOfBuffer, EncodedSize DEF NextInLine
  <2> QED BY <1>2, <2>1, <2>3, <2>4, <2>5 DEF Size
<1> QED BY <1>1, <1>2

\* FrameInit: nothing is under way.
LEMMA InitDecoding == FrameInit => Decoding
<1> SUFFICES ASSUME FrameInit PROVE Decoding
  OBVIOUS
<1>1. DecoderTypes
  <2>1. <<>> \in Seq(Byte) /\ <<>> \in Seq(Sendable)
    OBVIOUS
  <2> QED BY <2>1, Zenon DEF FrameInit, DecoderTypes
<1>1a. FramesAsSent
  BY DEF FrameInit, FramesAsSent
<1>1b. HeaderState
  BY DEF FrameInit, HeaderState
<1>2. Layout([k \in 0..0 |-> 0])
  BY DEF FrameInit, Layout
<1> QED BY <1>1, <1>1a, <1>1b, <1>2 DEF Decoding

\* Reset puts all of it back.
LEMMA ResetDecoding == Reset => Decoding'
<1> SUFFICES ASSUME Reset PROVE Decoding'
  OBVIOUS
<1>1. DecoderTypes'
  <2>1. <<>> \in Seq(Byte) /\ <<>> \in Seq(Sendable)
    OBVIOUS
  <2> QED BY <2>1, Zenon DEF Reset, DecoderTypes
<1>1a. FramesAsSent'
  BY DEF Reset, FramesAsSent
<1>1b. HeaderState'
  BY DEF Reset, HeaderState
<1>2. Layout([k \in 0..0 |-> 0])'
  BY DEF Reset, Layout
<1> QED BY <1>1, <1>1a, <1>1b, <1>2 DEF Decoding

(***************************************************************************)
(* Bytes e sent behind the bytes t that are under way to a buffer b leave  *)
(* those where they are and follow them.                                   *)
(***************************************************************************)
LEMMA SentBehind ==
  ASSUME NEW b \in Seq(Byte), NEW t \in Seq(Byte), NEW e \in Seq(Byte)
  PROVE  /\ \A m \in 1..(Len(b) + Len(t)) : (b \o (t \o e))[m] = (b \o t)[m]
         /\ \A i \in 1..Len(e) : (b \o (t \o e))[(Len(b) + Len(t)) + i] = e[i]
<1>1. Len(t \o e) = Len(t) + Len(e) /\ Len(b) \in Nat /\ Len(t) \in Nat /\ Len(e) \in Nat
  OBVIOUS
<1>2. \A m \in 1..(Len(b) + (Len(t) + Len(e))) :
        (b \o (t \o e))[m] = IF m <= Len(b) THEN b[m] ELSE (t \o e)[m - Len(b)]
  <2>1. t \o e \in Seq(Byte)
    OBVIOUS
  <2> QED BY <1>1, <2>1, ConcatProperties
<1>3. \A m \in 1..(Len(b) + Len(t)) :
        (b \o t)[m] = IF m <= Len(b) THEN b[m] ELSE t[m - Len(b)]
  BY ConcatProperties
<1>4. \A m \in 1..(Len(t) + Len(e)) :
        (t \o e)[m] = IF m <= Len(t) THEN t[m] ELSE e[m - Len(t)]
  BY ConcatProperties
<1>5. ASSUME NEW m \in 1..(Len(b) + Len(t)) PROVE (b \o (t \o e))[m] = (b \o t)[m]
  <2>1. CASE m <= Len(b)
    BY <1>1, <1>2, <1>3, <2>1
  <2>2. CASE ~(m <= Len(b))
    <3>1. m - Len(b) \in 1..(Len(t) + Len(e)) /\ m - Len(b) <= Len(t)
      BY <1>1, <2>2
    <3> QED BY <1>1, <1>2, <1>3, <1>4, <2>2, <3>1
  <2> QED BY <2>1, <2>2
<1>6. ASSUME NEW i \in 1..Len(e) PROVE (b \o (t \o e))[(Len(b) + Len(t)) + i] = e[i]
  <2> DEFINE m == (Len(b) + Len(t)) + i
  <2>1. m \in 1..(Len(b) + (Len(t) + Len(e))) /\ ~(m <= Len(b)) /\ m - Len(b) = Len(t) + i
    BY <1>1
  <2>2. Len(t) + i \in 1..(Len(t) + Len(e)) /\ ~(Len(t) + i <= Len(t)) /\ (Len(t) + i) - Len(t) = i
    BY <1>1
  <2>3. (t \o e)[Len(t) + i] = e[i]
    BY <1>4, <2>2
  <2> QED BY <1>2, <2>1, <2>3
<1> QED BY <1>5, <1>6

\* The i-th of l places that end at c lies between a and z.
LEMMA Inside ==
  ASSUME NEW a \in Nat, NEW b \in Nat, NEW c \in Nat, NEW z \in Nat, NEW l \in Nat, NEW i \in 1..l,
         a <= b, c = b + l, c <= z
  PROVE  (b - a) + i \in 1..(z - a)
OBVIOUS

\* A frame sent comes after all the bytes there are.
LEMMA SendDecoding ==
  ASSUME Decoding, NEW f \in Sendable, Send(f)
  PROVE  Decoding'
<1> DEFINE e == EncodeFrame(f)
           d == Len(decoded)
<1>0. /\ buffer \in Seq(Byte) /\ transit \in Seq(Byte) /\ Len(buffer) \in Nat /\ Len(transit) \in Nat
      /\ sent \in Seq(Sendable) /\ Len(sent) \in Nat /\ d \in Nat /\ d <= Len(sent)
  BY DEF Decoding, DecoderTypes, FramesAsSent
<1>1. e \in Seq(Byte) /\ Len(e) \in Nat /\ 0 < Len(e)
  BY EncodedSize
<1>2. /\ sent' = Append(sent, f) /\ transit' = transit \o e
      /\ UNCHANGED <<buffer, headerRead, frameSize, decoded, last>>
  BY DEF Send, decoder
<1>3. PICK n \in Nat : n = Len(sent)
  BY <1>0
<1>4. PICK cut : Layout(cut)
  BY DEF Decoding
<1>5. /\ sent' \in Seq(Sendable) /\ Len(sent') = n + 1 /\ sent'[n + 1] = f
      /\ \A k \in 1..n : sent'[k] = sent[k]
  BY <1>0, <1>2, <1>3
<1> HIDE DEF e
<1>6. /\ transit' \in Seq(Byte) /\ Len(transit') = Len(transit) + Len(e)
  BY <1>0, <1>1, <1>2
<1>7. DecoderTypes'
  BY <1>2, <1>5, <1>6 DEF Decoding, DecoderTypes
<1>8. FramesAsSent'
  <2>1. \A i \in 1..d : decoded[i] = sent[i]
    BY DEF Decoding, FramesAsSent
  <2>2. \A i \in 1..d : i \in 1..n
    BY <1>0, <1>3
  <2>3. \A i \in 1..d : decoded[i] = sent'[i]
    BY <1>5, <2>1, <2>2
  <2>4. d <= Len(sent')
    BY <1>0, <1>3, <1>5
  <2> QED BY <1>2, <2>3, <2>4, Zenon DEF FramesAsSent
<1>9. HeaderState'
  <2>1. d < Len(sent) => NextInLine' = NextInLine
    <3>1. d < Len(sent) => d + 1 \in 1..n
      BY <1>0, <1>3
    <3> QED BY <1>2, <1>5, <3>1 DEF NextInLine
  <2>2. d = Len(sent) => NextInLine' = e
    BY <1>2, <1>3, <1>5 DEF NextInLine, e
  <2>3. d = Len(sent) => Len(buffer) = 0
    BY FrontOfBuffer
  <2>4. d < Len(sent) \/ d = Len(sent)
    BY <1>0
  <2>5. d < Len(sent')
    BY <1>0, <1>3, <1>5
  <2> QED BY <1>1, <1>2, <2>1, <2>2, <2>3, <2>4, <2>5 DEF Decoding, HeaderState
<1> DEFINE new == [k \in 0..(n + 1) |-> IF k <= n THEN cut[k] ELSE cut[n] + Len(e)]
<1>10. /\ cut \in [0..n -> Nat] /\ cut[0] = 0
       /\ \A j, k \in 0..n : j <= k => cut[j] <= cut[k]
       /\ \A k \in 1..n : cut[k] = cut[k - 1] + Len(EncodeFrame(sent[k]))
       /\ cut[n] = cut[d] + Len(buffer) + Len(transit)
       /\ \A k \in (d + 1)..n : \A i \in 1..Len(EncodeFrame(sent[k])) :
            (buffer \o transit)[(cut[k - 1] - cut[d]) + i] = EncodeFrame(sent[k])[i]
  BY <1>3, <1>4 DEF Layout
<1>11. /\ new \in [0..(n + 1) -> Nat] /\ \A k \in 0..n : new[k] = cut[k]
       /\ new[n + 1] = cut[n] + Len(e) /\ cut[n] \in Nat
  BY <1>1, <1>3, <1>10
<1> HIDE DEF new
<1>12. Layout(new)'
  <2>1. new[0] = 0
    BY <1>10, <1>11
  <2>2. \A j, k \in 0..(n + 1) : j <= k => new[j] <= new[k]
    <3> SUFFICES ASSUME NEW j \in 0..(n + 1), NEW k \in 0..(n + 1), j <= k PROVE new[j] <= new[k]
      OBVIOUS
    <3>1. CASE k <= n
      BY <1>10, <1>11, <3>1
    <3>2. CASE k = n + 1 /\ j <= n
      <4>1. j \in 0..n /\ n \in 0..n /\ cut[j] <= cut[n] /\ cut[j] \in Nat
        BY <1>10, <3>2
      <4> QED BY <1>1, <1>11, <3>2, <4>1
    <3>3. CASE k = n + 1 /\ j = n + 1
      BY <1>1, <1>11, <3>3
    <3> QED BY <3>1, <3>2, <3>3
  <2>3. \A k \in 1..(n + 1) : new[k] = new[k - 1] + Len(EncodeFrame(sent'[k]))
    <3> SUFFICES ASSUME NEW k \in 1..(n + 1) PROVE new[k] = new[k - 1] + Len(EncodeFrame(sent'[k]))
      OBVIOUS
    <3>1. CASE k \in 1..n
      <4>1. k - 1 \in 0..n /\ k \in 0..n
        BY <3>1
      <4> QED BY <1>5, <1>10, <1>11, <3>1, <4>1
    <3>2. CASE k = n + 1
      <4>1. k - 1 = n /\ n \in 0..n
        BY <3>2
      <4> QED BY <1>5, <1>11, <3>2, <4>1 DEF e
    <3> QED BY <3>1, <3>2
  <2>4. d \in 0..n
    BY <1>0, <1>3
  <2>5. new[n + 1] = new[d] + Len(buffer) + Len(transit')
    <3>1. cut[d] \in Nat
      BY <1>10, <2>4
    <3> QED BY <1>0, <1>1, <1>6, <1>10, <1>11, <2>4, <3>1
  <2>6. ASSUME NEW k \in (d + 1)..(n + 1), NEW i \in 1..Len(EncodeFrame(sent'[k]))
        PROVE  (buffer \o transit')[(new[k - 1] - new[d]) + i] = EncodeFrame(sent'[k])[i]
    <3> DEFINE m == (new[k - 1] - new[d]) + i
    <3>1. m = (cut[k - 1] - cut[d]) + i /\ cut[d] <= cut[k - 1] /\ cut[d] \in Nat /\ cut[k - 1] \in Nat
      <4>1. k - 1 \in 0..n /\ d <= k - 1
        BY <1>0, <2>4
      <4>2. new[k - 1] = cut[k - 1] /\ new[d] = cut[d]
        BY <1>11, <2>4, <4>1
      <4>3. cut[d] <= cut[k - 1]
        BY <1>10, <2>4, <4>1
      <4>4. cut[d] \in Nat /\ cut[k - 1] \in Nat
        BY <1>10, <2>4, <4>1
      <4> QED BY <4>2, <4>3, <4>4, Zenon
    <3>2. /\ \A x \in 1..(Len(buffer) + Len(transit)) : (buffer \o transit')[x] = (buffer \o transit)[x]
          /\ \A x \in 1..Len(e) : (buffer \o transit')[(Len(buffer) + Len(transit)) + x] = e[x]
      <4>1. buffer \in Seq(Byte) /\ transit \in Seq(Byte) /\ e \in Seq(Byte)
        BY <1>0, <1>1, Zenon
      <4>2. transit' = transit \o e
        BY <1>2
      <4> HIDE DEF e
      <4>3. /\ \A x \in 1..(Len(buffer) + Len(transit)) :
                 (buffer \o (transit \o e))[x] = (buffer \o transit)[x]
            /\ \A x \in 1..Len(e) : (buffer \o (transit \o e))[(Len(buffer) + Len(transit)) + x] = e[x]
        BY <4>1, SentBehind, Zenon
      <4> QED BY <4>2, <4>3, Zenon
    <3> HIDE DEF m
    <3>3. CASE k \in (d + 1)..n
      <4>1. sent'[k] = sent[k] /\ k \in 1..n /\ sent[k] \in Sendable /\ i \in 1..Len(EncodeFrame(sent[k]))
        BY <1>0, <1>3, <1>5, <3>3
      <4>2. (buffer \o transit)[m] = EncodeFrame(sent[k])[i]
        <5>1. (buffer \o transit)[(cut[k - 1] - cut[d]) + i] = EncodeFrame(sent[k])[i]
          BY <1>10, <3>3, <4>1, Zenon
        <5> QED BY <3>1, <5>1, Zenon
      <4>3. cut[k] = cut[k - 1] + Len(EncodeFrame(sent[k])) /\ cut[k] <= cut[n] /\ cut[k] \in Nat
        BY <1>10, <4>1
      <4>4. Len(EncodeFrame(sent[k])) \in Nat
        BY <4>1, EncodedSize
      <4>5. m \in 1..(Len(buffer) + Len(transit))
        <5>1. cut[n] = cut[d] + Len(buffer) + Len(transit) /\ cut[n] \in Nat
          BY <1>10
        <5>2. (cut[k - 1] - cut[d]) + i \in 1..(cut[n] - cut[d])
          BY <3>1, <4>1, <4>3, <4>4, <5>1, Inside, Zenon
        <5>3. cut[n] - cut[d] = Len(buffer) + Len(transit)
          BY <1>0, <3>1, <5>1, SMTT(40)
        <5> QED BY <3>1, <5>2, <5>3
      <4>6. (buffer \o transit')[m] = (buffer \o transit)[m]
        BY <3>2, <4>5, Zenon
      <4>7. (buffer \o transit')[m] = EncodeFrame(sent'[k])[i]
        BY <4>1, <4>2, <4>6, Zenon
      <4> QED BY <4>7, Zenon DEF m
    <3>4. CASE k = n + 1
      <4>1. sent'[k] = f /\ i \in 1..Len(e) /\ k - 1 = n /\ EncodeFrame(sent'[k]) = e
        BY <1>5, <3>4 DEF e
      <4>2. m = (Len(buffer) + Len(transit)) + i
        BY <1>0, <1>10, <3>1, <4>1
      <4>3. (buffer \o transit')[m] = EncodeFrame(sent'[k])[i]
        <5> HIDE DEF e
        <5> QED BY <3>2, <4>1, <4>2, Zenon
      <4> QED BY <4>3, Zenon DEF m
    <3>5. k \in (d + 1)..n \/ k = n + 1
      BY <1>0
    <3> QED BY <3>3, <3>4, <3>5, Zenon
  <2>7. Len(sent') = n + 1 /\ Len(decoded') = d /\ buffer' = buffer
    BY <1>2, <1>5
  <2>8. new \in [0..Len(sent') -> Nat] /\ \A j, k \in 0..Len(sent') : j <= k => new[j] <= new[k]
    BY <1>11, <2>2, <2>7, Zenon
  <2>9. \A k \in 1..Len(sent') : new[k] = new[k - 1] + Len(EncodeFrame(sent'[k]))
    BY <2>3, <2>7, Zenon
  <2>10. new[Len(sent')] = new[Len(decoded')] + Len(buffer') + Len(transit')
    BY <2>5, <2>7, Zenon
  <2>11. \A k \in (Len(decoded') + 1)..Len(sent') : \A i \in 1..Len(EncodeFrame(sent'[k])) :
           (buffer' \o transit')[(new[k - 1] - new[Len(decoded')]) + i] = EncodeFrame(sent'[k])[i]
    <3> SUFFICES ASSUME NEW k \in (d + 1)..(n + 1), NEW i \in 1..Len(EncodeFrame(sent'[k]))
                 PROVE  (buffer' \o transit')[(new[k - 1] - new[Len(decoded')]) + i] = EncodeFrame(sent'[k])[i]
      BY <2>7, Zenon
    <3>1. (buffer \o transit')[(new[k - 1] - new[d]) + i] = EncodeFrame(sent'[k])[i]
      BY <2>6, Zenon
    <3> QED BY <2>7, <3>1, Zenon
  <2> QED BY <2>1, <2>8, <2>9, <2>10, <2>11, Zenon DEF Layout
<1> QED BY <1>7, <1>8, <1>9, <1>12 DEF Decoding

\* Feed moves bytes from the transport to the buffer.
LEMMA FeedDecoding ==
  ASSUME Decoding, NEW n \in Nat, Feed(n)
  PROVE  Decoding'
<1>0. /\ buffer \in Seq(Byte) /\ transit \in Seq(Byte) /\ Len(buffer) \in Nat /\ Len(transit) \in Nat
      /\ n <= Len(transit) /\ n \in Int /\ 1 \in Int /\ n + 1 \in Int /\ Len(transit) \in Int
  BY DEF Decoding, DecoderTypes, Feed
<1> DEFINE chunk == SubSeq(transit, 1, n)
           rest == SubSeq(transit, n + 1, Len(transit))
<1>1. /\ chunk \in Seq(Byte) /\ Len(chunk) = n
      /\ \A i \in 1..n : chunk[i] = transit[i]
  BY <1>0, SubSeqProperties
<1>2. /\ rest \in Seq(Byte) /\ Len(rest) = Len(transit) - n
      /\ \A i \in 1..(Len(transit) - n) : rest[i] = transit[n + i]
  BY <1>0, SubSeqProperties
<1>3. chunk \o rest = transit
  <2>1. 1 \in 1..(Len(transit) + 1) /\ n \in (1 - 1)..Len(transit) /\ Len(transit) \in n..Len(transit)
    BY <1>0
  <2>2. chunk \o rest = SubSeq(transit, 1, Len(transit))
    BY <1>0, <2>1, ConcatAdjacentSubSeq
  <2> QED BY <1>0, <2>2, SubSeqFull
<1>4. /\ buffer' = buffer \o chunk /\ transit' = rest /\ last' = "fed"
      /\ UNCHANGED <<headerRead, frameSize, sent, decoded>>
  BY DEF Feed
<1> HIDE DEF chunk, rest
<1>5. (buffer \o chunk) \o rest = buffer \o (chunk \o rest)
  <2>1. buffer \in Seq(Byte) /\ chunk \in Seq(Byte) /\ rest \in Seq(Byte)
    BY <1>0, <1>1, <1>2, Zenon
  <2> QED BY <2>1, ConcatAssociative
<1>6. buffer' \o transit' = buffer \o transit
  BY <1>3, <1>4, <1>5
<1>7. buffer' \in Seq(Byte) /\ transit' \in Seq(Byte) /\ Len(buffer') = Len(buffer) + n /\ Len(transit') = Len(transit) - n
  <2>1. buffer \o chunk \in Seq(Byte) /\ Len(buffer \o chunk) = Len(buffer) + n
    BY <1>0, <1>1, ConcatProperties
  <2> QED BY <1>2, <1>4, <2>1
<1>8. DecoderTypes' /\ FramesAsSent'
  BY <1>4, <1>7 DEF Decoding, DecoderTypes, FramesAsSent
<1>9. HeaderState'
  <2>1. FrameHeaderSize \in Nat
    BY FrameConstants DEF FrameHeaderSize
  <2>2. headerRead => Len(buffer') >= FrameHeaderSize
    BY <1>0, <1>7, <2>1 DEF Decoding, HeaderState
  <2>3. /\ headerRead' = headerRead /\ frameSize' = frameSize /\ sent' = sent /\ decoded' = decoded
        /\ last' = "fed" /\ NextInLine' = NextInLine
    BY <1>4 DEF NextInLine
  <2> QED BY <2>2, <2>3 DEF Decoding, HeaderState
<1>10. PICK cut : Layout(cut)
  BY DEF Decoding
<1>11. Layout(cut)'
  <2>1. cut[Len(decoded)] \in Nat
    BY <1>10 DEF Layout, Decoding, DecoderTypes, FramesAsSent
  <2>2. cut[Len(decoded)] + Len(buffer) + Len(transit) = cut[Len(decoded)] + Len(buffer') + Len(transit')
    BY <1>0, <1>7, <2>1
  <2>3. sent' = sent /\ decoded' = decoded
    BY <1>4
  <2>4. cut[Len(sent)] = cut[Len(decoded)] + Len(buffer') + Len(transit')
    BY <1>10, <2>2 DEF Layout
  <2>5. \A k \in (Len(decoded) + 1)..Len(sent) : \A i \in 1..Len(EncodeFrame(sent[k])) :
          (buffer' \o transit')[(cut[k - 1] - cut[Len(decoded)]) + i] = EncodeFrame(sent[k])[i]
    BY <1>6, <1>10, Zenon DEF Layout
  <2>6. /\ cut \in [0..Len(sent) -> Nat] /\ cut[0] = 0
        /\ \A j, k \in 0..Len(sent) : j <= k => cut[j] <= cut[k]
        /\ \A k \in 1..Len(sent) : cut[k] = cut[k - 1] + Len(EncodeFrame(sent[k]))
    BY <1>10 DEF Layout
  <2> QED BY <2>3, <2>4, <2>5, <2>6, Zenon DEF Layout
<1> QED BY <1>8, <1>9, <1>11 DEF Decoding

\* What stays true while Next leaves the bytes and the frames alone.
LEMMA BytesKept ==
  ASSUME Decoding, UNCHANGED <<buffer, sent, transit, decoded>>, headerRead' \in BOOLEAN
  PROVE  DecoderTypes' /\ FramesAsSent' /\ \E cut : Layout(cut)'
<1>1. DecoderTypes' /\ FramesAsSent'
  BY DEF Decoding, DecoderTypes, FramesAsSent
<1>2. PICK cut : Layout(cut)
  BY DEF Decoding
<1>3. Layout(cut)'
  BY <1>2 DEF Layout
<1> QED BY <1>1, <1>3

\* Next waits, for the header or for the rest of the frame.
LEMMA WaitsDecoding == Decoding /\ NextWaits => Decoding'
<1> SUFFICES ASSUME Decoding, NextWaits PROVE Decoding'
  OBVIOUS
<1>1. last' = "nil" /\ UNCHANGED <<buffer, sent, transit, decoded>>
  BY DEF NextWaits
<1>2. headerRead' \in BOOLEAN
  BY DEF NextWaits, Decoding, DecoderTypes
<1>3. DecoderTypes' /\ FramesAsSent' /\ \E cut : Layout(cut)'
  BY <1>1, <1>2, BytesKept
<1>4. HeaderState'
  <2>0. NextInLine' = NextInLine
    BY <1>1 DEF NextInLine
  <2>1. CASE ~HeaderThere /\ UNCHANGED <<headerRead, frameSize>>
    <3>1. Len(decoded) < Len(sent) => Len(NextInLine) \in Nat /\ FrameHeaderSize \in Nat /\ FrameHeaderSize <= Len(NextInLine)
      BY FrontOfBuffer, EncodedSize DEF NextInLine
    <3>2. ~headerRead /\ ~(Len(buffer) >= FrameHeaderSize) /\ Len(buffer) \in Nat
      BY <2>1, FrontOfBuffer DEF HeaderThere
    <3> QED BY <1>1, <2>0, <2>1, <3>1, <3>2 DEF HeaderState
  <2>2. CASE /\ HeaderThere
             /\ headerRead \/ Size <= MaxFrameSize
             /\ Len(buffer) < Size /\ headerRead' = TRUE /\ frameSize' = Size
    <3>1. Len(decoded) < Len(sent) /\ Size = Len(NextInLine) /\ Size <= MaxFrameSize
          /\ Len(buffer) >= FrameHeaderSize
      BY <2>2, SizeIsNext
    <3> QED BY <1>1, <2>0, <2>2, <3>1 DEF HeaderState
  <2> QED BY <2>1, <2>2 DEF NextWaits
<1> QED BY <1>3, <1>4 DEF Decoding

\* Next refuses a frame that is too large.
LEMMA RefusesDecoding == Decoding /\ NextRefuses => Decoding'
<1> SUFFICES ASSUME Decoding, NextRefuses PROVE Decoding'
  OBVIOUS
<1>1. last' = "error" /\ UNCHANGED <<buffer, headerRead, sent, transit, decoded>>
  BY DEF NextRefuses
<1>2. DecoderTypes' /\ FramesAsSent' /\ \E cut : Layout(cut)'
  <2>1. headerRead' \in BOOLEAN
    BY <1>1 DEF Decoding, DecoderTypes
  <2> QED BY <1>1, <2>1, BytesKept
<1>3. HeaderState'
  <2>1. HeaderThere /\ ~headerRead /\ Size > MaxFrameSize
    BY DEF NextRefuses
  <2>2. Len(decoded) < Len(sent) /\ Size = Len(NextInLine)
    BY <2>1, SizeIsNext
  <2> QED BY <1>1, <2>1, <2>2 DEF HeaderState, NextInLine
<1> QED BY <1>2, <1>3 DEF Decoding

\* Taking the first z off a sequence moves the places of what follows.
LEMMA DropFront ==
  ASSUME NEW s \in Seq(Byte), NEW t \in Seq(Byte), NEW z \in Nat, z <= Len(s)
  PROVE  /\ SubSeq(s, z + 1, Len(s)) \in Seq(Byte) /\ Len(SubSeq(s, z + 1, Len(s))) = Len(s) - z
         /\ \A m \in 1..((Len(s) - z) + Len(t)) :
              (SubSeq(s, z + 1, Len(s)) \o t)[m] = (s \o t)[z + m]
<1> DEFINE r == SubSeq(s, z + 1, Len(s))
<1>0. Len(s) \in Nat /\ Len(t) \in Nat
  OBVIOUS
<1>1. \A i \in (z + 1)..Len(s) : s[i] \in Byte
  OBVIOUS
<1>2. /\ r \in Seq(Byte) /\ Len(r) = IF z + 1 <= Len(s) THEN Len(s) - (z + 1) + 1 ELSE 0
      /\ \A i \in 1..(Len(s) - (z + 1) + 1) : r[i] = s[z + 1 + i - 1]
  BY <1>0, <1>1, SubSeqProperties
<1> HIDE DEF r
<1>3. Len(r) = Len(s) - z /\ \A i \in 1..Len(r) : r[i] = s[z + i]
  BY <1>0, <1>2
<1>4. ASSUME NEW m \in 1..((Len(s) - z) + Len(t)) PROVE (r \o t)[m] = (s \o t)[z + m]
  <2>1. m \in 1..(Len(r) + Len(t)) /\ z + m \in 1..(Len(s) + Len(t))
    BY <1>0, <1>3
  <2>2. (r \o t)[m] = IF m <= Len(r) THEN r[m] ELSE t[m - Len(r)]
    BY <1>2, <2>1, ConcatProperties
  <2>3. (s \o t)[z + m] = IF z + m <= Len(s) THEN s[z + m] ELSE t[(z + m) - Len(s)]
    BY <2>1, ConcatProperties
  <2>4. CASE m <= Len(r)
    <3>1. m \in 1..Len(r) /\ z + m <= Len(s)
      BY <1>0, <1>3, <2>4
    <3> QED BY <1>3, <2>2, <2>3, <2>4, <3>1
  <2>5. CASE ~(m <= Len(r))
    <3>1. ~(z + m <= Len(s)) /\ m - Len(r) = (z + m) - Len(s)
      BY <1>0, <1>3, <2>5
    <3> QED BY <2>2, <2>3, <2>5, <3>1
  <2> QED BY <2>4, <2>5
<1> QED BY <1>2, <1>3, <1>4 DEF r

\* Next returns the next frame and removes its bytes.
LEMMA DecodesDecoding == Decoding /\ NextDecodes => Decoding'
<1> SUFFICES ASSUME Decoding, NextDecodes PROVE Decoding'
  OBVIOUS
<1> DEFINE d == Len(decoded)
           g == sent[d + 1]
           raw == SubSeq(buffer, 1, Size)
<1>0. /\ buffer \in Seq(Byte) /\ transit \in Seq(Byte) /\ Len(buffer) \in Nat /\ Len(transit) \in Nat
      /\ sent \in Seq(Sendable) /\ Len(sent) \in Nat /\ decoded \in Seq(Sendable) /\ d \in Nat
  BY DEF Decoding, DecoderTypes
<1>1. HeaderThere /\ (headerRead \/ Size <= MaxFrameSize) /\ Len(buffer) >= Size
  BY DEF NextDecodes
<1>2. d < Len(sent) /\ Size = Len(NextInLine) /\ Size \in Nat /\ Size <= MaxFrameSize
  BY <1>1, SizeIsNext
<1>3. g \in Sendable /\ NextInLine = EncodeFrame(g) /\ NextInLine \in Seq(Byte)
  BY <1>2, FrontOfBuffer, EncodedSize DEF NextInLine
<1>4. raw = EncodeFrame(g)
  <2>1. Size \in 0..Len(buffer) /\ Size <= Len(NextInLine)
    BY <1>0, <1>1, <1>2
  <2>2. raw = SubSeq(NextInLine, 1, Size)
    BY <1>2, <2>1, FrontOfBuffer
  <2>3. SubSeq(NextInLine, 1, Len(NextInLine)) = NextInLine
    BY <1>3, SubSeqFull
  <2> QED BY <1>2, <1>3, <2>2, <2>3
<1>5. DecodeFrame(raw) = [err |-> "nil", frame |-> g]
  BY <1>2, <1>3, <1>4, DecodesWhatWasEncoded
<1>6. /\ decoded' = Append(decoded, g)
      /\ buffer' = SubSeq(buffer, Size + 1, Len(buffer))
      /\ headerRead' = FALSE /\ last' = "frame" /\ UNCHANGED <<sent, transit>>
  <2>1. DecodeFrame(raw).err = "nil" /\ DecodeFrame(raw).frame = g
    BY <1>5
  <2> QED BY <2>1, Zenon DEF NextDecodes
<1> HIDE DEF g, raw
<1>7. PICK z \in Nat : z = Size /\ z <= Len(buffer) /\ z = Len(EncodeFrame(g))
  BY <1>0, <1>1, <1>2, <1>3
<1>8. /\ buffer' \in Seq(Byte) /\ Len(buffer') = Len(buffer) - z
      /\ \A m \in 1..((Len(buffer) - z) + Len(transit)) : (buffer' \o transit)[m] = (buffer \o transit)[z + m]
  <2>1. buffer' = SubSeq(buffer, z + 1, Len(buffer))
    BY <1>6, <1>7
  <2>2. buffer \in Seq(Byte) /\ transit \in Seq(Byte) /\ z \in Nat /\ z <= Len(buffer)
    BY <1>0, <1>7, Zenon
  <2> DEFINE r == SubSeq(buffer, z + 1, Len(buffer))
  <2>3. /\ r \in Seq(Byte) /\ Len(r) = Len(buffer) - z
        /\ \A m \in 1..((Len(buffer) - z) + Len(transit)) : (r \o transit)[m] = (buffer \o transit)[z + m]
    BY <2>2, DropFront, Zenon
  <2> HIDE DEF r
  <2> QED BY <2>1, <2>3, Zenon DEF r
<1>9. /\ decoded' \in Seq(Sendable) /\ Len(decoded') = d + 1 /\ decoded'[d + 1] = g
      /\ \A i \in 1..d : decoded'[i] = decoded[i]
  BY <1>0, <1>3, <1>6
<1>10. DecoderTypes'
  BY <1>0, <1>6, <1>8, <1>9 DEF DecoderTypes
<1>11. FramesAsSent'
  <2>1. d + 1 <= Len(sent) /\ \A i \in 1..(d + 1) : i \in 1..d \/ i = d + 1
    BY <1>0, <1>2
  <2> QED BY <1>6, <1>9, <2>1 DEF g, Decoding, FramesAsSent
<1>12. HeaderState'
  BY <1>6 DEF HeaderState
<1>13. PICK cut : Layout(cut)
  BY DEF Decoding
<1>14. /\ cut \in [0..Len(sent) -> Nat]
       /\ \A j, k \in 0..Len(sent) : j <= k => cut[j] <= cut[k]
       /\ \A k \in 1..Len(sent) : cut[k] = cut[k - 1] + Len(EncodeFrame(sent[k]))
       /\ cut[Len(sent)] = cut[d] + Len(buffer) + Len(transit)
       /\ \A k \in (d + 1)..Len(sent) : \A i \in 1..Len(EncodeFrame(sent[k])) :
            (buffer \o transit)[(cut[k - 1] - cut[d]) + i] = EncodeFrame(sent[k])[i]
  BY <1>13 DEF Layout
<1>15. /\ cut[d + 1] = cut[d] + z /\ cut[d] \in Nat /\ cut[d + 1] \in Nat /\ cut[Len(sent)] \in Nat
       /\ d + 1 \in 0..Len(sent)
  <2>1. d + 1 \in 1..Len(sent) /\ d + 1 \in 0..Len(sent) /\ d \in 0..Len(sent) /\ Len(sent) \in 0..Len(sent)
        /\ (d + 1) - 1 = d
    BY <1>0, <1>2
  <2>2. cut[d + 1] = cut[d] + Len(EncodeFrame(g))
    BY <1>14, <2>1 DEF g
  <2> QED BY <1>7, <1>14, <2>1, <2>2
<1> HIDE DEF d
<1>16. PICK a \in Nat, b \in Nat, c \in Nat : a = cut[d] /\ b = cut[d + 1] /\ c = cut[Len(sent)]
  BY <1>15
<1>16a. /\ b = a + z /\ c = b + (Len(buffer) - z) + Len(transit)
        /\ c - b = (Len(buffer) - z) + Len(transit)
  <2>1. c = a + Len(buffer) + Len(transit)
    BY <1>14, <1>16
  <2>2. b = a + z
    BY <1>15, <1>16
  <2> QED BY <1>0, <1>7, <2>1, <2>2
<1>17. ASSUME NEW k \in ((d + 1) + 1)..Len(sent), NEW i \in 1..Len(EncodeFrame(sent[k]))
       PROVE  (buffer' \o transit)[(cut[k - 1] - cut[d + 1]) + i] = EncodeFrame(sent[k])[i]
  <2>1. /\ k \in 1..Len(sent) /\ k \in 0..Len(sent) /\ k - 1 \in 0..Len(sent) /\ k \in (d + 1)..Len(sent)
        /\ d + 1 <= k - 1 /\ k <= Len(sent) /\ Len(sent) \in 0..Len(sent)
    BY <1>0
  <2>2. /\ cut[k - 1] \in Nat /\ cut[k] \in Nat /\ cut[d + 1] <= cut[k - 1]
        /\ cut[k] = cut[k - 1] + Len(EncodeFrame(sent[k])) /\ cut[k] <= cut[Len(sent)]
    BY <1>14, <1>15, <2>1
  <2>3. Len(EncodeFrame(sent[k])) \in Nat
    <3>1. sent[k] \in Sendable
      BY <1>0, <2>1
    <3> QED BY <3>1, EncodedSize
  <2>4. PICK e \in Nat : e = cut[k - 1] /\ b <= e
    BY <1>16, <2>2
  <2> DEFINE m == (e - b) + i
  <2>5. m \in 1..(c - b)
    BY <1>16, <2>2, <2>3, <2>4, Inside, Zenon
  <2>6. (buffer' \o transit)[m] = (buffer \o transit)[z + m]
    BY <1>8, <1>16a, <2>5
  <2>7. z + m = (e - a) + i
    <3>1. i \in Int
      BY <2>3
    <3> QED BY <1>16a, <3>1
  <2>8. (buffer \o transit)[(e - a) + i] = EncodeFrame(sent[k])[i]
    BY <1>14, <1>16, <2>1, <2>4, Zenon
  <2> QED BY <1>16, <2>4, <2>6, <2>7, <2>8
<1>18. Layout(cut)'
  <2>1. sent' = sent /\ transit' = transit /\ Len(decoded') = d + 1 /\ Len(buffer') = Len(buffer) - z
    BY <1>6, <1>8, <1>9
  <2>2. cut[0] = 0
    BY <1>13 DEF Layout
  <2>3. cut[Len(sent)] = cut[d + 1] + Len(buffer') + Len(transit)
    BY <1>8, <1>16, <1>16a
  <2>4. \A k \in (Len(decoded') + 1)..Len(sent') : \A i \in 1..Len(EncodeFrame(sent'[k])) :
          (buffer' \o transit')[(cut[k - 1] - cut[Len(decoded')]) + i] = EncodeFrame(sent'[k])[i]
    <3> SUFFICES ASSUME NEW k \in (Len(decoded') + 1)..Len(sent'), NEW i \in 1..Len(EncodeFrame(sent'[k]))
                 PROVE  (buffer' \o transit')[(cut[k - 1] - cut[Len(decoded')]) + i] = EncodeFrame(sent'[k])[i]
      OBVIOUS
    <3>1. k \in ((d + 1) + 1)..Len(sent) /\ i \in 1..Len(EncodeFrame(sent[k]))
      BY <2>1
    <3>2. (buffer' \o transit)[(cut[k - 1] - cut[d + 1]) + i] = EncodeFrame(sent[k])[i]
      BY <1>17, <3>1
    <3> QED BY <2>1, <3>2, Zenon
  <2>5. /\ cut \in [0..Len(sent') -> Nat]
        /\ \A j, k \in 0..Len(sent') : j <= k => cut[j] <= cut[k]
        /\ \A k \in 1..Len(sent') : cut[k] = cut[k - 1] + Len(EncodeFrame(sent'[k]))
    BY <1>14, <2>1
  <2>6. cut[Len(sent')] = cut[Len(decoded')] + Len(buffer') + Len(transit')
    BY <2>1, <2>3
  <2> QED BY <2>2, <2>4, <2>5, <2>6, Zenon DEF Layout
<1> QED BY <1>10, <1>11, <1>12, <1>18 DEF Decoding

\* Every step keeps what is known of the bytes and of the frames.
LEMMA NextDecoding == Decoding /\ [FrameNext]_frameVars => Decoding'
<1> SUFFICES ASSUME Decoding, [FrameNext]_frameVars PROVE Decoding'
  OBVIOUS
<1>1. ASSUME NEW o \in Opcodes, NEW b \in Bodies, Send([opcode |-> o, body |-> b]) PROVE Decoding'
  <2> DEFINE f == [opcode |-> o, body |-> b]
  <2>1. b \in Seq(Byte) /\ Len(b) < Values[LenBytes]
    BY FrameConstants
  <2>2. f \in Frame /\ f.body = b
    BY <2>1 DEF Frame
  <2>3. f \in Sendable
    BY <2>1, <2>2 DEF Sendable
  <2> QED BY <1>1, <2>3, SendDecoding
<1>2. ASSUME NEW n \in 1..MaxChunk, Feed(n) PROVE Decoding'
  <2>1. n \in Nat
    BY FrameConstants
  <2> QED BY <1>2, <2>1, FeedDecoding
<1>3. CASE UNCHANGED frameVars
  <2>1. /\ UNCHANGED <<buffer, sent, transit, decoded, headerRead, frameSize, last>>
    BY <1>3 DEF frameVars, decoder
  <2>2. headerRead' \in BOOLEAN
    BY <2>1 DEF Decoding, DecoderTypes
  <2>3. DecoderTypes' /\ FramesAsSent' /\ \E cut : Layout(cut)'
    BY <2>1, <2>2, BytesKept
  <2>4. HeaderState'
    BY <2>1 DEF Decoding, HeaderState, NextInLine
  <2> QED BY <2>3, <2>4 DEF Decoding
<1> QED BY <1>1, <1>2, <1>3, WaitsDecoding, RefusesDecoding, DecodesDecoding, ResetDecoding DEF FrameNext

(***************************************************************************)
(* Next returns the frames that were sent, in order, none twice and none   *)
(* made up, for any sizes of a byte and of the header's fields, any bodies *)
(* that fit, and any chunks (EncodeFrame, Feed, Next, Reset).              *)
(***************************************************************************)
THEOREM FramesArriveAsSent == FrameSpec => []FramesAsSent
<1>1. Decoding => FramesAsSent
  BY DEF Decoding
<1> QED BY <1>1, InitDecoding, NextDecoding, PTL DEF FrameSpec

\* The ends of the frames as a function.
LEMMA EndRows ==
  ASSUME sent \in Seq(Sendable)
  PROVE  \E end : /\ end[0] = 0
                  /\ \A i \in 1..Len(sent) : end[i] = end[i - 1] + Len(EncodeFrame(sent[i]))
                  /\ \A k : EndOf(k) = end[k]
<1> DEFINE n == Len(sent)
           Body(f) == [i \in 0..n |-> IF i = 0 THEN 0 ELSE f[i - 1] + Len(EncodeFrame(sent[i]))]
           end == CHOOSE f : f = Body(f)
           step == [i \in 1..n |-> [r \in Nat |-> r + Len(EncodeFrame(sent[i]))]]
<1>0. n \in Nat /\ n \in Int /\ 0 <= n
  OBVIOUS
<1>1. \A i \in 1..n : Len(EncodeFrame(sent[i])) \in Nat
  BY EncodedSize
<1>2. \A k : EndOf(k) = end[k]
  BY DEF EndOf
<1> HIDE DEF n
<1>3. step \in [1..n -> [Nat -> Nat]]
  BY <1>1
<1>3a. \A i \in 1..n, r \in Nat : step[i][r] = r + Len(EncodeFrame(sent[i]))
  OBVIOUS
<1> HIDE DEF step
<1>4. PICK f \in [0..n -> Nat] : Computes(f, 0, n, 0, step)
  <2>1. step \in Steps(0, n, Nat)
    BY <1>3 DEF Steps
  <2> QED BY <1>0, <2>1, 0 \in Int, 0 \in Nat, StepsExist, Zenon
<1>5. f = Body(f)
  <2>1. f[0] = 0 /\ \A i \in 1..n : f[i] = step[i][f[i - 1]]
    BY <1>0, <1>4 DEF Computes
  <2>2. \A i \in 1..n : f[i - 1] \in Nat
    BY <1>0
  <2>3. \A i \in 1..n : f[i] = f[i - 1] + Len(EncodeFrame(sent[i]))
    BY <1>3a, <2>1, <2>2
  <2> QED BY <1>0, <2>1, <2>3
<1>6. end = Body(end)
  <2> HIDE DEF Body
  <2> QED BY <1>5
<1> HIDE DEF end
<1>7. \A i \in 0..n : end[i] = IF i = 0 THEN 0 ELSE end[i - 1] + Len(EncodeFrame(sent[i]))
  BY <1>6
<1>8. end[0] = 0 /\ \A i \in 1..n : end[i] = end[i - 1] + Len(EncodeFrame(sent[i]))
  BY <1>0, <1>7
<1> QED BY <1>2, <1>8 DEF n

\* They are where the layout of the bytes has them.
LEMMA EndsAreCuts ==
  ASSUME sent \in Seq(Sendable), NEW cut, Layout(cut)
  PROVE  \A k \in 0..Len(sent) : EndOf(k) = cut[k]
<1> DEFINE n == Len(sent)
<1>0. n \in Nat /\ n \in Int
  OBVIOUS
<1>1. PICK end : /\ end[0] = 0
                 /\ \A i \in 1..n : end[i] = end[i - 1] + Len(EncodeFrame(sent[i]))
                 /\ \A k : EndOf(k) = end[k]
  BY EndRows
<1>2. cut[0] = 0 /\ \A i \in 1..n : cut[i] = cut[i - 1] + Len(EncodeFrame(sent[i]))
  BY DEF Layout
<1> DEFINE S == {k \in Int : end[k] = cut[k]}
<1>3. 0 \in S
  BY <1>1, <1>2
<1>4. ASSUME NEW k \in 0..n, k \in S, k < n PROVE k + 1 \in S
  <2>1. k + 1 \in 1..n /\ (k + 1) - 1 = k /\ k + 1 \in Int
    BY <1>0, <1>4
  <2>2. end[k + 1] = end[k] + Len(EncodeFrame(sent[k + 1])) /\ cut[k + 1] = cut[k] + Len(EncodeFrame(sent[k + 1]))
    BY <1>1, <1>2, <2>1
  <2> QED BY <1>4, <2>1, <2>2
<1>5. \A k \in 0..n : k \in S
  <2> HIDE DEF S, n
  <2> QED BY <1>0, <1>3, <1>4, 0 \in Int, IntervalInduction, Zenon
<1> QED BY <1>1, <1>5

(***************************************************************************)
(* Next holds no frame back: when it asks for more bytes the next frame    *)
(* has not arrived in full, and what it refuses is larger than allowed,    *)
(* for all sizes, bodies and chunks (the header state kept between calls). *)
(***************************************************************************)
THEOREM NoFrameHeldBack == FrameSpec => []NothingHeldBack
<1>1. ASSUME Decoding PROVE NothingHeldBack
  <2> DEFINE d == Len(decoded)
  <2>0. /\ sent \in Seq(Sendable) /\ Len(transit) \in Nat
        /\ Len(sent) \in Nat /\ d \in Nat /\ Len(buffer) \in Nat /\ d <= Len(sent)
    BY <1>1 DEF Decoding, DecoderTypes, FramesAsSent
  <2>1. PICK cut : Layout(cut)
    BY <1>1 DEF Decoding
  <2>2. \A k \in 0..Len(sent) : EndOf(k) = cut[k]
    BY <2>0, <2>1, EndsAreCuts
  <2>3. cut[d] \in Nat /\ cut[Len(sent)] = cut[d] + Len(buffer) + Len(transit)
    BY <2>0, <2>1 DEF Layout
  <2>4. Arrived = cut[d] + Len(buffer)
    <3>1. EndOf(Len(sent)) = cut[Len(sent)]
      BY <2>0, <2>2
    <3> QED BY <2>0, <2>3, <3>1 DEF Arrived
  <2>5. ASSUME d + 1 <= Len(sent)
        PROVE  EndOf(d + 1) = cut[d] + Len(NextInLine) /\ Len(NextInLine) \in Nat
    <3>1. d + 1 \in 0..Len(sent) /\ d + 1 \in 1..Len(sent) /\ (d + 1) - 1 = d
      BY <2>0, <2>5
    <3>2. cut[d + 1] = cut[d] + Len(NextInLine)
      BY <2>1, <3>1 DEF Layout, NextInLine
    <3>3. sent[d + 1] \in Sendable
      BY <2>0, <3>1
    <3> QED BY <2>2, <3>1, <3>2, <3>3, EncodedSize DEF NextInLine
  <2>6. ASSUME last = "nil", d + 1 <= Len(sent) PROVE Arrived < EndOf(d + 1)
    <3>1. Len(buffer) < Len(NextInLine)
      BY <1>1, <2>0, <2>6 DEF Decoding, HeaderState
    <3> QED BY <2>0, <2>3, <2>4, <2>5, <2>6, <3>1
  <2>7. ASSUME last = "error" PROVE d + 1 <= Len(sent) /\ Len(EncodeFrame(sent[d + 1])) > MaxFrameSize
    BY <1>1, <2>0, <2>7 DEF Decoding, HeaderState, NextInLine
  <2> QED BY <2>6, <2>7 DEF NothingHeldBack
<1> QED BY <1>1, InitDecoding, NextDecoding, PTL DEF FrameSpec

-----------------------------------------------------------------------------
(* The sessions that are analysed                                          *)

LogEntries == [type : MessageTypes, seq : SeqNums, took : {0}, at : Instants]
              \cup [type : {"RECONNECT", "ERROR"}, seq : {0}, took : Durations \cup {0}, at : Instants]
Analysed == log \in Seq(LogEntries) /\ clock \in Instants

(***************************************************************************)
(* The log holds events as the recorder makes them, of any number.         *)
(***************************************************************************)
LEMMA LogRecorded == AnalysisSpec => []Analysed
<1>1. AnalysisInit => Analysed
  BY DEF AnalysisInit, Analysed
<1>2. Analysed /\ [AnalysisNext]_analysisVars => Analysed'
  <2> SUFFICES ASSUME Analysed, [AnalysisNext]_analysisVars PROVE Analysed'
    OBVIOUS
  <2>1. ASSUME Record PROVE Analysed'
    <3>1. PICK t \in Instants : RecordMessage(t) \/ RecordReconnect(t) \/ RecordError(t)
      BY <2>1 DEF Record
    <3>2. \E e \in LogEntries : log' = Append(log, e)
      <4>1. CASE RecordMessage(t)
        <5>1. PICK seq \in SeqNums, type \in MessageTypes :
                log' = Append(log, [type |-> type, seq |-> seq, took |-> 0, at |-> t])
          BY <4>1 DEF RecordMessage, RecordEvent, MessageTypes
        <5> QED BY <5>1 DEF LogEntries
      <4>2. CASE RecordReconnect(t)
        <5>1. PICK took \in Durations :
                log' = Append(log, [type |-> "RECONNECT", seq |-> 0, took |-> took, at |-> t])
          BY <4>2 DEF RecordReconnect, RecordEvent
        <5> QED BY <5>1 DEF LogEntries
      <4>3. CASE RecordError(t)
        BY <4>3 DEF RecordError, RecordEvent, LogEntries
      <4> QED BY <3>1, <4>1, <4>2, <4>3
    <3>3. PICK e \in LogEntries : log' = Append(log, e)
      BY <3>2
    <3>4. log \in Seq(LogEntries) /\ clock' = clock /\ clock \in Instants
      BY <2>1 DEF Analysed, Record
    <3>5. log' \in Seq(LogEntries)
      BY <3>3, <3>4, AppendProperties
    <3> QED BY <3>4, <3>5 DEF Analysed
  <2>2. ASSUME TimePasses PROVE Analysed'
    BY <2>2 DEF TimePasses, Analysed
  <2>3. ASSUME UNCHANGED analysisVars PROVE Analysed'
    BY <2>3 DEF analysisVars, Analysed
  <2> QED BY <2>1, <2>2, <2>3 DEF AnalysisNext
<1> QED BY <1>1, <1>2, PTL DEF AnalysisSpec

(* What the proofs need of an event of the log.                            *)
LEMMA EventFacts ==
  ASSUME Analysed, NEW i \in 1..Len(log)
  PROVE  /\ log[i].at \in Nat /\ log[i].at # 0 /\ log[i].took \in Nat
         /\ log[i].type \in {"MESSAGE_SEND", "MESSAGE_RECEIVE", "RECONNECT", "ERROR"}
         /\ log[i].type \in MessageTypes => log[i].seq \in SeqNums
<1>1. log[i] \in LogEntries
  BY DEF Analysed
<1>2. /\ log[i].at \in Instants /\ log[i].took \in Durations \cup {0}
      /\ log[i].type \in {"MESSAGE_SEND", "MESSAGE_RECEIVE", "RECONNECT", "ERROR"}
      /\ log[i].type \in MessageTypes => log[i].seq \in SeqNums
  BY <1>1 DEF LogEntries, MessageTypes
<1>3. /\ log[i].at \in Nat /\ log[i].at # 0
  BY <1>2, AnalysisConstants, Zenon
<1>4. log[i].took \in Nat
  <2>1. CASE log[i].took \in Durations
    BY <2>1, AnalysisConstants, Zenon
  <2>2. CASE log[i].took = 0
    BY <2>2
  <2> QED BY <1>2, <2>1, <2>2
<1> QED BY <1>2, <1>3, <1>4, Zenon

-----------------------------------------------------------------------------
(* Flows                                                                   *)

FlowRecords == [status : {"", "sent", "received"}, send : Nat, receive : Nat, latency : Int]

\* A flow stays one whatever event of the log comes.
LEMMA FlowAfterTyped ==
  ASSUME Analysed, NEW i \in 1..Len(log), NEW flow \in FlowRecords
  PROVE  FlowAfter(flow, log[i]) \in FlowRecords
<1> DEFINE at == log[i].at
           type == log[i].type
<1>1. at \in Nat
  BY EventFacts
<1> HIDE DEF at, type
<1>2. flow.send \in Nat /\ at - flow.send \in Int
  <2>1. flow.send \in Nat
    BY DEF FlowRecords
  <2> QED BY <1>1, <2>1
<1>3. FlowAfter(flow, log[i]) =
        IF type = "MESSAGE_SEND" THEN [flow EXCEPT !.send = at, !.status = "sent"]
        ELSE IF flow.send # 0
        THEN [flow EXCEPT !.receive = at, !.status = "received", !.latency = at - flow.send]
        ELSE [flow EXCEPT !.receive = at]
  BY DEF FlowAfter, at, type
<1> QED BY <1>1, <1>2, <1>3 DEF FlowRecords

(***************************************************************************)
(* The map of flows is what the pass over the log computes event by event. *)
(***************************************************************************)
LEMMA FlowMapRows ==
  ASSUME Analysed
  PROVE  \E after \in [0..Len(log) -> [SeqNums -> FlowRecords]] :
           /\ FlowMap = after[Len(log)] /\ after[0] = [seq \in SeqNums |-> NoFlow]
           /\ \A n \in 1..Len(log) : after[n] = FlowMapAfter(after[n - 1], log[n])
<1> DEFINE n == Len(log)
           V == [SeqNums -> FlowRecords]
           none == [seq \in SeqNums |-> NoFlow]
           Body(f) == [k \in 0..n |-> IF k = 0 THEN none ELSE FlowMapAfter(f[k - 1], log[k])]
           after == CHOOSE f : f = Body(f)
           step == [k \in 1..n |-> [map \in V |-> FlowMapAfter(map, log[k])]]
<1>0. n \in Nat /\ n \in Int /\ 0 <= n /\ none \in V
  BY DEF Analysed, NoFlow, FlowRecords
<1>1. FlowMap = after[n]
  BY DEF FlowMap
<1>2. ASSUME NEW k \in 1..n, NEW map \in V PROVE FlowMapAfter(map, log[k]) \in V
  BY FlowAfterTyped DEF FlowMapAfter
<1> HIDE DEF n, V, none
<1>3. step \in [1..n -> [V -> V]] /\ \A k \in 1..n, map \in V : step[k][map] = FlowMapAfter(map, log[k])
  BY <1>2, Zenon
<1> HIDE DEF step
<1>4. PICK f \in [0..n -> V] : Computes(f, 0, n, none, step)
  <2>1. step \in Steps(0, n, V)
    BY <1>3 DEF Steps
  <2> QED BY <1>0, <2>1, 0 \in Int, StepsExist, Zenon
<1>5. f = Body(f)
  <2>1. f[0] = none /\ \A k \in 1..n : f[k] = step[k][f[k - 1]]
    BY <1>0, <1>4 DEF Computes
  <2>2. \A k \in 1..n : f[k - 1] \in V
    BY <1>0
  <2>3. \A k \in 1..n : f[k] = FlowMapAfter(f[k - 1], log[k])
    BY <1>3, <2>1, <2>2
  <2> QED BY <1>0, <2>1, <2>3
<1>6. after = Body(after)
  <2> HIDE DEF Body
  <2> QED BY <1>5
<1> HIDE DEF after
<1>7. \A k \in 0..n : after[k] = IF k = 0 THEN none ELSE FlowMapAfter(after[k - 1], log[k])
  BY <1>6
<1>8. after[0] = none /\ \A k \in 1..n : after[k] = FlowMapAfter(after[k - 1], log[k])
  BY <1>0, <1>7
<1> DEFINE S == {k \in Int : after[k] \in V}
<1>9. \A k \in 0..n : k \in S
  <2>1. 0 \in S
    BY <1>0, <1>8
  <2>2. ASSUME NEW k \in 0..n, k \in S, k < n PROVE k + 1 \in S
    <3>1. k + 1 \in 1..n /\ (k + 1) - 1 = k /\ k + 1 \in Int
      BY <1>0, <2>2
    <3>2. after[k + 1] = FlowMapAfter(after[k], log[k + 1])
      BY <1>8, <3>1
    <3> QED BY <1>2, <2>2, <3>1, <3>2
  <2> HIDE DEF S
  <2> QED BY <1>0, <2>1, <2>2, 0 \in Int, IntervalInduction, Zenon
<1>10. after \in [0..n -> V]
  <2>1. DOMAIN after = 0..n /\ after = [k \in 0..n |-> after[k]]
    BY <1>6
  <2> QED BY <1>9, <2>1
<1> QED BY <1>1, <1>8, <1>10 DEF n, V, none

(* What the flow of a message is after the events of the positions own.    *)
FlowFollows(flow, own) ==
  LET sends == {i \in own : log[i].type = "MESSAGE_SEND"} IN
  /\ flow \in FlowRecords
  /\ sends = {} => flow.status = ""
  /\ sends = {} <=> flow.send = 0
  /\ \A i \in sends : (\A j \in sends : j <= i) => flow.send = log[i].at
  /\ sends # {} =>
       \A i \in own : (\A j \in own : j <= i) =>
         IF log[i].type = "MESSAGE_SEND" THEN flow.status = "sent"
         ELSE flow.status = "received" /\ flow.latency = log[i].at - flow.send

\* One more event of the message.
LEMMA FlowFollowsNext ==
  ASSUME Analysed, NEW n \in Nat, NEW own \in SUBSET (1..n), n + 1 \in 1..Len(log),
         log[n + 1].type \in MessageTypes,
         NEW flow, FlowFollows(flow, own)
  PROVE  FlowFollows(FlowAfter(flow, log[n + 1]), own \cup {n + 1})
<1> DEFINE e == log[n + 1]
           sends == {i \in own : log[i].type = "MESSAGE_SEND"}
           all == own \cup {n + 1}
           allSends == {i \in all : log[i].type = "MESSAGE_SEND"}
           next == FlowAfter(flow, e)
<1>1. /\ flow \in FlowRecords /\ (sends = {} => flow.status = "") /\ (sends = {} <=> flow.send = 0)
      /\ \A i \in sends : (\A j \in sends : j <= i) => flow.send = log[i].at
  BY DEF FlowFollows
<1>2. next \in FlowRecords /\ e.at \in Nat /\ e.at # 0
  BY <1>1, EventFacts, FlowAfterTyped
<1>3. \A i \in all : (\A j \in all : j <= i) => i = n + 1
  OBVIOUS
<1>4. CASE e.type = "MESSAGE_SEND"
  <2>1. next = [flow EXCEPT !.send = e.at, !.status = "sent"]
    BY <1>4 DEF FlowAfter
  <2>2. next.send = e.at /\ next.status = "sent"
    BY <1>1, <2>1 DEF FlowRecords
  <2>3. n + 1 \in allSends /\ \A i \in allSends : (\A j \in allSends : j <= i) => i = n + 1
    BY <1>4
  <2> HIDE DEF next, allSends, all
  <2>4. /\ allSends # {} /\ next.send # 0
        /\ \A i \in allSends : (\A j \in allSends : j <= i) => next.send = log[i].at
    BY <1>2, <2>2, <2>3 DEF e
  <2>5. \A i \in all : (\A j \in all : j <= i) => log[i].type = "MESSAGE_SEND" /\ next.status = "sent"
    BY <1>3, <1>4, <2>2 DEF e
  <2> QED BY <1>2, <2>4, <2>5 DEF FlowFollows, next, allSends, all, e
<1>5. CASE e.type = "MESSAGE_RECEIVE"
  <2>1. allSends = sends
    BY <1>5
  <2>2. next = IF flow.send # 0
               THEN [flow EXCEPT !.receive = e.at, !.status = "received", !.latency = e.at - flow.send]
               ELSE [flow EXCEPT !.receive = e.at]
    BY <1>5 DEF FlowAfter
  <2>3. next.send = flow.send /\ (flow.send = 0 => next.status = flow.status)
    BY <1>1, <2>2 DEF FlowRecords
  <2>4. flow.send # 0 => next.status = "received" /\ next.latency = e.at - next.send
    BY <1>1, <2>2, <2>3 DEF FlowRecords
  <2> HIDE DEF next, allSends, all, sends
  <2>5. /\ allSends = {} => next.status = ""
        /\ allSends = {} <=> next.send = 0
        /\ \A i \in allSends : (\A j \in allSends : j <= i) => next.send = log[i].at
    BY <1>1, <2>1, <2>3
  <2>6. allSends # {} => \A i \in all : (\A j \in all : j <= i) =>
          /\ log[i].type # "MESSAGE_SEND"
          /\ next.status = "received" /\ next.latency = log[i].at - next.send
    BY <1>1, <1>3, <1>5, <2>1, <2>4 DEF e
  <2> QED BY <1>2, <2>5, <2>6 DEF FlowFollows, next, allSends, all, e
<1> QED BY <1>4, <1>5 DEF MessageTypes

OwnEvents(seq, n) == {i \in 1..n : log[i].type \in MessageTypes /\ log[i].seq = seq}

(***************************************************************************)
(* After any number of events the map holds for every message what its own *)
(* events among them make of it.                                           *)
(***************************************************************************)
LEMMA FlowHistory ==
  ASSUME Analysed, NEW seq \in SeqNums
  PROVE  FlowFollows(FlowMap[seq], OwnEvents(seq, Len(log)))
<1>0. PICK n \in Nat : n = Len(log)
  BY DEF Analysed
<1>1. PICK after : /\ FlowMap = after[n] /\ after[0] = [s \in SeqNums |-> NoFlow]
                   /\ \A k \in 1..n : after[k] = FlowMapAfter(after[k - 1], log[k])
  BY <1>0, FlowMapRows
<1> DEFINE S == {k \in Int : FlowFollows(after[k][seq], OwnEvents(seq, k))}
<1>2. 0 \in S
  <2>1. OwnEvents(seq, 0) = {}
    BY DEF OwnEvents
  <2>2. after[0][seq] = NoFlow
    BY <1>1
  <2>3. FlowFollows(NoFlow, {})
    BY DEF FlowFollows, NoFlow, FlowRecords
  <2> QED BY <2>1, <2>2, <2>3
<1>3. ASSUME NEW k \in 0..n, k \in S, k < n PROVE k + 1 \in S
  <2>1. k \in Nat /\ k + 1 \in 1..n /\ (k + 1) - 1 = k
    BY <1>0, <1>3
  <2>2. after[k + 1][seq] = IF log[k + 1].type \in MessageTypes /\ log[k + 1].seq = seq
                            THEN FlowAfter(after[k][seq], log[k + 1]) ELSE after[k][seq]
    <3>1. after[k + 1] = FlowMapAfter(after[k], log[k + 1])
      BY <1>1, <2>1
    <3> QED BY <3>1 DEF FlowMapAfter
  <2>3. CASE log[k + 1].type \in MessageTypes /\ log[k + 1].seq = seq
    <3>1. OwnEvents(seq, k + 1) = OwnEvents(seq, k) \cup {k + 1} /\ OwnEvents(seq, k) \in SUBSET (1..k)
      BY <2>1, <2>3 DEF OwnEvents
    <3>2. FlowFollows(FlowAfter(after[k][seq], log[k + 1]), OwnEvents(seq, k) \cup {k + 1})
      BY <1>0, <1>3, <2>1, <2>3, <3>1, FlowFollowsNext
    <3> QED BY <2>1, <2>2, <2>3, <3>1, <3>2
  <2>4. CASE ~(log[k + 1].type \in MessageTypes /\ log[k + 1].seq = seq)
    <3>1. OwnEvents(seq, k + 1) = OwnEvents(seq, k)
      BY <2>1, <2>4 DEF OwnEvents
    <3> QED BY <1>3, <2>1, <2>2, <2>4, <3>1
  <2> QED BY <2>3, <2>4
<1>4. n \in S
  <2>1. n \in Int /\ n \in 0..n
    BY <1>0
  <2> HIDE DEF S
  <2> QED BY <1>2, <1>3, <2>1, 0 \in Int, IntervalInduction, Zenon
<1> QED BY <1>0, <1>1, <1>4

\* The greatest of some positions of the log is one of them.
LEMMA MaxIsThere ==
  ASSUME NEW n \in Nat, NEW S \in SUBSET (1..n), S # {}
  PROVE  Max(S) \in S /\ \A k \in S : k <= Max(S)
<1>1. \E m \in S : \A k \in S : m >= k
  <2>1. S \in SUBSET (0..n)
    OBVIOUS
  <2>2. PICK m \in S : \A k \in S : k <= m
    BY <2>1, GreatestElement
  <2> QED BY <2>2
<1>2. Max(S) \in S /\ \A k \in S : Max(S) >= k
  BY <1>1 DEF Max
<1> QED BY <1>2

(***************************************************************************)
(* The one pass over the log says of every message what its own events     *)
(* say, for every session (FlowsAgree, AnalyzeMessageFlows).               *)
(***************************************************************************)
THEOREM FlowsAlwaysAgree == AnalysisSpec => []FlowsAgree
<1>1. Analysed => FlowsAgree
  <2> SUFFICES ASSUME Analysed, NEW seq \in FlowIds
               PROVE  LET own == {i \in EventsOf(log, MessageTypes) : log[i].seq = seq}
                          sends == own \cap EventsOf(log, {"MESSAGE_SEND"})
                          final == log[Max(own)]
                          flow == Flow(seq)
                      IN  IF sends = {} THEN flow.status = ""
                          ELSE IF final.type = "MESSAGE_SEND"
                          THEN flow.status = IF clock - final.at > Patience THEN "timeout" ELSE "sent"
                          ELSE /\ flow.status = "received"
                               /\ flow.latency = final.at - log[Max(sends)].at
    BY DEF FlowsAgree
  <2> DEFINE own == {i \in EventsOf(log, MessageTypes) : log[i].seq = seq}
             sends == own \cap EventsOf(log, {"MESSAGE_SEND"})
             flow == FlowMap[seq]
  <2>0. PICK n \in Nat : n = Len(log)
    BY DEF Analysed
  <2>1. seq \in SeqNums
    <3>1. PICK i \in 1..n : log[i].type \in MessageTypes /\ seq = log[i].seq
      BY <2>0 DEF FlowIds, EventsOf, Analysed
    <3> QED BY <2>0, <3>1, EventFacts
  <2>2. own = OwnEvents(seq, n) /\ sends = {i \in own : log[i].type = "MESSAGE_SEND"}
    BY <2>0 DEF OwnEvents, EventsOf, Analysed
  <2>3. FlowFollows(flow, own)
    BY <2>0, <2>1, <2>2, FlowHistory
  <2>4. own \in SUBSET (1..n) /\ sends \in SUBSET (1..n) /\ sends \in SUBSET own
    BY <2>2 DEF OwnEvents
  <2> HIDE DEF own, sends, flow
  <2>5. /\ flow \in FlowRecords /\ (sends = {} => flow.status = "")
        /\ \A i \in sends : (\A j \in sends : j <= i) => flow.send = log[i].at
        /\ sends # {} => \A i \in own : (\A j \in own : j <= i) =>
             IF log[i].type = "MESSAGE_SEND" THEN flow.status = "sent"
             ELSE flow.status = "received" /\ flow.latency = log[i].at - flow.send
    BY <2>2, <2>3 DEF FlowFollows
  <2>6. Flow(seq) = IF flow.status = "sent" /\ clock - flow.send > Patience
                    THEN [flow EXCEPT !.status = "timeout"] ELSE flow
    BY DEF Flow, flow
  <2>7. CASE sends = {}
    <3>1. Flow(seq).status = ""
      BY <2>5, <2>6, <2>7
    <3> QED BY <2>7, <3>1 DEF own, sends
  <2>8. CASE sends # {}
    <3>1. Max(sends) \in sends /\ \A k \in sends : k <= Max(sends)
      BY <2>4, <2>8, MaxIsThere
    <3>2. Max(own) \in own /\ \A k \in own : k <= Max(own)
      BY <2>4, <2>8, MaxIsThere
    <3>3. flow.send = log[Max(sends)].at
      BY <2>5, <3>1
    <3>4. IF log[Max(own)].type = "MESSAGE_SEND" THEN flow.status = "sent"
          ELSE flow.status = "received" /\ flow.latency = log[Max(own)].at - flow.send
      BY <2>5, <2>8, <3>2
    <3>5. CASE log[Max(own)].type = "MESSAGE_SEND"
      <4>1. Max(own) \in sends /\ \A k \in sends : k <= Max(own)
        BY <2>2, <2>4, <3>2, <3>5
      <4>2. flow.send = log[Max(own)].at
        BY <2>5, <4>1
      <4>3. Flow(seq).status = IF clock - log[Max(own)].at > Patience THEN "timeout" ELSE "sent"
        BY <2>5, <2>6, <3>4, <3>5, <4>2 DEF FlowRecords
      <4> QED BY <2>8, <3>5, <4>3 DEF own, sends
    <3>6. CASE log[Max(own)].type # "MESSAGE_SEND"
      <4>1. Flow(seq) = flow
        BY <2>6, <3>4, <3>6
      <4> QED BY <2>8, <3>3, <3>4, <3>6, <4>1 DEF own, sends
    <3> QED BY <3>5, <3>6
  <2> QED BY <2>7, <2>8
<1> QED BY <1>1, LogRecorded, PTL

-----------------------------------------------------------------------------
(* Sorting by a key                                                        *)

Keys(S) == [S -> Nat]

(***************************************************************************)
(* The elements of a finite set can be put in the order of their keys.     *)
(***************************************************************************)
LEMMA Sortable ==
  ASSUME NEW S, IsFiniteSet(S), NEW key \in [S -> Nat]
  PROVE  \E p \in Bijection(1..Cardinality(S), S) :
           \A i, j \in 1..Cardinality(S) : i < j => key[p[i]] <= key[p[j]]
<1> DEFINE InOrder(p, n) == \A i, j \in 1..n : i < j => key[p[i]] <= key[p[j]]
           Good == {n \in Nat : \A T \in SUBSET S :
                      Cardinality(T) = n => \E p \in Bijection(1..n, T) : InOrder(p, n)}
<1>1. 0 \in Good
  <2> SUFFICES ASSUME NEW T \in SUBSET S, Cardinality(T) = 0
               PROVE  \E p \in Bijection(1..0, T) : InOrder(p, 0)
    OBVIOUS
  <2>1. T = {}
    BY FS_Subset, FS_EmptySet
  <2>2. [i \in 1..0 |-> 0] \in Bijection(1..0, T)
    BY <2>1 DEF Bijection, Injection, Surjection, IsInjective
  <2> QED BY <2>2
<1>2. ASSUME NEW n \in Nat, n \in Good PROVE n + 1 \in Good
  <2> SUFFICES ASSUME NEW T \in SUBSET S, Cardinality(T) = n + 1
               PROVE  \E p \in Bijection(1..(n + 1), T) : InOrder(p, n + 1)
    OBVIOUS
  <2>1. IsFiniteSet(T) /\ T # {}
    <3>1. IsFiniteSet(T)
      BY FS_Subset
    <3>2. T # {}
      BY FS_EmptySet
    <3> QED BY <3>1, <3>2
  <2>2. PICK x \in T : \A y \in T : key[x] <= key[y]
    <3> DEFINE Least == {key[y] : y \in T}
    <3>1. Least \in SUBSET Nat /\ Least # {}
      BY <2>1
    <3>2. PICK k \in Least : \A m \in Least : k <= m
      <4> HIDE DEF Least
      <4> QED BY <3>1, LeastElement
    <3> QED BY <3>2
  <2> DEFINE R == T \ {x}
  <2>3. Cardinality(R) = n
    <3>1. Cardinality(R) = Cardinality(T) - 1
      BY <2>1, FS_RemoveElement, Zenon
    <3> QED BY <3>1
  <2>4. PICK p \in Bijection(1..n, R) : InOrder(p, n)
    BY <1>2, <2>3
  <2> DEFINE q == [i \in 1..(n + 1) |-> IF i = 1 THEN x ELSE p[i - 1]]
  <2>5. /\ p \in [1..n -> R] /\ \A i, j \in 1..n : p[i] = p[j] => i = j
        /\ \A y \in R : \E i \in 1..n : p[i] = y
    BY DEF Bijection, Injection, Surjection, IsInjective
  <2>6. \A i \in 2..(n + 1) : i - 1 \in 1..n /\ q[i] = p[i - 1] /\ q[i] \in R
    BY <2>5
  <2>7. q[1] = x /\ \A i \in 1..(n + 1) : i = 1 \/ i \in 2..(n + 1)
    OBVIOUS
  <2>8. q \in [1..(n + 1) -> T]
    BY <2>5, <2>6
  <2>9. ASSUME NEW i \in 1..(n + 1), NEW j \in 1..(n + 1), q[i] = q[j] PROVE i = j
    <3> HIDE DEF q
    <3>1. CASE i \in 2..(n + 1) /\ j \in 2..(n + 1)
      <4>1. i - 1 = j - 1
        BY <2>5, <2>6, <2>9, <3>1
      <4> QED BY <4>1
    <3> QED BY <2>6, <2>7, <2>9, <3>1
  <2>10. ASSUME NEW y \in T PROVE \E i \in 1..(n + 1) : q[i] = y
    <3>1. CASE y = x
      BY <2>7, <3>1
    <3>2. CASE y # x
      <4>1. PICK i \in 1..n : p[i] = y
        BY <2>5, <3>2
      <4>2. i + 1 \in 2..(n + 1) /\ (i + 1) - 1 = i
        OBVIOUS
      <4>3. q[i + 1] = y
        BY <2>6, <4>1, <4>2
      <4>4. i + 1 \in 1..(n + 1)
        BY <4>2
      <4> HIDE DEF q
      <4> QED BY <4>3, <4>4
    <3> QED BY <3>1, <3>2
  <2>11. q \in Bijection(1..(n + 1), T)
    <3> HIDE DEF q
    <3> QED BY <2>8, <2>9, <2>10 DEF Bijection, Injection, Surjection, IsInjective
  <2>12. InOrder(q, n + 1)
    <3> SUFFICES ASSUME NEW i \in 1..(n + 1), NEW j \in 1..(n + 1), i < j
                 PROVE  key[q[i]] <= key[q[j]]
      OBVIOUS
    <3> HIDE DEF q
    <3>1. j \in 2..(n + 1)
      OBVIOUS
    <3>2. CASE i = 1
      BY <2>2, <2>6, <2>7, <3>1, <3>2
    <3>3. CASE i \in 2..(n + 1)
      <4>1. i - 1 < j - 1 /\ i - 1 \in 1..n /\ j - 1 \in 1..n
        BY <3>1, <3>3
      <4>2. key[p[i - 1]] <= key[p[j - 1]]
        BY <2>4, <4>1
      <4> QED BY <2>6, <3>1, <3>3, <4>2
    <3> QED BY <2>7, <3>2, <3>3
  <2> QED BY <2>11, <2>12
<1>3. Cardinality(S) \in Good
  <2>1. PICK n \in Nat : n = Cardinality(S)
    BY FS_CardinalityType
  <2>2. n \in 0..n /\ n \in Int /\ \A k \in 0..n : k \in Good /\ k < n => k + 1 \in Good
    BY <1>2
  <2> HIDE DEF Good
  <2> QED BY <1>1, <2>1, <2>2, 0 \in Int, IntervalInduction, Zenon
<1> QED BY <1>3

(***************************************************************************)
(* What sorting returns: the keys of all the elements, in order; it is     *)
(* strictly so if and only if no two elements have the same key.           *)
(***************************************************************************)
LEMMA IncreasingKeys ==
  ASSUME NEW S, IsFiniteSet(S), NEW key \in [S -> Nat]
  PROVE  /\ Cardinality(S) \in Nat /\ Len(Increasing(S, key)) = Cardinality(S)
         /\ Increasing(S, key) \in Seq(Nat)
         /\ \A i \in 1..Cardinality(S) : \E x \in S : Increasing(S, key)[i] = key[x]
         /\ \A i, j \in 1..Cardinality(S) : i <= j => Increasing(S, key)[i] <= Increasing(S, key)[j]
         /\ StrictlyIncreasing(Increasing(S, key)) <=> \A x, y \in S : x # y => key[x] # key[y]
<1> DEFINE n == Cardinality(S)
           s == Increasing(S, key)
<1>0. n \in Nat
  BY FS_CardinalityType
<1>1. PICK p \in Bijection(1..n, S) :
        /\ \A i, j \in 1..n : i < j => key[p[i]] <= key[p[j]]
        /\ s = [i \in 1..n |-> key[p[i]]]
  BY Sortable DEF Increasing
<1> HIDE DEF n, s
<1>2. /\ p \in [1..n -> S] /\ \A i, j \in 1..n : p[i] = p[j] => i = j
      /\ \A y \in S : \E i \in 1..n : p[i] = y
  BY DEF Bijection, Injection, Surjection, IsInjective
<1>3. \A i \in 1..n : p[i] \in S /\ s[i] = key[p[i]] /\ s[i] \in Nat
  BY <1>1, <1>2
<1>4. s \in Seq(Nat) /\ Len(s) = n
  <2>1. s \in [1..n -> Nat]
    BY <1>1, <1>3
  <2> QED BY <1>0, <2>1, SeqDef, LenProperties
<1>5. \A i, j \in 1..n : i <= j => s[i] <= s[j]
  <2> SUFFICES ASSUME NEW i \in 1..n, NEW j \in 1..n, i <= j PROVE s[i] <= s[j]
    OBVIOUS
  <2>1. CASE i = j
    BY <1>3, <2>1
  <2>2. CASE i < j
    BY <1>1, <1>3, <2>2
  <2> QED BY <2>1, <2>2
<1>6. ASSUME StrictlyIncreasing(s), NEW x \in S, NEW y \in S, x # y PROVE key[x] # key[y]
  <2>1. PICK i \in 1..n, j \in 1..n : p[i] = x /\ p[j] = y
    BY <1>2
  <2>2. \A k \in 1..(n - 1) : s[k] < s[k + 1]
    BY <1>4, <1>6 DEF StrictlyIncreasing
  <2>3. ASSUME NEW a \in 1..n, NEW b \in 1..n, a < b PROVE s[a] # s[b]
    <3>1. a \in 1..(n - 1) /\ a + 1 \in 1..n /\ a + 1 <= b
      BY <1>0, <2>3
    <3>2. s[a] < s[a + 1] /\ s[a + 1] <= s[b]
      BY <1>5, <2>2, <3>1
    <3> QED BY <1>3, <3>1, <3>2
  <2>4. i < j \/ j < i
    BY <1>6, <2>1
  <2> QED BY <1>3, <2>1, <2>3, <2>4
<1>7. ASSUME \A x, y \in S : x # y => key[x] # key[y] PROVE StrictlyIncreasing(s)
  <2> SUFFICES ASSUME NEW i \in 1..(n - 1) PROVE s[i] < s[i + 1]
    BY <1>4 DEF StrictlyIncreasing
  <2>1. i \in 1..n /\ i + 1 \in 1..n /\ i <= i + 1 /\ i # i + 1
    BY <1>0
  <2>2. s[i] <= s[i + 1]
    BY <1>5, <2>1
  <2>3. key[p[i]] # key[p[i + 1]]
    BY <1>2, <1>7, <2>1
  <2> QED BY <1>3, <2>1, <2>2, <2>3
<1>8. \A i \in 1..n : \E x \in S : s[i] = key[x]
  BY <1>3
<1> QED BY <1>0, <1>4, <1>5, <1>6, <1>7, <1>8 DEF n, s

\* What the order assertion looks for after sorting.
LEMMA StrictIfDistinct ==
  ASSUME NEW S, IsFiniteSet(S), NEW key \in Keys(S)
  PROVE  StrictlyIncreasing(Increasing(S, key)) <=> \A x, y \in S : x # y => key[x] # key[y]
BY IncreasingKeys DEF Keys

-----------------------------------------------------------------------------
(* Verdicts                                                                *)

\* The events at the positions B of other are those at the positions A of the log.
SameEvents(A, B, other) ==
  /\ IsFiniteSet(A) /\ IsFiniteSet(B) /\ Cardinality(A) = Cardinality(B)
  /\ \A a \in A : log[a].at \in Nat
  /\ \E w \in [B -> A] : /\ \A b \in B : other[b] = log[w[b]]
                         /\ \A b, c \in B : b # c => w[b] # w[c]
                         /\ \A a \in A : \E b \in B : w[b] = a

(***************************************************************************)
(* Two neighbours of the log exchanged, its events of any types are the    *)
(* same, at other positions.                                               *)
(***************************************************************************)
LEMMA ExchangeKeepsEvents ==
  ASSUME Analysed, NEW i \in 1..(Len(log) - 1), NEW types
  PROVE  SameEvents(EventsOf(log, types), EventsOf(Exchanged(i), types), Exchanged(i))
<1> DEFINE other == Exchanged(i)
           A == EventsOf(log, types)
           B == EventsOf(other, types)
<1>1. PICK n \in Nat : n = Len(log) /\ DOMAIN log = 1..n
  BY DEF Analysed
<1> DEFINE w == [k \in 1..n |-> IF k = i THEN i + 1 ELSE IF k = i + 1 THEN i ELSE k]
<1>2. i \in 1..n /\ i + 1 \in 1..n /\ i # i + 1
  BY <1>1
<1>3. /\ \A k \in 1..n : w[k] \in 1..n /\ w[w[k]] = k
  BY <1>2
<1>4. DOMAIN other = 1..n /\ \A k \in 1..n : other[k] = log[w[k]]
  BY <1>1, <1>2 DEF Exchanged
<1> HIDE DEF w, other
<1>5. A = {k \in 1..n : log[k].type \in types} /\ B = {k \in 1..n : log[w[k]].type \in types}
  BY <1>1, <1>4 DEF EventsOf
<1> HIDE DEF A, B
<1>6. IsFiniteSet(A) /\ IsFiniteSet(B)
  <2>1. IsFiniteSet(1..n) /\ A \in SUBSET (1..n) /\ B \in SUBSET (1..n)
    <3>1. IsFiniteSet(1..n)
      BY FS_Interval
    <3> QED BY <1>5, <3>1
  <2> QED BY <2>1, FS_Subset
<1>7. \A a \in A : a \in 1..n /\ w[a] \in B /\ w[w[a]] = a
  BY <1>3, <1>5
<1>8. \A b \in B : b \in 1..n /\ w[b] \in A /\ w[w[b]] = b
  BY <1>3, <1>5
<1> DEFINE v == [b \in B |-> w[b]]
<1>9. /\ v \in [B -> A] /\ \A b \in B : other[b] = log[v[b]]
      /\ \A b, c \in B : b # c => v[b] # v[c]
      /\ \A a \in A : \E b \in B : v[b] = a
  <2>1. v \in [B -> A] /\ \A b \in B : other[b] = log[v[b]]
    BY <1>4, <1>8
  <2>2. \A b, c \in B : b # c => v[b] # v[c]
    BY <1>8
  <2>3. \A a \in A : v[w[a]] = a
    BY <1>7
  <2> QED BY <1>7, <2>1, <2>2, <2>3
<1>10. Cardinality(A) = Cardinality(B)
  <2> HIDE DEF v
  <2>1. v \in Bijection(B, A)
    BY <1>9 DEF Bijection, Injection, Surjection, IsInjective
  <2>2. ExistsBijection(B, A)
    BY <2>1 DEF ExistsBijection
  <2> QED BY <1>6, <2>2, FS_Bijection, Zenon
<1>11. \A a \in A : log[a].at \in Nat
  BY <1>1, <1>5, EventFacts
<1> HIDE DEF v
<1>12. SameEvents(A, B, other)
  BY <1>6, <1>9, <1>10, <1>11 DEF SameEvents
<1> QED BY <1>12, Zenon DEF A, B, other

\* The order of the receives, as the assertion sees it, of the log and of the other log.
LEMMA SameOrder ==
  ASSUME Analysed, NEW i \in 1..(Len(log) - 1), NEW min, NEW max
  PROVE  MessageOrderAssertion(log, min, max) <=> MessageOrderAssertion(Exchanged(i), min, max)
<1> DEFINE other == Exchanged(i)
           A == EventsOf(log, {"MESSAGE_RECEIVE"})
           B == EventsOf(other, {"MESSAGE_RECEIVE"})
           keyA == [a \in A |-> log[a].at]
           keyB == [b \in B |-> other[b].at]
<1>1. /\ IsFiniteSet(A) /\ IsFiniteSet(B) /\ Cardinality(A) = Cardinality(B)
      /\ \A a \in A : log[a].at \in Nat
      /\ \E w \in [B -> A] : /\ \A b \in B : other[b] = log[w[b]]
                             /\ \A b, c \in B : b # c => w[b] # w[c]
                             /\ \A a \in A : \E b \in B : w[b] = a
  <2>1. SameEvents(A, B, other)
    BY ExchangeKeepsEvents, Zenon
  <2> HIDE DEF other, A, B
  <2> QED BY <2>1, Zenon DEF SameEvents
<1> HIDE DEF other, A, B
<1>2. PICK w \in [B -> A] : /\ \A b \in B : other[b] = log[w[b]]
                            /\ \A b, c \in B : b # c => w[b] # w[c]
                            /\ \A a \in A : \E b \in B : w[b] = a
  BY <1>1
<1>3. keyA \in Keys(A) /\ keyB \in Keys(B)
  BY <1>1, <1>2 DEF Keys
<1>4. (\A a, c \in A : a # c => keyA[a] # keyA[c]) <=> (\A b, d \in B : b # d => keyB[b] # keyB[d])
  <2>1. \A b \in B : w[b] \in A /\ keyB[b] = keyA[w[b]]
    BY <1>2
  <2> HIDE DEF keyA, keyB
  <2>2. ASSUME \A a, c \in A : a # c => keyA[a] # keyA[c], NEW b \in B, NEW d \in B, b # d
        PROVE  keyB[b] # keyB[d]
    BY <1>2, <2>1, <2>2
  <2>3. ASSUME \A b, d \in B : b # d => keyB[b] # keyB[d], NEW a \in A, NEW c \in A, a # c
        PROVE  keyA[a] # keyA[c]
    <3>1. PICK b \in B, d \in B : w[b] = a /\ w[d] = c
      BY <1>2
    <3> QED BY <2>1, <2>3, <3>1
  <2> QED BY <2>2, <2>3
<1> HIDE DEF keyA, keyB
<1>5. StrictlyIncreasing(Increasing(A, keyA)) <=> StrictlyIncreasing(Increasing(B, keyB))
  <2>1. StrictlyIncreasing(Increasing(A, keyA)) <=> \A a, c \in A : a # c => keyA[a] # keyA[c]
    <3>1. IsFiniteSet(A) /\ keyA \in Keys(A)
      BY <1>1, <1>3, Zenon
    <3> QED BY <3>1, StrictIfDistinct, Zenon
  <2>2. StrictlyIncreasing(Increasing(B, keyB)) <=> \A b, d \in B : b # d => keyB[b] # keyB[d]
    <3>1. IsFiniteSet(B) /\ keyB \in Keys(B)
      BY <1>1, <1>3, Zenon
    <3> QED BY <3>1, StrictIfDistinct, Zenon
  <2> QED BY <1>4, <2>1, <2>2, Zenon
<1>6. MessageOrderAssertion(log, min, max) <=>
        /\ Cardinality(A) >= min /\ (max > 0 => Cardinality(A) <= max)
        /\ StrictlyIncreasing(Increasing(A, keyA))
  BY Zenon DEF MessageOrderAssertion, A, keyA
<1>7. MessageOrderAssertion(other, min, max) <=>
        /\ Cardinality(B) >= min /\ (max > 0 => Cardinality(B) <= max)
        /\ StrictlyIncreasing(Increasing(B, keyB))
  BY Zenon DEF MessageOrderAssertion, B, keyB
<1> QED BY <1>1, <1>5, <1>6, <1>7, Zenon DEF other

(***************************************************************************)
(* No assertion's verdict depends on who got the recorder's lock first,    *)
(* for every session (VerdictsIgnoreRace, the Assert methods).             *)
(***************************************************************************)
THEOREM VerdictsNeverRace == AnalysisSpec => []VerdictsIgnoreRace
<1>1. Analysed => VerdictsIgnoreRace
  <2> SUFFICES ASSUME Analysed, NEW i \in 1..(Len(log) - 1)
               PROVE  LET other == Exchanged(i) IN
                 /\ \A min, max \in 0..2 :
                      MessageOrderAssertion(log, min, max) <=> MessageOrderAssertion(other, min, max)
                 /\ \A n \in 0..2, d \in Durations :
                      ReconnectAssertion(log, n, d) <=> ReconnectAssertion(other, n, d)
                 /\ \A r \in {0, 25, 50} : ErrorRateAssertion(log, r) <=> ErrorRateAssertion(other, r)
    BY Zenon DEF VerdictsIgnoreRace
  <2> DEFINE other == Exchanged(i)
  <2>1. \A min, max \in 0..2 : MessageOrderAssertion(log, min, max) <=> MessageOrderAssertion(other, min, max)
    BY SameOrder, Zenon
  <2>2. ASSUME NEW n \in 0..2, NEW d \in Durations
        PROVE  ReconnectAssertion(log, n, d) <=> ReconnectAssertion(other, n, d)
    <3> DEFINE A == EventsOf(log, {"RECONNECT"})
               B == EventsOf(other, {"RECONNECT"})
    <3>1. SameEvents(A, B, other)
      BY ExchangeKeepsEvents, Zenon
    <3> HIDE DEF A, B, other
    <3>2. PICK w \in [B -> A] : /\ \A b \in B : other[b] = log[w[b]]
                                /\ \A a \in A : \E b \in B : w[b] = a
      BY <3>1, Zenon DEF SameEvents
    <3>3. \A b \in B : w[b] \in A /\ other[b].took = log[w[b]].took
      BY <3>2
    <3>4. (\A a \in A : log[a].took <= d) <=> (\A b \in B : other[b].took <= d)
      BY <3>2, <3>3
    <3>5. Cardinality(A) = Cardinality(B)
      BY <3>1, Zenon DEF SameEvents
    <3>6. ReconnectAssertion(log, n, d) <=> Cardinality(A) <= n /\ \A a \in A : log[a].took <= d
      BY Zenon DEF ReconnectAssertion, A
    <3>7. ReconnectAssertion(other, n, d) <=> Cardinality(B) <= n /\ \A b \in B : other[b].took <= d
      BY Zenon DEF ReconnectAssertion, B
    <3> QED BY <3>4, <3>5, <3>6, <3>7, Zenon
  <2>3. ASSUME NEW r PROVE ErrorRateAssertion(log, r) <=> ErrorRateAssertion(other, r)
    <3>1. Cardinality(EventsOf(log, {"ERROR"})) = Cardinality(EventsOf(other, {"ERROR"}))
      <4>1. SameEvents(EventsOf(log, {"ERROR"}), EventsOf(other, {"ERROR"}), other)
        BY ExchangeKeepsEvents, Zenon
      <4> HIDE DEF other
      <4> QED BY <4>1, Zenon DEF SameEvents
    <3>2. Len(other) = Len(log) /\ (other # <<>> <=> log # <<>>)
      <4>1. log \in Seq(LogEntries) /\ Len(log) \in Nat /\ Len(log) # 0 /\ DOMAIN log = 1..Len(log)
        BY DEF Analysed
      <4>2. i \in 1..Len(log) /\ i + 1 \in 1..Len(log) /\ log[i] \in LogEntries /\ log[i + 1] \in LogEntries
        BY <4>1
      <4>3. other \in [1..Len(log) -> LogEntries]
        BY <4>1, <4>2 DEF Exchanged
      <4>4. other \in Seq(LogEntries) /\ Len(other) = Len(log)
        <5> HIDE DEF other
        <5> QED BY <4>1, <4>3, SeqDef, LenProperties
      <4> HIDE DEF other
      <4> QED BY <4>1, <4>4
    <3> HIDE DEF other
    <3> QED BY <3>1, <3>2, Zenon DEF ErrorRateAssertion
  <2> QED BY <2>1, <2>2, <2>3, Zenon
<1> QED BY <1>1, LogRecorded, PTL

-----------------------------------------------------------------------------
(* Metrics                                                                 *)

\* The place of the p-th percentile of n values is one of them, with p per cent of them up to it.
LEMMA RankOf ==
  ASSUME NEW n \in Nat \ {0}, NEW p \in Ranks
  PROVE  /\ (n * p) \div 100 + 1 \in 1..n /\ ((n * p) \div 100 + 1) * 100 >= p * n
         /\ \A q \in Ranks : p < q => (n * p) \div 100 <= (n * q) \div 100
<1> DEFINE At(a) == (n * a) \div 100
           Fits(a) == At(a) + 1 \in 1..n /\ (At(a) + 1) * 100 >= a * n
<1>1. Fits(50) /\ At(50) \in Int
  OBVIOUS
<1>2. Fits(90) /\ At(90) \in Int
  OBVIOUS
<1>3. Fits(95) /\ At(95) \in Int
  OBVIOUS
<1>4. Fits(99) /\ At(99) \in Int
  OBVIOUS
<1>5. At(50) <= At(90)
  OBVIOUS
<1>6. At(90) <= At(95)
  OBVIOUS
<1>7. At(95) <= At(99)
  OBVIOUS
<1>8. p \in Ranks => p = 50 \/ p = 90 \/ p = 95 \/ p = 99
  BY DEF Ranks
<1> HIDE DEF At
<1>9. Fits(p)
  BY <1>1, <1>2, <1>3, <1>4, <1>8
<1>10. ASSUME NEW q \in Ranks, p < q PROVE At(p) <= At(q)
  <2>1. q = 50 \/ q = 90 \/ q = 95 \/ q = 99
    BY DEF Ranks
  <2>2. /\ At(50) <= At(90) /\ At(50) <= At(95) /\ At(50) <= At(99)
        /\ At(90) <= At(95) /\ At(90) <= At(99) /\ At(95) <= At(99)
    BY <1>1, <1>2, <1>3, <1>4, <1>5, <1>6, <1>7
  <2> QED BY <1>8, <1>10, <2>1, <2>2
<1>11. Fits(p) /\ \A q \in Ranks : p < q => At(p) <= At(q)
  BY <1>9, <1>10, Zenon
<1> QED BY <1>11, Zenon DEF At

\* At least p per cent of the values of a sorted sequence are no larger than its p-th percentile.
LEMMA PercentileCovers ==
  ASSUME NEW s \in Seq(Nat), s # <<>>, NEW p \in Ranks,
         \A i, j \in 1..Len(s) : i <= j => s[i] <= s[j]
  PROVE  /\ Cardinality({i \in 1..Len(s) : s[i] <= Percentile(s, p)}) * 100 >= p * Len(s)
         /\ \A q \in Ranks : p < q => Percentile(s, p) <= Percentile(s, q)
<1>1. PICK n \in Nat \ {0} : n = Len(s)
  BY EmptySeq
<1> DEFINE place(q) == (n * q) \div 100 + 1
<1>2. \A q \in Ranks : place(q) \in 1..n /\ Percentile(s, q) = s[place(q)]
  <2>1. \A q \in Ranks : place(q) \in 1..n
    BY RankOf
  <2> QED BY <1>1, <2>1 DEF Percentile
<1>3. PICK r \in 1..n : r = place(p) /\ Percentile(s, p) = s[r] /\ r * 100 >= p * n
  BY <1>2, RankOf
<1> DEFINE C == {i \in 1..n : s[i] <= s[r]}
<1>4. Cardinality(C) \in Nat /\ r <= Cardinality(C)
  <2>1. 1..r \in SUBSET C
    BY <1>1
  <2>2. IsFiniteSet(1..n) /\ IsFiniteSet(1..r) /\ Cardinality(1..r) = r
    BY FS_Interval
  <2>3. IsFiniteSet(C) /\ Cardinality(C) \in Nat
    <3>1. C \in SUBSET (1..n)
      OBVIOUS
    <3> HIDE DEF C
    <3> QED BY <2>2, <3>1, FS_Subset, FS_CardinalityType
  <2> HIDE DEF C
  <2>4. Cardinality(1..r) <= Cardinality(C)
    BY <2>1, <2>3, FS_Subset, Zenon
  <2> QED BY <2>2, <2>3, <2>4
<1>5. Cardinality(C) * 100 >= p * n
  <2>1. p * n \in Int
    BY DEF Ranks
  <2> HIDE DEF C
  <2> QED BY <1>3, <1>4, <2>1
<1>6. ASSUME NEW q \in Ranks, p < q PROVE Percentile(s, p) <= Percentile(s, q)
  <2>1. place(p) <= place(q)
    <3>1. (n * p) \div 100 <= (n * q) \div 100
      BY <1>6, RankOf, Zenon
    <3>2. (n * p) \div 100 \in Int /\ (n * q) \div 100 \in Int
      BY DEF Ranks
    <3> QED BY <3>1, <3>2
  <2>2. place(p) \in 1..n /\ place(q) \in 1..n /\ Percentile(s, p) = s[place(p)] /\ Percentile(s, q) = s[place(q)]
    BY <1>2
  <2> HIDE DEF place
  <2> QED BY <1>1, <2>1, <2>2
<1> QED BY <1>1, <1>3, <1>5, <1>6

\* A sum of n values between a and b is n times something between them.
LEMMA MeanBetween ==
  ASSUME NEW n \in Nat \ {0}, NEW a \in Nat, NEW b \in Nat, NEW t \in Nat,
         a * n <= t, t <= b * n
  PROVE  a <= t \div n /\ t \div n <= b
<1>1. t \div n \in Int /\ t % n \in 0..(n - 1) /\ t = n * (t \div n) + (t % n)
  OBVIOUS
<1>2. PICK q \in Int, r \in 0..(n - 1) : q = t \div n /\ t = n * q + r
  BY <1>1
<1>3. ASSUME q < a PROVE FALSE
  <2>1. n * (q + 1) <= n * a
    BY <1>3
  <2>2. n * (q + 1) = n * q + n /\ n * a = a * n
    OBVIOUS
  <2>3. n * q \in Int /\ a * n \in Int
    OBVIOUS
  <2> QED BY <1>2, <2>1, <2>2, <2>3
<1>4. ASSUME b < q PROVE FALSE
  <2>1. n * (b + 1) <= n * q
    BY <1>4
  <2>2. n * (b + 1) = b * n + n
    OBVIOUS
  <2>3. n * q \in Int /\ b * n \in Int
    OBVIOUS
  <2> QED BY <1>2, <2>1, <2>2, <2>3
<1> QED BY <1>2, <1>3, <1>4

(***************************************************************************)
(* The average of a sorted sequence lies between its first and its last    *)
(* value.                                                                  *)
(***************************************************************************)
LEMMA AverageBetween ==
  ASSUME NEW s \in Seq(Nat), s # <<>>, \A i, j \in 1..Len(s) : i <= j => s[i] <= s[j]
  PROVE  s[1] <= AverageLatency(s) /\ AverageLatency(s) <= s[Len(s)]
<1> DEFINE n == Len(s)
           Body(f) == [i \in 0..n |-> IF i = 0 THEN 0 ELSE f[i - 1] + s[i]]
           total == CHOOSE f : f = Body(f)
           step == [i \in 1..n |-> [r \in Nat |-> r + s[i]]]
<1>0. n \in Nat \ {0} /\ n \in Int /\ 0 <= n /\ \A i \in 1..n : s[i] \in Nat
  BY EmptySeq
<1>1. AverageLatency(s) = total[n] \div n
  BY DEF AverageLatency
<1>2. \A i \in 1..n : s[1] <= s[i] /\ s[i] <= s[n]
  BY <1>0
<1> HIDE DEF n
<1>3. step \in [1..n -> [Nat -> Nat]] /\ \A i \in 1..n, r \in Nat : step[i][r] = r + s[i]
  BY <1>0
<1> HIDE DEF step
<1>4. PICK f \in [0..n -> Nat] : Computes(f, 0, n, 0, step)
  <2>1. step \in Steps(0, n, Nat)
    <3>1. (0 + 1)..n = 1..n
      OBVIOUS
    <3> QED BY <1>3, <3>1, Zenon DEF Steps
  <2> QED BY <1>0, <2>1, 0 \in Int, 0 \in Nat, StepsExist, Zenon
<1>5. f = Body(f)
  <2>1. f[0] = 0 /\ \A i \in 1..n : f[i] = step[i][f[i - 1]]
    BY <1>0, <1>4 DEF Computes
  <2>2. \A i \in 1..n : f[i - 1] \in Nat
    BY <1>0
  <2>3. \A i \in 1..n : f[i] = f[i - 1] + s[i]
    BY <1>3, <2>1, <2>2
  <2> QED BY <1>0, <2>1, <2>3
<1>6. total = Body(total)
  <2> HIDE DEF Body
  <2> QED BY <1>5
<1> HIDE DEF total
<1>7. total[0] = 0 /\ \A i \in 1..n : total[i] = total[i - 1] + s[i]
  <2>1. \A i \in 0..n : total[i] = IF i = 0 THEN 0 ELSE total[i - 1] + s[i]
    BY <1>6
  <2> QED BY <1>0, <2>1
<1>8. PICK a \in Nat, b \in Nat : a = s[1] /\ b = s[n]
  <2>1. 1 \in 1..n /\ n \in 1..n
    BY <1>0
  <2> QED BY <1>0, <2>1
<1> DEFINE S == {i \in Int : total[i] \in Nat /\ a * i <= total[i] /\ total[i] <= b * i}
<1>9. n \in S
  <2>1. 0 \in S
    BY <1>7
  <2>2. ASSUME NEW i \in 0..n, i \in S, i < n PROVE i + 1 \in S
    <3>1. i + 1 \in 1..n /\ (i + 1) - 1 = i /\ i + 1 \in Int
      BY <1>0, <2>2
    <3>2. PICK t \in Nat, v \in Nat : t = total[i] /\ v = s[i + 1] /\ total[i + 1] = t + v
      BY <1>0, <1>7, <2>2, <3>1
    <3>3. a * i <= t /\ t <= b * i /\ a <= v /\ v <= b
      BY <1>2, <1>8, <2>2, <3>1, <3>2
    <3>4. a * (i + 1) <= t + v /\ t + v <= b * (i + 1)
      <4>1. a * (i + 1) = a * i + a /\ b * (i + 1) = b * i + b
        BY <1>0
      <4>2. a * i \in Int /\ b * i \in Int
        BY <1>0
      <4> QED BY <3>3, <4>1, <4>2
    <3> QED BY <3>1, <3>2, <3>4
  <2>3. n \in 0..n
    BY <1>0
  <2> HIDE DEF S
  <2> QED BY <1>0, <2>1, <2>2, <2>3, 0 \in Int, IntervalInduction, Zenon
<1>10. PICK t \in Nat : t = total[n] /\ a * n <= t /\ t <= b * n
  BY <1>9
<1>11. a <= t \div n /\ t \div n <= b
  BY <1>0, <1>10, MeanBetween, Zenon
<1> QED BY <1>1, <1>8, <1>10, <1>11 DEF n

\* The messages of the log are finitely many; what is known of each flow.
LEMMA FlowsKnown ==
  ASSUME Analysed
  PROVE  /\ IsFiniteSet(FlowIds)
         /\ \A seq \in FlowIds : Flow(seq).latency \in Int
<1>1. PICK n \in Nat : n = Len(log) /\ DOMAIN log = 1..n
  BY DEF Analysed
<1>2. IsFiniteSet(FlowIds)
  <2> DEFINE M == EventsOf(log, MessageTypes)
             f == [i \in M |-> log[i].seq]
  <2>1. M \in SUBSET (1..n) /\ IsFiniteSet(1..n)
    BY <1>1, FS_Interval DEF EventsOf
  <2>2. IsFiniteSet(M)
    BY <2>1, FS_Subset
  <2>3. f \in Surjection(M, FlowIds)
    BY DEF Surjection, FlowIds
  <2> HIDE DEF M, f
  <2> QED BY <2>2, <2>3, FS_Surjection, Zenon
<1>3. ASSUME NEW seq \in FlowIds PROVE Flow(seq).latency \in Int
  <2>1. seq \in SeqNums
    <3>1. PICK i \in 1..n : log[i].type \in MessageTypes /\ seq = log[i].seq
      BY <1>1 DEF FlowIds, EventsOf
    <3> QED BY <1>1, <3>1, EventFacts
  <2>2. FlowMap[seq] \in FlowRecords
    BY <2>1, FlowHistory DEF FlowFollows
  <2> QED BY <2>2 DEF Flow, FlowRecords
<1> QED BY <1>2, <1>3

(***************************************************************************)
(* The percentiles and the average are what they are called, for every     *)
(* session, and the ranks of the percentiles for every length up to the    *)
(* bound of RanksCover (PercentilesCover, CalculateNetworkMetrics).        *)
(***************************************************************************)
THEOREM PercentilesAlwaysCover == AnalysisSpec => []PercentilesCover
<1>1. RanksCover
  <2> SUFFICES ASSUME NEW n \in 1..210, NEW p \in Ranks
               PROVE  Percentile([i \in 1..n |-> i], p) * 100 >= p * n
    BY DEF RanksCover
  <2> DEFINE s == [i \in 1..n |-> i]
             r == (n * p) \div 100 + 1
  <2>1. n \in Nat \ {0} /\ Len(s) = n
    OBVIOUS
  <2>2. r \in 1..n /\ r * 100 >= p * n
    BY <2>1, RankOf, Zenon
  <2>3. Percentile(s, p) = s[r]
    BY <2>1 DEF Percentile
  <2>4. s[r] = r
    <3> HIDE DEF r
    <3> QED BY <2>2
  <2> HIDE DEF r, s
  <2>5. Percentile(s, p) * 100 >= p * n
    BY <2>2, <2>3, <2>4
  <2> QED BY <2>5 DEF s
<1>2. Analysed => PercentilesCover
  <2> SUFFICES ASSUME Analysed PROVE PercentilesCover
    OBVIOUS
  <2> DEFINE key == [seq \in Answered |-> Flow(seq).latency]
             s == Latencies
             covered(v) == Cardinality({i \in 1..Len(s) : s[i] <= v})
  <2>1. Answered \in SUBSET FlowIds /\ IsFiniteSet(Answered) /\ IsFiniteSet(FlowIds)
    <3>1. Answered \in SUBSET FlowIds
      BY DEF Answered, WithStatus
    <3> QED BY <3>1, FlowsKnown, FS_Subset
  <2>2. key \in [Answered -> Nat]
    <3>1. \A seq \in Answered : Flow(seq).latency \in Nat
      BY <2>1, FlowsKnown DEF Answered
    <3> QED BY <3>1
  <2>3. s = Increasing(Answered, key)
    BY DEF Latencies
  <2> HIDE DEF key, s
  <2>4. /\ s \in Seq(Nat) /\ Len(s) = Cardinality(Answered)
        /\ \A i, j \in 1..Len(s) : i <= j => s[i] <= s[j]
    BY <2>1, <2>2, <2>3, IncreasingKeys
  <2>5. ASSUME s # <<>>
        PROVE  /\ \A p \in Ranks : covered(Percentile(s, p)) * 100 >= p * Len(s)
               /\ \A p, q \in Ranks : p < q => Percentile(s, p) <= Percentile(s, q)
               /\ s[1] <= AverageLatency(s) /\ AverageLatency(s) <= s[Len(s)]
    <3>1. \A p \in Ranks : covered(Percentile(s, p)) * 100 >= p * Len(s)
      BY <2>4, <2>5, PercentileCovers, Zenon
    <3>2. \A p, q \in Ranks : p < q => Percentile(s, p) <= Percentile(s, q)
      BY <2>4, <2>5, PercentileCovers, Zenon
    <3>3. s[1] <= AverageLatency(s) /\ AverageLatency(s) <= s[Len(s)]
      BY <2>4, <2>5, AverageBetween, Zenon
    <3> QED BY <3>1, <3>2, <3>3, Zenon
  <2> QED BY <1>1, <2>5, Zenon DEF PercentilesCover, s
<1> QED BY <1>2, LogRecorded, PTL
-----------------------------------------------------------------------------
(* The loss                                                                *)

(***************************************************************************)
(* A message whose sends raced none of its events is counted exactly if it *)
(* is lost by the recorded times.                                          *)
(***************************************************************************)
LEMMA CountedIfLost ==
  ASSUME Analysed, NEW seq \in SeqNums, ~Raced(seq)
  PROVE  Flow(seq).status = "timeout" <=> Lost(seq)
<1>0. PICK n \in Nat : n = Len(log) /\ DOMAIN log = 1..n
  BY DEF Analysed
<1> DEFINE own == OwnEvents(seq, n)
           sends == Sends(seq)
           flow == FlowMap[seq]
<1>1. /\ sends = {i \in own : log[i].type = "MESSAGE_SEND"}
      /\ Receives(seq) = own \ sends /\ own = sends \cup Receives(seq)
  BY <1>0 DEF Sends, Receives, Own, EventsOf, OwnEvents, MessageTypes
<1>2. /\ flow \in FlowRecords /\ (sends = {} => flow.status = "")
      /\ \A i \in sends : (\A j \in sends : j <= i) => flow.send = log[i].at
      /\ sends # {} => \A i \in own : (\A j \in own : j <= i) =>
           IF log[i].type = "MESSAGE_SEND" THEN flow.status = "sent"
           ELSE flow.status = "received" /\ flow.latency = log[i].at - flow.send
  BY <1>0, <1>1, FlowHistory DEF FlowFollows
<1>3. own \in SUBSET (1..n) /\ sends \in SUBSET (1..n) /\ sends \in SUBSET own
  BY <1>1 DEF OwnEvents
<1>4. /\ \A i \in own : log[i].at \in Nat /\ i \in Nat
      /\ Patience \in Nat /\ clock \in Nat
  <2>1. \A i \in own : log[i].at \in Nat /\ i \in Nat
    BY <1>0, <1>3, EventFacts
  <2> QED BY <2>1, AnalysisConstants DEF Analysed
<1>5. Flow(seq) = IF flow.status = "sent" /\ clock - flow.send > Patience
                  THEN [flow EXCEPT !.status = "timeout"] ELSE flow
  BY DEF Flow, flow
<1>6. /\ \A i \in sends, j \in own : i < j => log[j].at >= log[i].at
      /\ \A i \in sends, j \in own \ sends : j < i => log[j].at < log[i].at
  BY <1>1, <1>3, <1>4 DEF Raced
<1>7. Lost(seq) <=> \E i \in sends : /\ clock - log[i].at > Patience
                                     /\ \A j \in sends : log[j].at <= log[i].at
                                     /\ \A j \in own \ sends : log[j].at < log[i].at
  BY <1>1 DEF Lost
<1> HIDE DEF own, sends, flow
<1>8. CASE sends = {}
  BY <1>2, <1>5, <1>7, <1>8 DEF FlowRecords
<1>9. CASE sends # {}
  <2>1. PICK s \in sends : \A j \in sends : j <= s
    BY <1>3, <1>9, MaxIsThere
  <2>2. PICK m \in own : \A j \in own : j <= m
    BY <1>3, <1>9, MaxIsThere
  <2>3. \A j \in sends : log[j].at <= log[s].at
    <3> SUFFICES ASSUME NEW j \in sends PROVE log[j].at <= log[s].at
      OBVIOUS
    <3>1. CASE j = s
      BY <1>3, <1>4, <3>1
    <3>2. CASE j # s
      <4>1. j < s
        BY <1>3, <1>4, <2>1, <3>2
      <4> QED BY <1>3, <1>4, <1>6, <4>1
    <3> QED BY <3>1, <3>2
  <2>4. CASE m \in sends
    <3>1. m = s /\ log[m].type = "MESSAGE_SEND"
      BY <1>1, <1>3, <1>4, <2>1, <2>2, <2>4
    <3>2. flow.status = "sent" /\ flow.send = log[s].at
      BY <1>2, <1>9, <2>1, <2>2, <3>1
    <3>3. Flow(seq).status = "timeout" <=> clock - log[s].at > Patience
      BY <1>2, <1>5, <3>2 DEF FlowRecords
    <3>4. \A j \in own \ sends : log[j].at < log[s].at
      <4> SUFFICES ASSUME NEW j \in own \ sends PROVE log[j].at < log[s].at
        OBVIOUS
      <4>1. j < s
        BY <1>3, <1>4, <2>2, <3>1
      <4> QED BY <1>6, <4>1
    <3>5. ASSUME Lost(seq) PROVE clock - log[s].at > Patience
      <4>1. PICK i \in sends : clock - log[i].at > Patience /\ log[s].at <= log[i].at
        BY <1>7, <3>5
      <4>2. log[i].at <= log[s].at
        BY <2>3
      <4> QED BY <1>3, <1>4, <4>1, <4>2
    <3> QED BY <1>7, <2>3, <3>3, <3>4, <3>5
  <2>5. CASE m \notin sends
    <3>1. flow.status = "received"
      BY <1>1, <1>2, <1>9, <2>2, <2>5
    <3>2. Flow(seq).status # "timeout"
      BY <1>5, <3>1
    <3>3. ~Lost(seq)
      <4> SUFFICES ASSUME Lost(seq) PROVE FALSE
        OBVIOUS
      <4>1. PICK i \in sends : log[m].at < log[i].at
        BY <1>7, <2>5
      <4>2. i < m
        BY <1>3, <1>4, <2>2, <2>5
      <4> QED BY <1>3, <1>4, <1>6, <4>1, <4>2
    <3> QED BY <3>2, <3>3
  <2> QED BY <2>4, <2>5
<1> QED BY <1>8, <1>9

(***************************************************************************)
(* The reported loss is that of the recorded times but for messages whose  *)
(* sends raced another of their events, for every session (LossExplained,  *)
(* CalculateNetworkMetrics).                                               *)
(***************************************************************************)
THEOREM LossAlwaysExplained == AnalysisSpec => []LossExplained
<1>1. Analysed => LossExplained
  <2> SUFFICES ASSUME Analysed PROVE LossExplained
    OBVIOUS
  <2> DEFINE lost == {seq \in FlowIds : Lost(seq)}
             raced == {seq \in FlowIds : Raced(seq)}
             counted == WithStatus("timeout")
  <2>1. FlowIds \in SUBSET SeqNums
    <3> SUFFICES ASSUME NEW seq \in FlowIds PROVE seq \in SeqNums
      OBVIOUS
    <3>1. PICK i \in 1..Len(log) : log[i].type \in MessageTypes /\ seq = log[i].seq
      BY DEF FlowIds, EventsOf, Analysed
    <3> QED BY <3>1, EventFacts
  <2>2. lost \ raced \in SUBSET counted /\ counted \in SUBSET (lost \cup raced)
    BY <2>1, CountedIfLost DEF WithStatus
  <2>3. counted \in SUBSET FlowIds /\ lost \cup raced \in SUBSET FlowIds /\ IsFiniteSet(FlowIds)
    BY FlowsKnown DEF WithStatus
  <2> HIDE DEF lost, raced, counted
  <2>4. IsFiniteSet(counted) /\ IsFiniteSet(lost \cup raced)
    BY <2>3, FS_Subset, Zenon
  <2>5. /\ Cardinality(lost \ raced) <= Cardinality(counted)
        /\ Cardinality(counted) <= Cardinality(lost \cup raced)
    BY <2>2, <2>4, FS_Subset, Zenon
  <2> QED BY <2>5 DEF LossExplained, LostMessages, lost, raced, counted
<1> QED BY <1>1, LogRecorded, PTL
=============================================================================
