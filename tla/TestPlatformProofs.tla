------------------------- MODULE TestPlatformProofs -------------------------
(***************************************************************************)
(* Proofs about TestPlatform, for any number of tests, requests, executions *)
(* and crashes.                                                            *)
(***************************************************************************)
EXTENDS TestPlatform, TLAPS

USE PlatformConstants DEF PlatformConstants

-----------------------------------------------------------------------------
(* The inductive invariant of the executions.  Before its first stage an   *)
(* execution has passed none; between stages a non-fuzz execution has      *)
(* passed all the earlier ones; and it has passed all of them when it      *)
(* fetches its result, or saves another status than "failed".              *)

Sane(e) ==
  /\ e.pc \in {"off", "load", "enter", "setenv"} => e.stage = 1 /\ e.passed = 0
  /\ e.pc # "off" => e.test \in Tests
  /\ e.pc \in {"stage", "child"} =>
       /\ e.stage <= Stages(Kind[e.test])
       /\ e.passed < e.stage
       /\ Kind[e.test] # "fuzz" => e.passed = e.stage - 1
  /\ e.pc \in {"fetch", "save", "write"} /\ Kind[e.test] # "fuzz" =>
       \/ e.passed = Stages(Kind[e.test])
       \/ e.pc # "fetch" /\ e.out = "failed"

HasResult(x) ==
  exec[x].pc \in {"setenv", "stage", "child", "fetch"} => results[exec[x].test] \in Execs

PlatformInv ==
  /\ PlatformTypeOK
  /\ \A x \in Execs : Sane(exec[x]) /\ HasResult(x)
  /\ \A t \in Tests : row[t].deleted => row[t].status # "none"
  /\ \A u \in Users : call[u].op # "idle" => call[u].test \in Tests

\* The types of tests and how many stages each has.
LEMMA StageCounts ==
  ASSUME NEW t \in Tests
  PROVE  /\ Kind[t] \in TestTypes
         /\ Stages(Kind[t]) \in 1..6
BY DEF TestTypes, Stages

\* What a stage that has ended makes of a sane execution.
LEMMA AdvanceSane ==
  ASSUME PlatformInv, NEW x \in Execs, NEW ok \in BOOLEAN,
         exec[x].pc \in {"stage", "child"}
  PROVE  /\ Advance(x, ok) \in Execution
         /\ Sane(Advance(x, ok))
         /\ Advance(x, ok).test = exec[x].test
         /\ Advance(x, ok).pc \in {"stage", "fetch", "save"}
         /\ Advance(x, ok).pc = "stage" => Advance(x, ok).intruded = exec[x].intruded
<1> DEFINE e == exec[x]
           k == Kind[e.test]
<1>1. /\ e \in Execution /\ Sane(e) /\ e.test \in Tests
      /\ e.stage \in 1..6 /\ e.passed \in 0..6 /\ e.intruded \in BOOLEAN
  BY DEF PlatformInv, PlatformTypeOK, Execution, Sane
<1>2. k \in TestTypes /\ Stages(k) \in 1..6
  BY <1>1, StageCounts
<1>3. /\ e.stage <= Stages(k) /\ e.passed < e.stage
      /\ k # "fuzz" => e.passed = e.stage - 1
  BY <1>1 DEF Sane
<1>4. AfterStage(x, ok) \in {"stage", "fetch", "save"}
  BY DEF AfterStage
<1>5. /\ AfterStage(x, ok) = "stage" => e.stage + 1 <= Stages(k) /\ (ok \/ k = "fuzz")
      /\ AfterStage(x, ok) = "fetch" => e.stage = Stages(k) /\ (ok \/ k = "fuzz")
  BY <1>1, <1>2, <1>3 DEF AfterStage, KindOf
<1>6. /\ Advance(x, ok).pc = AfterStage(x, ok)
      /\ Advance(x, ok).test = e.test
      /\ Advance(x, ok).stage = IF AfterStage(x, ok) = "stage" THEN e.stage + 1 ELSE e.stage
      /\ Advance(x, ok).out = IF AfterStage(x, ok) = "save" THEN "failed" ELSE e.out
      /\ Advance(x, ok).passed = IF ok THEN e.passed + 1 ELSE e.passed
      /\ Advance(x, ok).intruded = (e.intruded /\ AfterStage(x, ok) = "stage")
      /\ Advance(x, ok).target = None
  BY <1>1 DEF Advance, Execution
<1>7. Advance(x, ok) \in Execution
  <2> DEFINE p == AfterStage(x, ok)
             s == IF p = "stage" THEN e.stage + 1 ELSE e.stage
             o == IF p = "save" THEN "failed" ELSE e.out
             n == IF ok THEN e.passed + 1 ELSE e.passed
             i == e.intruded /\ p = "stage"
  <2>1. p \in Points
    BY <1>4 DEF Points
  <2>2. s \in 1..6
    BY <1>1, <1>2, <1>5
  <2>3. o \in Statuses
    BY <1>1 DEF Execution, Statuses
  <2>4. n \in 0..6
    BY <1>1, <1>2, <1>3
  <2>5. i \in BOOLEAN
    OBVIOUS
  <2>6. Advance(x, ok) = [e EXCEPT !.pc = p, !.stage = s, !.out = o, !.passed = n,
                                   !.intruded = i, !.target = None]
    BY Zenon DEF Advance
  <2> HIDE DEF p, s, o, n, i
  <2> QED BY <1>1, <2>1, <2>2, <2>3, <2>4, <2>5, <2>6 DEF Execution
<1>8. Sane(Advance(x, ok))
  <2>1. CASE AfterStage(x, ok) = "stage"
    BY <2>1, <1>1, <1>2, <1>3, <1>5, <1>6 DEF Sane
  <2>2. CASE AfterStage(x, ok) = "fetch"
    BY <2>2, <1>1, <1>2, <1>3, <1>5, <1>6 DEF Sane
  <2>3. CASE AfterStage(x, ok) = "save"
    BY <2>3, <1>1, <1>6 DEF Sane
  <2> QED BY <2>1, <2>2, <2>3, <1>4
<1>9. AfterStage(x, ok) = "stage" => Advance(x, ok).intruded = e.intruded
  BY <1>1, <1>6
<1> QED BY <1>4, <1>6, <1>7, <1>8, <1>9

-----------------------------------------------------------------------------
LEMMA InitInv == PlatformInit => PlatformInv
BY DEF PlatformInit, PlatformInv, PlatformTypeOK, Row, Statuses, Calls, Idle,
       Execution, Points, Fresh, Sane, HasResult

\* Steps that leave the executions and their results alone.
LEMMA HandlersKeep ==
  ASSUME PlatformInv, UNCHANGED <<exec, results>>,
         row' \in [Tests -> Row], call' \in [Users -> Calls], reports' \subseteq Tests,
         \A t \in Tests : row'[t].deleted => row'[t].status # "none",
         \A u \in Users : call'[u].op # "idle" => call'[u].test \in Tests,
         UNCHANGED <<object, env, hurt, crashes>>
  PROVE  PlatformInv'
BY DEF PlatformInv, PlatformTypeOK, HasResult

\* Steps that move one execution.
LEMMA ExecutionMoves ==
  ASSUME PlatformInv, NEW x \in Execs, NEW e \in Execution,
         exec' = [exec EXCEPT ![x] = e], Sane(e),
         results' \in [Tests -> Execs \cup {None}],
         \A t \in Tests : results[t] \in Execs => results'[t] \in Execs,
         e.pc \in {"setenv", "stage", "child", "fetch"} => results'[e.test] \in Execs,
         row' \in [Tests -> Row], call' \in [Users -> Calls], reports' \subseteq Tests,
         \A t \in Tests : row'[t].deleted => row'[t].status # "none",
         \A u \in Users : call'[u].op # "idle" => call'[u].test \in Tests,
         object' \in [Execs -> Statuses], env' \in Nat \cup {None}, hurt' \subseteq Tests,
         crashes' = crashes
  PROVE  PlatformInv'
<1>1. exec' \in [Execs -> Execution]
  BY DEF PlatformInv, PlatformTypeOK
<1>2. ASSUME NEW y \in Execs PROVE Sane(exec'[y]) /\ HasResult(y)'
  <2>1. CASE y = x
    BY <2>1, <1>1 DEF PlatformInv, PlatformTypeOK, HasResult
  <2>2. CASE y # x
    <3>1. exec'[y] = exec[y]
      BY <2>2 DEF PlatformInv, PlatformTypeOK
    <3>2. exec[y].pc \in {"setenv", "stage", "child", "fetch"} => exec[y].test \in Tests
      BY DEF PlatformInv, Sane
    <3> QED BY <3>1, <3>2 DEF PlatformInv, HasResult
  <2> QED BY <2>1, <2>2
<1> QED BY <1>1, <1>2 DEF PlatformInv, PlatformTypeOK

\* UpdateTest keeps the shape of the table and brings no deleted row back.
LEMMA UpdateTestKeeps ==
  ASSUME PlatformInv, NEW t \in Tests, NEW s \in Statuses, UpdateTest(t, s)
  PROVE  /\ row' \in [Tests -> Row]
         /\ \A r \in Tests : row'[r].deleted => row'[r].status # "none"
BY DEF PlatformInv, PlatformTypeOK, UpdateTest, Row, Statuses

\* The handlers preserve the invariant.
LEMMA HandlersInv ==
  ASSUME PlatformInv,
         \/ \E t \in Tests : CreateTest(t) \/ DeleteTest(t)
         \/ \E u \in Users : Request(u)
  PROVE  PlatformInv'
<1> USE DEF PlatformInv, PlatformTypeOK
<1>1. ASSUME NEW t \in Tests, CreateTest(t) \/ DeleteTest(t) PROVE PlatformInv'
  <2>1. /\ row' \in [Tests -> Row]
        /\ \A r \in Tests : row'[r].deleted => row'[r].status # "none"
    <3>1. CASE CreateTest(t)
      BY <3>1 DEF CreateTest, Row, Statuses
    <3>2. CASE DeleteTest(t)
      <4> DEFINE d == [row[t] EXCEPT !.deleted = TRUE]
      <4>1. row[t] \in Row /\ row[t].status # "none" /\ row' = [row EXCEPT ![t] = d]
        BY <3>2 DEF DeleteTest
      <4>2. d \in Row /\ d.status = row[t].status
        BY <4>1 DEF Row
      <4> HIDE DEF d
      <4> QED BY <4>1, <4>2
    <3> QED BY <1>1, <3>1, <3>2
  <2> QED BY <2>1, <1>1, HandlersKeep DEF CreateTest, DeleteTest
<1>2. ASSUME NEW u \in Users, NEW t \in Tests, StartTest(u, t) \/ StopTest(u, t)
      PROVE  PlatformInv'
  BY <1>2, HandlersKeep DEF StartTest, StopTest, ReadFor, Calls
<1>3. ASSUME NEW u \in Users, StartUpdate(u) PROVE PlatformInv'
  <2> DEFINE t == call[u].test
  <2>1. t \in Tests /\ call' \in [Users -> Calls]
        /\ \A v \in Users : call'[v].op # "idle" => call'[v].test \in Tests
    BY <1>3 DEF StartUpdate, Calls, Idle
  <2>2. /\ row' \in [Tests -> Row]
        /\ \A r \in Tests : row'[r].deleted => row'[r].status # "none"
    BY <1>3, <2>1, UpdateTestKeeps DEF StartUpdate, Statuses
  <2>3. PICK x \in Execs : exec[x].pc = "off" /\ exec' = [exec EXCEPT ![x].pc = "load", ![x].test = t]
    BY <1>3 DEF StartUpdate
  <2> DEFINE e == [exec[x] EXCEPT !.pc = "load", !.test = t]
  <2>5. exec' = [exec EXCEPT ![x] = e]
    BY <2>3
  <2> HIDE DEF t
  <2>6. exec[x] \in Execution /\ exec[x].stage = 1 /\ exec[x].passed = 0
    BY <2>3 DEF Sane
  <2>7. e \in Execution /\ e.pc = "load" /\ e.test = t /\ e.stage = 1 /\ e.passed = 0
    BY <2>1, <2>6 DEF Execution, Points
  <2>4. Sane(e)
    BY <2>1, <2>7 DEF Sane
  <2> HIDE DEF e
  <2> QED BY <1>3, <2>1, <2>2, <2>4, <2>5, <2>7, ExecutionMoves DEF StartUpdate
<1>4. ASSUME NEW u \in Users, StopUpdate(u) PROVE PlatformInv'
  <2>1. call[u].test \in Tests /\ call' \in [Users -> Calls]
        /\ \A v \in Users : call'[v].op # "idle" => call'[v].test \in Tests
    BY <1>4 DEF StopUpdate, Calls, Idle
  <2>2. /\ row' \in [Tests -> Row]
        /\ \A r \in Tests : row'[r].deleted => row'[r].status # "none"
    BY <1>4, <2>1, UpdateTestKeeps DEF StopUpdate, Statuses
  <2> QED BY <1>4, <2>1, <2>2, HandlersKeep DEF StopUpdate
<1>5. ASSUME NEW u \in Users, UpdateRefused(u) PROVE PlatformInv'
  <2>1. call' \in [Users -> Calls]
        /\ \A v \in Users : call'[v].op # "idle" => call'[v].test \in Tests
    BY <1>5 DEF UpdateRefused, Calls, Idle
  <2> QED BY <1>5, <2>1, HandlersKeep DEF UpdateRefused
<1> QED BY <1>1, <1>2, <1>3, <1>4, <1>5 DEF Request

\* An execution that takes one of its steps.
LEMMA ExecutionsInv ==
  ASSUME PlatformInv, NEW x \in Execs, Executing(x)
  PROVE  PlatformInv'
<1> DEFINE t == exec[x].test
           To(pc) == [exec[x] EXCEPT !.pc = pc]
<1> USE DEF At
<1>a. /\ PlatformTypeOK /\ exec[x] \in Execution /\ Sane(exec[x]) /\ HasResult(x)
      /\ \A r \in Tests : row[r].deleted => row[r].status # "none"
      /\ \A u \in Users : call[u].op # "idle" => call[u].test \in Tests
  BY DEF PlatformInv, PlatformTypeOK
<1>b. exec[x].pc # "off" => t \in Tests
  BY <1>a DEF Sane
<1>c. AfterUpdate(x) \in {"report", "done"}
  BY DEF AfterUpdate
\* A step that changes the place of the execution and, maybe, hurt, out,
\* target, results or object.
<1>1. CASE Load(x)
  <2>1. PICK pc \in {"enter", "done"} : exec' = [exec EXCEPT ![x].pc = pc]
    BY <1>1 DEF Load
  <2>2. To(pc) \in Execution /\ Sane(To(pc)) /\ exec' = [exec EXCEPT ![x] = To(pc)]
        /\ To(pc).pc = pc
    BY <1>1, <1>a, <2>1 DEF Load, Execution, Points, Sane
  <2>3. hurt' \subseteq Tests
    BY <1>1, <1>a, <1>b DEF Load, PlatformTypeOK
  <2> HIDE DEF To
  <2> QED BY <1>1, <1>a, <2>2, <2>3, ExecutionMoves DEF Load, PlatformTypeOK
<1>2. CASE Enter(x)
  <2>1. To("setenv") \in Execution /\ Sane(To("setenv")) /\ To("setenv").test = t
        /\ exec' = [exec EXCEPT ![x] = To("setenv")]
    BY <1>2, <1>a DEF Enter, Execution, Points, Sane
  <2>2. /\ results' \in [Tests -> Execs \cup {None}] /\ results'[t] \in Execs
        /\ \A r \in Tests : results[r] \in Execs => results'[r] \in Execs
        /\ object' \in [Execs -> Statuses]
    BY <1>2, <1>a, <1>b DEF Enter, PlatformTypeOK, Statuses
  <2>3. /\ row' = row /\ reports' = reports /\ call' = call /\ env' = env
        /\ hurt' = hurt /\ crashes' = crashes
    BY <1>2 DEF Enter
  <2> HIDE DEF To, t
  <2> QED BY <1>a, <2>1, <2>2, <2>3, ExecutionMoves DEF PlatformTypeOK
<1>3. CASE SetEnvironmentVariables(x)
  <2>1. Stages(Kind[t]) \in 1..6
    BY <1>3, <1>b, StageCounts DEF SetEnvironmentVariables
  <2>2. env' \in Nat \cup {None}
    BY <1>3, <1>a, <1>b DEF SetEnvironmentVariables, GetConcurrentClients, PlatformTypeOK
  <2>3. ASSUME NEW y \in Execs
        PROVE  exec'[y] \in Execution /\ Sane(exec'[y]) /\ HasResult(y)'
    <3>1. exec[y] \in Execution /\ Sane(exec[y]) /\ HasResult(y) /\ results' = results
      BY <1>3 DEF PlatformInv, PlatformTypeOK, SetEnvironmentVariables
    <3>2. CASE y = x
      <4>1. exec'[x] = [exec[x] EXCEPT !.pc = "stage"]
        BY <1>3 DEF SetEnvironmentVariables
      <4>2. exec'[x] \in Execution /\ Sane(exec'[x])
        BY <1>3, <1>a, <2>1, <4>1 DEF SetEnvironmentVariables, Execution, Points, Sane
      <4>3. HasResult(x)'
        BY <1>3, <1>a, <3>1, <4>1 DEF SetEnvironmentVariables, HasResult, Execution
      <4> QED BY <3>2, <4>2, <4>3
    <3>3. CASE y # x
      <4> DEFINE b == exec[y].intruded \/ exec[y].pc \in {"stage", "child"}
      <4>1. exec'[y] = [exec[y] EXCEPT !.intruded = b]
        BY <1>3, <3>3 DEF SetEnvironmentVariables
      <4>2. b \in BOOLEAN
        BY <3>1 DEF Execution
      <4> HIDE DEF b
      <4> QED BY <3>1, <4>1, <4>2 DEF Execution, Sane, HasResult
    <3> QED BY <3>2, <3>3
  <2>4. exec' \in [Execs -> Execution]
    BY <1>3, <2>3 DEF SetEnvironmentVariables
  <2> QED BY <1>3, <1>a, <2>2, <2>3, <2>4 DEF SetEnvironmentVariables, PlatformInv, PlatformTypeOK
<1>4. CASE RunGoTest(x)
  <2> DEFINE e == [exec[x] EXCEPT !.pc = "child", !.target = results[t]]
  <2>1. e \in Execution /\ Sane(e) /\ e.test = t /\ results[t] \in Execs
        /\ exec' = [exec EXCEPT ![x] = e]
    BY <1>4, <1>a, <1>b DEF RunGoTest, PlatformTypeOK, Execution, Points, Sane, HasResult
  <2> HIDE DEF e
  <2> QED BY <1>4, <1>a, <2>1, ExecutionMoves DEF RunGoTest, PlatformTypeOK
<1>5. CASE SpawnFails(x)
  <2>1. /\ Advance(x, FALSE) \in Execution /\ Sane(Advance(x, FALSE))
        /\ Advance(x, FALSE).test = t
    BY <1>5, AdvanceSane DEF SpawnFails
  <2>2. results[t] \in Execs /\ t \in Tests
    BY <1>5, <1>a, <1>b DEF SpawnFails, HasResult
  <2> QED BY <1>5, <1>a, <2>1, <2>2, ExecutionMoves DEF SpawnFails, PlatformTypeOK
<1>6. ASSUME NEW ok \in BOOLEAN, ChildEnds(x, ok) PROVE PlatformInv'
  <2>1. /\ Advance(x, ok) \in Execution /\ Sane(Advance(x, ok))
        /\ Advance(x, ok).test = t
    BY <1>6, AdvanceSane DEF ChildEnds
  <2>2. results[t] \in Execs /\ t \in Tests /\ object' \in [Execs -> Statuses]
    BY <1>6, <1>a, <1>b DEF ChildEnds, HasResult, PlatformTypeOK, Statuses
  <2> QED BY <1>6, <1>a, <2>1, <2>2, ExecutionMoves DEF ChildEnds, PlatformTypeOK
<1>7. CASE GetResult(x)
  <2> DEFINE e == [exec[x] EXCEPT !.pc = "save", !.out = object[results[t]]]
  <2>1. results[t] \in Execs /\ object[results[t]] \in Statuses
    BY <1>7, <1>a DEF GetResult, HasResult, PlatformTypeOK
  <2>2. e \in Execution /\ Sane(e) /\ e.pc = "save" /\ exec' = [exec EXCEPT ![x] = e]
    BY <1>7, <1>a, <2>1 DEF GetResult, Execution, Points, Sane
  <2> HIDE DEF e
  <2> QED BY <1>7, <1>a, <2>2, ExecutionMoves DEF GetResult, PlatformTypeOK
<1>8. CASE UpdateReads(x)
  <2>1. PICK pc \in {"write", "report", "done"} : exec' = [exec EXCEPT ![x].pc = pc]
    BY <1>8, <1>c DEF UpdateReads
  <2>2. To(pc) \in Execution /\ Sane(To(pc)) /\ exec' = [exec EXCEPT ![x] = To(pc)]
        /\ To(pc).pc = pc
    BY <1>8, <1>a, <2>1 DEF UpdateReads, Execution, Points, Sane
  <2>3. hurt' \subseteq Tests
    BY <1>8, <1>a, <1>b DEF UpdateReads, PlatformTypeOK
  <2> HIDE DEF To
  <2> QED BY <1>8, <1>a, <2>2, <2>3, ExecutionMoves DEF UpdateReads, PlatformTypeOK
<1>9. CASE UpdateWrites(x)
  <2>1. PICK pc \in {"report", "done"} : exec' = [exec EXCEPT ![x].pc = pc]
    BY <1>9, <1>c DEF UpdateWrites
  <2>2. To(pc) \in Execution /\ Sane(To(pc)) /\ exec' = [exec EXCEPT ![x] = To(pc)]
        /\ To(pc).pc = pc
    BY <1>9, <1>a, <2>1 DEF UpdateWrites, Execution, Points, Sane
  <2>3. hurt' \subseteq Tests /\ t \in Tests /\ exec[x].out \in Statuses
    BY <1>9, <1>a, <1>b DEF UpdateWrites, PlatformTypeOK, Execution
  <2>4. /\ row' \in [Tests -> Row]
        /\ \A r \in Tests : row'[r].deleted => row'[r].status # "none"
    BY <1>9, <1>a, <2>3, UpdateTestKeeps DEF UpdateWrites, PlatformTypeOK
  <2> HIDE DEF To
  <2> QED BY <1>9, <1>a, <2>2, <2>3, <2>4, ExecutionMoves DEF UpdateWrites, PlatformTypeOK
<1>10. CASE CreateTestReport(x)
  <2>1. To("done") \in Execution /\ Sane(To("done")) /\ To("done").pc = "done"
        /\ exec' = [exec EXCEPT ![x] = To("done")]
    BY <1>10, <1>a DEF CreateTestReport, Execution, Points, Sane
  <2>2. hurt' \subseteq Tests /\ reports' \subseteq Tests
    BY <1>10, <1>a, <1>b DEF CreateTestReport, PlatformTypeOK
  <2> HIDE DEF To
  <2> QED BY <1>10, <1>a, <2>1, <2>2, ExecutionMoves DEF CreateTestReport, PlatformTypeOK
<1> QED BY <1>1, <1>2, <1>3, <1>4, <1>5, <1>6, <1>7, <1>8, <1>9, <1>10 DEF Executing

\* A crash forgets calls, executions and results.
LEMMA CrashInv ==
  ASSUME PlatformInv, Crash
  PROVE  PlatformInv'
<1>1. ASSUME NEW x \in Execs
      PROVE  exec'[x] \in Execution /\ Sane(exec'[x]) /\ HasResult(x)'
  <2>1. exec[x] \in Execution /\ Sane(exec[x])
    BY DEF PlatformInv, PlatformTypeOK
  <2>2. CASE exec[x].pc \in Alive
    <3>1. exec'[x] = [exec[x] EXCEPT !.pc = "dead"]
      BY <2>2 DEF Crash
    <3>2. exec'[x] \in Execution /\ exec'[x].pc = "dead" /\ exec'[x].test = exec[x].test
      BY <2>1, <3>1 DEF Execution, Points
    <3>3. exec[x].test \in Tests
      BY <2>1, <2>2 DEF Sane, Alive
    <3> QED BY <3>2, <3>3 DEF Sane, HasResult
  <2>3. CASE exec[x].pc \notin Alive
    BY <2>1, <2>3 DEF Crash, Execution, Alive, Points, Sane, HasResult
  <2> QED BY <2>2, <2>3
<1>2. exec' \in [Execs -> Execution]
  BY <1>1 DEF Crash
<1>3. hurt' \subseteq Tests
  <2>1. \A x \in Execs : exec[x].pc \in Alive => exec[x].test \in Tests
    BY DEF PlatformInv, Sane, Alive
  <2> QED BY <2>1 DEF Crash, PlatformInv, PlatformTypeOK
<1>4. /\ call' \in [Users -> Calls] /\ \A u \in Users : call'[u].op = "idle"
      /\ results' \in [Tests -> Execs \cup {None}]
      /\ env' \in Nat \cup {None} /\ crashes' \in 0..MaxCrashes
  BY DEF Crash, PlatformInv, PlatformTypeOK, Calls, Idle
<1> QED BY <1>1, <1>2, <1>3, <1>4 DEF Crash, PlatformInv, PlatformTypeOK

LEMMA NextInv == PlatformInv /\ [PlatformNext]_platformVars => PlatformInv'
<1> SUFFICES ASSUME PlatformInv, [PlatformNext]_platformVars PROVE PlatformInv'
  OBVIOUS
<1>1. CASE UNCHANGED platformVars
  BY <1>1 DEF platformVars, PlatformInv, PlatformTypeOK, HasResult
<1> QED BY <1>1, HandlersInv, ExecutionsInv, CrashInv DEF PlatformNext

(***************************************************************************)
(* The platform keeps its shape: no execution runs past its last stage and *)
(* none is without a test (test_handlers_pgx.go, test_executor.go).        *)
(***************************************************************************)
THEOREM PlatformTypeCorrect == PlatformSpec => []PlatformTypeOK
<1>1. PlatformInv => PlatformTypeOK
  BY DEF PlatformInv
<1> QED BY <1>1, InitInv, NextInv, PTL DEF PlatformSpec

-----------------------------------------------------------------------------
(* Deleted rows.                                                           *)

\* A step writes one row that is not deleted, or none.
LEMMA WritesLiveRow ==
  ASSUME PlatformInv, [PlatformNext]_platformVars
  PROVE  \/ row' = row
         \/ \E t \in Tests, r \in Row :
              /\ ~row[t].deleted
              /\ row' = [row EXCEPT ![t] = r]
<1>1. row \in [Tests -> Row]
  BY DEF PlatformInv, PlatformTypeOK
<1>2. ASSUME NEW t \in Tests, NEW s \in Statuses, UpdateTest(t, s)
      PROVE  \/ row' = row
             \/ /\ ~row[t].deleted
                /\ \E r \in Row : row' = [row EXCEPT ![t] = r]
  <2> DEFINE r == [row[t] EXCEPT !.status = s]
  <2>1. CASE row[t].deleted
    BY <1>1, <1>2, <2>1 DEF UpdateTest, Row
  <2>2. CASE ~row[t].deleted
    <3>1. r \in Row /\ row' = [row EXCEPT ![t] = r]
      BY <1>1, <1>2, <2>2 DEF UpdateTest, Row
    <3> QED BY <2>2, <3>1
  <2> QED BY <2>1, <2>2
<1>3. ASSUME NEW t \in Tests, CreateTest(t)
      PROVE  ~row[t].deleted /\ \E r \in Row : row' = [row EXCEPT ![t] = r]
  <2> DEFINE r == [row[t] EXCEPT !.status = "pending"]
  <2>1. r \in Row /\ row' = [row EXCEPT ![t] = r]
    BY <1>1, <1>3 DEF CreateTest, Row, Statuses
  <2> QED BY <1>3, <2>1 DEF CreateTest, PlatformInv
<1>4. ASSUME NEW t \in Tests, DeleteTest(t)
      PROVE  row' = row \/ (~row[t].deleted /\ \E r \in Row : row' = [row EXCEPT ![t] = r])
  <2> DEFINE r == [row[t] EXCEPT !.deleted = TRUE]
  <2>1. row' = [row EXCEPT ![t] = r]
    BY <1>4 DEF DeleteTest
  <2>2. r \in Row
    BY <1>1 DEF Row
  <2>3. CASE row[t].deleted
    \* a second DELETE
    <3>1. r = row[t]
      BY <1>1, <2>3 DEF Row
    <3> HIDE DEF r
    <3> QED BY <1>1, <2>1, <3>1
  <2>4. CASE ~row[t].deleted
    <3> HIDE DEF r
    <3> QED BY <2>1, <2>2, <2>4
  <2> QED BY <2>3, <2>4
<1>5. ASSUME NEW u \in Users, StartUpdate(u) \/ StopUpdate(u)
      PROVE  row' = row \/ \E t \in Tests, r \in Row :
                             ~row[t].deleted /\ row' = [row EXCEPT ![t] = r]
  <2>1. call[u].test \in Tests
    BY <1>5 DEF StartUpdate, StopUpdate, PlatformInv
  <2>2. UpdateTest(call[u].test, "running") \/ UpdateTest(call[u].test, "stopped")
    BY <1>5 DEF StartUpdate, StopUpdate
  <2> QED BY <1>2, <2>1, <2>2 DEF Statuses
<1>6. ASSUME NEW x \in Execs, UpdateWrites(x)
      PROVE  row' = row \/ \E t \in Tests, r \in Row :
                             ~row[t].deleted /\ row' = [row EXCEPT ![t] = r]
  <2>1. exec[x].test \in Tests /\ exec[x].out \in Statuses
    BY <1>6 DEF UpdateWrites, At, PlatformInv, PlatformTypeOK, Sane, Execution
  <2>2. row' = row \/ UpdateTest(exec[x].test, exec[x].out)
    BY <1>6 DEF UpdateWrites
  <2> QED BY <1>2, <2>1, <2>2
<1>7. CASE UNCHANGED platformVars
  BY <1>7 DEF platformVars
<1>8. CASE Crash
  BY <1>8 DEF Crash
<1>9. ASSUME NEW t \in Tests, CreateTest(t) \/ DeleteTest(t)
      PROVE  row' = row \/ \E q \in Tests, r \in Row :
                             ~row[q].deleted /\ row' = [row EXCEPT ![q] = r]
  BY <1>3, <1>4, <1>9
<1>10. ASSUME NEW u \in Users, Request(u)
       PROVE  row' = row \/ StartUpdate(u) \/ StopUpdate(u)
  BY <1>10 DEF Request, StartTest, StopTest, ReadFor, UpdateRefused
<1>11. ASSUME NEW x \in Execs, Executing(x)
       PROVE  row' = row \/ UpdateWrites(x)
  BY <1>11 DEF Executing, Load, Enter, SetEnvironmentVariables, RunGoTest, SpawnFails,
               ChildEnds, GetResult, UpdateReads, CreateTestReport
<1> QED BY <1>5, <1>6, <1>7, <1>8, <1>9, <1>10, <1>11 DEF PlatformNext

(***************************************************************************)
(* A deleted row stays as it was, whichever handlers read it before and    *)
(* whatever executions of it are under way (UpdateTest in tests.sql.go).   *)
(***************************************************************************)
THEOREM DeletedStaysFrozen == PlatformSpec => DeletedRowFrozen
<1>1. PlatformInv /\ [PlatformNext]_platformVars
        => [\A t \in Tests : row[t].deleted => row'[t] = row[t]]_platformVars
  <2> SUFFICES ASSUME PlatformInv, [PlatformNext]_platformVars,
                      NEW t \in Tests, row[t].deleted
               PROVE  row'[t] = row[t]
    OBVIOUS
  <2> QED BY WritesLiveRow DEF PlatformInv, PlatformTypeOK
<1> QED BY <1>1, InitInv, NextInv, PTL DEF PlatformSpec, DeletedRowFrozen

-----------------------------------------------------------------------------
(* A completed test has been through all of its stages.                    *)

\* An execution that has passed every stage keeps its test and its count.
LEMMA EarnedStays ==
  ASSUME PlatformInv, [PlatformNext]_platformVars, NEW x \in Execs, NEW t \in Tests,
         Kind[t] # "fuzz", exec[x].test = t, exec[x].passed = Stages(Kind[t])
  PROVE  exec'[x].test = t /\ exec'[x].passed = Stages(Kind[t])
<1>1. Stages(Kind[t]) \in 1..6 /\ exec[x] \in Execution /\ Sane(exec[x])
  BY StageCounts DEF PlatformInv, PlatformTypeOK
<1>2. exec[x].pc \notin {"off", "load", "enter", "setenv", "stage", "child"}
  <2>1. exec[x].passed \in 0..6 /\ exec[x].stage \in 1..6
    BY <1>1 DEF Execution
  <2> QED BY <1>1, <2>1 DEF Sane
<1>3. exec \in [Execs -> Execution]
  BY DEF PlatformInv, PlatformTypeOK
<1>4. CASE UNCHANGED exec
  BY <1>4
<1>5. ASSUME NEW u \in Users, StartUpdate(u)
      PROVE  exec'[x] = exec[x]
  BY <1>2, <1>3, <1>5 DEF StartUpdate
<1>6. CASE Crash
  BY <1>3, <1>6 DEF Crash, Execution
<1>7. ASSUME NEW y \in Execs, Executing(y)
      PROVE  exec'[x].test = exec[x].test /\ exec'[x].passed = exec[x].passed
  <2>1. CASE SetEnvironmentVariables(y)
    <3>1. x # y
      BY <1>2, <2>1 DEF SetEnvironmentVariables, At
    <3>2. exec'[x] = [exec[x] EXCEPT !.intruded = exec[x].intruded \/ exec[x].pc \in {"stage", "child"}]
      BY <2>1, <3>1 DEF SetEnvironmentVariables
    <3> QED BY <1>1, <3>2 DEF Execution
  <2>2. CASE RunGoTest(y) \/ SpawnFails(y) \/ (\E ok \in BOOLEAN : ChildEnds(y, ok))
    <3>1. x # y
      BY <1>2, <2>2 DEF RunGoTest, SpawnFails, ChildEnds, At
    <3> QED BY <1>3, <2>2, <3>1 DEF RunGoTest, SpawnFails, ChildEnds
  <2>3. CASE Load(y) \/ Enter(y) \/ GetResult(y)
    BY <1>1, <1>3, <2>3 DEF Load, Enter, GetResult, Execution
  <2>4. CASE UpdateReads(y) \/ UpdateWrites(y) \/ CreateTestReport(y)
    BY <1>1, <1>3, <2>4 DEF UpdateReads, UpdateWrites, CreateTestReport, Execution
  <2> QED BY <1>7, <2>1, <2>2, <2>3, <2>4 DEF Executing
<1>8. CASE UNCHANGED platformVars
  BY <1>4, <1>8 DEF platformVars
<1>9. ASSUME NEW q \in Tests, CreateTest(q) \/ DeleteTest(q) PROVE UNCHANGED exec
  BY <1>9 DEF CreateTest, DeleteTest
<1>10. ASSUME NEW u \in Users, Request(u) PROVE UNCHANGED exec \/ StartUpdate(u)
  BY <1>10 DEF Request, StartTest, StopTest, ReadFor, StopUpdate, UpdateRefused
<1> QED BY <1>4, <1>5, <1>6, <1>7, <1>8, <1>9, <1>10 DEF PlatformNext

\* Only an execution stores "completed", and only its own result.
LEMMA CompletedByExecution ==
  ASSUME PlatformInv, [PlatformNext]_platformVars, NEW t \in Tests,
         row'[t].status = "completed", row[t].status # "completed"
  PROVE  \E x \in Execs : exec[x].pc = "write" /\ exec[x].test = t /\ exec[x].out = "completed"
<1>1. row \in [Tests -> Row]
  BY DEF PlatformInv, PlatformTypeOK
<1>2. row' # row
  OBVIOUS
<1>3. ASSUME NEW q \in Tests, CreateTest(q) \/ DeleteTest(q) PROVE FALSE
  BY <1>1, <1>3 DEF CreateTest, DeleteTest, Row
<1>4. ASSUME NEW u \in Users, Request(u) PROVE FALSE
  <2>1. UpdateTest(call[u].test, "running") \/ UpdateTest(call[u].test, "stopped")
    BY <1>2, <1>4 DEF Request, StartTest, StopTest, ReadFor, StartUpdate, StopUpdate, UpdateRefused
  <2> QED BY <1>1, <2>1 DEF UpdateTest, Row
<1>5. ASSUME NEW x \in Execs, Executing(x)
      PROVE  exec[x].pc = "write" /\ exec[x].test = t /\ exec[x].out = "completed"
  <2>1. UpdateWrites(x) /\ UpdateTest(exec[x].test, exec[x].out)
    BY <1>2, <1>5 DEF Executing, Load, Enter, SetEnvironmentVariables, RunGoTest, SpawnFails,
                     ChildEnds, GetResult, UpdateReads, CreateTestReport, UpdateWrites
  <2>2. exec[x].pc = "write"
    BY <2>1 DEF UpdateWrites, At
  <2> QED BY <1>1, <2>1, <2>2 DEF UpdateTest, Row
<1> QED BY <1>2, <1>3, <1>4, <1>5 DEF PlatformNext, Crash, platformVars

(***************************************************************************)
(* A test that is not a fuzz test is stored as completed only if one       *)
(* execution of it got nil from every stage, however many executions share *)
(* its entry in the map of results (executeTest, ExecuteTest).             *)
(***************************************************************************)
THEOREM CompletedAlwaysEarned == PlatformSpec => []CompletedIsEarned
<1>1. PlatformInit => CompletedIsEarned
  BY DEF PlatformInit, CompletedIsEarned
<1>2. PlatformInv /\ CompletedIsEarned /\ [PlatformNext]_platformVars => CompletedIsEarned'
  <2> SUFFICES ASSUME PlatformInv, CompletedIsEarned, [PlatformNext]_platformVars,
                      NEW t \in Tests, row'[t].status = "completed", Kind[t] # "fuzz"
               PROVE  \E x \in Execs : exec'[x].test = t /\ Earned(x)'
    BY DEF CompletedIsEarned
  <2>1. PICK x \in Execs : exec[x].test = t /\ exec[x].passed = Stages(Kind[t])
    <3>1. CASE row[t].status = "completed"
      BY <3>1 DEF CompletedIsEarned, Earned, KindOf
    <3>2. CASE row[t].status # "completed"
      <4>1. PICK x \in Execs : exec[x].pc = "write" /\ exec[x].test = t /\ exec[x].out = "completed"
        BY <3>2, CompletedByExecution
      <4>2. Sane(exec[x])
        BY DEF PlatformInv
      <4> QED BY <4>1, <4>2 DEF Sane
    <3> QED BY <3>1, <3>2
  <2>2. exec'[x].test = t /\ exec'[x].passed = Stages(Kind[t])
    BY <2>1, EarnedStays
  <2> QED BY <2>2 DEF Earned, KindOf
<1> QED BY <1>1, <1>2, InitInv, NextInv, PTL DEF PlatformSpec

-----------------------------------------------------------------------------
(* The environment.                                                        *)

\* OverrideOrIntruder also while the command runs: the next stage starts from
\* there.
EnvInv ==
  \A x \in Execs :
    /\ exec[x].pc \in {"stage", "child"}
    /\ Override[exec[x].test] # None
    /\ ~exec[x].intruded
    => env = Override[exec[x].test]

(***************************************************************************)
(* A command finds the requested value in its environment, unless another  *)
(* execution has set the variable in between (SetEnvironmentVariables).    *)
(***************************************************************************)
THEOREM OverrideAlwaysOrIntruder == PlatformSpec => []OverrideOrIntruder
<1>1. PlatformInit => EnvInv
  BY DEF PlatformInit, EnvInv, Fresh
<1>2. PlatformInv /\ EnvInv /\ [PlatformNext]_platformVars => EnvInv'
  <2> SUFFICES ASSUME PlatformInv, EnvInv, [PlatformNext]_platformVars, NEW x \in Execs,
                      exec'[x].pc \in {"stage", "child"},
                      Override[exec'[x].test] # None, ~exec'[x].intruded
               PROVE  env' = Override[exec'[x].test]
    BY DEF EnvInv
  <2>1. exec \in [Execs -> Execution] /\ exec[x] \in Execution /\ Sane(exec[x])
    BY DEF PlatformInv, PlatformTypeOK
  <2>2. CASE UNCHANGED <<exec, env>>
    BY <2>2 DEF EnvInv
  <2>3. ASSUME NEW u \in Users, StartUpdate(u)
        PROVE  exec'[x] = exec[x] /\ env' = env
    BY <2>1, <2>3 DEF StartUpdate
  <2>4. CASE Crash
    BY <2>1, <2>4 DEF Crash, Alive, Points, Execution
  <2>5. ASSUME NEW y \in Execs, SetEnvironmentVariables(y)
        PROVE  env' = Override[exec'[x].test]
    <3>1. CASE x = y
      BY <2>1, <2>5, <3>1 DEF SetEnvironmentVariables, GetConcurrentClients, Execution
    <3>2. CASE x # y
      <4>1. exec'[x] = [exec[x] EXCEPT !.intruded = @ \/ exec[x].pc \in {"stage", "child"}]
        BY <2>5, <3>2 DEF SetEnvironmentVariables
      <4> QED BY <2>1, <4>1 DEF Execution
    <3> QED BY <3>1, <3>2
  <2>6. ASSUME NEW y \in Execs, Executing(y), ~SetEnvironmentVariables(y)
        PROVE  env' = Override[exec'[x].test]
    <3>1. env' = env
      BY <2>6 DEF Executing, Load, Enter, RunGoTest, SpawnFails, ChildEnds, GetResult,
                  UpdateReads, UpdateWrites, CreateTestReport
    <3>2. exec[x].pc \in {"stage", "child"} /\ exec'[x].test = exec[x].test
          /\ exec'[x].intruded = exec[x].intruded
      <4>1. CASE Load(y) \/ Enter(y) \/ GetResult(y)
        BY <2>1, <4>1 DEF Load, Enter, GetResult, At, Execution
      <4>2. CASE UpdateReads(y) \/ UpdateWrites(y) \/ CreateTestReport(y)
        BY <2>1, <4>2 DEF UpdateReads, UpdateWrites, CreateTestReport, AfterUpdate, At, Execution
      <4>3. CASE RunGoTest(y)
        BY <2>1, <4>3 DEF RunGoTest, At, Execution
      <4>4. ASSUME NEW ok \in BOOLEAN, exec[y].pc \in {"stage", "child"},
                   exec' = [exec EXCEPT ![y] = Advance(y, ok)]
            PROVE  exec[x].pc \in {"stage", "child"} /\ exec'[x].test = exec[x].test
                   /\ exec'[x].intruded = exec[x].intruded
        BY <2>1, <4>4, AdvanceSane
      <4>5. CASE SpawnFails(y)
        BY <4>4, <4>5 DEF SpawnFails, At
      <4>6. CASE \E ok \in BOOLEAN : ChildEnds(y, ok)
        BY <4>4, <4>6 DEF ChildEnds, At
      <4> QED BY <2>6, <4>1, <4>2, <4>3, <4>5, <4>6 DEF Executing
    <3> QED BY <3>1, <3>2 DEF EnvInv
  <2>7. ASSUME NEW q \in Tests, CreateTest(q) \/ DeleteTest(q) PROVE UNCHANGED <<exec, env>>
    BY <2>7 DEF CreateTest, DeleteTest
  <2>8. ASSUME NEW u \in Users, Request(u) PROVE UNCHANGED <<exec, env>> \/ StartUpdate(u)
    BY <2>8 DEF Request, StartTest, StopTest, ReadFor, StopUpdate, UpdateRefused
  <2>9. CASE UNCHANGED platformVars
    BY <2>2, <2>9 DEF platformVars
  <2> QED BY <2>2, <2>3, <2>4, <2>5, <2>6, <2>7, <2>8, <2>9 DEF PlatformNext, EnvInv
<1>3. EnvInv => OverrideOrIntruder
  BY DEF EnvInv, OverrideOrIntruder
<1> QED BY <1>1, <1>2, <1>3, InitInv, NextInv, PTL DEF PlatformSpec

=============================================================================
