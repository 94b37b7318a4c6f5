---------------------------- MODULE TestPlatform ----------------------------
(***************************************************************************)
(* The test platform: the HTTP handlers that create, start, stop and       *)
(* delete tests (api/handlers/test_handlers_pgx.go), the table they share  *)
(* (internal/db), and the executor goroutine that every accepted start     *)
(* leaves behind (internal/testrunner).                                    *)
(*                                                                         *)
(* A handler reads a row with one statement and writes it with another;    *)
(* between the two anything may happen.  An execution keeps its result in  *)
(* the executor's map under the test's id, so two executions of one test   *)
(* share the entry, and hands its parameters to `go test' through the      *)
(* environment of the process, which all executions share.  The rows       *)
(* survive a crash; calls, executions, results and environment do not.     *)
(*                                                                         *)
(* Abstracted: names, times, scores and grades, the text of the output,    *)
(* the metrics (written with the report); of the parameters, one.          *)
(***************************************************************************)
EXTENDS Naturals, FiniteSets

CONSTANTS
  Tests,          \* ids of tests
  Users,          \* concurrent requests
  Execs,          \* executions, each used once: bounds the accepted starts
  Kind,           \* Kind[t]: the type it is created with
  Override,       \* Override[t]: concurrent_clients in the request, or None
  Default,        \* the value in the configuration file
  None,           \* no value, no execution, no test
  PlatformFaults, \* of "db" (a statement fails), "spawn" (go does not start)
  MaxCrashes      \* crashes of the process

TestTypes == {"unity_integration", "stress", "benchmark", "fuzz"}

ASSUME PlatformConstants ==
  /\ Kind \in [Tests -> TestTypes]
  /\ Override \in [Tests -> Nat \cup {None}]
  /\ Default \in Nat
  /\ None \notin Nat \cup Tests \cup Execs
  /\ MaxCrashes \in Nat

VARIABLES
  row,      \* row[t]: the row of the table tests
  reports,  \* the tests that have rows in test_reports
  call,     \* call[u]: the test a handler has read and is about to update
  exec,     \* exec[x]: the goroutine executeTest
  object,   \* object[x]: status of the TestResult that execution x allocated
  results,  \* results[t]: whose TestResult the executor's map holds
  env,      \* TEST_STRESS_CONCURRENT_CLIENTS of the process
  hurt,     \* history: tests one of whose executions met a fault
  crashes   \* how often the process has crashed

platformVars ==
  <<row, reports, call, exec, object, results, env, hurt, crashes>>

Statuses == {"none", "pending", "running", "stopped", "completed", "failed"}
Row == [status : Statuses, deleted : BOOLEAN]

Calls == [op : {"idle", "start", "stop"}, test : Tests \cup {None}]
Idle == [op |-> "idle", test |-> None]

Points == {"off", "load", "enter", "setenv", "stage", "child", "fetch",
           "save", "write", "report", "done", "dead"}
Alive == Points \ {"off", "done", "dead"}

\* stage: the next or current call of runGoTest; target: whose result it
\* writes; out: the status to be stored.  History: passed, the stages that
\* returned nil, and intruded, whether another execution has set the
\* environment since this one did.
Execution == [pc : Points, test : Tests \cup {None}, stage : 1..6,
              target : Execs \cup {None}, out : Statuses, passed : 0..6,
              intruded : BOOLEAN]
Fresh == [pc |-> "off", test |-> None, stage |-> 1, target |-> None,
          out |-> "none", passed |-> 0, intruded |-> FALSE]

\* Type correctness: every variable keeps its shape, a stage its bounds.
PlatformTypeOK ==
  /\ row \in [Tests -> Row]
  /\ reports \subseteq Tests
  /\ call \in [Users -> Calls]
  /\ exec \in [Execs -> Execution]
  /\ object \in [Execs -> Statuses]
  /\ results \in [Tests -> Execs \cup {None}]
  /\ env \in Nat \cup {None}
  /\ hurt \subseteq Tests
  /\ crashes \in 0..MaxCrashes

PlatformInit ==
  /\ row = [t \in Tests |-> [status |-> "none", deleted |-> FALSE]]
  /\ reports = {}
  /\ call = [u \in Users |-> Idle]
  /\ exec = [x \in Execs |-> Fresh]
  /\ object = [x \in Execs |-> "none"]
  /\ results = [t \in Tests |-> None]
  /\ env = None
  /\ hurt = {}
  /\ crashes = 0

-----------------------------------------------------------------------------
(* The statements the handlers use.                                        *)

\* GetTest finds a row that was inserted and is not deleted.
Visible(t) == row[t].status # "none" /\ ~row[t].deleted

\* UpdateTest ... WHERE id = $1 AND deleted_at IS NULL
UpdateTestSlip(t, s) == row' = [row EXCEPT ![t].status = s]
UpdateTest(t, s) ==
  row' = [row EXCEPT ![t].status = IF row[t].deleted THEN @ ELSE s]

DbMayFail == "db" \in PlatformFaults

-----------------------------------------------------------------------------
(* The handlers.                                                           *)

\* The row is inserted with a fresh id, after the type has been validated.
CreateTest(t) ==
  /\ row[t].status = "none"
  /\ row' = [row EXCEPT ![t].status = "pending"]
  /\ UNCHANGED <<reports, call, exec, object, results, env, hurt, crashes>>

\* StartTest and StopTest read the row and refuse unless it has the status
\* they ask for.
ReadFor(u, t, op, status) ==
  /\ call[u] = Idle
  /\ Visible(t)
  /\ row[t].status = status
  /\ call' = [call EXCEPT ![u] = [op |-> op, test |-> t]]
  /\ UNCHANGED <<row, reports, exec, object, results, env, hurt, crashes>>

StartTest(u, t) == ReadFor(u, t, "start", "pending")
StopTest(u, t) == ReadFor(u, t, "stop", "running")

\* ... and then write it, whatever has become of it since.
StartUpdate(u) ==
  LET t == call[u].test IN
  /\ call[u].op = "start"
  /\ ~row[t].deleted
  /\ UpdateTest(t, "running")
  /\ \E x \in Execs :
       /\ exec[x].pc = "off"
       /\ exec' = [exec EXCEPT ![x].pc = "load", ![x].test = t]
  /\ call' = [call EXCEPT ![u] = Idle]
  /\ UNCHANGED <<reports, object, results, env, hurt, crashes>>

StopUpdate(u) ==
  /\ call[u].op = "stop"
  /\ UpdateTest(call[u].test, "stopped")
  /\ call' = [call EXCEPT ![u] = Idle]
  /\ UNCHANGED <<reports, exec, object, results, env, hurt, crashes>>

\* The statement finds no row or fails: 500, and nothing has changed.
UpdateRefused(u) ==
  /\ call[u].op # "idle"
  /\ DbMayFail \/ row[call[u].test].deleted
  /\ call' = [call EXCEPT ![u] = Idle]
  /\ UNCHANGED <<row, reports, exec, object, results, env, hurt, crashes>>

\* Deletes softly, in any status; a row that is deleted already gets a new
\* deleted_at, a time that is left out here.
DeleteTest(t) ==
  /\ row[t].status # "none"
  /\ row' = [row EXCEPT ![t].deleted = TRUE]
  /\ UNCHANGED <<reports, call, exec, object, results, env, hurt, crashes>>

-----------------------------------------------------------------------------
(* An execution: executeTest, ExecuteTest, runGoTest, updateTestStatus,    *)
(* createTestReport.                                                       *)

At(x, pc) == exec[x].pc = pc

\* GetTest; when it finds nothing the goroutine ends, status untouched.
Load(x) ==
  LET t == exec[x].test IN
  /\ At(x, "load")
  /\ \/ /\ Visible(t)
        /\ exec' = [exec EXCEPT ![x].pc = "enter"]
        /\ UNCHANGED hurt
     \/ /\ ~Visible(t) \/ DbMayFail
        /\ exec' = [exec EXCEPT ![x].pc = "done"]
        /\ hurt' = IF Visible(t) THEN hurt \cup {t} ELSE hurt
  /\ UNCHANGED <<row, reports, call, object, results, env, crashes>>

\* ExecuteTest puts a new result under the test's id.
Enter(x) ==
  /\ At(x, "enter")
  /\ object' = [object EXCEPT ![x] = "running"]
  /\ results' = [results EXCEPT ![exec[x].test] = x]
  /\ exec' = [exec EXCEPT ![x].pc = "setenv"]
  /\ UNCHANGED <<row, reports, call, env, hurt, crashes>>

\* The parameter of the request, else the environment, else the file.
GetConcurrentClientsSlip(t) ==
  IF env # None THEN env
  ELSE IF Override[t] # None THEN Override[t] ELSE Default
GetConcurrentClients(t) ==
  IF Override[t] # None THEN Override[t]
  ELSE IF env # None THEN env ELSE Default

\* The variable is the process's: it is set for every other execution too.
SetEnvironmentVariables(x) ==
  /\ At(x, "setenv")
  /\ env' = GetConcurrentClients(exec[x].test)
  /\ exec' = [y \in Execs |->
                IF y = x THEN [exec[x] EXCEPT !.pc = "stage"]
                ELSE [exec[y] EXCEPT !.intruded =
                        @ \/ exec[y].pc \in {"stage", "child"}]]
  /\ UNCHANGED <<row, reports, call, object, results, hurt, crashes>>

\* How many times ExecuteTest calls runGoTest.
Stages(kind) == CASE kind = "unity_integration" -> 3 [] kind = "stress" -> 3
                  [] kind = "benchmark" -> 1         [] kind = "fuzz" -> 6

KindOf(x) == Kind[exec[x].test]

\* Where a stage that returned an error or not leaves the execution: a fuzz
\* test goes on and returns nil, the others return the first error.
AfterStageSlip(x, ok) ==
  IF exec[x].stage < Stages(KindOf(x)) THEN "stage" ELSE "fetch"
AfterStageQuits(x, ok) ==
  IF ~ok /\ KindOf(x) # "fuzz" THEN "done"
  ELSE IF exec[x].stage < Stages(KindOf(x)) THEN "stage" ELSE "fetch"
AfterStage(x, ok) ==
  IF ~ok /\ KindOf(x) # "fuzz" THEN "save"
  ELSE IF exec[x].stage < Stages(KindOf(x)) THEN "stage" ELSE "fetch"

Advance(x, ok) ==
  [exec[x] EXCEPT !.pc = AfterStage(x, ok),
                  !.stage = IF AfterStage(x, ok) = "stage" THEN @ + 1 ELSE @,
                  !.out = IF AfterStage(x, ok) = "save" THEN "failed" ELSE @,
                  !.passed = IF ok THEN @ + 1 ELSE @,
                  !.intruded = @ /\ AfterStage(x, ok) = "stage",
                  !.target = None]

\* runGoTest takes the result that is in the map now and starts the command,
\* which inherits the environment.
RunGoTest(x) ==
  /\ At(x, "stage")
  /\ exec' = [exec EXCEPT ![x].pc = "child",
                          ![x].target = results[exec[x].test]]
  /\ UNCHANGED <<row, reports, call, object, results, env, hurt, crashes>>

\* The command could not be started: an error, and the result as it was.
SpawnFails(x) ==
  /\ At(x, "stage")
  /\ "spawn" \in PlatformFaults
  /\ exec' = [exec EXCEPT ![x] = Advance(x, FALSE)]
  /\ hurt' = hurt \cup {exec[x].test}
  /\ UNCHANGED <<row, reports, call, object, results, env, crashes>>

\* The command has ended (each has a -timeout): the stage's result is the
\* status, whatever an earlier stage left there.
ChildEnds(x, ok) ==
  /\ At(x, "child")
  /\ object' = [object EXCEPT ![exec[x].target] =
                  IF ok THEN "completed" ELSE "failed"]
  /\ exec' = [exec EXCEPT ![x] = Advance(x, ok)]
  /\ UNCHANGED <<row, reports, call, results, env, hurt, crashes>>

\* GetResult, and result.Status read for the call of updateTestStatus.
GetResult(x) ==
  /\ At(x, "fetch")
  /\ exec' = [exec EXCEPT ![x].pc = "save",
                          ![x].out = object[results[exec[x].test]]]
  /\ UNCHANGED <<row, reports, call, object, results, env, hurt, crashes>>

\* The report follows updateTestStatus, whether that worked or not; after an
\* error of ExecuteTest there is none.
Earned(x) == exec[x].passed = Stages(KindOf(x))
AfterUpdateSlip(x) ==
  IF Earned(x) /\ results[exec[x].test] = x THEN "report" ELSE "done"
AfterUpdate(x) == IF Earned(x) \/ KindOf(x) = "fuzz" THEN "report" ELSE "done"

\* updateTestStatus reads the row ...
UpdateReads(x) ==
  LET t == exec[x].test IN
  /\ At(x, "save")
  /\ \/ /\ Visible(t)
        /\ exec' = [exec EXCEPT ![x].pc = "write"]
        /\ UNCHANGED hurt
     \/ /\ ~Visible(t) \/ DbMayFail
        /\ exec' = [exec EXCEPT ![x].pc = AfterUpdate(x)]
        /\ hurt' = IF Visible(t) THEN hurt \cup {t} ELSE hurt
  /\ UNCHANGED <<row, reports, call, object, results, env, crashes>>

\* ... and writes the status it was called with.
UpdateWrites(x) ==
  LET t == exec[x].test IN
  /\ At(x, "write")
  /\ \/ UpdateTest(t, exec[x].out) /\ UNCHANGED hurt
     \/ DbMayFail /\ hurt' = hurt \cup {t} /\ UNCHANGED row
  /\ exec' = [exec EXCEPT ![x].pc = AfterUpdate(x)]
  /\ UNCHANGED <<reports, call, object, results, env, crashes>>

CreateTestReport(x) ==
  LET t == exec[x].test IN
  /\ At(x, "report")
  /\ \/ reports' = reports \cup {t} /\ UNCHANGED hurt
     \/ DbMayFail /\ hurt' = hurt \cup {t} /\ UNCHANGED reports
  /\ exec' = [exec EXCEPT ![x].pc = "done"]
  /\ UNCHANGED <<row, call, object, results, env, crashes>>

\* The process dies and is started again.  Nothing at startup looks for
\* tests that were running.
Crash ==
  /\ crashes < MaxCrashes
  /\ crashes' = crashes + 1
  /\ call' = [u \in Users |-> Idle]
  /\ exec' = [x \in Execs |->
                IF exec[x].pc \in Alive THEN [exec[x] EXCEPT !.pc = "dead"]
                                        ELSE exec[x]]
  /\ hurt' = hurt \cup {exec[x].test : x \in {y \in Execs : exec[y].pc \in Alive}}
  /\ results' = [t \in Tests |-> None]
  /\ env' = None
  /\ UNCHANGED <<row, reports, object>>

-----------------------------------------------------------------------------
Request(u) ==
  \/ \E t \in Tests : StartTest(u, t) \/ StopTest(u, t)
  \/ StartUpdate(u) \/ StopUpdate(u) \/ UpdateRefused(u)

Executing(x) ==
  \/ Load(x) \/ Enter(x) \/ SetEnvironmentVariables(x)
  \/ RunGoTest(x) \/ SpawnFails(x) \/ \E ok \in BOOLEAN : ChildEnds(x, ok)
  \/ GetResult(x) \/ UpdateReads(x) \/ UpdateWrites(x) \/ CreateTestReport(x)

PlatformNext ==
  \/ \E t \in Tests : CreateTest(t) \/ DeleteTest(t)
  \/ \E u \in Users : Request(u)
  \/ \E x \in Execs : Executing(x)
  \/ Crash

PlatformSpec == PlatformInit /\ [][PlatformNext]_platformVars

\* Goroutines run; a `go test' ends, if only by its -timeout.  Requests and
\* faults need not come.
PlatformFairness == \A x \in Execs : WF_platformVars(Executing(x))

-----------------------------------------------------------------------------
(* Properties.                                                             *)

(***************************************************************************)
(* A test, other than a fuzz test, is stored as completed only if one      *)
(* execution of it got nil from every stage, also when two executions      *)
(* share the entry of the executor's map and when the row was stopped,     *)
(* overwritten or deleted meanwhile (executeTest, the error returns of     *)
(* executeIntegrationTests and executeStressTests).                        *)
(***************************************************************************)
CompletedIsEarned ==
  \A t \in Tests :
    row[t].status = "completed" /\ Kind[t] # "fuzz" =>
      \E x \in Execs : exec[x].test = t /\ Earned(x)

(***************************************************************************)
(* A deleted row stays as it was: no handler that read it before, and no   *)
(* execution that ends later, writes it (UpdateTest's condition on         *)
(* deleted_at).  Only a second DELETE does, and changes no more than the   *)
(* time of the deletion.                                                   *)
(***************************************************************************)
DeletedRowFrozen ==
  [][\A t \in Tests : row[t].deleted => row'[t] = row[t]]_platformVars

(***************************************************************************)
(* The parameters of the request have priority (config_overrides.go): when *)
(* a command is about to be started it will find the requested value in    *)
(* its environment, unless another execution has set the variable since    *)
(* this one did.                                                           *)
(***************************************************************************)
OverrideOrIntruder ==
  \A x \in Execs :
    LET asked == Override[exec[x].test] IN
    exec[x].pc = "stage" /\ asked # None /\ ~exec[x].intruded => env = asked

ExecutionsOf(t) == {x \in Execs : exec[x].test = t}

(***************************************************************************)
(* A running test leaves that status in the end (executeTest), as long as  *)
(* it was started once and no crash, failed statement or failed start of   *)
(* go hit its execution.  Two executions can leave it running for ever: one *)
(* reads the other's unfinished result and stores it last.                 *)
(***************************************************************************)
Sound(t) == ~row[t].deleted /\ t \notin hurt /\ Cardinality(ExecutionsOf(t)) < 2
RunningEnds ==
  \A t \in Tests :
    row[t].status = "running" /\ Sound(t)
      ~> row[t].status # "running" \/ ~Sound(t)

(***************************************************************************)
(* A completed test gets its report, though the report is written after    *)
(* the status (executeTest): GetTestReport, which answers as soon as the   *)
(* status is completed, finds one in the end.                              *)
(***************************************************************************)
CompletedGetsReport ==
  \A t \in Tests : row[t].status = "completed" ~> t \in reports \cup hurt

=============================================================================
