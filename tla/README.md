# TLA+ verification of GoSlgBenchmarkTest

GoSlgBenchmarkTest is a test bench for a strategy game's network layer: a
websocket game client that reconnects by itself, a game server to test it
against, a recorder and a replayer of sessions, and a small web platform that
runs Go test suites and stores their results. This directory specifies its
concurrent core in TLA+, checks it with TLC, and proves its main safety
properties with TLAPS.

Paths below are relative to the repository. `PROJECT.json` maps every
definition to the lines it stands for.

## 1. Inventory

| Component | Source | State | Operations | What is hard |
|---|---|---|---|---|
| Game client | `internal/wsclient/client.go` | atomic connection state, `conn` under a mutex, `stopChan`, one-slot `reconnectChan`, `lastSeq`, `reconnectCount` | `Connect`, `Close`, `SendAction`; `readLoop`, `heartbeatLoop`, `reconnectLoop`, one of each per successful `Connect` | the state is loaded, compared and stored in separate steps by up to five goroutines; connections break at any moment; the server may restart |
| Game server | `internal/testserver/ws_server.go` | `sync.Map` of connections, atomic `connCount`, two WaitGroups, `stopCh`, `seqGenerator` | accept, login, read loop, broadcast, `ForceDisconnectAll`, `Start`, `Shutdown` | four kinds of goroutine close the same connection; the map is ranged over while it changes |
| Session recorder | `internal/session/recorder.go` | event and frame logs under a mutex, atomic counters and latency extremes, unlocked `stats` | `RecordEvent/Message/Latency/Reconnect/Error/Close`, `Stop` | calls in flight when `Stop` runs; compare-and-swap loops |
| Session replayer | `internal/session/replayer.go` | `isPlaying`, `isPaused`, `resumeCh`, `stopCh`, a context | `Play`, `Pause`, `Resume`, `Stop`, the replay loop | flags are tested without the lock; a resume signal is sent without blocking |
| Session analysis | `internal/session/timeline.go`, `assertions.go` | none; reads the recorder's log | message flows, network metrics, assertions | the log is in lock order, not time order; numeric edges |
| Protocol | `internal/protocol/*.go` | `FrameDecoder`: buffer, `headerRead`, `frameSize` | encode, decode, `Feed`, `Next`, `Reset` | frames cut anywhere, oversized headers, header state kept between calls |
| Recording proxy | `cmd/recording-proxy/main.go` | per pair: two connections, a context, two goroutines; one recorder | accept, dial, forward and record, disconnect | a message is recorded and then forwarded, in two goroutines; the one that fails first ends the other |
| Log hub | `internal/logger/websocket_logger.go` | map of viewers, three channels | register, unregister, broadcast | unbuffered channels served by the goroutine that also writes to the viewers; two writers to one connection |
| Platform API | `api/handlers/*.go`, `cmd/test-platform` | the tables `tests` and `test_reports` | create, start, stop, delete, report | read and update are two statements; the execution they race writes the same row |
| Test executor | `internal/testrunner/*.go` | results by test id, the environment of the process | `ExecuteTest`, `runGoTest`, `GetResult` | concurrent executions share results and environment; a crash leaves rows behind |
| Configuration | `internal/config/*.go` | cached configurations | load, get | reading YAML |
| Stress client, dashboard, analyzer, utilities, generated code | `main.go`, `pkg/`, `internal/testutil`, `game/`, `proto/`, `generated/` | counters, reports | | no protocol of their own |

How they interact: the client talks to the server through a websocket (login,
heartbeats, numbered battle pushes). The proxy sits between two such ends and
calls the recorder; the replayer and the analysis read the recorder's log. A
handler of the platform starts the executor in a goroutine, which runs `go
test` on the suites that use client and server, and writes back to the
database; all of them write to the log hub.

What makes each correct:

* client: pushes reach the handler in increasing order; a broken connection is
  noticed; a reconnect signal is never lost; *Connected* means somebody reads;
  a closed client stays closed and its goroutines end;
* server: no connection misses a push; the count of connections is right; a
  gone client is released; `Shutdown` waits for exactly what is running;
* recorder: nothing is numbered twice or lost but what a `Stop` cuts off; the
  latency extremes are those of what was measured;
* replayer: events come in time order; a pause holds; resume and stop work;
* analysis: a message's status is what its own events say; the loss is that of
  the recorded times but for messages that raced the lock; a verdict depends on
  the session and not on who got the lock first; a percentile is one;
* decoder: the frames sent come out, once and in order, as soon as their bytes
  are in, and nothing legal is refused;
* proxy: the recording and the traffic agree but for the message in hand; a
  hang-up at one end releases both;
* hub: a viewer sees the log in order, and without gaps unless its greeting
  overlapped a write of the hub; a viewer that left is dropped; the hub is done with a connection before its handler is;
* platform: *completed* is earned, *running* ends, a deleted row stays as it
  was, a test runs with its own parameters.

## 2. Modules

| Module | What it is |
|---|---|
| `WsClient` | the client, with the server and the network as its environment |
| `OrderedFeed` | what an application is promised about battle pushes; `WsClient` implements it |
| `TestServer` | the server, with its clients as its environment |
| `GamePeer` | what a client may count on from a server; `TestServer` implements it |
| `SessionReplayer`, `SessionRecorder` | the replayer and the recorder |
| `SessionAnalysis` | flows, metrics and assertions over every small session |
| `FrameDecoder` | the framing and its incremental decoder |
| `RecordingProxy` | the proxy between its two ends |
| `LogHub` | the log stream and its viewers |
| `TestPlatform` | handlers, table and executor |
| `MC*` | instances for TLC: sets of model values and symmetries |
| `*Proofs` | theorems: one module per component, and one for the replayer, the framing and the analysis, which share their lemmas on recursive functions |
| `Recursion` | those lemmas: induction over an interval of integers, functions computed step by step |

One step of a model is one access to what goroutines share: an atomic, a
section under a mutex, a channel operation, one read or write of a socket, one
statement of the database. A variable `pc` (or `h`, `rd`, `lpc`, `upc`,
`handler`, `loop`) says where each goroutine is, so they interleave where the Go
program lets them and nowhere else.

**Slips.** Next to a definition a module may have a variant of it, marked *Slip*,
which is not used: the definition as a plausible mistake would have it. Each
property of a passing run is violated when one slip takes its definition's place
(`PROJECT.json`, "mutants"), so no property holds merely by the shape of the model.

**Instances of several parts.** `MCSessionTools`, `MCRecording` and `MCPlatform`
instantiate parts that share no state. In each of their behaviours one part
moves and the others rest in an initial state, so TLC adds the parts' states
instead of multiplying them; nothing is lost, since no property speaks of two
parts.

### WsClient

`Connect` is `ConnectCall` (a compare-and-swap of the state), the shared
`Dial`/`SendLogin`/`Capture`/`Receive`, and `Established` and `Spawn`, which
start a generation of three loops. `readMessage` copies the connection and its
deadline once (`Capture`) and then blocks on that copy (`Receive`), whatever
happens to `c.conn` meanwhile. `triggerReconnect` is `TriggerLoad`,
`TriggerMark`, `TriggerSignal`; `doReconnect` is `TakeToken`, `DropOld`, the
connecting steps and `ResetCount`; `Close` is its three compare-and-swaps,
`CloseStop` and `CloseDetach`. `Dedup`, `StoreSeq` and `OnPush` are the steps of
`handleBattlePush`. A `Socket` is one end of a websocket: link, login
deadline, unread frames, how far the server is with the login, and the last
number it was told.

The server's part is the contract `GamePeer` with a weaker guard: `PeerAuth` and
`PeerAnswer` are a login, `PeerDraw` draws a number and `PeerPush` writes it to
one connection, in an order of its own for each connection and not waiting for
the others. Faults are named in `Faults` and counted where they could repeat
for ever.

### TestServer and GamePeer

Per connection a handler `h` and a reader `rd`; three rangers (`push`, `force`,
`shut`) go over the map with `todo` and close one connection at a time
(`cur`). `Range` follows the contract of `sync.Map`: each key at most once, an
entry stored or deleted meanwhile may or may not be seen. `closeConnection` is
two steps, `Unlist` (delete and count) and `HangUp` (close), taken by whoever
calls it; it is not idempotent for the count.

`GamePeer` states the server's side of the game link connection by connection:
numbers are drawn, an authenticated connection gets every number from some one
on, the next is drawn only when all of them have the last, and a connection on
its way out gets nothing after a gap. `ImplementsPeer` is the refinement mapping
(`StageOf` reads a connection's stage off its handler, the map and the socket).
Together with the client's environment this is the link between the two
models: what the client is checked against is implied by what the server is
shown to do.

### SessionReplayer and SessionRecorder

Flag tests and updates are separate steps, as in the code. The replayer's
`resumeCh` is unbuffered: `ResumeSignal` reaches a loop only in `"wait"`.
`handed` and `extra` are history: the events given to callbacks, and how many of
them since `isPaused` was last set. Sorting is the code's exchange sort
(`Sorted`): a `Pass` of its inner loop after the other, each a recursive function
of the loop's index. The recorder's
`stats.X++` is a load and a store, since nothing locks it.

### SessionAnalysis

The session grows as the recorder lets it: an event's time is taken before the
lock, so any time up to now may be appended next. The analysis has no state;
its operators are evaluated on every session and at every later time. `FlowMap`
is the map of flows as the one pass of `AnalyzeMessageFlows` builds it, event by
event; `Flow` is an entry of it once the timeouts are marked. `Percentile`,
`AverageLatency` and the loss are `CalculateNetworkMetrics`; the assertions are
predicates over a log. The reference for the loss, `Lost`, looks at the recorded
times only and never at the order of the log; `Raced` says whose send stands in
the log on the wrong side of another of the message's events. A `sort.Slice` is `Increasing`: an arrangement of the
elements in which the keys do not decrease, whichever the library picks.

### FrameDecoder

Bytes are digits `0..Base-1`, the opcode `OpBytes` and the length `LenBytes` of
them; `PutUint` shifts a value byte by byte, `GetUint` reads it back. `Send` encodes a frame into `transit`, `Feed` moves a prefix of any length
into the buffer, and the outcomes of `Next` are `NextWaits`, `NextRefuses` and
`NextDecodes`. The reference is what was sent: `FramesAsSent` says the decoder's
output is a prefix of it, `NothingHeldBack` that the prefix is as long as the
bytes allow. A refused header is never skipped; only `Reset` gets past it.

### RecordingProxy

Per pair a handler (`StartProxy`, `Disconnect`, `CloseServer`, `CloseClient`), a
context, and per direction a loop: `Top` (the look at the context),
`ReadMessage`, `RecordFrame`, `RecordSend`, `NoteEvent`, `WriteMessage`. A
message is its number on its link; what it looks like (`Kind`) decides how much
of it is recorded. A recorder call is one step: its inside is `SessionRecorder`.
Both ends may stop reading or hang up at any moment.

### LogHub

The hub goroutine is at its select, ranging, or inside a write; `register` and
`unregister` are rendezvous that need it at the select. A message is its number
in the order the channel accepted it; a full channel drops it. `writer` says who
is inside a write to a connection, `mixed` whose write has met another, `torn` on
which connections that has happened. A write of the hub that met the greeting may
end in every way gorilla/websocket allows: it panics, which ends the process
(`WritePanics`); it returns an error although the viewer is healthy, and the
viewer is dropped (`WriteFails`); or it returns none; and the message arrives, is
lost (a garbled one counts as lost) or is sent twice (`Arrivals`). The greeting
may panic too, which `net/http` recovers; nobody reads from that connection any
more and it stays in the map (`WelcomePanics`). On a torn connection later
messages may be lost as well, since a frame with the wrong length leaves the
viewer out of step. That an overlapped message may arrive more than twice is left
out. Viewers may stop reading or leave.

### TestPlatform

A handler reads the row (`StartTest`, `StopTest`) and writes it in a second
statement (`StartUpdate`, `StopUpdate`). An accepted start leaves an execution:
`Load`, `Enter` (a new result under the test's id), `SetEnvironmentVariables`,
per stage `RunGoTest` and `ChildEnds`, then `GetResult`, `UpdateReads`,
`UpdateWrites`, `CreateTestReport`. Two executions of one test share the entry of
the executor's map, and all executions the environment. Statements may fail,
`go` may not start, and a `Crash` ends all goroutines and keeps the rows.
`intruded` and `passed` are history.

## 3. Runs

| Run | Instance | Shows |
|---|---|---|
| `WsClientFeed` | pushes up to 2, a cut or a server restart | `ImplementsFeed`: the client refines `OrderedFeed`, so pushes are handled in increasing order |
| `WsClientProgress` | every fault once, no `Close`, fair | `ReconnectNeverAbandoned`, `ConnectedIsServed`, `EpisodesEnd`, `DeadLinkNoticed` |
| `WsClientShutdown` | `Close` at any moment, login deadlines, fair | `ClosedStaysClosed`, `LoopsStop` |
| `WsClientCloseTwice` | one cut | violates `CloseTwiceIsHarmless` |
| `WsClientSecondConnect` | a second `Connect` after giving up | violates `MonotoneDelivery` |
| `TestServerPush` | 2 connections, a limit of 1, 3 pushes, clients that stop reading, random disconnects, a `Shutdown` | `NoPushGaps`, `NoSpuriousRefusal`, `ShutdownWaitsForAdmitted`, and `ImplementsPeer`: the server refines `GamePeer` |
| `TestServerProgress` | 1 connection, 3 pushes, 2 forced disconnects, silent and slow clients, `Shutdown`, fair; no random disconnects, which would release a client whatever the read loop does | `GoneClientReleased`, `EmptyShutdownReturns` |
| `TestServerCount` | 1 connection, 1 push | violates `CountReturnsToZero` |
| `SessionTools` | replayer: 3 events at 2 times, 2 users whose calls of `Play` race, filters, 2 loops, failing callbacks, fair; decoder: 3 frames below, at and above the limit, chunks of 1 to 4 bytes; analysis: sessions of up to 4 events | `TypeOK` (replayer), `PausedMeansStill`, `ReplayInTimeOrder`, `StopEndsReplay`; `FramesAsSent`, `NothingHeldBack`; `FlowsAgree`, `PercentilesCover`, `LossExplained`, `VerdictsIgnoreRace` |
| `SessionReplayerResume` | 2 events, 1 loop, fair | violates `ResumeWakes` |
| `Recording` | recorder: 2 goroutines, 4 calls, 2 latencies, fair; proxy: 1 pair, 2 messages each way of every kind, ends that stop reading or hang up, a server that does not answer, fair | `TypeOK` (recorder), `NumberedOnce`, `FinalTotalClose`, `FramesCovered`, `LatencyExtremes`, `LatencyCallsEnd`; `RecordingFollows`, `OneMessageLate`, `HangUpReleasesPair` |
| `Platform` | platform: one test under two requests with failing statements, failing starts and a crash, or two tests with an execution each; hub: 2 viewers, 3 messages through a channel of 1, a greeting that may overlap a write, fair | `CompletedIsEarned`, `DeletedRowFrozen`, `OverrideOrIntruder`, `RunningEnds`, `CompletedGetsReport`; `FeedInOrder`, `HubLetsGoFirst`, `LeftViewerDropped` |

The type invariants of client, server, platform, hub and proxy are proved, not
run (section 4).

**Bounds.** Two connections are what one reconnect needs: the old one, still
read by a goroutine, and the new one; identities are reused when nobody refers
to one. One generation of loops is one `Connect`; a second is in
`WsClientSecondConnect`. Two pushes suffice for a reversal or a repetition,
three for a gap (1, 3). One connection is enough for the server's progress: what
delays its release are the goroutines that close it, and all of them are there;
the runs with two are for what one connection does to another. Three events are
the fewest on which an exchange sort has an inner choice. Four recorder calls
are a stop and three messages: one more than the two that may be in flight. Two
messages per link are one in hand and one before it, which is all a proxy loop
can mix up; pairs share only the recorder. Four session events are two messages,
answered, out of order or doubled; the ranks of percentiles are checked for every
length up to 210, past the period of `len*p/100`. Two viewers are one holding up another, or one
whose greeting overlaps a write and one whose does not. Three messages are the
fewest with a gap between the first and the last, and a channel of one (256 in the
code) is full while the hub writes one message and another waits. In `SessionTools`
the second user only calls `Play`, in a plain recording: what it adds is a second
loop, and a `Play` in the middle of any other call. Filters are combined with
times that are out of order and partly equal; without a filter all times occur.
`ForceDisconnectAll` has one call at a time; more calls are more closers of the
same connections, and the broadcast and `Shutdown` are two already. Two
executions are what one shared entry, or one shared variable, needs; one crash
ends everything that runs, and a second would meet the same states. `Base`,
`OpBytes` and `LenBytes` shrink a header to 3 binary bytes, so that a frame may be
cut inside its opcode, its length and its body. The bounds that are not constants
of the program are `MaxGen`, `MaxSeq`, `MaxFaults`, `MaxForces`, `MaxStarts`,
`MaxPauses`, `MaxCalls`, `N`, `MaxMsgs`, `MaxLogs`, `MaxEvents`, `Instants`,
`MaxFrames`, `MaxChunk`, `Execs`, `MaxCrashes`, the conditions `Scenario` and
`OneTorn` of `MCPlatform`, `Recordings` and `SecondUser` of `MCSessionTools`, and
the sets. Deadlock is not checked: a client that was closed, a
server that was shut down, a replay that is over and a platform whose tests have
run rightly stop.

**Fairness.** A goroutine with a step to take takes it (weak fairness, the Go
scheduler). A `select` with several ready cases picks at random, so a case that
keeps coming ready is chosen in the end (strong fairness of `Stop` and
`PushStops`). The server answers logins and deadlines pass. A `go test` ends,
since the executor gives each a `-timeout`. Nothing else is fair: no call is ever
made, no client or viewer leaves, no request comes, no fault happens and none is
repaired because a property needs it.

## 4. Proofs

Everything here is checked by `tlapm` to the last leaf, from the assumptions on
constants in the modules (`WsClientAssumption`, `TestServerAssumption`,
`ReplayerAssumption`, `RecorderAssumption`, `FrameConstants`,
`AnalysisConstants`, `PlatformConstants`, `HubConstants`, `ProxyConstants`) and,
where stated, from there being one set of loops. Every safety property and every
action property that a passing run checks is proved, but for the liveness
properties named below.

* `WsClientProofs`: `TypeCorrect`; `ReconnectAlwaysPending` and
  `ConnectedAlwaysServed` from one invariant that says, for each goroutine
  position, which of token, trigger and episode exists; `StaysClosed`, an action
  property: in a closed client at rest a caller finds no state to swap and a loop
  can only see the closed `stopChan` and end; `DeliveryMonotone` and
  `FeedRefinement` for a single generation of loops. There the invariant is that
  only one reader stands between the load and the store of `lastSeq`, that
  `lastSeq` is the last number handed over, and that no frame holds a number not
  issued. Monotone delivery alone is not inductive: it does not tie `lastSeq` to
  the log. The environment is the fine one: a number may be drawn before the
  last has reached every connection.
* `TestServerProofs`: `TypeCorrect`, which includes that the WaitGroup is never
  negative and needs `connWg` to equal the number of handlers and readers that
  joined; `WaitCoversReaders` from the same equation; `CountNeverExceeds`, that
  `connCount` is at most the handlers present (an inequality, since a
  connection may be subtracted twice); `PushesContiguous`, from an invariant on
  the broadcast under way: a connection it has still to visit is exactly one
  number behind, and one that failed is not written to again. `PeerRefinement`
  adds that a connection which has not logged in was sent nothing (`LoginInv`)
  and that a step moves at most one connection on, so every step is a step of
  `GamePeer` or a stutter.
* `SessionToolsProofs`, the replayer: `PausedStandsStill` needs the strengthening
  that a loop which has handed over one event since the pause is not holding
  another. `ReplayTyped` and `ReplayedInOrder` rest on `SortSorts`: the exchange
  sort returns a rearrangement of its input in which times never decrease. Its
  inner loop keeps the least of what it has seen at its first position and leaves
  what is before it alone; its outer loop keeps the positions passed in order and
  no later event earlier than they are. `ReplayInTimeOrder` then follows from the
  events handed over by a loop being the first `done` of the sorted ones.
* `SessionToolsProofs`, the framing: `DecodesWhatWasEncoded`, from the digits of a
  number below `Base^n` giving the number back (`ReadsBack`). `FramesArriveAsSent`
  and `NoFrameHeldBack` share the invariant `Decoding`: there is a sequence of cuts
  through the bytes that were sent, one after each frame, and what is in the buffer
  and on its way is what lies after the last frame returned (`Layout`); a header
  once read is that of the next frame (`HeaderState`). `FramesAsSent` alone is not
  inductive, as it says nothing of the bytes.
* `SessionToolsProofs`, the analysis: `FlowsAlwaysAgree`, from what the entry of a
  message is after any number of events (`FlowFollows`: the last send, and the
  status by whether a send or a receive came last); `LossAlwaysExplained`, from
  a message that did not race being counted exactly if it is lost
  (`CountedIfLost`), which puts the count between two sets; `PercentilesAlwaysCover`,
  from what sorting returns (`Sortable`, `IncreasingKeys`), the arithmetic of the index
  (`RankOf`, for every length) and a sum lying between `n` times the least and `n`
  times the largest; `VerdictsNeverRace`, from the exchange of two neighbours being
  a bijection between the events of any types (`ExchangeKeepsEvents`), and from a
  sorted sequence being strictly increasing exactly if no two keys are equal.
* `SessionRecorderProofs`: `TypeCorrect`; `NumbersDistinct`, with the numbers on
  their way into the log; `ExtremesKept`, with a latency not yet covered by an
  extreme being in the hand of a goroutine that has still to swap;
  `TotalMissesFew`, where each event that came after the final statistics is the
  one of a goroutine that was inside a call when `Stop` ran; `FramesHaveEvents`,
  which counts the same way the frames whose event is still to come or was cut off.
* `TestPlatformProofs`: `PlatformTypeCorrect`; `DeletedStaysFrozen`, from every
  step writing one live row or none; `CompletedAlwaysEarned`. The property alone
  is not inductive: it says nothing of executions on their way. The invariant
  (`Sane`, `HasResult`) counts: between stages an execution that is not a fuzz
  test has passed all the earlier ones, and where it saves another status than
  *failed* it has passed all. That is why it does not matter whose result the
  shared entry holds. `OverrideAlwaysOrIntruder` needs the property also while a
  command runs, since the next stage starts from there.
* `LogHubProofs`: `HubTypeCorrect`; `HubAlwaysLetsGoFirst`, from what the hub has
  in hand being in its map, and a handler that has got rid of its departure being
  out of it; `FeedFollowsLog`: the messages in the channel are the last ones
  accepted, one after the other; a viewer got nothing newer than the last one
  taken; and the last message a registered viewer got is that one, or the one before
  while the hub has still to write to it, unless its connection is torn, where only
  the order is left.
* `RecordingProxyProofs`: `ProxyTypeCorrect`; `RecordingAlwaysFollows`, from what
  each position of a loop says about the message in hand; `AtMostOneMessageLate`:
  a late event is about the last message of its link, whose goroutine will not
  read again, and the other goroutine has ended.

The theorems on recursive functions use no induction principle over predicates,
which the provers cannot instantiate: `Recursion` derives from the least element
of a set of naturals that a set of integers closed under successor holds a whole
interval, and that a function computed step by step exists. A proof then names
the set of the indices its claim holds for.

Only model-checked, because fairness and `ENABLED` are out of the provers' reach:
`EpisodesEnd`, `DeadLinkNoticed`, `LoopsStop`, `GoneClientReleased`,
`EmptyShutdownReturns`, `StopEndsReplay`, `LatencyCallsEnd`,
`HangUpReleasesPair`, `RunningEnds`, `CompletedGetsReport`, `LeftViewerDropped`.
With more than one generation of loops `MonotoneDelivery` is violated
(`WsClientSecondConnect`); its theorem and the refinement of `OrderedFeed` are for
one.

## 5. Divergences

Four runs show the code doing something else than the repository says; the
findings in `PROJECT.json` tell each story.

The following were found with the same models and have no run of their own. Each
statement, added to its module and checked on the instance named, is violated:

| Statement | Instance | Where |
|---|---|---|
| `EarlyReturnMeansClosed == [][\A t \in Callers : pc[t] = "cas3" /\ pc'[t] = "idle" => stopClosed \/ state = "Closed"]_vars`: `Close` returning early has nothing to close | as `WsClientCloseTwice` | `client.go:249-253` |
| `LoginDeadlineEndsWithLogin == \A t \in Readers : pc[t] = "recv" => LinkOf(held[t]) # "expired"`: the login's read deadline does not hit the read loop | as `WsClientCloseTwice`, `Closers <- Nobody`, `Faults = {"deadline"}`, `MaxFaults = 0` | `client.go:314-317` |
| `NoOpenConnectionLost == \A c \in Conns : sock[c].link \in {"up", "expired"} => ~Unreferenced(c)`: a retry closes the connection it replaces | the same with `Faults = {"cut", "slow"}`, `MaxFaults = 2` | `client.go:198-200` |
| `ReconnectingSettles == <>[](state # "Reconnecting")`: after one cut the client comes to rest | the same with `Faults = {"cut"}`, `MaxFaults = 1`, `FairSpec` | `client.go:503-511` |
| `ServedClientIsPushedTo == (\E c \in connections : h[c] = "serve" /\ sock[c] = "up") => connCount # 0`: the push loop does not idle while a client is served | `TestServerPush`, 2 pushes | `ws_server.go:480` |
| `CapacityRespected == Cardinality(Present) <= MaxConnections` | 2 connections, `MaxConnections = 1` | `ws_server.go:237` |
| `PushFollowsLoginResp == \A c \in Conns : pushed[c] # <<>> => c \in replied` | as `TestServerCount` | `ws_server.go:342-354` |
| `NothingSurvivesShutdown == pc["shut"] = "done" => Quiet` | as `TestServerCount`, `MaxSeq = 0`, `Faults = {"shutdown"}` | `ws_server.go:257-268` |
| `ShutdownReturns == pc["shut"] # "off" ~> pc["shut"] = "done"` | the same, `FairSpec` | `ws_server.go:214-219` |
| `StartedServerServes == running /\ starter = "idle" => listener = "open" /\ pc["push"] \notin {"off", "done"}` | the same, `MaxStarts = 2` | `ws_server.go:142-166` |
| `SessionEndRecorded == (~isActive /\ \A t \in Threads : pc[t] = "idle") => \E i \in DOMAIN events : events[i].type = "disconnect"` | 1 goroutine, 1 call | `recorder.go:311-315` |

The following belong to the components added since; each is a behaviour of the
module named, visible in the definition named.

| What the code does | Where | In the model |
|---|---|---|
| `POST /tests/{id}/stop` ("停止指定测试", `cmd/test-platform/main_pgx.go:311`) changes the row and nothing else; the execution goes on and overwrites *stopped* | `api/handlers/test_handlers_pgx.go:309` | `StopUpdate` |
| a crash during an execution leaves the row *running* for ever: nothing looks for such rows, and only *pending* tests can be started | `test_handlers_pgx.go:270` | `Crash`; why `RunningEnds` excludes `hurt` |
| two requests both start one test; the execution that ends last may have read the other's unfinished result and stores *running* | `test_handlers_pgx.go:240-270` | `GetResult`; why `RunningEnds` asks for one execution |
| a fuzz test whose stages failed is stored with the last stage's status, *completed* if that one passed, or *running* if no stage started; it gets a report | `internal/testrunner/test_executor.go:208-222` | `AfterStage`; why `CompletedIsEarned` excludes fuzz |
| a test that failed gets no report | `test_handlers_pgx.go:481-499` | `AfterUpdate` |
| the parameters of a test are the defaults of the next one that does not set them, and of a running one | `test_executor.go:72` | `SetEnvironmentVariables` |
| the case `time.After` that is to drop a slow viewer is never ready; the hub waits in the write instead | `internal/logger/websocket_logger.go:65` | `WriteBegins`; why `LeftViewerDropped` excludes a stuck viewer |
| the greeting and the hub may write to one connection at once, which the websocket library forbids: one of them may panic, a healthy viewer may be dropped for the error of a write the greeting closed, and messages may be lost, garbled or sent twice | `websocket_logger.go:73`, `:206` | `BeginWrite`, `WriteFails`, `WritePanics`, `WelcomePanics`, `Arrivals`; why `FeedInOrder` asks for less on a torn connection |
| a greeting that panics ends its handler before the deferred departure exists: the viewer stays in the map and nobody reads from it | `websocket_logger.go:206-212` | `WelcomePanics`; why `LeftViewerDropped` excludes it |
| a message whose answer enters the log before its send is counted as lost although it was answered; one sent again may not be counted although the last send had no answer | `internal/session/timeline.go:128-145` | `FlowAfter`, `LostMessages`; why `LossExplained` allows for `Raced` |
| a `Pause` between a resume signal and the loop's own clearing of the flag is lost | `internal/session/replayer.go:268-271` | `Woken` |
| a second `DELETE` of a test rewrites its `deleted_at` and answers 200 | `internal/db/tests.sql.go:78` | `DeleteTest`, which does not look at whether the row is deleted; the time itself is left out |
| a server's message is recorded as sent: `server_to_client` is not the `receive` the recorder looks for | `cmd/recording-proxy/main.go:261`, `internal/session/recorder.go:203` | `RecordSend` |
| `/stop-recording` answers "stopped" and stops nothing | `cmd/recording-proxy/main.go:346-353` | no action: it changes no state |
| an oversized header is reported for ever and never skipped | `internal/protocol/frame.go:113` | `NextRefuses` |
| the order assertion sorts by time before it looks at the order, so it fails only on equal times | `internal/session/assertions.go:82` | `MessageOrderAssertion` |
| `Opcode` and `Duration` of an event are never set by the recorder; assertions on them have no data | `recorder.go:165` | the events of `SessionAnalysis` |

Noticed outside the models: `checkPing` compares with the last heartbeat
*sent*, so a silent server is not noticed by it (`client.go:406`);
`time.Unix(0, 0).IsZero()` is never true (`client.go:453`); the client creates a
`FrameDecoder` and does not use it; `lastSeq` is never reset, so after a server
restart pushes are dropped until the numbers pass it; `LoadTestConfig` keeps no
error for the second caller (`internal/config/testconfig.go:409`); the dashboard's
map of clients has no lock (`pkg/dashboard/dashboard.go:217`).

## 6. Plan

Done: the client and its abstract feed, the server and its abstract peer, the
recorder, the replayer, the platform, the log hub, the proxy, the decoder and the
analysis; the proofs of all their safety properties.

Left, in this order:

1. Proofs of the properties of section 5 that hold once a finding is repaired, as
   each is (the invariants are those of section 4 with the repaired step).
2. `GameLink`: `WsClient` and `TestServer` in one behaviour over one websocket.
   `GamePeer` links them by contract; the composition would also show what one
   side's close does to the other. Two connections of the client with their
   handlers are beyond what TLC can enumerate here without a coarser client.
3. The stress client over the client's state changes (`main.go`): its count of
   connections is clamped at zero, so a `RemoveConnection` that overtakes its
   `AddConnection` leaves it one too high for good.
4. Heartbeats: a round trip measured from the latest ping sent, not from the ping
   the answer belongs to (`client.go:448`).

## 7. Not modelled

* Of the client: RTT bookkeeping, `SendAction` and backoff durations. Of the
  server: the answers to heartbeats and actions, and `LastSeen`. They touch no
  state another goroutine decides by.
* Of recorder and replayer: averages, percentiles, delay statistics, `ExportJSON`,
  and `SeekTo`, whose result `Play` overwrites. Of the analysis: anomalies,
  throughput, jitter, report texts, and custom assertions, which are the caller's
  functions.
* Of the platform: handlers that only read, the parsing of `go test` output into
  scores, the other parameters of a test, queries that only select.
* `cmd/unity-recorder` and `cmd/session-demo`, straight-line programs over client,
  server and recorder; the proxy's status pages and export.
* Configuration: reading and checking YAML. A cached configuration is read and
  filled in one critical section each.
* The stress client, dashboard, analyzer and test utilities: formatting,
  simulated numbers and scaffolding.
* Generated code: about three quarters of the repository's Go lines are protobuf
  types, whose accessors return a field. They have no behaviour to model, which is
  why the map's share of all lines is small although it covers most of the
  concurrent code.
