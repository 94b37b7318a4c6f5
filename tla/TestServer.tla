----------------------------- MODULE TestServer ----------------------------
(***************************************************************************)
(* The game server of internal/testserver/ws_server.go: one handler and    *)
(* one reader goroutine per websocket connection, the push loop that       *)
(* numbers battle pushes and broadcasts them, ForceDisconnectAll, Start    *)
(* and Shutdown.  They share a sync.Map of connections, an atomic count of *)
(* them, and a WaitGroup.                                                  *)
(*                                                                         *)
(* sync.Map.Range is modelled by its contract: it visits each key at most  *)
(* once, and may or may not see an entry stored or deleted meanwhile.      *)
(* Requests are left out except the login; replies to heartbeats and       *)
(* actions change no server state.                                         *)
(***************************************************************************)
EXTENDS Integers, Sequences, FiniteSets

CONSTANTS
  Conns,            \* connections clients may open, each at most once
  None,             \* no connection
  MaxConnections,   \* ServerConfig.MaxConnections
  MaxSeq,           \* bound: pushes numbered
  MaxForces,        \* bound: calls of ForceDisconnectAll
  MaxStarts,        \* bound: calls of Start
  Faults            \* what clients, configuration and operator do in this instance

FaultKinds == {"slow", "random", "silent", "shutdown"}

ASSUME TestServerAssumption ==
  /\ IsFiniteSet(Conns) /\ None \notin Conns
  /\ MaxConnections \in Nat /\ MaxSeq \in Nat /\ MaxForces \in Nat /\ MaxStarts \in Nat
  /\ Faults \subseteq FaultKinds

\* The goroutines that range over the connections.
Rangers == {"push", "force", "shut"}

VARIABLES
  connections,   \* s.connections
  connCount,     \* s.connCount
  connWg,        \* s.connWg
  h,             \* where the handler of a connection is
  rd,            \* where its messageReadLoop is
  authed,        \* connections with a PlayerID
  replied,       \* connections whose LoginResp was written (history)
  stop,          \* connections whose stopChan is closed
  sock,          \* the websockets
  pushed,        \* numbers of the battle pushes written to each connection
  seq,           \* s.seqGenerator
  failed,        \* failedConns of the broadcast under way
  pc, todo, cur, \* of the rangers: position, entries still to visit, connection being closed
  forceFlag,     \* s.forceDisconnect
  forces, starts,
  running,       \* s.isRunning
  stopClosed,    \* s.stopCh is closed
  listener,      \* the http.Server
  starter,       \* where Start is
  panicked       \* close of a closed channel: the process is gone

conn   == <<connections, connCount, connWg, h, rd, authed, replied, stop, sock>>
push   == <<pushed, seq, failed>>
range  == <<pc, todo, cur>>
server == <<forceFlag, forces, starts, running, stopClosed, listener, starter, panicked>>
vars   == <<conn, push, range, server>>

HandlerPcs == {"none", "refused", "upgrading", "stored", "counted", "login", "named", "ready",
               "serve", "unlist", "hangup", "leave", "done"}

RangerPcs == {"off", "tick", "range", "hangup", "sweep", "conns", "bg", "http", "done"}

Init ==
  /\ connections = {} /\ connCount = 0 /\ connWg = 0
  /\ h = [c \in Conns |-> "none"] /\ rd = [c \in Conns |-> "none"]
  /\ authed = {} /\ replied = {} /\ stop = {}
  /\ sock = [c \in Conns |-> "none"]
  /\ pushed = [c \in Conns |-> <<>>] /\ seq = 0 /\ failed = {}
  /\ pc = [a \in Rangers |-> "off"]
  /\ todo = [a \in Rangers |-> {}]
  /\ cur = [a \in Rangers |-> None]
  /\ forceFlag = FALSE /\ forces = 0 /\ starts = 0
  /\ running = FALSE /\ stopClosed = FALSE
  /\ listener = "new" /\ starter = "idle" /\ panicked = FALSE

Step(c, from, to) == h[c] = from /\ h' = [h EXCEPT ![c] = to]

Go(a, from, to) == pc[a] = from /\ pc' = [pc EXCEPT ![a] = to]

\* A write succeeds, for all this end knows: "gone" is a peer that hung up.
Writable(c) == sock[c] \in {"up", "gone"}

\* A write fails: the connection is closed, the peer hung up, or a slow one let
\* the write deadline pass.  After that gorilla/websocket fails every other
\* write: "stuck" and "dead" are "up" and "gone" by then.
FailedWrite(c) ==
  /\ sock[c] # "up" \/ "slow" \in Faults
  /\ sock' = [sock EXCEPT ![c] = CASE @ = "up" -> "stuck" [] @ = "gone" -> "dead"
                                        [] OTHER -> @]

\* The other end is gone, or this one closed the socket.
Unreadable(c) == sock[c] \in {"gone", "dead", "closed"}

-----------------------------------------------------------------------------
(* closeConnection, called by handlers and rangers alike, in two steps:    *)
(* the entry and the count, then the socket and stopChan.                  *)

\* Slip: the count is left alone.
UnlistUncounted(c) ==
  /\ connections' = connections \ {c}
  /\ connCount' = connCount

Unlist(c) ==
  /\ connections' = connections \ {c}
  /\ connCount' = connCount - 1

HangUp(c) ==
  /\ sock' = [sock EXCEPT ![c] = "closed"]
  /\ stop' = stop \cup {c}

-----------------------------------------------------------------------------
(* handleWebSocket and handleConnection.                                   *)

Accept(c) ==
  /\ listener = "open" /\ connCount < MaxConnections
  /\ Step(c, "none", "upgrading")
  /\ sock' = [sock EXCEPT ![c] = "up"]
  /\ UNCHANGED <<connections, connCount, connWg, rd, authed, replied, stop, push, range, server>>

Refuse(c) ==
  /\ listener = "open" /\ connCount >= MaxConnections
  /\ Step(c, "none", "refused")
  /\ UNCHANGED <<connections, connCount, connWg, rd, authed, replied, stop, sock, push, range, server>>

\* A Range under way may or may not come across the new entry.
Store(c) ==
  /\ Step(c, "upgrading", "stored")
  /\ connections' = connections \cup {c}
  /\ \E met \in SUBSET {a \in Rangers : pc[a] = "range" /\ todo[a] # {}} :
       todo' = [a \in Rangers |-> IF a \in met THEN todo[a] \cup {c} ELSE todo[a]]
  /\ UNCHANGED <<connCount, connWg, rd, authed, replied, stop, sock, push, pc, cur, server>>

CountUp(c) ==
  /\ Step(c, "stored", "counted")
  /\ connCount' = connCount + 1
  /\ UNCHANGED <<connections, connWg, rd, authed, replied, stop, sock, push, range, server>>

Enter(c) ==
  /\ Step(c, "counted", "login")
  /\ connWg' = connWg + 1
  /\ UNCHANGED <<connections, connCount, rd, authed, replied, stop, sock, push, range, server>>

\* A LoginReq arrives and the player gets its ID: from here on it is pushed to.
ReadLogin(c) ==
  /\ sock[c] \in {"up", "gone"}
  /\ Step(c, "login", "named")
  /\ authed' = authed \cup {c}
  /\ UNCHANGED <<connections, connCount, connWg, rd, replied, stop, sock, push, range, server>>

\* Anything else arrives, or nothing within the ten seconds, or the socket is dead.
LoginFails(c) ==
  /\ Step(c, "login", "unlist")
  /\ UNCHANGED <<connections, connCount, connWg, rd, authed, replied, stop, sock, push, range, server>>

SendLoginResp(c) ==
  /\ Writable(c)
  /\ Step(c, "named", "ready")
  /\ replied' = replied \cup {c}
  /\ UNCHANGED <<connections, connCount, connWg, rd, authed, stop, sock, push, range, server>>

SendLoginRespFails(c) ==
  /\ Step(c, "named", "unlist")
  /\ FailedWrite(c)
  /\ UNCHANGED <<connections, connCount, connWg, rd, authed, replied, stop, push, range, server>>

\* Slip: the reader is not added to the group.
StartReaderUncounted(c) ==
  /\ Step(c, "ready", "serve")
  /\ rd' = [rd EXCEPT ![c] = "read"]
  /\ UNCHANGED <<connections, connCount, connWg, authed, replied, stop, sock, push, range, server>>

StartReader(c) ==
  /\ Step(c, "ready", "serve")
  /\ rd' = [rd EXCEPT ![c] = "read"]
  /\ connWg' = connWg + 1
  /\ UNCHANGED <<connections, connCount, authed, replied, stop, sock, push, range, server>>

\* The handler's select: stopChan, or a tick that finds a reason to disconnect.
EndServing(c) ==
  /\ c \in stop \/ forceFlag \/ "random" \in Faults
  /\ Step(c, "serve", "unlist")
  /\ UNCHANGED <<connections, connCount, connWg, rd, authed, replied, stop, sock, push, range, server>>

UnlistSelf(c) ==
  /\ Step(c, "unlist", "hangup")
  /\ Unlist(c)
  /\ UNCHANGED <<connWg, rd, authed, replied, stop, sock, push, range, server>>

HangUpSelf(c) ==
  /\ Step(c, "hangup", "leave")
  /\ HangUp(c)
  /\ UNCHANGED <<connections, connCount, connWg, rd, authed, replied, push, range, server>>

Leave(c) ==
  /\ Step(c, "leave", "done")
  /\ connWg' = connWg - 1
  /\ UNCHANGED <<connections, connCount, rd, authed, replied, stop, sock, push, range, server>>

\* Slip: the read loop ends without safeClose.
ReadEndsQuietly(c) ==
  /\ Unreadable(c) \/ "silent" \in Faults
  /\ rd[c] = "read" /\ rd' = [rd EXCEPT ![c] = "done"]
  /\ connWg' = connWg - 1
  /\ UNCHANGED <<connections, connCount, h, authed, replied, stop, sock, push, range, server>>

\* messageReadLoop ends: the socket is dead, or was silent for a minute.
ReadEnds(c) ==
  /\ Unreadable(c) \/ "silent" \in Faults
  /\ rd[c] = "read" /\ rd' = [rd EXCEPT ![c] = "done"]
  /\ stop' = stop \cup {c}
  /\ connWg' = connWg - 1
  /\ UNCHANGED <<connections, connCount, h, authed, replied, sock, push, range, server>>

-----------------------------------------------------------------------------
(* A Range of a, in its callback.                                          *)

Visited(a, c) == todo' = [todo EXCEPT ![a] = @ \ {c}]

\* An entry deleted since the Range began need not be visited.
Skip(a, c) ==
  /\ pc[a] = "range" /\ c \in todo[a] \ connections
  /\ Visited(a, c)
  /\ UNCHANGED <<conn, push, pc, cur, server>>

\* ForceDisconnectAll and Shutdown close the connection in the callback.
CloseNext(a, c) ==
  /\ a \in {"force", "shut"}
  /\ c \in todo[a]
  /\ Go(a, "range", "hangup")
  /\ Visited(a, c)
  /\ cur' = [cur EXCEPT ![a] = c]
  /\ Unlist(c)
  /\ UNCHANGED <<connWg, h, rd, authed, replied, stop, sock, push, server>>

CloseFinish(a) ==
  /\ Go(a, "hangup", IF a = "push" THEN "sweep" ELSE "range")
  /\ HangUp(cur[a])
  /\ cur' = [cur EXCEPT ![a] = None]
  /\ UNCHANGED <<connections, connCount, connWg, h, rd, authed, replied, push, todo, server>>

-----------------------------------------------------------------------------
(* battlePushLoop and broadcastMessage.                                    *)

\* Slip: a number is drawn although nobody is connected.
DrawWhenEmpty ==
  /\ seq' = seq + 1
  /\ IF connCount = 0 THEN UNCHANGED <<pc, todo>>
     ELSE pc' = [pc EXCEPT !["push"] = "range"] /\ todo' = [todo EXCEPT !["push"] = connections]

Draw ==
  /\ connCount # 0
  /\ seq' = seq + 1
  /\ pc' = [pc EXCEPT !["push"] = "range"]
  /\ todo' = [todo EXCEPT !["push"] = connections]

PushTick ==
  /\ pc["push"] = "tick" /\ seq < MaxSeq
  /\ Draw
  /\ UNCHANGED <<conn, pushed, failed, cur, server>>

PushSkips(c) ==
  /\ pc["push"] = "range" /\ c \in todo["push"] /\ c \notin authed
  /\ Visited("push", c)
  /\ UNCHANGED <<conn, push, pc, cur, server>>

\* Slip: players without an ID are not passed over.
PushWritesToAll(c) ==
  /\ pc["push"] = "range" /\ c \in todo["push"] /\ Writable(c)
  /\ Visited("push", c)
  /\ pushed' = [pushed EXCEPT ![c] = Append(@, seq)]
  /\ UNCHANGED <<conn, seq, failed, pc, cur, server>>

PushWrites(c) ==
  /\ pc["push"] = "range" /\ c \in todo["push"] \cap authed /\ Writable(c)
  /\ Visited("push", c)
  /\ pushed' = [pushed EXCEPT ![c] = Append(@, seq)]
  /\ UNCHANGED <<conn, seq, failed, pc, cur, server>>

PushFails(c) ==
  /\ pc["push"] = "range" /\ c \in todo["push"] \cap authed
  /\ FailedWrite(c)
  /\ Visited("push", c)
  /\ failed' = failed \cup {c}
  /\ UNCHANGED <<connections, connCount, connWg, h, rd, authed, replied, stop,
                 pushed, seq, pc, cur, server>>

PushVisitedAll ==
  /\ todo["push"] = {}
  /\ Go("push", "range", "sweep")
  /\ UNCHANGED <<conn, push, todo, cur, server>>

PushCloses(c) ==
  /\ c \in failed
  /\ Go("push", "sweep", "hangup")
  /\ failed' = failed \ {c}
  /\ cur' = [cur EXCEPT !["push"] = c]
  /\ Unlist(c)
  /\ UNCHANGED <<connWg, h, rd, authed, replied, stop, sock, pushed, seq, todo, server>>

PushSwept ==
  /\ failed = {}
  /\ Go("push", "sweep", "tick")
  /\ UNCHANGED <<conn, push, todo, cur, server>>

PushStops ==
  /\ stopClosed
  /\ Go("push", "tick", "done")
  /\ UNCHANGED <<conn, push, todo, cur, server>>

-----------------------------------------------------------------------------
(* ForceDisconnectAll.  Bound: one call at a time.                         *)

ForceStart ==
  /\ forces < MaxForces
  /\ forces' = forces + 1
  /\ forceFlag' = TRUE
  /\ Go("force", "off", "range")
  /\ todo' = [todo EXCEPT !["force"] = connections]
  /\ UNCHANGED <<conn, push, cur, starts, running, stopClosed, listener, starter, panicked>>

ForceEnd ==
  /\ todo["force"] = {}
  /\ Go("force", "range", "off")
  /\ forceFlag' = FALSE
  /\ UNCHANGED <<conn, push, todo, cur, forces, starts, running, stopClosed, listener, starter, panicked>>

-----------------------------------------------------------------------------
(* Start, and Shutdown by another goroutine.                               *)

\* The http.Server of this object listens once; after its Shutdown never again.
StartCall ==
  /\ starts < MaxStarts /\ starter = "idle" /\ ~running
  /\ starts' = starts + 1
  /\ running' = TRUE
  /\ starter' = "sleep"
  /\ listener' = IF listener = "new" THEN "open" ELSE listener
  /\ UNCHANGED <<conn, push, range, forceFlag, forces, stopClosed, panicked>>

\* Start's last step, 200 ms later.  A push loop of an earlier Start is gone by
\* then, or this one is as good as it.
SpawnPush ==
  /\ starter = "sleep"
  /\ starter' = "idle"
  /\ pc' = [pc EXCEPT !["push"] = IF @ \in {"off", "done"} THEN "tick" ELSE @]
  /\ UNCHANGED <<conn, push, todo, cur, forceFlag, forces, starts, running, stopClosed,
                 listener, panicked>>

\* A second close(s.stopCh) panics.  That ends the process; here the other
\* goroutines run on, which only adds behaviours.
ShutBegin ==
  /\ "shutdown" \in Faults /\ running
  /\ pc["shut"] \in {"off", "done"}
  /\ running' = FALSE
  /\ stopClosed' = TRUE
  /\ panicked' = stopClosed
  /\ pc' = [pc EXCEPT !["shut"] = IF stopClosed THEN "off" ELSE "range"]
  /\ todo' = [todo EXCEPT !["shut"] = connections]
  /\ UNCHANGED <<conn, push, cur, forceFlag, forces, starts, listener, starter>>

ShutRanged ==
  /\ todo["shut"] = {}
  /\ Go("shut", "range", "conns")
  /\ UNCHANGED <<conn, push, todo, cur, server>>

\* Slip: Shutdown waits for the count of connections instead of the group.
CountIsZero == connCount = 0

ConnsWaited == connWg = 0

\* connWg.Wait returns
ShutWaitConns ==
  /\ ConnsWaited
  /\ Go("shut", "conns", "bg")
  /\ UNCHANGED <<conn, push, todo, cur, server>>

\* bgWg.Wait returns
ShutWaitBg ==
  /\ pc["push"] \in {"off", "done"}
  /\ Go("shut", "bg", "http")
  /\ UNCHANGED <<conn, push, todo, cur, server>>

\* http.Server.Shutdown: no new connections; it knows nothing of upgraded ones.
ShutListener ==
  /\ Go("shut", "http", "done")
  /\ listener' = "closed"
  /\ UNCHANGED <<conn, push, todo, cur, forceFlag, forces, starts, running, stopClosed,
                 starter, panicked>>

-----------------------------------------------------------------------------
(* The clients.                                                            *)

ClientLeaves(c) ==
  /\ sock[c] \in {"up", "stuck"}
  /\ sock' = [sock EXCEPT ![c] = IF @ = "up" THEN "gone" ELSE "dead"]
  /\ UNCHANGED <<connections, connCount, connWg, h, rd, authed, replied, stop, push, range, server>>

-----------------------------------------------------------------------------
Arrive(c) == Accept(c) \/ Refuse(c)

Handle(c) ==
  \/ Store(c) \/ CountUp(c) \/ Enter(c) \/ ReadLogin(c) \/ LoginFails(c)
  \/ SendLoginResp(c) \/ SendLoginRespFails(c) \/ StartReader(c) \/ EndServing(c)
  \/ UnlistSelf(c) \/ HangUpSelf(c) \/ Leave(c)

RangeStep(a) == CloseFinish(a) \/ \E c \in Conns : Skip(a, c) \/ CloseNext(a, c)

PushStep ==
  \/ PushTick \/ PushVisitedAll \/ PushSwept \/ PushStops \/ RangeStep("push")
  \/ \E c \in Conns : PushSkips(c) \/ PushWrites(c) \/ PushFails(c) \/ PushCloses(c)

ForceStep == RangeStep("force") \/ ForceEnd

ShutStep == RangeStep("shut") \/ ShutRanged \/ ShutWaitConns \/ ShutWaitBg \/ ShutListener

Next ==
  \/ \E c \in Conns : Arrive(c) \/ Handle(c) \/ ReadEnds(c) \/ ClientLeaves(c)
  \/ PushStep
  \/ ForceStart \/ ForceStep
  \/ StartCall \/ SpawnPush
  \/ ShutBegin \/ ShutStep

Spec == Init /\ [][Next]_vars

(***************************************************************************)
(* Goroutines that can run do; a ready case of a select is chosen in the   *)
(* end.  Clients may stay silent or connected for ever, and nobody has to  *)
(* start the server, shut it down or force a disconnect.                   *)
(***************************************************************************)
Fairness ==
  /\ \A c \in Conns : WF_vars(Handle(c)) /\ WF_vars(ReadEnds(c))
  /\ WF_vars(PushStep) /\ SF_vars(PushStops)
  /\ WF_vars(ForceStep) /\ WF_vars(SpawnPush) /\ WF_vars(ShutStep)

FairSpec == Spec /\ Fairness

-----------------------------------------------------------------------------
(* Type correctness: shapes of every variable.  A WaitGroup that went      *)
(* below zero would panic.                                                 *)
TypeOK ==
  /\ connections \subseteq Conns /\ connCount \in Int /\ connWg \in Nat
  /\ h \in [Conns -> HandlerPcs]
  /\ rd \in [Conns -> {"none", "read", "done"}]
  /\ authed \subseteq Conns /\ replied \subseteq Conns /\ stop \subseteq Conns
  /\ sock \in [Conns -> {"none", "up", "stuck", "gone", "dead", "closed"}]
  /\ pushed \in [Conns -> Seq(0..MaxSeq)]
  /\ seq \in 0..MaxSeq /\ failed \subseteq Conns
  /\ pc \in [Rangers -> RangerPcs]
  /\ todo \in [Rangers -> SUBSET Conns]
  /\ cur \in [Rangers -> Conns \cup {None}]
  /\ forceFlag \in BOOLEAN /\ forces \in 0..MaxForces /\ starts \in 0..MaxStarts
  /\ running \in BOOLEAN /\ stopClosed \in BOOLEAN /\ panicked \in BOOLEAN
  /\ listener \in {"new", "open", "closed"} /\ starter \in {"idle", "sleep"}

(***************************************************************************)
(* No push is skipped: what a connection was sent is a run of consecutive  *)
(* numbers, whatever comes, goes or fails during the broadcasts            *)
(* (battlePushLoop, broadcastMessage).                                     *)
(***************************************************************************)
NoPushGaps ==
  \A c \in Conns : \A i \in 1..(Len(pushed[c]) - 1) : pushed[c][i + 1] = pushed[c][i] + 1

\* How far a connection is, for its client: see GamePeer.
StageOf(c) ==
  IF sock[c] \in {"stuck", "dead", "closed"} THEN "over"
  ELSE IF c \notin authed THEN "new"
  ELSE IF c \notin connections THEN "ending"
  ELSE IF c \in replied THEN "in" ELSE "auth"

Peer == INSTANCE GamePeer WITH stage <- [c \in Conns |-> StageOf(c)], sent <- pushed

(***************************************************************************)
(* The server is the peer clients may count on: whoever comes, goes, fails *)
(* or is disconnected during a broadcast, no number is drawn before every  *)
(* authenticated connection has the last one, none is sent twice or out of *)
(* turn, and nothing is sent on a connection that is over                  *)
(* (battlePushLoop, broadcastMessage, handleLogin, closeConnection).       *)
(***************************************************************************)
ImplementsPeer == Peer!Spec

\* Handlers that have counted their connection and not left yet.
Occupying == {"counted", "login", "named", "ready", "serve", "unlist"}

Present == {c \in Conns : h[c] \in Occupying}

(***************************************************************************)
(* The count errs on one side only: it never exceeds the connections being *)
(* handled, so nobody is turned away while there is room (handleWebSocket, *)
(* closeConnection).                                                       *)
(***************************************************************************)
NoSpuriousRefusal == connCount <= Cardinality(Present)

\* Handlers between connWg.Add and connWg.Done.
Admitted == {"login", "named", "ready", "serve", "unlist", "hangup", "leave"}

(***************************************************************************)
(* When connWg.Wait lets Shutdown go on, every handler that had joined the *)
(* group is gone, and its reader with it, although readers join later and  *)
(* leave in any order (Shutdown, handleConnection, messageReadLoop).       *)
(***************************************************************************)
ShutdownWaitsForAdmitted ==
  [][pc["shut"] = "conns" /\ pc'["shut"] = "bg" =>
       \A c \in Conns : h[c] \notin Admitted /\ rd[c] # "read"]_vars

Released(c) == h[c] = "done" /\ rd[c] # "read" /\ c \notin connections /\ sock[c] = "closed"

(***************************************************************************)
(* A client that hangs up is noticed: handler and reader end, the entry    *)
(* goes, the socket is closed (messageReadLoop, handleConnection).         *)
(***************************************************************************)
GoneClientReleased == \A c \in Conns : sock[c] \in {"gone", "dead"} ~> Released(c)

(***************************************************************************)
(* Shutdown that has found no connection left returns, unless another one  *)
(* is stored meanwhile: no goroutine waits for another one that waits for  *)
(* it (Shutdown, closeConnection).                                         *)
(***************************************************************************)
EmptyShutdownReturns ==
  (pc["shut"] = "conns" /\ connections = {}) ~> (pc["shut"] = "done" \/ connections # {})

-----------------------------------------------------------------------------
(* What the repository says of the server and the code does not keep: this    *)
(* has a counterexample.                                                   *)

Quiet == \A c \in Conns : h[c] \in {"none", "refused", "done"} /\ rd[c] # "read"

(***************************************************************************)
(* After every client has gone current_connections is back at zero         *)
(* (GetStats, closeConnection).                                            *)
(***************************************************************************)
CountReturnsToZero == Quiet => connCount = 0

=============================================================================
