----------------------------- MODULE WsClient ------------------------------
(***************************************************************************)
(* The game client of internal/wsclient/client.go: its atomic connection   *)
(* state, the calls Connect and Close, and the three goroutines each       *)
(* successful Connect starts (readLoop, heartbeatLoop, reconnectLoop).     *)
(*                                                                         *)
(* One step is one access to shared state (an atomic, a mutex section, a   *)
(* channel operation, one read or write of a socket), so that goroutines   *)
(* interleave where the Go program lets them.  Payloads, frames and RTT    *)
(* statistics are left out; SendAction and GetStats change no client state.*)
(* The server is an environment that answers logins and numbers pushes.    *)
(***************************************************************************)
EXTENDS Naturals, Sequences

CONSTANTS
  Callers,             \* application goroutines, which may call Connect
  Closers,             \* those of them that may also call Close
  Conns,               \* identities of websocket connections, reused when nobody refers to one
  NoConn,              \* the nil *websocket.Conn
  MaxGen,              \* bound: how many Connect calls start loops
  MaxReconnectTries,   \* ClientConfig.MaxReconnectTries
  MaxSeq,              \* bound: pushes the server numbers
  Faults,              \* which misfortunes happen in this instance
  MaxFaults            \* bound: how many of the counted ones

FaultKinds == {"cut", "refuse", "deny", "slow", "stall", "restart", "deadline"}

Gens == 1..MaxGen

Readers == {"read"} \X Gens

Beats == {"beat"} \X Gens

Recons == {"recon"} \X Gens

Loops == Readers \cup Beats \cup Recons

Threads == Callers \cup Loops

\* The goroutines that run doConnect: a caller of Connect, or a reconnectLoop.
Connectors == Callers \cup Recons

ASSUME WsClientAssumption ==
  /\ MaxGen \in Nat /\ MaxReconnectTries \in Nat
  /\ MaxSeq \in Nat /\ MaxFaults \in Nat
  /\ NoConn \notin Conns
  /\ Faults \subseteq FaultKinds
  /\ Callers \cap Loops = {} /\ Closers \subseteq Callers

ClientState == {"Disconnected", "Connecting", "Connected", "Reconnecting", "Closed"}

VARIABLES
  state,            \* c.state
  conn,             \* c.conn, guarded by c.mu
  stopClosed,       \* close(c.stopChan) was executed
  token,            \* the one slot of c.reconnectChan is taken
  reconnectCount,   \* c.reconnectCount, saturating above MaxReconnectTries
  lastSeq,          \* c.lastSeq
  delivered,        \* battle pushes handed to onPush, in order (history)
  gen,              \* how many times Connect started its loops
  panicked,         \* close of a closed channel: the process is gone
  pc, held, msg, after,   \* goroutine locals: position, captured conn, push in hand, return point
  sock,             \* the connections: both ends and the deadline
  seqGen,           \* last number the server gave a push
  issued,           \* highest number any server process gave a push (history)
  faults            \* counted misfortunes so far

client == <<state, conn, stopClosed, token, reconnectCount, lastSeq, delivered, gen>>
locals == <<pc, held, msg, after>>
world  == <<sock, seqGen, issued, faults>>
vars   == <<client, panicked, locals, world>>

PcValues ==
  {"off", "idle", "loop", "done", "dial", "login", "capture", "recv", "connected", "failed",
   "spawn", "cas2", "cas3", "stop", "detach", "dedup", "store", "deliver",
   "send", "write", "ping", "trigger", "mark", "signal", "drop", "reset"}

Message == [op : {"LoginOk", "LoginDenied", "Push"}, seq : 0..MaxSeq]

Socket == [link  : {"none", "up", "expired", "cut", "closed"},
           armed : BOOLEAN,
           peer  : {"new", "asked", "auth", "in"},
           told  : 0..MaxSeq,
           inbox : Seq(Message)]

Fresh == [link |-> "none", armed |-> FALSE, peer |-> "new", told |-> 0, inbox |-> <<>>]

Init ==
  /\ state = "Disconnected" /\ conn = NoConn
  /\ stopClosed = FALSE /\ token = FALSE /\ reconnectCount = 0
  /\ lastSeq = 0 /\ delivered = <<>> /\ gen = 0 /\ panicked = FALSE
  /\ pc = [t \in Threads |-> IF t \in Callers THEN "idle" ELSE "off"]
  /\ held = [t \in Threads |-> NoConn]
  /\ msg = [t \in Readers |-> 0]
  /\ after = [t \in Beats |-> "loop"]
  /\ sock = [c \in Conns |-> Fresh]
  /\ seqGen = 0 /\ issued = 0 /\ faults = 0

Move(t, from, to) == pc[t] = from /\ pc' = [pc EXCEPT ![t] = to]

Fault(kind) == kind \in Faults /\ faults < MaxFaults /\ faults' = faults + 1

-----------------------------------------------------------------------------
(* Connect: a compare-and-swap, doConnect, and the three loops.            *)

\* Slip: a closed client may be connected again.
MayReopen == state \in {"Disconnected", "Closed"}

MayConnect == state = "Disconnected"

ConnectCall(t) ==
  /\ gen < MaxGen
  /\ MayConnect
  /\ state' = "Connecting"
  /\ Move(t, "idle", "dial")
  /\ UNCHANGED <<conn, stopClosed, token, reconnectCount, lastSeq, delivered, gen,
                 panicked, held, msg, after, world>>

\* setState(StateConnected), by Connect or by doReconnect
Established(t) ==
  /\ Move(t, "connected", IF t \in Callers THEN "spawn" ELSE "reset")
  /\ state' = "Connected"
  /\ UNCHANGED <<conn, stopClosed, token, reconnectCount, lastSeq, delivered, gen,
                 panicked, held, msg, after, world>>

\* Slip: an attempt that fails returns without setting the state.
FailedSilently(t) ==
  /\ Move(t, "failed", IF t \in Callers THEN "idle" ELSE "loop")
  /\ UNCHANGED <<client, panicked, held, msg, after, world>>

\* setState(StateDisconnected), by Connect or by doReconnect
Failed(t) ==
  /\ Move(t, "failed", IF t \in Callers THEN "idle" ELSE "loop")
  /\ state' = "Disconnected"
  /\ UNCHANGED <<conn, stopClosed, token, reconnectCount, lastSeq, delivered, gen,
                 panicked, held, msg, after, world>>

\* Slip: the read loop is not started.
StartedUnread == {"beat", "recon"} \X {gen + 1}

Started == {"read", "beat", "recon"} \X {gen + 1}

Spawn(t) ==
  /\ pc[t] = "spawn" /\ gen < MaxGen
  /\ gen' = gen + 1
  /\ pc' = [u \in Threads |-> IF u = t THEN "idle"
                              ELSE IF u \in Started THEN "loop" ELSE pc[u]]
  /\ UNCHANGED <<state, conn, stopClosed, token, reconnectCount, lastSeq, delivered,
                 panicked, held, msg, after, world>>

-----------------------------------------------------------------------------
(* doConnect and doLogin.  A failed attempt ends Connect; in doReconnect   *)
(* backoff.Retry tries again until its elapsed time is used up.            *)

AfterFailure(t) == IF t \in Callers THEN {"failed"} ELSE {"dial", "failed"}

Unreferenced(c) == c # conn /\ \A t \in Threads : held[t] # c

Dial(t) ==
  /\ Move(t, "dial", "login")
  /\ \E c \in Conns : /\ Unreferenced(c)
                      /\ conn' = c
                      /\ sock' = [sock EXCEPT ![c] = [Fresh EXCEPT !.link = "up"]]
  /\ UNCHANGED <<state, stopClosed, token, reconnectCount, lastSeq, delivered, gen,
                 panicked, held, msg, after, seqGen, issued, faults>>

DialFails(t) ==
  /\ Fault("refuse")
  /\ \E to \in AfterFailure(t) : Move(t, "dial", to)
  /\ UNCHANGED <<client, panicked, held, msg, after, sock, seqGen, issued>>

LinkOf(c) == IF c = NoConn THEN "none" ELSE sock[c].link

SendLogin(t) ==
  /\ LinkOf(conn) \in {"up", "expired"}
  /\ Move(t, "login", "capture")
  /\ sock' = [sock EXCEPT ![conn].peer = IF @ = "new" THEN "asked" ELSE @]
  /\ UNCHANGED <<client, panicked, held, msg, after, seqGen, issued, faults>>

SendLoginFails(t) ==
  /\ LinkOf(conn) \notin {"up", "expired"}
  /\ \E to \in AfterFailure(t) : Move(t, "login", to)
  /\ UNCHANGED <<client, panicked, held, msg, after, world>>

-----------------------------------------------------------------------------
(* readMessage: capture c.conn, then block in conn.ReadMessage.  Only the  *)
(* login read has a deadline, and nothing ever clears it.                  *)

\* Slip: the read loop goes on after an error without triggering a reconnect.
AfterReadErrorIgnored(t) == IF t \in Readers THEN {"loop"} ELSE AfterFailure(t)

AfterReadError(t) == IF t \in Readers THEN {"trigger"} ELSE AfterFailure(t)

Capture(t) ==
  /\ conn # NoConn
  /\ Move(t, "capture", "recv")
  /\ held' = [held EXCEPT ![t] = conn]
  /\ sock' = IF t \in Connectors
             THEN [sock EXCEPT ![conn].armed = TRUE] ELSE sock
  /\ UNCHANGED <<client, panicked, msg, after, seqGen, issued, faults>>

CaptureFails(t) ==
  /\ conn = NoConn
  /\ \E to \in AfterReadError(t) : Move(t, "capture", to)
  /\ UNCHANGED <<client, panicked, held, msg, after, world>>

ReadFails(t) ==
  /\ LinkOf(held[t]) \in {"expired", "cut", "closed"}
  /\ \E to \in AfterReadError(t) : Move(t, "recv", to)
  /\ held' = [held EXCEPT ![t] = NoConn]
  /\ UNCHANGED <<client, panicked, msg, after, world>>

\* The head of the captured connection's stream, removed.
Receive(t) ==
  /\ LinkOf(held[t]) \in {"up", "cut"}
  /\ sock[held[t]].inbox # <<>>
  /\ sock' = [sock EXCEPT ![held[t]].inbox = Tail(@)]
  /\ held' = [held EXCEPT ![t] = NoConn]

ReadLoginResp(t) ==
  /\ t \in Connectors
  /\ pc[t] = "recv"
  /\ Receive(t)
  /\ IF Head(sock[held[t]].inbox).op = "LoginOk"
     THEN Move(t, "recv", "connected")
     ELSE \E to \in AfterFailure(t) : Move(t, "recv", to)
  /\ UNCHANGED <<client, panicked, msg, after, seqGen, issued, faults>>

ReadPush(t) ==
  /\ t \in Readers
  /\ pc[t] = "recv"
  /\ Receive(t)
  /\ LET m == Head(sock[held[t]].inbox)
     IN  /\ Move(t, "recv", IF m.op = "Push" THEN "dedup" ELSE "loop")
         /\ msg' = [msg EXCEPT ![t] = m.seq]
  /\ UNCHANGED <<client, panicked, after, seqGen, issued, faults>>

-----------------------------------------------------------------------------
(* readLoop and handleBattlePush.                                          *)

ReadNext(t) ==
  /\ ~stopClosed /\ state = "Connected"
  /\ t \in Readers
  /\ Move(t, "loop", "capture")
  /\ UNCHANGED <<client, panicked, held, msg, after, world>>

\* Slip: a repeated number passes.
StaleUnlessEqual(t) == msg[t] < lastSeq

Stale(t) == msg[t] <= lastSeq

Dedup(t) ==
  /\ Move(t, "dedup", IF Stale(t) THEN "loop" ELSE "store")
  /\ UNCHANGED <<client, panicked, held, msg, after, world>>

StoreSeq(t) ==
  /\ Move(t, "store", "deliver")
  /\ lastSeq' = msg[t]
  /\ UNCHANGED <<state, conn, stopClosed, token, reconnectCount, delivered, gen,
                 panicked, held, msg, after, world>>

OnPush(t) ==
  /\ Move(t, "deliver", "loop")
  /\ delivered' = Append(delivered, msg[t])
  /\ UNCHANGED <<state, conn, stopClosed, token, reconnectCount, lastSeq, gen,
                 panicked, held, msg, after, world>>

-----------------------------------------------------------------------------
(* heartbeatLoop: sendHeartbeat, then checkPing.                           *)

Tick(t) ==
  /\ t \in Beats
  /\ state = "Connected"
  /\ Move(t, "loop", "send")
  /\ UNCHANGED <<client, panicked, held, msg, after, world>>

BeatCapture(t) ==
  /\ conn # NoConn
  /\ Move(t, "send", "write")
  /\ held' = [held EXCEPT ![t] = conn]
  /\ UNCHANGED <<client, panicked, msg, after, world>>

\* A server that has not seen a LoginReq yet hangs up on a heartbeat.
BeatWrite(t) ==
  /\ LinkOf(held[t]) \in {"up", "expired", "cut"}
  /\ Move(t, "write", "ping")
  /\ held' = [held EXCEPT ![t] = NoConn]
  /\ sock' = IF sock[held[t]].peer = "new"
             THEN [sock EXCEPT ![held[t]].link = "cut"] ELSE sock
  /\ UNCHANGED <<client, panicked, msg, after, seqGen, issued, faults>>

BeatFails(t) ==
  /\ \/ conn = NoConn /\ Move(t, "send", "trigger")
     \/ LinkOf(held[t]) \in {"cut", "closed"} /\ Move(t, "write", "trigger")
  /\ held' = [held EXCEPT ![t] = NoConn]
  /\ after' = [after EXCEPT ![t] = "ping"]
  /\ UNCHANGED <<client, panicked, msg, world>>

PingInTime(t) ==
  /\ Move(t, "ping", "loop")
  /\ UNCHANGED <<client, panicked, held, msg, after, world>>

\* The write itself took longer than PingTimeout.
PingTimeout(t) ==
  /\ Fault("stall")
  /\ Move(t, "ping", "trigger")
  /\ after' = [after EXCEPT ![t] = "loop"]
  /\ UNCHANGED <<client, panicked, held, msg, sock, seqGen, issued>>

-----------------------------------------------------------------------------
(* triggerReconnect: load, swap, non-blocking send.                        *)

AfterTrigger(t) == IF t \in Readers THEN "loop" ELSE after[t]

TriggerLoad(t) ==
  /\ Move(t, "trigger", IF state = "Connected" THEN "mark" ELSE AfterTrigger(t))
  /\ UNCHANGED <<client, panicked, held, msg, after, world>>

TriggerMark(t) ==
  /\ Move(t, "mark", "signal")
  /\ state' = "Reconnecting"
  /\ UNCHANGED <<conn, stopClosed, token, reconnectCount, lastSeq, delivered, gen,
                 panicked, held, msg, after, world>>

TriggerSignal(t) ==
  /\ Move(t, "signal", AfterTrigger(t))
  /\ token' = TRUE
  /\ UNCHANGED <<state, conn, stopClosed, reconnectCount, lastSeq, delivered, gen,
                 panicked, held, msg, after, world>>

-----------------------------------------------------------------------------
(* reconnectLoop and doReconnect.                                          *)

TakeToken(t) ==
  /\ t \in Recons
  /\ token
  /\ token' = FALSE
  /\ reconnectCount' = IF reconnectCount > MaxReconnectTries
                       THEN reconnectCount ELSE reconnectCount + 1
  /\ Move(t, "loop", IF reconnectCount' > MaxReconnectTries THEN "failed" ELSE "drop")
  /\ UNCHANGED <<state, conn, stopClosed, lastSeq, delivered, gen,
                 panicked, held, msg, after, world>>

\* conn.Close() on whatever c.conn holds, and c.conn = nil
Detached ==
  /\ conn' = NoConn
  /\ sock' = IF conn = NoConn THEN sock
             ELSE [sock EXCEPT ![conn] = [Fresh EXCEPT !.link = "closed"]]

DropOld(t) ==
  /\ Move(t, "drop", "dial")
  /\ Detached
  /\ UNCHANGED <<state, stopClosed, token, reconnectCount, lastSeq, delivered, gen,
                 panicked, held, msg, after, seqGen, issued, faults>>

ResetCount(t) ==
  /\ Move(t, "reset", "loop")
  /\ reconnectCount' = 0
  /\ UNCHANGED <<state, conn, stopClosed, token, lastSeq, delivered, gen,
                 panicked, held, msg, after, world>>

\* Slip: the read loop has no stopChan case.
StopUnlessReading(t) ==
  /\ t \in Beats \cup Recons
  /\ stopClosed
  /\ Move(t, "loop", "done")
  /\ UNCHANGED <<client, panicked, held, msg, after, world>>

\* case <-c.stopChan of each loop
Stop(t) ==
  /\ t \in Loops
  /\ stopClosed
  /\ Move(t, "loop", "done")
  /\ UNCHANGED <<client, panicked, held, msg, after, world>>

-----------------------------------------------------------------------------
(* Close: three compare-and-swaps, close(stopChan), close the connection.  *)

CompareAndClose(t, at, expected, otherwise) ==
  /\ Move(t, at, IF state = expected THEN "stop" ELSE otherwise)
  /\ state' = IF state = expected THEN "Closed" ELSE state
  /\ UNCHANGED <<conn, stopClosed, token, reconnectCount, lastSeq, delivered, gen,
                 panicked, held, msg, after, world>>

CloseCall(t) == t \in Closers /\ CompareAndClose(t, "idle", "Connected", "cas2")

CloseCas2(t) == CompareAndClose(t, "cas2", "Reconnecting", "cas3")

CloseCas3(t) == CompareAndClose(t, "cas3", "Disconnected", "idle")

CloseStop(t) ==
  /\ pc[t] = "stop"
  /\ pc' = IF stopClosed THEN [u \in Threads |-> "off"] ELSE [pc EXCEPT ![t] = "detach"]
  /\ stopClosed' = TRUE
  /\ panicked' = stopClosed
  /\ UNCHANGED <<state, conn, token, reconnectCount, lastSeq, delivered, gen,
                 held, msg, after, world>>

CloseDetach(t) ==
  /\ Move(t, "detach", "idle")
  /\ Detached
  /\ UNCHANGED <<state, stopClosed, token, reconnectCount, lastSeq, delivered, gen,
                 panicked, held, msg, after, seqGen, issued, faults>>

-----------------------------------------------------------------------------
(* The server and the network, as the client meets them.  A player is      *)
(* pushed to as soon as it is authenticated, which is before its LoginResp.*)
(* What the server does to a connection is weaker here than GamePeer, the  *)
(* promise TestServer keeps: a number may be skipped.                      *)

PeerStep(c, from, to, ms) ==
  /\ sock[c].link = "up" /\ sock[c].peer = from
  /\ sock' = [sock EXCEPT ![c].peer = to, ![c].inbox = @ \o ms]
  /\ UNCHANGED <<client, panicked, locals, seqGen, issued, faults>>

PeerAuth(c) == PeerStep(c, "asked", "auth", <<>>)

PeerAnswer(c) == PeerStep(c, "auth", "in", <<[op |-> "LoginOk", seq |-> 0]>>)

\* A refused login is answered and the connection closed by the server.
PeerDeny(c) ==
  /\ Fault("deny")
  /\ sock[c].link = "up" /\ sock[c].peer = "asked"
  /\ sock' = [sock EXCEPT ![c].link = "cut",
                          ![c].inbox = Append(@, [op |-> "LoginDenied", seq |-> 0])]
  /\ UNCHANGED <<client, panicked, locals, seqGen, issued>>

\* A broadcast draws a number and then visits the connections one by one: one
\* that is authenticated meanwhile may still get it, one may break before it does.
PeerDraw ==
  /\ seqGen < MaxSeq
  /\ seqGen' = seqGen + 1
  /\ issued' = IF seqGen < issued THEN issued ELSE seqGen + 1
  /\ UNCHANGED <<client, panicked, locals, sock, faults>>

PeerPush(c) ==
  /\ sock[c].link = "up" /\ sock[c].peer \in {"auth", "in"}
  /\ sock[c].told < seqGen
  /\ sock' = [sock EXCEPT ![c].told = seqGen,
                          ![c].inbox = Append(@, [op |-> "Push", seq |-> seqGen])]
  /\ UNCHANGED <<client, panicked, locals, seqGen, issued, faults>>

\* The server process is replaced: connections break, numbering starts over.
PeerRestart ==
  /\ Fault("restart")
  /\ seqGen' = 0
  /\ sock' = [c \in Conns |-> IF sock[c].link = "up" THEN [sock[c] EXCEPT !.link = "cut"] ELSE sock[c]]
  /\ UNCHANGED <<client, panicked, locals, issued>>

LinkBreaks(c, to) ==
  /\ sock[c].link = "up"
  /\ sock' = [sock EXCEPT ![c].link = to, ![c].armed = FALSE]
  /\ UNCHANGED <<client, panicked, locals, seqGen, issued>>

Cut(c) == Fault("cut") /\ LinkBreaks(c, "cut")

AwaitingLogin(c) == \E t \in Connectors : held[t] = c

\* The server answered, but another reader took the answer.
AnswerGone(c) ==
  sock[c].peer = "in" /\ \A i \in DOMAIN sock[c].inbox : sock[c].inbox[i].op # "LoginOk"

\* HandshakeTimeout is longer than the server takes, unless the server is slow.
SlowLogin(c) == AwaitingLogin(c) /\ Fault("slow") /\ LinkBreaks(c, "expired")

DeadlinePasses(c) ==
  /\ sock[c].armed
  /\ IF AwaitingLogin(c) THEN AnswerGone(c) ELSE "deadline" \in Faults
  /\ LinkBreaks(c, "expired")
  /\ UNCHANGED faults

-----------------------------------------------------------------------------
ConnectStep(t) ==
  \/ Dial(t) \/ DialFails(t) \/ SendLogin(t) \/ SendLoginFails(t)
  \/ ReadLoginResp(t) \/ Established(t) \/ Failed(t)

ReadStep(t) == Capture(t) \/ CaptureFails(t) \/ ReadFails(t)

TriggerStep(t) == TriggerLoad(t) \/ TriggerMark(t) \/ TriggerSignal(t)

CallerStep(t) ==
  \/ ConnectStep(t) \/ ReadStep(t) \/ Spawn(t)
  \/ CloseCas2(t) \/ CloseCas3(t) \/ CloseStop(t) \/ CloseDetach(t)

ReaderStep(t) ==
  \/ ReadNext(t) \/ ReadStep(t) \/ ReadPush(t)
  \/ Dedup(t) \/ StoreSeq(t) \/ OnPush(t) \/ TriggerStep(t)

BeatStep(t) ==
  \/ Tick(t) \/ BeatCapture(t) \/ BeatWrite(t) \/ BeatFails(t)
  \/ PingInTime(t) \/ PingTimeout(t) \/ TriggerStep(t)

ReconStep(t) == TakeToken(t) \/ DropOld(t) \/ ConnectStep(t) \/ ReadStep(t) \/ ResetCount(t)

PeerReplies(c) == PeerAuth(c) \/ PeerAnswer(c)

NetStep(c) ==
  \/ PeerReplies(c) \/ PeerPush(c) \/ PeerDeny(c)
  \/ Cut(c) \/ SlowLogin(c) \/ DeadlinePasses(c)

Next ==
  \/ \E t \in Callers : ConnectCall(t) \/ CloseCall(t) \/ CallerStep(t)
  \/ \E t \in Readers : ReaderStep(t)
  \/ \E t \in Beats : BeatStep(t)
  \/ \E t \in Recons : ReconStep(t)
  \/ \E t \in Loops : Stop(t)
  \/ \E c \in Conns : NetStep(c)
  \/ PeerDraw
  \/ PeerRestart

Spec == Init /\ [][Next]_vars

(***************************************************************************)
(* A goroutine that can run does run; select is random, so a stop that     *)
(* stays ready is chosen in the end; the server answers logins and time    *)
(* passes.  Callers are free not to call, and no fault has to happen.      *)
(***************************************************************************)
Fairness ==
  /\ \A t \in Callers : WF_vars(CallerStep(t))
  /\ \A t \in Readers : WF_vars(ReaderStep(t))
  /\ \A t \in Beats   : WF_vars(BeatStep(t))
  /\ \A t \in Recons  : WF_vars(ReconStep(t))
  /\ \A t \in Loops   : SF_vars(Stop(t))
  /\ \A c \in Conns   : /\ WF_vars(PeerReplies(c))
                        /\ WF_vars(DeadlinePasses(c))

FairSpec == Spec /\ Fairness

-----------------------------------------------------------------------------
(* Type correctness: shapes of every variable.                             *)
TypeOK ==
  /\ state \in ClientState
  /\ conn \in Conns \cup {NoConn}
  /\ stopClosed \in BOOLEAN /\ token \in BOOLEAN /\ panicked \in BOOLEAN
  /\ reconnectCount \in 0..(MaxReconnectTries + 1)
  /\ lastSeq \in 0..MaxSeq /\ delivered \in Seq(0..MaxSeq)
  /\ gen \in 0..MaxGen
  /\ pc \in [Threads -> PcValues]
  /\ held \in [Threads -> Conns \cup {NoConn}]
  /\ msg \in [Readers -> 0..MaxSeq]
  /\ after \in [Beats -> {"loop", "ping"}]
  /\ sock \in [Conns -> Socket]
  /\ seqGen \in 0..MaxSeq /\ issued \in 0..MaxSeq
  /\ faults \in 0..MaxFaults

\* A reconnectLoop inside doReconnect, before the setState that ends it.
Rebuilding(t) ==
  pc[t] \in {"drop", "dial", "login", "capture", "recv", "connected", "failed"}

(***************************************************************************)
(* No lost wakeup of the reconnect loop: while the state is Reconnecting   *)
(* and the client was not closed, someone is about to put the token in     *)
(* reconnectChan, or it is there and a loop is alive to take it, or a      *)
(* doReconnect is under way and will set the state (triggerReconnect,      *)
(* reconnectLoop, doReconnect).                                            *)
(***************************************************************************)
ReconnectNeverAbandoned ==
  state = "Reconnecting" /\ ~stopClosed =>
    \/ \E t \in Readers \cup Beats : pc[t] = "signal"
    \/ token /\ \E t \in Recons : pc[t] \notin {"off", "done"}
    \/ \E t \in Recons : Rebuilding(t)

(***************************************************************************)
(* A client that says Connected and was not closed has a full set of loops *)
(* behind it, or its Connect call is just about to start them: no path     *)
(* through reconnects and failures reports a connection nobody reads.      *)
(***************************************************************************)
ConnectedIsServed ==
  state = "Connected" /\ ~stopClosed =>
    \/ \E t \in Callers : pc[t] = "spawn"
    \/ \E g \in Gens : \A k \in {"read", "beat", "recon"} :
         pc[<<k, g>>] \notin {"off", "done"}

(***************************************************************************)
(* Pushes reach the application in increasing order, across reconnects     *)
(* (handleBattlePush: the sequence number must increase).                  *)
(***************************************************************************)
MonotoneDelivery ==
  \A i, j \in DOMAIN delivered : i < j => delivered[i] < delivered[j]

(***************************************************************************)
(* With a single set of loops the client is an ordered feed: every handler *)
(* call is a delivery OrderedFeed allows, and everything else a publication*)
(* by the server or a stutter.                                             *)
(***************************************************************************)
Feed == INSTANCE OrderedFeed WITH published <- issued, log <- delivered

ImplementsFeed == Feed!Spec

\* Nothing is left that could still change the state after a Close.
ClosedForGood ==
  /\ state = "Closed" /\ stopClosed /\ ~token
  /\ \A t \in Callers : pc[t] \in {"idle", "cas2", "cas3"}
  /\ \A t \in Loops : pc[t] \in {"off", "loop", "done"}

(***************************************************************************)
(* Once a closed client has come to rest (no reconnect, trigger or call in *)
(* flight when the loops see stopChan) it stays closed whatever is called  *)
(* or sent afterwards.                                                     *)
(***************************************************************************)
ClosedStaysClosed == [][ClosedForGood => ClosedForGood']_vars

(***************************************************************************)
(* A reconnect episode ends: the client gets out of Reconnecting, with a   *)
(* connection, by giving up, or because it is closed (doReconnect,         *)
(* triggerReconnect), however triggers and the reconnect loop interleave.  *)
(***************************************************************************)
EpisodesEnd == (state = "Reconnecting" /\ ~stopClosed) ~> (state # "Reconnecting" \/ stopClosed)

(***************************************************************************)
(* Close stops every loop in the end, also one blocked in a read or in the *)
(* middle of a reconnect (Close, the stopChan cases of the loops).         *)
(***************************************************************************)
LoopsStop ==
  stopClosed ~> (\A t \in Loops : pc[t] \in {"off", "done"})

OnDeadLink ==
  state = "Connected" /\ ~stopClosed /\ LinkOf(conn) \in {"expired", "cut"}

(***************************************************************************)
(* A connection that breaks under a connected client is noticed: the       *)
(* client leaves the connection or the Connected state (readLoop,          *)
(* sendHeartbeat, triggerReconnect).                                       *)
(***************************************************************************)
DeadLinkNoticed == OnDeadLink ~> ~OnDeadLink

-----------------------------------------------------------------------------
(* What the repository says of the client and the code does not keep: this    *)
(* has a counterexample.                                                   *)

(***************************************************************************)
(* Calling Close again is harmless: it never closes stopChan a second time *)
(* (the early return of Close).                                            *)
(***************************************************************************)
CloseTwiceIsHarmless == ~panicked

=============================================================================
