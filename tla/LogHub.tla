------------------------------- MODULE LogHub -------------------------------
(***************************************************************************)
(* The log stream of the test platform                                     *)
(* (internal/logger/websocket_logger.go): whoever logs puts a message into *)
(* a bounded channel and never waits; one goroutine, Run, takes messages,  *)
(* registrations and departures in a select and writes every message to    *)
(* every registered connection; a handler per connection registers it,     *)
(* greets it and waits for it to go.                                       *)
(*                                                                         *)
(* The greeting and the hub write to the same connection without a lock,   *)
(* which gorilla/websocket forbids.  Its writers share the connection's    *)
(* buffer and its current message: a write that overlaps another may       *)
(* panic, return an error because the other closed its message, or return  *)
(* none, and its bytes may arrive, be overwritten, or be sent twice.  A    *)
(* frame that went out with the other's length leaves the viewer out of    *)
(* step with the stream, so what is written later may be lost on it too.   *)
(*                                                                         *)
(* A write has no deadline, so it lasts as long as the peer does not read; *)
(* the `time.After' case beside it is never ready.                         *)
(*                                                                         *)
(* Messages are their numbers in the order the channel accepted them.      *)
(***************************************************************************)
EXTENDS Naturals, Sequences

CONSTANTS
  Watchers,   \* connections of log viewers
  Nobody,     \* not a connection
  ChanLen,    \* capacity of the channel broadcast (256 in the code)
  MaxLogs     \* bound: messages accepted in a behaviour

ASSUME HubConstants ==
  /\ Nobody \notin Watchers
  /\ ChanLen \in Nat \ {0}
  /\ MaxLogs \in Nat

VARIABLES
  broadcast,  \* the channel
  accepted,   \* number of messages it has accepted
  clients,    \* the hub's map
  hub,        \* the goroutine Run
  handler,    \* handler[c]: where HandleWebSocket is
  writer,     \* writer[c]: who is inside a write to c
  mixed,      \* mixed[c]: those of them whose write has overlapped another
  torn,       \* the connections on which two writes have overlapped so far
  open,       \* the connections this side has not closed
  peer,       \* peer[c]: what the viewer at the other end does
  got         \* got[c]: history, the log messages c received

hubVars == <<broadcast, accepted, clients, hub, handler, writer, mixed, torn, open, peer, got>>

\* What the library keeps of the writes under way.
writes == <<writer, mixed, torn>>

Writers == {"hub", "handler"}

HandlerPoints == {"off", "joining", "welcome", "greeting", "reading",
                  "leaving", "closing", "gone", "panicked"}

HubStates == [at : {"select", "range", "write", "dead"}, msg : 0..MaxLogs,
              todo : SUBSET Watchers, to : Watchers \cup {Nobody}]

\* Type correctness; and the channel holds the messages accepted last.
HubTypeOK ==
  /\ broadcast \in Seq(1..MaxLogs) /\ Len(broadcast) <= ChanLen
  /\ accepted \in 0..MaxLogs
  /\ \A i \in 1..Len(broadcast) : broadcast[i] + Len(broadcast) = accepted + i
  /\ clients \subseteq Watchers
  /\ hub \in HubStates
  /\ handler \in [Watchers -> HandlerPoints]
  /\ writer \in [Watchers -> SUBSET Writers]
  /\ mixed \in [Watchers -> SUBSET Writers]
  /\ torn \subseteq Watchers
  /\ open \subseteq Watchers
  /\ peer \in [Watchers -> {"reads", "stuck", "left"}]
  /\ got \in [Watchers -> Seq(1..MaxLogs)]

HubInit ==
  /\ broadcast = <<>>
  /\ accepted = 0
  /\ clients = {}
  /\ hub = [at |-> "select", msg |-> 0, todo |-> {}, to |-> Nobody]
  /\ handler = [c \in Watchers |-> "off"]
  /\ writer = [c \in Watchers |-> {}]
  /\ mixed = [c \in Watchers |-> {}]
  /\ torn = {}
  /\ open = {}
  /\ peer = [c \in Watchers |-> "reads"]
  /\ got = [c \in Watchers |-> <<>>]

\* A panic of the hub's goroutine ends the process.
Running == hub.at # "dead"

-----------------------------------------------------------------------------
(* LogInfo, LogError, LogSuccess, LogWarning: the message is dropped when  *)
(* the channel is full, which changes nothing.  Slip: room is made for it  *)
(* by dropping the oldest.                                                 *)
LogSlip ==
  /\ Running
  /\ accepted < MaxLogs
  /\ broadcast' = Append(IF Len(broadcast) < ChanLen THEN broadcast ELSE Tail(broadcast),
                         accepted + 1)
  /\ accepted' = accepted + 1
  /\ UNCHANGED <<clients, hub, handler, writes, open, peer, got>>
Log ==
  /\ Running
  /\ accepted < MaxLogs
  /\ Len(broadcast) < ChanLen
  /\ broadcast' = Append(broadcast, accepted + 1)
  /\ accepted' = accepted + 1
  /\ UNCHANGED <<clients, hub, handler, writes, open, peer, got>>

-----------------------------------------------------------------------------
(* The select of Run.  register and unregister are unbuffered: the handler *)
(* waits until the hub is back here.                                       *)

Register(c) ==
  /\ hub.at = "select"
  /\ handler[c] = "joining"
  /\ clients' = clients \cup {c}
  /\ handler' = [handler EXCEPT ![c] = "welcome"]
  /\ UNCHANGED <<broadcast, accepted, hub, writes, open, peer, got>>

Unregister(c) ==
  /\ hub.at = "select"
  /\ handler[c] = "leaving"
  /\ clients' = clients \ {c}
  /\ open' = IF c \in clients THEN open \ {c} ELSE open
  /\ handler' = [handler EXCEPT ![c] = "closing"]
  /\ UNCHANGED <<broadcast, accepted, hub, writes, peer, got>>

Take ==
  /\ hub.at = "select"
  /\ broadcast # <<>>
  /\ hub' = [hub EXCEPT !.at = "range", !.todo = clients, !.msg = Head(broadcast)]
  /\ broadcast' = Tail(broadcast)
  /\ UNCHANGED <<accepted, clients, handler, writes, open, peer, got>>

\* Two writes to c are under way: neither can count on its message any more.
BeginWrite(who, c) ==
  /\ writer' = [writer EXCEPT ![c] = @ \cup {who}]
  /\ mixed' = [mixed EXCEPT ![c] = IF writer[c] = {} THEN @ ELSE Writers]
  /\ torn' = IF writer[c] = {} THEN torn ELSE torn \cup {c}

EndWrite(who, c) ==
  /\ writer' = [writer EXCEPT ![c] = @ \ {who}]
  /\ mixed' = [mixed EXCEPT ![c] = @ \ {who}]
  /\ UNCHANGED torn

\* What the viewer makes of the hub's write.  That a mixed write may arrive
\* more than twice is left out.
Arrivals(c) ==
  IF c \notin open \/ peer[c] # "reads" THEN {<<>>}
  ELSE IF c \notin torn THEN {<<hub.msg>>}
  ELSE IF "hub" \notin mixed[c] THEN {<<>>, <<hub.msg>>}
  ELSE {<<>>, <<hub.msg>>, <<hub.msg, hub.msg>>}

\* client.WriteJSON(message) for the next client of the map.
WriteBegins(c) ==
  /\ hub.at = "range"
  /\ c \in hub.todo
  /\ hub' = [hub EXCEPT !.at = "write", !.to = c, !.todo = @ \ {c}]
  /\ BeginWrite("hub", c)
  /\ UNCHANGED <<broadcast, accepted, clients, handler, open, peer, got>>

WriteReturns(c, next) ==
  /\ hub.at = "write" /\ hub.to = c
  /\ hub' = [hub EXCEPT !.at = next, !.to = Nobody]
  /\ EndWrite("hub", c)
  /\ \E s \in Arrivals(c) : got' = [got EXCEPT ![c] = @ \o s]

WriteSucceeds(c) ==
  /\ c \in open
  /\ peer[c] # "stuck"
  /\ WriteReturns(c, "range")
  /\ UNCHANGED <<broadcast, accepted, clients, handler, open, peer>>

DropClient(c) == clients' = clients \ {c} /\ open' = open \ {c}

\* The connection is broken or closed, or the greeting closed the hub's
\* message: the client is deleted and closed.
WriteFails(c) ==
  /\ c \notin open \/ peer[c] = "left" \/ "hub" \in mixed[c]
  /\ WriteReturns(c, "range")
  /\ DropClient(c)
  /\ UNCHANGED <<broadcast, accepted, handler, peer>>

WritePanics(c) ==
  /\ "hub" \in mixed[c]
  /\ WriteReturns(c, "dead")
  /\ UNCHANGED <<broadcast, accepted, clients, handler, open, peer>>

RangeDone ==
  /\ hub.at = "range"
  /\ hub.todo = {}
  /\ hub' = [hub EXCEPT !.at = "select", !.msg = 0]
  /\ UNCHANGED <<broadcast, accepted, clients, handler, writes, open, peer, got>>

-----------------------------------------------------------------------------
(* HandleWebSocket.                                                        *)

\* Upgrade, then `register <- conn'.
Upgrade(c) ==
  /\ Running
  /\ handler[c] = "off"
  /\ handler' = [handler EXCEPT ![c] = "joining"]
  /\ open' = open \cup {c}
  /\ UNCHANGED <<broadcast, accepted, clients, hub, writes, peer, got>>

\* The greeting.
WelcomeBegins(c) ==
  /\ Running
  /\ handler[c] = "welcome"
  /\ c \in open
  /\ handler' = [handler EXCEPT ![c] = "greeting"]
  /\ BeginWrite("handler", c)
  /\ UNCHANGED <<broadcast, accepted, clients, hub, open, peer, got>>

\* Its error is ignored.
WelcomeEnds(c) ==
  /\ Running
  /\ \/ handler[c] = "greeting" /\ (peer[c] # "stuck" \/ c \notin open \/ "handler" \in mixed[c])
     \/ handler[c] = "welcome" /\ c \notin open
  /\ handler' = [handler EXCEPT ![c] = "reading"]
  /\ EndWrite("handler", c)
  /\ UNCHANGED <<broadcast, accepted, clients, hub, open, peer, got>>

\* net/http recovers it: the goroutine ends before the deferred departure
\* exists, and the connection stays open and registered.
WelcomePanics(c) ==
  /\ Running
  /\ handler[c] = "greeting" /\ "handler" \in mixed[c]
  /\ handler' = [handler EXCEPT ![c] = "panicked"]
  /\ EndWrite("handler", c)
  /\ UNCHANGED <<broadcast, accepted, clients, hub, open, peer, got>>

\* ReadMessage returns an error: `unregister <- conn' is next.
ReadFailsSlip(c) ==
  /\ Running
  /\ handler[c] = "reading"
  /\ peer[c] = "left" \/ c \notin open
  /\ handler' = [handler EXCEPT ![c] = "closing"]
  /\ UNCHANGED <<broadcast, accepted, clients, hub, writes, open, peer, got>>
ReadFails(c) ==
  /\ Running
  /\ handler[c] = "reading"
  /\ peer[c] = "left" \/ c \notin open
  /\ handler' = [handler EXCEPT ![c] = "leaving"]
  /\ UNCHANGED <<broadcast, accepted, clients, hub, writes, open, peer, got>>

HandlerClosesSlip(c) ==
  /\ Running
  /\ handler[c] \in {"leaving", "closing"}
  /\ handler' = [handler EXCEPT ![c] = "gone"]
  /\ open' = open \ {c}
  /\ UNCHANGED <<broadcast, accepted, clients, hub, writes, peer, got>>
HandlerCloses(c) ==
  /\ Running
  /\ handler[c] = "closing"
  /\ handler' = [handler EXCEPT ![c] = "gone"]
  /\ open' = open \ {c}
  /\ UNCHANGED <<broadcast, accepted, clients, hub, writes, peer, got>>

-----------------------------------------------------------------------------
(* The viewers.                                                            *)

PeerStops(c) ==
  /\ handler[c] # "off" /\ peer[c] = "reads"
  /\ peer' = [peer EXCEPT ![c] = "stuck"]
  /\ UNCHANGED <<broadcast, accepted, clients, hub, handler, writes, open, got>>

PeerLeaves(c) ==
  /\ handler[c] # "off" /\ peer[c] # "left"
  /\ peer' = [peer EXCEPT ![c] = "left"]
  /\ UNCHANGED <<broadcast, accepted, clients, hub, handler, writes, open, got>>

-----------------------------------------------------------------------------
HubLoop ==
  \/ Take \/ RangeDone
  \/ \E c \in Watchers :
       WriteBegins(c) \/ WriteSucceeds(c) \/ WriteFails(c) \/ WritePanics(c)

HandlerStep(c) ==
  \/ WelcomeBegins(c) \/ WelcomeEnds(c) \/ WelcomePanics(c)
  \/ ReadFails(c) \/ HandlerCloses(c)

HubNext ==
  \/ Log
  \/ HubLoop
  \/ \E c \in Watchers :
       \/ Register(c) \/ Unregister(c)
       \/ Upgrade(c) \/ HandlerStep(c)
       \/ PeerStops(c) \/ PeerLeaves(c)

HubSpec == HubInit /\ [][HubNext]_hubVars

\* A write to a viewer that does not read need not return.
Blocked(c) == c \in open /\ peer[c] = "stuck"
HubMoves == HubLoop /\ ~(hub.at = "write" /\ Blocked(hub.to))
HandlerMoves(c) == HandlerStep(c) /\ ~(handler[c] = "greeting" /\ Blocked(c))

\* The goroutines run.  The select picks at random among the ready cases, so
\* a departure is taken in the end; here, where messages are bounded, weak
\* fairness says as much.
HubFairness ==
  /\ WF_hubVars(HubMoves)
  /\ \A c \in Watchers :
       WF_hubVars(Register(c) \/ Unregister(c) \/ HandlerMoves(c))

-----------------------------------------------------------------------------
(* Properties.                                                             *)

(***************************************************************************)
(* What a viewer receives is a piece of the log as the channel accepted    *)
(* it: in order, nothing twice, nothing left out between its first message *)
(* and its last, however often the channel was full (Run: one goroutine    *)
(* writes every message to every client before it takes the next).  Where  *)
(* the greeting has overlapped a write of the hub, messages may be missing *)
(* or come again, but none comes after a later one.                        *)
(***************************************************************************)
FeedInOrder ==
  \A c \in Watchers : \A i \in 1..Len(got[c]) : i > 1 =>
    /\ got[c][i - 1] <= got[c][i]
    /\ c \notin torn => got[c][i] = got[c][i - 1] + 1

(***************************************************************************)
(* The hub is done with a connection before its handler is: once the       *)
(* handler has returned, the map does not hold the connection and no write *)
(* to it is under way or will begin (the unbuffered unregister).           *)
(***************************************************************************)
HubLetsGoFirst ==
  \A c \in Watchers : handler[c] \in {"closing", "gone"} =>
    c \notin clients \cup hub.todo /\ "hub" \notin writer[c]

(***************************************************************************)
(* A viewer that has left is dropped from the map (ReadFails, WriteFails), *)
(* unless a viewer that does not read holds the hub up, the hub has        *)
(* panicked, or the greeting has, after which nobody reads.                *)
(***************************************************************************)
HeldUp(c) ==
  \/ \E d \in Watchers : peer[d] = "stuck"
  \/ hub.at = "dead" \/ handler[c] = "panicked"
LeftViewerDropped ==
  \A c \in Watchers :
    c \in clients /\ peer[c] = "left" ~> c \notin clients \/ HeldUp(c)

=============================================================================
