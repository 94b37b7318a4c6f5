--------------------------- MODULE RecordingProxy ---------------------------
(***************************************************************************)
(* The recording proxy (cmd/recording-proxy/main.go): for every game       *)
(* client that connects it dials the game server, and two goroutines carry *)
(* the messages, one each way.  A message is recorded before it is         *)
(* forwarded.  The goroutine that fails first cancels the context, the     *)
(* handler records the disconnect and closes both connections, and the     *)
(* other goroutine ends when it notices.                                   *)
(*                                                                         *)
(* The recorder is never stopped by the proxy, and one call of it appends  *)
(* under its lock: a call is a step here, SessionRecorder has its inside.  *)
(* A message is its number on its link; the transport neither loses nor    *)
(* reorders.                                                               *)
(***************************************************************************)
EXTENDS Naturals, Sequences

CONSTANTS
  Pairs,    \* proxied connections
  MaxMsgs,  \* bound: messages sent on one link
  Kind      \* Kind[e][n]: what the n-th message that e sends looks like

Kinds == {"frame", "raw", "short"}

Ends == {"client", "server"}

ASSUME ProxyConstants ==
  /\ MaxMsgs \in Nat
  /\ Kind \in [Ends -> [1..MaxMsgs -> Kinds]]

\* A link is named by its pair and the end that sends on it.
Links == Pairs \X Ends
Source(l) == l[2]
Target(l) == IF l[2] = "client" THEN "server" ELSE "client"
KindOf(l, n) == Kind[Source(l)][n]

VARIABLES
  handler,   \* handler[p]: handleWebSocket and startProxy
  ctx,       \* ctx[p]: the context has been cancelled
  loop,      \* loop[l]: the goroutine that reads l
  sent,      \* sent[l]: messages sent on it
  taken,     \* taken[l]: messages read from it; the last is in hand
  forwarded, \* forwarded[l]: history, those whose WriteMessage succeeded
  recorded,  \* recorded[l]: session.Frames, those of l
  logged,    \* logged[p]: session.Events, those of p
  closed,    \* closed[p]: the connections the proxy has closed
  peer       \* peer[p][e]: what the end e does

transfers == <<taken, forwarded>>
recording == <<recorded, logged>>
proxyVars == <<handler, ctx, loop, sent, transfers, recording, closed, peer>>

HandlerStates == {"off", "dial", "proxying", "closing", "closed"}
LoopPoints == {"off", "top", "read", "frame", "event", "note", "write", "ended"}
EventTypes == {"CONNECT", "SEND", "RECEIVE", "DISCONNECT"}

\* Which message an event is about; number 0 if it is about none.
Event == [type : EventTypes, from : Ends, n : 0..MaxMsgs]

\* Type correctness: every variable keeps its shape.
ProxyTypeOK ==
  /\ handler \in [Pairs -> HandlerStates]
  /\ ctx \in [Pairs -> BOOLEAN]
  /\ loop \in [Links -> LoopPoints]
  /\ sent \in [Links -> 0..MaxMsgs]
  /\ taken \in [Links -> 0..MaxMsgs]
  /\ forwarded \in [Links -> Seq(1..MaxMsgs)]
  /\ recorded \in [Links -> Seq(1..MaxMsgs)]
  /\ logged \in [Pairs -> Seq(Event)]
  /\ closed \in [Pairs -> SUBSET Ends]
  /\ peer \in [Pairs -> [Ends -> {"reads", "stuck", "left"}]]

ProxyInit ==
  /\ handler = [p \in Pairs |-> "off"]
  /\ ctx = [p \in Pairs |-> FALSE]
  /\ loop = [l \in Links |-> "off"]
  /\ sent = [l \in Links |-> 0]
  /\ taken = [l \in Links |-> 0]
  /\ forwarded = [l \in Links |-> <<>>]
  /\ recorded = [l \in Links |-> <<>>]
  /\ logged = [p \in Pairs |-> <<>>]
  /\ closed = [p \in Pairs |-> {}]
  /\ peer = [p \in Pairs |-> [e \in Ends |-> "reads"]]

RecordEvent(p, type, from, n) ==
  logged' = [logged EXCEPT ![p] = Append(@, [type |-> type, from |-> from, n |-> n])]

-----------------------------------------------------------------------------
(* handleWebSocket, startProxy.                                            *)

Upgrade(p) ==
  /\ handler[p] = "off"
  /\ handler' = [handler EXCEPT ![p] = "dial"]
  /\ UNCHANGED <<ctx, loop, sent, transfers, recording, closed, peer>>

\* The server does not answer: the client's connection is closed again.
DialFails(p) ==
  /\ handler[p] = "dial"
  /\ handler' = [handler EXCEPT ![p] = "closed"]
  /\ closed' = [closed EXCEPT ![p] = @ \cup {"client"}]
  /\ UNCHANGED <<ctx, loop, sent, transfers, recording, peer>>

StartProxy(p) ==
  /\ handler[p] = "dial"
  /\ handler' = [handler EXCEPT ![p] = "proxying"]
  /\ RecordEvent(p, "CONNECT", "client", 0)
  /\ loop' = [l \in Links |-> IF l[1] = p THEN "top" ELSE loop[l]]
  /\ UNCHANGED <<ctx, sent, transfers, recorded, closed, peer>>

\* <-ctx.Done().  Slip: it waits for both goroutines.
DisconnectSlip(p) ==
  /\ handler[p] = "proxying"
  /\ \A e \in Ends : loop[<<p, e>>] = "ended"
  /\ handler' = [handler EXCEPT ![p] = "closing"]
  /\ RecordEvent(p, "DISCONNECT", "client", 0)
  /\ UNCHANGED <<ctx, loop, sent, transfers, recorded, closed, peer>>
Disconnect(p) ==
  /\ handler[p] = "proxying"
  /\ ctx[p]
  /\ handler' = [handler EXCEPT ![p] = "closing"]
  /\ RecordEvent(p, "DISCONNECT", "client", 0)
  /\ UNCHANGED <<ctx, loop, sent, transfers, recorded, closed, peer>>

\* The deferred calls: the server's connection, then the client's.
CloseServer(p) ==
  /\ handler[p] = "closing" /\ "server" \notin closed[p]
  /\ closed' = [closed EXCEPT ![p] = @ \cup {"server"}]
  /\ UNCHANGED <<handler, ctx, loop, sent, transfers, recording, peer>>

CloseClient(p) ==
  /\ handler[p] = "closing" /\ "server" \in closed[p]
  /\ closed' = [closed EXCEPT ![p] = @ \cup {"client"}]
  /\ handler' = [handler EXCEPT ![p] = "closed"]
  /\ UNCHANGED <<ctx, loop, sent, transfers, recording, peer>>

-----------------------------------------------------------------------------
(* proxyClientToServer, proxyServerToClient, recordMessage.                *)

Proceed(l, from, to) == loop[l] = from /\ loop' = [loop EXCEPT ![l] = to]

\* The goroutine returns; its deferred cancel.
Return(l, from) == Proceed(l, from, "ended") /\ ctx' = [ctx EXCEPT ![l[1]] = TRUE]

\* The select.  Slip: the context is not looked at.
TopSlip(l) ==
  /\ Proceed(l, "top", "read")
  /\ UNCHANGED <<handler, ctx, sent, transfers, recording, closed, peer>>
Top(l) ==
  /\ IF ctx[l[1]] THEN Return(l, "top") ELSE Proceed(l, "top", "read") /\ UNCHANGED ctx
  /\ UNCHANGED <<handler, sent, transfers, recording, closed, peer>>

\* It may have been buffered before the end hung up or the proxy closed.  A
\* message of fewer than two bytes is not recorded.
ReadMessage(l) ==
  /\ taken[l] < sent[l]
  /\ taken' = [taken EXCEPT ![l] = @ + 1]
  /\ Proceed(l, "read", IF KindOf(l, taken[l] + 1) = "short" THEN "write" ELSE "frame")
  /\ UNCHANGED <<handler, ctx, sent, forwarded, recording, closed, peer>>

ReadFails(l) ==
  /\ Source(l) \in closed[l[1]] \/ peer[l[1]][Source(l)] = "left"
  /\ Return(l, "read")
  /\ UNCHANGED <<handler, sent, transfers, recording, closed, peer>>

\* RecordMessage: the frame ...  Slip: what is not a protocol frame is not
\* recorded.
RecordFrameSlip(l) ==
  /\ Proceed(l, "frame", "event")
  /\ recorded' = IF KindOf(l, taken[l]) = "raw" THEN recorded
               ELSE [recorded EXCEPT ![l] = Append(@, taken[l])]
  /\ UNCHANGED <<handler, ctx, sent, transfers, logged, closed, peer>>
RecordFrame(l) ==
  /\ Proceed(l, "frame", "event")
  /\ recorded' = [recorded EXCEPT ![l] = Append(@, taken[l])]
  /\ UNCHANGED <<handler, ctx, sent, transfers, logged, closed, peer>>

\* ... and an event, a send for either direction: neither of the proxy's
\* names for them is the "receive" that RecordMessage looks for.
RecordSend(l) ==
  /\ Proceed(l, "event", IF KindOf(l, taken[l]) = "frame" THEN "note" ELSE "write")
  /\ RecordEvent(l[1], "SEND", Source(l), taken[l])
  /\ UNCHANGED <<handler, ctx, sent, transfers, recorded, closed, peer>>

\* For a protocol frame the proxy records an event of its own.
NoteEvent(l) ==
  /\ Proceed(l, "note", "write")
  /\ RecordEvent(l[1], IF Source(l) = "client" THEN "SEND" ELSE "RECEIVE",
                 Source(l), taken[l])
  /\ UNCHANGED <<handler, ctx, sent, transfers, recorded, closed, peer>>

WriteMessage(l) ==
  /\ Target(l) \notin closed[l[1]]
  /\ peer[l[1]][Target(l)] # "stuck"
  /\ Proceed(l, "write", "top")
  /\ forwarded' = [forwarded EXCEPT ![l] = Append(@, taken[l])]
  /\ UNCHANGED <<handler, ctx, sent, taken, recording, closed, peer>>

WriteFails(l) ==
  /\ Target(l) \in closed[l[1]] \/ peer[l[1]][Target(l)] = "left"
  /\ Return(l, "write")
  /\ UNCHANGED <<handler, sent, transfers, recording, closed, peer>>

-----------------------------------------------------------------------------
(* The client and the server at the ends.                                  *)

Connected(p, e) == handler[p] # "off" /\ (e = "client" \/ handler[p] # "dial")

Send(l) ==
  /\ Connected(l[1], Source(l)) /\ peer[l[1]][Source(l)] # "left"
  /\ sent[l] < MaxMsgs
  /\ sent' = [sent EXCEPT ![l] = @ + 1]
  /\ UNCHANGED <<handler, ctx, loop, transfers, recording, closed, peer>>

\* It stops reading, or hangs up.
Turn(p, e, what) ==
  /\ Connected(p, e) /\ peer[p][e] # "left"
  /\ peer[p][e] # what
  /\ peer' = [peer EXCEPT ![p][e] = what]
  /\ UNCHANGED <<handler, ctx, loop, sent, transfers, recording, closed>>

-----------------------------------------------------------------------------
Handle(p) == StartProxy(p) \/ DialFails(p) \/ Disconnect(p) \/ CloseServer(p) \/ CloseClient(p)

Carry(l) ==
  \/ Top(l) \/ ReadMessage(l) \/ ReadFails(l)
  \/ RecordFrame(l) \/ RecordSend(l) \/ NoteEvent(l)
  \/ WriteMessage(l) \/ WriteFails(l)

ProxyNext ==
  \/ \E p \in Pairs : Upgrade(p) \/ Handle(p)
  \/ \E l \in Links : Carry(l) \/ Send(l)
  \/ \E p \in Pairs, e \in Ends : Turn(p, e, "stuck") \/ Turn(p, e, "left")

ProxySpec == ProxyInit /\ [][ProxyNext]_proxyVars

\* Goroutines run; clients and servers need do nothing.
ProxyFairness ==
  /\ \A p \in Pairs : WF_proxyVars(Handle(p))
  /\ \A l \in Links : WF_proxyVars(Carry(l))

-----------------------------------------------------------------------------
(* Properties.                                                             *)

InOrder(s) == \A i, j \in 1..Len(s) : i < j => s[i] < s[j]
Holds(s, n) == \E i \in 1..Len(s) : s[i] = n

(***************************************************************************)
(* The recording is never behind the traffic and at most one message of a  *)
(* link ahead of it: what was forwarded is recorded, except what is too    *)
(* short; what is recorded was forwarded, except the message in hand,      *)
(* which a failed write leaves behind; both in the order sent              *)
(* (recordMessage before WriteMessage).                                    *)
(***************************************************************************)
RecordingFollows ==
  \A l \in Links :
    /\ InOrder(recorded[l]) /\ InOrder(forwarded[l])
    /\ \A i \in 1..Len(forwarded[l]) :
         KindOf(l, forwarded[l][i]) # "short" => Holds(recorded[l], forwarded[l][i])
    /\ \A i \in 1..Len(recorded[l]) :
         recorded[l][i] # taken[l] => Holds(forwarded[l], recorded[l][i])

\* The places in the log of p at which an event of a message follows the
\* disconnect.
Late(p) ==
  {i \in 1..Len(logged[p]) :
     /\ logged[p][i].n # 0
     /\ \E k \in 1..(i - 1) : logged[p][k].type = "DISCONNECT"}

(***************************************************************************)
(* The disconnect ends the recording of a pair but for one message: the    *)
(* goroutine that did not fail may have passed its look at the context,    *)
(* and records what it reads then; no other event follows (the select of   *)
(* both loops, and cancel being deferred in both).                         *)
(***************************************************************************)
OneMessageLate ==
  \A p \in Pairs : \A i, j \in Late(p) :
    /\ logged[p][i].from = logged[p][j].from
    /\ logged[p][i].n = logged[p][j].n

(***************************************************************************)
(* When one end hangs up, the handler returns, with both connections       *)
(* closed, and both goroutines end, unless an end that does not read holds *)
(* a write up (startProxy: the first goroutine to return cancels, and the  *)
(* deferred Close frees the other's read).                                 *)
(***************************************************************************)
Released(p) ==
  handler[p] = "closed" /\ \A e \in Ends : loop[<<p, e>>] \in {"off", "ended"}
HangUpReleasesPair ==
  \A p \in Pairs :
    (\E e \in Ends : peer[p][e] = "left")
      ~> Released(p) \/ \E e \in Ends : peer[p][e] = "stuck"

=============================================================================
