-------------------------- MODULE WsClientProofs ---------------------------
(* Theorems about WsClient, for every number of callers, connections,      *)
(* loops, pushes and faults.                                               *)
EXTENDS WsClient, TLAPS

USE WsClientAssumption DEF WsClientAssumption

LEMMA ThreadKinds ==
  /\ Callers \subseteq Threads /\ Readers \subseteq Threads
  /\ Beats \subseteq Threads /\ Recons \subseteq Threads
  /\ Connectors \subseteq Threads /\ Loops \subseteq Threads
  /\ Readers \cap Beats = {} /\ Readers \cap Recons = {} /\ Beats \cap Recons = {}
  /\ Callers \cap Readers = {} /\ Callers \cap Beats = {} /\ Callers \cap Recons = {}
BY DEF Threads, Loops, Readers, Beats, Recons, Connectors

LEMMA InitTypeOK == Init => TypeOK
<1> SUFFICES ASSUME Init PROVE TypeOK
  OBVIOUS
<1>1. sock \in [Conns -> Socket]
  BY DEF Init, Fresh, Socket, Message
<1>2. pc \in [Threads -> PcValues]
  BY DEF Init, PcValues
<1>3. /\ state \in ClientState /\ conn \in Conns \cup {NoConn}
      /\ stopClosed \in BOOLEAN /\ token \in BOOLEAN /\ panicked \in BOOLEAN
  BY DEF Init, ClientState
<1>4. /\ reconnectCount \in 0..(MaxReconnectTries + 1) /\ gen \in 0..MaxGen
      /\ lastSeq \in 0..MaxSeq /\ seqGen \in 0..MaxSeq /\ issued \in 0..MaxSeq
      /\ faults \in 0..MaxFaults
  BY DEF Init
<1>5. /\ held \in [Threads -> Conns \cup {NoConn}] /\ msg \in [Readers -> 0..MaxSeq]
      /\ after \in [Beats -> {"loop", "ping"}] /\ delivered \in Seq(0..MaxSeq)
  BY DEF Init
<1> QED
  BY <1>1, <1>2, <1>3, <1>4, <1>5 DEF TypeOK
LEMMA Inboxes ==
  ASSUME NEW q \in Seq(Message)
  PROVE  /\ \A m \in Message : Append(q, m) \in Seq(Message) /\ q \o <<m>> \in Seq(Message)
         /\ q \o <<>> \in Seq(Message)
         /\ q # <<>> => Tail(q) \in Seq(Message) /\ Head(q) \in Message
OBVIOUS

LEMMA Messages ==
  /\ [op |-> "LoginOk", seq |-> 0] \in Message
  /\ [op |-> "LoginDenied", seq |-> 0] \in Message
  /\ \A n \in 0..MaxSeq : [op |-> "Push", seq |-> n] \in Message
BY DEF Message

LEMMA Sockets ==
  ASSUME NEW s \in Socket
  PROVE  /\ \A l \in {"none", "up", "expired", "cut", "closed"} : [s EXCEPT !.link = l] \in Socket
         /\ \A l \in {"none", "up", "expired", "cut", "closed"} :
              [s EXCEPT !.link = l, !.armed = FALSE] \in Socket
         /\ \A l \in {"none", "up", "expired", "cut", "closed"}, q \in Seq(Message) :
              [s EXCEPT !.link = l, !.inbox = q] \in Socket
         /\ [s EXCEPT !.armed = TRUE] \in Socket
         /\ \A p \in {"new", "asked", "auth", "in"} : [s EXCEPT !.peer = p] \in Socket
         /\ \A p \in {"new", "asked", "auth", "in"}, q \in Seq(Message) :
              [s EXCEPT !.peer = p, !.inbox = q] \in Socket
         /\ \A n \in 0..MaxSeq, q \in Seq(Message) : [s EXCEPT !.told = n, !.inbox = q] \in Socket
         /\ \A q \in Seq(Message) : [s EXCEPT !.inbox = q] \in Socket
         /\ s.inbox \in Seq(Message)
BY DEF Socket

LEMMA FreshSockets ==
  /\ Fresh \in Socket
  /\ \A l \in {"none", "up", "expired", "cut", "closed"} : [Fresh EXCEPT !.link = l] \in Socket
<1>1. <<>> \in Seq(Message)
  OBVIOUS
<1>2. Fresh \in Socket
  BY <1>1 DEF Fresh, Socket
<1> QED
  BY <1>2, Sockets

LEMMA NextTypeOK == TypeOK /\ [Next]_vars => TypeOK'
<1> SUFFICES ASSUME TypeOK, [Next]_vars PROVE TypeOK'
  OBVIOUS
<1> USE ThreadKinds DEF TypeOK, ClientState, PcValues, Move, client, locals, world
<1>1. ASSUME NEW t \in Callers, ConnectCall(t) PROVE TypeOK'
  BY <1>1 DEF ConnectCall, MayConnect
<1>2. ASSUME NEW t \in Callers, CloseCall(t) PROVE TypeOK'
  BY <1>2 DEF CloseCall, CompareAndClose
<1>3. ASSUME NEW t \in Connectors, Dial(t) PROVE TypeOK'
  <2>1. sock' \in [Conns -> Socket]
    BY <1>3, FreshSockets DEF Dial
  <2> QED
    BY <1>3, <2>1 DEF Dial, Unreferenced
<1>4. ASSUME NEW t \in Connectors, DialFails(t) PROVE TypeOK'
  BY <1>4 DEF DialFails, AfterFailure, Fault
<1>5. ASSUME NEW t \in Connectors, SendLogin(t) PROVE TypeOK'
  <2>1. conn \in Conns /\ sock[conn] \in Socket
    BY <1>5 DEF SendLogin, LinkOf
  <2>2. (IF sock[conn].peer = "new" THEN "asked" ELSE sock[conn].peer)
          \in {"new", "asked", "auth", "in"}
    BY <2>1 DEF Socket
  <2>3. sock' \in [Conns -> Socket]
    BY <1>5, <2>1, <2>2, Sockets DEF SendLogin
  <2> QED
    BY <1>5, <2>3 DEF SendLogin
<1>6. ASSUME NEW t \in Connectors, SendLoginFails(t) PROVE TypeOK'
  BY <1>6 DEF SendLoginFails, AfterFailure
<1>7. ASSUME NEW t \in Connectors, ReadLoginResp(t) PROVE TypeOK'
  <2>1. held[t] \in Conns /\ sock[held[t]] \in Socket
    BY <1>7 DEF ReadLoginResp, Receive, LinkOf
  <2>2. Tail(sock[held[t]].inbox) \in Seq(Message)
    BY <1>7, <2>1, Sockets, Inboxes DEF ReadLoginResp, Receive
  <2>3. sock' \in [Conns -> Socket]
    BY <1>7, <2>1, <2>2, Sockets DEF ReadLoginResp, Receive
  <2> QED
    BY <1>7, <2>3, SMTT(30) DEF ReadLoginResp, Receive, AfterFailure
<1>8. ASSUME NEW t \in Connectors, Established(t) PROVE TypeOK'
  BY <1>8 DEF Established
<1>9. ASSUME NEW t \in Connectors, Failed(t) PROVE TypeOK'
  BY <1>9 DEF Failed
<1>10. ASSUME NEW t \in Threads, Capture(t) PROVE TypeOK'
  <2>1. sock' \in [Conns -> Socket]
    BY <1>10, Sockets DEF Capture
  <2> QED
    BY <1>10, <2>1 DEF Capture
<1>11. ASSUME NEW t \in Threads, CaptureFails(t) PROVE TypeOK'
  BY <1>11 DEF CaptureFails, AfterReadError, AfterFailure
<1>12. ASSUME NEW t \in Threads, ReadFails(t) PROVE TypeOK'
  BY <1>12 DEF ReadFails, AfterReadError, AfterFailure
<1>13. ASSUME NEW t \in Callers, Spawn(t) PROVE TypeOK'
  BY <1>13 DEF Spawn, Started
<1>14. ASSUME NEW t \in Callers, CloseCas2(t) PROVE TypeOK'
  BY <1>14 DEF CloseCas2, CompareAndClose
<1>15. ASSUME NEW t \in Callers, CloseCas3(t) PROVE TypeOK'
  BY <1>15 DEF CloseCas3, CompareAndClose
<1>16. ASSUME NEW t \in Callers, CloseStop(t) PROVE TypeOK'
  BY <1>16 DEF CloseStop
<1>17. ASSUME NEW t \in Callers, CloseDetach(t) PROVE TypeOK'
  <2>1. sock' \in [Conns -> Socket]
    BY <1>17, FreshSockets DEF CloseDetach, Detached
  <2> QED
    BY <1>17, <2>1 DEF CloseDetach, Detached
<1>18. ASSUME NEW t \in Readers, ReadNext(t) PROVE TypeOK'
  BY <1>18 DEF ReadNext
<1>19. ASSUME NEW t \in Readers, ReadPush(t) PROVE TypeOK'
  <2>1. held[t] \in Conns /\ sock[held[t]] \in Socket
    BY <1>19 DEF ReadPush, Receive, LinkOf
  <2>2. /\ Tail(sock[held[t]].inbox) \in Seq(Message)
        /\ Head(sock[held[t]].inbox) \in Message
    BY <1>19, <2>1, Sockets, Inboxes DEF ReadPush, Receive
  <2>3. sock' \in [Conns -> Socket]
    BY <1>19, <2>1, <2>2, Sockets DEF ReadPush, Receive
  <2>4. msg' \in [Readers -> 0..MaxSeq]
    BY <1>19, <2>2 DEF ReadPush, Message
  <2> QED
    BY <1>19, <2>3, <2>4 DEF ReadPush, Receive
<1>20. ASSUME NEW t \in Readers, Dedup(t) PROVE TypeOK'
  BY <1>20 DEF Dedup, Stale
<1>21. ASSUME NEW t \in Readers, StoreSeq(t) PROVE TypeOK'
  BY <1>21 DEF StoreSeq
<1>22. ASSUME NEW t \in Readers, OnPush(t) PROVE TypeOK'
  BY <1>22 DEF OnPush
<1>23. ASSUME NEW t \in (Readers \cup Beats), TriggerLoad(t) PROVE TypeOK'
  BY <1>23 DEF TriggerLoad, AfterTrigger
<1>24. ASSUME NEW t \in (Readers \cup Beats), TriggerMark(t) PROVE TypeOK'
  BY <1>24 DEF TriggerMark
<1>25. ASSUME NEW t \in (Readers \cup Beats), TriggerSignal(t) PROVE TypeOK'
  BY <1>25 DEF TriggerSignal, AfterTrigger
<1>26. ASSUME NEW t \in Beats, Tick(t) PROVE TypeOK'
  BY <1>26 DEF Tick
<1>27. ASSUME NEW t \in Beats, BeatCapture(t) PROVE TypeOK'
  BY <1>27 DEF BeatCapture
<1>28. ASSUME NEW t \in Beats, BeatWrite(t) PROVE TypeOK'
  <2>1. sock' \in [Conns -> Socket]
    BY <1>28, Sockets DEF BeatWrite, LinkOf
  <2> QED
    BY <1>28, <2>1 DEF BeatWrite
<1>29. ASSUME NEW t \in Beats, BeatFails(t) PROVE TypeOK'
  BY <1>29 DEF BeatFails
<1>30. ASSUME NEW t \in Beats, PingInTime(t) PROVE TypeOK'
  BY <1>30 DEF PingInTime
<1>31. ASSUME NEW t \in Beats, PingTimeout(t) PROVE TypeOK'
  BY <1>31 DEF PingTimeout, Fault
<1>32. ASSUME NEW t \in Recons, TakeToken(t) PROVE TypeOK'
  <2>1. reconnectCount' \in 0..(MaxReconnectTries + 1)
    BY <1>32 DEF TakeToken
  <2>2. pc' \in [Threads -> PcValues]
    BY <1>32 DEF TakeToken
  <2> QED
    BY <1>32, <2>1, <2>2 DEF TakeToken
<1>33. ASSUME NEW t \in Recons, DropOld(t) PROVE TypeOK'
  <2>1. sock' \in [Conns -> Socket]
    BY <1>33, FreshSockets DEF DropOld, Detached
  <2> QED
    BY <1>33, <2>1 DEF DropOld, Detached
<1>34. ASSUME NEW t \in Recons, ResetCount(t) PROVE TypeOK'
  BY <1>34 DEF ResetCount
<1>35. ASSUME NEW t \in Loops, Stop(t) PROVE TypeOK'
  BY <1>35 DEF Stop
<1>36. ASSUME NEW c \in Conns, PeerAuth(c) PROVE TypeOK'
  <2>1. sock[c].inbox \o <<>> \in Seq(Message)
    BY Sockets, Inboxes
  <2>2. sock' \in [Conns -> Socket]
    BY <1>36, <2>1, Sockets DEF PeerAuth, PeerStep
  <2> QED
    BY <1>36, <2>2 DEF PeerAuth, PeerStep
<1>37. ASSUME NEW c \in Conns, PeerAnswer(c) PROVE TypeOK'
  <2>1. sock' \in [Conns -> Socket]
    BY <1>37, Sockets, Inboxes, Messages DEF PeerAnswer, PeerStep
  <2> QED
    BY <1>37, <2>1 DEF PeerAnswer, PeerStep
<1>38. ASSUME NEW c \in Conns, PeerDeny(c) PROVE TypeOK'
  <2>1. sock' \in [Conns -> Socket]
    BY <1>38, Sockets, Inboxes, Messages DEF PeerDeny
  <2> QED
    BY <1>38, <2>1 DEF PeerDeny, Fault
<1>39. ASSUME NEW c \in Conns, Cut(c) PROVE TypeOK'
  <2>1. sock' \in [Conns -> Socket]
    BY <1>39, Sockets DEF Cut, LinkBreaks
  <2> QED
    BY <1>39, <2>1 DEF Cut, Fault, LinkBreaks
<1>40. ASSUME NEW c \in Conns, SlowLogin(c) PROVE TypeOK'
  <2>1. sock' \in [Conns -> Socket]
    BY <1>40, Sockets DEF SlowLogin, LinkBreaks
  <2> QED
    BY <1>40, <2>1 DEF SlowLogin, Fault, LinkBreaks
<1>41. ASSUME NEW c \in Conns, DeadlinePasses(c) PROVE TypeOK'
  <2>1. sock' \in [Conns -> Socket]
    BY <1>41, Sockets DEF DeadlinePasses, LinkBreaks
  <2> QED
    BY <1>41, <2>1 DEF DeadlinePasses, LinkBreaks
<1>42. ASSUME NEW c \in Conns, PeerPush(c) PROVE TypeOK'
  <2>1. /\ sock[c] \in Socket
        /\ Append(sock[c].inbox, [op |-> "Push", seq |-> seqGen]) \in Seq(Message)
    BY Sockets, Inboxes, Messages
  <2>2. sock' \in [Conns -> Socket]
    BY <1>42, <2>1, Sockets DEF PeerPush
  <2> QED
    BY <1>42, <2>2 DEF PeerPush
<1>43. CASE PeerRestart
  <2>1. sock' \in [Conns -> Socket]
    BY <1>43, Sockets DEF PeerRestart
  <2> QED
    BY <1>43, <2>1 DEF PeerRestart, Fault
<1>44. CASE PeerDraw
  BY <1>44 DEF PeerDraw
<1>45. CASE UNCHANGED vars
  BY <1>45 DEF vars
<1> HIDE ThreadKinds DEF TypeOK, ClientState, PcValues, Move, client, locals, world
<1> QED
  BY ThreadKinds, <1>1, <1>2, <1>3, <1>4, <1>5, <1>6, <1>7, <1>8, <1>9, <1>10, <1>11,
     <1>12, <1>13, <1>14, <1>15, <1>16, <1>17, <1>18, <1>19, <1>20, <1>21, <1>22, <1>23,
     <1>24, <1>25, <1>26, <1>27, <1>28, <1>29, <1>30, <1>31, <1>32, <1>33, <1>34, <1>35,
     <1>36, <1>37, <1>38, <1>39, <1>40, <1>41, <1>42, <1>43, <1>44, <1>45
     DEF Next, CallerStep, ReaderStep, BeatStep, ReconStep, NetStep, ConnectStep, ReadStep,
         TriggerStep, PeerReplies, Connectors

(***************************************************************************)
(* Every variable keeps its shape: in particular the reconnect count never *)
(* passes one more than the limit, and connections, goroutine positions    *)
(* and sequence numbers stay in their domains, for every interleaving of   *)
(* any number of callers, loops and connections.                           *)
(***************************************************************************)
THEOREM TypeCorrect == Spec => []TypeOK
<1>1. Init => TypeOK
  BY InitTypeOK
<1>2. TypeOK /\ [Next]_vars => TypeOK'
  BY NextTypeOK
<1> QED
  BY <1>1, <1>2, PTL DEF Spec

-----------------------------------------------------------------------------
Kinds == {"read", "beat", "recon"}

\* Loops not started yet are off; until stopChan is closed the three of one Connect live together.
LoopsWhole ==
  /\ \A g \in Gens : g > gen => \A k \in Kinds : pc[<<k, g>>] = "off"
  /\ ~stopClosed => \A g \in Gens : \/ \A k \in Kinds : pc[<<k, g>>] = "off"
                                   \/ \A k \in Kinds : pc[<<k, g>>] \notin {"off", "done"}

\* What no step disturbs: the two properties and the shape they rest on.
ServedInv == LoopsWhole /\ ReconnectNeverAbandoned /\ ConnectedIsServed

LEMMA LoopKinds ==
  /\ \A g \in Gens : <<"read", g>> \in Readers /\ <<"beat", g>> \in Beats /\ <<"recon", g>> \in Recons
  /\ \A t \in Readers : \E g \in Gens : t = <<"read", g>>
  /\ \A t \in Beats : \E g \in Gens : t = <<"beat", g>>
  /\ \A t \in Recons : \E g \in Gens : t = <<"recon", g>>
  /\ \A t \in Loops : \E k \in Kinds, g \in Gens : t = <<k, g>>
  /\ \A k \in Kinds, g \in Gens : <<k, g>> \in Loops
BY DEF Readers, Beats, Recons, Loops, Kinds

\* A loop or caller that moves on, neither started nor stopped, leaves the loops whole.
LEMMA MoveKeepsLoops ==
  ASSUME TypeOK, ServedInv, NEW t \in Threads, NEW to,
         pc[t] \notin {"off", "done", "spawn"}, to \notin {"off", "done"},
         pc' = [pc EXCEPT ![t] = to], stopClosed' = stopClosed, gen' = gen
  PROVE  /\ LoopsWhole'
         /\ state' \in {state, "Disconnected", "Connecting", "Reconnecting", "Closed"}
              => ConnectedIsServed'
<1> USE DEF TypeOK, ServedInv
<1>1. LoopsWhole'
  BY LoopKinds, ThreadKinds DEF LoopsWhole
<1>2. ASSUME state' \in {state, "Disconnected", "Connecting", "Reconnecting", "Closed"}
      PROVE  ConnectedIsServed'
  BY <1>1, <1>2, ThreadKinds, LoopKinds DEF ConnectedIsServed, Kinds
<1> QED
  BY <1>1, <1>2

LEMMA NextServed == TypeOK /\ ServedInv /\ [Next]_vars => ServedInv'
<1> SUFFICES ASSUME TypeOK, ServedInv, [Next]_vars PROVE ServedInv'
  OBVIOUS
<1> USE ThreadKinds, LoopKinds DEF TypeOK, ServedInv, Move, client, locals, world
<1>1. ASSUME NEW t \in Callers, ConnectCall(t) PROVE ServedInv'
  <2>1. LoopsWhole' /\ ConnectedIsServed'
    BY <1>1, MoveKeepsLoops DEF ConnectCall, MayConnect
  <2>2. ReconnectNeverAbandoned'
    BY <1>1 DEF ConnectCall, MayConnect, ReconnectNeverAbandoned, Rebuilding
  <2> QED
    BY <2>1, <2>2
<1>2. ASSUME NEW t \in Callers, CloseCall(t) PROVE ServedInv'
  <2>1. LoopsWhole' /\ ConnectedIsServed'
    BY <1>2, MoveKeepsLoops DEF CloseCall, CompareAndClose
  <2>2. ReconnectNeverAbandoned'
    BY <1>2 DEF CloseCall, CompareAndClose, ReconnectNeverAbandoned, Rebuilding
  <2> QED
    BY <2>1, <2>2
<1>3. ASSUME NEW t \in Connectors, Dial(t) PROVE ServedInv'
  <2>1. LoopsWhole' /\ ConnectedIsServed'
    BY <1>3, MoveKeepsLoops DEF Dial, Unreferenced
  <2>2. ReconnectNeverAbandoned'
    BY <1>3 DEF Dial, Unreferenced, ReconnectNeverAbandoned, Rebuilding
  <2> QED
    BY <2>1, <2>2
<1>4. ASSUME NEW t \in Connectors, DialFails(t) PROVE ServedInv'
  <2>1. LoopsWhole' /\ ConnectedIsServed'
    BY <1>4, MoveKeepsLoops DEF DialFails, AfterFailure, Fault
  <2>2. ReconnectNeverAbandoned'
    BY <1>4 DEF DialFails, AfterFailure, Fault, ReconnectNeverAbandoned, Rebuilding
  <2> QED
    BY <2>1, <2>2
<1>5. ASSUME NEW t \in Connectors, SendLogin(t) PROVE ServedInv'
  <2>1. LoopsWhole' /\ ConnectedIsServed'
    BY <1>5, MoveKeepsLoops DEF SendLogin, LinkOf
  <2>2. ReconnectNeverAbandoned'
    BY <1>5 DEF SendLogin, LinkOf, ReconnectNeverAbandoned, Rebuilding
  <2> QED
    BY <2>1, <2>2
<1>6. ASSUME NEW t \in Connectors, SendLoginFails(t) PROVE ServedInv'
  <2>1. LoopsWhole' /\ ConnectedIsServed'
    BY <1>6, MoveKeepsLoops DEF SendLoginFails, AfterFailure
  <2>2. ReconnectNeverAbandoned'
    BY <1>6 DEF SendLoginFails, AfterFailure, ReconnectNeverAbandoned, Rebuilding
  <2> QED
    BY <2>1, <2>2
<1>7. ASSUME NEW t \in Connectors, ReadLoginResp(t) PROVE ServedInv'
  <2>1. PICK to \in {"connected", "dial", "failed"} : Move(t, "recv", to)
    BY <1>7 DEF ReadLoginResp, AfterFailure
  <2>2. UNCHANGED client
    BY <1>7 DEF ReadLoginResp
  <2>3. LoopsWhole' /\ ConnectedIsServed'
    BY <2>1, <2>2, MoveKeepsLoops
  <2>4. ReconnectNeverAbandoned'
    BY <2>1, <2>2 DEF ReconnectNeverAbandoned, Rebuilding
  <2> QED
    BY <2>3, <2>4
<1>8. ASSUME NEW t \in Connectors, Established(t) PROVE ServedInv'
  <2>1. LoopsWhole'
    BY <1>8, SMTT(30) DEF Established, LoopsWhole, Kinds
  <2>2. ReconnectNeverAbandoned'
    BY <1>8 DEF Established, ReconnectNeverAbandoned
  <2>3. ConnectedIsServed'
    <3>1. CASE t \in Callers
      BY <1>8, <3>1 DEF Established, ConnectedIsServed
    <3>2. CASE t \notin Callers
      <4>1. PICK g \in Gens : t = <<"recon", g>>
        BY <3>2 DEF Connectors
      <4>2. pc'[<<"recon", g>>] = "reset"
        BY <1>8, <3>2, <4>1 DEF Established
      <4>3. ~stopClosed' => \A k \in Kinds : pc'[<<k, g>>] \notin {"off", "done"}
        BY <2>1, <4>2 DEF LoopsWhole, Kinds
      <4> QED
        BY <4>3 DEF ConnectedIsServed, Kinds
    <3> QED
      BY <3>1, <3>2
  <2> QED
    BY <2>1, <2>2, <2>3
<1>9. ASSUME NEW t \in Connectors, Failed(t) PROVE ServedInv'
  <2>1. LoopsWhole' /\ ConnectedIsServed'
    BY <1>9, MoveKeepsLoops DEF Failed
  <2>2. ReconnectNeverAbandoned'
    BY <1>9 DEF Failed, ReconnectNeverAbandoned, Rebuilding
  <2> QED
    BY <2>1, <2>2
<1>10. ASSUME NEW t \in Threads, Capture(t) PROVE ServedInv'
  <2>1. LoopsWhole' /\ ConnectedIsServed'
    BY <1>10, MoveKeepsLoops DEF Capture
  <2>2. ReconnectNeverAbandoned'
    BY <1>10 DEF Capture, ReconnectNeverAbandoned, Rebuilding
  <2> QED
    BY <2>1, <2>2
<1>11. ASSUME NEW t \in Threads, CaptureFails(t) PROVE ServedInv'
  <2>1. LoopsWhole' /\ ConnectedIsServed'
    BY <1>11, MoveKeepsLoops DEF CaptureFails, AfterReadError, AfterFailure
  <2>2. ReconnectNeverAbandoned'
    BY <1>11 DEF CaptureFails, AfterReadError, AfterFailure, ReconnectNeverAbandoned, Rebuilding
  <2> QED
    BY <2>1, <2>2
<1>12. ASSUME NEW t \in Threads, ReadFails(t) PROVE ServedInv'
  <2>1. LoopsWhole' /\ ConnectedIsServed'
    BY <1>12, MoveKeepsLoops DEF ReadFails, AfterReadError, AfterFailure
  <2>2. ReconnectNeverAbandoned'
    BY <1>12 DEF ReadFails, AfterReadError, AfterFailure, ReconnectNeverAbandoned, Rebuilding
  <2> QED
    BY <2>1, <2>2
<1>13. ASSUME NEW t \in Callers, Spawn(t) PROVE ServedInv'
  <2>1. gen \in Nat /\ gen + 1 \in Gens
    BY <1>13 DEF Spawn, Started, Gens
  <2>2. \A k \in Kinds : pc[<<k, gen + 1>>] = "off" /\ pc'[<<k, gen + 1>>] = "loop"
    <3>1. gen + 1 > gen
      BY <2>1
    <3>2. \A k \in Kinds : pc[<<k, gen + 1>>] = "off"
      BY <2>1, <3>1 DEF LoopsWhole
    <3>3. \A k \in Kinds : pc'[<<k, gen + 1>>] = "loop"
      BY <1>13, <2>1 DEF Spawn, Started, Kinds
    <3> QED
      BY <3>2, <3>3
  <2>3. \A u \in Threads : u # t /\ u \notin Kinds \X {gen + 1} => pc'[u] = pc[u]
    BY <1>13 DEF Spawn, Started, Kinds
  <2>4. stopClosed' = stopClosed /\ gen' = gen + 1 /\ state' = state /\ token' = token
    BY <1>13 DEF Spawn, Started
  <2>5. \A g \in Gens, k \in Kinds : g # gen + 1 => pc'[<<k, g>>] = pc[<<k, g>>]
    BY <2>3
  <2>6. LoopsWhole'
    <3>1. \A g \in Gens : g > gen' => \A k \in Kinds : pc'[<<k, g>>] = "off"
      BY <2>1, <2>4, <2>5 DEF LoopsWhole, Gens
    <3>2. ASSUME ~stopClosed', NEW g \in Gens
          PROVE  \/ \A k \in Kinds : pc'[<<k, g>>] = "off"
                 \/ \A k \in Kinds : pc'[<<k, g>>] \notin {"off", "done"}
      <4>1. CASE g = gen + 1
        BY <2>2, <4>1
      <4>2. CASE g # gen + 1
        BY <2>4, <2>5, <3>2, <4>2 DEF LoopsWhole
      <4> QED
        BY <4>1, <4>2
    <3> QED
      BY <3>1, <3>2 DEF LoopsWhole
  <2>7. \A u \in Loops : pc[u] # "off" => pc'[u] = pc[u]
    BY <2>2, <2>3, <1>13
  <2>8. ReconnectNeverAbandoned'
    BY <2>4, <2>7 DEF ReconnectNeverAbandoned, Rebuilding, Loops
  <2>9. ConnectedIsServed'
    BY <2>1, <2>2 DEF ConnectedIsServed, Kinds
  <2> QED
    BY <2>6, <2>8, <2>9
<1>14. ASSUME NEW t \in Callers, CloseCas2(t) PROVE ServedInv'
  <2>1. LoopsWhole' /\ ConnectedIsServed'
    BY <1>14, MoveKeepsLoops DEF CloseCas2, CompareAndClose
  <2>2. ReconnectNeverAbandoned'
    BY <1>14 DEF CloseCas2, CompareAndClose, ReconnectNeverAbandoned, Rebuilding
  <2> QED
    BY <2>1, <2>2
<1>15. ASSUME NEW t \in Callers, CloseCas3(t) PROVE ServedInv'
  <2>1. LoopsWhole' /\ ConnectedIsServed'
    BY <1>15, MoveKeepsLoops DEF CloseCas3, CompareAndClose
  <2>2. ReconnectNeverAbandoned'
    BY <1>15 DEF CloseCas3, CompareAndClose, ReconnectNeverAbandoned, Rebuilding
  <2> QED
    BY <2>1, <2>2
<1>16. ASSUME NEW t \in Callers, CloseStop(t) PROVE ServedInv'
  <2>1. LoopsWhole'
    BY <1>16 DEF CloseStop, LoopsWhole, Kinds
  <2>2. ReconnectNeverAbandoned'
    BY <1>16 DEF CloseStop, ReconnectNeverAbandoned, Rebuilding
  <2>3. ConnectedIsServed'
    BY <1>16 DEF CloseStop, ConnectedIsServed, LoopsWhole, Kinds
  <2> QED
    BY <2>1, <2>2, <2>3
<1>17. ASSUME NEW t \in Callers, CloseDetach(t) PROVE ServedInv'
  <2>1. LoopsWhole' /\ ConnectedIsServed'
    BY <1>17, MoveKeepsLoops DEF CloseDetach, Detached
  <2>2. ReconnectNeverAbandoned'
    BY <1>17 DEF CloseDetach, Detached, ReconnectNeverAbandoned, Rebuilding
  <2> QED
    BY <2>1, <2>2
<1>18. ASSUME NEW t \in Readers, ReadNext(t) PROVE ServedInv'
  <2>1. LoopsWhole' /\ ConnectedIsServed'
    BY <1>18, MoveKeepsLoops DEF ReadNext
  <2>2. ReconnectNeverAbandoned'
    BY <1>18 DEF ReadNext, ReconnectNeverAbandoned, Rebuilding
  <2> QED
    BY <2>1, <2>2
<1>19. ASSUME NEW t \in Readers, ReadPush(t) PROVE ServedInv'
  <2>1. LoopsWhole' /\ ConnectedIsServed'
    BY <1>19, MoveKeepsLoops DEF ReadPush, Receive, LinkOf
  <2>2. ReconnectNeverAbandoned'
    BY <1>19 DEF ReadPush, Receive, LinkOf, ReconnectNeverAbandoned, Rebuilding
  <2> QED
    BY <2>1, <2>2
<1>20. ASSUME NEW t \in Readers, Dedup(t) PROVE ServedInv'
  <2>1. LoopsWhole' /\ ConnectedIsServed'
    BY <1>20, MoveKeepsLoops DEF Dedup, Stale
  <2>2. ReconnectNeverAbandoned'
    BY <1>20 DEF Dedup, Stale, ReconnectNeverAbandoned, Rebuilding
  <2> QED
    BY <2>1, <2>2
<1>21. ASSUME NEW t \in Readers, StoreSeq(t) PROVE ServedInv'
  <2>1. LoopsWhole' /\ ConnectedIsServed'
    BY <1>21, MoveKeepsLoops DEF StoreSeq
  <2>2. ReconnectNeverAbandoned'
    BY <1>21 DEF StoreSeq, ReconnectNeverAbandoned, Rebuilding
  <2> QED
    BY <2>1, <2>2
<1>22. ASSUME NEW t \in Readers, OnPush(t) PROVE ServedInv'
  <2>1. LoopsWhole' /\ ConnectedIsServed'
    BY <1>22, MoveKeepsLoops DEF OnPush
  <2>2. ReconnectNeverAbandoned'
    BY <1>22 DEF OnPush, ReconnectNeverAbandoned, Rebuilding
  <2> QED
    BY <2>1, <2>2
<1>23. ASSUME NEW t \in (Readers \cup Beats), TriggerLoad(t) PROVE ServedInv'
  <2>1. LoopsWhole' /\ ConnectedIsServed'
    BY <1>23, MoveKeepsLoops DEF TriggerLoad, AfterTrigger
  <2>2. ReconnectNeverAbandoned'
    BY <1>23 DEF TriggerLoad, AfterTrigger, ReconnectNeverAbandoned, Rebuilding
  <2> QED
    BY <2>1, <2>2
<1>24. ASSUME NEW t \in (Readers \cup Beats), TriggerMark(t) PROVE ServedInv'
  <2>1. LoopsWhole' /\ ConnectedIsServed'
    BY <1>24, MoveKeepsLoops DEF TriggerMark
  <2>2. ReconnectNeverAbandoned'
    BY <1>24 DEF TriggerMark, ReconnectNeverAbandoned, Rebuilding
  <2> QED
    BY <2>1, <2>2
<1>25. ASSUME NEW t \in (Readers \cup Beats), TriggerSignal(t) PROVE ServedInv'
  <2>1. LoopsWhole' /\ ConnectedIsServed'
    BY <1>25, MoveKeepsLoops DEF TriggerSignal, AfterTrigger
  <2>2. ~stopClosed => \E u \in Recons : pc[u] \notin {"off", "done"}
    <3>1. PICK k \in Kinds, g \in Gens : t = <<k, g>>
      BY DEF Kinds
    <3> QED
      BY <1>25, <3>1 DEF TriggerSignal, LoopsWhole, Kinds
  <2>3. ReconnectNeverAbandoned'
    BY <1>25, <2>2 DEF TriggerSignal, AfterTrigger, ReconnectNeverAbandoned
  <2> QED
    BY <2>1, <2>3
<1>26. ASSUME NEW t \in Beats, Tick(t) PROVE ServedInv'
  <2>1. LoopsWhole' /\ ConnectedIsServed'
    BY <1>26, MoveKeepsLoops DEF Tick
  <2>2. ReconnectNeverAbandoned'
    BY <1>26 DEF Tick, ReconnectNeverAbandoned, Rebuilding
  <2> QED
    BY <2>1, <2>2
<1>27. ASSUME NEW t \in Beats, BeatCapture(t) PROVE ServedInv'
  <2>1. LoopsWhole' /\ ConnectedIsServed'
    BY <1>27, MoveKeepsLoops DEF BeatCapture
  <2>2. ReconnectNeverAbandoned'
    BY <1>27 DEF BeatCapture, ReconnectNeverAbandoned, Rebuilding
  <2> QED
    BY <2>1, <2>2
<1>28. ASSUME NEW t \in Beats, BeatWrite(t) PROVE ServedInv'
  <2>1. LoopsWhole' /\ ConnectedIsServed'
    BY <1>28, MoveKeepsLoops DEF BeatWrite
  <2>2. ReconnectNeverAbandoned'
    BY <1>28 DEF BeatWrite, ReconnectNeverAbandoned, Rebuilding
  <2> QED
    BY <2>1, <2>2
<1>29. ASSUME NEW t \in Beats, BeatFails(t) PROVE ServedInv'
  <2>1. PICK from \in {"send", "write"} : Move(t, from, "trigger")
    BY <1>29 DEF BeatFails
  <2>2. UNCHANGED client
    BY <1>29 DEF BeatFails
  <2>3. LoopsWhole' /\ ConnectedIsServed'
    BY <2>1, <2>2, MoveKeepsLoops
  <2>4. ReconnectNeverAbandoned'
    BY <2>1, <2>2 DEF ReconnectNeverAbandoned, Rebuilding
  <2> QED
    BY <2>3, <2>4
<1>30. ASSUME NEW t \in Beats, PingInTime(t) PROVE ServedInv'
  <2>1. LoopsWhole' /\ ConnectedIsServed'
    BY <1>30, MoveKeepsLoops DEF PingInTime
  <2>2. ReconnectNeverAbandoned'
    BY <1>30 DEF PingInTime, ReconnectNeverAbandoned, Rebuilding
  <2> QED
    BY <2>1, <2>2
<1>31. ASSUME NEW t \in Beats, PingTimeout(t) PROVE ServedInv'
  <2>1. LoopsWhole' /\ ConnectedIsServed'
    BY <1>31, MoveKeepsLoops DEF PingTimeout, Fault
  <2>2. ReconnectNeverAbandoned'
    BY <1>31 DEF PingTimeout, Fault, ReconnectNeverAbandoned, Rebuilding
  <2> QED
    BY <2>1, <2>2
<1>32. ASSUME NEW t \in Recons, TakeToken(t) PROVE ServedInv'
  <2>1. LoopsWhole' /\ ConnectedIsServed'
    BY <1>32, MoveKeepsLoops DEF TakeToken
  <2>2. ReconnectNeverAbandoned'
    BY <1>32 DEF TakeToken, ReconnectNeverAbandoned, Rebuilding
  <2> QED
    BY <2>1, <2>2
<1>33. ASSUME NEW t \in Recons, DropOld(t) PROVE ServedInv'
  <2>1. LoopsWhole' /\ ConnectedIsServed'
    BY <1>33, MoveKeepsLoops DEF DropOld, Detached
  <2>2. ReconnectNeverAbandoned'
    BY <1>33 DEF DropOld, Detached, ReconnectNeverAbandoned, Rebuilding
  <2> QED
    BY <2>1, <2>2
<1>34. ASSUME NEW t \in Recons, ResetCount(t) PROVE ServedInv'
  <2>1. LoopsWhole' /\ ConnectedIsServed'
    BY <1>34, MoveKeepsLoops DEF ResetCount
  <2>2. ReconnectNeverAbandoned'
    BY <1>34 DEF ResetCount, ReconnectNeverAbandoned, Rebuilding
  <2> QED
    BY <2>1, <2>2
<1>35. ASSUME NEW t \in Loops, Stop(t) PROVE ServedInv'
  <2>1. LoopsWhole'
    BY <1>35 DEF Stop, LoopsWhole, Kinds
  <2>2. ReconnectNeverAbandoned'
    BY <1>35 DEF Stop, ReconnectNeverAbandoned, Rebuilding
  <2>3. ConnectedIsServed'
    BY <1>35 DEF Stop, ConnectedIsServed, LoopsWhole, Kinds
  <2> QED
    BY <2>1, <2>2, <2>3
<1>36. ASSUME NEW c \in Conns, PeerAuth(c) PROVE ServedInv'
  BY <1>36 DEF PeerAuth, PeerStep, LoopsWhole, ReconnectNeverAbandoned, ConnectedIsServed, Rebuilding
<1>37. ASSUME NEW c \in Conns, PeerAnswer(c) PROVE ServedInv'
  BY <1>37 DEF PeerAnswer, PeerStep, LoopsWhole, ReconnectNeverAbandoned, ConnectedIsServed, Rebuilding
<1>38. ASSUME NEW c \in Conns, PeerDeny(c) PROVE ServedInv'
  BY <1>38 DEF PeerDeny, Fault, LoopsWhole, ReconnectNeverAbandoned, ConnectedIsServed, Rebuilding
<1>39. ASSUME NEW c \in Conns, Cut(c) PROVE ServedInv'
  BY <1>39 DEF Cut, Fault, LinkBreaks, LoopsWhole, ReconnectNeverAbandoned, ConnectedIsServed, Rebuilding
<1>40. ASSUME NEW c \in Conns, SlowLogin(c) PROVE ServedInv'
  BY <1>40 DEF SlowLogin, Fault, LinkBreaks, LoopsWhole, ReconnectNeverAbandoned, ConnectedIsServed, Rebuilding
<1>41. ASSUME NEW c \in Conns, DeadlinePasses(c) PROVE ServedInv'
  BY <1>41 DEF DeadlinePasses, LinkBreaks, LoopsWhole, ReconnectNeverAbandoned, ConnectedIsServed, Rebuilding
<1>42. ASSUME NEW c \in Conns, PeerPush(c) PROVE ServedInv'
  BY <1>42 DEF PeerPush, LoopsWhole, ReconnectNeverAbandoned, ConnectedIsServed, Rebuilding
<1>43. CASE PeerRestart
  BY <1>43 DEF PeerRestart, Fault, LoopsWhole, ReconnectNeverAbandoned, ConnectedIsServed, Rebuilding
<1>44. CASE PeerDraw
  BY <1>44 DEF PeerDraw, LoopsWhole, ReconnectNeverAbandoned, ConnectedIsServed, Rebuilding
<1>45. CASE UNCHANGED vars
  BY <1>45 DEF vars, LoopsWhole, ReconnectNeverAbandoned, ConnectedIsServed, Rebuilding
<1> HIDE ThreadKinds, LoopKinds DEF TypeOK, ServedInv, Move, client, locals, world
<1> QED
  BY ThreadKinds, <1>1, <1>2, <1>3, <1>4, <1>5, <1>6, <1>7, <1>8, <1>9, <1>10, <1>11,
     <1>12, <1>13, <1>14, <1>15, <1>16, <1>17, <1>18, <1>19, <1>20, <1>21, <1>22, <1>23,
     <1>24, <1>25, <1>26, <1>27, <1>28, <1>29, <1>30, <1>31, <1>32, <1>33, <1>34, <1>35,
     <1>36, <1>37, <1>38, <1>39, <1>40, <1>41, <1>42, <1>43, <1>44, <1>45
     DEF Next, CallerStep, ReaderStep, BeatStep, ReconStep, NetStep, ConnectStep, ReadStep,
         TriggerStep, PeerReplies, Connectors

LEMMA InitServed == Init => ServedInv
<1> SUFFICES ASSUME Init PROVE ServedInv
  OBVIOUS
<1>1. \A k \in Kinds, g \in Gens : pc[<<k, g>>] = "off"
  BY ThreadKinds, LoopKinds DEF Init, Loops
<1> QED
  BY <1>1 DEF Init, ServedInv, LoopsWhole, ReconnectNeverAbandoned, ConnectedIsServed

LEMMA ServedAlways == Spec => [](TypeOK /\ ServedInv)
<1>1. Init => TypeOK /\ ServedInv
  BY InitTypeOK, InitServed
<1>2. TypeOK /\ ServedInv /\ [Next]_vars => (TypeOK /\ ServedInv)'
  BY NextTypeOK, NextServed
<1> QED
  BY <1>1, <1>2, PTL DEF Spec

(***************************************************************************)
(* No wakeup of the reconnect loop is lost (triggerReconnect swaps the     *)
(* state before its non-blocking send, doReconnect ends every episode with *)
(* a setState): a client in Reconnecting always has someone who will get   *)
(* it out, whatever the number of callers, loops and triggers.             *)
(***************************************************************************)
THEOREM ReconnectAlwaysPending == Spec => []ReconnectNeverAbandoned
<1>1. TypeOK /\ ServedInv => ReconnectNeverAbandoned
  BY DEF ServedInv
<1> QED
  BY <1>1, ServedAlways, PTL

(***************************************************************************)
(* A client reports Connected only with its three loops running, or with   *)
(* the Connect that starts them on its way (Connect, doReconnect).         *)
(***************************************************************************)
THEOREM ConnectedAlwaysServed == Spec => []ConnectedIsServed
<1>1. TypeOK /\ ServedInv => ConnectedIsServed
  BY DEF ServedInv
<1> QED
  BY <1>1, ServedAlways, PTL

-----------------------------------------------------------------------------
\* A caller at rest can only try to close again, and finds nothing to close.
LEMMA CallersStayClosed ==
  ASSUME TypeOK, ClosedForGood, NEW t \in Callers, ConnectCall(t) \/ CloseCall(t) \/ CallerStep(t)
  PROVE  ClosedForGood'
<1>0. /\ state = "Closed" /\ stopClosed /\ ~token /\ pc[t] \in {"idle", "cas2", "cas3"}
      /\ pc \in [Threads -> PcValues]
  BY DEF ClosedForGood, TypeOK
<1>1. CloseCall(t) \/ CloseCas2(t) \/ CloseCas3(t)
  <2>1. ~ConnectCall(t) /\ ~Spawn(t) /\ ~CloseStop(t) /\ ~CloseDetach(t)
    BY <1>0 DEF ConnectCall, MayConnect, Spawn, CloseStop, CloseDetach, Move
  <2>2. ~ConnectStep(t)
    BY <1>0 DEF ConnectStep, Dial, DialFails, SendLogin, SendLoginFails, ReadLoginResp,
         Established, Failed, Move
  <2>3. ~ReadStep(t)
    BY <1>0 DEF ReadStep, Capture, CaptureFails, ReadFails, Move
  <2> QED BY <2>1, <2>2, <2>3 DEF CallerStep
<1>2. PICK to \in {"idle", "cas2", "cas3"} : pc' = [pc EXCEPT ![t] = to]
  BY <1>0, <1>1 DEF CloseCall, CloseCas2, CloseCas3, CompareAndClose, Move
<1>3. UNCHANGED <<state, stopClosed, token>>
  BY <1>0, <1>1 DEF CloseCall, CloseCas2, CloseCas3, CompareAndClose
<1>4. \A u \in Threads : pc'[u] = IF u = t THEN to ELSE pc[u]
  BY <1>0, <1>2
<1> QED BY <1>3, <1>4, ThreadKinds DEF ClosedForGood, Loops

\* A loop at rest can only see stopChan and end.
LEMMA LoopsStayClosed ==
  ASSUME TypeOK, ClosedForGood, NEW t \in Loops,
         \/ t \in Readers /\ ReaderStep(t)
         \/ t \in Beats /\ BeatStep(t)
         \/ t \in Recons /\ ReconStep(t)
         \/ Stop(t)
  PROVE  ClosedForGood'
<1>0. /\ state = "Closed" /\ stopClosed /\ ~token /\ pc[t] \in {"off", "loop", "done"}
      /\ pc \in [Threads -> PcValues]
  BY DEF ClosedForGood, TypeOK
<1>1. Stop(t)
  <2>1. ~ReadStep(t) /\ ~TriggerStep(t)
    BY <1>0 DEF ReadStep, Capture, CaptureFails, ReadFails, TriggerStep, TriggerLoad, TriggerMark,
         TriggerSignal, Move
  <2>2. ~ReaderStep(t)
    BY <1>0, <2>1 DEF ReaderStep, ReadNext, ReadPush, Dedup, StoreSeq, OnPush, Move
  <2>3. ~BeatStep(t)
    BY <1>0, <2>1 DEF BeatStep, Tick, BeatCapture, BeatWrite, BeatFails, PingInTime, PingTimeout, Move
  <2>4. ~ConnectStep(t)
    BY <1>0 DEF ConnectStep, Dial, DialFails, SendLogin, SendLoginFails, ReadLoginResp,
         Established, Failed, Move
  <2>5. ~ReconStep(t)
    BY <1>0, <2>1, <2>4 DEF ReconStep, TakeToken, DropOld, ResetCount, Move
  <2> QED BY <2>2, <2>3, <2>5
<1>2. pc' = [pc EXCEPT ![t] = "done"] /\ UNCHANGED <<state, stopClosed, token>>
  BY <1>1 DEF Stop, Move, client
<1>3. \A u \in Threads : pc'[u] = IF u = t THEN "done" ELSE pc[u]
  BY <1>0, <1>2
<1> QED BY <1>2, <1>3, ThreadKinds DEF ClosedForGood, Loops

(***************************************************************************)
(* A closed client at rest stays closed (the compare-and-swaps of Connect  *)
(* and Close, the stopChan cases of the loops), whatever its callers, the  *)
(* server and the network do.                                              *)
(***************************************************************************)
THEOREM StaysClosed == Spec => ClosedStaysClosed
<1>1. TypeOK /\ [Next]_vars => (ClosedForGood => ClosedForGood')
  <2> SUFFICES ASSUME TypeOK, [Next]_vars, ClosedForGood PROVE ClosedForGood'
    OBVIOUS
  <2>1. CASE UNCHANGED <<client, locals>>
    BY <2>1 DEF client, locals, ClosedForGood
  <2>2. ASSUME NEW c \in Conns, NetStep(c) PROVE UNCHANGED <<client, locals>>
    BY <2>2 DEF NetStep, PeerReplies, PeerAuth, PeerAnswer, PeerStep, PeerPush, PeerDeny, Cut,
         SlowLogin, DeadlinePasses, LinkBreaks
  <2>3. PeerDraw \/ PeerRestart => UNCHANGED <<client, locals>>
    BY DEF PeerDraw, PeerRestart
  <2>4. UNCHANGED vars => UNCHANGED <<client, locals>>
    BY DEF vars
  <2> QED
    BY <2>1, <2>2, <2>3, <2>4, CallersStayClosed, LoopsStayClosed DEF Next, Loops
<1> QED
  BY <1>1, TypeCorrect, PTL DEF Spec, ClosedStaysClosed

-----------------------------------------------------------------------------
\* The push a reader holds and what was delivered, against lastSeq.
HandledInOrder ==
  /\ MonotoneDelivery
  /\ \A i \in DOMAIN delivered : delivered[i] <= lastSeq
  /\ \A t \in Readers :
       /\ pc[t] \in {"dedup", "store", "deliver"} => msg[t] <= issued
       /\ pc[t] = "store" => lastSeq < msg[t]
       /\ pc[t] = "deliver" => \A i \in DOMAIN delivered : delivered[i] < msg[t]
       /\ pc[t] = "deliver" => msg[t] = lastSeq /\ 0 < msg[t]

\* No number on its way is above what a server has issued.
InFlightIssued ==
  /\ seqGen <= issued
  /\ \A c \in Conns : \A i \in DOMAIN sock[c].inbox : sock[c].inbox[i].seq <= issued

FeedInv == HandledInOrder /\ InFlightIssued

LEMMA OneReader ==
  ASSUME MaxGen <= 1
  PROVE  \A s, t \in Readers : s = t
BY DEF Readers, Gens

LEMMA InboxShrinks ==
  ASSUME NEW q \in Seq(Message), q # <<>>
  PROVE  /\ \A i \in DOMAIN Tail(q) : i + 1 \in DOMAIN q /\ Tail(q)[i] = q[i + 1]
         /\ 1 \in DOMAIN q /\ Head(q) = q[1]
OBVIOUS

LEMMA InboxGrows ==
  ASSUME NEW q \in Seq(Message), NEW m \in Message
  PROVE  /\ \A i \in DOMAIN Append(q, m) :
              \/ i \in DOMAIN q /\ Append(q, m)[i] = q[i]
              \/ Append(q, m)[i] = m
         /\ q \o <<m>> = Append(q, m)
OBVIOUS

LEMMA NextFeed ==
  ASSUME MaxGen <= 1, TypeOK, FeedInv, [Next]_vars
  PROVE  FeedInv'
<1> USE ThreadKinds, OneReader DEF TypeOK, FeedInv, Move, client, locals, world
<1>1. ASSUME NEW t \in Callers, ConnectCall(t) PROVE FeedInv'
  <2>1. HandledInOrder'
    BY <1>1 DEF ConnectCall, MayConnect, HandledInOrder, MonotoneDelivery
  <2>2. InFlightIssued'
    BY <1>1 DEF ConnectCall, MayConnect, InFlightIssued
  <2> QED
    BY <2>1, <2>2
<1>2. ASSUME NEW t \in Callers, CloseCall(t) PROVE FeedInv'
  <2>1. HandledInOrder'
    BY <1>2 DEF CloseCall, CompareAndClose, HandledInOrder, MonotoneDelivery
  <2>2. InFlightIssued'
    BY <1>2 DEF CloseCall, CompareAndClose, InFlightIssued
  <2> QED
    BY <2>1, <2>2
<1>3. ASSUME NEW t \in Connectors, Dial(t) PROVE FeedInv'
  <2>1. HandledInOrder'
    BY <1>3 DEF Dial, Unreferenced, HandledInOrder, MonotoneDelivery
  <2>2. InFlightIssued'
    BY <1>3 DEF Dial, Unreferenced, InFlightIssued, Fresh, Socket
  <2> QED
    BY <2>1, <2>2
<1>4. ASSUME NEW t \in Connectors, DialFails(t) PROVE FeedInv'
  <2>1. HandledInOrder'
    BY <1>4 DEF DialFails, AfterFailure, Fault, HandledInOrder, MonotoneDelivery
  <2>2. InFlightIssued'
    BY <1>4 DEF DialFails, AfterFailure, Fault, InFlightIssued
  <2> QED
    BY <2>1, <2>2
<1>5. ASSUME NEW t \in Connectors, SendLogin(t) PROVE FeedInv'
  <2>1. HandledInOrder'
    BY <1>5 DEF SendLogin, LinkOf, HandledInOrder, MonotoneDelivery
  <2>2. InFlightIssued'
    BY <1>5 DEF SendLogin, LinkOf, InFlightIssued, Socket
  <2> QED
    BY <2>1, <2>2
<1>6. ASSUME NEW t \in Connectors, SendLoginFails(t) PROVE FeedInv'
  <2>1. HandledInOrder'
    BY <1>6 DEF SendLoginFails, AfterFailure, HandledInOrder, MonotoneDelivery
  <2>2. InFlightIssued'
    BY <1>6 DEF SendLoginFails, AfterFailure, InFlightIssued
  <2> QED
    BY <2>1, <2>2
<1>7. ASSUME NEW t \in Connectors, ReadLoginResp(t) PROVE FeedInv'
  <2>1. HandledInOrder'
    BY <1>7 DEF ReadLoginResp, Receive, AfterFailure, HandledInOrder, MonotoneDelivery
  <2>2. held[t] \in Conns /\ sock[held[t]].inbox \in Seq(Message)
    BY <1>7 DEF ReadLoginResp, Receive, LinkOf, Socket
  <2> DEFINE q == sock[held[t]].inbox
  <2>3. /\ sock' = [sock EXCEPT ![held[t]].inbox = Tail(q)] /\ q # <<>>
        /\ UNCHANGED <<issued, seqGen>>
    BY <1>7 DEF ReadLoginResp, Receive
  <2>4. ASSUME NEW c \in Conns, NEW i \in DOMAIN sock'[c].inbox
        PROVE  sock'[c].inbox[i].seq <= issued
    <3>1. CASE c = held[t]
      <4>1. sock'[c].inbox = Tail(q)
        BY <2>2, <2>3, <3>1 DEF Socket
      <4>2. q \in Seq(Message) /\ q # <<>> /\ i \in DOMAIN Tail(q)
        BY <2>2, <2>3, <4>1
      <4>3. i + 1 \in DOMAIN q /\ Tail(q)[i] = q[i + 1]
        <5> HIDE DEF q
        <5> QED
          BY <4>2, InboxShrinks
      <4> QED
        BY <2>2, <4>1, <4>3 DEF InFlightIssued
    <3>2. CASE c # held[t]
      BY <2>3, <3>2 DEF InFlightIssued
    <3> QED
      BY <3>1, <3>2
  <2> QED
    BY <2>1, <2>3, <2>4 DEF InFlightIssued
<1>8. ASSUME NEW t \in Connectors, Established(t) PROVE FeedInv'
  <2>1. HandledInOrder'
    BY <1>8 DEF Established, HandledInOrder, MonotoneDelivery
  <2>2. InFlightIssued'
    BY <1>8 DEF Established, InFlightIssued
  <2> QED
    BY <2>1, <2>2
<1>9. ASSUME NEW t \in Connectors, Failed(t) PROVE FeedInv'
  <2>1. HandledInOrder'
    BY <1>9 DEF Failed, HandledInOrder, MonotoneDelivery
  <2>2. InFlightIssued'
    BY <1>9 DEF Failed, InFlightIssued
  <2> QED
    BY <2>1, <2>2
<1>10. ASSUME NEW t \in Threads, Capture(t) PROVE FeedInv'
  <2>1. HandledInOrder'
    BY <1>10 DEF Capture, HandledInOrder, MonotoneDelivery
  <2>2. InFlightIssued'
    BY <1>10 DEF Capture, InFlightIssued, Socket
  <2> QED
    BY <2>1, <2>2
<1>11. ASSUME NEW t \in Threads, CaptureFails(t) PROVE FeedInv'
  <2>1. HandledInOrder'
    BY <1>11 DEF CaptureFails, AfterReadError, AfterFailure, HandledInOrder, MonotoneDelivery
  <2>2. InFlightIssued'
    BY <1>11 DEF CaptureFails, AfterReadError, AfterFailure, InFlightIssued
  <2> QED
    BY <2>1, <2>2
<1>12. ASSUME NEW t \in Threads, ReadFails(t) PROVE FeedInv'
  <2>1. HandledInOrder'
    BY <1>12 DEF ReadFails, AfterReadError, AfterFailure, HandledInOrder, MonotoneDelivery
  <2>2. InFlightIssued'
    BY <1>12 DEF ReadFails, AfterReadError, AfterFailure, InFlightIssued
  <2> QED
    BY <2>1, <2>2
<1>13. ASSUME NEW t \in Callers, Spawn(t) PROVE FeedInv'
  <2>1. HandledInOrder'
    BY <1>13 DEF Spawn, Started, HandledInOrder, MonotoneDelivery
  <2>2. InFlightIssued'
    BY <1>13 DEF Spawn, Started, InFlightIssued
  <2> QED
    BY <2>1, <2>2
<1>14. ASSUME NEW t \in Callers, CloseCas2(t) PROVE FeedInv'
  <2>1. HandledInOrder'
    BY <1>14 DEF CloseCas2, CompareAndClose, HandledInOrder, MonotoneDelivery
  <2>2. InFlightIssued'
    BY <1>14 DEF CloseCas2, CompareAndClose, InFlightIssued
  <2> QED
    BY <2>1, <2>2
<1>15. ASSUME NEW t \in Callers, CloseCas3(t) PROVE FeedInv'
  <2>1. HandledInOrder'
    BY <1>15 DEF CloseCas3, CompareAndClose, HandledInOrder, MonotoneDelivery
  <2>2. InFlightIssued'
    BY <1>15 DEF CloseCas3, CompareAndClose, InFlightIssued
  <2> QED
    BY <2>1, <2>2
<1>16. ASSUME NEW t \in Callers, CloseStop(t) PROVE FeedInv'
  <2>1. HandledInOrder'
    BY <1>16 DEF CloseStop, HandledInOrder, MonotoneDelivery
  <2>2. InFlightIssued'
    BY <1>16 DEF CloseStop, InFlightIssued
  <2> QED
    BY <2>1, <2>2
<1>17. ASSUME NEW t \in Callers, CloseDetach(t) PROVE FeedInv'
  <2>1. HandledInOrder'
    BY <1>17 DEF CloseDetach, Detached, HandledInOrder, MonotoneDelivery
  <2>2. InFlightIssued'
    BY <1>17 DEF CloseDetach, Detached, InFlightIssued, Fresh, Socket
  <2> QED
    BY <2>1, <2>2
<1>18. ASSUME NEW t \in Readers, ReadNext(t) PROVE FeedInv'
  <2>1. HandledInOrder'
    BY <1>18 DEF ReadNext, HandledInOrder, MonotoneDelivery
  <2>2. InFlightIssued'
    BY <1>18 DEF ReadNext, InFlightIssued
  <2> QED
    BY <2>1, <2>2
<1>19. ASSUME NEW t \in Readers, ReadPush(t) PROVE FeedInv'
  <2>1. held[t] \in Conns /\ sock[held[t]].inbox \in Seq(Message)
    BY <1>19 DEF ReadPush, Receive, LinkOf, Socket
  <2> DEFINE q == sock[held[t]].inbox
  <2>2. /\ sock' = [sock EXCEPT ![held[t]].inbox = Tail(q)]
        /\ msg' = [msg EXCEPT ![t] = Head(q).seq]
        /\ pc'[t] \in {"dedup", "loop"} /\ q # <<>>
        /\ \A u \in Readers : u # t => pc'[u] = pc[u]
        /\ UNCHANGED <<delivered, lastSeq, issued, seqGen>>
    BY <1>19 DEF ReadPush, Receive
  <2>3. Head(q).seq <= issued
    BY <2>1, <2>2, InboxShrinks, SMTT(30) DEF InFlightIssued
  <2>4. HandledInOrder'
    BY <2>2, <2>3 DEF HandledInOrder, MonotoneDelivery
  <2>5. ASSUME NEW c \in Conns, NEW i \in DOMAIN sock'[c].inbox
        PROVE  sock'[c].inbox[i].seq <= issued
    <3>1. CASE c = held[t]
      <4>1. sock'[c].inbox = Tail(q)
        BY <2>1, <2>2, <3>1 DEF Socket
      <4>2. q \in Seq(Message) /\ q # <<>> /\ i \in DOMAIN Tail(q)
        BY <2>1, <2>2, <4>1
      <4>3. i + 1 \in DOMAIN q /\ Tail(q)[i] = q[i + 1]
        <5> HIDE DEF q
        <5> QED
          BY <4>2, InboxShrinks
      <4> QED
        BY <2>1, <4>1, <4>3 DEF InFlightIssued
    <3>2. CASE c # held[t]
      BY <2>2, <3>2 DEF InFlightIssued
    <3> QED
      BY <3>1, <3>2
  <2> QED
    BY <2>2, <2>4, <2>5 DEF InFlightIssued
<1>20. ASSUME NEW t \in Readers, Dedup(t) PROVE FeedInv'
  <2>1. HandledInOrder'
    BY <1>20 DEF Dedup, Stale, HandledInOrder, MonotoneDelivery
  <2>2. InFlightIssued'
    BY <1>20 DEF Dedup, Stale, InFlightIssued
  <2> QED
    BY <2>1, <2>2
<1>21. ASSUME NEW t \in Readers, StoreSeq(t) PROVE FeedInv'
  <2>1. HandledInOrder'
    BY <1>21 DEF StoreSeq, HandledInOrder, MonotoneDelivery
  <2>2. InFlightIssued'
    BY <1>21 DEF StoreSeq, InFlightIssued
  <2> QED
    BY <2>1, <2>2
<1>22. ASSUME NEW t \in Readers, OnPush(t) PROVE FeedInv'
  <2>1. HandledInOrder'
    BY <1>22 DEF OnPush, HandledInOrder, MonotoneDelivery
  <2>2. InFlightIssued'
    BY <1>22 DEF OnPush, InFlightIssued
  <2> QED
    BY <2>1, <2>2
<1>23. ASSUME NEW t \in (Readers \cup Beats), TriggerLoad(t) PROVE FeedInv'
  <2>1. HandledInOrder'
    BY <1>23 DEF TriggerLoad, AfterTrigger, HandledInOrder, MonotoneDelivery
  <2>2. InFlightIssued'
    BY <1>23 DEF TriggerLoad, AfterTrigger, InFlightIssued
  <2> QED
    BY <2>1, <2>2
<1>24. ASSUME NEW t \in (Readers \cup Beats), TriggerMark(t) PROVE FeedInv'
  <2>1. HandledInOrder'
    BY <1>24 DEF TriggerMark, HandledInOrder, MonotoneDelivery
  <2>2. InFlightIssued'
    BY <1>24 DEF TriggerMark, InFlightIssued
  <2> QED
    BY <2>1, <2>2
<1>25. ASSUME NEW t \in (Readers \cup Beats), TriggerSignal(t) PROVE FeedInv'
  <2>1. HandledInOrder'
    BY <1>25 DEF TriggerSignal, AfterTrigger, HandledInOrder, MonotoneDelivery
  <2>2. InFlightIssued'
    BY <1>25 DEF TriggerSignal, AfterTrigger, InFlightIssued
  <2> QED
    BY <2>1, <2>2
<1>26. ASSUME NEW t \in Beats, Tick(t) PROVE FeedInv'
  <2>1. HandledInOrder'
    BY <1>26 DEF Tick, HandledInOrder, MonotoneDelivery
  <2>2. InFlightIssued'
    BY <1>26 DEF Tick, InFlightIssued
  <2> QED
    BY <2>1, <2>2
<1>27. ASSUME NEW t \in Beats, BeatCapture(t) PROVE FeedInv'
  <2>1. HandledInOrder'
    BY <1>27 DEF BeatCapture, HandledInOrder, MonotoneDelivery
  <2>2. InFlightIssued'
    BY <1>27 DEF BeatCapture, InFlightIssued
  <2> QED
    BY <2>1, <2>2
<1>28. ASSUME NEW t \in Beats, BeatWrite(t) PROVE FeedInv'
  <2>1. HandledInOrder'
    BY <1>28 DEF BeatWrite, HandledInOrder, MonotoneDelivery
  <2>2. InFlightIssued'
    BY <1>28, SMTT(30) DEF BeatWrite, InFlightIssued, Socket
  <2> QED
    BY <2>1, <2>2
<1>29. ASSUME NEW t \in Beats, BeatFails(t) PROVE FeedInv'
  <2>1. HandledInOrder'
    BY <1>29 DEF BeatFails, HandledInOrder, MonotoneDelivery
  <2>2. InFlightIssued'
    BY <1>29 DEF BeatFails, InFlightIssued
  <2> QED
    BY <2>1, <2>2
<1>30. ASSUME NEW t \in Beats, PingInTime(t) PROVE FeedInv'
  <2>1. HandledInOrder'
    BY <1>30 DEF PingInTime, HandledInOrder, MonotoneDelivery
  <2>2. InFlightIssued'
    BY <1>30 DEF PingInTime, InFlightIssued
  <2> QED
    BY <2>1, <2>2
<1>31. ASSUME NEW t \in Beats, PingTimeout(t) PROVE FeedInv'
  <2>1. HandledInOrder'
    BY <1>31 DEF PingTimeout, Fault, HandledInOrder, MonotoneDelivery
  <2>2. InFlightIssued'
    BY <1>31 DEF PingTimeout, Fault, InFlightIssued
  <2> QED
    BY <2>1, <2>2
<1>32. ASSUME NEW t \in Recons, TakeToken(t) PROVE FeedInv'
  <2>1. HandledInOrder'
    BY <1>32 DEF TakeToken, HandledInOrder, MonotoneDelivery
  <2>2. InFlightIssued'
    BY <1>32 DEF TakeToken, InFlightIssued
  <2> QED
    BY <2>1, <2>2
<1>33. ASSUME NEW t \in Recons, DropOld(t) PROVE FeedInv'
  <2>1. HandledInOrder'
    BY <1>33 DEF DropOld, Detached, HandledInOrder, MonotoneDelivery
  <2>2. InFlightIssued'
    BY <1>33 DEF DropOld, Detached, InFlightIssued, Fresh, Socket
  <2> QED
    BY <2>1, <2>2
<1>34. ASSUME NEW t \in Recons, ResetCount(t) PROVE FeedInv'
  <2>1. HandledInOrder'
    BY <1>34 DEF ResetCount, HandledInOrder, MonotoneDelivery
  <2>2. InFlightIssued'
    BY <1>34 DEF ResetCount, InFlightIssued
  <2> QED
    BY <2>1, <2>2
<1>35. ASSUME NEW t \in Loops, Stop(t) PROVE FeedInv'
  <2>1. HandledInOrder'
    BY <1>35 DEF Stop, HandledInOrder, MonotoneDelivery
  <2>2. InFlightIssued'
    BY <1>35 DEF Stop, InFlightIssued
  <2> QED
    BY <2>1, <2>2
<1>36. ASSUME NEW c \in Conns, PeerAuth(c) PROVE FeedInv'
  <2>1. HandledInOrder'
    BY <1>36 DEF PeerAuth, PeerStep, HandledInOrder, MonotoneDelivery
  <2>2. InFlightIssued'
    BY <1>36, SMTT(30) DEF PeerAuth, PeerStep, InFlightIssued, Socket
  <2> QED
    BY <2>1, <2>2
<1>37. ASSUME NEW c \in Conns, PeerAnswer(c) PROVE FeedInv'
  <2>1. HandledInOrder'
    BY <1>37 DEF PeerAnswer, PeerStep, HandledInOrder, MonotoneDelivery
  <2> DEFINE m == [op |-> "LoginOk", seq |-> 0]
  <2>2. m \in Message /\ sock[c].inbox \in Seq(Message)
    BY Messages, Sockets
  <2>3. \A d \in Conns : sock'[d].inbox = IF d = c THEN Append(sock[c].inbox, m) ELSE sock[d].inbox
    <3>1. sock' = [sock EXCEPT ![c].peer = "in", ![c].inbox = sock[c].inbox \o <<m>>]
      BY <1>37 DEF PeerAnswer, PeerStep
    <3>2. sock[c].inbox \o <<m>> = Append(sock[c].inbox, m)
      BY <2>2, InboxGrows
    <3> QED
      BY <3>1, <3>2 DEF Socket
  <2>4. UNCHANGED <<seqGen, issued>>
    BY <1>37 DEF PeerAnswer, PeerStep
  <2>5. ASSUME NEW d \in Conns, NEW i \in DOMAIN sock'[d].inbox
        PROVE  sock'[d].inbox[i].seq <= issued
    <3>1. CASE d = c
      <4>1. \/ i \in DOMAIN sock[c].inbox /\ sock'[d].inbox[i] = sock[c].inbox[i]
            \/ sock'[d].inbox[i] = m
        <5>1. sock'[d].inbox = Append(sock[c].inbox, m)
          BY <2>3, <3>1
        <5> HIDE DEF m
        <5> QED
          BY <2>2, <5>1, InboxGrows
      <4>2. m.seq = 0
        OBVIOUS
      <4> QED
        BY <4>1, <4>2 DEF InFlightIssued
    <3>2. CASE d # c
      BY <2>3, <3>2 DEF InFlightIssued
    <3> QED
      BY <3>1, <3>2
  <2> QED
    BY <2>1, <2>4, <2>5 DEF InFlightIssued
<1>38. ASSUME NEW c \in Conns, PeerDeny(c) PROVE FeedInv'
  <2>1. HandledInOrder'
    BY <1>38 DEF PeerDeny, Fault, HandledInOrder, MonotoneDelivery
  <2> DEFINE m == [op |-> "LoginDenied", seq |-> 0]
  <2>2. m \in Message /\ sock[c].inbox \in Seq(Message)
    BY Messages, Sockets
  <2>3. \A d \in Conns : sock'[d].inbox = IF d = c THEN Append(sock[c].inbox, m) ELSE sock[d].inbox
    BY <1>38 DEF PeerDeny, Socket
  <2>4. UNCHANGED <<seqGen, issued>>
    BY <1>38 DEF PeerDeny
  <2>5. ASSUME NEW d \in Conns, NEW i \in DOMAIN sock'[d].inbox
        PROVE  sock'[d].inbox[i].seq <= issued
    <3>1. CASE d = c
      <4>1. \/ i \in DOMAIN sock[c].inbox /\ sock'[d].inbox[i] = sock[c].inbox[i]
            \/ sock'[d].inbox[i] = m
        <5>1. sock'[d].inbox = Append(sock[c].inbox, m)
          BY <2>3, <3>1
        <5> HIDE DEF m
        <5> QED
          BY <2>2, <5>1, InboxGrows
      <4>2. m.seq = 0
        OBVIOUS
      <4> QED
        BY <4>1, <4>2 DEF InFlightIssued
    <3>2. CASE d # c
      BY <2>3, <3>2 DEF InFlightIssued
    <3> QED
      BY <3>1, <3>2
  <2> QED
    BY <2>1, <2>4, <2>5 DEF InFlightIssued
<1>39. ASSUME NEW c \in Conns, Cut(c) PROVE FeedInv'
  <2>1. HandledInOrder'
    BY <1>39 DEF Cut, Fault, LinkBreaks, HandledInOrder, MonotoneDelivery
  <2>2. InFlightIssued'
    BY <1>39 DEF Cut, Fault, LinkBreaks, InFlightIssued, Socket
  <2> QED
    BY <2>1, <2>2
<1>40. ASSUME NEW c \in Conns, SlowLogin(c) PROVE FeedInv'
  <2>1. HandledInOrder'
    BY <1>40 DEF SlowLogin, Fault, LinkBreaks, HandledInOrder, MonotoneDelivery
  <2>2. InFlightIssued'
    BY <1>40 DEF SlowLogin, Fault, LinkBreaks, InFlightIssued, Socket
  <2> QED
    BY <2>1, <2>2
<1>41. ASSUME NEW c \in Conns, DeadlinePasses(c) PROVE FeedInv'
  <2>1. HandledInOrder'
    BY <1>41 DEF DeadlinePasses, LinkBreaks, HandledInOrder, MonotoneDelivery
  <2>2. InFlightIssued'
    BY <1>41 DEF DeadlinePasses, LinkBreaks, InFlightIssued, Socket
  <2> QED
    BY <2>1, <2>2
<1>42. ASSUME NEW c \in Conns, PeerPush(c) PROVE FeedInv'
  <2>1. HandledInOrder'
    BY <1>42 DEF PeerPush, HandledInOrder, MonotoneDelivery
  <2> DEFINE m == [op |-> "Push", seq |-> seqGen]
  <2>2. m \in Message /\ sock[c].inbox \in Seq(Message)
    BY Messages, Sockets
  <2>3. \A d \in Conns : sock'[d].inbox = IF d = c THEN Append(sock[c].inbox, m) ELSE sock[d].inbox
    BY <1>42 DEF PeerPush, Socket
  <2>4. UNCHANGED <<seqGen, issued>>
    BY <1>42 DEF PeerPush
  <2>5. ASSUME NEW d \in Conns, NEW i \in DOMAIN sock'[d].inbox
        PROVE  sock'[d].inbox[i].seq <= issued
    <3>1. CASE d = c
      <4>1. \/ i \in DOMAIN sock[c].inbox /\ sock'[d].inbox[i] = sock[c].inbox[i]
            \/ sock'[d].inbox[i] = m
        <5>1. sock'[d].inbox = Append(sock[c].inbox, m)
          BY <2>3, <3>1
        <5> HIDE DEF m
        <5> QED
          BY <2>2, <5>1, InboxGrows
      <4>2. m.seq = seqGen
        OBVIOUS
      <4> QED
        BY <4>1, <4>2 DEF InFlightIssued
    <3>2. CASE d # c
      BY <2>3, <3>2 DEF InFlightIssued
    <3> QED
      BY <3>1, <3>2
  <2> QED
    BY <2>1, <2>4, <2>5 DEF InFlightIssued
<1>43. CASE PeerRestart
  <2>1. HandledInOrder'
    BY <1>43 DEF PeerRestart, Fault, HandledInOrder, MonotoneDelivery
  <2>2. InFlightIssued'
    BY <1>43 DEF PeerRestart, Fault, InFlightIssued, Socket
  <2> QED
    BY <2>1, <2>2
<1>44. CASE PeerDraw
  <2>1. issued <= issued' /\ seqGen' <= issued' /\ issued' \in 0..MaxSeq
    BY <1>44 DEF PeerDraw, InFlightIssued
  <2>2. HandledInOrder'
    BY <1>44, <2>1 DEF PeerDraw, HandledInOrder, MonotoneDelivery
  <2>3. ASSUME NEW c \in Conns, NEW i \in DOMAIN sock[c].inbox
        PROVE  sock[c].inbox[i].seq <= issued'
    <3> sock[c].inbox \in Seq(Message)
      BY Sockets
    <3>1. sock[c].inbox[i] \in Message
      OBVIOUS
    <3>2. sock[c].inbox[i].seq \in 0..MaxSeq /\ sock[c].inbox[i].seq <= issued
      BY <3>1 DEF InFlightIssued, Message
    <3> QED
      BY <2>1, <3>2
  <2> QED
    BY <1>44, <2>1, <2>2, <2>3 DEF PeerDraw, InFlightIssued
<1>45. CASE UNCHANGED vars
  BY <1>45 DEF vars, HandledInOrder, InFlightIssued, MonotoneDelivery
<1> HIDE ThreadKinds, OneReader DEF TypeOK, FeedInv, Move, client, locals, world
<1> QED
  BY ThreadKinds, <1>1, <1>2, <1>3, <1>4, <1>5, <1>6, <1>7, <1>8, <1>9, <1>10, <1>11,
     <1>12, <1>13, <1>14, <1>15, <1>16, <1>17, <1>18, <1>19, <1>20, <1>21, <1>22, <1>23,
     <1>24, <1>25, <1>26, <1>27, <1>28, <1>29, <1>30, <1>31, <1>32, <1>33, <1>34, <1>35,
     <1>36, <1>37, <1>38, <1>39, <1>40, <1>41, <1>42, <1>43, <1>44, <1>45
     DEF Next, CallerStep, ReaderStep, BeatStep, ReconStep, NetStep, ConnectStep, ReadStep,
         TriggerStep, PeerReplies, Connectors

LEMMA InitFeed == Init => FeedInv
<1> SUFFICES ASSUME Init PROVE FeedInv
  OBVIOUS
<1>1. HandledInOrder
  <2>1. DOMAIN delivered = {}
    BY DEF Init
  <2>2. \A t \in Readers : pc[t] = "off"
    BY ThreadKinds DEF Init
  <2> QED
    BY <2>1, <2>2 DEF HandledInOrder, MonotoneDelivery
<1>2. \A c \in Conns : sock[c].inbox = <<>>
  BY DEF Init, Fresh
<1>3. InFlightIssued
  BY <1>2 DEF Init, InFlightIssued
<1> QED
  BY <1>1, <1>3 DEF FeedInv

LEMMA FeedAlways ==
  ASSUME MaxGen <= 1
  PROVE  Spec => [](TypeOK /\ FeedInv)
<1>1. Init => TypeOK /\ FeedInv
  BY InitTypeOK, InitFeed
<1>2. TypeOK /\ FeedInv /\ [Next]_vars => (TypeOK /\ FeedInv)'
  BY NextTypeOK, NextFeed
<1> QED
  BY <1>1, <1>2, PTL DEF Spec

(***************************************************************************)
(* With one set of loops the numbers handed to onPush only grow, through   *)
(* any reconnects, restarts of the server and leftovers of old connections *)
(* (handleBattlePush).  A second Connect breaks this: see README.          *)
(***************************************************************************)
THEOREM DeliveryMonotone ==
  ASSUME MaxGen <= 1
  PROVE  Spec => []MonotoneDelivery
<1>1. TypeOK /\ FeedInv => MonotoneDelivery
  BY DEF FeedInv, HandledInOrder
<1> QED
  BY <1>1, FeedAlways, PTL

(***************************************************************************)
(* With one set of loops the client implements OrderedFeed: each step is a *)
(* delivery the feed allows, a publication by the server, or neither.      *)
(***************************************************************************)
THEOREM FeedRefinement ==
  ASSUME MaxGen <= 1
  PROVE  Spec => ImplementsFeed
<1>1. Init => Feed!Init
  BY DEF Init, Feed!Init
<1>2. TypeOK /\ FeedInv /\ [Next]_vars => [Feed!Next]_<<issued, delivered>>
  <2> SUFFICES ASSUME TypeOK, FeedInv, [Next]_vars
               PROVE  Feed!Next \/ UNCHANGED <<issued, delivered>>
    OBVIOUS
  <2>1. ASSUME NEW t \in Readers, OnPush(t) PROVE Feed!Next
    <3>1. pc[t] = "deliver" /\ msg[t] \in 0..MaxSeq /\ issued \in 0..MaxSeq
      BY <2>1, ThreadKinds DEF OnPush, Move, TypeOK
    <3>2. msg[t] \in 1..issued /\ \A i \in DOMAIN delivered : delivered[i] < msg[t]
      BY <3>1 DEF FeedInv, HandledInOrder
    <3>3. delivered' = Append(delivered, msg[t]) /\ issued' = issued
      BY <2>1 DEF OnPush, world
    <3> QED
      BY <3>2, <3>3 DEF Feed!Next, Feed!Deliver
  <2>2. CASE PeerDraw
    <3>1. delivered' = delivered
      BY <2>2 DEF PeerDraw, client
    <3>2. issued' = issued \/ (issued < MaxSeq /\ issued' = issued + 1)
      BY <2>2 DEF PeerDraw, TypeOK, FeedInv, InFlightIssued
    <3> QED
      BY <3>1, <3>2 DEF Feed!Next, Feed!Publish
  <2>3. CASE UNCHANGED <<issued, delivered>>
    BY <2>3
  <2>4. \/ \E t \in Readers : OnPush(t)
        \/ PeerDraw
        \/ UNCHANGED <<issued, delivered>>
    BY ZenonT(30) DEF Next, CallerStep, ReaderStep, BeatStep, ReconStep, NetStep, ConnectStep, ReadStep,
           TriggerStep, PeerReplies, ConnectCall, MayConnect, CloseCall, Dial, DialFails, SendLogin,
           SendLoginFails, ReadLoginResp, Established, Failed, Capture, CaptureFails,
           ReadFails, Spawn, Started, CloseCas2, CloseCas3, CompareAndClose, CloseStop, CloseDetach,
           ReadNext, ReadPush, Dedup, Stale, StoreSeq, TriggerLoad, TriggerMark, TriggerSignal,
           Tick, BeatCapture, BeatWrite, BeatFails, PingInTime, PingTimeout, TakeToken,
           DropOld, ResetCount, Stop, PeerAuth, PeerAnswer, PeerStep, PeerDeny, Cut,
           PeerPush, SlowLogin, DeadlinePasses, LinkBreaks, PeerRestart, client, world, vars
  <2> QED
    BY <2>1, <2>2, <2>3, <2>4
<1> QED
  BY <1>1, <1>2, FeedAlways, PTL DEF Spec, ImplementsFeed, Feed!Spec
=============================================================================
