------------------------ MODULE RecordingProxyProofs ------------------------
(***************************************************************************)
(* Proofs about RecordingProxy, for any number of pairs and messages of    *)
(* any kind.                                                               *)
(***************************************************************************)
EXTENDS RecordingProxy, TLAPS

USE ProxyConstants DEF ProxyConstants

\* A link is the pair of its components.
LEMMA LinkParts ==
  ASSUME NEW l \in Links
  PROVE  l[1] \in Pairs /\ l[2] \in Ends /\ l = <<l[1], l[2]>>
BY DEF Links

\* Which number a message that is read gets.
LEMMA NextNumber ==
  ASSUME ProxyTypeOK, NEW l \in Links, taken[l] < sent[l]
  PROVE  taken[l] + 1 \in 1..MaxMsgs
<1>1. taken[l] \in 0..MaxMsgs /\ sent[l] \in 0..MaxMsgs
  BY DEF ProxyTypeOK
<1> QED BY <1>1

-----------------------------------------------------------------------------
(* Type correctness.  A goroutine that carries a message has taken one.    *)

Carrying == {"frame", "event", "note", "write"}
HandFull == \A l \in Links : loop[l] \in Carrying => taken[l] \in 1..MaxMsgs

TypeInv == ProxyTypeOK /\ HandFull

LEMMA TypeInvInit == ProxyInit => TypeInv
<1> SUFFICES ASSUME ProxyInit PROVE TypeInv
  OBVIOUS
<1>1. handler \in [Pairs -> HandlerStates] /\ ctx \in [Pairs -> BOOLEAN]
  BY DEF ProxyInit, HandlerStates
<1>2. loop \in [Links -> LoopPoints] /\ sent \in [Links -> 0..MaxMsgs] /\ taken \in [Links -> 0..MaxMsgs]
  BY DEF ProxyInit, LoopPoints
<1>3. forwarded \in [Links -> Seq(1..MaxMsgs)] /\ recorded \in [Links -> Seq(1..MaxMsgs)]
      /\ logged \in [Pairs -> Seq(Event)]
  BY DEF ProxyInit
<1>4. closed \in [Pairs -> SUBSET Ends] /\ peer \in [Pairs -> [Ends -> {"reads", "stuck", "left"}]]
  BY DEF ProxyInit
<1>5. HandFull
  BY DEF ProxyInit, HandFull, Carrying
<1> QED BY <1>1, <1>2, <1>3, <1>4, <1>5 DEF ProxyTypeOK, TypeInv

\* What an appended event leaves of the log's type.
LEMMA RecordEventType ==
  ASSUME ProxyTypeOK, NEW p \in Pairs, NEW type \in EventTypes, NEW from \in Ends,
         NEW n \in 0..MaxMsgs, RecordEvent(p, type, from, n)
  PROVE  logged' \in [Pairs -> Seq(Event)]
<1>1. [type |-> type, from |-> from, n |-> n] \in Event
  BY DEF Event
<1>2. logged \in [Pairs -> Seq(Event)]
  BY DEF ProxyTypeOK
<1>3. Append(logged[p], [type |-> type, from |-> from, n |-> n]) \in Seq(Event)
  BY <1>1, <1>2
<1> QED BY <1>2, <1>3 DEF RecordEvent

\* The handler's steps.
LEMMA HandlerType ==
  ASSUME TypeInv, NEW p \in Pairs, Upgrade(p) \/ Handle(p)
  PROVE  TypeInv'
<1> USE DEF TypeInv
<1>1. CASE Upgrade(p)
  BY <1>1 DEF Upgrade, ProxyTypeOK, HandFull, HandlerStates, transfers, recording
<1>2. CASE StartProxy(p)
  <2>1. logged' \in [Pairs -> Seq(Event)]
    BY <1>2, RecordEventType DEF StartProxy, EventTypes, Ends
  <2>2. loop' \in [Links -> LoopPoints]
    BY <1>2 DEF StartProxy, ProxyTypeOK, LoopPoints
  <2>3. HandFull'
    BY <1>2 DEF StartProxy, HandFull, Carrying, transfers, ProxyTypeOK
  <2> QED BY <1>2, <2>1, <2>2, <2>3 DEF StartProxy, ProxyTypeOK, HandlerStates, transfers
<1>3. CASE DialFails(p)
  BY <1>3 DEF DialFails, ProxyTypeOK, HandFull, HandlerStates, Ends, transfers, recording
<1>4. CASE Disconnect(p)
  <2>1. logged' \in [Pairs -> Seq(Event)]
    BY <1>4, RecordEventType DEF Disconnect, EventTypes, Ends
  <2> QED BY <1>4, <2>1 DEF Disconnect, ProxyTypeOK, HandFull, HandlerStates, transfers
<1>5. CASE CloseServer(p)
  BY <1>5 DEF CloseServer, ProxyTypeOK, HandFull, Ends, transfers, recording
<1>6. CASE CloseClient(p)
  BY <1>6 DEF CloseClient, ProxyTypeOK, HandFull, HandlerStates, Ends, transfers, recording
<1> QED BY <1>1, <1>2, <1>3, <1>4, <1>5, <1>6 DEF Handle

\* The goroutines' steps.
LEMMA CarryType ==
  ASSUME TypeInv, NEW l \in Links, Carry(l)
  PROVE  TypeInv'
<1> USE DEF TypeInv
<1>0. l[1] \in Pairs /\ l[2] \in Ends /\ loop \in [Links -> LoopPoints] /\ ctx \in [Pairs -> BOOLEAN]
  BY LinkParts DEF ProxyTypeOK
<1>1. CASE Top(l)
  <2>1. loop' \in [Links -> LoopPoints] /\ ctx' \in [Pairs -> BOOLEAN]
        /\ \A k \in Links : loop'[k] \in Carrying => loop[k] \in Carrying
    BY <1>0, <1>1 DEF Top, Return, Proceed, LoopPoints, Carrying
  <2> QED BY <1>1, <2>1 DEF Top, ProxyTypeOK, HandFull, transfers, recording
<1>2. CASE ReadMessage(l)
  <2>1. taken[l] + 1 \in 1..MaxMsgs
    BY <1>2, NextNumber DEF ReadMessage
  <2>2. taken' \in [Links -> 0..MaxMsgs] /\ loop' \in [Links -> LoopPoints]
    BY <1>0, <1>2, <2>1 DEF ReadMessage, Proceed, ProxyTypeOK, LoopPoints
  <2>3. HandFull'
    BY <1>0, <1>2, <2>1 DEF ReadMessage, Proceed, ProxyTypeOK, HandFull, Carrying
  <2> QED BY <1>2, <2>2, <2>3 DEF ReadMessage, ProxyTypeOK, recording
<1>3. CASE ReadFails(l)
  BY <1>0, <1>3 DEF ReadFails, Return, Proceed, ProxyTypeOK, HandFull, Carrying, LoopPoints, transfers, recording
<1>4. CASE RecordFrame(l)
  <2>1. taken[l] \in 1..MaxMsgs
    BY <1>4 DEF RecordFrame, Proceed, HandFull, Carrying
  <2>2. recorded' \in [Links -> Seq(1..MaxMsgs)]
    BY <1>4, <2>1 DEF RecordFrame, ProxyTypeOK
  <2> QED BY <1>0, <1>4, <2>2 DEF RecordFrame, Proceed, ProxyTypeOK, HandFull, Carrying, LoopPoints, transfers
<1>5. CASE RecordSend(l)
  <2>1. logged' \in [Pairs -> Seq(Event)]
    BY <1>0, <1>5, RecordEventType DEF RecordSend, ProxyTypeOK, EventTypes, Source
  <2> QED BY <1>0, <1>5, <2>1 DEF RecordSend, Proceed, ProxyTypeOK, HandFull, Carrying, LoopPoints, transfers
<1>6. CASE NoteEvent(l)
  <2>1. logged' \in [Pairs -> Seq(Event)]
    BY <1>0, <1>6, RecordEventType DEF NoteEvent, ProxyTypeOK, EventTypes, Source
  <2> QED BY <1>0, <1>6, <2>1 DEF NoteEvent, Proceed, ProxyTypeOK, HandFull, Carrying, LoopPoints, transfers
<1>7. CASE WriteMessage(l)
  <2>1. taken[l] \in 1..MaxMsgs
    BY <1>7 DEF WriteMessage, Proceed, HandFull, Carrying
  <2>2. forwarded' \in [Links -> Seq(1..MaxMsgs)]
    BY <1>7, <2>1 DEF WriteMessage, ProxyTypeOK
  <2> QED BY <1>0, <1>7, <2>2 DEF WriteMessage, Proceed, ProxyTypeOK, HandFull, Carrying, LoopPoints, recording
<1>8. CASE WriteFails(l)
  BY <1>0, <1>8 DEF WriteFails, Return, Proceed, ProxyTypeOK, HandFull, Carrying, LoopPoints, transfers, recording
<1> QED BY <1>1, <1>2, <1>3, <1>4, <1>5, <1>6, <1>7, <1>8 DEF Carry

LEMMA TypeInvStep == TypeInv /\ [ProxyNext]_proxyVars => TypeInv'
<1> SUFFICES ASSUME TypeInv, [ProxyNext]_proxyVars PROVE TypeInv'
  OBVIOUS
<1>1. ASSUME NEW p \in Pairs, Upgrade(p) \/ Handle(p) PROVE TypeInv'
  BY <1>1, HandlerType
<1>2. ASSUME NEW l \in Links, Carry(l) PROVE TypeInv'
  BY <1>2, CarryType
<1>3. ASSUME NEW l \in Links, Send(l) PROVE TypeInv'
  <2>1. sent[l] + 1 \in 0..MaxMsgs
    BY <1>3 DEF Send, TypeInv, ProxyTypeOK
  <2> QED BY <1>3, <2>1 DEF Send, TypeInv, ProxyTypeOK, HandFull, transfers, recording
<1>4. ASSUME NEW p \in Pairs, NEW e \in Ends, Turn(p, e, "stuck") \/ Turn(p, e, "left")
      PROVE  TypeInv'
  <2>1. PICK what \in {"stuck", "left"} : Turn(p, e, what)
    BY <1>4
  <2>2. peer' \in [Pairs -> [Ends -> {"reads", "stuck", "left"}]]
    BY <2>1 DEF Turn, TypeInv, ProxyTypeOK
  <2>3. UNCHANGED <<handler, ctx, loop, sent, taken, forwarded, recorded, logged, closed>>
    BY <2>1 DEF Turn, transfers, recording
  <2> QED BY <2>2, <2>3 DEF TypeInv, ProxyTypeOK, HandFull
<1>5. CASE UNCHANGED proxyVars
  BY <1>5 DEF proxyVars, TypeInv, ProxyTypeOK, HandFull, transfers, recording
<1> QED BY <1>1, <1>2, <1>3, <1>4, <1>5 DEF ProxyNext

(***************************************************************************)
(* Every variable of the proxy keeps its shape, for any number of pairs.   *)
(***************************************************************************)
THEOREM ProxyTypeCorrect == ProxySpec => []ProxyTypeOK
<1>1. TypeInv => ProxyTypeOK
  BY DEF TypeInv
<1> QED BY <1>1, TypeInvInit, TypeInvStep, PTL DEF ProxySpec

-----------------------------------------------------------------------------
(* The phases of a pair.                                                   *)

Disconnected(p) == \E k \in 1..Len(logged[p]) : logged[p][k].type = "DISCONNECT"

\* Before StartProxy nothing moves; the context is cancelled by a goroutine
\* that has ended; the disconnect is recorded after that.
Phase(p) ==
  /\ handler[p] \in {"off", "dial"} => ~ctx[p] /\ \A e \in Ends : loop[<<p, e>>] = "off"
  /\ ctx[p] => \E e \in Ends : loop[<<p, e>>] = "ended"
  /\ Disconnected(p) => handler[p] \in {"closing", "closed"} /\ ctx[p]
PhaseInv == \A p \in Pairs : Phase(p)

LEMMA PhaseInvInit == ProxyInit => PhaseInv
<1> SUFFICES ASSUME ProxyInit, NEW p \in Pairs PROVE Phase(p)
  BY DEF PhaseInv
<1>1. \A e \in Ends : <<p, e>> \in Links
  BY DEF Links
<1>2. handler[p] = "off" /\ ctx[p] = FALSE /\ \A e \in Ends : loop[<<p, e>>] = "off"
  BY <1>1 DEF ProxyInit
<1>3. ~Disconnected(p)
  BY DEF ProxyInit, Disconnected
<1> QED BY <1>2, <1>3 DEF Phase

\* What RecordEvent does to the log of its pair and of the others.
LEMMA LogGrows ==
  ASSUME TypeInv, NEW p \in Pairs, NEW type, NEW from, NEW n, RecordEvent(p, type, from, n)
  PROVE  /\ \A q \in Pairs : q # p => logged'[q] = logged[q]
         /\ Len(logged[p]) \in Nat /\ Len(logged'[p]) = Len(logged[p]) + 1
         /\ \A i \in 1..Len(logged[p]) : logged'[p][i] = logged[p][i]
         /\ logged'[p][Len(logged[p]) + 1] = [type |-> type, from |-> from, n |-> n]
<1>1. logged \in [Pairs -> Seq(Event)] /\ logged[p] \in Seq(Event)
  BY DEF TypeInv, ProxyTypeOK
<1>2. logged'[p] = Append(logged[p], [type |-> type, from |-> from, n |-> n])
      /\ \A q \in Pairs : q # p => logged'[q] = logged[q]
  BY <1>1 DEF RecordEvent
<1> QED BY <1>1, <1>2

LEMMA DisconnectedGrows ==
  ASSUME TypeInv, NEW p \in Pairs, NEW type, NEW from, NEW n, RecordEvent(p, type, from, n),
         type # "DISCONNECT"
  PROVE  \A q \in Pairs : Disconnected(q)' => Disconnected(q)
<1> SUFFICES ASSUME NEW q \in Pairs, Disconnected(q)' PROVE Disconnected(q)
  OBVIOUS
<1>1. CASE q # p
  BY <1>1, LogGrows DEF Disconnected
<1>2. CASE q = p
  <2>1. PICK k \in 1..Len(logged'[p]) : logged'[p][k].type = "DISCONNECT"
    BY <1>2 DEF Disconnected
  <2>2. /\ Len(logged[p]) \in Nat /\ Len(logged'[p]) = Len(logged[p]) + 1
        /\ \A i \in 1..Len(logged[p]) : logged'[p][i] = logged[p][i]
        /\ logged'[p][Len(logged[p]) + 1] = [type |-> type, from |-> from, n |-> n]
    BY LogGrows
  <2>3. [type |-> type, from |-> from, n |-> n].type = type
    OBVIOUS
  <2>4. k # Len(logged[p]) + 1
    BY <2>1, <2>2, <2>3
  <2>5. k \in 1..Len(logged[p])
    BY <2>1, <2>2, <2>4
  <2> QED BY <1>2, <2>1, <2>2, <2>5 DEF Disconnected
<1> QED BY <1>1, <1>2

\* A step that leaves the handler, the context and the log of q alone.
LEMMA PhaseUntouched ==
  ASSUME NEW q \in Pairs, Phase(q), UNCHANGED <<handler[q], ctx[q]>>,
         Disconnected(q)' => Disconnected(q),
         \A e \in Ends : loop[<<q, e>>] \in {"off", "ended"} => loop'[<<q, e>>] = loop[<<q, e>>]
  PROVE  Phase(q)'
BY DEF Phase

LEMMA PhaseHandle ==
  ASSUME TypeInv, PhaseInv, NEW p \in Pairs, Upgrade(p) \/ Handle(p), NEW q \in Pairs
  PROVE  Phase(q)'
<1>0. Phase(q) /\ handler \in [Pairs -> HandlerStates] /\ ctx \in [Pairs -> BOOLEAN]
      /\ \A e \in Ends : <<q, e>> \in Links /\ <<q, e>>[1] = q
  BY DEF PhaseInv, TypeInv, ProxyTypeOK, Links
<1>1. CASE Upgrade(p) \/ DialFails(p) \/ CloseServer(p) \/ CloseClient(p)
  <2>1. UNCHANGED <<ctx, loop, logged>>
    BY <1>1 DEF Upgrade, DialFails, CloseServer, CloseClient, recording
  <2>2. \/ handler'[q] = handler[q]
        \/ handler[q] = "off" /\ handler'[q] = "dial"
        \/ handler[q] = "dial" /\ handler'[q] = "closed"
        \/ handler[q] = "closing" /\ handler'[q] = "closed"
    BY <1>0, <1>1 DEF Upgrade, DialFails, CloseServer, CloseClient
  <2> QED BY <1>0, <2>1, <2>2 DEF Phase, Disconnected
<1>2. CASE StartProxy(p)
  <2>1. Disconnected(q)' => Disconnected(q)
    BY <1>2, DisconnectedGrows DEF StartProxy
  <2>2. CASE q = p
    <3>1. ~ctx[q] /\ ~Disconnected(q)
      BY <1>0, <1>2, <2>2 DEF StartProxy, Phase
    <3>2. ctx'[q] = ctx[q] /\ handler'[q] = "proxying"
      BY <1>0, <1>2, <2>2 DEF StartProxy
    <3> QED BY <2>1, <3>1, <3>2 DEF Phase
  <2>3. CASE q # p
    <3>1. UNCHANGED <<handler[q], ctx[q]>> /\ \A e \in Ends : loop'[<<q, e>>] = loop[<<q, e>>]
      BY <1>0, <1>2, <2>3 DEF StartProxy
    <3> QED BY <1>0, <2>1, <3>1, PhaseUntouched
  <2> QED BY <2>2, <2>3
<1>3. CASE Disconnect(p)
  <2>1. CASE q = p
    <3>1. ctx'[q] /\ UNCHANGED <<ctx, loop>> /\ handler'[q] = "closing"
      BY <1>0, <1>3, <2>1 DEF Disconnect
    <3> QED BY <1>0, <3>1 DEF Phase
  <2>2. CASE q # p
    <3>1. UNCHANGED <<handler[q], ctx[q], loop>> /\ logged'[q] = logged[q]
      BY <1>0, <1>3, <2>2, LogGrows, ZenonT(30) DEF Disconnect
    <3> QED BY <1>0, <3>1, PhaseUntouched DEF Disconnected
  <2> QED BY <2>1, <2>2
<1> QED BY <1>1, <1>2, <1>3 DEF Handle

LEMMA PhaseCarry ==
  ASSUME TypeInv, PhaseInv, NEW l \in Links, Carry(l), NEW q \in Pairs
  PROVE  Phase(q)'
<1>0. Phase(q) /\ Phase(l[1]) /\ l[1] \in Pairs /\ l[2] \in Ends /\ l = <<l[1], l[2]>>
      /\ loop \in [Links -> LoopPoints] /\ ctx \in [Pairs -> BOOLEAN]
      /\ \A e \in Ends : <<q, e>> \in Links
  BY LinkParts DEF PhaseInv, TypeInv, ProxyTypeOK, Links
<1>1. handler' = handler /\ loop[l] \notin {"off", "ended"}
      /\ \A k \in Links : k # l => loop'[k] = loop[k]
  BY <1>0 DEF Carry, Top, ReadMessage, ReadFails, RecordFrame, RecordSend, NoteEvent,
              WriteMessage, WriteFails, Return, Proceed
<1>2. Disconnected(q)' => Disconnected(q)
  <2>1. CASE RecordSend(l)
    BY <1>0, <2>1, DisconnectedGrows DEF RecordSend
  <2>2. CASE NoteEvent(l)
    <3>1. (IF Source(l) = "client" THEN "SEND" ELSE "RECEIVE") # "DISCONNECT"
      OBVIOUS
    <3> QED BY <1>0, <2>2, <3>1, DisconnectedGrows DEF NoteEvent
  <2>3. CASE logged' = logged
    BY <2>3 DEF Disconnected
  <2> QED BY <2>1, <2>2, <2>3 DEF Carry, Top, ReadMessage, ReadFails, RecordFrame, WriteMessage,
                                  WriteFails, recording
<1>3. CASE ctx' = ctx
  <2>1. \A e \in Ends : loop[<<q, e>>] \in {"off", "ended"} => loop'[<<q, e>>] = loop[<<q, e>>]
    BY <1>0, <1>1
  <2> QED BY <1>0, <1>1, <1>2, <1>3, <2>1, PhaseUntouched
<1>4. CASE loop'[l] = "ended" /\ ctx' = [ctx EXCEPT ![l[1]] = TRUE]
  <2>1. CASE q = l[1]
    <3>1. handler[q] \notin {"off", "dial"}
      BY <1>0, <1>1, <2>1 DEF Phase
    <3>2. \E e \in Ends : loop'[<<q, e>>] = "ended"
      BY <1>0, <1>4, <2>1
    <3>3. ctx'[q]
      BY <1>0, <1>4, <2>1
    <3> QED BY <1>0, <1>1, <1>2, <3>1, <3>2, <3>3 DEF Phase
  <2>2. CASE q # l[1]
    <3>1. ctx'[q] = ctx[q] /\ \A e \in Ends : loop'[<<q, e>>] = loop[<<q, e>>]
      BY <1>0, <1>1, <1>4, <2>2
    <3> QED BY <1>0, <1>1, <1>2, <3>1, PhaseUntouched
  <2> QED BY <2>1, <2>2
<1> QED BY <1>0, <1>3, <1>4 DEF Carry, Top, ReadMessage, ReadFails, RecordFrame, RecordSend, NoteEvent,
                          WriteMessage, WriteFails, Return, Proceed

LEMMA PhaseInvStep == TypeInv /\ PhaseInv /\ [ProxyNext]_proxyVars => PhaseInv'
<1> SUFFICES ASSUME TypeInv, PhaseInv, [ProxyNext]_proxyVars, NEW q \in Pairs PROVE Phase(q)'
  BY DEF PhaseInv
<1>0. Phase(q)
  BY DEF PhaseInv
<1>1. ASSUME NEW p \in Pairs, Upgrade(p) \/ Handle(p) PROVE Phase(q)'
  BY <1>1, PhaseHandle
<1>2. ASSUME NEW l \in Links, Carry(l) PROVE Phase(q)'
  BY <1>2, PhaseCarry
<1>3. ASSUME NEW l \in Links, Send(l) PROVE Phase(q)'
  BY <1>0, <1>3, PhaseUntouched DEF Send, Disconnected, recording
<1>4. ASSUME NEW p \in Pairs, NEW e \in Ends, Turn(p, e, "stuck") \/ Turn(p, e, "left")
      PROVE  Phase(q)'
  BY <1>0, <1>4, PhaseUntouched DEF Turn, Disconnected, recording
<1>5. CASE UNCHANGED proxyVars
  BY <1>0, <1>5, PhaseUntouched DEF proxyVars, Disconnected, recording
<1> QED BY <1>1, <1>2, <1>3, <1>4, <1>5 DEF ProxyNext

-----------------------------------------------------------------------------
(* The recording follows the traffic.                                      *)

\* What was recorded and forwarded does not go beyond the message in hand,
\* and that one is in both, one or none according to where the goroutine is.
Within(l) ==
  /\ \A i \in 1..Len(recorded[l]) :
       recorded[l][i] <= taken[l] /\ (loop[l] = "frame" => recorded[l][i] < taken[l])
  /\ \A i \in 1..Len(forwarded[l]) :
       forwarded[l][i] <= taken[l] /\ (loop[l] \in Carrying => forwarded[l][i] < taken[l])

InHand(l) ==
  /\ loop[l] \in {"event", "note"} => Holds(recorded[l], taken[l])
  /\ loop[l] = "write" =>
       KindOf(l, taken[l]) = "short" \/ Holds(recorded[l], taken[l])
  /\ loop[l] \in {"off", "top", "read"} =>
       \A i \in 1..Len(recorded[l]) : Holds(forwarded[l], recorded[l][i])

\* RecordingFollows, of one link.
Follows(l) ==
  /\ InOrder(recorded[l]) /\ InOrder(forwarded[l])
  /\ \A i \in 1..Len(forwarded[l]) :
       KindOf(l, forwarded[l][i]) # "short" => Holds(recorded[l], forwarded[l][i])
  /\ \A i \in 1..Len(recorded[l]) :
       recorded[l][i] # taken[l] => Holds(forwarded[l], recorded[l][i])

LinkInv(l) == Within(l) /\ InHand(l) /\ Follows(l)
RecordInv == \A l \in Links : LinkInv(l)

LEMMA RecordInvInit == ProxyInit => RecordInv
BY DEF ProxyInit, RecordInv, LinkInv, Within, InHand, Follows, InOrder, Holds

\* A number larger than all the others keeps a list in order.
LEMMA AppendLargest ==
  ASSUME NEW s \in Seq(Nat), NEW n \in Nat, InOrder(s), \A i \in 1..Len(s) : s[i] < n
  PROVE  InOrder(Append(s, n))
<1>1. Len(Append(s, n)) = Len(s) + 1 /\ Append(s, n)[Len(s) + 1] = n
      /\ \A i \in 1..Len(s) : Append(s, n)[i] = s[i] /\ s[i] \in Nat
  OBVIOUS
<1>2. SUFFICES ASSUME NEW i \in 1..(Len(s) + 1), NEW j \in 1..(Len(s) + 1), i < j
               PROVE  Append(s, n)[i] < Append(s, n)[j]
  BY <1>1 DEF InOrder
<1>3. Len(s) \in Nat /\ i \in 1..Len(s) /\ (j \in 1..Len(s) \/ j = Len(s) + 1)
  <2>1. Len(s) \in Nat
    OBVIOUS
  <2> QED BY <1>2, <2>1, SMTT(30)
<1>4. CASE j \in 1..Len(s)
  BY <1>1, <1>2, <1>3, <1>4 DEF InOrder
<1>5. CASE j = Len(s) + 1
  <2>1. Append(s, n)[i] = s[i] /\ s[i] < n
    BY <1>1, <1>3
  <2>2. Append(s, n)[j] = n
    BY <1>1, <1>5
  <2> QED BY <2>1, <2>2
<1> QED BY <1>2, <1>3, <1>4, <1>5

LEMMA AppendHolds ==
  ASSUME NEW s \in Seq(Nat), NEW n \in Nat
  PROVE  /\ Holds(Append(s, n), n)
         /\ \A m : Holds(s, m) => Holds(Append(s, n), m)
         /\ \A i \in 1..Len(Append(s, n)) :
              (i \in 1..Len(s) /\ Append(s, n)[i] = s[i]) \/ Append(s, n)[i] = n
<1>1. Len(s) \in Nat /\ Len(Append(s, n)) = Len(s) + 1 /\ Append(s, n)[Len(s) + 1] = n
      /\ \A i \in 1..Len(s) : Append(s, n)[i] = s[i]
  OBVIOUS
<1>2. Holds(Append(s, n), n)
  <2>1. Len(s) + 1 \in 1..Len(Append(s, n))
    BY <1>1
  <2> QED BY <1>1, <2>1 DEF Holds
<1>3. ASSUME NEW m, Holds(s, m) PROVE Holds(Append(s, n), m)
  <2>1. PICK i \in 1..Len(s) : s[i] = m
    BY <1>3 DEF Holds
  <2>2. i \in 1..Len(Append(s, n))
    BY <1>1
  <2> QED BY <1>1, <2>1, <2>2 DEF Holds
<1>4. ASSUME NEW i \in 1..Len(Append(s, n))
      PROVE  (i \in 1..Len(s) /\ Append(s, n)[i] = s[i]) \/ Append(s, n)[i] = n
  BY <1>1
<1> QED BY <1>2, <1>3, <1>4

\* The lists of a link are lists of numbers.
LEMMA ListTypes ==
  ASSUME TypeInv, NEW l \in Links
  PROVE  /\ recorded[l] \in Seq(Nat) /\ forwarded[l] \in Seq(Nat) /\ taken[l] \in Nat
         /\ \A i \in 1..Len(recorded[l]) : recorded[l][i] \in Nat
         /\ \A i \in 1..Len(forwarded[l]) : forwarded[l][i] \in Nat
<1>1. recorded[l] \in Seq(1..MaxMsgs) /\ forwarded[l] \in Seq(1..MaxMsgs)
      /\ taken[l] \in 0..MaxMsgs
  BY DEF TypeInv, ProxyTypeOK
<1>2. \A s \in Seq(1..MaxMsgs) : s \in Seq(Nat)
  OBVIOUS
<1> QED BY <1>1, <1>2

\* A step that leaves a link's lists alone and moves its goroutine to a place
\* that asks for no more.
LEMMA LinkUntouched ==
  ASSUME NEW l \in Links, LinkInv(l),
         UNCHANGED <<taken[l], recorded[l], forwarded[l]>>,
         loop'[l] = loop[l] \/ loop'[l] = "ended" \/ (loop[l] = "top" /\ loop'[l] = "read")
           \/ (loop[l] = "off" /\ loop'[l] = "top")
           \/ (loop[l] \in {"event", "note"} /\ loop'[l] \in {"note", "write"})
  PROVE  LinkInv(l)'
BY DEF LinkInv, Within, InHand, Follows, KindOf, Source, Carrying

\* One step of the goroutine that carries l.
LEMMA CarryRecord ==
  ASSUME TypeInv, NEW l \in Links, LinkInv(l), Carry(l)
  PROVE  LinkInv(l)'
<1>0. /\ loop \in [Links -> LoopPoints] /\ taken \in [Links -> 0..MaxMsgs]
      /\ recorded \in [Links -> Seq(1..MaxMsgs)] /\ forwarded \in [Links -> Seq(1..MaxMsgs)]
  BY DEF TypeInv, ProxyTypeOK
<1>1. recorded[l] \in Seq(Nat) /\ forwarded[l] \in Seq(Nat) /\ taken[l] \in Nat
      /\ (\A i \in 1..Len(recorded[l]) : recorded[l][i] \in Nat)
      /\ (\A i \in 1..Len(forwarded[l]) : forwarded[l][i] \in Nat)
  BY ListTypes
<1>2. CASE Top(l) \/ ReadFails(l) \/ RecordSend(l) \/ NoteEvent(l) \/ WriteFails(l)
  <2>1. UNCHANGED <<taken[l], recorded[l], forwarded[l]>>
    BY <1>2 DEF Top, ReadFails, RecordSend, NoteEvent, WriteFails, transfers, recording
  <2>2. \/ loop'[l] = "ended"
        \/ loop[l] = "top" /\ loop'[l] = "read"
        \/ loop[l] \in {"event", "note"} /\ loop'[l] \in {"note", "write"}
    BY <1>0, <1>2 DEF Top, ReadFails, RecordSend, NoteEvent, WriteFails, Return, Proceed
  <2> QED BY <2>1, <2>2, LinkUntouched
<1>3. CASE ReadMessage(l)
  <2>1. /\ taken'[l] = taken[l] + 1 /\ recorded'[l] = recorded[l] /\ forwarded'[l] = forwarded[l]
        /\ loop[l] = "read"
        /\ loop'[l] = IF KindOf(l, taken[l] + 1) = "short" THEN "write" ELSE "frame"
    BY <1>0, <1>3 DEF ReadMessage, Proceed, recording
  <2>2. /\ \A i \in 1..Len(recorded[l]) : recorded[l][i] < taken[l] + 1
        /\ \A i \in 1..Len(forwarded[l]) : forwarded[l][i] < taken[l] + 1
    BY <1>1, SMTT(30) DEF LinkInv, Within
  <2>3. Within(l)'
    <3>1. \A i \in 1..Len(recorded[l]) : recorded[l][i] <= taken[l] + 1
      BY <1>1, <2>2
    <3>2. \A i \in 1..Len(forwarded[l]) : forwarded[l][i] <= taken[l] + 1
      BY <1>1, <2>2
    <3> QED BY <2>1, <2>2, <3>1, <3>2 DEF Within
  <2>4. InHand(l)'
    BY <2>1 DEF InHand, KindOf, Source
  <2>5. Follows(l)'
    BY <2>1 DEF LinkInv, InHand, Follows, KindOf, Source
  <2> QED BY <2>3, <2>4, <2>5 DEF LinkInv
<1>4. CASE RecordFrame(l)
  <2>1. /\ taken'[l] = taken[l] /\ forwarded'[l] = forwarded[l]
        /\ recorded'[l] = Append(recorded[l], taken[l])
        /\ loop[l] = "frame" /\ loop'[l] = "event"
    BY <1>0, <1>4 DEF RecordFrame, Proceed, transfers
  <2>2. /\ Holds(recorded'[l], taken[l])
        /\ \A m : Holds(recorded[l], m) => Holds(recorded'[l], m)
        /\ \A i \in 1..Len(recorded'[l]) :
             (i \in 1..Len(recorded[l]) /\ recorded'[l][i] = recorded[l][i])
               \/ recorded'[l][i] = taken[l]
    BY <1>1, <2>1, AppendHolds
  <2>3. InOrder(recorded'[l])
    BY <1>1, <2>1, AppendLargest DEF LinkInv, Within, Follows
  <2>4. Within(l)'
    BY <1>1, <2>1, <2>2 DEF LinkInv, Within, Carrying
  <2>5. InHand(l)'
    BY <2>1, <2>2 DEF InHand
  <2>6. Follows(l)'
    BY <2>1, <2>2, <2>3 DEF LinkInv, Follows, KindOf, Source
  <2> QED BY <2>4, <2>5, <2>6 DEF LinkInv
<1>5. CASE WriteMessage(l)
  <2>1. /\ taken'[l] = taken[l] /\ recorded'[l] = recorded[l]
        /\ forwarded'[l] = Append(forwarded[l], taken[l])
        /\ loop[l] = "write" /\ loop'[l] = "top"
    BY <1>0, <1>5 DEF WriteMessage, Proceed, recording
  <2>2. /\ Holds(forwarded'[l], taken[l])
        /\ \A m : Holds(forwarded[l], m) => Holds(forwarded'[l], m)
        /\ \A i \in 1..Len(forwarded'[l]) :
             (i \in 1..Len(forwarded[l]) /\ forwarded'[l][i] = forwarded[l][i])
               \/ forwarded'[l][i] = taken[l]
    BY <1>1, <2>1, AppendHolds
  <2>3. InOrder(forwarded'[l])
    BY <1>1, <2>1, AppendLargest DEF LinkInv, Within, Follows, Carrying
  <2>4. Within(l)'
    BY <1>1, <2>1, <2>2 DEF LinkInv, Within, Carrying
  <2>5. \A i \in 1..Len(recorded[l]) : Holds(forwarded'[l], recorded[l][i])
    BY <2>2 DEF LinkInv, Follows
  <2>6. InHand(l)'
    BY <2>1, <2>5 DEF InHand
  <2>7. KindOf(l, taken[l]) = "short" \/ Holds(recorded[l], taken[l])
    BY <2>1 DEF LinkInv, InHand
  <2>8. Follows(l)'
    BY <2>1, <2>2, <2>3, <2>5, <2>7 DEF LinkInv, Follows, KindOf, Source
  <2> QED BY <2>4, <2>6, <2>8 DEF LinkInv
<1> QED BY <1>2, <1>3, <1>4, <1>5 DEF Carry

\* The goroutine of another link leaves l alone.
LEMMA CarryOther ==
  ASSUME TypeInv, NEW l \in Links, NEW k \in Links, k # l, Carry(k)
  PROVE  UNCHANGED <<taken[l], recorded[l], forwarded[l], loop[l]>>
BY DEF TypeInv, ProxyTypeOK, Carry, Top, ReadMessage, ReadFails, RecordFrame, RecordSend, NoteEvent,
       WriteMessage, WriteFails, Return, Proceed, transfers, recording

LEMMA RecordInvStep == TypeInv /\ PhaseInv /\ RecordInv /\ [ProxyNext]_proxyVars => RecordInv'
<1> SUFFICES ASSUME TypeInv, PhaseInv, RecordInv, [ProxyNext]_proxyVars, NEW l \in Links
             PROVE  LinkInv(l)'
  BY DEF RecordInv
<1>0. LinkInv(l)
  BY DEF RecordInv
<1>1. ASSUME NEW p \in Pairs, Upgrade(p) \/ Handle(p) PROVE LinkInv(l)'
  <2>1. UNCHANGED <<taken[l], recorded[l], forwarded[l]>>
    BY <1>1 DEF Upgrade, Handle, StartProxy, DialFails, Disconnect, CloseServer, CloseClient,
                transfers, recording
  <2>2. CASE loop'[l] = loop[l]
    BY <1>0, <2>1, <2>2, LinkUntouched
  <2>3. CASE StartProxy(p) /\ loop'[l] # loop[l]
    <3>1. loop'[l] = "top" /\ l[1] = p
      BY <2>3 DEF StartProxy
    <3>2. loop[l] = "off"
      BY <2>3, <3>1, LinkParts DEF StartProxy, PhaseInv, Phase
    <3> QED BY <1>0, <2>1, <3>1, <3>2, LinkUntouched
  <2> QED BY <1>1, <2>2, <2>3 DEF Upgrade, Handle, DialFails, Disconnect, CloseServer, CloseClient
<1>2. ASSUME NEW k \in Links, Carry(k) PROVE LinkInv(l)'
  BY <1>0, <1>2, CarryRecord, CarryOther, LinkUntouched
<1>3. ASSUME NEW k \in Links, Send(k) PROVE LinkInv(l)'
  BY <1>0, <1>3, LinkUntouched DEF Send, transfers, recording
<1>4. ASSUME NEW p \in Pairs, NEW e \in Ends, Turn(p, e, "stuck") \/ Turn(p, e, "left")
      PROVE  LinkInv(l)'
  BY <1>0, <1>4, LinkUntouched DEF Turn, transfers, recording
<1>5. CASE UNCHANGED proxyVars
  BY <1>0, <1>5, LinkUntouched DEF proxyVars, transfers, recording
<1> QED BY <1>1, <1>2, <1>3, <1>4, <1>5 DEF ProxyNext

(***************************************************************************)
(* The recording is never behind the traffic and at most one message of a  *)
(* link ahead of it, both in the order sent.                               *)
(***************************************************************************)
THEOREM RecordingAlwaysFollows == ProxySpec => []RecordingFollows
<1>1. RecordInv => RecordingFollows
  BY DEF RecordInv, LinkInv, Follows, RecordingFollows
<1> QED BY <1>1, TypeInvInit, TypeInvStep, PhaseInvInit, PhaseInvStep,
              RecordInvInit, RecordInvStep, PTL DEF ProxySpec

-----------------------------------------------------------------------------
(* At most one message follows the disconnect.                             *)

Other(e) == IF e = "client" THEN "server" ELSE "client"

\* A late event is about the last message of its link, whose goroutine will
\* not read again; the other goroutine has ended.
LateOf(p, e, n) ==
  /\ loop[<<p, Other(e)>>] = "ended"
  /\ loop[<<p, e>>] \notin {"read", "frame"}
  /\ n = taken[<<p, e>>]
LateInv == \A p \in Pairs : \A i \in Late(p) : LateOf(p, logged[p][i].from, logged[p][i].n)

LEMMA LateInvInit == ProxyInit => LateInv
BY DEF ProxyInit, LateInv, Late

LEMMA LateType ==
  ASSUME TypeInv, NEW p \in Pairs, NEW i \in Late(p)
  PROVE  /\ i \in 1..Len(logged[p]) /\ logged[p][i].from \in Ends
         /\ Disconnected(p)
<1>1. logged[p] \in Seq(Event) /\ i \in 1..Len(logged[p])
  BY DEF TypeInv, ProxyTypeOK, Late
<1>2. logged[p][i] \in Event
  BY <1>1
<1>3. PICK k \in 1..(i - 1) : logged[p][k].type = "DISCONNECT"
  BY DEF Late
<1>4. k \in 1..Len(logged[p])
  <2>1. Len(logged[p]) \in Nat /\ k \in 1..(i - 1)
    BY <1>1
  <2> QED BY <1>1, <2>1
<1> QED BY <1>1, <1>2, <1>3, <1>4 DEF Event, Disconnected

\* What an appended event adds to the late ones.
LEMMA LateGrows ==
  ASSUME TypeInv, NEW p \in Pairs, NEW type, NEW from, NEW n, RecordEvent(p, type, from, n),
         NEW i \in Late(p)'
  PROVE  \/ i \in Late(p) /\ logged'[p][i] = logged[p][i]
         \/ n # 0 /\ Disconnected(p) /\ logged'[p][i] = [type |-> type, from |-> from, n |-> n]
<1>1. /\ Len(logged[p]) \in Nat /\ Len(logged'[p]) = Len(logged[p]) + 1
      /\ \A j \in 1..Len(logged[p]) : logged'[p][j] = logged[p][j]
      /\ logged'[p][Len(logged[p]) + 1] = [type |-> type, from |-> from, n |-> n]
  BY LogGrows
<1>2. i \in 1..(Len(logged[p]) + 1) /\ logged'[p][i].n # 0
  BY <1>1 DEF Late
<1>3. PICK k \in 1..(i - 1) : logged'[p][k].type = "DISCONNECT"
  BY DEF Late
<1>4. k \in 1..Len(logged[p]) /\ logged[p][k].type = "DISCONNECT"
  <2>1. k \in 1..Len(logged[p])
    BY <1>1, <1>2, <1>3
  <2> QED BY <1>1, <1>3, <2>1
<1>5. CASE i \in 1..Len(logged[p])
  BY <1>1, <1>2, <1>3, <1>4, <1>5 DEF Late
<1>6. CASE i = Len(logged[p]) + 1
  <2>1. [type |-> type, from |-> from, n |-> n].n = n
    OBVIOUS
  <2> QED BY <1>1, <1>2, <1>4, <1>6, <2>1 DEF Disconnected
<1> QED BY <1>1, <1>2, <1>5, <1>6

\* A step that adds no event, and takes no late goroutine back to its read.
LEMMA LateUntouched ==
  ASSUME TypeInv, LateInv, NEW p \in Pairs, logged'[p] = logged[p],
         \A e \in Ends :
           /\ loop[<<p, e>>] = "ended" => loop'[<<p, e>>] = "ended"
           /\ Disconnected(p) /\ loop[<<p, e>>] \notin {"read", "frame"} =>
                loop'[<<p, e>>] \notin {"read", "frame"} /\ taken'[<<p, e>>] = taken[<<p, e>>]
  PROVE  \A i \in Late(p)' : LateOf(p, logged[p][i].from, logged[p][i].n)'
<1> SUFFICES ASSUME NEW i \in Late(p)' PROVE LateOf(p, logged[p][i].from, logged[p][i].n)'
  OBVIOUS
<1>1. i \in Late(p)
  BY DEF Late
<1>2. LateOf(p, logged[p][i].from, logged[p][i].n)
  BY <1>1 DEF LateInv
<1>3. logged[p][i].from \in Ends /\ Other(logged[p][i].from) \in Ends /\ Disconnected(p)
  BY <1>1, LateType DEF Other, Ends
<1> QED BY <1>2, <1>3 DEF LateOf

\* An event of a message, recorded by its link's goroutine.
LEMMA LateEvent ==
  ASSUME TypeInv, PhaseInv, LateInv, NEW l \in Links, NEW type,
         RecordEvent(l[1], type, Source(l), taken[l]),
         loop[l] \in {"event", "note"}, loop' = [loop EXCEPT ![l] = loop'[l]],
         loop'[l] \in {"note", "write"}, taken' = taken,
         NEW i \in Late(l[1])'
  PROVE  LateOf(l[1], logged[l[1]][i].from, logged[l[1]][i].n)'
<1> DEFINE p == l[1]
<1>0. p \in Pairs /\ l[2] \in Ends /\ l = <<p, l[2]>> /\ loop \in [Links -> LoopPoints]
      /\ \A e \in Ends : <<p, e>> \in Links
  BY LinkParts DEF TypeInv, ProxyTypeOK, Links
<1>1. \A e \in Ends : loop[<<p, e>>] = "ended" => loop'[<<p, e>>] = "ended"
  BY <1>0
<1>2. CASE i \in Late(p) /\ logged'[p][i] = logged[p][i]
  <2>1. LateOf(p, logged[p][i].from, logged[p][i].n)
    BY <1>0, <1>2 DEF LateInv
  <2>2. logged[p][i].from \in Ends /\ Other(logged[p][i].from) \in Ends
    BY <1>0, <1>2, LateType DEF Other, Ends
  <2>3. \A e \in Ends : loop[<<p, e>>] \notin {"read", "frame"} => loop'[<<p, e>>] \notin {"read", "frame"}
    BY <1>0
  <2> QED BY <1>1, <1>2, <2>1, <2>2, <2>3 DEF LateOf
<1>3. CASE Disconnected(p) /\ logged'[p][i] = [type |-> type, from |-> Source(l), n |-> taken[l]]
  <2>1. PICK e \in Ends : loop[<<p, e>>] = "ended"
    BY <1>0, <1>3 DEF PhaseInv, Phase
  <2>2. e # l[2]
    BY <1>0, <2>1
  <2>3. e = Other(l[2])
    BY <1>0, <2>2 DEF Other, Ends
  <2>4. loop'[<<p, Other(l[2])>>] = "ended"
    BY <1>1, <2>1, <2>3
  <2>5. [type |-> type, from |-> Source(l), n |-> taken[l]].from = l[2]
        /\ [type |-> type, from |-> Source(l), n |-> taken[l]].n = taken[l]
    BY DEF Source
  <2> QED BY <1>0, <1>3, <2>4, <2>5 DEF LateOf
<1> QED BY <1>0, <1>2, <1>3, LateGrows

LEMMA LateHandle ==
  ASSUME TypeInv, PhaseInv, LateInv, NEW p \in Pairs, Upgrade(p) \/ Handle(p),
         NEW q \in Pairs
  PROVE  \A i \in Late(q)' : LateOf(q, logged[q][i].from, logged[q][i].n)'
<1>0. Phase(q) /\ \A e \in Ends : <<q, e>> \in Links /\ <<q, e>>[1] = q
  BY DEF PhaseInv, Links
<1>1. CASE Upgrade(p) \/ DialFails(p) \/ CloseServer(p) \/ CloseClient(p)
  BY <1>1, LateUntouched DEF Upgrade, DialFails, CloseServer, CloseClient, recording, transfers
<1>2. CASE StartProxy(p) \/ Disconnect(p)
  <2>1. PICK type \in {"CONNECT", "DISCONNECT"} : RecordEvent(p, type, "client", 0)
    BY <1>2 DEF StartProxy, Disconnect
  <2>2. taken' = taken /\ \A e \in Ends : p # q => loop'[<<q, e>>] = loop[<<q, e>>]
    BY <1>0, <1>2 DEF StartProxy, Disconnect, transfers
  <2>3. CASE q # p
    BY <2>1, <2>2, <2>3, LogGrows, LateUntouched
  <2>4. CASE q = p
    <3>1. SUFFICES ASSUME NEW i \in Late(p)' PROVE LateOf(p, logged[p][i].from, logged[p][i].n)'
      BY <2>4
    <3>2. i \in Late(p) /\ logged'[p][i] = logged[p][i]
      BY <2>1, <3>1, LateGrows
    <3>3. Disconnected(p)
      BY <3>2, LateType
    <3>4. handler[p] \in {"closing", "closed"}
      BY <1>0, <2>4, <3>3 DEF Phase
    <3> QED BY <1>2, <3>4 DEF StartProxy, Disconnect
  <2> QED BY <2>3, <2>4
<1> QED BY <1>1, <1>2 DEF Handle

LEMMA LateCarry ==
  ASSUME TypeInv, PhaseInv, LateInv, NEW l \in Links, Carry(l), NEW q \in Pairs
  PROVE  \A i \in Late(q)' : LateOf(q, logged[q][i].from, logged[q][i].n)'
<1>0. l[1] \in Pairs /\ l[2] \in Ends /\ l = <<l[1], l[2]>>
      /\ loop \in [Links -> LoopPoints] /\ taken \in [Links -> 0..MaxMsgs]
      /\ \A e \in Ends : <<q, e>> \in Links
  BY LinkParts DEF TypeInv, ProxyTypeOK, Links
<1>1. CASE RecordSend(l) \/ NoteEvent(l)
  <2>1. PICK type : RecordEvent(l[1], type, Source(l), taken[l])
    BY <1>1 DEF RecordSend, NoteEvent
  <2>2. /\ loop[l] \in {"event", "note"} /\ loop'[l] \in {"note", "write"}
        /\ loop' = [loop EXCEPT ![l] = loop'[l]] /\ taken' = taken
    BY <1>0, <1>1 DEF RecordSend, NoteEvent, Proceed, transfers
  <2>3. CASE q = l[1]
    BY <2>1, <2>2, <2>3, LateEvent
  <2>4. CASE q # l[1]
    <3>1. logged'[q] = logged[q]
      BY <1>0, <2>1, <2>4, LogGrows
    <3>2. \A e \in Ends : loop'[<<q, e>>] = loop[<<q, e>>]
      BY <1>0, <2>2, <2>4
    <3> QED BY <2>2, <3>1, <3>2, LateUntouched
  <2> QED BY <2>3, <2>4
<1>2. CASE Top(l) \/ ReadMessage(l) \/ ReadFails(l) \/ RecordFrame(l) \/ WriteMessage(l) \/ WriteFails(l)
  <2>1. logged' = logged
    BY <1>2 DEF Top, ReadMessage, ReadFails, RecordFrame, WriteMessage, WriteFails, recording
  <2>2. ASSUME NEW e \in Ends, <<q, e>> # l
        PROVE  loop'[<<q, e>>] = loop[<<q, e>>] /\ taken'[<<q, e>>] = taken[<<q, e>>]
    BY <1>0, <1>2, <2>2 DEF Top, ReadMessage, ReadFails, RecordFrame, WriteMessage, WriteFails,
                            Return, Proceed, transfers
  <2>3. ASSUME NEW e \in Ends, <<q, e>> = l
        PROVE  /\ loop[l] # "ended"
               /\ Disconnected(q) /\ loop[l] \notin {"read", "frame"} =>
                    loop'[l] \notin {"read", "frame"} /\ taken'[l] = taken[l]
    <3>1. Disconnected(q) => ctx[l[1]]
      BY <1>0, <2>3 DEF PhaseInv, Phase
    <3> QED BY <1>0, <1>2, <3>1 DEF Top, ReadMessage, ReadFails, RecordFrame, WriteMessage, WriteFails,
                                    Return, Proceed, transfers
  <2> QED BY <2>1, <2>2, <2>3, LateUntouched
<1> QED BY <1>1, <1>2 DEF Carry

LEMMA LateInvStep == TypeInv /\ PhaseInv /\ LateInv /\ [ProxyNext]_proxyVars => LateInv'
<1> SUFFICES ASSUME TypeInv, PhaseInv, LateInv, [ProxyNext]_proxyVars, NEW q \in Pairs
             PROVE  \A i \in Late(q)' : LateOf(q, logged[q][i].from, logged[q][i].n)'
  BY DEF LateInv
<1>1. ASSUME NEW p \in Pairs, Upgrade(p) \/ Handle(p)
      PROVE  \A i \in Late(q)' : LateOf(q, logged[q][i].from, logged[q][i].n)'
  BY <1>1, LateHandle
<1>2. ASSUME NEW l \in Links, Carry(l)
      PROVE  \A i \in Late(q)' : LateOf(q, logged[q][i].from, logged[q][i].n)'
  BY <1>2, LateCarry
<1>3. CASE UNCHANGED <<loop, taken, logged>>
  BY <1>3, LateUntouched
<1> QED BY <1>1, <1>2, <1>3 DEF ProxyNext, Send, Turn, proxyVars, transfers, recording

\* A new late event agrees with those before it: the goroutine that records
\* it has not ended, so it is theirs.
LEMMA LateAgreeStep ==
  TypeInv /\ LateInv /\ OneMessageLate /\ [ProxyNext]_proxyVars => OneMessageLate'
<1> SUFFICES ASSUME TypeInv, LateInv, OneMessageLate, [ProxyNext]_proxyVars,
                    NEW p \in Pairs, NEW i \in Late(p)', NEW j \in Late(p)'
             PROVE  logged'[p][i].from = logged'[p][j].from /\ logged'[p][i].n = logged'[p][j].n
  BY DEF OneMessageLate
<1>1. CASE logged'[p] = logged[p]
  <2>1. i \in Late(p) /\ j \in Late(p)
    BY <1>1 DEF Late
  <2> QED BY <1>1, <2>1 DEF OneMessageLate
<1>2. ASSUME NEW q \in Pairs, StartProxy(q) \/ Disconnect(q), logged'[p] # logged[p]
      PROVE  logged'[p][i].from = logged'[p][j].from /\ logged'[p][i].n = logged'[p][j].n
  <2>1. PICK type \in {"CONNECT", "DISCONNECT"} : RecordEvent(q, type, "client", 0)
    BY <1>2 DEF StartProxy, Disconnect
  <2>2. q = p
    BY <1>2, <2>1 DEF RecordEvent, TypeInv, ProxyTypeOK
  <2>3. i \in Late(p) /\ logged'[p][i] = logged[p][i] /\ j \in Late(p) /\ logged'[p][j] = logged[p][j]
    BY <2>1, <2>2, LateGrows
  <2> QED BY <2>3 DEF OneMessageLate
<1>3. ASSUME NEW l \in Links, RecordSend(l) \/ NoteEvent(l), logged'[p] # logged[p]
      PROVE  logged'[p][i].from = logged'[p][j].from /\ logged'[p][i].n = logged'[p][j].n
  <2>1. PICK type : RecordEvent(l[1], type, Source(l), taken[l])
    BY <1>3 DEF RecordSend, NoteEvent
  <2>2. l[1] \in Pairs /\ l[2] \in Ends /\ l = <<l[1], l[2]>>
    BY LinkParts
  <2>3. l[1] = p
    BY <1>3, <2>1, <2>2 DEF RecordEvent, TypeInv, ProxyTypeOK
  <2>4. loop[l] # "ended"
    BY <1>3 DEF RecordSend, NoteEvent, Proceed
  <2> DEFINE new == [type |-> type, from |-> Source(l), n |-> taken[l]]
  <2>5. new.from = l[2] /\ new.n = taken[l]
    BY DEF Source
  <2>6. ASSUME NEW k \in Late(p) PROVE logged[p][k].from = l[2] /\ logged[p][k].n = taken[l]
    <3>1. LateOf(p, logged[p][k].from, logged[p][k].n) /\ logged[p][k].from \in Ends
      BY LateType DEF LateInv
    <3>2. logged[p][k].from = l[2]
      BY <2>2, <2>3, <2>4, <3>1 DEF LateOf, Other, Ends
    <3> QED BY <2>2, <2>3, <3>1, <3>2 DEF LateOf
  <2>7. ASSUME NEW k \in Late(p)' PROVE logged'[p][k].from = l[2] /\ logged'[p][k].n = taken[l]
    <3>1. \/ k \in Late(p) /\ logged'[p][k] = logged[p][k]
          \/ logged'[p][k] = new
      BY <2>1, <2>3, LateGrows
    <3> QED BY <2>5, <2>6, <3>1
  <2> QED BY <2>7
<1> QED BY <1>1, <1>2, <1>3 DEF ProxyNext, Handle, Carry, Upgrade, DialFails, CloseServer, CloseClient,
           Top, ReadMessage, ReadFails, RecordFrame, WriteMessage, WriteFails, Send, Turn,
           proxyVars, transfers, recording

(***************************************************************************)
(* After the disconnect of a pair at most one message is recorded.         *)
(***************************************************************************)
THEOREM AtMostOneMessageLate == ProxySpec => []OneMessageLate
<1>1. ProxyInit => OneMessageLate
  BY DEF ProxyInit, OneMessageLate, Late
<1> QED BY <1>1, TypeInvInit, TypeInvStep, PhaseInvInit, PhaseInvStep, LateInvInit, LateInvStep,
           LateAgreeStep, PTL DEF ProxySpec
=============================================================================
