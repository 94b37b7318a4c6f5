---------------------------- MODULE LogHubProofs ----------------------------
(***************************************************************************)
(* Proofs about LogHub, for any number of viewers, messages and any        *)
(* capacity of the channel.                                                *)
(***************************************************************************)
EXTENDS LogHub, TLAPS

USE HubConstants DEF HubConstants, writes, Writers

-----------------------------------------------------------------------------
(* The inductive invariant.                                                *)

\* What the hub has in hand: a client of the map and the number just before
\* those in the channel; and it is the hub's only write.
HubState ==
  /\ \A c \in Watchers : "hub" \in writer[c] => hub.at = "write" /\ hub.to = c
  /\ hub.at # "write" => hub.to = Nobody
  /\ hub.at = "write" => hub.to \in clients /\ hub.to \notin hub.todo
  /\ hub.at = "select" => hub.todo = {}
  /\ hub.todo \subseteq clients
  /\ hub.at \in {"range", "write"} =>
       hub.msg \in 1..MaxLogs /\ hub.msg + Len(broadcast) = accepted

\* Before the hub has taken the registration nothing has reached the
\* viewer; once it has taken the departure, nothing will.
Membership ==
  \A c \in Watchers :
    /\ handler[c] \in {"off", "joining"} => c \notin clients /\ got[c] = <<>>
    /\ handler[c] \in {"closing", "gone"} => c \notin clients

HubInv == HubTypeOK /\ HubState /\ Membership

\* The message viewer c got last.
Last(c) == got[c][Len(got[c])]

\* What viewer c has was taken from the channel.
Taken(c) == got[c] # <<>> => Last(c) + Len(broadcast) <= accepted

\* Message `Last(c)' is the last that was taken from the channel, or, if the
\* hub has still to write to c, the last but one.
UpToDate(c) ==
  got[c] # <<>> /\ c \in clients /\ c \notin torn /\ peer[c] # "left" /\ hub.at # "dead" =>
    IF c \in hub.todo \cup {hub.to}
    THEN Last(c) + 1 + Len(broadcast) = accepted
    ELSE Last(c) + Len(broadcast) = accepted

FeedInv == FeedInOrder /\ \A c \in Watchers : Taken(c) /\ UpToDate(c)

-----------------------------------------------------------------------------
(* Type correctness, and the hub's hold on connections.                    *)

LEMMA HubInitInv == HubInit => HubInv
<1> SUFFICES ASSUME HubInit PROVE HubInv
  OBVIOUS
<1>1. hub \in HubStates
  BY DEF HubInit, HubStates
<1>2. HubTypeOK
  BY <1>1 DEF HubInit, HubTypeOK, HandlerPoints
<1>3. HubState /\ Membership
  BY DEF HubInit, HubState, Membership
<1> QED BY <1>2, <1>3 DEF HubInv

\* The number of the message taken next.
LEMMA HeadIsNext ==
  ASSUME HubTypeOK, broadcast # <<>>
  PROVE  /\ Head(broadcast) \in 1..MaxLogs /\ Tail(broadcast) \in Seq(1..MaxLogs)
         /\ Len(Tail(broadcast)) = Len(broadcast) - 1
         /\ Head(broadcast) + Len(Tail(broadcast)) = accepted
         /\ \A i \in 1..Len(Tail(broadcast)) :
              Tail(broadcast)[i] + Len(Tail(broadcast)) = accepted + i
<1>1. Len(broadcast) \in Nat /\ Len(broadcast) > 0 /\ 1 \in 1..Len(broadcast)
  BY DEF HubTypeOK
<1>2. broadcast[1] + Len(broadcast) = accepted + 1 /\ broadcast[1] \in 1..MaxLogs
  BY <1>1 DEF HubTypeOK
<1>3. Tail(broadcast) \in Seq(1..MaxLogs) /\ Len(Tail(broadcast)) = Len(broadcast) - 1
      /\ Head(broadcast) = broadcast[1]
  BY <1>1 DEF HubTypeOK
<1>4. ASSUME NEW i \in 1..Len(Tail(broadcast))
      PROVE  Tail(broadcast)[i] + Len(Tail(broadcast)) = accepted + i
  <2>1. Tail(broadcast)[i] = broadcast[i + 1] /\ i + 1 \in 1..Len(broadcast)
    BY <1>1, <1>3 DEF HubTypeOK
  <2>2. broadcast[i + 1] + Len(broadcast) = accepted + (i + 1) /\ broadcast[i + 1] \in 1..MaxLogs
    BY <2>1 DEF HubTypeOK
  <2>3. accepted \in Nat /\ broadcast[i + 1] \in Nat /\ i \in Nat
    BY <1>1, <1>3, <2>2 DEF HubTypeOK
  <2>4. broadcast[i + 1] + (Len(broadcast) - 1) = accepted + i
    BY <1>1, <2>2, <2>3
  <2> QED BY <1>3, <2>1, <2>4
<1>5. broadcast[1] + (Len(broadcast) - 1) = accepted
  <2>1. broadcast[1] \in Nat /\ accepted \in Nat
    BY <1>2 DEF HubTypeOK
  <2> QED BY <1>1, <1>2, <2>1
<1> QED BY <1>2, <1>3, <1>4, <1>5

\* Logging.
LEMMA LogInv == ASSUME HubInv, Log PROVE HubInv'
<1>1. /\ broadcast \in Seq(1..MaxLogs) /\ Len(broadcast) \in Nat
      /\ accepted \in 0..MaxLogs /\ accepted + 1 \in 1..MaxLogs
  BY DEF HubInv, HubTypeOK, Log
<1>2. /\ broadcast' \in Seq(1..MaxLogs) /\ Len(broadcast') = Len(broadcast) + 1
      /\ accepted' = accepted + 1 /\ Len(broadcast') <= ChanLen
  BY <1>1 DEF Log
<1>3. ASSUME NEW i \in 1..Len(broadcast') PROVE broadcast'[i] + Len(broadcast') = accepted' + i
  <2>1. CASE i = Len(broadcast) + 1
    BY <1>1, <1>2, <2>1 DEF Log
  <2>2. CASE i # Len(broadcast) + 1
    <3>1. i \in 1..Len(broadcast) /\ broadcast'[i] = broadcast[i] /\ broadcast[i] \in 1..MaxLogs
      BY <1>1, <1>2, <2>2 DEF Log
    <3>2. broadcast[i] + Len(broadcast) = accepted + i
      BY <3>1 DEF HubInv, HubTypeOK
    <3>3. accepted \in Nat /\ broadcast[i] \in Nat /\ i \in Nat
      BY <1>1, <3>1
    <3>4. broadcast[i] + (Len(broadcast) + 1) = (accepted + 1) + i
      BY <1>1, <3>2, <3>3, SMTT(30)
    <3> QED BY <1>2, <3>1, <3>4
  <2> QED BY <2>1, <2>2
<1>4. HubTypeOK'
  BY <1>1, <1>2, <1>3 DEF HubInv, HubTypeOK, Log
<1>5. ASSUME hub.at \in {"range", "write"}
      PROVE  hub.msg \in 1..MaxLogs /\ hub.msg + Len(broadcast') = accepted'
  <2>1. hub.msg \in 1..MaxLogs /\ hub.msg + Len(broadcast) = accepted
    BY <1>5 DEF HubInv, HubState
  <2>2. hub.msg \in Nat /\ accepted \in Nat
    BY <1>1, <2>1
  <2>3. hub.msg + (Len(broadcast) + 1) = accepted + 1
    BY <1>1, <2>1, <2>2
  <2> QED BY <1>2, <2>1, <2>3
<1>6. HubState' /\ Membership'
  BY <1>5 DEF HubInv, HubState, Membership, Log
<1> QED BY <1>4, <1>6 DEF HubInv

\* What the library keeps, typed.
Writes ==
  /\ writer \in [Watchers -> SUBSET Writers] /\ mixed \in [Watchers -> SUBSET Writers]
  /\ torn \subseteq Watchers

LEMMA BeginTyped ==
  ASSUME HubTypeOK, NEW c \in Watchers, NEW who \in Writers, BeginWrite(who, c)
  PROVE  Writes'
<1>1. Writes
  BY DEF HubTypeOK, Writes
<1>2. writer[c] \cup {who} \in SUBSET Writers /\ mixed[c] \in SUBSET Writers
  BY <1>1 DEF Writes
<1>3. PICK w \in SUBSET Writers, m \in SUBSET Writers :
        writer' = [writer EXCEPT ![c] = w] /\ mixed' = [mixed EXCEPT ![c] = m]
  BY <1>2 DEF BeginWrite
<1>4. torn' \subseteq Watchers
  BY <1>1 DEF BeginWrite, Writes
<1> QED BY <1>1, <1>3, <1>4 DEF Writes

LEMMA EndTyped ==
  ASSUME HubTypeOK, NEW c \in Watchers, NEW who \in Writers, EndWrite(who, c)
  PROVE  Writes'
BY DEF HubTypeOK, Writes, EndWrite

\* A write of the hub gives its viewer nothing, the message, or the message
\* twice; and just the message, once, if the two writers have never met.
LEMMA Delivered ==
  ASSUME HubTypeOK, hub.msg \in 1..MaxLogs, NEW c \in Watchers, NEW next, WriteReturns(c, next)
  PROVE  /\ got' \in [Watchers -> Seq(1..MaxLogs)]
         /\ \A d \in Watchers : d # c => got'[d] = got[d]
         /\ \/ got'[c] = got[c] /\ (c \in torn \/ c \notin open \/ peer[c] # "reads")
            \/ got'[c] = Append(got[c], hub.msg)
            \/ got'[c] = Append(Append(got[c], hub.msg), hub.msg) /\ c \in torn
<1> DEFINE m == hub.msg
<1>1. got \in [Watchers -> Seq(1..MaxLogs)] /\ m \in 1..MaxLogs
  BY DEF HubTypeOK
<1>2. PICK s \in Arrivals(c) : got' = [got EXCEPT ![c] = @ \o s]
  BY DEF WriteReturns
<1>3. \/ s = <<>> /\ (c \in torn \/ c \notin open \/ peer[c] # "reads")
      \/ s = <<m>>
      \/ s = <<m, m>> /\ c \in torn
  BY <1>2 DEF Arrivals
<1> HIDE DEF m
<1>4. got[c] \o <<>> = got[c] /\ got[c] \o <<m>> = Append(got[c], m)
      /\ got[c] \o <<m, m>> = Append(Append(got[c], m), m)
  BY <1>1
<1>5. got[c] \o s \in Seq(1..MaxLogs)
  <2>1. got[c] \in Seq(1..MaxLogs)
    BY <1>1
  <2>2. Append(got[c], m) \in Seq(1..MaxLogs)
    BY <1>1, <2>1
  <2>3. Append(Append(got[c], m), m) \in Seq(1..MaxLogs)
    BY <1>1, <2>2
  <2> QED BY <1>3, <1>4, <2>1, <2>2, <2>3
<1> QED BY <1>1, <1>2, <1>3, <1>4, <1>5 DEF m

\* The hub's own steps.
LEMMA HubLoopInv == ASSUME HubInv, HubLoop PROVE HubInv'
<1> USE DEF HubInv
<1>1. CASE Take
  <2>1. /\ broadcast' = Tail(broadcast) /\ broadcast' \in Seq(1..MaxLogs)
        /\ Len(broadcast') <= ChanLen
        /\ \A i \in 1..Len(broadcast') : broadcast'[i] + Len(broadcast') = accepted + i
    <3>1. Len(Tail(broadcast)) = Len(broadcast) - 1 /\ Len(broadcast) \in Nat
      BY <1>1, HeadIsNext DEF Take, HubTypeOK
    <3>2. Len(Tail(broadcast)) <= ChanLen
      BY <3>1 DEF HubTypeOK
    <3> QED BY <1>1, <3>2, HeadIsNext DEF Take
  <2>2. /\ hub' \in HubStates /\ hub'.at = "range" /\ hub'.to = Nobody
        /\ hub'.todo = clients /\ hub'.msg \in 1..MaxLogs
        /\ hub'.msg + Len(broadcast') = accepted
    <3>1. Head(broadcast) \in 1..MaxLogs /\ Head(broadcast) \in 0..MaxLogs
      BY <1>1, HeadIsNext DEF Take
    <3>2. hub.to = Nobody /\ hub \in HubStates /\ clients \subseteq Watchers
      BY <1>1 DEF Take, HubState, HubTypeOK, HubStates
    <3> QED BY <1>1, <2>1, <3>1, <3>2, HeadIsNext DEF Take, HubStates
  <2>3. UNCHANGED <<accepted, clients, handler, writes, open, peer, got>>
    BY <1>1 DEF Take
  <2>4. HubTypeOK'
    BY <2>1, <2>2, <2>3 DEF HubTypeOK, HubStates
  <2>5. HubState'
    BY <1>1, <2>2, <2>3 DEF Take, HubState
  <2> QED BY <2>3, <2>4, <2>5 DEF Membership
<1>2. CASE RangeDone
  <2>1. hub' \in HubStates /\ hub'.at = "select" /\ hub'.to = Nobody /\ hub'.todo = {}
    <3>1. hub \in HubStates /\ hub.to = Nobody /\ hub.todo = {}
      BY <1>2 DEF RangeDone, HubTypeOK, HubState
    <3>2. hub' = [hub EXCEPT !.at = "select", !.msg = 0]
      BY <1>2 DEF RangeDone
    <3>3. 0 \in 0..MaxLogs
      OBVIOUS
    <3> QED BY <3>1, <3>2, <3>3 DEF HubStates
  <2>2. UNCHANGED <<broadcast, accepted, clients, handler, writes, open, peer, got>>
    BY <1>2 DEF RangeDone
  <2> QED BY <1>2, <2>1, <2>2 DEF RangeDone, HubTypeOK, HubStates, HubState, Membership
<1>3. ASSUME NEW c \in Watchers, WriteBegins(c) PROVE HubInv'
  <2>1. /\ hub' \in HubStates /\ hub'.msg = hub.msg /\ hub'.todo = hub.todo \ {c}
        /\ hub'.at = "write" /\ hub'.to = c
        /\ hub.at = "range" /\ c \in clients
    <3>1. hub \in HubStates /\ hub.at = "range" /\ c \in hub.todo /\ c \in clients
      BY <1>3 DEF WriteBegins, HubTypeOK, HubState
    <3>2. hub' = [hub EXCEPT !.at = "write", !.to = c, !.todo = @ \ {c}]
      BY <1>3 DEF WriteBegins
    <3> QED BY <3>1, <3>2 DEF HubStates
  <2>2. UNCHANGED <<broadcast, accepted, clients, handler, open, peer, got>>
    BY <1>3 DEF WriteBegins
  <2>3. Writes' /\ writer' = [writer EXCEPT ![c] = @ \cup {"hub"}]
    BY <1>3, BeginTyped DEF WriteBegins, HubTypeOK, BeginWrite
  <2>4. HubTypeOK'
    BY <2>1, <2>2, <2>3 DEF HubTypeOK, HubStates, Writes
  <2>5. HubState'
    BY <2>1, <2>2, <2>3 DEF HubState, HubTypeOK
  <2> QED BY <2>2, <2>4, <2>5 DEF Membership
<1>4. ASSUME NEW c \in Watchers, WriteSucceeds(c) \/ WriteFails(c) \/ WritePanics(c) PROVE HubInv'
  <2>1. PICK next \in {"range", "dead"} : WriteReturns(c, next)
    BY <1>4 DEF WriteSucceeds, WriteFails, WritePanics
  <2>2. /\ hub' \in HubStates /\ hub'.msg = hub.msg /\ hub'.todo = hub.todo
        /\ hub'.at = next /\ hub'.to = Nobody /\ hub.at = "write" /\ hub.to = c
        /\ hub.msg \in 1..MaxLogs
    BY <2>1 DEF WriteReturns, HubTypeOK, HubStates, HubState
  <2>3. /\ UNCHANGED <<broadcast, accepted, handler, peer>>
        /\ \/ UNCHANGED <<clients, open>>
           \/ clients' = clients \ {c} /\ open' = open \ {c}
    BY <1>4 DEF WriteSucceeds, WriteFails, WritePanics, DropClient
  <2>4. Writes' /\ writer' = [writer EXCEPT ![c] = @ \ {"hub"}]
    BY <2>1, EndTyped DEF WriteReturns, HubTypeOK, EndWrite
  <2>5. got' \in [Watchers -> Seq(1..MaxLogs)] /\ \A d \in Watchers : d # c => got'[d] = got[d]
    BY <2>1, <2>2, Delivered
  <2>6. HubTypeOK'
    BY <2>2, <2>3, <2>4, <2>5 DEF HubTypeOK, HubStates, Writes
  <2>7. HubState'
    BY <2>2, <2>3, <2>4 DEF HubState, HubTypeOK
  <2>8. Membership'
    <3>1. c \in clients
      BY <2>2 DEF HubState
    <3> QED BY <2>3, <2>5, <3>1 DEF Membership
  <2> QED BY <2>6, <2>7, <2>8
<1> QED BY <1>1, <1>2, <1>3, <1>4 DEF HubLoop

\* The steps of a handler and of its viewer.
LEMMA HandlerInv ==
  ASSUME HubInv, NEW c \in Watchers,
         \/ Register(c) \/ Unregister(c) \/ Upgrade(c) \/ HandlerStep(c)
         \/ PeerStops(c) \/ PeerLeaves(c)
  PROVE  HubInv'
<1> USE DEF HubInv
<1>1. CASE Register(c)
  BY <1>1 DEF Register, HubTypeOK, HubState, Membership, HandlerPoints
<1>2. CASE Unregister(c)
  BY <1>2 DEF Unregister, HubTypeOK, HubState, Membership, HandlerPoints
<1>3. CASE Upgrade(c)
  BY <1>3 DEF Upgrade, HubTypeOK, HubState, Membership, HandlerPoints
<1>4. CASE WelcomeBegins(c) \/ WelcomeEnds(c) \/ WelcomePanics(c)
  <2>1. /\ handler \in [Watchers -> HandlerPoints]
        /\ writer \in [Watchers -> SUBSET {"hub", "handler"}]
    BY DEF HubTypeOK
  <2>2. UNCHANGED <<broadcast, accepted, clients, hub, open, peer, got>>
    BY <1>4 DEF WelcomeBegins, WelcomeEnds, WelcomePanics
  <2>3. BeginWrite("handler", c) \/ EndWrite("handler", c)
    BY <1>4 DEF WelcomeBegins, WelcomeEnds, WelcomePanics
  <2>4. Writes' /\ \A d \in Watchers : "hub" \in writer'[d] => "hub" \in writer[d]
    <3>1. Writes'
      BY <2>3, BeginTyped, EndTyped
    <3>2. \A d \in Watchers : "hub" \in writer'[d] => "hub" \in writer[d]
      BY <2>1, <2>3 DEF BeginWrite, EndWrite
    <3> QED BY <3>1, <3>2
  <2>5. PICK at \in {"greeting", "panicked", "reading"} : handler' = [handler EXCEPT ![c] = at]
    BY <1>4 DEF WelcomeBegins, WelcomeEnds, WelcomePanics
  <2>6. /\ handler' \in [Watchers -> HandlerPoints]
        /\ \A d \in Watchers : handler'[d] \in {"off", "joining", "closing", "gone"}
                               => handler'[d] = handler[d]
    BY <2>1, <2>5 DEF HandlerPoints
  <2>7. HubTypeOK'
    BY <2>2, <2>4, <2>6 DEF HubTypeOK, Writes
  <2> QED BY <2>2, <2>4, <2>6, <2>7 DEF HubState, Membership
<1>6. CASE ReadFails(c) \/ HandlerCloses(c)
  <2>1. CASE ReadFails(c)
    BY <2>1 DEF ReadFails, HubTypeOK, HubState, Membership, HandlerPoints
  <2>2. CASE HandlerCloses(c)
    <3>1. /\ handler[c] = "closing" /\ handler' = [handler EXCEPT ![c] = "gone"]
          /\ open' = open \ {c}
          /\ UNCHANGED <<broadcast, accepted, clients, hub, writes, peer, got>>
      BY <2>2 DEF HandlerCloses
    <3>2. HubTypeOK'
      BY <3>1 DEF HubTypeOK, HandlerPoints
    <3> QED BY <3>1, <3>2 DEF HubState, Membership, HubTypeOK
  <2> QED BY <1>6, <2>1, <2>2
<1>7. CASE PeerStops(c) \/ PeerLeaves(c)
  BY <1>7 DEF PeerStops, PeerLeaves, HubTypeOK, HubState, Membership
<1> QED BY <1>1, <1>2, <1>3, <1>4, <1>6, <1>7 DEF HandlerStep

LEMMA HubNextInv == HubInv /\ [HubNext]_hubVars => HubInv'
<1> SUFFICES ASSUME HubInv, [HubNext]_hubVars PROVE HubInv'
  OBVIOUS
<1>1. CASE UNCHANGED hubVars
  BY <1>1 DEF hubVars, HubInv, HubTypeOK, HubState, Membership
<1> QED BY <1>1, LogInv, HubLoopInv, HandlerInv DEF HubNext

(***************************************************************************)
(* The log hub keeps its shape, and its channel never holds more than its  *)
(* capacity (websocket_logger.go).                                         *)
(***************************************************************************)
THEOREM HubTypeCorrect == HubSpec => []HubTypeOK
<1>1. HubInv => HubTypeOK
  BY DEF HubInv
<1> QED BY <1>1, HubInitInv, HubNextInv, PTL DEF HubSpec

(***************************************************************************)
(* Once a handler has returned, the hub neither holds its connection nor   *)
(* writes to it (Run, HandleWebSocket).                                    *)
(***************************************************************************)
THEOREM HubAlwaysLetsGoFirst == HubSpec => []HubLetsGoFirst
<1>1. HubInv => HubLetsGoFirst
  BY DEF HubInv, HubTypeOK, HubState, Membership, HubLetsGoFirst
<1> QED BY <1>1, HubInitInv, HubNextInv, PTL DEF HubSpec

-----------------------------------------------------------------------------
(* The order of what viewers receive.                                      *)

\* A sequence in order, and without gaps if `strict'.
Ordered(s, strict) ==
  \A i \in 1..Len(s) : i > 1 => s[i - 1] <= s[i] /\ (strict => s[i] = s[i - 1] + 1)

LEMMA AppendOrdered ==
  ASSUME NEW s \in Seq(1..MaxLogs), NEW m \in 1..MaxLogs, NEW strict, Ordered(s, strict),
         s # <<>> => s[Len(s)] <= m /\ (strict => m = s[Len(s)] + 1)
  PROVE  Ordered(Append(s, m), strict)
<1> DEFINE t == Append(s, m)
<1>1. /\ Len(s) \in Nat /\ Len(t) = Len(s) + 1 /\ t[Len(t)] = m
      /\ \A i \in 1..Len(s) : t[i] = s[i]
  OBVIOUS
<1> HIDE DEF t
<1>2. ASSUME NEW i \in 1..Len(t), i > 1
      PROVE  t[i - 1] <= t[i] /\ (strict => t[i] = t[i - 1] + 1)
  <2>1. CASE i = Len(t)
    <3>1. s # <<>> /\ i - 1 = Len(s) /\ i - 1 \in 1..Len(s)
      BY <1>1, <1>2, <2>1
    <3> QED BY <1>1, <2>1, <3>1
  <2>2. CASE i # Len(t)
    <3>1. i \in 1..Len(s) /\ i - 1 \in 1..Len(s)
      BY <1>1, <1>2, <2>2
    <3> QED BY <1>1, <1>2, <3>1 DEF Ordered
  <2> QED BY <2>1, <2>2
<1>3. Ordered(t, strict)
  BY <1>2 DEF Ordered
<1> QED BY <1>3 DEF t

\* Steps that change no viewer's part in the numbering.
LEMMA FeedKept ==
  ASSUME FeedInv, UNCHANGED <<broadcast, accepted, hub, got>>, torn \subseteq torn',
         \A c \in Watchers : c \in clients' => c \in clients \/ got[c] = <<>>,
         \A c \in Watchers : peer'[c] # "left" => peer[c] # "left"
  PROVE  FeedInv'
BY DEF FeedInv, FeedInOrder, Taken, UpToDate, Last

\* The hub's write to viewer c returns, or panics.
LEMMA FeedDelivers ==
  ASSUME HubInv, FeedInv, NEW c \in Watchers, WriteSucceeds(c) \/ WriteFails(c) \/ WritePanics(c)
  PROVE  FeedInv'
<1> DEFINE m == hub.msg
<1>1. PICK next \in {"range", "dead"} : WriteReturns(c, next)
  BY DEF WriteSucceeds, WriteFails, WritePanics
<1>2. /\ hub.at = "write" /\ hub.to = c /\ c \notin hub.todo /\ c \in clients /\ c # Nobody
      /\ m \in 1..MaxLogs /\ m + Len(broadcast) = accepted
      /\ accepted \in Nat /\ Len(broadcast) \in Nat
      /\ \A d \in Watchers : got[d] \in Seq(1..MaxLogs) /\ Len(got[d]) \in Nat
  BY <1>1 DEF HubInv, HubTypeOK, HubState, WriteReturns
<1>3. /\ hub'.at = next /\ hub'.to = Nobody /\ hub'.todo = hub.todo
      /\ UNCHANGED <<broadcast, accepted, peer, torn>>
      /\ clients' \subseteq clients
  <2>1. hub \in HubStates
    BY DEF HubInv, HubTypeOK
  <2>2. hub'.at = next /\ hub'.to = Nobody /\ hub'.todo = hub.todo /\ torn' = torn
    BY <1>1, <2>1 DEF WriteReturns, HubStates, EndWrite
  <2> QED BY <2>2 DEF WriteSucceeds, WriteFails, WritePanics, DropClient
<1>4. /\ got' \in [Watchers -> Seq(1..MaxLogs)]
      /\ \A d \in Watchers : d # c => got'[d] = got[d]
      /\ \/ got'[c] = got[c] /\ (c \in torn \/ c \notin open \/ peer[c] # "reads")
         \/ got'[c] = Append(got[c], m)
         \/ got'[c] = Append(Append(got[c], m), m) /\ c \in torn
  BY <1>1, <1>2, Delivered DEF HubInv
<1> HIDE DEF m
<1>5. ASSUME NEW d \in Watchers, d # c
      PROVE  Ordered(got'[d], d \notin torn') /\ Taken(d)' /\ UpToDate(d)'
  <2>1. Ordered(got[d], d \notin torn) /\ Taken(d) /\ UpToDate(d)
    BY DEF FeedInv, FeedInOrder, Ordered
  <2> QED BY <1>2, <1>3, <1>4, <1>5, <2>1 DEF Taken, UpToDate, Last
<1>6. /\ Ordered(got[c], c \notin torn) /\ got[c] \in Seq(1..MaxLogs)
      /\ got[c] # <<>> => Last(c) \in 1..MaxLogs /\ Last(c) <= m
      /\ got[c] # <<>> /\ c \notin torn /\ peer[c] # "left" => m = Last(c) + 1
  <2>1. Ordered(got[c], c \notin torn) /\ Taken(c) /\ UpToDate(c)
    BY DEF FeedInv, FeedInOrder, Ordered
  <2>2. got[c] # <<>> => Last(c) \in 1..MaxLogs
    BY <1>2 DEF Last
  <2> QED BY <1>2, <2>1, <2>2 DEF Taken, UpToDate
<1>7. CASE got'[c] = got[c] /\ (c \in torn \/ c \notin open \/ peer[c] # "reads")
  <2>1. Ordered(got'[c], c \notin torn') /\ Taken(c)'
    BY <1>2, <1>3, <1>6, <1>7 DEF FeedInv, Taken, Last
  <2>2. c \in torn \/ peer[c] = "left" \/ c \notin clients' \/ hub'.at = "dead"
    <3>1. CASE WriteSucceeds(c)
      <4>1. peer[c] \in {"reads", "stuck", "left"}
        BY DEF HubInv, HubTypeOK
      <4> QED BY <1>7, <3>1, <4>1 DEF WriteSucceeds
    <3>2. CASE WriteFails(c)
      BY <3>2 DEF WriteFails, DropClient
    <3>3. CASE WritePanics(c)
      <4>1. hub \in HubStates
        BY DEF HubInv, HubTypeOK
      <4> QED BY <3>3, <4>1 DEF WritePanics, WriteReturns, HubStates
    <3> QED BY <3>1, <3>2, <3>3
  <2>3. UpToDate(c)'
    BY <1>3, <2>2 DEF UpToDate
  <2> QED BY <1>5, <2>1, <2>3 DEF FeedInv, FeedInOrder, Ordered
<1>8. CASE got'[c] = Append(got[c], m) /\ (peer[c] # "left" \/ c \in torn)
  <2>1. Ordered(got'[c], c \notin torn')
    BY <1>2, <1>3, <1>6, <1>8, AppendOrdered DEF Last
  <2>2. got'[c] # <<>> /\ Last(c)' = m
    BY <1>2, <1>8 DEF Last
  <2>3. Taken(c)' /\ UpToDate(c)'
    BY <1>2, <1>3, <2>2 DEF Taken, UpToDate
  <2> QED BY <1>5, <2>1, <2>3 DEF FeedInv, FeedInOrder, Ordered
<1>9. CASE got'[c] = Append(Append(got[c], m), m) /\ c \in torn
  <2> DEFINE s == Append(got[c], m)
  <2>1. Ordered(s, FALSE) /\ s \in Seq(1..MaxLogs) /\ s[Len(s)] = m
    <3>1. PICK g \in Seq(1..MaxLogs) : g = got[c]
      BY <1>6
    <3>2. Ordered(g, FALSE)
      BY <1>6, <3>1 DEF Ordered
    <3>3. g # <<>> => g[Len(g)] <= m
      BY <1>6, <3>1 DEF Last
    <3>4. m \in 1..MaxLogs
      BY <1>2
    <3>5. Ordered(Append(g, m), FALSE)
      BY <3>2, <3>3, <3>4, AppendOrdered, Zenon
    <3>6. Append(g, m) \in Seq(1..MaxLogs) /\ Append(g, m)[Len(Append(g, m))] = m
      BY <3>4
    <3>7. s = Append(g, m)
      BY <3>1
    <3> HIDE DEF s
    <3> QED BY <3>5, <3>6, <3>7, Zenon
  <2> HIDE DEF s
  <2>2. Ordered(Append(s, m), FALSE)
    <3>1. s # <<>> => s[Len(s)] <= m
      BY <1>2, <2>1
    <3> QED BY <1>2, <2>1, <3>1, AppendOrdered
  <2>3. Ordered(got'[c], c \notin torn')
    BY <1>3, <1>9, <2>2 DEF s, Ordered
  <2>4. Last(c)' = m
    BY <1>2, <1>9, <2>1 DEF Last, s
  <2>5. Taken(c)' /\ UpToDate(c)'
    BY <1>2, <1>3, <1>9, <2>4 DEF Taken, UpToDate
  <2> QED BY <1>5, <2>3, <2>5 DEF FeedInv, FeedInOrder, Ordered
<1>10. got'[c] # got[c] => peer[c] = "reads"
  <2>1. PICK s \in Arrivals(c) : got' = [got EXCEPT ![c] = @ \o s]
    BY <1>1 DEF WriteReturns
  <2>2. peer[c] # "reads" => s = <<>>
    BY <2>1 DEF Arrivals
  <2>3. peer[c] # "reads" => got'[c] = got[c]
    BY <1>2, <2>1, <2>2 DEF HubInv, HubTypeOK
  <2> QED BY <2>3
<1>11. got'[c] = Append(got[c], m) => got'[c] # got[c]
  BY <1>2
<1> QED BY <1>4, <1>7, <1>8, <1>9, <1>10, <1>11

LEMMA FeedStep == HubInv /\ FeedInv /\ [HubNext]_hubVars => FeedInv'
<1> SUFFICES ASSUME HubInv, FeedInv, [HubNext]_hubVars PROVE FeedInv'
  OBVIOUS
<1>a. /\ HubTypeOK /\ HubState /\ Membership
      /\ accepted \in Nat /\ Len(broadcast) \in Nat
      /\ \A c \in Watchers : got[c] \in Seq(1..MaxLogs) /\ Len(got[c]) \in Nat
  BY DEF HubInv, HubTypeOK
<1>b. ASSUME NEW c \in Watchers, got[c] # <<>> PROVE Last(c) \in Nat
  BY <1>a, <1>b DEF Last
<1>1. CASE Log
  <2>1. /\ accepted' = accepted + 1 /\ Len(broadcast') = Len(broadcast) + 1
        /\ UNCHANGED <<clients, hub, got, peer, torn>>
    BY <1>1, <1>a DEF Log, HubTypeOK
  <2>2. ASSUME NEW c \in Watchers PROVE Taken(c)' /\ UpToDate(c)'
    <3>1. Taken(c) /\ UpToDate(c) /\ (got[c] # <<>> => Last(c) \in Nat)
      BY <1>b DEF FeedInv
    <3>2. ASSUME got[c] # <<>>
          PROVE  /\ Last(c) + Len(broadcast) <= accepted
                      => Last(c) + Len(broadcast') <= accepted'
                 /\ Last(c) + 1 + Len(broadcast) = accepted
                      => Last(c) + 1 + Len(broadcast') = accepted'
                 /\ Last(c) + Len(broadcast) = accepted
                      => Last(c) + Len(broadcast') = accepted'
      <4>1. PICK l \in Nat, n \in Nat, a \in Nat :
              l = Last(c) /\ n = Len(broadcast) /\ a = accepted
        BY <1>a, <3>1, <3>2
      <4>2. Len(broadcast') = n + 1 /\ accepted' = a + 1
        BY <2>1, <4>1
      <4> QED BY <4>1, <4>2
    <3> QED BY <2>1, <3>1, <3>2 DEF Taken, UpToDate, Last
  <2> QED BY <2>1, <2>2 DEF FeedInv, FeedInOrder
<1>2. CASE Take
  <2>1. Len(broadcast') = Len(broadcast) - 1 /\ Len(broadcast) > 0
    BY <1>2, <1>a, HeadIsNext DEF Take
  <2>2. /\ UNCHANGED <<accepted, clients, got, peer, torn>>
        /\ hub.at = "select" /\ hub.todo = {} /\ hub.to = Nobody
        /\ hub'.todo = clients
    BY <1>2, <1>a DEF Take, HubState, HubTypeOK
  <2>3. ASSUME NEW c \in Watchers PROVE Taken(c)' /\ UpToDate(c)'
    <3>1. Taken(c) /\ UpToDate(c) /\ (got[c] # <<>> => Last(c) \in Nat) /\ c # Nobody
      BY <1>b DEF FeedInv
    <3>2. Taken(c)'
      BY <1>a, <2>1, <2>2, <3>1 DEF Taken, Last
    <3>3. UpToDate(c)'
      BY <1>a, <2>1, <2>2, <3>1 DEF UpToDate, Last
    <3> QED BY <3>2, <3>3
  <2> QED BY <2>2, <2>3 DEF FeedInv, FeedInOrder
<1>3. CASE RangeDone
  <2>1. /\ hub'.todo = hub.todo /\ hub'.to = hub.to /\ hub.at # "dead"
        /\ UNCHANGED <<broadcast, accepted, clients, got, peer, torn>>
    BY <1>3, <1>a DEF RangeDone, HubTypeOK, HubStates
  <2> QED BY <2>1 DEF FeedInv, FeedInOrder, Taken, UpToDate, Last
<1>4. ASSUME NEW c \in Watchers, WriteBegins(c) PROVE FeedInv'
  <2>1. UNCHANGED <<broadcast, accepted, clients, peer, got>> /\ torn \subseteq torn'
    BY <1>4 DEF WriteBegins, BeginWrite
  <2>2. /\ hub.at = "range" /\ hub.to = Nobody /\ c \in hub.todo
        /\ hub'.at = "write" /\ hub'.to = c /\ hub'.todo = hub.todo \ {c}
    BY <1>4, <1>a DEF WriteBegins, HubState, HubTypeOK, HubStates
  <2>3. ASSUME NEW d \in Watchers PROVE Taken(d)' /\ UpToDate(d)'
    BY <2>1, <2>2 DEF FeedInv, Taken, UpToDate, Last
  <2> QED BY <2>1, <2>3 DEF FeedInv, FeedInOrder
<1>5. ASSUME NEW c \in Watchers, WriteSucceeds(c) \/ WriteFails(c) \/ WritePanics(c) PROVE FeedInv'
  BY <1>5, FeedDelivers
<1>7. ASSUME NEW c \in Watchers,
             Register(c) \/ Unregister(c) \/ Upgrade(c) \/ HandlerStep(c)
      PROVE  FeedInv'
  <2>1. UNCHANGED <<broadcast, accepted, hub, got, peer>> /\ torn \subseteq torn'
    BY <1>7 DEF Register, Unregister, Upgrade, HandlerStep, WelcomeBegins, WelcomeEnds,
                WelcomePanics, ReadFails, HandlerCloses, BeginWrite, EndWrite
  <2>2. \A d \in Watchers : d \in clients' => d \in clients \/ got[d] = <<>>
    BY <1>7, <1>a DEF Register, Unregister, Upgrade, HandlerStep, WelcomeBegins,
                      WelcomeEnds, WelcomePanics, ReadFails, HandlerCloses, Membership
  <2> QED BY <2>1, <2>2, FeedKept
<1>8. ASSUME NEW c \in Watchers, PeerStops(c) \/ PeerLeaves(c) PROVE FeedInv'
  BY <1>8, <1>a, FeedKept DEF PeerStops, PeerLeaves, HubTypeOK
<1>9. CASE UNCHANGED hubVars
  BY <1>9, FeedKept DEF hubVars
<1> QED BY <1>1, <1>2, <1>3, <1>4, <1>5, <1>7, <1>8, <1>9 DEF HubNext, HubLoop

(***************************************************************************)
(* What a viewer receives is a run of consecutive messages, if its greeting*)
(* never overlapped a write of the hub, and in order in any case, for any  *)
(* number of viewers and messages and any capacity of the channel (Run).   *)
(***************************************************************************)
THEOREM FeedFollowsLog == HubSpec => []FeedInOrder
<1>1. HubInit => FeedInv
  BY DEF HubInit, FeedInv, FeedInOrder, Taken, UpToDate
<1>2. FeedInv => FeedInOrder
  BY DEF FeedInv
<1> QED BY <1>1, <1>2, HubInitInv, HubNextInv, FeedStep, PTL DEF HubSpec

=============================================================================
