-------------------------- MODULE TestServerProofs -------------------------
(***************************************************************************)
(* Proofs about TestServer, for every set of connections and every bound.  *)
(***************************************************************************)
EXTENDS TestServer, FiniteSetTheorems, TLAPS

USE TestServerAssumption DEF TestServerAssumption

-----------------------------------------------------------------------------
(* Type correctness, and the two counters: connCount never exceeds the     *)
(* handlers at work, connWg is exactly the handlers and readers that       *)
(* joined the group.  A ranger that hangs up holds a connection.           *)

HoldsConn == \A a \in Rangers : pc[a] = "hangup" => cur[a] \in Conns

Joined == {c \in Conns : h[c] \in Admitted}

Reading == {c \in Conns : rd[c] = "read"}

CountInv ==
  /\ NoSpuriousRefusal
  /\ connWg = Cardinality(Joined) + Cardinality(Reading)
  /\ \A c \in Conns :
       h[c] \in {"none", "refused", "upgrading", "stored", "counted", "login", "named", "ready"}
         => rd[c] = "none"

LEMMA FiniteMembers ==
  /\ IsFiniteSet(Present) /\ Cardinality(Present) \in Nat
  /\ IsFiniteSet(Joined)  /\ Cardinality(Joined) \in Nat
  /\ IsFiniteSet(Reading) /\ Cardinality(Reading) \in Nat
<1>1. IsFiniteSet(Present) /\ IsFiniteSet(Joined) /\ IsFiniteSet(Reading)
  <2>1. Present \subseteq Conns /\ Joined \subseteq Conns /\ Reading \subseteq Conns
    BY DEF Present, Joined, Reading
  <2> QED
    BY <2>1, FS_Subset
<1> QED
  BY <1>1, FS_CardinalityType

\* Whoever leaves the group is in it.
LEMMA GroupNotEmpty ==
  ASSUME CountInv, Joined # {} \/ Reading # {}
  PROVE  connWg > 0
BY FiniteMembers, FS_EmptySet DEF CountInv

LEMMA InitTypeOK == Init => TypeOK /\ HoldsConn
<1> SUFFICES ASSUME Init PROVE TypeOK /\ HoldsConn
  OBVIOUS
<1>1. pushed \in [Conns -> Seq(0..MaxSeq)]
  BY DEF Init
<1>2. /\ h \in [Conns -> HandlerPcs] /\ rd \in [Conns -> {"none", "read", "done"}]
      /\ sock \in [Conns -> {"none", "up", "stuck", "gone", "dead", "closed"}]
  BY DEF Init, HandlerPcs
<1>3. /\ pc \in [Rangers -> RangerPcs] /\ todo \in [Rangers -> SUBSET Conns]
      /\ cur \in [Rangers -> Conns \cup {None}]
  BY DEF Init, RangerPcs
<1>4. /\ connCount \in Int /\ connWg \in Nat /\ seq \in 0..MaxSeq
      /\ forces \in 0..MaxForces /\ starts \in 0..MaxStarts
  BY DEF Init
<1>5. /\ connections \subseteq Conns /\ authed \subseteq Conns /\ replied \subseteq Conns
      /\ stop \subseteq Conns /\ failed \subseteq Conns
  BY Zenon DEF Init
<1>6. /\ forceFlag \in BOOLEAN /\ running \in BOOLEAN /\ stopClosed \in BOOLEAN
      /\ panicked \in BOOLEAN
  BY Zenon DEF Init
<1>7. listener \in {"new", "open", "closed"} /\ starter \in {"idle", "sleep"}
  BY DEF Init
<1>8. TypeOK
  BY <1>1, <1>2, <1>3, <1>4, <1>5, <1>6, <1>7 DEF TypeOK
<1>9. HoldsConn
  BY DEF Init, HoldsConn
<1> QED
  BY <1>8, <1>9

LEMMA NextTypeOK ==
  ASSUME TypeOK, HoldsConn, CountInv, [Next]_vars
  PROVE  TypeOK' /\ HoldsConn'
<1> USE DEF TypeOK, HoldsConn, HandlerPcs, RangerPcs, Rangers, Step, Go, conn, push, range, server
<1>1. ASSUME NEW c \in Conns, Accept(c) PROVE TypeOK' /\ HoldsConn'
  BY <1>1 DEF Accept
<1>2. ASSUME NEW c \in Conns, Refuse(c) PROVE TypeOK' /\ HoldsConn'
  BY <1>2 DEF Refuse
<1>3. ASSUME NEW c \in Conns, Store(c) PROVE TypeOK' /\ HoldsConn'
  BY <1>3 DEF Store
<1>4. ASSUME NEW c \in Conns, CountUp(c) PROVE TypeOK' /\ HoldsConn'
  BY <1>4 DEF CountUp
<1>5. ASSUME NEW c \in Conns, Enter(c) PROVE TypeOK' /\ HoldsConn'
  BY <1>5 DEF Enter
<1>6. ASSUME NEW c \in Conns, ReadLogin(c) PROVE TypeOK' /\ HoldsConn'
  BY <1>6 DEF ReadLogin
<1>7. ASSUME NEW c \in Conns, LoginFails(c) PROVE TypeOK' /\ HoldsConn'
  BY <1>7 DEF LoginFails
<1>8. ASSUME NEW c \in Conns, SendLoginResp(c) PROVE TypeOK' /\ HoldsConn'
  BY <1>8 DEF SendLoginResp, Writable
<1>9. ASSUME NEW c \in Conns, SendLoginRespFails(c) PROVE TypeOK' /\ HoldsConn'
  BY <1>9 DEF SendLoginRespFails, FailedWrite
<1>10. ASSUME NEW c \in Conns, StartReader(c) PROVE TypeOK' /\ HoldsConn'
  BY <1>10 DEF StartReader
<1>11. ASSUME NEW c \in Conns, EndServing(c) PROVE TypeOK' /\ HoldsConn'
  BY <1>11 DEF EndServing
<1>12. ASSUME NEW c \in Conns, UnlistSelf(c) PROVE TypeOK' /\ HoldsConn'
  BY <1>12 DEF UnlistSelf, Unlist
<1>13. ASSUME NEW c \in Conns, HangUpSelf(c) PROVE TypeOK' /\ HoldsConn'
  BY <1>13 DEF HangUpSelf, HangUp
<1>14. ASSUME NEW c \in Conns, Leave(c) PROVE TypeOK' /\ HoldsConn'
  <2>1. connWg > 0
    BY <1>14, GroupNotEmpty DEF Leave, Joined, Admitted
  <2> QED
    BY <1>14, <2>1 DEF Leave
<1>15. ASSUME NEW c \in Conns, ReadEnds(c) PROVE TypeOK' /\ HoldsConn'
  <2>1. connWg > 0
    BY <1>15, GroupNotEmpty DEF ReadEnds, Unreadable, Reading
  <2> QED
    BY <1>15, <2>1 DEF ReadEnds, Unreadable
<1>16. ASSUME NEW c \in Conns, ClientLeaves(c) PROVE TypeOK' /\ HoldsConn'
  BY <1>16 DEF ClientLeaves
<1>17. ASSUME NEW c \in Conns, PushSkips(c) PROVE TypeOK' /\ HoldsConn'
  BY <1>17 DEF PushSkips, Visited
<1>18. ASSUME NEW c \in Conns, PushWrites(c) PROVE TypeOK' /\ HoldsConn'
  BY <1>18 DEF PushWrites, Writable, Visited
<1>19. ASSUME NEW c \in Conns, PushFails(c) PROVE TypeOK' /\ HoldsConn'
  BY <1>19 DEF PushFails, FailedWrite, Visited
<1>20. ASSUME NEW c \in Conns, PushCloses(c) PROVE TypeOK' /\ HoldsConn'
  BY <1>20 DEF PushCloses, Unlist
<1>21. ASSUME NEW a \in Rangers, NEW c \in Conns, Skip(a, c) PROVE TypeOK' /\ HoldsConn'
  BY <1>21 DEF Skip, Visited
<1>22. ASSUME NEW a \in Rangers, NEW c \in Conns, CloseNext(a, c) PROVE TypeOK' /\ HoldsConn'
  BY <1>22 DEF CloseNext, Unlist, Visited
<1>23. ASSUME NEW a \in Rangers, CloseFinish(a) PROVE TypeOK' /\ HoldsConn'
  BY <1>23 DEF CloseFinish, HangUp
<1>24. CASE PushTick
  BY <1>24 DEF PushTick, Draw
<1>25. CASE PushVisitedAll
  BY <1>25 DEF PushVisitedAll
<1>26. CASE PushSwept
  BY <1>26 DEF PushSwept
<1>27. CASE PushStops
  BY <1>27 DEF PushStops
<1>28. CASE ForceStart
  BY <1>28 DEF ForceStart
<1>29. CASE ForceEnd
  BY <1>29 DEF ForceEnd
<1>30. CASE StartCall
  BY <1>30 DEF StartCall
<1>31. CASE SpawnPush
  BY <1>31 DEF SpawnPush
<1>32. CASE ShutBegin
  BY <1>32 DEF ShutBegin
<1>33. CASE ShutRanged
  BY <1>33 DEF ShutRanged
<1>34. CASE ShutWaitConns
  BY <1>34 DEF ShutWaitConns, ConnsWaited
<1>35. CASE ShutWaitBg
  BY <1>35 DEF ShutWaitBg
<1>36. CASE ShutListener
  BY <1>36 DEF ShutListener
<1>37. CASE UNCHANGED vars
  BY <1>37 DEF vars
<1> QED
  BY <1>1, <1>2, <1>3, <1>4, <1>5, <1>6, <1>7, <1>8, <1>9, <1>10, <1>11,
     <1>12, <1>13, <1>14, <1>15, <1>16, <1>17, <1>18, <1>19, <1>20, <1>21,
     <1>22, <1>23, <1>24, <1>25, <1>26, <1>27, <1>28, <1>29, <1>30, <1>31,
     <1>32, <1>33, <1>34, <1>35, <1>36, <1>37
  DEF Next, Arrive, Handle, RangeStep, PushStep, ForceStep, ShutStep, Rangers

LEMMA InitCount == Init => CountInv
<1> SUFFICES ASSUME Init PROVE CountInv
  OBVIOUS
<1>1. Present = {} /\ Joined = {} /\ Reading = {}
  BY DEF Init, Present, Occupying, Joined, Admitted, Reading
<1> QED
  BY <1>1, FS_EmptySet DEF Init, CountInv, NoSpuriousRefusal

LEMMA NextCount ==
  ASSUME TypeOK, CountInv, [Next]_vars
  PROVE  CountInv'
<1> USE FiniteMembers
    DEF TypeOK, CountInv, NoSpuriousRefusal, Step, Go, conn, push, range, server
<1>1. ASSUME NEW c \in Conns, Accept(c) PROVE CountInv'
  <2>1. UNCHANGED <<Present, Joined, Reading>>
    BY <1>1 DEF Accept, Present, Occupying, Joined, Admitted, Reading
  <2> QED
    BY <1>1, <2>1 DEF Accept
<1>2. ASSUME NEW c \in Conns, Refuse(c) PROVE CountInv'
  <2>1. UNCHANGED <<Present, Joined, Reading>>
    BY <1>2 DEF Refuse, Present, Occupying, Joined, Admitted, Reading
  <2> QED
    BY <1>2, <2>1 DEF Refuse
<1>3. ASSUME NEW c \in Conns, Store(c) PROVE CountInv'
  <2>1. UNCHANGED <<Present, Joined, Reading>>
    BY <1>3 DEF Store, Present, Occupying, Joined, Admitted, Reading
  <2> QED
    BY <1>3, <2>1 DEF Store
<1>4. ASSUME NEW c \in Conns, CountUp(c) PROVE CountInv'
  <2>1. c \notin Present /\ Present' = Present \cup {c}
    BY <1>4 DEF CountUp, Present, Occupying, Joined, Admitted, Reading
  <2>2. UNCHANGED <<Joined, Reading>>
    BY <1>4 DEF CountUp, Present, Occupying, Joined, Admitted, Reading
  <2>3. Cardinality(Present') = Cardinality(Present) + 1
    BY <2>1, FS_AddElement
  <2> QED
    BY <1>4, <2>1, <2>2, <2>3 DEF CountUp
<1>5. ASSUME NEW c \in Conns, Enter(c) PROVE CountInv'
  <2>1. c \notin Joined /\ Joined' = Joined \cup {c}
    BY <1>5 DEF Enter, Present, Occupying, Joined, Admitted, Reading
  <2>2. UNCHANGED <<Present, Reading>>
    BY <1>5 DEF Enter, Present, Occupying, Joined, Admitted, Reading
  <2>3. Cardinality(Joined') = Cardinality(Joined) + 1
    BY <2>1, FS_AddElement
  <2> QED
    BY <1>5, <2>1, <2>2, <2>3 DEF Enter
<1>6. ASSUME NEW c \in Conns, ReadLogin(c) PROVE CountInv'
  <2>1. UNCHANGED <<Present, Joined, Reading>>
    BY <1>6 DEF ReadLogin, Present, Occupying, Joined, Admitted, Reading
  <2> QED
    BY <1>6, <2>1 DEF ReadLogin
<1>7. ASSUME NEW c \in Conns, LoginFails(c) PROVE CountInv'
  <2>1. UNCHANGED <<Present, Joined, Reading>>
    BY <1>7 DEF LoginFails, Present, Occupying, Joined, Admitted, Reading
  <2> QED
    BY <1>7, <2>1 DEF LoginFails
<1>8. ASSUME NEW c \in Conns, SendLoginResp(c) PROVE CountInv'
  <2>1. UNCHANGED <<Present, Joined, Reading>>
    BY <1>8 DEF SendLoginResp, Writable, Present, Occupying, Joined, Admitted, Reading
  <2> QED
    BY <1>8, <2>1 DEF SendLoginResp, Writable
<1>9. ASSUME NEW c \in Conns, SendLoginRespFails(c) PROVE CountInv'
  <2>1. UNCHANGED <<Present, Joined, Reading>>
    BY <1>9 DEF SendLoginRespFails, Present, Occupying, Joined, Admitted, Reading
  <2> QED
    BY <1>9, <2>1 DEF SendLoginRespFails, FailedWrite
<1>10. ASSUME NEW c \in Conns, StartReader(c) PROVE CountInv'
  <2>1. c \notin Reading /\ Reading' = Reading \cup {c}
    BY <1>10 DEF StartReader, Present, Occupying, Joined, Admitted, Reading
  <2>2. UNCHANGED <<Present, Joined>>
    BY <1>10 DEF StartReader, Present, Occupying, Joined, Admitted, Reading
  <2>3. Cardinality(Reading') = Cardinality(Reading) + 1
    BY <2>1, FS_AddElement
  <2> QED
    BY <1>10, <2>1, <2>2, <2>3 DEF StartReader
<1>11. ASSUME NEW c \in Conns, EndServing(c) PROVE CountInv'
  <2>1. UNCHANGED <<Present, Joined, Reading>>
    BY <1>11 DEF EndServing, Present, Occupying, Joined, Admitted, Reading
  <2> QED
    BY <1>11, <2>1 DEF EndServing
<1>12. ASSUME NEW c \in Conns, UnlistSelf(c) PROVE CountInv'
  <2>1. c \in Present /\ Present' = Present \ {c}
    BY <1>12 DEF UnlistSelf, Unlist, Present, Occupying, Joined, Admitted, Reading
  <2>2. UNCHANGED <<Joined, Reading>>
    BY <1>12 DEF UnlistSelf, Unlist, Present, Occupying, Joined, Admitted, Reading
  <2>3. Cardinality(Present') = Cardinality(Present) - 1
    BY <2>1, FS_RemoveElement
  <2> QED
    BY <1>12, <2>1, <2>2, <2>3 DEF UnlistSelf, Unlist
<1>13. ASSUME NEW c \in Conns, HangUpSelf(c) PROVE CountInv'
  <2>1. UNCHANGED <<Present, Joined, Reading>>
    BY <1>13 DEF HangUpSelf, HangUp, Present, Occupying, Joined, Admitted, Reading
  <2> QED
    BY <1>13, <2>1 DEF HangUpSelf, HangUp
<1>14. ASSUME NEW c \in Conns, Leave(c) PROVE CountInv'
  <2>1. c \in Joined /\ Joined' = Joined \ {c}
    BY <1>14 DEF Leave, Present, Occupying, Joined, Admitted, Reading
  <2>2. UNCHANGED <<Present, Reading>>
    BY <1>14 DEF Leave, Present, Occupying, Joined, Admitted, Reading
  <2>3. Cardinality(Joined') = Cardinality(Joined) - 1
    BY <2>1, FS_RemoveElement
  <2> QED
    BY <1>14, <2>1, <2>2, <2>3 DEF Leave
<1>15. ASSUME NEW c \in Conns, ReadEnds(c) PROVE CountInv'
  <2>1. c \in Reading /\ Reading' = Reading \ {c}
    BY <1>15 DEF ReadEnds, Unreadable, Present, Occupying, Joined, Admitted, Reading
  <2>2. UNCHANGED <<Present, Joined>>
    BY <1>15 DEF ReadEnds, Unreadable, Present, Occupying, Joined, Admitted, Reading
  <2>3. Cardinality(Reading') = Cardinality(Reading) - 1
    BY <2>1, FS_RemoveElement
  <2>4. connWg' = connWg - 1 /\ UNCHANGED <<h, connCount>> /\ rd[c] = "read"
        /\ rd' = [rd EXCEPT ![c] = "done"]
    BY <1>15 DEF ReadEnds
  <2>5. connWg' = Cardinality(Joined') + Cardinality(Reading')
    BY <2>2, <2>3, <2>4
  <2>6. NoSpuriousRefusal'
    BY <2>2, <2>4
  <2> QED
    BY <2>4, <2>5, <2>6
<1>16. ASSUME NEW c \in Conns, ClientLeaves(c) PROVE CountInv'
  <2>1. UNCHANGED <<Present, Joined, Reading>>
    BY <1>16 DEF ClientLeaves, Present, Occupying, Joined, Admitted, Reading
  <2> QED
    BY <1>16, <2>1 DEF ClientLeaves
<1>17. ASSUME NEW c \in Conns, PushSkips(c) PROVE CountInv'
  <2>1. UNCHANGED <<Present, Joined, Reading>>
    BY <1>17 DEF PushSkips, Visited, Present, Occupying, Joined, Admitted, Reading
  <2> QED
    BY <1>17, <2>1 DEF PushSkips, Visited
<1>18. ASSUME NEW c \in Conns, PushWrites(c) PROVE CountInv'
  <2>1. UNCHANGED <<Present, Joined, Reading>>
    BY <1>18 DEF PushWrites, Writable, Visited, Present, Occupying, Joined, Admitted, Reading
  <2> QED
    BY <1>18, <2>1 DEF PushWrites, Writable, Visited
<1>19. ASSUME NEW c \in Conns, PushFails(c) PROVE CountInv'
  <2>1. UNCHANGED <<Present, Joined, Reading>>
    BY <1>19 DEF PushFails, Visited, Present, Occupying, Joined, Admitted, Reading
  <2> QED
    BY <1>19, <2>1 DEF PushFails, FailedWrite, Visited
<1>20. ASSUME NEW c \in Conns, PushCloses(c) PROVE CountInv'
  <2>1. UNCHANGED <<Present, Joined, Reading>>
    BY <1>20 DEF PushCloses, Unlist, Present, Occupying, Joined, Admitted, Reading
  <2> QED
    BY <1>20, <2>1 DEF PushCloses, Unlist
<1>21. ASSUME NEW a \in Rangers, NEW c \in Conns, Skip(a, c) PROVE CountInv'
  <2>1. UNCHANGED <<Present, Joined, Reading>>
    BY <1>21 DEF Skip, Visited, Present, Occupying, Joined, Admitted, Reading
  <2> QED
    BY <1>21, <2>1 DEF Skip, Visited
<1>22. ASSUME NEW a \in Rangers, NEW c \in Conns, CloseNext(a, c) PROVE CountInv'
  <2>1. UNCHANGED <<Present, Joined, Reading>>
    BY <1>22 DEF CloseNext, Unlist, Visited, Present, Occupying, Joined, Admitted, Reading
  <2> QED
    BY <1>22, <2>1 DEF CloseNext, Unlist, Visited
<1>23. ASSUME NEW a \in Rangers, CloseFinish(a) PROVE CountInv'
  <2>1. UNCHANGED <<Present, Joined, Reading>>
    BY <1>23 DEF CloseFinish, HangUp, Present, Occupying, Joined, Admitted, Reading
  <2> QED
    BY <1>23, <2>1 DEF CloseFinish, HangUp
<1>24. CASE PushTick
  <2>1. UNCHANGED <<Present, Joined, Reading>>
    BY <1>24 DEF PushTick, Draw, Present, Occupying, Joined, Admitted, Reading
  <2> QED
    BY <1>24, <2>1 DEF PushTick, Draw
<1>25. CASE PushVisitedAll
  <2>1. UNCHANGED <<Present, Joined, Reading>>
    BY <1>25 DEF PushVisitedAll, Present, Occupying, Joined, Admitted, Reading
  <2> QED
    BY <1>25, <2>1 DEF PushVisitedAll
<1>26. CASE PushSwept
  <2>1. UNCHANGED <<Present, Joined, Reading>>
    BY <1>26 DEF PushSwept, Present, Occupying, Joined, Admitted, Reading
  <2> QED
    BY <1>26, <2>1 DEF PushSwept
<1>27. CASE PushStops
  <2>1. UNCHANGED <<Present, Joined, Reading>>
    BY <1>27 DEF PushStops, Present, Occupying, Joined, Admitted, Reading
  <2> QED
    BY <1>27, <2>1 DEF PushStops
<1>28. CASE ForceStart
  <2>1. UNCHANGED <<Present, Joined, Reading>>
    BY <1>28 DEF ForceStart, Present, Occupying, Joined, Admitted, Reading
  <2> QED
    BY <1>28, <2>1 DEF ForceStart
<1>29. CASE ForceEnd
  <2>1. UNCHANGED <<Present, Joined, Reading>>
    BY <1>29 DEF ForceEnd, Present, Occupying, Joined, Admitted, Reading
  <2> QED
    BY <1>29, <2>1 DEF ForceEnd
<1>30. CASE StartCall
  <2>1. UNCHANGED <<Present, Joined, Reading>>
    BY <1>30 DEF StartCall, Present, Occupying, Joined, Admitted, Reading
  <2> QED
    BY <1>30, <2>1 DEF StartCall
<1>31. CASE SpawnPush
  <2>1. UNCHANGED <<Present, Joined, Reading>>
    BY <1>31 DEF SpawnPush, Present, Occupying, Joined, Admitted, Reading
  <2> QED
    BY <1>31, <2>1 DEF SpawnPush
<1>32. CASE ShutBegin
  <2>1. UNCHANGED <<Present, Joined, Reading>>
    BY <1>32 DEF ShutBegin, Present, Occupying, Joined, Admitted, Reading
  <2> QED
    BY <1>32, <2>1 DEF ShutBegin
<1>33. CASE ShutRanged
  <2>1. UNCHANGED <<Present, Joined, Reading>>
    BY <1>33 DEF ShutRanged, Present, Occupying, Joined, Admitted, Reading
  <2> QED
    BY <1>33, <2>1 DEF ShutRanged
<1>34. CASE ShutWaitConns
  <2>1. UNCHANGED <<Present, Joined, Reading>>
    BY <1>34 DEF ShutWaitConns, ConnsWaited, Present, Occupying, Joined, Admitted, Reading
  <2> QED
    BY <1>34, <2>1 DEF ShutWaitConns, ConnsWaited
<1>35. CASE ShutWaitBg
  <2>1. UNCHANGED <<Present, Joined, Reading>>
    BY <1>35 DEF ShutWaitBg, Present, Occupying, Joined, Admitted, Reading
  <2> QED
    BY <1>35, <2>1 DEF ShutWaitBg
<1>36. CASE ShutListener
  <2>1. UNCHANGED <<Present, Joined, Reading>>
    BY <1>36 DEF ShutListener, Present, Occupying, Joined, Admitted, Reading
  <2> QED
    BY <1>36, <2>1 DEF ShutListener
<1>37. CASE UNCHANGED vars
  <2>1. UNCHANGED <<Present, Joined, Reading>>
    BY <1>37 DEF vars, Present, Occupying, Joined, Admitted, Reading
  <2> QED
    BY <1>37, <2>1 DEF vars
<1> QED
  BY <1>1, <1>2, <1>3, <1>4, <1>5, <1>6, <1>7, <1>8, <1>9, <1>10, <1>11,
     <1>12, <1>13, <1>14, <1>15, <1>16, <1>17, <1>18, <1>19, <1>20, <1>21,
     <1>22, <1>23, <1>24, <1>25, <1>26, <1>27, <1>28, <1>29, <1>30, <1>31,
     <1>32, <1>33, <1>34, <1>35, <1>36, <1>37
  DEF Next, Arrive, Handle, RangeStep, PushStep, ForceStep, ShutStep, Rangers

\* What every reachable state satisfies, apart from PushInv.
LEMMA Reachable == Spec => [](TypeOK /\ HoldsConn /\ CountInv)
<1>1. Init => TypeOK /\ HoldsConn /\ CountInv
  BY InitTypeOK, InitCount
<1>2. TypeOK /\ HoldsConn /\ CountInv /\ [Next]_vars => (TypeOK /\ HoldsConn /\ CountInv)'
  BY NextTypeOK, NextCount
<1> QED
  BY <1>1, <1>2, PTL DEF Spec

(***************************************************************************)
(* Every variable of the server keeps its shape, and the WaitGroup never   *)
(* goes below zero.                                                        *)
(***************************************************************************)
THEOREM TypeCorrect == Spec => []TypeOK
BY Reachable, PTL

(***************************************************************************)
(* The connection count never turns a client away while there is room.     *)
(***************************************************************************)
THEOREM CountNeverExceeds == Spec => []NoSpuriousRefusal
<1>1. CountInv => NoSpuriousRefusal
  BY DEF CountInv
<1> QED
  BY <1>1, Reachable, PTL

(***************************************************************************)
(* Shutdown goes on only when every handler that joined the group is gone, *)
(* and its reader too.                                                     *)
(***************************************************************************)
THEOREM WaitCoversReaders == Spec => ShutdownWaitsForAdmitted
<1> DEFINE A == pc["shut"] = "conns" /\ pc'["shut"] = "bg" =>
                  \A c \in Conns : h[c] \notin Admitted /\ rd[c] # "read"
<1>1. TypeOK /\ CountInv /\ [Next]_vars => A
  <2> SUFFICES ASSUME TypeOK, CountInv, [Next]_vars, pc["shut"] = "conns", pc'["shut"] = "bg"
               PROVE  \A c \in Conns : h[c] \notin Admitted /\ rd[c] # "read"
    OBVIOUS
  <2>1. connWg = 0
    BY DEF TypeOK, Rangers, Go, range, server, vars, conn, Next, Arrive, Handle, RangeStep,
           PushStep, ForceStep, ShutStep, Accept, Refuse, Store, CountUp, Enter, ReadLogin,
           LoginFails, SendLoginResp, SendLoginRespFails, StartReader, EndServing, UnlistSelf,
           HangUpSelf, Leave, ReadEnds, ClientLeaves, PushSkips, PushWrites, PushFails,
           PushCloses, Skip, CloseNext, CloseFinish, PushTick, Draw, PushVisitedAll, PushSwept,
           PushStops, ForceStart, ForceEnd, StartCall, SpawnPush, ShutBegin, ShutRanged,
           ShutWaitConns, ConnsWaited, ShutWaitBg, ShutListener
  <2>2. Joined = {} /\ Reading = {}
    BY <2>1, FiniteMembers, FS_EmptySet DEF CountInv
  <2> QED
    BY <2>2 DEF Joined, Reading
<1> QED
  BY <1>1, Reachable, PTL DEF Spec, ShutdownWaitsForAdmitted

-----------------------------------------------------------------------------
(* No push is skipped.  Between broadcasts every listed connection that    *)
(* was sent anything was sent the last number; during one, those still to  *)
(* be visited are one behind, the others are up to date, have failed or    *)
(* are no longer listed.  A connection is listed once, before any push.    *)

Latest(c) == pushed[c][Len(pushed[c])]

PushInv ==
  /\ NoPushGaps
  /\ pc["push"] # "range" => todo["push"] = {}
  /\ pc["push"] \in {"off", "tick", "done"} => failed = {}
  /\ \A c \in Conns : h[c] \in {"none", "refused", "upgrading"} =>
       pushed[c] = <<>> /\ c \notin connections \cup failed \cup todo["push"]
  /\ \A c \in Conns : pushed[c] # <<>> => c \in authed
  /\ \A c \in todo["push"] : c \notin failed /\ (pushed[c] # <<>> => Latest(c) = seq - 1)
  /\ \A c \in connections : pushed[c] # <<>> /\ c \notin todo["push"] \cup failed
                              => Latest(c) = seq

LEMMA NextPush ==
  ASSUME TypeOK, PushInv, [Next]_vars
  PROVE  PushInv'
<1> USE DEF TypeOK, PushInv, NoPushGaps, Latest, RangerPcs, Rangers, Step, Go,
            conn, push, range, server
<1>1. ASSUME NEW c \in Conns, Accept(c) PROVE PushInv'
  BY <1>1 DEF Accept
<1>2. ASSUME NEW c \in Conns, Refuse(c) PROVE PushInv'
  BY <1>2 DEF Refuse
<1>3. ASSUME NEW c \in Conns, Store(c) PROVE PushInv'
  BY <1>3, SMTT(30) DEF Store
<1>4. ASSUME NEW c \in Conns, CountUp(c) PROVE PushInv'
  BY <1>4 DEF CountUp
<1>5. ASSUME NEW c \in Conns, Enter(c) PROVE PushInv'
  BY <1>5 DEF Enter
<1>6. ASSUME NEW c \in Conns, ReadLogin(c) PROVE PushInv'
  BY <1>6 DEF ReadLogin
<1>7. ASSUME NEW c \in Conns, LoginFails(c) PROVE PushInv'
  BY <1>7 DEF LoginFails
<1>8. ASSUME NEW c \in Conns, SendLoginResp(c) PROVE PushInv'
  BY <1>8 DEF SendLoginResp, Writable
<1>9. ASSUME NEW c \in Conns, SendLoginRespFails(c) PROVE PushInv'
  BY <1>9 DEF SendLoginRespFails, FailedWrite
<1>10. ASSUME NEW c \in Conns, StartReader(c) PROVE PushInv'
  BY <1>10 DEF StartReader
<1>11. ASSUME NEW c \in Conns, EndServing(c) PROVE PushInv'
  BY <1>11 DEF EndServing
<1>12. ASSUME NEW c \in Conns, UnlistSelf(c) PROVE PushInv'
  BY <1>12 DEF UnlistSelf, Unlist
<1>13. ASSUME NEW c \in Conns, HangUpSelf(c) PROVE PushInv'
  BY <1>13 DEF HangUpSelf, HangUp
<1>14. ASSUME NEW c \in Conns, Leave(c) PROVE PushInv'
  BY <1>14 DEF Leave
<1>15. ASSUME NEW c \in Conns, ReadEnds(c) PROVE PushInv'
  BY <1>15 DEF ReadEnds, Unreadable
<1>16. ASSUME NEW c \in Conns, ClientLeaves(c) PROVE PushInv'
  BY <1>16 DEF ClientLeaves
<1>17. ASSUME NEW c \in Conns, PushSkips(c) PROVE PushInv'
  BY <1>17 DEF PushSkips, Visited
<1>18. ASSUME NEW c \in Conns, PushWrites(c) PROVE PushInv'
  BY <1>18 DEF PushWrites, Writable, Visited
<1>19. ASSUME NEW c \in Conns, PushFails(c) PROVE PushInv'
  BY <1>19 DEF PushFails, FailedWrite, Visited
<1>20. ASSUME NEW c \in Conns, PushCloses(c) PROVE PushInv'
  BY <1>20 DEF PushCloses, Unlist
<1>21. ASSUME NEW a \in Rangers, NEW c \in Conns, Skip(a, c) PROVE PushInv'
  BY <1>21 DEF Skip, Visited
<1>22. ASSUME NEW a \in Rangers, NEW c \in Conns, CloseNext(a, c) PROVE PushInv'
  BY <1>22 DEF CloseNext, Unlist, Visited
<1>23. ASSUME NEW a \in Rangers, CloseFinish(a) PROVE PushInv'
  BY <1>23 DEF CloseFinish, HangUp
<1>24. CASE PushTick
  BY <1>24 DEF PushTick, Draw
<1>25. CASE PushVisitedAll
  BY <1>25 DEF PushVisitedAll
<1>26. CASE PushSwept
  BY <1>26 DEF PushSwept
<1>27. CASE PushStops
  BY <1>27 DEF PushStops
<1>28. CASE ForceStart
  BY <1>28 DEF ForceStart
<1>29. CASE ForceEnd
  BY <1>29 DEF ForceEnd
<1>30. CASE StartCall
  BY <1>30 DEF StartCall
<1>31. CASE SpawnPush
  BY <1>31 DEF SpawnPush
<1>32. CASE ShutBegin
  BY <1>32 DEF ShutBegin
<1>33. CASE ShutRanged
  BY <1>33 DEF ShutRanged
<1>34. CASE ShutWaitConns
  BY <1>34 DEF ShutWaitConns, ConnsWaited
<1>35. CASE ShutWaitBg
  BY <1>35 DEF ShutWaitBg
<1>36. CASE ShutListener
  BY <1>36 DEF ShutListener
<1>37. CASE UNCHANGED vars
  BY <1>37 DEF vars
<1> QED
  BY <1>1, <1>2, <1>3, <1>4, <1>5, <1>6, <1>7, <1>8, <1>9, <1>10, <1>11,
     <1>12, <1>13, <1>14, <1>15, <1>16, <1>17, <1>18, <1>19, <1>20, <1>21,
     <1>22, <1>23, <1>24, <1>25, <1>26, <1>27, <1>28, <1>29, <1>30, <1>31,
     <1>32, <1>33, <1>34, <1>35, <1>36, <1>37
  DEF Next, Arrive, Handle, RangeStep, PushStep, ForceStep, ShutStep, Rangers

LEMMA InitPush == Init => PushInv
BY DEF Init, PushInv, NoPushGaps, Rangers

(***************************************************************************)
(* What a connection is pushed has no gap.                                 *)
(***************************************************************************)
THEOREM PushesContiguous == Spec => []NoPushGaps
<1>1. Init => PushInv
  BY InitPush
<1>2. TypeOK /\ PushInv /\ [Next]_vars => PushInv'
  BY NextPush
<1>3. PushInv => NoPushGaps
  BY DEF PushInv
<1> QED
  BY <1>1, <1>2, <1>3, Reachable, PTL DEF Spec

-----------------------------------------------------------------------------
(* TestServer implements GamePeer.  A connection is authenticated once,    *)
(* after it was listed, and answered after that, and nobody closes one     *)
(* that is not listed yet; so each step moves at most one connection on,   *)
(* and none back.  A broadcast has a number.                               *)

Unnamed == {"none", "refused", "upgrading", "stored", "counted", "login"}

LoginInv ==
  /\ todo["push"] # {} => seq > 0
  /\ \A c \in Conns :
       /\ h[c] \in Unnamed => c \notin authed
       /\ h[c] \in Unnamed \cup {"named"} => c \notin replied
       /\ h[c] \in {"none", "refused"} => sock[c] = "none"
       /\ h[c] \in {"none", "refused", "upgrading"} =>
            /\ c \notin connections \cup failed
            /\ \A a \in Rangers : c \notin todo[a] /\ cur[a] # c

stages == [c \in Conns |-> StageOf(c)]

LEMMA NextLogin ==
  ASSUME TypeOK, LoginInv, [Next]_vars
  PROVE  LoginInv'
<1> USE DEF TypeOK, LoginInv, Unnamed, Rangers, Step, Go, conn, push, range, server
<1>1. ASSUME NEW c \in Conns, Accept(c) PROVE LoginInv'
  BY <1>1 DEF Accept
<1>2. ASSUME NEW c \in Conns, Refuse(c) PROVE LoginInv'
  BY <1>2 DEF Refuse
<1>3. ASSUME NEW c \in Conns, Store(c) PROVE LoginInv'
  BY <1>3 DEF Store
<1>4. ASSUME NEW c \in Conns, CountUp(c) PROVE LoginInv'
  BY <1>4 DEF CountUp
<1>5. ASSUME NEW c \in Conns, Enter(c) PROVE LoginInv'
  BY <1>5 DEF Enter
<1>6. ASSUME NEW c \in Conns, ReadLogin(c) PROVE LoginInv'
  BY <1>6 DEF ReadLogin
<1>7. ASSUME NEW c \in Conns, LoginFails(c) PROVE LoginInv'
  BY <1>7 DEF LoginFails
<1>8. ASSUME NEW c \in Conns, SendLoginResp(c) PROVE LoginInv'
  BY <1>8 DEF SendLoginResp, Writable
<1>9. ASSUME NEW c \in Conns, SendLoginRespFails(c) PROVE LoginInv'
  BY <1>9 DEF SendLoginRespFails, FailedWrite
<1>10. ASSUME NEW c \in Conns, StartReader(c) PROVE LoginInv'
  BY <1>10 DEF StartReader
<1>11. ASSUME NEW c \in Conns, EndServing(c) PROVE LoginInv'
  BY <1>11 DEF EndServing
<1>12. ASSUME NEW c \in Conns, UnlistSelf(c) PROVE LoginInv'
  BY <1>12 DEF UnlistSelf, Unlist
<1>13. ASSUME NEW c \in Conns, HangUpSelf(c) PROVE LoginInv'
  BY <1>13 DEF HangUpSelf, HangUp
<1>14. ASSUME NEW c \in Conns, Leave(c) PROVE LoginInv'
  BY <1>14 DEF Leave
<1>15. ASSUME NEW c \in Conns, ReadEnds(c) PROVE LoginInv'
  BY <1>15 DEF ReadEnds, Unreadable
<1>16. ASSUME NEW c \in Conns, ClientLeaves(c) PROVE LoginInv'
  BY <1>16 DEF ClientLeaves
<1>17. ASSUME NEW c \in Conns, PushSkips(c) PROVE LoginInv'
  BY <1>17 DEF PushSkips, Visited
<1>18. ASSUME NEW c \in Conns, PushWrites(c) PROVE LoginInv'
  BY <1>18 DEF PushWrites, Visited
<1>19. ASSUME NEW c \in Conns, PushFails(c) PROVE LoginInv'
  BY <1>19 DEF PushFails, FailedWrite, Visited
<1>20. ASSUME NEW c \in Conns, PushCloses(c) PROVE LoginInv'
  BY <1>20 DEF PushCloses, Unlist
<1>21. ASSUME NEW a \in Rangers, NEW c \in Conns, Skip(a, c) PROVE LoginInv'
  BY <1>21 DEF Skip, Visited
<1>22. ASSUME NEW a \in Rangers, NEW c \in Conns, CloseNext(a, c) PROVE LoginInv'
  BY <1>22 DEF CloseNext, Visited, Unlist
<1>23. ASSUME NEW a \in Rangers, CloseFinish(a) PROVE LoginInv'
  BY <1>23 DEF CloseFinish, HangUp
<1>24. CASE PushTick
  BY <1>24 DEF PushTick, Draw
<1>25. CASE PushVisitedAll
  BY <1>25 DEF PushVisitedAll
<1>26. CASE PushSwept
  BY <1>26 DEF PushSwept
<1>27. CASE PushStops
  BY <1>27 DEF PushStops
<1>28. CASE ForceStart
  BY <1>28 DEF ForceStart
<1>29. CASE ForceEnd
  BY <1>29 DEF ForceEnd
<1>30. CASE StartCall
  BY <1>30 DEF StartCall
<1>31. CASE SpawnPush
  BY <1>31 DEF SpawnPush
<1>32. CASE ShutBegin
  BY <1>32 DEF ShutBegin
<1>33. CASE ShutRanged
  BY <1>33 DEF ShutRanged
<1>34. CASE ShutWaitConns
  BY <1>34 DEF ShutWaitConns, ConnsWaited
<1>35. CASE ShutWaitBg
  BY <1>35 DEF ShutWaitBg
<1>36. CASE ShutListener
  BY <1>36 DEF ShutListener
<1>37. CASE UNCHANGED vars
  BY <1>37 DEF vars
<1> HIDE DEF TypeOK, LoginInv, Unnamed, Step, Go
<1> QED
  BY <1>1, <1>2, <1>3, <1>4, <1>5, <1>6, <1>7, <1>8, <1>9, <1>10, <1>11,
     <1>12, <1>13, <1>14, <1>15, <1>16, <1>17, <1>18, <1>19, <1>20, <1>21, <1>22,
     <1>23, <1>24, <1>25, <1>26, <1>27, <1>28, <1>29, <1>30, <1>31, <1>32, <1>33,
     <1>34, <1>35, <1>36, <1>37
  DEF Next, Arrive, Handle, RangeStep, PushStep, ForceStep, ShutStep, Rangers

\* One connection moves on: a step of GamePeer, or none.
LEMMA OneMovesOn ==
  ASSUME NEW c \in Conns, UNCHANGED <<seq, pushed>>,
         \A d \in Conns \ {c} : StageOf(d)' = StageOf(d),
         StageOf(c)' = StageOf(c) \/ StageOf(c)' \in Peer!Later(StageOf(c))
  PROVE  Peer!Next \/ UNCHANGED <<seq, stages, pushed>>
<1>1. stages' = [stages EXCEPT ![c] = StageOf(c)']
  BY DEF stages
<1>2. CASE StageOf(c)' = StageOf(c)
  BY <1>2 DEF stages
<1>3. CASE StageOf(c)' \in Peer!Later(StageOf(c))
  <2>1. Peer!Advance(c)
    BY <1>1, <1>3 DEF Peer!Advance, stages
  <2> QED
    BY <2>1 DEF Peer!Next
<1> QED
  BY <1>2, <1>3

LEMMA PeerStep ==
  ASSUME TypeOK, HoldsConn, PushInv, LoginInv, [Next]_vars
  PROVE  Peer!Next \/ UNCHANGED <<seq, stages, pushed>>
<1> DEFINE Goal == Peer!Next \/ UNCHANGED <<seq, stages, pushed>>
           Onward(c) == /\ UNCHANGED <<seq, pushed>>
                        /\ \A d \in Conns \ {c} : StageOf(d)' = StageOf(d)
                        /\ \/ StageOf(c)' = StageOf(c)
                           \/ StageOf(c)' \in Peer!Later(StageOf(c))
<1> HIDE DEF Goal
<1>1. ASSUME NEW c \in Conns, Onward(c) PROVE Goal
  BY <1>1, OneMovesOn DEF Goal
<1> USE DEF TypeOK, LoginInv, Unnamed, StageOf, Peer!Later, Step, Go, conn, push, range, server
<1>2. ASSUME NEW c \in Conns, Accept(c) \/ Store(c) PROVE Onward(c)
  <2>1. CASE Accept(c)
    BY <2>1 DEF Accept
  <2>2. CASE Store(c)
    BY <2>2 DEF Store
  <2> QED
    BY <1>2, <2>1, <2>2
<1>3. ASSUME NEW c \in Conns, ReadLogin(c) \/ SendLoginResp(c) PROVE Onward(c)
  BY <1>3 DEF ReadLogin, SendLoginResp
<1>4. ASSUME NEW c \in Conns, UnlistSelf(c) \/ HangUpSelf(c) PROVE Onward(c)
  BY <1>4 DEF UnlistSelf, Unlist, HangUpSelf, HangUp
<1>5. ASSUME NEW c \in Conns, ClientLeaves(c) PROVE Onward(c)
  BY <1>5 DEF ClientLeaves
<1>6. ASSUME NEW c \in Conns, PushFails(c) \/ SendLoginRespFails(c) \/ PushCloses(c)
      PROVE  Onward(c)
  BY <1>6 DEF PushFails, SendLoginRespFails, FailedWrite, PushCloses, Unlist
<1>7. ASSUME NEW a \in Rangers, NEW c \in Conns, CloseNext(a, c) PROVE Onward(c)
  BY <1>7 DEF CloseNext, Unlist
<1>8. ASSUME NEW a \in Rangers, CloseFinish(a) PROVE \E c \in Conns : Onward(c)
  <2>1. PICK c \in Conns : c = cur[a]
    BY <1>8 DEF CloseFinish, HoldsConn
  <2>2. /\ sock' = [sock EXCEPT ![c] = "closed"]
        /\ UNCHANGED <<seq, pushed, authed, connections, replied>>
    BY <1>8, <2>1 DEF CloseFinish, HangUp
  <2>3. Onward(c)
    BY <2>2
  <2> QED
    BY <2>3
<1>9. ASSUME NEW c \in Conns, PushWrites(c) PROVE Goal
  <2>1. stages[c] \in {"auth", "in", "ending"} /\ stages' = stages
    BY <1>9 DEF PushWrites, Writable, stages
  <2>2. c \in todo["push"] /\ pushed' = [pushed EXCEPT ![c] = Append(@, seq)] /\ seq' = seq
    BY <1>9 DEF PushWrites
  <2>3. seq > 0 /\ Peer!LastIs(c, seq - 1)
    BY <2>2 DEF PushInv, Latest, Peer!LastIs
  <2> QED
    BY <2>1, <2>2, <2>3 DEF Goal, Peer!Next, Peer!Push, stages
<1>10. CASE PushTick
  <2>1. stages' = stages /\ pushed' = pushed /\ seq < MaxSeq /\ seq' = seq + 1
    BY <1>10 DEF PushTick, Draw, stages
  <2>2. todo["push"] = {} /\ failed = {}
    BY <1>10 DEF PushTick, PushInv
  <2>3. ASSUME NEW c \in Conns, stages[c] \in {"auth", "in"} PROVE Peer!LastIs(c, seq)
    BY <2>2, <2>3 DEF stages, PushInv, Latest, Peer!LastIs
  <2> QED
    BY <2>1, <2>3 DEF Goal, Peer!Next, Peer!Draw, stages
<1>11. CASE UNCHANGED <<seq, pushed, sock, authed, replied, connections>>
  BY <1>11 DEF Goal, stages
<1> HIDE DEF TypeOK, LoginInv, Unnamed, StageOf, Peer!Later, Step, Go, Onward
<1>12. \/ \E c \in Conns : \/ Accept(c) \/ Store(c) \/ ReadLogin(c) \/ SendLoginResp(c) \/ SendLoginRespFails(c)
                            \/ UnlistSelf(c) \/ HangUpSelf(c) \/ ClientLeaves(c)
                            \/ PushWrites(c) \/ PushFails(c) \/ PushCloses(c)
       \/ \E a \in Rangers : CloseFinish(a) \/ \E c \in Conns : CloseNext(a, c)
       \/ PushTick
       \/ UNCHANGED <<seq, pushed, sock, authed, replied, connections>>
  BY DEF vars, Next, Arrive, Handle, RangeStep, PushStep, ForceStep, ShutStep, Rangers, Refuse,
         CountUp, Enter, LoginFails, StartReader, EndServing, Leave,
         ReadEnds, PushSkips, Skip, PushVisitedAll, PushSwept, PushStops, ForceStart, ForceEnd,
         StartCall, SpawnPush, ShutBegin, ShutRanged, ShutWaitConns, ShutWaitBg, ShutListener
<1>13. ASSUME NEW c \in Conns,
              \/ Accept(c) \/ Store(c) \/ ReadLogin(c) \/ SendLoginResp(c) \/ SendLoginRespFails(c)
              \/ UnlistSelf(c) \/ HangUpSelf(c) \/ ClientLeaves(c)
              \/ PushWrites(c) \/ PushFails(c) \/ PushCloses(c)
       PROVE  Goal
  BY <1>1, <1>2, <1>3, <1>4, <1>5, <1>6, <1>9, <1>13
<1>14. ASSUME NEW a \in Rangers, CloseFinish(a) \/ \E c \in Conns : CloseNext(a, c)
       PROVE  Goal
  BY <1>1, <1>7, <1>8, <1>14
<1> QED
  BY <1>10, <1>11, <1>12, <1>13, <1>14 DEF Goal

(***************************************************************************)
(* The server keeps what GamePeer promises each of its clients: numbers in *)
(* turn, none missing while a connection is listed, nothing before login   *)
(* and nothing after the end (broadcastMessage, handleLogin,               *)
(* closeConnection).                                                       *)
(***************************************************************************)
THEOREM PeerRefinement == Spec => ImplementsPeer
<1>1. Init => PushInv /\ LoginInv
  BY InitPush DEF Init, LoginInv, Unnamed, Rangers
<1>2. TypeOK /\ PushInv /\ LoginInv /\ [Next]_vars => (PushInv /\ LoginInv)'
  BY NextPush, NextLogin
<1>3. Init => Peer!Init
  BY DEF Init, Peer!Init, StageOf
<1>4. TypeOK /\ HoldsConn /\ PushInv /\ LoginInv /\ [Next]_vars
        => [Peer!Next]_<<seq, [c \in Conns |-> StageOf(c)], pushed>>
  BY PeerStep DEF stages
<1> QED
  BY <1>1, <1>2, <1>3, <1>4, Reachable, PTL DEF Spec, ImplementsPeer, Peer!Spec

=============================================================================
