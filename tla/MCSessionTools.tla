--------------------------- MODULE MCSessionTools ---------------------------
(* Instances of SessionReplayer, SessionAnalysis and FrameDecoder for TLC. *)
EXTENDS SessionReplayer, SessionAnalysis, FrameDecoder, TLC

CONSTANTS u1, u2, l1, l2

TwoUsers == {u1, u2}
TwoLoops == {l1, l2}

\* Bodies that make frames of the largest size, smaller and larger ones.
ShortBodies == {<<>>, <<1>>, <<1, 0>>, <<1, 0, 1>>}

\* Bound: events are filtered only from recordings with their times out of
\* order and two of them equal.
Recordings == filtered = {} \/ time = [e \in Events |-> e % 2]

\* Three parts that share no state: in a behaviour of this run one of them
\* moves, while the others stand in one of their initial states, so that TLC
\* adds up their states instead of multiplying them.
ToolsInit == Init /\ Recordings /\ AnalysisInit /\ FrameInit
ReplayerRests == Init /\ time = [e \in Events |-> 0] /\ filtered = {}
AnalysisRests == AnalysisInit /\ clock = 1

\* Bound: the second user calls Play only, which may race the Play and the
\* other calls of the first, and only for a plain recording: no event is
\* filtered, and all happened at once.
SecondUser ==
  upc[u2] # "idle" =>
    /\ upc[u2] \in {"play", "launch"}
    /\ filtered = {} /\ time = [e \in Events |-> 0]

ToolsNext ==
  \/ /\ Next /\ SecondUser' /\ AnalysisRests /\ FrameInit
     /\ UNCHANGED <<analysisVars, frameVars>>
  \/ /\ AnalysisNext /\ ReplayerRests /\ FrameInit
     /\ UNCHANGED <<vars, frameVars>>
  \/ /\ FrameNext /\ ReplayerRests /\ AnalysisRests
     /\ UNCHANGED <<vars, analysisVars>>

ToolsSpec ==
  ToolsInit /\ [][ToolsNext]_<<vars, analysisVars, frameVars>> /\ Fairness
=============================================================================
