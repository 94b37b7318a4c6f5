---------------------------- MODULE MCRecording -----------------------------
(* Instances of SessionRecorder and RecordingProxy for TLC.                *)
EXTENDS SessionRecorder, RecordingProxy, TLC

CONSTANTS t1, t2, p1

TwoThreads == {t1, t2}
OnePair == {p1}
OneOfEach ==
  ("client" :> <<"frame", "short">>) @@ ("server" :> <<"raw", "frame">>)

\* The inside of the recorder's calls, or the proxy that calls it: in a
\* behaviour of this run one of the two moves, so that TLC adds up their
\* states instead of multiplying them.
RecordingInit == Init /\ ProxyInit
RecordingNext ==
  \/ ProxyInit /\ Next /\ UNCHANGED proxyVars
  \/ Init /\ ProxyNext /\ UNCHANGED vars

RecordingSpec ==
  RecordingInit /\ [][RecordingNext]_<<vars, proxyVars>> /\ Fairness /\ ProxyFairness
=============================================================================
