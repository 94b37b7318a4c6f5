----------------------------- MODULE MCPlatform -----------------------------
(* Instances of TestPlatform and LogHub for TLC.                           *)
EXTENDS TestPlatform, LogHub, TLC

CONSTANTS t1, t2, u1, u2, x1, x2, w1, w2

TwoTests == {t1, t2}
TwoUsers == {u1, u2}
TwoExecs == {x1, x2}
TwoWatchers == {w1, w2}

Types == (t1 :> "stress") @@ (t2 :> "benchmark")
Clients == (t1 :> 1) @@ (t2 :> None)

\* Two instances in one: one test, two concurrent requests, every fault; or
\* two tests with an execution each, for what they do to each other.
Scenario ==
  \/ row[t2].status = "none"
  \/ /\ call[u2] = Idle
     /\ hurt = {}
     /\ crashes = 0
     /\ \A t \in Tests : Cardinality(ExecutionsOf(t)) < 2

\* At most one viewer is greeted while the hub writes to it, and the other
\* one then keeps reading.
OneTorn == torn \subseteq {w1} /\ (w1 \in torn => peer[w2] = "reads")

\* The handlers log to the hub without waiting, and the hub calls nobody: in a
\* behaviour of this run one of the two moves, so that TLC adds up their
\* states instead of multiplying them.
MCInit == PlatformInit /\ HubInit
MCNext ==
  \/ HubInit /\ PlatformNext /\ Scenario' /\ UNCHANGED hubVars
  \/ PlatformInit /\ HubNext /\ OneTorn' /\ UNCHANGED platformVars

MCSpec ==
  MCInit /\ [][MCNext]_<<platformVars, hubVars>>
    /\ PlatformFairness /\ HubFairness
=============================================================================
