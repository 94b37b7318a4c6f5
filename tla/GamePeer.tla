------------------------------ MODULE GamePeer ------------------------------
(***************************************************************************)
(* What a client may count on from the game server, connection by          *)
(* connection.  The server draws numbers for its battle pushes.  A         *)
(* connection that is authenticated gets, from some number on, every       *)
(* number: the next one is drawn only when all such connections have the   *)
(* last one.  A connection the server is about to end may miss the last    *)
(* numbers but none in between, and one that is over gets nothing more.    *)
(*                                                                         *)
(* TestServer implements this.  WsClient takes it, without the waiting of  *)
(* Draw, for its environment: PeerAuth, PeerAnswer, PeerDraw, PeerPush and *)
(* the breaking of a link are the actions below.                           *)
(***************************************************************************)
EXTENDS Naturals, Sequences

CONSTANTS Conns,
          MaxSeq      \* bound: numbers drawn

VARIABLES seq,        \* the last number drawn
          stage,      \* how far each connection is
          sent        \* the numbers written to each connection

Stages == {"new", "auth", "in", "ending", "over"}

Init ==
  /\ seq = 0
  /\ stage = [c \in Conns |-> "new"]
  /\ sent = [c \in Conns |-> <<>>]

\* The number c was last sent is n: said of a connection that was sent any.
LastIs(c, n) == sent[c] = <<>> \/ sent[c][Len(sent[c])] = n

Draw ==
  /\ seq < MaxSeq
  /\ \A c \in Conns : stage[c] \in {"auth", "in"} => LastIs(c, seq)
  /\ seq' = seq + 1
  /\ UNCHANGED <<stage, sent>>

Push(c) ==
  /\ stage[c] \in {"auth", "in", "ending"}
  /\ seq > 0 /\ LastIs(c, seq - 1)
  /\ sent' = [sent EXCEPT ![c] = Append(@, seq)]
  /\ UNCHANGED <<seq, stage>>

\* Logging in, being answered, being on the way out, and being out.
Later(from) ==
  CASE from = "new"    -> {"auth", "ending", "over"}
    [] from = "auth"   -> {"in", "ending", "over"}
    [] from = "in"     -> {"ending", "over"}
    [] from = "ending" -> {"over"}
    [] OTHER           -> {}

Advance(c) ==
  /\ \E to \in Later(stage[c]) : stage' = [stage EXCEPT ![c] = to]
  /\ UNCHANGED <<seq, sent>>

Next == Draw \/ \E c \in Conns : Push(c) \/ Advance(c)

Spec == Init /\ [][Next]_<<seq, stage, sent>>
=============================================================================
