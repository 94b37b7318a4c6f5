---------------------------- MODULE OrderedFeed ----------------------------
(***************************************************************************)
(* What the application is promised about battle pushes: a server numbers  *)
(* them 1, 2, 3, ... and the application is handed an increasing selection *)
(* of those numbers.  Pushes may be lost (a reconnect loses the ones sent  *)
(* meanwhile) and a restarted server numbers from 1 again, but what the    *)
(* application sees is never repeated, reordered or invented.              *)
(***************************************************************************)
EXTENDS Naturals, Sequences

CONSTANT MaxSeq          \* bound on the numbers a server hands out

VARIABLES published,     \* the highest number a server has given a push
          log            \* the numbers handed to the application, in order

Init == published = 0 /\ log = <<>>

Publish ==
  /\ published < MaxSeq
  /\ published' = published + 1
  /\ UNCHANGED log

Deliver ==
  \E s \in 1..published :
    /\ \A i \in DOMAIN log : log[i] < s
    /\ log' = Append(log, s)
    /\ UNCHANGED published

Next == Publish \/ Deliver

Spec == Init /\ [][Next]_<<published, log>>
=============================================================================
