------------------------------ MODULE Account -------------------------------
(***************************************************************************)
(* What the goroutines of one user may do to its account, without locks,   *)
(* nonces, requests and failures: transactions are accepted one at a time  *)
(* and mined in order, a job has one of them under way at most, and ends   *)
(* when as many as it had to send are mined.  Transactions implements it.  *)
(***************************************************************************)
EXTENDS Naturals, Sequences, FiniteSets

CONSTANTS
  Senders, Jobs,        (* who sends; who waits for what it has sent       *)
  Size                  (* transactions of each job                        *)

VARIABLES
  log,                  (* the senders of the accepted transactions        *)
  mined,                (* the first of them that have been mined          *)
  ended                 (* jobs that are over                              *)

vars == <<log, mined, ended>>

Of(s) == {n \in DOMAIN log : log[n] = s}
AllMined(s) == \A n \in Of(s) : n <= mined

Init == log = <<>> /\ mined = 0 /\ ended = {}

\* A job sends only after its last transaction was mined, and not too often.
Accept(s) ==
  /\ s \in Jobs => s \notin ended /\ AllMined(s) /\ Cardinality(Of(s)) < Size[s]
  /\ log' = Append(log, s)
  /\ UNCHANGED <<mined, ended>>

Mine ==
  /\ mined < Len(log) /\ mined' = mined + 1
  /\ UNCHANGED <<log, ended>>

End(s) ==
  /\ s \in Jobs \ ended /\ AllMined(s) /\ Cardinality(Of(s)) = Size[s]
  /\ ended' = ended \cup {s}
  /\ UNCHANGED <<log, mined>>

Next == Mine \/ \E s \in Senders : Accept(s) \/ End(s)
Spec == Init /\ [][Next]_vars
=============================================================================
