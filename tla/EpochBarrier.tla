---------------------------- MODULE EpochBarrier ----------------------------
(***************************************************************************)
(* What the epoch loop of a bot promises, without users, invites, locks or *)
(* a WaitGroup: the test of an epoch forks a set of sessions, a running    *)
(* session may fork further ones, and the next epoch opens only when every *)
(* session of this epoch has joined.  EpochRun implements it.              *)
(***************************************************************************)
EXTENDS Naturals

CONSTANT Session        (* identities of verification session goroutines   *)

VARIABLES
  epoch,                (* number of the test being run                    *)
  forked,               (* TRUE once the sessions of the epoch were forked *)
  live                  (* sessions that have not joined                   *)

vars == <<epoch, forked, live>>

Init == /\ epoch = 0
        /\ forked = FALSE
        /\ live = {}

\* The test of the epoch starts its first sessions.
Fork == /\ ~forked
        /\ forked' = TRUE
        /\ live' \in (SUBSET Session) \ {{}}
        /\ UNCHANGED epoch

\* A live session forks others; nobody else may.
Spawn == /\ live # {}
         /\ live' \in SUBSET Session
         /\ live \subseteq live'
         /\ UNCHANGED <<epoch, forked>>

\* One session ends.
Join == /\ \E s \in live : live' = live \ {s}
        /\ UNCHANGED <<epoch, forked>>

\* Every session joined: the epoch is over.
Close == /\ forked
         /\ live = {}
         /\ epoch' = epoch + 1
         /\ forked' = FALSE
         /\ UNCHANGED live

Next == Fork \/ Spawn \/ Join \/ Close

Spec == Init /\ [][Next]_vars
=============================================================================
