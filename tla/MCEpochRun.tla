----------------------------- MODULE MCEpochRun -----------------------------
(***************************************************************************)
(* Scenarios on which TLC checks EpochRun.                                 *)
(***************************************************************************)
EXTENDS EpochRun

None == {}

\* "Users": 2 in epoch 0 and nobody later (god bot: the god node and one).
Before2 == [e \in 0..MaxEpoch |-> IF e = 0 THEN <<2>> ELSE <<>>]
\* Two sections in epoch 0.
Before2and1 == [e \in 0..MaxEpoch |-> IF e = 0 THEN <<2, 1>> ELSE <<>>]

\* User 1 invites twice after the flips of epoch 0, user 0 in epoch 1.
AfterInTurn == << [epoch |-> 0, inviter |-> 1, count |-> 1],
                  [epoch |-> 0, inviter |-> 1, count |-> 1],
                  [epoch |-> 1, inviter |-> 0, count |-> 1] >>
\* Users 0 and 1 both invite after the flips of the last epoch.
AfterRacing == << [epoch |-> MaxEpoch, inviter |-> 0, count |-> 1],
                  [epoch |-> MaxEpoch, inviter |-> 1, count |-> 1] >>
SwitchAll == {<<0, 0>>, <<0, 1>>}
SkipFirst == {<<0, 0>>}
User1 == {1}
=============================================================================
