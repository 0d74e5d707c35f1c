----------------------------- MODULE MCScenario -----------------------------
(***************************************************************************)
(* Scenarios with which TLC checks Scenario: all that can be made of a few *)
(* texts, with two sections, ceremonies or switches at most.               *)
(***************************************************************************)
EXTENDS Scenario

UpToOne(S) == {<<>>} \cup {<<a>> : a \in S}
UpToTwo(S) == UpToOne(S) \cup {<<a, b>> : a, b \in S}

\* "0", "1", "0-1", "1-0", "1,1" and a text that does not parse.
Texts == {<<<<0, 0>>>>, <<<<1, 1>>>>, <<<<0, 1>>>>, <<<<1, 0>>>>,
          <<<<1, 1>>, <<1, 1>>>>, <<Malformed>>}
UserTextLists == {<<<<<<0, 1>>>>>>, <<<<<<2, 2>>>>>>, <<<<<<0, 0>>>>, <<<<3, 3>>>>>>,
                  <<<<<<0, 1>>>>, <<<<1, 2>>>>>>, <<<<Malformed>>>>}

NewUsers == [epochs : Texts, inviter : {NoInviter, 0}, count : {0, 1}]
OneAfterFlips == {<<>>, <<[epochs |-> <<<<1, 1>>>>, inviter |-> 0, count |-> 1]>>}
Ceremonies == [epochs : Texts, users : UserTextLists]

Users == [users : {0, 1, 2}, newUsers : UpToTwo(NewUsers), afterFlips : OneAfterFlips,
          ceremonies : {<<>>, <<[epochs |-> <<<<0, 1>>>>, users |-> <<<<<<1, 2>>>>>>]>>},
          starts : {<<>>}, stops : {<<>>}]

CeremonyLists ==
  [users : {2}, newUsers : {<<[epochs |-> <<<<1, 1>>>>, inviter |-> 0, count |-> 1]>>},
   afterFlips : OneAfterFlips, ceremonies : UpToTwo(Ceremonies),
   starts : {<<>>}, stops : {<<>>}]

SwitchTexts == {<<<<0, 0>>>>, <<<<0, 1>>>>, <<<<1, 1>>, <<0, 1>>>>, <<Malformed>>}
SwitchSections == [epochs : {<<<<0, 0>>>>, <<<<0, 1>>>>}, nodes : SwitchTexts, delay : {0, 1}]
SwitchLists ==
  [users : {1}, newUsers : {<<>>}, afterFlips : {<<>>}, ceremonies : {<<>>},
   starts : UpToTwo(SwitchSections), stops : UpToOne(SwitchSections)]

AllInputs == Users \cup CeremonyLists \cup SwitchLists

FlagOrNot == {0, 3}
=============================================================================
