------------------------------ MODULE MCStartup ----------------------------
(***************************************************************************)
(* What happens before the first test: Load converts the scenario          *)
(* (Scenario, ScenarioLists), and the bots take their settings from files  *)
(* and create users (Deployment).  The three share no state, so it is      *)
(* enough to run each of them beside two that have ended.                  *)
(***************************************************************************)
EXTENDS MCScenario, ScenarioLists, Deployment

AllKinds == Plain \cup Valued \cup Grouped \cup {"txs"}
SomeSections ==
  [epochs : {<<0>>, <<0, 1>>, MalformedText},
   nodes : {<<1>>, <<2, 1>>, <<1, 2, 1>>, <<>>},
   arg : {0, 5}, step : {0, 3}, onlyGodMode : BOOLEAN]

Given(f) == [s \in Settings |-> IF s \in DOMAIN f THEN f[s] ELSE 0]
SomeFiles ==
  {NoFile, Given([GodMode |-> 1]), Given([LowPowerProfileRate |-> 40]),
   Given([LowPowerProfileRate |-> 50, PortOffset |-> 1, PredefinedApiKeys |-> 1]),
   Given([RandomApiKeys |-> 1, PredefinedApiKeys |-> 1, FirstRpcPort |-> 9000])}
SomeOffsets == {0, 2, 10}
SomeNodeFiles == {NoFile, [HTTPPort |-> 9], [LoadAllFlips |-> 0]}

Sec(a, n, p) == [after |-> a, count |-> n, parent |-> p]
SomeScenarios ==
  [Bots -> {<<Sec(FALSE, 2, 0), Sec(TRUE, 1, 1), Sec(FALSE, 2, 0)>>,
            <<Sec(FALSE, 1, 0), Sec(TRUE, 2, 2), Sec(FALSE, 1, 3)>>,
            <<Sec(FALSE, 1, 0), Sec(FALSE, 3, 1), Sec(TRUE, 4, 0)>>}]

-----------------------------------------------------------------------------
LoadOver ==
  /\ sc = [users |-> 0, newUsers |-> <<>>, afterFlips |-> <<>>,
            ceremonies |-> <<>>, starts |-> <<>>, stops |-> <<>>] /\ nodes = 0
  /\ pc = "done" /\ i = 1 /\ used = {}
  /\ newUsers = <<>> /\ afterFlips = <<>> /\ ceremonies = <<>>
  /\ todo = <<>> /\ switches = <<>>

ListsOver ==
  /\ kind = "txs" /\ list = <<>> /\ godMode = FALSE
  /\ lpc = "done" /\ k = 1
  /\ map = [x \in {} |-> 0] /\ period = [x \in {} |-> 0]

DeploymentOver ==
  /\ file = NoFile /\ offset = 0 /\ nodeFile = NoFile
  /\ sections = [b \in Bots |-> <<>>] /\ toCreate = [b \in Bots |-> <<>>]
  /\ written = [b \in Bots |-> initInstance(NoFile, 0, b)]
  /\ conf = written
  /\ status = [b \in Bots |-> "running"]
  /\ users = [b \in Bots |-> <<>>]
  /\ low = [b \in Bots |-> 0]

StartupInit == \/ Init /\ ListsOver /\ DeploymentOver
               \/ LoadOver /\ ListsInit /\ DeploymentOver
               \/ LoadOver /\ ListsOver /\ DeploymentInit

StartupNext == \/ Next /\ UNCHANGED <<listsVars, deploymentVars>>
               \/ ListsNext /\ UNCHANGED <<vars, deploymentVars>>
               \/ DeploymentNext /\ UNCHANGED <<vars, listsVars>>

StartupSpec == StartupInit /\ [][StartupNext]_<<vars, listsVars, deploymentVars>>
=============================================================================
