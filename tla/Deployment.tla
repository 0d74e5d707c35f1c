----------------------------- MODULE Deployment ----------------------------
(***************************************************************************)
(* How the bots of one host get their settings and their nodes: the        *)
(* initialiser writes one configuration per bot, each bot loads its own,   *)
(* creates the god user if it is the god bot, and creates users epoch by   *)
(* epoch, with a node of their own or on the node of another user.  A      *)
(* setting that is not given is 0.                                         *)
(***************************************************************************)
EXTENDS Naturals, Sequences, FiniteSets

CONSTANTS
  Instances,    (* number of bots, bot 0 is to be the god bot              *)
  Files,        (* contents of the bot configuration file                  *)
  Offsets,      (* PortOffset of the initialiser's configuration           *)
  NodeFiles,    (* contents of the node's base configuration, see Specific *)
  Scenarios     (* per bot, its sections [after, count, parent] in order;
                   parent 0 is no SharedNode, p + 1 is user p              *)

Bots == 0..Instances - 1

-----------------------------------------------------------------------------
(* config.go                                                               *)

\* Settings of a file count if they are set ...
Overriding == {"PortOffset", "FirstRpcPort", "FirstIpfsPort", "FirstPort",
               "MinFlipSize", "MaxFlipSize", "NodeStopWaitingSec", "WorkDir"}
\* ... or always.
Copied == {"GodMode", "LowPowerProfileRate", "RandomApiKeys",
           "PredefinedApiKeys", "FlipsChanSize"}
Settings == Overriding \cup Copied

\* An empty path.
NoFile == [s \in {} |-> 0]

ASSUME DeploymentAssumption ==
  /\ Instances \in Nat \ {0} /\ Offsets \subseteq Nat
  /\ Files \subseteq [Settings -> Nat] \cup {NoFile}
  /\ \A base \in NodeFiles : base \in [DOMAIN base -> Nat]
  /\ Scenarios \subseteq
       [Bots -> Seq([after : BOOLEAN, count : Nat, parent : Nat])]

Cwd == 1
defaultConfig ==
  [s \in Settings |-> CASE s = "FirstRpcPort"  -> 9010
                        [] s = "FirstIpfsPort" -> 4010
                        [] s = "FirstPort"     -> 40410
                        [] s = "MinFlipSize"   -> 80000
                        [] s = "MaxFlipSize"   -> 160000
                        [] s = "NodeStopWaitingSec" -> 4
                        [] s = "WorkDir"       -> Cwd
                        [] OTHER               -> 0]

merge(from, to) ==
  [s \in Settings |-> IF s \in Copied \/ from[s] > 0 THEN from[s] ELSE to[s]]

\* Mutant: a flag that is not given counts as 0.
LoadFlagsAlways(file, godBotMode, portOffset) ==
  IF file = NoFile THEN defaultConfig
  ELSE [merge(file, defaultConfig) EXCEPT !["GodMode"] = IF godBotMode > 0 THEN 1 ELSE @,
                                          !["PortOffset"] = portOffset]

\* The flags of the command line come last, but only beside a file.
LoadFromFileWithDefaults(file, godBotMode, portOffset) ==
  IF file = NoFile THEN defaultConfig
  ELSE LET c == merge(file, defaultConfig)
       IN  [c EXCEPT !["GodMode"] = IF godBotMode > 0 THEN 1 ELSE @,
                     !["PortOffset"] = IF portOffset > 0 THEN portOffset ELSE @]

-----------------------------------------------------------------------------
(* initializer.go                                                          *)

\* What bot number index finds in its config.json.
initInstance(file, offset, index) ==
  LET c == LoadFromFileWithDefaults(file, 0, 0)
  IN  IF index = 0
      THEN [c EXCEPT !["GodMode"] = 1, !["WorkDir"] = 0]
      ELSE [c EXCEPT !["PortOffset"] = offset * index, !["WorkDir"] = 0]

-----------------------------------------------------------------------------
VARIABLES
  file, offset, nodeFile, sections,     (* the inputs                      *)
  written,      (* per bot, its config.json                                *)
  conf,         (* per bot, the settings it runs with                      *)
  status,       (* per bot: "new", "running" or "panicked"                 *)
  toCreate,     (* per bot, sections still to create                       *)
  users,        (* per bot, its users in the order of their indices        *)
  low           (* per bot, lowPowerProfileCount                           *)

deploymentVars == <<file, offset, nodeFile, sections, written, conf, status,
                    toCreate, users, low>>
inputs == <<file, offset, nodeFile, sections>>

\* InitMultiInsance.
DeploymentInit ==
  /\ file \in Files /\ offset \in Offsets /\ nodeFile \in NodeFiles
  /\ sections \in Scenarios
  /\ written = [b \in Bots |-> initInstance(file, offset, b)]
  /\ conf = [b \in Bots |-> defaultConfig]
  /\ status = [b \in Bots |-> "new"]
  /\ toCreate = sections
  /\ users = [b \in Bots |-> <<>>]
  /\ low = [b \in Bots |-> 0]

-----------------------------------------------------------------------------
(* createUser, createGodUser                                               *)

\* Mutant: only the sections before the flips are looked at.
isNodeSharedBefore(b, index) ==
  \E k \in DOMAIN sections[b] : ~sections[b][k].after /\ sections[b][k].parent = index + 1

isNodeShared(b, index) ==
  \E k \in DOMAIN sections[b] : sections[b][k].parent = index + 1

OwnNodes(b) == {k \in DOMAIN users[b] : users[b][k].parent = 0}

\* The rate is in per cent here.
defineNewNodeProfile(b, isGod, isShared) ==
  LET own == Cardinality(OwnNodes(b)) IN
  CASE isShared \/ isGod -> "shared"
    [] ~(isShared \/ isGod) /\ conf[b]["LowPowerProfileRate"] > 0 /\ own > 0
         /\ low[b] * 100 <= conf[b]["LowPowerProfileRate"] * own -> "lowpower"
    [] OTHER -> "default"

\* <<"predefined", i>>, <<"test", i>> or a random key: those of two users,
\* or two for one user, differ.
generateApiKey(b, index, user) ==
  CASE index < conf[b]["PredefinedApiKeys"] -> <<"predefined", index>>
    [] index >= conf[b]["PredefinedApiKeys"] /\ conf[b]["RandomApiKeys"] > 0 ->
         <<"random", user>>
    [] OTHER -> <<"test", index>>

\* buildSpecificConfig: what of it the base configuration can change.
Specific(b, index, isShared) ==
  [HTTPPort     |-> conf[b]["FirstRpcPort"] + conf[b]["PortOffset"] + index,
   IpfsPort     |-> conf[b]["FirstIpfsPort"] + conf[b]["PortOffset"] + index,
   LoadAllFlips |-> IF isShared THEN 1 ELSE 0]

\* addConfig: what is set in the base configuration wins over the node's own
\* settings.
addConfig(spec, base) ==
  [f \in DOMAIN spec |-> IF f \in DOMAIN base /\ base[f] > 0
                         THEN base[f] ELSE spec[f]]

\* Mutant: the port of the network leaves out the offset.
NewUserNoOffset(b, index, parent, profile) ==
  LET base == conf[b]["FirstRpcPort"] + conf[b]["PortOffset"]
  IN  [parent  |-> parent,
       profile |-> profile,
       rpcPort |-> IF parent = 0 THEN base + index ELSE base + parent - 1,
       apiKey  |-> IF parent = 0 THEN generateApiKey(b, index, index)
                   ELSE generateApiKey(b, parent - 1, index),
       port    |-> conf[b]["FirstPort"] + index,
       node    |-> addConfig(Specific(b, index, isNodeShared(b, index)), nodeFile)]

\* The user that is created as number index of b: parent is as in a section.
NewUser(b, index, parent, profile) ==
  LET shared == isNodeShared(b, index)
      base   == conf[b]["FirstRpcPort"] + conf[b]["PortOffset"]
  IN  [parent  |-> parent,
       profile |-> profile,
       rpcPort |-> IF parent = 0 THEN base + index ELSE base + parent - 1,
       apiKey  |-> IF parent = 0 THEN generateApiKey(b, index, index)
                   ELSE generateApiKey(b, parent - 1, index),
       port    |-> conf[b]["FirstPort"] + conf[b]["PortOffset"] + index,
       node    |-> addConfig(Specific(b, index, shared), nodeFile)]

UserCreated(b, parent, isGod) ==
  LET index   == Len(users[b])
      profile == IF parent > 0 THEN "none"
                 ELSE defineNewNodeProfile(b, isGod, isNodeShared(b, index))
  IN  /\ users' = [users EXCEPT ![b] = Append(@, NewUser(b, index, parent, profile))]
      /\ low' = [low EXCEPT ![b] = IF profile = "lowpower" THEN @ + 1 ELSE @]

-----------------------------------------------------------------------------
(* main, NewProcess and the sections of the epochs                         *)

\* main: the configuration is loaded; in god mode init creates the god user.
StartBot(b) ==
  /\ status[b] = "new"
  /\ conf' = [conf EXCEPT ![b] = LoadFromFileWithDefaults(written[b], 0, 0)]
  /\ status' = [status EXCEPT ![b] =
                  IF conf'[b]["GodMode"] > 0 THEN "god" ELSE "running"]
  /\ UNCHANGED <<inputs, written, toCreate, users, low>>

CreateGodUser(b) ==
  /\ status[b] = "god"
  /\ UserCreated(b, 0, TRUE)
  /\ status' = [status EXCEPT ![b] = "running"]
  /\ UNCHANGED <<inputs, written, conf, toCreate>>

\* createUsers: the users of a section, one after the other.
CreateUser(b) ==
  /\ status[b] = "running" /\ toCreate[b] # <<>>
  /\ LET section == Head(toCreate[b]) IN
       /\ section.count > 0 /\ section.parent <= Len(users[b])
       /\ UserCreated(b, section.parent, FALSE)
       /\ toCreate' = [toCreate EXCEPT ![b][1].count = @ - 1]
  /\ UNCHANGED <<inputs, written, conf, status>>

SectionDone(b) ==
  /\ status[b] = "running" /\ toCreate[b] # <<>> /\ Head(toCreate[b]).count = 0
  /\ toCreate' = [toCreate EXCEPT ![b] = Tail(@)]
  /\ UNCHANGED <<inputs, written, conf, status, users, low>>

\* process.users[*sharedNode] is out of range.
NoParent(b) ==
  /\ status[b] = "running" /\ toCreate[b] # <<>>
  /\ Head(toCreate[b]).count > 0 /\ Head(toCreate[b]).parent > Len(users[b])
  /\ status' = [status EXCEPT ![b] = "panicked"]
  /\ UNCHANGED <<inputs, written, conf, toCreate, users, low>>

DeploymentEnded ==
  /\ \A b \in Bots : \/ status[b] = "panicked"
                     \/ status[b] = "running" /\ toCreate[b] = <<>>
  /\ UNCHANGED deploymentVars

DeploymentNext ==
  \/ \E b \in Bots : \/ StartBot(b) \/ CreateGodUser(b) \/ CreateUser(b)
                     \/ SectionDone(b) \/ NoParent(b)
  \/ DeploymentEnded

DeploymentSpec == DeploymentInit /\ [][DeploymentNext]_deploymentVars

-----------------------------------------------------------------------------
(* Properties                                                              *)

UserRecord ==
  [parent : Nat, profile : {"none", "shared", "lowpower", "default"},
   rpcPort : Nat, apiKey : {"predefined", "random", "test"} \X Nat, port : Nat,
   node : [{"HTTPPort", "IpfsPort", "LoadAllFlips"} -> Nat]]

\* Types, and lowPowerProfileCount counts.
DeploymentTypeOK ==
  /\ written \in [Bots -> [Settings -> Nat]] /\ conf \in [Bots -> [Settings -> Nat]]
  /\ status \in [Bots -> {"new", "god", "running", "panicked"}]
  /\ toCreate \in [Bots -> Seq([after : BOOLEAN, count : Nat, parent : Nat])]
  /\ users \in [Bots -> Seq(UserRecord)] /\ low \in [Bots -> Nat]
  /\ \A b \in Bots :
       low[b] = Cardinality({k \in DOMAIN users[b] : users[b][k].profile = "lowpower"})

\* However the bots start, one of them is the god bot, provided the bot
\* configuration that they are made from is not one of a god bot.
Gods == {b \in Bots : status[b] # "new" /\ conf[b]["GodMode"] > 0}
OneGod ==
  file = NoFile \/ file["GodMode"] = 0 =>
    /\ Gods \subseteq {0}
    /\ (\A b \in Bots : status[b] # "new") => Gods # {}

\* A bot loads what the initialiser meant: the defaults, which have been
\* merged once when the file was written, are merged again without effect.
RunsAsWritten ==
  \A b \in Bots : status[b] # "new" =>
    \A s \in Settings \ {"WorkDir"} : conf[b][s] = written[b][s]

\* Files, defaults and flags together make the deployment that was asked for:
\* every bot runs as the initialiser meant it, and one of them as god bot.
ConfiguredAsMeant == OneGod /\ RunsAsWritten

HostNodes == UNION {{<<b, k>> : k \in OwnNodes(b)} : b \in Bots}
User(n) == users[n[1]][n[2]]

\* The ranges of the bots are apart: every bot has at most as many users as
\* the offset, the god bot's own offset leaves it as many, and the ports of
\* one kind end before those of the next begin.
FirstPorts == {"FirstRpcPort", "FirstIpfsPort", "FirstPort"}
Apart ==
  /\ \A b \in Bots : Len(users[b]) <= offset
  /\ conf[0]["PortOffset"] + Len(users[0]) <= offset
  /\ \A f, g \in FirstPorts : f # g =>
       \/ written[0][f] + Instances * offset <= written[0][g]
       \/ written[0][g] + Instances * offset <= written[0][f]
  /\ \A f \in {"HTTPPort", "IpfsPort"} : f \notin DOMAIN nodeFile
\* No two nodes of the host listen at one port, whichever sections of which
\* bots created them (process.go:299-316, init.go:110-117).
PortsApart ==
  Apart => \A m, n \in HostNodes : m # n =>
    {User(m).node.HTTPPort, User(m).node.IpfsPort, User(m).port} \cap
    {User(n).node.HTTPPort, User(n).node.IpfsPort, User(n).port} = {}

\* The client of a user reaches the node that it shares, with its key, and
\* that node loads all flips and has the profile of a shared node, although
\* it was created, maybe epochs ago, before the section that shares it.
\* Not so for a parent that is itself on another's node, and for random
\* keys: then every user on a node gets a key of its own.
SharedNodesServe ==
  \A b \in Bots : \A k \in DOMAIN users[b] :
    LET u == users[b][k] IN
    u.parent > 0 /\ users[b][u.parent].parent = 0 /\ nodeFile = NoFile =>
      LET p == users[b][u.parent] IN
      /\ p.profile = "shared" /\ p.node.LoadAllFlips = 1
      /\ p.node.HTTPPort = u.rpcPort
      /\ conf[b]["RandomApiKeys"] = 0 => p.apiKey = u.apiKey

=============================================================================
