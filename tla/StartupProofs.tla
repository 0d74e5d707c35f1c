---------------------------- MODULE StartupProofs ----------------------------
(***************************************************************************)
(* What holds for any bots, files, scenarios and lists before the first    *)
(* test.  Deployment: the bots run as the initialiser meant them, and the  *)
(* nodes of a host do not meet.  ScenarioLists: the map that the sessions  *)
(* look into says what the sections of the scenario say.  Scenario: a      *)
(* scenario that is accepted means what its author wrote.                  *)
(***************************************************************************)
EXTENDS Deployment, ScenarioLists, Scenario, FiniteSetTheorems,
        SequenceTheorems, WellFoundedInduction, TLAPS

-----------------------------------------------------------------------------
(* Deployment: the inductive invariant                                     *)

Section == [after : BOOLEAN, count : Nat, parent : Nat]

\* What the bots are given does not change, and written is made of it.
Given ==
  /\ file \in Files /\ offset \in Offsets /\ nodeFile \in NodeFiles
  /\ sections \in Scenarios
  /\ written = [b \in Bots |-> initInstance(file, offset, b)]

\* A bot runs with what it has loaded.
Loaded ==
  \A b \in Bots : conf[b] = IF status[b] = "new" THEN defaultConfig
                            ELSE LoadFromFileWithDefaults(written[b], 0, 0)

\* The sections that are left share nodes as the scenario says.
SectionsLeft ==
  \A b \in Bots : \A j \in DOMAIN toCreate[b] :
    \E h \in DOMAIN sections[b] : sections[b][h].parent = toCreate[b][j].parent

\* Users are made by number; a parent is older than the users on its node,
\* is named by a section, and was made with a profile for sharing.
Made(b, n, u) ==
  /\ u = NewUser(b, n - 1, u.parent, u.profile)
  /\ u.parent < n
  /\ u.parent > 0 => isNodeShared(b, u.parent - 1)
  /\ u.parent = 0 /\ isNodeShared(b, n - 1) => u.profile = "shared"

UsersMade ==
  /\ \A b \in Bots : status[b] = "new" => users[b] = <<>>
  /\ \A b \in Bots : \A n \in DOMAIN users[b] : Made(b, n, users[b][n])

DeploymentInv == Given /\ DeploymentTypeOK /\ Loaded /\ SectionsLeft /\ UsersMade

-----------------------------------------------------------------------------
(* Files and defaults                                                      *)

LEMMA DefaultsTyped == defaultConfig \in [Settings -> Nat]
BY DEF defaultConfig, Cwd

\* What a file is merged into has all settings.
LEMMA MergeTyped ==
  ASSUME NEW f \in [Settings -> Nat], NEW g \in [Settings -> Nat]
  PROVE  merge(f, g) \in [Settings -> Nat]
BY DEF merge

LEMMA FilesAreFiles ==
  ASSUME NEW f \in [Settings -> Nat] PROVE f # NoFile
<1>1. "GodMode" \in Settings BY DEF Settings, Copied
<1>2. DOMAIN f = Settings /\ DOMAIN NoFile = {} BY DEF NoFile
<1> QED BY <1>1, <1>2

LEMMA LoadTyped ==
  ASSUME NEW f \in [Settings -> Nat] \cup {NoFile}
  PROVE  LoadFromFileWithDefaults(f, 0, 0) \in [Settings -> Nat]
<1>1. CASE f = NoFile BY <1>1, DefaultsTyped DEF LoadFromFileWithDefaults
<1>2. CASE f # NoFile
  <2>1. f \in [Settings -> Nat] BY <1>2
  <2>2. merge(f, defaultConfig) \in [Settings -> Nat] BY <2>1, DefaultsTyped, MergeTyped
  <2> QED BY <1>2, <2>2 DEF LoadFromFileWithDefaults
<1> QED BY <1>1, <1>2

\* Without flags, a file is merged with the defaults.
LEMMA LoadMerges ==
  ASSUME NEW f \in [Settings -> Nat]
  PROVE  LoadFromFileWithDefaults(f, 0, 0) = merge(f, defaultConfig)
<1>1. f # NoFile BY FilesAreFiles
<1>2. merge(f, defaultConfig) \in [Settings -> Nat] BY DefaultsTyped, MergeTyped
<1> DEFINE c == merge(f, defaultConfig)
<1>3. LoadFromFileWithDefaults(f, 0, 0) =
        [c EXCEPT !["GodMode"] = c["GodMode"], !["PortOffset"] = c["PortOffset"]]
  BY <1>1 DEF LoadFromFileWithDefaults
<1> HIDE DEF c
<1> QED BY <1>2, <1>3 DEF c

LEMMA WrittenTyped ==
  ASSUME Given PROVE written \in [Bots -> [Settings -> Nat]]
<1> SUFFICES ASSUME NEW b \in Bots PROVE initInstance(file, offset, b) \in [Settings -> Nat]
  BY DEF Given
<1>1. LoadFromFileWithDefaults(file, 0, 0) \in [Settings -> Nat]
  BY LoadTyped, DeploymentAssumption DEF Given
<1>2. offset * b \in Nat BY DeploymentAssumption DEF Given, Bots
<1> QED BY <1>1, <1>2 DEF initInstance

\* Merging the defaults a second time changes nothing but WorkDir.
LEMMA MergedTwice ==
  ASSUME Given, NEW b \in Bots, NEW s \in Settings \ {"WorkDir"}
  PROVE  LoadFromFileWithDefaults(written[b], 0, 0)[s] = written[b][s]
<1> DEFINE c == LoadFromFileWithDefaults(file, 0, 0)
<1>1. written[b] \in [Settings -> Nat] BY WrittenTyped
<1>2. LoadFromFileWithDefaults(written[b], 0, 0)[s] =
        IF s \in Copied \/ written[b][s] > 0 THEN written[b][s] ELSE defaultConfig[s]
  BY <1>1, LoadMerges DEF merge
<1>3. s \in Copied \/ written[b][s] > 0 \/ written[b][s] = 0 BY <1>1
<1>4. c \in [Settings -> Nat] BY LoadTyped, DeploymentAssumption DEF Given
<1>5. s \notin Copied /\ c[s] = 0 => defaultConfig[s] = 0
  <2>1. CASE file = NoFile BY <2>1 DEF LoadFromFileWithDefaults
  <2>2. CASE file \in [Settings -> Nat]
    <3>1. c[s] = IF s \in Copied \/ file[s] > 0 THEN file[s] ELSE defaultConfig[s]
      BY <2>2, LoadMerges DEF merge
    <3> QED BY <2>2, <3>1
  <2> QED BY <2>1, <2>2, DeploymentAssumption DEF Given
<1>6. CASE b = 0
  <2>1. written[b] = [c EXCEPT !["GodMode"] = 1, !["WorkDir"] = 0]
    BY <1>6 DEF Given, initInstance
  <2>2. s # "GodMode" => written[b][s] = c[s] BY <1>4, <2>1
  <2>3. "GodMode" \in Copied BY DEF Copied
  <2> HIDE DEF c
  <2> QED BY <1>2, <1>3, <1>5, <2>2, <2>3
<1>7. CASE b # 0
  <2>1. written[b] = [c EXCEPT !["PortOffset"] = offset * b, !["WorkDir"] = 0]
    BY <1>7 DEF Given, initInstance
  <2>2. s # "PortOffset" => written[b][s] = c[s] BY <1>4, <2>1
  <2>3. defaultConfig["PortOffset"] = 0 BY DEF defaultConfig, Settings, Overriding
  <2> HIDE DEF c
  <2> QED BY <1>2, <1>3, <1>5, <2>2, <2>3
<1> QED BY <1>6, <1>7

-----------------------------------------------------------------------------
(* The users                                                               *)

NodeFields == {"HTTPPort", "IpfsPort", "LoadAllFlips"}
Profiles == {"none", "shared", "lowpower", "default"}

LEMMA KeyTyped ==
  ASSUME NEW b \in Bots, conf[b] \in [Settings -> Nat], NEW h \in Nat, NEW u \in Nat
  PROVE  generateApiKey(b, h, u) \in {"predefined", "random", "test"} \X Nat
<1>1. conf[b]["PredefinedApiKeys"] \in Nat BY DEF Settings, Copied
<1>2. CASE h < conf[b]["PredefinedApiKeys"] BY <1>1, <1>2 DEF generateApiKey
<1>3. CASE h >= conf[b]["PredefinedApiKeys"] BY <1>1, <1>3 DEF generateApiKey
<1> QED BY <1>1, <1>2, <1>3

LEMMA NodeTyped ==
  ASSUME DeploymentInv, NEW b \in Bots, NEW h \in Nat, NEW shared \in BOOLEAN
  PROVE  /\ addConfig(Specific(b, h, shared), nodeFile) \in [NodeFields -> Nat]
         /\ \A f \in NodeFields : f \notin DOMAIN nodeFile =>
              addConfig(Specific(b, h, shared), nodeFile)[f] = Specific(b, h, shared)[f]
<1>1. conf[b] \in [Settings -> Nat] BY DEF DeploymentInv, DeploymentTypeOK
<1>2. /\ conf[b]["FirstRpcPort"] + conf[b]["PortOffset"] + h \in Nat
      /\ conf[b]["FirstIpfsPort"] + conf[b]["PortOffset"] + h \in Nat
  BY <1>1 DEF Settings, Overriding
<1>3. /\ DOMAIN Specific(b, h, shared) = NodeFields
      /\ \A f \in NodeFields : Specific(b, h, shared)[f] \in Nat
  BY <1>2 DEF Specific, NodeFields
<1>4. \A f \in DOMAIN nodeFile : nodeFile[f] \in Nat
  BY DeploymentAssumption DEF DeploymentInv, Given
<1> QED BY <1>3, <1>4 DEF addConfig

LEMMA NewUserTyped ==
  ASSUME DeploymentInv, NEW b \in Bots, NEW h \in Nat, NEW parent \in Nat,
         NEW profile \in Profiles
  PROVE  NewUser(b, h, parent, profile) \in UserRecord
<1>1. conf[b] \in [Settings -> Nat] BY DEF DeploymentInv, DeploymentTypeOK
<1> DEFINE base == conf[b]["FirstRpcPort"] + conf[b]["PortOffset"]
<1>2. base \in Nat /\ conf[b]["FirstPort"] + conf[b]["PortOffset"] + h \in Nat
  BY <1>1 DEF Settings, Overriding
<1>3. (IF parent = 0 THEN base + h ELSE base + parent - 1) \in Nat
  <2> HIDE DEF base
  <2> QED BY <1>2
<1>4. (IF parent = 0 THEN generateApiKey(b, h, h) ELSE generateApiKey(b, parent - 1, h))
        \in {"predefined", "random", "test"} \X Nat
  <2>1. parent # 0 => parent - 1 \in Nat OBVIOUS
  <2> QED BY <1>1, <2>1, KeyTyped
<1>5. addConfig(Specific(b, h, isNodeShared(b, h)), nodeFile) \in [NodeFields -> Nat]
  <2>1. isNodeShared(b, h) \in BOOLEAN BY DEF isNodeShared
  <2> QED BY <2>1, NodeTyped
<1> QED BY <1>2, <1>3, <1>4, <1>5 DEF NewUser, UserRecord, NodeFields, Profiles

\* A low-power node more or not: the count goes with the users.
LowPower(us) == {n \in DOMAIN us : us[n].profile = "lowpower"}

LEMMA LowCounted ==
  ASSUME NEW us \in Seq(UserRecord), NEW u \in UserRecord
  PROVE  Cardinality(LowPower(Append(us, u))) =
           Cardinality(LowPower(us)) + IF u.profile = "lowpower" THEN 1 ELSE 0
<1> DEFINE n == Len(us) + 1
<1>1. Len(us) \in Nat /\ DOMAIN us = 1..Len(us) BY LenProperties
<1>2. /\ DOMAIN Append(us, u) = 1..n /\ Append(us, u)[n] = u
      /\ \A j \in 1..Len(us) : Append(us, u)[j] = us[j]
  <2>1. Append(us, u) \in Seq(UserRecord) /\ Len(Append(us, u)) = n BY AppendProperties
  <2> QED BY <2>1, AppendProperties, LenProperties
<1>3. 1..n = (1..Len(us)) \cup {n} BY <1>1
<1>4. IsFiniteSet(LowPower(us))
  <2>1. IsFiniteSet(1..Len(us)) BY <1>1, FS_Interval
  <2> QED BY <1>1, <2>1, FS_Subset DEF LowPower
<1>5. n \notin LowPower(us) BY <1>1 DEF LowPower
<1>6. CASE u.profile = "lowpower"
  <2>1. LowPower(Append(us, u)) = LowPower(us) \cup {n}
    <3> HIDE DEF n
    <3> QED BY <1>1, <1>2, <1>3, <1>6 DEF LowPower
  <2> QED BY <1>4, <1>5, <1>6, <2>1, FS_AddElement
<1>7. CASE u.profile # "lowpower"
  <2>1. LowPower(Append(us, u)) = LowPower(us)
    <3> HIDE DEF n
    <3> QED BY <1>1, <1>2, <1>3, <1>7 DEF LowPower
  <2>2. Cardinality(LowPower(us)) \in Nat BY <1>4, FS_CardinalityType
  <2> QED BY <1>7, <2>1, <2>2
<1> QED BY <1>6, <1>7

\* The user that a bot creates is made as it should be, and the others stay.
LEMMA UserCreatedKeeps ==
  ASSUME DeploymentInv, NEW b \in Bots, NEW parent \in Nat, NEW isGod \in BOOLEAN,
         parent <= Len(users[b]), parent > 0 => isNodeShared(b, parent - 1),
         UserCreated(b, parent, isGod), status[b] # "new",
         UNCHANGED <<inputs, written, conf>>,
         \A c \in Bots : status'[c] = "new" => status[c] = "new" /\ c # b
  PROVE  /\ users' \in [Bots -> Seq(UserRecord)] /\ low' \in [Bots -> Nat]
         /\ \A c \in Bots : low'[c] = Cardinality(LowPower(users'[c]))
         /\ UsersMade'
<1> DEFINE index == Len(users[b])
<1>0. PICK profile : profile = IF parent > 0 THEN "none"
                     ELSE defineNewNodeProfile(b, isGod, isNodeShared(b, index))
  OBVIOUS
<1> DEFINE u == NewUser(b, index, parent, profile)
<1>1. /\ users' = [users EXCEPT ![b] = Append(@, u)]
      /\ low' = [low EXCEPT ![b] = IF profile = "lowpower" THEN @ + 1 ELSE @]
  BY <1>0 DEF UserCreated
<1>2. /\ users \in [Bots -> Seq(UserRecord)] /\ low \in [Bots -> Nat]
      /\ \A c \in Bots : low[c] = Cardinality(LowPower(users[c]))
  BY DEF DeploymentInv, DeploymentTypeOK, LowPower
<1>3. index \in Nat /\ DOMAIN users[b] = 1..index BY <1>2, LenProperties
<1>4. profile \in Profiles
  <2>1. defineNewNodeProfile(b, isGod, isNodeShared(b, index)) \in Profiles
    BY DEF defineNewNodeProfile, Profiles
  <2> QED BY <1>0, <2>1 DEF Profiles
<1>5. u \in UserRecord BY <1>3, <1>4, NewUserTyped
<1>6. u.parent = parent /\ u.profile = profile BY DEF NewUser
<1>7. parent = 0 /\ isNodeShared(b, index) => profile = "shared"
  BY <1>0 DEF defineNewNodeProfile
<1>8. Append(users[b], u) \in Seq(UserRecord) /\ Len(Append(users[b], u)) = index + 1
  BY <1>2, <1>5, AppendProperties
<1>9. /\ DOMAIN Append(users[b], u) = 1..index + 1
      /\ Append(users[b], u)[index + 1] = u
      /\ \A n \in 1..index : Append(users[b], u)[n] = users[b][n]
  BY <1>2, <1>5, <1>8, AppendProperties, LenProperties
<1> HIDE DEF u
<1>10. users' \in [Bots -> Seq(UserRecord)] /\ low' \in [Bots -> Nat] BY <1>1, <1>2, <1>8
<1>11. ASSUME NEW c \in Bots PROVE low'[c] = Cardinality(LowPower(users'[c]))
  <2>1. CASE c = b
    <3>1. Cardinality(LowPower(Append(users[b], u))) =
            low[b] + IF profile = "lowpower" THEN 1 ELSE 0
      BY <1>2, <1>5, <1>6, LowCounted
    <3>2. users'[b] = Append(users[b], u) BY <1>1, <1>2
    <3>3. low'[b] = (IF profile = "lowpower" THEN low[b] + 1 ELSE low[b]) /\ low[b] \in Nat
      BY <1>1, <1>2
    <3>4. low'[b] = low[b] + IF profile = "lowpower" THEN 1 ELSE 0 BY <3>3
    <3> QED BY <2>1, <3>1, <3>2, <3>4
  <2>2. CASE c # b BY <1>1, <1>2, <2>2
  <2> QED BY <2>1, <2>2
<1>12. ASSUME NEW c \in Bots, status'[c] = "new" PROVE users'[c] = <<>>
  BY <1>1, <1>2, <1>12 DEF DeploymentInv, UsersMade
<1>13. ASSUME NEW c \in Bots, NEW n \in DOMAIN users'[c], NEW v PROVE Made(c, n, v)' = Made(c, n, v)
  BY DEF Made, inputs, NewUser, isNodeShared, generateApiKey, Specific, addConfig
<1>14. ASSUME NEW c \in Bots, NEW n \in DOMAIN users'[c] PROVE Made(c, n, users'[c][n])
  <2>1. CASE c # b BY <1>1, <1>2, <2>1 DEF DeploymentInv, UsersMade
  <2>2. CASE c = b
    <3>1. users'[c] = Append(users[b], u) BY <1>1, <1>2, <2>2
    <3>2. CASE n \in 1..index BY <1>3, <1>9, <2>2, <3>1, <3>2 DEF DeploymentInv, UsersMade
    <3>3. CASE n = index + 1
      <4>1. users'[c][n] = u /\ n - 1 = index BY <1>3, <1>9, <3>1, <3>3
      <4>2. u = NewUser(b, n - 1, u.parent, u.profile) BY <1>6, <4>1 DEF u
      <4>3. u.parent < n BY <1>3, <1>6, <3>3
      <4> QED BY <1>6, <1>7, <2>2, <4>1, <4>2, <4>3 DEF Made
    <3> QED BY <1>3, <1>9, <3>1, <3>2, <3>3
  <2> QED BY <2>1, <2>2
<1> QED BY <1>10, <1>11, <1>12, <1>13, <1>14 DEF UsersMade

-----------------------------------------------------------------------------
(* Deployment: the steps                                                   *)

LEMMA DeploymentInitially == DeploymentInit => DeploymentInv
<1> SUFFICES ASSUME DeploymentInit PROVE DeploymentInv OBVIOUS
<1>1. Given BY DEF DeploymentInit, Given
<1>2. written \in [Bots -> [Settings -> Nat]] BY <1>1, WrittenTyped
<1>3. conf \in [Bots -> [Settings -> Nat]] BY DefaultsTyped DEF DeploymentInit
<1>4. toCreate \in [Bots -> Seq(Section)] BY DeploymentAssumption DEF DeploymentInit, Section
<1>5. users \in [Bots -> Seq(UserRecord)] /\ low \in [Bots -> Nat]
  <2>1. <<>> \in Seq(UserRecord) BY EmptySeq
  <2> QED BY <2>1 DEF DeploymentInit
<1>6. ASSUME NEW b \in Bots
      PROVE  low[b] = Cardinality({n \in DOMAIN users[b] : users[b][n].profile = "lowpower"})
  <2>1. users[b] = <<>> /\ low[b] = 0 BY DEF DeploymentInit
  <2>2. {n \in DOMAIN users[b] : users[b][n].profile = "lowpower"} = {} BY <2>1
  <2> QED BY <2>1, <2>2, FS_EmptySet
<1>7. DeploymentTypeOK
  BY <1>2, <1>3, <1>4, <1>5, <1>6 DEF DeploymentInit, DeploymentTypeOK, Section
<1>8. Loaded BY DEF DeploymentInit, Loaded
<1>9. SectionsLeft BY DEF DeploymentInit, SectionsLeft
<1>10. UsersMade BY DEF DeploymentInit, UsersMade
<1> QED BY <1>1, <1>7, <1>8, <1>9, <1>10 DEF DeploymentInv

LEMMA StartBotKeeps == ASSUME DeploymentInv, NEW b \in Bots, StartBot(b) PROVE DeploymentInv'
<1>1. Given /\ DeploymentTypeOK /\ Loaded /\ SectionsLeft /\ UsersMade BY DEF DeploymentInv
<1>2. Given' BY <1>1 DEF StartBot, Given, inputs
<1>3. conf' = [conf EXCEPT ![b] = LoadFromFileWithDefaults(written[b], 0, 0)]
  BY DEF StartBot
<1>4. LoadFromFileWithDefaults(written[b], 0, 0) \in [Settings -> Nat]
  BY <1>1, LoadTyped DEF DeploymentTypeOK
<1>5. status' = [status EXCEPT ![b] = status'[b]] /\ status'[b] \in {"god", "running"}
  BY <1>1 DEF StartBot, DeploymentTypeOK
<1>6. DeploymentTypeOK'
  <2>1. conf' \in [Bots -> [Settings -> Nat]] BY <1>1, <1>3, <1>4 DEF DeploymentTypeOK
  <2>2. status' \in [Bots -> {"new", "god", "running", "panicked"}]
    BY <1>1, <1>5 DEF DeploymentTypeOK
  <2> QED BY <1>1, <2>1, <2>2 DEF StartBot, DeploymentTypeOK
<1>7. Loaded'
  <2> SUFFICES ASSUME NEW c \in Bots
               PROVE  conf'[c] = IF status'[c] = "new" THEN defaultConfig
                                 ELSE LoadFromFileWithDefaults(written[c], 0, 0)
    BY DEF Loaded, StartBot
  <2>1. CASE c = b BY <1>1, <1>3, <1>5, <2>1 DEF DeploymentTypeOK
  <2>2. CASE c # b
    <3>1. status'[c] = status[c] BY <1>1, <1>5, <2>2 DEF DeploymentTypeOK
    <3>2. conf'[c] = conf[c] BY <1>1, <1>3, <2>2 DEF DeploymentTypeOK
    <3> QED BY <1>1, <3>1, <3>2 DEF Loaded
  <2> QED BY <2>1, <2>2
<1>8. SectionsLeft' BY <1>1 DEF StartBot, SectionsLeft, inputs
<1>9. UsersMade'
  <2>1. users[b] = <<>> BY <1>1 DEF StartBot, UsersMade
  <2>2. ASSUME NEW c \in Bots, status'[c] = "new" PROVE users'[c] = <<>>
    BY <1>1, <1>5, <2>2 DEF StartBot, UsersMade, DeploymentTypeOK
  <2>3. ASSUME NEW c \in Bots, NEW n \in DOMAIN users'[c] PROVE Made(c, n, users[c][n])'
    <3>1. c # b BY <2>1, <2>3 DEF StartBot
    <3>2. conf'[c] = conf[c] BY <1>1, <1>3, <3>1 DEF DeploymentTypeOK
    <3>3. Made(c, n, users[c][n]) BY <1>1, <2>3 DEF StartBot, UsersMade
    <3> QED BY <3>2, <3>3 DEF StartBot, inputs, Made, NewUser, isNodeShared, generateApiKey,
                              Specific, addConfig
  <2> QED BY <2>2, <2>3 DEF UsersMade
<1> QED BY <1>2, <1>6, <1>7, <1>8, <1>9 DEF DeploymentInv

LEMMA CreateGodUserKeeps ==
  ASSUME DeploymentInv, NEW b \in Bots, CreateGodUser(b) PROVE DeploymentInv'
<1>1. Given /\ DeploymentTypeOK /\ Loaded /\ SectionsLeft /\ UsersMade BY DEF DeploymentInv
<1>2. Given' BY <1>1 DEF CreateGodUser, Given, inputs
<1>3. status' = [status EXCEPT ![b] = "running"] /\ status[b] = "god" BY DEF CreateGodUser
<1>4. /\ users' \in [Bots -> Seq(UserRecord)] /\ low' \in [Bots -> Nat]
      /\ \A c \in Bots : low'[c] = Cardinality(LowPower(users'[c]))
      /\ UsersMade'
  <2>1. \A c \in Bots : status'[c] = "new" => status[c] = "new" /\ c # b
    BY <1>1, <1>3 DEF DeploymentTypeOK
  <2>2. 0 <= Len(users[b]) BY <1>1, LenProperties DEF DeploymentTypeOK
  <2>3. UserCreated(b, 0, TRUE) /\ UNCHANGED <<inputs, written, conf>> BY DEF CreateGodUser
  <2>4. (0 > 0 => isNodeShared(b, 0 - 1)) /\ 0 \in Nat /\ TRUE \in BOOLEAN OBVIOUS
  <2>5. status[b] # "new" BY <1>3
  <2> QED BY <2>1, <2>2, <2>3, <2>4, <2>5, UserCreatedKeeps
<1>5. DeploymentTypeOK'
  <2>1. status' \in [Bots -> {"new", "god", "running", "panicked"}]
    BY <1>1, <1>3 DEF DeploymentTypeOK
  <2> QED BY <1>1, <1>4, <2>1 DEF CreateGodUser, DeploymentTypeOK, LowPower
<1>6. Loaded' BY <1>1, <1>3 DEF CreateGodUser, Loaded, DeploymentTypeOK
<1>7. SectionsLeft' BY <1>1 DEF CreateGodUser, SectionsLeft, inputs
<1> QED BY <1>2, <1>4, <1>5, <1>6, <1>7 DEF DeploymentInv

LEMMA CreateUserKeeps ==
  ASSUME DeploymentInv, NEW b \in Bots, CreateUser(b) PROVE DeploymentInv'
<1>1. Given /\ DeploymentTypeOK /\ Loaded /\ SectionsLeft /\ UsersMade BY DEF DeploymentInv
<1> DEFINE section == Head(toCreate[b])
<1>2. Given' BY <1>1 DEF CreateUser, Given, inputs
<1>3. toCreate[b] \in Seq(Section) /\ toCreate[b] # <<>> /\ toCreate \in [Bots -> Seq(Section)]
  BY <1>1 DEF CreateUser, DeploymentTypeOK, Section
<1>4. /\ Len(toCreate[b]) \in Nat /\ DOMAIN toCreate[b] = 1..Len(toCreate[b])
      /\ 1 \in DOMAIN toCreate[b] /\ section = toCreate[b][1]
  BY <1>3, LenProperties, EmptySeq, HeadTailProperties
<1>5. section \in Section BY <1>3, <1>4, ElementOfSeq
<1>6. PICK h \in DOMAIN sections[b] : sections[b][h].parent = section.parent
  BY <1>1, <1>4 DEF SectionsLeft
<1>7. section.parent > 0 => isNodeShared(b, section.parent - 1)
  <2>1. section.parent > 0 => section.parent - 1 + 1 = section.parent BY <1>5 DEF Section
  <2> QED BY <1>6, <2>1 DEF isNodeShared
<1>8. /\ users' \in [Bots -> Seq(UserRecord)] /\ low' \in [Bots -> Nat]
      /\ \A c \in Bots : low'[c] = Cardinality(LowPower(users'[c]))
      /\ UsersMade'
  <2>1. status' = status /\ status[b] = "running" BY DEF CreateUser
  <2>2. \A c \in Bots : status'[c] = "new" => status[c] = "new" /\ c # b BY <2>1
  <2>3. /\ UserCreated(b, section.parent, FALSE) /\ section.parent <= Len(users[b])
        /\ UNCHANGED <<inputs, written, conf>>
    BY DEF CreateUser
  <2>4. section.parent \in Nat BY <1>5 DEF Section
  <2> QED BY <1>7, <2>1, <2>2, <2>3, <2>4, UserCreatedKeeps
<1>9. PICK s : s = [toCreate[b] EXCEPT ![1].count = @ - 1] OBVIOUS
<1>10. toCreate' = [toCreate EXCEPT ![b] = s] BY <1>3, <1>9 DEF CreateUser
<1>11. /\ s \in Seq(Section) /\ DOMAIN s = DOMAIN toCreate[b]
       /\ \A j \in DOMAIN s : s[j].parent = toCreate[b][j].parent
  <2>1. section.count - 1 \in Nat BY <1>5 DEF CreateUser, Section
  <2>2. [section EXCEPT !.count = @ - 1] \in Section
    BY <1>5, <2>1 DEF Section
  <2>3. s = [toCreate[b] EXCEPT ![1] = [section EXCEPT !.count = @ - 1]]
    BY <1>4, <1>9
  <2>4. s \in Seq(Section) BY <1>3, <1>4, <2>2, <2>3, ExceptSeq
  <2>5. [section EXCEPT !.count = @ - 1].parent = section.parent BY <1>5 DEF Section
  <2> QED BY <1>4, <2>3, <2>4, <2>5
<1>12. DeploymentTypeOK'
  <2>1. toCreate' \in [Bots -> Seq(Section)] BY <1>3, <1>10, <1>11
  <2> QED BY <1>1, <1>8, <2>1 DEF CreateUser, DeploymentTypeOK, LowPower, Section
<1>13. Loaded' BY <1>1 DEF CreateUser, Loaded
<1>14. SectionsLeft'
  <2>1. sections' = sections BY DEF CreateUser, inputs
  <2>2. ASSUME NEW c \in Bots, NEW j \in DOMAIN toCreate'[c]
        PROVE  \E x \in DOMAIN sections[c] : sections[c][x].parent = toCreate'[c][j].parent
    <3>1. CASE c = b BY <1>1, <1>3, <1>10, <1>11, <2>2, <3>1 DEF SectionsLeft
    <3>2. CASE c # b BY <1>1, <1>3, <1>10, <2>2, <3>2 DEF SectionsLeft
    <3> QED BY <3>1, <3>2
  <2> QED BY <2>1, <2>2 DEF SectionsLeft
<1> QED BY <1>2, <1>8, <1>12, <1>13, <1>14 DEF DeploymentInv

\* A step that creates nobody and loads nothing keeps how the users were made.
LEMMA OthersKeep ==
  ASSUME DeploymentInv, UNCHANGED <<inputs, written, conf, users, low>>,
         status' \in [Bots -> {"new", "god", "running", "panicked"}],
         \A c \in Bots : status'[c] = "new" <=> status[c] = "new",
         toCreate' \in [Bots -> Seq(Section)],
         \A c \in Bots : \A j \in DOMAIN toCreate'[c] :
           \E h \in DOMAIN toCreate[c] : toCreate[c][h] = toCreate'[c][j]
  PROVE  DeploymentInv'
<1>1. Given /\ DeploymentTypeOK /\ Loaded /\ SectionsLeft /\ UsersMade BY DEF DeploymentInv
<1>2. Given' BY <1>1 DEF Given, inputs
<1>3. DeploymentTypeOK' BY <1>1 DEF DeploymentTypeOK, Section
<1>4. Loaded' BY <1>1 DEF Loaded
<1>5. SectionsLeft'
  <2>1. sections' = sections BY DEF inputs
  <2>2. ASSUME NEW c \in Bots, NEW j \in DOMAIN toCreate'[c]
        PROVE  \E x \in DOMAIN sections[c] : sections[c][x].parent = toCreate'[c][j].parent
    <3>1. PICK h \in DOMAIN toCreate[c] : toCreate[c][h] = toCreate'[c][j] BY <2>2
    <3> QED BY <1>1, <3>1 DEF SectionsLeft
  <2> QED BY <2>1, <2>2 DEF SectionsLeft
<1>6. UsersMade'
  <2>1. ASSUME NEW c \in Bots, NEW n \in DOMAIN users[c] PROVE Made(c, n, users[c][n])'
    <3>1. Made(c, n, users[c][n]) BY <1>1 DEF UsersMade
    <3> QED BY <3>1 DEF inputs, Made, NewUser, isNodeShared, generateApiKey, Specific, addConfig
  <2> QED BY <1>1, <2>1 DEF UsersMade
<1> QED BY <1>2, <1>3, <1>4, <1>5, <1>6 DEF DeploymentInv

LEMMA SectionDoneKeeps ==
  ASSUME DeploymentInv, NEW b \in Bots, SectionDone(b) PROVE DeploymentInv'
<1>1. toCreate \in [Bots -> Seq(Section)] /\ toCreate[b] # <<>>
  BY DEF SectionDone, DeploymentInv, DeploymentTypeOK, Section
<1>2. toCreate' = [toCreate EXCEPT ![b] = Tail(toCreate[b])] BY DEF SectionDone
<1>3. /\ Tail(toCreate[b]) \in Seq(Section) /\ Len(toCreate[b]) \in Nat
      /\ Len(Tail(toCreate[b])) = Len(toCreate[b]) - 1
      /\ \A j \in 1..Len(Tail(toCreate[b])) : Tail(toCreate[b])[j] = toCreate[b][j + 1]
  BY <1>1, HeadTailProperties, LenProperties
<1>4. ASSUME NEW c \in Bots, NEW j \in DOMAIN toCreate'[c]
      PROVE  \E h \in DOMAIN toCreate[c] : toCreate[c][h] = toCreate'[c][j]
  <2>1. CASE c = b
    <3>1. toCreate'[c] = Tail(toCreate[b]) BY <1>1, <1>2, <2>1
    <3>2. j \in 1..Len(Tail(toCreate[b])) BY <1>3, <1>4, <3>1, LenProperties
    <3>3. j + 1 \in DOMAIN toCreate[b] BY <1>1, <1>3, <3>2, LenProperties
    <3> QED BY <1>3, <2>1, <3>1, <3>2, <3>3
  <2>2. CASE c # b BY <1>1, <1>2, <1>4, <2>2
  <2> QED BY <2>1, <2>2
<1>5. toCreate' \in [Bots -> Seq(Section)] BY <1>1, <1>2, <1>3
<1>6. UNCHANGED <<inputs, written, conf, users, low>> /\ status' = status BY DEF SectionDone
<1>7. status' \in [Bots -> {"new", "god", "running", "panicked"}]
  BY <1>6 DEF DeploymentInv, DeploymentTypeOK
<1> QED BY <1>4, <1>5, <1>6, <1>7, OthersKeep

LEMMA NoParentKeeps ==
  ASSUME DeploymentInv, NEW b \in Bots, NoParent(b) PROVE DeploymentInv'
<1>1. status' \in [Bots -> {"new", "god", "running", "panicked"}]
  BY DEF NoParent, DeploymentInv, DeploymentTypeOK
<1>2. \A c \in Bots : status'[c] = "new" <=> status[c] = "new"
  BY DEF NoParent, DeploymentInv, DeploymentTypeOK
<1>3. UNCHANGED <<inputs, written, conf, users, low>> /\ toCreate' = toCreate BY DEF NoParent
<1>4. toCreate' \in [Bots -> Seq(Section)]
  BY <1>3 DEF DeploymentInv, DeploymentTypeOK, Section
<1> QED BY <1>1, <1>2, <1>3, <1>4, OthersKeep

\* The invariant: how the bots are configured, and how their users are made.
THEOREM DeploymentInvariance == DeploymentSpec => []DeploymentInv
<1>1. DeploymentInv /\ [DeploymentNext]_deploymentVars => DeploymentInv'
  <2> SUFFICES ASSUME DeploymentInv, [DeploymentNext]_deploymentVars PROVE DeploymentInv'
    OBVIOUS
  <2>1. CASE UNCHANGED deploymentVars
    <3>1. UNCHANGED <<inputs, written, conf, users, low>> /\ status' = status /\ toCreate' = toCreate
      BY <2>1 DEF deploymentVars, inputs
    <3>2. /\ status' \in [Bots -> {"new", "god", "running", "panicked"}]
          /\ toCreate' \in [Bots -> Seq(Section)]
      BY <3>1 DEF DeploymentInv, DeploymentTypeOK, Section
    <3> QED BY <3>1, <3>2, OthersKeep
  <2>2. ASSUME NEW b \in Bots,
               \/ StartBot(b) \/ CreateGodUser(b) \/ CreateUser(b)
               \/ SectionDone(b) \/ NoParent(b)
        PROVE  DeploymentInv'
    BY <2>2, StartBotKeeps, CreateGodUserKeeps, CreateUserKeeps, SectionDoneKeeps, NoParentKeeps
  <2>3. CASE DeploymentEnded BY <2>1, <2>3 DEF DeploymentEnded
  <2> QED BY <2>1, <2>2, <2>3 DEF DeploymentNext
<1> QED BY <1>1, DeploymentInitially, PTL DEF DeploymentSpec

-----------------------------------------------------------------------------
(* The theorems about Deployment                                           *)

\* Type correctness, and lowPowerProfileCount is the number of low-power nodes.
THEOREM DeploymentTypeCorrect == DeploymentSpec => []DeploymentTypeOK
BY DeploymentInvariance, PTL DEF DeploymentInv

LEMMA GodModeWritten ==
  ASSUME Given, file = NoFile \/ file["GodMode"] = 0, NEW b \in Bots
  PROVE  written[b]["GodMode"] = IF b = 0 THEN 1 ELSE 0
<1> DEFINE c == LoadFromFileWithDefaults(file, 0, 0)
<1>1. "GodMode" \in Settings /\ "GodMode" \in Copied BY DEF Settings, Copied
<1>2. c \in [Settings -> Nat] BY LoadTyped, DeploymentAssumption DEF Given
<1>3. c["GodMode"] = 0
  <2>1. CASE file = NoFile
    BY <1>1, <2>1 DEF LoadFromFileWithDefaults, defaultConfig
  <2>2. CASE file # NoFile
    <3>1. file \in [Settings -> Nat] BY <2>2, DeploymentAssumption DEF Given
    <3> QED BY <1>1, <2>2, <3>1, LoadMerges DEF merge
  <2> QED BY <2>1, <2>2
<1>4. CASE b = 0
  <2>1. written[b] = [c EXCEPT !["GodMode"] = 1, !["WorkDir"] = 0]
    BY <1>4 DEF Given, initInstance
  <2> HIDE DEF c
  <2> QED BY <1>1, <1>2, <1>4, <2>1
<1>5. CASE b # 0
  <2>1. written[b] = [c EXCEPT !["PortOffset"] = offset * b, !["WorkDir"] = 0]
    BY <1>5 DEF Given, initInstance
  <2> HIDE DEF c
  <2> QED BY <1>1, <1>2, <1>3, <1>5, <2>1
<1> QED BY <1>4, <1>5

\* For any files, offset and number of bots: every bot runs with the settings
\* that the initialiser wrote for it, although the defaults are merged again,
\* and unless the base file asks for more, bot 0 and no other is the god bot
\* (config.go:42-69, initializer.go:49-90).
THEOREM BotsAreConfiguredAsMeant == DeploymentSpec => []ConfiguredAsMeant
<1>1. DeploymentInv => ConfiguredAsMeant
  <2> SUFFICES ASSUME DeploymentInv PROVE ConfiguredAsMeant OBVIOUS
  <2>1. Given /\ Loaded /\ DeploymentTypeOK BY DEF DeploymentInv
  <2>2. ASSUME NEW b \in Bots, status[b] # "new", NEW s \in Settings \ {"WorkDir"}
        PROVE  conf[b][s] = written[b][s]
    BY <2>1, <2>2, MergedTwice DEF Loaded
  <2>3. "GodMode" \in Settings \ {"WorkDir"} BY DEF Settings, Copied
  <2>4. ASSUME file = NoFile \/ file["GodMode"] = 0, NEW b \in Bots, status[b] # "new"
        PROVE  conf[b]["GodMode"] = IF b = 0 THEN 1 ELSE 0
    BY <2>1, <2>2, <2>3, <2>4, GodModeWritten
  <2>5. 0 \in Bots BY DeploymentAssumption DEF Bots
  <2>6. OneGod BY <2>4, <2>5 DEF OneGod, Gods
  <2> QED BY <2>2, <2>6 DEF ConfiguredAsMeant, RunsAsWritten
<1> QED BY <1>1, DeploymentInvariance, PTL

\* Whichever sections of whichever epochs create them, a user on the node of
\* another one reaches that node, with its key, and the node was made to be
\* shared (process.go:297-342, init.go:87-103).
THEOREM SharedNodesAreReached == DeploymentSpec => []SharedNodesServe
<1>1. DeploymentInv => SharedNodesServe
  <2> SUFFICES ASSUME DeploymentInv, NEW b \in Bots, NEW n \in DOMAIN users[b],
                      users[b][n].parent > 0,
                      users[b][users[b][n].parent].parent = 0, nodeFile = NoFile
               PROVE  /\ users[b][users[b][n].parent].profile = "shared"
                      /\ users[b][users[b][n].parent].node.LoadAllFlips = 1
                      /\ users[b][users[b][n].parent].node.HTTPPort = users[b][n].rpcPort
                      /\ conf[b]["RandomApiKeys"] = 0 =>
                           users[b][users[b][n].parent].apiKey = users[b][n].apiKey
    BY DEF SharedNodesServe
  <2>1. PICK u : u = users[b][n] OBVIOUS
  <2>2. PICK m : m = u.parent OBVIOUS
  <2>3. PICK p : p = users[b][m] OBVIOUS
  <2>4. users[b] \in Seq(UserRecord) /\ conf[b] \in [Settings -> Nat]
    BY DEF DeploymentInv, DeploymentTypeOK
  <2>a. n \in 1..Len(users[b]) BY <2>4, LenProperties
  <2>b. u \in UserRecord BY <2>1, <2>4, <2>a, ElementOfSeq
  <2>5. m \in Nat BY <2>2, <2>b DEF UserRecord
  <2>6. Made(b, n, u) BY <2>1 DEF DeploymentInv, UsersMade
  <2>7. m > 0 /\ m < n /\ isNodeShared(b, m - 1) BY <2>1, <2>2, <2>6 DEF Made
  <2>8. m \in DOMAIN users[b] BY <2>4, <2>5, <2>7, LenProperties
  <2>9. Made(b, m, p) /\ p.parent = 0 BY <2>1, <2>2, <2>3, <2>8 DEF DeploymentInv, UsersMade
  <2>10. p.profile = "shared" /\ p = NewUser(b, m - 1, 0, p.profile) BY <2>7, <2>9 DEF Made
  <2>11. u = NewUser(b, n - 1, m, u.profile) BY <2>2, <2>6 DEF Made
  <2>12. m - 1 \in Nat BY <2>5, <2>7
  <2>13. \A f \in NodeFields : p.node[f] = Specific(b, m - 1, isNodeShared(b, m - 1))[f]
    <3>1. isNodeShared(b, m - 1) \in BOOLEAN BY DEF isNodeShared
    <3>2. p.node = addConfig(Specific(b, m - 1, isNodeShared(b, m - 1)), nodeFile)
      BY <2>10 DEF NewUser
    <3>3. \A f \in NodeFields : f \notin DOMAIN nodeFile BY DEF NoFile
    <3> QED BY <2>12, <3>1, <3>2, <3>3, NodeTyped
  <2>14. p.node.LoadAllFlips = 1 BY <2>7, <2>13 DEF Specific, NodeFields
  <2>15. p.node.HTTPPort = u.rpcPort
    <3>1. p.node["HTTPPort"] = conf[b]["FirstRpcPort"] + conf[b]["PortOffset"] + (m - 1)
      BY <2>13 DEF Specific, NodeFields
    <3>2. u.rpcPort = conf[b]["FirstRpcPort"] + conf[b]["PortOffset"] + m - 1
      BY <2>7, <2>11 DEF NewUser
    <3>3. conf[b]["FirstRpcPort"] \in Nat /\ conf[b]["PortOffset"] \in Nat
      BY <2>4 DEF Settings, Overriding
    <3> QED BY <2>5, <3>1, <3>2, <3>3
  <2>16. ASSUME conf[b]["RandomApiKeys"] = 0 PROVE p.apiKey = u.apiKey
    <3>1. p.apiKey = generateApiKey(b, m - 1, m - 1) BY <2>10 DEF NewUser
    <3>2. u.apiKey = generateApiKey(b, m - 1, n - 1) BY <2>7, <2>11 DEF NewUser
    <3>3. generateApiKey(b, m - 1, m - 1) = generateApiKey(b, m - 1, n - 1)
      BY <2>16 DEF generateApiKey
    <3> QED BY <3>1, <3>2, <3>3
  <2> QED BY <2>1, <2>2, <2>3, <2>10, <2>14, <2>15, <2>16
<1> QED BY <1>1, DeploymentInvariance, PTL

-----------------------------------------------------------------------------
(* Ports                                                                   *)

\* Where a node is in the range of its host: its ports are this far from the
\* first ones.
Place(b, n) == conf[b]["PortOffset"] + (n - 1)

\* First ports are those of the file for every bot; of the offsets, all but
\* bot 0's are the initialiser's.
LEMMA PortsWritten ==
  ASSUME Given, NEW b \in Bots
  PROVE  /\ \A f \in FirstPorts : written[b][f] = written[0][f]
         /\ b # 0 => written[b]["PortOffset"] = offset * b
<1> DEFINE c == LoadFromFileWithDefaults(file, 0, 0)
<1>1. c \in [Settings -> Nat] BY LoadTyped, DeploymentAssumption DEF Given
<1>2. 0 \in Bots BY DeploymentAssumption DEF Bots
<1>3. written[0] = [c EXCEPT !["GodMode"] = 1, !["WorkDir"] = 0]
  BY <1>2 DEF Given, initInstance
<1>4. b # 0 => written[b] = [c EXCEPT !["PortOffset"] = offset * b, !["WorkDir"] = 0]
  BY DEF Given, initInstance
<1>5. FirstPorts \subseteq Settings /\ "PortOffset" \in Settings
  BY DEF FirstPorts, Settings, Overriding
<1>6. \A f \in FirstPorts : f # "GodMode" /\ f # "WorkDir" /\ f # "PortOffset" BY DEF FirstPorts
<1> HIDE DEF c
<1> QED BY <1>1, <1>3, <1>4, <1>5, <1>6

LEMMA HostNode ==
  ASSUME DeploymentInv, Apart, NEW b \in Bots, NEW n \in OwnNodes(b)
  PROVE  /\ n \in Nat /\ n > 0 /\ n <= Len(users[b]) /\ status[b] # "new"
         /\ users[b][n].node.HTTPPort = written[0]["FirstRpcPort"] + Place(b, n)
         /\ users[b][n].node.IpfsPort = written[0]["FirstIpfsPort"] + Place(b, n)
         /\ users[b][n].port = written[0]["FirstPort"] + Place(b, n)
<1>1. PICK u : u = users[b][n] OBVIOUS
<1>2. users[b] \in Seq(UserRecord) /\ conf[b] \in [Settings -> Nat]
  BY DEF DeploymentInv, DeploymentTypeOK
<1>3. n \in DOMAIN users[b] /\ u.parent = 0 BY <1>1 DEF OwnNodes
<1>4. n \in Nat /\ n > 0 /\ n <= Len(users[b]) BY <1>2, <1>3, LenProperties
<1>5. status[b] # "new" BY <1>3 DEF DeploymentInv, UsersMade
<1>6. u = NewUser(b, n - 1, 0, u.profile) BY <1>1, <1>3 DEF DeploymentInv, UsersMade, Made
<1>7. ASSUME NEW f \in FirstPorts PROVE conf[b][f] = written[0][f] /\ conf[b][f] \in Nat
  <2>1. f \in Settings \ {"WorkDir"} BY DEF FirstPorts, Settings, Overriding
  <2>2. conf[b][f] = written[b][f] BY <1>5, <2>1, MergedTwice DEF DeploymentInv, Loaded
  <2> QED BY <1>2, <2>1, <2>2, PortsWritten DEF DeploymentInv
<1>8. conf[b]["PortOffset"] \in Nat BY <1>2 DEF Settings, Overriding
<1>9. /\ u.node["HTTPPort"] = conf[b]["FirstRpcPort"] + conf[b]["PortOffset"] + (n - 1)
      /\ u.node["IpfsPort"] = conf[b]["FirstIpfsPort"] + conf[b]["PortOffset"] + (n - 1)
  <2>1. isNodeShared(b, n - 1) \in BOOLEAN /\ n - 1 \in Nat BY <1>4 DEF isNodeShared
  <2>2. u.node = addConfig(Specific(b, n - 1, isNodeShared(b, n - 1)), nodeFile)
    BY <1>6 DEF NewUser
  <2>3. "HTTPPort" \notin DOMAIN nodeFile /\ "IpfsPort" \notin DOMAIN nodeFile BY DEF Apart
  <2>4. "HTTPPort" \in NodeFields /\ "IpfsPort" \in NodeFields BY DEF NodeFields
  <2>5. /\ u.node["HTTPPort"] = Specific(b, n - 1, isNodeShared(b, n - 1))["HTTPPort"]
        /\ u.node["IpfsPort"] = Specific(b, n - 1, isNodeShared(b, n - 1))["IpfsPort"]
    BY <2>1, <2>2, <2>3, <2>4, NodeTyped
  <2> QED BY <2>5 DEF Specific
<1>10. u.port = conf[b]["FirstPort"] + conf[b]["PortOffset"] + (n - 1) BY <1>6 DEF NewUser
<1>11. \A x, y, z \in Nat : x + y + (z - 1) = x + (y + (z - 1)) OBVIOUS
<1>12. "FirstRpcPort" \in FirstPorts /\ "FirstIpfsPort" \in FirstPorts /\ "FirstPort" \in FirstPorts
  BY DEF FirstPorts
<1>13. /\ u.node["HTTPPort"] = written[0]["FirstRpcPort"] + Place(b, n)
       /\ u.node["IpfsPort"] = written[0]["FirstIpfsPort"] + Place(b, n)
       /\ u.port = written[0]["FirstPort"] + Place(b, n)
  <2> DEFINE o == conf[b]["PortOffset"]
  <2>1. \A f \in FirstPorts : conf[b][f] + o + (n - 1) = written[0][f] + (o + (n - 1))
    BY <1>4, <1>7, <1>8, <1>11
  <2>2. Place(b, n) = o + (n - 1) BY DEF Place
  <2>3. /\ u.node["HTTPPort"] = conf[b]["FirstRpcPort"] + o + (n - 1)
        /\ u.node["IpfsPort"] = conf[b]["FirstIpfsPort"] + o + (n - 1)
        /\ u.port = conf[b]["FirstPort"] + o + (n - 1)
    BY <1>9, <1>10
  <2> HIDE DEF o
  <2> QED BY <1>12, <2>1, <2>2, <2>3, Zenon
<1> QED BY <1>1, <1>4, <1>5, <1>13

\* The places of a bot are its own part of the range of the host.
LEMMA PlaceOfBot ==
  ASSUME DeploymentInv, Apart, NEW b \in Bots, NEW n \in OwnNodes(b)
  PROVE  /\ Place(b, n) \in Nat /\ b \in Nat /\ offset \in Nat
         /\ offset * b <= Place(b, n) /\ Place(b, n) < offset * b + offset
<1>1. n \in Nat /\ n > 0 /\ n <= Len(users[b]) /\ status[b] # "new" BY HostNode
<1>2. b \in Nat /\ offset \in Nat BY DeploymentAssumption DEF DeploymentInv, Given, Bots
<1>3. PICK o : o = conf[b]["PortOffset"] OBVIOUS
<1>4. o \in Nat BY <1>3 DEF DeploymentInv, DeploymentTypeOK, Settings, Overriding
<1>5. Len(users[b]) \in Nat BY LenProperties DEF DeploymentInv, DeploymentTypeOK
<1>6. CASE b = 0
  <2>1. o + Len(users[b]) <= offset BY <1>3, <1>6 DEF Apart
  <2>2. offset * b = 0 BY <1>2, <1>6
  <2>3. o + (n - 1) >= 0 /\ o + (n - 1) < offset BY <1>1, <1>2, <1>4, <1>5, <2>1
  <2> QED BY <1>1, <1>2, <1>3, <1>4, <2>2, <2>3 DEF Place
<1>7. CASE b # 0
  <2>1. "PortOffset" \in Settings \ {"WorkDir"} BY DEF Settings, Overriding
  <2>2. o = offset * b
    BY <1>1, <1>3, <1>7, <2>1, MergedTwice, PortsWritten DEF DeploymentInv, Loaded
  <2>3. Len(users[b]) <= offset BY DEF Apart
  <2>4. o + (n - 1) >= o /\ o + (n - 1) < o + offset BY <1>1, <1>2, <1>4, <1>5, <2>3
  <2> QED BY <1>1, <1>2, <1>3, <1>4, <2>2, <2>4 DEF Place
<1> QED BY <1>6, <1>7

LEMMA ProductGrows ==
  ASSUME NEW x \in Nat, NEW y \in Nat, NEW z \in Nat, x < y
  PROVE  z * x + z <= z * y
<1>1. PICK d \in Nat : y = x + 1 + d
  <2>1. y - x - 1 \in Nat /\ y = x + 1 + (y - x - 1) OBVIOUS
  <2> QED BY <2>1
<1>2. z * y = z * x + z + z * d BY <1>1
<1>3. z * d \in Nat /\ z * x \in Nat OBVIOUS
<1> QED BY <1>2, <1>3

LEMMA PlacesApart ==
  ASSUME DeploymentInv, Apart, NEW b \in Bots, NEW n \in OwnNodes(b),
         NEW c \in Bots, NEW m \in OwnNodes(c), Place(b, n) = Place(c, m)
  PROVE  b = c /\ n = m
<1>1. \A x, y, z \in Nat : x < y => z * x + z <= z * y BY ProductGrows
<1>2. /\ Place(b, n) \in Nat /\ b \in Nat /\ c \in Nat /\ offset \in Nat
      /\ offset * b <= Place(b, n) /\ Place(b, n) < offset * b + offset
      /\ offset * c <= Place(b, n) /\ Place(b, n) < offset * c + offset
  BY PlaceOfBot
<1>3. offset * b \in Nat /\ offset * c \in Nat BY <1>2
<1>4. ~(b < c)
  <2> SUFFICES ASSUME b < c PROVE FALSE OBVIOUS
  <2>1. offset * b + offset <= offset * c BY <1>1, <1>2
  <2> QED BY <1>2, <1>3, <2>1
<1>5. ~(c < b)
  <2> SUFFICES ASSUME c < b PROVE FALSE OBVIOUS
  <2>1. offset * c + offset <= offset * b BY <1>1, <1>2
  <2> QED BY <1>2, <1>3, <2>1
<1>6. b = c BY <1>2, <1>4, <1>5
<1>7. n \in Nat /\ m \in Nat BY HostNode
<1>8. conf[b]["PortOffset"] \in Nat BY DEF DeploymentInv, DeploymentTypeOK, Settings, Overriding
<1> QED BY <1>6, <1>7, <1>8 DEF Place

LEMMA PlaceInRange ==
  ASSUME DeploymentInv, Apart, NEW b \in Bots, NEW n \in OwnNodes(b)
  PROVE  Place(b, n) \in Nat /\ Place(b, n) < Instances * offset
<1>1. /\ Place(b, n) \in Nat /\ b \in Nat /\ offset \in Nat
      /\ Place(b, n) < offset * b + offset
  BY PlaceOfBot
<1>2. Instances \in Nat /\ b < Instances BY <1>1, DeploymentAssumption DEF Bots
<1>3. PICK d \in Nat : Instances = b + 1 + d
  <2>1. Instances - b - 1 \in Nat /\ Instances = b + 1 + (Instances - b - 1) BY <1>1, <1>2
  <2> QED BY <2>1
<1>4. Instances * offset = offset * b + offset + offset * d BY <1>1, <1>3
<1>5. offset * d \in Nat /\ offset * b \in Nat BY <1>1
<1> QED BY <1>1, <1>2, <1>4, <1>5

\* No two nodes of a host listen at one port, for any number of bots and users
\* whose ranges are apart (process.go:299-316, init.go:110-117).
THEOREM PortsAreApart == DeploymentSpec => []PortsApart
<1>1. DeploymentInv => PortsApart
  <2> SUFFICES ASSUME DeploymentInv, Apart, NEW m \in HostNodes, NEW n \in HostNodes, m # n
               PROVE  {User(m).node.HTTPPort, User(m).node.IpfsPort, User(m).port} \cap
                      {User(n).node.HTTPPort, User(n).node.IpfsPort, User(n).port} = {}
    BY DEF PortsApart
  <2>1. PICK b \in Bots : \E h \in OwnNodes(b) : m = <<b, h>> BY DEF HostNodes
  <2>2. PICK h \in OwnNodes(b) : m = <<b, h>> BY <2>1
  <2>a. PICK c \in Bots : \E j \in OwnNodes(c) : n = <<c, j>> BY DEF HostNodes
  <2>b. PICK j \in OwnNodes(c) : n = <<c, j>> BY <2>a
  <2>3. User(m) = users[b][h] /\ User(n) = users[c][j] BY <2>2, <2>b DEF User
  <2>4. PICK p, q : p = Place(b, h) /\ q = Place(c, j) OBVIOUS
  <2>5. p \in Nat /\ q \in Nat /\ p < Instances * offset /\ q < Instances * offset
    BY <2>4, PlaceInRange
  <2>6. p # q BY <2>2, <2>b, <2>4, PlacesApart
  <2>7. PICK x, y, z : /\ x = written[0]["FirstRpcPort"] /\ y = written[0]["FirstIpfsPort"]
                       /\ z = written[0]["FirstPort"]
    OBVIOUS
  <2>8. x \in Nat /\ y \in Nat /\ z \in Nat
    <3>1. 0 \in Bots BY DeploymentAssumption DEF Bots
    <3>2. written[0] \in [Settings -> Nat] BY <3>1 DEF DeploymentInv, DeploymentTypeOK
    <3> QED BY <2>7, <3>2 DEF Settings, Overriding
  <2>9. /\ User(m).node.HTTPPort = x + p /\ User(m).node.IpfsPort = y + p /\ User(m).port = z + p
        /\ User(n).node.HTTPPort = x + q /\ User(n).node.IpfsPort = y + q /\ User(n).port = z + q
    BY <2>3, <2>4, <2>7, HostNode
  <2>10. PICK r : r = Instances * offset OBVIOUS
  <2>11. r \in Nat BY <2>10, DeploymentAssumption DEF DeploymentInv, Given
  <2>12. /\ (x + r <= y \/ y + r <= x) /\ (x + r <= z \/ z + r <= x)
         /\ (y + r <= z \/ z + r <= y)
    BY <2>7, <2>10 DEF Apart, FirstPorts
  <2>13. /\ x + p # x + q /\ x + p # y + q /\ x + p # z + q
         /\ y + p # x + q /\ y + p # y + q /\ y + p # z + q
         /\ z + p # x + q /\ z + p # y + q /\ z + p # z + q
    BY <2>5, <2>6, <2>8, <2>10, <2>11, <2>12
  <2> QED BY <2>9, <2>13
<1> QED BY <1>1, DeploymentInvariance, PTL

-----------------------------------------------------------------------------
(* ScenarioLists: the inductive invariant                                  *)

\* The sections among the first n that list x for this bot.
Listing(x, n) == {m \in 1..n : x \in EpochNodes(list[m]) /\ ~Skipped(list[m])}

ListsTyped ==
  /\ kind \in Kinds /\ godMode \in BOOLEAN /\ list \in Seq(ListSections)
  /\ lpc \in {"validate", "convert", "done", "panicked"}
  /\ k \in 1..Len(list) + 1
  /\ lpc = "done" => k = Len(list) + 1

\* In the map is whoever a converted section lists.
DomainListed ==
  /\ \A x \in DOMAIN map : Listing(x, k - 1) # {}
  /\ \A n \in 1..k - 1 : ~Skipped(list[n]) => EpochNodes(list[n]) \subseteq DOMAIN map

\* Of a list that is overwritten the last section counts, ...
LastOf(x, n) == n \in Listing(x, k - 1) /\ \A m \in Listing(x, k - 1) : m <= n
ValuesLast ==
  kind \notin Counted =>
    \A x \in DOMAIN map :
      \E n \in 1..k - 1 : LastOf(x, n) /\ map[x] = Value(list[n], x[1], x[2])

\* ... of the others, all together.
Sums ==
  kind \in Counted =>
    \A x \in DOMAIN map :
      /\ map[x] \in Nat
      /\ \A n \in 1..k - 1 : map[x] >= Times(list[n], x)
      /\ Cardinality(Listing(x, k - 1)) <= map[x]
      /\ map[x] > 1 => \/ \E n \in 1..k - 1 : Times(list[n], x) > 1
                       \/ \E n, m \in Listing(x, k - 1) : n # m

PeriodsKnown == DOMAIN period = IF kind = "txs" THEN {x[1] : x \in DOMAIN map} ELSE {}

ParsedSoFar == kind \in PanickingLists => \A n \in 1..k - 1 : SectionParses(list[n])

ListsInv == /\ ListsTyped /\ DomainListed /\ ValuesLast /\ Sums /\ PeriodsKnown
            /\ ParsedSoFar

-----------------------------------------------------------------------------
(* Texts and sections                                                      *)

LEMMA ListSectionTyped ==
  ASSUME NEW s \in ListSections
  PROVE  /\ NumsOf(s.epochs) \in Seq(Nat) /\ NumsOf(s.nodes) \in Seq(Nat)
         /\ s.arg \in Nat /\ s.step \in Nat
<1>1. <<>> \in Seq(Nat) BY EmptySeq
<1> QED BY <1>1, ListsAssumption DEF NumsOf

\* A number that is in a text is there.
LEMMA OccursOnce ==
  ASSUME NEW t \in Seq(Nat), NEW e \in Elements(t)
  PROVE  Occurrences(t, e) \in Nat /\ Occurrences(t, e) >= 1
<1> DEFINE S == {n \in DOMAIN t : t[n] = e}
<1>1. DOMAIN t = 1..Len(t) /\ Len(t) \in Nat BY LenProperties
<1>2. IsFiniteSet(S)
  <2>1. IsFiniteSet(1..Len(t)) BY <1>1, FS_Interval
  <2> QED BY <1>1, <2>1, FS_Subset
<1>3. PICK n \in DOMAIN t : t[n] = e BY DEF Elements
<1>4. S # {} BY <1>3
<1>5. Cardinality(S) \in Nat /\ Cardinality(S) # 0 BY <1>2, <1>4, FS_CardinalityType, FS_EmptySet
<1> QED BY <1>5 DEF Occurrences

\* What a section lists is listed by its texts, at least once.
LEMMA ListedByTexts ==
  ASSUME NEW s \in ListSections, NEW x \in EpochNodes(s)
  PROVE  /\ s.epochs \in Seq(Nat) /\ s.nodes \in Seq(Nat)
         /\ x[1] \in Elements(s.epochs) /\ x[1] \in Nat
         /\ kind \in Grouped => x[2][2] \in Elements(s.nodes)
         /\ kind \notin Grouped => x[2] \in Elements(s.nodes)
<1>1. x[1] \in Elements(NumsOf(s.epochs)) /\ x[2] \in Who(s) BY DEF EpochNodes
<1>2. kind \in Grouped => x[2][2] \in Elements(NumsOf(s.nodes)) BY <1>1 DEF Who
<1>3. kind \notin Grouped => x[2] \in Elements(NumsOf(s.nodes)) BY <1>1 DEF Who
<1>4. Elements(<<>>) = {} BY DEF Elements
<1>5. s.epochs # MalformedText BY <1>1, <1>4 DEF NumsOf
<1>6. s.nodes # MalformedText BY <1>2, <1>3, <1>4 DEF NumsOf
<1>7. NumsOf(s.epochs) = s.epochs /\ NumsOf(s.nodes) = s.nodes BY <1>5, <1>6 DEF NumsOf
<1>8. s.epochs \in Seq(Nat) /\ s.nodes \in Seq(Nat) BY <1>7, ListSectionTyped
<1>9. x[1] \in Nat
  <2>1. PICK n \in DOMAIN s.epochs : s.epochs[n] = x[1] BY <1>1, <1>7 DEF Elements
  <2> QED BY <1>8, <2>1, LenProperties, ElementOfSeq
<1> QED BY <1>1, <1>2, <1>3, <1>7, <1>8, <1>9

LEMMA TimesTyped ==
  ASSUME NEW s \in ListSections, NEW x
  PROVE  /\ Times(s, x) \in Nat
         /\ x \in EpochNodes(s) => Times(s, x) >= 1
         /\ x \notin EpochNodes(s) => Times(s, x) = 0
<1>1. CASE x \notin EpochNodes(s) BY <1>1 DEF Times
<1>2. CASE x \in EpochNodes(s)
  <2>1. PICK y : y = IF kind \in Grouped THEN x[2][2] ELSE x[2] OBVIOUS
  <2>2. /\ s.epochs \in Seq(Nat) /\ s.nodes \in Seq(Nat)
        /\ x[1] \in Elements(s.epochs) /\ y \in Elements(s.nodes)
    BY <1>2, <2>1, ListedByTexts
  <2>3. PICK o, p \in Nat : /\ o = Occurrences(s.epochs, x[1]) /\ p = Occurrences(s.nodes, y)
                            /\ o >= 1 /\ p >= 1
    BY <2>2, OccursOnce
  <2>4. o * p \in Nat /\ o * p >= 1 BY <2>3
  <2>5. Times(s, x) = o * p BY <1>2, <2>1, <2>3 DEF Times
  <2> QED BY <1>2, <2>4, <2>5
<1> QED BY <1>1, <1>2

\* Positions of a text are bounded, so a number has a last one.
LEMMA Greatest ==
  ASSUME NEW n \in Nat, NEW S \in SUBSET (1..n), S # {}
  PROVE  \E m \in S : \A o \in S : o <= m
<1> DEFINE D == {n - o : o \in S}
<1>0. \A o \in S : n - o \in Nat OBVIOUS
<1>1. D \in SUBSET Nat /\ D # {} BY <1>0
<1>2. IsWellFoundedOn(OpToRel(<, Nat), Nat) BY NatLessThanWellFounded
<1>3. PICK d \in D : \A e \in D : ~(<<e, d>> \in OpToRel(<, Nat)) BY <1>1, <1>2, WFMin
<1>4. \A e \in D : ~(e < d) BY <1>1, <1>3 DEF OpToRel
<1>5. PICK m \in S : d = n - m BY <1>3
<1>6. ASSUME NEW o \in S PROVE o <= m
  <2>1. ~(n - o < n - m) BY <1>4, <1>5
  <2> QED BY <2>1
<1> QED BY <1>6

LEMMA LastPosThere ==
  ASSUME NEW t \in Seq(Nat), NEW e \in Elements(t)
  PROVE  LastPos(t, e) \in Nat /\ LastPos(t, e) \in DOMAIN t /\ t[LastPos(t, e)] = e
<1> DEFINE S == {n \in DOMAIN t : t[n] = e}
<1>1. DOMAIN t = 1..Len(t) /\ Len(t) \in Nat BY LenProperties
<1>2. S \in SUBSET (1..Len(t)) /\ S # {} BY <1>1 DEF Elements
<1>3. PICK m \in S : \A o \in S : o <= m BY <1>1, <1>2, Greatest
<1>4. \A o \in DOMAIN t : o > m => t[o] # e BY <1>1, <1>3
<1>5. \E n \in DOMAIN t : t[n] = e /\ \A o \in DOMAIN t : o > n => t[o] # e BY <1>3, <1>4
<1>6. LastPos(t, e) \in DOMAIN t /\ t[LastPos(t, e)] = e BY <1>5 DEF LastPos
<1> QED BY <1>1, <1>6

LEMMA ValueTyped ==
  ASSUME NEW s \in ListSections, NEW x \in EpochNodes(s), kind \notin Grouped
  PROVE  Value(s, x[1], x[2]) \in Nat
<1>1. s.arg \in Nat /\ s.step \in Nat BY ListSectionTyped
<1>2. LastPos(s.nodes, x[2]) \in Nat BY ListedByTexts, LastPosThere
<1>3. s.step * LastPos(s.nodes, x[2]) \in Nat BY <1>1, <1>2
<1> QED BY <1>1, <1>3 DEF Value, Delay

-----------------------------------------------------------------------------
(* ScenarioLists: the steps                                                *)

LEMMA ListsInitially == ListsInit => ListsInv
<1> SUFFICES ASSUME ListsInit PROVE ListsInv OBVIOUS
<1>1. list \in Seq(ListSections)
  <2>1. PICK n \in 0..MaxSections : list \in [1..n -> ListSections] BY DEF ListsInit
  <2>2. n \in Nat BY ListsAssumption
  <2> QED BY <2>1, <2>2, SeqDef
<1>2. Len(list) \in Nat BY <1>1, LenProperties
<1>3. k = 1 /\ 1..k - 1 = {} /\ k \in 1..Len(list) + 1 BY <1>2 DEF ListsInit
<1>4. DOMAIN map = {} /\ DOMAIN period = {} BY DEF ListsInit
<1>5. ListsTyped BY <1>1, <1>3 DEF ListsInit, ListsTyped
<1>6. DomainListed /\ ValuesLast /\ Sums /\ ParsedSoFar
  BY <1>3, <1>4 DEF DomainListed, ValuesLast, Sums, ParsedSoFar
<1>7. PeriodsKnown BY <1>4 DEF PeriodsKnown
<1> QED BY <1>5, <1>6, <1>7 DEF ListsInv

\* What a section says depends on the list and the bot only, which stay.
LEMMA SectionsStay ==
  ASSUME UNCHANGED <<kind, list, godMode>>
  PROVE  /\ \A s : EpochNodes(s)' = EpochNodes(s)
         /\ \A s : Skipped(s)' <=> Skipped(s)
         /\ \A s, x : Times(s, x)' = Times(s, x)
         /\ \A s, e, n : Value(s, e, n)' = Value(s, e, n)
         /\ \A x, n : Listing(x, n)' = Listing(x, n)
<1>1. \A s : EpochNodes(s)' = EpochNodes(s) BY DEF EpochNodes, Who
<1>2. \A s : Skipped(s)' <=> Skipped(s) BY DEF Skipped
<1>3. \A s, x : Times(s, x)' = Times(s, x) BY <1>1 DEF Times
<1>4. \A s, e, n : Value(s, e, n)' = Value(s, e, n) BY DEF Value, Delay
<1>5. \A x, n : Listing(x, n)' = Listing(x, n) BY <1>1, <1>2 DEF Listing
<1> QED BY <1>1, <1>2, <1>3, <1>4, <1>5

\* A step that converts nothing.
LEMMA NothingConverted ==
  ASSUME ListsInv, UNCHANGED <<kind, list, godMode, k, map, period>>,
         lpc' \in {"validate", "convert", "done", "panicked"},
         lpc' = "done" => k = Len(list) + 1
  PROVE  ListsInv'
<1>1. ListsTyped' BY DEF ListsInv, ListsTyped
<1>2. DomainListed' BY SectionsStay DEF ListsInv, DomainListed
<1>3. ValuesLast' BY SectionsStay DEF ListsInv, ValuesLast, LastOf
<1>4. Sums' BY SectionsStay DEF ListsInv, Sums
<1>5. PeriodsKnown' BY DEF ListsInv, PeriodsKnown
<1>6. ParsedSoFar' BY DEF ListsInv, ParsedSoFar
<1> QED BY <1>1, <1>2, <1>3, <1>4, <1>5, <1>6 DEF ListsInv

\* One section more.
LEMMA ListingGrows ==
  ASSUME ListsInv, k <= Len(list), NEW x
  PROVE  /\ x \in EpochNodes(list[k]) /\ ~Skipped(list[k]) =>
              Listing(x, k) = Listing(x, k - 1) \cup {k}
         /\ ~(x \in EpochNodes(list[k]) /\ ~Skipped(list[k])) =>
              Listing(x, k) = Listing(x, k - 1)
         /\ k \notin Listing(x, k - 1) /\ IsFiniteSet(Listing(x, k - 1))
<1>1. k \in Nat /\ k >= 1 BY LenProperties DEF ListsInv, ListsTyped
<1>2. 1..k = (1..k - 1) \cup {k} /\ k \notin 1..k - 1 BY <1>1
<1>3. IsFiniteSet(1..k - 1) BY <1>1, FS_Interval
<1>4. IsFiniteSet(Listing(x, k - 1)) BY <1>3, FS_Subset DEF Listing
<1> QED BY <1>2, <1>4 DEF Listing

LEMMA SkippedKeeps ==
  ASSUME ListsInv, UNCHANGED <<kind, list, godMode, lpc, map, period>>,
         lpc = "convert", k <= Len(list), k' = k + 1,
         kind \in PanickingLists => SectionParses(list[k]), Skipped(list[k])
  PROVE  ListsInv'
<1>1. k \in Nat /\ k >= 1 /\ Len(list) \in Nat BY LenProperties DEF ListsInv, ListsTyped
<1>2. k' - 1 = k /\ 1..k = (1..k - 1) \cup {k} BY <1>1
<1>3. \A x : Listing(x, k) = Listing(x, k - 1) BY ListingGrows
<1>4. ListsTyped' BY <1>1 DEF ListsInv, ListsTyped
<1>5. DomainListed'
  <2>1. \A x \in DOMAIN map : Listing(x, k) # {} BY <1>3 DEF ListsInv, DomainListed
  <2>2. \A n \in 1..k : ~Skipped(list[n]) => EpochNodes(list[n]) \subseteq DOMAIN map
    BY <1>2 DEF ListsInv, DomainListed
  <2> QED BY <1>2, <2>1, <2>2, SectionsStay DEF DomainListed
<1>6. ValuesLast'
  <2>1. ASSUME kind \notin Counted, NEW x \in DOMAIN map
        PROVE  \E n \in 1..k : /\ n \in Listing(x, k) /\ \A m \in Listing(x, k) : m <= n
                               /\ map[x] = Value(list[n], x[1], x[2])
    BY <1>2, <1>3, <2>1 DEF ListsInv, ValuesLast, LastOf
  <2> QED BY <1>2, <2>1, SectionsStay DEF ValuesLast, LastOf
<1>7. Sums' BY DEF Sums, Skipped, Counted, Plain, Grouped
<1>8. PeriodsKnown' BY DEF ListsInv, PeriodsKnown
<1>9. ParsedSoFar' BY <1>2 DEF ListsInv, ParsedSoFar
<1> QED BY <1>4, <1>5, <1>6, <1>7, <1>8, <1>9 DEF ListsInv

LEMMA ConvertValuedKeeps ==
  ASSUME ListsInv, UNCHANGED <<kind, list, godMode, lpc, period>>,
         lpc = "convert", k <= Len(list), k' = k + 1,
         kind \in PanickingLists => SectionParses(list[k]),
         ~Skipped(list[k]), kind \notin Counted, ConvertValued(list[k])
  PROVE  ListsInv'
<1>1. k \in Nat /\ k >= 1 /\ Len(list) \in Nat BY LenProperties DEF ListsInv, ListsTyped
<1>2. k' - 1 = k /\ 1..k = (1..k - 1) \cup {k} BY <1>1
<1>3. PICK E : E = EpochNodes(list[k]) OBVIOUS
<1>4. /\ DOMAIN map' = E \cup DOMAIN map
      /\ \A x \in E : map'[x] = Value(list[k], x[1], x[2])
      /\ \A x \in DOMAIN map : x \notin E => map'[x] = map[x]
  BY <1>3 DEF ConvertValued, Over
<1>5. /\ \A x \in E : Listing(x, k) = Listing(x, k - 1) \cup {k}
      /\ \A x : x \notin E => Listing(x, k) = Listing(x, k - 1)
  BY <1>3, ListingGrows
<1>6. ListsTyped' BY <1>1 DEF ListsInv, ListsTyped
<1>7. DomainListed'
  <2>1. \A x \in E \cup DOMAIN map : Listing(x, k) # {} BY <1>5 DEF ListsInv, DomainListed
  <2>2. \A n \in 1..k : ~Skipped(list[n]) => EpochNodes(list[n]) \subseteq E \cup DOMAIN map
    BY <1>2, <1>3 DEF ListsInv, DomainListed
  <2> QED BY <1>2, <1>4, <2>1, <2>2, SectionsStay DEF DomainListed
<1>8. ValuesLast'
  <2>1. ASSUME NEW x \in E \cup DOMAIN map
        PROVE  \E n \in 1..k : /\ n \in Listing(x, k) /\ \A m \in Listing(x, k) : m <= n
                               /\ map'[x] = Value(list[n], x[1], x[2])
    <3>1. CASE x \in E
      <4>1. \A m \in Listing(x, k) : m <= k BY <1>1 DEF Listing
      <4> QED BY <1>2, <1>4, <1>5, <3>1, <4>1
    <3>2. CASE x \notin E
      BY <1>2, <1>4, <1>5, <3>2 DEF ListsInv, ValuesLast, LastOf
    <3> QED BY <3>1, <3>2
  <2> QED BY <1>2, <1>4, <2>1, SectionsStay DEF ValuesLast, LastOf
<1>9. Sums' BY DEF Sums
<1>10. PeriodsKnown'
  <2>1. kind # "txs" BY DEF Counted
  <2> QED BY <2>1 DEF ListsInv, PeriodsKnown
<1>11. ParsedSoFar' BY <1>2 DEF ListsInv, ParsedSoFar
<1> QED BY <1>6, <1>7, <1>8, <1>9, <1>10, <1>11 DEF ListsInv

LEMMA ConvertCountedKeeps ==
  ASSUME ListsInv, UNCHANGED <<kind, list, godMode, lpc>>,
         lpc = "convert", k <= Len(list), k' = k + 1,
         kind \in PanickingLists => SectionParses(list[k]),
         ~Skipped(list[k]), kind \in Counted,
         ConvertCounted(list[k]), ConvertPeriod(list[k])
  PROVE  ListsInv'
<1>1. k \in Nat /\ k >= 1 /\ Len(list) \in Nat BY LenProperties DEF ListsInv, ListsTyped
<1>2. k' - 1 = k /\ 1..k = (1..k - 1) \cup {k} BY <1>1
<1>3. PICK s : s = list[k] OBVIOUS
<1>4. PICK E : E = EpochNodes(s) OBVIOUS
<1>5. s \in ListSections BY <1>1, <1>3, ElementOfSeq DEF ListsInv, ListsTyped
<1>6. /\ DOMAIN map' = E \cup DOMAIN map
      /\ \A x \in DOMAIN map : map'[x] = Times(s, x) + map[x]
      /\ \A x \in E : x \notin DOMAIN map => map'[x] = Times(s, x) + 0
  BY <1>3, <1>4 DEF ConvertCounted
<1>7. /\ \A x \in E : Listing(x, k) = Listing(x, k - 1) \cup {k}
      /\ \A x : x \notin E => Listing(x, k) = Listing(x, k - 1)
      /\ \A x : k \notin Listing(x, k - 1) /\ IsFiniteSet(Listing(x, k - 1))
  BY <1>3, <1>4, ListingGrows
<1>8. ListsTyped' BY <1>1 DEF ListsInv, ListsTyped
<1>9. DomainListed'
  <2>1. \A x \in E \cup DOMAIN map : Listing(x, k) # {} BY <1>7 DEF ListsInv, DomainListed
  <2>2. \A n \in 1..k : ~Skipped(list[n]) => EpochNodes(list[n]) \subseteq E \cup DOMAIN map
    BY <1>2, <1>3, <1>4 DEF ListsInv, DomainListed
  <2> QED BY <1>2, <1>6, <2>1, <2>2, SectionsStay DEF DomainListed
<1>10. ValuesLast' BY DEF ValuesLast
<1>11. Sums'
  <2>1. ASSUME NEW x \in E \cup DOMAIN map
        PROVE  /\ map'[x] \in Nat
               /\ \A n \in 1..k : map'[x] >= Times(list[n], x)
               /\ Cardinality(Listing(x, k)) <= map'[x]
               /\ map'[x] > 1 => \/ \E n \in 1..k : Times(list[n], x) > 1
                                 \/ \E n, m \in Listing(x, k) : n # m
    <3>1. PICK t \in Nat : t = Times(s, x) /\ (x \in E => t >= 1) /\ (x \notin E => t = 0)
      BY <1>4, <1>5, TimesTyped
    <3>2. \A n \in 1..k : Times(list[n], x) \in Nat
      <4>1. \A n \in 1..k : list[n] \in ListSections
        BY <1>1, ElementOfSeq DEF ListsInv, ListsTyped
      <4> QED BY <4>1, TimesTyped
    <3>3. CASE x \in DOMAIN map
      <4>1. /\ map[x] \in Nat /\ \A n \in 1..k - 1 : map[x] >= Times(list[n], x)
            /\ Cardinality(Listing(x, k - 1)) <= map[x]
            /\ map[x] > 1 => \/ \E n \in 1..k - 1 : Times(list[n], x) > 1
                             \/ \E n, m \in Listing(x, k - 1) : n # m
            /\ Listing(x, k - 1) # {}
        BY <3>3 DEF ListsInv, Sums, DomainListed
      <4>2. map'[x] = t + map[x] BY <1>6, <3>1, <3>3
      <4>3. map'[x] \in Nat BY <4>1, <4>2
      <4>4. \A n \in 1..k : map'[x] >= Times(list[n], x)
        <5>1. \A h, j, l \in Nat : j >= l => h + j >= l OBVIOUS
        <5>2. \A n \in 1..k - 1 : map'[x] >= Times(list[n], x)
          BY <1>2, <3>2, <4>1, <4>2, <5>1
        <5>3. map'[x] >= Times(list[k], x) BY <1>3, <3>1, <4>1, <4>2
        <5> QED BY <1>2, <5>2, <5>3
      <4>5. CASE x \in E
        <5>1. Cardinality(Listing(x, k)) = Cardinality(Listing(x, k - 1)) + 1
          BY <1>7, <4>5, FS_AddElement
        <5>2. Cardinality(Listing(x, k - 1)) \in Nat BY <1>7, FS_CardinalityType
        <5>3. Cardinality(Listing(x, k)) <= map'[x] BY <3>1, <4>1, <4>2, <4>5, <5>1, <5>2
        <5>4. \E n, m \in Listing(x, k) : n # m BY <1>7, <4>1, <4>5
        <5> QED BY <4>3, <4>4, <5>3, <5>4
      <4>6. CASE x \notin E
        <5>1. Listing(x, k) = Listing(x, k - 1) /\ map'[x] = map[x]
          BY <1>7, <3>1, <4>1, <4>2, <4>6
        <5> QED BY <1>2, <4>1, <4>3, <4>4, <5>1
      <4> QED BY <4>5, <4>6
    <3>4. CASE x \notin DOMAIN map
      <4>1. map'[x] = t /\ x \in E BY <1>6, <2>1, <3>1, <3>4
      <4>2. \A n \in 1..k - 1 : ~(x \in EpochNodes(list[n]))
        <5>1. \A n \in 1..k - 1 : ~Skipped(list[n])
          BY DEF Skipped, Counted, Plain, Grouped
        <5> QED BY <3>4, <5>1 DEF ListsInv, DomainListed
      <4>3. \A n \in 1..k - 1 : Times(list[n], x) = 0
        <5>1. \A n \in 1..k - 1 : list[n] \in ListSections
          BY <1>1, ElementOfSeq DEF ListsInv, ListsTyped
        <5> QED BY <4>2, <5>1, TimesTyped
      <4>4. \A n \in 1..k : map'[x] >= Times(list[n], x)
        BY <1>2, <1>3, <3>1, <4>1, <4>3
      <4>5. Listing(x, k) = {k} BY <1>7, <4>1, <4>2 DEF Listing
      <4>6. Cardinality(Listing(x, k)) <= map'[x] BY <3>1, <4>1, <4>5, FS_Singleton
      <4>7. map'[x] > 1 => Times(list[k], x) > 1 /\ k \in 1..k BY <1>1, <1>3, <3>1, <4>1
      <4> QED BY <3>1, <4>1, <4>4, <4>6, <4>7
    <3> QED BY <3>3, <3>4
  <2> QED BY <1>2, <1>6, <2>1, SectionsStay DEF Sums
<1>12. PeriodsKnown'
  <2>1. CASE kind = "txs"
    <3>1. kind \notin Grouped BY <2>1 DEF Grouped
    <3>2. E = Elements(NumsOf(s.epochs)) \X Elements(NumsOf(s.nodes))
      BY <1>4, <3>1 DEF EpochNodes, Who
    <3>3. DOMAIN period = {x[1] : x \in DOMAIN map} BY <2>1 DEF ListsInv, PeriodsKnown
    <3>4. CASE NumsOf(s.nodes) = <<>>
      <4>1. E = {} BY <3>2, <3>4 DEF Elements
      <4>2. period' = period BY <1>3, <3>4 DEF ConvertPeriod
      <4>3. DOMAIN map' = DOMAIN map BY <1>6, <4>1
      <4> QED BY <2>1, <3>3, <4>2, <4>3 DEF PeriodsKnown
    <3>5. CASE NumsOf(s.nodes) # <<>>
      <4>1. PICK y : y \in Elements(NumsOf(s.nodes))
        <5>1. NumsOf(s.nodes) \in Seq(Nat) BY <1>5, ListSectionTyped
        <5>2. Len(NumsOf(s.nodes)) \in Nat /\ Len(NumsOf(s.nodes)) # 0
          BY <3>5, <5>1, LenProperties, EmptySeq
        <5>3. 1 \in DOMAIN NumsOf(s.nodes) BY <5>1, <5>2, LenProperties
        <5> QED BY <5>3 DEF Elements
      <4>2. DOMAIN period' = DOMAIN period \cup Elements(NumsOf(s.epochs))
        BY <1>3, <2>1, <3>5 DEF ConvertPeriod, Over
      <4>3. {x[1] : x \in E} = Elements(NumsOf(s.epochs))
        <5>1. \A e \in Elements(NumsOf(s.epochs)) : <<e, y>> \in E /\ <<e, y>>[1] = e
          BY <3>2, <4>1
        <5>2. \A x \in E : x[1] \in Elements(NumsOf(s.epochs)) BY <3>2
        <5> QED BY <5>1, <5>2
      <4>4. {x[1] : x \in E \cup DOMAIN map} = {x[1] : x \in E} \cup {x[1] : x \in DOMAIN map}
        OBVIOUS
      <4> QED BY <1>6, <2>1, <3>3, <4>2, <4>3, <4>4 DEF PeriodsKnown
    <3> QED BY <3>4, <3>5
  <2>2. CASE kind # "txs" BY <2>2 DEF ConvertPeriod, ListsInv, PeriodsKnown
  <2> QED BY <2>1, <2>2
<1>13. ParsedSoFar' BY <1>2 DEF ListsInv, ParsedSoFar
<1> QED BY <1>8, <1>9, <1>10, <1>11, <1>12, <1>13 DEF ListsInv

\* The invariant: what the map is after any number of sections.
THEOREM ListsInvariance == ListsSpec => []ListsInv
<1>1. ListsInv /\ [ListsNext]_listsVars => ListsInv'
  <2> SUFFICES ASSUME ListsInv, [ListsNext]_listsVars PROVE ListsInv' OBVIOUS
  <2>1. CASE UNCHANGED listsVars
    <3>1. UNCHANGED <<kind, list, godMode, k, map, period>> /\ lpc' = lpc
      BY <2>1 DEF listsVars
    <3>2. /\ lpc' \in {"validate", "convert", "done", "panicked"}
          /\ lpc' = "done" => k = Len(list) + 1
      BY <3>1 DEF ListsInv, ListsTyped
    <3> QED BY <3>1, <3>2, NothingConverted
  <2>2. CASE ValidateList BY <2>2, NothingConverted DEF ValidateList
  <2>3. CASE ConvertSection
    <3>1. /\ UNCHANGED <<kind, list, godMode, lpc>> /\ lpc = "convert" /\ k <= Len(list)
          /\ k' = k + 1 /\ (kind \in PanickingLists => SectionParses(list[k]))
      BY <2>3 DEF ConvertSection
    <3>2. CASE Skipped(list[k]) /\ UNCHANGED <<map, period>> BY <3>1, <3>2, SkippedKeeps
    <3>3. CASE ~Skipped(list[k]) /\ kind \in Counted
               /\ ConvertCounted(list[k]) /\ ConvertPeriod(list[k])
      BY <3>1, <3>3, ConvertCountedKeeps
    <3>4. CASE ~Skipped(list[k]) /\ kind \notin Counted
               /\ ConvertValued(list[k]) /\ UNCHANGED period
      BY <3>1, <3>4, ConvertValuedKeeps
    <3> QED BY <2>3, <3>2, <3>3, <3>4 DEF ConvertSection
  <2>4. CASE PanicOnList BY <2>4, NothingConverted DEF PanicOnList
  <2>5. CASE FinishList
    <3>1. k = Len(list) + 1 BY <2>5, LenProperties DEF FinishList, ListsInv, ListsTyped
    <3> QED BY <2>5, <3>1, NothingConverted DEF FinishList
  <2>6. CASE ListsEnded BY <2>1, <2>6 DEF ListsEnded
  <2> QED BY <2>1, <2>2, <2>3, <2>4, <2>5, <2>6 DEF ListsNext
<1> QED BY <1>1, ListsInitially, PTL DEF ListsSpec

-----------------------------------------------------------------------------
(* The theorems about ScenarioLists                                        *)

\* Type correctness, and of Txs every epoch in the map has a period.
THEOREM ListsTypeCorrect == ListsSpec => []ListsTypeOK
<1>1. ListsInv => ListsTypeOK
  <2> SUFFICES ASSUME ListsInv PROVE ListsTypeOK OBVIOUS
  <2>1. ASSUME NEW x \in DOMAIN map PROVE x[1] \in Nat /\ map[x] \in Nat
    <3>1. k - 1 \in Nat /\ k - 1 <= Len(list) /\ Len(list) \in Nat
      BY LenProperties DEF ListsInv, ListsTyped
    <3>2. \A n \in 1..k - 1 : list[n] \in ListSections
      BY <3>1, ElementOfSeq DEF ListsInv, ListsTyped
    <3>3. PICK n \in 1..k - 1 : x \in EpochNodes(list[n])
      BY DEF ListsInv, DomainListed, Listing
    <3>4. x[1] \in Nat BY <3>2, <3>3, ListedByTexts
    <3>5. CASE kind \in Counted BY <3>4, <3>5 DEF ListsInv, Sums
    <3>6. CASE kind \notin Counted
      <4>1. PICK m \in 1..k - 1 : LastOf(x, m) /\ map[x] = Value(list[m], x[1], x[2])
        BY <3>6 DEF ListsInv, ValuesLast
      <4>2. x \in EpochNodes(list[m]) BY <4>1 DEF LastOf, Listing
      <4>3. kind \notin Grouped BY <3>6 DEF Counted
      <4> QED BY <3>2, <3>4, <4>1, <4>2, <4>3, ValueTyped
    <3> QED BY <3>5, <3>6
  <2> QED BY <2>1 DEF ListsInv, ListsTyped, PeriodsKnown, ListsTypeOK
<1> QED BY <1>1, ListsInvariance, PTL

LEMMA LastCounts == ASSUME ListsInv PROVE LastSectionCounts
<1> SUFFICES ASSUME lpc = "done", kind \in Valued PROVE LastSectionCounts
  BY DEF LastSectionCounts
<1> DEFINE counts(x) == {n \in DOMAIN list :
                           x \in EpochNodes(list[n])
                           /\ ~(kind = "store" /\ list[n].onlyGodMode /\ ~godMode)}
           last(x) == CHOOSE n \in counts(x) : \A m \in counts(x) : m <= n
<1>1. /\ k - 1 = Len(list) /\ Len(list) \in Nat /\ DOMAIN list = 1..Len(list)
      /\ kind \notin Counted
  BY LenProperties DEF ListsInv, ListsTyped, Valued, Counted, Plain, Grouped
<1>2. \A x : counts(x) = Listing(x, k - 1) BY <1>1 DEF Listing, Skipped
<1>3. DOMAIN map = {x \in UNION {EpochNodes(list[n]) : n \in DOMAIN list} : counts(x) # {}}
  <2>1. ASSUME NEW x \in DOMAIN map
        PROVE  x \in UNION {EpochNodes(list[n]) : n \in DOMAIN list} /\ counts(x) # {}
    <3>1. counts(x) # {} BY <1>2 DEF ListsInv, DomainListed
    <3> QED BY <3>1
  <2>2. ASSUME NEW x, counts(x) # {} PROVE x \in DOMAIN map
    <3>1. PICK n \in 1..k - 1 : x \in EpochNodes(list[n]) /\ ~Skipped(list[n])
      BY <1>2, <2>2 DEF Listing
    <3> QED BY <3>1 DEF ListsInv, DomainListed
  <2> HIDE DEF counts
  <2> QED BY <2>1, <2>2
<1>4. ASSUME kind # "updates", NEW x \in DOMAIN map PROVE map[x] = list[last(x)].arg
  <2>1. PICK n \in 1..k - 1 : LastOf(x, n) /\ map[x] = Value(list[n], x[1], x[2])
    BY <1>1 DEF ListsInv, ValuesLast
  <2>2. n \in counts(x) /\ \A m \in counts(x) : m <= n BY <1>2, <2>1 DEF LastOf
  <2>3. counts(x) \subseteq Nat BY <1>1
  <2>4. last(x) = n
    <3>1. last(x) \in counts(x) /\ \A m \in counts(x) : m <= last(x)
      <4> HIDE DEF counts
      <4> QED BY <2>2
    <3> HIDE DEF counts, last
    <3> QED BY <2>2, <2>3, <3>1
  <2> QED BY <1>4, <2>1, <2>4 DEF Value
<1>5. kind = "delegations" => \A n \in DOMAIN list : SectionParses(list[n])
  BY <1>1 DEF ListsInv, ParsedSoFar, PanickingLists
<1> QED BY <1>3, <1>4, <1>5 DEF LastSectionCounts

LEMMA ListingsKept == ASSUME ListsInv PROVE EveryListingKept
<1> SUFFICES ASSUME lpc = "done", kind \in Counted,
                    NEW x \in UNION {EpochNodes(list[n]) : n \in DOMAIN list}
             PROVE  /\ \A n \in DOMAIN list : map[x] >= Times(list[n], x)
                    /\ Cardinality({n \in DOMAIN list : x \in EpochNodes(list[n])}) <= map[x]
                    /\ map[x] > 1 =>
                         \/ \E n \in DOMAIN list : Times(list[n], x) > 1
                         \/ \E n, m \in DOMAIN list :
                              n # m /\ x \in EpochNodes(list[n]) \cap EpochNodes(list[m])
  BY DEF EveryListingKept
<1>1. k - 1 = Len(list) /\ Len(list) \in Nat /\ DOMAIN list = 1..k - 1
  BY LenProperties DEF ListsInv, ListsTyped
<1>2. \A n : ~Skipped(list[n]) BY DEF Skipped, Counted, Plain, Grouped
<1>3. x \in DOMAIN map BY <1>1, <1>2 DEF ListsInv, DomainListed
<1>4. Listing(x, k - 1) = {n \in DOMAIN list : x \in EpochNodes(list[n])}
  BY <1>1, <1>2 DEF Listing
<1>5. /\ \A n \in DOMAIN list : map[x] >= Times(list[n], x)
      /\ Cardinality(Listing(x, k - 1)) <= map[x]
      /\ map[x] > 1 => \/ \E n \in DOMAIN list : Times(list[n], x) > 1
                       \/ \E n, m \in Listing(x, k - 1) : n # m
  BY <1>1, <1>3 DEF ListsInv, Sums
<1> QED BY <1>4, <1>5

LEMMA Staggered == ASSUME ListsInv PROVE UpdatesStaggered
<1> SUFFICES ASSUME lpc = "done", kind = "updates", Len(list) = 1
             PROVE  \A x, y \in DOMAIN map :
                      /\ x[2] = y[2] => map[x] = map[y]
                      /\ x[2] # y[2] => \/ map[x] >= map[y] + list[1].step
                                        \/ map[y] >= map[x] + list[1].step
  BY DEF UpdatesStaggered
<1>1. k - 1 = 1 /\ list[1] \in ListSections
  <2>1. list \in Seq(ListSections) /\ k = Len(list) + 1 BY DEF ListsInv, ListsTyped
  <2>2. k - 1 = 1 BY <2>1
  <2>3. 1 \in DOMAIN list BY <2>1, LenProperties
  <2> QED BY <2>1, <2>2, <2>3, ElementOfSeq
<1>2. kind \notin Counted /\ kind \notin Grouped BY DEF Counted, Plain, Grouped
<1>3. PICK s : s = list[1] OBVIOUS
<1>4. s.arg \in Nat /\ s.step \in Nat /\ s \in ListSections BY <1>1, <1>3, ListSectionTyped
<1>5. ASSUME NEW x \in DOMAIN map
      PROVE  /\ map[x] = s.arg + s.step * LastPos(s.nodes, x[2])
             /\ LastPos(s.nodes, x[2]) \in Nat /\ s.nodes[LastPos(s.nodes, x[2])] = x[2]
  <2>1. PICK n \in 1..k - 1 : LastOf(x, n) /\ map[x] = Value(list[n], x[1], x[2])
    BY <1>2 DEF ListsInv, ValuesLast
  <2>2. n = 1 /\ x \in EpochNodes(s) BY <1>1, <1>3, <2>1 DEF LastOf, Listing
  <2>3. s.nodes \in Seq(Nat) /\ x[2] \in Elements(s.nodes)
    BY <1>2, <1>4, <2>2, ListedByTexts
  <2> QED BY <1>3, <2>1, <2>2, <2>3, LastPosThere DEF Value, Delay
<1>6. ASSUME NEW x \in DOMAIN map, NEW y \in DOMAIN map, x[2] # y[2]
      PROVE  map[x] >= map[y] + s.step \/ map[y] >= map[x] + s.step
  <2>1. PICK p, q \in Nat : p = LastPos(s.nodes, x[2]) /\ q = LastPos(s.nodes, y[2]) BY <1>5
  <2>2. p # q BY <1>5, <1>6, <2>1
  <2>3. map[x] = s.arg + s.step * p /\ map[y] = s.arg + s.step * q BY <1>5, <2>1
  <2>4. s.step * p \in Nat /\ s.step * q \in Nat BY <1>4, <2>1
  <2>5. CASE p < q
    <3>1. s.step * p + s.step <= s.step * q BY <1>4, <2>5, ProductGrows
    <3> QED BY <1>4, <2>3, <2>4, <3>1
  <2>6. CASE q < p
    <3>1. s.step * q + s.step <= s.step * p BY <1>4, <2>6, ProductGrows
    <3> QED BY <1>4, <2>3, <2>4, <3>1
  <2> QED BY <2>1, <2>2, <2>5, <2>6
<1>7. \A x, y \in DOMAIN map : x[2] = y[2] => map[x] = map[y] BY <1>5
<1> QED BY <1>3, <1>6, <1>7

\* For any list of any kind: what the sessions look up is what the sections
\* say together - the last one, or the sum of them, or a step after the other -
\* and a section is lost only where Load does not look at it (conversion.go).
THEOREM MapSaysWhatIsListed == ListsSpec => []MapAsListed
<1>1. ListsInv => MapAsListed BY LastCounts, ListingsKept, Staggered DEF MapAsListed
<1> QED BY <1>1, ListsInvariance, PTL
-----------------------------------------------------------------------------
(* Lists put one after another                                             *)

\* A set of numbers that is not empty has a least one.
LEMMA LeastNumber ==
  ASSUME NEW S \in SUBSET Nat, S # {}
  PROVE  \E m \in S : \A o \in S : m <= o
<1>1. IsWellFoundedOn(OpToRel(<, Nat), Nat) BY NatLessThanWellFounded
<1>2. PICK m \in S : \A o \in S : ~(<<o, m>> \in OpToRel(<, Nat)) BY <1>1, WFMin
<1>3. \A o \in S : ~(o < m) BY <1>2 DEF OpToRel
<1> QED BY <1>3

\* The first n lists of q, one after another.
Joined(q, f, n) ==
  f = [m \in 1..n |-> IF m = 1 THEN q[m] ELSE f[m - 1] \o q[m]]

\* The lists can be put together from the left, one at a time.
LEMMA JoinedExists == ASSUME NEW q, NEW n \in Nat PROVE \E f : Joined(q, f, n)
<1> DEFINE S == {m \in Nat : ~\E f : Joined(q, f, m)}
<1> SUFFICES ASSUME S # {} PROVE FALSE OBVIOUS
<1> HIDE DEF S
<1>0. S \in SUBSET Nat BY DEF S
<1>1. PICK m \in S : \A o \in S : m <= o BY <1>0, LeastNumber
<1>2. m \in Nat /\ ~\E f : Joined(q, f, m) BY <1>1 DEF S
<1>3. Joined(q, [x \in 1..0 |-> 0], 0) BY DEF Joined
<1>4. m # 0 BY <1>2, <1>3
<1>5. m - 1 \in Nat /\ m - 1 \notin S BY <1>1, <1>2, <1>4
<1>6. PICK f : Joined(q, f, m - 1) BY <1>5 DEF S
<1> DEFINE g == [x \in 1..m |-> IF x = m THEN IF m = 1 THEN q[m] ELSE f[m - 1] \o q[m]
                                ELSE f[x]]
<1>7. ASSUME NEW x \in 1..m
      PROVE  g[x] = IF x = 1 THEN q[x] ELSE g[x - 1] \o q[x]
  <2>1. CASE x = m /\ m = 1 BY <2>1
  <2>2. CASE x = m /\ m # 1
    <3>1. x - 1 \in 1..m /\ x - 1 # m BY <1>2, <2>2
    <3> QED BY <2>2, <3>1
  <2>3. CASE x # m
    <3>1. x \in 1..(m - 1) BY <1>2, <2>3
    <3>2. f[x] = IF x = 1 THEN q[x] ELSE f[x - 1] \o q[x] BY <1>6, <3>1 DEF Joined
    <3>3. CASE x = 1 BY <2>3, <3>2, <3>3
    <3>4. CASE x # 1
      <4>1. x - 1 \in 1..m /\ x - 1 # m BY <1>2, <3>1, <3>4
      <4> QED BY <2>3, <3>2, <3>4, <4>1
    <3> QED BY <3>3, <3>4
  <2> QED BY <2>1, <2>2, <2>3
<1>8. g = [x \in 1..m |-> IF x = 1 THEN q[x] ELSE g[x - 1] \o q[x]] BY <1>7
<1>9. Joined(q, g, m) BY <1>8 DEF Joined
<1> QED BY <1>2, <1>9

\* FlattenSeq(q) is what all lists of q make when put together.
LEMMA FlattenIsJoined ==
  ASSUME NEW q, Len(q) \in Nat, Len(q) # 0
  PROVE  \E f : Joined(q, f, Len(q)) /\ FlattenSeq(q) = f[Len(q)]
<1>1. \E f : Joined(q, f, Len(q)) BY JoinedExists
<1> QED BY <1>1 DEF FlattenSeq, Joined

\* Where the first n lists of q begin in w.
Laid(q, w, at, n) ==
  /\ \A ix \in 1..n : \A a \in DOMAIN q[ix] :
       at[ix] + a \in DOMAIN w /\ w[at[ix] + a] = q[ix][a]
  /\ \A ix, l \in 1..n : ix < l => at[ix] + Len(q[ix]) <= at[l]
  /\ \A p \in DOMAIN w : \E ix \in 1..n : \E a \in DOMAIN q[ix] : p = at[ix] + a

\* v is w and then r.
Then(w, r, v) ==
  /\ Len(w) \in Nat /\ Len(r) \in Nat /\ Len(v) = Len(w) + Len(r)
  /\ DOMAIN w = 1..Len(w) /\ DOMAIN v = 1..(Len(w) + Len(r))
  /\ \A x \in 1..Len(w) : v[x] = w[x]
  /\ \A x \in 1..Len(r) : v[Len(w) + x] = r[x]

\* What two lists make when put together.
LEMMA Together ==
  ASSUME NEW T, NEW w \in Seq(T), NEW r \in Seq(T), NEW v, w \o r = v
  PROVE  v \in Seq(T) /\ Then(w, r, v)
<1>0. Len(w) \in Nat /\ Len(r) \in Nat /\ DOMAIN w = 1..Len(w) BY LenProperties
<1> DEFINE a == Len(w)
           b == Len(r)
<1>1. /\ v \in Seq(T) /\ Len(v) = a + b
      /\ \A x \in 1..(a + b) : v[x] = IF x <= a THEN w[x] ELSE r[x - a]
  BY ConcatProperties
<1>2. DOMAIN v = 1..(a + b) BY <1>1, LenProperties
<1>3. a \in Nat /\ b \in Nat BY <1>0
<1> HIDE DEF a, b
<1>4. \A x \in 1..a : v[x] = w[x] BY <1>1, <1>3
<1>5. ASSUME NEW x \in 1..b PROVE v[a + x] = r[x]
  <2>1. a + x \in 1..(a + b) /\ ~(a + x <= a) /\ (a + x) - a = x BY <1>3
  <2> QED BY <1>1, <2>1
<1> QED BY <1>0, <1>1, <1>2, <1>4, <1>5 DEF a, b, Then

\* One more list begins where the others end.
LEMMA LaidOneMore ==
  ASSUME NEW T, NEW q \in Seq(Seq(T)), NEW m \in DOMAIN q, m - 1 \in DOMAIN q,
         NEW at \in [DOMAIN q -> Nat], NEW w, NEW v, Then(w, q[m], v),
         Laid(q, w, at, m - 1), at[m] = Len(w), Len(w) = at[m - 1] + Len(q[m - 1])
  PROVE  Laid(q, v, at, m)
<1>0. m \in Nat /\ m - 1 \in Nat /\ DOMAIN q = 1..Len(q) /\ q[m] \in Seq(T) OBVIOUS
<1>2. /\ DOMAIN v = 1..(Len(w) + Len(q[m])) /\ DOMAIN w = 1..Len(w)
      /\ Len(w) \in Nat /\ Len(q[m]) \in Nat
  BY Zenon DEF Then
<1>3. \A x \in 1..Len(w) : v[x] = w[x] BY Zenon DEF Then
<1>4. \A x \in 1..Len(q[m]) : v[Len(w) + x] = q[m][x] BY Zenon DEF Then
<1>5. \A ix \in 1..m : ix # m => ix \in 1..(m - 1) BY <1>0
<1>6. ASSUME NEW ix \in 1..m
      PROVE  /\ ix \in DOMAIN q /\ at[ix] \in Nat /\ q[ix] \in Seq(T)
             /\ DOMAIN q[ix] = 1..Len(q[ix]) /\ Len(q[ix]) \in Nat
  <2>1. ix \in DOMAIN q BY <1>0
  <2>2. at[ix] \in Nat BY <2>1, Zenon
  <2>3. q[ix] \in Seq(T) BY <2>1
  <2>4. DOMAIN q[ix] = 1..Len(q[ix]) /\ Len(q[ix]) \in Nat BY <2>3, LenProperties, Zenon
  <2> QED BY <2>1, <2>2, <2>3, <2>4
<1>7. ASSUME NEW ix \in 1..m, NEW a \in DOMAIN q[ix]
      PROVE  at[ix] + a \in DOMAIN v /\ v[at[ix] + a] = q[ix][a]
  <2>1. CASE ix = m
    <3>1. a \in 1..Len(q[m]) /\ at[ix] = Len(w) BY <1>6, <2>1
    <3>2. Len(w) + a \in DOMAIN v
      <4>1. \A b, c \in Nat : \A d \in 1..c : b + d \in 1..(b + c) OBVIOUS
      <4>2. Len(w) + a \in 1..(Len(w) + Len(q[m])) BY <1>2, <3>1, <4>1, Zenon
      <4> QED BY <1>2, <4>2, Zenon
    <3> QED BY <1>4, <2>1, <3>1, <3>2
  <2>2. CASE ix # m
    <3>1. at[ix] + a \in DOMAIN w /\ w[at[ix] + a] = q[ix][a] BY <1>5, <2>2 DEF Laid
    <3> QED BY <1>2, <1>3, <3>1
  <2> QED BY <2>1, <2>2
<1>8. ASSUME NEW ix \in 1..m, NEW l \in 1..m, ix < l
      PROVE  at[ix] + Len(q[ix]) <= at[l]
  <2>1. ix \in 1..(m - 1) BY <1>8, <1>0
  <2>2. CASE l = m
    <3>1. CASE ix = m - 1 BY <2>2, <3>1
    <3>2. CASE ix # m - 1
      <4>1. ix < m - 1 /\ m - 1 \in 1..(m - 1)
        <5>1. \A d \in Nat : \A c \in 1..d : c # d => c < d /\ d \in 1..d OBVIOUS
        <5> QED BY <1>0, <2>1, <3>2, <5>1, Zenon
      <4>2. at[ix] + Len(q[ix]) <= at[m - 1] BY <2>1, <4>1 DEF Laid
      <4>3. ix \in 1..m /\ m - 1 \in 1..m BY <1>0, <2>1, <4>1
      <4>4. /\ at[m - 1] \in Nat /\ Len(q[m - 1]) \in Nat
            /\ at[ix] \in Nat /\ Len(q[ix]) \in Nat
        BY <1>6, <4>3, Zenon
      <4>5. \A a, b, c, d \in Nat : a + b <= c => a + b <= c + d OBVIOUS
      <4>6. at[ix] + Len(q[ix]) <= at[m - 1] + Len(q[m - 1]) BY <4>2, <4>4, <4>5, Zenon
      <4>7. at[l] = at[m - 1] + Len(q[m - 1])
        <5>1. at[l] = at[m] BY <2>2, Zenon
        <5>2. at[m] = at[m - 1] + Len(q[m - 1]) OBVIOUS
        <5> QED BY <5>1, <5>2, Zenon
      <4> QED BY <4>6, <4>7, Zenon
    <3> QED BY <3>1, <3>2
  <2>3. CASE l # m BY <1>5, <1>8, <2>1, <2>3 DEF Laid
  <2> QED BY <2>2, <2>3
<1>9. ASSUME NEW p \in DOMAIN v
      PROVE  \E ix \in 1..m : \E a \in DOMAIN q[ix] : p = at[ix] + a
  <2>1. CASE p \in 1..Len(w)
    <3>0. p \in DOMAIN w BY <1>2, <2>1, Zenon
    <3>1. PICK ix \in 1..(m - 1) : \E a \in DOMAIN q[ix] : p = at[ix] + a
      BY <3>0, Zenon DEF Laid
    <3>2. ix \in 1..m BY <1>0
    <3> QED BY <3>1, <3>2
  <2>2. CASE p \notin 1..Len(w)
    <3>1. p - Len(w) \in 1..Len(q[m]) BY <1>2, <2>2
    <3>2. m \in 1..m BY <1>0
    <3>3. p - Len(w) \in DOMAIN q[m] BY <1>6, <3>1, <3>2
    <3>4. p = at[m] + (p - Len(w)) BY <1>2
    <3> QED BY <3>2, <3>3, <3>4
  <2> QED BY <2>1, <2>2
<1> QED BY <1>7, <1>8, <1>9 DEF Laid

\* FlattenSeq lays the lists one after another.
LEMMA FlattenLays ==
  ASSUME NEW T, NEW q \in Seq(Seq(T))
  PROVE  /\ FlattenSeq(q) \in Seq(T)
         /\ \E at \in [DOMAIN q -> Nat] : Laid(q, FlattenSeq(q), at, Len(q))
<1>1. CASE Len(q) = 0
  <2>1. FlattenSeq(q) = q BY <1>1 DEF FlattenSeq
  <2>2. q = <<>> BY <1>1
  <2>3. <<>> \in [DOMAIN q -> Nat] BY <2>2
  <2>4. Laid(q, q, <<>>, 0) BY <2>2 DEF Laid
  <2>5. q \in Seq(T) BY <2>2
  <2> QED BY <1>1, <2>1, <2>3, <2>4, <2>5
<1>2. CASE Len(q) # 0
  <2>0. Len(q) \in Nat /\ DOMAIN q = 1..Len(q) OBVIOUS
  <2>1. PICK f : Joined(q, f, Len(q)) /\ FlattenSeq(q) = f[Len(q)] BY <1>2, <2>0, FlattenIsJoined
  <2>2. \A x \in 1..Len(q) : f[x] = IF x = 1 THEN q[x] ELSE f[x - 1] \o q[x] BY <2>1 DEF Joined
  <2> DEFINE at == [ix \in DOMAIN q |-> IF ix = 1 THEN 0 ELSE IF f[ix - 1] \in Seq(T) THEN Len(f[ix - 1]) ELSE 0]
             P(n) == f[n] \in Seq(T) /\ Laid(q, f[n], at, n) /\ Len(f[n]) = at[n] + Len(q[n])
             S == {n \in 1..Len(q) : ~P(n)}
  <2>3. at \in [DOMAIN q -> Nat] OBVIOUS
  <2>4. P(1)
    <3>1. f[1] = q[1] /\ q[1] \in Seq(T) /\ 1 \in DOMAIN q BY <1>2, <2>0, <2>2
    <3>2. at[1] = 0 BY <3>1
    <3>3. Len(f[1]) = at[1] + Len(q[1]) BY <3>1, <3>2
    <3>4. 1..1 = {1} OBVIOUS
    <3> HIDE DEF at
    <3>5. Laid(q, f[1], at, 1) BY <3>1, <3>2, <3>4 DEF Laid
    <3> QED BY <3>1, <3>3, <3>5
  <2>5. ASSUME S # {} PROVE FALSE
    <3> HIDE DEF P, at
    <3>1. S \in SUBSET Nat BY <2>0
    <3>2. PICK m \in S : \A o \in S : m <= o BY <2>5, <3>1, LeastNumber
    <3>3. m \in 1..Len(q) /\ m # 1 /\ ~P(m) BY <2>4
    <3>4. m - 1 \in 1..Len(q) /\ m - 1 \notin S BY <2>0, <3>2, <3>3
    <3>5. P(m - 1) BY <3>4
    <3>6. f[m - 1] \in Seq(T) /\ Laid(q, f[m - 1], at, m - 1) /\ Len(f[m - 1]) = at[m - 1] + Len(q[m - 1])
      BY <3>5 DEF P
    <3>7. at[m] = Len(f[m - 1]) BY <2>0, <3>3, <3>6 DEF at
    <3>8. f[m] = f[m - 1] \o q[m] BY <2>2, <3>3
    <3>9. m \in DOMAIN q /\ m - 1 \in DOMAIN q /\ q[m] \in Seq(T) BY <2>0, <3>3, <3>4
    <3>10. f[m] \in Seq(T) /\ Then(f[m - 1], q[m], f[m]) BY <3>6, <3>8, <3>9, Together
    <3>11. Len(f[m]) = Len(f[m - 1]) + Len(q[m]) BY <3>10, Zenon DEF Then
    <3>12. Laid(q, f[m], at, m) BY <2>3, <3>6, <3>7, <3>9, <3>10, LaidOneMore
    <3> QED BY <3>3, <3>7, <3>10, <3>11, <3>12 DEF P
  <2>6. P(Len(q))
    <3> HIDE DEF P
    <3>1. Len(q) \in 1..Len(q) BY <1>2, <2>0
    <3> QED BY <2>5, <3>1
  <2> HIDE DEF at
  <2> QED BY <2>1, <2>3, <2>6
<1> QED BY <1>1, <1>2

-----------------------------------------------------------------------------
(* Sums count what is in disjoint sets                                     *)

Summed(f, S, g) ==
  g = [s \in SUBSET S |-> IF s = {} THEN 0
                          ELSE f[CHOOSE x \in s : TRUE] + g[s \ {CHOOSE x \in s : TRUE}]]

\* t[x] has f[x] elements, for x in S, and nothing is in two of the sets.
CountedBy(f, t, S) ==
  /\ \A x \in S : IsFiniteSet(t[x]) /\ f[x] = Cardinality(t[x])
  /\ \A x, y \in S : x # y => t[x] \cap t[y] = {}

All(t, s) == UNION {t[x] : x \in s}

\* Taking one set away takes its elements away.
LEMMA OneTaken ==
  ASSUME NEW S, NEW f, NEW t, CountedBy(f, t, S), IsFiniteSet(All(t, S)),
         NEW s \in SUBSET S, NEW x \in s
  PROVE  /\ Cardinality(All(t, s)) = f[x] + Cardinality(All(t, s \ {x}))
         /\ Cardinality(All(t, s)) \in Nat
<1>1. All(t, s) \subseteq All(t, S) /\ All(t, s \ {x}) \subseteq All(t, S) BY DEF All
<1>2. IsFiniteSet(All(t, s)) /\ IsFiniteSet(All(t, s \ {x})) BY <1>1, FS_Subset
<1>3. IsFiniteSet(t[x]) /\ f[x] = Cardinality(t[x]) BY DEF CountedBy
<1>4. All(t, s) = t[x] \cup All(t, s \ {x}) BY DEF All
<1>5. t[x] \cap All(t, s \ {x}) = {} BY DEF All, CountedBy
<1>6. Cardinality(All(t, s)) = Cardinality(t[x]) + Cardinality(All(t, s \ {x})) - Cardinality({})
  <2>1. Cardinality(t[x] \cup All(t, s \ {x})) = Cardinality(t[x]) + Cardinality(All(t, s \ {x}))
                                                 - Cardinality(t[x] \cap All(t, s \ {x}))
    BY <1>2, <1>3, FS_Union
  <2> QED BY <1>4, <1>5, <2>1, Zenon
<1>7. Cardinality({}) = 0 BY FS_EmptySet
<1>8. Cardinality(t[x]) \in Nat /\ Cardinality(All(t, s \ {x})) \in Nat /\ Cardinality(All(t, s)) \in Nat
  BY <1>2, <1>3, FS_CardinalityType
<1> QED BY <1>3, <1>6, <1>7, <1>8

\* A sum over a set, element by element, counts disjoint sets.
LEMMA SummedCounts ==
  ASSUME NEW S, IsFiniteSet(S), NEW f, NEW t, CountedBy(f, t, S), IsFiniteSet(All(t, S)),
         NEW g, Summed(f, S, g)
  PROVE  g[S] = Cardinality(All(t, S))
<1> DEFINE Wrong(n) == \E s \in SUBSET S : Cardinality(s) = n /\ g[s] # Cardinality(All(t, s))
           D == {n \in Nat : Wrong(n)}
<1>1. ASSUME D # {} PROVE FALSE
  <2> HIDE DEF Wrong
  <2>1. PICK n \in D : \A o \in D : n <= o BY <1>1, LeastNumber
  <2> USE DEF Wrong
  <2>2. PICK s \in SUBSET S : Cardinality(s) = n /\ g[s] # Cardinality(All(t, s)) BY <2>1
  <2>3. IsFiniteSet(s) BY FS_Subset
  <2>4. s # {}
    <3>1. ASSUME s = {} PROVE FALSE
      <4>1. g[s] = 0 BY <3>1 DEF Summed
      <4>2. All(t, s) = {} BY <3>1 DEF All
      <4> QED BY <2>2, <4>1, <4>2, FS_EmptySet
    <3> QED BY <3>1
  <2> DEFINE x == CHOOSE x \in s : TRUE
             r == s \ {x}
  <2>5. x \in s BY <2>4
  <2>6. g[s] = f[x] + g[r] BY <2>4 DEF Summed
  <2> HIDE DEF x
  <2>7. r \in SUBSET S /\ Cardinality(r) = n - 1 /\ n - 1 \in Nat
    <3>1. IsFiniteSet(r) /\ Cardinality(r) = Cardinality(s) - 1
      BY <2>3, <2>5, FS_RemoveElement
    <3>2. Cardinality(r) \in Nat BY <3>1, FS_CardinalityType
    <3> QED BY <2>2, <3>1, <3>2
  <2>8. g[r] = Cardinality(All(t, r))
    <3>1. n - 1 \notin D BY <2>1, <2>7
    <3> QED BY <2>7, <3>1
  <2>9. Cardinality(All(t, s)) = f[x] + Cardinality(All(t, r)) BY <2>5, OneTaken
  <2> QED BY <2>2, <2>6, <2>8, <2>9
<1>2. Cardinality(S) \in Nat BY FS_CardinalityType
<1> QED BY <1>1, <1>2

\* Such a sum exists.
LEMMA SummedExists ==
  ASSUME NEW S, NEW f, NEW t, CountedBy(f, t, S), IsFiniteSet(All(t, S))
  PROVE  \E g : Summed(f, S, g)
<1> DEFINE g == [s \in SUBSET S |-> Cardinality(All(t, s))]
<1>1. ASSUME NEW s \in SUBSET S
      PROVE  g[s] = IF s = {} THEN 0
                    ELSE f[CHOOSE x \in s : TRUE] + g[s \ {CHOOSE x \in s : TRUE}]
  <2>1. CASE s = {}
    <3>1. All(t, s) = {} BY <2>1 DEF All
    <3> QED BY <2>1, <3>1, FS_EmptySet
  <2>2. CASE s # {}
    <3> DEFINE x == CHOOSE x \in s : TRUE
    <3>1. x \in s BY <2>2
    <3> HIDE DEF x
    <3>2. s \ {x} \in SUBSET S OBVIOUS
    <3>3. Cardinality(All(t, s)) = f[x] + Cardinality(All(t, s \ {x})) BY <3>1, OneTaken
    <3>4. g[s] = f[x] + g[s \ {x}] BY <3>2, <3>3
    <3> QED BY <2>2, <3>4 DEF x
  <2> QED BY <2>1, <2>2
<1>2. g = [s \in SUBSET S |-> g[s]] OBVIOUS
<1> HIDE DEF g
<1>3. Summed(f, S, g) BY <1>1, <1>2 DEF Summed
<1> QED BY <1>3

\* Finitely many finite sets have finitely many elements.
LEMMA AllFinite ==
  ASSUME NEW S, IsFiniteSet(S), NEW t, \A x \in S : IsFiniteSet(t[x])
  PROVE  IsFiniteSet(All(t, S))
<1> DEFINE h == [x \in S |-> t[x]]
           T == {t[x] : x \in S}
<1>1. h \in Surjection(S, T) BY DEF Surjection
<1>2. IsFiniteSet(T) BY <1>1, FS_Surjection
<1>3. \A y \in T : IsFiniteSet(y) OBVIOUS
<1> HIDE DEF T
<1>4. IsFiniteSet(UNION T) BY <1>2, <1>3, FS_UNION
<1> QED BY <1>4 DEF All, T

\* A sum is the number of elements of disjoint sets.
LEMMA SumCounts ==
  ASSUME NEW S, IsFiniteSet(S), NEW f, NEW t, CountedBy(f, t, S)
  PROVE  SumFunctionOnSet(f, S) = Cardinality(All(t, S)) /\ IsFiniteSet(All(t, S))
<1>0. IsFiniteSet(All(t, S)) BY AllFinite DEF CountedBy
<1>1. PICK g : Summed(f, S, g) BY <1>0, SummedExists
<1> DEFINE h == CHOOSE h : Summed(f, S, h)
<1>2. Summed(f, S, h) BY <1>1
<1>3. SumFunctionOnSet(f, S) = h[S]
  BY DEF SumFunctionOnSet, FoldFunctionOnSet, MapThenFoldSet, Summed
<1> HIDE DEF h
<1> QED BY <1>0, <1>2, <1>3, SummedCounts

\* c elements, told apart from those of others by x.
LEMMA TaggedCount ==
  ASSUME NEW x, NEW c \in Nat
  PROVE  IsFiniteSet({x} \X (1..c)) /\ Cardinality({x} \X (1..c)) = c
<1>1. IsFiniteSet({x}) /\ Cardinality({x}) = 1 BY FS_Singleton
<1>2. IsFiniteSet(1..c) /\ Cardinality(1..c) = c BY FS_Interval
<1>3. /\ IsFiniteSet({x} \X (1..c))
      /\ Cardinality({x} \X (1..c)) = Cardinality({x}) * Cardinality(1..c)
  BY <1>1, <1>2, FS_Product, Zenon
<1>4. Cardinality({x} \X (1..c)) = 1 * c BY <1>1, <1>2, <1>3, Zenon
<1> QED BY <1>3, <1>4

-----------------------------------------------------------------------------
(* What parsing and conversion return                                      *)

\* A function on 1..n is a list.
LEMMA FunctionIsList ==
  ASSUME NEW T, NEW n \in Int, NEW f, f = [x \in 1..n |-> f[x]], \A x \in 1..n : f[x] \in T
  PROVE  f \in Seq(T)
<1>1. CASE n \in Nat
  <2>1. f \in [1..n -> T] BY Zenon
  <2> QED BY <1>1, <2>1, SeqDef
<1>2. CASE n \notin Nat
  <2>1. 1..n = 1..0 BY <1>2
  <2>2. f \in [1..0 -> T] BY <2>1, Zenon
  <2>3. 0 \in Nat OBVIOUS
  <2> QED BY <2>2, <2>3, SeqDef
<1> QED BY <1>1, <1>2

\* A text that parses is a list of numbers.
LEMMA NumsTyped ==
  ASSUME NEW text \in Text, Parses(text)
  PROVE  Nums(text) \in Seq(Nat)
<1> DEFINE range(ix) == [n \in 1..(text[ix][2] - text[ix][1] + 1) |-> text[ix][1] + n - 1]
           q == [ix \in DOMAIN text |-> range(ix)]
<1>0. text \in Seq((Nat \X Nat) \cup {Malformed}) BY DEF Text
<1>1. ASSUME NEW ix \in DOMAIN text PROVE range(ix) \in Seq(Nat)
  <2>1. text[ix] \in Nat \X Nat BY <1>0 DEF Parses
  <2> DEFINE a == text[ix][1]
             b == text[ix][2]
  <2>2. a \in Nat /\ b \in Nat BY <2>1
  <2> HIDE DEF a, b
  <2> DEFINE f == [n \in 1..(b - a + 1) |-> a + n - 1]
  <2>3. \A n \in 1..(b - a + 1) : f[n] \in Nat BY <2>2
  <2>4. b - a + 1 \in Int /\ f = [n \in 1..(b - a + 1) |-> f[n]] BY <2>2
  <2> HIDE DEF f
  <2>5. f \in Seq(Nat) BY <2>3, <2>4, FunctionIsList
  <2> QED BY <2>5 DEF a, b, f
<1>2. DOMAIN text = 1..Len(text) /\ Len(text) \in Nat BY <1>0
<1> HIDE DEF range
<1>3. q \in Seq(Seq(Nat))
  <2>1. \A ix \in 1..Len(text) : q[ix] \in Seq(Nat) BY <1>1, <1>2
  <2>2. q = [ix \in 1..Len(text) |-> q[ix]] BY <1>2
  <2> HIDE DEF q
  <2> QED BY <1>2, <2>1, <2>2, FunctionIsList
<1>4. FlattenSeq(q) \in Seq(Nat) BY <1>3, FlattenLays
<1> QED BY <1>4 DEF Nums, q, range

Entry == Nat \X (Nat \ {0})
EpochsOf(secs, s) == ToSet(Nums(secs[s].epochs))

\* What a valid section asks for: x[1] is the epoch, x[2] the section.
Asked(secs) == {x \in Nat \X DOMAIN secs : x[1] \in EpochsOf(secs, x[2])}

\* What validateAllNewUsers leaves of a section.
LEMMA SectionValid ==
  ASSUME NEW secs \in Seq(UserSection), NewUsersValid(secs), NEW s \in DOMAIN secs
  PROVE  /\ secs[s].count \in Nat \ {0}
         /\ Nums(secs[s].epochs) \in Seq(Nat)
         /\ EpochsOf(secs, s) \subseteq Nat
<1>1. secs[s] \in UserSection OBVIOUS
<1>2. secs[s].epochs \in Text /\ secs[s].count \in Int BY <1>1 DEF UserSection
<1>3. Parses(secs[s].epochs) /\ secs[s].count > 0 BY DEF NewUsersValid
<1>4. Nums(secs[s].epochs) \in Seq(Nat) BY <1>2, <1>3, NumsTyped
<1>5. EpochsOf(secs, s) \subseteq Nat BY <1>4 DEF EpochsOf, ToSet
<1> QED BY <1>2, <1>3, <1>4, <1>5

\* Every epoch of every section has an entry, in a place of its own.
LEMMA SectionEntriesPlaced ==
  ASSUME NEW secs \in Seq(UserSection), NewUsersValid(secs)
  PROVE  /\ SectionEntries(secs) \in Seq(Entry)
         /\ \E place \in [Asked(secs) -> DOMAIN SectionEntries(secs)] :
              /\ \A x \in Asked(secs) :
                   SectionEntries(secs)[place[x]] = <<x[1], secs[x[2]].count>>
              /\ \A x, y \in Asked(secs) : x # y => place[x] # place[y]
<1> DEFINE lst(s) == [e \in DOMAIN Nums(secs[s].epochs) |-> <<Nums(secs[s].epochs)[e], secs[s].count>>]
           q == [s \in DOMAIN secs |-> lst(s)]
           w == FlattenSeq(q)
<1>0. DOMAIN secs = 1..Len(secs) /\ Len(secs) \in Nat OBVIOUS
<1>1. ASSUME NEW s \in DOMAIN secs
      PROVE  lst(s) \in Seq(Entry) /\ DOMAIN lst(s) = DOMAIN Nums(secs[s].epochs)
  <2> DEFINE nums == Nums(secs[s].epochs)
             c == secs[s].count
  <2>1. c \in Nat \ {0} /\ nums \in Seq(Nat) BY SectionValid
  <2> HIDE DEF nums, c
  <2>2. DOMAIN nums = 1..Len(nums) /\ Len(nums) \in Int BY <2>1
  <2> DEFINE f == [e \in DOMAIN nums |-> <<nums[e], c>>]
  <2>3. \A e \in 1..Len(nums) : f[e] \in Entry BY <2>1, <2>2 DEF Entry
  <2>4. f = [e \in 1..Len(nums) |-> f[e]] BY <2>2
  <2>5. DOMAIN f = DOMAIN nums OBVIOUS
  <2> HIDE DEF f
  <2>6. f \in Seq(Entry) BY <2>2, <2>3, <2>4, FunctionIsList
  <2> QED BY <2>5, <2>6 DEF f, nums, c
<1>2. q \in Seq(Seq(Entry))
  <2> HIDE DEF lst
  <2>1. \A s \in 1..Len(secs) : q[s] \in Seq(Entry) BY <1>0, <1>1
  <2>2. q = [s \in 1..Len(secs) |-> q[s]] BY <1>0
  <2> HIDE DEF q
  <2> QED BY <1>0, <2>1, <2>2, FunctionIsList
<1>3. SectionEntries(secs) = w BY DEF SectionEntries
<1>4. \A s \in DOMAIN secs : q[s] = lst(s) OBVIOUS
<1>5. DOMAIN q = DOMAIN secs OBVIOUS
<1>6. \A s \in DOMAIN secs : \A e \in DOMAIN lst(s) : lst(s)[e] = <<Nums(secs[s].epochs)[e], secs[s].count>>
  OBVIOUS
<1> HIDE DEF q, lst, w
<1>7. w \in Seq(Entry) BY <1>2, FlattenLays DEF w
<1>8. PICK at \in [DOMAIN q -> Nat] : Laid(q, w, at, Len(q)) BY <1>2, FlattenLays DEF w
<1>9. DOMAIN q = 1..Len(q) /\ Len(q) \in Nat BY <1>2
<1> DEFINE here(x) == CHOOSE e \in DOMAIN lst(x[2]) : Nums(secs[x[2]].epochs)[e] = x[1]
           place == [x \in Asked(secs) |-> at[x[2]] + here(x)]
<1>10. ASSUME NEW x \in Asked(secs)
       PROVE  /\ x[2] \in DOMAIN q /\ here(x) \in DOMAIN q[x[2]]
              /\ lst(x[2])[here(x)] = <<x[1], secs[x[2]].count>>
  <2>1. x[2] \in DOMAIN secs /\ x[1] \in EpochsOf(secs, x[2]) BY DEF Asked
  <2>2. \E e \in DOMAIN lst(x[2]) : Nums(secs[x[2]].epochs)[e] = x[1]
    BY <1>1, <2>1 DEF EpochsOf, ToSet
  <2>3. here(x) \in DOMAIN lst(x[2]) /\ Nums(secs[x[2]].epochs)[here(x)] = x[1] BY <2>2
  <2> HIDE DEF here
  <2> QED BY <1>4, <1>5, <1>6, <2>1, <2>3
<1> HIDE DEF here
<1>11. ASSUME NEW x \in Asked(secs)
       PROVE  place[x] \in DOMAIN w /\ w[place[x]] = <<x[1], secs[x[2]].count>>
  <2>1. place[x] = at[x[2]] + here(x) OBVIOUS
  <2>2. at[x[2]] + here(x) \in DOMAIN w /\ w[at[x[2]] + here(x)] = q[x[2]][here(x)]
    BY <1>8, <1>9, <1>10 DEF Laid
  <2>3. q[x[2]] = lst(x[2]) BY <1>4, <1>5, <1>10
  <2> QED BY <1>10, <2>1, <2>2, <2>3
<1>12. ASSUME NEW x \in Asked(secs), NEW y \in Asked(secs), place[x] = place[y]
       PROVE  x = y
  <2>1. x \in Nat \X DOMAIN secs /\ y \in Nat \X DOMAIN secs BY DEF Asked
  <2>2. x[1] = y[1] BY <1>11, <1>12
  <2>3. ASSUME NEW u \in Asked(secs), NEW v \in Asked(secs), u[2] < v[2] PROVE place[u] # place[v]
    <3>1. at[u[2]] + Len(q[u[2]]) <= at[v[2]] BY <1>8, <1>9, <1>10, <2>3 DEF Laid
    <3>2. q[u[2]] \in Seq(Entry) /\ q[v[2]] \in Seq(Entry)
      <4>1. u[2] \in DOMAIN q /\ v[2] \in DOMAIN q BY <1>10, Zenon
      <4>2. \A s \in DOMAIN q : q[s] \in Seq(Entry) BY <1>2
      <4> QED BY <4>1, <4>2, Zenon
    <3>3. here(u) \in 1..Len(q[u[2]]) /\ here(v) \in 1..Len(q[v[2]]) BY <1>10, <3>2
    <3>4. at[u[2]] \in Nat /\ at[v[2]] \in Nat /\ Len(q[u[2]]) \in Nat /\ Len(q[v[2]]) \in Nat
      BY <1>10, <3>2
    <3>5. at[u[2]] + here(u) < at[v[2]] + here(v) BY <3>1, <3>3, <3>4
    <3> QED BY <3>3, <3>4, <3>5
  <2>4. ~(x[2] < y[2]) /\ ~(y[2] < x[2]) BY <1>12, <2>3
  <2>5. x[2] \in Nat /\ y[2] \in Nat BY <1>0, <2>1
  <2>6. x[2] = y[2] BY <2>4, <2>5
  <2> QED BY <2>1, <2>2, <2>6
<1>13. place \in [Asked(secs) -> DOMAIN w] BY <1>11
<1> HIDE DEF place
<1> QED BY <1>3, <1>7, <1>11, <1>12, <1>13

\* The users that are there from the start are asked for by no section.
AskedInAll(n0, secs) == Asked(secs) \cup (IF n0 > 0 THEN {<<0, 0>>} ELSE {})
AskedCount(n0, secs, x) == IF x[2] = 0 THEN n0 ELSE secs[x[2]].count

\* The same with the users that start with the scenario.
LEMMA EntriesPlaced ==
  ASSUME NEW n0 \in Nat, NEW secs \in Seq(UserSection), NewUsersValid(secs)
  PROVE  /\ Entries(n0, secs) \in Seq(Entry)
         /\ \E place \in [AskedInAll(n0, secs) -> DOMAIN Entries(n0, secs)] :
              /\ \A x \in AskedInAll(n0, secs) :
                   Entries(n0, secs)[place[x]] = <<x[1], AskedCount(n0, secs, x)>>
              /\ \A x, y \in AskedInAll(n0, secs) : x # y => place[x] # place[y]
<1> DEFINE first == IF n0 > 0 THEN <<<<0, n0>>>> ELSE <<>>
           rest == SectionEntries(secs)
           w == Entries(n0, secs)
           d == IF n0 > 0 THEN 1 ELSE 0
<1>1. rest \in Seq(Entry) BY SectionEntriesPlaced
<1>2. PICK old \in [Asked(secs) -> DOMAIN rest] :
        /\ \A x \in Asked(secs) : rest[old[x]] = <<x[1], secs[x[2]].count>>
        /\ \A x, y \in Asked(secs) : x # y => old[x] # old[y]
  BY SectionEntriesPlaced
<1>3. w = first \o rest BY DEF Entries
<1>4. first \in Seq(Entry) /\ Len(first) = d /\ (n0 > 0 => first[1] = <<0, n0>>)
  <2>1. CASE n0 > 0
    <3>1. <<0, n0>> \in Entry BY <2>1 DEF Entry
    <3> QED BY <2>1, <3>1
  <2>2. CASE ~(n0 > 0) BY <2>2
  <2> QED BY <2>1, <2>2
<1> HIDE DEF first, rest, w
<1>5. /\ w \in Seq(Entry) /\ Len(w) = d + Len(rest)
      /\ \A x \in 1..(d + Len(rest)) : w[x] = IF x <= d THEN first[x] ELSE rest[x - d]
  <2> HIDE DEF d
  <2>1. /\ first \o rest \in Seq(Entry) /\ Len(first \o rest) = Len(first) + Len(rest)
        /\ \A x \in 1..(Len(first) + Len(rest)) :
             (first \o rest)[x] = IF x <= Len(first) THEN first[x] ELSE rest[x - Len(first)]
    BY <1>1, <1>4, ConcatProperties
  <2> QED BY <1>3, <1>4, <2>1, Zenon
<1>6. d \in Nat /\ Len(rest) \in Nat /\ DOMAIN rest = 1..Len(rest) /\ DOMAIN w = 1..(d + Len(rest))
  BY <1>1, <1>5
<1> DEFINE place == [x \in AskedInAll(n0, secs) |-> IF x \in Asked(secs) THEN d + old[x] ELSE 1]
<1>7. ASSUME NEW x \in Asked(secs)
      PROVE  x[2] # 0 /\ old[x] \in 1..Len(rest) /\ d + old[x] \in DOMAIN w /\ w[d + old[x]] = <<x[1], secs[x[2]].count>>
  <2>1. old[x] \in 1..Len(rest) BY <1>2, <1>6
  <2>2. d + old[x] \in 1..(d + Len(rest)) /\ ~(d + old[x] <= d) /\ (d + old[x]) - d = old[x]
    BY <1>6, <2>1
  <2>3. x[2] \in 1..Len(secs) BY DEF Asked
  <2> QED BY <1>2, <1>5, <1>6, <2>1, <2>2, <2>3
<1>8. ASSUME NEW x \in AskedInAll(n0, secs)
      PROVE  place[x] \in DOMAIN w /\ w[place[x]] = <<x[1], AskedCount(n0, secs, x)>>
  <2>1. CASE x \in Asked(secs)
    <3>1. place[x] = d + old[x] BY <2>1
    <3>2. AskedCount(n0, secs, x) = secs[x[2]].count BY <1>7, <2>1 DEF AskedCount
    <3> QED BY <1>7, <2>1, <3>1, <3>2
  <2>2. CASE x \notin Asked(secs)
    <3>1. n0 > 0 /\ x = <<0, 0>> BY <2>2 DEF AskedInAll
    <3>2. place[x] = 1 BY <2>2
    <3>3. 1 \in 1..(d + Len(rest)) /\ 1 <= d BY <1>6, <3>1
    <3>4. w[1] = <<0, n0>> BY <1>4, <1>5, <3>1, <3>3
    <3> QED BY <1>6, <3>1, <3>2, <3>3, <3>4 DEF AskedCount
  <2> QED BY <2>1, <2>2
<1>9. ASSUME NEW x \in AskedInAll(n0, secs), NEW y \in AskedInAll(n0, secs), x # y
      PROVE  place[x] # place[y]
  <2>1. ASSUME NEW u \in AskedInAll(n0, secs), u \notin Asked(secs), NEW v \in Asked(secs)
        PROVE  1 # d + old[v]
    <3>1. n0 > 0 BY <2>1 DEF AskedInAll
    <3>2. old[v] \in 1..Len(rest) BY <1>7
    <3> QED BY <1>6, <3>1, <3>2
  <2>2. CASE x \in Asked(secs) /\ y \in Asked(secs)
    <3>1. old[x] \in Int /\ old[y] \in Int /\ old[x] # old[y] BY <1>2, <1>6, <1>7, <1>9, <2>2
    <3> QED BY <1>6, <2>2, <3>1
  <2>3. CASE x \notin Asked(secs) /\ y \in Asked(secs) BY <2>1, <2>3
  <2>4. CASE x \in Asked(secs) /\ y \notin Asked(secs) BY <2>1, <2>4
  <2>5. CASE x \notin Asked(secs) /\ y \notin Asked(secs) BY <1>9, <2>5 DEF AskedInAll
  <2> QED BY <2>2, <2>3, <2>4, <2>5
<1>10. place \in [AskedInAll(n0, secs) -> DOMAIN w] BY <1>8
<1> HIDE DEF place
<1> QED BY <1>5, <1>8, <1>9, <1>10 DEF w

\* The entries of an epoch are all there, each at a place of its own.
Picked(place, entries, e) ==
  /\ place \in [{n \in DOMAIN entries : entries[n][1] = e} -> DOMAIN EntriesOf(entries, e)]
  /\ \A n \in DOMAIN place : EntriesOf(entries, e)[place[n]] = entries[n]
  /\ \A n, m \in DOMAIN place : n # m => place[n] # place[m]

\* The entries of an epoch are all there, each in a place of its own.
LEMMA EntriesOfPlaced ==
  ASSUME NEW entries \in Seq(Entry), NEW e
  PROVE  /\ EntriesOf(entries, e) \in Seq(Entry)
         /\ \E place : Picked(place, entries, e)
<1> DEFINE one(n) == IF entries[n][1] = e THEN <<entries[n]>> ELSE <<>>
           q == [n \in DOMAIN entries |-> one(n)]
           w == FlattenSeq(q)
           D == {n \in DOMAIN entries : entries[n][1] = e}
<1>0. DOMAIN entries = 1..Len(entries) /\ Len(entries) \in Nat OBVIOUS
<1>1. ASSUME NEW n \in DOMAIN entries PROVE one(n) \in Seq(Entry)
  <2>1. entries[n] \in Entry OBVIOUS
  <2>2. <<entries[n]>> \in Seq(Entry) /\ <<>> \in Seq(Entry) BY <2>1
  <2> QED BY <2>2
<1>2. q \in Seq(Seq(Entry))
  <2> HIDE DEF one
  <2>1. \A s \in 1..Len(entries) : q[s] \in Seq(Entry) BY <1>0, <1>1
  <2>2. q = [s \in 1..Len(entries) |-> q[s]] BY <1>0
  <2> HIDE DEF q
  <2> QED BY <1>0, <2>1, <2>2, FunctionIsList
<1>3. EntriesOf(entries, e) = w BY DEF EntriesOf
<1>4. ASSUME NEW n \in D PROVE n \in DOMAIN q /\ DOMAIN q[n] = 1..1 /\ q[n][1] = entries[n] /\ Len(q[n]) = 1
  OBVIOUS
<1>5. DOMAIN q = DOMAIN entries OBVIOUS
<1> HIDE DEF q, w
<1>6. w \in Seq(Entry) BY <1>2, FlattenLays DEF w
<1>7. PICK at \in [DOMAIN q -> Nat] : Laid(q, w, at, Len(q)) BY <1>2, FlattenLays DEF w
<1>8. DOMAIN q = 1..Len(q) /\ Len(q) \in Nat BY <1>2
<1> DEFINE place == [n \in D |-> at[n] + 1]
<1>9. ASSUME NEW n \in D PROVE place[n] \in DOMAIN w /\ w[place[n]] = entries[n]
  <2>1. 1 \in DOMAIN q[n] /\ n \in 1..Len(q) BY <1>4, <1>8
  <2>2. at[n] + 1 \in DOMAIN w /\ w[at[n] + 1] = q[n][1] BY <1>7, <2>1 DEF Laid
  <2> QED BY <1>4, <2>2
<1>10. ASSUME NEW n \in D, NEW m \in D, n < m PROVE place[n] # place[m]
  <2>1. at[n] + Len(q[n]) <= at[m] BY <1>4, <1>7, <1>8, <1>10 DEF Laid
  <2>2. at[n] \in Nat /\ at[m] \in Nat BY <1>4
  <2> QED BY <1>4, <2>1, <2>2
<1>11. ASSUME NEW n \in D, NEW m \in D, n # m PROVE place[n] # place[m]
  <2>1. n \in Nat /\ m \in Nat BY <1>0
  <2>2. n < m \/ m < n BY <1>11, <2>1
  <2> HIDE DEF place, D
  <2> QED BY <1>10, <2>2
<1>12. place \in [D -> DOMAIN w] BY <1>9
<1>13. DOMAIN place = D OBVIOUS
<1> HIDE DEF place, D
<1>14. Picked(place, entries, e) BY <1>3, <1>9, <1>11, <1>12, <1>13 DEF Picked, D
<1> QED BY <1>3, <1>6, <1>14

-----------------------------------------------------------------------------
(* Users as a set: those of place n in epoch a are the <<<<a, n>>, j>>     *)

Tagged(a, g, S) == All([n \in S |-> {<<a, n>>} \X (1..g[n])], S)
Double(g, S, A) == All([a \in A |-> Tagged(a, g[a], S[a])], A)

\* The elements of the sets that sums count.
LEMMA InTagged ==
  ASSUME NEW a, NEW g, NEW S, NEW z
  PROVE  z \in Tagged(a, g, S) <=> \E n \in S : \E j \in 1..g[n] : z = <<<<a, n>>, j>>
<1>1. z \in Tagged(a, g, S) <=> \E n \in S : z \in {<<a, n>>} \X (1..g[n]) BY DEF Tagged, All
<1>2. ASSUME NEW n \in S
      PROVE  z \in {<<a, n>>} \X (1..g[n]) <=> \E j \in 1..g[n] : z = <<<<a, n>>, j>>
  OBVIOUS
<1> QED BY <1>1, <1>2

\* The same for the sums of sums.
LEMMA InDouble ==
  ASSUME NEW g, NEW S, NEW A, NEW z
  PROVE  z \in Double(g, S, A) <=>
           \E a \in A : \E n \in S[a] : \E j \in 1..g[a][n] : z = <<<<a, n>>, j>>
<1>1. z \in Double(g, S, A) <=> \E a \in A : z \in Tagged(a, g[a], S[a]) BY DEF Double, All
<1> QED BY <1>1, InTagged

\* A sum of numbers counts tagged elements.
LEMMA TaggedSum ==
  ASSUME NEW a, NEW S, IsFiniteSet(S), NEW g, \A n \in S : g[n] \in Nat
  PROVE  /\ SumFunctionOnSet(g, S) = Cardinality(Tagged(a, g, S))
         /\ IsFiniteSet(Tagged(a, g, S))
<1> DEFINE t == [n \in S |-> {<<a, n>>} \X (1..g[n])]
<1>1. \A n \in S : IsFiniteSet(t[n]) /\ g[n] = Cardinality(t[n]) BY TaggedCount
<1>2. \A n, m \in S : n # m => t[n] \cap t[m] = {} OBVIOUS
<1>3. CountedBy(g, t, S) BY <1>1, <1>2 DEF CountedBy
<1> HIDE DEF t
<1>4. SumFunctionOnSet(g, S) = Cardinality(All(t, S)) /\ IsFiniteSet(All(t, S)) BY <1>3, SumCounts
<1> QED BY <1>4 DEF Tagged, t

\* A sum of sums does too.
LEMMA DoubleSum ==
  ASSUME NEW A, IsFiniteSet(A), NEW S, \A a \in A : IsFiniteSet(S[a]),
         NEW g, \A a \in A : \A n \in S[a] : g[a][n] \in Nat,
         NEW h, \A a \in A : h[a] = SumFunctionOnSet(g[a], S[a])
  PROVE  /\ SumFunctionOnSet(h, A) = Cardinality(Double(g, S, A))
         /\ IsFiniteSet(Double(g, S, A))
<1> DEFINE t == [a \in A |-> Tagged(a, g[a], S[a])]
<1>1. \A a \in A : IsFiniteSet(t[a]) /\ h[a] = Cardinality(t[a]) BY TaggedSum
<1>2. ASSUME NEW a \in A, NEW b \in A, a # b, NEW z \in t[a] \cap t[b] PROVE FALSE
  <2>1. z \in Tagged(a, g[a], S[a]) /\ z \in Tagged(b, g[b], S[b]) OBVIOUS
  <2>2. PICK n, j : z = <<<<a, n>>, j>> BY <2>1, InTagged
  <2>3. PICK m, l : z = <<<<b, m>>, l>> BY <2>1, InTagged
  <2> QED BY <1>2, <2>2, <2>3
<1>3. CountedBy(h, t, A) BY <1>1, <1>2 DEF CountedBy
<1> HIDE DEF t
<1>4. SumFunctionOnSet(h, A) = Cardinality(All(t, A)) /\ IsFiniteSet(All(t, A)) BY <1>3, SumCounts
<1> QED BY <1>4 DEF Double, t

\* convertEpochNewUsers maps epochs to lists of entries.
LEMMA ConvertTyped ==
  ASSUME NEW n0 \in Nat, NEW secs \in Seq(UserSection), NewUsersValid(secs)
  PROVE  /\ IsFiniteSet(DOMAIN ConvertNewUsers(n0, secs))
         /\ DOMAIN ConvertNewUsers(n0, secs) \subseteq Nat
         /\ \A a \in DOMAIN ConvertNewUsers(n0, secs) : ConvertNewUsers(n0, secs)[a] \in Seq(Entry)
<1> DEFINE w == Entries(n0, secs)
           D == {w[n][1] : n \in DOMAIN w}
<1>1. w \in Seq(Entry) BY EntriesPlaced
<1>2. ConvertNewUsers(n0, secs) = [e \in D |-> EntriesOf(w, e)] BY DEF ConvertNewUsers
<1> HIDE DEF w
<1>3. IsFiniteSet(DOMAIN w)
  <2>1. DOMAIN w = 1..Len(w) /\ Len(w) \in Int BY <1>1
  <2> QED BY <2>1, FS_Interval
<1>4. IsFiniteSet(D)
  <2> DEFINE h == [n \in DOMAIN w |-> w[n][1]]
  <2>1. h \in Surjection(DOMAIN w, D) BY DEF Surjection
  <2> QED BY <1>3, <2>1, FS_Surjection
<1>5. D \subseteq Nat
  <2>1. \A n \in DOMAIN w : w[n] \in Entry BY <1>1
  <2> QED BY <2>1 DEF Entry
<1>6. \A a \in D : EntriesOf(w, a) \in Seq(Entry) BY <1>1, EntriesOfPlaced
<1> HIDE DEF D
<1> QED BY <1>2, <1>4, <1>5, <1>6

CountsIn(f) == [a \in DOMAIN f |-> [n \in DOMAIN f[a] |-> f[a][n][2]]]
PlacesIn(f) == [a \in DOMAIN f |-> DOMAIN f[a]]
CreatedUsers(f, e) == Double(CountsIn(f), PlacesIn(f), {a \in DOMAIN f : a <= e})

\* Created users can be told apart, and counted.
LEMMA CreatedCounts ==
  ASSUME NEW f, IsFiniteSet(DOMAIN f), \A a \in DOMAIN f : f[a] \in Seq(Entry), NEW e
  PROVE  CreatedBy(f, e) = Cardinality(CreatedUsers(f, e)) /\ IsFiniteSet(CreatedUsers(f, e))
<1> DEFINE A == {a \in DOMAIN f : a <= e}
           g == CountsIn(f)
           S == PlacesIn(f)
           h == [a \in DOMAIN f |-> SumFunction([n \in DOMAIN f[a] |-> f[a][n][2]])]
<1>1. IsFiniteSet(A)
  <2>1. A \in SUBSET DOMAIN f OBVIOUS
  <2> QED BY <2>1, FS_Subset
<1>2. ASSUME NEW a \in A
      PROVE  /\ g[a] = [n \in DOMAIN f[a] |-> f[a][n][2]] /\ S[a] = DOMAIN f[a]
             /\ IsFiniteSet(S[a])
             /\ \A n \in S[a] : g[a][n] \in Nat
             /\ h[a] = SumFunctionOnSet(g[a], S[a])
  <2>1. g[a] = [n \in DOMAIN f[a] |-> f[a][n][2]] /\ S[a] = DOMAIN f[a] BY DEF CountsIn, PlacesIn
  <2>2. f[a] \in Seq(Entry) OBVIOUS
  <2>3. DOMAIN f[a] = 1..Len(f[a]) /\ Len(f[a]) \in Int BY <2>2
  <2>4. IsFiniteSet(1..Len(f[a])) BY <2>3, FS_Interval
  <2>5. \A n \in DOMAIN f[a] : f[a][n] \in Entry BY <2>2
  <2>6. \A n \in S[a] : g[a][n] \in Nat BY <2>1, <2>5 DEF Entry
  <2>7. DOMAIN [n \in DOMAIN f[a] |-> f[a][n][2]] = DOMAIN f[a] OBVIOUS
  <2>8. h[a] = SumFunctionOnSet(g[a], S[a]) BY <2>1, <2>7 DEF SumFunction
  <2> QED BY <2>1, <2>3, <2>4, <2>6, <2>8
<1>3. CreatedBy(f, e) = SumFunctionOnSet(h, A) BY DEF CreatedBy
<1>4. CreatedUsers(f, e) = Double(g, S, A) BY DEF CreatedUsers
<1> HIDE DEF A, g, S, h
<1>5. \A a \in A : IsFiniteSet(S[a]) BY <1>2
<1>6. \A a \in A : \A n \in S[a] : g[a][n] \in Nat BY <1>2
<1>7. \A a \in A : h[a] = SumFunctionOnSet(g[a], S[a]) BY <1>2
<1>8. SumFunctionOnSet(h, A) = Cardinality(Double(g, S, A)) /\ IsFiniteSet(Double(g, S, A))
  BY <1>1, <1>5, <1>6, <1>7, DoubleSum
<1> QED BY <1>3, <1>4, <1>8

\* The users that valid sections ask for by epoch e.
SectionCounts(secs) == [s \in DOMAIN secs |-> secs[s].count]
AskedUsers(secs, e) ==
  Double([a \in 0..e |-> SectionCounts(secs)],
         [a \in 0..e |-> {s \in DOMAIN secs : a \in EpochsOf(secs, s)}], 0..e)

\* Everybody who is asked for by an epoch is created by then.
LEMMA AskedAreCreated ==
  ASSUME NEW n0 \in Nat, NEW secs \in Seq(UserSection), NewUsersValid(secs), NEW e \in Nat
  PROVE  /\ IsFiniteSet(AskedUsers(secs, e))
         /\ n0 + Cardinality(AskedUsers(secs, e)) <= CreatedBy(ConvertNewUsers(n0, secs), e)
         /\ CreatedBy(ConvertNewUsers(n0, secs), e) \in Nat
<1> DEFINE f == ConvertNewUsers(n0, secs)
           w == Entries(n0, secs)
           U == AskedUsers(secs, e)
           B == {<<0, 0>>} \X (1..n0)
           C == CreatedUsers(f, e)
<1>1. CreatedBy(f, e) = Cardinality(C) /\ IsFiniteSet(C) BY ConvertTyped, CreatedCounts
<1>2. PICK p \in [AskedInAll(n0, secs) -> DOMAIN w] :
        /\ \A x \in AskedInAll(n0, secs) : w[p[x]] = <<x[1], AskedCount(n0, secs, x)>>
        /\ \A x, y \in AskedInAll(n0, secs) : x # y => p[x] # p[y]
  BY EntriesPlaced
<1>3. w \in Seq(Entry) BY EntriesPlaced
<1> DEFINE r(a) == CHOOSE x : Picked(x, w, a)
<1>4. ASSUME NEW a PROVE Picked(r(a), w, a)
  <2> HIDE DEF w
  <2>1. \E x : Picked(x, w, a) BY <1>3, EntriesOfPlaced
  <2> QED BY <2>1
<1>5. f = [a \in {w[n][1] : n \in DOMAIN w} |-> EntriesOf(w, a)] BY DEF ConvertNewUsers
<1> HIDE DEF r, w
<1> DEFINE V == {z \in (AskedInAll(n0, secs) \X Nat) : z[1][1] <= e /\ z[2] \in 1..AskedCount(n0, secs, z[1])}
           ix == [z \in V |-> <<<<z[1][1], r(z[1][1])[p[z[1]]]>>, z[2]>>]
<1>6. ASSUME NEW z \in V
      PROVE  LET a == z[1][1] IN
             /\ z[1] \in AskedInAll(n0, secs) /\ p[z[1]] \in DOMAIN r(a)
             /\ a \in DOMAIN f /\ a <= e
             /\ r(a)[p[z[1]]] \in DOMAIN f[a] /\ f[a][r(a)[p[z[1]]]] = <<a, AskedCount(n0, secs, z[1])>>
  <2> DEFINE a == z[1][1]
             x == z[1]
  <2>1. x \in AskedInAll(n0, secs) /\ a <= e OBVIOUS
  <2>2. p[x] \in DOMAIN w /\ w[p[x]] = <<a, AskedCount(n0, secs, x)>> BY <1>2, <2>1
  <2> HIDE DEF x, a
  <2>3. w[p[x]][1] = a BY <2>2
  <2>4. Picked(r(a), w, a) BY <1>4
  <2>5. p[x] \in DOMAIN r(a) BY <2>2, <2>3, <2>4 DEF Picked
  <2>6. r(a)[p[x]] \in DOMAIN EntriesOf(w, a) /\ EntriesOf(w, a)[r(a)[p[x]]] = w[p[x]]
    BY <2>4, <2>5 DEF Picked
  <2>7. a \in {w[n][1] : n \in DOMAIN w} BY <2>2, <2>3
  <2>8. a \in DOMAIN f /\ f[a] = EntriesOf(w, a) BY <1>5, <2>7
  <2> HIDE DEF f
  <2>9. /\ x \in AskedInAll(n0, secs) /\ p[x] \in DOMAIN r(a) /\ a \in DOMAIN f /\ a <= e
        /\ r(a)[p[x]] \in DOMAIN f[a] /\ f[a][r(a)[p[x]]] = <<a, AskedCount(n0, secs, x)>>
    BY <2>1, <2>2, <2>5, <2>6, <2>8
  <2> QED BY <2>9 DEF a, x
<1>7. ASSUME NEW z \in V PROVE ix[z] \in C
  <2> DEFINE a == z[1][1]
             n == r(a)[p[z[1]]]
  <2>1. /\ a \in DOMAIN f /\ a <= e /\ n \in DOMAIN f[a] /\ f[a][n] = <<a, AskedCount(n0, secs, z[1])>>
        /\ ix[z] = <<<<a, n>>, z[2]>> /\ z[2] \in 1..AskedCount(n0, secs, z[1])
    BY <1>6
  <2> HIDE DEF n, a, f, ix
  <2>2. CountsIn(f)[a][n] = AskedCount(n0, secs, z[1]) BY <2>1 DEF CountsIn
  <2>3. PlacesIn(f)[a] = DOMAIN f[a] BY <2>1 DEF PlacesIn
  <2>4. a \in {b \in DOMAIN f : b <= e} BY <2>1
  <2>5. ix[z] \in Double(CountsIn(f), PlacesIn(f), {b \in DOMAIN f : b <= e})
    BY <2>1, <2>2, <2>3, <2>4, InDouble
  <2> QED BY <2>5 DEF CreatedUsers
<1>8. ASSUME NEW y \in V, NEW z \in V, ix[y] = ix[z] PROVE y = z
  <2> DEFINE a == z[1][1]
  <2>1. y[1][1] = a /\ y[2] = z[2] /\ r(a)[p[y[1]]] = r(a)[p[z[1]]] BY <1>8
  <2>2. /\ p[y[1]] \in DOMAIN r(a) /\ p[z[1]] \in DOMAIN r(a)
        /\ y[1] \in AskedInAll(n0, secs) /\ z[1] \in AskedInAll(n0, secs)
    BY <1>6, <2>1
  <2>3. p[y[1]] = p[z[1]] BY <1>4, <2>1, <2>2 DEF Picked
  <2>4. y[1] = z[1] BY <1>2, <2>2, <2>3
  <2> QED BY <2>1, <2>4
<1>9. ix \in Injection(V, C)
  <2>1. ix \in [V -> C] BY <1>7
  <2>2. IsInjective(ix) BY <1>8 DEF IsInjective
  <2> QED BY <2>1, <2>2 DEF Injection
<1>10. IsFiniteSet(V) /\ Cardinality(V) <= Cardinality(C) BY <1>1, <1>9, FS_Injection
<1>11. ASSUME NEW z PROVE z \in V <=> z \in U \cup B
  <2>1. z \in U <=> \E a \in 0..e : \E s \in {s \in DOMAIN secs : a \in EpochsOf(secs, s)} :
                      \E j \in 1..secs[s].count : z = <<<<a, s>>, j>>
    <3> DEFINE g == [a \in 0..e |-> SectionCounts(secs)]
               S == [a \in 0..e |-> {s \in DOMAIN secs : a \in EpochsOf(secs, s)}]
    <3>0. U = Double(g, S, 0..e) BY Zenon DEF AskedUsers
    <3>2. \A a \in 0..e : S[a] = {s \in DOMAIN secs : a \in EpochsOf(secs, s)} OBVIOUS
    <3>3. \A a \in 0..e : \A s \in DOMAIN secs : g[a][s] = secs[s].count BY DEF SectionCounts
    <3> HIDE DEF g, S, U
    <3>1. z \in U <=> \E a \in 0..e : \E s \in S[a] : \E j \in 1..g[a][s] : z = <<<<a, s>>, j>>
      BY <3>0, InDouble
    <3> QED BY <3>1, <3>2, <3>3
  <2> HIDE DEF U
  <2>2. ASSUME z \in U PROVE z \in V
    <3>0. PICK a \in 0..e, s \in DOMAIN secs :
            a \in EpochsOf(secs, s) /\ \E j \in 1..secs[s].count : z = <<<<a, s>>, j>>
      BY <2>1, <2>2
    <3>1. PICK j \in 1..secs[s].count : z = <<<<a, s>>, j>> BY <3>0
    <3>2. <<a, s>> \in AskedInAll(n0, secs) BY <3>0 DEF AskedInAll, Asked
    <3>3. s # 0 /\ AskedCount(n0, secs, <<a, s>>) = secs[s].count BY DEF AskedCount
    <3>4. j \in Nat BY SectionValid
    <3>5. z \in AskedInAll(n0, secs) \X Nat BY <3>1, <3>2, <3>4
    <3>6. z[1] = <<a, s>> /\ z[1][1] = a /\ z[2] = j BY <3>1
    <3>7. z[1][1] <= e /\ z[2] \in 1..AskedCount(n0, secs, z[1]) BY <3>3, <3>6
    <3> QED BY <3>5, <3>7
  <2>3. ASSUME z \in B PROVE z \in V
    <3>1. PICK j \in 1..n0 : z = <<<<0, 0>>, j>> BY <2>3
    <3>2. n0 > 0 /\ <<0, 0>> \in AskedInAll(n0, secs) BY <3>1 DEF AskedInAll
    <3>3. AskedCount(n0, secs, <<0, 0>>) = n0 BY DEF AskedCount
    <3> QED BY <3>1, <3>2, <3>3
  <2>4. ASSUME z \in V PROVE z \in U \cup B
    <3>1. PICK x \in AskedInAll(n0, secs), j \in Nat :
            z = <<x, j>> /\ x[1] <= e /\ j \in 1..AskedCount(n0, secs, x)
      BY <2>4
    <3>2. CASE x \in Asked(secs)
      <4>1. PICK a \in Nat, s \in DOMAIN secs : x = <<a, s>> /\ a \in EpochsOf(secs, s)
        BY <3>2 DEF Asked
      <4>2. a \in 0..e BY <3>1, <4>1
      <4>3. s # 0 /\ AskedCount(n0, secs, x) = secs[s].count BY <4>1 DEF AskedCount
      <4> QED BY <2>1, <3>1, <4>1, <4>2, <4>3
    <3>3. CASE x \notin Asked(secs)
      <4>1. x = <<0, 0>> BY <3>3 DEF AskedInAll
      <4>2. AskedCount(n0, secs, x) = n0 BY <4>1 DEF AskedCount
      <4> QED BY <3>1, <4>1, <4>2
    <3> QED BY <3>2, <3>3
  <2> QED BY <2>2, <2>3, <2>4
<1>12. U \cap B = {}
  <2>1. ASSUME NEW z \in U \cap B PROVE FALSE
    <3> DEFINE g == [a \in 0..e |-> SectionCounts(secs)]
               S == [a \in 0..e |-> {s \in DOMAIN secs : a \in EpochsOf(secs, s)}]
    <3>1. PICK a \in 0..e : \E s \in S[a] : \E j \in 1..g[a][s] : z = <<<<a, s>>, j>>
      BY InDouble DEF AskedUsers
    <3>2. PICK s \in DOMAIN secs : \E j : z = <<<<a, s>>, j>> BY <3>1
    <3>3. s # 0 OBVIOUS
    <3> QED BY <3>2, <3>3
  <2> QED BY <2>1
<1> HIDE DEF V, U, B, C, f
<1>13. U \in SUBSET V /\ V = U \cup B BY <1>11
<1>14. IsFiniteSet(U) /\ Cardinality(U) \in Nat BY <1>10, <1>13, FS_Subset, FS_CardinalityType
<1>15. IsFiniteSet(B) /\ Cardinality(B) = n0 BY TaggedCount DEF B
<1>16. Cardinality(U \cup B) = Cardinality(U) + Cardinality(B) - Cardinality(U \cap B)
  BY <1>14, <1>15, FS_Union
<1>17. Cardinality(V) = Cardinality(U) + n0
  <2>1. Cardinality(U \cap B) = 0 BY <1>12, FS_EmptySet
  <2> QED BY <1>13, <1>14, <1>15, <1>16, <2>1
<1>18. Cardinality(C) \in Nat BY <1>1, FS_CardinalityType
<1>19. n0 + Cardinality(U) <= CreatedBy(f, e) /\ CreatedBy(f, e) \in Nat
  BY <1>1, <1>10, <1>14, <1>17, <1>18
<1> QED BY <1>14, <1>19 DEF f, U

-----------------------------------------------------------------------------
(* buildEpochUserCounts counts no user that is not created                 *)

\* A finite set of numbers that is not empty has a greatest one.
LEMMA FiniteMax ==
  ASSUME NEW X \in SUBSET Nat, IsFiniteSet(X), X # {}
  PROVE  \E m \in X : \A o \in X : o <= m
<1> DEFINE Bad(Y) == Y \in SUBSET Nat /\ IsFiniteSet(Y) /\ Y # {} /\ ~\E m \in Y : \A o \in Y : o <= m
           D == {n \in Nat : \E Y : Bad(Y) /\ Cardinality(Y) = n}
<1>1. ASSUME D # {} PROVE FALSE
  <2> HIDE DEF Bad
  <2>1. PICK n \in D : \A o \in D : n <= o BY <1>1, LeastNumber
  <2>2. PICK Y : Bad(Y) /\ Cardinality(Y) = n BY <2>1
  <2>3. Y \in SUBSET Nat /\ IsFiniteSet(Y) /\ Y # {} /\ ~\E m \in Y : \A o \in Y : o <= m
    BY <2>2 DEF Bad
  <2>4. PICK x \in Y : TRUE BY <2>3
  <2> DEFINE Z == Y \ {x}
  <2>5. IsFiniteSet(Z) /\ Cardinality(Z) = n - 1 /\ Z \in SUBSET Nat
    BY <2>2, <2>3, <2>4, FS_RemoveElement
  <2>6. n - 1 \in Nat BY <2>5, FS_CardinalityType
  <2>7. n - 1 \notin D BY <2>1, <2>6
  <2>8. ~Bad(Z) BY <2>5, <2>6, <2>7
  <2>9. CASE Z = {}
    <3>1. \A o \in Y : o = x BY <2>9
    <3> QED BY <2>3, <2>4, <3>1
  <2>10. CASE Z # {}
    <3>1. PICK m \in Z : \A o \in Z : o <= m BY <2>5, <2>8, <2>10 DEF Bad
    <3>2. m \in Nat /\ x \in Nat BY <2>3, <2>4
    <3>3. CASE x <= m
      <4>1. \A o \in Y : o <= m BY <3>1, <3>3
      <4> QED BY <2>3, <4>1
    <3>4. CASE ~(x <= m)
      <4>1. \A o \in Y : o <= x BY <2>3, <3>1, <3>2, <3>4
      <4> QED BY <2>3, <2>4, <4>1
    <3> QED BY <3>3, <3>4
  <2> QED BY <2>9, <2>10
<1>2. Cardinality(X) \in Nat BY FS_CardinalityType
<1>3. ~Bad(X) BY <1>1, <1>2
<1> QED BY <1>3

ValidSections ==
  sc \in Written /\ sc.users > 0 /\ NewUsersValid(sc.newUsers) /\ NewUsersValid(sc.afterFlips)

\* What the validation of the sections says of their types.
LEMMA SectionsValid ==
  ASSUME ValidSections
  PROVE  /\ sc.newUsers \in Seq(UserSection) /\ sc.afterFlips \in Seq(UserSection)
         /\ sc.users \in Nat
         /\ Sections \in Seq(UserSection)
         /\ DOMAIN Sections = 1..(Len(sc.newUsers) + Len(sc.afterFlips))
         /\ \A s \in DOMAIN Sections :
              IF s <= Len(sc.newUsers)
              THEN s \in DOMAIN sc.newUsers /\ Sections[s] = sc.newUsers[s]
              ELSE s - Len(sc.newUsers) \in DOMAIN sc.afterFlips
                   /\ Sections[s] = sc.afterFlips[s - Len(sc.newUsers)]
         /\ \A s \in DOMAIN Sections : /\ Sections[s].count \in Nat \ {0}
                                       /\ Nums(Sections[s].epochs) \in Seq(Nat)
<1> DEFINE a == sc.newUsers
           b == sc.afterFlips
<1>1. a \in Seq(UserSection) /\ b \in Seq(UserSection) /\ sc.users \in Nat
  BY DEF ValidSections, Written
<1>2. NewUsersValid(a) /\ NewUsersValid(b) /\ Sections = a \o b BY DEF ValidSections, Sections
<1> HIDE DEF a, b
<1>3. /\ Sections \in Seq(UserSection) /\ Len(Sections) = Len(a) + Len(b)
      /\ \A s \in 1..(Len(a) + Len(b)) : Sections[s] = IF s <= Len(a) THEN a[s] ELSE b[s - Len(a)]
  BY <1>1, <1>2, ConcatProperties, Zenon
<1>4. DOMAIN Sections = 1..(Len(a) + Len(b)) BY <1>3
<1>5. Len(a) \in Nat /\ Len(b) \in Nat /\ DOMAIN a = 1..Len(a) /\ DOMAIN b = 1..Len(b) BY <1>1
<1>6. ASSUME NEW s \in DOMAIN Sections
      PROVE  IF s <= Len(a) THEN s \in DOMAIN a /\ Sections[s] = a[s]
             ELSE s - Len(a) \in DOMAIN b /\ Sections[s] = b[s - Len(a)]
  BY <1>3, <1>4, <1>5
<1>7. ASSUME NEW s \in DOMAIN Sections
      PROVE  Sections[s].count \in Nat \ {0} /\ Nums(Sections[s].epochs) \in Seq(Nat)
  BY <1>1, <1>2, <1>6, SectionValid
<1> QED BY <1>1, <1>3, <1>4, <1>6, <1>7 DEF a, b

\* Lists are finite.
LEMMA ListFinite == ASSUME NEW T, NEW secs \in Seq(T) PROVE IsFiniteSet(DOMAIN secs)
<1>1. DOMAIN secs = 1..Len(secs) /\ Len(secs) \in Int OBVIOUS
<1>2. \A n \in Int : IsFiniteSet(1..n) BY FS_Interval
<1> QED BY <1>1, <1>2

\* There is a last epoch.
LEMMA LastEpochTyped == ASSUME ValidSections PROVE LastEpoch \in Nat
<1> DEFINE t == [s \in DOMAIN Sections |-> SectionEpochs(s)]
           X == {0} \cup UNION {SectionEpochs(s) : s \in DOMAIN Sections}
<1>1. ASSUME NEW s \in DOMAIN Sections PROVE IsFiniteSet(t[s]) /\ t[s] \subseteq Nat
  <2> DEFINE nums == Nums(Sections[s].epochs)
             h == [n \in DOMAIN nums |-> nums[n]]
  <2>1. nums \in Seq(Nat) /\ t[s] = {nums[n] : n \in DOMAIN nums}
    BY SectionsValid DEF SectionEpochs, ToSet
  <2> HIDE DEF nums, t
  <2>2. DOMAIN nums = 1..Len(nums) /\ Len(nums) \in Int BY <2>1
  <2>3. IsFiniteSet(DOMAIN nums) BY <2>2, FS_Interval
  <2>4. h \in Surjection(DOMAIN nums, t[s]) BY <2>1 DEF Surjection
  <2>5. IsFiniteSet(t[s]) BY <2>3, <2>4, FS_Surjection
  <2> QED BY <2>1, <2>5
<1>2. IsFiniteSet(DOMAIN Sections) BY SectionsValid, ListFinite
<1>3. IsFiniteSet(All(t, DOMAIN Sections)) BY <1>1, <1>2, AllFinite
<1>4. X = All(t, DOMAIN Sections) \cup {0} BY DEF All
<1>5. IsFiniteSet(X) BY <1>3, <1>4, FS_AddElement
<1>6. X \in SUBSET Nat /\ X # {} BY <1>1
<1> HIDE DEF X
<1>7. \E m \in X : \A o \in X : o <= m BY <1>5, <1>6, FiniteMax
<1>8. \E m \in X : \A o \in X : m >= o BY <1>6, <1>7
<1>9. Max(X) \in X BY <1>8 DEF Max
<1> QED BY <1>6, <1>9 DEF LastEpoch, X

\* Every user that the validation counts for an epoch is created by then.
LEMMA CountedAreCreated ==
  ASSUME ValidSections, NEW e \in Nat
  PROVE  /\ UsersIn(e) \in Nat
         /\ UsersIn(e) <= CreatedBy(ConvertNewUsers(sc.users, sc.newUsers), e)
                          + CreatedBy(ConvertNewUsers(0, sc.afterFlips), e)
<1> DEFINE m == Min({e, LastEpoch})
           A == 0..m
           counts == [s \in DOMAIN Sections |-> Sections[s].count]
           g == [a \in A |-> counts]
           S == [a \in A |-> {s \in DOMAIN Sections : a \in SectionEpochs(s)}]
           h == [a \in A |-> Added(a)]
           W == Double(g, S, A)
           n1 == Len(sc.newUsers)
           U1 == AskedUsers(sc.newUsers, e)
           U2 == AskedUsers(sc.afterFlips, e)
<1>0. n1 \in Nat /\ sc.users \in Nat BY SectionsValid
<1>1. m \in Nat /\ m <= e
  <2>1. LastEpoch \in Nat BY LastEpochTyped
  <2>2. \E x \in {e, LastEpoch} : \A y \in {e, LastEpoch} : x =< y BY <2>1
  <2>3. m \in {e, LastEpoch} /\ \A y \in {e, LastEpoch} : m =< y BY <2>2 DEF Min
  <2> QED BY <2>1, <2>3
<1> HIDE DEF m
<1>2. IsFiniteSet(A) BY <1>1, FS_Interval
<1>3. ASSUME NEW a \in A
      PROVE  /\ IsFiniteSet(S[a])
             /\ \A s \in S[a] : g[a][s] \in Nat
             /\ h[a] = SumFunctionOnSet(g[a], S[a])
  <2>1. IsFiniteSet(DOMAIN Sections) BY SectionsValid, ListFinite
  <2>2. S[a] \in SUBSET DOMAIN Sections OBVIOUS
  <2>3. IsFiniteSet(S[a]) BY <2>1, <2>2, FS_Subset
  <2>4. \A s \in S[a] : g[a][s] \in Nat BY <2>2, SectionsValid
  <2>5. h[a] = SumFunctionOnSet(g[a], S[a]) BY DEF Added
  <2> QED BY <2>3, <2>4, <2>5
<1>4. UsersIn(e) = sc.users + SumFunctionOnSet(h, A)
  <2>1. DOMAIN h = A OBVIOUS
  <2> HIDE DEF A
  <2> QED BY <2>1 DEF UsersIn, SumFunction, A, m
<1>5. SumFunctionOnSet(h, A) = Cardinality(W) /\ IsFiniteSet(W)
  <2> HIDE DEF h, A, S, g
  <2>1. \A a \in A : IsFiniteSet(S[a]) BY <1>3
  <2>2. \A a \in A : \A s \in S[a] : g[a][s] \in Nat BY <1>3
  <2>3. \A a \in A : h[a] = SumFunctionOnSet(g[a], S[a]) BY <1>3
  <2> QED BY <1>2, <2>1, <2>2, <2>3, DoubleSum
<1>6. ASSUME NEW z \in W
      PROVE  \E a \in 0..e, s \in DOMAIN Sections, j \in Nat :
               z = <<<<a, s>>, j>> /\ a \in SectionEpochs(s) /\ j \in 1..Sections[s].count
  <2>1. PICK a \in A : \E s \in S[a] : \E j \in 1..g[a][s] : z = <<<<a, s>>, j>>
    <3> HIDE DEF S, g, A
    <3> QED BY InDouble
  <2>2. PICK s \in S[a] : \E j \in 1..g[a][s] : z = <<<<a, s>>, j>> BY <2>1
  <2>3. s \in DOMAIN Sections /\ a \in SectionEpochs(s) /\ g[a][s] = Sections[s].count OBVIOUS
  <2>4. PICK j \in 1..Sections[s].count : z = <<<<a, s>>, j>> BY <2>2, <2>3
  <2>5. j \in Nat BY <2>3, SectionsValid
  <2>6. a \in 0..e BY <1>1
  <2> QED BY <2>3, <2>4, <2>5, <2>6
<1> HIDE DEF W
<1>7. ASSUME NEW secs, NEW a \in 0..e, NEW s \in DOMAIN secs, a \in EpochsOf(secs, s), NEW j \in 1..secs[s].count
      PROVE  <<<<a, s>>, j>> \in AskedUsers(secs, e)
  <2> DEFINE gg == [b \in 0..e |-> SectionCounts(secs)]
             SS == [b \in 0..e |-> {v \in DOMAIN secs : b \in EpochsOf(secs, v)}]
  <2>1. s \in SS[a] /\ gg[a][s] = secs[s].count BY <1>7 DEF SectionCounts
  <2>2. AskedUsers(secs, e) = Double(gg, SS, 0..e) BY DEF AskedUsers
  <2> HIDE DEF gg, SS
  <2> QED BY <2>1, <2>2, InDouble
<1> DEFINE W1 == {z \in W : z[1][2] <= n1}
           W2 == W \ W1
           ix == [z \in W2 |-> <<<<z[1][1], z[1][2] - n1>>, z[2]>>]
<1>8. W1 \subseteq U1
  <2> SUFFICES ASSUME NEW z \in W1 PROVE z \in U1 OBVIOUS
  <2>1. PICK a \in 0..e, s \in DOMAIN Sections, j \in Nat :
          z = <<<<a, s>>, j>> /\ a \in SectionEpochs(s) /\ j \in 1..Sections[s].count
    BY <1>6
  <2>2. s <= n1 BY <2>1
  <2>3. s \in DOMAIN sc.newUsers /\ Sections[s] = sc.newUsers[s] BY <2>2, SectionsValid
  <2>4. a \in EpochsOf(sc.newUsers, s) BY <2>1, <2>3 DEF EpochsOf, SectionEpochs
  <2> QED BY <1>7, <2>1, <2>3, <2>4
<1>9. ASSUME NEW z \in W2 PROVE ix[z] \in U2
  <2>1. PICK a \in 0..e, s \in DOMAIN Sections, j \in Nat :
          z = <<<<a, s>>, j>> /\ a \in SectionEpochs(s) /\ j \in 1..Sections[s].count
    BY <1>6
  <2>2. ~(s <= n1) BY <2>1
  <2>3. s - n1 \in DOMAIN sc.afterFlips /\ Sections[s] = sc.afterFlips[s - n1]
    BY <2>2, SectionsValid
  <2>4. a \in EpochsOf(sc.afterFlips, s - n1) BY <2>1, <2>3 DEF EpochsOf, SectionEpochs
  <2>5. ix[z] = <<<<a, s - n1>>, j>> BY <2>1
  <2> QED BY <1>7, <2>1, <2>3, <2>4, <2>5
<1>10. ASSUME NEW y \in W2, NEW z \in W2, ix[y] = ix[z] PROVE y = z
  <2>1. PICK a \in 0..e, s \in DOMAIN Sections, j \in Nat : z = <<<<a, s>>, j>> BY <1>6
  <2>2. PICK b \in 0..e, v \in DOMAIN Sections, l \in Nat : y = <<<<b, v>>, l>> BY <1>6
  <2>3. ix[z] = <<<<a, s - n1>>, j>> /\ ix[y] = <<<<b, v - n1>>, l>> BY <2>1, <2>2
  <2>4. a = b /\ s - n1 = v - n1 /\ j = l BY <1>10, <2>3
  <2>5. s \in Nat /\ v \in Nat
    <3>1. \A x \in DOMAIN Sections : x \in Nat BY SectionsValid
    <3> QED BY <3>1
  <2> QED BY <1>0, <2>1, <2>2, <2>4, <2>5
<1>11. ix \in Injection(W2, U2)
  <2>1. ix \in [W2 -> U2] BY <1>9
  <2>2. IsInjective(ix) BY <1>10 DEF IsInjective
  <2> QED BY <2>1, <2>2 DEF Injection
<1> HIDE DEF ix, W1, W2, U1, U2
<1>12. /\ IsFiniteSet(U1) /\ sc.users + Cardinality(U1) <= CreatedBy(ConvertNewUsers(sc.users, sc.newUsers), e)
       /\ CreatedBy(ConvertNewUsers(sc.users, sc.newUsers), e) \in Nat
  BY SectionsValid, AskedAreCreated DEF ValidSections, U1
<1>13. /\ IsFiniteSet(U2) /\ 0 + Cardinality(U2) <= CreatedBy(ConvertNewUsers(0, sc.afterFlips), e)
       /\ CreatedBy(ConvertNewUsers(0, sc.afterFlips), e) \in Nat
  BY SectionsValid, AskedAreCreated DEF ValidSections, U2
<1>14. Cardinality(W2) <= Cardinality(U2) BY <1>11, <1>13, FS_Injection
<1>15. Cardinality(W1) <= Cardinality(U1) BY <1>8, <1>12, FS_Subset
<1>16. W1 \in SUBSET W /\ W2 = W \ W1 /\ W \cap W1 = W1 BY DEF W1, W2
<1>17. Cardinality(W2) = Cardinality(W) - Cardinality(W1)
  <2>1. Cardinality(W \ W1) = Cardinality(W) - Cardinality(W \cap W1) BY <1>5, FS_Difference
  <2> QED BY <1>16, <2>1
<1>18. Cardinality(W) \in Nat /\ Cardinality(W1) \in Nat /\ Cardinality(U1) \in Nat /\ Cardinality(U2) \in Nat
  <2>1. IsFiniteSet(W1) BY <1>5, <1>16, FS_Subset
  <2> QED BY <1>5, <1>12, <1>13, <2>1, FS_CardinalityType
<1> HIDE DEF A, h
<1>19. UsersIn(e) = sc.users + Cardinality(W) BY <1>4, <1>5
<1> QED BY <1>0, <1>12, <1>13, <1>14, <1>15, <1>17, <1>18, <1>19

-----------------------------------------------------------------------------
(* Ceremonies: who is listed twice is rejected                             *)

CeremonyOK(c) ==
  /\ Parses(sc.ceremonies[c].epochs)
  /\ Nums(sc.ceremonies[c].epochs) # <<>>
  /\ UsersValid(c, UsersIn(Last(Nums(sc.ceremonies[c].epochs))))

\* The texts of a ceremony.
LEMMA CeremonyTyped ==
  ASSUME sc \in Written, NEW c \in DOMAIN sc.ceremonies
  PROVE  /\ sc.ceremonies[c].epochs \in Text
         /\ UserTexts(c) \in Seq(Text)
         /\ DOMAIN sc.ceremonies = 1..Len(sc.ceremonies) /\ Len(sc.ceremonies) \in Nat
<1> DEFINE C == [epochs : Text, users : Seq(Text)]
           secs == sc.ceremonies
<1>0. c \in DOMAIN secs OBVIOUS
<1>1. secs \in Seq(C) BY DEF Written
<1>2. secs[c].epochs \in Text /\ secs[c].users \in Seq(Text)
  <2> HIDE DEF secs, C
  <2>1. secs[c] \in C BY <1>0, <1>1
  <2> QED BY <2>1 DEF C
<1>3. DOMAIN secs = 1..Len(secs) /\ Len(secs) \in Nat
  <2> HIDE DEF secs, C
  <2> QED BY <1>1
<1> QED BY <1>2, <1>3 DEF UserTexts

\* The users of an accepted ceremony are numbers.
LEMMA CeremonyUsersTyped ==
  ASSUME sc \in Written, NEW c \in DOMAIN sc.ceremonies, CeremonyOK(c)
  PROVE  CeremonyUsers(c) \in Seq(Nat)
<1> DEFINE q == [l \in DOMAIN UserTexts(c) |-> Nums(UserTexts(c)[l])]
<1>0. UserTexts(c) \in Seq(Text) BY CeremonyTyped
<1>1. DOMAIN UserTexts(c) = 1..Len(UserTexts(c)) /\ Len(UserTexts(c)) \in Nat BY <1>0
<1>2. \A l \in DOMAIN UserTexts(c) : Parses(UserTexts(c)[l]) BY DEF CeremonyOK, UsersValid
<1>3. \A l \in 1..Len(UserTexts(c)) : q[l] \in Seq(Nat) BY <1>0, <1>1, <1>2, NumsTyped
<1>4. q = [l \in 1..Len(UserTexts(c)) |-> q[l]] BY <1>1
<1>5. CeremonyUsers(c) = FlattenSeq(q) BY DEF CeremonyUsers
<1> HIDE DEF q
<1>6. q \in Seq(Seq(Nat)) BY <1>1, <1>3, <1>4, FunctionIsList
<1> QED BY <1>5, <1>6, FlattenLays

\* What a user gets is the only place of the ceremony that names it.
LEMMA UsersListedOnce ==
  ASSUME sc \in Written, NEW c \in DOMAIN sc.ceremonies, CeremonyOK(c),
         NEW ix \in DOMAIN UserTexts(c), NEW u \in ToSet(Nums(UserTexts(c)[ix]))
  PROVE  u \in ToSet(CeremonyUsers(c)) /\ UserCeremonies(c)[u] = <<c, ix>>
<1> DEFINE q == [l \in DOMAIN UserTexts(c) |-> Nums(UserTexts(c)[l])]
           w == CeremonyUsers(c)
<1>0. UserTexts(c) \in Seq(Text) BY CeremonyTyped
<1>1. DOMAIN UserTexts(c) = 1..Len(UserTexts(c)) /\ Len(UserTexts(c)) \in Nat BY <1>0
<1>2. \A l \in DOMAIN UserTexts(c) : Parses(UserTexts(c)[l]) BY DEF CeremonyOK, UsersValid
<1>3. \A l \in 1..Len(UserTexts(c)) : q[l] \in Seq(Nat) BY <1>0, <1>1, <1>2, NumsTyped
<1>4. q = [l \in 1..Len(UserTexts(c)) |-> q[l]] BY <1>1
<1>5. w = FlattenSeq(q) BY DEF CeremonyUsers
<1>6. \A l \in DOMAIN UserTexts(c) : q[l] = Nums(UserTexts(c)[l]) OBVIOUS
<1>7. DOMAIN q = DOMAIN UserTexts(c) OBVIOUS
<1> HIDE DEF q, w
<1>8. q \in Seq(Seq(Nat)) BY <1>1, <1>3, <1>4, FunctionIsList
<1>9. PICK at \in [DOMAIN q -> Nat] : Laid(q, w, at, Len(q)) BY <1>5, <1>8, FlattenLays
<1>10. DOMAIN q = 1..Len(q) BY <1>8
<1>11. IsInjective(w) BY DEF CeremonyOK, UsersValid, w
<1>12. ASSUME NEW l \in DOMAIN q, NEW b \in DOMAIN q[l]
       PROVE  at[l] + b \in DOMAIN w /\ w[at[l] + b] = q[l][b] /\ at[l] \in Nat /\ b \in 1..Len(q[l]) /\ Len(q[l]) \in Nat
  <2>1. at[l] + b \in DOMAIN w /\ w[at[l] + b] = q[l][b] BY <1>9, <1>10 DEF Laid
  <2>2. q[l] \in Seq(Nat) BY <1>8
  <2> QED BY <2>1, <2>2
<1>13. ASSUME NEW l \in DOMAIN q, NEW o \in DOMAIN q, l < o,
              NEW b \in DOMAIN q[l], NEW d \in DOMAIN q[o]
       PROVE  q[l][b] # q[o][d]
  <2>1. at[l] + Len(q[l]) <= at[o] BY <1>9, <1>10, <1>13 DEF Laid
  <2>2. at[l] + b < at[o] + d BY <1>12, <2>1
  <2>3. at[l] + b # at[o] + d BY <1>12, <2>2
  <2> QED BY <1>11, <1>12, <2>3 DEF IsInjective
<1>14. PICK a \in DOMAIN q[ix] : q[ix][a] = u BY <1>6 DEF ToSet
<1>15. u \in ToSet(w) BY <1>7, <1>12, <1>14 DEF ToSet
<1>16. ASSUME NEW l \in DOMAIN UserTexts(c), u \in ToSet(Nums(UserTexts(c)[l])) PROVE l = ix
  <2>1. PICK b \in DOMAIN q[l] : q[l][b] = u BY <1>6, <1>16 DEF ToSet
  <2>2. ~(l < ix) /\ ~(ix < l) BY <1>7, <1>13, <1>14, <2>1
  <2> QED BY <1>1, <2>2
<1>17. {l \in DOMAIN UserTexts(c) : u \in ToSet(Nums(UserTexts(c)[l]))} = {ix} BY <1>16
<1>18. Max({ix}) = ix
  <2>1. ix >= ix BY <1>1
  <2>2. \E x \in {ix} : \A y \in {ix} : x >= y BY <2>1
  <2> QED BY <2>2 DEF Max
<1> QED BY <1>15, <1>17, <1>18 DEF UserCeremonies, w

-----------------------------------------------------------------------------
(* Sorting after every insertion                                           *)

\* Sorted by delay, and at equal delays by place.
InOrder(s) ==
  \A a, b \in DOMAIN s : a < b =>
    \/ s[a].delay < s[b].delay
    \/ s[a].delay = s[b].delay /\ s[a].at < s[b].at

Rank(s, a) == Cardinality({b \in DOMAIN s : \/ s[b].delay < s[a].delay
                                            \/ s[b].delay = s[a].delay /\ b <= a})

\* sort.SliceStable puts the element of rank ix in place ix.
LEMMA RankSorts ==
  ASSUME NEW s, \A ix \in DOMAIN s : \E a \in DOMAIN s : Rank(s, a) = ix
  PROVE  /\ Sorted(s) = [ix \in DOMAIN s |-> Sorted(s)[ix]]
         /\ \A ix \in DOMAIN s : \E a \in DOMAIN s : Rank(s, a) = ix /\ Sorted(s)[ix] = s[a]
<1>1. Sorted(s) = [ix \in DOMAIN s |-> s[CHOOSE a \in DOMAIN s : Rank(s, a) = ix]]
  BY DEF Sorted, Rank
<1> QED BY <1>1

\* There are n numbers up to n.
LEMMA UpTo == ASSUME NEW n \in Nat PROVE IsFiniteSet(1..n) /\ Cardinality(1..n) = n
BY FS_Interval

\* A switch that is appended to a sorted list and sorted with it goes behind
\* those of its delay, and the list stays in order.
LEMMA SortInserts ==
  ASSUME NEW T, NEW s \in Seq(T), NEW x \in T, \A y \in T : y.delay \in Nat /\ y.at \in Nat,
         InOrder(s), \A a \in DOMAIN s : s[a].at < x.at
  PROVE  /\ AddThenSort(s, x) \in Seq(T)
         /\ InOrder(AddThenSort(s, x))
         /\ ToSet(AddThenSort(s, x)) = ToSet(s) \cup {x}
<1> DEFINE v == Append(s, x)
           n == Len(s) + 1
           Q == {a \in 1..n : a = n \/ x.delay < s[a].delay}
<1>0. Len(s) \in Nat /\ DOMAIN s = 1..Len(s) /\ n \in Nat /\ n > 0 OBVIOUS
<1>1. /\ DOMAIN v = 1..n /\ v[n] = x
      /\ \A a \in 1..n : a # n => v[a] = s[a] /\ a \in DOMAIN s
  BY AppendProperties
<1>2. PICK q \in Q : \A o \in Q : q <= o
  <2>1. Q \in SUBSET Nat /\ n \in Q BY <1>0
  <2> QED BY <2>1, LeastNumber
<1>3. q \in 1..n OBVIOUS
<1>4. \A a \in 1..n : a < q => a # n /\ s[a].delay <= x.delay
  <2> SUFFICES ASSUME NEW a \in 1..n, a < q PROVE a # n /\ s[a].delay <= x.delay OBVIOUS
  <2>1. a \notin Q BY <1>0, <1>2, <1>3
  <2>2. a # n /\ ~(x.delay < s[a].delay) BY <2>1
  <2>3. s[a] \in T BY <1>1, <2>2
  <2> QED BY <2>2, <2>3
<1>5. \A a \in 1..n : q <= a /\ a # n => x.delay < s[a].delay
  <2> SUFFICES ASSUME NEW a \in 1..n, q <= a, a # n PROVE x.delay < s[a].delay OBVIOUS
  <2>1. q # n /\ q \in DOMAIN s /\ a \in DOMAIN s BY <1>0, <1>3
  <2>2. x.delay < s[q].delay BY <1>2, <2>1
  <2>3. q = a \/ s[q].delay <= s[a].delay BY <1>0, <2>1 DEF InOrder
  <2>4. s[q] \in T /\ s[a] \in T BY <2>1
  <2> QED BY <2>2, <2>3, <2>4
<1>6. \A a, b \in 1..n : a < b /\ b # n => s[a].delay <= s[b].delay
  <2> SUFFICES ASSUME NEW a \in 1..n, NEW b \in 1..n, a < b, b # n PROVE s[a].delay <= s[b].delay
    OBVIOUS
  <2>1. a \in DOMAIN s /\ b \in DOMAIN s BY <1>0
  <2>2. s[a] \in T /\ s[b] \in T BY <2>1
  <2> QED BY <2>1, <2>2 DEF InOrder
<1>7. \A a \in 1..n : a # n => s[a] \in T /\ s[a].delay \in Nat /\ s[a].at \in Nat BY <1>1
<1>8. x.delay \in Nat /\ x.at \in Nat OBVIOUS
<1> HIDE DEF v, n, Q
<1> DEFINE R(a) == {b \in DOMAIN v : \/ v[b].delay < v[a].delay
                                     \/ v[b].delay = v[a].delay /\ b <= a}
<1>9. ASSUME NEW a \in 1..n, a < q PROVE Rank(v, a) = a
  <2>1. ASSUME NEW b \in 1..n PROVE b \in R(a) <=> b \in 1..a
    <3>1. a # n /\ v[a] = s[a] /\ s[a].delay <= x.delay BY <1>1, <1>4, <1>9
    <3>2. CASE b = n BY <1>0, <1>1, <1>7, <1>8, <3>1, <3>2
    <3>3. CASE b # n
      <4>1. v[b] = s[b] BY <1>1, <3>3
      <4>2. b < a => s[b].delay <= s[a].delay BY <1>6, <3>1
      <4>3. a < b => s[a].delay <= s[b].delay BY <1>6, <3>3
      <4> QED BY <1>0, <1>1, <1>7, <3>1, <3>3, <4>1, <4>2, <4>3
    <3> QED BY <3>2, <3>3
  <2>a. R(a) \subseteq 1..n BY <1>1
  <2>b. 1..a \subseteq 1..n BY <1>0
  <2> HIDE DEF R
  <2>c. R(a) = 1..a BY <2>1, <2>a, <2>b
  <2>2. Rank(v, a) = Cardinality(1..a) BY <2>c DEF Rank, R
  <2>3. Cardinality(1..a) = a BY <1>0, FS_Interval
  <2> QED BY <2>2, <2>3
<1>10. ASSUME NEW a \in 1..n, q <= a, a # n PROVE Rank(v, a) = a + 1
  <2>1. ASSUME NEW b \in 1..n PROVE b \in R(a) <=> b \in (1..a) \cup {n}
    <3>1. v[a] = s[a] /\ x.delay < s[a].delay BY <1>1, <1>5, <1>10
    <3>2. CASE b = n BY <1>0, <1>1, <1>7, <1>8, <3>1, <3>2
    <3>3. CASE b # n
      <4>1. v[b] = s[b] BY <1>1, <3>3
      <4>2. b < a => s[b].delay <= s[a].delay BY <1>6, <1>10
      <4>3. a < b => s[a].delay <= s[b].delay BY <1>6, <3>3
      <4> QED BY <1>0, <1>1, <1>7, <1>10, <3>1, <3>3, <4>1, <4>2, <4>3
    <3> QED BY <3>2, <3>3
  <2>2. R(a) = (1..a) \cup {n} BY <1>0, <1>1, <2>1
  <2>3. IsFiniteSet(1..a) /\ Cardinality(1..a) = a BY <1>0, FS_Interval
  <2>4. n \notin 1..a BY <1>0, <1>10
  <2>5. Cardinality((1..a) \cup {n}) = a + 1 BY <2>3, <2>4, FS_AddElement
  <2> QED BY <2>2, <2>5 DEF Rank
<1>11. Rank(v, n) = q
  <2>1. ASSUME NEW b \in 1..n PROVE b \in R(n) <=> b \in (1..(q - 1)) \cup {n}
    <3>1. v[n] = x BY <1>1
    <3>2. CASE b = n BY <1>0, <1>1, <1>8, <3>1, <3>2
    <3>3. CASE b # n
      <4>1. v[b] = s[b] /\ b <= n BY <1>0, <1>1, <3>3
      <4>2. b < q => s[b].delay <= x.delay BY <1>4
      <4>3. q <= b => x.delay < s[b].delay BY <1>5, <3>3
      <4> QED BY <1>0, <1>1, <1>3, <1>7, <1>8, <3>1, <3>3, <4>1, <4>2, <4>3
    <3> QED BY <3>2, <3>3
  <2>0. q - 1 \in Nat /\ q - 1 + 1 = q /\ (1..(q - 1)) \cup {n} \subseteq 1..n BY <1>0, <1>3
  <2>2. R(n) = (1..(q - 1)) \cup {n} BY <1>1, <2>0, <2>1
  <2>3. IsFiniteSet(1..(q - 1)) /\ Cardinality(1..(q - 1)) = q - 1 BY <2>0, UpTo
  <2>4. n \notin 1..(q - 1) BY <1>0, <1>3
  <2>5. Cardinality((1..(q - 1)) \cup {n}) = q - 1 + 1 BY <2>3, <2>4, FS_AddElement
  <2> QED BY <2>0, <2>2, <2>5 DEF Rank
<1> DEFINE from(ix) == IF ix < q THEN ix ELSE IF ix = q THEN n ELSE ix - 1
           w == [ix \in 1..n |-> v[from(ix)]]
<1>12. ASSUME NEW ix \in 1..n
       PROVE  from(ix) \in 1..n /\ Rank(v, from(ix)) = ix /\ \A a \in 1..n : Rank(v, a) = ix => a = from(ix)
  <2>1. from(ix) \in 1..n /\ Rank(v, from(ix)) = ix
    <3>1. CASE ix < q BY <1>9, <3>1
    <3>2. CASE ix = q BY <1>0, <1>11, <3>2
    <3>3. CASE q < ix
      <4>1. ix - 1 \in 1..n /\ q <= ix - 1 /\ ix - 1 # n BY <1>0, <1>3, <3>3
      <4>2. ix \in Int /\ q \in Int BY <1>0, <1>3
      <4>3. from(ix) = ix - 1 BY <1>0, <3>3, <4>2
      <4>4. Rank(v, ix - 1) = (ix - 1) + 1 BY <1>10, <4>1
      <4> QED BY <4>1, <4>2, <4>3, <4>4
    <3> QED BY <1>3, <3>1, <3>2, <3>3
  <2>2. ASSUME NEW a \in 1..n, Rank(v, a) = ix PROVE a = from(ix)
    <3>1. CASE a = n BY <1>3, <1>11, <2>2, <3>1
    <3>2. CASE a < q BY <1>9, <2>2, <3>2
    <3>3. CASE q <= a /\ a # n BY <1>3, <1>10, <2>2, <3>3
    <3> QED BY <1>3, <3>1, <3>2, <3>3
  <2> QED BY <2>1, <2>2
<1>13. AddThenSort(s, x) = w
  <2>1. AddThenSort(s, x) = Sorted(v) BY DEF AddThenSort, v
  <2> HIDE DEF from
  <2>2. \A ix \in 1..n : \E a \in 1..n : Rank(v, a) = ix BY <1>12
  <2>3. /\ Sorted(v) = [ix \in 1..n |-> Sorted(v)[ix]]
        /\ \A ix \in 1..n : \E a \in 1..n : Rank(v, a) = ix /\ Sorted(v)[ix] = v[a]
    <3>1. DOMAIN v = 1..n BY <1>1
    <3>2. \A ix \in DOMAIN v : \E a \in DOMAIN v : Rank(v, a) = ix BY <2>2, <3>1
    <3>3. /\ Sorted(v) = [ix \in DOMAIN v |-> Sorted(v)[ix]]
          /\ \A ix \in DOMAIN v : \E a \in DOMAIN v : Rank(v, a) = ix /\ Sorted(v)[ix] = v[a]
      BY <3>2, RankSorts, Zenon
    <3> QED BY <3>1, <3>3
  <2>4. \A ix \in 1..n : Sorted(v)[ix] = v[from(ix)] BY <1>12, <2>3
  <2> QED BY <2>1, <2>3, <2>4
<1>14. ASSUME NEW ix \in 1..n
       PROVE  /\ ix < q => w[ix] = s[ix] /\ ix \in DOMAIN s
              /\ ix = q => w[ix] = x
              /\ q < ix => w[ix] = s[ix - 1] /\ ix - 1 \in DOMAIN s
  <2>1. CASE ix < q
    <3>1. from(ix) = ix BY <2>1
    <3>2. ix # n BY <1>4, <2>1
    <3> QED BY <1>0, <1>1, <1>3, <2>1, <3>1, <3>2
  <2>2. CASE ix = q BY <1>0, <1>1, <1>3, <2>2
  <2>3. CASE q < ix
    <3>1. ix - 1 \in 1..n /\ ix - 1 # n /\ from(ix) = ix - 1 BY <1>0, <1>3, <2>3
    <3> QED BY <1>0, <1>1, <1>3, <2>3, <3>1
  <2> QED BY <1>3, <2>1, <2>2, <2>3
<1>15. DOMAIN w = 1..n /\ w = [ix \in 1..n |-> w[ix]] OBVIOUS
<1> HIDE DEF w
<1>16. \A ix \in 1..n : w[ix] \in T BY <1>3, <1>14
<1>17. w \in Seq(T) BY <1>0, <1>15, <1>16, FunctionIsList
<1>18. InOrder(w)
  <2> SUFFICES ASSUME NEW a \in 1..n, NEW b \in 1..n, a < b
               PROVE  \/ w[a].delay < w[b].delay
                      \/ w[a].delay = w[b].delay /\ w[a].at < w[b].at
    BY <1>15 DEF InOrder
  <2>1. CASE a < q /\ b < q BY <1>14, <2>1 DEF InOrder
  <2>2. CASE a < q /\ b = q
    <3>1. w[a] = s[a] /\ w[b] = x /\ a \in DOMAIN s BY <1>14, <2>2
    <3>2. s[a].delay <= x.delay /\ s[a].at < x.at BY <1>4, <2>2, <3>1
    <3> QED BY <1>7, <1>8, <1>4, <2>2, <3>1, <3>2
  <2>3. CASE a < q /\ q < b
    <3>1. w[a] = s[a] /\ w[b] = s[b - 1] /\ a \in DOMAIN s /\ b - 1 \in DOMAIN s BY <1>14, <2>3
    <3>2. a < b - 1 BY <1>3, <2>3
    <3> QED BY <3>1, <3>2 DEF InOrder
  <2>4. CASE a = q /\ q < b
    <3>1. w[a] = x /\ w[b] = s[b - 1] /\ b - 1 \in DOMAIN s BY <1>14, <2>4
    <3>2. b - 1 \in 1..n /\ q <= b - 1 /\ b - 1 # n BY <1>0, <1>3, <2>4
    <3> QED BY <1>5, <3>1, <3>2
  <2>5. CASE q < a
    <3>1. w[a] = s[a - 1] /\ w[b] = s[b - 1] /\ a - 1 \in DOMAIN s /\ b - 1 \in DOMAIN s
      BY <1>3, <1>14, <2>5
    <3>2. a - 1 < b - 1 OBVIOUS
    <3> QED BY <3>1, <3>2 DEF InOrder
  <2> QED BY <1>3, <2>1, <2>2, <2>3, <2>4, <2>5
<1>19. ToSet(w) = ToSet(s) \cup {x}
  <2>1. ASSUME NEW y \in ToSet(w) PROVE y \in ToSet(s) \cup {x}
    <3>1. PICK ix \in 1..n : y = w[ix] BY <1>15 DEF ToSet
    <3> QED BY <1>3, <1>14, <3>1 DEF ToSet
  <2>2. ASSUME NEW y \in ToSet(s) PROVE y \in ToSet(w)
    <3>1. PICK a \in DOMAIN s : y = s[a] BY DEF ToSet
    <3>2. CASE a < q
      <4>1. a \in 1..n BY <1>3, <1>0, <3>2
      <4> QED BY <1>14, <1>15, <3>1, <3>2, <4>1 DEF ToSet
    <3>3. CASE ~(a < q)
      <4>1. a + 1 \in 1..n /\ q < a + 1 /\ (a + 1) - 1 = a BY <1>0, <1>3, <3>3 DEF n
      <4>2. w[a + 1] = s[a] BY <1>14, <4>1
      <4> QED BY <1>15, <3>1, <4>1, <4>2 DEF ToSet
    <3> QED BY <3>2, <3>3
  <2>3. x \in ToSet(w) BY <1>3, <1>14, <1>15 DEF ToSet
  <2> QED BY <2>1, <2>2, <2>3
<1> QED BY <1>13, <1>17, <1>18, <1>19

-----------------------------------------------------------------------------
(* Scenario: the inductive invariant                                       *)

EpochSet(c) == ToSet(Nums(sc.ceremonies[c].epochs))
Converting == pc \in {"convert", "done"}

\* What Load is given is validated before anything is converted.
SectionsChecked ==
  /\ sc \in Inputs /\ nodes \in Nodes
  /\ pc \in {"sections", "ceremonies", "convert", "done", "invalid", "panicked"}
  /\ pc = "ceremonies" \/ Converting =>
       ValidSections /\ SwitchesValid(sc.starts) /\ SwitchesValid(sc.stops)

\* The ceremonies that were accepted share no epoch.
Accepted ==
  IF pc = "ceremonies" THEN 1..(i - 1) ELSE IF Converting THEN DOMAIN sc.ceremonies ELSE {}

CeremoniesChecked ==
  /\ i \in 1..Len(sc.ceremonies) + 1 /\ (pc = "sections" => i = 1)
  /\ used \subseteq Nat
  /\ \A c \in Accepted : CeremonyOK(c) /\ EpochSet(c) \subseteq used
  /\ \A c, d \in Accepted : c # d => EpochSet(c) \cap EpochSet(d) = {}

SectionsConverted ==
  IF Converting
  THEN /\ newUsers = ConvertNewUsers(IF nodes > 0 THEN nodes ELSE sc.users, sc.newUsers)
       /\ afterFlips = ConvertNewUsers(0, sc.afterFlips)
  ELSE newUsers = <<>> /\ afterFlips = <<>>

\* An epoch that an accepted ceremony has got is its own.
CeremoniesConverted ==
  /\ DOMAIN ceremonies \subseteq used
  /\ ~Converting => ceremonies = <<>>
  /\ Converting => \A c \in DOMAIN sc.ceremonies : c < i => \A e \in EpochSet(c) :
                     e \in DOMAIN ceremonies /\ ceremonies[e] = UserCeremonies(c)
  /\ pc = "done" => i > Len(sc.ceremonies)

\* The switches converted so far are in the maps, each list in order.
KeyOf(y) == <<y.epoch, y.node>>
Keys == {KeyOf(AllSwitches[m]) : m \in DOMAIN AllSwitches}
Gone == Len(AllSwitches) - Len(todo)
ConvertedOf(x) == {AllSwitches[m] : m \in {m \in 1..Gone : KeyOf(AllSwitches[m]) = x}}

SwitchesConverted ==
  /\ ~Converting => switches = <<>> /\ todo = <<>>
  /\ Converting =>
       /\ todo \in Seq(ToSet(AllSwitches)) /\ Gone >= 0
       /\ \A m \in DOMAIN todo : todo[m] = AllSwitches[Gone + m]
       /\ DOMAIN switches \subseteq Keys
       /\ \A x \in Keys : /\ SwitchesOf(x[1], x[2]) \in Seq(ToSet(AllSwitches))
                          /\ InOrder(SwitchesOf(x[1], x[2]))
                          /\ ToSet(SwitchesOf(x[1], x[2])) = ConvertedOf(x)
  /\ pc = "done" => todo = <<>>

ScenarioInv ==
  /\ SectionsChecked /\ CeremoniesChecked /\ SectionsConverted
  /\ CeremoniesConverted /\ SwitchesConverted

\* What depends on the scenario only does not change.
LEMMA SameInput ==
  ASSUME sc' = sc
  PROVE  /\ ValidSections' = ValidSections
         /\ \A c : EpochSet(c)' = EpochSet(c)
         /\ \A c : CeremonyOK(c)' = CeremonyOK(c)
         /\ \A c : UserCeremonies(c)' = UserCeremonies(c)
         /\ AllSwitches' = AllSwitches
         /\ Keys' = Keys
<1>1. ValidSections' = ValidSections BY DEF ValidSections
<1>2. \A c : EpochSet(c)' = EpochSet(c) BY DEF EpochSet
<1>3. \A c : UserTexts(c)' = UserTexts(c) BY DEF UserTexts
<1>4. \A c : CeremonyUsers(c)' = CeremonyUsers(c) BY <1>3, Zenon DEF CeremonyUsers
<1>5. Sections' = Sections BY DEF Sections
<1>6. \A s : SectionEpochs(s)' = SectionEpochs(s) BY <1>5 DEF SectionEpochs
<1>7. LastEpoch' = LastEpoch BY <1>5, <1>6, Zenon DEF LastEpoch
<1>8. \A e : Added(e)' = Added(e) BY <1>5, <1>6, Zenon DEF Added
<1>9. \A e : UsersIn(e)' = UsersIn(e) BY <1>7, <1>8, Zenon DEF UsersIn
<1>10. \A c : CeremonyOK(c)' = CeremonyOK(c) BY <1>3, <1>4, <1>9, Zenon DEF CeremonyOK, UsersValid
<1>11. \A c : UserCeremonies(c)' = UserCeremonies(c) BY <1>3, <1>4, Zenon DEF UserCeremonies
<1>12. AllSwitches' = AllSwitches BY Zenon DEF AllSwitches
<1>13. Keys' = Keys BY <1>12, Zenon DEF Keys
<1> QED BY <1>1, <1>2, <1>10, <1>11, <1>12, <1>13

\* A list of lists made place by place.
LEMMA FlattenTyped ==
  ASSUME NEW T, NEW secs, NEW n \in Nat, DOMAIN secs = 1..n,
         NEW q, q = [s \in DOMAIN secs |-> q[s]], \A s \in DOMAIN secs : q[s] \in Seq(T)
  PROVE  FlattenSeq(q) \in Seq(T)
<1>1. q = [s \in 1..n |-> q[s]] /\ \A s \in 1..n : q[s] \in Seq(T) BY Zenon
<1>2. q \in Seq(Seq(T)) BY <1>1, FunctionIsList
<1> QED BY <1>2, FlattenLays

\* Pairs of numbers.
LEMMA PairsTyped ==
  ASSUME NEW s \in Seq(Nat), NEW t \in Seq(Nat)
  PROVE  Pairs(s, t) \in Seq(Nat \X Nat)
<1> DEFINE row(a) == [b \in DOMAIN t |-> <<s[a], t[b]>>]
           q == [a \in DOMAIN s |-> row(a)]
<1>1. ASSUME NEW a \in DOMAIN s PROVE row(a) \in Seq(Nat \X Nat)
  <2> DEFINE f == row(a)
  <2>1. Len(t) \in Int /\ DOMAIN t = 1..Len(t) OBVIOUS
  <2>2. \A b \in 1..Len(t) : f[b] \in Nat \X Nat BY <2>1
  <2>3. f = [b \in 1..Len(t) |-> f[b]] BY <2>1
  <2> HIDE DEF f
  <2>4. f \in Seq(Nat \X Nat) BY <2>1, <2>2, <2>3, FunctionIsList
  <2> QED BY <2>4 DEF f
<1>2. DOMAIN s = 1..Len(s) /\ Len(s) \in Nat OBVIOUS
<1> HIDE DEF row
<1>3. q = [a \in DOMAIN s |-> q[a]] /\ \A a \in DOMAIN s : q[a] \in Seq(Nat \X Nat) BY <1>1
<1> HIDE DEF q
<1>4. FlattenSeq(q) \in Seq(Nat \X Nat) BY <1>2, <1>3, FlattenTyped
<1> QED BY <1>4 DEF Pairs, q, row

Switch == [epoch : Nat, node : Nat, isStart : BOOLEAN, delay : Nat, at : Nat]

\* What the loops of convertNodeSwitches go through.
LEMMA ListedTyped ==
  ASSUME NEW secs \in Seq(SwitchSection), SwitchesValid(secs), NEW isStart \in BOOLEAN
  PROVE  Listed(secs, isStart) \in Seq(Switch)
<1> DEFINE pairs(s) == Pairs(Nums(secs[s].epochs), Nums(secs[s].nodes))
           row(s) == [p \in DOMAIN pairs(s) |->
                        [epoch |-> pairs(s)[p][1], node |-> pairs(s)[p][2],
                         isStart |-> isStart, delay |-> secs[s].delay, at |-> 0]]
           q == [s \in DOMAIN secs |-> row(s)]
<1>1. ASSUME NEW s \in DOMAIN secs PROVE row(s) \in Seq(Switch)
  <2> DEFINE f == row(s)
             ps == pairs(s)
             d == secs[s].delay
  <2>1. secs[s] \in SwitchSection OBVIOUS
  <2>2. secs[s].epochs \in Text /\ secs[s].nodes \in Text /\ d \in Int BY <2>1 DEF SwitchSection
  <2>3. Parses(secs[s].epochs) /\ Parses(secs[s].nodes) /\ d >= 0 BY DEF SwitchesValid
  <2>4. ps \in Seq(Nat \X Nat) BY <2>2, <2>3, NumsTyped, PairsTyped
  <2>5. d \in Nat BY <2>2, <2>3
  <2>6. f = [p \in DOMAIN ps |-> [epoch |-> ps[p][1], node |-> ps[p][2], isStart |-> isStart, delay |-> d, at |-> 0]]
    OBVIOUS
  <2> HIDE DEF ps, d, f
  <2>7. DOMAIN ps = 1..Len(ps) /\ Len(ps) \in Int BY <2>4
  <2>8. ASSUME NEW p \in 1..Len(ps) PROVE f[p] \in Switch
    <3>1. ps[p] \in Nat \X Nat BY <2>4, <2>7
    <3>2. f[p] = [epoch |-> ps[p][1], node |-> ps[p][2], isStart |-> isStart, delay |-> d, at |-> 0]
      BY <2>6, <2>7
    <3> QED BY <2>5, <3>1, <3>2 DEF Switch
  <2>9. f = [p \in 1..Len(ps) |-> f[p]] BY <2>6, <2>7
  <2>10. f \in Seq(Switch) BY <2>7, <2>8, <2>9, FunctionIsList
  <2> QED BY <2>10 DEF f
<1>2. DOMAIN secs = 1..Len(secs) /\ Len(secs) \in Nat OBVIOUS
<1> HIDE DEF row
<1>3. q = [s \in DOMAIN secs |-> q[s]] /\ \A s \in DOMAIN secs : q[s] \in Seq(Switch) BY <1>1
<1> HIDE DEF q
<1>4. FlattenSeq(q) \in Seq(Switch) BY <1>2, <1>3, FlattenTyped
<1> QED BY <1>4 DEF Listed, q, row, pairs

\* Every switch knows its place.
LEMMA SwitchesPlaced ==
  ASSUME sc \in Written, SwitchesValid(sc.starts), SwitchesValid(sc.stops)
  PROVE  /\ AllSwitches \in Seq(Switch)
         /\ \A n \in DOMAIN AllSwitches : AllSwitches[n].at = n
<1> DEFINE a == Listed(sc.starts, TRUE)
           b == Listed(sc.stops, FALSE)
           all == a \o b
<1>1. sc.starts \in Seq(SwitchSection) /\ sc.stops \in Seq(SwitchSection) BY DEF Written
<1>2. a \in Seq(Switch) /\ b \in Seq(Switch) BY <1>1, ListedTyped
<1>3. AllSwitches = [n \in DOMAIN all |-> [all[n] EXCEPT !.at = n]] BY DEF AllSwitches
<1> HIDE DEF a, b
<1>4. all \in Seq(Switch) BY <1>2
<1> HIDE DEF all
<1>5. DOMAIN all = 1..Len(all) /\ Len(all) \in Int BY <1>4
<1>6. ASSUME NEW n \in 1..Len(all) PROVE AllSwitches[n] \in Switch /\ AllSwitches[n].at = n
  <2>1. all[n] \in Switch /\ n \in Nat BY <1>4, <1>5
  <2>2. AllSwitches[n] = [all[n] EXCEPT !.at = n] BY <1>3, <1>5
  <2> QED BY <2>1, <2>2 DEF Switch
<1>7. AllSwitches = [n \in 1..Len(all) |-> AllSwitches[n]] BY <1>3, <1>5
<1>8. AllSwitches \in Seq(Switch) BY <1>5, <1>6, <1>7, FunctionIsList
<1> QED BY <1>3, <1>5, <1>6, <1>8

-----------------------------------------------------------------------------
(* Scenario: the steps                                                     *)

\* Nothing is accepted and nothing converted at first.
LEMMA ScenarioInitially == Init => ScenarioInv
<1> SUFFICES ASSUME Init PROVE ScenarioInv OBVIOUS
<1> USE DEF Init
<1>1. sc \in Written BY ScenarioAssumption
<1>2. Len(sc.ceremonies) \in Nat BY <1>1 DEF Written
<1>3. SectionsChecked BY DEF SectionsChecked, Converting
<1>4. CeremoniesChecked BY <1>2 DEF CeremoniesChecked, Accepted, Converting
<1>5. SectionsConverted BY DEF SectionsConverted, Converting
<1>6. CeremoniesConverted BY DEF CeremoniesConverted, Converting
<1>7. SwitchesConverted BY DEF SwitchesConverted, Converting
<1> QED BY <1>3, <1>4, <1>5, <1>6, <1>7 DEF ScenarioInv


\* A scenario that is rejected stays unconverted.
LEMMA RejectedKeeps ==
  ASSUME ScenarioInv, ~Converting, pc' \in {"invalid", "panicked"},
         UNCHANGED <<input, i, used, result>>
  PROVE  ScenarioInv'
<1> USE DEF input, result, ScenarioInv, Converting
<1>0. sc' = sc /\ nodes' = nodes /\ i' = i /\ used' = used /\ newUsers' = newUsers /\ afterFlips' = afterFlips
      /\ ceremonies' = ceremonies /\ todo' = todo /\ switches' = switches
  OBVIOUS
<1>1. SectionsChecked' BY <1>0 DEF SectionsChecked
<1>2. CeremoniesChecked' BY <1>0 DEF CeremoniesChecked, Accepted
<1>3. SectionsConverted' BY <1>0 DEF SectionsConverted
<1>4. CeremoniesConverted' BY <1>0 DEF CeremoniesConverted
<1>5. SwitchesConverted' BY <1>0 DEF SwitchesConverted
<1> QED BY <1>1, <1>2, <1>3, <1>4, <1>5

\* The steps of Load keep the invariant, one lemma per step.
LEMMA ValidateSectionsKeeps == ASSUME ScenarioInv, ValidateSections PROVE ScenarioInv'
<1>1. CASE pc' = "invalid"
  <2>1. ~Converting /\ UNCHANGED <<input, i, used, result>> BY DEF ValidateSections, Converting
  <2> QED BY <1>1, <2>1, RejectedKeeps
<1>2. CASE pc' # "invalid"
  <2> USE DEF ValidateSections, input, result, ScenarioInv, Converting
  <2>0. /\ sc' = sc /\ nodes' = nodes /\ i' = i /\ used' = used /\ pc = "sections" /\ pc' = "ceremonies"
        /\ newUsers' = newUsers /\ afterFlips' = afterFlips
        /\ ceremonies' = ceremonies /\ todo' = todo /\ switches' = switches
    BY <1>2
  <2>1. sc \in Written BY ScenarioAssumption DEF SectionsChecked
  <2>2. ValidSections /\ SwitchesValid(sc.starts) /\ SwitchesValid(sc.stops)
    BY <1>2, <2>1 DEF ValidSections
  <2>3. SectionsChecked' BY <2>0, <2>2, SameInput DEF SectionsChecked
  <2>4. CeremoniesChecked'
    <3>1. i = 1 BY <2>0 DEF CeremoniesChecked
    <3>2. Accepted' = {} BY <2>0, <3>1 DEF Accepted
    <3> QED BY <2>0, <3>2 DEF CeremoniesChecked
  <2>5. SectionsConverted' BY <2>0 DEF SectionsConverted
  <2>6. CeremoniesConverted' BY <2>0 DEF CeremoniesConverted
  <2>7. SwitchesConverted' BY <2>0 DEF SwitchesConverted
  <2> QED BY <2>3, <2>4, <2>5, <2>6, <2>7
<1> QED BY <1>1, <1>2

LEMMA ValidateCeremonyKeeps ==
  ASSUME ScenarioInv, NEW c \in DOMAIN sc.ceremonies, ValidateCeremony(c) PROVE ScenarioInv'
<1> DEFINE epochs == Nums(sc.ceremonies[c].epochs)
<1>0. /\ pc = "ceremonies" /\ i = c /\ UNCHANGED <<input, result>>
      /\ EpochsValid(c) /\ epochs # <<>>
  BY DEF ValidateCeremony, Validate
<1>1. CASE ~UsersValid(c, UsersIn(Last(epochs)))
  <2>1. pc' = "invalid" /\ UNCHANGED <<i, used>> BY <1>1 DEF ValidateCeremony, Reject
  <2> QED BY <1>0, <2>1, RejectedKeeps DEF Converting
<1>2. CASE UsersValid(c, UsersIn(Last(epochs)))
  <2>1. i' = c + 1 /\ used' = used \cup EpochSet(c) /\ pc' = pc
    BY <1>0, <1>2 DEF ValidateCeremony, Record, EpochSet
  <2>2. /\ sc' = sc /\ nodes' = nodes /\ newUsers' = newUsers /\ afterFlips' = afterFlips
        /\ ceremonies' = ceremonies /\ todo' = todo /\ switches' = switches
    BY <1>0 DEF input, result
  <2>3. sc \in Written BY ScenarioAssumption DEF ScenarioInv, SectionsChecked
  <2>4. DOMAIN sc.ceremonies = 1..Len(sc.ceremonies) /\ Len(sc.ceremonies) \in Nat
        /\ sc.ceremonies[c].epochs \in Text
    BY <2>3, CeremonyTyped
  <2>5. Parses(sc.ceremonies[c].epochs) /\ EpochSet(c) \cap used = {}
    BY <1>0 DEF EpochsValid, EpochSet
  <2>6. CeremonyOK(c) BY <1>0, <1>2, <2>5 DEF CeremonyOK
  <2>7. EpochSet(c) \subseteq Nat
    <3>1. epochs \in Seq(Nat) BY <2>4, <2>5, NumsTyped
    <3> HIDE DEF epochs
    <3>2. ToSet(epochs) \subseteq Nat BY <3>1 DEF ToSet
    <3> QED BY <3>2 DEF EpochSet, epochs
  <2> USE DEF ScenarioInv
  <2>8. SectionsChecked' BY <1>0, <2>1, <2>2, SameInput DEF SectionsChecked, Converting
  <2>9. CeremoniesChecked'
    <3>1. Accepted = 1..(c - 1) /\ Accepted' = 1..c BY <1>0, <2>1, <2>4 DEF Accepted
    <3>2. Accepted' = Accepted \cup {c} BY <2>4, <3>1
    <3>3. c + 1 \in 1..Len(sc.ceremonies) + 1 BY <2>4
    <3>4. ASSUME NEW d \in Accepted' PROVE CeremonyOK(d)' /\ EpochSet(d)' \subseteq used'
      <4>1. CeremonyOK(d) /\ EpochSet(d) \subseteq used' BY <2>1, <2>6, <3>2 DEF CeremoniesChecked
      <4> QED BY <2>2, <4>1, SameInput
    <3>5. ASSUME NEW d \in Accepted', NEW e \in Accepted', d # e
          PROVE  EpochSet(d)' \cap EpochSet(e)' = {}
      <4>1. \A b \in Accepted : EpochSet(b) \subseteq used BY DEF CeremoniesChecked
      <4>2. EpochSet(d) \cap EpochSet(e) = {}
        <5>1. CASE d \in Accepted /\ e \in Accepted BY <3>5, <5>1 DEF CeremoniesChecked
        <5>2. CASE d \notin Accepted BY <2>5, <3>2, <3>5, <4>1, <5>2
        <5>3. CASE e \notin Accepted BY <2>5, <3>2, <3>5, <4>1, <5>3
        <5> QED BY <5>1, <5>2, <5>3
      <4> QED BY <2>2, <4>2, SameInput
    <3>6. used' \subseteq Nat BY <2>1, <2>7 DEF CeremoniesChecked
    <3>7. i' \in 1..Len(sc'.ceremonies) + 1 /\ (pc' = "sections" => i' = 1)
      BY <1>0, <2>1, <2>2, <3>3
    <3> QED BY <3>4, <3>5, <3>6, <3>7 DEF CeremoniesChecked
  <2>10. SectionsConverted' BY <1>0, <2>1, <2>2 DEF SectionsConverted, Converting
  <2>11. CeremoniesConverted' BY <1>0, <2>1, <2>2 DEF CeremoniesConverted, Converting
  <2>12. SwitchesConverted' BY <1>0, <2>1, <2>2 DEF SwitchesConverted, Converting
  <2> QED BY <2>8, <2>9, <2>10, <2>11, <2>12
<1> QED BY <1>1, <1>2

LEMMA ConvertSectionsKeeps == ASSUME ScenarioInv, ConvertSections PROVE ScenarioInv'
<1>0. /\ sc' = sc /\ nodes' = nodes /\ used' = used /\ ceremonies' = ceremonies /\ switches' = switches
      /\ pc = "ceremonies" /\ pc' = "convert" /\ i > Len(sc.ceremonies) /\ i' = 1
      /\ todo' = AllSwitches
      /\ newUsers' = ConvertNewUsers(IF nodes > 0 THEN nodes ELSE sc.users, sc.newUsers)
      /\ afterFlips' = ConvertNewUsers(0, sc.afterFlips)
  BY DEF ConvertSections, input
<1> USE DEF ScenarioInv
<1>1. sc \in Written BY ScenarioAssumption DEF SectionsChecked
<1>2. DOMAIN sc.ceremonies = 1..Len(sc.ceremonies) /\ Len(sc.ceremonies) \in Nat BY <1>1 DEF Written
<1>3. ~Converting /\ Converting' BY <1>0 DEF Converting
<1>4. ValidSections /\ SwitchesValid(sc.starts) /\ SwitchesValid(sc.stops)
  BY <1>0 DEF SectionsChecked
<1>5. SectionsChecked' BY <1>0, <1>4, SameInput DEF SectionsChecked
<1>6. CeremoniesChecked'
  <2>1. Accepted = DOMAIN sc.ceremonies
    <3>1. i \in 1..Len(sc.ceremonies) + 1 BY DEF CeremoniesChecked
    <3>2. i - 1 = Len(sc.ceremonies) BY <1>0, <1>2, <3>1
    <3> QED BY <1>0, <1>2, <3>2 DEF Accepted
  <2>2. Accepted' = Accepted BY <1>0, <1>3, <2>1 DEF Accepted
  <2>3. i' \in 1..Len(sc'.ceremonies) + 1 BY <1>0, <1>2
  <2>4. \A c \in Accepted' : CeremonyOK(c)' /\ EpochSet(c)' \subseteq used'
    BY <1>0, <2>2, SameInput DEF CeremoniesChecked
  <2>5. \A c, d \in Accepted' : c # d => EpochSet(c)' \cap EpochSet(d)' = {}
    BY <1>0, <2>2, SameInput DEF CeremoniesChecked
  <2> QED BY <1>0, <2>3, <2>4, <2>5 DEF CeremoniesChecked
<1>7. SectionsConverted' BY <1>0, <1>3 DEF SectionsConverted
<1>8. CeremoniesConverted'
  <2>1. \A c \in DOMAIN sc.ceremonies : ~(c < 1) BY <1>2
  <2> QED BY <1>0, <1>3, <2>1 DEF CeremoniesConverted
<1>9. SwitchesConverted'
  <2>1. AllSwitches' = AllSwitches /\ Keys' = Keys BY <1>0, SameInput
  <2>2. AllSwitches \in Seq(Switch) BY <1>1, <1>4, SwitchesPlaced
  <2>3. Len(AllSwitches) \in Nat /\ DOMAIN AllSwitches = 1..Len(AllSwitches) BY <2>2
  <2>4. AllSwitches \in Seq(ToSet(AllSwitches))
    <3>1. \A m \in 1..Len(AllSwitches) : AllSwitches[m] \in ToSet(AllSwitches) BY <2>3 DEF ToSet
    <3>2. AllSwitches = [m \in 1..Len(AllSwitches) |-> AllSwitches[m]] BY <2>2
    <3> QED BY <2>3, <3>1, <3>2, FunctionIsList
  <2>5. Gone' = 0 BY <1>0, <2>1, <2>3 DEF Gone
  <2>6. switches' = <<>> BY <1>0, <1>3 DEF SwitchesConverted
  <2>7. \A m \in DOMAIN todo' : todo'[m] = AllSwitches'[Gone' + m]
    BY <1>0, <2>1, <2>3, <2>5
  <2>8. ASSUME NEW x \in Keys'
        PROVE  /\ SwitchesOf(x[1], x[2])' = <<>>
               /\ ConvertedOf(x)' = {}
    BY <2>5, <2>6 DEF SwitchesOf, ConvertedOf
  <2>9. <<>> \in Seq(ToSet(AllSwitches)) /\ InOrder(<<>>) /\ ToSet(<<>>) = {} BY DEF InOrder, ToSet
  <2>10. todo' \in Seq(ToSet(AllSwitches')) /\ Gone' >= 0 BY <1>0, <2>1, <2>4, <2>5
  <2>11. DOMAIN switches' \subseteq Keys' BY <2>6
  <2>12. \A x \in Keys' : /\ SwitchesOf(x[1], x[2])' \in Seq(ToSet(AllSwitches'))
                          /\ InOrder(SwitchesOf(x[1], x[2])')
                          /\ ToSet(SwitchesOf(x[1], x[2])') = ConvertedOf(x)'
    BY <2>1, <2>8, <2>9
  <2> QED BY <1>0, <1>3, <2>7, <2>10, <2>11, <2>12 DEF SwitchesConverted
<1> QED BY <1>5, <1>6, <1>7, <1>8, <1>9

\* What no step of the conversion touches.
LEMMA ConversionKeeps ==
  ASSUME ScenarioInv, UNCHANGED <<input, used, newUsers, afterFlips>>,
         pc = "convert", pc' \in {"convert", "done"}, i' \in 1..Len(sc.ceremonies) + 1
  PROVE  SectionsChecked' /\ CeremoniesChecked' /\ SectionsConverted'
<1> USE DEF ScenarioInv
<1>0. sc' = sc /\ nodes' = nodes /\ used' = used /\ newUsers' = newUsers /\ afterFlips' = afterFlips
  BY DEF input
<1>1. Converting /\ Converting' BY DEF Converting
<1>2. SectionsChecked' BY <1>0, <1>1, SameInput DEF SectionsChecked
<1>3. Accepted' = Accepted BY <1>0, <1>1 DEF Accepted
<1>4. \A c \in Accepted' : CeremonyOK(c)' /\ EpochSet(c)' \subseteq used'
  BY <1>0, <1>3, SameInput DEF CeremoniesChecked
<1>5. \A c, d \in Accepted' : c # d => EpochSet(c)' \cap EpochSet(d)' = {}
  BY <1>0, <1>3, SameInput DEF CeremoniesChecked
<1>6. CeremoniesChecked' BY <1>0, <1>4, <1>5 DEF CeremoniesChecked
<1>7. SectionsConverted' BY <1>0, <1>1 DEF SectionsConverted
<1> QED BY <1>2, <1>6, <1>7

LEMMA ConvertCeremonyKeeps == ASSUME ScenarioInv, ConvertCeremony PROVE ScenarioInv'
<1>0. /\ sc' = sc /\ nodes' = nodes /\ used' = used /\ newUsers' = newUsers /\ afterFlips' = afterFlips
      /\ todo' = todo /\ switches' = switches /\ pc' = pc /\ pc = "convert"
      /\ todo = <<>> /\ i <= Len(sc.ceremonies) /\ i' = i + 1
      /\ ceremonies' = [e \in DOMAIN ceremonies \cup EpochSet(i) |->
                          IF e \in EpochSet(i) THEN UserCeremonies(i) ELSE ceremonies[e]]
  BY DEF ConvertCeremony, input, EpochSet
<1> USE DEF ScenarioInv
<1>1. sc \in Written BY ScenarioAssumption DEF SectionsChecked
<1>2. DOMAIN sc.ceremonies = 1..Len(sc.ceremonies) /\ Len(sc.ceremonies) \in Nat BY <1>1 DEF Written
<1>3. i \in DOMAIN sc.ceremonies /\ i' \in 1..Len(sc.ceremonies) + 1
  BY <1>0, <1>2 DEF CeremoniesChecked
<1>4. Converting /\ Converting' /\ Accepted = DOMAIN sc.ceremonies BY <1>0 DEF Converting, Accepted
<1>5. SectionsChecked' /\ CeremoniesChecked' /\ SectionsConverted'
  BY <1>0, <1>3, ConversionKeeps DEF input
<1>6. CeremoniesConverted'
  <2>1. EpochSet(i) \subseteq used BY <1>3, <1>4 DEF CeremoniesChecked
  <2>2. DOMAIN ceremonies' \subseteq used' BY <1>0, <2>1 DEF CeremoniesConverted
  <2>3. ASSUME NEW c \in DOMAIN sc.ceremonies, c < i + 1, NEW e \in EpochSet(c)
        PROVE  e \in DOMAIN ceremonies' /\ ceremonies'[e] = UserCeremonies(c)
    <3>1. CASE c = i BY <1>0, <3>1
    <3>2. CASE c # i
      <4>1. c < i BY <1>2, <1>3, <2>3, <3>2
      <4>2. e \in DOMAIN ceremonies /\ ceremonies[e] = UserCeremonies(c)
        BY <1>4, <4>1 DEF CeremoniesConverted
      <4>3. e \notin EpochSet(i) BY <1>3, <1>4, <3>2 DEF CeremoniesChecked
      <4> QED BY <1>0, <4>2, <4>3
    <3> QED BY <3>1, <3>2
  <2>4. \A c \in DOMAIN sc'.ceremonies : c < i' => \A e \in EpochSet(c)' :
          e \in DOMAIN ceremonies' /\ ceremonies'[e] = UserCeremonies(c)'
    BY <1>0, <2>3, SameInput
  <2> QED BY <1>0, <1>4, <2>2, <2>4 DEF CeremoniesConverted
<1>7. SwitchesConverted'
  <2>1. AllSwitches' = AllSwitches /\ Keys' = Keys BY <1>0, SameInput
  <2>2. Gone' = Gone BY <1>0, <2>1 DEF Gone
  <2>3. \A x : ConvertedOf(x)' = ConvertedOf(x) BY <2>1, <2>2, Zenon DEF ConvertedOf
  <2>4. \A e, n : SwitchesOf(e, n)' = SwitchesOf(e, n) BY <1>0 DEF SwitchesOf
  <2> QED BY <1>0, <1>4, <2>1, <2>2, <2>3, <2>4 DEF SwitchesConverted
<1> QED BY <1>5, <1>6, <1>7

LEMMA ConvertSwitchKeeps == ASSUME ScenarioInv, ConvertSwitch PROVE ScenarioInv'
<1> DEFINE x == Head(todo)
           key == <<x.epoch, x.node>>
           T == ToSet(AllSwitches)
<1>0. /\ sc' = sc /\ nodes' = nodes /\ used' = used /\ newUsers' = newUsers /\ afterFlips' = afterFlips
      /\ ceremonies' = ceremonies /\ i' = i /\ pc' = pc /\ pc = "convert"
      /\ todo # <<>> /\ todo' = Tail(todo)
      /\ switches' = [y \in DOMAIN switches \cup {key} |->
                        IF y = key THEN AddThenSort(SwitchesOf(x.epoch, x.node), x) ELSE switches[y]]
  BY DEF ConvertSwitch, input
<1> HIDE DEF T
<1> USE DEF ScenarioInv
<1>1. sc \in Written BY ScenarioAssumption DEF SectionsChecked
<1>2. Converting /\ Converting' BY <1>0 DEF Converting
<1>3. i \in 1..Len(sc.ceremonies) + 1 BY DEF CeremoniesChecked
<1>4. SectionsChecked' /\ CeremoniesChecked' /\ SectionsConverted'
  BY <1>0, <1>3, ConversionKeeps DEF input
<1>5. CeremoniesConverted'
  <2>1. \A c \in DOMAIN sc'.ceremonies : c < i' => \A e \in EpochSet(c)' :
          e \in DOMAIN ceremonies' /\ ceremonies'[e] = UserCeremonies(c)'
    BY <1>0, <1>2, SameInput DEF CeremoniesConverted
  <2> QED BY <1>0, <1>2, <2>1 DEF CeremoniesConverted
<1>6. SwitchesValid(sc.starts) /\ SwitchesValid(sc.stops) BY <1>2 DEF SectionsChecked
<1>7. AllSwitches \in Seq(Switch) /\ \A n \in DOMAIN AllSwitches : AllSwitches[n].at = n
  BY <1>1, <1>6, SwitchesPlaced
<1>8. AllSwitches' = AllSwitches /\ Keys' = Keys BY <1>0, SameInput
<1>9. /\ todo \in Seq(T) /\ Gone >= 0
      /\ \A m \in DOMAIN todo : todo[m] = AllSwitches[Gone + m]
      /\ DOMAIN switches \subseteq Keys
      /\ \A y \in Keys : /\ SwitchesOf(y[1], y[2]) \in Seq(T)
                         /\ InOrder(SwitchesOf(y[1], y[2]))
                         /\ ToSet(SwitchesOf(y[1], y[2])) = ConvertedOf(y)
  BY <1>2 DEF SwitchesConverted, T
<1>10. /\ Len(AllSwitches) \in Nat /\ DOMAIN AllSwitches = 1..Len(AllSwitches)
       /\ Len(todo) \in Nat /\ Len(todo) > 0 /\ DOMAIN todo = 1..Len(todo) /\ Gone \in Int
  BY <1>0, <1>7, <1>9 DEF Gone
<1> DEFINE g == Gone + 1
<1>11. g \in DOMAIN AllSwitches /\ x = AllSwitches[g]
  <2>1. 1 \in DOMAIN todo /\ x = todo[1] BY <1>9, <1>10
  <2>2. g \in 1..Len(AllSwitches) BY <1>9, <1>10 DEF Gone
  <2> QED BY <1>9, <1>10, <2>1, <2>2
<1>12. x \in T /\ x \in Switch /\ x.at = g /\ key = KeyOf(x) /\ key \in Keys
  BY <1>7, <1>11 DEF T, ToSet, KeyOf, Keys
<1>13. Len(todo') = Len(todo) - 1 /\ todo' \in Seq(T) /\ \A m \in 1..(Len(todo) - 1) : todo'[m] = todo[m + 1]
  BY <1>0, <1>9, <1>10
<1>14. Gone' = g /\ Gone' >= 0 BY <1>8, <1>9, <1>10, <1>13 DEF Gone
<1>15. ASSUME NEW m \in DOMAIN todo' PROVE todo'[m] = AllSwitches'[Gone' + m]
  <2>1. m \in 1..(Len(todo) - 1) /\ m + 1 \in DOMAIN todo /\ Gone + (m + 1) = g + m BY <1>10, <1>13
  <2> QED BY <1>8, <1>9, <1>13, <1>14, <2>1
<1> HIDE DEF x, g, key
<1>16. \A y \in T : y.delay \in Nat /\ y.at \in Nat
  <2>1. \A m \in DOMAIN AllSwitches : AllSwitches[m] \in Switch BY <1>7
  <2>2. T \subseteq Switch BY <2>1 DEF T, ToSet
  <2> QED BY <2>2 DEF Switch
<1> DEFINE s == SwitchesOf(x.epoch, x.node)
<1>17. s \in Seq(T) /\ InOrder(s) /\ ToSet(s) = ConvertedOf(key)
  <2>1. key[1] = x.epoch /\ key[2] = x.node BY DEF key
  <2> QED BY <1>9, <1>12, <2>1
<1>18. ASSUME NEW a \in DOMAIN s PROVE s[a].at < x.at
  <2>1. s[a] \in ConvertedOf(key) BY <1>17 DEF ToSet
  <2>2. PICK m \in 1..Gone : s[a] = AllSwitches[m] BY <2>1 DEF ConvertedOf
  <2>3. m \in DOMAIN AllSwitches /\ m < g BY <1>10, <1>11 DEF g
  <2> QED BY <1>7, <1>12, <2>2, <2>3
<1> HIDE DEF s
<1>19. /\ AddThenSort(s, x) \in Seq(T) /\ InOrder(AddThenSort(s, x))
       /\ ToSet(AddThenSort(s, x)) = ToSet(s) \cup {x}
  BY <1>12, <1>16, <1>17, <1>18, SortInserts
<1>20. ASSUME NEW y PROVE ConvertedOf(y)' = IF y = key THEN ConvertedOf(y) \cup {x} ELSE ConvertedOf(y)
  <2>1. ConvertedOf(y)' = {AllSwitches[m] : m \in {m \in 1..g : KeyOf(AllSwitches[m]) = y}}
    BY <1>8, <1>14, Zenon DEF ConvertedOf
  <2>2. \A m : m \in 1..g <=> m \in 1..Gone \/ m = g BY <1>10, <1>9 DEF g
  <2>3. KeyOf(AllSwitches[g]) = key BY <1>11, <1>12
  <2> QED BY <1>11, <2>1, <2>2, <2>3 DEF ConvertedOf
<1>21. DOMAIN switches' \subseteq Keys' BY <1>0, <1>8, <1>9, <1>12
<1>22. ASSUME NEW y \in Keys'
       PROVE  /\ SwitchesOf(y[1], y[2])' \in Seq(T)
              /\ InOrder(SwitchesOf(y[1], y[2])')
              /\ ToSet(SwitchesOf(y[1], y[2])') = ConvertedOf(y)'
  <2>1. y \in Keys /\ y = <<y[1], y[2]>> BY <1>8 DEF Keys, KeyOf
  <2>2. CASE y = key
    <3>1. SwitchesOf(y[1], y[2])' = AddThenSort(s, x) BY <1>0, <2>1, <2>2 DEF SwitchesOf, s
    <3> QED BY <1>17, <1>19, <1>20, <2>2, <3>1
  <2>3. CASE y # key
    <3>1. SwitchesOf(y[1], y[2])' = SwitchesOf(y[1], y[2]) BY <1>0, <2>1, <2>3 DEF SwitchesOf
    <3> QED BY <1>9, <1>20, <2>1, <2>3, <3>1
  <2> QED BY <2>2, <2>3
<1>23. T = ToSet(AllSwitches') BY <1>8 DEF T
<1>24. SwitchesConverted'
  BY <1>0, <1>2, <1>13, <1>14, <1>15, <1>21, <1>22, <1>23 DEF SwitchesConverted
<1> QED BY <1>4, <1>5, <1>24

LEMMA FinishKeeps == ASSUME ScenarioInv, Finish PROVE ScenarioInv'
<1>0. /\ sc' = sc /\ nodes' = nodes /\ used' = used /\ newUsers' = newUsers /\ afterFlips' = afterFlips
      /\ ceremonies' = ceremonies /\ todo' = todo /\ switches' = switches /\ i' = i
      /\ pc = "convert" /\ pc' = "done" /\ todo = <<>> /\ i > Len(sc.ceremonies)
  BY DEF Finish, input, result
<1> USE DEF ScenarioInv
<1>1. Converting /\ Converting' BY <1>0 DEF Converting
<1>2. i \in 1..Len(sc.ceremonies) + 1 BY DEF CeremoniesChecked
<1>3. SectionsChecked' /\ CeremoniesChecked' /\ SectionsConverted'
  BY <1>0, <1>2, ConversionKeeps DEF input
<1>4. CeremoniesConverted'
  <2>1. \A c \in DOMAIN sc'.ceremonies : c < i' => \A e \in EpochSet(c)' :
          e \in DOMAIN ceremonies' /\ ceremonies'[e] = UserCeremonies(c)'
    BY <1>0, <1>1, SameInput DEF CeremoniesConverted
  <2> QED BY <1>0, <1>1, <2>1 DEF CeremoniesConverted
<1>5. SwitchesConverted'
  <2>1. AllSwitches' = AllSwitches /\ Keys' = Keys BY <1>0, SameInput
  <2>2. Gone' = Gone BY <1>0, <2>1 DEF Gone
  <2>3. \A x : ConvertedOf(x)' = ConvertedOf(x) BY <2>1, <2>2, Zenon DEF ConvertedOf
  <2>4. \A e, n : SwitchesOf(e, n)' = SwitchesOf(e, n) BY <1>0 DEF SwitchesOf
  <2> QED BY <1>0, <1>1, <2>1, <2>2, <2>3, <2>4 DEF SwitchesConverted
<1> QED BY <1>3, <1>4, <1>5

\* Nor does a step that changes nothing disturb it.
LEMMA ScenarioStutters == ASSUME ScenarioInv, UNCHANGED vars PROVE ScenarioInv'
<1>0. /\ sc' = sc /\ nodes' = nodes /\ used' = used /\ newUsers' = newUsers /\ afterFlips' = afterFlips
      /\ ceremonies' = ceremonies /\ todo' = todo /\ switches' = switches /\ i' = i /\ pc' = pc
  BY DEF vars
<1> USE DEF ScenarioInv
<1>1. Converting' = Converting BY <1>0 DEF Converting
<1>2. Accepted' = Accepted BY <1>0, <1>1 DEF Accepted
<1>3. SectionsChecked' BY <1>0, <1>1, SameInput DEF SectionsChecked
<1>4. CeremoniesChecked' BY <1>0, <1>2, SameInput DEF CeremoniesChecked
<1>5. SectionsConverted' BY <1>0, <1>1 DEF SectionsConverted
<1>6. CeremoniesConverted' BY <1>0, <1>1, SameInput DEF CeremoniesConverted
<1>7. SwitchesConverted'
  <2>1. AllSwitches' = AllSwitches /\ Keys' = Keys BY <1>0, SameInput
  <2>2. Gone' = Gone BY <1>0, <2>1 DEF Gone
  <2>3. \A x : ConvertedOf(x)' = ConvertedOf(x) BY <2>1, <2>2, Zenon DEF ConvertedOf
  <2>4. \A e, n : SwitchesOf(e, n)' = SwitchesOf(e, n) BY <1>0 DEF SwitchesOf
  <2> QED BY <1>0, <1>1, <2>1, <2>2, <2>3, <2>4 DEF SwitchesConverted
<1> QED BY <1>3, <1>4, <1>5, <1>6, <1>7

\* The inductive invariant of Load: what it has accepted is valid and apart,
\* and what it has converted is what was accepted.
THEOREM ScenarioInvariance == Spec => []ScenarioInv
<1>1. Init => ScenarioInv BY ScenarioInitially
<1>2. ScenarioInv /\ [Next]_vars => ScenarioInv'
  <2> SUFFICES ASSUME ScenarioInv, [Next]_vars PROVE ScenarioInv' OBVIOUS
  <2>1. CASE ValidateSections BY <2>1, ValidateSectionsKeeps
  <2>2. ASSUME NEW c \in DOMAIN sc.ceremonies, RejectEpochs(c) \/ Panic(c) PROVE ScenarioInv'
    <3>1. ~Converting /\ pc' \in {"invalid", "panicked"} /\ UNCHANGED <<input, i, used, result>>
      BY <2>2 DEF RejectEpochs, Panic, Validate, Reject, Converting
    <3> QED BY <3>1, RejectedKeeps
  <2>3. ASSUME NEW c \in DOMAIN sc.ceremonies, ValidateCeremony(c) PROVE ScenarioInv'
    BY <2>3, ValidateCeremonyKeeps
  <2>4. CASE ConvertSections BY <2>4, ConvertSectionsKeeps
  <2>5. CASE ConvertCeremony BY <2>5, ConvertCeremonyKeeps
  <2>6. CASE ConvertSwitch BY <2>6, ConvertSwitchKeeps
  <2>7. CASE Finish BY <2>7, FinishKeeps
  <2>8. CASE UNCHANGED vars \/ Ended BY <2>8, ScenarioStutters DEF Ended
  <2> QED BY <2>1, <2>2, <2>3, <2>4, <2>5, <2>6, <2>7, <2>8 DEF Next
<1> QED BY <1>1, <1>2, PTL DEF Spec

-----------------------------------------------------------------------------
(* Scenario: the properties                                                *)

\* For any scenario: Load stays within its types, every entry that it makes
\* creates at least one user, and no epoch gets a ceremony that validateEpoch
\* has not recorded.
THEOREM ScenarioTypeCorrect == Spec => []TypeOK
<1>1. ScenarioInv => TypeOK
  <2> SUFFICES ASSUME ScenarioInv PROVE TypeOK OBVIOUS
  <2> USE DEF ScenarioInv
  <2>1. pc \in {"sections", "ceremonies", "convert", "done", "invalid", "panicked"}
    BY DEF SectionsChecked
  <2>2. i \in 1..Len(sc.ceremonies) + 1 /\ used \subseteq Nat BY DEF CeremoniesChecked
  <2>3. DOMAIN ceremonies \subseteq used BY DEF CeremoniesConverted
  <2>4. /\ \A e \in DOMAIN newUsers : newUsers[e] \in Seq(Nat \X (Nat \ {0}))
        /\ \A e \in DOMAIN afterFlips : afterFlips[e] \in Seq(Nat \X (Nat \ {0}))
    <3>1. CASE ~Converting BY <3>1 DEF SectionsConverted
    <3>2. CASE Converting
      <4> DEFINE n0 == IF nodes > 0 THEN nodes ELSE sc.users
      <4>1. ValidSections BY <3>2 DEF SectionsChecked
      <4>2. sc.users \in Nat /\ sc.newUsers \in Seq(UserSection) /\ sc.afterFlips \in Seq(UserSection)
        BY <4>1, SectionsValid
      <4>3. n0 \in Nat BY <4>2, ScenarioAssumption DEF SectionsChecked
      <4>4. NewUsersValid(sc.newUsers) /\ NewUsersValid(sc.afterFlips) BY <4>1 DEF ValidSections
      <4>5. newUsers = ConvertNewUsers(n0, sc.newUsers) /\ afterFlips = ConvertNewUsers(0, sc.afterFlips)
        BY <3>2 DEF SectionsConverted
      <4> HIDE DEF n0
      <4>6. \A e \in DOMAIN newUsers : newUsers[e] \in Seq(Entry)
        BY <4>2, <4>3, <4>4, <4>5, ConvertTyped
      <4>7. \A e \in DOMAIN afterFlips : afterFlips[e] \in Seq(Entry)
        BY <4>2, <4>4, <4>5, ConvertTyped
      <4> QED BY <4>6, <4>7 DEF Entry
    <3> QED BY <3>1, <3>2
  <2>5. DOMAIN switches \subseteq Nat \X Nat
    <3>1. CASE ~Converting BY <3>1 DEF SwitchesConverted
    <3>2. CASE Converting
      <4>1. sc \in Written BY ScenarioAssumption DEF SectionsChecked
      <4>2. SwitchesValid(sc.starts) /\ SwitchesValid(sc.stops) BY <3>2 DEF SectionsChecked
      <4>3. AllSwitches \in Seq(Switch) BY <4>1, <4>2, SwitchesPlaced
      <4>4. \A m \in DOMAIN AllSwitches : AllSwitches[m] \in Switch BY <4>3
      <4>5. Keys \subseteq Nat \X Nat BY <4>4 DEF Keys, KeyOf, Switch
      <4> QED BY <3>2, <4>5 DEF SwitchesConverted
    <3> QED BY <3>1, <3>2
  <2> QED BY <2>1, <2>2, <2>3, <2>4, <2>5 DEF TypeOK
<1> QED BY <1>1, ScenarioInvariance, PTL

\* The parts of MeansWhatItSays follow from the invariant.
LEMMA UsersExist == ASSUME ScenarioInv PROVE CeremonyUsersExist
<1> USE DEF ScenarioInv
<1> SUFFICES ASSUME pc = "done", nodes = 0, NEW c \in DOMAIN sc.ceremonies, NEW u \in ToSet(CeremonyUsers(c))
             PROVE  u < Created(Last(Nums(sc.ceremonies[c].epochs)))
  BY DEF CeremonyUsersExist
<1> DEFINE epochs == Nums(sc.ceremonies[c].epochs)
           e == Last(epochs)
<1>1. Converting /\ Accepted = DOMAIN sc.ceremonies BY DEF Converting, Accepted
<1>2. ValidSections /\ sc \in Written BY <1>1 DEF SectionsChecked, ValidSections
<1>3. CeremonyOK(c) BY <1>1 DEF CeremoniesChecked
<1>4. e \in Nat
  <2>1. sc.ceremonies[c].epochs \in Text BY <1>2, CeremonyTyped
  <2>2. epochs \in Seq(Nat) /\ epochs # <<>> BY <1>3, <2>1, NumsTyped DEF CeremonyOK
  <2> HIDE DEF epochs
  <2>3. Len(epochs) \in DOMAIN epochs BY <2>2
  <2>4. epochs[Len(epochs)] \in Nat BY <2>2, <2>3
  <2> QED BY <2>4 DEF Last
<1>5. u < UsersIn(e) BY <1>3 DEF CeremonyOK, UsersValid
<1>6. newUsers = ConvertNewUsers(sc.users, sc.newUsers) /\ afterFlips = ConvertNewUsers(0, sc.afterFlips)
  BY <1>1 DEF SectionsConverted
<1> HIDE DEF e
<1>7. UsersIn(e) \in Nat /\ UsersIn(e) <= Created(e)
  BY <1>2, <1>4, <1>6, CountedAreCreated DEF Created
<1>8. Created(e) \in Nat
  <2>1. /\ sc.users \in Nat /\ sc.newUsers \in Seq(UserSection) /\ sc.afterFlips \in Seq(UserSection)
        /\ NewUsersValid(sc.newUsers) /\ NewUsersValid(sc.afterFlips)
    BY <1>2, SectionsValid DEF ValidSections
  <2>2. CreatedBy(newUsers, e) \in Nat /\ CreatedBy(afterFlips, e) \in Nat
    BY <1>4, <1>6, <2>1, AskedAreCreated
  <2> QED BY <2>2 DEF Created
<1>9. u \in Nat
  <2>1. CeremonyUsers(c) \in Seq(Nat) BY <1>2, <1>3, CeremonyUsersTyped
  <2>2. \A n \in DOMAIN CeremonyUsers(c) : CeremonyUsers(c)[n] \in Nat BY <2>1
  <2> QED BY <2>2 DEF ToSet
<1>10. u < Created(e) BY <1>5, <1>7, <1>8, <1>9
<1> QED BY <1>10 DEF e

LEMMA NothingIsOverwritten == ASSUME ScenarioInv PROVE NothingOverwritten
<1> USE DEF ScenarioInv
<1> SUFFICES ASSUME pc = "done", NEW c \in DOMAIN sc.ceremonies,
                    NEW e \in ToSet(Nums(sc.ceremonies[c].epochs)), NEW ix \in DOMAIN UserTexts(c),
                    NEW u \in ToSet(Nums(UserTexts(c)[ix]))
             PROVE  ceremonies[e][u] = <<c, ix>>
  BY DEF NothingOverwritten
<1>1. Converting /\ Accepted = DOMAIN sc.ceremonies BY DEF Converting, Accepted
<1>2. sc \in Written BY ScenarioAssumption DEF SectionsChecked
<1>3. CeremonyOK(c) BY <1>1 DEF CeremoniesChecked
<1>4. c < i
  <2>1. i > Len(sc.ceremonies) BY DEF CeremoniesConverted
  <2>2. i \in 1..Len(sc.ceremonies) + 1 BY DEF CeremoniesChecked
  <2>3. DOMAIN sc.ceremonies = 1..Len(sc.ceremonies) /\ Len(sc.ceremonies) \in Nat
    BY <1>2, CeremonyTyped
  <2> QED BY <2>1, <2>2, <2>3
<1>5. ceremonies[e] = UserCeremonies(c) BY <1>1, <1>4 DEF CeremoniesConverted, EpochSet
<1> QED BY <1>2, <1>3, <1>5, UsersListedOnce

\* A list in order repeats nothing.
LEMMA InOrderCounts ==
  ASSUME NEW T, NEW s \in Seq(T), InOrder(s), \A y \in T : y.delay \in Nat /\ y.at \in Nat
  PROVE  IsFiniteSet(ToSet(s)) /\ Len(s) = Cardinality(ToSet(s))
<1>0. DOMAIN s = 1..Len(s) /\ Len(s) \in Nat /\ \A a \in DOMAIN s : s[a] \in T OBVIOUS
<1>1. ASSUME NEW a \in DOMAIN s, NEW b \in DOMAIN s, a < b PROVE s[a] # s[b]
  <2>1. \/ s[a].delay < s[b].delay
        \/ s[a].delay = s[b].delay /\ s[a].at < s[b].at
    BY <1>1 DEF InOrder
  <2>2. /\ s[a].delay \in Nat /\ s[a].at \in Nat
        /\ s[b].delay \in Nat /\ s[b].at \in Nat
    BY <1>0
  <2> QED BY <2>1, <2>2
<1>2. \A a, b \in DOMAIN s : a # b => s[a] # s[b]
  <2>1. \A a, b \in DOMAIN s : a # b => a < b \/ b < a BY <1>0
  <2> QED BY <1>1, <2>1
<1>3. s \in Bijection(1..Len(s), ToSet(s))
  <2>1. s \in [1..Len(s) -> ToSet(s)] BY <1>0 DEF ToSet
  <2>2. s \in Injection(1..Len(s), ToSet(s)) BY <1>0, <1>2, <2>1 DEF Injection, IsInjective
  <2>3. s \in Surjection(1..Len(s), ToSet(s)) BY <1>0, <2>1 DEF Surjection, ToSet
  <2> QED BY <2>2, <2>3 DEF Bijection
<1>4. IsFiniteSet(1..Len(s)) /\ Cardinality(1..Len(s)) = Len(s) BY <1>0, UpTo
<1>5. IsFiniteSet(ToSet(s)) /\ Cardinality(ToSet(s)) = Cardinality(1..Len(s))
  BY <1>3, <1>4, FS_Bijection DEF ExistsBijection
<1> QED BY <1>4, <1>5

\* No node whose switches were converted has been forgotten.
LEMMA NobodyDropped ==
  ASSUME ScenarioInv, pc = "done"
  PROVE  DOMAIN switches = {<<y.epoch, y.node>> : y \in ToSet(AllSwitches)}
<1> USE DEF ScenarioInv
<1> DEFINE all == AllSwitches
<1>1. Converting BY DEF Converting
<1>2. sc \in Written BY ScenarioAssumption DEF SectionsChecked
<1>3. SwitchesValid(sc.starts) /\ SwitchesValid(sc.stops) BY <1>1 DEF SectionsChecked
<1>4. all \in Seq(Switch) BY <1>2, <1>3, SwitchesPlaced
<1> HIDE DEF all
<1>5. Len(all) \in Nat /\ DOMAIN all = 1..Len(all) BY <1>4
<1>6. Gone = Len(all)
  <2>1. todo = <<>> BY DEF SwitchesConverted
  <2> QED BY <1>5, <2>1 DEF Gone, all
<1>7. Keys = {<<y.epoch, y.node>> : y \in ToSet(all)}
  BY DEF Keys, KeyOf, ToSet, all
<1>8. DOMAIN switches \subseteq Keys BY <1>1 DEF SwitchesConverted
<1>9. ASSUME NEW x \in Keys PROVE x \in DOMAIN switches
  <2>1. PICK m \in 1..Len(all) : KeyOf(all[m]) = x BY <1>5 DEF Keys, all
  <2>2. all[m] \in ConvertedOf(x) BY <1>6, <2>1 DEF ConvertedOf, all
  <2>3. x = <<x[1], x[2]>> BY <2>1 DEF KeyOf
  <2>4. ToSet(SwitchesOf(x[1], x[2])) # {} BY <1>1, <2>2 DEF SwitchesConverted
  <2>5. ToSet(<<>>) = {} BY DEF ToSet
  <2> QED BY <2>3, <2>4, <2>5 DEF SwitchesOf
<1> QED BY <1>7, <1>8, <1>9 DEF all

LEMMA SwitchesAreSorted == ASSUME ScenarioInv PROVE SwitchesSorted
<1> USE DEF ScenarioInv
<1> DEFINE T == ToSet(AllSwitches)
           mine(x) == {y \in T : <<y.epoch, y.node>> = x}
<1> HIDE DEF T
<1> SUFFICES ASSUME pc = "done", NEW x \in DOMAIN switches
             PROVE  /\ Len(switches[x]) = Cardinality(mine(x)) /\ ToSet(switches[x]) = mine(x)
                    /\ InOrder(switches[x])
  BY NobodyDropped DEF SwitchesSorted, InOrder, T
<1>1. Converting BY DEF Converting
<1>2. sc \in Written BY ScenarioAssumption DEF SectionsChecked
<1>3. SwitchesValid(sc.starts) /\ SwitchesValid(sc.stops) BY <1>1 DEF SectionsChecked
<1>4. AllSwitches \in Seq(Switch) BY <1>2, <1>3, SwitchesPlaced
<1>5. /\ DOMAIN AllSwitches = 1..Len(AllSwitches) /\ Len(AllSwitches) \in Nat
      /\ \A m \in DOMAIN AllSwitches : AllSwitches[m] \in Switch
  BY <1>4
<1>6. \A y \in T : y.delay \in Nat /\ y.at \in Nat
  <2>1. T \subseteq Switch BY <1>5 DEF T, ToSet
  <2> QED BY <2>1 DEF Switch
<1>7. x \in Keys BY <1>1 DEF SwitchesConverted
<1>8. x = <<x[1], x[2]>> BY <1>7 DEF Keys, KeyOf
<1>9. SwitchesOf(x[1], x[2]) = switches[x] BY <1>8 DEF SwitchesOf
<1>10. /\ switches[x] \in Seq(T) /\ InOrder(switches[x])
       /\ ToSet(switches[x]) = ConvertedOf(x)
  BY <1>1, <1>7, <1>9 DEF SwitchesConverted, T
<1>11. Gone = Len(AllSwitches)
  <2>1. todo = <<>> BY DEF SwitchesConverted
  <2> QED BY <1>5, <2>1 DEF Gone
<1>12. ConvertedOf(x) = mine(x) BY <1>5, <1>11 DEF ConvertedOf, KeyOf, T, ToSet
<1>13. Len(switches[x]) = Cardinality(ToSet(switches[x])) BY <1>6, <1>10, InOrderCounts
<1> QED BY <1>10, <1>12, <1>13

\* A scenario that Load accepts means what its author wrote, whatever is in
\* it: the users of its ceremonies exist, nothing is overwritten, and each
\* node gets all its switches in order.
THEOREM ScenarioMeansWhatItSays == Spec => []MeansWhatItSays
<1>1. ScenarioInv => MeansWhatItSays
  BY UsersExist, NothingIsOverwritten, SwitchesAreSorted DEF MeansWhatItSays
<1> QED BY <1>1, ScenarioInvariance, PTL
=============================================================================
