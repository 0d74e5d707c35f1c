----------------------------- MODULE BotsProofs -----------------------------
(***************************************************************************)
(* What holds for any number of bots that run one network together.        *)
(* Fleet: all nodes are in one network, and the epochs of god bot and      *)
(* clients fit.  MultiBot: however often invites are asked for, no pool    *)
(* gets more members than it has room for, and delegatees own pools.       *)
(***************************************************************************)
EXTENDS MultiBot, Fleet, FiniteSetTheorems, SequenceTheorems,
        WellFoundedInduction, TLAPS

-----------------------------------------------------------------------------
(* Fleet: the inductive invariant                                          *)

\* The fields of the god bot are what its node has from its first start on.
GodFields ==
  /\ godPc \in {"create", "start"} =>
       godAddress = 0 /\ ipfsBootNode = 0 /\ ceremonyTime = 0
  /\ godAddress # 0 => godAddress = dir
  /\ ipfsBootNode # 0 => ipfsBootNode = dir
  /\ ceremonyTime # 0 => ceremonyTime = CeremonyTime
  /\ godPc \in {"ipfs", "time", "stop", "restart"} => godAddress = dir
  /\ godPc \in {"stop", "restart"} => ceremonyTime = CeremonyTime
  /\ Ready => genesis = <<dir, CeremonyTime>>

Past == {"users", "invites", "states", "capture", "poll", "test"}

\* What a client has learned is the god bot's field, which is set.
ClientsKnow ==
  \A c \in Clients :
    /\ cpc[c] \in Past \cup {"ipfs", "time"} =>
         godAddress # 0 /\ known[c].address = godAddress
    /\ cpc[c] \in Past \cup {"time"} =>
         ipfsBootNode # 0 /\ known[c].ipfs = ipfsBootNode
    /\ cpc[c] \in Past => ceremonyTime # 0 /\ known[c].time = ceremonyTime

\* The god bot is not ahead of the chain.  A client that polls waits for the
\* epoch of the chain while the god bot is still behind.
Epochs ==
  /\ testCounter <= chain
  /\ \A c \in Clients : captured[c] <= chain
  /\ \A c \in Clients : At(c, "poll") /\ testCounter < chain => captured[c] = chain

IInv == FleetTypeOK /\ GodFields /\ ClientsKnow /\ Epochs
          /\ EpochsInStep

LEMMA InitIInv == FleetInit => IInv
<1> SUFFICES ASSUME FleetInit PROVE IInv
  OBVIOUS
<1> USE FleetAssumption
<1>1. AddressRounds * ApiTries \in Nat /\ AddressRounds * ApiTries >= 1
  <2>1. \A a, b \in Nat \ {0} : a * b \in Nat /\ a * b >= 1
    OBVIOUS
  <2> QED BY <2>1
<1>2. FleetTypeOK
  BY <1>1 DEF FleetInit, FleetTypeOK, Unknown
<1> QED BY <1>2 DEF FleetInit, IInv, GodFields, ClientsKnow, Epochs, Ready, Past, At,
             EpochsInStep

-----------------------------------------------------------------------------
(* The steps                                                               *)

LEMMA TypeStep == FleetTypeOK /\ [FleetNext]_fleetVars => FleetTypeOK'
<1> SUFFICES ASSUME FleetTypeOK, [FleetNext]_fleetVars PROVE FleetTypeOK'
  OBVIOUS
<1> USE FleetAssumption DEF FleetTypeOK
<1>0. ApiTries \in 1..AddressRounds * ApiTries
  <2>1. \A a, b \in Nat \ {0} : a * b \in Nat /\ a * b >= b
    OBVIOUS
  <2> QED BY <2>1
<1>1. CASE GodStep
  BY <1>1 DEF GodStep, CreateGodUser, StartGodNode, InitGodAddress,
     InitIpfsBootNode, InitCeremonyTime, StopGodNode, RestartGodNode,
     GodBeginsTest, GodEndsTest, StartGod, clientVars
<1>2. CASE GodFails
  BY <1>2 DEF GodFails, GodExit, clientVars
<1>3. CASE Tick
  BY <1>3 DEF Tick, godVars, clientVars
<1>4. ASSUME NEW c \in Clients, HandleFail(c) PROVE FleetTypeOK'
  BY <1>4 DEF HandleFail, GodExit, clientVars
<1>5. ASSUME NEW c \in Clients, NEW p \in {"ipfs", "time", "users", "invites",
               "states", "capture", "poll", "test", "failing", "unheard", "exited"},
             Goto(c, p)
      PROVE /\ cpc' \in [Clients -> {"address", "ipfs", "time", "users", "invites",
                         "states", "capture", "poll", "test", "failing", "unheard",
                         "exited"}]
            /\ tries' \in [Clients -> 1..AddressRounds * ApiTries]
  BY <1>0, <1>5 DEF Goto
<1>6. ASSUME NEW c \in Clients,
             LearnGodAddress(c) \/ LearnIpfsBootNode(c) \/ LearnCeremonyTime(c)
      PROVE FleetTypeOK'
  <2>1. ASSUME NEW handler, NEW field \in {"address", "ipfs", "time"}, NEW value \in Nat,
               NEW next \in {"ipfs", "time", "users"}, Learn(c, handler, field, value, next)
        PROVE FleetTypeOK'
    <3>1. known' \in [Clients -> [address : Nat, ipfs : Nat, time : Nat]]
      BY <2>1 DEF Learn
    <3>2. UNCHANGED <<godVars, chain, invited, captured, fails, tolerant>>
      BY <2>1 DEF Learn
    <3>3. /\ cpc' \in [Clients -> {"address", "ipfs", "time", "users", "invites",
                         "states", "capture", "poll", "test", "failing", "unheard",
                         "exited"}]
          /\ tries' \in [Clients -> 1..AddressRounds * ApiTries]
      BY <1>5, <2>1 DEF Learn
    <3> QED BY <3>1, <3>2, <3>3 DEF godVars
  <2> QED BY <1>6, <2>1 DEF LearnGodAddress, LearnIpfsBootNode, LearnCeremonyTime
<1>7. ASSUME NEW c \in Clients, NoAnswer(c) \/ NotifyUnanswered(c) PROVE FleetTypeOK'
  <2>1. PICK p \in {"failing", "unheard"} : Retry(c, p)
    BY <1>7 DEF NoAnswer, NotifyUnanswered
  <2>2. /\ cpc' \in [Clients -> {"address", "ipfs", "time", "users", "invites",
                         "states", "capture", "poll", "test", "failing", "unheard",
                         "exited"}]
        /\ tries' \in [Clients -> 1..AddressRounds * ApiTries]
    <3>1. CASE tries[c] > 1
      <4>1. tries' = [tries EXCEPT ![c] = tries[c] - 1] /\ UNCHANGED cpc
        BY <2>1, <3>1 DEF Retry
      <4>2. tries[c] - 1 \in 1..AddressRounds * ApiTries
        BY <3>1, <1>0
      <4> QED BY <4>1, <4>2
    <3>2. CASE ~(tries[c] > 1)
      BY <1>5, <2>1, <3>2 DEF Retry
    <3> QED BY <3>1, <3>2
  <2>3. /\ UNCHANGED <<godVars, chain, known, invited, captured, tolerant>>
        /\ fails' \subseteq Clients
    BY <1>7 DEF NoAnswer, NotifyUnanswered
  <2> QED BY <2>2, <2>3 DEF godVars
<1>8. ASSUME NEW c \in Clients, StartNodes(c) \/ GotStates(c) \/ StatesTimeout(c)
               \/ Polled(c) \/ EndTest(c) \/ Fail(c)
      PROVE FleetTypeOK'
  BY <1>5, <1>8 DEF StartNodes, GotStates, StatesTimeout, Polled, EndTest, Fail,
     godVars
<1>9. ASSUME NEW c \in Clients, CreateInvites(c) \/ Capture(c) \/ Notify(c)
      PROVE FleetTypeOK'
  <2>1. CASE CreateInvites(c)
    <3>1. invited' \in [Clients -> BOOLEAN]
      <4>1. invited' = [invited EXCEPT ![c] = Ready]
        BY <2>1 DEF CreateInvites
      <4>2. Ready \in BOOLEAN
        BY DEF Ready
      <4>3. invited \in [Clients -> BOOLEAN]
        OBVIOUS
      <4> HIDE FleetAssumption DEF FleetTypeOK
      <4> QED BY <4>1, <4>2, <4>3
    <3> QED BY <1>5, <2>1, <3>1 DEF CreateInvites, godVars
  <2>2. CASE Capture(c)
    BY <1>5, <2>2 DEF Capture, godVars
  <2>3. CASE Notify(c)
    BY <1>5, <2>3 DEF Notify, godVars
  <2> QED BY <1>9, <2>1, <2>2, <2>3
<1>10. CASE UNCHANGED fleetVars
  BY <1>10 DEF fleetVars, godVars, clientVars
<1> QED BY <1>1, <1>2, <1>3, <1>4, <1>6, <1>7, <1>8, <1>9, <1>10
        DEF FleetNext, ClientStep, PollAgain, FleetEnded

\* A step of a client leaves the god bot and the chain alone.
LEMMA ClientStepsKeepGod ==
  ASSUME NEW c \in Clients, ClientStep(c) \/ EndTest(c) \/ Fail(c)
  PROVE  UNCHANGED <<godPc, dir, godNode, genesis, godAddress, ipfsBootNode,
                     ceremonyTime, testCounter, chain>>
BY DEF ClientStep, EndTest, Fail, LearnGodAddress, LearnIpfsBootNode,
   LearnCeremonyTime, Learn, NoAnswer, StartNodes, CreateInvites, GotStates,
   StatesTimeout, Capture, Polled, Notify, NotifyUnanswered, Retry, godVars

\* A step of the god bot or of the chain leaves the clients alone.
LEMMA GodStepsKeepClients ==
  ASSUME GodStep \/ GodFails \/ Tick \/ \E c \in Clients : HandleFail(c)
  PROVE  UNCHANGED <<cpc, known, captured>>
BY DEF GodStep, CreateGodUser, StartGodNode, InitGodAddress, InitIpfsBootNode,
   InitCeremonyTime, StopGodNode, RestartGodNode, GodBeginsTest, GodEndsTest,
   GodFails, Tick, HandleFail, clientVars

LEMMA GodFieldsStep == FleetTypeOK /\ GodFields /\ [FleetNext]_fleetVars => GodFields'
<1> SUFFICES ASSUME FleetTypeOK, GodFields, [FleetNext]_fleetVars PROVE GodFields'
  OBVIOUS
<1> USE FleetAssumption DEF FleetTypeOK, GodFields, Ready
<1>1. CASE CreateGodUser \/ StartGodNode \/ InitGodAddress \/ InitIpfsBootNode
             \/ InitCeremonyTime
  BY <1>1 DEF CreateGodUser, StartGodNode, InitGodAddress, InitIpfsBootNode,
     InitCeremonyTime, StartGod
<1>2. CASE StopGodNode \/ RestartGodNode \/ GodBeginsTest \/ GodEndsTest
  BY <1>2 DEF StopGodNode, RestartGodNode, GodBeginsTest, GodEndsTest, StartGod
<1>3. CASE GodFails
  BY <1>3 DEF GodFails, GodExit
<1>4. CASE Tick
  BY <1>4 DEF Tick, godVars
<1>5. ASSUME NEW c \in Clients, HandleFail(c) PROVE GodFields'
  BY <1>5 DEF HandleFail, GodExit
<1>6. ASSUME NEW c \in Clients, ClientStep(c) \/ EndTest(c) \/ Fail(c)
      PROVE GodFields'
  BY <1>6, ClientStepsKeepGod
<1>7. CASE UNCHANGED fleetVars
  BY <1>7 DEF fleetVars, godVars
<1> QED BY <1>1, <1>2, <1>3, <1>4, <1>5, <1>6, <1>7
        DEF FleetNext, GodStep, PollAgain, FleetEnded

LEMMA ClientsKnowStep ==
  FleetTypeOK /\ GodFields /\ ClientsKnow /\ [FleetNext]_fleetVars => ClientsKnow'
<1> SUFFICES ASSUME FleetTypeOK, GodFields, ClientsKnow, [FleetNext]_fleetVars PROVE ClientsKnow'
  OBVIOUS
<1> USE FleetAssumption DEF FleetTypeOK, ClientsKnow, Past
\* The fields of the god bot do not change once they are set.
<1>1. /\ godAddress # 0 => godAddress' = godAddress
      /\ ipfsBootNode # 0 => ipfsBootNode' = ipfsBootNode
      /\ ceremonyTime # 0 => ceremonyTime' = ceremonyTime
  <2>1. CASE GodStep
    BY <2>1 DEF GodStep, CreateGodUser, StartGodNode, InitGodAddress,
       InitIpfsBootNode, InitCeremonyTime, StopGodNode, RestartGodNode,
       GodBeginsTest, GodEndsTest, GodFields
  <2>2. CASE GodFails \/ Tick \/ \E c \in Clients : HandleFail(c)
    BY <2>2 DEF GodFails, Tick, HandleFail, godVars
  <2>3. CASE \E c \in Clients : ClientStep(c) \/ EndTest(c) \/ Fail(c)
    BY <2>3, ClientStepsKeepGod
  <2>4. CASE UNCHANGED fleetVars
    BY <2>4 DEF fleetVars, godVars
  <2> QED BY <2>1, <2>2, <2>3, <2>4 DEF FleetNext, PollAgain, FleetEnded
<1>2. CASE GodStep \/ GodFails \/ Tick \/ \E c \in Clients : HandleFail(c)
  BY <1>1, <1>2, GodStepsKeepClients
<1>3. ASSUME NEW c \in Clients, LearnGodAddress(c) PROVE ClientsKnow'
  BY <1>3 DEF LearnGodAddress, Learn, ApiAnswer, GetGodAddress, At, Goto, godVars
<1>4. ASSUME NEW c \in Clients, LearnIpfsBootNode(c) PROVE ClientsKnow'
  BY <1>4 DEF LearnIpfsBootNode, Learn, ApiAnswer, GetIpfsBootNode, At, Goto, godVars
<1>5. ASSUME NEW c \in Clients, LearnCeremonyTime(c) PROVE ClientsKnow'
  BY <1>5 DEF LearnCeremonyTime, Learn, ApiAnswer, GetCeremonyTime, At, Goto, godVars
<1>6. ASSUME NEW c \in Clients, NoAnswer(c) \/ NotifyUnanswered(c) PROVE ClientsKnow'
  BY <1>6 DEF NoAnswer, NotifyUnanswered, Retry, At, Goto, godVars
<1>7. ASSUME NEW c \in Clients,
             \/ StartNodes(c) \/ CreateInvites(c) \/ GotStates(c)
             \/ StatesTimeout(c) \/ Capture(c) \/ Polled(c) \/ Notify(c)
             \/ EndTest(c) \/ Fail(c)
      PROVE ClientsKnow'
  BY <1>7 DEF StartNodes, CreateInvites, GotStates, StatesTimeout, Capture,
     Polled, Notify, EndTest, Fail, At, Goto, godVars
<1>8. CASE UNCHANGED fleetVars
  BY <1>8 DEF fleetVars, godVars, clientVars
<1> QED BY <1>2, <1>3, <1>4, <1>5, <1>6, <1>7, <1>8
        DEF FleetNext, ClientStep, PollAgain, FleetEnded

LEMMA EpochsStep ==
  FleetTypeOK /\ Epochs /\ EpochsInStep /\ [FleetNext]_fleetVars
    => Epochs' /\ EpochsInStep'
<1> SUFFICES ASSUME FleetTypeOK, Epochs, EpochsInStep, [FleetNext]_fleetVars
             PROVE  Epochs' /\ EpochsInStep'
  OBVIOUS
<1> USE FleetAssumption DEF FleetTypeOK, Epochs, EpochsInStep, At
<1>1. CASE GodEndsTest
  BY <1>1, GodStepsKeepClients DEF GodStep, GodEndsTest
<1>2. CASE Tick
  <2>1. /\ chain' = chain + 1 /\ testCounter = chain
        /\ UNCHANGED <<testCounter, cpc, captured>>
    BY <1>2, GodStepsKeepClients DEF Tick, Prompt, godVars
  <2>2. \A c \in Clients : cpc[c] # "poll"
    <3> SUFFICES ASSUME NEW c \in Clients, cpc[c] = "poll" PROVE FALSE
      OBVIOUS
    <3>1. captured[c] # testCounter
      BY <1>2 DEF Tick, Prompt
    <3>2. captured[c] >= testCounter /\ captured[c] <= chain
      OBVIOUS
    <3>3. captured[c] \in Nat /\ testCounter \in Nat /\ testCounter = chain
      BY <2>1
    <3> HIDE DEF FleetTypeOK, Epochs, EpochsInStep
    <3> QED BY <3>1, <3>2, <3>3
  <2>3. Epochs'
    <3>1. \A c \in Clients : captured[c] <= chain + 1
      OBVIOUS
    <3> QED BY <2>1, <2>2, <3>1
  <2>4. EpochsInStep'
    BY <2>1, <2>2
  <2> QED BY <2>3, <2>4
<1>3. CASE \/ GodStep /\ ~GodEndsTest
           \/ GodFails \/ \E c \in Clients : HandleFail(c)
  <2>1. UNCHANGED <<testCounter, chain>>
    BY <1>3 DEF GodStep, CreateGodUser, StartGodNode, InitGodAddress,
       InitIpfsBootNode, InitCeremonyTime, StopGodNode, RestartGodNode,
       GodBeginsTest, GodFails, HandleFail
  <2> QED BY <1>3, <2>1, GodStepsKeepClients
<1>4. ASSUME NEW c \in Clients, Capture(c)
      PROVE Epochs' /\ EpochsInStep'
  BY <1>4 DEF Capture, Goto, godVars
<1>5. ASSUME NEW c \in Clients, Polled(c)
      PROVE Epochs' /\ EpochsInStep'
  BY <1>5 DEF Polled, Goto, godVars
<1>6. ASSUME NEW c \in Clients,
             \/ LearnGodAddress(c) \/ LearnIpfsBootNode(c)
             \/ LearnCeremonyTime(c) \/ NoAnswer(c) \/ StartNodes(c)
             \/ CreateInvites(c) \/ GotStates(c) \/ StatesTimeout(c)
             \/ Notify(c) \/ NotifyUnanswered(c) \/ EndTest(c) \/ Fail(c)
      PROVE Epochs' /\ EpochsInStep'
  BY <1>6 DEF LearnGodAddress, LearnIpfsBootNode, LearnCeremonyTime, Learn,
     NoAnswer, StartNodes, CreateInvites, GotStates, StatesTimeout, Notify,
     NotifyUnanswered, Retry, EndTest, Fail, Goto, godVars
<1>7. CASE UNCHANGED fleetVars
  BY <1>7 DEF fleetVars, godVars, clientVars
<1> QED BY <1>1, <1>2, <1>3, <1>4, <1>5, <1>6, <1>7
        DEF FleetNext, ClientStep, PollAgain, FleetEnded

LEMMA NextIInv == IInv /\ [FleetNext]_fleetVars => IInv'
BY TypeStep, GodFieldsStep, ClientsKnowStep, EpochsStep DEF IInv

LEMMA AlwaysIInv == FleetSpec => []IInv
BY InitIInv, NextIInv, PTL DEF FleetSpec

-----------------------------------------------------------------------------
(* The theorems                                                            *)

\* All variables keep their types; no request makes more attempts than
\* sendRequest of apiclient allows.
THEOREM FleetTypeCorrect == FleetSpec => []FleetTypeOK
<1>1. IInv => FleetTypeOK
  BY DEF IInv
<1> QED BY <1>1, AlwaysIInv, PTL

\* Every client node is started with the key, the boot node and the ceremony
\* time of the restarted god node, whenever its bot has asked for them.
THEOREM OneNetworkForAll == FleetSpec => []OneNetwork
<1>1. IInv => OneNetwork
  <2> SUFFICES ASSUME IInv PROVE OneNetwork
    OBVIOUS
  <2>1. Ready => genesis = <<dir, CeremonyTime>>
    BY DEF IInv, GodFields
  <2>2. ASSUME NEW c \in Clients, Started(c)
        PROVE known[c] = [address |-> dir, ipfs |-> dir, time |-> CeremonyTime]
    <3>1. cpc[c] \in Past
      BY <2>2 DEF Started, Past
    <3>2. known[c].address = dir /\ known[c].ipfs = dir /\ known[c].time = CeremonyTime
      BY <3>1 DEF IInv, GodFields, ClientsKnow, Past
    <3>3. known[c] \in [address : Nat, ipfs : Nat, time : Nat]
      BY DEF IInv, FleetTypeOK
    <3> QED BY <3>2, <3>3
  <2> QED BY <2>1, <2>2 DEF OneNetwork
<1> QED BY <1>1, AlwaysIInv, PTL

\* No client begins the test of an epoch before the god bot, and none waits
\* for an epoch that the god bot has left.
THEOREM ClientsInStep == FleetSpec => []EpochsInStep
<1>1. IInv => EpochsInStep
  BY DEF IInv
<1> QED BY <1>1, AlwaysIInv, PTL

-----------------------------------------------------------------------------
(* MultiBot: the loop of createInvites, by induction over its turns        *)

\* A set of numbers that is not empty has a least one.
LEMMA Least ==
  ASSUME NEW S \in SUBSET Nat, S # {}
  PROVE  \E m \in S : \A n \in S : m <= n
<1>1. IsWellFoundedOn(OpToRel(<, Nat), Nat) BY NatLessThanWellFounded
<1>2. \E x \in S : \A y \in S : ~(<<y, x>> \in OpToRel(<, Nat)) BY <1>1, WFMin
<1>3. PICK x \in S : \A y \in S : ~(<<y, x>> \in OpToRel(<, Nat)) BY <1>2
<1>4. \A y \in S : ~(y < x) BY <1>3 DEF OpToRel
<1> QED BY <1>4

Turns(l, f, n) ==
  f = [k \in 0..n |-> IF k = 0 THEN [left |-> l, list |-> <<>>] ELSE Placed(f[k - 1])]

\* The loop of createInvites has a result, however many turns it takes.
LEMMA TurnsExist == ASSUME NEW l, NEW n \in Nat PROVE \E f : Turns(l, f, n)
<1> DEFINE S == {m \in Nat : ~\E f : Turns(l, f, m)}
           first == [left |-> l, list |-> <<>>]
<1> SUFFICES ASSUME S # {} PROVE FALSE OBVIOUS
<1>1. PICK m \in S : \A o \in S : m <= o BY Least
<1>2. Turns(l, [k \in 0..0 |-> first], 0) BY DEF Turns
<1>3. m # 0 BY <1>2
<1>4. m - 1 \in Nat /\ m - 1 \notin S BY <1>1, <1>3
<1>5. PICK f : Turns(l, f, m - 1) BY <1>4
<1> DEFINE g == [k \in 0..m |-> IF k = m THEN Placed(f[m - 1]) ELSE f[k]]
<1>6. ASSUME NEW k \in 0..m
      PROVE  g[k] = IF k = 0 THEN first ELSE Placed(g[k - 1])
  <2>1. CASE k = m
    <3>1. m - 1 \in 0..m /\ m - 1 # m BY <1>4
    <3>2. g[m - 1] = f[m - 1] BY <3>1
    <3> QED BY <1>3, <2>1, <3>2
  <2>2. CASE k # m
    <3>1. k \in 0..(m - 1) BY <2>2
    <3>2. f[k] = IF k = 0 THEN first ELSE Placed(f[k - 1]) BY <1>5, <3>1 DEF Turns
    <3>3. k # 0 => g[k - 1] = f[k - 1] BY <3>1
    <3> QED BY <2>2, <3>2, <3>3
  <2> QED BY <2>1, <2>2
<1>7. g = [k \in 0..m |-> IF k = 0 THEN first ELSE Placed(g[k - 1])]
  <2>1. g = [k \in 0..m |-> g[k]] OBVIOUS
  <2> HIDE DEF g, first
  <2> QED BY <1>6, <2>1
<1>8. Turns(l, g, m) BY <1>7 DEF Turns
<1> QED BY <1>8

LEMMA RoomIsLast ==
  ASSUME NEW l
  PROVE  \E f : Turns(l, f, Share) /\ Room(l) = f[Share]
<1>1. Share \in Nat BY MultiBotAssumption
<1>2. \E f : Turns(l, f, Share) BY <1>1, TurnsExist
<1> QED BY <1>2 DEF Room, Turns

\* The pool that is found is the first one with room.
LEMMA FirstWithRoom ==
  ASSUME NEW l \in [Pools -> Nat]
  PROVE  \/ WithRoom(l) = 0
         \/ /\ WithRoom(l) \in Pools /\ l[WithRoom(l)] > 0
            /\ \A o \in 1..(WithRoom(l) - 1) : l[o] = 0
<1>1. Pools = 1..Len(Sizes) /\ Len(Sizes) \in Nat
  BY MultiBotAssumption, LenProperties DEF Pools
<1>2. CASE \A p \in Pools : l[p] = 0 BY <1>2 DEF WithRoom
<1>3. CASE ~\A p \in Pools : l[p] = 0
  <2> DEFINE S == {p \in Pools : l[p] > 0}
  <2>1. S \in SUBSET Nat /\ S # {} BY <1>1, <1>3
  <2>2. \E m \in S : \A n \in S : m <= n BY <2>1, Least
  <2>3. \E p \in Pools : l[p] > 0 /\ \A o \in Pools : l[o] > 0 => p <= o BY <2>2
  <2>4. WithRoom(l) = CHOOSE p \in Pools : l[p] > 0 /\ \A o \in Pools : l[o] > 0 => p <= o
    BY <1>3 DEF WithRoom
  <2>5. /\ WithRoom(l) \in Pools /\ l[WithRoom(l)] > 0
        /\ \A o \in Pools : l[o] > 0 => WithRoom(l) <= o
    BY <2>3, <2>4
  <2>6. ASSUME NEW o \in 1..(WithRoom(l) - 1) PROVE l[o] = 0
    <3>1. o \in Pools /\ ~(WithRoom(l) <= o) BY <1>1, <2>5
    <3>2. l[o] \in Nat BY <3>1
    <3> QED BY <2>5, <3>1, <3>2
  <2> QED BY <2>5, <2>6
<1> QED BY <1>2, <1>3

\* What the loop has found for its first n delegators: what a pool has less,
\* it was given to, and to none before the pools in front of it were full.
PlacesOf(list, p) == {j \in 1..Len(list) : list[j] = p}
Fits(l, a, n) ==
  /\ a.left \in [Pools -> Nat] /\ a.list \in Seq(Pools) /\ Len(a.list) <= n
  /\ \A p \in Pools :
       /\ Cardinality(PlacesOf(a.list, p)) + a.left[p] = l[p]
       /\ PlacesOf(a.list, p) # {} => \A o \in 1..(p - 1) : a.left[o] = 0

LEMMA PlacesFinite ==
  ASSUME NEW list \in Seq(Pools), NEW p
  PROVE  IsFiniteSet(PlacesOf(list, p)) /\ Cardinality(PlacesOf(list, p)) \in Nat
<1>1. Len(list) \in Nat BY LenProperties
<1>2. IsFiniteSet(1..Len(list)) BY <1>1, FS_Interval
<1>3. PlacesOf(list, p) \in SUBSET (1..Len(list)) BY DEF PlacesOf
<1> QED BY <1>2, <1>3, FS_Subset, FS_CardinalityType

\* One delegator more.
LEMMA PlacedFits ==
  ASSUME NEW l \in [Pools -> Nat], NEW a, NEW n \in Nat, Fits(l, a, n)
  PROVE  Fits(l, Placed(a), n + 1)
<1> DEFINE w == WithRoom(a.left)
<1>1. /\ a.left \in [Pools -> Nat] /\ a.list \in Seq(Pools) /\ Len(a.list) <= n
      /\ Len(a.list) \in Nat
  BY LenProperties DEF Fits
<1>2. Pools = 1..Len(Sizes) /\ Len(Sizes) \in Nat
  BY MultiBotAssumption, LenProperties DEF Pools
<1>3. CASE w = 0
  <2>1. Placed(a) = a BY <1>3 DEF Placed
  <2>2. Len(a.list) <= n + 1 BY <1>1
  <2> QED BY <2>1, <2>2 DEF Fits
<1>4. CASE w # 0
  <2>1. /\ w \in Pools /\ a.left[w] > 0
        /\ \A o \in 1..(w - 1) : a.left[o] = 0
    BY <1>1, <1>4, FirstWithRoom
  <2> DEFINE left2 == [a.left EXCEPT ![w] = @ - 1]
             list2 == Append(a.list, w)
  <2>2. Placed(a) = [left |-> left2, list |-> list2] BY <1>4 DEF Placed
  <2>3. Placed(a).left = left2 /\ Placed(a).list = list2 BY <2>2
  <2>4. left2 \in [Pools -> Nat] /\ left2[w] = a.left[w] - 1
        /\ \A p \in Pools \ {w} : left2[p] = a.left[p]
    BY <1>1, <2>1
  <2>5. list2 \in Seq(Pools) /\ Len(list2) = Len(a.list) + 1
        /\ (\A j \in 1..Len(a.list) : list2[j] = a.list[j]) /\ list2[Len(a.list) + 1] = w
    BY <1>1, <2>1, AppendProperties
  <2> HIDE DEF w, left2, list2
  <2>6. \A p, j : j \in PlacesOf(list2, p) <=>
                  j \in PlacesOf(a.list, p) \/ (j = Len(a.list) + 1 /\ p = w)
    <3> SUFFICES ASSUME NEW p, NEW j
                 PROVE  j \in PlacesOf(list2, p) <=>
                          j \in PlacesOf(a.list, p) \/ (j = Len(a.list) + 1 /\ p = w)
      OBVIOUS
    <3>1. j \in 1..Len(list2) <=> j \in 1..Len(a.list) \/ j = Len(a.list) + 1
      <4>1. Len(a.list) \in Nat BY <1>1
      <4>2. \A x \in Nat : j \in 1..(x + 1) <=> j \in 1..x \/ j = x + 1 OBVIOUS
      <4> QED BY <2>5, <4>1, <4>2, Zenon
    <3>2. CASE j \in 1..Len(a.list) BY <1>1, <2>5, <3>1, <3>2 DEF PlacesOf
    <3>3. CASE j = Len(a.list) + 1 BY <1>1, <2>5, <3>1, <3>3 DEF PlacesOf
    <3> QED BY <3>1, <3>2, <3>3 DEF PlacesOf
  <2>7. Cardinality(PlacesOf(list2, w)) = Cardinality(PlacesOf(a.list, w)) + 1
    <3>1. PlacesOf(list2, w) = PlacesOf(a.list, w) \cup {Len(a.list) + 1} BY <2>6
    <3>2. Len(a.list) + 1 \notin PlacesOf(a.list, w) BY <1>1 DEF PlacesOf
    <3> QED BY <1>1, <3>1, <3>2, PlacesFinite, FS_AddElement
  <2>8. \A p \in Pools \ {w} : PlacesOf(list2, p) = PlacesOf(a.list, p)
    <3> TAKE p \in Pools \ {w}
    <3>1. PlacesOf(list2, p) \subseteq PlacesOf(a.list, p) BY <2>6
    <3>2. PlacesOf(a.list, p) \subseteq PlacesOf(list2, p) BY <2>6
    <3> QED BY <3>1, <3>2
  <2>9. ASSUME NEW p \in Pools
        PROVE  /\ Cardinality(PlacesOf(list2, p)) + left2[p] = l[p]
               /\ PlacesOf(list2, p) # {} => \A o \in 1..(p - 1) : left2[o] = 0
    <3>1. Cardinality(PlacesOf(a.list, p)) + a.left[p] = l[p]
          /\ (PlacesOf(a.list, p) # {} => \A o \in 1..(p - 1) : a.left[o] = 0)
      BY DEF Fits
    <3>2. Cardinality(PlacesOf(a.list, p)) \in Nat /\ a.left[p] \in Nat
      BY <1>1, PlacesFinite
    <3>3. CASE p = w
      <4>1. Cardinality(PlacesOf(list2, p)) + left2[p] = l[p]
        BY <2>4, <2>7, <3>1, <3>2, <3>3
      <4>2. \A o \in 1..(w - 1) : o \in Pools \ {w} BY <1>2, <2>1
      <4>3. \A o \in 1..(w - 1) : left2[o] = 0 BY <2>1, <2>4, <4>2
      <4> QED BY <3>3, <4>1, <4>3
    <3>4. CASE p # w
      <4>1. Cardinality(PlacesOf(list2, p)) + left2[p] = l[p]
        BY <2>4, <2>8, <3>1, <3>4
      <4>2. ASSUME PlacesOf(list2, p) # {}, NEW o \in 1..(p - 1) PROVE left2[o] = 0
        <5>1. a.left[o] = 0 BY <2>8, <3>1, <3>4, <4>2
        <5>2. o \in Pools /\ o # w BY <1>2, <2>1, <5>1
        <5> QED BY <2>4, <5>1, <5>2
      <4> QED BY <4>1, <4>2
    <3> QED BY <3>3, <3>4
  <2>10. Len(list2) <= n + 1 BY <1>1, <2>5
  <2> QED BY <2>3, <2>4, <2>5, <2>9, <2>10 DEF Fits
<1> QED BY <1>3, <1>4

\* What is given to the delegators of a request.
LEMMA RoomFits ==
  ASSUME NEW l \in [Pools -> Nat]
  PROVE  Fits(l, Room(l), Share)
<1>1. Share \in Nat BY MultiBotAssumption
<1>2. PICK f : Turns(l, f, Share) /\ Room(l) = f[Share] BY RoomIsLast
<1> DEFINE S == {n \in 0..Share : ~Fits(l, f[n], n)}
<1> SUFFICES ASSUME S # {} PROVE FALSE BY <1>1, <1>2
<1>3. S \in SUBSET Nat BY <1>1
<1>4. PICK m \in S : \A o \in S : m <= o BY <1>3, Least
<1>5. m \in 0..Share /\ ~Fits(l, f[m], m) OBVIOUS
<1>6. f[m] = IF m = 0 THEN [left |-> l, list |-> <<>>] ELSE Placed(f[m - 1])
  BY <1>2, <1>5 DEF Turns
<1>7. m # 0
  <2> SUFFICES ASSUME m = 0 PROVE FALSE OBVIOUS
  <2>1. f[0].left = l /\ f[0].list = <<>> BY <1>6
  <2>2. <<>> \in Seq(Pools) /\ Len(<<>>) = 0 BY EmptySeq
  <2>3. \A p \in Pools : PlacesOf(<<>>, p) = {} BY <2>2 DEF PlacesOf
  <2>4. \A p \in Pools : Cardinality(PlacesOf(<<>>, p)) + l[p] = l[p]
    BY <2>3, FS_EmptySet
  <2>5. Fits(l, f[0], 0) BY <2>1, <2>2, <2>3, <2>4 DEF Fits
  <2> QED BY <1>5, <2>5
<1>8. m - 1 \in Nat /\ m - 1 \in 0..Share /\ m - 1 < m BY <1>1, <1>5, <1>7
<1>9. Fits(l, f[m - 1], m - 1) BY <1>3, <1>4, <1>8
<1>10. Fits(l, Placed(f[m - 1]), m - 1 + 1) BY <1>8, <1>9, PlacedFits
<1>11. m - 1 + 1 = m BY <1>8
<1> QED BY <1>5, <1>6, <1>7, <1>10, <1>11

-----------------------------------------------------------------------------
(* MultiBot: the inductive invariant                                       *)

\* Whatever the god bot handles or has handled was sent, in an attempt that is
\* not later than the one the client is at.
SameRequest(q, r) == q.bot = r.bot /\ q.round = r.round /\ q.try = r.try
WasSent(q) == \/ q.round < round[q.bot]
              \/ q.round = round[q.bot] /\ q.try <= try[q.bot]
RequestsSent == /\ \A q \in handling : WasSent(q)
                /\ \A d \in told : WasSent(d.request)

\* An attempt is handled once: not twice at a time, and not again after its
\* delegators have pools.
HandledOnce ==
  /\ \A q, r \in handling : SameRequest(q, r) => q = r
  /\ \A q \in handling, d \in told : ~SameRequest(q, d.request)

TriesLeft == \A b \in Bots : /\ pc[b] = "idle" => try[b] = 0
                             /\ pc[b] = "retry" => try[b] < Tries

\* Owners stay, so what an answer says is still true when it arrives.
Owners == {owners[p] : p \in DOMAIN owners}
RepliesOwned == \A m \in replies : \A k \in DOMAIN m.list : m.list[k] \in Owners

PoolsInv == /\ TypeOK /\ TriesLeft /\ RequestsSent /\ HandledOnce /\ RepliesOwned
            /\ IsFiniteSet(told) /\ PoolsNotOverfilled /\ DelegateesOwnPools

LEMMA PoolNumbers == Pools = 1..Len(Sizes) /\ Len(Sizes) \in Nat /\ Sizes \in [Pools -> Nat]
BY MultiBotAssumption, LenProperties DEF Pools

\* The users of a request are users of its bot.
LEMMA UserOfTyped ==
  ASSUME NEW b \in Bots, NEW r \in 1..Rounds, NEW n \in 1..Count
  PROVE  UserOf(b, r, n) \in Users
<1>1. Rounds \in Nat /\ Count \in Nat /\ r \in Nat /\ r >= 1 /\ r <= Rounds
  BY MultiBotAssumption
<1>2. (r - 1) * Count \in Nat /\ (r - 1) * Count + Count = r * Count BY <1>1
<1>3. r * Count <= Rounds * Count BY <1>1
<1>4. (r - 1) * Count + n \in 1..(Rounds * Count) BY <1>1, <1>2, <1>3
<1> QED BY <1>4 DEF UserOf, Users

LEMMA PoolsInitially == Init => PoolsInv
<1> SUFFICES ASSUME Init PROVE PoolsInv OBVIOUS
<1> USE DEF Init
<1>1. TypeOK
  <2>1. Rounds \in Nat \ {0} /\ Tries \in Nat \ {0} BY MultiBotAssumption
  <2>2. left \in [Pools -> Nat] BY PoolNumbers
  <2>3. owners \in Seq(Users) BY EmptySeq
  <2>4. delegatee \in [Users -> Users \cup {NoUser}] OBVIOUS
  <2> QED BY <2>1, <2>2, <2>3, <2>4 DEF TypeOK
<1>2. TriesLeft BY DEF TriesLeft
<1>3. RequestsSent /\ HandledOnce /\ RepliesOwned
  BY DEF RequestsSent, HandledOnce, RepliesOwned
<1>4. IsFiniteSet(told) BY FS_EmptySet
<1>5. PoolsNotOverfilled
  <2>1. \A p \in Pools : GivenTo(p) = {} BY DEF GivenTo
  <2>2. \A p \in Pools : left[p] \in Nat /\ left[p] = Sizes[p] BY PoolNumbers
  <2>3. \A p \in Pools : Cardinality(GivenTo(p)) = 0 BY <2>1, FS_EmptySet
  <2> QED BY <2>1, <2>2, <2>3 DEF PoolsNotOverfilled
<1>6. DelegateesOwnPools BY DEF DelegateesOwnPools
<1> QED BY <1>1, <1>2, <1>3, <1>4, <1>5, <1>6 DEF PoolsInv

\* An attempt that is new.
LEMMA SendKeeps == ASSUME PoolsInv, NEW b \in Bots, Send(b) PROVE PoolsInv'
<1> PICK new : new = [bot |-> b, round |-> round[b], try |-> try[b] + 1, phase |-> "invite"]
  OBVIOUS
<1>1. TypeOK /\ TriesLeft /\ RequestsSent /\ HandledOnce /\ RepliesOwned
      /\ IsFiniteSet(told) /\ PoolsNotOverfilled /\ DelegateesOwnPools
  BY DEF PoolsInv
<1>2. /\ pc \in [Bots -> {"idle", "waiting", "retry", "done", "failed"}]
      /\ round \in [Bots -> 1..Rounds] /\ try \in [Bots -> 0..Tries]
      /\ handling \subseteq Requests
  BY <1>1 DEF TypeOK
<1>3. /\ pc[b] \in {"idle", "retry"} /\ pc' = [pc EXCEPT ![b] = "waiting"]
      /\ try' = [try EXCEPT ![b] = @ + 1] /\ round' = round
      /\ UNCHANGED <<replies, left, owners, told, delegatee>>
  BY DEF Send
<1>4. try'[b] = try[b] + 1 BY <1>2, <1>3
<1>5. handling' = handling \/ handling' = handling \cup {new} BY <1>4 DEF Send
<1>6. Tries \in Nat \ {0} /\ Rounds \in Nat BY MultiBotAssumption
<1>7. try[b] + 1 \in 1..Tries BY <1>1, <1>2, <1>3, <1>6 DEF TriesLeft
<1>8. new \in Requests /\ new.bot = b /\ new.round = round[b] /\ new.try = try[b] + 1
  BY <1>2, <1>7 DEF Requests
<1>9. try' \in [Bots -> 0..Tries] BY <1>2, <1>3, <1>6, <1>7
<1>10. TypeOK' BY <1>1, <1>2, <1>3, <1>5, <1>8, <1>9 DEF TypeOK
<1>11. TriesLeft' BY <1>1, <1>2, <1>3 DEF TriesLeft
<1>12. ASSUME NEW q \in Requests, WasSent(q)
       PROVE  WasSent(q)' /\ ~SameRequest(new, q)
  <2>1. q.bot \in Bots /\ q.try \in Nat /\ q.round \in Nat BY <1>6 DEF Requests
  <2>2. try[q.bot] \in Nat /\ round[q.bot] \in Nat BY <1>2, <1>6, <2>1
  <2>3. try[q.bot] <= try'[q.bot] BY <1>2, <1>3, <2>1, <2>2
  <2>4. try'[q.bot] \in Nat BY <1>6, <1>9, <2>1
  <2>5. WasSent(q)' BY <1>3, <1>12, <2>1, <2>2, <2>3, <2>4 DEF WasSent
  <2>6. ~SameRequest(new, q) BY <1>8, <1>12, <2>1, <2>2 DEF WasSent, SameRequest
  <2> QED BY <2>5, <2>6
<1>13. WasSent(new)'
  <2>1. try[b] + 1 \in Nat BY <1>7
  <2> QED BY <1>3, <1>4, <1>8, <2>1 DEF WasSent
<1>14. \A d \in told : d.request \in Requests /\ WasSent(d.request)
  BY <1>1 DEF TypeOK, RequestsSent
<1>15. \A q \in handling : q \in Requests /\ WasSent(q) BY <1>1, <1>2 DEF RequestsSent
<1>16. RequestsSent' BY <1>3, <1>5, <1>12, <1>13, <1>14, <1>15 DEF RequestsSent
<1>17. HandledOnce'
  <2>1. \A q \in handling : ~SameRequest(new, q) /\ ~SameRequest(q, new)
    BY <1>12, <1>15 DEF SameRequest
  <2>2. \A d \in told : ~SameRequest(new, d.request) BY <1>12, <1>14
  <2> QED BY <1>1, <1>3, <1>5, <2>1, <2>2 DEF HandledOnce
<1>18. RepliesOwned' BY <1>1, <1>3 DEF RepliesOwned, Owners
<1>19. PoolsNotOverfilled' /\ IsFiniteSet(told)'
  BY <1>1, <1>3 DEF PoolsNotOverfilled, GivenTo
<1>20. DelegateesOwnPools' BY <1>1, <1>3 DEF DelegateesOwnPools
<1> QED BY <1>10, <1>11, <1>16, <1>17, <1>18, <1>19, <1>20 DEF PoolsInv

\* No answer in time.
LEMMA TimedOutKeeps == ASSUME PoolsInv, NEW b \in Bots, TimedOut(b) PROVE PoolsInv'
<1>1. TypeOK /\ TriesLeft /\ RequestsSent /\ HandledOnce /\ RepliesOwned
      /\ IsFiniteSet(told) /\ PoolsNotOverfilled /\ DelegateesOwnPools
  BY DEF PoolsInv
<1>2. /\ pc' = [pc EXCEPT ![b] = IF try[b] < Tries THEN "retry" ELSE "failed"]
      /\ replies' \subseteq replies
      /\ UNCHANGED <<round, try, handling, left, owners, told, delegatee>>
  BY DEF TimedOut
<1>3. TypeOK' BY <1>1, <1>2 DEF TypeOK
<1>4. TriesLeft' BY <1>1, <1>2 DEF TriesLeft, TypeOK
<1>5. RequestsSent' BY <1>1, <1>2 DEF RequestsSent, WasSent
<1>6. HandledOnce' BY <1>1, <1>2 DEF HandledOnce
<1>7. RepliesOwned' BY <1>1, <1>2 DEF RepliesOwned, Owners
<1>8. PoolsNotOverfilled' /\ IsFiniteSet(told)'
  BY <1>1, <1>2 DEF PoolsNotOverfilled, GivenTo
<1>9. DelegateesOwnPools' BY <1>1, <1>2 DEF DelegateesOwnPools
<1> QED BY <1>3, <1>4, <1>5, <1>6, <1>7, <1>8, <1>9 DEF PoolsInv

\* The delegatees of an answer are given to users of the bot.
LEMMA ReceiveKeeps == ASSUME PoolsInv, NEW b \in Bots, Receive(b) PROVE PoolsInv'
<1>1. TypeOK /\ TriesLeft /\ RequestsSent /\ HandledOnce /\ RepliesOwned
      /\ IsFiniteSet(told) /\ PoolsNotOverfilled /\ DelegateesOwnPools
  BY DEF PoolsInv
<1>2. UNCHANGED <<handling, left, owners, told>> BY DEF Receive
<1>3. PICK m \in replies : replies' = replies \ {m} /\ delegatee' = Assigned(b, m.list)
  BY DEF Receive
<1>4. \/ /\ round[b] < Rounds /\ pc' = [pc EXCEPT ![b] = "idle"]
         /\ round' = [round EXCEPT ![b] = @ + 1] /\ try' = [try EXCEPT ![b] = 0]
      \/ pc' = [pc EXCEPT ![b] = "done"] /\ round' = round /\ try' = try
  BY DEF Receive
<1>5. Tries \in Nat \ {0} /\ Rounds \in Nat BY MultiBotAssumption
<1>6. /\ pc \in [Bots -> {"idle", "waiting", "retry", "done", "failed"}]
      /\ round \in [Bots -> 1..Rounds] /\ try \in [Bots -> 0..Tries]
      /\ handling \subseteq Requests
  BY <1>1 DEF TypeOK
<1>7. ASSUME NEW u \in Users
      PROVE  /\ delegatee'[u] \in Users \cup {NoUser}
             /\ delegatee'[u] \in {NoUser} \cup {owners[p] : p \in DOMAIN owners}
  <2>1. delegatee'[u] = IF u[1] = b /\ u[2] <= Len(m.list) THEN m.list[Len(m.list)]
                        ELSE delegatee[u]
    BY <1>3 DEF Assigned
  <2>2. CASE u[1] = b /\ u[2] <= Len(m.list)
    <3>1. m.list \in Seq(Users) BY <1>1 DEF TypeOK
    <3>2. Len(m.list) \in Nat /\ DOMAIN m.list = 1..Len(m.list) BY <3>1, LenProperties
    <3>3. u[2] >= 1 /\ u[2] \in Int BY DEF Users
    <3>4. Len(m.list) \in DOMAIN m.list BY <2>2, <3>2, <3>3
    <3>5. m.list[Len(m.list)] \in Users BY <3>1, <3>2, <3>4, ElementOfSeq
    <3>6. m.list[Len(m.list)] \in Owners BY <1>1, <3>4 DEF RepliesOwned
    <3> QED BY <2>1, <2>2, <3>5, <3>6 DEF Owners
  <2>3. CASE ~(u[1] = b /\ u[2] <= Len(m.list))
    BY <1>1, <2>1, <2>3 DEF TypeOK, DelegateesOwnPools
  <2> QED BY <2>2, <2>3
<1>8. TypeOK'
  <2>1. delegatee' \in [Users -> Users \cup {NoUser}]
    <3>1. delegatee' = [u \in Users |-> delegatee'[u]] BY <1>3 DEF Assigned
    <3> QED BY <1>7, <3>1
  <2>2. pc' \in [Bots -> {"idle", "waiting", "retry", "done", "failed"}] BY <1>4, <1>6
  <2>3. round' \in [Bots -> 1..Rounds] /\ try' \in [Bots -> 0..Tries] BY <1>4, <1>5, <1>6
  <2> QED BY <1>1, <1>2, <1>3, <2>1, <2>2, <2>3 DEF TypeOK
<1>9. TriesLeft' BY <1>1, <1>4, <1>6 DEF TriesLeft
<1>10. RequestsSent'
  <2>1. ASSUME NEW q \in Requests, WasSent(q) PROVE WasSent(q)'
    <3>1. q.bot \in Bots /\ q.try \in Nat /\ q.round \in Nat BY <1>5 DEF Requests
    <3>2. round[q.bot] \in Nat BY <1>5, <1>6, <3>1
    <3>3. CASE q.bot = b /\ round' = [round EXCEPT ![b] = @ + 1]
      <4>1. round'[q.bot] = round[q.bot] + 1 BY <1>6, <3>1, <3>3
      <4> QED BY <2>1, <3>1, <3>2, <4>1 DEF WasSent
    <3>4. CASE q.bot # b \/ (round' = round /\ try' = try)
      <4>1. round'[q.bot] = round[q.bot] /\ try'[q.bot] = try[q.bot]
        BY <1>4, <1>6, <3>1, <3>4
      <4> QED BY <2>1, <4>1 DEF WasSent
    <3> QED BY <1>4, <3>3, <3>4
  <2> QED BY <1>1, <1>2, <1>6, <2>1 DEF RequestsSent, TypeOK
<1>11. HandledOnce' BY <1>1, <1>2 DEF HandledOnce
<1>12. RepliesOwned' BY <1>1, <1>2, <1>3 DEF RepliesOwned, Owners
<1>13. PoolsNotOverfilled' /\ IsFiniteSet(told)'
  BY <1>1, <1>2 DEF PoolsNotOverfilled, GivenTo
<1>14. DelegateesOwnPools' BY <1>1, <1>2, <1>7 DEF DelegateesOwnPools
<1> QED BY <1>8, <1>9, <1>10, <1>11, <1>12, <1>13, <1>14 DEF PoolsInv

\* The invites are sent; the request is the same one.
LEMMA RequestInvitesKeeps ==
  ASSUME PoolsInv, NEW q \in handling, RequestInvites(q) PROVE PoolsInv'
<1> PICK r : r = [q EXCEPT !.phase = "pools"] OBVIOUS
<1>1. TypeOK /\ TriesLeft /\ RequestsSent /\ HandledOnce /\ RepliesOwned
      /\ IsFiniteSet(told) /\ PoolsNotOverfilled /\ DelegateesOwnPools
  BY DEF PoolsInv
<1>2. /\ handling' = (handling \ {q}) \cup {r}
      /\ UNCHANGED <<pc, round, try, replies, left, owners, told, delegatee>>
  BY DEF RequestInvites
<1>3. q \in Requests BY <1>1 DEF TypeOK
<1>4. r \in Requests /\ r.bot = q.bot /\ r.round = q.round /\ r.try = q.try
  BY <1>3 DEF Requests
<1>5. TypeOK' BY <1>1, <1>2, <1>4 DEF TypeOK
<1>6. TriesLeft' BY <1>1, <1>2 DEF TriesLeft
<1>7. RequestsSent' BY <1>1, <1>2, <1>4 DEF RequestsSent, WasSent
<1>8. HandledOnce'
  <2>1. \A s : SameRequest(s, r) <=> SameRequest(s, q) BY <1>4 DEF SameRequest
  <2>2. \A s : SameRequest(r, s) <=> SameRequest(q, s) BY <1>4 DEF SameRequest
  <2>3. \A s \in handling \ {q} : ~SameRequest(s, q) /\ ~SameRequest(q, s)
    BY <1>1 DEF HandledOnce
  <2> QED BY <1>1, <1>2, <2>1, <2>2, <2>3 DEF HandledOnce
<1>9. RepliesOwned' BY <1>1, <1>2 DEF RepliesOwned, Owners
<1>10. PoolsNotOverfilled' /\ IsFiniteSet(told)'
  BY <1>1, <1>2 DEF PoolsNotOverfilled, GivenTo
<1>11. DelegateesOwnPools' BY <1>1, <1>2 DEF DelegateesOwnPools
<1> QED BY <1>5, <1>6, <1>7, <1>8, <1>9, <1>10, <1>11 DEF PoolsInv

\* The request makes its bot the owner of a pool.
LEMMA BecomeOwnerKeeps ==
  ASSUME PoolsInv, NEW q \in handling, BecomeOwner(q) PROVE PoolsInv'
<1> PICK o : o = UserOf(q.bot, q.round, 1) OBVIOUS
<1>1. TypeOK /\ TriesLeft /\ RequestsSent /\ HandledOnce /\ RepliesOwned
      /\ IsFiniteSet(told) /\ PoolsNotOverfilled /\ DelegateesOwnPools
  BY DEF PoolsInv
<1>2. /\ owners' = Append(owners, o) /\ Len(owners) < Len(Sizes)
      /\ handling' = handling \ {q}
      /\ replies' \in {replies, replies \cup {[bot |-> q.bot, list |-> <<>>]}}
      /\ UNCHANGED <<pc, round, try, left, told, delegatee>>
  BY DEF BecomeOwner, Answer
<1>3. q \in Requests BY <1>1 DEF TypeOK
<1>4. o \in Users
  <2>1. q.bot \in Bots /\ q.round \in 1..Rounds /\ 1 \in 1..Count
    BY <1>3, MultiBotAssumption DEF Requests
  <2> QED BY <2>1, UserOfTyped
<1>5. owners \in Seq(Users) /\ Len(owners) \in Nat /\ DOMAIN owners = 1..Len(owners)
  BY <1>1, LenProperties DEF TypeOK
<1>6. /\ owners' \in Seq(Users) /\ Len(owners') = Len(owners) + 1
      /\ \A p \in 1..Len(owners) : owners'[p] = owners[p]
  BY <1>2, <1>4, <1>5, AppendProperties
<1>7. DOMAIN owners' = 1..(Len(owners) + 1) BY <1>6, LenProperties
<1>8. Owners \subseteq Owners'
  <2>1. \A p \in DOMAIN owners : p \in DOMAIN owners' /\ owners'[p] = owners[p]
    BY <1>5, <1>6, <1>7
  <2> QED BY <2>1 DEF Owners
<1>9. \A m \in replies' : m \in replies \/ m.list = <<>> BY <1>2
<1>10. TypeOK'
  <2>1. \A m \in replies' : m.list \in Seq(Users) BY <1>1, <1>9, EmptySeq DEF TypeOK
  <2> QED BY <1>1, <1>2, <1>6, <2>1 DEF TypeOK
<1>11. TriesLeft' BY <1>1, <1>2 DEF TriesLeft
<1>12. RequestsSent' BY <1>1, <1>2 DEF RequestsSent, WasSent
<1>13. HandledOnce' BY <1>1, <1>2 DEF HandledOnce
<1>14. RepliesOwned'
  <2>1. DOMAIN <<>> = {} OBVIOUS
  <2> QED BY <1>1, <1>8, <1>9, <2>1 DEF RepliesOwned
<1>15. PoolsNotOverfilled' /\ IsFiniteSet(told)'
  BY <1>1, <1>2 DEF PoolsNotOverfilled, GivenTo
<1>16. DelegateesOwnPools'
  <2>1. \A u \in Users : delegatee[u] \in {NoUser} \cup Owners
    BY <1>1 DEF DelegateesOwnPools, Owners
  <2>2. \A u \in Users : delegatee'[u] \in {NoUser} \cup Owners' BY <1>2, <1>8, <2>1
  <2>3. told = {}
    <3>1. Len(owners) < Len(Sizes) BY <1>2
    <3>2. Len(owners) \in Nat /\ Len(Sizes) \in Nat BY <1>5, PoolNumbers
    <3>3. \A x, y \in Nat : x < y => x # y OBVIOUS
    <3>4. Len(owners) # Len(Sizes) BY <3>1, <3>2, <3>3, Zenon
    <3> QED BY <1>1, <3>4 DEF DelegateesOwnPools
  <2> QED BY <1>2, <2>2, <2>3 DEF DelegateesOwnPools, Owners
<1> QED BY <1>10, <1>11, <1>12, <1>13, <1>14, <1>15, <1>16 DEF PoolsInv

\* What is recorded for a request, pool by pool: as many as the pool has less.
Entry(q, list, n) ==
  [request |-> q, pool |-> list[n], delegator |-> UserOf(q.bot, q.round, n)]

LEMMA EntriesCounted ==
  ASSUME NEW q \in Requests, NEW list \in Seq(Pools), NEW p
  PROVE  LET E == {Entry(q, list, n) : n \in PlacesOf(list, p)}
         IN  IsFiniteSet(E) /\ Cardinality(E) = Cardinality(PlacesOf(list, p))
<1> DEFINE P == PlacesOf(list, p)
           E == {Entry(q, list, n) : n \in P}
           f == [n \in P |-> Entry(q, list, n)]
<1>1. IsFiniteSet(P) BY PlacesFinite
<1>2. P \subseteq Nat /\ Count \in Nat /\ q.round \in Nat
  BY MultiBotAssumption DEF PlacesOf, Requests
<1>3. ASSUME NEW m \in P, NEW n \in P, f[m] = f[n] PROVE m = n
  <2>1. f[m].delegator = UserOf(q.bot, q.round, m)
        /\ f[n].delegator = UserOf(q.bot, q.round, n)
    BY DEF Entry
  <2>2. UserOf(q.bot, q.round, m)[2] = UserOf(q.bot, q.round, n)[2] BY <1>3, <2>1
  <2>3. (q.round - 1) * Count + m = (q.round - 1) * Count + n BY <2>2 DEF UserOf
  <2>4. (q.round - 1) * Count \in Int BY <1>2
  <2>5. m \in Nat /\ n \in Nat BY <1>2
  <2> QED BY <2>3, <2>4, <2>5
<1>4. f \in Surjection(P, E) BY DEF Surjection
<1>5. f \in Injection(P, E) BY <1>3 DEF Injection, IsInjective
<1>6. IsFiniteSet(E) /\ Cardinality(E) = Cardinality(P)
  BY <1>1, <1>4, <1>5, FS_Surjection
<1> QED BY <1>6

\* The delegators of a request get pools, each entry a new one.
LEMMA GiveDelegateesKeeps ==
  ASSUME PoolsInv, NEW q \in handling, GiveDelegatees(q) PROVE PoolsInv'
<1> PICK given : given = Room(left) OBVIOUS
<1> PICK list : list = given.list OBVIOUS
<1> PICK E : E = {Entry(q, list, n) : n \in DOMAIN list} OBVIOUS
<1> PICK reply : reply = [n \in DOMAIN list |-> owners[list[n]]] OBVIOUS
<1>1. TypeOK /\ TriesLeft /\ RequestsSent /\ HandledOnce /\ RepliesOwned
      /\ IsFiniteSet(told) /\ PoolsNotOverfilled /\ DelegateesOwnPools
  BY DEF PoolsInv
<1>2. /\ left' = given.left /\ told' = told \cup E
      /\ handling' = handling \ {q} /\ Len(owners) = Len(Sizes)
      /\ replies' \in {replies, replies \cup {[bot |-> q.bot, list |-> reply]}}
      /\ UNCHANGED <<pc, round, try, owners, delegatee>>
  BY DEF GiveDelegatees, Answer, Entry
<1>3. left \in [Pools -> Nat] /\ q \in Requests /\ owners \in Seq(Users)
  BY <1>1 DEF TypeOK
<1>4. Fits(left, given, Share) BY <1>3, RoomFits
<1>5. /\ given.left \in [Pools -> Nat] /\ list \in Seq(Pools)
      /\ Len(list) \in Nat /\ DOMAIN list = 1..Len(list)
  BY <1>4, LenProperties DEF Fits
<1>6. \A n \in DOMAIN list : list[n] \in Pools BY <1>5, ElementOfSeq
<1>7. \A d \in E : d.request = q /\ d.pool \in Pools BY <1>6 DEF Entry
<1>8. \A d \in told : d.request # q
  BY <1>1 DEF HandledOnce, SameRequest
<1>9. ASSUME NEW p \in Pools
      PROVE  /\ Cardinality(GivenTo(p)') =
                  Cardinality(GivenTo(p)) + Cardinality(PlacesOf(list, p))
             /\ GivenTo(p)' = {} <=> GivenTo(p) = {} /\ PlacesOf(list, p) = {}
  <2> DEFINE N == {Entry(q, list, n) : n \in PlacesOf(list, p)}
  <2>1. N = {d \in E : d.pool = p} BY <1>5 DEF Entry, PlacesOf
  <2>2. GivenTo(p)' = GivenTo(p) \cup N BY <1>2, <2>1 DEF GivenTo
  <2>3. GivenTo(p) \cap N = {} BY <1>7, <1>8, <2>1 DEF GivenTo
  <2>4. IsFiniteSet(N) /\ Cardinality(N) = Cardinality(PlacesOf(list, p))
    BY <1>3, <1>5, EntriesCounted
  <2>5. GivenTo(p) \in SUBSET told BY DEF GivenTo
  <2>6. IsFiniteSet(GivenTo(p)) /\ Cardinality(GivenTo(p)) \in Nat
    BY <1>1, <2>5, FS_Subset, FS_CardinalityType
  <2>7. N = {} <=> PlacesOf(list, p) = {} OBVIOUS
  <2>8. Cardinality(N) \in Nat BY <2>4, FS_CardinalityType
  <2> HIDE DEF N
  <2>9. Cardinality(GivenTo(p) \cup N) = Cardinality(GivenTo(p)) + Cardinality(N)
    <3>1. Cardinality(GivenTo(p) \cup N) =
            Cardinality(GivenTo(p)) + Cardinality(N) - Cardinality(GivenTo(p) \cap N)
      BY <2>4, <2>6, FS_Union
    <3>2. Cardinality(GivenTo(p) \cap N) = 0 BY <2>3, FS_EmptySet
    <3> QED BY <2>6, <2>8, <3>1, <3>2
  <2> QED BY <2>2, <2>4, <2>7, <2>9
<1>10. PoolsNotOverfilled'
  <2> SUFFICES ASSUME NEW p \in Pools
               PROVE  /\ left'[p] >= 0
                      /\ Cardinality(GivenTo(p)') + left'[p] = Sizes[p]
                      /\ GivenTo(p)' # {} => \A o \in 1..(p - 1) : left'[o] = 0
    BY DEF PoolsNotOverfilled
  <2>1. left'[p] \in Nat /\ left[p] \in Nat BY <1>2, <1>3, <1>5
  <2>2. Cardinality(PlacesOf(list, p)) + left'[p] = left[p] BY <1>2, <1>4 DEF Fits
  <2>3. Cardinality(GivenTo(p)) + left[p] = Sizes[p] BY <1>1 DEF PoolsNotOverfilled
  <2>4. Cardinality(PlacesOf(list, p)) \in Nat BY <1>5, PlacesFinite
  <2>5. Cardinality(GivenTo(p)) \in Nat
    <3>1. GivenTo(p) \in SUBSET told BY DEF GivenTo
    <3> QED BY <1>1, <3>1, FS_Subset, FS_CardinalityType
  <2>6. Cardinality(GivenTo(p)') + left'[p] = Sizes[p]
    BY <1>9, <2>1, <2>2, <2>3, <2>4, <2>5
  <2>7. ASSUME GivenTo(p)' # {}, NEW o \in 1..(p - 1) PROVE left'[o] = 0
    <3>1. CASE PlacesOf(list, p) # {} BY <1>2, <1>4, <3>1 DEF Fits
    <3>2. CASE PlacesOf(list, p) = {}
      <4>1. GivenTo(p) # {} BY <1>9, <2>7, <3>2
      <4>2. left[o] = 0 BY <1>1, <4>1 DEF PoolsNotOverfilled
      <4>3. o \in Pools BY PoolNumbers
      <4>4. Cardinality(PlacesOf(list, o)) + left'[o] = left[o] BY <1>2, <1>4, <4>3 DEF Fits
      <4>5. Cardinality(PlacesOf(list, o)) \in Nat /\ left'[o] \in Nat
        BY <1>2, <1>5, <4>3, PlacesFinite
      <4> QED BY <4>2, <4>4, <4>5
    <3> QED BY <3>1, <3>2
  <2> QED BY <2>1, <2>6, <2>7
<1>11. IsFiniteSet(told)'
  <2>0. DOMAIN list = 1..Len(list) /\ Len(list) \in Nat BY <1>5, LenProperties
  <2>1. IsFiniteSet(DOMAIN list)
    <3>1. PICK l : l = Len(list) OBVIOUS
    <3>2. 1 \in Int /\ l \in Int BY <2>0, <3>1
    <3>3. IsFiniteSet(1..l) BY <3>2, FS_Interval
    <3> QED BY <2>0, <3>1, <3>3
  <2>2. [n \in DOMAIN list |-> Entry(q, list, n)] \in Surjection(DOMAIN list, E)
    BY DEF Surjection
  <2>3. IsFiniteSet(E) BY <2>1, <2>2, FS_Surjection
  <2> QED BY <1>1, <1>2, <2>3, FS_Union
<1>12. /\ reply \in Seq(Users) /\ \A n \in DOMAIN reply : reply[n] \in Owners
  <2>1. DOMAIN owners = Pools BY <1>2, <1>3, LenProperties, PoolNumbers
  <2>2. \A n \in 1..Len(list) : owners[list[n]] \in Users /\ owners[list[n]] \in Owners
    <3>1. \A x \in DOMAIN owners : owners[x] \in Users BY <1>3, LenProperties, ElementOfSeq
    <3> QED BY <1>5, <1>6, <2>1, <3>1 DEF Owners
  <2>3. reply \in [1..Len(list) -> Users] BY <1>5, <2>2
  <2>4. reply \in Seq(Users) BY <1>5, <2>3, SeqDef
  <2> QED BY <1>5, <2>2, <2>4
<1>13. \A m \in replies' : m \in replies \/ m.list = reply BY <1>2
<1>14. TypeOK'
  <2>1. \A m \in replies' : m.list \in Seq(Users) BY <1>1, <1>12, <1>13 DEF TypeOK
  <2>2. \A d \in told' : d.request \in Requests /\ d.pool \in Pools
    BY <1>1, <1>2, <1>3, <1>7 DEF TypeOK
  <2> QED BY <1>1, <1>2, <1>5, <2>1, <2>2 DEF TypeOK
<1>15. TriesLeft' BY <1>1, <1>2 DEF TriesLeft
<1>16. RequestsSent' BY <1>1, <1>2, <1>7 DEF RequestsSent, WasSent
<1>17. HandledOnce'
  <2>1. \A r \in handling \ {q} : ~SameRequest(r, q) BY <1>1 DEF HandledOnce
  <2> QED BY <1>1, <1>2, <1>7, <2>1 DEF HandledOnce
<1>18. RepliesOwned'
  <2>1. Owners' = Owners BY <1>2 DEF Owners
  <2> QED BY <1>1, <1>12, <1>13, <2>1 DEF RepliesOwned
<1>19. DelegateesOwnPools' BY <1>1, <1>2 DEF DelegateesOwnPools
<1> QED BY <1>10, <1>11, <1>14, <1>15, <1>16, <1>17, <1>18, <1>19 DEF PoolsInv

-----------------------------------------------------------------------------
(* The theorems about pools and delegatees                                 *)

\* The invariant of the requests for invites.
THEOREM PoolsInvariance == Spec => []PoolsInv
<1>1. PoolsInv /\ [Next]_vars => PoolsInv'
  <2> SUFFICES ASSUME PoolsInv, [Next]_vars PROVE PoolsInv' OBVIOUS
  <2>1. CASE UNCHANGED vars
    <3>1. TypeOK' /\ TriesLeft' BY <2>1 DEF vars, PoolsInv, TypeOK, TriesLeft
    <3>2. RequestsSent' /\ HandledOnce'
      BY <2>1 DEF vars, PoolsInv, RequestsSent, WasSent, HandledOnce
    <3>3. RepliesOwned' /\ DelegateesOwnPools'
      BY <2>1 DEF vars, PoolsInv, RepliesOwned, Owners, DelegateesOwnPools
    <3>4. PoolsNotOverfilled' /\ IsFiniteSet(told)'
      BY <2>1 DEF vars, PoolsInv, PoolsNotOverfilled, GivenTo
    <3> QED BY <3>1, <3>2, <3>3, <3>4 DEF PoolsInv
  <2>2. ASSUME NEW b \in Bots, Client(b) PROVE PoolsInv'
    BY <2>2, SendKeeps, TimedOutKeeps, ReceiveKeeps DEF Client
  <2>3. CASE Handler
    BY <2>3, RequestInvitesKeeps, BecomeOwnerKeeps, GiveDelegateesKeeps DEF Handler
  <2>4. CASE Finished BY <2>1, <2>4 DEF Finished
  <2> QED BY <2>1, <2>2, <2>3, <2>4 DEF Next
<1> QED BY <1>1, PoolsInitially, PTL DEF Spec

\* Type correctness of the bots' requests and of what the god bot makes of
\* them.
THEOREM PoolsTypeCorrect == Spec => []TypeOK
BY PoolsInvariance, PTL DEF PoolsInv

\* For any bots, pools and attempts, with requests handled twice and answers
\* lost: what the pools have left and what was promised of them is what they
\* had, and they are filled in order (api.go:84-100).
THEOREM NoPoolOverfilled == Spec => []PoolsNotOverfilled
BY PoolsInvariance, PTL DEF PoolsInv

\* Every delegatee that a client sets owns a pool, and none is set before all
\* pools have owners (api.go:93, process.go:442-444).
THEOREM DelegateesAreOwners == Spec => []DelegateesOwnPools
BY PoolsInvariance, PTL DEF PoolsInv
=============================================================================
