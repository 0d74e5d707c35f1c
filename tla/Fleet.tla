-------------------------------- MODULE Fleet -------------------------------
(***************************************************************************)
(* The bots of one test: the god bot, which creates the chain, and the     *)
(* client bots, which ask its HTTP API for the god address, the boot node  *)
(* and the ceremony time, start their own nodes, ask for invites, and      *)
(* begin every epoch by waiting for the god bot to begin it.  The API is   *)
(* served from before the god bot is initialised until it exits, and reads *)
(* the fields of the god bot's Process while they change.                  *)
(***************************************************************************)
EXTENDS Naturals, FiniteSets

CONSTANTS
  Clients,                (* the bots that are not in god mode             *)
  CeremonyTime,           (* what the god bot's clock and scenario give    *)
  ApiTries,               (* attempts of a request of apiclient (10)       *)
  AddressRounds,          (* requests of getGodAddress (10)                *)
  MaxEpoch                (* bounds the epochs of the chain                *)

ASSUME FleetAssumption ==
  /\ CeremonyTime \in Nat \ {0}
  /\ ApiTries \in Nat \ {0} /\ AddressRounds \in Nat \ {0} /\ MaxEpoch \in Nat

VARIABLES
  godPc,        (* where the god bot is                                    *)
  dir,          (* generation of the god node's data directory: its key
                   and its ipfs identity; 0 before the first start         *)
  godNode,      (* "up" or "down"                                          *)
  genesis,      (* <<god address, ceremony time>> of the god node's chain  *)
  godAddress, ipfsBootNode, ceremonyTime, testCounter,
                (* fields of the god bot's Process                         *)
  chain,        (* epoch of the chain                                      *)
  cpc,          (* per client, where it is                                 *)
  tries,        (* per client, attempts left of its request                *)
  known,        (* per client, what it has learned from the god bot        *)
  invited,      (* per client, its last request for invites had an effect  *)
  captured,     (* per client, epoch that waitForGodBotNewEpoch waits for  *)
  fails,        (* clients whose notification the god bot still handles    *)
  tolerant      (* allowFailNotification || validationOnly                 *)

godVars == <<godPc, dir, godNode, genesis, godAddress, ipfsBootNode,
             ceremonyTime, testCounter>>
clientVars == <<cpc, tries, known, invited, captured>>
fleetVars == <<godVars, chain, clientVars, fails, tolerant>>

Unknown == [address |-> 0, ipfs |-> 0, time |-> 0]

FleetInit ==
  /\ godPc = "create" /\ dir = 0 /\ godNode = "down" /\ genesis = <<0, 0>>
  /\ godAddress = 0 /\ ipfsBootNode = 0 /\ ceremonyTime = 0 /\ testCounter = 0
  /\ chain = 0
  /\ cpc = [c \in Clients |-> "address"]
  /\ tries = [c \in Clients |-> AddressRounds * ApiTries]
  /\ known = [c \in Clients |-> Unknown]
  /\ invited = [c \in Clients |-> FALSE]
  /\ captured = [c \in Clients |-> 0]
  /\ fails = {} /\ tolerant \in BOOLEAN

-----------------------------------------------------------------------------
(* The god bot: Process.init                                               *)

\* Node.Start: what a start mode deletes.  A node without a data directory
\* makes a key; one without a database begins the chain of its config.
StartGod(mode, address, time) ==
  /\ godNode' = "up"
  /\ dir' = IF mode = "DeleteDataDir" THEN dir + 1 ELSE dir
  /\ genesis' = IF mode = "DeleteNothing" THEN genesis ELSE <<address, time>>

\* createGodUser: before it createInvites is refused.
CreateGodUser ==
  /\ godPc = "create"
  /\ godPc' = "start"
  /\ UNCHANGED <<dir, godNode, genesis, godAddress, ipfsBootNode, ceremonyTime,
                 testCounter, chain, clientVars, fails, tolerant>>

StartGodNode ==
  /\ godPc = "start"
  /\ StartGod("DeleteDataDir", 0, 0)
  /\ godPc' = "address"
  /\ UNCHANGED <<godAddress, ipfsBootNode, ceremonyTime, testCounter, chain,
                 clientVars, fails, tolerant>>

InitGodAddress ==
  /\ godPc = "address"
  /\ godAddress' = dir
  /\ godPc' = "ipfs"
  /\ UNCHANGED <<dir, godNode, genesis, ipfsBootNode, ceremonyTime, testCounter,
                 chain, clientVars, fails, tolerant>>

InitIpfsBootNode ==
  /\ godPc = "ipfs"
  /\ ipfsBootNode' = dir
  /\ godPc' = "time"
  /\ UNCHANGED <<dir, godNode, genesis, godAddress, ceremonyTime, testCounter,
                 chain, clientVars, fails, tolerant>>

InitCeremonyTime ==
  /\ godPc = "time"
  /\ ceremonyTime' = CeremonyTime
  /\ godPc' = "stop"
  /\ UNCHANGED <<dir, godNode, genesis, godAddress, ipfsBootNode, testCounter,
                 chain, clientVars, fails, tolerant>>

StopGodNode ==
  /\ godPc = "stop"
  /\ godNode' = "down"
  /\ godPc' = "restart"
  /\ UNCHANGED <<dir, genesis, godAddress, ipfsBootNode, ceremonyTime,
                 testCounter, chain, clientVars, fails, tolerant>>

\* Mutant: the god node begins with an empty directory again.
RestartNewDir ==
  /\ godPc = "restart"
  /\ StartGod("DeleteDataDir", godAddress, ceremonyTime)
  /\ godPc' = "users"
  /\ UNCHANGED <<godAddress, ipfsBootNode, ceremonyTime, testCounter, chain,
                 clientVars, fails, tolerant>>

RestartGodNode ==
  /\ godPc = "restart"
  /\ StartGod("DeleteDb", godAddress, ceremonyTime)
  /\ godPc' = "users"
  /\ UNCHANGED <<godAddress, ipfsBootNode, ceremonyTime, testCounter, chain,
                 clientVars, fails, tolerant>>

Ready == godPc \in {"users", "test"}

-----------------------------------------------------------------------------
(* The god bot: Process.Start                                              *)

GodBeginsTest ==
  /\ godPc = "users"
  /\ godPc' = "test"
  /\ UNCHANGED <<dir, godNode, genesis, godAddress, ipfsBootNode, ceremonyTime,
                 testCounter, chain, clientVars, fails, tolerant>>

\* The sessions wait for the end of the epoch; then testCounter++.
GodEndsTest ==
  /\ godPc = "test" /\ testCounter < chain
  /\ godPc' = "users"
  /\ testCounter' = testCounter + 1
  /\ UNCHANGED <<dir, godNode, genesis, godAddress, ipfsBootNode, ceremonyTime,
                 chain, clientVars, fails, tolerant>>

\* handleError destroys the node and exits.
GodExit == godPc' = "exited" /\ godNode' = "down"

GodFails ==
  /\ godPc # "exited"
  /\ GodExit
  /\ UNCHANGED <<dir, genesis, godAddress, ipfsBootNode, ceremonyTime,
                 testCounter, chain, clientVars, fails, tolerant>>

\* Mutant: a notification of a client is always only logged.
FailLogged(c) ==
  /\ c \in fails /\ godPc # "exited"
  /\ fails' = fails \ {c}
  /\ UNCHANGED <<godVars, chain, clientVars, tolerant>>

\* SendFailNotification: two seconds later.
HandleFail(c) ==
  /\ c \in fails /\ godPc # "exited"
  /\ fails' = fails \ {c}
  /\ IF tolerant THEN UNCHANGED <<godPc, godNode>> ELSE GodExit
  /\ UNCHANGED <<dir, genesis, godAddress, ipfsBootNode, ceremonyTime,
                 testCounter, chain, clientVars, tolerant>>

\* An epoch is longer than the god bot needs from one test to the next, and
\* than a client needs to ask for an epoch that the god bot has begun.
Prompt == /\ godPc = "test" /\ testCounter = chain
          /\ \A c \in Clients : cpc[c] = "poll" => captured[c] # testCounter

Tick ==
  /\ Prompt /\ chain < MaxEpoch
  /\ chain' = chain + 1
  /\ UNCHANGED <<godVars, clientVars, fails, tolerant>>

-----------------------------------------------------------------------------
(* The god bot's API                                                       *)

Serving == godPc # "exited"
GetGodAddress == IF godAddress = 0 THEN "error" ELSE "ok"
GetIpfsBootNode == IF ipfsBootNode = 0 THEN "error" ELSE "ok"

GetCeremonyTime == IF ceremonyTime = 0 THEN "error" ELSE "ok"

\* handleRequest: an error of the handler is status 500, and a god bot that
\* has exited does not answer.
ApiAnswer(handler) == IF Serving THEN handler ELSE "error"

-----------------------------------------------------------------------------
(* A client bot: apiclient.sendRequest and Process.init                    *)

At(c, p) == cpc[c] = p
Goto(c, p) == /\ cpc' = [cpc EXCEPT ![c] = p]
              /\ tries' = [tries EXCEPT ![c] = ApiTries]

Learn(c, handler, field, value, next) ==
  /\ ApiAnswer(handler) = "ok"
  /\ known' = [known EXCEPT ![c] = [@ EXCEPT ![field] = value]]
  /\ Goto(c, next)
  /\ UNCHANGED <<godVars, chain, invited, captured, fails, tolerant>>

LearnGodAddress(c) ==
  At(c, "address") /\ Learn(c, GetGodAddress, "address", godAddress, "ipfs")
LearnIpfsBootNode(c) ==
  At(c, "ipfs") /\ Learn(c, GetIpfsBootNode, "ipfs", ipfsBootNode, "time")
LearnCeremonyTime(c) ==
  At(c, "time") /\ Learn(c, GetCeremonyTime, "time", ceremonyTime, "users")

\* Another second, another attempt; after the last one the request has failed.
Retry(c, failed) == IF tries[c] > 1
                    THEN tries' = [tries EXCEPT ![c] = @ - 1] /\ UNCHANGED cpc
                    ELSE Goto(c, failed)

\* An error is the answer, or none comes within 15 seconds; in the end
\* handleError.
NoAnswer(c) ==
  /\ cpc[c] \in {"address", "ipfs", "time", "invites"}
  /\ Retry(c, "failing")
  /\ UNCHANGED <<godVars, chain, known, invited, captured, fails, tolerant>>

-----------------------------------------------------------------------------
(* A client bot: Process.Start                                             *)

\* createEpochNewUsers: the nodes of new users are started with what is
\* known; invites are asked for if the section says so.
StartNodes(c) ==
  /\ At(c, "users")
  /\ \E next \in {"invites", "capture"} : Goto(c, next)
  /\ UNCHANGED <<godVars, chain, known, invited, captured, fails, tolerant>>

\* RequestInvites answers OK also when the god node, which is about to
\* restart or restarting, has not sent them or forgets them.
CreateInvites(c) ==
  /\ At(c, "invites") /\ Serving /\ godPc # "create"
  /\ invited' = [invited EXCEPT ![c] = Ready]
  /\ Goto(c, "states")
  /\ UNCHANGED <<godVars, chain, known, captured, fails, tolerant>>

\* waitForNodesState.
GotStates(c) ==
  /\ At(c, "states") /\ invited[c] /\ godNode = "up"
  /\ Goto(c, "capture")
  /\ UNCHANGED <<godVars, chain, known, invited, captured, fails, tolerant>>

StatesTimeout(c) ==
  /\ At(c, "states")
  /\ Goto(c, "failing")
  /\ UNCHANGED <<godVars, chain, known, invited, captured, fails, tolerant>>

\* Mutant: the epoch of an earlier test is used again.
CaptureStale(c) ==
  /\ At(c, "capture")
  /\ Goto(c, "poll")
  /\ UNCHANGED <<godVars, chain, known, invited, captured, fails, tolerant>>

\* waitForGodBotNewEpoch: the epoch of the chain is read once.
Capture(c) ==
  /\ At(c, "capture")
  /\ captured' = [captured EXCEPT ![c] = chain]
  /\ Goto(c, "poll")
  /\ UNCHANGED <<godVars, chain, known, invited, fails, tolerant>>

\* Mutant: any answer of the god bot will do.
PolledAnything(c) ==
  /\ At(c, "poll") /\ Serving
  /\ Goto(c, "test")
  /\ UNCHANGED <<godVars, chain, known, invited, captured, fails, tolerant>>

Polled(c) ==
  /\ At(c, "poll") /\ Serving /\ testCounter = captured[c]
  /\ Goto(c, "test")
  /\ UNCHANGED <<godVars, chain, known, invited, captured, fails, tolerant>>

\* Another answer, or none: eight seconds later it asks again.
PollAgain(c) ==
  /\ At(c, "poll") /\ ~(Serving /\ testCounter = captured[c])
  /\ UNCHANGED fleetVars

EndTest(c) ==
  /\ At(c, "test") /\ captured[c] < chain
  /\ Goto(c, "users")
  /\ UNCHANGED <<godVars, chain, known, invited, captured, fails, tolerant>>

\* handleError from anywhere: the nodes are destroyed, the god bot is told,
\* and the bot exits.
Fail(c) ==
  /\ cpc[c] \notin {"failing", "unheard", "exited"}
  /\ Goto(c, "failing")
  /\ UNCHANGED <<godVars, chain, known, invited, captured, fails, tolerant>>

Notify(c) ==
  /\ At(c, "failing") /\ Serving
  /\ fails' = fails \cup {c}
  /\ Goto(c, "exited")
  /\ UNCHANGED <<godVars, chain, known, invited, captured, tolerant>>

\* The notification or its answer is lost, or the god bot has gone.  When all
\* attempts have failed the bot logs it and exits, heard or not.
NotifyUnanswered(c) ==
  /\ At(c, "failing")
  /\ UNCHANGED fails \/ (Serving /\ fails' = fails \cup {c})
  /\ Retry(c, "unheard")
  /\ UNCHANGED <<godVars, chain, known, invited, captured, tolerant>>

-----------------------------------------------------------------------------
GodStep == \/ CreateGodUser \/ StartGodNode \/ InitGodAddress \/ InitIpfsBootNode
           \/ InitCeremonyTime \/ StopGodNode \/ RestartGodNode
           \/ GodBeginsTest \/ GodEndsTest

ClientStep(c) ==
  \/ LearnGodAddress(c) \/ LearnIpfsBootNode(c) \/ LearnCeremonyTime(c)
  \/ NoAnswer(c) \/ StartNodes(c) \/ CreateInvites(c)
  \/ GotStates(c) \/ StatesTimeout(c) \/ Capture(c) \/ Polled(c)
  \/ Notify(c) \/ NotifyUnanswered(c)

Gone(c) == cpc[c] \in {"unheard", "exited"}

\* All bots have exited, or the bound on the epochs is reached.
FleetEnded ==
  /\ (~Serving /\ \A c \in Clients : Gone(c)) \/ chain = MaxEpoch
  /\ UNCHANGED fleetVars

FleetNext ==
  \/ GodStep \/ GodFails \/ Tick
  \/ \E c \in Clients : \/ ClientStep(c) \/ EndTest(c) \/ PollAgain(c)
                        \/ Fail(c) \/ HandleFail(c)
  \/ FleetEnded

FleetSpec == FleetInit /\ [][FleetNext]_fleetVars

\* Every bot goes on with what it has begun, the timers of requests, states
\* and notifications fire.  The chain need not go on, and nobody must fail.
FleetFairness ==
  /\ WF_fleetVars(GodStep)
  /\ \A c \in Clients : WF_fleetVars(ClientStep(c)) /\ WF_fleetVars(HandleFail(c))

-----------------------------------------------------------------------------
(* Properties                                                              *)

FleetTypeOK ==
  /\ godPc \in {"create", "start", "address", "ipfs", "time", "stop",
                "restart", "users", "test", "exited"}
  /\ dir \in Nat /\ godNode \in {"up", "down"} /\ genesis \in Nat \X Nat
  /\ godAddress \in Nat /\ ipfsBootNode \in Nat /\ ceremonyTime \in Nat
  /\ testCounter \in Nat /\ chain \in 0..MaxEpoch
  /\ cpc \in [Clients -> {"address", "ipfs", "time", "users", "invites",
                         "states", "capture", "poll", "test", "failing",
                         "unheard", "exited"}]
  /\ tries \in [Clients -> 1..AddressRounds * ApiTries]
  /\ known \in [Clients -> [address : Nat, ipfs : Nat, time : Nat]]
  /\ invited \in [Clients -> BOOLEAN] /\ captured \in [Clients -> 0..MaxEpoch]
  /\ fails \subseteq Clients /\ tolerant \in BOOLEAN

Started(c) == cpc[c] \in {"invites", "states", "capture", "poll", "test"}

\* Whenever the clients read the fields and however they interleave with the
\* initialisation of the god bot: every node of a client is started with the
\* god node's key, boot node and ceremony time as they are after its restart
\* (init.go:38, 202-208), and the god node's own chain has that genesis, so
\* that all nodes are in one network whose god is the god node.
OneNetwork ==
  /\ \A c \in Clients : Started(c) =>
       known[c] = [address |-> dir, ipfs |-> dir, time |-> CeremonyTime]
  /\ Ready => genesis = <<dir, CeremonyTime>>

\* A client begins the test of an epoch only when the god bot has ended the
\* test of the epoch before it ("Start waiting for god bot epoch %d",
\* verification.go:205), and since waitForGodBotNewEpoch waits for equality,
\* the epoch it waits for is never one that the god bot has left already
\* (verification.go:208).
EpochsInStep ==
  \A c \in Clients : /\ At(c, "test") => testCounter >= captured[c]
                     /\ At(c, "poll") => captured[c] >= testCounter


\* Every client gets through its start and the wait for the god bot, or
\* ends; what it waits for in vain is only a god bot that has exited.
SyncEnds == \A c \in Clients :
  ~(At(c, "test") \/ Gone(c)) ~> (At(c, "test") \/ Gone(c) \/ ~Serving)

\* The failure of one bot is the failure of the test: the god bot exits
\* after it, and with it the chain, unless failures are allowed - or no attempt
\* of the notification was answered, which the client only logs
\* (process.go:543-545, apiclient/client.go:143-148).
FailurePropagates == \A c \in Clients :
  (At(c, "failing") /\ ~tolerant) ~> (~Serving \/ At(c, "unheard"))
=============================================================================
