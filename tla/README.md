# idena-test-go: a TLA+ verification project

idena-test-go is a test bot.  It starts N idena nodes, turns their owners into
identities through invites, takes them through validation ceremonies epoch
after epoch as a scenario prescribes, and asserts what came out.  One bot, the
*god bot*, owns the god node and serves an HTTP API; any number of further bots
are its clients.  The program has no protocol of its own to get right: what it
has to get right is coordination.  Hundreds of goroutines share a list of
users, a WaitGroup, an error handler that ends the process, nodes that other
goroutines stop and restart, and a chain whose clock waits for nobody.

## 1. Inventory

| Component | State | Operations | Interacts with | What makes it correct |
|---|---|---|---|---|
| Epoch loop (`process/process.go`, `verification.go`, `assertion.go`, `common/utils.go`) | `users`, `testCounter`, `wg`, `es`, `mutex` | `Start`, `createEpochNewUsers`, `test`, `testUsers`, `testUser`, `assert`, `handleError` | everything below | the wait of `test` is a barrier; every user is tested once; every wait ends |
| Node lifecycle (`node/node.go`, `user/user.go`, crash handler of `process/init.go`) | `user.active`, `node.process`, the OS processes | `Start`, `Stop`, `Destroy`, `DestroyNode`, crash event, update, switch | RPC client (publishes crashes), epoch loop (`destroy`) | no process without an owner, a node that is lost is restarted |
| RPC client (`client/client.go`) | `Client.mutex`, attempt counter | its 40 methods over `sendRequest` | event bus, node, crash handler | a call ends; what was sent is not executed twice |
| Ceremony (`process/verification.go`, `user/user_shared.go`) | period, flips, slots of `flipsChan`, flip hashes, answers, keys | `submitFlips`, `submitFlip`, `passVerification`, `waitForPeriod`, `getFlipHashes`, `getFlips`, `submitAnswers`, `getAnswers`, `provideDelayedFlipKeyIfNeeded` | chain clock, node RPC | each session is entered in its period; answers respect the limits of the protocol |
| Online switching (`switchOnlineState`) | `AutoOnlineSent`, target states, deadline | `tryToSwitchOnlineState` | chain | target reached or given up before validation |
| God API and its client (`api/`, `apiclient/`, `process/api.go`) | pool owners and sizes; `godAddress`, `ipfsBootNode`, `ceremonyTime` of the god bot | `CreateInvites`, `GetGodAddress`, `GetIpfsBootNode`, `GetCeremonyTime`, `GetEpoch`, notifications | start-up and epoch loop of every bot | pool sizes are never exceeded; all nodes join one network; a failure reaches the god bot if any attempt to tell it is answered |
| Epoch sync between bots (`waitForGodBotNewEpoch`) | god's and client's `testCounter` | poll `GetEpoch` | god API | a client starts the test of an epoch the god bot is in |
| Background transactions (`process/background.go`, `kill.go`, `delegation.go`, `staking.go`, `store_to_ipfs.go`) | nonces, flags, WaitGroups | `generateTxs`, `kill`, `killInvitees`, `delegate`, ... | RPC client, chain | each goroutine ends; no nonce used twice |
| Scenario (`scenario/`) | input and converted scenario | `Load`, `validate`, `convert`, `parseNums` | epoch loop (read only) | a valid input means what its author wrote |
| Configuration and start-up (`main.go`, `config/`, `initializer/`, `node/config.go`) | flags, files; ports, keys and profiles of users | merge, `initInstance`, `createUser`, `defineNewNodeProfile` | all | one god bot; bots run as written; no port twice; shared nodes serve their users |
| Logging (`log/`) | handlers | vendored fork of log15 | all | not this program's logic |

Hard behaviours: sessions of one epoch that append to the user list while
others read it; a timeout that ends the process while goroutines hold locks or
start nodes; nodes restarted by whoever notices a crash first; requests that are
repeated although the node or the god bot may have executed them; fields of the
god bot that its API serves while they are set; polls that wait
for exact equality with a period that may already be over; transactions of one
account sent from several goroutines.

The main risks, each at its line, are listed under `hazards` in `PROJECT.json`,
with the properties that would catch them going wrong or the reason why none
does yet.

## 2. Plan

The order is that of importance for the program: the wait for all sessions is
what every epoch, every assertion and the end of a run depend on.

| Step | Module | State | Depends on |
|---|---|---|---|
| 1 | `EpochBarrier`, `EpochRun` | done | - |
| 2 | `EpochRunProofs` | done | 1 |
| 3 | `NodeLifecycle` with the retry loop of the RPC client | done | - |
| 4 | `Answers`, and its part of `UserProofs` | done | - |
| 5 | `Ceremony` | done | - |
| 6 | `MultiBot` | done for invites and delegatees | - |
| 7 | `Transactions` | done, with switchers as senders | - |
| 8 | `Scenario`: validation and the conversion of users, ceremonies and switches | done | - |
| 9 | `submitFlips` (a semaphore shared by all sessions, a number of flips per user) composed into `Ceremony` | done | 5 |
| 10 | `Fleet`: start-up of god bot and clients over the API, the two epoch counters of `waitForGodBotNewEpoch`, failures | done | - |
| 11 | `OnlineSwitch`: targets and deadline of `switchOnlineState`, `AutoOnlineSent` | done | - |
| 12 | `ScenarioLists`: the lists of delegations, stakes, kills, updates, switches, transactions | done | - |
| 13 | `RpcClient`: every method with its mutex, timeout and retry, and what a node does with a request | done | - |
| 14 | `FlipQuota`: how many flips with which words, `MadeFlips` | done | - |
| 15 | `Deployment`: the initialiser, the merge of configurations, users with ports, keys and profiles | done | - |
| 16 | `RpcClientProofs`, and `Fleet`'s part of `BotsProofs` | done | 10, 13 |
| 17 | `NodeLifecycleProofs`, `TransactionsProofs`, `CeremonyProofs`, `UserProofs` (with `FlipQuota` and `OnlineSwitch`), `BotsProofs` (with `MultiBot`), `StartupProofs` (`Deployment`, `ScenarioLists`) | done | 3, 5, 6, 7, 11, 12, 14, 15 |
| 18 | `Account`: the account that takes one transaction at a time, which `Transactions` implements, and the proof | done | 7, 17 |
| 19 | `NobodyHangs` of `Ceremony`, proved for any durations that leave time for all flips | done | 5, 17 |
| 20 | `Scenario`'s part of `StartupProofs`: `MeansWhatItSays` for any scenario | done | 8, 17 |

Modules to be proved about have no `RECURSIVE` operator.  `Scenario` sums and joins
lists with `SumFunction` and `FlattenSeq` of the community modules.

Abstract specifications: `EpochBarrier` (step 1) says what the epoch loop
promises; the property `ImplementsBarrier` and the theorem `Refinement` say that
`EpochRun` keeps it.  `Account` (step 18) says what the senders of one user promise
together; `ImplementsAccount` and `AccountRefinement` say that `Transactions` keeps it.

## 3. Modules and the code

### EpochRun, EpochBarrier

`EpochRun` is `Process.Start` as one state machine with the goroutines of
`testUsers`.  The main goroutine is `mpc`: `before` (`createEpochNewUsers`),
`wait` (`test`, from `wg.Add` to `WaitWithTimeout`), `assert`, `error` (in
`handleError`).  A session goroutine is named by the `testUsers` call it belongs
to, and its `pc` follows `testUser` and then the closure of `testUsers`: lock,
write the user's state, `wg.Done`.  `nusers` stands for `process.users`, because
a user is only ever appended and its index is its position.

Three details of the code decide the behaviour and are kept as they are:

* `wg.Add` of `test` counts the users of all sections that are to follow the
  flips of this epoch, before anybody knows whether their inviter takes part
  (`StartTest`, `AfterSessions`).
* the inviter's session appends users under the mutex, starts them without it,
  and reads the tail of the list afterwards (`CreateUsers`, `StartUsers`,
  `TestTail`).
* each call of `testUsers` has a mutex of its own (`LockStates`, `SameCall`).

Node work, invites and the ceremony of a session are single steps here, because
they touch nothing that sessions share; `Switches`, `Skips` and `Faulty` say for
whom they may end differently.  Ended sessions are forgotten in `Assert`.

`EpochBarrier` is the fork-join barrier without users, invites, locks or a
WaitGroup.  The mapping: `epoch` is `testCounter`, `forked` is "there are
sessions", `live` is the set of sessions that are not done.

### NodeLifecycle

One node and the goroutines that use it.  `process` is `node.process`, `alive`
what the operating system runs, `up` what accepts connections.  The crash event
is published by the RPC call that was refused and handled synchronously inside
it, so a goroutine carries a stack: `base` is the call at its bottom, `depth` the
number of handlers on top.  `Destroy` and `Kill` are two steps since the code
reads `node.process` twice.  Of two processes of one node only one gets the
ports; which one is a free choice (`Exec`).  `startWaitingTime` may be too short
(`Waited`): then `waitForSync` is refused, and the handler restarts a node that is only
slow; `MaxCrashes` counts slow starts too.  A start that fails, or a `CheckSyncing` that
the node answers with an error, is fatal wherever it happens, also in a handler inside
a call (`StartFails`).

### RpcClient

Every method of the client is a record that says what it asks of `sendRequest`:
whether it takes `Client.mutex`, its timeout (0 is none), whether it is retried,
and whether executing it twice is not the same as executing it once.  The node
crashes, hangs, is stopped by the scenario, or has not registered its methods
yet; a request whose call has given up stays there (`abandoned`) and may be
executed later.  The crash handler, which `NodeLifecycle` takes apart, is one
step here and ends with `CheckSyncing` of the same client.

### Ceremony

`testUser` from `submitFlips` to the end of the epoch for users that share a clock
and the semaphore `flipsChan`.  `mode` is what the epoch is to `submitFlips`: the
first, where a user with several flips submits them in a row without semaphore or
wait, a later one, or one of a bot that only validates and does not wait for
blocks.  A refused flip is waited for like an accepted one, without end and in its
slot (`SubmitFlipFails`, `Refused`).  Who has made no flip sends no keys.  A call
that sleeps sets `wake`; a call that may be taken is taken at most `Slack` ticks later (`due`), which is the
scheduling delay and the length of the requests.  All flips of one author are one
flip: it is ready when the author's public key is out (`NotReady`).

### Answers

`getAnswers`, `submitAnswers` and `prepareAnswers` are three loops over the same
list (`pc`, `i`).  What the node returns for a flip (extra, ready) and what is
drawn (mode, grade) is chosen freely.  `reportsCount / len(flips) >= 0.34`
becomes a comparison of integers.

### FlipQuota

How many flips a session submits: required minus made, plus one for every even
byte at the end of the address up to what is allowed, in the width of the code
(`uint8`), or what the scenario says; the pair of words of each; `MadeFlips`,
which counts answers and decides whether keys are sent; and the words that are
remembered for a flip hash.  The chain may add flips late, and one request of an
epoch may fail after the node has executed it.  A shared-node user computes the hash of
its flip before it sends it (`user_shared.go:408`, `427`), so that a failed `SubmitRawFlip`
leaves the hash known; the model has the user with a node of its own, where it leaves none.

### OnlineSwitch

`switchOnlineState` of one user over several epochs: what the scenario lists, or
else the automatic switch of a validated user, each tried until the deadline.
A switch of the scenario that fails ends the bot, an automatic one does not.
An attempt may take any time up to `Longest`, a pause up to `Pause`, and a session may
begin at any time before the validation.  What `Longest` is the code says only in part.
On a shared node an attempt is at most 60.2 s once it has the client's mutex: five times
10 s and four pauses of 50 ms for `GetRawTx`, 10 s for `SendRawTx` (`client.go:759`).  The
two attempts and the pause of 8 s that may follow the deadline then leave about 170 s of
the five minutes for the flips.  The wait for the mutex has no limit.

### MultiBot

`sendInvites` of client bots, `CreateInvites` with its attempts, `createInvites`
of the god bot.  A request is a record in `handling` until the god bot has
answered, whether or not its client still waits; `Answer` drops an answer that
nobody waits for.  The god bot holds `poolsCtx.mutex` from the test of
the owners to the answer, so `BecomeOwner` and `GiveDelegatees` are one step each.

### Fleet

The god bot and its clients from `Process.init` on.  The god node is started
twice: first to make its key and its ipfs identity, then with the genesis that
names them (`dir`, `genesis`).  Meanwhile the API is already served, so that
clients may read each field before or after it is set; an empty field is an error
and costs the client an attempt, as does a request that nobody answers in 15 s, for
whatever reason (`NoAnswer`).  A client captures the epoch of the chain once
and polls until the god bot's `testCounter` equals it; the code asks the node of its first
active user, which is taken to be in step with the chain (`Capture`).  Any bot may fail at any
time; a client tells the god bot, which exits two seconds later unless failures
are allowed (`tolerant`).  The notification, or the answer to it, may be lost; it is
repeated, and when no attempt was answered the client only logs that and exits, whether
the god bot has heard of it or not (`NotifyUnanswered`, the place `unheard`).  Of the invites only matters whether the god node was
ready to keep them (`invited`); pools are in `MultiBot`.

### Transactions, Account

The goroutines that send transactions for one shared-node user: jobs (kill,
killInvitees, delegate, undelegate, killDelegators, addStake) that
wait until each is mined, generators (`generateTxs`) that do not, and switchers
(`tryToSwitchOnlineState`).  The node gives out the nonce (`GetRawTx`) and takes
the transaction (`SendRawTx`, `NonceTaken`); between the two the mutex of the
user is held by all but the switchers.  A `SendRawTx` that is not answered in ten seconds
is given up (`RequestFails`, `gaveUp`) and the mutex released; the node may still execute it
at any later time, unless the nonce has been taken (`ExecuteLate`).

`Account` is what is left without nonces, mutex, requests and failures: transactions
are accepted one at a time and mined in order, a job has one of them under way at most,
and ends when as many as it had to send are mined.  The mapping: `log` is `sent`, and a
job has ended when its goroutine is at the WaitGroup or done.

### Scenario

`validate` and `convert`.  A text like `1,2-4` is a sequence of pairs; `Nums` is
`parseNums`.  `validateEpochNode`, `buildEpochUserCounts`,
`validateUserCeremonies`, `convertEpochNewUsers`, `convertUserCeremonies` and
`convertNodeSwitches` are translated with their order of sections and switches.
The only assumption on the scenarios is what Go's types say of them (`Written`): a count,
an inviter or a delay may have any sign, a range may be empty, a text may not parse.

### ScenarioLists

The lists of the form "these nodes, in these epochs": what two sections that
overlap, a section that does not parse and one for the god bot only leave in the
map.  `Kinds` has one list of each way of converting (appended, overwritten,
grouped by a second number, with a growing delay, with a period per epoch).

### Deployment

`initializer.initInstance` writes one configuration per bot, `LoadFromFileWithDefaults`
merges it again with defaults and flags, `createUser` gives every user its ports,
its key, its profile and, on a shared node, its parent.  Settings are numbers and
0 is the value that the merge takes for unset.

### MC modules

`MCUser`, `MCBots` and `MCStartup` check components in one run that share no
state (`Answers`, `FlipQuota` and `OnlineSwitch`; `MultiBot` and `Fleet`;
`Scenario`, `ScenarioLists` and `Deployment`).  Each component runs while the
others have ended: interleaving them would multiply the states and could show
nothing, because no step of one reads or writes what another has.

## 4. Runs

Together the passing runs of a module fire every action of its next-state
relation.

| Run | Instance | Distinct states | Shows |
|---|---|---|---|
| `epoch_in_turn` | god bot; sections of 2 and 1 users before the flips of epoch 0; user 1 invites twice in epoch 0, user 0 once in epoch 1 and skips epoch 0; nobody fails | 175 534 | barrier, one test per user, no panic, refinement of `EpochBarrier`, the last epoch is reached |
| `epoch_racing_inviters` | client bot; users 0 and 1 may be switched off in epoch 0 and both invite in epoch 1, user 1 may fail; the timeout may come at any time | 31 864 | every wait of `test` ends |
| `epoch_racing_tested` | one epoch in which users 0 and 1 both invite, nobody switched or faulty | (violation) | finding 1 |
| `node` | one goroutine that calls, stops, starts and ends the bot, or two that meet the same crash; 2 crashes or slow starts, 2 stops, 5 processes, 2 attempts | 388 179 | alone: no orphan, nothing survives the end, every call ends; two: `node.process` survives concurrent restarts |
| `rpc` | two goroutines, one call each of every method; 2 attempts, 2 faults | 83 514 | nothing sent is executed twice, sendings one at a time, every call ends |
| `user` | 4 flips, each extra and ready or not, grades none, reported, D, C; two epochs of flips in every bot mode with 1 failing request; 6 epochs of online switches, attempts of up to twice the pause, 8 units of time to the validation and a margin of 5 | 4 533 402 | what is answered is what was intended, extra flips replace missing ones, quota of flips met, words match, one automatic switch, what switching may cost the flips |
| `ceremony` | three users: one has two flips, one skips, one is stopped until its key is late; two slots, every mode, one silent author, one failing request | 5 428 347 | answers in their period, nobody else hangs, keys in order |
| `ceremony_delayed_key` | two users, one of them late | (violation) | finding 2 |
| `bots` | two clients; 2 x 2 attempts for the god address, 2 for the rest, 3 epochs; two requests for invites of one user each with two attempts, pools of 1 and 2 | 489 997 | pools are not overfilled, owners first, one network, epochs in step, start and waits end, failures reach the god bot or no attempt to report them was answered |
| `pools_delegatees` | two users per request, one attempt | (violation) | finding 3 |
| `tx` | a job of two transactions with a WaitGroup, a job of one, a generator, a switcher; one failing request, which may be executed late | 592 359 | who may collide, and why; refinement of `Account`, everyone ends |
| `startup` | all scenarios of up to two sections, two ceremonies, or two starts and a stop, of six texts, nodes flag 0 or 3; all lists of up to two sections of each kind; two bots with several files, offsets and users on shared nodes | 688 917 | valid scenarios and lists mean what they say, bots are configured as meant, ports apart, shared nodes serve |

Why the bounds are enough:

* *EpochRun.*  Everything sessions share is per epoch, so two epochs show what
  one leaves behind for the next.  Two sections of one inviter are the least that
  makes `TestTail` happen after another `CreateUsers` of the same session; an
  inviter of the second epoch that was there in the first, and one that skipped,
  are both in.  The theorems below remove the bounds for all properties but the
  two of liveness.
* *NodeLifecycle.*  One goroutine can be inside two handlers only after two
  crashes; `MaxPid` allows each crash, slow start and stop its restart.  `Idle` is the end of a run at the bound.
* *Ceremony.*  The times are those of the code and of the `nodeConfig.json` the
  repository ships, in ticks of two seconds: sessions of 120 s, a lottery of 60 s,
  polls every 8 s, a patience of 60 or 90 s, answers 20 s before the end or up to
  60 s after the beginning, 20 s for mining and a key 35 s late.  The extremes of
  what is drawn are taken (`Waits`, `Delays`), since a wait in between ends in
  between.  `Slack` lets every step, request and sleep be up to two seconds late.
  The margin is real: with four seconds `AnswersInTime` fails, because a user that
  waits to its deadline for a key that never comes answers after the session.
  Three users and a silent author give from none to all keys in time.  Blocks come
  after 10 or 20 s and the lottery begins two minutes into the epoch, which is
  enough for four flips through the one slot that a refused flip leaves; with as
  many refusals as slots everybody hangs, and `NobodyHangs` says so by its premise
  (`SlotLeft`).
* *Answers.*  Four flips hold an extra flip before, between and after the flips
  it may replace, and 34 % of four lies strictly between one and two reports.
  The theorems hold for every number of flips.
* *MultiBot.*  Three rooms for four requests, each of which may be handled twice:
  requests before all owners exist, the filling of both pools and requests that
  find them full all occur.  The theorems remove these bounds for both invariants.
* *Transactions.*  One of each kind of sender and a second job; two generated
  transactions or three jobs add no new pair of senders; one failing request is enough
  for a transaction that is given up and executed under another goroutine's nonce.  The theorems hold for any
  number of each.
* *RpcClient.*  One call of each method against one of each other method meets
  every pair of locks, timeouts and retries; two faults are the crash that a call
  repairs and one more while it does.  The theorems remove these bounds for the
  two invariants.
* *FlipQuota, OnlineSwitch.*  Two epochs show what one leaves behind for the next.
  Identities require none to three flips, may submit up to two more and have as many
  word pairs as flips or one to spare; the address asks for some of the additional
  flips and not for others.  Six
  epochs hold, between automatic switches, epochs with one, two and no switch of
  the scenario.  The units of time are small, since `FlipsHaveTime` holds for any.
* *Fleet.*  Two clients can be at different places of their start and of an epoch;
  three epochs let the god bot be behind, in and ahead of the epoch captured.
* *Deployment.*  Two bots, of which one has more users than its offset in some
  instances; sections that share the nodes of earlier ones.  The theorems hold for any.
* *Scenario, ScenarioLists.*  The texts include an empty range, a number twice and one that does
  not parse; user 3 never exists, user 2 only by a later section.  What is shown of
  scenarios and lists is proved for all of them.

`Patient` in `epoch_in_turn` says that the test timeout outlasts the sessions
that still run, which is how a scenario's author has to set it; without it
nothing but `WaitEnds` can be expected of the end of an epoch, and
`epoch_racing_inviters` drops it.

## 5. Fairness

* `EpochRun`: weak fairness of "some goroutine takes a step".  The Go scheduler
  runs some goroutine as long as one can run; nothing is assumed about which.
* `NodeLifecycle`: weak fairness of each goroutine's progress and of a started
  process beginning to listen.  Beginning a call, a stop, an exit, a crash and a
  timeout are not fair.
* `RpcClient`: weak fairness of each goroutine's call, its timer and the crash
  handler, and of a node that is up; strong fairness of taking the mutex.  A hung
  node answers nothing, and the scenario need not start a node it has stopped:
  `CallsEnd` names both.
* `Fleet`: weak fairness of each bot's steps and of the handling of a notification.
  The chain need not go on and nobody must fail.  `Prompt` is an assumption on
  time, not on scheduling: an epoch of the chain (minutes at least) outlasts the
  step of the god bot from one test to the next and one poll of a client (8 s).
* `Transactions`: weak fairness of each goroutine's requests and of the timer of
  `waitForMinedTransaction`; strong fairness of taking the mutex, which
  `sync.Mutex` gives (it hands over to waiters after 1 ms); the epoch ends
  (`EpochRun`: every wait has a timeout).
* The other modules are checked for safety only.  In
  `Ceremony` the clock takes over: `due` forces a step, and `NobodyHangs` is an
  invariant about the state at the horizon.

## 6. Proofs

`EpochRunProofs` proves for every scenario, any number of users, sections and
epochs:

| Theorem | Says | Under |
|---|---|---|
| `TypeCorrect` | `TypeOK` | the two assumptions below |
| `AllSessionsCompleted` | the wait of `test` is a barrier | " |
| `EveryUserTestedOnce` | each user has exactly one session at every assertion | " |
| `NeverPanics` | `wg` never goes negative, `logStats` never misses a state | " |
| `Refinement` | `EpochRun` implements `EpochBarrier` | " |

The assumptions are conditions on the scenario, stated in `EpochRun`:
`OneInviterPerEpoch` (finding 1 is what happens without it) and `GodIsNotAlone`
(a bot whose god node is its only user tests one session too many, see below).

Argument.  None of the properties is inductive: that the counter is zero says
nothing about sessions unless one knows what it counts.  `IInv` adds

* `CountedIn`: the WaitGroup's counter is the number of sessions, present or
  promised to a section, that are not done;
* `MainKnows`: what the main goroutine's place says about the sessions;
* `OneSessionPerUser`: users and sessions correspond one to one, up to the users
  a session has created and not yet tested;
* `Inviting`: the tail of the list is the users which the inviter has just
  created.  It needs the one inviter: with two, somebody else may append.

`WaitDone` then follows: a counter of zero means an empty set of sessions to come.
Each action has a lemma of its own; `MovingPreserves` treats the many that only
move a session.

`UserProofs` is about one user, in three parts.

* *Answers*, for every number of flips: `TypeCorrect`; `ExtrasOnlyReplace` (the
  invariant counts free slots: answered and ready flips plus free slots are as many
  as the flips met so far that are not extra); `ReportsAreCapped` (what is reported
  so far is below the cap, and at most what was counted); `AnsweredAsMeant` and
  `NoSlotWasted`.  The last two rest on `Chained`: every loop hands over to the next
  the answers that were intended (`HandedOver`), a grade once drawn is kept or dropped
  and never raised (`GradesKept`), and a flip is passed over only when no slot is free
  and none becomes free after it (`SlotsTaken`).
* *FlipQuota*, for every identity a chain may report and every number of epochs:
  `QuotaTypeCorrect`, `QuotaIsMet` and `WordsAreOfTheFlip`.  `QuotaInv` keeps the
  loop within the chain's limits (`LoopBounded`), counts what was asked for, made and
  accepted (`FlipsCounted`), and says that the flip which is waited for is the only one
  that is not on the chain (`OneAwaited`); only then are the words that are stored
  under its place those it was asked for with (`WordsKept`).
* *OnlineSwitch*, for any scenario: `OnlineTypeCorrect`, `SwitchedByItselfOnce`,
  `FlipsHaveTime`.  `AutoOnce` says that an automatic switch is planned only as long as
  `AutoOnlineSent` is not set, `TimeSpent` how far past the deadline a pause and
  attempts may carry a session, `LastStart` when the last of them may begin.

`BotsProofs` proves for any number of clients, attempts and epochs
`FleetTypeCorrect`, `OneNetworkForAll` and `ClientsInStep`.  `OneNetwork` speaks of
what clients have learned and of the god node; the link is `GodFields` (a field that
is set is what the node has had since its first start, because the second start
deletes only the database) and `ClientsKnow` (what a client has learned is the
field, which is never set again).  `EpochsInStep` needs `Epochs`: the god bot is not
ahead of the chain, nobody waits for an epoch beyond it, and while the god bot is
behind, whoever polls waits for the chain's epoch.  `Prompt` is used in `Tick` only.

It also proves `PoolsTypeCorrect`, `NoPoolOverfilled` and `DelegateesAreOwners` of
`MultiBot`, for any number of bots, requests, attempts and pools of any size.  That
pools are not overfilled needs more than the room which the god bot finds: the same
request may be handled again, after a timeout of the client, and the room must be
taken once for every time.  `PoolsInv` says that whatever is
handled was sent (`RequestsSent`, `TriesLeft`), that an attempt is handled once
(`HandledOnce`), and that answers on their way name users that own a pool
(`RepliesOwned`).  What the loop over the pools takes (`Room`, a recursive function)
is bounded through its least counterexample, in the form of a set, because no theorem
of the library about induction over numbers can be instantiated.

`RpcClientProofs` proves for any number of goroutines, calls, attempts and faults
`TypeCorrect`, `ExecutedAtMostOnce` and `ChangesOneAtATime`.  The lemma
`SendingsLockAndDoNotRetry` goes through all methods.  `CallState` says who holds
the mutex and that an attempt is left; `Executions` that a request which may still
be executed, at the node of a pending call or abandoned, has not been executed, and
that an abandoned one belongs to a call that is over.

`NodeLifecycleProofs` proves for any number of processes, crashes, stops, attempts
and goroutines `TypeCorrect`, `NothingOrphaned`, `ExitEndsAll` and `AlwaysManaged`.
`Nesting` says where crash handlers may be, `AttemptLeft` that a call in progress has
one, `DepthCounted` that a process was started between two nested handlers.  `Sole` is
the heart: a goroutine that is alone knows all processes, and has ended them before it
starts another.  `NoOrphan` and `NothingSurvives` have that premise, because with two
goroutines they do not hold (see section 7): of the races of two restarts they say
nothing.  `Rebuilt` and `Managed` hold for any number of goroutines: whoever leaves
`node.process` nil goes on to set it, or to end the bot.  That the crash handler spares
a node which is stopped on purpose is not stated anywhere, since the code does not
ensure it (`init.go:45`).

`TransactionsProofs` proves for any number of jobs, generators and switchers
`TypeCorrect`, `CollisionsHaveReasons` and `JobsFinishTheirWork`.  `Guarded` says
whose the mutex is.  What was accepted after a nonce had been given out under the mutex
was sent without it, by a switcher (`Unguarded`), or was executed late; a job whose
request fails ends the bot (`JobsInsist`), so the latter is a generator's.  `Accounted`
says that a job's transactions are mined, but for the one it waits for, and together with
those left are as many as it had to send.  `AccountRefinement` says that every step is a step of
`Account` or leaves it as it is: `Logged` keeps the log a sequence to which only
`SendRawTx` and `ExecuteLate` append (`AcceptAppends`), and whoever is past its last transaction never sends again.  The
run checks the refinement in place of `MinedBeforeDone`, which `JobsFinishTheirWork`
proves and which is the condition under which `Account` lets a job end.

`CeremonyProofs` proves for any number of users, slots and flips `KeysAreInOrder` and
`SlotsAccounted` (the slots in use are those of the sessions that hold one), from
`SessionsInv`: an author past a key has sent it, and a flip submitted in a row holds no
slot.  `AnswersAreInTime` holds for any times under two hypotheses:

* `ScheduleFits`: the patience of a session that is late in every step and meets every
  failure runs out before its period ends, and no more keys can be missing than are
  allowed.  Without it answers may be late, as section 4 says; it is what whoever sets
  the periods has to see to.
* `Silent > 0`: some flip exists, whatever becomes of those of the users.  Without
  any, a session asks for flip hashes past the end of its period.

`TimesInv` gives each call from the lottery on its latest moment (`Timely`), for
whoever does not wait for a slot (`OnTime`).

`NobodyIsLeftHanging` says `NobodyHangs` for any times and any number of users, slots
and flips, under the same hypotheses and `FlipsFit`: the flips of all users, one after
another and each mined within `longest`, are over before the lottery ends.  One slot is
enough for that.  `HangInv` counts the flips that are over or refused (`Ends`); while a
slot is left and somebody still submits, the flip of somebody who is not blocked ends by
`(Ends + 1) * Turn` (`QueueMoves`), because those that hold a slot outnumber those whose
flip was refused.  So whoever still submits at the lottery would be one flip too many;
from there on `Timely` takes over, and at the horizon everybody has answered.  TLC
checked `HangInv` on the instance of `ceremony` before it was proved.

`MCCeremony` assumes `ScheduleFits` and `FlipsFit(10)`, so TLC confirms both for the
times of the repository's `nodeConfig.json`.

`StartupProofs` proves, for any bots, files, offsets and scenarios:

* *Deployment*: `DeploymentTypeCorrect`, `BotsAreConfiguredAsMeant`,
  `SharedNodesAreReached` and `PortsAreApart`.  `Loaded` says that a bot runs with what
  it has loaded, `UsersMade` that users are made by number, and that a parent is older
  than the users on its node and was made with a profile for sharing.  `PortsApart` has
  the premise `Apart`: no bot has more users than the offset, the ranges of HTTP, IPFS
  and TCP ports do not meet, and the base node configuration names no port.
* *ScenarioLists*: `ListsTypeCorrect` and `MapSaysWhatIsListed`.  `Listing` is the set
  of sections converted so far that list an epoch and a user; of lists that overwrite
  the last of them counts (`ValuesLast`), of lists that count, all (`Sums`).
* *Scenario*: `ScenarioTypeCorrect` and `ScenarioMeansWhatItSays`, from `ScenarioInv`:
  nothing is converted before the sections are valid (`SectionsChecked`), the ceremonies
  accepted so far share no epoch (`CeremoniesChecked`), what is converted is what was
  accepted (`SectionsConverted`, `CeremoniesConverted`), and the list of every node holds
  the switches gone through so far, in order (`SwitchesConverted`).  TLC checked
  `ScenarioInv` on the scenarios of `MCScenario`, 105 226 states, before it was proved.

  The three parts of `MeansWhatItSays` rest on facts about the operators.
  `FlattenLays`: `FlattenSeq` lays its lists one after another, each at a place of its
  own, and nothing else.  So `UsersListedOnce`: if no number is in the joined list twice,
  a user is in one text of a ceremony only, and what `convertUserCeremonies` gives it
  last is all that it gives it.  `SumCounts`: a sum is the number of elements of disjoint
  sets.  So `CountedAreCreated`: the users that `buildEpochUserCounts` counts map one to
  one into those that `convertEpochNewUsers` creates by that epoch.  `SortInserts`:
  appending a switch to a list in order and sorting stably puts it behind those of its
  delay; since starts come in before stops, each in the author's order, that is the
  order written.  What `FlattenSeq` and `SumFunction` compute is defined by recursion.
  The induction theorems are out of the provers' reach, so the lemmas take the least
  number for which the claim fails (`LeastNumber`) and derive a smaller one.

Two definitions were corrected because a proof did not go through.  In `Ceremony`,
`Period` was a `CASE` whose guards overlapped, of which TLC takes the first but a proof
may not; they are disjoint now.  `FlipQuota` stored the word pair numbered by the loop's
counter, where the code stores the one it has asked for, `uint8` of the counter.
`Scenario` assumed only the field names of the scenarios, where the proofs need the types.

Only model-checked:

* all liveness (`ScenarioCompletes`, `WaitEnds`, `CallEnds`, `CallsEnd`, `SyncEnds`,
  `FailurePropagates`, `EveryoneEnds`), which the proof system does not reach;
* `TypeOK` of `Ceremony`, which bounds the times by the horizon of the instance
  (`SessionsTyped` and `TimesTyped` are proved in its place).

## 7. Findings

1. `epoch_racing_tested`: two users that invite after the flips of one epoch
   both read the end of the user list after the other has appended to it; one new
   user runs two sessions and the other none (`verification.go:185`).
2. `ceremony_delayed_key`: a user whose key is to be late starts its node after
   the flip lottery and then waits for the lottery; it never sends its key
   (`verification.go:820`).
3. `pools_delegatees`: a bot sets the last delegatee of the answer on all its
   delegators, and for later requests on users of the first one
   (`process.go:442`).

Met while modelling, described under `hazards` and left without a run:

* A god bot whose god node is its only user invites it to itself
  (`process.go:231`, `verification.go:185`): the session of the god node tests
  itself, and the wait ends one session early.
* Sessions write one map under different mutexes (`verification.go:63`).
* A generator's transaction that is given up after ten seconds (`background.go:57`) may take
  the nonce of a job, which ends the bot.
* The crash handler may restart a node which the scenario stops between its test
  of `IsActive` and its restart (`init.go:45`), and two handlers may each destroy
  what the other has started.
* With too many keys missing after the deadline `handleError` gets a nil error
  and the loop goes on (`verification.go:602`, `615`).
* A flip that is refused is waited for without a limit, in a slot of `flipsChan`
  (`verification.go:411`, `418`): as many refusals as slots stop every session.
* `killInvitees` and `killDelegators` wait for a WaitGroup that nobody counts
  down (`kill.go:66`, `delegation.go:93`).
* The key which is to find two sections of one inviter holds the inviter's
  address in memory (`validation.go:236`), so it finds none.
* A ceremony whose epochs are an empty range ends `Load` with an index error
  (`validation.go:216`; the action `Panic`).
* A comment in `tryToSwitchOnlineState` says 3 minutes where the code says 5
  (`verification.go:258`).
* `GodMode` in the configuration from which the initialiser makes the bots makes
  every bot a god bot (`initializer.go:68`); a port in the base node configuration
  is the port of every node.
* With random API keys every user on a shared node gets a key that the node does
  not know (`process.go:338`).
* A client whose god bot has exited polls for the new epoch for ever
  (`verification.go:208`).
* A sending without a timeout holds the mutex of the client as long as its node
  hangs (`client.go:141` and others).
* `waitForSync` returns after one poll whatever the answer says
  (`user.go:156-168`).
* Malformed texts end `Load` in some lists and are dropped without a word in
  others (`conversion.go:285`, `405`).

## 8. Not modelled

The content of assertions (`assertNode`, `assertFlip`, `assertFlipWords`) compares
what a node reports with what a scenario expects, value by value, and changes
nothing.  `updateNode` stops and starts a node as a switch of the scenario does and
is no action of its own.  `sendStoreToIpfsTxs` goes through the parent of a
shared-node user, whose account has no other sender here, and the rotation of
senders of `generateTxs` changes who sends and not how.  `AnswerRates.Get` is never
called.  The content of a flip (random bytes, encryption) and the parameters of
requests are data that no property tells apart.  The copying of files and
directories, the command line of a node, the identities API and the external
address of a host are input and output, done once in one goroutine.  The log
package is a fork of log15: formatting, handlers and their documentation are not
this program's logic.  The node itself, the chain and the HTTP library are not this
program: of them the modules keep what the code relies on (a clock with periods,
nonces in order, a process that may end, a request that may be executed late, an
answer that may be lost).
