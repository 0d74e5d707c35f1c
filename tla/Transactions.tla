---------------------------- MODULE Transactions ---------------------------
(***************************************************************************)
(* The goroutines of one shared-node user that send transactions during an *)
(* epoch.  testUser starts the jobs (kill, killInvitees, delegate,         *)
(* undelegate, killDelegators, addStake), which wait until each of their   *)
(* transactions is mined, and itself switches the user online or offline;  *)
(* generateTxs does not wait and goes on until the epoch is completed.     *)
(* SendTransaction holds the mutex of the user from the request for the    *)
(* nonce to the request that uses it; BecomeOnline and BecomeOffline do    *)
(* the same two requests without it.  A request that the client gives up   *)
(* after its timeout stays with the node, which may execute it later, when *)
(* the mutex is somebody else's.                                           *)
(***************************************************************************)
EXTENDS Integers, FiniteSets

CONSTANTS
  Jobs,         (* goroutines that wait for their transactions             *)
  Groups,       (* those that end with wg.Wait (killInvitees, -Delegators) *)
  Generators,   (* goroutines that run generateTxs                         *)
  Switchers,    (* goroutines that switch the user online or offline       *)
  Nobody,       (* holds the mutex when it is free                         *)
  Size,         (* transactions of each job                                *)
  MaxGenerated, (* bounds the transactions of the generators               *)
  MaxFaults     (* bounds the requests that fail                           *)

Senders == Jobs \cup Generators \cup Switchers

ASSUME TransactionsAssumption ==
  /\ Groups \subseteq Jobs /\ Nobody \notin Senders
  /\ Jobs \cap Generators = {} /\ (Jobs \cup Generators) \cap Switchers = {}
  /\ Size \in [Jobs -> Nat \ {0}]
  /\ MaxGenerated \in Nat /\ MaxFaults \in Nat

VARIABLES
  pc,           (* per goroutine                                           *)
  mutex,        (* who holds the user's mutex                              *)
  raw,          (* per goroutine, the nonce of the transaction it signed   *)
  sent,         (* who sent the accepted transaction with a nonce          *)
  mined,        (* the first of them that have been mined                  *)
  left,         (* per job, transactions still to send                     *)
  completed,    (* EpochCompletionFlag                                     *)
  gaveUp,       (* <<s, n>>: s gave up SendRawTx with nonce n              *)
  faults,       (* failed requests so far                                  *)
  exited        (* handleError ended the bot                               *)

vars == <<pc, mutex, raw, sent, mined, left, completed, gaveUp, faults,
          exited>>

Last == Cardinality(DOMAIN sent)
Generated == Cardinality({n \in DOMAIN sent : sent[n] \in Generators})

Init ==
  /\ pc = [s \in Senders |-> "idle"]
  /\ mutex = Nobody
  /\ raw = [s \in Senders |-> 0]
  /\ sent = [n \in {} |-> Nobody] /\ mined = 0
  /\ left = Size
  /\ completed = FALSE /\ gaveUp = {} /\ faults = 0 /\ exited = FALSE

At(s, p) == ~exited /\ pc[s] = p
Goto(s, p) == pc' = [pc EXCEPT ![s] = p]

-----------------------------------------------------------------------------
(* SendTransaction, BecomeOnline and BecomeOffline                         *)

\* A job, or a switcher, begins its next transaction; a generator looks at
\* the flag first.
MayBegin(s) == s \in Generators => (~completed /\ Generated < MaxGenerated)

\* Mutant: the mutex is not taken.
LockNothing(s) == UNCHANGED mutex

\* mutex.Lock of SendTransaction, which switchers do not call.
Lock(s) == \/ s \in Switchers /\ UNCHANGED mutex
           \/ s \notin Switchers /\ mutex = Nobody /\ mutex' = s

Begin(s) ==
  /\ At(s, "idle") /\ MayBegin(s)
  /\ Lock(s)
  /\ Goto(s, "raw")
  /\ UNCHANGED <<raw, sent, mined, left, completed, gaveUp, faults, exited>>

\* The deferred Unlock.
Unlock(s) == mutex' = IF mutex = s THEN Nobody ELSE mutex

\* The node builds the transaction with the next nonce of the account.
GetRawTx(s) ==
  /\ At(s, "raw")
  /\ raw' = [raw EXCEPT ![s] = Last + 1]
  /\ Goto(s, "send")
  /\ UNCHANGED <<mutex, sent, mined, left, completed, gaveUp, faults, exited>>

\* A job waits for its transaction; a generator goes on with the next, and a
\* switcher has what it wanted.
AfterSend(s) == CASE s \in Jobs -> "mining"
                  [] s \in Generators -> "idle"
                  [] s \in Switchers -> "done"

\* The node accepts the transaction with the nonce n.
Accept(s, n) ==
  /\ n \notin DOMAIN sent
  /\ sent' = [k \in DOMAIN sent \cup {n} |-> IF k = n THEN s ELSE sent[k]]

SendRawTx(s) ==
  /\ At(s, "send")
  /\ Accept(s, raw[s])
  /\ Goto(s, AfterSend(s))
  /\ Unlock(s)
  /\ UNCHANGED <<raw, mined, left, completed, gaveUp, faults, exited>>

\* An error of a job is fatal.  generateTxs logs it and goes on.  A switcher
\* tries again until its deadline; then a switch of the scenario is fatal
\* and an automatic one is given up.
Failed(s) ==
  \/ s \in Jobs \cup Switchers /\ exited' = TRUE /\ UNCHANGED pc
  \/ s \in Generators \cup Switchers /\ Goto(s, "idle") /\ UNCHANGED exited
  \/ s \in Switchers /\ Goto(s, "done") /\ UNCHANGED exited

\* Another transaction of the user has taken the nonce meanwhile.
NonceTaken(s) ==
  /\ At(s, "send")
  /\ raw[s] \in DOMAIN sent
  /\ Failed(s)
  /\ Unlock(s)
  /\ UNCHANGED <<raw, sent, mined, left, completed, gaveUp, faults>>

\* A SendRawTx that fails is given up after ten seconds and not repeated.
RequestFails(s) ==
  /\ At(s, "raw") \/ At(s, "send")
  /\ faults < MaxFaults
  /\ faults' = faults + 1
  /\ gaveUp' = IF pc[s] = "send" THEN gaveUp \cup {<<s, raw[s]>>} ELSE gaveUp
  /\ Failed(s)
  /\ Unlock(s)
  /\ UNCHANGED <<raw, sent, mined, left, completed>>

\* The node executes what was given up, if nothing has taken the nonce since;
\* it need not, and nobody hears of it.
ExecuteLate ==
  /\ ~exited
  /\ \E g \in gaveUp : Accept(g[1], g[2])
  /\ UNCHANGED <<pc, mutex, raw, mined, left, completed, gaveUp, faults, exited>>

-----------------------------------------------------------------------------
(* waitForMinedTransaction and the end of a goroutine                      *)

\* killInvitees and killDelegators count their WaitGroup up once per
\* transaction and never down: their last call is a wait without an end.
AfterMined(s) == IF left[s] > 1 THEN "idle"
                 ELSE IF s \in Groups THEN "wait" ELSE "done"

Mined(s) ==
  /\ At(s, "mining") /\ raw[s] <= mined
  /\ left' = [left EXCEPT ![s] = @ - 1]
  /\ Goto(s, AfterMined(s))
  /\ UNCHANGED <<mutex, raw, sent, mined, completed, gaveUp, faults, exited>>

\* Mutant: a transaction that is not mined in time is only logged.
NotMinedLogged(s) ==
  /\ At(s, "mining")
  /\ left' = [left EXCEPT ![s] = @ - 1]
  /\ Goto(s, AfterMined(s))
  /\ UNCHANGED <<mutex, raw, sent, mined, completed, gaveUp, faults, exited>>

\* Five minutes have passed.
NotMined(s) ==
  /\ At(s, "mining")
  /\ exited' = TRUE
  /\ UNCHANGED <<pc, mutex, raw, sent, mined, left, completed, gaveUp, faults>>

\* Mutant: the flag is looked at before the first transaction only.
StopsAtStart(s) ==
  /\ At(s, "idle") /\ s \in Generators /\ completed /\ raw[s] = 0
  /\ Goto(s, "done")
  /\ UNCHANGED <<mutex, raw, sent, mined, left, completed, gaveUp, faults, exited>>

GeneratorStops(s) ==
  /\ At(s, "idle") /\ s \in Generators /\ completed
  /\ Goto(s, "done")
  /\ UNCHANGED <<mutex, raw, sent, mined, left, completed, gaveUp, faults, exited>>

-----------------------------------------------------------------------------
(* The epoch and the chain                                                 *)

\* startEpochBackgroundProcess: the wait for the sessions is over.
EpochCompleted ==
  /\ ~exited /\ ~completed
  /\ completed' = TRUE
  /\ UNCHANGED <<pc, mutex, raw, sent, mined, left, gaveUp, faults, exited>>

\* Transactions of an account are mined in the order of their nonces.
Mine ==
  /\ ~exited /\ mined + 1 \in DOMAIN sent
  /\ mined' = mined + 1
  /\ UNCHANGED <<pc, mutex, raw, sent, left, completed, gaveUp, faults, exited>>

\* All have ended, or wait for what never comes.
Ended == /\ exited \/ \A s \in Senders : pc[s] \in {"wait", "done"}
         /\ UNCHANGED vars

Step(s) ==
  \/ Begin(s) \/ GetRawTx(s) \/ SendRawTx(s) \/ NonceTaken(s) \/ RequestFails(s)
  \/ Mined(s) \/ NotMined(s) \/ GeneratorStops(s)

Next == (\E s \in Senders : Step(s)) \/ ExecuteLate \/ EpochCompleted \/ Mine \/ Ended
Spec == Init /\ [][Next]_vars

\* The epoch ends (EpochRun: the waits of test have a timeout), sync.Mutex
\* starves nobody, and the timer of waitForMinedTransaction fires.
FairSpec ==
  /\ Spec /\ WF_vars(EpochCompleted)
  /\ \A s \in Senders :
       /\ SF_vars(Begin(s))
       /\ WF_vars(GetRawTx(s) \/ SendRawTx(s) \/ NonceTaken(s))
       /\ WF_vars(Mined(s) \/ NotMined(s)) /\ WF_vars(GeneratorStops(s))

-----------------------------------------------------------------------------
(* Properties                                                              *)

\* Types, and nonces without a gap: what was accepted is 1..Last, and mining
\* never runs ahead of it.
TypeOK ==
  /\ pc \in [Senders -> {"idle", "raw", "send", "mining", "wait", "done"}]
  /\ mutex \in (Senders \ Switchers) \cup {Nobody}
  /\ \A s \in Senders : raw[s] \in 0..Last + 1
  /\ DOMAIN sent = 1..Last /\ \A n \in DOMAIN sent : sent[n] \in Senders
  /\ mined \in 0..Last
  /\ left \in [Jobs -> Nat]
  /\ completed \in BOOLEAN /\ exited \in BOOLEAN
  /\ gaveUp \subseteq Senders \X (1..Last + 1) /\ faults \in 0..MaxFaults

\* The mutex keeps apart all but the switchers, which do without it
\* (user_shared.go:339-344 against 641-648), and a transaction that a generator
\* has given up (background.go:57-61), which the node executes when another
\* goroutine has signed with the same nonce.  No job ever takes the nonce of
\* another job or of a generator.
CollisionsExplained ==
  \A s \in Senders : At(s, "send") /\ raw[s] \in DOMAIN sent =>
    LET t == sent[raw[s]]
    IN  \/ s \in Switchers \/ t \in Switchers
        \/ t \in Generators /\ <<t, raw[s]>> \in gaveUp

\* A job that has ended, or waits for its group, has had all it sent mined,
\* and has sent as many transactions as the scenario says.
MinedBeforeDone ==
  \A s \in Jobs : pc[s] \in {"wait", "done"} =>
    LET own == {n \in DOMAIN sent : sent[n] = s}
    IN  (\A n \in own : n <= mined) /\ Cardinality(own) = Size[s]

\* To the user's account, the goroutines are as if one of them sent at a time,
\* a job nothing while it waits, and none ended before its work is mined: what
\* SendTransaction's mutex and waitForMinedTransaction are for, with requests
\* that fail and nonces that switchers take (user_shared.go:339-351,
\* process.go:574-596).
UserAccount == INSTANCE Account
                 WITH log   <- sent,
                      ended <- {s \in Jobs : pc[s] \in {"wait", "done"}}

ImplementsAccount == UserAccount!Spec

\* Every goroutine but those with a WaitGroup ends, also when requests of
\* others fail or take its nonce: jobs by their last transaction, switchers
\* by a transaction or the deadline, generators by the end of the epoch, all
\* by the exit.
EveryoneEnds == \A s \in Senders \ Groups : <>(exited \/ pc[s] = "done")
=============================================================================
