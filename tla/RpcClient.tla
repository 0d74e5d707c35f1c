----------------------------- MODULE RpcClient -----------------------------
(***************************************************************************)
(* The RPC client of a user: what each method asks of sendRequest (the     *)
(* mutex, the timeout, the retry), and the fate of a request at a node     *)
(* that is slow, hangs, crashes, is stopped by the scenario, or has not    *)
(* registered its methods yet.  A request whose call has given up stays at *)
(* the node and may be executed later.  The crash handler, which runs      *)
(* inside the call that was refused, is one step here; NodeLifecycle has   *)
(* the steps it is made of.                                                *)
(***************************************************************************)
EXTENDS Naturals, FiniteSets

CONSTANTS
  Threads,      (* goroutines that use the client                          *)
  Nobody,       (* holds the mutex when it is free                         *)
  Attempts,     (* sendRequest's counter (5 in the code)                   *)
  MaxCalls,     (* bounds the calls of a goroutine                         *)
  MaxFaults     (* bounds the crashes, hangs and stops of the node         *)

ASSUME RpcAssumption ==
  /\ Nobody \notin Threads
  /\ Attempts \in Nat \ {0} /\ MaxCalls \in Nat \ {0} /\ MaxFaults \in Nat

-----------------------------------------------------------------------------
(* The methods.  timeout is in seconds, 0 for none; changes: executing it  *)
(* twice is not the same as executing it once.                             *)

Query(t) == [lock |-> FALSE, timeout |-> t, retry |-> TRUE, changes |-> FALSE]
Once(t)  == [lock |-> FALSE, timeout |-> t, retry |-> FALSE, changes |-> FALSE]

\* Mutant: what is sent is sent again like a query.
SendingAgain(t) ==
  [lock |-> TRUE, timeout |-> t, retry |-> TRUE, changes |-> TRUE]

Sending(t) ==
  [lock |-> TRUE, timeout |-> t, retry |-> FALSE, changes |-> TRUE]
LockedQuery(t) ==
  [lock |-> TRUE, timeout |-> t, retry |-> TRUE, changes |-> FALSE]

defaultTimeoutSec == 10

GetEpoch                         == Query(defaultTimeoutSec)
GetCoinbaseAddr                  == Query(defaultTimeoutSec)
GetPubKey                        == Query(defaultTimeoutSec)
GetIpfsAddress                   == Query(defaultTimeoutSec)
GetIdentity                      == Query(defaultTimeoutSec)
SendInvite                       == Sending(0)
ActivateInvite                   == Sending(0)
SubmitFlip                       == Sending(0)
DeleteFlip                       == Sending(0)
getFlipHashes                    == Query(defaultTimeoutSec)
GetFlip                          == Query(15)
GetFlipWords                     == Query(15)
SubmitShortAnswers               == Sending(defaultTimeoutSec)
SubmitLongAnswers                == Sending(defaultTimeoutSec)
BecomeOnline                     == Sending(defaultTimeoutSec)
BecomeOffline                    == Sending(defaultTimeoutSec)

\* Mutant: a transaction is sent without the mutex.
SendTransactionUnlocked ==
  [lock |-> FALSE, timeout |-> 10, retry |-> FALSE, changes |-> TRUE]

SendTransaction                  == Sending(defaultTimeoutSec)
CeremonyIntervals                == Query(defaultTimeoutSec)
GetPeers                         == Query(defaultTimeoutSec)
AddPeer                          == Once(1)
Burn                             == Sending(defaultTimeoutSec)
BurntCoins                       == Query(defaultTimeoutSec)
ChangeProfile                    == Sending(0)
GetProfile                       == LockedQuery(defaultTimeoutSec)
GetFlipRaw                       == Once(5)
GetFlipKeys                      == Query(15)
CheckSyncing                     == Query(15)
Transaction                      == Once(15)
AddIpfsData                      == Once(60)
IpfsDataCid                      == Once(60)
StoreToIpfs                      == Sending(defaultTimeoutSec)
SendRawTx                        == Sending(defaultTimeoutSec)
GetRawTx                         == LockedQuery(defaultTimeoutSec)
WordsSeed                        == Query(defaultTimeoutSec)
SubmitRawFlip                    == Sending(0)
WordPairs                        == Query(defaultTimeoutSec)
SendPublicEncryptionKey          == Sending(defaultTimeoutSec)
SendPrivateEncryptionKeysPackage == Sending(defaultTimeoutSec)
PrivateEncryptionKeyCandidates   == Query(defaultTimeoutSec)
KeyWord                          == Query(defaultTimeoutSec)

Calls ==
  {GetEpoch, GetCoinbaseAddr, GetPubKey, GetIpfsAddress, GetIdentity,
   SendInvite, ActivateInvite, SubmitFlip, DeleteFlip, getFlipHashes, GetFlip,
   GetFlipWords, SubmitShortAnswers, SubmitLongAnswers, BecomeOnline,
   BecomeOffline, SendTransaction, CeremonyIntervals, GetPeers, AddPeer, Burn,
   BurntCoins, ChangeProfile, GetProfile, GetFlipRaw, GetFlipKeys,
   CheckSyncing, Transaction, AddIpfsData, IpfsDataCid, StoreToIpfs, SendRawTx,
   GetRawTx, WordsSeed, SubmitRawFlip, WordPairs, SendPublicEncryptionKey,
   SendPrivateEncryptionKeysPackage, PrivateEncryptionKeyCandidates, KeyWord}

-----------------------------------------------------------------------------
VARIABLES
  pc,           (* per goroutine                                           *)
  call,         (* per goroutine, the method it calls                      *)
  number,       (* per goroutine, its calls so far                         *)
  counter,      (* per goroutine, sendRequest's counter                    *)
  mutex,        (* who holds client.mutex                                  *)
  node,         (* "up", "down" or "hung"                                  *)
  available,    (* the node has registered its methods                     *)
  active,       (* user.active                                             *)
  faults,       (* crashes, hangs and stops so far                         *)
  abandoned,    (* <<t, n>>: requests at the node whose call has given up  *)
  executed,     (* executions of the n-th call of t, if it changes state   *)
  outcome       (* what the n-th call of t returned                        *)

vars == <<pc, call, number, counter, mutex, node, available, active, faults,
          abandoned, executed, outcome>>
nodeVars == <<node, available, active, faults>>

Init ==
  /\ pc = [t \in Threads |-> "idle"]
  /\ call = [t \in Threads |-> GetEpoch]
  /\ number = [t \in Threads |-> 0]
  /\ counter = [t \in Threads |-> Attempts]
  /\ mutex = Nobody
  /\ node = "up" /\ available = FALSE /\ active = TRUE /\ faults = 0
  /\ abandoned = {}
  /\ executed = [t \in Threads |-> [n \in 1..MaxCalls |-> 0]]
  /\ outcome = [t \in Threads |-> [n \in 1..MaxCalls |-> "none"]]

At(t, p) == pc[t] = p
Goto(t, p) == pc' = [pc EXCEPT ![t] = p]

\* The node has the request of t: not executed yet, or executed.
Waiting == {t \in Threads : pc[t] \in {"wait", "executed"}}

-----------------------------------------------------------------------------
(* A method: mutex.Lock, sendRequestAndParseResponse, the deferred Unlock  *)

Begin(t) ==
  /\ At(t, "idle") /\ number[t] < MaxCalls
  /\ \E c \in Calls : call' = [call EXCEPT ![t] = c]
  /\ number' = [number EXCEPT ![t] = @ + 1]
  /\ counter' = [counter EXCEPT ![t] = Attempts]
  /\ Goto(t, IF call'[t].lock THEN "lock" ELSE "send")
  /\ UNCHANGED <<nodeVars, mutex, abandoned, executed, outcome>>

Lock(t) ==
  /\ At(t, "lock") /\ mutex = Nobody
  /\ mutex' = t
  /\ Goto(t, "send")
  /\ UNCHANGED <<nodeVars, call, number, counter, abandoned, executed, outcome>>

Return(t, o) ==
  /\ outcome' = [outcome EXCEPT ![t][number[t]] = o]
  /\ mutex' = IF mutex = t THEN Nobody ELSE mutex
  /\ Goto(t, "idle")

-----------------------------------------------------------------------------
(* sendRequest                                                             *)

Send(t) ==
  /\ At(t, "send") /\ node # "down"
  /\ Goto(t, "wait")
  /\ UNCHANGED <<nodeVars, call, number, counter, mutex, abandoned, executed,
                 outcome>>

\* After a failed attempt.
RetryOrReturn(t, left) ==
  \/ left > 0 /\ call[t].retry /\ Goto(t, "send") /\ UNCHANGED <<mutex, outcome>>
  \/ ~(left > 0 /\ call[t].retry) /\ Return(t, "error")

\* Connection refused: the event is published, and handled at once.
Refused(t) ==
  /\ At(t, "send") /\ node = "down" /\ active
  /\ Goto(t, "handler")
  /\ UNCHANGED <<nodeVars, call, number, counter, mutex, abandoned, executed,
                 outcome>>

RefusedInactive(t) ==
  /\ At(t, "send") /\ node = "down" /\ ~active
  /\ RetryOrReturn(t, counter[t])
  /\ UNCHANGED <<nodeVars, call, number, counter, abandoned, executed>>

\* A read error, or a timeout.
Failed(t) ==
  /\ counter' = [counter EXCEPT ![t] = @ - 1]
  /\ RetryOrReturn(t, counter[t] - 1)
  /\ UNCHANGED <<nodeVars, call, number, executed>>

\* The request stays at the node; of interest is only one that changes it.
Abandon(t) ==
  abandoned' = IF At(t, "wait") /\ call[t].changes
               THEN abandoned \cup {<<t, number[t]>>} ELSE abandoned

\* Mutant: a timeout is no attempt either.
TimedOutFree(t) ==
  /\ t \in Waiting /\ call[t].timeout > 0
  /\ Abandon(t)
  /\ RetryOrReturn(t, counter[t])
  /\ UNCHANGED <<nodeVars, call, number, counter, executed>>

\* http.Client.Timeout; 0 is no timeout.
TimedOut(t) ==
  /\ t \in Waiting /\ call[t].timeout > 0
  /\ Abandon(t)
  /\ Failed(t)

ConnectionLost(t) == At(t, "lost") /\ Failed(t) /\ UNCHANGED abandoned

\* The answer: anything but "does not exist/is not available" is returned,
\* the error of a node too.
Answered(t) ==
  /\ At(t, "executed")
  /\ Return(t, "ok")
  /\ UNCHANGED <<nodeVars, call, number, counter, abandoned, executed>>

\* Five seconds later the request is sent again, with a new counter.
NotAvailable(t) ==
  /\ At(t, "wait") /\ node = "up" /\ ~available
  /\ counter' = [counter EXCEPT ![t] = Attempts]
  /\ Goto(t, "send")
  /\ UNCHANGED <<nodeVars, call, number, mutex, abandoned, executed, outcome>>

-----------------------------------------------------------------------------
(* The crash handler and the scenario                                      *)

\* Connections to the node that was there are lost, and its requests too.
Cut(next) == [t \in Threads |-> IF t \in Waiting THEN "lost" ELSE next[t]]

\* The handler destroys the node and starts it; startNode ends with
\* CheckSyncing of the same client.
Restarted(t) ==
  /\ At(t, "handler")
  /\ CheckSyncing.lock => mutex = Nobody
  /\ node' = "up" /\ available' = FALSE /\ active' = TRUE
  /\ pc' = Cut([pc EXCEPT ![t] = "handled"]) /\ abandoned' = {}
  /\ UNCHANGED <<call, number, counter, mutex, faults, executed, outcome>>

Handled(t) ==
  /\ At(t, "handled")
  /\ RetryOrReturn(t, counter[t])
  /\ UNCHANGED <<nodeVars, call, number, counter, abandoned, executed>>

\* switchNodeIfNeeded: user.Stop and user.Start.
StopNode ==
  /\ active /\ faults < MaxFaults
  /\ active' = FALSE /\ node' = "down" /\ available' = FALSE
  /\ faults' = faults + 1
  /\ pc' = Cut(pc) /\ abandoned' = {}
  /\ UNCHANGED <<call, number, counter, mutex, executed, outcome>>

StartNode ==
  /\ ~active
  /\ active' = TRUE /\ node' = "up" /\ available' = FALSE
  /\ UNCHANGED <<pc, call, number, counter, mutex, faults, abandoned, executed,
                 outcome>>

-----------------------------------------------------------------------------
(* The node                                                                *)

Count(t, n) == executed' = [executed EXCEPT ![t][n] = @ + 1]

Execute(t) ==
  /\ At(t, "wait") /\ node = "up" /\ available
  /\ Goto(t, "executed")
  /\ IF call[t].changes THEN Count(t, number[t]) ELSE UNCHANGED executed
  /\ UNCHANGED <<nodeVars, call, number, counter, mutex, abandoned, outcome>>

ExecuteAbandoned ==
  /\ node = "up" /\ available
  /\ \E r \in abandoned : abandoned' = abandoned \ {r} /\ Count(r[1], r[2])
  /\ UNCHANGED <<nodeVars, pc, call, number, counter, mutex, outcome>>

NodeRegisters ==
  /\ node = "up" /\ ~available
  /\ available' = TRUE
  /\ UNCHANGED <<pc, call, number, counter, mutex, node, active, faults,
                 abandoned, executed, outcome>>

NodeCrashes ==
  /\ node # "down" /\ faults < MaxFaults
  /\ node' = "down" /\ available' = FALSE /\ faults' = faults + 1
  /\ pc' = Cut(pc) /\ abandoned' = {}
  /\ UNCHANGED <<call, number, counter, mutex, active, executed, outcome>>

NodeHangs ==
  /\ node = "up" /\ faults < MaxFaults
  /\ node' = "hung" /\ faults' = faults + 1
  /\ UNCHANGED <<pc, call, number, counter, mutex, available, active,
                 abandoned, executed, outcome>>

-----------------------------------------------------------------------------
Step(t) ==
  \/ Begin(t) \/ Lock(t) \/ Send(t) \/ Refused(t) \/ RefusedInactive(t)
  \/ TimedOut(t) \/ ConnectionLost(t) \/ Answered(t) \/ NotAvailable(t)
  \/ Restarted(t) \/ Handled(t) \/ Execute(t)

\* The scenario has stopped the node; the node hangs on a call without a
\* timeout.
Stopped == node = "down" /\ ~active
HungWithoutTimeout ==
  node = "hung" /\ \E t \in Threads : At(t, "wait") /\ call[t].timeout = 0

\* All calls are made, or one never returns.
Ended == /\ \/ \A t \in Threads : At(t, "idle") /\ number[t] = MaxCalls
            \/ HungWithoutTimeout
         /\ UNCHANGED vars

Next == \/ \E t \in Threads : Step(t)
        \/ StopNode \/ StartNode \/ ExecuteAbandoned \/ NodeRegisters
        \/ NodeCrashes \/ NodeHangs \/ Ended

Spec == Init /\ [][Next]_vars

\* sync.Mutex starves nobody; a call that has begun goes on, its timer fires
\* and a node that is up registers its methods and answers.  Nothing makes a
\* node crash or hang, nor the scenario stop or start it.
FairSpec ==
  /\ Spec /\ WF_vars(NodeRegisters)
  /\ \A t \in Threads :
       /\ SF_vars(Lock(t))
       /\ WF_vars(Send(t) \/ Refused(t) \/ RefusedInactive(t))
       /\ WF_vars(Execute(t) \/ NotAvailable(t) \/ Answered(t) \/ TimedOut(t))
       /\ WF_vars(ConnectionLost(t)) /\ WF_vars(Restarted(t)) /\ WF_vars(Handled(t))

-----------------------------------------------------------------------------
(* Properties                                                              *)

TypeOK ==
  /\ pc \in [Threads -> {"idle", "lock", "send", "wait", "executed", "lost",
                         "handler", "handled"}]
  /\ call \in [Threads -> Calls]
  /\ number \in [Threads -> 0..MaxCalls]
  /\ counter \in [Threads -> 0..Attempts]
  /\ mutex \in Threads \cup {Nobody}
  /\ node \in {"up", "down", "hung"} /\ available \in BOOLEAN
  /\ active \in BOOLEAN /\ faults \in 0..MaxFaults
  /\ abandoned \subseteq Threads \X (1..MaxCalls)
  /\ executed \in [Threads -> [1..MaxCalls -> Nat]]
  /\ outcome \in [Threads -> [1..MaxCalls -> {"none", "ok", "error"}]]

\* However often a request is repeated, after a refused connection, for a
\* method that is not available yet, or after a timeout (client.go:393-467):
\* what changes the state of the node is executed at most once, also when
\* its call has given up and another one has begun.
AtMostOnce == \A t \in Threads : \A n \in 1..MaxCalls : executed[t][n] <= 1

\* Of the calls that change the state of the node one at a time has its
\* request there, whatever restarts lie between; only requests that were
\* given up can be beside it.
OneChangeAtATime ==
  \A t, u \in Waiting : call[t].changes /\ call[u].changes => t = u

\* Every call ends: queries that a node does not answer use up their
\* attempts, and calls that restart the node while they hold the mutex do
\* not wait for themselves.  Only a node that the scenario has stopped keeps
\* a call for ever, since refused connections are no attempts, and a node
\* that hangs on a call without a timeout keeps that one and all that wait
\* for the mutex (client.go:141 and the other calls with timeout 0).
CallsEnd ==
  \A t \in Threads :
    ~At(t, "idle")
      ~> (At(t, "idle") \/ Stopped \/ (call[t].lock /\ HungWithoutTimeout))
=============================================================================
