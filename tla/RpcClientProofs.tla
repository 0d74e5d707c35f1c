-------------------------- MODULE RpcClientProofs --------------------------
(***************************************************************************)
(* What holds for any number of goroutines, calls, attempts and faults:    *)
(* nothing that is sent is executed twice, and sendings are one at a time. *)
(***************************************************************************)
EXTENDS RpcClient, TLAPS

-----------------------------------------------------------------------------
(* The methods                                                             *)

CallRecords == [lock : BOOLEAN, timeout : Nat, retry : BOOLEAN, changes : BOOLEAN]

\* Every method that changes the node takes the mutex and is not retried.
LEMMA SendingsLockAndDoNotRetry ==
  \A c \in Calls : c \in CallRecords /\ (c.changes => c.lock /\ ~c.retry)
<1> DEFINE Good(c) == c \in CallRecords /\ (c.changes => c.lock /\ ~c.retry)
<1>1. \A s \in Nat : Good(Query(s)) /\ Good(Once(s)) /\ Good(Sending(s))
                       /\ Good(LockedQuery(s))
  BY DEF Query, Once, Sending, LockedQuery, CallRecords
<1>2. \A c \in Calls : \E s \in Nat : c \in {Query(s), Once(s), Sending(s), LockedQuery(s)}
  <2> SUFFICES ASSUME NEW c \in Calls
               PROVE  \E s \in {0, 1, 5, 10, 15, 60} :
                        c \in {Query(s), Once(s), Sending(s), LockedQuery(s)}
    OBVIOUS
  <2> QED BY DEF Calls, defaultTimeoutSec, GetEpoch, GetCoinbaseAddr, GetPubKey,
       GetIpfsAddress, GetIdentity, SendInvite, ActivateInvite, SubmitFlip,
       DeleteFlip, getFlipHashes, GetFlip, GetFlipWords, SubmitShortAnswers,
       SubmitLongAnswers, BecomeOnline, BecomeOffline, SendTransaction,
       CeremonyIntervals, GetPeers, AddPeer, Burn, BurntCoins, ChangeProfile,
       GetProfile, GetFlipRaw, GetFlipKeys, CheckSyncing, Transaction,
       AddIpfsData, IpfsDataCid, StoreToIpfs, SendRawTx, GetRawTx, WordsSeed,
       SubmitRawFlip, WordPairs, SendPublicEncryptionKey,
       SendPrivateEncryptionKeysPackage, PrivateEncryptionKeyCandidates, KeyWord
<1> HIDE DEF Good
<1>3. \A c \in Calls : Good(c)
  BY <1>1, <1>2
<1> QED BY <1>3 DEF Good

-----------------------------------------------------------------------------
(* The inductive invariant                                                 *)

\* Between Lock and Unlock the mutex is held; a call under way has a number
\* and an attempt left.
CallState ==
  \A t \in Threads :
    /\ pc[t] \notin {"idle", "lock"} /\ call[t].lock => mutex = t
    /\ pc[t] # "idle" => number[t] >= 1 /\ counter[t] >= 1

\* A request that will still be executed has not been executed.
ExecutionsOf(t, n) ==
  /\ <<t, n>> \in abandoned =>
       executed[t][n] = 0 /\ n <= number[t] /\ (n = number[t] => pc[t] = "idle")
  /\ n > number[t] => executed[t][n] = 0
  /\ n = number[t] /\ call[t].changes
       /\ pc[t] \in {"lock", "send", "wait", "handler"} => executed[t][n] = 0

Executions == \A t \in Threads : \A n \in 1..MaxCalls : ExecutionsOf(t, n)

IInv == TypeOK /\ CallState /\ Executions /\ AtMostOnce

\* TypeOK in two parts: the provers treat Boolean variables apart.
Flags == available \in BOOLEAN /\ active \in BOOLEAN

PcSet == {"idle", "lock", "send", "wait", "executed", "lost", "handler", "handled"}
Outcomes == {"none", "ok", "error"}

Types ==
  /\ pc \in [Threads -> PcSet]
  /\ call \in [Threads -> Calls]
  /\ number \in [Threads -> 0..MaxCalls]
  /\ counter \in [Threads -> 0..Attempts]
  /\ mutex \in Threads \cup {Nobody}
  /\ node \in {"up", "down", "hung"} /\ faults \in 0..MaxFaults
  /\ abandoned \subseteq Threads \X (1..MaxCalls)
  /\ executed \in [Threads -> [1..MaxCalls -> Nat]]
  /\ outcome \in [Threads -> [1..MaxCalls -> Outcomes]]

LEMMA TypeParts == TypeOK <=> Types /\ Flags
BY Zenon DEF TypeOK, Types, Flags, PcSet, Outcomes

LEMMA InitIInv == Init => IInv
<1> SUFFICES ASSUME Init PROVE IInv
  OBVIOUS
<1> USE RpcAssumption
<1>1. GetEpoch \in Calls
  BY DEF Calls
<1>2. Types
  BY <1>1 DEF Init, Types, PcSet, Outcomes
<1>3. Flags
  BY Zenon DEF Init, Flags
<1>4. CallState
  BY DEF Init, CallState
<1>5. Executions /\ AtMostOnce
  BY DEF Init, Executions, ExecutionsOf, AtMostOnce
<1> QED BY <1>2, <1>3, <1>4, <1>5, TypeParts DEF IInv

-----------------------------------------------------------------------------
(* The steps, in what they do to a goroutine                               *)

\* The end of an attempt of t: only what is not sent is sent again.
LEMMA AttemptEnds ==
  ASSUME Types, NEW t \in Threads, NEW left \in Nat, RetryOrReturn(t, left),
         number[t] >= 1
  PROVE  /\ pc' \in [Threads -> PcSet] /\ \A u \in Threads \ {t} : pc'[u] = pc[u]
         /\ \/ pc'[t] = "send" /\ ~call[t].changes /\ left > 0 /\ mutex' = mutex
            \/ pc'[t] = "idle" /\ mutex' = IF mutex = t THEN Nobody ELSE mutex
         /\ mutex' \in Threads \cup {Nobody}
         /\ outcome' \in [Threads -> [1..MaxCalls -> Outcomes]]
<1> USE DEF PcSet, Outcomes
<1>1. number[t] \in 1..MaxCalls /\ call[t] \in Calls
  BY DEF Types
<1>2. call[t].changes => ~call[t].retry
  BY <1>1, SendingsLockAndDoNotRetry
<1>3. CASE left > 0 /\ call[t].retry /\ Goto(t, "send") /\ UNCHANGED <<mutex, outcome>>
  BY <1>2, <1>3 DEF Goto, Types
<1>4. CASE Return(t, "error")
  BY <1>1, <1>4 DEF Return, Goto, Types
<1> QED BY <1>3, <1>4 DEF RetryOrReturn

LEMMA CountType ==
  ASSUME executed \in [Threads -> [1..MaxCalls -> Nat]],
         NEW t \in Threads, NEW n \in 1..MaxCalls, Count(t, n)
  PROVE  /\ executed' \in [Threads -> [1..MaxCalls -> Nat]]
         /\ executed'[t][n] = executed[t][n] + 1
         /\ \A u \in Threads : \A m \in 1..MaxCalls :
              <<u, m>> # <<t, n>> => executed'[u][m] = executed[u][m]
<1> DEFINE row == [executed[t] EXCEPT ![n] = executed[t][n] + 1]
<1>1. row \in [1..MaxCalls -> Nat] /\ row[n] = executed[t][n] + 1
        /\ \A m \in 1..MaxCalls \ {n} : row[m] = executed[t][m]
  <2>1. executed[t] \in [1..MaxCalls -> Nat]
    OBVIOUS
  <2>2. executed[t][n] \in Nat
    BY <2>1
  <2>3. executed[t][n] + 1 \in Nat
    BY <2>2
  <2> QED BY <2>1, <2>3, Zenon
<1>2. executed' = [executed EXCEPT ![t] = row]
  BY DEF Count
<1> HIDE DEF row
<1>3. executed'[t] = row /\ \A u \in Threads \ {t} : executed'[u] = executed[u]
  BY <1>2
<1>4. executed' \in [Threads -> [1..MaxCalls -> Nat]]
  BY <1>1, <1>2
<1> QED BY <1>1, <1>3, <1>4

LEMMA FlagsStep == Flags /\ [Next]_vars => Flags'
<1> SUFFICES ASSUME Flags, [Next]_vars PROVE Flags'
  OBVIOUS
<1> USE DEF Flags, nodeVars
<1>1. ASSUME NEW t \in Threads, Step(t) PROVE Flags'
  BY <1>1, Zenon DEF Step, Begin, Lock, Send, Refused, RefusedInactive, TimedOut,
     ConnectionLost, Failed, Answered, NotAvailable, Restarted, Handled, Execute
<1>2. CASE StopNode \/ StartNode \/ ExecuteAbandoned \/ NodeRegisters
             \/ NodeCrashes \/ NodeHangs
  BY <1>2, Zenon DEF StopNode, StartNode, ExecuteAbandoned, NodeRegisters,
     NodeCrashes, NodeHangs
<1>3. CASE UNCHANGED vars
  BY <1>3, Zenon DEF vars
<1> QED BY <1>1, <1>2, <1>3 DEF Next, Ended

LEMMA TypesStep == Types /\ CallState /\ [Next]_vars => Types'
<1> SUFFICES ASSUME Types, CallState, [Next]_vars PROVE Types'
  OBVIOUS
<1> USE RpcAssumption DEF Types, CallState, nodeVars, PcSet, Outcomes
<1>1. ASSUME NEW t \in Threads, Begin(t) PROVE Types'
  <2>1. PICK c \in Calls : call' = [call EXCEPT ![t] = c]
    BY <1>1 DEF Begin
  <2> QED BY <1>1, <2>1 DEF Begin, Goto, At
<1>2. ASSUME NEW t \in Threads, NEW p \in PcSet, Goto(t, p)
      PROVE  pc' \in [Threads -> PcSet]
  BY <1>2 DEF Goto
<1>a. ASSUME NEW t \in Threads, Lock(t) PROVE Types'
  BY <1>2, <1>a DEF Lock
<1>b. ASSUME NEW t \in Threads, Send(t) \/ Refused(t) PROVE Types'
  BY <1>2, <1>b DEF Send, Refused
<1>c. ASSUME NEW t \in Threads, NotAvailable(t) PROVE Types'
  BY <1>2, <1>c DEF NotAvailable
<1>3. ASSUME NEW t \in Threads, RefusedInactive(t) \/ Handled(t) PROVE Types'
  <2>1. RetryOrReturn(t, counter[t]) /\ pc[t] # "idle"
    BY <1>3 DEF RefusedInactive, Handled, At
  <2>2. counter[t] \in Nat /\ number[t] >= 1
    BY <2>1
  <2>3. /\ pc' \in [Threads -> PcSet] /\ mutex' \in Threads \cup {Nobody}
        /\ outcome' \in [Threads -> [1..MaxCalls -> Outcomes]]
    <3> HIDE DEF Types, PcSet, Outcomes, CallState
    <3> QED BY <2>1, <2>2, AttemptEnds
  <2>4. UNCHANGED <<node, faults, call, number, counter, abandoned, executed>>
    BY <1>3 DEF RefusedInactive, Handled
  <2> QED BY <2>3, <2>4
<1>4. ASSUME NEW t \in Threads, TimedOut(t) \/ ConnectionLost(t) PROVE Types'
  <2>1. pc[t] # "idle" /\ Failed(t)
    BY <1>4 DEF TimedOut, ConnectionLost, Waiting, At
  <2>2. counter[t] - 1 \in 0..Attempts /\ number[t] \in 1..MaxCalls
    BY <2>1
  <2>3. RetryOrReturn(t, counter[t] - 1) /\ counter' = [counter EXCEPT ![t] = counter[t] - 1]
    BY <2>1 DEF Failed
  <2>4. /\ pc' \in [Threads -> PcSet] /\ mutex' \in Threads \cup {Nobody}
        /\ outcome' \in [Threads -> [1..MaxCalls -> Outcomes]]
    <3>1. counter[t] - 1 \in Nat /\ number[t] >= 1
      BY <2>2
    <3> HIDE DEF Types, PcSet, Outcomes, CallState
    <3> QED BY <2>3, <3>1, AttemptEnds
  <2>5. abandoned' \subseteq Threads \X (1..MaxCalls)
    BY <1>4, <2>2 DEF TimedOut, ConnectionLost, Abandon
  <2>6. UNCHANGED <<node, faults, call, number, executed>>
    BY <2>1 DEF Failed
  <2> QED BY <2>2, <2>3, <2>4, <2>5, <2>6
<1>5. ASSUME NEW t \in Threads, Answered(t) PROVE Types'
  <2>1. number[t] \in 1..MaxCalls
    BY <1>5 DEF Answered, At
  <2> QED BY <1>5, <2>1 DEF Answered, Return, Goto
<1>6. ASSUME NEW t \in Threads, Restarted(t) PROVE Types'
  BY <1>6 DEF Restarted, Cut, Waiting
<1>7. ASSUME NEW t \in Threads, Execute(t) PROVE Types'
  <2>1. number[t] \in 1..MaxCalls
    BY <1>7 DEF Execute, At
  <2>2. executed' \in [Threads -> [1..MaxCalls -> Nat]]
    BY <1>7, <2>1, CountType DEF Execute
  <2> QED BY <1>2, <1>7, <2>2 DEF Execute
<1>8. CASE StopNode \/ NodeCrashes
  BY <1>8 DEF StopNode, NodeCrashes, Cut, Waiting
<1>9. CASE StartNode \/ NodeRegisters \/ NodeHangs
  BY <1>9 DEF StartNode, NodeRegisters, NodeHangs
<1>10. CASE ExecuteAbandoned
  <2>1. PICK r \in abandoned : abandoned' = abandoned \ {r} /\ Count(r[1], r[2])
    BY <1>10 DEF ExecuteAbandoned
  <2>2. r[1] \in Threads /\ r[2] \in 1..MaxCalls
    OBVIOUS
  <2>3. executed' \in [Threads -> [1..MaxCalls -> Nat]]
    BY <2>1, <2>2, CountType
  <2>4. UNCHANGED <<pc, call, number, counter, mutex, node, faults, outcome>>
    BY <1>10 DEF ExecuteAbandoned
  <2> QED BY <2>1, <2>3, <2>4
<1>11. CASE UNCHANGED vars
  BY <1>11 DEF vars
<1> QED BY <1>1, <1>a, <1>b, <1>c, <1>3, <1>4, <1>5, <1>6, <1>7, <1>8, <1>9, <1>10,
           <1>11 DEF Next, Step, Ended

LEMMA CallStateStep == Types /\ CallState /\ [Next]_vars => CallState'
<1> SUFFICES ASSUME Types, CallState, [Next]_vars PROVE CallState'
  OBVIOUS
<1> USE RpcAssumption DEF nodeVars
<1>0. /\ pc \in [Threads -> PcSet] /\ call \in [Threads -> Calls]
      /\ number \in [Threads -> 0..MaxCalls] /\ counter \in [Threads -> 0..Attempts]
  BY DEF Types
\* Steps that begin or end an attempt.
<1>1. ASSUME NEW t \in Threads, Begin(t) PROVE CallState'
  BY <1>0, <1>1 DEF Begin, Goto, At, CallState
<1>2. ASSUME NEW t \in Threads, Lock(t) PROVE CallState'
  BY <1>0, <1>2 DEF Lock, Goto, At, CallState
<1>3. ASSUME NEW t \in Threads, Send(t) \/ Refused(t) \/ NotAvailable(t) \/ Execute(t)
      PROVE CallState'
  BY <1>0, <1>3 DEF Send, Refused, NotAvailable, Execute, Goto, At, CallState
<1>4. ASSUME NEW t \in Threads, RefusedInactive(t) \/ Handled(t) PROVE CallState'
  <2>1. /\ RetryOrReturn(t, counter[t]) /\ pc[t] \notin {"idle", "lock"}
        /\ UNCHANGED <<call, number, counter>>
    BY <1>4 DEF RefusedInactive, Handled, At
  <2>2. counter[t] \in Nat /\ number[t] >= 1
    BY <1>0, <2>1 DEF CallState
  <2>3. /\ \A u \in Threads \ {t} : pc'[u] = pc[u]
        /\ \/ pc'[t] = "send" /\ mutex' = mutex
           \/ pc'[t] = "idle" /\ mutex' = IF mutex = t THEN Nobody ELSE mutex
    BY <2>1, <2>2, AttemptEnds
  <2> QED BY <2>1, <2>3 DEF CallState
<1>5. ASSUME NEW t \in Threads, TimedOut(t) \/ ConnectionLost(t) PROVE CallState'
  <2>1. pc[t] \notin {"idle", "lock"} /\ Failed(t)
    BY <1>5 DEF TimedOut, ConnectionLost, Waiting, At
  <2>2. counter[t] - 1 \in Nat /\ number[t] >= 1
    BY <1>0, <2>1 DEF CallState
  <2>3. /\ \A u \in Threads \ {t} : pc'[u] = pc[u]
        /\ \/ pc'[t] = "send" /\ mutex' = mutex /\ counter[t] - 1 > 0
           \/ pc'[t] = "idle" /\ mutex' = IF mutex = t THEN Nobody ELSE mutex
    BY <2>1, <2>2, AttemptEnds DEF Failed
  <2>4. /\ counter' = [counter EXCEPT ![t] = counter[t] - 1]
        /\ UNCHANGED <<call, number>>
    BY <2>1 DEF Failed
  <2> QED BY <1>0, <2>1, <2>2, <2>3, <2>4 DEF CallState
<1>6. ASSUME NEW t \in Threads, Answered(t) PROVE CallState'
  BY <1>0, <1>6 DEF Answered, Return, Goto, At, CallState
\* Steps that cut connections.
<1>7. ASSUME NEW t \in Threads, Restarted(t) PROVE CallState'
  <2>1. /\ \A u \in Threads : pc'[u] = pc[u] \/ pc[u] \in {"wait", "executed", "handler"}
        /\ UNCHANGED <<call, number, counter, mutex>>
    BY <1>0, <1>7 DEF Restarted, Cut, Waiting, At
  <2> QED BY <2>1 DEF CallState
<1>8. CASE StopNode \/ NodeCrashes
  <2>1. /\ \A u \in Threads : pc'[u] = pc[u] \/ pc[u] \in {"wait", "executed"}
        /\ UNCHANGED <<call, number, counter, mutex>>
    BY <1>0, <1>8 DEF StopNode, NodeCrashes, Cut, Waiting
  <2> QED BY <2>1 DEF CallState
<1>9. CASE StartNode \/ ExecuteAbandoned \/ NodeRegisters \/ NodeHangs \/ UNCHANGED vars
  <2>1. UNCHANGED <<pc, call, number, counter, mutex>>
    BY <1>9 DEF StartNode, ExecuteAbandoned, NodeRegisters, NodeHangs, vars
  <2> QED BY <2>1 DEF CallState
<1> QED BY <1>1, <1>2, <1>3, <1>4, <1>5, <1>6, <1>7, <1>8, <1>9 DEF Next, Step, Ended

Pending == {"lock", "send", "wait", "handler"}

\* A step that executes nothing, gives up no request and brings back none.
LEMMA QuietStep ==
  ASSUME Executions, AtMostOnce, UNCHANGED <<call, number, executed>>,
         abandoned' \subseteq abandoned,
         \A u \in Threads :
           /\ pc[u] = "idle" => pc'[u] = "idle"
           /\ pc'[u] \in Pending => pc[u] \in Pending \/ ~call[u].changes
  PROVE  Executions' /\ AtMostOnce'
<1>1. AtMostOnce'
  BY DEF AtMostOnce
<1>2. Executions'
  BY DEF Executions, ExecutionsOf, Pending
<1> QED BY <1>1, <1>2

LEMMA ExecutionsStep ==
  Types /\ CallState /\ Executions /\ AtMostOnce /\ [Next]_vars
    => Executions' /\ AtMostOnce'
<1> SUFFICES ASSUME Types, CallState, Executions, AtMostOnce, [Next]_vars
             PROVE  Executions' /\ AtMostOnce'
  OBVIOUS
<1> USE RpcAssumption DEF nodeVars
<1>0. /\ pc \in [Threads -> PcSet] /\ call \in [Threads -> Calls]
      /\ number \in [Threads -> 0..MaxCalls] /\ counter \in [Threads -> 0..Attempts]
      /\ executed \in [Threads -> [1..MaxCalls -> Nat]]
      /\ abandoned \subseteq Threads \X (1..MaxCalls)
  BY DEF Types
<1>1. ASSUME NEW t \in Threads, Begin(t) PROVE Executions' /\ AtMostOnce'
  <2>1. /\ pc[t] = "idle" /\ number' = [number EXCEPT ![t] = number[t] + 1]
        /\ UNCHANGED <<executed, abandoned>>
        /\ \A u \in Threads \ {t} : pc'[u] = pc[u] /\ call'[u] = call[u]
    BY <1>0, <1>1 DEF Begin, Goto, At
  <2>2. AtMostOnce'
    BY <2>1 DEF AtMostOnce
  <2>3. Executions'
    <3> SUFFICES ASSUME NEW u \in Threads, NEW m \in 1..MaxCalls
                 PROVE  ExecutionsOf(u, m)'
      BY DEF Executions
    <3>1. ExecutionsOf(u, m) /\ number[u] \in Nat
      BY <1>0 DEF Executions
    <3>2. CASE u = t
      BY <1>0, <2>1, <3>1, <3>2 DEF ExecutionsOf
    <3>3. CASE u # t
      BY <1>0, <2>1, <3>1, <3>3 DEF ExecutionsOf
    <3> QED BY <3>2, <3>3
  <2> QED BY <2>2, <2>3
<1>2. ASSUME NEW t \in Threads,
             Lock(t) \/ Send(t) \/ Refused(t) \/ Answered(t) \/ NotAvailable(t)
      PROVE  Executions' /\ AtMostOnce'
  <2>1. /\ UNCHANGED <<call, number, executed, abandoned>>
        /\ \A u \in Threads : /\ pc[u] = "idle" => pc'[u] = "idle"
                              /\ pc'[u] \in Pending => pc[u] \in Pending
    BY <1>0, <1>2 DEF Lock, Send, Refused, Answered, NotAvailable, Return, Goto,
       At, Pending
  <2> QED BY <2>1, QuietStep
<1>3. ASSUME NEW t \in Threads, RefusedInactive(t) \/ Handled(t)
      PROVE  Executions' /\ AtMostOnce'
  <2>1. /\ RetryOrReturn(t, counter[t]) /\ pc[t] # "idle"
        /\ UNCHANGED <<call, number, executed, abandoned>>
    BY <1>3 DEF RefusedInactive, Handled, At
  <2>2. counter[t] \in Nat /\ number[t] >= 1
    BY <1>0, <2>1 DEF CallState
  <2>3. /\ \A u \in Threads \ {t} : pc'[u] = pc[u]
        /\ pc'[t] = "idle" \/ (pc'[t] = "send" /\ ~call[t].changes)
    BY <2>1, <2>2, AttemptEnds
  <2> QED BY <2>1, <2>3, QuietStep DEF Pending
<1>4. ASSUME NEW t \in Threads, TimedOut(t) \/ ConnectionLost(t)
      PROVE  Executions' /\ AtMostOnce'
  <2>1. /\ pc[t] # "idle" /\ Failed(t) /\ UNCHANGED <<call, number, executed>>
    BY <1>4 DEF TimedOut, ConnectionLost, Waiting, At, Failed
  <2>2. counter[t] - 1 \in Nat /\ number[t] >= 1
    BY <1>0, <2>1 DEF CallState
  <2>3. /\ \A u \in Threads \ {t} : pc'[u] = pc[u]
        /\ pc'[t] = "idle" \/ (pc'[t] = "send" /\ ~call[t].changes)
    BY <2>1, <2>2, AttemptEnds DEF Failed
  <2>4. CASE abandoned' = abandoned
    BY <2>1, <2>3, <2>4, QuietStep DEF Pending
  <2>5. CASE /\ abandoned' = abandoned \cup {<<t, number[t]>>}
             /\ pc[t] = "wait" /\ call[t].changes
    <3>1. pc'[t] = "idle" /\ executed[t][number[t]] = 0
      <4>1. number[t] \in 1..MaxCalls
        BY <1>0, <2>2
      <4> QED BY <2>3, <2>5, <4>1 DEF Executions, ExecutionsOf
    <3>2. AtMostOnce'
      BY <2>1 DEF AtMostOnce
    <3>3. Executions'
      <4> SUFFICES ASSUME NEW u \in Threads, NEW m \in 1..MaxCalls
                   PROVE  ExecutionsOf(u, m)'
        BY DEF Executions
      <4>1. ExecutionsOf(u, m) /\ number[u] \in Nat
        BY <1>0 DEF Executions
      <4>2. CASE u = t
        BY <1>0, <2>1, <2>3, <2>5, <3>1, <4>1, <4>2 DEF ExecutionsOf
      <4>3. CASE u # t
        BY <1>0, <2>1, <2>3, <2>5, <3>1, <4>1, <4>3 DEF ExecutionsOf
      <4> QED BY <4>2, <4>3
    <3> QED BY <3>2, <3>3
  <2> QED BY <1>4, <2>4, <2>5 DEF TimedOut, ConnectionLost, Abandon, At
<1>5. ASSUME NEW t \in Threads, Restarted(t) PROVE Executions' /\ AtMostOnce'
  <2>1. /\ UNCHANGED <<call, number, executed>> /\ abandoned' = {}
        /\ \A u \in Threads : pc'[u] = pc[u] \/ pc'[u] = "lost"
                                \/ (pc[u] = "handler" /\ pc'[u] = "handled")
        /\ \A u \in Threads : pc[u] = "idle" => pc'[u] = "idle"
    BY <1>0, <1>5 DEF Restarted, Cut, Waiting, At
  <2> QED BY <2>1, QuietStep DEF Pending
<1>6. CASE StopNode \/ NodeCrashes
  <2>1. /\ UNCHANGED <<call, number, executed>> /\ abandoned' = {}
        /\ \A u \in Threads : /\ pc'[u] = pc[u] \/ pc'[u] = "lost"
                              /\ pc[u] = "idle" => pc'[u] = "idle"
    BY <1>0, <1>6 DEF StopNode, NodeCrashes, Cut, Waiting
  <2> QED BY <2>1, QuietStep DEF Pending
<1>7. ASSUME NEW t \in Threads, Execute(t) PROVE Executions' /\ AtMostOnce'
  <2>1. /\ pc[t] = "wait" /\ UNCHANGED <<call, number, abandoned>>
        /\ pc'[t] = "executed" /\ \A u \in Threads \ {t} : pc'[u] = pc[u]
    BY <1>0, <1>7 DEF Execute, Goto, At
  <2>2. CASE ~call[t].changes
    <3>1. UNCHANGED executed
      BY <1>7, <2>2 DEF Execute
    <3> QED BY <2>1, <3>1, QuietStep DEF Pending
  <2>3. CASE call[t].changes
    <3>1. number[t] \in 1..MaxCalls /\ Count(t, number[t])
      BY <1>0, <1>7, <2>1, <2>3 DEF Execute, CallState
    <3>2. executed[t][number[t]] = 0 /\ <<t, number[t]>> \notin abandoned
      BY <2>1, <2>3, <3>1 DEF Executions, ExecutionsOf
    <3>3. /\ executed'[t][number[t]] = 1
          /\ \A u \in Threads : \A m \in 1..MaxCalls :
               <<u, m>> # <<t, number[t]>> => executed'[u][m] = executed[u][m]
      BY <1>0, <3>1, <3>2, CountType
    <3>4. AtMostOnce'
      BY <3>3 DEF AtMostOnce
    <3>5. Executions'
      <4> SUFFICES ASSUME NEW u \in Threads, NEW m \in 1..MaxCalls
                   PROVE  ExecutionsOf(u, m)'
        BY DEF Executions
      <4>1. ExecutionsOf(u, m) /\ number[u] \in Nat
        BY <1>0 DEF Executions
      <4>2. CASE u = t
        BY <1>0, <2>1, <3>1, <3>2, <3>3, <4>1, <4>2 DEF ExecutionsOf
      <4>3. CASE u # t
        BY <1>0, <2>1, <3>1, <3>2, <3>3, <4>1, <4>3 DEF ExecutionsOf
      <4> QED BY <4>2, <4>3
    <3> QED BY <3>4, <3>5
  <2> QED BY <2>2, <2>3
<1>8. CASE ExecuteAbandoned
  <2>1. PICK r \in abandoned : abandoned' = abandoned \ {r} /\ Count(r[1], r[2])
    BY <1>8 DEF ExecuteAbandoned
  <2>2. PICK t \in Threads, n \in 1..MaxCalls : r = <<t, n>>
    BY <1>0
  <2>3. executed[t][n] = 0 /\ n <= number[t] /\ (n = number[t] => pc[t] = "idle")
    BY <2>2 DEF Executions, ExecutionsOf
  <2>4. /\ executed'[t][n] = 1
        /\ \A u \in Threads : \A m \in 1..MaxCalls :
             <<u, m>> # <<t, n>> => executed'[u][m] = executed[u][m]
    <3>1. Count(t, n) BY <2>1, <2>2
    <3>2. executed'[t][n] = executed[t][n] + 1 BY <1>0, <3>1, CountType, Zenon
    <3>3. \A u \in Threads : \A m \in 1..MaxCalls :
            <<u, m>> # <<t, n>> => executed'[u][m] = executed[u][m]
      BY <1>0, <3>1, CountType, Zenon
    <3> QED BY <2>3, <3>2, <3>3
  <2>5. UNCHANGED <<pc, call, number>>
    BY <1>8 DEF ExecuteAbandoned
  <2>6. AtMostOnce'
    BY <2>4 DEF AtMostOnce
  <2>7. Executions'
    <3> SUFFICES ASSUME NEW u \in Threads, NEW m \in 1..MaxCalls
                 PROVE  ExecutionsOf(u, m)'
      BY DEF Executions
    <3>1. ExecutionsOf(u, m) /\ number[u] \in Nat
      BY <1>0 DEF Executions
    <3>2. CASE u = t
      BY <1>0, <2>1, <2>2, <2>3, <2>4, <2>5, <3>1, <3>2 DEF ExecutionsOf
    <3>3. CASE u # t
      BY <1>0, <2>1, <2>2, <2>3, <2>4, <2>5, <3>1, <3>3 DEF ExecutionsOf
    <3> QED BY <3>2, <3>3
  <2> QED BY <2>6, <2>7
<1>9. CASE StartNode \/ NodeRegisters \/ NodeHangs \/ UNCHANGED vars
  <2>1. UNCHANGED <<pc, call, number, executed, abandoned>>
    BY <1>9 DEF StartNode, NodeRegisters, NodeHangs, vars
  <2> QED BY <2>1, QuietStep DEF Pending
<1> QED BY <1>1, <1>2, <1>3, <1>4, <1>5, <1>6, <1>7, <1>8, <1>9 DEF Next, Step, Ended

LEMMA NextIInv == IInv /\ [Next]_vars => IInv'
<1> SUFFICES ASSUME IInv, [Next]_vars PROVE IInv'
  OBVIOUS
<1>1. Types /\ Flags /\ CallState /\ Executions /\ AtMostOnce
  BY TypeParts DEF IInv
<1>2. TypeOK'
  <2>1. Types' /\ Flags'
    BY <1>1, TypesStep, FlagsStep
  <2>2. Types' /\ Flags' => TypeOK'
    BY TypeParts, PTL
  <2> QED BY <2>1, <2>2
<1> QED BY <1>1, <1>2, CallStateStep, ExecutionsStep DEF IInv

LEMMA AlwaysIInv == Spec => []IInv
BY InitIInv, NextIInv, PTL DEF Spec

-----------------------------------------------------------------------------
(* The theorems                                                            *)

\* All variables keep their types; sendRequest's counter never goes below 0.
THEOREM TypeCorrect == Spec => []TypeOK
<1>1. IInv => TypeOK
  BY DEF IInv
<1> QED BY <1>1, AlwaysIInv, PTL

\* No sending is executed twice, however calls, faults and restarts
\* interleave and also after the call that sent it has given up.
THEOREM ExecutedAtMostOnce == Spec => []AtMostOnce
<1>1. IInv => AtMostOnce
  BY DEF IInv
<1> QED BY <1>1, AlwaysIInv, PTL

\* client.mutex keeps the sendings of one user apart, also while the crash
\* handler restarts the node inside one of them.
THEOREM ChangesOneAtATime == Spec => []OneChangeAtATime
<1>1. IInv => OneChangeAtATime
  <2> SUFFICES ASSUME IInv, NEW t \in Waiting, NEW u \in Waiting,
                      call[t].changes, call[u].changes
               PROVE  t = u
    BY DEF OneChangeAtATime
  <2>1. \A w \in {t, u} : w \in Threads /\ pc[w] \notin {"idle", "lock"}
    BY DEF Waiting
  <2>2. call[t].lock /\ call[u].lock
    BY <2>1, SendingsLockAndDoNotRetry DEF IInv, TypeOK
  <2> QED BY <2>1, <2>2 DEF IInv, CallState
<1> QED BY <1>1, AlwaysIInv, PTL
=============================================================================
