------------------------- MODULE TransactionsProofs ------------------------
(***************************************************************************)
(* What Transactions promises, for any number of goroutines, transactions  *)
(* and failed requests: who can take whose nonce, what a job has achieved  *)
(* when it ends, and that the goroutines implement Account.                *)
(***************************************************************************)
EXTENDS Transactions, FiniteSetTheorems, SequenceTheorems, TLAPS

-----------------------------------------------------------------------------
(* The inductive invariant                                                 *)

\* What TypeOK leaves open: the account has a last nonce, every goroutine a
\* nonce of its own.
NoncesTyped == Last \in Nat /\ DOMAIN raw = Senders

\* As long as the bot runs, the mutex belongs to whoever is between the two
\* requests of SendTransaction.
Guarded ==
  ~exited => \A s \in Senders \ Switchers : pc[s] \in {"raw", "send"} <=> mutex = s

\* What may be accepted while another goroutine has the mutex.
Unguarded(n) == \/ sent[n] \in Switchers
                \/ sent[n] \in Generators /\ <<sent[n], n>> \in gaveUp

\* What was accepted after a nonce was given out under the mutex was sent
\* without it, or given up before.
Overtaken(s) ==
  pc[s] = "send" =>
    /\ raw[s] > 0
    /\ s \notin Switchers /\ ~exited => \A n \in raw[s]..Last : Unguarded(n)

\* A job that gives up its transaction ends the bot.
JobsInsist == ~exited => \A s \in Jobs, n \in 1..Last + 1 : <<s, n>> \notin gaveUp

Own(s) == {n \in DOMAIN sent : sent[n] = s}
Pending(s) == IF pc[s] = "mining" THEN 1 ELSE 0

\* The transactions of a job: those that are mined and have been counted
\* down, and at most the one that it waits for.
Accounted(s) ==
  /\ pc[s] \in {"wait", "done"} <=> left[s] = 0
  /\ Cardinality(Own(s)) + left[s] = Size[s] + Pending(s)
  /\ \A n \in Own(s) : n <= mined \/ (pc[s] = "mining" /\ n = raw[s])

IInv == /\ TypeOK /\ NoncesTyped /\ Guarded
        /\ \A s \in Senders : Overtaken(s)
        /\ \A s \in Jobs : Accounted(s)
        /\ JobsInsist

-----------------------------------------------------------------------------
(* Lemmas                                                                  *)

\* The accepted transactions of a goroutine are finitely many.
LEMMA OwnFinite ==
  ASSUME IInv, NEW s
  PROVE  IsFiniteSet(Own(s)) /\ Cardinality(Own(s)) \in Nat
<1>1. DOMAIN sent = 1..Last /\ Last \in Nat BY DEF IInv, TypeOK, NoncesTyped
<1>2. IsFiniteSet(DOMAIN sent) BY <1>1, FS_Interval
<1>3. Own(s) \in SUBSET DOMAIN sent BY DEF Own
<1> QED BY <1>2, <1>3, FS_Subset, FS_CardinalityType

\* Initially nothing is sent and everyone is idle.
THEOREM Initially == Init => IInv
<1> SUFFICES ASSUME Init PROVE IInv OBVIOUS
<1> USE TransactionsAssumption DEF Init
<1>1. DOMAIN sent = {} BY Zenon
<1>2. Last = 0 BY <1>1, FS_EmptySet DEF Last
<1>3. \A s \in Jobs : Own(s) = {} /\ Cardinality(Own(s)) = 0
      BY <1>1, FS_EmptySet DEF Own
<1>4. TypeOK
  <2>1. DOMAIN sent = 1..Last /\ mined \in 0..Last BY <1>1, <1>2
  <2>2. left \in [Jobs -> Nat] /\ faults \in 0..MaxFaults OBVIOUS
  <2>3. \A s \in Senders : raw[s] \in 0..Last + 1 BY <1>2
  <2> QED BY <1>1, <2>1, <2>2, <2>3 DEF TypeOK
<1>5. NoncesTyped BY <1>2 DEF NoncesTyped
<1>6. Guarded BY DEF Guarded, Senders
<1>7. \A s \in Senders : Overtaken(s) BY DEF Overtaken
<1>8. \A s \in Jobs : Accounted(s)
      BY <1>3 DEF Accounted, Pending, Senders
<1>9. JobsInsist BY DEF JobsInsist
<1> QED BY <1>4, <1>5, <1>6, <1>7, <1>8, <1>9 DEF IInv

-----------------------------------------------------------------------------
(* Steps that send nothing                                                 *)

\* Steps that leave sent alone leave alone what was sent.
LEMMA SentSame ==
  ASSUME UNCHANGED sent
  PROVE  Last' = Last /\ \A s : Own(s)' = Own(s)
BY DEF Last, Own

\* Lock: only one goroutine at a time gets past it, switchers apart.
LEMMA BeginKeeps ==
  ASSUME IInv, NEW s \in Senders, Begin(s)
  PROVE  IInv'
<1> USE TransactionsAssumption DEF Begin, At, Goto
<1>1. Last' = Last /\ \A u : Own(u)' = Own(u) BY SentSame
<1>2. TypeOK /\ NoncesTyped /\ Guarded BY DEF IInv
<1>3. TypeOK'
  <2>1. mutex' \in (Senders \ Switchers) \cup {Nobody} BY <1>2 DEF TypeOK, Lock
  <2>2. pc' \in [Senders -> {"idle", "raw", "send", "mining", "wait", "done"}]
        BY <1>2 DEF TypeOK
  <2> QED BY <1>1, <1>2, <2>1, <2>2 DEF TypeOK
<1>4. NoncesTyped' BY <1>1, <1>2 DEF NoncesTyped
<1>5. Guarded' BY <1>2 DEF Guarded, Lock, TypeOK
<1>6. ASSUME NEW u \in Senders PROVE Overtaken(u)'
      BY <1>1, <1>2 DEF IInv, Overtaken, Unguarded, TypeOK
<1>7. ASSUME NEW u \in Jobs PROVE Accounted(u)'
  <2>1. Pending(u)' = Pending(u) BY <1>2 DEF Pending, TypeOK, Senders
  <2> QED BY <1>1, <1>2, <2>1 DEF IInv, Accounted, TypeOK, Senders
<1>8. JobsInsist' BY <1>1 DEF IInv, JobsInsist
<1> QED BY <1>3, <1>4, <1>5, <1>6, <1>7, <1>8 DEF IInv

\* GetRawTx: nothing has been accepted since.
LEMMA GetRawTxKeeps ==
  ASSUME IInv, NEW s \in Senders, GetRawTx(s)
  PROVE  IInv'
<1> USE TransactionsAssumption DEF GetRawTx, At, Goto
<1>1. Last' = Last /\ \A u : Own(u)' = Own(u) BY SentSame
<1>2. TypeOK /\ NoncesTyped /\ Guarded BY DEF IInv
<1>3. TypeOK'
  <2>1. \A u \in Senders : raw'[u] \in 0..Last + 1
        BY <1>2 DEF TypeOK, NoncesTyped
  <2>2. pc' \in [Senders -> {"idle", "raw", "send", "mining", "wait", "done"}]
        BY <1>2 DEF TypeOK
  <2> QED BY <1>1, <1>2, <2>1, <2>2 DEF TypeOK
<1>4. NoncesTyped' BY <1>1, <1>2 DEF NoncesTyped
<1>5. Guarded' BY <1>2 DEF Guarded, TypeOK
<1>6. ASSUME NEW u \in Senders PROVE Overtaken(u)'
  <2>1. Overtaken(u) BY DEF IInv
  <2>2. CASE u = s
        BY <1>1, <1>2, <2>2 DEF Overtaken, Unguarded, TypeOK, NoncesTyped
  <2>3. CASE u # s
        BY <1>1, <1>2, <2>1, <2>3 DEF Overtaken, Unguarded, TypeOK, NoncesTyped
  <2> QED BY <2>2, <2>3
<1>7. ASSUME NEW u \in Jobs PROVE Accounted(u)'
  <2>1. Pending(u)' = Pending(u) BY <1>2 DEF Pending, TypeOK, Senders
  <2>2. pc'[u] = "mining" => u # s BY <1>2 DEF TypeOK, Senders
  <2> QED BY <1>1, <1>2, <2>1, <2>2 DEF IInv, Accounted, TypeOK, NoncesTyped, Senders
<1>8. JobsInsist' BY <1>1 DEF IInv, JobsInsist
<1> QED BY <1>3, <1>4, <1>5, <1>6, <1>7, <1>8 DEF IInv

\* An error ends the bot, or leaves the goroutine where it may begin again,
\* with the mutex given back.
LEMMA FailedKeeps ==
  ASSUME IInv, NEW s \in Senders, At(s, "raw") \/ At(s, "send"), Failed(s),
         Unlock(s), UNCHANGED <<raw, sent, mined, left, completed>>,
         faults' \in 0..MaxFaults,
         \/ UNCHANGED gaveUp
         \/ At(s, "send") /\ gaveUp' = gaveUp \cup {<<s, raw[s]>>}
  PROVE  IInv'
<1> USE TransactionsAssumption DEF Failed, At, Goto, Unlock
<1>1. Last' = Last /\ \A u : Own(u)' = Own(u) BY SentSame
<1>2. TypeOK /\ NoncesTyped /\ Guarded BY DEF IInv
<1>3. gaveUp \subseteq gaveUp' /\ gaveUp' \subseteq Senders \X (1..Last + 1)
  <2>1. pc[s] = "send" => raw[s] \in 1..Last + 1
        BY <1>2 DEF IInv, Overtaken, TypeOK, NoncesTyped
  <2> QED BY <1>2, <2>1 DEF TypeOK
<1>4. TypeOK'
  <2>1. mutex' \in (Senders \ Switchers) \cup {Nobody} BY <1>2 DEF TypeOK
  <2>2. pc' \in [Senders -> {"idle", "raw", "send", "mining", "wait", "done"}]
        BY <1>2 DEF TypeOK
  <2>3. exited' \in BOOLEAN BY <1>2 DEF TypeOK
  <2> QED BY <1>1, <1>2, <1>3, <2>1, <2>2, <2>3 DEF TypeOK
<1>5. NoncesTyped' BY <1>1, <1>2 DEF NoncesTyped
<1>6. Guarded' BY <1>2 DEF Guarded, TypeOK
<1>7. ASSUME NEW u \in Senders PROVE Overtaken(u)'
      BY <1>1, <1>2, <1>3 DEF IInv, Overtaken, Unguarded, TypeOK
<1>8. ASSUME NEW u \in Jobs PROVE Accounted(u)'
  <2>1. pc'[u] = pc[u] BY <1>2 DEF TypeOK, Senders
  <2>2. Pending(u)' = Pending(u) BY <2>1 DEF Pending
  <2> QED BY <1>1, <1>2, <2>1, <2>2 DEF IInv, Accounted
<1>9. JobsInsist'
  <2>1. ~exited' => ~exited /\ s \notin Jobs BY <1>2 DEF TypeOK
  <2> QED BY <1>1, <2>1 DEF IInv, JobsInsist
<1> QED BY <1>4, <1>5, <1>6, <1>7, <1>8, <1>9 DEF IInv

\* The nonce was taken, and nothing is given up.
LEMMA NonceTakenKeeps ==
  ASSUME IInv, NEW s \in Senders, NonceTaken(s)
  PROVE  IInv'
<1>1. faults' \in 0..MaxFaults BY DEF IInv, TypeOK, NonceTaken
<1> QED BY <1>1, FailedKeeps DEF NonceTaken

\* A request that fails gives the mutex back; it may still be executed.
LEMMA RequestFailsKeeps ==
  ASSUME IInv, NEW s \in Senders, RequestFails(s)
  PROVE  IInv'
<1>1. faults' \in 0..MaxFaults BY TransactionsAssumption DEF IInv, TypeOK, RequestFails
<1>2. \/ UNCHANGED gaveUp
      \/ At(s, "send") /\ gaveUp' = gaveUp \cup {<<s, raw[s]>>}
      BY DEF RequestFails, At
<1> QED BY <1>1, <1>2, FailedKeeps DEF RequestFails

-----------------------------------------------------------------------------
(* What the node accepts                                                   *)

\* A transaction that is accepted has the next nonce, so that there is never a
\* gap.
LEMMA AcceptExtends ==
  ASSUME IInv, NEW s \in Senders, NEW n \in 1..Last + 1, Accept(s, n)
  PROVE  /\ n = Last + 1 /\ Last \in Nat /\ DOMAIN sent = 1..Last
         /\ DOMAIN sent' = 1..(Last + 1) /\ Last' = Last + 1
         /\ sent'[Last + 1] = s /\ \A k \in 1..Last : sent'[k] = sent[k]
         /\ Own(s)' = Own(s) \cup {Last + 1} /\ Last + 1 \notin Own(s)
         /\ \A u : u # s => Own(u)' = Own(u)
<1>1. DOMAIN sent = 1..Last /\ Last \in Nat BY DEF IInv, TypeOK, NoncesTyped
<1>2. n = Last + 1 BY <1>1 DEF Accept
<1>3. DOMAIN sent' = 1..(Last + 1)
  <2>1. DOMAIN sent' = DOMAIN sent \cup {n} BY DEF Accept
  <2> QED BY <1>1, <1>2, <2>1
<1>4. Last' = Last + 1
  <2>1. Cardinality(1..(Last + 1)) = Last + 1 BY <1>1, FS_Interval
  <2> QED BY <1>3, <2>1 DEF Last
<1>5. sent'[Last + 1] = s /\ \A k \in 1..Last : sent'[k] = sent[k]
      BY <1>1, <1>2 DEF Accept
<1>6. Own(s)' = Own(s) \cup {Last + 1} /\ Last + 1 \notin Own(s)
      BY <1>1, <1>3, <1>5 DEF Own
<1>7. \A u : u # s => Own(u)' = Own(u) BY <1>1, <1>3, <1>5 DEF Own
<1> QED BY <1>1, <1>2, <1>3, <1>4, <1>5, <1>6, <1>7

\* A job has one transaction more, which it waits for.
LEMMA SendRawTxKeeps ==
  ASSUME IInv, NEW s \in Senders, SendRawTx(s)
  PROVE  IInv'
<1> USE TransactionsAssumption DEF SendRawTx, At, Goto, Unlock
<1>1. TypeOK /\ NoncesTyped /\ Guarded /\ Overtaken(s) BY DEF IInv
<1>2. raw[s] \in 1..Last + 1 BY <1>1 DEF Overtaken, TypeOK, NoncesTyped
<1>3. /\ raw[s] = Last + 1 /\ Last \in Nat /\ DOMAIN sent = 1..Last
      /\ DOMAIN sent' = 1..(Last + 1) /\ Last' = Last + 1
      /\ Own(s)' = Own(s) \cup {Last + 1} /\ Last + 1 \notin Own(s)
      /\ \A u : u # s => Own(u)' = Own(u)
      BY <1>2, AcceptExtends
<1>4. sent'[Last + 1] = s /\ \A k \in 1..Last : sent'[k] = sent[k]
      BY <1>2, AcceptExtends
<1>6. AfterSend(s) \in {"mining", "idle", "done"} BY DEF AfterSend, Senders
<1>7. TypeOK'
  <2>1. mutex' \in (Senders \ Switchers) \cup {Nobody} BY <1>1 DEF TypeOK
  <2>2. pc' \in [Senders -> {"idle", "raw", "send", "mining", "wait", "done"}]
        BY <1>1, <1>6 DEF TypeOK
  <2>3. \A u \in Senders : raw'[u] \in 0..Last' + 1 BY <1>1, <1>3 DEF TypeOK
  <2>4. \A n \in DOMAIN sent' : sent'[n] \in Senders
        BY <1>1, <1>3, <1>4 DEF TypeOK
  <2>5. mined' \in 0..Last' BY <1>1, <1>3 DEF TypeOK
  <2>6. gaveUp' \subseteq Senders \X (1..Last' + 1) BY <1>1, <1>3 DEF TypeOK
  <2> QED BY <1>1, <1>3, <2>1, <2>2, <2>3, <2>4, <2>5, <2>6 DEF TypeOK
<1>8. NoncesTyped' BY <1>1, <1>3 DEF NoncesTyped
<1>9. Guarded' BY <1>1, <1>6 DEF Guarded, TypeOK
<1>10. ASSUME NEW u \in Senders PROVE Overtaken(u)'
  <2>1. CASE u = s BY <1>1, <1>6, <2>1 DEF Overtaken, TypeOK
  <2>2. CASE u # s
    <3>1. SUFFICES ASSUME pc[u] = "send"
                   PROVE  /\ raw[u] > 0
                          /\ u \notin Switchers =>
                               \A n \in raw[u]..(Last + 1) : Unguarded(n)'
          BY <1>1, <1>3, <2>2 DEF Overtaken, TypeOK
    <3>2. /\ raw[u] > 0 /\ raw[u] \in Nat
          /\ u \notin Switchers => \A n \in raw[u]..Last : Unguarded(n)
          BY <1>1, <3>1 DEF IInv, Overtaken, TypeOK, NoncesTyped
    <3>3. u \notin Switchers => s \in Switchers
          BY <1>1, <2>2, <3>1 DEF Guarded
    <3>4. ASSUME u \notin Switchers, NEW n \in raw[u]..(Last + 1)
          PROVE  Unguarded(n)'
          BY <1>3, <1>4, <3>2, <3>3, <3>4 DEF Unguarded
    <3> QED BY <3>2, <3>4
  <2> QED BY <2>1, <2>2
<1>11. ASSUME NEW u \in Jobs PROVE Accounted(u)'
  <2>1. Accounted(u) /\ u \in Senders /\ left[u] \in Nat /\ Size[u] \in Nat
        BY <1>1 DEF IInv, Senders, TypeOK
  <2>2. IsFiniteSet(Own(u)) /\ Cardinality(Own(u)) \in Nat BY OwnFinite
  <2>3. CASE u = s
    <3>1. pc[u] = "send" /\ pc'[u] = "mining" /\ Pending(u) = 0 /\ Pending(u)' = 1
          BY <1>1, <2>1, <2>3 DEF AfterSend, TypeOK, Pending
    <3>2. Cardinality(Own(u)') = Cardinality(Own(u)) + 1
          BY <1>3, <2>2, <2>3, FS_AddElement
    <3>3. \A n \in Own(u)' : n <= mined' \/ (pc'[u] = "mining" /\ n = raw'[u])
          BY <1>3, <2>1, <2>3, <3>1 DEF Accounted
    <3> QED BY <2>1, <2>2, <3>1, <3>2, <3>3 DEF Accounted
  <2>4. CASE u # s
    <3>1. Own(u)' = Own(u) BY <1>3, <2>4
    <3>2. pc'[u] = pc[u] /\ Pending(u)' = Pending(u)
          BY <1>1, <2>1, <2>4 DEF TypeOK, Pending
    <3> QED BY <2>1, <3>1, <3>2 DEF Accounted
  <2> QED BY <2>3, <2>4
<1>12. JobsInsist'
  <2> SUFFICES ASSUME ~exited, NEW u \in Jobs, NEW n PROVE <<u, n>> \notin gaveUp
      BY DEF JobsInsist
  <2>1. <<u, n>> \in gaveUp => n \in 1..Last + 1 BY <1>1 DEF TypeOK
  <2> QED BY <2>1 DEF IInv, JobsInsist
<1> QED BY <1>7, <1>8, <1>9, <1>10, <1>11, <1>12 DEF IInv

\* What the node executes late is no job's, and whoever has the mutex may have
\* signed with its nonce.
LEMMA ExecuteLateKeeps ==
  ASSUME IInv, ExecuteLate
  PROVE  IInv'
<1> USE TransactionsAssumption
<1>1. TypeOK /\ NoncesTyped /\ Guarded /\ JobsInsist BY DEF IInv
<1>2. /\ UNCHANGED <<pc, mutex, raw, mined, left, completed, gaveUp, faults, exited>>
      /\ ~exited
      BY DEF ExecuteLate
<1>3. PICK s \in Senders, n \in 1..Last + 1 : <<s, n>> \in gaveUp /\ Accept(s, n)
  <2>1. PICK g \in gaveUp : Accept(g[1], g[2]) BY DEF ExecuteLate
  <2>2. g = <<g[1], g[2]>> /\ g[1] \in Senders /\ g[2] \in 1..Last + 1
        BY <1>1 DEF TypeOK
  <2> QED BY <2>1, <2>2
<1>4. /\ n = Last + 1 /\ Last \in Nat /\ DOMAIN sent = 1..Last
      /\ DOMAIN sent' = 1..(Last + 1) /\ Last' = Last + 1
      /\ \A u : u # s => Own(u)' = Own(u)
      BY <1>3, AcceptExtends
<1>5. sent'[Last + 1] = s /\ \A k \in 1..Last : sent'[k] = sent[k]
      BY <1>3, AcceptExtends
<1>6. s \in Generators \cup Switchers BY <1>1, <1>2, <1>3 DEF JobsInsist, Senders
<1>7. TypeOK'
  <2>1. \A u \in Senders : raw'[u] \in 0..Last' + 1 BY <1>1, <1>2, <1>4 DEF TypeOK
  <2>2. \A k \in DOMAIN sent' : sent'[k] \in Senders
        BY <1>1, <1>4, <1>5 DEF TypeOK
  <2>3. mined' \in 0..Last' BY <1>1, <1>2, <1>4 DEF TypeOK
  <2>4. gaveUp' \subseteq Senders \X (1..Last' + 1) BY <1>1, <1>2, <1>4 DEF TypeOK
  <2> QED BY <1>1, <1>2, <1>4, <2>1, <2>2, <2>3, <2>4 DEF TypeOK
<1>8. NoncesTyped' BY <1>1, <1>2, <1>4 DEF NoncesTyped
<1>9. Guarded' BY <1>1, <1>2 DEF Guarded
<1>10. ASSUME NEW u \in Senders PROVE Overtaken(u)'
  <2>1. Overtaken(u) /\ raw[u] \in Nat BY <1>1, <1>4 DEF IInv, TypeOK
  <2>2. \A k \in 1..Last : Unguarded(k) => Unguarded(k)' BY <1>2, <1>5 DEF Unguarded
  <2>3. Unguarded(n)' BY <1>2, <1>3, <1>4, <1>5, <1>6 DEF Unguarded
  <2>4. ASSUME pc[u] = "send", u \notin Switchers, ~exited, NEW k \in raw[u]..Last + 1
        PROVE  Unguarded(k)'
    <3>1. raw[u] > 0 /\ \A m \in raw[u]..Last : Unguarded(m) BY <2>1, <2>4 DEF Overtaken
    <3>2. k = n \/ k \in raw[u]..Last BY <1>4, <2>1, <3>1
    <3> QED BY <1>4, <2>1, <2>2, <2>3, <3>1, <3>2
  <2> QED BY <1>2, <1>4, <2>1, <2>4 DEF Overtaken
<1>11. ASSUME NEW u \in Jobs PROVE Accounted(u)'
  <2>1. u # s BY <1>6
  <2>2. Pending(u)' = Pending(u) /\ Own(u)' = Own(u) BY <1>2, <1>4, <2>1 DEF Pending
  <2> QED BY <1>2, <2>2 DEF IInv, Accounted
<1>12. JobsInsist'
  <2> SUFFICES ASSUME NEW u \in Jobs, NEW k PROVE <<u, k>> \notin gaveUp
      BY <1>2 DEF JobsInsist
  <2>1. <<u, k>> \in gaveUp => k \in 1..Last + 1 BY <1>1 DEF TypeOK
  <2> QED BY <1>1, <1>2, <2>1 DEF JobsInsist
<1> QED BY <1>7, <1>8, <1>9, <1>10, <1>11, <1>12 DEF IInv

-----------------------------------------------------------------------------
(* The end of a transaction, of a goroutine and of the epoch               *)

\* A job counts a transaction down that is mined, and none is left when it
\* goes on to its end.
LEMMA MinedKeeps ==
  ASSUME IInv, NEW s \in Senders, Mined(s)
  PROVE  IInv'
<1> USE TransactionsAssumption DEF Mined, At, Goto
<1>1. Last' = Last /\ \A u : Own(u)' = Own(u) BY SentSame
<1>2. TypeOK /\ NoncesTyped /\ Guarded BY DEF IInv
<1>3. AfterMined(s) \in {"idle", "wait", "done"} BY DEF AfterMined
<1>4. ASSUME NEW u \in Jobs PROVE Accounted(u)' /\ left'[u] \in Nat
  <2>1. Accounted(u) /\ u \in Senders /\ left[u] \in Nat /\ Size[u] \in Nat
        BY <1>2 DEF IInv, Senders, TypeOK
  <2>2. IsFiniteSet(Own(u)) /\ Cardinality(Own(u)) \in Nat BY OwnFinite
  <2>3. CASE u = s
    <3>1. left[u] # 0 /\ Pending(u) = 1 BY <2>1, <2>3 DEF Accounted, Pending
    <3>2. left'[u] = left[u] - 1 BY <1>2, <2>3 DEF TypeOK
    <3>3. pc'[u] = AfterMined(u) /\ Pending(u)' = 0
          BY <1>2, <1>3, <2>1, <2>3 DEF TypeOK, Pending
    <3>4. pc'[u] \in {"wait", "done"} <=> left'[u] = 0
          BY <2>1, <3>1, <3>2, <3>3 DEF AfterMined
    <3>5. \A n \in Own(u) : n <= mined BY <2>1, <2>3 DEF Accounted
    <3> QED BY <1>1, <2>1, <2>2, <3>1, <3>2, <3>3, <3>4, <3>5 DEF Accounted
  <2>4. CASE u # s
    <3>1. pc'[u] = pc[u] /\ Pending(u)' = Pending(u) /\ left'[u] = left[u]
          BY <1>2, <2>1, <2>4 DEF TypeOK, Pending
    <3> QED BY <1>1, <2>1, <3>1 DEF Accounted
  <2> QED BY <2>3, <2>4
<1>5. TypeOK'
  <2>1. left' \in [Jobs -> Nat] BY <1>2, <1>4 DEF TypeOK
  <2>2. pc' \in [Senders -> {"idle", "raw", "send", "mining", "wait", "done"}]
        BY <1>2, <1>3 DEF TypeOK
  <2> QED BY <1>1, <1>2, <2>1, <2>2 DEF TypeOK
<1>6. NoncesTyped' BY <1>1, <1>2 DEF NoncesTyped
<1>7. Guarded' BY <1>2, <1>3 DEF Guarded, TypeOK
<1>8. ASSUME NEW u \in Senders PROVE Overtaken(u)'
      BY <1>1, <1>2, <1>3 DEF IInv, Overtaken, Unguarded, TypeOK
<1>9. JobsInsist' BY <1>1 DEF IInv, JobsInsist
<1> QED BY <1>4, <1>5, <1>6, <1>7, <1>8, <1>9 DEF IInv

\* A generator that stops is not between two requests and is no job.
LEMMA GeneratorStopsKeeps ==
  ASSUME IInv, NEW s \in Senders, GeneratorStops(s)
  PROVE  IInv'
<1> USE TransactionsAssumption DEF GeneratorStops, At, Goto
<1>1. Last' = Last /\ \A u : Own(u)' = Own(u) BY SentSame
<1>2. TypeOK /\ NoncesTyped /\ Guarded BY DEF IInv
<1>3. TypeOK' BY <1>1, <1>2 DEF TypeOK
<1>4. NoncesTyped' BY <1>1, <1>2 DEF NoncesTyped
<1>5. Guarded' BY <1>2 DEF Guarded, TypeOK
<1>6. ASSUME NEW u \in Senders PROVE Overtaken(u)'
      BY <1>1, <1>2 DEF IInv, Overtaken, Unguarded, TypeOK
<1>7. ASSUME NEW u \in Jobs PROVE Accounted(u)'
  <2>1. pc'[u] = pc[u] /\ Pending(u)' = Pending(u)
        BY <1>2 DEF TypeOK, Senders, Pending
  <2> QED BY <1>1, <2>1 DEF IInv, Accounted
<1>8. JobsInsist' BY <1>1 DEF IInv, JobsInsist
<1> QED BY <1>3, <1>4, <1>5, <1>6, <1>7, <1>8 DEF IInv

\* The timeout of a job, the end of the epoch and the chain leave the
\* goroutines where they are.
LEMMA OthersKeep ==
  ASSUME IInv, (\E s \in Senders : NotMined(s)) \/ EpochCompleted \/ Mine
  PROVE  IInv'
<1> USE DEF NotMined, EpochCompleted, Mine
<1>1. Last' = Last /\ \A u : Own(u)' = Own(u) BY SentSame
<1>2. TypeOK /\ NoncesTyped /\ Guarded BY DEF IInv
<1>3. UNCHANGED <<pc, mutex, raw, sent, left, gaveUp, faults>> OBVIOUS
<1>4. mined' \in 0..Last /\ mined <= mined' /\ mined \in Nat
      BY <1>2 DEF TypeOK, NoncesTyped
<1>5. completed' \in BOOLEAN /\ exited' \in BOOLEAN /\ (~exited' => ~exited)
      BY <1>2 DEF TypeOK
<1>6. TypeOK' BY <1>1, <1>2, <1>3, <1>4, <1>5 DEF TypeOK
<1>7. NoncesTyped' BY <1>1, <1>2, <1>3 DEF NoncesTyped
<1>8. Guarded' BY <1>2, <1>3, <1>5 DEF Guarded
<1>9. ASSUME NEW u \in Senders PROVE Overtaken(u)'
      BY <1>1, <1>3, <1>5 DEF IInv, Overtaken, Unguarded
<1>10. ASSUME NEW u \in Jobs PROVE Accounted(u)'
  <2>1. Pending(u)' = Pending(u) /\ Accounted(u) BY <1>3 DEF Pending, IInv
  <2>2. \A n \in Own(u) : n \in Nat BY <1>2 DEF Own, TypeOK, NoncesTyped
  <2> QED BY <1>1, <1>3, <1>4, <2>1, <2>2 DEF Accounted
<1>11. JobsInsist' BY <1>1, <1>3, <1>5 DEF IInv, JobsInsist
<1> QED BY <1>6, <1>7, <1>8, <1>9, <1>10, <1>11 DEF IInv

-----------------------------------------------------------------------------
(* The theorems                                                            *)

\* Every interleaving of the senders keeps the inductive invariant.
THEOREM Invariance == Spec => []IInv
<1>1. IInv /\ [Next]_vars => IInv'
  <2> SUFFICES ASSUME IInv, [Next]_vars PROVE IInv' OBVIOUS
  <2>1. ASSUME NEW s \in Senders, Step(s) PROVE IInv'
        BY <2>1, BeginKeeps, GetRawTxKeeps, SendRawTxKeeps, NonceTakenKeeps,
           RequestFailsKeeps, MinedKeeps, OthersKeep, GeneratorStopsKeeps DEF Step
  <2>2. CASE EpochCompleted \/ Mine \/ ExecuteLate BY <2>2, OthersKeep, ExecuteLateKeeps
  <2>3. CASE UNCHANGED vars
    <3>1. Last' = Last /\ \A u : Own(u)' = Own(u) BY <2>3, SentSame DEF vars
    <3> QED BY <2>3, <3>1 DEF vars, IInv, TypeOK, NoncesTyped, Guarded, Overtaken,
                              Unguarded, Accounted, Pending, JobsInsist
  <2> QED BY <2>1, <2>2, <2>3 DEF Next, Ended
<1> QED BY <1>1, Initially, PTL DEF Spec

\* The senders are type correct, and the nonces they use have no gap.
THEOREM TypeCorrect == Spec => []TypeOK
<1>1. IInv => TypeOK BY DEF IInv
<1> QED BY <1>1, Invariance, PTL

\* SendTransaction's mutex keeps all goroutines apart but those that call
\* BecomeOnline or BecomeOffline; past them, a nonce is taken only by what a
\* generator had given up.
THEOREM CollisionsHaveReasons == Spec => []CollisionsExplained
<1>1. IInv => CollisionsExplained
  <2> SUFFICES ASSUME IInv, NEW s \in Senders, At(s, "send"), raw[s] \in DOMAIN sent,
                      s \notin Switchers
               PROVE  Unguarded(raw[s])
      BY DEF CollisionsExplained, Unguarded
  <2>1. Overtaken(s) /\ DOMAIN sent = 1..Last /\ Last \in Nat
        BY DEF IInv, TypeOK, NoncesTyped
  <2> QED BY <2>1 DEF Overtaken, At
<1> QED BY <1>1, Invariance, PTL

\* A job ends with all its transactions mined, as many as the scenario says,
\* whatever other goroutines do to its nonces.
THEOREM JobsFinishTheirWork == Spec => []MinedBeforeDone
<1>1. IInv => MinedBeforeDone
  <2> SUFFICES ASSUME IInv, NEW s \in Jobs, pc[s] \in {"wait", "done"}
               PROVE  (\A n \in Own(s) : n <= mined) /\ Cardinality(Own(s)) = Size[s]
      BY DEF MinedBeforeDone, Own
  <2>1. Accounted(s) BY DEF IInv
  <2>2. left[s] = 0 /\ Pending(s) = 0 /\ Size[s] \in Nat
        BY <2>1, TransactionsAssumption DEF Accounted, Pending
  <2>3. Cardinality(Own(s)) \in Nat BY OwnFinite
  <2> QED BY <2>1, <2>2, <2>3 DEF Accounted
<1> QED BY <1>1, Invariance, PTL

-----------------------------------------------------------------------------
(* The account                                                             *)

\* The accepted transactions are a sequence, and each is added at its end.
Logged == sent \in Seq(Senders)

LEMMA AcceptAppends ==
  ASSUME IInv, Logged, NEW s \in Senders, NEW n \in 1..Last + 1, Accept(s, n)
  PROVE  sent' = Append(sent, s) /\ Logged'
<1>1. n = Last + 1 /\ DOMAIN sent = 1..Last /\ Last \in Nat BY AcceptExtends
<1>2. Last + 1 \in Nat BY <1>1
<1>3. Len(sent) = Last BY <1>1 DEF Logged
<1>4. sent' = [k \in 1..(Last + 1) |-> IF k = Last + 1 THEN s ELSE sent[k]]
  <2>1. DOMAIN sent \cup {n} = 1..(Last + 1) BY <1>1
  <2> QED BY <1>1, <2>1 DEF Accept
<1>5. sent' \in Seq(Senders) /\ Len(sent') = Last + 1
  <2>1. \A k \in 1..Last : sent[k] \in Senders BY <1>3, ElementOfSeq DEF Logged
  <2>2. sent' \in [1..(Last + 1) -> Senders] BY <1>1, <1>4, <2>1
  <2> QED BY <1>2, <2>2, SeqDef
<1>6. /\ Append(sent, s) \in Seq(Senders) /\ Len(Append(sent, s)) = Last + 1
      /\ \A k \in 1..Last : Append(sent, s)[k] = sent[k]
      /\ Append(sent, s)[Last + 1] = s
  BY <1>3, AppendProperties DEF Logged
<1>7. \A k \in 1..(Last + 1) : sent'[k] = Append(sent, s)[k]
  <2> SUFFICES ASSUME NEW k \in 1..(Last + 1) PROVE sent'[k] = Append(sent, s)[k] OBVIOUS
  <2>1. CASE k = Last + 1 BY <1>4, <1>6, <2>1
  <2>2. CASE k # Last + 1
    <3>1. k \in 1..Last BY <1>1, <2>2
    <3> QED BY <1>4, <1>6, <2>2, <3>1
  <2> QED BY <2>1, <2>2
<1>8. sent' = Append(sent, s) BY <1>5, <1>6, <1>7, SeqEqual
<1> QED BY <1>5, <1>8 DEF Logged

\* The nonce that a goroutine sends is the next one, or taken.
LEMMA SendingAppends ==
  ASSUME IInv, Logged, NEW s \in Senders, SendRawTx(s)
  PROVE  sent' = Append(sent, s) /\ Logged'
<1>1. TypeOK /\ NoncesTyped /\ Overtaken(s) BY DEF IInv
<1>2. raw[s] \in 1..Last + 1 BY <1>1 DEF Overtaken, TypeOK, NoncesTyped, SendRawTx, At
<1> QED BY <1>2, AcceptAppends DEF SendRawTx

\* A transaction that is executed late is a generator's or a switcher's.
LEMMA LateAppends ==
  ASSUME IInv, Logged, ExecuteLate
  PROVE  \E s \in Senders \ Jobs : sent' = Append(sent, s) /\ Logged'
<1>1. PICK g \in gaveUp : Accept(g[1], g[2]) BY DEF ExecuteLate
<1>2. g = <<g[1], g[2]>> /\ g[1] \in Senders /\ g[2] \in 1..Last + 1
      BY DEF IInv, TypeOK
<1>3. g[1] \notin Jobs BY <1>2 DEF IInv, JobsInsist, ExecuteLate
<1>4. sent' = Append(sent, g[1]) /\ Logged' BY <1>1, <1>2, AcceptAppends
<1> QED BY <1>2, <1>3, <1>4

\* What the node accepts is a log, whatever else the goroutines do.
THEOREM LogInvariance == Spec => [](IInv /\ Logged)
<1>1. Init => Logged BY DEF Init, Logged
<1>2. IInv /\ Logged /\ [Next]_vars => Logged'
  <2> SUFFICES ASSUME IInv, Logged, [Next]_vars PROVE Logged' OBVIOUS
  <2>1. CASE UNCHANGED sent BY <2>1 DEF Logged
  <2>2. ASSUME NEW s \in Senders, SendRawTx(s) PROVE Logged' BY <2>2, SendingAppends
  <2>3. CASE ExecuteLate BY <2>3, LateAppends
  <2>4. UNCHANGED sent \/ ExecuteLate \/ \E s \in Senders : SendRawTx(s)
    BY DEF Next, Step, Begin, GetRawTx, NonceTaken, RequestFails, Mined, NotMined, GeneratorStops,
           EpochCompleted, Mine, Ended, vars
  <2> QED BY <2>1, <2>2, <2>3, <2>4
<1> QED BY <1>1, <1>2, Invariance, PTL DEF Spec

\* A job that is neither over nor waiting may send, and one that ends has all
\* its transactions mined.
LEMMA JobsWait ==
  ASSUME IInv, NEW s \in Jobs, pc[s] # "mining"
  PROVE  /\ \A n \in Own(s) : n <= mined
         /\ pc[s] \notin {"wait", "done"} => Cardinality(Own(s)) < Size[s]
<1>1. Accounted(s) /\ left[s] \in Nat /\ Size[s] \in Nat
  BY TransactionsAssumption DEF IInv, TypeOK
<1>2. Cardinality(Own(s)) \in Nat BY OwnFinite
<1>3. Pending(s) = 0 BY DEF Pending
<1> QED BY <1>1, <1>2, <1>3 DEF Accounted

EndedJobs == {s \in Jobs : pc[s] \in {"wait", "done"}}

\* The account counts as the model does.
LEMMA SameCount == \A S : UserAccount!Cardinality(S) = Cardinality(S)
BY DEF UserAccount!Cardinality, UserAccount!IsFiniteSet, Cardinality, IsFiniteSet

LEMMA SendingAccepts ==
  ASSUME IInv, Logged, NEW s \in Senders, SendRawTx(s)
  PROVE  UserAccount!Accept(s)
<1>1. sent' = Append(sent, s) /\ UNCHANGED mined BY SendingAppends DEF SendRawTx
<1>2. pc[s] = "send" /\ pc' = [pc EXCEPT ![s] = AfterSend(s)] BY DEF SendRawTx, At, Goto
<1>3. UNCHANGED EndedJobs
  <2>1. pc \in [Senders -> {"idle", "raw", "send", "mining", "wait", "done"}] BY DEF IInv, TypeOK
  <2>2. s \in Jobs => AfterSend(s) = "mining" BY TransactionsAssumption DEF AfterSend
  <2> QED BY <1>2, <2>1, <2>2 DEF EndedJobs, Senders
<1>4. ASSUME s \in Jobs
      PROVE  s \notin EndedJobs /\ (\A n \in Own(s) : n <= mined) /\ Cardinality(Own(s)) < Size[s]
  BY <1>2, <1>4, JobsWait DEF EndedJobs
<1> QED BY <1>1, <1>3, <1>4, SameCount DEF UserAccount!Accept, UserAccount!AllMined, UserAccount!Of,
                                EndedJobs, Own

\* To the account a late transaction is one like any other.
LEMMA LateAccepts ==
  ASSUME IInv, Logged, ExecuteLate
  PROVE  \E s \in Senders : UserAccount!Accept(s)
<1>1. PICK s \in Senders \ Jobs : sent' = Append(sent, s) BY LateAppends
<1>2. UNCHANGED <<mined, EndedJobs>> BY DEF ExecuteLate, EndedJobs
<1> QED BY <1>1, <1>2 DEF UserAccount!Accept, EndedJobs

\* The last transaction of a job is mined: the job is over.
LEMMA MinedEnds ==
  ASSUME IInv, NEW s \in Senders, Mined(s)
  PROVE  UserAccount!End(s) \/ UNCHANGED <<sent, mined, EndedJobs>>
<1>1. /\ pc[s] = "mining" /\ raw[s] <= mined /\ pc' = [pc EXCEPT ![s] = AfterMined(s)]
      /\ UNCHANGED <<sent, mined>>
  BY DEF Mined, At, Goto
<1>2. pc \in [Senders -> {"idle", "raw", "send", "mining", "wait", "done"}] BY DEF IInv, TypeOK
<1>3. CASE s \in Jobs /\ left[s] <= 1
  <2>1. Accounted(s) /\ left[s] \in Nat /\ Size[s] \in Nat
    BY <1>3, TransactionsAssumption DEF IInv, TypeOK
  <2>2. Cardinality(Own(s)) \in Nat /\ Pending(s) = 1 BY <1>1, OwnFinite DEF Pending
  <2>3. left[s] = 1 /\ Cardinality(Own(s)) = Size[s] BY <1>1, <1>3, <2>1, <2>2 DEF Accounted
  <2>4. \A n \in Own(s) : n <= mined BY <1>1, <2>1 DEF Accounted
  <2>5. AfterMined(s) \in {"wait", "done"} BY <2>3 DEF AfterMined
  <2>6. s \notin EndedJobs /\ EndedJobs' = EndedJobs \cup {s}
    BY <1>1, <1>2, <1>3, <2>5 DEF EndedJobs, Senders
  <2> QED BY <1>1, <1>3, <2>3, <2>4, <2>6, SameCount
          DEF UserAccount!End, UserAccount!AllMined, UserAccount!Of, EndedJobs, Own
<1>4. CASE s \in Jobs /\ ~(left[s] <= 1)
  <2>1. AfterMined(s) = "idle"
    <3>1. left[s] \in Nat BY <1>4 DEF IInv, TypeOK
    <3> QED BY <1>4, <3>1 DEF AfterMined
  <2> QED BY <1>1, <1>2, <2>1 DEF EndedJobs, Senders
<1>5. CASE s \notin Jobs BY <1>1, <1>2, <1>5 DEF EndedJobs, Senders
<1> QED BY <1>3, <1>4, <1>5

\* Steps of which the account knows nothing.
LEMMA OthersStutter ==
  ASSUME IInv, NEW s \in Senders,
         \/ Begin(s) \/ GetRawTx(s) \/ NonceTaken(s) \/ RequestFails(s)
         \/ NotMined(s) \/ GeneratorStops(s)
  PROVE  UNCHANGED <<sent, mined, EndedJobs>>
<1>1. UNCHANGED <<sent, mined>>
  BY DEF Begin, GetRawTx, NonceTaken, RequestFails, NotMined, GeneratorStops
<1>2. pc \in [Senders -> {"idle", "raw", "send", "mining", "wait", "done"}] BY DEF IInv, TypeOK
<1>3. \/ pc' = pc
      \/ \E p : /\ pc' = [pc EXCEPT ![s] = p] /\ pc[s] \in {"idle", "raw", "send"}
                /\ s \in Jobs => p \notin {"wait", "done"}
  BY TransactionsAssumption DEF Begin, GetRawTx, NonceTaken, RequestFails, NotMined,
                                GeneratorStops, Failed, At, Goto
<1>4. UNCHANGED EndedJobs BY <1>2, <1>3 DEF EndedJobs, Senders
<1> QED BY <1>1, <1>4

\* For any goroutines, transactions and failures: the bot's sending of a user's
\* transactions, with its mutex, nonces, waits and failed requests, implements
\* an account that takes one transaction at a time and on which a job has no
\* two under way and does not end before its work is mined.
THEOREM AccountRefinement == Spec => ImplementsAccount
<1>1. Init => UserAccount!Init
  <2> SUFFICES ASSUME Init PROVE UserAccount!Init OBVIOUS
  <2>1. sent = <<>> /\ mined = 0 BY DEF Init
  <2>2. EndedJobs = {} BY DEF Init, EndedJobs, Senders
  <2> QED BY <2>1, <2>2 DEF UserAccount!Init, EndedJobs
<1>2. IInv /\ Logged /\ [Next]_vars => [UserAccount!Next]_UserAccount!vars
  <2> SUFFICES ASSUME IInv, Logged, [Next]_vars
               PROVE  UserAccount!Next \/ UNCHANGED <<sent, mined, EndedJobs>>
    BY DEF UserAccount!vars, EndedJobs
  <2>1. ASSUME NEW s \in Senders, SendRawTx(s) PROVE UserAccount!Next
    BY <2>1, SendingAccepts DEF UserAccount!Next
  <2>2. ASSUME NEW s \in Senders, Mined(s)
        PROVE  UserAccount!Next \/ UNCHANGED <<sent, mined, EndedJobs>>
    BY <2>2, MinedEnds DEF UserAccount!Next
  <2>3. CASE Mine
    <3>1. mined + 1 \in DOMAIN sent /\ mined' = mined + 1 /\ UNCHANGED <<sent, EndedJobs>>
      BY <2>3 DEF Mine, EndedJobs
    <3>2. mined \in Nat /\ DOMAIN sent = 1..Len(sent) /\ Len(sent) \in Nat
      BY DEF IInv, TypeOK, NoncesTyped, Logged
    <3>3. mined < Len(sent) BY <3>1, <3>2
    <3> QED BY <3>1, <3>3 DEF UserAccount!Next, UserAccount!Mine, EndedJobs
  <2>4. CASE EpochCompleted BY <2>4 DEF EpochCompleted, EndedJobs
  <2>5. CASE UNCHANGED vars BY <2>5 DEF vars, EndedJobs
  <2>6. CASE ExecuteLate BY <2>6, LateAccepts DEF UserAccount!Next
  <2> QED BY <2>1, <2>2, <2>3, <2>4, <2>5, <2>6, OthersStutter DEF Next, Step, Ended
<1> QED BY <1>1, <1>2, LogInvariance, PTL DEF Spec, ImplementsAccount, UserAccount!Spec
=============================================================================
