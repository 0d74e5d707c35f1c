--------------------------- MODULE CeremonyProofs ---------------------------
(***************************************************************************)
(* What the sessions of a ceremony promise for any number of users, any    *)
(* length of its periods and however late every step is: the order of the  *)
(* flip keys, the account of the slots of flipsChan and, where the periods *)
(* are long enough for the worst session, answers in time and no session   *)
(* that waits for ever for another's slot or keys.                         *)
(***************************************************************************)
EXTENDS Ceremony, FiniteSetTheorems, TLAPS

-----------------------------------------------------------------------------
(* The inductive invariant                                                 *)

\* How far a session is with its keys: before the private ones, before the
\* public one, past both.
Stage(p) ==
  IF p \in {"flip", "slot", "request", "mining", "submitted", "FlipLottery", "private"}
  THEN 0 ELSE IF p = "public" THEN 1 ELSE 2

SessionsTyped ==
  /\ pc \in [Users -> Calls] /\ made \in [Users -> Nat]
  /\ private \subseteq Users /\ public \subseteq Users

\* An author that is past a key has sent it.
KeysSent ==
  /\ public \subseteq private
  /\ \A u \in Users :
       /\ made[u] > 0 /\ Stage(pc[u]) >= 1 => u \in private
       /\ made[u] > 0 /\ Stage(pc[u]) = 2 => u \in public

\* The sessions between flipsChan <- 1 and <-flipsChan.
Holders == {u \in Users : pc[u] \in {"request", "mining"} /\ ~InARow(u)}

\* A flip submitted in a row neither asks for a slot nor waits for a block.
RowsApart == \A u \in Users : pc[u] \in {"slot", "mining"} => ~InARow(u)

\* Every slot in use is held by one session, and no more than there are.
SlotsHeld == taken = IF Slots = 0 THEN 0 ELSE Cardinality(Holders)

SlotsEnough == taken <= Slots

SessionsInv == SessionsTyped /\ KeysSent /\ RowsApart /\ SlotsHeld /\ SlotsEnough

\* Slots are counted among finitely many sessions.
LEMMA HoldersFinite == IsFiniteSet(Holders) /\ Cardinality(Holders) \in Nat
<1>1. Holders \in SUBSET Users /\ IsFiniteSet(Users) BY CeremonyAssumption DEF Holders
<1> QED BY <1>1, FS_Subset, FS_CardinalityType

\* Nothing that matters has changed.
LEMMA Unmoved ==
  ASSUME SessionsInv, UNCHANGED <<pc, made, private, public, taken, mode>>
  PROVE  SessionsInv'
<1>1. UNCHANGED Holders BY DEF Holders, InARow
<1> QED BY <1>1 DEF SessionsInv, SessionsTyped, KeysSent, RowsApart, SlotsHeld, SlotsEnough,
                    InARow

\* A session goes on from a call for which it needs no slot to another one,
\* and not past a key.
LEMMA Onward ==
  ASSUME SessionsInv, NEW u \in Users, NEW q \in Calls, pc' = [pc EXCEPT ![u] = q],
         UNCHANGED <<made, private, public, taken, mode>>,
         Stage(q) <= Stage(pc[u]), u \notin Holders,
         q = "request" => InARow(u), q = "slot" => ~InARow(u), q # "mining"
  PROVE  SessionsInv'
<1>1. SessionsTyped' BY DEF SessionsInv, SessionsTyped
<1>2. KeysSent' BY DEF SessionsInv, SessionsTyped, KeysSent, Stage
<1>3. \A v : InARow(v)' = InARow(v) BY DEF InARow
<1>4. RowsApart' BY <1>3 DEF SessionsInv, SessionsTyped, RowsApart
<1>5. Holders' = Holders BY <1>3 DEF SessionsInv, SessionsTyped, Holders
<1>6. SlotsHeld' /\ SlotsEnough' BY <1>5 DEF SessionsInv, SlotsHeld, SlotsEnough
<1> QED BY <1>1, <1>2, <1>4, <1>6 DEF SessionsInv

\* A session gives its slot back, or had none.
LEMMA GivingBack ==
  ASSUME SessionsInv, NEW u \in Users, pc[u] \in {"request", "mining"}, FlipOver(u),
         UNCHANGED <<private, public, mode>>, made' \in [Users -> Nat]
  PROVE  SessionsTyped' /\ RowsApart' /\ SlotsHeld' /\ SlotsEnough'
<1>1. pc' = [pc EXCEPT ![u] = "flip"] /\ pc \in [Users -> Calls]
  BY DEF FlipOver, From, SessionsInv, SessionsTyped
<1>2. SessionsTyped' BY <1>1 DEF SessionsInv, SessionsTyped, Calls
<1>3. \A v : InARow(v)' = InARow(v) BY DEF InARow
<1>4. RowsApart' BY <1>1, <1>3 DEF SessionsInv, RowsApart
<1>5. Holders' = Holders \ {u} BY <1>1, <1>3 DEF Holders
<1>6. taken' = IF InARow(u) \/ Slots = 0 THEN taken ELSE taken - 1 BY DEF FlipOver
<1>7. Cardinality(Holders \ {u}) =
        IF u \in Holders THEN Cardinality(Holders) - 1 ELSE Cardinality(Holders)
  BY HoldersFinite, FS_RemoveElement
<1>8. u \in Holders <=> ~InARow(u) BY DEF Holders
<1>9. SlotsHeld' BY <1>5, <1>6, <1>7, <1>8 DEF SessionsInv, SlotsHeld
<1>10. SlotsEnough'
  <2>1. taken \in Nat /\ Slots \in Nat /\ taken <= Slots
    BY HoldersFinite, CeremonyAssumption DEF SessionsInv, SlotsHeld, SlotsEnough
  <2> QED BY <1>6, <2>1 DEF SlotsEnough
<1> QED BY <1>2, <1>4, <1>9, <1>10

\* flipsChan <- 1 waits for a free slot.
LEMMA TakeSlotKeeps ==
  ASSUME SessionsInv, NEW u \in Users, TakeSlot(u)
  PROVE  SessionsInv'
<1>1. /\ pc[u] = "slot" /\ pc' = [pc EXCEPT ![u] = "request"] /\ ~Blocked(u)
      /\ taken' = IF Slots = 0 THEN 0 ELSE taken + 1
      /\ UNCHANGED <<made, private, public, mode>>
  BY DEF TakeSlot, At, From, keys
<1>2. pc \in [Users -> Calls] /\ ~InARow(u) BY <1>1 DEF SessionsInv, SessionsTyped, RowsApart
<1>3. SessionsTyped' BY <1>1 DEF SessionsInv, SessionsTyped, Calls
<1>4. KeysSent' BY <1>1 DEF SessionsInv, SessionsTyped, KeysSent, Stage
<1>5. \A v : InARow(v)' = InARow(v) BY <1>1 DEF InARow
<1>6. RowsApart' BY <1>1, <1>2, <1>5 DEF SessionsInv, RowsApart
<1>7. Holders' = Holders \cup {u} /\ u \notin Holders BY <1>1, <1>2, <1>5 DEF Holders
<1>8. Cardinality(Holders \cup {u}) = Cardinality(Holders) + 1
  BY <1>7, HoldersFinite, FS_AddElement
<1>9. SlotsHeld' BY <1>1, <1>7, <1>8 DEF SessionsInv, SlotsHeld
<1>10. SlotsEnough'
  <2>1. taken \in Nat /\ Slots \in Nat /\ taken <= Slots
    BY HoldersFinite, CeremonyAssumption DEF SessionsInv, SlotsHeld, SlotsEnough
  <2>2. Slots # 0 => taken # Slots BY <1>1 DEF Blocked
  <2> QED BY <1>1, <2>1, <2>2 DEF SlotsEnough
<1> QED BY <1>3, <1>4, <1>6, <1>9, <1>10 DEF SessionsInv

\* A request, answered or not: the slot is kept as long as the flip is waited
\* for.
LEMMA RequestKeeps ==
  ASSUME SessionsInv, NEW u \in Users, SubmitFlip(u) \/ SubmitFlipFails(u)
  PROVE  SessionsInv'
<1>1. /\ pc[u] = "request" /\ UNCHANGED <<private, public, mode>>
      /\ made' \in {made, [made EXCEPT ![u] = @ + 1]}
      /\ \/ Awaited(u) /\ pc' = [pc EXCEPT ![u] = "mining"] /\ taken' = taken
         \/ FlipOver(u) /\ pc' = [pc EXCEPT ![u] = "flip"]
  BY DEF SubmitFlip, SubmitFlipFails, At, From, FlipOver, keys
<1>2. pc \in [Users -> Calls] /\ made \in [Users -> Nat]
  BY DEF SessionsInv, SessionsTyped
<1>3. made' \in [Users -> Nat] /\ \A v \in Users \ {u} : made'[v] = made[v] BY <1>1, <1>2
<1>4. KeysSent'
  BY <1>1, <1>2, <1>3 DEF SessionsInv, SessionsTyped, KeysSent, Stage
<1>5. CASE FlipOver(u)
  BY <1>1, <1>3, <1>4, <1>5, GivingBack DEF SessionsInv
<1>6. CASE Awaited(u) /\ pc' = [pc EXCEPT ![u] = "mining"] /\ taken' = taken
  <2>1. \A v : InARow(v)' = InARow(v) BY <1>1 DEF InARow
  <2>2. ~InARow(u) BY <1>6 DEF Awaited
  <2>3. Holders' = Holders BY <1>1, <1>2, <1>6, <2>1, <2>2 DEF Holders
  <2>4. SlotsHeld' /\ SlotsEnough' BY <1>6, <2>3 DEF SessionsInv, SlotsHeld, SlotsEnough
  <2>5. RowsApart' BY <1>2, <1>6, <2>1, <2>2 DEF SessionsInv, RowsApart
  <2>6. SessionsTyped' BY <1>1, <1>2, <1>3, <1>6 DEF SessionsInv, SessionsTyped, Calls
  <2> QED BY <1>4, <2>4, <2>5, <2>6 DEF SessionsInv
<1> QED BY <1>1, <1>5, <1>6

\* The identity has the flip, or is asked again.
LEMMA WaitForFlipKeeps ==
  ASSUME SessionsInv, NEW u \in Users, WaitForFlip(u)
  PROVE  SessionsInv'
<1>1. pc[u] = "mining" /\ UNCHANGED <<private, public, mode, made>>
  BY DEF WaitForFlip, At, keys
<1>2. pc \in [Users -> Calls] /\ made \in [Users -> Nat]
  BY DEF SessionsInv, SessionsTyped
<1>3. CASE FlipOver(u)
  <2>1. pc' = [pc EXCEPT ![u] = "flip"] BY <1>3 DEF FlipOver, From
  <2>2. KeysSent' BY <1>1, <1>2, <2>1 DEF SessionsInv, SessionsTyped, KeysSent, Stage
  <2> QED BY <1>1, <1>2, <1>3, <2>2, GivingBack DEF SessionsInv
<1>4. CASE Retry(u) /\ UNCHANGED taken
  <2>1. pc' = pc BY <1>2, <1>4 DEF Retry, From
  <2> QED BY <1>1, <1>4, <2>1, Unmoved
<1> QED BY <1>3, <1>4 DEF WaitForFlip

\* The keys go out; those who have made no flip pass by.
LEMMA SendKeeps ==
  ASSUME SessionsInv, NEW u \in Users, SendPrivate(u) \/ SendPublic(u)
  PROVE  SessionsInv'
<1>1. UNCHANGED <<made, taken, mode>> BY DEF SendPrivate, SendPublic, flips
<1>2. pc \in [Users -> Calls] /\ made \in [Users -> Nat]
  BY DEF SessionsInv, SessionsTyped
<1>3. \/ /\ pc[u] = "private" /\ pc' = [pc EXCEPT ![u] = "public"] /\ public' = public
         /\ private' = IF made[u] > 0 THEN private \cup {u} ELSE private
      \/ /\ pc[u] = "public" /\ pc' = [pc EXCEPT ![u] = "ShortSession"]
         /\ private' = private
         /\ public' = IF made[u] > 0 THEN public \cup {u} ELSE public
  BY DEF SendPrivate, SendPublic, At, From
<1>4. SessionsTyped' BY <1>1, <1>3 DEF SessionsInv, SessionsTyped, Calls
<1>5. KeysSent' BY <1>1, <1>2, <1>3 DEF SessionsInv, SessionsTyped, KeysSent, Stage
<1>6. \A v : InARow(v)' = InARow(v) BY <1>1 DEF InARow
<1>7. RowsApart' BY <1>2, <1>3, <1>6 DEF SessionsInv, RowsApart
<1>8. Holders' = Holders BY <1>2, <1>3, <1>6 DEF Holders
<1>9. SlotsHeld' /\ SlotsEnough' BY <1>1, <1>8 DEF SessionsInv, SlotsHeld, SlotsEnough
<1> QED BY <1>4, <1>5, <1>7, <1>9 DEF SessionsInv

\* All other steps of a session: it goes on to a call that needs no slot, or
\* tries again, or the bot ends.
LEMMA OthersKeep ==
  ASSUME SessionsInv, NEW u \in Users, Session(u),
         ~TakeSlot(u), ~SubmitFlip(u), ~SubmitFlipFails(u), ~WaitForFlip(u),
         ~SendPrivate(u), ~SendPublic(u)
  PROVE  SessionsInv'
<1>1. UNCHANGED <<made, private, public, taken, mode>>
  BY DEF Session, NextFlip, ProvideDelayedFlipKey, WaitForPeriod, PrivateFails, CallFails,
         GetShortHashes, GetLongHashes, SubmitShort, SubmitOpenShort, SubmitLong, flips, keys
<1>2. pc \in [Users -> Calls] BY DEF SessionsInv, SessionsTyped
<1>3. Retry(u) => pc' = pc BY <1>2 DEF Retry, From
<1>4. CASE pc' = pc BY <1>1, <1>4, Unmoved
<1>5. CASE NextFlip(u)
  <2> DEFINE q == IF left[u] = 0 THEN "submitted" ELSE IF InARow(u) THEN "request" ELSE "slot"
  <2>1. pc[u] = "flip" /\ pc' = [pc EXCEPT ![u] = q] BY <1>5 DEF NextFlip, At, From
  <2>2. q \in Calls /\ Stage(q) <= Stage(pc[u]) BY <2>1 DEF Calls, Stage
  <2>3. u \notin Holders BY <2>1 DEF Holders
  <2>4. (q = "request" => InARow(u)) /\ (q = "slot" => ~InARow(u)) /\ q # "mining" OBVIOUS
  <2> HIDE DEF q
  <2> QED BY <1>1, <2>1, <2>2, <2>3, <2>4, Onward
<1>6. CASE ProvideDelayedFlipKey(u)
  <2>1. pc[u] = "submitted" /\ pc' = [pc EXCEPT ![u] = "FlipLottery"]
    BY <1>6 DEF ProvideDelayedFlipKey, At, From
  <2>2. "FlipLottery" \in Calls /\ Stage("FlipLottery") <= Stage(pc[u])
    BY <2>1 DEF Calls, Stage
  <2>3. u \notin Holders BY <2>1 DEF Holders
  <2> QED BY <1>1, <2>1, <2>2, <2>3, Onward
<1>7. ASSUME NEW p \in {"FlipLottery", "ShortSession", "LongSession", "None"},
             WaitForPeriod(u, p)
      PROVE  SessionsInv'
  <2> DEFINE q == AfterPeriod(u, p)
  <2>1. CASE Retry(u) BY <1>3, <1>4, <2>1
  <2>2. CASE From(u, now, AfterPeriod(u, p))
    <3>1. pc[u] = p /\ pc' = [pc EXCEPT ![u] = q] BY <1>7, <2>2 DEF WaitForPeriod, At, From
    <3>2. q \in {"private", "None", "shortHashes", "open", "done"}
          /\ (p = "FlipLottery" => q = "private")
      BY DEF AfterPeriod
    <3> HIDE DEF q
    <3>3. q \in Calls /\ Stage(q) <= 2 /\ (p = "FlipLottery" => Stage(q) = 0)
      BY <3>2 DEF Calls, Stage
    <3>4. Stage(pc[u]) = IF p = "FlipLottery" THEN 0 ELSE 2 BY <3>1 DEF Stage
    <3>5. Stage(q) <= Stage(pc[u]) BY <3>3, <3>4
    <3>6. u \notin Holders BY <3>1 DEF Holders
    <3>7. q # "request" /\ q # "slot" /\ q # "mining" BY <3>2
    <3> QED BY <1>1, <3>1, <3>3, <3>5, <3>6, <3>7, Onward
  <2> QED BY <1>7, <2>1, <2>2 DEF WaitForPeriod
<1>8. CASE PrivateFails(u) \/ CallFails(u)
  BY <1>3, <1>4, <1>8 DEF PrivateFails, CallFails
<1>9. ASSUME NEW p \in {"shortHashes", "longHashes", "answerShort", "open", "answerLong"},
             NEW q \in {"answerShort", "answerLong", "LongSession", "longHashes", "None"},
             pc[u] = p, pc' = [pc EXCEPT ![u] = q]
      PROVE  SessionsInv'
  <2>1. q \in Calls /\ Stage(q) <= Stage(pc[u]) BY <1>9 DEF Calls, Stage
  <2>2. u \notin Holders BY <1>9 DEF Holders
  <2>3. q # "request" /\ q # "slot" /\ q # "mining" OBVIOUS
  <2> QED BY <1>1, <1>9, <2>1, <2>2, <2>3, Onward
<1>10. CASE GetShortHashes(u) \/ GetLongHashes(u)
  <2>1. CASE Retry(u) BY <1>3, <1>4, <2>1
  <2>2. CASE ~Retry(u)
    <3>1. \/ pc[u] = "shortHashes" /\ pc' = [pc EXCEPT ![u] = "answerShort"]
          \/ pc[u] = "longHashes" /\ pc' = [pc EXCEPT ![u] = "answerLong"]
      BY <1>10, <2>2 DEF GetShortHashes, GetLongHashes, AnswerShortAt, At, From
    <3> QED BY <1>9, <3>1
  <2> QED BY <2>1, <2>2
<1>11. CASE SubmitShort(u) \/ SubmitOpenShort(u) \/ SubmitLong(u)
  <2>1. \/ pc[u] = "answerShort" /\ pc' = [pc EXCEPT ![u] = "LongSession"]
        \/ pc[u] = "open" /\ pc' = [pc EXCEPT ![u] = "longHashes"]
        \/ pc[u] = "answerLong" /\ pc' = [pc EXCEPT ![u] = "None"]
    BY <1>11 DEF SubmitShort, SubmitOpenShort, SubmitLong, At, From
  <2> QED BY <1>9, <2>1
<1> QED BY <1>5, <1>6, <1>7, <1>8, <1>10, <1>11 DEF Session

-----------------------------------------------------------------------------
(* The theorems                                                            *)

\* When the sessions begin there are no keys and all slots are free.
THEOREM Initially == Init => SessionsInv
<1> SUFFICES ASSUME Init PROVE SessionsInv OBVIOUS
<1> USE DEF Init
<1>1. SessionsTyped BY DEF SessionsTyped, Calls
<1>2. KeysSent BY DEF KeysSent, Stage
<1>3. RowsApart BY DEF RowsApart
<1>4. Holders = {} BY DEF Holders
<1>5. SlotsHeld BY <1>4, FS_EmptySet DEF SlotsHeld
<1>6. SlotsEnough BY CeremonyAssumption DEF SlotsEnough
<1> QED BY <1>1, <1>2, <1>3, <1>5, <1>6 DEF SessionsInv

\* The invariant of the sessions of a ceremony.
THEOREM Invariance == Spec => []SessionsInv
<1>1. SessionsInv /\ [Next]_vars => SessionsInv'
  <2> SUFFICES ASSUME SessionsInv, [Next]_vars PROVE SessionsInv' OBVIOUS
  <2>1. CASE Tick BY <2>1, Unmoved DEF Tick, flips, keys
  <2>2. CASE UNCHANGED vars BY <2>2, Unmoved DEF vars, flips, keys
  <2>3. CASE Ended BY <2>2, <2>3 DEF Ended
  <2>4. ASSUME NEW u \in Users, Session(u) PROVE SessionsInv'
    BY <2>4, TakeSlotKeeps, RequestKeeps, WaitForFlipKeeps, SendKeeps, OthersKeep
  <2> QED BY <2>1, <2>2, <2>3, <2>4 DEF Next
<1> QED BY <1>1, Initially, PTL DEF Spec

\* For any users, in any epoch and at any time: a user's public key, which
\* decrypts its flips, is never out before the package of private ones, and
\* no author reads flips before its own can be read (verification.go:290).
THEOREM KeysAreInOrder == Spec => []KeysInOrder
<1>1. SessionsInv => KeysInOrder
  <2> SUFFICES ASSUME SessionsInv PROVE KeysInOrder OBVIOUS
  <2>1. public \subseteq private BY DEF SessionsInv, KeysSent
  <2>2. ASSUME NEW u \in Authors, pc[u] \in {"shortHashes", "longHashes"}
        PROVE  u \in public
    <3>1. u \in Users /\ made[u] > 0 BY DEF Authors
    <3>2. Stage(pc[u]) = 2 BY <2>2 DEF Stage
    <3> QED BY <3>1, <3>2 DEF SessionsInv, KeysSent
  <2> QED BY <2>1, <2>2 DEF KeysInOrder
<1> QED BY <1>1, Invariance, PTL

\* The slots of flipsChan that are in use are exactly those of the sessions
\* that are submitting a flip and not in a row: none is lost or given back
\* twice, whatever fails, and they are never more than flipsChanSize.
THEOREM SlotsAccounted == Spec => [](SlotsHeld /\ SlotsEnough)
BY Invariance, PTL DEF SessionsInv

-----------------------------------------------------------------------------
(* Answers in time: the inductive invariant                                *)

TimesTyped ==
  /\ now \in Nat /\ faults \in 0..MaxFaults
  /\ wake \in [Users -> Nat] /\ due \in [Users -> Nat]
  /\ limit \in [Users -> Nat] /\ longAt \in [Users -> Nat]
  /\ short \in [Users -> Outcomes \cup {"never"}]
  /\ open \in [Users -> Outcomes \cup {"never"}]
  /\ long \in [Users -> Outcomes \cup {"never"}]

\* Only a session without a slot may be late for longer than Slack.
OnTime(u) == pc[u] \notin {"slot", "done"} => now <= due[u]

\* The latest moment of every call from the lottery on.
Timely(u) ==
  /\ pc[u] = "private" => due[u] < Start + Slack + faults * (Poll + Slack)
  /\ pc[u] = "public" => wake[u] >= Start /\ due[u] < Begun - Slack
  /\ pc[u] = "ShortSession" => wake[u] >= Start /\ due[u] < Begun
  /\ pc[u] = "shortHashes" => /\ wake[u] >= Start /\ due[u] <= limit[u] + Poll + Slack
                              /\ \E w \in Waits : limit[u] < Begun + w
  /\ pc[u] = "answerShort" => wake[u] >= Start /\ due[u] < Finish
  /\ pc[u] = "LongSession" => due[u] < Finish + Poll + Slack
  /\ pc[u] = "open" => wake[u] >= Finish /\ due[u] < Opened
  /\ pc[u] = "longHashes" => /\ wake[u] >= Finish /\ due[u] <= limit[u] + Poll + Slack
                             /\ \E w \in Waits : limit[u] < Opened + w
                             /\ \E d \in Delays : longAt[u] < Opened + d
  /\ pc[u] = "answerLong" => wake[u] >= Finish /\ due[u] < LongEnd

TimesInv == /\ SessionsInv /\ TimesTyped /\ AnswersInTime
            /\ \A u \in Users : OnTime(u) /\ Timely(u)

-----------------------------------------------------------------------------
(* Answers in time: time and periods                                       *)

LEMMA ClockNumbers ==
  /\ Lottery \in Nat /\ Start \in Nat /\ Finish \in Nat /\ LongEnd \in Nat /\ End \in Nat
  /\ Slack \in Nat /\ Poll \in Nat /\ Mining \in Nat /\ KeyDelay \in Nat /\ Lead \in Nat
  /\ Silent \in Nat /\ AllowShort \in Nat /\ AllowLong \in Nat /\ MaxFaults \in Nat
  /\ Waits \subseteq Nat /\ Waits # {} /\ Delays \subseteq Nat
  /\ Lottery < Start /\ Start < Finish /\ Finish < LongEnd /\ LongEnd < End
  /\ Slack > 0 /\ Poll > 0
BY CeremonyAssumption

\* What the periods are in time.
LEMMA Periods ==
  ASSUME NEW t \in Nat
  PROVE  /\ Period(t) = "FlipLottery" <=> Lottery <= t /\ t < Start
         /\ Period(t) = "ShortSession" <=> Start <= t /\ t < Finish
         /\ Period(t) = "LongSession" <=> Finish <= t /\ t < LongEnd
         /\ Period(t) # "None" => t < End
<1>1. CASE t < Lottery \/ t >= End BY <1>1, ClockNumbers DEF Period
<1>2. CASE Lottery <= t /\ t < Start BY <1>2, ClockNumbers DEF Period
<1>3. CASE Start <= t /\ t < Finish BY <1>3, ClockNumbers DEF Period
<1>4. CASE Finish <= t /\ t < LongEnd BY <1>4, ClockNumbers DEF Period
<1>5. CASE LongEnd <= t /\ t < End BY <1>5, ClockNumbers DEF Period
<1> QED BY <1>1, <1>2, <1>3, <1>4, <1>5, ClockNumbers

\* What a session that goes on with p no earlier than t does to the clock.
LEMMA FromTimes ==
  ASSUME SessionsInv, TimesTyped, NEW u \in Users, NEW t \in Int, NEW p \in Calls, From(u, t, p)
  PROVE  /\ pc' = [pc EXCEPT ![u] = p] /\ pc'[u] = p
         /\ wake' \in [Users -> Nat] /\ due' \in [Users -> Nat]
         /\ wake'[u] >= t /\ wake'[u] >= now /\ (wake'[u] = t \/ wake'[u] = now)
         /\ due'[u] = wake'[u] + Slack
         /\ \A v \in Users \ {u} : pc'[v] = pc[v] /\ wake'[v] = wake[v] /\ due'[v] = due[v]
<1>1. pc \in [Users -> Calls] /\ now \in Nat /\ wake \in [Users -> Nat] /\ due \in [Users -> Nat]
  BY DEF SessionsInv, SessionsTyped, TimesTyped
<1>2. PICK l : l = Later(t, now) OBVIOUS
<1>3. l \in Nat /\ l >= t /\ l >= now /\ (l = t \/ l = now) /\ l + Slack \in Nat
  BY <1>1, <1>2, ClockNumbers DEF Later
<1>4. /\ pc' = [pc EXCEPT ![u] = p] /\ wake' = [wake EXCEPT ![u] = l]
      /\ due' = [due EXCEPT ![u] = l + Slack]
  BY <1>2 DEF From
<1> QED BY <1>1, <1>3, <1>4

\* Failures only add time.
LEMMA FaultsGrow ==
  ASSUME NEW f \in Nat, NEW g \in Nat, f <= g
  PROVE  /\ f * (Poll + Slack) \in Nat /\ g * (Poll + Slack) \in Nat
         /\ f * (Poll + Slack) <= g * (Poll + Slack)
<1>1. PICK p \in Nat : p = Poll + Slack BY ClockNumbers
<1>2. PICK d \in Nat : g = f + d
  <2>1. g - f \in Nat /\ g = f + (g - f) OBVIOUS
  <2> QED BY <2>1
<1>3. g * p = f * p + d * p /\ f * p \in Nat /\ d * p \in Nat BY <1>1, <1>2
<1>4. f * p \in Nat /\ g * p \in Nat /\ f * p <= g * p BY <1>3
<1> QED BY <1>1, <1>4

\* A step of one session leaves the others on time.
LEMMA OthersTimely ==
  ASSUME TimesInv, NEW v \in Users, now' = now, faults' \in faults..MaxFaults,
         pc'[v] = pc[v], wake'[v] = wake[v], due'[v] = due[v],
         limit'[v] = limit[v], longAt'[v] = longAt[v]
  PROVE  OnTime(v)' /\ Timely(v)'
<1>1. OnTime(v) /\ Timely(v) /\ due[v] \in Nat /\ faults \in Nat
  BY ClockNumbers DEF TimesInv, TimesTyped
<1>2. OnTime(v)' BY <1>1 DEF OnTime
<1>3. pc[v] = "private" => due[v] < Start + Slack + faults' * (Poll + Slack)
  <2>1. PICK x : x = faults * (Poll + Slack) OBVIOUS
  <2>2. PICK y : y = faults' * (Poll + Slack) OBVIOUS
  <2>3. faults' \in Nat /\ faults <= faults' BY <1>1, ClockNumbers
  <2>4. x <= y /\ x \in Nat /\ y \in Nat BY <1>1, <2>1, <2>2, <2>3, FaultsGrow
  <2>5. pc[v] = "private" => due[v] < Start + Slack + x BY <1>1, <2>1 DEF Timely
  <2>6. pc[v] = "private" => due[v] < Start + Slack + y BY <1>1, <2>4, <2>5, ClockNumbers
  <2> QED BY <2>2, <2>6
<1>4. Timely(v)' BY <1>1, <1>3 DEF Timely
<1> QED BY <1>2, <1>4

\* With a key of its own that is out, a session misses at most the keys of all
\* the others.
LEMMA FewMissing ==
  ASSUME TimesInv, NEW u \in Users, pc[u] \in {"shortHashes", "longHashes"}
  PROVE  NotReady \in Nat /\ NotReady <= Silent + Cardinality(Users) - 1
<1>1. u \notin Authors \ public
  <2>1. Stage(pc[u]) = 2 BY DEF Stage
  <2> QED BY <2>1 DEF TimesInv, SessionsInv, KeysSent, Authors
<1>2. Authors \ public \in SUBSET (Users \ {u}) BY <1>1 DEF Authors
<1>3. IsFiniteSet(Users \ {u}) /\ Cardinality(Users \ {u}) = Cardinality(Users) - 1
  BY CeremonyAssumption, FS_RemoveElement
<1>4. Cardinality(Authors \ public) <= Cardinality(Users \ {u}) /\ IsFiniteSet(Authors \ public)
  BY <1>2, <1>3, FS_Subset
<1>5. Cardinality(Authors \ public) \in Nat /\ Cardinality(Users) \in Nat
  BY <1>4, CeremonyAssumption, FS_CardinalityType
<1> QED BY <1>3, <1>4, <1>5, ClockNumbers DEF NotReady

\* Out of patience, a session has enough flips.
LEMMA PatienceEnds ==
  ASSUME TimesInv, Silent > 0, NEW u \in Users, pc[u] \in {"shortHashes", "longHashes"},
         NEW allowed \in Nat, Silent + Cardinality(Users) - 1 <= allowed, ~Enough(u, allowed)
  PROVE  now <= limit[u]
<1> SUFFICES ASSUME now > limit[u] PROVE FALSE
  BY DEF TimesInv, TimesTyped
<1>1. IsFiniteSet(Authors) /\ Cardinality(Authors) \in Nat
  <2>1. Authors \in SUBSET Users BY DEF Authors
  <2> QED BY <2>1, CeremonyAssumption, FS_Subset, FS_CardinalityType
<1>2. Silent + Cardinality(Authors) > 0 BY <1>1, ClockNumbers
<1>3. Cardinality(Users) \in Nat BY CeremonyAssumption, FS_CardinalityType
<1>4. NotReady <= allowed BY <1>3, FewMissing, ClockNumbers
<1> QED BY <1>2, <1>4 DEF Enough

-----------------------------------------------------------------------------
(* Answers in time: the steps                                              *)

AnswersTyped ==
  /\ short \in [Users -> Outcomes \cup {"never"}]
  /\ open \in [Users -> Outcomes \cup {"never"}]
  /\ long \in [Users -> Outcomes \cup {"never"}]

\* A session goes on, and is in time for its next call.
LEMMA Stepped ==
  ASSUME TimesInv, SessionsInv', NEW u \in Users, NEW t \in Int, NEW p \in Calls,
         From(u, t, p), now' = now, faults' \in faults..MaxFaults,
         limit' \in [Users -> Nat], longAt' \in [Users -> Nat],
         \A v \in Users \ {u} : limit'[v] = limit[v] /\ longAt'[v] = longAt[v],
         AnswersTyped', AnswersInTime', Timely(u)'
  PROVE  TimesInv'
<1>1. SessionsInv /\ TimesTyped BY DEF TimesInv
<1>2. /\ pc'[u] = p /\ wake' \in [Users -> Nat] /\ due' \in [Users -> Nat]
      /\ wake'[u] >= now /\ due'[u] = wake'[u] + Slack
      /\ \A v \in Users \ {u} : pc'[v] = pc[v] /\ wake'[v] = wake[v] /\ due'[v] = due[v]
  BY <1>1, FromTimes
<1>3. faults' \in 0..MaxFaults /\ now' \in Nat BY <1>1, ClockNumbers DEF TimesTyped
<1>4. TimesTyped' BY <1>2, <1>3 DEF TimesTyped, AnswersTyped
<1>5. now' <= due'[u] BY <1>1, <1>2, ClockNumbers DEF TimesTyped
<1>6. OnTime(u)' BY <1>5 DEF OnTime
<1>7. ASSUME NEW v \in Users \ {u} PROVE OnTime(v)' /\ Timely(v)' BY <1>2, OthersTimely
<1> QED BY <1>4, <1>6, <1>7 DEF TimesInv

Untimed == {"flip", "slot", "request", "mining", "submitted", "FlipLottery", "None", "done"}

\* Before the lottery, and after the answers, no call has a latest moment.
LEMMA UntimedKeeps ==
  ASSUME TimesInv, SessionsInv', NEW u \in Users, NEW t \in Int, NEW p \in Untimed,
         From(u, t, p), UNCHANGED <<now, limit, longAt, answers>>,
         faults' \in faults..MaxFaults
  PROVE  TimesInv'
<1>1. p \in Calls BY DEF Untimed, Calls
<1>2. limit' \in [Users -> Nat] /\ longAt' \in [Users -> Nat] /\ AnswersTyped'
  BY DEF TimesInv, TimesTyped, AnswersTyped, answers
<1>3. AnswersInTime' BY DEF TimesInv, AnswersInTime, answers
<1>4. pc'[u] = p BY <1>1, FromTimes DEF TimesInv
<1>5. Timely(u)' BY <1>4 DEF Timely, Untimed
<1> QED BY <1>1, <1>2, <1>3, <1>5, Stepped

LEMMA FaultsStay ==
  ASSUME TimesTyped
  PROVE  /\ faults \in faults..MaxFaults
         /\ faults < MaxFaults => faults + 1 \in faults..MaxFaults
BY ClockNumbers DEF TimesTyped

LEMMA FlipStepsKeep ==
  ASSUME TimesInv, SessionsInv', NEW u \in Users,
         \/ NextFlip(u) \/ TakeSlot(u) \/ SubmitFlip(u) \/ SubmitFlipFails(u)
         \/ WaitForFlip(u) \/ ProvideDelayedFlipKey(u)
  PROVE  TimesInv'
<1>1. now \in Int /\ now + Poll \in Int /\ Start + KeyDelay + Mining \in Int
  BY ClockNumbers DEF TimesInv, TimesTyped
<1>2. UNCHANGED <<now, limit, longAt, answers>>
  BY DEF NextFlip, TakeSlot, SubmitFlip, SubmitFlipFails, WaitForFlip, ProvideDelayedFlipKey
<1>3. faults' \in faults..MaxFaults
  <2>1. faults' = faults \/ (faults < MaxFaults /\ faults' = faults + 1)
    <3>1. CASE SubmitFlipFails(u) BY <3>1 DEF SubmitFlipFails
    <3>2. CASE ~SubmitFlipFails(u)
      BY <3>2 DEF NextFlip, TakeSlot, SubmitFlip, WaitForFlip, ProvideDelayedFlipKey
    <3> QED BY <3>1, <3>2
  <2> QED BY <2>1, FaultsStay DEF TimesInv
<1>4. \E t \in Int, p \in Untimed : From(u, t, p)
  <2>1. CASE NextFlip(u) BY <1>1, <2>1 DEF NextFlip, Untimed
  <2>2. CASE TakeSlot(u) BY <1>1, <2>2 DEF TakeSlot, Untimed
  <2>3. CASE SubmitFlip(u) \/ SubmitFlipFails(u)
    BY <1>1, <2>3 DEF SubmitFlip, SubmitFlipFails, FlipOver, Untimed
  <2>4. CASE WaitForFlip(u)
    <3>1. pc[u] = "mining" BY <2>4 DEF WaitForFlip, At
    <3>2. From(u, now, "flip") \/ From(u, now + Poll, "mining")
      BY <2>4, <3>1 DEF WaitForFlip, FlipOver, Retry
    <3> QED BY <1>1, <3>2 DEF Untimed
  <2>5. CASE ProvideDelayedFlipKey(u) BY <1>1, <2>5 DEF ProvideDelayedFlipKey, Untimed
  <2> QED BY <2>1, <2>2, <2>3, <2>4, <2>5
<1> QED BY <1>2, <1>3, <1>4, UntimedKeeps

\* The clock when a session takes a step.
LEMMA AtTimes ==
  ASSUME TimesInv, NEW u \in Users, NEW p, At(u, p), p \notin {"slot", "done"}
  PROVE  /\ now \in Nat /\ wake[u] \in Nat /\ due[u] \in Nat /\ limit[u] \in Nat
         /\ longAt[u] \in Nat /\ pc[u] = p /\ wake[u] <= now /\ now <= due[u] /\ Timely(u)
BY DEF TimesInv, TimesTyped, At, OnTime

LEMMA ScheduleNumbers ==
  ASSUME ScheduleFits
  PROVE  /\ Begun \in Nat /\ Opened \in Nat /\ Begun <= Finish /\ Opened <= LongEnd
         /\ Begun = Start + 3 * Slack + MaxFaults * (Poll + Slack)
         /\ MaxFaults * (Poll + Slack) \in Nat
<1>1. MaxFaults * (Poll + Slack) \in Nat BY FaultsGrow, ClockNumbers
<1>2. PICK x : x = MaxFaults * (Poll + Slack) OBVIOUS
<1>3. Begun \in Nat /\ Opened \in Nat
  <2>1. Begun = Start + 3 * Slack + x BY <1>2 DEF Begun
  <2> QED BY <1>1, <1>2, <2>1, ClockNumbers DEF Opened
<1>4. PICK w \in Waits : TRUE BY ClockNumbers
<1>5. Begun + w + Poll + 2 * Slack <= Finish /\ Opened + w + Poll + 2 * Slack <= LongEnd
  BY DEF ScheduleFits
<1>6. Begun <= Finish /\ Opened <= LongEnd BY <1>3, <1>4, <1>5, ClockNumbers
<1> QED BY <1>1, <1>3, <1>6 DEF Begun

LEMMA WaitKeeps ==
  ASSUME TimesInv, SessionsInv', ScheduleFits, NEW u \in Users,
         NEW p \in {"FlipLottery", "ShortSession", "LongSession", "None"}, WaitForPeriod(u, p)
  PROVE  TimesInv'
<1>1. /\ now \in Nat /\ wake[u] \in Nat /\ due[u] \in Nat /\ pc[u] = p
      /\ wake[u] <= now /\ now <= due[u] /\ Timely(u)
  BY AtTimes DEF WaitForPeriod
<1>2. UNCHANGED <<now, longAt, answers, faults>> BY DEF WaitForPeriod
<1>3. /\ SessionsInv /\ TimesTyped /\ faults' \in faults..MaxFaults
      /\ AnswersTyped' /\ AnswersInTime'
      /\ limit \in [Users -> Nat] /\ longAt' \in [Users -> Nat]
  BY <1>2, FaultsStay DEF TimesInv, TimesTyped, AnswersTyped, AnswersInTime, answers
<1>4. now \in Int /\ now + Poll \in Int BY <1>1, ClockNumbers
<1>5. CASE Period(now) # p
  <2>1. From(u, now + Poll, p) /\ limit' = limit
    BY <1>1, <1>5 DEF WaitForPeriod, Retry
  <2>2. CASE p \in {"FlipLottery", "None"}
    <3>1. p \in Untimed BY <2>2 DEF Untimed
    <3> QED BY <1>2, <1>3, <1>4, <2>1, <3>1, UntimedKeeps
  <2>3. CASE p = "ShortSession"
    <3>1. Start <= now /\ now < Finish
      BY <1>1, <2>3, ScheduleNumbers, ClockNumbers DEF Timely
    <3> QED BY <1>1, <1>5, <2>3, <3>1, Periods
  <2>4. CASE p = "LongSession"
    <3>1. p \in Calls BY <2>4 DEF Calls
    <3>2. now < LongEnd
      <4>1. now < Finish + Poll + Slack BY <1>1, <2>4, ClockNumbers DEF Timely
      <4> QED BY <1>1, <4>1, ScheduleNumbers, ClockNumbers DEF Opened
    <3>3. now < Finish BY <1>1, <1>5, <2>4, <3>2, Periods, ClockNumbers
    <3>4. pc'[u] = "LongSession" /\ due'[u] < Finish + Poll + Slack
      <4>1. /\ pc'[u] = p /\ (wake'[u] = now + Poll \/ wake'[u] = now)
            /\ due'[u] = wake'[u] + Slack
        BY <1>3, <1>4, <2>1, <3>1, FromTimes
      <4> QED BY <1>1, <2>4, <3>3, <4>1, ClockNumbers
    <3>5. Timely(u)' BY <3>4 DEF Timely
    <3> QED BY <1>2, <1>3, <1>4, <2>1, <3>1, <3>5, Stepped
  <2> QED BY <2>2, <2>3, <2>4
<1>6. CASE Period(now) = p
  <2>1. PICK q : q = AfterPeriod(u, p) OBVIOUS
  <2>2. PICK d \in Waits : limit' = IF q = "shortHashes" THEN [limit EXCEPT ![u] = now + d]
                                    ELSE limit
    BY <1>6, <2>1 DEF WaitForPeriod
  <2>3. From(u, now, q) BY <1>6, <2>1 DEF WaitForPeriod
  <2>4. q \in Calls
    BY <2>1 DEF AfterPeriod, Calls
  <2>5. limit' \in [Users -> Nat] /\ \A v \in Users \ {u} : limit'[v] = limit[v]
    <3>1. now + d \in Nat BY <1>1, <2>2, ClockNumbers
    <3> QED BY <1>3, <2>2, <3>1
  <2>6. pc'[u] = q /\ wake'[u] = now /\ due'[u] = now + Slack
    <3>1. pc'[u] = q /\ wake'[u] = now /\ due'[u] = wake'[u] + Slack
      BY <1>3, <1>4, <2>3, <2>4, FromTimes
    <3> QED BY <3>1
  <2>7. Timely(u)'
    <3>1. CASE p = "FlipLottery"
      <4>1. q = "private" /\ now < Start BY <1>1, <1>6, <2>1, <3>1, Periods DEF AfterPeriod
      <4>2. faults' * (Poll + Slack) \in Nat
        BY <1>2, <1>3, FaultsGrow, ClockNumbers DEF TimesTyped
      <4>3. PICK x : x = faults' * (Poll + Slack) OBVIOUS
      <4>4. due'[u] < Start + Slack + x BY <1>1, <2>6, <4>1, <4>2, <4>3, ClockNumbers
      <4> QED BY <2>6, <4>1, <4>3, <4>4 DEF Timely
    <3>2. CASE p = "ShortSession" /\ q = "shortHashes"
      <4>1. Start <= now /\ now < Begun
        BY <1>1, <3>2, ScheduleNumbers, ClockNumbers DEF Timely
      <4>2. limit'[u] = now + d BY <1>3, <2>2, <3>2
      <4>3. limit'[u] < Begun + d BY <1>1, <4>1, <4>2, ScheduleNumbers, ClockNumbers
      <4>4. due'[u] <= limit'[u] + Poll + Slack BY <1>1, <2>6, <4>2, ClockNumbers
      <4> QED BY <2>2, <2>6, <3>2, <4>1, <4>3, <4>4 DEF Timely
    <3>3. CASE p = "ShortSession" /\ q # "shortHashes"
      <4>1. q = "None" BY <2>1, <3>3 DEF AfterPeriod
      <4> QED BY <2>6, <4>1 DEF Timely
    <3>4. CASE p = "LongSession"
      <4>1. q = "open" BY <2>1, <3>4 DEF AfterPeriod
      <4>2. now >= Finish BY <1>1, <1>6, <3>4, Periods
      <4>3. now < Finish + Poll + Slack BY <1>1, <3>4, ClockNumbers DEF Timely
      <4>4. due'[u] < Opened BY <1>1, <2>6, <4>3, ClockNumbers DEF Opened
      <4> QED BY <2>6, <4>1, <4>2, <4>4 DEF Timely
    <3>5. CASE p = "None"
      <4>1. q = "done" BY <2>1, <3>5 DEF AfterPeriod
      <4> QED BY <2>6, <4>1 DEF Timely
    <3> QED BY <3>1, <3>2, <3>3, <3>4, <3>5
  <2> QED BY <1>2, <1>3, <1>4, <2>3, <2>4, <2>5, <2>7, Stepped
<1> QED BY <1>5, <1>6

LEMMA KeyStepsKeep ==
  ASSUME TimesInv, SessionsInv', ScheduleFits, NEW u \in Users,
         SendPrivate(u) \/ PrivateFails(u) \/ SendPublic(u)
  PROVE  TimesInv'
<1>1. UNCHANGED <<now, limit, longAt, answers>> BY DEF SendPrivate, PrivateFails, SendPublic, keys
<1>2. /\ SessionsInv /\ TimesTyped /\ AnswersTyped' /\ AnswersInTime'
      /\ limit' \in [Users -> Nat] /\ longAt' \in [Users -> Nat]
  BY <1>1 DEF TimesInv, TimesTyped, AnswersTyped, AnswersInTime, answers
<1>3. /\ now \in Nat /\ wake[u] \in Nat /\ due[u] \in Nat /\ pc[u] \in {"private", "public"}
      /\ wake[u] <= now /\ now <= due[u] /\ Timely(u)
  BY AtTimes DEF SendPrivate, PrivateFails, SendPublic
<1>4. PICK x, y : x = faults * (Poll + Slack) /\ y = MaxFaults * (Poll + Slack) OBVIOUS
<1>5. x \in Nat /\ y \in Nat /\ x <= y /\ Begun = Start + 3 * Slack + y
  BY <1>2, <1>4, FaultsGrow, ClockNumbers DEF TimesTyped, Begun
<1>6. now \in Int /\ now + Poll \in Int /\ Start \in Int BY <1>3, ClockNumbers
<1>7. CASE SendPrivate(u)
  <2>1. From(u, Start, "public") /\ faults' = faults /\ pc[u] = "private"
    BY <1>7 DEF SendPrivate, At
  <2>2. "public" \in Calls BY DEF Calls
  <2>3. /\ pc'[u] = "public" /\ wake'[u] >= Start /\ due'[u] = wake'[u] + Slack
        /\ (wake'[u] = Start \/ wake'[u] = now)
    BY <1>2, <1>6, <2>1, <2>2, FromTimes
  <2>4. now < Start + Slack + x BY <1>3, <1>4, <1>5, <2>1, ClockNumbers DEF Timely
  <2>5. due'[u] < Begun - Slack BY <1>3, <1>5, <2>3, <2>4, ClockNumbers
  <2>6. Timely(u)' BY <2>3, <2>5 DEF Timely
  <2>7. faults' \in faults..MaxFaults BY <1>2, <2>1, FaultsStay
  <2> QED BY <1>1, <1>2, <1>6, <2>1, <2>2, <2>6, <2>7, Stepped
<1>8. CASE PrivateFails(u)
  <2>1. /\ From(u, now + Poll, "private") /\ faults' = faults + 1 /\ faults < MaxFaults
        /\ pc[u] = "private"
    BY <1>8 DEF PrivateFails, At, Retry
  <2>2. "private" \in Calls BY DEF Calls
  <2>3. /\ pc'[u] = "private" /\ due'[u] = wake'[u] + Slack
        /\ (wake'[u] = now + Poll \/ wake'[u] = now)
    BY <1>2, <1>6, <2>1, <2>2, FromTimes
  <2>4. now < Start + Slack + x BY <1>3, <1>4, <1>5, <2>1, ClockNumbers DEF Timely
  <2>5. faults' * (Poll + Slack) = x + Poll + Slack
    <3>1. PICK f : f = faults OBVIOUS
    <3>2. f \in Nat BY <1>2, <3>1, ClockNumbers DEF TimesTyped
    <3>3. PICK s \in Nat : s = Poll + Slack BY ClockNumbers
    <3>4. (f + 1) * s = f * s + s BY <3>2, <3>3
    <3> QED BY <1>4, <1>5, <2>1, <3>1, <3>3, <3>4, ClockNumbers
  <2>6. due'[u] < Start + Slack + (x + Poll + Slack) BY <1>3, <1>5, <2>3, <2>4, ClockNumbers
  <2>7. Timely(u)' BY <2>3, <2>5, <2>6 DEF Timely
  <2>8. faults' \in faults..MaxFaults BY <1>2, <2>1, FaultsStay
  <2> QED BY <1>1, <1>2, <1>6, <2>1, <2>2, <2>7, <2>8, Stepped
<1>9. CASE SendPublic(u)
  <2>1. From(u, now, "ShortSession") /\ faults' = faults /\ pc[u] = "public"
    BY <1>9 DEF SendPublic, At
  <2>2. "ShortSession" \in Calls BY DEF Calls
  <2>3. pc'[u] = "ShortSession" /\ wake'[u] = now /\ due'[u] = wake'[u] + Slack
    BY <1>2, <1>6, <2>1, <2>2, FromTimes
  <2>4. now >= Start /\ now < Begun - Slack
    BY <1>3, <1>5, <2>1, ClockNumbers DEF Timely
  <2>5. due'[u] < Begun BY <1>3, <1>5, <2>3, <2>4, ClockNumbers
  <2>6. Timely(u)' BY <2>3, <2>4, <2>5 DEF Timely
  <2>7. faults' \in faults..MaxFaults BY <1>2, <2>1, FaultsStay
  <2> QED BY <1>1, <1>2, <1>6, <2>1, <2>2, <2>6, <2>7, Stepped
<1> QED BY <1>7, <1>8, <1>9

LEMMA ShortHashesKeep ==
  ASSUME TimesInv, SessionsInv', ScheduleFits, Silent > 0, NEW u \in Users, GetShortHashes(u)
  PROVE  TimesInv'
<1>1. UNCHANGED <<now, longAt, answers, faults>> BY DEF GetShortHashes
<1>2. /\ SessionsInv /\ TimesTyped /\ AnswersTyped' /\ AnswersInTime'
      /\ limit \in [Users -> Nat] /\ longAt' \in [Users -> Nat] /\ faults' \in faults..MaxFaults
  BY <1>1, FaultsStay DEF TimesInv, TimesTyped, AnswersTyped, AnswersInTime, answers
<1>3. /\ now \in Nat /\ wake[u] \in Nat /\ due[u] \in Nat /\ limit[u] \in Nat
      /\ pc[u] = "shortHashes" /\ wake[u] <= now /\ now <= due[u] /\ Timely(u)
  BY AtTimes DEF GetShortHashes
<1>4. PICK w \in Waits : limit[u] < Begun + w BY <1>3 DEF Timely
<1>5. Start <= now /\ now <= limit[u] + Poll + Slack
  BY <1>3, ClockNumbers DEF Timely
<1>6. /\ w \in Nat /\ Begun \in Nat /\ Begun + w + Poll + 2 * Slack <= Finish /\ Slack < Lead
      /\ Silent + Cardinality(Users) - 1 <= AllowShort
  BY <1>4, ScheduleNumbers, ClockNumbers DEF ScheduleFits
<1>7. now \in Int /\ now + Poll \in Int /\ Finish - Lead \in Int BY <1>3, ClockNumbers
<1>8. CASE Enough(u, AllowShort)
  <2>1. From(u, Finish - Lead, "answerShort") /\ limit' = [limit EXCEPT ![u] = 0]
    BY <1>8 DEF GetShortHashes, AnswerShortAt
  <2>2. "answerShort" \in Calls BY DEF Calls
  <2>3. /\ pc'[u] = "answerShort" /\ wake'[u] >= now /\ due'[u] = wake'[u] + Slack
        /\ (wake'[u] = Finish - Lead \/ wake'[u] = now) /\ wake'[u] \in Nat
    BY <1>2, <1>7, <2>1, <2>2, FromTimes
  <2>4. wake'[u] >= Start BY <1>3, <1>5, <2>3, ClockNumbers
  <2>5. due'[u] < Finish BY <1>3, <1>4, <1>5, <1>6, <2>3, ClockNumbers
  <2>6. Timely(u)' BY <2>3, <2>4, <2>5 DEF Timely
  <2>7. limit' \in [Users -> Nat] /\ \A v \in Users \ {u} : limit'[v] = limit[v]
    BY <1>2, <2>1
  <2> QED BY <1>1, <1>2, <1>7, <2>1, <2>2, <2>6, <2>7, Stepped
<1>9. CASE ~Enough(u, AllowShort)
  <2>1. From(u, now + Poll, "shortHashes") /\ limit' = limit
    BY <1>3, <1>9 DEF GetShortHashes, Retry
  <2>2. now <= limit[u] BY <1>3, <1>6, <1>9, PatienceEnds, ClockNumbers
  <2>3. "shortHashes" \in Calls BY DEF Calls
  <2>4. /\ pc'[u] = "shortHashes" /\ wake'[u] >= now /\ due'[u] = wake'[u] + Slack
        /\ (wake'[u] = now + Poll \/ wake'[u] = now)
    BY <1>2, <1>7, <2>1, <2>3, FromTimes
  <2>5. wake'[u] >= Start /\ due'[u] <= limit'[u] + Poll + Slack
    BY <1>3, <1>5, <2>1, <2>2, <2>4, ClockNumbers
  <2>6. \E z \in Waits : limit'[u] < Begun + z BY <1>4, <2>1
  <2>7. Timely(u)' BY <2>4, <2>5, <2>6 DEF Timely
  <2> QED BY <1>1, <1>2, <1>7, <2>1, <2>3, <2>7, Stepped
<1> QED BY <1>8, <1>9

LEMMA LongHashesKeep ==
  ASSUME TimesInv, SessionsInv', ScheduleFits, Silent > 0, NEW u \in Users, GetLongHashes(u)
  PROVE  TimesInv'
<1>1. UNCHANGED <<now, answers, faults>> BY DEF GetLongHashes
<1>2. /\ SessionsInv /\ TimesTyped /\ AnswersTyped' /\ AnswersInTime'
      /\ limit \in [Users -> Nat] /\ longAt \in [Users -> Nat] /\ faults' \in faults..MaxFaults
  BY <1>1, FaultsStay DEF TimesInv, TimesTyped, AnswersTyped, AnswersInTime, answers
<1>3. /\ now \in Nat /\ wake[u] \in Nat /\ due[u] \in Nat /\ limit[u] \in Nat /\ longAt[u] \in Nat
      /\ pc[u] = "longHashes" /\ wake[u] <= now /\ now <= due[u] /\ Timely(u)
  BY AtTimes DEF GetLongHashes
<1>4. PICK w \in Waits : limit[u] < Opened + w BY <1>3 DEF Timely
<1>5. PICK d \in Delays : longAt[u] < Opened + d BY <1>3 DEF Timely
<1>6. Finish <= now /\ now <= limit[u] + Poll + Slack
  BY <1>3, ClockNumbers DEF Timely
<1>7. /\ w \in Nat /\ d \in Nat /\ Opened \in Nat
      /\ Opened + w + Poll + 2 * Slack <= LongEnd /\ Opened + d + Slack <= LongEnd
      /\ Silent + Cardinality(Users) - 1 <= AllowLong
  BY <1>4, <1>5, ScheduleNumbers, ClockNumbers DEF ScheduleFits
<1>8. now \in Int /\ now + Poll \in Int /\ longAt[u] \in Int BY <1>3, ClockNumbers
<1>9. CASE Enough(u, AllowLong)
  <2>1. /\ From(u, longAt[u], "answerLong")
        /\ limit' = [limit EXCEPT ![u] = 0] /\ longAt' = [longAt EXCEPT ![u] = 0]
    BY <1>9 DEF GetLongHashes
  <2>2. "answerLong" \in Calls BY DEF Calls
  <2>3. /\ pc'[u] = "answerLong" /\ wake'[u] >= now /\ due'[u] = wake'[u] + Slack
        /\ (wake'[u] = longAt[u] \/ wake'[u] = now)
    BY <1>2, <1>8, <2>1, <2>2, FromTimes
  <2>4. wake'[u] >= Finish BY <1>3, <1>6, <2>3, ClockNumbers
  <2>5. due'[u] < LongEnd BY <1>3, <1>4, <1>5, <1>6, <1>7, <2>3, ClockNumbers
  <2>6. Timely(u)' BY <2>3, <2>4, <2>5 DEF Timely
  <2>7. /\ limit' \in [Users -> Nat] /\ longAt' \in [Users -> Nat]
        /\ \A v \in Users \ {u} : limit'[v] = limit[v] /\ longAt'[v] = longAt[v]
    BY <1>2, <2>1
  <2> QED BY <1>1, <1>2, <1>8, <2>1, <2>2, <2>6, <2>7, Stepped
<1>10. CASE ~Enough(u, AllowLong)
  <2>1. From(u, now + Poll, "longHashes") /\ limit' = limit /\ longAt' = longAt
    BY <1>3, <1>10 DEF GetLongHashes, Retry
  <2>2. now <= limit[u] BY <1>3, <1>7, <1>10, PatienceEnds, ClockNumbers
  <2>3. "longHashes" \in Calls BY DEF Calls
  <2>4. /\ pc'[u] = "longHashes" /\ wake'[u] >= now /\ due'[u] = wake'[u] + Slack
        /\ (wake'[u] = now + Poll \/ wake'[u] = now)
    BY <1>2, <1>8, <2>1, <2>3, FromTimes
  <2>5. wake'[u] >= Finish /\ due'[u] <= limit'[u] + Poll + Slack
    BY <1>3, <1>6, <2>1, <2>2, <2>4, ClockNumbers
  <2>6. /\ \E z \in Waits : limit'[u] < Opened + z
        /\ \E z \in Delays : longAt'[u] < Opened + z
    BY <1>4, <1>5, <2>1
  <2>7. Timely(u)' BY <2>4, <2>5, <2>6 DEF Timely
  <2> QED BY <1>1, <1>2, <1>8, <2>1, <2>3, <2>7, Stepped
<1> QED BY <1>9, <1>10

\* What reaches the chain at the latest moment of a call, or fails.
LEMMA OutcomeFaults ==
  ASSUME TimesTyped, NEW o, Outcome(o)
  PROVE  faults' \in faults..MaxFaults /\ o \in {"failed", Period(now)}
BY FaultsStay DEF Outcome

LEMMA SubmitShortKeeps ==
  ASSUME TimesInv, SessionsInv', ScheduleFits, NEW u \in Users, SubmitShort(u)
  PROVE  TimesInv'
<1>1. UNCHANGED <<now, limit, longAt, open, long>> BY DEF SubmitShort
<1>2. /\ SessionsInv /\ TimesTyped /\ AnswersInTime
      /\ limit' \in [Users -> Nat] /\ longAt' \in [Users -> Nat]
      /\ short \in [Users -> Outcomes \cup {"never"}]
  BY <1>1 DEF TimesInv, TimesTyped
<1>3. /\ now \in Nat /\ wake[u] \in Nat /\ due[u] \in Nat
      /\ pc[u] = "answerShort" /\ wake[u] <= now /\ now <= due[u] /\ Timely(u)
  BY AtTimes DEF SubmitShort
<1>4. Start <= now /\ now < Finish BY <1>3, ClockNumbers DEF Timely
<1>5. PICK o \in Outcomes : Outcome(o) /\ short' = [short EXCEPT ![u] = o] BY DEF SubmitShort
<1>6. faults' \in faults..MaxFaults /\ o \in {"failed", "ShortSession"}
  BY <1>2, <1>3, <1>4, <1>5, OutcomeFaults, Periods
<1>7. AnswersTyped' BY <1>1, <1>2, <1>5 DEF TimesTyped, AnswersTyped
<1>8. AnswersInTime' BY <1>1, <1>2, <1>5, <1>6 DEF AnswersInTime
<1>9. From(u, now, "LongSession") /\ now \in Int /\ "LongSession" \in Calls
  BY <1>3 DEF SubmitShort, Calls
<1>10. pc'[u] = "LongSession" /\ wake'[u] = now /\ due'[u] = wake'[u] + Slack
  BY <1>2, <1>9, FromTimes
<1>11. due'[u] < Finish + Poll + Slack BY <1>3, <1>4, <1>10, ClockNumbers
<1>12. Timely(u)' BY <1>10, <1>11 DEF Timely
<1> QED BY <1>1, <1>2, <1>6, <1>7, <1>8, <1>9, <1>12, Stepped

LEMMA SubmitOpenShortKeeps ==
  ASSUME TimesInv, SessionsInv', ScheduleFits, NEW u \in Users, SubmitOpenShort(u)
  PROVE  TimesInv'
<1>1. UNCHANGED <<now, short, long>> BY DEF SubmitOpenShort
<1>2. /\ SessionsInv /\ TimesTyped /\ AnswersInTime
      /\ limit \in [Users -> Nat] /\ longAt \in [Users -> Nat]
      /\ open \in [Users -> Outcomes \cup {"never"}]
  BY DEF TimesInv, TimesTyped
<1>3. /\ now \in Nat /\ wake[u] \in Nat /\ due[u] \in Nat
      /\ pc[u] = "open" /\ wake[u] <= now /\ now <= due[u] /\ Timely(u)
  BY AtTimes DEF SubmitOpenShort
<1>4. Finish <= now /\ now < Opened /\ now < LongEnd
  BY <1>3, ScheduleNumbers, ClockNumbers DEF Timely
<1>5. PICK o \in Outcomes : Outcome(o) /\ open' = [open EXCEPT ![u] = o] BY DEF SubmitOpenShort
<1>6. faults' \in faults..MaxFaults /\ o \in {"failed", "LongSession"}
  BY <1>2, <1>3, <1>4, <1>5, OutcomeFaults, Periods
<1>7. AnswersTyped' BY <1>1, <1>2, <1>5 DEF TimesTyped, AnswersTyped
<1>8. AnswersInTime' BY <1>1, <1>2, <1>5, <1>6 DEF AnswersInTime
<1>9. PICK d \in Delays, w \in Waits : /\ longAt' = [longAt EXCEPT ![u] = now + d]
                                       /\ limit' = [limit EXCEPT ![u] = now + w]
  BY DEF SubmitOpenShort
<1>10. d \in Nat /\ w \in Nat /\ now + d \in Nat /\ now + w \in Nat BY <1>3, ClockNumbers
<1>11. /\ limit' \in [Users -> Nat] /\ longAt' \in [Users -> Nat]
       /\ \A v \in Users \ {u} : limit'[v] = limit[v] /\ longAt'[v] = longAt[v]
       /\ limit'[u] = now + w /\ longAt'[u] = now + d
  BY <1>2, <1>9, <1>10
<1>12. From(u, now, "longHashes") /\ now \in Int /\ "longHashes" \in Calls
  BY <1>3 DEF SubmitOpenShort, Calls
<1>13. pc'[u] = "longHashes" /\ wake'[u] = now /\ due'[u] = wake'[u] + Slack
  BY <1>2, <1>12, FromTimes
<1>14. /\ limit'[u] < Opened + w /\ longAt'[u] < Opened + d
       /\ due'[u] <= limit'[u] + Poll + Slack
  BY <1>3, <1>4, <1>10, <1>11, <1>13, ScheduleNumbers, ClockNumbers
<1>15. Timely(u)' BY <1>4, <1>13, <1>14 DEF Timely
<1> QED BY <1>1, <1>2, <1>6, <1>7, <1>8, <1>11, <1>12, <1>15, Stepped

LEMMA SubmitLongKeeps ==
  ASSUME TimesInv, SessionsInv', NEW u \in Users, SubmitLong(u)
  PROVE  TimesInv'
<1>1. UNCHANGED <<now, limit, longAt, short, open>> BY DEF SubmitLong
<1>2. /\ SessionsInv /\ TimesTyped /\ AnswersInTime
      /\ limit' \in [Users -> Nat] /\ longAt' \in [Users -> Nat]
      /\ long \in [Users -> Outcomes \cup {"never"}]
  BY <1>1 DEF TimesInv, TimesTyped
<1>3. /\ now \in Nat /\ wake[u] \in Nat /\ due[u] \in Nat
      /\ pc[u] = "answerLong" /\ wake[u] <= now /\ now <= due[u] /\ Timely(u)
  BY AtTimes DEF SubmitLong
<1>4. Finish <= now /\ now < LongEnd BY <1>3, ClockNumbers DEF Timely
<1>5. PICK o \in Outcomes : Outcome(o) /\ long' = [long EXCEPT ![u] = o] BY DEF SubmitLong
<1>6. faults' \in faults..MaxFaults /\ o \in {"failed", "LongSession"}
  BY <1>2, <1>3, <1>4, <1>5, OutcomeFaults, Periods
<1>7. AnswersTyped' BY <1>1, <1>2, <1>5 DEF TimesTyped, AnswersTyped
<1>8. AnswersInTime' BY <1>1, <1>2, <1>5, <1>6 DEF AnswersInTime
<1>9. From(u, now, "None") /\ now \in Int /\ "None" \in Calls BY <1>3 DEF SubmitLong, Calls
<1>10. pc'[u] = "None" BY <1>2, <1>9, FromTimes
<1>11. Timely(u)' BY <1>10 DEF Timely
<1> QED BY <1>1, <1>2, <1>6, <1>7, <1>8, <1>9, <1>11, Stepped

\* No session takes a step.
LEMMA NobodyMoves ==
  ASSUME TimesInv, SessionsInv', UNCHANGED <<now, pc, wake, due, limit, longAt, answers>>,
         faults' \in faults..MaxFaults
  PROVE  TimesInv'
<1>1. TimesTyped' BY ClockNumbers DEF TimesInv, TimesTyped, answers
<1>2. AnswersInTime' BY DEF TimesInv, AnswersInTime, answers
<1>3. \A v \in Users : OnTime(v)' /\ Timely(v)' BY OthersTimely
<1> QED BY <1>1, <1>2, <1>3 DEF TimesInv

LEMMA TickKeeps == ASSUME TimesInv, SessionsInv', Tick PROVE TimesInv'
<1>1. now' = now + 1 /\ UNCHANGED <<pc, wake, due, limit, longAt, answers, faults>> BY DEF Tick
<1>2. TimesTyped' BY <1>1 DEF TimesInv, TimesTyped, answers
<1>3. AnswersInTime' BY <1>1 DEF TimesInv, AnswersInTime, answers
<1>4. ASSUME NEW v \in Users PROVE OnTime(v)' /\ Timely(v)'
  <2>1. Timely(v)' BY <1>1 DEF TimesInv, Timely
  <2>2. now < due[v] \/ pc[v] = "done" \/ pc[v] = "slot" BY DEF Tick, Blocked
  <2>3. now \in Nat /\ due[v] \in Nat BY DEF TimesInv, TimesTyped
  <2>4. OnTime(v)' BY <1>1, <2>2, <2>3 DEF OnTime
  <2> QED BY <2>1, <2>4
<1> QED BY <1>2, <1>3, <1>4 DEF TimesInv

LEMMA TimesInitially == Init => TimesInv
<1> SUFFICES ASSUME Init PROVE TimesInv OBVIOUS
<1>1. SessionsInv BY Initially
<1>2. TimesTyped BY ClockNumbers DEF Init, TimesTyped
<1>3. AnswersInTime BY DEF Init, AnswersInTime
<1>4. \A u \in Users : OnTime(u) /\ Timely(u) BY ClockNumbers DEF Init, OnTime, Timely
<1> QED BY <1>1, <1>2, <1>3, <1>4 DEF TimesInv

\* Every call is made before its latest moment.
THEOREM TimesInvariance ==
  ASSUME ScheduleFits, Silent > 0
  PROVE  Spec => []TimesInv
<1>1. TimesInv /\ SessionsInv' /\ [Next]_vars => TimesInv'
  <2> SUFFICES ASSUME TimesInv, SessionsInv', [Next]_vars PROVE TimesInv' OBVIOUS
  <2>0. TimesTyped BY DEF TimesInv
  <2>1. CASE UNCHANGED vars
    <3>1. UNCHANGED <<now, pc, wake, due, limit, longAt, answers>> /\ faults' = faults
      BY <2>1 DEF vars
    <3> QED BY <2>0, <3>1, NobodyMoves, FaultsStay
  <2>2. CASE Tick BY <2>2, TickKeeps
  <2>3. CASE Ended BY <2>1, <2>3 DEF Ended
  <2>4. ASSUME NEW u \in Users, Session(u) PROVE TimesInv'
    <3>1. CASE \/ NextFlip(u) \/ TakeSlot(u) \/ SubmitFlip(u) \/ SubmitFlipFails(u)
               \/ WaitForFlip(u) \/ ProvideDelayedFlipKey(u)
      BY <3>1, FlipStepsKeep
    <3>2. ASSUME NEW p \in {"FlipLottery", "ShortSession", "LongSession", "None"},
                 WaitForPeriod(u, p)
          PROVE  TimesInv'
      BY <3>2, WaitKeeps
    <3>3. CASE SendPrivate(u) \/ PrivateFails(u) \/ SendPublic(u) BY <3>3, KeyStepsKeep
    <3>4. CASE CallFails(u)
      <4>1. /\ UNCHANGED <<now, pc, wake, due, limit, longAt, answers>>
            /\ faults' = faults + 1 /\ faults < MaxFaults
        BY <3>4 DEF CallFails
      <4> QED BY <2>0, <4>1, NobodyMoves, FaultsStay
    <3>5. CASE GetShortHashes(u) BY <3>5, ShortHashesKeep
    <3>6. CASE GetLongHashes(u) BY <3>6, LongHashesKeep
    <3>7. CASE SubmitShort(u) BY <3>7, SubmitShortKeeps
    <3>8. CASE SubmitOpenShort(u) BY <3>8, SubmitOpenShortKeeps
    <3>9. CASE SubmitLong(u) BY <3>9, SubmitLongKeeps
    <3> QED BY <2>4, <3>1, <3>2, <3>3, <3>4, <3>5, <3>6, <3>7, <3>8, <3>9 DEF Session
  <2> QED BY <2>1, <2>2, <2>3, <2>4 DEF Next
<1> QED BY <1>1, TimesInitially, Invariance, PTL DEF Spec

\* Wherever the schedule fits and some flip exists, for any number of users,
\* however late each step is and whichever requests fail: answers that reach
\* the chain reach it in their session (verification.go:315-337, 581-625).
THEOREM AnswersAreInTime ==
  ASSUME ScheduleFits, Silent > 0
  PROVE  Spec => []AnswersInTime
<1>1. TimesInv => AnswersInTime BY DEF TimesInv
<1> QED BY <1>1, TimesInvariance, PTL

-----------------------------------------------------------------------------
(* Nobody hangs: the inductive invariant                                   *)

\* The flips that are over, in the order in which left counts them down.
Over == {x \in AllFlips : x[2] > left[x[1]]}

\* How many times somebody in a slot, or on the way to one, has ended its
\* flip or has come to wait for ever.
Ends == Cardinality(Over) + Cardinality(Refused)

InLoop == {"flip", "slot", "request", "mining"}
Submitting(u) == u \notin Refused /\ pc[u] \in InLoop /\ left[u] > 0

FlipsTyped == left \in [Users -> Nat] /\ minedAt \in [Users -> Nat \cup {Never}]

\* Where a session is with its flips, and that no step of it is far off.
InTurn(u, d) ==
  /\ left[u] <= Flips[u]
  /\ pc[u] \in {"slot", "request", "mining"} => left[u] > 0
  /\ pc[u] \notin InLoop => left[u] = 0
  /\ pc[u] # "mining" => minedAt[u] = Never
  /\ pc[u] \in {"flip", "slot", "request"} => due[u] <= now + Slack
  /\ pc[u] = "mining" => due[u] <= now + Poll + Slack /\ minedAt[u] <= now + d

\* Unless it has to wait for a slot, a session ends its flip at t or before.
EndsBy(u, d, t) ==
  /\ pc[u] = "flip" => due[u] + d + Poll + 3 * Slack <= t
  /\ pc[u] = "slot" => /\ due[u] + d + Poll + 2 * Slack <= t
                       /\ now + d + Poll + 2 * Slack <= t
  /\ pc[u] = "request" => due[u] + d + Poll + Slack <= t
  /\ pc[u] = "mining" => due[u] <= t /\ minedAt[u] + Poll + Slack <= t

Goes(u, d, t) == Submitting(u) /\ ~Blocked(u) /\ EndsBy(u, d, t)

\* As long as a slot is left, the queue moves: whoever waits, there is somebody
\* who does not and will end its flip soon.
QueueMoves(d) ==
  SlotLeft => \A v \in Users : Submitting(v) =>
                 \E u \in Users : Goes(u, d, (Ends + 1) * Turn(d))

\* So whoever has submitted all its flips has done it early enough.
Latest(d) == Cardinality(AllFlips) * Turn(d)
Early(u, d) ==
  SlotLeft => /\ pc[u] = "flip" /\ left[u] = 0 => due[u] <= Latest(d) + Slack
              /\ pc[u] = "submitted" => due[u] <= Latest(d) + 2 * Slack
              /\ pc[u] = "FlipLottery" /\ u \notin Delayed => due[u] < Start

\* What is behind a session in its last calls.
Answered(u) ==
  /\ pc[u] \in {"LongSession", "open", "longHashes", "answerLong"} => short[u] # "never"
  /\ pc[u] \in {"None", "done"} /\ u \notin Skippers => short[u] # "never" /\ long[u] # "never"
  /\ pc[u] = "None" => due[u] < End + Poll + Slack

HangInv(d) ==
  /\ FlipsTyped /\ \A u \in Users : InTurn(u, d) /\ Answered(u) /\ Early(u, d)
  /\ QueueMoves(d)

-----------------------------------------------------------------------------
(* Nobody hangs: counting flips                                            *)

\* There are finitely many flips.
LEMMA AllFlipsFinite == IsFiniteSet(AllFlips) /\ Cardinality(AllFlips) \in Nat
<1> DEFINE Of(u) == {u} \X (1..Flips[u])
           S == {Of(u) : u \in Users}
<1>1. \A u \in Users : IsFiniteSet(Of(u))
  <2> SUFFICES ASSUME NEW u \in Users PROVE IsFiniteSet(Of(u)) OBVIOUS
  <2>1. IsFiniteSet({u}) BY FS_Singleton
  <2>2. Flips[u] \in Nat BY CeremonyAssumption
  <2>3. IsFiniteSet(1..Flips[u]) BY <2>2, FS_Interval
  <2> QED BY <2>1, <2>3, FS_Product
<1>2. IsFiniteSet(S)
  <2>1. [u \in Users |-> Of(u)] \in Surjection(Users, S) BY DEF Surjection
  <2> QED BY <2>1, FS_Surjection, CeremonyAssumption
<1>3. IsFiniteSet(UNION S) BY <1>1, <1>2, FS_UNION
<1> QED BY <1>3, FS_CardinalityType DEF AllFlips

LEMMA InAllFlips ==
  ASSUME NEW u \in Users, NEW n \in Nat, n > 0, n <= Flips[u]
  PROVE  <<u, n>> \in AllFlips
<1>1. Flips[u] \in Nat BY CeremonyAssumption
<1>2. <<u, n>> \in {u} \X (1..Flips[u]) BY <1>1
<1> QED BY <1>2 DEF AllFlips

LEMMA OverFinite == Over \in SUBSET AllFlips /\ IsFiniteSet(Over) /\ Cardinality(Over) \in Nat
<1>1. Over \in SUBSET AllFlips BY DEF Over
<1> QED BY <1>1, AllFlipsFinite, FS_Subset, FS_CardinalityType

LEMMA RefusedFinite ==
  Refused \in SUBSET Users /\ IsFiniteSet(Refused) /\ Cardinality(Refused) \in Nat
<1>1. Refused \in SUBSET Users BY DEF Refused
<1> QED BY <1>1, CeremonyAssumption, FS_Subset, FS_CardinalityType

LEMMA EndsTyped == Ends \in Nat
BY OverFinite, RefusedFinite DEF Ends

\* A session that still submits has a flip that nobody has counted yet.
LEMMA EndsBounded ==
  ASSUME FlipsTyped, NEW d, \A v \in Users : InTurn(v, d), NEW u \in Users, Submitting(u)
  PROVE  Ends + 1 <= Cardinality(AllFlips)
<1> DEFINE At1(v) == <<v, left[v]>>
           R == {At1(v) : v \in Refused}
<1>1. \A v \in Users : left[v] \in Nat /\ left[v] <= Flips[v] BY DEF FlipsTyped, InTurn
<1>2. \A v \in Refused : v \in Users /\ left[v] > 0 BY DEF Refused, InTurn
<1>3. R \in SUBSET AllFlips BY <1>1, <1>2, InAllFlips
<1>4. IsFiniteSet(R) /\ Cardinality(R) = Cardinality(Refused)
  <2> DEFINE f == [v \in Refused |-> At1(v)]
  <2>1. f \in Surjection(Refused, R) BY DEF Surjection
  <2>2. f \in [Refused -> R] /\ \A v, w \in Refused : f[v] = f[w] => v = w OBVIOUS
  <2>3. f \in Injection(Refused, R) BY <2>2 DEF Injection, IsInjective
  <2> QED BY <2>1, <2>3, FS_Surjection, RefusedFinite
<1>5. Over \cap R = {} BY <1>1, <1>2 DEF Over
<1>6. At1(u) \in AllFlips /\ At1(u) \notin Over \cup R
  <2>1. left[u] > 0 /\ u \notin Refused BY DEF Submitting
  <2>2. At1(u) \in AllFlips BY <1>1, <2>1, InAllFlips
  <2>3. At1(u) \notin Over BY <1>1 DEF Over
  <2>4. At1(u) \notin R BY <2>1
  <2> QED BY <2>2, <2>3, <2>4
<1> HIDE DEF R, At1
<1>7. IsFiniteSet(Over \cup R) /\ Cardinality(Over \cup R) = Cardinality(Over) + Cardinality(R)
  <2>1. Cardinality(Over \cap R) = 0 BY <1>5, FS_EmptySet
  <2>2. /\ IsFiniteSet(Over \cup R)
        /\ Cardinality(Over \cup R) = Cardinality(Over) + Cardinality(R) - Cardinality(Over \cap R)
    BY <1>4, OverFinite, FS_Union
  <2> QED BY <1>4, <2>1, <2>2, OverFinite, RefusedFinite
<1>8. Cardinality((Over \cup R) \cup {At1(u)}) = Cardinality(Over \cup R) + 1
  BY <1>6, <1>7, FS_AddElement
<1>9. (Over \cup R) \cup {At1(u)} \in SUBSET AllFlips BY <1>3, <1>6, OverFinite
<1>10. Cardinality((Over \cup R) \cup {At1(u)}) <= Cardinality(AllFlips)
  BY <1>9, AllFlipsFinite, FS_Subset
<1> QED BY <1>4, <1>7, <1>8, <1>10 DEF Ends

\* The end of a flip is counted once.
LEMMA FlipCounted ==
  ASSUME FlipsTyped, NEW u \in Users, left[u] > 0, left[u] <= Flips[u],
         left' = [left EXCEPT ![u] = @ - 1]
  PROVE  Cardinality(Over)' = Cardinality(Over) + 1
<1>1. left \in [Users -> Nat] /\ left[u] \in Nat BY DEF FlipsTyped
<1>2. PICK x : x = <<u, left[u]>> OBVIOUS
<1>3. x \in AllFlips BY <1>1, <1>2, InAllFlips
<1>4. \A y \in AllFlips : \E v \in Users, n \in Nat : y = <<v, n>>
  BY CeremonyAssumption DEF AllFlips
<1>5. Over' = Over \cup {x}
  <2>1. \A y \in AllFlips : (y[2] > left'[y[1]]) <=> (y[2] > left[y[1]] \/ y = x)
    <3> SUFFICES ASSUME NEW v \in Users, NEW n \in Nat
                 PROVE  (n > left'[v]) <=> (n > left[v] \/ <<v, n>> = x)
      BY <1>4
    <3>1. CASE v = u BY <1>1, <1>2, <3>1
    <3>2. CASE v # u BY <1>1, <1>2, <3>2
    <3> QED BY <3>1, <3>2
  <2>2. AllFlips' = AllFlips BY DEF AllFlips
  <2> QED BY <1>3, <2>1, <2>2 DEF Over
<1>6. x \notin Over BY <1>1, <1>2 DEF Over
<1> QED BY <1>5, <1>6, OverFinite, FS_AddElement

-----------------------------------------------------------------------------
(* Nobody hangs: the queue                                                 *)

LEMMA TurnNumbers ==
  ASSUME NEW d \in Nat, NEW n \in Nat
  PROVE  /\ Turn(d) \in Nat /\ Turn(d) = d + Poll + 4 * Slack
         /\ n * Turn(d) \in Nat /\ (n + 1) * Turn(d) = n * Turn(d) + Turn(d)
         /\ \A m \in Nat : n <= m => n * Turn(d) <= m * Turn(d)
<1>1. Turn(d) \in Nat /\ Turn(d) = d + Poll + 4 * Slack BY ClockNumbers DEF Turn
<1>2. PICK t \in Nat : t = Turn(d) BY <1>1
<1>3. n * t \in Nat /\ (n + 1) * t = n * t + t BY <1>2
<1>4. ASSUME NEW m \in Nat, n <= m PROVE n * t <= m * t
  <2>1. PICK e \in Nat : m = n + e
    <3>1. m - n \in Nat /\ m = n + (m - n) BY <1>4
    <3> QED BY <3>1
  <2>2. m * t = n * t + e * t /\ e * t \in Nat BY <2>1
  <2> QED BY <1>3, <2>2
<1> QED BY <1>1, <1>2, <1>3, <1>4

\* Whoever does not wait for a slot ends its flip within a turn.
LEMMA EndsSoon ==
  ASSUME NEW d \in Nat, TimesInv, FlipsTyped, NEW u \in Users, InTurn(u, d)
  PROVE  EndsBy(u, d, now + Turn(d))
<1>1. now \in Nat /\ due[u] \in Nat /\ minedAt[u] \in Int
  BY DEF TimesInv, TimesTyped, FlipsTyped, Never
<1>2. Turn(d) = d + Poll + 4 * Slack /\ Slack \in Nat /\ Poll \in Nat
  BY TurnNumbers, ClockNumbers
<1>3. pc[u] \in {"flip", "slot", "request"} => due[u] <= now + Slack BY DEF InTurn
<1>4. pc[u] = "mining" => due[u] <= now + Poll + Slack /\ minedAt[u] <= now + d BY DEF InTurn
<1> QED BY <1>1, <1>2, <1>3, <1>4 DEF EndsBy

\* When all slots are taken and one is left over for those who do not wait for
\* ever, somebody holds it.
HolderThere ==
  SessionsInv /\ SlotLeft /\ (\E v \in Users : Blocked(v)) =>
    \E h \in Users : h \in Holders /\ h \notin Refused

LEMMA SlotHeld == HolderThere
<1> SUFFICES ASSUME SessionsInv, SlotLeft, NEW v \in Users, Blocked(v)
             PROVE  \E h \in Users : h \in Holders /\ h \notin Refused
  BY DEF HolderThere
<1>1. Slots # 0 /\ taken = Slots BY DEF Blocked
<1>2. Cardinality(Holders) = Slots BY <1>1 DEF SessionsInv, SlotsHeld
<1>3. Cardinality(Refused) < Cardinality(Holders) BY <1>1, <1>2 DEF SlotLeft
<1>4. ~(Holders \subseteq Refused)
  <2> SUFFICES ASSUME Holders \in SUBSET Refused PROVE FALSE OBVIOUS
  <2>1. Cardinality(Holders) <= Cardinality(Refused) BY RefusedFinite, FS_Subset
  <2> QED BY <1>3, <2>1, RefusedFinite, HoldersFinite
<1> QED BY <1>4 DEF Holders

\* That holds in every state, and so in the next one.
LEMMA HolderNext == HolderThere'
BY SlotHeld, PTL

\* With a slot left, not everybody waits: not all slots are held by sessions
\* that wait for ever.
LEMMA SomebodyGoes ==
  ASSUME SessionsInv, NEW d, \A u \in Users : InTurn(u, d), SlotLeft,
         NEW v \in Users, Submitting(v)
  PROVE  \E u \in Users : Submitting(u) /\ ~Blocked(u)
<1>1. CASE ~Blocked(v) BY <1>1
<1>2. CASE Blocked(v)
  <2>1. PICK h \in Users : h \in Holders /\ h \notin Refused BY <1>2, SlotHeld DEF HolderThere
  <2>2. pc[h] \in {"request", "mining"} BY <2>1 DEF Holders
  <2>3. Submitting(h) /\ ~Blocked(h) BY <2>1, <2>2 DEF Submitting, InLoop, InTurn, Blocked
  <2> QED BY <2>3
<1> QED BY <1>1, <1>2

SomebodyEndsSoon(d) ==
  TimesInv /\ FlipsTyped /\ SlotLeft /\ (\A u \in Users : InTurn(u, d)) =>
    \A v \in Users : Submitting(v) =>
      \E u \in Users : Goes(u, d, now + Turn(d))

\* That holds in every state, and so in the next one.
LEMMA SomebodyEndsNext == ASSUME NEW d \in Nat PROVE SomebodyEndsSoon(d)'
<1>1. SomebodyEndsSoon(d)
  <2> SUFFICES ASSUME TimesInv, FlipsTyped, SlotLeft, \A u \in Users : InTurn(u, d),
                      NEW v \in Users, Submitting(v)
               PROVE  \E u \in Users : Goes(u, d, now + Turn(d))
    BY DEF SomebodyEndsSoon
  <2>1. SessionsInv BY DEF TimesInv
  <2>2. PICK u \in Users : Submitting(u) /\ ~Blocked(u) BY <2>1, SomebodyGoes
  <2>3. EndsBy(u, d, now + Turn(d)) BY EndsSoon
  <2> QED BY <2>2, <2>3 DEF Goes
<1> QED BY <1>1, PTL

\* While anybody submits, it is early.
LEMMA StillEarly ==
  ASSUME NEW d \in Nat, TimesInv, HangInv(d), SlotLeft, NEW v \in Users, Submitting(v)
  PROVE  /\ now <= (Ends + 1) * Turn(d)
         /\ (Ends + 1) * Turn(d) <= Cardinality(AllFlips) * Turn(d)
         /\ (Ends + 1) * Turn(d) \in Nat
<1>1. PICK u \in Users : Goes(u, d, (Ends + 1) * Turn(d)) BY DEF HangInv, QueueMoves
<1>2. PICK t : t = (Ends + 1) * Turn(d) OBVIOUS
<1>3. Ends + 1 \in Nat BY EndsTyped
<1>4. t \in Nat BY <1>2, <1>3, TurnNumbers
<1>5. /\ now \in Nat /\ due[u] \in Nat /\ minedAt[u] \in Int /\ OnTime(u)
      /\ pc[u] \in InLoop /\ EndsBy(u, d, t)
  BY <1>1, <1>2 DEF TimesInv, TimesTyped, HangInv, FlipsTyped, Never, Goes, Submitting
<1>6. now <= t BY <1>4, <1>5, ClockNumbers DEF OnTime, EndsBy, InLoop
<1>7. Ends + 1 <= Cardinality(AllFlips) BY EndsBounded DEF HangInv
<1>8. t <= Cardinality(AllFlips) * Turn(d) BY <1>2, <1>3, <1>7, TurnNumbers, AllFlipsFinite
<1> QED BY <1>2, <1>4, <1>6, <1>8

\* Once a flip has ended or has come to wait for ever, whoever goes on has
\* another turn.
LEMMA NextTurn ==
  ASSUME NEW d \in Nat, TimesInv, TimesInv', HangInv(d), SlotLeft, NEW v \in Users, Submitting(v),
         now' = now, Ends' = Ends + 1, FlipsTyped', \A u \in Users : InTurn(u, d)'
  PROVE  QueueMoves(d)'
<1> SUFFICES ASSUME SlotLeft', NEW w \in Users, Submitting(w)'
             PROVE  \E u \in Users : Goes(u, d, (Ends + 1) * Turn(d))'
  BY DEF QueueMoves
<1>1. PICK u \in Users : Goes(u, d, now + Turn(d))'
  BY SomebodyEndsNext DEF SomebodyEndsSoon
<1>2. Submitting(u)' /\ ~Blocked(u)' /\ EndsBy(u, d, now + Turn(d))' BY <1>1 DEF Goes
<1>3. PICK t : t = (Ends + 1) * Turn(d) OBVIOUS
<1>4. now <= t /\ t \in Nat /\ now \in Nat BY <1>3, StillEarly DEF TimesInv, TimesTyped
<1>5. Turn(d)' = Turn(d) /\ Turn(d) \in Nat BY TurnNumbers DEF Turn
<1>6. (Ends' + 1) * Turn(d) = t + Turn(d)
  <2>1. Ends + 1 \in Nat BY EndsTyped
  <2>2. (Ends + 1 + 1) * Turn(d) = t + Turn(d) BY <1>3, <2>1, TurnNumbers
  <2> QED BY <2>2
<1>7. PICK s : s = (Ends' + 1) * Turn(d) OBVIOUS
<1>8. now + Turn(d) <= s /\ s \in Nat /\ now + Turn(d) \in Nat BY <1>4, <1>5, <1>6, <1>7
<1>9. EndsBy(u, d, s)'
  <2>1. due'[u] \in Nat /\ minedAt'[u] \in Int /\ now' \in Nat
    BY DEF TimesInv, TimesTyped, FlipsTyped, Never
  <2>2. PICK r : r = now + Turn(d) OBVIOUS
  <2>3. EndsBy(u, d, r)' /\ r \in Nat /\ r <= s BY <1>2, <1>5, <1>8, <2>2
  <2> QED BY <1>8, <2>1, <2>3, ClockNumbers DEF EndsBy
<1>10. Goes(u, d, (Ends + 1) * Turn(d))' BY <1>2, <1>5, <1>7, <1>9 DEF Goes
<1> QED BY <1>10

\* Otherwise whoever goes hands over to somebody who does not end later.
LEMMA HandedOver ==
  ASSUME NEW d \in Nat, HangInv(d), Ends' = Ends, SlotLeft' => SlotLeft,
         \A v \in Users : Submitting(v)' => \E x \in Users : Submitting(x),
         \A w \in Users, t \in Nat : Goes(w, d, t) => \E h \in Users : Goes(h, d, t)'
  PROVE  QueueMoves(d)'
<1> SUFFICES ASSUME SlotLeft', NEW v \in Users, Submitting(v)'
             PROVE  \E u \in Users : Goes(u, d, (Ends + 1) * Turn(d))'
  BY DEF QueueMoves
<1>1. PICK w \in Users : Goes(w, d, (Ends + 1) * Turn(d)) BY DEF HangInv, QueueMoves
<1>2. PICK t : t = (Ends + 1) * Turn(d) OBVIOUS
<1>3. Ends + 1 \in Nat BY EndsTyped
<1>4. t \in Nat BY <1>2, <1>3, TurnNumbers
<1>5. PICK h \in Users : Goes(h, d, t)' BY <1>1, <1>2, <1>4
<1>6. Turn(d)' = Turn(d) BY DEF Turn
<1>7. (Ends' + 1) * Turn(d)' = t BY <1>2, <1>6
<1> QED BY <1>5, <1>7

-----------------------------------------------------------------------------
(* Nobody hangs: the steps                                                 *)

\* A session takes a step, and the others stay where they are.
Moves(u) ==
  /\ now' = now /\ left' \in [Users -> Nat] /\ minedAt' \in [Users -> Nat \cup {Never}]
  /\ \A v \in Users \ {u} :
       /\ pc'[v] = pc[v] /\ due'[v] = due[v] /\ left'[v] = left[v] /\ minedAt'[v] = minedAt[v]
       /\ short'[v] = short[v] /\ long'[v] = long[v]

LEMMA OthersInTurn ==
  ASSUME NEW d \in Nat, HangInv(d), NEW u \in Users, Moves(u), NEW v \in Users \ {u}
  PROVE  /\ InTurn(v, d)' /\ Answered(v)'
         /\ (SlotLeft' => SlotLeft) => Early(v, d)'
         /\ v \in Refused' <=> v \in Refused
         /\ Submitting(v)' <=> Submitting(v)
         /\ \A t : EndsBy(v, d, t)' <=> EndsBy(v, d, t)
<1>1. /\ now' = now /\ pc'[v] = pc[v] /\ due'[v] = due[v] /\ left'[v] = left[v]
      /\ minedAt'[v] = minedAt[v] /\ short'[v] = short[v] /\ long'[v] = long[v]
  BY DEF Moves
<1>2. InTurn(v, d) /\ Answered(v) /\ Early(v, d) BY DEF HangInv
<1>3. InTurn(v, d)' BY <1>1, <1>2 DEF InTurn
<1>4. Answered(v)' BY <1>1, <1>2 DEF Answered
<1>5. Latest(d)' = Latest(d) BY DEF Latest, AllFlips, Turn
<1>6. (SlotLeft' => SlotLeft) => Early(v, d)' BY <1>1, <1>2, <1>5 DEF Early
<1>7. v \in Refused' <=> v \in Refused BY <1>1 DEF Refused
<1>8. Submitting(v)' <=> Submitting(v) BY <1>1, <1>7 DEF Submitting
<1>9. \A t : EndsBy(v, d, t)' <=> EndsBy(v, d, t) BY <1>1 DEF EndsBy
<1> QED BY <1>3, <1>4, <1>6, <1>7, <1>8, <1>9

\* What is left to show of a step of one session.
LEMMA MovesKeep ==
  ASSUME NEW d \in Nat, HangInv(d), NEW u \in Users, Moves(u),
         InTurn(u, d)', Answered(u)', Early(u, d)', SlotLeft' => SlotLeft, QueueMoves(d)'
  PROVE  HangInv(d)'
<1>1. FlipsTyped' BY DEF Moves, FlipsTyped
<1>2. \A v \in Users : InTurn(v, d)' /\ Answered(v)' /\ Early(v, d)' BY OthersInTurn
<1> QED BY <1>1, <1>2 DEF HangInv

\* Nobody's flips change.
LEMMA SameFlips ==
  ASSUME NEW d \in Nat, HangInv(d), NEW u \in Users, Moves(u), left' = left,
         u \in Refused' <=> u \in Refused
  PROVE  /\ Refused' = Refused /\ (SlotLeft' <=> SlotLeft) /\ Ends' = Ends
<1>1. \A v \in Users : v \in Refused' <=> v \in Refused BY OthersInTurn
<1>2. Refused' = Refused
  <2>1. Refused \subseteq Users /\ Refused' \subseteq Users BY DEF Refused
  <2> QED BY <1>1, <2>1
<1>3. SlotLeft' <=> SlotLeft BY <1>2 DEF SlotLeft
<1>4. Over' = Over BY DEF Over, AllFlips
<1> QED BY <1>2, <1>3, <1>4 DEF Ends

\* A session without flips to submit goes on, and not to the loop.
LEMMA OutsideKeeps ==
  ASSUME NEW d \in Nat, TimesInv, TimesInv', HangInv(d), NEW u \in Users, Moves(u), UNCHANGED flips,
         left[u] = 0, pc'[u] \notin InLoop, Answered(u)', SlotLeft => Early(u, d)'
  PROVE  HangInv(d)'
<1>1. left' = left /\ taken' = taken /\ minedAt' = minedAt BY DEF flips
<1>2. InTurn(u, d) BY DEF HangInv
<1>3. pc[u] # "mining" BY <1>2 DEF InTurn
<1>4. u \notin Refused /\ u \notin Refused'
  BY <1>3 DEF Refused, InLoop
<1>5. (SlotLeft' <=> SlotLeft) /\ Ends' = Ends BY <1>1, <1>4, SameFlips
<1>6. InTurn(u, d)' BY <1>1, <1>2, <1>3 DEF InTurn, InLoop
<1>7. ~Submitting(u) /\ ~Submitting(u)'
  <2>1. ~(left[u] > 0) OBVIOUS
  <2> QED BY <1>1, <2>1 DEF Submitting
<1>8. QueueMoves(d)'
  <2>1. ASSUME NEW v \in Users, Submitting(v)' PROVE Submitting(v) BY <1>7, <2>1, OthersInTurn
  <2>2. ASSUME NEW w \in Users, NEW t \in Nat, Goes(w, d, t) PROVE Goes(w, d, t)'
    <3>1. w \in Users \ {u} BY <1>7, <2>2 DEF Goes
    <3>2. Submitting(w)' /\ EndsBy(w, d, t)' BY <2>2, <3>1, OthersInTurn DEF Goes
    <3>3. ~Blocked(w)' BY <1>1, <2>2, <3>1 DEF Goes, Blocked, Moves
    <3> QED BY <3>2, <3>3 DEF Goes
  <2> QED BY <1>5, <2>1, <2>2, HandedOver
<1>9. Early(u, d)' BY <1>5 DEF Early
<1> QED BY <1>5, <1>6, <1>8, <1>9, MovesKeep

\* A session goes on at once, or after a pause.
LEMMA FromSoon ==
  ASSUME TimesInv, NEW u \in Users, NEW n \in Nat, NEW p \in Calls, From(u, now + n, p)
  PROVE  /\ pc'[u] = p /\ due'[u] = now + n + Slack
         /\ \A v \in Users \ {u} : pc'[v] = pc[v] /\ due'[v] = due[v]
<1>1. SessionsInv /\ TimesTyped /\ now \in Nat BY DEF TimesInv, TimesTyped
<1>2. now + n \in Int BY <1>1
<1>3. /\ pc'[u] = p /\ due'[u] = wake'[u] + Slack
      /\ wake'[u] >= now + n /\ (wake'[u] = now + n \/ wake'[u] = now)
      /\ wake' \in [Users -> Nat]
      /\ \A v \in Users \ {u} : pc'[v] = pc[v] /\ due'[v] = due[v]
  BY <1>1, <1>2, FromTimes
<1>4. wake'[u] = now + n BY <1>1, <1>3
<1> QED BY <1>3, <1>4

LEMMA FromNow ==
  ASSUME TimesInv, NEW u \in Users, NEW p \in Calls, From(u, now, p)
  PROVE  /\ pc'[u] = p /\ due'[u] = now + Slack
         /\ \A v \in Users \ {u} : pc'[v] = pc[v] /\ due'[v] = due[v]
<1>1. now \in Nat BY DEF TimesInv, TimesTyped
<1>2. now + 0 = now /\ 0 \in Nat BY <1>1
<1>3. From(u, now + 0, p) BY <1>2
<1> QED BY <1>1, <1>2, <1>3, FromSoon, ClockNumbers

\* The times of a session in the loop.
LEMMA LoopTimes ==
  ASSUME NEW d \in Nat, TimesInv, HangInv(d), NEW u \in Users
  PROVE  /\ now \in Nat /\ due[u] \in Nat /\ minedAt[u] \in Int /\ left[u] \in Nat
         /\ pc[u] \in {"flip", "request", "mining", "submitted", "FlipLottery"} => now <= due[u]
         /\ InTurn(u, d) /\ Answered(u) /\ Early(u, d)
         /\ left \in [Users -> Nat] /\ minedAt \in [Users -> Nat \cup {Never}]
BY DEF TimesInv, TimesTyped, OnTime, HangInv, FlipsTyped, Never

\* The loop of submitFlips is over, or its next flip asks for a slot.
LEMMA NextFlipGoes ==
  ASSUME NEW d \in Nat, TimesInv, TimesInv', HangInv(d), NEW u \in Users, NextFlip(u)
  PROVE  HangInv(d)'
<1>1. /\ pc[u] = "flip" /\ UNCHANGED <<now, flips, answers>>
      /\ From(u, now, IF left[u] = 0 THEN "submitted"
                      ELSE IF InARow(u) THEN "request" ELSE "slot")
  BY DEF NextFlip, At
<1>2. /\ now' = now /\ left' = left /\ minedAt' = minedAt /\ taken' = taken
      /\ short' = short /\ long' = long
  BY <1>1 DEF flips, answers
<1>3. /\ now \in Nat /\ due[u] \in Nat /\ left[u] \in Nat /\ now <= due[u]
      /\ InTurn(u, d) /\ Answered(u) /\ Early(u, d)
      /\ left \in [Users -> Nat] /\ minedAt \in [Users -> Nat \cup {Never}]
  BY <1>1, LoopTimes
<1>4. CASE left[u] = 0
  <2>1. From(u, now, "submitted") /\ "submitted" \in Calls BY <1>1, <1>4 DEF Calls
  <2>2. /\ pc'[u] = "submitted" /\ due'[u] = now + Slack
        /\ \A v \in Users \ {u} : pc'[v] = pc[v] /\ due'[v] = due[v]
    BY <2>1, FromNow
  <2>3. Moves(u) BY <1>2, <1>3, <2>2 DEF Moves
  <2>4. Answered(u)' BY <2>2 DEF Answered
  <2>5. SlotLeft => Early(u, d)'
    <3>1. Latest(d)' = Latest(d) BY DEF Latest, AllFlips, Turn
    <3>2. SlotLeft => due[u] <= Latest(d) + Slack BY <1>1, <1>3, <1>4 DEF Early
    <3>3. Latest(d) \in Nat BY TurnNumbers, AllFlipsFinite DEF Latest
    <3>4. SlotLeft => due'[u] <= Latest(d) + 2 * Slack BY <1>3, <2>2, <3>2, <3>3, ClockNumbers
    <3> QED BY <2>2, <3>1, <3>4 DEF Early
  <2> QED BY <1>1, <1>4, <2>2, <2>3, <2>4, <2>5, OutsideKeeps DEF InLoop
<1>5. CASE left[u] # 0
  <2>1. PICK p \in {"request", "slot"} : From(u, now, p) BY <1>1, <1>5
  <2>2. /\ pc'[u] = p /\ due'[u] = now + Slack
        /\ \A v \in Users \ {u} : pc'[v] = pc[v] /\ due'[v] = due[v]
    BY <2>1, FromNow DEF Calls
  <2>3. Moves(u) BY <1>2, <1>3, <2>2 DEF Moves
  <2>4. u \notin Refused /\ u \notin Refused' BY <1>1, <2>2 DEF Refused
  <2>5. (SlotLeft' <=> SlotLeft) /\ Ends' = Ends /\ Refused' = Refused
    BY <1>2, <2>3, <2>4, SameFlips
  <2>6. InTurn(u, d)'
    <3>1. minedAt'[u] = Never /\ left'[u] > 0 /\ left'[u] <= Flips[u]
      BY <1>1, <1>2, <1>3, <1>5 DEF InTurn
    <3>2. due'[u] <= now' + Slack BY <1>2, <1>3, <2>2, ClockNumbers
    <3> QED BY <2>2, <3>1, <3>2 DEF InTurn, InLoop
  <2>7. Answered(u)' /\ Early(u, d)' BY <2>2 DEF Answered, Early
  <2>8. Submitting(u) /\ Submitting(u)' BY <1>1, <1>2, <1>3, <1>5, <2>2, <2>4 DEF Submitting, InLoop
  <2>9. ASSUME NEW t \in Nat, EndsBy(u, d, t)
        PROVE  EndsBy(u, d, t)' /\ now + d + Poll + 3 * Slack <= t
    <3>1. due[u] + d + Poll + 3 * Slack <= t BY <1>1, <2>9 DEF EndsBy
    <3>2. now + d + Poll + 3 * Slack <= t BY <1>3, <3>1, ClockNumbers
    <3> QED BY <1>2, <1>3, <2>2, <3>2, ClockNumbers DEF EndsBy
  <2>10. QueueMoves(d)'
    <3> SUFFICES ASSUME SlotLeft PROVE QueueMoves(d)' BY <2>5 DEF QueueMoves
    <3>1. ASSUME NEW w \in Users, NEW t \in Nat, Goes(w, d, t)
          PROVE  \E h \in Users : Goes(h, d, t)'
      <4>1. CASE w # u
        <5>1. Submitting(w)' /\ EndsBy(w, d, t)' BY <2>3, <3>1, <4>1, OthersInTurn DEF Goes
        <5>2. ~Blocked(w)' BY <1>2, <2>3, <3>1, <4>1 DEF Goes, Blocked, Moves
        <5> QED BY <5>1, <5>2 DEF Goes
      <4>2. CASE w = u /\ ~Blocked(u)' BY <2>8, <2>9, <3>1, <4>2 DEF Goes
      <4>3. CASE w = u /\ Blocked(u)'
        <5>1. PICK h \in Users : h \in Holders' /\ h \notin Refused'
          BY <2>5, <4>3, HolderNext DEF HolderThere, TimesInv
        <5>2. pc'[h] \in {"request", "mining"} BY <5>1 DEF Holders
        <5>3. h # u /\ pc'[u] = "slot" BY <4>3, <5>2 DEF Blocked
        <5>4. pc[h] = pc'[h] /\ h \notin Refused BY <2>3, <2>5, <5>1, <5>3 DEF Moves
        <5>5. /\ now \in Nat /\ due[h] \in Nat /\ minedAt[h] \in Int /\ InTurn(h, d)
          BY LoopTimes
        <5>6. now + d + Poll + 3 * Slack <= t BY <2>9, <3>1, <4>3 DEF Goes
        <5>7. EndsBy(h, d, t)
          <6>1. CASE pc[h] = "request"
            <7>1. due[h] <= now + Slack BY <5>5, <6>1 DEF InTurn
            <7>2. due[h] + d + Poll + Slack <= t BY <5>5, <5>6, <7>1, ClockNumbers
            <7> QED BY <6>1, <7>2 DEF EndsBy
          <6>2. CASE pc[h] = "mining"
            <7>1. due[h] <= now + Poll + Slack /\ minedAt[h] <= now + d BY <5>5, <6>2 DEF InTurn
            <7>2. due[h] <= t /\ minedAt[h] + Poll + Slack <= t BY <5>5, <5>6, <7>1, ClockNumbers
            <7> QED BY <6>2, <7>2 DEF EndsBy
          <6> QED BY <5>2, <5>4, <6>1, <6>2
        <5>8. Submitting(h) BY <5>2, <5>4, <5>5 DEF Submitting, InLoop, InTurn
        <5>9. Submitting(h)' /\ EndsBy(h, d, t)' BY <2>3, <5>3, <5>7, <5>8, OthersInTurn
        <5>10. ~Blocked(h)' BY <5>2 DEF Blocked
        <5> QED BY <5>9, <5>10 DEF Goes
      <4> QED BY <4>1, <4>2, <4>3
    <3>2. \A v \in Users : Submitting(v)' => \E x \in Users : Submitting(x) BY <2>8
    <3> QED BY <2>5, <3>1, <3>2, HandedOver
  <2> QED BY <2>3, <2>5, <2>6, <2>7, <2>10, MovesKeep
<1> QED BY <1>4, <1>5

\* flipsChan <- 1: whoever goes, and finds no slot now, hands over to the one
\* who took it.
LEMMA TakeSlotGoes ==
  ASSUME NEW d \in Nat, TimesInv, HangInv(d), NEW u \in Users, TakeSlot(u)
  PROVE  HangInv(d)'
<1>1. /\ pc[u] = "slot" /\ ~Blocked(u) /\ From(u, now, "request")
      /\ UNCHANGED <<now, left, minedAt, answers>>
  BY DEF TakeSlot, At
<1>2. /\ now' = now /\ left' = left /\ minedAt' = minedAt /\ short' = short /\ long' = long
  BY <1>1 DEF answers
<1>3. /\ now \in Nat /\ left[u] \in Nat /\ InTurn(u, d)
      /\ left \in [Users -> Nat] /\ minedAt \in [Users -> Nat \cup {Never}]
  BY LoopTimes
<1>4. /\ pc'[u] = "request" /\ due'[u] = now + Slack
      /\ \A v \in Users \ {u} : pc'[v] = pc[v] /\ due'[v] = due[v]
  BY <1>1, FromNow DEF Calls
<1>5. Moves(u) BY <1>2, <1>3, <1>4 DEF Moves
<1>6. u \notin Refused /\ u \notin Refused' BY <1>1, <1>4 DEF Refused
<1>7. (SlotLeft' <=> SlotLeft) /\ Ends' = Ends BY <1>2, <1>5, <1>6, SameFlips
<1>8. InTurn(u, d)'
  <2>1. minedAt'[u] = Never /\ left'[u] > 0 /\ left'[u] <= Flips[u] BY <1>1, <1>2, <1>3 DEF InTurn
  <2>2. due'[u] <= now' + Slack BY <1>2, <1>3, <1>4, ClockNumbers
  <2> QED BY <1>4, <2>1, <2>2 DEF InTurn, InLoop
<1>9. Answered(u)' /\ Early(u, d)' BY <1>4 DEF Answered, Early
<1>10. Submitting(u) /\ Submitting(u)' /\ ~Blocked(u)'
  BY <1>1, <1>2, <1>3, <1>4, <1>6 DEF Submitting, InLoop, InTurn, Blocked
<1>11. QueueMoves(d)'
  <2>1. ASSUME NEW w \in Users, NEW t \in Nat, Goes(w, d, t)
        PROVE  \E h \in Users : Goes(h, d, t)'
    <3>1. CASE pc[w] = "slot"
      <4>1. now + d + Poll + 2 * Slack <= t BY <2>1, <3>1 DEF Goes, EndsBy
      <4>2. due'[u] + d + Poll + Slack <= t BY <1>3, <1>4, <4>1, ClockNumbers
      <4>3. EndsBy(u, d, t)' BY <1>4, <4>2 DEF EndsBy
      <4> QED BY <1>10, <4>3 DEF Goes
    <3>2. CASE pc[w] # "slot"
      <4>1. w \in Users \ {u} BY <1>1, <3>2
      <4>2. Submitting(w)' /\ EndsBy(w, d, t)' BY <1>5, <2>1, <4>1, OthersInTurn DEF Goes
      <4>3. ~Blocked(w)' BY <1>4, <3>2, <4>1 DEF Blocked
      <4> QED BY <4>2, <4>3 DEF Goes
    <3> QED BY <3>1, <3>2
  <2>2. \A v \in Users : Submitting(v)' => \E x \in Users : Submitting(x) BY <1>10
  <2> QED BY <1>7, <2>1, <2>2, HandedOver
<1> QED BY <1>5, <1>7, <1>8, <1>9, <1>11, MovesKeep

\* A flip ends: it is counted, and the next turn begins.
LEMMA FlipOverGoes ==
  ASSUME NEW d \in Nat, TimesInv, TimesInv', HangInv(d), NEW u \in Users, FlipOver(u),
         pc[u] \in {"request", "mining"}, u \notin Refused,
         UNCHANGED <<now, answers>>, minedAt' \in [Users -> Nat \cup {Never}],
         minedAt'[u] = Never, \A v \in Users \ {u} : minedAt'[v] = minedAt[v]
  PROVE  HangInv(d)'
<1>1. /\ now \in Nat /\ left[u] \in Nat /\ InTurn(u, d) /\ left \in [Users -> Nat]
  BY LoopTimes
<1>2. left[u] > 0 /\ left[u] <= Flips[u] /\ Flips[u] \in Nat
  BY <1>1, CeremonyAssumption DEF InTurn
<1>3. From(u, now, "flip") /\ left' = [left EXCEPT ![u] = @ - 1] BY DEF FlipOver
<1>4. /\ left' \in [Users -> Nat] /\ left'[u] = left[u] - 1
      /\ \A v \in Users \ {u} : left'[v] = left[v]
  BY <1>1, <1>2, <1>3
<1>5. /\ pc'[u] = "flip" /\ due'[u] = now + Slack
      /\ \A v \in Users \ {u} : pc'[v] = pc[v] /\ due'[v] = due[v]
  BY <1>3, FromNow DEF Calls
<1>6. Moves(u) BY <1>4, <1>5 DEF Moves, answers
<1>7. Refused' = Refused
  <2>1. u \notin Refused' BY <1>5 DEF Refused
  <2>2. \A v \in Users : v \in Refused' <=> v \in Refused BY <1>6, <2>1, OthersInTurn
  <2>3. Refused \subseteq Users /\ Refused' \subseteq Users BY DEF Refused
  <2> QED BY <2>2, <2>3
<1>8. SlotLeft' <=> SlotLeft BY <1>7 DEF SlotLeft
<1>9. Ends' = Ends + 1
  <2>1. FlipsTyped BY DEF HangInv
  <2>2. Cardinality(Over)' = Cardinality(Over) + 1 BY <1>2, <1>3, <2>1, FlipCounted
  <2> QED BY <1>7, <2>2, OverFinite, RefusedFinite DEF Ends
<1>10. InTurn(u, d)'
  <2>1. due'[u] <= now' + Slack BY <1>1, <1>5, ClockNumbers
  <2>2. left'[u] <= Flips[u] BY <1>1, <1>2, <1>4
  <2> QED BY <1>5, <2>1, <2>2 DEF InTurn, InLoop
<1>11. Answered(u)' BY <1>5 DEF Answered
<1>12. Submitting(u) BY <1>2 DEF Submitting, InLoop
<1>13. Early(u, d)'
  <2> SUFFICES ASSUME SlotLeft PROVE Early(u, d)' BY <1>8 DEF Early
  <2>1. PICK t : t = (Ends + 1) * Turn(d) OBVIOUS
  <2>2. Latest(d)' = Latest(d) BY DEF Latest, AllFlips, Turn
  <2>3. Latest(d) \in Nat BY TurnNumbers, AllFlipsFinite DEF Latest
  <2>4. now <= t /\ t <= Latest(d) /\ t \in Nat BY <1>12, <2>1, StillEarly DEF Latest
  <2>5. due'[u] <= Latest(d) + Slack BY <1>1, <1>5, <2>3, <2>4, ClockNumbers
  <2> QED BY <1>5, <2>2, <2>5 DEF Early
<1>14. QueueMoves(d)'
  <2> SUFFICES ASSUME SlotLeft PROVE QueueMoves(d)' BY <1>8 DEF QueueMoves
  <2>1. FlipsTyped' BY <1>4 DEF FlipsTyped
  <2>2. \A v \in Users : InTurn(v, d)' BY <1>6, <1>10, OthersInTurn
  <2> QED BY <1>9, <1>12, <2>1, <2>2, NextTurn
<1> QED BY <1>6, <1>8, <1>10, <1>11, <1>13, <1>14, MovesKeep

\* A session goes on to poll for its flip, or polls again.
LEMMA PollingGoes ==
  ASSUME NEW d \in Nat, TimesInv, HangInv(d), NEW u \in Users, pc[u] \in {"request", "mining"},
         From(u, now + Poll, "mining"), UNCHANGED <<now, left, taken, answers>>,
         minedAt' \in [Users -> Nat \cup {Never}], minedAt'[u] <= now + d,
         \A v \in Users \ {u} : minedAt'[v] = minedAt[v],
         u \in Refused' <=> u \in Refused,
         \A t \in Nat : Goes(u, d, t) => now + Poll + Slack <= t /\ minedAt'[u] + Poll + Slack <= t
  PROVE  HangInv(d)'
<1>1. /\ now \in Nat /\ left[u] \in Nat /\ InTurn(u, d) /\ left \in [Users -> Nat]
  BY LoopTimes
<1>2. /\ pc'[u] = "mining" /\ due'[u] = now + Poll + Slack
      /\ \A v \in Users \ {u} : pc'[v] = pc[v] /\ due'[v] = due[v]
  BY FromSoon, ClockNumbers DEF Calls
<1>3. Moves(u) BY <1>1, <1>2 DEF Moves, answers
<1>4. Refused' = Refused /\ (SlotLeft' <=> SlotLeft) /\ Ends' = Ends BY <1>3, SameFlips
<1>5. InTurn(u, d)'
  <2>1. left'[u] > 0 /\ left'[u] <= Flips[u] BY <1>1 DEF InTurn
  <2>2. due'[u] <= now' + Poll + Slack BY <1>1, <1>2, ClockNumbers
  <2> QED BY <1>2, <2>1, <2>2 DEF InTurn, InLoop
<1>6. Answered(u)' /\ Early(u, d)' BY <1>2 DEF Answered, Early
<1>7. Submitting(u)' <=> Submitting(u) BY <1>1, <1>2, <1>4 DEF Submitting, InLoop
<1>8. QueueMoves(d)'
  <2>1. ASSUME NEW w \in Users, NEW t \in Nat, Goes(w, d, t) PROVE Goes(w, d, t)'
    <3>1. CASE w = u
      <4>1. EndsBy(u, d, t)' BY <1>2, <2>1, <3>1 DEF EndsBy
      <4>2. Submitting(u)' /\ ~Blocked(u)' BY <1>2, <1>7, <2>1, <3>1 DEF Goes, Blocked
      <4> QED BY <3>1, <4>1, <4>2 DEF Goes
    <3>2. CASE w # u
      <4>1. Submitting(w)' /\ EndsBy(w, d, t)' BY <1>3, <2>1, <3>2, OthersInTurn DEF Goes
      <4>2. ~Blocked(w)' BY <1>2, <2>1, <3>2 DEF Goes, Blocked
      <4> QED BY <4>1, <4>2 DEF Goes
    <3> QED BY <3>1, <3>2
  <2>2. \A v \in Users : Submitting(v)' => Submitting(v) BY <1>3, <1>7, OthersInTurn
  <2> QED BY <1>4, <2>1, <2>2, HandedOver
<1> QED BY <1>3, <1>4, <1>5, <1>6, <1>8, MovesKeep

\* u.SubmitFlip is answered: its flip is mined within the longest time, or
\* nobody waits for it.
LEMMA SubmitFlipGoes ==
  ASSUME NEW d \in Nat, FlipsFit(d), TimesInv, TimesInv', HangInv(d), NEW u \in Users,
         SubmitFlip(u)
  PROVE  HangInv(d)'
<1>1. pc[u] = "request" /\ UNCHANGED <<now, answers>> BY DEF SubmitFlip, At
<1>2. /\ now \in Nat /\ due[u] \in Nat /\ now <= due[u] /\ InTurn(u, d)
      /\ minedAt \in [Users -> Nat \cup {Never}]
  BY <1>1, LoopTimes
<1>3. u \notin Refused /\ minedAt[u] = Never BY <1>1, <1>2 DEF Refused, InTurn
<1>4. CASE Awaited(u)
  <2>1. PICK b \in Blocks : minedAt' = [minedAt EXCEPT ![u] = now + b] BY <1>4 DEF SubmitFlip
  <2>2. From(u, now + Poll, "mining") /\ UNCHANGED <<left, taken>> BY <1>4 DEF SubmitFlip
  <2>3. b \in Nat /\ b <= d BY CeremonyAssumption DEF FlipsFit
  <2>4. /\ minedAt' \in [Users -> Nat \cup {Never}] /\ minedAt'[u] = now + b
        /\ \A v \in Users \ {u} : minedAt'[v] = minedAt[v]
    BY <1>2, <2>1, <2>3
  <2>5. minedAt'[u] <= now + d BY <1>2, <2>3, <2>4
  <2>6. u \notin Refused' BY <1>2, <2>3, <2>4 DEF Refused, Never
  <2>7. ASSUME NEW t \in Nat, Goes(u, d, t)
        PROVE  now + Poll + Slack <= t /\ minedAt'[u] + Poll + Slack <= t
    <3>1. due[u] + d + Poll + Slack <= t BY <1>1, <2>7 DEF Goes, EndsBy
    <3> QED BY <1>2, <2>3, <2>4, <3>1, ClockNumbers
  <2> QED BY <1>1, <1>3, <2>2, <2>4, <2>5, <2>6, <2>7, PollingGoes
<1>5. CASE ~Awaited(u)
  <2>1. FlipOver(u) /\ minedAt' = minedAt BY <1>5 DEF SubmitFlip
  <2> QED BY <1>1, <1>2, <1>3, <2>1, FlipOverGoes
<1> QED BY <1>4, <1>5

\* u.SubmitFlip fails: a session that waits for the flip waits for ever, and
\* the turn is over as well.
LEMMA SubmitFlipFailsGoes ==
  ASSUME NEW d \in Nat, TimesInv, TimesInv', HangInv(d), NEW u \in Users, SubmitFlipFails(u)
  PROVE  HangInv(d)'
<1>1. pc[u] = "request" /\ UNCHANGED <<now, minedAt, answers>> BY DEF SubmitFlipFails, At
<1>2. /\ now \in Nat /\ left[u] \in Nat /\ InTurn(u, d) /\ left \in [Users -> Nat]
      /\ minedAt \in [Users -> Nat \cup {Never}]
  BY <1>1, LoopTimes
<1>3. u \notin Refused /\ minedAt[u] = Never BY <1>1, <1>2 DEF Refused, InTurn
<1>4. CASE ~Awaited(u)
  <2>1. FlipOver(u) BY <1>4 DEF SubmitFlipFails
  <2> QED BY <1>1, <1>2, <1>3, <2>1, FlipOverGoes
<1>5. CASE Awaited(u)
  <2>1. From(u, now + Poll, "mining") /\ left' = left BY <1>5 DEF SubmitFlipFails
  <2>2. /\ pc'[u] = "mining" /\ due'[u] = now + Poll + Slack
        /\ \A v \in Users \ {u} : pc'[v] = pc[v] /\ due'[v] = due[v]
    BY <2>1, FromSoon, ClockNumbers DEF Calls
  <2>3. Moves(u) BY <1>1, <1>2, <2>1, <2>2 DEF Moves, answers
  <2>4. InTurn(u, d)'
    <3>1. left'[u] > 0 /\ left'[u] <= Flips[u] BY <1>1, <1>2, <2>1 DEF InTurn
    <3>2. due'[u] <= now' + Poll + Slack /\ minedAt'[u] <= now' + d
      BY <1>1, <1>2, <1>3, <2>2, ClockNumbers DEF Never
    <3> QED BY <2>2, <3>1, <3>2 DEF InTurn, InLoop
  <2>5. Answered(u)' /\ Early(u, d)' BY <2>2 DEF Answered, Early
  <2>6. Refused' = Refused \cup {u}
    <3>1. \A v \in Users : v \in Refused' <=> v \in Refused \cup {u}
      <4>1. u \in Refused' BY <1>1, <1>3, <2>2 DEF Refused
      <4> QED BY <2>3, <4>1, OthersInTurn
    <3>2. Refused \subseteq Users /\ Refused' \subseteq Users BY DEF Refused
    <3> QED BY <3>1, <3>2
  <2>7. Cardinality(Refused)' = Cardinality(Refused) + 1
    BY <1>3, <2>6, RefusedFinite, FS_AddElement
  <2>8. SlotLeft' => SlotLeft
    <3>1. Slots \in Nat BY CeremonyAssumption
    <3> QED BY <2>7, <3>1, RefusedFinite DEF SlotLeft
  <2>9. Over' = Over BY <2>1 DEF Over, AllFlips
  <2>10. Ends' = Ends + 1 BY <2>7, <2>9, OverFinite, RefusedFinite DEF Ends
  <2>11. QueueMoves(d)'
    <3> SUFFICES ASSUME SlotLeft PROVE QueueMoves(d)' BY <2>8 DEF QueueMoves
    <3>1. FlipsTyped' BY <1>1, <1>2, <2>1 DEF FlipsTyped
    <3>2. \A v \in Users : InTurn(v, d)' BY <2>3, <2>4, OthersInTurn
    <3>3. Submitting(u) BY <1>1, <1>2, <1>3 DEF Submitting, InLoop, InTurn
    <3> QED BY <1>1, <2>10, <3>1, <3>2, <3>3, NextTurn
  <2> QED BY <2>3, <2>4, <2>5, <2>8, <2>11, MovesKeep
<1> QED BY <1>4, <1>5

\* The identity has the flip, or is asked again before long.
LEMMA WaitForFlipGoes ==
  ASSUME NEW d \in Nat, TimesInv, TimesInv', HangInv(d), NEW u \in Users, WaitForFlip(u)
  PROVE  HangInv(d)'
<1>1. pc[u] = "mining" /\ UNCHANGED <<now, answers>> BY DEF WaitForFlip, At
<1>2. /\ now \in Nat /\ minedAt[u] \in Int /\ InTurn(u, d)
      /\ minedAt \in [Users -> Nat \cup {Never}]
  BY <1>1, LoopTimes
<1>3. CASE Mined(u)
  <2>1. FlipOver(u) /\ minedAt' = [minedAt EXCEPT ![u] = Never] BY <1>3 DEF WaitForFlip
  <2>2. u \notin Refused BY <1>3 DEF Refused, Mined
  <2>3. /\ minedAt' \in [Users -> Nat \cup {Never}] /\ minedAt'[u] = Never
        /\ \A v \in Users \ {u} : minedAt'[v] = minedAt[v]
    BY <1>2, <2>1
  <2> QED BY <1>1, <2>1, <2>2, <2>3, FlipOverGoes
<1>4. CASE ~Mined(u)
  <2>1. From(u, now + Poll, "mining") /\ UNCHANGED <<left, taken, minedAt>>
    BY <1>1, <1>4 DEF WaitForFlip, Retry
  <2>2. pc'[u] = "mining" BY <2>1, FromSoon, ClockNumbers DEF Calls
  <2>3. u \in Refused' <=> u \in Refused BY <1>1, <2>1, <2>2 DEF Refused
  <2>4. minedAt'[u] <= now + d BY <1>1, <1>2, <2>1 DEF InTurn
  <2>5. ASSUME NEW t \in Nat, Goes(u, d, t)
        PROVE  now + Poll + Slack <= t /\ minedAt'[u] + Poll + Slack <= t
    <3>1. minedAt[u] + Poll + Slack <= t BY <1>1, <2>5 DEF Goes, EndsBy
    <3>2. now < minedAt[u]
      <4>1. minedAt[u] # Never BY <1>1, <2>5 DEF Goes, Submitting, Refused
      <4> QED BY <1>2, <1>4, <4>1 DEF Mined
    <3> QED BY <1>2, <2>1, <3>1, <3>2, ClockNumbers
  <2> QED BY <1>1, <1>2, <2>1, <2>3, <2>4, <2>5, PollingGoes
<1> QED BY <1>3, <1>4

\* Time goes on: whoever may take a step takes it before it is due.
LEMMA TickGoes ==
  ASSUME NEW d \in Nat, TimesInv, HangInv(d), Tick
  PROVE  HangInv(d)'
<1>1. now' = now + 1 /\ UNCHANGED <<pc, due, left, minedAt, taken, short, long>>
  BY DEF Tick, flips, answers
<1>2. FlipsTyped' BY <1>1 DEF HangInv, FlipsTyped
<1>3. Refused' = Refused /\ Over' = Over BY <1>1 DEF Refused, Over, AllFlips
<1>4. (SlotLeft' <=> SlotLeft) /\ Ends' = Ends BY <1>3 DEF SlotLeft, Ends
<1>5. Latest(d)' = Latest(d) BY DEF Latest, AllFlips, Turn
<1>6. ASSUME NEW v \in Users
      PROVE  InTurn(v, d)' /\ Answered(v)' /\ Early(v, d)' /\ (Submitting(v)' <=> Submitting(v))
  <2>1. /\ now \in Nat /\ due[v] \in Nat /\ minedAt[v] \in Int
        /\ InTurn(v, d) /\ Answered(v) /\ Early(v, d)
    BY LoopTimes
  <2>2. InTurn(v, d)' BY <1>1, <2>1, ClockNumbers DEF InTurn
  <2>3. Answered(v)' BY <1>1, <2>1 DEF Answered
  <2>4. Early(v, d)' BY <1>1, <1>4, <1>5, <2>1 DEF Early
  <2>5. Submitting(v)' <=> Submitting(v) BY <1>1, <1>3 DEF Submitting
  <2> QED BY <2>2, <2>3, <2>4, <2>5
<1>7. QueueMoves(d)'
  <2>1. ASSUME NEW w \in Users, NEW t \in Nat, Goes(w, d, t) PROVE Goes(w, d, t)'
    <3>1. Submitting(w)' /\ ~Blocked(w)' BY <1>1, <1>6, <2>1 DEF Goes, Blocked
    <3>2. now \in Nat /\ due[w] \in Nat BY LoopTimes
    <3>3. pc[w] = "slot" => now < due[w] BY <2>1 DEF Tick, Goes
    <3>4. EndsBy(w, d, t) BY <2>1 DEF Goes
    <3>5. pc[w] = "slot" => now' + d + Poll + 2 * Slack <= t
      <4> SUFFICES ASSUME pc[w] = "slot" PROVE now' + d + Poll + 2 * Slack <= t OBVIOUS
      <4>1. due[w] + d + Poll + 2 * Slack <= t BY <3>4 DEF EndsBy
      <4> QED BY <1>1, <3>2, <3>3, <4>1, ClockNumbers
    <3>6. EndsBy(w, d, t)' BY <1>1, <3>4, <3>5 DEF EndsBy
    <3> QED BY <3>1, <3>6 DEF Goes
  <2> QED BY <1>4, <1>6, <2>1, HandedOver
<1> QED BY <1>2, <1>6, <1>7 DEF HangInv

\* No session takes a step.
LEMMA NobodyGoes ==
  ASSUME NEW d \in Nat, HangInv(d), UNCHANGED <<now, pc, due, flips, answers>>
  PROVE  HangInv(d)'
<1>1. UNCHANGED <<now, pc, due, left, minedAt, taken, short, long>> BY DEF flips, answers
<1>2. FlipsTyped' BY <1>1 DEF HangInv, FlipsTyped
<1>3. Refused' = Refused /\ Over' = Over BY <1>1 DEF Refused, Over, AllFlips
<1>4. (SlotLeft' <=> SlotLeft) /\ Ends' = Ends BY <1>3 DEF SlotLeft, Ends
<1>5. Latest(d)' = Latest(d) BY DEF Latest, AllFlips, Turn
<1>6. ASSUME NEW v \in Users
      PROVE  InTurn(v, d)' /\ Answered(v)' /\ Early(v, d)' /\ (Submitting(v)' <=> Submitting(v))
  <2>1. InTurn(v, d) /\ Answered(v) /\ Early(v, d) BY DEF HangInv
  <2>2. InTurn(v, d)' BY <1>1, <2>1 DEF InTurn
  <2>3. Answered(v)' BY <1>1, <2>1 DEF Answered
  <2>4. Early(v, d)' BY <1>1, <1>4, <1>5, <2>1 DEF Early
  <2>5. Submitting(v)' <=> Submitting(v) BY <1>1, <1>3 DEF Submitting
  <2> QED BY <2>2, <2>3, <2>4, <2>5
<1>7. QueueMoves(d)'
  <2>1. ASSUME NEW w \in Users, NEW t \in Nat, Goes(w, d, t) PROVE Goes(w, d, t)'
    BY <1>1, <1>6, <2>1 DEF Goes, Blocked, EndsBy
  <2> QED BY <1>4, <1>6, <2>1, HandedOver
<1> QED BY <1>2, <1>6, <1>7 DEF HangInv

\* A session past its flips goes on.
LEMMA PastFlipsGoes ==
  ASSUME NEW d \in Nat, TimesInv, TimesInv', HangInv(d), NEW u \in Users, pc[u] \notin InLoop,
         NEW t \in Int, NEW p \in Calls, p \notin InLoop, From(u, t, p), UNCHANGED <<now, flips>>,
         \A v \in Users \ {u} : short'[v] = short[v] /\ long'[v] = long[v],
         Answered(u)', SlotLeft => Early(u, d)'
  PROVE  HangInv(d)'
<1>1. /\ left[u] = 0 /\ left \in [Users -> Nat] /\ minedAt \in [Users -> Nat \cup {Never}]
  BY LoopTimes DEF InTurn
<1>2. left' = left /\ minedAt' = minedAt BY DEF flips
<1>3. pc'[u] = p /\ \A v \in Users \ {u} : pc'[v] = pc[v] /\ due'[v] = due[v]
  BY FromTimes DEF TimesInv
<1>4. Moves(u) BY <1>1, <1>2, <1>3 DEF Moves
<1> QED BY <1>1, <1>3, <1>4, OutsideKeeps

\* provideDelayedFlipKeyIfNeeded: all but the stopped users wait for the
\* lottery before it ends.
LEMMA ProvideGoes ==
  ASSUME NEW d \in Nat, FlipsFit(d), TimesInv, TimesInv', HangInv(d), NEW u \in Users,
         ProvideDelayedFlipKey(u)
  PROVE  HangInv(d)'
<1>1. pc[u] = "submitted" /\ UNCHANGED <<now, flips, answers>> BY DEF ProvideDelayedFlipKey, At
<1>2. now \in Nat /\ due[u] \in Nat /\ now <= due[u] /\ Early(u, d) BY <1>1, LoopTimes
<1>3. "FlipLottery" \in Calls /\ "FlipLottery" \notin InLoop /\ pc[u] \notin InLoop
  BY <1>1 DEF Calls, InLoop
<1>4. now \in Int /\ Start + KeyDelay + Mining \in Int BY <1>2, ClockNumbers
<1>5. \E t \in Int : From(u, t, "FlipLottery") BY <1>4 DEF ProvideDelayedFlipKey
<1>6. pc'[u] = "FlipLottery" BY <1>3, <1>5, FromTimes DEF TimesInv
<1>7. SlotLeft => Early(u, d)'
  <2> SUFFICES ASSUME SlotLeft, u \notin Delayed PROVE due'[u] < Start BY <1>6 DEF Early
  <2>1. From(u, now, "FlipLottery") BY DEF ProvideDelayedFlipKey
  <2>2. due'[u] = now + Slack BY <1>3, <2>1, FromNow
  <2>3. due[u] <= Latest(d) + 2 * Slack BY <1>1, <1>2 DEF Early
  <2>4. Latest(d) \in Nat BY TurnNumbers, AllFlipsFinite DEF Latest
  <2>5. Latest(d) + 3 * Slack < Start BY DEF FlipsFit, Latest
  <2> QED BY <1>2, <2>2, <2>3, <2>4, <2>5, ClockNumbers
<1>8. Answered(u)' BY <1>6 DEF Answered
<1>9. \A v \in Users \ {u} : short'[v] = short[v] /\ long'[v] = long[v] BY <1>1 DEF answers
<1> QED BY <1>1, <1>3, <1>5, <1>7, <1>8, <1>9, PastFlipsGoes

\* waitForPeriod: no period is missed.
LEMMA WaitGoes ==
  ASSUME NEW d \in Nat, FlipsFit(d), ScheduleFits, TimesInv, TimesInv', HangInv(d), NEW u \in Users,
         NEW p \in {"FlipLottery", "ShortSession", "LongSession", "None"}, WaitForPeriod(u, p)
  PROVE  HangInv(d)'
<1>1. /\ now \in Nat /\ due[u] \in Nat /\ pc[u] = p /\ now <= due[u] /\ Timely(u)
  BY AtTimes DEF WaitForPeriod
<1>2. UNCHANGED <<now, flips, answers>> BY DEF WaitForPeriod
<1>3. InTurn(u, d) /\ Answered(u) /\ Early(u, d) BY LoopTimes
<1>4. /\ short' = short /\ long' = long BY <1>2 DEF answers
<1>5. now \in Int /\ now + Poll \in Int BY <1>1, ClockNumbers
<1>6. CASE Period(now) # p
  <2>1. From(u, now + Poll, p) BY <1>1, <1>6 DEF WaitForPeriod, Retry
  <2>2. p \in Calls /\ p \notin InLoop BY DEF Calls, InLoop
  <2>3. pc'[u] = p /\ due'[u] = now + Poll + Slack BY <2>1, <2>2, FromSoon, ClockNumbers
  <2>4. Answered(u)'
    <3>1. p = "None" => due'[u] < End + Poll + Slack
      BY <1>1, <1>6, <2>3, Periods, ClockNumbers
    <3> QED BY <1>1, <1>3, <1>4, <2>3, <3>1 DEF Answered
  <2>5. SlotLeft => Early(u, d)'
    <3> SUFFICES ASSUME SlotLeft, p = "FlipLottery", u \notin Delayed PROVE due'[u] < Start
      BY <2>3 DEF Early
    <3>1. due[u] < Start BY <1>1, <1>3 DEF Early
    <3>2. now < Lottery BY <1>1, <1>6, <3>1, Periods, ClockNumbers
    <3>3. Lottery + Poll + Slack <= Start BY DEF FlipsFit
    <3> QED BY <1>1, <2>3, <3>2, <3>3, ClockNumbers
  <2> QED BY <1>1, <1>2, <1>4, <1>5, <2>1, <2>2, <2>4, <2>5, PastFlipsGoes
<1>7. CASE Period(now) = p
  <2>1. PICK q : q = AfterPeriod(u, p) OBVIOUS
  <2>2. From(u, now, q) BY <1>7, <2>1 DEF WaitForPeriod
  <2>3. /\ q \in {"private", "None", "shortHashes", "open", "done"}
        /\ q = "open" => p = "LongSession"
        /\ q = "None" => p = "ShortSession" /\ u \in Skippers
        /\ q = "done" => p = "None"
    BY <2>1 DEF AfterPeriod
  <2>4. q \in Calls /\ q \notin InLoop /\ p \notin InLoop BY <2>3 DEF Calls, InLoop
  <2>5. pc'[u] = q /\ due'[u] = now + Slack BY <2>2, <2>4, FromNow
  <2>6. Answered(u)'
    <3>1. q = "None" => due'[u] < End + Poll + Slack
      BY <1>1, <1>7, <2>3, <2>5, Periods, ClockNumbers
    <3>2. q = "open" => short'[u] # "never" BY <1>1, <1>3, <1>4, <2>3 DEF Answered
    <3>3. q = "done" /\ u \notin Skippers => short'[u] # "never" /\ long'[u] # "never"
      BY <1>1, <1>3, <1>4, <2>3 DEF Answered
    <3> QED BY <2>3, <2>5, <3>1, <3>2, <3>3 DEF Answered
  <2>7. Early(u, d)' BY <2>3, <2>5 DEF Early
  <2> QED BY <1>1, <1>2, <1>4, <1>5, <2>2, <2>4, <2>6, <2>7, PastFlipsGoes
<1> QED BY <1>6, <1>7

\* The keys, and the hashes of the flips.
LEMMA LoadingGoes ==
  ASSUME NEW d \in Nat, TimesInv, TimesInv', HangInv(d), NEW u \in Users,
         \/ SendPrivate(u) \/ PrivateFails(u) \/ SendPublic(u)
         \/ GetShortHashes(u) \/ GetLongHashes(u)
  PROVE  HangInv(d)'
<1>1. UNCHANGED <<now, flips, answers>>
  BY DEF SendPrivate, PrivateFails, SendPublic, GetShortHashes, GetLongHashes
<1>2. now \in Nat /\ longAt[u] \in Nat /\ Answered(u)
  BY LoopTimes DEF TimesInv, TimesTyped
<1>3. now \in Int /\ now + Poll \in Int /\ Start \in Int /\ Finish - Lead \in Int /\ longAt[u] \in Int
  BY <1>2, ClockNumbers
<1>4. PICK t \in Int, p \in {"private", "public", "ShortSession", "shortHashes", "answerShort",
                             "longHashes", "answerLong"} :
        /\ From(u, t, p) /\ pc[u] \notin InLoop
        /\ p \in {"longHashes", "answerLong"} => pc[u] = "longHashes"
  <2>1. CASE SendPrivate(u) BY <1>3, <2>1 DEF SendPrivate, At, InLoop
  <2>2. CASE PrivateFails(u) BY <1>3, <2>2 DEF PrivateFails, At, Retry, InLoop
  <2>3. CASE SendPublic(u) BY <1>3, <2>3 DEF SendPublic, At, InLoop
  <2>4. CASE GetShortHashes(u)
    BY <1>3, <2>4 DEF GetShortHashes, AnswerShortAt, At, Retry, InLoop
  <2>5. CASE GetLongHashes(u) BY <1>3, <2>5 DEF GetLongHashes, At, Retry, InLoop
  <2> QED BY <2>1, <2>2, <2>3, <2>4, <2>5
<1>5. p \in Calls /\ p \notin InLoop BY <1>4 DEF Calls, InLoop
<1>6. pc'[u] = p BY <1>4, <1>5, FromTimes DEF TimesInv
<1>7. Answered(u)' BY <1>1, <1>2, <1>4, <1>6 DEF Answered, answers
<1>8. Early(u, d)' BY <1>4, <1>6 DEF Early
<1>9. \A v \in Users \ {u} : short'[v] = short[v] /\ long'[v] = long[v] BY <1>1 DEF answers
<1> QED BY <1>1, <1>4, <1>5, <1>7, <1>8, <1>9, PastFlipsGoes

\* submitAnswers: answers are sent, although they may fail.
LEMMA AnswerGoes ==
  ASSUME NEW d \in Nat, TimesInv, TimesInv', HangInv(d), NEW u \in Users,
         SubmitShort(u) \/ SubmitOpenShort(u) \/ SubmitLong(u)
  PROVE  HangInv(d)'
<1>1. UNCHANGED <<now, flips>> BY DEF SubmitShort, SubmitOpenShort, SubmitLong
<1>2. /\ now \in Nat /\ due[u] \in Nat /\ Answered(u)
      /\ short \in [Users -> Outcomes \cup {"never"}] /\ long \in [Users -> Outcomes \cup {"never"}]
  BY LoopTimes DEF TimesInv, TimesTyped
<1>3. "never" \notin Outcomes BY DEF Outcomes
<1>4. now \in Int BY <1>2
<1>5. PICK p \in {"LongSession", "longHashes", "None"} : From(u, now, p)
  BY DEF SubmitShort, SubmitOpenShort, SubmitLong
<1>6. p \in Calls /\ p \notin InLoop BY DEF Calls, InLoop
<1>7. pc'[u] = p /\ due'[u] = now + Slack BY <1>5, <1>6, FromNow
<1>8. Early(u, d)' BY <1>7 DEF Early
<1>9. CASE SubmitShort(u)
  <2>1. pc[u] = "answerShort" /\ From(u, now, "LongSession") /\ long' = long
    BY <1>9 DEF SubmitShort, At
  <2>2. PICK o \in Outcomes : short' = [short EXCEPT ![u] = o] BY <1>9 DEF SubmitShort
  <2>3. short'[u] # "never" /\ \A v \in Users \ {u} : short'[v] = short[v]
    BY <1>2, <1>3, <2>2
  <2>4. pc'[u] = "LongSession" BY <2>1, FromNow DEF Calls
  <2>5. Answered(u)' BY <2>3, <2>4 DEF Answered
  <2>6. pc[u] \notin InLoop BY <2>1 DEF InLoop
  <2> QED BY <1>1, <1>4, <1>5, <1>6, <1>8, <2>1, <2>3, <2>5, <2>6, PastFlipsGoes
<1>10. CASE SubmitOpenShort(u)
  <2>1. pc[u] = "open" /\ From(u, now, "longHashes") /\ short' = short /\ long' = long
    BY <1>10 DEF SubmitOpenShort, At
  <2>2. pc'[u] = "longHashes" BY <2>1, FromNow DEF Calls
  <2>3. Answered(u)' BY <1>2, <2>1, <2>2 DEF Answered
  <2>4. pc[u] \notin InLoop BY <2>1 DEF InLoop
  <2> QED BY <1>1, <1>4, <1>5, <1>6, <1>8, <2>1, <2>3, <2>4, PastFlipsGoes
<1>11. CASE SubmitLong(u)
  <2>1. pc[u] = "answerLong" /\ From(u, now, "None") /\ short' = short
    BY <1>11 DEF SubmitLong, At
  <2>2. PICK o \in Outcomes : long' = [long EXCEPT ![u] = o] BY <1>11 DEF SubmitLong
  <2>3. long'[u] # "never" /\ \A v \in Users \ {u} : long'[v] = long[v]
    BY <1>2, <1>3, <2>2
  <2>4. pc'[u] = "None" BY <2>1, FromNow DEF Calls
  <2>5. now < LongEnd
    <3>1. OnTime(u) /\ Timely(u) BY DEF TimesInv
    <3> QED BY <1>2, <2>1, <3>1, ClockNumbers DEF OnTime, Timely
  <2>6. due'[u] < End + Poll + Slack BY <1>2, <1>7, <2>5, ClockNumbers
  <2>7. Answered(u)' BY <1>2, <2>1, <2>3, <2>4, <2>6 DEF Answered
  <2>8. pc[u] \notin InLoop BY <2>1 DEF InLoop
  <2> QED BY <1>1, <1>4, <1>5, <1>6, <1>8, <2>1, <2>3, <2>7, <2>8, PastFlipsGoes
<1> QED BY <1>9, <1>10, <1>11

LEMMA HangInitially == ASSUME NEW d \in Nat, Init PROVE HangInv(d)
<1>1. Flips \in [Users -> Nat] BY CeremonyAssumption
<1>2. FlipsTyped BY <1>1 DEF Init, FlipsTyped
<1>3. \A u \in Users : InTurn(u, d) BY <1>1, ClockNumbers DEF Init, InTurn, InLoop
<1>4. \A u \in Users : Answered(u) BY DEF Init, Answered
<1>5. \A u \in Users : Early(u, d)
  <2>1. Latest(d) \in Nat BY TurnNumbers, AllFlipsFinite DEF Latest
  <2>2. Slack <= Latest(d) + Slack BY <2>1, ClockNumbers
  <2> QED BY <2>2 DEF Init, Early
<1>6. QueueMoves(d)
  <2> SUFFICES ASSUME NEW v \in Users, Submitting(v) PROVE Goes(v, d, (Ends + 1) * Turn(d))
    BY DEF QueueMoves
  <2>1. PICK t : t = (Ends + 1) * Turn(d) OBVIOUS
  <2>2. t \in Nat /\ d + Poll + 4 * Slack <= t
    <3>1. PICK s : s = Ends * Turn(d) OBVIOUS
    <3>2. s \in Nat /\ Turn(d) \in Nat /\ Turn(d) = d + Poll + 4 * Slack /\ t = s + Turn(d)
      BY <2>1, <3>1, EndsTyped, TurnNumbers
    <3> QED BY <3>2, ClockNumbers
  <2>3. EndsBy(v, d, t) BY <2>2, ClockNumbers DEF Init, EndsBy
  <2>4. ~Blocked(v) BY DEF Init, Blocked
  <2> QED BY <2>1, <2>3, <2>4 DEF Goes
<1> QED BY <1>2, <1>3, <1>4, <1>5, <1>6 DEF HangInv

\* Once the next epoch has begun everybody has come to the end.
LEMMA EverybodyDone ==
  ASSUME NEW d \in Nat, FlipsFit(d), ScheduleFits, TimesInv, HangInv(d),
         now = Horizon, SlotLeft, NEW u \in Users, u \notin Delayed, u \notin Refused
  PROVE  pc[u] = "done"
<1>1. pc[u] \in Calls BY DEF TimesInv, SessionsInv, SessionsTyped
<1>2. /\ now \in Nat /\ due[u] \in Nat /\ left[u] \in Nat
      /\ InTurn(u, d) /\ Answered(u) /\ Early(u, d)
  BY LoopTimes
<1>3. Timely(u) /\ OnTime(u) /\ limit[u] \in Nat BY DEF TimesInv, TimesTyped
<1>4. now = End + Poll + 2 * Slack BY DEF Horizon
<1>5. Latest(d) \in Nat /\ Latest(d) + 3 * Slack < Start
  BY TurnNumbers, AllFlipsFinite DEF Latest, FlipsFit
<1>6. ~Submitting(u)
  <2> SUFFICES ASSUME Submitting(u) PROVE FALSE OBVIOUS
  <2>1. PICK t : t = (Ends + 1) * Turn(d) OBVIOUS
  <2>2. now <= t /\ t <= Latest(d) /\ t \in Nat BY <2>1, StillEarly DEF Latest
  <2> QED BY <1>2, <1>4, <1>5, <2>2, ClockNumbers
<1>7. pc[u] \in InLoop => pc[u] = "flip" /\ left[u] = 0
  BY <1>2, <1>6 DEF Submitting, InTurn, InLoop
<1>8. pc[u] \notin InLoop \cup {"submitted", "FlipLottery"}
  <2> SUFFICES ASSUME pc[u] \in InLoop \cup {"submitted", "FlipLottery"} PROVE FALSE OBVIOUS
  <2>1. pc[u] \in {"flip", "submitted", "FlipLottery"} BY <1>7
  <2>2. now <= due[u] BY <1>3, <2>1 DEF OnTime
  <2>3. due[u] <= Latest(d) + 2 * Slack \/ due[u] < Start
    BY <1>2, <1>5, <1>7, <2>1, ClockNumbers DEF Early, InLoop
  <2> QED BY <1>2, <1>4, <1>5, <2>2, <2>3, ClockNumbers
<1>9. pc[u] \notin {"private", "public", "ShortSession", "answerShort"}
  <2> SUFFICES ASSUME pc[u] \in {"private", "public", "ShortSession", "answerShort"} PROVE FALSE
    OBVIOUS
  <2>1. now <= due[u] BY <1>3 DEF OnTime
  <2>2. PICK x, y : x = faults * (Poll + Slack) /\ y = MaxFaults * (Poll + Slack) OBVIOUS
  <2>3. x \in Nat /\ y \in Nat /\ x <= y
    BY <2>2, FaultsGrow, ClockNumbers DEF TimesInv, TimesTyped
  <2>4. Begun \in Nat /\ Begun = Start + 3 * Slack + y /\ Begun <= Finish
    BY <2>2, ScheduleNumbers
  <2>5. pc[u] = "private" => due[u] < Start + Slack + x BY <1>3, <2>2 DEF Timely
  <2>6. due[u] < Finish BY <1>2, <1>3, <2>3, <2>4, <2>5, ClockNumbers DEF Timely
  <2> QED BY <1>2, <1>4, <2>1, <2>6, ClockNumbers
<1>10. pc[u] # "shortHashes"
  <2> SUFFICES ASSUME pc[u] = "shortHashes" PROVE FALSE OBVIOUS
  <2>1. now <= due[u] /\ due[u] <= limit[u] + Poll + Slack BY <1>3 DEF OnTime, Timely
  <2>2. PICK w \in Waits : limit[u] < Begun + w BY <1>3 DEF Timely
  <2>3. Begun \in Nat /\ w \in Nat /\ Begun + w + Poll + 2 * Slack <= Finish
    BY ScheduleNumbers, ClockNumbers DEF ScheduleFits
  <2> QED BY <1>2, <1>3, <1>4, <2>1, <2>2, <2>3, ClockNumbers
<1>11. pc[u] \notin {"LongSession", "open", "answerLong"}
  <2> SUFFICES ASSUME pc[u] \in {"LongSession", "open", "answerLong"} PROVE FALSE OBVIOUS
  <2>1. now <= due[u] BY <1>3 DEF OnTime
  <2>2. Opened \in Nat /\ Opened <= LongEnd /\ Opened = Finish + Poll + 2 * Slack
    BY ScheduleNumbers DEF Opened
  <2>3. due[u] < LongEnd BY <1>2, <1>3, <2>2, ClockNumbers DEF Timely
  <2> QED BY <1>2, <1>4, <2>1, <2>3, ClockNumbers
<1>12. pc[u] # "longHashes"
  <2> SUFFICES ASSUME pc[u] = "longHashes" PROVE FALSE OBVIOUS
  <2>1. now <= due[u] /\ due[u] <= limit[u] + Poll + Slack BY <1>3 DEF OnTime, Timely
  <2>2. PICK w \in Waits : limit[u] < Opened + w BY <1>3 DEF Timely
  <2>3. Opened \in Nat /\ w \in Nat /\ Opened + w + Poll + 2 * Slack <= LongEnd
    BY ScheduleNumbers, ClockNumbers DEF ScheduleFits
  <2> QED BY <1>2, <1>3, <1>4, <2>1, <2>2, <2>3, ClockNumbers
<1>13. pc[u] # "None"
  <2> SUFFICES ASSUME pc[u] = "None" PROVE FALSE OBVIOUS
  <2>1. now <= due[u] /\ due[u] < End + Poll + Slack BY <1>2, <1>3 DEF OnTime, Answered
  <2> QED BY <1>2, <1>4, <2>1, ClockNumbers
<1> QED BY <1>1, <1>8, <1>9, <1>10, <1>11, <1>12, <1>13 DEF Calls, InLoop

\* Wherever the schedule fits, flips exist, and there is time enough to submit
\* them one after the other, each mined within longest: for any number of
\* users, flips and slots, in any epoch, however late each step is and
\* whichever requests fail, no session waits for ever for another's slot or
\* keys.  At the end of the ceremony whoever was neither refused a flip nor
\* stopped has sent its keys, answered, and gone on to the next epoch
\* (verification.go:276-337, 398-416, 581-625).
THEOREM NobodyIsLeftHanging ==
  ASSUME ScheduleFits, Silent > 0, NEW longest \in Nat, FlipsFit(longest)
  PROVE  Spec => []NobodyHangs
<1>1. ASSUME HangInv(longest), TimesInv, TimesInv', [Next]_vars PROVE HangInv(longest)'
  <2>1. CASE UNCHANGED vars BY <1>1, <2>1, NobodyGoes DEF vars
  <2>2. CASE Tick BY <1>1, <2>2, TickGoes
  <2>3. CASE Ended BY <2>1, <2>3 DEF Ended
  <2>4. ASSUME NEW u \in Users, Session(u) PROVE HangInv(longest)'
    <3>1. CASE NextFlip(u) BY <1>1, <3>1, NextFlipGoes
    <3>2. CASE TakeSlot(u) BY <1>1, <3>2, TakeSlotGoes
    <3>3. CASE SubmitFlip(u) BY <1>1, <3>3, SubmitFlipGoes
    <3>4. CASE SubmitFlipFails(u) BY <1>1, <3>4, SubmitFlipFailsGoes
    <3>5. CASE WaitForFlip(u) BY <1>1, <3>5, WaitForFlipGoes
    <3>6. CASE ProvideDelayedFlipKey(u) BY <1>1, <3>6, ProvideGoes
    <3>7. ASSUME NEW p \in {"FlipLottery", "ShortSession", "LongSession", "None"},
                 WaitForPeriod(u, p)
          PROVE  HangInv(longest)'
      BY <1>1, <3>7, WaitGoes
    <3>8. CASE \/ SendPrivate(u) \/ PrivateFails(u) \/ SendPublic(u)
               \/ GetShortHashes(u) \/ GetLongHashes(u)
      BY <1>1, <3>8, LoadingGoes
    <3>9. CASE CallFails(u) BY <1>1, <3>9, NobodyGoes DEF CallFails
    <3>10. CASE SubmitShort(u) \/ SubmitOpenShort(u) \/ SubmitLong(u) BY <1>1, <3>10, AnswerGoes
    <3> QED BY <2>4, <3>1, <3>2, <3>3, <3>4, <3>5, <3>6, <3>7, <3>8, <3>9, <3>10 DEF Session
  <2> QED BY <1>1, <2>1, <2>2, <2>3, <2>4 DEF Next
<1>2. Init => HangInv(longest) BY HangInitially
<1>3. ASSUME HangInv(longest), TimesInv PROVE NobodyHangs
  <2> SUFFICES ASSUME now = Horizon, SlotLeft, NEW u \in Users, u \notin Delayed, u \notin Refused
               PROVE  /\ pc[u] = "done"
                      /\ made[u] > 0 => u \in private \cap public
                      /\ u \notin Skippers => "never" \notin {short[u], long[u]}
    BY DEF NobodyHangs
  <2>1. pc[u] = "done" BY <1>3, EverybodyDone
  <2>2. made[u] > 0 => u \in private \cap public
    <3>1. Stage(pc[u]) = 2 BY <2>1 DEF Stage
    <3> QED BY <1>3, <3>1 DEF TimesInv, SessionsInv, KeysSent
  <2>3. u \notin Skippers => short[u] # "never" /\ long[u] # "never"
    BY <1>3, <2>1 DEF HangInv, Answered
  <2> QED BY <2>1, <2>2, <2>3
<1>4. Spec => []TimesInv BY TimesInvariance
<1> QED BY <1>1, <1>2, <1>3, <1>4, PTL DEF Spec
=============================================================================
