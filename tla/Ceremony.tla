----------------------------- MODULE Ceremony ------------------------------
(***************************************************************************)
(* testUser from submitFlips to the end of the epoch, for users that share *)
(* a clock and the semaphore flipsChan.  A flip is ready once its author's *)
(* public key is out, so the users wait for one another as well as for the *)
(* clock; those who have made no flip send no keys.                        *)
(*                                                                         *)
(* Time is counted in ticks.  Goroutines and requests are slow: a step     *)
(* that may be taken at some time is taken at most Slack ticks later.      *)
(***************************************************************************)
EXTENDS Integers, FiniteSets

CONSTANTS
  Users,                (* users of this bot that run sessions             *)
  Delayed,              (* EpochDelayedFlipKeys: stopped before the lottery*)
  Skippers,             (* SkipValidation                                  *)
  Flips,                (* per user, the flips it has to submit            *)
  Modes,                (* "first" epoch, "later" or "validationOnly"      *)
  Slots,                (* flipsChanSize; 0 for no semaphore               *)
  Blocks,               (* ticks until a flip is mined                     *)
  Silent,               (* authors elsewhere whose keys never arrive       *)
  Lottery, Start, Finish, LongEnd, End,   (* when the periods begin        *)
  Slack,                (* ticks a goroutine may be late                   *)
  Poll,                 (* requestRetryDelay                               *)
  Mining, KeyDelay,     (* "time for mining"; the late key after Start     *)
  Waits,                (* the patience drawn in getFlipHashes: from
                           flipsWaitingMinTimeout to flipsWaitingMaxTimeout*)
  Delays,               (* before long answers: to half the long session   *)
  Lead,                 (* how long before Finish short answers are sent   *)
  AllowShort, AllowLong,  (* allowableNotReadyCount: 3 and 10 in the code  *)
  MaxFaults             (* bounds the requests that fail                   *)

ASSUME CeremonyAssumption ==
  /\ IsFiniteSet(Users) /\ Flips \in [Users -> Nat] /\ Slots \in Nat /\ Blocks \subseteq Nat
  /\ Modes \subseteq {"first", "later", "validationOnly"}
  /\ Delayed \subseteq Users /\ Skippers \subseteq Users
  /\ {Lottery, Start, Finish, LongEnd, End, Slack, Poll, Mining, KeyDelay,
      Lead, AllowShort, AllowLong, Silent, MaxFaults} \subseteq Nat
  /\ Waits \subseteq Nat /\ Waits # {} /\ Delays \subseteq 0..((LongEnd - Finish) \div 2)
  /\ Lottery < Start /\ Start < Finish /\ Finish < LongEnd /\ LongEnd < End
  /\ Slack > 0 /\ Poll > 0

VARIABLES
  now,          (* the clock of the chain and of the bot                   *)
  pc,           (* per user, the call its session is in                    *)
  wake, due,    (* per user, when its next step may and must be taken      *)
  mode,         (* what the epoch is to submitFlips                        *)
  left,         (* per user, flips it has still to submit                  *)
  taken,        (* slots of flipsChan in use                               *)
  minedAt,      (* per user, when its last flip is mined, or Never         *)
  made,         (* per user, TestContext.MadeFlips                         *)
  limit,        (* per user, the deadline of getFlipHashes                 *)
  longAt,       (* per user, when delayChan fires                          *)
  private, public,      (* users whose flip keys have been sent            *)
  short, open, long,    (* per user, the period its answers were sent in   *)
  faults,       (* failed requests so far                                  *)
  exited        (* handleError ended the bot                               *)

flips == <<mode, left, taken, minedAt, made>>
keys == <<private, public>>
answers == <<short, open, long>>
vars == <<now, pc, wake, due, flips, limit, longAt, keys, answers, faults, exited>>

Never == -1

\* The period the chain reports; the next epoch begins with None.
Period(t) ==
  CASE Lottery <= t /\ t < Start  -> "FlipLottery"
    [] Start <= t /\ t < Finish   -> "ShortSession"
    [] Finish <= t /\ t < LongEnd -> "LongSession"
    [] LongEnd <= t /\ t < End    -> "AfterLongSession"
    [] OTHER                      -> "None"

Outcomes == {"None", "FlipLottery", "ShortSession", "LongSession",
             "AfterLongSession", "failed"}

Horizon == End + Poll + 2 * Slack       (* bounds the clock               *)

Later(a, b) == IF a > b THEN a ELSE b

Init ==
  /\ now = 0
  /\ pc = [u \in Users |-> "flip"]
  /\ mode \in Modes /\ left = Flips /\ taken = 0
  /\ minedAt = [u \in Users |-> Never] /\ made = [u \in Users |-> 0]
  /\ wake = [u \in Users |-> 0] /\ due = [u \in Users |-> Slack]
  /\ limit = [u \in Users |-> 0] /\ longAt = [u \in Users |-> 0]
  /\ private = {} /\ public = {}
  /\ short = [u \in Users |-> "never"] /\ open = [u \in Users |-> "never"]
  /\ long = [u \in Users |-> "never"]
  /\ faults = 0 /\ exited = FALSE

-----------------------------------------------------------------------------
(* Time                                                                    *)

\* A session that waits for a slot of flipsChan waits as long as it takes.
Blocked(u) == pc[u] = "slot" /\ Slots # 0 /\ taken = Slots

Tick ==
  /\ ~exited /\ now < Horizon
  /\ \A u \in Users : now < due[u] \/ pc[u] = "done" \/ Blocked(u)
  /\ now' = now + 1
  /\ UNCHANGED <<pc, wake, due, flips, limit, longAt, keys, answers, faults, exited>>

At(u, p) == ~exited /\ pc[u] = p /\ now >= wake[u]

\* The session goes on with p, no earlier than t.
From(u, t, p) ==
  /\ pc' = [pc EXCEPT ![u] = p]
  /\ wake' = [wake EXCEPT ![u] = Later(t, now)]
  /\ due' = [due EXCEPT ![u] = Later(t, now) + Slack]

\* time.Sleep(requestRetryDelay), and the request is repeated.
Retry(u) == From(u, now + Poll, pc[u])

-----------------------------------------------------------------------------
(* submitFlips, submitFlip                                                 *)

\* In the first epoch a user with several flips submits them in a row, with no
\* semaphore and no wait for blocks.
InARow(u) == mode = "first" /\ Flips[u] > 1

\* The loop of submitFlips.
NextFlip(u) ==
  /\ At(u, "flip")
  /\ From(u, now, IF left[u] = 0 THEN "submitted"
                  ELSE IF InARow(u) THEN "request" ELSE "slot")
  /\ UNCHANGED <<now, flips, limit, longAt, keys, answers, faults, exited>>

\* flipsChan <- 1
TakeSlot(u) ==
  /\ At(u, "slot") /\ ~Blocked(u)
  /\ taken' = IF Slots = 0 THEN 0 ELSE taken + 1
  /\ From(u, now, "request")
  /\ UNCHANGED <<now, mode, left, minedAt, made, limit, longAt, keys, answers,
                 faults, exited>>

\* A flip of the loop's body is over: <-flipsChan where there was a slot.
FlipOver(u) ==
  /\ From(u, now, "flip")
  /\ left' = [left EXCEPT ![u] = @ - 1]
  /\ taken' = IF InARow(u) \/ Slots = 0 THEN taken ELSE taken - 1

\* submitFlip polls until the identity has one flip more.
Awaited(u) == ~InARow(u) /\ mode # "validationOnly"

\* u.SubmitFlip
SubmitFlip(u) ==
  /\ At(u, "request")
  /\ made' = [made EXCEPT ![u] = @ + 1]
  /\ IF Awaited(u)
     THEN /\ \E d \in Blocks : minedAt' = [minedAt EXCEPT ![u] = now + d]
          /\ From(u, now + Poll, "mining") /\ UNCHANGED <<left, taken>>
     ELSE FlipOver(u) /\ UNCHANGED minedAt
  /\ UNCHANGED <<now, mode, limit, longAt, keys, answers, faults, exited>>

\* An error is logged, and the flip waited for all the same.
SubmitFlipFails(u) ==
  /\ At(u, "request") /\ faults < MaxFaults
  /\ faults' = faults + 1
  /\ IF Awaited(u)
     THEN From(u, now + Poll, "mining") /\ UNCHANGED <<left, taken>>
     ELSE FlipOver(u)
  /\ UNCHANGED <<now, mode, minedAt, made, limit, longAt, keys, answers, exited>>

Mined(u) == minedAt[u] # Never /\ minedAt[u] <= now

\* Mutant: the slot is not given back.
WaitForFlipKeepsSlot(u) ==
  /\ At(u, "mining")
  /\ IF Mined(u)
     THEN /\ From(u, now, "flip")
          /\ left' = [left EXCEPT ![u] = @ - 1]
          /\ minedAt' = [minedAt EXCEPT ![u] = Never]
     ELSE Retry(u) /\ UNCHANGED <<left, minedAt>>
  /\ UNCHANGED <<now, mode, taken, made, limit, longAt, keys, answers, faults, exited>>

WaitForFlip(u) ==
  /\ At(u, "mining")
  /\ IF Mined(u)
     THEN FlipOver(u) /\ minedAt' = [minedAt EXCEPT ![u] = Never]
     ELSE Retry(u) /\ UNCHANGED <<left, taken, minedAt>>
  /\ UNCHANGED <<now, mode, made, limit, longAt, keys, answers, faults, exited>>

-----------------------------------------------------------------------------
(* provideDelayedFlipKeyIfNeeded, waitForPeriod                            *)

\* sleepTime is computed before the sleep for mining and slept after it.
ProvideDelayedFlipKey(u) ==
  /\ At(u, "submitted")
  /\ IF u \in Delayed
     THEN From(u, Start + KeyDelay + Mining, "FlipLottery")
     ELSE From(u, now, "FlipLottery")
  /\ UNCHANGED <<now, flips, limit, longAt, keys, answers, faults, exited>>

AfterPeriod(u, p) ==
  CASE p = "FlipLottery"  -> "private"
    [] p = "ShortSession" -> IF u \in Skippers THEN "None" ELSE "shortHashes"
    [] p = "LongSession"  -> "open"
    [] p = "None"         -> "done"

\* The end of getFlipHashes' patience is drawn when it is called.
WaitForPeriod(u, p) ==
  /\ At(u, p)
  /\ IF Period(now) = p
     THEN /\ From(u, now, AfterPeriod(u, p))
          /\ \E d \in Waits :
               limit' = IF AfterPeriod(u, p) = "shortHashes"
                        THEN [limit EXCEPT ![u] = now + d] ELSE limit
     ELSE Retry(u) /\ UNCHANGED limit
  /\ UNCHANGED <<now, flips, longAt, keys, answers, faults, exited>>

-----------------------------------------------------------------------------
(* sendPrivateFlipKeysPackages, sendPublicFlipKey                          *)

\* The timer for the public key was set before; the package is sent at once.
\* Those who have made no flip send neither and go on.
SendPrivate(u) ==
  /\ At(u, "private")
  /\ private' = IF made[u] > 0 THEN private \cup {u} ELSE private
  /\ From(u, Start, "public")
  /\ UNCHANGED <<now, flips, limit, longAt, public, answers, faults, exited>>

\* Mutant: a failure is logged, and the package is not sent again.
PrivateGivenUp(u) ==
  /\ At(u, "private") /\ made[u] > 0 /\ faults < MaxFaults
  /\ faults' = faults + 1
  /\ From(u, Start, "public")
  /\ UNCHANGED <<now, flips, limit, longAt, keys, answers, exited>>

\* A failure is logged and the package sent again.
PrivateFails(u) ==
  /\ At(u, "private") /\ made[u] > 0 /\ faults < MaxFaults
  /\ faults' = faults + 1
  /\ Retry(u)
  /\ UNCHANGED <<now, flips, limit, longAt, keys, answers, exited>>

SendPublic(u) ==
  /\ At(u, "public")
  /\ public' = IF made[u] > 0 THEN public \cup {u} ELSE public
  /\ From(u, now, "ShortSession")
  /\ UNCHANGED <<now, flips, limit, longAt, private, answers, faults, exited>>

\* A failure to send the public key, or to load the identity, hashes or flips,
\* is final.
CallFails(u) ==
  /\ faults < MaxFaults
  /\ \/ \E p \in {"mining", "shortHashes", "longHashes"} : At(u, p)
     \/ At(u, "request") /\ ~InARow(u)
     \/ At(u, "public") /\ made[u] > 0
  /\ faults' = faults + 1
  /\ exited' = TRUE
  /\ UNCHANGED <<now, pc, wake, due, flips, limit, longAt, keys, answers>>

-----------------------------------------------------------------------------
(* getFlipHashes and getFlips                                              *)

\* A flip is ready when it can be decrypted; flips are counted by author.
Authors == {u \in Users : made[u] > 0}
NotReady == Silent + Cardinality(Authors \ public)

\* checkFlipHashes: there must be flips; after the deadline some may be missing
\* and before it none.  With more missing after the deadline handleError is called with a nil error (the
\* outer err, since the inner one is out of scope) and returns.
Enough(u, allowed) ==
  /\ Silent + Cardinality(Authors) > 0
  /\ NotReady <= IF now > limit[u] THEN allowed ELSE 0

\* Mutant: the answers are sent at the end of the session and not before it.
AnswerShortAtEnd(u) == From(u, Finish, "answerShort")

\* Short answers are sent 20 seconds before the session ends.
AnswerShortAt(u) == From(u, Finish - Lead, "answerShort")

\* The deadline is forgotten on return.
GetShortHashes(u) ==
  /\ At(u, "shortHashes")
  /\ IF Enough(u, AllowShort)
     THEN AnswerShortAt(u) /\ limit' = [limit EXCEPT ![u] = 0]
     ELSE Retry(u) /\ UNCHANGED limit
  /\ UNCHANGED <<now, flips, longAt, keys, answers, faults, exited>>

GetLongHashes(u) ==
  /\ At(u, "longHashes")
  /\ IF Enough(u, AllowLong)
     THEN /\ From(u, longAt[u], "answerLong")
          /\ limit' = [limit EXCEPT ![u] = 0] /\ longAt' = [longAt EXCEPT ![u] = 0]
     ELSE Retry(u) /\ UNCHANGED <<limit, longAt>>
  /\ UNCHANGED <<now, flips, keys, answers, faults, exited>>

-----------------------------------------------------------------------------
(* submitAnswers, submitOpenShortAnswers                                   *)

\* Answers reach the chain in some period, or a failure is logged.
Outcome(o) ==
  \/ o = Period(now) /\ UNCHANGED faults
  \/ o = "failed" /\ faults < MaxFaults /\ faults' = faults + 1

SubmitShort(u) ==
  /\ At(u, "answerShort")
  /\ \E o \in Outcomes : Outcome(o) /\ short' = [short EXCEPT ![u] = o]
  /\ From(u, now, "LongSession")
  /\ UNCHANGED <<now, flips, limit, longAt, keys, open, long, exited>>

\* The delay is at most half of the long session.  The random deadline of
\* getFlipHashes is drawn as well.
SubmitOpenShort(u) ==
  /\ At(u, "open")
  /\ \E o \in Outcomes : Outcome(o) /\ open' = [open EXCEPT ![u] = o]
  /\ \E d \in Delays, w \in Waits :
       /\ longAt' = [longAt EXCEPT ![u] = now + d]
       /\ limit' = [limit EXCEPT ![u] = now + w]
  /\ From(u, now, "longHashes")
  /\ UNCHANGED <<now, flips, keys, short, long, exited>>

SubmitLong(u) ==
  /\ At(u, "answerLong")
  /\ \E o \in Outcomes : Outcome(o) /\ long' = [long EXCEPT ![u] = o]
  /\ From(u, now, "None")
  /\ UNCHANGED <<now, flips, limit, longAt, keys, short, open, exited>>

-----------------------------------------------------------------------------

Ended == (exited \/ now = Horizon) /\ UNCHANGED vars

Session(u) ==
  \/ NextFlip(u) \/ TakeSlot(u) \/ SubmitFlip(u) \/ SubmitFlipFails(u)
  \/ WaitForFlip(u)
  \/ ProvideDelayedFlipKey(u)
  \/ \E p \in {"FlipLottery", "ShortSession", "LongSession", "None"} :
       WaitForPeriod(u, p)
  \/ SendPrivate(u) \/ PrivateFails(u) \/ SendPublic(u) \/ CallFails(u)
  \/ GetShortHashes(u) \/ GetLongHashes(u)
  \/ SubmitShort(u) \/ SubmitOpenShort(u) \/ SubmitLong(u)

Next == Tick \/ Ended \/ \E u \in Users : Session(u)
Spec == Init /\ [][Next]_vars

-----------------------------------------------------------------------------
(* Properties                                                              *)

Calls == {"flip", "slot", "request", "mining", "submitted", "FlipLottery", "private",
          "public", "ShortSession", "shortHashes", "answerShort", "LongSession", "open",
          "longHashes", "answerLong", "None", "done"}
Times == 0..2 * Horizon

TypeOK ==
  /\ now \in 0..Horizon
  /\ pc \in [Users -> Calls]
  /\ mode \in Modes /\ taken \in 0..Slots
  /\ \A u \in Users : left[u] \in 0..Flips[u] /\ made[u] \in 0..Flips[u]
  /\ minedAt \in [Users -> Times \cup {Never}]
  /\ wake \in [Users -> Times] /\ due \in [Users -> Times]
  /\ limit \in [Users -> Times] /\ longAt \in [Users -> Times]
  /\ private \subseteq Users /\ public \subseteq Users
  /\ short \in [Users -> Outcomes \cup {"never"}]
  /\ open \in [Users -> Outcomes \cup {"never"}]
  /\ long \in [Users -> Outcomes \cup {"never"}]
  /\ faults \in 0..MaxFaults /\ exited \in BOOLEAN

\* Answers reach the chain in the session they belong to, although each user
\* waits for the keys of all the others before it answers; short answers are
\* opened when they can no longer be changed.
AnswersInTime ==
  \A u \in Users : /\ short[u] \in {"never", "failed", "ShortSession"}
                   /\ open[u] \in {"never", "failed", "LongSession"}
                   /\ long[u] \in {"never", "failed", "LongSession"}

\* The sessions of a ceremony fit into its periods: short answers are sent
\* earlier than a goroutine is late, a session that is late in every step and
\* has every failure runs out of patience before the period ends, and then no
\* more keys can be missing than are allowed to.
Begun == Start + 3 * Slack + MaxFaults * (Poll + Slack)
Opened == Finish + Poll + 2 * Slack
ScheduleFits ==
  /\ Slack < Lead
  /\ \A w \in Waits : /\ Begun + w + Poll + 2 * Slack <= Finish
                      /\ Opened + w + Poll + 2 * Slack <= LongEnd
  /\ \A d \in Delays : Opened + d + Slack <= LongEnd
  /\ Silent + Cardinality(Users) - 1 <= AllowShort
  /\ Silent + Cardinality(Users) - 1 <= AllowLong

\* All flips find a slot in time: even if they are submitted one after the
\* other, and each is mined as late as possible, everybody waits for the
\* lottery when it begins, and asks for the period once before it ends.
AllFlips == UNION {{u} \X (1..Flips[u]) : u \in Users}
Turn(longest) == longest + Poll + 4 * Slack
FlipsFit(longest) ==
  /\ \A d \in Blocks : d <= longest
  /\ Cardinality(AllFlips) * Turn(longest) + 3 * Slack < Start
  /\ Lottery + Poll + Slack <= Start

\* Those whose flip was refused wait for it for ever, in a slot of flipsChan.
Refused == {u \in Users : pc[u] = "mining" /\ minedAt[u] = Never}
SlotLeft == Slots = 0 \/ Cardinality(Refused) < Slots

\* No session hangs on another's: as long as fewer flips are refused than there
\* are slots, and although some keys never arrive, everybody else has sent its
\* keys and answered both sessions once the next epoch has begun (the users
\* stopped during the lottery apart).
NobodyHangs ==
  now = Horizon /\ ~exited /\ SlotLeft =>
    \A u \in Users \ (Delayed \cup Refused) :
      /\ pc[u] = "done"
      /\ made[u] > 0 => u \in private \cap public
      /\ u \notin Skippers => "never" \notin {short[u], long[u]}

\* The flips' private keys go out before the public key that decrypts them,
\* and an author reads no flips before its own public key is out.
KeysInOrder ==
  /\ public \subseteq private
  /\ \A u \in Authors : pc[u] \in {"shortHashes", "longHashes"} => u \in public

\* A user whose key is to be late provides it all the same ("providing
\* delayed flip key", verification.go:816).
DelayedKeyProvided ==
  now = Horizon /\ ~exited => Delayed \cap Authors \subseteq public
=============================================================================
