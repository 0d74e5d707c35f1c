----------------------------- MODULE FlipQuota -----------------------------
(***************************************************************************)
(* How many flips a user submits in an epoch and with which word pairs:    *)
(* GetRequiredFlipsInfo, getFlipsInfoToSubmit and the loop of submitFlips, *)
(* for one user over several epochs.  Ceremony has the same loop in time   *)
(* and among users; here are its numbers, and what the node thinks of      *)
(* them.  The words of a pair are the pair's number.                       *)
(***************************************************************************)
EXTENDS Integers, Sequences, FiniteSets

CONSTANTS
  BotModes,     (* "normal", "validationOnly" or "fastNewbie"              *)
  Even,         (* positions from the end of the address with an even byte *)
  AddressLen,   (* bytes of an address (42 in the code)                    *)
  Identities,   (* [required, available, pairs] the chain may report       *)
  Overrides,    (* what a scenario may say for SubmitFlips                 *)
  NoOverride,   (* SubmitFlips is nil                                      *)
  MaxEpoch,     (* bounds the epochs                                       *)
  MaxFaults     (* bounds the failures of requests in an epoch             *)

initialRequiredFlips == 1
Byte == 256

\* The chain allows no less than it requires, gives a pair for every flip it
\* allows, and allows not many more: those are told by bytes of the address.
ASSUME QuotaAssumption ==
  /\ BotModes \subseteq {"normal", "validationOnly", "fastNewbie"}
  /\ AddressLen \in Nat /\ Even \subseteq 1..AddressLen
  /\ \A id \in Identities :
       /\ id.required \in 0..(Byte - 1) /\ id.available \in id.required..(Byte - 1)
       /\ id.available - id.required <= AddressLen
       /\ id.pairs \in Nat /\ id.available <= id.pairs
  /\ Overrides \subseteq Nat /\ NoOverride \notin Nat
  /\ MaxEpoch \in Nat /\ MaxFaults \in Nat

VARIABLES
  epoch,        (* testCounter                                             *)
  botMode, god, (* the flags of the bot; whether it is the god user's      *)
  identity,     (* what the chain requires and allows in this epoch        *)
  flips,        (* pairs of the user's flips on the chain, in order        *)
  pool,         (* pairs of its flips that the node has accepted           *)
  override,     (* UserCeremony.SubmitFlips                                *)
  qpc,          (* where the session is                                    *)
  count, idx,   (* flipsToSubmit and the loop's variable                   *)
  before,       (* number of the flips before the one that is submitted;
                   -1 when its hash is not known                           *)
  made,         (* TestContext.MadeFlips                                   *)
  words,        (* es.wordsByCid: position in flips to words               *)
  refused,      (* the node had to refuse a flip in this epoch             *)
  faults        (* requests of this epoch that failed otherwise            *)

chain == <<identity, flips, pool, refused>>
quotaVars == <<epoch, botMode, god, chain, override, qpc, count, idx, before,
               made, words, faults>>

QuotaInit ==
  /\ epoch = 0 /\ botMode \in BotModes /\ god \in BOOLEAN
  /\ identity \in Identities /\ override \in Overrides \cup {NoOverride}
  /\ flips = <<>> /\ pool = <<>> /\ qpc = "init"
  /\ count = 0 /\ idx = 0 /\ before = 0 /\ made = 0
  /\ words = [n \in {} |-> 0] /\ refused = FALSE /\ faults = 0

-----------------------------------------------------------------------------
(* How many                                                                *)

\* uint8 arithmetic
Additional == (identity.available - identity.required) % Byte

\* One more for every even byte among the last ones of the address.
EvenBytes == Cardinality(Even \cap 1..Additional)

\* Mutant: the flips that the user has to make are taken as additional ones.
requiredFlipsCountAdditional == EvenBytes - Len(flips)

requiredFlipsCount == ((identity.required + EvenBytes) % Byte) - Len(flips)

\* getFlipsInfoToSubmit
flipsCountToSubmit ==
  IF override # NoOverride THEN override
  ELSE IF epoch = 0 /\ god /\ requiredFlipsCount = 0 THEN initialRequiredFlips
  ELSE requiredFlipsCount

\* A new TestContext; test() has made a new epochState.
initTest ==
  /\ qpc = "init"
  /\ made' = 0 /\ words' = [n \in {} |-> 0]
  /\ qpc' = "ask"
  /\ UNCHANGED <<epoch, botMode, god, chain, override, count, idx, before, faults>>

getFlipsInfoToSubmit ==
  /\ qpc = "ask"
  /\ IF Additional > AddressLen THEN qpc' = "panicked" ELSE qpc' = "loop"
  /\ count' = flipsCountToSubmit /\ idx' = 0
  /\ UNCHANGED <<epoch, botMode, god, chain, override, before, made, words, faults>>

InfoFails ==
  /\ qpc = "ask" /\ faults < MaxFaults
  /\ faults' = faults + 1 /\ qpc' = "exited"
  /\ UNCHANGED <<epoch, botMode, god, chain, override, count, idx, before, made, words>>

-----------------------------------------------------------------------------
(* submitFlips, submitFlip                                                 *)

InARow == botMode = "normal" /\ epoch = 0 /\ count > 1

wordPairIdx == IF InARow THEN 0 ELSE idx % Byte

\* The node takes no more flips than it allows and, but in the first epoch,
\* one for each pair.  The god user may make flips in the first epoch.
Acceptable(pair) ==
  LET there == flips \o pool
  IN  \/ epoch = 0 /\ god
      \/ /\ Len(there) < identity.available
         /\ epoch > 0 => \A n \in DOMAIN there : there[n] # pair

\* The loop ends, or the identity is read before the request.
NextFlip ==
  /\ qpc = "loop"
  /\ qpc' = IF idx >= count THEN "submitted" ELSE "request"
  /\ before' = IF idx < count /\ ~InARow THEN Len(flips) ELSE before
  /\ UNCHANGED <<epoch, botMode, god, chain, override, count, idx, made, words, faults>>

\* In a row nothing is waited for; in validationOnly mode the flip is known by
\* the response, if there is one: at is then the place it will have.
AfterRequest(at) ==
  \/ InARow /\ qpc' = "loop" /\ idx' = idx + 1 /\ UNCHANGED before
  \/ ~InARow /\ botMode # "validationOnly" /\ qpc' = "wait" /\ UNCHANGED <<idx, before>>
  \/ ~InARow /\ botMode = "validationOnly" /\ qpc' = "store" /\ before' = at - 1
     /\ UNCHANGED idx

SubmitFlip ==
  /\ qpc = "request" /\ Acceptable(wordPairIdx)
  /\ pool' = Append(pool, wordPairIdx)
  /\ made' = made + 1
  /\ AfterRequest(Len(flips \o pool) + 1)
  /\ UNCHANGED <<epoch, botMode, god, identity, flips, refused, override, count,
                 words, faults>>

\* An error is logged and then waited for like an answer.
SubmitFlipRefused ==
  /\ qpc = "request" /\ ~Acceptable(wordPairIdx)
  /\ refused' = TRUE
  /\ AfterRequest(0)
  /\ UNCHANGED <<epoch, botMode, god, identity, flips, pool, override, count,
                 made, words, faults>>

\* The request or its answer is lost.
SubmitFlipFails ==
  /\ qpc = "request" /\ faults < MaxFaults
  /\ faults' = faults + 1
  /\ \/ Acceptable(wordPairIdx) /\ pool' = Append(pool, wordPairIdx)
     \/ UNCHANGED pool
  /\ AfterRequest(0)
  /\ UNCHANGED <<epoch, botMode, god, identity, flips, refused, override, count,
                 made, words>>

Mine ==
  /\ pool # <<>> /\ qpc \notin {"panicked", "exited", "over"}
  /\ flips' = Append(flips, Head(pool)) /\ pool' = Tail(pool)
  /\ UNCHANGED <<epoch, botMode, god, identity, refused, override, qpc, count, idx,
                 before, made, words, faults>>

\* Mutant: the list of flips is read once, and its next one taken as known.
MinedUnseen ==
  /\ qpc = "wait" /\ Len(flips) \in before..(before + 1)
  /\ qpc' = "store"
  /\ UNCHANGED <<epoch, botMode, god, chain, override, count, idx, before, made,
                 words, faults>>

Mined ==
  /\ qpc = "wait" /\ Len(flips) = before + 1
  /\ qpc' = "store"
  /\ UNCHANGED <<epoch, botMode, god, chain, override, count, idx, before, made,
                 words, faults>>

\* es.wordsByCid.Store, with the words of the pair
Store ==
  /\ qpc = "store"
  /\ IF epoch > 0 /\ wordPairIdx >= identity.pairs
     THEN qpc' = "panicked" /\ UNCHANGED <<idx, words>>
     ELSE /\ qpc' = "loop" /\ idx' = idx + 1
          /\ words' = IF epoch > 0 /\ before >= 0
                      THEN [n \in DOMAIN words \cup {before + 1} |->
                              IF n = before + 1 THEN wordPairIdx ELSE words[n]]
                      ELSE words
  /\ UNCHANGED <<epoch, botMode, god, chain, override, count, before, made, faults>>

\* The flip lottery begins; a session that still waits is ended by the
\* timeout of the test.
TimedOut ==
  /\ qpc = "wait" /\ pool = <<>> /\ Len(flips) # before + 1
  /\ qpc' = "exited"
  /\ UNCHANGED <<epoch, botMode, god, chain, override, count, idx, before, made,
                 words, faults>>

\* The next epoch, with what the validation made of the user.
NextEpoch ==
  /\ qpc = "submitted" /\ pool = <<>>
  /\ IF epoch = MaxEpoch THEN qpc' = "over" /\ UNCHANGED <<epoch, identity, flips,
                                                          override, refused, faults>>
     ELSE /\ qpc' = "init" /\ epoch' = epoch + 1
          /\ identity' \in Identities /\ override' \in Overrides \cup {NoOverride}
          /\ flips' = <<>> /\ refused' = FALSE /\ faults' = 0
  /\ UNCHANGED <<botMode, god, pool, count, idx, before, made, words>>

QuotaEnded == qpc \in {"panicked", "exited", "over"} /\ UNCHANGED quotaVars

QuotaNext ==
  \/ initTest \/ getFlipsInfoToSubmit \/ InfoFails \/ NextFlip \/ SubmitFlip
  \/ SubmitFlipRefused \/ SubmitFlipFails \/ Mine \/ Mined \/ Store \/ TimedOut
  \/ NextEpoch \/ QuotaEnded

QuotaSpec == QuotaInit /\ [][QuotaNext]_quotaVars

-----------------------------------------------------------------------------
(* Properties                                                              *)

QuotaTypeOK ==
  /\ epoch \in 0..MaxEpoch /\ botMode \in BotModes /\ god \in BOOLEAN
  /\ identity \in Identities
  /\ flips \in Seq(Nat) /\ pool \in Seq(Nat)
  /\ override \in Overrides \cup {NoOverride}
  /\ qpc \in {"init", "ask", "loop", "request", "wait", "store", "submitted",
             "panicked", "exited", "over"}
  /\ count \in Int /\ idx \in Nat /\ before \in Nat \cup {-1}
  /\ made \in 0..(idx + 1) /\ refused \in BOOLEAN /\ faults \in 0..MaxFaults
  /\ DOMAIN words \subseteq 1..Len(flips \o pool) \/ qpc = "init"

\* Unless the scenario says otherwise, and whatever the chain requires and
\* the address is: a session never submits a flip that the node has to
\* refuse, for which it would wait without end (verification.go:418), nor
\* looks for a pair that does not exist (verification.go:398).  When all is
\* submitted and no request failed, the flips are as many as the chain
\* requires, no more than it allows, and their author knows of them, so that
\* it will send their keys (user_shared.go:466, 506).
QuotaMet ==
  /\ override = NoOverride => ~refused /\ qpc # "panicked"
  /\ qpc = "submitted" /\ faults = 0 =>
       /\ made > 0 <=> flips \o pool # <<>>
       /\ override = NoOverride =>
            /\ Len(flips \o pool) >= identity.required
            /\ ~(epoch = 0 /\ god) => Len(flips \o pool) <= identity.available

\* The words remembered for a flip are those of the pair it was mined with:
\* no earlier or late flip is taken for the one that is waited for, which
\* would end the bot when another user compares them (verification.go:539).
WordsOfTheFlip ==
  qpc # "init" => \A n \in DOMAIN words : n \in DOMAIN flips => words[n] = flips[n]
=============================================================================
