---------------------------- MODULE OnlineSwitch ---------------------------
(***************************************************************************)
(* switchOnlineState of one user over the epochs: what the scenario lists  *)
(* for the epoch, or else the one automatic switch of a validated user;    *)
(* tried again until a deadline before the validation.  An attempt takes   *)
(* as long as its requests do: on a shared node five of ten seconds for    *)
(* the nonce and ten for the transaction (user_shared.go:641-648), and     *)
(* before them the wait for client.mutex, which the code does not limit.   *)
(* How the transaction itself is sent is in Transactions.                  *)
(***************************************************************************)
EXTENDS Integers, Sequences

CONSTANTS
  Onlines,      (* EpochNodeOnlines: the epochs that list the user         *)
  Offlines,     (* EpochNodeOfflines                                       *)
  Validation,   (* nextValidationTime                                      *)
  Margin,       (* time before it when attempts are to end (5 minutes)     *)
  Pause,        (* requestRetryDelay                                       *)
  Longest,      (* what the longest attempt takes, whatever that is        *)
  MaxTestIndex  (* bounds the epochs                                       *)

ASSUME OnlineAssumption ==
  /\ Onlines \subseteq 0..MaxTestIndex /\ Offlines \subseteq 0..MaxTestIndex
  /\ Validation \in Nat /\ Margin \in Nat /\ Pause \in Nat /\ Longest \in Nat
  /\ MaxTestIndex \in Nat

VARIABLES
  testIndex, now,
  began,        (* when the first attempt of the epoch could begin         *)
  validated,    (* identity.State is Newbie, Verified or Human             *)
  opc,          (* "begin", "try", "pause", "flips", "skipped" or "exited" *)
  modes,        (* switches still to make: "online", "offline", "auto"     *)
  spent,        (* time spent on this attempt or pause                     *)
  autoSent,     (* AutoOnlineSent                                          *)
  auto,         (* automatic switches that were accepted                   *)
  status,       (* what the user last asked the network for                *)
  wanted        (* what the scenario last asked for, after the automatic
                   switch; "none" if nothing                               *)

onlineVars == <<testIndex, now, began, validated, opc, modes, spent, autoSent,
                auto, status, wanted>>

\* Mutant: no time is left before the validation.
deadlineLate == Validation

deadline == Validation - Margin

OnlineInit ==
  /\ testIndex = 0 /\ now = 0 /\ began = 0 /\ validated \in BOOLEAN
  /\ opc = "begin" /\ modes = <<>> /\ spent = 0
  /\ autoSent = FALSE /\ auto = 0
  /\ status = "offline" /\ wanted = "none"

-----------------------------------------------------------------------------
(* switchOnlineState                                                       *)

Listed == (IF testIndex \in Onlines THEN <<"online">> ELSE <<>>) \o
          (IF testIndex \in Offlines THEN <<"offline">> ELSE <<>>)

Modes == IF Listed = <<>> /\ ~autoSent /\ validated THEN <<"auto">> ELSE Listed

\* The epoch, and for the automatic switch the identity, has been read.
Begin ==
  /\ opc = "begin"
  /\ began' = now
  /\ modes' = Modes
  /\ opc' = IF modes' = <<>> THEN "flips" ELSE "try"
  /\ spent' = 0
  /\ UNCHANGED <<testIndex, now, validated, autoSent, auto, status, wanted>>

\* The switch is made, or given up: the next one.
Proceed ==
  /\ modes' = Tail(modes)
  /\ opc' = IF modes' = <<>> THEN "flips" ELSE "try"
  /\ spent' = 0

\* Mutant: the automatic switch is not remembered.
AcceptedForgotten ==
  /\ opc = "try"
  /\ status' = IF Head(modes) = "auto" THEN "online" ELSE Head(modes)
  /\ auto' = IF Head(modes) = "auto" THEN auto + 1 ELSE auto
  /\ wanted' = IF Head(modes) # "auto" /\ auto > 0 THEN Head(modes) ELSE wanted
  /\ Proceed
  /\ UNCHANGED <<testIndex, now, began, validated, autoSent>>

Accepted ==
  /\ opc = "try"
  /\ status' = IF Head(modes) = "auto" THEN "online" ELSE Head(modes)
  /\ autoSent' = (autoSent \/ Head(modes) = "auto")
  /\ auto' = IF Head(modes) = "auto" THEN auto + 1 ELSE auto
  /\ wanted' = IF Head(modes) # "auto" /\ auto > 0 THEN Head(modes) ELSE wanted
  /\ Proceed
  /\ UNCHANGED <<testIndex, now, began, validated>>

-----------------------------------------------------------------------------
(* tryToSwitchOnlineState: an error                                        *)

TryLater ==
  /\ opc = "try" /\ now <= deadline
  /\ opc' = "pause" /\ spent' = 0
  /\ UNCHANGED <<testIndex, now, began, validated, modes, autoSent, auto, status, wanted>>

TryAgain ==
  /\ opc = "pause"
  /\ opc' = "try" /\ spent' = 0
  /\ UNCHANGED <<testIndex, now, began, validated, modes, autoSent, auto, status, wanted>>

\* A switch of the scenario that fails is fatal, an automatic one is not.
GiveUp ==
  /\ opc = "try" /\ now > deadline
  /\ \/ Head(modes) = "auto" /\ Proceed
     \/ Head(modes) # "auto" /\ opc' = "exited" /\ UNCHANGED <<modes, spent>>
  /\ UNCHANGED <<testIndex, now, began, validated, autoSent, auto, status, wanted>>

-----------------------------------------------------------------------------
(* Time                                                                    *)

\* A session, that of a user invited after the flips for one, may begin at any
\* time before the validation.
Minute ==
  /\ \/ opc = "begin" /\ now < Validation /\ UNCHANGED spent
     \/ opc = "try" /\ spent < Longest /\ spent' = spent + 1
     \/ opc = "pause" /\ spent < Pause /\ spent' = spent + 1
  /\ now' = now + 1
  /\ UNCHANGED <<testIndex, began, validated, opc, modes, autoSent, auto, status, wanted>>

\* A user whose node is stopped has no session.
SkipSession ==
  /\ opc = "begin"
  /\ opc' = "skipped"
  /\ UNCHANGED <<testIndex, now, began, validated, modes, spent, autoSent, auto, status,
                 wanted>>

NextTest ==
  /\ opc \in {"flips", "skipped"} /\ testIndex < MaxTestIndex
  /\ testIndex' = testIndex + 1 /\ now' = 0 /\ began' = 0 /\ validated' \in BOOLEAN
  /\ opc' = "begin" /\ modes' = <<>> /\ spent' = 0
  /\ UNCHANGED <<autoSent, auto, status, wanted>>

OnlineEnded ==
  /\ \/ opc = "exited"
     \/ opc \in {"flips", "skipped"} /\ testIndex = MaxTestIndex
  /\ UNCHANGED onlineVars

OnlineNext ==
  \/ Begin \/ Accepted \/ TryLater \/ TryAgain \/ GiveUp
  \/ Minute \/ SkipSession \/ NextTest \/ OnlineEnded

OnlineSpec == OnlineInit /\ [][OnlineNext]_onlineVars

-----------------------------------------------------------------------------
(* Properties                                                              *)

OnlineTypeOK ==
  /\ testIndex \in 0..MaxTestIndex /\ validated \in BOOLEAN
  /\ now \in Nat /\ began \in 0..Validation
  /\ opc \in {"begin", "try", "pause", "flips", "skipped", "exited"}
  /\ modes \in {<<>>, <<"online">>, <<"offline">>, <<"auto">>,
                <<"online", "offline">>}
  /\ opc \in {"try", "pause"} <=> (modes # <<>> /\ opc # "exited")
  /\ spent \in Nat /\ autoSent \in BOOLEAN /\ auto \in Nat
  /\ status \in {"online", "offline"} /\ wanted \in {"none", "online", "offline"}

\* A user switches by itself once in its life, however many epochs, failed
\* attempts and skipped sessions lie between, and from then on its status is
\* what the scenario last asked for (verification.go:236-243).
SwitchesByItselfOnce ==
  /\ auto <= 1
  /\ wanted # "none" => status = wanted

\* What the attempts may cost the flips, for which they should "leave time"
\* (verification.go:258): an attempt that fails after the deadline is the last
\* one of its switch, one that succeeds late is followed by one of the next
\* switch at most.  So the session gets to its flips a pause and two attempts
\* after the deadline, or two attempts after it began, if that was later.
TimeForFlips ==
  opc = "flips" =>
    \/ now <= Validation - Margin + Pause + 2 * Longest
    \/ now <= began + 2 * Longest
=============================================================================
