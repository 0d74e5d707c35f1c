------------------------------- MODULE MCUser ------------------------------
(***************************************************************************)
(* What one user does in an epoch with its own data: switching its online  *)
(* status, submitting its flips, answering those of others.  The three     *)
(* share no state, so their steps commute and it is enough to run each of  *)
(* them beside two that have ended.                                        *)
(***************************************************************************)
EXTENDS Answers, FlipQuota, OnlineSwitch

\* Both answers occur, and one grade of each kind that the code tells apart.
AlternatingTruth == [f \in 1..N |-> IF f % 2 = 0 THEN "left" ELSE "right"]
EveryKind == {0, 1, 2, 3}

AllModes == {"normal", "validationOnly", "fastNewbie"}
SomeIdentities ==
  {[required |-> r, available |-> r + a, pairs |-> r + a + p] :
     r \in 0..3, a \in 0..2, p \in 0..1}
EvenPositions == {1, 3}
SomeOverrides == {0, 2, 5}

\* Epochs without a switch, with one of each kind, and with both.
SomeOnlines == {2, 4}
SomeOfflines == {1, 2}

-----------------------------------------------------------------------------
AnswersOver ==
  /\ extra = {} /\ ready = {} /\ isShort = TRUE /\ fail = FALSE /\ mode = "other"
  /\ pc = "done" /\ i = 1
  /\ increased = 0 /\ answers = [f \in Flips |-> NoAnswer]
  /\ allow = 0 /\ chosen = Flips
  /\ reports = 0 /\ result = [f \in Flips |-> NoAnswer]

QuotaOver ==
  /\ epoch = MaxEpoch /\ botMode = "normal" /\ god = FALSE
  /\ identity = CHOOSE id \in Identities : id.required = 0
  /\ override = NoOverride /\ flips = <<>> /\ pool = <<>> /\ qpc = "over"
  /\ count = 0 /\ idx = 0 /\ before = 0 /\ made = 0
  /\ words = [n \in {} |-> 0] /\ refused = FALSE /\ faults = 0

OnlineOver ==
  /\ testIndex = MaxTestIndex /\ now = 0 /\ began = 0 /\ validated = FALSE
  /\ opc = "skipped" /\ modes = <<>> /\ spent = 0
  /\ autoSent = FALSE /\ auto = 0 /\ status = "offline" /\ wanted = "none"

UserInit == \/ Init /\ QuotaOver /\ OnlineOver
            \/ AnswersOver /\ QuotaInit /\ OnlineOver
            \/ AnswersOver /\ QuotaOver /\ OnlineInit

UserNext == \/ Next /\ UNCHANGED <<quotaVars, onlineVars>>
            \/ QuotaNext /\ UNCHANGED <<vars, onlineVars>>
            \/ OnlineNext /\ UNCHANGED <<vars, quotaVars>>

UserSpec == UserInit /\ [][UserNext]_<<vars, quotaVars, onlineVars>>
=============================================================================
