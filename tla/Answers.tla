------------------------------ MODULE Answers ------------------------------
(***************************************************************************)
(* The answers of one session of a shared-node user: getAnswers draws a    *)
(* grade and an answer for every flip, submitAnswers chooses the flips     *)
(* that are answered, prepareAnswers makes the answers that go on chain.   *)
(* Each is a loop over the flips; a flip is its position in the list.      *)
(***************************************************************************)
EXTENDS Integers, FiniteSets

CONSTANTS
  N,            (* flips of the session; checkFlipHashes refuses none      *)
  Truth,        (* the answer that determineFlipAnswer reads off the hash  *)
  Grades        (* grades drawn: 0 none, 1 reported, 2 D, 3 C, 4 B, 5 A    *)

ASSUME AnswersAssumption ==
  /\ N \in Nat \ {0}
  /\ Truth \in [1..N -> {"left", "right"}]
  /\ Grades \subseteq 0..5

VARIABLES
  extra, ready,         (* the flips marked Extra and Ready                *)
  isShort, mode, fail,  (* session, random mode, failShortSession          *)
  pc, i,                (* the loop that runs and its position             *)
  increased, answers,   (* increasedGradeCnt, allAnswers                   *)
  allow, chosen,        (* allowableExtraFlips, the flips in answers       *)
  reports, result       (* reportsCount, the prepared answers              *)

vars == <<extra, ready, isShort, mode, fail, pc, i, increased, answers,
          allow, chosen, reports, result>>
given == <<extra, ready, isShort, mode, fail>>

Flips == 1..N
NoAnswer == [grade |-> 0, answer |-> "none"]

Init ==
  /\ extra \in SUBSET Flips /\ ready \in SUBSET Flips
  /\ isShort \in BOOLEAN /\ fail \in BOOLEAN
  /\ mode \in {"reportAll", "noApproves", "several", "other"}
  /\ pc = "answer" /\ i = 1
  /\ increased = 0 /\ answers = [f \in Flips |-> NoAnswer]
  /\ allow = 0 /\ chosen = {}
  /\ reports = 0 /\ result = [f \in Flips |-> NoAnswer]

\* The next flip, or the loop after this one.
Advance(next) ==
  IF i = N THEN i' = 1 /\ pc' = next ELSE i' = i + 1 /\ UNCHANGED pc

-----------------------------------------------------------------------------
(* getAnswers                                                              *)

Reverse(a) == CASE a = "left" -> "right" [] a = "right" -> "left"
                [] OTHER -> a

FlipAnswer(f) == IF f \in ready THEN Truth[f] ELSE "none"

\* Mutant: both sessions are failed.
FailBoth(f) == IF fail THEN Reverse(FlipAnswer(f)) ELSE FlipAnswer(f)

Intended(f) == IF fail /\ isShort THEN Reverse(FlipAnswer(f))
                                  ELSE FlipAnswer(f)

\* Without severalIncreasedGrades only the first grade above D is kept.
Grade(g) ==
  LET a == IF mode = "noApproves" /\ g >= 2 THEN 0 ELSE g
  IN IF mode = "reportAll" THEN 1
     ELSE IF mode # "several" /\ a > 2 /\ increased = 1 THEN 2 ELSE a

Answer ==
  /\ pc = "answer"
  /\ \E g \in Grades :
       /\ answers' = [answers EXCEPT ![i] = [grade |-> Grade(g),
                                             answer |-> Intended(i)]]
       /\ increased' = IF Grade(g) > 2 THEN increased + 1 ELSE increased
  /\ Advance("select")
  /\ UNCHANGED <<given, allow, chosen, reports, result>>

-----------------------------------------------------------------------------
(* submitAnswers                                                           *)

Skip ==
  /\ pc = "select" /\ i \in extra /\ allow = 0
  /\ Advance("prepare")
  /\ UNCHANGED <<given, increased, answers, allow, chosen, reports, result>>

\* Mutant: an extra flip that is answered does not use up its slot.
TakeKeepsSlot ==
  /\ pc = "select" /\ (i \in extra => allow > 0)
  /\ chosen' = chosen \cup {i}
  /\ allow' = allow + (IF i \in ready THEN 0 ELSE 1)
  /\ Advance("prepare")
  /\ UNCHANGED <<given, increased, answers, reports, result>>

\* Mutant: an extra flip that is not ready makes room for no other.
TakeNotReadyExtra ==
  /\ pc = "select" /\ (i \in extra => allow > 0)
  /\ chosen' = chosen \cup {i}
  /\ allow' = IF i \in extra THEN allow - 1
              ELSE allow + (IF i \in ready THEN 0 ELSE 1)
  /\ Advance("prepare")
  /\ UNCHANGED <<given, increased, answers, reports, result>>

\* An extra flip takes the place of a flip that was not ready.
Take ==
  /\ pc = "select" /\ (i \in extra => allow > 0)
  /\ chosen' = chosen \cup {i}
  /\ allow' = allow - (IF i \in extra THEN 1 ELSE 0)
                    + (IF i \in ready THEN 0 ELSE 1)
  /\ Advance("prepare")
  /\ UNCHANGED <<given, increased, answers, reports, result>>

-----------------------------------------------------------------------------
(* prepareAnswers                                                          *)

\* findAnswer returns nil or an answer None: the flip is passed over.
PassOver ==
  /\ pc = "prepare" /\ (i \notin chosen \/ answers[i].answer = "none")
  /\ Advance("done")
  /\ UNCHANGED <<given, increased, answers, allow, chosen, reports, result>>

\* Mutant: reportsCount is compared before it is incremented.
TooManyLate(n) == 100 * (n - 1) >= 34 * N

\* reportsCount / len(flips) >= 0.34, exactly.
TooMany(n) == 100 * n >= 34 * N

Prepare ==
  /\ pc = "prepare" /\ i \in chosen /\ answers[i].answer # "none"
  /\ LET reported == ~isShort /\ answers[i].grade = 1
         n == IF reported THEN reports + 1 ELSE reports
         grade == IF isShort \/ (reported /\ TooMany(n)) THEN 0
                  ELSE answers[i].grade
     IN /\ reports' = n
        /\ result' = [result EXCEPT ![i] = [grade |-> grade,
                                            answer |-> answers[i].answer]]
  /\ Advance("done")
  /\ UNCHANGED <<given, increased, answers, allow, chosen>>

Done == pc = "done" /\ UNCHANGED vars

Next == Answer \/ Skip \/ Take \/ PassOver \/ Prepare \/ Done
Spec == Init /\ [][Next]_vars

-----------------------------------------------------------------------------
(* Properties                                                              *)

Required == Flips \ extra
Answered == chosen \cap ready
Reported == {f \in Flips : result[f].grade = 1}

TypeOK ==
  /\ extra \subseteq Flips /\ ready \subseteq Flips
  /\ isShort \in BOOLEAN /\ fail \in BOOLEAN
  /\ mode \in {"reportAll", "noApproves", "several", "other"}
  /\ pc \in {"answer", "select", "prepare", "done"} /\ i \in Flips
  /\ increased \in 0..N /\ reports \in 0..N
  /\ answers \in [Flips -> [grade : 0..5, answer : {"none", "left", "right"}]]
  /\ result \in [Flips -> [grade : 0..5, answer : {"none", "left", "right"}]]
  /\ allow \in 0..N /\ chosen \subseteq Flips

\* A session never answers more flips than it was given without the extra
\* ones: each extra flip replaces a flip that was not ready, once.
ExtrasReplace == Cardinality(Answered) <= Cardinality(Required)

\* With the extra flips at the end of the list, as the node returns them, the
\* loop answers as many flips as it may: no free slot is wasted.
SlotsUsed ==
  /\ pc \in {"prepare", "done"}
  /\ \A e \in extra, f \in Required : f < e
  => \/ Cardinality(Answered) = Cardinality(Required)
     \/ Answered = ready

\* Fewer than 34 % of the flips of the session are reported on chain,
\* whatever was drawn, although flips that are passed over do not count.
ReportsCapped == 100 * Cardinality(Reported) < 34 * N

Increased == {f \in Flips : result[f].grade > 2}

\* What goes on chain: the flips that are ready and answered, failed on
\* purpose in the short session only, and nothing for any other flip; with
\* noApproves no grade above "reported", and at most one above D unless
\* severalIncreasedGrades was drawn.
AnsweredAsIntended ==
  /\ pc = "done" => \A f \in Flips :
       result[f].answer =
         IF f \notin Answered THEN "none"
         ELSE IF fail /\ isShort THEN Reverse(Truth[f]) ELSE Truth[f]
  /\ mode = "noApproves" => \A f \in Flips : result[f].grade <= 1
  /\ mode # "several" => Cardinality(Increased) <= 1
=============================================================================
